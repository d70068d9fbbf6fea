\* Two tickets and two treasury addresses; 3 and 5 are amounts whose shares
\* are all rounded; the float is large enough to pay for a deposit.
CONSTANTS
    Tickets = {k1, k2}
    Treasuries = {t1, t2}
    Amounts = {3, 5}
    SingleBps = 9000
    GroupBps = 8000
    PlatformBps = 4000
    BpsDenom = 10000
    MaxFloat = 6
SYMMETRY Symmetry
SPECIFICATION Spec
INVARIANTS
    FloatIntact
    RefundedOnce
    ResoldOnce
    MoneyConserved
