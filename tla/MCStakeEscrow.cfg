\* Two vendors, two treasury addresses, the real stakes in tens of
\* dollars. A slash
\* takes 40% instead of 15%, so that the third slash of a stake meets the cap
\* and the fourth takes nothing; a tick of the clock is half an EXIT_DELAY.
CONSTANTS
    Vendors = {v1, v2}
    Treasuries = {t1, t2}
    Escrow = escrow
    SmallStake = 11
    BigStake = 22
    SlashBps = 4000
    BpsDenom = 10000
    ExitDelay = 2
    InitialFunds = 22
    MaxTime = 4
SYMMETRY Symmetry
SPECIFICATION Spec
INVARIANTS
    FundsConserved
    EscrowHoldsClaims
    SlashedIsNotActive
PROPERTIES
    FullTimelockAfterSlash
