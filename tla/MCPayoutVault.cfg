CONSTANTS
    e1 = e1
    e2 = e2
    t1 = t1
    t2 = t2
    t3 = t3
    Events = {e1, e2}
    Tickets = {t1, t2, t3}
    EventOf <- EventsOfTickets
    Price <- PricesOfTickets
    Treasuries = {a1, a2}
    Kickoffs = {1, 2}
    FeeBps = 5000
    BpsDenom = 10000
    PayoutDelay = 1
    MaxTime = 3
SYMMETRY Symmetry
SPECIFICATION Spec
INVARIANTS
    DepositsCountedOnce
    ClaimableIsHeld
    BalanceAccounting
    SolventUnlessOverdrawn
PROPERTIES
    PayoutIsHeld
