\* The float would pay for a buyback, too, if requestBuyback() got that far.
CONSTANTS
    Events = {e1}
    Tickets = {k1, k2}
    EventOf <- MCEventOf
    Price <- MCPrice
    Treasuries = {t1}
    Kickoffs = {1}
    FeeBps = 200
    BpsDenom = 10000
    PayoutDelay = 1
    MaxTime = 3
    Amounts = {10}
    SingleBps = 9000
    GroupBps = 8000
    PlatformBps = 4000
    MaxFloat = 10
SPECIFICATION CircuitSpec
INVARIANTS
    BuybackPossible
