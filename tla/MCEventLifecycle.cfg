CONSTANTS
    e1 = e1
    Events = {e1}
    Tickets = {t1}
    EventOf <- EventOfAll
    Price <- PriceOfAll
    Treasuries = {a1}
    Kickoffs = {1}
    FeeBps = 5000
    BpsDenom = 10000
    PayoutDelay = 1
    MaxTime = 3
    WithWallet = {e1}
    OptOutWindow = 1
    Requests = {r1}
    MaxCancels = 1
    MaxSlashes = 1
    MaxLate = 1
SPECIFICATION Spec
INVARIANTS
    OverdrawnHasCause
    SlashedByVendorCancel
    CreditedIsVoid
    RefundHasCause
PROPERTIES
    NeverActiveAgain
    HeldUnlessPostponed
    ImplementsVault
CHECK_DEADLOCK FALSE
