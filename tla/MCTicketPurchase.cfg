\* Two purchases of one or two tickets of two categories, and withdrawals of
\* half the money, compete for the seats and the wallet. Two rows let the only seat of
\* a category be sold again. Two attempts let a retry meet a late transaction of
\* the first.
CONSTANTS
    regular = regular
    vip = vip
    Users = {u1}
    Requests = {r1, r2}
    Categories = {regular, vip}
    Capacity <- SeatsOf
    Price <- PriceOf
    MaxQuantity = 2
    MaxAttempts = 2
    InitialBalance = 8
    Withdrawals = {4}
    MaxTickets = 2
SYMMETRY Symmetry
SPECIFICATION Spec
INVARIANTS
    ActiveIsDeposited
    TicketOrMoney
    NoOversell
    SeatsUniqueUntilFailure
    WalletMatchesTickets
CHECK_DEADLOCK FALSE
