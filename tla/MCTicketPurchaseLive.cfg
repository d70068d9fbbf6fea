CONSTANTS
    regular = regular
    vip = vip
    Users = {u1}
    Requests = {r1, r2}
    Categories = {regular}
    Capacity <- OneCategory
    Price <- OnePrice
    MaxQuantity = 2
    MaxAttempts = 1
    InitialBalance = 6
    Withdrawals = {6}
    MaxTickets = 2
SPECIFICATION FairSpec
PROPERTY
    ImplementsTicketSale
    PendingIsSettled
CHECK_DEADLOCK FALSE
