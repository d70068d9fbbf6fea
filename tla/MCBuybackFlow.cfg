\* Ten seats, all sold, five of them here: one returned ticket leaves room for
\* another request, two do not. The limit is one buyback, so that the two
\* requests of a fan meet it; two fans meet the cap.
CONSTANTS
    a0 = a0
    a1 = a1
    a2 = a2
    b1 = b1
    b2 = b2
    single_a = single_a
    group_a = group_a
    group_b = group_b
    fan_a = fan_a
    fan_b = fan_b
    Fans = {fan_a, fan_b}
    Tickets = {a0, a1, a2, b1, b2}
    Idle = 5
    Capacity = 10
    Owner <- OwnerOf
    Group <- GroupOf
    GroupTickets = {a1, a2, b1, b2}
    Vvip = {}
    Requests = {r1, r2}
    Payable = {single_a, group_a}
    SellThrough = 80
    InventoryCap = 15
    MaxPerUser = 1
    MaxAttempts = 2
SYMMETRY Symmetry
SPECIFICATION Spec
INVARIANTS
    CompletedIsPaidOnce
    FailedIsUnpaid
    LimitUnlessOverlap
    StatsUnlessOverlap
    CapUnlessOverlap
CHECK_DEADLOCK FALSE
