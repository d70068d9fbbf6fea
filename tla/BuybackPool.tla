----------------------------- MODULE BuybackPool -----------------------------
(***************************************************************************)
(* The BuybackPool contract: it takes a returned ticket's deposit from the *)
(* vault, pays 90% of it to the fan of a single ticket (80% of a group's)  *)
(* and the rest to the treasury, and splits what a new buyer pays between  *)
(* treasury and vendor.  The platform may add a float of its own.          *)
(*                                                                         *)
(* The contract at payoutVault is the pool's environment here: it may call *)
(* receiveDeposit() from within markReturned() or by itself, and has sent  *)
(* the USDC that it registers.  BuybackCircuit composes the pool with the  *)
(* PayoutVault of this repository.  recordReturn() changes no state and    *)
(* has no action.                                                          *)
(***************************************************************************)
EXTENDS Integers, Sums

CONSTANTS
    Tickets,        \* ticket ids
    Treasuries,     \* addresses the owner may name as treasury
    Amounts,        \* USDC amounts of deposits, sales and top-ups
    SingleBps,      \* SINGLE_REFUND_BPS
    GroupBps,       \* GROUP_REFUND_BPS
    PlatformBps,    \* RELIST_PLATFORM_BPS
    BpsDenom,       \* BPS_DENOM
    MaxFloat        \* bound on the platform's float

ASSUME SetAssumption == IsFiniteSet(Tickets) /\ IsFiniteSet(Treasuries)

ASSUME AmountAssumption == Amounts \subseteq Nat \ {0} /\ MaxFloat \in Nat

ASSUME RateAssumption ==
    /\ BpsDenom \in Nat \ {0}
    /\ {SingleBps, GroupBps, PlatformBps} \subseteq 0..BpsDenom

VARIABLES
    returns,        \* ticket -> ReturnRecord
    resales,        \* ticket -> ResaleRecord
    poolFloat,      \* USDC added with fundPool()
    payoutVault,    \* whether the PayoutVault address is set
    treasury,       \* where retentions and platform cuts go
    balance,        \* the contract's USDC
    toFans,         \* history: ticket -> refunds paid for it
    toVendors,      \* history: ticket -> vendor cuts paid for it
    toTreasuries    \* history: treasury -> USDC it received

vars == <<returns, resales, poolFloat, payoutVault, treasury, balance, toFans,
          toVendors, toTreasuries>>

ReturnRecord == [depositAmount : Nat,       \* 0: not registered
                 refunded      : BOOLEAN,
                 resold        : BOOLEAN]

ResaleRecord == [saleAmount  : Nat,         \* 0: not sold
                 platformCut : Nat,
                 vendorCut   : Nat]

TicketType == {"SINGLE", "GROUP"}

-----------------------------------------------------------------------------
Init ==
    /\ returns = [t \in Tickets |->
                    [depositAmount |-> 0, refunded |-> FALSE, resold |-> FALSE]]
    /\ resales = [t \in Tickets |->
                    [saleAmount |-> 0, platformCut |-> 0, vendorCut |-> 0]]
    /\ poolFloat = 0
    /\ payoutVault = FALSE
    /\ treasury \in Treasuries
    /\ balance = 0
    /\ toFans = [t \in Tickets |-> 0]
    /\ toVendors = [t \in Tickets |-> 0]
    /\ toTreasuries = [a \in Treasuries |-> 0]

\* receiveDeposit() within a transaction of the vault.
Registers(t, amount) ==
    /\ amount # 0
    /\ returns[t].depositAmount = 0

\* The vault sends and registers the deposit of a ticket outside a buyback.
ReceiveDeposit(t, amount) ==
    /\ payoutVault
    /\ Registers(t, amount)
    /\ returns' = [returns EXCEPT ![t].depositAmount = amount]
    /\ balance' = balance + amount
    /\ UNCHANGED <<resales, poolFloat, payoutVault, treasury, toFans,
                   toVendors, toTreasuries>>

\* What the fan gets of a deposit; the treasury keeps the rest.
RefundOf(deposit, type) ==
    (deposit * (IF type = "SINGLE" THEN SingleBps ELSE GroupBps)) \div BpsDenom

\* Mutant: a second buyback of a ticket pays again.
RequestBuybackAgain(t, type, sent, registered) ==
    LET deposit == IF registered THEN sent ELSE returns[t].depositAmount
        refund  == RefundOf(deposit, type)
    IN  /\ payoutVault
        /\ registered => Registers(t, sent)
        /\ deposit # 0
        /\ balance + sent >= deposit
        /\ returns' = [returns EXCEPT ![t].depositAmount = deposit,
                                      ![t].refunded = TRUE]
        /\ balance' = balance + sent - deposit
        /\ toFans' = [toFans EXCEPT ![t] = @ + refund]
        /\ toTreasuries' = [toTreasuries EXCEPT ![treasury] = @ + (deposit - refund)]
        /\ UNCHANGED <<resales, poolFloat, payoutVault, treasury, toVendors>>

\* Mutant: the retention stays in the pool.
RequestBuybackRetains(t, type, sent, registered) ==
    LET deposit == IF registered THEN sent ELSE returns[t].depositAmount
        refund  == RefundOf(deposit, type)
    IN  /\ payoutVault
        /\ ~returns[t].refunded
        /\ registered => Registers(t, sent)
        /\ deposit # 0
        /\ balance + sent >= deposit
        /\ returns' = [returns EXCEPT ![t].depositAmount = deposit,
                                      ![t].refunded = TRUE]
        /\ balance' = balance + sent - refund
        /\ toFans' = [toFans EXCEPT ![t] = @ + refund]
        /\ UNCHANGED <<resales, poolFloat, payoutVault, treasury, toVendors,
                       toTreasuries>>

\* A buyback.  Its call of markReturned() sends some USDC to the pool, and
\* registers it or not; the pool then pays out the deposit registered for the
\* ticket, or reverts when there is none.
RequestBuyback(t, type, sent, registered) ==
    LET deposit == IF registered THEN sent ELSE returns[t].depositAmount
        refund  == RefundOf(deposit, type)
    IN  /\ payoutVault
        /\ ~returns[t].refunded
        /\ registered => Registers(t, sent)
        /\ deposit # 0
        /\ balance + sent >= deposit
        /\ returns' = [returns EXCEPT ![t].depositAmount = deposit,
                                      ![t].refunded = TRUE]
        /\ balance' = balance + sent - deposit
        /\ toFans' = [toFans EXCEPT ![t] = @ + refund]
        /\ toTreasuries' = [toTreasuries EXCEPT ![treasury] = @ + (deposit - refund)]
        /\ UNCHANGED <<resales, poolFloat, payoutVault, treasury, toVendors>>

PlatformCut(amount) == (amount * PlatformBps) \div BpsDenom

\* What depositResale() pays and records, once its checks have passed.
Distribute(t, amount, vendorCut) ==
    /\ returns' = [returns EXCEPT ![t].resold = TRUE]
    /\ resales' = [resales EXCEPT ![t] = [saleAmount  |-> amount,
                                          platformCut |-> PlatformCut(amount),
                                          vendorCut   |-> vendorCut]]
    /\ toVendors' = [toVendors EXCEPT ![t] = @ + vendorCut]
    /\ toTreasuries' = [toTreasuries EXCEPT ![treasury] = @ + PlatformCut(amount)]
    /\ UNCHANGED <<poolFloat, payoutVault, treasury, toFans>>

\* Mutant: both cuts are rounded down.
DepositResaleRounds(t, amount) ==
    LET vendorCut == (amount * (BpsDenom - PlatformBps)) \div BpsDenom
    IN  /\ returns[t].depositAmount # 0
        /\ ~returns[t].resold
        /\ Distribute(t, amount, vendorCut)
        /\ balance' = balance + amount - (PlatformCut(amount) + vendorCut)

\* Mutant: a ticket can be resold again.
DepositResaleAgain(t, amount) ==
    /\ returns[t].depositAmount # 0
    /\ Distribute(t, amount, amount - PlatformCut(amount))
    /\ UNCHANGED balance

\* A new buyer's payment, pulled in and distributed at once.
DepositResale(t, amount) ==
    /\ returns[t].depositAmount # 0
    /\ ~returns[t].resold
    /\ resales[t].saleAmount = 0
    /\ Distribute(t, amount, amount - PlatformCut(amount))
    /\ UNCHANGED balance

FundPool(amount) ==
    /\ poolFloat + amount <= MaxFloat
    /\ balance' = balance + amount
    /\ poolFloat' = poolFloat + amount
    /\ UNCHANGED <<returns, resales, payoutVault, treasury, toFans, toVendors,
                   toTreasuries>>

\* The address of the PayoutVault is set once.
SetPayoutVault ==
    /\ ~payoutVault
    /\ payoutVault' = TRUE
    /\ UNCHANGED <<returns, resales, poolFloat, treasury, balance, toFans,
                   toVendors, toTreasuries>>

SetTreasury(a) ==
    /\ treasury' = a
    /\ UNCHANGED <<returns, resales, poolFloat, payoutVault, balance, toFans,
                   toVendors, toTreasuries>>

Next ==
    \/ \E t \in Tickets, amount \in Amounts : ReceiveDeposit(t, amount)
    \/ \E t \in Tickets, type \in TicketType, sent \in Amounts :
           RequestBuyback(t, type, sent, TRUE)
    \/ \E t \in Tickets, type \in TicketType : RequestBuyback(t, type, 0, FALSE)
    \/ \E t \in Tickets, amount \in Amounts : DepositResale(t, amount)
    \/ \E amount \in Amounts : FundPool(amount)
    \/ SetPayoutVault
    \/ \E a \in Treasuries : SetTreasury(a)

Spec == Init /\ [][Next]_vars

-----------------------------------------------------------------------------
\* Every variable keeps its type; the pool's balance is never negative.
TypeOK ==
    /\ returns \in [Tickets -> ReturnRecord]
    /\ resales \in [Tickets -> ResaleRecord]
    /\ poolFloat \in Nat
    /\ payoutVault \in BOOLEAN
    /\ treasury \in Treasuries
    /\ balance \in Nat
    /\ toFans \in [Tickets -> Nat]
    /\ toVendors \in [Tickets -> Nat]
    /\ toTreasuries \in [Treasuries -> Nat]

\* Deposits that the pool has got and not paid out yet.
Outstanding ==
    [t \in Tickets |-> IF returns[t].refunded THEN 0 ELSE returns[t].depositAmount]

\* "The pool is primarily self-funding": no refund and no resale is ever paid
\* with the platform's float or with another ticket's deposit, and no dust
\* stays behind.
FloatIntact == balance = poolFloat + Total(Tickets, Outstanding)

\* A fan gets the share of a single or of a group ticket, once, however often
\* the buyback is submitted; before the buyback, nothing.
RefundedOnce ==
    \A t \in Tickets :
        IF returns[t].refunded
        THEN \E type \in TicketType : toFans[t] = RefundOf(returns[t].depositAmount, type)
        ELSE toFans[t] = 0

\* Only a ticket whose deposit is registered with the pool is resold, refunded or
\* not, and once: its vendor has got the price less the platform's cut, with the
\* rounding in the vendor's favour.
ResoldOnce ==
    \A t \in Tickets :
        /\ returns[t].resold => returns[t].depositAmount # 0
        /\ toVendors[t] = resales[t].saleAmount - PlatformCut(resales[t].saleAmount)
        /\ returns[t].resold <=> resales[t].saleAmount # 0

PaidOut ==
    [t \in Tickets |-> (IF returns[t].refunded THEN returns[t].depositAmount ELSE 0)
                           + resales[t].saleAmount]

Received == [t \in Tickets |-> toFans[t] + toVendors[t]]

\* Fans, vendors and treasuries together received every refunded deposit and
\* every resale, to the last unit.
MoneyConserved ==
    Total(Tickets, Received) + Total(Treasuries, toTreasuries)
        = Total(Tickets, PaidOut)
=============================================================================
