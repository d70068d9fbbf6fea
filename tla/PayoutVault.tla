----------------------------- MODULE PayoutVault -----------------------------
(***************************************************************************)
(* The PayoutVault contract: it holds what fans paid for their tickets     *)
(* until 48 hours after kickoff, when the vendor claims it less a 2% fee.  *)
(* Before that a ticket's money can leave it for the BuybackPool, and for  *)
(* the fan when the event is cancelled or the fan opts out of a new date.  *)
(*                                                                         *)
(* All events share one USDC balance.  One action is one transaction; one  *)
(* that reverts changes nothing.                                           *)
(***************************************************************************)
EXTENDS Integers, Sums

CONSTANTS
    Events,         \* event ids
    Tickets,        \* ticket ids
    EventOf,        \* the event that Django passes with a ticket
    Price,          \* the amount that Django passes with a ticket
    Treasuries,     \* addresses the owner may name as treasury
    Kickoffs,       \* kickoff times Django may register
    FeeBps,         \* BOOKING_FEE_BPS
    BpsDenom,       \* BPS_DENOM
    PayoutDelay,    \* PAYOUT_DELAY, in ticks of the modelled clock
    MaxTime         \* bound on the modelled clock

ASSUME SetAssumption ==
    IsFiniteSet(Events) /\ IsFiniteSet(Tickets) /\ IsFiniteSet(Treasuries)

ASSUME TicketAssumption ==
    /\ EventOf \in [Tickets -> Events]
    /\ Price \in [Tickets -> Nat \ {0}]

ASSUME FeeAssumption ==
    /\ BpsDenom \in Nat \ {0}
    /\ FeeBps \in 0..BpsDenom

ASSUME TimeAssumption ==
    Kickoffs \subseteq Nat \ {0} /\ PayoutDelay \in Nat /\ MaxTime \in Nat

VARIABLES
    events,         \* event -> EventConfig
    tickets,        \* ticket -> TicketDeposit
    buybackPool,    \* whether the BuybackPool address is set
    treasury,       \* where booking fees go
    balance,        \* the contract's USDC
    now,            \* block.timestamp
    paid,           \* history: what claimPayout took for the event, fee included
    fees            \* history: treasury -> booking fees it received

vars == <<events, tickets, buybackPool, treasury, balance, now, paid, fees>>

EventConfig == [kickoff         : Nat,      \* 0: not configured
                refundable      : BOOLEAN,
                payoutClaimed   : BOOLEAN,
                vendorClaimable : Nat,
                totalDeposited  : Nat]

TicketDeposit == [amount   : Nat,           \* 0: no deposit
                  returned : BOOLEAN,
                  refunded : BOOLEAN]

-----------------------------------------------------------------------------
Init ==
    /\ events = [e \in Events |->
                   [kickoff |-> 0, refundable |-> FALSE, payoutClaimed |-> FALSE,
                    vendorClaimable |-> 0, totalDeposited |-> 0]]
    /\ tickets = [t \in Tickets |->
                    [amount |-> 0, returned |-> FALSE, refunded |-> FALSE]]
    /\ buybackPool = FALSE
    /\ treasury \in Treasuries
    /\ balance = 0
    /\ now = 1
    /\ paid = [e \in Events |-> 0]
    /\ fees = [a \in Treasuries |-> 0]

\* A deposit that has left the vault neither to the pool nor to the fan.
Refundable(t) ==
    tickets[t].amount # 0 /\ ~tickets[t].returned /\ ~tickets[t].refunded

\* Subtraction that stops at zero.
Deduct(x, y) == IF x >= y THEN x - y ELSE 0

\* USDC leaves the vault, or the transaction reverts.
Send(amount) ==
    /\ balance >= amount
    /\ balance' = balance - amount

\* The address of the BuybackPool is set once.
SetBuybackPool ==
    /\ ~buybackPool
    /\ buybackPool' = TRUE
    /\ UNCHANGED <<events, tickets, treasury, balance, now, paid, fees>>

\* Registers an event; its kickoff never changes afterwards.
SetKickoff(e, kickoff) ==
    /\ events[e].kickoff = 0
    /\ events' = [events EXCEPT ![e].kickoff = kickoff]
    /\ UNCHANGED <<tickets, buybackPool, treasury, balance, now, paid, fees>>

\* Cancels an event, paid out or not.
SetRefundable(e) ==
    /\ events[e].kickoff # 0
    /\ events' = [events EXCEPT ![e].refundable = TRUE]
    /\ UNCHANGED <<tickets, buybackPool, treasury, balance, now, paid, fees>>

\* Mutant: a second deposit for the ticket is booked like the first.
DepositTwice(t) ==
    LET e == EventOf[t]
    IN  /\ events[e].kickoff # 0
        /\ tickets' = [tickets EXCEPT ![t].amount = Price[t]]
        /\ balance' = balance + Price[t]
        /\ events' = [events EXCEPT ![e].vendorClaimable = @ + Price[t],
                                    ![e].totalDeposited = @ + Price[t]]
        /\ UNCHANGED <<buybackPool, treasury, now, paid, fees>>

\* Takes the price of a ticket from the platform's signer.  A second deposit
\* for the ticket returns before it changes anything.
Deposit(t) ==
    LET e == EventOf[t]
    IN  /\ events[e].kickoff # 0
        /\ tickets[t].amount = 0
        /\ tickets' = [tickets EXCEPT ![t].amount = Price[t]]
        /\ balance' = balance + Price[t]
        /\ events' = [events EXCEPT ![e].vendorClaimable = @ + Price[t],
                                    ![e].totalDeposited = @ + Price[t]]
        /\ UNCHANGED <<buybackPool, treasury, now, paid, fees>>

\* Mutant: the vendor keeps the claim to a ticket that was bought back.
MarkReturnedKeepsClaim(t) ==
    /\ buybackPool
    /\ Refundable(t)
    /\ Send(tickets[t].amount)
    /\ tickets' = [tickets EXCEPT ![t].returned = TRUE]
    /\ UNCHANGED <<events, buybackPool, treasury, now, paid, fees>>

\* The pool takes a ticket's deposit: the vendor has no claim to it any more.
MarkReturned(t) ==
    LET e == EventOf[t]
    IN  /\ buybackPool
        /\ Refundable(t)
        /\ Send(tickets[t].amount)
        /\ tickets' = [tickets EXCEPT ![t].returned = TRUE]
        /\ events' = [events EXCEPT
                        ![e].vendorClaimable = Deduct(@, tickets[t].amount)]
        /\ UNCHANGED <<buybackPool, treasury, now, paid, fees>>

\* Mutant: the vendor keeps the claim to a ticket that opted out.
RefundOneKeepsClaim(t) ==
    /\ Refundable(t)
    /\ Send(tickets[t].amount)
    /\ tickets' = [tickets EXCEPT ![t].refunded = TRUE]
    /\ UNCHANGED <<events, buybackPool, treasury, now, paid, fees>>

\* Postponement opt-out: one ticket is refunded and the vendor's claim shrinks.
RefundOne(t) ==
    LET e == EventOf[t]
    IN  /\ Refundable(t)
        /\ Send(tickets[t].amount)
        /\ tickets' = [tickets EXCEPT ![t].refunded = TRUE]
        /\ events' = [events EXCEPT
                        ![e].vendorClaimable = Deduct(@, tickets[t].amount)]
        /\ UNCHANGED <<buybackPool, treasury, now, paid, fees>>

\* Mutant: the refund is not recorded on the ticket.
ClaimRefundUnrecorded(t) ==
    /\ events[EventOf[t]].refundable
    /\ Refundable(t)
    /\ Send(tickets[t].amount)
    /\ UNCHANGED <<tickets, events, buybackPool, treasury, now, paid, fees>>

\* Cancellation: the fan gets the price back; the vendor's claim stays as it is.
ClaimRefund(t) ==
    /\ events[EventOf[t]].refundable
    /\ Refundable(t)
    /\ Send(tickets[t].amount)
    /\ tickets' = [tickets EXCEPT ![t].refunded = TRUE]
    /\ UNCHANGED <<events, buybackPool, treasury, now, paid, fees>>

BookingFee(amount) == (amount * FeeBps) \div BpsDenom

\* Mutant: fee and net are each rounded down.
NetRoundedDown(amount) == (amount * (BpsDenom - FeeBps)) \div BpsDenom

VendorNet(amount) == amount - BookingFee(amount)

\* Mutant: the payout opens at the kickoff.
ClaimPayoutAtKickoff(e) ==
    LET claimable == events[e].vendorClaimable
    IN  /\ events[e].kickoff # 0
        /\ ~events[e].payoutClaimed
        /\ ~events[e].refundable
        /\ now >= events[e].kickoff
        /\ claimable # 0
        /\ Send(BookingFee(claimable) + VendorNet(claimable))
        /\ events' = [events EXCEPT ![e].payoutClaimed = TRUE,
                                    ![e].vendorClaimable = 0]
        /\ paid' = [paid EXCEPT ![e] = @ + claimable]
        /\ fees' = [fees EXCEPT ![treasury] = @ + BookingFee(claimable)]
        /\ UNCHANGED <<tickets, buybackPool, treasury, now>>

\* The vendor claims the payout, once, and the treasury gets its fee.
ClaimPayout(e) ==
    LET claimable == events[e].vendorClaimable
    IN  /\ events[e].kickoff # 0
        /\ ~events[e].payoutClaimed
        /\ ~events[e].refundable
        /\ now >= events[e].kickoff + PayoutDelay
        /\ claimable # 0
        /\ Send(BookingFee(claimable) + VendorNet(claimable))
        /\ events' = [events EXCEPT ![e].payoutClaimed = TRUE,
                                    ![e].vendorClaimable = 0]
        /\ paid' = [paid EXCEPT ![e] = @ + claimable]
        /\ fees' = [fees EXCEPT ![treasury] = @ + BookingFee(claimable)]
        /\ UNCHANGED <<tickets, buybackPool, treasury, now>>

SetTreasury(a) ==
    /\ treasury' = a
    /\ UNCHANGED <<events, tickets, buybackPool, balance, now, paid, fees>>

\* Time passes between blocks, up to the bound MaxTime.
Tick ==
    /\ now < MaxTime
    /\ now' = now + 1
    /\ UNCHANGED <<events, tickets, buybackPool, treasury, balance, paid, fees>>

Next ==
    \/ SetBuybackPool
    \/ \E e \in Events, kickoff \in Kickoffs : SetKickoff(e, kickoff)
    \/ \E e \in Events : SetRefundable(e)
    \/ \E t \in Tickets : Deposit(t)
    \/ \E t \in Tickets : MarkReturned(t)
    \/ \E t \in Tickets : RefundOne(t)
    \/ \E t \in Tickets : ClaimRefund(t)
    \/ \E e \in Events : ClaimPayout(e)
    \/ \E a \in Treasuries : SetTreasury(a)
    \/ Tick

Spec == Init /\ [][Next]_vars

-----------------------------------------------------------------------------
TicketsOf(e) == {t \in Tickets : EventOf[t] = e}

\* What the vault owes for each ticket, to the vendor or to the fan.
Held == [t \in Tickets |-> IF Refundable(t) THEN tickets[t].amount ELSE 0]

HeldFor(e) == Total(TicketsOf(e), Held)

Gross == [t \in Tickets |-> tickets[t].amount]

\* Every variable keeps its type; the vault's balance is never negative.
TypeOK ==
    /\ events \in [Events -> EventConfig]
    /\ tickets \in [Tickets -> TicketDeposit]
    /\ buybackPool \in BOOLEAN
    /\ treasury \in Treasuries
    /\ balance \in Nat
    /\ now \in Nat
    /\ paid \in [Events -> Nat]
    /\ fees \in [Treasuries -> Nat]

\* However deposits are retried, the gross total of an event counts every
\* deposited ticket once (the early return of deposit()).
DepositsCountedOnce ==
    \A e \in Events : events[e].totalDeposited = Total(TicketsOf(e), Gross)

\* Until the payout, what the vendor may claim covers the tickets whose money
\* is still in the vault, and is exactly that while the event is not
\* cancelled: no return or opt-out leaves the vendor a claim to the seat.
\* (claimRefund() does not lower the claim, which is why a cancelled event
\* has only a bound.)
ClaimableIsHeld ==
    \A e \in Events :
        ~events[e].payoutClaimed =>
            /\ events[e].vendorClaimable >= HeldFor(e)
            /\ ~events[e].refundable => events[e].vendorClaimable = HeldFor(e)

\* The balance and the payouts made account for every deposit that has gone
\* neither to the pool nor back to its fan: no ticket's money leaves twice by
\* any of the three ways out, and none is left over.
BalanceAccounting ==
    balance + Total(Events, paid) = Total(Tickets, Held)

\* The treasury addresses together got the fee of every payout.
FeesMatchPayouts ==
    Total(Treasuries, fees)
        = Total(Events, [e \in Events |-> BookingFee(paid[e])])

\* The vault can pay everything it owes for the events not paid out, at once,
\* as long as no event lost a ticket after its own payout.
SolventUnlessOverdrawn ==
    (\A e \in Events : paid[e] <= HeldFor(e)) =>
        balance >= Total({t \in Tickets : ~events[EventOf[t]].payoutClaimed}, Held)

\* A vendor is paid, before the fee, the price of the tickets that were neither
\* bought back nor refunded at that moment, and nothing for the others.
PayoutIsHeld ==
    [][\A e \in Events :
          (~events[e].payoutClaimed /\ events'[e].payoutClaimed)
              => paid'[e] = HeldFor(e)]_vars

=============================================================================
