-------------------------- MODULE PayoutVaultProofs --------------------------
(***************************************************************************)
(* Proofs about PayoutVault: its types, the accounting of its balance, and *)
(* that it stays solvent unless a paid-out event loses tickets afterwards. *)
(***************************************************************************)
EXTENDS PayoutVault, SumsProofs

\* The accounting invariants speak of events that are not paid out; that such
\* an event has taken nothing yet makes them inductive.
UnpaidTookNothing ==
    \A e \in Events : ~events[e].payoutClaimed => paid[e] = 0

\* Nor has a ticket without a deposit been released or refunded.
UndepositedIsUntouched ==
    \A t \in Tickets :
        tickets[t].amount = 0 => ~tickets[t].returned /\ ~tickets[t].refunded

IInv ==
    /\ TypeOK
    /\ UnpaidTookNothing
    /\ UndepositedIsUntouched
    /\ DepositsCountedOnce
    /\ ClaimableIsHeld
    /\ BalanceAccounting
    /\ FeesMatchPayouts

-----------------------------------------------------------------------------
\* A fee is a natural number.
LEMMA FeeIsNat ==
    ASSUME NEW amount \in Nat
    PROVE  BookingFee(amount) \in Nat
  BY FeeAssumption DEF BookingFee

\* The two transfers of a payout add up to the claim.
LEMMA FeeAndNetAreTheClaim ==
    ASSUME NEW amount \in Nat
    PROVE  BookingFee(amount) + VendorNet(amount) = amount
  BY FeeIsNat DEF VendorNet

LEMMA NothingHasNoFee == BookingFee(0) = 0
  BY FeeAssumption DEF BookingFee

\* The tickets of an event, and what the vault holds for them.
LEMMA HeldFacts ==
    ASSUME TypeOK
    PROVE  /\ \A t \in Tickets : Held[t] \in Nat /\ Gross[t] \in Nat
           /\ \A e \in Events : /\ TicketsOf(e) \in SUBSET Tickets
                                /\ IsFiniteSet(TicketsOf(e))
                                /\ HeldFor(e) \in Nat
<1>1. \A t \in Tickets : Held[t] \in Nat /\ Gross[t] \in Nat
  BY DEF TypeOK, Held, Gross, TicketDeposit
<1>2. \A e \in Events : TicketsOf(e) \in SUBSET Tickets
  BY DEF TicketsOf
<1>3. \A e \in Events : IsFiniteSet(TicketsOf(e))
  BY <1>2, SetAssumption, FS_Subset
<1>4. ASSUME NEW e \in Events
      PROVE  HeldFor(e) \in Nat
  <2>1. \A t \in TicketsOf(e) : Held[t] \in Nat
    BY <1>1, <1>2
  <2>2. QED
    BY <1>3, <2>1, TotalIsNat DEF HeldFor
<1>5. QED
  BY <1>1, <1>2, <1>3, <1>4

\* When one ticket's held amount changes, the sum of its event and the sum of
\* all tickets change by the difference, and no other event's sum changes.
LEMMA HeldChange ==
    ASSUME TypeOK, TypeOK', NEW t \in Tickets,
           \A u \in Tickets \ {t} : tickets'[u] = tickets[u]
    PROVE  /\ Total(Tickets, Held)' = Total(Tickets, Held) - Held[t] + Held'[t]
           /\ HeldFor(EventOf[t])' = HeldFor(EventOf[t]) - Held[t] + Held'[t]
           /\ \A e \in Events \ {EventOf[t]} : HeldFor(e)' = HeldFor(e)
<1> DEFINE before == Held
           after == Held'
<1>1. \A u \in Tickets : before[u] \in Nat /\ after[u] \in Nat
  BY DEF TypeOK, Held, TicketDeposit
<1>2. \A u \in Tickets \ {t} : before[u] = after[u]
  BY DEF Held, Refundable
<1>3. /\ Total(Tickets, Held)' = Total(Tickets, after)
      /\ \A e \in Events : /\ HeldFor(e)' = Total(TicketsOf(e), after)
                           /\ HeldFor(e) = Total(TicketsOf(e), before)
  BY DEF HeldFor, Total, Units, TicketsOf
<1>4. EventOf[t] \in Events /\ t \in TicketsOf(EventOf[t])
  BY TicketAssumption DEF TicketsOf
<1>5. \A e \in Events : TicketsOf(e) \in SUBSET Tickets /\ IsFiniteSet(TicketsOf(e))
  BY HeldFacts
<1> HIDE DEF before, after
<1>6. Total(Tickets, after) = Total(Tickets, before) - before[t] + after[t]
  BY <1>1, <1>2, SetAssumption, TotalUpdate
<1>7. Total(TicketsOf(EventOf[t]), after)
        = Total(TicketsOf(EventOf[t]), before) - before[t] + after[t]
  <2> DEFINE T == TicketsOf(EventOf[t])
  <2>1. IsFiniteSet(T) /\ t \in T /\ T \in SUBSET Tickets
    BY <1>4, <1>5
  <2> HIDE DEF T
  <2>2. Total(T, after) = Total(T, before) - before[t] + after[t]
    BY <1>1, <1>2, <2>1, TotalUpdate
  <2>3. QED
    BY <2>2 DEF T
<1>8. ASSUME NEW e \in Events \ {EventOf[t]}
      PROVE  Total(TicketsOf(e), after) = Total(TicketsOf(e), before)
  <2>1. \A u \in TicketsOf(e) : before[u] = after[u]
    BY <1>2 DEF TicketsOf
  <2>2. QED
    BY <2>1, TotalSame
<1>9. QED
  BY <1>3, <1>4, <1>6, <1>7, <1>8 DEF before, after

\* When no ticket's record changes, no sum over tickets changes.
LEMMA HeldSame ==
    ASSUME UNCHANGED tickets
    PROVE  /\ Total(Tickets, Held)' = Total(Tickets, Held)
           /\ \A e \in Events : HeldFor(e)' = HeldFor(e)
  BY DEF HeldFor, Held, Refundable, Total, Units, TicketsOf

\* When no deposited amount changes, no gross total changes.
LEMMA GrossSame ==
    ASSUME \A t \in Tickets : tickets'[t].amount = tickets[t].amount,
           NEW e \in Events
    PROVE  Total(TicketsOf(e), Gross)' = Total(TicketsOf(e), Gross)
<1> DEFINE after == Gross'
<1>1. Total(TicketsOf(e), Gross)' = Total(TicketsOf(e), after)
  BY DEF Total, Units, TicketsOf
<1>2. \A t \in TicketsOf(e) : Gross[t] = after[t]
  BY DEF Gross, TicketsOf
<1> HIDE DEF after
<1>3. QED
  BY <1>1, <1>2, TotalSame

\* The sum over all tickets is the sum over the events of what is held for each.
LEMMA HeldByEvent ==
    ASSUME TypeOK, NEW D \in SUBSET Events
    PROVE  Total({t \in Tickets : EventOf[t] \in D}, Held)
              = Total(D, [e \in Events |-> HeldFor(e)])
<1> DEFINE byEvent == [e \in D |-> Total(Part(Tickets, EventOf, {e}), Held)]
           perEvent == [e \in Events |-> HeldFor(e)]
<1>1. \A t \in Tickets : Held[t] \in Nat
  BY HeldFacts
<1>2. IsFiniteSet(D)
  BY SetAssumption, FS_Subset
<1>3. Total(Part(Tickets, EventOf, D), Held) = Total(D, byEvent)
  <2> DEFINE f == Held
  <2>1. \A t \in Tickets : f[t] \in Nat
    BY <1>1
  <2> HIDE DEF f
  <2>2. Total(Part(Tickets, EventOf, D), f)
          = Total(D, [e \in D |-> Total(Part(Tickets, EventOf, {e}), f)])
    BY <1>2, <2>1, SetAssumption, TotalOfPartition
  <2>3. QED
    BY <2>2 DEF f
<1>4. \A e \in D : byEvent[e] = perEvent[e]
  <2> TAKE e \in D
  <2>1. Part(Tickets, EventOf, {e}) = TicketsOf(e)
    BY DEF Part, TicketsOf
  <2>2. QED
    BY <2>1 DEF HeldFor
<1>5. Total(D, byEvent) = Total(D, perEvent)
  <2> HIDE DEF byEvent, perEvent
  <2>1. QED
    BY <1>4, TotalSame
<1>6. QED
  BY <1>3, <1>5 DEF Part

-----------------------------------------------------------------------------
LEMMA InitIInv == Init => IInv
<1> SUFFICES ASSUME Init PROVE IInv
  OBVIOUS
<1>1. TypeOK
  BY DEF Init, TypeOK, EventConfig, TicketDeposit
<1>2. UnpaidTookNothing /\ UndepositedIsUntouched
  BY DEF Init, UnpaidTookNothing, UndepositedIsUntouched
<1>3. \A t \in Tickets : Held[t] = 0 /\ Gross[t] = 0
  BY DEF Init, Held, Gross, Refundable
<1>4. Total(Tickets, Held) = 0 /\ Total(Events, paid) = 0 /\ Total(Treasuries, fees) = 0
  BY <1>3, SetAssumption, TotalOfZeros DEF Init
<1>5. ASSUME NEW e \in Events
      PROVE  HeldFor(e) = 0 /\ Total(TicketsOf(e), Gross) = 0
  <2>1. TicketsOf(e) \in SUBSET Tickets /\ IsFiniteSet(TicketsOf(e))
    BY <1>1, HeldFacts
  <2>2. \A t \in TicketsOf(e) : Held[t] = 0 /\ Gross[t] = 0
    BY <1>3, <2>1
  <2>3. QED
    BY <2>1, <2>2, TotalOfZeros DEF HeldFor
<1>6. DepositsCountedOnce /\ ClaimableIsHeld
  BY <1>5 DEF DepositsCountedOnce, ClaimableIsHeld, Init
<1>7. BalanceAccounting
  BY <1>4 DEF BalanceAccounting, Init
<1>8. FeesMatchPayouts
  <2> DEFINE due == [e \in Events |-> BookingFee(paid[e])]
  <2>1. \A e \in Events : due[e] = 0
    BY NothingHasNoFee DEF Init
  <2> HIDE DEF due
  <2>2. Total(Events, due) = 0
    BY <2>1, SetAssumption, TotalOfZeros
  <2>3. QED
    BY <1>4, <2>2 DEF FeesMatchPayouts, due
<1>9. QED
  BY <1>1, <1>2, <1>6, <1>7, <1>8 DEF IInv

\* What markReturned() and refundOne() have in common.
Release(t) ==
    /\ Refundable(t)
    /\ Send(tickets[t].amount)
    /\ \/ tickets' = [tickets EXCEPT ![t].returned = TRUE]
       \/ tickets' = [tickets EXCEPT ![t].refunded = TRUE]
    /\ events' = [events EXCEPT
                    ![EventOf[t]].vendorClaimable = Deduct(@, tickets[t].amount)]
    /\ UNCHANGED <<treasury, now, paid, fees>>

LEMMA ReleaseTypeOK ==
    ASSUME TypeOK, NEW t \in Tickets, Release(t), buybackPool' = buybackPool
    PROVE  TypeOK'
<1> USE DEF TypeOK, EventConfig, TicketDeposit
<1>1. /\ EventOf[t] \in Events /\ tickets[t].amount \in Nat /\ balance \in Nat
      /\ events[EventOf[t]].vendorClaimable \in Nat
  BY TicketAssumption
<1>2. Deduct(events[EventOf[t]].vendorClaimable, tickets[t].amount) \in Nat
  BY <1>1 DEF Deduct
<1>3. tickets' \in [Tickets -> TicketDeposit]
  BY DEF Release
<1>4. events' \in [Events -> EventConfig]
  BY <1>1, <1>2 DEF Release
<1>5. balance' \in Nat
  BY <1>1 DEF Release, Send
<1>6. QED
  BY <1>3, <1>4, <1>5 DEF Release

\* Every step keeps the types.
LEMMA StepTypeOK == TypeOK /\ [Next]_vars => TypeOK'
<1> SUFFICES ASSUME TypeOK, [Next]_vars PROVE TypeOK'
  OBVIOUS
<1> USE DEF TypeOK, EventConfig, TicketDeposit
<1>1. CASE SetBuybackPool
  BY <1>1 DEF SetBuybackPool
<1>2. ASSUME NEW e \in Events, NEW kickoff \in Kickoffs, SetKickoff(e, kickoff)
      PROVE  TypeOK'
  BY <1>2, TimeAssumption DEF SetKickoff
<1>3. ASSUME NEW e \in Events, SetRefundable(e)
      PROVE  TypeOK'
  BY <1>3 DEF SetRefundable
<1>4. ASSUME NEW t \in Tickets, Deposit(t)
      PROVE  TypeOK'
  <2>1. EventOf[t] \in Events /\ Price[t] \in Nat
    BY TicketAssumption
  <2>2. tickets' \in [Tickets -> TicketDeposit]
    BY <1>4, <2>1 DEF Deposit
  <2>3. events' \in [Events -> EventConfig]
    BY <1>4, <2>1 DEF Deposit
  <2>4. balance' \in Nat
    BY <1>4, <2>1 DEF Deposit
  <2>5. QED
    BY <1>4, <2>2, <2>3, <2>4 DEF Deposit
<1>5. ASSUME NEW t \in Tickets, MarkReturned(t)
      PROVE  TypeOK'
  <2>1. Release(t)
    BY <1>5 DEF MarkReturned, Release
  <2>2. QED
    BY <1>5, <2>1, ReleaseTypeOK DEF MarkReturned
<1>6. ASSUME NEW t \in Tickets, RefundOne(t)
      PROVE  TypeOK'
  <2>1. Release(t)
    BY <1>6 DEF RefundOne, Release
  <2>2. QED
    BY <1>6, <2>1, ReleaseTypeOK DEF RefundOne
<1>7. ASSUME NEW t \in Tickets, ClaimRefund(t)
      PROVE  TypeOK'
  <2>1. tickets[t].amount \in Nat /\ balance \in Nat
    OBVIOUS
  <2>2. tickets' \in [Tickets -> TicketDeposit]
    BY <1>7 DEF ClaimRefund
  <2>3. balance' \in Nat
    BY <1>7, <2>1 DEF ClaimRefund, Send
  <2>4. QED
    BY <1>7, <2>2, <2>3 DEF ClaimRefund
<1>8. ASSUME NEW e \in Events, ClaimPayout(e)
      PROVE  TypeOK'
  <2>1. events[e].vendorClaimable \in Nat
    OBVIOUS
  <2>2. BookingFee(events[e].vendorClaimable) \in Nat
    BY <2>1, FeeIsNat
  <2>3. QED
    BY <1>8, <2>1, <2>2, FeeAndNetAreTheClaim DEF ClaimPayout, Send
<1>9. ASSUME NEW a \in Treasuries, SetTreasury(a)
      PROVE  TypeOK'
  BY <1>9 DEF SetTreasury
<1>10. CASE Tick
  BY <1>10 DEF Tick
<1>11. CASE UNCHANGED vars
  BY <1>11 DEF vars
<1>12. QED
  BY <1>1, <1>2, <1>3, <1>4, <1>5, <1>6, <1>7, <1>8, <1>9, <1>10, <1>11 DEF Next

-----------------------------------------------------------------------------
\* A step that moves no money and gives no vendor a new claim.
Quiet ==
    /\ UNCHANGED <<tickets, balance, paid, fees>>
    /\ \A e \in Events :
         /\ events'[e].payoutClaimed = events[e].payoutClaimed
         /\ events'[e].vendorClaimable = events[e].vendorClaimable
         /\ events'[e].totalDeposited = events[e].totalDeposited
         /\ events[e].refundable => events'[e].refundable

LEMMA QuietKeepsIInv ==
    ASSUME IInv, TypeOK', Quiet
    PROVE  IInv'
<1>1. UnpaidTookNothing' /\ UndepositedIsUntouched'
  BY DEF IInv, UnpaidTookNothing, UndepositedIsUntouched, Quiet
<1>2. DepositsCountedOnce'
  BY GrossSame DEF IInv, DepositsCountedOnce, Quiet
<1>3. \A e \in Events : HeldFor(e)' = HeldFor(e)
  BY HeldSame DEF Quiet
<1>4. ClaimableIsHeld'
  BY <1>3 DEF IInv, ClaimableIsHeld, Quiet
<1>5. BalanceAccounting'
  <2>1. Total(Tickets, Held)' = Total(Tickets, Held)
    BY HeldSame DEF Quiet
  <2>2. Total(Events, paid)' = Total(Events, paid)
    BY DEF Total, Units, Quiet
  <2>3. QED
    BY <2>1, <2>2 DEF IInv, BalanceAccounting, Quiet
<1>6. FeesMatchPayouts'
  BY DEF IInv, FeesMatchPayouts, Total, Units, BookingFee, Quiet
<1>7. QED
  BY <1>1, <1>2, <1>4, <1>5, <1>6 DEF IInv

\* The sums over payouts and over treasuries stay when those are unchanged.
LEMMA PaidSame ==
    ASSUME UNCHANGED <<paid, fees>>
    PROVE  /\ Total(Events, paid)' = Total(Events, paid)
           /\ FeesMatchPayouts => FeesMatchPayouts'
  BY DEF FeesMatchPayouts, Total, Units, BookingFee

\* A deposit is held until a release or a refund takes it out again.
LEMMA DepositKeepsIInv ==
    ASSUME IInv, TypeOK', NEW t \in Tickets, Deposit(t)
    PROVE  IInv'
<1> DEFINE e0 == EventOf[t]
           p == Price[t]
<1>1. TypeOK /\ e0 \in Events /\ p \in Nat \ {0} /\ balance \in Nat
  BY TicketAssumption DEF IInv, TypeOK
<1>2. /\ tickets[t].amount = 0 /\ tickets'[t].amount = p
      /\ ~tickets[t].returned /\ ~tickets[t].refunded
      /\ ~tickets'[t].returned /\ ~tickets'[t].refunded
      /\ \A u \in Tickets \ {t} : tickets'[u] = tickets[u]
  BY <1>1 DEF Deposit, TypeOK, TicketDeposit, IInv, UndepositedIsUntouched
<1>3. Held[t] = 0 /\ Held'[t] = p
  BY <1>1, <1>2 DEF Held, Refundable
<1>4. /\ Total(Tickets, Held)' = Total(Tickets, Held) - Held[t] + Held'[t]
      /\ HeldFor(e0)' = HeldFor(e0) - Held[t] + Held'[t]
      /\ \A e \in Events \ {e0} : HeldFor(e)' = HeldFor(e)
  BY <1>1, <1>2, HeldChange
<1>5. /\ events'[e0].vendorClaimable = events[e0].vendorClaimable + p
      /\ events'[e0].totalDeposited = events[e0].totalDeposited + p
      /\ events'[e0].payoutClaimed = events[e0].payoutClaimed
      /\ events'[e0].refundable = events[e0].refundable
      /\ \A e \in Events \ {e0} : events'[e] = events[e]
  BY <1>1 DEF Deposit, TypeOK, EventConfig
<1>6. /\ Total(Tickets, Held) \in Nat
      /\ \A e \in Events : /\ HeldFor(e) \in Nat
                           /\ events[e].vendorClaimable \in Nat
                           /\ events[e].totalDeposited \in Nat
  BY <1>1, HeldFacts, SetAssumption, TotalIsNat DEF TypeOK, EventConfig
<1>7. UnpaidTookNothing' /\ UndepositedIsUntouched'
  <2>1. UndepositedIsUntouched'
    BY <1>2 DEF IInv, UndepositedIsUntouched
  <2>2. \A e \in Events : events'[e].payoutClaimed = events[e].payoutClaimed
    BY <1>5
  <2>3. paid' = paid
    BY DEF Deposit
  <2>4. QED
    BY <2>1, <2>2, <2>3 DEF IInv, UnpaidTookNothing
<1>8. DepositsCountedOnce'
  <2> SUFFICES ASSUME NEW e \in Events
               PROVE  events'[e].totalDeposited = Total(TicketsOf(e), Gross)'
    BY DEF DepositsCountedOnce
  <2> DEFINE after == Gross'
  <2>1. events[e].totalDeposited = Total(TicketsOf(e), Gross)
    BY DEF IInv, DepositsCountedOnce
  <2>2. Total(TicketsOf(e), Gross)' = Total(TicketsOf(e), after)
    BY DEF Total, Units, TicketsOf
  <2>3. /\ \A u \in Tickets : Gross[u] \in Nat /\ after[u] \in Nat
        /\ \A u \in Tickets \ {t} : Gross[u] = after[u]
        /\ Gross[t] = 0 /\ after[t] = p
    BY <1>1, <1>2 DEF TypeOK, Gross, TicketDeposit
  <2> HIDE DEF after
  <2>4. CASE e = e0
    <3> DEFINE T == TicketsOf(e0)
               before == Gross
    <3>1. IsFiniteSet(T) /\ t \in T /\ T \in SUBSET Tickets
      BY <1>1, HeldFacts DEF TicketsOf
    <3>2. /\ \A u \in T : before[u] \in Nat /\ after[u] \in Nat
          /\ \A u \in T \ {t} : before[u] = after[u]
          /\ before[t] = 0 /\ after[t] = p
      BY <2>3, <3>1
    <3> HIDE DEF T, before
    <3>3. Total(T, after) = Total(T, before) - before[t] + after[t]
      BY <3>1, <3>2, TotalUpdate
    <3>4. Total(T, after) = events[e0].totalDeposited - 0 + p
      BY <2>1, <2>4, <3>2, <3>3 DEF T, before
    <3>5. events'[e0].totalDeposited = Total(T, after)
      BY <1>1, <1>5, <1>6, <3>4
    <3>6. QED
      BY <2>2, <2>4, <3>5 DEF T
  <2>5. CASE e # e0
    <3>1. \A u \in TicketsOf(e) : Gross[u] = after[u]
      BY <2>3, <2>5 DEF TicketsOf
    <3>2. Total(TicketsOf(e), Gross) = Total(TicketsOf(e), after)
      BY <3>1, TotalSame
    <3>3. QED
      BY <1>5, <2>1, <2>2, <2>5, <3>2
  <2>6. QED
    BY <2>4, <2>5
<1>9. ClaimableIsHeld'
  <2>1. \A e \in Events : events'[e].vendorClaimable - HeldFor(e)'
                            = events[e].vendorClaimable - HeldFor(e)
    BY <1>1, <1>3, <1>4, <1>5, <1>6
  <2>2. \A e \in Events : /\ HeldFor(e)' \in Nat
                          /\ events'[e].vendorClaimable \in Nat
                          /\ events'[e].payoutClaimed = events[e].payoutClaimed
                          /\ events'[e].refundable = events[e].refundable
    BY <1>1, <1>3, <1>4, <1>5, <1>6
  <2>3. QED
    BY <1>6, <2>1, <2>2 DEF IInv, ClaimableIsHeld
<1>10. BalanceAccounting'
  <2>1. balance' = balance + p /\ paid' = paid /\ fees' = fees
    BY DEF Deposit
  <2>2. Total(Events, paid)' = Total(Events, paid)
    BY <2>1, PaidSame
  <2>3. Total(Events, paid) \in Nat
    BY <1>1, SetAssumption, TotalIsNat DEF TypeOK
  <2>4. balance + Total(Events, paid) = Total(Tickets, Held)
    BY DEF IInv, BalanceAccounting
  <2>5. balance' + Total(Events, paid)' = Total(Tickets, Held)'
    BY <1>1, <1>3, <1>4, <1>6, <2>1, <2>2, <2>3, <2>4
  <2>6. QED
    BY <2>5 DEF BalanceAccounting
<1>11. FeesMatchPayouts'
  BY PaidSame DEF IInv, Deposit
<1>12. QED
  BY <1>7, <1>8, <1>9, <1>10, <1>11 DEF IInv

\* A ticket that leaves the vault, for the pool or for the fan: its event's
\* claim drops by its price (Release) or stays (ClaimRefund).
Leaves(t) ==
    /\ Refundable(t)
    /\ Send(tickets[t].amount)
    /\ \/ tickets' = [tickets EXCEPT ![t].returned = TRUE]
       \/ tickets' = [tickets EXCEPT ![t].refunded = TRUE]
    /\ UNCHANGED <<paid, fees>>

\* What the departure of a ticket changes in the sums.
LEMMA LeavesChange ==
    ASSUME TypeOK, TypeOK', NEW t \in Tickets, Leaves(t)
    PROVE  /\ HeldFor(EventOf[t])' = HeldFor(EventOf[t]) - tickets[t].amount
           /\ tickets[t].amount <= HeldFor(EventOf[t])
           /\ \A e \in Events \ {EventOf[t]} : HeldFor(e)' = HeldFor(e)
           /\ UndepositedIsUntouched => UndepositedIsUntouched'
           /\ \A u \in Tickets : tickets'[u].amount = tickets[u].amount
           /\ BalanceAccounting => BalanceAccounting'
           /\ FeesMatchPayouts => FeesMatchPayouts'
<1> DEFINE e0 == EventOf[t]
           p == tickets[t].amount
<1>1. e0 \in Events /\ p \in Nat /\ balance \in Nat /\ balance' \in Nat
  BY TicketAssumption DEF TypeOK, TicketDeposit
<1>2. /\ \A u \in Tickets \ {t} : tickets'[u] = tickets[u]
      /\ tickets'[t].amount = p
      /\ tickets'[t].returned \/ tickets'[t].refunded
      /\ Refundable(t)
  BY DEF Leaves, TypeOK, TicketDeposit
<1>3. Held[t] = p /\ Held'[t] = 0
  BY <1>2 DEF Held, Refundable
<1>4. /\ Total(Tickets, Held)' = Total(Tickets, Held) - Held[t] + Held'[t]
      /\ HeldFor(e0)' = HeldFor(e0) - Held[t] + Held'[t]
      /\ \A e \in Events \ {e0} : HeldFor(e)' = HeldFor(e)
  BY <1>2, HeldChange
<1>5. Total(Tickets, Held) \in Nat /\ HeldFor(e0) \in Nat /\ HeldFor(e0)' \in Nat
  <2>1. Total(Tickets, Held) \in Nat /\ HeldFor(e0) \in Nat
    BY <1>1, HeldFacts, SetAssumption, TotalIsNat
  <2>2. TypeOK' => HeldFor(e0)' \in Nat
    <3> DEFINE after == Held'
    <3>1. HeldFor(e0)' = Total(TicketsOf(e0), after)
      BY DEF HeldFor, Total, Units, TicketsOf
    <3>2. \A u \in TicketsOf(e0) : after[u] \in Nat
      BY DEF Held, TypeOK, TicketDeposit, TicketsOf
    <3>3. IsFiniteSet(TicketsOf(e0))
      BY <1>1, HeldFacts
    <3> HIDE DEF after
    <3>4. QED
      BY <3>1, <3>2, <3>3, TotalIsNat
  <2>3. QED
    BY <2>1, <2>2
<1>6. HeldFor(e0)' = HeldFor(e0) - p /\ p <= HeldFor(e0)
  BY <1>1, <1>3, <1>4, <1>5
<1>7. UndepositedIsUntouched => UndepositedIsUntouched'
  BY <1>2 DEF UndepositedIsUntouched, Refundable
<1>8. BalanceAccounting => BalanceAccounting'
  <2>1. balance' = balance - p
    BY DEF Leaves, Send
  <2>2. Total(Events, paid)' = Total(Events, paid)
    BY PaidSame DEF Leaves
  <2>3. Total(Events, paid) \in Nat
    BY SetAssumption, TotalIsNat DEF TypeOK
  <2>4. QED
    BY <1>1, <1>3, <1>4, <1>5, <2>1, <2>2, <2>3 DEF BalanceAccounting
<1>9. FeesMatchPayouts => FeesMatchPayouts'
  BY PaidSame DEF Leaves
<1>10. QED
  BY <1>2, <1>4, <1>6, <1>7, <1>8, <1>9

\* A release lowers the claim by the ticket's price, so the claim stays at or
\* above what is held: the saturation of the subtraction is never needed
\* before the payout.
LEMMA ReleaseKeepsIInv ==
    ASSUME IInv, TypeOK', NEW t \in Tickets, Release(t)
    PROVE  IInv'
<1> DEFINE e0 == EventOf[t]
           p == tickets[t].amount
<1>1. TypeOK /\ e0 \in Events /\ p \in Nat /\ Leaves(t)
  BY TicketAssumption DEF IInv, TypeOK, TicketDeposit, Release, Leaves
<1>2. /\ HeldFor(e0)' = HeldFor(e0) - p /\ p <= HeldFor(e0)
      /\ \A e \in Events \ {e0} : HeldFor(e)' = HeldFor(e)
      /\ UndepositedIsUntouched' /\ BalanceAccounting' /\ FeesMatchPayouts'
      /\ \A u \in Tickets : tickets'[u].amount = tickets[u].amount
  BY <1>1, LeavesChange DEF IInv
<1>3. /\ events'[e0].vendorClaimable = Deduct(events[e0].vendorClaimable, p)
      /\ events'[e0].totalDeposited = events[e0].totalDeposited
      /\ events'[e0].payoutClaimed = events[e0].payoutClaimed
      /\ events'[e0].refundable = events[e0].refundable
      /\ \A e \in Events \ {e0} : events'[e] = events[e]
  BY <1>1 DEF Release, TypeOK, EventConfig
<1>4. UnpaidTookNothing'
  BY <1>3 DEF IInv, UnpaidTookNothing, Release
<1>5. DepositsCountedOnce'
  BY <1>2, <1>3, GrossSame DEF IInv, DepositsCountedOnce
<1>6. ClaimableIsHeld'
  <2>1. HeldFor(e0) \in Nat /\ events[e0].vendorClaimable \in Nat
    BY <1>1, HeldFacts DEF TypeOK, EventConfig
  <2>2. ASSUME ~events[e0].payoutClaimed
        PROVE  /\ events'[e0].vendorClaimable >= HeldFor(e0)'
               /\ ~events[e0].refundable
                    => events'[e0].vendorClaimable = HeldFor(e0)'
    <3>1. /\ events[e0].vendorClaimable >= HeldFor(e0)
          /\ ~events[e0].refundable => events[e0].vendorClaimable = HeldFor(e0)
      BY <1>1, <2>2 DEF IInv, ClaimableIsHeld
    <3>2. Deduct(events[e0].vendorClaimable, p) = events[e0].vendorClaimable - p
      BY <1>1, <1>2, <2>1, <3>1 DEF Deduct
    <3>3. QED
      BY <1>1, <1>2, <1>3, <2>1, <3>1, <3>2
  <2>3. QED
    BY <1>2, <1>3, <2>2 DEF IInv, ClaimableIsHeld
<1>7. QED
  BY <1>2, <1>4, <1>5, <1>6 DEF IInv

\* A refund leaves the claim of a cancelled event above what is held.
LEMMA ClaimRefundKeepsIInv ==
    ASSUME IInv, TypeOK', NEW t \in Tickets, ClaimRefund(t)
    PROVE  IInv'
<1> DEFINE e0 == EventOf[t]
           p == tickets[t].amount
<1>1. TypeOK /\ e0 \in Events /\ p \in Nat /\ Leaves(t)
  BY TicketAssumption DEF IInv, TypeOK, TicketDeposit, ClaimRefund, Leaves
<1>2. /\ HeldFor(e0)' = HeldFor(e0) - p /\ p <= HeldFor(e0)
      /\ \A e \in Events \ {e0} : HeldFor(e)' = HeldFor(e)
      /\ UndepositedIsUntouched' /\ BalanceAccounting' /\ FeesMatchPayouts'
      /\ \A u \in Tickets : tickets'[u].amount = tickets[u].amount
  BY <1>1, LeavesChange DEF IInv
<1>3. events' = events /\ events[e0].refundable
  BY DEF ClaimRefund
<1>4. UnpaidTookNothing'
  BY <1>3 DEF IInv, UnpaidTookNothing, ClaimRefund
<1>5. DepositsCountedOnce'
  BY <1>2, <1>3, GrossSame DEF IInv, DepositsCountedOnce
<1>6. ClaimableIsHeld'
  <2>1. \A e \in Events : HeldFor(e) \in Nat /\ events[e].vendorClaimable \in Nat
    BY <1>1, HeldFacts DEF TypeOK, EventConfig
  <2>2. \A e \in Events : HeldFor(e)' <= HeldFor(e) /\ HeldFor(e)' \in Int
    BY <1>1, <1>2, <2>1
  <2>3. \A e \in Events : ~events[e].refundable => HeldFor(e)' = HeldFor(e)
    BY <1>2, <1>3
  <2>4. QED
    BY <1>3, <2>1, <2>2, <2>3 DEF IInv, ClaimableIsHeld
<1>7. QED
  BY <1>2, <1>4, <1>5, <1>6 DEF IInv

\* A payout takes exactly what is held for the event, and splits off the fee.
LEMMA PayoutIsHeldStep ==
    ASSUME IInv, NEW e \in Events, ClaimPayout(e)
    PROVE  /\ paid'[e] = HeldFor(e) /\ paid'[e] = events[e].vendorClaimable
           /\ \A d \in Events \ {e} : paid'[d] = paid[d]
<1>1. TypeOK /\ events[e].vendorClaimable \in Nat
  BY DEF IInv, TypeOK, EventConfig
<1>2. paid[e] = 0 /\ events[e].vendorClaimable = HeldFor(e)
  BY DEF IInv, UnpaidTookNothing, ClaimableIsHeld, ClaimPayout
<1>3. paid' = [paid EXCEPT ![e] = @ + events[e].vendorClaimable]
  BY DEF ClaimPayout
<1>4. QED
  BY <1>1, <1>2, <1>3 DEF TypeOK

LEMMA ClaimPayoutKeepsIInv ==
    ASSUME IInv, TypeOK', NEW e0 \in Events, ClaimPayout(e0)
    PROVE  IInv'
<1> DEFINE c == events[e0].vendorClaimable
<1>1. TypeOK /\ c \in Nat /\ balance \in Nat /\ treasury \in Treasuries
  BY DEF IInv, TypeOK, EventConfig
<1>2. /\ events'[e0].vendorClaimable = 0
      /\ events'[e0].totalDeposited = events[e0].totalDeposited
      /\ events'[e0].payoutClaimed = TRUE
      /\ \A e \in Events \ {e0} : events'[e] = events[e]
      /\ tickets' = tickets
  BY <1>1 DEF ClaimPayout, TypeOK, EventConfig
<1>3. paid[e0] = 0 /\ paid'[e0] = c /\ \A e \in Events \ {e0} : paid'[e] = paid[e]
  BY PayoutIsHeldStep DEF IInv, UnpaidTookNothing, ClaimPayout
<1>4. UnpaidTookNothing' /\ UndepositedIsUntouched'
  BY <1>2, <1>3 DEF IInv, UnpaidTookNothing, UndepositedIsUntouched
<1>5. DepositsCountedOnce'
  BY <1>2, GrossSame DEF IInv, DepositsCountedOnce
<1>6. ClaimableIsHeld'
  <2>1. \A e \in Events : HeldFor(e)' = HeldFor(e)
    BY <1>2, HeldSame
  <2>2. QED
    BY <1>2, <2>1 DEF IInv, ClaimableIsHeld
<1>7. \A e \in Events : paid[e] \in Nat /\ paid'[e] \in Nat
  BY DEF TypeOK, IInv
<1>8. BalanceAccounting'
  <2>1. Total(Tickets, Held)' = Total(Tickets, Held)
    BY <1>2, HeldSame
  <2>2. Total(Events, paid)' = Total(Events, paid) - paid[e0] + paid'[e0]
    <3> DEFINE before == paid
               after == paid'
    <3>1. Total(Events, paid)' = Total(Events, after)
      BY DEF Total, Units
    <3>2. /\ \A e \in Events : before[e] \in Nat /\ after[e] \in Nat
          /\ \A e \in Events \ {e0} : before[e] = after[e]
      BY <1>3, <1>7
    <3> HIDE DEF before, after
    <3>3. Total(Events, after) = Total(Events, before) - before[e0] + after[e0]
      BY <3>2, SetAssumption, TotalUpdate
    <3>4. QED
      BY <3>1, <3>3 DEF before, after
  <2>3. Total(Events, paid) \in Nat
    BY <1>7, SetAssumption, TotalIsNat
  <2>4. balance' = balance - c
    BY <1>1, FeeAndNetAreTheClaim DEF ClaimPayout, Send
  <2>5. QED
    BY <1>1, <1>3, <2>1, <2>2, <2>3, <2>4 DEF IInv, BalanceAccounting
<1>9. FeesMatchPayouts'
  <2> DEFINE due == [e \in Events |-> BookingFee(paid[e])]
             dueAfter == [e \in Events |-> BookingFee(paid'[e])]
             got == fees
             gotAfter == fees'
             fee == BookingFee(c)
  <2>1. /\ \A e \in Events : due[e] \in Nat /\ dueAfter[e] \in Nat
        /\ fee \in Nat
    BY <1>1, <1>7, FeeIsNat
  <2>2. /\ \A e \in Events \ {e0} : due[e] = dueAfter[e]
        /\ due[e0] = 0 /\ dueAfter[e0] = fee
    BY <1>3, NothingHasNoFee
  <2>3. \A a \in Treasuries : got[a] \in Nat /\ gotAfter[a] \in Nat
    BY DEF IInv, TypeOK
  <2>4. /\ \A a \in Treasuries \ {treasury} : got[a] = gotAfter[a]
        /\ gotAfter[treasury] = got[treasury] + fee
    BY <1>1 DEF TypeOK, ClaimPayout
  <2>5. /\ FeesMatchPayouts <=> Total(Treasuries, got) = Total(Events, due)
        /\ FeesMatchPayouts' <=> Total(Treasuries, gotAfter) = Total(Events, dueAfter)
    BY DEF FeesMatchPayouts, Total, Units, BookingFee
  <2> HIDE DEF due, dueAfter, got, gotAfter, fee
  <2>6. Total(Events, dueAfter) = Total(Events, due) - due[e0] + dueAfter[e0]
    BY <2>1, <2>2, SetAssumption, TotalUpdate
  <2>7. Total(Treasuries, gotAfter)
          = Total(Treasuries, got) - got[treasury] + gotAfter[treasury]
    BY <1>1, <2>3, <2>4, SetAssumption, TotalUpdate
  <2>8. Total(Treasuries, got) \in Nat /\ Total(Events, due) \in Nat
    BY <2>1, <2>3, SetAssumption, TotalIsNat
  <2>9. QED
    BY <1>1, <2>1, <2>2, <2>3, <2>4, <2>5, <2>6, <2>7, <2>8 DEF IInv
<1>10. QED
  BY <1>4, <1>5, <1>6, <1>8, <1>9 DEF IInv

\* IInv is inductive.
LEMMA StepIInv == IInv /\ [Next]_vars => IInv'
<1> SUFFICES ASSUME IInv, [Next]_vars PROVE IInv'
  OBVIOUS
<1> USE DEF Quiet
<1>1. TypeOK /\ TypeOK'
  BY StepTypeOK DEF IInv
<1>2. CASE SetBuybackPool
  BY <1>1, <1>2, QuietKeepsIInv DEF SetBuybackPool
<1>3. ASSUME NEW e \in Events, NEW kickoff \in Kickoffs, SetKickoff(e, kickoff)
      PROVE  IInv'
  <2>1. Quiet
    BY <1>1, <1>3 DEF SetKickoff, TypeOK, EventConfig
  <2>2. QED
    BY <1>1, <2>1, QuietKeepsIInv
<1>4. ASSUME NEW e \in Events, SetRefundable(e)
      PROVE  IInv'
  <2>1. Quiet
    BY <1>1, <1>4 DEF SetRefundable, TypeOK, EventConfig
  <2>2. QED
    BY <1>1, <2>1, QuietKeepsIInv
<1>5. ASSUME NEW t \in Tickets, Deposit(t)
      PROVE  IInv'
  BY <1>1, <1>5, DepositKeepsIInv
<1>6. ASSUME NEW t \in Tickets, MarkReturned(t)
      PROVE  IInv'
  BY <1>1, <1>6, ReleaseKeepsIInv DEF MarkReturned, Release
<1>7. ASSUME NEW t \in Tickets, RefundOne(t)
      PROVE  IInv'
  BY <1>1, <1>7, ReleaseKeepsIInv DEF RefundOne, Release
<1>8. ASSUME NEW t \in Tickets, ClaimRefund(t)
      PROVE  IInv'
  BY <1>1, <1>8, ClaimRefundKeepsIInv
<1>9. ASSUME NEW e \in Events, ClaimPayout(e)
      PROVE  IInv'
  BY <1>1, <1>9, ClaimPayoutKeepsIInv
<1>10. ASSUME NEW a \in Treasuries, SetTreasury(a)
       PROVE  IInv'
  BY <1>1, <1>10, QuietKeepsIInv DEF SetTreasury
<1>11. CASE Tick
  BY <1>1, <1>11, QuietKeepsIInv DEF Tick
<1>12. CASE UNCHANGED vars
  BY <1>1, <1>12, QuietKeepsIInv DEF vars
<1>13. QED
  BY <1>2, <1>3, <1>4, <1>5, <1>6, <1>7, <1>8, <1>9, <1>10, <1>11, <1>12 DEF Next

\* The invariant holds in every reachable state.
THEOREM SpecInv == Spec => []IInv
  BY InitIInv, StepIInv, PTL DEF Spec

-----------------------------------------------------------------------------
\* If no event was paid more than it still holds, the balance covers the others:
\* payouts took the money of paid events only.
LEMMA SolventFromInv == IInv => SolventUnlessOverdrawn
<1> SUFFICES ASSUME IInv, \A e \in Events : paid[e] <= HeldFor(e)
             PROVE  balance >= Total({t \in Tickets :
                                        ~events[EventOf[t]].payoutClaimed}, Held)
  BY DEF SolventUnlessOverdrawn
<1> DEFINE U == {e \in Events : ~events[e].payoutClaimed}
           P == {e \in Events : events[e].payoutClaimed}
           perEvent == [e \in Events |-> HeldFor(e)]
           took == paid
<1>1. TypeOK /\ balance \in Nat
  BY DEF IInv, TypeOK
<1>2. /\ U \in SUBSET Events /\ P \in SUBSET Events
      /\ U \cap P = {} /\ U \cup P = Events
      /\ IsFiniteSet(U) /\ IsFiniteSet(P)
  BY SetAssumption, FS_Subset
<1>3. \A e \in Events : /\ perEvent[e] \in Nat /\ took[e] \in Nat
                        /\ took[e] <= perEvent[e]
  BY <1>1, HeldFacts DEF TypeOK
<1>4. \A e \in U : took[e] = 0
  BY DEF IInv, UnpaidTookNothing
<1>5. Total({t \in Tickets : EventOf[t] \in Events}, Held) = Total(Events, perEvent)
  BY <1>1, HeldByEvent
<1>6. Total({t \in Tickets : EventOf[t] \in U}, Held) = Total(U, perEvent)
  BY <1>1, <1>2, HeldByEvent
<1>7. /\ {t \in Tickets : EventOf[t] \in Events} = Tickets
      /\ {t \in Tickets : EventOf[t] \in U}
           = {t \in Tickets : ~events[EventOf[t]].payoutClaimed}
  BY TicketAssumption
<1>8. balance + Total(Events, took) = Total(Events, perEvent)
  BY <1>5, <1>7 DEF IInv, BalanceAccounting
<1> HIDE DEF U, P, perEvent, took
<1>9. /\ Total(Events, took) = Total(U, took) + Total(P, took)
      /\ Total(Events, perEvent) = Total(U, perEvent) + Total(P, perEvent)
  BY <1>2, <1>3, TotalUnion
<1>10. Total(U, took) = 0
  BY <1>2, <1>4, TotalOfZeros
<1>11. Total(P, took) <= Total(P, perEvent)
  BY <1>2, <1>3, TotalMonotone
<1>12. /\ Total(P, took) \in Nat /\ Total(P, perEvent) \in Nat
       /\ Total(U, perEvent) \in Nat
  BY <1>2, <1>3, TotalIsNat
<1>13. balance >= Total(U, perEvent)
  BY <1>1, <1>8, <1>9, <1>10, <1>11, <1>12
<1>14. QED
  BY <1>6, <1>7, <1>13 DEF U

\* Types: amounts and the vault's balance never go below zero.
THEOREM TypeCorrect == Spec => []TypeOK
<1>1. IInv => TypeOK
  BY DEF IInv
<1>2. QED
  BY <1>1, SpecInv, PTL

\* A ticket whose deposit is retried is counted once.
THEOREM DepositsAreCountedOnce == Spec => []DepositsCountedOnce
<1>1. IInv => DepositsCountedOnce
  BY DEF IInv
<1>2. QED
  BY <1>1, SpecInv, PTL

\* The vendor's claim covers what is held, and equals it before a cancellation.
THEOREM ClaimCoversHeld == Spec => []ClaimableIsHeld
<1>1. IInv => ClaimableIsHeld
  BY DEF IInv
<1>2. QED
  BY <1>1, SpecInv, PTL

\* The balance and the payouts account for all the money held.
THEOREM BalanceAccounted == Spec => []BalanceAccounting
<1>1. IInv => BalanceAccounting
  BY DEF IInv
<1>2. QED
  BY <1>1, SpecInv, PTL

\* The treasuries got the fee of every payout.
THEOREM FeesAccounted == Spec => []FeesMatchPayouts
<1>1. IInv => FeesMatchPayouts
  BY DEF IInv
<1>2. QED
  BY <1>1, SpecInv, PTL

\* The vault is solvent for every event not paid out, unless one was overdrawn.
THEOREM Solvent == Spec => []SolventUnlessOverdrawn
  BY SolventFromInv, SpecInv, PTL

\* No step but a payout sets payoutClaimed.
LEMMA ClaimedOnlyByPayout ==
    ASSUME TypeOK, [Next]_vars, NEW e \in Events,
           ~events[e].payoutClaimed, events'[e].payoutClaimed
    PROVE  \E d \in Events : ClaimPayout(d)
<1> USE DEF TypeOK, EventConfig
<1>1. ASSUME NEW d \in Events, NEW kickoff \in Kickoffs, SetKickoff(d, kickoff)
      PROVE  FALSE
  BY <1>1 DEF SetKickoff
<1>2. ASSUME NEW d \in Events, SetRefundable(d)
      PROVE  FALSE
  BY <1>2 DEF SetRefundable
<1>3. ASSUME NEW t \in Tickets, Deposit(t)
      PROVE  FALSE
  BY <1>3, TicketAssumption DEF Deposit
<1>4. ASSUME NEW t \in Tickets, MarkReturned(t) \/ RefundOne(t)
      PROVE  FALSE
  BY <1>4, TicketAssumption DEF MarkReturned, RefundOne
<1>5. ASSUME NEW t \in Tickets, ClaimRefund(t)
      PROVE  FALSE
  BY <1>5 DEF ClaimRefund
<1>6. ASSUME SetBuybackPool \/ (\E a \in Treasuries : SetTreasury(a)) \/ Tick
      PROVE  FALSE
  BY <1>6 DEF SetBuybackPool, SetTreasury, Tick
<1>7. CASE UNCHANGED vars
  BY <1>7 DEF vars
<1>8. QED
  BY <1>1, <1>2, <1>3, <1>4, <1>5, <1>6, <1>7 DEF Next

\* A vendor is paid for the tickets still held, and for no other.
THEOREM VendorIsPaidForHeld == Spec => PayoutIsHeld
<1>1. IInv /\ [Next]_vars
        => [\A e \in Events :
              (~events[e].payoutClaimed /\ events'[e].payoutClaimed)
                  => paid'[e] = HeldFor(e)]_vars
  <2> SUFFICES ASSUME IInv, [Next]_vars, NEW e \in Events,
                      ~events[e].payoutClaimed, events'[e].payoutClaimed
               PROVE  paid'[e] = HeldFor(e)
    OBVIOUS
  <2>1. events \in [Events -> EventConfig]
    BY DEF IInv, TypeOK
  <2>2. PICK d \in Events : ClaimPayout(d)
    BY ClaimedOnlyByPayout DEF IInv
  <2>3. d = e
    BY <2>1, <2>2 DEF ClaimPayout, EventConfig
  <2>4. QED
    BY <2>2, <2>3, PayoutIsHeldStep
<1>2. QED
  BY <1>1, SpecInv, PTL DEF Spec, PayoutIsHeld

\* A vendor who has not been paid out has got nothing.
THEOREM UnpaidTakesNothing == Spec => []UnpaidTookNothing
<1>1. IInv => UnpaidTookNothing
  BY DEF IInv
<1>2. QED
  BY <1>1, SpecInv, PTL

-----------------------------------------------------------------------------
\* What a vendor has been paid and may still claim was deposited for the event.
WithinDeposits ==
    \A e \in Events :
        paid[e] + events[e].vendorClaimable <= events[e].totalDeposited

\* An event from which its vendor took more than the vault still holds for it
\* lost a ticket, to the pool or to its fan, after the payout.
OverdrawnLostTicket ==
    \A e \in Events :
        paid[e] > HeldFor(e)
            => \E t \in TicketsOf(e) : tickets[t].returned \/ tickets[t].refunded

LEMMA WithinDepositsStep ==
    ASSUME TypeOK, WithinDeposits, [Next]_vars
    PROVE  WithinDeposits'
<1> USE DEF TypeOK, EventConfig, WithinDeposits
<1>1. ASSUME NEW t \in Tickets, Deposit(t)
      PROVE  WithinDeposits'
  <2>1. EventOf[t] \in Events /\ Price[t] \in Nat
    BY TicketAssumption
  <2>2. \A e \in Events :
            LET p == IF e = EventOf[t] THEN Price[t] ELSE 0
            IN  /\ events'[e].vendorClaimable = events[e].vendorClaimable + p
                /\ events'[e].totalDeposited = events[e].totalDeposited + p
    BY <1>1, <2>1 DEF Deposit
  <2> QED
    BY <1>1, <2>1, <2>2 DEF Deposit
<1>2. ASSUME NEW t \in Tickets, MarkReturned(t) \/ RefundOne(t)
      PROVE  WithinDeposits'
  <2>1. EventOf[t] \in Events /\ tickets[t].amount \in Nat
    BY TicketAssumption DEF TicketDeposit
  <2>2. \A e \in Events : /\ events'[e].vendorClaimable \in Nat
                          /\ events'[e].vendorClaimable <= events[e].vendorClaimable
                          /\ events'[e].totalDeposited = events[e].totalDeposited
    BY <1>2, <2>1 DEF MarkReturned, RefundOne, Deduct
  <2> QED
    BY <1>2, <2>2 DEF MarkReturned, RefundOne
<1>3. ASSUME NEW d \in Events, ClaimPayout(d)
      PROVE  WithinDeposits'
  BY <1>3 DEF ClaimPayout
<1>4. CASE /\ UNCHANGED paid
           /\ \A e \in Events :
                /\ events'[e].vendorClaimable = events[e].vendorClaimable
                /\ events'[e].totalDeposited = events[e].totalDeposited
  BY <1>4
<1>5. ASSUME NEW d \in Events, SetRefundable(d) \/ \E k \in Kickoffs : SetKickoff(d, k)
      PROVE  WithinDeposits'
  BY <1>4, <1>5 DEF SetRefundable, SetKickoff
<1>6. CASE \/ SetBuybackPool \/ Tick \/ UNCHANGED vars
           \/ \E t \in Tickets : ClaimRefund(t)
           \/ \E a \in Treasuries : SetTreasury(a)
  BY <1>4, <1>6 DEF SetBuybackPool, Tick, vars, ClaimRefund, SetTreasury
<1> QED
  BY <1>1, <1>2, <1>3, <1>5, <1>6 DEF Next

\* While no ticket of an event is lost, all that was deposited for it is held.
LEMMA OverdrawnFromInv ==
    ASSUME IInv, WithinDeposits, NEW e \in Events,
           \A t \in TicketsOf(e) : ~tickets[t].returned /\ ~tickets[t].refunded
    PROVE  paid[e] <= HeldFor(e)
<1>1. \A t \in TicketsOf(e) : Held[t] = Gross[t]
  BY DEF TicketsOf, Held, Gross, Refundable
<1>2. HeldFor(e) = Total(TicketsOf(e), Gross)
  <2> DEFINE held == Held
             gross == Gross
  <2>1. \A t \in TicketsOf(e) : held[t] = gross[t]
    BY <1>1
  <2> HIDE DEF held, gross
  <2>2. Total(TicketsOf(e), held) = Total(TicketsOf(e), gross)
    BY <2>1, TotalSame
  <2> QED
    BY <2>2 DEF held, gross, HeldFor
<1>3. HeldFor(e) = events[e].totalDeposited
  BY <1>2 DEF IInv, DepositsCountedOnce
<1> QED
  BY <1>3 DEF WithinDeposits, IInv, TypeOK, EventConfig

\* Whatever the vendor got or may get for an event was deposited for it.
THEOREM PaidWithinDeposits == Spec => []WithinDeposits
<1>1. Init => WithinDeposits
  BY DEF Init, WithinDeposits
<1>2. IInv /\ WithinDeposits /\ [Next]_vars => WithinDeposits'
  BY WithinDepositsStep DEF IInv
<1> QED
  BY <1>1, <1>2, SpecInv, PTL DEF Spec

\* Only a buyback or a refund after the payout overdraws an event.
THEOREM OverdrawnByLostTicket == Spec => []OverdrawnLostTicket
<1>1. IInv /\ WithinDeposits => OverdrawnLostTicket
  <2>1. ASSUME IInv, NEW e \in Events
        PROVE  HeldFor(e) \in Nat /\ paid[e] \in Nat
    BY <2>1, HeldFacts DEF IInv, TypeOK
  <2> QED
    BY <2>1, OverdrawnFromInv DEF OverdrawnLostTicket
<1> QED
  BY <1>1, PaidWithinDeposits, SpecInv, PTL
=============================================================================
