-------------------------- MODULE BuybackPoolProofs --------------------------
(***************************************************************************)
(* Proofs about BuybackPool: its types, that a ticket is refunded and      *)
(* resold once, and that what it holds is the platform's float and the     *)
(* deposits not yet paid out; and about BuybackCircuit: with the vault of  *)
(* this repository no buyback ever happens.                                *)
(***************************************************************************)
EXTENDS BuybackCircuit, SumsProofs

\* A ticket is refunded only from a deposit, so that no deposit is registered
\* for it afterwards.
RefundedHasDeposit ==
    \A t \in Tickets : returns[t].refunded => returns[t].depositAmount # 0

IInv ==
    /\ TypeOK
    /\ RefundedHasDeposit
    /\ RefundedOnce
    /\ ResoldOnce
    /\ FloatIntact
    /\ MoneyConserved

-----------------------------------------------------------------------------
\* A share of an amount is no more than the amount.
LEMMA ShareBounded ==
    ASSUME NEW amount \in Nat, NEW bps \in 0..BpsDenom
    PROVE  /\ (amount * bps) \div BpsDenom \in Nat
           /\ (amount * bps) \div BpsDenom <= amount
<1> DEFINE n == amount * bps
           q == n \div BpsDenom
<1>1. BpsDenom \in Nat \ {0} /\ bps \in Nat /\ bps <= BpsDenom
  BY RateAssumption
<1>2. n \in Nat /\ n <= amount * BpsDenom
  BY <1>1
<1> HIDE DEF n
<1>3. q \in Nat /\ q * BpsDenom <= n
  BY <1>1, <1>2
<1>4. q * BpsDenom <= amount * BpsDenom
  BY <1>1, <1>2, <1>3
<1> HIDE DEF q
<1>5. q <= amount
  BY <1>1, <1>3, <1>4
<1>6. QED
  BY <1>3, <1>5 DEF q, n

\* A refund and a platform's cut are shares.
LEMMA CutsBounded ==
    ASSUME NEW amount \in Nat, NEW type \in TicketType
    PROVE  /\ RefundOf(amount, type) \in 0..amount
           /\ PlatformCut(amount) \in 0..amount
  BY ShareBounded, RateAssumption DEF RefundOf, PlatformCut

\* Nothing is cut from nothing.
LEMMA NothingHasNoCut == PlatformCut(0) = 0
  BY RateAssumption DEF PlatformCut

\* The values that the sums add up.
LEMMA SumsAreNat ==
    ASSUME TypeOK
    PROVE  \A t \in Tickets : /\ Outstanding[t] \in Nat
                              /\ PaidOut[t] \in Nat
                              /\ Received[t] \in Nat
  BY DEF TypeOK, ReturnRecord, ResaleRecord, Outstanding, PaidOut, Received

\* A step that changes what is recorded and paid for one ticket changes each
\* sum over tickets by the difference for that ticket.
LEMMA TicketChange ==
    ASSUME TypeOK, TypeOK', NEW t \in Tickets,
           \A u \in Tickets \ {t} : /\ returns'[u] = returns[u]
                                    /\ resales'[u] = resales[u]
                                    /\ toFans'[u] = toFans[u]
                                    /\ toVendors'[u] = toVendors[u]
    PROVE  /\ Total(Tickets, Outstanding)'
                = Total(Tickets, Outstanding) - Outstanding[t] + Outstanding'[t]
           /\ Total(Tickets, PaidOut)' = Total(Tickets, PaidOut) - PaidOut[t] + PaidOut'[t]
           /\ Total(Tickets, Received)' = Total(Tickets, Received) - Received[t] + Received'[t]
<1> DEFINE O == Outstanding
           P == PaidOut
           R == Received
           O2 == Outstanding'
           P2 == PaidOut'
           R2 == Received'
<1>1. \A u \in Tickets : O[u] \in Nat /\ P[u] \in Nat /\ R[u] \in Nat
  BY SumsAreNat
<1>2. \A u \in Tickets : O2[u] \in Nat /\ P2[u] \in Nat /\ R2[u] \in Nat
  BY DEF TypeOK, ReturnRecord, ResaleRecord, Outstanding, PaidOut, Received
<1>3. \A u \in Tickets \ {t} : O[u] = O2[u] /\ P[u] = P2[u] /\ R[u] = R2[u]
  BY DEF Outstanding, PaidOut, Received
<1>4. /\ Total(Tickets, Outstanding)' = Total(Tickets, O2)
      /\ Total(Tickets, PaidOut)' = Total(Tickets, P2)
      /\ Total(Tickets, Received)' = Total(Tickets, R2)
  BY DEF Total, Units
<1> HIDE DEF O, P, R, O2, P2, R2
<1>5. Total(Tickets, O2) = Total(Tickets, O) - O[t] + O2[t]
  BY <1>1, <1>2, <1>3, SetAssumption, TotalUpdate
<1>6. Total(Tickets, P2) = Total(Tickets, P) - P[t] + P2[t]
  BY <1>1, <1>2, <1>3, SetAssumption, TotalUpdate
<1>7. Total(Tickets, R2) = Total(Tickets, R) - R[t] + R2[t]
  BY <1>1, <1>2, <1>3, SetAssumption, TotalUpdate
<1>8. QED
  BY <1>4, <1>5, <1>6, <1>7 DEF O, P, R, O2, P2, R2

\* A payment to the treasury adds to what the treasuries got together.
LEMMA TreasuryPaid ==
    ASSUME TypeOK, NEW amount \in Nat,
           toTreasuries' = [toTreasuries EXCEPT ![treasury] = @ + amount]
    PROVE  Total(Treasuries, toTreasuries)' = Total(Treasuries, toTreasuries) + amount
<1> DEFINE f == toTreasuries
           g == toTreasuries'
<1>1. treasury \in Treasuries /\ \A a \in Treasuries : f[a] \in Nat
  BY DEF TypeOK
<1>2. /\ \A a \in Treasuries : g[a] \in Nat
      /\ \A a \in Treasuries \ {treasury} : f[a] = g[a]
      /\ g[treasury] = f[treasury] + amount
  BY <1>1 DEF TypeOK
<1>3. Total(Treasuries, toTreasuries)' = Total(Treasuries, g)
  BY DEF Total, Units
<1> HIDE DEF f, g
<1>4. Total(Treasuries, g) = Total(Treasuries, f) - f[treasury] + g[treasury]
  BY <1>1, <1>2, SetAssumption, TotalUpdate
<1>5. Total(Treasuries, f) \in Nat
  BY <1>1, SetAssumption, TotalIsNat
<1>6. QED
  BY <1>1, <1>2, <1>3, <1>4, <1>5 DEF f, g

\* The sums over tickets and treasuries are natural numbers.
LEMMA TotalsAreNat ==
    ASSUME TypeOK
    PROVE  /\ Total(Tickets, Outstanding) \in Nat
           /\ Total(Tickets, PaidOut) \in Nat
           /\ Total(Tickets, Received) \in Nat
           /\ Total(Treasuries, toTreasuries) \in Nat
<1>1. \A a \in Treasuries : toTreasuries[a] \in Nat
  BY DEF TypeOK
<1>2. QED
  BY <1>1, SumsAreNat, SetAssumption, TotalIsNat

-----------------------------------------------------------------------------
\* The constructor establishes the invariant.
LEMMA InitInv == Init => IInv
<1> SUFFICES ASSUME Init PROVE IInv
  OBVIOUS
<1>1. TypeOK /\ RefundedHasDeposit /\ RefundedOnce
  BY DEF Init, TypeOK, ReturnRecord, ResaleRecord, RefundedHasDeposit, RefundedOnce
<1>2. ResoldOnce
  BY NothingHasNoCut DEF Init, ResoldOnce
<1>3. /\ \A t \in Tickets : Outstanding[t] = 0 /\ PaidOut[t] = 0 /\ Received[t] = 0
      /\ \A a \in Treasuries : toTreasuries[a] = 0
  BY DEF Init, Outstanding, PaidOut, Received
<1>4. /\ Total(Tickets, Outstanding) = 0
      /\ Total(Tickets, PaidOut) = 0
      /\ Total(Tickets, Received) = 0
      /\ Total(Treasuries, toTreasuries) = 0
  BY <1>3, SetAssumption, TotalOfZeros
<1>5. FloatIntact /\ MoneyConserved
  BY <1>4 DEF Init, FloatIntact, MoneyConserved
<1>6. QED
  BY <1>1, <1>2, <1>5 DEF IInv

\* receiveDeposit() on its own preserves it.
LEMMA ReceiveStep ==
    ASSUME IInv, NEW t \in Tickets, NEW amount \in Amounts, ReceiveDeposit(t, amount)
    PROVE  IInv'
<1>1. amount \in Nat \ {0}
  BY AmountAssumption
<1>2. TypeOK /\ returns[t] \in ReturnRecord /\ ~returns[t].refunded
  BY DEF IInv, TypeOK, RefundedHasDeposit, ReceiveDeposit, Registers
<1>3. /\ returns' \in [Tickets -> ReturnRecord]
      /\ returns'[t] = [returns[t] EXCEPT !.depositAmount = amount]
      /\ \A u \in Tickets \ {t} : returns'[u] = returns[u]
  BY <1>1, <1>2 DEF ReceiveDeposit, TypeOK, ReturnRecord
<1>4. TypeOK'
  BY <1>1, <1>2, <1>3 DEF ReceiveDeposit, TypeOK
<1>5. RefundedHasDeposit' /\ RefundedOnce' /\ ResoldOnce'
  BY <1>1, <1>2, <1>3
  DEF IInv, ReceiveDeposit, RefundedHasDeposit, RefundedOnce, ResoldOnce, ReturnRecord
<1>6. /\ Total(Tickets, Outstanding)'
           = Total(Tickets, Outstanding) - Outstanding[t] + Outstanding'[t]
      /\ Total(Tickets, PaidOut)' = Total(Tickets, PaidOut) - PaidOut[t] + PaidOut'[t]
      /\ Total(Tickets, Received)' = Total(Tickets, Received) - Received[t] + Received'[t]
  BY <1>2, <1>3, <1>4, TicketChange DEF ReceiveDeposit
<1>7. /\ Outstanding[t] = 0 /\ Outstanding'[t] = amount
      /\ PaidOut'[t] = PaidOut[t] /\ Received'[t] = Received[t]
  BY <1>2, <1>3
  DEF ReceiveDeposit, Registers, Outstanding, PaidOut, Received, ReturnRecord
<1>8. /\ Outstanding[t] \in Nat /\ PaidOut[t] \in Nat /\ Received[t] \in Nat
      /\ Total(Tickets, Outstanding) \in Nat /\ Total(Tickets, PaidOut) \in Nat
      /\ Total(Tickets, Received) \in Nat
  BY <1>2, SumsAreNat, TotalsAreNat
<1>9. FloatIntact'
  BY <1>1, <1>2, <1>6, <1>7, <1>8 DEF IInv, TypeOK, ReceiveDeposit, FloatIntact
<1>10. Total(Treasuries, toTreasuries)' = Total(Treasuries, toTreasuries)
  BY DEF ReceiveDeposit, Total, Units
<1>11. MoneyConserved'
  BY <1>6, <1>7, <1>8, <1>10 DEF IInv, MoneyConserved
<1>12. QED
  BY <1>4, <1>5, <1>9, <1>11 DEF IInv

\* A buyback preserves it: with the vault's registration within the call, or
\* for a deposit registered before.
LEMMA BuybackStep ==
    ASSUME IInv, NEW t \in Tickets, NEW type \in TicketType,
           NEW sent \in Nat, NEW registered \in BOOLEAN,
           registered \/ sent = 0,
           RequestBuyback(t, type, sent, registered)
    PROVE  IInv'
<1> DEFINE deposit == IF registered THEN sent ELSE returns[t].depositAmount
           refund == RefundOf(deposit, type)
<1>1. TypeOK /\ returns[t] \in ReturnRecord /\ ~returns[t].refunded
  BY DEF IInv, TypeOK, RequestBuyback
<1>2. deposit \in Nat \ {0}
  BY <1>1 DEF RequestBuyback, ReturnRecord
<1>3. refund \in Nat /\ refund <= deposit
  <2> HIDE DEF deposit
  <2>1. QED
    BY <1>2, CutsBounded
<1>4. /\ returns' = [returns EXCEPT ![t].depositAmount = deposit, ![t].refunded = TRUE]
      /\ balance + sent >= deposit /\ balance' = balance + sent - deposit
      /\ toFans' = [toFans EXCEPT ![t] = @ + refund]
      /\ toTreasuries' = [toTreasuries EXCEPT ![treasury] = @ + (deposit - refund)]
      /\ UNCHANGED <<resales, poolFloat, payoutVault, treasury, toVendors>>
  BY DEF RequestBuyback
<1>5. /\ returns[t].depositAmount = IF registered THEN 0 ELSE deposit
      /\ sent = IF registered THEN deposit ELSE 0
  BY <1>1 DEF RequestBuyback, Registers
<1> HIDE DEF deposit, refund
<1>6. /\ returns' \in [Tickets -> ReturnRecord]
      /\ returns'[t].depositAmount = deposit /\ returns'[t].refunded
      /\ returns'[t].resold = returns[t].resold
      /\ \A u \in Tickets \ {t} : returns'[u] = returns[u]
  BY <1>1, <1>2, <1>4 DEF TypeOK, ReturnRecord
<1>7. deposit - refund \in Nat
  BY <1>2, <1>3
<1>8. /\ toFans' \in [Tickets -> Nat] /\ toFans'[t] = toFans[t] + refund
      /\ \A u \in Tickets \ {t} : toFans'[u] = toFans[u]
  BY <1>1, <1>3, <1>4 DEF TypeOK
<1>9. toTreasuries' \in [Treasuries -> Nat]
  BY <1>1, <1>4, <1>7 DEF TypeOK
<1>10. balance' \in Nat
  BY <1>1, <1>2, <1>4 DEF TypeOK
<1>11. TypeOK'
  BY <1>1, <1>4, <1>6, <1>8, <1>9, <1>10 DEF TypeOK
<1>12. toFans[t] = 0
  BY <1>1 DEF IInv, RefundedOnce
<1>13. RefundedHasDeposit'
  BY <1>2, <1>6 DEF IInv, RefundedHasDeposit
<1>14. RefundedOnce'
  <2>1. toFans'[t] = RefundOf(returns'[t].depositAmount, type)
    BY <1>3, <1>6, <1>8, <1>12 DEF refund
  <2>2. QED
    BY <1>6, <1>8, <2>1 DEF IInv, RefundedOnce, RefundOf
<1>15. ResoldOnce'
  BY <1>2, <1>4, <1>6 DEF IInv, ResoldOnce
<1>16. /\ Total(Tickets, Outstanding)'
            = Total(Tickets, Outstanding) - Outstanding[t] + Outstanding'[t]
       /\ Total(Tickets, PaidOut)' = Total(Tickets, PaidOut) - PaidOut[t] + PaidOut'[t]
       /\ Total(Tickets, Received)' = Total(Tickets, Received) - Received[t] + Received'[t]
  BY <1>1, <1>4, <1>6, <1>8, <1>11, TicketChange
<1>17. /\ Outstanding[t] = returns[t].depositAmount /\ Outstanding'[t] = 0
       /\ PaidOut[t] = resales[t].saleAmount
       /\ PaidOut'[t] = deposit + resales[t].saleAmount
       /\ Received[t] = toVendors[t] /\ Received'[t] = refund + toVendors[t]
  BY <1>1, <1>3, <1>4, <1>6, <1>8, <1>12
  DEF TypeOK, ResaleRecord, Outstanding, PaidOut, Received
<1>18. /\ resales[t].saleAmount \in Nat /\ toVendors[t] \in Nat
       /\ returns[t].depositAmount \in Nat
       /\ balance \in Nat /\ poolFloat \in Nat
  BY <1>1 DEF TypeOK, ReturnRecord, ResaleRecord
<1>19. FloatIntact'
  BY <1>1, <1>2, <1>4, <1>5, <1>16, <1>17, <1>18, TotalsAreNat DEF IInv, FloatIntact
<1>20. Total(Treasuries, toTreasuries)'
         = Total(Treasuries, toTreasuries) + (deposit - refund)
  BY <1>1, <1>4, <1>7, TreasuryPaid
<1>21. MoneyConserved'
  BY <1>1, <1>2, <1>3, <1>16, <1>17, <1>18, <1>20, TotalsAreNat DEF IInv, MoneyConserved
<1>22. QED
  BY <1>11, <1>13, <1>14, <1>15, <1>19, <1>21 DEF IInv

\* A resale preserves it.
LEMMA ResaleStep ==
    ASSUME IInv, NEW t \in Tickets, NEW amount \in Amounts, DepositResale(t, amount)
    PROVE  IInv'
<1> DEFINE cut == PlatformCut(amount)
<1>1. amount \in Nat \ {0}
  BY AmountAssumption
<1>2. cut \in Nat /\ cut <= amount
  BY <1>1, CutsBounded DEF TicketType
<1>3. TypeOK /\ returns[t] \in ReturnRecord /\ resales[t] \in ResaleRecord
  BY DEF IInv, TypeOK
<1>4. /\ returns[t].depositAmount # 0 /\ resales[t].saleAmount = 0
      /\ returns' = [returns EXCEPT ![t].resold = TRUE]
      /\ resales' = [resales EXCEPT ![t] = [saleAmount |-> amount, platformCut |-> cut,
                                            vendorCut |-> amount - cut]]
      /\ toVendors' = [toVendors EXCEPT ![t] = @ + (amount - cut)]
      /\ toTreasuries' = [toTreasuries EXCEPT ![treasury] = @ + cut]
      /\ UNCHANGED <<poolFloat, payoutVault, treasury, toFans, balance>>
  BY DEF DepositResale, Distribute
<1> HIDE DEF cut
<1>5. amount - cut \in Nat
  BY <1>1, <1>2
<1>6. /\ returns' \in [Tickets -> ReturnRecord]
      /\ returns'[t].resold
      /\ returns'[t].depositAmount = returns[t].depositAmount
      /\ returns'[t].refunded = returns[t].refunded
      /\ \A u \in Tickets \ {t} : returns'[u] = returns[u]
  BY <1>3, <1>4 DEF TypeOK, ReturnRecord
<1>7. /\ resales' \in [Tickets -> ResaleRecord]
      /\ resales'[t].saleAmount = amount
      /\ \A u \in Tickets \ {t} : resales'[u] = resales[u]
  BY <1>1, <1>2, <1>3, <1>4, <1>5 DEF TypeOK, ResaleRecord
<1>8. /\ toVendors' \in [Tickets -> Nat]
      /\ toVendors'[t] = toVendors[t] + (amount - cut)
      /\ \A u \in Tickets \ {t} : toVendors'[u] = toVendors[u]
  BY <1>3, <1>4, <1>5 DEF TypeOK
<1>9. toTreasuries' \in [Treasuries -> Nat]
  BY <1>2, <1>3, <1>4 DEF TypeOK
<1>10. TypeOK'
  BY <1>3, <1>4, <1>6, <1>7, <1>8, <1>9 DEF TypeOK
<1>11. RefundedHasDeposit' /\ RefundedOnce'
  BY <1>4, <1>6 DEF IInv, RefundedHasDeposit, RefundedOnce
<1>12. toVendors[t] = 0
  BY <1>4, NothingHasNoCut DEF IInv, ResoldOnce
<1>13. ResoldOnce'
  BY <1>1, <1>4, <1>5, <1>6, <1>7, <1>8, <1>12 DEF IInv, ResoldOnce, cut, PlatformCut
<1>14. /\ Total(Tickets, Outstanding)'
            = Total(Tickets, Outstanding) - Outstanding[t] + Outstanding'[t]
       /\ Total(Tickets, PaidOut)' = Total(Tickets, PaidOut) - PaidOut[t] + PaidOut'[t]
       /\ Total(Tickets, Received)' = Total(Tickets, Received) - Received[t] + Received'[t]
  BY <1>3, <1>4, <1>6, <1>7, <1>8, <1>10, TicketChange
<1> DEFINE left == IF returns[t].refunded THEN returns[t].depositAmount ELSE 0
<1>15. /\ Outstanding'[t] = Outstanding[t]
       /\ PaidOut[t] = left /\ PaidOut'[t] = left + amount
       /\ Received[t] = toFans[t] /\ Received'[t] = toFans[t] + (amount - cut)
  BY <1>1, <1>3, <1>4, <1>5, <1>6, <1>7, <1>8, <1>12
  DEF TypeOK, ReturnRecord, Outstanding, PaidOut, Received
<1>16. left \in Nat /\ toFans[t] \in Nat /\ Outstanding[t] \in Nat
  BY <1>3, SumsAreNat DEF TypeOK, ReturnRecord
<1> HIDE DEF left
<1>17. FloatIntact'
  BY <1>3, <1>4, <1>14, <1>15, <1>16, TotalsAreNat DEF IInv, FloatIntact
<1>18. Total(Treasuries, toTreasuries)' = Total(Treasuries, toTreasuries) + cut
  BY <1>2, <1>3, <1>4, TreasuryPaid
<1>19. MoneyConserved'
  BY <1>1, <1>2, <1>3, <1>14, <1>15, <1>16, <1>18, TotalsAreNat DEF IInv, MoneyConserved
<1>20. QED
  BY <1>10, <1>11, <1>13, <1>17, <1>19 DEF IInv

\* Steps that leave tickets and payments alone preserve it, if they change
\* balance and float alike.
LEMMA OtherStep ==
    ASSUME IInv, TypeOK', UNCHANGED <<returns, resales, toFans, toVendors, toTreasuries>>,
           balance' - poolFloat' = balance - poolFloat
    PROVE  IInv'
<1>1. RefundedHasDeposit' /\ RefundedOnce' /\ ResoldOnce'
  BY DEF IInv, RefundedHasDeposit, RefundedOnce, ResoldOnce
<1>2. /\ Total(Tickets, Outstanding)' = Total(Tickets, Outstanding)
      /\ Total(Tickets, PaidOut)' = Total(Tickets, PaidOut)
      /\ Total(Tickets, Received)' = Total(Tickets, Received)
      /\ Total(Treasuries, toTreasuries)' = Total(Treasuries, toTreasuries)
  BY DEF Total, Units, Outstanding, PaidOut, Received
<1>3. FloatIntact'
  <2>1. /\ balance \in Nat /\ poolFloat \in Nat /\ balance' \in Nat /\ poolFloat' \in Nat
        /\ Total(Tickets, Outstanding) \in Nat
    BY TotalsAreNat DEF IInv, TypeOK
  <2>2. QED
    BY <1>2, <2>1 DEF IInv, FloatIntact
<1>4. MoneyConserved'
  BY <1>2 DEF IInv, MoneyConserved
<1>5. QED
  BY <1>1, <1>3, <1>4 DEF IInv

LEMMA NextInv == IInv /\ [Next]_vars => IInv'
<1> SUFFICES ASSUME IInv, [Next]_vars PROVE IInv'
  OBVIOUS
<1>1. ASSUME NEW t \in Tickets, NEW amount \in Amounts, ReceiveDeposit(t, amount)
      PROVE  IInv'
  BY <1>1, ReceiveStep
<1>2. ASSUME NEW t \in Tickets, NEW type \in TicketType, NEW sent \in Amounts,
             RequestBuyback(t, type, sent, TRUE)
      PROVE  IInv'
  BY <1>2, BuybackStep, AmountAssumption
<1>3. ASSUME NEW t \in Tickets, NEW type \in TicketType, RequestBuyback(t, type, 0, FALSE)
      PROVE  IInv'
  BY <1>3, BuybackStep
<1>4. ASSUME NEW t \in Tickets, NEW amount \in Amounts, DepositResale(t, amount)
      PROVE  IInv'
  BY <1>4, ResaleStep
<1>5. ASSUME NEW amount \in Amounts, FundPool(amount)
      PROVE  IInv'
  <2>1. TypeOK' /\ balance' - poolFloat' = balance - poolFloat
    BY <1>5, AmountAssumption DEF IInv, TypeOK, FundPool
  <2>2. QED
    BY <1>5, <2>1, OtherStep DEF FundPool
<1>6. CASE SetPayoutVault
  <2>1. TypeOK'
    BY <1>6 DEF IInv, TypeOK, SetPayoutVault
  <2>2. QED
    BY <1>6, <2>1, OtherStep DEF SetPayoutVault
<1>7. ASSUME NEW a \in Treasuries, SetTreasury(a)
      PROVE  IInv'
  <2>1. TypeOK'
    BY <1>7 DEF IInv, TypeOK, SetTreasury
  <2>2. QED
    BY <1>7, <2>1, OtherStep DEF SetTreasury
<1>8. CASE UNCHANGED vars
  <2>1. TypeOK'
    BY <1>8 DEF IInv, TypeOK, vars
  <2>2. QED
    BY <1>8, <2>1, OtherStep DEF vars
<1>9. QED
  BY <1>1, <1>2, <1>3, <1>4, <1>5, <1>6, <1>7, <1>8 DEF Next

-----------------------------------------------------------------------------
\* The invariant holds in every reachable state.
THEOREM SpecInv == Spec => []IInv
<1>1. QED
  BY InitInv, NextInv, PTL DEF Spec

\* Type correctness: in particular the pool never pays more than it has.
THEOREM TypeCorrect == Spec => []TypeOK
<1>1. IInv => TypeOK
  BY DEF IInv
<1>2. QED
  BY <1>1, SpecInv, PTL

\* Refunds and resales never touch the platform's float, and leave no dust.
THEOREM FloatNeverSpent == Spec => []FloatIntact
<1>1. IInv => FloatIntact
  BY DEF IInv
<1>2. QED
  BY <1>1, SpecInv, PTL

\* No order of buybacks and registrations refunds a ticket twice.
THEOREM TicketsRefundedOnce == Spec => []RefundedOnce
<1>1. IInv => RefundedOnce
  BY DEF IInv
<1>2. QED
  BY <1>1, SpecInv, PTL

\* A ticket is resold once, and only if its deposit is registered with the pool.
THEOREM TicketsResoldOnce == Spec => []ResoldOnce
<1>1. IInv => ResoldOnce
  BY DEF IInv
<1>2. QED
  BY <1>1, SpecInv, PTL

\* What comes in for a ticket goes out again, to the last unit.
THEOREM PaymentsConserved == Spec => []MoneyConserved
<1>1. IInv => MoneyConserved
  BY DEF IInv
<1>2. QED
  BY <1>1, SpecInv, PTL

-----------------------------------------------------------------------------
(* The circuit. *)

\* The vault has returned no ticket to the pool.
NothingReturned ==
    tickets \in [Tickets -> [amount   : {0} \cup {Price[t] : t \in Tickets},
                            refunded : BOOLEAN, returned : {FALSE}]]

\* The pool knows of no deposit, has paid nobody, and keeps what it was given.
NothingPaid ==
    /\ \A t \in Tickets : returns[t].depositAmount = 0
    /\ toFans = [t \in Tickets |-> 0] /\ toVendors = [t \in Tickets |-> 0]
    /\ toTreasuries = [a \in Treasuries |-> 0]
    /\ balance = poolFloat

NoBuybacks == NothingReturned /\ NothingPaid

\* The pool cannot pay for a ticket without a registered deposit, and the
\* vault's call registers none.
LEMMA BuybackReverts ==
    ASSUME NothingPaid
    PROVE  /\ \A t \in Tickets, type \in TicketType : ~Buyback(t, type)
           /\ \A t \in Tickets, amount \in Amounts : ~DepositResale(t, amount)
  BY DEF NothingPaid, Buyback, RequestBuyback, DepositResale

LEMMA VaultStepReturnsNothing ==
    ASSUME NothingReturned, VaultStep
    PROVE  NothingReturned'
<1> USE DEF NothingReturned
<1>1. ASSUME NEW t \in Tickets, Vault!Deposit(t)
      PROVE  NothingReturned'
  BY <1>1 DEF Vault!Deposit
<1>2. ASSUME NEW t \in Tickets, Vault!RefundOne(t) \/ Vault!ClaimRefund(t)
      PROVE  NothingReturned'
  BY <1>2 DEF Vault!RefundOne, Vault!ClaimRefund
<1>3. CASE UNCHANGED tickets
  BY <1>3
<1>4. QED
  BY <1>1, <1>2, <1>3
  DEF VaultStep, Vault!SetBuybackPool, Vault!SetKickoff, Vault!SetRefundable,
      Vault!ClaimPayout, Vault!SetTreasury, Vault!Tick

LEMMA PoolStepPaysNothing ==
    ASSUME NothingPaid, PoolStep
    PROVE  NothingPaid'
<1>1. ASSUME NEW amount \in Amounts, FundPool(amount)
      PROVE  NothingPaid'
  BY <1>1 DEF FundPool, NothingPaid
<1>2. ASSUME SetPayoutVault \/ \E a \in Treasuries : SetTreasury(a)
      PROVE  NothingPaid'
  BY <1>2 DEF SetPayoutVault, SetTreasury, NothingPaid
<1>3. QED
  BY <1>1, <1>2, BuybackReverts DEF PoolStep

LEMMA CircuitStep ==
    ASSUME NoBuybacks, [CircuitNext]_circuitVars
    PROVE  /\ NoBuybacks'
           /\ [Next]_vars
           /\ [Vault!Next]_(Vault!vars)
<1> USE DEF NoBuybacks
<1>1. CASE VaultStep
  <2>1. NothingReturned' /\ UNCHANGED vars
    BY <1>1, VaultStepReturnsNothing DEF VaultStep
  <2>2. NothingPaid'
    BY <2>1 DEF vars, NothingPaid
  <2>3. Vault!Next
    BY <1>1 DEF VaultStep, Vault!Next
  <2>4. QED
    BY <2>1, <2>2, <2>3
<1>2. CASE PoolStep
  <2>1. NothingPaid' /\ UNCHANGED vaultVars
    BY <1>2, PoolStepPaysNothing DEF PoolStep
  <2>2. NothingReturned' /\ UNCHANGED Vault!vars
    BY <2>1 DEF vaultVars, Vault!vars, NothingReturned
  <2>3. Next
    BY <1>2 DEF PoolStep, Next
  <2>4. QED
    BY <2>1, <2>2, <2>3
<1>3. CASE UNCHANGED circuitVars
  BY <1>3 DEF circuitVars, vaultVars, vars, Vault!vars, NothingReturned, NothingPaid
<1>4. QED
  BY <1>1, <1>2, <1>3, BuybackReverts DEF CircuitNext

LEMMA CircuitStarts ==
    ASSUME CircuitInit
    PROVE  NoBuybacks
  BY DEF CircuitInit, Vault!Init, Init, NoBuybacks, NothingReturned, NothingPaid

\* With the contracts wired as the deployment script wires them, no ticket is
\* ever bought back and no fan, vendor or treasury is ever paid by the pool,
\* whatever the price, the rates and the float: markReturned() moves the deposit
\* and requestBuyback() then finds none registered and reverts.
THEOREM NoBuybackEver == CircuitSpec => []NoBuybacks
<1>1. CircuitInit => NoBuybacks
  BY CircuitStarts
<1>2. NoBuybacks /\ [CircuitNext]_circuitVars => NoBuybacks'
  BY CircuitStep
<1>3. QED
  BY <1>1, <1>2, PTL DEF CircuitSpec

\* Neither contract ever leaves its own specification in the circuit, so what is
\* proved of each alone holds of both together.
THEOREM CircuitIsSafe == CircuitSpec => Spec /\ Vault!Spec
<1>1. CircuitInit => Init /\ Vault!Init
  BY DEF CircuitInit
<1>2. NoBuybacks /\ [CircuitNext]_circuitVars => [Next]_vars /\ [Vault!Next]_(Vault!vars)
  BY CircuitStep
<1>3. QED
  BY <1>1, <1>2, NoBuybackEver, PTL DEF CircuitSpec, Spec, Vault!Spec
=============================================================================
