------------------------- MODULE TicketPurchaseProofs -------------------------
(***************************************************************************)
(* Safety of ticket purchase for any number of users, requests, seats and  *)
(* attempts.                                                               *)
(***************************************************************************)
EXTENDS TicketPurchase, SumsProofs

\* A new ticket's number is above those in use.
New(r) == (created + 1)..(created + request[r].quantity)

LEMMA RowsAreTickets ==
    ASSUME TypeOK
    PROVE  Rows \subseteq Tickets
  BY SeatAssumption DEF TypeOK, Rows, Tickets

LEMMA InitTypeOK == Init => TypeOK
<1> SUFFICES ASSUME Init PROVE TypeOK
  OBVIOUS
<1> USE SeatAssumption DEF Init
<1>1. request \in [Requests -> RequestState]
  BY DEF RequestState
<1>2. Rows = {}
  BY DEF Rows
<1>3. ticket \in [Rows -> Row]
  BY <1>2
<1>4. job \in [Tickets -> JobState]
  BY DEF JobState
<1>5. QED
  BY <1>1, <1>2, <1>3, <1>4 DEF TypeOK

\* What a purchase adds to the tickets.
LEMMA PurchaseFacts ==
    ASSUME TypeOK, NEW r \in Requests, Purchase(r)
    PROVE  /\ Rows' = Rows \cup New(r) /\ Rows \cap New(r) = {}
           /\ New(r) \subseteq Tickets
           /\ IsFiniteSet(New(r)) /\ Cardinality(New(r)) = request[r].quantity
           /\ Taken(request[r].category) \in Nat
           /\ \A c \in Categories : IsFiniteSet(Occupying(c))
           /\ \A t \in Rows : ticket'[t] = ticket[t]
           /\ \A t \in New(r) :
                ticket'[t] = [status |-> "pending_payment",
                              user |-> request[r].user,
                              category |-> request[r].category,
                              seat |-> Taken(request[r].category) + (t - created),
                              refunded |-> FALSE]
<1> DEFINE q == request[r].quantity
<1>1. created \in Nat /\ q \in Nat \ {0} /\ created + q <= MaxTickets /\ MaxTickets \in Nat
  BY SeatAssumption DEF TypeOK, RequestState, Purchase
<1>2. created' = created + q
  BY DEF Purchase
<1>3. /\ Rows' = Rows \cup New(r) /\ Rows \cap New(r) = {}
      /\ New(r) \subseteq Tickets
  BY <1>1, <1>2 DEF Rows, New, Tickets
<1>4. IsFiniteSet(New(r)) /\ Cardinality(New(r)) = q
  <2> DEFINE lo == created + 1
             hi == created + q
  <2>1. lo \in Int /\ hi \in Int /\ lo <= hi /\ hi - lo + 1 = q
    BY <1>1
  <2> HIDE DEF lo, hi
  <2>2. IsFiniteSet(lo..hi) /\ Cardinality(lo..hi) = hi - lo + 1
    BY <2>1, FS_Interval
  <2>3. QED
    BY <2>1, <2>2 DEF lo, hi, New
<1>5. IsFiniteSet(Rows)
  <2>1. 1 \in Int /\ created \in Int
    BY <1>1
  <2>2. IsFiniteSet(1..created)
    BY <2>1, FS_Interval
  <2>3. QED
    BY <2>2 DEF Rows
<1>6. \A c \in Categories : IsFiniteSet(Occupying(c))
  <2>1. \A c \in Categories : Occupying(c) \in SUBSET Rows
    BY DEF Occupying
  <2>2. QED
    BY <1>5, <2>1, FS_Subset
<1>7. Taken(request[r].category) \in Nat
  <2>1. request[r].category \in Categories
    BY DEF TypeOK, RequestState
  <2>2. QED
    BY <1>6, <2>1, FS_CardinalityType DEF Taken
<1>8. /\ \A t \in Rows : ticket'[t] = ticket[t]
      /\ \A t \in New(r) :
           ticket'[t] = [status |-> "pending_payment",
                         user |-> request[r].user,
                         category |-> request[r].category,
                         seat |-> Taken(request[r].category) + (t - created),
                         refunded |-> FALSE]
  BY <1>3 DEF Purchase, New, SeatNumber
<1>9. QED
  BY <1>3, <1>4, <1>6, <1>7, <1>8

\* Every step keeps the types.
LEMMA StepTypeOK == TypeOK /\ [Next]_vars => TypeOK'
<1> SUFFICES ASSUME TypeOK, [Next]_vars PROVE TypeOK'
  OBVIOUS
<1>0. Rows \subseteq Tickets
  BY RowsAreTickets
<1>1. ASSUME NEW r \in Requests, CheckEvent(r)
      PROVE  TypeOK'
  BY <1>1 DEF CheckEvent, TypeOK, RequestState, Rows
<1>2. ASSUME NEW r \in Requests, Purchase(r)
      PROVE  TypeOK'
  <2>1. /\ Rows' = Rows \cup New(r) /\ New(r) \subseteq Tickets
        /\ request[r].user \in Users /\ request[r].category \in Categories
        /\ request[r].quantity \in Nat
    BY <1>2, PurchaseFacts DEF TypeOK, RequestState
  <2>2. created' \in 0..MaxTickets
    BY <1>2, <2>1, SeatAssumption DEF Purchase, TypeOK
  <2>3. ticket' \in [Rows' -> Row]
    <3>1. \A t \in Rows : ticket'[t] \in Row
      BY <1>2, PurchaseFacts DEF TypeOK
    <3>2. \A t \in New(r) : t - created \in Nat
      BY <2>1 DEF New, TypeOK
    <3>3. Taken(request[r].category) \in Nat
      BY <1>2, PurchaseFacts
    <3>4. \A t \in New(r) : Taken(request[r].category) + (t - created) \in Nat
      BY <3>2, <3>3
    <3>5. \A t \in New(r) : ticket'[t] \in Row
      <4> TAKE t \in New(r)
      <4>1. ticket'[t] = [status |-> "pending_payment",
                          user |-> request[r].user,
                          category |-> request[r].category,
                          seat |-> Taken(request[r].category) + (t - created),
                          refunded |-> FALSE]
        BY <1>2, PurchaseFacts
      <4>2. QED
        BY <2>1, <3>4, <4>1 DEF Row
    <3>6. ticket' = [t \in Rows' |-> ticket'[t]]
      BY <1>2, <2>1 DEF Purchase, New
    <3>7. QED
      BY <2>1, <3>1, <3>5, <3>6
  <2>4. balance' \in [Users -> Nat]
    <3> DEFINE cost == Price[request[r].category] * request[r].quantity
    <3>1. cost \in Nat
      BY <2>1, SeatAssumption
    <3>2. balance[request[r].user] - cost \in Nat
      BY <1>2, <2>1, <3>1 DEF Purchase, CanPay, TypeOK
    <3>3. balance' = [balance EXCEPT ![request[r].user]
                                       = balance[request[r].user] - cost]
      BY <1>2 DEF Purchase
    <3> HIDE DEF cost
    <3>4. QED
      BY <2>1, <3>2, <3>3 DEF TypeOK
  <2>5. request' \in [Requests -> RequestState]
    BY <1>2, <2>1 DEF Purchase, New, TypeOK, RequestState
  <2>6. QED
    BY <1>2, <2>1, <2>2, <2>3, <2>4, <2>5 DEF Purchase, TypeOK
<1>3. ASSUME NEW r \in Requests, NEW t \in Rows, EnqueueDeposit(r, t)
      PROVE  TypeOK'
  <2>1. job' \in [Tickets -> JobState]
    BY <1>0, <1>3 DEF EnqueueDeposit, TypeOK, JobState
  <2>2. request[r].todo \ {t} \in SUBSET Tickets
    BY DEF TypeOK, RequestState
  <2>3. request' \in [Requests -> RequestState]
    <3> DEFINE pc == IF request[r].todo = {t} THEN "done" ELSE "enqueue"
               todo == request[r].todo \ {t}
    <3>1. pc \in {"enqueue", "done"} /\ todo \in SUBSET Tickets
      BY <2>2
    <3>2. request' = [request EXCEPT ![r].todo = todo, ![r].pc = pc]
      BY <1>3 DEF EnqueueDeposit
    <3> HIDE DEF pc, todo
    <3>3. QED
      BY <3>1, <3>2 DEF TypeOK, RequestState
  <2>4. QED
    BY <1>3, <2>1, <2>3 DEF EnqueueDeposit, TypeOK, Rows
<1>4. ASSUME NEW r \in Requests, EndRequest(r)
      PROVE  TypeOK'
  BY <1>4 DEF EndRequest, TypeOK, RequestState, Rows
<1>5. CASE CloseEvent
  BY <1>5 DEF CloseEvent, TypeOK, Rows
<1>6. ASSUME NEW t \in Rows, Broadcast(t)
      PROVE  TypeOK'
  BY <1>0, <1>6 DEF Broadcast, TypeOK, JobState, Rows
<1>7. ASSUME NEW t \in Rows, Mine(t) \/ Drop(t)
      PROVE  TypeOK'
  BY <1>7 DEF Mine, Drop, TypeOK, Rows
<1>8. ASSUME NEW t \in Rows, SeeReceipt(t) \/ RedeliverDeposit(t) \/ AbortDeposit(t)
      PROVE  TypeOK'
  <2>1. \E stage \in {"confirmed", "queued", "over"} :
            job' = [job EXCEPT ![t].stage = stage]
    BY <1>8 DEF SeeReceipt, RedeliverDeposit, AbortDeposit
  <2>2. job' \in [Tickets -> JobState]
    BY <1>0, <2>1 DEF TypeOK, JobState
  <2>3. UNCHANGED <<eventActive, request, created, ticket, balance, withdrawn,
                    aged, exhausted, mempool, deposited>>
    BY <1>8 DEF SeeReceipt, RedeliverDeposit, AbortDeposit
  <2>4. QED
    BY <2>2, <2>3 DEF TypeOK, Rows
<1>9. ASSUME NEW t \in Rows, Activate(t)
      PROVE  TypeOK'
  <2>1. ticket' \in [Rows -> Row]
    BY <1>9 DEF Activate, TypeOK, Row
  <2>2. job' \in [Tickets -> JobState]
    BY <1>0, <1>9 DEF Activate, TypeOK, JobState
  <2>3. QED
    BY <1>9, <2>1, <2>2 DEF Activate, TypeOK, Rows
<1>10. ASSUME NEW t \in Rows, RetryDeposit(t)
       PROVE  TypeOK'
  <2>1. job[t].attempt + 1 \in 1..MaxAttempts
    BY <1>0, <1>10, SeatAssumption DEF RetryDeposit, TypeOK, JobState
  <2>2. QED
    BY <1>0, <1>10, <2>1 DEF RetryDeposit, TypeOK, JobState, Rows
<1>11. ASSUME NEW t \in Rows, GiveUpDeposit(t)
       PROVE  TypeOK'
  <2>1. ticket' \in [Rows -> Row]
    BY <1>11 DEF GiveUpDeposit, TypeOK, Row
  <2>2. job' \in [Tickets -> JobState]
    BY <1>0, <1>11 DEF GiveUpDeposit, TypeOK, JobState
  <2>3. QED
    BY <1>11, <2>1, <2>2 DEF GiveUpDeposit, TypeOK, Rows
<1>12. ASSUME NEW t \in Rows, Age(t)
       PROVE  TypeOK'
  BY <1>12 DEF Age, TypeOK, Rows
<1>13. ASSUME NEW t \in Rows, VoidStale(t)
       PROVE  TypeOK'
  <2>1. Price[ticket[t].category] \in Nat /\ ticket[t].user \in Users
    BY SeatAssumption DEF TypeOK, Row
  <2>2. balance' \in [Users -> Nat]
    BY <1>13, <2>1 DEF VoidStale, FailAndCredit, TypeOK
  <2>3. ticket' \in [Rows -> Row]
    BY <1>13 DEF VoidStale, FailAndCredit, TypeOK, Row
  <2>4. QED
    BY <1>13, <2>2, <2>3 DEF VoidStale, FailAndCredit, TypeOK, Rows
<1>14. CASE UNCHANGED vars
  BY <1>14 DEF vars, TypeOK, Rows
<1>15. ASSUME NEW u \in Users, NEW amount \in Withdrawals, Withdraw(u, amount)
       PROVE  TypeOK'
  <2>1. balance[u] - amount \in Nat /\ withdrawn[u] + amount \in Nat
    BY <1>15, SeatAssumption DEF Withdraw, TypeOK
  <2>2. QED
    BY <1>15, <2>1 DEF Withdraw, TypeOK, Rows
<1>16. QED
  BY <1>1, <1>2, <1>3, <1>4, <1>5, <1>6, <1>7, <1>8, <1>9, <1>10, <1>11, <1>12,
     <1>13, <1>14, <1>15
  DEF Next

-----------------------------------------------------------------------------
\* What a task and its ticket know of each other: a worker that has a receipt
\* has it of a mined deposit, and a ticket gets its one task from the request
\* that created it.
TasksFollowTickets ==
    /\ \A t \in Rows : job[t].stage = "confirmed" => t \in deposited
    /\ \A t \in Tickets \ Rows : job[t].stage = "none"
    /\ \A r \in Requests : \A t \in request[r].todo : job[t].stage = "none"
    /\ \A r, s \in Requests : request[r].todo \cap request[s].todo # {} => r = s
    /\ \A r \in Requests : request[r].todo \subseteq Rows
    /\ \A r \in Requests : request[r].pc # "enqueue" => request[r].todo = {}

\* What the safety of single tickets rests on.
TicketInv ==
    /\ TypeOK
    /\ TasksFollowTickets
    /\ ActiveIsDeposited
    /\ RefundedIsFailed
    /\ TicketOrMoney

LEMMA InitTicketInv == Init => TicketInv
<1> SUFFICES ASSUME Init PROVE TicketInv
  OBVIOUS
<1>1. TypeOK /\ Rows = {}
  BY InitTypeOK DEF Init, Rows
<1>2. QED
  BY <1>1
  DEF Init, TicketInv, TasksFollowTickets, ActiveIsDeposited, RefundedIsFailed,
      TicketOrMoney

\* Every step keeps it.
LEMMA StepTicketInv == TicketInv /\ [Next]_vars => TicketInv'
<1> SUFFICES ASSUME TicketInv, [Next]_vars PROVE TicketInv'
  OBVIOUS
<1> USE DEF TicketInv, TasksFollowTickets, ActiveIsDeposited, RefundedIsFailed,
            TicketOrMoney
<1>0. TypeOK' /\ Rows \subseteq Tickets
  BY StepTypeOK, RowsAreTickets
<1>1. ASSUME NEW r \in Requests, CheckEvent(r)
      PROVE  TicketInv'
  <2>1. /\ UNCHANGED <<ticket, job, exhausted, deposited>>
        /\ Rows' = Rows
    BY <1>1 DEF CheckEvent, Rows
  <2>2. /\ request[r].pc = "start" /\ request'[r].pc = "checked"
        /\ \A s \in Requests : request'[s].todo = request[s].todo
        /\ \A s \in Requests \ {r} : request'[s] = request[s]
    BY <1>1 DEF CheckEvent, TypeOK, RequestState
  <2>3. TasksFollowTickets'
    BY <2>1, <2>2
  <2>4. ActiveIsDeposited' /\ RefundedIsFailed' /\ TicketOrMoney'
    BY <2>1
  <2>5. QED
    BY <1>0, <2>3, <2>4
<1>2. ASSUME NEW r \in Requests, Purchase(r)
      PROVE  TicketInv'
  <2>1. /\ Rows' = Rows \cup New(r) /\ Rows \cap New(r) = {}
        /\ New(r) \subseteq Tickets
        /\ \A t \in Rows : ticket'[t] = ticket[t]
        /\ \A t \in New(r) : /\ ticket'[t].status = "pending_payment"
                             /\ ~ticket'[t].refunded
    <3>1. TypeOK
      OBVIOUS
    <3>2. /\ Rows' = Rows \cup New(r) /\ Rows \cap New(r) = {}
          /\ New(r) \subseteq Tickets
          /\ \A t \in Rows : ticket'[t] = ticket[t]
      BY <1>2, <3>1, PurchaseFacts
    <3>3. ASSUME NEW t \in New(r)
          PROVE  ticket'[t].status = "pending_payment" /\ ~ticket'[t].refunded
      <4>1. ticket'[t] = [status |-> "pending_payment",
                          user |-> request[r].user,
                          category |-> request[r].category,
                          seat |-> Taken(request[r].category) + (t - created),
                          refunded |-> FALSE]
        BY <1>2, <3>1, PurchaseFacts
      <4>2. QED
        BY <4>1
    <3>4. QED
      BY <3>2, <3>3
  <2>2. UNCHANGED <<job, exhausted, deposited>>
    BY <1>2 DEF Purchase
  <2>3. /\ request'[r].todo = New(r) /\ request'[r].pc = "enqueue"
        /\ \A s \in Requests \ {r} : request'[s] = request[s]
    BY <1>2 DEF Purchase, New, TypeOK, RequestState
  <2>4. TasksFollowTickets'
    BY <2>1, <2>2, <2>3
  <2>5. QED
    BY <1>0, <2>1, <2>2, <2>4
<1>3. ASSUME NEW r \in Requests, NEW t \in Rows, EnqueueDeposit(r, t)
      PROVE  TicketInv'
  <2>1. /\ job'[t].stage = "queued"
        /\ \A u \in Tickets \ {t} : job'[u] = job[u]
        /\ job[t].stage = "none" /\ t \in request[r].todo
    BY <1>0, <1>3 DEF EnqueueDeposit, TypeOK, JobState
  <2>2. /\ request'[r].todo = request[r].todo \ {t}
        /\ \A s \in Requests \ {r} : request'[s] = request[s]
    BY <1>3 DEF EnqueueDeposit, TypeOK, RequestState
  <2>3. request'[r].pc # "enqueue" => request'[r].todo = {}
    <3>1. request'[r].pc = IF request[r].todo = {t} THEN "done" ELSE "enqueue"
      BY <1>3 DEF EnqueueDeposit, TypeOK, RequestState
    <3>2. QED
      BY <2>2, <3>1
  <2>4. UNCHANGED <<ticket, exhausted, deposited, created>> /\ Rows' = Rows
    BY <1>3 DEF EnqueueDeposit, Rows
  <2>5. \A s \in Requests : t \notin request'[s].todo
    BY <2>1, <2>2
  <2>6. \A s \in Requests : request'[s].todo \subseteq request[s].todo
    BY <2>2
  <2>7. \A s \in Requests : \A u \in request'[s].todo : job'[u].stage = "none"
    BY <1>0, <2>1, <2>5, <2>6
  <2>8. \A s, z \in Requests : request'[s].todo \cap request'[z].todo # {} => s = z
    BY <2>6
  <2>9. \A s \in Requests : request'[s].pc # "enqueue" => request'[s].todo = {}
    BY <2>2, <2>3
  <2>10. TasksFollowTickets'
    BY <1>0, <2>1, <2>4, <2>6, <2>7, <2>8, <2>9
  <2>11. QED
    BY <1>0, <2>1, <2>4, <2>10
<1>4. ASSUME NEW r \in Requests, EndRequest(r)
      PROVE  TicketInv'
  <2>1. /\ request'[r].todo = {}
        /\ \A s \in Requests \ {r} : request'[s] = request[s]
        /\ UNCHANGED <<ticket, exhausted, deposited, job>> /\ Rows' = Rows
    BY <1>4 DEF EndRequest, TypeOK, RequestState, Rows
  <2>2. QED
    BY <1>0, <2>1
<1>5. ASSUME \/ CloseEvent \/ UNCHANGED vars \/ \E t \in Rows : Age(t)
             \/ \E u \in Users, amount \in Withdrawals : Withdraw(u, amount)
      PROVE  TicketInv'
  BY <1>0, <1>5 DEF CloseEvent, vars, Age, Withdraw, Rows
<1>6. ASSUME NEW t \in Rows, Mine(t) \/ Drop(t)
      PROVE  TicketInv'
  BY <1>0, <1>6 DEF Mine, Drop, Rows
<1>7. ASSUME NEW t \in Rows,
             \/ Broadcast(t) \/ SeeReceipt(t) \/ RetryDeposit(t)
             \/ RedeliverDeposit(t) \/ AbortDeposit(t)
      PROVE  TicketInv'
  <2>1. /\ \A u \in Tickets \ {t} : job'[u] = job[u]
        /\ job[t].stage # "none"
        /\ job'[t].stage = "confirmed" => t \in deposited
        /\ UNCHANGED <<ticket, request, exhausted, deposited>> /\ Rows' = Rows
    BY <1>0, <1>7
    DEF Broadcast, SeeReceipt, RetryDeposit, RedeliverDeposit, AbortDeposit,
        TypeOK, JobState, Rows
  <2>2. QED
    BY <1>0, <2>1
<1>8. ASSUME NEW t \in Rows, Activate(t)
      PROVE  TicketInv'
  <2>1. /\ \A u \in Tickets \ {t} : job'[u] = job[u]
        /\ job[t].stage = "confirmed" /\ job'[t].stage = "over"
        /\ UNCHANGED <<request, exhausted, deposited>> /\ Rows' = Rows
    BY <1>0, <1>8 DEF Activate, TypeOK, JobState, Rows
  <2>2. /\ \A u \in Rows \ {t} : ticket'[u] = ticket[u]
        /\ ticket'[t].refunded = ticket[t].refunded
        /\ ticket[t].status = "pending_payment" => ticket'[t].status = "active"
        /\ ticket[t].status # "pending_payment" => ticket'[t] = ticket[t]
    BY <1>8 DEF Activate, TypeOK, Row
  <2>3. QED
    BY <1>0, <2>1, <2>2
<1>9. ASSUME NEW t \in Rows, GiveUpDeposit(t)
      PROVE  TicketInv'
  <2>1. /\ \A u \in Tickets \ {t} : job'[u] = job[u]
        /\ job[t].stage # "none" /\ job'[t].stage = "over"
        /\ exhausted' = exhausted \cup {t}
        /\ UNCHANGED <<request, deposited>> /\ Rows' = Rows
    BY <1>0, <1>9 DEF GiveUpDeposit, TypeOK, JobState, Rows
  <2>2. /\ \A u \in Rows \ {t} : ticket'[u] = ticket[u]
        /\ ticket'[t].refunded = ticket[t].refunded
        /\ ticket[t].status = "pending_payment" => ticket'[t].status = "failed"
        /\ ticket[t].status # "pending_payment" => ticket'[t] = ticket[t]
    BY <1>9 DEF GiveUpDeposit, TypeOK, Row
  <2>3. QED
    BY <1>0, <2>1, <2>2
<1>10. ASSUME NEW t \in Rows, VoidStale(t)
       PROVE  TicketInv'
  <2>1. /\ \A u \in Rows \ {t} : ticket'[u] = ticket[u]
        /\ ticket'[t].refunded /\ ticket'[t].status = "failed"
        /\ UNCHANGED <<request, exhausted, deposited, job>> /\ Rows' = Rows
    BY <1>10 DEF VoidStale, FailAndCredit, TypeOK, Row, Rows
  <2>2. QED
    BY <1>0, <2>1
<1>11. QED
  BY <1>1, <1>2, <1>3, <1>4, <1>5, <1>6, <1>7, <1>8, <1>9, <1>10 DEF Next

-----------------------------------------------------------------------------
\* What every step but a purchase leaves alone in the ticket rows.
RowsKept ==
    /\ Rows' = Rows
    /\ \A t \in Rows :
         /\ ticket'[t].seat = ticket[t].seat
         /\ ticket'[t].category = ticket[t].category
         /\ ticket'[t].user = ticket[t].user
         /\ ticket[t].status = "failed" => ticket'[t].status = "failed"

LEMMA PurchaseAddsRows ==
    ASSUME TypeOK, [Next]_vars, ~\E r \in Requests : Purchase(r)
    PROVE  RowsKept
<1> USE DEF RowsKept
<1>1. ASSUME NEW t \in Rows, Activate(t)
      PROVE  RowsKept
  <2>1. Rows' = Rows
    BY <1>1 DEF Activate, Rows
  <2>2. CASE ticket[t].status = "pending_payment"
    BY <1>1, <2>1, <2>2 DEF Activate, TypeOK, Row
  <2>3. CASE ticket[t].status # "pending_payment"
    BY <1>1, <2>1, <2>3 DEF Activate
  <2>4. QED
    BY <2>2, <2>3
<1>2. ASSUME NEW t \in Rows, GiveUpDeposit(t)
      PROVE  RowsKept
  <2>1. Rows' = Rows
    BY <1>2 DEF GiveUpDeposit, Rows
  <2>2. CASE ticket[t].status = "pending_payment"
    BY <1>2, <2>1, <2>2 DEF GiveUpDeposit, TypeOK, Row
  <2>3. CASE ticket[t].status # "pending_payment"
    BY <1>2, <2>1, <2>3 DEF GiveUpDeposit
  <2>4. QED
    BY <2>2, <2>3
<1>3. ASSUME NEW t \in Rows, VoidStale(t)
      PROVE  RowsKept
  BY <1>3 DEF VoidStale, FailAndCredit, TypeOK, Row, Rows
<1>4. CASE UNCHANGED <<created, ticket>>
  BY <1>4 DEF Rows
<1>5. QED
  BY <1>1, <1>2, <1>3, <1>4
  DEF Next, vars, CheckEvent, EnqueueDeposit, EndRequest, CloseEvent, Withdraw,
      Broadcast, Mine, Drop, SeeReceipt, RetryDeposit, RedeliverDeposit, AbortDeposit, Age

\* A purchase adds its tickets to those that occupy its category.
LEMMA PurchaseOccupies ==
    ASSUME TypeOK, NEW r \in Requests, Purchase(r), NEW c \in Categories
    PROVE  IF c = request[r].category
           THEN /\ Occupying(c)' = Occupying(c) \cup New(r)
                /\ Occupying(c) \cap New(r) = {}
                /\ Taken(c)' = Taken(c) + request[r].quantity
           ELSE Occupying(c)' = Occupying(c)
<1>1. /\ Rows' = Rows \cup New(r) /\ Rows \cap New(r) = {}
      /\ IsFiniteSet(New(r)) /\ Cardinality(New(r)) = request[r].quantity
      /\ IsFiniteSet(Occupying(c))
      /\ \A t \in Rows : ticket'[t] = ticket[t]
  BY PurchaseFacts
<1>2. ASSUME NEW t \in New(r)
      PROVE  /\ ticket'[t].status = "pending_payment"
             /\ ticket'[t].category = request[r].category
  <2>1. ticket'[t] = [status |-> "pending_payment",
                      user |-> request[r].user,
                      category |-> request[r].category,
                      seat |-> Taken(request[r].category) + (t - created),
                      refunded |-> FALSE]
    BY PurchaseFacts
  <2>2. QED
    BY <2>1
<1>3. CASE c = request[r].category
  <2>1. Occupying(c)' = Occupying(c) \cup New(r)
    BY <1>1, <1>2, <1>3 DEF Occupying
  <2>2. Occupying(c) \cap New(r) = {}
    BY <1>1 DEF Occupying
  <2> DEFINE old == Occupying(c)
             new == New(r)
  <2>3. /\ IsFiniteSet(old) /\ IsFiniteSet(new) /\ old \cap new = {}
        /\ Cardinality(new) = request[r].quantity /\ request[r].quantity \in Nat
    BY <1>1, <2>2 DEF TypeOK, RequestState
  <2> HIDE DEF old, new
  <2>4. Cardinality(old \cup new) = Cardinality(old) + Cardinality(new)
    <3>1. /\ Cardinality(old \cup new)
               = Cardinality(old) + Cardinality(new) - Cardinality(old \cap new)
          /\ Cardinality(old \cap new) = 0
      BY <2>3, FS_Union, FS_EmptySet
    <3>2. Cardinality(old) \in Nat /\ Cardinality(new) \in Nat
      BY <2>3, FS_CardinalityType
    <3>3. QED
      BY <3>1, <3>2
  <2>5. Taken(c)' = Cardinality(old \cup new) /\ Taken(c) = Cardinality(old)
    BY <2>1 DEF Taken, old, new
  <2>6. QED
    BY <1>3, <2>1, <2>2, <2>3, <2>4, <2>5
<1>4. CASE c # request[r].category
  <2>1. Occupying(c)' = Occupying(c)
    BY <1>1, <1>2, <1>4 DEF Occupying
  <2>2. QED
    BY <1>4, <2>1
<1>5. QED
  BY <1>3, <1>4

\* As long as nothing of the category failed, seats are taken in order: the
\* count that numbers the next seat is above every seat in use.
SeatsFollowCount ==
    \A c \in Categories :
        (\A t \in Rows : ticket[t].category = c => ticket[t].status # "failed")
            => /\ \A t \in Occupying(c) : ticket[t].seat <= Taken(c)
               /\ \A s, t \in Occupying(c) : ticket[s].seat = ticket[t].seat => s = t

SeatInv == TypeOK /\ NoOversell /\ SeatsFollowCount

LEMMA InitSeatInv == Init => SeatInv
<1> SUFFICES ASSUME Init PROVE SeatInv
  OBVIOUS
<1>1. TypeOK /\ Rows = {}
  BY InitTypeOK DEF Init, Rows
<1>2. \A c \in Categories : Occupying(c) = {} /\ Taken(c) = 0
  BY <1>1, FS_EmptySet DEF Occupying, Taken
<1>3. QED
  BY <1>1, <1>2, SeatAssumption DEF SeatInv, NoOversell, SeatsFollowCount

LEMMA StepSeatInv == SeatInv /\ [Next]_vars => SeatInv'
<1> SUFFICES ASSUME SeatInv, [Next]_vars PROVE SeatInv'
  OBVIOUS
<1>1. TypeOK /\ TypeOK'
  BY StepTypeOK DEF SeatInv
<1>2. ASSUME NEW r \in Requests, Purchase(r)
      PROVE  SeatInv'
  <2>0. PICK c0 \in Categories : c0 = request[r].category
    BY <1>1 DEF TypeOK, RequestState
  <2> DEFINE q == request[r].quantity
  <2>1. /\ c0 \in Categories /\ q \in Nat /\ Taken(c0) \in Nat
        /\ Taken(c0) + q <= Capacity[c0] /\ Capacity[c0] \in Nat
        /\ created \in Nat
        /\ \A t \in Rows : ticket'[t] = ticket[t] /\ ticket[t].seat \in Nat
        /\ Rows \cap New(r) = {} /\ Rows' = Rows \cup New(r)
    <3>1. c0 \in Categories /\ q \in Nat /\ created \in Nat
      BY <1>1 DEF TypeOK, RequestState
    <3>2. Taken(c0) + q <= Capacity[c0] /\ Capacity[c0] \in Nat
      BY <1>2, <2>0, <3>1, SeatAssumption DEF Purchase, SeatsLeft
    <3>3. \A t \in Rows : ticket[t].seat \in Nat
      BY <1>1 DEF TypeOK, Row
    <3>4. QED
      BY <1>1, <1>2, <2>0, <3>1, <3>2, <3>3, PurchaseFacts
  <2>2. \A t \in New(r) : /\ t - created \in 1..q
                          /\ ticket'[t].seat = Taken(c0) + (t - created)
                          /\ ticket'[t].category = c0
    <3>1. \A t \in New(r) : t - created \in 1..q
      BY <2>1 DEF New
    <3>2. ASSUME NEW t \in New(r)
          PROVE  /\ ticket'[t].seat = Taken(c0) + (t - created)
                 /\ ticket'[t].category = c0
      <4>1. ticket'[t] = [status |-> "pending_payment",
                          user |-> request[r].user,
                          category |-> c0,
                          seat |-> Taken(c0) + (t - created),
                          refunded |-> FALSE]
        BY <1>1, <1>2, <2>0, PurchaseFacts
      <4>2. QED
        BY <4>1
    <3>3. QED
      BY <3>1, <3>2
  <2>3. /\ Occupying(c0)' = Occupying(c0) \cup New(r)
        /\ Taken(c0)' = Taken(c0) + q
        /\ \A c \in Categories \ {c0} :
             Occupying(c)' = Occupying(c) /\ Taken(c)' = Taken(c)
    <3>1. /\ Occupying(c0)' = Occupying(c0) \cup New(r)
          /\ Taken(c0)' = Taken(c0) + q
      BY <1>1, <1>2, <2>0, <2>1, PurchaseOccupies
    <3>2. ASSUME NEW c \in Categories \ {c0}
          PROVE  Occupying(c)' = Occupying(c)
      BY <1>1, <1>2, <2>0, PurchaseOccupies
    <3>3. QED
      BY <3>1, <3>2 DEF Taken
  <2>4. \A c \in Categories : Occupying(c) \subseteq Rows
    BY DEF Occupying
  <2>5. NoOversell'
    <3>1. \A t \in Occupying(c0) : ticket'[t].seat \in 1..Capacity[c0]
      BY <2>1, <2>4 DEF SeatInv, NoOversell
    <3>2. \A t \in New(r) : ticket'[t].seat \in 1..Capacity[c0]
      BY <2>1, <2>2
    <3>3. ASSUME NEW c \in Categories \ {c0}
          PROVE  /\ Taken(c)' <= Capacity[c]
                 /\ \A t \in Occupying(c)' : ticket'[t].seat \in 1..Capacity[c]
      BY <2>1, <2>3, <2>4 DEF SeatInv, NoOversell
    <3>4. /\ Taken(c0)' <= Capacity[c0]
          /\ \A t \in Occupying(c0)' : ticket'[t].seat \in 1..Capacity[c0]
      BY <2>1, <2>3, <3>1, <3>2
    <3>5. \A c \in Categories :
            /\ Taken(c)' <= Capacity[c]
            /\ \A t \in Occupying(c)' : ticket'[t].seat \in 1..Capacity[c]
      BY <3>3, <3>4
    <3>6. QED
      BY <3>5 DEF NoOversell
  <2>6. SeatsFollowCount'
    <3> SUFFICES ASSUME NEW c \in Categories,
                        \A t \in Rows' : ticket'[t].category = c
                                            => ticket'[t].status # "failed"
                 PROVE  /\ \A t \in Occupying(c)' : ticket'[t].seat <= Taken(c)'
                        /\ \A s, t \in Occupying(c)' :
                             ticket'[s].seat = ticket'[t].seat => s = t
      BY DEF SeatsFollowCount
    <3>1. /\ \A t \in Occupying(c) : ticket[t].seat <= Taken(c)
          /\ \A s, t \in Occupying(c) : ticket[s].seat = ticket[t].seat => s = t
      BY <2>1 DEF SeatInv, SeatsFollowCount
    <3>2. \A t \in Occupying(c) : ticket'[t].seat = ticket[t].seat /\ ticket[t].seat \in Nat
      BY <2>1, <2>4
    <3>3. CASE c = c0
      <4>1. \A t \in New(r) : /\ ticket'[t].seat > Taken(c0)
                              /\ ticket'[t].seat <= Taken(c0) + q
        BY <2>1, <2>2
      <4>2. \A s, t \in New(r) : ticket'[s].seat = ticket'[t].seat => s = t
        BY <2>1, <2>2 DEF New
      <4>3. \A s \in Occupying(c0), t \in New(r) : ticket'[s].seat # ticket'[t].seat
        BY <2>1, <2>2, <3>1, <3>2, <3>3, <4>1
      <4>4. \A t \in Occupying(c0) : ticket'[t].seat <= Taken(c0) + q
        BY <2>1, <3>1, <3>2, <3>3
      <4>5. \A t \in Occupying(c0)' : ticket'[t].seat <= Taken(c0)'
        BY <2>3, <4>1, <4>4
      <4>6. \A s, t \in Occupying(c0) : ticket'[s].seat = ticket'[t].seat => s = t
        BY <3>1, <3>2, <3>3
      <4>7. \A s, t \in Occupying(c0)' : ticket'[s].seat = ticket'[t].seat => s = t
        BY <2>3, <4>2, <4>3, <4>6
      <4>8. QED
        BY <3>3, <4>5, <4>7
    <3>4. CASE c # c0
      BY <2>3, <3>1, <3>2, <3>4
    <3>5. QED
      BY <3>3, <3>4
  <2>7. QED
    BY <1>1, <2>5, <2>6 DEF SeatInv
<1>3. ASSUME ~\E r \in Requests : Purchase(r)
      PROVE  SeatInv'
  <2>1. RowsKept
    BY <1>1, <1>3, PurchaseAddsRows
  <2>2. \A t \in Rows : /\ ticket[t].status \in {"pending_payment", "active", "failed"}
                        /\ ticket'[t].status \in {"pending_payment", "active", "failed"}
    BY <1>1, <2>1 DEF TypeOK, Row, RowsKept
  <2>3. \A c \in Categories : Occupying(c)' \subseteq Occupying(c)
    BY <2>1, <2>2 DEF RowsKept, Occupying
  <2>4. \A c \in Categories : Occupying(c) \subseteq Rows
    BY DEF Occupying
  <2>5. \A c \in Categories : IsFiniteSet(Occupying(c))
    <3>1. 1 \in Int /\ created \in Int
      BY <1>1 DEF TypeOK
    <3>2. IsFiniteSet(Rows)
      BY <3>1, FS_Interval DEF Rows
    <3>3. QED
      BY <2>4, <3>2, FS_Subset
  <2>6. NoOversell'
    <3> SUFFICES ASSUME NEW c \in Categories
                 PROVE  /\ Taken(c)' <= Capacity[c]
                        /\ \A t \in Occupying(c)' : ticket'[t].seat \in 1..Capacity[c]
      BY DEF NoOversell
    <3>1. /\ Taken(c) <= Capacity[c] /\ Capacity[c] \in Nat
          /\ \A t \in Occupying(c) : ticket[t].seat \in 1..Capacity[c]
      BY SeatAssumption DEF SeatInv, NoOversell
    <3> DEFINE old == Occupying(c)
               new == Occupying(c)'
    <3>2. /\ IsFiniteSet(old) /\ new \in SUBSET old
          /\ Taken(c) = Cardinality(old) /\ Taken(c)' = Cardinality(new)
      BY <2>3, <2>5 DEF Taken
    <3>3. \A t \in new : ticket'[t].seat \in 1..Capacity[c]
      BY <2>1, <2>3, <2>4, <3>1 DEF RowsKept
    <3> HIDE DEF old, new
    <3>4. /\ Cardinality(new) <= Cardinality(old)
          /\ Cardinality(new) \in Nat /\ Cardinality(old) \in Nat
      BY <3>2, FS_Subset, FS_CardinalityType
    <3>5. Taken(c)' <= Capacity[c]
      BY <3>1, <3>2, <3>4
    <3>6. QED
      BY <3>3, <3>5 DEF new
  <2>7. SeatsFollowCount'
    <3> SUFFICES ASSUME NEW c \in Categories,
                        \A t \in Rows' : ticket'[t].category = c
                                            => ticket'[t].status # "failed"
                 PROVE  /\ \A t \in Occupying(c)' : ticket'[t].seat <= Taken(c)'
                        /\ \A s, t \in Occupying(c)' :
                             ticket'[s].seat = ticket'[t].seat => s = t
      BY DEF SeatsFollowCount
    <3>1. /\ \A t \in Occupying(c) : ticket[t].seat <= Taken(c)
          /\ \A s, t \in Occupying(c) : ticket[s].seat = ticket[t].seat => s = t
      BY <2>1 DEF SeatInv, SeatsFollowCount, RowsKept
    <3>2. Occupying(c)' = Occupying(c)
      BY <2>1, <2>2 DEF RowsKept, Occupying
    <3>3. Taken(c)' = Taken(c)
      BY <3>2 DEF Taken
    <3>4. QED
      BY <2>1, <2>4, <3>1, <3>2, <3>3 DEF RowsKept
  <2>8. QED
    BY <1>1, <2>6, <2>7 DEF SeatInv
<1>4. QED
  BY <1>2, <1>3

-----------------------------------------------------------------------------
\* What is spent on each ticket is a natural number.
LEMMA SpentIsNat ==
    ASSUME TypeOK, NEW u \in Users
    PROVE  /\ IsFiniteSet(Rows)
           /\ \A t \in Rows : Spent(u)[t] \in Nat
           /\ Total(Rows, Spent(u)) \in Nat
<1>1. IsFiniteSet(Rows)
  <2>1. 1 \in Int /\ created \in Int
    BY DEF TypeOK
  <2>2. QED
    BY <2>1, FS_Interval DEF Rows
<1>2. \A t \in Rows : Spent(u)[t] \in Nat
  BY SeatAssumption DEF TypeOK, Row, Spent
<1>3. QED
  BY <1>1, <1>2, TotalIsNat

\* A purchase debits the buyer's wallet the price of each ticket it creates.
LEMMA PurchaseSpends ==
    ASSUME TypeOK, WalletMatchesTickets, NEW r \in Requests, Purchase(r)
    PROVE  WalletMatchesTickets'
<1> SUFFICES ASSUME NEW u \in Users
             PROVE  (balance[u] + Total(Rows, Spent(u)) + withdrawn[u] = InitialBalance)'
  BY DEF WalletMatchesTickets
<1>1. PICK buyer \in Users, c \in Categories, q \in Nat :
         /\ buyer = request[r].user /\ c = request[r].category
         /\ q = request[r].quantity
  BY DEF TypeOK, RequestState
<1> DEFINE old == Rows
           new == New(r)
           after == Spent(u)'
<1>2. /\ Price[c] \in Nat /\ balance[u] \in Nat /\ InitialBalance \in Nat
      /\ withdrawn[u] \in Nat
  BY SeatAssumption DEF TypeOK
<1>3. /\ Rows' = old \cup new /\ old \cap new = {}
      /\ IsFiniteSet(new) /\ Cardinality(new) = q
      /\ \A t \in Rows : ticket'[t] = ticket[t]
  BY <1>1, PurchaseFacts
<1>4. ASSUME NEW t \in new
      PROVE  after[t] = IF u = buyer THEN Price[c] ELSE 0
  <2>1. ticket'[t] = [status |-> "pending_payment",
                      user |-> buyer,
                      category |-> c,
                      seat |-> Taken(request[r].category) + (t - created),
                      refunded |-> FALSE]
    BY <1>1, PurchaseFacts
  <2>2. t \in Rows'
    BY <1>3
  <2>3. after[t] = IF ticket'[t].user = u /\ ~ticket'[t].refunded
                   THEN Price[ticket'[t].category] ELSE 0
    BY <2>2 DEF Spent
  <2>4. QED
    BY <2>1, <2>3
<1>5. \A t \in old : after[t] = Spent(u)[t]
  BY <1>3 DEF Spent
<1>6. IsFiniteSet(old) /\ Total(old, Spent(u)) \in Nat /\ \A t \in old : Spent(u)[t] \in Nat
  BY SpentIsNat
<1>7. Total(Rows, Spent(u))' = Total(old \cup new, after)
  BY <1>3 DEF Total, Units
<1>8. /\ balance'[u] = IF u = buyer THEN balance[u] - Price[c] * q ELSE balance[u]
      /\ withdrawn'[u] = withdrawn[u]
  BY <1>1 DEF Purchase, TypeOK
<1>9. balance[u] + Total(old, Spent(u)) + withdrawn[u] = InitialBalance
  BY DEF WalletMatchesTickets
<1> HIDE DEF old, new, after
<1>10. \A t \in old \cup new : after[t] \in Nat
  BY <1>2, <1>4, <1>5, <1>6
<1>11. Total(old \cup new, after) = Total(old, after) + Total(new, after)
  BY <1>3, <1>6, <1>10, TotalUnion
<1>12. Total(old, after) = Total(old, Spent(u))
  BY <1>5, TotalSame
<1>13. CASE u = buyer
  <2>1. \A t \in new : after[t] = Price[c]
    BY <1>4, <1>13
  <2>2. Total(new, after) = q * Price[c]
    BY <1>2, <1>3, <2>1, TotalOfEqual
  <2>3. balance'[u] + Total(old \cup new, after)
          = (balance[u] - Price[c] * q) + (Total(old, Spent(u)) + q * Price[c])
    BY <1>8, <1>11, <1>12, <1>13, <2>2
  <2>4. Price[c] * q = q * Price[c] /\ q * Price[c] \in Nat
    BY <1>2
  <2>5. QED
    BY <1>2, <1>6, <1>7, <1>8, <1>9, <2>3, <2>4
<1>14. CASE u # buyer
  <2>1. \A t \in new : after[t] = 0
    BY <1>4, <1>14
  <2>2. Total(new, after) = 0
    BY <1>3, <2>1, TotalOfZeros
  <2>3. QED
    BY <1>2, <1>6, <1>7, <1>8, <1>9, <1>11, <1>12, <1>14, <2>2
<1>15. QED
  BY <1>13, <1>14

\* A void credits the ticket's price to its fan, and only the first time.
LEMMA VoidRefunds ==
    ASSUME TypeOK, RefundedIsFailed, WalletMatchesTickets,
           NEW t \in Rows, VoidStale(t)
    PROVE  WalletMatchesTickets'
<1> SUFFICES ASSUME NEW u \in Users
             PROVE  (balance[u] + Total(Rows, Spent(u)) + withdrawn[u] = InitialBalance)'
  BY DEF WalletMatchesTickets
<1>1. PICK fan \in Users, c \in Categories :
         fan = ticket[t].user /\ c = ticket[t].category
  BY DEF TypeOK, Row
<1> DEFINE rows == Rows
           before == Spent(u)
           after == Spent(u)'
<1>2. /\ Price[c] \in Nat /\ balance[u] \in Nat /\ InitialBalance \in Nat
      /\ withdrawn[u] \in Nat
  BY SeatAssumption DEF TypeOK
<1>3. Rows' = rows /\ Total(Rows, Spent(u))' = Total(rows, after)
  BY DEF VoidStale, FailAndCredit, Rows, Total, Units
<1>4. /\ \A s \in Rows \ {t} : ticket'[s] = ticket[s]
      /\ ticket'[t].refunded /\ ~ticket[t].refunded
  BY DEF VoidStale, FailAndCredit, TypeOK, Row, RefundedIsFailed
<1>5. /\ \A s \in rows \ {t} : before[s] = after[s]
      /\ after[t] = 0
      /\ before[t] = IF u = fan THEN Price[c] ELSE 0
  BY <1>1, <1>3, <1>4 DEF Spent
<1>6. /\ IsFiniteSet(rows) /\ Total(rows, before) \in Nat
      /\ \A s \in rows : before[s] \in Nat
  BY SpentIsNat
<1>7. /\ balance'[u] = IF u = fan THEN balance[u] + Price[c] ELSE balance[u]
      /\ withdrawn'[u] = withdrawn[u]
  BY <1>1 DEF VoidStale, FailAndCredit, TypeOK
<1>8. balance[u] + Total(rows, before) + withdrawn[u] = InitialBalance /\ t \in rows
  BY DEF WalletMatchesTickets
<1> HIDE DEF rows, before, after
<1>9. \A s \in rows : after[s] \in Nat
  BY <1>5, <1>6
<1>10. Total(rows, after) = Total(rows, before) - before[t] + after[t]
  BY <1>5, <1>6, <1>8, <1>9, TotalUpdate
<1>11. QED
  BY <1>2, <1>3, <1>5, <1>6, <1>7, <1>8, <1>10

\* Every step keeps the wallets in line with the tickets.
LEMMA StepWallet ==
    TicketInv /\ WalletMatchesTickets /\ [Next]_vars => WalletMatchesTickets'
<1> SUFFICES ASSUME TicketInv, WalletMatchesTickets, [Next]_vars
             PROVE  WalletMatchesTickets'
  OBVIOUS
<1>1. TypeOK /\ RefundedIsFailed
  BY DEF TicketInv
<1>2. TypeOK'
  BY <1>1, StepTypeOK
<1>3. ASSUME NEW r \in Requests, Purchase(r)
      PROVE  WalletMatchesTickets'
  BY <1>1, <1>3, PurchaseSpends
<1>4. ASSUME NEW t \in Rows, VoidStale(t)
      PROVE  WalletMatchesTickets'
  BY <1>1, <1>4, VoidRefunds
<1>5. ASSUME /\ \A u \in Users : balance'[u] + withdrawn'[u] = balance[u] + withdrawn[u]
             /\ Rows' = Rows
             /\ \A t \in Rows : /\ ticket'[t].user = ticket[t].user
                                /\ ticket'[t].category = ticket[t].category
                                /\ ticket'[t].refunded = ticket[t].refunded
      PROVE  WalletMatchesTickets'
  <2>1. \A u \in Users : Spent(u)' = Spent(u)
    BY <1>5 DEF Spent
  <2>2. \A u \in Users : Total(Rows, Spent(u))' = Total(Rows, Spent(u))
    BY <1>5, <2>1 DEF Total, Units
  <2>3. ASSUME NEW u \in Users
        PROVE  balance'[u] + Total(Rows, Spent(u)) + withdrawn'[u] = InitialBalance
    <3>1. /\ balance[u] \in Nat /\ withdrawn[u] \in Nat
          /\ balance'[u] \in Nat /\ withdrawn'[u] \in Nat
          /\ Total(Rows, Spent(u)) \in Nat
      BY <1>1, <1>2, SpentIsNat DEF TypeOK
    <3>2. /\ balance[u] + Total(Rows, Spent(u)) + withdrawn[u] = InitialBalance
          /\ balance'[u] + withdrawn'[u] = balance[u] + withdrawn[u]
      BY <1>5 DEF WalletMatchesTickets
    <3>3. QED
      BY <3>1, <3>2
  <2>4. QED
    BY <2>2, <2>3 DEF WalletMatchesTickets
<1>6. ASSUME NEW t \in Rows, Activate(t)
      PROVE  WalletMatchesTickets'
  <2>1. balance' = balance /\ withdrawn' = withdrawn /\ Rows' = Rows
    BY <1>6 DEF Activate, Rows
  <2>2. \A s \in Rows : /\ ticket'[s].user = ticket[s].user
                        /\ ticket'[s].category = ticket[s].category
                        /\ ticket'[s].refunded = ticket[s].refunded
    BY <1>1, <1>6 DEF Activate, TypeOK, Row
  <2>3. QED
    BY <1>5, <2>1, <2>2
<1>7. ASSUME NEW t \in Rows, GiveUpDeposit(t)
      PROVE  WalletMatchesTickets'
  <2>1. balance' = balance /\ withdrawn' = withdrawn /\ Rows' = Rows
    BY <1>7 DEF GiveUpDeposit, Rows
  <2>2. \A s \in Rows : /\ ticket'[s].user = ticket[s].user
                        /\ ticket'[s].category = ticket[s].category
                        /\ ticket'[s].refunded = ticket[s].refunded
    BY <1>1, <1>7 DEF GiveUpDeposit, TypeOK, Row
  <2>3. QED
    BY <1>5, <2>1, <2>2
<1>8. CASE UNCHANGED <<created, ticket, balance, withdrawn>>
  BY <1>5, <1>8 DEF Rows
<1>9. ASSUME NEW fan \in Users, NEW amount \in Withdrawals, Withdraw(fan, amount)
      PROVE  WalletMatchesTickets'
  <2>1. \A u \in Users : balance'[u] + withdrawn'[u] = balance[u] + withdrawn[u]
    BY <1>1, <1>9, SeatAssumption DEF Withdraw, TypeOK
  <2>2. ticket' = ticket /\ Rows' = Rows
    BY <1>9 DEF Withdraw, Rows
  <2>3. QED
    BY <1>5, <2>1, <2>2
<1>10. QED
  BY <1>3, <1>4, <1>6, <1>7, <1>8, <1>9
  DEF Next, vars, CheckEvent, EnqueueDeposit, EndRequest, CloseEvent, Broadcast,
      Mine, Drop, SeeReceipt, RetryDeposit, RedeliverDeposit, AbortDeposit, Age

-----------------------------------------------------------------------------
\* The three invariants hold in every reachable state.
THEOREM SpecTicketInv == Spec => []TicketInv
  BY InitTicketInv, StepTicketInv, PTL DEF Spec

THEOREM SpecSeatInv == Spec => []SeatInv
  BY InitSeatInv, StepSeatInv, PTL DEF Spec

\* No wallet is ever debited without a ticket or credited twice.
THEOREM WalletsMatch == Spec => []WalletMatchesTickets
<1>1. Init => WalletMatchesTickets
  <2> SUFFICES ASSUME Init, NEW u \in Users
               PROVE  balance[u] + Total(Rows, Spent(u)) + withdrawn[u] = InitialBalance
    BY DEF WalletMatchesTickets
  <2>1. /\ Rows = {} /\ balance[u] = InitialBalance /\ withdrawn[u] = 0
        /\ InitialBalance \in Nat
    BY SeatAssumption DEF Init, Rows
  <2>2. Total(Rows, Spent(u)) = 0
    BY <2>1, TotalEmpty
  <2>3. QED
    BY <2>1, <2>2
<1>2. QED
  BY <1>1, StepWallet, SpecTicketInv, PTL DEF Spec

\* Types: in particular no wallet balance is ever negative.
THEOREM TypeCorrect == Spec => []TypeOK
<1>1. TicketInv => TypeOK
  BY DEF TicketInv
<1>2. QED
  BY <1>1, SpecTicketInv, PTL

\* No category is ever sold beyond its capacity.
THEOREM NeverOversold == Spec => []NoOversell
<1>1. SeatInv => NoOversell
  BY DEF SeatInv
<1>2. QED
  BY <1>1, SpecSeatInv, PTL

\* Seats are distinct until a ticket of the category fails.
THEOREM SeatsUniqueAtFirst == Spec => []SeatsUniqueUntilFailure
<1>1. SeatInv => SeatsUniqueUntilFailure
  BY DEF SeatInv, SeatsFollowCount, SeatsUniqueUntilFailure
<1>2. QED
  BY <1>1, SpecSeatInv, PTL

\* An active ticket has its price in the vault.
THEOREM ActiveTicketsDeposited == Spec => []ActiveIsDeposited
<1>1. TicketInv => ActiveIsDeposited
  BY DEF TicketInv
<1>2. QED
  BY <1>1, SpecTicketInv, PTL

\* A refunded ticket is not revived by a late confirmation.
THEOREM RefundedTicketsFailed == Spec => []RefundedIsFailed
<1>1. TicketInv => RefundedIsFailed
  BY DEF TicketInv
<1>2. QED
  BY <1>1, SpecTicketInv, PTL

\* A fan has the ticket or the money, unless the deposit's attempts ran out.
THEOREM FanHasTicketOrMoney == Spec => []TicketOrMoney
<1>1. TicketInv => TicketOrMoney
  BY DEF TicketInv
<1>2. QED
  BY <1>1, SpecTicketInv, PTL

-----------------------------------------------------------------------------
(* The purchase implements TicketSale. *)

\* A row's sale record; it never equals the record of a ticket not sold.
LEMMA SoldAreRows ==
    ASSUME TypeOK
    PROVE  /\ Sale!Sold = Rows
           /\ \A t \in Rows :
                 SaleOf(t) = [fate |-> Fate(t), user |-> ticket[t].user,
                              price |-> Price[ticket[t].category]]
           /\ \A t \in Tickets \ Rows : SaleOf(t) = Sale!NotSold
<1>1. \A t \in Rows : SaleOf(t).fate = Fate(t) /\ SaleOf(t) = [fate |-> Fate(t), user |-> ticket[t].user,
                              price |-> Price[ticket[t].category]]
  BY DEF SaleOf
<1>2. \A t \in Rows : Fate(t) # "none"
  BY DEF Fate, TypeOK, Row
<1>3. \A t \in Tickets \ Rows : SaleOf(t) = Sale!NotSold
  BY DEF SaleOf, Sale!NotSold
<1>4. \A t \in Rows : SaleOf(t) # Sale!NotSold
  <2>1. Sale!NotSold.fate = "none"
    BY DEF Sale!NotSold
  <2>2. QED
    BY <1>1, <1>2, <2>1
<1>5. Rows \subseteq Tickets
  BY RowsAreTickets
<1>6. QED
  BY <1>1, <1>3, <1>4, <1>5 DEF Sale!Sold

\* A step that keeps what fans see of the rows keeps the sale.
LEMMA SaleKept ==
    ASSUME Rows' = Rows, \A t \in Rows : ticket'[t] = ticket[t]
    PROVE  \A t \in Tickets : SaleOf(t)' = SaleOf(t)
  BY DEF SaleOf, Fate

\* The three steps that settle a pending ticket change its fate only.
LEMMA SettleStep ==
    ASSUME TypeOK, NEW t \in Rows, NEW status, NEW refunded,
           ticket[t].status = "pending_payment",
           ticket' = [ticket EXCEPT ![t].status = status, ![t].refunded = refunded],
           Rows' = Rows
    PROVE  Sale!Settle(t, Fate(t)')
<1>1. t \in Tickets /\ t \in Sale!Sold
  BY RowsAreTickets, SoldAreRows
<1>2. SaleOf(t).fate = "paid"
  BY DEF SaleOf, Fate
<1>3. /\ \A s \in Rows \ {t} : ticket'[s] = ticket[s]
      /\ ticket'[t].user = ticket[t].user /\ ticket'[t].category = ticket[t].category
  BY DEF TypeOK, Row
<1>4. \A s \in Tickets \ {t} : SaleOf(s)' = SaleOf(s)
  BY <1>3 DEF SaleOf, Fate
<1>5. SaleOf(t)' = [SaleOf(t) EXCEPT !.fate = Fate(t)']
  BY <1>3 DEF SaleOf
<1>6. QED
  BY <1>1, <1>2, <1>4, <1>5 DEF Sale!Settle

\* TicketSale's instance brings its own name for the same operator.
LEMMA SameCardinality == \A S : Sale!Cardinality(S) = Cardinality(S)
  BY DEF Sale!Cardinality, Cardinality

\* A purchase is a Buy of the abstract sale.
LEMMA PurchaseIsBuy ==
    ASSUME TypeOK, NEW r \in Requests, Purchase(r)
    PROVE  Sale!Next
<1>1. PICK u \in Users, c \in Categories, q \in Nat \ {0}, new \in SUBSET Tickets :
         /\ u = request[r].user /\ c = request[r].category
         /\ q = request[r].quantity /\ new = New(r)
  BY PurchaseFacts DEF TypeOK, RequestState
<1>2. /\ Rows' = Rows \cup new /\ Rows \cap new = {}
      /\ Cardinality(new) = q
      /\ \A t \in Rows : ticket'[t] = ticket[t]
      /\ \A t \in new :
           ticket'[t] = [status |-> "pending_payment", user |-> u, category |-> c,
                         seat |-> Taken(c) + (t - created), refunded |-> FALSE]
  BY <1>1, PurchaseFacts
<1>3. new # {}
  <2>1. created \in Nat /\ created + 1 \in new
    BY <1>1, SeatAssumption DEF New, TypeOK
  <2>2. QED
    BY <2>1
<1>4. new \cap Sale!Sold = {}
  BY <1>2, SoldAreRows
<1>5. /\ balance[u] >= Price[c] * Sale!Cardinality(new)
      /\ balance' = [balance EXCEPT ![u] = @ - Price[c] * Sale!Cardinality(new)]
      /\ UNCHANGED <<withdrawn, deposited>>
  BY <1>1, <1>2, SameCardinality DEF Purchase, CanPay
<1>6. ASSUME NEW t \in new
      PROVE  SaleOf(t)' = [fate |-> "paid", user |-> u, price |-> Price[c]]
  <2>1. ticket'[t] = [status |-> "pending_payment", user |-> u, category |-> c,
                      seat |-> Taken(c) + (t - created), refunded |-> FALSE]
    BY <1>2
  <2>2. /\ ticket'[t].status = "pending_payment"
        /\ ticket'[t].user = u /\ ticket'[t].category = c
    BY <2>1
  <2>3. t \in Rows'
    BY <1>2
  <2>4. QED
    BY <2>2, <2>3 DEF SaleOf, Fate
<1>7. \A t \in Tickets \ new : SaleOf(t)' = SaleOf(t)
  BY <1>2 DEF SaleOf, Fate
<1>8. Sale!Buy(u, new, Price[c])
  BY <1>3, <1>4, <1>5, <1>6, <1>7 DEF Sale!Buy
<1>9. QED
  BY <1>8 DEF Sale!Next

\* Every other step is a step of the abstract sale or leaves it alone.
LEMMA StepImplementsSale ==
    ASSUME TicketInv, [Next]_vars
    PROVE  [Sale!Next]_(Sale!vars)
<1>0. TypeOK /\ Rows \subseteq Tickets /\ Sale!Sold = Rows
  BY RowsAreTickets, SoldAreRows DEF TicketInv
<1>1. ASSUME NEW r \in Requests, Purchase(r)
      PROVE  Sale!Next
  BY <1>0, <1>1, PurchaseIsBuy
<1>2. ASSUME NEW t \in Rows, Mine(t)
      PROVE  Sale!Next
  <2>1. UNCHANGED <<ticket, balance, withdrawn>> /\ Rows' = Rows
    BY <1>2 DEF Mine, Rows
  <2>2. \A s \in Tickets : SaleOf(s)' = SaleOf(s)
    BY <2>1, SaleKept
  <2>3. Sale!Deposit(t)
    BY <1>0, <1>2, <2>1, <2>2 DEF Mine, Sale!Deposit
  <2>4. QED
    BY <1>0, <2>3 DEF Sale!Next
<1>3. ASSUME NEW t \in Rows, Activate(t), ticket[t].status = "pending_payment"
      PROVE  Sale!Next
  <2>1. /\ ticket' = [ticket EXCEPT ![t].status = "active",
                                    ![t].refunded = ticket[t].refunded]
        /\ Rows' = Rows /\ UNCHANGED <<balance, withdrawn, deposited>>
    BY <1>0, <1>3 DEF Activate, Rows, TypeOK, Row
  <2>2. Fate(t)' = "valid"
    BY <1>0, <2>1 DEF Fate, TypeOK, Row
  <2>3. t \in deposited
    BY <1>3 DEF Activate, TicketInv, TasksFollowTickets
  <2>4. Sale!Settle(t, "valid")
    BY <1>0, <1>3, <2>1, <2>2, SettleStep
  <2>5. Sale!Validate(t)
    BY <2>1, <2>3, <2>4 DEF Sale!Validate
  <2>6. QED
    BY <1>0, <2>5 DEF Sale!Next
<1>4. ASSUME NEW t \in Rows, GiveUpDeposit(t), ticket[t].status = "pending_payment"
      PROVE  Sale!Next
  <2>1. /\ ticket' = [ticket EXCEPT ![t].status = "failed",
                                    ![t].refunded = ticket[t].refunded]
        /\ Rows' = Rows /\ UNCHANGED <<balance, withdrawn, deposited>>
    BY <1>0, <1>4 DEF GiveUpDeposit, Rows, TypeOK, Row
  <2>2. ~ticket[t].refunded
    BY <1>4 DEF TicketInv, RefundedIsFailed
  <2>3. Fate(t)' = "forfeited"
    BY <1>0, <2>1, <2>2 DEF Fate, TypeOK, Row
  <2>4. Sale!Settle(t, "forfeited")
    BY <1>0, <1>4, <2>1, <2>3, SettleStep
  <2>5. Sale!Forfeit(t)
    BY <2>1, <2>4 DEF Sale!Forfeit
  <2>6. QED
    BY <1>0, <2>5 DEF Sale!Next
<1>5. ASSUME NEW t \in Rows, VoidStale(t)
      PROVE  Sale!Next
  <2>1. /\ ticket[t].status = "pending_payment"
        /\ ticket' = [ticket EXCEPT ![t].status = "failed", ![t].refunded = TRUE]
        /\ balance' = [balance EXCEPT ![ticket[t].user] = @ + Price[ticket[t].category]]
        /\ Rows' = Rows /\ UNCHANGED <<withdrawn, deposited>>
    BY <1>5 DEF VoidStale, FailAndCredit, Rows
  <2>2. Fate(t)' = "refunded"
    BY <1>0, <2>1 DEF Fate, TypeOK, Row
  <2>3. Sale!Settle(t, "refunded")
    BY <1>0, <2>1, <2>2, SettleStep
  <2>4. /\ SaleOf(t).user = ticket[t].user
        /\ SaleOf(t).price = Price[ticket[t].category]
    BY <1>0, SoldAreRows
  <2>5. Sale!Refund(t)
    BY <1>0, <2>1, <2>3, <2>4 DEF Sale!Refund
  <2>6. QED
    BY <1>0, <2>5 DEF Sale!Next
<1>6. ASSUME NEW u \in Users, NEW amount \in Withdrawals, Withdraw(u, amount)
      PROVE  Sale!Next
  <2>1. UNCHANGED <<ticket, deposited>> /\ Rows' = Rows
    BY <1>6 DEF Withdraw, Rows
  <2>2. \A s \in Tickets : SaleOf(s)' = SaleOf(s)
    BY <2>1, SaleKept
  <2>3. Sale!Withdraw(u, amount)
    BY <1>6, <2>1, <2>2 DEF Withdraw, Sale!Withdraw
  <2>4. QED
    BY <2>3 DEF Sale!Next
<1>7. ASSUME UNCHANGED <<created, ticket, balance, withdrawn, deposited>>
      PROVE  UNCHANGED Sale!vars
  <2>1. \A s \in Tickets : SaleOf(s)' = SaleOf(s)
    BY <1>7, SaleKept DEF Rows
  <2>2. QED
    BY <1>7, <2>1 DEF Sale!vars
<1>8. ASSUME NEW t \in Rows, ticket[t].status # "pending_payment",
             Activate(t) \/ GiveUpDeposit(t)
      PROVE  UNCHANGED <<created, ticket, balance, withdrawn, deposited>>
  BY <1>8 DEF Activate, GiveUpDeposit
<1>9. QED
  BY <1>1, <1>2, <1>3, <1>4, <1>5, <1>6, <1>7, <1>8
  DEF Next, vars, CheckEvent, EnqueueDeposit, EndRequest, CloseEvent, Broadcast,
      Drop, SeeReceipt, RetryDeposit, RedeliverDeposit, AbortDeposit, Age

\* To a fan the purchase with its requests, tasks, retries and late transactions
\* is the plain sale of TicketSale: every step is one of its steps or invisible.
THEOREM PurchaseImplemented == Spec => ImplementsTicketSale
<1>1. Init => Sale!Init
  <2> SUFFICES ASSUME Init PROVE Sale!Init
    OBVIOUS
  <2>1. Rows = {}
    BY DEF Init, Rows
  <2>2. \A t \in Tickets : SaleOf(t) = Sale!NotSold
    BY <2>1, InitTypeOK, SoldAreRows
  <2>3. QED
    BY <2>2 DEF Init, Sale!Init
<1>2. TicketInv /\ [Next]_vars => [Sale!Next]_(Sale!vars)
  BY StepImplementsSale
<1>3. QED
  BY <1>1, <1>2, SpecTicketInv, PTL DEF Spec, ImplementsTicketSale, Sale!Spec
=============================================================================
