-------------------------- MODULE BuybackFlowProofs --------------------------
(***************************************************************************)
(* Proofs about BuybackFlow: its types, what the record says of the        *)
(* payment, and that the limit, the statistics and the cap hold as long as *)
(* requests do not overlap.                                                *)
(***************************************************************************)
EXTENDS BuybackFlow, FiniteSetTheorems, TLAPS

\* How far a request, its record and its task have come together.
Protocol ==
    \A r \in Requests :
        /\ request[r].pc \in {"start", "loaded", "checked"} => record[r] = "none"
        /\ request[r].pc = "enqueue" => record[r] = "pending"
        /\ request[r].pc # "done" => job[r].stage = "none"
        /\ job[r].stage = "none" => r \notin mempool \cup paid
        /\ job[r].stage # "none" => record[r] # "none"

ConfirmedIsPaid == \A r \in Requests : job[r].stage = "confirmed" => r \in paid

\* A task that is to try again, or a failed record with a transaction or a task
\* that goes on, has a transaction of an earlier attempt.
FailureLeaves ==
    \A r \in Requests :
        /\ job[r].stage = "queued" /\ (r \in mempool \cup paid \/ record[r] # "pending")
              => r \in left
        /\ record[r] = "failed" /\ (r \in mempool \cup paid
                                    \/ job[r].stage \notin {"updated", "over"})
              => r \in left

PayInv == TypeOK /\ Protocol /\ ConfirmedIsPaid /\ FailureLeaves /\ CompletedIsPaidOnce

-----------------------------------------------------------------------------
PcSet == {"start", "loaded", "checked", "enqueue", "done"}
StageSet == {"none", "queued", "waiting", "confirmed", "updated", "over"}

\* What is left of a request when it moves on to another step.
LEMMA RequestMoves ==
    ASSUME TypeOK, NEW r \in Requests, NEW p \in PcSet,
           request' = [request EXCEPT ![r].pc = p]
    PROVE  /\ request' \in [Requests -> RequestState]
           /\ request'[r].pc = p
           /\ request'[r].ticket = request[r].ticket
           /\ request'[r].loaded = request[r].loaded
           /\ request'[r].stats = request[r].stats
           /\ \A s \in Requests \ {r} : request'[s] = request[s]
<1>1. request[r] \in RequestState
  BY DEF TypeOK
<1>2. request'[r] = [request[r] EXCEPT !.pc = p]
  BY DEF TypeOK
<1>3. request'[r] \in RequestState
  BY <1>1, <1>2 DEF RequestState, PcSet
<1>4. /\ request'[r].pc = p
      /\ request'[r].ticket = request[r].ticket
      /\ request'[r].loaded = request[r].loaded
      /\ request'[r].stats = request[r].stats
  BY <1>1, <1>2 DEF RequestState
<1>5. QED
  BY <1>3, <1>4 DEF TypeOK

\* A request that loads its tickets.
LEMMA LoadMoves ==
    ASSUME TypeOK, NEW r \in Requests, Load(r)
    PROVE  /\ request' \in [Requests -> RequestState]
           /\ request'[r].pc = "loaded"
           /\ request'[r].ticket = request[r].ticket
           /\ request'[r].loaded = ToReturn(r)
           /\ request'[r].stats = totalBuybacks[FanOf(r)]
           /\ \A s \in Requests \ {r} : request'[s] = request[s]
<1>1. request[r] \in RequestState
  BY DEF TypeOK
<1>2. request'[r] = [request[r] EXCEPT !.pc = "loaded", !.loaded = ToReturn(r),
                                       !.stats = totalBuybacks[FanOf(r)]]
  BY DEF TypeOK, Load
<1>3. ToReturn(r) \in SUBSET Tickets /\ totalBuybacks[FanOf(r)] \in Nat
  BY <1>1, BuybackFlowAssumption DEF ToReturn, With, FanOf, RequestState, TypeOK
<1>4. request'[r] \in RequestState
  BY <1>1, <1>2, <1>3 DEF RequestState
<1>5. /\ request'[r].pc = "loaded"
      /\ request'[r].ticket = request[r].ticket
      /\ request'[r].loaded = ToReturn(r)
      /\ request'[r].stats = totalBuybacks[FanOf(r)]
  BY <1>1, <1>2 DEF RequestState
<1>6. \A s \in Requests \ {r} : request'[s] = request[s]
  BY DEF Load
<1>7. request' \in [Requests -> RequestState]
  BY <1>4, <1>6 DEF TypeOK, Load
<1>8. QED
  BY <1>5, <1>6, <1>7

\* What is left of a task when it goes to another stage.
LEMMA JobMoves ==
    ASSUME TypeOK, NEW r \in Requests, NEW stage \in StageSet,
           NEW n \in 1..MaxAttempts,
           \/ job' = [job EXCEPT ![r].stage = stage]
           \/ job' = [job EXCEPT ![r].stage = stage, ![r].attempt = n]
    PROVE  /\ job' \in [Requests -> JobState]
           /\ job'[r].stage = stage
           /\ \A s \in Requests \ {r} : job'[s] = job[s]
<1>1. job[r] \in JobState
  BY DEF TypeOK
<1>2. \/ job'[r] = [job[r] EXCEPT !.stage = stage]
      \/ job'[r] = [job[r] EXCEPT !.stage = stage, !.attempt = n]
  BY DEF TypeOK
<1>3. job'[r] \in JobState /\ job'[r].stage = stage
  BY <1>1, <1>2 DEF JobState, StageSet
<1>4. QED
  BY <1>3 DEF TypeOK

\* No step changes the ticket of a request, and with it its fan and its key.
LEMMA RequestsFixed ==
    ASSUME TypeOK, [Next]_vars
    PROVE  \A r \in Requests : /\ request'[r].ticket = request[r].ticket
                               /\ FanOf(r)' = FanOf(r) /\ Key(r)' = Key(r)
<1>1. \A r \in Requests : request'[r].ticket = request[r].ticket
  <2>1. CASE UNCHANGED request
    BY <2>1
  <2>2. CASE \E r \in Requests : Load(r)
    BY <2>2, LoadMoves
  <2>3. CASE \E r \in Requests : Check(r) \/ Commit(r) \/ Enqueue(r) \/ EndRequest(r)
    BY <2>3, RequestMoves DEF Check, Commit, Enqueue, EndRequest, PcSet
  <2>4. QED
    BY <2>1, <2>2, <2>3
    DEF Next, vars, Submit, Pay, Drop, SeeReceipt, Complete, Retry, GiveUp, Redeliver,
        End, ActivateRelist, ExpireTickets, OptOut, EventChanges
<1>2. QED
  BY <1>1 DEF FanOf, Key

\* A step of the request keeps the types.
LEMMA RequestTypes ==
    ASSUME TypeOK, NEW r \in Requests,
           Load(r) \/ Check(r) \/ Commit(r) \/ Enqueue(r) \/ EndRequest(r)
    PROVE  TypeOK'
<1> USE DEF Records
<1>1. CASE Load(r)
  BY <1>1, LoadMoves DEF TypeOK, Load
<1>2. CASE Check(r) \/ EndRequest(r)
  <2>1. request' \in [Requests -> RequestState]
    BY <1>2, RequestMoves DEF Check, EndRequest, PcSet
  <2>2. QED
    BY <1>2, <2>1 DEF TypeOK, Check, EndRequest
<1>3. CASE Commit(r)
  <2>1. request' \in [Requests -> RequestState]
    BY <1>3, RequestMoves DEF Commit, PcSet
  <2>2. FanOf(r) \in Fans /\ request[r].stats + 1 \in Nat
    BY BuybackFlowAssumption DEF FanOf, TypeOK, RequestState
  <2>3. totalBuybacks' \in [Fans -> Nat]
    BY <1>3, <2>2 DEF Commit, TypeOK
  <2>4. /\ status' \in [Tickets -> {"active", "returned", "relisted", "expired"}]
        /\ record' \in [Requests -> {"none", "pending", "completed", "failed"}]
        /\ Records \subseteq Records'
    BY <1>3 DEF Commit, TypeOK
  <2>5. QED
    BY <1>3, <2>1, <2>3, <2>4 DEF Commit, TypeOK
<1>4. CASE Enqueue(r)
  <2>1. request' \in [Requests -> RequestState]
    BY <1>4, RequestMoves DEF Enqueue, PcSet
  <2>2. 1 \in 1..MaxAttempts
    BY BuybackFlowAssumption
  <2>3. job' \in [Requests -> JobState]
    BY <1>4, <2>2, JobMoves DEF Enqueue, StageSet
  <2>4. QED
    BY <1>4, <2>1, <2>3 DEF Enqueue, TypeOK
<1>5. QED
  BY <1>1, <1>2, <1>3, <1>4

\* How the task of r may move: to the stage, with the others as they were.
Moves(r, stages) ==
    /\ job' \in [Requests -> JobState]
    /\ job'[r].stage \in stages
    /\ \A s \in Requests \ {r} : job'[s] = job[s]

LEMMA TaskMoves ==
    ASSUME TypeOK, NEW r \in Requests
    PROVE  /\ Submit(r) => Moves(r, {"waiting"})
           /\ SeeReceipt(r) => Moves(r, {"confirmed"})
           /\ Complete(r) \/ GiveUp(r) => Moves(r, {"updated"})
           /\ Enqueue(r) \/ Retry(r) \/ Redeliver(r) => Moves(r, {"queued"})
           /\ End(r) => Moves(r, {"over"})
<1>1. 1 \in 1..MaxAttempts
  BY BuybackFlowAssumption
<1>2. ASSUME NEW stage \in StageSet, job' = [job EXCEPT ![r].stage = stage]
      PROVE  Moves(r, {stage})
  BY <1>1, <1>2, JobMoves DEF Moves
<1>3. ASSUME Retry(r)
      PROVE  Moves(r, {"queued"})
  <2>1. job[r].attempt \in 1..MaxAttempts
    BY DEF TypeOK, JobState
  <2>2. job[r].attempt + 1 \in 1..MaxAttempts
    BY <1>3, <2>1, BuybackFlowAssumption DEF Retry
  <2>3. job' = [job EXCEPT ![r].stage = "queued", ![r].attempt = job[r].attempt + 1]
    BY <1>3 DEF Retry, TypeOK
  <2>4. QED
    BY <2>2, <2>3, JobMoves DEF Moves, StageSet
<1>4. QED
  BY <1>2, <1>3 DEF Submit, SeeReceipt, Complete, GiveUp, Enqueue, Redeliver, End, StageSet

\* Every step keeps the types.
LEMMA TypeStep ==
    ASSUME TypeOK, Protocol, [Next]_vars
    PROVE  TypeOK'
<1>1. CASE UNCHANGED vars
  BY <1>1 DEF TypeOK, Records, vars
<1>2. CASE \E r \in Requests :
               Load(r) \/ Check(r) \/ Commit(r) \/ Enqueue(r) \/ EndRequest(r)
  BY <1>2, RequestTypes
<1>3. ASSUME NEW r \in Requests, Submit(r) \/ SeeReceipt(r) \/ Complete(r) \/ End(r)
      PROVE  TypeOK'
  <2>1. job' \in [Requests -> JobState]
    BY <1>3, TaskMoves DEF Moves
  <2>2. r \in Records
    BY <1>3 DEF Protocol, Submit, SeeReceipt, Complete, End, Records
  <2>3. QED
    BY <1>3, <2>1, <2>2 DEF TypeOK, Records, Submit, SeeReceipt, Complete, End
<1>4. ASSUME NEW r \in Requests, Retry(r) \/ GiveUp(r) \/ Redeliver(r)
      PROVE  TypeOK'
  <2>1. job' \in [Requests -> JobState]
    BY <1>4, TaskMoves DEF Moves
  <2>2. r \in Records
    BY <1>4 DEF Protocol, Retry, GiveUp, Redeliver, Records
  <2>3. left' \subseteq left \cup {r}
    BY <1>4 DEF Retry, GiveUp, Redeliver, Leaves
  <2>4. QED
    BY <1>4, <2>1, <2>2, <2>3 DEF TypeOK, Records, Retry, GiveUp, Redeliver
<1>5. ASSUME NEW r \in Requests, Pay(r) \/ Drop(r)
      PROVE  TypeOK'
  BY <1>5 DEF TypeOK, Records, Pay, Drop
<1>6. CASE ActivateRelist \/ ExpireTickets \/ (\E t \in Tickets : OptOut(t)) \/ EventChanges
  BY <1>6 DEF TypeOK, Records, ActivateRelist, ExpireTickets, OptOut, EventChanges
<1>7. QED
  BY <1>1, <1>2, <1>3, <1>4, <1>5, <1>6 DEF Next

\* Every step keeps request, record and task together.
LEMMA ProtocolStep ==
    ASSUME PayInv, [Next]_vars
    PROVE  Protocol' /\ ConfirmedIsPaid' /\ FailureLeaves'
<1> DEFINE Goal == Protocol' /\ ConfirmedIsPaid' /\ FailureLeaves'
<1> USE DEF PayInv, Records, Protocol, ConfirmedIsPaid, FailureLeaves
<1>1. CASE UNCHANGED <<request, record, job, mempool, paid, left>>
  BY <1>1
<1>2. ASSUME NEW r \in Requests, Load(r)
      PROVE  Goal
  BY <1>2, LoadMoves DEF Load
<1>3. ASSUME NEW r \in Requests, Check(r) \/ EndRequest(r)
      PROVE  Goal
  <2>1. /\ request'[r].pc \in {"checked", "done"}
        /\ request'[r].pc = "checked" => request[r].pc = "loaded"
        /\ \A s \in Requests \ {r} : request'[s] = request[s]
    BY <1>3, RequestMoves DEF Check, EndRequest, PcSet
  <2>2. UNCHANGED <<record, job, mempool, paid, left>>
    BY <1>3 DEF Check, EndRequest
  <2>3. QED
    BY <2>1, <2>2
<1>4. ASSUME NEW r \in Requests, Commit(r)
      PROVE  Goal
  <2>1. /\ request[r].pc = "checked" /\ request'[r].pc = "enqueue"
        /\ \A s \in Requests \ {r} : request'[s] = request[s]
    BY <1>4, RequestMoves DEF Commit, PcSet
  <2>2. /\ record'[r] = "pending"
        /\ \A s \in Requests \ {r} : record'[s] = record[s]
        /\ UNCHANGED <<job, mempool, paid, left>>
    BY <1>4 DEF Commit, TypeOK
  <2>3. QED
    BY <2>1, <2>2
<1>5. ASSUME NEW r \in Requests, Enqueue(r)
      PROVE  Goal
  <2>1. /\ request[r].pc = "enqueue" /\ request'[r].pc = "done"
        /\ \A s \in Requests \ {r} : request'[s] = request[s]
    BY <1>5, RequestMoves DEF Enqueue, PcSet
  <2>2. Moves(r, {"queued"}) /\ UNCHANGED <<record, mempool, paid, left>>
    BY <1>5, TaskMoves DEF Enqueue
  <2>3. QED
    BY <2>1, <2>2 DEF Moves
<1>6. ASSUME NEW r \in Requests, Submit(r)
      PROVE  Goal
  <2>1. Moves(r, {"waiting"})
    BY <1>6, TaskMoves
  <2>2. QED
    BY <1>6, <2>1 DEF Moves, Submit
<1>7. ASSUME NEW r \in Requests, Pay(r) \/ Drop(r)
      PROVE  Goal
  BY <1>7 DEF Pay, Drop
<1>8. ASSUME NEW r \in Requests, SeeReceipt(r) \/ End(r)
      PROVE  Goal
  <2>1. CASE SeeReceipt(r)
    BY <2>1, TaskMoves DEF Moves, SeeReceipt
  <2>2. CASE End(r)
    BY <2>2, TaskMoves DEF Moves, End
  <2>3. QED
    BY <1>8, <2>1, <2>2
<1>9. ASSUME NEW r \in Requests, Complete(r)
      PROVE  Goal
  <2>1. Moves(r, {"updated"})
    BY <1>9, TaskMoves
  <2>2. /\ record'[r] = "completed"
        /\ \A s \in Requests \ {r} : record'[s] = record[s]
    BY <1>9 DEF Complete, TypeOK
  <2>3. QED
    BY <1>9, <2>1, <2>2 DEF Moves, Complete
<1>10. ASSUME NEW r \in Requests, GiveUp(r)
       PROVE  Goal
  <2>1. Moves(r, {"updated"})
    BY <1>10, TaskMoves
  <2>2. /\ record'[r] = "failed"
        /\ \A s \in Requests \ {r} : record'[s] = record[s]
    BY <1>10 DEF GiveUp, TypeOK
  <2>3. left \subseteq left' /\ (job[r].stage # "queued" => r \in left')
    BY <1>10 DEF GiveUp, Leaves
  <2>4. \A s \in Requests \ {r} : s \in left' <=> s \in left
    BY <1>10 DEF GiveUp, Leaves
  <2>5. QED
    BY <1>10, <2>1, <2>2, <2>3, <2>4 DEF Moves, GiveUp
<1>11. ASSUME NEW r \in Requests, Retry(r) \/ Redeliver(r)
       PROVE  Goal
  <2>1. Moves(r, {"queued"})
    BY <1>11, TaskMoves
  <2>2. left \subseteq left' /\ (job[r].stage # "queued" => r \in left')
    BY <1>11 DEF Retry, Redeliver, Leaves
  <2>3. job[r].stage # "none" /\ UNCHANGED <<request, record, mempool, paid>>
    BY <1>11 DEF Retry, Redeliver
  <2>4. QED
    BY <2>1, <2>2, <2>3 DEF Moves
<1>12. QED
  BY <1>1, <1>2, <1>3, <1>4, <1>5, <1>6, <1>7, <1>8, <1>9, <1>10, <1>11
  DEF Next, vars, ActivateRelist, ExpireTickets, OptOut, EventChanges

\* Every step keeps a completed record paid, and no key paid twice.
LEMMA PaidStep ==
    ASSUME PayInv, [Next]_vars
    PROVE  CompletedIsPaidOnce'
<1> USE DEF PayInv, TypeOK, Records
<1>1. \A r \in Requests : Key(r)' = Key(r)
  BY RequestsFixed
<1>2. CASE UNCHANGED <<record, paid>>
  BY <1>1, <1>2 DEF CompletedIsPaidOnce
<1>3. ASSUME NEW r \in Requests, Pay(r)
      PROVE  CompletedIsPaidOnce'
  BY <1>1, <1>3 DEF CompletedIsPaidOnce, Pay, KeyPaid
<1>4. ASSUME NEW r \in Requests, Commit(r) \/ Complete(r) \/ GiveUp(r)
      PROVE  CompletedIsPaidOnce'
  BY <1>1, <1>4 DEF CompletedIsPaidOnce, ConfirmedIsPaid, Commit, Complete, GiveUp
<1>5. QED
  BY <1>2, <1>3, <1>4
  DEF Next, vars, Load, Check, Enqueue, EndRequest, Submit, Drop, SeeReceipt, Retry,
      Redeliver, End, ActivateRelist, ExpireTickets, OptOut, EventChanges

LEMMA PayInvariant == Spec => []PayInv
<1>1. Init => PayInv
  BY BuybackFlowAssumption
  DEF Init, PayInv, TypeOK, RequestState, JobState, Records, Protocol, ConfirmedIsPaid,
      FailureLeaves, CompletedIsPaidOnce
<1>2. PayInv /\ [Next]_vars => PayInv'
  BY TypeStep, ProtocolStep, PaidStep DEF PayInv
<1>3. QED
  BY <1>1, <1>2, PTL DEF Spec

\* The buyback flow keeps every variable in its type.
THEOREM TypeCorrect == Spec => []TypeOK
<1>1. PayInv => TypeOK
  BY DEF PayInv
<1>2. QED
  BY <1>1, PayInvariant, PTL

\* A completed record was paid by its own transaction, and no ticket twice,
\* whatever is retried, delivered again or executed late.
THEOREM CompletedPaidOnce == Spec => []CompletedIsPaidOnce
<1>1. PayInv => CompletedIsPaidOnce
  BY DEF PayInv
<1>2. QED
  BY <1>1, PayInvariant, PTL

\* A failed record was not paid unless a transaction outlived its attempt.
THEOREM FailedUnpaid == Spec => []FailedIsUnpaid
<1>1. PayInv => FailedIsUnpaid
  BY DEF PayInv, TypeOK, Records, FailureLeaves, FailedIsUnpaid
<1>2. QED
  BY <1>1, PayInvariant, PTL
-----------------------------------------------------------------------------
InFlight(r) == request[r].pc \in {"loaded", "checked"}

Count(f) == Cardinality(RequestsOf(f) \cap Records)

Inventory == BoughtBack \cap With({"returned", "relisted"})

CapAmount == InventoryCap * Capacity

\* The history variable misses no overlap.
OverlapRecorded ==
    \A r, s \in Requests : r # s /\ InFlight(r) /\ InFlight(s) => {r, s} \in overlap

\* A checked request leaves room for one more record of its fan.
LimitKept ==
    \A f \in Fans : ~Overlapping(RequestsOf(f)) =>
        /\ Count(f) <= MaxPerUser
        /\ \A r \in RequestsOf(f) : request[r].pc = "checked" => Count(f) < MaxPerUser

\* What a request has read of its fan's statistics is up to date.
StatsKept ==
    \A f \in Fans : ~Overlapping(RequestsOf(f)) =>
        /\ totalBuybacks[f] = Count(f)
        /\ \A r \in RequestsOf(f) : InFlight(r) => request[r].stats = totalBuybacks[f]

\* A ticket bought back is never active again.
BoughtBackIsLeft == \A t \in BoughtBack : status[t] # "active"

\* A checked request found the inventory under the cap, and it still is.
CapKept ==
    overlap = {} =>
        /\ Inventory # {} =>
              \E r \in Records : 100 * Cardinality(Inventory \ request[r].loaded) < CapAmount
        /\ \A r \in Requests :
              request[r].pc = "checked" => 100 * Cardinality(Inventory) < CapAmount

GuardInv ==
    PayInv /\ OverlapRecorded /\ LimitKept /\ StatsKept /\ BoughtBackIsLeft /\ CapKept

-----------------------------------------------------------------------------
\* A step after the transaction, or outside the request: it adds no record and
\* may only end a request that is under way.
Quiet ==
    /\ Records' = Records
    /\ UNCHANGED <<totalBuybacks, overlap>>
    /\ \A r \in Requests :
          /\ request'[r].loaded = request[r].loaded
          /\ InFlight(r)' => request'[r] = request[r]

\* Steps that change neither the request nor whether there is a record.
LEMMA QuietStep ==
    ASSUME PayInv, [Next]_vars
    PROVE  Quiet \/ \E r \in Requests : Load(r) \/ Check(r) \/ Commit(r)
<1> USE DEF PayInv
<1>1. CASE UNCHANGED <<totalBuybacks, overlap, request, record>>
  BY <1>1 DEF Quiet, Records, InFlight
<1>2. ASSUME NEW r \in Requests, Enqueue(r) \/ EndRequest(r)
      PROVE  Quiet
  <2>1. /\ request'[r].pc = "done" /\ request'[r].loaded = request[r].loaded
        /\ \A s \in Requests \ {r} : request'[s] = request[s]
    BY <1>2, RequestMoves DEF Enqueue, EndRequest, PcSet
  <2>2. QED
    BY <1>2, <2>1 DEF Quiet, Records, InFlight, Enqueue, EndRequest
<1>3. ASSUME NEW r \in Requests, Complete(r) \/ GiveUp(r)
      PROVE  Quiet
  <2>1. r \in Records
    BY <1>3 DEF Protocol, Records, Complete, GiveUp
  <2>2. Records' = Records
    BY <1>3, <2>1 DEF Complete, GiveUp, Records, TypeOK
  <2>3. QED
    BY <1>3, <2>2 DEF Quiet, InFlight, Complete, GiveUp
<1>4. QED
  BY <1>1, <1>2, <1>3
  DEF Next, vars, Submit, Pay, Drop, SeeReceipt, Retry, Redeliver, End,
      ActivateRelist, ExpireTickets, OptOut, EventChanges

\* The request that commits is the only new record.
LEMMA CommitMoves ==
    ASSUME PayInv, NEW r \in Requests, Commit(r)
    PROVE  /\ request[r].pc = "checked" /\ request'[r].pc = "enqueue"
           /\ r \notin Records /\ Records' = Records \cup {r}
           /\ \A s \in Requests : request'[s].loaded = request[s].loaded
           /\ \A s \in Requests \ {r} : request'[s] = request[s]
<1> USE DEF PayInv
<1>1. request[r].pc = "checked"
  BY DEF Commit
<1>2. /\ request'[r].pc = "enqueue" /\ request'[r].loaded = request[r].loaded
      /\ \A s \in Requests \ {r} : request'[s] = request[s]
  BY RequestMoves DEF Commit, PcSet
<1>3. r \notin Records
  BY <1>1 DEF Protocol, Records
<1>4. Records' = Records \cup {r}
  BY DEF Commit, Records, TypeOK
<1>5. QED
  BY <1>1, <1>2, <1>3, <1>4

LEMMA CheckMoves ==
    ASSUME PayInv, NEW r \in Requests, Check(r)
    PROVE  /\ request[r].pc = "loaded" /\ request'[r].pc = "checked"
           /\ request'[r].stats = request[r].stats
           /\ \A s \in Requests : request'[s].loaded = request[s].loaded
           /\ \A s \in Requests \ {r} : request'[s] = request[s]
           /\ Records' = Records
  BY RequestMoves DEF Check, PcSet, PayInv, Records

\* Whose requests are whose never changes, and no overlap is forgotten.
LEMMA RequestsOfFixed ==
    ASSUME PayInv, [Next]_vars
    PROVE  /\ \A f \in Fans : RequestsOf(f)' = RequestsOf(f)
           /\ overlap \subseteq overlap'
           /\ \A f \in Fans : Overlapping(RequestsOf(f)) => Overlapping(RequestsOf(f))'
<1>1. \A f \in Fans : RequestsOf(f)' = RequestsOf(f)
  BY RequestsFixed DEF PayInv, RequestsOf
<1>2. overlap \subseteq overlap'
  BY DEF Next, vars, Load, Check, Commit, Enqueue, EndRequest, Submit, Pay, Drop,
         SeeReceipt, Complete, Retry, GiveUp, Redeliver, End, ActivateRelist,
         ExpireTickets, OptOut, EventChanges
<1>3. QED
  BY <1>1, <1>2 DEF Overlapping

\* Every overlap is recorded when the later request reads.
LEMMA OverlapStep ==
    ASSUME GuardInv, [Next]_vars
    PROVE  OverlapRecorded'
<1> USE DEF GuardInv, OverlapRecorded
<1>1. CASE Quiet
  BY <1>1 DEF Quiet, InFlight
<1>2. ASSUME NEW r \in Requests, Load(r)
      PROVE  OverlapRecorded'
  <2>1. \A s \in Requests \ {r} : request'[s] = request[s]
    BY <1>2, LoadMoves DEF PayInv
  <2>2. \A s \in Requests : InFlight(s) => {r, s} \in overlap'
    BY <1>2 DEF Load, InFlight
  <2>3. overlap \subseteq overlap'
    BY RequestsOfFixed
  <2>4. \A s \in Requests \ {r} : InFlight(s)' => {r, s} \in overlap' /\ {s, r} = {r, s}
    BY <2>1, <2>2 DEF InFlight
  <2>5. QED
    BY <2>1, <2>3, <2>4 DEF InFlight
<1>3. ASSUME NEW r \in Requests, Check(r)
      PROVE  OverlapRecorded'
  <2>1. UNCHANGED overlap
    BY <1>3 DEF Check
  <2>2. QED
    BY <1>3, <2>1, CheckMoves DEF InFlight
<1>4. ASSUME NEW r \in Requests, Commit(r)
      PROVE  OverlapRecorded'
  <2>1. UNCHANGED overlap
    BY <1>4 DEF Commit
  <2>2. QED
    BY <1>4, <2>1, CommitMoves DEF InFlight
<1>5. QED
  BY <1>1, <1>2, <1>3, <1>4, QuietStep

\* When r commits and has not overlapped, no other request of its fan is under
\* way.
LEMMA CommitAlone ==
    ASSUME GuardInv, NEW r \in Requests, Commit(r), NEW s \in Requests \ {r},
           InFlight(s)
    PROVE  /\ overlap # {}
           /\ FanOf(s) = FanOf(r) => Overlapping(RequestsOf(FanOf(r)))
<1>1. {r, s} \in overlap
  BY CommitMoves DEF GuardInv, OverlapRecorded, InFlight
<1>2. QED
  BY <1>1 DEF Overlapping, RequestsOf

\* A commit adds one to its fan's records, and nothing to another's.
LEMMA CountStep ==
    ASSUME PayInv, [Next]_vars, NEW r \in Requests, Commit(r), NEW f \in Fans
    PROVE  /\ Count(f) \in Nat
           /\ f = FanOf(r) => Count(f)' = Count(f) + 1
           /\ f # FanOf(r) => Count(f)' = Count(f)
<1> DEFINE S == RequestsOf(f) \cap Records
<1>1. /\ r \notin Records /\ Records' = Records \cup {r}
      /\ RequestsOf(f)' = RequestsOf(f)
  BY CommitMoves, RequestsOfFixed
<1>2. IsFiniteSet(S)
  BY BuybackFlowAssumption, FS_Subset DEF Records
<1>3. Cardinality(S) \in Nat
  BY <1>2, FS_CardinalityType
<1>4. CASE f = FanOf(r)
  <2>1. r \notin S /\ RequestsOf(f)' \cap Records' = S \cup {r}
    BY <1>1, <1>4 DEF RequestsOf
  <2>2. Cardinality(S \cup {r}) = Cardinality(S) + 1
    BY <1>2, <2>1, FS_AddElement
  <2>3. QED
    BY <1>3, <1>4, <2>1, <2>2 DEF Count
<1>5. CASE f # FanOf(r)
  <2>1. RequestsOf(f)' \cap Records' = S
    BY <1>1, <1>5 DEF RequestsOf
  <2>2. QED
    BY <1>3, <1>5, <2>1 DEF Count
<1>6. QED
  BY <1>4, <1>5

\* Every step keeps the limit and the statistics of a fan whose requests have
\* not overlapped.
LEMMA LimitStatsStep ==
    ASSUME GuardInv, [Next]_vars
    PROVE  LimitKept' /\ StatsKept'
<1> USE DEF GuardInv
<1>1. /\ \A f \in Fans : RequestsOf(f)' = RequestsOf(f)
      /\ \A f \in Fans : RequestsOf(f) \subseteq Requests
      /\ \A f \in Fans : Overlapping(RequestsOf(f)) => Overlapping(RequestsOf(f))'
  BY RequestsOfFixed DEF RequestsOf
<1>2. CASE Quiet
  <2>1. \A f \in Fans : Count(f)' = Count(f)
    BY <1>1, <1>2 DEF Quiet, Count
  <2>2. QED
    BY <1>1, <1>2, <2>1 DEF Quiet, LimitKept, StatsKept, InFlight
<1>3. ASSUME NEW r \in Requests, Load(r)
      PROVE  LimitKept' /\ StatsKept'
  <2>1. UNCHANGED <<record, totalBuybacks>>
    BY <1>3 DEF Load
  <2>2. \A f \in Fans : Count(f)' = Count(f)
    BY <1>1, <2>1 DEF Count, Records
  <2>3. /\ request'[r].pc = "loaded" /\ request'[r].stats = totalBuybacks[FanOf(r)]
        /\ \A s \in Requests \ {r} : request'[s] = request[s]
    BY <1>3, LoadMoves DEF PayInv
  <2>4. \A f \in Fans : r \in RequestsOf(f) => FanOf(r) = f
    BY DEF RequestsOf
  <2>5. LimitKept'
    BY <1>1, <2>2, <2>3 DEF LimitKept
  <2>6. StatsKept'
    BY <1>1, <2>1, <2>2, <2>3, <2>4 DEF StatsKept, InFlight
  <2>7. QED
    BY <2>5, <2>6
<1>4. ASSUME NEW r \in Requests, Check(r)
      PROVE  LimitKept' /\ StatsKept'
  <2>1. UNCHANGED totalBuybacks
    BY <1>4 DEF Check
  <2>2. \A f \in Fans : Count(f)' = Count(f)
    BY <1>1, <1>4, CheckMoves DEF Count
  <2>3. /\ request[r].pc = "loaded" /\ request'[r].pc = "checked"
        /\ request'[r].stats = request[r].stats
        /\ \A s \in Requests \ {r} : request'[s] = request[s]
    BY <1>4, CheckMoves
  <2>4. \A f \in Fans : r \in RequestsOf(f) => Count(f) < MaxPerUser
    <3>1. \A f \in Fans :
             RequestsOf(f) \cap Records = {s \in Records : FanOf(s) = f}
      BY DEF RequestsOf, Records
    <3>2. QED
      BY <1>4, <3>1 DEF Check, UnderLimit, Count, RequestsOf
  <2>5. LimitKept'
    BY <1>1, <2>2, <2>3, <2>4 DEF LimitKept
  <2>6. StatsKept'
    BY <1>1, <2>1, <2>2, <2>3 DEF StatsKept, InFlight
  <2>7. QED
    BY <2>5, <2>6
<1>5. ASSUME NEW r \in Requests, Commit(r)
      PROVE  LimitKept' /\ StatsKept'
  <2> DEFINE f == FanOf(r)
  <2>1. f \in Fans
    BY BuybackFlowAssumption DEF PayInv, TypeOK, RequestState, FanOf
  <2>2. /\ request[r].pc = "checked" /\ request'[r].pc = "enqueue"
        /\ \A s \in Requests \ {r} : request'[s] = request[s]
    BY <1>5, CommitMoves
  <2>3. /\ totalBuybacks'[f] = request[r].stats + 1
        /\ \A g \in Fans \ {f} : totalBuybacks'[g] = totalBuybacks[g]
    BY <1>5, <2>1 DEF Commit, PayInv, TypeOK
  <2>4. r \in RequestsOf(f) /\ \A g \in Fans \ {f} : r \notin RequestsOf(g)
    BY DEF RequestsOf
  <2>5. \A s \in RequestsOf(f) :
           InFlight(s)' /\ ~Overlapping(RequestsOf(f)) => FALSE
    <3>1. \A s \in RequestsOf(f) : s \in Requests /\ FanOf(s) = f
      BY DEF RequestsOf
    <3>2. ~InFlight(r)'
      BY <2>2 DEF InFlight
    <3>3. \A s \in Requests \ {r} : InFlight(s)' => InFlight(s)
      BY <2>2 DEF InFlight
    <3>4. QED
      BY <1>5, <3>1, <3>2, <3>3, CommitAlone
  <2>6. ASSUME NEW g \in Fans, ~Overlapping(RequestsOf(g))'
        PROVE  /\ Count(g)' <= MaxPerUser
               /\ \A s \in RequestsOf(g)' : request'[s].pc = "checked" => Count(g)' < MaxPerUser
               /\ totalBuybacks'[g] = Count(g)'
               /\ \A s \in RequestsOf(g)' : InFlight(s)' => request'[s].stats = totalBuybacks'[g]
    <3>1. ~Overlapping(RequestsOf(g))
      BY <1>1, <2>6
    <3>2. CASE g = f
      <4>1. Count(g) < MaxPerUser
        BY <2>2, <2>4, <3>1, <3>2 DEF LimitKept
      <4>2. request[r].stats = totalBuybacks[g] /\ totalBuybacks[g] = Count(g)
        BY <2>2, <2>4, <3>1, <3>2 DEF StatsKept, InFlight
      <4>3. \A s \in RequestsOf(g)' : ~InFlight(s)' /\ request'[s].pc # "checked"
        BY <1>1, <2>5, <3>1, <3>2 DEF InFlight
      <4>4. MaxPerUser \in Nat
        BY BuybackFlowAssumption
      <4>5. Count(g) \in Nat /\ Count(g)' = Count(g) + 1
        BY <1>5, <3>2, CountStep
      <4>6. totalBuybacks'[g] = Count(g)'
        BY <2>3, <3>2, <4>2, <4>5
      <4>7. QED
        BY <4>1, <4>3, <4>4, <4>5, <4>6
    <3>3. CASE g # f
      <4>1. Count(g)' = Count(g) /\ totalBuybacks'[g] = totalBuybacks[g]
        BY <1>5, <2>3, <3>3, CountStep
      <4>2. \A s \in RequestsOf(g)' : s \in RequestsOf(g) /\ request'[s] = request[s]
        BY <1>1, <2>2, <2>4, <3>3
      <4>3. QED
        BY <3>1, <4>1, <4>2 DEF LimitKept, StatsKept, InFlight
    <3>4. QED
      BY <3>2, <3>3
  <2>7. QED
    BY <2>6 DEF LimitKept, StatsKept
<1>6. QED
  BY <1>2, <1>3, <1>4, <1>5, QuietStep

-----------------------------------------------------------------------------
\* Nothing but a commit turns a ticket that is neither active nor returned into
\* a returned or relisted one, and no ticket becomes active.
LEMMA StatusStep ==
    ASSUME PayInv, [Next]_vars, NEW t \in Tickets, status[t] # "active",
           \A r \in Requests : Commit(r) => t \notin request[r].loaded
    PROVE  /\ status'[t] # "active"
           /\ status'[t] \in {"returned", "relisted"} => status[t] \in {"returned", "relisted"}
<1> USE DEF PayInv, TypeOK
<1>1. CASE UNCHANGED status
  BY <1>1
<1>2. ASSUME NEW r \in Requests, Commit(r)
      PROVE  status'[t] = status[t]
  <2>1. t \notin request[r].loaded
    BY <1>2
  <2>2. status' = [u \in Tickets |-> IF u \in request[r].loaded THEN "returned"
                                     ELSE status[u]]
    BY <1>2 DEF Commit
  <2>3. QED
    BY <2>1, <2>2
<1>3. CASE ActivateRelist \/ ExpireTickets
  BY <1>3 DEF ActivateRelist, ExpireTickets
<1>4. CASE \E u \in Tickets : OptOut(u)
  BY <1>4 DEF OptOut
<1>5. QED
  BY <1>1, <1>2, <1>3, <1>4
  DEF Next, vars, Load, Check, Enqueue, EndRequest, Submit, Pay, Drop, SeeReceipt,
      Complete, Retry, GiveUp, Redeliver, End, EventChanges

\* The inventory is finite and part of what the cap counts.
LEMMA InventoryFacts ==
    ASSUME PayInv
    PROVE  /\ CapAmount \in Nat
           /\ BoughtBack \subseteq Tickets
           /\ \A S \in SUBSET Tickets : IsFiniteSet(S) /\ Cardinality(S) \in Nat
           /\ \A S \in SUBSET Tickets : \A T \in SUBSET S : Cardinality(T) <= Cardinality(S)
<1>1. CapAmount \in Nat
  BY BuybackFlowAssumption DEF CapAmount
<1>2. BoughtBack \subseteq Tickets
  BY DEF PayInv, TypeOK, RequestState, BoughtBack, Records
<1>3. \A S \in SUBSET Tickets : IsFiniteSet(S) /\ Cardinality(S) \in Nat
  BY BuybackFlowAssumption, FS_Subset, FS_CardinalityType
<1>4. \A S \in SUBSET Tickets : \A T \in SUBSET S : Cardinality(T) <= Cardinality(S)
  BY <1>3, FS_Subset
<1>5. QED
  BY <1>1, <1>2, <1>3, <1>4

\* Unless a request commits, no ticket joins those bought back.
LEMMA InventoryStep ==
    ASSUME GuardInv, [Next]_vars, \A r \in Requests : ~Commit(r)
    PROVE  /\ Records' = Records
           /\ \A r \in Records : request'[r].loaded = request[r].loaded
           /\ BoughtBack' = BoughtBack /\ Inventory' \subseteq Inventory
<1> USE DEF GuardInv
<1>1. Records' = Records /\ \A r \in Records : request'[r].loaded = request[r].loaded
  <2>1. CASE Quiet
    BY <2>1 DEF Quiet, Records
  <2>2. ASSUME NEW r \in Requests, Load(r)
        PROVE  /\ Records' = Records
               /\ \A s \in Records : request'[s].loaded = request[s].loaded
    <3>1. Records' = Records /\ r \notin Records /\ Records \subseteq Requests
      BY <2>2 DEF Load, Records, PayInv, Protocol
    <3>2. \A s \in Requests \ {r} : request'[s] = request[s]
      BY <2>2, LoadMoves DEF PayInv
    <3>3. QED
      BY <3>1, <3>2
  <2>3. ASSUME NEW r \in Requests, Check(r)
        PROVE  /\ Records' = Records
               /\ \A s \in Records : request'[s].loaded = request[s].loaded
    BY <2>3, CheckMoves DEF Records
  <2>4. QED
    BY <2>1, <2>2, <2>3, QuietStep
<1>2. BoughtBack' = BoughtBack
  BY <1>1 DEF BoughtBack
<1>3. \A t \in BoughtBack : t \in Tickets /\ status[t] # "active"
  BY InventoryFacts DEF BoughtBackIsLeft
<1>4. \A t \in BoughtBack : status'[t] \in {"returned", "relisted"}
                              => status[t] \in {"returned", "relisted"}
  BY <1>3, StatusStep
<1>5. Inventory' \subseteq Inventory
  BY <1>2, <1>3, <1>4 DEF Inventory, With
<1>6. QED
  BY <1>1, <1>2, <1>5

\* Every step keeps the tickets bought back from being active.
LEMMA BoughtBackStep ==
    ASSUME GuardInv, [Next]_vars
    PROVE  BoughtBackIsLeft'
<1> USE DEF GuardInv
<1>1. \A t \in BoughtBack : t \in Tickets /\ status[t] # "active"
  BY InventoryFacts DEF BoughtBackIsLeft
<1>2. CASE \A r \in Requests : ~Commit(r)
  BY <1>1, <1>2, InventoryStep, StatusStep DEF BoughtBackIsLeft
<1>3. ASSUME NEW r \in Requests, Commit(r)
      PROVE  BoughtBackIsLeft'
  <2>1. BoughtBack' = BoughtBack \cup request[r].loaded
    BY <1>3, CommitMoves DEF BoughtBack, Records
  <2>2. \A t \in Tickets : status'[t] = IF t \in request[r].loaded THEN "returned"
                                         ELSE status[t]
    BY <1>3 DEF Commit
  <2>3. request[r].loaded \subseteq Tickets
    BY DEF PayInv, TypeOK, RequestState
  <2>4. QED
    BY <1>1, <2>1, <2>2, <2>3 DEF BoughtBackIsLeft
<1>4. QED
  BY <1>2, <1>3

\* Every step keeps the cap as long as no requests have overlapped.
LEMMA CapStep ==
    ASSUME GuardInv, [Next]_vars, overlap' = {}
    PROVE  /\ Inventory' # {} =>
                \E r \in Records' :
                   100 * Cardinality(Inventory' \ request'[r].loaded) < CapAmount
           /\ \A r \in Requests :
                request'[r].pc = "checked" => 100 * Cardinality(Inventory') < CapAmount
<1> USE DEF GuardInv
<1>1. overlap = {}
  BY RequestsOfFixed
<1>2. /\ CapAmount \in Nat
      /\ BoughtBack \subseteq Tickets /\ Inventory \subseteq Tickets
      /\ \A S \in SUBSET Tickets : Cardinality(S) \in Nat
      /\ \A S \in SUBSET Tickets : \A T \in SUBSET S : Cardinality(T) <= Cardinality(S)
  BY InventoryFacts DEF Inventory
<1>3. CASE \A r \in Requests : ~Commit(r)
  <2>1. /\ Records' = Records /\ Inventory' \subseteq Inventory
        /\ \A r \in Records : request'[r].loaded = request[r].loaded
    BY <1>3, InventoryStep
  <2>2. ASSUME Inventory' # {}
        PROVE  \E r \in Records' :
                   100 * Cardinality(Inventory' \ request'[r].loaded) < CapAmount
    <3>1. PICK r \in Records :
                100 * Cardinality(Inventory \ request[r].loaded) < CapAmount
      BY <1>1, <2>1, <2>2 DEF CapKept
    <3> DEFINE before == Inventory \ request[r].loaded
               after == Inventory' \ request[r].loaded
    <3>2. before \in SUBSET Tickets /\ after \in SUBSET before
      BY <1>2, <2>1
    <3>3. Cardinality(after) <= Cardinality(before)
          /\ Cardinality(after) \in Nat /\ Cardinality(before) \in Nat
      BY <1>2, <3>2
    <3>4. 100 * Cardinality(before) < CapAmount
      BY <3>1
    <3> HIDE DEF before, after
    <3>5. 100 * Cardinality(after) < CapAmount
      BY <1>2, <3>3, <3>4
    <3>6. QED
      BY <2>1, <3>5 DEF after
  <2>3. ASSUME NEW r \in Requests, request'[r].pc = "checked"
        PROVE  100 * Cardinality(Inventory') < CapAmount
    <3>1. 100 * Cardinality(Inventory) < CapAmount
      <4>1. CASE request[r].pc = "checked"
        BY <1>1, <4>1 DEF CapKept
      <4>2. CASE request[r].pc # "checked"
        <5>1. Check(r)
          <6>1. ~Quiet
            BY <2>3, <4>2 DEF Quiet, InFlight
          <6>2. PICK s \in Requests : Load(s) \/ Check(s)
            BY <1>3, <6>1, QuietStep
          <6>3. s = r /\ ~Load(s)
            BY <2>3, <4>2, <6>2, LoadMoves, CheckMoves DEF PayInv
          <6>4. QED
            BY <6>2, <6>3
        <5>2. 100 * Cardinality(With({"returned", "relisted"})) < CapAmount
          BY <5>1 DEF Check, UnderCap, CapAmount
        <5>3. Inventory \in SUBSET With({"returned", "relisted"})
              /\ With({"returned", "relisted"}) \in SUBSET Tickets
          BY DEF Inventory, With
        <5>4. QED
          BY <1>2, <5>2, <5>3
      <4>3. QED
        BY <4>1, <4>2
    <3>2. Cardinality(Inventory') <= Cardinality(Inventory)
          /\ Cardinality(Inventory) \in Nat /\ Cardinality(Inventory') \in Nat
      BY <1>2, <2>1
    <3>3. QED
      BY <1>2, <3>1, <3>2
  <2>4. QED
    BY <2>2, <2>3
<1>4. ASSUME NEW r \in Requests, Commit(r)
      PROVE  /\ 100 * Cardinality(Inventory' \ request'[r].loaded) < CapAmount
             /\ r \in Records'
             /\ \A s \in Requests : request'[s].pc # "checked"
  <2>1. /\ request[r].pc = "checked" /\ request'[r].pc = "enqueue"
        /\ Records' = Records \cup {r}
        /\ \A s \in Requests : request'[s].loaded = request[s].loaded
        /\ \A s \in Requests \ {r} : request'[s] = request[s]
    BY <1>4, CommitMoves
  <2>2. \A s \in Requests : request'[s].pc # "checked"
    BY <1>1, <1>4, <2>1, CommitAlone DEF InFlight
  <2>3. BoughtBack' = BoughtBack \cup request[r].loaded
    BY <2>1 DEF BoughtBack, Records
  <2>4. \A t \in Tickets \ request[r].loaded : status'[t] = status[t]
    BY <1>4 DEF Commit
  <2>5. Inventory' \ request[r].loaded \in SUBSET Inventory
    BY <1>2, <2>3, <2>4 DEF Inventory, With
  <2>6. 100 * Cardinality(Inventory) < CapAmount
    BY <1>1, <2>1 DEF CapKept
  <2> DEFINE after == Inventory' \ request[r].loaded
  <2>7. Cardinality(after) <= Cardinality(Inventory)
        /\ Cardinality(after) \in Nat /\ Cardinality(Inventory) \in Nat
    BY <1>2, <2>5
  <2> HIDE DEF after
  <2>8. 100 * Cardinality(after) < CapAmount
    BY <1>2, <2>6, <2>7
  <2>9. QED
    BY <2>1, <2>2, <2>8 DEF after
<1>5. QED
  BY <1>3, <1>4

LEMMA GuardInvariant == Spec => []GuardInv
<1>1. Init => GuardInv
  <2> SUFFICES ASSUME Init
               PROVE  GuardInv
    OBVIOUS
  <2>1. PayInv
    BY BuybackFlowAssumption
    DEF Init, PayInv, TypeOK, RequestState, JobState, Records, Protocol,
        ConfirmedIsPaid, FailureLeaves, CompletedIsPaidOnce
  <2>2. \A r \in Requests : request[r].pc = "start"
    BY DEF Init
  <2>3. Records = {} /\ BoughtBack = {}
    BY DEF Init, Records, BoughtBack
  <2>4. \A f \in Fans : Count(f) = 0
    BY <2>3, FS_EmptySet DEF Count
  <2>5. LimitKept /\ StatsKept
    BY <2>2, <2>4, BuybackFlowAssumption DEF Init, LimitKept, StatsKept, InFlight, RequestsOf
  <2>6. QED
    BY <2>1, <2>2, <2>3, <2>5
    DEF GuardInv, OverlapRecorded, InFlight, BoughtBackIsLeft, CapKept, Inventory
<1>2. GuardInv /\ [Next]_vars => GuardInv'
  <2> SUFFICES ASSUME GuardInv, [Next]_vars
               PROVE  GuardInv'
    OBVIOUS
  <2>1. PayInv'
    BY TypeStep, ProtocolStep, PaidStep DEF GuardInv, PayInv
  <2>2. CapKept'
    BY CapStep DEF CapKept
  <2>3. QED
    BY <2>1, <2>2, OverlapStep, LimitStatsStep, BoughtBackStep DEF GuardInv
<1>3. QED
  BY <1>1, <1>2, PTL DEF Spec

\* A fan exceeds the limit of buybacks only with requests that overlapped.
THEOREM LimitHeld == Spec => []LimitUnlessOverlap
<1>1. GuardInv => LimitUnlessOverlap
  <2> SUFFICES ASSUME GuardInv, NEW f \in Fans, ~Overlapping(RequestsOf(f)),
                      Cardinality(RequestsOf(f) \cap Records) > MaxPerUser
               PROVE  FALSE
    BY DEF LimitUnlessOverlap
  <2>1. Count(f) <= MaxPerUser
    BY DEF GuardInv, LimitKept
  <2>2. Count(f) \in Nat /\ MaxPerUser \in Nat
    BY BuybackFlowAssumption, FS_Subset, FS_CardinalityType DEF Count, RequestsOf
  <2>3. QED
    BY <2>1, <2>2 DEF Count
<1>2. QED
  BY <1>1, GuardInvariant, PTL

\* A fan's statistics miss a buyback only when requests overlapped.
THEOREM StatsHeld == Spec => []StatsUnlessOverlap
<1>1. GuardInv => StatsUnlessOverlap
  BY DEF GuardInv, StatsKept, StatsUnlessOverlap, Count
<1>2. QED
  BY <1>1, GuardInvariant, PTL

\* The inventory exceeds its cap by less than one request, unless requests
\* overlapped.
THEOREM CapHeld == Spec => []CapUnlessOverlap
<1>1. GuardInv => CapUnlessOverlap
  BY DEF GuardInv, CapKept, CapUnlessOverlap, Inventory, CapAmount
<1>2. QED
  BY <1>1, GuardInvariant, PTL
=============================================================================
