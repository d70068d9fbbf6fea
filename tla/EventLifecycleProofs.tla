------------------------- MODULE EventLifecycleProofs -------------------------
(***************************************************************************)
(* Proofs about EventLifecycle: whatever the tasks do is a behaviour of    *)
(* the vault; a refund, a slash and a credit have each their cause; the    *)
(* claim is held until the payout; and what is proved of the vault alone,  *)
(* carried over to the whole system.                                       *)
(***************************************************************************)
EXTENDS EventLifecycle, TLAPS

-----------------------------------------------------------------------------
(* Tasks. *)

\* The parts of a task, by its kind.
LEMMA TaskParts ==
    ASSUME NEW k \in Tasks
    PROVE  /\ k = <<k[1], k[2], k[3]>>
           /\ k[1] \in {"set_kickoff", "set_refundable", "slash", "deposit",
                        "claim_refund", "refund_one"}
           /\ k[1] = "set_kickoff" => k[2] \in Events
           /\ k[1] \in {"set_refundable", "slash"} => k[2] \in Events /\ k[3] \in Cancels
           /\ k[1] \in {"deposit", "claim_refund", "refund_one"} => k[2] \in Tickets
  BY DEF Tasks

\* The triples that the actions name are tasks.
LEMMA TaskNames ==
    /\ \A e \in Events : <<"set_kickoff", e, 1>> \in Tasks
    /\ \A e \in Events, n \in Cancels, c \in {"set_refundable", "slash"} :
           <<c, e, n>> \in Tasks
    /\ \A t \in Tickets : <<"deposit", t, 1>> \in Tasks
    /\ \A t \in Tickets, r \in Requests : <<"refund_one", t, r>> \in Tasks
  BY DEF Tasks

-----------------------------------------------------------------------------
(* Refinement. *)

\* What a transaction does to the vault is an action of the vault, or nothing.
LEMMA EffectIsVaultStep ==
    ASSUME event \in [Events -> EventRow], NEW k \in Tasks, Effect(k),
           k[1] = "set_kickoff" => event[k[2]].registered \in Kickoffs
    PROVE  [Vault!Next]_vaultVars
<1>1. CASE k[1] = "slash" /\ SlashFor(k[2])
  BY <1>1 DEF SlashFor
<1>2. CASE k[1] = "set_kickoff" /\ Vault!SetKickoff(k[2], event[k[2]].registered)
  BY <1>2, TaskParts DEF Vault!Next
<1>3. CASE k[1] = "set_refundable" /\ Vault!SetRefundable(k[2])
  BY <1>3, TaskParts DEF Vault!Next
<1>4. CASE k[1] = "deposit" /\ (Vault!Deposit(k[2]) \/ DepositedAlready(k[2]))
  BY <1>4, TaskParts DEF Vault!Next, DepositedAlready
<1>5. CASE k[1] = "claim_refund" /\ Vault!ClaimRefund(k[2])
  BY <1>5, TaskParts DEF Vault!Next
<1>6. CASE k[1] = "refund_one" /\ Vault!RefundOne(k[2])
  BY <1>6, TaskParts DEF Vault!Next
<1> QED
  BY <1>1, <1>2, <1>3, <1>4, <1>5, <1>6 DEF Effect

\* The actions that move the vault, and that all others leave it alone.
LEMMA VaultMoves ==
    [Next]_vars =>
        \/ \E k \in Tasks : (task[k] = "queued" \/ k \in late) /\ Effect(k)
        \/ \E e \in Events : Vault!ClaimPayout(e)
        \/ Vault!Tick
        \/ UNCHANGED vaultVars
<1> SUFFICES ASSUME [Next]_vars
             PROVE  \/ \E k \in Tasks : (task[k] = "queued" \/ k \in late) /\ Effect(k)
                    \/ \E e \in Events : Vault!ClaimPayout(e)
                    \/ Vault!Tick
                    \/ UNCHANGED vaultVars
  OBVIOUS
<1>1. CASE UNCHANGED vars
  BY <1>1 DEF vars
<1>2. CASE \E k \in Tasks : Execute(k) \/ ExecuteLate(k)
  BY <1>2 DEF Execute, ExecuteLate
<1>3. CASE \E e \in Events : VendorClaims(e)
  BY <1>3 DEF VendorClaims
<1>4. CASE TimePasses
  BY <1>4 DEF TimePasses
<1>5. CASE \E e \in Events :
              \/ \E k \in Kickoffs, tier \in {"small", "big"} : CreateEvent(e, k, tier)
              \/ ApproveEvent(e) \/ PauseEvent(e) \/ CompleteEvent(e)
              \/ \E k \in Kickoffs : PostponeEvent(e, k)
              \/ \E by \in {"vendor", "admin"} : CancelEvent(e, by)
              \/ \E n \in Cancels : Notify(e, n)
  BY <1>5 DEF CreateEvent, ApproveEvent, PauseEvent, CompleteEvent, PostponeEvent,
              CancelEvent, CancelWith, Notify
<1>6. CASE \E t \in Tickets : CheckPurchase(t) \/ BuyTicket(t) \/ VoidTicket(t)
                              \/ Activate(t)
  BY <1>6 DEF CheckPurchase, BuyTicket, VoidTicket, Activate
<1>7. CASE \E r \in Requests : CheckOptOut(r) \/ OptOut(r)
  BY <1>7 DEF CheckOptOut, OptOut
<1>8. CASE \E k \in Tasks : RetryTask(k) \/ GiveUp(k) \/ Redeliver(k) \/ Abort(k)
  BY <1>8 DEF RetryTask, GiveUp, Redeliver, Abort
<1> QED
  BY <1>1, <1>2, <1>3, <1>4, <1>5, <1>6, <1>7, <1>8 DEF Next

-----------------------------------------------------------------------------
(* Types. *)

\* What the composition reads of the vault's state.
VaultShape ==
    /\ events \in [Events -> Vault!EventConfig]
    /\ tickets \in [Tickets -> Vault!TicketDeposit]
    /\ now \in Nat

LEMMA EffectShape ==
    ASSUME TypeOK, VaultShape, NEW k \in Tasks, Effect(k)
    PROVE  VaultShape' /\ now' = now
<1>1. CASE k[1] = "slash" /\ SlashFor(k[2])
  BY <1>1 DEF SlashFor, vaultVars, VaultShape
<1>2. CASE k[1] = "set_kickoff" /\ Vault!SetKickoff(k[2], event[k[2]].registered)
  <2>1. k[2] \in Events /\ event[k[2]].registered \in Nat
    BY <1>2, TaskParts DEF TypeOK, EventRow
  <2> QED
    BY <1>2, <2>1 DEF Vault!SetKickoff, VaultShape, Vault!EventConfig
<1>3. CASE k[1] = "set_refundable" /\ Vault!SetRefundable(k[2])
  BY <1>3, TaskParts DEF Vault!SetRefundable, VaultShape, Vault!EventConfig
<1>4. CASE k[1] = "deposit" /\ (Vault!Deposit(k[2]) \/ DepositedAlready(k[2]))
  <2>1. CASE DepositedAlready(k[2])
    BY <2>1 DEF DepositedAlready, vaultVars, VaultShape
  <2>2. CASE Vault!Deposit(k[2])
    <3>1. k[2] \in Tickets /\ EventOf[k[2]] \in Events /\ Price[k[2]] \in Nat
      BY <1>4, TaskParts, VaultAssumption
    <3>2. tickets' \in [Tickets -> Vault!TicketDeposit]
      BY <2>2, <3>1 DEF Vault!Deposit, VaultShape, Vault!TicketDeposit
    <3>3. /\ events[EventOf[k[2]]].vendorClaimable + Price[k[2]] \in Nat
          /\ events[EventOf[k[2]]].totalDeposited + Price[k[2]] \in Nat
      BY <3>1 DEF VaultShape, Vault!EventConfig
    <3>4. events' \in [Events -> Vault!EventConfig]
      BY <2>2, <3>1, <3>3 DEF Vault!Deposit, VaultShape, Vault!EventConfig
    <3> QED
      BY <2>2, <3>2, <3>4 DEF Vault!Deposit, VaultShape
  <2> QED
    BY <1>4, <2>1, <2>2
<1>5. CASE k[1] = "claim_refund" /\ Vault!ClaimRefund(k[2])
  BY <1>5, TaskParts DEF Vault!ClaimRefund, VaultShape, Vault!TicketDeposit
<1>6. CASE k[1] = "refund_one" /\ Vault!RefundOne(k[2])
  <2>1. k[2] \in Tickets /\ EventOf[k[2]] \in Events
    BY <1>6, TaskParts, VaultAssumption
  <2>2. /\ events[EventOf[k[2]]].vendorClaimable \in Nat
        /\ tickets[k[2]].amount \in Nat
    BY <2>1 DEF VaultShape, Vault!EventConfig, Vault!TicketDeposit
  <2>3. Vault!Deduct(events[EventOf[k[2]]].vendorClaimable, tickets[k[2]].amount) \in Nat
    BY <2>2 DEF Vault!Deduct
  <2> QED
    BY <1>6, <2>1, <2>3 DEF Vault!RefundOne, VaultShape, Vault!EventConfig, Vault!TicketDeposit
<1> QED
  BY <1>1, <1>2, <1>3, <1>4, <1>5, <1>6 DEF Effect

LEMMA ShapeStep ==
    ASSUME TypeOK, VaultShape, [Next]_vars
    PROVE  VaultShape'
<1>1. ASSUME NEW k \in Tasks, Effect(k) PROVE VaultShape'
  BY <1>1, EffectShape
<1>2. ASSUME NEW e \in Events, Vault!ClaimPayout(e) PROVE VaultShape'
  BY <1>2 DEF Vault!ClaimPayout, VaultShape, Vault!EventConfig
<1>3. CASE Vault!Tick
  BY <1>3 DEF Vault!Tick, VaultShape
<1>4. CASE UNCHANGED vaultVars
  BY <1>4 DEF vaultVars, VaultShape
<1> QED
  BY <1>1, <1>2, <1>3, <1>4, VaultMoves

\* Enqueueing keeps the type of the queue and touches no other task.
LEMMA Enqueued ==
    ASSUME TypeOK, NEW S, Enqueue(S)
    PROVE  /\ task' \in [Tasks -> Stages]
           /\ \A k \in Tasks : task'[k] # "none" => task[k] # "none" \/ k \in S
  BY DEF TypeOK, Enqueue, Stages

LEMMA TypeInit == Init => TypeOK /\ VaultShape
  BY DEF Init, TypeOK, VaultShape, Vault!Init, Vault!EventConfig, Vault!TicketDeposit,
         EventRow, EventStatus, TicketRow, OptOutState, Stages

LEMMA TypeStep ==
    ASSUME TypeOK, VaultShape, [Next]_vars
    PROVE  TypeOK'
<1> USE DEF TypeOK
<1>1. ASSUME NEW e \in Events, NEW k \in Kickoffs, NEW tier, CreateEvent(e, k, tier)
      PROVE  TypeOK'
  <2>1. k \in Nat
    BY VaultAssumption
  <2>2. event' \in [Events -> EventRow]
    <3> DEFINE status == IF tier = "small" THEN "active" ELSE "under_review"
               registered == IF tier = "small" THEN k ELSE 0
    <3>1. status \in EventStatus /\ registered \in Nat
      BY <2>1 DEF EventStatus
    <3>2. event' = [event EXCEPT ![e].status = status, ![e].kickoff = k,
                                 ![e].registered = registered]
      BY <1>1 DEF CreateEvent
    <3> HIDE DEF status, registered
    <3> QED
      BY <2>1, <3>1, <3>2 DEF EventRow
  <2> QED
    BY <1>1, <2>2, Enqueued DEF CreateEvent
<1>2. ASSUME NEW e \in Events, ApproveEvent(e) PROVE TypeOK'
  <2>1. event' \in [Events -> EventRow]
    BY <1>2 DEF ApproveEvent, EventRow, EventStatus
  <2> QED
    BY <1>2, <2>1, Enqueued DEF ApproveEvent
<1>3. ASSUME NEW e \in Events, PauseEvent(e) \/ CompleteEvent(e) PROVE TypeOK'
  <2>1. PICK status \in EventStatus :
            /\ event' = [event EXCEPT ![e].status = status]
            /\ UNCHANGED <<row, optOut, taskVars>>
    BY <1>3 DEF PauseEvent, CompleteEvent, EventStatus
  <2>2. event' \in [Events -> EventRow]
    BY <2>1 DEF EventRow
  <2> QED
    BY <2>1, <2>2 DEF taskVars
<1>4. ASSUME NEW e \in Events, NEW k \in Kickoffs, PostponeEvent(e, k) PROVE TypeOK'
  <2>1. k \in Nat /\ now + OptOutWindow \in Nat
    BY VaultAssumption, LifecycleAssumption DEF VaultShape
  <2>2. PICK status \in EventStatus, deadline \in Nat :
            /\ event' = [event EXCEPT ![e].status = status, ![e].kickoff = k,
                                      ![e].deadline = deadline]
            /\ UNCHANGED <<row, optOut, taskVars>>
    BY <1>4, <2>1 DEF PostponeEvent, EventStatus
  <2>3. event' \in [Events -> EventRow]
    BY <2>1, <2>2 DEF EventRow
  <2> QED
    BY <2>2, <2>3 DEF taskVars
<1>5. ASSUME NEW e \in Events, NEW by \in {"vendor", "admin"}, CancelEvent(e, by)
      PROVE  TypeOK'
  <2>1. event' \in [Events -> EventRow]
    <3>1. event[e].cancels \in Seq({"vendor", "admin"})
      BY DEF EventRow
    <3>2. Append(event[e].cancels, by) \in Seq({"vendor", "admin"})
      BY <3>1
    <3> QED
      BY <1>5, <3>2 DEF CancelEvent, CancelWith, EventRow, EventStatus
  <2>2. notify' \subseteq Events \X Cancels
    BY <1>5 DEF CancelEvent, CancelWith
  <2>3. \E S : Enqueue(S)
    BY <1>5 DEF CancelEvent, CancelWith
  <2> QED
    BY <1>5, <2>1, <2>2, <2>3, Enqueued DEF CancelEvent, CancelWith
<1>6. ASSUME NEW t \in Tickets, CheckPurchase(t) \/ VoidTicket(t) PROVE TypeOK'
  BY <1>6 DEF CheckPurchase, VoidTicket, SetStatus, TicketRow, taskVars
<1>7. ASSUME NEW t \in Tickets, BuyTicket(t) PROVE TypeOK'
  <2>1. row' \in [Tickets -> TicketRow]
    BY <1>7 DEF BuyTicket, SetStatus, TicketRow
  <2> QED
    BY <1>7, <2>1, Enqueued DEF BuyTicket
<1>8. ASSUME NEW r \in Requests, CheckOptOut(r) PROVE TypeOK'
  BY <1>8 DEF CheckOptOut, OptOutState, taskVars
<1>9. ASSUME NEW r \in Requests, OptOut(r) PROVE TypeOK'
  <2>1. row' \in [Tickets -> TicketRow] /\ optOut' \in [Requests -> OptOutState]
    BY <1>9 DEF OptOut, OptOutState, TicketRow
  <2> QED
    BY <1>9, <2>1, Enqueued DEF OptOut
<1>10. ASSUME NEW e \in Events, NEW n \in Cancels, Notify(e, n) PROVE TypeOK'
  BY <1>10, Enqueued DEF Notify, rowVars
<1>11. ASSUME NEW k \in Tasks, Effect(k) PROVE slashes' \in [Events -> Nat]
  BY <1>11, TaskParts DEF Effect, SlashFor
<1>12. ASSUME NEW k \in Tasks, Execute(k) \/ ExecuteLate(k) PROVE TypeOK'
  BY <1>11, <1>12 DEF Execute, ExecuteLate, rowVars, Stages
<1>13. ASSUME NEW k \in Tasks, RetryTask(k) \/ Redeliver(k) \/ Abort(k) PROVE TypeOK'
  BY <1>13 DEF RetryTask, Redeliver, Abort, Leave, rowVars, Stages
<1>14. ASSUME NEW k \in Tasks, GiveUp(k) PROVE TypeOK'
  <2>1. row' \in [Tickets -> TicketRow]
    BY <1>14, TaskParts DEF GiveUp, SetStatus, TicketRow
  <2> QED
    BY <1>14, <2>1 DEF GiveUp, Leave, Stages
<1>15. ASSUME NEW t \in Tickets, Activate(t) PROVE TypeOK'
  BY <1>15 DEF Activate, SetStatus, TicketRow, rowVars, Stages
<1>16. ASSUME NEW e \in Events, VendorClaims(e) PROVE TypeOK'
  BY <1>16 DEF VendorClaims, rowVars, taskVars
<1>17. CASE TimePasses
  BY <1>17 DEF TimePasses, rowVars, taskVars
<1>18. CASE UNCHANGED vars
  BY <1>18 DEF vars, rowVars, taskVars
<1> QED
  BY <1>1, <1>2, <1>3, <1>4, <1>5, <1>6, <1>7, <1>8, <1>9, <1>10, <1>12, <1>13, <1>14,
     <1>15, <1>16, <1>17, <1>18 DEF Next

-----------------------------------------------------------------------------
(* Causes. *)

\* Whether k was ever enqueued.
Sent(k) == task[k] # "none"

\* What had happened before a task was enqueued is still the case.
Cause(k) ==
    /\ k[1] = "set_kickoff" =>
           Exists(k[2]) /\ event[k[2]].registered \in Kickoffs
    /\ k[1] \in {"set_refundable", "slash"} => k[3] \in DOMAIN event[k[2]].cancels
    /\ k[1] = "slash" => event[k[2]].cancels[k[3]] = "vendor"
    /\ k[1] = "refund_one" => row[k[2]].status = "returned"

KnownKickoffs == \A e \in Events : Exists(e) => event[e].kickoff \in Kickoffs

\* Tasks are enqueued for a reason, and only those have late transactions.
TasksHaveCause ==
    /\ \A k \in Tasks : Sent(k) => Cause(k)
    /\ \A k \in late : Sent(k)

\* What the rows of tickets may do: a ticket that was returned, or whose price
\* was credited, stays void.
LEMMA TicketStep ==
    ASSUME TypeOK, [Next]_vars, NEW t \in Tickets
    PROVE  /\ row[t].status = "returned" => row'[t].status = "returned"
           /\ (row[t].credits > 0 => row[t].status \in {"failed", "returned"})
                => (row'[t].credits > 0 => row'[t].status \in {"failed", "returned"})
<1> DEFINE Goal == /\ row[t].status = "returned" => row'[t].status = "returned"
                   /\ (row[t].credits > 0 => row[t].status \in {"failed", "returned"})
                        => (row'[t].credits > 0 => row'[t].status \in {"failed", "returned"})
<1> USE DEF TypeOK, TicketRow, SetStatus
<1>1. ASSUME NEW u \in Tickets, CheckPurchase(u) \/ BuyTicket(u) \/ VoidTicket(u)
      PROVE  Goal
  BY <1>1 DEF CheckPurchase, BuyTicket, VoidTicket
<1>2. ASSUME NEW r \in Requests, OptOut(r) PROVE Goal
  BY <1>2 DEF OptOut, OptOutState
<1>3. ASSUME NEW u \in Tickets, Activate(u) PROVE Goal
  BY <1>3 DEF Activate
<1>4. ASSUME NEW k \in Tasks, GiveUp(k) PROVE Goal
  BY <1>4, TaskParts DEF GiveUp
<1>5. CASE UNCHANGED row
  BY <1>5
<1>6. \/ \E u \in Tickets : CheckPurchase(u) \/ BuyTicket(u) \/ VoidTicket(u) \/ Activate(u)
      \/ \E r \in Requests : OptOut(r)
      \/ \E k \in Tasks : GiveUp(k)
      \/ UNCHANGED row
  BY DEF Next, vars, rowVars, taskVars, CreateEvent, ApproveEvent, PauseEvent,
         PostponeEvent, CancelEvent, CancelWith, CompleteEvent, CheckOptOut, Notify,
         Execute, RetryTask, ExecuteLate, Redeliver, Abort, VendorClaims, TimePasses
<1> QED
  BY <1>1, <1>2, <1>3, <1>4, <1>5, <1>6

\* What the rows of events may do: an event exists for good, in the vault under
\* a kickoff it had, and no cancellation is forgotten.
LEMMA EventStep ==
    ASSUME TypeOK, KnownKickoffs, [Next]_vars, NEW e \in Events
    PROVE  /\ Exists(e) => Exists(e)'
           /\ Exists(e)' => event'[e].kickoff \in Kickoffs
           /\ Exists(e) /\ event[e].registered \in Kickoffs
                => event'[e].registered \in Kickoffs
           /\ \A n \in DOMAIN event[e].cancels :
                  /\ n \in DOMAIN event'[e].cancels
                  /\ event'[e].cancels[n] = event[e].cancels[n]
<1> DEFINE Goal ==
        /\ Exists(e) => Exists(e)'
        /\ Exists(e)' => event'[e].kickoff \in Kickoffs
        /\ Exists(e) /\ event[e].registered \in Kickoffs => event'[e].registered \in Kickoffs
        /\ \A n \in DOMAIN event[e].cancels :
               /\ n \in DOMAIN event'[e].cancels
               /\ event'[e].cancels[n] = event[e].cancels[n]
<1>0. event[e].cancels \in Seq({"vendor", "admin"})
  BY DEF TypeOK, EventRow
<1> USE DEF TypeOK, EventRow, Exists, KnownKickoffs
<1>1. ASSUME NEW d \in Events, NEW k \in Kickoffs, NEW tier, CreateEvent(d, k, tier)
      PROVE  Goal
  BY <1>1 DEF CreateEvent
<1>2. ASSUME NEW d \in Events, ApproveEvent(d) PROVE Goal
  BY <1>2 DEF ApproveEvent
<1>3. ASSUME NEW d \in Events, PauseEvent(d) \/ CompleteEvent(d) PROVE Goal
  <2>1. PICK status \in {"paused", "completed"} :
            event' = [event EXCEPT ![d].status = status] /\ Exists(d)
    BY <1>3 DEF PauseEvent, CompleteEvent
  <2> QED
    BY <2>1
<1>4. ASSUME NEW d \in Events, NEW k \in Kickoffs, PostponeEvent(d, k) PROVE Goal
  BY <1>4 DEF PostponeEvent
<1>5. ASSUME NEW d \in Events, NEW by \in {"vendor", "admin"}, CancelEvent(d, by) PROVE Goal
  <2>1. event' = [event EXCEPT ![d].status = "cancelled", ![d].cancels = Append(@, by)]
        /\ Exists(d)
    BY <1>5 DEF CancelEvent, CancelWith
  <2>2. CASE d = e
    <3>1. /\ event'[e].status = "cancelled"
          /\ event'[e].kickoff = event[e].kickoff
          /\ event'[e].registered = event[e].registered
          /\ event'[e].cancels = Append(event[e].cancels, by)
      BY <2>1, <2>2
    <3> QED
      BY <1>0, <2>1, <2>2, <3>1
  <2>3. CASE d # e
    BY <2>1, <2>3
  <2> QED
    BY <2>2, <2>3
<1>6. CASE UNCHANGED event
  BY <1>6
<1>7. \/ \E d \in Events :
             \/ \E k \in Kickoffs, tier \in {"small", "big"} : CreateEvent(d, k, tier)
             \/ ApproveEvent(d) \/ PauseEvent(d) \/ CompleteEvent(d)
             \/ \E k \in Kickoffs : PostponeEvent(d, k)
             \/ \E by \in {"vendor", "admin"} : CancelEvent(d, by)
      \/ UNCHANGED event
  BY DEF Next, vars, rowVars, taskVars, CheckPurchase, BuyTicket, VoidTicket, CheckOptOut,
         OptOut, Notify, Execute, RetryTask, GiveUp, ExecuteLate, Activate, Redeliver,
         Abort, VendorClaims, TimePasses
<1> QED
  BY <1>1, <1>2, <1>3, <1>4, <1>5, <1>6, <1>7

\* The cause of a task does not go away.
LEMMA CauseStays ==
    ASSUME TypeOK, KnownKickoffs, [Next]_vars, NEW k \in Tasks, Cause(k)
    PROVE  Cause(k)'
  BY TaskParts, TicketStep, EventStep DEF Cause

\* A task is enqueued with its cause.
LEMMA EnqueuedWithCause ==
    ASSUME TypeOK, KnownKickoffs, [Next]_vars, NEW k \in Tasks, ~Sent(k), Sent(k)'
    PROVE  Cause(k)'
<1> USE DEF Sent
<1>1. ASSUME NEW e \in Events, NEW x \in Kickoffs, NEW tier, CreateEvent(e, x, tier)
      PROVE  Cause(k)'
  <2>1. tier = "small" /\ k = <<"set_kickoff", e, 1>>
    BY <1>1, Enqueued DEF CreateEvent, Kickoff
  <2>2. event'[e].registered = x /\ event'[e].status = "active"
    BY <1>1, <2>1 DEF CreateEvent, TypeOK, EventRow
  <2> QED
    BY <2>1, <2>2 DEF Cause, Exists
<1>2. ASSUME NEW e \in Events, ApproveEvent(e) PROVE Cause(k)'
  <2>1. k = <<"set_kickoff", e, 1>>
    BY <1>2, Enqueued DEF ApproveEvent, Kickoff
  <2>2. /\ event'[e].registered = event[e].kickoff /\ event'[e].status = "active"
        /\ event[e].kickoff \in Kickoffs
    BY <1>2 DEF ApproveEvent, TypeOK, EventRow, KnownKickoffs, Exists
  <2> QED
    BY <2>1, <2>2 DEF Cause, Exists
<1>3. ASSUME NEW e \in Events, NEW by \in {"vendor", "admin"}, CancelEvent(e, by)
      PROVE  Cause(k)'
  <2> DEFINE n == Len(event[e].cancels) + 1
             calls == IF by = "vendor" /\ e \in WithWallet
                      THEN <<"slash", "set_refundable", "notify">>
                      ELSE <<"set_refundable", "notify">>
  <2>1. PICK done \in 0..Len(calls) :
            Enqueue({<<c, e, n>> : c \in {calls[i] : i \in 1..done} \ {"notify"}})
    BY <1>3 DEF CancelEvent, CancelWith
  <2>2. PICK c \in {calls[i] : i \in 1..done} \ {"notify"} : k = <<c, e, n>>
    BY <2>1, Enqueued
  <2>3. c = "set_refundable" \/ (c = "slash" /\ by = "vendor")
    BY <2>2
  <2>4. event[e].cancels \in Seq({"vendor", "admin"})
    BY DEF TypeOK, EventRow
  <2>5. event'[e].cancels = Append(event[e].cancels, by)
    BY <1>3 DEF CancelEvent, CancelWith, TypeOK, EventRow
  <2>6. n \in DOMAIN event'[e].cancels /\ event'[e].cancels[n] = by
    BY <2>4, <2>5
  <2> QED
    BY <2>2, <2>3, <2>6 DEF Cause
<1>4. ASSUME NEW t \in Tickets, BuyTicket(t) PROVE Cause(k)'
  <2>1. k = <<"deposit", t, 1>>
    BY <1>4, Enqueued DEF BuyTicket
  <2> QED
    BY <2>1 DEF Cause
<1>5. ASSUME NEW r \in Requests, OptOut(r) PROVE Cause(k)'
  <2>1. k = <<"refund_one", optOut[r].ticket, r>>
    BY <1>5, Enqueued DEF OptOut
  <2>2. row'[optOut[r].ticket].status = "returned"
    BY <1>5 DEF OptOut, TypeOK, OptOutState, TicketRow
  <2> QED
    BY <2>1, <2>2 DEF Cause
<1>6. ASSUME NEW e \in Events, NEW n \in Cancels, Notify(e, n) PROVE Cause(k)'
  <2>1. PICK t \in Tickets : k = <<"claim_refund", t, n>>
    BY <1>6, Enqueued DEF Notify
  <2> QED
    BY <2>1 DEF Cause
<1>7. \/ \E e \in Events :
             \/ \E x \in Kickoffs, tier \in {"small", "big"} : CreateEvent(e, x, tier)
             \/ ApproveEvent(e)
             \/ \E by \in {"vendor", "admin"} : CancelEvent(e, by)
             \/ \E n \in Cancels : Notify(e, n)
      \/ \E t \in Tickets : BuyTicket(t)
      \/ \E r \in Requests : OptOut(r)
  BY DEF Next, vars, taskVars, TypeOK, PauseEvent, PostponeEvent, CompleteEvent,
         CheckPurchase, VoidTicket, CheckOptOut, Execute, RetryTask, GiveUp,
         ExecuteLate, Activate, Redeliver, Abort, VendorClaims, TimePasses
<1> QED
  BY <1>1, <1>2, <1>3, <1>4, <1>5, <1>6, <1>7

\* A task that was sent stays so, and only such a task leaves a transaction.
LEMMA SentStays ==
    ASSUME TypeOK, [Next]_vars, \A k \in late : Sent(k)
    PROVE  \A k \in late' : Sent(k)'
<1> USE DEF Sent, TypeOK
<1>1. ASSUME NEW k \in Tasks, Sent(k) PROVE Sent(k)'
  BY <1>1 DEF Next, vars, taskVars, Enqueue, CreateEvent, ApproveEvent, PauseEvent,
         PostponeEvent, CancelEvent, CancelWith, CompleteEvent, CheckPurchase, BuyTicket,
         VoidTicket, CheckOptOut, OptOut, Notify, Execute, RetryTask, GiveUp,
         ExecuteLate, Activate, Redeliver, Abort, VendorClaims, TimePasses
<1>2. ASSUME NEW k \in late' PROVE k \in late \/ (k \in Tasks /\ Sent(k))
  BY <1>2 DEF Next, vars, taskVars, CreateEvent, ApproveEvent, PauseEvent,
         PostponeEvent, CancelEvent, CancelWith, CompleteEvent, CheckPurchase, BuyTicket,
         VoidTicket, CheckOptOut, OptOut, Notify, Execute, RetryTask, GiveUp, Leave,
         ExecuteLate, Activate, Redeliver, Abort, VendorClaims, TimePasses
<1> QED
  BY <1>1, <1>2

LEMMA CauseStep ==
    ASSUME TypeOK, KnownKickoffs, TasksHaveCause, [Next]_vars
    PROVE  KnownKickoffs' /\ TasksHaveCause'
<1>1. KnownKickoffs'
  BY EventStep DEF KnownKickoffs
<1>2. ASSUME NEW k \in Tasks, Sent(k)' PROVE Cause(k)'
  BY <1>2, CauseStays, EnqueuedWithCause DEF TasksHaveCause
<1>3. \A k \in late' : Sent(k)'
  BY SentStays DEF TasksHaveCause
<1> QED
  BY <1>1, <1>2, <1>3 DEF TasksHaveCause

-----------------------------------------------------------------------------
(* Effects. *)

\* A refund is unlocked, a ticket refunded and a vendor slashed only by the
\* transaction of a task that was sent, or as part of a cancelled event.
LEMMA EffectCauses ==
    ASSUME TypeOK, VaultShape, TasksHaveCause, NEW k \in Tasks, Sent(k), Effect(k)
    PROVE  /\ \A e \in Events :
                  events'[e].refundable => events[e].refundable \/ event[e].cancels # <<>>
           /\ \A t \in Tickets :
                  tickets'[t].refunded => \/ tickets[t].refunded
                                         \/ events[EventOf[t]].refundable
                                         \/ row[t].status = "returned"
           /\ \A e \in Events :
                  slashes'[e] > 0 =>
                      \/ slashes[e] > 0
                      \/ \E n \in DOMAIN event[e].cancels : event[e].cancels[n] = "vendor"
<1> DEFINE Goal ==
        /\ \A e \in Events :
               events'[e].refundable => events[e].refundable \/ event[e].cancels # <<>>
        /\ \A t \in Tickets :
               tickets'[t].refunded => \/ tickets[t].refunded
                                      \/ events[EventOf[t]].refundable
                                      \/ row[t].status = "returned"
        /\ \A e \in Events :
               slashes'[e] > 0 =>
                   \/ slashes[e] > 0
                   \/ \E n \in DOMAIN event[e].cancels : event[e].cancels[n] = "vendor"
<1>0. Cause(k)
  BY DEF TasksHaveCause
<1> USE DEF VaultShape, Vault!EventConfig, Vault!TicketDeposit
<1>1. CASE k[1] = "slash" /\ SlashFor(k[2])
  BY <1>0, <1>1, TaskParts DEF SlashFor, vaultVars, Cause, TypeOK
<1>2. CASE UNCHANGED slashes /\ k[1] = "set_kickoff" /\ Vault!SetKickoff(k[2], event[k[2]].registered)
  BY <1>2, TaskParts DEF Vault!SetKickoff
<1>3. CASE UNCHANGED slashes /\ k[1] = "set_refundable" /\ Vault!SetRefundable(k[2])
  <2>1. k[2] \in Events /\ event[k[2]].cancels # <<>>
    BY <1>0, <1>3, TaskParts DEF Cause
  <2> QED
    BY <1>3, <2>1 DEF Vault!SetRefundable
<1>4. CASE UNCHANGED slashes /\ k[1] = "deposit" /\ (Vault!Deposit(k[2]) \/ DepositedAlready(k[2]))
  <2>1. k[2] \in Tickets /\ EventOf[k[2]] \in Events
    BY <1>4, TaskParts, VaultAssumption
  <2>2. /\ \A e \in Events : events'[e].refundable = events[e].refundable
        /\ \A t \in Tickets : tickets'[t].refunded = tickets[t].refunded
    <3>1. CASE Vault!Deposit(k[2])
      BY <2>1, <3>1 DEF Vault!Deposit
    <3>2. CASE DepositedAlready(k[2])
      BY <3>2 DEF DepositedAlready, vaultVars
    <3> QED
      BY <1>4, <3>1, <3>2
  <2> QED
    BY <1>4, <2>2
<1>5. CASE UNCHANGED slashes /\ k[1] = "claim_refund" /\ Vault!ClaimRefund(k[2])
  BY <1>5, TaskParts DEF Vault!ClaimRefund
<1>6. CASE UNCHANGED slashes /\ k[1] = "refund_one" /\ Vault!RefundOne(k[2])
  <2>1. /\ k[2] \in Tickets /\ EventOf[k[2]] \in Events
        /\ row[k[2]].status = "returned"
    BY <1>0, <1>6, TaskParts, VaultAssumption DEF Cause
  <2> QED
    BY <1>6, <2>1 DEF Vault!RefundOne
<1> QED
  BY <1>1, <1>2, <1>3, <1>4, <1>5, <1>6 DEF Effect

\* The inductive invariant: the three properties of causes rest on the tasks
\* having theirs.
IInv ==
    /\ TypeOK
    /\ VaultShape
    /\ KnownKickoffs
    /\ TasksHaveCause
    /\ RefundableIsCancelled
    /\ SlashedByVendorCancel
    /\ CreditedIsVoid
    /\ RefundHasCause

LEMMA InvInit == Init => IInv
<1> SUFFICES ASSUME Init PROVE IInv
  OBVIOUS
<1>1. TypeOK /\ VaultShape
  BY TypeInit
<1>2. KnownKickoffs /\ TasksHaveCause
  BY DEF Init, KnownKickoffs, Exists, TasksHaveCause, Sent
<1>3. RefundableIsCancelled /\ SlashedByVendorCancel /\ CreditedIsVoid /\ RefundHasCause
  BY DEF Init, Vault!Init, RefundableIsCancelled, SlashedByVendorCancel,
         CreditedIsVoid, RefundHasCause
<1> QED
  BY <1>1, <1>2, <1>3 DEF IInv

LEMMA InvStep == IInv /\ [Next]_vars => IInv'
<1> SUFFICES ASSUME IInv, [Next]_vars PROVE IInv'
  OBVIOUS
<1> USE DEF IInv
<1>1. TypeOK' /\ VaultShape'
  BY TypeStep, ShapeStep
<1>2. KnownKickoffs' /\ TasksHaveCause'
  BY CauseStep
<1>3. CreditedIsVoid'
  BY TicketStep DEF CreditedIsVoid
<1>4. /\ \A e \in Events :
             events'[e].refundable => events[e].refundable \/ event[e].cancels # <<>>
      /\ \A t \in Tickets :
             tickets'[t].refunded => \/ tickets[t].refunded
                                    \/ events[EventOf[t]].refundable
                                    \/ row[t].status = "returned"
      /\ \A e \in Events :
             slashes'[e] > 0 =>
                 \/ slashes[e] > 0
                 \/ \E n \in DOMAIN event[e].cancels : event[e].cancels[n] = "vendor"
  <2>1. ASSUME NEW k \in Tasks, task[k] = "queued" \/ k \in late PROVE Sent(k)
    BY <2>1 DEF TasksHaveCause, Sent
  <2>2. UNCHANGED slashes \/ \E k \in Tasks : (task[k] = "queued" \/ k \in late) /\ Effect(k)
    BY DEF Next, vars, taskVars, CreateEvent, ApproveEvent, PauseEvent, PostponeEvent,
           CancelEvent, CancelWith, CompleteEvent, CheckPurchase, BuyTicket, VoidTicket,
           CheckOptOut, OptOut, Notify, Execute, RetryTask, GiveUp, ExecuteLate,
           Activate, Redeliver, Abort, VendorClaims, TimePasses
  <2>3. CASE \E k \in Tasks : (task[k] = "queued" \/ k \in late) /\ Effect(k)
    BY <2>1, <2>3, EffectCauses
  <2>4. CASE UNCHANGED slashes /\ \E e \in Events : Vault!ClaimPayout(e)
    BY <2>4 DEF Vault!ClaimPayout, VaultShape, Vault!EventConfig
  <2>5. CASE UNCHANGED slashes /\ Vault!Tick
    BY <2>5 DEF Vault!Tick
  <2>6. CASE UNCHANGED slashes /\ UNCHANGED vaultVars
    BY <2>6 DEF vaultVars
  <2> QED
    BY <2>2, <2>3, <2>4, <2>5, <2>6, VaultMoves
<1>5. \A e \in Events : event[e].cancels # <<>> => event'[e].cancels # <<>>
  <2> SUFFICES ASSUME NEW e \in Events, event[e].cancels # <<>>
               PROVE  event'[e].cancels # <<>>
    OBVIOUS
  <2>1. event[e].cancels \in Seq({"vendor", "admin"})
    BY DEF TypeOK, EventRow
  <2>2. 1 \in DOMAIN event[e].cancels
    BY <2>1
  <2> QED
    BY <2>2, EventStep
<1>6. RefundableIsCancelled'
  BY <1>4, <1>5 DEF RefundableIsCancelled
<1>7. SlashedByVendorCancel'
  BY <1>4, EventStep DEF SlashedByVendorCancel
<1>8. RefundHasCause'
  <2>1. \A t \in Tickets : EventOf[t] \in Events
    BY VaultAssumption
  <2> QED
    BY <1>4, <1>5, <2>1, TicketStep DEF RefundHasCause, RefundableIsCancelled
<1> QED
  BY <1>1, <1>2, <1>3, <1>6, <1>7, <1>8

-----------------------------------------------------------------------------
(* Theorems. *)

THEOREM SpecInv == Spec => []IInv
<1>1. Init => IInv
  BY InvInit
<1>2. IInv /\ [Next]_vars => IInv'
  BY InvStep
<1> QED
  BY <1>1, <1>2, PTL DEF Spec

\* However tasks are retried, reordered, redelivered and lost, what they do to
\* the contract is a behaviour of PayoutVault.
THEOREM VaultImplemented == Spec => ImplementsVault
<1>1. Init => Vault!Init
  BY DEF Init
<1>2. IInv /\ [Next]_vars => [Vault!Next]_(Vault!vars)
  <2> SUFFICES ASSUME IInv, [Next]_vars PROVE [Vault!Next]_vaultVars
    BY DEF vaultVars, Vault!vars
  <2>1. ASSUME NEW k \in Tasks, task[k] = "queued" \/ k \in late, Effect(k)
        PROVE  [Vault!Next]_vaultVars
    <3>1. Cause(k)
      BY <2>1 DEF IInv, TasksHaveCause, Sent
    <3> QED
      BY <2>1, <3>1, EffectIsVaultStep DEF IInv, TypeOK, Cause
  <2>2. (\E e \in Events : Vault!ClaimPayout(e)) => Vault!Next
    BY DEF Vault!Next
  <2>3. Vault!Tick => Vault!Next
    BY DEF Vault!Next
  <2> QED
    BY <2>1, <2>2, <2>3, VaultMoves
<1> QED
  BY <1>1, <1>2, SpecInv, PTL DEF Spec, ImplementsVault, Vault!Spec

\* Every variable of Django and of the queue keeps its type.
THEOREM TypeCorrect == Spec => []TypeOK
  BY SpecInv, PTL DEF IInv

\* The vault unlocks refunds only for an event that was cancelled.
THEOREM RefundsUnlockedByCancel == Spec => []RefundableIsCancelled
  BY SpecInv, PTL DEF IInv

\* Only a vendor's own cancellation slashes the vendor.
THEOREM VendorSlashedByOwnCancel == Spec => []SlashedByVendorCancel
  BY SpecInv, PTL DEF IInv

\* A ticket whose price was credited never becomes valid again.
THEOREM CreditedTicketIsVoid == Spec => []CreditedIsVoid
  BY SpecInv, PTL DEF IInv

\* The vault pays back tickets of cancelled events and tickets that opted out.
THEOREM RefundsHaveCause == Spec => []RefundHasCause
  BY SpecInv, PTL DEF IInv

\* An event that stopped selling never sells again.
THEOREM NeverSellsAgain == Spec => NeverActiveAgain
<1>1. IInv /\ [Next]_vars =>
          [\A e \in Events : event'[e].status = "active"
               => event[e].status \in {"none", "under_review", "active"}]_vars
  <2> SUFFICES ASSUME IInv, [Next]_vars, NEW e \in Events, event'[e].status = "active"
               PROVE  event[e].status \in {"none", "under_review", "active"}
    OBVIOUS
  <2> USE DEF IInv, TypeOK, EventRow
  <2>1. ASSUME NEW d \in Events, NEW k \in Kickoffs, NEW tier, CreateEvent(d, k, tier)
        PROVE  event[e].status \in {"none", "under_review", "active"}
    BY <2>1 DEF CreateEvent, Exists
  <2>2. ASSUME NEW d \in Events, ApproveEvent(d)
        PROVE  event[e].status \in {"none", "under_review", "active"}
    BY <2>2 DEF ApproveEvent
  <2>3. ASSUME NEW d \in Events, NEW status \in {"paused", "postponed", "cancelled", "completed"},
               event'[d].status = status, \A c \in Events \ {d} : event'[c] = event[c]
        PROVE  event[e].status \in {"none", "under_review", "active"}
    BY <2>3
  <2>4. CASE UNCHANGED event
    BY <2>4
  <2>5. ASSUME NEW d \in Events,
               \/ PauseEvent(d) \/ CompleteEvent(d)
               \/ \E k \in Kickoffs : PostponeEvent(d, k)
               \/ \E by \in {"vendor", "admin"} : CancelEvent(d, by)
        PROVE  event[e].status \in {"none", "under_review", "active"}
    <3>1. \E status \in {"paused", "postponed", "cancelled", "completed"} :
              event'[d].status = status
      BY <2>5 DEF PauseEvent, CompleteEvent, PostponeEvent, CancelEvent, CancelWith
    <3>2. \A c \in Events \ {d} : event'[c] = event[c]
      BY <2>5 DEF PauseEvent, CompleteEvent, PostponeEvent, CancelEvent, CancelWith
    <3> QED
      BY <2>3, <3>1, <3>2
  <2>6. \/ \E d \in Events :
               \/ \E k \in Kickoffs, tier \in {"small", "big"} : CreateEvent(d, k, tier)
               \/ ApproveEvent(d) \/ PauseEvent(d) \/ CompleteEvent(d)
               \/ \E k \in Kickoffs : PostponeEvent(d, k)
               \/ \E by \in {"vendor", "admin"} : CancelEvent(d, by)
        \/ UNCHANGED event
    BY DEF Next, vars, rowVars, taskVars, CheckPurchase, BuyTicket, VoidTicket, CheckOptOut,
           OptOut, Notify, Execute, RetryTask, GiveUp, ExecuteLate, Activate, Redeliver,
           Abort, VendorClaims, TimePasses
  <2> QED
    BY <2>1, <2>2, <2>4, <2>5, <2>6
<1> QED
  BY <1>1, SpecInv, PTL DEF Spec, NeverActiveAgain

-----------------------------------------------------------------------------
(* Postponements. *)

\* Unless it was postponed, an event has the kickoff that the vault was given, or
\* will be; the vault is given none before the event exists.
KickoffAgrees ==
    \A e \in Events :
        /\ event[e].deadline = 0 =>
               /\ event[e].registered \in {0, event[e].kickoff}
               /\ events[e].kickoff \in {0, event[e].kickoff}
        /\ ~Exists(e) => events[e].kickoff = 0

\* Only fans of a postponed event opt out.
OptOutsFollowPostponement ==
    /\ \A t \in Tickets : row[t].status = "returned" => event[EventOf[t]].deadline # 0
    /\ \A r \in Requests :
           optOut[r].pc # "start" => event[EventOf[optOut[r].ticket]].deadline # 0

PostponementInv == now > 0 /\ KickoffAgrees /\ OptOutsFollowPostponement

\* The vault's clock runs on, and the kickoff it has is the one Django registered.
LEMMA VaultKickoffStep ==
    ASSUME IInv, [Next]_vars
    PROVE  /\ now' >= now
           /\ \A e \in Events :
                 \/ events'[e].kickoff = events[e].kickoff
                 \/ /\ Exists(e) /\ UNCHANGED event
                    /\ events'[e].kickoff = event[e].registered
<1> DEFINE Goal == /\ now' >= now
                   /\ \A e \in Events :
                         \/ events'[e].kickoff = events[e].kickoff
                         \/ /\ Exists(e) /\ UNCHANGED event
                            /\ events'[e].kickoff = event[e].registered
<1> USE DEF IInv, VaultShape, Vault!EventConfig
<1>1. ASSUME NEW k \in Tasks, Execute(k) \/ ExecuteLate(k) PROVE Goal
  <2>1. Effect(k) /\ Cause(k) /\ UNCHANGED event
    BY <1>1 DEF Execute, ExecuteLate, TasksHaveCause, Sent, rowVars
  <2>2. now' = now
    BY <2>1, EffectShape
  <2>3. CASE k[1] = "set_kickoff" /\ Vault!SetKickoff(k[2], event[k[2]].registered)
    <3>1. Exists(k[2]) /\ k[2] \in Events
      BY <2>1, <2>3, TaskParts DEF Cause
    <3> QED
      BY <2>1, <2>2, <2>3, <3>1 DEF Vault!SetKickoff
  <2>4. CASE k[1] # "set_kickoff"
    <3>1. k[1] = "deposit" \/ k[1] = "refund_one" => EventOf[k[2]] \in Events
      BY TaskParts, VaultAssumption
    <3>2. \A e \in Events : events'[e].kickoff = events[e].kickoff
      BY <2>1, <2>4, <3>1, TaskParts DEF Effect, SlashFor, vaultVars, DepositedAlready,
         Vault!SetRefundable, Vault!Deposit, Vault!ClaimRefund, Vault!RefundOne
    <3> QED
      BY <2>2, <3>2
  <2> QED
    BY <2>1, <2>3, <2>4 DEF Effect
<1>2. ASSUME NEW e \in Events, VendorClaims(e) PROVE Goal
  BY <1>2 DEF VendorClaims, Vault!ClaimPayout
<1>3. CASE TimePasses
  BY <1>3 DEF TimePasses, Vault!Tick
<1>4. CASE UNCHANGED vaultVars
  BY <1>4 DEF vaultVars
<1>5. \/ \E k \in Tasks : Execute(k) \/ ExecuteLate(k)
      \/ \E e \in Events : VendorClaims(e)
      \/ TimePasses
      \/ UNCHANGED vaultVars
  BY DEF Next, vars, CreateEvent, ApproveEvent, PauseEvent, PostponeEvent, CancelEvent,
         CancelWith, CompleteEvent, CheckPurchase, BuyTicket, VoidTicket, CheckOptOut,
         OptOut, Notify, RetryTask, GiveUp, Activate, Redeliver, Abort
<1> QED
  BY <1>1, <1>2, <1>3, <1>4, <1>5

\* An event that was postponed has been so for good; until then its kickoff stays
\* as it was created, and it is what is registered.
LEMMA DateStep ==
    ASSUME IInv, now > 0, [Next]_vars, NEW e \in Events, event'[e].deadline = 0
    PROVE  /\ event[e].deadline = 0
           /\ Exists(e) => Exists(e)' /\ event'[e].kickoff = event[e].kickoff
           /\ event[e].registered \in {0, event[e].kickoff}
                  => event'[e].registered \in {0, event'[e].kickoff}
<1> DEFINE Goal ==
        /\ event[e].deadline = 0
        /\ Exists(e) => Exists(e)' /\ event'[e].kickoff = event[e].kickoff
        /\ event[e].registered \in {0, event[e].kickoff}
               => event'[e].registered \in {0, event'[e].kickoff}
<1> USE DEF IInv, TypeOK, EventRow, Exists
<1>1. ASSUME NEW d \in Events, NEW k \in Kickoffs, NEW tier, CreateEvent(d, k, tier)
      PROVE  Goal
  <2>1. CASE d = e
    <3>1. /\ event[e].status = "none" /\ event'[e].deadline = event[e].deadline
          /\ event'[e].kickoff = k /\ event'[e].registered \in {0, k}
      BY <1>1, <2>1 DEF CreateEvent
    <3> QED
      BY <3>1
  <2>2. CASE d # e
    BY <1>1, <2>2 DEF CreateEvent
  <2> QED
    BY <2>1, <2>2
<1>2. ASSUME NEW d \in Events, ApproveEvent(d) PROVE Goal
  <2>1. CASE d = e
    <3>1. /\ event'[e].status = "active" /\ event'[e].deadline = event[e].deadline
          /\ event'[e].kickoff = event[e].kickoff
          /\ event'[e].registered = event[e].kickoff
      BY <1>2, <2>1 DEF ApproveEvent
    <3> QED
      BY <3>1
  <2>2. CASE d # e
    BY <1>2, <2>2 DEF ApproveEvent
  <2> QED
    BY <2>1, <2>2
<1>3. ASSUME NEW d \in Events,
             \/ PauseEvent(d) \/ CompleteEvent(d)
             \/ \E by \in {"vendor", "admin"} : CancelEvent(d, by)
      PROVE  Goal
  <2>1. /\ event'[e].deadline = event[e].deadline
        /\ event'[e].kickoff = event[e].kickoff
        /\ event'[e].registered = event[e].registered
    <3>1. CASE PauseEvent(d) \/ CompleteEvent(d)
      <4>1. PICK status \in {"paused", "completed"} :
                event' = [event EXCEPT ![d].status = status]
        BY <3>1 DEF PauseEvent, CompleteEvent
      <4> QED
        BY <4>1
    <3>2. CASE \E by \in {"vendor", "admin"} : CancelEvent(d, by)
      <4>1. PICK by \in {"vendor", "admin"} :
                event' = [event EXCEPT ![d].status = "cancelled", ![d].cancels = Append(@, by)]
        BY <3>2 DEF CancelEvent, CancelWith
      <4> QED
        BY <4>1
    <3> QED
      BY <1>3, <3>1, <3>2
  <2>2. Exists(e) => Exists(e)'
    BY EventStep
  <2> QED
    BY <2>1, <2>2
<1>4. ASSUME NEW d \in Events, NEW k \in Kickoffs, PostponeEvent(d, k) PROVE Goal
  <2>1. d # e
    <3>1. now + OptOutWindow # 0 /\ now \in Nat
      BY LifecycleAssumption DEF VaultShape
    <3> QED
      BY <1>4, <3>1 DEF PostponeEvent
  <2> QED
    BY <1>4, <2>1 DEF PostponeEvent
<1>5. CASE UNCHANGED event
  BY <1>5
<1>6. \/ \E d \in Events :
             \/ \E k \in Kickoffs, tier \in {"small", "big"} : CreateEvent(d, k, tier)
             \/ ApproveEvent(d) \/ PauseEvent(d) \/ CompleteEvent(d)
             \/ \E k \in Kickoffs : PostponeEvent(d, k)
             \/ \E by \in {"vendor", "admin"} : CancelEvent(d, by)
      \/ UNCHANGED event
  BY DEF Next, vars, rowVars, taskVars, CheckPurchase, BuyTicket, VoidTicket, CheckOptOut,
         OptOut, Notify, Execute, RetryTask, GiveUp, ExecuteLate, Activate, Redeliver,
         Abort, VendorClaims, TimePasses
<1> QED
  BY <1>1, <1>2, <1>3, <1>4, <1>5, <1>6

\* Until an event is postponed, its kickoff is the one registered with the vault.
LEMMA KickoffAgreesStep ==
    ASSUME IInv, now > 0, KickoffAgrees, [Next]_vars
    PROVE  KickoffAgrees'
<1> SUFFICES ASSUME NEW e \in Events
             PROVE  /\ event'[e].deadline = 0 =>
                           /\ event'[e].registered \in {0, event'[e].kickoff}
                           /\ events'[e].kickoff \in {0, event'[e].kickoff}
                    /\ ~Exists(e)' => events'[e].kickoff = 0
  BY DEF KickoffAgrees, Exists
<1>1. Exists(e) => Exists(e)'
  BY EventStep DEF IInv
<1>2. CASE events'[e].kickoff = events[e].kickoff
  BY <1>1, <1>2, DateStep DEF KickoffAgrees
<1>3. CASE /\ Exists(e) /\ UNCHANGED event
           /\ events'[e].kickoff = event[e].registered
  BY <1>1, <1>3 DEF KickoffAgrees
<1> QED
  BY <1>2, <1>3, VaultKickoffStep

\* An opt-out is checked against the deadline of a postponed event.
LEMMA OptOutsStep ==
    ASSUME IInv, now > 0, OptOutsFollowPostponement, [Next]_vars
    PROVE  OptOutsFollowPostponement'
<1> USE DEF IInv, TypeOK, TicketRow, OptOutState, SetStatus
<1>1. \A e \in Events : event[e].deadline # 0 => event'[e].deadline # 0
  BY DateStep
<1>2. \A t \in Tickets : EventOf[t] \in Events
  BY VaultAssumption
<1>3. ASSUME NEW r \in Requests
      PROVE  /\ optOut'[r].ticket = optOut[r].ticket
             /\ optOut'[r].pc # "start" =>
                    \/ optOut[r].pc # "start"
                    \/ event[EventOf[optOut[r].ticket]].deadline # 0
  <2>1. CASE \E q \in Requests : CheckOptOut(q)
    BY <1>2, <2>1 DEF CheckOptOut, VaultShape, EventRow
  <2>2. CASE \E q \in Requests : OptOut(q)
    BY <2>2 DEF OptOut
  <2>3. CASE UNCHANGED optOut
    BY <2>3
  <2>4. (\E q \in Requests : CheckOptOut(q) \/ OptOut(q)) \/ UNCHANGED optOut
    BY DEF Next, vars, rowVars, taskVars, CreateEvent, ApproveEvent, PauseEvent,
           PostponeEvent, CancelEvent, CancelWith, CompleteEvent, CheckPurchase, BuyTicket,
           VoidTicket, Notify, Execute, RetryTask, GiveUp, ExecuteLate, Activate,
           Redeliver, Abort, VendorClaims, TimePasses
  <2> QED
    BY <2>1, <2>2, <2>3, <2>4
<1>4. ASSUME NEW t \in Tickets, row'[t].status = "returned"
      PROVE  \/ row[t].status = "returned"
             \/ \E r \in Requests : optOut[r].ticket = t /\ optOut[r].pc # "start"
  <2>1. ASSUME NEW u \in Tickets, CheckPurchase(u) \/ BuyTicket(u) \/ VoidTicket(u) \/ Activate(u)
        PROVE  row[t].status = "returned"
    <3>1. CASE CheckPurchase(u)
      BY <1>4, <3>1 DEF CheckPurchase
    <3>2. CASE BuyTicket(u)
      BY <1>4, <3>2 DEF BuyTicket
    <3>3. CASE VoidTicket(u)
      BY <1>4, <3>3 DEF VoidTicket
    <3>4. CASE Activate(u)
      BY <1>4, <3>4 DEF Activate
    <3> QED
      BY <2>1, <3>1, <3>2, <3>3, <3>4
  <2>2. ASSUME NEW r \in Requests, OptOut(r)
        PROVE  row[t].status = "returned" \/ (optOut[r].ticket = t /\ optOut[r].pc # "start")
    BY <1>4, <2>2 DEF OptOut
  <2>3. ASSUME NEW k \in Tasks, GiveUp(k) PROVE row[t].status = "returned"
    BY <1>4, <2>3, TaskParts DEF GiveUp
  <2>4. CASE UNCHANGED row
    BY <1>4, <2>4
  <2>5. \/ \E u \in Tickets : CheckPurchase(u) \/ BuyTicket(u) \/ VoidTicket(u) \/ Activate(u)
        \/ \E r \in Requests : OptOut(r)
        \/ \E k \in Tasks : GiveUp(k)
        \/ UNCHANGED row
    BY DEF Next, vars, rowVars, taskVars, CreateEvent, ApproveEvent, PauseEvent,
           PostponeEvent, CancelEvent, CancelWith, CompleteEvent, CheckOptOut, Notify,
           Execute, RetryTask, ExecuteLate, Redeliver, Abort, VendorClaims, TimePasses
  <2> QED
    BY <2>1, <2>2, <2>3, <2>4, <2>5
<1> QED
  BY <1>1, <1>2, <1>3, <1>4 DEF OptOutsFollowPostponement

\* Only a payout marks an event as paid out.
LEMMA ClaimedOnlyByVendor ==
    ASSUME TypeOK, VaultShape, [Next]_vars, NEW e \in Events,
           ~events[e].payoutClaimed, events'[e].payoutClaimed
    PROVE  Vault!ClaimPayout(e)
<1> USE DEF VaultShape, Vault!EventConfig
<1>1. ASSUME NEW k \in Tasks, Effect(k) PROVE events'[e].payoutClaimed = events[e].payoutClaimed
  <2>1. CASE (k[1] = "slash" /\ SlashFor(k[2])) \/ (k[1] = "deposit" /\ DepositedAlready(k[2]))
    BY <2>1 DEF SlashFor, DepositedAlready, vaultVars
  <2>2. CASE k[1] = "set_kickoff" /\ Vault!SetKickoff(k[2], event[k[2]].registered)
    BY <2>2, TaskParts DEF Vault!SetKickoff
  <2>3. CASE k[1] = "set_refundable" /\ Vault!SetRefundable(k[2])
    BY <2>3, TaskParts DEF Vault!SetRefundable
  <2>4. CASE k[1] = "deposit" /\ Vault!Deposit(k[2])
    <3>1. EventOf[k[2]] \in Events
      BY <2>4, TaskParts, VaultAssumption
    <3> QED
      BY <2>4, <3>1 DEF Vault!Deposit
  <2>5. CASE k[1] = "claim_refund" /\ Vault!ClaimRefund(k[2])
    BY <2>5 DEF Vault!ClaimRefund
  <2>6. CASE k[1] = "refund_one" /\ Vault!RefundOne(k[2])
    <3>1. EventOf[k[2]] \in Events
      BY <2>6, TaskParts, VaultAssumption
    <3> QED
      BY <2>6, <3>1 DEF Vault!RefundOne
  <2> QED
    BY <1>1, <2>1, <2>2, <2>3, <2>4, <2>5, <2>6 DEF Effect
<1>2. ASSUME NEW d \in Events, Vault!ClaimPayout(d) PROVE Vault!ClaimPayout(e)
  BY <1>2 DEF Vault!ClaimPayout
<1>3. CASE Vault!Tick \/ UNCHANGED vaultVars
  BY <1>3 DEF Vault!Tick, vaultVars
<1> QED
  BY <1>1, <1>2, <1>3, VaultMoves

\* The clock starts at 1, and no step disturbs the agreement.
LEMMA PostponementInvariant == Spec => []PostponementInv
<1>1. Init => PostponementInv
  BY DEF Init, Vault!Init, PostponementInv, KickoffAgrees, OptOutsFollowPostponement
<1>2. IInv /\ PostponementInv /\ [Next]_vars => PostponementInv'
  <2> SUFFICES ASSUME IInv, PostponementInv, [Next]_vars PROVE PostponementInv'
    OBVIOUS
  <2>1. now \in Nat /\ now > 0 /\ now' \in Nat /\ now' >= now
    BY VaultKickoffStep, ShapeStep DEF PostponementInv, IInv, VaultShape
  <2>2. KickoffAgrees' /\ OptOutsFollowPostponement'
    BY KickoffAgreesStep, OptOutsStep DEF PostponementInv
  <2> QED
    BY <2>1, <2>2 DEF PostponementInv
<1> QED
  BY <1>1, <1>2, SpecInv, PTL DEF Spec

\* "Until T+48h after event kickoff": a vendor is paid earlier than that after the
\* kickoff that Django has for the event only if the event was postponed.
THEOREM HeldUntilPayoutTime == Spec => HeldUnlessPostponed
<1>1. IInv /\ PostponementInv /\ [Next]_vars =>
          [\A e \in Events :
             (events'[e].payoutClaimed /\ ~events[e].payoutClaimed /\ event[e].deadline = 0)
                 => now >= event[e].kickoff + PayoutDelay]_vars
  <2> SUFFICES ASSUME IInv, PostponementInv, [Next]_vars, NEW e \in Events,
                      events'[e].payoutClaimed, ~events[e].payoutClaimed,
                      event[e].deadline = 0
               PROVE  now >= event[e].kickoff + PayoutDelay
    OBVIOUS
  <2>1. Vault!ClaimPayout(e)
    BY ClaimedOnlyByVendor DEF IInv
  <2>2. events[e].kickoff = event[e].kickoff
    BY <2>1 DEF Vault!ClaimPayout, PostponementInv, KickoffAgrees
  <2> QED
    BY <2>1, <2>2 DEF Vault!ClaimPayout
<1> QED
  BY <1>1, PostponementInvariant, SpecInv, PTL DEF Spec, HeldUnlessPostponed

-----------------------------------------------------------------------------
(* What the vault guarantees, in the composition.  VP is the vault's own     *)
(* module of proofs, at the state of the composition: its theorems hold of   *)
(* every behaviour of the vault, and so of what the tasks do to it.          *)

VP == INSTANCE PayoutVaultProofs

\* The two instances of the vault are one.
LEMMA OneVault ==
    /\ Vault!Init => VP!Init
    /\ [Vault!Next]_(Vault!vars) => [VP!Next]_(VP!vars)
<1>1. Vault!Init => VP!Init
  BY DEF Vault!Init, VP!Init
<1>2. Vault!vars = VP!vars
  BY DEF Vault!vars, VP!vars
<1>3. \A e \in Events, k \in Kickoffs : Vault!SetKickoff(e, k) => VP!SetKickoff(e, k)
  BY DEF Vault!SetKickoff, VP!SetKickoff
<1>4. \A e \in Events : Vault!SetRefundable(e) => VP!SetRefundable(e)
  BY DEF Vault!SetRefundable, VP!SetRefundable
<1>5. \A t \in Tickets : Vault!Deposit(t) => VP!Deposit(t)
  BY DEF Vault!Deposit, VP!Deposit
<1>6. \A t \in Tickets : Vault!Refundable(t) <=> VP!Refundable(t)
  BY DEF Vault!Refundable, VP!Refundable
<1>7. \A x, y : Vault!Deduct(x, y) = VP!Deduct(x, y)
  BY DEF Vault!Deduct, VP!Deduct
<1>8. \A x : Vault!Send(x) <=> VP!Send(x)
  BY DEF Vault!Send, VP!Send
<1>9. \A t \in Tickets : Vault!MarkReturned(t) => VP!MarkReturned(t)
  BY <1>6, <1>7, <1>8 DEF Vault!MarkReturned, VP!MarkReturned
<1>10. \A t \in Tickets : Vault!RefundOne(t) => VP!RefundOne(t)
  BY <1>6, <1>7, <1>8 DEF Vault!RefundOne, VP!RefundOne
<1>11. \A t \in Tickets : Vault!ClaimRefund(t) => VP!ClaimRefund(t)
  BY <1>6, <1>8 DEF Vault!ClaimRefund, VP!ClaimRefund
<1>12. \A e \in Events : Vault!ClaimPayout(e) => VP!ClaimPayout(e)
  BY <1>8 DEF Vault!ClaimPayout, VP!ClaimPayout, Vault!BookingFee, VP!BookingFee,
              Vault!VendorNet, VP!VendorNet
<1>13. \A a \in Treasuries : Vault!SetTreasury(a) => VP!SetTreasury(a)
  BY DEF Vault!SetTreasury, VP!SetTreasury
<1>14. (Vault!SetBuybackPool => VP!SetBuybackPool) /\ (Vault!Tick => VP!Tick)
  BY DEF Vault!SetBuybackPool, VP!SetBuybackPool, Vault!Tick, VP!Tick
<1>15. Vault!Next => VP!Next
  BY <1>3, <1>4, <1>5, <1>9, <1>10, <1>11, <1>12, <1>13, <1>14 DEF Vault!Next, VP!Next
<1> QED
  BY <1>1, <1>15 DEF Vault!vars, VP!vars

\* Whatever is a behaviour of the composition is one of the vault that the vault's
\* theorems are about.
THEOREM VaultTheoremsApply == Spec => VP!Spec
<1>1. Vault!Spec => VP!Spec
  BY OneVault, PTL DEF Vault!Spec, VP!Spec
<1> QED
  BY <1>1, VaultImplemented, PTL DEF ImplementsVault

\* What the vault's theorems assume of its constants, in the words of their module.
LEMMA VaultAssumptionApplies ==
    VP!IsFiniteSet(Events) /\ VP!IsFiniteSet(Tickets) /\ VP!IsFiniteSet(Treasuries)
  BY VaultAssumption DEF VP!IsFiniteSet, IsFiniteSet

\* The accounts of the vault are in order whatever Django's tasks do: each deposit
\* is counted once, the vendor's claim is what is held for the event, no money
\* leaves twice, and nothing is paid that was not deposited.
THEOREM VaultAccountsHold ==
    Spec => [](/\ VP!DepositsCountedOnce /\ VP!ClaimableIsHeld
               /\ VP!BalanceAccounting /\ VP!WithinDeposits)
<1>1. VP!Spec => [](/\ VP!DepositsCountedOnce /\ VP!ClaimableIsHeld
                    /\ VP!BalanceAccounting /\ VP!WithinDeposits)
  <2>1. VP!Spec => []VP!DepositsCountedOnce
    BY VP!DepositsAreCountedOnce, VaultAssumption, VaultAssumptionApplies
  <2>2. VP!Spec => []VP!ClaimableIsHeld
    BY VP!ClaimCoversHeld, VaultAssumption, VaultAssumptionApplies
  <2>3. VP!Spec => []VP!BalanceAccounting
    BY VP!BalanceAccounted, VaultAssumption, VaultAssumptionApplies
  <2>4. VP!Spec => []VP!WithinDeposits
    BY VP!PaidWithinDeposits, VaultAssumption, VaultAssumptionApplies
  <2> QED
    BY <2>1, <2>2, <2>3, <2>4, PTL
<1> QED
  BY <1>1, VaultTheoremsApply, PTL

\* So is what they hold.
LEMMA OneHeld ==
    /\ VP!Held = Vault!Held
    /\ \A S, f : VP!Total(S, f) = Vault!Total(S, f)
    /\ \A e \in Events : /\ VP!TicketsOf(e) = Vault!TicketsOf(e)
                         /\ VP!HeldFor(e) = Vault!HeldFor(e)
<1>1. VP!Held = Vault!Held
  BY DEF VP!Held, Vault!Held, VP!Refundable, Vault!Refundable
<1>2. \A S : VP!Cardinality(S) = Vault!Cardinality(S)
  BY DEF VP!Cardinality, Vault!Cardinality
<1>3. \A S, f : VP!Units(S, f) = Vault!Units(S, f)
  BY DEF VP!Units, Vault!Units
<1>4. \A S, f : VP!Total(S, f) = Vault!Total(S, f)
  BY <1>2, <1>3 DEF VP!Total, Vault!Total
<1>5. \A e \in Events : VP!TicketsOf(e) = Vault!TicketsOf(e)
  BY DEF VP!TicketsOf, Vault!TicketsOf
<1> QED
  BY <1>1, <1>4, <1>5 DEF VP!HeldFor, Vault!HeldFor

\* The vendor has more than is held for the event only if the event was called off
\* or moved, or a ticket was bought back.
THEOREM OverdraftsHaveCause == Spec => []OverdrawnHasCause
<1>1. VP!Spec => []VP!OverdrawnLostTicket
  BY VP!OverdrawnByLostTicket, VaultAssumption, VaultAssumptionApplies
<1>2. VP!OverdrawnLostTicket /\ IInv /\ PostponementInv => OverdrawnHasCause
  <2> SUFFICES ASSUME VP!OverdrawnLostTicket, IInv, PostponementInv, NEW e \in Events,
                      paid[e] > Vault!HeldFor(e),
                      \A t \in Vault!TicketsOf(e) : ~tickets[t].returned
               PROVE  event[e].cancels # <<>> \/ event[e].deadline # 0
    BY DEF OverdrawnHasCause
  <2>1. PICK t \in Vault!TicketsOf(e) : tickets[t].refunded
    BY OneHeld DEF VP!OverdrawnLostTicket
  <2>2. t \in Tickets /\ EventOf[t] = e
    BY DEF Vault!TicketsOf
  <2> QED
    BY <2>1, <2>2 DEF IInv, RefundHasCause, PostponementInv, OptOutsFollowPostponement
<1> QED
  BY <1>1, <1>2, VaultTheoremsApply, SpecInv, PostponementInvariant, PTL

\* The events whose payout may have cost others their money.
CalledOff(e) ==
    \/ event[e].cancels # <<>>
    \/ event[e].deadline # 0
    \/ \E t \in Vault!TicketsOf(e) : tickets[t].returned

\* The vault can pay all that it holds for events not paid out, refund or payout,
\* as long as no event that was paid out was called off.
SolventUnlessCalledOff ==
    (\A e \in Events : events[e].payoutClaimed => ~CalledOff(e)) =>
        balance >= Vault!Total({t \in Tickets : ~events[EventOf[t]].payoutClaimed}, Vault!Held)

\* No payout, refund or deposit, in whatever order the tasks make them, leaves the
\* vault short of what it owes for the other events.
THEOREM SystemIsSolvent == Spec => []SolventUnlessCalledOff
<1>1. VP!Spec => []VP!SolventUnlessOverdrawn
  BY VP!Solvent, VaultAssumption, VaultAssumptionApplies
<1>2. VP!Spec => []VP!UnpaidTookNothing
  BY VP!UnpaidTakesNothing, VaultAssumption, VaultAssumptionApplies
<1>3. VP!TypeOK /\ VP!SolventUnlessOverdrawn /\ VP!UnpaidTookNothing /\ OverdrawnHasCause
        => SolventUnlessCalledOff
  <2> SUFFICES ASSUME VP!TypeOK, VP!SolventUnlessOverdrawn,
                      VP!UnpaidTookNothing, OverdrawnHasCause,
                      \A e \in Events : events[e].payoutClaimed => ~CalledOff(e)
               PROVE  balance >= Vault!Total({t \in Tickets :
                                                ~events[EventOf[t]].payoutClaimed}, Vault!Held)
    BY DEF SolventUnlessCalledOff
  <2>1. ASSUME NEW e \in Events PROVE paid[e] <= VP!HeldFor(e)
    <3>1. paid[e] \in Nat /\ VP!HeldFor(e) \in Nat
      BY VP!HeldFacts, VaultAssumption, VaultAssumptionApplies DEF VP!TypeOK
    <3>2. CASE events[e].payoutClaimed
      BY <3>1, <3>2, OneHeld DEF OverdrawnHasCause, CalledOff
    <3>3. CASE ~events[e].payoutClaimed
      BY <3>1, <3>3 DEF VP!UnpaidTookNothing
    <3> QED
      BY <3>2, <3>3
  <2> QED
    BY <2>1, OneHeld DEF VP!SolventUnlessOverdrawn
<1>4. VP!Spec => []VP!TypeOK
  BY VP!TypeCorrect, VaultAssumption, VaultAssumptionApplies
<1> QED
  BY <1>1, <1>2, <1>3, <1>4, VaultTheoremsApply, OverdraftsHaveCause, PTL
=============================================================================
