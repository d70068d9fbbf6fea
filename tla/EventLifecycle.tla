---------------------------- MODULE EventLifecycle ----------------------------
(***************************************************************************)
(* The life of events in Django, composed with the PayoutVault contract:   *)
(* creation, approval, pause, postponement with its opt-out, cancellation  *)
(* by vendor or platform, completion, and the Celery tasks that carry each *)
(* decision to the chain.                                                  *)
(*                                                                         *)
(* The vault's transactions are the actions of module PayoutVault.  A task *)
(* is a triple of its kind, its subject and the call that enqueued it.     *)
(* Tasks run concurrently, in any order, are retried and redelivered, and  *)
(* one that gave up on its transaction may still see it executed.  Attempts *)
(* are not counted here: a task retries any number of times or gives up.   *)
(***************************************************************************)
EXTENDS Integers, Sequences, FiniteSets

CONSTANTS
    Events, Tickets, EventOf, Price, Treasuries, Kickoffs, FeeBps, BpsDenom,
    PayoutDelay, MaxTime,       \* of PayoutVault
    WithWallet,     \* events whose vendor has a smart_wallet_address
    OptOutWindow,   \* the 48 hours of an opt-out, in ticks of the modelled clock
    Requests,       \* opt-out requests; each is served once
    MaxCancels,     \* bound on the cancellations of an event
    MaxSlashes,     \* bound on the slashes for an event
    MaxLate         \* bound on the transactions that are late at a time

\* What PayoutVault assumes of its constants.
ASSUME VaultAssumption ==
    /\ IsFiniteSet(Events) /\ IsFiniteSet(Tickets) /\ IsFiniteSet(Treasuries)
    /\ EventOf \in [Tickets -> Events]
    /\ Price \in [Tickets -> Nat \ {0}]
    /\ BpsDenom \in Nat \ {0} /\ FeeBps \in 0..BpsDenom
    /\ Kickoffs \subseteq Nat \ {0} /\ PayoutDelay \in Nat /\ MaxTime \in Nat

ASSUME LifecycleAssumption ==
    /\ WithWallet \subseteq Events
    /\ OptOutWindow \in Nat
    /\ MaxCancels \in Nat /\ MaxSlashes \in Nat /\ MaxLate \in Nat

VARIABLES
    events, tickets, buybackPool, treasury, balance, now, paid, fees, \* the vault
    event,          \* Event rows
    row,            \* Ticket rows
    optOut,         \* opt-out request -> where it is, and its ticket
    notify,         \* queued event_cancelled notifications: event, cancellation
    task,           \* task -> its stage
    late,           \* tasks with a transaction that they no longer wait for
    slashes         \* history: event -> slash() transactions for it

Vault == INSTANCE PayoutVault

vaultVars == <<events, tickets, buybackPool, treasury, balance, now, paid, fees>>
rowVars == <<event, row, optOut>>
taskVars == <<notify, task, late, slashes>>
vars == <<vaultVars, rowVars, taskVars>>

EventStatus == {"none", "under_review", "active", "paused", "postponed",
                "cancelled", "completed"}

Cancels == 1..MaxCancels

\* "cancels" records who cancelled, each time; "registered" is the kickoff
\* passed to setKickoff().
EventRow == [status     : EventStatus,
             kickoff    : Nat,
             registered : Nat,
             deadline   : Nat,      \* postpone_opt_out_deadline
             cancels    : Seq({"vendor", "admin"})]

\* "checked": a purchase of the ticket has seen an active event and not
\* committed yet.  "credits" counts the wallet credits of the ticket's price.
TicketRow == [status  : {"none", "checked", "pending_payment", "active", "failed",
                         "returned"},
              credits : Nat]

OptOutState == [pc : {"start", "checked", "done"}, ticket : Tickets]

Tasks ==
    UNION {{"set_kickoff"} \X Events \X {1},
           {"set_refundable", "slash"} \X Events \X Cancels,
           {"deposit"} \X Tickets \X {1},
           {"claim_refund"} \X Tickets \X Cancels,
           {"refund_one"} \X Tickets \X Requests}

\* "mined": a deposit has succeeded and its worker has done nothing else yet;
\* "over": the task has ended and its message is acknowledged, or about to be.
Stages == {"none", "queued", "mined", "over"}

-----------------------------------------------------------------------------
Init ==
    /\ Vault!Init
    /\ event = [e \in Events |-> [status |-> "none", kickoff |-> 0,
                                  registered |-> 0, deadline |-> 0,
                                  cancels |-> <<>>]]
    /\ row = [t \in Tickets |-> [status |-> "none", credits |-> 0]]
    /\ optOut \in [Requests -> [pc : {"start"}, ticket : Tickets]]
    /\ notify = {}
    /\ task = [k \in Tasks |-> "none"]
    /\ late = {}
    /\ slashes = [e \in Events |-> 0]

Enqueue(S) ==
    task' = [k \in Tasks |-> IF k \in S THEN "queued" ELSE task[k]]

Exists(e) == event[e].status # "none"

-----------------------------------------------------------------------------
(* The web process: one action is one transaction, with what it enqueues. *)

Kickoff(e) == {<<"set_kickoff", k, 1>> : k \in {e} \cap WithWallet}

\* A small vendor's event is active at once, a big vendor's after a review.  The
\* task is enqueued just before the commit: it reads no row, so its message
\* appears with the commit here.
CreateEvent(e, kickoff, tier) ==
    LET small == tier = "small"
    IN  /\ ~Exists(e)
        /\ event' = [event EXCEPT
               ![e].status = IF small THEN "active" ELSE "under_review",
               ![e].kickoff = kickoff,
               ![e].registered = IF small THEN kickoff ELSE 0]
        /\ Enqueue(IF small THEN Kickoff(e) ELSE {})
        /\ UNCHANGED <<vaultVars, row, optOut, notify, late, slashes>>

\* Mutant: any event can be approved.
ApproveAnyEvent(e) ==
    /\ Exists(e)
    /\ event' = [event EXCEPT ![e].status = "active", ![e].registered = event[e].kickoff]
    /\ Enqueue(Kickoff(e))
    /\ UNCHANGED <<vaultVars, row, optOut, notify, late, slashes>>

ApproveEvent(e) ==
    /\ event[e].status = "under_review"
    /\ event' = [event EXCEPT ![e].status = "active", ![e].registered = event[e].kickoff]
    /\ Enqueue(Kickoff(e))
    /\ UNCHANGED <<vaultVars, row, optOut, notify, late, slashes>>

\* An event of any status can be paused, postponed and cancelled.
PauseEvent(e) ==
    /\ Exists(e)
    /\ event' = [event EXCEPT ![e].status = "paused"]
    /\ UNCHANGED <<vaultVars, row, optOut, taskVars>>

\* The new kickoff stays in the database: the vault keeps the first.
PostponeEvent(e, kickoff) ==
    /\ Exists(e)
    /\ event' = [event EXCEPT ![e].status = "postponed", ![e].kickoff = kickoff,
                              ![e].deadline = now + OptOutWindow]
    /\ UNCHANGED <<vaultVars, row, optOut, taskVars>>

\* Marks the event cancelled; the process enqueues after the commit, in order,
\* and may die after any of the calls.
CancelWith(e, by, calls) ==
    LET n == Len(event[e].cancels) + 1
    IN  /\ Exists(e)
        /\ n \in Cancels
        /\ event' = [event EXCEPT ![e].status = "cancelled",
                                  ![e].cancels = Append(@, by)]
        /\ \E done \in 0..Len(calls) :
               LET made == {calls[i] : i \in 1..done}
               IN  /\ Enqueue({<<c, e, n>> : c \in made \ {"notify"}})
                   /\ notify' = IF "notify" \in made THEN notify \cup {<<e, n>>}
                                                     ELSE notify
        /\ UNCHANGED <<vaultVars, row, optOut, late, slashes>>

\* Mutant: the platform's cancellation slashes the vendor as well.
CancelAlwaysSlashes(e, by) ==
    CancelWith(e, by, <<"slash", "set_refundable", "notify">>)

\* Only a vendor who has a wallet is slashed, and only for an own decision:
\* the platform's cancellation enqueues force_majeure, which changes no state.
CancelEvent(e, by) ==
    CancelWith(e, by, IF by = "vendor" /\ e \in WithWallet
                      THEN <<"slash", "set_refundable", "notify">>
                      ELSE <<"set_refundable", "notify">>)

\* The daily task completes an active event 48 hours after its kickoff.
CompleteEvent(e) ==
    /\ event[e].status = "active"
    /\ now > event[e].kickoff + PayoutDelay
    /\ event' = [event EXCEPT ![e].status = "completed"]
    /\ UNCHANGED <<vaultVars, row, optOut, taskVars>>

SetStatus(t, status) == row' = [row EXCEPT ![t].status = status]

\* The purchase sees an active event, and commits later.
CheckPurchase(t) ==
    /\ row[t].status = "none"
    /\ event[EventOf[t]].status = "active"
    /\ SetStatus(t, "checked")
    /\ UNCHANGED <<vaultVars, event, optOut, taskVars>>

BuyTicket(t) ==
    /\ row[t].status = "checked"
    /\ SetStatus(t, "pending_payment")
    /\ \E sent \in SUBSET {<<"deposit", t, 1>>} : Enqueue(sent)
    /\ UNCHANGED <<vaultVars, event, optOut, notify, late, slashes>>

\* void_stale_payments fails the ticket and credits the wallet.
VoidTicket(t) ==
    /\ row[t].status = "pending_payment"
    /\ row' = [row EXCEPT ![t].status = "failed", ![t].credits = @ + 1]
    /\ UNCHANGED <<vaultVars, event, optOut, taskVars>>

\* The checks of an opt-out, made before it locks the ticket.
CheckOptOut(r) ==
    LET t == optOut[r].ticket
    IN  /\ optOut[r].pc = "start"
        /\ event[EventOf[t]].status = "postponed"
        /\ now <= event[EventOf[t]].deadline
        /\ row[t].status = "active"
        /\ optOut' = [optOut EXCEPT ![r].pc = "checked"]
        /\ UNCHANGED <<vaultVars, event, row, taskVars>>

\* Mutant: the ticket stays valid.
OptOutKeepsTicket(r) ==
    LET t == optOut[r].ticket
    IN  /\ optOut[r].pc = "checked"
        /\ optOut' = [optOut EXCEPT ![r].pc = "done"]
        /\ row' = [row EXCEPT ![t].credits = @ + 1]
        /\ \E sent \in SUBSET {<<"refund_one", t, r>>} : Enqueue(sent)
        /\ UNCHANGED <<vaultVars, event, notify, late, slashes>>

\* Its transaction, which checks nothing again.
OptOut(r) ==
    LET t == optOut[r].ticket
    IN  /\ optOut[r].pc = "checked"
        /\ optOut' = [optOut EXCEPT ![r].pc = "done"]
        /\ row' = [row EXCEPT ![t].status = "returned", ![t].credits = @ + 1]
        /\ \E sent \in SUBSET {<<"refund_one", t, r>>} : Enqueue(sent)
        /\ UNCHANGED <<vaultVars, event, notify, late, slashes>>

\* The event_cancelled notification enqueues a claim for each live ticket.  It
\* is acknowledged first: when its worker dies, the other tickets have none.
Notify(e, n) ==
    /\ <<e, n>> \in notify
    /\ notify' = notify \ {<<e, n>>}
    /\ \E S \in SUBSET {t \in Tickets : /\ EventOf[t] = e
                                        /\ row[t].status \in {"active", "pending_payment"}} :
           Enqueue({<<"claim_refund", t, n>> : t \in S})
    /\ UNCHANGED <<vaultVars, rowVars, late, slashes>>

-----------------------------------------------------------------------------
(* The workers and the chain. *)

\* A vendor with a stake can always be slashed.
SlashFor(e) ==
    /\ slashes[e] < MaxSlashes
    /\ slashes' = [slashes EXCEPT ![e] = @ + 1]
    /\ UNCHANGED vaultVars

DepositedAlready(t) == tickets[t].amount # 0 /\ UNCHANGED vaultVars

\* Mutant: a deposit that is sent again is booked again.
EffectBooksTwice(k) ==
    \/ k[1] = "slash" /\ SlashFor(k[2])
    \/ /\ UNCHANGED slashes
       /\ \/ k[1] = "set_kickoff" /\ Vault!SetKickoff(k[2], event[k[2]].registered)
          \/ k[1] = "set_refundable" /\ Vault!SetRefundable(k[2])
          \/ k[1] = "deposit" /\ Vault!DepositTwice(k[2])
          \/ k[1] = "claim_refund" /\ Vault!ClaimRefund(k[2])
          \/ k[1] = "refund_one" /\ Vault!RefundOne(k[2])

\* What the transaction of a task does when it does not revert.
Effect(k) ==
    \/ k[1] = "slash" /\ SlashFor(k[2])
    \/ /\ UNCHANGED slashes
       /\ \/ k[1] = "set_kickoff" /\ Vault!SetKickoff(k[2], event[k[2]].registered)
          \/ k[1] = "set_refundable" /\ Vault!SetRefundable(k[2])
          \/ k[1] = "deposit" /\ (Vault!Deposit(k[2]) \/ DepositedAlready(k[2]))
          \/ k[1] = "claim_refund" /\ Vault!ClaimRefund(k[2])
          \/ k[1] = "refund_one" /\ Vault!RefundOne(k[2])

\* The gas estimate runs the call and fails where it would revert.
Estimate(k) == ENABLED Effect(k)

\* An attempt is mined and succeeds.  A deposit goes on to activate its ticket;
\* the other tasks end.
Execute(k) ==
    /\ task[k] = "queued"
    /\ Effect(k)
    /\ task' = [task EXCEPT ![k] = IF k[1] = "deposit" THEN "mined" ELSE "over"]
    /\ UNCHANGED <<rowVars, notify, late>>

\* A receipt that does not come in time leaves the transaction behind.
Leave(k) ==
    \/ late' = late
    \/ /\ Estimate(k)
       /\ Cardinality(late) < MaxLate
       /\ late' = late \cup {k}

\* ContractCallError: the estimate, the broadcast or the transaction fails, or
\* the receipt does not come in time.  The task will be tried again.
RetryTask(k) ==
    /\ task[k] = "queued"
    /\ Leave(k)
    /\ UNCHANGED <<vaultVars, rowVars, notify, task, slashes>>

\* The last attempt failed: submit_deposit fails the ticket, if still pending.
GiveUp(k) ==
    /\ task[k] = "queued"
    /\ Leave(k)
    /\ task' = [task EXCEPT ![k] = "over"]
    /\ IF k[1] = "deposit" /\ row[k[2]].status = "pending_payment"
       THEN SetStatus(k[2], "failed") ELSE UNCHANGED row
    /\ UNCHANGED <<vaultVars, event, optOut, notify, slashes>>

\* A late transaction is mined after all (or never).
ExecuteLate(k) ==
    /\ k \in late
    /\ Effect(k)
    /\ late' = late \ {k}
    /\ UNCHANGED <<rowVars, notify, task>>

\* Mutant: the deposit activates its ticket whatever became of it.
ActivateAnyTicket(t) ==
    LET k == <<"deposit", t, 1>>
    IN  /\ task[k] = "mined"
        /\ task' = [task EXCEPT ![k] = "over"]
        /\ SetStatus(t, "active")
        /\ UNCHANGED <<vaultVars, event, optOut, notify, late, slashes>>

\* submit_deposit activates a ticket that is still pending, and ends.
Activate(t) ==
    LET k == <<"deposit", t, 1>>
    IN  /\ task[k] = "mined"
        /\ task' = [task EXCEPT ![k] = "over"]
        /\ IF row[t].status = "pending_payment"
           THEN SetStatus(t, "active") ELSE UNCHANGED row
        /\ UNCHANGED <<vaultVars, event, optOut, notify, late, slashes>>

\* The worker dies before it acknowledges the message, which is delivered again
\* (acks_late): before the task has ended, or after.
Redeliver(k) ==
    /\ task[k] \in {"mined", "over"}
    /\ task' = [task EXCEPT ![k] = "queued"]
    /\ UNCHANGED <<vaultVars, rowVars, notify, late, slashes>>

\* Any other exception ends the task without a retry.
Abort(k) ==
    /\ task[k] \in {"queued", "mined"}
    /\ task' = [task EXCEPT ![k] = "over"]
    /\ UNCHANGED <<vaultVars, rowVars, notify, late, slashes>>

VendorClaims(e) == Vault!ClaimPayout(e) /\ UNCHANGED <<rowVars, taskVars>>

TimePasses == Vault!Tick /\ UNCHANGED <<rowVars, taskVars>>

-----------------------------------------------------------------------------
Next ==
    \/ \E e \in Events, k \in Kickoffs, tier \in {"small", "big"} : CreateEvent(e, k, tier)
    \/ \E e \in Events : ApproveEvent(e)
    \/ \E e \in Events : PauseEvent(e)
    \/ \E e \in Events, k \in Kickoffs : PostponeEvent(e, k)
    \/ \E e \in Events, by \in {"vendor", "admin"} : CancelEvent(e, by)
    \/ \E e \in Events : CompleteEvent(e)
    \/ \E t \in Tickets : CheckPurchase(t)
    \/ \E t \in Tickets : BuyTicket(t)
    \/ \E t \in Tickets : VoidTicket(t)
    \/ \E r \in Requests : CheckOptOut(r)
    \/ \E r \in Requests : OptOut(r)
    \/ \E e \in Events, n \in Cancels : Notify(e, n)
    \/ \E k \in Tasks : Execute(k)
    \/ \E k \in Tasks : RetryTask(k)
    \/ \E k \in Tasks : GiveUp(k)
    \/ \E k \in Tasks : ExecuteLate(k)
    \/ \E t \in Tickets : Activate(t)
    \/ \E k \in Tasks : Redeliver(k)
    \/ \E k \in Tasks : Abort(k)
    \/ \E e \in Events : VendorClaims(e)
    \/ TimePasses

Spec == Init /\ [][Next]_vars

-----------------------------------------------------------------------------
\* Every variable of Django and of the queue keeps its type.
TypeOK ==
    /\ event \in [Events -> EventRow]
    /\ row \in [Tickets -> TicketRow]
    /\ optOut \in [Requests -> OptOutState]
    /\ notify \subseteq Events \X Cancels
    /\ task \in [Tasks -> Stages]
    /\ late \subseteq Tasks
    /\ slashes \in [Events -> Nat]

\* However tasks are retried, redelivered, reordered and lost, what they do to
\* the vault is a behaviour of the vault: everything proved of PayoutVault
\* holds in the composition.
ImplementsVault == Vault!Spec

\* The vault lets fans claim refunds only for an event that was cancelled.
RefundableIsCancelled ==
    \A e \in Events : events[e].refundable => event[e].cancels # <<>>

\* "No slash, vendor not at fault": only an event that its vendor cancelled
\* costs the vendor a slash, whatever the platform did before or after.
SlashedByVendorCancel ==
    \A e \in Events :
        slashes[e] > 0 => \E n \in DOMAIN event[e].cancels : event[e].cancels[n] = "vendor"

\* A ticket whose price went back to the wallet is not valid at the gate: no
\* deposit that confirms late revives it, whatever the order of the void, the
\* opt-out and the tasks.
CreditedIsVoid ==
    \A t \in Tickets : row[t].credits > 0 => row[t].status \in {"failed", "returned"}

\* The vault pays a fan back only for a cancelled event or a ticket that has
\* opted out and is valid no more.
RefundHasCause ==
    \A t \in Tickets :
        tickets[t].refunded =>
            event[EventOf[t]].cancels # <<>> \/ row[t].status = "returned"

\* The vendor has more than the vault holds for the event, so that the money of
\* other events covers it, only if the event was called off or moved, or a ticket
\* of it was bought back (which module BuybackFlow does).
OverdrawnHasCause ==
    \A e \in Events :
        paid[e] > Vault!HeldFor(e) =>
            \/ event[e].cancels # <<>>
            \/ event[e].deadline # 0
            \/ \E t \in Vault!TicketsOf(e) : tickets[t].returned

\* An event that stopped selling never sells again.
NeverActiveAgain ==
    [][\A e \in Events :
          event'[e].status = "active"
              => event[e].status \in {"none", "under_review", "active"}]_vars

\* "Holds fan ticket payments in USDC until T+48h after event kickoff": the
\* vendor is paid earlier only when the event was postponed after the vault was
\* given its kickoff, which postpone_event() does not tell it.
HeldUnlessPostponed ==
    [][\A e \in Events :
          (events'[e].payoutClaimed /\ ~events[e].payoutClaimed /\ event[e].deadline = 0)
              => now >= event[e].kickoff + PayoutDelay]_vars
=============================================================================
