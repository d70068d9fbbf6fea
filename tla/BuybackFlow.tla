----------------------------- MODULE BuybackFlow -----------------------------
(***************************************************************************)
(* The buyback flow of Django: the request that checks the guards outside  *)
(* its transaction and returns the tickets in it, the Celery task that has *)
(* the BuybackPool pay the fan, the relisting and the expiry of returned   *)
(* tickets, and the opt-out of a postponed event, which returns tickets,   *)
(* too.                                                                    *)
(*                                                                         *)
(* One action is one database transaction, the queries of one guard, one   *)
(* call to the chain or one message.  Money is left to BuybackPool.        *)
(***************************************************************************)
EXTENDS Integers, FiniteSets

CONSTANTS
    Fans,
    Tickets,        \* tickets of one event whose holders may act
    Idle,           \* number of active tickets of the event besides these
    Capacity,       \* total_capacity of the event
    Owner,          \* ticket -> fan
    Group,          \* ticket -> group_id, the tickets bought with it
    GroupTickets,   \* tickets of type "group"
    Vvip,           \* tickets of the category "vvip"
    Requests,       \* buyback requests; each is served once
    Payable,        \* group ids for which markReturned() has a deposit
    SellThrough,    \* BUYBACK_SELL_THROUGH_THRESHOLD in percent (80)
    InventoryCap,   \* BUYBACK_INVENTORY_CAP in percent (15)
    MaxPerUser,     \* BUYBACK_MAX_PER_USER (2)
    MaxAttempts     \* MAX_RETRIES: attempts of submit_buyback (3)

ASSUME BuybackFlowAssumption ==
    /\ Owner \in [Tickets -> Fans] /\ DOMAIN Group = Tickets
    /\ IsFiniteSet(Tickets) /\ IsFiniteSet(Requests)
    /\ GroupTickets \subseteq Tickets /\ Vvip \subseteq Tickets
    /\ {Idle, Capacity, SellThrough, InventoryCap, MaxPerUser} \subseteq Nat
    /\ MaxAttempts \in Nat \ {0}

VARIABLES
    event,          \* "past": active, with its kickoff behind
    status,         \* Ticket.status
    totalBuybacks,  \* User.total_buybacks
    request,        \* where request_buyback_view() is and what it has read
    record,         \* refund_status of the request's BuybackRecord
    job,            \* the record's submit_buyback task
    mempool,        \* records with a requestBuyback() sent and not mined
    paid,           \* records whose requestBuyback() was executed
    overlap,        \* history: pairs of requests of which one read before the
                    \* other had written
    left            \* history: records with a transaction of an earlier attempt

vars == <<event, status, totalBuybacks, request, record, job, mempool, paid,
          overlap, left>>

RequestState == [pc     : {"start", "loaded", "checked", "enqueue", "done"},
                 ticket : Tickets,
                 loaded : SUBSET Tickets,   \* the list of the view
                 stats  : Nat]              \* request.user.total_buybacks

\* "updated": the record is written and the message not yet acknowledged; the
\* other stages are those of TicketPurchase.
JobState == [stage   : {"none", "queued", "waiting", "confirmed", "updated", "over"},
             attempt : 1..MaxAttempts]

-----------------------------------------------------------------------------
With(s) == {t \in Tickets : status[t] \in s}

FanOf(r) == Owner[request[r].ticket]

\* The group_id of a record, which is the ticket's id on the chain.
Key(r) == Group[request[r].ticket]

Records == {r \in Requests : record[r] # "none"}

Init ==
    /\ event = "active"
    /\ status = [t \in Tickets |-> "active"]
    /\ totalBuybacks = [f \in Fans |-> 0]
    /\ request \in [Requests -> [pc : {"start"}, ticket : Tickets,
                                 loaded : {{}}, stats : {0}]]
    /\ record = [r \in Requests |-> "none"]
    /\ job = [r \in Requests |-> [stage |-> "none", attempt |-> 1]]
    /\ mempool = {} /\ paid = {} /\ overlap = {} /\ left = {}

-----------------------------------------------------------------------------
(* The web process. *)

\* The tickets the view hands over: the valid ones of the group, or the one
\* asked for in whatever status.
ToReturn(r) ==
    IF request[r].ticket \in GroupTickets
    THEN {t \in With({"active"}) : Group[t] = Key(r)}
    ELSE {request[r].ticket}

\* The session's user and the tickets are read.
Load(r) ==
    /\ request[r].pc = "start"
    /\ request' = [request EXCEPT ![r] = [@ EXCEPT !.pc = "loaded",
                        !.loaded = ToReturn(r), !.stats = totalBuybacks[FanOf(r)]]]
    /\ overlap' = overlap \cup
          {{r, s} : s \in {q \in Requests : request[q].pc \in {"loaded", "checked"}}}
    /\ UNCHANGED <<event, status, totalBuybacks, record, job, mempool, paid, left>>

\* Event.buyback_eligible: enough active tickets, and not too many returned.
Eligible ==
    /\ Capacity > 0
    /\ 100 * (Idle + Cardinality(With({"active"}))) >= SellThrough * Capacity
    /\ 100 * Cardinality(With({"returned"})) < InventoryCap * Capacity

\* Mutant: the cap is compared with the tickets that wait to be relisted.
ReturnedUnderCap ==
    100 * Cardinality(With({"returned"})) < InventoryCap * Capacity

\* The inventory of returned and relisted tickets is under its cap.
UnderCap ==
    100 * Cardinality(With({"returned", "relisted"})) < InventoryCap * Capacity

\* Mutant: one more than the maximum.
AtMostLimit(f) == Cardinality({r \in Records : FanOf(r) = f}) <= MaxPerUser

UnderLimit(f) == Cardinality({r \in Records : FanOf(r) = f}) < MaxPerUser

\* check_buyback_eligible(), before the transaction and without locks.
Check(r) ==
    /\ request[r].pc = "loaded"
    /\ Eligible /\ UnderCap /\ UnderLimit(FanOf(r))
    /\ request[r].loaded \cap Vvip = {}
    /\ request' = [request EXCEPT ![r].pc = "checked"]
    /\ UNCHANGED <<event, status, totalBuybacks, record, job, mempool, paid,
                   overlap, left>>

\* Mutant: the statistics count tickets.
CommitCountsTickets(r) ==
    LET tickets == request[r].loaded
    IN  /\ request[r].pc = "checked"
        /\ tickets # {}
        /\ status' = [t \in Tickets |-> IF t \in tickets THEN "returned" ELSE status[t]]
        /\ record' = [record EXCEPT ![r] = "pending"]
        /\ totalBuybacks' = [totalBuybacks EXCEPT
                               ![FanOf(r)] = request[r].stats + Cardinality(tickets)]
        /\ request' = [request EXCEPT ![r].pc = "enqueue"]
        /\ UNCHANGED <<event, job, mempool, paid, overlap, left>>

\* The transaction: the tickets are returned whatever their status is by now,
\* and the user is written with the count read before.  The first ticket of an
\* empty list raises.
Commit(r) ==
    LET tickets == request[r].loaded
    IN  /\ request[r].pc = "checked"
        /\ tickets # {}
        /\ status' = [t \in Tickets |-> IF t \in tickets THEN "returned" ELSE status[t]]
        /\ record' = [record EXCEPT ![r] = "pending"]
        /\ totalBuybacks' = [totalBuybacks EXCEPT ![FanOf(r)] = request[r].stats + 1]
        /\ request' = [request EXCEPT ![r].pc = "enqueue"]
        /\ UNCHANGED <<event, job, mempool, paid, overlap, left>>

Enqueue(r) ==
    /\ request[r].pc = "enqueue"
    /\ request' = [request EXCEPT ![r].pc = "done"]
    /\ job' = [job EXCEPT ![r].stage = "queued"]
    /\ UNCHANGED <<event, status, totalBuybacks, record, mempool, paid, overlap, left>>

\* The request is refused, raises, or its process dies: a record committed and
\* not enqueued stays pending.
EndRequest(r) ==
    /\ request[r].pc # "done"
    /\ request' = [request EXCEPT ![r].pc = "done"]
    /\ UNCHANGED <<event, status, totalBuybacks, record, job, mempool, paid,
                   overlap, left>>

-----------------------------------------------------------------------------
(* The submit_buyback task and the chain. *)

KeyPaid(r) == \E s \in paid : Key(s) = Key(r)

\* The gas estimate succeeds and the transaction is sent.
Submit(r) ==
    /\ job[r].stage = "queued"
    /\ Key(r) \in Payable /\ ~KeyPaid(r)
    /\ job' = [job EXCEPT ![r].stage = "waiting"]
    /\ mempool' = mempool \cup {r}
    /\ UNCHANGED <<event, status, totalBuybacks, request, record, paid, overlap, left>>

\* Mutant: the pool does not look at its return record.
PayAgain(r) ==
    /\ r \in mempool
    /\ mempool' = mempool \ {r}
    /\ paid' = paid \cup {r}
    /\ UNCHANGED <<event, status, totalBuybacks, request, record, job, overlap, left>>

\* requestBuyback() is executed: a ticket is paid for once.
Pay(r) ==
    /\ r \in mempool
    /\ ~KeyPaid(r)
    /\ mempool' = mempool \ {r}
    /\ paid' = paid \cup {r}
    /\ UNCHANGED <<event, status, totalBuybacks, request, record, job, overlap, left>>

\* requestBuyback() reverts, or the transaction is dropped.
Drop(r) ==
    /\ r \in mempool
    /\ mempool' = mempool \ {r}
    /\ UNCHANGED <<event, status, totalBuybacks, request, record, job, paid,
                   overlap, left>>

\* The worker sees the receipt of a transaction that succeeded.
SeeReceipt(r) ==
    /\ job[r].stage = "waiting"
    /\ r \in paid
    /\ job' = [job EXCEPT ![r].stage = "confirmed"]
    /\ UNCHANGED <<event, status, totalBuybacks, request, record, mempool, paid,
                   overlap, left>>

Complete(r) ==
    /\ job[r].stage = "confirmed"
    /\ record' = [record EXCEPT ![r] = "completed"]
    /\ job' = [job EXCEPT ![r].stage = "updated"]
    /\ UNCHANGED <<event, status, totalBuybacks, request, mempool, paid, overlap, left>>

\* What a failed attempt has sent stays sent.
Leaves(r) == left \cup (IF job[r].stage = "queued" THEN {} ELSE {r})

\* ContractCallError: the estimate or the sending fails, or no good receipt
\* comes in time.
Retry(r) ==
    /\ job[r].stage \in {"queued", "waiting"}
    /\ job[r].attempt < MaxAttempts
    /\ job' = [job EXCEPT ![r].stage = "queued", ![r].attempt = @ + 1]
    /\ left' = Leaves(r)
    /\ UNCHANGED <<event, status, totalBuybacks, request, record, mempool, paid, overlap>>

\* Mutant: an error after the receipt fails the record as well.
GiveUpAnyStage(r) ==
    /\ job[r].stage \in {"queued", "waiting", "confirmed"}
    /\ record' = [record EXCEPT ![r] = "failed"]
    /\ job' = [job EXCEPT ![r].stage = "updated"]
    /\ UNCHANGED <<event, status, totalBuybacks, request, mempool, paid, overlap, left>>

\* The last attempt fails.
GiveUp(r) ==
    /\ job[r].stage \in {"queued", "waiting"}
    /\ job[r].attempt = MaxAttempts
    /\ record' = [record EXCEPT ![r] = "failed"]
    /\ job' = [job EXCEPT ![r].stage = "updated"]
    /\ left' = Leaves(r)
    /\ UNCHANGED <<event, status, totalBuybacks, request, mempool, paid, overlap>>

\* The worker dies before it acknowledges the message, even after it wrote the
\* record: the task starts over (acks_late).
Redeliver(r) ==
    /\ job[r].stage \in {"waiting", "confirmed", "updated"}
    /\ job' = [job EXCEPT ![r].stage = "queued"]
    /\ left' = Leaves(r)
    /\ UNCHANGED <<event, status, totalBuybacks, request, record, mempool, paid, overlap>>

\* The message is acknowledged after the update, or the task ends in an
\* exception it does not catch, as with a fan without a wallet address.
End(r) ==
    /\ job[r].stage \in {"queued", "waiting", "confirmed", "updated"}
    /\ job' = [job EXCEPT ![r].stage = "over"]
    /\ UNCHANGED <<event, status, totalBuybacks, request, record, mempool, paid,
                   overlap, left>>

-----------------------------------------------------------------------------
(* Other writers of the tickets. *)

\* activate_relist: all returned tickets of an active event, in one
\* transaction.  The proofs it enqueues change no state.
ActivateRelist ==
    /\ event \in {"active", "past"}
    /\ status' = [t \in Tickets |-> IF status[t] = "returned" THEN "relisted"
                                    ELSE status[t]]
    /\ UNCHANGED <<event, totalBuybacks, request, record, job, mempool, paid,
                   overlap, left>>

\* expire_tickets
ExpireTickets ==
    /\ event \in {"past", "completed"}
    /\ status' = [t \in Tickets |-> IF status[t] \in {"returned", "relisted"}
                                    THEN "expired" ELSE status[t]]
    /\ UNCHANGED <<event, totalBuybacks, request, record, job, mempool, paid,
                   overlap, left>>

\* process_postpone_opt_out
OptOut(t) ==
    /\ event = "postponed"
    /\ status[t] = "active"
    /\ status' = [status EXCEPT ![t] = "returned"]
    /\ UNCHANGED <<event, totalBuybacks, request, record, job, mempool, paid,
                   overlap, left>>

\* The lifecycle services, time, and complete_event.
EventChanges ==
    /\ event' \in {e \in {"postponed", "past", "completed"} :
                     <<event, e>> \in {<<"active", "postponed">>, <<"active", "past">>,
                                      <<"past", "completed">>}}
    /\ UNCHANGED <<status, totalBuybacks, request, record, job, mempool, paid,
                   overlap, left>>

-----------------------------------------------------------------------------
Next ==
    \/ \E r \in Requests : Load(r)
    \/ \E r \in Requests : Check(r)
    \/ \E r \in Requests : Commit(r)
    \/ \E r \in Requests : Enqueue(r)
    \/ \E r \in Requests : EndRequest(r)
    \/ \E r \in Requests : Submit(r)
    \/ \E r \in Requests : Pay(r)
    \/ \E r \in Requests : Drop(r)
    \/ \E r \in Requests : SeeReceipt(r)
    \/ \E r \in Requests : Complete(r)
    \/ \E r \in Requests : Retry(r)
    \/ \E r \in Requests : GiveUp(r)
    \/ \E r \in Requests : Redeliver(r)
    \/ \E r \in Requests : End(r)
    \/ ActivateRelist
    \/ ExpireTickets
    \/ \E t \in Tickets : OptOut(t)
    \/ EventChanges

Spec == Init /\ [][Next]_vars

-----------------------------------------------------------------------------
\* Every variable keeps its type.
TypeOK ==
    /\ event \in {"active", "past", "postponed", "completed"}
    /\ status \in [Tickets -> {"active", "returned", "relisted", "expired"}]
    /\ totalBuybacks \in [Fans -> Nat]
    /\ request \in [Requests -> RequestState]
    /\ record \in [Requests -> {"none", "pending", "completed", "failed"}]
    /\ job \in [Requests -> JobState]
    /\ mempool \subseteq Records /\ paid \subseteq Records /\ left \subseteq Records

\* A completed record is one its own transaction paid, and no ticket or group
\* is paid for twice, although a ticket may be bought back again and tasks are
\* retried and delivered again (submit_buyback and requestBuyback).
CompletedIsPaidOnce ==
    /\ \A r \in Requests : record[r] = "completed" => r \in paid
    /\ \A r, s \in paid : Key(r) = Key(s) => r = s

\* The fan of a failed record was not paid, unless a transaction outlived its
\* attempt or the message was delivered again.
FailedIsUnpaid ==
    \A r \in paid : record[r] = "failed" => r \in left

Overlapping(rs) == \E p \in overlap : p \subseteq rs

RequestsOf(f) == {r \in Requests : FanOf(r) = f}

\* A fan's records, which nothing limits in the transaction, exceed the limit
\* only when two of the fan's requests overlapped.
LimitUnlessOverlap ==
    \A f \in Fans :
        Cardinality(RequestsOf(f) \cap Records) > MaxPerUser
            => Overlapping(RequestsOf(f))

\* A fan's statistics count the fan's buybacks, unless two of the fan's
\* requests overlapped and one count was lost.
StatsUnlessOverlap ==
    \A f \in Fans :
        totalBuybacks[f] # Cardinality(RequestsOf(f) \cap Records)
            => Overlapping(RequestsOf(f))

\* The tickets that were bought back.
BoughtBack == UNION {request[r].loaded : r \in Records}

\* The unsold inventory that buybacks brought in: checked before a request is
\* added, it exceeds the cap by less than the tickets of that request, unless
\* requests overlapped.
CapUnlessOverlap ==
    LET inventory == BoughtBack \cap With({"returned", "relisted"})
    IN  overlap = {} /\ inventory # {} =>
            \E r \in Records :
                100 * Cardinality(inventory \ request[r].loaded) < InventoryCap * Capacity
=============================================================================
