---------------------------- MODULE TicketPurchase ----------------------------
(***************************************************************************)
(* Ticket purchase: the web request that debits the fan's wallet and       *)
(* creates tickets in pending_payment, the Celery task that deposits each  *)
(* ticket's price in the PayoutVault and then activates the ticket, and    *)
(* the periodic task that voids tickets left pending for ten minutes.      *)
(*                                                                         *)
(* One action is one database transaction, one call to the chain or one    *)
(* message to the queue.  Between two actions of a process every other     *)
(* process may run, and the web process or the worker may die.             *)
(***************************************************************************)
EXTENDS Integers, Sums

CONSTANTS
    Users,          \* fans, each with one wallet
    Requests,       \* purchase requests; each is served once
    Categories,     \* seat categories of the event
    Capacity,       \* SeatCategory.capacity
    Price,          \* SeatCategory.gross_price_cents
    MaxQuantity,    \* most tickets in one purchase (5 in the code)
    MaxAttempts,    \* MAX_RETRIES: attempts of submit_deposit (3 in the code)
    InitialBalance, \* of every wallet
    Withdrawals,    \* amounts that fans withdraw
    MaxTickets      \* bound on the tickets ever created

ASSUME SeatAssumption ==
    /\ Capacity \in [Categories -> Nat]
    /\ Price \in [Categories -> Nat]
    /\ MaxQuantity \in Nat /\ MaxTickets \in Nat
    /\ InitialBalance \in Nat /\ Withdrawals \subseteq Nat \ {0}
    /\ MaxAttempts \in Nat \ {0}

VARIABLES
    eventActive,    \* event.status = "active"
    request,        \* request -> where purchase_tickets() is, and its arguments
    created,        \* number of Ticket rows; rows are numbered as they are created
    ticket,         \* Ticket rows
    balance,        \* Wallet.balance_cents
    withdrawn,      \* what a fan has withdrawn, by the wallet's transactions
    aged,           \* tickets that were pending for more than ten minutes
    job,            \* ticket -> its submit_deposit task
    exhausted,      \* history: tickets whose deposit failed in its last attempt
    mempool,        \* tickets with a broadcast deposit that is not mined
    deposited       \* tickets whose deposit PayoutVault holds

vars == <<eventActive, request, created, ticket, balance, withdrawn, aged, job,
          exhausted, mempool, deposited>>

Tickets == 1..MaxTickets

Row == [status   : {"pending_payment", "active", "failed"},
        user     : Users,
        category : Categories,
        seat     : Nat,
        refunded : BOOLEAN]   \* a WalletTransaction credits its price

RequestState == [pc       : {"start", "checked", "enqueue", "done"},
                 user     : Users,
                 category : Categories,
                 quantity : 1..MaxQuantity,
                 todo     : SUBSET Tickets]   \* tickets without a task yet

\* "queued": a message waits in the broker; "waiting": the worker waits for the
\* receipt; "confirmed": it has the receipt and has not touched the ticket yet;
\* "over": the task has ended and its message is acknowledged, or about to be.
JobState == [stage   : {"none", "queued", "waiting", "confirmed", "over"},
             attempt : 1..MaxAttempts]

-----------------------------------------------------------------------------
Rows == 1..created

\* The tickets of a category that purchase_tickets() counts as taken.
Occupying(c) ==
    {t \in Rows : /\ ticket[t].status \in {"pending_payment", "active"}
                  /\ ticket[t].category = c}

Taken(c) == Cardinality(Occupying(c))

Init ==
    /\ eventActive = TRUE
    /\ request \in [Requests -> [pc : {"start"}, user : Users,
                                 category : Categories,
                                 quantity : 1..MaxQuantity, todo : {{}}]]
    /\ created = 0
    /\ ticket = [t \in Rows |-> {}]
    /\ balance = [u \in Users |-> InitialBalance]
    /\ withdrawn = [u \in Users |-> 0]
    /\ aged = {}
    /\ job = [t \in Tickets |-> [stage |-> "none", attempt |-> 1]]
    /\ exhausted = {}
    /\ mempool = {}
    /\ deposited = {}

-----------------------------------------------------------------------------
(* The web process. *)

\* The view loads the event and the service checks its status, outside the
\* transaction that follows: the event may stop being active in between.
CheckEvent(r) ==
    /\ request[r].pc = "start"
    /\ eventActive
    /\ request' = [request EXCEPT ![r].pc = "checked"]
    /\ UNCHANGED <<eventActive, created, ticket, balance, withdrawn, aged, job,
                   exhausted, mempool, deposited>>

\* Mutant: one free seat is enough for any quantity.
AnySeatLeft(c, q) == Taken(c) < Capacity[c]

\* There are seats for q more tickets of the category.
SeatsLeft(c, q) == Taken(c) + q <= Capacity[c]

CanPay(u, c, q) == balance[u] >= Price[c] * q

\* Mutant: all tickets of a purchase get the same number.
NextSeat(c, t) == Taken(c) + 1

\* Seats are numbered from the count of taken seats.
SeatNumber(c, t) == Taken(c) + (t - created)

\* The transaction, under the row locks of the seat category and the wallet.
Purchase(r) ==
    LET u   == request[r].user
        c   == request[r].category
        q   == request[r].quantity
        new == (created + 1)..(created + q)
    IN  /\ request[r].pc = "checked"
        /\ SeatsLeft(c, q)
        /\ CanPay(u, c, q)
        /\ created + q <= MaxTickets
        /\ created' = created + q
        /\ ticket' = [t \in Rows \cup new |->
                        IF t \in Rows
                        THEN ticket[t]
                        ELSE [status |-> "pending_payment", user |-> u,
                              category |-> c, seat |-> SeatNumber(c, t),
                              refunded |-> FALSE]]
        /\ balance' = [balance EXCEPT ![u] = @ - Price[c] * q]
        /\ request' = [request EXCEPT ![r].pc = "enqueue", ![r].todo = new]
        /\ UNCHANGED <<eventActive, withdrawn, aged, job, exhausted, mempool,
                       deposited>>

\* After the commit, one submit_deposit message per ticket, in order.
EnqueueDeposit(r, t) ==
    /\ request[r].pc = "enqueue"
    /\ t \in request[r].todo
    /\ \A s \in request[r].todo : t <= s
    /\ job' = [job EXCEPT ![t].stage = "queued"]
    /\ request' = [request EXCEPT ![r].todo = @ \ {t},
                                  ![r].pc = IF request[r].todo = {t}
                                            THEN "done" ELSE "enqueue"]
    /\ UNCHANGED <<eventActive, created, ticket, balance, withdrawn, aged,
                   exhausted, mempool, deposited>>

\* The request is refused, or its process dies: it leaves the tickets it has
\* committed and not enqueued without a task.
EndRequest(r) ==
    /\ request[r].pc # "done"
    /\ request' = [request EXCEPT ![r].pc = "done", ![r].todo = {}]
    /\ UNCHANGED <<eventActive, created, ticket, balance, withdrawn, aged, job,
                   exhausted, mempool, deposited>>

\* The event is paused, postponed or cancelled.
CloseEvent ==
    /\ eventActive
    /\ eventActive' = FALSE
    /\ UNCHANGED <<request, created, ticket, balance, withdrawn, aged, job,
                   exhausted, mempool, deposited>>

\* process_withdrawal(): the amount leaves the wallet under its row lock; the
\* fee is part of it.
Withdraw(u, amount) ==
    /\ balance[u] >= amount
    /\ balance' = [balance EXCEPT ![u] = @ - amount]
    /\ withdrawn' = [withdrawn EXCEPT ![u] = @ + amount]
    /\ UNCHANGED <<eventActive, request, created, ticket, aged, job, exhausted,
                   mempool, deposited>>

-----------------------------------------------------------------------------
(* The submit_deposit task and the chain. *)

\* An attempt signs and broadcasts PayoutVault.deposit().
Broadcast(t) ==
    /\ job[t].stage = "queued"
    /\ job' = [job EXCEPT ![t].stage = "waiting"]
    /\ mempool' = mempool \cup {t}
    /\ UNCHANGED <<eventActive, request, created, ticket, balance, withdrawn, aged,
                   exhausted, deposited>>

\* The chain executes a broadcast deposit; one for a ticket that is already
\* deposited returns without effect.
Mine(t) ==
    /\ t \in mempool
    /\ mempool' = mempool \ {t}
    /\ deposited' = deposited \cup {t}
    /\ UNCHANGED <<eventActive, request, created, ticket, balance, withdrawn, aged,
                   job, exhausted>>

\* The chain drops or reverts a broadcast deposit.
Drop(t) ==
    /\ t \in mempool
    /\ mempool' = mempool \ {t}
    /\ UNCHANGED <<eventActive, request, created, ticket, balance, withdrawn, aged,
                   job, exhausted, deposited>>

\* Mutant: the task does not wait for the receipt.
SeeNoReceipt(t) ==
    /\ job[t].stage = "waiting"
    /\ job' = [job EXCEPT ![t].stage = "confirmed"]
    /\ UNCHANGED <<eventActive, request, created, ticket, balance, withdrawn, aged,
                   exhausted, mempool, deposited>>

\* The worker polls the receipt of a mined deposit.
SeeReceipt(t) ==
    /\ job[t].stage = "waiting"
    /\ t \in deposited \ mempool
    /\ job' = [job EXCEPT ![t].stage = "confirmed"]
    /\ UNCHANGED <<eventActive, request, created, ticket, balance, withdrawn, aged,
                   exhausted, mempool, deposited>>

\* Mutant: the status is not re-read under the lock.
ActivateAnyStatus(t) ==
    /\ job[t].stage = "confirmed"
    /\ ticket' = [ticket EXCEPT ![t].status = "active"]
    /\ job' = [job EXCEPT ![t].stage = "over"]
    /\ UNCHANGED <<eventActive, request, created, balance, withdrawn, aged,
                   exhausted, mempool, deposited>>

\* The task's own transaction after a receipt: it activates a ticket that is
\* still pending and leaves any other alone.
Activate(t) ==
    /\ job[t].stage = "confirmed"
    /\ ticket' = IF ticket[t].status = "pending_payment"
                 THEN [ticket EXCEPT ![t].status = "active"]
                 ELSE ticket
    /\ job' = [job EXCEPT ![t].stage = "over"]
    /\ UNCHANGED <<eventActive, request, created, balance, withdrawn, aged,
                   exhausted, mempool, deposited>>

\* ContractCallError: the gas estimate or the broadcast fails, the receipt
\* does not come in time, or its status is 0.  A transaction that was sent
\* stays sent.  The task is retried.
RetryDeposit(t) ==
    /\ job[t].stage \in {"queued", "waiting"}
    /\ job[t].attempt < MaxAttempts
    /\ job' = [job EXCEPT ![t].stage = "queued", ![t].attempt = @ + 1]
    /\ UNCHANGED <<eventActive, request, created, ticket, balance, withdrawn, aged,
                   exhausted, mempool, deposited>>

\* ContractCallError on the last attempt: _mark_ticket_failed() fails a ticket
\* that is still pending, and touches no wallet.
GiveUpDeposit(t) ==
    /\ job[t].stage \in {"queued", "waiting"}
    /\ job[t].attempt = MaxAttempts
    /\ job' = [job EXCEPT ![t].stage = "over"]
    /\ exhausted' = exhausted \cup {t}
    /\ ticket' = IF ticket[t].status = "pending_payment"
                 THEN [ticket EXCEPT ![t].status = "failed"]
                 ELSE ticket
    /\ UNCHANGED <<eventActive, request, created, balance, withdrawn, aged,
                   mempool, deposited>>

\* The worker dies or loses its connection before it acknowledges the message,
\* which is delivered again with the same retry count (acks_late): in the middle
\* of the task, or after it has activated or failed the ticket.
RedeliverDeposit(t) ==
    /\ job[t].stage \in {"waiting", "confirmed", "over"}
    /\ job' = [job EXCEPT ![t].stage = "queued"]
    /\ UNCHANGED <<eventActive, request, created, ticket, balance, withdrawn, aged,
                   exhausted, mempool, deposited>>

\* An exception other than ContractCallError ends the task without a retry:
\* an empty wallet address, or a node that does not answer outside the calls
\* submit_tx() guards.
AbortDeposit(t) ==
    /\ job[t].stage \in {"queued", "waiting", "confirmed"}
    /\ job' = [job EXCEPT ![t].stage = "over"]
    /\ UNCHANGED <<eventActive, request, created, ticket, balance, withdrawn, aged,
                   exhausted, mempool, deposited>>

-----------------------------------------------------------------------------
(* The periodic task void_stale_payments. *)

\* A pending ticket gets older than ten minutes.
Age(t) ==
    /\ ticket[t].status = "pending_payment"
    /\ t \notin aged
    /\ aged' = aged \cup {t}
    /\ UNCHANGED <<eventActive, request, created, ticket, balance, withdrawn, job,
                   exhausted, mempool, deposited>>

\* The ticket fails and its price returns to the wallet.
FailAndCredit(t) ==
    /\ ticket' = [ticket EXCEPT ![t].status = "failed", ![t].refunded = TRUE]
    /\ balance' = [balance EXCEPT ![ticket[t].user] = @ + Price[ticket[t].category]]
    /\ UNCHANGED <<eventActive, request, created, withdrawn, aged, job, exhausted,
                   mempool, deposited>>

\* Mutant: the status is not re-read under the lock.
VoidAnyStatus(t) == t \in aged /\ FailAndCredit(t)

\* Mutant: only tickets whose deposit was enqueued are looked at.
VoidEnqueued(t) ==
    /\ t \in aged
    /\ ticket[t].status = "pending_payment"
    /\ job[t].stage # "none"
    /\ FailAndCredit(t)

\* Mutant: the wallet is not credited.
VoidWithoutCredit(t) ==
    /\ t \in aged
    /\ ticket[t].status = "pending_payment"
    /\ ticket' = [ticket EXCEPT ![t].status = "failed"]
    /\ UNCHANGED <<eventActive, request, created, balance, withdrawn, aged, job,
                   exhausted, mempool, deposited>>

\* Its transaction for one ticket, which re-reads the status under the row
\* lock.
VoidStale(t) ==
    /\ t \in aged
    /\ ticket[t].status = "pending_payment"
    /\ FailAndCredit(t)

-----------------------------------------------------------------------------
Next ==
    \/ \E r \in Requests : CheckEvent(r)
    \/ \E r \in Requests : Purchase(r)
    \/ \E r \in Requests, t \in Rows : EnqueueDeposit(r, t)
    \/ \E r \in Requests : EndRequest(r)
    \/ CloseEvent
    \/ \E u \in Users, amount \in Withdrawals : Withdraw(u, amount)
    \/ \E t \in Rows : Broadcast(t)
    \/ \E t \in Rows : Mine(t)
    \/ \E t \in Rows : Drop(t)
    \/ \E t \in Rows : SeeReceipt(t)
    \/ \E t \in Rows : Activate(t)
    \/ \E t \in Rows : RetryDeposit(t)
    \/ \E t \in Rows : GiveUpDeposit(t)
    \/ \E t \in Rows : RedeliverDeposit(t)
    \/ \E t \in Rows : AbortDeposit(t)
    \/ \E t \in Rows : Age(t)
    \/ \E t \in Rows : VoidStale(t)

Spec == Init /\ [][Next]_vars

\* Time passes, and Celery beat runs void_stale_payments every two minutes for
\* ever.  Nothing is assumed of web processes, workers, the queue or the chain.
Fairness ==
    \A t \in Tickets : /\ WF_vars(t \in Rows /\ Age(t))
                       /\ WF_vars(t \in Rows /\ VoidStale(t))

FairSpec == Spec /\ Fairness

-----------------------------------------------------------------------------
\* Every variable keeps its type; a wallet balance is never negative.
TypeOK ==
    /\ eventActive \in BOOLEAN
    /\ request \in [Requests -> RequestState]
    /\ created \in 0..MaxTickets
    /\ ticket \in [Rows -> Row]
    /\ balance \in [Users -> Nat] /\ withdrawn \in [Users -> Nat]
    /\ aged \subseteq Rows
    /\ job \in [Tickets -> JobState]
    /\ exhausted \subseteq Rows
    /\ mempool \subseteq Rows
    /\ deposited \subseteq Rows

\* However purchases, failures and voids interleave, a category never has more
\* live tickets than seats, and no ticket has a seat outside the category
\* (the count under the lock of the seat category in purchase_tickets()).
NoOversell ==
    \A c \in Categories :
        /\ Taken(c) <= Capacity[c]
        /\ \A t \in Occupying(c) : ticket[t].seat \in 1..Capacity[c]

\* What a fan has paid for each ticket and not got back.
Spent(u) == [t \in Rows |-> IF ticket[t].user = u /\ ~ticket[t].refunded
                            THEN Price[ticket[t].category] ELSE 0]

\* What a wallet has lost is the price of the fan's tickets that were not
\* refunded and what the fan withdrew: no void refunds twice, no purchase debits
\* without a ticket, and no withdrawal spends what a purchase has taken.
WalletMatchesTickets ==
    \A u \in Users :
        balance[u] + Total(Rows, Spent(u)) + withdrawn[u] = InitialBalance

\* A ticket is active, and so valid at the gate, only when its price is in the
\* vault, whatever was retried, redelivered or dropped on the way.
ActiveIsDeposited ==
    \A t \in Rows : ticket[t].status = "active" => t \in deposited

\* A ticket whose price went back to the wallet is failed and stays failed: a
\* deposit that confirms late does not activate it.
RefundedIsFailed ==
    \A t \in Rows : ticket[t].refunded => ticket[t].status = "failed"

\* A fan has the ticket or the money back, except where submit_deposit used up
\* its attempts before the ticket was voided.
TicketOrMoney ==
    \A t \in Rows :
        ticket[t].status = "failed" /\ ~ticket[t].refunded
            => t \in exhausted

\* Seat numbers of live tickets are distinct as long as no ticket of the
\* category has failed.
SeatsUniqueUntilFailure ==
    \A c \in Categories :
        (\A t \in Rows : ticket[t].category = c => ticket[t].status # "failed")
            => \A s, t \in Occupying(c) :
                  ticket[s].seat = ticket[t].seat => s = t

\* What became of a ticket, as its fan sees it.
Fate(t) ==
    CASE ticket[t].status = "active" -> "valid"
      [] ticket[t].status = "pending_payment" -> "paid"
      [] ticket[t].status = "failed" ->
            IF ticket[t].refunded THEN "refunded" ELSE "forfeited"

SaleOf(t) ==
    IF t \in Rows
    THEN [fate |-> Fate(t), user |-> ticket[t].user, price |-> Price[ticket[t].category]]
    ELSE [fate |-> "none"]

\* The purchase as fans see it.
Sale ==
    INSTANCE TicketSale WITH
        Prices <- {Price[c] : c \in Categories},
        sale <- [t \in Tickets |-> SaleOf(t)],
        wallet <- balance,
        vault <- deposited

\* However requests, tasks, retries, late transactions and the periodic void
\* interleave, what becomes of a ticket is final and its money moves with it in
\* the same step: a ticket is valid, refunded once or forfeited, valid only with
\* its price in the vault, and no late confirmation revives one that failed
\* (the status re-read under the row lock in submit_deposit and
\* void_stale_payments).
ImplementsTicketSale == Sale!Spec

\* Every pending ticket is settled in the end, whatever process dies: also one
\* whose request died between the commit and the enqueue.
PendingIsSettled ==
    \A t \in Tickets :
        (t \in Rows /\ ticket[t].status = "pending_payment")
            ~> (t \in Rows /\ ticket[t].status # "pending_payment")

=============================================================================
