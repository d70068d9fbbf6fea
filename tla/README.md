# Tiketi in TLA+

Tiketi sells football tickets. A Django application keeps users, events,
tickets and wallets in PostgreSQL; Celery workers carry its decisions to three
Solidity contracts on Base that hold the money in USDC. This directory is a
verification development of that system: TLA+ modules translated from the
source, TLC configurations that check them on small instances, and theorems
that TLAPS proves for every value of the constants. `PROJECT.json` is the
index: which definition stands for which lines, which run checks which
property, which hazards are covered by which property.

All paths are relative to `src/`.

## 1. Inventory

| Component | State | Operations | Talks to |
|---|---|---|---|
| `StakeEscrow` (`contracts/src/StakeEscrow.sol`) | a record per vendor, the USDC of all stakes | stake, requestExit, claimStake, slash, setTreasury | owner (Django) slashes; vendors stake |
| `PayoutVault` (`contracts/src/PayoutVault.sol`) | a record per event and per ticket deposit, one USDC balance | setKickoff, deposit, setRefundable, refundOne, claimRefund, markReturned, claimPayout, setBuybackPool, setTreasury | called by Django's tasks, by vendors, by the pool |
| `BuybackPool` (`contracts/src/BuybackPool.sol`) | a return and a resale record per ticket, the float, one USDC balance | receiveDeposit, requestBuyback, depositResale, fundPool, recordReturn, setPayoutVault, setTreasury | calls `PayoutVault.markReturned`, expects to be called back |
| Ticket purchase (`apps/tickets/services.py`, `views.py`) | Ticket rows, wallet balances | purchase_tickets, process_postpone_opt_out | enqueues deposit and refund tasks |
| Chain tasks (`apps/contracts/tasks/chain_writes.py`, `callers.py`, `tx.py`) | Celery messages, attempts, nonces, transactions | submit_deposit, submit_set_kickoff, submit_set_refundable, submit_claim_refund, submit_refund_one, submit_slash, submit_buyback, submit_resale ... | the contracts; Ticket rows |
| Void of stale payments (`apps/notifications/tasks.py`) | Ticket rows, wallets | void_stale_payments, every 120 s | races with submit_deposit |
| Event lifecycle (`apps/events/services.py`, `models.py`) | Event rows | create, approve, pause, postpone, cancel by vendor or admin, complete | enqueues chain tasks and notifications |
| Notifications (`apps/notifications/`) | none, except that a cancellation enqueues each fan's refund | send_notifications | refund tasks |
| Buyback and relisting (`apps/buyback/`, `notifications/tasks.py`) | BuybackRecord and Ticket rows, `User.total_buybacks` | request_buyback_view, check_buyback_eligible, process_buyback, submit_buyback, activate_relist, expire_tickets | BuybackPool |
| Event listener (`apps/contracts/event_listener.py`) | last processed block | poll, fetch and handle each kind of logs, save the cursor | the contracts' logs |
| Wallet and withdrawal (`apps/wallet/`) | balances, transactions | process_withdrawal (credit and debit have no caller) | wallets of purchases |
| Accounts and OTP (`apps/accounts/`) | users, one-time codes | issue, find, check and use a code | |
| Gate (`apps/gate/`) | entries, sync log; on devices: cached secrets | validate_totp_and_admit, force_sync_view, sync_view | Ticket rows |
| Payments webhook, audit log, configuration | no state that the logic reads back | | |

### What is hard

* **Interleaving.** Web processes, four worker processes and Celery beat write
  the same rows. `submit_deposit` holds no lock while its transaction
  confirms; `void_stale_payments` takes each row with
  `select_for_update(nowait=True)` and goes on to the next when that raises;
  `purchase_tickets` checks the event before its transaction and counts seats
  within it; `process_postpone_opt_out` and `process_buyback` check before their
  transactions and not after; a one-time code is read, checked and saved
  without a lock; four workers read the pending nonce of one account.
* **Delivery.** Chain tasks are `acks_late`: a message whose worker dies
  before the acknowledgement is delivered again and its task starts over, also
  when the task had committed its result. Messages of one event are executed
  in any order. Sync responses to gate devices get lost or overtake each other.
* **Timeouts.** A transaction whose receipt does not come in 120 seconds counts
  as failed and may be mined later, next to its own retry.
* **Crashes.** A request may die between the commit that debits a wallet or
  returns a ticket and the enqueueing of its task; the listener may die between
  a handler and its cursor.
* **One balance.** Each contract keeps the money of all events or tickets in
  one USDC balance, and tickets leave `PayoutVault` by three doors.
* **Rounding and saturation.** Fees, refunds and cuts are rounded; claims are
  lowered with saturation at zero.
* **Legal calls in an illegal order.** Event transitions are guarded by the
  callers only; slashes, exits and new stakes interleave.

Each is a hazard in `PROJECT.json`, at the line where it bites, with the
properties that cover it.

### What makes each component correct

* **StakeEscrow:** the contract holds exactly what vendors may claim; a slashed
  vendor can neither go on selling nor leave before a full delay.
* **PayoutVault:** each deposit is counted once and leaves once; the vendor is
  paid exactly for the tickets still held; one event's refunds are not paid
  with another's money.
* **BuybackPool:** each ticket is refunded and resold at most once, with its own
  money, and no dust and no float goes astray.
* **Purchase and deposit:** no oversell; wallets match tickets; only a ticket
  whose price is in the vault is active; a fan has the ticket or the money; no
  ticket pends for ever.
* **Lifecycle:** refunds, slashes, credits and payouts have each their cause; a
  dead event is never on sale again; whatever tasks do to the contract is a
  behaviour of the contract.
* **Buyback flow:** a record agrees with what the pool paid; the limit per fan,
  the cap on returned tickets and the statistics hold for requests that do not
  overlap.
* **Transaction layer:** a call sends once and returns the receipt of its own
  transaction; a race for a nonce leaves no gap.
* **Listener:** no block is skipped, none is scanned for ever, and logs repeat
  only after an interruption.
* **Sign-in:** one code is alive and is used once.
* **Gate:** nobody enters with a ticket that was invalid for longer than the
  freshness status allows.

## 2. Modules

| Module | Models | Proofs |
|---|---|---|
| `Sums` | the sum of a function over a finite set, as a cardinality | `SumsProofs` |
| `StakeEscrow` | the contract, with the USDC of vendors, treasuries and the contract | `StakeEscrowProofs` |
| `PayoutVault` | the contract, for any number of events and tickets | `PayoutVaultProofs` |
| `BuybackPool` | the contract, in an environment that may call receiveDeposit | `BuybackPoolProofs` |
| `BuybackCircuit` | `BuybackPool` and `PayoutVault` composed as `Deploy.s.sol` wires them | `BuybackPoolProofs` |
| `TicketSale` | what the purchase promises fans: the abstract specification | |
| `TicketPurchase` | purchase, withdrawal, deposit task and void, one event, any number of requests; implements `TicketSale` | `TicketPurchaseProofs` |
| `EventLifecycle` | events, tickets, opt-outs and their tasks, composed with `PayoutVault` | `EventLifecycleProofs` |
| `BuybackFlow` | buyback requests, their tasks, relisting, expiry and opt-outs of one event | `BuybackFlowProofs` |
| `ChainCall` | what `submit_tx` promises its callers: the abstract specification | |
| `SubmitTx` | `submit_tx` with nonces and the node's pool; implements `ChainCall` | `ServiceProofs` |
| `EventListener` | the polling loop and the chain it reads | `ServiceProofs` |
| `SignIn` | one-time codes of one fan | `ServiceProofs` |
| `Gate` | admission online, and offline from synchronised secrets | `ServiceProofs` |

`MC*` modules give TLC the constants that a configuration file cannot write.
Definitions whose comment begins with "Mutant:" are variants of the definition
that follows, each with a plausible bug; they are part of no specification, and
show that the property they are paired with in `PROJECT.json` can fail.
`SubmitTx`, `EventListener`, `SignIn` and `Gate` name their parts apart (`GateInit`,
`GateSpec`, ...) so that one module of proofs can extend all four.

### StakeEscrow

One action per external function; `vendors` is the contract's mapping and
`usdc` the token balances. `lastSlashAt` and `lost` are history variables:
when a vendor was last slashed and how much slashes took from it in all its
stakes. `Tick` is the passing of time between blocks.

### PayoutVault

`events` and `tickets` are the two mappings, `balance` the USDC of the contract;
`paid` (to the vendor, before the fee) and `fees` (per treasury address) are
history. `ClaimPayout` sends `BookingFee` to the treasury and `VendorNet` to the
vendor, as the code does. `Deposit` has the early return for a ticket already deposited.
`MarkReturned` is the pool's call. The owner's and the pool's calls are open:
any call at any time that the guards let through. A revert is an action that
is not enabled.

### BuybackPool and BuybackCircuit

`RequestBuyback(t, type, sent, registered)` is one transaction that includes the
call of `markReturned()`: `sent` is what that call transferred and `registered`
whether it called `receiveDeposit()`. `BuybackPool` allows any contract at
`payoutVault`, as long as it has sent what it registers: `receiveDeposit()` does
not look at the balance. `BuybackCircuit` puts this repository's `PayoutVault`
there: `sent` is the ticket's price and `registered` is FALSE. It extends
`BuybackPool`, whose variables are the pool's, and instantiates `PayoutVault` with
a treasury and a balance of its own. recordReturn() only emits an event.

### TicketSale and TicketPurchase

An action is one database transaction, one call to the chain or one message.

| Action | Code |
|---|---|
| `CheckEvent` | `purchase_view` and the status check of `purchase_tickets` |
| `Purchase` | its transaction: locks, seat count, debit, Ticket rows |
| `EnqueueDeposit`, `EndRequest` | `submit_deposit.delay()` after the commit, ticket by ticket; a request that ends early, in an error or a crash |
| `CloseEvent` | the event stops being active (any of the lifecycle services) |
| `Broadcast`, `SeeReceipt` | `submit_tx`: send, then wait for the receipt |
| `Mine`, `Drop` | the chain |
| `Activate` | the ticket becomes active if it is still pending, under the row lock |
| `RetryDeposit`, `GiveUpDeposit` | `self.retry`, and `_mark_ticket_failed` after the last attempt |
| `RedeliverDeposit` | a worker that dies before the acknowledgement, within the task or after `Activate` or `GiveUpDeposit` committed |
| `AbortDeposit` | an exception that is not retried |
| `Age`, `VoidStale` | ten minutes pass; the void of one ticket |
| `Withdraw` | `process_withdrawal`, under the lock of the wallet |

The seat count and the payment are in one action because the code holds the
locks of the seat category and of the wallet, which a withdrawal takes, too. Tickets that came back by an opt-out or a
buyback also free or occupy seats in the code; those flows are outside this
module, where a ticket is pending, active or failed. Wallets start with
`InitialBalance` and are debited by purchases and withdrawals and credited by
voids; `withdrawn` is what the wallet's transactions of type withdrawal add up
to. `exhausted` is history: the tickets whose deposit failed in its last attempt,
which a redelivery of the task does not undo. That purchases, voids and
withdrawals hold the locks they take from the first read to the commit is part
of the model, not a result of it. The
user's `smart_wallet_address` is assumed present (see the findings).

`TicketSale` is the purchase without requests, tasks, attempts and chain: a fan
buys tickets against their price, and a sold ticket becomes valid once its price
is in the vault, or is refunded, or is forfeited, each for good. Nothing else
happens to it, except that its price may reach the vault at any time, also after
it was refunded or forfeited: that is how much of `void_stale_payments`' promise
the code keeps. `Sale` maps the variables: `SaleOf` gives a row's fate by its
status and whether its price went back. `ImplementsTicketSale` is the refinement.

### EventLifecycle

Events are rows with the history of their cancellations and of the kickoff
passed to the vault. A task is a triple: kind, subject, and the call that
enqueued it, so that a second cancellation has tasks of its own. `Effect`
names what a task does to the vault, by the actions of `PayoutVault` itself.
`Execute` runs a task whose transaction is mined in time, `RetryTask` and
`GiveUp` leave a transaction behind that `ExecuteLate` may still execute.
Attempts are not counted: a task retries any number of times or gives up,
which contains every behaviour of three attempts. `Redeliver` concerns every
task and every point from the mined transaction to the acknowledgement, so a
task that is over may run again. `Estimate` is the gas
estimate that refuses a call that would revert. `VendorClaims` is the vendor's
own claimPayout. The calls `setBuybackPool`, `markReturned` and `setTreasury`
are left to `PayoutVault` and `BuybackCircuit`. `WithWallet` are the events
whose vendor has a `smart_wallet_address`.

`submit_set_kickoff` is enqueued within the transaction that creates the event
(`_activate_event`, `apps/events/services.py:49-58`), and `CreateEvent` and
`ApproveEvent` are that transaction and the enqueueing in one. The task reads no row:
running it before the commit is running it first thing after it, and if the
transaction rolls back, the vault has the kickoff of an event that is not on
sale. No property tells these apart.

The composition is also a refinement: `ImplementsVault == Vault!Spec`, with the
vault's variables mapped to themselves.

### BuybackFlow

A request reads its tickets and its user (`Load`), runs the guards outside any
transaction (`Check`), returns the tickets in one (`Commit`) and enqueues the
task (`Enqueue`); `EndRequest` is a refusal, an exception or a crash anywhere.
The queries of `check_buyback_eligible` are one action: each reads committed
rows, and the interleavings that matter are those with other requests between
`Load`, `Check` and `Commit`. `Eligible` counts active and returned tickets,
`UnderCap` returned and relisted ones, `UnderLimit` the fan's records in whatever
state. The task has the stages of the deposit task and one more, `updated`,
since the record is written before the message is acknowledged; `Redeliver`
from there is how a completed record can become a failed one. `Pay` is the
pool's requestBuyback, which pays once for an id; `Payable` are the ids for
which the vault holds a deposit. `overlap` and `left` are history: pairs of
requests that overlapped, and tasks of which a transaction outlived its attempt
or a delivery. The properties that the code keeps only without overlap say so.

### ChainCall and SubmitTx

`ChainCall` is what `TicketPurchase`, `EventLifecycle` and `BuybackFlow` take for
granted when they treat sending, mining and receipt as single actions: a call
sends one transaction at most, the chain executes it or not, and the call
returns a receipt only of its own executed transaction; it may raise at any
moment. `SubmitTx` has the steps of the function: estimate, read the pending
nonce, send, wait. `ReadNonce` picks the first nonce at or after the account's count
that no pending transaction has. The node refuses a nonce that is used or
taken (every call pays the same tip, so none replaces another), mines in the
order of nonces, and may drop any pending transaction. `Interface` maps the
variables, and `ImplementsChainCall` is the refinement.

### EventListener

`phase` counts the kinds of events in the order of `_poll_once`. `Fetch` handles all
logs of a kind in the range, `FetchFails` is the logged warning, `Interrupt` a
death or an uncaught exception after part of a kind's logs. Handlers' own
exceptions are swallowed, so a handled log is one whose handler was called. The
row with the cursor is modelled as intended (see the findings). The chain does
not reorganise.

### SignIn

One fan. `MarkUsed` is the update of `generate_and_send_otp` with the rows it
finds, `Create` the new row and the commit of both; `FindRow`, `IsValid` and `Save`
are the three steps of `PhoneOTPBackend.authenticate`. Under READ COMMITTED the
rows an update found are written when the transaction commits; where two
updates meet in a row the second waits in the database and need not wait here,
which only adds behaviours. `overlap` and `contested` are history.

### Gate

`ForceSync` logs the sync and sends the valid tickets of one event; `Receive`
and `Lose` are the network, in any order. `SyncStatus` is `sync_view`, which looks
at the device's last row whatever event it is of. The device is not in the
repository: it is taken to admit what the last response it got contains.
Online, `Find` and `Admit` are the lookup and what follows it. `entry` is the last
admission with the time since when, by the code's own account, its ticket may
have become invalid. A code stands for its ticket. Denials change no state
but the log and are left out.

The contracts are modelled as they are meant; as they stand they do not compile
(undeclared errors, see the findings).

## 3. Runs

| Run | Instance | Distinct states | Question |
|---|---|---|---|
| `stake_escrow` | 2 vendors, 2 treasuries | 322,225 | Are stakes, claims, slashes and USDC accounted for in every order of stake, exit, slash, claim and restake? |
| `payout_vault` | 2 events, 3 tickets, 2 treasuries, 2 kickoffs | 17,266 | Are balance, claims, payouts and fees right, with tickets leaving by three doors before and after payouts? |
| `buyback_pool` | 2 tickets, 2 treasuries, amounts 3 and 5 | 1,328 | Is each ticket refunded and resold once, with its own money? |
| `ticket_purchase` | 1 fan, 2 requests, 2 categories with 2 seats and 1, 2 attempts, 2 tickets, withdrawals | 1,286,330 | Is only a deposited ticket active, has the fan ticket or money, and are seats not oversold and distinct, under retries, redelivery, loss, late mining, voids and crashes? |
| `ticket_purchase_live` | 2 requests, 2 tickets, 1 attempt, a withdrawal | 323,988 | Is the purchase, to fans, the plain sale of `TicketSale`, and is every pending ticket settled? |
| `event_lifecycle` | 1 event, 1 ticket, 1 opt-out, 1 cancellation, 1 late transaction | 1,254,185 | Refinement of the vault; causes of refunds, slashes, credits, payouts and overdrafts |
| `buyback_flow` | 2 fans, 5 tickets of 10, 2 requests, 2 attempts | 638,452 | Do records agree with payments, and what do limit, cap and statistics withstand? |
| `event_listener` | 2 kinds, chunks of 2, 3 blocks, 2 interruptions | 176,821 | Is every block scanned, and which logs are missed or repeated? |
| `sign_in` | 3 requests for a code, 3 sign-ins, 2 codes | 665,314 | Does one code live, and sign in once? |
| `submit_tx` | 4 calls | 13,574 | Does a race for nonces leave a gap, or give a call a foreign receipt? |
| `gate` | 2 events, 2 tickets, 1 device, 1 terminal, 2 responses on their way | 3,017,298 | Who is admitted with a ticket that is no longer valid? |
| `buyback_circuit` | 1 event, 2 tickets, a float | violation | Can a deposited ticket be bought back? |

### Bounds, and why they are enough

* **StakeEscrow.** Two vendors share the contract's USDC; the rate and amounts
  are chosen so that repeated slashes reach the cap (a slash larger than what
  is left), and vendors own enough to stake again. `MaxTime` lets an exit
  delay pass, be restarted by a slash, and pass again.
* **PayoutVault.** Two events are needed for one to spend the other's money, and
  two tickets of one event for a claim that is partly lowered. Prices differ so
  that a wrong ticket's price is noticed; fees round.
* **BuybackPool.** 3 and 5 are amounts whose 90%, 80% and 40% shares are all
  rounded; the float is large enough to pay for a ticket, so a property that
  forbids it is not vacuous.
* **TicketPurchase.** Two requests for one or two tickets meet two categories,
  at prices 3 and 4. The wallet of 8 pays for two tickets of either, so that it
  is the count and not the money that keeps `vip`, of one seat, from being sold
  twice; the second row lets that seat be sold again after a failure, and in
  `regular` one purchase of two or two purchases of one number two seats. What
  numbers repeat after a failure (the exception in `SeatsUniqueUntilFailure`)
  would need a third row; the theorem has any number. Two attempts give a retry
  next to a late transaction of the first. One fan is enough, since tickets of
  different fans share nothing but seats and the chain; withdrawals of half the
  wallet compete with purchases before, between and after them. In the run for
  liveness and refinement one attempt and one category suffice: retries only add
  ways to stay pending, and redelivery alone sends a deposit twice, so that one
  may be mined late. The theorem on the refinement has any number of attempts.
* **EventLifecycle.** One event and one ticket: events and tickets interact only
  through the vault, whose own runs and theorems have several. Each hazard
  needs one task of each kind, one late transaction and one cancellation. The
  theorems do without these bounds.
* **BuybackFlow.** Ten seats, all sold, of which five have holders that act: with
  a cap of 15% one returned ticket leaves room for another request and two do
  not, and with a threshold of 80% three fewer active tickets close the buyback.
  One fan has a single ticket and a group, another a group, so that two requests
  are of one fan, of two, or for the same tickets; the limit is one, so that two
  requests meet it. Tickets of category vvip are refused in any case; there is
  none in the instance. The theorems have any numbers.
* **SubmitTx.** Four calls, as many as there are workers, are enough for two to
  race, one to fill a gap and one to be stuck behind it; the theorems have any.
* **EventListener.** A chain of three blocks and chunks of two: a range is a
  whole chunk, a single block or the rest of the chain. Two kinds, so that one
  fails or dies and the other does not; kinds beyond two repeat the same step.
  Two interruptions, one of them during the repetition of a poll.
* **SignIn.** Three of each: two that overlap and one before, between or after.
  Two codes, so that a code is drawn again; validity 1 and two ticks, so that a
  code expires before, at and after its check.
* **Gate.** Two events for a sync of the wrong one, two responses for one that
  overtakes another, a threshold of 1 and three ticks for a sync that is fresh,
  at the limit and stale.

`MaxTime`, `MaxClock`, `MaxTickets`, `MaxCancels`, `MaxSlashes`, `MaxLate`, `MaxFloat`,
`MaxBlock`, `MaxInterrupts` and `MaxInFlight` bound
counters that the code leaves unbounded; each is a guard of the action that
counts. `CHECK_DEADLOCK FALSE` is given where the system may stop: all requests
served, all tickets settled, all tasks over, the last block scanned.

### Fairness

Two properties are liveness properties. `PendingIsSettled` assumes weak fairness
of `Age` (ten minutes pass) and `VoidStale` (Celery beat runs the void every 120
seconds, `config/settings.py:389-394`; a row whose lock is taken is skipped and
found again by the next round). This is the schedule as the settings mean it: a
worker executes what beat sends. With `docker-compose.yml` as written none does:
its worker reads the queues `default` and `contracts` (87), beat's messages go to
Celery's own default queue (see the findings), and a ticket whose task never
runs pends until a worker is started that reads that queue. Of web processes, of the workers'
other tasks, of their messages and of the chain nothing is assumed. `EveryBlockScanned` assumes weak fairness of `Poll`, of
`Fetch` or `FetchFails`, and of `SaveCursor`: `run()` loops for ever and catches every
exception, its container is restarted when it stops
(`docker-compose.yml:108`), and a fetch returns or raises. No fetch need
succeed; that polls are interrupted only finitely often is the bound
`MaxInterrupts`: a listener that dies in every poll scans nothing. No liveness
property is claimed of refunds after a cancellation or of buybacks: their
retries are bounded and nothing enqueues them again.

## 4. Proofs

Every safety property of every passing run is a theorem, for any finite sets and
any values that the named assumptions allow, and so are the three refinements
and the type invariants, which no run repeats. `FeesMatchPayouts`,
`StakeAccounting`, `RefundedIsFailed` and `RefundableIsCancelled` are proved
without a run as well: they are parts of the inductive invariants.

* **Sums.** `Total(S, f)` is the number of pairs of an element and a unit of its
  value, so no recursion is needed and the library's theorems on cardinality
  apply. `SumsProofs` shows that it is a natural number, what changes when
  one element changes, what a subset has, and that pointwise equal functions
  have equal sums. All accounting proofs rest on these.
* **StakeEscrow.** The inductive invariant is the conjunction of the checked
  invariants with `TimelockStartsAfterSlash`: a running exit started no
  earlier than the last slash. Without it the step of claimStake does not give
  `FullTimelockAfterSlash`.
* **PayoutVault.** Fee and net together are the claim (`FeeAndNetAreTheClaim`).
  Two facts are added: an event that is not paid out has taken
  nothing (`UnpaidTookNothing`; without it the payout could be a second one)
  and a ticket without a deposit was neither returned nor refunded
  (`UndepositedIsUntouched`; without it its later deposit would not be held). `PayoutIsHeld` and
  `SolventUnlessOverdrawn` follow from the same invariant. `OverdrawnByLostTicket`
  says when an event is overdrawn at all: what the vendor got and may still claim
  is within its deposits (`WithinDeposits`, inductive with the rest), so more than
  what is held was paid only if a ticket left afterwards.
* **BuybackPool.** The invariant adds that a refunded ticket has a deposit; each
  action's effect on the sums is one lemma (`TicketChange`, `TreasuryPaid`). Of the
  circuit, `NoBuybackEver` is the finding of the run `buyback_circuit` for every
  price, rate and float: the invariant that no deposit is registered and none was
  returned (`NoBuybacks`) disables every buyback and resale, and is kept because
  they are disabled. `CircuitIsSafe` is the other side of it: neither contract
  leaves its own specification, so their theorems hold in the circuit.
* **TicketPurchase.** The invariant relates tasks, transactions and rows: a task
  exists for rows only, a confirmed job's deposit is in the vault, and the
  requests that are still enqueueing own disjoint sets of tickets nobody works
  on (`TasksFollowTickets`). Seats are proved with the count
  (`SeatsFollowCount`): live seats do not exceed it until a ticket fails. With the
  same invariant each step is a step of `TicketSale` or a stutter
  (`PurchaseImplemented`): the activation needs that a confirmed deposit is in the
  vault, the failure that a pending ticket was not refunded.
* **EventLifecycle.** The invariant adds the shape of the vault's records, that
  an event's kickoff is one the vault may be given (`KnownKickoffs`), and that
  every task in the queue or late on the chain has its cause in the
  event's or ticket's history (`TasksHaveCause`). From it each step is a step
  of the vault or a stutter, which is `VaultImplemented`. `HeldUnlessPostponed`
  rests on a second invariant, `PostponementInv`: until it is postponed, an event's
  kickoff is the one registered with the vault (`KickoffAgrees`), only fans of
  postponed events opt out, and the vault's clock has started.
* **The vault in the system.** `VP` is an instance of `PayoutVaultProofs` within
  `EventLifecycleProofs`, so what is proved of the vault alone is cited for the
  whole system, not argued on paper: its assumptions hold there
  (`VaultAssumptionApplies`), the system's steps are its steps
  (`VaultTheoremsApply`), and its accounts hold (`VaultAccountsHold`). Together with
  the causes of refunds this says who pays for an overdraft:
  `OverdraftsHaveCause`, and from it `SystemIsSolvent`: as long as no event that
  was paid out is cancelled, postponed or had a ticket bought back, the vault
  covers all it owes for every other event at once. Without that condition it
  need not (see the findings).
* **SubmitTx.** The invariant adds that a transaction has one fate (`OneFate`),
  that a call that returned was executed, that pending nonces are distinct and
  not used (`PendingInOrder`), and the gap property for every nonce a worker
  holds, sent or not (`GapBelowNonce`): without it a worker that sends late
  could open a gap. With it each step of `SubmitTx` is also a step of
  `ChainCall` or a stutter (`CallImplemented`).
* **EventListener.** The range of a poll begins after the cursor and ends within
  the chain (`RangeFollowsCursor`); what is below the cursor, or in the range and
  of a kind the poll is past, was handled or its fetch failed (`ScannedIsHandled`);
  and a log was handled at most once for each interruption and once more when it
  is scanned (`HandledForCause`). The last is stronger than the property, which
  forgets whether the scan that counts is over.
* **SignIn.** Of two requests between update and commit each is recorded as
  overlapping the other, and an unused row that such a request did not find is of
  one that overlapped it (`OverlapRecorded`): without the second half the commit
  of the later one could leave two codes nobody has recorded. An attempt that may
  still sign in, or has, holds a row that is contested when another holds it too
  (`ClaimsRecorded`).
* **Gate.** Whatever an admission may rest on was so at the time it bears: each
  ticket of a response, of a cache and in a terminal's hands was valid when the
  response was logged or the ticket found (`GateInv`, with `Truthful` and
  `ValidAt`). The property follows since a fresh status bounds that time.
* **BuybackFlow.** Two invariants. The first relates records, tasks and
  transactions (`Protocol`), with `ConfirmedIsPaid` and `FailureLeaves`: a
  receipt is of a paid record, and a record with a transaction of a former
  attempt or delivery is in `left`. The second relates the counts a
  request has read to those of the database: `OverlapRecorded` says that of two
  requests between their reads and writes the pair is in `overlap`, and
  `LimitKept`, `StatsKept` and `CapKept` say what a request that overlapped no
  other may rely on when it commits; the cap needs `BoughtBackIsLeft`, that a
  bought-back ticket never becomes active again.

Only model-checked: `PendingIsSettled` and `EveryBlockScanned`, which are liveness,
and `BuybackPossible`, which is about ENABLED; both are out of the prover's reach
(`NoBuybackEver` states the latter's failure without ENABLED).

## 5. Where code and words disagree

The violation run and the other findings are in `PROJECT.json`, each with the
line quoted. In short:

* no buyback can succeed: the vault never calls `receiveDeposit()`
  (`buyback_circuit`);
* an opt-out after an event's payout is paid with other events' deposits;
* a ticket can be voided and refunded while its deposit confirms;
* a postponement does not reach the vault, which pays by the old kickoff;
* two concurrent opt-outs of one ticket are both credited;
* a second slash takes another 15% of the original stake;
* seat numbers repeat after a ticket has failed, and a deposit that exhausts its
  attempts fails the ticket without a refund;
* nothing calls `activate_relist`; buybacks name a group id where the chain knows
  ticket ids, open at 80% instead of 100% of sales, take a single ticket of any
  status, and of an event of any status;
* a buyback that is delivered again after it was paid is marked failed;
* two sign-ins that overlap use one code twice;
* invalid codes at the gate are not logged, and a device is told "ok" about a
  sync it did not get or that was of another event;
* the user model lacks `smart_wallet_address`, so no deposit can be sent; the
  contracts, the gate's services and the event listener's state class do not
  compile or import; the ticket's status column is shorter than its values;
* the composed worker reads other queues than the one tasks are sent to, does not
  know the chain tasks, and runs without a tenant's schema: the models assume a
  worker that reads, knows and finds what its tasks need.

## 6. Not modelled

* The payments webhook (it changes nothing), the audit log, the delivery of
  messages, templates, administration and migrations: no state the logic reads
  back.
* Registration, e-mail sign-in and the approval of accounts: single writes of a
  user row.
* The sale of relisted tickets: the repository has the contract's
  `depositResale` (in `BuybackPool`) and the task submit_resale_deposit, which
  nothing calls and whose RelistRecord nothing creates.
* Reorganisations of the chain, for the listener and for receipts: the code waits
  for no confirmations, and any property would be one of the chain.
* A retry that is published twice: a worker that dies between publishing a retry
  and acknowledging the attempt leaves both messages, and two deliveries of one
  task run side by side. A task is one message at a time in the models.
* TOTP codes and their collisions: a code stands for its ticket.
* Amounts of buyback records: the pool's own shares are in `BuybackPool`.

What is left to do: an abstract specification of the buyback, from the fan's
request to the pool's payment, implemented by `BuybackFlow`; a composition of
`EventLifecycle` with `StakeEscrow`, whose slashes are a count in it.

## 7. Running

    tlc -workers 2 -config MCPayoutVault.cfg MCPayoutVault
    tlapm PayoutVaultProofs.tla

A proof module takes from half a minute to four minutes. `event_lifecycle` takes two and
a half minutes, the run for liveness and refinement one and a half, `ticket_purchase`,
`gate`, `sign_in` and `buyback_flow` about a minute each, every other run a few seconds.
