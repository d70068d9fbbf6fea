---------------------------- MODULE EventListener ----------------------------
(***************************************************************************)
(* The listener process: it polls the chain, hands the contracts' logs of  *)
(* the blocks after its cursor to a handler, kind by kind and block by     *)
(* block, and stores the cursor.  It is modelled as it is meant, with the  *)
(* database row for the cursor that the repository does not define.        *)
(*                                                                         *)
(* The kinds of events are numbered in the order of _poll_once().  A block *)
(* has at most one log of a kind.  The chain has no reorganisations.       *)
(***************************************************************************)
EXTENDS Integers

CONSTANTS
    Kinds,          \* number of kinds of events (5)
    Chunk,          \* BLOCKS_PER_CHUNK (100)
    MaxBlock,       \* bound on the chain
    MaxInterrupts   \* bound on polls that do not reach their end

ASSUME ListenerAssumption ==
    /\ Kinds \in Nat \ {0} /\ Chunk \in Nat \ {0}
    /\ MaxBlock \in Nat /\ MaxInterrupts \in Nat

VARIABLES
    latest,     \* eth.block_number
    logs,       \* <<block, kind>> of the logs on the chain
    cursor,     \* last_processed_block in the database
    phase,      \* 0: between two polls; k: before the fetch of kind k;
                \* Kinds + 1: before the cursor is saved
    from, to,   \* blocks of the poll
    handled,    \* how often the log at <<block, kind>> went to its handler
    unfetched,  \* logs of a range whose fetch failed
    interrupts  \* polls that did not reach their end

listenerVars == <<latest, logs, cursor, phase, from, to, handled, unfetched, interrupts>>

Slots == (1..MaxBlock) \X (1..Kinds)

\* The logs of kind k that a fetch of the blocks from a to b returns.
LogsOf(k, a, b) == {l \in logs : l[1] \in a..b /\ l[2] = k}

ListenerInit ==
    /\ latest = 0 /\ logs = {}
    /\ cursor = 0
    /\ phase = 0 /\ from = 1 /\ to = 0
    /\ handled = [l \in Slots |-> 0]
    /\ unfetched = {}
    /\ interrupts = 0

\* The chain gets a block with one log of each of the given kinds.
NewBlock(kinds) ==
    /\ latest < MaxBlock
    /\ latest' = latest + 1
    /\ logs' = logs \cup {<<latest', k>> : k \in kinds}
    /\ UNCHANGED <<cursor, phase, from, to, handled, unfetched, interrupts>>

\* Mutant: the range may end beyond the chain's last block.
PollAhead ==
    /\ phase = 0
    /\ cursor < latest
    /\ phase' = 1
    /\ from' = cursor + 1
    /\ to' = cursor + Chunk
    /\ UNCHANGED <<latest, logs, cursor, handled, unfetched, interrupts>>

\* Mutant: the poll starts at the block scanned last.
PollOverlapping ==
    /\ phase = 0
    /\ cursor < latest
    /\ phase' = 1
    /\ from' = cursor
    /\ to' = IF cursor + Chunk <= latest THEN cursor + Chunk ELSE latest
    /\ UNCHANGED <<latest, logs, cursor, handled, unfetched, interrupts>>

\* Mutant: a poll waits until a whole chunk is there.
PollWholeChunks ==
    /\ phase = 0
    /\ cursor + Chunk <= latest
    /\ phase' = 1
    /\ from' = cursor + 1
    /\ to' = cursor + Chunk
    /\ UNCHANGED <<latest, logs, cursor, handled, unfetched, interrupts>>

\* _poll_once() chooses at most a chunk of the blocks after the cursor; with no
\* new block it returns.
Poll ==
    /\ phase = 0
    /\ cursor < latest
    /\ phase' = 1
    /\ from' = cursor + 1
    /\ to' = IF cursor + Chunk <= latest THEN cursor + Chunk ELSE latest
    /\ UNCHANGED <<latest, logs, cursor, handled, unfetched, interrupts>>

\* The logs of the next kind are fetched and handled; a handler's exception is
\* logged and swallowed.
Fetch ==
    /\ phase \in 1..Kinds
    /\ handled' = [l \in Slots |-> IF l \in LogsOf(phase, from, to)
                                   THEN handled[l] + 1 ELSE handled[l]]
    /\ phase' = phase + 1
    /\ UNCHANGED <<latest, logs, cursor, from, to, unfetched, interrupts>>

\* The fetch raises: a warning is logged, and the poll goes on.
FetchFails ==
    /\ phase \in 1..Kinds
    /\ unfetched' = unfetched \cup LogsOf(phase, from, to)
    /\ phase' = phase + 1
    /\ UNCHANGED <<latest, logs, cursor, from, to, handled, interrupts>>

SaveCursor ==
    /\ phase = Kinds + 1
    /\ cursor' = to
    /\ phase' = 0
    /\ UNCHANGED <<latest, logs, from, to, handled, unfetched, interrupts>>

\* The process dies and is restarted, or an exception reaches run(): of the
\* logs of the kind at hand, those up to block b have been handled.
Interrupt(b) ==
    /\ phase # 0
    /\ interrupts < MaxInterrupts
    /\ handled' = [l \in Slots |-> IF l \in LogsOf(phase, from, b)
                                   THEN handled[l] + 1 ELSE handled[l]]
    /\ phase' = 0
    /\ interrupts' = interrupts + 1
    /\ UNCHANGED <<latest, logs, cursor, from, to, unfetched>>

ListenerNext ==
    \/ \E kinds \in SUBSET (1..Kinds) : NewBlock(kinds)
    \/ Poll
    \/ Fetch
    \/ FetchFails
    \/ SaveCursor
    \/ \E b \in (from - 1)..to : Interrupt(b)

ListenerSpec == ListenerInit /\ [][ListenerNext]_listenerVars

\* run() polls for ever and its container is restarted when it stops; a fetch
\* returns or raises.  The chain owes no blocks and no fetch has to succeed.
ListenerFairness == WF_listenerVars(Poll) /\ WF_listenerVars(Fetch \/ FetchFails) /\ WF_listenerVars(SaveCursor)

FairListenerSpec == ListenerSpec /\ ListenerFairness

-----------------------------------------------------------------------------
\* A log the cursor has passed was handled, or the fetch that covered it
\* failed: no block is skipped, and none passed before the chain has it,
\* wherever the process dies ("Persists last_block in DB to survive restarts").
HandledOrUnfetched ==
    /\ cursor <= latest
    /\ \A l \in logs : l[1] <= cursor => handled[l] > 0 \/ l \in unfetched

\* A log is handled again only because a poll was interrupted, and the vendor
\* or fan it concerns is notified at most once for each time.
RepeatsOnlyAfterInterrupt ==
    \A l \in logs : handled[l] <= 1 + interrupts

\* Every block the chain gets is scanned in the end.
EveryBlockScanned ==
    \A b \in 1..MaxBlock : (latest >= b) ~> (cursor >= b)
=============================================================================
