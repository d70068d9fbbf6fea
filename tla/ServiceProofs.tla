---------------------------- MODULE ServiceProofs ----------------------------
(***************************************************************************)
(* Proofs about the four parts of the service that keep no money and no    *)
(* state in common: submit_tx() (SubmitTx), the event listener             *)
(* (EventListener), the sign-in (SignIn) and the gate (Gate).  The modules *)
(* share no name, so that one module can hold their proofs; each part has  *)
(* its own inductive invariant, and no proof uses another part's.          *)
(***************************************************************************)
EXTENDS SubmitTx, EventListener, SignIn, Gate, TLAPS

-----------------------------------------------------------------------------
(* submit_tx(). *)

Sent == pool \cup executed \cup reverted \cup dropped

\* A transaction has one fate, and its call has got past its sending.
OneFate ==
    /\ pool \cap (executed \cup reverted \cup dropped) = {}
    /\ executed \cap (reverted \cup dropped) = {}
    /\ \A c \in Sent : pc[c] \in {"waiting", "returned", "raised"}

ReturnedIsExecuted == \A c \in Calls : pc[c] = "returned" => c \in executed

PendingInOrder ==
    \A c \in pool : nonce[c] >= mined /\ \A d \in pool : nonce[c] = nonce[d] => c = d

\* GapWasDropped for the nonces that workers hold, pending or not: a worker that
\* has not yet sent, or that lost its nonce to another, sees the same gaps.
GapBelowNonce ==
    \A c \in Calls : \A n \in mined..(nonce[c] - 1) :
        Pending(n) \/ \E d \in dropped : nonce[d] = n

SubmitInv == SubmitTypeOK /\ OneFate /\ ReturnedIsExecuted /\ PendingInOrder /\ GapBelowNonce

-----------------------------------------------------------------------------
\* Every step keeps the types.
LEMMA SubmitTypeStep ==
    ASSUME SubmitTypeOK, [SubmitNext]_submitVars
    PROVE  SubmitTypeOK'
<1>1. CASE UNCHANGED submitVars
  BY <1>1 DEF SubmitTypeOK, submitVars
<1>2. CASE \E c \in Calls : Estimate(c) \/ Return(c) \/ Raise(c)
  BY <1>2 DEF SubmitTypeOK, Estimate, Return, Raise, Goto
<1>3. ASSUME NEW c \in Calls, ReadNonce(c)
      PROVE  SubmitTypeOK'
  BY <1>3 DEF SubmitTypeOK, ReadNonce, Goto
<1>4. CASE \E c \in Calls : Broadcast(c)
  BY <1>4 DEF SubmitTypeOK, Broadcast, Goto
<1>5. CASE \E c \in Calls : Mine(c) \/ Drop(c)
  BY <1>5 DEF SubmitTypeOK, Mine, Drop
<1>6. QED
  BY <1>1, <1>2, <1>3, <1>4, <1>5 DEF SubmitNext

\* Every step keeps the fate of a transaction, and what its call returned.
LEMMA FateKept ==
    ASSUME SubmitInv, [SubmitNext]_submitVars
    PROVE  OneFate' /\ ReturnedIsExecuted'
<1> USE DEF SubmitInv, SubmitTypeOK, OneFate, ReturnedIsExecuted, Sent
<1>1. CASE UNCHANGED submitVars
  BY <1>1 DEF submitVars
<1>2. CASE \E c \in Calls : Estimate(c)
  BY <1>2 DEF Estimate, Goto
<1>3. CASE \E c \in Calls : ReadNonce(c)
  BY <1>3 DEF ReadNonce, Goto
<1>4. CASE \E c \in Calls : Broadcast(c)
  BY <1>4 DEF Broadcast, Goto
<1>5. CASE \E c \in Calls : Return(c) \/ Raise(c)
  BY <1>5 DEF Return, Raise, Goto
<1>6. CASE \E c \in Calls : Mine(c)
  BY <1>6 DEF Mine
<1>7. CASE \E c \in Calls : Drop(c)
  BY <1>7 DEF Drop
<1>8. QED
  BY <1>1, <1>2, <1>3, <1>4, <1>5, <1>6, <1>7 DEF SubmitNext

\* Every step keeps the order of the pending nonces and their gaps.
LEMMA NoncesKept ==
    ASSUME SubmitInv, [SubmitNext]_submitVars
    PROVE  PendingInOrder' /\ GapBelowNonce'
<1> USE DEF SubmitInv, SubmitTypeOK, PendingInOrder, GapBelowNonce, Pending
<1>1. CASE UNCHANGED <<nonce, pool, mined, dropped>>
  BY <1>1
<1>2. ASSUME NEW c \in Calls, ReadNonce(c)
      PROVE  PendingInOrder' /\ GapBelowNonce'
  <2>1. c \notin pool /\ c \notin dropped
    BY <1>2 DEF ReadNonce, OneFate, Sent
  <2>2. \A d \in Calls \ {c} : nonce'[d] = nonce[d]
    BY <1>2 DEF ReadNonce
  <2>3. nonce'[c] \in Int /\ \A k \in mined..(nonce'[c] - 1) : Pending(k)
    BY <1>2 DEF ReadNonce
  <2>4. UNCHANGED <<pool, mined, dropped>>
    BY <1>2 DEF ReadNonce
  <2>5. PendingInOrder'
    BY <2>1, <2>2, <2>4
  <2>6. \A n \in Int : /\ Pending(n) => Pending(n)'
                       /\ (\E d \in dropped : nonce[d] = n)
                            => \E d \in dropped' : nonce'[d] = n
    BY <2>1, <2>2, <2>4
  <2>7. GapBelowNonce'
    BY <2>2, <2>3, <2>4, <2>6
  <2>8. QED
    BY <2>5, <2>7
<1>3. ASSUME NEW c \in Calls, Broadcast(c)
      PROVE  PendingInOrder' /\ GapBelowNonce'
  BY <1>3 DEF Broadcast
<1>4. ASSUME NEW c \in Calls, Mine(c)
      PROVE  PendingInOrder' /\ GapBelowNonce'
  <2>1. /\ c \in pool /\ nonce[c] = mined
        /\ mined' = mined + 1 /\ pool' = pool \ {c}
        /\ UNCHANGED <<nonce, dropped>>
    BY <1>4 DEF Mine
  <2>2. PendingInOrder'
    BY <2>1
  <2>3. \A n \in Int : n > mined /\ Pending(n) => Pending(n)'
    BY <2>1
  <2>4. GapBelowNonce'
    BY <2>1, <2>3
  <2>5. QED
    BY <2>2, <2>4
<1>5. ASSUME NEW c \in Calls, Drop(c)
      PROVE  PendingInOrder' /\ GapBelowNonce'
  BY <1>5 DEF Drop
<1>6. QED
  BY <1>1, <1>2, <1>3, <1>4, <1>5 DEF SubmitNext, submitVars, Estimate, Return, Raise

\* The invariant holds in every reachable state.
LEMMA SubmitInvariant == SubmitSpec => []SubmitInv
<1>1. SubmitInit => SubmitInv
  BY DEF SubmitInit, SubmitInv, SubmitTypeOK, OneFate, Sent, ReturnedIsExecuted, PendingInOrder,
         GapBelowNonce
<1>2. SubmitInv /\ [SubmitNext]_submitVars => SubmitInv'
  BY SubmitTypeStep, FateKept, NoncesKept DEF SubmitInv
<1>3. QED
  BY <1>1, <1>2, PTL DEF SubmitSpec

\* submit_tx() and the node keep every variable in its type.
THEOREM SubmitTypeCorrect == SubmitSpec => []SubmitTypeOK
<1>1. SubmitInv => SubmitTypeOK
  BY DEF SubmitInv
<1>2. QED
  BY <1>1, SubmitInvariant, PTL

\* A nonce missing before a pending transaction belongs to a dropped one,
\* however many workers race for nonces.
THEOREM OnlyDroppedGaps == SubmitSpec => []GapWasDropped
<1>1. SubmitInv => GapWasDropped
  BY DEF SubmitInv, SubmitTypeOK, GapBelowNonce, GapWasDropped
<1>2. QED
  BY <1>1, SubmitInvariant, PTL

-----------------------------------------------------------------------------
\* What has become of a transaction, and what submit_tx() gave.
Transaction == [c \in Calls |-> IF c \in executed THEN "executed"
                                ELSE IF c \in pool THEN "sent"
                                ELSE IF c \in reverted \cup dropped THEN "gone"
                                ELSE "none"]

Result == [c \in Calls |-> IF pc[c] = "returned" THEN "receipt"
                           ELSE IF pc[c] = "raised" THEN "raised" ELSE "none"]

\* At first no call has sent anything and none has returned.
LEMMA InterfaceInit == SubmitInit => Interface!Init
  BY DEF SubmitInit, Interface!Init

\* Every step is a step of ChainCall or changes nothing that a caller sees.
LEMMA InterfaceStep ==
    ASSUME SubmitInv, [SubmitNext]_submitVars
    PROVE  [Interface!Next]_(Interface!vars)
<1> USE DEF SubmitInv, SubmitTypeOK, OneFate, Sent
<1> DEFINE Same == Transaction' = Transaction /\ Result' = Result
<1>1. ASSUME Same
      PROVE  UNCHANGED Interface!vars
  BY <1>1 DEF Interface!vars, Transaction, Result
<1>2. CASE UNCHANGED submitVars
  BY <1>2, <1>1 DEF submitVars, Transaction, Result
<1>3. ASSUME NEW c \in Calls, Estimate(c) \/ ReadNonce(c)
      PROVE  Same
  BY <1>3 DEF Estimate, ReadNonce, Goto, Transaction, Result
<1>4. ASSUME NEW c \in Calls, Broadcast(c)
      PROVE  Interface!Send(c)
  BY <1>4 DEF Broadcast, Goto, Interface!Send
<1>5. ASSUME NEW c \in Calls, Return(c)
      PROVE  Interface!Return(c)
  BY <1>5 DEF Return, Goto, Interface!Return
<1>6. ASSUME NEW c \in Calls, Raise(c)
      PROVE  Interface!Raise(c)
  BY <1>6 DEF Raise, Goto, Interface!Raise
<1>7. ASSUME NEW c \in Calls, Mine(c) \/ Drop(c)
      PROVE  Interface!Settle(c)
  BY <1>7 DEF Mine, Drop, Interface!Settle
<1>8. QED
  BY <1>1, <1>2, <1>3, <1>4, <1>5, <1>6, <1>7 DEF SubmitNext, Interface!Next

\* submit_tx() with its nonces and the node implements what its callers assume.
THEOREM CallImplemented == SubmitSpec => ImplementsChainCall
<1>1. SubmitInv /\ [SubmitNext]_submitVars => [Interface!Next]_(Interface!vars)
  BY InterfaceStep
<1>2. QED
  BY <1>1, InterfaceInit, SubmitInvariant, PTL
  DEF SubmitSpec, ImplementsChainCall, Interface!Spec

-----------------------------------------------------------------------------
(* The event listener. *)

\* Every variable of the listener and of the chain it reads keeps its type.
ListenerTypeOK ==
    /\ latest \in 0..MaxBlock
    /\ logs \subseteq (1..latest) \X (1..Kinds)
    /\ cursor \in 0..latest
    /\ phase \in 0..(Kinds + 1)
    /\ from \in Nat /\ to \in Nat
    /\ handled \in [Slots -> Nat]
    /\ unfetched \subseteq Slots
    /\ interrupts \in Nat

\* A poll's range begins after the cursor and ends within the chain.
RangeFollowsCursor ==
    phase # 0 => from = cursor + 1 /\ from <= to /\ to <= latest

\* The log was looked at: before the cursor, or by the poll that is on.
Scanned(l) ==
    \/ l[1] <= cursor
    \/ phase # 0 /\ l[1] \in from..to /\ l[2] < phase

ScannedIsHandled == \A l \in logs : Scanned(l) => handled[l] > 0 \/ l \in unfetched

\* Each interruption may have handled a log once, and the scan that counts once
\* more.
HandledForCause ==
    \A l \in Slots :
        /\ l[1] > latest => handled[l] = 0
        /\ handled[l] <= interrupts + IF Scanned(l) THEN 1 ELSE 0

ListenerInv ==
    ListenerTypeOK /\ RangeFollowsCursor /\ ScannedIsHandled /\ HandledForCause

\* A log lies in a block of the chain and is of one of the kinds.
LEMMA LogsAreSlots ==
    ASSUME ListenerTypeOK, NEW l \in logs
    PROVE  l \in Slots /\ l[1] \in 1..latest /\ l[2] \in 1..Kinds
  BY ListenerAssumption DEF ListenerTypeOK, Slots

\* The invariant holds of the empty chain.
LEMMA ListenerStart == ListenerInit => ListenerInv
  BY ListenerAssumption DEF ListenerInit, ListenerInv, ListenerTypeOK, RangeFollowsCursor,
     ScannedIsHandled, HandledForCause, Scanned, Slots

\* A new block lies behind every range and behind the cursor.
LEMMA NewBlockKeeps ==
    ASSUME ListenerInv, NEW kinds \in SUBSET (1..Kinds), NewBlock(kinds)
    PROVE  ListenerInv'
<1> USE ListenerAssumption DEF ListenerInv, ListenerTypeOK, NewBlock
<1>1. \A l \in logs' : l \in logs \/ (l[1] = latest + 1 /\ l[2] \in 1..Kinds)
  OBVIOUS
<1>2. ListenerTypeOK'
  OBVIOUS
<1>3. RangeFollowsCursor'
  BY DEF RangeFollowsCursor
<1>4. \A l : Scanned(l)' = Scanned(l)
  BY DEF Scanned
<1>5. \A l \in logs' : Scanned(l)' => l \in logs
  BY <1>1 DEF Scanned, RangeFollowsCursor
<1>6. ScannedIsHandled'
  BY <1>4, <1>5 DEF ScannedIsHandled
<1>7. HandledForCause'
  BY <1>4 DEF HandledForCause, Slots
<1> QED
  BY <1>2, <1>3, <1>6, <1>7

\* A poll fixes its range and scans nothing yet.
LEMMA PollKeeps ==
    ASSUME ListenerInv, Poll
    PROVE  ListenerInv'
<1> USE ListenerAssumption DEF ListenerInv, ListenerTypeOK, Poll
<1>1. ListenerTypeOK' /\ RangeFollowsCursor'
  BY DEF RangeFollowsCursor
<1>2. \A l \in Slots : Scanned(l)' = Scanned(l)
  BY DEF Scanned, Slots
<1>3. ScannedIsHandled'
  BY <1>2, LogsAreSlots DEF ScannedIsHandled
<1>4. HandledForCause'
  BY <1>2 DEF HandledForCause
<1> QED
  BY <1>1, <1>3, <1>4

\* Whether a fetch succeeds or fails, the logs of its kind in the range are
\* scanned, and no others.
LEMMA FetchScans ==
    ASSUME ListenerInv, phase \in 1..Kinds, phase' = phase + 1,
           UNCHANGED <<latest, logs, cursor, from, to>>, NEW l \in Slots
    PROVE  Scanned(l)' <=> Scanned(l) \/ (l[1] \in from..to /\ l[2] = phase)
  BY ListenerAssumption DEF ListenerInv, ListenerTypeOK, Scanned, Slots

\* What is fetched is handled once more, and is scanned from now on.
LEMMA FetchKeeps ==
    ASSUME ListenerInv, Fetch
    PROVE  ListenerInv'
<1> USE ListenerAssumption DEF ListenerInv, ListenerTypeOK
<1>1. ListenerTypeOK' /\ RangeFollowsCursor'
  BY DEF Fetch, RangeFollowsCursor
<1>2. \A l \in Slots : Scanned(l)' <=> Scanned(l) \/ (l[1] \in from..to /\ l[2] = phase)
  BY FetchScans DEF Fetch
<1>3. \A l \in Slots : handled'[l] = IF l \in LogsOf(phase, from, to)
                                     THEN handled[l] + 1 ELSE handled[l]
  BY DEF Fetch
<1>4. ScannedIsHandled'
  BY <1>2, <1>3, LogsAreSlots DEF ScannedIsHandled, Fetch, LogsOf
<1>5. HandledForCause'
  <2>1. ASSUME NEW l \in Slots, l \in LogsOf(phase, from, to)
        PROVE  ~Scanned(l) /\ Scanned(l)' /\ l[1] <= latest
    BY <1>2, <2>1, LogsAreSlots DEF LogsOf, Scanned, RangeFollowsCursor, Fetch
  <2> QED
    BY <1>2, <1>3, <2>1 DEF HandledForCause, Fetch
<1> QED
  BY <1>1, <1>4, <1>5

\* What is not fetched is scanned and known to be unfetched.
LEMMA FetchFailsKeeps ==
    ASSUME ListenerInv, FetchFails
    PROVE  ListenerInv'
<1> USE ListenerAssumption DEF ListenerInv, ListenerTypeOK
<1>1. LogsOf(phase, from, to) \subseteq Slots
  BY LogsAreSlots DEF LogsOf
<1>2. ListenerTypeOK' /\ RangeFollowsCursor'
  BY <1>1 DEF FetchFails, RangeFollowsCursor
<1>3. \A l \in Slots : Scanned(l)' <=> Scanned(l) \/ (l[1] \in from..to /\ l[2] = phase)
  BY FetchScans DEF FetchFails
<1>4. ScannedIsHandled'
  BY <1>3, LogsAreSlots DEF ScannedIsHandled, FetchFails, LogsOf
<1>5. HandledForCause'
  BY <1>3 DEF HandledForCause, FetchFails
<1> QED
  BY <1>2, <1>4, <1>5

\* The cursor passes what the poll has scanned and nothing else.
LEMMA SaveCursorKeeps ==
    ASSUME ListenerInv, SaveCursor
    PROVE  ListenerInv'
<1> USE ListenerAssumption DEF ListenerInv, ListenerTypeOK, SaveCursor
<1>1. ListenerTypeOK' /\ RangeFollowsCursor'
  BY DEF RangeFollowsCursor
<1>2. \A l \in Slots : Scanned(l)' <=> Scanned(l)
  BY DEF Scanned, Slots, RangeFollowsCursor
<1>3. ScannedIsHandled'
  BY <1>2, LogsAreSlots DEF ScannedIsHandled
<1>4. HandledForCause'
  BY <1>2 DEF HandledForCause
<1> QED
  BY <1>1, <1>3, <1>4

\* A scan that is interrupted counts for nothing, except that its logs may have
\* been handled: the interruption answers for that.
LEMMA InterruptKeeps ==
    ASSUME ListenerInv, NEW b \in (from - 1)..to, Interrupt(b)
    PROVE  ListenerInv'
<1> USE ListenerAssumption DEF ListenerInv, ListenerTypeOK
<1>1. ListenerTypeOK' /\ RangeFollowsCursor'
  BY DEF Interrupt, RangeFollowsCursor
<1>2. \A l : Scanned(l)' => l[1] <= cursor /\ Scanned(l)
  BY DEF Interrupt, Scanned
<1>3. \A l \in Slots : handled'[l] = IF l \in LogsOf(phase, from, b)
                                     THEN handled[l] + 1 ELSE handled[l]
  BY DEF Interrupt
<1>4. ScannedIsHandled'
  BY <1>2, <1>3, LogsAreSlots DEF ScannedIsHandled, Interrupt
<1>5. HandledForCause'
  <2>1. ASSUME NEW l \in Slots, l \in LogsOf(phase, from, b)
        PROVE  ~Scanned(l) /\ l[1] <= latest
    BY <2>1, LogsAreSlots DEF LogsOf, Scanned, RangeFollowsCursor, Interrupt
  <2>2. interrupts' = interrupts + 1 /\ UNCHANGED latest
    BY DEF Interrupt
  <2>3. ASSUME NEW l \in Slots
        PROVE  handled'[l] <= interrupts' + IF Scanned(l)' THEN 1 ELSE 0
    <3>1. CASE l \in LogsOf(phase, from, b)
      BY <1>3, <2>1, <2>2, <3>1 DEF HandledForCause
    <3>2. CASE l \notin LogsOf(phase, from, b)
      BY <1>3, <2>2, <3>2 DEF HandledForCause
    <3> QED
      BY <3>1, <3>2
  <2>4. \A l \in Slots : l[1] > latest' => handled'[l] = 0
    BY <1>3, <2>1, <2>2 DEF HandledForCause, Slots
  <2> QED
    BY <2>3, <2>4 DEF HandledForCause
<1> QED
  BY <1>1, <1>4, <1>5

\* The invariant holds in every reachable state.
LEMMA ListenerInvariant == ListenerSpec => []ListenerInv
<1>1. ListenerInv /\ [ListenerNext]_listenerVars => ListenerInv'
  <2> SUFFICES ASSUME ListenerInv, [ListenerNext]_listenerVars
               PROVE  ListenerInv'
    OBVIOUS
  <2>1. CASE UNCHANGED listenerVars
    BY <2>1 DEF listenerVars, ListenerInv, ListenerTypeOK, RangeFollowsCursor,
       ScannedIsHandled, HandledForCause, Scanned
  <2> QED
    BY <2>1, NewBlockKeeps, PollKeeps, FetchKeeps, FetchFailsKeeps, SaveCursorKeeps,
       InterruptKeeps DEF ListenerNext
<1> QED
  BY <1>1, ListenerStart, PTL DEF ListenerSpec

\* The listener and the chain keep every variable in its type.
THEOREM ListenerTypeCorrect == ListenerSpec => []ListenerTypeOK
<1>1. ListenerInv => ListenerTypeOK
  BY DEF ListenerInv
<1> QED
  BY <1>1, ListenerInvariant, PTL

\* Every log up to the cursor was handled or is known to be unfetched: no block is
\* skipped, however long the chain grows during a scan.
THEOREM NoLogSkipped == ListenerSpec => []HandledOrUnfetched
<1>1. ListenerInv => HandledOrUnfetched
  BY ListenerAssumption DEF ListenerInv, ListenerTypeOK, ScannedIsHandled, Scanned,
     HandledOrUnfetched
<1> QED
  BY <1>1, ListenerInvariant, PTL

\* A log is handled again only for a scan that was interrupted.
THEOREM LogsRepeatForCause == ListenerSpec => []RepeatsOnlyAfterInterrupt
<1>1. ListenerInv => RepeatsOnlyAfterInterrupt
  BY LogsAreSlots DEF ListenerInv, ListenerTypeOK, HandledForCause, RepeatsOnlyAfterInterrupt
<1> QED
  BY <1>1, ListenerInvariant, PTL

-----------------------------------------------------------------------------
(* The sign-in. *)

\* What an issue and an attempt consist of.
IssueState == [pc : {"start", "marked", "done"}, code : Codes, found : SUBSET Issues]

AttemptState == [pc   : {"start", "found", "valid", "done"},
                 code : Codes,
                 row  : SUBSET Issues]

\* Every variable of the sign-in keeps its type.
SignInTypeOK ==
    /\ clock \in Nat
    /\ issue \in [Issues -> IssueState]
    /\ rows \in Seq(Issues)
    /\ createdAt \in [Issues -> Nat]
    /\ used \subseteq Issues
    /\ attempt \in [Attempts -> AttemptState]
    /\ signedIn \subseteq Attempts
    /\ overlap \subseteq SUBSET Issues
    /\ contested \subseteq Issues

Marked == {i \in Issues : issue[i].pc = "marked"}

\* Of two requests between their update and their commit, each is known to have
\* overlapped the other; and an unused row that the update of such a request did
\* not find was created after it.
OverlapRecorded ==
    /\ \A i, j \in Marked : i # j => {i, j} \in overlap
    /\ \A i \in Unused, j \in Marked : i \in issue[j].found \/ {i, j} \in overlap

\* A request has one row, which it creates at its end.
RowsAreDone == \A i \in Rows : issue[i].pc = "done"

\* Attempts that have read a row and may still sign in with it, or have.
Claims(a) == attempt[a].pc \in {"found", "valid"} \/ a \in signedIn

\* A claim is to a row; one that signed in has used it; two to one row are
\* recorded.
ClaimsRecorded ==
    /\ \A a \in Attempts : Claims(a) => attempt[a].row # {}
    /\ \A a \in signedIn : attempt[a].pc = "done" /\ attempt[a].row \subseteq used
    /\ \A a, b \in Attempts :
          a # b /\ Claims(a) /\ Claims(b) /\ attempt[a].row = attempt[b].row
              => attempt[a].row \subseteq contested

SignInInv ==
    /\ SignInTypeOK
    /\ OneLiveCode
    /\ OverlapRecorded
    /\ RowsAreDone
    /\ ClaimsRecorded

\* The updates of a request and of an attempt keep their types.
LEMMA MarkedTyped ==
    ASSUME issue \in [Issues -> IssueState], NEW i \in Issues, NEW rs \in SUBSET Issues
    PROVE  [issue EXCEPT ![i].pc = "marked", ![i].found = rs] \in [Issues -> IssueState]
<1>1. [issue[i] EXCEPT !.pc = "marked"] \in IssueState
  BY DEF IssueState
<1>2. [issue[i] EXCEPT !.pc = "marked", !.found = rs] \in IssueState
  BY <1>1 DEF IssueState
<1>3. [issue EXCEPT ![i].pc = "marked", ![i].found = rs]
        = [issue EXCEPT ![i] = [issue[i] EXCEPT !.pc = "marked", !.found = rs]]
  OBVIOUS
<1> QED
  BY <1>2, <1>3

LEMMA CreatedTyped ==
    ASSUME issue \in [Issues -> IssueState], NEW i \in Issues
    PROVE  [issue EXCEPT ![i].pc = "done"] \in [Issues -> IssueState]
  BY DEF IssueState

LEMMA FoundTyped ==
    ASSUME attempt \in [Attempts -> AttemptState], NEW a \in Attempts,
           NEW rs \in SUBSET Issues, NEW p \in {"found", "done"}
    PROVE  [attempt EXCEPT ![a].pc = p, ![a].row = rs] \in [Attempts -> AttemptState]
  BY DEF AttemptState

LEMMA StepTyped ==
    ASSUME attempt \in [Attempts -> AttemptState], NEW a \in Attempts,
           NEW p \in {"valid", "done"}
    PROVE  [attempt EXCEPT ![a].pc = p] \in [Attempts -> AttemptState]
  BY DEF AttemptState

\* The row that Create appends is the one that is added.
LEMMA RowsAfterAppend ==
    ASSUME rows \in Seq(Issues), NEW i \in Issues, rows' = Append(rows, i)
    PROVE  Rows' = Rows \cup {i}
  BY DEF Rows, ToSet

\* The newest row with a code is one of the unused.
LEMMA NewestIsUnused == ASSUME NEW code PROVE Newest(code) \subseteq Unused
  BY DEF Newest, Candidates

\* At first there are no rows and no claims.
LEMMA SignInStart == SignInInit => SignInInv
<1> SUFFICES ASSUME SignInInit PROVE SignInInv
  OBVIOUS
<1> USE DEF SignInInit
<1>1. Rows = {}
  BY DEF Rows, ToSet
<1>2. SignInTypeOK
  BY DEF SignInTypeOK, IssueState, AttemptState
<1> QED
  BY <1>1, <1>2 DEF SignInInv, OneLiveCode, OverlapRecorded, Unused, Marked,
     RowsAreDone, ClaimsRecorded, Claims

\* The update records the requests that it overlaps, and finds every row that is
\* unused.
LEMMA MarkUsedKeeps ==
    ASSUME SignInInv, NEW i \in Issues, MarkUsed(i)
    PROVE  SignInInv'
<1> USE DEF SignInInv, SignInTypeOK
<1>1. Rows \subseteq Issues
  BY DEF Rows, ToSet
<1>2. SignInTypeOK'
  <2>1. Unused \in SUBSET Issues
    BY <1>1 DEF Unused
  <2>2. issue' \in [Issues -> IssueState]
    BY <2>1, MarkedTyped DEF MarkUsed
  <2>3. overlap' \subseteq SUBSET Issues
    BY DEF MarkUsed
  <2> QED
    BY <2>2, <2>3 DEF MarkUsed
<1>3. Unused' = Unused /\ Rows' = Rows
  BY DEF MarkUsed, Unused, Rows
<1>4. overlap \subseteq overlap' /\ \A j \in Marked : {i, j} \in overlap'
  BY DEF MarkUsed, Marked
<1>5. Marked' = Marked \cup {i} /\ i \notin Marked
  BY DEF MarkUsed, Marked
<1>6. OneLiveCode'
  BY <1>3, <1>4 DEF OneLiveCode
<1>7. OverlapRecorded'
  <2>1. ASSUME NEW k \in Marked', NEW j \in Marked', k # j
        PROVE  {k, j} \in overlap'
    <3>1. {k, j} = {j, k}
      OBVIOUS
    <3> QED
      BY <1>4, <1>5, <2>1, <3>1 DEF OverlapRecorded
  <2>2. ASSUME NEW k \in Unused', NEW j \in Marked'
        PROVE  k \in issue'[j].found \/ {k, j} \in overlap'
    <3>1. CASE j = i
      BY <1>3, <3>1 DEF MarkUsed
    <3>2. CASE j # i
      BY <1>3, <1>4, <1>5, <3>2 DEF MarkUsed, OverlapRecorded, Marked
    <3> QED
      BY <3>1, <3>2
  <2> QED
    BY <2>1, <2>2 DEF OverlapRecorded
<1>8. RowsAreDone'
  BY <1>1, <1>3 DEF RowsAreDone, MarkUsed
<1>9. ClaimsRecorded'
  BY DEF ClaimsRecorded, Claims, MarkUsed
<1> QED
  BY <1>2, <1>6, <1>7, <1>8, <1>9

\* The new row is unused next to those only that the update did not find.
LEMMA CreateKeeps ==
    ASSUME SignInInv, NEW i \in Issues, Create(i)
    PROVE  SignInInv'
<1> USE DEF SignInInv, SignInTypeOK
<1>1. Rows' = Rows \cup {i}
  BY RowsAfterAppend DEF Create
<1>2. SignInTypeOK'
  <2>1. issue' \in [Issues -> IssueState]
    BY CreatedTyped DEF Create
  <2>2. used' \subseteq Issues
    BY DEF Create, IssueState
  <2> QED
    BY <2>1, <2>2 DEF Create
<1>3. /\ Unused' \subseteq (Unused \ issue[i].found) \cup {i}
      /\ used \subseteq used' /\ UNCHANGED overlap
  BY <1>1 DEF Create, Unused
<1>4. /\ Marked' = Marked \ {i} /\ i \in Marked
      /\ \A j \in Issues \ {i} : issue'[j] = issue[j]
  BY DEF Create, Marked
<1>5. \A k \in Unused' \ {i} : {k, i} \in overlap
  BY <1>3, <1>4 DEF OverlapRecorded
<1>6. OneLiveCode'
  <2> SUFFICES ASSUME NEW k \in Unused', NEW j \in Unused', k # j
               PROVE  {k, j} \in overlap
    BY <1>3 DEF OneLiveCode
  <2>1. {k, j} = {j, k}
    OBVIOUS
  <2> QED
    BY <1>3, <1>5, <2>1 DEF OneLiveCode
<1>7. OverlapRecorded'
  BY <1>3, <1>4 DEF OverlapRecorded, Marked
<1>8. RowsAreDone'
  BY <1>1 DEF RowsAreDone, Create
<1>9. ClaimsRecorded'
  BY <1>3 DEF ClaimsRecorded, Claims, Create
<1> QED
  BY <1>2, <1>6, <1>7, <1>8, <1>9

\* What an attempt does leaves the requests' part alone.
LEMMA RequestsKept ==
    ASSUME SignInInv, UNCHANGED <<issue, rows, overlap>>, used \subseteq used'
    PROVE  OneLiveCode' /\ OverlapRecorded' /\ RowsAreDone'
<1>1. Unused' \subseteq Unused /\ Rows' = Rows /\ Marked' = Marked
  BY DEF Unused, Rows, Marked
<1> QED
  BY <1>1 DEF SignInInv, OneLiveCode, OverlapRecorded, RowsAreDone

\* The row that an attempt finds was not used to sign in; an attempt that holds
\* it, too, is recorded.
LEMMA FindRowKeeps ==
    ASSUME SignInInv, NEW a \in Attempts, FindRow(a)
    PROVE  SignInInv'
<1> USE DEF SignInInv, SignInTypeOK
<1> DEFINE row == Newest(attempt[a].code)
<1>1. row \subseteq Unused /\ Unused \subseteq Issues
  BY NewestIsUnused DEF Unused, Rows, ToSet
<1>2. /\ attempt[a].pc = "start"
      /\ attempt' = [attempt EXCEPT ![a].pc = IF row = {} THEN "done" ELSE "found",
                                    ![a].row = row]
      /\ contested' = contested \cup (row \cap Held)
      /\ UNCHANGED <<clock, issue, rows, createdAt, used, signedIn, overlap>>
  BY DEF FindRow
<1> HIDE DEF row
<1>3. SignInTypeOK'
  <2>1. row \in SUBSET Issues /\ contested' \subseteq Issues
    BY <1>1, <1>2
  <2>2. attempt' \in [Attempts -> AttemptState]
    BY <1>2, <2>1, FoundTyped
  <2> QED
    BY <1>2, <2>1, <2>2
<1>4. a \notin signedIn
  BY <1>2 DEF ClaimsRecorded
<1>5. /\ Claims(a)' <=> row # {}
      /\ attempt'[a].row = row
      /\ \A b \in Attempts \ {a} : attempt'[b] = attempt[b] /\ (Claims(b)' <=> Claims(b))
  BY <1>2, <1>4 DEF Claims
<1>6. ASSUME NEW b \in Attempts \ {a}, Claims(b), attempt[b].row = row, row # {}
      PROVE  row \subseteq contested'
  <2>1. b \notin signedIn
    BY <1>1, <1>6 DEF ClaimsRecorded, Unused
  <2>2. row \subseteq Held
    BY <1>6, <2>1 DEF Claims, Held
  <2> QED
    BY <1>2, <2>2
<1>7. ClaimsRecorded'
  <2>1. \A b \in Attempts : Claims(b)' => attempt'[b].row # {}
    BY <1>5 DEF ClaimsRecorded
  <2>2. \A b \in signedIn' : attempt'[b].pc = "done" /\ attempt'[b].row \subseteq used'
    BY <1>2, <1>4, <1>5 DEF ClaimsRecorded
  <2>3. ASSUME NEW b \in Attempts, NEW c \in Attempts, b # c, Claims(b)', Claims(c)',
               attempt'[b].row = attempt'[c].row
        PROVE  attempt'[b].row \subseteq contested'
    BY <1>2, <1>5, <1>6, <2>3 DEF ClaimsRecorded
  <2> QED
    BY <2>1, <2>2, <2>3 DEF ClaimsRecorded
<1>8. OneLiveCode' /\ OverlapRecorded' /\ RowsAreDone'
  BY <1>2, RequestsKept
<1> QED
  BY <1>3, <1>7, <1>8

\* Later steps of an attempt make no new claim; a sign-in uses the row.
LEMMA ClaimsKept ==
    ASSUME SignInInv, NEW a \in Attempts, IsValid(a) \/ Save(a)
    PROVE  SignInInv'
<1> USE DEF SignInInv, SignInTypeOK
<1>1. UNCHANGED <<issue, rows, overlap, contested>> /\ used \subseteq used'
  BY DEF IsValid, Save
<1>2. SignInTypeOK'
  <2>1. attempt' \in [Attempts -> AttemptState]
    BY StepTyped DEF IsValid, Save
  <2>2. used' \subseteq Issues /\ signedIn' \subseteq Attempts
    BY DEF IsValid, Save, AttemptState
  <2> QED
    BY <1>1, <2>1, <2>2 DEF IsValid, Save
<1>3. /\ \A b \in Attempts : attempt'[b].row = attempt[b].row /\ (Claims(b)' => Claims(b))
      /\ \A b \in signedIn' : attempt'[b].pc = "done"
                              /\ (b \in signedIn \/ attempt[b].row \subseteq used')
  <2>1. CASE IsValid(a)
    BY <2>1 DEF IsValid, Claims, ClaimsRecorded
  <2>2. CASE Save(a)
    BY <2>2 DEF Save, Claims, ClaimsRecorded
  <2> QED
    BY <2>1, <2>2
<1>4. ClaimsRecorded'
  <2>1. \A b \in signedIn' : attempt'[b].pc = "done" /\ attempt'[b].row \subseteq used'
    BY <1>1, <1>2, <1>3 DEF ClaimsRecorded
  <2> QED
    BY <1>1, <1>3, <2>1 DEF ClaimsRecorded
<1>5. OneLiveCode' /\ OverlapRecorded' /\ RowsAreDone'
  BY <1>1, RequestsKept
<1> QED
  BY <1>2, <1>4, <1>5

\* The invariant holds in every reachable state; a tick of the clock disturbs
\* none of it.
LEMMA SignInInvariant == SignInSpec => []SignInInv
<1>1. SignInInv /\ [SignInNext]_signInVars => SignInInv'
  <2> SUFFICES ASSUME SignInInv, [SignInNext]_signInVars
               PROVE  SignInInv'
    OBVIOUS
  <2>1. CASE ClockTick \/ UNCHANGED signInVars
    <3>1. UNCHANGED <<issue, rows, createdAt, used, attempt, signedIn, overlap, contested>>
      BY <2>1 DEF ClockTick, signInVars
    <3>2. SignInTypeOK'
      BY <2>1, <3>1 DEF ClockTick, signInVars, SignInInv, SignInTypeOK
    <3>3. ClaimsRecorded'
      BY <3>1 DEF SignInInv, ClaimsRecorded, Claims
    <3> QED
      BY <3>1, <3>2, <3>3, RequestsKept DEF SignInInv
  <2> QED
    BY <2>1, MarkUsedKeeps, CreateKeeps, FindRowKeeps, ClaimsKept DEF SignInNext
<1> QED
  BY <1>1, SignInStart, PTL DEF SignInSpec

\* The sign-in keeps every variable in its type.
THEOREM SignInTypeCorrect == SignInSpec => []SignInTypeOK
<1>1. SignInInv => SignInTypeOK
  BY DEF SignInInv
<1> QED
  BY <1>1, SignInInvariant, PTL

\* A fan has one live code, unless requests overlapped, for any number of requests
\* and attempts and any clock.
THEOREM OneCodeAlive == SignInSpec => []OneLiveCode
<1>1. SignInInv => OneLiveCode
  BY DEF SignInInv
<1> QED
  BY <1>1, SignInInvariant, PTL

\* No row signs in twice, unless two attempts held it at once.
THEOREM CodesAreSingleUse == SignInSpec => []SingleUse
<1>1. SignInInv => SingleUse
  BY DEF SignInInv, SignInTypeOK, ClaimsRecorded, Claims, SingleUse
<1> QED
  BY <1>1, SignInInvariant, PTL

-----------------------------------------------------------------------------
(* The gate. *)

\* Rows of GateSyncLog, and responses to force_sync_view().
Syncs == [event : Events, at : Nat]

Responses == [device : Devices, sync : Syncs, tickets : SUBSET Tickets]

\* Every variable of the gate keeps its type.
GateTypeOK ==
    /\ now \in Nat
    /\ status \in [Tickets -> {"pending", "valid", "void"}]
    /\ until \in [Tickets -> Nat]
    /\ log \in [Devices -> {Nothing} \cup Syncs]
    /\ responses \subseteq Responses
    /\ cache \in [Devices -> {Nothing} \cup [at : Nat, response : Responses]]
    /\ checking \in [Gates -> {Nothing} \cup [at : Nat, ticket : Tickets]]
    /\ entry \in {Nothing} \cup [ticket : Tickets, at : Int]

\* A ticket that was valid at a time can have ceased to be valid after it only.
ValidAt(t, at) == at <= now /\ (status[t] = "void" => until[t] >= at)

\* What a response says was so when the server logged it.
Truthful(r) == \A t \in r.tickets : ValidAt(t, r.sync.at)

\* Everything that an admission may rest on was so at the time it bears.
GateInv ==
    /\ GateTypeOK
    /\ \A r \in responses : Truthful(r)
    /\ \A d \in Devices : cache[d] # Nothing => Truthful(cache[d].response)
    /\ \A g \in Gates : checking[g] # Nothing => ValidAt(checking[g].ticket, checking[g].at)
    /\ entry # Nothing => ValidAt(entry.ticket, entry.at)

\* At first there is no evidence and no entry.
LEMMA GateStart == GateInit => GateInv
  BY GateAssumption DEF GateInit, GateInv, GateTypeOK, Nothing

\* What was valid at a time stays so, while tickets cease to be valid now.
LEMMA ValidityKept ==
    ASSUME GateInv, NEW t \in Tickets, NEW at \in Int, ValidAt(t, at),
           \/ UNCHANGED <<now, status, until>>
           \/ Tick
           \/ \E u \in Tickets : Activate(u) \/ Invalidate(u)
    PROVE  ValidAt(t, at)'
<1> USE DEF GateInv, GateTypeOK, ValidAt
<1>1. CASE UNCHANGED <<now, status, until>>
  BY <1>1
<1>2. CASE Tick
  BY <1>2 DEF Tick
<1>3. ASSUME NEW u \in Tickets, Activate(u) PROVE ValidAt(t, at)'
  BY <1>3 DEF Activate
<1>4. ASSUME NEW u \in Tickets, Invalidate(u) PROVE ValidAt(t, at)'
  BY <1>4 DEF Invalidate
<1> QED
  BY <1>1, <1>2, <1>3, <1>4

\* So what a response says stays true.
LEMMA TruthKept ==
    ASSUME GateInv, NEW r \in Responses, Truthful(r),
           \/ UNCHANGED <<now, status, until>>
           \/ Tick
           \/ \E u \in Tickets : Activate(u) \/ Invalidate(u)
    PROVE  Truthful(r)'
<1>1. r.sync.at \in Int /\ r.tickets \subseteq Tickets
  BY DEF Responses, Syncs
<1> QED
  BY <1>1, ValidityKept DEF Truthful

\* Tickets becoming valid or void, and time passing, leave all evidence true.
LEMMA ValidityStepKeeps ==
    ASSUME GateInv,
           \/ Tick
           \/ \E u \in Tickets : Activate(u) \/ Invalidate(u)
           \/ UNCHANGED gateVars
    PROVE  GateInv'
<1> USE DEF GateInv
<1>1. UNCHANGED <<log, responses, cache, checking, entry>>
  BY DEF Tick, Activate, Invalidate, gateVars
<1>2. \/ UNCHANGED <<now, status, until>>
      \/ Tick
      \/ \E u \in Tickets : Activate(u) \/ Invalidate(u)
  BY DEF gateVars
<1>3. GateTypeOK'
  BY <1>1 DEF GateTypeOK, Tick, Activate, Invalidate, Valid, gateVars
<1>4. \A r \in responses' : Truthful(r)'
  BY <1>1, <1>2, TruthKept DEF GateTypeOK
<1>5. ASSUME NEW d \in Devices, cache'[d] # Nothing
      PROVE  Truthful(cache[d].response)'
  <2> DEFINE r == cache[d].response
  <2>1. r \in Responses /\ Truthful(r) /\ r' = r
    BY <1>1, <1>5 DEF GateTypeOK
  <2> QED
    BY <1>2, <2>1, TruthKept DEF Truthful
<1>6. ASSUME NEW g \in Gates, checking'[g] # Nothing
      PROVE  ValidAt(checking[g].ticket, checking[g].at)'
  <2> DEFINE t == checking[g].ticket
             at == checking[g].at
  <2>1. t \in Tickets /\ at \in Int /\ ValidAt(t, at) /\ t' = t /\ at' = at
    BY <1>1, <1>6 DEF GateTypeOK
  <2> QED
    BY <1>2, <2>1, ValidityKept DEF ValidAt
<1>7. ASSUME entry' # Nothing
      PROVE  ValidAt(entry.ticket, entry.at)'
  <2> DEFINE t == entry.ticket
             at == entry.at
  <2>1. t \in Tickets /\ at \in Int /\ ValidAt(t, at) /\ t' = t /\ at' = at
    BY <1>1, <1>7 DEF GateTypeOK
  <2> QED
    BY <1>2, <2>1, ValidityKept DEF ValidAt
<1> QED
  BY <1>3, <1>4, <1>5, <1>6, <1>7

\* The payload of a response is valid as the server logs the sync.
LEMMA ForceSyncKeeps ==
    ASSUME GateInv, NEW d \in Devices, NEW e \in Events, ForceSync(d, e)
    PROVE  GateInv'
<1> DEFINE sync == [event |-> e, at |-> now]
           sent == [device |-> d, sync |-> sync, tickets |-> Payload(e)]
<1>1. sync \in Syncs /\ sent \in Responses
  BY DEF GateInv, GateTypeOK, Syncs, Responses, Payload, Valid
<1>2. Truthful(sent)
  BY DEF GateInv, GateTypeOK, Truthful, ValidAt, Payload, Valid
<1>3. /\ log' = [log EXCEPT ![d] = sync]
      /\ responses' = responses \cup {sent}
      /\ UNCHANGED <<now, status, until, cache, checking, entry>>
  BY DEF ForceSync
<1> HIDE DEF sync, sent
<1>4. GateTypeOK'
  BY <1>1, <1>3 DEF GateInv, GateTypeOK
<1> QED
  BY <1>2, <1>3, <1>4 DEF GateInv, Truthful, ValidAt

\* A response arrives as it was sent, or not at all.
LEMMA DeliveryKeeps ==
    ASSUME GateInv, NEW r \in responses, Receive(r) \/ Lose(r)
    PROVE  GateInv'
<1> USE DEF GateInv
<1>1. r \in Responses /\ Truthful(r)
  BY DEF GateTypeOK
<1>2. CASE Receive(r)
  <2>1. /\ responses' = responses \ {r}
        /\ cache' = [cache EXCEPT ![r.device] = [at |-> r.sync.at, response |-> r]]
        /\ UNCHANGED <<now, status, until, log, checking, entry>>
    BY <1>2 DEF Receive
  <2>2. [at |-> r.sync.at, response |-> r] \in [at : Nat, response : Responses]
    BY <1>1 DEF Responses, Syncs
  <2>3. GateTypeOK'
    BY <2>1, <2>2 DEF GateTypeOK
  <2>4. ASSUME NEW d \in Devices, cache'[d] # Nothing
        PROVE  Truthful(cache'[d].response)
    BY <1>1, <2>1, <2>4 DEF GateTypeOK
  <2> QED
    BY <2>1, <2>3, <2>4 DEF Truthful, ValidAt
<1>3. CASE Lose(r)
  BY <1>3 DEF Lose, GateTypeOK, Truthful, ValidAt
<1> QED
  BY <1>2, <1>3

\* What a device admits its cache bears out, for as long as it has agreed to be
\* fresh.
LEMMA AdmitOfflineKeeps ==
    ASSUME GateInv, NEW d \in Devices, NEW t \in Tickets, AdmitOffline(d, t)
    PROVE  GateInv'
<1> USE DEF GateInv
<1> DEFINE r == cache[d].response
           at == IF SyncStatus(d) = "ok" /\ Agrees(d) THEN now - Threshold ELSE -1
<1>1. /\ cache[d] # Nothing /\ t \in r.tickets
      /\ entry' = [ticket |-> t, at |-> at]
      /\ UNCHANGED <<now, status, until, log, responses, cache, checking>>
  BY DEF AdmitOffline
<1>2. r \in Responses /\ ValidAt(t, r.sync.at)
  BY <1>1 DEF GateTypeOK, Truthful
<1>3. at \in Int
  BY GateAssumption DEF GateTypeOK
<1>4. ValidAt(t, at)
  <2>1. CASE SyncStatus(d) = "ok" /\ Agrees(d)
    <3>1. r.sync = log[d] /\ ~IsStale(d)
      BY <2>1 DEF SyncStatus, Agrees
    <3>2. r.sync.at >= now - Threshold
      BY <1>2, <3>1, GateAssumption DEF IsStale, GateTypeOK, Responses, Syncs
    <3> QED
      BY <1>2, <2>1, <3>2, GateAssumption DEF ValidAt, GateTypeOK, Responses, Syncs
  <2>2. CASE ~(SyncStatus(d) = "ok" /\ Agrees(d))
    BY <2>2 DEF ValidAt, GateTypeOK
  <2> QED
    BY <2>1, <2>2
<1> HIDE DEF at, r
<1>5. GateTypeOK'
  BY <1>1, <1>3 DEF GateTypeOK
<1> QED
  BY <1>1, <1>4, <1>5 DEF Truthful, ValidAt

\* A ticket is found when it is valid, and admitted as it was found.
LEMMA OnlineKeeps ==
    ASSUME GateInv, NEW g \in Gates,
           Admit(g) \/ \E t \in Tickets : Find(g, t)
    PROVE  GateInv'
<1> USE DEF GateInv
<1>1. ASSUME NEW t \in Tickets, Find(g, t)
      PROVE  GateInv'
  <2>1. [at |-> now, ticket |-> t] \in [at : Nat, ticket : Tickets] /\ ValidAt(t, now)
    BY <1>1 DEF GateTypeOK, ValidAt, Find, Valid
  <2>2. GateTypeOK'
    BY <1>1, <2>1 DEF GateTypeOK, Find
  <2> QED
    BY <1>1, <2>1, <2>2 DEF Find, Truthful, ValidAt, GateTypeOK
<1>2. CASE Admit(g)
  <2>1. checking[g] \in [at : Nat, ticket : Tickets]
    BY <1>2 DEF Admit, GateTypeOK
  <2>2. GateTypeOK'
    BY <1>2, <2>1 DEF GateTypeOK, Admit
  <2> QED
    BY <1>2, <2>1, <2>2 DEF Admit, Truthful, ValidAt, GateTypeOK
<1> QED
  BY <1>1, <1>2

\* The invariant holds in every reachable state.
LEMMA GateInvariant == GateSpec => []GateInv
<1>1. GateInv /\ [GateNext]_gateVars => GateInv'
  BY ValidityStepKeeps, ForceSyncKeeps, DeliveryKeeps, AdmitOfflineKeeps, OnlineKeeps
     DEF GateNext
<1> QED
  BY <1>1, GateStart, PTL DEF GateSpec

\* The gate keeps every variable in its type.
THEOREM GateTypeCorrect == GateSpec => []GateTypeOK
<1>1. GateInv => GateTypeOK
  BY DEF GateInv
<1> QED
  BY <1>1, GateInvariant, PTL

\* Nobody is admitted online with a ticket invalid when it was found, nor offline,
\* while sync_view() says "ok" of what the device got, with one that was invalid
\* before the threshold: however responses are lost or overtake each other.
THEOREM AdmittedWereValid == GateSpec => []AdmittedWasValid
<1>1. GateInv => AdmittedWasValid
  BY DEF GateInv, ValidAt, AdmittedWasValid
<1> QED
  BY <1>1, GateInvariant, PTL
=============================================================================
