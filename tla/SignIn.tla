-------------------------------- MODULE SignIn --------------------------------
(***************************************************************************)
(* Phone sign-in of one fan: requests for a one-time code, each of which   *)
(* marks the unused codes used and adds a row, and attempts to sign in     *)
(* with a code, which read the row, check it and mark it used without a    *)
(* lock.  The database is READ COMMITTED: a statement sees what was        *)
(* committed when it began, and a transaction is seen when it commits.     *)
(***************************************************************************)
EXTENDS Integers, Sequences, SequencesExt

CONSTANTS
    Issues,     \* requests for a code; each makes one OTPCode row
    Attempts,   \* sign-in attempts
    Codes,      \* six-digit codes; two rows may have the same
    Validity,   \* OTP_VALIDITY_MINUTES (5)
    MaxClock    \* bound on time

ASSUME SignInAssumption == Validity \in Nat /\ MaxClock \in Nat

VARIABLES
    clock,
    issue,      \* issue -> where generate_and_send_otp() is, the code it drew
                \* and the rows its update found
    rows,       \* OTPCode rows in the order of created_at
    createdAt,
    used,       \* rows with used = True
    attempt,    \* attempt -> where authenticate() is, the code and the row
    signedIn,   \* attempts that ended in login()
    overlap,    \* history: pairs of issues of which one updated before the
                \* other had committed
    contested   \* history: rows read by an attempt while another had read them

signInVars == <<clock, issue, rows, createdAt, used, attempt, signedIn, overlap, contested>>

Rows == ToSet(rows)

Unused == Rows \ used

SignInInit ==
    /\ clock = 0
    /\ issue \in [Issues -> [pc : {"start"}, code : Codes, found : {{}}]]
    /\ rows = <<>>
    /\ createdAt = [i \in Issues |-> 0]
    /\ used = {}
    /\ attempt \in [Attempts -> [pc : {"start"}, code : Codes, row : {{}}]]
    /\ signedIn = {} /\ overlap = {} /\ contested = {}

-----------------------------------------------------------------------------
\* The update of generate_and_send_otp() finds the rows that are unused.
MarkUsed(i) ==
    /\ issue[i].pc = "start"
    /\ issue' = [issue EXCEPT ![i].pc = "marked", ![i].found = Unused]
    /\ overlap' = overlap \cup
                    {{i, j} : j \in {k \in Issues : issue[k].pc = "marked"}}
    /\ UNCHANGED <<clock, rows, createdAt, used, attempt, signedIn, contested>>

\* Mutant: earlier codes stay valid.
CreateOnly(i) ==
    /\ issue[i].pc = "marked"
    /\ issue' = [issue EXCEPT ![i].pc = "done"]
    /\ rows' = Append(rows, i)
    /\ createdAt' = [createdAt EXCEPT ![i] = clock]
    /\ UNCHANGED <<clock, used, attempt, signedIn, overlap, contested>>

\* The new row is created and the transaction commits.
Create(i) ==
    /\ issue[i].pc = "marked"
    /\ issue' = [issue EXCEPT ![i].pc = "done"]
    /\ used' = used \cup issue[i].found
    /\ rows' = Append(rows, i)
    /\ createdAt' = [createdAt EXCEPT ![i] = clock]
    /\ UNCHANGED <<clock, attempt, signedIn, overlap, contested>>

-----------------------------------------------------------------------------
\* Rows that an attempt has read and not yet written.
Held == UNION {attempt[b].row : b \in {c \in Attempts : attempt[c].pc \in {"found", "valid"}}}

\* The unused rows with the code.
Candidates(code) == {i \in Unused : issue[i].code = code}

\* The one of them that was created last, if there is any.
Newest(code) ==
    {rows[n] : n \in {m \in DOMAIN rows :
                        /\ rows[m] \in Candidates(code)
                        /\ \A k \in DOMAIN rows :
                              k > m => rows[k] \notin Candidates(code)}}

\* PhoneOTPBackend.authenticate() reads the newest unused row with the code.
FindRow(a) ==
    LET row == Newest(attempt[a].code)
    IN  /\ attempt[a].pc = "start"
        /\ attempt' = [attempt EXCEPT ![a].pc = IF row = {} THEN "done" ELSE "found",
                                      ![a].row = row]
        /\ contested' = contested \cup (row \cap Held)
        /\ UNCHANGED <<clock, issue, rows, createdAt, used, signedIn, overlap>>

\* is_valid() of the row as it was read: unused, as the query chose it, and not
\* expired.
IsValid(a) ==
    /\ attempt[a].pc = "found"
    /\ attempt' = [attempt EXCEPT ![a].pc =
                     IF \A i \in attempt[a].row : clock <= createdAt[i] + Validity
                     THEN "valid" ELSE "done"]
    /\ UNCHANGED <<clock, issue, rows, createdAt, used, signedIn, overlap, contested>>

\* Mutant: the row is changed and not saved.
SaveNothing(a) ==
    /\ attempt[a].pc = "valid"
    /\ \E active \in BOOLEAN :
          signedIn' = IF active THEN signedIn \cup {a} ELSE signedIn
    /\ attempt' = [attempt EXCEPT ![a].pc = "done"]
    /\ UNCHANGED <<clock, issue, rows, createdAt, used, overlap, contested>>

\* The row is marked used; the user, if active, is signed in.
Save(a) ==
    /\ attempt[a].pc = "valid"
    /\ used' = used \cup attempt[a].row
    /\ \E active \in BOOLEAN :
          signedIn' = IF active THEN signedIn \cup {a} ELSE signedIn
    /\ attempt' = [attempt EXCEPT ![a].pc = "done"]
    /\ UNCHANGED <<clock, issue, rows, createdAt, overlap, contested>>

ClockTick ==
    /\ clock < MaxClock
    /\ clock' = clock + 1
    /\ UNCHANGED <<issue, rows, createdAt, used, attempt, signedIn, overlap, contested>>

SignInNext ==
    \/ \E i \in Issues : MarkUsed(i)
    \/ \E i \in Issues : Create(i)
    \/ \E a \in Attempts : FindRow(a)
    \/ \E a \in Attempts : IsValid(a)
    \/ \E a \in Attempts : Save(a)
    \/ ClockTick

SignInSpec == SignInInit /\ [][SignInNext]_signInVars

-----------------------------------------------------------------------------
\* A fan has one code that may still sign in, unless the requests for the
\* codes overlapped; the next request that does not overlap repairs it
\* (the update before the create in generate_and_send_otp()).
OneLiveCode ==
    \A i, j \in Unused : i # j => {i, j} \in overlap

\* A code signs in once, unless two attempts had read it at the same time
\* ("Single-use SMS OTP for phone-based login").
SingleUse ==
    \A a, b \in signedIn :
        a # b /\ attempt[a].row = attempt[b].row => attempt[a].row \subseteq contested
=============================================================================
