--------------------------------- MODULE Gate ---------------------------------
(***************************************************************************)
(* Admission on the day of an event.  Online, a request looks the code up  *)
(* among the valid tickets and then logs the entry.  Offline, a device     *)
(* admits the tickets of the last response to force_sync_view() it got,    *)
(* which the server has logged before the response arrived, if it did.     *)
(* sync_view() tells the device how fresh its last sync is.                *)
(*                                                                         *)
(* A valid ticket is one of status active (nothing in the repository makes *)
(* one "resold"); time is in hours.  A code stands for its ticket.         *)
(***************************************************************************)
EXTENDS Integers, FiniteSets

CONSTANTS
    Events, Devices, Tickets,
    EventOf,    \* ticket -> event
    Gates,      \* terminals that validate online
    Threshold,  \* STALE_THRESHOLD_HOURS (2)
    MaxTime,    \* bound on time
    MaxInFlight \* bound on responses on their way

ASSUME GateAssumption ==
    /\ EventOf \in [Tickets -> Events]
    /\ {Threshold, MaxTime, MaxInFlight} \subseteq Nat

VARIABLES
    now,
    status,     \* ticket -> whether it is valid yet, or still
    until,      \* ticket -> when it ceased to be valid
    log,        \* device -> its latest GateSyncLog row
    responses,  \* sync responses on their way
    cache,      \* device -> the last response it got
    checking,   \* gate -> the ticket it has found, and when
    entry       \* the last admission, with the time since when its ticket may
                \* have been invalid

gateVars == <<now, status, until, log, responses, cache, checking, entry>>

Nothing == [at |-> -1]      \* no row, no response, no ticket found

Valid == {t \in Tickets : status[t] = "valid"}

GateInit ==
    /\ now = 0
    /\ status \in [Tickets -> {"pending", "valid"}]
    /\ until = [t \in Tickets |-> 0]
    /\ log = [d \in Devices |-> Nothing]
    /\ responses = {}
    /\ cache = [d \in Devices |-> Nothing]
    /\ checking = [g \in Gates |-> Nothing]
    /\ entry = Nothing

-----------------------------------------------------------------------------
\* A deposit is confirmed.
Activate(t) ==
    /\ status[t] = "pending"
    /\ status' = [status EXCEPT ![t] = "valid"]
    /\ UNCHANGED <<now, until, log, responses, cache, checking, entry>>

\* A buyback or an opt-out.
Invalidate(t) ==
    /\ t \in Valid
    /\ status' = [status EXCEPT ![t] = "void"]
    /\ until' = [until EXCEPT ![t] = now]
    /\ UNCHANGED <<now, log, responses, cache, checking, entry>>

Tick ==
    /\ now < MaxTime
    /\ now' = now + 1
    /\ UNCHANGED <<status, until, log, responses, cache, checking, entry>>

-----------------------------------------------------------------------------
(* Offline. *)

Payload(e) == {t \in Valid : EventOf[t] = e}

\* force_sync_view(): the query, the log row, the response.
ForceSync(d, e) ==
    LET sync == [event |-> e, at |-> now]
    IN  /\ Cardinality(responses) < MaxInFlight
        /\ log' = [log EXCEPT ![d] = sync]
        /\ responses' = responses \cup
                          {[device |-> d, sync |-> sync, tickets |-> Payload(e)]}
        /\ UNCHANGED <<now, status, until, cache, checking, entry>>

\* Responses may overtake each other; the device keeps what came last.
Receive(r) ==
    /\ r \in responses
    /\ responses' = responses \ {r}
    /\ cache' = [cache EXCEPT ![r.device] = [at |-> r.sync.at, response |-> r]]
    /\ UNCHANGED <<now, status, until, log, checking, entry>>

Lose(r) ==
    /\ r \in responses
    /\ responses' = responses \ {r}
    /\ UNCHANGED <<now, status, until, log, cache, checking, entry>>

\* Mutant: freshness is compared in days.
IsStaleAfterDays(d) == now - log[d].at > 24 * Threshold

\* GateSyncLog.is_stale()
IsStale(d) == now - log[d].at > Threshold

\* sync_view(), for whatever event.
SyncStatus(d) ==
    IF log[d] = Nothing THEN "no_sync" ELSE IF IsStale(d) THEN "stale" ELSE "ok"

\* What the device holds is what the server has logged.
Agrees(d) == cache[d] # Nothing /\ cache[d].response.sync = log[d]

\* The device admits a ticket it has cached.  If it is told "ok" and got what the
\* server has logged, the ticket was valid a threshold ago at most; otherwise
\* nothing is claimed of it.
AdmitOffline(d, t) ==
    /\ cache[d] # Nothing /\ t \in cache[d].response.tickets
    /\ entry' = [ticket |-> t, at |-> IF SyncStatus(d) = "ok" /\ Agrees(d)
                                      THEN now - Threshold ELSE -1]
    /\ UNCHANGED <<now, status, until, log, responses, cache, checking>>

-----------------------------------------------------------------------------
(* Online: validate_totp_and_admit(). *)

\* _find_ticket_by_totp() finds a valid ticket of today.
Find(g, t) ==
    /\ checking[g] = Nothing
    /\ t \in Valid
    /\ checking' = [checking EXCEPT ![g] = [at |-> now, ticket |-> t]]
    /\ UNCHANGED <<now, status, until, log, responses, cache, entry>>

\* The checks of status and date look at the ticket as it was found; the entry
\* is logged, as often as the ticket is shown.
Admit(g) ==
    /\ checking[g] # Nothing
    /\ entry' = checking[g]
    /\ checking' = [checking EXCEPT ![g] = Nothing]
    /\ UNCHANGED <<now, status, until, log, responses, cache>>

GateNext ==
    \/ \E t \in Tickets : Activate(t)
    \/ \E t \in Tickets : Invalidate(t)
    \/ Tick
    \/ \E d \in Devices, e \in Events : ForceSync(d, e)
    \/ \E r \in responses : Receive(r)
    \/ \E r \in responses : Lose(r)
    \/ \E d \in Devices, t \in Tickets : AdmitOffline(d, t)
    \/ \E g \in Gates, t \in Tickets : Find(g, t)
    \/ \E g \in Gates : Admit(g)

GateSpec == GateInit /\ [][GateNext]_gateVars

-----------------------------------------------------------------------------
\* Nobody is admitted online with a ticket that was invalid when it was looked
\* up, nor offline with one that had been invalid for longer than the threshold,
\* as long as sync_view() says "ok" of a sync whose response the device got.
AdmittedWasValid ==
    entry # Nothing /\ status[entry.ticket] = "void" => until[entry.ticket] >= entry.at
=============================================================================
