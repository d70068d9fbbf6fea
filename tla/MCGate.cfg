\* Two events with a ticket each, and one device that may be used for both: its
\* responses can be lost, late or of the other event.
CONSTANTS
    e1 = e1
    e2 = e2
    t1 = t1
    Events = {e1, e2}
    Devices = {d1}
    Tickets = {t1, t2}
    EventOf <- EventOfTicket
    Gates = {g1}
    Threshold = 1
    MaxTime = 3
    MaxInFlight = 2
SPECIFICATION GateSpec
INVARIANTS
    AdmittedWasValid
CHECK_DEADLOCK FALSE
