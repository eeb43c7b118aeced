------------------------- MODULE ConnectionLifecycle -------------------------
(***************************************************************************)
(* What a KNXClient over a datagram socket promises the application about  *)
(* its connection: an instance is used once.  It connects, is connected,   *)
(* leaves and closes, in that order, possibly skipping stages but never    *)
(* going back; the events tell the same story, each of them at most once,  *)
(* and nothing follows "disconnected".                                     *)
(***************************************************************************)
EXTENDS Sequences

VARIABLES
    phase,   \* "fresh", "connecting", "connected", "leaving" or "closed"
    events   \* the connection events the application has seen, in order

lifecycle == << phase, events >>

Seen(e) == \E i \in DOMAIN events : events[i] = e

Init ==
    /\ phase = "fresh"
    /\ events = << >>

\* The application connects; it may leave from inside the connecting event.
Connect ==
    /\ phase = "fresh"
    /\ phase' \in {"connecting", "closed"}
    /\ events' = Append(events, "connecting")

\* The gateway accepts; the application may leave from inside the event.
Establish ==
    /\ phase = "connecting"
    /\ phase' \in {"connected", "leaving"}
    /\ events' = Append(events, "connected")

\* The application or the gateway asks to disconnect.
Leave ==
    /\ phase = "connected"
    /\ phase' = "leaving"
    /\ UNCHANGED events

\* The socket is closed: by request, refusal, silence or a time-out.
Close ==
    /\ phase # "closed"
    /\ phase' = "closed"
    /\ UNCHANGED events

Farewell ==
    /\ phase = "closed"
    /\ ~Seen("disconnected")
    /\ events' = Append(events, "disconnected")
    /\ UNCHANGED phase

Next == Connect \/ Establish \/ Leave \/ Close \/ Farewell

Spec == Init /\ [][Next]_lifecycle
=============================================================================
