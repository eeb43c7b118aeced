----------------------------- MODULE Transmitter -----------------------------
(***************************************************************************)
(* A connected TunnelUDP client sending telegrams: write() by the          *)
(* application, the queue loop, the ACK timer, the gateway's TUNNELING_ACK *)
(* frames (lost, delayed, duplicated and reordered by UDP) and the packets *)
(* the client sends with priority on its own account (acknowledgements of  *)
(* inbound telegrams, heartbeats), which share the queue and its gate.     *)
(***************************************************************************)
EXTENDS SendQueue

CONSTANTS
    MaxWrites,    \* bound: calls of write()
    MaxPriority,  \* bound: packets the client queues with priority
    SeqModulus,       \* number of tunnelling sequence numbers, 256 in the code
    SuppressAck,  \* option suppress_ack_ldatareq
    Prompt        \* the send callback and the pacing delay (25 ms by default)
                  \* end before the ACK timer (1 s) does

ASSUME TransmitterAssumption ==
    /\ MaxWrites \in Nat
    /\ MaxPriority \in Nat
    /\ SeqModulus \in Nat \ {0}
    /\ SuppressAck \in BOOLEAN
    /\ Prompt \in BOOLEAN

VARIABLES
    q,         \* the queue
    written,   \* telegrams written so far; the next one is Telegram(written)
    chatter,   \* priority packets queued so far
    lastSent,  \* history: the telegram last handed to the socket, or -1
    tries,     \* history: times it was, since it was last given up or an ACK came
    onWire,    \* history: telegrams the socket has sent at least once
    reported,  \* history: telegrams an ackReceived event was emitted about
    dropped    \* history: telegrams below this were written before the queue
               \* was last emptied by a failed send

vars == << q, written, chatter, lastSent, tries, onWire, reported, dropped >>

Telegrams == 0 .. MaxWrites - 1
Packets == {Telegram(n) : n \in Telegrams} \cup {Control("control")}

\* The tunnelling sequence number of the nth telegram (incSeqNumber starts
\* from -1 and wraps), and getSeqNumber(), that of the last one.
SeqOf(n) == n % SeqModulus
SeqNumber == IF written = 0 THEN -1 ELSE SeqOf(written - 1)

Init ==
    /\ q = EmptyQueue
    /\ written = 0
    /\ chatter = 0
    /\ lastSent = -1
    /\ tries = 0
    /\ onWire = {}
    /\ reported = {}
    /\ dropped = 0

\* The queue becomes r; what the step puts on the wire goes to the history,
\* which counts transmissions from t on.
Become(r, t) ==
    /\ q' = r
    /\ IF Emits(q, r) /\ r.current.packet.kind = "telegram"
       THEN /\ lastSent' = r.current.packet.num
            /\ tries' = IF r.current.packet.num = lastSent THEN t + 1 ELSE 1
       ELSE /\ tries' = t
            /\ UNCHANGED lastSent

----------------------------------------------------------------------------
\* write(), respond(), read(): the next sequence number, the end of the queue.
Write ==
    /\ written < MaxWrites
    /\ written' = written + 1
    /\ Become(SendLast(q, QueueItem(Telegram(written), ~SuppressAck,
                                    SeqOf(written))), tries)
    /\ UNCHANGED << chatter, onWire, reported, dropped >>

\* An inbound TUNNELING_REQUEST is acknowledged, or a heartbeat is sent.
SendPriority ==
    /\ chatter < MaxPriority
    /\ chatter' = chatter + 1
    /\ Become(SendFirst(q, QueueItem(Control("control"), FALSE, SeqNumber)), tries)
    /\ UNCHANGED << written, onWire, reported, dropped >>

SendDone ==
    /\ q.loop = "sending"
    /\ Become(SendSucceeded(q), tries)
    /\ onWire' = onWire \cup {n \in Telegrams : q.current.packet = Telegram(n)}
    /\ UNCHANGED << written, chatter, reported, dropped >>

SendError ==
    /\ q.loop = "sending"
    /\ Become(SendFailed(q), tries)
    /\ dropped' = written
    /\ UNCHANGED << written, chatter, onWire, reported >>

Pace ==
    /\ q.loop = "pacing"
    /\ Become(PacingDone(q), tries)
    /\ UNCHANGED << written, chatter, onWire, reported, dropped >>

AckTimeout ==
    /\ q.ackTimer # NoPacket
    /\ Prompt => q.loop = "idle"
    /\ Become(AckTimerFires(q), IF GivesUp(q) THEN 0 ELSE tries)
    /\ reported' = IF GivesUp(q) THEN reported \cup {q.ackTimer.num} ELSE reported
    /\ UNCHANGED << written, chatter, onWire, dropped >>

\* An ACK of the nth telegram arrives, once the socket has sent it, at any
\* time and any number of times.
ReceiveAck(n) ==
    /\ n \in onWire
    /\ Become(IF SuppressAck THEN SetClearToSend(q) ELSE AckReceived(q),
              IF SuppressAck THEN tries ELSE 0)
    /\ reported' = IF SuppressAck THEN reported ELSE reported \cup {n}
    /\ UNCHANGED << written, chatter, onWire, dropped >>

Next ==
    \/ Write
    \/ SendPriority
    \/ SendDone
    \/ SendError
    \/ Pace
    \/ AckTimeout
    \/ \E n \in Telegrams : ReceiveAck(n)

\* Node runs the callbacks and timers that are due; the application and the
\* network owe nothing.
Fairness ==
    /\ WF_vars(SendDone \/ SendError)
    /\ WF_vars(Pace)
    /\ WF_vars(AckTimeout)

Spec == Init /\ [][Next]_vars
FairSpec == Spec /\ Fairness

----------------------------------------------------------------------------
\* The state has its type; in particular the failure counter never passes 2.
TypeOK ==
    /\ q \in Queues(Packets)
    /\ ~q.exitLoop /\ q.socketReady
    /\ written \in 0 .. MaxWrites
    /\ chatter \in 0 .. MaxPriority
    /\ lastSent \in -1 .. MaxWrites - 1
    /\ tries \in Nat
    /\ onWire \subseteq Telegrams
    /\ reported \subseteq Telegrams
    /\ dropped \in 0 .. MaxWrites

\* No lost wake-up: a packet that may be sent is never left in the queue with
\* no loop running to send it, whatever call or timer touched the queue last.
NoLostWakeup == Awake(q)

\* A closed gate is always owned: the ACK timer that will reopen it, by
\* retransmission or by giving up, is running.
GateOwned == Owned(q)

\* A telegram nobody acknowledged is on the wire at most three times before
\* ackReceived(false); with suppress_ack_ldatareq it is never repeated.
RetryBound == tries <= IF SuppressAck THEN 1 ELSE MaxFailedACK + 1

\* Telegrams leave in the order they were written: a step puts on the wire a
\* later telegram than the last one or that one again, never an earlier one,
\* although retransmissions and own packets jump the queue.
SentInOrder == [][lastSent' >= lastSent]_vars

\* A telegram is never skipped: the next on the wire is the successor of the
\* last or, when a failed send emptied the queue in between, the first one
\* written after that.
NoneSkipped == [][lastSent' > lastSent + 1 => lastSent' = dropped]_vars

\* Every telegram written reaches the wire or is lost with the whole queue
\* when a send fails; own traffic and lost acknowledgements only delay it.
EventuallySent ==
    \A n \in Telegrams : (written > n) ~> (lastSent >= n \/ dropped > n)

\* A telegram does not stay on the wire: it is given up or an ACK comes in,
\* unless a later telegram overtakes it or a failed send empties the queue.
EventuallySettled ==
    \A n \in Telegrams : lastSent = n ~> (tries = 0 \/ lastSent > n \/ dropped > n)

----------------------------------------------------------------------------
\* The strengthening that makes the invariants above inductive.  Telegrams
\* wait in the order of writing and none of them is older than the last sent,
\* for which alone the ACK timer runs; while it runs, the last one sent does
\* not wait in the queue.

IsTelegram(item) == item.packet.kind = "telegram"

\* The telegram n waits in queue x (when n was sent before: to be repeated).
Waits(x, n) == \E i \in DOMAIN x.commandQueue : x.commandQueue[i].packet = Telegram(n)

Ordered(x, last) ==
    /\ \A i \in DOMAIN x.commandQueue :
          /\ x.commandQueue[i].ack <=> IsTelegram(x.commandQueue[i]) /\ ~SuppressAck
          /\ IsTelegram(x.commandQueue[i]) => x.commandQueue[i].packet.num >= last
    /\ \A i, j \in DOMAIN x.commandQueue :
          i < j /\ IsTelegram(x.commandQueue[i]) /\ IsTelegram(x.commandQueue[j])
              => x.commandQueue[i].packet.num < x.commandQueue[j].packet.num
    /\ x.ackTimer # NoPacket =>
          x.ackTimer = Telegram(last) /\ ~Waits(x, last) /\ ~SuppressAck
    /\ SuppressAck => ~Waits(x, last) /\ x.failed = 0

\* No telegram of queue x is past the w written.
Known(x, w) ==
    \A i \in DOMAIN x.commandQueue :
        IsTelegram(x.commandQueue[i]) => x.commandQueue[i].packet.num < w

\* t transmissions are accounted for by the failures of x, a repetition that
\* waits included.
Counted(x, last, t) == t <= IF Waits(x, last) THEN x.failed ELSE x.failed + 1

IInv ==
    /\ TypeOK
    /\ NoLostWakeup
    /\ GateOwned
    /\ Ordered(q, lastSent)
    /\ Known(q, written)
    /\ lastSent < written
    /\ Counted(q, lastSent, tries)

----------------------------------------------------------------------------
\* README.md: ackReceived is "fired everytime a telegram has been succesfully
\* acknowledge or not acknowledge".
EveryTelegramReported ==
    \A n \in Telegrams : lastSent = n ~> (n \in reported \/ dropped > n)
=============================================================================
