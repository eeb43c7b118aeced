------------------------------ MODULE SendQueue ------------------------------
(***************************************************************************)
(* The telegram queue of KNXClient: commandQueue, clearToSend, queueLock,  *)
(* the ACK timer and the functions that touch them (send, handleKNXQueue,  *)
(* setTimerWaitingForACK, the clearToSend setter).                         *)
(*                                                                         *)
(* The queue is a record, and every method of the code is an operator from *)
(* one queue to the next, so that the modules which use it compose the     *)
(* synchronous calls of one handler into one atomic step.  The program is  *)
(* single threaded: only the two awaits of handleKNXQueue, the send        *)
(* callback and the pacing delay, let another handler run.                 *)
(***************************************************************************)
EXTENDS Integers, Sequences

\* A packet is known by its kind and, for telegrams, by its rank of writing.
NoPacket == [kind |-> "none", num |-> 0]
Telegram(n) == [kind |-> "telegram", num |-> n]
Control(k) == [kind |-> k, num |-> 0]

\* KNXQueueItem.  The code's ACK field is undefined or the packet itself.
QueueItem(packet, ack, expected) ==
    [packet |-> packet, ack |-> ack, expected |-> expected]

\* The code resends while the failure count does not exceed 2.
MaxFailedACK == 2

(***************************************************************************)
(* loop is where handleKNXQueue stands: "idle" (queueLock is false),       *)
(* "sending" (awaiting the send callback) or "pacing" (awaiting the delay  *)
(* between two telegrams).  The head of commandQueue here is the end of    *)
(* the array in the code: the next packet to leave.                        *)
(***************************************************************************)
EmptyQueue ==
    [commandQueue |-> << >>, clearToSend |-> TRUE, exitLoop |-> FALSE,
     socketReady |-> TRUE, loop |-> "idle",
     current |-> QueueItem(NoPacket, FALSE, -1),
     ackTimer |-> NoPacket, failed |-> 0]

\* The conditions under which the loop of handleKNXQueue pops an item.
Sendable(q) ==
    /\ q.commandQueue # << >>
    /\ q.clearToSend
    /\ ~q.exitLoop
    /\ q.socketReady

\* setTimerWaitingForACK: close the gate, (re)arm the one ACK timer.
SetTimerWaitingForACK(q, packet) ==
    [q EXCEPT !.clearToSend = FALSE, !.ackTimer = packet]

\* One turn of the loop up to the await of the send callback.
Dispatch(q) ==
    LET item == Head(q.commandQueue)
        popped == [q EXCEPT !.commandQueue = Tail(@), !.current = item,
                            !.loop = "sending"]
    IN  IF item.ack THEN SetTimerWaitingForACK(popped, item.packet) ELSE popped

HandleKNXQueue(q) ==
    IF q.loop = "idle" /\ Sendable(q) THEN Dispatch(q) ELSE q

\* Mutation: the setter does not call the queue handler.
OpenWithoutWaking(q) == [q EXCEPT !.clearToSend = TRUE]

\* The setter of clearToSend with value true.
SetClearToSend(q) == HandleKNXQueue([q EXCEPT !.clearToSend = TRUE])

\* Mutation: a telegram without priority overtakes those that wait.
Overtaking(q, item) ==
    HandleKNXQueue([q EXCEPT !.commandQueue = << item >> \o @])

\* send() without priority: behind every waiting item.
SendLast(q, item) ==
    HandleKNXQueue([q EXCEPT !.commandQueue = Append(@, item)])

\* send() with priority: in front of every waiting item, gate forced open.
SendFirst(q, item) ==
    HandleKNXQueue([q EXCEPT !.commandQueue = << item >> \o @,
                             !.clearToSend = TRUE])

\* The send callback reports success: the loop waits its pacing delay.
SendSucceeded(q) == [q EXCEPT !.loop = "pacing"]

\* The send callback reports an error: the queue is emptied, the loop ends.
SendFailed(q) == [q EXCEPT !.commandQueue = << >>, !.loop = "idle"]

\* The pacing delay is over: the loop tests its conditions again.
PacingDone(q) == HandleKNXQueue([q EXCEPT !.loop = "idle"])

ClearAckTimer(q) == [q EXCEPT !.ackTimer = NoPacket]

\* Mutation: the gate stays closed behind the telegram given up.
AbortKeepsGate(q) == [ClearAckTimer(q) EXCEPT !.failed = 0]

\* The ACK timer fires once too often: the telegram is given up.
AbortTelegram(q) == SetClearToSend([ClearAckTimer(q) EXCEPT !.failed = 0])

\* Mutations: the telegram goes behind those that wait, or without its ACK.
RetransmitLast(q) ==
    SendLast([ClearAckTimer(q) EXCEPT !.failed = @ + 1, !.clearToSend = TRUE],
             QueueItem(q.ackTimer, TRUE, q.current.expected))
RetransmitUnacked(q) ==
    SendFirst([ClearAckTimer(q) EXCEPT !.failed = @ + 1],
              QueueItem(q.ackTimer, FALSE, q.current.expected))

\* The ACK timer fires: the telegram is sent again, before anything else.
\* The new item expects the sequence number of whatever is current now.
Retransmit(q) ==
    SendFirst([ClearAckTimer(q) EXCEPT !.failed = @ + 1],
              QueueItem(q.ackTimer, TRUE, q.current.expected))

\* Mutation: one retransmission too many.
GivesUpLate(q) == q.failed > MaxFailedACK

GivesUp(q) == q.failed + 1 > MaxFailedACK

AckTimerFires(q) == IF GivesUp(q) THEN AbortTelegram(q) ELSE Retransmit(q)

\* Mutation: the ACK stops the timer and leaves the gate as it is.
AckKeepsGate(q) == [ClearAckTimer(q) EXCEPT !.failed = 0]

\* TUNNELING_ACK of our channel, whatever sequence number it carries.
AckReceived(q) == SetClearToSend([ClearAckTimer(q) EXCEPT !.failed = 0])

----------------------------------------------------------------------------
\* The queues that carry the packets of a set P.
ItemsOf(P) == [packet : P, ack : BOOLEAN, expected : Int]
Queues(P) ==
    [commandQueue : Seq(ItemsOf(P)), clearToSend : BOOLEAN, exitLoop : BOOLEAN,
     socketReady : BOOLEAN, loop : {"idle", "sending", "pacing"},
     current : ItemsOf(P \cup {NoPacket}), ackTimer : P \cup {NoPacket},
     failed : 0 .. MaxFailedACK]

\* No wake-up was lost: what may be sent is not left without a loop to send it.
Awake(q) == q.loop = "idle" => ~Sendable(q)

\* A closed gate is owned by the ACK timer that will open it.
Owned(q) == ~q.clearToSend => q.ackTimer # NoPacket

\* A step from q to r hands the packet r.current to the socket.
Emits(q, r) == q.loop # "sending" /\ r.loop = "sending"
=============================================================================
