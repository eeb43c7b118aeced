------------------------------ MODULE SerialLink ------------------------------
(***************************************************************************)
(* A KNXClient with hostProtocol SerialFT12 and its SerialFT12 drivers:    *)
(* every Connect() makes a driver, whose open(), close() and frames for    *)
(* the queue loop run concurrently and share one awaited acknowledgement   *)
(* octet.  A second waiter replaces the first, whose promise then never    *)
(* settles.                                                                *)
(*                                                                         *)
(* The client and its drivers are one record; a method is an operator on   *)
(* it.  Writing an octet string and awaiting its acknowledgement is one    *)
(* await: the port has drained it before the acknowledgement can come.     *)
(* The promise of a failed write is awaited by nobody; when it is rejected *)
(* as well, Node ends the process.                                         *)
(***************************************************************************)
EXTENDS SendQueue

CONSTANTS
    MaxConnects,  \* bound: calls of Connect()
    MaxWrites,    \* bound: telegrams the application writes
    IsKBERRY,     \* option serialInterface.isKBERRY
    Patient       \* the application calls Disconnect() only while CONNECTED,
                  \* and Connect() only when the last port has gone quiet

ASSUME SerialLinkAssumption ==
    /\ MaxConnects \in Nat
    /\ MaxWrites \in Nat
    /\ IsKBERRY \in BOOLEAN
    /\ Patient \in BOOLEAN

VARIABLES
    link,     \* the fields of the client, and its drivers
    written,  \* telegrams written so far
    ended     \* an unhandled rejection has ended the process

vars == << link, written, ended >>

Drivers == 1 .. MaxConnects
NoDriver == 0
ResetRetries == 3

\* The frames of initialize() after the reset.  A failure of the last one of a
\* KBERRY, disableGroupFilter(), is only logged.
InitFrames == IF IsKBERRY THEN << "setIndicationSending", "sendCommMode",
                                  "disableGroupFilter" >>
              ELSE << "sendCommMode" >>

\* The asynchronous calls on a driver: open(), and close() by its two callers.
Closers == {"Disconnect", "setDisconnected"}
Calls == {"open"} \cup Closers
At(step, n) == [step |-> step, n |-> n]
Idle == At("idle", 0)

\* port is undefined in the code unless "open".  waiter is the call whose
\* promise awaitingAck holds: "loop" for the queue loop, "orphan" when the
\* write failed and nobody awaits the promise any more.  closeEvent: the port
\* has closed and the event of that name is emitted after 2 s.
NewDriver == [port |-> "none", waiter |-> "none", closeEvent |-> FALSE,
              call |-> [c \in Calls |-> Idle]]

\* loopOn is the driver that the queue loop awaits.
Init ==
    /\ link = [state |-> "DISCONNECTED", driver |-> NoDriver, connects |-> 0,
               loopOn |-> NoDriver,
               q |-> [EmptyQueue EXCEPT !.clearToSend = FALSE,
                                        !.socketReady = FALSE],
               drv |-> [d \in Drivers |-> NewDriver]]
    /\ written = 0
    /\ ended = FALSE

PortOpen(l, d) == d # NoDriver /\ l.drv[d].port = "open"

----------------------------------------------------------------------------
\* Methods.

\* Mutation: a second waiter is turned away.
ArmOnce(l, d, who) ==
    IF l.drv[d].waiter = "none" THEN [l EXCEPT !.drv[d].waiter = who] ELSE l

\* waitForAck(): an earlier waiter is dropped with its timer.
Arm(l, d, who) == [l EXCEPT !.drv[d].waiter = who]

Goto(l, d, c, step, n) == [l EXCEPT !.drv[d].call[c] = At(step, n)]

\* The queue becomes q; a telegram that leaves it goes to the current driver.
\* Without a driver the optional chaining yields no promise to settle; with its
\* port closed sendCemiPayload() rejects at once.
WithQueue(l, q) ==
    LET r == [l EXCEPT !.q = q]
    IN  IF ~Emits(l.q, q) THEN r
        ELSE IF l.driver = NoDriver THEN [r EXCEPT !.loopOn = NoDriver]
        ELSE IF ~PortOpen(l, l.driver) THEN [r EXCEPT !.q = SendFailed(q)]
        ELSE [Arm(r, l.driver, "loop") EXCEPT !.loopOn = l.driver]

\* What Disconnect() and setDisconnected() do behind closeSerialTransport().
Returned(l, c) ==
    IF c = "Disconnect" THEN [l EXCEPT !.state = "DISCONNECTED"]
    ELSE WithQueue(l, SetClearToSend(l.q))

\* close() has ended: closeSerialTransport() drops the driver and returns.
TransportClosed(l, c) ==
    Returned([l EXCEPT !.driver = NoDriver, !.q.socketReady = FALSE], c)

\* closeSerialTransport(): without a driver it returns, and close() sends a
\* reset if the port is open.
CloseTransport(l, c) ==
    LET d == l.driver
    IN  IF d = NoDriver THEN Returned(l, c)
        ELSE IF PortOpen(l, d) THEN Goto(Arm(l, d, c), d, c, "reset", 1)
        ELSE TransportClosed(l, c)

SetDisconnected(l) ==
    CloseTransport([l EXCEPT !.state = "DISCONNECTED"], "setDisconnected")

\* open() rejects: Connect() reports it and disconnects.
ConnectFailed(l, d) == SetDisconnected(Goto(l, d, "open", "failed", 0))

\* open() resolves, whatever has become of the client meanwhile.
Connected(l, d) ==
    LET up == [Goto(l, d, "open", "done", 0) EXCEPT
                   !.state = "CONNECTED", !.q.socketReady = TRUE, !.q.failed = 0]
    IN  WithQueue(up, SetClearToSend(up.q))

\* The nth frame of initialize(), or its end.
InitFrame(l, d, n) ==
    IF n > Len(InitFrames) THEN Connected(l, d)
    ELSE IF PortOpen(l, d) THEN Goto(Arm(l, d, "open"), d, "open", "frame", n)
    ELSE IF InitFrames[n] = "disableGroupFilter" THEN Connected(l, d)
    ELSE ConnectFailed(l, d)

\* sendReset() has returned, to initialize() or to close().
ResetDone(l, d, c) ==
    IF c = "open" THEN InitFrame(l, d, 1) ELSE Goto(l, d, c, "settle", 0)

\* Mutation: the reset is repeated for ever.
ResetForever(l, d, c) == Goto(l, d, c, "backoff", 1)

\* Mutation: one attempt too many.
ResetOnceMore(l, d, c) ==
    LET n == l.drv[d].call[c].n
    IN  IF n <= ResetRetries THEN Goto(l, d, c, "backoff", n)
        ELSE ResetDone(l, d, c)

\* A reset was not acknowledged: three attempts, then on as if it were.
ResetMissed(l, d, c) ==
    LET n == l.drv[d].call[c].n
    IN  IF n < ResetRetries THEN Goto(l, d, c, "backoff", n)
        ELSE ResetDone(l, d, c)

\* The frame that open() or close() was writing failed.
WriteRejected(l, d, c) ==
    IF c # "open" THEN Goto(l, d, c, "closing", 0)
    ELSE IF /\ l.drv[d].call[c].step = "frame"
            /\ InitFrames[l.drv[d].call[c].n] = "disableGroupFilter"
         THEN Connected(l, d)
    ELSE ConnectFailed(l, d)

\* Mutation: the rejection of a frame is reported, the loop not told.
LoopNotTold(l) == l

\* sendCemiPayload() of the queue loop rejects: error event, resolve(false).
LoopRejected(l) == WithQueue(l, SendFailed(l.q))

\* The waiter's promise is rejected: by its timer, or by close().
Rejected(l, d, who) ==
    CASE who = "loop" -> LoopRejected(l)
      [] who \in Calls /\ l.drv[d].call[who].step = "reset" -> ResetMissed(l, d, who)
      [] who = "open" /\ l.drv[d].call[who].step = "frame" -> WriteRejected(l, d, who)
      [] OTHER -> l

\* The waiter's promise is resolved.
Resolved(l, d, who) ==
    CASE who = "loop" -> WithQueue(l, SendSucceeded(l.q))
      [] who \in Calls /\ l.drv[d].call[who].step = "reset" -> ResetDone(l, d, who)
      [] who = "open" /\ l.drv[d].call[who].step = "frame" ->
            InitFrame(l, d, l.drv[d].call[who].n + 1)
      [] OTHER -> l

----------------------------------------------------------------------------
\* The application.

\* Nothing is left of the last connection: no call, no close event to come.
Quiet == \A d \in Drivers :
            /\ ~link.drv[d].closeEvent
            /\ \A c \in Calls : link.drv[d].call[c].step \in {"idle", "done", "failed"}

Connect ==
    /\ link.state = "DISCONNECTED"
    /\ link.connects < MaxConnects
    /\ Patient => Quiet
    /\ LET d == link.connects + 1
           reset == [link EXCEPT !.state = "CONNECTING", !.q.failed = 0]
           opening == [WithQueue(reset, SetClearToSend(reset.q))
                       EXCEPT !.driver = d, !.connects = d]
       IN  link' = Goto(opening, d, "open", "opening", 0)
    /\ UNCHANGED << written, ended >>

Write ==
    /\ link.state = "CONNECTED"
    /\ written < MaxWrites
    /\ written' = written + 1
    /\ link' = WithQueue(link, SendLast(link.q, QueueItem(Telegram(written), FALSE, -1)))
    /\ UNCHANGED ended

Disconnect ==
    /\ link.state # "DISCONNECTING"
    /\ Patient => link.state = "CONNECTED"
    /\ \A d \in Drivers : link.drv[d].call["Disconnect"] = Idle  \* bound: one at a time
    /\ link' = CloseTransport([link EXCEPT !.state = "DISCONNECTING",
                                           !.q.exitLoop = TRUE], "Disconnect")
    /\ UNCHANGED << written, ended >>

----------------------------------------------------------------------------
\* Drivers.

\* Mutation: open() does not await initialize().
InitializeNotAwaited(l, d) == Arm(Connected(l, d), d, "open")

\* createSerialPort() resolves: attachPort, and initialize() sends its reset.
Opened(l, d) == Goto(Arm(l, d, "open"), d, "open", "reset", 1)

PortOpens(d) ==
    /\ link.drv[d].call["open"].step = "opening"
    /\ \/ link' = Opened([link EXCEPT !.drv[d].port = "open"], d)
       \/ link' = ConnectFailed(link, d)
    /\ UNCHANGED << written, ended >>

\* 0xE5 arrives; without a waiter it is ignored.
ReceiveAck(d) ==
    /\ PortOpen(link, d)
    /\ link.drv[d].waiter # "none"
    /\ link' = Resolved(Arm(link, d, "none"), d, link.drv[d].waiter)
    /\ UNCHANGED << written, ended >>

\* An orphan has no handler for its rejection.
AckTimeout(d) ==
    /\ link.drv[d].waiter # "none"
    /\ link' = Rejected(Arm(link, d, "none"), d, link.drv[d].waiter)
    /\ ended' = (link.drv[d].waiter = "orphan")
    /\ UNCHANGED written

\* The write or the drain of what the waiter has sent reports an error.  The
\* promise of its acknowledgement stays behind.
WriteFails(d) ==
    /\ PortOpen(link, d)
    /\ LET who == link.drv[d].waiter
           left == Arm(link, d, "orphan")
       IN  /\ who \notin {"none", "orphan"}
           /\ link' = IF who = "loop" THEN LoopRejected(left)
                      ELSE WriteRejected(left, d, who)
    /\ UNCHANGED << written, ended >>

\* 200 ms after a missed reset: the next attempt, which fails at its write when
\* the port has gone.
BackoffOver(d, c) ==
    /\ link.drv[d].call[c].step = "backoff"
    /\ LET n == link.drv[d].call[c].n + 1
       IN  link' = IF PortOpen(link, d)
                   THEN Goto(Arm(link, d, c), d, c, "reset", n)
                   ELSE WriteRejected(Arm(link, d, "orphan"), d, c)
    /\ UNCHANGED << written, ended >>

\* 50 ms after the reset close() closes the port.
Settled(d, c) ==
    /\ link.drv[d].call[c].step = "settle"
    /\ link' = Goto(link, d, c, "closing", 0)
    /\ UNCHANGED << written, ended >>

\* The port has closed, with its close event or without (an error, or 1.2 s),
\* and close() cleans up: a pending waiter is rejected.
PortClosed(d, c, event) ==
    /\ link.drv[d].call[c].step = "closing"
    /\ event => PortOpen(link, d)
    /\ LET who == link.drv[d].waiter
           closed == [Goto(Arm(link, d, "none"), d, c, "idle", 0) EXCEPT
                          !.drv[d].port = "closed",
                          !.drv[d].closeEvent = @ \/ event]
       IN  /\ link' = TransportClosed(Rejected(closed, d, who), c)
           /\ ended' = (who = "orphan")
    /\ UNCHANGED written

\* The device is unplugged.
PortLost(d) ==
    /\ PortOpen(link, d)
    /\ link' = [link EXCEPT !.drv[d].port = "lost", !.drv[d].closeEvent = TRUE]
    /\ UNCHANGED << written, ended >>

\* A frame awaits its acknowledgement, for 1.2 s, on driver d.
FrameAwaited(d) ==
    \/ link.drv[d].waiter = "loop"
    \/ link.drv[d].waiter = "open" /\ link.drv[d].call["open"].step = "frame"

\* 2 s after the port has closed the event reaches the client, which does not
\* ask whose it is.
CloseEvent(d) ==
    /\ link.drv[d].closeEvent
    /\ ~FrameAwaited(d)
    /\ LET told == [link EXCEPT !.drv[d].closeEvent = FALSE,
                                !.q.socketReady = FALSE]
       IN  link' = IF told.state \in {"DISCONNECTED", "DISCONNECTING"} THEN told
                   ELSE SetDisconnected(told)
    /\ UNCHANGED << written, ended >>

Pace ==
    /\ link.q.loop = "pacing"
    /\ link' = WithQueue([link EXCEPT !.q.loop = "idle"], PacingDone(link.q))
    /\ UNCHANGED << written, ended >>

----------------------------------------------------------------------------
Next ==
    /\ ~ended
    /\ \/ Connect
       \/ Write
       \/ Disconnect
       \/ Pace
       \/ \E d \in Drivers :
             \/ PortOpens(d)
             \/ ReceiveAck(d)
             \/ AckTimeout(d)
             \/ WriteFails(d)
             \/ PortLost(d)
             \/ CloseEvent(d)
             \/ \E c \in Calls : BackoffOver(d, c)
             \/ \E c \in Closers : Settled(d, c) \/ \E e \in BOOLEAN : PortClosed(d, c, e)

\* The operating system answers open and close, and due timers fire, as long as
\* the process runs; nothing is assumed of the device, the wire or the application.
Fairness ==
    /\ WF_vars(~ended /\ Pace)
    /\ \A d \in Drivers :
          /\ WF_vars(~ended /\ PortOpens(d))
          /\ WF_vars(~ended /\ AckTimeout(d))
          /\ WF_vars(~ended /\ CloseEvent(d))
          /\ \A c \in Calls : WF_vars(~ended /\ BackoffOver(d, c))
          /\ \A c \in Closers :
                /\ WF_vars(~ended /\ Settled(d, c))
                /\ WF_vars(~ended /\ \E e \in BOOLEAN : PortClosed(d, c, e))

Spec == Init /\ [][Next]_vars
FairSpec == Spec /\ Fairness

----------------------------------------------------------------------------
Packets == {Telegram(n) : n \in 0 .. MaxWrites - 1}
Steps == {"idle", "opening", "reset", "backoff", "frame", "settle", "closing",
          "done", "failed"}

\* The state has its type.
TypeOK ==
    /\ link \in [state : {"DISCONNECTED", "CONNECTING", "CONNECTED", "DISCONNECTING"},
                 driver : Drivers \cup {NoDriver}, connects : 0 .. MaxConnects,
                 loopOn : Drivers \cup {NoDriver}, q : Queues(Packets),
                 drv : [Drivers -> [port : {"none", "open", "lost", "closed"},
                                    waiter : {"none", "loop", "orphan"} \cup Calls,
                                    closeEvent : BOOLEAN,
                                    call : [Calls -> [step : Steps, n : 0 .. 3]]]]]
    /\ written \in 0 .. MaxWrites
    /\ ended \in BOOLEAN

\* The promise of an acknowledgement is never left behind by the call, or the
\* queue loop, that asked for it: its rejection is handled.  Only the orphan of
\* a failed write has nobody, however the application calls.
NoPromiseLeftBehind ==
    \A d \in Drivers :
        /\ \A c \in Calls : link.drv[d].waiter = c =>
                             link.drv[d].call[c].step \in {"reset", "frame"}
        /\ link.drv[d].waiter = "loop" => link.q.loop = "sending" /\ link.loopOn = d

\* Every await of an acknowledgement has a timer that ends it.  Only the queue
\* loop can lose its own, to the reset of a Disconnect(), when it is to stop.
EveryAwaitIsTimed ==
    /\ \A d \in Drivers, c \in Calls :
          link.drv[d].call[c].step \in {"reset", "frame"} => link.drv[d].waiter = c
    /\ link.q.loop = "sending" =>
          \/ link.loopOn # NoDriver /\ link.drv[link.loopOn].waiter = "loop"
          \/ link.q.exitLoop

\* A connected client's queue does not stand still: its telegrams are sent, or
\* discarded after a failure, unless the client was told to disconnect.
QueueDrains ==
    link.q.commandQueue # << >> ~>
        \/ link.q.commandQueue = << >>
        \/ link.state # "CONNECTED"
        \/ link.q.exitLoop
        \/ ended

\* Connect() and Disconnect() end, whatever the device answers, unless the
\* process does.
CallsEnd ==
    /\ link.state = "CONNECTING" ~> link.state # "CONNECTING" \/ ended
    /\ link.state = "DISCONNECTING" ~> link.state = "DISCONNECTED" \/ ended

\* KNXClient.ts, of isConnected(): "Returns true if the socket is connected".
ConnectedHasPort ==
    link.state = "CONNECTED" => link.driver # NoDriver
=============================================================================
