--------------------------- MODULE SerialLink_proofs ---------------------------
(***************************************************************************)
(* Proofs about the serial client and its FT1.2 drivers, for every number  *)
(* of connections and telegrams, for both kinds of interface and for every *)
(* application, patient or not.                                            *)
(*                                                                         *)
(* The invariant is the types, and that a driver's waiter is always that   *)
(* of a call, or of the loop, which awaits it now.  Calls may take each    *)
(* other's acknowledgement; what is proved is that none goes on, or ends,  *)
(* while its own promise is still the one the timer will reject.           *)
(***************************************************************************)
EXTENDS SerialLink, TLAPS

-----------------------------------------------------------------------------
(* The queue of the client: what the operations of SendQueue preserve *)

\* One turn of the loop of handleKNXQueue leaves a queue of the same packets.
LEMMA DispatchType ==
    ASSUME NEW P, NEW q \in Queues(P), Sendable(q)
    PROVE  Dispatch(q) \in Queues(P)
<1>1. q.commandQueue \in Seq(ItemsOf(P)) /\ q.commandQueue # << >>
  BY DEF Queues, Sendable
<1>2. Head(q.commandQueue) \in ItemsOf(P) /\ Tail(q.commandQueue) \in Seq(ItemsOf(P))
  BY <1>1
<1>3. Head(q.commandQueue) \in ItemsOf(P \cup {NoPacket})
  BY <1>2 DEF ItemsOf
<1>4. Head(q.commandQueue).packet \in P \cup {NoPacket}
  BY <1>2 DEF ItemsOf
<1> QED
  BY <1>2, <1>3, <1>4 DEF Dispatch, SetTimerWaitingForACK, Queues

\* handleKNXQueue() leaves a queue of the same packets, whether its loop runs or not.
LEMMA HandleType ==
    ASSUME NEW P, NEW q \in Queues(P)
    PROVE  HandleKNXQueue(q) \in Queues(P)
BY DispatchType DEF HandleKNXQueue

\* The two awaits of the loop leave a queue of the same packets, sound or not.
LEMMA LoopType ==
    ASSUME NEW P, NEW q \in Queues(P)
    PROVE  /\ SendSucceeded(q) \in Queues(P)
           /\ SendFailed(q) \in Queues(P)
           /\ PacingDone(q) \in Queues(P)
<1>1. SendSucceeded(q) \in Queues(P)
  BY DEF SendSucceeded, Queues
<1>2. SendFailed(q) \in Queues(P)
  <2>1. << >> \in Seq(ItemsOf(P))
    OBVIOUS
  <2> QED
    BY <2>1 DEF SendFailed, Queues
<1>3. PacingDone(q) \in Queues(P)
  <2>1. [q EXCEPT !.loop = "idle"] \in Queues(P)
    BY DEF Queues
  <2> QED
    BY <2>1, HandleType DEF PacingDone
<1> QED
  BY <1>1, <1>2, <1>3

-----------------------------------------------------------------------------
(* The client *)

States == {"DISCONNECTED", "CONNECTING", "CONNECTED", "DISCONNECTING"}
Waiters == {"none", "loop", "orphan"} \cup Calls

CallFields == [step : Steps, n : 0 .. 3]

DriverFields ==
    [port : {"none", "open", "lost", "closed"}, waiter : Waiters,
     closeEvent : BOOLEAN, call : [Calls -> CallFields]]

LinkFields ==
    [state : States, driver : Drivers \cup {NoDriver}, connects : 0 .. MaxConnects,
     loopOn : Drivers \cup {NoDriver}, q : Queues(Packets),
     drv : [Drivers -> DriverFields]]

\* The attempts at a reset, and the frames of initialize(), are counted.
Counted(l) ==
    \A d \in Drivers, c \in Calls :
        LET call == l.drv[d].call[c]
        IN  /\ call.step = "backoff" => call.n < ResetRetries
            /\ call.step = "frame" => call.n \in 1 .. Len(InitFrames)

Typed(l) == l \in LinkFields /\ Counted(l)

----------------------------------------------------------------------------
Waiter(l, d) == l.drv[d].waiter
Step(l, d, c) == l.drv[d].call[c].step
Awaiting == {"reset", "frame"}

\* A waiter belongs to a call, or to the loop, that is waiting for it.
Awaited(l) ==
    \A d \in Drivers :
        /\ \A c \in Calls : Waiter(l, d) = c => Step(l, d, c) \in Awaiting
        /\ Waiter(l, d) = "loop" => l.q.loop = "sending" /\ l.loopOn = d

\* A driver that is not made yet has not begun to open.
Unmade(l) == \A d \in Drivers : d > l.connects => Step(l, d, "open") = "idle"

Sound(l) == Typed(l) /\ Awaited(l) /\ Unmade(l)

IInv == Sound(link) /\ written \in 0 .. MaxWrites /\ ended \in BOOLEAN

----------------------------------------------------------------------------
\* Types.

\* initialize() has one frame or three, and the first one counts.
LEMMA InitFramesFacts ==
    /\ Len(InitFrames) \in 1 .. 3
    /\ InitFrames[1] # "disableGroupFilter"
BY DEF InitFrames

SameClient(l, m) ==
    /\ m.state = l.state /\ m.driver = l.driver /\ m.connects = l.connects
    /\ m.loopOn = l.loopOn /\ m.q = l.q

\* l and m differ on driver d at most.
Elsewhere(l, m, d) == \A e \in Drivers : e # d => m.drv[e] = l.drv[e]

\* waitForAck() replaces the waiter of one driver.
LEMMA ArmFits ==
    ASSUME NEW l, Typed(l), NEW d \in Drivers, NEW who \in Waiters
    PROVE  LET m == Arm(l, d, who)
           IN  /\ Typed(m) /\ SameClient(l, m) /\ Elsewhere(l, m, d)
               /\ m.drv[d].waiter = who /\ m.drv[d].port = l.drv[d].port
               /\ m.drv[d].closeEvent = l.drv[d].closeEvent
               /\ m.drv[d].call = l.drv[d].call
<1> DEFINE e == [l.drv[d] EXCEPT !.waiter = who]
           ds == [l.drv EXCEPT ![d] = e]
           m == [l EXCEPT !.drv = ds]
<1>1. Arm(l, d, who) = m
  BY DEF Arm
<1>2. l \in LinkFields /\ l.drv \in [Drivers -> DriverFields] /\ l.drv[d] \in DriverFields
  BY DEF Typed, LinkFields
<1>3. /\ e \in DriverFields /\ e.waiter = who /\ e.port = l.drv[d].port
      /\ e.closeEvent = l.drv[d].closeEvent /\ e.call = l.drv[d].call
  BY <1>2 DEF DriverFields
<1> HIDE DEF e
<1>4. /\ ds \in [Drivers -> DriverFields] /\ ds[d] = e
      /\ \A f \in Drivers : f # d => ds[f] = l.drv[f]
  BY <1>2, <1>3
<1> HIDE DEF ds
<1>5. m \in LinkFields /\ m.drv = ds /\ SameClient(l, m)
  BY <1>2, <1>4 DEF LinkFields, SameClient
<1> HIDE DEF m
<1>6. Elsewhere(l, m, d)
  BY <1>4, <1>5 DEF Elsewhere
<1>7. Counted(m)
  <2> SUFFICES ASSUME NEW f \in Drivers PROVE m.drv[f].call = l.drv[f].call
    BY DEF Typed, Counted
  <2> QED
    BY <1>3, <1>4, <1>5
<1> QED
  BY <1>1, <1>3, <1>4, <1>5, <1>6, <1>7 DEF Typed

\* The attempt, or the frame of initialize(), that a step may be at.
MayBe(step, n) ==
    /\ step \in Steps /\ n \in 0 .. 3
    /\ step = "backoff" => n < ResetRetries
    /\ step = "frame" => n \in 1 .. Len(InitFrames)

\* A call on one driver gets to its next step.
LEMMA GotoFits ==
    ASSUME NEW l, Typed(l), NEW d \in Drivers, NEW c \in Calls,
           NEW step, NEW n, MayBe(step, n)
    PROVE  LET m == Goto(l, d, c, step, n)
           IN  /\ Typed(m) /\ SameClient(l, m) /\ Elsewhere(l, m, d)
               /\ m.drv[d].waiter = l.drv[d].waiter /\ m.drv[d].port = l.drv[d].port
               /\ m.drv[d].closeEvent = l.drv[d].closeEvent
               /\ m.drv[d].call[c] = At(step, n)
               /\ m.drv[d].call[c].step = step /\ m.drv[d].call[c].n = n
               /\ \A o \in Calls : o # c => m.drv[d].call[o] = l.drv[d].call[o]
<1> DEFINE cs == [l.drv[d].call EXCEPT ![c] = At(step, n)]
           e == [l.drv[d] EXCEPT !.call = cs]
           ds == [l.drv EXCEPT ![d] = e]
           m == [l EXCEPT !.drv = ds]
<1>1. Goto(l, d, c, step, n) = m
  BY DEF Goto
<1>2. /\ l \in LinkFields /\ l.drv \in [Drivers -> DriverFields]
      /\ l.drv[d] \in DriverFields /\ l.drv[d].call \in [Calls -> CallFields]
  BY DEF Typed, LinkFields, DriverFields
<1>3. At(step, n) \in CallFields /\ At(step, n).step = step /\ At(step, n).n = n
  BY DEF At, CallFields, MayBe
<1>4. /\ cs \in [Calls -> CallFields] /\ cs[c] = At(step, n)
      /\ \A o \in Calls : o # c => cs[o] = l.drv[d].call[o]
  BY <1>2, <1>3
<1> HIDE DEF cs
<1>5. /\ e \in DriverFields /\ e.waiter = l.drv[d].waiter /\ e.port = l.drv[d].port
      /\ e.closeEvent = l.drv[d].closeEvent /\ e.call = cs
  BY <1>2, <1>4 DEF DriverFields
<1> HIDE DEF e
<1>6. /\ ds \in [Drivers -> DriverFields] /\ ds[d] = e
      /\ \A f \in Drivers : f # d => ds[f] = l.drv[f]
  BY <1>2, <1>5
<1> HIDE DEF ds
<1>7. m \in LinkFields /\ m.drv = ds /\ SameClient(l, m)
  BY <1>2, <1>6 DEF LinkFields, SameClient
<1> HIDE DEF m
<1>8. Elsewhere(l, m, d)
  BY <1>6, <1>7 DEF Elsewhere
<1>9. Counted(m)
  <2> SUFFICES ASSUME NEW f \in Drivers, NEW o \in Calls
               PROVE  \/ m.drv[f].call[o] = l.drv[f].call[o]
                      \/ m.drv[f].call[o] = At(step, n)
    BY <1>3 DEF Typed, Counted, MayBe
  <2> QED
    BY <1>4, <1>5, <1>6, <1>7
<1> QED
  BY <1>1, <1>3, <1>4, <1>5, <1>6, <1>7, <1>8, <1>9 DEF Typed

\* A change of the client that leaves the drivers alone keeps the counts.
LEMMA SameDriversTyped ==
    ASSUME NEW l, Typed(l), NEW m \in LinkFields, m.drv = l.drv
    PROVE  Typed(m)
BY DEF Typed, Counted

\* An open port has a driver.
LEMMA OpenPort ==
    ASSUME NEW l, Typed(l)
    PROVE  /\ l \in LinkFields /\ l.q \in Queues(Packets)
           /\ l.driver \in Drivers \cup {NoDriver}
           /\ NoDriver \notin Drivers
           /\ PortOpen(l, l.driver) => l.driver \in Drivers
           /\ \A d \in Drivers : PortOpen(l, d) <=> l.drv[d].port = "open"
BY DEF Typed, LinkFields, PortOpen, Drivers, NoDriver

\* What a change of the queue does to the rest: the driver's waiter is the loop's
\* when a telegram leaves on an open port, and nothing else is touched.
LEMMA WithQueueTyped ==
    ASSUME NEW l, Typed(l), NEW r \in Queues(Packets)
    PROVE  LET m == WithQueue(l, r)
           IN  /\ Typed(m) /\ m.state = l.state /\ m.driver = l.driver
               /\ m.connects = l.connects
               /\ \/ /\ ~Emits(l.q, r) /\ m.q = r
                     /\ m.drv = l.drv /\ m.loopOn = l.loopOn
                  \/ /\ Emits(l.q, r) /\ l.driver = NoDriver /\ m.q = r
                     /\ m.drv = l.drv /\ m.loopOn = NoDriver
                  \/ /\ Emits(l.q, r) /\ l.driver \in Drivers
                     /\ ~PortOpen(l, l.driver) /\ m.q = SendFailed(r)
                     /\ m.drv = l.drv /\ m.loopOn = l.loopOn
                  \/ /\ Emits(l.q, r) /\ l.driver \in Drivers
                     /\ PortOpen(l, l.driver) /\ m.q = r
                     /\ m.loopOn = l.driver /\ Elsewhere(l, m, l.driver)
                     /\ m.drv[l.driver].waiter = "loop"
                     /\ m.drv[l.driver].port = l.drv[l.driver].port
                     /\ m.drv[l.driver].closeEvent = l.drv[l.driver].closeEvent
                     /\ m.drv[l.driver].call = l.drv[l.driver].call
<1> DEFINE a == [l EXCEPT !.q = r]
           m == WithQueue(l, r)
<1>1. /\ a \in LinkFields /\ a.state = l.state /\ a.driver = l.driver
      /\ a.connects = l.connects /\ a.loopOn = l.loopOn /\ a.q = r /\ a.drv = l.drv
  BY OpenPort DEF LinkFields
<1>2. Typed(a)
  BY <1>1, SameDriversTyped
<1>3. CASE ~Emits(l.q, r)
  BY <1>1, <1>2, <1>3 DEF WithQueue
<1>4. CASE Emits(l.q, r) /\ l.driver = NoDriver
  <2>1. m = [a EXCEPT !.loopOn = NoDriver]
    BY <1>4 DEF WithQueue
  <2> HIDE DEF a
  <2>2. /\ m \in LinkFields /\ m.state = a.state /\ m.driver = a.driver
        /\ m.connects = a.connects /\ m.loopOn = NoDriver /\ m.q = a.q /\ m.drv = a.drv
    BY <1>1, <2>1 DEF LinkFields
  <2> HIDE DEF m
  <2> QED
    BY <1>1, <1>4, <2>2, SameDriversTyped DEF m
<1>5. CASE Emits(l.q, r) /\ l.driver # NoDriver /\ ~PortOpen(l, l.driver)
  <2>1. m = [a EXCEPT !.q = SendFailed(r)]
    BY <1>5 DEF WithQueue
  <2>2. SendFailed(r) \in Queues(Packets)
    BY LoopType
  <2> HIDE DEF a
  <2>3. /\ m \in LinkFields /\ m.state = a.state /\ m.driver = a.driver
        /\ m.connects = a.connects /\ m.loopOn = a.loopOn
        /\ m.q = SendFailed(r) /\ m.drv = a.drv
    BY <1>1, <2>1, <2>2 DEF LinkFields
  <2> HIDE DEF m
  <2> QED
    BY <1>1, <1>5, <2>3, SameDriversTyped, OpenPort DEF m
<1>6. CASE Emits(l.q, r) /\ l.driver # NoDriver /\ PortOpen(l, l.driver)
  <2> DEFINE b == Arm(a, l.driver, "loop")
  <2>1. m = [b EXCEPT !.loopOn = l.driver]
    BY <1>6 DEF WithQueue
  <2>2. l.driver \in Drivers
    BY <1>6, OpenPort
  <2> HIDE DEF a
  <2>3. /\ Typed(b) /\ SameClient(a, b) /\ Elsewhere(a, b, l.driver)
        /\ b.drv[l.driver].waiter = "loop"
        /\ b.drv[l.driver].port = a.drv[l.driver].port
        /\ b.drv[l.driver].closeEvent = a.drv[l.driver].closeEvent
        /\ b.drv[l.driver].call = a.drv[l.driver].call
    BY <1>2, <2>2, ArmFits DEF Waiters
  <2> HIDE DEF b
  <2>4. /\ m \in LinkFields /\ m.state = b.state /\ m.driver = b.driver
        /\ m.connects = b.connects /\ m.loopOn = l.driver
        /\ m.q = b.q /\ m.drv = b.drv
    BY <2>1, <2>2, <2>3, OpenPort DEF LinkFields
  <2>5. Typed(m)
    BY <2>3, <2>4, SameDriversTyped
  <2> HIDE DEF m
  <2> QED
    BY <1>1, <1>6, <2>2, <2>3, <2>4, <2>5 DEF m, SameClient, Elsewhere
<1> QED
  BY <1>3, <1>4, <1>5, <1>6

\* What a step of call c on driver d changes: the call, and perhaps the waiter.
OnDriver(l, m, d, c, waiter, step) ==
    /\ SameClient(l, m) /\ Elsewhere(l, m, d)
    /\ m.drv[d].port = l.drv[d].port /\ m.drv[d].closeEvent = l.drv[d].closeEvent
    /\ Waiter(m, d) = waiter
    /\ Step(m, d, c) = step
    /\ \A o \in Calls : o # c => Step(m, d, o) = Step(l, d, o)

\* A call that gets on without an acknowledgement leaves the waiter.
LEMMA GotoMoves ==
    ASSUME NEW l, Typed(l), NEW d \in Drivers, NEW c \in Calls,
           NEW step, NEW n, MayBe(step, n)
    PROVE  LET m == Goto(l, d, c, step, n)
           IN  Typed(m) /\ OnDriver(l, m, d, c, Waiter(l, d), step)
<1> DEFINE m == Goto(l, d, c, step, n)
<1>1. /\ Typed(m) /\ SameClient(l, m) /\ Elsewhere(l, m, d)
      /\ m.drv[d].waiter = l.drv[d].waiter /\ m.drv[d].port = l.drv[d].port
      /\ m.drv[d].closeEvent = l.drv[d].closeEvent
      /\ m.drv[d].call[c].step = step
      /\ \A o \in Calls : o # c => m.drv[d].call[o] = l.drv[d].call[o]
  BY GotoFits
<1> HIDE DEF m
<1>2. OnDriver(l, m, d, c, Waiter(l, d), step)
  BY <1>1 DEF OnDriver, Waiter, Step
<1> QED
  BY <1>1, <1>2 DEF m

\* A call that writes to its port takes the waiter.
LEMMA CallMoves ==
    ASSUME NEW l, Typed(l), NEW d \in Drivers, NEW c \in Calls,
           NEW step, NEW n, MayBe(step, n)
    PROVE  LET m == Goto(Arm(l, d, c), d, c, step, n)
           IN  Typed(m) /\ OnDriver(l, m, d, c, c, step)
<1> DEFINE a == Arm(l, d, c)
           m == Goto(a, d, c, step, n)
<1>1. /\ Typed(a) /\ SameClient(l, a) /\ Elsewhere(l, a, d)
      /\ a.drv[d].waiter = c /\ a.drv[d].port = l.drv[d].port
      /\ a.drv[d].closeEvent = l.drv[d].closeEvent
      /\ a.drv[d].call = l.drv[d].call
  <2>1. c \in Waiters
    BY DEF Waiters
  <2> QED
    BY <2>1, ArmFits
<1> HIDE DEF a
<1>3. Typed(m) /\ OnDriver(a, m, d, c, Waiter(a, d), step)
  BY <1>1, GotoMoves
<1> HIDE DEF m
<1>4. OnDriver(l, m, d, c, c, step)
  BY <1>1, <1>3 DEF OnDriver, SameClient, Elsewhere, Waiter, Step
<1> QED
  BY <1>3, <1>4 DEF m, a

\* A waiter is dropped, or left with nobody to await it.
LEMMA ArmMoves ==
    ASSUME NEW l, Typed(l), NEW d \in Drivers, NEW who \in Waiters, NEW c \in Calls
    PROVE  LET m == Arm(l, d, who)
           IN  Typed(m) /\ OnDriver(l, m, d, c, who, Step(l, d, c))
BY ArmFits DEF OnDriver, Waiter, Step

----------------------------------------------------------------------------
\* Steps of a driver, and of the queue, that leave no waiter behind.

\* The calls, and the waiters that are none of them.
LEMMA CallNames ==
    /\ Calls = {"open", "Disconnect", "setDisconnected"}
    /\ Closers = {"Disconnect", "setDisconnected"}
    /\ "none" \notin Calls /\ "loop" \notin Calls /\ "orphan" \notin Calls
BY DEF Calls, Closers

\* A call that is about to go on, whose promise is no longer the one awaited.
Free(l, d, c) ==
    /\ Sound(l)
    /\ d \in Drivers /\ c \in Calls
    /\ Waiter(l, d) # c
    /\ c = "open" => d <= l.connects

\* A driver that has begun to open has been made.
LEMMA Begun ==
    ASSUME NEW l, Sound(l), NEW d \in Drivers, Step(l, d, "open") # "idle"
    PROVE  d <= l.connects
<1>1. l.connects \in Int /\ d \in Int /\ ~(d > l.connects)
  BY SerialLinkAssumption DEF Sound, Typed, LinkFields, Unmade, Drivers
<1> QED
  BY <1>1

\* A call makes a step: its own waiter, if it is that, is one it waits for.
LEMMA MovesSound ==
    ASSUME NEW l, Sound(l), NEW m, Typed(m), NEW d \in Drivers, NEW c \in Calls,
           NEW w, NEW step, OnDriver(l, m, d, c, w, step),
           w \in {"none", "orphan", c, Waiter(l, d)},
           w = c => step \in Awaiting,
           c = "open" => d <= l.connects
    PROVE  Sound(m)
<1>1. /\ SameClient(l, m) /\ Elsewhere(l, m, d)
      /\ Waiter(m, d) = w /\ Step(m, d, c) = step
      /\ \A o \in Calls : o # c => Step(m, d, o) = Step(l, d, o)
      /\ Awaited(l) /\ Unmade(l)
  BY DEF OnDriver, Sound
<1>2. \A e \in Drivers : e # d => /\ Waiter(m, e) = Waiter(l, e)
                                  /\ \A o \in Calls : Step(m, e, o) = Step(l, e, o)
  BY <1>1 DEF Elsewhere, Waiter, Step
<1>3. ASSUME NEW e \in Drivers, NEW o \in Calls, Waiter(m, e) = o
      PROVE  Step(m, e, o) \in Awaiting
  <2>1. CASE e # d
    BY <1>1, <1>2, <1>3, <2>1 DEF Awaited
  <2>2. CASE e = d /\ o = c
    BY <1>1, <1>3, <2>2
  <2>3. CASE e = d /\ o # c
    <3>1. Waiter(l, d) = o
      BY <1>1, <1>3, <2>3, CallNames
    <3> QED
      BY <1>1, <2>3, <3>1 DEF Awaited
  <2> QED
    BY <2>1, <2>2, <2>3
<1>4. ASSUME NEW e \in Drivers, Waiter(m, e) = "loop"
      PROVE  m.q.loop = "sending" /\ m.loopOn = e
  <2>1. Waiter(l, e) = "loop"
    BY <1>1, <1>2, <1>4, CallNames
  <2> QED
    BY <1>1, <2>1 DEF Awaited, SameClient
<1>5. ASSUME NEW e \in Drivers, e > m.connects PROVE Step(m, e, "open") = "idle"
  <2>1. e > l.connects /\ Step(l, e, "open") = "idle"
    BY <1>1, <1>5 DEF Unmade, SameClient
  <2>2. ~(e = d /\ c = "open")
    <3>1. l.connects \in Int /\ e \in Int
      BY SerialLinkAssumption DEF Sound, Typed, LinkFields, Drivers
    <3> QED
      BY <2>1, <3>1
  <2> QED
    BY <1>1, <1>2, <2>1, <2>2, CallNames
<1> QED
  BY <1>3, <1>4, <1>5 DEF Sound, Awaited, Unmade

\* A call that is free goes to its next step.
LEMMA GotoSound ==
    ASSUME NEW l, NEW d, NEW c, Free(l, d, c), NEW step, NEW n, MayBe(step, n)
    PROVE  Sound(Goto(l, d, c, step, n))
<1> DEFINE m == Goto(l, d, c, step, n)
<1>1. Typed(l) /\ d \in Drivers /\ c \in Calls
  BY DEF Free, Sound
<1>2. Typed(m) /\ OnDriver(l, m, d, c, Waiter(l, d), step)
  BY <1>1, GotoMoves
<1> HIDE DEF m
<1>3. Sound(m)
  BY <1>1, <1>2, MovesSound DEF Free
<1> QED
  BY <1>3 DEF m

\* A call that writes to the port takes the waiter, whosever it was.
LEMMA WritesSound ==
    ASSUME NEW l, Sound(l), NEW d \in Drivers, NEW c \in Calls,
           c = "open" => d <= l.connects,
           NEW step, NEW n, MayBe(step, n), step \in Awaiting
    PROVE  Sound(Goto(Arm(l, d, c), d, c, step, n))
<1> DEFINE m == Goto(Arm(l, d, c), d, c, step, n)
<1>1. Typed(m) /\ OnDriver(l, m, d, c, c, step)
  BY CallMoves DEF Sound
<1> HIDE DEF m
<1>2. Sound(m)
  BY <1>1, MovesSound
<1> QED
  BY <1>2 DEF m

\* The loop awaits no acknowledgement.
NoLoop(l) == \A d \in Drivers : Waiter(l, d) # "loop"

\* A waiter is dropped, or left to nobody: no call and no loop has it any more.
LEMMA DropsSound ==
    ASSUME NEW l, Sound(l), NEW d \in Drivers, NEW w \in {"none", "orphan"}
    PROVE  LET m == Arm(l, d, w)
           IN  /\ Sound(m) /\ m.q = l.q /\ m.connects = l.connects
               /\ Waiter(m, d) = w
               /\ Waiter(l, d) = "loop" => NoLoop(m)
               /\ \A c \in Calls : Step(m, d, c) = Step(l, d, c)
               /\ \A c \in Calls : Step(l, d, c) # "idle" => Free(m, d, c)
<1> DEFINE m == Arm(l, d, w)
           D == "Disconnect"
<1>1. Typed(l) /\ w \in Waiters /\ D \in Calls /\ D # "open"
  BY CallNames DEF Sound, Waiters
<1>2. Typed(m) /\ OnDriver(l, m, d, D, w, Step(l, d, D))
  BY <1>1, ArmMoves
<1> HIDE DEF m
<1>3. /\ SameClient(l, m) /\ Elsewhere(l, m, d) /\ Waiter(m, d) = w
      /\ \A c \in Calls : Step(m, d, c) = Step(l, d, c)
  BY <1>2 DEF OnDriver
<1>4. Sound(m)
  <2>1. w \in {"none", "orphan", D, Waiter(l, d)} /\ w # D
    BY <1>1, CallNames
  <2> QED
    BY <1>1, <1>2, <2>1, MovesSound
<1>5. Waiter(l, d) = "loop" => NoLoop(m)
  BY <1>3 DEF Sound, Awaited, NoLoop, Elsewhere, Waiter
<1>6. ASSUME NEW c \in Calls, Step(l, d, c) # "idle" PROVE Free(m, d, c)
  BY <1>3, <1>4, <1>6, Begun, CallNames DEF Free, SameClient
<1> QED
  BY <1>3, <1>4, <1>5, <1>6 DEF SameClient, m

\* A change of the client that leaves the drivers and the loop where they are.
LEMMA SameLoopSound ==
    ASSUME NEW l, Sound(l), NEW m, Typed(m), m.drv = l.drv,
           m.connects = l.connects, m.loopOn = l.loopOn, m.q.loop = l.q.loop
    PROVE  Sound(m)
BY DEF Sound, Awaited, Unmade, Waiter, Step

\* The queue becomes r: a telegram that leaves takes the waiter for the loop, which
\* had none before, and a loop that has ended its await has none.
LEMMA WithQueueSound ==
    ASSUME NEW l, Sound(l), NEW r \in Queues(Packets), r.loop = "sending" \/ NoLoop(l)
    PROVE  LET m == WithQueue(l, r)
           IN  Sound(m) /\ m.connects = l.connects /\ m.state = l.state
<1> DEFINE m == WithQueue(l, r)
           d == l.driver
<1>1. Typed(l) /\ Awaited(l) /\ Unmade(l)
  BY DEF Sound
<1>2. /\ Typed(m) /\ m.connects = l.connects /\ m.state = l.state
      /\ \/ ~Emits(l.q, r) /\ m.q = r /\ m.drv = l.drv /\ m.loopOn = l.loopOn
         \/ Emits(l.q, r) /\ m.drv = l.drv
         \/ /\ Emits(l.q, r) /\ d \in Drivers /\ m.q = r
            /\ m.loopOn = d /\ Elsewhere(l, m, d)
            /\ m.drv[d].waiter = "loop" /\ m.drv[d].call = l.drv[d].call
  BY <1>1, WithQueueTyped
<1> HIDE DEF m
<1>3. Emits(l.q, r) => NoLoop(l) /\ r.loop = "sending"
  BY <1>1 DEF Emits, NoLoop, Awaited
<1>4. CASE m.drv = l.drv
  <2>1. \A e : Waiter(m, e) = Waiter(l, e) /\ \A c : Step(m, e, c) = Step(l, e, c)
    BY <1>4 DEF Waiter, Step
  <2>2. NoLoop(l) \/ (m.loopOn = l.loopOn /\ m.q.loop = "sending")
    BY <1>2, <1>3
  <2>3. Awaited(m) /\ Unmade(m)
    BY <1>1, <1>2, <2>1, <2>2 DEF Awaited, Unmade, NoLoop
  <2> QED
    BY <1>2, <2>3 DEF Sound, m
<1>5. CASE /\ Emits(l.q, r) /\ d \in Drivers /\ m.q = r
           /\ m.loopOn = d /\ Elsewhere(l, m, d)
           /\ m.drv[d].waiter = "loop" /\ m.drv[d].call = l.drv[d].call
  <2>1. \A e \in Drivers : \A c : Step(m, e, c) = Step(l, e, c)
    BY <1>5 DEF Elsewhere, Step
  <2>2. /\ Waiter(m, d) = "loop"
        /\ \A e \in Drivers : e # d => Waiter(m, e) = Waiter(l, e)
    BY <1>5 DEF Elsewhere, Waiter
  <2>3. Awaited(m)
    BY <1>1, <1>3, <1>5, <2>1, <2>2, CallNames DEF Awaited, NoLoop
  <2>4. Unmade(m)
    BY <1>1, <1>2, <2>1 DEF Unmade
  <2> QED
    BY <1>2, <2>3, <2>4 DEF Sound, m
<1> QED
  BY <1>2, <1>4, <1>5

\* The handler starts a loop that stands, and stops none.
LEMMA HandleSound ==
    ASSUME NEW l, Sound(l), NEW p \in Queues(Packets), p.loop = l.q.loop
    PROVE  LET m == WithQueue(l, HandleKNXQueue(p))
           IN  Sound(m) /\ m.connects = l.connects /\ m.state = l.state
<1> DEFINE r == HandleKNXQueue(p)
<1>1. r \in Queues(Packets) /\ (r.loop = "sending" \/ r.loop = p.loop)
  <2>1. CASE p.loop = "idle" /\ Sendable(p)
    <3>1. r.loop = "sending"
      BY <2>1 DEF HandleKNXQueue, Dispatch, SetTimerWaitingForACK, Queues
    <3> QED
      BY <3>1, HandleType
  <2>2. CASE ~(p.loop = "idle" /\ Sendable(p))
    BY <2>2 DEF HandleKNXQueue
  <2> QED
    BY <2>1, <2>2
<1> HIDE DEF r
<1>2. r.loop = "sending" \/ NoLoop(l)
  BY <1>1 DEF Sound, Awaited, NoLoop
<1> QED
  BY <1>1, <1>2, WithQueueSound DEF r

\* The setter of clearToSend: the gate is open, and the handler is called.
LEMMA GateSound ==
    ASSUME NEW l, Sound(l)
    PROVE  LET m == WithQueue(l, SetClearToSend(l.q))
           IN  Sound(m) /\ m.connects = l.connects /\ m.state = l.state
<1> DEFINE p == [l.q EXCEPT !.clearToSend = TRUE]
<1>1. l.q \in Queues(Packets)
  BY OpenPort DEF Sound
<1>2. p \in Queues(Packets) /\ p.loop = l.q.loop
  BY <1>1 DEF Queues
<1>3. SetClearToSend(l.q) = HandleKNXQueue(p)
  BY DEF SetClearToSend
<1> HIDE DEF p
<1> QED
  BY <1>2, <1>3, HandleSound

\* The telegram of a loop that has no waiter any more has failed, or was sent.
LEMMA LoopSound ==
    ASSUME NEW l, Sound(l), NoLoop(l)
    PROVE  /\ Sound(LoopRejected(l)) /\ LoopRejected(l).connects = l.connects
           /\ Sound(WithQueue(l, SendSucceeded(l.q)))
<1>1. SendFailed(l.q) \in Queues(Packets) /\ SendSucceeded(l.q) \in Queues(Packets)
  BY LoopType, OpenPort DEF Sound
<1> QED
  BY <1>1, WithQueueSound DEF LoopRejected

----------------------------------------------------------------------------
\* The methods.

\* A field of the client is set before a method goes on.
LEMMA StateFits ==
    ASSUME NEW l, Sound(l), NEW s \in States
    PROVE  LET m == [l EXCEPT !.state = s]
           IN  /\ Sound(m) /\ m.driver = l.driver /\ m.connects = l.connects
               /\ m.q = l.q /\ m.drv = l.drv /\ m.state = s
<1> DEFINE m == [l EXCEPT !.state = s]
<1>1. /\ m \in LinkFields /\ m.driver = l.driver /\ m.state = s
      /\ m.connects = l.connects /\ m.loopOn = l.loopOn /\ m.q = l.q
      /\ m.drv = l.drv
  BY OpenPort DEF LinkFields, Sound
<1> HIDE DEF m
<1>2. Typed(m)
  BY <1>1, SameDriversTyped DEF Sound
<1> QED
  BY <1>1, <1>2, SameLoopSound DEF m

\* What the callers of closeSerialTransport() do behind it.
LEMMA ReturnedSound ==
    ASSUME NEW l, Sound(l), NEW c \in Closers
    PROVE  Sound(Returned(l, c))
BY StateFits, GateSound DEF Returned, States

\* The driver is dropped.
LEMMA TransportClosedSound ==
    ASSUME NEW l, Sound(l), NEW c \in Closers
    PROVE  Sound(TransportClosed(l, c))
<1> DEFINE q == [l.q EXCEPT !.socketReady = FALSE]
           gone == [l EXCEPT !.driver = NoDriver, !.q = q]
<1>1. l \in LinkFields /\ l.q \in Queues(Packets) /\ Typed(l)
  BY OpenPort DEF Sound
<1>2. TransportClosed(l, c) = Returned(gone, c)
  BY <1>1 DEF LinkFields, TransportClosed
<1>3. q \in Queues(Packets) /\ q.loop = l.q.loop
  BY <1>1 DEF Queues
<1> HIDE DEF q
<1>4. /\ gone \in LinkFields /\ gone.q = q /\ gone.connects = l.connects
      /\ gone.drv = l.drv /\ gone.loopOn = l.loopOn
  BY <1>1, <1>3 DEF LinkFields
<1> HIDE DEF gone
<1>5. Typed(gone)
  BY <1>1, <1>4, SameDriversTyped
<1>6. Sound(gone)
  BY <1>3, <1>4, <1>5, SameLoopSound
<1> QED
  BY <1>2, <1>6, ReturnedSound

\* closeSerialTransport(): nothing without a driver, a reset on an open port, or
\* the end of it at once.
LEMMA CloseTransportSound ==
    ASSUME NEW l, Sound(l), NEW c \in Closers
    PROVE  Sound(CloseTransport(l, c))
<1> DEFINE d == l.driver
<1>1. c \in Calls /\ c # "open" /\ MayBe("reset", 1) /\ "reset" \in Awaiting
  BY CallNames DEF MayBe, Steps, Awaiting
<1>2. CASE d # NoDriver /\ PortOpen(l, d)
  <2>1. d \in Drivers
    BY <1>2, OpenPort DEF Sound
  <2>2. Sound(Goto(Arm(l, d, c), d, c, "reset", 1))
    BY <1>1, <2>1, WritesSound
  <2> QED
    BY <1>2, <2>2 DEF CloseTransport
<1>3. CASE ~(d # NoDriver /\ PortOpen(l, d))
  BY <1>3, ReturnedSound, TransportClosedSound DEF CloseTransport
<1> QED
  BY <1>2, <1>3

\* setDisconnected() sets the state before it closes the transport.
LEMMA SetDisconnectedSound ==
    ASSUME NEW l, Sound(l)
    PROVE  Sound(SetDisconnected(l))
<1>1. "DISCONNECTED" \in States /\ "setDisconnected" \in Closers
  BY DEF States, Closers
<1>2. Sound([l EXCEPT !.state = "DISCONNECTED"])
  BY <1>1, StateFits
<1> QED
  BY <1>1, <1>2, CloseTransportSound DEF SetDisconnected

\* open() has failed: the call ends before setDisconnected().
LEMMA ConnectFailedSound ==
    ASSUME NEW l, NEW d, Free(l, d, "open")
    PROVE  Sound(ConnectFailed(l, d))
<1>1. MayBe("failed", 0)
  BY DEF MayBe, Steps
<1> QED
  BY <1>1, GotoSound, SetDisconnectedSound DEF ConnectFailed

\* open() has resolved: the client is CONNECTED, and its queue may go.
LEMMA ConnectedSound ==
    ASSUME NEW l, NEW d, Free(l, d, "open")
    PROVE  Sound(Connected(l, d))
<1> DEFINE g == Goto(l, d, "open", "done", 0)
           q == [g.q EXCEPT !.socketReady = TRUE, !.failed = 0]
           up == [g EXCEPT !.state = "CONNECTED", !.q = q]
<1>1. MayBe("done", 0)
  BY DEF MayBe, Steps
<1>2. Sound(g)
  BY <1>1, GotoSound
<1>3. g \in LinkFields /\ g.q \in Queues(Packets) /\ Typed(g)
  BY <1>2, OpenPort DEF Sound
<1>4. Connected(l, d) = WithQueue(up, SetClearToSend(up.q))
  <2> HIDE DEF g
  <2>1. [g EXCEPT !.state = "CONNECTED", !.q.socketReady = TRUE, !.q.failed = 0] = up
    BY <1>3 DEF LinkFields
  <2> QED
    BY <2>1 DEF Connected, g
<1> HIDE DEF g
<1>5. q \in Queues(Packets) /\ q.loop = g.q.loop
  <2>1. 0 \in 0 .. MaxFailedACK
    BY DEF MaxFailedACK
  <2> QED
    BY <1>3, <2>1 DEF Queues
<1> HIDE DEF q
<1>6. /\ up \in LinkFields /\ up.q = q /\ up.connects = g.connects
      /\ up.drv = g.drv /\ up.loopOn = g.loopOn
  BY <1>3, <1>5 DEF LinkFields, States
<1> HIDE DEF up
<1>7. Typed(up)
  BY <1>3, <1>6, SameDriversTyped
<1>8. Sound(up)
  BY <1>2, <1>5, <1>6, <1>7, SameLoopSound
<1> QED
  BY <1>4, <1>8, GateSound

\* A frame of initialize(), or what follows the last.
LEMMA InitFrameSound ==
    ASSUME NEW l, NEW d, Free(l, d, "open"), NEW n \in Nat \ {0}
    PROVE  Sound(InitFrame(l, d, n))
<1>1. CASE n > Len(InitFrames)
  BY <1>1, ConnectedSound DEF InitFrame
<1>2. CASE ~(n > Len(InitFrames)) /\ PortOpen(l, d)
  <2>1. MayBe("frame", n) /\ "frame" \in Awaiting
    <3> DEFINE k == Len(InitFrames)
    <3>1. k \in 1 .. 3
      BY InitFramesFacts
    <3>2. ~(n > k)
      BY <1>2
    <3> HIDE DEF k
    <3>3. n \in 0 .. 3 /\ n \in 1 .. k
      BY <3>1, <3>2
    <3> QED
      BY <3>3 DEF MayBe, Steps, Awaiting, k
  <2>2. Sound(Goto(Arm(l, d, "open"), d, "open", "frame", n))
    BY <2>1, WritesSound DEF Free
  <2> QED
    BY <1>2, <2>2 DEF InitFrame
<1>3. CASE ~(n > Len(InitFrames)) /\ ~PortOpen(l, d)
  BY <1>3, ConnectedSound, ConnectFailedSound DEF InitFrame
<1> QED
  BY <1>1, <1>2, <1>3

\* What follows a reset, acknowledged or given up.
LEMMA ResetDoneSound ==
    ASSUME NEW l, NEW d, NEW c, Free(l, d, c)
    PROVE  Sound(ResetDone(l, d, c))
<1>1. MayBe("settle", 0) /\ 1 \in Nat \ {0}
  BY DEF MayBe, Steps
<1> QED
  BY <1>1, GotoSound, InitFrameSound DEF ResetDone

\* A reset that was not acknowledged is repeated, at most twice.
LEMMA ResetMissedSound ==
    ASSUME NEW l, NEW d, NEW c, Free(l, d, c)
    PROVE  Sound(ResetMissed(l, d, c))
<1> DEFINE n == l.drv[d].call[c].n
<1>1. n \in 0 .. 3
  <2>1. l.drv[d].call[c] \in CallFields
    BY DEF Free, Sound, Typed, LinkFields, DriverFields
  <2> QED
    BY <2>1 DEF CallFields
<1> HIDE DEF n
<1>2. CASE n < ResetRetries
  <2>1. MayBe("backoff", n)
    BY <1>1, <1>2 DEF MayBe, Steps
  <2> QED
    BY <1>2, <2>1, GotoSound DEF ResetMissed, n
<1>3. CASE ~(n < ResetRetries)
  BY <1>3, ResetDoneSound DEF ResetMissed, n
<1> QED
  BY <1>2, <1>3

\* The frame that a call was writing has failed.
LEMMA WriteRejectedSound ==
    ASSUME NEW l, NEW d, NEW c, Free(l, d, c)
    PROVE  Sound(WriteRejected(l, d, c))
<1>1. MayBe("closing", 0)
  BY DEF MayBe, Steps
<1>2. Sound(Goto(l, d, c, "closing", 0))
  BY <1>1, GotoSound
<1> QED
  BY <1>2, ConnectedSound, ConnectFailedSound DEF WriteRejected

\* A promise is settled, one way or the other, behind its waiter.
LEMMA SettledSound ==
    ASSUME NEW m, Sound(m), NEW d \in Drivers, NEW who \in Waiters,
           who = "loop" => NoLoop(m),
           who \in Calls => Free(m, d, who)
    PROVE  Sound(Rejected(m, d, who)) /\ Sound(Resolved(m, d, who))
<1>1. CASE who = "loop"
  <2>1. who \notin Calls /\ who # "open"
    BY <1>1, CallNames
  <2>2. /\ Rejected(m, d, who) = LoopRejected(m)
        /\ Resolved(m, d, who) = WithQueue(m, SendSucceeded(m.q))
    BY <1>1, <2>1 DEF Rejected, Resolved
  <2> QED
    BY <1>1, <2>2, LoopSound
<1>2. CASE who \in Calls /\ m.drv[d].call[who].step = "reset"
  <2>1. who # "loop"
    BY <1>2, CallNames
  <2>2. /\ Rejected(m, d, who) = ResetMissed(m, d, who)
        /\ Resolved(m, d, who) = ResetDone(m, d, who)
    BY <1>2, <2>1 DEF Rejected, Resolved
  <2> QED
    BY <1>2, <2>2, ResetMissedSound, ResetDoneSound
<1>3. CASE who = "open" /\ m.drv[d].call[who].step = "frame"
  <2> DEFINE n == m.drv[d].call["open"].n
  <2>1. "open" \in Calls
    BY CallNames
  <2>2. n + 1 \in Nat \ {0}
    <3>1. m.drv[d].call["open"] \in CallFields
      BY <2>1 DEF Sound, Typed, LinkFields, DriverFields
    <3> QED
      BY <3>1 DEF CallFields
  <2>3. /\ Rejected(m, d, who) = WriteRejected(m, d, who)
        /\ Resolved(m, d, who) = InitFrame(m, d, n + 1)
    BY <1>3 DEF Rejected, Resolved
  <2> HIDE DEF n
  <2> QED
    BY <1>3, <2>1, <2>2, <2>3, WriteRejectedSound, InitFrameSound
<1>4. CASE /\ who # "loop"
           /\ ~(who \in Calls /\ m.drv[d].call[who].step = "reset")
           /\ ~(who = "open" /\ m.drv[d].call[who].step = "frame")
  BY <1>4 DEF Rejected, Resolved
<1> QED
  BY <1>1, <1>2, <1>3, <1>4

\* The acknowledgement comes, its timer fires, or close() rejects it.
LEMMA AnswerSound ==
    ASSUME NEW l, Sound(l), NEW d \in Drivers
    PROVE  LET m == Arm(l, d, "none")
           IN  /\ Sound(Rejected(m, d, Waiter(l, d)))
               /\ Sound(Resolved(m, d, Waiter(l, d)))
<1> DEFINE m == Arm(l, d, "none")
           who == Waiter(l, d)
<1>1. who \in Waiters
  BY DEF Sound, Typed, LinkFields, DriverFields, Waiter
<1>2. who \in Calls => Step(l, d, who) # "idle"
  BY DEF Sound, Awaited, Awaiting
<1>3. /\ Sound(m) /\ (who = "loop" => NoLoop(m))
      /\ who \in Calls => Free(m, d, who)
  BY <1>2, DropsSound
<1> HIDE DEF m, who
<1>4. Sound(Rejected(m, d, who)) /\ Sound(Resolved(m, d, who))
  BY <1>1, <1>3, SettledSound
<1> QED
  BY <1>4 DEF m, who

----------------------------------------------------------------------------
\* The application.

\* A Connect() makes a driver, which has no waiter yet.
LEMMA ConnectSound ==
    ASSUME Sound(link), Connect
    PROVE  Sound(link')
<1> DEFINE d == link.connects + 1
           q == [link.q EXCEPT !.failed = 0]
           r == [link EXCEPT !.state = "CONNECTING", !.q = q]
           w == WithQueue(r, SetClearToSend(r.q))
           m == [w EXCEPT !.driver = d, !.connects = d]
<1>1. Typed(link) /\ link \in LinkFields /\ link.q \in Queues(Packets)
  BY OpenPort DEF Sound
<1>2. d \in Drivers /\ d \in 0 .. MaxConnects /\ link.connects \in Nat
  <2>1. link.connects \in 0 .. MaxConnects /\ link.connects < MaxConnects
    BY <1>1 DEF LinkFields, Connect
  <2> QED
    BY <2>1, SerialLinkAssumption DEF Drivers
<1>3. [link EXCEPT !.state = "CONNECTING", !.q.failed = 0] = r
  BY <1>1 DEF LinkFields
<1>4. link' = Goto(m, d, "open", "opening", 0)
  BY <1>3 DEF Connect
<1>5. q \in Queues(Packets) /\ q.loop = link.q.loop
  <2>1. 0 \in 0 .. MaxFailedACK
    BY DEF MaxFailedACK
  <2> QED
    BY <1>1, <2>1 DEF Queues
<1> HIDE DEF q
<1>6. /\ r \in LinkFields /\ r.q = q /\ r.drv = link.drv
      /\ r.connects = link.connects /\ r.loopOn = link.loopOn
  BY <1>1, <1>5 DEF LinkFields, States
<1> HIDE DEF r
<1>7. Sound(r)
  <2>1. Typed(r)
    BY <1>1, <1>6, SameDriversTyped
  <2> QED
    BY <1>5, <1>6, <2>1, SameLoopSound
<1>8. Sound(w) /\ w.connects = link.connects
  BY <1>6, <1>7, GateSound
<1> HIDE DEF w
<1>9. /\ m \in LinkFields /\ m.connects = d /\ m.drv = w.drv /\ m.q = w.q
      /\ m.loopOn = w.loopOn
  BY <1>2, <1>8 DEF LinkFields, Sound, Typed
<1> HIDE DEF m
<1>10. Sound(m)
  <2>1. Typed(m)
    BY <1>8, <1>9, SameDriversTyped DEF Sound
  <2>2. Awaited(m)
    BY <1>8, <1>9 DEF Sound, Awaited, Waiter, Step
  <2>3. Unmade(m)
    <3> SUFFICES ASSUME NEW e \in Drivers, e > d PROVE Step(w, e, "open") = "idle"
      BY <1>9 DEF Unmade, Step
    <3>1. e > link.connects
      BY <1>2 DEF Drivers
    <3> QED
      BY <1>8, <3>1 DEF Sound, Unmade
  <2> QED
    BY <2>1, <2>2, <2>3 DEF Sound
<1>11. Free(m, d, "open")
  <2>1. Step(w, d, "open") = "idle"
    BY <1>2, <1>8 DEF Sound, Unmade
  <2>2. Waiter(w, d) # "open"
    BY <1>2, <1>8, <2>1, CallNames DEF Sound, Awaited, Awaiting
  <2> QED
    BY <1>2, <1>9, <1>10, <2>2, CallNames DEF Free, Waiter
<1>12. MayBe("opening", 0)
  BY DEF MayBe, Steps
<1> HIDE DEF d
<1> QED
  BY <1>4, <1>11, <1>12, GotoSound

\* write() appends one telegram, and calls the handler.
LEMMA WriteSound ==
    ASSUME IInv, Write
    PROVE  Sound(link')
<1> DEFINE item == QueueItem(Telegram(written), FALSE, -1)
           p == [link.q EXCEPT !.commandQueue = Append(@, item)]
<1>1. Sound(link) /\ link.q \in Queues(Packets)
  BY OpenPort DEF IInv, Sound
<1>2. item \in ItemsOf(Packets)
  <2>1. written \in 0 .. MaxWrites - 1
    BY SerialLinkAssumption DEF IInv, Write
  <2>2. Telegram(written) \in Packets
    BY <2>1 DEF Packets
  <2> QED
    BY <2>2 DEF QueueItem, ItemsOf
<1>3. link' = WithQueue(link, HandleKNXQueue(p))
  BY DEF Write, SendLast
<1> HIDE DEF item
<1>4. Append(link.q.commandQueue, item) \in Seq(ItemsOf(Packets))
  BY <1>1, <1>2 DEF Queues
<1>5. p \in Queues(Packets) /\ p.loop = link.q.loop
  BY <1>1, <1>4 DEF Queues
<1> HIDE DEF p
<1> QED
  BY <1>1, <1>3, <1>5, HandleSound

\* A Disconnect() stops the loop before it closes the transport.
LEMMA DisconnectSound ==
    ASSUME Sound(link), Disconnect
    PROVE  Sound(link')
<1> DEFINE q == [link.q EXCEPT !.exitLoop = TRUE]
           m == [link EXCEPT !.state = "DISCONNECTING", !.q = q]
<1>1. Typed(link) /\ link \in LinkFields /\ link.q \in Queues(Packets)
  BY OpenPort DEF Sound
<1>2. link' = CloseTransport(m, "Disconnect") /\ "Disconnect" \in Closers
  BY <1>1, CallNames DEF Disconnect, LinkFields
<1>3. q \in Queues(Packets) /\ q.loop = link.q.loop
  BY <1>1 DEF Queues
<1> HIDE DEF q
<1>4. /\ m \in LinkFields /\ m.q = q /\ m.drv = link.drv
      /\ m.connects = link.connects /\ m.loopOn = link.loopOn
  BY <1>1, <1>3 DEF LinkFields, States
<1> HIDE DEF m
<1>5. Typed(m)
  BY <1>1, <1>4, SameDriversTyped
<1>6. Sound(m)
  BY <1>3, <1>4, <1>5, SameLoopSound
<1> QED
  BY <1>2, <1>6, CloseTransportSound

\* The pacing delay is over: no acknowledgement was awaited during it.
LEMMA PaceSound ==
    ASSUME Sound(link), Pace
    PROVE  Sound(link')
<1> DEFINE q == [link.q EXCEPT !.loop = "idle"]
           m == [link EXCEPT !.q = q]
<1>1. /\ Typed(link) /\ link \in LinkFields /\ link.q \in Queues(Packets)
      /\ link.q.loop = "pacing"
  BY OpenPort DEF Sound, Pace
<1>2. link' = WithQueue(m, HandleKNXQueue(q))
  BY <1>1 DEF Pace, PacingDone, LinkFields
<1>3. q \in Queues(Packets) /\ q.loop = "idle"
  BY <1>1 DEF Queues
<1> HIDE DEF q
<1>4. /\ m \in LinkFields /\ m.q = q /\ m.drv = link.drv
      /\ m.connects = link.connects /\ m.loopOn = link.loopOn
  BY <1>1, <1>3 DEF LinkFields
<1> HIDE DEF m
<1>5. Typed(m)
  BY <1>1, <1>4, SameDriversTyped
<1>6. NoLoop(link)
  BY <1>1 DEF Sound, Awaited, NoLoop
<1>7. Sound(m)
  BY <1>4, <1>5, <1>6 DEF Sound, Awaited, Unmade, NoLoop, Waiter, Step
<1> QED
  BY <1>2, <1>3, <1>4, <1>7, HandleSound

----------------------------------------------------------------------------
\* The drivers.

\* The fields of one driver, its calls and its waiter aside, are changed.
LEMMA DriverFits ==
    ASSUME NEW l, Typed(l), NEW d \in Drivers, NEW e \in DriverFields,
           e.call = l.drv[d].call
    PROVE  LET m == [l EXCEPT !.drv = [l.drv EXCEPT ![d] = e]]
           IN  Typed(m) /\ SameClient(l, m) /\ Elsewhere(l, m, d) /\ m.drv[d] = e
<1> DEFINE ds == [l.drv EXCEPT ![d] = e]
           m == [l EXCEPT !.drv = ds]
<1>1. l \in LinkFields /\ l.drv \in [Drivers -> DriverFields]
  BY DEF Typed, LinkFields
<1>2. /\ ds \in [Drivers -> DriverFields] /\ ds[d] = e
      /\ \A f \in Drivers : f # d => ds[f] = l.drv[f]
  BY <1>1
<1> HIDE DEF ds
<1>3. m \in LinkFields /\ m.drv = ds /\ SameClient(l, m)
  BY <1>1, <1>2 DEF LinkFields, SameClient
<1> HIDE DEF m
<1>4. Elsewhere(l, m, d)
  BY <1>2, <1>3 DEF Elsewhere
<1>5. Counted(m)
  <2> SUFFICES ASSUME NEW f \in Drivers PROVE m.drv[f].call = l.drv[f].call
    BY DEF Typed, Counted
  <2> QED
    BY <1>2, <1>3
<1> QED
  BY <1>2, <1>3, <1>4, <1>5 DEF Typed, m, ds

WithPort(l, d, port, event) ==
    [l EXCEPT !.drv[d].port = port, !.drv[d].closeEvent = event]

\* The port of one driver opens, or is lost or closed with its event to come.
LEMMA PortFits ==
    ASSUME NEW l, Typed(l), NEW d \in Drivers,
           NEW port \in {"open", "lost", "closed"}, NEW event \in BOOLEAN
    PROVE  LET m == WithPort(l, d, port, event)
           IN  /\ Typed(m) /\ SameClient(l, m) /\ Elsewhere(l, m, d)
               /\ m.drv[d].port = port /\ m.drv[d].closeEvent = event
               /\ m.drv[d].waiter = l.drv[d].waiter /\ m.drv[d].call = l.drv[d].call
<1> DEFINE e == [l.drv[d] EXCEPT !.port = port, !.closeEvent = event]
           m == [l EXCEPT !.drv = [l.drv EXCEPT ![d] = e]]
<1>1. l \in LinkFields /\ l.drv \in [Drivers -> DriverFields] /\ l.drv[d] \in DriverFields
  BY DEF Typed, LinkFields
<1>2. /\ e \in DriverFields /\ e.port = port /\ e.closeEvent = event
      /\ e.waiter = l.drv[d].waiter /\ e.call = l.drv[d].call
  BY <1>1 DEF DriverFields
<1>3. WithPort(l, d, port, event) = m
  BY <1>1 DEF WithPort, LinkFields, DriverFields
<1> HIDE DEF e
<1>4. Typed(m) /\ SameClient(l, m) /\ Elsewhere(l, m, d) /\ m.drv[d] = e
  BY <1>2, DriverFits
<1> HIDE DEF m
<1> QED
  BY <1>2, <1>3, <1>4

\* The same of the two fields alone.
LEMMA PortOnlyFits ==
    ASSUME NEW l, Typed(l), NEW d \in Drivers
    PROVE  /\ [l EXCEPT !.drv[d].port = "open"]
                 = WithPort(l, d, "open", l.drv[d].closeEvent)
           /\ l.drv[d].closeEvent \in BOOLEAN
           /\ l.drv[d].port \in {"none", "open", "lost", "closed"}
           /\ l.drv[d].waiter \in Waiters
           /\ l.drv[d].call \in [Calls -> CallFields]
<1>1. l \in LinkFields /\ l.drv \in [Drivers -> DriverFields] /\ l.drv[d] \in DriverFields
  BY DEF Typed, LinkFields
<1> QED
  BY <1>1 DEF WithPort, LinkFields, DriverFields

\* The port of a driver changes: nothing that its calls or the loop await.
LEMMA PortSound ==
    ASSUME NEW l, Sound(l), NEW d \in Drivers,
           NEW port \in {"open", "lost", "closed"}, NEW event \in BOOLEAN
    PROVE  LET m == WithPort(l, d, port, event)
           IN  /\ Sound(m) /\ m.connects = l.connects
               /\ \A e \in Drivers : Waiter(m, e) = Waiter(l, e)
               /\ \A e \in Drivers : \A c : Step(m, e, c) = Step(l, e, c)
<1> DEFINE m == WithPort(l, d, port, event)
<1>1. /\ Typed(m) /\ SameClient(l, m) /\ Elsewhere(l, m, d)
      /\ m.drv[d].waiter = l.drv[d].waiter /\ m.drv[d].call = l.drv[d].call
  BY PortFits DEF Sound
<1> HIDE DEF m
<1>2. /\ \A e \in Drivers : Waiter(m, e) = Waiter(l, e)
      /\ \A e \in Drivers : \A c : Step(m, e, c) = Step(l, e, c)
  BY <1>1 DEF Elsewhere, Waiter, Step
<1>3. Sound(m)
  BY <1>1, <1>2 DEF Sound, Awaited, Unmade, SameClient
<1> QED
  BY <1>1, <1>2, <1>3 DEF SameClient, m

\* createSerialPort() resolves, and open() sends its reset; or it rejects.
LEMMA PortOpensSound ==
    ASSUME Sound(link), NEW d \in Drivers, PortOpens(d)
    PROVE  Sound(link')
<1> DEFINE m == [link EXCEPT !.drv[d].port = "open"]
<1>1. /\ Step(link, d, "open") = "opening"
      /\ link' = Opened(m, d) \/ link' = ConnectFailed(link, d)
  BY DEF PortOpens, Step
<1>2. d <= link.connects
  BY <1>1, Begun
<1>3. Free(link, d, "open")
  BY <1>1, <1>2, CallNames DEF Free, Sound, Awaited, Awaiting
<1>4. Sound(m) /\ m.connects = link.connects
  <2>1. /\ m = WithPort(link, d, "open", link.drv[d].closeEvent)
        /\ "open" \in {"open", "lost", "closed"} /\ link.drv[d].closeEvent \in BOOLEAN
    BY PortOnlyFits DEF Sound
  <2> HIDE DEF m
  <2> QED
    BY <2>1, PortSound
<1> HIDE DEF m
<1>5. "open" \in Calls /\ MayBe("reset", 1) /\ "reset" \in Awaiting
  BY CallNames DEF MayBe, Steps, Awaiting
<1>6. Sound(Opened(m, d))
  BY <1>2, <1>4, <1>5, WritesSound DEF Opened
<1> QED
  BY <1>1, <1>3, <1>6, ConnectFailedSound

\* A write fails: the call, or the loop, is told at once, and the promise is left
\* to nobody.
LEMMA WriteFailsSound ==
    ASSUME Sound(link), NEW d \in Drivers, WriteFails(d)
    PROVE  Sound(link')
<1> DEFINE who == Waiter(link, d)
           left == Arm(link, d, "orphan")
<1>1. /\ who \in Waiters /\ who \notin {"none", "orphan"}
      /\ link' = IF who = "loop" THEN LoopRejected(left) ELSE WriteRejected(left, d, who)
  BY PortOnlyFits DEF WriteFails, Waiter, Sound
<1>2. who \in Calls => Step(link, d, who) # "idle"
  BY DEF Sound, Awaited, Awaiting
<1>3. /\ Sound(left) /\ (who = "loop" => NoLoop(left))
      /\ who \in Calls => Free(left, d, who)
  BY <1>2, DropsSound
<1> HIDE DEF left, who
<1> QED
  BY <1>1, <1>3, LoopSound, WriteRejectedSound DEF Waiters

\* The delay between two resets is over: the next is written, or its write fails.
LEMMA BackoffOverSound ==
    ASSUME Sound(link), NEW d \in Drivers, NEW c \in Calls, BackoffOver(d, c)
    PROVE  Sound(link')
<1> DEFINE n == link.drv[d].call[c].n + 1
           left == Arm(link, d, "orphan")
<1>1. /\ Step(link, d, c) = "backoff"
      /\ link' = IF PortOpen(link, d) THEN Goto(Arm(link, d, c), d, c, "reset", n)
                 ELSE WriteRejected(left, d, c)
  BY DEF BackoffOver, Step
<1>2. MayBe("reset", n) /\ "reset" \in Awaiting
  <2>1. link.drv[d].call[c] \in CallFields /\ link.drv[d].call[c].n < ResetRetries
    BY <1>1 DEF Sound, Typed, LinkFields, DriverFields, Counted, Step
  <2> QED
    BY <2>1 DEF CallFields, MayBe, Steps, ResetRetries, Awaiting
<1>3. c = "open" => d <= link.connects
  BY <1>1, Begun
<1>4. Free(left, d, c)
  BY <1>1, DropsSound
<1> HIDE DEF n, left
<1>5. Sound(Goto(Arm(link, d, c), d, c, "reset", n))
  BY <1>2, <1>3, WritesSound
<1> QED
  BY <1>1, <1>4, <1>5, WriteRejectedSound

\* The delay behind the reset of close() is over.
LEMMA SettleSound ==
    ASSUME Sound(link), NEW d \in Drivers, NEW c \in Closers, Settled(d, c)
    PROVE  Sound(link')
<1>1. /\ Step(link, d, c) = "settle" /\ c \in Calls /\ c # "open"
      /\ link' = Goto(link, d, c, "closing", 0)
  BY CallNames DEF Settled, Step
<1>2. Free(link, d, c)
  BY <1>1 DEF Free, Sound, Awaited, Awaiting
<1>3. MayBe("closing", 0)
  BY DEF MayBe, Steps
<1> QED
  BY <1>1, <1>2, <1>3, GotoSound

\* The close event reaches the client, which may begin another close().
LEMMA CloseEventSound ==
    ASSUME Sound(link), NEW d \in Drivers, CloseEvent(d)
    PROVE  Sound(link')
<1> DEFINE e == [link.drv[d] EXCEPT !.closeEvent = FALSE]
           b == [link EXCEPT !.drv = [link.drv EXCEPT ![d] = e]]
           q == [link.q EXCEPT !.socketReady = FALSE]
           m == [b EXCEPT !.q = q]
<1>1. /\ Typed(link) /\ link \in LinkFields /\ link.q \in Queues(Packets)
      /\ link.drv \in [Drivers -> DriverFields] /\ link.drv[d] \in DriverFields
  BY OpenPort DEF Sound, LinkFields
<1>2. /\ e \in DriverFields /\ e.waiter = link.drv[d].waiter
      /\ e.call = link.drv[d].call
  BY <1>1 DEF DriverFields
<1>3. q \in Queues(Packets) /\ q.loop = link.q.loop
  BY <1>1 DEF Queues
<1>4. m = [link EXCEPT !.drv[d].closeEvent = FALSE, !.q.socketReady = FALSE]
  BY <1>1 DEF LinkFields
<1>5. link' = m \/ link' = SetDisconnected(m)
  BY <1>4 DEF CloseEvent
<1> HIDE DEF e
<1>6. Typed(b) /\ SameClient(link, b) /\ Elsewhere(link, b, d) /\ b.drv[d] = e
  BY <1>1, <1>2, DriverFits
<1> HIDE DEF b, q
<1>7. Sound(b)
  <2>1. /\ \A f \in Drivers : Waiter(b, f) = Waiter(link, f)
        /\ \A f \in Drivers : \A c : Step(b, f, c) = Step(link, f, c)
    BY <1>2, <1>6 DEF Elsewhere, Waiter, Step
  <2> QED
    BY <1>6, <2>1 DEF Sound, Awaited, Unmade, SameClient
<1>8. /\ m \in LinkFields /\ m.drv = b.drv /\ m.q = q /\ m.loopOn = b.loopOn
      /\ m.connects = b.connects
  BY <1>3, <1>6 DEF LinkFields, Typed
<1> HIDE DEF m
<1>9. Typed(m)
  BY <1>6, <1>8, SameDriversTyped
<1>10. Sound(m)
  BY <1>3, <1>6, <1>7, <1>8, <1>9, SameLoopSound DEF SameClient
<1> QED
  BY <1>5, <1>10, SetDisconnectedSound

\* close() has cleaned up: its port is closed, its waiter dropped.
LEMMA PortClosedFits ==
    ASSUME Sound(link), NEW d \in Drivers, NEW c \in Closers, NEW event \in BOOLEAN,
           PortClosed(d, c, event)
    PROVE  \E m : /\ Typed(m) /\ SameClient(link, m) /\ Elsewhere(link, m, d)
                  /\ m.drv[d].port = "closed" /\ m.drv[d].waiter = "none"
                  /\ Step(m, d, c) = "idle"
                  /\ \A o \in Calls : o # c => Step(m, d, o) = Step(link, d, o)
                  /\ link' = TransportClosed(Rejected(m, d, link.drv[d].waiter), c)
<1> DEFINE g == Goto(Arm(link, d, "none"), d, c, "idle", 0)
           told == link.drv[d].closeEvent \/ event
           e == [g.drv[d] EXCEPT !.port = "closed", !.closeEvent = told]
           m == [g EXCEPT !.drv = [g.drv EXCEPT ![d] = e]]
<1>1. Typed(link) /\ c \in Calls /\ "none" \in Waiters /\ MayBe("idle", 0)
      /\ link.drv[d].closeEvent \in BOOLEAN
  <2>1. Typed(link)
    BY DEF Sound
  <2>2. link.drv[d].closeEvent \in BOOLEAN
    BY <2>1, PortOnlyFits
  <2>3. c \in Calls /\ "none" \in Waiters
    BY DEF Calls, Waiters
  <2>4. MayBe("idle", 0)
    BY DEF MayBe, Steps
  <2> QED
    BY <2>1, <2>2, <2>3, <2>4
<1>2. Typed(Arm(link, d, "none"))
      /\ OnDriver(link, Arm(link, d, "none"), d, c, "none", Step(link, d, c))
  BY <1>1, ArmMoves
<1>3. Typed(g) /\ OnDriver(Arm(link, d, "none"), g, d, c,
                           Waiter(Arm(link, d, "none"), d), "idle")
  BY <1>1, <1>2, GotoMoves
<1>4. /\ SameClient(link, g) /\ Elsewhere(link, g, d) /\ g.drv[d].waiter = "none"
      /\ g.drv[d].closeEvent = link.drv[d].closeEvent /\ Step(g, d, c) = "idle"
      /\ \A o \in Calls : o # c => Step(g, d, o) = Step(link, d, o)
  BY <1>2, <1>3 DEF OnDriver, SameClient, Elsewhere, Waiter
<1> DEFINE closed == [g EXCEPT !.drv[d].port = "closed", !.drv[d].closeEvent = @ \/ event]
<1>5. link' = TransportClosed(Rejected(closed, d, link.drv[d].waiter), c)
  BY DEF PortClosed
<1> HIDE DEF g
<1>6. closed = m
  BY <1>3, <1>4 DEF Typed, LinkFields, DriverFields
<1>7. /\ e \in DriverFields /\ e.port = "closed"
      /\ e.waiter = g.drv[d].waiter /\ e.call = g.drv[d].call
  <2>1. told \in BOOLEAN /\ g.drv[d] \in DriverFields
    BY <1>1, <1>3 DEF Typed, LinkFields
  <2> HIDE DEF told
  <2> QED
    BY <2>1 DEF DriverFields
<1> HIDE DEF e, closed
<1>8. Typed(m) /\ SameClient(g, m) /\ Elsewhere(g, m, d) /\ m.drv[d] = e
  BY <1>3, <1>7, DriverFits
<1> HIDE DEF m
<1>9. link' = TransportClosed(Rejected(m, d, link.drv[d].waiter), c)
  BY <1>5, <1>6
<1>10. /\ SameClient(link, m) /\ Elsewhere(link, m, d)
       /\ m.drv[d].port = "closed" /\ m.drv[d].waiter = "none"
       /\ Step(m, d, c) = "idle"
       /\ \A o \in Calls : o # c => Step(m, d, o) = Step(link, d, o)
  BY <1>4, <1>7, <1>8 DEF SameClient, Elsewhere, Step
<1> HIDE DEF told
<1> QED
  BY <1>8, <1>9, <1>10


\* close() has cleaned up: a waiter that is left is rejected, and its call goes on.
LEMMA PortClosedSound ==
    ASSUME Sound(link), NEW d \in Drivers, NEW c \in Closers, NEW event \in BOOLEAN,
           PortClosed(d, c, event)
    PROVE  Sound(link')
<1> DEFINE who == Waiter(link, d)
<1>1. Step(link, d, c) = "closing" /\ c \in Calls /\ c # "open" /\ who \in Waiters
  BY CallNames, PortOnlyFits DEF PortClosed, Step, Sound, Waiter
<1>2. PICK m : /\ Typed(m) /\ SameClient(link, m) /\ Elsewhere(link, m, d)
               /\ m.drv[d].port = "closed" /\ m.drv[d].waiter = "none"
               /\ Step(m, d, c) = "idle"
               /\ \A o \in Calls : o # c => Step(m, d, o) = Step(link, d, o)
               /\ link' = TransportClosed(Rejected(m, d, who), c)
  BY PortClosedFits DEF Waiter
<1>3. /\ Waiter(m, d) = "none"
      /\ \A e \in Drivers : e # d => /\ Waiter(m, e) = Waiter(link, e)
                                    /\ \A o : Step(m, e, o) = Step(link, e, o)
  BY <1>2 DEF Elsewhere, Waiter, Step
<1>4. Sound(m)
  <2>1. Awaited(m)
    BY <1>2, <1>3, CallNames DEF Sound, Awaited, SameClient
  <2>2. Unmade(m)
    BY <1>1, <1>2, <1>3, CallNames DEF Sound, Unmade, SameClient
  <2> QED
    BY <1>2, <2>1, <2>2 DEF Sound
<1>5. who = "loop" => NoLoop(m)
  BY <1>2, <1>3 DEF Sound, Awaited, NoLoop
<1>6. who \in Calls => Free(m, d, who)
  <2> SUFFICES ASSUME who \in Calls PROVE Free(m, d, who)
    OBVIOUS
  <2>1. Step(link, d, who) \in Awaiting
    BY DEF Sound, Awaited
  <2>2. who = "open" => d <= link.connects
    BY <2>1, Begun DEF Awaiting
  <2>3. who # "none"
    BY CallNames
  <2> HIDE DEF who
  <2> QED
    BY <1>2, <1>3, <1>4, <2>2, <2>3 DEF Free, SameClient
<1> HIDE DEF who
<1>7. Sound(Rejected(m, d, who))
  BY <1>1, <1>4, <1>5, <1>6, SettledSound
<1> QED
  BY <1>2, <1>7, TransportClosedSound

\* The actions of one driver.
DriverSteps(d) ==
    \/ PortOpens(d)
    \/ ReceiveAck(d)
    \/ AckTimeout(d)
    \/ WriteFails(d)
    \/ PortLost(d)
    \/ CloseEvent(d)
    \/ \E c \in Calls : BackoffOver(d, c)
    \/ \E c \in Closers : Settled(d, c) \/ \E e \in BOOLEAN : PortClosed(d, c, e)

\* What a driver does keeps the waiters in order, its failures included.
LEMMA DriverSound ==
    ASSUME Sound(link), NEW d \in Drivers, DriverSteps(d)
    PROVE  Sound(link')
<1>1. CASE PortOpens(d) \/ WriteFails(d) \/ CloseEvent(d)
  BY <1>1, PortOpensSound, WriteFailsSound, CloseEventSound
<1>2. CASE ReceiveAck(d) \/ AckTimeout(d)
  <2>1. \/ link' = Resolved(Arm(link, d, "none"), d, Waiter(link, d))
        \/ link' = Rejected(Arm(link, d, "none"), d, Waiter(link, d))
    BY <1>2 DEF ReceiveAck, AckTimeout, Waiter
  <2> QED
    BY <2>1, AnswerSound
<1>3. CASE PortLost(d)
  <2> DEFINE event == TRUE
  <2>1. link' = WithPort(link, d, "lost", event) /\ event \in BOOLEAN
        /\ "lost" \in {"open", "lost", "closed"}
    BY <1>3 DEF PortLost, WithPort
  <2> HIDE DEF event
  <2> QED
    BY <2>1, PortSound
<1>4. CASE \E c \in Calls : BackoffOver(d, c)
  BY <1>4, BackoffOverSound
<1>5. CASE \E c \in Closers : Settled(d, c) \/ \E e \in BOOLEAN : PortClosed(d, c, e)
  BY <1>5, SettleSound, PortClosedSound
<1> QED
  BY <1>1, <1>2, <1>3, <1>4, <1>5 DEF DriverSteps

----------------------------------------------------------------------------
\* The inductive invariant: the types, and whose the waiters are.
THEOREM InductiveInvariant == Spec => []IInv
<1>1. ASSUME Init PROVE IInv
  <2> DEFINE q0 == [EmptyQueue EXCEPT !.clearToSend = FALSE, !.socketReady = FALSE]
             none == QueueItem(NoPacket, FALSE, -1)
             ds == [d \in Drivers |-> NewDriver]
  <2>1. none \in ItemsOf(Packets \cup {NoPacket}) /\ 0 \in 0 .. MaxFailedACK
        /\ << >> \in Seq(ItemsOf(Packets)) /\ NoPacket \in Packets \cup {NoPacket}
    BY DEF QueueItem, ItemsOf, MaxFailedACK
  <2>2. EmptyQueue = [commandQueue |-> << >>, clearToSend |-> TRUE, exitLoop |-> FALSE,
                      socketReady |-> TRUE, loop |-> "idle", current |-> none,
                      ackTimer |-> NoPacket, failed |-> 0]
    BY Zenon DEF EmptyQueue
  <2> HIDE DEF none
  <2>3. q0 \in Queues(Packets)
    BY <2>1, <2>2 DEF Queues
  <2>4. /\ NewDriver \in DriverFields /\ NewDriver.waiter = "none"
        /\ \A c \in Calls : NewDriver.call[c].step = "idle"
    <3>1. Idle \in CallFields /\ Idle.step = "idle"
      BY DEF Idle, At, CallFields, Steps
    <3>2. [c \in Calls |-> Idle] \in [Calls -> CallFields]
      BY <3>1
    <3> QED
      BY <3>1, <3>2 DEF NewDriver, DriverFields, Waiters
  <2>5. ds \in [Drivers -> DriverFields] /\ \A d \in Drivers : ds[d] = NewDriver
    BY <2>4
  <2>6. 0 \in 0 .. MaxConnects
    BY SerialLinkAssumption
  <2>7. link = [state |-> "DISCONNECTED", driver |-> NoDriver, connects |-> 0,
                loopOn |-> NoDriver, q |-> q0, drv |-> ds]
    BY <1>1 DEF Init
  <2> HIDE DEF q0, ds
  <2>8. link \in LinkFields /\ link.drv = ds
    BY <2>3, <2>5, <2>6, <2>7 DEF LinkFields, States
  <2>9. \A d \in Drivers : /\ Waiter(link, d) = "none"
                           /\ \A c \in Calls : Step(link, d, c) = "idle"
    BY <2>4, <2>5, <2>8 DEF Waiter, Step
  <2>10. Counted(link) /\ Awaited(link) /\ Unmade(link)
    BY <2>9, CallNames DEF Counted, Awaited, Unmade, Step
  <2>11. Sound(link)
    BY <2>8, <2>10 DEF Sound, Typed
  <2>12. written \in 0 .. MaxWrites /\ ended \in BOOLEAN
    <3>1. written = 0 /\ 0 \in 0 .. MaxWrites
      BY <1>1, SerialLinkAssumption DEF Init
    <3>2. ended = FALSE
      BY <1>1 DEF Init
    <3>3. ended \in BOOLEAN
      BY <3>2, Zenon
    <3> QED
      BY <3>1, <3>3
  <2> QED
    BY <2>11, <2>12 DEF IInv
<1>2. IInv /\ [Next]_vars => IInv'
  <2> SUFFICES ASSUME IInv, [Next]_vars PROVE IInv'
    OBVIOUS
  <2>1. Sound(link)' <=> Sound(link')
    BY DEF Sound, Typed, Counted, Awaited, Unmade, Waiter, Step
  <2>2. CASE Connect \/ Disconnect \/ Pace
    <3>1. Sound(link') /\ written' = written /\ ended' = ended
      BY <2>2, ConnectSound, DisconnectSound, PaceSound
         DEF IInv, Connect, Disconnect, Pace
    <3> QED
      BY <2>1, <3>1 DEF IInv
  <2>3. CASE Write
    <3>1. Sound(link') /\ ended' = ended
      BY <2>3, WriteSound DEF Write
    <3>2. written' \in 0 .. MaxWrites
      BY <2>3, SerialLinkAssumption DEF IInv, Write
    <3> QED
      BY <2>1, <3>1, <3>2 DEF IInv
  <2>4. CASE \E d \in Drivers : DriverSteps(d)
    <3>1. PICK d \in Drivers : DriverSteps(d)
      BY <2>4
    <3>2. Sound(link')
      BY <3>1, DriverSound DEF IInv
    <3>3. written' = written /\ ended' \in BOOLEAN
      BY <3>1 DEF IInv, DriverSteps, PortOpens, ReceiveAck, AckTimeout, WriteFails,
                  PortLost, CloseEvent, BackoffOver, Settled, PortClosed
    <3> QED
      BY <2>1, <3>2, <3>3 DEF IInv
  <2>5. CASE UNCHANGED vars
    BY <2>1, <2>5 DEF vars, IInv
  <2> QED
    BY <2>2, <2>3, <2>4, <2>5 DEF Next, DriverSteps
<1> QED
  BY <1>1, <1>2, PTL DEF Spec

\* The client, its queue and its drivers keep their types however the application
\* calls: no reset is tried a fourth time, no frame of initialize() counted beyond
\* the last, and no waiter or port is left in a state that has no name.
THEOREM TypeCorrect == Spec => []TypeOK
<1>1. IInv => TypeOK
  BY DEF IInv, Sound, Typed, TypeOK, LinkFields, DriverFields, CallFields, Waiters, States
<1> QED
  BY <1>1, InductiveInvariant, PTL

\* However the application calls, and whatever the port, the device and earlier
\* drivers do: a call or a loop that goes on, gives up or ends has never left the
\* promise of an acknowledgement armed behind it, so that a timer or a close() that
\* rejects one finds it awaited, unless it is the orphan of a failed write.
THEOREM PromisesAreAwaited == Spec => []NoPromiseLeftBehind
<1>1. IInv => NoPromiseLeftBehind
  BY DEF IInv, Sound, Awaited, NoPromiseLeftBehind, Waiter, Step, Awaiting
<1> QED
  BY <1>1, InductiveInvariant, PTL
================================================================================
