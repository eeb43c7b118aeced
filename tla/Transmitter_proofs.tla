-------------------------- MODULE Transmitter_proofs --------------------------
(***************************************************************************)
(* The safety of the transmitter for every number of writes and of own     *)
(* packets: Spec => []IInv, and from it the invariants and the order of    *)
(* the telegrams on the wire.                                              *)
(*                                                                         *)
(* Every handler ends in one call of handleKNXQueue(), so the argument is  *)
(* in two halves.  What the handler does to the queue before that call     *)
(* keeps Consistent (one lemma per way of queueing); the call itself, and  *)
(* what it puts on the wire, turns Consistent into IInv (HandleStep).      *)
(***************************************************************************)
EXTENDS Transmitter, TLAPS

-----------------------------------------------------------------------------
(* A queue x: what the operations of SendQueue preserve *)

\* One turn of the loop of handleKNXQueue leaves a queue of the same packets.
LEMMA DispatchType ==
    ASSUME NEW P, NEW x \in Queues(P), Sendable(x)
    PROVE  Dispatch(x) \in Queues(P)
<1>1. x.commandQueue \in Seq(ItemsOf(P)) /\ x.commandQueue # << >>
  BY DEF Queues, Sendable
<1>2. Head(x.commandQueue) \in ItemsOf(P) /\ Tail(x.commandQueue) \in Seq(ItemsOf(P))
  BY <1>1
<1>3. Head(x.commandQueue) \in ItemsOf(P \cup {NoPacket})
  BY <1>2 DEF ItemsOf
<1>4. Head(x.commandQueue).packet \in P \cup {NoPacket}
  BY <1>2 DEF ItemsOf
<1> QED
  BY <1>2, <1>3, <1>4 DEF Dispatch, SetTimerWaitingForACK, Queues

\* handleKNXQueue() leaves a queue of the same packets, whether its loop runs or not.
LEMMA HandleType ==
    ASSUME NEW P, NEW x \in Queues(P)
    PROVE  HandleKNXQueue(x) \in Queues(P)
BY DispatchType DEF HandleKNXQueue

\* After handleKNXQueue() nothing that may be sent is left without a loop.
LEMMA HandleAwake ==
    ASSUME NEW P, NEW x \in Queues(P)
    PROVE  Awake(HandleKNXQueue(x))
<1>1. CASE x.loop = "idle" /\ Sendable(x)
  <2>1. Dispatch(x).loop = "sending"
    BY DEF Dispatch, SetTimerWaitingForACK, Queues
  <2> QED
    BY <1>1, <2>1 DEF HandleKNXQueue, Awake
<1>2. CASE ~(x.loop = "idle" /\ Sendable(x))
  BY <1>2 DEF HandleKNXQueue, Awake
<1> QED
  BY <1>1, <1>2

\* handleKNXQueue() closes the gate only by arming the ACK timer.
LEMMA HandleOwned ==
    ASSUME NEW P, NEW x \in Queues(P), NoPacket \notin P, Owned(x)
    PROVE  Owned(HandleKNXQueue(x))
<1>1. CASE x.loop = "idle" /\ Sendable(x)
  <2>1. x.commandQueue \in Seq(ItemsOf(P)) /\ x.commandQueue # << >>
    BY <1>1 DEF Queues, Sendable
  <2>2. Head(x.commandQueue) \in ItemsOf(P)
    BY <2>1
  <2>3. Head(x.commandQueue).packet # NoPacket
    BY <2>2 DEF ItemsOf
  <2> QED
    BY <1>1, <2>3 DEF HandleKNXQueue, Dispatch, SetTimerWaitingForACK, Owned,
                      Queues, Sendable
<1>2. CASE ~(x.loop = "idle" /\ Sendable(x))
  BY <1>2 DEF HandleKNXQueue
<1> QED
  BY <1>1, <1>2

\* The three properties of a queue, and the operations that keep them.
Sound(x, P) == x \in Queues(P) /\ Awake(x) /\ Owned(x)

\* handleKNXQueue() restores all three properties from ownership alone: it is
\* the call that wakes the loop.
LEMMA HandleSound ==
    ASSUME NEW P, NEW x \in Queues(P), NoPacket \notin P, Owned(x)
    PROVE  Sound(HandleKNXQueue(x), P)
BY HandleType, HandleAwake, HandleOwned DEF Sound

\* The two awaits of the loop, the send callback and the pacing delay, preserve
\* the three properties, a failed send included.
LEMMA LoopSound ==
    ASSUME NEW P, NEW x, Sound(x, P), NoPacket \notin P
    PROVE  /\ Sound(SendSucceeded(x), P)
           /\ Sound(SendFailed(x), P)
           /\ Sound(PacingDone(x), P)
<1>1. Sound(SendSucceeded(x), P)
  BY DEF SendSucceeded, Sound, Queues, Awake, Owned
<1>2. Sound(SendFailed(x), P)
  <2>1. << >> \in Seq(ItemsOf(P))
    OBVIOUS
  <2>2. SendFailed(x) \in Queues(P)
    BY <2>1 DEF SendFailed, Sound, Queues
  <2>3. SendFailed(x).commandQueue = << >>
    BY DEF SendFailed, Sound, Queues
  <2>4. Owned(SendFailed(x))
    BY DEF SendFailed, Sound, Queues, Owned
  <2> QED
    BY <2>2, <2>3, <2>4 DEF Sound, Awake, Sendable
<1>3. Sound(PacingDone(x), P)
  <2> DEFINE resumed == [x EXCEPT !.loop = "idle"]
  <2>1. resumed \in Queues(P) /\ Owned(resumed)
    BY DEF Sound, Queues, Owned
  <2> QED
    BY <2>1, HandleSound DEF PacingDone
<1> QED
  BY <1>1, <1>2, <1>3

-----------------------------------------------------------------------------
(* The queue of the transmitter *)

\* The part of IInv about queue x, without the wake-up that the call of
\* handleKNXQueue() is there to restore.
Consistent(x, last, t, w) ==
    /\ x \in Queues(Packets)
    /\ ~x.exitLoop /\ x.socketReady
    /\ Owned(x)
    /\ Ordered(x, last)
    /\ Known(x, w)
    /\ Counted(x, last, t)

\* NoPacket stands for the absence of a packet.
LEMMA NoPacketIsNone == NoPacket \notin Packets
BY DEF NoPacket, Packets, Telegram, Control

\* A packet of kind telegram is Telegram of its number, a written rank.
LEMMA TelegramPacket ==
    ASSUME NEW p \in Packets, p.kind = "telegram"
    PROVE  p.num \in Telegrams /\ p = Telegram(p.num)
BY DEF Packets, Telegram, Control

\* A queue is a function on 1 .. Len with items as values.
LEMMA QueueItems ==
    ASSUME NEW x \in Queues(Packets)
    PROVE  /\ x.commandQueue \in Seq(ItemsOf(Packets))
           /\ Len(x.commandQueue) \in Nat
           /\ DOMAIN x.commandQueue = 1 .. Len(x.commandQueue)
           /\ \A i \in DOMAIN x.commandQueue :
                 /\ x.commandQueue[i] \in ItemsOf(Packets)
                 /\ x.commandQueue[i].packet \in Packets
<1>1. x.commandQueue \in Seq(ItemsOf(Packets))
  BY DEF Queues
<1>2. \A i \in DOMAIN x.commandQueue : x.commandQueue[i] \in ItemsOf(Packets)
  BY <1>1
<1>3. \A item \in ItemsOf(Packets) : item.packet \in Packets
  BY DEF ItemsOf
<1> QED
  BY <1>1, <1>2, <1>3

\* Popping the head shifts every other item by one.
LEMMA TailItems ==
    ASSUME NEW S, NEW s \in Seq(S), s # << >>
    PROVE  /\ 1 \in DOMAIN s /\ Head(s) = s[1]
           /\ \A i \in DOMAIN Tail(s) :
                 i \in Nat /\ i >= 1 /\ i + 1 \in DOMAIN s /\ Tail(s)[i] = s[i + 1]
           /\ \A i \in DOMAIN s : i # 1 => i - 1 \in DOMAIN Tail(s) /\ i \in Nat
OBVIOUS

\* Pushing an item in front shifts every other item by one.
LEMMA FrontItems ==
    ASSUME NEW S, NEW s \in Seq(S), NEW e \in S
    PROVE  /\ << e >> \o s \in Seq(S)
           /\ 1 \in DOMAIN (<< e >> \o s) /\ (<< e >> \o s)[1] = e
           /\ \A i \in DOMAIN (<< e >> \o s) :
                 i \in Nat /\ (i # 1 => /\ i - 1 \in DOMAIN s
                                        /\ (<< e >> \o s)[i] = s[i - 1])
           /\ \A i \in DOMAIN s :
                 /\ i \in Nat /\ i + 1 # 1
                 /\ i + 1 \in DOMAIN (<< e >> \o s)
                 /\ (<< e >> \o s)[i + 1] = s[i]
OBVIOUS

\* Appending an item leaves every other item where it was.
LEMMA LastItems ==
    ASSUME NEW S, NEW s \in Seq(S), NEW e \in S
    PROVE  /\ Append(s, e) \in Seq(S)
           /\ Len(s) + 1 \in DOMAIN Append(s, e)
           /\ Append(s, e)[Len(s) + 1] = e
           /\ \A i \in DOMAIN Append(s, e) :
                 i # Len(s) + 1 => /\ i \in DOMAIN s
                                   /\ Append(s, e)[i] = s[i]
                                   /\ i < Len(s) + 1
           /\ \A i \in DOMAIN s :
                 /\ i \in DOMAIN Append(s, e)
                 /\ Append(s, e)[i] = s[i]
                 /\ i < Len(s) + 1
OBVIOUS

----------------------------------------------------------------------------
\* What the loop pops: the telegram to leave is the oldest that waits, and
\* becomes the last sent; afterwards it does not wait any more.
LEMMA DispatchTelegram ==
    ASSUME NEW x, NEW last \in Int, NEW t \in Nat, NEW w \in Nat,
           Consistent(x, last, t, w), Sendable(x),
           NEW n, n = Head(x.commandQueue).packet.num,
           Head(x.commandQueue).packet.kind = "telegram"
    PROVE  /\ n \in Telegrams /\ n < w /\ n >= last
           /\ Consistent(Dispatch(x), n, IF n = last THEN t + 1 ELSE 1, w)
<1> DEFINE s == x.commandQueue
           y == Dispatch(x)
<1>1. /\ x \in Queues(Packets) /\ s # << >> /\ s \in Seq(ItemsOf(Packets))
      /\ x.failed \in Nat
  BY DEF Consistent, Sendable, Queues, MaxFailedACK
<1>2. /\ y \in Queues(Packets) /\ y.commandQueue = Tail(s)
      /\ ~y.exitLoop /\ y.socketReady /\ y.failed = x.failed
      /\ y.ackTimer = IF s[1].ack THEN s[1].packet ELSE x.ackTimer
      /\ Owned(y)
  <2>1. y \in Queues(Packets)
    BY <1>1, DispatchType
  <2>2. Head(s) = s[1] /\ s[1].packet \in Packets
    BY <1>1, TailItems, QueueItems
  <2>3. s[1].packet # NoPacket
    BY <2>2, NoPacketIsNone
  <2>4. /\ y.commandQueue = Tail(s) /\ ~y.exitLoop /\ y.socketReady
        /\ y.failed = x.failed
        /\ y.ackTimer = IF s[1].ack THEN s[1].packet ELSE x.ackTimer
        /\ y.clearToSend = IF s[1].ack THEN FALSE ELSE x.clearToSend
    BY <2>2 DEF Dispatch, SetTimerWaitingForACK, Queues, Consistent
  <2> QED
    BY <2>1, <2>3, <2>4 DEF Owned, Sendable
<1>3. /\ 1 \in DOMAIN s /\ IsTelegram(s[1]) /\ s[1].packet = Telegram(n)
      /\ n \in Telegrams /\ n \in Nat /\ n < w /\ n >= last
  <2>1. 1 \in DOMAIN s /\ Head(s) = s[1] /\ s[1].packet \in Packets
    BY <1>1, TailItems, QueueItems
  <2>2. n \in Telegrams /\ s[1].packet = Telegram(n) /\ IsTelegram(s[1])
    BY <2>1, TelegramPacket DEF IsTelegram
  <2>3. n \in Nat
    BY <2>2, TransmitterAssumption DEF Telegrams
  <2> QED
    BY <2>1, <2>2, <2>3 DEF Consistent, Ordered, Known
<1>4. \A i \in DOMAIN Tail(s) :
         /\ i \in Nat /\ i >= 1 /\ i + 1 \in DOMAIN s /\ Tail(s)[i] = s[i + 1]
         /\ IsTelegram(Tail(s)[i]) => Tail(s)[i].packet.num \in Nat
  <2> TAKE i \in DOMAIN Tail(s)
  <2>1. i \in Nat /\ i >= 1 /\ i + 1 \in DOMAIN s /\ Tail(s)[i] = s[i + 1]
    BY <1>1, TailItems
  <2>2. s[i + 1].packet \in Packets
    BY <1>1, <2>1, QueueItems
  <2>3. IsTelegram(s[i + 1]) => s[i + 1].packet.num \in Nat
    BY <2>2, TelegramPacket, TransmitterAssumption DEF IsTelegram, Telegrams
  <2> QED
    BY <2>1, <2>3
<1>5. \A i \in DOMAIN Tail(s) :
         IsTelegram(Tail(s)[i]) => Tail(s)[i].packet.num > n
  <2> SUFFICES ASSUME NEW i \in DOMAIN Tail(s), IsTelegram(Tail(s)[i])
               PROVE  Tail(s)[i].packet.num > n
    OBVIOUS
  <2>1. s[1].packet.num < s[i + 1].packet.num
    BY <1>3, <1>4 DEF Consistent, Ordered
  <2>2. s[1].packet.num = n
    BY <1>3 DEF Telegram
  <2> QED
    BY <1>4, <2>1, <2>2, <1>3
<1>6. ~Waits(y, n)
  BY <1>2, <1>3, <1>4, <1>5 DEF Waits, IsTelegram, Telegram
<1>7. Ordered(y, n)
  <2>1. \A i \in DOMAIN Tail(s) :
          /\ Tail(s)[i].ack <=> IsTelegram(Tail(s)[i]) /\ ~SuppressAck
          /\ IsTelegram(Tail(s)[i]) => Tail(s)[i].packet.num >= n
    <3> TAKE i \in DOMAIN Tail(s)
    <3>1. i + 1 \in DOMAIN s /\ Tail(s)[i] = s[i + 1]
      BY <1>4
    <3>2. \A j \in DOMAIN s : s[j].ack <=> IsTelegram(s[j]) /\ ~SuppressAck
      BY DEF Consistent, Ordered
    <3>3. Tail(s)[i].ack <=> IsTelegram(Tail(s)[i]) /\ ~SuppressAck
      BY <3>1, <3>2
    <3>4. IsTelegram(Tail(s)[i]) => Tail(s)[i].packet.num >= n
      BY <1>3, <1>4, <1>5
    <3> QED
      BY <3>3, <3>4
  <2>2. \A i, j \in DOMAIN Tail(s) :
          i < j /\ IsTelegram(Tail(s)[i]) /\ IsTelegram(Tail(s)[j])
              => Tail(s)[i].packet.num < Tail(s)[j].packet.num
    <3> SUFFICES ASSUME NEW i \in DOMAIN Tail(s), NEW j \in DOMAIN Tail(s), i < j,
                        IsTelegram(Tail(s)[i]), IsTelegram(Tail(s)[j])
                 PROVE  Tail(s)[i].packet.num < Tail(s)[j].packet.num
      OBVIOUS
    <3>1. /\ i + 1 \in DOMAIN s /\ Tail(s)[i] = s[i + 1]
          /\ j + 1 \in DOMAIN s /\ Tail(s)[j] = s[j + 1]
          /\ i + 1 < j + 1
      BY <1>4
    <3> QED
      BY <3>1 DEF Consistent, Ordered
  <2>3. y.ackTimer # NoPacket => y.ackTimer = Telegram(n) /\ ~SuppressAck
    BY <1>2, <1>3 DEF Consistent, Ordered
  <2>4. SuppressAck => y.failed = 0
    BY <1>2 DEF Consistent, Ordered
  <2> QED
    BY <1>2, <1>6, <2>1, <2>2, <2>3, <2>4 DEF Ordered
<1>8. Known(y, w)
  BY <1>2, <1>4 DEF Consistent, Known
<1>9. Counted(y, n, IF n = last THEN t + 1 ELSE 1)
  <2>1. CASE n = last
    <3>1. Waits(x, last)
      BY <2>1, <1>3 DEF Waits
    <3>2. t <= x.failed
      BY <3>1 DEF Consistent, Counted
    <3> QED
      BY <2>1, <3>2, <1>1, <1>2, <1>6 DEF Counted
  <2>2. CASE n # last
    BY <2>2, <1>1, <1>2, <1>6 DEF Counted
  <2> QED
    BY <2>1, <2>2
<1> QED
  BY <1>2, <1>3, <1>7, <1>8, <1>9 DEF Consistent

\* A packet of the client's own leaves: nothing changes for the telegrams.
LEMMA DispatchControl ==
    ASSUME NEW x, NEW last \in Int, NEW t \in Nat, NEW w \in Nat,
           Consistent(x, last, t, w), Sendable(x),
           Head(x.commandQueue).packet.kind # "telegram"
    PROVE  Consistent(Dispatch(x), last, t, w)
<1> DEFINE s == x.commandQueue
           y == Dispatch(x)
<1>1. x \in Queues(Packets) /\ s # << >> /\ s \in Seq(ItemsOf(Packets))
  BY DEF Consistent, Sendable, Queues
<1>2. 1 \in DOMAIN s /\ Head(s) = s[1] /\ ~IsTelegram(s[1]) /\ ~s[1].ack
  <2>1. 1 \in DOMAIN s /\ Head(s) = s[1] /\ ~IsTelegram(s[1])
    BY <1>1, TailItems DEF IsTelegram
  <2> QED
    BY <2>1 DEF Consistent, Ordered
<1>3. /\ y \in Queues(Packets) /\ y.commandQueue = Tail(s)
      /\ ~y.exitLoop /\ y.socketReady /\ y.failed = x.failed
      /\ y.ackTimer = x.ackTimer /\ y.clearToSend = x.clearToSend
  <2>1. y \in Queues(Packets)
    BY <1>1, DispatchType
  <2> QED
    BY <1>2, <2>1 DEF Dispatch, Queues, Consistent
<1>4. /\ \A i \in DOMAIN Tail(s) :
            i \in Nat /\ i >= 1 /\ i + 1 \in DOMAIN s /\ Tail(s)[i] = s[i + 1]
      /\ \A i \in DOMAIN s : i # 1 => i - 1 \in DOMAIN Tail(s) /\ i \in Nat
  BY <1>1, TailItems
<1>5. Waits(y, last) <=> Waits(x, last)
  <2>1. Waits(y, last) => Waits(x, last)
    BY <1>3, <1>4 DEF Waits
  <2>2. ASSUME Waits(x, last)
        PROVE  Waits(y, last)
    <3>1. PICK i \in DOMAIN s : s[i].packet = Telegram(last)
      BY <2>2 DEF Waits
    <3>2. i # 1
      BY <1>2, <3>1 DEF IsTelegram, Telegram
    <3>3. i - 1 \in DOMAIN Tail(s) /\ (i - 1) + 1 = i
      BY <1>4, <3>2
    <3>4. Tail(s)[i - 1] = s[i]
      BY <1>4, <3>3
    <3> QED
      BY <1>3, <3>1, <3>3, <3>4 DEF Waits
  <2> QED
    BY <2>1, <2>2
<1>6. Ordered(y, last)
  <2>1. \A i \in DOMAIN Tail(s) :
          /\ Tail(s)[i].ack <=> IsTelegram(Tail(s)[i]) /\ ~SuppressAck
          /\ IsTelegram(Tail(s)[i]) => Tail(s)[i].packet.num >= last
    BY <1>4 DEF Consistent, Ordered
  <2>2. \A i, j \in DOMAIN Tail(s) :
          i < j /\ IsTelegram(Tail(s)[i]) /\ IsTelegram(Tail(s)[j])
              => Tail(s)[i].packet.num < Tail(s)[j].packet.num
    <3> SUFFICES ASSUME NEW i \in DOMAIN Tail(s), NEW j \in DOMAIN Tail(s), i < j,
                        IsTelegram(Tail(s)[i]), IsTelegram(Tail(s)[j])
                 PROVE  Tail(s)[i].packet.num < Tail(s)[j].packet.num
      OBVIOUS
    <3>1. /\ i + 1 \in DOMAIN s /\ Tail(s)[i] = s[i + 1]
          /\ j + 1 \in DOMAIN s /\ Tail(s)[j] = s[j + 1]
          /\ i + 1 < j + 1
      BY <1>4
    <3> QED
      BY <3>1 DEF Consistent, Ordered
  <2> QED
    BY <1>3, <1>5, <2>1, <2>2 DEF Consistent, Ordered
<1>7. Known(y, w) /\ Counted(y, last, t) /\ Owned(y)
  BY <1>3, <1>4, <1>5 DEF Consistent, Known, Counted, Owned
<1> QED
  BY <1>3, <1>6, <1>7 DEF Consistent

\* One call of handleKNXQueue() on a consistent queue x, made by a handler
\* that started with the loop where x has it, or pacing and now idle: the new
\* state is consistent, nothing is left asleep, and what goes out is not
\* older than what went out before.
LEMMA HandleStep ==
    ASSUME NEW x, NEW t \in Nat, NEW w \in Nat,
           lastSent \in -1 .. MaxWrites - 1, lastSent < w,
           Consistent(x, lastSent, t, w),
           x.loop = q.loop \/ (x.loop = "idle" /\ q.loop = "pacing"),
           Become(HandleKNXQueue(x), t)
    PROVE  /\ Consistent(q', lastSent', tries', w) /\ Awake(q')
           /\ tries' \in Nat /\ lastSent' >= lastSent /\ lastSent' < w
           /\ lastSent' \in -1 .. MaxWrites - 1
<1>0. x \in Queues(Packets) /\ q' = HandleKNXQueue(x) /\ lastSent \in Int
  BY TransmitterAssumption DEF Consistent, Become
<1>1. Awake(q')
  BY <1>0, HandleAwake
<1>2. CASE ~(x.loop = "idle" /\ Sendable(x))
  <2>1. q' = x /\ ~Emits(q, x)
    BY <1>0, <1>2 DEF HandleKNXQueue, Emits
  <2>2. tries' = t /\ lastSent' = lastSent
    BY <1>0, <2>1 DEF Become
  <2> QED
    BY <1>0, <1>1, <2>1, <2>2, TransmitterAssumption
<1>3. CASE x.loop = "idle" /\ Sendable(x)
  <2> DEFINE n == Head(x.commandQueue).packet.num
  <2>1. q' = Dispatch(x)
    BY <1>0, <1>3 DEF HandleKNXQueue
  <2>2. q'.current = Head(x.commandQueue) /\ Emits(q, q')
    BY <1>0, <1>3, <2>1 DEF Dispatch, SetTimerWaitingForACK, Queues, Emits
  <2>3. CASE Head(x.commandQueue).packet.kind = "telegram"
    <3>1. /\ n \in Telegrams /\ n < w /\ n >= lastSent
          /\ Consistent(Dispatch(x), n, IF n = lastSent THEN t + 1 ELSE 1, w)
      BY <1>0, <1>3, <2>3, DispatchTelegram
    <3>2. lastSent' = n /\ tries' = IF n = lastSent THEN t + 1 ELSE 1
      BY <1>0, <2>2, <2>3 DEF Become
    <3>3. n \in -1 .. MaxWrites - 1
      BY <3>1, TransmitterAssumption DEF Telegrams
    <3> QED
      BY <1>1, <2>1, <3>1, <3>2, <3>3
  <2>4. CASE Head(x.commandQueue).packet.kind # "telegram"
    <3>1. tries' = t /\ lastSent' = lastSent
      BY <1>0, <2>2, <2>4 DEF Become
    <3> QED
      BY <1>0, <1>1, <1>3, <2>1, <2>4, <3>1, DispatchControl, TransmitterAssumption
  <2> QED
    BY <2>3, <2>4
<1> QED
  BY <1>2, <1>3

----------------------------------------------------------------------------
\* write(): the newest telegram goes behind those that wait.
LEMMA AppendTelegram ==
    ASSUME NEW last \in Int, NEW t \in Nat, NEW w \in Telegrams, last < w,
           NEW x, Consistent(x, last, t, w), NEW e \in Int,
           NEW item, item = QueueItem(Telegram(w), ~SuppressAck, e),
           NEW y, y = [x EXCEPT !.commandQueue = Append(@, item)]
    PROVE  item \in ItemsOf(Packets) /\ Consistent(y, last, t, w + 1)
<1> DEFINE s == x.commandQueue
           k == Len(s) + 1
<1>1. /\ x \in Queues(Packets) /\ s \in Seq(ItemsOf(Packets)) /\ w \in Nat
      /\ item \in ItemsOf(Packets) /\ IsTelegram(item)
      /\ item.packet = Telegram(w) /\ item.packet.num = w /\ (item.ack <=> ~SuppressAck)
  BY TransmitterAssumption
     DEF Consistent, Queues, Packets, Telegrams, Telegram, QueueItem, ItemsOf,
         IsTelegram
<1>2. /\ y.commandQueue = Append(s, item) /\ y \in Queues(Packets)
      /\ ~y.exitLoop /\ y.socketReady /\ y.failed = x.failed
      /\ y.ackTimer = x.ackTimer /\ y.clearToSend = x.clearToSend
  <2>1. Append(s, item) \in Seq(ItemsOf(Packets))
    BY <1>1
  <2> QED
    BY <1>1, <2>1 DEF Consistent, Queues
<1>3. /\ k \in DOMAIN y.commandQueue /\ y.commandQueue[k] = item /\ k \in Nat
      /\ \A i \in DOMAIN y.commandQueue :
            i # k => i \in DOMAIN s /\ y.commandQueue[i] = s[i] /\ i < k
      /\ \A i \in DOMAIN s : i \in DOMAIN y.commandQueue /\ y.commandQueue[i] = s[i]
      /\ \A i \in DOMAIN y.commandQueue : i \in Nat /\ i <= k
  BY <1>1, <1>2, LastItems
<1>4. Waits(y, last) <=> Waits(x, last)
  <2>1. Telegram(w) # Telegram(last)
    BY <1>1 DEF Telegram
  <2> QED
    BY <1>1, <1>3, <2>1 DEF Waits
<1>5. Ordered(y, last)
  <2>1. \A i \in DOMAIN y.commandQueue :
          /\ y.commandQueue[i].ack <=> IsTelegram(y.commandQueue[i]) /\ ~SuppressAck
          /\ IsTelegram(y.commandQueue[i]) => y.commandQueue[i].packet.num >= last
    <3> TAKE i \in DOMAIN y.commandQueue
    <3>1. CASE i = k
      <4>1. y.commandQueue[i] = item /\ w >= last
        BY <3>1, <1>1, <1>3
      <4> QED
        BY <4>1, <1>1
    <3>2. CASE i # k
      <4>1. i \in DOMAIN s /\ y.commandQueue[i] = s[i]
        BY <3>2, <1>3
      <4> QED
        BY <4>1 DEF Consistent, Ordered
    <3> QED
      BY <3>1, <3>2
  <2>2. \A i, j \in DOMAIN y.commandQueue :
          i < j /\ IsTelegram(y.commandQueue[i]) /\ IsTelegram(y.commandQueue[j])
              => y.commandQueue[i].packet.num < y.commandQueue[j].packet.num
    <3> SUFFICES ASSUME NEW i \in DOMAIN y.commandQueue,
                        NEW j \in DOMAIN y.commandQueue, i < j,
                        IsTelegram(y.commandQueue[i]), IsTelegram(y.commandQueue[j])
                 PROVE  y.commandQueue[i].packet.num < y.commandQueue[j].packet.num
      OBVIOUS
    <3>1. i # k /\ i \in DOMAIN s /\ y.commandQueue[i] = s[i]
      BY <1>3
    <3>2. CASE j = k
      BY <3>1, <3>2, <1>1, <1>3 DEF Consistent, Known
    <3>3. CASE j # k
      <4>1. j \in DOMAIN s /\ y.commandQueue[j] = s[j]
        BY <3>3, <1>3
      <4> QED
        BY <3>1, <4>1 DEF Consistent, Ordered
    <3> QED
      BY <3>2, <3>3
  <2> QED
    BY <1>2, <1>4, <2>1, <2>2 DEF Consistent, Ordered
<1>6. Known(y, w + 1)
  <2> SUFFICES ASSUME NEW i \in DOMAIN y.commandQueue, IsTelegram(y.commandQueue[i])
               PROVE  y.commandQueue[i].packet.num < w + 1
    BY DEF Known
  <2>1. CASE i = k
    BY <2>1, <1>1, <1>3
  <2>2. CASE i # k
    <3>1. /\ i \in DOMAIN s /\ y.commandQueue[i] = s[i]
          /\ s[i].packet.num < w
      BY <2>2, <1>3 DEF Consistent, Known
    <3>2. s[i].packet.num \in Nat
      BY <3>1, <1>1, QueueItems, TelegramPacket, TransmitterAssumption
         DEF IsTelegram, Telegrams
    <3> QED
      BY <3>1, <3>2, <1>1
  <2> QED
    BY <2>1, <2>2
<1>7. Counted(y, last, t) /\ Owned(y)
  BY <1>2, <1>4 DEF Consistent, Counted, Owned
<1> QED
  BY <1>1, <1>2, <1>5, <1>6, <1>7 DEF Consistent

\* send() with priority: a packet of the client's own goes in front and forces
\* the gate open; the telegrams keep their order, the ACK timer its telegram.
LEMMA PushControl ==
    ASSUME NEW last \in Int, NEW t \in Nat, NEW w \in Nat,
           NEW x, Consistent(x, last, t, w), NEW e \in Int,
           NEW item, item = QueueItem(Control("control"), FALSE, e),
           NEW y, y = [x EXCEPT !.commandQueue = << item >> \o @,
                                !.clearToSend = TRUE]
    PROVE  item \in ItemsOf(Packets) /\ Consistent(y, last, t, w)
<1> DEFINE s == x.commandQueue
<1>1. /\ x \in Queues(Packets) /\ s \in Seq(ItemsOf(Packets))
      /\ item \in ItemsOf(Packets) /\ ~IsTelegram(item) /\ ~item.ack
      /\ item.packet = Control("control")
  BY DEF Consistent, Queues, Packets, Control, QueueItem, ItemsOf, IsTelegram
<1>2. /\ y.commandQueue = << item >> \o s /\ y \in Queues(Packets)
      /\ ~y.exitLoop /\ y.socketReady /\ y.failed = x.failed
      /\ y.ackTimer = x.ackTimer /\ y.clearToSend
  <2>1. << item >> \o s \in Seq(ItemsOf(Packets))
    BY <1>1, FrontItems
  <2> QED
    BY <1>1, <2>1 DEF Consistent, Queues
<1>3. /\ 1 \in DOMAIN y.commandQueue /\ y.commandQueue[1] = item
      /\ \A i \in DOMAIN y.commandQueue :
            i \in Nat /\ (i # 1 => /\ i - 1 \in DOMAIN s
                                   /\ y.commandQueue[i] = s[i - 1])
      /\ \A i \in DOMAIN s : /\ i + 1 \in DOMAIN y.commandQueue
                              /\ y.commandQueue[i + 1] = s[i]
  BY <1>1, <1>2, FrontItems
<1>4. Waits(y, last) <=> Waits(x, last)
  <2>1. item.packet # Telegram(last)
    <3>1. Telegram(last).kind = "telegram"
      BY DEF Telegram
    <3>2. item.packet.kind # "telegram"
      BY <1>1 DEF IsTelegram
    <3> QED
      BY <3>1, <3>2
  <2>2. ASSUME NEW i \in DOMAIN y.commandQueue,
               y.commandQueue[i].packet = Telegram(last)
        PROVE  Waits(x, last)
    <3>1. i # 1
      BY <2>1, <2>2, <1>3
    <3>2. i - 1 \in DOMAIN s /\ s[i - 1].packet = Telegram(last)
      BY <2>2, <3>1, <1>3
    <3> QED
      BY <3>2 DEF Waits
  <2>3. ASSUME NEW i \in DOMAIN s, s[i].packet = Telegram(last)
        PROVE  Waits(y, last)
    <3>1. i + 1 \in DOMAIN y.commandQueue /\ y.commandQueue[i + 1].packet = Telegram(last)
      BY <2>3, <1>3
    <3> QED
      BY <3>1 DEF Waits
  <2> QED
    BY <2>2, <2>3 DEF Waits
<1>5. \A i \in DOMAIN y.commandQueue : IsTelegram(y.commandQueue[i]) => i # 1
  BY <1>1, <1>3
<1>6. Ordered(y, last)
  <2>1. \A i \in DOMAIN y.commandQueue :
          /\ y.commandQueue[i].ack <=> IsTelegram(y.commandQueue[i]) /\ ~SuppressAck
          /\ IsTelegram(y.commandQueue[i]) => y.commandQueue[i].packet.num >= last
    <3> TAKE i \in DOMAIN y.commandQueue
    <3>1. CASE i = 1
      <4>1. y.commandQueue[i] = item
        BY <3>1, <1>3
      <4> QED
        BY <4>1, <1>1
    <3>2. CASE i # 1
      <4>1. i - 1 \in DOMAIN s /\ y.commandQueue[i] = s[i - 1]
        BY <3>2, <1>3
      <4> QED
        BY <4>1 DEF Consistent, Ordered
    <3> QED
      BY <3>1, <3>2
  <2>2. \A i, j \in DOMAIN y.commandQueue :
          i < j /\ IsTelegram(y.commandQueue[i]) /\ IsTelegram(y.commandQueue[j])
              => y.commandQueue[i].packet.num < y.commandQueue[j].packet.num
    <3> SUFFICES ASSUME NEW i \in DOMAIN y.commandQueue,
                        NEW j \in DOMAIN y.commandQueue, i < j,
                        IsTelegram(y.commandQueue[i]), IsTelegram(y.commandQueue[j])
                 PROVE  y.commandQueue[i].packet.num < y.commandQueue[j].packet.num
      OBVIOUS
    <3>0. i # 1 /\ j # 1
      BY <1>5
    <3>1. /\ i - 1 \in DOMAIN s /\ y.commandQueue[i] = s[i - 1]
          /\ j - 1 \in DOMAIN s /\ y.commandQueue[j] = s[j - 1]
          /\ i - 1 < j - 1
      BY <1>3, <3>0
    <3> QED
      BY <3>1 DEF Consistent, Ordered
  <2> QED
    BY <1>2, <1>4, <2>1, <2>2 DEF Consistent, Ordered
<1>7. Known(y, w)
  BY <1>3, <1>5 DEF Consistent, Known
<1>8. Counted(y, last, t) /\ Owned(y)
  BY <1>2, <1>4 DEF Consistent, Counted, Owned
<1> QED
  BY <1>1, <1>2, <1>6, <1>7, <1>8 DEF Consistent

\* setTimerWaitingForACK, the timer fires: the last telegram sent goes in front
\* of the others, all of which are younger, and one more failure is counted.
LEMMA PushRepetition ==
    ASSUME NEW last \in Int, NEW t \in Nat, NEW w \in Nat, last < w,
           NEW x, Consistent(x, last, t, w), x.ackTimer # NoPacket, ~GivesUp(x),
           NEW item, item = QueueItem(x.ackTimer, TRUE, x.current.expected),
           NEW c, c = [ClearAckTimer(x) EXCEPT !.failed = @ + 1],
           NEW y, y = [c EXCEPT !.commandQueue = << item >> \o @,
                                !.clearToSend = TRUE]
    PROVE  Consistent(y, last, t, w)
<1> DEFINE s == x.commandQueue
<1>1. /\ x \in Queues(Packets) /\ s \in Seq(ItemsOf(Packets)) /\ ~SuppressAck
      /\ item \in ItemsOf(Packets) /\ IsTelegram(item) /\ item.ack
      /\ item.packet = Telegram(last) /\ item.packet.num = last
      /\ ~Waits(x, last)
  <2>1. /\ x \in Queues(Packets) /\ s \in Seq(ItemsOf(Packets)) /\ ~SuppressAck
        /\ x.ackTimer = Telegram(last) /\ x.ackTimer \in Packets
        /\ x.current.expected \in Int /\ ~Waits(x, last)
    BY DEF Consistent, Ordered, Queues, ItemsOf
  <2> QED
    BY <2>1 DEF QueueItem, ItemsOf, IsTelegram, Telegram
<1>2. /\ y.commandQueue = << item >> \o s /\ y \in Queues(Packets)
      /\ ~y.exitLoop /\ y.socketReady /\ y.failed = x.failed + 1
      /\ y.ackTimer = NoPacket /\ y.clearToSend
  <2>1. << item >> \o s \in Seq(ItemsOf(Packets))
    BY <1>1, FrontItems
  <2>2. x.failed + 1 \in 0 .. MaxFailedACK
    BY <1>1 DEF Queues, GivesUp, MaxFailedACK
  <2>3. /\ ClearAckTimer(x).failed = x.failed /\ ClearAckTimer(x) \in Queues(Packets)
        /\ ClearAckTimer(x).commandQueue = s /\ ClearAckTimer(x).ackTimer = NoPacket
        /\ ~ClearAckTimer(x).exitLoop /\ ClearAckTimer(x).socketReady
    BY <1>1 DEF ClearAckTimer, Queues, Consistent
  <2>4. /\ c \in Queues(Packets) /\ c.commandQueue = s /\ c.ackTimer = NoPacket
        /\ ~c.exitLoop /\ c.socketReady /\ c.failed = x.failed + 1
    BY <2>2, <2>3 DEF Queues
  <2> QED
    BY <2>1, <2>4 DEF Queues
<1>3. /\ 1 \in DOMAIN y.commandQueue /\ y.commandQueue[1] = item
      /\ \A i \in DOMAIN y.commandQueue :
            i \in Nat /\ i >= 1 /\ (i # 1 => /\ i - 1 \in DOMAIN s
                                             /\ y.commandQueue[i] = s[i - 1])
  <2>1. \A i \in DOMAIN y.commandQueue : i >= 1
    BY <1>1, <1>2
  <2> QED
    BY <1>1, <1>2, <2>1, FrontItems
<1>4. \A i \in DOMAIN s :
         IsTelegram(s[i]) => s[i].packet.num \in Nat /\ s[i].packet.num > last
  <2> SUFFICES ASSUME NEW i \in DOMAIN s, IsTelegram(s[i])
               PROVE  s[i].packet.num \in Nat /\ s[i].packet.num > last
    OBVIOUS
  <2>1. s[i].packet.num \in Telegrams /\ s[i].packet = Telegram(s[i].packet.num)
    BY <1>1, QueueItems, TelegramPacket DEF IsTelegram
  <2>2. s[i].packet.num >= last
    BY DEF Consistent, Ordered
  <2>3. s[i].packet # Telegram(last)
    BY <1>1 DEF Waits
  <2> QED
    BY <2>1, <2>2, <2>3, TransmitterAssumption DEF Telegrams
<1>5. Waits(y, last)
  BY <1>1, <1>3 DEF Waits
<1>6. Ordered(y, last)
  <2>1. \A i \in DOMAIN y.commandQueue :
          /\ y.commandQueue[i].ack <=> IsTelegram(y.commandQueue[i]) /\ ~SuppressAck
          /\ IsTelegram(y.commandQueue[i]) => y.commandQueue[i].packet.num >= last
    <3> TAKE i \in DOMAIN y.commandQueue
    <3>1. CASE i = 1
      <4>1. y.commandQueue[i] = item
        BY <3>1, <1>3
      <4>2. item.packet.num >= last
        <5>1. item.packet.num = last
          BY <1>1
        <5>2. last >= last
          OBVIOUS
        <5> QED
          BY <5>1, <5>2, Zenon
      <4>3. item.ack <=> IsTelegram(item) /\ ~SuppressAck
        BY <1>1, Zenon
      <4> QED
        BY <4>1, <4>2, <4>3, Zenon
    <3>2. CASE i # 1
      <4>1. i - 1 \in DOMAIN s /\ y.commandQueue[i] = s[i - 1]
        BY <3>2, <1>3
      <4> QED
        BY <4>1 DEF Consistent, Ordered
    <3> QED
      BY <3>1, <3>2
  <2>2. \A i, j \in DOMAIN y.commandQueue :
          i < j /\ IsTelegram(y.commandQueue[i]) /\ IsTelegram(y.commandQueue[j])
              => y.commandQueue[i].packet.num < y.commandQueue[j].packet.num
    <3> SUFFICES ASSUME NEW i \in DOMAIN y.commandQueue,
                        NEW j \in DOMAIN y.commandQueue, i < j,
                        IsTelegram(y.commandQueue[i]), IsTelegram(y.commandQueue[j])
                 PROVE  y.commandQueue[i].packet.num < y.commandQueue[j].packet.num
      OBVIOUS
    <3>1. j # 1 /\ j - 1 \in DOMAIN s /\ y.commandQueue[j] = s[j - 1]
      BY <1>3
    <3>2. CASE i = 1
      <4>1. y.commandQueue[i].packet.num = last
        BY <3>2, <1>1, <1>3
      <4>2. s[j - 1].packet.num > last
        BY <3>1, <1>4
      <4> QED
        BY <3>1, <4>1, <4>2
    <3>3. CASE i # 1
      <4>1. i - 1 \in DOMAIN s /\ y.commandQueue[i] = s[i - 1] /\ i - 1 < j - 1
        BY <3>3, <1>3
      <4> QED
        BY <3>1, <4>1 DEF Consistent, Ordered
    <3> QED
      BY <3>2, <3>3
  <2> QED
    BY <1>1, <1>2, <2>1, <2>2 DEF Ordered
<1>7. Known(y, w)
  <2> SUFFICES ASSUME NEW i \in DOMAIN y.commandQueue, IsTelegram(y.commandQueue[i])
               PROVE  y.commandQueue[i].packet.num < w
    BY DEF Known
  <2>1. CASE i = 1
    BY <2>1, <1>1, <1>3
  <2>2. CASE i # 1
    BY <2>2, <1>3 DEF Consistent, Known
  <2> QED
    BY <2>1, <2>2
<1>8. Counted(y, last, t) /\ Owned(y)
  BY <1>1, <1>2, <1>5 DEF Consistent, Counted, Owned
<1> QED
  BY <1>2, <1>6, <1>7, <1>8 DEF Consistent

\* Steps that leave the items, the ACK timer and the failure count alone.
LEMMA SameTelegrams ==
    ASSUME NEW last, NEW t, NEW w, NEW x, Consistent(x, last, t, w),
           NEW y \in Queues(Packets), Owned(y), ~y.exitLoop, y.socketReady,
           y.commandQueue = x.commandQueue, y.ackTimer = x.ackTimer,
           y.failed = x.failed
    PROVE  Consistent(y, last, t, w)
<1>1. Waits(y, last) <=> Waits(x, last)
  BY DEF Waits
<1> QED
  BY <1>1 DEF Consistent, Ordered, Known, Counted

\* An ACK, or the third failure: the timer is cleared, the gate opened, and the
\* count of failures and of transmissions starts again.
Settled(x) == [[ClearAckTimer(x) EXCEPT !.failed = 0] EXCEPT !.clearToSend = TRUE]

\* A settled queue is consistent, with no transmission counted.
LEMMA SettledTelegrams ==
    ASSUME NEW last \in Int, NEW t \in Nat, NEW w \in Nat,
           NEW x, Consistent(x, last, t, w)
    PROVE  Consistent(Settled(x), last, 0, w) /\ Settled(x).loop = x.loop
<1> DEFINE c == [ClearAckTimer(x) EXCEPT !.failed = 0]
           y == Settled(x)
<1>1. x \in Queues(Packets) /\ ~x.exitLoop /\ x.socketReady /\ 0 \in 0 .. MaxFailedACK
  BY DEF Consistent, MaxFailedACK
<1>2. /\ ClearAckTimer(x) \in Queues(Packets)
      /\ ClearAckTimer(x).commandQueue = x.commandQueue
      /\ ClearAckTimer(x).ackTimer = NoPacket /\ ClearAckTimer(x).loop = x.loop
      /\ ~ClearAckTimer(x).exitLoop /\ ClearAckTimer(x).socketReady
  BY <1>1 DEF ClearAckTimer, Queues
<1>3. /\ y \in Queues(Packets) /\ y.commandQueue = x.commandQueue
      /\ y.ackTimer = NoPacket /\ y.failed = 0 /\ y.loop = x.loop
      /\ ~y.exitLoop /\ y.socketReady /\ y.clearToSend
  <2>1. /\ c \in Queues(Packets) /\ c.commandQueue = x.commandQueue
        /\ c.ackTimer = NoPacket /\ c.failed = 0 /\ c.loop = x.loop
        /\ ~c.exitLoop /\ c.socketReady
    BY <1>1, <1>2 DEF Queues
  <2> QED
    BY <2>1 DEF Settled, Queues
<1>4. Waits(y, last) <=> Waits(x, last)
  BY <1>3 DEF Waits
<1>5. Ordered(y, last)
  BY <1>3, <1>4 DEF Consistent, Ordered
<1>6. Known(y, w) /\ Counted(y, last, 0) /\ Owned(y)
  BY <1>3 DEF Consistent, Known, Counted, Owned
<1> QED
  BY <1>3, <1>5, <1>6 DEF Consistent

----------------------------------------------------------------------------
\* The rest of the state: the history of what was counted and emitted.
History ==
    /\ written \in 0 .. MaxWrites
    /\ chatter \in 0 .. MaxPriority
    /\ lastSent \in -1 .. MaxWrites - 1 /\ lastSent < written
    /\ tries \in Nat
    /\ onWire \subseteq Telegrams
    /\ reported \subseteq Telegrams
    /\ dropped \in 0 .. MaxWrites

\* IInv in the shape in which the lemmas above use and restore it.
LEMMA InvParts ==
    IInv <=> Consistent(q, lastSent, tries, written) /\ Awake(q) /\ History
BY DEF IInv, TypeOK, NoLostWakeup, GateOwned, Consistent, History

\* A client that has just connected satisfies the inductive invariant.
LEMMA InitInv == Init => IInv
<1> SUFFICES ASSUME Init PROVE IInv
  OBVIOUS
<1>1. /\ q.commandQueue = << >> /\ q.clearToSend /\ ~q.exitLoop /\ q.socketReady
      /\ q.ackTimer = NoPacket /\ q.failed = 0
  BY DEF Init, EmptyQueue
<1>2. q \in Queues(Packets)
  <2>1. QueueItem(NoPacket, FALSE, -1) \in ItemsOf(Packets \cup {NoPacket})
    BY DEF QueueItem, ItemsOf
  <2>2. 0 \in 0 .. MaxFailedACK /\ << >> \in Seq(ItemsOf(Packets))
    BY DEF MaxFailedACK
  <2> QED
    BY <2>1, <2>2 DEF Init, EmptyQueue, Queues
<1>3. /\ Ordered(q, lastSent) /\ Known(q, written) /\ ~Waits(q, lastSent)
      /\ Owned(q) /\ Awake(q)
  BY <1>1 DEF Ordered, Known, Waits, Owned, Awake, Sendable
<1>4. Counted(q, lastSent, tries)
  BY <1>1, <1>3 DEF Init, Counted
<1>5. History
  BY TransmitterAssumption DEF Init, History
<1> QED
  BY <1>1, <1>2, <1>3, <1>4, <1>5, InvParts DEF Consistent

\* Every step of the transmitter keeps IInv, and no step sends an older telegram.
LEMMA NextInv == IInv /\ [Next]_vars => IInv' /\ lastSent' >= lastSent
<1> SUFFICES ASSUME IInv, [Next]_vars
             PROVE  IInv' /\ lastSent' >= lastSent
  OBVIOUS
<1> DEFINE Kept == /\ Consistent(q', lastSent', tries', written') /\ Awake(q')
                   /\ History' /\ lastSent' >= lastSent
<1>0. /\ Consistent(q, lastSent, tries, written) /\ Awake(q) /\ History
      /\ q \in Queues(Packets) /\ Sound(q, Packets)
      /\ written \in Nat /\ lastSent \in Int /\ tries \in Nat
  BY InvParts, TransmitterAssumption DEF Consistent, History, Sound
<1> SUFFICES Kept
  BY DEF IInv, TypeOK, NoLostWakeup, GateOwned, Consistent, History
<1>1. CASE Write
  <2> DEFINE item == QueueItem(Telegram(written), ~SuppressAck, SeqOf(written))
             x == [q EXCEPT !.commandQueue = Append(@, item)]
  <2>1. written \in Telegrams /\ SeqOf(written) \in Int /\ written' = written + 1
    BY <1>0, <1>1, TransmitterAssumption DEF Write, Telegrams, SeqOf
  <2>2. Consistent(x, lastSent, tries, written + 1)
    BY <1>0, <2>1, AppendTelegram DEF History
  <2>3. x.loop = q.loop /\ Become(HandleKNXQueue(x), tries)
    BY <1>0, <1>1 DEF Write, SendLast, Queues
  <2>4. /\ Consistent(q', lastSent', tries', written + 1) /\ Awake(q')
        /\ tries' \in Nat /\ lastSent' >= lastSent /\ lastSent' < written + 1
        /\ lastSent' \in -1 .. MaxWrites - 1
    <3>1. lastSent \in -1 .. MaxWrites - 1 /\ lastSent < written + 1 /\ written + 1 \in Nat
      BY <1>0 DEF History
    <3> HIDE DEF x
    <3> QED
      BY <1>0, <2>2, <2>3, <3>1, HandleStep
  <2>5. History'
    BY <1>0, <1>1, <2>1, <2>4, TransmitterAssumption DEF Write, History
  <2> QED
    BY <2>1, <2>4, <2>5
<1>2. CASE SendPriority
  <2> DEFINE item == QueueItem(Control("control"), FALSE, SeqNumber)
             x == [q EXCEPT !.commandQueue = << item >> \o @, !.clearToSend = TRUE]
  <2>1. SeqNumber \in Int /\ written' = written
    BY <1>0, <1>2, TransmitterAssumption DEF SendPriority, SeqNumber, SeqOf
  <2>2. Consistent(x, lastSent, tries, written)
    BY <1>0, <2>1, PushControl
  <2>3. x.loop = q.loop /\ Become(HandleKNXQueue(x), tries)
    BY <1>0, <1>2 DEF SendPriority, SendFirst, Queues
  <2>4. /\ Consistent(q', lastSent', tries', written) /\ Awake(q')
        /\ tries' \in Nat /\ lastSent' >= lastSent /\ lastSent' < written
        /\ lastSent' \in -1 .. MaxWrites - 1
    <3>1. lastSent \in -1 .. MaxWrites - 1 /\ lastSent < written
      BY <1>0 DEF History
    <3> HIDE DEF x
    <3> QED
      BY <1>0, <2>2, <2>3, <3>1, HandleStep
  <2>5. History'
    BY <1>0, <1>2, <2>1, <2>4, TransmitterAssumption DEF SendPriority, History
  <2> QED
    BY <2>1, <2>4, <2>5
<1>3. CASE SendDone
  <2>1. /\ q' = SendSucceeded(q) /\ tries' = tries /\ lastSent' = lastSent
        /\ written' = written
    BY <1>3 DEF SendDone, Become, Emits
  <2>2. Sound(q', Packets)
    BY <1>0, <2>1, LoopSound, NoPacketIsNone
  <2>3. Consistent(q', lastSent, tries, written)
    <3>1. /\ q'.commandQueue = q.commandQueue /\ q'.ackTimer = q.ackTimer
          /\ q'.failed = q.failed /\ ~q'.exitLoop /\ q'.socketReady
      BY <1>0, <2>1 DEF SendSucceeded, Queues, Consistent
    <3> QED
      BY <1>0, <2>2, <3>1, SameTelegrams DEF Sound
  <2>4. History'
    BY <1>0, <1>3, <2>1 DEF SendDone, History
  <2> QED
    BY <1>0, <2>1, <2>2, <2>3, <2>4 DEF Sound
<1>4. CASE SendError
  <2>1. q' = SendFailed(q) /\ q'.loop = "idle"
    BY <1>0, <1>4 DEF SendError, Become, SendFailed, Queues
  <2>2. tries' = tries /\ lastSent' = lastSent /\ written' = written
    BY <1>4, <2>1 DEF SendError, Become, Emits
  <2>3. Sound(q', Packets)
    BY <1>0, <2>1, LoopSound, NoPacketIsNone
  <2>4. Consistent(q', lastSent, tries, written)
    <3>1. /\ q'.commandQueue = << >> /\ q'.ackTimer = q.ackTimer
          /\ q'.failed = q.failed /\ ~q'.exitLoop /\ q'.socketReady
      BY <1>0, <2>1 DEF SendFailed, Queues, Consistent
    <3>2. ~Waits(q', lastSent) /\ Known(q', written)
      BY <3>1 DEF Waits, Known
    <3>3. Ordered(q', lastSent)
      BY <1>0, <3>1, <3>2 DEF Consistent, Ordered
    <3>4. Counted(q', lastSent, tries)
      <4>1. tries <= q.failed + 1
        <5>1. q.failed \in Nat /\ tries <= (IF Waits(q, lastSent) THEN q.failed
                                                                ELSE q.failed + 1)
          BY <1>0 DEF Consistent, Counted, Queues, MaxFailedACK
        <5> QED
          BY <1>0, <5>1
      <4> QED
        BY <3>1, <3>2, <4>1 DEF Counted
    <3> QED
      BY <2>3, <3>1, <3>2, <3>3, <3>4 DEF Consistent, Sound
  <2>5. History'
    BY <1>0, <1>4, <2>2 DEF SendError, History
  <2> QED
    BY <1>0, <2>2, <2>3, <2>4, <2>5 DEF Sound
<1>5. CASE Pace
  <2> DEFINE x == [q EXCEPT !.loop = "idle"]
  <2>1. /\ x \in Queues(Packets) /\ Owned(x) /\ ~x.exitLoop /\ x.socketReady
        /\ x.commandQueue = q.commandQueue /\ x.ackTimer = q.ackTimer
        /\ x.failed = q.failed /\ x.loop = "idle" /\ q.loop = "pacing"
    BY <1>0, <1>5 DEF Pace, Queues, Consistent, Owned
  <2>2. Consistent(x, lastSent, tries, written)
    BY <1>0, <2>1, SameTelegrams
  <2>3. Become(HandleKNXQueue(x), tries) /\ written' = written
    BY <1>5 DEF Pace, PacingDone
  <2>4. /\ Consistent(q', lastSent', tries', written) /\ Awake(q')
        /\ tries' \in Nat /\ lastSent' >= lastSent /\ lastSent' < written
        /\ lastSent' \in -1 .. MaxWrites - 1
    <3>1. lastSent \in -1 .. MaxWrites - 1 /\ lastSent < written
      BY <1>0 DEF History
    <3> HIDE DEF x
    <3> QED
      BY <1>0, <2>1, <2>2, <2>3, <3>1, HandleStep
  <2>5. History'
    BY <1>0, <1>5, <2>3, <2>4 DEF Pace, History
  <2> QED
    BY <2>3, <2>4, <2>5
<1>6. CASE AckTimeout
  <2>0. q.ackTimer # NoPacket /\ written' = written
    BY <1>6 DEF AckTimeout
  <2>1. lastSent \in -1 .. MaxWrites - 1 /\ lastSent < written
    BY <1>0 DEF History
  <2>2. q.ackTimer.num \in Telegrams
    <3>1. q.ackTimer \in Packets /\ q.ackTimer = Telegram(lastSent)
      BY <1>0, <2>0 DEF Queues, Consistent, Ordered
    <3> QED
      BY <3>1, TelegramPacket DEF Telegram
  <2>3. /\ Consistent(q', lastSent', tries', written) /\ Awake(q')
        /\ tries' \in Nat /\ lastSent' >= lastSent /\ lastSent' < written
        /\ lastSent' \in -1 .. MaxWrites - 1
    <3>1. CASE GivesUp(q)
      <4>1. Consistent(Settled(q), lastSent, 0, written) /\ Settled(q).loop = q.loop
        BY <1>0, SettledTelegrams
      <4>2. Become(HandleKNXQueue(Settled(q)), 0)
        BY <1>6, <3>1 DEF AckTimeout, AckTimerFires, AbortTelegram, SetClearToSend, Settled
      <4> QED
        BY <1>0, <2>1, <4>1, <4>2, HandleStep
    <3>2. CASE ~GivesUp(q)
      <4> DEFINE item == QueueItem(q.ackTimer, TRUE, q.current.expected)
                 c == [ClearAckTimer(q) EXCEPT !.failed = @ + 1]
                 x == [c EXCEPT !.commandQueue = << item >> \o @,
                                !.clearToSend = TRUE]
      <4>1. Consistent(x, lastSent, tries, written)
        BY <1>0, <2>0, <2>1, <3>2, PushRepetition
      <4>2. x.loop = q.loop
        <5>1. /\ ClearAckTimer(q).loop = q.loop
              /\ ClearAckTimer(q) \in Queues(Packets)
          BY <1>0 DEF ClearAckTimer, Queues
        <5>2. c.loop = q.loop /\ DOMAIN c = DOMAIN ClearAckTimer(q)
          BY <5>1 DEF Queues
        <5> QED
          BY <5>1, <5>2 DEF Queues
      <4>3. Become(HandleKNXQueue(x), tries)
        BY <1>6, <3>2 DEF AckTimeout, AckTimerFires, Retransmit, SendFirst
      <4> HIDE DEF x
      <4> QED
        BY <1>0, <2>1, <4>1, <4>2, <4>3, HandleStep
    <3> QED
      BY <3>1, <3>2
  <2>4. History'
    BY <1>0, <1>6, <2>0, <2>2, <2>3 DEF AckTimeout, History
  <2> QED
    BY <2>0, <2>3, <2>4
<1>7. ASSUME NEW n \in Telegrams, ReceiveAck(n)
      PROVE  Kept
  <2>0. written' = written
    BY <1>7 DEF ReceiveAck
  <2>1. lastSent \in -1 .. MaxWrites - 1 /\ lastSent < written
    BY <1>0 DEF History
  <2>2. /\ Consistent(q', lastSent', tries', written) /\ Awake(q')
        /\ tries' \in Nat /\ lastSent' >= lastSent /\ lastSent' < written
        /\ lastSent' \in -1 .. MaxWrites - 1
    <3>1. CASE SuppressAck
      <4> DEFINE x == [q EXCEPT !.clearToSend = TRUE]
      <4>1. /\ x \in Queues(Packets) /\ Owned(x) /\ ~x.exitLoop /\ x.socketReady
            /\ x.commandQueue = q.commandQueue /\ x.ackTimer = q.ackTimer
            /\ x.failed = q.failed /\ x.loop = q.loop
        BY <1>0 DEF Queues, Consistent, Owned
      <4>2. Consistent(x, lastSent, tries, written)
        BY <1>0, <4>1, SameTelegrams
      <4>3. Become(HandleKNXQueue(x), tries)
        BY <1>7, <3>1 DEF ReceiveAck, SetClearToSend
      <4> HIDE DEF x
      <4> QED
        BY <1>0, <2>1, <4>1, <4>2, <4>3, HandleStep
    <3>2. CASE ~SuppressAck
      <4>1. Consistent(Settled(q), lastSent, 0, written) /\ Settled(q).loop = q.loop
        BY <1>0, SettledTelegrams
      <4>2. Become(HandleKNXQueue(Settled(q)), 0)
        BY <1>7, <3>2 DEF ReceiveAck, AckReceived, SetClearToSend, Settled
      <4> QED
        BY <1>0, <2>1, <4>1, <4>2, HandleStep
    <3> QED
      BY <3>1, <3>2
  <2>3. History'
    BY <1>0, <1>7, <2>0, <2>2 DEF ReceiveAck, History
  <2> QED
    BY <2>0, <2>2, <2>3
<1>8. CASE UNCHANGED vars
  BY <1>0, <1>8 DEF vars, Consistent, Ordered, Known, Counted, Waits, History
<1> QED
  BY <1>1, <1>2, <1>3, <1>4, <1>5, <1>6, <1>7, <1>8 DEF Next

----------------------------------------------------------------------------
\* No telegram is skipped.

\* Since the queue was last emptied, at telegram d, everything written after the
\* last sent waits; and nothing older waits but the last sent, to be repeated.
Complete(x, last, d, w) ==
    /\ \A n \in Telegrams : last < n /\ d <= n /\ n < w => Waits(x, n)
    /\ \A i \in DOMAIN x.commandQueue :
          IsTelegram(x.commandQueue[i]) =>
              \/ x.commandQueue[i].packet.num = last
              \/ x.commandQueue[i].packet.num >= d

NothingSkipped == Complete(q, lastSent, dropped, written) /\ dropped <= written

\* The telegram that leaves a complete queue follows the last one, or is the first
\* after a failure; the rest stays complete.
LEMMA DispatchComplete ==
    ASSUME NEW x, NEW last \in Int, NEW t \in Nat, NEW w \in Nat, NEW d \in Nat,
           Consistent(x, last, t, w), Complete(x, last, d, w), Sendable(x),
           NEW n, n = Head(x.commandQueue).packet.num,
           Head(x.commandQueue).packet.kind = "telegram"
    PROVE  /\ Complete(Dispatch(x), n, d, w)
           /\ n > last + 1 => n = d
<1> DEFINE s == x.commandQueue
           y == Dispatch(x)
<1>1. s # << >> /\ s \in Seq(ItemsOf(Packets)) /\ y.commandQueue = Tail(s)
  BY DEF Consistent, Sendable, Queues, Dispatch, SetTimerWaitingForACK
<1>2. /\ n \in Telegrams /\ n \in Int /\ n < w /\ n >= last
      /\ 1 \in DOMAIN s /\ s[1].packet = Telegram(n) /\ IsTelegram(s[1])
  <2>1. n \in Telegrams /\ n < w /\ n >= last
    BY DispatchTelegram
  <2>2. 1 \in DOMAIN s /\ Head(s) = s[1] /\ s[1].packet \in Packets
    BY <1>1, TailItems, QueueItems DEF Consistent
  <2> QED
    BY <2>1, <2>2, TelegramPacket, TransmitterAssumption DEF IsTelegram, Telegrams
<1>3. \A i \in DOMAIN s : i # 1 /\ IsTelegram(s[i]) =>
         s[i].packet.num \in Nat /\ s[i].packet.num > n
  <2> SUFFICES ASSUME NEW i \in DOMAIN s, i # 1, IsTelegram(s[i])
               PROVE  s[i].packet.num \in Nat /\ s[i].packet.num > n
    OBVIOUS
  <2>1. s[i].packet.num \in Telegrams
    BY QueueItems, TelegramPacket DEF Consistent, IsTelegram
  <2>2. i \in Nat /\ 1 < i
    BY <1>1
  <2>3. s[1].packet.num = n
    BY <1>2 DEF Telegram
  <2> QED
    BY <1>2, <2>1, <2>2, <2>3, TransmitterAssumption DEF Consistent, Ordered, Telegrams
<1>4. ASSUME NEW m \in Telegrams, n < m, d <= m, m < w
      PROVE  Waits(y, m)
  <2>1. m \in Int /\ last < m
    BY <1>2, <1>4, TransmitterAssumption DEF Telegrams
  <2>2. PICK i \in DOMAIN s : s[i].packet = Telegram(m)
    BY <1>4, <2>1 DEF Complete, Waits
  <2>3. i # 1
    BY <1>2, <1>4, <2>1, <2>2 DEF Telegram
  <2>4. i - 1 \in DOMAIN Tail(s) /\ i \in Nat
    BY <1>1, <2>3, TailItems
  <2>5. Tail(s)[i - 1] = s[i]
    BY <1>1, <2>4, TailItems
  <2> QED
    BY <1>1, <2>2, <2>4, <2>5 DEF Waits
<1>5. ASSUME NEW i \in DOMAIN Tail(s), IsTelegram(Tail(s)[i])
      PROVE  Tail(s)[i].packet.num >= d
  <2>1. i \in Nat /\ i >= 1 /\ i + 1 \in DOMAIN s /\ Tail(s)[i] = s[i + 1]
    BY <1>1, TailItems
  <2>2. s[i + 1].packet.num \in Nat /\ s[i + 1].packet.num > n
    BY <1>3, <1>5, <2>1
  <2> QED
    BY <1>2, <1>5, <2>1, <2>2 DEF Complete
<1>6. ASSUME n > last + 1, n # d
      PROVE  FALSE
  <2>1. n >= d
    BY <1>2, <1>6 DEF Complete, Telegram
  <2>2. /\ n - 1 \in Telegrams /\ last < n - 1 /\ d <= n - 1 /\ n - 1 < w
    BY <1>2, <1>6, <2>1, TransmitterAssumption DEF Telegrams
  <2>3. PICK i \in DOMAIN s : s[i].packet = Telegram(n - 1)
    BY <2>2 DEF Complete, Waits
  <2>4. IsTelegram(s[i]) /\ s[i].packet.num = n - 1
    BY <2>3 DEF IsTelegram, Telegram
  <2>5. i # 1
    BY <1>2, <2>4 DEF Telegram
  <2> QED
    BY <1>2, <1>3, <2>4, <2>5
<1> QED
  BY <1>1, <1>4, <1>5, <1>6 DEF Complete

\* A packet of the client's own leaves the telegrams as they wait.
LEMMA DispatchOwn ==
    ASSUME NEW x, NEW last \in Int, NEW t \in Nat, NEW w \in Nat, NEW d \in Nat,
           Consistent(x, last, t, w), Complete(x, last, d, w), Sendable(x),
           Head(x.commandQueue).packet.kind # "telegram"
    PROVE  Complete(Dispatch(x), last, d, w)
<1> DEFINE s == x.commandQueue
           y == Dispatch(x)
<1>1. s # << >> /\ s \in Seq(ItemsOf(Packets)) /\ y.commandQueue = Tail(s)
  BY DEF Consistent, Sendable, Queues, Dispatch, SetTimerWaitingForACK
<1>2. 1 \in DOMAIN s /\ ~IsTelegram(s[1])
  BY <1>1, TailItems DEF IsTelegram
<1>3. ASSUME NEW m, Waits(x, m) PROVE Waits(y, m)
  <2>1. PICK i \in DOMAIN s : s[i].packet = Telegram(m)
    BY <1>3 DEF Waits
  <2>2. i # 1
    BY <1>2, <2>1 DEF IsTelegram, Telegram
  <2>3. i - 1 \in DOMAIN Tail(s) /\ i \in Nat
    BY <1>1, <2>2, TailItems
  <2>4. Tail(s)[i - 1] = s[i]
    BY <1>1, <2>3, TailItems
  <2> QED
    BY <1>1, <2>1, <2>3, <2>4 DEF Waits
<1>4. \A i \in DOMAIN Tail(s) : i + 1 \in DOMAIN s /\ Tail(s)[i] = s[i + 1]
  BY <1>1, TailItems
<1> HIDE DEF y
<1> QED
  BY <1>1, <1>3, <1>4 DEF Complete, y

\* One call of handleKNXQueue() on a complete queue skips nothing.
LEMMA HandleComplete ==
    ASSUME NEW x, NEW t \in Nat, NEW w \in Nat, NEW d \in Nat, lastSent \in Int,
           Consistent(x, lastSent, t, w), Complete(x, lastSent, d, w),
           x.loop = q.loop \/ (x.loop = "idle" /\ q.loop = "pacing"),
           Become(HandleKNXQueue(x), t)
    PROVE  /\ Complete(q', lastSent', d, w)
           /\ lastSent' > lastSent + 1 => lastSent' = d
<1>1. x \in Queues(Packets) /\ q' = HandleKNXQueue(x)
  BY DEF Consistent, Become
<1>2. CASE ~(x.loop = "idle" /\ Sendable(x))
  <2>1. q' = x /\ ~Emits(q, x)
    BY <1>1, <1>2 DEF HandleKNXQueue, Emits
  <2>2. lastSent' = lastSent
    BY <1>1, <2>1 DEF Become
  <2> QED
    BY <2>1, <2>2
<1>3. CASE x.loop = "idle" /\ Sendable(x)
  <2> DEFINE n == Head(x.commandQueue).packet.num
  <2>1. q' = Dispatch(x)
    BY <1>1, <1>3 DEF HandleKNXQueue
  <2>2. q'.current = Head(x.commandQueue) /\ Emits(q, q')
    BY <1>1, <1>3, <2>1 DEF Dispatch, SetTimerWaitingForACK, Queues, Emits
  <2>3. CASE Head(x.commandQueue).packet.kind = "telegram"
    <3>1. Complete(Dispatch(x), n, d, w) /\ (n > lastSent + 1 => n = d)
      BY <1>3, <2>3, DispatchComplete
    <3>2. lastSent' = n
      BY <1>1, <2>2, <2>3 DEF Become
    <3> QED
      BY <2>1, <3>1, <3>2
  <2>4. CASE Head(x.commandQueue).packet.kind # "telegram"
    <3>1. lastSent' = lastSent
      BY <1>1, <2>2, <2>4 DEF Become
    <3>2. Complete(Dispatch(x), lastSent, d, w)
      BY <1>3, <2>4, DispatchOwn
    <3> QED
      BY <2>1, <3>1, <3>2
  <2> QED
    BY <2>3, <2>4
<1> QED
  BY <1>2, <1>3

\* The items are what a queue is complete by.
LEMMA SameComplete ==
    ASSUME NEW last, NEW d, NEW w, NEW x, Complete(x, last, d, w),
           NEW y, y.commandQueue = x.commandQueue
    PROVE  Complete(y, last, d, w)
<1>1. \A n : Waits(y, n) <=> Waits(x, n)
  BY DEF Waits
<1> QED
  BY <1>1 DEF Complete

\* A packet put in front, the client's own or the last telegram again.
LEMMA PushComplete ==
    ASSUME NEW last, NEW d, NEW w, NEW x, Complete(x, last, d, w),
           x.commandQueue \in Seq(ItemsOf(Packets)),
           NEW item \in ItemsOf(Packets), IsTelegram(item) => item.packet.num = last,
           NEW y, y.commandQueue = << item >> \o x.commandQueue
    PROVE  Complete(y, last, d, w)
<1> DEFINE s == x.commandQueue
           r == << item >> \o s
<1>1. /\ y.commandQueue = r /\ 1 \in DOMAIN r /\ r[1] = item
      /\ \A i \in DOMAIN r : i \in Nat /\ (i # 1 => i - 1 \in DOMAIN s /\ r[i] = s[i - 1])
      /\ \A i \in DOMAIN s : i \in Nat /\ i + 1 \in DOMAIN r /\ r[i + 1] = s[i]
  BY FrontItems
<1> HIDE DEF r
<1>2. \A n : Waits(x, n) => Waits(y, n)
  <2> SUFFICES ASSUME NEW n, NEW i \in DOMAIN s, s[i].packet = Telegram(n)
               PROVE  \E j \in DOMAIN r : r[j].packet = Telegram(n)
    BY <1>1 DEF Waits
  <2> QED
    BY <1>1
<1> QED
  BY <1>1, <1>2 DEF Complete

\* The newest telegram goes behind.
LEMMA AppendComplete ==
    ASSUME NEW last \in Int, NEW d \in Nat, NEW w \in Telegrams, d <= w,
           NEW x, Complete(x, last, d, w),
           x.commandQueue \in Seq(ItemsOf(Packets)),
           NEW item \in ItemsOf(Packets), item.packet = Telegram(w),
           NEW y, y.commandQueue = Append(x.commandQueue, item)
    PROVE  Complete(y, last, d, w + 1)
<1> DEFINE s == x.commandQueue
           r == Append(s, item)
           k == Len(s) + 1
<1>1. /\ k \in DOMAIN r /\ r[k] = item
      /\ \A i \in DOMAIN r : i # k => i \in DOMAIN s /\ r[i] = s[i]
      /\ \A i \in DOMAIN s : i \in DOMAIN r /\ r[i] = s[i]
  BY LastItems
<1> HIDE DEF r, k
<1>2. /\ \A n : Waits(x, n) => Waits(y, n)
      /\ Waits(y, w)
  BY <1>1 DEF Waits, r
<1>3. ASSUME NEW n \in Telegrams, last < n, d <= n, n < w + 1
      PROVE  Waits(y, n)
  <2>1. n < w \/ n = w
    BY <1>3, TransmitterAssumption DEF Telegrams
  <2> QED
    BY <1>2, <1>3, <2>1 DEF Complete
<1>4. ASSUME NEW i \in DOMAIN r, IsTelegram(r[i])
      PROVE  r[i].packet.num = last \/ r[i].packet.num >= d
  BY <1>1, <1>4 DEF Complete, Telegram
<1> QED
  BY <1>3, <1>4 DEF Complete, r

\* Every step of the transmitter keeps the queue complete, and skips nothing.
LEMMA NextComplete ==
    ASSUME IInv, NothingSkipped, [Next]_vars
    PROVE  NothingSkipped' /\ (lastSent' > lastSent + 1 => lastSent' = dropped)
<1> DEFINE Kept == /\ Complete(q', lastSent', dropped', written')
                   /\ lastSent' > lastSent + 1 => lastSent' = dropped
<1>0. /\ Consistent(q, lastSent, tries, written) /\ History
      /\ q \in Queues(Packets) /\ q.commandQueue \in Seq(ItemsOf(Packets))
      /\ written \in Nat /\ lastSent \in Int /\ tries \in Nat /\ dropped \in Nat
      /\ Complete(q, lastSent, dropped, written) /\ dropped <= written
  BY InvParts, TransmitterAssumption DEF Consistent, History, NothingSkipped, Queues
<1>bound. dropped' <= written'
  <2>1. CASE Write
    BY <1>0, <2>1 DEF Write
  <2>2. CASE SendError
    BY <1>0, <2>2 DEF SendError
  <2>3. CASE dropped' = dropped /\ written' = written
    BY <1>0, <2>3
  <2>4. ASSUME NEW n \in Telegrams, ReceiveAck(n)
        PROVE  dropped' = dropped /\ written' = written
    BY <2>4 DEF ReceiveAck
  <2> QED
    BY <2>1, <2>2, <2>3, <2>4
       DEF Next, vars, SendPriority, SendDone, Pace, AckTimeout
<1> SUFFICES Kept
  BY <1>bound DEF NothingSkipped, Complete, Waits
<1>1. CASE Write
  <2> DEFINE item == QueueItem(Telegram(written), ~SuppressAck, SeqOf(written))
             x == [q EXCEPT !.commandQueue = Append(@, item)]
  <2>1. /\ written \in Telegrams /\ SeqOf(written) \in Int /\ written' = written + 1
        /\ dropped' = dropped /\ lastSent < written
    BY <1>0, <1>1, TransmitterAssumption DEF Write, Telegrams, SeqOf, History
  <2>2. item \in ItemsOf(Packets) /\ Consistent(x, lastSent, tries, written + 1)
    BY <1>0, <2>1, AppendTelegram
  <2>3. /\ x.loop = q.loop /\ Become(HandleKNXQueue(x), tries)
        /\ x.commandQueue = Append(q.commandQueue, item)
        /\ item.packet = Telegram(written)
    BY <1>0, <1>1 DEF Write, SendLast, Queues, QueueItem
  <2> HIDE DEF x, item
  <2>4. Complete(x, lastSent, dropped, written + 1)
    BY <1>0, <2>1, <2>2, <2>3, AppendComplete
  <2>5. written + 1 \in Nat
    BY <1>0
  <2> QED
    BY <1>0, <2>1, <2>2, <2>3, <2>4, <2>5, HandleComplete
<1>2. CASE SendPriority
  <2> DEFINE item == QueueItem(Control("control"), FALSE, SeqNumber)
             x == [q EXCEPT !.commandQueue = << item >> \o @, !.clearToSend = TRUE]
  <2>1. SeqNumber \in Int /\ written' = written /\ dropped' = dropped
    BY <1>0, <1>2, TransmitterAssumption DEF SendPriority, SeqNumber, SeqOf
  <2>2. item \in ItemsOf(Packets) /\ Consistent(x, lastSent, tries, written)
    BY <1>0, <2>1, PushControl
  <2>3. /\ x.loop = q.loop /\ Become(HandleKNXQueue(x), tries)
        /\ x.commandQueue = << item >> \o q.commandQueue
        /\ ~IsTelegram(item)
    BY <1>0, <1>2 DEF SendPriority, SendFirst, Queues, IsTelegram, QueueItem, Control
  <2> HIDE DEF x, item
  <2>4. Complete(x, lastSent, dropped, written)
    BY <1>0, <2>2, <2>3, PushComplete
  <2> QED
    BY <1>0, <2>1, <2>2, <2>3, <2>4, HandleComplete
<1>3. CASE SendDone
  <2>1. /\ q' = SendSucceeded(q) /\ lastSent' = lastSent
        /\ written' = written /\ dropped' = dropped
    BY <1>3 DEF SendDone, Become, Emits
  <2>2. q'.commandQueue = q.commandQueue
    BY <1>0, <2>1 DEF SendSucceeded, Queues
  <2>3. Complete(q', lastSent, dropped, written)
    BY <1>0, <2>2, SameComplete
  <2> QED
    BY <1>0, <2>1, <2>3
<1>4. CASE SendError
  <2>1. q' = SendFailed(q) /\ dropped' = written /\ written' = written
    BY <1>4 DEF SendError, Become
  <2>2. q'.commandQueue = << >> /\ lastSent' = lastSent
    BY <1>0, <1>4, <2>1 DEF SendError, Become, SendFailed, Emits, Queues
  <2>3. Complete(q', lastSent, written, written)
    BY <1>0, <2>2, TransmitterAssumption DEF Complete, Telegrams
  <2> QED
    BY <1>0, <2>1, <2>2, <2>3
<1>5. CASE Pace
  <2> DEFINE x == [q EXCEPT !.loop = "idle"]
  <2>1. /\ x \in Queues(Packets) /\ Owned(x) /\ ~x.exitLoop /\ x.socketReady
        /\ x.commandQueue = q.commandQueue /\ x.ackTimer = q.ackTimer
        /\ x.failed = q.failed /\ x.loop = "idle" /\ q.loop = "pacing"
    BY <1>0, <1>5 DEF Pace, Queues, Consistent, Owned
  <2>2. Consistent(x, lastSent, tries, written)
    BY <1>0, <2>1, SameTelegrams
  <2>3. /\ Become(HandleKNXQueue(x), tries) /\ written' = written
        /\ dropped' = dropped
    BY <1>5 DEF Pace, PacingDone
  <2> HIDE DEF x
  <2>4. Complete(x, lastSent, dropped, written)
    BY <1>0, <2>1, SameComplete
  <2> QED
    BY <1>0, <2>1, <2>2, <2>3, <2>4, HandleComplete
<1>6. ASSUME NEW y, NEW t \in Nat, Consistent(y, lastSent, t, written),
             Complete(y, lastSent, dropped, written), y.loop = q.loop,
             Become(HandleKNXQueue(y), t), written' = written, dropped' = dropped
      PROVE  Kept
  BY <1>0, <1>6, HandleComplete
<1>7. Consistent(Settled(q), lastSent, 0, written) /\ Settled(q).loop = q.loop
  BY <1>0, SettledTelegrams
<1>8. Complete(Settled(q), lastSent, dropped, written)
  <2>1. Settled(q).commandQueue = q.commandQueue
    BY DEF Settled, ClearAckTimer
  <2> QED
    BY <1>0, <2>1, SameComplete
<1>9. CASE AckTimeout
  <2>0. q.ackTimer # NoPacket /\ written' = written /\ dropped' = dropped
    BY <1>9 DEF AckTimeout
  <2>1. CASE GivesUp(q)
    <3>1. Become(HandleKNXQueue(Settled(q)), 0)
      BY <1>9, <2>1 DEF AckTimeout, AckTimerFires, AbortTelegram, SetClearToSend, Settled
    <3> QED
      BY <1>6, <1>7, <1>8, <2>0, <3>1
  <2>2. CASE ~GivesUp(q)
    <3> DEFINE item == QueueItem(q.ackTimer, TRUE, q.current.expected)
               c == [ClearAckTimer(q) EXCEPT !.failed = @ + 1]
               x == [c EXCEPT !.commandQueue = << item >> \o @,
                              !.clearToSend = TRUE]
    <3>1. Consistent(x, lastSent, tries, written)
      BY <1>0, <2>0, <2>2, PushRepetition DEF History
    <3>2. x.loop = q.loop /\ x.commandQueue = << item >> \o q.commandQueue
      <4>1. /\ ClearAckTimer(q).loop = q.loop
            /\ ClearAckTimer(q).commandQueue = q.commandQueue
            /\ ClearAckTimer(q) \in Queues(Packets)
        BY <1>0 DEF ClearAckTimer, Queues
      <4>2. /\ c.loop = q.loop /\ c.commandQueue = q.commandQueue
            /\ DOMAIN c = DOMAIN ClearAckTimer(q)
        BY <4>1 DEF Queues
      <4> QED
        BY <4>1, <4>2 DEF Queues
    <3>3. Become(HandleKNXQueue(x), tries)
      BY <1>9, <2>2 DEF AckTimeout, AckTimerFires, Retransmit, SendFirst
    <3>4. item \in ItemsOf(Packets) /\ item.packet.num = lastSent
      <4>1. /\ q.ackTimer \in Packets /\ q.ackTimer = Telegram(lastSent)
            /\ q.current.expected \in Int
        BY <1>0, <2>0 DEF Queues, ItemsOf, Consistent, Ordered
      <4> QED
        BY <4>1 DEF QueueItem, ItemsOf, Telegram
    <3> HIDE DEF x, item
    <3>5. Complete(x, lastSent, dropped, written)
      BY <1>0, <3>2, <3>4, PushComplete
    <3> QED
      BY <1>0, <1>6, <2>0, <3>1, <3>2, <3>3, <3>5
  <2> QED
    BY <2>1, <2>2
<1>10. ASSUME NEW n \in Telegrams, ReceiveAck(n)
       PROVE  Kept
  <2>0. written' = written /\ dropped' = dropped
    BY <1>10 DEF ReceiveAck
  <2>1. CASE SuppressAck
    <3> DEFINE x == [q EXCEPT !.clearToSend = TRUE]
    <3>1. /\ x \in Queues(Packets) /\ Owned(x) /\ ~x.exitLoop /\ x.socketReady
          /\ x.commandQueue = q.commandQueue /\ x.ackTimer = q.ackTimer
          /\ x.failed = q.failed /\ x.loop = q.loop
      BY <1>0 DEF Queues, Consistent, Owned
    <3>2. Consistent(x, lastSent, tries, written)
      BY <1>0, <3>1, SameTelegrams
    <3>3. Become(HandleKNXQueue(x), tries)
      BY <1>10, <2>1 DEF ReceiveAck, SetClearToSend
    <3> HIDE DEF x
    <3>4. Complete(x, lastSent, dropped, written)
      BY <1>0, <3>1, SameComplete
    <3> QED
      BY <1>0, <1>6, <2>0, <3>1, <3>2, <3>3, <3>4
  <2>2. CASE ~SuppressAck
    <3>1. Become(HandleKNXQueue(Settled(q)), 0)
      BY <1>10, <2>2 DEF ReceiveAck, AckReceived, SetClearToSend, Settled
    <3> QED
      BY <1>6, <1>7, <1>8, <2>0, <3>1
  <2> QED
    BY <2>1, <2>2
<1>11. CASE UNCHANGED vars
  BY <1>0, <1>11 DEF vars
<1> QED
  BY <1>1, <1>2, <1>3, <1>4, <1>5, <1>9, <1>10, <1>11 DEF Next

----------------------------------------------------------------------------
\* The inductive invariant holds in every reachable state of the transmitter.
THEOREM InductiveInvariant == Spec => []IInv
<1>1. IInv /\ [Next]_vars => IInv'
  BY NextInv
<1> QED
  BY InitInv, <1>1, PTL DEF Spec

\* The state of KNXClient's send path keeps its type: in particular the ACK
\* failure counter stays within what setTimerWaitingForACK allows.
THEOREM TypeCorrect == Spec => []TypeOK
<1>1. IInv => TypeOK
  BY DEF IInv
<1> QED
  BY InductiveInvariant, <1>1, PTL

\* handleKNXQueue() is never asleep in front of a packet it could send.
THEOREM NoWakeupIsLost == Spec => []NoLostWakeup
<1>1. IInv => NoLostWakeup
  BY DEF IInv
<1> QED
  BY InductiveInvariant, <1>1, PTL

\* clearToSend is false only while the ACK timer that reopens it runs.
THEOREM GateIsOwned == Spec => []GateOwned
<1>1. IInv => GateOwned
  BY DEF IInv
<1> QED
  BY InductiveInvariant, <1>1, PTL

\* A telegram without ACK is sent at most three times, once when ACKs are
\* suppressed: the counter of failures bounds the transmissions.
THEOREM RetriesAreBounded == Spec => []RetryBound
<1>1. ASSUME IInv
      PROVE  RetryBound
  <2>1. /\ q.failed \in Nat /\ q.failed <= 2 /\ tries \in Nat
        /\ SuppressAck => q.failed = 0
    BY <1>1 DEF IInv, TypeOK, Queues, MaxFailedACK, Ordered
  <2>2. tries <= q.failed + 1
    BY <1>1, <2>1 DEF IInv, Counted
  <2> QED
    BY <2>1, <2>2 DEF RetryBound, MaxFailedACK
<1> QED
  BY InductiveInvariant, <1>1, PTL

\* Telegrams leave in the order of the calls of write(): repetitions and the
\* client's own packets jump the queue, but no step sends an older telegram.
THEOREM TelegramsInOrder == Spec => SentInOrder
<1>1. IInv /\ [Next]_vars => [lastSent' >= lastSent]_vars
  BY NextInv
<1> QED
  BY InductiveInvariant, <1>1, PTL DEF Spec, SentInOrder

\* No telegram is skipped: what leaves next is the successor of the last or, when
\* a failed send has emptied the queue in between, the first one written since.
THEOREM TelegramsNotSkipped == Spec => NoneSkipped
<1>1. Init => NothingSkipped
  BY TransmitterAssumption
     DEF Init, NothingSkipped, Complete, EmptyQueue, Telegrams
<1>2. IInv /\ NothingSkipped /\ [Next]_vars
        => NothingSkipped' /\ [lastSent' > lastSent + 1 => lastSent' = dropped]_vars
  BY NextComplete
<1> QED
  BY InductiveInvariant, <1>1, <1>2, PTL DEF Spec, NoneSkipped
=============================================================================
