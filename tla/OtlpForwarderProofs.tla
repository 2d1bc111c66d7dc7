-------------------------- MODULE OtlpForwarderProofs --------------------------
(***************************************************************************)
(* Proofs about OtlpForwarder, for every set of connections, whatever      *)
(* frames they send, every queue size and every number of retry intervals: *)
(* the types (TypeOK), the order in which the receiver gets the frames of  *)
(* a connection (InOrder), and that frames are lost by a full queue and by *)
(* a reconnection only (NothingLost).                                      *)
(*                                                                         *)
(* The receiver, the frame being sent, the queue and the frame in the      *)
(* hand of a connection's thread hold the frames of that connection in     *)
(* rising order (Ordered, Behind): no step puts one in front of another.   *)
(***************************************************************************)
EXTENDS OtlpForwarder, SequenceTheorems, TLAPS

Sending == pass \in {"export", "retry", "clear"}
Queued == 1 .. Len(queue)

\* The types TypeOK leaves open, and what the steps of the pass know.
Parts ==
    /\ waiting \in Nat
    /\ read \in [Client -> Nat]
    /\ IF Sending THEN data \in Frame ELSE data = None
    /\ \A c \in Client : client[c] # "read" => read[c] > 0

\* f is later than every g of the same connection.
Later(f, g) == f[1] = g[1] => g[2] < f[2]
Ordered ==
    /\ \A j, k \in Queued : j < k => Later(queue[k], queue[j])
    /\ \A k \in Queued : \A f \in delivered : Later(queue[k], f)
    /\ Sending => \A k \in Queued : Later(queue[k], data)
    /\ Sending => \A f \in delivered : f[1] = data[1] => f[2] <= data[2]

\* f is behind what its connection's thread has in hand.
Behind(f) ==
    /\ f[2] <= read[f[1]]
    /\ client[f[1]] \in {"put", "full", "put_again"} => f[2] < read[f[1]]
AllBehind ==
    /\ \A k \in Queued : Behind(queue[k])
    /\ \A f \in delivered : Behind(f)
    /\ Sending => Behind(data)

\* A thread that found the queue full, and a pass that lost an answer.
Blamed ==
    /\ \A c \in Client : client[c] \in {"full", "put_again", "ended"} => filled
    /\ pass \in {"retry", "clear"} => failed

Inv == TypeOK /\ Parts /\ Ordered /\ AllBehind /\ Blamed /\ NothingLost

-----------------------------------------------------------------------------
(* Frames, and what the queue holds.                                       *)

LEMMA FrameElements ==
    /\ \A c \in Client : Len(Frames[c]) \in Nat
    /\ \A c \in Client : \A i \in 1 .. Len(Frames[c]) : << c, i >> \in Frame
    /\ \A f \in Frame : /\ f[1] \in Client /\ f[2] \in 1 .. Len(Frames[f[1]])
                        /\ f[2] \in Nat /\ f = << f[1], f[2] >>
    /\ None \notin Frame
<1>1. \A c \in Client : Len(Frames[c]) \in Nat
  BY FramesAssumption, LenProperties
<1>2. \A c \in Client : \A i \in 1 .. Len(Frames[c]) : << c, i >> \in Frame
  BY DEF Frame
<1>3. ASSUME NEW f \in Frame
      PROVE  /\ f[1] \in Client /\ f[2] \in 1 .. Len(Frames[f[1]])
             /\ f[2] \in Nat /\ f = << f[1], f[2] >>
  <2>1. PICK c \in Client : f \in {c} \X (1 .. Len(Frames[c]))
    BY DEF Frame
  <2> QED BY <2>1, <1>1
<1>4. None[2] = 0
  BY DEF None
<1> QED BY <1>1, <1>2, <1>3, <1>4

LEMMA QueueElements ==
    ASSUME TypeOK
    PROVE  /\ Len(queue) \in Nat /\ DOMAIN queue = Queued
           /\ \A k \in Queued : queue[k] \in Frame
           /\ ToSet(queue) = { queue[k] : k \in Queued }
<1>1. queue \in Seq(Frame)
  BY DEF TypeOK
<1>2. Len(queue) \in Nat /\ DOMAIN queue = Queued
  BY <1>1, LenProperties DEF Queued
<1>3. \A k \in Queued : queue[k] \in Frame
  BY <1>1, ElementOfSeq DEF Queued
<1> QED BY <1>2, <1>3 DEF ToSet

\* The frame in the hand of a thread.
LEMMA HandFrame ==
    ASSUME Inv, NEW c \in Client, client[c] # "read" PROVE InHand(c) \in Frame
<1>1. read[c] \in 1 .. Len(Frames[c])
  BY FrameElements DEF Inv, TypeOK, Parts
<1> QED BY <1>1, FrameElements DEF InHand

\* The queue without its head.
LEMMA Taken ==
    ASSUME Inv, queue # << >>, queue' = Tail(queue)
    PROVE  /\ queue' \in Seq(Frame) /\ Len(queue') = Len(queue) - 1
           /\ Len(queue) \in Nat /\ 1 \in Queued
           /\ Head(queue) = queue[1] /\ Head(queue) \in Frame
           /\ \A k \in Queued' : k + 1 \in Queued /\ queue'[k] = queue[k + 1]
           /\ ToSet(queue) \subseteq ToSet(queue') \cup {Head(queue)}
<1>1. queue \in Seq(Frame) /\ Len(queue) \in Nat /\ Len(queue) # 0 /\ Head(queue) = queue[1]
  BY QueueElements, EmptySeq DEF Inv, TypeOK
<1>2. /\ queue' \in Seq(Frame) /\ Len(queue') = Len(queue) - 1 /\ Head(queue) \in Frame
      /\ \A k \in 1 .. Len(queue') : queue'[k] = queue[k + 1]
  BY <1>1, HeadTailProperties
<1>3. \A k \in Queued' : k + 1 \in Queued /\ queue'[k] = queue[k + 1]
  BY <1>1, <1>2 DEF Queued
<1>4. DOMAIN queue' = 1 .. Len(queue') /\ ToSet(queue)' = { queue'[k] : k \in DOMAIN queue' }
  BY <1>2, LenProperties DEF ToSet
<1>5. ASSUME NEW k \in Queued PROVE queue[k] \in ToSet(queue') \cup {Head(queue)}
  <2>1. CASE k = 1
    BY <2>1, <1>1
  <2>2. CASE k # 1
    <3>1. k - 1 \in 1 .. Len(queue') /\ queue'[k - 1] = queue[k]
      BY <2>2, <1>1, <1>2 DEF Queued
    <3> QED BY <3>1, <1>4
  <2> QED BY <2>1, <2>2
<1>6. 1 \in Queued
  BY <1>1 DEF Queued
<1> QED BY <1>1, <1>2, <1>3, <1>5, <1>6, QueueElements DEF Inv

\* A thread puts the frame in its hand in the queue.
PutDown(c) ==
    /\ client[c] \in {"put", "put_again"} /\ client' = [client EXCEPT ![c] = "read"]
    /\ Len(queue) < QueueSize
    /\ queue' = Append(queue, InHand(c))
    /\ UNCHANGED << read, filled >> /\ ByClient

LEMMA PutDownInv == ASSUME Inv, NEW c \in Client, PutDown(c) PROVE Inv'
<1> USE DEF ByClient, passVars
<1>1. InHand(c) \in Frame /\ InHand(c)[1] = c /\ InHand(c)[2] = read[c]
  BY HandFrame DEF PutDown, InHand
<1>2. /\ Len(queue) \in Nat /\ queue' \in Seq(Frame) /\ Len(queue') = Len(queue) + 1
      /\ \A k \in Queued : queue'[k] = queue[k]
      /\ queue'[Len(queue) + 1] = InHand(c)
  BY <1>1, QueueElements, AppendProperties DEF Inv, TypeOK, PutDown, Queued
<1>3. \A k \in Queued' : k \in Queued \/ k = Len(queue) + 1
  BY <1>2 DEF Queued
<1>4. \A k \in Queued : k # Len(queue) + 1 /\ queue[k] \in Frame /\ k < Len(queue) + 1
  BY <1>2, QueueElements DEF Queued, Inv
<1>5. TypeOK' /\ Parts'
  BY <1>2, SizesAssumption DEF Inv, TypeOK, Parts, PutDown, Sending, mainVars
<1>6. \A f : Behind(f) /\ f[1] = c => f[2] < read[c]
  BY DEF PutDown, Behind
<1>7. Ordered'
  <2>1. ASSUME NEW j \in Queued', NEW k \in Queued', j < k PROVE Later(queue[k], queue[j])'
    <3>1. CASE k \in Queued
      <4>1. j \in Queued
        BY <3>1, <2>1, <1>2 DEF Queued
      <4> QED BY <4>1, <3>1, <2>1, <1>2 DEF Inv, Ordered, Later
    <3>2. CASE k = Len(queue) + 1
      <4>1. j \in Queued /\ queue'[j] = queue[j] /\ queue'[k] = InHand(c)
        BY <3>2, <2>1, <1>2, <1>3
      <4> QED BY <4>1, <1>1, <1>6 DEF Inv, AllBehind, Later
    <3> QED BY <3>1, <3>2, <1>3
  <2>2. delivered' = delivered /\ data' = data /\ Sending' = Sending
    BY DEF PutDown, Sending
  <2>3. ASSUME NEW k \in Queued', NEW f \in delivered PROVE Later(queue'[k], f)
    <3>1. CASE k \in Queued
      BY <3>1, <1>2 DEF Inv, Ordered
    <3>2. CASE k = Len(queue) + 1
      BY <3>2, <1>1, <1>2, <1>6 DEF Inv, AllBehind, Later
    <3> QED BY <3>1, <3>2, <1>3
  <2>4. ASSUME Sending, NEW k \in Queued' PROVE Later(queue'[k], data)
    <3>1. CASE k \in Queued
      BY <2>4, <3>1, <1>2 DEF Inv, Ordered
    <3>2. CASE k = Len(queue) + 1
      BY <2>4, <3>2, <1>1, <1>2, <1>6 DEF Inv, AllBehind, Later
    <3> QED BY <3>1, <3>2, <1>3
  <2> QED BY <2>1, <2>2, <2>3, <2>4 DEF Inv, Ordered, Later
<1>8. AllBehind'
  <2>1. delivered' = delivered /\ data' = data /\ Sending' = Sending
    BY DEF PutDown, Sending
  <2>2. \A f \in Frame : Behind(f) => Behind(f)'
    BY FrameElements DEF Inv, TypeOK, Behind, PutDown
  <2>3. \A f \in Frame : f[1] = c /\ f[2] = read[c] => Behind(f)'
    BY FrameElements DEF Inv, TypeOK, Behind, PutDown
  <2>4. ASSUME NEW k \in Queued' PROVE Behind(queue[k])'
    <3>1. CASE k \in Queued
      BY <3>1, <2>2, <1>2, <1>4 DEF Inv, AllBehind, Behind
    <3>2. CASE k = Len(queue) + 1
      BY <3>2, <2>3, <1>1, <1>2 DEF Behind
    <3> QED BY <3>1, <3>2, <1>3
  <2> QED BY <2>1, <2>2, <2>4 DEF Inv, TypeOK, Parts, AllBehind, Behind
<1>9. Blamed'
  BY DEF Inv, TypeOK, Blamed, PutDown
<1>10. NothingLost'
  <2>1. ToSet(queue)' = ToSet(queue) \cup {InHand(c)}
    <3>1. DOMAIN queue' = 1 .. Len(queue) + 1 /\ DOMAIN queue = 1 .. Len(queue)
      BY <1>2, QueueElements, LenProperties DEF Inv, Queued
    <3> QED BY <3>1, <1>2, <1>3 DEF ToSet, Queued
  <2>2. \A d \in Client : Held(d) \subseteq Held(d)' \cup {InHand(c)}
    BY DEF Held, InHand, PutDown, Inv, TypeOK
  <2> QED BY <2>1, <2>2 DEF Inv, NothingLost, PutDown
<1> QED BY <1>5, <1>7, <1>8, <1>9, <1>10 DEF Inv

-----------------------------------------------------------------------------
(* The threads of the connections.                                         *)

\* A step that moves no frame.
LEMMA FramesKept ==
    ASSUME Inv, UNCHANGED << queue, read, data, delivered >>, Sending' = Sending,
           \A c \in Client : client'[c] = client[c]
    PROVE  Ordered' /\ AllBehind'
<1>1. Ordered'
  BY DEF Inv, Ordered, Later, Queued
<1>2. \A f \in Frame : Behind(f) => Behind(f)'
  BY FrameElements DEF Behind
<1> QED BY <1>1, <1>2, QueueElements DEF Inv, TypeOK, Parts, AllBehind, Behind, Queued

LEMMA ReadFrameInv == ASSUME Inv, NEW c \in Client, ReadFrame(c) PROVE Inv'
<1> USE DEF ReadFrame, ClientAt, ByClient, passVars, mainVars
<1>1. Sending' = Sending /\ Queued' = Queued
  BY DEF Sending, Queued
<1>2. read[c] + 1 \in 1 .. Len(Frames[c])
  BY FrameElements DEF Inv, TypeOK, Parts
<1>3. TypeOK' /\ Parts'
  BY <1>1, <1>2 DEF Inv, TypeOK, Parts
<1>4. Ordered'
  BY <1>1 DEF Inv, Ordered, Later
<1>5. \A f \in Frame : Behind(f) => Behind(f)'
  BY FrameElements DEF Inv, TypeOK, Parts, Behind
<1>6. AllBehind'
  BY <1>1, <1>5, QueueElements DEF Inv, TypeOK, Parts, AllBehind, Behind
<1>7. Blamed'
  BY DEF Inv, TypeOK, Blamed
<1>8. NothingLost'
  <2> SUFFICES ASSUME ~ failed, ~ filled, NEW d \in Client, NEW i \in 1 .. read'[d]
               PROVE  \/ << d, i >> \in delivered \cup ToSet(queue) \cup {data} \cup Held(d)'
                      \/ Kind(<< d, i >>) = "empty"
    BY DEF NothingLost
  <2>1. CASE i \in 1 .. read[d]
    <3>1. Held(d) \subseteq Held(d)'
      BY DEF Held, InHand, Inv, TypeOK
    <3> QED BY <2>1, <3>1 DEF Inv, NothingLost
  <2>2. CASE i \notin 1 .. read[d]
    <3>1. d = c /\ i = read'[d] /\ client'[d] = "put"
      BY <2>2 DEF Inv, TypeOK, Parts
    <3> QED BY <3>1 DEF Held, InHand
  <2> QED BY <2>1, <2>2
<1> QED BY <1>3, <1>4, <1>6, <1>7, <1>8 DEF Inv

LEMMA PutInv == ASSUME Inv, NEW c \in Client, Put(c) PROVE Inv'
<1> USE DEF Put, ClientAt
<1>1. CASE Len(queue) < QueueSize
  BY <1>1, PutDownInv DEF PutDown
<1>2. CASE ~ (Len(queue) < QueueSize)
  <2> USE <1>2 DEF ByClient, passVars, mainVars
  <2>1. Sending' = Sending /\ Queued' = Queued
    BY DEF Sending, Queued
  <2>2. TypeOK' /\ Parts'
    BY <2>1 DEF Inv, TypeOK, Parts
  <2>3. Ordered'
    BY <2>1 DEF Inv, Ordered, Later
  <2>4. \A f \in Frame : Behind(f) => Behind(f)'
    BY FrameElements DEF Inv, TypeOK, Behind
  <2>5. AllBehind'
    BY <2>1, <2>4, QueueElements DEF Inv, TypeOK, Parts, AllBehind, Behind
  <2>6. Blamed' /\ NothingLost'
    BY DEF Inv, Blamed, NothingLost
  <2> QED BY <2>2, <2>3, <2>5, <2>6 DEF Inv
<1> QED BY <1>1, <1>2

\* The queue has lost its head, whoever took it.
LEMMA TailOrdered ==
    ASSUME Inv, queue # << >>, queue' = Tail(queue), UNCHANGED << read, delivered >>,
           \A f \in Frame : Behind(f) => Behind(f)'
    PROVE  /\ \A j, k \in Queued' : j < k => Later(queue'[k], queue'[j])
           /\ \A k \in Queued' : \A f \in delivered : Later(queue'[k], f)
           /\ \A k \in Queued' : Later(queue'[k], Head(queue))
           /\ \A f \in delivered : Later(Head(queue), f)
           /\ Sending => \A k \in Queued' : Later(queue'[k], data)
           /\ \A k \in Queued' : Behind(queue[k])'
           /\ \A f \in delivered : Behind(f)'
           /\ Behind(Head(queue))
<1>1. /\ Len(queue) \in Nat /\ 1 \in Queued /\ Head(queue) = queue[1]
      /\ \A k \in Queued' : k + 1 \in Queued /\ queue'[k] = queue[k + 1]
  BY Taken
<1>2. \A k \in Queued' : k \in Nat /\ 1 < k + 1
  BY <1>1, Taken DEF Queued
<1>3. \A j, k \in Queued' : j < k => Later(queue'[k], queue'[j])
  <2> SUFFICES ASSUME NEW j \in Queued', NEW k \in Queued', j < k
               PROVE  Later(queue'[k], queue'[j])
    OBVIOUS
  <2>1. j + 1 < k + 1
    BY <1>2
  <2> QED BY <2>1, <1>1 DEF Inv, Ordered
<1>4. /\ \A k \in Queued' : \A f \in delivered : Later(queue'[k], f)
      /\ \A k \in Queued' : Later(queue'[k], Head(queue))
      /\ \A f \in delivered : Later(Head(queue), f)
      /\ Sending => \A k \in Queued' : Later(queue'[k], data)
  BY <1>1, <1>2 DEF Inv, Ordered
<1>5. ASSUME NEW k \in Queued' PROVE Behind(queue[k])'
  <2>1. queue'[k] \in Frame /\ Behind(queue'[k])
    BY <1>1, QueueElements DEF Inv, AllBehind
  <2> QED BY <2>1 DEF Behind
<1>6. \A f \in delivered : Behind(f)'
  BY DEF Inv, TypeOK, AllBehind
<1>7. Behind(Head(queue))
  BY <1>1 DEF Inv, AllBehind
<1> QED BY <1>3, <1>4, <1>5, <1>6, <1>7

LEMMA DropOldestInv == ASSUME Inv, NEW c \in Client, DropOldest(c) PROVE Inv'
<1> USE DEF DropOldest, ClientAt, ByClient, passVars, mainVars
<1>1. Sending' = Sending /\ data' = data /\ delivered' = delivered
  BY DEF Sending
<1>2. \A f \in Frame : Behind(f) => Behind(f)'
  BY FrameElements DEF Inv, TypeOK, Behind
<1>3. TypeOK' /\ Parts'
  <2>1. queue' \in Seq(Frame) /\ Len(queue') <= QueueSize
    BY Taken, SizesAssumption DEF Inv, TypeOK
  <2> QED BY <1>1, <2>1 DEF Inv, TypeOK, Parts
<1>4. Ordered'
  BY <1>1, <1>2, TailOrdered DEF Inv, Ordered, Later
<1>5. AllBehind'
  <2>1. Sending => Behind(data)'
    BY <1>1, <1>2 DEF Inv, Parts, AllBehind, Behind
  <2> QED BY <1>1, <1>2, <2>1, TailOrdered DEF AllBehind, Behind
<1>6. Blamed' /\ NothingLost'
  BY DEF Inv, TypeOK, Blamed, NothingLost
<1> QED BY <1>3, <1>4, <1>5, <1>6 DEF Inv

LEMMA PutAgainInv == ASSUME Inv, NEW c \in Client, PutAgain(c) PROVE Inv'
<1> USE DEF PutAgain, ClientAt
<1>1. CASE Len(queue) < QueueSize
  BY <1>1, PutDownInv DEF PutDown
<1>2. CASE ~ (Len(queue) < QueueSize)
  <2> USE <1>2 DEF ByClient, passVars, mainVars
  <2>1. Sending' = Sending /\ Queued' = Queued
    BY DEF Sending, Queued
  <2>2. TypeOK' /\ Parts'
    BY <2>1 DEF Inv, TypeOK, Parts
  <2>3. Ordered'
    BY <2>1 DEF Inv, Ordered, Later
  <2>4. \A f \in Frame : Behind(f) => Behind(f)'
    BY FrameElements DEF Inv, TypeOK, Behind
  <2>5. AllBehind'
    BY <2>1, <2>4, QueueElements DEF Inv, TypeOK, Parts, AllBehind, Behind
  <2>6. Blamed' /\ NothingLost'
    BY DEF Inv, TypeOK, Blamed, NothingLost
  <2> QED BY <2>2, <2>3, <2>5, <2>6 DEF Inv
<1> QED BY <1>1, <1>2

-----------------------------------------------------------------------------
(* The export task.                                                        *)

\* A step of the pass or of main that takes nothing off the queue.
LEMMA QuietInv ==
    ASSUME Inv, UNCHANGED << queue, client, read, data, delivered, filled >>, Sending' = Sending,
           TypeOK', waiting' \in Nat, failed => failed', pass' \in {"retry", "clear"} => failed'
    PROVE  Inv'
<1>1. Parts'
  BY DEF Inv, Parts
<1>2. Ordered' /\ AllBehind'
  BY FramesKept
<1>3. Blamed' /\ NothingLost'
  BY DEF Inv, Blamed, NothingLost, Held, InHand
<1> QED BY <1>1, <1>2, <1>3 DEF Inv

LEMMA FireInv == ASSUME Inv, Fire PROVE Inv'
<1> USE DEF Fire, PassAt, ByPass, clientVars
<1>1. Sending' = Sending
  BY DEF Sending
<1>2. TypeOK'
  BY DEF Inv, TypeOK
<1> QED BY <1>1, <1>2, QuietInv DEF Inv, Parts

LEMMA GetDataInv == ASSUME Inv, GetData PROVE Inv'
<1> USE DEF GetData, PassAt, Rearm, ByPass, clientVars
<1>1. pass = "loop" /\ ~ Sending /\ data = None
  BY DEF Sending, Inv, Parts
<1>2. CASE waiting > 0 \/ queue = << >>
  <2>1. Sending' = Sending
    BY <1>2, <1>1 DEF Sending
  <2>2. TypeOK'
    BY <1>2 DEF Inv, TypeOK
  <2> QED BY <1>2, <2>1, <2>2, QuietInv DEF Inv, Parts
<1>3. CASE ~ (waiting > 0 \/ queue = << >>)
  <2>1. /\ queue # << >> /\ queue' = Tail(queue) /\ UNCHANGED << waiting, delivered, failed >>
        /\ \A f \in Frame : Behind(f) => Behind(f)'
    BY <1>3 DEF Behind
  <2>2. \/ Kind(Head(queue)) = "empty" /\ pass' = "timer" /\ data' = None
        \/ pass' = "export" /\ data' = Head(queue)
    BY <1>3, <1>1
  <2>3. Head(queue) \in Frame /\ Head(queue) # None
    BY <2>1, Taken, FrameElements
  <2>4. TypeOK'
    <3>1. queue' \in Seq(Frame) /\ Len(queue') <= QueueSize
      BY <2>1, Taken, SizesAssumption DEF Inv, TypeOK
    <3>2. main' \in {"pass", "mutex", "wait", "exited"}
      BY <1>3 DEF Inv, TypeOK
    <3> QED BY <1>1, <2>1, <2>2, <2>3, <3>1, <3>2 DEF Inv, TypeOK
  <2>5. Parts'
    BY <1>1, <2>1, <2>2, <2>3 DEF Inv, Parts, Sending
  <2>6. Ordered'
    <3>1. \A f \in delivered : f[1] = Head(queue)[1] => f[2] <= Head(queue)[2]
      BY <2>1, <2>3, TailOrdered, FrameElements DEF Later, Inv, TypeOK
    <3> QED BY <2>1, <2>2, <3>1, TailOrdered DEF Ordered, Sending, Later
  <2>7. AllBehind'
    BY <2>1, <2>2, TailOrdered DEF AllBehind, Sending, Behind
  <2>8. Blamed'
    BY <2>1, <2>2 DEF Inv, Blamed
  <2>9. NothingLost'
    <3>1. ToSet(queue) \subseteq ToSet(queue)' \cup {Head(queue)}
      BY <2>1, Taken
    <3>2. \A c \in Client : Held(c)' = Held(c)
      BY DEF Held, InHand
    <3> SUFFICES ASSUME ~ failed, ~ filled, NEW c \in Client, NEW i \in 1 .. read[c]
                 PROVE  \/ << c, i >> \in delivered' \cup ToSet(queue)' \cup {data'} \cup Held(c)'
                        \/ Kind(<< c, i >>) = "empty"
      BY <2>1 DEF NothingLost
    <3>3. \/ << c, i >> \in delivered \cup ToSet(queue) \cup Held(c) \/ << c, i >> = None
          \/ Kind(<< c, i >>) = "empty"
      BY <1>1 DEF Inv, NothingLost
    <3>4. << c, i >> # None
      BY DEF None, Inv, Parts
    <3> QED BY <2>1, <2>2, <3>1, <3>2, <3>3, <3>4
  <2> QED BY <2>4, <2>5, <2>6, <2>7, <2>8, <2>9 DEF Inv
<1> QED BY <1>2, <1>3

\* What has been sent is behind all that waits.
LEMMA DeliveredKept ==
    ASSUME Inv, Sending, UNCHANGED << queue, client, read >>, delivered' \in {delivered, delivered \cup {data}}
    PROVE  /\ delivered' \subseteq Frame
           /\ \A k \in Queued' : \A f \in delivered' : Later(queue'[k], f)
           /\ \A j, k \in Queued' : j < k => Later(queue'[k], queue'[j])
           /\ \A k \in Queued' : Later(queue'[k], data)
           /\ \A f \in delivered' : f[1] = data[1] => f[2] <= data[2]
           /\ \A f \in delivered' : Behind(f)'
           /\ Behind(data) /\ \A k \in Queued' : Behind(queue[k])'
<1>1. data \in Frame /\ delivered \subseteq Frame
  BY DEF Inv, TypeOK, Parts
<1>2. Queued' = Queued /\ \A k \in Queued : queue[k] \in Frame
  BY QueueElements DEF Queued, Inv
<1>3. \A f \in Frame : Behind(f) => Behind(f)'
  BY DEF Behind
<1>4. data[2] <= data[2]
  BY <1>1, FrameElements
<1>5. \A k \in Queued' : Behind(queue[k])'
  BY <1>2, <1>3 DEF Inv, AllBehind, Behind
<1> QED BY <1>1, <1>2, <1>3, <1>4, <1>5 DEF Inv, Ordered, AllBehind

LEMMA ExportInv == ASSUME Inv, Export PROVE Inv'
<1> USE DEF Export, PassAt, ExportSucceeds, Deliver, ByPass, clientVars
<1>1. Sending /\ ~ Sending' /\ pass = "export" /\ UNCHANGED << queue, client, read >>
      /\ delivered' = delivered \cup {data}
  BY DEF Sending
<1>2. TypeOK'
  BY <1>1, DeliveredKept DEF Inv, TypeOK
<1>3. Parts'
  BY <1>1 DEF Inv, Parts
<1>4. Ordered' /\ AllBehind'
  BY <1>1, DeliveredKept DEF Ordered, AllBehind, Later
<1>5. Blamed' /\ NothingLost'
  BY <1>1 DEF Inv, Blamed, NothingLost, Held, InHand
<1> QED BY <1>2, <1>3, <1>4, <1>5 DEF Inv

\* The export task loses an answer, or gets one for a frame it goes on to keep.
LEMMA KeepsFrame ==
    ASSUME Inv, Sending, Sending', UNCHANGED << queue, client, read, data, filled >>,
           delivered' \in {delivered, delivered \cup {data}}, waiting' \in Nat,
           failed => failed', pass' \in {"retry", "clear"} => failed',
           delivered' \subseteq Frame => TypeOK'
    PROVE  Inv'
<1>1. TypeOK'
  BY DeliveredKept
<1>2. Parts'
  BY DEF Inv, Parts
<1>3. Ordered' /\ AllBehind'
  BY DeliveredKept DEF Ordered, AllBehind, Later, Behind
<1>4. Blamed' /\ NothingLost'
  BY DEF Inv, Blamed, NothingLost, Held, InHand
<1> QED BY <1>1, <1>2, <1>3, <1>4 DEF Inv

LEMMA ExportLostInv == ASSUME Inv, ExportLost PROVE Inv'
<1> USE DEF ExportLost, PassAt, ExportFails, Deliver, clientVars
<1>1. Sending /\ Sending' /\ delivered' \in {delivered, delivered \cup {data}} /\ waiting' \in Nat
  BY DEF Sending, Inv, Parts
<1>2. delivered' \subseteq Frame => TypeOK'
  BY DEF Inv, TypeOK, Parts
<1> QED BY <1>1, <1>2, KeepsFrame

LEMMA RetryInv == ASSUME Inv, Retry PROVE Inv'
<1> USE DEF Retry, PassAt, ExportSucceeds, Deliver, ByPass, clientVars
<1>1. Sending /\ Sending' /\ delivered' = delivered \cup {data} /\ waiting' \in Nat /\ failed
  BY DEF Sending, Inv, Parts, Blamed
<1>2. delivered' \subseteq Frame => TypeOK'
  BY DEF Inv, TypeOK, Parts
<1> QED BY <1>1, <1>2, KeepsFrame

LEMMA RetryLostInv == ASSUME Inv, RetryLost PROVE Inv'
<1> USE DEF RetryLost, PassAt, ExportFails, Deliver, clientVars
<1>1. Sending /\ Sending' /\ delivered' \in {delivered, delivered \cup {data}} /\ waiting' \in Nat /\ failed
  BY DEF Sending, Inv, Parts, Blamed
<1>2. delivered' \subseteq Frame => TypeOK'
  BY SizesAssumption DEF Inv, TypeOK
<1> QED BY <1>1, <1>2, KeepsFrame

\* What the queue held is thrown away, after an export has failed.
LEMMA ReconnectedInv == ASSUME Inv, Reconnected PROVE Inv'
<1> USE DEF Reconnected, PassAt
<1>1. ~ Sending' /\ Queued' = {} /\ queue' \in Seq(Frame) /\ Len(queue') = 0 /\ failed'
  BY EmptySeq DEF Sending, Queued, Inv, Blamed, ClearData
<1>2. /\ client' \in [Client -> {"read", "put", "full", "put_again", "ended"}]
      /\ \A c \in Client : client'[c] = client[c] \/ (client[c] = "full" /\ client'[c] = "ended")
  <2>1. client \in [Client -> {"read", "put", "full", "put_again", "ended"}]
    BY DEF Inv, TypeOK
  <2> QED BY <2>1 DEF ClearData
<1>3. /\ UNCHANGED << read, main, handler, delivered, filled >>
      /\ pass' = "loop" /\ waiting' = 0 /\ data' = None /\ retry' = 1
  BY DEF mainVars
<1> HIDE DEF Reconnected
<1>4. TypeOK'
  BY <1>1, <1>2, <1>3, SizesAssumption DEF Inv, TypeOK
<1>5. Parts'
  BY <1>1, <1>2, <1>3 DEF Inv, Parts
<1>6. Ordered'
  BY <1>1 DEF Ordered
<1>7. AllBehind'
  <2>1. ASSUME NEW f \in delivered PROVE Behind(f)'
    <3>1. f[1] \in Client /\ Behind(f)
      BY FrameElements DEF Inv, TypeOK, AllBehind
    <3> QED BY <1>2, <1>3, <3>1 DEF Behind
  <2> QED BY <1>1, <1>3, <2>1 DEF AllBehind
<1>8. Blamed' /\ NothingLost'
  BY <1>1, <1>2, <1>3 DEF Inv, Blamed, NothingLost
<1> QED BY <1>4, <1>5, <1>6, <1>7, <1>8 DEF Inv

-----------------------------------------------------------------------------
(* The service and the receiver.                                           *)

LEMMA ServiceInv == ASSUME Inv, MainStep \/ Signal \/ Receiver PROVE Inv'
<1> USE DEF MainStep, Wait, Stop, PutSignal, Signal, Receiver, ByMain, clientVars, passVars, mainVars
<1>1. Sending' = Sending /\ UNCHANGED << queue, client, read, data, delivered, filled, failed, waiting >>
  BY DEF Sending
<1>2. pass' \in {"retry", "clear"} => failed'
  BY DEF Inv, Blamed
<1>3. TypeOK'
  BY DEF Inv, TypeOK
<1> QED BY <1>1, <1>2, <1>3, QuietInv DEF Inv, Parts

LEMMA StutterInv == ASSUME Inv, UNCHANGED vars PROVE Inv'
<1> USE DEF vars, clientVars, passVars, mainVars
<1>1. TypeOK'
  BY DEF Inv, TypeOK
<1> QED BY <1>1, QuietInv DEF Inv, Parts, Blamed, Sending

LEMMA InitInv == ASSUME Init PROVE Inv
<1>1. Queued = {} /\ ~ Sending
  BY DEF Init, Queued, Sending
<1>2. TypeOK /\ Parts
  BY <1>1, EmptySeq, FrameElements, SizesAssumption DEF Init, TypeOK, Parts
<1>3. Ordered /\ AllBehind
  BY <1>1 DEF Init, Ordered, AllBehind
<1>4. Blamed /\ NothingLost
  BY DEF Init, Blamed, NothingLost
<1> QED BY <1>2, <1>3, <1>4 DEF Inv

LEMMA NextInv == ASSUME Inv, [Next]_vars PROVE Inv'
<1>1. ASSUME NEW c \in Client, ReadFrame(c) \/ Store(c) PROVE Inv'
  BY <1>1, ReadFrameInv, PutInv, DropOldestInv, PutAgainInv DEF Store
<1>2. CASE PassStep
  BY <1>2, FireInv, GetDataInv, ExportInv, ExportLostInv, RetryInv, RetryLostInv, ReconnectedInv DEF PassStep
<1> QED BY <1>1, <1>2, ServiceInv, StutterInv DEF Next

LEMMA Invariance == Spec => []Inv
<1> QED BY InitInv, NextInv, PTL DEF Spec

-----------------------------------------------------------------------------
(* The theorems.                                                           *)

\* Every variable keeps its type, whatever the connections send: the queue never exceeds its size,
\* and the waiting queue holds something only while the heart beat is trying.
THEOREM TypeCorrect == Spec => []TypeOK
<1>1. Inv => TypeOK
  BY DEF Inv
<1> QED BY <1>1, Invariance, PTL

\* For every number of connections and frames: no frame of a connection is sent, for the first time
\* or again, once a later one of that connection has arrived at the receiver.
THEOREM OrderCorrect == Spec => []InOrder
<1>1. Inv => InOrder
  BY DEF Inv, Parts, Ordered, InOrder
<1> QED BY <1>1, Invariance, PTL

\* For every number of connections and frames and every queue size: until an export has failed or
\* the queue has been full, every frame read that is not empty is delivered or on its way.
THEOREM LossExplained == Spec => []NothingLost
<1>1. Inv => NothingLost
  BY DEF Inv
<1> QED BY <1>1, Invariance, PTL
================================================================================
