--------------------------- MODULE OtlpForwarder ---------------------------
(***************************************************************************)
(* The OTLP forwarder (ms_service_profiler/tracer): a socket server with a *)
(* thread per connection that puts frames in a bounded queue, a chain of   *)
(* timer threads that sends them on to a receiver, one at a time, and a    *)
(* main thread that starts both and stops them on SIGINT or SIGTERM.       *)
(*                                                                         *)
(* The scheduler's first pass runs on the main thread, inside start(); so  *)
(* does the signal handler, between two bytecodes of whatever main does.   *)
(***************************************************************************)
EXTENDS Integers, Sequences, FiniteSets, SequencesExt

CONSTANTS
    Client,     \* connections to the socket
    Frames,     \* the frames each sends: "good", "empty" or "bad" (never accepted)
    QueueSize,  \* MAX_QUEUE_SIZE
    Levels,     \* the number of retry_intervals
    MaxOutages  \* bound on how often the receiver goes away, and answers are lost

None == << "none", 0 >>
Frame == UNION { {c} \X (1 .. Len(Frames[c])) : c \in Client }
Kind(f) == Frames[f[1]][f[2]]

ASSUME FramesAssumption == Frames \in [Client -> Seq({"good", "empty", "bad"})]
ASSUME SizesAssumption == QueueSize \in Nat \ {0} /\ Levels \in Nat \ {0} /\ MaxOutages \in Nat

VARIABLES
    queue,     \* data_queue
    client,    \* each connection's thread: "read", "put", "full", "put_again" or "ended"
    read,      \* the number of frames it has read; the last is in hand unless it is in "read"
    pass,      \* the export task: "timer", "loop", "export", "retry", "clear" or "ended"
    data,      \* the frame it is sending
    waiting,   \* len(waiting_queue)
    retry,     \* current_retry_index
    onMain,    \* the pass is the first one, on the main thread
    main,      \* "pass", "mutex" (in signal_queue.get(), with its lock), "wait" or "exited"
    handler,   \* the signal handler: "none", "stop", "put" or "done"
    running,   \* Scheduler.running
    up, outages,          \* the receiver (external)
    delivered, filled, failed  \* history: what it got, whether the queue was full, an export failed

clientVars == << client, read >>
passVars == << pass, data, waiting, retry >>
mainVars == << main, handler, running >>
vars == << queue, clientVars, passVars, onMain, mainVars, up, outages, delivered, filled, failed >>

Init ==
    /\ queue = << >>
    /\ client = [c \in Client |-> "read"]
    /\ read = [c \in Client |-> 0]
    /\ pass = "loop"
    /\ data = None
    /\ waiting = 0
    /\ retry = 1
    /\ onMain = TRUE
    /\ main = "pass"
    /\ handler = "none"
    /\ running = TRUE
    /\ up \in BOOLEAN
    /\ outages = 0
    /\ delivered = {}
    /\ filled = FALSE
    /\ failed = FALSE

-----------------------------------------------------------------------------
(* A connection: _handle_recv, _handle_data and _handle_queue_full.        *)

Alive == main # "exited"
InHand(c) == << c, read[c] >>
ClientAt(c, from, to) == Alive /\ client[c] = from /\ client' = [client EXCEPT ![c] = to]
ByClient == UNCHANGED << passVars, onMain, mainVars, up, outages, delivered, failed >>

\* A whole frame is in the buffer.
ReadFrame(c) ==
    /\ read[c] < Len(Frames[c])
    /\ ClientAt(c, "read", "put")
    /\ read' = [read EXCEPT ![c] = @ + 1]
    /\ UNCHANGED << queue, filled >> /\ ByClient

Put(c) ==
    /\ IF Len(queue) < QueueSize
       THEN ClientAt(c, "put", "read") /\ queue' = Append(queue, InHand(c)) /\ UNCHANGED filled
       ELSE ClientAt(c, "put", "full") /\ filled' = TRUE /\ UNCHANGED queue
    /\ UNCHANGED read /\ ByClient

\* data_queue.get() waits while the queue is empty.
DropOldest(c) ==
    /\ queue # << >>
    /\ ClientAt(c, "full", "put_again")
    /\ queue' = Tail(queue)
    /\ UNCHANGED << read, filled >> /\ ByClient

\* If the place has been taken meanwhile, queue.Full ends _handle_recv.
PutAgain(c) ==
    /\ IF Len(queue) < QueueSize
       THEN ClientAt(c, "put_again", "read") /\ queue' = Append(queue, InHand(c))
       ELSE ClientAt(c, "put_again", "ended") /\ UNCHANGED queue
    /\ UNCHANGED << read, filled >> /\ ByClient

Store(c) == Put(c) \/ DropOldest(c) \/ PutAgain(c)

-----------------------------------------------------------------------------
(* The scheduler: _run_task and _heart_beat_connect.  Its thread does not  *)
(* move while the signal handler has the main thread it runs on.           *)

PassAt(step) == Alive /\ pass = step /\ (onMain => handler \in {"none", "done"})
ByPass == UNCHANGED << clientVars, handler, running, up, outages, filled >>

\* The end of _run_task: the next timer is started, whether or not running.
Rearm ==
    /\ pass' = "timer"
    /\ onMain' = FALSE
    /\ main' = IF onMain THEN (IF handler = "done" THEN "exited" ELSE "mutex") ELSE main

Fire ==
    /\ PassAt("timer")
    /\ pass' = IF running THEN "loop" ELSE "ended"
    /\ UNCHANGED << queue, data, waiting, retry, onMain, main, delivered, failed >> /\ ByPass

\* Mutant of GetData: the frame is taken off the queue only when it is sent.
GetDataPeeks ==
    /\ PassAt("loop")
    /\ IF waiting > 0 \/ queue = << >> \/ Kind(Head(queue)) = "empty"
       THEN Rearm /\ UNCHANGED << queue, data >>
       ELSE /\ pass' = "export" /\ data' = Head(queue) /\ queue' = Tail(queue)
            /\ UNCHANGED << onMain, main >>
    /\ UNCHANGED << waiting, retry, delivered, failed >> /\ ByPass

\* An empty frame is taken for an empty queue.
GetData ==
    /\ PassAt("loop")
    /\ IF waiting > 0 \/ queue = << >>
       THEN Rearm /\ UNCHANGED << queue, data >>
       ELSE /\ queue' = Tail(queue)
            /\ IF Kind(Head(queue)) = "empty"
               THEN Rearm /\ UNCHANGED data
               ELSE pass' = "export" /\ data' = Head(queue) /\ UNCHANGED << onMain, main >>
    /\ UNCHANGED << waiting, retry, delivered, failed >> /\ ByPass

\* export_binary_data: the receiver may get a frame whose export fails.
Deliver == delivered' = delivered \cup {data}
ExportSucceeds == up /\ Kind(data) = "good" /\ Deliver
ExportFails ==
    \/ (~ up \/ Kind(data) = "bad") /\ UNCHANGED << delivered, outages >>
    \/ up /\ Kind(data) = "good" /\ outages < MaxOutages /\ outages' = outages + 1 /\ Deliver

\* Mutant of Export: every success clears the queue.
ExportClears ==
    /\ PassAt("export")
    /\ ExportSucceeds
    /\ pass' = "loop"
    /\ data' = None
    /\ queue' = << >>
    /\ UNCHANGED << waiting, retry, onMain, main, failed >> /\ ByPass

Export ==
    /\ PassAt("export")
    /\ ExportSucceeds
    /\ pass' = "loop"
    /\ data' = None
    /\ UNCHANGED << queue, waiting, retry, onMain, main, failed >> /\ ByPass

\* waiting_queue.put("0"), and the heart beat starts with a sleep.
ExportLost ==
    /\ PassAt("export")
    /\ ExportFails
    /\ pass' = "retry"
    /\ waiting' = waiting + 1
    /\ failed' = TRUE
    /\ UNCHANGED << queue, data, retry, onMain, main, clientVars, handler, running, up, filled >>

Retry ==
    /\ PassAt("retry")
    /\ ExportSucceeds
    /\ pass' = "clear"
    /\ UNCHANGED << queue, data, waiting, retry, onMain, main, failed >> /\ ByPass

RetryLost ==
    /\ PassAt("retry")
    /\ ExportFails
    /\ retry' = IF retry < Levels THEN retry + 1 ELSE retry
    /\ UNCHANGED << queue, pass, data, waiting, onMain, main, failed, clientVars, handler, running, up, filled >>

\* Mutants of Reconnected: waiting_queue is not emptied; the frame is sent
\* again, behind those received meanwhile.
ReconnectedForgets ==
    /\ PassAt("clear")
    /\ retry' = 1 /\ queue' = << >> /\ data' = None /\ pass' = "loop"
    /\ UNCHANGED << waiting, onMain, main, delivered, failed >> /\ ByPass
ReconnectedRequeues ==
    /\ PassAt("clear")
    /\ waiting' = 0 /\ retry' = 1 /\ queue' = Append(queue, data) /\ data' = None /\ pass' = "loop"
    /\ UNCHANGED << onMain, main, delivered, failed >> /\ ByPass

\* clear_data takes no lock: get() of a connection's thread fails if it has
\* found a frame and not taken it, which ends _handle_recv.
ClearData ==
    /\ queue' = << >>
    /\ \/ UNCHANGED client
       \/ \E c \in Client :
            queue # << >> /\ client[c] = "full" /\ client' = [client EXCEPT ![c] = "ended"]

\* Reconnected: what has been received meanwhile is thrown away.
Reconnected ==
    /\ PassAt("clear")
    /\ ClearData
    /\ waiting' = 0
    /\ retry' = 1
    /\ data' = None
    /\ pass' = "loop"
    /\ UNCHANGED << read, onMain, mainVars, up, outages, delivered, filled, failed >>

PassStep == Fire \/ GetData \/ Export \/ ExportLost \/ Retry \/ RetryLost \/ Reconnected

-----------------------------------------------------------------------------
(* The service: start's wait, and _handle_signal with stop().              *)

ByMain == UNCHANGED << queue, clientVars, data, waiting, retry, onMain, up, outages, delivered, filled, failed >>

\* signal_queue.get() takes the queue's lock and waits for an item without it.
Wait ==
    /\ main = "mutex" /\ handler \in {"none", "done"}
    /\ main' = IF handler = "done" THEN "exited" ELSE "wait"
    /\ UNCHANGED << pass, handler, running >> /\ ByMain

Signal ==
    /\ Alive /\ handler = "none"
    /\ handler' = "stop"
    /\ UNCHANGED << pass, main, running >> /\ ByMain

\* Mutant of Stop: the timer's thread is joined without a time limit.
StopJoins ==
    /\ handler = "stop" /\ pass \in {"timer", "loop", "ended"}
    /\ running' = FALSE /\ pass' = "ended" /\ handler' = "put"
    /\ UNCHANGED main /\ ByMain

\* Scheduler.stop cancels a timer that has not fired and joins it for two
\* seconds; then the server's accept loop is stopped.  Connections live on.
Stop ==
    /\ handler = "stop"
    /\ running' = FALSE
    /\ pass' = IF pass = "timer" THEN "ended" ELSE pass
    /\ handler' = "put"
    /\ UNCHANGED main /\ ByMain

\* signal_queue.put("0"): never, if the thread it interrupted has the lock.
PutSignal ==
    /\ handler = "put" /\ main # "mutex"
    /\ handler' = "done"
    /\ main' = IF main = "wait" THEN "exited" ELSE main
    /\ UNCHANGED << pass, running >> /\ ByMain

MainStep == Wait \/ Stop \/ PutSignal

-----------------------------------------------------------------------------
(* The receiver (external) goes away a bounded number of times. *)
Receiver ==
    /\ Alive
    /\ \/ up /\ outages < MaxOutages /\ outages' = outages + 1 /\ up' = FALSE
       \/ ~ up /\ up' = TRUE /\ UNCHANGED outages
    /\ UNCHANGED << queue, clientVars, passVars, onMain, mainVars, delivered, filled, failed >>

Next == (\E c \in Client : ReadFrame(c) \/ Store(c)) \/ PassStep \/ MainStep \/ Signal \/ Receiver

Spec == Init /\ [][Next]_vars

\* Threads run, timers fire, and the receiver comes back; frames and signals
\* come or do not.
FairSpec ==
    /\ Spec
    /\ \A c \in Client : WF_vars(Store(c))
    /\ WF_vars(PassStep) /\ WF_vars(MainStep) /\ WF_vars(Receiver /\ up')

-----------------------------------------------------------------------------
(* Properties. *)

\* The types, and that waiting_queue holds something only while the heart beat
\* is trying: else every later pass would end at once and nothing be sent.
TypeOK ==
    /\ queue \in Seq(Frame) /\ Len(queue) <= QueueSize
    /\ client \in [Client -> {"read", "put", "full", "put_again", "ended"}]
    /\ \A c \in Client : read[c] \in 0 .. Len(Frames[c])
    /\ pass \in {"timer", "loop", "export", "retry", "clear", "ended"}
    /\ data \in Frame \cup {None}
    /\ retry \in 1 .. Levels
    /\ main \in {"pass", "mutex", "wait", "exited"}
    /\ handler \in {"none", "stop", "put", "done"}
    /\ delivered \subseteq Frame
    /\ waiting > 0 <=> pass \in {"retry", "clear"}

\* The receiver gets the frames of a connection in the order they were read:
\* none is sent, for the first time or again, once a later one has arrived.
InOrder == data # None => \A f \in delivered : f[1] = data[1] => f[2] <= data[2]

\* While no export has failed and the queue has not been full, every frame
\* read is delivered, being sent, queued or in its thread's hand: frames are
\* lost by a reconnection and by a full queue only, and empty ones.
Held(c) == IF client[c] = "read" THEN {} ELSE {InHand(c)}
NothingLost ==
    failed \/ filled \/
    \A c \in Client : \A i \in 1 .. read[c] :
        << c, i >> \in delivered \cup ToSet(queue) \cup {data} \cup Held(c)
        \/ Kind(<< c, i >>) = "empty"

\* A frame that has been put in the queue leaves it, whatever its neighbours,
\* unless a frame the receiver never accepts is being sent, or the service ends.
Blocked == pass = "retry" /\ Kind(data) = "bad"
FramesLeave ==
    \A f \in Frame : f \in ToSet(queue) ~> (f \notin ToSet(queue) \/ Blocked \/ handler # "none")

\* A signal ends the service, unless it came while the main thread was inside
\* signal_queue.get() with the lock that put() needs, or in the first pass with
\* a frame the receiver never accepts.
StopEnds ==
    handler = "stop" ~> (main = "exited" \/ (main = "mutex" /\ handler = "put") \/ (Blocked /\ onMain))
=============================================================================
