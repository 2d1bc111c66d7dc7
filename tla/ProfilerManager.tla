--------------------------- MODULE ProfilerManager ---------------------------
(***************************************************************************)
(* ServiceProfilerManager (cpp/src/ServiceProfilerManager.cpp): profiling  *)
(* is started and stopped by a worker thread, which follows the            *)
(* configuration file, the requests of StartServerProfiler and             *)
(* StopServerProfiler, and the limits.  It opens and closes the output     *)
(* file by commands in its own buffer (BufferManager, DbWriter); other     *)
(* threads record events in theirs while `enable` is set.                  *)
(*                                                                         *)
(* Left out: the collection of operators (msprof, MSPTI), the callbacks    *)
(* into Python, the metric switch, the rows the worker records itself      *)
(* (meta data, memory usage), and process exit.                            *)
(***************************************************************************)
EXTENDS DbWriter

CONSTANTS
    User,        \* threads of the application
    Main,        \* the one that makes the manager
    Worker,      \* the manager's thread
    Limited,     \* timelimit or the step number is set
    MaxEvents,   \* bound: events recorded
    MaxRequests, \* bound: calls of StartServerProfiler and StopServerProfiler
    MaxEdits     \* bound: writes of the configuration file by its owner

ASSUME WorkerAssumption ==
    /\ Thread = User \cup {Worker}
    /\ Main \in User /\ Worker \notin User
    /\ Limited \in BOOLEAN
    /\ MaxEvents \in Nat /\ MaxRequests \in Nat /\ MaxEdits \in Nat

VARIABLES
    upc,      \* upc[u]: whether u has found profiling enabled and is about to insert
    wpc,      \* the step of the worker
    ret,      \* where the worker goes when StartProfiler or StopProfiler returns
    enable,   \* config_->enable_
    started,  \* started_
    notify,   \* notifyStarted
    file,     \* "enable" in the configuration file
    changed,  \* the file's st_mtime differs from lastUpdate_
    events, requests, edits, \* so far
    \* history, read by no action of the code:
    newest,   \* the number of the command inserted last
    asked,    \* the request the worker has not answered
    crossed   \* it was made while the worker did the contrary

control == << enable, started, notify >>
config == << file, changed >>
bounds == << events, requests, edits >>
request == << asked, crossed >>
vars == << managerVars, writerVars, upc, wpc, ret, control, config, bounds, newest, request >>

\* After the constructor and the first lines of ThreadFunction: the constructor has started
\* profiling on the main thread if the file says so and it could make the directory; the worker
\* has made its writer.
Init ==
    \E inFile \in BOOLEAN, on \in BOOLEAN :
        /\ on => inFile
        /\ life = [t \in Thread |-> IF t = Worker \/ (on /\ t = Main) THEN "alive" ELSE "none"]
        /\ queue = [t \in Thread |-> IF on /\ t = Main THEN << Start(1) >> ELSE << >>]
        /\ working = IF on THEN << Main, Worker >> ELSE << Worker >>
        /\ disabled = {}
        /\ dpc = "sleep" /\ works = << >> /\ disables = {} /\ pos = 0 /\ unused = {}
        /\ batch = << >>
        /\ open = FALSE /\ latest = 0
        /\ upc = [u \in User |-> "idle"]
        /\ wpc = "sleep" /\ ret = "sleep"
        /\ enable = on /\ started = on /\ notify = on
        /\ file = inFile /\ changed = TRUE
        /\ events = 0 /\ requests = 0 /\ edits = 0
        /\ newest = IF on THEN 1 ELSE 0
        /\ asked = "none" /\ crossed = FALSE

-----------------------------------------------------------------------------
(* The application.                                                        *)

\* IsEnable, read some time before the event is inserted.
FindEnabled(u) ==
    /\ upc[u] = "idle" /\ life[u] # "ended"
    /\ enable
    /\ events < MaxEvents
    /\ events' = events + 1
    /\ upc' = [upc EXCEPT ![u] = "insert"]
    /\ UNCHANGED << managerVars, writerVars, wpc, ret, control, config, requests, edits, newest,
                    request >>

MakeWriter(u) ==
    /\ upc[u] = "insert"
    /\ Register(u)
    /\ UNCHANGED << writerVars, upc, wpc, ret, control, config, bounds, newest, request >>

RecordEvent(u) ==
    /\ upc[u] = "insert"
    /\ Insert(u, Event)
    /\ upc' = [upc EXCEPT ![u] = "idle"]
    /\ UNCHANGED << writerVars, wpc, ret, control, config, bounds, newest, request >>

EndThread(u) ==
    /\ upc[u] = "idle"
    /\ Unregister(u)
    /\ UNCHANGED << writerVars, upc, wpc, ret, control, config, bounds, newest, request >>

\* The worker has decided to stop or to start, and has still to write notifyStarted.
Stopping == wpc \in { "stop", "insert_stop", "stopped" }
Starting == wpc \in { "start", "enable", "started" }

NotifyStartProfiler ==
    /\ requests < MaxRequests
    /\ requests' = requests + 1
    /\ notify' = TRUE
    /\ asked' = IF started /\ ~Stopping THEN "none" ELSE "start"
    /\ crossed' = Stopping
    /\ UNCHANGED << managerVars, writerVars, upc, wpc, ret, enable, started, config, events, edits,
                    newest >>

NotifyStopProfiler ==
    /\ requests < MaxRequests
    /\ requests' = requests + 1
    /\ notify' = FALSE
    /\ asked' = IF ~started /\ ~Starting THEN "none" ELSE "stop"
    /\ crossed' = Starting
    /\ UNCHANGED << managerVars, writerVars, upc, wpc, ret, enable, started, config, events, edits,
                    newest >>

\* Whoever owns the configuration file writes it.  st_mtime counts seconds: a second write in the
\* second of the one the worker has seen is not a change.
WriteConfig(on) ==
    /\ edits < MaxEdits
    /\ edits' = edits + 1
    /\ file' = on
    /\ changed' \in {TRUE, changed}
    /\ UNCHANGED << managerVars, writerVars, upc, wpc, ret, control, events, requests, newest,
                    request >>

Application ==
    \/ \E u \in User : FindEnabled(u) \/ MakeWriter(u) \/ RecordEvent(u) \/ EndThread(u)
    \/ NotifyStartProfiler
    \/ NotifyStopProfiler
    \/ \E on \in BOOLEAN : WriteConfig(on)

-----------------------------------------------------------------------------
(* StartProfiler and StopProfiler, on the worker thread.                   *)

\* The worker has done what `what` asks for; the contrary request remains.
Answer(what) ==
    /\ asked' = IF asked = what THEN "none" ELSE asked
    /\ UNCHANGED crossed

\* MakeDirs fails: a request to start stays in notify, and the worker tries again.
StartProfilerFails ==
    /\ wpc = "start"
    /\ enable' = FALSE
    /\ wpc' = ret
    /\ Answer("stop")
    /\ UNCHANGED << managerVars, writerVars, upc, ret, started, notify, config, bounds, newest >>

StartProfiler ==
    /\ wpc = "start"
    /\ Insert(Worker, Start(newest + 1))
    /\ newest' = newest + 1
    /\ wpc' = "enable"
    /\ UNCHANGED << writerVars, upc, ret, control, config, bounds, request >>

SetEnable ==
    /\ wpc = "enable"
    /\ enable' = TRUE
    /\ wpc' = "started"
    /\ UNCHANGED << managerVars, writerVars, upc, ret, started, notify, config, bounds, newest,
                    request >>

\* started_, then notifyStarted: a request made since is overwritten.
StartDone ==
    /\ wpc = "started"
    /\ started' = TRUE
    /\ notify' = TRUE
    /\ Answer("start")
    /\ wpc' = ret
    /\ UNCHANGED << managerVars, writerVars, upc, ret, enable, config, bounds, newest >>

StopProfiler ==
    /\ wpc = "stop"
    /\ enable' = FALSE
    /\ wpc' = "insert_stop"
    /\ UNCHANGED << managerVars, writerVars, upc, ret, started, notify, config, bounds, newest,
                    request >>

InsertStop ==
    /\ wpc = "insert_stop"
    /\ Insert(Worker, Stop(newest + 1))
    /\ newest' = newest + 1
    /\ wpc' = "stopped"
    /\ UNCHANGED << writerVars, upc, ret, control, config, bounds, request >>

\* Mutant of StopDone: notifyStarted keeps the request of before.
StopDoneKeeps ==
    /\ wpc = "stopped"
    /\ started' = FALSE
    /\ Answer("stop")
    /\ wpc' = ret
    /\ UNCHANGED << managerVars, writerVars, upc, ret, enable, notify, config, bounds, newest >>

StopDone ==
    /\ wpc = "stopped"
    /\ started' = FALSE
    /\ notify' = FALSE
    /\ Answer("stop")
    /\ wpc' = ret
    /\ UNCHANGED << managerVars, writerVars, upc, ret, enable, config, bounds, newest >>

-----------------------------------------------------------------------------
(* A turn of ThreadFunction: the file, the requests, the limits.           *)

\* DynamicControl: the file is read only when it has changed.
StatConfig ==
    /\ wpc = "sleep"
    /\ wpc' = IF changed THEN "read" ELSE "compare"
    /\ changed' = FALSE
    /\ UNCHANGED << managerVars, writerVars, upc, ret, control, file, bounds, newest, request >>

\* ParseConfig sets enable before StartProfiler does.
DynamicControl ==
    /\ wpc = "read"
    /\ ret' = "compare"
    /\ \/ /\ file /\ ~enable
          /\ enable' = TRUE
          /\ wpc' = IF started THEN "compare" ELSE "start"
       \/ /\ ~file /\ enable
          /\ wpc' = IF started THEN "stop" ELSE "compare"
          /\ UNCHANGED enable
       \/ /\ file = enable
          /\ wpc' = "compare"
          /\ UNCHANGED enable
    /\ UNCHANGED << managerVars, writerVars, upc, started, notify, config, bounds, newest, request >>

\* Mutant of Compare: only requests to start are answered.
CompareStart ==
    /\ wpc = "compare"
    /\ wpc' = IF notify /\ ~started THEN "start" ELSE "limits"
    /\ ret' = "limits"
    /\ UNCHANGED << managerVars, writerVars, upc, control, config, bounds, newest, request >>

Compare ==
    /\ wpc = "compare"
    /\ wpc' = IF notify = started THEN "limits" ELSE IF notify THEN "start" ELSE "stop"
    /\ ret' = "limits"
    /\ UNCHANGED << managerVars, writerVars, upc, control, config, bounds, newest, request >>

\* ProfTimerCtrl and ProfStepCtrl: when the limit is reached is up to the clock or the steps.
LimitReached ==
    /\ wpc = "limits"
    /\ Limited /\ started
    /\ wpc' = "stop"
    /\ ret' = "file"
    /\ UNCHANGED << managerVars, writerVars, upc, control, config, bounds, newest, request >>

NoLimit ==
    /\ wpc = "limits"
    /\ wpc' = "sleep"
    /\ UNCHANGED << managerVars, writerVars, upc, ret, control, config, bounds, newest, request >>

\* SetFileEnable(0) after a limit; the file may not be writable.
SetFileEnable ==
    /\ wpc = "file"
    /\ enable' = FALSE
    /\ \/ file' = FALSE /\ changed' \in {TRUE, changed}
       \/ UNCHANGED config
    /\ wpc' = "sleep"
    /\ UNCHANGED << managerVars, writerVars, upc, ret, started, notify, bounds, newest, request >>

WorkerStep ==
    \/ StartProfiler \/ StartProfilerFails \/ SetEnable \/ StartDone
    \/ StopProfiler \/ InsertStop \/ StopDone
    \/ StatConfig \/ DynamicControl \/ Compare \/ LimitReached \/ NoLimit \/ SetFileEnable

Dump ==
    /\ DumpStep
    /\ UNCHANGED << upc, wpc, ret, control, config, bounds, newest, request >>

Next == Application \/ WorkerStep \/ Dump

Spec == Init /\ [][Next]_vars

\* The two threads of the library run in loops; the application need not do anything.
FairSpec == Spec /\ WF_vars(WorkerStep) /\ WF_vars(Dump)

-----------------------------------------------------------------------------
Items ==
    [level : {"start", "stop"}, id : Nat] \cup {Event}

TypeOK ==
    /\ life \in [Thread -> { "none", "alive", "ended" }]
    /\ queue \in [Thread -> Seq(Items)]
    /\ working \in Seq(Thread) /\ disabled \subseteq Thread
    /\ dpc \in { "sleep", "pop" }
    /\ works \in Seq(Thread) /\ disables \subseteq Thread
    /\ pos \in 0 .. Len(works) /\ unused \subseteq ToSet(works)
    /\ batch \in Seq(Items)
    /\ open \in BOOLEAN /\ latest \in Nat /\ newest \in Nat
    /\ upc \in [User -> { "idle", "insert" }]
    /\ wpc \in { "sleep", "start", "enable", "started", "stop", "insert_stop",
                 "stopped", "read", "compare", "limits", "file" }
    /\ ret \in { "sleep", "compare", "limits", "file" }
    /\ enable \in BOOLEAN /\ started \in BOOLEAN /\ notify \in BOOLEAN
    /\ file \in BOOLEAN /\ changed \in BOOLEAN
    /\ events \in 0 .. MaxEvents /\ requests \in 0 .. MaxRequests /\ edits \in 0 .. MaxEdits
    /\ asked \in { "none", "start", "stop" } /\ crossed \in BOOLEAN

\* Nothing is under way between the worker and the output file.
Drained == batch = << >> /\ \A t \in Thread : queue[t] = << >>

\* Once all commands are executed, the output file is open exactly while profiling is started,
\* unless an older command was executed after the newest (StartProfiler, StopProfiler,
\* ExecutorDumpToDb).
FileFollows == (wpc = "sleep" /\ Drained /\ latest = newest) => (open <=> started)

\* "What goes through a DbBuffer keeps its order": once all commands are executed, the output
\* file is open exactly while profiling is started (ExecutorDumpToDb).
FileAlwaysFollows == (wpc = "sleep" /\ Drained) => (open <=> started)

\* The worker starts profiling by notifyStarted only when StartServerProfiler was called after
\* profiling last stopped: a stop by the file or a limit is not undone (ThreadFunction).
StartsAsked == [][(wpc = "compare" /\ wpc' = "start") => asked = "start"]_vars

\* The worker answers every request that did not cross the contrary one: it
\* stops, and it starts or at least sets out to (ThreadFunction, MakeDirs).  One
\* that is made while the worker is stopping or starting (crossed) may be
\* overwritten when that ends (StartProfiler, StopProfiler), and wait for ever.
RequestsAnswered ==
    /\ (asked = "stop" /\ ~crossed) ~> (asked # "stop")
    /\ (asked = "start" /\ ~crossed) ~> (asked # "start" \/ wpc = "start")

\* What a thread has recorded is executed, even if the thread has ended.
EventsExecuted == \A t \in Thread : (queue[t] # << >>) ~> (queue[t] = << >> /\ batch = << >>)

\* "When it differs from started_, the worker starts or stops": notifyStarted
\* holds the last request until it is answered (StartProfiler, StopProfiler).
LastRequestWins == asked # "none" => (notify <=> asked = "start")
=============================================================================
