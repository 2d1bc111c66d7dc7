# TLA+ models of MindStudio Service Profiler

MindStudio Service Profiler observes inference services: a metrics package that hooks the functions of a
running service, a C++ library that collects events into SQLite files, tools that analyse what was collected,
and a parameter optimizer. This directory holds TLA+ models of the parts whose behaviour depends on the
order in which processes, threads and signal handlers take their steps, the TLC configurations that check
them, and proofs of the most important invariants for every number of processes.

Paths below are relative to the repository root. `M/` stands for
`ms_service_metric/ms_service_metric/`, `P/` for `ms_serviceparam_optimizer/ms_serviceparam_optimizer/`.

## 1. The system

### Metric control segment — `M/utils/shm_manager.py`

*State.* A POSIX shared-memory segment (header, commanded state, timestamp of the last command, a ring of
process ids with its length and cursor) and a POSIX semaphore, each found by name. Each client has a mapping
of the segment and a handle of the semaphore, which stay valid after the names are unlinked.

*Operations.* `connect` (open or create both), `add_process` (overwrite the slot at the cursor),
`send_control_command` (state, timestamp, SIGUSR1 to every listed process, clear the dead ones),
`get_status` / `cleanup_invalid_processes`, `should_destroy`, `destroy`.

*Hard behaviour.* Any number of services and command lines use one segment; the header is written before the
creator has a semaphore; opening, creating and unlinking the two names are separate system calls; a client
may be killed anywhere, also inside the critical section; the ring overwrites live entries when it is full.

*Correct when* the semaphore excludes; a registered process stays registered; a command reaches every
registered process; commands and starting services do not wait for ever.

### Metric control watch — `M/core/config/metric_control_watch.py`, part of `M/core/symbol_handler_manager.py`

*State.* The last state and timestamp acted upon, the SIGUSR1 handler that was installed before, a lock that
keeps the handler from re-entering itself, the callbacks.

*Operations.* `start` (connect, install the handler, register, check once), `stop`, `_signal_handler`,
`_check_control_state` (read, compare, call back, remember), `SymbolHandlerManager._on_control_state_change`
and `shutdown`, which share a non-re-entrant lock.

*Hard behaviour.* Python runs the handler on the main thread between any two bytecodes of the code it
interrupts, and that code may be `start`, `shutdown` or the callback itself; state and timestamp are read in
two steps while a command writes them in two steps; equal signals coalesce; the callback may raise.

*Correct when* a process that has nothing under way is in the commanded state, never hangs in its own
handler, and is not harmed by a signal it no longer expects.

### Metric command line — `M/control/cli.py`

`on`, `off`, `restart`, `status`: one `SharedMemoryManager` for one command, then `destroy` if `off` or
`status` found nothing in use. Stateless between runs.

### Symbol handlers — `M/core/symbol_handler_manager.py`, `M/core/symbol.py`, `M/core/module/symbol_watcher.py`

*State.* The manager's symbols by path and its handlers by id, the enabled and updating flags; of each
`Symbol` its handlers, its chain and its node in it, whether the hook counts as applied or changed, whether
its module is loaded; the watcher's callbacks per module, and its lock, which is not re-entrant.

*Operations.* `_on_control_state_change` (off; on or restart: reload, stop gracefully, reconcile, apply),
roll-back to an empty registry when reconciling raises, `shutdown`; `Symbol.hook`, `unhook`, `stop`,
`stop_unlocked`; on importing threads `_on_module_loaded`.

*Hard behaviour.* Commands hold the manager's lock, imports do not: a symbol may be hooked by an importing
thread while the manager changes or stops it. A new symbol of a loaded module is imported with the lock
held. A command runs in the SIGUSR1 handler on the main thread, and may interrupt an import there, also one that
holds the watcher's lock. `shutdown` leaves the manager's lock before it stops the control watch, so that one
more command may come. Handlers marked `lock_patch` survive an off command. Any step of a reload may raise.

*Correct when* the two registries agree, no hook outlives the command that took it down, none that is
configured is missed, and a command returns.

### Hook chain — `M/core/hook/hook_chain.py`, `M/core/hook/hook_helper.py`

*State.* The linked nodes of one function, its original, the result of the last call. *Operations.* add,
remove, call. *Hard behaviour.* Calls on several threads share `_last_result`; an exception in a hook falls
back to the original, which may have run already. *Correct when* the original runs once and its result is
the caller's.

### Configuration, providers, handlers, metrics — `M/core/config/`, `M/core/handler.py`, `M/metrics/`, `M/adapters/`

Merging of default and user YAML, override and snapshot/restore, conversion of configuration entries to
handlers, wrappers of the Prometheus client, meta data of the framework. Mostly pure functions and I/O.

### C++ event buffers — `cpp/include/msServiceProfiler/DbBuffer.h`, `MultiThreadBufferManager.h`

*State.* Per thread, a ring of nodes in blocks, a head the thread owns, a tail the writer thread owns, one
atomic size; the manager's lists of working and of abandoned buffers. *Operations.* `Push`, `Pop`,
`NewBuffer`, `Register`, `Unregister`, the dump loop. *Hard behaviour.* One atomic counter is all that
orders the two threads, and the ring grows under the reader. *Correct when* events come out once, in the order
they were accepted, refused ones are returned, and a buffer is dropped only when it is empty.

### C++ writer and profiler manager — `cpp/src/ServiceProfilerDbWriter.cpp`, `cpp/src/ServiceProfilerManager.cpp`, `Config.cpp`

*State.* The open database, statements, the batch by priority level; started flags, configuration, a worker
thread, the request to start or stop. *Operations.* start and stop of profiling from the API, from a changed
configuration file and from limits; execution of a batch by level; start and stop of a file. *Hard
behaviour.* A start and a stop meeting in one batch; a second request before the worker saw the first; a
configuration file changed twice in a second. *Correct when* the last request wins, the file is open while profiling
is on, and no recorded event is dropped with its thread.

### C++ tracer, MSPTI and NPU memory — `cpp/src/Tracer.cpp`, `ServiceTracer.cpp`, `ServiceProfilerMspti.cpp`, `NpuMemoryUsage.cpp`

Spans of one thread and their serialisation; callbacks of vendor libraries.

### Task engine — `ms_service_profiler/task/`

*State.* The manager's queue; per task its state, the workers that hold a queue of it and the lists it is
gathering; the task each pool is in; per worker a queue, its place in the plan and its index in the task.

*Operations.* Of a worker: wait for `go`, `gather`, `all_gather`, `broadcast`, `send_to`, `finished_sync`,
`error_sync`. Of the manager: one message at a time, which fills a list, answers a full one, starts the next
task when every pool has arrived, spreads an error, or ends everything on a crash report.

*Hard behaviour.* Pools of different data sources meet in later tasks, in any order; a worker may be several
calls ahead of another; a worker raises while others wait in a gather or have finished; data, errors and
answers share the queues; a worker may be killed.

*Correct when* a list holds one value per worker, all of the same call; stages do not overlap; a task that
failed for one fails for all; and the run ends.

### OTLP forwarder — `ms_service_profiler/tracer/`

*State.* A bounded queue of received frames, a retry index, a queue that is non-empty while waiting for the
receiver, a timer, a queue for signals.

*Operations.* A thread per connection reads frames and stores them, dropping the oldest when the queue is
full. A pass of the scheduler exports frame by frame; when an export fails it sends the same frame again at
growing intervals, and after that succeeds throws away what has been queued. A signal stops everything.

*Hard behaviour.* Connections, passes and the signal handler interleave; dropping and storing are two steps;
the first pass and the handler run on the main thread; an export may fail whose frame has arrived.

*Correct when* frames of a connection arrive in their order, are lost only when the queue is full or the
receiver was away, do not stay in the queue, and a signal ends the service.

### Profiler patcher — `ms_service_profiler/patcher/core/`

*State.* The `HookController` (enabled, one call at a time), the `SymbolWatchFinder` (the two configurations,
the prepared and the applied hookers, auto-apply, registries by symbol and by pattern, a cache of matches),
one `MultiHandlerDynamicHooker` per symbol with its handlers and hooks; per hooked function a
`TrackableOriginalFunc` and a count of failures.

*Operations.* `enable`, `update_metrics_handlers`, `disable`; `load_handlers`,
`check_and_apply_existing_modules`, `apply_all_hooks`; on importing threads `find_spec` and
`on_symbol_module_loaded`; of a hooked function a call: reset, the hook around the original, the fallback
when the hook fails, giving the hook up after several failures.

*Hard behaviour.* Imports prepare and apply hookers without the lock while a call of the controller does the
same or takes them out; a call may hold the lock and wait for an import that waits for the lock; concurrent
calls of a hooked function share its tracker; a hook fails before or after it has called the original.

*Correct when* each configured function of a loaded module is hooked once, others are not, a call of a hooked
function gives its caller what the original did, and runs it once.

### Parameter optimizer — `ms_serviceparam_optimizer/ms_serviceparam_optimizer/optimizer/`

*State.* The scheduler's parameters, numbers and error of the current evaluation; the two processes and the
directory the benchmark writes to; the file of rows; the parameters seen; the fields that are searched, of which the
optimizer, the simulator and the benchmark each hold a copy.

*Operations.* `run` and `run_with_request_rate` (start the service, wait until it answers, run the benchmark, watch
both, read its numbers, the second also a second time at a rate fitted to the first), with retries; `save_result`
(a row, then the stop); around them the evaluation of the defaults, the swarm's candidates, and the refinement
of the best rows.

*Hard behaviour.* Services and benchmarks fail, hang or outlive a kill at any point; each way out of an attempt
stops something else; the port and the directory belong to whoever uses them; the optimizer itself may die and be started
again among what it left. State of the last evaluation is reset inside the next one, which may fail before.

*Correct when* a row's numbers are its own, nothing is left running, and the search ends, whatever hangs.

### Exporters, parsers, comparison, advisor

Transformations of recorded data into files and tables, without concurrency of their own.

### How they interact

The command line writes the segment and signals services; a service's watch reads the segment and calls the
symbol handler manager, which builds or removes symbols, whose hooks are chains around the service's
functions; hooks record values in the metrics. The C++ library is called by the service's threads: each
thread pushes to its buffer, the dump thread pops all of them and hands batches to the writer; the profiler
manager starts and stops files through the same buffers. Recorded files are read by the task engine's
workers; the tracer forwards spans that the C++ library sends over a local socket.

## 2. Plan

Modules in the order in which they are written; each row is independent of the later ones.

| # | Modules | Parts | State |
|---|---|---|---|
| 1 | `ShmManager` < `ControlWatch` < `MetricControl`, `MCMetricControl`, `MetricControlProofs` | metric control segment, watch, command line | checked and proved |
| 2 | `EventQueue`, `DbBuffer` (implements `EventQueue`), `DbBufferProofs` | C++ event buffers | checked and proved |
| 3 | `BufferManager` < `DbWriter` < `ProfilerManager`, `ProfilerManagerProofs` | C++ buffer manager, writer, profiler manager | checked and proved |
| 4 | `SymbolHandlers`, `HookCall`, `Patcher`, their MC modules, `SymbolHandlersProofs`, `PatcherProofs` (of the last two) | hook management and hooked calls of the metrics and of the profiler | checked and proved |
| 5 | `TaskManager`, `MCTaskManager`, `TaskManagerProofs` | analysis task engine | checked and proved |
| 6 | `OtlpForwarder`, `MCOtlpForwarder`, `OtlpForwarderProofs` | tracer forwarder | checked and proved |
| 7 | `Scheduler` < `Optimizer`, `MCOptimizer`, `OptimizerProofs` | parameter optimizer | checked and proved |
| 8 | operators for configuration merge and handler selection, against reference definitions | configuration | planned |

The modules of rows 4 to 7 compose nothing: they meet the others at one variable (`SymbolHandlers` details
what `ControlWatch` calls `hooks`; `HookCall` is what happens inside a function that `Patcher` or
`SymbolHandlers` has hooked).

Abstract specifications worth stating: the bounded queue a buffer implements (done); for the forwarder, a
queue that loses whole suffixes only.

Theorems worth proving: every safety property that a run checks. They are proved (section 5).

Bounds: two processes and one command line (or two) are enough to meet every pair of steps of the control
plane; two buffers and a few sessions for the writer; the later rows' bounds are with their runs in section 4.

## 3. The modules and the code

### `ShmManager`, `ControlWatch`, `MetricControl`

A *client* is a service process (`Procs`) or a run of the command line tool (`Clis`); each has one
`SharedMemoryManager`. `pc[c]` is the point its call has reached. A step of the model is one system call or
one access to shared memory that another client can tell apart: `OpenSegment`, `CreateSegment`, `InitHeader`,
`InitProcessList`, `OpenSemaphore`, `CreateSemaphore` make up `connect`; `AddProcess` and `RegisterProcess`
`add_process`; `Command`, `SetState`, `SetTimestamp`, `SignalSlot`, `CommandDone` `send_control_command`;
`CleanupInvalid` `get_status`; `ShouldDestroy`, `UnlinkSegment`, `UnlinkSemaphore` the release of resources.
What runs inside one critical section and is seen by nobody without the semaphore is one step; the state, the
timestamp and the list, which `ControlWatch` and `should_destroy` read without it, are written separately.

POSIX names and objects are kept apart: `shmName` and `semName` are what the names are bound to, `seg[c]` and
`sem[c]` what client `c` has open, so that a client may keep an object whose name has gone.

A service process is a stack of two frames. `pc[p]` is the main frame (`start`, `shutdown`), `hpc[p]` the
SIGUSR1 handler; while the handler's frame exists the main frame does not move, which is how Python runs
handlers. `sig[p]` is the pending signal; signals of the same kind coalesce. `hooks[p]` is
`SymbolHandlerManager._enabled`, which the callback sets, or fails to set. `MainHoldsLock` is the callback's
lock held by the main frame.

`guard`, `raced`, `registered`, `at`, `age`, `failed`, `skipped` and `cut` are history: no guard reads them.
A segment is in `raced` once it was opened while its creator was still initialising it, or was locked with
two different semaphores; `destroy` and `_init_header` allow both, and what the code promises about a segment
it promises for the others.

Abstracted: the byte layout and the version check (every client has the same), the moment between `shm_open`
and the zeroing of a new mapping, permission errors of `os.kill`, the reuse of pids, `register_callback`'s
immediate call, `set_control_state`. The clock moves when a command reads it, the only place it is read.

### `EventQueue`, `DbBuffer`

`EventQueue` is what a buffer promises: a queue that holds `Capacity` events, refuses an event only when it is
full or memory is short, and delivers in order. `DbBuffer` has the two threads. `Push` is `PushBegin` (the
relaxed load of the size), then `PushRefuse`, `PushAdvance` or `PushGrow` (`NewBuffer`), `PushStore` and
`PushCount` (the release); `Pop` is `PopBegin` (the size), and for each event `PopTake` (next node, move the
event out) and `PopCount` (the acquire). A node is its address, so `GetNext` has the arithmetic of the code:
the node after `n` is `n + 1` unless `n` has a link. Data and links that both threads reach are written in
steps of their own.

`Reorders` says whether the machine reorders loads. If it does, a node in `unseen` (written since the dump
thread last acquired the size) may be read as it was before, but only by the first `PopTake` of a `Pop`: the
later ones come after an acquire. Delayed *stores* of the dump thread past its acquire are not modelled.
`back` is history: the nodes behind the head, in order around the ring; the refinement mapping reads the
events from it. Left out: a push of `nullptr`, which returns at once; the test of `pHead_` for `nullptr` at
line 81, which the model shows to be unreachable (`head` is a node whenever `PushStore` is enabled); the
counters of the unit tests. A `Pop` that finds nothing changes nothing and is a stutter.

### `BufferManager`, `DbWriter`, `ProfilerManager`

Three layers of the collecting side. `BufferManager` has the threads' buffers, each the queue of `EventQueue`
(which `DbBuffer` implements; here it is never full), and the dump thread: `DumpRefresh` (the first critical
section of a pass), `DumpPop` (one buffer), `DumpFree` (the end of the pass). A buffer is named by its thread;
`life[t]` is the thread's writer object, whose constructor and destructor are `Register` and `Unregister`.
`DbWriter` gives the items a level and executes a batch at the end of the pass (`ExecutorDumpToDb`), in the same
step as `DumpFree`: nobody sees the output file in between.

`ProfilerManager` has the worker thread: `wpc` is its place in a turn of `ThreadFunction`, `StatConfig` and
`DynamicControl` the configuration file, `Compare` the requests, `LimitReached` / `NoLimit` / `SetFileEnable` the
time and step limits. `StartProfiler` and `StopProfiler` are called from the three places, so they are steps of
their own that go back to `ret`; they are cut where another thread writes what they read (`notifyStarted`) or
reads what they write (`enable`, the buffers). The application records events (`FindEnabled`, the test of
`IsEnable` some time before; `MakeWriter`; `RecordEvent`), ends threads, and calls `StartServerProfiler` and
`StopServerProfiler`. `changed` is the comparison of modification seconds: a second write in the second the worker
has seen may go unnoticed. When a limit is reached is left to chance, for the clock and the steps are
not modelled. `latest`, `newest` (numbers of commands), `asked` (the request that no stop or start has answered yet)
and `crossed` (it was made while the worker was carrying out the contrary one) are history.

Plain members that the code reads and writes on several threads without a lock (`Config::enable_`,
`threadExitFlag_`) are taken as sequentially consistent. Left out: operator collection (msprof, MSPTI), the
callbacks into Python, the metric switch, rows and everything about SQLite that may fail, the rows the worker
records itself, the master election, and process exit.

### `SymbolHandlers`

The manager's operations run one at a time under its lock; `pc` is the operation under way and `todo` the
symbols it has still to visit. `Off` and `On` are `_on_control_state_change`, `Loaded` or `LoadFails` the reload,
`StopUnlocked` one turn of `_stop_all_symbols_graceful`; `Create`, `AddHandler`, `RemoveHandler`,
`UpdateHandler` and `Reconciled` make up `_reconcile_handlers`, `HookSymbol` is one turn of `_apply_all_hooks`,
`ReconcileFails`, `Stop` and `Reset` the recovery after an exception. `Shutdown`, `Stop` and `StoppedAll` are what
`shutdown` does under the manager's lock; from there (`closing`) to `Down`, which stops the control watch and takes the
finder away, commands still come.

A thread that imports a module goes through `Find` and `Wrap` (the finder, which asks under the watcher's lock and
then wraps the loader), `Load` (the entry in `sys.modules`), `Executed` and `Notify` (the wrapped loader, which
copies the callbacks under the watcher's lock), then `OnModuleLoaded` and `Ask` for each callback, and `Imported`, without
the manager's lock. `lock` is who holds the watcher's lock over a step; watching and unwatching a module need it free
and take it inside one step. `main` is the module that the main thread imports, if it does: a command then runs over
that import, which waits (`Awake`), may find `lock` held by it, and may search a module that is still executing and
lack the target (`Finds`; the symbol is `half`).

Both kinds of thread hook a symbol in two steps, `Gather` (read the handlers, and whether there is a chain) and
`Install` (build the function, put it in place): between them the other may change the symbol. `symbol[o]` are the
fields of a `Symbol` object; an object is used again when nothing holds it. `strays` counts the hooks that no object
remembers. A handler is one configured form of a handler, so that a reload may bring another form with the same id; one
in `Broken` has a hook function that cannot be built. `met`, `stale`, `unseen` and `late` are history: symbols that two
threads were hooking or taking down together; symbols whose renewal failed; symbols whose import was over, left to the
manager or half made when they were watched or updated; a command to start that was carried out during a shutdown.

Left out: a target that cannot be imported, a command with the timestamp of the last one (it changes nothing),
`_pending_hook` (nothing reads it), callbacks for all modules, version limits, several paths that resolve to one
function, an import nested in another or begun by the main thread inside a command or a shutdown, a shutdown on
another thread than the main one, and a command that waits for the manager's lock of the frame it has interrupted
(`MetricControl` has that one).

### `HookCall`

One hooked function of the patcher and the calls of it. `pc[c]` is the place of a call: `Start`, `Reset`
(`call_with_reset`), `Decide` (hook, or given up), `Check`, `Run`, `Store` and `Read` (`TrackableOriginalFunc`),
`FailBefore` and `FailAfter` (the hook's own exception), `Except` (the wrapper's `except`), `FromFallback`
(`_handle_permanent_fallback`), and with the metric chain `EnterChain` and `Leave`; a chain whose hook has been given up
calls the original inside its own `try` (`Bare`), and once more when it has raised there. The tracker
and the count of failures are one for all calls. Calls of a sync function are threads that interleave at every
step; calls of an async one are tasks, which give way only where the hook or the original can await (`CanWait`).
`CallInit` chooses the kind of the function, whether the metric package is there, whether there is a wrap hook, and what
the original does for each call: a value, `None` or an exception. `runs`, `late` and `overlapped` are history. Left
out: `caller_filter` (a call it excludes goes the way of a hook that was given up), context managers, the
arguments, and hooks that swallow the original's exception or call it more than once.

### `Patcher`

The controller's thread is `ctl`: `Enable`, `UpdateMetrics` and `Disable` begin a call, `Load` and `Replace` are
`load_handlers` (the wait for the lock, and all that is done with it), `LookAt` one turn of
`check_and_apply_existing_modules`, `ApplyAll` and `Applied` `apply_all_hooks`. `LookAt` takes whatever is in
`sys.modules`: of a module that is still executing a pattern finds only the classes that are there by then
(`missing` are the patterns whose class is not), and its cache of matches is used up. Each module has an importing
thread: `FindSpec`, `EnterModules`, `Loaded`, `CallbackDone`. Both use the same steps for one hooker: `Prepare`,
`ReadAuto` (the test of auto-apply), `Add` (take the symbol's hooks out, note the handler), `Hook` (import the
function, hook it), `Note` (under the lock). A `MultiHandlerDynamicHooker` is `members` and `nodes` at its symbol;
`lost` counts hooks whose manager has been deleted. A pattern stands for the one hooker it makes when its module is
there. `kept`, `stale`, `met` and `unseen` are history: no guard reads them. `unseen` are the handlers for which a
module, when the controller last looked at it, was on its way to the loader or lacked the class. A handler is `kept`
from the call that dropped it without taking it out (the hooks were disabled, or only patterns went) until it is
applied again under a configuration that names it. Left out: version ranges, symbols that two patterns match, hook
functions that cannot be loaded, and the callbacks into the C++ library.

### `TaskManager`

The manager is one action, `Manage(w)`, which takes the next message of worker `w` and handles it as `start` does:
`HandleIgnored` (what was sent before an error), `HandleCrash`, or `HandleValue`, which fills the value in
(`Fill`, `Collect`) and goes on with `HandleFinished`, `HandleCollective` or `HandleError`; `HandleOutOfRange` is the
`IndexError` of a stale index. The message and all that it sends are one step, since queues are unbounded and
nobody else reads the manager's state. `mqueue[w]` holds what `w` has sent: the manager's queue keeps the order of one
sender only, because each process writes through a feeder thread of its own. A worker that is killed loses the
end of that (`Kill`).

A worker goes through `task_run`: `RecvGo`, `Collective` and `RecvCollected`, `Finish` and `RecvFinished`, and after an
exception `ErrorSync`, `IgnoreError`, `FinishAfterError`, `LeaveError`, `DieInHandler`. `gather` is
`fill_gater_data`'s deque of lists, kept by columns: `gather[t][i]` are the values of index `i` that have not been taken,
so that the first list is the heads of the columns; a new value goes to the first list without one from its
index, which is the end of its column. A value is the call it belongs to and who made it, so that lists of two calls
can be told apart. `rounds` and `raised` are history. The order in which the pools of a
finished task move on comes out of a set in the code, and is any order here (`Extended`). Left out: what the tasks
compute, `broadcast`, `send_to` and `all_gather_async` (no task uses them), the progress display,
and the parsing of the flow graph, of which the model keeps the order and the edges.

### `OtlpForwarder`

A connection's thread reads a frame (`ReadFrame`) and stores it: `Put`, and at a full queue `DropOldest` and
`PutAgain`, two calls of the queue with other threads in between. `ClearData` (within `Reconnected`) empties the
deque without the queue's lock; a `get` that has just seen a full queue then fails, and ends its connection. The
export task is `pass`: `Fire` (its timer), `GetData`, `Export` or `ExportLost`, then `Retry` or `RetryLost` at
growing intervals, `Reconnected`. The first pass runs on the main thread, inside `start`; later the main thread
waits in `signal_queue.get()`. `Signal`, `Stop` and `PutSignal` are the signal handler, which runs on the main
thread between two steps of whatever that is doing: so it does not wait for a pass that it has interrupted, and it
may find the lock of the signal queue taken by the frame below. The receiver is external: it goes away and comes
back, and may get a frame whose export fails. Left out: splitting the stream into frames (a frame is what the
splitter yields), credentials, the choice of the exporter, the socket's own errors. One signal is modelled. Frames
are finitely many: a sender that never lets the queue run empty keeps a pass busy, and if that is the first one,
`start` and its signal, for `_run_task` does not test `running`.

### `Scheduler`, `Optimizer`

`Scheduler` has the processes and one evaluation. `pc` is where the program is: `StartService` (`simulator.run`,
with the clearing of residual processes by name), `PollService` (a turn of `wait_simulate`), `StartBench`
(`benchmark.run`), `PollRun` (a turn of `monitoring_status`), `Measure` (`get_performance_index`, and in
`run_with_request_rate` the stop of the first benchmark). `LogError` is a log line known to the health checks: stop,
then the next attempt or the end; `Abort` is every other exception. `Optimizer` has what surrounds it: `Begin`
resets the evaluation, `Save` and `StopAfterSave` are `save_result`, `EvaluateDefault`, `LimitConcurrency` and
`AdoptFields` `prepare_plugin`, `EvaluateProposal`, `MappingFails`, `SkipDuplicate` and `DuplicateFails` the four
ways through `op_func`, `EndSearch`, `Refine`, `FineTune` and `Finish` the rest of `run_plugin`.

Evaluations are numbered. A service, a benchmark and a measurement carry the number of the evaluation that started
them, or 0 if that was a program that has ended since; what is measured is reduced to who measured whom, at which
rate. A `deaf` process has outlived a kill; `stray` numbers come from a deaf process or an earlier program's.
`ServiceUp`, `ServiceExits` and `BenchEnds` are external: a service binds the port if it is free and may end at any
time, a benchmark may end with or without a result, and neither has to do anything. `Die` and `StartAgain` are a
crash of the optimizer and its next start. The swarm proposes any parameters; a fitness is finite or not; of the
bounds that the default run narrows, the concurrency limit stands for all.

Left out: the kubectl engine, MindIE's configuration file and theory-guided bounds, continuing from a history
(`load_breakpoint`), the processes of one service (a service is one process here; the children of a parent that has
exited by itself, which `stop` leaves alone (`P/optimizer/interfaces/custom_process.py:368`), are not seen), the
signals of one stop (a stop is one step, and a process survives it or not), rows that
`refine_optimization_candidates` cannot read back, and `ScheduleWithMultiMachine` with `communication.py`, which
nothing instantiates (section 6).

## 4. What the runs check

The runs of `ProfilerManager` check deadlock: its two threads run for ever. The other cfgs have `CHECK_DEADLOCK
FALSE` because the models really stop: the bounds on commands, crashes, calls and pushes are used up with everyone
idle; all processes and programs are dead, shut down or at their end; everybody waits for a semaphore whose holder
was killed, a handler waits for a lock of the frame it has interrupted, a controller and an importer wait for each
other, or workers wait for one that was killed (behaviours of the code, each named by the liveness property it is
excepted from).

`TypeOK` of `SymbolHandlers`, `Patcher` and `TaskManager` is part of what their proofs show and is in no run.

| Run | Instance | Shows |
|---|---|---|
| `metric_control` | 2 processes, 1 command line, 2 slots, 2 segments, 2 commands, 1 kill | `TypeOK`, `SegmentExclusion`, `RegistrationKept`, `ListedFollow` |
| `metric_follow` | 1 process, 1 slot, 3 segments, 3 commands, the clock may tick, 1 kill | `ListedFollow` with restarts, `CommandsReturn`, `StartReturns` |
| `db_buffer` | 3 blocks of 2 nodes, pops of up to 2, 10 pushes | `TypeOK`, `RingKept`, `QueueSpec`, `EventsLeave` |
| `profiler_manager` | 1 recording thread and the worker, pops of 1, 1 request, 1 edit of the file, 1 event, limits | `TypeOK`, `NoneStranded`, `FileFollows`, `StartsAsked`, `RequestsAnswered`, `EventsExecuted` |
| `symbol_handlers` | 1 module, 2 symbols, 5 forms of 4 handlers, 3 configurations, 3 commands and a shutdown | `RegistriesAgree`, `NoneLeft`, `NoneMissed`, `CommandsReturn` |
| `hook_call` | 3 calls (symmetric), the hook is given up after 2 failures | `RunOnce`, `OwnOutcome`, `GivenUp` |
| `patcher` | 1 module, 2 handlers of one function, 1 pattern, 6 configurations, 3 calls | `NoneMissed`, `NoneLeft`, `HookedOnce`, `CallsReturn` |
| `task_manager` | 2 sources with up to 2 and 1 workers, a pipeline, 2 exporters, 2 errors, 1 kill | `AnswersMatch`, `StagesApart`, `ErrorsSpread`, `Ends` |
| `otlp_forwarder` | 2 connections with 3 and 2 frames, a queue of 2, 2 retry intervals, 1 outage, 1 signal | `TypeOK`, `InOrder`, `NothingLost`, `FramesLeave`, `StopEnds` |
| `optimizer` | 3 pairs of engine and benchmark, 2 candidates, 2 attempts, 2 polls, 2 proposals, 1 fine tuning, 1 fault, 2 programs | `RowsOwn`, `NoneLeft`, `Ends` |
| `stopped_signal`, `disable_restores` | the smallest that shows it | section 6 |

*`SegmentExclusion`*: two clients are inside the critical section of one segment only if the segment was
locked with two semaphores. *`RegistrationKept`*: a process that registered is in its slot until it has died
or as many others have registered as the list is long. *`ListedFollow`*: a listed process with nothing under way has the
commanded state, timestamp and hooks, whatever was torn, reordered, coalesced or failed before; excepted are
exactly the two situations that `missed_command.cfg` shows. *`CommandsReturn`, `StartReturns`*: commands and
`start()` end, unless the holder of their semaphore was killed or the handler waits for its own thread.

*`QueueSpec`* is the refinement: the ring is the bounded queue. It fails if an event is lost, doubled, reordered,
refused below the limit, or read before it is there. *`RingKept`*: the nodes form one ring, and the tail is as many
nodes behind the head as events wait. *`EventsLeave`*: an accepted event is delivered.

*`NoneStranded`*: a buffer with an event in it is one the dump thread will come to, and it drops only empty
buffers of ended threads. *`EventsExecuted`*: whatever is in a buffer is executed, its thread ended or not.
*`FileFollows`*: with all commands executed the output file is open exactly while profiling is started, although the
first command comes from another thread's buffer than the later ones; excepted is the swap that `swapped_commands.cfg`
shows (`latest = newest` says that the newest command was executed last). *`StartsAsked`*: the worker starts by
`notifyStarted` only for a request made after profiling last stopped, so a stop by the file or by a limit is not
undone. *`RequestsAnswered`*: no request waits for ever; a start may fail for want of a directory, and is
tried again. A stop or a start answers the request for it, and nothing else does: when the worker overwrites
`notifyStarted` the request stays. Excepted is the one that is lost so, which was made while the worker was carrying
out the contrary one (`crossed`; `lost_request.cfg`).

*`RegistriesAgree`*: the manager's two registries, changed one after the other by three procedures that may fail
half way, say the same between commands. *`NoneLeft`* (`SymbolHandlers`): no hook outlives its command, and none the
shutdown. Excepted are symbols that an import was hooking while the manager changed them (`met`), those whose hook
could not be renewed, which keeps the old one (`stale`), and, of the shutdown, the hooks that a command to start
builds again after `shutdown` has left the lock (`late`). *`NoneMissed`*: with metrics enabled every configured
function of a loaded module is hooked with all its handlers; excepted, besides `met`, is the import that left the
hook to an update which had passed it, that looked for a loader before the symbol was watched, or whose module was
half made when the symbol was (`unseen`), and the symbols that a shutdown had stopped before a late command.
*`CommandsReturn`*: a command or a shutdown returns. One that imports the target of a symbol waits for an import
under way, which calls back into symbols but never needs the manager's lock. Excepted is the command that
interrupted an import of the main thread inside the watcher's lock and needs that lock (`WaitsForItself`).

*`RunOnce`*, *`OwnOutcome`*: a hook that fails, before or after the original, is invisible to callers: the original
runs once, and its value or exception is what they get. Excepted are calls that overlap others (they share the
tracker, and may get each other's results, section 6), and the three cases that the comment at `RunOnce` names: a
hook that fails after a `None`, an original that raises where there is no wrap hook, and one that raises in a chain
whose hook has been given up. *`GivenUp`*: the failing hook goes at the limit, whoever of the concurrent calls
reaches it.

*`HookedOnce`*: an import and the controller, which both add handlers, never hook a function twice or lose a hook
unless they add to one symbol at the same time. *`NoneMissed`*, *`NoneLeft`* (`Patcher`): after `enable` and
`update_metrics_handlers`, in any order and with imports at any point, what is configured is hooked and what is
not has been taken out. The exceptions are gaps of the code, named in the comments and in section 6: among them, of
`NoneMissed`, handlers for which their module was on its way to its loader, or still executing without the class,
when the controller last looked at it.
*`CallsReturn`*: a call returns unless it and an importer wait for each other.

*`AnswersMatch`*: although all messages of a task share one list of partial lists, a collective call is answered
with one value per worker, all of that call. *`StagesApart`*: no worker is in a task while one it depends on is not
settled or has failed. *`ErrorsSpread`*: a task that raised in one worker never counts as finished, nor what
depends on it. *`Ends`*: the analysis ends, unless a worker is killed or one of three faults of the error
handling happens: `IndicesCollide`, `IndexTooLarge`, `Crashed` (section 6).

*`InOrder`*: no frame is sent once a later one of its connection has arrived. *`NothingLost`*: frames are lost
only after a failed export or a full queue. *`FramesLeave`*, *`StopEnds`*: a stored frame leaves the queue and a
signal ends the service, unless a frame that the receiver never accepts is being retried, or the signal came
while the main thread held the lock of the signal queue.

*`RowsOwn`*: numbers saved without an error were measured in the row's own evaluation, by its benchmark, at its
rate, on its service, although evaluations share a port, a directory and the scheduler's members. *`NoneLeft`*
(`Optimizer`): whichever way an attempt ends, there are never two services or two benchmarks of one program and none
between evaluations, and a new service is alone. Processes that no signal ends are excepted from both. *`Ends`*
(`Optimizer`): attempts, polls and the second run nest, and the program ends even if services and benchmarks hang.

*Why the bounds are enough.* Two processes register concurrently, fill a list of two slots and go round it
when one dies; two objects let a segment and its semaphore be unlinked and made again while the old ones are
held; the second command meets the effects of the first. Two processes are interchangeable, so the run
uses symmetry (it checks no liveness). One kill can hit every step. `metric_follow` trades the second process for a
third command and a moving clock, so that on, restart and off may have equal or different timestamps. Three blocks
of two nodes make the ring grow from nothing, from a full first block and with the head in the middle of an older
block; ten pushes go round the whole ring, refuse and accept again. In `profiler_manager` the recording thread is also the
one that makes the manager, so its buffer holds a command and an event and needs three passes before it is dropped;
the request, the edit and the limits give sessions that start and stop each in every way. More than one item of a
buffer in a batch, and two requests, are in `swapped_commands.cfg` and `lost_request.cfg`.

In `symbol_handlers` three commands give every pair of on, off and restart, and a third that meets what a failed one
left, or comes during the shutdown; the configurations share a symbol, replace a form, drop a locked handler and
bring a broken one. One module suffices because the importers of two modules share nothing but the manager. In
`hook_call` two calls overlap while a third meets what they left. In `patcher` two handlers of one function make a
manager that loses one and keeps the other, and the third call follows a `disable`. In `task_manager` one exporter
takes two pools, one of which has two workers and a stage before it, and then goes on to an exporter of its own; the
second error may hit the answer to the first. In `otlp_forwarder` the queue is smaller than what two connections
send, and there is an empty frame between good ones and one that is never accepted. In `optimizer` two attempts of
two polls give each way out of an attempt, the first and the last; two proposals of two parameters give a new one, a
duplicate, an infeasible one and its duplicate; the one fault (a process that outlives a kill, a save that fails, a
crash) may hit every step, and the second program meets what the first left.

*Fairness.* `MetricControl`: weak fairness of the next step of each main frame, each handler and each command line
that has begun. A thread that can run is scheduled, and `sem_wait` returns when the semaphore is free; with one
waiter at a time this needs no strong fairness, and the instances for liveness have one process and one command
line. Nobody has to start, shut down, give a command or die. `DbBuffer`: weak fairness of `Pop`, because the dump
thread calls it in a loop; nobody has to push, or to finish a push it has begun. `ProfilerManager`: weak fairness of
the worker's next step and of the dump thread's, which both loop and wait for nobody; the application and the owner
of the file need not do anything. `SymbolHandlers`: a command, a shutdown and an import under way go on; none has to
begin, and nothing has to fail. `Patcher`: the controller's thread and the importers go on once they have begun.
`TaskManager`: as long as the manager or a worker can go on, one of them does, for they are processes that run; no
task has to raise and no worker has to be killed. `OtlpForwarder`: the threads run, timers fire, and the receiver
comes back when it has gone; frames and signals need not come. `Optimizer`: the program's next step is taken; its
loops are bounded, and services and benchmarks owe it nothing.

## 5. What is proved

Every safety property that a run of section 4 checks is proved for every value of the constants. What the theorems
assume of the constants is in the named assumptions of the modules: `ShmAssumption` (pids and clients are distinct,
the list has a slot) and `BoundAssumption` (bounds are numbers); `BufferAssumption` (at least one block, of at least
two nodes); `ManagerAssumption` and `WorkerAssumption` (a batch holds an event, the worker is a thread of its own);
`HandlersAssumption` and `ConfigsAssumption` of `SymbolHandlers` (an id belongs to one symbol, a configuration names
an id once) and of `Patcher` (patterns and concrete handlers share no symbol, the controller's thread imports no
module); `MaxFailuresAssumption` (the limit is positive); `FramesAssumption` and `SizesAssumption` (the queue holds
a frame); `OrderAssumption`, `CallsAssumption` and `BoundsAssumption` of `TaskManager` (the order of the tasks is
one of the flow graph, their calls are gathers, bounds are numbers). `OptimizerProofs` needs none. TLC evaluates all
of them on the instances of the runs.

Each theorem is `Spec => []P`, from an invariant `Inv` with `Init => Inv`, `Inv /\ [Next]_vars => Inv'` and
`Inv => P`; each `Inv` was model-checked on the run's instance before it was proved.

*Metric control.* `TypeCorrect` is `Spec => []TypeOK`. `TypeOK` alone is not inductive: `TypeInv` adds that a client
at a point that uses a segment or a semaphore is connected to one (`Connected`), that a handler runs only where it
is installed (`HandlerAlive`), and that a registration has found a list with a length (`ListReady`), which is what
keeps the cursor and the slot it writes inside the list. `ExclusionCorrect` is `Spec => []SegmentExclusion`. The
invariant adds that object numbers in use were made (`MadeBefore`), so that a new semaphore is nobody's yet, and
that whoever is inside holds its semaphore alone (`Holding`): value 0, no other inside with the same one, and,
unless the segment raced, the one the segment was first locked with. Two clients inside one segment that has not
raced would then hold the same semaphore. Every step either keeps all this, takes a free semaphore, gives one back,
or makes one. `RegistrationCorrect` is `Spec => []RegistrationKept`. The invariant (`RegistrationInv`) says where
the cursor is, seen from a process's slot: `age + 1` positions further round the ring (`Ring`); the step that
registers moves the cursor by one and ages every other process of that segment by one, so it overwrites only a slot
of age `MaxProcs - 1`. It needs exclusion, for the cursor a registration has read must still be the cursor when it
writes (`CursorRead`), and that nobody shares a segment with its initialiser unless it raced. `FollowCorrect` is
`Spec => []ListedFollow`. Its invariant (`FollowInv`) says of each listed process and each command that the process
has looked since (`Looked`), or a signal is pending, or the command has still to signal it (`Owed`), or the
segment's lock was left by a client that was killed (`Stuck`), or a signal was dropped (`Informed`); and that the
hooks are what the last callback was told (`HooksFollow`). The writes of state and timestamp without the semaphore
are the hard part: a reading that is half old is allowed only while the command still owes the signal.

*Buffer.* `BufferTypes`, `RingCorrect` and `BufferIsQueue` assume `Reorders = FALSE`: without that the code
does not have the properties, which is the finding of `reordered_loads`. One inductive invariant,
`Inv == TypeOK /\ RingKept /\ Places`, serves all three: `Places` says in which nodes the counted and the
stored events are, and what the two program counters imply for `head`, `tail` and the sizes they have read.
`BufferIsQueue` shows that each step of `Push` and `Pop` maps to `Accept`, `Refuse`, `Deliver` or nothing:
`PushCount` is where an event is accepted, `PopCount` where it is delivered; the refusal of a buffer that has
all its blocks is decided when `PushBegin` reads the size, because the dump thread may make room before
`Push` returns.

*Buffer manager, writer and profiler manager.* `TypeCorrect`, `NothingStranded`, `FileCorrect` and the action property
`StartsOnlyAsked` share one invariant. `NoneStranded` alone is not inductive: `Listed` adds that whoever may still
insert, and whatever waits, is in the dump thread's working list, and that what is about to be dropped belongs to a
thread that has ended. `FileFollows` rests on `Alternate`: starts and stops are numbered and alternate, so
the parity of the command executed last says whether the file is open, and that of the newest whether profiling
is started. `Wanted` ties a notification to a request that has not been answered.

*Symbol handlers.* `RegistriesCorrect`, `NoHookLeft` and `NoHookMissed`. The invariant follows a symbol from its
creation until it is stopped: what each operation leaves for the next (`Phases`, `Registries`), which symbols are
kept while some are being stopped (`Held`) and how a shutdown and a late command follow each other (`Ends`), that what a
thread has read still holds when it hooks the symbol (`Clean`), that a symbol no longer watched gets no hook (`Gone`,
`Forgotten`), that a hook has its symbol's handlers unless somebody is about to renew it (`Current`), and that a
module still to come calls its symbols (`Coming`, `Settled`). The exceptions the properties make are history sets
that only grow while a symbol is watched.

*Patcher.* `HooksOnce`, `NoHandlerMissed` and `NoHandlerLeft`. No lock covers the hookers, so the invariant says who will
take the next step for each handler: a configured one is prepared, in some thread's hands, on the controller's list
or found by the import to come (`Claimed`); a prepared one is added, or about to be (`Applies`); an added one is hooked,
or about to be (`InPlace`), by one thread at a time (`Single`). For the way out, what is prepared keeps its symbol in
`_applied_hooks` until it is added (`SymbolsHeld`), which is why a pattern that goes before it was added is always
noticed; and what is in place is configured, or kept, or registered and applied (`Current`).

*Hooked calls.* `RunsCounted`, `OutcomeCorrect` and `GivenUpCorrect`. The invariant says, for each place of a call that
has met no other (`Solo`), what the shared tracker and the chain's last result hold, and how often the original has
run; of the others it only says where an exception of hook code may be (`Contained`). `Watched` says that a hook
that has failed too often is gone or some call will remove it. (`CallInv` and these theorems are in `PatcherProofs`.)

*Forwarder.* `TypeCorrect`, `OrderCorrect` and `LossExplained`. `InOrder` speaks of what has arrived; the invariant
puts the receiver, the frame being sent, the queue and the frame in a thread's hand in rising order for each
connection (`Ordered`, `AllBehind`), and knows which steps have dropped something (`Blamed`).

*Optimizer.* `RowsCorrect` and `NothingLeft`. All that lives of this program and can be killed belongs to the evaluation
under way, one service and one benchmark at most (`OneEach`); `Stopped` says where they are gone; `Measures` says that
the files of the benchmark, and the numbers read from them, are of this evaluation or of a stray process.

*Task engine.* `AnswersMatched`, `StagesKeptApart`, `ErrorsAreSpread` and `TypeCorrect`, for every flow graph and list of
calls. The invariant puts each task in one of a few modes: not begun (`Idle`), under way (`Normal`), with an error that
is being spread (`Spread`), with an error that all its workers have answered (`Settled`), or over. While it is `Normal`,
the lists taken, a worker's column and what it still has under way are together the sequence of its calls up to where it
is (`NormalColumn`, `NormalReports`, `NormalStep`); so the heads of full columns are all of one call, whose waiters
wait for nothing else, and a worker is never past a call that blocks it (`NormalWaits`). In `Spread` each worker has been
told or has told (`Warned`, `Failed`), and only reports of the error are in the lists; in `Settled` only the ends
are. A list of such reports has one of each worker, even if the indices they come with are stale: then either it never
fills, or the indices are a permutation (a counting argument about injections between finite sets).
`Pools` says that a pool is in one task that is not over and a task under way has all its pools, `States` that a task
begins when those before it are over; with `Letters` (what a worker's queue may hold where it is) they give
`StagesApart` and the answers of `AnswersMatch`. `Raisers` says that a task somebody raised in has failed or still
lacks the end of that worker, which gives `ErrorsSpread`. After a crash report or an index out of range the manager's side
of this is no longer claimed (`Running`), and what workers still read is harmless (`Letters`). Recursion was
avoided, not reasoned about: pools, lists and answers are functions, and the order of the tasks is used through `Pos`.

*Only model-checked.* Everything under fairness (`CommandsReturn`, `StartReturns`, `EventsLeave`,
`RequestsAnswered`, `EventsExecuted`, `CallsReturn`, `Ends`, `FramesLeave`, `StopEnds`): liveness is outside the prover.

## 6. Where the code and its documents disagree

Two runs end in a counterexample to something the code or its documents say:

- `stopped_signal` (`NoneKilled`): `stop()` leaves the pid in the list and restores the default action of
  SIGUSR1; the next command kills the service. (`M/core/config/metric_control_watch.py:194`)
- `disable_restores` (`DisableRestores`): `disable()` walks the hooks of objects that own none; every function stays
  hooked. (`ms_service_profiler/patcher/core/hook_controller.py:183`)

Further configurations beside the modules, each of which also ends in a counterexample:

- `destroy_race.cfg` (`NoOrphans`): an `off` that finds no live process unlinks the segment after a process has
  registered in it; that process never hears of a later command. (`M/utils/shm_manager.py:354`, `:774`)
- `missed_command.cfg` (`AlwaysFollow`): a signal that arrives while the handler runs is dropped, and `start()`
  checks without the handler's lock; either way a command may be lost. (`M/core/config/metric_control_watch.py:218`,
  `:169`)
- `handler_deadlock.cfg` (`HandlerNeverWaits`): the handler may wait for a lock that the frame it interrupted
  holds. (`M/core/symbol_handler_manager.py:192`)
- `reordered_loads.cfg` (`InOrder`): the relaxed load of the size in `Pop` orders nothing; where loads are reordered
  the first event of a `Pop` may be read before it is there, and is lost.
  (`cpp/include/msServiceProfiler/DbBuffer.h:121`)
- `lost_request.cfg` (`LastRequestWins`): a request made while the worker starts or stops profiling is overwritten when
  it has finished. (`cpp/src/ServiceProfilerManager.cpp:1036`, `:1271`)
- `swapped_commands.cfg` (`FileAlwaysFollows`): a stop and the next start in one batch are executed start first; profiling
  is on with no output file. (`cpp/src/ServiceProfilerDbWriter.cpp:212`)
- `hook_twice.cfg` (`NeverAgain`): the tracker takes a returned `None` for "not run yet"; when the hook fails after
  it, the original is run again, which the comment of `replace_func` excludes.
  (`ms_service_profiler/patcher/core/module_hook.py:320`, `:557`)
- `infeasible_twice.cfg` (`SearchSurvives`): parameters whose mapping raises get an infinite fitness, as a comment says
  (`P/config/config.py:549`); proposed again, they are mapped outside the `try`, and the search ends.
  (`P/optimizer/optimizer.py:179`)
- `concurrency_bound.cfg` (`LimitKept`): the concurrency that the default run allows is written to fields that are
  then replaced by copies made before; the search uses the old limit. (`P/optimizer/optimizer.py:446`, `:474`)
- `last_run.cfg` (`LastRunCounts`): "the last run is the result" (`P/optimizer/scheduler.py:328`); if the second run
  fails, the row has the first run's numbers, the second's rate, an error and a finite fitness, and may be picked as
  a best row. (`P/optimizer/scheduler.py:379`, `P/optimizer/store.py:159`)

Met while modelling. The first group is in the models, as an exception of a property or a disjunct of a step:

- Overlapping calls of a hooked function share one tracker and one last result, and may get each other's outcome;
  an async fallback awaits a cached value and raises `TypeError`; without a wrap hook an original
  that raised is run again. (`patcher/core/module_hook.py:399`, `:794`, `:603`; `M/core/hook/hook_chain.py:231`)
- A chain whose only hook has been given up calls the original inside its `try`; if that raises, the chain takes its
  `NO_RESULT` for "not called yet", as the docstring has it, and calls it again. (`M/core/hook/hook_chain.py:237`,
  `:252`, `:225`)
- `shutdown` leaves the manager's lock before it stops the control watch: a command to start in between builds hooks
  again, which survive the shutdown. (`M/core/symbol_handler_manager.py:163`, `:166`)
- A command that interrupts an import of the main thread while that holds the watcher's lock waits for it for ever.
  (`M/core/module/symbol_watcher.py:212`; taken at `:260`, `:274`, `:303`, `:391`)
- A failed renewal of a symbol's hook leaves the old one in place. A module whose importer sees the update
  flag after `_apply_all_hooks` has passed its symbol is never hooked. (`M/core/symbol.py:377`, `:608`, `:187`)
- A module that is still executing is searched as if it were complete, and the cache of the pattern that was not found
  is dropped, so that the importer's callback does not find it either. (`patcher/core/symbol_watcher.py:366`, `:433`)
- Patterns that a new configuration drops stay unless something else goes too, and patterns are ignored for a
  module that has concrete symbols. So a pattern that was dropped while the hooks were disabled, and comes back beside a
  concrete symbol of its module, is not registered again and stays hooked when it is dropped once more; the proof of
  `NoneLeft` found this. `load_handlers` may wait, with the lock held, for an importer that waits for the
  lock. (`patcher/core/symbol_watcher.py:240`, `:426`, `:250`)
- A worker told of an error in a task shared by two pools answers with the index of its previous task; when two of
  them collide the error is never settled, and when one exceeds the list the manager ends with an `IndexError`
  (`task_manager.py:222`, `:234`). After a crash report the manager is gone and other pools wait for ever.
  (`ms_service_profiler/task/task_manager.py:190`, `:260`)
- A frame that the receiver never accepts blocks the queue for ever; a reconnection discards what was queued; an
  empty frame ends a pass; a second `queue.Full` ends the connection, and so may emptying the deque without its
  lock; the signal handler's `put` waits for a lock that the frame below it holds.
  (`ms_service_profiler/tracer/scheduler.py:58`, `:66`, `:44`, `socket_server.py:193`, `:231`,
  `otlp_forward_service.py:65`)

The second group is outside the models:

- A wrap handler's failing original is run twice, since `ori_wrap` is the target. (`M/core/symbol.py:399`,
  `M/core/hook/hook_chain.py:250`)
- `SubprocessInfo.is_alive` tests the method `x.is_alive` and not its result, and is always true.
  (`ms_service_profiler/task/task_manager.py:55`)
- `-d multiple` is parsed and ignored: `plugin_main` always makes a single-machine `Scheduler`, under a comment that
  says both are supported. (`P/optimizer/optimizer.py:676`, `:728`)
- `replace_func` speaks of consecutive failures; the count is never reset. (`patcher/core/module_hook.py:555`)

## 7. What is not modelled

Planned: row 8 of the plan, and process exit and operator collection of row 3. Not planned: what section 3 names as
left out of the other rows, the C++ tracer (spans belong to one thread), MSPTI and NPU memory collectors (callbacks
whose contract is a vendor library's), metric values and adapters (wrappers of a client library), exporters,
parsers, comparison and advisor (transformations of recorded data, for which unit tests are the better tool), the
numerical search of the optimizer, its kubectl engine and the multi-machine code that nothing reaches, and
everything vendored.
