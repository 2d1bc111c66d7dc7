---------------------------- MODULE TaskManager ----------------------------
(***************************************************************************)
(* The task engine of the analysis (ms_service_profiler/task): a manager   *)
(* process that reads one queue, and a pool of worker processes per data   *)
(* source, each walking the tasks below its source and stopping at the end *)
(* of every task until the manager has heard from all workers of it.       *)
(*                                                                         *)
(* A task's data is not modelled: what the manager collects is the call it *)
(* belongs to and who made it, so that lists of different calls can be     *)
(* told apart.  Task indices count from 1, and 0 stands for None.  Every   *)
(* task makes the same collective calls on every worker (Calls), as the    *)
(* pipelines and exporters do.                                             *)
(***************************************************************************)
EXTENDS Integers, Sequences, FiniteSets, Functions

CONSTANTS
    Order,      \* TaskDag.ordered_tasks_name: every task, each after what it needs
    NextTasks,  \* dag_task_flow: the tasks that take a task's output
    Calls,      \* the collective calls of a task's run()
    MaxProcs,   \* bound on the data directories of each source: one worker for each
    MaxErrors,  \* bound on the exceptions raised by task bodies
    MaxKills    \* bound on the workers killed from outside

Tasks == { Order[i] : i \in DOMAIN Order }
PrevTasks == [t \in Tasks |-> { u \in Tasks : t \in NextTasks[u] }]
Sources == { t \in Tasks : PrevTasks[t] = {} }
Worker == UNION { {s} \X (1 .. MaxProcs[s]) : s \in Sources }
Indices == 1 .. Cardinality(Worker)
None == "none"

ASSUME OrderAssumption ==
    /\ Order \in Seq(Tasks) /\ None \notin Tasks
    /\ \A i, j \in DOMAIN Order : Order[i] = Order[j] => i = j
    /\ NextTasks \in [Tasks -> SUBSET Tasks]
    /\ \A i, j \in DOMAIN Order : Order[j] \in NextTasks[Order[i]] => i < j
ASSUME CallsAssumption == Calls \in [Tasks -> Seq({"gather", "all_gather"})]
ASSUME BoundsAssumption == MaxProcs \in [Sources -> Nat] /\ MaxErrors \in Nat /\ MaxKills \in Nat

VARIABLES
    procs,    \* the number of data directories found for each source
    verbose,  \* args.log_level is 'verbose'
    manager,  \* "running" in TaskManager.start, or "ended"
    mqueue,   \* manager_recv_queue, which keeps the order of each sender only
    state,    \* the state of each task
    queues,   \* the workers whose queues a task holds, with their task_index
    gather,   \* gather_data by columns: the values of an index not yet taken
    owner,    \* pool_owner: the task each pool is in
    inbox,    \* the recv_queue of each worker
    step,     \* where a worker is inside task_run
    at,       \* its current task
    index,    \* its task_index
    call,     \* the collective calls made by the current run()
    own,      \* the exception being handled is its own, not another worker's
    rounds,   \* history: the lists taken for a task, since its first error if it had one
    errors, raised, killed   \* history: counts, who raised in which task, dead workers

managerVars == << manager, state, queues, gather, owner, rounds >>
workerVars == << step, at, index, call, own >>
vars == << procs, verbose, managerVars, mqueue, inbox, workerVars, errors, raised, killed >>

-----------------------------------------------------------------------------
(* The plan of a pool: filter_dag keeps what its source's data reaches.    *)
Closed(S) == \A t \in S : NextTasks[t] \subseteq S
Reached == [s \in Sources |-> { t \in Tasks : \A S \in SUBSET Tasks : s \in S /\ Closed(S) => t \in S }]
Pos(t) == CHOOSE i \in DOMAIN Order : Order[i] = t
NextIn(s, t) ==
    LET later == { u \in Reached[s] : Pos(u) > Pos(t) }
        first == { u \in later : \A v \in later : Pos(u) <= Pos(v) }
    IN  IF first = {} THEN None ELSE CHOOSE u \in first : TRUE

-----------------------------------------------------------------------------
(* Messages. *)
Value(kind, n, from, next) == [kind |-> kind, n |-> n, from |-> from, next |-> next]
CallValue(w, n) == Value("call", n, w, None)
ErrorValue(w) == Value("error", 0, w, None)
FinishedValue(w) == Value("finished", 0, w, NextIn(w[1], at[w]))

Send(w, msg, value, flag) ==
    mqueue' = [mqueue EXCEPT ![w] = Append(@,
                 [task |-> at[w], index |-> index[w], msg |-> msg, value |-> value, flag |-> flag])]
ToWorker(msg, idx, data) == [msg |-> msg, idx |-> idx, data |-> data]
Plain(msg) == ToWorker(msg, 0, << >>)

-----------------------------------------------------------------------------
(* tasks_run: one pool per source that has data, each told to go; a task   *)
(* that no data reaches is marked, and counts as done for what follows it. *)
Init ==
    /\ \E found \in SUBSET Worker :
          /\ \A w \in found : \A k \in 1 .. w[2] : << w[1], k >> \in found
          /\ procs = [s \in Sources |-> Cardinality({ w \in found : w[1] = s })]
    /\ verbose \in BOOLEAN
    /\ manager = IF \E s \in Sources : procs[s] > 0 THEN "running" ELSE "ended"
    /\ mqueue = [w \in Worker |-> << >>]
    /\ state = [t \in Tasks |-> IF \E s \in Sources : procs[s] > 0 /\ t \in Reached[s]
                                THEN "unstart" ELSE "no_source_data"]
    /\ queues = [t \in Tasks |-> [w \in { v \in Worker : v[1] = t /\ v[2] <= procs[t] } |-> w[2]]]
    /\ gather = [t \in Tasks |-> [i \in Indices |-> << >>]]
    /\ owner = [s \in Sources |-> IF procs[s] > 0 THEN s ELSE None]
    /\ inbox = [w \in Worker |-> IF w[2] <= procs[w[1]] THEN << ToWorker("go", w[2], << >>) >> ELSE << >>]
    /\ step = [w \in Worker |-> IF w[2] <= procs[w[1]] THEN "go" ELSE "exited"]
    /\ at = [w \in Worker |-> w[1]]
    /\ index = [w \in Worker |-> 0]
    /\ call = [w \in Worker |-> 0]
    /\ own = [w \in Worker |-> FALSE]
    /\ rounds = [t \in Tasks |-> 0]
    /\ errors = 0
    /\ raised = {}
    /\ killed = {}

-----------------------------------------------------------------------------
(* A worker: task_run and the calls of Task. *)

Goto(w, s) == step' = [step EXCEPT ![w] = s]
Take(w) == inbox' = [inbox EXCEPT ![w] = Tail(@)]
Got(w) == Head(inbox[w]).msg
Waiting(w, s) == step[w] = s /\ inbox[w] # << >>
ByWorker == UNCHANGED << procs, verbose, managerVars >>

\* error_sync: report, then wait for the answer of all.
ErrorSync(w, mine) ==
    /\ Send(w, "error", ErrorValue(w), mine)
    /\ own' = [own EXCEPT ![w] = mine]
    /\ Goto(w, "error_sync")
    /\ ByWorker
    /\ UNCHANGED << at, index, call, killed >>

\* recv() raised OtherTaskError; task_index keeps the value it had.
OtherTaskError(w) ==
    /\ Got(w) = "error"
    /\ Take(w)
    /\ ErrorSync(w, FALSE)
    /\ UNCHANGED << errors, raised >>

\* `_, task_index = recv()` takes the next message, whatever it is, and run() starts.
RecvGo(w) ==
    /\ Waiting(w, "go")
    /\ Got(w) # "error"
    /\ Take(w)
    /\ index' = [index EXCEPT ![w] = Head(inbox[w]).idx]
    /\ call' = [call EXCEPT ![w] = 0]
    /\ Goto(w, "run")
    /\ ByWorker
    /\ UNCHANGED << mqueue, at, own, errors, raised, killed >>

\* gather (dst = 0: only the first waits for the list) and all_gather.
Collective(w) ==
    LET kind == Calls[at[w]][call[w] + 1]
    IN  /\ step[w] = "run"
        /\ call[w] < Len(Calls[at[w]])
        /\ Send(w, kind, CallValue(w, call[w] + 1), FALSE)
        /\ call' = [call EXCEPT ![w] = @ + 1]
        /\ IF kind = "all_gather" \/ index[w] = 1 THEN Goto(w, "collect") ELSE UNCHANGED step
        /\ ByWorker
        /\ UNCHANGED << inbox, at, index, own, errors, raised, killed >>

RecvCollected(w) ==
    /\ Waiting(w, "collect")
    /\ Got(w) # "error"
    /\ Take(w)
    /\ Goto(w, "run")
    /\ ByWorker
    /\ UNCHANGED << mqueue, at, index, call, own, errors, raised, killed >>

\* run() returned: finished_sync.
Finish(w) ==
    /\ step[w] = "run"
    /\ call[w] = Len(Calls[at[w]])
    /\ Send(w, "finished", FinishedValue(w), FALSE)
    /\ Goto(w, "finished_sync")
    /\ ByWorker
    /\ UNCHANGED << inbox, at, index, call, own, errors, raised, killed >>

NextTask(w) ==
    LET next == NextIn(w[1], at[w])
    IN  /\ at' = [at EXCEPT ![w] = IF next = None THEN @ ELSE next]
        /\ Goto(w, IF next = None THEN "exited" ELSE "go")

RecvFinished(w) ==
    /\ Waiting(w, "finished_sync")
    /\ Got(w) = "finished"
    /\ Take(w)
    /\ NextTask(w)
    /\ ByWorker
    /\ UNCHANGED << mqueue, index, call, own, errors, raised, killed >>

\* The task's code raises.  (finished_sync raises too if the answer is not
\* "finished": AnswersMatch says that it never is another one.)
Raise(w) ==
    /\ step[w] = "run"
    /\ errors < MaxErrors
    /\ UNCHANGED inbox
    /\ ErrorSync(w, TRUE)
    /\ errors' = errors + 1
    /\ raised' = raised \cup {<< w, at[w] >>}

\* recv_ignore_error: drop errors; any other message ends the wait, and the
\* worker reports that it has finished after an error.
IgnoreError(w) ==
    /\ Waiting(w, "error_sync")
    /\ Got(w) = "error"
    /\ Take(w)
    /\ ByWorker
    /\ UNCHANGED << mqueue, workerVars, errors, raised, killed >>

FinishAfterError(w) ==
    /\ Waiting(w, "error_sync")
    /\ Got(w) # "error"
    /\ Take(w)
    /\ Send(w, "finished", FinishedValue(w), TRUE)
    /\ Goto(w, "after_error")
    /\ ByWorker
    /\ UNCHANGED << at, index, call, own, errors, raised, killed >>

\* With verbose logging a worker stops here: after another's error it leaves
\* the loop, after its own it reports a crash and raises.
LeaveError(w) ==
    /\ Waiting(w, "after_error")
    /\ Got(w) = "finished"
    /\ Take(w)
    /\ IF verbose
       THEN Goto(w, "exited") /\ UNCHANGED at
       ELSE NextTask(w)
    /\ IF verbose /\ own[w] THEN Send(w, "crash", ErrorValue(w), FALSE) ELSE UNCHANGED mqueue
    /\ ByWorker
    /\ UNCHANGED << index, call, own, errors, raised, killed >>

\* An exception inside the except clause ends the process.
DieInHandler(w) ==
    /\ Waiting(w, "after_error")
    /\ Got(w) # "finished"
    /\ Take(w)
    /\ Goto(w, "exited")
    /\ ByWorker
    /\ UNCHANGED << mqueue, at, index, call, own, errors, raised, killed >>

\* What the queue's feeder thread has not yet written is lost.
Kill(w) ==
    /\ Cardinality(killed) < MaxKills
    /\ step[w] # "exited"
    /\ Goto(w, "exited")
    /\ killed' = killed \cup {w}
    /\ \E n \in 0 .. Len(mqueue[w]) : mqueue' = [mqueue EXCEPT ![w] = SubSeq(@, 1, n)]
    /\ ByWorker
    /\ UNCHANGED << inbox, at, index, call, own, errors, raised >>

WorkerStep(w) ==
    \/ RecvGo(w) \/ Collective(w) \/ RecvCollected(w)
    \/ Finish(w) \/ RecvFinished(w)
    \/ \E s \in {"go", "collect", "finished_sync"} : Waiting(w, s) /\ OtherTaskError(w)
    \/ IgnoreError(w) \/ FinishAfterError(w) \/ LeaveError(w) \/ DieInHandler(w)

-----------------------------------------------------------------------------
(* The manager: TaskManager.start and what it calls. *)

\* Mutant of Ignored: the reports of an error are dropped with the rest.
IgnoredAll(m) == state[m.task] = "error"
\* Mutant of Kept: what was collected before the error stays.
KeptAll(t) == gather[t]
\* Mutant of Outcome: the error is forgotten when the workers have finished.
OutcomeForgotten(t) == "finished"
\* Mutant of Full: one answer is enough.
FullAtOnce(t, lists) == \E i \in Range(queues[t]) : lists[i] # << >>

\* After an error only what a worker sends about it is taken.
Ignored(m) == state[m.task] = "error" /\ ~ m.flag
\* set_task_error: the first error forgets what had been collected.
Kept(t) == IF state[t] = "error" THEN gather[t] ELSE [i \in Indices |-> << >>]
\* A failed task stays failed when its workers have finished.
Outcome(t) == IF state[t] = "error" THEN "error" ELSE "finished"

Members(t) == DOMAIN queues[t]
\* The place of a value in the lists; the list of a single worker needs none.
Slot(m) == IF Cardinality(Members(m.task)) = 1 THEN 1 ELSE m.index
\* fill_gater_data: the value goes to the first list without one from that
\* index, or to a new list, hence to the end of the column of the index.
Fill(lists, m) == [lists EXCEPT ![Slot(m)] = Append(@, m.value)]
\* The first list has a value of every worker: it is taken and answered.
Full(t, lists) == \A i \in Range(queues[t]) : lists[i] # << >>
FirstOf(t, lists) == [i \in { j \in Range(queues[t]) : lists[j] # << >> } |-> Head(lists[i])]
Rest(lists) == [i \in Indices |-> IF lists[i] = << >> THEN << >> ELSE Tail(lists[i])]
\* The lists and the number of them taken, when a value has been filled in.
Collect(m, lists) ==
    LET t == m.task
        before == IF m.msg = "error" /\ state[t] # "error" THEN 0 ELSE rounds[t]
    IN  /\ gather' = [gather EXCEPT ![t] = IF Full(t, lists) THEN Rest(lists) ELSE lists]
        /\ rounds' = [rounds EXCEPT ![t] = IF Full(t, lists) THEN before + 1 ELSE before]

\* send_msg_to_one_task
ToTask(t, msgs) == [w \in Worker |-> IF w \in Members(t) THEN inbox[w] \o msgs ELSE inbox[w]]

Ended(owners) == \A s \in Sources : owners[s] = None

\* is_all_prev_finished(u), once t is done and its pools have moved to next.
AllPrevFinished(u, t, next) ==
    /\ \A p \in PrevTasks[u] : p = t \/ state[p] \in {"finished", "no_source_data", "error"}
    /\ \A s \in Sources : (procs[s] > 0 /\ u \in Reached[s]) => next[s] = u

\* The queues of the workers of pools come after those a task has, pool by pool.
Extended(q, pools) ==
    LET new == { w \in Worker : w[1] \in pools /\ w[2] <= procs[w[1]] }
        places == Cardinality(DOMAIN q) + 1 .. Cardinality(DOMAIN q) + Cardinality(new)
    IN  { [w \in DOMAIN q \cup new |-> IF w \in new THEN p[w] ELSE q[w]] :
            p \in { p \in [new -> places] :
                      /\ \A v, w \in new : p[v] = p[w] => v = w
                      /\ \A v, w \in new : v[1] = w[1] /\ w[2] = v[2] + 1 => p[w] = p[v] + 1 } }

\* set_task_finished: the pools of the task move on, and every next task that
\* now has all its pools is started, with "error" if one before it failed.
\* The pools come out of a set, hence in any order.
SetTaskFinished(t, got) ==
    LET pools == { v.from[1] : v \in Range(got) }
        next == [s \in Sources |-> IF s \in pools THEN (CHOOSE v \in Range(got) : v.from[1] = s).next
                                   ELSE owner[s]]
        joining(u) == { s \in pools : next[s] = u }
        targets == { u \in Tasks : joining(u) # {} }
        started == { u \in targets : state[u] = "unstart" /\ AllPrevFinished(u, t, next) }
        go(u, i) == IF \E p \in PrevTasks[u] : state[p] = "error"
                    THEN Plain("error") ELSE ToWorker("go", i, << >>)
    IN  /\ owner' = next
        /\ \E q \in [targets -> UNION { Extended(queues[u], joining(u)) : u \in targets }] :
              /\ \A u \in targets : q[u] \in Extended(queues[u], joining(u))
              /\ queues' = [u \in Tasks |-> IF u \in targets THEN q[u] ELSE queues[u]]
        /\ state' = [u \in Tasks |-> IF u = t THEN Outcome(t)
                                     ELSE IF u \in started THEN "started" ELSE state[u]]
        /\ inbox' = [w \in Worker |->
              LET u == next[w[1]]
              IN  ToTask(t, << Plain("finished") >>)[w] \o
                  (IF u \in started /\ w \in DOMAIN queues'[u] THEN << go(u, queues'[u][w]) >> ELSE << >>)]

\* The branches of start() with a value to collect.  `lists` holds it already.
HandleFinished(m, lists) ==
    LET t == m.task
    IN  /\ m.msg = "finished"
        /\ IF Full(t, lists) THEN SetTaskFinished(t, FirstOf(t, lists))
           ELSE UNCHANGED << owner, queues, state, inbox >>
        /\ manager' = IF Ended(owner') THEN "ended" ELSE manager

HandleCollective(m, lists) ==
    LET t == m.task
        list == << ToWorker(m.msg, 0, FirstOf(t, lists)) >>
    IN  /\ m.msg \in {"gather", "all_gather"}
        /\ inbox' = IF ~ Full(t, lists) THEN inbox
                    ELSE IF m.msg = "all_gather" THEN ToTask(t, list)
                    ELSE [w \in Worker |-> IF w \in Members(t) /\ queues[t][w] = 1
                                           THEN inbox[w] \o list ELSE inbox[w]]
        /\ UNCHANGED << manager, owner, queues, state >>

\* An error of a worker's own is told to all; set_task_error forgets what had
\* been collected, and once every worker has answered, all are let go on.
Told(m) == IF m.flag THEN << Plain("error") >> ELSE << >>
HandleError(m, lists) ==
    LET t == m.task
        answer == IF Full(t, lists) THEN << ToWorker("error_gather", 0, FirstOf(t, lists)) >> ELSE << >>
    IN  /\ m.msg = "error"
        /\ state' = [state EXCEPT ![t] = "error"]
        /\ inbox' = ToTask(t, Told(m) \o answer)
        /\ UNCHANGED << manager, owner, queues >>

HandleValue(m) ==
    LET lists == Fill(IF m.msg = "error" THEN Kept(m.task) ELSE gather[m.task], m)
    IN  /\ Slot(m) \in Range(queues[m.task])
        /\ HandleFinished(m, lists) \/ HandleCollective(m, lists) \/ HandleError(m, lists)
        /\ Collect(m, lists)

\* The index is of a task the worker was in before and exceeds the list of
\* this one: IndexError, and the manager is gone.
HandleOutOfRange(m) ==
    LET t == m.task
    IN  /\ Slot(m) \notin Range(queues[t])
        /\ inbox' = IF m.msg = "error" THEN ToTask(t, Told(m)) ELSE inbox
        /\ state' = IF m.msg = "error" THEN [state EXCEPT ![t] = "error"] ELSE state
        /\ manager' = "ended"
        /\ UNCHANGED << owner, queues, gather, rounds >>

\* fill_gater_data returns None at once: what was sent before the error.
HandleIgnored(m) ==
    /\ m.msg \notin {"error", "crash"} /\ Ignored(m)
    /\ UNCHANGED << managerVars, inbox >>

\* One message per task a queue is registered for, and the manager is gone.
HandleCrash(m) ==
    /\ m.msg = "crash"
    /\ inbox' = [w \in Worker |-> inbox[w] \o
                    [i \in 1 .. Cardinality({ t \in Tasks : w \in Members(t) }) |-> Plain("error")]]
    /\ manager' = "ended"
    /\ UNCHANGED << owner, queues, state, gather, rounds >>

Manage(w) ==
    /\ manager = "running"
    /\ mqueue[w] # << >>
    /\ mqueue' = [mqueue EXCEPT ![w] = Tail(@)]
    /\ LET m == Head(mqueue[w])
       IN  \/ HandleIgnored(m)
           \/ HandleCrash(m)
           \/ (m.msg # "crash" /\ (m.msg = "error" \/ ~ Ignored(m)) /\ (HandleValue(m) \/ HandleOutOfRange(m)))
    /\ UNCHANGED << procs, verbose, workerVars, errors, raised, killed >>

Next == \E w \in Worker : Manage(w) \/ WorkerStep(w) \/ Raise(w) \/ Kill(w)

Spec == Init /\ [][Next]_vars

\* Some process that can go on does; no task has to raise, no worker to be killed.
FairSpec == Spec /\ WF_vars(\E w \in Worker : Manage(w) \/ WorkerStep(w))
-----------------------------------------------------------------------------
(* Properties. *)

TypeOK ==
    /\ procs \in [Sources -> Nat]
    /\ manager \in {"running", "ended"}
    /\ state \in [Tasks -> {"unstart", "started", "finished", "error", "no_source_data"}]
    /\ \A t \in Tasks : queues[t] \in [Members(t) -> 1 .. Cardinality(Members(t))] /\ Members(t) \subseteq Worker
    /\ gather \in [Tasks -> [Indices -> Seq([kind : {"call", "error", "finished"}, n : Nat,
                                             from : Worker, next : Tasks \cup {None}])]]
    /\ owner \in [Sources -> Tasks \cup {None}]
    /\ step \in [Worker -> {"go", "run", "collect", "finished_sync", "error_sync", "after_error", "exited"}]
    /\ at \in [Worker -> Tasks]

\* The lists under way never mix two calls, or a call with the end of a task,
\* although all messages share them (fill_gater_data); and every wait is ended
\* by its own answer: gather and all_gather by one value per worker of the
\* task, all of that call, finished_sync by "finished" or an error, and
\* error_sync by "error_gather" once every worker has answered.
AnswersMatch ==
    /\ \A t \in Tasks : \A i, j \in Indices : \A k \in DOMAIN gather[t][i] \cap DOMAIN gather[t][j] :
          LET v == gather[t][i][k]
              x == gather[t][j][k]
          IN  v.kind = x.kind /\ v.n = x.n
    /\ \A w \in Worker : inbox[w] # << >> /\ Got(w) # "error" =>
          LET m == Head(inbox[w])
          IN  /\ step[w] = "collect" =>
                   /\ m.msg = Calls[at[w]][call[w]]
                   /\ DOMAIN m.data = Range(queues[at[w]])
                   /\ \A v \in Members(at[w]) : m.data[queues[at[w]][v]] = CallValue(v, call[w])
              /\ step[w] \in {"finished_sync", "after_error"} => m.msg = "finished"
              /\ step[w] = "error_sync" => m.msg = "error_gather"

\* No worker runs a task while a worker of a task it depends on is still in
\* its body or has an error of it to settle, and none runs a task when one it
\* depends on has failed (finished_sync, is_all_prev_finished).
StagesApart ==
    \A v, w \in Worker :
        /\ step[w] \in {"run", "collect"} /\ v[2] <= procs[v[1]]
        /\ at[v] \in PrevTasks[at[w]]
        => /\ step[v] \notin {"run", "collect", "error_sync"}
           /\ state[at[v]] = "finished"

\* A task whose code raised in one worker is a failed task for all of them:
\* it never counts as finished, nor does anything below it (set_task_error).
ErrorsSpread ==
    \A t \in Tasks : state[t] = "finished" =>
        /\ \A w \in Worker : << w, t >> \notin raised
        /\ \A p \in PrevTasks[t] : state[p] \in {"finished", "no_source_data"}

\* The analysis ends.  Four things stop that: a worker killed from outside;
\* two pools told of an error of a task they share, where each worker answers
\* with the index of its previous task, and two indices are the same or one is
\* beyond the list of the task, which ends the manager; and a crash report
\* while another pool is at work: the manager answers nobody after it.
Killed == killed # {}
IndicesCollide ==
    \E v, w \in Worker : v # w /\ at[v] = at[w] /\ index[v] = index[w]
                          /\ step[v] = "error_sync" /\ step[w] = "error_sync"
IndexTooLarge ==
    \E w \in Worker : \E j \in DOMAIN mqueue[w] : Slot(mqueue[w][j]) \notin Range(queues[at[w]])
Crashed ==
    /\ Cardinality({ s \in Sources : procs[s] > 0 }) > 1
    /\ \E w \in Worker : \E i \in DOMAIN mqueue[w] : mqueue[w][i].msg = "crash"
Ends == <>( \/ manager = "ended" /\ \A w \in Worker : step[w] = "exited"
            \/ Killed \/ IndicesCollide \/ IndexTooLarge \/ Crashed )
=============================================================================
