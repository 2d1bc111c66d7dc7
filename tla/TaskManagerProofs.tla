-------------------------- MODULE TaskManagerProofs --------------------------
(***************************************************************************)
(* The safety invariants of TaskManager, for every plan of tasks, every    *)
(* list of collective calls, and any number of workers, errors and kills.  *)
(*                                                                         *)
(* The invariant follows each task through what its workers and the        *)
(* manager agree on: not begun (Idle), under way (Normal), with an error   *)
(* that is being spread (Spread), and with an error that all its workers   *)
(* have answered (Settled).  In each of them it says what a worker may     *)
(* have under way to the manager, what the manager has of it in the lists  *)
(* and what waits for it, so that every answer meets the wait it ends.  A  *)
(* pool is in one task that is not over (Pools), and the manager's side of *)
(* it is only claimed while the manager runs (Running).                    *)
(***************************************************************************)
EXTENDS TaskManager, TLAPS, FiniteSetTheorems, SequenceTheorems

\* A worker that was started, one that runs, one whose task is over but has
\* not read that yet, and the task it will be in when it has.
Exists(w) == w[2] <= procs[w[1]]
Alive(w) == step[w] # "exited"
Ahead(w) == inbox[w] # << >> /\ Got(w) = "finished"
Now(w) == IF Ahead(w) THEN NextIn(w[1], at[w]) ELSE at[w]

\* The modes of a task.  A started task is doomed when one before it failed:
\* its workers are told of an error instead of to go.
Whole(t) == \A p \in PrevTasks[t] : state[p] \in {"finished", "no_source_data"}
Doomed(t) == state[t] = "started" /\ ~ Whole(t)
Begun(t) == t \in Sources \/ state[t] # "unstart"
Over(t) == state[t] = "finished" \/ (state[t] = "error" /\ rounds[t] = 2)
Live(t) == Begun(t) /\ ~ Over(t) /\ state[t] # "no_source_data"
Normal(t) == Live(t) /\ state[t] # "error" /\ ~ Doomed(t)

\* What a worker sends in a task without error: a value for every call, and
\* its end; the column of the lists that holds them, and its place in one.
Last(t) == Len(Calls[t]) + 1
EndValue(w, t) == Value("finished", 0, w, NextIn(w[1], t))
Event(w, t, k) == IF k < Last(t) THEN CallValue(w, k) ELSE EndValue(w, t)
EventMsg(t, k) == IF k < Last(t) THEN Calls[t][k] ELSE "finished"
Blocks(w, t, k) == Calls[t][k] = "all_gather" \/ queues[t][w] = 1
Column(w, t) == gather[t][queues[t][w]]
SlotOf(w, t) == IF Cardinality(Members(t)) = 1 THEN 1 ELSE index[w]

\* The types of what is sent and collected.
ValueSet == [kind : {"call", "error", "finished"}, n : Nat, from : Worker, next : Tasks \cup {None}]
ListSet == UNION { [S -> ValueSet] : S \in SUBSET Indices }
Message == [task : Tasks, index : Nat, msg : {"gather", "all_gather", "finished", "error", "crash"},
            value : ValueSet, flag : BOOLEAN]
Answer == [msg : {"go", "gather", "all_gather", "finished", "error", "error_gather"}, idx : Nat, data : ListSet]

Types ==
    /\ TypeOK
    /\ mqueue \in [Worker -> Seq(Message)]
    /\ inbox \in [Worker -> Seq(Answer)]
    /\ index \in [Worker -> Nat] /\ call \in [Worker -> Nat]
    /\ rounds \in [Tasks -> Nat]
    /\ raised \subseteq Worker \X Tasks

\* Every pool is in one task, its owner, and in the queues of that and of those
\* it has been in; a task under way has all its pools.
Pools ==
    /\ \A s \in Sources : procs[s] > 0 => << s, 1 >> \in Worker
    /\ \A t \in Tasks : \A w \in Members(t) : Exists(w) /\ t \in Reached[w[1]]
    /\ \A t \in Tasks : \A v, w \in Members(t) : queues[t][v] = queues[t][w] => v = w
    /\ \A w \in Worker : Exists(w) => w \in Members(at[w])
    /\ \A s \in Sources : owner[s] # None =>
          /\ procs[s] > 0 /\ owner[s] \in Reached[s] /\ ~ Over(owner[s])
          /\ \A w \in Worker : w[1] = s /\ Exists(w) => w \in Members(owner[s])
    /\ \A t \in Tasks : \A w \in Members(t) :
          /\ owner[w[1]] # None => Pos(t) <= Pos(owner[w[1]])
          /\ ~ Over(t) => owner[w[1]] = t
    /\ \A t \in Tasks, s \in Sources : procs[s] > 0 /\ t \in Reached[s] =>
          /\ Live(t) => owner[s] = t
          /\ Begun(t) /\ owner[s] # None => Pos(t) <= Pos(owner[s])

\* A task begins when those before it are over, and is finished if they are.
States ==
    \A t \in Tasks :
        /\ state[t] = "no_source_data" <=> \A s \in Sources : t \in Reached[s] => procs[s] = 0
        /\ t \in Sources => state[t] # "started"
        /\ state[t] \in {"started", "error", "finished"} =>
              \A p \in PrevTasks[t] : state[p] \in {"finished", "no_source_data", "error"}
        /\ state[t] = "finished" => Whole(t)
        /\ ~ Begun(t) => rounds[t] = 0 /\ \A i \in Indices : gather[t][i] = << >>
        /\ \A i \in Indices : gather[t][i] # << >> => i \in Range(queues[t])
        /\ state[t] = "error" => rounds[t] <= 2

-----------------------------------------------------------------------------
(* The worker's side.  What a worker that lives finds in its queue fits     *)
(* where it is, whatever the manager does next.                             *)

Collected(w, m) ==
    /\ step[w] = "collect"
    /\ m.msg = Calls[at[w]][call[w]]
    /\ DOMAIN m.data = Range(queues[at[w]])
    /\ \A v \in Members(at[w]) : m.data[queues[at[w]][v]] = CallValue(v, call[w])
Letter(w, k) ==
    LET m == inbox[w][k]
    IN  /\ m.msg = "finished" => k = 1
        /\ m.msg \in {"gather", "all_gather"} => k = 1 /\ Collected(w, m)
        /\ m.msg = "error_gather" =>
              /\ step[w] = "error_sync" /\ state[at[w]] = "error"
              /\ \A j \in 1 .. k - 1 : inbox[w][j].msg = "error"
        /\ m.msg = "go" =>
              /\ (k = 1 /\ step[w] = "go") \/ (k = 2 /\ Ahead(w))
              /\ Now(w) \in Tasks /\ Begun(Now(w)) /\ Whole(Now(w))
              /\ m.idx = queues[Now(w)][w]
Placed(w) ==
    /\ Exists(w)
    /\ owner[w[1]] = Now(w)
    /\ Ahead(w) => step[w] \in {"finished_sync", "after_error"} /\ Over(at[w])
    /\ step[w] = "collect" => call[w] \in 1 .. Len(Calls[at[w]])
    /\ step[w] = "run" => call[w] \in 0 .. Len(Calls[at[w]])
    /\ step[w] \in {"run", "collect", "finished_sync"} =>
          Begun(at[w]) /\ Whole(at[w]) /\ index[w] = queues[at[w]][w]
Letters == \A w \in Worker : Alive(w) => Placed(w) /\ \A k \in DOMAIN inbox[w] : Letter(w, k)

\* What is under way from a worker.
SentBy(w, m) == m.task = at[w] /\ m.index = index[w] /\ m.value.from = w
Report(w, j) ==
    LET m == mqueue[w][j]
    IN  /\ Exists(w) /\ SentBy(w, m) /\ step[w] # "go"
        /\ m.msg = "crash" => step[w] = "exited" /\ Over(at[w])
        /\ m.msg # "crash" => Live(at[w])
        /\ m.msg = "error" => /\ j = Len(mqueue[w]) /\ step[w] \in {"error_sync", "exited"}
                              /\ m.value = ErrorValue(w)

-----------------------------------------------------------------------------
(* The protocol of a task: not begun, under way, with an error that is      *)
(* being spread, and with an error that all its workers know of.            *)

NoError(w) == \A k \in DOMAIN inbox[w] : inbox[w][k].msg # "error"
Calm(w) == \A j \in DOMAIN mqueue[w] : mqueue[w][j].msg # "error"
OnlyErrors(w) == \A k \in DOMAIN inbox[w] : inbox[w][k].msg = "error"

Idle(t, w) ==
    Alive(w) => /\ at[w] = t => step[w] = "go" /\ inbox[w] = << >>
                /\ at[w] # t => Len(inbox[w]) = 1

Heard(t, w) == rounds[t] + Len(Column(w, t))
NormalColumn(t, w) ==
    /\ Heard(t, w) <= Last(t)
    /\ \A k \in DOMAIN Column(w, t) : Column(w, t)[k] = Event(w, t, rounds[t] + k)
    /\ at[w] # t => Column(w, t) = << >>
NormalReports(t, w) ==
    at[w] = t => \A j \in DOMAIN mqueue[w] :
        LET m == mqueue[w][j]
            k == Heard(t, w) + j
        IN  /\ k <= Last(t) /\ m.index = queues[t][w]
            /\ m.msg = "error" => m.flag
            /\ m.msg # "error" => m.value = Event(w, t, k) /\ m.msg = EventMsg(t, k) /\ ~ m.flag
NormalWaits(t, w) ==
    \A k \in 1 .. Len(Calls[t]) :
        Blocks(w, t, k) /\ (k < call[w] \/ (k = call[w] /\ step[w] # "collect")) => k <= rounds[t]
NormalStep(t, w) ==
    LET sent == Heard(t, w) + Len(mqueue[w])
    IN  \/ step[w] = "go" /\ sent = 0 /\ Len(inbox[w]) = 1
        \/ step[w] = "run" /\ sent = call[w] /\ Calm(w) /\ inbox[w] = << >> /\ NormalWaits(t, w)
        \/ /\ step[w] = "collect" /\ sent = call[w] /\ Calm(w)
           /\ Blocks(w, t, call[w]) /\ NormalWaits(t, w)
           /\ IF rounds[t] < call[w] THEN inbox[w] = << >> ELSE Len(inbox[w]) = 1
        \/ /\ step[w] = "finished_sync" /\ sent = Last(t) /\ call[w] = Len(Calls[t])
           /\ Calm(w) /\ inbox[w] = << >> /\ NormalWaits(t, w)
        \/ /\ step[w] = "error_sync" /\ ~ Calm(w) /\ inbox[w] = << >>
           /\ sent = call[w] + 1 /\ call[w] < Last(t) /\ NormalWaits(t, w)
NormalWorker(t, w) ==
    /\ NormalColumn(t, w)
    /\ NormalReports(t, w)
    /\ Alive(w) => /\ NoError(w)
                   /\ at[w] # t => rounds[t] = 0 /\ Len(inbox[w]) = 2
                   /\ at[w] = t => NormalStep(t, w)

SpreadReports(t, w) ==
    at[w] = t => \A j \in DOMAIN mqueue[w] :
                    mqueue[w][j].msg # "error" => ~ mqueue[w][j].flag /\ state[t] = "error"
Warned(w) == (\E k \in DOMAIN inbox[w] : inbox[w][k].msg = "error") /\ Calm(w)
Failed(t, w) ==
    /\ step[w] = "error_sync" /\ OnlyErrors(w)
    /\ mqueue[w] = << >> => state[t] = "error"
    /\ mqueue[w] # << >> => mqueue[w][Len(mqueue[w])].msg = "error"
SpreadWorker(t, w) ==
    /\ SpreadReports(t, w)
    /\ Alive(w) => /\ at[w] # t => Warned(w)
                   /\ at[w] = t => \/ Failed(t, w)
                                   \/ step[w] \in {"go", "run", "collect", "finished_sync"} /\ Warned(w)
SpreadValue(t, i, k) ==
    LET v == gather[t][i][k]
        w == v.from
    IN  /\ state[t] = "error" /\ v = ErrorValue(w)
        /\ w \in Members(t) /\ at[w] = t /\ SlotOf(w, t) = i
        /\ step[w] \in {"error_sync", "exited"} /\ mqueue[w] = << >>
        /\ \A l \in DOMAIN gather[t][i] : gather[t][i][l].from = w => l = k

SettledWorker(t, w) ==
    /\ at[w] = t
    /\ \A j \in DOMAIN mqueue[w] :
          LET m == mqueue[w][j]
          IN  /\ m.msg = "finished" /\ m.flag /\ m.value = EndValue(w, t)
              /\ Len(mqueue[w]) = 1 /\ step[w] \in {"after_error", "exited"}
    /\ Alive(w) => \/ /\ step[w] = "error_sync" /\ mqueue[w] = << >> /\ inbox[w] # << >>
                      /\ inbox[w][Len(inbox[w])].msg = "error_gather"
                   \/ step[w] = "after_error" /\ inbox[w] = << >>
SettledValue(t, i, k) ==
    LET v == gather[t][i][k]
        w == v.from
    IN  /\ v = EndValue(w, t) /\ w \in Members(t) /\ SlotOf(w, t) = i
        /\ step[w] \in {"after_error", "exited"} /\ mqueue[w] = << >>

Spread(t) == Doomed(t) \/ (state[t] = "error" /\ rounds[t] = 0)
Settled(t) == state[t] = "error" /\ rounds[t] = 1
Protocol ==
    \A t \in Tasks :
        /\ Normal(t) => rounds[t] < Last(t) /\ \E w \in Members(t) : Column(w, t) = << >>
        /\ Spread(t) => rounds[t] = 0 /\ \A i \in Indices : \A k \in DOMAIN gather[t][i] : SpreadValue(t, i, k)
        /\ Settled(t) => \A i \in Indices : \A k \in DOMAIN gather[t][i] : SettledValue(t, i, k)
        /\ \A w \in Members(t) :
              /\ ~ Begun(t) => Idle(t, w)
              /\ Normal(t) => NormalWorker(t, w)
              /\ Spread(t) => SpreadWorker(t, w)
              /\ Settled(t) => SettledWorker(t, w)
Reports == \A w \in Worker : \A j \in DOMAIN mqueue[w] : Report(w, j)
Running == manager = "running" => Reports /\ Protocol

-----------------------------------------------------------------------------
AlikeLists(g) ==
    \A i, j \in Indices : \A k \in DOMAIN g[i] \cap DOMAIN g[j] :
        g[i][k].kind = g[j][k].kind /\ g[i][k].n = g[j][k].n
Alike == \A t \in Tasks : AlikeLists(gather[t])

Unfinished(w, t) == manager = "running" =>
    /\ \A k \in DOMAIN Column(w, t) : Column(w, t)[k].kind # "finished"
    /\ \A j \in DOMAIN mqueue[w] : mqueue[w][j].msg # "finished"
Raisers ==
    \A w \in Worker, t \in Tasks : << w, t >> \in raised =>
        \/ state[t] = "error"
        \/ /\ Live(t) /\ Whole(t) /\ at[w] = t /\ step[w] \in {"error_sync", "exited"}
           /\ w \in Members(t) /\ Unfinished(w, t)

Inv == Types /\ Pools /\ States /\ Letters /\ Running /\ Alike /\ Raisers

-----------------------------------------------------------------------------
(* The tasks, the workers and the plans. *)

LEMMA TaskFacts ==
    /\ None \notin Tasks /\ NextTasks \in [Tasks -> SUBSET Tasks]
    /\ PrevTasks \in [Tasks -> SUBSET Tasks] /\ Sources \subseteq Tasks
    /\ \A t, u \in Tasks : t \in PrevTasks[u] <=> u \in NextTasks[t]
    /\ \A t \in Tasks : t \in Sources <=> PrevTasks[t] = {}
    /\ Calls \in [Tasks -> Seq({"gather", "all_gather"})]
    /\ MaxProcs \in [Sources -> Nat]
BY OrderAssumption, CallsAssumption, BoundsAssumption DEF PrevTasks, Sources

LEMMA Places ==
    /\ \A t \in Tasks : Pos(t) \in DOMAIN Order /\ Pos(t) \in Nat /\ Order[Pos(t)] = t
    /\ \A t, u \in Tasks : u \in NextTasks[t] => Pos(t) < Pos(u)
<1>1. ASSUME NEW t \in Tasks PROVE Pos(t) \in DOMAIN Order /\ Order[Pos(t)] = t
  BY DEF Pos, Tasks
<1>2. DOMAIN Order \subseteq Nat
  BY OrderAssumption
<1> QED BY <1>1, <1>2, OrderAssumption

LEMMA WorkerFacts ==
    /\ \A w \in Worker : w[1] \in Sources /\ w[2] \in Nat /\ w = << w[1], w[2] >>
    /\ \A w \in Worker, k \in Nat : 1 <= k /\ k <= w[2] => << w[1], k >> \in Worker
BY TaskFacts DEF Worker

LEMMA TasksFinite == IsFiniteSet(Tasks)
<1>1. IsFiniteSet(DOMAIN Order)
  BY OrderAssumption, FS_Interval, LenProperties
<1>2. [i \in DOMAIN Order |-> Order[i]] \in Surjection(DOMAIN Order, Tasks)
  BY DEF Surjection, Tasks
<1> QED BY <1>1, <1>2, FS_Surjection

LEMMA WorkersFinite == IsFiniteSet(Worker) /\ Cardinality(Worker) \in Nat
<1> DEFINE Pool(s) == {s} \X (1 .. MaxProcs[s])
           pools == { Pool(s) : s \in Sources }
<1>1. IsFiniteSet(Sources)
  BY TasksFinite, TaskFacts, FS_Subset
<1>2. [s \in Sources |-> Pool(s)] \in Surjection(Sources, pools)
  BY DEF Surjection
<1>3. IsFiniteSet(pools)
  BY <1>1, <1>2, FS_Surjection
<1>4. \A P \in pools : IsFiniteSet(P)
  <2>1. ASSUME NEW s \in Sources PROVE IsFiniteSet(Pool(s))
    <3>1. IsFiniteSet({s}) /\ IsFiniteSet(1 .. MaxProcs[s])
      <4>1. MaxProcs[s] \in Int /\ 1 \in Int
        BY TaskFacts
      <4>2. IsFiniteSet(1 .. MaxProcs[s])
        BY <4>1, FS_Interval
      <4> QED BY <4>2, FS_Singleton
    <3> QED BY <3>1, FS_Product
  <2> QED BY <2>1
<1>5. IsFiniteSet(UNION pools)
  BY <1>3, <1>4, FS_UNION
<1> QED BY <1>5, FS_CardinalityType DEF Worker

\* A pool's tasks: its source, and whatever takes the output of one of them.
LEMMA ReachedFacts ==
    /\ \A s \in Sources : Reached[s] \subseteq Tasks /\ s \in Reached[s]
    /\ \A s \in Sources : \A t \in Reached[s] : NextTasks[t] \subseteq Reached[s]
    /\ \A s \in Sources : \A t \in Reached[s] : t = s \/ (t \notin Sources /\ Pos(s) < Pos(t))
<1> SUFFICES ASSUME NEW s \in Sources
             PROVE  /\ Reached[s] \subseteq Tasks /\ s \in Reached[s]
                    /\ \A t \in Reached[s] : NextTasks[t] \subseteq Reached[s]
                    /\ \A t \in Reached[s] : t = s \/ (t \notin Sources /\ Pos(s) < Pos(t))
  OBVIOUS
<1>1. Reached[s] = { t \in Tasks : \A S \in SUBSET Tasks : s \in S /\ Closed(S) => t \in S }
  BY DEF Reached
<1>2. ASSUME NEW t \in Reached[s], NEW u \in NextTasks[t] PROVE u \in Reached[s]
  <2>1. u \in Tasks /\ t \in Tasks
    BY <1>1, TaskFacts
  <2>2. ASSUME NEW S \in SUBSET Tasks, s \in S, Closed(S) PROVE u \in S
    BY <1>1, <2>2, <2>1 DEF Closed
  <2> QED BY <1>1, <2>1, <2>2
<1>3. ASSUME NEW t \in Reached[s] PROVE t = s \/ (t \notin Sources /\ Pos(s) < Pos(t))
  <2> DEFINE S == {s} \cup { r \in Tasks : r \notin Sources /\ Pos(s) < Pos(r) }
  <2>1. S \in SUBSET Tasks /\ s \in S
    BY TaskFacts
  <2>2. Closed(S)
    <3>1. ASSUME NEW r \in S, NEW u \in NextTasks[r] PROVE u \in S
      <4>1. r \in Tasks /\ u \in Tasks /\ s \in Tasks /\ u \notin Sources /\ Pos(r) < Pos(u)
        BY TaskFacts, Places, <2>1
      <4>2. Pos(s) <= Pos(r)
        BY <4>1, Places
      <4> QED BY <4>1, <4>2, Places
    <3> QED BY <3>1 DEF Closed
  <2>3. t \in S
    BY <1>1, <2>1, <2>2
  <2> QED BY <2>3
<1> QED BY <1>1, <1>2, <1>3, TaskFacts

LEMMA NextInFacts ==
    ASSUME NEW s \in Sources, NEW t \in Reached[s]
    PROVE  NextIn(s, t) = None \/ (/\ NextIn(s, t) \in Reached[s] /\ NextIn(s, t) \in Tasks
                                   /\ Pos(t) < Pos(NextIn(s, t)) /\ NextIn(s, t) \notin Sources)
<1> DEFINE later == { u \in Reached[s] : Pos(u) > Pos(t) }
           first == { u \in later : \A v \in later : Pos(u) <= Pos(v) }
<1>1. NextIn(s, t) = IF first = {} THEN None ELSE CHOOSE u \in first : TRUE
  BY DEF NextIn
<1>2. CASE first # {}
  <2>1. NextIn(s, t) \in first
    BY <1>1, <1>2
  <2>2. NextIn(s, t) \in Reached[s] /\ Pos(NextIn(s, t)) > Pos(t) /\ NextIn(s, t) \in Tasks
    BY <2>1, ReachedFacts
  <2>3. NextIn(s, t) # s
    BY <2>2, ReachedFacts, Places, TaskFacts
  <2> QED BY <2>2, <2>3, Places, ReachedFacts
<1> QED BY <1>1, <1>2

-----------------------------------------------------------------------------
(* Who is where. *)

LEMMA Modes ==
    ASSUME NEW t \in Tasks
    PROVE  /\ ~ Begun(t) => ~ Over(t) /\ ~ Live(t) /\ ~ Normal(t) /\ ~ Spread(t) /\ ~ Settled(t)
           /\ Normal(t) => Live(t) /\ ~ Over(t) /\ ~ Spread(t) /\ ~ Settled(t)
           /\ Spread(t) => Live(t) /\ ~ Over(t) /\ ~ Settled(t)
           /\ Settled(t) => Live(t) /\ ~ Over(t)
           /\ Live(t) => Normal(t) \/ Spread(t) \/ Settled(t) \/ (state[t] = "error" /\ rounds[t] \notin {0, 1, 2})
BY DEF Begun, Over, Live, Normal, Doomed, Spread, Settled

\* A worker is of one task that is not over.
LEMMA Apart ==
    ASSUME Pools, NEW t \in Tasks, NEW u \in Tasks, ~ Over(t), ~ Over(u),
           NEW w \in Members(t), w \in Members(u)
    PROVE  t = u
BY DEF Pools

LEMMA MemberFacts ==
    ASSUME Types, Pools, NEW t \in Tasks, NEW w \in Members(t)
    PROVE  /\ w \in Worker /\ Exists(w) /\ t \in Reached[w[1]]
           /\ queues[t][w] \in Range(queues[t]) /\ queues[t][w] \in Nat
BY DEF Types, TypeOK, Pools, Range, Members

LEMMA HereNow ==
    ASSUME Types, Pools, Letters, NEW t \in Tasks, ~ Over(t), NEW w \in Members(t), Alive(w)
    PROVE  Now(w) = t /\ (~ Ahead(w) => at[w] = t) /\ (Ahead(w) => at[w] # t)
<1>1. w \in Worker /\ owner[w[1]] = t
  BY MemberFacts DEF Pools
<1>2. Placed(w)
  BY <1>1 DEF Letters
<1> QED BY <1>1, <1>2 DEF Placed, Now

\* What a step of another worker leaves alone.
Unmoved(w) ==
    /\ step'[w] = step[w] /\ at'[w] = at[w] /\ index'[w] = index[w] /\ call'[w] = call[w]
    /\ mqueue'[w] = mqueue[w] /\ inbox'[w] = inbox[w]

LEMMA ManagerKept ==
    ASSUME ByWorker
    PROVE  /\ \A t : Members(t)' = Members(t) /\ Whole(t)' = Whole(t) /\ Doomed(t)' = Doomed(t)
                     /\ Begun(t)' = Begun(t) /\ Over(t)' = Over(t) /\ Live(t)' = Live(t)
                     /\ Normal(t)' = Normal(t) /\ Spread(t)' = Spread(t) /\ Settled(t)' = Settled(t)
                     /\ Last(t)' = Last(t)
           /\ \A w : Exists(w)' = Exists(w)
           /\ \A w, t : Column(w, t)' = Column(w, t) /\ Heard(t, w)' = Heard(t, w)
BY DEF ByWorker, managerVars, Members, Whole, Doomed, Begun, Over, Live, Normal, Spread, Settled, Last,
       Exists, Column, Heard

LEMMA UnmovedLetters ==
    ASSUME ByWorker, NEW w, Unmoved(w)
    PROVE  Alive(w)' = Alive(w) /\ Placed(w)' = Placed(w) /\ \A k : Letter(w, k)' = Letter(w, k)
<1>1. Alive(w)' = Alive(w) /\ Ahead(w)' = Ahead(w) /\ Now(w)' = Now(w)
  BY DEF Unmoved, Alive, Ahead, Got, Now
<1>2. Placed(w)' = Placed(w)
  BY <1>1, ManagerKept DEF Unmoved, Placed, ByWorker, managerVars
<1>3. \A m : Collected(w, m)' = Collected(w, m)
  BY ManagerKept DEF Unmoved, Collected, ByWorker, managerVars
<1>4. ASSUME NEW k PROVE Letter(w, k)' = Letter(w, k)
  BY <1>1, <1>3, ManagerKept DEF Unmoved, Letter, ByWorker, managerVars
<1> QED BY <1>1, <1>2, <1>4

LEMMA UnmovedReports ==
    ASSUME ByWorker, NEW w, Unmoved(w)
    PROVE  \A j : Report(w, j)' = Report(w, j)
<1>1. \A m : SentBy(w, m)' = SentBy(w, m)
  BY DEF Unmoved, SentBy
<1>2. ASSUME NEW j PROVE Report(w, j)' = Report(w, j)
  BY <1>1, ManagerKept DEF Unmoved, Report, ByWorker, managerVars
<1> QED BY <1>2

LEMMA UnmovedWorker ==
    ASSUME ByWorker, NEW w, Unmoved(w), NEW t
    PROVE  /\ Idle(t, w)' = Idle(t, w) /\ NormalWorker(t, w)' = NormalWorker(t, w)
           /\ SpreadWorker(t, w)' = SpreadWorker(t, w) /\ SettledWorker(t, w)' = SettledWorker(t, w)
<1> USE ManagerKept DEF Unmoved, ByWorker, managerVars
<1>1. Alive(w)' = Alive(w) /\ NoError(w)' = NoError(w) /\ Calm(w)' = Calm(w) /\ OnlyErrors(w)' = OnlyErrors(w)
  BY DEF Alive, NoError, Calm, OnlyErrors
<1>2. Idle(t, w)' = Idle(t, w)
  BY <1>1 DEF Idle
<1>3. \A k : Event(w, t, k)' = Event(w, t, k) /\ EventMsg(t, k)' = EventMsg(t, k) /\ Blocks(w, t, k)' = Blocks(w, t, k)
  BY DEF Event, EventMsg, Blocks
<1>4. NormalColumn(t, w)' = NormalColumn(t, w)
  BY <1>3 DEF NormalColumn
<1>5. NormalReports(t, w)' = NormalReports(t, w)
  BY <1>3 DEF NormalReports
<1>6. NormalWaits(t, w)' = NormalWaits(t, w)
  BY <1>3 DEF NormalWaits
<1>7. NormalStep(t, w)' = NormalStep(t, w)
  BY <1>1, <1>3, <1>6 DEF NormalStep
<1>8. NormalWorker(t, w)' = NormalWorker(t, w)
  BY <1>1, <1>4, <1>5, <1>7 DEF NormalWorker
<1>9. SpreadWorker(t, w)' = SpreadWorker(t, w)
  BY <1>1 DEF SpreadWorker, SpreadReports, Warned, Failed
<1>10. SettledWorker(t, w)' = SettledWorker(t, w)
  BY <1>1 DEF SettledWorker
<1> QED BY <1>2, <1>8, <1>9, <1>10

-----------------------------------------------------------------------------
(* A step of one worker: the others and the manager see none of it, so the  *)
(* invariant is kept if it is kept for the worker.                          *)

LEMMA WorkerStepInv ==
    ASSUME Inv, ByWorker, NEW w \in Worker, Alive(w), Types',
           \A v \in Worker : v # w => Unmoved(v),
           at'[w] = at[w] \/ w \in Members(at'[w]),
           Alive(w)' => Placed(w)' /\ \A k \in DOMAIN inbox'[w] : Letter(w, k)',
           manager = "running" => \A j \in DOMAIN mqueue'[w] : Report(w, j)',
           manager = "running" => \A t \in Tasks : w \in Members(t) =>
              /\ ~ Begun(t) => Idle(t, w)'
              /\ Normal(t) => NormalWorker(t, w)'
              /\ Spread(t) => SpreadWorker(t, w)'
              /\ Settled(t) => SettledWorker(t, w)',
           manager = "running" => \A t \in Tasks : w \in Members(t) /\ mqueue[w] = << >> =>
              /\ Spread(t) /\ at[w] = t /\ step[w] = "error_sync" =>
                    /\ at'[w] = t /\ index'[w] = index[w]
                    /\ step'[w] \in {"error_sync", "exited"} /\ mqueue'[w] = << >>
              /\ Settled(t) /\ step[w] = "after_error" =>
                    /\ index'[w] = index[w]
                    /\ step'[w] \in {"after_error", "exited"} /\ mqueue'[w] = << >>,
           \A v \in Worker, t \in Tasks : v # w => (<< v, t >> \in raised' <=> << v, t >> \in raised),
           \A t \in Tasks : << w, t >> \in raised' =>
              \/ state[t] = "error"
              \/ /\ Live(t) /\ Whole(t) /\ at'[w] = t /\ step'[w] \in {"error_sync", "exited"}
                 /\ w \in Members(t) /\ Unfinished(w, t)'
    PROVE  Inv'
<1> USE DEF Inv
<1>0. manager' = manager /\ state' = state /\ rounds' = rounds /\ queues' = queues /\ gather' = gather
      /\ owner' = owner /\ procs' = procs
  BY DEF ByWorker, managerVars
<1>1. Pools'
  <2>1. \A t \in Tasks : \A v \in Members(t)' : Exists(v)' /\ t \in Reached[v[1]]
    BY ManagerKept DEF Pools
  <2>2. \A t \in Tasks : \A u, v \in Members(t)' : queues'[t][u] = queues'[t][v] => u = v
    BY <1>0, ManagerKept DEF Pools
  <2>3. ASSUME NEW v \in Worker, Exists(v)' PROVE v \in Members(at[v])'
    <3>1. v \in Members(at[v])
      BY <2>3, ManagerKept DEF Pools
    <3>2. at'[v] = at[v] \/ (v = w /\ v \in Members(at'[v]))
      BY DEF Unmoved
    <3> QED BY <3>1, <3>2, <1>0 DEF Members
  <2>4. \A s \in Sources : owner'[s] # None =>
          /\ procs'[s] > 0 /\ owner'[s] \in Reached[s] /\ ~ Over(owner[s])'
          /\ \A v \in Worker : v[1] = s /\ Exists(v)' => v \in Members(owner[s])'
    BY <1>0 DEF Pools, Over, Exists, Members
  <2>5. \A t \in Tasks : \A v \in Members(t)' :
          /\ owner'[v[1]] # None => Pos(t) <= Pos(owner'[v[1]])
          /\ ~ Over(t)' => owner'[v[1]] = t
    BY <1>0, ManagerKept DEF Pools
  <2>6. \A t \in Tasks, s \in Sources : procs'[s] > 0 /\ t \in Reached[s] =>
          /\ Live(t)' => owner'[s] = t
          /\ Begun(t)' /\ owner'[s] # None => Pos(t) <= Pos(owner'[s])
    BY <1>0, ManagerKept DEF Pools
  <2>7. \A s \in Sources : procs'[s] > 0 => << s, 1 >> \in Worker
    BY <1>0 DEF Pools
  <2> QED BY <2>1, <2>2, <2>3, <2>4, <2>5, <2>6, <2>7 DEF Pools
<1>2. States'
  BY <1>0, ManagerKept DEF States
<1>3. Letters'
  <2> SUFFICES ASSUME NEW v \in Worker, Alive(v)'
               PROVE  Placed(v)' /\ \A k \in DOMAIN inbox'[v] : Letter(v, k)'
    BY DEF Letters
  <2>1. CASE v = w
    BY <2>1
  <2>2. CASE v # w
    <3>1. Unmoved(v) /\ inbox'[v] = inbox[v]
      BY <2>2 DEF Unmoved
    <3>2. Alive(v) /\ Placed(v)' = Placed(v) /\ \A k : Letter(v, k)' = Letter(v, k)
      BY <3>1, UnmovedLetters
    <3>3. Placed(v) /\ \A k \in DOMAIN inbox[v] : Letter(v, k)
      BY <3>2 DEF Letters
    <3> QED BY <3>1, <3>2, <3>3
  <2> QED BY <2>1, <2>2
<1>4. ASSUME manager = "running" PROVE Reports'
  BY <1>4, UnmovedReports DEF Running, Reports, Unmoved
<1>5. ASSUME manager = "running" PROVE Protocol'
  <2>1. ASSUME NEW t \in Tasks, Normal(t)'
        PROVE  rounds'[t] < Last(t)' /\ \E v \in Members(t)' : Column(v, t)' = << >>
    <3>1. Normal(t) /\ rounds[t] < Last(t) /\ \E v \in Members(t) : Column(v, t) = << >>
      BY <2>1, <1>5, ManagerKept DEF Running, Protocol
    <3> QED BY <3>1, <1>0, ManagerKept DEF Column
  <2>2. ASSUME NEW t \in Tasks, Spread(t)',
               NEW i \in Indices, NEW k \in DOMAIN gather'[t][i]
        PROVE  SpreadValue(t, i, k)'
    <3>1. Spread(t) /\ SpreadValue(t, i, k)
      BY <1>0, <1>5, <2>2, ManagerKept DEF Running, Protocol
    <3>2. PICK v : v = gather[t][i][k].from
      OBVIOUS
    <3>3. v \in Members(t) /\ v \in Worker
      BY <3>1, <3>2, MemberFacts DEF SpreadValue
    <3>4. /\ at'[v] = at[v] /\ index'[v] = index[v] /\ mqueue'[v] = mqueue[v]
          /\ step'[v] \in {"error_sync", "exited"}
      <4>1. CASE v # w
        BY <4>1, <3>1, <3>2, <3>3 DEF Unmoved, SpreadValue
      <4>2. CASE v = w
        BY <4>2, <3>1, <3>2, <3>3, <1>5 DEF SpreadValue, Alive
      <4> QED BY <4>1, <4>2
    <3> QED BY <3>1, <3>2, <3>4, <1>0, ManagerKept DEF SpreadValue, SlotOf, Members
  <2>3. ASSUME NEW t \in Tasks, Settled(t)', NEW i \in Indices, NEW k \in DOMAIN gather'[t][i]
        PROVE  SettledValue(t, i, k)'
    <3>1. Settled(t) /\ SettledValue(t, i, k)
      BY <1>0, <1>5, <2>3, ManagerKept DEF Running, Protocol
    <3>2. PICK v : v = gather[t][i][k].from
      OBVIOUS
    <3>3. v \in Members(t) /\ v \in Worker
      BY <3>1, <3>2, MemberFacts DEF SettledValue
    <3>4. /\ index'[v] = index[v] /\ mqueue'[v] = mqueue[v]
          /\ step'[v] \in {"after_error", "exited"}
      <4>1. CASE v # w
        BY <4>1, <3>1, <3>2, <3>3 DEF Unmoved, SettledValue
      <4>2. CASE v = w
        BY <4>2, <3>1, <3>2, <3>3, <1>5 DEF SettledValue, Alive
      <4> QED BY <4>1, <4>2
    <3> QED BY <3>1, <3>2, <3>4, <1>0, ManagerKept DEF SettledValue, SlotOf, Members, EndValue
  <2>4. ASSUME NEW t \in Tasks, NEW v \in Members(t)'
        PROVE  /\ ~ Begun(t)' => Idle(t, v)'
               /\ Normal(t)' => NormalWorker(t, v)'
               /\ Spread(t)' => SpreadWorker(t, v)'
               /\ Settled(t)' => SettledWorker(t, v)'
    <3>1. v \in Members(t) /\ v \in Worker
      BY <2>4, ManagerKept, MemberFacts
    <3>2. CASE v # w
      <4>1. Unmoved(v)
        BY <3>1, <3>2
      <4>2. /\ ~ Begun(t) => Idle(t, v)
            /\ Normal(t) => NormalWorker(t, v)
            /\ Spread(t) => SpreadWorker(t, v)
            /\ Settled(t) => SettledWorker(t, v)
        BY <3>1, <1>5 DEF Running, Protocol
      <4> QED BY <4>1, <4>2, UnmovedWorker, ManagerKept
    <3>3. CASE v = w
      BY <3>1, <3>3, <1>5, ManagerKept
    <3> QED BY <3>2, <3>3
  <2>5. \A t \in Tasks : Spread(t)' => rounds'[t] = 0
    BY <1>0, <1>5, ManagerKept DEF Running, Protocol
  <2> QED BY <2>1, <2>2, <2>3, <2>4, <2>5 DEF Protocol
<1>6. Alike'
  BY <1>0 DEF Alike
<1>7. Raisers'
  <2> SUFFICES ASSUME NEW v \in Worker, NEW t \in Tasks, << v, t >> \in raised'
               PROVE  \/ state'[t] = "error"
                      \/ /\ Live(t)' /\ Whole(t)' /\ at'[v] = t /\ step'[v] \in {"error_sync", "exited"}
                         /\ v \in Members(t)' /\ Unfinished(v, t)'
    BY DEF Raisers
  <2>1. CASE v = w
    BY <2>1, <1>0, ManagerKept
  <2>2. CASE v # w
    <3>1. << v, t >> \in raised /\ Unmoved(v)
      BY <2>2
    <3>2. Unfinished(v, t)' = Unfinished(v, t)
      BY <3>1, <1>0 DEF Unfinished, Column, Unmoved
    <3>3. \/ state[t] = "error"
          \/ /\ Live(t) /\ Whole(t) /\ at[v] = t /\ step[v] \in {"error_sync", "exited"}
             /\ v \in Members(t) /\ Unfinished(v, t)
      BY <3>1 DEF Raisers
    <3> QED BY <3>1, <3>2, <3>3, <1>0, ManagerKept DEF Unmoved
  <2> QED BY <2>1, <2>2
<1> QED BY <1>0, <1>1, <1>2, <1>3, <1>4, <1>5, <1>6, <1>7 DEF Running

-----------------------------------------------------------------------------
(* What the invariant says of the properties. *)

LEMMA AnswersFollow == Inv => AnswersMatch
<1> SUFFICES ASSUME Inv, NEW w \in Worker, inbox[w] # << >>, Got(w) # "error", step[w] # "exited"
             PROVE  LET m == Head(inbox[w])
                    IN  /\ step[w] = "collect" =>
                             /\ m.msg = Calls[at[w]][call[w]]
                             /\ DOMAIN m.data = Range(queues[at[w]])
                             /\ \A v \in Members(at[w]) : m.data[queues[at[w]][v]] = CallValue(v, call[w])
                        /\ step[w] \in {"finished_sync", "after_error"} => m.msg = "finished"
                        /\ step[w] = "error_sync" => m.msg = "error_gather"
  BY DEF Inv, Alike, AlikeLists, AnswersMatch
<1>1. inbox[w] \in Seq(Answer) /\ 1 \in DOMAIN inbox[w] /\ Head(inbox[w]) = inbox[w][1]
      /\ inbox[w][1] \in Answer
  <2>1. inbox[w] \in Seq(Answer)
    BY DEF Inv, Types
  <2> QED BY <2>1, LenProperties, EmptySeq
<1>2. Placed(w) /\ Letter(w, 1)
  BY <1>1 DEF Inv, Letters, Alive
<1>3. inbox[w][1].msg \in {"go", "gather", "all_gather", "finished", "error_gather"}
  BY <1>1 DEF Got, Answer
<1> QED BY <1>1, <1>2, <1>3 DEF Placed, Letter, Ahead, Got, Collected

LEMMA StagesFollow == Inv => StagesApart
<1> SUFFICES ASSUME Inv, NEW v \in Worker, NEW w \in Worker, step[w] \in {"run", "collect"},
                    v[2] <= procs[v[1]], at[v] \in PrevTasks[at[w]]
             PROVE  step[v] \notin {"run", "collect", "error_sync"} /\ state[at[v]] = "finished"
  BY DEF StagesApart
<1>1. Whole(at[w])
  BY DEF Inv, Letters, Alive, Placed
<1>2. at[v] \in Tasks /\ v \in Members(at[v])
  BY DEF Inv, Types, TypeOK, Pools, Exists
<1>3. state[at[v]] # "no_source_data"
  <2>1. at[v] \in Reached[v[1]] /\ v[1] \in Sources /\ v[2] \in Nat /\ v[2] >= 1
    BY <1>2, WorkerFacts, MemberFacts DEF Inv, Worker
  <2>2. procs[v[1]] # 0
    BY <2>1 DEF Inv, Types, TypeOK
  <2> QED BY <2>1, <2>2, <1>2 DEF Inv, States
<1>4. state[at[v]] = "finished"
  BY <1>1, <1>3 DEF Whole
<1>5. ASSUME Alive(v) PROVE step[v] \notin {"run", "collect", "error_sync"}
  <2>1. Placed(v)
    BY <1>5 DEF Inv, Letters
  <2>2. Ahead(v)
    <3> SUFFICES ASSUME ~ Ahead(v) PROVE FALSE
      OBVIOUS
    <3>1. owner[v[1]] = at[v] /\ v[1] \in Sources
      BY <2>1, WorkerFacts DEF Placed, Now
    <3>2. Over(at[v])
      BY <1>4 DEF Over
    <3>3. ~ Over(owner[v[1]]) \/ owner[v[1]] = None
      BY <3>1 DEF Inv, Pools
    <3>4. at[v] # None
      BY <1>2, TaskFacts
    <3> QED BY <3>1, <3>2, <3>3, <3>4
  <2> QED BY <2>1, <2>2 DEF Placed
<1> QED BY <1>4, <1>5 DEF Alive

LEMMA ErrorsFollow == Inv => ErrorsSpread
BY DEF Inv, Raisers, States, Whole, Live, Over, ErrorsSpread

-----------------------------------------------------------------------------
(* The start: nothing has been sent, and every worker of a source is told to *)
(* go.                                                                       *)

LEMMA FoundPlaces ==
    ASSUME Init
    PROVE  /\ procs \in [Sources -> Nat]
           /\ \A s \in Sources : procs[s] > 0 => << s, 1 >> \in Worker
<1>1. PICK found \in SUBSET Worker :
          /\ \A w \in found : \A k \in 1 .. w[2] : << w[1], k >> \in found
          /\ procs = [s \in Sources |-> Cardinality({ w \in found : w[1] = s })]
  BY DEF Init
<1>2. ASSUME NEW s \in Sources
      PROVE  /\ Cardinality({ w \in found : w[1] = s }) \in Nat
             /\ Cardinality({ w \in found : w[1] = s }) > 0 => << s, 1 >> \in Worker
  <2>1. IsFiniteSet({ w \in found : w[1] = s })
    BY WorkersFinite, FS_Subset
  <2>2. Cardinality({ w \in found : w[1] = s }) \in Nat
    BY <2>1, FS_CardinalityType
  <2>3. ASSUME Cardinality({ w \in found : w[1] = s }) > 0 PROVE << s, 1 >> \in Worker
    <3>1. PICK w \in found : w[1] = s
      BY <2>3, <2>1, FS_EmptySet
    <3>2. w[2] >= 1 /\ w[2] \in Nat
      BY <3>1 DEF Worker
    <3> QED BY <3>1, <3>2, WorkerFacts
  <2> QED BY <2>2, <2>3
<1> QED BY <1>1, <1>2

LEMMA SourcePlaces ==
    ASSUME Init, NEW t \in Tasks
    PROVE  /\ Members(t) = { v \in Worker : v[1] = t /\ v[2] <= procs[t] }
           /\ queues[t] \in [Members(t) -> 1 .. Cardinality(Members(t))]
           /\ \A w \in Members(t) : queues[t][w] = w[2] /\ w[1] = t
<1>3. procs \in [Sources -> Nat]
  BY FoundPlaces
<1>4. /\ Members(t) = { v \in Worker : v[1] = t /\ v[2] <= procs[t] }
      /\ \A w \in Members(t) : queues[t][w] = w[2] /\ w[1] = t
  BY DEF Init, Members
<1>5. ASSUME NEW w \in Members(t) PROVE w[2] \in 1 .. Cardinality(Members(t))
  <2>1. w \in Worker /\ w[1] = t /\ w[2] <= procs[t] /\ t \in Sources /\ w[2] \in Nat /\ w[2] >= 1
    BY <1>4, WorkerFacts DEF Worker
  <2>2. [k \in 1 .. w[2] |-> << t, k >>] \in Injection(1 .. w[2], Members(t))
    <3>1. ASSUME NEW k \in 1 .. w[2] PROVE << t, k >> \in Members(t)
      <4>1. << t, k >> \in Worker
        BY <2>1, WorkerFacts
      <4>2. k <= procs[t]
        BY <2>1, <1>3
      <4> QED BY <1>4, <4>1, <4>2
    <3> QED BY <3>1 DEF Injection, IsInjective
  <2>3. IsFiniteSet(Members(t)) /\ Cardinality(Members(t)) \in Nat
    BY <1>4, WorkersFinite, FS_Subset, FS_CardinalityType
  <2>4. Cardinality(1 .. w[2]) <= Cardinality(Members(t))
    BY <2>2, <2>3, FS_Injection
  <2>5. Cardinality(1 .. w[2]) = w[2]
    BY <2>1, FS_Interval
  <2> QED BY <2>1, <2>3, <2>4, <2>5
<1>6. queues[t] \in [Members(t) -> 1 .. Cardinality(Members(t))]
  BY <1>4, <1>5 DEF Init, Members
<1> QED BY <1>4, <1>6

LEMMA InitInv == Init => Inv
<1> SUFFICES ASSUME Init PROVE Inv
  OBVIOUS
<1>1. procs \in [Sources -> Nat] /\ \A s \in Sources : procs[s] > 0 => << s, 1 >> \in Worker
  BY FoundPlaces
<1>2. \A t \in Tasks : state[t] \in {"unstart", "no_source_data"} /\ rounds[t] = 0 /\ ~ Over(t)
        /\ (state[t] = "no_source_data" <=> \A s \in Sources : t \in Reached[s] => procs[s] = 0)
  <2> SUFFICES ASSUME NEW t \in Tasks
               PROVE  state[t] \in {"unstart", "no_source_data"} /\ rounds[t] = 0 /\ ~ Over(t)
                      /\ (state[t] = "no_source_data" <=> \A s \in Sources : t \in Reached[s] => procs[s] = 0)
    OBVIOUS
  <2>1. state[t] = IF \E s \in Sources : procs[s] > 0 /\ t \in Reached[s] THEN "unstart" ELSE "no_source_data"
    BY DEF Init
  <2>2. \A s \in Sources : ~ (procs[s] > 0) <=> procs[s] = 0
    BY <1>1
  <2>3. rounds[t] = 0
    BY DEF Init
  <2> QED BY <2>1, <2>2, <2>3 DEF Over
<1>3. \A w \in Worker : /\ at[w] = w[1] /\ index[w] = 0 /\ call[w] = 0 /\ mqueue[w] = << >>
                        /\ Exists(w) => step[w] = "go" /\ inbox[w] = << ToWorker("go", w[2], << >>) >>
                        /\ ~ Exists(w) => step[w] = "exited" /\ inbox[w] = << >>
                        /\ Exists(w) <=> w \in Members(w[1])
                        /\ Exists(w) => procs[w[1]] > 0 /\ owner[w[1]] = w[1]
  <2> SUFFICES ASSUME NEW w \in Worker
               PROVE  /\ at[w] = w[1] /\ index[w] = 0 /\ call[w] = 0 /\ mqueue[w] = << >>
                      /\ Exists(w) => step[w] = "go" /\ inbox[w] = << ToWorker("go", w[2], << >>) >>
                      /\ ~ Exists(w) => step[w] = "exited" /\ inbox[w] = << >>
                      /\ Exists(w) <=> w \in Members(w[1])
                      /\ Exists(w) => procs[w[1]] > 0 /\ owner[w[1]] = w[1]
    OBVIOUS
  <2>1. w[1] \in Sources /\ w[1] \in Tasks /\ w[2] >= 1 /\ w[2] \in Nat
    BY WorkerFacts, TaskFacts DEF Worker
  <2>2. Members(w[1]) = { v \in Worker : v[1] = w[1] /\ v[2] <= procs[w[1]] }
    BY <2>1, SourcePlaces
  <2>3. Exists(w) => procs[w[1]] > 0 /\ owner[w[1]] = w[1]
    <3>1. owner[w[1]] = IF procs[w[1]] > 0 THEN w[1] ELSE None
      BY <2>1 DEF Init
    <3> QED BY <2>1, <3>1, <1>1 DEF Exists
  <2> QED BY <2>1, <2>2, <2>3 DEF Init, Exists
<1>4. \A t \in Tasks : \A w \in Members(t) : w \in Worker /\ Exists(w) /\ w[1] = t /\ queues[t][w] = w[2]
  BY SourcePlaces DEF Exists
<1>5. \A s \in Sources : owner[s] # None => procs[s] > 0 /\ owner[s] = s
  BY DEF Init
<1>6. \A t \in Tasks : Begun(t) <=> t \in Sources \/ state[t] = "no_source_data"
  BY <1>2 DEF Begun
<1>7. Types
  <2>1. \A t \in Tasks : queues[t] \in [Members(t) -> 1 .. Cardinality(Members(t))] /\ Members(t) \subseteq Worker
    BY SourcePlaces
  <2>2. state \in [Tasks -> {"unstart", "no_source_data"}]
    BY DEF Init
  <2>3. owner \in [Sources -> Tasks \cup {None}]
    BY TaskFacts DEF Init
  <2>4. at \in [Worker -> Tasks]
    BY WorkerFacts, TaskFacts DEF Init
  <2>5. gather \in [Tasks -> [Indices -> Seq([kind : {"call", "error", "finished"}, n : Nat,
                                             from : Worker, next : Tasks \cup {None}])]]
    BY DEF Init
  <2>6. inbox \in [Worker -> Seq(Answer)]
    <3>1. ASSUME NEW w \in Worker PROVE inbox[w] \in Seq(Answer)
      <4>1. << >> \in ListSet
        <5>1. << >> \in [{} -> ValueSet]
          OBVIOUS
        <5>2. {} \in SUBSET Indices
          OBVIOUS
        <5> QED BY <5>1, <5>2 DEF ListSet
      <4>2. ToWorker("go", w[2], << >>) \in Answer
        BY <4>1, WorkerFacts DEF ToWorker, Answer
      <4>3. inbox[w] = << >> \/ inbox[w] = << ToWorker("go", w[2], << >>) >>
        BY <1>3
      <4>4. << >> \in Seq(Answer) /\ << ToWorker("go", w[2], << >>) >> \in Seq(Answer)
        BY <4>2
      <4> QED BY <4>3, <4>4
    <3> QED BY <3>1 DEF Init
  <2>7. /\ manager \in {"running", "ended"}
        /\ step \in [Worker -> {"go", "run", "collect", "finished_sync", "error_sync", "after_error", "exited"}]
        /\ mqueue \in [Worker -> Seq(Message)]
        /\ index \in [Worker -> Nat] /\ call \in [Worker -> Nat]
        /\ rounds \in [Tasks -> Nat] /\ raised \subseteq Worker \X Tasks
    BY DEF Init
  <2> QED BY <1>1, <2>1, <2>2, <2>3, <2>4, <2>5, <2>6, <2>7 DEF Types, TypeOK
<1>8. Pools
  <2>1. \A t \in Tasks : \A w \in Members(t) : Exists(w) /\ t \in Reached[w[1]]
    BY <1>4, WorkerFacts, ReachedFacts
  <2>2. \A t \in Tasks : \A v, w \in Members(t) : queues[t][v] = queues[t][w] => v = w
    BY <1>4, WorkerFacts
  <2>3. \A w \in Worker : Exists(w) => w \in Members(at[w])
    BY <1>3
  <2>4. \A s \in Sources : owner[s] # None =>
          /\ procs[s] > 0 /\ owner[s] \in Reached[s] /\ ~ Over(owner[s])
          /\ \A w \in Worker : w[1] = s /\ Exists(w) => w \in Members(owner[s])
    BY <1>2, <1>3, <1>5, TaskFacts, ReachedFacts
  <2>5. \A t \in Tasks : \A w \in Members(t) :
          /\ owner[w[1]] # None => Pos(t) <= Pos(owner[w[1]])
          /\ ~ Over(t) => owner[w[1]] = t
    BY <1>3, <1>4, Places
  <2>6. \A t \in Tasks, s \in Sources : procs[s] > 0 /\ t \in Reached[s] =>
          /\ Live(t) => owner[s] = t
          /\ Begun(t) /\ owner[s] # None => Pos(t) <= Pos(owner[s])
    <3> SUFFICES ASSUME NEW t \in Tasks, NEW s \in Sources, procs[s] > 0, t \in Reached[s], Begun(t)
                 PROVE  owner[s] = t /\ Pos(t) <= Pos(t)
      BY DEF Live
    <3>1. t \in Sources
      BY <1>1, <1>2, <1>6
    <3>2. t = s
      BY <3>1, ReachedFacts
    <3> QED BY <3>2, Places DEF Init
  <2> QED BY <1>1, <2>1, <2>2, <2>3, <2>4, <2>5, <2>6 DEF Pools
<1>9. States
  <2>1. \A t \in Tasks : \A i \in Indices : gather[t][i] = << >>
    BY DEF Init
  <2> QED BY <1>2, <2>1 DEF States
<1>10. ASSUME NEW w \in Worker, Alive(w)
       PROVE  /\ Exists(w) /\ ~ Ahead(w) /\ Now(w) = w[1] /\ at[w] = w[1] /\ w[1] \in Sources /\ w[1] \in Tasks
              /\ w \in Members(w[1]) /\ owner[w[1]] = w[1] /\ queues[w[1]][w] = w[2]
              /\ step[w] = "go" /\ Len(inbox[w]) = 1 /\ DOMAIN inbox[w] = {1}
              /\ inbox[w][1].msg = "go" /\ inbox[w][1].idx = w[2]
  <2>1. Exists(w) /\ inbox[w] = << ToWorker("go", w[2], << >>) >>
    BY <1>3, <1>10 DEF Alive
  <2>2. ~ Ahead(w) /\ inbox[w][1].msg = "go" /\ inbox[w][1].idx = w[2] /\ Len(inbox[w]) = 1 /\ DOMAIN inbox[w] = {1}
    BY <2>1 DEF Ahead, Got, ToWorker
  <2> QED BY <2>1, <2>2, <1>3, <1>4, TaskFacts, WorkerFacts DEF Now
<1>11. Letters
  <2>1. ASSUME NEW w \in Worker, Alive(w) PROVE Placed(w) /\ Letter(w, 1)
    <3>1. Begun(w[1]) /\ Whole(w[1])
      BY <2>1, <1>6, <1>10, TaskFacts DEF Whole
    <3> QED BY <2>1, <1>10, <3>1 DEF Placed, Letter
  <2> QED BY <2>1, <1>10 DEF Letters
<1>12. Running
  <2>1. Reports
    BY <1>3 DEF Reports
  <2>2. ASSUME NEW t \in Tasks
        PROVE  /\ ~ Spread(t) /\ ~ Settled(t)
               /\ Normal(t) => rounds[t] < Last(t) /\ \E w \in Members(t) : Column(w, t) = << >>
               /\ \A w \in Members(t) : Begun(t) /\ (Normal(t) => NormalWorker(t, w))
    <3>1. ~ Spread(t) /\ ~ Settled(t)
      BY <1>2 DEF Spread, Settled, Doomed
    <3>2. rounds[t] = 0 /\ Last(t) \in Nat /\ Last(t) > 0
      BY TaskFacts, <1>2, LenProperties DEF Last
    <3>3. ASSUME NEW w \in Members(t)
          PROVE  w \in Worker /\ at[w] = t /\ Column(w, t) = << >> /\ t \in Sources /\ Begun(t) /\ mqueue[w] = << >>
      <4>1. w \in Worker /\ w[1] = t /\ queues[t][w] = w[2]
        BY <1>4
      <4>2. w[2] \in Indices
        <5>1. w[2] \in 1 .. Cardinality(Members(t))
          BY <4>1, SourcePlaces
        <5>2. Cardinality(Members(t)) <= Cardinality(Worker)
          BY SourcePlaces, WorkersFinite, FS_Subset
        <5>3. Cardinality(Members(t)) \in Nat
          BY SourcePlaces, WorkersFinite, FS_Subset, FS_CardinalityType
        <5> QED BY <5>1, <5>2, <5>3, WorkersFinite DEF Indices
      <4>3. Column(w, t) = << >>
        BY <4>1, <4>2 DEF Init, Column
      <4> QED BY <4>1, <4>3, <1>3, WorkerFacts DEF Begun
    <3>4. ASSUME Normal(t) PROVE \E w \in Members(t) : Column(w, t) = << >>
      <4>1. t \in Sources /\ state[t] # "no_source_data"
        BY <3>4, <1>6 DEF Normal, Live
      <4>2. procs[t] > 0
        <5>1. PICK s \in Sources : t \in Reached[s] /\ procs[s] # 0
          BY <4>1, <1>2
        <5>2. t = s
          BY <5>1, <4>1, ReachedFacts
        <5> QED BY <5>1, <5>2, <1>1
      <4>3. << t, 1 >> \in Members(t)
        BY <4>1, <4>2, <1>1, SourcePlaces
      <4> QED BY <4>3, <3>3
    <3>5. ASSUME NEW w \in Members(t) PROVE NormalWorker(t, w)
      <4>1. Heard(t, w) = 0
        BY <3>2, <3>3, <3>5 DEF Heard
      <4>2. ASSUME Alive(w) PROVE NoError(w) /\ NormalStep(t, w)
        <5>1. Heard(t, w) + Len(mqueue[w]) = 0
          BY <3>3, <4>1
        <5> QED BY <3>3, <4>2, <5>1, <1>10 DEF NoError, NormalStep
      <4> QED BY <4>1, <4>2, <3>2, <3>3 DEF NormalWorker, NormalColumn, NormalReports
    <3> QED BY <3>1, <3>2, <3>3, <3>4, <3>5
  <2>3. Protocol
    BY <2>2 DEF Protocol
  <2> QED BY <2>1, <2>3 DEF Running
<1>13. Alike
  BY DEF Init, Alike, AlikeLists
<1>14. Raisers
  BY DEF Init, Raisers
<1> QED BY <1>7, <1>8, <1>9, <1>11, <1>12, <1>13, <1>14 DEF Inv

-----------------------------------------------------------------------------
(* The steps of a worker. *)

LEMMA QueueFacts ==
    ASSUME Types, NEW w \in Worker
    PROVE  /\ inbox[w] \in Seq(Answer) /\ DOMAIN inbox[w] = 1 .. Len(inbox[w]) /\ Len(inbox[w]) \in Nat
           /\ inbox[w] # << >> => /\ Len(inbox[w]) >= 1 /\ 1 \in DOMAIN inbox[w] /\ Got(w) = inbox[w][1].msg
                                  /\ Head(inbox[w]) = inbox[w][1]
           /\ \A k \in DOMAIN inbox[w] : inbox[w][k] \in Answer
           /\ mqueue[w] \in Seq(Message) /\ DOMAIN mqueue[w] = 1 .. Len(mqueue[w]) /\ Len(mqueue[w]) \in Nat
           /\ mqueue[w] # << >> => Len(mqueue[w]) >= 1 /\ 1 \in DOMAIN mqueue[w] /\ Head(mqueue[w]) = mqueue[w][1]
           /\ \A k \in DOMAIN mqueue[w] : mqueue[w][k] \in Message
<1>1. inbox[w] \in Seq(Answer) /\ mqueue[w] \in Seq(Message)
  BY DEF Types
<1>2. /\ inbox[w] # << >> => Len(inbox[w]) \in Nat \ {0}
      /\ mqueue[w] # << >> => Len(mqueue[w]) \in Nat \ {0}
  BY <1>1, EmptySeq
<1>3. /\ DOMAIN inbox[w] = 1 .. Len(inbox[w]) /\ Len(inbox[w]) \in Nat
      /\ DOMAIN mqueue[w] = 1 .. Len(mqueue[w]) /\ Len(mqueue[w]) \in Nat
  BY <1>1, LenProperties
<1>4. /\ \A k \in DOMAIN inbox[w] : inbox[w][k] \in Answer
      /\ \A k \in DOMAIN mqueue[w] : mqueue[w][k] \in Message
  BY <1>1, <1>3, ElementOfSeq
<1> QED BY <1>1, <1>2, <1>3, <1>4 DEF Got

LEMMA TaskLen ==
    ASSUME NEW t \in Tasks
    PROVE  /\ Len(Calls[t]) \in Nat /\ Last(t) = Len(Calls[t]) + 1 /\ Last(t) \in Nat
           /\ \A k \in 1 .. Len(Calls[t]) : Calls[t][k] \in {"gather", "all_gather"}
<1>1. Calls[t] \in Seq({"gather", "all_gather"})
  BY TaskFacts
<1> QED BY <1>1, LenProperties, ElementOfSeq DEF Last

LEMMA ColumnFacts ==
    ASSUME Types, NEW t \in Tasks, NEW w \in Members(t)
    PROVE  /\ queues[t][w] \in Indices /\ Column(w, t) \in Seq(ValueSet)
           /\ Len(Column(w, t)) \in Nat /\ DOMAIN Column(w, t) = 1 .. Len(Column(w, t))
           /\ Heard(t, w) = rounds[t] + Len(Column(w, t)) /\ Heard(t, w) \in Nat /\ rounds[t] \in Nat
           /\ Heard(t, w) >= rounds[t]
<1>1. IsFiniteSet(Members(t)) /\ Cardinality(Members(t)) <= Cardinality(Worker) /\ Cardinality(Members(t)) \in Nat
  BY WorkersFinite, FS_Subset, FS_CardinalityType DEF Types, TypeOK
<1>2. queues[t][w] \in 1 .. Cardinality(Members(t))
  BY DEF Types, TypeOK
<1>3. queues[t][w] \in Indices
  BY <1>1, <1>2, WorkersFinite DEF Indices
<1>4. Column(w, t) \in Seq(ValueSet)
  <2>1. gather \in [Tasks -> [Indices -> Seq(ValueSet)]]
    BY DEF Types, TypeOK, ValueSet
  <2> QED BY <1>3, <2>1 DEF Column
<1>5. rounds[t] \in Nat
  BY DEF Types
<1>6. Len(Column(w, t)) \in Nat /\ DOMAIN Column(w, t) = 1 .. Len(Column(w, t))
  BY <1>4, LenProperties
<1> QED BY <1>3, <1>4, <1>5, <1>6 DEF Heard

\* A worker that lives and has no leave to go on is in a task that is not over.
LEMMA Here ==
    ASSUME Inv, NEW w \in Worker, Alive(w)
    PROVE  /\ Placed(w) /\ Exists(w) /\ at[w] \in Tasks /\ w \in Members(at[w]) /\ w[1] \in Sources
           /\ state[at[w]] # "no_source_data"
           /\ owner[w[1]] = Now(w)
           /\ \A u \in Tasks : ~ Over(u) /\ w \in Members(u) => u = Now(w)
           /\ ~ Ahead(w) => /\ Now(w) = at[w] /\ ~ Over(at[w])
                            /\ Begun(at[w]) => Live(at[w])
           /\ \A k \in DOMAIN inbox[w] : Letter(w, k)
<1>1. Placed(w) /\ \A k \in DOMAIN inbox[w] : Letter(w, k)
  BY DEF Inv, Letters
<1>2. Exists(w) /\ owner[w[1]] = Now(w)
  BY <1>1 DEF Placed
<1>3. at[w] \in Tasks /\ w \in Members(at[w]) /\ w[1] \in Sources /\ w[2] >= 1 /\ w[2] \in Nat
  BY <1>2, WorkerFacts DEF Inv, Types, TypeOK, Pools, Worker
<1>4. state[at[w]] # "no_source_data"
  <2>1. at[w] \in Reached[w[1]]
    BY <1>3, MemberFacts DEF Inv
  <2>2. procs[w[1]] # 0
    BY <1>2, <1>3 DEF Exists, Inv, Types, TypeOK
  <2> QED BY <1>3, <2>1, <2>2 DEF Inv, States
<1>5. \A u \in Tasks : ~ Over(u) /\ w \in Members(u) => u = Now(w)
  BY <1>2 DEF Inv, Pools
<1>6. ASSUME ~ Ahead(w) PROVE Now(w) = at[w] /\ ~ Over(at[w])
  <2>1. Now(w) = at[w]
    BY <1>6 DEF Now
  <2> QED BY <2>1, <1>2, <1>3, TaskFacts DEF Inv, Pools
<1> QED BY <1>1, <1>2, <1>3, <1>4, <1>5, <1>6 DEF Live

\* A worker with no leave to go on finds nothing but errors behind its first message.
LEMMA OnlyErrorsBehind ==
    ASSUME Inv, NEW w \in Worker, Alive(w), ~ Ahead(w), NEW k \in DOMAIN inbox[w]
    PROVE  \/ inbox[w][k].msg = "error"
           \/ inbox[w][k].msg = "error_gather" /\ step[w] = "error_sync"
           \/ inbox[w][k].msg = "go" /\ step[w] = "go" /\ k = 1
           \/ inbox[w][k].msg \in {"gather", "all_gather"} /\ step[w] = "collect" /\ k = 1
<1>1. Letter(w, k)
  BY Here
<1>2. inbox[w][k] \in Answer /\ inbox[w] # << >> /\ Got(w) = inbox[w][1].msg
  BY QueueFacts, EmptySeq DEF Inv
<1>3. inbox[w][k].msg \in {"go", "gather", "all_gather", "finished", "error", "error_gather"}
  BY <1>2 DEF Answer
<1> QED BY <1>1, <1>2, <1>3 DEF Letter, Collected, Ahead

\* The frame of a step after which the worker is where it was.
LEMMA HereStepInv ==
    ASSUME Inv, ByWorker, NEW w \in Worker, Alive(w), ~ Ahead(w), Types',
           \A v \in Worker : v # w => Unmoved(v),
           NEW t, at[w] = t, at'[w] = t, step'[w] # "exited", ~ Ahead(w)',
           step'[w] = "collect" => call'[w] \in 1 .. Len(Calls[t]),
           step'[w] = "run" => call'[w] \in 0 .. Len(Calls[t]),
           step'[w] \in {"run", "collect", "finished_sync"} => Begun(t) /\ Whole(t) /\ index'[w] = queues[t][w],
           \A k \in DOMAIN inbox'[w] : Letter(w, k)',
           manager = "running" => \A j \in DOMAIN mqueue'[w] : Report(w, j)',
           manager = "running" => Begun(t),
           manager = "running" /\ Normal(t) => NormalWorker(t, w)',
           manager = "running" /\ Spread(t) => SpreadWorker(t, w)',
           manager = "running" /\ Settled(t) => SettledWorker(t, w)',
           manager = "running" /\ mqueue[w] = << >> =>
              /\ Spread(t) /\ step[w] = "error_sync" =>
                    index'[w] = index[w] /\ step'[w] = "error_sync" /\ mqueue'[w] = << >>
              /\ Settled(t) /\ step[w] = "after_error" =>
                    index'[w] = index[w] /\ step'[w] = "after_error" /\ mqueue'[w] = << >>,
           \A v \in Worker, u \in Tasks : v # w => (<< v, u >> \in raised' <=> << v, u >> \in raised),
           \A u \in Tasks : << w, u >> \in raised' =>
              \/ state[u] = "error"
              \/ u = t /\ Live(t) /\ Whole(t) /\ step'[w] = "error_sync" /\ Unfinished(w, t)'
    PROVE  Inv'
<1>1. /\ Exists(w) /\ owner[w[1]] = t /\ t \in Tasks /\ w \in Members(t)
      /\ \A u \in Tasks : ~ Over(u) /\ w \in Members(u) => u = t
  BY Here
<1>2. Placed(w)'
  <2>1. Exists(w)' /\ owner'[w[1]] = t /\ queues' = queues
    BY <1>1, ManagerKept DEF ByWorker, managerVars
  <2>2. Now(w)' = t
    BY DEF Now
  <2>3. Begun(t)' = Begun(t) /\ Whole(t)' = Whole(t)
    BY ManagerKept
  <2> QED BY <2>1, <2>2, <2>3 DEF Placed
<1>3. manager = "running" => \A u \in Tasks : w \in Members(u) =>
              /\ ~ Begun(u) => Idle(u, w)'
              /\ Normal(u) => NormalWorker(u, w)'
              /\ Spread(u) => SpreadWorker(u, w)'
              /\ Settled(u) => SettledWorker(u, w)'
  BY <1>1, Modes
<1>4. manager = "running" => \A u \in Tasks : w \in Members(u) /\ mqueue[w] = << >> =>
              /\ Spread(u) /\ at[w] = u /\ step[w] = "error_sync" =>
                    /\ at'[w] = u /\ index'[w] = index[w]
                    /\ step'[w] \in {"error_sync", "exited"} /\ mqueue'[w] = << >>
              /\ Settled(u) /\ step[w] = "after_error" =>
                    /\ index'[w] = index[w]
                    /\ step'[w] \in {"after_error", "exited"} /\ mqueue'[w] = << >>
  BY <1>1, Modes
<1>5. \A u \in Tasks : << w, u >> \in raised' =>
              \/ state[u] = "error"
              \/ /\ Live(u) /\ Whole(u) /\ at'[w] = u /\ step'[w] \in {"error_sync", "exited"}
                 /\ w \in Members(u) /\ Unfinished(w, u)'
  BY <1>1
<1>6. at'[w] = at[w] \/ w \in Members(at'[w])
  OBVIOUS
<1>7. Alive(w)' => Placed(w)' /\ \A k \in DOMAIN inbox'[w] : Letter(w, k)'
  BY <1>2
<1> QED BY <1>3, <1>4, <1>5, <1>6, <1>7, WorkerStepInv

LEMMA TakeFacts ==
    ASSUME Types, NEW w \in Worker, inbox[w] # << >>, Take(w)
    PROVE  /\ inbox' \in [Worker -> Seq(Answer)]
           /\ Len(inbox'[w]) = Len(inbox[w]) - 1 /\ DOMAIN inbox'[w] = 1 .. Len(inbox[w]) - 1
           /\ inbox'[w] = << >> <=> Len(inbox[w]) = 1
           /\ \A k \in DOMAIN inbox'[w] : inbox'[w][k] = inbox[w][k + 1] /\ k + 1 \in DOMAIN inbox[w] /\ k \in Nat /\ k > 0
           /\ inbox'[w] # << >> => Head(inbox'[w]) = inbox[w][2] /\ 2 \in DOMAIN inbox[w]
           /\ \A v \in Worker : v # w => inbox'[v] = inbox[v]
<1>1. inbox'[w] = Tail(inbox[w]) /\ inbox[w] \in Seq(Answer) /\ \A v \in Worker : v # w => inbox'[v] = inbox[v]
  BY DEF Types, Take
<1>2. inbox'[w] \in Seq(Answer) /\ Len(inbox'[w]) = Len(inbox[w]) - 1
      /\ \A k \in 1 .. Len(inbox'[w]) : inbox'[w][k] = inbox[w][k + 1]
  BY <1>1, HeadTailProperties
<1>3. DOMAIN inbox'[w] = 1 .. Len(inbox'[w]) /\ Len(inbox[w]) \in Nat /\ DOMAIN inbox[w] = 1 .. Len(inbox[w])
      /\ Len(inbox'[w]) \in Nat
  BY <1>1, <1>2, LenProperties
<1>4. inbox' \in [Worker -> Seq(Answer)]
  BY <1>2 DEF Types, Take
<1>5. inbox'[w] = << >> <=> Len(inbox'[w]) = 0
  BY <1>2, EmptySeq
<1>6. ASSUME inbox'[w] # << >> PROVE Head(inbox'[w]) = inbox[w][2] /\ 2 \in DOMAIN inbox[w]
  <2>1. 1 \in 1 .. Len(inbox'[w]) /\ Head(inbox'[w]) = inbox'[w][1]
    BY <1>2, <1>3, <1>5, <1>6
  <2> QED BY <2>1, <1>2, <1>3
<1> QED BY <1>1, <1>2, <1>3, <1>4, <1>5, <1>6

LEMMA SendFacts ==
    ASSUME Types, NEW w \in Worker, NEW msg \in {"gather", "all_gather", "finished", "error", "crash"},
           NEW value \in ValueSet, NEW flag \in BOOLEAN, Send(w, msg, value, flag)
    PROVE  /\ mqueue' \in [Worker -> Seq(Message)]
           /\ Len(mqueue'[w]) = Len(mqueue[w]) + 1 /\ DOMAIN mqueue'[w] = 1 .. Len(mqueue[w]) + 1
           /\ mqueue'[w] # << >>
           /\ \A j \in DOMAIN mqueue[w] : mqueue'[w][j] = mqueue[w][j]
           /\ mqueue'[w][Len(mqueue[w]) + 1] =
                 [task |-> at[w], index |-> index[w], msg |-> msg, value |-> value, flag |-> flag]
           /\ \A j \in DOMAIN mqueue'[w] : j \in DOMAIN mqueue[w] \/ j = Len(mqueue[w]) + 1
           /\ \A v \in Worker : v # w => mqueue'[v] = mqueue[v]
<1> DEFINE m == [task |-> at[w], index |-> index[w], msg |-> msg, value |-> value, flag |-> flag]
<1>1. m \in Message
  BY DEF Types, TypeOK, Message
<1>2. mqueue'[w] = Append(mqueue[w], m) /\ mqueue[w] \in Seq(Message)
      /\ \A v \in Worker : v # w => mqueue'[v] = mqueue[v]
  BY DEF Types, Send
<1>3. DOMAIN mqueue[w] = 1 .. Len(mqueue[w]) /\ Len(mqueue[w]) \in Nat
  BY <1>2, LenProperties
<1>4. /\ mqueue'[w] \in Seq(Message) /\ Len(mqueue'[w]) = Len(mqueue[w]) + 1
      /\ \A j \in 1 .. Len(mqueue[w]) : mqueue'[w][j] = mqueue[w][j]
      /\ mqueue'[w][Len(mqueue[w]) + 1] = m
  BY <1>1, <1>2, AppendProperties
<1>5. DOMAIN mqueue'[w] = 1 .. Len(mqueue[w]) + 1
  BY <1>4, LenProperties
<1>6. mqueue' \in [Worker -> Seq(Message)]
  BY <1>4 DEF Types, Send
<1>7. mqueue'[w] # << >>
  BY <1>4, <1>3, EmptySeq
<1> QED BY <1>2, <1>3, <1>4, <1>5, <1>6, <1>7

LEMMA WorkerTypes ==
    ASSUME Types, ByWorker,
           step' \in [Worker -> {"go", "run", "collect", "finished_sync", "error_sync", "after_error", "exited"}],
           at' \in [Worker -> Tasks], mqueue' \in [Worker -> Seq(Message)], inbox' \in [Worker -> Seq(Answer)],
           index' \in [Worker -> Nat], call' \in [Worker -> Nat], raised' \subseteq Worker \X Tasks
    PROVE  Types'
<1>1. /\ procs' = procs /\ manager' = manager /\ state' = state /\ queues' = queues /\ gather' = gather
      /\ owner' = owner /\ rounds' = rounds /\ \A t : Members(t)' = Members(t)
  BY ManagerKept DEF ByWorker, managerVars
<1>2. TypeOK'
  BY <1>1 DEF Types, TypeOK
<1> QED BY <1>1, <1>2 DEF Types

LEMMA ColumnKept ==
    ASSUME ByWorker, NEW w, NEW t
    PROVE  /\ at'[w] = at[w] /\ NormalColumn(t, w) => NormalColumn(t, w)'
           /\ \A k : /\ Event(w, t, k)' = Event(w, t, k) /\ EventMsg(t, k)' = EventMsg(t, k)
                     /\ Blocks(w, t, k)' = Blocks(w, t, k)
           /\ Last(t)' = Last(t) /\ rounds'[t] = rounds[t] /\ Heard(t, w)' = Heard(t, w)
           /\ Column(w, t)' = Column(w, t) /\ queues'[t] = queues[t] /\ state' = state
<1>1. \A k : /\ Event(w, t, k)' = Event(w, t, k) /\ EventMsg(t, k)' = EventMsg(t, k)
             /\ Blocks(w, t, k)' = Blocks(w, t, k)
  BY DEF ByWorker, managerVars, Event, EventMsg, Blocks, Last, EndValue
<1>2. /\ Last(t)' = Last(t) /\ rounds'[t] = rounds[t] /\ Heard(t, w)' = Heard(t, w)
      /\ Column(w, t)' = Column(w, t) /\ queues'[t] = queues[t] /\ state' = state
  BY ManagerKept DEF ByWorker, managerVars
<1>3. at'[w] = at[w] /\ NormalColumn(t, w) => NormalColumn(t, w)'
  BY <1>1, <1>2 DEF NormalColumn
<1> QED BY <1>1, <1>2, <1>3

LEMMA RecvGoInv ==
    ASSUME Inv, NEW w \in Worker, RecvGo(w)
    PROVE  Inv'
<1> DEFINE t == at[w]
<1>1. step[w] = "go" /\ Alive(w) /\ inbox[w] # << >> /\ ByWorker /\ Types
  BY DEF RecvGo, Waiting, Alive, Inv
<1>2. ~ Ahead(w) /\ Placed(w)
  BY <1>1, Here DEF Placed
<1>3. 1 \in DOMAIN inbox[w] /\ Head(inbox[w]) = inbox[w][1] /\ inbox[w][1].msg = "go" /\ inbox[w][1] \in Answer
  BY <1>1, <1>2, QueueFacts, OnlyErrorsBehind DEF RecvGo
<1>5. Begun(t) /\ Whole(t) /\ inbox[w][1].idx = queues[t][w] /\ t \in Tasks /\ w \in Members(t) /\ Live(t)
  BY <1>1, <1>2, <1>3, Here DEF Letter
<1>6. /\ inbox' \in [Worker -> Seq(Answer)]
      /\ Len(inbox'[w]) = Len(inbox[w]) - 1 /\ DOMAIN inbox'[w] = 1 .. Len(inbox[w]) - 1
      /\ inbox'[w] = << >> <=> Len(inbox[w]) = 1
      /\ \A k \in DOMAIN inbox'[w] : inbox'[w][k] = inbox[w][k + 1] /\ k + 1 \in DOMAIN inbox[w] /\ k \in Nat /\ k > 0
      /\ inbox'[w] # << >> => Head(inbox'[w]) = inbox[w][2] /\ 2 \in DOMAIN inbox[w]
      /\ \A v \in Worker : v # w => inbox'[v] = inbox[v]
  BY <1>1, TakeFacts DEF RecvGo
<1>7. /\ step'[w] = "run" /\ at' = at /\ index'[w] = queues[t][w] /\ call'[w] = 0 /\ mqueue' = mqueue
      /\ step' \in [Worker -> {"go", "run", "collect", "finished_sync", "error_sync", "after_error", "exited"}]
      /\ index' \in [Worker -> Nat] /\ call' \in [Worker -> Nat]
      /\ \A v \in Worker : v # w => step'[v] = step[v] /\ index'[v] = index[v] /\ call'[v] = call[v]
      /\ raised' = raised
  BY <1>1, <1>3, <1>5 DEF RecvGo, Goto, Types, TypeOK, Answer
<1>8. Types'
  <2>1. at \in [Worker -> Tasks] /\ mqueue \in [Worker -> Seq(Message)] /\ raised \subseteq Worker \X Tasks
    BY <1>1 DEF Types, TypeOK
  <2> QED BY <2>1, <1>1, <1>6, <1>7, WorkerTypes
<1>9. \A v \in Worker : v # w => Unmoved(v)
  BY <1>6, <1>7 DEF Unmoved
<1>10. \A k \in DOMAIN inbox'[w] : inbox'[w][k].msg = "error"
  <2> SUFFICES ASSUME NEW k \in DOMAIN inbox'[w] PROVE inbox'[w][k].msg = "error"
    OBVIOUS
  <2>1. inbox'[w][k] = inbox[w][k + 1] /\ k + 1 \in DOMAIN inbox[w] /\ k + 1 # 1
    BY <1>6
  <2> QED BY <2>1, <1>1, <1>2, OnlyErrorsBehind
<1>11. ~ Ahead(w)' /\ \A k \in DOMAIN inbox'[w] : Letter(w, k)'
  <2>1. ~ Ahead(w)'
    BY <1>6, <1>10 DEF Ahead, Got
  <2> QED BY <2>1, <1>10 DEF Letter
<1>12. ASSUME manager = "running" PROVE mqueue[w] = << >>
  <2>1. \A j \in DOMAIN mqueue[w] : Report(w, j)
    BY <1>12 DEF Inv, Running, Reports
  <2> QED BY <2>1, <1>1, QueueFacts DEF Report
<1>13. ASSUME manager = "running", Normal(t) PROVE NormalWorker(t, w)'
  <2>1. NormalWorker(t, w)
    BY <1>13, <1>5 DEF Inv, Running, Protocol
  <2>2. NormalStep(t, w) /\ mqueue[w] = << >> /\ Len(inbox[w]) = 1 /\ Heard(t, w) + Len(mqueue[w]) = 0
    BY <2>1, <1>1, <1>12, <1>13 DEF NormalWorker, NormalStep
  <2>3. NormalColumn(t, w)'
    BY <2>1, <1>1, <1>7, ColumnKept DEF NormalWorker
  <2>4. NormalReports(t, w)'
    BY <2>2, <1>7 DEF NormalReports
  <2>5. NormalStep(t, w)'
    <3>1. Heard(t, w)' + Len(mqueue'[w]) = call'[w] /\ inbox'[w] = << >>
      BY <2>2, <1>1, <1>6, <1>7, ColumnKept
    <3>2. Calm(w)'
      BY <2>2, <1>7 DEF Calm
    <3>3. NormalWaits(t, w)'
      BY <1>7 DEF NormalWaits
    <3> QED BY <3>1, <3>2, <3>3, <1>7 DEF NormalStep
  <2> QED BY <2>3, <2>4, <2>5, <1>6, <1>7, <2>2 DEF NormalWorker, NoError
<1>14. ASSUME manager = "running", Spread(t) PROVE SpreadWorker(t, w)'
  <2>1. SpreadWorker(t, w)
    BY <1>14, <1>5 DEF Inv, Running, Protocol
  <2>2. PICK k \in DOMAIN inbox[w] : inbox[w][k].msg = "error"
    BY <2>1, <1>1 DEF SpreadWorker, Failed, Warned
  <2>3. k - 1 \in DOMAIN inbox'[w] /\ inbox'[w][k - 1] = inbox[w][k]
    BY <2>2, <1>3, <1>6, QueueFacts, <1>1
  <2>4. Warned(w)'
    BY <2>2, <2>3, <1>7, <1>12, <1>14 DEF Warned, Calm
  <2> QED BY <2>4, <1>7, <1>12, <1>14 DEF SpreadWorker, SpreadReports
<1>15. ASSUME manager = "running", Settled(t) PROVE FALSE
  BY <1>15, <1>5, <1>1 DEF Inv, Running, Protocol, SettledWorker
<1>16. \A u \in Tasks : << w, u >> \in raised => state[u] = "error"
  BY <1>1 DEF Inv, Raisers
<1>17. 0 \in 0 .. Len(Calls[t])
  BY <1>5, TaskLen
<1>18. manager = "running" => \A j \in DOMAIN mqueue'[w] : Report(w, j)'
  BY <1>7, <1>12
<1> HIDE DEF t
<1> QED BY <1>1, <1>2, <1>5, <1>7, <1>8, <1>9, <1>11, <1>13, <1>14, <1>15, <1>16, <1>17, <1>18, HereStepInv DEF t

\* A worker that is where task code runs has told the manager of no error.
LEMMA NoErrorSent ==
    ASSUME Inv, manager = "running", NEW w \in Worker, step[w] \notin {"error_sync", "exited"}
    PROVE  Calm(w)
BY DEF Inv, Running, Reports, Report, Calm

\* Nothing is under way from a worker that has leave to go on.
LEMMA NothingSentAhead ==
    ASSUME Inv, manager = "running", NEW w \in Worker, Alive(w), Ahead(w)
    PROVE  mqueue[w] = << >>
<1>1. Over(at[w]) /\ step[w] # "exited"
  BY Here DEF Placed, Alive
<1>2. \A j \in DOMAIN mqueue[w] : Report(w, j)
  BY DEF Inv, Running, Reports
<1>3. \A j \in DOMAIN mqueue[w] : FALSE
  BY <1>1, <1>2 DEF Report, Live
<1> QED BY <1>3, QueueFacts DEF Inv

LEMMA WorkerModes ==
    ASSUME Inv, manager = "running", NEW t \in Tasks, NEW w \in Members(t)
    PROVE  /\ ~ Begun(t) => Idle(t, w)
           /\ Normal(t) => NormalWorker(t, w)
           /\ Spread(t) => SpreadWorker(t, w)
           /\ Settled(t) => SettledWorker(t, w)
BY DEF Inv, Running, Protocol

LEMMA ValueTypes ==
    ASSUME Types, NEW w \in Worker
    PROVE  /\ \A n \in Nat : CallValue(w, n) \in ValueSet
           /\ ErrorValue(w) \in ValueSet
           /\ at[w] \in Reached[w[1]] => FinishedValue(w) \in ValueSet
<1>1. w[1] \in Sources
  BY WorkerFacts
<1>2. at[w] \in Reached[w[1]] => NextIn(w[1], at[w]) \in Tasks \cup {None}
  BY <1>1, NextInFacts
<1> QED BY <1>2 DEF CallValue, ErrorValue, FinishedValue, Value, ValueSet

\* A report sent from a task under way is as the manager expects it.
LEMMA SentReports ==
    ASSUME Inv, manager = "running", ByWorker, NEW w \in Worker, Alive(w), Live(at[w]), Calm(w),
           at'[w] = at[w], index'[w] = index[w], step'[w] # "go",
           NEW msg \in {"gather", "all_gather", "finished", "error"},
           NEW value \in ValueSet, NEW flag \in BOOLEAN, Send(w, msg, value, flag), value.from = w,
           msg = "error" => step'[w] = "error_sync" /\ value = ErrorValue(w)
    PROVE  \A j \in DOMAIN mqueue'[w] : Report(w, j)'
<1> SUFFICES ASSUME NEW j \in DOMAIN mqueue'[w] PROVE Report(w, j)'
  OBVIOUS
<1>1. /\ Len(mqueue'[w]) = Len(mqueue[w]) + 1
      /\ \A i \in DOMAIN mqueue[w] : mqueue'[w][i] = mqueue[w][i]
      /\ mqueue'[w][Len(mqueue[w]) + 1] =
            [task |-> at[w], index |-> index[w], msg |-> msg, value |-> value, flag |-> flag]
      /\ \A i \in DOMAIN mqueue'[w] : i \in DOMAIN mqueue[w] \/ i = Len(mqueue[w]) + 1
  BY SendFacts DEF Inv
<1>2. Exists(w)' /\ Live(at[w])' /\ step[w] # "exited"
  <2>1. Exists(w)
    BY Here
  <2> QED BY <2>1, ManagerKept DEF Alive
<1>3. CASE j \in DOMAIN mqueue[w]
  <2>1. Report(w, j) /\ mqueue'[w][j] = mqueue[w][j]
    BY <1>1, <1>3 DEF Inv, Running, Reports
  <2>2. mqueue[w][j].msg \notin {"error", "crash"} /\ SentBy(w, mqueue[w][j])
    BY <1>2, <1>3, <2>1 DEF Report, Calm
  <2> QED BY <1>2, <2>1, <2>2 DEF Report, SentBy
<1>4. CASE j = Len(mqueue[w]) + 1
  <2>1. PICK m : m = mqueue'[w][j] /\ m.task = at[w] /\ m.index = index[w] /\ m.msg = msg /\ m.value = value
    BY <1>1, <1>4
  <2> QED BY <1>1, <1>2, <1>4, <2>1 DEF Report, SentBy
<1> QED BY <1>1, <1>3, <1>4

LEMMA CollectiveInv ==
    ASSUME Inv, NEW w \in Worker, Collective(w)
    PROVE  Inv'
<1>0. PICK t, n, kind : t = at[w] /\ n = call[w] + 1 /\ kind = Calls[t][n]
  OBVIOUS
<1> USE <1>0
<1>1. step[w] = "run" /\ Alive(w) /\ ByWorker /\ Types /\ call[w] < Len(Calls[t])
  BY <1>0 DEF Collective, Alive, Inv
<1>2. ~ Ahead(w) /\ Placed(w)
  BY <1>1, Here DEF Placed
<1>3. /\ Begun(t) /\ Whole(t) /\ t \in Tasks /\ w \in Members(t) /\ Live(t) /\ index[w] = queues[t][w]
      /\ call[w] \in Nat /\ n \in 1 .. Len(Calls[t]) /\ Len(Calls[t]) \in Nat /\ Last(t) = Len(Calls[t]) + 1
      /\ kind \in {"gather", "all_gather"}
  <2>1. /\ Begun(t) /\ Whole(t) /\ t \in Tasks /\ w \in Members(t) /\ Live(t) /\ index[w] = queues[t][w]
        /\ call[w] \in 0 .. Len(Calls[t])
    BY <1>1, <1>2, Here DEF Placed
  <2>2. Len(Calls[t]) \in Nat /\ Last(t) = Len(Calls[t]) + 1
        /\ \A k \in 1 .. Len(Calls[t]) : Calls[t][k] \in {"gather", "all_gather"}
    BY <2>1, TaskLen
  <2>3. call[w] \in Nat /\ n \in 1 .. Len(Calls[t])
    BY <1>1, <2>1, <2>2
  <2> QED BY <2>1, <2>2, <2>3
<1>4. Send(w, kind, CallValue(w, n), FALSE) /\ CallValue(w, n) \in ValueSet
  <2>1. Send(w, kind, CallValue(w, n), FALSE)
    BY DEF Collective
  <2>2. n \in Nat
    BY <1>3
  <2>3. CallValue(w, n) \in ValueSet
    BY <2>2, <1>1, ValueTypes
  <2> QED BY <2>1, <2>3
<1>5. /\ mqueue' \in [Worker -> Seq(Message)]
      /\ Len(mqueue'[w]) = Len(mqueue[w]) + 1 /\ DOMAIN mqueue'[w] = 1 .. Len(mqueue[w]) + 1
      /\ mqueue'[w] # << >>
      /\ \A j \in DOMAIN mqueue[w] : mqueue'[w][j] = mqueue[w][j]
      /\ mqueue'[w][Len(mqueue[w]) + 1] =
            [task |-> t, index |-> index[w], msg |-> kind, value |-> CallValue(w, n), flag |-> FALSE]
      /\ \A j \in DOMAIN mqueue'[w] : j \in DOMAIN mqueue[w] \/ j = Len(mqueue[w]) + 1
      /\ \A v \in Worker : v # w => mqueue'[v] = mqueue[v]
  <2>1. kind \in {"gather", "all_gather", "finished", "error", "crash"} /\ FALSE \in BOOLEAN /\ Types
    BY <1>1, <1>3
  <2> HIDE <1>0
  <2> QED BY <2>1, <1>0, <1>4, SendFacts
<1>6. /\ inbox' = inbox /\ at' = at /\ index' = index /\ raised' = raised
      /\ call' \in [Worker -> Nat] /\ call'[w] = n
      /\ step' \in [Worker -> {"go", "run", "collect", "finished_sync", "error_sync", "after_error", "exited"}]
      /\ step'[w] = IF kind = "all_gather" \/ index[w] = 1 THEN "collect" ELSE "run"
      /\ \A v \in Worker : v # w => step'[v] = step[v] /\ call'[v] = call[v]
  <2>1. /\ inbox' = inbox /\ at' = at /\ index' = index /\ raised' = raised
        /\ call' = [call EXCEPT ![w] = @ + 1]
        /\ IF kind = "all_gather" \/ index[w] = 1 THEN Goto(w, "collect") ELSE UNCHANGED step
    BY DEF Collective
  <2>2. call \in [Worker -> Nat]
        /\ step \in [Worker -> {"go", "run", "collect", "finished_sync", "error_sync", "after_error", "exited"}]
    BY <1>1 DEF Types, TypeOK
  <2>3. call' \in [Worker -> Nat] /\ call'[w] = n /\ \A v \in Worker : v # w => call'[v] = call[v]
    BY <2>1, <2>2
  <2>4. CASE kind = "all_gather" \/ index[w] = 1
    BY <2>1, <2>2, <2>3, <2>4 DEF Goto
  <2>5. CASE ~ (kind = "all_gather" \/ index[w] = 1)
    BY <2>1, <2>2, <2>3, <2>5, <1>1
  <2> QED BY <2>4, <2>5
<1>7. Types'
  <2>1. /\ at \in [Worker -> Tasks] /\ inbox \in [Worker -> Seq(Answer)] /\ raised \subseteq Worker \X Tasks
        /\ index \in [Worker -> Nat]
    BY <1>1 DEF Types, TypeOK
  <2> QED BY <2>1, <1>1, <1>5, <1>6, WorkerTypes
<1>8. \A v \in Worker : v # w => Unmoved(v)
  BY <1>5, <1>6 DEF Unmoved
<1>9. \A k \in DOMAIN inbox[w] : inbox[w][k].msg = "error"
  BY <1>1, <1>2, OnlyErrorsBehind
<1>10. ~ Ahead(w)' /\ \A k \in DOMAIN inbox'[w] : Letter(w, k)'
  <2>1. ~ Ahead(w)'
    BY <1>2, <1>6 DEF Ahead, Got
  <2> QED BY <2>1, <1>6, <1>9 DEF Letter
<1>11. ASSUME manager = "running" PROVE \A j \in DOMAIN mqueue'[w] : Report(w, j)'
  <2>1. Calm(w) /\ step'[w] # "go" /\ at'[w] = at[w] /\ index'[w] = index[w] /\ CallValue(w, n).from = w
    BY <1>1, <1>6, <1>11, NoErrorSent DEF CallValue, Value
  <2>2. kind \in {"gather", "all_gather", "finished", "error"} /\ kind # "error" /\ FALSE \in BOOLEAN
    BY <1>3
  <2> HIDE <1>0
  <2> QED BY <2>1, <2>2, <1>0, <1>1, <1>2, <1>3, <1>4, <1>11, SentReports
<1>12. ASSUME manager = "running" PROVE Calm(w) /\ Calm(w)'
  <2>1. Calm(w)
    BY <1>1, <1>12, NoErrorSent
  <2>2. kind # "error"
    BY <1>3
  <2>3. ASSUME NEW j \in DOMAIN mqueue'[w] PROVE mqueue'[w][j].msg # "error"
    <3>1. CASE j \in DOMAIN mqueue[w]
      BY <2>1, <3>1, <1>5 DEF Calm
    <3>2. CASE j = Len(mqueue[w]) + 1
      BY <2>2, <3>2, <1>5
    <3> QED BY <3>1, <3>2, <1>5
  <2> QED BY <2>1, <2>3 DEF Calm
<1>13. ASSUME manager = "running", Normal(t) PROVE NormalWorker(t, w)'
  <2>1. NormalWorker(t, w)
    BY <1>3, <1>13, WorkerModes
  <2>2. Heard(t, w) + Len(mqueue[w]) = call[w] /\ inbox[w] = << >> /\ NormalWaits(t, w)
    BY <2>1, <1>1, <1>13 DEF NormalWorker, NormalStep
  <2>3. Heard(t, w) \in Nat /\ rounds[t] \in Nat /\ Heard(t, w) >= rounds[t] /\ Len(mqueue[w]) \in Nat
        /\ queues[t][w] \in Indices
    BY <1>1, <1>3, ColumnFacts, QueueFacts
  <2>4. NormalColumn(t, w)'
    BY <2>1, <1>1, <1>6, ColumnKept DEF NormalWorker
  <2>5. NormalReports(t, w)'
    <3> SUFFICES ASSUME NEW j \in DOMAIN mqueue'[w]
                 PROVE  LET m == mqueue'[w][j]
                            k == Heard(t, w) + j
                        IN  /\ k <= Last(t) /\ m.index = queues[t][w]
                            /\ m.msg = "error" => m.flag
                            /\ m.msg # "error" => m.value = Event(w, t, k) /\ m.msg = EventMsg(t, k) /\ ~ m.flag
      BY <1>1, ColumnKept DEF NormalReports
    <3>1. CASE j \in DOMAIN mqueue[w]
      BY <2>1, <3>1, <1>5 DEF NormalWorker, NormalReports
    <3>2. CASE j = Len(mqueue[w]) + 1
      <4>1. Heard(t, w) + j = n /\ n < Last(t)
        BY <2>2, <2>3, <3>2, <1>3
      <4>2. Event(w, t, n) = CallValue(w, n) /\ EventMsg(t, n) = kind
        BY <4>1 DEF Event, EventMsg
      <4> QED BY <4>1, <4>2, <3>2, <1>3, <1>5
    <3> QED BY <3>1, <3>2, <1>5
  <2>6. NormalStep(t, w)'
    <3>1. Heard(t, w)' + Len(mqueue'[w]) = call'[w] /\ inbox'[w] = << >> /\ rounds'[t] = rounds[t]
          /\ rounds[t] < call'[w]
      <4>1. Heard(t, w)' = Heard(t, w) /\ rounds'[t] = rounds[t]
        BY <1>1, ColumnKept
      <4>2. call'[w] = call[w] + 1 /\ inbox'[w] = << >> /\ Len(mqueue'[w]) = Len(mqueue[w]) + 1
        BY <2>2, <1>5, <1>6
      <4>3. Heard(t, w) + (Len(mqueue[w]) + 1) = call[w] + 1 /\ rounds[t] < call[w] + 1
        BY <2>2, <2>3
      <4> QED BY <4>1, <4>2, <4>3
    <3>2. Blocks(w, t, n)' <=> step'[w] = "collect"
      BY <1>1, <1>3, <1>6, ColumnKept DEF Blocks
    <3>3. NormalWaits(t, w)'
      <4> SUFFICES ASSUME NEW k \in 1 .. Len(Calls[t]), Blocks(w, t, k)',
                          k < call'[w] \/ (k = call'[w] /\ step'[w] # "collect")
                   PROVE  k <= rounds[t]
        BY <3>1 DEF NormalWaits
      <4>1. Blocks(w, t, k)
        BY <1>1, ColumnKept
      <4>2. k # n
        BY <3>2, <1>6
      <4>3. k < call[w] \/ k = call[w]
        BY <4>2, <1>3, <1>6
      <4> QED BY <2>2, <4>1, <4>3, <1>1 DEF NormalWaits
    <3> QED BY <3>1, <3>2, <3>3, <1>6, <1>12, <1>13 DEF NormalStep
  <2> QED BY <2>2, <2>4, <2>5, <2>6, <1>6 DEF NormalWorker, NoError
<1>14. ASSUME manager = "running", Spread(t) PROVE SpreadWorker(t, w)'
  <2>1. SpreadWorker(t, w)
    BY <1>3, <1>14, WorkerModes
  <2>2. state[t] = "error" /\ state' = state
    BY <1>1, <1>3, <1>14, ColumnKept DEF Spread, Doomed
  <2>3. SpreadReports(t, w)'
    BY <2>1, <2>2, <1>5, <1>6 DEF SpreadWorker, SpreadReports
  <2>4. Warned(w)'
    BY <2>1, <1>1, <1>6, <1>12, <1>14 DEF SpreadWorker, Warned, Failed
  <2> QED BY <2>3, <2>4, <1>6 DEF SpreadWorker
<1>15. ASSUME manager = "running", Settled(t) PROVE FALSE
  BY <1>15, <1>1, <1>3, WorkerModes DEF SettledWorker
<1>16. \A u \in Tasks : << w, u >> \in raised => state[u] = "error"
  BY <1>1 DEF Inv, Raisers
<1>17. step'[w] # "exited" /\ step'[w] \in {"run", "collect"} /\ call'[w] \in 1 .. Len(Calls[t]) /\ call'[w] \in 0 .. Len(Calls[t])
       /\ index'[w] = queues[t][w] /\ at[w] = t /\ at'[w] = t
  BY <1>0, <1>3, <1>6
<1> QED BY <1>1, <1>2, <1>3, <1>6, <1>7, <1>8, <1>10, <1>11, <1>13, <1>14, <1>15, <1>16, <1>17, HereStepInv

LEMMA OnlyErrorsLeft ==
    ASSUME Inv, NEW w \in Worker, Alive(w), ~ Ahead(w), step[w] # "error_sync", inbox[w] # << >>, Take(w)
    PROVE  ~ Ahead(w)' /\ \A k \in DOMAIN inbox'[w] : inbox'[w][k].msg = "error" /\ Letter(w, k)'
<1>1. /\ \A k \in DOMAIN inbox'[w] : inbox'[w][k] = inbox[w][k + 1] /\ k + 1 \in DOMAIN inbox[w] /\ k \in Nat /\ k > 0
      /\ inbox'[w] # << >> => Head(inbox'[w]) = inbox[w][2] /\ 2 \in DOMAIN inbox[w]
  BY TakeFacts DEF Inv
<1>2. ASSUME NEW k \in DOMAIN inbox[w], k > 1 PROVE inbox[w][k].msg = "error"
  BY <1>2, OnlyErrorsBehind
<1>3. ~ Ahead(w)'
  BY <1>1, <1>2 DEF Ahead, Got
<1> QED BY <1>1, <1>2, <1>3 DEF Letter

LEMMA RecvCollectedInv ==
    ASSUME Inv, NEW w \in Worker, RecvCollected(w)
    PROVE  Inv'
<1>0. PICK t : t = at[w]
  OBVIOUS
<1> USE <1>0
<1>1. step[w] = "collect" /\ Alive(w) /\ inbox[w] # << >> /\ ByWorker /\ Types /\ Take(w)
  BY DEF RecvCollected, Waiting, Alive, Inv
<1>2. ~ Ahead(w) /\ Placed(w)
  BY <1>1, Here DEF Placed
<1>3. /\ Begun(t) /\ Whole(t) /\ t \in Tasks /\ w \in Members(t) /\ Live(t) /\ index[w] = queues[t][w]
      /\ call[w] \in 1 .. Len(Calls[t]) /\ Len(Calls[t]) \in Nat /\ Last(t) = Len(Calls[t]) + 1
  BY <1>1, <1>2, Here, TaskLen DEF Placed
<1>4. /\ inbox' \in [Worker -> Seq(Answer)]
      /\ inbox'[w] = << >> <=> Len(inbox[w]) = 1
      /\ \A k \in DOMAIN inbox'[w] : inbox'[w][k] = inbox[w][k + 1] /\ k + 1 \in DOMAIN inbox[w] /\ k \in Nat /\ k > 0
      /\ DOMAIN inbox'[w] = 1 .. Len(inbox[w]) - 1
      /\ \A v \in Worker : v # w => inbox'[v] = inbox[v]
  BY <1>1, TakeFacts
<1>5. /\ at' = at /\ index' = index /\ call' = call /\ mqueue' = mqueue /\ raised' = raised
      /\ step' \in [Worker -> {"go", "run", "collect", "finished_sync", "error_sync", "after_error", "exited"}]
      /\ step'[w] = "run" /\ \A v \in Worker : v # w => step'[v] = step[v]
  BY <1>1 DEF RecvCollected, Goto, Types, TypeOK
<1>6. Types'
  <2>1. /\ at \in [Worker -> Tasks] /\ mqueue \in [Worker -> Seq(Message)] /\ raised \subseteq Worker \X Tasks
        /\ index \in [Worker -> Nat] /\ call \in [Worker -> Nat]
    BY <1>1 DEF Types, TypeOK
  <2> QED BY <2>1, <1>1, <1>4, <1>5, WorkerTypes
<1>7. \A v \in Worker : v # w => Unmoved(v)
  BY <1>4, <1>5 DEF Unmoved
<1>8. ~ Ahead(w)' /\ \A k \in DOMAIN inbox'[w] : inbox'[w][k].msg = "error" /\ Letter(w, k)'
  BY <1>1, <1>2, OnlyErrorsLeft
<1>9. ASSUME manager = "running" PROVE Calm(w) /\ Calm(w)' /\ \A j \in DOMAIN mqueue'[w] : Report(w, j)'
  <2>1. Calm(w)
    BY <1>1, <1>9, NoErrorSent
  <2>2. ASSUME NEW j \in DOMAIN mqueue[w] PROVE Report(w, j)'
    <3>1. Report(w, j)
      BY <1>9 DEF Inv, Running, Reports
    <3>2. mqueue[w][j].msg \notin {"error", "crash"}
      BY <3>1, <1>1 DEF Report
    <3> QED BY <3>1, <3>2, <1>1, <1>5, ManagerKept DEF Report, SentBy
  <2> QED BY <2>1, <2>2, <1>5 DEF Calm
<1>10. ASSUME manager = "running", Normal(t) PROVE NormalWorker(t, w)'
  <2>1. NormalWorker(t, w)
    BY <1>3, <1>10, WorkerModes
  <2>2. /\ Heard(t, w) + Len(mqueue[w]) = call[w] /\ NormalWaits(t, w) /\ call[w] <= rounds[t] /\ Len(inbox[w]) = 1
    <3>1. call[w] \in Nat /\ rounds[t] \in Nat
      BY <1>1, <1>3 DEF Types
    <3> QED BY <2>1, <3>1, <1>1, <1>10 DEF NormalWorker, NormalStep
  <2>3. NormalColumn(t, w)'
    BY <2>1, <1>1, <1>5, ColumnKept DEF NormalWorker
  <2>4. NormalReports(t, w)'
    BY <2>1, <1>1, <1>5, ColumnKept DEF NormalWorker, NormalReports
  <2>5. NormalStep(t, w)'
    <3>1. Heard(t, w)' + Len(mqueue'[w]) = call'[w] /\ inbox'[w] = << >> /\ rounds'[t] = rounds[t]
      BY <2>2, <1>1, <1>4, <1>5, ColumnKept
    <3>2. NormalWaits(t, w)'
      <4> SUFFICES ASSUME NEW k \in 1 .. Len(Calls[t]), Blocks(w, t, k), k < call[w] \/ k = call[w]
                   PROVE  k <= rounds[t]
        BY <3>1, <1>1, <1>5, ColumnKept DEF NormalWaits
      <4> QED BY <2>2 DEF NormalWaits
    <3> QED BY <3>1, <3>2, <1>5, <1>9, <1>10 DEF NormalStep
  <2>6. inbox'[w] = << >>
    BY <2>2, <1>4
  <2> QED BY <2>3, <2>4, <2>5, <2>6, <1>5 DEF NormalWorker, NoError
<1>11. ASSUME manager = "running", Spread(t) PROVE SpreadWorker(t, w)'
  <2>1. SpreadWorker(t, w)
    BY <1>3, <1>11, WorkerModes
  <2>2. SpreadReports(t, w)'
    BY <2>1, <1>1, <1>5, ColumnKept DEF SpreadWorker, SpreadReports
  <2>3. PICK k \in DOMAIN inbox[w] : inbox[w][k].msg = "error"
    BY <2>1, <1>1 DEF SpreadWorker, Failed, Warned
  <2>4. k - 1 \in DOMAIN inbox'[w] /\ inbox'[w][k - 1] = inbox[w][k]
    BY <2>3, <1>1, <1>4, QueueFacts DEF RecvCollected
  <2>5. Warned(w)'
    BY <2>3, <2>4, <1>9, <1>11 DEF Warned
  <2> QED BY <2>2, <2>5, <1>5 DEF SpreadWorker
<1>12. ASSUME manager = "running", Settled(t) PROVE FALSE
  BY <1>12, <1>1, <1>3, WorkerModes DEF SettledWorker
<1>13. \A u \in Tasks : << w, u >> \in raised => state[u] = "error"
  BY <1>1 DEF Inv, Raisers
<1>14. step'[w] = "run" /\ call'[w] \in 0 .. Len(Calls[t]) /\ index'[w] = queues[t][w] /\ at'[w] = t
  BY <1>3, <1>5
<1> QED BY <1>1, <1>2, <1>3, <1>5, <1>6, <1>7, <1>8, <1>9, <1>10, <1>11, <1>12, <1>13, <1>14, HereStepInv

LEMMA FinishInv ==
    ASSUME Inv, NEW w \in Worker, Finish(w)
    PROVE  Inv'
<1>0. PICK t : t = at[w]
  OBVIOUS
<1> USE <1>0
<1>1. step[w] = "run" /\ Alive(w) /\ ByWorker /\ Types /\ call[w] = Len(Calls[t])
  BY DEF Finish, Alive, Inv
<1>2. ~ Ahead(w) /\ Placed(w)
  BY <1>1, Here DEF Placed
<1>3. /\ Begun(t) /\ Whole(t) /\ t \in Tasks /\ w \in Members(t) /\ Live(t) /\ index[w] = queues[t][w]
      /\ Len(Calls[t]) \in Nat /\ Last(t) = Len(Calls[t]) + 1 /\ t \in Reached[w[1]]
  BY <1>1, <1>2, Here, TaskLen, MemberFacts DEF Placed, Inv
<1>4. /\ Send(w, "finished", FinishedValue(w), FALSE) /\ FinishedValue(w) \in ValueSet
      /\ FinishedValue(w) = EndValue(w, t) /\ FinishedValue(w).from = w
  BY <1>1, <1>3, ValueTypes DEF Finish, FinishedValue, EndValue, Value
<1>5. /\ mqueue' \in [Worker -> Seq(Message)]
      /\ Len(mqueue'[w]) = Len(mqueue[w]) + 1 /\ DOMAIN mqueue'[w] = 1 .. Len(mqueue[w]) + 1
      /\ \A j \in DOMAIN mqueue[w] : mqueue'[w][j] = mqueue[w][j]
      /\ mqueue'[w][Len(mqueue[w]) + 1] =
            [task |-> at[w], index |-> index[w], msg |-> "finished", value |-> FinishedValue(w), flag |-> FALSE]
      /\ \A j \in DOMAIN mqueue'[w] : j \in DOMAIN mqueue[w] \/ j = Len(mqueue[w]) + 1
      /\ \A v \in Worker : v # w => mqueue'[v] = mqueue[v]
  BY <1>1, <1>4, SendFacts
<1>6. /\ inbox' = inbox /\ at' = at /\ index' = index /\ raised' = raised /\ call' = call
      /\ step' \in [Worker -> {"go", "run", "collect", "finished_sync", "error_sync", "after_error", "exited"}]
      /\ step'[w] = "finished_sync" /\ \A v \in Worker : v # w => step'[v] = step[v]
  BY <1>1 DEF Finish, Goto, Types, TypeOK
<1>7. Types'
  <2>1. /\ at \in [Worker -> Tasks] /\ inbox \in [Worker -> Seq(Answer)] /\ raised \subseteq Worker \X Tasks
        /\ index \in [Worker -> Nat] /\ call \in [Worker -> Nat]
    BY <1>1 DEF Types, TypeOK
  <2> QED BY <2>1, <1>1, <1>5, <1>6, WorkerTypes
<1>8. \A v \in Worker : v # w => Unmoved(v)
  BY <1>5, <1>6 DEF Unmoved
<1>9. \A k \in DOMAIN inbox[w] : inbox[w][k].msg = "error"
  BY <1>1, <1>2, OnlyErrorsBehind
<1>10. ~ Ahead(w)' /\ \A k \in DOMAIN inbox'[w] : Letter(w, k)'
  <2>1. ~ Ahead(w)'
    BY <1>2, <1>6 DEF Ahead, Got
  <2> QED BY <2>1, <1>6, <1>9 DEF Letter
<1>11. ASSUME manager = "running" PROVE Calm(w) /\ Calm(w)' /\ \A j \in DOMAIN mqueue'[w] : Report(w, j)'
  <2>1. Calm(w)
    BY <1>1, <1>11, NoErrorSent
  <2>2. Calm(w)'
    BY <2>1, <1>5 DEF Calm
  <2>3. at'[w] = at[w] /\ index'[w] = index[w] /\ step'[w] # "go" /\ FALSE \in BOOLEAN
    BY <1>6
  <2> QED BY <2>1, <2>2, <2>3, <1>1, <1>3, <1>4, <1>11, SentReports
<1>12. ASSUME manager = "running", Normal(t) PROVE NormalWorker(t, w)'
  <2>1. NormalWorker(t, w)
    BY <1>3, <1>12, WorkerModes
  <2>2. Heard(t, w) + Len(mqueue[w]) = call[w] /\ inbox[w] = << >> /\ NormalWaits(t, w)
    BY <2>1, <1>1, <1>12 DEF NormalWorker, NormalStep
  <2>3. Heard(t, w) \in Nat /\ Len(mqueue[w]) \in Nat
    BY <1>1, <1>3, ColumnFacts, QueueFacts
  <2>4. NormalColumn(t, w)'
    BY <2>1, <1>1, <1>6, ColumnKept DEF NormalWorker
  <2>5. NormalReports(t, w)'
    <3> SUFFICES ASSUME NEW j \in DOMAIN mqueue'[w]
                 PROVE  LET m == mqueue'[w][j]
                            k == Heard(t, w) + j
                        IN  /\ k <= Last(t) /\ m.index = queues[t][w]
                            /\ m.msg = "error" => m.flag
                            /\ m.msg # "error" => m.value = Event(w, t, k) /\ m.msg = EventMsg(t, k) /\ ~ m.flag
      BY <1>1, ColumnKept DEF NormalReports
    <3>1. CASE j \in DOMAIN mqueue[w]
      BY <2>1, <3>1, <1>5 DEF NormalWorker, NormalReports
    <3>2. CASE j = Len(mqueue[w]) + 1
      <4>1. Heard(t, w) + j = Last(t) /\ ~ (Last(t) < Last(t)) /\ Last(t) <= Last(t)
        BY <2>2, <2>3, <3>2, <1>1, <1>3
      <4>2. Event(w, t, Last(t)) = EndValue(w, t) /\ EventMsg(t, Last(t)) = "finished"
        BY <4>1 DEF Event, EventMsg
      <4> QED BY <4>1, <4>2, <3>2, <1>3, <1>4, <1>5
    <3> QED BY <3>1, <3>2, <1>5
  <2>6. NormalStep(t, w)'
    <3>1. Heard(t, w)' + Len(mqueue'[w]) = Last(t)' /\ inbox'[w] = << >> /\ rounds'[t] = rounds[t]
      <4>1. Heard(t, w)' = Heard(t, w) /\ Last(t)' = Last(t) /\ rounds'[t] = rounds[t]
        BY <1>1, ColumnKept
      <4>2. Heard(t, w) + (Len(mqueue[w]) + 1) = Last(t)
        BY <2>2, <2>3, <1>1, <1>3
      <4> QED BY <4>1, <4>2, <2>2, <1>5, <1>6
    <3>2. NormalWaits(t, w)'
      BY <2>2, <1>1, <1>6, ColumnKept DEF NormalWaits
    <3> QED BY <3>1, <3>2, <1>1, <1>6, <1>11, <1>12 DEF NormalStep
  <2> QED BY <2>2, <2>4, <2>5, <2>6, <1>6 DEF NormalWorker, NoError
<1>13. ASSUME manager = "running", Spread(t) PROVE SpreadWorker(t, w)'
  <2>1. SpreadWorker(t, w)
    BY <1>3, <1>13, WorkerModes
  <2>2. state[t] = "error" /\ state' = state
    BY <1>1, <1>3, <1>13, ColumnKept DEF Spread, Doomed
  <2>3. SpreadReports(t, w)'
    BY <2>1, <2>2, <1>5, <1>6 DEF SpreadWorker, SpreadReports
  <2>4. Warned(w)'
    BY <2>1, <1>1, <1>6, <1>11, <1>13 DEF SpreadWorker, Warned, Failed
  <2> QED BY <2>3, <2>4, <1>6 DEF SpreadWorker
<1>14. ASSUME manager = "running", Settled(t) PROVE FALSE
  BY <1>14, <1>1, <1>3, WorkerModes DEF SettledWorker
<1>15. \A u \in Tasks : << w, u >> \in raised => state[u] = "error"
  BY <1>1 DEF Inv, Raisers
<1>16. step'[w] = "finished_sync" /\ index'[w] = queues[t][w] /\ at'[w] = t
  BY <1>3, <1>6
<1> QED BY <1>1, <1>2, <1>3, <1>6, <1>7, <1>8, <1>10, <1>11, <1>12, <1>13, <1>14, <1>15, <1>16, HereStepInv

LEMMA OtherTaskErrorInv ==
    ASSUME Inv, NEW w \in Worker, step[w] \in {"go", "collect", "finished_sync"}, inbox[w] # << >>,
           OtherTaskError(w)
    PROVE  Inv'
<1>0. PICK t : t = at[w]
  OBVIOUS
<1> USE <1>0
<1>1. step[w] \notin {"run", "error_sync", "after_error", "exited"} /\ Alive(w) /\ ByWorker /\ Types /\ Take(w)
  BY DEF OtherTaskError, ErrorSync, Alive, Inv
<1>2. ~ Ahead(w) /\ Placed(w) /\ 1 \in DOMAIN inbox[w] /\ inbox[w][1].msg = "error"
  BY <1>1, Here, QueueFacts DEF OtherTaskError, Ahead
<1>3. t \in Tasks /\ w \in Members(t) /\ (Begun(t) => Live(t))
  BY <1>1, <1>2, Here
<1>4. Send(w, "error", ErrorValue(w), FALSE) /\ ErrorValue(w) \in ValueSet /\ ErrorValue(w).from = w
  BY <1>1, ValueTypes DEF OtherTaskError, ErrorSync, ErrorValue, Value
<1>5. /\ mqueue' \in [Worker -> Seq(Message)]
      /\ Len(mqueue'[w]) = Len(mqueue[w]) + 1 /\ DOMAIN mqueue'[w] = 1 .. Len(mqueue[w]) + 1
      /\ mqueue'[w] # << >>
      /\ \A j \in DOMAIN mqueue[w] : mqueue'[w][j] = mqueue[w][j]
      /\ mqueue'[w][Len(mqueue[w]) + 1] =
            [task |-> at[w], index |-> index[w], msg |-> "error", value |-> ErrorValue(w), flag |-> FALSE]
      /\ \A j \in DOMAIN mqueue'[w] : j \in DOMAIN mqueue[w] \/ j = Len(mqueue[w]) + 1
      /\ \A v \in Worker : v # w => mqueue'[v] = mqueue[v]
  BY <1>1, <1>4, SendFacts
<1>6. /\ inbox' \in [Worker -> Seq(Answer)]
      /\ \A v \in Worker : v # w => inbox'[v] = inbox[v]
  BY <1>1, TakeFacts
<1>7. /\ at' = at /\ index' = index /\ raised' = raised /\ call' = call
      /\ step' \in [Worker -> {"go", "run", "collect", "finished_sync", "error_sync", "after_error", "exited"}]
      /\ step'[w] = "error_sync" /\ \A v \in Worker : v # w => step'[v] = step[v]
  BY <1>1 DEF OtherTaskError, ErrorSync, Goto, Types, TypeOK
<1>8. Types'
  <2>1. /\ at \in [Worker -> Tasks] /\ raised \subseteq Worker \X Tasks
        /\ index \in [Worker -> Nat] /\ call \in [Worker -> Nat]
    BY <1>1 DEF Types, TypeOK
  <2> QED BY <2>1, <1>1, <1>5, <1>6, <1>7, WorkerTypes
<1>9. \A v \in Worker : v # w => Unmoved(v)
  BY <1>5, <1>6, <1>7 DEF Unmoved
<1>10. ~ Ahead(w)' /\ \A k \in DOMAIN inbox'[w] : inbox'[w][k].msg = "error" /\ Letter(w, k)'
  BY <1>1, <1>2, OnlyErrorsLeft
<1>11. ASSUME manager = "running" PROVE Begun(t)
  <2> SUFFICES ASSUME ~ Begun(t) PROVE FALSE
    OBVIOUS
  <2>1. Idle(t, w)
    BY <1>3, <1>11, WorkerModes
  <2> QED BY <2>1, <1>1 DEF Idle
<1>12. ASSUME manager = "running" PROVE \A j \in DOMAIN mqueue'[w] : Report(w, j)'
  <2>1. Calm(w)
    BY <1>1, <1>12, NoErrorSent
  <2>2. at'[w] = at[w] /\ index'[w] = index[w] /\ step'[w] = "error_sync" /\ step'[w] # "go" /\ FALSE \in BOOLEAN
    BY <1>7
  <2> QED BY <2>1, <2>2, <1>1, <1>3, <1>4, <1>11, <1>12, SentReports
<1>13. ASSUME manager = "running", Normal(t) PROVE FALSE
  <2>1. NormalWorker(t, w)
    BY <1>3, <1>13, WorkerModes
  <2> QED BY <2>1, <1>1, <1>2 DEF NormalWorker, NoError
<1>14. ASSUME manager = "running", Spread(t) PROVE SpreadWorker(t, w)'
  <2>1. SpreadWorker(t, w)
    BY <1>3, <1>14, WorkerModes
  <2>2. SpreadReports(t, w)'
    <3>1. \A j \in DOMAIN mqueue'[w] : mqueue'[w][j].msg # "error" =>
             j \in DOMAIN mqueue[w] /\ mqueue'[w][j] = mqueue[w][j]
      BY <1>5
    <3>2. state' = state
      BY <1>1, ColumnKept
    <3> QED BY <2>1, <3>1, <3>2, <1>7 DEF SpreadWorker, SpreadReports
  <2>3. mqueue'[w] # << >> /\ mqueue'[w][Len(mqueue'[w])].msg = "error"
    BY <1>5
  <2>4. OnlyErrors(w)'
    BY <1>10 DEF OnlyErrors
  <2> QED BY <2>2, <2>3, <2>4, <1>7 DEF SpreadWorker, Failed
<1>15. ASSUME manager = "running", Settled(t) PROVE FALSE
  BY <1>15, <1>1, <1>3, WorkerModes DEF SettledWorker
<1>16. \A u \in Tasks : << w, u >> \in raised => state[u] = "error"
  BY <1>1 DEF Inv, Raisers
<1>17. step'[w] = "error_sync" /\ at'[w] = t
  BY <1>7
<1> QED BY <1>1, <1>2, <1>7, <1>8, <1>9, <1>10, <1>11, <1>12, <1>13, <1>14, <1>15, <1>16, <1>17, HereStepInv

LEMMA RaiseInv ==
    ASSUME Inv, NEW w \in Worker, Raise(w)
    PROVE  Inv'
<1>0. PICK t : t = at[w]
  OBVIOUS
<1> USE <1>0
<1>1. step[w] = "run" /\ Alive(w) /\ ByWorker /\ Types
  BY DEF Raise, ErrorSync, Alive, Inv
<1>2. ~ Ahead(w) /\ Placed(w)
  BY <1>1, Here DEF Placed
<1>3. /\ Begun(t) /\ Whole(t) /\ t \in Tasks /\ w \in Members(t) /\ Live(t) /\ index[w] = queues[t][w]
      /\ Len(Calls[t]) \in Nat /\ Last(t) = Len(Calls[t]) + 1 /\ call[w] \in 0 .. Len(Calls[t])
  BY <1>1, <1>2, Here, TaskLen DEF Placed
<1>4. Send(w, "error", ErrorValue(w), TRUE) /\ ErrorValue(w) \in ValueSet /\ ErrorValue(w).from = w
  BY <1>1, ValueTypes DEF Raise, ErrorSync, ErrorValue, Value
<1>5. /\ mqueue' \in [Worker -> Seq(Message)]
      /\ Len(mqueue'[w]) = Len(mqueue[w]) + 1 /\ DOMAIN mqueue'[w] = 1 .. Len(mqueue[w]) + 1
      /\ mqueue'[w] # << >>
      /\ \A j \in DOMAIN mqueue[w] : mqueue'[w][j] = mqueue[w][j]
      /\ mqueue'[w][Len(mqueue[w]) + 1] =
            [task |-> at[w], index |-> index[w], msg |-> "error", value |-> ErrorValue(w), flag |-> TRUE]
      /\ \A j \in DOMAIN mqueue'[w] : j \in DOMAIN mqueue[w] \/ j = Len(mqueue[w]) + 1
      /\ \A v \in Worker : v # w => mqueue'[v] = mqueue[v]
  BY <1>1, <1>4, SendFacts
<1>6. /\ inbox' = inbox /\ at' = at /\ index' = index /\ call' = call
      /\ raised' = raised \cup {<< w, t >>}
      /\ step' \in [Worker -> {"go", "run", "collect", "finished_sync", "error_sync", "after_error", "exited"}]
      /\ step'[w] = "error_sync" /\ \A v \in Worker : v # w => step'[v] = step[v]
  BY <1>1 DEF Raise, ErrorSync, Goto, Types, TypeOK
<1>7. Types'
  <2>1. /\ at \in [Worker -> Tasks] /\ inbox \in [Worker -> Seq(Answer)] /\ raised \subseteq Worker \X Tasks
        /\ index \in [Worker -> Nat] /\ call \in [Worker -> Nat]
    BY <1>1 DEF Types, TypeOK
  <2>2. raised' \subseteq Worker \X Tasks
    BY <2>1, <1>3, <1>6
  <2> QED BY <2>1, <2>2, <1>1, <1>5, <1>6, WorkerTypes
<1>8. \A v \in Worker : v # w => Unmoved(v)
  BY <1>5, <1>6 DEF Unmoved
<1>9. \A k \in DOMAIN inbox[w] : inbox[w][k].msg = "error"
  BY <1>1, <1>2, OnlyErrorsBehind
<1>10. ~ Ahead(w)' /\ \A k \in DOMAIN inbox'[w] : Letter(w, k)'
  <2>1. ~ Ahead(w)'
    BY <1>2, <1>6 DEF Ahead, Got
  <2> QED BY <2>1, <1>6, <1>9 DEF Letter
<1>11. ASSUME manager = "running" PROVE Calm(w) /\ \A j \in DOMAIN mqueue'[w] : Report(w, j)'
  <2>1. Calm(w)
    BY <1>1, <1>11, NoErrorSent
  <2>2. at'[w] = at[w] /\ index'[w] = index[w] /\ step'[w] = "error_sync" /\ step'[w] # "go" /\ TRUE \in BOOLEAN
    BY <1>6
  <2> QED BY <2>1, <2>2, <1>1, <1>3, <1>4, <1>11, SentReports
<1>12. ASSUME manager = "running", Normal(t) PROVE NormalWorker(t, w)' /\ Unfinished(w, t)'
  <2>1. NormalWorker(t, w)
    BY <1>3, <1>12, WorkerModes
  <2>2. Heard(t, w) + Len(mqueue[w]) = call[w] /\ inbox[w] = << >> /\ NormalWaits(t, w)
    BY <2>1, <1>1, <1>12 DEF NormalWorker, NormalStep
  <2>3. /\ Heard(t, w) \in Nat /\ Len(mqueue[w]) \in Nat /\ DOMAIN mqueue[w] = 1 .. Len(mqueue[w])
        /\ Heard(t, w) = rounds[t] + Len(Column(w, t)) /\ rounds[t] \in Nat /\ Len(Column(w, t)) \in Nat
        /\ DOMAIN Column(w, t) = 1 .. Len(Column(w, t))
    BY <1>1, <1>3, ColumnFacts, QueueFacts
  <2> DEFINE h == Heard(t, w)
             q == Len(mqueue[w])
             c == call[w]
             l == Last(t)
  <2>10. h \in Nat /\ q \in Nat /\ c \in Nat /\ l \in Nat /\ h + q = c /\ c < l
    BY <2>2, <2>3, <1>3
  <2> HIDE DEF h, q, c, l
  <2>11. h + (q + 1) = c + 1 /\ c < l /\ \A j \in 1 .. q : h + j < l /\ h + j \in Nat
    BY <2>10
  <2>4. NormalColumn(t, w)'
    BY <2>1, <1>1, <1>6, ColumnKept DEF NormalWorker
  <2>5. NormalReports(t, w)'
    <3> SUFFICES ASSUME NEW j \in DOMAIN mqueue'[w]
                 PROVE  LET m == mqueue'[w][j]
                            k == Heard(t, w) + j
                        IN  /\ k <= Last(t) /\ m.index = queues[t][w]
                            /\ m.msg = "error" => m.flag
                            /\ m.msg # "error" => m.value = Event(w, t, k) /\ m.msg = EventMsg(t, k) /\ ~ m.flag
      BY <1>1, ColumnKept DEF NormalReports
    <3>1. CASE j \in DOMAIN mqueue[w]
      BY <2>1, <3>1, <1>5 DEF NormalWorker, NormalReports
    <3>2. CASE j = Len(mqueue[w]) + 1
      <4>1. Heard(t, w) + j <= Last(t)
        BY <2>2, <2>3, <3>2, <1>1, <1>3
      <4> QED BY <4>1, <3>2, <1>3, <1>5
    <3> QED BY <3>1, <3>2, <1>5
  <2>6. NormalStep(t, w)'
    <3>1. Heard(t, w)' + Len(mqueue'[w]) = call'[w] + 1 /\ inbox'[w] = << >> /\ call'[w] < Last(t)'
      <4>1. Heard(t, w)' = Heard(t, w) /\ Last(t)' = Last(t) /\ rounds'[t] = rounds[t]
        BY <1>1, ColumnKept
      <4>2. Heard(t, w) + (Len(mqueue[w]) + 1) = call[w] + 1 /\ call[w] < Last(t)
        BY <2>11 DEF h, q, c, l
      <4> QED BY <4>1, <4>2, <2>2, <1>5, <1>6
    <3>2. NormalWaits(t, w)'
      BY <2>2, <1>1, <1>6, ColumnKept DEF NormalWaits
    <3>3. ~ Calm(w)'
      <4>1. Len(mqueue[w]) + 1 \in DOMAIN mqueue'[w]
        BY <2>3, <1>5
      <4> QED BY <4>1, <1>5 DEF Calm
    <3> QED BY <3>1, <3>2, <3>3, <1>6 DEF NormalStep
  <2>7. \A k \in DOMAIN Column(w, t) : Column(w, t)[k].kind # "finished"
    <3> SUFFICES ASSUME NEW k \in DOMAIN Column(w, t) PROVE Column(w, t)[k].kind # "finished"
      OBVIOUS
    <3>1. rounds[t] + k < Last(t)
      <4>1. k \in 1 .. Len(Column(w, t)) /\ h = rounds[t] + Len(Column(w, t))
        BY <2>3 DEF h
      <4>2. rounds[t] + k <= h
        BY <4>1, <2>3
      <4>3. rounds[t] + k \in Nat /\ h < l
        BY <4>1, <2>3, <2>10
      <4> QED BY <4>2, <4>3, <2>10 DEF l
    <3>2. Column(w, t)[k] = Event(w, t, rounds[t] + k)
      BY <2>1 DEF NormalWorker, NormalColumn
    <3>3. Event(w, t, rounds[t] + k).kind = "call"
      BY <3>1 DEF Event, CallValue, Value
    <3> QED BY <3>2, <3>3
  <2>8. \A j \in DOMAIN mqueue'[w] : mqueue'[w][j].msg # "finished"
    <3> SUFFICES ASSUME NEW j \in DOMAIN mqueue[w] PROVE mqueue[w][j].msg # "finished"
      BY <1>5
    <3>1. Heard(t, w) + j < Last(t) /\ Heard(t, w) + j \in Nat /\ mqueue[w][j].msg # "error"
      <4>1. Calm(w)
        BY <1>1, <1>12, NoErrorSent
      <4>2. j \in 1 .. q
        BY <2>3 DEF q
      <4> QED BY <2>11, <4>1, <4>2 DEF h, l, Calm
    <3>2. mqueue[w][j].msg = EventMsg(t, Heard(t, w) + j)
      BY <2>1, <3>1 DEF NormalWorker, NormalReports
    <3>3. mqueue[w][j].msg = Calls[t][Heard(t, w) + j] /\ Heard(t, w) + j \in 1 .. Len(Calls[t])
      BY <3>1, <3>2, <2>3, <1>3 DEF EventMsg
    <3> QED BY <3>3, <1>3, TaskLen
  <2>9. Unfinished(w, t)'
    BY <2>7, <2>8, <1>1, ColumnKept DEF Unfinished
  <2> QED BY <2>2, <2>4, <2>5, <2>6, <2>9, <1>6 DEF NormalWorker, NoError
<1>13. ASSUME manager = "running", Spread(t) PROVE SpreadWorker(t, w)'
  <2>1. SpreadWorker(t, w)
    BY <1>3, <1>13, WorkerModes
  <2>2. SpreadReports(t, w)'
    <3>1. \A j \in DOMAIN mqueue'[w] : mqueue'[w][j].msg # "error" =>
             j \in DOMAIN mqueue[w] /\ mqueue'[w][j] = mqueue[w][j]
      BY <1>5
    <3>2. state' = state
      BY <1>1, ColumnKept
    <3> QED BY <2>1, <3>1, <3>2, <1>6 DEF SpreadWorker, SpreadReports
  <2>3. mqueue'[w] # << >> /\ mqueue'[w][Len(mqueue'[w])].msg = "error"
    BY <1>5
  <2>4. OnlyErrors(w)'
    BY <1>6, <1>9 DEF OnlyErrors
  <2> QED BY <2>2, <2>3, <2>4, <1>6 DEF SpreadWorker, Failed
<1>14. ASSUME manager = "running", Settled(t) PROVE FALSE
  BY <1>14, <1>1, <1>3, WorkerModes DEF SettledWorker
<1>15. ASSUME NEW u \in Tasks, << w, u >> \in raised'
       PROVE  \/ state[u] = "error"
              \/ u = t /\ Live(t) /\ Whole(t) /\ step'[w] = "error_sync" /\ Unfinished(w, t)'
  <2>1. CASE << w, u >> \in raised
    BY <2>1, <1>1 DEF Inv, Raisers
  <2>2. CASE << w, u >> \notin raised /\ state[t] # "error"
    <3>1. u = t /\ (manager = "running" => Normal(t))
      BY <2>2, <1>3, <1>6, <1>15 DEF Normal, Doomed
    <3>2. Unfinished(w, t)'
      <4>1. CASE manager = "running"
        BY <3>1, <4>1, <1>12
      <4>2. CASE manager # "running"
        BY <4>2, <1>1 DEF Unfinished, ByWorker, managerVars
      <4> QED BY <4>1, <4>2
    <3> QED BY <3>1, <3>2, <1>3, <1>6
  <2>3. CASE << w, u >> \notin raised /\ state[t] = "error"
    BY <2>3, <1>6, <1>15
  <2> QED BY <2>1, <2>2, <2>3
<1>16. step'[w] = "error_sync" /\ at'[w] = t
       /\ \A v \in Worker, u \in Tasks : v # w => (<< v, u >> \in raised' <=> << v, u >> \in raised)
  BY <1>6
<1> QED BY <1>1, <1>2, <1>3, <1>6, <1>7, <1>8, <1>10, <1>11, <1>12, <1>13, <1>14, <1>15, <1>16, HereStepInv

LEMMA IgnoreErrorInv ==
    ASSUME Inv, NEW w \in Worker, IgnoreError(w)
    PROVE  Inv'
<1>0. PICK t : t = at[w]
  OBVIOUS
<1> USE <1>0
<1>1. /\ step[w] = "error_sync" /\ Alive(w) /\ inbox[w] # << >> /\ ByWorker /\ Types /\ Take(w)
      /\ at' = at /\ index' = index /\ raised' = raised /\ call' = call /\ step' = step /\ mqueue' = mqueue
  BY DEF IgnoreError, Waiting, Alive, Inv, workerVars
<1>2. ~ Ahead(w) /\ 1 \in DOMAIN inbox[w] /\ inbox[w][1].msg = "error"
  BY <1>1, QueueFacts DEF IgnoreError, Ahead
<1>3. t \in Tasks /\ w \in Members(t)
  BY <1>1, <1>2, Here
<1>4. /\ inbox' \in [Worker -> Seq(Answer)]
      /\ Len(inbox'[w]) = Len(inbox[w]) - 1 /\ DOMAIN inbox'[w] = 1 .. Len(inbox[w]) - 1
      /\ inbox'[w] = << >> <=> Len(inbox[w]) = 1
      /\ \A k \in DOMAIN inbox'[w] : inbox'[w][k] = inbox[w][k + 1] /\ k + 1 \in DOMAIN inbox[w] /\ k \in Nat /\ k > 0
      /\ inbox'[w] # << >> => Head(inbox'[w]) = inbox[w][2] /\ 2 \in DOMAIN inbox[w]
      /\ \A v \in Worker : v # w => inbox'[v] = inbox[v]
  BY <1>1, TakeFacts
<1>5. Types'
  <2>1. /\ at \in [Worker -> Tasks] /\ raised \subseteq Worker \X Tasks
        /\ index \in [Worker -> Nat] /\ call \in [Worker -> Nat] /\ mqueue \in [Worker -> Seq(Message)]
        /\ step \in [Worker -> {"go", "run", "collect", "finished_sync", "error_sync", "after_error", "exited"}]
    BY <1>1 DEF Types, TypeOK
  <2> QED BY <2>1, <1>1, <1>4, WorkerTypes
<1>6. \A v \in Worker : v # w => Unmoved(v)
  BY <1>1, <1>4 DEF Unmoved
<1>7. ~ Ahead(w)'
  BY <1>1, <1>2, <1>4, OnlyErrorsBehind DEF Ahead, Got
<1>8. ASSUME NEW k \in DOMAIN inbox'[w] PROVE Letter(w, k)'
  <2>1. inbox'[w][k] = inbox[w][k + 1] /\ k + 1 \in DOMAIN inbox[w] /\ Letter(w, k + 1) /\ k \in Nat /\ k > 0
    BY <1>1, <1>4, Here
  <2>2. inbox'[w][k].msg \in {"error", "error_gather"}
    BY <2>1, <1>1, <1>2, OnlyErrorsBehind
  <2>3. ASSUME inbox'[w][k].msg = "error_gather"
        PROVE  state'[t] = "error" /\ \A j \in 1 .. k - 1 : inbox'[w][j].msg = "error"
    <3>1. state[t] = "error" /\ \A j \in 1 .. k + 1 - 1 : inbox[w][j].msg = "error"
      BY <2>1, <2>3 DEF Letter
    <3>2. \A j \in 1 .. k - 1 : inbox'[w][j] = inbox[w][j + 1] /\ j + 1 \in 1 .. k + 1 - 1
      BY <1>4, <2>1
    <3> QED BY <3>1, <3>2, <1>1, ColumnKept
  <2> QED BY <2>2, <2>3, <1>1 DEF Letter
<1>9. ASSUME manager = "running" PROVE \A j \in DOMAIN mqueue'[w] : Report(w, j)'
  <2> SUFFICES ASSUME NEW j \in DOMAIN mqueue[w] PROVE Report(w, j)'
    BY <1>1
  <2>1. Report(w, j)
    BY <1>9 DEF Inv, Running, Reports
  <2> QED BY <2>1, <1>1, ManagerKept DEF Report, SentBy
<1>10. ASSUME manager = "running" PROVE Begun(t)
  <2> SUFFICES ASSUME ~ Begun(t) PROVE FALSE
    OBVIOUS
  <2>1. Idle(t, w)
    BY <1>3, <1>10, WorkerModes
  <2> QED BY <2>1, <1>1 DEF Idle
<1>11. ASSUME manager = "running", Normal(t) PROVE FALSE
  <2>1. NormalWorker(t, w)
    BY <1>3, <1>11, WorkerModes
  <2> QED BY <2>1, <1>1, <1>2 DEF NormalWorker, NoError
<1>12. ASSUME manager = "running", Spread(t) PROVE SpreadWorker(t, w)'
  <2>1. SpreadWorker(t, w)
    BY <1>3, <1>12, WorkerModes
  <2>2. SpreadReports(t, w)'
    BY <2>1, <1>1, ColumnKept DEF SpreadWorker, SpreadReports
  <2>3. Failed(t, w)
    BY <2>1, <1>1 DEF SpreadWorker
  <2>4. Failed(t, w)'
    <3>1. step[w] = "error_sync" /\ OnlyErrors(w) /\ (mqueue[w] = << >> => state[t] = "error")
          /\ (mqueue[w] # << >> => mqueue[w][Len(mqueue[w])].msg = "error")
      BY <2>3 DEF Failed
    <3>2. OnlyErrors(w)'
      BY <3>1, <1>4 DEF OnlyErrors
    <3>3. step'[w] = step[w] /\ mqueue'[w] = mqueue[w] /\ state' = state
      BY <1>1, ColumnKept
    <3> QED BY <3>1, <3>2, <3>3 DEF Failed
  <2> QED BY <2>2, <2>4, <1>1 DEF SpreadWorker
<1>13. ASSUME manager = "running", Settled(t) PROVE SettledWorker(t, w)'
  <2>1. SettledWorker(t, w)
    BY <1>3, <1>13, WorkerModes
  <2>2. mqueue[w] = << >> /\ inbox[w][Len(inbox[w])].msg = "error_gather"
    BY <2>1, <1>1 DEF SettledWorker
  <2>3. Len(inbox[w]) \in Nat /\ Len(inbox[w]) # 1
    BY <2>2, <1>1, <1>2, QueueFacts
  <2>4. inbox'[w] # << >> /\ inbox'[w][Len(inbox'[w])] = inbox[w][Len(inbox[w])]
    <3>1. Len(inbox'[w]) \in DOMAIN inbox'[w] /\ Len(inbox'[w]) + 1 = Len(inbox[w])
      BY <2>3, <1>1, <1>4, QueueFacts
    <3> QED BY <3>1, <1>4, <2>3
  <2> QED BY <2>2, <2>4, <1>1 DEF SettledWorker
<1>14. \A u \in Tasks : << w, u >> \in raised' =>
              \/ state[u] = "error"
              \/ u = t /\ Live(t) /\ Whole(t) /\ step'[w] = "error_sync" /\ Unfinished(w, t)'
  <2> SUFFICES ASSUME NEW u \in Tasks, << w, u >> \in raised, state[u] # "error"
               PROVE  u = t /\ Live(t) /\ Whole(t) /\ step'[w] = "error_sync" /\ Unfinished(w, t)'
    BY <1>1
  <2>1. u = t /\ Live(t) /\ Whole(t) /\ Unfinished(w, t)
    BY DEF Inv, Raisers
  <2> QED BY <2>1, <1>1, ColumnKept DEF Unfinished, ByWorker, managerVars
<1>15. step'[w] = "error_sync" /\ at'[w] = t /\ index'[w] = index[w] /\ mqueue'[w] = mqueue[w]
  BY <1>1
<1> QED BY <1>1, <1>2, <1>5, <1>6, <1>7, <1>8, <1>9, <1>10, <1>11, <1>12, <1>13, <1>14, <1>15, HereStepInv

LEMMA FinishAfterErrorInv ==
    ASSUME Inv, NEW w \in Worker, FinishAfterError(w)
    PROVE  Inv'
<1>0. PICK t : t = at[w]
  OBVIOUS
<1> USE <1>0
<1>1. /\ step[w] = "error_sync" /\ Alive(w) /\ inbox[w] # << >> /\ ByWorker /\ Types /\ Take(w)
      /\ at' = at /\ index' = index /\ raised' = raised /\ call' = call
  BY DEF FinishAfterError, Waiting, Alive, Inv
<1>2. ~ Ahead(w) /\ 1 \in DOMAIN inbox[w] /\ inbox[w][1].msg = "error_gather"
  <2>1. ~ Ahead(w)
    BY <1>1, Here DEF Placed
  <2> QED BY <1>1, <2>1, QueueFacts, OnlyErrorsBehind DEF FinishAfterError
<1>3. t \in Tasks /\ w \in Members(t) /\ state[t] = "error" /\ Begun(t) /\ Live(t) /\ t \in Reached[w[1]]
  <2>1. t \in Tasks /\ w \in Members(t) /\ Letter(w, 1) /\ (Begun(t) => Live(t))
    BY <1>1, <1>2, Here
  <2>2. state[t] = "error"
    BY <2>1, <1>2 DEF Letter
  <2> QED BY <2>1, <2>2, MemberFacts DEF Begun, Inv
<1>4. /\ Send(w, "finished", FinishedValue(w), TRUE) /\ FinishedValue(w) \in ValueSet
      /\ FinishedValue(w) = EndValue(w, t) /\ FinishedValue(w).from = w
  BY <1>1, <1>3, ValueTypes DEF FinishAfterError, FinishedValue, EndValue, Value
<1>5. /\ mqueue' \in [Worker -> Seq(Message)]
      /\ Len(mqueue'[w]) = Len(mqueue[w]) + 1 /\ DOMAIN mqueue'[w] = 1 .. Len(mqueue[w]) + 1
      /\ \A j \in DOMAIN mqueue[w] : mqueue'[w][j] = mqueue[w][j]
      /\ mqueue'[w][Len(mqueue[w]) + 1] =
            [task |-> at[w], index |-> index[w], msg |-> "finished", value |-> FinishedValue(w), flag |-> TRUE]
      /\ \A j \in DOMAIN mqueue'[w] : j \in DOMAIN mqueue[w] \/ j = Len(mqueue[w]) + 1
      /\ \A v \in Worker : v # w => mqueue'[v] = mqueue[v]
  BY <1>1, <1>4, SendFacts
<1>6. /\ inbox' \in [Worker -> Seq(Answer)]
      /\ inbox'[w] = << >> <=> Len(inbox[w]) = 1
      /\ DOMAIN inbox'[w] = 1 .. Len(inbox[w]) - 1
      /\ \A k \in DOMAIN inbox'[w] : inbox'[w][k] = inbox[w][k + 1] /\ k + 1 \in DOMAIN inbox[w] /\ k \in Nat /\ k > 0
      /\ inbox'[w] # << >> => Head(inbox'[w]) = inbox[w][2] /\ 2 \in DOMAIN inbox[w]
      /\ \A v \in Worker : v # w => inbox'[v] = inbox[v]
  BY <1>1, TakeFacts
<1>7. /\ step' \in [Worker -> {"go", "run", "collect", "finished_sync", "error_sync", "after_error", "exited"}]
      /\ step'[w] = "after_error" /\ \A v \in Worker : v # w => step'[v] = step[v]
  BY <1>1 DEF FinishAfterError, Goto, Types, TypeOK
<1>8. Types'
  <2>1. /\ at \in [Worker -> Tasks] /\ raised \subseteq Worker \X Tasks
        /\ index \in [Worker -> Nat] /\ call \in [Worker -> Nat]
    BY <1>1 DEF Types, TypeOK
  <2> QED BY <2>1, <1>1, <1>5, <1>6, <1>7, WorkerTypes
<1>9. \A v \in Worker : v # w => Unmoved(v)
  BY <1>1, <1>5, <1>6, <1>7 DEF Unmoved
<1>10. \A k \in DOMAIN inbox[w] : k # 1 => inbox[w][k].msg = "error"
  <2> SUFFICES ASSUME NEW k \in DOMAIN inbox[w], k # 1, inbox[w][k].msg = "error_gather" PROVE FALSE
    BY <1>1, <1>2, OnlyErrorsBehind
  <2>1. Letter(w, k) /\ 1 \in 1 .. k - 1
    BY <1>1, Here, QueueFacts
  <2> QED BY <2>1, <1>2 DEF Letter
<1>11. ~ Ahead(w)' /\ \A k \in DOMAIN inbox'[w] : Letter(w, k)'
  <2>1. \A k \in DOMAIN inbox'[w] : inbox'[w][k].msg = "error"
    BY <1>6, <1>10
  <2>2. ~ Ahead(w)'
    BY <1>6, <1>10 DEF Ahead, Got
  <2> QED BY <2>1, <2>2 DEF Letter
<1>12. ASSUME manager = "running", Spread(t) PROVE FALSE
  <2>1. SpreadWorker(t, w)
    BY <1>3, <1>12, WorkerModes
  <2> QED BY <2>1, <1>1, <1>2 DEF SpreadWorker, Failed, OnlyErrors
<1>13. ASSUME manager = "running"
       PROVE  /\ Settled(t) /\ SettledWorker(t, w) /\ mqueue[w] = << >> /\ inbox[w][Len(inbox[w])].msg = "error_gather"
              /\ Calm(w)
  <2>1. Settled(t)
    BY <1>3, <1>12, <1>13, Modes DEF Inv, States, Normal, Types, Over
  <2>2. SettledWorker(t, w)
    BY <2>1, <1>3, <1>13, WorkerModes
  <2> QED BY <2>1, <2>2, <1>1 DEF SettledWorker, Calm
<1>14. ASSUME manager = "running" PROVE \A j \in DOMAIN mqueue'[w] : Report(w, j)'
  <2>1. at'[w] = at[w] /\ index'[w] = index[w] /\ step'[w] # "go" /\ TRUE \in BOOLEAN
    BY <1>1, <1>7
  <2> QED BY <2>1, <1>1, <1>3, <1>4, <1>13, <1>14, SentReports
<1>15. ASSUME manager = "running" PROVE SettledWorker(t, w)'
  <2>1. Len(inbox[w]) = 1
    <3>1. Len(inbox[w]) \in DOMAIN inbox[w]
      BY <1>1, QueueFacts
    <3> QED BY <3>1, <1>10, <1>13, <1>15
  <2>2. inbox'[w] = << >>
    BY <2>1, <1>6
  <2>3. DOMAIN mqueue'[w] = {1} /\ Len(mqueue'[w]) = 1 /\ mqueue'[w][1].msg = "finished" /\ mqueue'[w][1].flag
        /\ mqueue'[w][1].value = EndValue(w, t)
    <3>1. Len(mqueue[w]) = 0
      BY <1>13, <1>15
    <3> QED BY <3>1, <1>4, <1>5
  <2>4. EndValue(w, t)' = EndValue(w, t)
    BY DEF EndValue
  <2> QED BY <2>2, <2>3, <2>4, <1>1, <1>7 DEF SettledWorker
<1>16. \A u \in Tasks : << w, u >> \in raised => state[u] = "error"
  BY <1>1, <1>3 DEF Inv, Raisers
<1>17. step'[w] = "after_error" /\ at'[w] = t
  BY <1>1, <1>7
<1>18. ~ (manager = "running" /\ Normal(t))
  BY <1>3 DEF Normal
<1> QED BY <1>1, <1>2, <1>3, <1>8, <1>9, <1>11, <1>12, <1>13, <1>14, <1>15, <1>16, <1>17, <1>18, HereStepInv

LEMMA LetGoInv ==
    ASSUME Inv, NEW w \in Worker, step[w] \in {"finished_sync", "after_error"}, inbox[w] # << >>,
           Got(w) = "finished", Take(w), NextIn(w[1], at[w]) # None, NextTask(w), ByWorker,
           UNCHANGED << mqueue, index, call, raised >>
    PROVE  Inv'
<1>0. PICK u : u = NextIn(w[1], at[w])
  OBVIOUS
<1>1. Ahead(w) /\ Alive(w) /\ Types /\ Now(w) = u
  BY <1>0 DEF Ahead, Alive, Inv, Now
<1>2. /\ Over(at[w]) /\ Exists(w) /\ owner[w[1]] = u /\ w[1] \in Sources /\ at[w] \in Tasks
      /\ \A x \in Tasks : ~ Over(x) /\ w \in Members(x) => x = u
  BY <1>1, Here DEF Placed
<1>3. u \in Tasks /\ w \in Members(u) /\ u # None /\ ~ Over(u) /\ u # at[w]
  <2>1. u # None /\ owner[w[1]] # None
    BY <1>0, <1>2
  <2>2. w \in Members(u) /\ ~ Over(u)
    BY <2>1, <1>2 DEF Inv, Pools
  <2>3. u \in Tasks
    BY <2>1, <1>2 DEF Inv, Types, TypeOK
  <2> QED BY <2>1, <2>2, <2>3, <1>2
<1>4. /\ inbox' \in [Worker -> Seq(Answer)]
      /\ Len(inbox'[w]) = Len(inbox[w]) - 1 /\ DOMAIN inbox'[w] = 1 .. Len(inbox[w]) - 1
      /\ inbox'[w] = << >> <=> Len(inbox[w]) = 1
      /\ \A k \in DOMAIN inbox'[w] : inbox'[w][k] = inbox[w][k + 1] /\ k + 1 \in DOMAIN inbox[w] /\ k \in Nat /\ k > 0
      /\ inbox'[w] # << >> => Head(inbox'[w]) = inbox[w][2] /\ 2 \in DOMAIN inbox[w]
      /\ \A v \in Worker : v # w => inbox'[v] = inbox[v]
  BY <1>1, TakeFacts
<1>5. /\ at' \in [Worker -> Tasks] /\ at'[w] = u /\ \A v \in Worker : v # w => at'[v] = at[v]
      /\ step' \in [Worker -> {"go", "run", "collect", "finished_sync", "error_sync", "after_error", "exited"}]
      /\ step'[w] = "go" /\ \A v \in Worker : v # w => step'[v] = step[v]
  BY <1>0, <1>1, <1>3 DEF NextTask, Goto, Types, TypeOK
<1>6. Types'
  <2>1. /\ raised \subseteq Worker \X Tasks /\ mqueue \in [Worker -> Seq(Message)]
        /\ index \in [Worker -> Nat] /\ call \in [Worker -> Nat]
    BY <1>1 DEF Types
  <2> QED BY <2>1, <1>1, <1>4, <1>5, WorkerTypes
<1>7. \A v \in Worker : v # w => Unmoved(v)
  BY <1>4, <1>5 DEF Unmoved
<1>8. \A k \in DOMAIN inbox[w] : Letter(w, k) /\ inbox[w][k] \in Answer
  BY <1>1, Here, QueueFacts
<1>9. ASSUME NEW k \in DOMAIN inbox'[w]
      PROVE  /\ inbox'[w][k].msg \in {"go", "error"}
             /\ inbox'[w][k].msg = "go" => k = 1 /\ Begun(u) /\ Whole(u) /\ inbox'[w][k].idx = queues[u][w]
  <2>1. inbox'[w][k] = inbox[w][k + 1] /\ k + 1 \in DOMAIN inbox[w] /\ k \in Nat /\ k > 0
    BY <1>4
  <2>2. Letter(w, k + 1) /\ inbox[w][k + 1] \in Answer /\ k + 1 # 1
    BY <2>1, <1>8
  <2>3. inbox[w][k + 1].msg \in {"go", "gather", "all_gather", "finished", "error", "error_gather"}
    BY <2>2 DEF Answer
  <2>4. inbox[w][k + 1].msg \in {"go", "error"}
    BY <2>2, <2>3 DEF Letter
  <2>5. ASSUME inbox[w][k + 1].msg = "go"
        PROVE  k + 1 = 2 /\ Begun(u) /\ Whole(u) /\ inbox[w][k + 1].idx = queues[u][w]
    BY <2>2, <2>5, <1>1 DEF Letter
  <2>6. k + 1 = 2 => k = 1
    BY <2>1
  <2> QED BY <2>1, <2>4, <2>5, <2>6
<1>10. ~ Ahead(w)'
  <2>1. inbox'[w] # << >> => 1 \in DOMAIN inbox'[w] /\ Head(inbox'[w]) = inbox'[w][1]
    BY <1>4, QueueFacts
  <2> QED BY <2>1, <1>9 DEF Ahead, Got
<1>11. Now(w)' = u
  BY <1>5, <1>10 DEF Now
<1>12. Placed(w)'
  <2>1. Exists(w)' /\ owner' = owner
    BY <1>2, ManagerKept DEF ByWorker, managerVars
  <2> QED BY <2>1, <1>2, <1>5, <1>10, <1>11 DEF Placed
<1>13. ASSUME NEW k \in DOMAIN inbox'[w] PROVE Letter(w, k)'
  <2>1. Begun(u)' = Begun(u) /\ Whole(u)' = Whole(u) /\ queues' = queues
    BY ManagerKept DEF ByWorker, managerVars
  <2> QED BY <2>1, <1>3, <1>5, <1>9, <1>11 DEF Letter
<1>14. ASSUME manager = "running" PROVE mqueue[w] = << >> /\ mqueue'[w] = << >>
  BY <1>1, <1>14, NothingSentAhead
<1>15. ASSUME manager = "running"
       PROVE  /\ ~ Begun(u) => Idle(u, w)'
              /\ Normal(u) => NormalWorker(u, w)'
              /\ Spread(u) => SpreadWorker(u, w)'
              /\ ~ Settled(u)
  <2>1. ASSUME ~ Begun(u) PROVE Idle(u, w)'
    <3>1. Idle(u, w)
      BY <2>1, <1>3, <1>15, WorkerModes
    <3>2. Len(inbox[w]) = 1
      BY <3>1, <1>1, <1>3 DEF Idle
    <3>3. inbox'[w] = << >>
      BY <3>2, <1>4
    <3> QED BY <3>3, <1>5 DEF Idle
  <2>2. ASSUME Normal(u) PROVE NormalWorker(u, w)'
    <3>1. NormalWorker(u, w)
      BY <2>2, <1>3, <1>15, WorkerModes
    <3>2. rounds[u] = 0 /\ Len(inbox[w]) = 2 /\ NoError(w) /\ Column(w, u) = << >>
      BY <3>1, <1>1, <1>3 DEF NormalWorker, NormalColumn
    <3>3. Heard(u, w) = 0
      BY <3>2 DEF Heard
    <3>4. NormalColumn(u, w)'
      BY <3>1, <1>5, ColumnKept DEF NormalWorker, NormalColumn
    <3>5. NormalReports(u, w)'
      BY <1>14, <1>15 DEF NormalReports
    <3>6. NoError(w)'
      BY <3>2, <1>4 DEF NoError
    <3>7. NormalStep(u, w)'
      <4>1. Heard(u, w)' + Len(mqueue'[w]) = 0
        BY <3>3, <1>14, <1>15, ColumnKept
      <4>2. Len(inbox'[w]) = 1
        BY <3>2, <1>4
      <4> QED BY <4>1, <4>2, <1>5 DEF NormalStep
    <3> QED BY <3>4, <3>5, <3>6, <3>7, <1>5 DEF NormalWorker
  <2>3. ASSUME Spread(u) PROVE SpreadWorker(u, w)'
    <3>1. SpreadWorker(u, w)
      BY <2>3, <1>3, <1>15, WorkerModes
    <3>2. PICK k \in DOMAIN inbox[w] : inbox[w][k].msg = "error"
      BY <3>1, <1>1, <1>3 DEF SpreadWorker, Warned
    <3>3. k - 1 \in DOMAIN inbox'[w] /\ inbox'[w][k - 1] = inbox[w][k]
      BY <3>2, <1>1, <1>4, QueueFacts
    <3>4. Warned(w)'
      BY <3>2, <3>3, <1>14, <1>15 DEF Warned, Calm
    <3> QED BY <3>4, <1>5, <1>14, <1>15 DEF SpreadWorker, SpreadReports
  <2>4. ASSUME Settled(u) PROVE FALSE
    BY <2>4, <1>3, <1>15, WorkerModes DEF SettledWorker
  <2> QED BY <2>1, <2>2, <2>3, <2>4
<1>16. manager = "running" => \A x \in Tasks : w \in Members(x) =>
              /\ ~ Begun(x) => Idle(x, w)'
              /\ Normal(x) => NormalWorker(x, w)'
              /\ Spread(x) => SpreadWorker(x, w)'
              /\ Settled(x) => SettledWorker(x, w)'
  BY <1>2, <1>15, Modes
<1>17. ASSUME manager = "running", NEW x \in Tasks, w \in Members(x)
       PROVE  ~ (Spread(x) /\ at[w] = x) /\ ~ Settled(x)
  BY <1>2, <1>15, <1>17, Modes
<1>18. \A x \in Tasks : << w, x >> \in raised => state[x] = "error"
  BY <1>1, <1>2 DEF Inv, Raisers, Live
<1>19. /\ at'[w] = at[w] \/ w \in Members(at'[w])
       /\ Alive(w)' => Placed(w)' /\ \A k \in DOMAIN inbox'[w] : Letter(w, k)'
       /\ manager = "running" => \A j \in DOMAIN mqueue'[w] : Report(w, j)'
  BY <1>3, <1>5, <1>12, <1>13, <1>14
<1> QED BY <1>1, <1>6, <1>7, <1>16, <1>17, <1>18, <1>19, WorkerStepInv

\* A worker that stops leaves what it has sent, or, when it is killed, what
\* its queue has written of that.
LEMMA ExitInv ==
    ASSUME Inv, NEW w \in Worker, Alive(w), ByWorker, step' = [step EXCEPT ![w] = "exited"],
           UNCHANGED << at, index, call, raised >>,
           inbox' \in [Worker -> Seq(Answer)], \A v \in Worker : v # w => inbox'[v] = inbox[v],
           mqueue' \in [Worker -> Seq(Message)], \A v \in Worker : v # w => mqueue'[v] = mqueue[v],
           \/ Ahead(w)
           \/ /\ Len(mqueue'[w]) <= Len(mqueue[w]) /\ DOMAIN mqueue'[w] \subseteq DOMAIN mqueue[w]
              /\ \A j \in DOMAIN mqueue'[w] : mqueue'[w][j] = mqueue[w][j],
           manager = "running" => \A j \in DOMAIN mqueue'[w] : Report(w, j)'
    PROVE  Inv'
<1>0. PICK t : t = at[w]
  OBVIOUS
<1> USE <1>0
<1>1. /\ Types /\ step'[w] = "exited" /\ \A v \in Worker : v # w => step'[v] = step[v]
      /\ step' \in [Worker -> {"go", "run", "collect", "finished_sync", "error_sync", "after_error", "exited"}]
      /\ ~ Alive(w)' /\ Alive(w)
  BY DEF Inv, Types, TypeOK, Alive
<1>2. /\ t \in Tasks /\ w \in Members(t) /\ (Ahead(w) => Over(t)) /\ (~ Ahead(w) => ~ Over(t))
      /\ \A u \in Tasks : ~ Over(u) /\ w \in Members(u) /\ ~ Ahead(w) => u = t
  BY Here DEF Placed
<1>3. Types'
  <2>1. /\ at \in [Worker -> Tasks] /\ raised \subseteq Worker \X Tasks
        /\ index \in [Worker -> Nat] /\ call \in [Worker -> Nat]
    BY <1>1 DEF Types, TypeOK
  <2> QED BY <2>1, <1>1, WorkerTypes
<1>4. \A v \in Worker : v # w => Unmoved(v)
  BY <1>1 DEF Unmoved
<1>5. ASSUME manager = "running", NEW u \in Tasks, w \in Members(u)
      PROVE  /\ ~ Begun(u) => Idle(u, w)'
             /\ Normal(u) => NormalWorker(u, w)'
             /\ Spread(u) => SpreadWorker(u, w)'
             /\ Settled(u) => SettledWorker(u, w)'
  <2>1. Idle(u, w)'
    BY <1>1 DEF Idle
  <2>2. ASSUME Normal(u) PROVE NormalWorker(u, w)'
    <3>1. NormalWorker(u, w)
      BY <2>2, <1>5, WorkerModes
    <3>2. NormalColumn(u, w)'
      BY <3>1, ColumnKept DEF NormalWorker
    <3>3. NormalReports(u, w)'
      <4>1. CASE Ahead(w)
        BY <4>1, <2>2, <1>2, Modes DEF NormalReports
      <4>2. CASE ~ Ahead(w)
        BY <4>2, <3>1, ColumnKept DEF NormalWorker, NormalReports
      <4> QED BY <4>1, <4>2
    <3> QED BY <3>2, <3>3, <1>1 DEF NormalWorker
  <2>3. ASSUME Spread(u) PROVE SpreadWorker(u, w)'
    <3>1. SpreadWorker(u, w)
      BY <2>3, <1>5, WorkerModes
    <3>2. SpreadReports(u, w)'
      <4>1. CASE Ahead(w)
        BY <4>1, <2>3, <1>2, Modes DEF SpreadReports
      <4>2. CASE ~ Ahead(w)
        <5>1. SpreadReports(u, w)
          BY <3>1 DEF SpreadWorker
        <5>2. \A j \in DOMAIN mqueue'[w] : j \in DOMAIN mqueue[w] /\ mqueue'[w][j] = mqueue[w][j]
          BY <4>2
        <5>3. at'[w] = at[w] /\ state' = state
          BY ColumnKept
        <5> QED BY <5>1, <5>2, <5>3 DEF SpreadReports
      <4> QED BY <4>1, <4>2
    <3> QED BY <3>2, <1>1 DEF SpreadWorker
  <2>4. ASSUME Settled(u) PROVE SettledWorker(u, w)'
    <3>1. SettledWorker(u, w) /\ t = u /\ ~ Ahead(w)
      BY <2>4, <1>2, <1>5, WorkerModes, Modes DEF SettledWorker
    <3>2. ASSUME NEW j \in DOMAIN mqueue'[w]
          PROVE  /\ mqueue'[w][j].msg = "finished" /\ mqueue'[w][j].flag /\ mqueue'[w][j].value = EndValue(w, u)
                 /\ Len(mqueue'[w]) = 1
      <4>1. j \in DOMAIN mqueue[w] /\ mqueue'[w][j] = mqueue[w][j] /\ Len(mqueue'[w]) <= Len(mqueue[w])
            /\ DOMAIN mqueue'[w] = 1 .. Len(mqueue'[w]) /\ Len(mqueue'[w]) \in Nat
        BY <3>1, <3>2, LenProperties
      <4>2. Len(mqueue[w]) = 1 /\ Len(mqueue'[w]) >= 1
        BY <4>1, <3>1, <3>2 DEF SettledWorker
      <4> QED BY <4>1, <4>2, <3>1 DEF SettledWorker
    <3>3. EndValue(w, u)' = EndValue(w, u)
      BY DEF EndValue
    <3> QED BY <3>1, <3>2, <3>3, <1>1 DEF SettledWorker
  <2> QED BY <2>1, <2>2, <2>3, <2>4
<1>6. ASSUME manager = "running", NEW u \in Tasks, w \in Members(u), mqueue[w] = << >>
      PROVE  /\ Spread(u) /\ at[w] = u /\ step[w] = "error_sync" =>
                    /\ at'[w] = u /\ index'[w] = index[w]
                    /\ step'[w] \in {"error_sync", "exited"} /\ mqueue'[w] = << >>
             /\ Settled(u) /\ step[w] = "after_error" =>
                    /\ index'[w] = index[w]
                    /\ step'[w] \in {"after_error", "exited"} /\ mqueue'[w] = << >>
  <2>1. ASSUME (Spread(u) /\ at[w] = u) \/ Settled(u) PROVE mqueue'[w] = << >>
    <3>1. ~ Ahead(w)
      BY <2>1, <1>2, <1>6, WorkerModes, Modes DEF SettledWorker
    <3>2. mqueue'[w] \in Seq(Message) /\ Len(mqueue'[w]) <= 0
      BY <3>1, <1>6
    <3> QED BY <3>2, EmptySeq
  <2> QED BY <2>1, <1>1
<1>7. ASSUME NEW u \in Tasks, << w, u >> \in raised, state[u] # "error"
      PROVE  /\ Live(u) /\ Whole(u) /\ at'[w] = u /\ step'[w] \in {"error_sync", "exited"}
             /\ w \in Members(u) /\ Unfinished(w, u)'
  <2>1. Live(u) /\ Whole(u) /\ at[w] = u /\ w \in Members(u) /\ Unfinished(w, u)
    BY <1>7 DEF Inv, Raisers
  <2>2. ~ Ahead(w)
    BY <2>1, <1>2 DEF Live
  <2>3. Unfinished(w, u)'
    BY <2>1, <2>2, ColumnKept DEF Unfinished, ByWorker, managerVars
  <2> QED BY <2>1, <2>3, <1>1
<1>8. at'[w] = at[w] /\ \A v \in Worker, u \in Tasks : v # w => (<< v, u >> \in raised' <=> << v, u >> \in raised)
  OBVIOUS
<1> QED BY <1>1, <1>3, <1>4, <1>5, <1>6, <1>7, <1>8, WorkerStepInv

LEMMA ReportsLeft ==
    ASSUME Inv, manager = "running", NEW w \in Worker, ByWorker, UNCHANGED << at, index >>, step'[w] = "exited",
           Len(mqueue'[w]) \in Nat, Len(mqueue'[w]) <= Len(mqueue[w]), DOMAIN mqueue'[w] = 1 .. Len(mqueue'[w]),
           \A j \in DOMAIN mqueue'[w] : j \in DOMAIN mqueue[w] /\ mqueue'[w][j] = mqueue[w][j]
    PROVE  \A j \in DOMAIN mqueue'[w] : Report(w, j)'
<1> SUFFICES ASSUME NEW j \in DOMAIN mqueue'[w] PROVE Report(w, j)'
  OBVIOUS
<1>1. Report(w, j) /\ j \in DOMAIN mqueue[w] /\ mqueue'[w][j] = mqueue[w][j]
  BY DEF Inv, Running, Reports
<1>2. mqueue[w][j].msg = "error" => j = Len(mqueue'[w])
  <2>1. mqueue[w][j].msg = "error" => j = Len(mqueue[w])
    BY <1>1 DEF Report
  <2>2. Len(mqueue[w]) \in Nat /\ DOMAIN mqueue[w] = 1 .. Len(mqueue[w])
    BY QueueFacts DEF Inv
  <2> QED BY <2>1, <2>2
<1> QED BY <1>1, <1>2, ManagerKept DEF Report, SentBy

LEMMA StopInv ==
    ASSUME Inv, NEW w \in Worker, Alive(w), ByWorker, step' = [step EXCEPT ![w] = "exited"],
           inbox[w] # << >>, Take(w), UNCHANGED << mqueue, at, index, call, raised >>
    PROVE  Inv'
<1>1. inbox' \in [Worker -> Seq(Answer)] /\ \A v \in Worker : v # w => inbox'[v] = inbox[v]
  BY TakeFacts DEF Inv
<1>2. mqueue \in [Worker -> Seq(Message)] /\ step'[w] = "exited"
  BY DEF Inv, Types, TypeOK
<1>3. Len(mqueue[w]) \in Nat /\ DOMAIN mqueue[w] = 1 .. Len(mqueue[w])
  BY QueueFacts DEF Inv
<1>4. manager = "running" => \A j \in DOMAIN mqueue'[w] : Report(w, j)'
  <2> SUFFICES ASSUME manager = "running" PROVE \A j \in DOMAIN mqueue'[w] : Report(w, j)'
    OBVIOUS
  <2>1. /\ Len(mqueue'[w]) \in Nat /\ Len(mqueue'[w]) <= Len(mqueue[w]) /\ DOMAIN mqueue'[w] = 1 .. Len(mqueue'[w])
        /\ \A j \in DOMAIN mqueue'[w] : j \in DOMAIN mqueue[w] /\ mqueue'[w][j] = mqueue[w][j]
    BY <1>3
  <2> QED BY <2>1, <1>2, ReportsLeft
<1>5. /\ Len(mqueue'[w]) <= Len(mqueue[w]) /\ DOMAIN mqueue'[w] \subseteq DOMAIN mqueue[w]
      /\ \A j \in DOMAIN mqueue'[w] : mqueue'[w][j] = mqueue[w][j]
      /\ mqueue' \in [Worker -> Seq(Message)] /\ \A v \in Worker : v # w => mqueue'[v] = mqueue[v]
  BY <1>2, <1>3
<1> QED BY <1>1, <1>4, <1>5, ExitInv

LEMMA RecvFinishedInv ==
    ASSUME Inv, NEW w \in Worker, RecvFinished(w)
    PROVE  Inv'
<1>1. /\ step[w] = "finished_sync" /\ inbox[w] # << >> /\ Got(w) = "finished" /\ Take(w) /\ NextTask(w) /\ ByWorker
      /\ UNCHANGED << mqueue, index, call, raised >> /\ Alive(w)
  BY DEF RecvFinished, Waiting, Alive
<1>2. CASE NextIn(w[1], at[w]) # None
  BY <1>1, <1>2, LetGoInv
<1>3. CASE NextIn(w[1], at[w]) = None
  <2>1. step' = [step EXCEPT ![w] = "exited"] /\ at' = at
    BY <1>1, <1>3 DEF NextTask, Goto, Inv, Types, TypeOK
  <2> QED BY <1>1, <2>1, StopInv
<1> QED BY <1>2, <1>3

LEMMA LeaveErrorInv ==
    ASSUME Inv, NEW w \in Worker, LeaveError(w)
    PROVE  Inv'
<1>1. /\ step[w] = "after_error" /\ inbox[w] # << >> /\ Got(w) = "finished" /\ Take(w) /\ ByWorker
      /\ UNCHANGED << index, call, raised >> /\ Alive(w) /\ Ahead(w)
  BY DEF LeaveError, Waiting, Alive, Ahead
<1>2. CASE ~ verbose
  <2>1. NextTask(w) /\ mqueue' = mqueue
    BY <1>2 DEF LeaveError
  <2>2. CASE NextIn(w[1], at[w]) # None
    BY <1>1, <2>1, <2>2, LetGoInv
  <2>3. CASE NextIn(w[1], at[w]) = None
    <3>1. step' = [step EXCEPT ![w] = "exited"] /\ at' = at
      BY <2>1, <2>3 DEF NextTask, Goto, Inv, Types, TypeOK
    <3> QED BY <1>1, <2>1, <3>1, StopInv
  <2> QED BY <2>2, <2>3
<1>3. CASE verbose
  <2>1. step' = [step EXCEPT ![w] = "exited"] /\ at' = at /\ step'[w] = "exited"
    BY <1>3 DEF LeaveError, Goto, Inv, Types, TypeOK
  <2>2. CASE ~ own[w]
    <3>1. mqueue' = mqueue
      BY <2>2 DEF LeaveError
    <3> QED BY <1>1, <2>1, <3>1, StopInv
  <2>3. CASE own[w]
    <3>1. Send(w, "crash", ErrorValue(w), FALSE) /\ ErrorValue(w) \in ValueSet /\ ErrorValue(w).from = w
      BY <1>3, <2>3, ValueTypes DEF LeaveError, ErrorValue, Value, Inv
    <3>2. /\ mqueue' \in [Worker -> Seq(Message)]
          /\ DOMAIN mqueue'[w] = 1 .. Len(mqueue[w]) + 1
          /\ mqueue'[w][Len(mqueue[w]) + 1] =
                [task |-> at[w], index |-> index[w], msg |-> "crash", value |-> ErrorValue(w), flag |-> FALSE]
          /\ \A v \in Worker : v # w => mqueue'[v] = mqueue[v]
      BY <3>1, SendFacts DEF Inv
    <3>3. inbox' \in [Worker -> Seq(Answer)] /\ \A v \in Worker : v # w => inbox'[v] = inbox[v]
      BY <1>1, TakeFacts DEF Inv
    <3>4. ASSUME manager = "running", NEW j \in DOMAIN mqueue'[w] PROVE Report(w, j)'
      <4>1. mqueue[w] = << >>
        BY <1>1, <3>4, NothingSentAhead
      <4>2. j = Len(mqueue[w]) + 1
        BY <3>2, <3>4, <4>1
      <4>3. PICK m : /\ m = mqueue'[w][j] /\ m.task = at[w] /\ m.index = index[w] /\ m.msg = "crash"
                     /\ m.value.from = w
        BY <3>1, <3>2, <4>2
      <4>4. Over(at[w])' /\ Exists(w)' /\ at'[w] = at[w] /\ index'[w] = index[w]
        BY <1>1, <2>1, Here, ManagerKept DEF Placed
      <4> QED BY <2>1, <4>3, <4>4 DEF Report, SentBy
    <3> QED BY <1>1, <2>1, <3>2, <3>3, <3>4, ExitInv
  <2> QED BY <2>2, <2>3
<1> QED BY <1>2, <1>3

LEMMA DieInHandlerInv ==
    ASSUME Inv, NEW w \in Worker, DieInHandler(w)
    PROVE  Inv'
<1>1. /\ step[w] = "after_error" /\ inbox[w] # << >> /\ Take(w) /\ ByWorker /\ step' = [step EXCEPT ![w] = "exited"]
      /\ UNCHANGED << mqueue, at, index, call, raised >> /\ Alive(w)
  BY DEF DieInHandler, Waiting, Alive, Goto
<1> QED BY <1>1, StopInv

LEMMA KillInv ==
    ASSUME Inv, NEW w \in Worker, Kill(w)
    PROVE  Inv'
<1>1. /\ Alive(w) /\ ByWorker /\ step' = [step EXCEPT ![w] = "exited"]
      /\ UNCHANGED << inbox, at, index, call, raised >>
  BY DEF Kill, Alive, Goto
<1>2. PICK n \in 0 .. Len(mqueue[w]) : mqueue' = [mqueue EXCEPT ![w] = SubSeq(@, 1, n)]
  BY DEF Kill
<1>3. mqueue \in [Worker -> Seq(Message)] /\ inbox \in [Worker -> Seq(Answer)] /\ step'[w] = "exited"
  BY <1>1 DEF Inv, Types, TypeOK
<1>4. Len(mqueue[w]) \in Nat /\ DOMAIN mqueue[w] = 1 .. Len(mqueue[w]) /\ n \in Nat /\ n <= Len(mqueue[w])
      /\ \A j \in DOMAIN mqueue[w] : mqueue[w][j] \in Message
  BY <1>2, QueueFacts DEF Inv
<1>5. mqueue'[w] = SubSeq(mqueue[w], 1, n) /\ \A v \in Worker : v # w => mqueue'[v] = mqueue[v]
  BY <1>2, <1>3
<1>6. /\ SubSeq(mqueue[w], 1, n) \in Seq(Message) /\ Len(SubSeq(mqueue[w], 1, n)) = n
      /\ \A i \in 1 .. n : SubSeq(mqueue[w], 1, n)[i] = mqueue[w][i]
  <2>1. \A i \in 1 .. n : mqueue[w][i] \in Message
    BY <1>4
  <2>2. /\ SubSeq(mqueue[w], 1, n) \in Seq(Message)
        /\ Len(SubSeq(mqueue[w], 1, n)) = IF 1 <= n THEN n - 1 + 1 ELSE 0
        /\ \A i \in 1 .. n - 1 + 1 : SubSeq(mqueue[w], 1, n)[i] = mqueue[w][1 + i - 1]
    BY <2>1, <1>4, SubSeqProperties
  <2> QED BY <2>2, <1>4
<1>7. mqueue' \in [Worker -> Seq(Message)]
  BY <1>2, <1>3, <1>6
<1>8. /\ Len(mqueue'[w]) \in Nat /\ Len(mqueue'[w]) <= Len(mqueue[w]) /\ DOMAIN mqueue'[w] = 1 .. Len(mqueue'[w])
      /\ \A j \in DOMAIN mqueue'[w] : j \in DOMAIN mqueue[w] /\ mqueue'[w][j] = mqueue[w][j]
  <2>1. DOMAIN mqueue'[w] = 1 .. n
    BY <1>5, <1>6, LenProperties
  <2> QED BY <2>1, <1>4, <1>5, <1>6
<1>9. manager = "running" => \A j \in DOMAIN mqueue'[w] : Report(w, j)'
  BY <1>1, <1>3, <1>8, ReportsLeft
<1>10. inbox' \in [Worker -> Seq(Answer)] /\ \A v \in Worker : v # w => inbox'[v] = inbox[v]
  BY <1>1, <1>3
<1> QED BY <1>1, <1>5, <1>7, <1>8, <1>9, <1>10, ExitInv

\* Every step of a worker keeps the invariant.
LEMMA WorkersInv ==
    ASSUME Inv, NEW w \in Worker, WorkerStep(w) \/ Raise(w) \/ Kill(w)
    PROVE  Inv'
<1>1. CASE \E s \in {"go", "collect", "finished_sync"} : Waiting(w, s) /\ OtherTaskError(w)
  BY <1>1, OtherTaskErrorInv DEF Waiting
<1> QED BY <1>1, RecvGoInv, CollectiveInv, RecvCollectedInv, FinishInv, RecvFinishedInv, RaiseInv, IgnoreErrorInv,
           FinishAfterErrorInv, LeaveErrorInv, DieInHandlerInv, KillInv DEF WorkerStep

-----------------------------------------------------------------------------
(* The steps of the manager. *)

\* The manager takes m, the first message of a worker.
Received(w, m) ==
    /\ manager = "running" /\ mqueue[w] # << >> /\ m = Head(mqueue[w])
    /\ mqueue' = [mqueue EXCEPT ![w] = Tail(@)]

\* What the manager finds at the head of a worker's queue.
LEMMA HeadFacts ==
    ASSUME Inv, NEW w \in Worker, NEW m, Received(w, m)
    PROVE  /\ manager = "running" /\ mqueue[w] # << >>
           /\ m \in Message /\ 1 \in DOMAIN mqueue[w] /\ m = mqueue[w][1]
           /\ m.task = at[w] /\ m.index = index[w] /\ m.value.from = w /\ m.value \in ValueSet
           /\ m.task \in Tasks /\ w \in Members(m.task) /\ Exists(w) /\ step[w] # "go"
           /\ m.msg = "crash" => step[w] = "exited"
           /\ m.msg # "crash" => Live(m.task)
           /\ m.msg = "error" => Len(mqueue[w]) = 1 /\ step[w] \in {"error_sync", "exited"} /\ m.value = ErrorValue(w)
           /\ mqueue' \in [Worker -> Seq(Message)]
           /\ Len(mqueue'[w]) = Len(mqueue[w]) - 1 /\ DOMAIN mqueue'[w] = 1 .. Len(mqueue[w]) - 1
           /\ mqueue'[w] = << >> <=> Len(mqueue[w]) = 1
           /\ \A j \in DOMAIN mqueue'[w] : mqueue'[w][j] = mqueue[w][j + 1] /\ j + 1 \in DOMAIN mqueue[w]
           /\ \A v \in Worker : v # w => mqueue'[v] = mqueue[v]
<1>0. /\ manager = "running" /\ mqueue[w] # << >> /\ m = Head(mqueue[w])
      /\ mqueue' = [mqueue EXCEPT ![w] = Tail(@)]
  BY DEF Received
<1>1. /\ m = mqueue[w][1] /\ 1 \in DOMAIN mqueue[w] /\ m \in Message /\ mqueue[w] \in Seq(Message)
      /\ DOMAIN mqueue[w] = 1 .. Len(mqueue[w]) /\ Len(mqueue[w]) \in Nat
  BY <1>0, QueueFacts DEF Inv
<1> USE <1>0
<1>2. Report(w, 1)
  BY <1>1 DEF Inv, Running, Reports
<1>3. at[w] \in Tasks /\ w \in Members(at[w])
  BY <1>2 DEF Report, Inv, Types, TypeOK, Pools
<1>4. mqueue'[w] = Tail(mqueue[w]) /\ \A v \in Worker : v # w => mqueue'[v] = mqueue[v]
  BY DEF Inv, Types
<1>5. mqueue'[w] \in Seq(Message) /\ Len(mqueue'[w]) = Len(mqueue[w]) - 1
      /\ \A i \in 1 .. Len(mqueue'[w]) : mqueue'[w][i] = mqueue[w][i + 1]
  <2>1. mqueue[w] \in Seq(Message) /\ mqueue[w] # << >>
    BY <1>1
  <2>2. /\ Tail(mqueue[w]) \in Seq(Message) /\ Len(Tail(mqueue[w])) = Len(mqueue[w]) - 1
        /\ \A i \in 1 .. Len(Tail(mqueue[w])) : Tail(mqueue[w])[i] = mqueue[w][i + 1]
    BY <2>1, HeadTailProperties
  <2> QED BY <2>2, <1>4
<1>6. DOMAIN mqueue'[w] = 1 .. Len(mqueue[w]) - 1 /\ (mqueue'[w] = << >> <=> Len(mqueue'[w]) = 0)
  BY <1>5, LenProperties, EmptySeq
<1>7. mqueue' \in [Worker -> Seq(Message)]
  BY <1>5 DEF Inv, Types
<1>8. m.value \in ValueSet /\ m.task = at[w] /\ m.index = index[w] /\ m.value.from = w /\ Exists(w) /\ step[w] # "go"
      /\ (m.msg = "crash" => step[w] = "exited") /\ (m.msg # "crash" => Live(at[w]))
      /\ (m.msg = "error" => 1 = Len(mqueue[w]) /\ step[w] \in {"error_sync", "exited"} /\ m.value = ErrorValue(w))
  BY <1>1, <1>2 DEF Report, SentBy, Message
<1> QED BY <1>1, <1>3, <1>4, <1>5, <1>6, <1>7, <1>8

\* Nothing below a task that has neither finished nor failed has been begun.
LEMMA NotYet ==
    ASSUME Inv, NEW t \in Tasks, Live(t), state[t] # "error", NEW u \in Tasks, t \in PrevTasks[u]
    PROVE  ~ Begun(u)
<1>1. state[t] \in {"unstart", "started"}
  BY DEF Live, Over, Inv, Types, TypeOK
<1>2. u \notin Sources
  BY TaskFacts
<1>3. state[u] \notin {"started", "error", "finished"}
  BY <1>1 DEF Inv, States
<1>4. state[u] # "no_source_data"
  <2>1. PICK s \in Sources : t \in Reached[s] /\ procs[s] # 0
    BY DEF Live, Inv, States
  <2>2. u \in Reached[s]
    BY <2>1, ReachedFacts, TaskFacts
  <2> QED BY <2>1, <2>2 DEF Inv, States
<1>5. state[u] = "unstart"
  BY <1>3, <1>4 DEF Inv, Types, TypeOK
<1> QED BY <1>2, <1>5 DEF Begun

\* A step about one task that is under way leaves what is known of the others.
LEMMA OthersKept ==
    ASSUME Inv, NEW t \in Tasks, Live(t), state' = state \/ state' = [state EXCEPT ![t] = "error"],
           \A u \in Tasks : u # t => rounds'[u] = rounds[u], ~ Over(t)'
    PROVE  /\ \A u \in Tasks : u # t => state'[u] = state[u]
           /\ \A u \in Tasks : Begun(u)' = Begun(u) /\ Over(u)' = Over(u) /\ Live(u)' = Live(u)
           /\ \A u \in Tasks : Begun(u) => Whole(u)' = Whole(u)
           /\ \A u \in Tasks : u # t => /\ Normal(u)' = Normal(u) /\ Spread(u)' = Spread(u)
                                        /\ Settled(u)' = Settled(u)
           /\ \A u \in Tasks : state[u] = "error" => state'[u] = "error"
           /\ \A u \in Tasks : state'[u] = "no_source_data" <=> state[u] = "no_source_data"
<1>0. \A u \in Tasks : u # t => state'[u] = state[u] /\ rounds'[u] = rounds[u]
  BY DEF Inv, Types, TypeOK
<1>1. state'[t] = state[t] \/ (state'[t] = "error" /\ state[t] # "error")
  BY DEF Inv, Types, TypeOK
<1>2. ASSUME NEW u \in Tasks, Begun(u) PROVE Whole(u)' = Whole(u)
  <2>1. CASE state' = state
    BY <2>1 DEF Whole
  <2>2. CASE t \in PrevTasks[u]
    <3>1. state[t] = "error" \/ state' = state
      BY <1>2, <2>2, NotYet
    <3>2. CASE state[t] = "error"
      <4>1. \A p \in Tasks : state'[p] = state[p]
        BY <3>2, <1>0, <1>1
      <4> QED BY <4>1, TaskFacts DEF Whole
    <3> QED BY <2>1, <3>1, <3>2
  <2>3. CASE t \notin PrevTasks[u]
    BY <2>3, <1>0, TaskFacts DEF Whole
  <2> QED BY <2>2, <2>3
<1>3. Begun(t) /\ ~ Over(t) /\ state[t] # "no_source_data"
  BY DEF Live
<1>4. \A u \in Tasks : u # t => Begun(u)' = Begun(u) /\ Over(u)' = Over(u) /\ Live(u)' = Live(u)
  BY <1>0 DEF Begun, Over, Live
<1>5. Begun(t)' /\ state'[t] # "no_source_data"
  BY <1>1, <1>3 DEF Begun
<1>6. Live(t)' /\ Live(t)
  BY <1>5 DEF Live
<1>7. ASSUME NEW u \in Tasks, u # t
      PROVE  Normal(u)' = Normal(u) /\ Spread(u)' = Spread(u) /\ Settled(u)' = Settled(u)
  <2>1. Doomed(u)' = Doomed(u)
    <3>1. CASE state[u] = "started"
      <4>1. Begun(u)
        BY <3>1 DEF Begun
      <4> QED BY <1>0, <1>2, <1>7, <4>1 DEF Doomed
    <3>2. CASE state[u] # "started"
      BY <1>0, <1>7, <3>2 DEF Doomed
    <3> QED BY <3>1, <3>2
  <2> QED BY <2>1, <1>0, <1>4, <1>7 DEF Normal, Spread, Settled
<1>8. ASSUME NEW u \in Tasks PROVE Begun(u)' = Begun(u) /\ Over(u)' = Over(u) /\ Live(u)' = Live(u)
  <2>1. CASE u = t
    <3>1. Begun(t)' = Begun(t)
      BY <1>3, <1>5 DEF Begun
    <3>2. Over(t)' = Over(t)
      BY <1>3 DEF Over
    <3>3. Live(t)' = Live(t)
      BY <1>6 DEF Live
    <3> QED BY <2>1, <3>1, <3>2, <3>3
  <2> QED BY <1>4, <2>1
<1>9. \A u \in Tasks : /\ state[u] = "error" => state'[u] = "error"
                       /\ state'[u] = "no_source_data" <=> state[u] = "no_source_data"
  BY <1>0, <1>1, <1>3, <1>5
<1> QED BY <1>0, <1>2, <1>7, <1>8, <1>9

LEMMA FrameWorker ==
    ASSUME NEW v, NEW u, UNCHANGED << step, at, index, call >>, queues'[u] = queues[u],
           Column(v, u)' = Column(v, u), rounds'[u] = rounds[u], state'[u] = state[u],
           inbox'[v] = inbox[v], mqueue'[v] = mqueue[v]
    PROVE  /\ Idle(u, v)' = Idle(u, v) /\ NormalWorker(u, v)' = NormalWorker(u, v)
           /\ SpreadWorker(u, v)' = SpreadWorker(u, v) /\ SettledWorker(u, v)' = SettledWorker(u, v)
           /\ Column(v, u)' = Column(v, u)
<1>1. Alive(v)' = Alive(v) /\ NoError(v)' = NoError(v) /\ Calm(v)' = Calm(v) /\ OnlyErrors(v)' = OnlyErrors(v)
  BY DEF Alive, NoError, Calm, OnlyErrors
<1>2. Idle(u, v)' = Idle(u, v)
  BY <1>1 DEF Idle
<1>3. Heard(u, v)' = Heard(u, v) /\ Last(u)' = Last(u)
  BY DEF Heard, Last
<1>4. \A k : Event(v, u, k)' = Event(v, u, k) /\ EventMsg(u, k)' = EventMsg(u, k) /\ Blocks(v, u, k)' = Blocks(v, u, k)
  BY <1>3 DEF Event, EventMsg, Blocks, EndValue
<1>5. NormalColumn(u, v)' = NormalColumn(u, v)
  BY <1>3, <1>4 DEF NormalColumn
<1>6. NormalReports(u, v)' = NormalReports(u, v)
  BY <1>3, <1>4 DEF NormalReports
<1>7. NormalWaits(u, v)' = NormalWaits(u, v)
  BY <1>4 DEF NormalWaits
<1>8. NormalStep(u, v)' = NormalStep(u, v)
  BY <1>1, <1>3, <1>4, <1>7 DEF NormalStep
<1>9. NormalWorker(u, v)' = NormalWorker(u, v)
  BY <1>1, <1>5, <1>6, <1>8 DEF NormalWorker
<1>10. SpreadWorker(u, v)' = SpreadWorker(u, v)
  BY <1>1 DEF SpreadWorker, SpreadReports, Warned, Failed
<1>11. SettledWorker(u, v)' = SettledWorker(u, v)
  BY <1>1 DEF SettledWorker, EndValue
<1> QED BY <1>2, <1>3, <1>9, <1>10, <1>11

\* A letter that stays where it was still fits.
LEMMA OldLetter ==
    ASSUME NEW v, NEW k \in DOMAIN inbox[v], DOMAIN inbox[v] = 1 .. Len(inbox[v]), Len(inbox[v]) \in Nat,
           Letter(v, k), UNCHANGED << queues, step, at, index, call >>, Ahead(v)' = Ahead(v),
           \A j \in DOMAIN inbox[v] : inbox'[v][j] = inbox[v][j],
           state[at[v]] = "error" => state'[at[v]] = "error",
           \A u \in Tasks : Begun(u) /\ Whole(u) => Begun(u)' /\ Whole(u)'
    PROVE  Letter(v, k)'
<1>1. Now(v)' = Now(v)
  BY DEF Now
<1>2. \A m : Collected(v, m)' = Collected(v, m)
  BY DEF Collected, Members
<1>3. PICK m : m = inbox[v][k]
  OBVIOUS
<1>4. m = inbox'[v][k]
  BY <1>3
<1>5. /\ m.msg = "finished" => k = 1
      /\ m.msg \in {"gather", "all_gather"} => k = 1 /\ Collected(v, m)
      /\ m.msg = "error_gather" =>
            step[v] = "error_sync" /\ state[at[v]] = "error" /\ \A j \in 1 .. k - 1 : inbox[v][j].msg = "error"
      /\ m.msg = "go" =>
            /\ (k = 1 /\ step[v] = "go") \/ (k = 2 /\ Ahead(v))
            /\ Now(v) \in Tasks /\ Begun(Now(v)) /\ Whole(Now(v)) /\ m.idx = queues[Now(v)][v]
  BY <1>3 DEF Letter
<1>6. \A j \in 1 .. k - 1 : j \in DOMAIN inbox[v]
  OBVIOUS
<1>7. m.msg \in {"gather", "all_gather"} => k = 1 /\ Collected(v, m)'
  BY <1>2, <1>5
<1>8. m.msg = "error_gather" =>
        step'[v] = "error_sync" /\ state'[at'[v]] = "error" /\ \A j \in 1 .. k - 1 : inbox'[v][j].msg = "error"
  BY <1>5, <1>6
<1>9. m.msg = "go" =>
            /\ (k = 1 /\ step'[v] = "go") \/ (k = 2 /\ Ahead(v)')
            /\ Now(v)' \in Tasks /\ Begun(Now(v))' /\ Whole(Now(v))' /\ m.idx = queues'[Now(v)'][v]
  <2>1. PICK u : u = Now(v)
    OBVIOUS
  <2>2. u = Now(v)'
    BY <1>1, <2>1
  <2>3. Begun(u)' => Begun(Now(v))'
    BY <2>2 DEF Begun
  <2>4. Whole(u)' => Whole(Now(v))'
    BY <2>2 DEF Whole
  <2> QED BY <1>5, <2>1, <2>2, <2>3, <2>4
<1> QED BY <1>4, <1>5, <1>7, <1>8, <1>9 DEF Letter

\* What the manager does to one task that is under way, the other tasks and the
\* letters already written aside.
LEMMA KeptInv ==
    ASSUME Inv, UNCHANGED << procs, queues, owner, step, at, index, call >>, Types',
           \A u \in Tasks : Begun(u)' = Begun(u) /\ Over(u)' = Over(u) /\ Live(u)' = Live(u),
           \A u \in Tasks : Begun(u) => Whole(u)' = Whole(u),
           \A u \in Tasks : state'[u] = state[u] \/ (state'[u] = "error" /\ Live(u)),
           \A u \in Tasks : state'[u] = "error" => rounds'[u] <= 2,
           \A u \in Tasks : ~ Begun(u) => rounds'[u] = rounds[u] /\ gather'[u] = gather[u],
           \A u \in Tasks : \A i \in Indices : gather'[u][i] # << >> => i \in Range(queues[u]),
           \A v \in Worker : Alive(v) =>
              /\ Len(inbox[v]) <= Len(inbox'[v])
              /\ \A k \in DOMAIN inbox[v] : inbox'[v][k] = inbox[v][k]
              /\ \A k \in DOMAIN inbox'[v] \ DOMAIN inbox[v] : inbox'[v][k].msg # "finished" /\ Letter(v, k)'
    PROVE  Pools' /\ States' /\ Letters'
<1>1. Pools'
  <2>1. \A u \in Tasks : Members(u)' = Members(u)
    BY DEF Members
  <2>2. /\ \A s \in Sources : procs'[s] > 0 => << s, 1 >> \in Worker
        /\ \A u \in Tasks : \A v \in Members(u)' : Exists(v)' /\ u \in Reached[v[1]]
        /\ \A u \in Tasks : \A v, x \in Members(u)' : queues'[u][v] = queues'[u][x] => v = x
    BY <2>1 DEF Inv, Pools, Exists
  <2>3. \A v \in Worker : Exists(v)' => v \in Members(at[v])'
    BY <2>1 DEF Inv, Pools, Exists, Types, TypeOK
  <2>4. \A s \in Sources : owner'[s] # None =>
          /\ procs'[s] > 0 /\ owner'[s] \in Reached[s] /\ ~ Over(owner[s])'
          /\ \A v \in Worker : v[1] = s /\ Exists(v)' => v \in Members(owner[s])'
    <3>1. ASSUME NEW s \in Sources, owner[s] # None PROVE owner[s] \in Tasks /\ ~ Over(owner[s])'
      BY <3>1 DEF Inv, Pools, Types, TypeOK
    <3> QED BY <3>1, <2>1 DEF Inv, Pools, Exists
  <2>5. \A u \in Tasks : \A v \in Members(u)' :
          /\ owner'[v[1]] # None => Pos(u) <= Pos(owner'[v[1]])
          /\ ~ Over(u)' => owner'[v[1]] = u
    BY <2>1 DEF Inv, Pools
  <2>6. \A u \in Tasks, s \in Sources : procs'[s] > 0 /\ u \in Reached[s] =>
          /\ Live(u)' => owner'[s] = u
          /\ Begun(u)' /\ owner'[s] # None => Pos(u) <= Pos(owner'[s])
    BY DEF Inv, Pools
  <2> QED BY <2>2, <2>3, <2>4, <2>5, <2>6 DEF Pools
<1>2. States'
  <2>1. ASSUME NEW u \in Tasks
        PROVE  /\ state'[u] = "no_source_data" <=> \A s \in Sources : u \in Reached[s] => procs'[s] = 0
               /\ u \in Sources => state'[u] # "started"
               /\ state'[u] \in {"started", "error", "finished"} =>
                     \A p \in PrevTasks[u] : state'[p] \in {"finished", "no_source_data", "error"}
               /\ state'[u] = "finished" => Whole(u)'
               /\ ~ Begun(u)' => rounds'[u] = 0 /\ \A i \in Indices : gather'[u][i] = << >>
               /\ \A i \in Indices : gather'[u][i] # << >> => i \in Range(queues'[u])
               /\ state'[u] = "error" => rounds'[u] <= 2
    <3>1. state'[u] = "no_source_data" <=> state[u] = "no_source_data"
      BY DEF Live
    <3>2. ASSUME state'[u] \in {"started", "error", "finished"}, NEW p \in PrevTasks[u]
          PROVE  state'[p] \in {"finished", "no_source_data", "error"}
      <4>1. state[u] \in {"started", "error", "finished"}
        <5>1. CASE state'[u] = state[u]
          BY <3>2, <5>1
        <5>2. CASE Live(u)
          <6>1. u \notin Sources
            BY <3>2, TaskFacts
          <6> QED BY <5>2, <6>1 DEF Live, Begun, Inv, Types, TypeOK
        <5> QED BY <5>1, <5>2
      <4>2. state[p] \in {"finished", "no_source_data", "error"} /\ p \in Tasks
        BY <3>2, <4>1, TaskFacts DEF Inv, States
      <4> QED BY <4>2
    <3>3. state'[u] = "finished" => Whole(u)'
      <4>1. state'[u] = "finished" => state[u] = "finished"
        OBVIOUS
      <4>2. state[u] = "finished" => Begun(u) /\ Whole(u)
        BY DEF Begun, Inv, States
      <4> QED BY <4>1, <4>2
    <3>4. ~ Begun(u)' => rounds'[u] = 0 /\ \A i \in Indices : gather'[u][i] = << >>
      BY DEF Inv, States
    <3>5. u \in Sources => state'[u] # "started"
      BY DEF Inv, States
    <3> QED BY <3>1, <3>2, <3>3, <3>4, <3>5 DEF Inv, States
  <2> QED BY <2>1 DEF States
<1>3. Letters'
  <2> SUFFICES ASSUME NEW v \in Worker, Alive(v)' PROVE Placed(v)' /\ \A k \in DOMAIN inbox'[v] : Letter(v, k)'
    BY DEF Letters
  <2>1. Alive(v) /\ Placed(v) /\ (\A k \in DOMAIN inbox[v] : Letter(v, k)) /\ at[v] \in Tasks
    BY DEF Alive, Inv, Letters, Types, TypeOK
  <2>2. /\ inbox[v] \in Seq(Answer) /\ inbox'[v] \in Seq(Answer)
        /\ DOMAIN inbox[v] = 1 .. Len(inbox[v]) /\ Len(inbox[v]) \in Nat
        /\ DOMAIN inbox'[v] = 1 .. Len(inbox'[v]) /\ Len(inbox'[v]) \in Nat
    BY LenProperties DEF Inv, Types
  <2>3. Ahead(v)' = Ahead(v)
    <3>1. CASE inbox[v] = << >>
      <4>1. ~ Ahead(v) /\ Len(inbox[v]) = 0
        BY <3>1, <2>2, EmptySeq DEF Ahead
      <4>2. inbox'[v] # << >> => Head(inbox'[v]).msg # "finished"
        <5>1. inbox'[v] # << >> => 1 \in DOMAIN inbox'[v] /\ Head(inbox'[v]) = inbox'[v][1]
          BY <2>2, EmptySeq, HeadTailProperties
        <5> QED BY <5>1, <2>1, <2>2, <4>1
      <4>3. ~ Ahead(v)'
        BY <4>2 DEF Ahead, Got
      <4> QED BY <4>1, <4>3 DEF Ahead
    <3>2. CASE inbox[v] # << >>
      <4>1. Len(inbox[v]) # 0 /\ 1 \in DOMAIN inbox[v]
        BY <3>2, <2>2, EmptySeq
      <4>2. Len(inbox'[v]) # 0 /\ inbox'[v] # << >>
        <5>1. Len(inbox'[v]) # 0
          BY <4>1, <2>1, <2>2
        <5> QED BY <5>1, <2>2, EmptySeq
      <4>3. Head(inbox'[v]) = inbox'[v][1] /\ Head(inbox[v]) = inbox[v][1]
        BY <3>2, <4>2, <2>2, HeadTailProperties
      <4>4. Head(inbox'[v]) = Head(inbox[v])
        BY <4>1, <4>3, <2>1
      <4> QED BY <3>2, <4>2, <4>4 DEF Ahead, Got
    <3> QED BY <3>1, <3>2
  <2>4. Now(v)' = Now(v)
    BY <2>3 DEF Now
  <2>5. ASSUME NEW u \in Tasks, Begun(u) PROVE Begun(u)' /\ (Whole(u) => Whole(u)')
    BY <2>5
  <2>6. Placed(v)'
    <3>0. PICK u : u = at[v]
      OBVIOUS
    <3>1. Over(at[v]) => Over(at[v])'
      <4>1. Over(u) => Over(u)'
        BY <2>1, <3>0
      <4> QED BY <3>0, <4>1 DEF Over
    <3>2. Begun(at[v]) /\ Whole(at[v]) => Begun(at[v])' /\ Whole(at[v])'
      <4>1. Begun(u) /\ Whole(u) => Begun(u)' /\ Whole(u)'
        BY <2>1, <2>5, <3>0
      <4> QED BY <3>0, <4>1 DEF Begun, Whole
    <3>3. Exists(v)' = Exists(v)
      BY DEF Exists
    <3> QED BY <2>1, <2>3, <2>4, <3>1, <3>2, <3>3 DEF Placed
  <2>7. \A u \in Tasks : Begun(u) /\ Whole(u) => Begun(u)' /\ Whole(u)'
    BY <2>5
  <2>8. state[at[v]] = "error" => state'[at[v]] = "error"
    BY <2>1
  <2>9. ASSUME NEW k \in DOMAIN inbox[v] PROVE Letter(v, k)'
    BY <2>1, <2>2, <2>3, <2>7, <2>8, OldLetter
  <2> QED BY <2>1, <2>6, <2>9
<1> QED BY <1>1, <1>2, <1>3

\* A step of the manager about one task keeps the invariant if it does for that task.
LEMMA HandleStepInv ==
    ASSUME Inv, NEW w \in Worker, NEW m, Received(w, m), NEW t, t = m.task, m.msg # "crash",
           UNCHANGED << procs, queues, owner, step, at, index, call, raised >>, Types',
           state' = state \/ state' = [state EXCEPT ![t] = "error"],
           \A u \in Tasks : u # t => gather'[u] = gather[u] /\ rounds'[u] = rounds[u],
           ~ Over(t)', state'[t] = "error" => rounds'[t] <= 2,
           \A i \in Indices : gather'[t][i] # << >> => i \in Range(queues[t]),
           \A v \in Worker : v \notin Members(t) => inbox'[v] = inbox[v],
           \A v \in Members(t) : Alive(v) =>
              /\ Len(inbox[v]) <= Len(inbox'[v])
              /\ \A k \in DOMAIN inbox[v] : inbox'[v][k] = inbox[v][k]
              /\ \A k \in DOMAIN inbox'[v] \ DOMAIN inbox[v] : inbox'[v][k].msg # "finished" /\ Letter(v, k)',
           Normal(t)' => rounds'[t] < Last(t) /\ \E v \in Members(t) : Column(v, t)' = << >>,
           Spread(t)' => rounds'[t] = 0 /\ \A i \in Indices : \A k \in DOMAIN gather'[t][i] : SpreadValue(t, i, k)',
           Settled(t)' => \A i \in Indices : \A k \in DOMAIN gather'[t][i] : SettledValue(t, i, k)',
           \A v \in Members(t) : /\ Normal(t)' => NormalWorker(t, v)'
                                 /\ Spread(t)' => SpreadWorker(t, v)'
                                 /\ Settled(t)' => SettledWorker(t, v)',
           AlikeLists(gather'[t]),
           \A v \in Worker : << v, t >> \in raised /\ state'[t] # "error" => Unfinished(v, t)'
    PROVE  Inv'
<1>1. manager = "running"
  BY HeadFacts
<1> USE <1>1
<1>2. /\ t \in Tasks /\ w \in Members(t) /\ Live(t) /\ at[w] = t
      /\ Len(mqueue'[w]) = Len(mqueue[w]) - 1 /\ DOMAIN mqueue'[w] = 1 .. Len(mqueue[w]) - 1
      /\ \A j \in DOMAIN mqueue'[w] : mqueue'[w][j] = mqueue[w][j + 1] /\ j + 1 \in DOMAIN mqueue[w]
      /\ \A v \in Worker : v # w => mqueue'[v] = mqueue[v]
  <2>1. /\ m.task \in Tasks /\ w \in Members(m.task) /\ (m.msg # "crash" => Live(m.task)) /\ m.task = at[w]
        /\ Len(mqueue'[w]) = Len(mqueue[w]) - 1 /\ DOMAIN mqueue'[w] = 1 .. Len(mqueue[w]) - 1
        /\ \A j \in DOMAIN mqueue'[w] : mqueue'[w][j] = mqueue[w][j + 1] /\ j + 1 \in DOMAIN mqueue[w]
        /\ \A v \in Worker : v # w => mqueue'[v] = mqueue[v]
    BY HeadFacts
  <2> QED BY <2>1
<1>3. /\ \A u \in Tasks : u # t => state'[u] = state[u]
      /\ \A u \in Tasks : Begun(u)' = Begun(u) /\ Over(u)' = Over(u) /\ Live(u)' = Live(u)
      /\ \A u \in Tasks : Begun(u) => Whole(u)' = Whole(u)
      /\ \A u \in Tasks : u # t => /\ Normal(u)' = Normal(u) /\ Spread(u)' = Spread(u)
                                   /\ Settled(u)' = Settled(u)
      /\ \A u \in Tasks : state[u] = "error" => state'[u] = "error"
      /\ \A u \in Tasks : state'[u] = "no_source_data" <=> state[u] = "no_source_data"
  BY <1>2, OthersKept
<1>4. Begun(t) /\ ~ Over(t) /\ (\A u : Members(u)' = Members(u))
  BY <1>2 DEF Live, Members
<1>5. Pools' /\ States' /\ Letters'
  <2>1. \A u \in Tasks : state'[u] = state[u] \/ (state'[u] = "error" /\ Live(u))
    BY <1>2, <1>3 DEF Inv, Types, TypeOK
  <2>2. \A u \in Tasks : state'[u] = "error" => rounds'[u] <= 2
    BY <1>3 DEF Inv, States
  <2>3. \A u \in Tasks : ~ Begun(u) => rounds'[u] = rounds[u] /\ gather'[u] = gather[u]
    BY <1>4
  <2>4. \A u \in Tasks : \A i \in Indices : gather'[u][i] # << >> => i \in Range(queues[u])
    BY <1>3 DEF Inv, States
  <2>5. ASSUME NEW v \in Worker, Alive(v)
        PROVE  /\ Len(inbox[v]) <= Len(inbox'[v])
               /\ \A k \in DOMAIN inbox[v] : inbox'[v][k] = inbox[v][k]
               /\ \A k \in DOMAIN inbox'[v] \ DOMAIN inbox[v] : inbox'[v][k].msg # "finished" /\ Letter(v, k)'
    <3>1. CASE v \in Members(t)
      BY <2>5, <3>1
    <3>2. CASE v \notin Members(t)
      <4>1. inbox'[v] = inbox[v] /\ Len(inbox[v]) \in Nat
        BY <3>2, QueueFacts DEF Inv
      <4> QED BY <4>1
    <3> QED BY <3>1, <3>2
  <2> QED BY <1>3, <2>1, <2>2, <2>3, <2>4, <2>5, KeptInv
<1>6. Reports'
  <2>1. ASSUME NEW v \in Worker, NEW j \in DOMAIN mqueue'[v] PROVE Report(v, j)'
    <3>1. PICK n : n = mqueue'[v][j]
      OBVIOUS
    <3>2. ASSUME NEW i \in DOMAIN mqueue[v], n = mqueue[v][i], i = Len(mqueue[v]) => j = Len(mqueue'[v])
          PROVE  Report(v, j)'
      <4>1. Report(v, i) /\ at[v] \in Tasks
        BY DEF Inv, Running, Reports, Types, TypeOK
      <4>2. /\ Exists(v) /\ SentBy(v, n) /\ step[v] # "go"
            /\ n.msg = "crash" => step[v] = "exited" /\ Over(at[v])
            /\ n.msg # "crash" => Live(at[v])
            /\ n.msg = "error" => /\ i = Len(mqueue[v]) /\ step[v] \in {"error_sync", "exited"}
                                  /\ n.value = ErrorValue(v)
        BY <3>2, <4>1 DEF Report
      <4>3. Exists(v)' /\ SentBy(v, n)'
        BY <4>2 DEF Exists, SentBy
      <4>4. (Over(at[v]) => Over(at[v])') /\ (Live(at[v]) => Live(at[v])')
        <5>1. PICK u : u = at[v]
          OBVIOUS
        <5>2. Over(u)' = Over(u) /\ Live(u)' = Live(u)
          BY <1>3, <4>1, <5>1
        <5> QED BY <5>1, <5>2 DEF Over, Live, Begun
      <4>5. n.msg = "error" => j = Len(mqueue'[v]) /\ step'[v] \in {"error_sync", "exited"} /\ n.value = ErrorValue(v)
        BY <3>2, <4>2
      <4>6. /\ n.msg = "crash" => step'[v] = "exited" /\ Over(at[v])'
            /\ n.msg # "crash" => Live(at[v])'
            /\ step'[v] # "go"
        BY <4>2, <4>4
      <4> QED BY <3>1, <4>3, <4>5, <4>6 DEF Report
    <3>3. CASE v = w
      <4>1. n = mqueue[w][j + 1] /\ j + 1 \in DOMAIN mqueue[w]
        BY <1>2, <3>1, <3>3
      <4>2. j + 1 = Len(mqueue[w]) => j = Len(mqueue'[w])
        BY <1>2, <3>3, QueueFacts DEF Inv
      <4> QED BY <3>2, <3>3, <4>1, <4>2
    <3>4. CASE v # w
      BY <1>2, <3>1, <3>2, <3>4
    <3> QED BY <3>3, <3>4
  <2> QED BY <2>1 DEF Reports
<1>7. Protocol'
  <2> SUFFICES ASSUME NEW u \in Tasks
               PROVE  /\ Normal(u)' => rounds'[u] < Last(u)' /\ \E v \in Members(u)' : Column(v, u)' = << >>
                      /\ Spread(u)' => rounds'[u] = 0 /\ \A i \in Indices : \A k \in DOMAIN gather'[u][i] : SpreadValue(u, i, k)'
                      /\ Settled(u)' => \A i \in Indices : \A k \in DOMAIN gather'[u][i] : SettledValue(u, i, k)'
                      /\ \A v \in Members(u)' :
                            /\ ~ Begun(u)' => Idle(u, v)'
                            /\ Normal(u)' => NormalWorker(u, v)'
                            /\ Spread(u)' => SpreadWorker(u, v)'
                            /\ Settled(u)' => SettledWorker(u, v)'
    BY DEF Protocol
  <2>1. CASE u = t
    BY <2>1, <1>3, <1>4 DEF Last
  <2>2. CASE u # t
    <3>1. ASSUME ~ Over(u), NEW v \in Members(u)
          PROVE  /\ v # w /\ v \in Worker /\ inbox'[v] = inbox[v] /\ mqueue'[v] = mqueue[v]
                 /\ Idle(u, v)' = Idle(u, v) /\ NormalWorker(u, v)' = NormalWorker(u, v)
                 /\ SpreadWorker(u, v)' = SpreadWorker(u, v) /\ SettledWorker(u, v)' = SettledWorker(u, v)
                 /\ Column(v, u)' = Column(v, u)
      <4>1. v \notin Members(t) /\ v \in Worker
        BY <2>2, <3>1, <1>2, <1>4, Apart, MemberFacts DEF Inv
      <4>2. inbox'[v] = inbox[v] /\ mqueue'[v] = mqueue[v] /\ v # w
        BY <4>1, <1>2
      <4>3. state'[u] = state[u] /\ gather'[u] = gather[u] /\ rounds'[u] = rounds[u]
        BY <2>2, <1>3
      <4>4. Column(v, u)' = Column(v, u)
        BY <4>3 DEF Column
      <4> QED BY <4>1, <4>2, <4>3, <4>4, FrameWorker
    <3>2. /\ Normal(u)' = Normal(u) /\ Spread(u)' = Spread(u) /\ Settled(u)' = Settled(u) /\ Begun(u)' = Begun(u)
          /\ gather'[u] = gather[u] /\ rounds'[u] = rounds[u] /\ Last(u)' = Last(u) /\ state'[u] = state[u]
      BY <2>2, <1>3 DEF Last
    <3>3. /\ ~ Begun(u) => ~ Over(u)
          /\ Normal(u) \/ Spread(u) \/ Settled(u) => ~ Over(u)
      BY Modes
    <3>4. Protocol
      BY DEF Inv, Running
    <3>5. Normal(u)' => rounds'[u] < Last(u)' /\ \E v \in Members(u)' : Column(v, u)' = << >>
      <4>1. ASSUME Normal(u) PROVE rounds[u] < Last(u) /\ \E v \in Members(u) : Column(v, u)' = << >>
        <5>1. PICK v \in Members(u) : Column(v, u) = << >>
          BY <4>1, <3>4 DEF Protocol
        <5>2. Column(v, u)' = << >>
          BY <5>1, <4>1, <3>1, <3>3
        <5>3. rounds[u] < Last(u)
          BY <4>1, <3>4 DEF Protocol
        <5> QED BY <5>2, <5>3
      <4> QED BY <4>1, <3>2, <1>4
    <3>6. Spread(u)' => rounds'[u] = 0 /\ \A i \in Indices : \A k \in DOMAIN gather'[u][i] : SpreadValue(u, i, k)'
      <4>1. ASSUME Spread(u), NEW i \in Indices, NEW k \in DOMAIN gather[u][i] PROVE SpreadValue(u, i, k)'
        <5>1. SpreadValue(u, i, k)
          BY <4>1, <3>4 DEF Protocol
        <5>2. PICK x : x = gather[u][i][k].from
          OBVIOUS
        <5>3. x \in Members(u) /\ at[x] = u
          BY <5>1, <5>2 DEF SpreadValue
        <5>4. mqueue'[x] = mqueue[x] /\ SlotOf(x, u)' = SlotOf(x, u)
          BY <5>3, <4>1, <3>1, <3>3 DEF SlotOf, Members
        <5>5. PICK n : n = gather[u][i][k]
          OBVIOUS
        <5>6. /\ n = gather'[u][i][k] /\ n.from = x /\ gather'[u][i] = gather[u][i]
              /\ state[u] = "error" /\ n = ErrorValue(x) /\ SlotOf(x, u) = i
              /\ step[x] \in {"error_sync", "exited"} /\ mqueue[x] = << >>
              /\ \A l \in DOMAIN gather[u][i] : gather[u][i][l].from = x => l = k
          BY <5>1, <5>2, <5>5, <3>2 DEF SpreadValue
        <5>7. \A l \in DOMAIN gather'[u][i] : gather'[u][i][l].from = n.from => l = k
          BY <5>6
        <5>8. /\ state'[u] = "error" /\ n = ErrorValue(n.from)
              /\ n.from \in Members(u)' /\ at'[n.from] = u /\ SlotOf(n.from, u)' = i
              /\ step'[n.from] \in {"error_sync", "exited"} /\ mqueue'[n.from] = << >>
          BY <5>3, <5>4, <5>6, <3>2, <1>4
        <5> QED BY <5>6, <5>7, <5>8 DEF SpreadValue
      <4>2. Spread(u) => rounds[u] = 0
        BY <3>4 DEF Protocol
      <4> QED BY <4>1, <4>2, <3>2
    <3>7. Settled(u)' => \A i \in Indices : \A k \in DOMAIN gather'[u][i] : SettledValue(u, i, k)'
      <4>1. ASSUME Settled(u), NEW i \in Indices, NEW k \in DOMAIN gather[u][i] PROVE SettledValue(u, i, k)'
        <5>1. SettledValue(u, i, k)
          BY <4>1, <3>4 DEF Protocol
        <5>2. PICK x : x = gather[u][i][k].from
          OBVIOUS
        <5>3. x \in Members(u)
          BY <5>1, <5>2 DEF SettledValue
        <5>4. mqueue'[x] = mqueue[x] /\ SlotOf(x, u)' = SlotOf(x, u)
          BY <5>3, <4>1, <3>1, <3>3 DEF SlotOf, Members
        <5>5. PICK n : n = gather[u][i][k]
          OBVIOUS
        <5>6. /\ n = gather'[u][i][k] /\ n.from = x /\ n = EndValue(x, u) /\ SlotOf(x, u) = i
              /\ step[x] \in {"after_error", "exited"} /\ mqueue[x] = << >>
          BY <5>1, <5>2, <5>5, <3>2 DEF SettledValue
        <5> QED BY <5>3, <5>4, <5>6, <3>2, <1>4 DEF SettledValue
      <4> QED BY <4>1, <3>2
    <3>8. ASSUME NEW v \in Members(u)
          PROVE  /\ ~ Begun(u)' => Idle(u, v)'
                 /\ Normal(u)' => NormalWorker(u, v)'
                 /\ Spread(u)' => SpreadWorker(u, v)'
                 /\ Settled(u)' => SettledWorker(u, v)'
      <4>1. /\ ~ Begun(u) => Idle(u, v)
            /\ Normal(u) => NormalWorker(u, v)
            /\ Spread(u) => SpreadWorker(u, v)
            /\ Settled(u) => SettledWorker(u, v)
        BY WorkerModes
      <4> QED BY <4>1, <3>1, <3>2, <3>3
    <3> QED BY <3>5, <3>6, <3>7, <3>8, <1>4
  <2> QED BY <2>1, <2>2
<1>8. Alike'
  <2>1. ASSUME NEW u \in Tasks PROVE AlikeLists(gather'[u])
    <3>1. CASE u = t
      BY <3>1
    <3>2. CASE u # t
      BY <3>2 DEF Inv, Alike
    <3> QED BY <3>1, <3>2
  <2> QED BY <2>1 DEF Alike
<1>9. Raisers'
  <2>1. ASSUME NEW v \in Worker, NEW u \in Tasks, << v, u >> \in raised, state'[u] # "error"
        PROVE  /\ Live(u)' /\ Whole(u)' /\ at'[v] = u /\ step'[v] \in {"error_sync", "exited"}
               /\ v \in Members(u)' /\ Unfinished(v, u)'
    <3>1. state[u] # "error"
      BY <1>3, <2>1
    <3>2. /\ Live(u) /\ Whole(u) /\ at[v] = u /\ step[v] \in {"error_sync", "exited"}
          /\ v \in Members(u) /\ Unfinished(v, u)
      BY <2>1, <3>1 DEF Inv, Raisers
    <3>3. Live(u)' /\ Whole(u)'
      BY <3>2, <1>3 DEF Live
    <3>4. Unfinished(v, u)'
      <4>1. CASE u = t
        BY <2>1, <4>1
      <4>2. CASE u # t
        <5>1. v # w /\ mqueue'[v] = mqueue[v] /\ gather'[u] = gather[u]
          BY <3>2, <4>2, <1>2
        <5>2. Column(v, u)' = Column(v, u)
          BY <5>1 DEF Column
        <5> QED BY <5>1, <5>2, <3>2 DEF Unfinished
      <4> QED BY <4>1, <4>2
    <3> QED BY <3>2, <3>3, <3>4, <1>4
  <2> QED BY <2>1 DEF Raisers
<1> QED BY <1>5, <1>6, <1>7, <1>8, <1>9 DEF Inv, Running

LEMMA ManagerTypes ==
    ASSUME Types, UNCHANGED << procs, queues, step, at, index, call, raised >>, manager' \in {"running", "ended"},
           owner' \in [Sources -> Tasks \cup {None}],
           state' \in [Tasks -> {"unstart", "started", "finished", "error", "no_source_data"}],
           gather' \in [Tasks -> [Indices -> Seq(ValueSet)]], rounds' \in [Tasks -> Nat],
           mqueue' \in [Worker -> Seq(Message)], inbox' \in [Worker -> Seq(Answer)]
    PROVE  Types'
<1>1. \A t : Members(t)' = Members(t)
  BY DEF Members
<1>2. TypeOK'
  BY <1>1 DEF Types, TypeOK, ValueSet
<1> QED BY <1>2 DEF Types

\* The collected errors and ends of other workers.
LEMMA OldValues ==
    ASSUME Types, NEW w \in Worker, NEW t \in Tasks, NEW i, NEW k \in DOMAIN gather[t][i], mqueue[w] # << >>,
           gather'[t][i] = gather[t][i], UNCHANGED << queues, step, at, index >>,
           \A v \in Worker : v # w => mqueue'[v] = mqueue[v]
    PROVE  /\ SpreadValue(t, i, k) /\ state'[t] = "error" => SpreadValue(t, i, k)'
           /\ SettledValue(t, i, k) => SettledValue(t, i, k)'
<1>1. PICK n : n = gather[t][i][k]
  OBVIOUS
<1>2. n = gather'[t][i][k] /\ Members(t)' = Members(t) /\ Members(t) \subseteq Worker
  BY <1>1 DEF Members, Types, TypeOK
<1>3. SlotOf(n.from, t)' = SlotOf(n.from, t)
  BY DEF SlotOf, Members
<1>4. ASSUME SpreadValue(t, i, k), state'[t] = "error" PROVE SpreadValue(t, i, k)'
  <2>1. /\ n = ErrorValue(n.from)
        /\ n.from \in Members(t) /\ at[n.from] = t /\ SlotOf(n.from, t) = i
        /\ step[n.from] \in {"error_sync", "exited"} /\ mqueue[n.from] = << >>
        /\ \A l \in DOMAIN gather[t][i] : gather[t][i][l].from = n.from => l = k
    BY <1>1, <1>4 DEF SpreadValue
  <2>2. n.from # w /\ mqueue'[n.from] = << >>
    BY <1>2, <2>1
  <2>3. \A l \in DOMAIN gather'[t][i] : gather'[t][i][l].from = n.from => l = k
    BY <2>1
  <2> QED BY <1>2, <1>3, <1>4, <2>1, <2>2, <2>3 DEF SpreadValue
<1>5. ASSUME SettledValue(t, i, k) PROVE SettledValue(t, i, k)'
  <2>1. /\ n = EndValue(n.from, t) /\ n.from \in Members(t) /\ SlotOf(n.from, t) = i
        /\ step[n.from] \in {"after_error", "exited"} /\ mqueue[n.from] = << >>
    BY <1>1, <1>5 DEF SettledValue
  <2>2. n.from # w /\ mqueue'[n.from] = << >>
    BY <1>2, <2>1
  <2> QED BY <1>2, <1>3, <2>1, <2>2 DEF SettledValue
<1> QED BY <1>4, <1>5

\* What is left to be read of a worker's messages while an error spreads.
LEMMA SpreadAfter ==
    ASSUME Inv, NEW w \in Worker, NEW m, Received(w, m), NEW t \in Tasks, at[w] = t,
           UNCHANGED << step, at >>, state'[t] = "error",
           \A j \in DOMAIN mqueue[w] : mqueue[w][j].msg # "error" => ~ mqueue[w][j].flag,
           Alive(w) => \/ OnlyErrors(w)' /\ step[w] = "error_sync" /\ mqueue[w][Len(mqueue[w])].msg = "error"
                       \/ step[w] \in {"go", "run", "collect", "finished_sync"} /\ Warned(w)'
    PROVE  SpreadWorker(t, w)'
<1>1. /\ Len(mqueue'[w]) = Len(mqueue[w]) - 1 /\ DOMAIN mqueue'[w] = 1 .. Len(mqueue[w]) - 1
      /\ mqueue'[w] = << >> <=> Len(mqueue[w]) = 1
      /\ \A j \in DOMAIN mqueue'[w] : mqueue'[w][j] = mqueue[w][j + 1] /\ j + 1 \in DOMAIN mqueue[w]
      /\ Len(mqueue[w]) \in Nat /\ DOMAIN mqueue[w] = 1 .. Len(mqueue[w])
  BY HeadFacts, QueueFacts DEF Inv
<1>2. SpreadReports(t, w)'
  <2>1. \A j \in DOMAIN mqueue'[w] : mqueue'[w][j].msg # "error" => ~ mqueue'[w][j].flag /\ state'[t] = "error"
    BY <1>1
  <2> QED BY <2>1 DEF SpreadReports
<1>3. ASSUME Alive(w), OnlyErrors(w)', step[w] = "error_sync", mqueue[w][Len(mqueue[w])].msg = "error"
      PROVE  Failed(t, w)'
  <2>1. mqueue'[w] # << >> => mqueue'[w][Len(mqueue'[w])].msg = "error"
    <3>1. ASSUME mqueue'[w] # << >>
          PROVE  Len(mqueue'[w]) \in DOMAIN mqueue'[w] /\ Len(mqueue'[w]) + 1 = Len(mqueue[w])
      <4>1. Len(mqueue[w]) # 1 /\ Len(mqueue[w]) # 0
        <5>1. mqueue[w] # << >>
          BY HeadFacts
        <5>2. Len(mqueue[w]) # 0
          BY <5>1, QueueFacts DEF Inv
        <5> QED BY <1>1, <3>1, <5>2
      <4> QED BY <1>1, <4>1
    <3> QED BY <3>1, <1>1, <1>3
  <2> QED BY <1>3, <2>1 DEF Failed
<1>4. Alive(w)' = Alive(w)
  BY DEF Alive
<1> QED BY <1>2, <1>3, <1>4 DEF SpreadWorker

\* A task that has failed and is not over, and how it stands with its workers.
LEMMA FailedModes ==
    ASSUME Inv, NEW t \in Tasks, Live(t), state[t] = "error"
    PROVE  (Spread(t) /\ rounds[t] = 0) \/ (Settled(t) /\ ~ Spread(t) /\ rounds[t] = 1)
<1>1. rounds[t] \in Nat /\ rounds[t] <= 2 /\ rounds[t] # 2
  BY DEF Live, Over, Inv, Types, States
<1>2. rounds[t] = 0 \/ rounds[t] = 1
  BY <1>1
<1> QED BY <1>2 DEF Spread, Settled, Doomed

LEMMA HandleIgnoredInv ==
    ASSUME Inv, NEW w \in Worker, NEW m, Received(w, m), HandleIgnored(m),
           UNCHANGED << procs, workerVars, raised >>
    PROVE  Inv'
<1>1. /\ m.msg \notin {"error", "crash"} /\ state[m.task] = "error" /\ ~ m.flag
      /\ UNCHANGED << manager, state, queues, gather, owner, rounds, inbox, procs, step, at, index, call, raised >>
  BY DEF HandleIgnored, Ignored, managerVars, workerVars
<1>2. PICK t : t = m.task
  OBVIOUS
<1>3. /\ t \in Tasks /\ w \in Members(t) /\ Live(t) /\ at[w] = t /\ manager = "running" /\ mqueue[w] # << >>
      /\ m = mqueue[w][1] /\ 1 \in DOMAIN mqueue[w] /\ mqueue' \in [Worker -> Seq(Message)]
      /\ \A v \in Worker : v # w => mqueue'[v] = mqueue[v]
      /\ DOMAIN mqueue'[w] = 1 .. Len(mqueue[w]) - 1
      /\ \A j \in DOMAIN mqueue'[w] : mqueue'[w][j] = mqueue[w][j + 1] /\ j + 1 \in DOMAIN mqueue[w]
  BY <1>1, <1>2, HeadFacts
<1>4. Types'
  <2>1. Types
    BY DEF Inv
  <2>2. /\ manager' \in {"running", "ended"} /\ owner' \in [Sources -> Tasks \cup {None}]
        /\ state' \in [Tasks -> {"unstart", "started", "finished", "error", "no_source_data"}]
        /\ gather' \in [Tasks -> [Indices -> Seq(ValueSet)]] /\ rounds' \in [Tasks -> Nat]
        /\ inbox' \in [Worker -> Seq(Answer)]
    BY <1>1, <2>1 DEF Types, TypeOK, ValueSet
  <2> QED BY <1>1, <1>3, <2>1, <2>2, ManagerTypes
<1>5. Over(t)' = Over(t) /\ ~ Over(t) /\ state'[t] = "error" /\ state[t] = "error"
  BY <1>1, <1>2, <1>3 DEF Over, Live
<1>6. ~ Settled(t)
  <2>1. ASSUME Settled(t) PROVE FALSE
    <3>1. SettledWorker(t, w)
      BY <1>3, <2>1, WorkerModes
    <3> QED BY <1>1, <1>3, <3>1 DEF SettledWorker
  <2> QED BY <2>1
<1>7. Spread(t) /\ rounds[t] = 0
  BY <1>3, <1>5, <1>6, FailedModes
<1>8. ~ Normal(t)' /\ ~ Settled(t)' /\ rounds'[t] = 0
  BY <1>1, <1>5, <1>7 DEF Normal, Settled
<1>9. \A i \in Indices : \A k \in DOMAIN gather'[t][i] : SpreadValue(t, i, k)'
  <2>1. ASSUME NEW i \in Indices, NEW k \in DOMAIN gather[t][i] PROVE SpreadValue(t, i, k)'
    <3>1. SpreadValue(t, i, k) /\ Types
      BY <1>3, <1>7 DEF Inv, Running, Protocol
    <3> QED BY <1>1, <1>3, <1>5, <3>1, OldValues
  <2> QED BY <1>1, <2>1
<1>10. ASSUME NEW v \in Members(t) PROVE SpreadWorker(t, v)'
  <2>1. SpreadWorker(t, v) /\ v \in Worker
    BY <1>3, <1>7, <1>10, WorkerModes, MemberFacts DEF Inv
  <2>2. CASE v # w
    <3>1. Column(v, t)' = Column(v, t)
      BY <1>1 DEF Column
    <3> QED BY <1>1, <1>3, <2>1, <2>2, <3>1, FrameWorker
  <2>3. CASE v = w
    <3>1. \A j \in DOMAIN mqueue[w] : mqueue[w][j].msg # "error" => ~ mqueue[w][j].flag
      BY <2>1, <2>3, <1>3 DEF SpreadWorker, SpreadReports
    <3>2. Alive(w) => \/ OnlyErrors(w)' /\ step[w] = "error_sync" /\ mqueue[w][Len(mqueue[w])].msg = "error"
                      \/ step[w] \in {"go", "run", "collect", "finished_sync"} /\ Warned(w)'
      <4>1. Alive(w) => \/ Failed(t, w)
                        \/ step[w] \in {"go", "run", "collect", "finished_sync"} /\ Warned(w)
        BY <2>1, <2>3, <1>3 DEF SpreadWorker
      <4>2. OnlyErrors(w) => OnlyErrors(w)'
        BY <1>1 DEF OnlyErrors
      <4>3. Warned(w) => Warned(w)'
        <5>1. Calm(w) => Calm(w)'
          BY <1>3 DEF Calm
        <5> QED BY <5>1, <1>1 DEF Warned
      <4>4. Failed(t, w) => OnlyErrors(w) /\ step[w] = "error_sync" /\ mqueue[w][Len(mqueue[w])].msg = "error"
        BY <1>3 DEF Failed
      <4> HIDE DEF Failed
      <4> QED BY <4>1, <4>2, <4>3, <4>4
    <3> QED BY <1>1, <1>3, <1>5, <2>3, <3>1, <3>2, SpreadAfter
  <2> QED BY <2>2, <2>3
<1>11. ASSUME NEW v \in Members(t), Alive(v)
       PROVE  /\ Len(inbox[v]) <= Len(inbox'[v])
              /\ \A k \in DOMAIN inbox[v] : inbox'[v][k] = inbox[v][k]
              /\ \A k \in DOMAIN inbox'[v] \ DOMAIN inbox[v] : inbox'[v][k].msg # "finished" /\ Letter(v, k)'
  <2>1. v \in Worker
    BY <1>3, MemberFacts DEF Inv
  <2>2. Len(inbox[v]) \in Nat
    BY <2>1, QueueFacts DEF Inv
  <2> QED BY <1>1, <2>2
<1>12. AlikeLists(gather'[t])
  BY <1>1, <1>3 DEF Inv, Alike
<1>13. \A i \in Indices : gather'[t][i] # << >> => i \in Range(queues[t])
  BY <1>1, <1>3 DEF Inv, States
<1>14. /\ \A u \in Tasks : u # t => gather'[u] = gather[u] /\ rounds'[u] = rounds[u]
       /\ \A v \in Worker : v \notin Members(t) => inbox'[v] = inbox[v]
       /\ rounds'[t] <= 2
  BY <1>1, <1>8
<1> QED BY <1>1, <1>2, <1>4, <1>5, <1>8, <1>9, <1>10, <1>11, <1>12, <1>13, <1>14, HandleStepInv

LEMMA PlainTypes ==
    /\ \A msg \in {"go", "gather", "all_gather", "finished", "error", "error_gather"} :
          Plain(msg) \in Answer /\ Plain(msg).msg = msg
    /\ << >> \in Seq(Answer) /\ Len(<< >>) = 0
    /\ \A x \in Answer : << x >> \in Seq(Answer) /\ Len(<< x >>) = 1 /\ << x >>[1] = x
<1>1. << >> \in ListSet
  <2>1. << >> \in [{} -> ValueSet] /\ {} \in SUBSET Indices
    OBVIOUS
  <2> QED BY <2>1 DEF ListSet
<1>2. \A msg \in {"go", "gather", "all_gather", "finished", "error", "error_gather"} :
          Plain(msg) \in Answer /\ Plain(msg).msg = msg
  BY <1>1 DEF Plain, ToWorker, Answer
<1>3. \A x \in Answer : << x >> \in Seq(Answer) /\ Len(<< x >>) = 1 /\ << x >>[1] = x
  OBVIOUS
<1> QED BY <1>2, <1>3, EmptySeq

\* What is written behind what a worker has not yet read.
LEMMA WrittenFacts ==
    ASSUME Types, NEW v \in Worker, NEW msgs \in Seq(Answer), NEW q, q = inbox[v] \o msgs
    PROVE  /\ q \in Seq(Answer) /\ Len(q) = Len(inbox[v]) + Len(msgs) /\ Len(msgs) \in Nat
           /\ Len(inbox[v]) <= Len(q) /\ DOMAIN q = 1 .. Len(inbox[v]) + Len(msgs)
           /\ \A k \in DOMAIN inbox[v] : q[k] = inbox[v][k]
           /\ \A k \in DOMAIN q \ DOMAIN inbox[v] :
                 /\ k - Len(inbox[v]) \in DOMAIN msgs /\ q[k] = msgs[k - Len(inbox[v])]
                 /\ k \in Nat /\ k > Len(inbox[v])
<1>1. /\ inbox[v] \in Seq(Answer) /\ Len(inbox[v]) \in Nat /\ DOMAIN inbox[v] = 1 .. Len(inbox[v])
      /\ Len(msgs) \in Nat /\ DOMAIN msgs = 1 .. Len(msgs)
  BY LenProperties DEF Types
<1>2. /\ q \in Seq(Answer) /\ Len(q) = Len(inbox[v]) + Len(msgs)
      /\ \A i \in 1 .. Len(inbox[v]) + Len(msgs) :
            q[i] = IF i <= Len(inbox[v]) THEN inbox[v][i] ELSE msgs[i - Len(inbox[v])]
  BY <1>1, ConcatProperties
<1>3. DOMAIN q = 1 .. Len(inbox[v]) + Len(msgs)
  BY <1>2, LenProperties
<1> QED BY <1>1, <1>2, <1>3

\* The manager writes msgs behind what v has not yet read.
Written(v, msgs) == msgs \in Seq(Answer) /\ inbox'[v] = inbox[v] \o msgs

LEMMA WrittenQueue ==
    ASSUME Types, NEW v \in Worker, NEW msgs, Written(v, msgs)
    PROVE  /\ inbox'[v] \in Seq(Answer) /\ Len(inbox'[v]) = Len(inbox[v]) + Len(msgs) /\ Len(msgs) \in Nat
           /\ Len(inbox[v]) <= Len(inbox'[v]) /\ DOMAIN inbox'[v] = 1 .. Len(inbox[v]) + Len(msgs)
           /\ \A k \in DOMAIN inbox[v] : inbox'[v][k] = inbox[v][k]
           /\ \A k \in DOMAIN inbox'[v] \ DOMAIN inbox[v] :
                 /\ k - Len(inbox[v]) \in DOMAIN msgs /\ inbox'[v][k] = msgs[k - Len(inbox[v])]
                 /\ k \in Nat /\ k > Len(inbox[v])
<1>1. PICK q : q = inbox'[v]
  OBVIOUS
<1>2. q = inbox[v] \o msgs /\ msgs \in Seq(Answer)
  BY <1>1 DEF Written
<1>3. q \in Seq(Answer) /\ Len(q) = Len(inbox[v]) + Len(msgs) /\ Len(msgs) \in Nat
  BY <1>2, WrittenFacts
<1>4. Len(inbox[v]) <= Len(q) /\ DOMAIN q = 1 .. Len(inbox[v]) + Len(msgs)
  BY <1>2, WrittenFacts
<1>5. \A k \in DOMAIN inbox[v] : q[k] = inbox[v][k]
  BY <1>2, WrittenFacts
<1>6. \A k \in DOMAIN q \ DOMAIN inbox[v] : k \in Nat /\ k > Len(inbox[v])
  BY <1>2, WrittenFacts
<1>7. \A k \in DOMAIN q \ DOMAIN inbox[v] : k - Len(inbox[v]) \in DOMAIN msgs /\ q[k] = msgs[k - Len(inbox[v])]
  BY <1>2, WrittenFacts
<1> QED BY <1>1, <1>3, <1>4, <1>5, <1>6, <1>7

LEMMA ErrorLetter ==
    ASSUME NEW v, NEW k, inbox'[v][k].msg = "error"
    PROVE  Letter(v, k)'
BY DEF Letter

\* The manager has gone, with errors as the last that the workers are told.
LEMMA EndedInv ==
    ASSUME Inv, NEW w \in Worker, NEW m, Received(w, m), NEW t, t = m.task, manager' = "ended",
           UNCHANGED << procs, queues, owner, gather, rounds, step, at, index, call, raised >>,
           state' = state \/ (Live(t) /\ ~ Over(t)' /\ state' = [state EXCEPT ![t] = "error"]),
           state'[t] = "error" => rounds[t] <= 2,
           \A v \in Worker : \E msgs : Written(v, msgs) /\ \A k \in DOMAIN msgs : msgs[k].msg = "error",
           inbox' \in [Worker -> Seq(Answer)]
    PROVE  Inv'
<1>1. /\ t \in Tasks /\ Types /\ mqueue' \in [Worker -> Seq(Message)]
  BY HeadFacts DEF Inv
<1>2. Types'
  <2>1. /\ owner' \in [Sources -> Tasks \cup {None}]
        /\ state' \in [Tasks -> {"unstart", "started", "finished", "error", "no_source_data"}]
        /\ gather' \in [Tasks -> [Indices -> Seq(ValueSet)]] /\ rounds' \in [Tasks -> Nat]
    BY <1>1 DEF Types, TypeOK, ValueSet
  <2> QED BY <1>1, <2>1, ManagerTypes
<1>3. /\ \A u \in Tasks : Begun(u)' = Begun(u) /\ Over(u)' = Over(u) /\ Live(u)' = Live(u)
      /\ \A u \in Tasks : Begun(u) => Whole(u)' = Whole(u)
      /\ \A u \in Tasks : state'[u] = state[u] \/ (state'[u] = "error" /\ Live(u))
      /\ \A u \in Tasks : state[u] = "error" => state'[u] = "error"
  <2>1. CASE state' = state
    BY <2>1 DEF Begun, Over, Live, Whole
  <2>2. CASE state' # state
    <3>1. Live(t) /\ ~ Over(t)' /\ state' = [state EXCEPT ![t] = "error"]
      BY <2>2
    <3>2. /\ \A u \in Tasks : Begun(u)' = Begun(u) /\ Over(u)' = Over(u) /\ Live(u)' = Live(u)
          /\ \A u \in Tasks : Begun(u) => Whole(u)' = Whole(u)
          /\ \A u \in Tasks : state[u] = "error" => state'[u] = "error"
      BY <1>1, <3>1, OthersKept
    <3>3. \A u \in Tasks : state'[u] = state[u] \/ (state'[u] = "error" /\ Live(u))
      BY <1>1, <3>1 DEF Types, TypeOK
    <3> QED BY <3>2, <3>3
  <2> QED BY <2>1, <2>2
<1>4. \A v \in Worker : Alive(v) =>
              /\ Len(inbox[v]) <= Len(inbox'[v])
              /\ \A k \in DOMAIN inbox[v] : inbox'[v][k] = inbox[v][k]
              /\ \A k \in DOMAIN inbox'[v] \ DOMAIN inbox[v] : inbox'[v][k].msg # "finished" /\ Letter(v, k)'
  <2> SUFFICES ASSUME NEW v \in Worker
               PROVE  /\ Len(inbox[v]) <= Len(inbox'[v])
                      /\ \A k \in DOMAIN inbox[v] : inbox'[v][k] = inbox[v][k]
                      /\ \A k \in DOMAIN inbox'[v] \ DOMAIN inbox[v] : inbox'[v][k].msg # "finished" /\ Letter(v, k)'
    OBVIOUS
  <2>1. PICK msgs : Written(v, msgs) /\ \A k \in DOMAIN msgs : msgs[k].msg = "error"
    OBVIOUS
  <2>2. /\ Len(inbox[v]) <= Len(inbox'[v])
        /\ \A k \in DOMAIN inbox[v] : inbox'[v][k] = inbox[v][k]
        /\ \A k \in DOMAIN inbox'[v] \ DOMAIN inbox[v] :
              k - Len(inbox[v]) \in DOMAIN msgs /\ inbox'[v][k] = msgs[k - Len(inbox[v])]
    BY <1>1, <2>1, WrittenQueue
  <2>3. \A k \in DOMAIN inbox'[v] \ DOMAIN inbox[v] : inbox'[v][k].msg = "error"
    BY <2>1, <2>2
  <2> QED BY <2>2, <2>3, ErrorLetter
<1>5. Pools' /\ States' /\ Letters'
  <2>1. \A u \in Tasks : state'[u] = "error" => rounds'[u] <= 2
    <3>1. \A u \in Tasks : state[u] = "error" => rounds[u] <= 2
      BY DEF Inv, States
    <3> QED BY <3>1, <1>1 DEF Types, TypeOK
  <2>2. \A u \in Tasks : \A i \in Indices : gather'[u][i] # << >> => i \in Range(queues[u])
    BY DEF Inv, States
  <2> QED BY <1>2, <1>3, <1>4, <2>1, <2>2, KeptInv
<1>6. Alike'
  BY DEF Alike, Inv
<1>7. Raisers'
  <2>1. ASSUME NEW v \in Worker, NEW u \in Tasks, << v, u >> \in raised, state'[u] # "error"
        PROVE  /\ Live(u)' /\ Whole(u)' /\ at'[v] = u /\ step'[v] \in {"error_sync", "exited"}
               /\ v \in Members(u)' /\ Unfinished(v, u)'
    <3>1. state[u] # "error"
      BY <1>3, <2>1
    <3>2. /\ Live(u) /\ Whole(u) /\ at[v] = u /\ step[v] \in {"error_sync", "exited"} /\ v \in Members(u)
      BY <2>1, <3>1 DEF Inv, Raisers
    <3>3. Live(u)' /\ Whole(u)'
      BY <3>2, <1>3 DEF Live
    <3> QED BY <3>2, <3>3 DEF Unfinished, Members
  <2> QED BY <2>1 DEF Raisers
<1>8. Running'
  BY DEF Running
<1> QED BY <1>2, <1>5, <1>6, <1>7, <1>8 DEF Inv

LEMMA WrittenNothing ==
    ASSUME Types, NEW v \in Worker, inbox'[v] = inbox[v]
    PROVE  Written(v, << >>)
BY ConcatEmptySeq, PlainTypes DEF Written, Types

LEMMA ToTaskFacts ==
    ASSUME Types, NEW t \in Tasks, NEW msgs \in Seq(Answer), inbox' = ToTask(t, msgs)
    PROVE  /\ \A v \in Worker : v \in Members(t) => Written(v, msgs)
           /\ \A v \in Worker : v \notin Members(t) => inbox'[v] = inbox[v]
           /\ inbox' \in [Worker -> Seq(Answer)]
<1>1. ASSUME NEW v \in Worker, v \in Members(t) PROVE Written(v, msgs)
  BY <1>1 DEF Written, ToTask
<1>2. ASSUME NEW v \in Worker, v \notin Members(t) PROVE inbox'[v] = inbox[v]
  BY <1>2 DEF ToTask
<1>3. ASSUME NEW v \in Worker PROVE inbox'[v] \in Seq(Answer)
  <2>1. CASE v \in Members(t)
    BY <1>1, <2>1, WrittenQueue
  <2>2. CASE v \notin Members(t)
    BY <1>2, <2>2 DEF Types
  <2> QED BY <2>1, <2>2
<1>4. inbox' = [v \in Worker |-> inbox'[v]]
  BY DEF ToTask
<1> QED BY <1>1, <1>2, <1>3, <1>4

LEMMA ToldFacts ==
    ASSUME NEW m
    PROVE  Told(m) \in Seq(Answer) /\ \A k \in DOMAIN Told(m) : Told(m)[k].msg = "error"
<1>1. CASE m.flag
  <2>1. Plain("error") \in Answer /\ Plain("error").msg = "error"
    BY PlainTypes
  <2>2. << Plain("error") >> \in Seq(Answer) /\ \A k \in DOMAIN << Plain("error") >> : k = 1
    BY <2>1, PlainTypes
  <2> QED BY <1>1, <2>1, <2>2 DEF Told
<1>2. CASE ~ m.flag
  <2>1. Told(m) = << >>
    BY <1>2 DEF Told
  <2>2. \A k \in DOMAIN << >> : FALSE
    OBVIOUS
  <2> QED BY <2>1, <2>2, PlainTypes
<1> QED BY <1>1, <1>2

LEMMA HandleCrashInv ==
    ASSUME Inv, NEW w \in Worker, NEW m, Received(w, m), HandleCrash(m),
           UNCHANGED << procs, workerVars, raised >>
    PROVE  Inv'
<1> DEFINE n(v) == Cardinality({ t \in Tasks : v \in Members(t) })
           msgs(v) == [i \in 1 .. n(v) |-> Plain("error")]
<1>1. /\ manager' = "ended" /\ inbox' = [v \in Worker |-> inbox[v] \o msgs(v)]
      /\ UNCHANGED << procs, queues, owner, state, gather, rounds, step, at, index, call, raised >>
  BY DEF HandleCrash, workerVars
<1>2. ASSUME NEW v \in Worker PROVE Written(v, msgs(v)) /\ \A k \in DOMAIN msgs(v) : msgs(v)[k].msg = "error"
  <2>1. n(v) \in Nat
    <3>1. IsFiniteSet({ t \in Tasks : v \in Members(t) })
      BY TasksFinite, FS_Subset
    <3> QED BY <3>1, FS_CardinalityType
  <2>2. msgs(v) \in [1 .. n(v) -> Answer] /\ \A k \in DOMAIN msgs(v) : msgs(v)[k].msg = "error"
    BY PlainTypes
  <2>3. msgs(v) \in Seq(Answer)
    BY <2>1, <2>2, SeqDef
  <2> QED BY <1>1, <2>2, <2>3 DEF Written
<1>3. inbox' \in [Worker -> Seq(Answer)]
  <2>1. \A v \in Worker : inbox'[v] \in Seq(Answer)
    BY <1>2, WrittenQueue DEF Inv
  <2> QED BY <1>1, <2>1
<1>4. PICK t : t = m.task
  OBVIOUS
<1>5. state'[t] = "error" => rounds[t] <= 2
  <2>1. t \in Tasks
    BY <1>4, HeadFacts
  <2> QED BY <1>1, <2>1 DEF Inv, States
<1>6. \A v \in Worker : \E q : Written(v, q) /\ \A k \in DOMAIN q : q[k].msg = "error"
  BY <1>2
<1> QED BY <1>1, <1>3, <1>4, <1>5, <1>6, EndedInv

\* Where the value of a worker goes that goes by the index it was given here.
LEMMA SlotFacts ==
    ASSUME Types, NEW t \in Tasks, NEW w \in Members(t)
    PROVE  /\ \A m : m.task = t /\ m.index = queues[t][w] => Slot(m) = queues[t][w]
           /\ index[w] = queues[t][w] => SlotOf(w, t) = queues[t][w]
           /\ \A m : m.task = t /\ m.index = index[w] => Slot(m) = SlotOf(w, t)
<1>1. Cardinality(Members(t)) = 1 => queues[t][w] = 1
  BY DEF Types, TypeOK
<1> QED BY <1>1 DEF Slot, SlotOf

LEMMA HandleOutOfRangeInv ==
    ASSUME Inv, NEW w \in Worker, NEW m, Received(w, m), m.msg # "crash", HandleOutOfRange(m),
           UNCHANGED << procs, workerVars, raised >>
    PROVE  Inv'
<1>1. PICK t : t = m.task
  OBVIOUS
<1>2. /\ Slot(m) \notin Range(queues[t]) /\ manager' = "ended"
      /\ inbox' = IF m.msg = "error" THEN ToTask(t, Told(m)) ELSE inbox
      /\ state' = IF m.msg = "error" THEN [state EXCEPT ![t] = "error"] ELSE state
      /\ UNCHANGED << procs, queues, owner, gather, rounds, step, at, index, call, raised >>
  BY <1>1 DEF HandleOutOfRange, workerVars
<1>3. /\ t \in Tasks /\ w \in Members(t) /\ Live(t) /\ at[w] = t /\ manager = "running"
      /\ m = mqueue[w][1] /\ 1 \in DOMAIN mqueue[w] /\ Types
  BY <1>1, HeadFacts DEF Inv
<1>4. ~ Normal(t)
  <2>1. ASSUME Normal(t) PROVE FALSE
    <3>1. m.index = queues[t][w]
      BY <1>3, <2>1, WorkerModes DEF NormalWorker, NormalReports
    <3>2. Slot(m) = queues[t][w]
      BY <1>1, <1>3, <3>1, SlotFacts
    <3> QED BY <1>2, <1>3, <3>2, MemberFacts DEF Inv
  <2> QED BY <2>1
<1>5. rounds[t] # 2 /\ rounds[t] <= 2
  <2>1. CASE state[t] = "error"
    BY <1>3, <2>1 DEF Live, Over, Inv, States
  <2>2. CASE state[t] # "error"
    <3>1. Spread(t)
      BY <1>3, <1>4, <2>2 DEF Normal, Spread
    <3>2. rounds[t] = 0
      BY <1>3, <3>1 DEF Inv, Running, Protocol
    <3> QED BY <3>2
  <2> QED BY <2>1, <2>2
<1>6. state' = state \/ (Live(t) /\ ~ Over(t)' /\ state' = [state EXCEPT ![t] = "error"])
  <2>1. CASE m.msg = "error"
    <3>1. state'[t] = "error" /\ rounds'[t] # 2
      BY <1>2, <1>3, <1>5, <2>1 DEF Types, TypeOK
    <3> QED BY <1>2, <1>3, <2>1, <3>1 DEF Over
  <2> QED BY <1>2, <2>1
<1>7. (\A v \in Worker : \E q : Written(v, q) /\ \A k \in DOMAIN q : q[k].msg = "error")
      /\ inbox' \in [Worker -> Seq(Answer)]
  <2>1. \A k \in DOMAIN << >> : << >>[k].msg = "error"
    OBVIOUS
  <2>2. CASE m.msg = "error"
    <3>1. inbox' = ToTask(t, Told(m)) /\ Told(m) \in Seq(Answer) /\ \A k \in DOMAIN Told(m) : Told(m)[k].msg = "error"
      BY <1>2, <2>2, ToldFacts
    <3>2. /\ \A v \in Worker : v \in Members(t) => Written(v, Told(m))
          /\ \A v \in Worker : v \notin Members(t) => Written(v, << >>)
          /\ inbox' \in [Worker -> Seq(Answer)]
      BY <1>3, <3>1, ToTaskFacts, WrittenNothing
    <3> QED BY <2>1, <3>1, <3>2
  <2>3. CASE m.msg # "error"
    <3>1. inbox' = inbox
      BY <1>2, <2>3
    <3>2. \A v \in Worker : Written(v, << >>)
      BY <1>3, <3>1, WrittenNothing
    <3> QED BY <2>1, <3>1, <3>2, <1>3 DEF Types
  <2> QED BY <2>2, <2>3
<1> QED BY <1>1, <1>2, <1>5, <1>6, <1>7, EndedInv

-----------------------------------------------------------------------------
(* The lists of values. *)

LEMMA FillFacts ==
    ASSUME NEW base \in [Indices -> Seq(ValueSet)], NEW m, Slot(m) \in Indices, m.value \in ValueSet,
           NEW lists, lists = Fill(base, m)
    PROVE  /\ lists \in [Indices -> Seq(ValueSet)]
           /\ \A i \in Indices : i # Slot(m) => lists[i] = base[i]
           /\ Len(base[Slot(m)]) \in Nat /\ Len(lists[Slot(m)]) = Len(base[Slot(m)]) + 1
           /\ DOMAIN lists[Slot(m)] = 1 .. Len(base[Slot(m)]) + 1 /\ DOMAIN base[Slot(m)] = 1 .. Len(base[Slot(m)])
           /\ \A k \in DOMAIN base[Slot(m)] : lists[Slot(m)][k] = base[Slot(m)][k]
           /\ lists[Slot(m)][Len(base[Slot(m)]) + 1] = m.value
           /\ lists[Slot(m)] # << >>
<1>1. PICK i : i = Slot(m)
  OBVIOUS
<1>2. PICK col \in Seq(ValueSet) : col = base[i]
  BY <1>1
<1>3. lists = [base EXCEPT ![i] = Append(@, m.value)]
  BY <1>1 DEF Fill
<1>4. /\ Append(col, m.value) \in Seq(ValueSet) /\ Append(col, m.value) # << >>
      /\ Len(Append(col, m.value)) = Len(col) + 1 /\ Len(col) \in Nat
      /\ \A k \in 1 .. Len(col) : Append(col, m.value)[k] = col[k]
      /\ Append(col, m.value)[Len(col) + 1] = m.value
  BY AppendProperties, LenProperties
<1>5. lists[i] = Append(col, m.value) /\ \A j \in Indices : j # i => lists[j] = base[j]
  BY <1>1, <1>2, <1>3
<1>6. DOMAIN col = 1 .. Len(col) /\ DOMAIN lists[i] = 1 .. Len(col) + 1
  BY <1>4, <1>5, LenProperties
<1>7. lists \in [Indices -> Seq(ValueSet)]
  BY <1>1, <1>2, <1>3, <1>4
<1> QED BY <1>1, <1>2, <1>4, <1>5, <1>6, <1>7

LEMMA RestFacts ==
    ASSUME NEW lists \in [Indices -> Seq(ValueSet)]
    PROVE  /\ Rest(lists) \in [Indices -> Seq(ValueSet)]
           /\ \A i \in Indices : lists[i] = << >> => Rest(lists)[i] = << >>
           /\ \A i \in Indices : lists[i] # << >> =>
                 /\ Len(lists[i]) \in Nat /\ Len(lists[i]) >= 1 /\ DOMAIN lists[i] = 1 .. Len(lists[i])
                 /\ Len(Rest(lists)[i]) = Len(lists[i]) - 1 /\ DOMAIN Rest(lists)[i] = 1 .. Len(lists[i]) - 1
                 /\ Head(lists[i]) = lists[i][1] /\ lists[i][1] \in ValueSet
                 /\ \A k \in DOMAIN Rest(lists)[i] : Rest(lists)[i][k] = lists[i][k + 1] /\ k + 1 \in DOMAIN lists[i]
                 /\ Rest(lists)[i] = << >> <=> Len(lists[i]) = 1
<1>1. ASSUME NEW i \in Indices, lists[i] # << >>
      PROVE  /\ Len(lists[i]) \in Nat /\ Len(lists[i]) >= 1 /\ DOMAIN lists[i] = 1 .. Len(lists[i])
             /\ Len(Rest(lists)[i]) = Len(lists[i]) - 1 /\ DOMAIN Rest(lists)[i] = 1 .. Len(lists[i]) - 1
             /\ Head(lists[i]) = lists[i][1] /\ lists[i][1] \in ValueSet
             /\ \A k \in DOMAIN Rest(lists)[i] : Rest(lists)[i][k] = lists[i][k + 1] /\ k + 1 \in DOMAIN lists[i]
             /\ Rest(lists)[i] = << >> <=> Len(lists[i]) = 1
             /\ Rest(lists)[i] \in Seq(ValueSet)
  <2>1. PICK col \in Seq(ValueSet) : col = lists[i] /\ col # << >>
    BY <1>1
  <2>2. PICK tl : tl = Tail(col)
    OBVIOUS
  <2>3. Rest(lists)[i] = tl
    BY <1>1, <2>1, <2>2 DEF Rest
  <2>4. /\ tl \in Seq(ValueSet) /\ Len(tl) = Len(col) - 1 /\ Head(col) = col[1]
        /\ \A k \in 1 .. Len(tl) : tl[k] = col[k + 1]
    BY <2>1, <2>2, HeadTailProperties
  <2>5. Len(col) \in Nat /\ DOMAIN col = 1 .. Len(col) /\ DOMAIN tl = 1 .. Len(tl) /\ Len(col) # 0
    BY <2>1, <2>4, LenProperties, EmptySeq
  <2>6. col[1] \in ValueSet
    BY <2>1, <2>5, ElementOfSeq
  <2>7. tl = << >> <=> Len(tl) = 0
    BY <2>4, EmptySeq
  <2>8. DOMAIN tl = 1 .. Len(col) - 1 /\ Len(col) >= 1 /\ (tl = << >> <=> Len(col) = 1)
    BY <2>4, <2>5, <2>7
  <2>9. \A k \in DOMAIN tl : tl[k] = col[k + 1] /\ k + 1 \in DOMAIN col
    BY <2>4, <2>5
  <2> QED BY <2>1, <2>3, <2>4, <2>5, <2>6, <2>8, <2>9
<1>2. \A i \in Indices : lists[i] = << >> => Rest(lists)[i] = << >>
  BY DEF Rest
<1>3. Rest(lists) \in [Indices -> Seq(ValueSet)]
  <2>1. \A i \in Indices : Rest(lists)[i] \in Seq(ValueSet)
    BY <1>1, <1>2
  <2> QED BY <2>1 DEF Rest
<1> QED BY <1>1, <1>2, <1>3

\* The list that is taken: one value of every place.
LEMMA FirstFacts ==
    ASSUME NEW lists \in [Indices -> Seq(ValueSet)], NEW t \in Tasks, Types, Full(t, lists)
    PROVE  /\ FirstOf(t, lists) \in ListSet /\ DOMAIN FirstOf(t, lists) = Range(queues[t])
           /\ \A i \in Range(queues[t]) : FirstOf(t, lists)[i] = lists[i][1] /\ i \in Indices /\ lists[i] # << >>
<1>1. Range(queues[t]) \subseteq Indices
  <2>1. \A v \in Members(t) : queues[t][v] \in Indices
    BY ColumnFacts
  <2> QED BY <2>1 DEF Range, Members
<1>2. { j \in Range(queues[t]) : lists[j] # << >> } = Range(queues[t])
  BY DEF Full
<1>3. FirstOf(t, lists) = [i \in Range(queues[t]) |-> Head(lists[i])]
  BY <1>2 DEF FirstOf
<1>4. \A i \in Range(queues[t]) : lists[i] # << >> /\ Head(lists[i]) = lists[i][1] /\ lists[i][1] \in ValueSet
  BY <1>1, RestFacts DEF Full
<1>5. FirstOf(t, lists) \in [Range(queues[t]) -> ValueSet]
  BY <1>3, <1>4
<1> QED BY <1>1, <1>3, <1>4, <1>5 DEF ListSet

\* Columns that hold the events of a task from one call on are alike.
EventLists(t, g, r) ==
    \A i \in Indices : g[i] # << >> => \E v : \A k \in DOMAIN g[i] : g[i][k] = Event(v, t, r + k)

LEMMA EventsAlike ==
    ASSUME NEW t, NEW g, NEW r, EventLists(t, g, r)
    PROVE  AlikeLists(g)
<1> SUFFICES ASSUME NEW i \in Indices, NEW j \in Indices, NEW k \in DOMAIN g[i] \cap DOMAIN g[j]
             PROVE  g[i][k].kind = g[j][k].kind /\ g[i][k].n = g[j][k].n
  BY DEF AlikeLists
<1> USE DEF EventLists
<1>1. g[i] # << >> /\ g[j] # << >>
  OBVIOUS
<1>2. PICK v : g[i][k] = Event(v, t, r + k)
  BY <1>1
<1>3. PICK x : g[j][k] = Event(x, t, r + k)
  BY <1>1
<1> QED BY <1>2, <1>3 DEF Event, CallValue, EndValue, Value

\* A message that is not about an error, and is not dropped, is for a task
\* without error, or ends one whose error all its workers know of.
LEMMA PlainModes ==
    ASSUME Inv, NEW w \in Worker, NEW m, Received(w, m), m.msg \notin {"error", "crash"}, ~ Ignored(m)
    PROVE  Normal(m.task) \/ (Settled(m.task) /\ m.msg = "finished")
<1>1. PICK t : t = m.task
  OBVIOUS
<1>2. /\ t \in Tasks /\ w \in Members(t) /\ Live(t) /\ at[w] = t /\ manager = "running"
      /\ m = mqueue[w][1] /\ 1 \in DOMAIN mqueue[w]
  BY <1>1, HeadFacts
<1>3. ~ Spread(t)
  <2>1. ASSUME Spread(t) PROVE FALSE
    <3>1. ~ m.flag /\ state[t] = "error"
      BY <1>2, <2>1, WorkerModes DEF SpreadWorker, SpreadReports
    <3> QED BY <1>1, <3>1 DEF Ignored
  <2> QED BY <2>1
<1>4. Settled(t) => m.msg = "finished"
  BY <1>2, WorkerModes DEF SettledWorker
<1>5. Normal(t) \/ Settled(t)
  <2>1. CASE state[t] = "error"
    BY <1>2, <1>3, <2>1, FailedModes
  <2>2. CASE state[t] # "error"
    BY <1>2, <1>3, <2>2 DEF Normal, Spread
  <2> QED BY <2>1, <2>2
<1> QED BY <1>1, <1>4, <1>5

\* What a worker of a task without error sends is the next of its events.
Grown(w, t, m, lists) ==
    LET i == queues[t][w]
    IN  /\ Slot(m) = i /\ i \in Indices /\ i \in Range(queues[t])
        /\ Heard(t, w) + 1 <= Last(t) /\ m.value = Event(w, t, Heard(t, w) + 1)
        /\ m.msg = EventMsg(t, Heard(t, w) + 1)
        /\ lists \in [Indices -> Seq(ValueSet)]
        /\ \A j \in Indices : j # i => lists[j] = gather[t][j]
        /\ Len(lists[i]) = Len(Column(w, t)) + 1 /\ lists[i] # << >>
        /\ DOMAIN lists[i] = 1 .. Len(Column(w, t)) + 1
        /\ \A k \in DOMAIN lists[i] : lists[i][k] = Event(w, t, rounds[t] + k)

LEMMA NormalHead ==
    ASSUME Inv, NEW w \in Worker, NEW m, Received(w, m), NEW t, t = m.task, m.msg \notin {"error", "crash"}, Normal(t),
           NEW lists, lists = Fill(gather[t], m)
    PROVE  Grown(w, t, m, lists)
<1>1. /\ t \in Tasks /\ w \in Members(t) /\ at[w] = t /\ manager = "running" /\ Types
      /\ m = mqueue[w][1] /\ 1 \in DOMAIN mqueue[w] /\ m.value \in ValueSet
  BY HeadFacts DEF Inv
<1>2. NormalWorker(t, w)
  BY <1>1, WorkerModes
<1>3. /\ Heard(t, w) + 1 <= Last(t) /\ m.index = queues[t][w] /\ m.value = Event(w, t, Heard(t, w) + 1)
      /\ m.msg = EventMsg(t, Heard(t, w) + 1)
  BY <1>1, <1>2 DEF NormalWorker, NormalReports
<1>4. Slot(m) = queues[t][w] /\ queues[t][w] \in Indices /\ gather[t] \in [Indices -> Seq(ValueSet)]
  <2>1. Slot(m) = queues[t][w]
    BY <1>1, <1>3, SlotFacts
  <2>2. queues[t][w] \in Indices
    BY <1>1, ColumnFacts
  <2>3. gather[t] \in [Indices -> Seq(ValueSet)]
    BY <1>1 DEF Types, TypeOK, ValueSet
  <2> QED BY <2>1, <2>2, <2>3
<1>5. PICK i : i = queues[t][w] /\ i = Slot(m)
  BY <1>4
<1>6. /\ lists \in [Indices -> Seq(ValueSet)]
      /\ \A j \in Indices : j # i => lists[j] = gather[t][j]
      /\ Len(lists[i]) = Len(gather[t][i]) + 1 /\ DOMAIN lists[i] = 1 .. Len(gather[t][i]) + 1
      /\ DOMAIN gather[t][i] = 1 .. Len(gather[t][i]) /\ Len(gather[t][i]) \in Nat
      /\ \A k \in DOMAIN gather[t][i] : lists[i][k] = gather[t][i][k]
      /\ lists[i][Len(gather[t][i]) + 1] = m.value /\ lists[i] # << >>
  <2>1. PICK base \in [Indices -> Seq(ValueSet)] : base = gather[t]
    BY <1>4
  <2>2. Slot(m) \in Indices /\ m.value \in ValueSet /\ lists = Fill(base, m)
    BY <1>1, <1>4, <2>1
  <2>3. /\ lists \in [Indices -> Seq(ValueSet)]
        /\ \A j \in Indices : j # Slot(m) => lists[j] = base[j]
        /\ Len(base[Slot(m)]) \in Nat /\ Len(lists[Slot(m)]) = Len(base[Slot(m)]) + 1
        /\ DOMAIN lists[Slot(m)] = 1 .. Len(base[Slot(m)]) + 1 /\ DOMAIN base[Slot(m)] = 1 .. Len(base[Slot(m)])
        /\ \A k \in DOMAIN base[Slot(m)] : lists[Slot(m)][k] = base[Slot(m)][k]
        /\ lists[Slot(m)][Len(base[Slot(m)]) + 1] = m.value
        /\ lists[Slot(m)] # << >>
    BY <2>2, FillFacts
  <2> QED BY <1>5, <2>1, <2>3
<1>7. Column(w, t) = gather[t][i] /\ Heard(t, w) = rounds[t] + Len(gather[t][i]) /\ rounds[t] \in Nat
  BY <1>1, <1>5 DEF Column, Heard, Types
<1>8. \A k \in DOMAIN lists[i] : lists[i][k] = Event(w, t, rounds[t] + k)
  <2>1. \A k \in DOMAIN gather[t][i] : gather[t][i][k] = Event(w, t, rounds[t] + k)
    BY <1>2, <1>7 DEF NormalWorker, NormalColumn
  <2>2. lists[i][Len(gather[t][i]) + 1] = Event(w, t, rounds[t] + (Len(gather[t][i]) + 1))
    <3>1. Heard(t, w) + 1 = rounds[t] + (Len(gather[t][i]) + 1)
      <4>1. Len(gather[t][i]) \in Nat
        BY <1>6
      <4> QED BY <4>1, <1>7
    <3> QED BY <3>1, <1>3, <1>6
  <2>3. \A k \in DOMAIN lists[i] : k \in DOMAIN gather[t][i] \/ k = Len(gather[t][i]) + 1
    BY <1>6
  <2> QED BY <2>1, <2>2, <2>3, <1>6
<1>9. i \in Range(queues[t])
  BY <1>1, <1>5, MemberFacts DEF Inv
<1>10. Len(lists[i]) = Len(Column(w, t)) + 1 /\ DOMAIN lists[i] = 1 .. Len(Column(w, t)) + 1 /\ lists[i] # << >>
  BY <1>6, <1>7
<1>11. lists \in [Indices -> Seq(ValueSet)] /\ \A j \in Indices : j # i => lists[j] = gather[t][j]
  BY <1>6
<1>12. Slot(m) = i /\ i \in Indices
  BY <1>4, <1>5
<1> HIDE <1>6
<1> QED BY <1>3, <1>5, <1>8, <1>9, <1>10, <1>11, <1>12 DEF Grown

-----------------------------------------------------------------------------
(* A value of a task without error. *)

LEMMA SenderFacts ==
    ASSUME Inv, NEW w \in Worker, NEW m, Received(w, m), NEW t, t = m.task, m.msg \notin {"error", "crash"}, Normal(t),
           UNCHANGED << queues, step, at, index, call >>, Heard(t, w)' = Heard(t, w) + 1
    PROVE  /\ NormalReports(t, w)' /\ Calm(w)' = Calm(w)
           /\ Heard(t, w)' + Len(mqueue'[w]) = Heard(t, w) + Len(mqueue[w])
<1>1. /\ t \in Tasks /\ w \in Members(t) /\ at[w] = t /\ manager = "running" /\ Types
      /\ m = mqueue[w][1] /\ 1 \in DOMAIN mqueue[w]
      /\ Len(mqueue'[w]) = Len(mqueue[w]) - 1 /\ DOMAIN mqueue'[w] = 1 .. Len(mqueue[w]) - 1
      /\ \A j \in DOMAIN mqueue'[w] : mqueue'[w][j] = mqueue[w][j + 1] /\ j + 1 \in DOMAIN mqueue[w]
  BY HeadFacts DEF Inv
<1>2. NormalWorker(t, w)
  BY <1>1, WorkerModes
<1>3. Heard(t, w) \in Nat /\ Len(mqueue[w]) \in Nat /\ DOMAIN mqueue[w] = 1 .. Len(mqueue[w])
  BY <1>1, ColumnFacts, QueueFacts
<1>4. NormalReports(t, w)'
  <2>1. ASSUME NEW j \in DOMAIN mqueue'[w]
        PROVE  LET n == mqueue'[w][j]
                   k == Heard(t, w)' + j
               IN  /\ k <= Last(t) /\ n.index = queues[t][w]
                   /\ n.msg = "error" => n.flag
                   /\ n.msg # "error" => n.value = Event(w, t, k) /\ n.msg = EventMsg(t, k) /\ ~ n.flag
    <3>1. PICK n : n = mqueue'[w][j]
      OBVIOUS
    <3>2. PICK k : k = Heard(t, w)' + j
      OBVIOUS
    <3>3. n = mqueue[w][j + 1] /\ j + 1 \in DOMAIN mqueue[w]
      BY <1>1, <3>1
    <3>4. k = Heard(t, w) + (j + 1)
      <4>1. j \in Nat
        BY <1>1
      <4> QED BY <4>1, <1>3, <3>2
    <3>5. /\ k <= Last(t) /\ n.index = queues[t][w]
          /\ n.msg = "error" => n.flag
          /\ n.msg # "error" => n.value = Event(w, t, k) /\ n.msg = EventMsg(t, k) /\ ~ n.flag
      BY <1>1, <1>2, <3>3, <3>4 DEF NormalWorker, NormalReports
    <3> QED BY <3>1, <3>2, <3>5
  <2>2. \A k : Event(w, t, k)' = Event(w, t, k) /\ EventMsg(t, k)' = EventMsg(t, k) /\ Last(t)' = Last(t)
    BY DEF Event, EventMsg, Last, EndValue
  <2> QED BY <2>1, <2>2 DEF NormalReports
<1>5. Calm(w)' = Calm(w)
  <2>1. ASSUME Calm(w) PROVE Calm(w)'
    BY <1>1, <2>1 DEF Calm
  <2>2. ASSUME Calm(w)' PROVE Calm(w)
    <3>1. ASSUME NEW j \in DOMAIN mqueue[w] PROVE mqueue[w][j].msg # "error"
      <4>1. CASE j = 1
        BY <1>1, <4>1
      <4>2. CASE j # 1
        <5>1. j - 1 \in DOMAIN mqueue'[w] /\ (j - 1) + 1 = j
          BY <1>1, <1>3, <4>2
        <5>2. mqueue'[w][j - 1] = mqueue[w][j]
          BY <1>1, <5>1
        <5> QED BY <2>2, <5>1, <5>2 DEF Calm
      <4> QED BY <4>1, <4>2
    <3> QED BY <3>1 DEF Calm
  <2> QED BY <2>1, <2>2 DEF Calm
<1> QED BY <1>1, <1>3, <1>4, <1>5

\* The value goes to the end of its column, and no list is full.
LEMMA NormalFillInv ==
    ASSUME Inv, NEW w \in Worker, NEW m, Received(w, m), NEW t, t = m.task, m.msg \notin {"error", "crash"}, Normal(t),
           NEW lists, lists = Fill(gather[t], m), ~ Full(t, lists),
           gather' = [gather EXCEPT ![t] = lists], manager' \in {"running", "ended"},
           UNCHANGED << procs, queues, owner, state, rounds, inbox, step, at, index, call, raised >>
    PROVE  Inv'
<1>0. PICK i : i = queues[t][w]
  OBVIOUS
<1>1. /\ t \in Tasks /\ w \in Members(t) /\ at[w] = t /\ manager = "running" /\ Types /\ Live(t)
      /\ m = mqueue[w][1] /\ 1 \in DOMAIN mqueue[w] /\ mqueue' \in [Worker -> Seq(Message)]
      /\ DOMAIN mqueue'[w] = 1 .. Len(mqueue[w]) - 1
      /\ \A j \in DOMAIN mqueue'[w] : mqueue'[w][j] = mqueue[w][j + 1] /\ j + 1 \in DOMAIN mqueue[w]
      /\ \A v \in Worker : v # w => mqueue'[v] = mqueue[v]
  BY HeadFacts DEF Inv
<1>2. Grown(w, t, m, lists)
  BY NormalHead
<1>3. /\ Slot(m) = i /\ i \in Indices /\ i \in Range(queues[t])
      /\ Heard(t, w) + 1 <= Last(t) /\ m.value = Event(w, t, Heard(t, w) + 1)
      /\ m.msg = EventMsg(t, Heard(t, w) + 1)
      /\ lists \in [Indices -> Seq(ValueSet)]
      /\ \A j \in Indices : j # i => lists[j] = gather[t][j]
      /\ Len(lists[i]) = Len(Column(w, t)) + 1 /\ lists[i] # << >>
      /\ DOMAIN lists[i] = 1 .. Len(Column(w, t)) + 1
      /\ \A k \in DOMAIN lists[i] : lists[i][k] = Event(w, t, rounds[t] + k)
  BY <1>2, <1>0 DEF Grown
<1>4. gather'[t] = lists /\ \A u \in Tasks : u # t => gather'[u] = gather[u]
  BY <1>1 DEF Types, TypeOK
<1>5. Types'
  <2>1. /\ owner' \in [Sources -> Tasks \cup {None}]
        /\ state' \in [Tasks -> {"unstart", "started", "finished", "error", "no_source_data"}]
        /\ rounds' \in [Tasks -> Nat] /\ inbox' \in [Worker -> Seq(Answer)]
        /\ gather \in [Tasks -> [Indices -> Seq(ValueSet)]]
    BY <1>1 DEF Types, TypeOK, ValueSet
  <2>2. gather' \in [Tasks -> [Indices -> Seq(ValueSet)]]
    BY <1>1, <1>3, <2>1
  <2> QED BY <1>1, <2>1, <2>2, ManagerTypes
<1>6. Normal(t)' /\ ~ Over(t)' /\ ~ Spread(t)' /\ ~ Settled(t)' /\ state'[t] # "error"
  <2>1. Normal(t)' /\ state'[t] # "error"
    BY DEF Normal, Live, Begun, Over, Doomed, Whole
  <2> QED BY <2>1 DEF Normal, Live, Spread, Settled
<1>7. \A v \in Members(t) : v # w => queues[t][v] # i /\ v \in Worker /\ queues[t][v] \in Indices
  BY <1>1, <1>0, ColumnFacts, MemberFacts DEF Inv, Pools
<1>8. \A v \in Members(t) : v # w => Column(v, t)' = Column(v, t)
  BY <1>3, <1>4, <1>7 DEF Column
<1>9. Column(w, t)' = lists[i]
  BY <1>0, <1>4 DEF Column
<1>10. Heard(t, w)' = Heard(t, w) + 1
  <2>1. Len(Column(w, t)) \in Nat /\ rounds[t] \in Nat
    BY <1>1, ColumnFacts
  <2>2. Heard(t, w)' = rounds[t] + (Len(Column(w, t)) + 1)
    BY <1>3, <1>9 DEF Heard
  <2> QED BY <2>1, <2>2 DEF Heard
<1>11. /\ NormalReports(t, w)' /\ Calm(w)' = Calm(w)
       /\ Heard(t, w)' + Len(mqueue'[w]) = Heard(t, w) + Len(mqueue[w])
  BY <1>10, SenderFacts
<1>12. NormalColumn(t, w)'
  <2>1. \A k : Event(w, t, k)' = Event(w, t, k) /\ Last(t)' = Last(t)
    BY DEF Event, Last, EndValue
  <2>2. \A k \in DOMAIN lists[i] : lists[i][k] = Event(w, t, rounds[t] + k)
    BY <1>3
  <2>3. Heard(t, w)' <= Last(t)
    BY <1>3, <1>10
  <2> QED BY <1>1, <1>9, <2>1, <2>2, <2>3 DEF NormalColumn
<1>13. NormalWorker(t, w)'
  <2>1. NormalWorker(t, w)
    BY <1>1, WorkerModes
  <2>2. Alive(w)' = Alive(w) /\ NoError(w)' = NoError(w) /\ NormalWaits(t, w)' = NormalWaits(t, w) /\ Last(t)' = Last(t)
        /\ \A k : Blocks(w, t, k)' = Blocks(w, t, k)
    BY DEF Alive, NoError, NormalWaits, Blocks, Last
  <2>3. ASSUME Alive(w) PROVE NoError(w) /\ NormalStep(t, w)
    BY <1>1, <2>1, <2>3 DEF NormalWorker
  <2>4. NormalStep(t, w) => NormalStep(t, w)'
    BY <1>11, <2>2 DEF NormalStep
  <2> QED BY <1>1, <1>11, <1>12, <2>2, <2>3, <2>4 DEF NormalWorker
<1>14. ASSUME NEW v \in Members(t) PROVE NormalWorker(t, v)'
  <2>1. CASE v # w
    <3>1. NormalWorker(t, v) /\ v \in Worker
      BY <1>1, <1>7, <2>1, WorkerModes
    <3> QED BY <1>1, <1>8, <2>1, <3>1, FrameWorker
  <2> QED BY <1>13, <2>1
<1>15. \E v \in Members(t) : Column(v, t)' = << >>
  <2>1. PICK j \in Range(queues[t]) : lists[j] = << >>
    BY DEF Full
  <2>2. PICK v \in Members(t) : j = queues[t][v]
    BY DEF Range, Members
  <2>3. Column(v, t)' = lists[j]
    BY <1>4, <2>2 DEF Column
  <2> QED BY <2>1, <2>3
<1>16. \A j \in Indices : gather'[t][j] # << >> => j \in Range(queues[t])
  <2> SUFFICES ASSUME NEW j \in Indices, gather'[t][j] # << >>, j # i PROVE j \in Range(queues[t])
    BY <1>3
  <2>1. gather[t][j] # << >>
    BY <1>3, <1>4
  <2> QED BY <2>1, <1>1 DEF Inv, States
<1>17. EventLists(t, gather'[t], rounds'[t])
  <2>1. ASSUME NEW j \in Indices, gather'[t][j] # << >>
        PROVE  \E v : \A k \in DOMAIN gather'[t][j] : gather'[t][j][k] = Event(v, t, rounds'[t] + k)
    <3>1. PICK v \in Members(t) : j = queues[t][v]
      BY <1>16, <2>1 DEF Range, Members
    <3>2. Column(v, t)' = gather'[t][j]
      BY <3>1 DEF Column
    <3>3. \A k : Event(v, t, k)' = Event(v, t, k)
      BY DEF Event, Last, EndValue
    <3> QED BY <1>14, <3>2, <3>3 DEF NormalWorker, NormalColumn
  <2> QED BY <2>1 DEF EventLists
<1>18. AlikeLists(gather'[t])
  BY <1>17, EventsAlike
<1>19. ASSUME NEW v \in Worker, << v, t >> \in raised PROVE Unfinished(v, t)'
  <2>1. v \in Members(t) /\ Unfinished(v, t)
    BY <1>1, <1>6, <1>19 DEF Inv, Raisers
  <2>2. CASE v # w
    BY <1>1, <1>8, <2>1, <2>2 DEF Unfinished
  <2>3. CASE v = w
    <3>1. /\ \A k \in DOMAIN Column(w, t) : Column(w, t)[k].kind # "finished"
          /\ \A j \in DOMAIN mqueue[w] : mqueue[w][j].msg # "finished"
      BY <1>1, <2>1, <2>3 DEF Unfinished
    <3>2. \A j \in DOMAIN mqueue'[w] : mqueue'[w][j].msg # "finished"
      BY <1>1, <3>1
    <3>3. \A k \in DOMAIN lists[i] : lists[i][k].kind # "finished"
      <4>1. Heard(t, w) + 1 < Last(t)
        <5>1. EventMsg(t, Heard(t, w) + 1) # "finished"
          BY <1>1, <1>3, <3>1
        <5> QED BY <5>1 DEF EventMsg
      <4>2. ASSUME NEW k \in DOMAIN lists[i] PROVE rounds[t] + k < Last(t)
        <5>1. /\ Heard(t, w) = rounds[t] + Len(Column(w, t)) /\ rounds[t] \in Nat /\ Len(Column(w, t)) \in Nat
              /\ Last(t) \in Nat
          BY <1>1, ColumnFacts, TaskLen
        <5>2. k \in Nat /\ k <= Len(Column(w, t)) + 1
          BY <1>3, <5>1
        <5> QED BY <4>1, <5>1, <5>2
      <4>3. \A k \in DOMAIN lists[i] : lists[i][k] = CallValue(w, rounds[t] + k)
        BY <1>3, <4>2 DEF Event
      <4>4. \A n : CallValue(w, n).kind # "finished"
        BY DEF CallValue, Value
      <4> QED BY <4>3, <4>4
    <3> QED BY <1>9, <2>3, <3>2, <3>3 DEF Unfinished
  <2> QED BY <2>2, <2>3
<1>20. ASSUME NEW v \in Members(t), Alive(v)
       PROVE  /\ Len(inbox[v]) <= Len(inbox'[v])
              /\ \A k \in DOMAIN inbox[v] : inbox'[v][k] = inbox[v][k]
              /\ \A k \in DOMAIN inbox'[v] \ DOMAIN inbox[v] : inbox'[v][k].msg # "finished" /\ Letter(v, k)'
  <2>1. Len(inbox[v]) \in Nat
    BY <1>1, MemberFacts, QueueFacts DEF Inv
  <2> QED BY <2>1
<1>21. rounds'[t] < Last(t)
  BY <1>1 DEF Inv, Running, Protocol
<1> QED BY <1>1, <1>4, <1>5, <1>6, <1>14, <1>15, <1>16, <1>18, <1>19, <1>20, <1>21, HandleStepInv

\* The first list of a task without error has a value of every worker, all of
\* the next call, and the message just received is the last of them.
Taken(w, t, lists) ==
    /\ Column(w, t) = << >> /\ Len(lists[queues[t][w]]) = 1
    /\ \A v \in Members(t) :
          LET i == queues[t][v]
          IN  /\ i \in Indices /\ at[v] = t /\ lists[i] # << >>
              /\ v # w => lists[i] = Column(v, t)
              /\ \A k \in DOMAIN lists[i] : lists[i][k] = Event(v, t, rounds[t] + k)
    /\ \A i \in Indices : lists[i] # << >> => \E v \in Members(t) : i = queues[t][v]

LEMMA NormalTaken ==
    ASSUME Inv, NEW w \in Worker, NEW m, Received(w, m), NEW t, t = m.task, m.msg \notin {"error", "crash"}, Normal(t),
           NEW lists, lists = Fill(gather[t], m), Full(t, lists)
    PROVE  Taken(w, t, lists)
<1>1. /\ t \in Tasks /\ w \in Members(t) /\ at[w] = t /\ manager = "running" /\ Types
  BY HeadFacts DEF Inv
<1>2. Grown(w, t, m, lists)
  BY NormalHead
<1>3. PICK x \in Members(t) : Column(x, t) = << >>
  BY <1>1 DEF Inv, Running, Protocol
<1>4. \A v \in Members(t) : /\ queues[t][v] \in Indices /\ lists[queues[t][v]] # << >> /\ NormalWorker(t, v)
                            /\ v # w => queues[t][v] # queues[t][w]
  <2> SUFFICES ASSUME NEW v \in Members(t)
               PROVE  /\ queues[t][v] \in Indices /\ lists[queues[t][v]] # << >> /\ NormalWorker(t, v)
                      /\ v # w => queues[t][v] # queues[t][w]
    OBVIOUS
  <2>1. queues[t][v] \in Indices /\ queues[t][v] \in Range(queues[t])
    BY <1>1, ColumnFacts, MemberFacts DEF Inv
  <2>2. lists[queues[t][v]] # << >>
    BY <2>1 DEF Full
  <2>3. v # w => queues[t][v] # queues[t][w]
    BY <1>1 DEF Inv, Pools
  <2>4. NormalWorker(t, v)
    BY <1>1, WorkerModes
  <2> QED BY <2>1, <2>2, <2>3, <2>4
<1>5. \A v \in Members(t) : v # w => lists[queues[t][v]] = Column(v, t)
  BY <1>2, <1>4 DEF Grown, Column
<1>6. x = w
  BY <1>3, <1>4, <1>5
<1>7. Column(w, t) = << >> /\ Len(lists[queues[t][w]]) = 1
  <2>1. Len(lists[queues[t][w]]) = Len(Column(w, t)) + 1
    BY <1>2 DEF Grown
  <2>2. Column(w, t) = << >> /\ Len(<< >>) = 0
    BY <1>3, <1>6, EmptySeq
  <2> QED BY <2>1, <2>2
<1>8. ASSUME NEW v \in Members(t)
      PROVE  at[v] = t /\ \A k \in DOMAIN lists[queues[t][v]] : lists[queues[t][v]][k] = Event(v, t, rounds[t] + k)
  <2>1. CASE v = w
    BY <1>1, <1>2, <2>1 DEF Grown
  <2>2. CASE v # w
    <3>1. Column(v, t) # << >> /\ lists[queues[t][v]] = Column(v, t) /\ NormalColumn(t, v)
      BY <1>4, <1>5, <2>2 DEF NormalWorker
    <3> QED BY <3>1 DEF NormalColumn
  <2> QED BY <2>1, <2>2
<1>9. ASSUME NEW i \in Indices, lists[i] # << >> PROVE \E v \in Members(t) : i = queues[t][v]
  <2>1. CASE i = queues[t][w]
    BY <1>1, <2>1
  <2>2. CASE i # queues[t][w]
    <3>1. gather[t][i] # << >>
      BY <1>2, <1>9, <2>2 DEF Grown
    <3>2. i \in Range(queues[t])
      BY <1>1, <3>1 DEF Inv, States
    <3> QED BY <3>2 DEF Range, Members
  <2> QED BY <2>1, <2>2
<1> QED BY <1>4, <1>5, <1>7, <1>8, <1>9 DEF Taken

\* What is left of the columns when the first list is taken.
LEMMA TakenColumns ==
    ASSUME Inv, NEW w \in Worker, NEW m, Received(w, m), NEW t, t = m.task, m.msg \notin {"error", "crash"}, Normal(t),
           NEW lists, lists = Fill(gather[t], m), Full(t, lists),
           gather'[t] = Rest(lists), rounds'[t] = rounds[t] + 1, UNCHANGED << queues, at >>
    PROVE  /\ \A v \in Members(t) : /\ NormalColumn(t, v)' /\ (v # w => Heard(t, v)' = Heard(t, v))
                                    /\ rounds[t] + 1 <= Heard(t, v)'
           /\ Heard(t, w)' = Heard(t, w) + 1 /\ Heard(t, w) = rounds[t] /\ Column(w, t)' = << >>
           /\ EventLists(t, gather'[t], rounds'[t])
           /\ \A i \in Indices : gather'[t][i] # << >> => i \in Range(queues[t])
<1>1. /\ t \in Tasks /\ w \in Members(t) /\ at[w] = t /\ manager = "running" /\ Types
  BY HeadFacts DEF Inv
<1>2. Grown(w, t, m, lists) /\ Taken(w, t, lists)
  BY NormalHead, NormalTaken
<1>3. lists \in [Indices -> Seq(ValueSet)]
  BY <1>2 DEF Grown
<1>4. rounds[t] \in Nat /\ Last(t) \in Nat
  BY <1>1, TaskLen, ColumnFacts
<1>5. ASSUME NEW v \in Members(t)
      PROVE  /\ NormalColumn(t, v)' /\ (v # w => Heard(t, v)' = Heard(t, v)) /\ rounds[t] + 1 <= Heard(t, v)'
             /\ v = w => Heard(t, v)' = Heard(t, v) + 1 /\ Heard(t, v) = rounds[t] /\ Column(v, t)' = << >>
             /\ \A k \in DOMAIN Column(v, t)' : Column(v, t)'[k] = Event(v, t, rounds'[t] + k)
  <2>1. PICK i : i = queues[t][v]
    OBVIOUS
  <2>2. PICK col : col = lists[i]
    OBVIOUS
  <2>3. /\ i \in Indices /\ at[v] = t /\ col # << >> /\ (v # w => col = Column(v, t))
        /\ \A k \in DOMAIN col : col[k] = Event(v, t, rounds[t] + k)
        /\ v = w => Column(v, t) = << >> /\ Len(col) = 1
    BY <1>2, <2>1, <2>2 DEF Taken
  <2>4. PICK rest : rest = Rest(lists)[i]
    OBVIOUS
  <2>5. /\ Len(col) \in Nat /\ Len(col) >= 1 /\ Len(rest) = Len(col) - 1 /\ DOMAIN rest = 1 .. Len(col) - 1
        /\ \A k \in DOMAIN rest : rest[k] = col[k + 1] /\ k + 1 \in DOMAIN col
        /\ rest = << >> <=> Len(col) = 1
    BY <1>3, <2>2, <2>3, <2>4, RestFacts
  <2>6. Column(v, t)' = rest
    BY <2>1, <2>4 DEF Column
  <2>7. Heard(t, v)' = rounds[t] + Len(col)
    BY <1>4, <2>5, <2>6 DEF Heard
  <2>8. \A k \in DOMAIN rest : rest[k] = Event(v, t, rounds'[t] + k)
    <3>1. ASSUME NEW k \in DOMAIN rest PROVE rounds[t] + (k + 1) = rounds'[t] + k
      <4>1. k \in Nat
        BY <2>5
      <4> QED BY <4>1, <1>4
    <3> QED BY <2>3, <2>5, <3>1
  <2>9. CASE v # w
    <3>1. Heard(t, v)' = Heard(t, v)
      BY <2>3, <2>7, <2>9 DEF Heard
    <3>2. Heard(t, v) <= Last(t)
      <4>1. NormalWorker(t, v)
        BY <1>1, WorkerModes
      <4> QED BY <4>1 DEF NormalWorker, NormalColumn
    <3>3. NormalColumn(t, v)'
      <4>1. \A k : Event(v, t, k)' = Event(v, t, k) /\ Last(t)' = Last(t)
        BY DEF Event, Last, EndValue
      <4> QED BY <2>3, <2>6, <2>8, <3>1, <3>2, <4>1 DEF NormalColumn
    <3> QED BY <1>4, <2>5, <2>6, <2>7, <2>8, <2>9, <3>1, <3>3
  <2>10. CASE v = w
    <3>1. Heard(t, v) = rounds[t]
      BY <1>4, <2>3, <2>10, EmptySeq DEF Heard
    <3>2. Heard(t, v)' = Heard(t, v) + 1 /\ rest = << >>
      BY <2>3, <2>5, <2>7, <2>10, <3>1
    <3>3. Heard(t, v) + 1 <= Last(t)
      BY <1>2, <2>10 DEF Grown
    <3>4. NormalColumn(t, v)'
      <4>1. \A k : Event(v, t, k)' = Event(v, t, k) /\ Last(t)' = Last(t)
        BY DEF Event, Last, EndValue
      <4> QED BY <2>3, <2>6, <2>8, <3>2, <3>3, <4>1 DEF NormalColumn
    <3> QED BY <1>4, <2>6, <2>8, <2>10, <3>1, <3>2, <3>4
  <2> QED BY <2>9, <2>10
<1>6. ASSUME NEW i \in Indices, gather'[t][i] # << >> PROVE \E v \in Members(t) : i = queues[t][v]
  <2>1. lists[i] # << >>
    BY <1>3, <1>6, RestFacts
  <2> QED BY <1>2, <2>1 DEF Taken
<1>7. EventLists(t, gather'[t], rounds'[t])
  <2>1. ASSUME NEW i \in Indices, gather'[t][i] # << >>
        PROVE  \E v : \A k \in DOMAIN gather'[t][i] : gather'[t][i][k] = Event(v, t, rounds'[t] + k)
    <3>1. PICK v \in Members(t) : i = queues[t][v]
      BY <1>6, <2>1
    <3>2. PICK col : col = Column(v, t)'
      OBVIOUS
    <3>3. \A k \in DOMAIN col : col[k] = Event(v, t, rounds'[t] + k)
      BY <1>5, <3>2
    <3>4. col = gather'[t][i]
      BY <3>1, <3>2 DEF Column
    <3> QED BY <3>3, <3>4
  <2> QED BY <2>1 DEF EventLists
<1>8. \A i \in Indices : gather'[t][i] # << >> => i \in Range(queues[t])
  BY <1>6 DEF Range, Members
<1> QED BY <1>1, <1>5, <1>7, <1>8

LEMMA TwoSums ==
    ASSUME NEW r \in Nat, NEW c \in Nat, NEW n \in Nat
    PROVE  /\ c # 0 => r + c + n >= r + 1 /\ (n # 0 => r + c + n >= r + 2)
           /\ n # 0 => r + c + n >= r + 1 /\ (n # 1 => r + c + n >= r + 2)
OBVIOUS

\* When the list of a call is full, the workers that this call blocks wait for
\* it, with nothing else to read, and the others have gone past it.
LEMMA TakenWaits ==
    ASSUME Inv, NEW w \in Worker, NEW m, Received(w, m), NEW t, t = m.task, m.msg \notin {"error", "crash"}, Normal(t),
           NEW lists, lists = Fill(gather[t], m), Full(t, lists),
           NEW v \in Members(t), Alive(v)
    PROVE  /\ NormalStep(t, v) /\ inbox[v] = << >> /\ at[v] = t
           /\ \/ /\ step[v] = "collect" /\ call[v] = rounds[t] + 1 /\ Blocks(v, t, rounds[t] + 1)
              \/ /\ rounds[t] + 1 \in 1 .. Len(Calls[t]) => ~ Blocks(v, t, rounds[t] + 1)
                 /\ step[v] \in {"run", "collect", "finished_sync", "error_sync"}
                 /\ step[v] = "collect" => rounds[t] + 1 < call[v]
<1>1. /\ t \in Tasks /\ w \in Members(t) /\ at[w] = t /\ manager = "running" /\ Types /\ v \in Worker
      /\ m = mqueue[w][1] /\ 1 \in DOMAIN mqueue[w] /\ mqueue[w] # << >>
  BY HeadFacts, MemberFacts DEF Inv
<1>2. Taken(w, t, lists)
  BY NormalTaken
<1>3. NormalWorker(t, v) /\ at[v] = t
  BY <1>1, <1>2, WorkerModes DEF Taken
<1>4. NormalStep(t, v)
  BY <1>3 DEF NormalWorker
<1>5. PICK r : r = rounds[t] /\ r \in Nat
  BY <1>1, ColumnFacts
<1>6. PICK c \in Nat : c = Len(Column(v, t)) /\ Heard(t, v) = r + c
  BY <1>1, <1>5, ColumnFacts
<1>13. PICK n \in Nat : n = Len(mqueue[v]) /\ DOMAIN mqueue[v] = 1 .. n
  BY <1>1, QueueFacts
<1>14. PICK sent \in Nat : sent = r + c + n /\ sent = Heard(t, v) + Len(mqueue[v])
  BY <1>5, <1>6, <1>13
<1>7. call[v] \in Nat /\ Len(Calls[t]) \in Nat
  BY <1>1, TaskLen DEF Types
<1>8. sent >= r + 1 /\ (Calm(v) \/ sent >= r + 2)
  <2>1. CASE v # w
    <3>1. Column(v, t) # << >>
      BY <1>2, <2>1 DEF Taken
    <3>2. c # 0
      BY <1>1, <1>6, <3>1, ColumnFacts, EmptySeq
    <3>3. Calm(v) \/ n # 0
      <4>1. ASSUME n = 0 PROVE \A j \in DOMAIN mqueue[v] : FALSE
        BY <1>13, <4>1
      <4> QED BY <4>1 DEF Calm
    <3>4. sent >= r + 1 /\ (n # 0 => sent >= r + 2)
      BY <1>5, <1>14, <3>2, TwoSums
    <3> QED BY <3>3, <3>4
  <2>2. CASE v = w
    <3>1. n # 0
      BY <1>1, <1>13, <2>2
    <3>2. Calm(v) \/ n # 1
      <4>1. ASSUME n = 1 PROVE Calm(v)
        <5>1. \A j \in DOMAIN mqueue[w] : j = 1
          BY <1>13, <2>2, <4>1
        <5> QED BY <1>1, <2>2, <5>1 DEF Calm
      <4> QED BY <4>1
    <3>3. sent >= r + 1 /\ (n # 1 => sent >= r + 2)
      BY <1>5, <1>14, <3>1, TwoSums
    <3> QED BY <3>2, <3>3
  <2> QED BY <2>1, <2>2
<1>9. NormalWaits(t, v) /\ r + 1 \in 1 .. Len(Calls[t]) /\ Blocks(v, t, r + 1) =>
         ~ (r + 1 < call[v]) /\ (r + 1 = call[v] => step[v] = "collect")
  <2>1. ~ (r + 1 <= r)
    BY <1>5
  <2> QED BY <1>5, <2>1 DEF NormalWaits
<1>10. \/ step[v] = "run" /\ sent = call[v] /\ inbox[v] = << >> /\ NormalWaits(t, v)
       \/ /\ step[v] = "collect" /\ sent = call[v] /\ Blocks(v, t, call[v]) /\ NormalWaits(t, v)
          /\ r < call[v] => inbox[v] = << >>
       \/ step[v] = "finished_sync" /\ sent = Last(t) /\ call[v] = Len(Calls[t]) /\ inbox[v] = << >> /\ NormalWaits(t, v)
       \/ /\ step[v] = "error_sync" /\ ~ Calm(v) /\ inbox[v] = << >>
          /\ sent = call[v] + 1 /\ NormalWaits(t, v)
  <2>1. sent # 0
    BY <1>5, <1>14, <1>8
  <2> QED BY <1>4, <1>5, <1>14, <2>1 DEF NormalStep
<1>11. CASE step[v] = "collect"
  <2>1. sent = call[v] /\ Blocks(v, t, call[v]) /\ NormalWaits(t, v) /\ (r < call[v] => inbox[v] = << >>)
    BY <1>10, <1>11
  <2>2. r + 1 <= call[v] /\ inbox[v] = << >>
    BY <1>5, <1>7, <1>8, <2>1
  <2>3. CASE r + 1 = call[v]
    BY <1>3, <1>4, <1>5, <1>11, <2>1, <2>2, <2>3
  <2>4. CASE r + 1 < call[v]
    BY <1>3, <1>4, <1>5, <1>9, <1>11, <2>1, <2>2, <2>4
  <2> QED BY <2>2, <2>3, <2>4, <1>5, <1>7
<1>12. CASE step[v] # "collect"
  <2>1. inbox[v] = << >> /\ NormalWaits(t, v) /\ step[v] \in {"run", "finished_sync", "error_sync"}
    BY <1>10, <1>12
  <2>2. r + 1 \in 1 .. Len(Calls[t]) => r + 1 <= call[v]
    <3>1. CASE step[v] = "run"
      BY <1>7, <1>8, <1>10, <3>1
    <3>2. CASE step[v] = "finished_sync"
      BY <1>7, <1>10, <3>2
    <3>3. CASE step[v] = "error_sync"
      BY <1>5, <1>7, <1>8, <1>10, <3>3
    <3> QED BY <2>1, <3>1, <3>2, <3>3
  <2>3. r + 1 \in 1 .. Len(Calls[t]) => ~ Blocks(v, t, r + 1)
    BY <1>5, <1>7, <1>9, <1>12, <2>1, <2>2
  <2> QED BY <1>3, <1>4, <1>5, <1>12, <2>1, <2>3
<1> QED BY <1>11, <1>12

\* The list is full: it goes to the workers that wait for it.
Shared(t, m, lists, list) ==
    /\ gather' = [gather EXCEPT ![t] = Rest(lists)] /\ rounds' = [rounds EXCEPT ![t] = rounds[t] + 1]
    /\ list = << ToWorker(m.msg, 0, FirstOf(t, lists)) >>
    /\ \A v \in Worker : IF v \in Members(t) /\ (m.msg = "all_gather" \/ queues[t][v] = 1)
                         THEN Written(v, list) ELSE inbox'[v] = inbox[v]
    /\ inbox' \in [Worker -> Seq(Answer)]

LEMMA CollectiveFullInv ==
    ASSUME Inv, NEW w \in Worker, NEW m, Received(w, m), NEW t, t = m.task, m.msg \in {"gather", "all_gather"}, Normal(t),
           NEW lists, lists = Fill(gather[t], m), Full(t, lists), NEW list, Shared(t, m, lists, list),
           UNCHANGED << manager, procs, queues, owner, state, step, at, index, call, raised >>
    PROVE  Inv'
<1>1. /\ t \in Tasks /\ w \in Members(t) /\ at[w] = t /\ manager = "running" /\ Types /\ Live(t)
      /\ m = mqueue[w][1] /\ 1 \in DOMAIN mqueue[w] /\ mqueue' \in [Worker -> Seq(Message)]
      /\ DOMAIN mqueue'[w] = 1 .. Len(mqueue[w]) - 1
      /\ \A j \in DOMAIN mqueue'[w] : mqueue'[w][j] = mqueue[w][j + 1] /\ j + 1 \in DOMAIN mqueue[w]
      /\ \A v \in Worker : v # w => mqueue'[v] = mqueue[v]
  BY HeadFacts DEF Inv
<1>2. Grown(w, t, m, lists) /\ Taken(w, t, lists) /\ m.msg \notin {"error", "crash", "finished"}
  BY NormalHead, NormalTaken
<1>3. lists \in [Indices -> Seq(ValueSet)]
  BY <1>2 DEF Grown
<1>4. gather'[t] = Rest(lists) /\ (\A u \in Tasks : u # t => gather'[u] = gather[u] /\ rounds'[u] = rounds[u])
      /\ rounds'[t] = rounds[t] + 1
  BY <1>1 DEF Types, TypeOK, Shared
<1>5. PICK r \in Nat : r = rounds[t] + 1 /\ r = rounds'[t] /\ rounds[t] \in Nat
  <2>1. rounds[t] \in Nat
    BY <1>1 DEF Types
  <2> QED BY <1>4, <2>1
<1>6. Types'
  <2>1. /\ owner' \in [Sources -> Tasks \cup {None}] /\ manager' \in {"running", "ended"}
        /\ state' \in [Tasks -> {"unstart", "started", "finished", "error", "no_source_data"}]
        /\ rounds \in [Tasks -> Nat]
        /\ gather \in [Tasks -> [Indices -> Seq(ValueSet)]]
    BY <1>1 DEF Types, TypeOK, ValueSet
  <2>2. gather' \in [Tasks -> [Indices -> Seq(ValueSet)]]
    BY <1>1, <1>3, <2>1, RestFacts DEF Shared
  <2>3. rounds' \in [Tasks -> Nat] /\ inbox' \in [Worker -> Seq(Answer)]
    BY <1>1, <1>5, <2>1 DEF Shared
  <2> QED BY <1>1, <2>1, <2>2, <2>3, ManagerTypes
<1>7. Normal(t)' /\ ~ Over(t)' /\ ~ Spread(t)' /\ ~ Settled(t)' /\ state'[t] # "error"
  <2>1. Normal(t)' /\ state'[t] # "error"
    BY DEF Normal, Live, Begun, Over, Doomed, Whole
  <2> QED BY <2>1 DEF Normal, Live, Spread, Settled
<1>8. /\ \A v \in Members(t) : NormalColumn(t, v)' /\ (v # w => Heard(t, v)' = Heard(t, v))
      /\ Heard(t, w)' = Heard(t, w) + 1 /\ Heard(t, w) = rounds[t] /\ Column(w, t)' = << >>
      /\ EventLists(t, gather'[t], rounds'[t])
      /\ \A i \in Indices : gather'[t][i] # << >> => i \in Range(queues[t])
  <2>1. gather'[t] = Rest(lists) /\ rounds'[t] = rounds[t] + 1 /\ UNCHANGED << queues, at >> /\ m.msg \notin {"error", "crash"}
    BY <1>2, <1>4
  <2> QED BY <2>1, TakenColumns
<1>9. r < Last(t) /\ r \in 1 .. Len(Calls[t]) /\ m.msg = Calls[t][r]
  <2>1. m.msg = EventMsg(t, r) /\ r <= Last(t)
    BY <1>2, <1>5, <1>8 DEF Grown
  <2>2. r < Last(t) /\ m.msg = Calls[t][r]
    BY <1>2, <2>1 DEF EventMsg
  <2>3. r >= 1 /\ Last(t) = Len(Calls[t]) + 1 /\ Len(Calls[t]) \in Nat
    BY <1>1, <1>5, TaskLen
  <2> QED BY <2>2, <2>3
<1>10. \A v \in Members(t) : v \in Worker /\ (Blocks(v, t, r) => Written(v, list))
                             /\ (~ Blocks(v, t, r) => inbox'[v] = inbox[v])
  <2>1. \A v \in Members(t) : Blocks(v, t, r) <=> (m.msg = "all_gather" \/ queues[t][v] = 1)
    BY <1>9 DEF Blocks
  <2> QED BY <2>1, <1>1, MemberFacts DEF Inv, Shared
<1>11. ASSUME NEW v \in Members(t), Alive(v), Blocks(v, t, r)
       PROVE  /\ step[v] = "collect" /\ call[v] = r /\ inbox[v] = << >> /\ at[v] = t /\ NormalStep(t, v)
              /\ Len(inbox'[v]) = 1 /\ DOMAIN inbox'[v] = {1} /\ inbox'[v][1] = list[1]
  <2>1. step[v] = "collect" /\ call[v] = r /\ inbox[v] = << >> /\ at[v] = t /\ NormalStep(t, v)
    <3>1. /\ NormalStep(t, v) /\ inbox[v] = << >> /\ at[v] = t
          /\ \/ /\ step[v] = "collect" /\ call[v] = rounds[t] + 1 /\ Blocks(v, t, rounds[t] + 1)
             \/ /\ rounds[t] + 1 \in 1 .. Len(Calls[t]) => ~ Blocks(v, t, rounds[t] + 1)
                /\ step[v] \in {"run", "collect", "finished_sync", "error_sync"}
                /\ step[v] = "collect" => rounds[t] + 1 < call[v]
      BY <1>2, <1>11, TakenWaits
    <3> QED BY <1>5, <1>9, <1>11, <3>1
  <2>2. Written(v, list) /\ v \in Worker
    BY <1>10, <1>11
  <2>3. /\ Len(inbox'[v]) = Len(inbox[v]) + Len(list) /\ DOMAIN inbox'[v] = 1 .. Len(inbox[v]) + Len(list)
        /\ \A k \in DOMAIN inbox'[v] \ DOMAIN inbox[v] : inbox'[v][k] = list[k - Len(inbox[v])]
    BY <1>1, <2>2, WrittenQueue
  <2>4. Len(inbox[v]) = 0 /\ DOMAIN inbox[v] = {} /\ Len(list) = 1
    BY <2>1, EmptySeq DEF Shared
  <2>5. Len(inbox'[v]) = 1 /\ DOMAIN inbox'[v] = {1}
    BY <2>3, <2>4
  <2>6. inbox'[v][1] = list[1]
    BY <2>3, <2>4, <2>5
  <2> QED BY <2>1, <2>5, <2>6
<1>12. ASSUME NEW v \in Members(t), Alive(v), Blocks(v, t, r)
       PROVE  Letter(v, 1)' /\ inbox'[v][1].msg = m.msg
  <2>1. PICK n : n = inbox'[v][1]
    OBVIOUS
  <2>2. n.msg = m.msg /\ n.data = FirstOf(t, lists)
    BY <1>11, <1>12, <2>1 DEF ToWorker, Shared
  <2>3. /\ DOMAIN n.data = Range(queues[t])
        /\ \A i \in Range(queues[t]) : n.data[i] = lists[i][1] /\ i \in Indices /\ lists[i] # << >>
    <3>1. /\ DOMAIN FirstOf(t, lists) = Range(queues[t])
          /\ \A i \in Range(queues[t]) : FirstOf(t, lists)[i] = lists[i][1] /\ i \in Indices /\ lists[i] # << >>
      BY <1>1, <1>3, FirstFacts
    <3> QED BY <2>2, <3>1
  <2>4. ASSUME NEW x \in Members(t) PROVE n.data[queues[t][x]] = CallValue(x, r)
    <3>1. n.data[queues[t][x]] = lists[queues[t][x]][1] /\ queues[t][x] \in Indices
      BY <1>1, <2>3, MemberFacts DEF Inv
    <3>2. 1 \in DOMAIN lists[queues[t][x]]
      BY <1>2, <1>3, <3>1, RestFacts DEF Taken
    <3>3. lists[queues[t][x]][1] = Event(x, t, r)
      BY <1>2, <1>5, <3>2 DEF Taken
    <3> QED BY <1>9, <3>1, <3>3 DEF Event
  <2>5. step[v] = "collect" /\ call[v] = r /\ at[v] = t
    BY <1>11, <1>12
  <2>6. Collected(v, n)'
    BY <1>9, <2>2, <2>3, <2>4, <2>5 DEF Collected, Members
  <2>7. n.msg \in {"gather", "all_gather"}
    BY <2>2
  <2> QED BY <2>1, <2>2, <2>6, <2>7 DEF Letter
<1>13. ASSUME NEW v \in Members(t), Alive(v)
       PROVE  /\ Len(inbox[v]) <= Len(inbox'[v])
              /\ \A k \in DOMAIN inbox[v] : inbox'[v][k] = inbox[v][k]
              /\ \A k \in DOMAIN inbox'[v] \ DOMAIN inbox[v] : inbox'[v][k].msg # "finished" /\ Letter(v, k)'
  <2>1. CASE Blocks(v, t, r)
    <3>1. Len(inbox'[v]) = 1 /\ DOMAIN inbox'[v] = {1} /\ inbox[v] = << >>
      BY <1>11, <1>13, <2>1
    <3>2. Len(inbox[v]) = 0 /\ DOMAIN inbox[v] = {}
      BY <3>1, EmptySeq
    <3>3. Letter(v, 1)' /\ inbox'[v][1].msg # "finished"
      BY <1>2, <1>12, <1>13, <2>1
    <3> QED BY <3>1, <3>2, <3>3
  <2>2. CASE ~ Blocks(v, t, r)
    <3>1. inbox'[v] = inbox[v] /\ Len(inbox[v]) \in Nat
      BY <1>1, <1>10, <2>2, QueueFacts
    <3> QED BY <3>1
  <2> QED BY <2>1, <2>2
<1>14. ASSUME NEW v \in Members(t)
       PROVE  /\ NormalReports(t, v)' /\ Calm(v)' = Calm(v)
              /\ Heard(t, v)' + Len(mqueue'[v]) = Heard(t, v) + Len(mqueue[v])
  <2>1. CASE v = w
    BY <1>2, <1>8, <2>1, SenderFacts
  <2>2. CASE v # w
    <3>1. Heard(t, v)' = Heard(t, v) /\ mqueue'[v] = mqueue[v] /\ v \in Worker
      BY <1>1, <1>8, <1>10, <2>2
    <3>2. NormalReports(t, v)
      BY <1>1, WorkerModes DEF NormalWorker
    <3>3. \A k : Event(v, t, k)' = Event(v, t, k) /\ EventMsg(t, k)' = EventMsg(t, k) /\ Last(t)' = Last(t)
      BY DEF Event, EventMsg, Last, EndValue
    <3>4. NormalReports(t, v)'
      BY <3>1, <3>2, <3>3 DEF NormalReports
    <3> QED BY <3>1, <3>4 DEF Calm
  <2> QED BY <2>1, <2>2
<1>15. ASSUME NEW v \in Members(t) PROVE NormalWorker(t, v)'
  <2>1. at[v] = t /\ NormalColumn(t, v)' /\ NormalReports(t, v)'
    BY <1>2, <1>8, <1>14 DEF Taken
  <2>2. ASSUME Alive(v) PROVE NoError(v)' /\ NormalStep(t, v)'
    <3>1. NormalStep(t, v) /\ inbox[v] = << >>
      BY <1>2, <2>2, TakenWaits
    <3>2. /\ \A k : Blocks(v, t, k)' = Blocks(v, t, k)
          /\ Last(t)' = Last(t)
      BY DEF Blocks, Last
    <3>3. NormalWaits(t, v) => NormalWaits(t, v)'
      <4>1. \A k \in 1 .. Len(Calls[t]) : k <= rounds[t] => k <= rounds'[t]
        BY <1>4, <1>5
      <4> QED BY <3>2, <4>1 DEF NormalWaits
    <3>4. CASE Blocks(v, t, r)
      <4>1. /\ step[v] = "collect" /\ call[v] = r /\ Len(inbox'[v]) = 1 /\ DOMAIN inbox'[v] = {1}
            /\ inbox'[v][1].msg = m.msg
        BY <1>11, <1>12, <2>2, <3>4
      <4>2. NoError(v)'
        BY <1>2, <4>1 DEF NoError
      <4>3. Heard(t, v) + Len(mqueue[v]) = call[v] /\ Calm(v) /\ Blocks(v, t, call[v]) /\ NormalWaits(t, v)
        BY <3>1, <4>1 DEF NormalStep
      <4>4. ~ (rounds'[t] < call[v])
        BY <1>5, <4>1
      <4> QED BY <1>14, <3>2, <3>3, <4>1, <4>2, <4>3, <4>4 DEF NormalStep
    <3>5. CASE ~ Blocks(v, t, r)
      <4>1. inbox'[v] = << >> /\ (step[v] = "collect" => r < call[v]) /\ step[v] \in {"run", "collect", "finished_sync", "error_sync"}
        <5>1. inbox'[v] = << >>
          BY <1>10, <3>1, <3>5
        <5>2. /\ \/ /\ step[v] = "collect" /\ call[v] = rounds[t] + 1 /\ Blocks(v, t, rounds[t] + 1)
                 \/ /\ rounds[t] + 1 \in 1 .. Len(Calls[t]) => ~ Blocks(v, t, rounds[t] + 1)
                    /\ step[v] \in {"run", "collect", "finished_sync", "error_sync"}
                    /\ step[v] = "collect" => rounds[t] + 1 < call[v]
          BY <1>2, <2>2, TakenWaits
        <5> QED BY <1>5, <3>5, <5>1, <5>2
      <4>2. NoError(v)'
        BY <4>1 DEF NoError
      <4>3. step[v] = "collect" => rounds'[t] < call[v]
        BY <1>5, <4>1
      <4>4. NormalStep(t, v)'
        <5>1. \/ step[v] = "run" /\ Heard(t, v) + Len(mqueue[v]) = call[v] /\ Calm(v) /\ NormalWaits(t, v)
              \/ /\ step[v] = "collect" /\ Heard(t, v) + Len(mqueue[v]) = call[v] /\ Calm(v)
                 /\ Blocks(v, t, call[v]) /\ NormalWaits(t, v)
              \/ /\ step[v] = "finished_sync" /\ Heard(t, v) + Len(mqueue[v]) = Last(t) /\ call[v] = Len(Calls[t])
                 /\ Calm(v) /\ NormalWaits(t, v)
              \/ /\ step[v] = "error_sync" /\ ~ Calm(v)
                 /\ Heard(t, v) + Len(mqueue[v]) = call[v] + 1 /\ call[v] < Last(t) /\ NormalWaits(t, v)
          BY <3>1, <4>1 DEF NormalStep
        <5> QED BY <1>14, <3>2, <3>3, <4>1, <4>3, <5>1 DEF NormalStep
      <4> QED BY <4>2, <4>4
    <3> QED BY <3>4, <3>5
  <2>3. Alive(v)' = Alive(v)
    BY DEF Alive
  <2> QED BY <2>1, <2>2, <2>3 DEF NormalWorker
<1>16. AlikeLists(gather'[t])
  BY <1>8, EventsAlike
<1>17. ASSUME NEW v \in Worker, << v, t >> \in raised PROVE Unfinished(v, t)'
  <2>1. v \in Members(t) /\ Unfinished(v, t)
    BY <1>1, <1>7, <1>17 DEF Inv, Raisers
  <2>2. \A j \in DOMAIN mqueue'[v] : mqueue'[v][j].msg # "finished"
    <3>1. \A j \in DOMAIN mqueue[v] : mqueue[v][j].msg # "finished"
      BY <1>1, <2>1 DEF Unfinished
    <3>2. CASE v = w
      BY <1>1, <3>1, <3>2
    <3>3. CASE v # w
      BY <1>1, <3>1, <3>3
    <3> QED BY <3>2, <3>3
  <2>3. \A k \in DOMAIN Column(v, t)' : Column(v, t)'[k].kind # "finished"
    <3>1. CASE v = w
      <4>1. DOMAIN << >> = {}
        OBVIOUS
      <4> QED BY <1>8, <3>1, <4>1
    <3>2. CASE v # w
      <4>1. PICK i : i = queues[t][v]
        OBVIOUS
      <4>2. PICK col : col = lists[i]
        OBVIOUS
      <4>3. i \in Indices /\ col # << >> /\ col = Column(v, t)
        BY <1>2, <2>1, <3>2, <4>1, <4>2 DEF Taken
      <4>4. PICK rest : rest = Rest(lists)[i]
        OBVIOUS
      <4>5. \A k \in DOMAIN rest : rest[k] = col[k + 1] /\ k + 1 \in DOMAIN col
        <5>1. lists[i] # << >> => \A k \in DOMAIN Rest(lists)[i] : Rest(lists)[i][k] = lists[i][k + 1] /\ k + 1 \in DOMAIN lists[i]
          BY <1>3, <4>3, RestFacts
        <5> QED BY <4>2, <4>3, <4>4, <5>1
      <4>6. \A k \in DOMAIN col : col[k].kind # "finished"
        BY <1>1, <2>1, <4>3 DEF Unfinished
      <4>7. Column(v, t)' = rest
        BY <1>4, <4>1, <4>4 DEF Column
      <4> QED BY <4>5, <4>6, <4>7
    <3> QED BY <3>1, <3>2
  <2> QED BY <2>2, <2>3 DEF Unfinished
<1>18. \A v \in Worker : v \notin Members(t) => inbox'[v] = inbox[v]
  BY DEF Shared
<1>19. rounds'[t] < Last(t) /\ (\E v \in Members(t) : Column(v, t)' = << >>) /\ m.msg # "crash"
  BY <1>1, <1>5, <1>8, <1>9
<1> QED BY <1>1, <1>4, <1>6, <1>7, <1>8, <1>13, <1>15, <1>16, <1>17, <1>18, <1>19, HandleStepInv

LEMMA HandleCollectiveInv ==
    ASSUME Inv, NEW w \in Worker, NEW m, Received(w, m), ~ Ignored(m),
           NEW lists, lists = Fill(gather[m.task], m), HandleCollective(m, lists), Collect(m, lists),
           UNCHANGED << procs, workerVars, raised >>
    PROVE  Inv'
<1>1. PICK t : t = m.task
  OBVIOUS
<1>2. /\ m.msg \in {"gather", "all_gather"} /\ m.msg # "error"
      /\ UNCHANGED << manager, procs, queues, owner, state, step, at, index, call, raised >>
  BY DEF HandleCollective, workerVars
<1>3. t \in Tasks /\ Types /\ manager = "running" /\ lists = Fill(gather[t], m)
  BY <1>1, HeadFacts DEF Inv
<1>4. Normal(t)
  BY <1>1, <1>2, PlainModes
<1>5. /\ gather' = [gather EXCEPT ![t] = IF Full(t, lists) THEN Rest(lists) ELSE lists]
      /\ rounds' = [rounds EXCEPT ![t] = IF Full(t, lists) THEN rounds[t] + 1 ELSE rounds[t]]
  BY <1>1, <1>2 DEF Collect
<1>6. CASE ~ Full(t, lists)
  <2>1. inbox' = inbox /\ gather' = [gather EXCEPT ![t] = lists]
    BY <1>1, <1>5, <1>6 DEF HandleCollective
  <2>2. rounds' = rounds
    BY <1>3, <1>5, <1>6 DEF Types
  <2>3. manager' \in {"running", "ended"}
    BY <1>2, <1>3
  <2> QED BY <1>1, <1>2, <1>3, <1>4, <1>6, <2>1, <2>2, <2>3, NormalFillInv
<1>7. CASE Full(t, lists)
  <2>1. PICK list : list = << ToWorker(m.msg, 0, FirstOf(t, lists)) >>
    OBVIOUS
  <2>2. inbox' = IF m.msg = "all_gather" THEN ToTask(t, list)
                 ELSE [v \in Worker |-> IF v \in Members(t) /\ queues[t][v] = 1 THEN inbox[v] \o list ELSE inbox[v]]
    BY <1>1, <1>7, <2>1 DEF HandleCollective
  <2>3. list \in Seq(Answer)
    <3>1. FirstOf(t, lists) \in ListSet
      <4>1. lists \in [Indices -> Seq(ValueSet)]
        BY <1>1, <1>2, <1>3, <1>4, NormalHead DEF Grown
      <4> QED BY <4>1, <1>3, <1>7, FirstFacts
    <3>2. ToWorker(m.msg, 0, FirstOf(t, lists)) \in Answer
      BY <1>2, <3>1 DEF ToWorker, Answer
    <3> QED BY <2>1, <3>2
  <2>4. ASSUME NEW v \in Worker
        PROVE  IF v \in Members(t) /\ (m.msg = "all_gather" \/ queues[t][v] = 1)
               THEN inbox'[v] = inbox[v] \o list ELSE inbox'[v] = inbox[v]
    <3>1. CASE m.msg = "all_gather"
      BY <2>2, <3>1 DEF ToTask
    <3>2. CASE m.msg # "all_gather"
      BY <2>2, <3>2
    <3> QED BY <3>1, <3>2
  <2>5. ASSUME NEW v \in Worker PROVE inbox'[v] \in Seq(Answer)
    <3>1. CASE v \in Members(t) /\ (m.msg = "all_gather" \/ queues[t][v] = 1)
      <4>1. Written(v, list)
        BY <2>3, <2>4, <3>1 DEF Written
      <4> QED BY <1>3, <4>1, WrittenQueue
    <3>2. CASE ~ (v \in Members(t) /\ (m.msg = "all_gather" \/ queues[t][v] = 1))
      BY <1>3, <2>4, <3>2 DEF Types
    <3> QED BY <3>1, <3>2
  <2>6. inbox' \in [Worker -> Seq(Answer)]
    <3>1. inbox' = [v \in Worker |-> inbox'[v]]
      BY <2>2 DEF ToTask
    <3> QED BY <2>5, <3>1
  <2>7. Shared(t, m, lists, list)
    BY <1>5, <1>7, <2>1, <2>3, <2>4, <2>6 DEF Shared, Written
  <2> QED BY <1>1, <1>2, <1>3, <1>4, <1>7, <2>7, CollectiveFullInv
<1> QED BY <1>6, <1>7

-----------------------------------------------------------------------------
(* Reports of errors. *)

\* When every place has a value, and its sender belongs there, every worker
\* of the task has sent one: there are as many places as workers.
LEMMA EverySender ==
    ASSUME Types, Pools, NEW t \in Tasks, NEW f \in [Range(queues[t]) -> Members(t)],
           \A i, j \in Range(queues[t]) : f[i] = f[j] => i = j
    PROVE  \A v \in Members(t) : \E i \in Range(queues[t]) : f[i] = v
<1> DEFINE R == Range(queues[t])
           M == Members(t)
<1>1. IsFiniteSet(M)
  BY WorkersFinite, FS_Subset DEF Types, TypeOK
<1>2. queues[t] \in Bijection(M, R)
  <2>1. queues[t] \in [M -> R] /\ \A i \in R : \E v \in M : queues[t][v] = i
    BY DEF Range, Members, Types, TypeOK
  <2>2. \A v, x \in M : queues[t][v] = queues[t][x] => v = x
    BY DEF Pools
  <2> QED BY <2>1, <2>2 DEF Bijection, Injection, Surjection, IsInjective
<1>3. IsFiniteSet(R) /\ Cardinality(R) = Cardinality(M)
  BY <1>1, <1>2, FS_Bijection DEF ExistsBijection
<1>4. f \in Injection(R, M)
  BY DEF Injection, IsInjective
<1>5. f \in Surjection(R, M)
  BY <1>1, <1>3, <1>4, FS_Injection
<1> QED BY <1>5 DEF Surjection

\* A value of an error: one for every worker that has reported it.
BlamedValue(t, lists, i, k) ==
    LET v == lists[i][k]
        x == v.from
    IN  /\ v = ErrorValue(x) /\ x \in Members(t) /\ at[x] = t /\ SlotOf(x, t) = i
        /\ step[x] \in {"error_sync", "exited"} /\ mqueue'[x] = << >>
        /\ \A l \in DOMAIN lists[i] : lists[i][l].from = x => l = k
Blamed(t, lists) ==
    /\ lists \in [Indices -> Seq(ValueSet)]
    /\ \A i \in Indices : lists[i] # << >> => i \in Range(queues[t])
    /\ \A i \in Indices : \A k \in DOMAIN lists[i] : BlamedValue(t, lists, i, k)

LEMMA ErrorHead ==
    ASSUME Inv, NEW w \in Worker, NEW m, Received(w, m), m.msg = "error", NEW t, t = m.task,
           Slot(m) \in Range(queues[t]), NEW lists, lists = Fill(Kept(t), m)
    PROVE  Blamed(t, lists) /\ (Normal(t) \/ Spread(t)) /\ (state[t] = "error" => rounds[t] = 0)
<1>1. /\ t \in Tasks /\ w \in Members(t) /\ at[w] = t /\ manager = "running" /\ Types /\ Live(t)
      /\ m = mqueue[w][1] /\ 1 \in DOMAIN mqueue[w] /\ m.value \in ValueSet /\ m.index = index[w]
      /\ m.value = ErrorValue(w) /\ step[w] \in {"error_sync", "exited"} /\ mqueue'[w] = << >> /\ mqueue[w] # << >>
      /\ \A v \in Worker : v # w => mqueue'[v] = mqueue[v]
  BY HeadFacts DEF Inv
<1>2. ~ Settled(t)
  BY <1>1, WorkerModes DEF SettledWorker
<1>3. (Normal(t) \/ Spread(t)) /\ (state[t] = "error" => Spread(t) /\ rounds[t] = 0)
  <2>1. CASE state[t] = "error"
    BY <1>1, <1>2, <2>1, FailedModes
  <2>2. CASE state[t] # "error"
    BY <1>1, <2>2 DEF Normal, Spread
  <2> QED BY <2>1, <2>2
<1>4. PICK base : base = Kept(t)
  OBVIOUS
<1>5. /\ base \in [Indices -> Seq(ValueSet)]
      /\ \A i \in Indices : base[i] # << >> => i \in Range(queues[t])
      /\ \A i \in Indices : \A k \in DOMAIN base[i] : BlamedValue(t, base, i, k) /\ base[i][k].from # w
  <2>1. CASE state[t] = "error"
    <3>1. base = gather[t]
      BY <1>4, <2>1 DEF Kept
    <3>2. gather[t] \in [Indices -> Seq(ValueSet)] /\ \A i \in Indices : gather[t][i] # << >> => i \in Range(queues[t])
      BY <1>1 DEF Types, TypeOK, ValueSet, Inv, States
    <3>3. \A i \in Indices : \A k \in DOMAIN gather[t][i] : SpreadValue(t, i, k)
      BY <1>1, <1>3, <2>1 DEF Inv, Running, Protocol
    <3>4. ASSUME NEW i \in Indices, NEW k \in DOMAIN gather[t][i]
          PROVE  BlamedValue(t, gather[t], i, k) /\ gather[t][i][k].from # w
      <4>1. PICK x : x = gather[t][i][k].from
        OBVIOUS
      <4>2. /\ gather[t][i][k] = ErrorValue(x) /\ x \in Members(t) /\ at[x] = t /\ SlotOf(x, t) = i
            /\ step[x] \in {"error_sync", "exited"} /\ mqueue[x] = << >>
            /\ \A l \in DOMAIN gather[t][i] : gather[t][i][l].from = x => l = k
        BY <3>3, <4>1 DEF SpreadValue
      <4>3. x # w /\ x \in Worker
        BY <1>1, <4>2, MemberFacts DEF Inv
      <4>4. mqueue'[x] = << >>
        BY <1>1, <4>2, <4>3
      <4> QED BY <4>1, <4>2, <4>3, <4>4 DEF BlamedValue
    <3> QED BY <3>1, <3>2, <3>4
  <2>2. CASE state[t] # "error"
    <3>1. base = [i \in Indices |-> << >>]
      BY <1>4, <2>2 DEF Kept
    <3>2. DOMAIN << >> = {} /\ << >> \in Seq(ValueSet)
      OBVIOUS
    <3>3. \A i \in Indices : base[i] = << >> /\ DOMAIN base[i] = {}
      BY <3>1, <3>2
    <3> QED BY <3>1, <3>2, <3>3
  <2> QED BY <2>1, <2>2
<1>6. PICK i : i = Slot(m) /\ i = SlotOf(w, t)
  BY <1>1, SlotFacts
<1>7. i \in Indices /\ i \in Range(queues[t])
  <2>1. PICK v \in Members(t) : i = queues[t][v]
    BY <1>6 DEF Range, Members
  <2> QED BY <1>1, <1>6, <2>1, ColumnFacts
<1>8. /\ lists \in [Indices -> Seq(ValueSet)]
      /\ \A j \in Indices : j # i => lists[j] = base[j]
      /\ DOMAIN lists[i] = 1 .. Len(base[i]) + 1 /\ DOMAIN base[i] = 1 .. Len(base[i]) /\ Len(base[i]) \in Nat
      /\ \A k \in DOMAIN base[i] : lists[i][k] = base[i][k]
      /\ lists[i][Len(base[i]) + 1] = m.value
  <2>1. Slot(m) \in Indices /\ lists = Fill(base, m) /\ base \in [Indices -> Seq(ValueSet)]
    BY <1>4, <1>5, <1>6, <1>7
  <2>2. /\ lists \in [Indices -> Seq(ValueSet)]
        /\ \A j \in Indices : j # Slot(m) => lists[j] = base[j]
        /\ Len(base[Slot(m)]) \in Nat
        /\ DOMAIN lists[Slot(m)] = 1 .. Len(base[Slot(m)]) + 1 /\ DOMAIN base[Slot(m)] = 1 .. Len(base[Slot(m)])
        /\ \A k \in DOMAIN base[Slot(m)] : lists[Slot(m)][k] = base[Slot(m)][k]
        /\ lists[Slot(m)][Len(base[Slot(m)]) + 1] = m.value
    BY <1>1, <2>1, FillFacts
  <2> QED BY <1>6, <2>2
<1>9. PICK n \in Nat : n = Len(base[i])
  BY <1>8
<1>10. m.value.from = w
  BY <1>1 DEF ErrorValue, Value
<1>11. ASSUME NEW j \in Indices, NEW k \in DOMAIN lists[j] PROVE BlamedValue(t, lists, j, k)
  <2>1. CASE j # i
    <3>1. lists[j] = base[j] /\ BlamedValue(t, base, j, k)
      BY <1>5, <1>8, <1>11, <2>1
    <3> QED BY <3>1 DEF BlamedValue
  <2>2. CASE j = i /\ k = n + 1
    <3>1. lists[i][k] = ErrorValue(w)
      BY <1>1, <1>8, <1>9, <2>2
    <3>2. \A l \in DOMAIN lists[i] : lists[i][l].from = w => l = k
      <4>1. \A l \in DOMAIN lists[i] : l \in DOMAIN base[i] \/ l = n + 1
        BY <1>8, <1>9
      <4> QED BY <1>5, <1>7, <1>8, <2>2, <4>1
    <3>3. lists[i][k].from = w
      BY <3>1 DEF ErrorValue, Value
    <3> QED BY <1>1, <1>6, <2>2, <3>1, <3>2, <3>3 DEF BlamedValue
  <2>3. CASE j = i /\ k # n + 1
    <3>1. k \in DOMAIN base[i] /\ lists[i][k] = base[i][k]
      BY <1>8, <1>9, <1>11, <2>3
    <3>2. BlamedValue(t, base, i, k) /\ base[i][k].from # w
      BY <1>5, <1>7, <3>1
    <3>3. \A l \in DOMAIN lists[i] : lists[i][l].from = base[i][k].from => l = k
      <4>1. \A l \in DOMAIN lists[i] : l \in DOMAIN base[i] \/ (l = n + 1 /\ lists[i][l].from = w)
        BY <1>8, <1>9, <1>10
      <4>2. \A l \in DOMAIN base[i] : base[i][l].from = base[i][k].from => l = k
        BY <3>2 DEF BlamedValue
      <4> QED BY <1>8, <3>2, <4>1, <4>2
    <3> QED BY <2>3, <3>1, <3>2, <3>3 DEF BlamedValue
  <2> QED BY <2>1, <2>2, <2>3
<1>12. \A j \in Indices : lists[j] # << >> => j \in Range(queues[t])
  BY <1>5, <1>7, <1>8
<1> QED BY <1>3, <1>8, <1>11, <1>12 DEF Blamed

\* When the list is full, every worker has reported, and once only.
LEMMA BlamedFull ==
    ASSUME Types, Pools, NEW t \in Tasks, NEW lists, Blamed(t, lists), Full(t, lists)
    PROVE  /\ \A v \in Members(t) : at[v] = t /\ step[v] \in {"error_sync", "exited"} /\ mqueue'[v] = << >>
           /\ \A i \in Indices : Rest(lists)[i] = << >>
<1> DEFINE f == [i \in Range(queues[t]) |-> lists[i][1].from]
<1>1. /\ lists \in [Indices -> Seq(ValueSet)]
      /\ \A i \in Indices : lists[i] # << >> => i \in Range(queues[t])
      /\ \A i \in Indices : \A k \in DOMAIN lists[i] : BlamedValue(t, lists, i, k)
  BY DEF Blamed
<1>2. \A i \in Range(queues[t]) : i \in Indices /\ lists[i] # << >>
  BY <1>1, FirstFacts
<1>3. \A i \in Range(queues[t]) : 1 \in DOMAIN lists[i] /\ BlamedValue(t, lists, i, 1)
  <2>1. ASSUME NEW i \in Range(queues[t]) PROVE 1 \in DOMAIN lists[i]
    <3>1. Len(lists[i]) \in Nat /\ Len(lists[i]) >= 1 /\ DOMAIN lists[i] = 1 .. Len(lists[i])
      BY <1>1, <1>2, RestFacts
    <3> QED BY <3>1
  <2> QED BY <1>1, <1>2, <2>1
<1>4. \A i \in Range(queues[t]) : f[i] \in Members(t) /\ SlotOf(f[i], t) = i
  BY <1>3 DEF BlamedValue
<1>5. \A v \in Members(t) : \E i \in Range(queues[t]) : f[i] = v
  <2>1. f \in [Range(queues[t]) -> Members(t)] /\ \A i, j \in Range(queues[t]) : f[i] = f[j] => i = j
    BY <1>4
  <2> HIDE DEF f
  <2> QED BY <2>1, EverySender
<1>6. \A v \in Members(t) : at[v] = t /\ step[v] \in {"error_sync", "exited"} /\ mqueue'[v] = << >>
  BY <1>3, <1>5 DEF BlamedValue
<1>7. ASSUME NEW i \in Indices PROVE Rest(lists)[i] = << >>
  <2>1. CASE lists[i] = << >>
    BY <1>1, <2>1, RestFacts
  <2>2. CASE lists[i] # << >>
    <3>1. i \in Range(queues[t])
      BY <1>1, <2>2
    <3>2. ASSUME NEW k \in DOMAIN lists[i] PROVE k = 1
      <4>1. PICK x : x = lists[i][k].from
        OBVIOUS
      <4>2. /\ x \in Members(t) /\ SlotOf(x, t) = i /\ \A l \in DOMAIN lists[i] : lists[i][l].from = x => l = k
        BY <1>1, <4>1 DEF BlamedValue
      <4>3. PICK j \in Range(queues[t]) : f[j] = x
        BY <1>5, <4>2
      <4>4. j = i
        BY <1>4, <4>2, <4>3
      <4> QED BY <1>3, <3>1, <4>2, <4>3, <4>4
    <3>3. /\ Len(lists[i]) \in Nat /\ Len(lists[i]) >= 1 /\ DOMAIN lists[i] = 1 .. Len(lists[i])
          /\ Rest(lists)[i] = << >> <=> Len(lists[i]) = 1
      BY <1>1, <2>2, RestFacts
    <3>4. Len(lists[i]) \in DOMAIN lists[i]
      BY <3>3
    <3> QED BY <3>2, <3>3, <3>4
  <2> QED BY <2>1, <2>2
<1> QED BY <1>6, <1>7

\* A worker that waits for the settling of an error has read what came before it.
LEMMA NothingElse ==
    ASSUME Inv, manager = "running", NEW t \in Tasks, Normal(t) \/ Spread(t), NEW v \in Members(t),
           Alive(v), at[v] = t, step[v] = "error_sync"
    PROVE  OnlyErrors(v)
<1>1. CASE Normal(t)
  <2>1. inbox[v] = << >>
    BY <1>1, WorkerModes DEF NormalWorker, NormalStep
  <2> QED BY <2>1 DEF OnlyErrors
<1>2. CASE Spread(t)
  BY <1>2, WorkerModes DEF SpreadWorker, Failed
<1> QED BY <1>1, <1>2

\* The workers of the task are told, if the error is the sender's own.
LEMMA ToldWorker ==
    ASSUME Inv, NEW w \in Worker, NEW m, Received(w, m), m.msg = "error", NEW t, t = m.task,
           Normal(t) \/ Spread(t), NEW v \in Members(t), Written(v, Told(m)), state'[t] = "error",
           UNCHANGED << step, at >>
    PROVE  SpreadWorker(t, v)'
<1>1. /\ t \in Tasks /\ w \in Members(t) /\ at[w] = t /\ manager = "running" /\ Types
      /\ m = mqueue[w][1] /\ 1 \in DOMAIN mqueue[w]
      /\ step[w] \in {"error_sync", "exited"} /\ mqueue'[w] = << >> /\ mqueue[w] # << >>
      /\ \A x \in Worker : x # w => mqueue'[x] = mqueue[x]
  BY HeadFacts DEF Inv
<1>2. v \in Worker /\ Alive(v)' = Alive(v)
  BY <1>1, MemberFacts DEF Inv, Alive
<1>3. /\ \A k \in DOMAIN inbox[v] : inbox'[v][k] = inbox[v][k] /\ k \in DOMAIN inbox'[v]
      /\ \A k \in DOMAIN inbox'[v] \ DOMAIN inbox[v] : inbox'[v][k].msg = "error"
      /\ Told(m) # << >> => \E k \in DOMAIN inbox'[v] : inbox'[v][k].msg = "error"
  <2>1. /\ DOMAIN inbox'[v] = 1 .. Len(inbox[v]) + Len(Told(m)) /\ Len(Told(m)) \in Nat
        /\ \A k \in DOMAIN inbox[v] : inbox'[v][k] = inbox[v][k]
        /\ \A k \in DOMAIN inbox'[v] \ DOMAIN inbox[v] :
              k - Len(inbox[v]) \in DOMAIN Told(m) /\ inbox'[v][k] = Told(m)[k - Len(inbox[v])]
    <3>1. PICK msgs : msgs = Told(m) /\ Written(v, msgs)
      OBVIOUS
    <3>2. /\ DOMAIN inbox'[v] = 1 .. Len(inbox[v]) + Len(msgs) /\ Len(msgs) \in Nat
          /\ \A k \in DOMAIN inbox[v] : inbox'[v][k] = inbox[v][k]
          /\ \A k \in DOMAIN inbox'[v] \ DOMAIN inbox[v] :
                k - Len(inbox[v]) \in DOMAIN msgs /\ inbox'[v][k] = msgs[k - Len(inbox[v])]
      <4>1. Types /\ v \in Worker /\ Written(v, msgs)
        BY <1>1, <1>2, <3>1
      <4>2. DOMAIN inbox'[v] = 1 .. Len(inbox[v]) + Len(msgs) /\ Len(msgs) \in Nat
        BY <4>1, WrittenQueue
      <4>3. \A k \in DOMAIN inbox[v] : inbox'[v][k] = inbox[v][k]
        BY <4>1, WrittenQueue
      <4>4. \A k \in DOMAIN inbox'[v] \ DOMAIN inbox[v] :
               k - Len(inbox[v]) \in DOMAIN msgs /\ inbox'[v][k] = msgs[k - Len(inbox[v])]
        BY <4>1, WrittenQueue
      <4> QED BY <4>2, <4>3, <4>4
    <3> QED BY <3>1, <3>2
  <2>2. DOMAIN inbox[v] = 1 .. Len(inbox[v]) /\ Len(inbox[v]) \in Nat
    BY <1>1, <1>2, QueueFacts
  <2>3. \A k \in DOMAIN inbox'[v] \ DOMAIN inbox[v] : inbox'[v][k].msg = "error"
    BY <2>1, ToldFacts
  <2>4. ASSUME Told(m) # << >> PROVE \E k \in DOMAIN inbox'[v] \ DOMAIN inbox[v] : TRUE
    <3>1. Len(Told(m)) # 0
      BY <2>4, ToldFacts, EmptySeq
    <3>2. Len(inbox[v]) + 1 \in DOMAIN inbox'[v] \ DOMAIN inbox[v]
      BY <2>1, <2>2, <3>1
    <3> QED BY <3>2
  <2>5. \A k \in DOMAIN inbox[v] : k \in DOMAIN inbox'[v]
    BY <2>1, <2>2
  <2> QED BY <2>1, <2>3, <2>4, <2>5
<1>4. OnlyErrors(v) => OnlyErrors(v)'
  BY <1>3 DEF OnlyErrors
<1>5. \A j \in DOMAIN << >> : FALSE
  OBVIOUS
<1>6. v = w => Calm(v)' /\ SpreadReports(t, v)'
  BY <1>1, <1>5 DEF Calm, SpreadReports
<1>7. ASSUME v # w PROVE mqueue'[v] = mqueue[v] /\ Calm(v)' = Calm(v) /\ SpreadReports(t, v)'
  <2>1. mqueue'[v] = mqueue[v]
    BY <1>1, <1>2, <1>7
  <2>2. at[v] = t => \A j \in DOMAIN mqueue[v] : mqueue[v][j].msg # "error" => ~ mqueue[v][j].flag
    <3>1. CASE Normal(t)
      BY <1>1, <3>1, WorkerModes DEF NormalWorker, NormalReports
    <3>2. CASE Spread(t)
      BY <1>1, <3>2, WorkerModes DEF SpreadWorker, SpreadReports
    <3> QED BY <3>1, <3>2
  <2> QED BY <2>1, <2>2 DEF Calm, SpreadReports
<1>8. Calm(v) => Calm(v)'
  BY <1>6, <1>7
<1>9. ASSUME Alive(v), at[v] = t, step[v] = "error_sync" PROVE Failed(t, v)'
  <2>1. OnlyErrors(v)'
    BY <1>1, <1>4, <1>9, NothingElse
  <2>2. mqueue'[v] # << >> => mqueue'[v][Len(mqueue'[v])].msg = "error"
    <3>1. CASE v = w
      BY <1>1, <3>1
    <3>2. CASE v # w /\ Spread(t)
      <4>1. SpreadWorker(t, v)
        BY <1>1, <3>2, WorkerModes
      <4>2. Failed(t, v)
        BY <1>9, <4>1 DEF SpreadWorker
      <4> QED BY <1>7, <3>2, <4>2 DEF Failed
    <3>3. CASE v # w /\ Normal(t)
      <4>1. ~ Calm(v)
        BY <1>1, <1>9, <3>3, WorkerModes DEF NormalWorker, NormalStep
      <4>2. PICK j \in DOMAIN mqueue[v] : mqueue[v][j].msg = "error"
        BY <4>1 DEF Calm
      <4>3. j = Len(mqueue[v])
        BY <1>1, <1>2, <4>2 DEF Inv, Running, Reports, Report
      <4> QED BY <1>7, <3>3, <4>2, <4>3
    <3> QED BY <3>1, <3>2, <3>3, <1>1
  <2> QED BY <1>9, <2>1, <2>2 DEF Failed
<1>10. CASE Spread(t)
  <2>1. Warned(v) => Warned(v)'
    BY <1>3, <1>8 DEF Warned
  <2>2. Alive(v) => /\ at[v] # t => Warned(v)
                    /\ at[v] = t => \/ step[v] = "error_sync"
                                    \/ step[v] \in {"go", "run", "collect", "finished_sync"} /\ Warned(v)
    BY <1>1, <1>10, WorkerModes DEF SpreadWorker, Failed
  <2> QED BY <1>2, <1>6, <1>7, <1>9, <2>1, <2>2 DEF SpreadWorker
<1>11. CASE Normal(t)
  <2>1. m.flag /\ Told(m) # << >>
    <3>1. m.flag
      BY <1>1, <1>11, WorkerModes DEF NormalWorker, NormalReports
    <3>2. Told(m) = << Plain("error") >>
      BY <3>1 DEF Told
    <3> QED BY <3>1, <3>2
  <2>2. NormalWorker(t, v)
    BY <1>1, <1>11, WorkerModes
  <2>3. ASSUME Alive(v), at[v] # t PROVE Warned(v)'
    <3>1. ~ Over(t)
      BY <1>1, <1>11, Modes
    <3>2. Ahead(v)
      BY <1>1, <2>3, <3>1, HereNow DEF Inv
    <3>3. mqueue[v] = << >>
      BY <1>1, <1>2, <2>3, <3>2, NothingSentAhead
    <3>4. Calm(v)
      BY <1>5, <3>3 DEF Calm
    <3> QED BY <1>3, <1>8, <2>1, <3>4 DEF Warned
  <2>4. ASSUME Alive(v), at[v] = t, step[v] # "error_sync"
        PROVE  step[v] \in {"go", "run", "collect", "finished_sync"} /\ Warned(v)'
    <3>1. step[v] \in {"go", "run", "collect", "finished_sync"}
      BY <2>2, <2>4 DEF NormalWorker, NormalStep
    <3>2. Calm(v)
      BY <1>1, <1>2, <3>1, NoErrorSent
    <3> QED BY <1>3, <1>8, <2>1, <3>1, <3>2 DEF Warned
  <2> QED BY <1>2, <1>6, <1>7, <1>9, <2>3, <2>4 DEF SpreadWorker
<1> QED BY <1>10, <1>11

LEMMA HandleErrorInv ==
    ASSUME Inv, NEW w \in Worker, NEW m, Received(w, m), Slot(m) \in Range(queues[m.task]),
           NEW lists, lists = Fill(Kept(m.task), m), HandleError(m, lists), Collect(m, lists),
           UNCHANGED << procs, workerVars, raised >>
    PROVE  Inv'
<1>1. PICK t : t = m.task
  OBVIOUS
<1>2. /\ t \in Tasks /\ w \in Members(t) /\ Types /\ manager = "running" /\ m.msg = "error" /\ m.msg # "crash"
      /\ mqueue' \in [Worker -> Seq(Message)] /\ Live(t)
  BY <1>1, HeadFacts DEF Inv, HandleError
<1>3. PICK answer : answer = IF Full(t, lists) THEN << ToWorker("error_gather", 0, FirstOf(t, lists)) >> ELSE << >>
  OBVIOUS
<1>4. PICK msgs : msgs = Told(m) \o answer
  OBVIOUS
<1>5. /\ state' = [state EXCEPT ![t] = "error"] /\ inbox' = ToTask(t, msgs)
      /\ UNCHANGED << manager, procs, queues, owner, step, at, index, call, raised >>
  BY <1>1, <1>3, <1>4 DEF HandleError, workerVars
<1>6. Blamed(t, lists) /\ (Normal(t) \/ Spread(t)) /\ (state[t] = "error" => rounds[t] = 0)
  BY <1>1, <1>2, ErrorHead
<1>7. /\ gather' = [gather EXCEPT ![t] = IF Full(t, lists) THEN Rest(lists) ELSE lists]
      /\ rounds' = [rounds EXCEPT ![t] = IF Full(t, lists) THEN 1 ELSE 0]
  <2>1. PICK before : before = IF m.msg = "error" /\ state[t] # "error" THEN 0 ELSE rounds[t]
    OBVIOUS
  <2>2. before = 0
    BY <1>2, <1>6, <2>1
  <2>3. /\ gather' = [gather EXCEPT ![t] = IF Full(t, lists) THEN Rest(lists) ELSE lists]
        /\ rounds' = [rounds EXCEPT ![t] = IF Full(t, lists) THEN before + 1 ELSE before]
    BY <1>1, <2>1 DEF Collect
  <2>4. before + 1 = 1
    BY <2>2
  <2> QED BY <2>2, <2>3, <2>4
<1>8. /\ gather'[t] = IF Full(t, lists) THEN Rest(lists) ELSE lists
      /\ rounds'[t] = IF Full(t, lists) THEN 1 ELSE 0
      /\ \A u \in Tasks : u # t => gather'[u] = gather[u] /\ rounds'[u] = rounds[u]
      /\ state'[t] = "error"
  BY <1>2, <1>5, <1>7 DEF Types, TypeOK
<1>9. /\ lists \in [Indices -> Seq(ValueSet)] /\ \A i \in Indices : lists[i] # << >> => i \in Range(queues[t])
      /\ \A i \in Indices : \A k \in DOMAIN lists[i] : BlamedValue(t, lists, i, k)
  BY <1>6 DEF Blamed
<1>10. answer \in Seq(Answer) /\ msgs \in Seq(Answer) /\ Told(m) \in Seq(Answer)
  <2>1. Told(m) \in Seq(Answer)
    BY ToldFacts
  <2>2. answer \in Seq(Answer)
    <3>1. CASE Full(t, lists)
      <4>1. FirstOf(t, lists) \in ListSet
        BY <1>2, <1>9, <3>1, FirstFacts
      <4>2. ToWorker("error_gather", 0, FirstOf(t, lists)) \in Answer
        BY <4>1 DEF ToWorker, Answer
      <4> QED BY <1>3, <3>1, <4>2
    <3>2. CASE ~ Full(t, lists)
      BY <1>3, <3>2, PlainTypes
    <3> QED BY <3>1, <3>2
  <2>3. msgs \in Seq(Answer)
    BY <1>4, <2>1, <2>2, ConcatProperties
  <2> QED BY <2>1, <2>2, <2>3
<1>11. /\ \A v \in Worker : v \in Members(t) => Written(v, msgs)
       /\ \A v \in Worker : v \notin Members(t) => inbox'[v] = inbox[v]
       /\ inbox' \in [Worker -> Seq(Answer)]
  BY <1>2, <1>5, <1>10, ToTaskFacts
<1>12. Types'
  <2>1. /\ owner' \in [Sources -> Tasks \cup {None}] /\ manager' \in {"running", "ended"}
        /\ state' \in [Tasks -> {"unstart", "started", "finished", "error", "no_source_data"}]
        /\ rounds \in [Tasks -> Nat]
        /\ gather \in [Tasks -> [Indices -> Seq(ValueSet)]]
    BY <1>2, <1>5 DEF Types, TypeOK, ValueSet
  <2>2. gather' \in [Tasks -> [Indices -> Seq(ValueSet)]]
    BY <1>7, <1>9, <2>1, RestFacts
  <2>3. rounds' \in [Tasks -> Nat]
    BY <1>7, <2>1
  <2> QED BY <1>2, <1>5, <1>11, <2>1, <2>2, <2>3, ManagerTypes
<1>13. ~ Over(t)' /\ ~ Normal(t)' /\ rounds'[t] <= 2 /\ (Spread(t)' <=> ~ Full(t, lists)) /\ (Settled(t)' <=> Full(t, lists))
  <2>1. rounds'[t] \in {0, 1} /\ (rounds'[t] = 1 <=> Full(t, lists))
    BY <1>8
  <2> QED BY <1>8, <2>1 DEF Over, Normal, Spread, Settled, Doomed
<1>14. \A i \in Indices : gather'[t][i] # << >> => i \in Range(queues[t])
  <2>1. \A i \in Indices : Rest(lists)[i] # << >> => lists[i] # << >>
    BY <1>9, RestFacts
  <2> QED BY <1>8, <1>9, <2>1
<1>15. \A v \in Members(t) : v \in Worker
  BY <1>2, MemberFacts DEF Inv
<1>16. CASE ~ Full(t, lists)
  <2>1. msgs = Told(m)
    BY <1>3, <1>4, <1>10, <1>16, ConcatEmptySeq
  <2>2. \A v \in Members(t) : SpreadWorker(t, v)'
    BY <1>1, <1>2, <1>5, <1>6, <1>8, <1>11, <1>15, <2>1, ToldWorker
  <2>3. ASSUME NEW i \in Indices, NEW k \in DOMAIN gather'[t][i] PROVE SpreadValue(t, i, k)'
    <3>1. gather'[t] = lists /\ BlamedValue(t, lists, i, k)
      BY <1>8, <1>9, <1>16, <2>3
    <3>2. \A x : SlotOf(x, t)' = SlotOf(x, t) /\ Members(t)' = Members(t)
      BY <1>5 DEF SlotOf, Members
    <3> QED BY <1>5, <1>8, <3>1, <3>2 DEF BlamedValue, SpreadValue
  <2>4. AlikeLists(gather'[t])
    <3>1. \A i \in Indices : \A k \in DOMAIN gather'[t][i] : gather'[t][i][k].kind = "error" /\ gather'[t][i][k].n = 0
      <4>1. \A x : ErrorValue(x).kind = "error" /\ ErrorValue(x).n = 0
        BY DEF ErrorValue, Value
      <4>2. gather'[t] = lists /\ \A i \in Indices : \A k \in DOMAIN lists[i] : \E x : lists[i][k] = ErrorValue(x)
        BY <1>8, <1>9, <1>16 DEF BlamedValue
      <4> QED BY <4>1, <4>2
    <3> QED BY <3>1 DEF AlikeLists
  <2>5. ASSUME NEW v \in Members(t), Alive(v)
        PROVE  /\ Len(inbox[v]) <= Len(inbox'[v])
               /\ \A k \in DOMAIN inbox[v] : inbox'[v][k] = inbox[v][k]
               /\ \A k \in DOMAIN inbox'[v] \ DOMAIN inbox[v] : inbox'[v][k].msg # "finished" /\ Letter(v, k)'
    <3>1. v \in Worker /\ Written(v, msgs)
      BY <1>11, <1>15
    <3>2. /\ Len(inbox[v]) <= Len(inbox'[v])
          /\ \A k \in DOMAIN inbox[v] : inbox'[v][k] = inbox[v][k]
          /\ \A k \in DOMAIN inbox'[v] \ DOMAIN inbox[v] :
                k - Len(inbox[v]) \in DOMAIN msgs /\ inbox'[v][k] = msgs[k - Len(inbox[v])]
      BY <1>2, <3>1, WrittenQueue
    <3>3. \A k \in DOMAIN inbox'[v] \ DOMAIN inbox[v] : inbox'[v][k].msg = "error"
      BY <2>1, <3>2, ToldFacts
    <3> QED BY <3>2, <3>3, ErrorLetter
  <2>6. state' = state \/ state' = [state EXCEPT ![t] = "error"]
    BY <1>5
  <2> QED BY <1>1, <1>2, <1>5, <1>8, <1>11, <1>12, <1>13, <1>14, <1>16, <2>2, <2>3, <2>4, <2>5, <2>6, HandleStepInv

<1>17. CASE Full(t, lists)
  <2>1. /\ \A v \in Members(t) : at[v] = t /\ step[v] \in {"error_sync", "exited"} /\ mqueue'[v] = << >>
        /\ \A i \in Indices : Rest(lists)[i] = << >>
    BY <1>2, <1>6, <1>17, BlamedFull DEF Inv
  <2>2. PICK n \in Nat : n = Len(msgs)
    BY <1>10, LenProperties
  <2>3. /\ n >= 1 /\ msgs[n].msg = "error_gather"
        /\ \A k \in 1 .. n : k # n => msgs[k].msg = "error"
    <3>1. Len(answer) = 1 /\ answer[1].msg = "error_gather"
      <4>1. answer = << ToWorker("error_gather", 0, FirstOf(t, lists)) >>
        BY <1>3, <1>17
      <4> QED BY <4>1 DEF ToWorker
    <3>2. PICK told : told = Told(m)
      OBVIOUS
    <3>3. Len(told) \in Nat /\ DOMAIN told = 1 .. Len(told) /\ \A k \in DOMAIN told : told[k].msg = "error"
      BY <1>10, <3>2, LenProperties, ToldFacts
    <3>4. /\ Len(told \o answer) = Len(told) + Len(answer)
          /\ \A i \in 1 .. Len(told) + Len(answer) :
                (told \o answer)[i] = IF i <= Len(told) THEN told[i] ELSE answer[i - Len(told)]
      BY <1>10, <3>2, ConcatProperties
    <3>5. PICK l \in Nat : l = Len(told) /\ n = l + 1
      BY <1>4, <2>2, <3>1, <3>2, <3>3, <3>4
    <3>6. \A i \in 1 .. n : msgs[i] = IF i <= l THEN told[i] ELSE answer[i - l]
      BY <1>4, <3>1, <3>2, <3>4, <3>5
    <3>7. n \in 1 .. n /\ ~ (n <= l) /\ n - l = 1
      BY <3>5
    <3>8. msgs[n].msg = "error_gather"
      BY <3>1, <3>6, <3>7
    <3>9. ASSUME NEW k \in 1 .. n, k # n PROVE msgs[k].msg = "error"
      <4>1. k <= l /\ k \in DOMAIN told
        BY <3>3, <3>5, <3>9
      <4> QED BY <3>3, <3>6, <4>1
    <3> QED BY <3>7, <3>8, <3>9
  <2>4. ASSUME NEW v \in Members(t)
        PROVE  /\ inbox'[v] \in Seq(Answer) /\ Len(inbox'[v]) = Len(inbox[v]) + n /\ Len(inbox[v]) \in Nat
               /\ DOMAIN inbox'[v] = 1 .. Len(inbox[v]) + n /\ DOMAIN inbox[v] = 1 .. Len(inbox[v])
               /\ \A k \in DOMAIN inbox[v] : inbox'[v][k] = inbox[v][k]
               /\ \A k \in DOMAIN inbox'[v] \ DOMAIN inbox[v] :
                     /\ k = Len(inbox[v]) + n => inbox'[v][k].msg = "error_gather"
                     /\ k # Len(inbox[v]) + n => inbox'[v][k].msg = "error"
    <3>1. v \in Worker /\ Written(v, msgs)
      BY <1>11, <1>15
    <3>2. Len(inbox[v]) \in Nat /\ DOMAIN inbox[v] = 1 .. Len(inbox[v])
      BY <1>2, <3>1, QueueFacts
    <3>3. /\ inbox'[v] \in Seq(Answer) /\ Len(inbox'[v]) = Len(inbox[v]) + Len(msgs)
          /\ DOMAIN inbox'[v] = 1 .. Len(inbox[v]) + Len(msgs)
          /\ \A k \in DOMAIN inbox[v] : inbox'[v][k] = inbox[v][k]
          /\ \A k \in DOMAIN inbox'[v] \ DOMAIN inbox[v] : inbox'[v][k] = msgs[k - Len(inbox[v])]
      BY <1>2, <3>1, WrittenQueue
    <3>4. PICK b \in Nat : b = Len(inbox[v])
      BY <3>2
    <3>5. ASSUME NEW k \in DOMAIN inbox'[v] \ DOMAIN inbox[v]
          PROVE  /\ k = b + n => inbox'[v][k].msg = "error_gather"
                 /\ k # b + n => inbox'[v][k].msg = "error"
      <4>1. k \in 1 .. b + n /\ ~ (k \in 1 .. b) /\ inbox'[v][k] = msgs[k - b]
        BY <2>2, <3>2, <3>3, <3>4
      <4>2. k - b \in 1 .. n /\ (k = b + n <=> k - b = n)
        BY <4>1
      <4> QED BY <2>3, <4>1, <4>2
    <3> QED BY <2>2, <3>2, <3>3, <3>4, <3>5
  <2>5. ASSUME NEW v \in Members(t) PROVE SettledWorker(t, v)'
    <3>1. \A j \in DOMAIN << >> : FALSE
      OBVIOUS
    <3>2. PICK b \in Nat : b = Len(inbox[v])
      BY <2>4
    <3>3. Len(inbox'[v]) = b + n /\ b + n \in DOMAIN inbox'[v] \ DOMAIN inbox[v]
      BY <2>2, <2>3, <2>4, <3>2
    <3>4. inbox'[v][Len(inbox'[v])].msg = "error_gather"
      BY <2>4, <3>2, <3>3
    <3>5. inbox'[v] # << >>
      BY <3>1, <3>3
    <3>6. Alive(v)' = Alive(v) /\ (Alive(v) => step[v] = "error_sync")
      BY <1>5, <2>1 DEF Alive
    <3>7. mqueue'[v] = << >> /\ at'[v] = t
      BY <1>5, <2>1
    <3>8. \A j \in DOMAIN mqueue'[v] : FALSE
      BY <3>1, <3>7
    <3> QED BY <1>5, <3>4, <3>5, <3>6, <3>7, <3>8 DEF SettledWorker
  <2>6. ASSUME NEW v \in Members(t), Alive(v)
        PROVE  /\ Len(inbox[v]) <= Len(inbox'[v])
               /\ \A k \in DOMAIN inbox[v] : inbox'[v][k] = inbox[v][k]
               /\ \A k \in DOMAIN inbox'[v] \ DOMAIN inbox[v] : inbox'[v][k].msg # "finished" /\ Letter(v, k)'
    <3>1. PICK b \in Nat : b = Len(inbox[v])
      BY <2>4
    <3>2. step[v] = "error_sync" /\ at[v] = t /\ OnlyErrors(v)
      <4>1. step[v] = "error_sync" /\ at[v] = t
        BY <2>1, <2>6 DEF Alive
      <4> QED BY <1>2, <1>6, <2>6, <4>1, NothingElse
    <3>3. ASSUME NEW k \in DOMAIN inbox'[v] \ DOMAIN inbox[v]
          PROVE  inbox'[v][k].msg # "finished" /\ Letter(v, k)'
      <4>1. CASE k # b + n
        BY <2>4, <3>1, <4>1, ErrorLetter
      <4>2. CASE k = b + n
        <5>1. inbox'[v][k].msg = "error_gather"
          BY <2>4, <3>1, <4>2
        <5>2. ASSUME NEW j \in 1 .. k - 1 PROVE inbox'[v][j].msg = "error"
          <6>1. j \in DOMAIN inbox'[v] /\ j # b + n
            BY <2>2, <2>4, <3>1, <4>2
          <6>2. CASE j \in DOMAIN inbox[v]
            BY <2>4, <3>2, <6>2 DEF OnlyErrors
          <6>3. CASE j \notin DOMAIN inbox[v]
            BY <2>4, <3>1, <6>1, <6>3
          <6> QED BY <6>2, <6>3
        <5>3. step'[v] = "error_sync" /\ at'[v] = t
          BY <1>5, <3>2
        <5>4. state'[at'[v]] = "error"
          BY <1>8, <5>3
        <5> QED BY <5>1, <5>2, <5>3, <5>4 DEF Letter
      <4> QED BY <4>1, <4>2
    <3>4. Len(inbox[v]) <= Len(inbox'[v])
      BY <2>2, <2>4, <3>1
    <3> QED BY <2>4, <3>3, <3>4
  <2>7. \A i \in Indices : DOMAIN gather'[t][i] = {}
    <3>1. DOMAIN << >> = {}
      OBVIOUS
    <3> QED BY <1>8, <1>17, <2>1, <3>1
  <2>8. AlikeLists(gather'[t])
    BY <2>7 DEF AlikeLists
  <2>9. state' = state \/ state' = [state EXCEPT ![t] = "error"]
    BY <1>5
  <2> QED BY <1>1, <1>2, <1>5, <1>8, <1>11, <1>12, <1>13, <1>14, <1>17, <2>5, <2>6, <2>7, <2>8, <2>9, HandleStepInv
<1> QED BY <1>16, <1>17

-----------------------------------------------------------------------------
(* The end of a task. *)

\* The list is full, its first values are the ends of all workers of the task,
\* and the workers that live wait for the manager's answer, with nothing else
\* under way from or to any of them.
Complete(t, lists) ==
    /\ t \in Tasks /\ Live(t) /\ lists \in [Indices -> Seq(ValueSet)]
    /\ \A i \in Indices : lists[i] # << >> => i \in Range(queues[t])
    /\ \A i \in Range(queues[t]) : \E v \in Members(t) : lists[i][1] = EndValue(v, t)
    /\ \A v \in Members(t) : \E i \in Range(queues[t]) : lists[i][1] = EndValue(v, t)
    /\ \A v \in Members(t) : /\ at[v] = t /\ mqueue'[v] = << >>
                             /\ Alive(v) => step[v] \in {"finished_sync", "after_error"} /\ inbox[v] = << >>
    /\ AlikeLists(Rest(lists))
    /\ state[t] = "error" => rounds[t] = 1
    /\ state[t] # "error" => Whole(t) /\ \A v \in Members(t) : ~ Unfinished(v, t)

LEMMA NormalComplete ==
    ASSUME Inv, NEW w \in Worker, NEW m, Received(w, m), NEW t, t = m.task, m.msg = "finished", Normal(t),
           NEW lists, lists = Fill(gather[t], m), Full(t, lists)
    PROVE  Complete(t, lists)
<1>1. /\ t \in Tasks /\ w \in Members(t) /\ at[w] = t /\ manager = "running" /\ Types /\ Live(t)
      /\ m = mqueue[w][1] /\ 1 \in DOMAIN mqueue[w] /\ mqueue[w] # << >>
      /\ mqueue'[w] = << >> <=> Len(mqueue[w]) = 1
      /\ \A v \in Worker : v # w => mqueue'[v] = mqueue[v]
  BY HeadFacts DEF Inv
<1>2. Grown(w, t, m, lists) /\ Taken(w, t, lists)
  BY NormalHead, NormalTaken
<1>3. lists \in [Indices -> Seq(ValueSet)]
  BY <1>2 DEF Grown
<1>4. PICK r \in Nat : r = rounds[t]
  BY <1>1, ColumnFacts
<1>5. Heard(t, w) = r /\ r + 1 = Last(t)
  <2>1. Heard(t, w) = r
    <3>1. Column(w, t) = << >> /\ Len(<< >>) = 0
      BY <1>2, EmptySeq DEF Taken
    <3> QED BY <1>4, <3>1 DEF Heard
  <2>2. r + 1 <= Last(t) /\ EventMsg(t, r + 1) = "finished" /\ Last(t) \in Nat
    BY <1>1, <1>2, <2>1, TaskLen DEF Grown
  <2>3. ~ (r + 1 < Last(t))
    <3>1. ASSUME r + 1 < Last(t) PROVE FALSE
      <4>1. r + 1 \in 1 .. Len(Calls[t])
        BY <1>1, <3>1, TaskLen
      <4> QED BY <1>1, <2>2, <3>1, <4>1, TaskLen DEF EventMsg
    <3> QED BY <3>1
  <2> QED BY <2>1, <2>2, <2>3
<1>6. ASSUME NEW v \in Members(t)
      PROVE  /\ queues[t][v] \in Indices /\ queues[t][v] \in Range(queues[t]) /\ v \in Worker /\ at[v] = t
             /\ lists[queues[t][v]][1] = EndValue(v, t) /\ Rest(lists)[queues[t][v]] = << >>
             /\ v # w => Heard(t, v) = r + 1 /\ Column(v, t) = lists[queues[t][v]] /\ 1 \in DOMAIN Column(v, t)
             /\ NormalWorker(t, v)
  <2>1. PICK i : i = queues[t][v]
    OBVIOUS
  <2>2. /\ i \in Indices /\ at[v] = t /\ lists[i] # << >> /\ (v # w => lists[i] = Column(v, t))
        /\ \A k \in DOMAIN lists[i] : lists[i][k] = Event(v, t, rounds[t] + k)
        /\ v = w => Len(lists[i]) = 1
    BY <1>2, <2>1 DEF Taken
  <2>3. /\ Len(lists[i]) \in Nat /\ Len(lists[i]) >= 1 /\ DOMAIN lists[i] = 1 .. Len(lists[i])
        /\ Rest(lists)[i] = << >> <=> Len(lists[i]) = 1
    BY <1>3, <2>2, RestFacts
  <2>4. lists[i][1] = EndValue(v, t)
    <3>1. lists[i][1] = Event(v, t, r + 1)
      BY <1>4, <2>2, <2>3
    <3>2. ~ (r + 1 < Last(t))
      BY <1>5
    <3> QED BY <3>1, <3>2 DEF Event
  <2>5. NormalWorker(t, v)
    BY <1>1, WorkerModes
  <2>6. v # w => Heard(t, v) = r + 1 /\ Len(lists[i]) = 1
    <3>1. PICK n \in Nat : n = Len(lists[i])
      BY <2>3
    <3>2. v # w => Heard(t, v) = r + n
      BY <1>4, <2>2, <3>1 DEF Heard
    <3>3. Heard(t, v) <= r + 1
      BY <1>5, <2>5 DEF NormalWorker, NormalColumn
    <3>4. PICK h \in Nat : h = Heard(t, v)
      BY <1>1, ColumnFacts
    <3>5. n >= 1 /\ h <= r + 1 /\ (v # w => h = r + n)
      BY <2>3, <3>1, <3>2, <3>3, <3>4
    <3>6. h = r + n /\ n >= 1 /\ h <= r + 1 => h = r + 1 /\ n = 1
      OBVIOUS
    <3> QED BY <3>1, <3>4, <3>5, <3>6
  <2>7. v \in Worker /\ i \in Range(queues[t])
    BY <1>1, <2>1, MemberFacts DEF Inv
  <2>8. Rest(lists)[i] = << >>
    BY <2>2, <2>3, <2>6
  <2>9. v # w => 1 \in DOMAIN Column(v, t)
    BY <2>2, <2>3
  <2> QED BY <2>1, <2>2, <2>4, <2>5, <2>6, <2>7, <2>8, <2>9
<1>7. ASSUME NEW v \in Members(t)
      PROVE  mqueue'[v] = << >> /\ Len(mqueue[v]) = (IF v = w THEN 1 ELSE 0) /\ Calm(v)
  <2>1. PICK n \in Nat : n = Len(mqueue[v]) /\ DOMAIN mqueue[v] = 1 .. n
    BY <1>1, <1>6, QueueFacts
  <2>2. \A j \in 1 .. n : Heard(t, v) + j <= r + 1
    <3>1. NormalReports(t, v) /\ at[v] = t
      BY <1>6 DEF NormalWorker
    <3> QED BY <1>5, <2>1, <3>1 DEF NormalReports
  <2>3. CASE v = w
    <3>1. n >= 1
      BY <1>1, <2>1, <2>3
    <3>2. n = 1
      <4>1. ASSUME n > 1 PROVE FALSE
        <5>1. 2 \in 1 .. n
          BY <4>1
        <5> QED BY <1>5, <2>2, <2>3, <5>1
      <4> QED BY <3>1, <4>1
    <3>3. \A j \in DOMAIN mqueue[v] : j = 1
      BY <2>1, <3>2
    <3> QED BY <1>1, <2>1, <2>3, <3>2, <3>3 DEF Calm
  <2>4. CASE v # w
    <3>1. n = 0
      <4>1. ASSUME n >= 1 PROVE FALSE
        <5>1. 1 \in 1 .. n /\ Heard(t, v) = r + 1
          BY <1>6, <2>4, <4>1
        <5> QED BY <2>2, <5>1
      <4> QED BY <4>1
    <3>2. mqueue[v] = << >>
      <4>1. v \in Worker
        BY <1>6
      <4>2. mqueue[v] # << >> => Len(mqueue[v]) >= 1
        BY <1>1, <4>1, QueueFacts
      <4> QED BY <2>1, <3>1, <4>2
    <3>3. \A j \in DOMAIN mqueue[v] : FALSE
      BY <2>1, <3>1
    <3> QED BY <1>1, <1>6, <2>1, <2>4, <3>1, <3>2, <3>3 DEF Calm
  <2> QED BY <2>3, <2>4
<1>8. ASSUME NEW v \in Members(t), Alive(v)
      PROVE  step[v] = "finished_sync" /\ inbox[v] = << >>
  <2>1. NormalStep(t, v) /\ inbox[v] = << >> /\ step[v] \in {"run", "collect", "finished_sync", "error_sync"}
    <3>1. /\ NormalStep(t, v) /\ inbox[v] = << >> /\ at[v] = t
          /\ \/ /\ step[v] = "collect" /\ call[v] = rounds[t] + 1 /\ Blocks(v, t, rounds[t] + 1)
             \/ /\ rounds[t] + 1 \in 1 .. Len(Calls[t]) => ~ Blocks(v, t, rounds[t] + 1)
                /\ step[v] \in {"run", "collect", "finished_sync", "error_sync"}
                /\ step[v] = "collect" => rounds[t] + 1 < call[v]
      BY <1>8, TakenWaits
    <3> QED BY <3>1
  <2>2. Heard(t, v) + Len(mqueue[v]) = Last(t) /\ Calm(v)
    <3>1. CASE v = w
      BY <1>5, <1>7, <3>1
    <3>2. CASE v # w
      BY <1>5, <1>6, <1>7, <3>2
    <3> QED BY <3>1, <3>2
  <2>3. step[v] \in {"run", "collect"} => call[v] = Last(t)
    BY <2>1, <2>2 DEF NormalStep
  <2>4. step[v] # "error_sync"
    BY <2>1, <2>2 DEF NormalStep
  <2>5. step[v] \in {"run", "collect"} => call[v] <= Len(Calls[t])
    <3>1. Placed(v) /\ at[v] = t
      BY <1>6, <1>8, Here
    <3> QED BY <1>1, <3>1, TaskLen DEF Placed
  <2>6. Last(t) = Len(Calls[t]) + 1 /\ Len(Calls[t]) \in Nat
    BY <1>1, TaskLen
  <2> QED BY <2>1, <2>3, <2>4, <2>5, <2>6
<1>9. \A i \in Range(queues[t]) : \E v \in Members(t) : i = queues[t][v]
  BY DEF Range, Members
<1>10. \A i \in Indices : lists[i] # << >> => i \in Range(queues[t])
  BY <1>2, <1>6 DEF Taken
<1>11. AlikeLists(Rest(lists))
  <2>1. \A i \in Indices : Rest(lists)[i] = << >>
    <3>1. \A i \in Indices : lists[i] = << >> => Rest(lists)[i] = << >>
      BY <1>3, RestFacts
    <3> QED BY <3>1, <1>6, <1>9, <1>10
  <2>2. \A i \in Indices : DOMAIN Rest(lists)[i] = {}
    BY <2>1
  <2> QED BY <2>2 DEF AlikeLists
<1>12. state[t] # "error" /\ Whole(t)
  <2>1. state[t] # "error" /\ state[t] \in {"unstart", "started"}
    BY <1>1 DEF Normal, Live, Over, Types, TypeOK
  <2>2. CASE state[t] = "unstart"
    <3>1. PrevTasks[t] = {}
      BY <1>1, <2>2, TaskFacts DEF Live, Begun
    <3> QED BY <2>1, <3>1 DEF Whole
  <2>3. CASE state[t] = "started"
    BY <2>1, <2>3 DEF Normal, Doomed
  <2> QED BY <2>1, <2>2, <2>3
<1>13. ASSUME NEW v \in Members(t) PROVE ~ Unfinished(v, t)
  <2>1. CASE v = w
    BY <1>1, <2>1 DEF Unfinished
  <2>2. CASE v # w
    <3>1. Column(v, t)[1] = EndValue(v, t) /\ 1 \in DOMAIN Column(v, t)
      BY <1>6, <2>2
    <3>2. EndValue(v, t).kind = "finished"
      BY DEF EndValue, Value
    <3> QED BY <1>1, <3>1, <3>2 DEF Unfinished
  <2> QED BY <2>1, <2>2
<1>14. \A i \in Range(queues[t]) : \E v \in Members(t) : lists[i][1] = EndValue(v, t)
  BY <1>6, <1>9
<1>15. \A v \in Members(t) : \E i \in Range(queues[t]) : lists[i][1] = EndValue(v, t)
  BY <1>6
<1>16. \A v \in Members(t) : /\ at[v] = t /\ mqueue'[v] = << >>
                             /\ Alive(v) => step[v] \in {"finished_sync", "after_error"} /\ inbox[v] = << >>
  BY <1>6, <1>7, <1>8
<1> QED BY <1>1, <1>3, <1>10, <1>11, <1>12, <1>13, <1>14, <1>15, <1>16 DEF Complete

\* The lists of a task whose error all its workers know of: ends of workers
\* that have sent nothing else.
EndLists(t, lists) ==
    /\ lists \in [Indices -> Seq(ValueSet)]
    /\ \A j \in Indices : lists[j] # << >> => j \in Range(queues[t])
    /\ \A j \in Indices : \A k \in DOMAIN lists[j] :
          LET v == lists[j][k]
              x == v.from
          IN  /\ v = EndValue(x, t) /\ x \in Members(t) /\ SlotOf(x, t) = j
              /\ step[x] \in {"after_error", "exited"} /\ mqueue'[x] = << >>

\* The end of a worker of such a task.
LEMMA SettledHead ==
    ASSUME Inv, NEW w \in Worker, NEW m, Received(w, m), NEW t, t = m.task, m.msg = "finished", Settled(t),
           Slot(m) \in Range(queues[t]), NEW lists, lists = Fill(gather[t], m)
    PROVE  EndLists(t, lists)
<1>1. /\ t \in Tasks /\ w \in Members(t) /\ at[w] = t /\ manager = "running" /\ Types
      /\ m = mqueue[w][1] /\ 1 \in DOMAIN mqueue[w] /\ m.value \in ValueSet /\ m.index = index[w]
      /\ (mqueue'[w] = << >> <=> Len(mqueue[w]) = 1) /\ mqueue[w] # << >>
      /\ \A v \in Worker : v # w => mqueue'[v] = mqueue[v]
  BY HeadFacts DEF Inv
<1>2. m.value = EndValue(w, t) /\ step[w] \in {"after_error", "exited"} /\ mqueue'[w] = << >>
  BY <1>1, WorkerModes DEF SettledWorker
<1> DEFINE i == Slot(m)
<1>3. i = SlotOf(w, t)
  BY <1>1, SlotFacts
<1>4. i \in Indices /\ i \in Range(queues[t])
  <2>1. PICK v \in Members(t) : i = queues[t][v]
    BY DEF Range, Members
  <2> QED BY <1>1, <2>1, ColumnFacts
<1>5. PICK base \in [Indices -> Seq(ValueSet)] : base = gather[t]
  BY <1>1 DEF Types, TypeOK, ValueSet
<1>6. /\ lists \in [Indices -> Seq(ValueSet)]
      /\ \A j \in Indices : j # i => lists[j] = base[j]
      /\ DOMAIN lists[i] = 1 .. Len(base[i]) + 1 /\ DOMAIN base[i] = 1 .. Len(base[i]) /\ Len(base[i]) \in Nat
      /\ \A k \in DOMAIN base[i] : lists[i][k] = base[i][k]
      /\ lists[i][Len(base[i]) + 1] = m.value
  <2>1. Slot(m) \in Indices /\ m.value \in ValueSet /\ lists = Fill(base, m)
    BY <1>1, <1>4, <1>5
  <2>2. /\ lists \in [Indices -> Seq(ValueSet)]
        /\ \A j \in Indices : j # Slot(m) => lists[j] = base[j]
        /\ Len(base[Slot(m)]) \in Nat
        /\ DOMAIN lists[Slot(m)] = 1 .. Len(base[Slot(m)]) + 1 /\ DOMAIN base[Slot(m)] = 1 .. Len(base[Slot(m)])
        /\ \A k \in DOMAIN base[Slot(m)] : lists[Slot(m)][k] = base[Slot(m)][k]
        /\ lists[Slot(m)][Len(base[Slot(m)]) + 1] = m.value
    BY <2>1, FillFacts
  <2> QED BY <2>2
<1>7. ASSUME NEW j \in Indices, NEW k \in DOMAIN base[j]
      PROVE  LET v == base[j][k]
                 x == v.from
             IN  /\ v = EndValue(x, t) /\ x \in Members(t) /\ SlotOf(x, t) = j
                 /\ step[x] \in {"after_error", "exited"} /\ mqueue'[x] = << >>
  <2>1. SettledValue(t, j, k)
    BY <1>1, <1>5, <1>7 DEF Inv, Running, Protocol
  <2>2. PICK x : x = base[j][k].from
    OBVIOUS
  <2>3. /\ base[j][k] = EndValue(x, t) /\ x \in Members(t) /\ SlotOf(x, t) = j
        /\ step[x] \in {"after_error", "exited"} /\ mqueue[x] = << >>
    BY <1>5, <2>1, <2>2 DEF SettledValue
  <2>4. x \in Worker /\ x # w
    BY <1>1, <2>3, MemberFacts DEF Inv
  <2> QED BY <1>1, <2>2, <2>3, <2>4
<1>8. ASSUME NEW j \in Indices, NEW k \in DOMAIN lists[j]
      PROVE  LET v == lists[j][k]
                 x == v.from
             IN  /\ v = EndValue(x, t) /\ x \in Members(t) /\ SlotOf(x, t) = j
                 /\ step[x] \in {"after_error", "exited"} /\ mqueue'[x] = << >>
  <2>1. CASE j = i /\ k \notin DOMAIN base[i]
    <3>1. k = Len(base[i]) + 1
      <4>1. PICK n \in Nat : n = Len(base[i])
        BY <1>6
      <4>2. k \in 1 .. n + 1 /\ ~ (k \in 1 .. n)
        BY <1>6, <1>8, <2>1, <4>1
      <4> QED BY <4>1, <4>2
    <3>2. lists[j][k] = EndValue(w, t) /\ EndValue(w, t).from = w
      BY <1>2, <1>6, <2>1, <3>1 DEF EndValue, Value
    <3> QED BY <1>1, <1>2, <1>3, <2>1, <3>2
  <2>2. CASE ~ (j = i /\ k \notin DOMAIN base[i])
    <3>1. k \in DOMAIN base[j] /\ lists[j][k] = base[j][k]
      BY <1>6, <1>8, <2>2
    <3> QED BY <1>7, <3>1
  <2> QED BY <2>1, <2>2
<1>9. \A j \in Indices : lists[j] # << >> => j \in Range(queues[t])
  <2>1. \A j \in Indices : base[j] # << >> => j \in Range(queues[t])
    BY <1>1, <1>5 DEF Inv, States
  <2> QED BY <1>4, <1>6, <2>1
<1> QED BY <1>6, <1>8, <1>9 DEF EndLists

\* Columns of ends are alike, and so is what is left of them.
LEMMA EndsAlike ==
    ASSUME NEW g, \A i \in Indices : \A k \in DOMAIN g[i] : \E x, t : g[i][k] = EndValue(x, t)
    PROVE  AlikeLists(g)
<1>1. \A x, t : EndValue(x, t).kind = "finished" /\ EndValue(x, t).n = 0
  BY DEF EndValue, Value
<1> QED BY <1>1 DEF AlikeLists

LEMMA SettledFillInv ==
    ASSUME Inv, NEW w \in Worker, NEW m, Received(w, m), NEW t, t = m.task, m.msg = "finished", Settled(t),
           Slot(m) \in Range(queues[t]), NEW lists, lists = Fill(gather[t], m),
           gather' = [gather EXCEPT ![t] = lists], manager' \in {"running", "ended"},
           UNCHANGED << procs, queues, owner, state, rounds, inbox, step, at, index, call, raised >>
    PROVE  Inv'
<1>1. /\ t \in Tasks /\ w \in Members(t) /\ at[w] = t /\ manager = "running" /\ Types /\ Live(t)
      /\ m = mqueue[w][1] /\ 1 \in DOMAIN mqueue[w] /\ mqueue' \in [Worker -> Seq(Message)]
      /\ (mqueue'[w] = << >> <=> Len(mqueue[w]) = 1)
      /\ \A v \in Worker : v # w => mqueue'[v] = mqueue[v]
  BY HeadFacts DEF Inv
<1>2. /\ lists \in [Indices -> Seq(ValueSet)]
      /\ \A j \in Indices : lists[j] # << >> => j \in Range(queues[t])
      /\ \A j \in Indices : \A k \in DOMAIN lists[j] :
            LET v == lists[j][k]
                x == v.from
            IN  /\ v = EndValue(x, t) /\ x \in Members(t) /\ SlotOf(x, t) = j
                /\ step[x] \in {"after_error", "exited"} /\ mqueue'[x] = << >>
  <2>1. EndLists(t, lists)
    BY SettledHead
  <2> QED BY <2>1 DEF EndLists
<1>3. gather'[t] = lists /\ \A u \in Tasks : u # t => gather'[u] = gather[u] /\ rounds'[u] = rounds[u]
  BY <1>1 DEF Types, TypeOK
<1>4. Types'
  <2>1. /\ owner' \in [Sources -> Tasks \cup {None}]
        /\ state' \in [Tasks -> {"unstart", "started", "finished", "error", "no_source_data"}]
        /\ rounds' \in [Tasks -> Nat] /\ inbox' \in [Worker -> Seq(Answer)]
        /\ gather \in [Tasks -> [Indices -> Seq(ValueSet)]]
    BY <1>1 DEF Types, TypeOK, ValueSet
  <2>2. gather' \in [Tasks -> [Indices -> Seq(ValueSet)]]
    BY <1>2, <2>1
  <2> QED BY <1>1, <2>1, <2>2, ManagerTypes
<1>5. /\ state'[t] = "error" /\ rounds'[t] = 1 /\ rounds'[t] <= 2
      /\ Settled(t)' /\ ~ Over(t)' /\ ~ Spread(t)' /\ ~ Normal(t)'
  <2>1. state'[t] = "error" /\ rounds'[t] = 1
    BY DEF Settled
  <2> QED BY <2>1 DEF Settled, Over, Spread, Doomed, Normal
<1>6. ASSUME NEW i \in Indices, NEW k \in DOMAIN gather'[t][i] PROVE SettledValue(t, i, k)'
  <2>1. \A x : SlotOf(x, t)' = SlotOf(x, t) /\ Members(t)' = Members(t) /\ EndValue(x, t)' = EndValue(x, t)
    BY DEF SlotOf, Members, EndValue
  <2>2. PICK x : x = lists[i][k].from
    OBVIOUS
  <2>3. /\ lists[i][k] = EndValue(x, t) /\ x \in Members(t) /\ SlotOf(x, t) = i
        /\ step[x] \in {"after_error", "exited"} /\ mqueue'[x] = << >>
    BY <1>2, <1>3, <1>6, <2>2
  <2>4. gather'[t][i][k] = lists[i][k]
    BY <1>3
  <2> HIDE <1>3
  <2> QED BY <2>1, <2>2, <2>3, <2>4 DEF SettledValue
<1>7. ASSUME NEW v \in Members(t) PROVE SettledWorker(t, v)'
  <2>1. SettledWorker(t, v) /\ v \in Worker
    BY <1>1, WorkerModes, MemberFacts DEF Inv
  <2>2. CASE v = w
    <3>1. Len(mqueue[w]) = 1 /\ step[w] \in {"after_error", "exited"}
      BY <1>1, <2>1, <2>2 DEF SettledWorker
    <3>2. mqueue'[w] = << >> /\ \A j \in DOMAIN mqueue'[w] : FALSE
      <4>1. \A j \in DOMAIN << >> : FALSE
        OBVIOUS
      <4> QED BY <1>1, <3>1, <4>1
    <3>3. Alive(w) => step[w] = "after_error" /\ inbox[w] = << >>
      BY <2>1, <2>2, <3>1 DEF SettledWorker, Alive
    <3>4. Alive(w)' = Alive(w)
      BY DEF Alive
    <3> QED BY <1>1, <2>2, <3>2, <3>3, <3>4 DEF SettledWorker
  <2>3. CASE v # w
    <3>1. mqueue'[v] = mqueue[v] /\ Alive(v)' = Alive(v) /\ EndValue(v, t)' = EndValue(v, t)
      BY <1>1, <2>1, <2>3 DEF Alive, EndValue
    <3> QED BY <2>1, <3>1 DEF SettledWorker
  <2> QED BY <2>2, <2>3
<1>8. ASSUME NEW v \in Members(t), Alive(v)
      PROVE  /\ Len(inbox[v]) <= Len(inbox'[v])
             /\ \A k \in DOMAIN inbox[v] : inbox'[v][k] = inbox[v][k]
             /\ \A k \in DOMAIN inbox'[v] \ DOMAIN inbox[v] : inbox'[v][k].msg # "finished" /\ Letter(v, k)'
  <2>1. v \in Worker
    BY <1>1, MemberFacts DEF Inv
  <2>2. Len(inbox[v]) \in Nat
    BY <1>1, <2>1, QueueFacts
  <2> QED BY <2>2
<1>9. AlikeLists(gather'[t])
  BY <1>2, <1>3, EndsAlike
<1>10. /\ m.msg # "crash" /\ state' = state /\ (\A v \in Worker : v \notin Members(t) => inbox'[v] = inbox[v])
       /\ \A i \in Indices : gather'[t][i] # << >> => i \in Range(queues[t])
  BY <1>2, <1>3
<1> QED BY <1>1, <1>3, <1>4, <1>5, <1>6, <1>7, <1>8, <1>9, <1>10, HandleStepInv

LEMMA SettledComplete ==
    ASSUME Inv, NEW w \in Worker, NEW m, Received(w, m), NEW t, t = m.task, m.msg = "finished", Settled(t),
           Slot(m) \in Range(queues[t]), NEW lists, lists = Fill(gather[t], m), Full(t, lists)
    PROVE  Complete(t, lists)
<1>1. /\ t \in Tasks /\ w \in Members(t) /\ at[w] = t /\ manager = "running" /\ Types /\ Live(t)
  BY HeadFacts DEF Inv
<1>2. /\ lists \in [Indices -> Seq(ValueSet)]
      /\ \A j \in Indices : lists[j] # << >> => j \in Range(queues[t])
      /\ \A j \in Indices : \A k \in DOMAIN lists[j] :
            LET v == lists[j][k]
                x == v.from
            IN  /\ v = EndValue(x, t) /\ x \in Members(t) /\ SlotOf(x, t) = j
                /\ step[x] \in {"after_error", "exited"} /\ mqueue'[x] = << >>
  <2>1. EndLists(t, lists)
    BY SettledHead
  <2> QED BY <2>1 DEF EndLists
<1> DEFINE f == [i \in Range(queues[t]) |-> lists[i][1].from]
<1>3. \A i \in Range(queues[t]) : i \in Indices /\ lists[i] # << >>
  BY <1>1, <1>2, FirstFacts
<1>4. \A i \in Range(queues[t]) : 1 \in DOMAIN lists[i]
  <2>1. ASSUME NEW i \in Range(queues[t]) PROVE 1 \in DOMAIN lists[i]
    <3>1. Len(lists[i]) \in Nat /\ Len(lists[i]) >= 1 /\ DOMAIN lists[i] = 1 .. Len(lists[i])
      BY <1>2, <1>3, RestFacts
    <3> QED BY <3>1
  <2> QED BY <2>1
<1>5. \A i \in Range(queues[t]) : /\ lists[i][1] = EndValue(f[i], t) /\ f[i] \in Members(t) /\ SlotOf(f[i], t) = i
                                  /\ step[f[i]] \in {"after_error", "exited"} /\ mqueue'[f[i]] = << >>
  BY <1>2, <1>3, <1>4
<1>6. \A v \in Members(t) : \E i \in Range(queues[t]) : f[i] = v
  <2>1. f \in [Range(queues[t]) -> Members(t)] /\ \A i, j \in Range(queues[t]) : f[i] = f[j] => i = j
    BY <1>5
  <2> HIDE DEF f
  <2> QED BY <1>1, <2>1, EverySender DEF Inv
<1> HIDE DEF f
<1>7. \A i \in Range(queues[t]) : \E v \in Members(t) : lists[i][1] = EndValue(v, t)
  BY <1>5
<1>8. \A v \in Members(t) : \E i \in Range(queues[t]) : lists[i][1] = EndValue(v, t)
  BY <1>5, <1>6
<1>9. ASSUME NEW v \in Members(t)
      PROVE  /\ at[v] = t /\ mqueue'[v] = << >>
             /\ Alive(v) => step[v] \in {"finished_sync", "after_error"} /\ inbox[v] = << >>
  <2>1. SettledWorker(t, v)
    BY <1>1, WorkerModes
  <2>2. step[v] \in {"after_error", "exited"} /\ mqueue'[v] = << >>
    BY <1>5, <1>6
  <2> QED BY <2>1, <2>2 DEF SettledWorker, Alive
<1>10. AlikeLists(Rest(lists))
  <2>1. ASSUME NEW i \in Indices, NEW k \in DOMAIN Rest(lists)[i] PROVE \E x, u : Rest(lists)[i][k] = EndValue(x, u)
    <3>1. lists[i] # << >>
      <4>1. ASSUME lists[i] = << >> PROVE FALSE
        <5>1. Rest(lists)[i] = << >>
          BY <1>2, <4>1, RestFacts
        <5> QED BY <2>1, <5>1
      <4> QED BY <4>1
    <3>2. Rest(lists)[i][k] = lists[i][k + 1] /\ k + 1 \in DOMAIN lists[i]
      BY <1>2, <3>1, RestFacts
    <3> QED BY <1>2, <3>2
  <2> QED BY <2>1, EndsAlike
<1>11. state[t] = "error" /\ rounds[t] = 1
  BY DEF Settled
<1> QED BY <1>1, <1>2, <1>7, <1>8, <1>9, <1>10, <1>11 DEF Complete

-----------------------------------------------------------------------------
(* The end of a task: its pools move on, and tasks that have all theirs     *)
(* begin.                                                                  *)

\* set_task_finished: the pools of t move on, each to its next task.
Mover(t, s) == procs[s] > 0 /\ t \in Reached[s]
Joining(t, u) == { s \in Sources : Mover(t, s) /\ owner'[s] = u }
Joined(t, u) == { w \in Worker : w[1] \in Joining(t, u) /\ Exists(w) }
Target(t, u) == Joining(t, u) # {}
Begins(t, u) == Target(t, u) /\ state[u] = "unstart" /\ AllPrevFinished(u, t, owner')
Go(u, i) == IF \E p \in PrevTasks[u] : state[p] = "error" THEN Plain("error") ELSE ToWorker("go", i, << >>)
Leave(t, w) ==
    LET u == owner'[w[1]]
    IN  IF u \in Tasks /\ Begins(t, u) /\ w \in DOMAIN queues'[u] THEN << Go(u, queues'[u][w]) >> ELSE << >>
Passed(t) ==
    /\ \A s \in Sources : owner'[s] = IF Mover(t, s) THEN NextIn(s, t) ELSE owner[s]
    /\ DOMAIN owner' = Sources /\ owner' = [s \in Sources |-> owner'[s]]
    /\ \A u \in Tasks : /\ Target(t, u) => queues'[u] \in Extended(queues[u], Joining(t, u))
                        /\ ~ Target(t, u) => queues'[u] = queues[u]
    /\ state' = [u \in Tasks |-> IF u = t THEN Outcome(t) ELSE IF Begins(t, u) THEN "started" ELSE state[u]]
    /\ inbox' = [w \in Worker |-> ToTask(t, << Plain("finished") >>)[w] \o Leave(t, w)]

LEMMA CompleteFirst ==
    ASSUME Inv, NEW t, NEW lists, Complete(t, lists), Full(t, lists), NEW got, got = FirstOf(t, lists)
    PROVE  /\ \A x \in Range(got) : \E v \in Members(t) : x = EndValue(v, t)
           /\ \A v \in Members(t) : EndValue(v, t) \in Range(got)
<1>1. t \in Tasks /\ lists \in [Indices -> Seq(ValueSet)] /\ Types
  BY DEF Complete, Inv
<1>2. /\ DOMAIN got = Range(queues[t])
      /\ \A i \in Range(queues[t]) : got[i] = lists[i][1]
  BY <1>1, FirstFacts
<1>3. /\ \A i \in Range(queues[t]) : \E v \in Members(t) : lists[i][1] = EndValue(v, t)
      /\ \A v \in Members(t) : \E i \in Range(queues[t]) : lists[i][1] = EndValue(v, t)
  BY DEF Complete
<1> QED BY <1>2, <1>3 DEF Range

LEMMA MoversMembers ==
    ASSUME Inv, NEW t \in Tasks, Live(t)
    PROVE  /\ \A s \in Sources : Mover(t, s) => owner[s] = t /\ << s, 1 >> \in Members(t)
           /\ \A s \in Sources : ~ Mover(t, s) => owner[s] # t
           /\ \A w \in Worker : w \in Members(t) <=> Exists(w) /\ Mover(t, w[1])
<1>1. Types /\ Pools
  BY DEF Inv
<1>2. ASSUME NEW s \in Sources, Mover(t, s) PROVE owner[s] = t /\ << s, 1 >> \in Members(t)
  <2>1. owner[s] = t /\ owner[s] # None
    BY <1>1, <1>2, TaskFacts DEF Mover, Pools
  <2>2. << s, 1 >> \in Worker
    BY <1>1, <1>2 DEF Mover, Pools
  <2>3. Exists(<< s, 1 >>)
    BY <1>1, <1>2 DEF Exists, Mover, Types, TypeOK
  <2> QED BY <1>1, <2>1, <2>2, <2>3 DEF Pools
<1>3. ASSUME NEW s \in Sources, ~ Mover(t, s) PROVE owner[s] # t
  BY <1>1, <1>3, TaskFacts DEF Pools, Mover
<1>4. ASSUME NEW w \in Worker, w \in Members(t) PROVE Exists(w) /\ Mover(t, w[1])
  <2>1. Exists(w) /\ t \in Reached[w[1]]
    BY <1>1, <1>4, MemberFacts
  <2>2. w[1] \in Sources /\ w[2] \in Nat /\ w[2] >= 1
    BY WorkerFacts DEF Worker
  <2>3. procs[w[1]] \in Nat
    BY <1>1, <2>2 DEF Types, TypeOK
  <2> QED BY <2>1, <2>2, <2>3 DEF Exists, Mover
<1>5. ASSUME NEW w \in Worker, Exists(w), Mover(t, w[1]) PROVE w \in Members(t)
  <2>1. w[1] \in Sources /\ owner[w[1]] = t /\ t # None
    BY <1>2, <1>5, WorkerFacts, TaskFacts
  <2> QED BY <1>1, <1>5, <2>1 DEF Pools
<1> QED BY <1>2, <1>3, <1>4, <1>5

LEMMA PassedOn ==
    ASSUME Inv, NEW t, NEW lists, Complete(t, lists), Full(t, lists), SetTaskFinished(t, FirstOf(t, lists)),
           UNCHANGED procs
    PROVE  Passed(t)
<1> DEFINE got == FirstOf(t, lists)
           pools == { v.from[1] : v \in Range(got) }
           next == [s \in Sources |-> IF s \in pools THEN (CHOOSE v \in Range(got) : v.from[1] = s).next
                                      ELSE owner[s]]
           joining(u) == { s \in pools : next[s] = u }
           targets == { u \in Tasks : joining(u) # {} }
           started == { u \in targets : state[u] = "unstart" /\ AllPrevFinished(u, t, next) }
           go(u, i) == IF \E p \in PrevTasks[u] : state[p] = "error"
                       THEN Plain("error") ELSE ToWorker("go", i, << >>)
<1>1. t \in Tasks /\ Live(t) /\ Types /\ Pools
  BY DEF Complete, Inv
<1>2. /\ \A x \in Range(got) : \E v \in Members(t) : x = EndValue(v, t)
      /\ \A v \in Members(t) : EndValue(v, t) \in Range(got)
  BY CompleteFirst
<1>3. \A v : EndValue(v, t).from = v /\ EndValue(v, t).next = NextIn(v[1], t)
  BY DEF EndValue, Value
<1>4. \A s \in Sources : s \in pools <=> Mover(t, s)
  <2>1. ASSUME NEW s \in Sources, Mover(t, s) PROVE s \in pools
    <3>1. << s, 1 >> \in Members(t)
      BY <1>1, <2>1, MoversMembers
    <3>2. EndValue(<< s, 1 >>, t) \in Range(got) /\ EndValue(<< s, 1 >>, t).from[1] = s
      BY <1>2, <1>3, <3>1
    <3> QED BY <3>2
  <2>2. ASSUME NEW s \in Sources, s \in pools PROVE Mover(t, s)
    <3>1. PICK x \in Range(got) : s = x.from[1]
      BY <2>2
    <3>2. PICK v \in Members(t) : x = EndValue(v, t)
      BY <1>2
    <3>3. v \in Worker /\ v[1] = s
      BY <1>1, <1>3, <3>1, <3>2, MemberFacts
    <3> QED BY <1>1, <3>3, MoversMembers
  <2> QED BY <2>1, <2>2
<1>5. pools \subseteq Sources
  <2>1. ASSUME NEW x \in Range(got) PROVE x.from[1] \in Sources
    <3>1. PICK v \in Members(t) : x = EndValue(v, t)
      BY <1>2
    <3>2. v \in Worker
      BY <1>1, MemberFacts
    <3> QED BY <1>3, <3>1, <3>2, WorkerFacts
  <2> QED BY <2>1
<1>6. ASSUME NEW s \in Sources
      PROVE  next[s] = IF Mover(t, s) THEN NextIn(s, t) ELSE owner[s]
  <2>1. CASE Mover(t, s)
    <3>1. s \in pools
      BY <1>4, <2>1
    <3>2. \E x \in Range(got) : x.from[1] = s
      BY <3>1
    <3>3. PICK x : x = CHOOSE v \in Range(got) : v.from[1] = s
      OBVIOUS
    <3>4. x \in Range(got) /\ x.from[1] = s
      BY <3>2, <3>3
    <3>5. x.next = NextIn(s, t)
      BY <1>2, <1>3, <3>4
    <3> QED BY <2>1, <3>1, <3>3, <3>5
  <2>2. CASE ~ Mover(t, s)
    BY <1>4, <2>2
  <2> QED BY <2>1, <2>2
<1>7. owner' = next
  BY DEF SetTaskFinished
<1>8. \A u : joining(u) = Joining(t, u)
  <2>1. \A u : joining(u) = { s \in Sources : Mover(t, s) /\ next[s] = u }
    BY <1>4, <1>5
  <2> HIDE DEF next, joining
  <2> QED BY <1>7, <2>1 DEF Joining
<1>9. \A u \in Tasks : /\ Target(t, u) => queues'[u] \in Extended(queues[u], Joining(t, u))
                       /\ ~ Target(t, u) => queues'[u] = queues[u]
  <2>1. \E q \in [targets -> UNION { Extended(queues[u], joining(u)) : u \in targets }] :
              /\ \A u \in targets : q[u] \in Extended(queues[u], joining(u))
              /\ queues' = [u \in Tasks |-> IF u \in targets THEN q[u] ELSE queues[u]]
    BY DEF SetTaskFinished
  <2>2. \A u \in Tasks : u \in targets <=> Target(t, u)
    BY <1>8 DEF Target
  <2> HIDE DEF targets, joining
  <2> QED BY <1>8, <2>1, <2>2
<1>10. \A u \in Tasks : u \in started <=> Begins(t, u)
  <2>1. \A u \in Tasks : u \in targets <=> Target(t, u)
    BY <1>8 DEF Target
  <2>2. \A u : AllPrevFinished(u, t, next) <=> AllPrevFinished(u, t, owner')
    <3> HIDE DEF next
    <3> QED BY <1>7
  <2>3. \A u : u \in started <=> u \in targets /\ state[u] = "unstart" /\ AllPrevFinished(u, t, next)
    OBVIOUS
  <2> HIDE DEF started, targets, next
  <2> QED BY <2>1, <2>2, <2>3 DEF Begins
<1>11. state' = [u \in Tasks |-> IF u = t THEN Outcome(t) ELSE IF Begins(t, u) THEN "started" ELSE state[u]]
  <2>1. state' = [u \in Tasks |-> IF u = t THEN Outcome(t) ELSE IF u \in started THEN "started" ELSE state[u]]
    BY DEF SetTaskFinished
  <2> HIDE DEF started
  <2> QED BY <1>10, <2>1
<1>12. inbox' = [w \in Worker |-> ToTask(t, << Plain("finished") >>)[w] \o Leave(t, w)]
  <2>1. inbox' = [w \in Worker |->
              LET u == next[w[1]]
              IN  ToTask(t, << Plain("finished") >>)[w] \o
                  (IF u \in started /\ w \in DOMAIN queues'[u] THEN << go(u, queues'[u][w]) >> ELSE << >>)]
    BY DEF SetTaskFinished
  <2>2. \A u : u \in started => u \in Tasks
    OBVIOUS
  <2>3. \A u, i : go(u, i) = Go(u, i)
    BY DEF Go
  <2> HIDE DEF next, started, go
  <2>4. ASSUME NEW w \in Worker
        PROVE  (LET u == next[w[1]]
                IN  IF u \in started /\ w \in DOMAIN queues'[u] THEN << go(u, queues'[u][w]) >> ELSE << >>) = Leave(t, w)
    <3>1. PICK u : u = next[w[1]]
      OBVIOUS
    <3>2. u = owner'[w[1]]
      BY <1>7, <3>1
    <3>3. u \in started <=> u \in Tasks /\ Begins(t, u)
      BY <1>10, <2>2
    <3>4. Leave(t, w) = IF u \in Tasks /\ Begins(t, u) /\ w \in DOMAIN queues'[u] THEN << Go(u, queues'[u][w]) >> ELSE << >>
      BY <3>2 DEF Leave
    <3> QED BY <2>3, <3>1, <3>3, <3>4
  <2> QED BY <2>1, <2>4
<1>13. DOMAIN owner' = Sources /\ owner' = [s \in Sources |-> owner'[s]]
  BY <1>7
<1>14. \A s \in Sources : owner'[s] = IF Mover(t, s) THEN NextIn(s, t) ELSE owner[s]
  <2> HIDE DEF next
  <2> QED BY <1>6, <1>7
<1> QED BY <1>9, <1>11, <1>12, <1>13, <1>14 DEF Passed

\* Where the pools are that move on, and what is known of the tasks they enter.
LEMMA OwnersAfter ==
    ASSUME Inv, NEW t \in Tasks, Live(t), Passed(t), NEW s \in Sources
    PROVE  /\ Mover(t, s) => /\ owner[s] = t
                             /\ owner'[s] = NextIn(s, t)
                             /\ owner'[s] # None => /\ owner'[s] \in Reached[s] /\ owner'[s] \in Tasks
                                                    /\ Pos(t) < Pos(owner'[s]) /\ owner'[s] \notin Sources
           /\ ~ Mover(t, s) => owner'[s] = owner[s] /\ owner[s] # t
           /\ owner'[s] \in Tasks \cup {None}
<1>1. owner'[s] = IF Mover(t, s) THEN NextIn(s, t) ELSE owner[s]
  BY DEF Passed
<1>2. CASE Mover(t, s)
  <2>1. t \in Reached[s] /\ owner[s] = t
    BY <1>2, MoversMembers DEF Mover
  <2> QED BY <1>1, <1>2, <2>1, NextInFacts
<1>3. CASE ~ Mover(t, s)
  <2>1. owner[s] # t /\ owner[s] \in Tasks \cup {None}
    BY <1>3, MoversMembers DEF Inv, Types, TypeOK
  <2> QED BY <1>1, <1>3, <2>1
<1> QED BY <1>2, <1>3

LEMMA TargetFacts ==
    ASSUME Inv, NEW t \in Tasks, Live(t), Passed(t), NEW u \in Tasks, Target(t, u)
    PROVE  /\ u # t /\ ~ Begun(u) /\ ~ Over(u) /\ ~ Live(u) /\ state[u] = "unstart" /\ u \notin Sources
           /\ \E s \in Sources : s \in Joining(t, u) /\ << s, 1 >> \in Members(t)
           /\ \A s \in Joining(t, u) : u \in Reached[s] /\ procs[s] > 0 /\ Mover(t, s) /\ s \in Sources /\ owner'[s] = u
<1>1. ASSUME NEW s \in Joining(t, u)
      PROVE  /\ u \in Reached[s] /\ procs[s] > 0 /\ Mover(t, s) /\ s \in Sources /\ owner'[s] = u
             /\ Pos(t) < Pos(u) /\ u \notin Sources /\ owner[s] = t
  <2>1. s \in Sources /\ Mover(t, s) /\ owner'[s] = u
    BY DEF Joining
  <2>2. u # None
    BY TaskFacts
  <2> QED BY <2>1, <2>2, OwnersAfter DEF Mover
<1>2. PICK s \in Joining(t, u) : TRUE
  BY DEF Target
<1>3. u # t /\ ~ Begun(u)
  <2>1. Pos(t) \in Nat /\ Pos(u) \in Nat /\ Pos(t) < Pos(u)
    BY <1>1, <1>2, Places
  <2>2. ASSUME Begun(u) PROVE FALSE
    <3>1. Pos(u) <= Pos(owner[s])
      <4>1. owner[s] # None /\ u \in Reached[s] /\ procs[s] > 0 /\ s \in Sources
        BY <1>1, <1>2, TaskFacts
      <4> QED BY <2>2, <4>1 DEF Inv, Pools
    <3>2. owner[s] = t
      BY <1>1, <1>2
    <3> QED BY <2>1, <3>1, <3>2
  <2> QED BY <2>1, <2>2
<1>4. << s, 1 >> \in Members(t)
  BY <1>1, <1>2, MoversMembers
<1> QED BY <1>1, <1>2, <1>3, <1>4 DEF Begun, Over, Live

\* The queues of a task that workers join: theirs come after those it has.
LEMMA MembersAfter ==
    ASSUME Inv, NEW t \in Tasks, Live(t), Passed(t), UNCHANGED procs, NEW u \in Tasks
    PROVE  /\ Members(u)' = Members(u) \cup Joined(t, u) /\ Joined(t, u) \subseteq Members(t) /\ Members(u)' \subseteq Worker
           /\ \A w \in Members(u) : w \notin Joined(t, u) /\ queues'[u][w] = queues[u][w]
           /\ queues'[u] \in [Members(u)' -> 1 .. Cardinality(Members(u)')]
           /\ \A v, w \in Members(u)' : queues'[u][v] = queues'[u][w] => v = w
           /\ \A w \in Members(u)' : queues'[u][w] \in Indices
           /\ ~ Target(t, u) => queues'[u] = queues[u] /\ Joined(t, u) = {}
<1>1. Types /\ Pools
  BY DEF Inv
<1>2. Members(u)' = DOMAIN queues'[u] /\ Members(u) = DOMAIN queues[u]
  BY DEF Members
<1>3. /\ queues[u] \in [Members(u) -> 1 .. Cardinality(Members(u))] /\ Members(u) \subseteq Worker
      /\ \A v, w \in Members(u) : queues[u][v] = queues[u][w] => v = w
  BY <1>1 DEF Types, TypeOK, Pools
<1>4. Joined(t, u) \subseteq Members(t) /\ Joined(t, u) \subseteq Worker
  BY MoversMembers DEF Joined, Joining
<1>5. ASSUME NEW S \in SUBSET Worker
      PROVE  IsFiniteSet(S) /\ Cardinality(S) \in Nat /\ Cardinality(S) <= Cardinality(Worker)
  BY WorkersFinite, FS_Subset, FS_CardinalityType
<1>6. ASSUME NEW w \in Members(u) PROVE w \notin Joined(t, u)
  <2>1. ASSUME w \in Joined(t, u) PROVE FALSE
    <3>1. w \in Worker /\ w[1] \in Joining(t, u) /\ w[1] \in Sources /\ Mover(t, w[1])
      BY <2>1 DEF Joined, Joining
    <3>2. Target(t, u)
      BY <3>1 DEF Target
    <3>3. ~ Over(u) /\ u # t
      BY <3>2, TargetFacts
    <3>4. owner[w[1]] = u
      BY <1>1, <3>3 DEF Pools
    <3>5. owner[w[1]] = t
      BY <3>1, OwnersAfter
    <3> QED BY <3>3, <3>4, <3>5
  <2> QED BY <2>1
<1>7. CASE ~ Target(t, u)
  <2>1. queues'[u] = queues[u]
    BY <1>7 DEF Passed
  <2>2. Joined(t, u) = {}
    BY <1>7 DEF Target, Joined
  <2>3. Members(u)' = Members(u)
    BY <1>2, <2>1
  <2>4. \A w \in Members(u) : queues[u][w] \in Indices
    BY <1>1, ColumnFacts
  <2> QED BY <1>3, <1>4, <1>7, <2>1, <2>2, <2>3, <2>4
<1>8. CASE Target(t, u)
  <2> DEFINE new == { w \in Worker : w[1] \in Joining(t, u) /\ w[2] <= procs[w[1]] }
             n == Cardinality(Members(u))
             places == n + 1 .. n + Cardinality(new)
  <2>1. new = Joined(t, u)
    BY DEF Joined, Exists
  <2>2. PICK p \in [new -> places] :
            /\ \A v, w \in new : p[v] = p[w] => v = w
            /\ queues'[u] = [w \in Members(u) \cup new |-> IF w \in new THEN p[w] ELSE queues[u][w]]
    <3>1. queues'[u] \in Extended(queues[u], Joining(t, u))
      BY <1>8 DEF Passed
    <3> QED BY <3>1 DEF Extended, Members
  <2>3. /\ n \in Nat /\ Cardinality(new) \in Nat /\ IsFiniteSet(new) /\ IsFiniteSet(Members(u))
    BY <1>3, <1>4, <1>5, <2>1
  <2> HIDE DEF new
  <2>4. Members(u) \cap new = {}
    BY <1>6, <2>1
  <2>5. Cardinality(Members(u) \cup new) = n + Cardinality(new)
    <3>1. Cardinality(Members(u) \cup new) =
            Cardinality(Members(u)) + Cardinality(new) - Cardinality(Members(u) \cap new)
      BY <2>3, FS_Union
    <3>2. Cardinality(Members(u) \cap new) = 0
      BY <2>4, FS_EmptySet
    <3> QED BY <2>3, <3>1, <3>2
  <2>6. Members(u)' = Members(u) \cup new
    BY <1>2, <2>2
  <2>7. ASSUME NEW w \in Members(u) PROVE w \notin new /\ queues'[u][w] = queues[u][w] /\ queues[u][w] \in 1 .. n
    BY <1>3, <2>2, <2>4
  <2>8. ASSUME NEW w \in new PROVE queues'[u][w] = p[w] /\ p[w] \in places
    BY <2>2
  <2>9. ASSUME NEW w \in Members(u)' PROVE queues'[u][w] \in 1 .. Cardinality(Members(u)')
    <3>1. PICK c \in Nat : c = Cardinality(new)
      BY <2>3
    <3>2. PICK k \in Nat : k = n
      BY <2>3
    <3>3. queues'[u][w] \in 1 .. k \/ queues'[u][w] \in k + 1 .. k + c
      BY <2>6, <2>7, <2>8, <3>1, <3>2
    <3>4. Cardinality(Members(u)') = k + c
      BY <2>5, <2>6, <3>1, <3>2
    <3> QED BY <3>3, <3>4
  <2>10. \A v, w \in Members(u)' : queues'[u][v] = queues'[u][w] => v = w
    <3> SUFFICES ASSUME NEW v \in Members(u)', NEW w \in Members(u)', queues'[u][v] = queues'[u][w] PROVE v = w
      OBVIOUS
    <3>1. CASE v \in new /\ w \in new
      BY <2>2, <2>8, <3>1
    <3>2. CASE v \in Members(u) /\ w \in Members(u)
      BY <1>3, <2>7, <3>2
    <3>3. ASSUME NEW x \in new, NEW y \in Members(u), queues'[u][x] = queues'[u][y] PROVE FALSE
      <4>1. queues'[u][x] \in places /\ queues'[u][y] \in 1 .. n
        BY <2>7, <2>8
      <4> QED BY <2>3, <3>3, <4>1
    <3> QED BY <2>6, <3>1, <3>2, <3>3
  <2>11. Members(u)' \subseteq Worker
    BY <1>3, <1>4, <2>1, <2>6
  <2>12. queues'[u] \in [Members(u)' -> 1 .. Cardinality(Members(u)')]
    BY <1>2, <2>2, <2>6, <2>9
  <2>13. \A w \in Members(u)' : queues'[u][w] \in Indices
    <3>1. Cardinality(Members(u)') \in Nat /\ Cardinality(Members(u)') <= Cardinality(Worker)
      BY <1>5, <2>11
    <3> QED BY <2>9, <3>1, WorkersFinite DEF Indices
  <2> QED BY <1>4, <1>8, <2>1, <2>4, <2>6, <2>7, <2>10, <2>11, <2>12, <2>13
<1> QED BY <1>7, <1>8

\* The step of the manager that ends a task.
Closes(t, lists) ==
    /\ Complete(t, lists) /\ Passed(t)
    /\ gather' = [gather EXCEPT ![t] = Rest(lists)] /\ rounds' = [rounds EXCEPT ![t] = rounds[t] + 1]
    /\ UNCHANGED << procs, step, at, index, call, raised >> /\ manager' \in {"running", "ended"}

LEMMA ClosesFacts ==
    ASSUME Inv, NEW t, NEW lists, Closes(t, lists)
    PROVE  /\ t \in Tasks /\ Live(t) /\ Begun(t) /\ ~ Over(t) /\ Types /\ Pools /\ States /\ Passed(t)
           /\ UNCHANGED << procs, step, at, index, call, raised >>
           /\ gather'[t] = Rest(lists) /\ lists \in [Indices -> Seq(ValueSet)]
           /\ rounds'[t] = rounds[t] + 1 /\ rounds[t] \in Nat
           /\ \A u \in Tasks : u # t => gather'[u] = gather[u] /\ rounds'[u] = rounds[u]
           /\ state'[t] = IF state[t] = "error" THEN "error" ELSE "finished"
           /\ \A u \in Tasks : u # t => state'[u] = IF Begins(t, u) THEN "started" ELSE state[u]
           /\ state[t] \in {"unstart", "started", "error"}
<1>1. Complete(t, lists) /\ Passed(t)
  BY DEF Closes
<1>2. t \in Tasks /\ Live(t) /\ lists \in [Indices -> Seq(ValueSet)]
  BY <1>1 DEF Complete
<1>3. /\ gather' = [gather EXCEPT ![t] = Rest(lists)] /\ rounds' = [rounds EXCEPT ![t] = rounds[t] + 1]
      /\ UNCHANGED << procs, step, at, index, call, raised >>
  BY DEF Closes
<1>4. Types /\ Pools /\ States
  BY DEF Inv
<1>5. gather'[t] = Rest(lists) /\ rounds'[t] = rounds[t] + 1 /\ rounds[t] \in Nat
      /\ \A u \in Tasks : u # t => gather'[u] = gather[u] /\ rounds'[u] = rounds[u]
  BY <1>2, <1>3, <1>4 DEF Types, TypeOK
<1>6. state'[t] = IF state[t] = "error" THEN "error" ELSE "finished"
  BY <1>1, <1>2 DEF Passed, Outcome
<1>7. \A u \in Tasks : u # t => state'[u] = IF Begins(t, u) THEN "started" ELSE state[u]
  BY <1>1 DEF Passed
<1>8. Begun(t) /\ ~ Over(t) /\ state[t] \in {"unstart", "started", "error"}
  <2>1. state[t] \in {"unstart", "started", "finished", "error", "no_source_data"}
    BY <1>2, <1>4 DEF Types, TypeOK
  <2> QED BY <1>2, <2>1 DEF Live, Over
<1> QED BY <1>1, <1>2, <1>3, <1>4, <1>5, <1>6, <1>7, <1>8

\* The tasks, once t is over: those under way are left alone, and those that
\* begin have all their pools and an outcome of every task before them.
LEMMA StatesAfter ==
    ASSUME Inv, NEW t, NEW lists, Closes(t, lists)
    PROVE  /\ Over(t)' /\ Begun(t)' /\ (state'[t] = "error" => rounds'[t] <= 2)
           /\ \A u \in Tasks : Over(u) => Over(u)'
           /\ \A u \in Tasks : Over(u)' => Over(u) \/ u = t
           /\ \A u \in Tasks : Begun(u) => Begun(u)'
           /\ \A u \in Tasks : Begun(u)' => Begun(u) \/ Begins(t, u)
           /\ \A u \in Tasks : Begins(t, u) => Target(t, u) /\ u # t /\ state[u] = "unstart" /\ state'[u] = "started"
           /\ \A u \in Tasks : u # t /\ ~ Begins(t, u) => state'[u] = state[u]
           /\ \A u \in Tasks : Begun(u) => ~ Begins(t, u)
<1>1. /\ t \in Tasks /\ Live(t) /\ Begun(t) /\ ~ Over(t) /\ Types /\ Pools /\ States /\ Passed(t)
      /\ rounds'[t] = rounds[t] + 1 /\ rounds[t] \in Nat
      /\ \A u \in Tasks : u # t => rounds'[u] = rounds[u]
      /\ state'[t] = IF state[t] = "error" THEN "error" ELSE "finished"
      /\ \A u \in Tasks : u # t => state'[u] = IF Begins(t, u) THEN "started" ELSE state[u]
  BY ClosesFacts
<1>2. \A u \in Tasks : Begins(t, u) => Target(t, u) /\ u # t /\ state[u] = "unstart" /\ state'[u] = "started"
                                       /\ ~ Begun(u) /\ ~ Over(u)
  <2> SUFFICES ASSUME NEW u \in Tasks, Begins(t, u)
               PROVE  Target(t, u) /\ u # t /\ state[u] = "unstart" /\ state'[u] = "started" /\ ~ Begun(u) /\ ~ Over(u)
    OBVIOUS
  <2>1. Target(t, u)
    BY DEF Begins
  <2>2. u # t /\ ~ Begun(u) /\ ~ Over(u) /\ state[u] = "unstart"
    BY <1>1, <2>1, TargetFacts
  <2> QED BY <1>1, <2>1, <2>2
<1>3. state[t] = "error" => rounds[t] = 1
  BY DEF Closes, Complete
<1>4. Over(t)' /\ (state'[t] = "error" => rounds'[t] <= 2)
  BY <1>1, <1>3 DEF Over
<1>5. Begun(t)'
  BY <1>1 DEF Begun
<1>6. ASSUME NEW u \in Tasks, u # t
      PROVE  (Over(u) <=> Over(u)') /\ (Begun(u) => Begun(u)') /\ (Begun(u)' => Begun(u) \/ Begins(t, u))
  <2>1. CASE Begins(t, u)
    <3>1. state[u] = "unstart" /\ state'[u] = "started"
      BY <1>2, <2>1
    <3> QED BY <2>1, <3>1 DEF Over, Begun
  <2>2. CASE ~ Begins(t, u)
    <3>1. state'[u] = state[u] /\ rounds'[u] = rounds[u]
      BY <1>1, <1>6, <2>2
    <3> QED BY <3>1 DEF Over, Begun
  <2> QED BY <2>1, <2>2
<1>7. \A u \in Tasks : /\ Over(u) => Over(u)'
                       /\ Over(u)' => Over(u) \/ u = t
                       /\ Begun(u) => Begun(u)'
                       /\ Begun(u)' => Begun(u) \/ Begins(t, u)
  <2> SUFFICES ASSUME NEW u \in Tasks
               PROVE  /\ Over(u) => Over(u)'
                      /\ Over(u)' => Over(u) \/ u = t
                      /\ Begun(u) => Begun(u)'
                      /\ Begun(u)' => Begun(u) \/ Begins(t, u)
    OBVIOUS
  <2>1. CASE u = t
    BY <1>1, <1>4, <1>5, <2>1
  <2>2. CASE u # t
    BY <1>6, <2>2
  <2> QED BY <2>1, <2>2
<1> QED BY <1>1, <1>2, <1>4, <1>5, <1>7

LEMMA BegunAfter ==
    ASSUME Inv, NEW t, NEW lists, Closes(t, lists), NEW u \in Tasks, Begun(u)
    PROVE  /\ Whole(u)' = Whole(u)
           /\ u # t => /\ state'[u] = state[u] /\ rounds'[u] = rounds[u] /\ gather'[u] = gather[u]
                       /\ queues'[u] = queues[u] /\ Members(u)' = Members(u)
                       /\ Live(u)' = Live(u) /\ Normal(u)' = Normal(u) /\ Spread(u)' = Spread(u)
                       /\ Settled(u)' = Settled(u)
<1>1. /\ t \in Tasks /\ Live(t) /\ Begun(t) /\ ~ Over(t) /\ Types /\ Pools /\ States /\ Passed(t)
      /\ \A x \in Tasks : x # t => gather'[x] = gather[x] /\ rounds'[x] = rounds[x]
      /\ state'[t] = IF state[t] = "error" THEN "error" ELSE "finished"
      /\ state[t] \in {"unstart", "started", "error"} /\ UNCHANGED procs
  BY ClosesFacts
<1>2. /\ \A x \in Tasks : Begins(t, x) => x # t /\ state[x] = "unstart" /\ state'[x] = "started"
      /\ \A x \in Tasks : x # t /\ ~ Begins(t, x) => state'[x] = state[x]
      /\ ~ Begins(t, u)
  BY StatesAfter
<1>3. ASSUME NEW p \in PrevTasks[u]
      PROVE  state'[p] \in {"finished", "no_source_data"} <=> state[p] \in {"finished", "no_source_data"}
  <2>1. p \in Tasks
    BY TaskFacts
  <2>2. CASE p = t
    <3>1. state[t] = "error"
      <4>1. ASSUME state[t] # "error" PROVE FALSE
        <5>1. ~ Begun(u)
          BY <1>1, <2>2, <4>1, NotYet
        <5> QED BY <5>1
      <4> QED BY <4>1
    <3> QED BY <1>1, <2>2, <3>1
  <2>3. CASE p # t /\ Begins(t, p)
    BY <1>2, <2>1, <2>3
  <2>4. CASE p # t /\ ~ Begins(t, p)
    BY <1>2, <2>1, <2>4
  <2> QED BY <2>2, <2>3, <2>4
<1>4. Whole(u)' = Whole(u)
  BY <1>3 DEF Whole
<1>5. ASSUME u # t
      PROVE  /\ state'[u] = state[u] /\ rounds'[u] = rounds[u] /\ gather'[u] = gather[u]
             /\ queues'[u] = queues[u] /\ Members(u)' = Members(u)
  <2>1. state'[u] = state[u] /\ rounds'[u] = rounds[u] /\ gather'[u] = gather[u]
    BY <1>1, <1>2, <1>5
  <2>2. ~ Target(t, u)
    BY <1>1, TargetFacts
  <2>3. queues'[u] = queues[u]
    BY <1>1, <2>2, MembersAfter
  <2> QED BY <2>1, <2>3 DEF Members
<1>6. ASSUME u # t
      PROVE  Live(u)' = Live(u) /\ Normal(u)' = Normal(u) /\ Spread(u)' = Spread(u) /\ Settled(u)' = Settled(u)
  <2>1. state'[u] = state[u] /\ rounds'[u] = rounds[u]
    BY <1>5, <1>6
  <2>2. Live(u)' = Live(u) /\ Settled(u)' = Settled(u)
    BY <2>1 DEF Live, Begun, Over, Settled
  <2>3. Doomed(u)' = Doomed(u)
    BY <1>4, <2>1 DEF Doomed
  <2> QED BY <2>1, <2>2, <2>3 DEF Normal, Spread
<1> QED BY <1>4, <1>5, <1>6

\* A task that begins.
LEMMA BeginsFacts ==
    ASSUME Inv, NEW t, NEW lists, Closes(t, lists), NEW u \in Tasks, Begins(t, u)
    PROVE  /\ Live(u)' /\ ~ Over(u)' /\ Begun(u)' /\ ~ Begun(u) /\ u # t /\ rounds'[u] = 0 /\ ~ Settled(u)'
           /\ \A i \in Indices : gather'[u][i] = << >>
           /\ Normal(u)' => Whole(u)' /\ ~ Spread(u)'
           /\ Spread(u)' => ~ Whole(u)' /\ ~ Normal(u)'
           /\ \A i : Whole(u)' => Go(u, i) = ToWorker("go", i, << >>)
           /\ \A i : ~ Whole(u)' => Go(u, i) = Plain("error")
           /\ \A p \in PrevTasks[u] : state'[p] \in {"finished", "no_source_data", "error"}
           /\ \A s \in Sources : procs[s] > 0 /\ u \in Reached[s] => owner'[s] = u
           /\ \E v \in Members(u)' : TRUE
<1>1. /\ t \in Tasks /\ Live(t) /\ States /\ Types /\ Passed(t) /\ UNCHANGED procs
      /\ \A x \in Tasks : x # t => gather'[x] = gather[x] /\ rounds'[x] = rounds[x]
      /\ state'[t] = IF state[t] = "error" THEN "error" ELSE "finished"
  BY ClosesFacts
<1>2. /\ Target(t, u) /\ u # t /\ state[u] = "unstart" /\ state'[u] = "started"
      /\ \A x \in Tasks : Begins(t, x) => x # t /\ state[x] = "unstart"
      /\ \A x \in Tasks : x # t /\ ~ Begins(t, x) => state'[x] = state[x]
  BY StatesAfter
<1>3. ~ Begun(u) /\ u \notin Sources
  BY <1>1, <1>2, TargetFacts
<1>4. rounds'[u] = 0 /\ \A i \in Indices : gather'[u][i] = << >>
  BY <1>1, <1>2, <1>3 DEF States
<1>5. Live(u)' /\ ~ Over(u)' /\ Begun(u)' /\ ~ Settled(u)'
  BY <1>2, <1>4 DEF Live, Over, Begun, Settled
<1>6. /\ Normal(u)' <=> Whole(u)'
      /\ Spread(u)' <=> ~ Whole(u)'
  BY <1>2, <1>5 DEF Normal, Spread, Doomed
<1>7. AllPrevFinished(u, t, owner')
  BY DEF Begins
<1>8. ASSUME NEW p \in PrevTasks[u]
      PROVE  /\ state'[p] \in {"finished", "no_source_data", "error"}
             /\ state[p] = "error" <=> state'[p] = "error"
  <2>1. p \in Tasks /\ (p = t \/ state[p] \in {"finished", "no_source_data", "error"})
    BY <1>7, TaskFacts DEF AllPrevFinished
  <2>2. CASE p = t
    BY <1>1, <2>2
  <2>3. CASE p # t
    <3>1. ~ Begins(t, p)
      BY <1>2, <2>1, <2>3
    <3> QED BY <1>2, <2>1, <2>3, <3>1
  <2> QED BY <2>2, <2>3
<1>9. (\E p \in PrevTasks[u] : state[p] = "error") <=> ~ Whole(u)'
  BY <1>8 DEF Whole
<1>10. \A i : Go(u, i) = IF Whole(u)' THEN ToWorker("go", i, << >>) ELSE Plain("error")
  BY <1>9 DEF Go
<1>11. \A s \in Sources : procs[s] > 0 /\ u \in Reached[s] => owner'[s] = u
  BY <1>7 DEF AllPrevFinished
<1>12. \E v \in Members(u)' : TRUE
  <2>1. PICK s \in Sources : s \in Joining(t, u) /\ << s, 1 >> \in Members(t)
    BY <1>1, <1>2, TargetFacts
  <2>2. << s, 1 >> \in Worker /\ Exists(<< s, 1 >>)
    BY <1>1, <2>1, MemberFacts DEF Inv
  <2>3. << s, 1 >> \in Joined(t, u)
    BY <2>1, <2>2 DEF Joined
  <2> QED BY <1>1, <2>3, MembersAfter
<1> QED BY <1>2, <1>3, <1>4, <1>5, <1>6, <1>8, <1>10, <1>11, <1>12

LEMMA ClosesPools ==
    ASSUME Inv, NEW t, NEW lists, Closes(t, lists)
    PROVE  Pools'
<1>1. /\ t \in Tasks /\ Live(t) /\ ~ Over(t) /\ Types /\ Pools /\ Passed(t)
      /\ UNCHANGED << procs, step, at, index, call, raised >>
  BY ClosesFacts
<1>2. /\ \A u \in Tasks : Over(u)' => Over(u) \/ u = t
      /\ \A u \in Tasks : Begun(u)' => Begun(u) \/ Begins(t, u)
      /\ Over(t)'
  BY StatesAfter
<1>3. ASSUME NEW u \in Tasks
      PROVE  /\ Members(u)' = Members(u) \cup Joined(t, u) /\ Joined(t, u) \subseteq Worker
             /\ \A v, w \in Members(u)' : queues'[u][v] = queues'[u][w] => v = w
  BY <1>1, MembersAfter
<1>4. \A w : Exists(w)' = Exists(w)
  BY <1>1 DEF Exists
<1>5. ASSUME NEW u \in Tasks, NEW w \in Joined(t, u)
      PROVE  /\ w \in Worker /\ Exists(w) /\ u \in Reached[w[1]] /\ owner'[w[1]] = u /\ procs[w[1]] > 0
             /\ Pos(u) <= Pos(u)
  <2>1. w[1] \in Joining(t, u) /\ Exists(w) /\ w \in Worker
    BY DEF Joined
  <2>2. Target(t, u)
    BY <2>1 DEF Target
  <2>3. u \in Reached[w[1]] /\ procs[w[1]] > 0 /\ owner'[w[1]] = u
    BY <1>1, <2>1, <2>2, TargetFacts
  <2> QED BY <2>1, <2>3, Places
<1>6. ASSUME NEW s \in Sources
      PROVE  /\ Mover(t, s) => /\ owner[s] = t
                               /\ owner'[s] # None => /\ owner'[s] \in Reached[s] /\ owner'[s] \in Tasks
                                                      /\ Pos(t) < Pos(owner'[s]) /\ s \in Joining(t, owner'[s])
             /\ ~ Mover(t, s) => owner'[s] = owner[s] /\ owner[s] # t
  BY <1>1, OwnersAfter DEF Joining
<1>7. \A s \in Sources : procs'[s] > 0 => << s, 1 >> \in Worker
  BY <1>1 DEF Pools
<1>8. \A u \in Tasks : \A w \in Members(u)' : Exists(w)' /\ u \in Reached[w[1]]
  BY <1>1, <1>3, <1>4, <1>5 DEF Pools
<1>9. \A w \in Worker : Exists(w)' => w \in Members(at[w])'
  <2> SUFFICES ASSUME NEW w \in Worker, Exists(w) PROVE w \in Members(at[w])'
    BY <1>4
  <2>1. PICK u : u = at[w]
    OBVIOUS
  <2>2. u \in Tasks /\ w \in Members(u)
    BY <1>1, <2>1 DEF Pools, Types, TypeOK
  <2>3. w \in Members(u)'
    BY <1>3, <2>2
  <2>4. at'[w] = u
    BY <1>1, <2>1
  <2> QED BY <2>3, <2>4 DEF Members
<1>10. ASSUME NEW s \in Sources, owner'[s] # None
       PROVE  /\ procs'[s] > 0 /\ owner'[s] \in Reached[s] /\ ~ Over(owner[s])'
              /\ \A w \in Worker : w[1] = s /\ Exists(w)' => w \in Members(owner[s])'
  <2>1. PICK u : u = owner'[s]
    OBVIOUS
  <2>2. CASE Mover(t, s)
    <3>1. u \in Reached[s] /\ u \in Tasks /\ s \in Joining(t, u) /\ procs[s] > 0
      BY <1>6, <1>10, <2>1, <2>2 DEF Mover
    <3>2. Target(t, u)
      BY <3>1 DEF Target
    <3>3. ~ Over(u) /\ u # t
      BY <1>1, <3>1, <3>2, TargetFacts
    <3>4. ~ Over(u)'
      BY <1>2, <3>1, <3>3
    <3>5. \A w \in Worker : w[1] = s /\ Exists(w) => w \in Members(u)'
      BY <1>3, <3>1 DEF Joined
    <3> QED BY <1>1, <1>4, <2>1, <3>1, <3>4, <3>5 DEF Over, Members
  <2>3. CASE ~ Mover(t, s)
    <3>1. owner[s] = u /\ u # t /\ u # None
      BY <1>6, <1>10, <2>1, <2>3
    <3>2. /\ procs[s] > 0 /\ u \in Reached[s] /\ ~ Over(u)
          /\ \A w \in Worker : w[1] = s /\ Exists(w) => w \in Members(u)
      BY <1>1, <3>1 DEF Pools
    <3>3. u \in Tasks
      BY <3>2, ReachedFacts
    <3>4. ~ Over(u)'
      BY <1>2, <3>1, <3>2, <3>3
    <3>5. \A w \in Worker : w[1] = s /\ Exists(w) => w \in Members(u)'
      BY <1>3, <3>2, <3>3
    <3> QED BY <1>1, <1>4, <2>1, <3>2, <3>4, <3>5 DEF Over, Members
  <2> QED BY <2>2, <2>3
<1>11. ASSUME NEW u \in Tasks, NEW w \in Members(u)'
       PROVE  /\ owner'[w[1]] # None => Pos(u) <= Pos(owner'[w[1]])
              /\ ~ Over(u)' => owner'[w[1]] = u
  <2>1. CASE w \in Joined(t, u)
    BY <1>5, <2>1
  <2>2. CASE w \in Members(u) /\ Mover(t, w[1])
    <3>1. w \in Worker /\ w[1] \in Sources
      BY <1>1, <2>2, MemberFacts, WorkerFacts
    <3>2. owner[w[1]] = t /\ t # None
      BY <1>1, <1>6, <2>2, <3>1, TaskFacts
    <3>3. Pos(u) <= Pos(t)
      BY <1>1, <2>2, <3>2 DEF Pools
    <3>4. Over(u) \/ u = t
      BY <1>1, <2>2, <3>2 DEF Pools
    <3>5. Over(u)'
      BY <1>2, <3>4, StatesAfter
    <3>6. owner'[w[1]] # None => Pos(t) < Pos(owner'[w[1]]) /\ owner'[w[1]] \in Tasks
      BY <1>6, <2>2, <3>1
    <3>7. Pos(u) \in Nat /\ Pos(t) \in Nat /\ \A x \in Tasks : Pos(x) \in Nat
      BY <1>1, Places
    <3>8. owner'[w[1]] # None => Pos(u) <= Pos(owner'[w[1]])
      BY <3>3, <3>6, <3>7
    <3> QED BY <3>5, <3>8
  <2>3. CASE w \in Members(u) /\ ~ Mover(t, w[1])
    <3>1. w \in Worker /\ w[1] \in Sources
      BY <1>1, <2>3, MemberFacts, WorkerFacts
    <3>2. owner'[w[1]] = owner[w[1]]
      BY <1>6, <2>3, <3>1
    <3>3. /\ owner[w[1]] # None => Pos(u) <= Pos(owner[w[1]])
          /\ ~ Over(u) => owner[w[1]] = u
      BY <1>1, <2>3 DEF Pools
    <3>4. Over(u) => Over(u)'
      BY StatesAfter
    <3> QED BY <3>2, <3>3, <3>4
  <2> QED BY <1>3, <2>1, <2>2, <2>3
<1>12. ASSUME NEW u \in Tasks, NEW s \in Sources, procs[s] > 0, u \in Reached[s]
       PROVE  /\ Live(u)' => owner'[s] = u
              /\ Begun(u)' /\ owner'[s] # None => Pos(u) <= Pos(owner'[s])
  <2>1. Pos(u) \in Nat /\ Pos(t) \in Nat /\ \A x \in Tasks : Pos(x) \in Nat
    BY <1>1, Places
  <2>2. CASE Begins(t, u)
    BY <1>12, <2>1, <2>2, BeginsFacts
  <2>3. CASE Begun(u) /\ Mover(t, s)
    <3>1. owner[s] = t /\ t # None
      BY <1>1, <1>6, <2>3, TaskFacts
    <3>2. Pos(u) <= Pos(t) /\ (Live(u) => u = t)
      BY <1>1, <1>12, <2>3, <3>1 DEF Pools
    <3>3. owner'[s] # None => Pos(t) < Pos(owner'[s]) /\ owner'[s] \in Tasks
      BY <1>6, <2>3
    <3>4. owner'[s] # None => Pos(u) <= Pos(owner'[s])
      BY <2>1, <3>2, <3>3
    <3>5. ~ Live(u)'
      <4>1. CASE u = t
        BY <1>2, <4>1 DEF Live
      <4>2. CASE u # t
        BY <2>3, <3>2, <4>2, BegunAfter
      <4> QED BY <4>1, <4>2
    <3> QED BY <3>4, <3>5
  <2>4. CASE Begun(u) /\ ~ Mover(t, s)
    <3>1. owner'[s] = owner[s] /\ owner[s] # t
      BY <1>6, <2>4
    <3>2. u # t
      BY <1>12, <2>4 DEF Mover
    <3>3. Live(u)' = Live(u)
      BY <2>4, <3>2, BegunAfter
    <3> QED BY <1>1, <1>12, <2>4, <3>1, <3>3 DEF Pools
  <2>5. CASE ~ Begun(u) /\ ~ Begins(t, u)
    <3>1. ~ Begun(u)'
      BY <1>2, <2>5
    <3> QED BY <3>1 DEF Live
  <2> QED BY <2>2, <2>3, <2>4, <2>5
<1> QED BY <1>1, <1>3, <1>7, <1>8, <1>9, <1>10, <1>11, <1>12 DEF Pools

LEMMA ClosesStates ==
    ASSUME Inv, NEW t, NEW lists, Closes(t, lists)
    PROVE  States'
<1>1. /\ t \in Tasks /\ Live(t) /\ Begun(t) /\ Types /\ States /\ Passed(t)
      /\ UNCHANGED << procs, step, at, index, call, raised >>
      /\ gather'[t] = Rest(lists) /\ lists \in [Indices -> Seq(ValueSet)]
      /\ \A u \in Tasks : u # t => gather'[u] = gather[u] /\ rounds'[u] = rounds[u]
      /\ state'[t] = IF state[t] = "error" THEN "error" ELSE "finished"
  BY ClosesFacts
<1>2. /\ Begun(t)' /\ (state'[t] = "error" => rounds'[t] <= 2)
      /\ \A u \in Tasks : Begun(u) => Begun(u)'
      /\ \A u \in Tasks : Begins(t, u) => Target(t, u) /\ u # t /\ state[u] = "unstart" /\ state'[u] = "started"
      /\ \A u \in Tasks : u # t /\ ~ Begins(t, u) => state'[u] = state[u]
  BY StatesAfter
<1>3. state[t] # "no_source_data" /\ state'[t] # "no_source_data" /\ (state[t] # "error" => Whole(t))
  BY <1>1 DEF Live, Closes, Complete
<1>4. ASSUME NEW p \in Tasks, state[p] \in {"finished", "no_source_data", "error"}
      PROVE  state'[p] \in {"finished", "no_source_data", "error"}
  <2>1. CASE p = t
    BY <1>1, <2>1
  <2>2. CASE p # t
    <3>1. ~ Begins(t, p)
      BY <1>2, <1>4
    <3> QED BY <1>2, <1>4, <2>2, <3>1
  <2> QED BY <2>1, <2>2
<1>5. ASSUME NEW u \in Tasks
      PROVE  /\ state'[u] = "no_source_data" <=> \A s \in Sources : u \in Reached[s] => procs'[s] = 0
             /\ u \in Sources => state'[u] # "started"
  <2>1. state'[u] = "no_source_data" <=> state[u] = "no_source_data"
    BY <1>2, <1>3
  <2>2. state[u] = "no_source_data" <=> \A s \in Sources : u \in Reached[s] => procs[s] = 0
    BY <1>1 DEF States
  <2>3. ASSUME u \in Sources PROVE state'[u] # "started"
    <3>1. CASE u = t
      BY <1>1, <3>1
    <3>2. CASE u # t
      <4>1. ~ Begins(t, u)
        BY <1>1, <1>2, <2>3, TargetFacts
      <4> QED BY <1>1, <1>2, <2>3, <3>2, <4>1 DEF States
    <3> QED BY <3>1, <3>2
  <2> QED BY <1>1, <2>1, <2>2, <2>3
<1>6. ASSUME NEW u \in Tasks, state'[u] \in {"started", "error", "finished"}
      PROVE  \A p \in PrevTasks[u] : state'[p] \in {"finished", "no_source_data", "error"}
  <2>1. CASE Begins(t, u)
    BY <2>1, BeginsFacts
  <2>2. CASE ~ Begins(t, u)
    <3>1. \A p \in PrevTasks[u] : state[p] \in {"finished", "no_source_data", "error"}
      <4>1. CASE u = t /\ state[t] # "error"
        BY <1>3, <4>1 DEF Whole
      <4>2. CASE ~ (u = t /\ state[t] # "error")
        <5>1. state[u] \in {"started", "error", "finished"}
          BY <1>2, <1>6, <2>2, <4>2
        <5> QED BY <1>1, <5>1 DEF States
      <4> QED BY <4>1, <4>2
    <3> QED BY <1>4, <3>1, TaskFacts
  <2> QED BY <2>1, <2>2
<1>7. ASSUME NEW u \in Tasks, state'[u] = "finished" PROVE Whole(u)'
  <2>1. ~ Begins(t, u)
    BY <1>2, <1>7
  <2>2. Whole(u) /\ Begun(u)
    <3>1. CASE u = t
      BY <1>1, <1>3, <1>7, <3>1
    <3>2. CASE u # t
      <4>1. state[u] = "finished"
        BY <1>2, <1>7, <2>1, <3>2
      <4> QED BY <1>1, <4>1 DEF States, Begun
    <3> QED BY <3>1, <3>2
  <2> QED BY <2>2, BegunAfter
<1>8. ASSUME NEW u \in Tasks, ~ Begun(u)' PROVE rounds'[u] = 0 /\ \A i \in Indices : gather'[u][i] = << >>
  <2>1. ~ Begun(u) /\ u # t
    BY <1>2, <1>8
  <2> QED BY <1>1, <2>1 DEF States
<1>9. ASSUME NEW u \in Tasks, NEW i \in Indices, gather'[u][i] # << >> PROVE i \in Range(queues'[u])
  <2>1. i \in Range(queues[u])
    <3>1. CASE u = t
      <4>1. lists[i] # << >>
        BY <1>1, <1>9, <3>1, RestFacts
      <4> QED BY <3>1, <4>1 DEF Closes, Complete
    <3>2. CASE u # t
      BY <1>1, <1>9, <3>2 DEF States
    <3> QED BY <3>1, <3>2
  <2>2. PICK v \in Members(u) : i = queues[u][v]
    BY <2>1 DEF Range, Members
  <2>3. v \in Members(u)' /\ queues'[u][v] = i
    BY <1>1, <2>2, MembersAfter
  <2> QED BY <2>3 DEF Range, Members
<1>10. ASSUME NEW u \in Tasks, state'[u] = "error" PROVE rounds'[u] <= 2
  <2>1. CASE u = t
    BY <1>2, <1>10, <2>1
  <2>2. CASE u # t
    <3>1. state[u] = "error"
      BY <1>2, <1>10, <2>2
    <3> QED BY <1>1, <2>2, <3>1 DEF States
  <2> QED BY <2>1, <2>2
<1> QED BY <1>5, <1>6, <1>7, <1>8, <1>9, <1>10 DEF States

LEMMA GoTypes ==
    /\ \A i \in Nat : ToWorker("go", i, << >>) \in Answer /\ ToWorker("go", i, << >>).msg = "go"
                      /\ ToWorker("go", i, << >>).idx = i
    /\ \A u, i : Go(u, i) = Plain("error") \/ Go(u, i) = ToWorker("go", i, << >>)
    /\ \A u : \A i \in Nat : Go(u, i) \in Answer /\ Go(u, i).msg \in {"go", "error"}
<1>1. << >> \in ListSet
  <2>1. << >> \in [{} -> ValueSet] /\ {} \in SUBSET Indices
    OBVIOUS
  <2> QED BY <2>1 DEF ListSet
<1>2. \A i \in Nat : ToWorker("go", i, << >>) \in Answer /\ ToWorker("go", i, << >>).msg = "go"
                     /\ ToWorker("go", i, << >>).idx = i
  BY <1>1 DEF ToWorker, Answer
<1>3. \A u, i : Go(u, i) = Plain("error") \/ Go(u, i) = ToWorker("go", i, << >>)
  BY DEF Go
<1>4. Plain("error") \in Answer /\ Plain("error").msg = "error"
  BY PlainTypes
<1>5. ASSUME NEW u, NEW i \in Nat PROVE Go(u, i) \in Answer /\ Go(u, i).msg \in {"go", "error"}
  <2>1. CASE Go(u, i) = Plain("error")
    BY <1>4, <2>1
  <2>2. CASE Go(u, i) = ToWorker("go", i, << >>)
    BY <1>2, <2>2
  <2> QED BY <1>3, <2>1, <2>2
<1> QED BY <1>2, <1>3, <1>5

\* What a worker is sent besides: its leave to start on the task its pool is in.
LEMMA LeaveFacts ==
    ASSUME Inv, NEW t, NEW lists, Closes(t, lists), NEW v \in Worker, NEW u, u = owner'[v[1]]
    PROVE  /\ Leave(t, v) \in Seq(Answer)
           /\ u \in Tasks /\ Begins(t, u) /\ v \in Members(u)' =>
                 /\ Leave(t, v) = << Go(u, queues'[u][v]) >> /\ Go(u, queues'[u][v]) \in Answer
                 /\ queues'[u][v] \in Nat
           /\ ~ (u \in Tasks /\ Begins(t, u) /\ v \in Members(u)') => Leave(t, v) = << >>
<1>1. t \in Tasks /\ Live(t) /\ Passed(t) /\ UNCHANGED procs
  BY ClosesFacts
<1>2. Members(u)' = DOMAIN queues'[u]
  BY DEF Members
<1>3. Leave(t, v) = IF u \in Tasks /\ Begins(t, u) /\ v \in Members(u)' THEN << Go(u, queues'[u][v]) >> ELSE << >>
  BY <1>2 DEF Leave
<1>4. CASE u \in Tasks /\ Begins(t, u) /\ v \in Members(u)'
  <2>1. queues'[u][v] \in Indices
    BY <1>1, <1>4, MembersAfter
  <2>2. queues'[u][v] \in Nat
    BY <2>1, WorkersFinite DEF Indices
  <2>3. Go(u, queues'[u][v]) \in Answer
    BY <2>2, GoTypes
  <2> QED BY <1>3, <1>4, <2>2, <2>3, PlainTypes
<1>5. CASE ~ (u \in Tasks /\ Begins(t, u) /\ v \in Members(u)')
  BY <1>3, <1>5, PlainTypes
<1> QED BY <1>4, <1>5

LEMMA TwoLetters ==
    ASSUME NEW x \in Answer, NEW g \in Answer, NEW q, q = << x >> \o << g >>
    PROVE  q[1] = x /\ q[2] = g /\ Len(q) = 2 /\ DOMAIN q = {1, 2} /\ q # << >> /\ Head(q) = x
<1>1. << x >> \in Seq(Answer) /\ << g >> \in Seq(Answer) /\ Len(<< x >>) = 1 /\ Len(<< g >>) = 1
      /\ << x >>[1] = x /\ << g >>[1] = g
  BY PlainTypes
<1>2. q \in Seq(Answer) /\ Len(q) = 2 /\ q[1] = x /\ q[2] = g
  <2>1. /\ q \in Seq(Answer) /\ Len(q) = Len(<< x >>) + Len(<< g >>)
        /\ \A i \in 1 .. Len(<< x >>) + Len(<< g >>) :
              q[i] = IF i <= Len(<< x >>) THEN << x >>[i] ELSE << g >>[i - Len(<< x >>)]
    BY <1>1, ConcatProperties
  <2> QED BY <1>1, <2>1
<1>3. DOMAIN q = {1, 2} /\ q # << >>
  <2>1. DOMAIN q = 1 .. 2
    BY <1>2, LenProperties
  <2>2. q # << >>
    BY <1>2, EmptySeq
  <2> QED BY <2>1, <2>2
<1>4. Head(q) = q[1]
  BY <1>2, <1>3, HeadTailProperties
<1> QED BY <1>2, <1>3, <1>4

LEMMA GoneInbox ==
    ASSUME Inv, NEW t, NEW lists, Closes(t, lists), NEW v \in Members(t), Alive(v), NEW u, u = owner'[v[1]]
    PROVE  /\ inbox'[v] # << >> /\ inbox'[v][1].msg = "finished"
           /\ u \in Tasks /\ Begins(t, u) =>
                 /\ Len(inbox'[v]) = 2 /\ DOMAIN inbox'[v] = {1, 2} /\ inbox'[v][2] = Go(u, queues'[u][v])
                 /\ v \in Members(u)'
           /\ ~ (u \in Tasks /\ Begins(t, u)) => Len(inbox'[v]) = 1 /\ DOMAIN inbox'[v] = {1}
           /\ u = NextIn(v[1], t) /\ Ahead(v)' /\ Now(v)' = u
<1>1. t \in Tasks /\ Live(t) /\ Types /\ Passed(t) /\ UNCHANGED << procs, step, at, index, call, raised >>
  BY ClosesFacts
<1>2. v \in Worker /\ Exists(v) /\ v[1] \in Sources /\ Mover(t, v[1])
  <2>1. v \in Worker
    BY <1>1, MemberFacts DEF Inv
  <2> QED BY <1>1, <2>1, MoversMembers, WorkerFacts
<1>3. u = NextIn(v[1], t)
  BY <1>2 DEF Closes, Passed
<1>4. inbox[v] = << >> /\ at[v] = t
  BY DEF Closes, Complete
<1>5. inbox'[v] = << Plain("finished") >> \o Leave(t, v)
  <2>1. inbox'[v] = ToTask(t, << Plain("finished") >>)[v] \o Leave(t, v)
    BY <1>1, <1>2 DEF Passed
  <2>2. ToTask(t, << Plain("finished") >>)[v] = inbox[v] \o << Plain("finished") >>
    BY <1>2 DEF ToTask
  <2>3. << >> \o << Plain("finished") >> = << Plain("finished") >>
    BY PlainTypes, ConcatEmptySeq
  <2> QED BY <1>4, <2>1, <2>2, <2>3
<1>6. PICK x : x = Plain("finished")
  OBVIOUS
<1>7. x \in Answer /\ x.msg = "finished"
  BY <1>6, PlainTypes
<1>8. ASSUME u \in Tasks, Begins(t, u)
      PROVE  /\ inbox'[v][1] = x /\ inbox'[v][2] = Go(u, queues'[u][v]) /\ v \in Members(u)'
             /\ Len(inbox'[v]) = 2 /\ DOMAIN inbox'[v] = {1, 2} /\ inbox'[v] # << >> /\ Head(inbox'[v]) = x
  <2>1. v \in Members(u)'
    <3>1. v \in Joined(t, u)
      BY <1>2 DEF Joined, Joining
    <3> QED BY <1>1, <1>8, <3>1, MembersAfter
  <2>2. PICK g : g = Go(u, queues'[u][v])
    OBVIOUS
  <2>3. Leave(t, v) = << g >> /\ g \in Answer
    BY <1>2, <1>8, <2>1, <2>2, LeaveFacts
  <2>4. PICK q : q = inbox'[v]
    OBVIOUS
  <2>5. q = << x >> \o << g >>
    BY <1>5, <1>6, <2>3, <2>4
  <2>6. q[1] = x /\ q[2] = g /\ Len(q) = 2 /\ DOMAIN q = {1, 2} /\ q # << >> /\ Head(q) = x
    BY <1>7, <2>3, <2>5, TwoLetters
  <2> QED BY <2>1, <2>2, <2>4, <2>6
<1>9. ASSUME ~ (u \in Tasks /\ Begins(t, u))
      PROVE  inbox'[v] = << x >>
  <2>1. Leave(t, v) = << >>
    BY <1>2, <1>9, LeaveFacts
  <2>2. << x >> \o << >> = << x >>
    OBVIOUS
  <2> QED BY <1>5, <1>6, <2>1, <2>2
<1>10. /\ << x >>[1] = x /\ Len(<< x >>) = 1 /\ DOMAIN << x >> = {1} /\ << x >> # << >>
       /\ Head(<< x >>) = x
  OBVIOUS
<1>11. inbox'[v] # << >> /\ inbox'[v][1] = x /\ Head(inbox'[v]) = x
  BY <1>8, <1>9, <1>10
<1>12. Ahead(v)'
  BY <1>7, <1>11 DEF Ahead, Got
<1>13. Now(v)' = u
  BY <1>1, <1>3, <1>4, <1>12 DEF Now
<1>14. u \in Tasks /\ Begins(t, u) =>
                 /\ Len(inbox'[v]) = 2 /\ DOMAIN inbox'[v] = {1, 2} /\ inbox'[v][2] = Go(u, queues'[u][v])
                 /\ v \in Members(u)'
  BY <1>8, <1>10
<1>15. ~ (u \in Tasks /\ Begins(t, u)) => Len(inbox'[v]) = 1 /\ DOMAIN inbox'[v] = {1}
  BY <1>9, <1>10
<1> QED BY <1>3, <1>7, <1>11, <1>12, <1>13, <1>14, <1>15

LEMMA StayInbox ==
    ASSUME Inv, NEW t, NEW lists, Closes(t, lists), NEW v \in Worker, v \notin Members(t), Exists(v),
           NEW u, u = owner[v[1]]
    PROVE  /\ owner'[v[1]] = u /\ u # t
           /\ ~ (u \in Tasks /\ Begins(t, u)) => inbox'[v] = inbox[v]
           /\ u \in Tasks /\ Begins(t, u) =>
                 /\ v \in Members(u) /\ v \in Members(u)' /\ queues'[u][v] \in Nat
                 /\ Written(v, << Go(u, queues'[u][v]) >>)
<1>1. t \in Tasks /\ Live(t) /\ Types /\ Pools /\ Passed(t) /\ UNCHANGED << procs, step, at, index, call, raised >>
  BY ClosesFacts
<1>2. v[1] \in Sources /\ ~ Mover(t, v[1])
  BY <1>1, WorkerFacts, MoversMembers
<1>3. owner'[v[1]] = u /\ u # t
  BY <1>1, <1>2, OwnersAfter
<1>4. inbox'[v] = inbox[v] \o Leave(t, v)
  <2>1. inbox'[v] = ToTask(t, << Plain("finished") >>)[v] \o Leave(t, v)
    BY <1>1, <1>2 DEF Passed
  <2>2. ToTask(t, << Plain("finished") >>)[v] = inbox[v]
    BY <1>2 DEF ToTask
  <2> QED BY <2>1, <2>2
<1>5. ASSUME ~ (u \in Tasks /\ Begins(t, u)) PROVE inbox'[v] = inbox[v]
  <2>1. Leave(t, v) = << >>
    BY <1>3, <1>5, LeaveFacts
  <2>2. inbox[v] \in Seq(Answer)
    BY <1>1 DEF Types
  <2> QED BY <1>4, <2>1, <2>2, ConcatEmptySeq
<1>6. ASSUME u \in Tasks, Begins(t, u)
      PROVE  v \in Members(u) /\ v \in Members(u)' /\ queues'[u][v] \in Nat /\ Written(v, << Go(u, queues'[u][v]) >>)
  <2>1. v \in Members(u)
    BY <1>1, <1>2, <1>6, TaskFacts DEF Pools
  <2>2. v \in Members(u)'
    BY <1>1, <1>6, <2>1, MembersAfter
  <2>3. /\ Leave(t, v) = << Go(u, queues'[u][v]) >> /\ Go(u, queues'[u][v]) \in Answer
        /\ queues'[u][v] \in Nat
    BY <1>3, <1>6, <2>2, LeaveFacts
  <2>4. << Go(u, queues'[u][v]) >> \in Seq(Answer)
    BY <2>3, PlainTypes
  <2> QED BY <1>4, <2>1, <2>2, <2>3, <2>4 DEF Written
<1> QED BY <1>3, <1>5, <1>6

\* A worker of another pool that waits for the task that begins.
LEMMA WaitingInbox ==
    ASSUME Inv, manager = "running", NEW t, NEW lists, Closes(t, lists), NEW v \in Worker, v \notin Members(t),
           Exists(v), Alive(v), NEW u \in Tasks, u = owner[v[1]], Begins(t, u)
    PROVE  /\ Now(v) = u /\ v \in Members(u) /\ queues'[u][v] \in Nat /\ (Ahead(v)' <=> Ahead(v))
           /\ \A k \in DOMAIN inbox[v] : inbox'[v][k] = inbox[v][k]
           /\ at[v] = u => /\ step[v] = "go" /\ Len(inbox'[v]) = 1 /\ DOMAIN inbox'[v] = {1} /\ inbox[v] = << >>
                           /\ inbox'[v][1] = Go(u, queues'[u][v])
           /\ at[v] # u => /\ Ahead(v) /\ Len(inbox'[v]) = 2 /\ DOMAIN inbox'[v] = {1, 2} /\ DOMAIN inbox[v] = {1}
                           /\ inbox'[v][1] = inbox[v][1] /\ inbox[v][1].msg = "finished"
                           /\ inbox'[v][2] = Go(u, queues'[u][v])
<1>1. t \in Tasks /\ Live(t) /\ Types /\ Pools /\ Passed(t)
  BY ClosesFacts
<1>2. v \in Members(u) /\ queues'[u][v] \in Nat /\ Written(v, << Go(u, queues'[u][v]) >>)
  BY StayInbox
<1>3. Placed(v) /\ Now(v) = u
  <2>1. Placed(v)
    BY DEF Inv, Letters
  <2> QED BY <2>1 DEF Placed
<1>4. ~ Begun(u)
  BY BeginsFacts
<1>5. Idle(u, v)
  BY <1>2, <1>4 DEF Inv, Running, Protocol
<1>6. PICK g : g = Go(u, queues'[u][v])
  OBVIOUS
<1>7. PICK q : Written(v, q) /\ Len(q) = 1 /\ DOMAIN q = {1} /\ q[1] = g
  BY <1>2, <1>6
<1>8. PICK n \in Nat : n = Len(inbox[v]) /\ DOMAIN inbox[v] = 1 .. n /\ (inbox[v] # << >> => n >= 1)
  BY <1>1, QueueFacts
<1>9. /\ Len(inbox'[v]) = n + 1 /\ DOMAIN inbox'[v] = 1 .. n + 1 /\ inbox'[v] \in Seq(Answer)
      /\ \A k \in DOMAIN inbox[v] : inbox'[v][k] = inbox[v][k]
  BY <1>1, <1>7, <1>8, WrittenQueue
<1>10. inbox'[v][n + 1] = g
  <2>1. n + 1 \in DOMAIN inbox'[v] \ DOMAIN inbox[v] /\ n + 1 - n = 1
    BY <1>8, <1>9
  <2>2. \A k \in DOMAIN inbox'[v] \ DOMAIN inbox[v] : inbox'[v][k] = q[k - Len(inbox[v])]
    BY <1>1, <1>7, WrittenQueue
  <2>3. inbox'[v][n + 1] = q[n + 1 - n]
    BY <1>8, <2>1, <2>2
  <2> QED BY <1>7, <2>1, <2>3
<1>11. g.msg \in {"go", "error"}
  BY <1>2, <1>6, GoTypes
<1>12. inbox'[v] # << >> /\ Head(inbox'[v]) = inbox'[v][1]
  <2>1. inbox'[v] # << >>
    BY <1>8, <1>9, EmptySeq
  <2> QED BY <1>9, <2>1, HeadTailProperties
<1>13. CASE at[v] = u
  <2>1. step[v] = "go" /\ inbox[v] = << >>
    BY <1>5, <1>13 DEF Idle
  <2>2. n = 0
    BY <1>8, <2>1, EmptySeq
  <2>3. inbox'[v][1] = g /\ Len(inbox'[v]) = 1 /\ DOMAIN inbox'[v] = {1}
    BY <1>9, <1>10, <2>2
  <2>4. ~ Ahead(v)'
    BY <1>11, <1>12, <2>3 DEF Ahead, Got
  <2>5. ~ Ahead(v)
    BY <2>1 DEF Ahead
  <2> QED BY <1>2, <1>3, <1>6, <1>9, <1>13, <2>1, <2>3, <2>4, <2>5
<1>14. CASE at[v] # u
  <2>1. n = 1
    BY <1>5, <1>8, <1>14 DEF Idle
  <2>2. Ahead(v)
    BY <1>3, <1>14 DEF Now
  <2>3. inbox[v][1].msg = "finished"
    BY <1>1, <2>2, QueueFacts DEF Ahead
  <2>4. inbox'[v][1] = inbox[v][1] /\ inbox'[v][2] = g /\ Len(inbox'[v]) = 2 /\ DOMAIN inbox'[v] = {1, 2}
        /\ DOMAIN inbox[v] = {1}
    BY <1>8, <1>9, <1>10, <2>1
  <2>5. Ahead(v)'
    BY <1>12, <2>3, <2>4 DEF Ahead, Got
  <2> QED BY <1>2, <1>3, <1>6, <1>9, <1>14, <2>2, <2>3, <2>4, <2>5
<1> QED BY <1>13, <1>14

LEMMA ClosesTypes ==
    ASSUME Inv, NEW t, NEW lists, Closes(t, lists), mqueue' \in [Worker -> Seq(Message)]
    PROVE  Types'
<1>1. /\ t \in Tasks /\ Live(t) /\ Types /\ Passed(t) /\ UNCHANGED << procs, step, at, index, call, raised >>
      /\ lists \in [Indices -> Seq(ValueSet)]
  BY ClosesFacts
<1>2. /\ owner \in [Sources -> Tasks \cup {None}] /\ rounds \in [Tasks -> Nat]
      /\ gather \in [Tasks -> [Indices -> Seq(ValueSet)]]
      /\ state \in [Tasks -> {"unstart", "started", "finished", "error", "no_source_data"}]
      /\ inbox \in [Worker -> Seq(Answer)]
  BY <1>1 DEF Types, TypeOK, ValueSet
<1>3. owner' \in [Sources -> Tasks \cup {None}]
  <2>1. owner' = [s \in Sources |-> owner'[s]]
    BY <1>1 DEF Passed
  <2>2. \A s \in Sources : owner'[s] \in Tasks \cup {None}
    BY <1>1, OwnersAfter
  <2> QED BY <2>1, <2>2
<1>4. gather' \in [Tasks -> [Indices -> Seq(ValueSet)]]
  <2>1. Rest(lists) \in [Indices -> Seq(ValueSet)]
    BY <1>1, RestFacts
  <2> QED BY <1>2, <2>1 DEF Closes
<1>5. rounds' \in [Tasks -> Nat]
  <2>1. rounds[t] + 1 \in Nat
    BY <1>1, <1>2
  <2> QED BY <1>2, <2>1 DEF Closes
<1>6. state' \in [Tasks -> {"unstart", "started", "finished", "error", "no_source_data"}]
  <2>1. \A u \in Tasks : (IF u = t THEN Outcome(t) ELSE IF Begins(t, u) THEN "started" ELSE state[u])
                            \in {"unstart", "started", "finished", "error", "no_source_data"}
    BY <1>2 DEF Outcome
  <2> QED BY <1>1, <2>1 DEF Passed
<1>7. inbox' \in [Worker -> Seq(Answer)]
  <2>1. ASSUME NEW v \in Worker PROVE inbox'[v] \in Seq(Answer)
    <3>1. inbox'[v] = ToTask(t, << Plain("finished") >>)[v] \o Leave(t, v)
      BY <1>1 DEF Passed
    <3>2. Leave(t, v) \in Seq(Answer)
      BY LeaveFacts
    <3>3. ToTask(t, << Plain("finished") >>)[v] \in Seq(Answer)
      <4>1. << Plain("finished") >> \in Seq(Answer) /\ inbox[v] \in Seq(Answer)
        BY <1>2, PlainTypes
      <4>2. inbox[v] \o << Plain("finished") >> \in Seq(Answer)
        BY <4>1, ConcatProperties
      <4> QED BY <4>1, <4>2 DEF ToTask
    <3> QED BY <3>1, <3>2, <3>3, ConcatProperties
  <2>2. inbox' = [v \in Worker |-> inbox'[v]]
    BY <1>1 DEF Passed
  <2> QED BY <2>1, <2>2
<1>8. \A u \in Tasks : queues'[u] \in [Members(u)' -> 1 .. Cardinality(Members(u)')] /\ Members(u)' \subseteq Worker
  BY <1>1, MembersAfter
<1>9. manager' \in {"running", "ended"}
  BY DEF Closes
<1>10. /\ procs' \in [Sources -> Nat] /\ at' \in [Worker -> Tasks]
       /\ step' \in [Worker -> {"go", "run", "collect", "finished_sync", "error_sync", "after_error", "exited"}]
       /\ index' \in [Worker -> Nat] /\ call' \in [Worker -> Nat] /\ raised' \subseteq Worker \X Tasks
  BY <1>1 DEF Types, TypeOK
<1>11. TypeOK'
  BY <1>3, <1>4, <1>6, <1>8, <1>9, <1>10 DEF TypeOK, ValueSet
<1> QED BY <1>5, <1>7, <1>10, <1>11 DEF Types

LEMMA GoLetter ==
    ASSUME NEW v, NEW k, NEW u \in Tasks, Now(v)' = u, Begun(u)', queues'[u][v] \in Nat,
           (k = 1 /\ step'[v] = "go") \/ (k = 2 /\ Ahead(v)'), inbox'[v][k] = Go(u, queues'[u][v]),
           \A i : Whole(u)' => Go(u, i) = ToWorker("go", i, << >>),
           \A i : ~ Whole(u)' => Go(u, i) = Plain("error")
    PROVE  Letter(v, k)'
<1>1. CASE ~ Whole(u)'
  <2>1. inbox'[v][k].msg = "error"
    BY <1>1, PlainTypes
  <2> QED BY <2>1, ErrorLetter
<1>2. CASE Whole(u)'
  <2>1. inbox'[v][k].msg = "go" /\ inbox'[v][k].idx = queues'[u][v]
    <3>1. PICK i \in Nat : i = queues'[u][v]
      OBVIOUS
    <3> QED BY <1>2, <3>1, GoTypes
  <2>2. Begun(Now(v))'
    BY DEF Begun
  <2>3. Whole(Now(v))'
    BY <1>2 DEF Whole
  <2>4. Now(v)' \in Tasks /\ queues'[Now(v)'][v] = queues'[u][v]
    OBVIOUS
  <2>5. inbox'[v][k].idx = queues'[Now(v)'][v]
    BY <2>1, <2>4
  <2> QED BY <2>1, <2>2, <2>3, <2>4, <2>5 DEF Letter
<1> QED BY <1>1, <1>2

LEMMA StayLetter ==
    ASSUME Inv, NEW t, NEW lists, Closes(t, lists), NEW v \in Worker, v \notin Members(t), Alive(v),
           Ahead(v)' <=> Ahead(v), inbox'[v] = inbox[v], NEW k \in DOMAIN inbox[v]
    PROVE  Letter(v, k)'
<1>1. /\ t \in Tasks /\ Types /\ Pools /\ UNCHANGED << procs, step, at, index, call, raised >>
  BY ClosesFacts
<1>2. Placed(v) /\ Letter(v, k) /\ Exists(v) /\ owner[v[1]] = Now(v)
  BY DEF Inv, Letters, Placed
<1>3. PICK x : x = at[v]
  OBVIOUS
<1>4. x \in Tasks /\ v \in Members(x) /\ x # t
  BY <1>1, <1>2, <1>3 DEF Pools, Types, TypeOK
<1>5. Now(v) # t
  BY <1>2, StayInbox
<1>6. Now(v)' = Now(v)
  BY <1>1 DEF Now
<1>7. PICK m : m = inbox[v][k]
  OBVIOUS
<1>8. m = inbox'[v][k]
  BY <1>7
<1>9. /\ m.msg = "finished" => k = 1
      /\ m.msg \in {"gather", "all_gather"} => k = 1 /\ Collected(v, m)
      /\ m.msg = "error_gather" =>
            step[v] = "error_sync" /\ state[x] = "error" /\ \A j \in 1 .. k - 1 : inbox[v][j].msg = "error"
      /\ m.msg = "go" =>
            /\ (k = 1 /\ step[v] = "go") \/ (k = 2 /\ Ahead(v))
            /\ Now(v) \in Tasks /\ Begun(Now(v)) /\ Whole(Now(v)) /\ m.idx = queues[Now(v)][v]
  BY <1>2, <1>3, <1>7 DEF Letter
<1>10. ASSUME Begun(x) PROVE queues'[x] = queues[x] /\ Members(x)' = Members(x) /\ state'[x] = state[x]
  BY <1>4, <1>10, BegunAfter
<1>11. m.msg \in {"gather", "all_gather"} => k = 1 /\ Collected(v, m)'
  <2>1. ASSUME Collected(v, m) PROVE Collected(v, m)'
    <3>1. step[v] = "collect"
      BY <2>1 DEF Collected
    <3>2. Begun(x)
      BY <1>2, <1>3, <3>1 DEF Placed, Begun
    <3>3. queues'[x] = queues[x] /\ Members(x)' = Members(x)
      BY <1>10, <3>2
    <3>4. /\ m.msg = Calls[x][call[v]] /\ DOMAIN m.data = Range(queues[x])
          /\ \A w \in Members(x) : m.data[queues[x][w]] = CallValue(w, call[v])
      BY <1>3, <2>1 DEF Collected
    <3>5. Members(at[v])' = Members(x)
      BY <1>1, <1>3, <3>3 DEF Members
    <3> QED BY <1>1, <1>3, <3>1, <3>3, <3>4, <3>5 DEF Collected
  <2> QED BY <1>9, <2>1
<1>12. m.msg = "error_gather" =>
        step'[v] = "error_sync" /\ state'[at'[v]] = "error" /\ \A j \in 1 .. k - 1 : inbox'[v][j].msg = "error"
  <2>1. state[x] = "error" => state'[x] = "error"
    BY <1>10 DEF Begun
  <2> QED BY <1>1, <1>3, <1>9, <2>1
<1>13. m.msg = "go" =>
            /\ (k = 1 /\ step'[v] = "go") \/ (k = 2 /\ Ahead(v)')
            /\ Now(v)' \in Tasks /\ Begun(Now(v))' /\ Whole(Now(v))' /\ m.idx = queues'[Now(v)'][v]
  <2>1. PICK u : u = Now(v)
    OBVIOUS
  <2>2. u = Now(v)' /\ u # t
    BY <1>5, <1>6, <2>1
  <2>3. ASSUME m.msg = "go" PROVE u \in Tasks /\ Begun(u)' /\ Whole(u)' /\ m.idx = queues'[u][v]
    <3>1. u \in Tasks /\ Begun(u) /\ Whole(u) /\ m.idx = queues[u][v]
      BY <1>9, <2>1, <2>3
    <3>2. Begun(u)'
      BY <3>1, StatesAfter
    <3> QED BY <2>2, <3>1, <3>2, BegunAfter
  <2>4. Begun(u)' => Begun(Now(v))'
    BY <2>2 DEF Begun
  <2>5. Whole(u)' => Whole(Now(v))'
    BY <2>2 DEF Whole
  <2> QED BY <1>1, <1>9, <2>2, <2>3, <2>4, <2>5
<1>14. m.msg = "finished" => k = 1
  BY <1>9
<1> QED BY <1>8, <1>11, <1>12, <1>13, <1>14 DEF Letter

LEMMA ClosesLetters ==
    ASSUME Inv, manager = "running", NEW t, NEW lists, Closes(t, lists)
    PROVE  Letters'
<1>1. /\ t \in Tasks /\ Live(t) /\ Begun(t) /\ Types /\ Pools /\ Passed(t)
      /\ UNCHANGED << procs, step, at, index, call, raised >>
  BY ClosesFacts
<1>2. /\ Over(t)' /\ Begun(t)'
      /\ \A u \in Tasks : Over(u) => Over(u)'
      /\ \A u \in Tasks : Begun(u) => Begun(u)'
  BY StatesAfter
<1>3. ASSUME NEW v \in Worker, Alive(v), v \in Members(t)
      PROVE  Placed(v)' /\ \A k \in DOMAIN inbox'[v] : Letter(v, k)'
  <2>1. PICK u : u = owner'[v[1]]
    OBVIOUS
  <2>2. /\ inbox'[v][1].msg = "finished" /\ Ahead(v)' /\ Now(v)' = u
        /\ u \in Tasks /\ Begins(t, u) => DOMAIN inbox'[v] = {1, 2} /\ inbox'[v][2] = Go(u, queues'[u][v])
                                          /\ v \in Members(u)'
        /\ ~ (u \in Tasks /\ Begins(t, u)) => DOMAIN inbox'[v] = {1}
    BY <1>3, <2>1, GoneInbox
  <2>3. at[v] = t /\ step[v] \in {"finished_sync", "after_error"} /\ Placed(v)
    BY <1>3 DEF Closes, Complete, Inv, Letters
  <2>4. Letter(v, 1)'
    BY <2>2 DEF Letter
  <2>5. ASSUME u \in Tasks, Begins(t, u) PROVE Letter(v, 2)'
    <3>1. /\ Begun(u)' /\ (\A i : Whole(u)' => Go(u, i) = ToWorker("go", i, << >>))
          /\ \A i : ~ Whole(u)' => Go(u, i) = Plain("error")
      BY <2>5, BeginsFacts
    <3>2. queues'[u][v] \in Nat
      BY <1>3, <2>1, <2>2, <2>5, LeaveFacts
    <3> QED BY <2>2, <2>5, <3>1, <3>2, GoLetter
  <2>6. /\ step[v] = "finished_sync" => Begun(at[v])' /\ Whole(at[v])' /\ index'[v] = queues'[at'[v]][v]
        /\ Over(at[v])'
    <3>1. at'[v] = t
      BY <1>1, <2>3
    <3>2. step[v] = "finished_sync" => Whole(t) /\ index[v] = queues[t][v]
      BY <2>3 DEF Placed, Whole
    <3>3. queues'[t] = queues[t]
      <4>1. ~ Target(t, t)
        BY <1>1, TargetFacts
      <4> QED BY <1>1, <4>1, MembersAfter
    <3>4. Whole(t)' = Whole(t)
      BY <1>1, BegunAfter
    <3>5. Over(at[v])'
      BY <1>2, <3>1 DEF Over
    <3>6. Begun(at[v])'
      BY <1>2, <3>1 DEF Begun
    <3>7. Whole(t)' => Whole(at[v])'
      BY <3>1 DEF Whole
    <3> QED BY <1>1, <3>1, <3>2, <3>3, <3>4, <3>5, <3>6, <3>7
  <2>7. Placed(v)'
    <3>1. Exists(v)'
      BY <1>1, <2>3 DEF Placed, Exists
    <3> QED BY <1>1, <2>1, <2>2, <2>3, <2>6, <3>1 DEF Placed
  <2>8. \A k \in DOMAIN inbox'[v] : k = 1 \/ (k = 2 /\ u \in Tasks /\ Begins(t, u))
    BY <2>2
  <2> QED BY <2>4, <2>5, <2>7, <2>8
<1>4. ASSUME NEW v \in Worker, Alive(v), v \notin Members(t)
      PROVE  Placed(v)' /\ \A k \in DOMAIN inbox'[v] : Letter(v, k)'
  <2>1. PICK u : u = owner[v[1]]
    OBVIOUS
  <2>2. Placed(v) /\ Exists(v) /\ Now(v) = u
    BY <1>4, <2>1 DEF Inv, Letters, Placed
  <2>3. owner'[v[1]] = u /\ (~ (u \in Tasks /\ Begins(t, u)) => inbox'[v] = inbox[v])
    <3>1. v \notin Members(t) /\ Exists(v) /\ u = owner[v[1]]
      BY <1>4, <2>1, <2>2
    <3>2. v \in Worker /\ Closes(t, lists)
      BY <1>4
    <3>3. /\ owner'[v[1]] = u /\ u # t
          /\ ~ (u \in Tasks /\ Begins(t, u)) => inbox'[v] = inbox[v]
          /\ u \in Tasks /\ Begins(t, u) =>
                 /\ v \in Members(u) /\ v \in Members(u)' /\ queues'[u][v] \in Nat
                 /\ Written(v, << Go(u, queues'[u][v]) >>)
      BY <3>1, <3>2, StayInbox
    <3> QED BY <3>3
  <2>4. Ahead(v)' <=> Ahead(v)
    <3>1. CASE u \in Tasks /\ Begins(t, u)
      BY <1>4, <2>1, <2>2, <3>1, WaitingInbox
    <3>2. CASE ~ (u \in Tasks /\ Begins(t, u))
      BY <2>3, <3>2 DEF Ahead, Got
    <3> QED BY <3>1, <3>2
  <2>5. Now(v)' = u
    BY <1>1, <2>2, <2>4 DEF Now
  <2>6. PICK x : x = at[v]
    OBVIOUS
  <2>7. x \in Tasks /\ x # t /\ at'[v] = x
    BY <1>1, <1>4, <2>2, <2>6 DEF Pools, Types, TypeOK
  <2>8. Ahead(v) => Over(at[v])'
    <3>1. Ahead(v) => Over(x)
      BY <2>2, <2>6 DEF Placed, Over
    <3>2. Over(x)' => Over(at[v])'
      BY <2>7 DEF Over
    <3> QED BY <1>2, <2>7, <3>1, <3>2
  <2>9. step[v] \in {"run", "collect", "finished_sync"} =>
            Begun(at[v])' /\ Whole(at[v])' /\ index'[v] = queues'[at'[v]][v]
    <3>1. step[v] \in {"run", "collect", "finished_sync"} => Begun(x) /\ Whole(x) /\ index[v] = queues[x][v]
      BY <2>2, <2>6 DEF Placed, Begun, Whole
    <3>2. Begun(x) => Begun(x)' /\ Whole(x)' = Whole(x) /\ queues'[x] = queues[x]
      BY <1>2, <2>7, BegunAfter
    <3>3. Begun(x)' => Begun(at[v])'
      BY <2>7 DEF Begun
    <3>4. Whole(x)' => Whole(at[v])'
      BY <2>7 DEF Whole
    <3> QED BY <1>1, <2>7, <3>1, <3>2, <3>3, <3>4
  <2>10. Placed(v)'
    <3>1. Exists(v)'
      BY <1>1, <2>2 DEF Exists
    <3> QED BY <1>1, <2>2, <2>3, <2>4, <2>5, <2>8, <2>9, <3>1 DEF Placed
  <2>11. CASE ~ (u \in Tasks /\ Begins(t, u))
    <3>1. inbox'[v] = inbox[v]
      BY <2>3, <2>11
    <3> QED BY <1>4, <2>4, <2>10, <3>1, StayLetter
  <2>12. CASE u \in Tasks /\ Begins(t, u)
    <3>1. /\ queues'[u][v] \in Nat
          /\ at[v] = u => /\ step[v] = "go" /\ DOMAIN inbox'[v] = {1} /\ inbox'[v][1] = Go(u, queues'[u][v])
          /\ at[v] # u => /\ Ahead(v) /\ DOMAIN inbox'[v] = {1, 2} /\ inbox'[v][2] = Go(u, queues'[u][v])
                          /\ inbox'[v][1] = inbox[v][1] /\ inbox[v][1].msg = "finished"
      BY <1>4, <2>1, <2>2, <2>12, WaitingInbox
    <3>2. /\ Begun(u)' /\ (\A i : Whole(u)' => Go(u, i) = ToWorker("go", i, << >>))
          /\ \A i : ~ Whole(u)' => Go(u, i) = Plain("error")
      BY <2>12, BeginsFacts
    <3>3. CASE at[v] = u
      <4>1. step'[v] = "go" /\ u \in Tasks
        BY <1>1, <2>12, <3>1, <3>3
      <4>2. Letter(v, 1)'
        BY <2>5, <3>1, <3>2, <3>3, <4>1, GoLetter
      <4> QED BY <2>10, <3>1, <3>3, <4>2
    <3>4. CASE at[v] # u
      <4>1. Letter(v, 1)'
        <5>1. inbox'[v][1].msg = "finished"
          BY <3>1, <3>4
        <5> QED BY <5>1 DEF Letter
      <4>2. Ahead(v)' /\ u \in Tasks
        BY <2>4, <2>12, <3>1, <3>4
      <4>3. Letter(v, 2)'
        BY <2>5, <3>1, <3>2, <3>4, <4>2, GoLetter
      <4> QED BY <2>10, <3>1, <3>4, <4>1, <4>3
    <3> QED BY <3>3, <3>4
  <2> QED BY <2>11, <2>12
<1>5. \A v : Alive(v)' <=> Alive(v)
  BY <1>1 DEF Alive
<1> QED BY <1>3, <1>4, <1>5 DEF Letters

LEMMA ClosesReports ==
    ASSUME Inv, manager = "running", NEW t, NEW lists, Closes(t, lists),
           \A v \in Worker : v \notin Members(t) => mqueue'[v] = mqueue[v]
    PROVE  Reports'
<1>1. /\ t \in Tasks /\ Types /\ Pools /\ UNCHANGED << procs, step, at, index, call, raised >>
  BY ClosesFacts
<1> SUFFICES ASSUME NEW v \in Worker, NEW j \in DOMAIN mqueue'[v] PROVE Report(v, j)'
  BY DEF Reports
<1>2. CASE v \in Members(t)
  <2>1. mqueue'[v] = << >> /\ \A k \in DOMAIN << >> : FALSE
    BY <1>2 DEF Closes, Complete
  <2> QED BY <2>1
<1>3. CASE v \notin Members(t)
  <2>1. PICK m : m = mqueue[v][j]
    OBVIOUS
  <2>2. m = mqueue'[v][j] /\ j \in DOMAIN mqueue[v] /\ mqueue'[v] = mqueue[v]
    BY <1>3, <2>1
  <2>3. PICK x : x = at[v]
    OBVIOUS
  <2>4. /\ Exists(v) /\ SentBy(v, m) /\ step[v] # "go"
        /\ m.msg = "crash" => step[v] = "exited" /\ Over(x)
        /\ m.msg # "crash" => Live(x)
        /\ m.msg = "error" => j = Len(mqueue[v]) /\ step[v] \in {"error_sync", "exited"} /\ m.value = ErrorValue(v)
    <3>1. Report(v, j)
      BY <2>2 DEF Inv, Running, Reports
    <3> QED BY <2>1, <2>3, <3>1 DEF Report, Over, Live, Begun
  <2>5. x \in Tasks /\ x # t
    BY <1>1, <1>3, <2>3, <2>4 DEF Pools, Types, TypeOK
  <2>6. Over(x) => Over(x)'
    BY <2>5, StatesAfter
  <2>7. Live(x) => Live(x)'
    BY <2>5, BegunAfter DEF Live
  <2>8. Over(x)' => Over(at[v])'
    BY <1>1, <2>3 DEF Over
  <2>9. Live(x)' => Live(at[v])'
    BY <1>1, <2>3 DEF Live, Over, Begun
  <2>10. Exists(v)' /\ SentBy(v, m)'
    BY <1>1, <2>4 DEF Exists, SentBy
  <2> QED BY <1>1, <2>2, <2>4, <2>6, <2>7, <2>8, <2>9, <2>10 DEF Report
<1> QED BY <1>2, <1>3

\* What is known of the workers of a task that begins.
LEMMA Joiners ==
    ASSUME Inv, manager = "running", NEW t, NEW lists, Closes(t, lists),
           \A v \in Worker : v \notin Members(t) => mqueue'[v] = mqueue[v],
           NEW u \in Tasks, Begins(t, u), NEW v \in Members(u)'
    PROVE  /\ v \in Worker /\ Exists(v) /\ queues'[u][v] \in Nat
           /\ at[v] = u => mqueue'[v] = << >>
           /\ Alive(v) => /\ Calm(v)'
                          /\ at[v] = u => /\ step[v] = "go" /\ DOMAIN inbox'[v] = {1} /\ Len(inbox'[v]) = 1
                                          /\ inbox'[v][1] = Go(u, queues'[u][v])
                          /\ at[v] # u => /\ DOMAIN inbox'[v] = {1, 2} /\ Len(inbox'[v]) = 2
                                          /\ inbox'[v][1].msg = "finished" /\ inbox'[v][2] = Go(u, queues'[u][v])
<1>1. /\ t \in Tasks /\ Live(t) /\ Types /\ Pools /\ Passed(t) /\ UNCHANGED << procs, step, at, index, call, raised >>
  BY ClosesFacts
<1>2. ~ Begun(u) /\ u # t /\ Target(t, u)
  BY BeginsFacts, StatesAfter
<1>3. ~ Over(u) /\ ~ Live(u) /\ \A s \in Joining(t, u) : owner'[s] = u
  BY <1>1, <1>2, TargetFacts
<1>4. /\ Members(u)' = Members(u) \cup Joined(t, u) /\ Joined(t, u) \subseteq Members(t)
      /\ \A w \in Members(u) : w \notin Joined(t, u)
      /\ queues'[u][v] \in Indices
  BY <1>1, MembersAfter
<1>5. queues'[u][v] \in Nat
  BY <1>4, WorkersFinite DEF Indices
<1>6. \A k \in DOMAIN << >> : FALSE
  OBVIOUS
<1>7. CASE v \in Joined(t, u)
  <2>1. v \in Members(t) /\ owner'[v[1]] = u
    BY <1>3, <1>4, <1>7 DEF Joined
  <2>2. mqueue'[v] = << >> /\ at[v] = t
    BY <2>1 DEF Closes, Complete
  <2>3. Calm(v)'
    BY <1>6, <2>2 DEF Calm
  <2>4. Alive(v) => /\ DOMAIN inbox'[v] = {1, 2} /\ Len(inbox'[v]) = 2
                    /\ inbox'[v][1].msg = "finished" /\ inbox'[v][2] = Go(u, queues'[u][v])
    BY <2>1, GoneInbox
  <2>5. v \in Worker /\ Exists(v)
    BY <1>1, <2>1, MemberFacts
  <2> QED BY <1>2, <1>5, <2>2, <2>3, <2>4, <2>5
<1>8. CASE v \in Members(u)
  <2>1. v \in Worker /\ Exists(v) /\ owner[v[1]] = u
    BY <1>1, <1>3, <1>8, MemberFacts DEF Pools
  <2>2. v \notin Members(t)
    <3>1. ~ Over(t)
      BY ClosesFacts
    <3> QED BY <1>1, <1>2, <1>3, <1>8, <3>1, Apart
  <2>3. mqueue'[v] = mqueue[v]
    BY <2>1, <2>2
  <2>4. ASSUME NEW j \in DOMAIN mqueue[v]
        PROVE  /\ mqueue[v][j].msg = "crash" => step[v] = "exited" /\ at[v] # u
               /\ mqueue[v][j].msg # "crash" => at[v] # u /\ Live(at[v])
    <3>1. Report(v, j)
      BY <2>1 DEF Inv, Running, Reports
    <3>2. PICK x : x = at[v]
      OBVIOUS
    <3>3. /\ mqueue[v][j].msg = "crash" => step[v] = "exited" /\ Over(x)
          /\ mqueue[v][j].msg # "crash" => Live(x)
      BY <3>1, <3>2 DEF Report, Over, Live, Begun
    <3> QED BY <1>3, <3>2, <3>3 DEF Live, Over, Begun
  <2>5. at[v] = u => mqueue'[v] = << >>
    <3>1. ASSUME at[v] = u, mqueue[v] # << >> PROVE FALSE
      <4>1. 1 \in DOMAIN mqueue[v]
        BY <1>1, <2>1, <3>1, QueueFacts
      <4> QED BY <2>4, <3>1, <4>1
    <3> QED BY <2>3, <3>1
  <2>6. ASSUME Alive(v)
        PROVE  /\ at[v] = u => /\ step[v] = "go" /\ DOMAIN inbox'[v] = {1} /\ Len(inbox'[v]) = 1
                               /\ inbox'[v][1] = Go(u, queues'[u][v])
               /\ at[v] # u => /\ DOMAIN inbox'[v] = {1, 2} /\ Len(inbox'[v]) = 2 /\ Ahead(v)
                               /\ inbox'[v][1].msg = "finished" /\ inbox'[v][2] = Go(u, queues'[u][v])
    <3>1. /\ at[v] = u => /\ step[v] = "go" /\ Len(inbox'[v]) = 1 /\ DOMAIN inbox'[v] = {1} /\ inbox[v] = << >>
                           /\ inbox'[v][1] = Go(u, queues'[u][v])
          /\ at[v] # u => /\ Ahead(v) /\ Len(inbox'[v]) = 2 /\ DOMAIN inbox'[v] = {1, 2} /\ DOMAIN inbox[v] = {1}
                           /\ inbox'[v][1] = inbox[v][1] /\ inbox[v][1].msg = "finished"
                           /\ inbox'[v][2] = Go(u, queues'[u][v])
      BY <2>1, <2>2, <2>6, WaitingInbox
    <3> QED BY <3>1
  <2>7. ASSUME Alive(v) PROVE Calm(v)'
    <3>1. CASE at[v] = u
      BY <1>6, <2>5, <3>1 DEF Calm
    <3>2. CASE at[v] # u
      <4>1. Over(at[v])
        BY <2>1, <2>6, <2>7, <3>2 DEF Inv, Letters, Placed
      <4>2. \A j \in DOMAIN mqueue[v] : mqueue[v][j].msg = "crash"
        <5>1. PICK x : x = at[v]
          OBVIOUS
        <5>2. Over(x)
          BY <4>1, <5>1 DEF Over
        <5> QED BY <2>4, <5>1, <5>2 DEF Live, Over, Begun
      <4> QED BY <2>3, <4>2 DEF Calm
    <3> QED BY <3>1, <3>2
  <2> QED BY <1>5, <2>1, <2>5, <2>6, <2>7
<1> QED BY <1>4, <1>7, <1>8

\* The other tasks that are under way.
LEMMA ClosesOthers ==
    ASSUME Inv, manager = "running", NEW t, NEW lists, Closes(t, lists),
           \A v \in Worker : v \notin Members(t) => mqueue'[v] = mqueue[v],
           NEW u \in Tasks, u # t, Live(u), NEW v \in Members(u)
    PROVE  /\ v \notin Members(t) /\ mqueue'[v] = mqueue[v] /\ inbox'[v] = inbox[v] /\ Column(v, u)' = Column(v, u)
           /\ NormalWorker(u, v)' = NormalWorker(u, v)
           /\ SpreadWorker(u, v)' = SpreadWorker(u, v) /\ SettledWorker(u, v)' = SettledWorker(u, v)
<1>1. /\ t \in Tasks /\ ~ Over(t) /\ Types /\ Pools /\ UNCHANGED << procs, step, at, index, call, raised >>
  BY ClosesFacts
<1>2. Begun(u) /\ ~ Over(u)
  BY DEF Live
<1>3. /\ state'[u] = state[u] /\ rounds'[u] = rounds[u] /\ gather'[u] = gather[u]
      /\ queues'[u] = queues[u] /\ Members(u)' = Members(u)
  BY <1>2, BegunAfter
<1>4. v \notin Members(t) /\ v \in Worker /\ Exists(v) /\ owner[v[1]] = u
  <2>1. v \notin Members(t)
    BY <1>1, <1>2, Apart
  <2> QED BY <1>1, <1>2, <2>1, MemberFacts DEF Pools
<1>5. ~ Begins(t, u)
  BY <1>2, StatesAfter
<1>6. inbox'[v] = inbox[v]
  <2>1. /\ owner'[v[1]] = u /\ u # t
        /\ ~ (u \in Tasks /\ Begins(t, u)) => inbox'[v] = inbox[v]
        /\ u \in Tasks /\ Begins(t, u) =>
              /\ v \in Members(u) /\ v \in Members(u)' /\ queues'[u][v] \in Nat
              /\ Written(v, << Go(u, queues'[u][v]) >>)
    BY <1>4, StayInbox
  <2> QED BY <1>5, <2>1
<1>7. Column(v, u)' = Column(v, u)
  BY <1>3 DEF Column
<1>8. mqueue'[v] = mqueue[v]
  BY <1>4
<1> QED BY <1>1, <1>3, <1>4, <1>6, <1>7, <1>8, FrameWorker

LEMMA ClosesProtocol ==
    ASSUME Inv, manager = "running", NEW t, NEW lists, Closes(t, lists),
           \A v \in Worker : v \notin Members(t) => mqueue'[v] = mqueue[v]
    PROVE  Protocol'
<1>1. /\ t \in Tasks /\ Live(t) /\ ~ Over(t) /\ Types /\ Pools /\ Passed(t)
      /\ UNCHANGED << procs, step, at, index, call, raised >>
      /\ rounds'[t] = rounds[t] + 1 /\ rounds[t] \in Nat
      /\ state'[t] = IF state[t] = "error" THEN "error" ELSE "finished"
  BY ClosesFacts
<1>2. /\ Over(t)' /\ Begun(t)'
      /\ \A u \in Tasks : Begun(u)' => Begun(u) \/ Begins(t, u)
      /\ \A u \in Tasks : Begun(u) => Begun(u)'
  BY StatesAfter
<1> DEFINE Fits(u) ==
               /\ Normal(u) => rounds[u] < Last(u) /\ \E w \in Members(u) : Column(w, u) = << >>
               /\ Spread(u) => rounds[u] = 0 /\ \A i \in Indices : \A k \in DOMAIN gather[u][i] : SpreadValue(u, i, k)
               /\ Settled(u) => \A i \in Indices : \A k \in DOMAIN gather[u][i] : SettledValue(u, i, k)
               /\ \A w \in Members(u) :
                    /\ ~ Begun(u) => Idle(u, w)
                    /\ Normal(u) => NormalWorker(u, w)
                    /\ Spread(u) => SpreadWorker(u, w)
                    /\ Settled(u) => SettledWorker(u, w)
<1>3. Fits(t)'
  <2>1. ~ Normal(t)'
    BY <1>2 DEF Normal, Live
  <2>2. ~ Spread(t)'
    BY <1>1 DEF Spread, Doomed
  <2>3. ~ Settled(t)'
    BY <1>2 DEF Settled, Over
  <2> QED BY <1>2, <2>1, <2>2, <2>3
<1>4. ASSUME NEW u \in Tasks, Begun(u), u # t PROVE Fits(u)'
  <2>1. /\ state'[u] = state[u] /\ rounds'[u] = rounds[u] /\ gather'[u] = gather[u]
        /\ queues'[u] = queues[u] /\ Members(u)' = Members(u)
        /\ Normal(u)' = Normal(u) /\ Spread(u)' = Spread(u)
        /\ Settled(u)' = Settled(u) /\ Begun(u)'
    BY <1>2, <1>4, BegunAfter
  <2>2. /\ Normal(u) => Live(u)
        /\ Spread(u) => Live(u)
        /\ Settled(u) => Live(u)
    BY Modes
  <2>3. /\ Normal(u) => rounds[u] < Last(u) /\ \E w \in Members(u) : Column(w, u) = << >>
        /\ Spread(u) => rounds[u] = 0 /\ \A i \in Indices : \A k \in DOMAIN gather[u][i] : SpreadValue(u, i, k)
        /\ Settled(u) => \A i \in Indices : \A k \in DOMAIN gather[u][i] : SettledValue(u, i, k)
        /\ \A w \in Members(u) :
             /\ Normal(u) => NormalWorker(u, w)
             /\ Spread(u) => SpreadWorker(u, w)
             /\ Settled(u) => SettledWorker(u, w)
    BY DEF Inv, Running, Protocol
  <2>4. ASSUME Live(u), NEW w \in Members(u)
        PROVE  /\ mqueue'[w] = mqueue[w] /\ Column(w, u)' = Column(w, u)
               /\ NormalWorker(u, w)' = NormalWorker(u, w)
               /\ SpreadWorker(u, w)' = SpreadWorker(u, w) /\ SettledWorker(u, w)' = SettledWorker(u, w)
    BY <1>4, <2>4, ClosesOthers
  <2>5. ASSUME NEW i \in Indices, NEW k \in DOMAIN gather[u][i], Live(u)
        PROVE  /\ SpreadValue(u, i, k) => SpreadValue(u, i, k)'
               /\ SettledValue(u, i, k) => SettledValue(u, i, k)'
    <3>1. PICK n : n = gather[u][i][k]
      OBVIOUS
    <3>2. n = gather'[u][i][k] /\ SlotOf(n.from, u)' = SlotOf(n.from, u) /\ EndValue(n.from, u)' = EndValue(n.from, u)
      BY <1>1, <2>1, <3>1 DEF SlotOf, EndValue, Members
    <3>3. n.from \in Members(u) => mqueue'[n.from] = mqueue[n.from]
      BY <2>4, <2>5
    <3>4. SpreadValue(u, i, k) => SpreadValue(u, i, k)'
      BY <1>1, <2>1, <3>1, <3>2, <3>3 DEF SpreadValue
    <3>5. SettledValue(u, i, k) => SettledValue(u, i, k)'
      BY <1>1, <2>1, <3>1, <3>2, <3>3 DEF SettledValue
    <3> QED BY <3>4, <3>5
  <2>6. Last(u)' = Last(u)
    BY DEF Last
  <2>7. Normal(u) => rounds'[u] < Last(u)' /\ \E w \in Members(u)' : Column(w, u)' = << >>
    BY <2>1, <2>2, <2>3, <2>4, <2>6
  <2>8. Spread(u) => rounds'[u] = 0 /\ \A i \in Indices : \A k \in DOMAIN gather'[u][i] : SpreadValue(u, i, k)'
    BY <2>1, <2>2, <2>3, <2>5
  <2>9. Settled(u) => \A i \in Indices : \A k \in DOMAIN gather'[u][i] : SettledValue(u, i, k)'
    BY <2>1, <2>2, <2>3, <2>5
  <2>10. \A w \in Members(u)' : /\ Normal(u) => NormalWorker(u, w)'
                                /\ Spread(u) => SpreadWorker(u, w)'
                                /\ Settled(u) => SettledWorker(u, w)'
    BY <2>1, <2>2, <2>3, <2>4
  <2> QED BY <2>1, <2>7, <2>8, <2>9, <2>10
<1>5. ASSUME NEW u \in Tasks, ~ Begun(u), ~ Begins(t, u) PROVE Fits(u)'
  <2>1. ~ Begun(u)'
    BY <1>2, <1>5
  <2>2. ~ Normal(u)' /\ ~ Spread(u)' /\ ~ Settled(u)'
    BY <2>1 DEF Normal, Live, Spread, Settled, Doomed, Begun
  <2>3. u # t
    BY <1>2, <2>1
  <2>4. ASSUME NEW v \in Members(u)' PROVE Idle(u, v)'
    <3>1. /\ Members(u)' = Members(u) \cup Joined(t, u) /\ Joined(t, u) \subseteq Members(t)
      BY <1>1, MembersAfter
    <3>2. CASE v \in Joined(t, u)
      <4>1. v \in Members(t) /\ owner'[v[1]] = u
        <5>1. Target(t, u)
          BY <3>2 DEF Target, Joined
        <5> QED BY <1>1, <3>1, <3>2, <5>1, TargetFacts DEF Joined
      <4>2. at[v] = t
        BY <4>1 DEF Closes, Complete
      <4>3. Alive(v) => Len(inbox'[v]) = 1
        BY <1>5, <4>1, GoneInbox
      <4> QED BY <1>1, <2>3, <4>2, <4>3 DEF Idle, Alive
    <3>3. CASE v \in Members(u)
      <4>1. ~ Over(u)
        BY <1>5, Modes
      <4>2. v \in Worker /\ Exists(v) /\ owner[v[1]] = u
        BY <1>1, <3>3, <4>1, MemberFacts DEF Pools
      <4>3. v \notin Members(t)
        BY <1>1, <2>3, <3>3, <4>1, Apart
      <4>4. inbox'[v] = inbox[v]
        <5>1. /\ owner'[v[1]] = u /\ u # t
              /\ ~ (u \in Tasks /\ Begins(t, u)) => inbox'[v] = inbox[v]
              /\ u \in Tasks /\ Begins(t, u) =>
                    /\ v \in Members(u) /\ v \in Members(u)' /\ queues'[u][v] \in Nat
                    /\ Written(v, << Go(u, queues'[u][v]) >>)
          BY <4>2, <4>3, StayInbox
        <5> QED BY <1>5, <5>1
      <4>5. Idle(u, v)
        BY <1>5, <3>3 DEF Inv, Running, Protocol
      <4> QED BY <1>1, <4>4, <4>5 DEF Idle, Alive
    <3> QED BY <3>1, <3>2, <3>3
  <2> QED BY <2>2, <2>4
<1>6. ASSUME NEW u \in Tasks, Begins(t, u) PROVE Fits(u)'
  <2>1. /\ Begun(u)' /\ rounds'[u] = 0 /\ ~ Settled(u)' /\ u # t
        /\ \A i \in Indices : gather'[u][i] = << >>
        /\ Normal(u)' => Whole(u)' /\ ~ Spread(u)'
        /\ Spread(u)' => ~ Whole(u)' /\ ~ Normal(u)'
        /\ \A i : Whole(u)' => Go(u, i) = ToWorker("go", i, << >>)
        /\ \A i : ~ Whole(u)' => Go(u, i) = Plain("error")
        /\ \E v \in Members(u)' : TRUE
    BY <1>6, BeginsFacts
  <2>2. Last(u)' = Last(u) /\ Last(u) \in Nat /\ 0 < Last(u)
    BY TaskLen DEF Last
  <2>3. ASSUME NEW v \in Members(u)'
        PROVE  Column(v, u)' = << >> /\ Heard(u, v)' = 0
    <3>1. queues'[u][v] \in Indices
      BY <1>1, MembersAfter
    <3>2. Column(v, u)' = << >>
      BY <2>1, <3>1 DEF Column
    <3>3. Len(<< >>) = 0
      BY EmptySeq
    <3> QED BY <2>1, <3>2, <3>3 DEF Heard
  <2>4. ASSUME NEW v \in Members(u)'
        PROVE  /\ queues'[u][v] \in Nat
               /\ at[v] = u => mqueue'[v] = << >>
               /\ Alive(v) => /\ Calm(v)'
                              /\ at[v] = u => /\ step[v] = "go" /\ DOMAIN inbox'[v] = {1} /\ Len(inbox'[v]) = 1
                                              /\ inbox'[v][1] = Go(u, queues'[u][v])
                              /\ at[v] # u => /\ DOMAIN inbox'[v] = {1, 2} /\ Len(inbox'[v]) = 2
                                              /\ inbox'[v][1].msg = "finished" /\ inbox'[v][2] = Go(u, queues'[u][v])
    BY <1>6, Joiners
  <2>5. \A k \in DOMAIN << >> : FALSE
    OBVIOUS
  <2>6. ASSUME NEW v \in Members(u)', Normal(u)' PROVE NormalWorker(u, v)'
    <3>1. Whole(u)' /\ Go(u, queues'[u][v]).msg = "go"
      <4>1. PICK i \in Nat : i = queues'[u][v]
        BY <2>4
      <4> QED BY <2>1, <2>6, <4>1, GoTypes
    <3>2. NormalColumn(u, v)'
      BY <2>2, <2>3, <2>5 DEF NormalColumn
    <3>3. NormalReports(u, v)'
      BY <1>1, <2>4, <2>5 DEF NormalReports
    <3>4. Alive(v) => NoError(v)'
      BY <2>4, <3>1 DEF NoError
    <3>5. Alive(v) /\ at[v] = u => NormalStep(u, v)'
      <4>1. at[v] = u => Heard(u, v)' + Len(mqueue'[v]) = 0
        <5>1. Len(<< >>) = 0
          BY EmptySeq
        <5> QED BY <2>3, <2>4, <5>1
      <4> QED BY <1>1, <2>4, <4>1 DEF NormalStep
    <3>6. Alive(v)' = Alive(v)
      BY <1>1 DEF Alive
    <3> QED BY <1>1, <2>1, <2>4, <3>2, <3>3, <3>4, <3>5, <3>6 DEF NormalWorker
  <2>7. ASSUME NEW v \in Members(u)', Spread(u)' PROVE SpreadWorker(u, v)'
    <3>1. Go(u, queues'[u][v]).msg = "error"
      BY <2>1, <2>7, PlainTypes
    <3>2. SpreadReports(u, v)'
      BY <1>1, <2>4, <2>5 DEF SpreadReports
    <3>3. Alive(v) => Warned(v)'
      BY <2>4, <3>1 DEF Warned
    <3>4. Alive(v)' = Alive(v)
      BY <1>1 DEF Alive
    <3> QED BY <1>1, <2>4, <3>2, <3>3, <3>4 DEF SpreadWorker
  <2>8. Normal(u)' => rounds'[u] < Last(u)' /\ \E w \in Members(u)' : Column(w, u)' = << >>
    BY <2>1, <2>2, <2>3
  <2>9. \A i \in Indices : \A k \in DOMAIN gather'[u][i] : FALSE
    BY <2>1, <2>5
  <2> QED BY <2>1, <2>6, <2>7, <2>8, <2>9
<1>7. \A u \in Tasks : Fits(u)'
  <2> HIDE DEF Fits
  <2> QED BY <1>3, <1>4, <1>5, <1>6
<1> QED BY <1>7 DEF Protocol

LEMMA ClosesRaisers ==
    ASSUME Inv, manager = "running", NEW t, NEW lists, Closes(t, lists),
           \A v \in Worker : v \notin Members(t) => mqueue'[v] = mqueue[v]
    PROVE  Raisers'
<1>1. /\ t \in Tasks /\ Types /\ Pools /\ UNCHANGED << procs, step, at, index, call, raised >>
      /\ state'[t] = IF state[t] = "error" THEN "error" ELSE "finished"
  BY ClosesFacts
<1> SUFFICES ASSUME NEW v \in Worker, NEW u \in Tasks, << v, u >> \in raised, state'[u] # "error"
             PROVE  /\ Live(u)' /\ Whole(u)' /\ at'[v] = u /\ step'[v] \in {"error_sync", "exited"}
                    /\ v \in Members(u)' /\ Unfinished(v, u)'
  BY <1>1 DEF Raisers
<1>2. state[u] # "error"
  <2>1. CASE u = t
    BY <1>1, <2>1
  <2>2. CASE u # t
    <3>1. state[u] = "error" => state'[u] = "error"
      BY <2>2, BegunAfter DEF Begun
    <3> QED BY <3>1
  <2> QED BY <2>1, <2>2
<1>3. /\ Live(u) /\ Whole(u) /\ at[v] = u /\ step[v] \in {"error_sync", "exited"}
      /\ v \in Members(u) /\ Unfinished(v, u)
  BY <1>2 DEF Inv, Raisers
<1>4. u # t
  <2>1. ASSUME u = t PROVE FALSE
    BY <1>2, <1>3, <2>1 DEF Closes, Complete
  <2> QED BY <2>1
<1>5. Begun(u)
  BY <1>3 DEF Live
<1>6. Live(u)' = Live(u) /\ Whole(u)' = Whole(u) /\ Members(u)' = Members(u)
  BY <1>4, <1>5, BegunAfter
<1>7. mqueue'[v] = mqueue[v] /\ Column(v, u)' = Column(v, u)
  BY <1>3, <1>4, ClosesOthers
<1>8. Unfinished(v, u)'
  BY <1>3, <1>7 DEF Unfinished
<1> QED BY <1>1, <1>3, <1>6, <1>8

LEMMA ClosesInv ==
    ASSUME Inv, manager = "running", NEW t, NEW lists, Closes(t, lists), mqueue' \in [Worker -> Seq(Message)],
           \A v \in Worker : v \notin Members(t) => mqueue'[v] = mqueue[v]
    PROVE  Inv'
<1>1. /\ \A u \in Tasks : u # t => gather'[u] = gather[u]
      /\ gather'[t] = Rest(lists) /\ t \in Tasks
  BY ClosesFacts
<1>2. Alike'
  <2>1. AlikeLists(gather'[t])
    BY <1>1 DEF Closes, Complete
  <2>2. \A u \in Tasks : u # t => AlikeLists(gather'[u])
    BY <1>1 DEF Inv, Alike
  <2> QED BY <2>1, <2>2 DEF Alike
<1>3. Running'
  BY ClosesReports, ClosesProtocol DEF Running
<1> QED BY <1>2, <1>3, ClosesTypes, ClosesPools, ClosesStates, ClosesLetters, ClosesRaisers DEF Inv

\* The end of a worker: a value more, or the last one, and the task is over.
LEMMA HandleFinishedInv ==
    ASSUME Inv, NEW w \in Worker, NEW m, Received(w, m), ~ Ignored(m), Slot(m) \in Range(queues[m.task]),
           NEW lists, lists = Fill(gather[m.task], m), HandleFinished(m, lists), Collect(m, lists),
           UNCHANGED << procs, workerVars, raised >>
    PROVE  Inv'
<1>1. PICK t : t = m.task
  OBVIOUS
<1>2. m.msg = "finished" /\ m.msg \notin {"error", "crash"} /\ UNCHANGED << procs, step, at, index, call, raised >>
  BY DEF HandleFinished, workerVars
<1>3. /\ t \in Tasks /\ Types /\ manager = "running" /\ lists = Fill(gather[t], m) /\ w \in Members(t)
      /\ mqueue' \in [Worker -> Seq(Message)] /\ \A v \in Worker : v # w => mqueue'[v] = mqueue[v]
  BY <1>1, HeadFacts DEF Inv
<1>4. Normal(t) \/ Settled(t)
  BY <1>1, <1>2, PlainModes
<1>5. /\ gather' = [gather EXCEPT ![t] = IF Full(t, lists) THEN Rest(lists) ELSE lists]
      /\ rounds' = [rounds EXCEPT ![t] = IF Full(t, lists) THEN rounds[t] + 1 ELSE rounds[t]]
  BY <1>1, <1>2 DEF Collect
<1>6. manager' \in {"running", "ended"}
  BY <1>3 DEF HandleFinished
<1>7. CASE ~ Full(t, lists)
  <2>1. UNCHANGED << owner, queues, state, inbox >>
    BY <1>1, <1>7 DEF HandleFinished
  <2>2. gather' = [gather EXCEPT ![t] = lists]
    BY <1>5, <1>7
  <2>3. rounds' = rounds
    BY <1>3, <1>5, <1>7 DEF Types
  <2>4. CASE Normal(t)
    BY <1>1, <1>2, <1>3, <1>6, <1>7, <2>1, <2>2, <2>3, <2>4, NormalFillInv
  <2>5. CASE Settled(t)
    BY <1>1, <1>2, <1>3, <1>6, <1>7, <2>1, <2>2, <2>3, <2>5, SettledFillInv
  <2> QED BY <1>4, <2>4, <2>5
<1>8. CASE Full(t, lists)
  <2>1. Complete(t, lists)
    <3>1. CASE Normal(t)
      BY <1>1, <1>2, <1>3, <1>8, <3>1, NormalComplete
    <3>2. CASE Settled(t)
      BY <1>1, <1>2, <1>3, <1>8, <3>2, SettledComplete
    <3> QED BY <1>4, <3>1, <3>2
  <2>2. SetTaskFinished(t, FirstOf(t, lists))
    BY <1>1, <1>8 DEF HandleFinished
  <2>3. Passed(t)
    BY <1>2, <1>8, <2>1, <2>2, PassedOn
  <2>4. Closes(t, lists)
    BY <1>2, <1>5, <1>6, <1>8, <2>1, <2>3 DEF Closes
  <2>5. \A v \in Worker : v \notin Members(t) => mqueue'[v] = mqueue[v]
    BY <1>3
  <2> QED BY <1>3, <2>4, <2>5, ClosesInv
<1> QED BY <1>7, <1>8

\* Every step of the manager keeps the invariant.
LEMMA ManageInv ==
    ASSUME Inv, NEW w \in Worker, Manage(w)
    PROVE  Inv'
<1>1. PICK m : m = Head(mqueue[w])
  OBVIOUS
<1>2. Received(w, m) /\ UNCHANGED << procs, workerVars, raised >>
  BY <1>1 DEF Manage, Received
<1>3. CASE HandleIgnored(m)
  BY <1>2, <1>3, HandleIgnoredInv
<1>4. CASE HandleCrash(m)
  BY <1>2, <1>4, HandleCrashInv
<1>5. CASE m.msg # "crash" /\ HandleOutOfRange(m)
  BY <1>2, <1>5, HandleOutOfRangeInv
<1>6. CASE (m.msg = "error" \/ ~ Ignored(m)) /\ HandleValue(m)
  <2>1. PICK lists : lists = Fill(IF m.msg = "error" THEN Kept(m.task) ELSE gather[m.task], m)
    OBVIOUS
  <2>2. Slot(m) \in Range(queues[m.task]) /\ Collect(m, lists)
    BY <1>6, <2>1 DEF HandleValue
  <2>3. CASE HandleFinished(m, lists)
    <3>1. m.msg # "error"
      BY <2>3 DEF HandleFinished
    <3>2. lists = Fill(gather[m.task], m) /\ ~ Ignored(m)
      BY <1>6, <2>1, <3>1
    <3> QED BY <1>2, <2>2, <2>3, <3>2, HandleFinishedInv
  <2>4. CASE HandleCollective(m, lists)
    <3>1. m.msg # "error"
      BY <2>4 DEF HandleCollective
    <3>2. lists = Fill(gather[m.task], m) /\ ~ Ignored(m)
      BY <1>6, <2>1, <3>1
    <3> QED BY <1>2, <2>2, <2>4, <3>2, HandleCollectiveInv
  <2>5. CASE HandleError(m, lists)
    <3>1. m.msg = "error"
      BY <2>5 DEF HandleError
    <3>2. lists = Fill(Kept(m.task), m)
      BY <2>1, <3>1
    <3> QED BY <1>2, <2>2, <2>5, <3>2, HandleErrorInv
  <2>6. HandleFinished(m, lists) \/ HandleCollective(m, lists) \/ HandleError(m, lists)
    BY <1>6, <2>1 DEF HandleValue
  <2> QED BY <2>3, <2>4, <2>5, <2>6
<1>7. \/ HandleIgnored(m) \/ HandleCrash(m)
      \/ (m.msg # "crash" /\ (m.msg = "error" \/ ~ Ignored(m)) /\ (HandleValue(m) \/ HandleOutOfRange(m)))
  BY <1>1 DEF Manage
<1> QED BY <1>3, <1>4, <1>5, <1>6, <1>7

LEMMA StutterInv == Inv /\ UNCHANGED vars => Inv'
<1> SUFFICES ASSUME Inv, UNCHANGED vars PROVE Inv'
  OBVIOUS
<1>1. UNCHANGED << procs, manager, mqueue, state, queues, gather, owner, inbox, step, at, index, call, rounds, raised >>
  BY DEF vars, managerVars, workerVars
<1>2. Types' /\ Alike'
  BY <1>1 DEF Inv, Types, TypeOK, Members, Alike
<1>3. Pools' /\ States'
  BY <1>1 DEF Inv, Pools, States, Members, Exists, Over, Live, Begun, Whole
<1>4. ASSUME NEW w \in Worker PROVE Placed(w)' <=> Placed(w)
  BY <1>1 DEF Placed, Exists, Now, Ahead, Got, Over, Begun, Whole
<1>5. ASSUME NEW w \in Worker, NEW k PROVE Letter(w, k)' <=> Letter(w, k)
  BY <1>1 DEF Letter, Collected, Members, Now, Ahead, Got, Begun, Whole
<1>6. Letters'
  BY <1>1, <1>4, <1>5 DEF Inv, Letters, Alive
<1>7. ASSUME NEW w \in Worker, NEW j PROVE Report(w, j)' <=> Report(w, j)
  BY <1>1 DEF Report, SentBy, Exists, Over, Live, Begun
<1>8. Protocol' <=> Protocol
  <2>1. ASSUME NEW t, NEW w PROVE NormalWorker(t, w)' <=> NormalWorker(t, w)
    <3>1. NormalColumn(t, w)' <=> NormalColumn(t, w)
      BY <1>1 DEF NormalColumn, Heard, Column
    <3>2. NormalReports(t, w)' <=> NormalReports(t, w)
      BY <1>1 DEF NormalReports, Heard, Column
    <3>3. NormalStep(t, w)' <=> NormalStep(t, w)
      BY <1>1 DEF NormalStep, NormalWaits, Heard, Column, Calm, Blocks
    <3> QED BY <1>1, <3>1, <3>2, <3>3 DEF NormalWorker, Alive, NoError
  <2>2. ASSUME NEW t, NEW w PROVE SpreadWorker(t, w)' <=> SpreadWorker(t, w)
    BY <1>1 DEF SpreadWorker, SpreadReports, Warned, Failed, Calm, OnlyErrors, Alive
  <2>3. ASSUME NEW t, NEW i, NEW k PROVE SpreadValue(t, i, k)' <=> SpreadValue(t, i, k)
    BY <1>1 DEF SpreadValue, SlotOf, Members
  <2>4. ASSUME NEW t, NEW w PROVE SettledWorker(t, w)' <=> SettledWorker(t, w)
    BY <1>1 DEF SettledWorker, Alive
  <2>5. ASSUME NEW t, NEW i, NEW k PROVE SettledValue(t, i, k)' <=> SettledValue(t, i, k)
    BY <1>1 DEF SettledValue, SlotOf, Members
  <2>6. ASSUME NEW t, NEW w PROVE Idle(t, w)' <=> Idle(t, w)
    BY <1>1 DEF Idle, Alive
  <2>7. ASSUME NEW t
        PROVE  /\ Begun(t)' <=> Begun(t)
               /\ Normal(t)' <=> Normal(t)
               /\ Spread(t)' <=> Spread(t)
               /\ Settled(t)' <=> Settled(t)
    BY <1>1 DEF Normal, Doomed, Live, Begun, Over, Whole, Spread, Settled
  <2> QED BY <1>1, <2>1, <2>2, <2>3, <2>4, <2>5, <2>6, <2>7 DEF Protocol, Members, Column
<1>9. Running'
  BY <1>1, <1>7, <1>8 DEF Inv, Running, Reports
<1>10. Raisers'
  BY <1>1 DEF Inv, Raisers, Unfinished, Column, Live, Begun, Over, Whole, Members
<1> QED BY <1>2, <1>3, <1>6, <1>9, <1>10 DEF Inv

-----------------------------------------------------------------------------
(* The theorems. *)

\* The inductive invariant: the manager's lists, the queues both ways and the
\* place of every worker always fit (TaskManager.start with task_run).
THEOREM Invariant == Spec => []Inv
<1>1. Inv /\ [Next]_vars => Inv'
  <2>1. ASSUME Inv, Next PROVE Inv'
    <3>1. PICK w \in Worker : Manage(w) \/ WorkerStep(w) \/ Raise(w) \/ Kill(w)
      BY <2>1 DEF Next
    <3> QED BY <2>1, <3>1, ManageInv, WorkersInv
  <2> QED BY <2>1, StutterInv
<1> QED BY <1>1, InitInv, PTL DEF Spec

\* A task's lists never mix two calls, and every wait of a worker is ended by
\* its own answer (fill_gater_data, gather, all_gather, finished_sync, error_sync).
THEOREM AnswersMatched == Spec => []AnswersMatch
BY Invariant, AnswersFollow, PTL

\* No worker runs a task that another task it needs has not left, whole
\* (finished_sync, is_all_prev_finished).
THEOREM StagesKeptApart == Spec => []StagesApart
BY Invariant, StagesFollow, PTL

\* A task whose code raised anywhere never counts as finished, nor does
\* anything below it (set_task_error, set_task_finished).
THEOREM ErrorsAreSpread == Spec => []ErrorsSpread
BY Invariant, ErrorsFollow, PTL

\* Every variable of the manager and of the workers keeps its type.
THEOREM TypeCorrect == Spec => []TypeOK
<1>1. Inv => TypeOK
  BY DEF Inv, Types
<1> QED BY <1>1, Invariant, PTL
=============================================================================
