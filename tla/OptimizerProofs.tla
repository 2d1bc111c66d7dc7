-------------------------- MODULE OptimizerProofs --------------------------
(***************************************************************************)
(* Proofs about Optimizer and the Scheduler below it: whatever the search, *)
(* the retries, the faults and the restarts of the program, at most one    *)
(* service and one benchmark of its own are alive, nothing is left between *)
(* evaluations, and the numbers in a row are those of its own evaluation.  *)
(*                                                                         *)
(* Kills, exits and results of processes come at any step, so the argument *)
(* is about who is alive: all that lives of this program belongs to the    *)
(* evaluation under way, and has its request rate.                         *)
(***************************************************************************)
EXTENDS Optimizer, FiniteSetTheorems, TLAPS

-----------------------------------------------------------------------------
(* The inductive invariant. *)

Service == [no : Nat, up : BOOLEAN, deaf : BOOLEAN]
Bench == [no : Nat, rate : {None, "asked", "fitted"}, attempt : Nat, deaf : BOOLEAN]
Running == {"bench", "monitor", "measure"}
Between == {"idle", "default", "adopt"}

\* The part of the types that the argument needs.
Types ==
    /\ services \subseteq Service
    /\ benches \subseteq Bench
    /\ cur.no \in Nat /\ cur.rate \in {None, "asked", "fitted"}
    /\ cur = [no |-> cur.no, p |-> cur.p, rate |-> cur.rate]
    /\ attempt \in Nat
    /\ pc \in Between \cup Running \cup {"start", "wait", "save", "stop", "end"}
    /\ Ended <=> pc = "end"

\* The processes of this program that a signal can end.
Own(all) == { x \in all : ~x.deaf /\ x.no > 0 }

\* They belong to the evaluation under way and there is one of each at most.
OneEach ==
    /\ \A x \in Own(services) : x.no = cur.no
    /\ \A x, y \in Own(services) : x = y
    /\ \A x \in Own(benches) : x.no = cur.no /\ x.rate = cur.rate
    /\ \A x, y \in Own(benches) : x = y

\* Where they are sure to be gone, and where no other service is.
Stopped ==
    /\ pc \in Between \/ phase = "done" => Own(services) = {}
    /\ pc \in Between \cup {"start", "wait", "bench", "measure"} \/ phase = "done" => Own(benches) = {}
    /\ pc \in {"wait"} \cup Running => \A s \in services : s.deaf \/ s.no = cur.no

\* A measurement of the evaluation under way, or one of a stray process.
OfThis(m) == m.stray \/ << m.svc, m.bench, m.rate >> = << cur.no, cur.no, cur.rate >>

\* The files of the benchmark under way, and the numbers read from them: those
\* of the first run are kept while the second goes on at another rate.
Measures ==
    /\ pc \in {"monitor", "measure"} => \A m \in output : OfThis(m)
    /\ second => pc \in Running \cup {"end"}
    /\ ~second /\ err = None /\ perf # NoNumbers => OfThis(perf)

Inv == Types /\ OneEach /\ Stopped /\ Measures /\ RowsOwn

-----------------------------------------------------------------------------
(* Killing: who is alive afterwards was alive before and was not killed.    *)

LEMMA KillServices ==
    ASSUME NEW all \in SUBSET Service, NEW some \in SUBSET all, NEW k \in AfterKill(all, some)
    PROVE  /\ k.left \in SUBSET Service
           /\ \A x \in k.left : ~x.deaf => x \in all \ some
<1> DEFINE mortal == { x \in some : ~x.deaf }
<1>1. CASE k = [left |-> all \ mortal, cost |-> 0]
  BY <1>1
<1>2. ASSUME NEW y \in mortal,
             k = [left |-> (all \ mortal) \cup {[y EXCEPT !.deaf = TRUE]}, cost |-> 1]
      PROVE  /\ k.left \in SUBSET Service
             /\ \A x \in k.left : ~x.deaf => x \in all \ some
  <2>1. PICK z : z = [y EXCEPT !.deaf = TRUE]
    OBVIOUS
  <2>2. z \in Service /\ z.deaf
    <3>1. y \in Service
      OBVIOUS
    <3> QED BY <2>1, <3>1 DEF Service
  <2>3. k.left = (all \ mortal) \cup {z}
    BY <1>2, <2>1
  <2> QED BY <2>2, <2>3
<1>3. QED
  BY <1>1, <1>2 DEF AfterKill

LEMMA KillBenches ==
    ASSUME NEW all \in SUBSET Bench, NEW some \in SUBSET all, NEW k \in AfterKill(all, some)
    PROVE  /\ k.left \in SUBSET Bench
           /\ \A x \in k.left : ~x.deaf => x \in all \ some
<1> DEFINE mortal == { x \in some : ~x.deaf }
<1>1. CASE k = [left |-> all \ mortal, cost |-> 0]
  BY <1>1
<1>2. ASSUME NEW y \in mortal,
             k = [left |-> (all \ mortal) \cup {[y EXCEPT !.deaf = TRUE]}, cost |-> 1]
      PROVE  /\ k.left \in SUBSET Bench
             /\ \A x \in k.left : ~x.deaf => x \in all \ some
  <2>1. PICK z : z = [y EXCEPT !.deaf = TRUE]
    OBVIOUS
  <2>2. z \in Bench /\ z.deaf
    <3>1. y \in Bench
      OBVIOUS
    <3> QED BY <2>1, <3>1 DEF Bench
  <2>3. k.left = (all \ mortal) \cup {z}
    BY <1>2, <2>1
  <2> QED BY <2>2, <2>3
<1>3. QED
  BY <1>1, <1>2 DEF AfterKill

\* Nothing of the evaluation under way survives that a signal can end.
LEMMA StopBenchStops ==
    ASSUME Inv, NEW all, NEW cost, StopBench(all, cost)
    PROVE  /\ services' = all
           /\ benches' \in SUBSET Bench
           /\ \A x \in benches' : ~x.deaf => x \in benches
           /\ Own(benches') = {}
           /\ output' \in {{}, output}
<1>1. PICK b \in AfterKill(benches, Mine(benches)) :
        benches' = b.left /\ output' \in {{}, output} /\ services' = all
  BY DEF StopBench
<1>2. benches \in SUBSET Bench /\ Mine(benches) \in SUBSET benches
  BY DEF Inv, Types, Mine
<1>3. /\ b.left \in SUBSET Bench
      /\ \A x \in b.left : ~x.deaf => x \in benches \ Mine(benches)
  BY <1>2, KillBenches
<1>4. \A x \in Own(benches) : x \in Mine(benches)
  BY DEF Inv, OneEach, Own, Mine
<1>5. QED
  BY <1>1, <1>3, <1>4 DEF Own

LEMMA StopTargetServerStops ==
    ASSUME Inv, StopTargetServer
    PROVE  /\ services' \in SUBSET Service /\ benches' \in SUBSET Bench
           /\ \A x \in services' : ~x.deaf => x \in services
           /\ \A x \in benches' : ~x.deaf => x \in benches
           /\ Own(services') = {} /\ Own(benches') = {}
           /\ output' \in {{}, output}
<1> DEFINE some == IF setup.engine = "vllm" THEN services ELSE Mine(services)
<1>1. PICK s \in AfterKill(services, some) : StopBench(s.left, s.cost)
  BY DEF StopTargetServer
<1>2. services \in SUBSET Service /\ some \in SUBSET services
  BY DEF Inv, Types, Mine
<1>3. /\ s.left \in SUBSET Service
      /\ \A x \in s.left : ~x.deaf => x \in services \ some
  <2> HIDE DEF some
  <2> QED
    BY <1>2, KillServices
<1>4. \A x \in Own(services) : x \in some
  BY DEF Inv, OneEach, Own, Mine
<1>5. services' = s.left
  BY <1>1, StopBenchStops
<1>6. Own(services') = {}
  BY <1>3, <1>4, <1>5 DEF Own
<1>7. QED
  BY <1>1, <1>3, <1>5, <1>6, StopBenchStops

-----------------------------------------------------------------------------
(* The steps of the invariant, by what they do to the processes.            *)

LEMMA InitInv == Init => Inv
BY DEF Init, SchedulerInit, ProgramInit, Inv, Types, OneEach, Stopped, Measures, RowsOwn, Own,
       NoRun, NoNumbers, None, Ended, Between, Running, OfThis

\* A new evaluation: nothing is alive, and nothing is measured yet.
LEMMA BeginInv ==
    ASSUME Inv, pc \in Between, NEW p, NEW m, Begin(p, "asked", m)
    PROVE  Inv'
<1>1. Own(services) = {} /\ Own(benches) = {}
  BY DEF Inv, Stopped
<1>2. Types'
  BY DEF Inv, Types, Begin, procVars, Ended, Between, Running
<1>3. OneEach' /\ Stopped'
  BY <1>1 DEF Inv, Stopped, OneEach, Begin, procVars, Between, Running, Own, Types, Ended
<1>4. Measures'
  BY DEF Begin, Measures, Running, NoNumbers
<1>5. RowsOwn'
  BY DEF Inv, RowsOwn, Begin
<1>6. QED
  BY <1>2, <1>3, <1>4, <1>5 DEF Inv

\* Steps of the search between evaluations.
LEMMA IdleInv ==
    ASSUME Inv, pc \in Between, UNCHANGED << runVars, procVars, rows >>,
           pc' \in Between \cup {"save", "end"}, Ended' <=> pc' = "end"
    PROVE  Inv'
<1>1. Own(services) = {} /\ Own(benches) = {}
  BY DEF Inv, Stopped
<1>2. Types'
  BY DEF Inv, Types, runVars, procVars
<1>3. OneEach' /\ Stopped'
  BY <1>1 DEF Inv, Stopped, OneEach, procVars, runVars, Between, Running, Own
<1>4. Measures'
  BY DEF Inv, Measures, Between, Running, OfThis, procVars, runVars
<1>5. RowsOwn'
  BY DEF Inv, RowsOwn
<1>6. QED
  BY <1>2, <1>3, <1>4, <1>5 DEF Inv

LEMMA SearchInv ==
    ASSUME Inv, Search
    PROVE  Inv'
<1>1. CASE EvaluateDefault
  BY <1>1, BeginInv DEF EvaluateDefault, Between
<1>2. CASE LimitConcurrency
  BY <1>2, IdleInv DEF LimitConcurrency, Between, Ended, Inv, Types
<1>3. CASE AdoptFields
  BY <1>3, IdleInv DEF AdoptFields, Between, Ended, Inv, Types
<1>4. ASSUME NEW p \in Params, EvaluateProposal(p)
      PROVE  Inv'
  BY <1>4, BeginInv DEF EvaluateProposal, Propose, Between
<1>5. ASSUME NEW p \in Params, MappingFails(p)
      PROVE  Inv'
  BY <1>5, IdleInv DEF MappingFails, Propose, Between, Ended, Inv, Types
<1>6. ASSUME NEW p \in Params, SkipDuplicate(p)
      PROVE  Inv'
  <2>1. Own(services) = {} /\ Own(benches) = {} /\ pc = "idle" /\ phase = "search"
    BY <1>6 DEF Inv, Stopped, SkipDuplicate, Propose, Between
  <2>2. Types'
    BY <1>6, <2>1 DEF Inv, Types, SkipDuplicate, procVars, Ended, Between, Running
  <2>3. OneEach' /\ Stopped'
    BY <1>6, <2>1 DEF Inv, Stopped, OneEach, SkipDuplicate, procVars, Between, Running, Own
  <2>4. Measures'
    BY <1>6, <2>1 DEF Inv, Measures, SkipDuplicate, procVars, Between, Running, NoNumbers
  <2>5. RowsOwn'
    BY <1>6 DEF Inv, RowsOwn, SkipDuplicate
  <2>6. QED
    BY <2>2, <2>3, <2>4, <2>5 DEF Inv
<1>7. ASSUME NEW p \in Params, DuplicateFails(p)
      PROVE  Inv'
  BY <1>7, IdleInv DEF DuplicateFails, Propose, Between, Ended
<1>8. CASE EndSearch
  BY <1>8, IdleInv DEF EndSearch, Between, Ended
<1>9. ASSUME NEW r \in todo, Refine(r)
      PROVE  Inv'
  BY <1>9, BeginInv DEF Refine, Between
<1>10. CASE FineTune
  BY <1>10, BeginInv DEF FineTune, Between
<1>11. CASE Finish
  BY <1>11, IdleInv DEF Finish, Between, Ended
<1>12. CASE Save
  <2>1. Types'
    BY <1>12 DEF Inv, Types, Save, runVars, Ended, Between, Running
  <2>2. phase # "done" /\ phase' # "done"
    BY <1>12 DEF Inv, Types, Save, Ended
  <2>3. OneEach' /\ Stopped'
    BY <1>12, <2>2 DEF Inv, Stopped, OneEach, Save, runVars, Between, Running, Own
  <2>4. ~second
    BY <1>12 DEF Inv, Measures, Save, Running
  <2>5. Measures'
    BY <1>12, <2>4 DEF Inv, Measures, OfThis, Save, runVars
  <2>6. RowsOwn'
    BY <1>12, <2>4 DEF Inv, RowsOwn, Measures, OfThis, Save, Row
  <2>7. QED
    BY <2>1, <2>3, <2>5, <2>6 DEF Inv
<1>13. CASE StopAfterSave
  <2>1. /\ pc = "stop" /\ pc' \in {"default", "idle"} /\ UNCHANGED << runVars, searchVars >>
        /\ StopTargetServer
    BY <1>13 DEF StopAfterSave
  <2>2. Types'
    BY <2>1, StopTargetServerStops DEF Inv, Types, runVars, searchVars, Ended, Between, Running
  <2>3. OneEach' /\ Stopped'
    BY <2>1, StopTargetServerStops DEF OneEach, Stopped, Between, Running, Own
  <2>4. Measures' /\ RowsOwn'
    BY <2>1 DEF Inv, Measures, RowsOwn, OfThis, runVars, searchVars, Running
  <2>5. QED
    BY <2>2, <2>3, <2>4 DEF Inv
<1>14. QED
  BY <1>1, <1>2, <1>3, <1>4, <1>5, <1>6, <1>7, <1>8, <1>9, <1>10, <1>11, <1>12, <1>13 DEF Search

-----------------------------------------------------------------------------
(* The steps of an evaluation.                                              *)

\* A step that leaves the processes alone and ends the evaluation or goes on
\* to a place that is no more demanding.
LEMMA AbortInv ==
    ASSUME Inv, Abort, UNCHANGED << setup, searchVars >>, pc \notin Between \cup {"end"},
           services' \in SUBSET Service, benches' \in SUBSET Bench,
           Own(services') \subseteq Own(services), Own(benches') \subseteq Own(benches)
    PROVE  Inv'
<1>1. Types'
  BY DEF Inv, Types, Abort, Return, searchVars, Ended, Between, Running
<1>2. phase' # "done"
  BY DEF Inv, Types, Ended, searchVars
<1>3. OneEach' /\ Stopped'
  BY <1>2 DEF Inv, OneEach, Stopped, Abort, Return, Between, Running
<1>4. Measures' /\ RowsOwn'
  BY DEF Inv, Measures, RowsOwn, Abort, Return, searchVars, None
<1>5. QED
  BY <1>1, <1>3, <1>4 DEF Inv

LEMMA LogErrorInv ==
    ASSUME Inv, LogError, UNCHANGED << setup, searchVars >>, pc \in {"wait", "monitor"}, ~second
    PROVE  Inv'
<1>1. /\ services' \in SUBSET Service /\ benches' \in SUBSET Bench
      /\ Own(services') = {} /\ Own(benches') = {}
  BY StopTargetServerStops DEF LogError
<1>2. CASE Abort
  BY <1>1, <1>2, AbortInv DEF Between
<1>3. CASE /\ attempt' = attempt + 1 /\ pc' = "start"
           /\ UNCHANGED << cur, mode, second, perf, err >>
  <2>1. Types'
    BY <1>1, <1>3 DEF Inv, Types, searchVars, Ended, Between, Running
  <2>2. OneEach' /\ Stopped'
    BY <1>1, <1>3 DEF Inv, OneEach, Stopped, Types, Ended, searchVars, Between, Running
  <2>3. Measures' /\ RowsOwn'
    BY <1>3 DEF Inv, Measures, RowsOwn, OfThis, searchVars
  <2>4. QED
    BY <2>1, <2>2, <2>3 DEF Inv
<1>4. QED
  BY <1>2, <1>3 DEF LogError

LEMMA StartServiceInv ==
    ASSUME Inv, StartService, UNCHANGED << setup, searchVars >>
    PROVE  Inv'
<1>1. PICK k \in AfterKill(services, services), b \in AfterKill(benches, Residual) :
        /\ benches' = b.left
        /\ \/ services' = k.left \cup {[no |-> cur.no, up |-> FALSE, deaf |-> FALSE]} /\ Goto("wait")
           \/ services' = k.left /\ Abort
  BY DEF StartService
<1>2. /\ k.left \in SUBSET Service
      /\ \A x \in k.left : x.deaf
  BY KillServices DEF Inv, Types
<1>3. /\ b.left \in SUBSET Bench
      /\ \A x \in b.left : ~x.deaf => x \in benches
  <2>1. benches \in SUBSET Bench /\ Residual \in SUBSET benches
    BY DEF Inv, Types, Residual
  <2>2. QED
    BY <2>1, KillBenches
<1>4. Own(benches) = {} /\ pc = "start" /\ phase # "done" /\ phase' # "done"
  BY DEF Inv, Stopped, StartService, Types, Ended, searchVars
<1>5. Own(k.left) = {} /\ Own(b.left) = {}
  BY <1>2, <1>3, <1>4 DEF Own
<1>6. CASE services' = k.left /\ Abort
  BY <1>1, <1>2, <1>3, <1>4, <1>5, <1>6, AbortInv DEF Between
<1>7. CASE services' = k.left \cup {[no |-> cur.no, up |-> FALSE, deaf |-> FALSE]} /\ Goto("wait")
  <2> DEFINE new == [no |-> cur.no, up |-> FALSE, deaf |-> FALSE]
  <2>1. new \in Service
    BY DEF Inv, Types, Service
  <2>2. Types'
    BY <1>1, <1>2, <1>3, <1>7, <2>1, <1>4 DEF Inv, Types, Goto, searchVars, Ended, Between, Running
  <2>3. \A x \in Own(services') : x = new
    BY <1>5, <1>7 DEF Own
  <2>4. Own(benches') = {}
    BY <1>1, <1>5
  <2>5. OneEach'
    <3>1. new.no = cur'.no
      BY <1>7 DEF Goto
    <3>2. \A x \in Own(services') : x.no = cur'.no
      BY <2>3, <3>1
    <3>3. \A x, y \in Own(services') : x = y
      BY <2>3
    <3>4. QED
      BY <2>4, <3>2, <3>3 DEF OneEach
  <2>6. Stopped'
    BY <1>2, <1>4, <1>7, <2>4 DEF Stopped, Goto, Between, Running
  <2>7. ~second
    BY <1>4 DEF Inv, Measures, Running
  <2>8. Measures' /\ RowsOwn'
    BY <1>7, <2>7 DEF Inv, Measures, RowsOwn, OfThis, Goto, searchVars
  <2>9. QED
    BY <2>2, <2>5, <2>6, <2>8 DEF Inv
<1>8. QED
  BY <1>1, <1>6, <1>7

LEMMA PollAgainInv ==
    ASSUME Inv, NEW limit, PollAgain(limit), UNCHANGED << setup, procVars, searchVars >>,
           pc \in {"wait", "monitor"}
    PROVE  Inv'
<1>1. CASE Abort
  BY <1>1, AbortInv DEF procVars, Between, Inv, Types
<1>2. CASE UNCHANGED << pc, cur, mode, second, attempt, perf, err >>
  BY <1>2 DEF Inv, Types, OneEach, Stopped, Measures, RowsOwn, OfThis, procVars, searchVars, Own, Ended
<1>3. QED
  BY <1>1, <1>2 DEF PollAgain

LEMMA PollServiceInv ==
    ASSUME Inv, PollService, UNCHANGED << setup, searchVars >>
    PROVE  Inv'
<1>1. pc = "wait" /\ ~second
  BY DEF PollService, Inv, Measures, Running
<1>2. CASE LogError
  BY <1>1, <1>2, LogErrorInv
<1>3. CASE Goto("bench") /\ UNCHANGED procVars
  BY <1>1, <1>3 DEF Inv, Types, OneEach, Stopped, Measures, RowsOwn, OfThis, procVars, searchVars, Own,
                    Ended, Goto, Between, Running
<1>4. CASE PollAgain(WaitTime) /\ UNCHANGED procVars
  BY <1>1, <1>4, PollAgainInv
<1>5. CASE Abort /\ UNCHANGED procVars
  BY <1>1, <1>5, AbortInv DEF procVars, Between, Inv, Types
<1>6. QED
  BY <1>2, <1>3, <1>4, <1>5 DEF PollService

LEMMA StartBenchInv ==
    ASSUME Inv, StartBench, UNCHANGED << setup, searchVars >>
    PROVE  Inv'
<1>1. pc = "bench" /\ Own(benches) = {} /\ phase # "done" /\ phase' # "done"
  BY DEF Inv, Stopped, StartBench, Types, Ended, searchVars
<1>2. CASE UNCHANGED benches /\ Abort
  BY <1>1, <1>2, AbortInv DEF StartBench, Between, Inv, Types
<1>3. CASE benches' = benches \cup {NewBench} /\ Goto("monitor")
  <2>1. NewBench \in Bench
    BY DEF Inv, Types, Bench, NewBench
  <2>2. Types'
    BY <1>1, <1>3, <2>1 DEF Inv, Types, StartBench, Goto, searchVars, Ended, Between, Running
  <2>3. \A x \in Own(benches') : x = NewBench
    BY <1>1, <1>3 DEF Own
  <2>4. OneEach'
    <3>1. NewBench.no = cur'.no /\ NewBench.rate = cur'.rate
      BY <1>3 DEF Goto, NewBench
    <3>2. \A x \in Own(benches') : x.no = cur'.no /\ x.rate = cur'.rate
      BY <2>3, <3>1
    <3>3. \A x, y \in Own(benches') : x = y
      BY <2>3
    <3>4. services' = services /\ cur' = cur
      BY <1>3 DEF StartBench, Goto
    <3>5. QED
      BY <3>2, <3>3, <3>4 DEF Inv, OneEach
  <2>5. Stopped'
    BY <1>1, <1>3 DEF Inv, Stopped, StartBench, Goto, Between, Running
  <2>6. Measures' /\ RowsOwn'
    BY <1>3 DEF Inv, Measures, RowsOwn, OfThis, StartBench, Goto, searchVars, Running
  <2>7. QED
    BY <2>2, <2>4, <2>5, <2>6 DEF Inv
<1>4. QED
  BY <1>2, <1>3 DEF StartBench

LEMMA PollRunInv ==
    ASSUME Inv, PollRun, UNCHANGED << setup, searchVars >>
    PROVE  Inv'
<1>1. pc = "monitor"
  BY DEF PollRun
<1>2. CASE ~second /\ LogError
  BY <1>1, <1>2, LogErrorInv
<1>3. CASE Abort /\ UNCHANGED procVars
  BY <1>1, <1>3, AbortInv DEF procVars, Between, Inv, Types
<1>4. CASE Mine(benches) = {} /\ Goto("measure") /\ UNCHANGED procVars
  <2>1. Own(benches) = {}
    BY <1>4 DEF Inv, OneEach, Own, Mine
  <2>2. QED
    BY <1>1, <1>4, <2>1 DEF Inv, Types, OneEach, Stopped, Measures, RowsOwn, OfThis, procVars,
                            searchVars, Own, Ended, Goto, Between, Running
<1>5. CASE PollAgain(MonitorTime) /\ UNCHANGED procVars
  BY <1>1, <1>5, PollAgainInv
<1>6. QED
  BY <1>2, <1>3, <1>4, <1>5 DEF PollRun

LEMMA MeasureInv ==
    ASSUME Inv, Measure, UNCHANGED << setup, searchVars >>
    PROVE  Inv'
<1>1. pc = "measure" /\ Own(benches) = {} /\ phase # "done" /\ phase' # "done"
  BY DEF Inv, Stopped, Measure, Types, Ended, searchVars
<1>2. CASE Abort /\ UNCHANGED procVars
  BY <1>1, <1>2, AbortInv DEF procVars, Between, Inv, Types
<1>3. ASSUME NEW m \in IF output = {} THEN {NoNumbers} ELSE output, perf' = m, mode' = mode,
             IF mode = "once" \/ second
             THEN Return /\ UNCHANGED << procVars, cur, err >>
             ELSE /\ StopBench(services, 0)
                  /\ IF setup.rateFixed \/ m = NoNumbers
                     THEN /\ Return
                          /\ err' = IF setup.rateFixed THEN err ELSE "error"
                          /\ UNCHANGED cur
                     ELSE /\ pc' = "bench"
                          /\ second' = TRUE
                          /\ cur' = [cur EXCEPT !.rate = "fitted"]
                          /\ UNCHANGED << attempt, polls, err >>
      PROVE  Inv'
  <2>1. m = NoNumbers \/ OfThis(m)
    BY <1>1, <1>3 DEF Inv, Measures
  <2>2. /\ services' = services /\ benches' \in SUBSET Bench
        /\ \A x \in benches' : ~x.deaf => x \in benches
    BY <1>3, StopBenchStops DEF procVars, Inv, Types
  <2>3. Own(benches') = {}
    BY <1>1, <2>2 DEF Own
  <2>4. RowsOwn'
    BY DEF Inv, RowsOwn, searchVars
  <2>5. CASE Return /\ UNCHANGED cur
    <3>1. Types'
      BY <1>1, <2>2, <2>5 DEF Inv, Types, Return, searchVars, Ended, Between, Running
    <3>2. OneEach' /\ Stopped'
      BY <1>1, <2>2, <2>3, <2>5 DEF Inv, OneEach, Stopped, Return, Between, Running
    <3>3. Measures'
      BY <1>3, <2>1, <2>5 DEF Measures, OfThis, Return
    <3>4. QED
      BY <2>4, <3>1, <3>2, <3>3 DEF Inv
  <2>6. CASE /\ pc' = "bench" /\ second' = TRUE /\ cur' = [cur EXCEPT !.rate = "fitted"]
             /\ UNCHANGED attempt
    <3>1. /\ cur'.no = cur.no /\ cur'.p = cur.p /\ cur'.rate = "fitted"
          /\ cur' = [no |-> cur'.no, p |-> cur'.p, rate |-> cur'.rate]
      BY <2>6 DEF Inv, Types
    <3>2. Types'
      BY <1>1, <2>2, <2>6, <3>1 DEF Inv, Types, searchVars, Ended, Between, Running
    <3>3. OneEach' /\ Stopped'
      BY <1>1, <2>2, <2>3, <2>6, <3>1 DEF Inv, OneEach, Stopped, Between, Running
    <3>4. Measures'
      BY <2>6 DEF Measures, Running
    <3>5. QED
      BY <2>4, <3>2, <3>3, <3>4 DEF Inv
  <2>7. QED
    BY <1>3, <2>5, <2>6
<1>4. QED
  BY <1>2, <1>3 DEF Measure

LEMMA EvaluateInv ==
    ASSUME Inv, Evaluate, UNCHANGED searchVars
    PROVE  Inv'
BY StartServiceInv, PollServiceInv, StartBenchInv, PollRunInv, MeasureInv DEF Evaluate

-----------------------------------------------------------------------------
(* What the processes do by themselves, and the end and start of programs.  *)

LEMMA EnvironmentInv ==
    ASSUME Inv, Environment, UNCHANGED searchVars
    PROVE  Inv'
<1>1. UNCHANGED << pc, cur, second, attempt, perf, err, phase, rows >>
  BY DEF Environment, runVars, searchVars
<1>2. RowsOwn'
  BY <1>1 DEF Inv, RowsOwn
<1>3. ASSUME NEW s \in services, ServiceUp(s) \/ ServiceExits(s)
      PROVE  Inv'
  <2> DEFINE up == [s EXCEPT !.up = TRUE]
  <2>1. /\ up \in Service /\ up.no = s.no /\ up.deaf = s.deaf
        /\ UNCHANGED << benches, output >>
        /\ services' \subseteq (services \ {s}) \cup {up}
    BY <1>3 DEF ServiceUp, ServiceExits, Inv, Types, Service
  <2> HIDE DEF up
  <2>2. Types'
    BY <1>1, <2>1 DEF Inv, Types, Ended
  <2>3. OneEach'
    <3>1. \A x \in Own(services') : x \in Own(services) \ {s} \/ (x = up /\ s \in Own(services))
      BY <1>3, <2>1 DEF Own
    <3>2. \A x, y \in Own(services') : x = y
      BY <3>1 DEF Inv, OneEach
    <3>3. \A x \in Own(services') : x.no = cur.no
      BY <2>1, <3>1 DEF Inv, OneEach
    <3>4. QED
      BY <1>1, <2>1, <3>2, <3>3 DEF Inv, OneEach
  <2>4. Stopped' /\ Measures'
    BY <1>1, <2>1 DEF Inv, Stopped, Own, Measures, OfThis
  <2>5. QED
    BY <1>2, <2>2, <2>3, <2>4 DEF Inv
<1>4. ASSUME NEW b \in benches, BenchEnds(b)
      PROVE  Inv'
  <2>1. benches' \in SUBSET benches /\ services' = services
    BY <1>4 DEF BenchEnds
  <2>2. Types' /\ OneEach' /\ Stopped'
    BY <1>1, <2>1 DEF Inv, Types, OneEach, Stopped, Own, Ended
  <2>3. \A m \in output' : m \in output \/ OfThis(m)
    <3>1. ASSUME NEW s \in Serving
          PROVE  OfThis(Measured(b, s))
      <4>1. b \in Bench /\ s \in Service /\ s \in services
        BY <3>1 DEF Serving, Inv, Types
      <4>2. CASE b.deaf \/ s.deaf \/ 0 \in {b.no, s.no}
        BY <4>2 DEF OfThis, Measured
      <4>3. CASE ~(b.deaf \/ s.deaf \/ 0 \in {b.no, s.no})
        <5>1. b \in Own(benches) /\ s \in Own(services)
          BY <4>1, <4>3 DEF Own, Bench, Service
        <5>2. b.no = cur.no /\ b.rate = cur.rate /\ s.no = cur.no
          BY <5>1 DEF Inv, OneEach
        <5>3. QED
          BY <5>2 DEF OfThis, Measured
      <4>4. QED
        BY <4>2, <4>3
    <3>2. QED
      BY <1>4, <3>1 DEF BenchEnds
  <2>4. Measures'
    BY <1>1, <2>3 DEF Inv, Measures, OfThis
  <2>5. QED
    BY <1>2, <2>2, <2>4 DEF Inv
<1>5. QED
  BY <1>3, <1>4 DEF Environment

LEMMA DieInv ==
    ASSUME Inv, Die
    PROVE  Inv'
<1>1. Types' /\ OneEach' /\ Stopped'
  BY DEF Inv, Types, OneEach, Stopped, Die, runVars, Own, Ended, Between, Running
<1>2. Measures' /\ RowsOwn'
  BY DEF Inv, Measures, RowsOwn, OfThis, Die, runVars, Running
<1>3. QED
  BY <1>1, <1>2 DEF Inv

\* What lives on belongs to no evaluation of the new program.
LEMMA StartAgainInv ==
    ASSUME Inv, StartAgain
    PROVE  Inv'
<1>1. services' \in SUBSET Service /\ \A x \in services' : x.no = 0
  BY DEF Inv, Types, StartAgain, Disown, Service
<1>2. benches' \in SUBSET Bench /\ \A x \in benches' : x.no = 0
  BY DEF Inv, Types, StartAgain, Disown, Bench
<1>3. Own(services') = {} /\ Own(benches') = {}
  BY <1>1, <1>2 DEF Own
<1>4. Types'
  BY <1>1, <1>2 DEF StartAgain, Types, NoRun, None, Ended, Between
<1>5. OneEach' /\ Stopped'
  BY <1>3 DEF StartAgain, OneEach, Stopped, Running, Between
<1>6. Measures' /\ RowsOwn'
  BY DEF StartAgain, Measures, RowsOwn, Running
<1>7. QED
  BY <1>4, <1>5, <1>6 DEF Inv

LEMMA StepInv == Inv /\ [Next]_vars => Inv'
<1> SUFFICES ASSUME Inv, [Next]_vars
             PROVE  Inv'
  OBVIOUS
<1>1. CASE UNCHANGED vars
  BY <1>1 DEF vars, runVars, procVars, searchVars, Inv, Types, OneEach, Stopped, Measures, RowsOwn,
              Own, OfThis, Ended
<1>2. QED
  BY <1>1, SearchInv, EvaluateInv, EnvironmentInv, DieInv, StartAgainInv DEF Next, Program

-----------------------------------------------------------------------------
(* The theorems. *)

\* Whatever the optimizer meets, numbers saved without an error are those of
\* the row's own evaluation: measured by a benchmark that it started, at the
\* rate that the row names, on a service that it started; unless a process
\* has outlived a kill or its program (save_result after run or
\* run_with_request_rate).
THEOREM RowsCorrect == Spec => []RowsOwn
<1>1. Inv => RowsOwn
  BY DEF Inv
<1>2. QED
  BY InitInv, StepInv, <1>1, PTL DEF Spec

\* Nothing is left behind: a program never has two services or two benchmarks,
\* it has neither between evaluations and at its end, and next to the service
\* that it waits for or measures no other one lives, except processes that no
\* signal ends (stop_target_server, Simulator.run's kill of residual services).
THEOREM NothingLeft == Spec => []NoneLeft
<1>1. ASSUME NEW S, \A x, y \in S : x = y
      PROVE  Cardinality(S) <= 1
  <2>1. CASE S = {}
    BY <2>1, FS_EmptySet
  <2>2. CASE S # {}
    <3>1. PICK x : S = {x}
      BY <1>1, <2>2
    <3>2. QED
      BY <3>1, FS_Singleton
  <2>3. QED
    BY <2>1, <2>2
<1>2. ASSUME Inv
      PROVE  NoneLeft
  <2> DEFINE live(all) == { x \in all : ~x.deaf }
             own(all) == { x \in live(all) : x.no > 0 }
  <2>1. \A all : own(all) = Own(all)
    BY DEF Own
  <2>2. Cardinality(Own(services)) <= 1 /\ Cardinality(Own(benches)) <= 1
    BY <1>1, <1>2 DEF Inv, OneEach
  <2>3. pc \in {"idle", "default", "adopt"} \/ phase = "done"
          => Own(services) \cup Own(benches) = {}
    BY <1>2 DEF Inv, Stopped, Between
  <2>4. pc \in {"wait", "bench", "monitor", "measure"} => \A s \in live(services) : s.no = cur.no
    BY <1>2 DEF Inv, Stopped, Running
  <2>5. QED
    BY <2>1, <2>2, <2>3, <2>4 DEF NoneLeft
<1>3. QED
  BY InitInv, StepInv, <1>2, PTL DEF Spec
=============================================================================
