----------------------------- MODULE Optimizer -----------------------------
(***************************************************************************)
(* A run of the parameter optimizer (PSOOptimizer.run_plugin): the default *)
(* parameters are evaluated, then the candidates of the particle swarm,    *)
(* then the best rows again and variants of them.  Every evaluation ends   *)
(* in save_result, which writes a row and stops what was started.  The     *)
(* program may die at any step and be started again.                       *)
(*                                                                         *)
(* The swarm is reduced to proposing parameters; the fitness of a row to   *)
(* whether it is finite.                                                   *)
(***************************************************************************)
EXTENDS Scheduler

CONSTANTS
    Default,      \* the parameters of the first evaluation
    Infeasible,   \* those map_param_with_value raises for
    MaxProposals, \* n_particles * iters
    MaxBest,      \* bound on the rows of get_best_result (2 * pso_top_k)
    MaxTunes,     \* max_fine_tune
    MaxPrograms   \* bound on starts of the optimizer

ASSUME ParamsAssumption == Infeasible \subseteq Params /\ Default \notin Infeasible
ASSUME LimitsAssumption == {MaxProposals, MaxBest, MaxPrograms} \subseteq Nat \ {0} /\ MaxTunes \in Nat

VARIABLES
    phase,     \* "default", "search", "refine", "done", "failed" or "killed"
    seen,      \* _seen_params
    proposed,  \* the number of proposals
    todo,      \* best_results not yet refined
    tunes,     \* fine tuning steps of the row being refined
    fit,       \* the fitness to save: "rated" by minimum_algorithm, or "inf"
    rows,      \* the file of this program
    target,    \* the concurrency limit in the optimizer's target_field
    held,      \* the same in the fields the scheduler gave to its plugins
    programs   \* the number of starts

searchVars == << phase, seen, proposed, todo, tunes, fit, rows, target, held, programs >>
vars == << setup, pc, runVars, procVars, searchVars >>

Ended == phase \in {"done", "failed", "killed"}

ProgramInit ==
    /\ phase = "default"
    /\ seen = {}
    /\ proposed = 0
    /\ todo = {}
    /\ tunes = 0
    /\ fit = "rated"
    /\ rows = {}
    /\ target = "full"
    /\ held = "full"

Init == SchedulerInit /\ ProgramInit /\ programs = 1

-----------------------------------------------------------------------------
\* Scheduler.run and run_with_request_rate: everything of the last evaluation
\* is reset; update_data_field hands copies of the fields to the plugins.
Begin(p, rate, m) ==
    /\ cur' = [no |-> cur.no + 1, p |-> p, rate |-> rate]
    /\ mode' = m
    /\ second' = FALSE
    /\ attempt' = 1
    /\ polls' = 0
    /\ perf' = NoNumbers
    /\ err' = None
    /\ fit' = "rated"
    /\ held' = target
    /\ pc' = "start"
    /\ UNCHANGED << setup, procVars, phase, rows, target, programs >>

\* save_result: a row, then the stop.  A save that raises ends the program.
Row == [no |-> cur.no, p |-> cur.p, rate |-> cur.rate, perf |-> perf, err |-> err,
        finite |-> fit = "rated" /\ perf # NoNumbers]
Save ==
    /\ pc = "save"
    /\ \/ /\ rows' = rows \cup {Row}
          /\ pc' = "stop"
          /\ UNCHANGED << phase, faults >>
       \/ /\ faults < MaxFaults
          /\ faults' = faults + 1
          /\ phase' = "failed"
          /\ pc' = "end"
          /\ UNCHANGED rows
    /\ UNCHANGED << setup, runVars, services, benches, output,
                    seen, proposed, todo, tunes, fit, target, held, programs >>
StopAfterSave ==
    /\ pc = "stop"
    /\ StopTargetServer
    /\ pc' = IF phase = "default" THEN "default" ELSE "idle"
    /\ UNCHANGED << setup, runVars, searchVars >>

-----------------------------------------------------------------------------
(* prepare_plugin *)
EvaluateDefault ==
    /\ pc = "idle" /\ phase = "default"
    /\ Begin(Default, "asked", "once")
    /\ UNCHANGED << seen, proposed, todo, tunes >>

\* AISBench on MindIE: a concurrency limit is taken from the result, if any.
LimitConcurrency ==
    /\ pc = "default" /\ setup.engine = "mindie" /\ setup.tester = "ais"
    /\ IF output = {} THEN phase' = "failed" /\ pc' = "end" /\ UNCHANGED target
       ELSE target' \in {target, "limited"} /\ pc' = "adopt" /\ UNCHANGED phase
    /\ UNCHANGED << setup, runVars, procVars, seen, proposed, todo, tunes, fit, rows, held, programs >>

\* The search goes on with the fields the plugins hold.
AdoptFields ==
    /\ pc = "adopt" \/ (pc = "default" /\ ~(setup.engine = "mindie" /\ setup.tester = "ais"))
    /\ IF err # None THEN phase' = "failed" /\ pc' = "end" /\ UNCHANGED target
       ELSE phase' = "search" /\ pc' = "idle" /\ target' = held
    /\ UNCHANGED << setup, runVars, procVars, seen, proposed, todo, tunes, fit, rows, held, programs >>

-----------------------------------------------------------------------------
(* op_func *)
Propose(p) ==
    /\ pc = "idle" /\ phase = "search" /\ proposed < MaxProposals
    /\ proposed' = proposed + 1
    /\ UNCHANGED << todo, tunes >>

\* The first proposal of parameters is evaluated.
EvaluateProposal(p) ==
    /\ Propose(p)
    /\ p \notin seen \cup Infeasible
    /\ seen' = seen \cup {p}
    /\ Begin(p, "asked", "twice")

\* Their mapping fails before run_with_request_rate has reset anything, and
\* what is saved is the evaluation before, with an infinite fitness.
MappingFails(p) ==
    /\ Propose(p)
    /\ p \in Infeasible \ seen
    /\ seen' = seen \cup {p}
    /\ fit' = "inf"
    /\ pc' = "save"
    /\ UNCHANGED << setup, runVars, procVars, phase, rows, target, held, programs >>

\* _skip_if_duplicate: a row without numbers; its mapping is not guarded.
SkipDuplicate(p) ==
    /\ Propose(p)
    /\ p \in seen \ Infeasible
    /\ cur' = [no |-> cur.no + 1, p |-> p, rate |-> "asked"]
    /\ perf' = NoNumbers
    /\ err' = "skip"
    /\ fit' = "inf"
    /\ pc' = "save"
    /\ UNCHANGED << setup, mode, second, attempt, polls, procVars,
                    phase, seen, rows, target, held, programs >>
DuplicateFails(p) ==
    /\ Propose(p)
    /\ p \in seen \cap Infeasible
    /\ phase' = "failed"
    /\ pc' = "end"
    /\ UNCHANGED << setup, runVars, procVars, seen, fit, rows, target, held, programs >>

\* get_best_result: the rows with the lowest fitness or the highest speed.
Eligible == { r \in rows : r.finite }
EndSearch ==
    /\ pc = "idle" /\ phase = "search" /\ proposed > 0
    /\ todo' \in SUBSET Eligible
    /\ Cardinality(todo') <= MaxBest
    /\ Eligible # {} => todo' # {}
    /\ phase' = "refine"
    /\ tunes' = MaxTunes
    /\ UNCHANGED << setup, pc, runVars, procVars, seen, proposed, fit, rows, target, held, programs >>

-----------------------------------------------------------------------------
(* refine_optimization_candidates *)
Refine(r) ==
    /\ pc = "idle" /\ phase = "refine"
    /\ todo' = todo \ {r}
    /\ tunes' = 0
    /\ Begin(r.p, "asked", "once")
    /\ UNCHANGED << seen, proposed >>
FineTune ==
    /\ pc = "idle" /\ phase = "refine" /\ tunes < MaxTunes /\ perf # NoNumbers
    /\ tunes' = tunes + 1
    /\ Begin(cur.p, "asked", "once")
    /\ UNCHANGED << seen, proposed, todo >>
Finish ==
    /\ pc = "idle" /\ phase = "refine" /\ todo = {}
    /\ phase' = "done"
    /\ pc' = "end"
    /\ UNCHANGED << setup, runVars, procVars, seen, proposed, todo, tunes, fit, rows, target, held, programs >>

-----------------------------------------------------------------------------
\* The program dies with everything it has in memory; what it started lives on.
Die ==
    /\ ~Ended /\ faults < MaxFaults
    /\ faults' = faults + 1
    /\ phase' = "killed"
    /\ pc' = "end"
    /\ UNCHANGED << setup, runVars, services, benches, output,
                    seen, proposed, todo, tunes, fit, rows, target, held, programs >>
Disown(all) == { [x EXCEPT !.no = 0] : x \in all }
StartAgain ==
    /\ Ended /\ programs < MaxPrograms
    /\ programs' = programs + 1
    /\ services' = Disown(services)
    /\ benches' = Disown(benches)
    /\ output' = { [NoNumbers EXCEPT !.stray = TRUE] : m \in output }
    /\ pc' = "idle" /\ cur' = NoRun /\ mode' = "once"
    /\ second' = FALSE /\ attempt' = 1 /\ polls' = 0
    /\ perf' = NoNumbers /\ err' = None
    /\ phase' = "default" /\ seen' = {} /\ proposed' = 0 /\ todo' = {} /\ tunes' = 0
    /\ fit' = "rated" /\ rows' = {} /\ target' = "full" /\ held' = "full"
    /\ UNCHANGED << setup, faults >>

Search ==
    \/ EvaluateDefault \/ LimitConcurrency \/ AdoptFields
    \/ \E p \in Params : EvaluateProposal(p) \/ MappingFails(p) \/ SkipDuplicate(p) \/ DuplicateFails(p)
    \/ EndSearch \/ (\E r \in todo : Refine(r)) \/ FineTune \/ Finish
    \/ Save \/ StopAfterSave
Program == Search \/ (Evaluate /\ UNCHANGED searchVars)
Next == Program \/ (Environment /\ UNCHANGED searchVars) \/ Die \/ StartAgain

Spec == Init /\ [][Next]_vars
FairSpec == Spec /\ WF_vars(Program)

-----------------------------------------------------------------------------
\* Numbers saved without an error are those of the row's own evaluation: of a
\* benchmark that it started, at the rate that the row names, on a service that
\* it started; unless a process has outlived a kill or its program.
RowsOwn ==
    \A r \in rows : r.perf # NoNumbers /\ r.err = None =>
        r.perf.stray \/ << r.perf.svc, r.perf.bench, r.perf.rate >> = << r.no, r.no, r.rate >>

\* Retries, second runs and failures in between leave nothing behind: this
\* program never has two services or two benchmarks, it has neither between
\* evaluations and at its end (unless a save failed), and once it has started
\* a service there is no other, not even one of a program that died; processes
\* that no signal ends are excepted.
NoneLeft ==
    LET live(all) == { x \in all : ~x.deaf }
        own(all) == { x \in live(all) : x.no > 0 }
    IN  /\ Cardinality(own(services)) <= 1 /\ Cardinality(own(benches)) <= 1
        /\ pc \in {"idle", "default", "adopt"} \/ phase = "done" => own(services) \cup own(benches) = {}
        /\ pc \in {"wait", "bench", "monitor", "measure"} => \A s \in live(services) : s.no = cur.no

\* The program ends, although services and benchmarks may hang.
Ends == ~Ended ~> Ended

\* Disagreements: parameters that cannot be mapped get an infinite fitness and
\* do not end the search; the limit found by the default run holds in the
\* search; rows with a fitness were measured at the rate they name.
SearchSurvives == [][phase = "search" /\ pc = "idle" => phase' \in {"search", "refine", "killed"}]_vars
LimitKept == [][phase = "default" /\ phase' = "search" => target' = target]_vars
LastRunCounts == \A r \in rows : r.finite => r.perf.stray \/ r.perf.rate = r.rate
=============================================================================
