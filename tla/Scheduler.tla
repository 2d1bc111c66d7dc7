----------------------------- MODULE Scheduler -----------------------------
(***************************************************************************)
(* The scheduler of the parameter optimizer: it starts a service with the  *)
(* candidate's parameters, waits until it answers, runs a benchmark on it  *)
(* and watches both, reads what the benchmark wrote, and stops them.       *)
(*                                                                         *)
(* Evaluations are numbered; a service or benchmark carries the number of  *)
(* the evaluation that started it, or 0 if that was a program that has     *)
(* ended since.  A process may refuse to die ("deaf").  What is measured   *)
(* is reduced to who measured what.                                        *)
(***************************************************************************)
EXTENDS Naturals, FiniteSets

CONSTANTS
    Setups,       \* the configurations: engine, benchmark, whether the rate is fixed
    Params,       \* the parameters the search may propose
    WaitTime,     \* Scheduler.wait_time, in polls
    MonitorTime,  \* particles_time_out, in polls
    RetryNumber,  \* Scheduler.retry_number
    MaxFaults     \* bound on kills without effect, failed saves and crashes of the program

None == "none"
NoRun == [no |-> 0, p |-> None, rate |-> None]
NoNumbers == [svc |-> 0, bench |-> 0, rate |-> None, stray |-> FALSE]

ASSUME SetupsAssumption ==
    Setups \subseteq [engine : {"vllm", "mindie"}, tester : {"vllm", "ais"}, rateFixed : BOOLEAN]
ASSUME TimesAssumption == {WaitTime, MonitorTime, RetryNumber} \subseteq Nat \ {0}
ASSUME FaultsAssumption == MaxFaults \in Nat

VARIABLES
    setup,     \* the configuration
    pc,        \* where the program is
    cur,       \* simulate_run_info: number, parameters, request rate
    mode,      \* "once" (run) or "twice" (run_with_request_rate)
    second,    \* in the second run of the benchmark
    attempt,   \* of run_target_server
    polls,     \* of the loop it is in
    perf,      \* performance_index: a measurement or NoNumbers
    err,       \* error_info: None, "error" or "skip"
    services, benches, output, faults  \* the processes, and the files of the benchmark's directory

procVars == << services, benches, output, faults >>
runVars == << cur, mode, second, attempt, polls, perf, err >>

SchedulerInit ==
    /\ setup \in Setups
    /\ pc = "idle"
    /\ cur = NoRun
    /\ mode = "once"
    /\ second = FALSE
    /\ attempt = 1
    /\ polls = 0
    /\ perf = NoNumbers
    /\ err = None
    /\ services = {}
    /\ benches = {}
    /\ output = {}
    /\ faults = 0

-----------------------------------------------------------------------------
(* Processes. *)
Mine(all) == { x \in all : x.no = cur.no /\ ~x.deaf }  \* self.process, if it lives
Serving == { s \in services : s.up }                   \* whoever has the port

\* Killing some of all: one of them may stay.
AfterKill(all, some) ==
    LET mortal == { x \in some : ~x.deaf } IN
    {[left |-> all \ mortal, cost |-> 0]} \cup
    {[left |-> (all \ mortal) \cup {[x EXCEPT !.deaf = TRUE]}, cost |-> 1] : x \in mortal}

Measured(b, s) == [svc |-> s.no, bench |-> b.no, rate |-> b.rate,
                   stray |-> b.deaf \/ s.deaf \/ 0 \in {b.no, s.no}]

\* A service comes up if the port is free, and may end at any time.
ServiceUp(s) ==
    /\ Serving = {}
    /\ services' = (services \ {s}) \cup {[s EXCEPT !.up = TRUE]}
    /\ UNCHANGED << benches, output >>
ServiceExits(s) ==
    /\ ~s.deaf
    /\ services' = services \ {s}
    /\ UNCHANGED << benches, output >>

\* A benchmark ends with a result, if there is a service to measure, or without.
BenchEnds(b) ==
    /\ benches' = benches \ {b}
    /\ \/ output' = output
       \/ \E s \in Serving : output' = output \cup {Measured(b, s)}
    /\ UNCHANGED services

Environment ==
    /\ \/ \E s \in services : ServiceUp(s) \/ ServiceExits(s)
       \/ \E b \in benches : BenchEnds(b)
    /\ UNCHANGED << setup, pc, runVars, faults >>

-----------------------------------------------------------------------------
(* Stopping: the simulator, whose vllm plugin falls back on killing by     *)
(* command line, then the benchmark, whose vllm plugin removes its output. *)
StopBench(all, cost) ==
    \E b \in AfterKill(benches, Mine(benches)) :
        /\ benches' = b.left
        /\ output' = IF setup.tester = "vllm" THEN {} ELSE output
        /\ faults' = faults + cost + b.cost
        /\ faults' <= MaxFaults
        /\ services' = all
StopTargetServer ==
    \E s \in AfterKill(services, IF setup.engine = "vllm" THEN services ELSE Mine(services)) :
        StopBench(s.left, s.cost)

\* The end of an evaluation, and what it makes of an exception.
Return == pc' = "save" /\ second' = FALSE /\ attempt' = 1 /\ polls' = 0
Abort == Return /\ err' = "error" /\ UNCHANGED << cur, mode, perf >>
Goto(to) ==
    /\ pc' = to
    /\ polls' = 0
    /\ UNCHANGED << cur, mode, second, attempt, perf, err >>

\* Mutant of PollAgain: the loop starts over at the limit.
PollAgainForever(limit) ==
    polls' = (polls + 1) % limit /\ UNCHANGED << pc, cur, mode, second, attempt, perf, err >>

PollAgain(limit) ==
    IF polls + 1 = limit THEN Abort
    ELSE polls' = polls + 1 /\ UNCHANGED << pc, cur, mode, second, attempt, perf, err >>

\* A log line that the health checks know, inside run_target_server.
\* Mutant of LogError: nothing is stopped before the retry.
LogErrorLeaves ==
    /\ UNCHANGED procVars
    /\ \/ Abort
       \/ IF attempt = RetryNumber THEN Abort
          ELSE /\ attempt' = attempt + 1
               /\ pc' = "start"
               /\ polls' = 0
               /\ UNCHANGED << cur, mode, second, perf, err >>

LogError ==
    /\ StopTargetServer
    /\ \/ Abort
       \/ IF attempt = RetryNumber THEN Abort
          ELSE /\ attempt' = attempt + 1
               /\ pc' = "start"
               /\ polls' = 0
               /\ UNCHANGED << cur, mode, second, perf, err >>

-----------------------------------------------------------------------------
(* run_target_server and what follows it in run and run_with_request_rate. *)

\* simulator.run: residual services are killed by name before the new one starts.
\* "vllm" is also the name of vllm's benchmark.
Residual == IF setup.engine = "vllm" /\ setup.tester = "vllm" THEN benches ELSE {}
StartService ==
    /\ pc = "start"
    /\ \E k \in AfterKill(services, services), b \in AfterKill(benches, Residual) :
          /\ benches' = b.left
          /\ faults' = faults + k.cost + b.cost
          /\ faults' <= MaxFaults
          /\ \/ services' = k.left \cup {[no |-> cur.no, up |-> FALSE, deaf |-> FALSE]} /\ Goto("wait")
             \/ services' = k.left /\ Abort
    /\ UNCHANGED output

\* What simulator.health() may say.  vllm asks the port, whoever has it, once
\* its process has not failed; MindIE reads the log of its process.
Stages ==
    (IF Mine(services) = {} THEN {"error", "start"} ELSE {"start"}) \cup
    (IF setup.engine = "vllm"
     THEN IF Serving = {} THEN {} ELSE {"running", "error"}
     ELSE IF Mine(Serving) = {} THEN {} ELSE {"running"})

PollService ==
    /\ pc = "wait"
    /\ \/ LogError
       \/ /\ \E stage \in Stages :
                \/ stage = "running" /\ Goto("bench")
                \/ stage = "start" /\ PollAgain(WaitTime)
                \/ stage = "error" /\ Abort
          /\ UNCHANGED procVars

\* benchmark.run: before_run removes the output of earlier runs.
NewBench == [no |-> cur.no, rate |-> cur.rate, attempt |-> attempt, deaf |-> FALSE]

\* Mutant of StartBench: the output of earlier runs stays.
StartBenchKeeps ==
    /\ pc = "bench"
    /\ \/ benches' = benches \cup {NewBench} /\ Goto("monitor")
       \/ UNCHANGED benches /\ Abort
    /\ UNCHANGED << services, output, faults >>

StartBench ==
    /\ pc = "bench"
    /\ output' = {}
    /\ \/ benches' = benches \cup {NewBench} /\ Goto("monitor")
       \/ UNCHANGED benches /\ Abort
    /\ UNCHANGED << services, faults >>

\* monitoring_status, which has no one to retry for it in the second run.
PollRun ==
    /\ pc = "monitor"
    /\ \/ ~second /\ LogError
       \/ /\ \/ second /\ Abort
             \/ setup.engine = "vllm" /\ Abort  \* health() is not "running"
             \/ /\ setup.engine = "vllm" => "running" \in Stages
                /\ IF Mine(benches) = {} THEN Goto("measure") ELSE PollAgain(MonitorTime)
          /\ UNCHANGED procVars

\* get_performance_index; AISBench has no result without a file, vllm an empty one.
Measure ==
    /\ pc = "measure"
    /\ \/ setup.tester = "ais" /\ output = {} /\ Abort /\ UNCHANGED procVars
       \/ \E m \in IF output = {} THEN {NoNumbers} ELSE output :
             /\ output = {} => setup.tester = "vllm"
             /\ perf' = m
             /\ IF mode = "once" \/ second
                THEN Return /\ UNCHANGED << procVars, cur, err >>
                ELSE /\ StopBench(services, 0)
                     /\ IF setup.rateFixed \/ m = NoNumbers
                        THEN /\ Return
                             /\ err' = IF setup.rateFixed THEN err ELSE "error"
                             /\ UNCHANGED cur
                        ELSE /\ pc' = "bench"
                             /\ second' = TRUE
                             /\ cur' = [cur EXCEPT !.rate = "fitted"]
                             /\ UNCHANGED << attempt, polls, err >>
             /\ UNCHANGED << mode >>

Evaluate ==
    /\ StartService \/ PollService \/ StartBench \/ PollRun \/ Measure
    /\ UNCHANGED setup
=============================================================================
