---------------------------- MODULE MetricControl ----------------------------
(***************************************************************************)
(* The dynamic switch of ms_service_metric: command line clients           *)
(* (control/cli.py) command a shared segment (ShmManager) and signal the   *)
(* service processes, which follow it (ControlWatch).  Anything may die    *)
(* between two steps, holding the semaphore or not.                        *)
(***************************************************************************)
EXTENDS ControlWatch

CONSTANTS
    MaxTime,     \* bound: seconds that pass
    MaxCommands, \* bound: command line runs
    MaxCrashes   \* bound: clients killed

ASSUME BoundAssumption == MaxTime \in Nat /\ MaxCommands \in Nat /\ MaxCrashes \in Nat

VARIABLES
    cmd,      \* cmd[c]: the command of client c
    commands, \* command line runs so far
    crashes,  \* clients killed so far
    now       \* int(time.time())

bounds == << commands, crashes, now >>
vars == << shmVars, watchVars, cmd, bounds >>

Commands == { "on", "off", "restart", "status" }
Target(k) == IF k = "off" THEN "OFF" ELSE "ON"

Init ==
    /\ ShmInit
    /\ WatchInit
    /\ cmd = [c \in Clis |-> "status"]
    /\ commands = 0
    /\ crashes = 0
    /\ now = 0

-----------------------------------------------------------------------------
(* One run of the command line tool.                                       *)

Invoke(c, k) ==
    /\ pc[c] = "idle"
    /\ commands < MaxCommands
    /\ commands' = commands + 1
    /\ cmd' = [cmd EXCEPT ![c] = k]
    /\ Goto(c, "open")
    /\ UNCHANGED << idx, names, semVal, segment, conn, history, watchVars, crashes, now >>

\* on and restart create what is missing; off and status do not.
ConnectCli(c) ==
    /\ Connect(c, cmd[c] \in {"on", "restart"}, "command", "exit")
    /\ UNCHANGED << watchVars, cmd, bounds >>

\* Without force, a command that changes nothing leaves the critical section at once.
CommandUnchanged(c) ==
    /\ pc[c] = "command"
    /\ cmd[c] \in {"on", "off"} /\ state[seg[c]] = Target(cmd[c])
    /\ AcquireRelease(c)
    /\ Goto(c, IF cmd[c] = "off" THEN "should_destroy" ELSE "exit")
    /\ UNCHANGED << idx, names, segment, conn, registered, at, age, watchVars, cmd, bounds >>

Command(c) ==
    /\ pc[c] = "command"
    /\ \/ cmd[c] \in {"restart", "status"}
       \/ state[seg[c]] # Target(cmd[c])
    /\ Acquire(c)
    /\ Goto(c, IF cmd[c] = "status" THEN "cleanup" ELSE "set_state")
    /\ UNCHANGED << idx, names, segment, conn, registered, at, age, watchVars, cmd, bounds >>

SetState(c) ==
    /\ pc[c] = "set_state"
    /\ state' = [state EXCEPT ![seg[c]] = Target(cmd[c])]
    /\ Goto(c, "set_ts")
    /\ UNCHANGED << idx, names, semVal, hdr, ts, len, cursor, slot, conn, history,
                    watchVars, cmd, bounds >>

\* int(time.time()): the only place the clock is read, so time passes here.
SetTimestamp(c) ==
    /\ pc[c] = "set_ts"
    /\ \E t \in now .. MaxTime :
         /\ now' = t
         /\ ts' = [ts EXCEPT ![seg[c]] = t]
    /\ Goto(c, "signal")
    /\ UNCHANGED << idx, names, semVal, hdr, state, len, cursor, slot, conn, history,
                    watchVars, cmd, commands, crashes >>

\* os.kill(pid, SIGUSR1) for the pid at one position.  The pid of a dead process is cleared;
\* one that has no handler is killed by the signal's default action.
SignalSlot(c) ==
    LET s == seg[c]
        pid == slot[s][idx[c]]
    IN  /\ pc[c] = "signal"
        /\ idx[c] < len[s]
        /\ idx' = [idx EXCEPT ![c] = @ + 1]
        /\ \/ /\ pid = NoPid
              /\ UNCHANGED << pc, slot, sig >>
           \/ /\ pid # NoPid /\ Dead(pid)
              /\ slot' = [slot EXCEPT ![s][idx[c]] = NoPid]
              /\ UNCHANGED << pc, sig >>
           \/ /\ pid # NoPid /\ Installed(pid)
              /\ sig' = [sig EXCEPT ![pid] = TRUE]
              /\ UNCHANGED << pc, slot >>
           \/ /\ pid # NoPid /\ pc[pid] = "stopped"
              /\ Goto(pid, "killed")
              /\ UNCHANGED << slot, sig >>
        /\ UNCHANGED << names, semVal, hdr, state, ts, len, cursor, conn, history, cur,
                        mread, hpc, hread, hooks, failed, skipped, cut, cmd, bounds >>

\* Mutant of CommandDone: the last position is not looked at.
CommandDoneEarly(c) ==
    /\ pc[c] = "signal"
    /\ idx[c] + 1 >= len[seg[c]]
    /\ Release(c)
    /\ idx' = [idx EXCEPT ![c] = 0]
    /\ Goto(c, IF cmd[c] = "off" THEN "should_destroy" ELSE "exit")
    /\ UNCHANGED << names, segment, conn, history, watchVars, cmd, bounds >>

\* Mutant of CommandDone: the semaphore is not released.
CommandDoneHolding(c) ==
    /\ pc[c] = "signal"
    /\ idx[c] >= len[seg[c]]
    /\ idx' = [idx EXCEPT ![c] = 0]
    /\ Goto(c, IF cmd[c] = "off" THEN "should_destroy" ELSE "exit")
    /\ UNCHANGED << names, semVal, segment, conn, history, watchVars, cmd, bounds >>

CommandDone(c) ==
    /\ pc[c] = "signal"
    /\ idx[c] >= len[seg[c]]
    /\ Release(c)
    /\ idx' = [idx EXCEPT ![c] = 0]
    /\ Goto(c, IF cmd[c] = "off" THEN "should_destroy" ELSE "exit")
    /\ UNCHANGED << names, segment, conn, history, watchVars, cmd, bounds >>

ReleaseResources(c) ==
    /\ CleanupInvalid(c) \/ ShouldDestroy(c) \/ UnlinkSegment(c) \/ UnlinkSemaphore(c)
    /\ UNCHANGED << watchVars, cmd, bounds >>

Exit(c) ==
    /\ pc[c] = "exit"
    /\ Goto(c, "idle")
    /\ cmd' = [cmd EXCEPT ![c] = "status"]
    /\ seg' = [seg EXCEPT ![c] = NoObject]
    /\ sem' = [sem EXCEPT ![c] = NoObject]
    /\ idx' = [idx EXCEPT ![c] = 0]
    /\ UNCHANGED << names, semVal, segment, history, watchVars, bounds >>

CliStep(c) ==
    \/ ConnectCli(c)
    \/ CommandUnchanged(c)
    \/ Command(c)
    \/ SetState(c)
    \/ SetTimestamp(c)
    \/ SignalSlot(c)
    \/ CommandDone(c)
    \/ ReleaseResources(c)
    \/ Exit(c)

-----------------------------------------------------------------------------
(* What the system does not control.                                       *)

\* SIGKILL.  A semaphore the client holds stays taken.
CrashProcess(p) ==
    /\ pc[p] # "idle" /\ ~Dead(p)
    /\ crashes < MaxCrashes
    /\ crashes' = crashes + 1
    /\ Goto(p, "dead")
    /\ idx' = [idx EXCEPT ![p] = 0]
    /\ seg' = [seg EXCEPT ![p] = NoObject]
    /\ sem' = [sem EXCEPT ![p] = NoObject]
    /\ cur' = [cur EXCEPT ![p] = Blank]
    /\ mread' = [mread EXCEPT ![p] = Blank]
    /\ hread' = [hread EXCEPT ![p] = Blank]
    /\ hpc' = [hpc EXCEPT ![p] = "none"]
    /\ sig' = [sig EXCEPT ![p] = FALSE]
    /\ hooks' = [hooks EXCEPT ![p] = FALSE]
    /\ failed' = [failed EXCEPT ![p] = FALSE]
    /\ skipped' = [skipped EXCEPT ![p] = FALSE]
    /\ cut' = [cut EXCEPT ![p] = FALSE]
    /\ registered' = registered \ {p}
    /\ at' = [at EXCEPT ![p] = 0]
    /\ age' = [age EXCEPT ![p] = 0]
    /\ UNCHANGED << names, semVal, segment, guard, raced, cmd, commands, now >>

CrashCli(c) ==
    /\ pc[c] \notin {"idle", "exit"}
    /\ crashes < MaxCrashes
    /\ crashes' = crashes + 1
    /\ Goto(c, "exit")
    /\ UNCHANGED << idx, names, semVal, segment, conn, history, watchVars, cmd, commands, now >>

Next ==
    \/ \E p \in Procs :
         \/ Start(p) /\ UNCHANGED << cmd, bounds >>
         \/ MainStep(p) /\ UNCHANGED << cmd, bounds >>
         \/ HandlerStep(p) /\ UNCHANGED << cmd, bounds >>
         \/ Shutdown(p) /\ UNCHANGED << cmd, bounds >>
         \/ CrashProcess(p)
    \/ \E c \in Clis :
         \/ \E k \in Commands : Invoke(c, k)
         \/ CliStep(c)
         \/ CrashCli(c)

Spec == Init /\ [][Next]_vars

\* Every client that can take its next step takes it: a thread is scheduled, sem_wait returns
\* once the semaphore is free.  Nobody has to start, shut down or die.
Fairness ==
    /\ \A p \in Procs : WF_vars(MainStep(p) /\ UNCHANGED << cmd, bounds >>)
    /\ \A p \in Procs : WF_vars(HandlerStep(p) /\ UNCHANGED << cmd, bounds >>)
    /\ \A c \in Clis : WF_vars(CliStep(c))

FairSpec == Spec /\ Fairness

-----------------------------------------------------------------------------
Labels ==
    { "idle", "open", "create", "header", "list", "sem", "sem_create",
      "add", "register", "check", "check_ts", "decided", "in_callback", "commit", "running",
      "stop_symbols", "stop_watch", "stopped", "start_failed", "dead", "killed",
      "command", "set_state", "set_ts", "signal", "cleanup", "should_destroy",
      "unlink_shm", "unlink_sem", "exit" }

Readings == [state : States, ts : 0 .. MaxTime]

TypeOK ==
    /\ pc \in [Client -> Labels]
    /\ idx \in [Client -> 0 .. MaxProcs]
    /\ shmName \in ObjectOrNone /\ semName \in ObjectOrNone
    /\ shmMade \in ObjectOrNone /\ semMade \in ObjectOrNone
    /\ semVal \in [Object -> 0 .. 1]
    /\ hdr \in [Object -> BOOLEAN]
    /\ state \in [Object -> States]
    /\ ts \in [Object -> 0 .. MaxTime]
    /\ len \in [Object -> {0, MaxProcs}]
    /\ cursor \in [Object -> Index]
    /\ slot \in [Object -> [Index -> Procs \cup {NoPid}]]
    /\ seg \in [Client -> ObjectOrNone]
    /\ sem \in [Client -> ObjectOrNone]
    /\ guard \in [Object -> ObjectOrNone]
    /\ raced \in SUBSET Object
    /\ registered \in SUBSET Procs
    /\ at \in [Procs -> Index]
    /\ age \in [Procs -> Nat]
    /\ cur \in [Procs -> Readings]
    /\ mread \in [Procs -> Readings]
    /\ hpc \in [Procs -> {"none", "ts", "callback"}]
    /\ hread \in [Procs -> Readings]
    /\ sig \in [Procs -> BOOLEAN]
    /\ hooks \in [Procs -> BOOLEAN]
    /\ failed \in [Procs -> BOOLEAN]
    /\ skipped \in [Procs -> BOOLEAN]
    /\ cut \in [Procs -> BOOLEAN]
    /\ cmd \in [Clis -> Commands]
    /\ commands \in 0 .. MaxCommands
    /\ crashes \in 0 .. MaxCrashes
    /\ now \in 0 .. MaxTime

\* Two clients inside the critical section of one segment hold different semaphores only if
\* the segment was locked with two: otherwise the second would have waited.
SegmentExclusion ==
    \A c, d \in Client :
        (c # d /\ pc[c] \in Locked /\ pc[d] \in Locked /\ seg[c] = seg[d])
            => seg[c] \in raced

InList(p) == \E i \in Index : i < len[seg[p]] /\ slot[seg[p]][i] = p

\* A process that registered stays in the process list, where every later command signals it,
\* until it has died or MaxProcs later registrations have wrapped around the ring
\* (add_process, cleanup_invalid_processes, _send_signals_and_cleanup).
RegistrationKept ==
    \A p \in registered :
        (~Dead(p) /\ seg[p] # NoObject /\ seg[p] \notin raced /\ age[p] < MaxProcs)
            => slot[seg[p]][at[p]] = p

\* Nothing is under way in process p: it is past start(), no signal is pending or handled.
Quiet(p) == pc[p] = "running" /\ hpc[p] = "none" /\ ~sig[p]

\* Process p does what its segment says.
Follows(p) ==
    LET s == seg[p]
    IN  /\ cur[p].state = state[s]
        /\ state[s] = "ON" => cur[p].ts = ts[s]
        /\ ~failed[p] => (hooks[p] <=> state[s] = "ON")

\* No command is being given through segment s.
Settled(s) == s \notin raced /\ guard[s] # NoObject /\ semVal[guard[s]] = 1

\* A listed process that is quiet follows the last command, unless a signal reached it while
\* it was already looking: torn reads of state and timestamp, commands that arrive before,
\* during or after its registration, and callbacks that fail never leave it behind.
ListedFollow ==
    \A p \in registered :
        (Quiet(p) /\ InList(p) /\ Settled(seg[p]) /\ ~skipped[p] /\ ~cut[p]) => Follows(p)

\* A semaphore whose holder was killed: nothing ever releases it.
Leaked(k) ==
    /\ k # NoObject /\ semVal[k] = 0 /\ crashes > 0
    /\ ~\E c \in Client : sem[c] = k /\ pc[c] \in Locked

\* The handler waits for the lock held by the frame it interrupted.
HandlerStuck(p) == hpc[p] = "callback" /\ MainHoldsLock(p)

\* Every run of the command line tool returns, unless a client was killed inside the critical
\* section of the semaphore it needs.
CommandsReturn ==
    \A c \in Clis : (pc[c] # "idle") ~> (pc[c] = "idle" \/ Leaked(sem[c]))

\* A service process gets through start(), or is killed on the way, or fails to create the
\* objects, unless it needs a semaphore whose holder was killed or its handler waits for itself.
StartReturns ==
    \A p \in Procs :
        (pc[p] = "open") ~> \/ pc[p] \in {"running", "start_failed"} \/ Dead(p)
                            \/ Leaked(sem[p]) \/ HandlerStuck(p)

-----------------------------------------------------------------------------
(* What the repository says and the code does not do.                      *)

\* Resources are released only when no process uses them (destroy: "call it once it is certain
\* that no process uses them"): a running process that registered is connected to the segment
\* that later commands will open.
NoOrphans ==
    \A p \in registered : pc[p] = "running" => shmName = seg[p]

\* After a failed initialisation "metrics are disabled and vLLM startup will continue": a
\* command never kills a service process.
NoneKilled == \A p \in Procs : pc[p] # "killed"

\* "A state change triggers the callback": a listed process that is quiet follows the last
\* command.  ListedFollow without its exceptions.
AlwaysFollow ==
    \A p \in registered : (Quiet(p) /\ InList(p) /\ Settled(seg[p])) => Follows(p)

\* The handler "prevents re-entry with a lock": it never waits for the frame it interrupted.
HandlerNeverWaits == \A p \in Procs : ~HandlerStuck(p)
=============================================================================
