---------------------------- MODULE ControlWatch ----------------------------
(***************************************************************************)
(* MetricControlWatch, as a service process runs it                        *)
(* (ms_service_metric/core/config/metric_control_watch.py), with the part  *)
(* of SymbolHandlerManager it calls back into: whether hooks are enabled,  *)
(* and the lock the callback and shutdown() hold.                          *)
(*                                                                         *)
(* Python runs a signal handler on the main thread, between two of its     *)
(* bytecodes.  A process is therefore a stack of at most two frames: the   *)
(* main frame, whose step is pc[p], and the SIGUSR1 handler, whose step is *)
(* hpc[p]; while the handler's frame exists the main frame does not move.  *)
(***************************************************************************)
EXTENDS ShmManager

States == { "OFF", "ON" }
Blank == [state |-> "OFF", ts |-> 0]

VARIABLES
    cur,    \* _current_state and _last_timestamp
    mread,  \* what start()'s own _check_control_state has read
    hpc,    \* the handler's step; "none" while _signal_lock is free
    hread,  \* what the handler has read
    sig,    \* SIGUSR1 is pending (sending it again changes nothing)
    hooks,  \* SymbolHandlerManager._enabled
    \* history, read by no action of the code:
    failed, \* the last callback raised
    skipped, \* a signal was dropped since the handler last started
    cut      \* the handler cut into start()'s check, and no callback has run alone since

watchVars == << cur, mread, hpc, hread, sig, hooks, failed, skipped, cut >>

\* Main frame inside `with SymbolHandlerManager._lock`.
MainHoldsLock(p) == pc[p] \in { "in_callback", "stop_symbols" }
\* Main frame inside start()'s _check_control_state, past its first read.
MidCheck(p) == pc[p] \in { "check_ts", "decided", "in_callback", "commit" }
\* _signal_handler is the process's SIGUSR1 handler.
Installed(p) == pc[p] \in { "add", "register", "check", "check_ts", "decided", "in_callback",
                            "commit", "running", "stop_symbols", "stop_watch" }

WatchInit ==
    /\ cur = [p \in Procs |-> Blank]
    /\ mread = [p \in Procs |-> Blank]
    /\ hpc = [p \in Procs |-> "none"]
    /\ hread = [p \in Procs |-> Blank]
    /\ sig = [p \in Procs |-> FALSE]
    /\ hooks = [p \in Procs |-> FALSE]
    /\ failed = [p \in Procs |-> FALSE]
    /\ skipped = [p \in Procs |-> FALSE]
    /\ cut = [p \in Procs |-> FALSE]

MainRuns(p) == hpc[p] = "none"

\* The part of connect that start() runs: it creates what is missing.
ConnectProcess(p) ==
    /\ MainRuns(p)
    /\ Connect(p, TRUE, "add", "start_failed")
    /\ UNCHANGED watchVars

Start(p) ==
    /\ pc[p] = "idle"
    /\ Goto(p, "open")
    /\ UNCHANGED << idx, names, semVal, segment, conn, history, watchVars >>

AddCurrentProcess(p) ==
    /\ MainRuns(p)
    /\ AddProcessUnavailable(p) \/ AddProcess(p) \/ RegisterProcess(p)
    /\ UNCHANGED watchVars

-----------------------------------------------------------------------------
(* _check_control_state, the same text in both frames.  The values are     *)
(* read one after the other, without the semaphore.                        *)

\* Mutant of Triggers: a new timestamp alone is not a restart.
TriggersOnState(p, read) == read.state # cur[p].state

\* "state_changed or (is_start and timestamp_changed)"
Triggers(p, read) ==
    \/ read.state # cur[p].state
    \/ read.state = "ON" /\ read.ts # cur[p].ts

\* _on_control_state_change may leave _enabled as on, and return as ok says.  A failing start leaves the
\* old hooks when the configuration does not load, and none when applying it fails.
CallbackMay(p, read, on, ok) ==
    \/ read.state = "OFF" /\ ~on /\ ok
    \/ read.state = "ON" /\ hooks[p] /\ read.ts = cur[p].ts /\ on /\ ok
    \/ /\ read.state = "ON"
       /\ ~hooks[p] \/ read.ts # cur[p].ts
       /\ ok => on
       /\ (on /\ ~ok) => hooks[p]

Callback(p, read) ==
    \E on, ok \in BOOLEAN :
        /\ CallbackMay(p, read, on, ok)
        /\ hooks' = [hooks EXCEPT ![p] = on]
        /\ failed' = [failed EXCEPT ![p] = ~ok]

\* start() checks once itself, without _signal_lock.  An invalid header is skipped.
MainReadState(p) ==
    /\ pc[p] = "check" /\ MainRuns(p)
    /\ IF hdr[seg[p]]
         THEN mread' = [mread EXCEPT ![p] = [Blank EXCEPT !.state = state[seg[p]]]] /\ Goto(p, "check_ts")
         ELSE Goto(p, "running") /\ UNCHANGED mread
    /\ UNCHANGED << idx, names, semVal, segment, conn, history, cur, hpc, hread, sig, hooks,
                    failed, skipped, cut >>

MainReadTs(p) ==
    LET read == [mread[p] EXCEPT !.ts = ts[seg[p]]]
    IN  /\ pc[p] = "check_ts" /\ MainRuns(p)
        /\ \/ Triggers(p, read) /\ mread' = [mread EXCEPT ![p] = read] /\ Goto(p, "decided")
           \/ ~Triggers(p, read) /\ mread' = [mread EXCEPT ![p] = Blank] /\ Goto(p, "running")
        /\ UNCHANGED << idx, names, semVal, segment, conn, history, cur, hpc, hread, sig, hooks,
                        failed, skipped, cut >>

MainEnterCallback(p) ==
    /\ pc[p] = "decided" /\ MainRuns(p)
    /\ Goto(p, "in_callback")
    /\ UNCHANGED << idx, names, semVal, segment, conn, history, watchVars >>

MainLeaveCallback(p) ==
    /\ pc[p] = "in_callback" /\ MainRuns(p)
    /\ Callback(p, mread[p])
    /\ Goto(p, "commit")
    /\ UNCHANGED << idx, names, semVal, segment, conn, history, cur, mread, hpc, hread, sig,
                    skipped, cut >>

\* Committed whether or not the callback raised.
MainCommit(p) ==
    /\ pc[p] = "commit" /\ MainRuns(p)
    /\ cur' = [cur EXCEPT ![p] = mread[p]]
    /\ mread' = [mread EXCEPT ![p] = Blank]
    /\ Goto(p, "running")
    /\ UNCHANGED << idx, names, semVal, segment, conn, history, hpc, hread, sig, hooks, failed,
                    skipped, cut >>

-----------------------------------------------------------------------------
(* _signal_handler.                                                        *)

\* _signal_lock is free: the handler takes it and reads the state, or finds no valid header.
HandlerStart(p) ==
    /\ sig[p] /\ Installed(p) /\ hpc[p] = "none"
    /\ sig' = [sig EXCEPT ![p] = FALSE]
    /\ skipped' = [skipped EXCEPT ![p] = FALSE]
    /\ cut' = [cut EXCEPT ![p] = @ \/ MidCheck(p)]
    /\ \/ /\ hdr[seg[p]]
          /\ hread' = [hread EXCEPT ![p] = [Blank EXCEPT !.state = state[seg[p]]]]
          /\ hpc' = [hpc EXCEPT ![p] = "ts"]
       \/ ~hdr[seg[p]] /\ UNCHANGED << hread, hpc >>
    /\ UNCHANGED << shmVars, cur, mread, hooks, failed >>

\* The handler is running already: "skipping".
HandlerSkip(p) ==
    /\ sig[p] /\ Installed(p) /\ hpc[p] # "none"
    /\ sig' = [sig EXCEPT ![p] = FALSE]
    /\ skipped' = [skipped EXCEPT ![p] = TRUE]
    /\ UNCHANGED << shmVars, cur, mread, hpc, hread, hooks, failed, cut >>

HandlerReadTs(p) ==
    LET read == [hread[p] EXCEPT !.ts = ts[seg[p]]]
    IN  /\ hpc[p] = "ts"
        /\ \/ /\ Triggers(p, read)
              /\ hread' = [hread EXCEPT ![p] = read]
              /\ hpc' = [hpc EXCEPT ![p] = "callback"]
           \/ /\ ~Triggers(p, read)
              /\ hread' = [hread EXCEPT ![p] = Blank]
              /\ hpc' = [hpc EXCEPT ![p] = "none"]
        /\ UNCHANGED << shmVars, cur, mread, sig, hooks, failed, skipped, cut >>

\* The callback and the commit after it: no other actor reads what they write.  The callback
\* takes SymbolHandlerManager._lock, which is not re-entrant.
HandlerCallback(p) ==
    /\ hpc[p] = "callback"
    /\ ~MainHoldsLock(p)
    /\ Callback(p, hread[p])
    /\ cur' = [cur EXCEPT ![p] = hread[p]]
    /\ hread' = [hread EXCEPT ![p] = Blank]
    /\ hpc' = [hpc EXCEPT ![p] = "none"]
    /\ cut' = [cut EXCEPT ![p] = @ /\ MidCheck(p)]
    /\ UNCHANGED << shmVars, mread, sig, skipped >>

-----------------------------------------------------------------------------
(* SymbolHandlerManager.shutdown(), then stop().                           *)

Shutdown(p) ==
    /\ pc[p] = "running" /\ MainRuns(p)
    /\ Goto(p, "stop_symbols")
    /\ UNCHANGED << idx, names, semVal, segment, conn, history, watchVars >>

StopSymbols(p) ==
    /\ pc[p] = "stop_symbols" /\ MainRuns(p)
    /\ hooks' = [hooks EXCEPT ![p] = FALSE]
    /\ Goto(p, "stop_watch")
    /\ UNCHANGED << idx, names, semVal, segment, conn, history, cur, mread, hpc, hread, sig,
                    failed, skipped, cut >>

\* The default handler is restored; the pid stays in the process list.
StopWatch(p) ==
    /\ pc[p] = "stop_watch" /\ MainRuns(p)
    /\ sig' = [sig EXCEPT ![p] = FALSE]
    /\ seg' = [seg EXCEPT ![p] = NoObject]
    /\ sem' = [sem EXCEPT ![p] = NoObject]
    /\ Goto(p, "stopped")
    /\ UNCHANGED << idx, names, semVal, segment, history, cur, mread, hpc, hread, hooks, failed, skipped, cut >>

MainStep(p) ==
    \/ ConnectProcess(p)
    \/ AddCurrentProcess(p)
    \/ MainReadState(p)
    \/ MainReadTs(p)
    \/ MainEnterCallback(p)
    \/ MainLeaveCallback(p)
    \/ MainCommit(p)
    \/ StopSymbols(p)
    \/ StopWatch(p)

HandlerStep(p) ==
    \/ HandlerStart(p)
    \/ HandlerSkip(p)
    \/ HandlerReadTs(p)
    \/ HandlerCallback(p)
=============================================================================
