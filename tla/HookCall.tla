------------------------------ MODULE HookCall ------------------------------
(***************************************************************************)
(* Calls of one hooked function (ms_service_profiler/patcher/core/         *)
(* module_hook.py): the wrapper that runs the hook around the original and *)
(* falls back to the original when the hook fails, with one                *)
(* TrackableOriginalFunc for all calls, and the entry of the metric hook   *)
(* chain (ms_service_metric hook_chain.py) when that package is installed. *)
(*                                                                         *)
(* Calls come from threads (a sync function) or tasks of one event loop    *)
(* (an async one).  With a chain the wrapper is the sync one; a coroutine  *)
(* it returns is awaited outside and not modelled.  The hook code calls    *)
(* the original once and lets its exceptions pass.  A caller_filter that   *)
(* does not match goes the way of a hook that was given up: left out.      *)
(***************************************************************************)
EXTENDS Integers, FiniteSets

CONSTANTS
    Call,         \* the calls
    MaxFailures   \* MAX_HOOK_FAILURES

ASSUME MaxFailuresAssumption == MaxFailures \in Nat \ {0}

\* What a call, or a part of it, comes to.  "None" is Python's None.
NoneValue == [kind |-> "none"]
Value(c) == [kind |-> "value", of |-> c]
Error(c) == [kind |-> "error", of |-> c]
HookError == [kind |-> "hook_error"]
TypeErr == [kind |-> "type_error"]   \* `await` of something that cannot be awaited
NoResult == [kind |-> "no_result"]
Raised(r) == r.kind \in {"error", "hook_error", "type_error"}

VARIABLES
    async,     \* the original is a coroutine function
    chained,   \* the hook is a node of the metric hook chain, whose entry is sync
    wraps,     \* there is a wrap_hook_func; else profiler_func is the original itself
    hooked,    \* the wrapper is in place
    does,      \* what the original does for each call: a value, None or an error
    pc,        \* where a call is
    via,       \* who called the original: "hook", "fallback" or "direct", through the
               \* tracker, or the chain without a node: "bare"
    out,       \* what it has in hand, and in the end what its caller gets
    executed, result, exception,   \* of TrackableOriginalFunc: cached_result, cached_exception
    last,      \* HookChain._last_result
    failures,  \* the wrapper's count
    runs, late, overlapped  \* history: executions of the original for a call, its hook
                            \* failed after the original, another call was under way

kindVars == << async, chained, wraps >>
trackVars == << executed, result, exception >>
callHistory == << runs, late, overlapped >>
callVars == << kindVars, hooked, does, pc, via, out, trackVars, last, failures, callHistory >>

CallInit ==
    /\ chained \in BOOLEAN /\ wraps \in BOOLEAN
    /\ async \in IF chained THEN {FALSE} ELSE BOOLEAN
    /\ hooked = TRUE
    /\ does \in [Call -> {"value", "none", "error"}]
    /\ pc = [c \in Call |-> "idle"]
    /\ via = [c \in Call |-> "direct"]
    /\ out = [c \in Call |-> NoResult]
    /\ executed = FALSE
    /\ result = NoneValue
    /\ exception = NoResult
    /\ last = NoResult
    /\ failures = 0
    /\ runs = [c \in Call |-> 0]
    /\ late = [c \in Call |-> FALSE]
    /\ overlapped = [c \in Call |-> FALSE]

Does(c) == CASE does[c] = "value" -> Value(c) [] does[c] = "none" -> NoneValue [] OTHER -> Error(c)
Active == { c \in Call : pc[c] \notin {"idle", "done"} }

Goto(c, to) == pc' = [pc EXCEPT ![c] = to]
Move(c, from, to) == pc[c] = from /\ Goto(c, to)
Hold(c, r) == out' = [out EXCEPT ![c] = r]
Via(c, who) == via' = [via EXCEPT ![c] = who]
Unmoved == UNCHANGED << kindVars, does >>
Runs(c) == runs' = [runs EXCEPT ![c] = @ + 1] /\ UNCHANGED << late, overlapped >>

-----------------------------------------------------------------------------
(* The entry: execute_hook_chain, or the attribute HookHelper replaced. *)

Start(c) ==
    /\ pc[c] = "idle"
    /\ Goto(c, IF chained \/ ~ hooked THEN "entry" ELSE "reset")
    /\ overlapped' = [d \in Call |-> overlapped[d] \/ (Active # {} /\ d \in Active \cup {c})]
    /\ UNCHANGED << hooked, via, out, trackVars, last, failures, runs, late >> /\ Unmoved

\* The chain forgets the last result and calls its only node, if it has one.
EnterChain(c) ==
    /\ chained
    /\ IF hooked THEN Move(c, "entry", "reset") /\ UNCHANGED via
                 ELSE Move(c, "entry", "bare") /\ Via(c, "bare")
    /\ last' = NoResult
    /\ UNCHANGED << hooked, out, trackVars, failures, callHistory >> /\ Unmoved

\* A chain without a node calls the original where it catches exceptions, and
\* does not keep what it returned or raised.
Bare(c) ==
    /\ Move(c, "bare", "leave")
    /\ Hold(c, Does(c)) /\ Runs(c)
    /\ UNCHANGED << hooked, via, trackVars, last, failures >> /\ Unmoved

\* The original is called directly: it has been restored, or the chain calls
\* it after an exception.
Original(c) ==
    /\ pc[c] = "original" \/ (pc[c] = "entry" /\ ~ chained)
    /\ Goto(c, "done")
    /\ Hold(c, Does(c)) /\ Runs(c)
    /\ UNCHANGED << hooked, via, trackVars, last, failures >> /\ Unmoved

-----------------------------------------------------------------------------
(* The wrapper. *)

\* call_with_reset.
Reset(c) ==
    /\ Move(c, "reset", "decide")
    /\ executed' = FALSE
    /\ result' = NoneValue
    /\ exception' = NoResult
    /\ UNCHANGED << hooked, via, out, last, failures, callHistory >> /\ Unmoved

\* Without a wrap hook nothing but the original is called, and not its tracker.
Decide(c) ==
    /\ IF failures >= MaxFailures THEN Move(c, "decide", "check") /\ Via(c, "direct")
       ELSE Move(c, "decide", IF wraps THEN "check" ELSE "run") /\ Via(c, "hook")
    /\ UNCHANGED << hooked, out, trackVars, last, failures, callHistory >> /\ Unmoved

\* The hook fails before it has called the original, or after.
FailBefore(c) ==
    /\ wraps /\ via[c] = "hook"
    /\ Move(c, "check", "except")
    /\ Hold(c, HookError)
    /\ UNCHANGED << hooked, via, trackVars, last, failures, callHistory >> /\ Unmoved
FailAfter(c) ==
    /\ wraps /\ via[c] = "hook" /\ ~ Raised(out[c])
    /\ Move(c, "got", "except")
    /\ Hold(c, HookError)
    /\ late' = [late EXCEPT ![c] = TRUE]
    /\ UNCHANGED << hooked, via, trackVars, last, failures, runs, overlapped >> /\ Unmoved

\* TrackableOriginalFunc.__call__: a cached exception is raised, a cached None
\* does not count as cached, and a cached value is returned, awaited or not.
Cached == executed /\ (exception # NoResult \/ result # NoneValue)
Answer == IF exception # NoResult THEN exception ELSE IF async THEN TypeErr ELSE result

\* Mutant of Check: the original is always run.
CheckNever(c) ==
    /\ Move(c, "check", "run")
    /\ UNCHANGED << hooked, via, out, trackVars, last, failures, callHistory >> /\ Unmoved

Check(c) ==
    /\ IF Cached THEN Move(c, "check", "got") /\ Hold(c, Answer)
                 ELSE Move(c, "check", "run") /\ UNCHANGED out
    /\ UNCHANGED << hooked, via, trackVars, last, failures, callHistory >> /\ Unmoved

\* The original runs (through node.ori_wrap and _call_ori_func, in a chain).
Run(c) ==
    /\ Move(c, "run", IF wraps \/ via[c] # "hook" THEN "store" ELSE "got")
    /\ Hold(c, Does(c)) /\ Runs(c)
    /\ last' = IF chained THEN Does(c) ELSE last
    /\ UNCHANGED << hooked, via, trackVars, failures >> /\ Unmoved

\* _execute_and_cache: an exception goes on as it is; a result is read back
\* from the tracker.
Store(c) ==
    /\ Move(c, "store", IF Raised(out[c]) \/ async THEN "got" ELSE "read")
    /\ executed' = TRUE
    /\ IF Raised(out[c]) THEN exception' = out[c] /\ UNCHANGED result
                         ELSE result' = out[c] /\ UNCHANGED exception
    /\ UNCHANGED << hooked, via, out, last, failures, callHistory >> /\ Unmoved
Read(c) ==
    /\ Move(c, "read", "got")
    /\ Hold(c, result)
    /\ UNCHANGED << hooked, via, trackVars, last, failures, callHistory >> /\ Unmoved

\* What the hook gets it returns or raises.
FromHook(c) ==
    /\ via[c] = "hook"
    /\ Move(c, "got", IF Raised(out[c]) THEN "except" ELSE "leave")
    /\ UNCHANGED << hooked, via, out, trackVars, last, failures, callHistory >> /\ Unmoved

\* The original's own exception is raised; any other counts as a failure.
OwnError(c) == executed /\ exception = out[c]

\* Mutant of Except: the hook's error is raised.
ExceptRaises(c) ==
    /\ Move(c, "except", "leave") /\ failures' = failures + 1
    /\ UNCHANGED << hooked, via, out, trackVars, last, callHistory >> /\ Unmoved

Except(c) ==
    /\ IF OwnError(c)
       THEN Move(c, "except", "leave") /\ UNCHANGED << via, failures >>
       ELSE Move(c, "except", "check") /\ Via(c, "fallback") /\ failures' = failures + 1
    /\ UNCHANGED << hooked, out, trackVars, last, callHistory >> /\ Unmoved

\* Mutant of GiveUp: the hook is removed one failure too late.
GiveUpLate == failures > MaxFailures

\* _handle_permanent_fallback: the original is restored, the node removed.
GiveUp == failures >= MaxFailures

FromFallback(c) ==
    /\ via[c] # "hook"
    /\ Move(c, "got", "leave")
    /\ hooked' = (hooked /\ ~ (via[c] = "fallback" /\ GiveUp))
    /\ UNCHANGED << via, out, trackVars, last, failures, callHistory >> /\ Unmoved

\* The chain answers an exception with the last result, or calls the original
\* if there is none.
Leave(c) ==
    /\ IF chained /\ Raised(out[c])
       THEN IF last = NoResult THEN Move(c, "leave", "original") /\ UNCHANGED out
            ELSE Move(c, "leave", "done") /\ Hold(c, last)
       ELSE Move(c, "leave", "done") /\ UNCHANGED out
    /\ UNCHANGED << hooked, via, trackVars, last, failures, callHistory >> /\ Unmoved

\* A task gives way to another only where the hook or the original can await.
CanWait(c) ==
    \/ pc[c] \in {"idle", "run", "done"}
    \/ via[c] = "hook" /\ pc[c] \in {"check", "got"}
Turn(c) == async => \A d \in Call \ {c} : CanWait(d)

CallNext == \E c \in Call : Turn(c) /\ (
    \/ Start(c) \/ EnterChain(c) \/ Bare(c) \/ Original(c)
    \/ Reset(c) \/ Decide(c) \/ FailBefore(c) \/ FailAfter(c)
    \/ Check(c) \/ Run(c) \/ Store(c) \/ Read(c)
    \/ FromHook(c) \/ Except(c) \/ FromFallback(c) \/ Leave(c))

CallSpec == CallInit /\ [][CallNext]_callVars
-----------------------------------------------------------------------------
(* Properties. *)
Done(c) == pc[c] = "done"
Alone(c) == Done(c) /\ ~ overlapped[c]

\* A call that overlaps no other has its original run exactly once, and once
\* more in three cases only: the hook failed after an original that returned
\* None, which the tracker takes for "not cached"; there is no wrap hook and
\* the original raised, which the wrapper takes for a failure of the hook; or
\* the hook has been given up and the original raised, which the chain takes
\* for an exception before it.
RunOnce ==
    \A c \in Call : Alone(c) =>
        \/ runs[c] = 1
        \/ runs[c] = 2 /\ wraps /\ late[c] /\ does[c] = "none"
        \/ runs[c] = 2 /\ ~ wraps /\ does[c] = "error"
        \/ runs[c] = 2 /\ via[c] = "bare" /\ does[c] = "error"

\* An exception of hook code reaches no caller, however calls overlap; and a
\* call that overlaps no other gives its caller what the original did, value
\* or exception, whatever the hook did; except that an async call whose hook
\* fails after the original gets a TypeError for the value.
OwnOutcome ==
    \A c \in Call :
        /\ Done(c) => out[c] # HookError
        /\ Alone(c) =>
            \/ out[c] = Does(c)
            \/ out[c] = TypeErr /\ async /\ late[c] /\ does[c] = "value"

\* Once the hook has failed MaxFailures times and those calls have been
\* answered, the original is back in its place.
Failing(c) == pc[c] # "done" /\ via[c] = "fallback"
GivenUp == failures >= MaxFailures /\ (\A c \in Call : ~ Failing(c)) => ~ hooked

\* "如果 hook 函数内部已调用原函数，异常处理时不会重复调用" (replace_func): the
\* original is never run again for a call whose hook failed after it.
NeverAgain == \A c \in Call : late[c] /\ ~ overlapped[c] => runs[c] = 1
=============================================================================
