------------------------------ MODULE Patcher ------------------------------
(***************************************************************************)
(* The life of the patcher's hooks (ms_service_profiler/patcher/core): the *)
(* HookController, called by one thread at a time (start and stop signals  *)
(* of the C++ library), the SymbolWatchFinder, which also runs on the      *)
(* threads that import modules, and the one MultiHandlerDynamicHooker of   *)
(* each symbol, which both of them reach without a lock.                   *)
(*                                                                         *)
(* A handler is a ConfigHooker (equal if symbol and function are), or a    *)
(* pattern, which stands for the one hooker it makes when its module is    *)
(* there; no symbol has both.  Profiling and metrics configurations are    *)
(* two sets of them.  Version ranges and the hook functions are left out.  *)
(***************************************************************************)
EXTENDS Integers, FiniteSets

CONSTANTS
    Module,    \* the modules with symbols to hook
    Concrete,  \* configured handlers of given symbols
    Pattern,   \* configured patterns
    SymbolOf,  \* the symbol of a handler
    ModuleOf,  \* the module of a symbol
    Configs,   \* the configurations a call may bring: sets of handlers
    MaxCalls   \* bound on the calls of the controller

Handler == Concrete \cup Pattern
Symbol == { SymbolOf[h] : h \in Handler }
Place(h) == ModuleOf[SymbolOf[h]]
In(m, hs) == { h \in hs : Place(h) = m }
Thread == Module \cup {"ctl"}   \* the controller's thread, and one that imports each module
None == "none"

ASSUME HandlersAssumption ==
    /\ Concrete \cap Pattern = {} /\ "ctl" \notin Module
    /\ SymbolOf \in [Handler -> DOMAIN ModuleOf] /\ ModuleOf \in [Symbol -> Module]
    /\ \A h \in Concrete, p \in Pattern : SymbolOf[h] # SymbolOf[p]
ASSUME ConfigsAssumption == Configs \subseteq SUBSET Handler /\ MaxCalls \in Nat

VARIABLES
    enabled,              \* HookController._enabled
    ctl,                  \* its thread: "idle", "load", "locked", "modules", "apply" or "end"
    new,                  \* the configurations of the call under way
    calls,                \* the number of calls
    profiling, metrics,   \* the loaded configurations
    auto,                 \* _auto_apply_enabled
    prepared, applied,    \* _prepared_hookers, _applied_hookers
    symbols,              \* _applied_hooks: the symbols prepared
    registered,           \* _symbol_to_hooker, and _pattern_to_concrete for patterns
    cache,                \* _module_matching_pattern_cache
    modules,              \* the controller's list of modules in sys.modules still to prepare
    mod, wrapped,         \* each module's import, and whether its loader is a LoaderWrapper
    todo,                 \* the handlers a thread has still to prepare or apply
    step, job,            \* where it is with one of them, and which
    forgotten,            \* the manager it is adding to has been deleted meanwhile
    members,              \* MultiHandlerDynamicHooker.handlers of all symbols
    nodes,                \* the hooks a symbol's manager has in place
    lost,                 \* hooks in place that no manager knows
    kept, stale, met, unseen  \* history, used by the properties

watcherVars == << profiling, metrics, auto, prepared, applied, symbols, registered, cache >>
ctlVars == << enabled, ctl, new, calls, modules >>
importVars == << mod, wrapped >>
threadVars == << todo, step, job, forgotten >>
hookVars == << members, nodes, lost >>
history == << kept, stale, met, unseen >>
vars == << watcherVars, ctlVars, importVars, threadVars, hookVars, history >>

Init ==
    /\ enabled = FALSE /\ ctl = "idle" /\ new = << {}, {} >> /\ calls = 0
    /\ profiling = {} /\ metrics = {} /\ auto = FALSE
    /\ prepared = {} /\ applied = {} /\ symbols = {} /\ registered = {}
    /\ cache = [m \in Module |-> {}]
    /\ modules = {}
    /\ mod \in [Module -> {"absent", "loaded"}]
    /\ wrapped = [m \in Module |-> FALSE]
    /\ todo = [t \in Thread |-> {}]
    /\ step = [t \in Thread |-> "next"]
    /\ job = [t \in Thread |-> None]
    /\ forgotten = [t \in Thread |-> FALSE]
    /\ members = {}
    /\ nodes = [s \in Symbol |-> 0]
    /\ lost = [s \in Symbol |-> 0]
    /\ kept = {} /\ stale = FALSE /\ met = FALSE /\ unseen = {}

Config == profiling \cup metrics
Importing(m) == mod[m] \in {"loading", "callback"}
\* importlib.import_module waits for the thread that is importing the module.
Importable(t, m) == t = m \/ ~ Importing(m)

-----------------------------------------------------------------------------
(* One hooker: _prepare_handlers_for_module and apply_all_hooks, with      *)
(* ConfigHooker.init and MultiHandlerDynamicHooker.add_handler.            *)

At(t, from, to) == step[t] = from /\ step' = [step EXCEPT ![t] = to]
Mine(t) == IF t = "ctl" THEN ctl \in {"modules", "apply"} ELSE mod[t] = "callback"
Applying(t) == t = "ctl" /\ ctl = "apply"
ByHooker == UNCHANGED << ctlVars, importVars, kept, stale, unseen >>
SetWatcher == UNCHANGED << profiling, metrics, auto, cache >>

\* Patterns come first; one that has its hooker already makes no other.
Prepare(t) == \E h \in todo[t] :
    /\ Mine(t)
    /\ Applying(t) \/ h \in Pattern \/ todo[t] \subseteq Concrete
    /\ todo' = [todo EXCEPT ![t] = @ \ {h}]
    /\ IF Applying(t)
       THEN At(t, "next", "add") /\ job' = [job EXCEPT ![t] = h]
            /\ UNCHANGED << prepared, symbols, registered >>
       ELSE IF h \in Pattern /\ h \in registered
       THEN At(t, "next", "next") /\ UNCHANGED << job, prepared, symbols, registered >>
       ELSE /\ At(t, "next", "auto") /\ job' = [job EXCEPT ![t] = h]
            /\ prepared' = prepared \cup {h}
            /\ symbols' = symbols \cup {SymbolOf[h]}
            /\ registered' = registered \cup {h}
    /\ UNCHANGED << applied, forgotten, hookVars, met >> /\ SetWatcher /\ ByHooker

\* `if self._auto_apply_enabled: handler.init()`.
ReadAuto(t) ==
    /\ At(t, "auto", IF auto THEN "add" ELSE "next")
    /\ UNCHANGED << prepared, applied, symbols, registered, todo, job, forgotten, hookVars, met >>
    /\ SetWatcher /\ ByHooker

\* Mutant of Add: the hooks in place stay.
AddKeeps(t) ==
    LET h == job[t]
    IN  /\ IF h \in members THEN At(t, "add", "note") /\ UNCHANGED members
                            ELSE At(t, "add", "hook") /\ members' = members \cup {h}
        /\ UNCHANGED << nodes, forgotten, prepared, applied, symbols, registered, todo, job, lost, met >>
        /\ SetWatcher /\ ByHooker

\* add_handler takes the symbol's hooks out and notes the handler...
Add(t) ==
    LET h == job[t]
        s == SymbolOf[h]
    IN  /\ IF h \in members
           THEN At(t, "add", "note") /\ UNCHANGED << members, nodes, forgotten >>
           ELSE /\ At(t, "add", "hook")
                /\ members' = members \cup {h}
                /\ nodes' = [nodes EXCEPT ![s] = 0]
                /\ forgotten' = [forgotten EXCEPT ![t] = FALSE]
        /\ met' = (met \/ \E u \in Thread \ {t} : step[u] = "hook" /\ SymbolOf[job[u]] = s)
        /\ UNCHANGED << prepared, applied, symbols, registered, todo, job, lost >>
        /\ SetWatcher /\ ByHooker

\* Mutant of Hook: under the watcher's lock.
HookLocked(t) ==
    LET s == SymbolOf[job[t]]
    IN  /\ ctl # "locked" /\ At(t, "hook", "note") /\ Importable(t, ModuleOf[s])
        /\ nodes' = [nodes EXCEPT ![s] = @ + 1]
        /\ UNCHANGED << lost, prepared, applied, symbols, registered, todo, job, forgotten, members, met >>
        /\ SetWatcher /\ ByHooker

\* ... then imports the function and hooks it, once for all handlers.
Hook(t) ==
    LET s == SymbolOf[job[t]]
    IN  /\ At(t, "hook", "note")
        /\ Importable(t, ModuleOf[s])
        /\ IF forgotten[t] THEN lost' = [lost EXCEPT ![s] = @ + 1] /\ UNCHANGED nodes
                           ELSE nodes' = [nodes EXCEPT ![s] = @ + 1] /\ UNCHANGED lost
        /\ UNCHANGED << prepared, applied, symbols, registered, todo, job, forgotten, members, met >>
        /\ SetWatcher /\ ByHooker

Locked == ctl = "locked"
Note(t) ==
    /\ ~ Locked
    /\ At(t, "note", "next")
    /\ applied' = applied \cup {job[t]}
    /\ kept' = kept \ ({job[t]} \cap Config)
    /\ UNCHANGED << prepared, symbols, registered, todo, job, forgotten, hookVars, met, stale, unseen >>
    /\ SetWatcher /\ UNCHANGED << ctlVars, importVars >>

HookerStep(t) == Prepare(t) \/ ReadAuto(t) \/ Add(t) \/ Hook(t) \/ Note(t)

-----------------------------------------------------------------------------
(* Importing a module. *)

Importer == UNCHANGED << ctlVars, profiling, metrics, auto, prepared, applied, symbols, registered,
                         step, job, forgotten, hookVars, kept, stale, met, unseen >>

\* find_spec: _is_target_symbol, under the configuration of that moment.
FindSpec(m) ==
    /\ mod[m] = "absent"
    /\ mod' = [mod EXCEPT ![m] = "found"]
    /\ wrapped' = [wrapped EXCEPT ![m] = In(m, Config) # {}]
    /\ cache' = [cache EXCEPT ![m] = In(m, Config \cap Pattern)]
    /\ UNCHANGED todo /\ Importer

EnterModules(m) ==
    /\ mod[m] = "found"
    /\ mod' = [mod EXCEPT ![m] = "loading"]
    /\ UNCHANGED << wrapped, cache, todo >> /\ Importer

\* The module's body has run: LoaderWrapper calls on_symbol_module_loaded,
\* which reads the configurations of this moment and the cached patterns.
Loaded(m) ==
    /\ mod[m] = "loading"
    /\ mod' = [mod EXCEPT ![m] = IF wrapped[m] THEN "callback" ELSE "loaded"]
    /\ todo' = [todo EXCEPT ![m] = IF wrapped[m] THEN In(m, Config \cap Concrete) \cup cache[m] ELSE {}]
    /\ cache' = [cache EXCEPT ![m] = IF wrapped[m] THEN {} ELSE @]
    /\ UNCHANGED wrapped /\ Importer

CallbackDone(m) ==
    /\ mod[m] = "callback" /\ todo[m] = {} /\ step[m] = "next"
    /\ mod' = [mod EXCEPT ![m] = "loaded"]
    /\ UNCHANGED << wrapped, cache, todo >> /\ Importer

ImportStep(m) == EnterModules(m) \/ Loaded(m) \/ CallbackDone(m)

-----------------------------------------------------------------------------
(* The controller. *)

CtlAt(from, to) == ctl = from /\ ctl' = to
ByCtl == UNCHANGED << importVars, job, forgotten >>

\* A call with configurations: enable(P, M) and update_metrics_handlers(M).
Reconfigure(P, M) ==
    /\ calls < MaxCalls
    /\ CtlAt("idle", "load")
    /\ calls' = calls + 1
    /\ new' = << P, M >>
    /\ UNCHANGED << enabled, modules, watcherVars, todo, step, hookVars, history >> /\ ByCtl

\* No metrics given: those loaded stay while the hooks are enabled.
Enable(P) ==
    LET M == IF enabled THEN metrics ELSE {}
    IN  P \cup M # {} /\ Reconfigure(P, M)
UpdateMetrics(M) == Reconfigure(IF enabled THEN profiling ELSE {}, M)

\* disable(): the hookers have no `hooks`, so no hook is taken out.
Disable ==
    /\ calls < MaxCalls /\ enabled /\ CtlAt("idle", "idle")
    /\ calls' = calls + 1
    /\ auto' = FALSE
    /\ enabled' = FALSE
    /\ UNCHANGED << new, modules, profiling, metrics, prepared, applied, symbols, registered, cache,
                    todo, step, hookVars, history >> /\ ByCtl

\* load_handlers takes the lock if a symbol or a concrete handler goes.
NewConfig == new[1] \cup new[2]
SymbolsGone == symbols \ { SymbolOf[h] : h \in NewConfig \cap Concrete }
ConcreteGone == (Config \ NewConfig) \cap Concrete
PatternsGone == (registered \cap Pattern) \ NewConfig
Removes == SymbolsGone \cup ConcreteGone # {}

Load ==
    /\ CtlAt("load", "locked")
    /\ UNCHANGED << enabled, new, calls, modules, watcherVars, todo, step, hookVars, history >> /\ ByCtl

\* Mutant of Gone: patterns stay.
GoneConcrete == IF Removes THEN ConcreteGone ELSE {}

\* What is forgotten: patterns too, but only if something else goes.
Gone == IF Removes THEN ConcreteGone \cup PatternsGone ELSE {}

\* What is taken out as well: only while the hooks are enabled.
Recovered == IF enabled THEN Gone \cap (Concrete \cup applied) \cap members ELSE {}

\* recover_handler hooks a symbol again for the handlers it has left, which
\* imports its module, under the lock; a manager without handlers is deleted.
Remaining(s) == { h \in members \ Recovered : SymbolOf[h] = s }
Touched == { SymbolOf[h] : h \in Recovered }
Replace ==
    /\ CtlAt("locked", "modules")
    /\ \A s \in Touched : Remaining(s) # {} => Importable("ctl", ModuleOf[s])
    /\ members' = members \ Recovered
    /\ nodes' = [s \in Symbol |-> IF s \in Touched THEN (IF Remaining(s) = {} THEN 0 ELSE 1) ELSE nodes[s]]
    /\ forgotten' = [t \in Thread |-> forgotten[t] \/
            (step[t] = "hook" /\ SymbolOf[job[t]] \in Touched /\ Remaining(SymbolOf[job[t]]) = {})]
    /\ prepared' = prepared \ Gone
    /\ applied' = applied \ Gone
    /\ registered' = registered \ Gone
    /\ symbols' = (symbols \ SymbolsGone) \
            { s \in Symbol : (\E h \in Gone : SymbolOf[h] = s) /\ \A h \in registered \ Gone : SymbolOf[h] # s }
    /\ profiling' = new[1] /\ metrics' = new[2]
    /\ cache' = [m \in Module |-> {}]
    /\ modules' = Module
    /\ kept' = kept \cup ((IF ~ enabled THEN members ELSE IF Removes THEN {} ELSE members \cap Pattern) \ NewConfig)
    /\ stale' = (stale \/ \E m \in Module : mod[m] = "callback")
    /\ UNCHANGED << enabled, new, calls, auto, lost, met, unseen, importVars, todo, step, job >>

\* check_and_apply_existing_modules: a module with concrete symbols is taken
\* without looking for the patterns it matches.  One that is still executing is
\* searched as well, which finds the classes it has by then, and its patterns
\* are no longer cached for the import.
LookAt(m) ==
    LET concrete == In(m, Config \cap Concrete)
        there == mod[m] \notin {"absent", "found"}
        patterns == IF concrete = {} THEN In(m, Config \cap Pattern) ELSE cache[m]
    IN \E missing \in SUBSET patterns :
        /\ ctl = "modules" /\ m \in modules /\ todo["ctl"] = {} /\ step["ctl"] = "next"
        /\ mod[m] # "loading" => missing = {}
        /\ modules' = modules \ {m}
        /\ todo' = [todo EXCEPT !["ctl"] = IF there THEN concrete \cup (patterns \ missing) ELSE {}]
        /\ cache' = IF there THEN [cache EXCEPT ![m] = {}] ELSE cache
        /\ unseen' = (unseen \ In(m, Handler)) \cup missing \cup
                (IF mod[m] # "found" THEN {}
                 ELSE In(m, Config) \ (IF wrapped[m] THEN Concrete \cup cache[m] ELSE {}))
        /\ UNCHANGED << enabled, ctl, new, calls, profiling, metrics, auto, prepared, applied, symbols,
                        registered, step, hookVars, kept, stale, met >> /\ ByCtl

\* Mutant of ApplyAll: auto_apply is set when the hooks have been applied.
ApplyAllFirst ==
    /\ CtlAt("modules", "apply") /\ modules = {} /\ todo["ctl"] = {} /\ step["ctl"] = "next"
    /\ todo' = [todo EXCEPT !["ctl"] = prepared]
    /\ UNCHANGED << enabled, new, calls, modules, watcherVars, step, hookVars, history >> /\ ByCtl

\* apply_all_hooks: auto_apply first, then the list of what is prepared.
ApplyAll ==
    /\ CtlAt("modules", "apply") /\ modules = {} /\ todo["ctl"] = {} /\ step["ctl"] = "next"
    /\ auto' = TRUE
    /\ todo' = [todo EXCEPT !["ctl"] = prepared]
    /\ UNCHANGED << enabled, new, calls, modules, profiling, metrics, prepared, applied, symbols,
                    registered, cache, step, hookVars, history >> /\ ByCtl

\* Mutant of Applied: the loop ends early.
AppliedSoon ==
    /\ CtlAt("apply", "idle") /\ step["ctl"] = "next"
    /\ auto' = TRUE /\ enabled' = TRUE
    /\ UNCHANGED << new, calls, modules, profiling, metrics, prepared, applied, symbols, registered, cache,
                    todo, step, hookVars, history >> /\ ByCtl

Applied ==
    /\ CtlAt("apply", "idle") /\ todo["ctl"] = {} /\ step["ctl"] = "next"
    /\ auto' = TRUE
    /\ enabled' = TRUE
    /\ UNCHANGED << new, calls, modules, profiling, metrics, prepared, applied, symbols, registered, cache,
                    todo, step, hookVars, history >> /\ ByCtl

CtlStep == Load \/ Replace \/ (\E m \in Module : LookAt(m)) \/ ApplyAll \/ Applied

Next ==
    \/ \E C \in Configs : Enable(C) \/ UpdateMetrics(C)
    \/ Disable \/ CtlStep
    \/ \E m \in Module : FindSpec(m) \/ ImportStep(m)
    \/ \E t \in Thread : HookerStep(t)

Spec == Init /\ [][Next]_vars

\* Threads run; nobody has to call the controller or to import a module.
FairSpec ==
    /\ Spec
    /\ WF_vars(CtlStep \/ HookerStep("ctl"))
    /\ \A m \in Module : WF_vars(ImportStep(m) \/ HookerStep(m))
-----------------------------------------------------------------------------
(* Properties. *)
AtRest == ctl = "idle" /\ \A m \in Module : mod[m] \in {"absent", "found", "loaded"}

TypeOK ==
    /\ ctl \in {"idle", "load", "locked", "modules", "apply"}
    /\ Config \subseteq Handler /\ prepared \cup applied \cup registered \cup members \subseteq Handler
    /\ mod \in [Module -> {"absent", "found", "loading", "callback", "loaded"}]
    /\ step \in [Thread -> {"next", "auto", "add", "hook", "note"}]
    /\ \A t \in Thread : todo[t] # {} \/ step[t] # "next" => Mine(t)
    /\ \A s \in Symbol : nodes[s] \in 0 .. Cardinality(Thread) /\ lost[s] \in 0 .. Cardinality(Thread)

\* While the hooks are enabled and no thread is at work, every configured
\* handler of a loaded module has been added and its function is hooked.  The
\* gaps: those of a module that was on its way when the controller last looked
\* for loaded modules (unseen): not in sys.modules yet, and found by the import
\* before they were configured, or executing, and without the class that a
\* pattern names; and a pattern in a module that has a concrete symbol too.
NoneMissed ==
    AtRest /\ enabled =>
        \A h \in Config : mod[Place(h)] = "loaded" =>
            \/ h \in members /\ nodes[SymbolOf[h]] > 0
            \/ h \in unseen
            \/ h \in Pattern /\ In(Place(h), Config \cap Concrete) # {}

\* Handlers no longer configured have been taken out, except those an import
\* added from the configuration before (stale), and those dropped while the
\* hooks were disabled, or patterns dropped when nothing else was (kept).  A
\* handler is kept until it is applied again: a pattern that comes back beside
\* a concrete symbol of its module is not, and stays when it is dropped again.
NoneLeft == AtRest /\ enabled /\ ~ stale => members \subseteq Config \cup kept

\* No function is hooked twice, and no hook is lost, unless two threads were
\* adding handlers of its symbol at the same time (met) or an import went on
\* with a configuration that had been replaced (stale).
HookedOnce == \A s \in Symbol : nodes[s] + lost[s] > 1 \/ lost[s] > 0 => met \/ stale

\* A call of the controller returns, unless it holds the watcher's lock and
\* waits for a module whose importer waits for that lock.
Embrace == Locked /\ \E m \in Module : mod[m] = "callback" /\ step[m] = "note"
CallsReturn == ctl = "load" ~> (ctl = "idle" \/ Embrace)

\* "禁用所有 hooks（将函数恢复为原函数）" (disable): afterwards nothing is hooked.
DisableRestores == AtRest /\ ~ enabled => \A s \in Symbol : nodes[s] = 0
=============================================================================
