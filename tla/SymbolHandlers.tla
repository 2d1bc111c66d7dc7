--------------------------- MODULE SymbolHandlers ---------------------------
(***************************************************************************)
(* How the metric hooks of a service process follow its commands           *)
(* (ms_service_metric/core): the SymbolHandlerManager, whose operations    *)
(* run one at a time under its lock, the Symbols it makes and drops, the   *)
(* SymbolWatcher, and the threads that import modules, which call a        *)
(* Symbol's _on_module_loaded without that lock.                           *)
(*                                                                         *)
(* A command is the SIGUSR1 handler's: it runs on the main thread, and     *)
(* what it has interrupted goes on when it returns.  If that is an import, *)
(* the command may find the watcher's own lock held by the frame below.    *)
(*                                                                         *)
(* A handler here is one configured form of a handler: two forms of it     *)
(* have the same id.  A hook in place is the node its symbol put in the    *)
(* chain of its target, with the handlers it calls; what a call through    *)
(* the chain does is not part of this module.                              *)
(***************************************************************************)
EXTENDS Integers, FiniteSets

CONSTANTS
    Module, Symbol, Handler, \* modules, symbol paths, and forms of handlers
    Id, SymbolOf, ModuleOf,  \* the id and the symbol of a handler, the module of a symbol
    Locked,                  \* handlers with lock_patch
    Broken,                  \* handlers whose hook function cannot be built
    Configs,                 \* what a reload may bring: sets of handlers
    Object,                  \* instances of the class Symbol, reused when nothing holds them
    MaxCommands              \* bound on the commands

Thread == Module \cup {"manager"}
NoNode == {"none"}
None == "none"
Ids(hs) == { Id[h] : h \in hs }

ASSUME HandlersAssumption ==
    /\ SymbolOf \in [Handler -> Symbol] /\ ModuleOf \in [Symbol -> Module] /\ Symbol # {}
    /\ DOMAIN Id = Handler
    /\ \A g, h \in Handler : Id[g] = Id[h] => SymbolOf[g] = SymbolOf[h]
    /\ "none" \notin Handler /\ "manager" \notin Module
ASSUME ConfigsAssumption ==
    /\ \A c \in Configs : c \subseteq Handler /\ \A g, h \in c : Id[g] = Id[h] => g = h
    /\ Object \subseteq Nat /\ MaxCommands \in Nat

VARIABLES
    enabled, updating,  \* SymbolHandlerManager._enabled, _updating
    pc, resume,         \* the operation under way, and what follows its teardown
    closing, late,      \* shutdown has left the lock, and a reload has ended since (history)
    target,             \* the handlers of the configuration in force
    todo,               \* the symbols the operation has still to visit
    commands,           \* the number of commands
    live, registered,   \* _symbols and _handlers
    symbol,             \* the fields of each Symbol
    watched,            \* symbols whose callback is registered with the watcher
    strays,             \* per path: hooks in place that no Symbol remembers
    main, lock,         \* the module the main thread imports; who holds SymbolWatcher._lock
    mod, wrapped,       \* the import of a module, and whether its loader is a LoaderWrapper
    callbacks,          \* the importer's copy of the callbacks, less those it made
    step, job, got, fresh, \* a thread in a Symbol: where, which, and what it has read
    met, stale, unseen  \* history, used by the properties

shutdownVars == << closing, late >>
managerVars == << enabled, updating, pc, resume, shutdownVars, target, todo, commands >>
registryVars == << live, registered >>
importVars == << main, lock, mod, wrapped, callbacks >>
threadVars == << step, job, got, fresh >>
vars == << managerVars, registryVars, symbol, watched, strays, importVars, threadVars,
           met, stale, unseen >>

NewSymbol(p) ==
    [path |-> p, handlers |-> {}, applied |-> FALSE, changed |-> FALSE,
     chain |-> FALSE, node |-> NoNode, loaded |-> FALSE, half |-> FALSE]

Init ==
    /\ enabled = FALSE /\ updating = FALSE
    /\ pc = "idle" /\ resume = "idle" /\ closing = FALSE /\ late = FALSE
    /\ main = None /\ lock = None
    /\ target = {} /\ todo = {} /\ commands = 0
    /\ live = {} /\ registered = {} /\ watched = {}
    /\ symbol = [o \in Object |-> NewSymbol(CHOOSE p \in Symbol : TRUE)]
    /\ strays = [p \in Symbol |-> 0]
    /\ mod \in [Module -> {"absent", "loaded"}]
    /\ wrapped = [m \in Module |-> FALSE]
    /\ callbacks = [m \in Module |-> {}]
    /\ step = [t \in Thread |-> "none"] /\ job = [t \in Thread |-> 0]
    /\ got = [t \in Thread |-> {}] /\ fresh = [t \in Thread |-> FALSE]
    /\ met = {} /\ stale = {} /\ unseen = {}

Place(o) == ModuleOf[symbol[o].path]
Free == Object \ (live \cup watched \cup (UNION { callbacks[m] : m \in Module })
                       \cup { job[t] : t \in Thread })

\* Another thread is between reading this symbol and hooking it.
Hooking(t, o) == \E u \in Thread \ {t} : step[u] = "install" /\ job[u] = o
Meets(t, o) == met' = IF Hooking(t, o) THEN met \cup {symbol[o].path} ELSE met

-----------------------------------------------------------------------------
(* Symbol._apply_hook, on any thread: read the handlers and whether there   *)
(* is a chain, then build the function and put it in place.                 *)

Enter(t, o, s) == step' = [step EXCEPT ![t] = s] /\ job' = [job EXCEPT ![t] = o]
Leave(t) == Enter(t, 0, "none")
InSymbol == UNCHANGED << managerVars, registryVars, watched, importVars, unseen >>

Gather(t) ==
    LET o == job[t]
    IN  /\ step[t] = "gather"
        /\ IF symbol[o].handlers = {} THEN Leave(t) ELSE Enter(t, o, "install")
        /\ got' = [got EXCEPT ![t] = symbol[o].handlers]
        /\ fresh' = [fresh EXCEPT ![t] = ~ symbol[o].chain]
        /\ Meets(t, o)
        /\ UNCHANGED << symbol, strays, stale >> /\ InSymbol

\* A symbol whose node was removed has a chain and no node: AttributeError.
Install(t) ==
    LET o == job[t]
        x == symbol[o]
        usable == fresh[t] \/ x.node # NoNode
        builds == usable /\ got[t] \cap Broken = {}
    IN  /\ step[t] = "install" /\ Leave(t)
        /\ symbol' = [symbol EXCEPT ![o] = [x EXCEPT
               !.chain = TRUE,
               !.applied = builds,
               !.changed = @ /\ ~ builds,
               !.node = IF builds THEN got[t] ELSE IF fresh[t] THEN {} ELSE @]]
        /\ strays' = [strays EXCEPT ![x.path] = @ + IF fresh[t] /\ x.node # NoNode THEN 1 ELSE 0]
        /\ stale' = IF ~ builds /\ x.node \notin {NoNode, {}} THEN stale \cup {x.path} ELSE stale
        /\ got' = [got EXCEPT ![t] = {}] /\ fresh' = [fresh EXCEPT ![t] = FALSE]
        /\ Meets(t, o) /\ InSymbol

\* Symbol.unhook: nothing, unless the hook counts as applied.
Unhooked(x) == IF x.applied THEN [x EXCEPT !.node = NoNode, !.applied = FALSE] ELSE x

-----------------------------------------------------------------------------
(* Imports: LoaderWrapper.exec_module, _notify_module_loaded and            *)
(* Symbol._on_module_loaded on the importing thread.                        *)

ByImporter == UNCHANGED << managerVars, registryVars, watched, strays, got, fresh, met, stale >>
NoCallback == UNCHANGED << symbol, step, job, unseen >> /\ ByImporter

Resting == pc \in {"idle", "down"}
Awake(t) == t = main => Resting
MainFree == main = None /\ (pc = "idle" => ~ closing) /\ Resting
EndOnMain(m) == main' = IF main = m THEN None ELSE main

\* find_spec asks, under the watcher's lock, for callbacks for all modules.
\* After shutdown the finder is gone.
Find(m) ==
    /\ mod[m] = "absent" /\ main' \in {main} \cup (IF MainFree THEN {m} ELSE {})
    /\ IF pc = "down" THEN mod' = [mod EXCEPT ![m] = "found"] /\ UNCHANGED lock
       ELSE lock = None /\ lock' = m /\ mod' = [mod EXCEPT ![m] = "asking"]
    /\ UNCHANGED << wrapped, callbacks >> /\ NoCallback

\* It wraps the loader of a module that is watched by now.
Wrap(m) ==
    /\ mod[m] = "asking" /\ mod' = [mod EXCEPT ![m] = "found"] /\ lock' = None
    /\ wrapped' = [wrapped EXCEPT ![m] = \E o \in watched : Place(o) = m]
    /\ UNCHANGED << main, callbacks >> /\ NoCallback

\* The module is in sys.modules from here on.
Load(m) ==
    /\ mod[m] = "found" /\ mod' = [mod EXCEPT ![m] = "loading"]
    /\ UNCHANGED << main, lock, wrapped, callbacks >> /\ NoCallback

Executed(m) ==
    /\ mod[m] = "loading"
    /\ IF wrapped[m] THEN /\ lock = None /\ lock' = m /\ UNCHANGED main
                          /\ mod' = [mod EXCEPT ![m] = "copying"]
       ELSE mod' = [mod EXCEPT ![m] = "loaded"] /\ EndOnMain(m) /\ UNCHANGED lock
    /\ UNCHANGED << wrapped, callbacks >> /\ NoCallback

\* _notify_module_loaded copies the callbacks under the watcher's lock.
Notify(m) ==
    /\ mod[m] = "copying" /\ mod' = [mod EXCEPT ![m] = "notify"] /\ lock' = None
    /\ callbacks' = [callbacks EXCEPT ![m] = { o \in watched : Place(o) = m }]
    /\ UNCHANGED << main, wrapped >> /\ NoCallback

OnModuleLoaded(m) == \E o \in callbacks[m] :
    /\ step[m] = "none" /\ Enter(m, o, "ask")
    /\ callbacks' = [callbacks EXCEPT ![m] = @ \ {o}]
    /\ symbol' = [symbol EXCEPT ![o].loaded = TRUE, ![o].half = FALSE]
    /\ UNCHANGED << main, lock, mod, wrapped, unseen >> /\ ByImporter

\* Mutant of Ask: wait for the update to end.
AskWaits(m) ==
    /\ step[m] = "ask" /\ ~ updating /\ Enter(m, job[m], "gather")
    /\ UNCHANGED << symbol, importVars, unseen >> /\ ByImporter

\* is_updating(): if so, only _pending_hook is set, which nothing reads.
Ask(m) ==
    LET o == job[m]
    IN  /\ step[m] = "ask"
        /\ IF updating THEN Leave(m) ELSE Enter(m, o, "gather")
        /\ unseen' = IF updating /\ ~ symbol[o].applied THEN unseen \cup {o} ELSE unseen
        /\ UNCHANGED << symbol, importVars >> /\ ByImporter

Imported(m) ==
    /\ mod[m] = "notify" /\ callbacks[m] = {} /\ step[m] = "none"
    /\ mod' = [mod EXCEPT ![m] = "loaded"] /\ EndOnMain(m)
    /\ UNCHANGED << lock, wrapped, callbacks >> /\ NoCallback

-----------------------------------------------------------------------------
(* The manager, under its lock: _on_control_state_change and shutdown.  A   *)
(* command to start with the timestamp of the last one changes nothing.     *)

Goes(from, to) == pc = from /\ step["manager"] = "none" /\ pc' = to
ByManager == UNCHANGED << strays, importVars, got, fresh >>
NoVisit == UNCHANGED << registryVars, symbol, watched, step, job, met, stale, unseen >>

Off ==
    /\ Goes("idle", "stop") /\ enabled /\ commands < MaxCommands
    /\ todo' = live /\ target' = {} /\ commands' = commands + 1
    /\ UNCHANGED << enabled, updating, resume, shutdownVars >> /\ NoVisit /\ ByManager

On ==
    /\ Goes("idle", "load") /\ commands < MaxCommands
    /\ updating' = TRUE /\ commands' = commands + 1
    /\ UNCHANGED << enabled, resume, shutdownVars, target, todo >> /\ NoVisit /\ ByManager

\* reload() or _build_target_handlers() raises.
LoadFails ==
    /\ Goes("load", "idle") /\ updating' = FALSE
    /\ UNCHANGED << enabled, resume, shutdownVars, target, todo, commands >> /\ NoVisit /\ ByManager

\* A restart stops the symbols first.
Loaded == \E c \in Configs :
    /\ Goes("load", IF enabled THEN "stop" ELSE "add")
    /\ target' = c /\ enabled' = FALSE
    /\ resume' = (IF enabled THEN "add" ELSE "idle") /\ todo' = IF enabled THEN live ELSE {}
    /\ late' = closing
    /\ UNCHANGED << updating, closing, commands >> /\ NoVisit /\ ByManager

Visit(o) == o \in todo /\ todo' = todo \ {o} /\ Meets("manager", o)

\* Mutant of StopUnlocked: all the handlers of a symbol with a locked one stay in its hook.
StopUnlockedKeeps(o) ==
    LET kept == symbol[o].handlers \cap Locked
    IN  /\ Goes("stop", "stop") /\ Visit(o) /\ (kept = {} => lock = None)
        /\ symbol' = [symbol EXCEPT ![o] =
               IF kept = {} THEN Unhooked([@ EXCEPT !.handlers = {}]) ELSE [@ EXCEPT !.handlers = kept]]
        /\ watched' = IF kept = {} THEN watched \ {o} ELSE watched
        /\ live' = IF kept = {} THEN live \ {o} ELSE live
        /\ registered' = registered \ (symbol[o].handlers \ Locked)
        /\ UNCHANGED << enabled, updating, resume, shutdownVars, target, commands, step, job, stale, unseen >>
        /\ ByManager

\* _stop_all_symbols_graceful, with Symbol.stop_unlocked: keep the locked handlers.
StopUnlocked(o) ==
    LET kept == symbol[o].handlers \cap Locked
        left == [symbol[o] EXCEPT !.handlers = kept]
        rehook == symbol[o].handlers # kept /\ kept # {} /\ symbol[o].applied
    IN  /\ Goes("stop", "stop") /\ Visit(o) /\ (kept = {} => lock = None)
        /\ symbol' = [symbol EXCEPT ![o] = IF kept = {} THEN Unhooked(left) ELSE left]
        /\ watched' = IF kept = {} THEN watched \ {o} ELSE watched
        /\ live' = IF kept = {} THEN live \ {o} ELSE live
        /\ registered' = registered \ (symbol[o].handlers \ Locked)
        /\ IF rehook THEN Enter("manager", o, "gather") ELSE UNCHANGED << step, job >>
        /\ UNCHANGED << enabled, updating, resume, shutdownVars, target, commands, stale, unseen >> /\ ByManager

Stopped ==
    /\ Goes("stop", resume) /\ todo = {}
    /\ enabled' = FALSE /\ resume' = "idle"
    /\ UNCHANGED << updating, shutdownVars, target, todo, commands >> /\ NoVisit /\ ByManager

(* _reconcile_handlers: first what is new, then what is gone, then what     *)
(* changed.                                                                 *)

ToAdd == { h \in target : Id[h] \notin Ids(registered) }
ToRemove == { h \in registered : Id[h] \notin Ids(target) }
ToUpdate == { h \in target : h \notin registered }
SymbolAt(p) == { o \in live : symbol[o].path = p }
Reconciling == UNCHANGED << enabled, updating, resume, shutdownVars, target, todo, commands, stale >> /\ ByManager

\* Symbol.__init__ watches its module, under the watcher's lock; if that is
\* in sys.modules, the callback runs here and imports it.
Create(h) ==
    LET o == CHOOSE x \in Free : \A y \in Free : x <= y
        p == SymbolOf[h]
    IN  /\ Goes("add", "add") /\ h \in ToAdd /\ SymbolAt(p) = {} /\ Free # {} /\ lock = None
        /\ live' = live \cup {o} /\ watched' = watched \cup {o}
        /\ symbol' = [symbol EXCEPT ![o] = NewSymbol(p)]
        /\ strays' = [strays EXCEPT ![symbol[o].path] =
               @ + IF symbol[o].node \notin {NoNode, {}} THEN 1 ELSE 0]
        /\ IF mod[ModuleOf[p]] \in {"absent", "asking", "found"}
           THEN UNCHANGED << step, job >> ELSE Enter("manager", o, "import")
        /\ unseen' = IF mod[ModuleOf[p]] = "found" /\ ~ wrapped[ModuleOf[p]]
                     THEN unseen \cup {o} ELSE unseen \ {o}
        /\ UNCHANGED << enabled, updating, resume, shutdownVars, target, todo, commands, registered,
                        importVars, got, fresh, met, stale >>

\* What a module that is still executing may lack, when the main thread
\* imports it: for others the import waits.
Finds(o) == IF mod[Place(o)] = "loading" THEN BOOLEAN ELSE {TRUE}

ImportTarget ==
    LET o == job["manager"]
    IN  /\ step["manager"] = "import" /\ (mod[Place(o)] = "loaded" \/ main = Place(o))
        /\ Leave("manager") /\ \E found \in Finds(o) :
           /\ symbol' = [symbol EXCEPT ![o].loaded = @ \/ found, ![o].half = ~ found]
           /\ unseen' = IF found \/ wrapped[Place(o)] THEN unseen ELSE unseen \cup {o}
        /\ UNCHANGED << pc, registryVars, watched, met >> /\ Reconciling

AddHandler(h) == \E o \in SymbolAt(SymbolOf[h]) :
    /\ Goes("add", "add") /\ h \in ToAdd
    /\ symbol' = [symbol EXCEPT ![o].handlers = @ \cup {h}, ![o].changed = TRUE]
    /\ registered' = registered \cup {h}
    /\ Meets("manager", o)
    /\ UNCHANGED << live, watched, step, job, unseen >> /\ Reconciling

RemoveHandler(h) == \E o \in SymbolAt(SymbolOf[h]) :
    LET left == [symbol[o] EXCEPT !.handlers = @ \ {h}, !.changed = TRUE]
        empty == left.handlers = {}
    IN  /\ Goes("add", "add") /\ ToAdd = {} /\ h \in ToRemove /\ (empty => lock = None)
        /\ symbol' = [symbol EXCEPT ![o] = IF empty THEN Unhooked(left) ELSE left]
        /\ live' = IF empty THEN live \ {o} ELSE live
        /\ watched' = IF empty THEN watched \ {o} ELSE watched
        /\ registered' = registered \ {h}
        /\ Meets("manager", o)
        /\ UNCHANGED << step, job, unseen >> /\ Reconciling

\* Mutant of UpdateHandler: the hook in place is not marked as changed.
UpdateHandlerQuietly(h) == \E o \in SymbolAt(SymbolOf[h]) :
    LET same == { g \in registered : Id[g] = Id[h] }
    IN  /\ Goes("add", "add") /\ ToAdd = {} /\ ToRemove = {} /\ h \in ToUpdate
        /\ symbol' = [symbol EXCEPT ![o].handlers = (@ \ same) \cup {h}]
        /\ registered' = (registered \ same) \cup {h}
        /\ Meets("manager", o)
        /\ UNCHANGED << live, watched, step, job, unseen >> /\ Reconciling

UpdateHandler(h) == \E o \in SymbolAt(SymbolOf[h]) :
    LET same == { g \in registered : Id[g] = Id[h] }
    IN  /\ Goes("add", "add") /\ ToAdd = {} /\ ToRemove = {} /\ h \in ToUpdate
        /\ symbol' = [symbol EXCEPT ![o].handlers = (@ \ same) \cup {h}, ![o].changed = TRUE]
        /\ registered' = (registered \ same) \cup {h}
        /\ Meets("manager", o)
        /\ UNCHANGED << live, watched, step, job, unseen >> /\ Reconciling

Reconciled ==
    /\ Goes("add", "apply") /\ ToAdd = {} /\ ToRemove = {} /\ ToUpdate = {}
    /\ enabled' = TRUE /\ todo' = live
    /\ UNCHANGED << updating, resume, shutdownVars, target, commands >> /\ NoVisit /\ ByManager

\* _apply_all_hooks, with Symbol.hook, which looks again for a target that was not found.
HookSymbol(o) == \E found \in IF symbol[o].half THEN Finds(o) ELSE {FALSE} :
    LET x == [symbol[o] EXCEPT !.loaded = @ \/ found, !.half = @ /\ ~ found]
        due == x.loaded /\ x.handlers # {} /\ ~ (x.applied /\ ~ x.changed)
    IN  /\ Goes("apply", "apply") /\ Visit(o)
        /\ IF due THEN Enter("manager", o, "gather") ELSE UNCHANGED << step, job >>
        /\ symbol' = [symbol EXCEPT ![o] = x]
        /\ unseen' = IF x.loaded THEN unseen \ {o} ELSE unseen
        /\ UNCHANGED << enabled, updating, resume, shutdownVars, target, commands, registryVars,
                        watched, stale >> /\ ByManager

AppliedAll ==
    /\ Goes("apply", "idle") /\ todo = {} /\ updating' = FALSE
    /\ UNCHANGED << enabled, resume, shutdownVars, target, todo, commands >> /\ NoVisit /\ ByManager

\* Anything raised while reconciling: _reset_live_handlers, then restore_state.
ReconcileFails ==
    /\ Goes("add", "reset") /\ todo' = live
    /\ UNCHANGED << enabled, updating, resume, shutdownVars, target, commands >> /\ NoVisit /\ ByManager

Shutdown ==
    /\ Goes("idle", "shutdown") /\ ~ closing /\ main = None
    /\ enabled' = FALSE /\ todo' = live /\ target' = {}
    /\ UNCHANGED << updating, resume, shutdownVars, commands >> /\ NoVisit /\ ByManager

\* Mutant of Stop: the module stays watched.
StopWatches(o) ==
    /\ pc \in {"reset", "shutdown"} /\ o \in todo /\ lock = None /\ todo' = todo \ {o}
    /\ symbol' = [symbol EXCEPT ![o] = Unhooked(@)]
    /\ UNCHANGED << enabled, updating, pc, resume, shutdownVars, target, commands, registryVars, step, job,
                    watched, met, stale, unseen >> /\ ByManager

\* Symbol.stop.
Stop(o) ==
    /\ pc \in {"reset", "shutdown"} /\ o \in todo /\ lock = None /\ todo' = todo \ {o}
    /\ watched' = watched \ {o}
    /\ symbol' = [symbol EXCEPT ![o] = Unhooked(@)]
    /\ met' = IF \E m \in Module : o \in callbacks[m] \cup {job[m]}
              THEN met \cup {symbol[o].path} ELSE met
    /\ UNCHANGED << enabled, updating, pc, resume, shutdownVars, target, commands, registryVars, step, job,
                    stale, unseen >> /\ ByManager

\* Mutant of Reset: the handlers stay in the registry.
ResetKeeps ==
    /\ Goes("reset", "idle") /\ todo = {} /\ live' = {} /\ updating' = FALSE /\ target' = {}
    /\ UNCHANGED << registered, enabled, resume, shutdownVars, todo, commands, symbol, watched, step, job,
                    met, stale, unseen >> /\ ByManager

Reset ==
    /\ Goes("reset", "idle") /\ todo = {}
    /\ live' = {} /\ registered' = {} /\ updating' = FALSE /\ target' = {}
    /\ UNCHANGED << enabled, resume, shutdownVars, todo, commands, symbol, watched, step, job,
                    met, stale, unseen >> /\ ByManager

\* The manager's lock is left, the registry stays as it is, and until the
\* control watch has stopped there may still be commands.
StoppedAll ==
    /\ Goes("shutdown", "idle") /\ todo = {} /\ closing' = TRUE
    /\ UNCHANGED << enabled, updating, resume, late, target, todo, commands >> /\ NoVisit /\ ByManager

\* The control watch stops, and then the watcher, which removes its finder.
Down ==
    /\ Goes("idle", "down") /\ closing
    /\ UNCHANGED << enabled, updating, resume, shutdownVars, target, todo, commands >>
    /\ NoVisit /\ ByManager

-----------------------------------------------------------------------------
Works ==
    \/ Off \/ On \/ Loaded \/ Stopped \/ ImportTarget \/ Reconciled \/ AppliedAll
    \/ Shutdown \/ Reset \/ StoppedAll \/ Down
    \/ \E o \in Object : StopUnlocked(o) \/ HookSymbol(o) \/ Stop(o)
    \/ \E h \in Handler : Create(h) \/ AddHandler(h) \/ RemoveHandler(h) \/ UpdateHandler(h)
OfManager == Works \/ LoadFails \/ ReconcileFails
Applying(t) == Awake(t) /\ (Gather(t) \/ Install(t))
OfImporter(m) == Awake(m) /\
    \/ Find(m) \/ Wrap(m) \/ Load(m) \/ Executed(m) \/ Notify(m)
    \/ OnModuleLoaded(m) \/ Ask(m) \/ Imported(m)
Next == OfManager \/ (\E t \in Thread : Applying(t)) \/ (\E m \in Module : OfImporter(m))

Spec == Init /\ [][Next]_vars

\* A command under way goes on, and so do a shutdown and an import; none has
\* to begin, and nothing has to fail.
Continues == ~ Resting \/ (closing /\ pc = "idle")
GoesOn == Continues /\ (Works \/ Applying("manager"))
Fairness ==
    /\ WF_vars(GoesOn)
    /\ \A m \in Module : WF_vars(mod[m] # "absent" /\ (OfImporter(m) \/ Applying(m)))
FairSpec == Spec /\ Fairness

-----------------------------------------------------------------------------
(* Properties.                                                             *)

TypeOK ==
    /\ {enabled, updating, closing, late} \subseteq BOOLEAN
    /\ pc \in {"idle", "load", "stop", "add", "apply", "reset", "shutdown", "down"}
    /\ resume \in {"idle", "add"} /\ commands \in 0 .. MaxCommands
    /\ target \subseteq Handler /\ registered \subseteq Handler
    /\ todo \subseteq live /\ live \subseteq Object /\ watched \subseteq live
    /\ symbol \in [Object -> [path : Symbol, handlers : SUBSET Handler, applied : BOOLEAN,
           changed : BOOLEAN, chain : BOOLEAN, node : {NoNode} \cup SUBSET Handler, loaded : BOOLEAN,
           half : BOOLEAN]]
    /\ \A t \in Thread : step[t] \in {"none", "gather", "install", "ask", "import"}

\* The symbols with a hook in place that calls some handler.
Hooked == { o \in Object : symbol[o].node \notin {NoNode, {}} }
Quiet == Resting /\ \A m \in Module : mod[m] \notin {"copying", "notify"}

\* The manager's two registries agree: between commands there is one symbol
\* for each path that has handlers, and the handlers of the symbols are those
\* of the registry: the configuration's while enabled, and otherwise at most
\* the locked ones, until shutdown leaves the registries as they are.
\* (_reconcile_handlers, _stop_all_symbols_graceful and _reset_live_handlers
\* change the two one by one.)
RegistriesAgree == pc = "idle" =>
    /\ registered = UNION { symbol[o].handlers : o \in live }
    /\ \A o \in live : SymbolAt(symbol[o].path) = {o} /\ symbol[o].handlers # {}
    /\ IF enabled THEN registered = target ELSE registered \subseteq Locked \/ (closing /\ ~ late)

\* No hook survives its command: when nothing is under way, each hook in
\* place is the only one of its symbol, which the manager knows, and calls
\* no handler but those the symbol has; while disabled these are locked, and
\* after a shutdown there are none.  (Except where a thread was hooking the
\* symbol when the manager changed it, where renewing a hook failed, and, of
\* the shutdown, where a command to start came after shutdown had left the
\* manager's lock and before it stopped the control watch.)
NoneLeft == Quiet => \A p \in Symbol \ (met \cup stale) :
    /\ strays[p] = 0
    /\ \A o \in Hooked : symbol[o].path = p =>
        /\ o \in live /\ symbol[o].node \subseteq symbol[o].handlers
        /\ (~ enabled => symbol[o].node \subseteq Locked) /\ (closing => late)

\* No configured hook is missed: when nothing is under way and metrics are
\* enabled, each symbol of a loaded module is hooked with all its handlers,
\* unless one of them cannot be built.  (Except where the import met the
\* update: _on_module_loaded left it to the manager, which was past it, or
\* the loader was looked up before the symbol was watched; and of a shutdown
\* that such a command has met, the symbols it had stopped.)
NoneMissed == Quiet /\ pc = "idle" /\ enabled => \A o \in live \ unseen :
    \/ mod[Place(o)] # "loaded" \/ symbol[o].path \in met
    \/ symbol[o].handlers \cap Broken # {}
    \/ symbol[o].applied /\ symbol[o].node = symbol[o].handlers
    \/ late /\ o \notin watched

\* The main thread was importing when the command interrupted it, inside the
\* watcher's lock, and the command cannot go on without that.
WaitsForItself == main # None /\ lock = main /\ ~ ENABLED GoesOn

\* A command or a shutdown returns, although its symbols wait for imports
\* that call them.  (Except where the SIGUSR1 handler waits for the lock that
\* the frame it has interrupted holds.)
CommandsReturn == Continues ~> (~ Continues \/ WaitsForItself)
=============================================================================
