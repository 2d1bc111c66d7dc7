--------------------------- MODULE PatcherProofs ---------------------------
(***************************************************************************)
(* The safety invariants of Patcher, for every set of modules, handlers    *)
(* and configurations, and for any number of calls of the controller.      *)
(*                                                                         *)
(* An import goes on while the controller replaces the configuration, and  *)
(* no lock covers the hookers.  So the invariant follows each handler from *)
(* the moment a configuration names it to the moment its hook is in place, *)
(* and back: at every state somebody is known who will still take the next *)
(* step, or the run has been marked as one of the exceptions.              *)
(* The calls of a hooked function (HookCall) have their own state machine  *)
(* and their own invariant, CallInv, at the end of the module.             *)
(***************************************************************************)
EXTENDS Patcher, HookCall, TLAPS

Types ==
    /\ ctl \in {"idle", "load", "locked", "modules", "apply"}
    /\ enabled \in BOOLEAN /\ auto \in BOOLEAN /\ stale \in BOOLEAN /\ met \in BOOLEAN
    /\ new \in (SUBSET Handler) \X (SUBSET Handler)
    /\ profiling \subseteq Handler /\ metrics \subseteq Handler
    /\ prepared \subseteq Handler /\ members \subseteq Handler
    /\ symbols \subseteq Symbol
    /\ cache \in [Module -> SUBSET Handler]
    /\ mod \in [Module -> {"absent", "found", "loading", "callback", "loaded"}]
    /\ wrapped \in [Module -> BOOLEAN]
    /\ todo \in [Thread -> SUBSET Handler]
    /\ step \in [Thread -> {"next", "auto", "add", "hook", "note"}]
    /\ DOMAIN job = Thread
    /\ forgotten \in [Thread -> BOOLEAN]
    /\ nodes \in [Symbol -> Nat] /\ lost \in [Symbol -> Nat]

\* A thread has hookers at hand only in its phase of preparing or applying.
Busy(t) == todo[t] # {} \/ step[t] # "next"
Phases ==
    \A t \in Thread : /\ Busy(t) => Mine(t)
                      /\ step[t] # "next" => job[t] \in Handler

AtHook(t, s) == step[t] = "hook" /\ SymbolOf[job[t]] = s

\* A thread left with a deleted manager was importing when the configuration
\* was replaced.
Forgot == \A t \in Thread : forgotten[t] => stale

\* One thread at a time hooks a symbol, whose hooks are out meanwhile.
Single ==
    ~ met /\ ~ stale =>
        \A s \in Symbol :
            /\ lost[s] = 0 /\ nodes[s] \in {0, 1}
            /\ \A t \in Thread : AtHook(t, s) => nodes[s] = 0
            /\ \A t, u \in Thread : AtHook(t, s) /\ AtHook(u, s) => t = u

\* The symbol of an added handler is hooked, or about to be.
InPlace ==
    \A h \in members :
        \/ nodes[SymbolOf[h]] > 0
        \/ \E t \in Thread : AtHook(t, SymbolOf[h]) /\ ~ forgotten[t]

Registered == prepared = registered /\ \A m \in Module : cache[m] \subseteq Config \cap Pattern

\* A configured handler has been prepared, or the controller has still to look
\* at its module, or some thread has it in hand, or the module's import will
\* find it.
Covered(h) ==
    LET m == Place(h)
    IN  \/ ctl = "modules" /\ (m \in modules \/ h \in todo["ctl"])
        \/ h \in unseen
        \/ h \in Pattern /\ In(m, Config \cap Concrete) # {}
        \/ h \in prepared \/ h \in todo[m]
        \/ mod[m] = "absent"
        \/ mod[m] \in {"found", "loading"} /\ wrapped[m] /\ (h \in Concrete \/ h \in cache[m])
Claimed == \A h \in Config : Covered(h)

\* While hooks are applied at once, a prepared handler is added or about to be.
Pending(h) ==
    \/ h \in members
    \/ \E t \in Thread : job[t] = h /\ step[t] \in {"auto", "add"}
    \/ ctl = "apply" /\ h \in todo["ctl"]
Applies ==
    /\ enabled \/ ctl = "apply" => auto
    /\ auto /\ ctl # "modules" => \A h \in prepared : Pending(h)

\* What is prepared and not added yet still has its symbol in _applied_hooks,
\* except between the controller's loading and its applying.
SymbolsHeld ==
    \A h \in prepared \ members :
        \/ SymbolOf[h] \in symbols
        \/ ctl = "modules"
        \/ ctl = "apply" /\ (h \in todo["ctl"] \/ (job["ctl"] = h /\ step["ctl"] = "add"))

\* What may be prepared: the configured handlers, and kept patterns.
Managed == Config \cup (kept \cap Pattern)

\* A pattern in place is registered and applied, or about to be, or kept.
Removable(h) ==
    \/ h \in kept
    \/ h \in registered /\ (h \in applied \/ \E t \in Thread : job[t] = h /\ step[t] \in {"hook", "note"})
Current ==
    ~ stale =>
        /\ \A t \in Thread : todo[t] \subseteq Managed
        /\ \A t \in Thread : step[t] # "next" => job[t] \in Managed \cap registered
        /\ ctl = "apply" => todo["ctl"] \subseteq prepared
        /\ prepared \subseteq Managed
        /\ members \subseteq Config \cup kept
        /\ \A h \in members \cap Pattern : Removable(h)

Inv ==
    /\ Types /\ Phases /\ Forgot /\ Single /\ InPlace /\ Registered /\ Claimed
    /\ Applies /\ SymbolsHeld /\ Current

USE DEF vars, watcherVars, ctlVars, importVars, threadVars, hookVars, history,
        ByHooker, SetWatcher, Importer, ByCtl, At, CtlAt

-----------------------------------------------------------------------------
(* What the definitions give. *)

\* The controller's thread imports no module.
LEMMA Threads ==
    /\ "ctl" \in Thread /\ "ctl" \notin Module
    /\ \A m \in Module : m \in Thread /\ m # "ctl"
    /\ \A t \in Thread : t = "ctl" \/ t \in Module
BY HandlersAssumption DEF Thread

\* A handler has a symbol, and its symbol a module.
LEMMA Places ==
    /\ \A h \in Handler : SymbolOf[h] \in Symbol /\ Place(h) \in Module
    /\ \A h \in Handler : h \in Concrete \/ h \in Pattern
BY HandlersAssumption DEF Symbol, Place, Handler

\* Every call with configurations is one of known handlers.
LEMMA Calls ==
    ASSUME Types, NEW C \in Configs, Enable(C) \/ UpdateMetrics(C)
    PROVE  \E P, M \in SUBSET Handler : Reconfigure(P, M)
<1>1. C \subseteq Handler
  BY ConfigsAssumption
<1>2. CASE Enable(C)
  BY <1>1, <1>2 DEF Enable, Types
<1>3. CASE UpdateMetrics(C)
  BY <1>1, <1>3 DEF UpdateMetrics, Types
<1>4. QED
  BY <1>2, <1>3

\* The initial states satisfy the invariant: nothing is configured.
LEMMA InitInv ==
    ASSUME Init PROVE Inv
<1>1. Types
  BY DEF Init, Types
<1>2. Phases /\ Forgot /\ Single /\ InPlace
  BY DEF Init, Phases, Busy, Forgot, Single, AtHook, InPlace
<1>3. Registered /\ Claimed /\ Applies /\ SymbolsHeld
  BY DEF Init, Registered, Claimed, Config, Applies, SymbolsHeld
<1>4. Current
  BY DEF Init, Current
<1>5. QED
  BY <1>1, <1>2, <1>3, <1>4 DEF Inv

-----------------------------------------------------------------------------
(* Types and phases. *)

\* Every step keeps the types.
LEMMA TypesStep ==
    ASSUME Types, Phases, [Next]_vars PROVE Types'
<1>1. ASSUME NEW P \in SUBSET Handler, NEW M \in SUBSET Handler, Reconfigure(P, M) PROVE Types'
  BY <1>1 DEF Types, Reconfigure
<1>2. CASE Disable
  BY <1>2 DEF Types, Disable
<1>3. CASE Load
  BY <1>3 DEF Types, Load
<1>4. CASE Replace
  <2>1. /\ new[1] \subseteq Handler /\ new[2] \subseteq Handler
        /\ nodes' \in [Symbol -> Nat] /\ forgotten' \in [Thread -> BOOLEAN]
        /\ cache' \in [Module -> SUBSET Handler] /\ stale' \in BOOLEAN
    BY <1>4 DEF Types, Replace
  <2>2. QED
    BY <1>4, <2>1 DEF Types, Replace
<1>5. ASSUME NEW m \in Module, LookAt(m) PROVE Types'
  <2>1. In(m, Config \cap Concrete) \subseteq Handler /\ In(m, Config \cap Pattern) \subseteq Handler
    BY DEF Types, In, Config
  <2>2. todo' \in [Thread -> SUBSET Handler] /\ cache' \in [Module -> SUBSET Handler]
    <3>1. \A C \in {cache[m], In(m, Config \cap Pattern)} : C \subseteq Handler
      BY <2>1 DEF Types
    <3>2. \E X \in SUBSET Handler : todo' = [todo EXCEPT !["ctl"] = X]
      BY <1>5, <2>1, <3>1 DEF LookAt
    <3>3. cache' \in {cache, [cache EXCEPT ![m] = {}]}
      BY <1>5 DEF LookAt
    <3>4. todo' \in [Thread -> SUBSET Handler]
      <4>1. PICK X \in SUBSET Handler : todo' = [todo EXCEPT !["ctl"] = X]
        BY <3>2
      <4>2. todo \in [Thread -> SUBSET Handler]
        BY DEF Types
      <4>3. QED
        BY <4>1, <4>2
    <3>5. QED BY <3>3, <3>4 DEF Types
  <2>3. QED
    BY <1>5, <2>2 DEF Types, LookAt
<1>6. CASE ApplyAll
  BY <1>6 DEF Types, ApplyAll
<1>7. CASE Applied
  BY <1>7 DEF Types, Applied
<1>8. ASSUME NEW m \in Module, FindSpec(m) PROVE Types'
  <2>1. In(m, Config \cap Pattern) \subseteq Handler
    BY DEF Types, In, Config
  <2>2. QED
    BY <1>8, <2>1 DEF Types, FindSpec
<1>9. ASSUME NEW m \in Module, EnterModules(m) PROVE Types'
  BY <1>9 DEF Types, EnterModules
<1>10. ASSUME NEW m \in Module, Loaded(m) PROVE Types'
  <2>1. In(m, Config \cap Concrete) \subseteq Handler
    BY DEF Types, In, Config
  <2>2. todo' \in [Thread -> SUBSET Handler] /\ cache' \in [Module -> SUBSET Handler]
    BY <1>10, <2>1 DEF Types, Loaded
  <2>3. QED
    BY <1>10, <2>2 DEF Types, Loaded
<1>11. ASSUME NEW m \in Module, CallbackDone(m) PROVE Types'
  BY <1>11 DEF Types, CallbackDone
<1>12. ASSUME NEW t \in Thread, Prepare(t) PROVE Types'
  <2>1. PICK h \in todo[t] : Prepare(t)!(h)
    BY <1>12 DEF Prepare
  <2>2. h \in Handler /\ SymbolOf[h] \in Symbol
    BY Places DEF Types
  <2>3. QED
    BY <1>12, <2>1, <2>2 DEF Types, Prepare
<1>13. ASSUME NEW t \in Thread, ReadAuto(t) PROVE Types'
  BY <1>13 DEF Types, ReadAuto
<1>14. ASSUME NEW t \in Thread, Add(t) PROVE Types'
  <2>1. job[t] \in Handler
    BY <1>14 DEF Add, Phases
  <2>2. met' \in BOOLEAN
    BY <1>14 DEF Types, Add
  <2>3. nodes' \in [Symbol -> Nat] /\ forgotten' \in [Thread -> BOOLEAN] /\ members' \subseteq Handler
    <3>1. CASE job[t] \in members
      BY <1>14, <3>1 DEF Types, Add
    <3>2. CASE job[t] \notin members
      <4>1. /\ nodes' = [nodes EXCEPT ![SymbolOf[job[t]]] = 0]
            /\ forgotten' = [forgotten EXCEPT ![t] = FALSE]
            /\ members' = members \cup {job[t]}
        BY <1>14, <3>2 DEF Add
      <4>2. QED
        BY <2>1, <4>1 DEF Types
    <3>3. QED
      BY <3>1, <3>2
  <2>4. step' \in [Thread -> {"next", "auto", "add", "hook", "note"}]
    BY <1>14 DEF Types, Add
  <2>5. QED
    BY <1>14, <2>2, <2>3, <2>4 DEF Types, Add
<1>15. ASSUME NEW t \in Thread, Hook(t) PROVE Types'
  BY <1>15 DEF Types, Hook
<1>16. ASSUME NEW t \in Thread, Note(t) PROVE Types'
  BY <1>16 DEF Types, Note
<1>17. CASE UNCHANGED vars
  BY <1>17 DEF Types
<1>18. QED
  BY Calls, <1>1, <1>2, <1>3, <1>4, <1>5, <1>6, <1>7, <1>8, <1>9, <1>10, <1>11, <1>12, <1>13, <1>14,
     <1>15, <1>16, <1>17 DEF Next, CtlStep, ImportStep, HookerStep

\* The three ways to take up a handler.
LEMMA PrepareCases ==
    ASSUME Types, NEW t \in Thread, Prepare(t)
    PROVE  \E h \in todo[t] :
        /\ Mine(t) /\ step[t] = "next" /\ todo' = [todo EXCEPT ![t] = todo[t] \ {h}]
        /\ UNCHANGED << enabled, ctl, new, calls, modules, mod, wrapped, profiling, metrics, auto, cache,
                        applied, forgotten, members, nodes, lost, kept, stale, met, unseen >>
        /\ \/ /\ Applying(t)
              /\ step' = [step EXCEPT ![t] = "add"] /\ job' = [job EXCEPT ![t] = h]
              /\ UNCHANGED << prepared, symbols, registered >>
           \/ /\ ~ Applying(t) /\ h \in Pattern /\ h \in registered
              /\ UNCHANGED << step, job, prepared, symbols, registered >>
           \/ /\ ~ Applying(t)
              /\ step' = [step EXCEPT ![t] = "auto"] /\ job' = [job EXCEPT ![t] = h]
              /\ prepared' = prepared \cup {h} /\ registered' = registered \cup {h}
              /\ symbols' = symbols \cup {SymbolOf[h]}
<1>1. PICK h \in todo[t] : Prepare(t)!(h)
  BY DEF Prepare
<1>2. CASE Applying(t)
  BY <1>1, <1>2
<1>3. CASE ~ Applying(t) /\ h \in Pattern /\ h \in registered
  <2>1. At(t, "next", "next") /\ UNCHANGED << job, prepared, symbols, registered >>
    BY <1>1, <1>3
  <2>2. step' = step
    BY <2>1 DEF Types
  <2>3. QED
    BY <1>1, <1>3, <2>1, <2>2
<1>4. CASE ~ Applying(t) /\ ~ (h \in Pattern /\ h \in registered)
  BY <1>1, <1>4
<1>5. QED
  BY <1>2, <1>3, <1>4

\* The two ways to add one: its manager has it already, or takes its hooks out.
LEMMA AddCases ==
    ASSUME NEW t \in Thread, Add(t)
    PROVE  /\ step[t] = "add"
           /\ UNCHANGED << enabled, ctl, new, calls, modules, mod, wrapped, profiling, metrics, auto, cache,
                           prepared, applied, symbols, registered, todo, job, lost, kept, stale, unseen >>
           /\ \/ /\ job[t] \in members /\ step' = [step EXCEPT ![t] = "note"]
                 /\ UNCHANGED << members, nodes, forgotten >>
              \/ /\ job[t] \notin members /\ step' = [step EXCEPT ![t] = "hook"]
                 /\ members' = members \cup {job[t]}
                 /\ nodes' = [nodes EXCEPT ![SymbolOf[job[t]]] = 0]
                 /\ forgotten' = [forgotten EXCEPT ![t] = FALSE]
<1>1. CASE job[t] \in members
  BY <1>1 DEF Add
<1>2. CASE job[t] \notin members
  BY <1>2 DEF Add
<1>3. QED
  BY <1>1, <1>2

\* A step of a hooker is taken with a handler at hand, and leaves the others'.
LEMMA HookerFrame ==
    ASSUME Types, Phases, NEW t \in Thread, HookerStep(t)
    PROVE  /\ Mine(t) /\ UNCHANGED << ctl, mod, enabled, stale, unseen, Config, auto, cache >>
           /\ DOMAIN job' = Thread
           /\ \A u \in Thread \ {t} : /\ todo'[u] = todo[u] /\ step'[u] = step[u] /\ job'[u] = job[u]
                                      /\ forgotten'[u] = forgotten[u]
           /\ todo'[t] \subseteq todo[t]
           /\ Prepare(t) \/ (step[t] # "next" /\ UNCHANGED << todo, job >>)
<1>1. CASE Prepare(t)
  <2>1. PICK h \in todo[t] :
          /\ Mine(t) /\ todo' = [todo EXCEPT ![t] = todo[t] \ {h}]
          /\ UNCHANGED << enabled, ctl, mod, profiling, metrics, auto, cache, forgotten, stale, unseen >>
          /\ step' \in {step, [step EXCEPT ![t] = "add"], [step EXCEPT ![t] = "auto"]}
          /\ job' = job \/ job' = [job EXCEPT ![t] = h]
    BY <1>1, PrepareCases
  <2>2. QED
    BY <1>1, <2>1 DEF Types, Config
<1>2. CASE ReadAuto(t) \/ Hook(t) \/ Note(t)
  BY <1>2 DEF Types, Phases, Busy, ReadAuto, Hook, Note, Config
<1>3. CASE Add(t)
  <2>1. \A u \in Thread \ {t} : step'[u] = step[u] /\ forgotten'[u] = forgotten[u]
    BY <1>3 DEF Types, Add
  <2>2. step[t] # "next" /\ UNCHANGED << ctl, mod, enabled, stale, unseen, Config, auto, cache, todo, job >>
    BY <1>3 DEF Add, Config
  <2>3. QED
    BY <2>1, <2>2 DEF Types, Phases, Busy
<1>4. QED
  BY <1>1, <1>2, <1>3 DEF HookerStep

\* A thread is busy only in its phase: nothing else gives it hookers, and it
\* leaves the phase when it has none.
LEMMA PhasesStep ==
    ASSUME Types, Phases, [Next]_vars PROVE Phases'
<1> USE Threads
<1>1. ASSUME NEW P \in SUBSET Handler, NEW M \in SUBSET Handler, Reconfigure(P, M) PROVE Phases'
  BY <1>1 DEF Phases, Busy, Mine, Reconfigure
<1>2. CASE Disable
  BY <1>2 DEF Phases, Busy, Mine, Disable
<1>3. CASE Load
  BY <1>3 DEF Phases, Busy, Mine, Load
<1>4. CASE Replace
  BY <1>4 DEF Phases, Busy, Mine, Replace
<1>5. ASSUME NEW m \in Module, LookAt(m) PROVE Phases'
  BY <1>5 DEF Types, Phases, Busy, Mine, LookAt
<1>6. CASE ApplyAll
  BY <1>6 DEF Types, Phases, Busy, Mine, ApplyAll
<1>7. CASE Applied
  BY <1>7 DEF Phases, Busy, Mine, Applied
<1>8. ASSUME NEW m \in Module, FindSpec(m) PROVE Phases'
  BY <1>8 DEF Types, Phases, Busy, Mine, FindSpec
<1>9. ASSUME NEW m \in Module, EnterModules(m) PROVE Phases'
  BY <1>9 DEF Types, Phases, Busy, Mine, EnterModules
<1>10. ASSUME NEW m \in Module, Loaded(m) PROVE Phases'
  <2>1. UNCHANGED << ctl, step, job >> /\ \A t \in Thread \ {m} : todo'[t] = todo[t] /\ Mine(t)' = Mine(t)
    BY <1>10 DEF Types, Loaded, Mine
  <2>2. step[m] = "next"
    BY <1>10 DEF Loaded, Phases, Busy, Mine
  <2>3. todo'[m] # {} => mod'[m] = "callback"
    BY <1>10 DEF Types, Loaded
  <2>4. QED
    BY <2>1, <2>2, <2>3 DEF Phases, Busy, Mine
<1>11. ASSUME NEW m \in Module, CallbackDone(m) PROVE Phases'
  BY <1>11 DEF Types, Phases, Busy, Mine, CallbackDone
<1>12. ASSUME NEW t \in Thread, HookerStep(t) PROVE Phases'
  <2>1. Mine(t) /\ \A u \in Thread : Mine(u)' = Mine(u)
    BY <1>12, HookerFrame DEF Mine
  <2>2. step'[t] # "next" => job'[t] \in Handler
    <3>1. CASE Prepare(t)
      BY <3>1 DEF Prepare, Types
    <3>2. CASE ~ Prepare(t)
      BY <1>12, <3>2, HookerFrame DEF Phases
    <3>3. QED
      BY <3>1, <3>2
  <2>3. QED
    BY <1>12, <2>1, <2>2, HookerFrame DEF Phases, Busy
<1>13. CASE UNCHANGED vars
  BY <1>13 DEF Phases, Busy, Mine
<1>14. QED
  BY Calls, <1>1, <1>2, <1>3, <1>4, <1>5, <1>6, <1>7, <1>8, <1>9, <1>10, <1>11, <1>12, <1>13
     DEF Next, CtlStep, ImportStep

\* Whatever is neither a hooker's step nor the replacing of the configuration
\* leaves handlers, hooks and configuration alone.
LEMMA Otherwise ==
    ASSUME Types, [Next]_vars
    PROVE  \/ Replace
           \/ \E t \in Thread : HookerStep(t)
           \/ UNCHANGED << step, job, forgotten, members, nodes, lost, met, stale, prepared, registered, symbols,
                           applied, kept, profiling, metrics >>
BY Calls DEF Next, Reconfigure, Disable, CtlStep, Load, LookAt, ApplyAll, Applied, FindSpec, ImportStep, EnterModules,
             Loaded, CallbackDone

-----------------------------------------------------------------------------
(* Hooks: none twice, none lost, and one for every handler added. *)

\* When the configuration is replaced, a thread with a hooker at hand is
\* importing, and the run is marked.
LEMMA AtReplace ==
    ASSUME Types, Phases, Replace
    PROVE  /\ \A t \in Thread : Busy(t) => stale'
           /\ stale => stale'
           /\ UNCHANGED << step, todo, job, met, lost, mod, enabled, auto, unseen, wrapped >>
           /\ ctl = "locked" /\ ctl' = "modules"
BY Threads DEF Replace, Phases, Mine

LEMMA ForgotStep ==
    ASSUME Types, Phases, Forgot, [Next]_vars PROVE Forgot'
<1>1. CASE Replace
  BY <1>1, AtReplace DEF Replace, Forgot, Busy
<1>2. ASSUME NEW t \in Thread, HookerStep(t) PROVE Forgot'
  <2>1. forgotten'[t] => forgotten[t]
    <3>1. CASE Prepare(t)
      BY <3>1 DEF Prepare
    <3>2. CASE Add(t)
      BY <3>2, AddCases DEF Types
    <3>3. CASE ReadAuto(t) \/ Hook(t) \/ Note(t)
      BY <3>3 DEF ReadAuto, Hook, Note
    <3>4. QED
      BY <1>2, <3>1, <3>2, <3>3 DEF HookerStep
  <2>2. QED
    BY <1>2, <2>1, HookerFrame DEF Forgot
<1>3. QED
  BY <1>1, <1>2, Otherwise DEF Forgot

LEMMA SingleStep ==
    ASSUME Types, Phases, Forgot, Single, [Next]_vars PROVE Single'
<1> SUFFICES ASSUME ~ met', ~ stale', NEW s \in Symbol
             PROVE  /\ lost'[s] = 0 /\ nodes'[s] \in {0, 1}
                    /\ \A t \in Thread : AtHook(t, s)' => nodes'[s] = 0
                    /\ \A t, u \in Thread : AtHook(t, s)' /\ AtHook(u, s)' => t = u
  BY DEF Single
<1>1. CASE Replace
  <2>1. ~ met /\ ~ stale /\ \A t \in Thread : ~ AtHook(t, s)' /\ ~ AtHook(t, s)
    BY <1>1, AtReplace DEF AtHook, Busy
  <2>2. lost'[s] = 0
    BY <1>1, <2>1, AtReplace DEF Single
  <2>3. nodes'[s] \in {0, 1}
    BY <1>1, <2>1 DEF Replace, Single
  <2>4. QED
    BY <2>1, <2>2, <2>3
<1>2. ASSUME NEW t \in Thread, HookerStep(t)
      PROVE  /\ lost'[s] = 0 /\ nodes'[s] \in {0, 1}
             /\ \A v \in Thread : AtHook(v, s)' => nodes'[s] = 0
             /\ \A v, u \in Thread : AtHook(v, s)' /\ AtHook(u, s)' => v = u
  <2>1. \A u \in Thread \ {t} : AtHook(u, s)' <=> AtHook(u, s)
    BY <1>2, HookerFrame DEF AtHook
  <2>2. ~ stale /\ ~ forgotten[t]
    BY <1>2, HookerFrame DEF Forgot
  <2>3. CASE Prepare(t)
    <3>1. ~ AtHook(t, s)' /\ UNCHANGED << nodes, lost, met >>
      BY <2>3, PrepareCases DEF AtHook, Types
    <3>2. QED
      BY <2>1, <2>2, <3>1 DEF Single
  <2>4. CASE ReadAuto(t)
    <3>1. ~ AtHook(t, s)' /\ UNCHANGED << nodes, lost, met >>
      BY <2>4 DEF ReadAuto, AtHook, Types
    <3>2. QED
      BY <2>1, <2>2, <3>1 DEF Single
  <2>5. CASE Add(t)
    <3>1. ~ met /\ UNCHANGED << lost, job >> /\ (\A u \in Thread \ {t} : ~ (step[u] = "hook" /\ SymbolOf[job[u]] = SymbolOf[job[t]]))
      BY <2>5 DEF Add
    <3>2. CASE job[t] \in members
      <4>1. ~ AtHook(t, s)' /\ UNCHANGED nodes
        BY <2>5, <3>2, AddCases DEF AtHook, Types
      <4>2. QED
        BY <2>1, <2>2, <3>1, <4>1 DEF Single
    <3>3. CASE job[t] \notin members
      <4>1. step'[t] = "hook" /\ nodes' = [nodes EXCEPT ![SymbolOf[job[t]]] = 0]
        BY <2>5, <3>3, AddCases DEF Types
      <4>2. CASE s = SymbolOf[job[t]]
        BY <2>1, <2>2, <3>1, <4>1, <4>2 DEF Single, AtHook, Types
      <4>3. CASE s # SymbolOf[job[t]]
        BY <2>1, <2>2, <3>1, <4>1, <4>3 DEF Single, AtHook, Types
      <4>4. QED
        BY <4>2, <4>3
    <3>4. QED
      BY <3>2, <3>3
  <2>6. CASE Hook(t)
    <3>1. ~ met /\ UNCHANGED << lost, job >> /\ nodes' = [nodes EXCEPT ![SymbolOf[job[t]]] = @ + 1] /\ step[t] = "hook"
      BY <2>2, <2>6 DEF Hook
    <3>2. ~ AtHook(t, s)'
      BY <2>6 DEF Hook, AtHook, Types
    <3>3. CASE s = SymbolOf[job[t]]
      BY <2>1, <2>2, <3>1, <3>2, <3>3 DEF Single, AtHook, Types
    <3>4. CASE s # SymbolOf[job[t]]
      BY <2>1, <2>2, <3>1, <3>2, <3>4 DEF Single, AtHook, Types
    <3>5. QED
      BY <3>3, <3>4
  <2>7. CASE Note(t)
    <3>1. ~ AtHook(t, s)' /\ UNCHANGED << nodes, lost, met >>
      BY <2>7 DEF Note, AtHook, Types
    <3>2. QED
      BY <2>1, <2>2, <3>1 DEF Single
  <2>8. QED
    BY <1>2, <2>3, <2>4, <2>5, <2>6, <2>7 DEF HookerStep
<1>3. CASE UNCHANGED << step, job, nodes, lost, met, stale >>
  BY <1>3 DEF Single, AtHook
<1>4. QED
  BY <1>1, <1>2, <1>3, Otherwise

LEMMA InPlaceStep ==
    ASSUME Types, Phases, InPlace, [Next]_vars PROVE InPlace'
<1> SUFFICES ASSUME NEW h \in members'
             PROVE  \/ nodes'[SymbolOf[h]] > 0
                    \/ \E u \in Thread : AtHook(u, SymbolOf[h])' /\ ~ forgotten'[u]
  BY DEF InPlace
<1> DEFINE s == SymbolOf[h]
<1>1. CASE Replace
  <2>1. h \in members \ Recovered /\ s \in Symbol
    BY <1>1, Places DEF Replace, Types
  <2>2. CASE s \in Touched
    <3>1. nodes'[s] = 1
      BY <1>1, <2>1, <2>2 DEF Replace, Remaining
    <3>2. QED
      BY <3>1
  <2>3. CASE s \notin Touched
    <3>1. nodes'[s] = nodes[s] /\ UNCHANGED << step, job >>
      BY <1>1, <2>1, <2>3 DEF Replace
    <3>2. \A u \in Thread : AtHook(u, s) /\ ~ forgotten[u] => ~ forgotten'[u]
      BY <1>1, <2>3 DEF Replace, AtHook
    <3>3. QED
      BY <2>1, <3>1, <3>2 DEF InPlace, AtHook
  <2>4. QED
    BY <2>2, <2>3
<1>2. ASSUME NEW t \in Thread, HookerStep(t)
      PROVE  \/ nodes'[s] > 0
             \/ \E u \in Thread : AtHook(u, s)' /\ ~ forgotten'[u]
  <2>1. \A u \in Thread \ {t} : AtHook(u, s) /\ ~ forgotten[u] => AtHook(u, s)' /\ ~ forgotten'[u]
    BY <1>2, HookerFrame DEF AtHook
  <2>2. CASE Prepare(t)
    <3>1. step[t] = "next" /\ UNCHANGED << nodes, members >>
      BY <2>2, PrepareCases
    <3>2. QED
      BY <2>1, <3>1 DEF InPlace, AtHook
  <2>3. CASE ReadAuto(t) \/ Note(t)
    <3>1. step[t] # "hook" /\ UNCHANGED << nodes, members >>
      BY <2>3 DEF ReadAuto, Note
    <3>2. QED
      BY <2>1, <3>1 DEF InPlace, AtHook
  <2>4. CASE Add(t)
    <3>1. CASE job[t] \in members
      <4>1. step[t] # "hook" /\ UNCHANGED << nodes, members >>
        BY <2>4, <3>1, AddCases
      <4>2. QED
        BY <2>1, <4>1 DEF InPlace, AtHook
    <3>2. CASE job[t] \notin members
      <4>1. /\ step[t] # "hook" /\ step'[t] = "hook" /\ job' = job /\ ~ forgotten'[t]
            /\ members' = members \cup {job[t]} /\ nodes' = [nodes EXCEPT ![SymbolOf[job[t]]] = 0]
        BY <2>4, <3>2, AddCases DEF Types
      <4>2. CASE s = SymbolOf[job[t]]
        BY <4>1, <4>2 DEF AtHook
      <4>3. CASE s # SymbolOf[job[t]]
        <5>1. h \in members /\ nodes'[s] = nodes[s]
          BY <4>1, <4>3, Places DEF Types
        <5>2. QED
          BY <2>1, <4>1, <5>1 DEF InPlace, AtHook
      <4>4. QED
        BY <4>2, <4>3
    <3>3. QED
      BY <3>1, <3>2
  <2>5. CASE Hook(t)
    <3>1. UNCHANGED << job, members >> /\ h \in members /\ s \in Symbol
      BY <2>5, Places DEF Hook, Types
    <3>2. CASE forgotten[t]
      <4>1. UNCHANGED nodes
        BY <2>5, <3>2 DEF Hook
      <4>2. QED
        BY <2>1, <3>1, <3>2, <4>1 DEF InPlace
    <3>3. CASE ~ forgotten[t]
      <4>1. nodes' = [nodes EXCEPT ![SymbolOf[job[t]]] = @ + 1]
        BY <2>5, <3>3 DEF Hook
      <4>2. CASE s = SymbolOf[job[t]]
        BY <3>1, <4>1, <4>2 DEF Types
      <4>3. CASE s # SymbolOf[job[t]]
        BY <2>1, <3>1, <4>1, <4>3 DEF InPlace, AtHook, Types
      <4>4. QED
        BY <4>2, <4>3
    <3>4. QED
      BY <3>2, <3>3
  <2>6. QED
    BY <1>2, <2>2, <2>3, <2>4, <2>5 DEF HookerStep
<1>3. CASE UNCHANGED << step, job, forgotten, members, nodes >>
  BY <1>3 DEF InPlace, AtHook
<1>4. QED
  BY <1>1, <1>2, <1>3, Otherwise

-----------------------------------------------------------------------------
(* No configured handler is missed. *)

LEMMA RegisteredStep ==
    ASSUME Types, Phases, Registered, [Next]_vars PROVE Registered'
<1>1. prepared' = registered'
  <2>1. CASE Replace
    BY <2>1 DEF Replace, Registered
  <2>2. ASSUME NEW t \in Thread, HookerStep(t) PROVE prepared' = registered'
    <3>1. CASE Prepare(t)
      BY <3>1, PrepareCases DEF Registered
    <3>2. CASE Add(t)
      BY <3>2, AddCases DEF Registered
    <3>3. CASE ReadAuto(t) \/ Hook(t) \/ Note(t)
      BY <3>3 DEF ReadAuto, Hook, Note, Registered
    <3>4. QED
      BY <2>2, <3>1, <3>2, <3>3 DEF HookerStep
  <2>3. QED
    BY <2>1, <2>2, Otherwise DEF Registered
<1>2. ASSUME NEW m \in Module PROVE cache'[m] \subseteq (Config \cap Pattern)'
  <2>1. CASE Replace
    BY <2>1 DEF Replace
  <2>2. ASSUME NEW t \in Thread, HookerStep(t) PROVE cache'[m] \subseteq (Config \cap Pattern)'
    BY <2>2, HookerFrame DEF Registered
  <2>3. CASE ~ Replace /\ UNCHANGED << profiling, metrics >>
    <3>1. cache'[m] \subseteq cache[m] \/ cache'[m] = In(m, Config \cap Pattern)
      <4>1. ASSUME NEW n \in Module, FindSpec(n)
            PROVE  cache'[m] \subseteq cache[m] \/ cache'[m] = In(m, Config \cap Pattern)
        BY <4>1 DEF FindSpec, Types
      <4>2. ASSUME NEW n \in Module, Loaded(n) PROVE cache'[m] \subseteq cache[m]
        <5>1. cache' \in {cache, [cache EXCEPT ![n] = {}]}
          BY <4>2 DEF Loaded, Types
        <5>2. QED
          BY <5>1 DEF Types
      <4>3. ASSUME NEW n \in Module, LookAt(n) PROVE cache'[m] \subseteq cache[m]
        <5>1. cache' \in {cache, [cache EXCEPT ![n] = {}]}
          BY <4>3 DEF LookAt
        <5>2. QED
          BY <5>1 DEF Types
      <4>4. ASSUME NEW n \in Module, EnterModules(n) \/ CallbackDone(n) PROVE cache' = cache
        BY <4>4 DEF EnterModules, CallbackDone
      <4>5. ASSUME NEW t \in Thread, HookerStep(t) PROVE cache' = cache
        BY <4>5, HookerFrame
      <4>6. ASSUME NEW P \in SUBSET Handler, NEW M \in SUBSET Handler, Reconfigure(P, M) PROVE cache' = cache
        BY <4>6 DEF Reconfigure
      <4>7. CASE Disable \/ Load \/ ApplyAll \/ Applied \/ UNCHANGED vars
        BY <4>7 DEF Disable, Load, ApplyAll, Applied
      <4>8. QED
        BY <2>3, Calls, <4>1, <4>2, <4>3, <4>4, <4>5, <4>6, <4>7 DEF Next, CtlStep, ImportStep
    <3>2. QED
      BY <2>3, <3>1 DEF Registered, In, Config
  <2>4. QED
    BY <2>1, <2>2, <2>3, Otherwise
<1>3. QED
  BY <1>1, <1>2 DEF Registered

\* A configured handler stays covered: what the controller does for it...
LEMMA ClaimedByController ==
    ASSUME Types, Phases, Registered, Claimed,
           Replace \/ (\E m \in Module : LookAt(m)) \/ ApplyAll
    PROVE  Claimed'
<1> SUFFICES ASSUME NEW h \in Config' PROVE Covered(h)'
  BY DEF Claimed
<1>1. CASE Replace
  <2>1. h \in Handler /\ modules' = Module /\ ctl' = "modules"
    BY <1>1 DEF Replace, Types, Config
  <2>2. QED
    BY <2>1, Places DEF Covered
<1>2. ASSUME NEW m \in Module, LookAt(m) PROVE Covered(h)'
  <2>1. /\ h \in Config /\ UNCHANGED << profiling, metrics, ctl, mod, wrapped, prepared >> /\ ctl = "modules"
        /\ modules' = modules \ {m} /\ todo["ctl"] = {}
        /\ \A g \in unseen : Place(g) # m => g \in unseen'
        /\ \A n \in Module : todo'[n] = todo[n] /\ (n # m => cache'[n] = cache[n])
    BY <1>2, Threads DEF LookAt, Types, Config, In
  <2>2. Place(h) \in Module /\ h \in Handler
    BY <2>1, Places DEF Types, Config
  <2>3. CASE Place(h) # m
    BY <2>1, <2>2, <2>3 DEF Claimed, Covered, Config
  <2>4. CASE Place(h) = m
    <3>1. CASE mod[m] = "absent"
      BY <2>1, <2>4, <3>1 DEF Covered
    <3>2. CASE mod[m] = "found"
      <4>1. In(m, Config) \ (IF wrapped[m] THEN Concrete \cup cache[m] ELSE {}) \subseteq unseen'
        BY <1>2, <3>2 DEF LookAt
      <4>2. h \in In(m, Config)
        BY <2>1, <2>4 DEF In
      <4>3. CASE h \in unseen'
        BY <4>3 DEF Covered
      <4>4. CASE wrapped[m] /\ (h \in Concrete \/ h \in cache[m])
        <5>1. cache' = cache
          BY <1>2, <3>2 DEF LookAt
        <5>2. QED
          BY <2>1, <2>4, <3>2, <4>4, <5>1 DEF Covered
      <4>5. QED
        BY <4>1, <4>2, <4>3, <4>4
    <3>4. CASE mod[m] \notin {"absent", "found"}
      <4> DEFINE patterns == IF In(m, Config \cap Concrete) = {} THEN In(m, Config \cap Pattern) ELSE cache[m]
      <4>1. \E missing \in SUBSET patterns :
                /\ todo'["ctl"] = In(m, Config \cap Concrete) \cup (patterns \ missing)
                /\ missing \subseteq unseen'
        BY <1>2, <3>4, Threads DEF LookAt, Types
      <4>2. CASE h \in Concrete
        <5>1. h \in In(m, Config \cap Concrete)
          BY <2>1, <2>4, <4>2 DEF In
        <5>2. QED
          BY <2>1, <4>1, <5>1 DEF Covered
      <4>3. CASE h \in Pattern /\ In(m, Config \cap Concrete) = {}
        <5>1. h \in In(m, Config \cap Pattern)
          BY <2>1, <2>4, <4>3 DEF In
        <5>2. h \in patterns
          BY <4>3, <5>1
        <5>3. h \in todo'["ctl"] \/ h \in unseen'
          <6> HIDE DEF patterns
          <6> QED BY <4>1, <5>2
        <5>4. QED
          BY <2>1, <5>3 DEF Covered
      <4>4. CASE h \in Pattern /\ In(m, Config \cap Concrete) # {}
        <5>1. In(m, Config \cap Concrete)' # {}
          BY <2>1, <4>4 DEF In, Config
        <5>2. QED
          BY <2>4, <4>4, <5>1 DEF Covered, Place
      <4>5. QED
        BY <2>2, <4>2, <4>3, <4>4, Places
    <3>5. QED
      BY <3>1, <3>2, <3>4
  <2>5. QED
    BY <2>3, <2>4
<1>3. CASE ApplyAll
  <2>1. /\ h \in Config /\ UNCHANGED << profiling, metrics, mod, wrapped, prepared, unseen, cache >>
        /\ modules = {} /\ todo["ctl"] = {}
        /\ \A n \in Module : todo'[n] = todo[n]
    BY <1>3, Threads DEF ApplyAll, Types, Config
  <2>2. Place(h) \in Module
    BY <2>1, Places DEF Types, Config
  <2>3. QED
    BY <2>1, <2>2 DEF Claimed, Covered, Config, In
<1>4. QED
  BY <1>1, <1>2, <1>3

\* ... what the import of its module does...
LEMMA ClaimedByImport ==
    ASSUME Types, Phases, Registered, Claimed, NEW m \in Module, FindSpec(m) \/ ImportStep(m)
    PROVE  Claimed'
<1> SUFFICES ASSUME NEW h \in Config' PROVE Covered(h)'
  BY DEF Claimed
<1>1. /\ h \in Config /\ UNCHANGED << profiling, metrics, ctl, modules, prepared, unseen >>
      /\ todo'["ctl"] = todo["ctl"]
      /\ \A n \in Module \ {m} : /\ todo'[n] = todo[n] /\ cache'[n] = cache[n]
                                 /\ mod'[n] = mod[n] /\ wrapped'[n] = wrapped[n]
  BY Threads DEF FindSpec, ImportStep, EnterModules, Loaded, CallbackDone, Types, Config
<1>2. Place(h) \in Module /\ h \in Handler
  BY <1>1, Places DEF Types, Config
<1>3. CASE Place(h) # m
  BY <1>1, <1>2, <1>3 DEF Claimed, Covered, Config, In
<1>4. CASE Place(h) = m
  <2>1. CASE FindSpec(m)
    <3>1. /\ mod'[m] = "found" /\ (wrapped'[m] <=> In(m, Config) # {})
          /\ cache'[m] = In(m, Config \cap Pattern)
      BY <2>1 DEF FindSpec, Types
    <3>2. h \in In(m, Config) /\ (h \in Pattern => h \in In(m, Config \cap Pattern))
      BY <1>1, <1>4 DEF In
    <3>3. QED
      BY <1>2, <1>4, <3>1, <3>2, Places DEF Covered
  <2>2. CASE EnterModules(m)
    <3>1. mod'[m] = "loading" /\ mod[m] = "found" /\ UNCHANGED << wrapped, cache, todo >>
      BY <2>2 DEF EnterModules, Types
    <3>2. QED
      BY <1>1, <1>4, <3>1 DEF Claimed, Covered, Config, In
  <2>3. CASE Loaded(m)
    <3>1. /\ mod[m] = "loading" /\ UNCHANGED wrapped
          /\ todo'[m] = IF wrapped[m] THEN In(m, Config \cap Concrete) \cup cache[m] ELSE {}
      BY <2>3, Threads DEF Loaded, Types
    <3>2. todo[m] = {}
      BY <3>1, Threads DEF Phases, Busy, Mine
    <3>3. h \in Concrete => h \in In(m, Config \cap Concrete)
      BY <1>1, <1>4 DEF In
    <3>4. QED
      BY <1>1, <1>4, <3>1, <3>2, <3>3 DEF Claimed, Covered, Config, In
  <2>4. CASE CallbackDone(m)
    <3>1. mod[m] = "callback" /\ UNCHANGED << wrapped, cache, todo >>
      BY <2>4 DEF CallbackDone
    <3>2. QED
      BY <1>1, <1>4, <3>1 DEF Claimed, Covered, Config, In
  <2>5. QED
    BY <2>1, <2>2, <2>3, <2>4 DEF ImportStep
<1>5. QED
  BY <1>3, <1>4

\* ... and what a hooker does: it prepares what it takes up.
LEMMA ClaimedByHooker ==
    ASSUME Types, Phases, Registered, Claimed, NEW t \in Thread, HookerStep(t)
    PROVE  Claimed'
<1> SUFFICES ASSUME NEW h \in Config' PROVE Covered(h)'
  BY DEF Claimed
<1>1. /\ h \in Config /\ UNCHANGED << Config, ctl, modules, mod, wrapped, unseen, cache >>
      /\ \A u \in Thread \ {t} : todo'[u] = todo[u]
  BY HookerFrame DEF HookerStep, Prepare, ReadAuto, Add, Hook, Note
<1>2. Place(h) \in Module /\ Place(h) \in Thread /\ "ctl" \in Thread
  BY <1>1, Places, Threads DEF Types, Config
<1>3. In(Place(h), Config \cap Concrete)' = In(Place(h), Config \cap Concrete)
  BY <1>1 DEF In, Place
<1>4. prepared \subseteq prepared'
  <2>1. CASE Prepare(t)
    BY <2>1, PrepareCases
  <2>2. CASE ~ Prepare(t)
    BY <2>2 DEF HookerStep, ReadAuto, Add, Hook, Note
  <2>3. QED
    BY <2>1, <2>2
<1>5. h \in todo[t] => h \in todo'[t] \/ h \in prepared' \/ (t = "ctl" /\ ctl = "apply")
  <2>1. CASE Prepare(t)
    <3>1. PICK g \in todo[t] :
              /\ todo' = [todo EXCEPT ![t] = todo[t] \ {g}]
              /\ Applying(t) \/ g \in registered \/ g \in prepared'
      BY <2>1, PrepareCases
    <3>2. QED
      BY <1>4, <3>1 DEF Types, Applying, Registered
  <2>2. CASE ~ Prepare(t)
    BY <2>2, HookerFrame
  <2>3. QED
    BY <2>1, <2>2
<1>6. QED
  BY <1>1, <1>2, <1>3, <1>4, <1>5, Threads DEF Claimed, Covered

LEMMA ClaimedStep ==
    ASSUME Types, Phases, Registered, Claimed, [Next]_vars PROVE Claimed'
<1>1. ASSUME NEW P \in SUBSET Handler, NEW M \in SUBSET Handler, Reconfigure(P, M) PROVE Claimed'
  BY <1>1 DEF Claimed, Covered, Reconfigure, Config, In
<1>2. CASE Disable \/ Load \/ UNCHANGED vars
  BY <1>2 DEF Claimed, Covered, Disable, Load, Config, In
<1>3. CASE Applied
  BY <1>3 DEF Claimed, Covered, Applied, Config, In
<1>4. QED
  BY Calls, <1>1, <1>2, <1>3, ClaimedByController, ClaimedByImport, ClaimedByHooker DEF Next, CtlStep

\* The controller works with the hookers of its phase.
LEMMA ControllerIdle ==
    ASSUME Types, Phases, ctl \notin {"modules", "apply"}
    PROVE  todo["ctl"] = {} /\ step["ctl"] = "next"
BY Threads DEF Phases, Busy, Mine

\* While hooks are applied at once, whoever prepares a handler adds it; what
\* was prepared before is on the controller's list.
LEMMA AppliesStep ==
    ASSUME Types, Phases, Applies, [Next]_vars PROVE Applies'
<1>1. ASSUME NEW P \in SUBSET Handler, NEW M \in SUBSET Handler, Reconfigure(P, M) PROVE Applies'
  BY <1>1 DEF Applies, Pending, Reconfigure
<1>2. CASE Disable
  BY <1>2 DEF Applies, Disable
<1>3. CASE Load \/ UNCHANGED vars
  BY <1>3 DEF Applies, Pending, Load
<1>4. CASE Replace
  BY <1>4 DEF Applies, Replace
<1>5. ASSUME NEW m \in Module, LookAt(m) PROVE Applies'
  BY <1>5 DEF Applies, LookAt
<1>6. CASE ApplyAll
  BY <1>6, Threads DEF Applies, Pending, ApplyAll, Types
<1>7. CASE Applied
  BY <1>7 DEF Applies, Pending, Applied
<1>8. ASSUME NEW m \in Module, FindSpec(m) \/ ImportStep(m) PROVE Applies'
  <2>1. todo'["ctl"] = todo["ctl"] /\ UNCHANGED << enabled, auto, ctl, prepared, members, job, step >>
    BY <1>8, Threads DEF FindSpec, ImportStep, EnterModules, Loaded, CallbackDone, Types
  <2>2. QED
    BY <2>1 DEF Applies, Pending
<1>9. ASSUME NEW t \in Thread, HookerStep(t) PROVE Applies'
  <2>1. UNCHANGED << enabled, auto, ctl >>
    BY <1>9, HookerFrame
  <2> SUFFICES ASSUME auto, ctl # "modules", NEW h \in prepared' PROVE Pending(h)'
    BY <2>1 DEF Applies
  <2>2. members \subseteq members'
    BY <1>9 DEF HookerStep, Prepare, ReadAuto, Add, Hook, Note
  <2>3. \A u \in Thread \ {t} : job'[u] = job[u] /\ step'[u] = step[u]
    BY <1>9, HookerFrame
  <2>4. CASE Prepare(t)
    <3>1. PICK g \in todo[t] :
            /\ step[t] = "next" /\ todo' = [todo EXCEPT ![t] = todo[t] \ {g}]
            /\ \/ /\ Applying(t)
                  /\ step' = [step EXCEPT ![t] = "add"] /\ job' = [job EXCEPT ![t] = g]
                  /\ UNCHANGED prepared
               \/ ~ Applying(t) /\ UNCHANGED << step, job, prepared >>
               \/ /\ ~ Applying(t)
                  /\ step' = [step EXCEPT ![t] = "auto"] /\ job' = [job EXCEPT ![t] = g]
                  /\ prepared' = prepared \cup {g}
      BY <2>4, PrepareCases
    <3>2. h \in prepared => Pending(h)
      BY DEF Applies
    <3>3. CASE h = g
      BY <2>1, <2>2, <2>3, <3>1, <3>2, <3>3, Threads DEF Pending, Types, Applying
    <3>4. CASE h # g
      BY <2>1, <2>2, <2>3, <3>1, <3>2, <3>4, Threads DEF Pending, Types, Applying
    <3>5. QED
      BY <3>3, <3>4
  <2>5. CASE ReadAuto(t)
    BY <2>1, <2>2, <2>3, <2>5 DEF ReadAuto, Applies, Pending, Types
  <2>6. CASE Add(t)
    <3>1. step[t] = "add" /\ UNCHANGED << job, prepared, todo >> /\ job[t] \in members'
      BY <2>6, AddCases
    <3>2. QED
      BY <2>1, <2>2, <2>3, <3>1 DEF Applies, Pending
  <2>7. CASE Hook(t) \/ Note(t)
    <3>1. step[t] \notin {"auto", "add"} /\ UNCHANGED << job, prepared, todo >>
      BY <2>7 DEF Hook, Note
    <3>2. QED
      BY <2>1, <2>2, <2>3, <3>1 DEF Applies, Pending
  <2>8. QED
    BY <1>9, <2>4, <2>5, <2>6, <2>7 DEF HookerStep
<1>10. QED
  BY Calls, <1>1, <1>2, <1>3, <1>4, <1>5, <1>6, <1>7, <1>8, <1>9 DEF Next, CtlStep

\* At rest every hooker has been worked off.
LEMMA Rest ==
    ASSUME Types, Phases, AtRest
    PROVE  ctl = "idle" /\ \A t \in Thread : todo[t] = {} /\ step[t] = "next"
BY Threads DEF AtRest, Phases, Busy, Mine

\* Covered, pending and in place: at rest that leaves the gaps of NoneMissed.
LEMMA InvNoneMissed ==
    ASSUME Inv PROVE NoneMissed
<1> SUFFICES ASSUME AtRest, enabled, NEW h \in Config, mod[Place(h)] = "loaded"
             PROVE  \/ h \in members /\ nodes[SymbolOf[h]] > 0
                    \/ h \in unseen
                    \/ h \in Pattern /\ In(Place(h), Config \cap Concrete) # {}
  BY DEF NoneMissed
<1>1. ctl = "idle" /\ \A t \in Thread : todo[t] = {} /\ step[t] = "next"
  BY Rest DEF Inv
<1>2. Place(h) \in Thread
  BY Places, Threads DEF Inv, Types, Config
<1>3. h \in prepared \/ h \in unseen \/ (h \in Pattern /\ In(Place(h), Config \cap Concrete) # {})
  BY <1>1, <1>2 DEF Inv, Claimed, Covered
<1>4. h \in prepared => h \in members
  BY <1>1 DEF Inv, Applies, Pending
<1>5. h \in members => nodes[SymbolOf[h]] > 0
  BY <1>1 DEF Inv, InPlace, AtHook
<1>6. QED
  BY <1>3, <1>4, <1>5

-----------------------------------------------------------------------------
(* No handler that is not configured stays. *)

\* What is prepared keeps its symbol in _applied_hooks until it is added.
LEMMA SymbolsStep ==
    ASSUME Types, Phases, SymbolsHeld, [Next]_vars PROVE SymbolsHeld'
<1>1. ASSUME NEW P \in SUBSET Handler, NEW M \in SUBSET Handler, Reconfigure(P, M) PROVE SymbolsHeld'
  BY <1>1 DEF SymbolsHeld, Reconfigure
<1>2. CASE Disable \/ Load \/ UNCHANGED vars
  BY <1>2 DEF SymbolsHeld, Disable, Load
<1>3. CASE Replace
  BY <1>3 DEF SymbolsHeld, Replace
<1>4. ASSUME NEW m \in Module, LookAt(m) PROVE SymbolsHeld'
  BY <1>4 DEF SymbolsHeld, LookAt
<1>5. CASE ApplyAll
  BY <1>5, Threads DEF SymbolsHeld, ApplyAll, Types
<1>6. CASE Applied
  BY <1>6 DEF SymbolsHeld, Applied
<1>7. ASSUME NEW m \in Module, FindSpec(m) \/ ImportStep(m) PROVE SymbolsHeld'
  <2>1. todo'["ctl"] = todo["ctl"] /\ UNCHANGED << ctl, prepared, members, symbols, job, step >>
    BY <1>7, Threads DEF FindSpec, ImportStep, EnterModules, Loaded, CallbackDone, Types
  <2>2. QED
    BY <2>1 DEF SymbolsHeld
<1>8. ASSUME NEW t \in Thread, HookerStep(t) PROVE SymbolsHeld'
  <2> SUFFICES ASSUME NEW h \in prepared' \ members'
               PROVE  \/ SymbolOf[h] \in symbols' \/ ctl' = "modules"
                      \/ ctl' = "apply" /\ (h \in todo'["ctl"] \/ (job'["ctl"] = h /\ step'["ctl"] = "add"))
    BY DEF SymbolsHeld
  <2>1. CASE Prepare(t)
    <3>1. PICK g \in todo[t] :
            /\ step[t] = "next" /\ todo' = [todo EXCEPT ![t] = todo[t] \ {g}]
            /\ UNCHANGED << ctl, members >>
            /\ \/ /\ Applying(t)
                  /\ step' = [step EXCEPT ![t] = "add"] /\ job' = [job EXCEPT ![t] = g]
                  /\ UNCHANGED << prepared, symbols >>
               \/ ~ Applying(t) /\ UNCHANGED << step, job, prepared, symbols >>
               \/ /\ ~ Applying(t)
                  /\ step' = [step EXCEPT ![t] = "auto"] /\ job' = [job EXCEPT ![t] = g]
                  /\ prepared' = prepared \cup {g}
                  /\ symbols' = symbols \cup {SymbolOf[g]}
      BY <2>1, PrepareCases
    <3>2. CASE h = g
      BY <3>1, <3>2, Threads DEF SymbolsHeld, Types, Applying
    <3>3. CASE h # g
      BY <3>1, <3>3, Threads DEF SymbolsHeld, Types, Applying
    <3>4. QED
      BY <3>2, <3>3
  <2>2. CASE ReadAuto(t) \/ Hook(t) \/ Note(t)
    <3>1. /\ step[t] # "add" /\ UNCHANGED << ctl, job, todo, prepared, members, symbols >>
          /\ \A u \in Thread \ {t} : step'[u] = step[u]
      BY <2>2 DEF ReadAuto, Hook, Note, Types
    <3>2. QED
      BY <3>1, Threads DEF SymbolsHeld
  <2>3. CASE Add(t)
    <3>1. /\ UNCHANGED << ctl, job, todo, prepared, symbols >> /\ job[t] \in members' /\ members \subseteq members'
          /\ \A u \in Thread \ {t} : step'[u] = step[u]
      BY <2>3, AddCases DEF Types
    <3>2. QED
      BY <3>1, Threads DEF SymbolsHeld
  <2>4. QED
    BY <1>8, <2>1, <2>2, <2>3 DEF HookerStep
<1>9. QED
  BY Calls, <1>1, <1>2, <1>3, <1>4, <1>5, <1>6, <1>7, <1>8 DEF Next, CtlStep

\* Replacing the configuration takes out what goes, or notes what it keeps.
LEMMA CurrentAtReplace ==
    ASSUME Types, Phases, Registered, SymbolsHeld, Current, Replace PROVE Current'
<1> SUFFICES ASSUME ~ stale'
             PROVE  /\ \A t \in Thread : todo'[t] \subseteq Managed'
                    /\ \A t \in Thread : step'[t] # "next" => job'[t] \in (Managed \cap registered)'
                    /\ ctl' = "apply" => todo'["ctl"] \subseteq prepared'
                    /\ prepared' \subseteq Managed'
                    /\ members' \subseteq (Config \cup kept)'
                    /\ \A h \in members' \cap Pattern : Removable(h)'
  BY DEF Current
<1>1. /\ ~ stale /\ ctl' = "modules" /\ ctl = "locked"
      /\ \A t \in Thread : todo[t] = {} /\ step[t] = "next" /\ todo'[t] = {} /\ step'[t] = "next"
  BY AtReplace DEF Busy
<1>2. /\ prepared \subseteq Managed /\ members \subseteq Config \cup kept
      /\ \A h \in members \cap Pattern : h \in kept \/ h \in registered \cap applied
  BY <1>1 DEF Current, Removable
<1>3. /\ Config' = NewConfig /\ kept \subseteq kept'
      /\ prepared' = prepared \ Gone /\ registered' = registered \ Gone /\ applied' = applied \ Gone
      /\ members' = members \ Recovered
  BY DEF Replace, Config, NewConfig
<1>4. ~ enabled => members \ NewConfig \subseteq kept'
  BY DEF Replace
<1>5. enabled /\ ~ Removes => (members \cap Pattern) \ NewConfig \subseteq kept'
  BY DEF Replace
<1>6. ~ Removes => \A h \in Config \cap Concrete : h \in NewConfig
  BY DEF Removes, ConcreteGone
<1>7. Removes => ConcreteGone \subseteq Gone /\ PatternsGone \subseteq Gone
  BY DEF Gone
<1>8. Gone \subseteq ConcreteGone \cup PatternsGone
  BY DEF Gone
<1>9. ASSUME NEW h \in prepared' PROVE h \in Managed'
  <2>1. h \in prepared /\ h \notin Gone /\ h \in Managed /\ h \in registered /\ h \in Handler
    BY <1>2, <1>3 DEF Registered, Types
  <2>2. CASE h \in Concrete
    <3>1. h \in Config
      BY <2>1, <2>2, HandlersAssumption DEF Managed
    <3>2. h \in NewConfig
      BY <1>6, <1>7, <2>1, <2>2, <3>1 DEF ConcreteGone
    <3>3. QED
      BY <1>3, <3>2 DEF Managed
  <2>3. CASE h \in Pattern /\ h \notin NewConfig
    <3>1. ~ Removes
      BY <1>7, <2>1, <2>3 DEF PatternsGone
    <3>2. SymbolOf[h] \notin symbols
      BY <2>3, <3>1, HandlersAssumption DEF Removes, SymbolsGone
    <3>3. h \in members
      BY <1>1, <2>1, <3>2 DEF SymbolsHeld
    <3>4. h \in kept'
      BY <1>4, <1>5, <2>3, <3>1, <3>3 DEF Types
    <3>5. QED
      BY <2>3, <3>4 DEF Managed
  <2>4. QED
    BY <1>3, <2>1, <2>2, <2>3, Places DEF Managed
<1>10. ASSUME NEW h \in members' PROVE h \in (Config \cup kept)'
  <2>1. h \in members /\ h \notin Recovered /\ h \in Config \cup kept /\ h \in Handler
    BY <1>2, <1>3 DEF Types
  <2> SUFFICES ASSUME h \notin NewConfig, h \notin kept' PROVE FALSE
    BY <1>3
  <2>2. enabled /\ h \in Config
    BY <1>3, <1>4, <2>1
  <2>3. CASE h \in Concrete
    <3>1. h \in ConcreteGone
      BY <2>2, <2>3 DEF ConcreteGone
    <3>2. h \in Gone
      BY <1>6, <1>7, <2>2, <2>3, <3>1
    <3>3. QED
      BY <2>1, <2>2, <2>3, <3>2 DEF Recovered
  <2>4. CASE h \in Pattern
    <3>1. Removes
      BY <1>5, <2>1, <2>2, <2>4
    <3>2. h \in registered \cap applied
      BY <1>2, <1>3, <2>1, <2>4
    <3>3. h \in Gone
      BY <1>7, <2>4, <3>1, <3>2 DEF PatternsGone
    <3>4. QED
      BY <2>1, <2>2, <3>2, <3>3 DEF Recovered
  <2>5. QED
    BY <2>1, <2>3, <2>4, Places
<1>11. ASSUME NEW h \in members' \cap Pattern PROVE h \in kept' \/ h \in registered' \cap applied'
  <2>1. h \in members /\ h \notin Recovered
    BY <1>3
  <2>2. CASE h \in kept
    BY <1>3, <2>2
  <2>3. CASE h \in registered \cap applied /\ h \in Gone
    <3>1. ~ enabled
      BY <2>1, <2>3 DEF Recovered
    <3>2. h \notin NewConfig
      BY <1>8, <2>3 DEF ConcreteGone, PatternsGone
    <3>3. QED
      BY <1>4, <2>1, <3>1, <3>2
  <2>4. CASE h \in registered \cap applied /\ h \notin Gone
    BY <1>3, <2>4
  <2>5. QED
    BY <1>2, <2>1, <2>2, <2>3, <2>4
<1>12. QED
  BY <1>1, <1>9, <1>10, <1>11 DEF Removable

\* A hooker adds what is managed, and notes it before it turns to the next.
LEMMA CurrentByHooker ==
    ASSUME Types, Phases, Registered, Current, NEW t \in Thread, HookerStep(t) PROVE Current'
<1> SUFFICES ASSUME ~ stale, ~ stale'
             PROVE  /\ \A u \in Thread : todo'[u] \subseteq Managed'
                    /\ \A u \in Thread : step'[u] # "next" => job'[u] \in (Managed \cap registered)'
                    /\ ctl' = "apply" => todo'["ctl"] \subseteq prepared'
                    /\ prepared' \subseteq Managed'
                    /\ members' \subseteq (Config \cup kept)'
                    /\ \A h \in members' \cap Pattern : Removable(h)'
  BY HookerFrame DEF Current
<1>1. /\ UNCHANGED << Config, ctl >>
      /\ \A u \in Thread \ {t} : todo'[u] = todo[u] /\ step'[u] = step[u] /\ job'[u] = job[u]
      /\ todo'[t] \subseteq todo[t]
  BY HookerFrame
<1>2. /\ \A u \in Thread : todo[u] \subseteq Managed
      /\ \A u \in Thread : step[u] # "next" => job[u] \in Managed \cap registered
      /\ ctl = "apply" => todo["ctl"] \subseteq prepared
      /\ prepared \subseteq Managed /\ members \subseteq Config \cup kept
      /\ \A h \in members \cap Pattern : Removable(h)
  BY DEF Current
<1>3. Managed' = Managed /\ Config \cup kept = (Config \cup kept)'
  BY <1>1 DEF HookerStep, Prepare, ReadAuto, Add, Hook, Note, Managed
<1>4. CASE Prepare(t)
  <2>1. PICK g \in todo[t] :
            /\ step[t] = "next" /\ UNCHANGED << members, applied, kept >>
            /\ \/ /\ Applying(t)
                  /\ step' = [step EXCEPT ![t] = "add"] /\ job' = [job EXCEPT ![t] = g]
                  /\ UNCHANGED << prepared, registered >>
               \/ UNCHANGED << step, job, prepared, registered >>
               \/ /\ step' = [step EXCEPT ![t] = "auto"] /\ job' = [job EXCEPT ![t] = g]
                  /\ prepared' = prepared \cup {g} /\ registered' = registered \cup {g}
    BY <1>4, PrepareCases
  <2>2. registered \subseteq registered' /\ prepared \subseteq prepared' /\ prepared' \subseteq prepared \cup {g}
    BY <2>1
  <2>3. step'[t] # "next" => job'[t] = g /\ g \in Managed \cap registered'
    BY <1>2, <2>1, Threads DEF Types, Applying, Registered
  <2>4. \A h \in members \cap Pattern : Removable(h)'
    BY <1>1, <1>2, <2>1, <2>2 DEF Removable
  <2>5. QED
    BY <1>1, <1>2, <1>3, <2>1, <2>2, <2>3, <2>4, Threads
<1>5. CASE ReadAuto(t) \/ Hook(t)
  <2>1. /\ step[t] \in {"auto", "hook"} /\ (step[t] = "hook" => step'[t] = "note")
        /\ UNCHANGED << members, applied, kept, prepared, registered, job >>
    BY <1>5 DEF ReadAuto, Hook, Types
  <2>2. \A h \in members \cap Pattern : Removable(h)'
    BY <1>1, <1>2, <2>1 DEF Removable
  <2>3. QED
    BY <1>1, <1>2, <1>3, <2>1, <2>2, Threads
<1>6. CASE Add(t)
  <2>1. /\ step[t] = "add" /\ UNCHANGED << applied, kept, prepared, registered, job >>
        /\ members' = members \/ (members' = members \cup {job[t]} /\ step'[t] = "hook")
    BY <1>6, AddCases DEF Types
  <2>2. job[t] \in Managed \cap registered
    BY <1>2, <2>1
  <2>3. \A h \in members' \cap Pattern : Removable(h)'
    BY <1>1, <1>2, <2>1, <2>2 DEF Removable
  <2>4. members' \subseteq Config \cup kept
    BY <1>2, <2>1, <2>2 DEF Managed
  <2>5. QED
    BY <1>1, <1>2, <1>3, <2>1, <2>2, <2>3, <2>4, Threads
<1>7. CASE Note(t)
  <2>1. /\ step[t] = "note" /\ UNCHANGED << members, prepared, registered, job >>
        /\ applied' = applied \cup {job[t]} /\ kept \subseteq kept' \cup {job[t]}
        /\ step'[t] = "next"
    BY <1>7 DEF Note, Types
  <2>2. job[t] \in registered
    BY <1>2, <2>1
  <2>3. \A h \in members' \cap Pattern : Removable(h)'
    <3> SUFFICES ASSUME NEW h \in members \cap Pattern PROVE Removable(h)'
      BY <2>1
    <3>1. CASE h = job[t]
      BY <2>1, <2>2, <3>1 DEF Removable
    <3>2. CASE h # job[t]
      BY <1>1, <1>2, <2>1, <3>2 DEF Removable
    <3>3. QED
      BY <3>1, <3>2
  <2>4. QED
    BY <1>1, <1>2, <1>3, <2>1, <2>2, <2>3, Threads
<1>8. QED
  BY <1>4, <1>5, <1>6, <1>7 DEF HookerStep

LEMMA CurrentStep ==
    ASSUME Types, Phases, Registered, SymbolsHeld, Current, [Next]_vars PROVE Current'
<1>1. CASE UNCHANGED << step, job, stale, prepared, registered, applied, kept, members, profiling, metrics >>
           /\ ~ stale
  <2>1. UNCHANGED << Config, Managed >>
    BY <1>1 DEF Config, Managed
  <2>2. \A h : Removable(h)' <=> Removable(h)
    BY <1>1 DEF Removable
  <2>3. \A t \in Thread : todo'[t] \subseteq Managed
    <3>1. ASSUME NEW m \in Module, LookAt(m) PROVE \A t \in Thread : todo'[t] \subseteq Managed
      <4>1. \A t \in Thread : todo'[t] \subseteq todo[t] \cup Config
        BY <3>1 DEF LookAt, Types, In, Registered
      <4>2. QED
        BY <1>1, <4>1 DEF Current, Managed
    <3>2. ASSUME NEW m \in Module, Loaded(m) PROVE \A t \in Thread : todo'[t] \subseteq Managed
      <4>1. \A t \in Thread : todo'[t] \subseteq todo[t] \cup Config
        BY <3>2 DEF Loaded, Types, In, Registered
      <4>2. QED
        BY <1>1, <4>1 DEF Current, Managed
    <3>3. CASE ApplyAll
      <4>1. \A t \in Thread : todo'[t] \subseteq todo[t] \cup prepared
        BY <3>3 DEF ApplyAll, Types
      <4>2. QED
        BY <1>1, <4>1 DEF Current
    <3>4. ASSUME NEW t \in Thread, HookerStep(t) PROVE \A u \in Thread : todo'[u] \subseteq Managed
      BY <1>1, <3>4, HookerFrame DEF Current
    <3>5. CASE UNCHANGED todo
      BY <1>1, <3>5 DEF Current
    <3>6. CASE Replace
      BY <1>1, <3>6 DEF Current, Replace
    <3>7. QED
      BY Calls, <3>1, <3>2, <3>3, <3>4, <3>5, <3>6
         DEF Next, CtlStep, ImportStep, Reconfigure, Disable, Load, Applied, FindSpec, EnterModules, CallbackDone
  <2>4. ctl' = "apply" => todo'["ctl"] \subseteq prepared
    <3>1. CASE ApplyAll
      BY <3>1, Threads DEF ApplyAll, Types
    <3>2. CASE ctl' = "apply" /\ ~ ApplyAll
      <4>1. ctl = "apply"
        BY <3>2, Calls, HookerFrame DEF Next, CtlStep, ImportStep, Reconfigure, Disable, Load, Replace, LookAt, Applied,
                                 FindSpec, EnterModules, Loaded, CallbackDone
      <4>2. todo'["ctl"] \subseteq todo["ctl"]
        <5>1. ASSUME NEW m \in Module, FindSpec(m) \/ ImportStep(m) PROVE todo'["ctl"] = todo["ctl"]
          BY <5>1, Threads DEF FindSpec, ImportStep, EnterModules, Loaded, CallbackDone, Types
        <5>2. ASSUME NEW t \in Thread, HookerStep(t) PROVE todo'["ctl"] \subseteq todo["ctl"]
          BY <5>2, HookerFrame, Threads
        <5>3. QED
          BY <3>2, <4>1, <5>1, <5>2, Calls DEF Next, CtlStep, Reconfigure, Disable, Load, Replace, LookAt, Applied
      <4>3. QED
        BY <1>1, <4>1, <4>2 DEF Current
    <3>3. QED
      BY <3>1, <3>2
  <2>5. QED
    BY <1>1, <2>1, <2>2, <2>3, <2>4 DEF Current
<1>2. CASE stale /\ stale' = stale
  BY <1>2 DEF Current
<1>3. QED
  BY <1>1, <1>2, Otherwise, CurrentAtReplace, CurrentByHooker DEF Types

\* At rest nobody is left to add anything.
LEMMA InvNoneLeft ==
    ASSUME Inv PROVE NoneLeft
BY DEF Inv, Current, NoneLeft

LEMMA InvHookedOnce ==
    ASSUME Inv PROVE HookedOnce
<1> SUFFICES ASSUME NEW s \in Symbol, ~ met, ~ stale PROVE ~ (nodes[s] + lost[s] > 1 \/ lost[s] > 0)
  BY DEF HookedOnce
<1>1. lost[s] = 0 /\ nodes[s] \in {0, 1}
  BY DEF Inv, Single
<1>2. QED
  BY <1>1

-----------------------------------------------------------------------------
(* The theorems. *)

\* Every step keeps the invariant.
LEMMA NextInv ==
    ASSUME Inv, [Next]_vars PROVE Inv'
BY TypesStep, PhasesStep, ForgotStep, SingleStep, InPlaceStep, RegisteredStep, ClaimedStep, AppliesStep,
   SymbolsStep, CurrentStep DEF Inv

LEMMA SpecInv == Spec => []Inv
<1>1. Init => Inv
  BY InitInv
<1>2. Inv /\ [Next]_vars => Inv'
  BY NextInv
<1>3. QED
  BY <1>1, <1>2, PTL DEF Spec

\* However many modules are imported while the controller enables, updates and
\* disables the hooks, no function is hooked twice and no hook is lost (a
\* manager deleted while a thread was hooking for it), unless two threads added
\* handlers of one symbol at a time, or an import went on with a configuration
\* that had been replaced: add_handler and load_handlers of symbol_watcher.py
\* and module_hook.py, for every set of modules, handlers and configurations.
THEOREM HooksOnce == Spec => []HookedOnce
<1>1. Inv => HookedOnce
  BY InvHookedOnce
<1>2. QED
  BY <1>1, SpecInv, PTL

\* When the controller and the imports have come to rest with hooks enabled,
\* every configured handler of a loaded module has been added and its function
\* is hooked, whatever order the imports, the list of loaded modules and the
\* loading of the configuration took, but for the two gaps NoneMissed names.
THEOREM NoHandlerMissed == Spec => []NoneMissed
<1>1. Inv => NoneMissed
  BY InvNoneMissed
<1>2. QED
  BY <1>1, SpecInv, PTL

\* At rest with hooks enabled, what load_handlers dropped from the configuration
\* has been taken out, but for what was dropped while the hooks were disabled,
\* patterns dropped alone, and what an import added after its configuration had
\* been replaced.
THEOREM NoHandlerLeft == Spec => []NoneLeft
<1>1. Inv => NoneLeft
  BY InvNoneLeft
<1>2. QED
  BY <1>1, SpecInv, PTL

-----------------------------------------------------------------------------
(***************************************************************************)
(* The calls of a hooked function, for every set of calls and every        *)
(* failure limit: how often the original is run (RunOnce), what the caller *)
(* gets (OwnOutcome) and when a failing hook is gone (GivenUp).            *)
(*                                                                         *)
(* The invariant follows a call that has met no other (Solo): the tracker  *)
(* and the chain's last result, which all calls share, hold what this call *)
(* put there.  A call that overlaps another is only known never to hold an *)
(* exception of hook code but where the wrapper is about to deal with it.  *)
(***************************************************************************)

Values == { Value(d) : d \in Call }
Errors == { Error(d) : d \in Call }
CallPlaces == {"idle", "entry", "bare", "original", "reset", "decide", "check", "run", "store", "read",
           "got", "except", "leave", "done"}

CallTypes ==
    /\ async \in BOOLEAN /\ chained \in BOOLEAN /\ wraps \in BOOLEAN /\ hooked \in BOOLEAN
    /\ chained => ~ async
    /\ does \in [Call -> {"value", "none", "error"}]
    /\ pc \in [Call -> CallPlaces]
    /\ via \in [Call -> {"hook", "fallback", "direct", "bare"}]
    /\ out \in [Call -> Values \cup Errors \cup {NoneValue, HookError, TypeErr, NoResult}]
    /\ executed \in BOOLEAN
    /\ result \in Values \cup {NoneValue}
    /\ exception \in Errors \cup {NoResult}
    /\ last \in Values \cup Errors \cup {NoneValue, NoResult}
    /\ failures \in Nat
    /\ runs \in [Call -> Nat]
    /\ late \in [Call -> BOOLEAN]
    /\ overlapped \in [Call -> BOOLEAN]

\* Where a call may hold an exception of hook code, and who called the tracker.
Contained(c) ==
    /\ out[c] = HookError => pc[c] = "except" \/ (via[c] = "fallback" /\ pc[c] \in {"check", "run"})
    /\ pc[c] = "except" => via[c] = "hook"
    /\ via[c] = "hook" /\ pc[c] \in {"check", "store", "read"} => wraps
    /\ pc[c] = "store" => out[c] = Does(c)
    /\ pc[c] = "read" => ~ async

\* What the tracker holds before the original has run, and after.
Fresh == ~ executed /\ result = NoneValue /\ exception = NoResult
Stored(c) ==
    /\ executed
    /\ IF does[c] = "error" THEN exception = Does(c) /\ result = NoneValue
                            ELSE result = Does(c) /\ exception = NoResult

Chain(r) == chained => last = r
Unrun(c) == runs[c] = 0 /\ ~ late[c]
First(c) == Unrun(c) /\ Fresh /\ Chain(NoResult)

\* The original has run, and the call goes to it once more.
Again(c) ==
    /\ runs[c] = 1
    /\ Chain(Does(c))
    /\ \/ wraps /\ late[c] /\ does[c] # "error" /\ Stored(c)
       \/ ~ wraps /\ ~ late[c] /\ does[c] = "error" /\ Fresh

Counted(c) ==
    \/ runs[c] = 1
    \/ runs[c] = 2 /\ wraps /\ late[c] /\ does[c] = "none"
    \/ runs[c] = 2 /\ ~ wraps /\ does[c] = "error"
    \/ runs[c] = 2 /\ via[c] = "bare" /\ does[c] = "error"
Ours(c) == out[c] = Does(c) \/ (out[c] = TypeErr /\ async /\ late[c] /\ does[c] = "value")
OnlyRun(c) == via[c] = "hook" => runs[c] = 1 /\ ~ late[c]

\* The chain without a node has run the original, which raised.
Bared(c) == runs[c] = 1 /\ via[c] = "bare" /\ does[c] = "error"

\* A call that has met no other, at each place.
Solo(c) ==
    /\ pc[c] \in {"idle", "entry"} => Unrun(c)
    /\ pc[c] = "original" => Unrun(c) \/ Bared(c)
    /\ pc[c] \in {"bare", "reset"} => Unrun(c) /\ Chain(NoResult)
    /\ pc[c] = "bare" => chained /\ via[c] = "bare"
    /\ pc[c] = "decide" => First(c)
    /\ pc[c] = "check" => First(c) \/ (via[c] = "fallback" /\ Again(c))
    /\ pc[c] = "run" => First(c) \/ (via[c] = "fallback" /\ Again(c) /\ ~ Cached)
    /\ pc[c] \in {"store", "read", "got", "leave", "done"} => Counted(c)
    /\ pc[c] \in {"store", "read", "got"} => Chain(Does(c))
    /\ pc[c] = "leave" => Chain(Does(c)) \/ (chained /\ last = NoResult /\ runs[c] = 1 /\ via[c] = "bare")
    /\ pc[c] \in {"store", "read", "got"} => OnlyRun(c)
    /\ pc[c] = "store" => result = NoneValue /\ exception = NoResult
    /\ pc[c] = "read" => Stored(c) /\ does[c] # "error"
    /\ pc[c] = "got" /\ via[c] = "hook" =>
        out[c] = Does(c) /\ IF wraps THEN Stored(c) ELSE Fresh
    /\ pc[c] = "except" =>
        \/ out[c] = HookError /\ wraps /\ (First(c) \/ Again(c))
        \/ out[c] = Does(c) /\ does[c] = "error" /\ runs[c] = 1 /\ ~ late[c] /\ Chain(Does(c))
           /\ IF wraps THEN Stored(c) ELSE Fresh
    /\ pc[c] \in {"got", "leave", "done"} => Ours(c)

\* Who has met no other is alone.
Apart == \A c, d \in Call : c # d /\ c \in Active /\ d \in Active => overlapped[c]

\* A hook that has failed too often is gone, or a call that saw it fail will see to that.
Answering(c) == via[c] = "fallback" /\ pc[c] \in {"check", "run", "store", "read", "got"}
Watched == hooked /\ failures >= MaxFailures => \E c \in Call : Answering(c)

CallInv ==
    /\ CallTypes
    /\ \A c \in Call : Contained(c)
    /\ \A c \in Call : ~ overlapped[c] => Solo(c)
    /\ Apart
    /\ Watched

-----------------------------------------------------------------------------
(* Outcomes of different kinds are different.                              *)

LEMMA Kinds ==
    /\ NoneValue # HookError /\ NoneValue # TypeErr /\ NoneValue # NoResult
    /\ HookError # TypeErr /\ HookError # NoResult /\ TypeErr # NoResult
    /\ ~ Raised(NoneValue) /\ ~ Raised(NoResult) /\ Raised(HookError) /\ Raised(TypeErr)
    /\ \A d \in Call : /\ Value(d) \notin {NoneValue, HookError, TypeErr, NoResult} /\ ~ Raised(Value(d))
                       /\ Error(d) \notin {NoneValue, HookError, TypeErr, NoResult} /\ Raised(Error(d))
    /\ \A r \in Values : r \notin {NoneValue, HookError, TypeErr, NoResult} /\ ~ Raised(r)
    /\ \A r \in Errors : r \notin {NoneValue, HookError, TypeErr, NoResult} /\ Raised(r)
<1>1. /\ NoneValue.kind = "none" /\ HookError.kind = "hook_error" /\ TypeErr.kind = "type_error"
      /\ NoResult.kind = "no_result"
      /\ \A d \in Call : Value(d).kind = "value" /\ Error(d).kind = "error"
  BY DEF NoneValue, HookError, TypeErr, NoResult, Value, Error
<1> QED BY <1>1 DEF Raised, Values, Errors

\* What the original does, by the kind of it.
LEMMA DoesKinds ==
    ASSUME CallTypes, NEW c \in Call
    PROVE  /\ Does(c) \in Values \cup Errors \cup {NoneValue}
           /\ Does(c) \notin {HookError, TypeErr, NoResult}
           /\ Raised(Does(c)) <=> does[c] = "error"
           /\ does[c] = "error" => Does(c) \in Errors
           /\ does[c] # "error" => Does(c) \in Values \cup {NoneValue}
           /\ does[c] # "error" => (Does(c) = NoneValue <=> does[c] = "none")
           /\ does[c] \in {"value", "none", "error"}
<1>1. does[c] \in {"value", "none", "error"}
  BY DEF CallTypes
<1>2. CASE does[c] = "value"
  BY <1>2, Kinds DEF Does, Values
<1>3. CASE does[c] = "none"
  BY <1>3, Kinds DEF Does
<1>4. CASE does[c] = "error"
  BY <1>4, Kinds DEF Does, Errors
<1> QED BY <1>1, <1>2, <1>3, <1>4

LEMMA CallInitInv == ASSUME CallInit PROVE CallInv
<1>1. CallTypes
  BY DEF CallTypes, CallInit, CallPlaces
<1>2. \A c \in Call : Contained(c)
  BY Kinds DEF Contained, CallInit
<1>3. \A c \in Call : Solo(c)
  BY DEF Solo, Unrun, CallInit
<1>4. Apart
  BY DEF Apart, Active, CallInit
<1>5. Watched
  BY MaxFailuresAssumption DEF Watched, CallInit
<1> QED BY <1>1, <1>2, <1>3, <1>4, <1>5 DEF CallInv

-----------------------------------------------------------------------------
(* What a step of one call does to the others.                             *)

\* A step of c that is under way: it changes nothing but c's own state, the
\* tracker, the last result, the count and the wrapper.
Within(c) ==
    /\ c \in Active
    /\ UNCHANGED << kindVars, does, overlapped >>
    /\ \A d \in Call \ {c} : /\ pc'[d] = pc[d] /\ via'[d] = via[d] /\ out'[d] = out[d]
                             /\ runs'[d] = runs[d] /\ late'[d] = late[d]

LEMMA OthersKept ==
    ASSUME CallInv, NEW c \in Call, Within(c), NEW d \in Call, d # c
    PROVE  Contained(d)' /\ (~ overlapped'[d] => Solo(d)')
<1>1. /\ pc'[d] = pc[d] /\ via'[d] = via[d] /\ out'[d] = out[d] /\ runs'[d] = runs[d]
      /\ late'[d] = late[d] /\ overlapped'[d] = overlapped[d] /\ does' = does
      /\ async' = async /\ wraps' = wraps /\ chained' = chained
  BY DEF Within, kindVars
<1>2. Contained(d)'
  BY <1>1 DEF Contained, Does, CallInv
<1>3. ASSUME ~ overlapped'[d] PROVE Solo(d)'
  <2>1. Solo(d) /\ pc[d] \in {"idle", "done"}
    BY <1>1, <1>3 DEF CallInv, Apart, Active, Within
  <2>2. CASE pc[d] = "idle"
    BY <1>1, <2>1, <2>2 DEF Solo, Unrun
  <2>3. CASE pc[d] = "done"
    BY <1>1, <2>1, <2>3 DEF Solo, Counted, Ours, Does
  <2> QED BY <2>1, <2>2, <2>3
<1> QED BY <1>2, <1>3

LEMMA ApartKept == ASSUME CallInv, NEW c \in Call, Within(c) PROVE Apart'
  BY DEF CallInv, Apart, Active, Within

\* The step is not the one that counts a failure or gives the hook up.
LEMMA WatchKept ==
    ASSUME CallInv, NEW c \in Call, Within(c), Answering(c) => Answering(c)',
           hooked' = hooked, failures' = failures
    PROVE  Watched'
<1>1. \A d \in Call : Answering(d) => Answering(d)'
  BY DEF Within, Answering
<1> QED BY <1>1 DEF CallInv, Watched

LEMMA StepInv ==
    ASSUME CallInv, NEW c \in Call, Within(c), CallTypes', Contained(c)',
           ~ overlapped[c] => Solo(c)', Watched'
    PROVE  CallInv'
<1>1. overlapped' = overlapped
  BY DEF Within
<1> QED BY <1>1, OthersKept, ApartKept DEF CallInv

LEMMA DoesKept == ASSUME NEW c \in Call, does' = does PROVE Does(c)' = Does(c)
  BY DEF Does

-----------------------------------------------------------------------------
(* The steps, one by one.                                                  *)

LEMMA EnterChainInv == ASSUME CallInv, NEW c \in Call, EnterChain(c) PROVE CallInv'
<1> USE DEF EnterChain, Move, Goto, Hold, Via, Runs, Unmoved, kindVars, trackVars, callHistory
<1>1. Within(c)
  BY DEF Within, Active, CallInv, CallTypes
<1>2. CallTypes'
  BY DoesKinds DEF CallInv, CallTypes, CallPlaces
<1>3. Contained(c)'
  BY Kinds, DoesKinds, DoesKept DEF CallInv, CallTypes, Contained
<1>4. ASSUME ~ overlapped[c] PROVE Solo(c)'
  BY <1>4 DEF CallInv, CallTypes, Solo, Unrun, Chain
<1>5. Watched'
  BY <1>1, WatchKept DEF Answering, CallInv, CallTypes
<1> QED BY <1>1, <1>2, <1>3, <1>4, <1>5, StepInv

LEMMA OriginalInv == ASSUME CallInv, NEW c \in Call, Original(c) PROVE CallInv'
<1> USE DEF Original, Move, Goto, Hold, Via, Runs, Unmoved, kindVars, trackVars, callHistory
<1>1. Within(c)
  BY DEF Within, Active, CallInv, CallTypes
<1>2. CallTypes'
  BY DoesKinds DEF CallInv, CallTypes, CallPlaces
<1>3. Contained(c)'
  BY Kinds, DoesKinds, DoesKept DEF CallInv, CallTypes, Contained
<1>4. ASSUME ~ overlapped[c] PROVE Solo(c)'
  BY <1>4, DoesKept DEF CallInv, CallTypes, Solo, Unrun, Bared, Counted, Ours
<1>5. Watched'
  BY <1>1, WatchKept DEF Answering, CallInv, CallTypes
<1> QED BY <1>1, <1>2, <1>3, <1>4, <1>5, StepInv

LEMMA BareInv == ASSUME CallInv, NEW c \in Call, Bare(c) PROVE CallInv'
<1> USE DEF Bare, Move, Goto, Hold, Via, Runs, Unmoved, kindVars, trackVars, callHistory
<1>1. Within(c)
  BY DEF Within, Active, CallInv, CallTypes
<1>2. CallTypes'
  BY DoesKinds DEF CallInv, CallTypes, CallPlaces
<1>3. Contained(c)'
  BY Kinds, DoesKinds, DoesKept DEF CallInv, CallTypes, Contained
<1>4. ASSUME ~ overlapped[c] PROVE Solo(c)'
  BY <1>4, DoesKept DEF CallInv, CallTypes, Solo, Unrun, Chain, Counted, Ours
<1>5. Watched'
  BY <1>1, WatchKept DEF Answering, CallInv, CallTypes
<1> QED BY <1>1, <1>2, <1>3, <1>4, <1>5, StepInv

LEMMA ResetInv == ASSUME CallInv, NEW c \in Call, Reset(c) PROVE CallInv'
<1> USE DEF Reset, Move, Goto, Hold, Via, Runs, Unmoved, kindVars, trackVars, callHistory
<1>1. Within(c)
  BY DEF Within, Active, CallInv, CallTypes
<1>2. CallTypes'
  BY DoesKinds DEF CallInv, CallTypes, CallPlaces
<1>3. Contained(c)'
  BY Kinds, DoesKinds, DoesKept DEF CallInv, CallTypes, Contained
<1>4. ASSUME ~ overlapped[c] PROVE Solo(c)'
  BY <1>4 DEF CallInv, CallTypes, Solo, Unrun, First, Fresh, Chain
<1>5. Watched'
  BY <1>1, WatchKept DEF Answering, CallInv, CallTypes
<1> QED BY <1>1, <1>2, <1>3, <1>4, <1>5, StepInv

LEMMA DecideInv == ASSUME CallInv, NEW c \in Call, Decide(c) PROVE CallInv'
<1> USE DEF Decide, Move, Goto, Hold, Via, Runs, Unmoved, kindVars, trackVars, callHistory
<1>1. Within(c)
  BY DEF Within, Active, CallInv, CallTypes
<1>2. CallTypes'
  BY DoesKinds DEF CallInv, CallTypes, CallPlaces
<1>3. Contained(c)'
  BY Kinds, DoesKinds, DoesKept DEF CallInv, CallTypes, Contained
<1>4. ASSUME ~ overlapped[c] PROVE Solo(c)'
  BY <1>4 DEF CallInv, CallTypes, Solo, Unrun, First, Fresh, Chain
<1>5. Watched'
  BY <1>1, WatchKept DEF Answering, CallInv, CallTypes
<1> QED BY <1>1, <1>2, <1>3, <1>4, <1>5, StepInv

LEMMA FailBeforeInv == ASSUME CallInv, NEW c \in Call, FailBefore(c) PROVE CallInv'
<1> USE DEF FailBefore, Move, Goto, Hold, Via, Runs, Unmoved, kindVars, trackVars, callHistory
<1>1. Within(c)
  BY DEF Within, Active, CallInv, CallTypes
<1>2. CallTypes'
  BY DoesKinds DEF CallInv, CallTypes, CallPlaces
<1>3. Contained(c)'
  BY Kinds, DoesKinds, DoesKept DEF CallInv, CallTypes, Contained
<1>4. ASSUME ~ overlapped[c] PROVE Solo(c)'
  BY <1>4 DEF CallInv, CallTypes, Solo, Unrun, First, Fresh, Chain
<1>5. Watched'
  BY <1>1, WatchKept DEF Answering, CallInv, CallTypes
<1> QED BY <1>1, <1>2, <1>3, <1>4, <1>5, StepInv

LEMMA FailAfterInv == ASSUME CallInv, NEW c \in Call, FailAfter(c) PROVE CallInv'
<1> USE DEF FailAfter, Move, Goto, Hold, Via, Runs, Unmoved, kindVars, trackVars, callHistory
<1>1. Within(c)
  BY DEF Within, Active, CallInv, CallTypes
<1>2. CallTypes'
  BY DoesKinds DEF CallInv, CallTypes, CallPlaces
<1>3. Contained(c)'
  BY Kinds, DoesKinds, DoesKept DEF CallInv, CallTypes, Contained
<1>4. ASSUME ~ overlapped[c] PROVE Solo(c)'
  BY <1>4, DoesKinds, DoesKept DEF CallInv, CallTypes, Solo, Again, Chain, Stored, OnlyRun
<1>5. Watched'
  BY <1>1, WatchKept DEF Answering, CallInv, CallTypes
<1> QED BY <1>1, <1>2, <1>3, <1>4, <1>5, StepInv

LEMMA CheckInv == ASSUME CallInv, NEW c \in Call, Check(c) PROVE CallInv'
<1> USE DEF Check, Move, Goto, Hold, Unmoved, kindVars, trackVars, callHistory
<1>1. Within(c)
  BY DEF Within, Active, CallInv, CallTypes
<1>2. Cached => Answer \in Values \cup Errors \cup {TypeErr}
  BY DEF CallInv, CallTypes, Answer, Cached
<1>3. CallTypes'
  BY <1>2 DEF CallInv, CallTypes, CallPlaces
<1>4. Contained(c)'
  BY <1>2, Kinds DEF CallInv, CallTypes, Contained
<1>5. ASSUME ~ overlapped[c] PROVE Solo(c)'
  BY <1>5, DoesKinds, DoesKept
  DEF CallInv, CallTypes, Solo, Unrun, First, Fresh, Again, Bared, Chain, Stored, Counted, Ours, OnlyRun, Cached,
      Answer
<1>6. Watched'
  BY <1>1, WatchKept DEF Answering, CallInv, CallTypes
<1> QED BY <1>1, <1>3, <1>4, <1>5, <1>6, StepInv

LEMMA RunInv == ASSUME CallInv, NEW c \in Call, Run(c) PROVE CallInv'
<1> USE DEF Run, Move, Goto, Hold, Via, Runs, Unmoved, kindVars, trackVars, callHistory
<1>1. Within(c)
  BY DEF Within, Active, CallInv, CallTypes
<1>2. CallTypes'
  BY DoesKinds DEF CallInv, CallTypes, CallPlaces
<1>3. Contained(c)'
  BY Kinds, DoesKinds, DoesKept DEF CallInv, CallTypes, Contained
<1>4. ASSUME ~ overlapped[c] PROVE Solo(c)'
  BY <1>4, DoesKinds, DoesKept
  DEF CallInv, CallTypes, Solo, Unrun, First, Fresh, Again, Bared, Chain, Stored, Counted, Ours, OnlyRun, Cached
<1>5. Watched'
  BY <1>1, WatchKept DEF Answering, CallInv, CallTypes
<1> QED BY <1>1, <1>2, <1>3, <1>4, <1>5, StepInv

LEMMA StoreInv == ASSUME CallInv, NEW c \in Call, Store(c) PROVE CallInv'
<1> USE DEF Store, Move, Goto, Hold, Via, Runs, Unmoved, kindVars, trackVars, callHistory
<1>1. Within(c)
  BY DEF Within, Active, CallInv, CallTypes
<1>2. CallTypes'
  BY DoesKinds DEF CallInv, CallTypes, CallPlaces, Contained
<1>3. Contained(c)'
  BY Kinds, DoesKinds, DoesKept DEF CallInv, CallTypes, Contained
<1>4. ASSUME ~ overlapped[c] PROVE Solo(c)'
  BY <1>4, DoesKinds, DoesKept
  DEF CallInv, CallTypes, Contained, Solo, Chain, Stored, Counted, Ours, OnlyRun
<1>5. Watched'
  BY <1>1, WatchKept DEF Answering, CallInv, CallTypes
<1> QED BY <1>1, <1>2, <1>3, <1>4, <1>5, StepInv

LEMMA ReadInv == ASSUME CallInv, NEW c \in Call, Read(c) PROVE CallInv'
<1> USE DEF Read, Move, Goto, Hold, Via, Runs, Unmoved, kindVars, trackVars, callHistory
<1>1. Within(c)
  BY DEF Within, Active, CallInv, CallTypes
<1>2. CallTypes'
  BY DoesKinds DEF CallInv, CallTypes, CallPlaces
<1>3. Contained(c)'
  BY Kinds, DoesKinds, DoesKept DEF CallInv, CallTypes, Contained
<1>4. ASSUME ~ overlapped[c] PROVE Solo(c)'
  BY <1>4, DoesKept DEF CallInv, CallTypes, Contained, Solo, Chain, Stored, Counted, Ours, OnlyRun
<1>5. Watched'
  BY <1>1, WatchKept DEF Answering, CallInv, CallTypes
<1> QED BY <1>1, <1>2, <1>3, <1>4, <1>5, StepInv

LEMMA FromHookInv == ASSUME CallInv, NEW c \in Call, FromHook(c) PROVE CallInv'
<1> USE DEF FromHook, Move, Goto, Hold, Via, Runs, Unmoved, kindVars, trackVars, callHistory
<1>1. Within(c)
  BY DEF Within, Active, CallInv, CallTypes
<1>2. CallTypes'
  BY DoesKinds DEF CallInv, CallTypes, CallPlaces
<1>3. Contained(c)'
  BY Kinds, DoesKinds, DoesKept DEF CallInv, CallTypes, Contained
<1>4. ASSUME ~ overlapped[c] PROVE Solo(c)'
  BY <1>4, DoesKinds, DoesKept DEF CallInv, CallTypes, Solo, Fresh, Chain, Stored, Counted, Ours, OnlyRun
<1>5. Watched'
  BY <1>1, WatchKept DEF Answering, CallInv, CallTypes
<1> QED BY <1>1, <1>2, <1>3, <1>4, <1>5, StepInv

LEMMA LeaveInv == ASSUME CallInv, NEW c \in Call, Leave(c) PROVE CallInv'
<1> USE DEF Leave, Move, Goto, Hold, Via, Runs, Unmoved, kindVars, trackVars, callHistory
<1>1. Within(c)
  BY DEF Within, Active, CallInv, CallTypes
<1>2. CallTypes'
  BY DoesKinds DEF CallInv, CallTypes, CallPlaces
<1>3. Contained(c)'
  BY Kinds, DoesKinds, DoesKept DEF CallInv, CallTypes, Contained
<1>4. ASSUME ~ overlapped[c] PROVE Solo(c)'
  BY <1>4, DoesKinds, DoesKept DEF CallInv, CallTypes, Solo, Bared, Chain, Counted, Ours
<1>5. Watched'
  BY <1>1, WatchKept DEF Answering, CallInv, CallTypes
<1> QED BY <1>1, <1>2, <1>3, <1>4, <1>5, StepInv

\* The call that sees the hook fail is itself one the wrapper still has to answer.
LEMMA ExceptInv == ASSUME CallInv, NEW c \in Call, Except(c) PROVE CallInv'
<1> USE DEF Except, OwnError, Move, Goto, Via, Unmoved, kindVars, trackVars, callHistory
<1>1. Within(c)
  BY DEF Within, Active, CallInv, CallTypes
<1>2. CallTypes'
  BY DEF CallInv, CallTypes, CallPlaces
<1>3. Contained(c)'
  BY Kinds DEF CallInv, CallTypes, Contained
<1>4. ASSUME ~ overlapped[c] PROVE Solo(c)'
  BY <1>4, Kinds, DoesKept
  DEF CallInv, CallTypes, Solo, Unrun, First, Fresh, Again, Chain, Stored, Counted, Ours
<1>5. Watched'
  <2>1. CASE executed /\ exception = out[c]
    <3>1. pc[c] = "except" /\ hooked' = hooked /\ failures' = failures
      BY <2>1
    <3> QED BY <1>1, <3>1, WatchKept DEF Answering
  <2>2. CASE ~ (executed /\ exception = out[c])
    <3>1. Answering(c)'
      BY <2>2 DEF Answering, CallInv, CallTypes
    <3> QED BY <3>1 DEF Watched
  <2> QED BY <2>1, <2>2
<1> QED BY <1>1, <1>2, <1>3, <1>4, <1>5, StepInv

\* Whoever leaves the fallback with too many failures takes the hook away.
LEMMA FromFallbackInv == ASSUME CallInv, NEW c \in Call, FromFallback(c) PROVE CallInv'
<1> USE DEF FromFallback, Move, Goto, Unmoved, kindVars, trackVars, callHistory
<1>1. Within(c)
  BY DEF Within, Active, CallInv, CallTypes
<1>2. CallTypes'
  BY DEF CallInv, CallTypes, CallPlaces
<1>3. Contained(c)'
  BY Kinds DEF CallInv, CallTypes, Contained
<1>4. ASSUME ~ overlapped[c] PROVE Solo(c)'
  BY <1>4, DoesKept DEF CallInv, CallTypes, Solo, Chain, Counted, Ours
<1>5. Watched'
  <2>1. CASE via[c] = "fallback" /\ GiveUp
    <3>1. hooked' = FALSE
      BY <2>1
    <3> QED BY <3>1 DEF Watched
  <2>2. CASE via[c] # "fallback"
    <3>1. hooked' = hooked /\ failures' = failures /\ ~ Answering(c)
      BY <2>2 DEF Answering, CallInv, CallTypes
    <3> QED BY <1>1, <3>1, WatchKept
  <2>3. CASE ~ GiveUp
    <3>1. failures' = failures /\ ~ (failures >= MaxFailures)
      BY <2>3 DEF GiveUp
    <3> QED BY <3>1 DEF Watched
  <2> QED BY <2>1, <2>2, <2>3
<1> QED BY <1>1, <1>2, <1>3, <1>4, <1>5, StepInv

\* A call that starts while another is under way makes both meet.
LEMMA StartInv == ASSUME CallInv, NEW c \in Call, Start(c) PROVE CallInv'
<1> USE DEF Start, Goto, Unmoved, kindVars, trackVars
<1>1. \A d \in Call : overlapped'[d] = (overlapped[d] \/ (Active # {} /\ d \in Active \cup {c}))
  OBVIOUS
<1>2. /\ pc[c] = "idle" /\ pc' \in [Call -> CallPlaces] /\ pc'[c] \in {"entry", "reset"}
      /\ pc'[c] = "reset" => ~ chained
      /\ \A d \in Call \ {c} : pc'[d] = pc[d]
  BY DEF CallInv, CallTypes, CallPlaces
<1>3. CallTypes'
  BY <1>2 DEF CallInv, CallTypes
<1>4. ASSUME NEW d \in Call PROVE Contained(d)'
  <2>1. CASE d = c
    BY <2>1, <1>2, Kinds DEF CallInv, Contained
  <2>2. CASE d # c
    BY <2>2, <1>2, DoesKept DEF CallInv, Contained
  <2> QED BY <2>1, <2>2
<1>5. ASSUME NEW d \in Call, ~ overlapped'[d] PROVE Solo(d)'
  <2>1. ~ overlapped[d] /\ Solo(d)
    BY <1>1, <1>5 DEF CallInv
  <2>2. CASE d = c
    BY <2>1, <2>2 DEF Solo, Unrun, Chain
  <2>3. CASE d # c
    <3>1. pc'[d] = pc[d] /\ pc[d] \in {"idle", "done"}
      BY <1>1, <1>2, <1>5, <2>3 DEF Active
    <3>2. CASE pc[d] = "idle"
      BY <2>1, <3>1, <3>2 DEF Solo, Unrun
    <3>3. CASE pc[d] = "done"
      BY <2>1, <3>3, DoesKept DEF Solo, Counted, Ours
    <3> QED BY <3>1, <3>2, <3>3
  <2> QED BY <2>2, <2>3
<1>6. Apart'
  <2> SUFFICES ASSUME NEW d \in Call, NEW e \in Call, d # e, d \in Active', e \in Active'
               PROVE  overlapped'[d]
    BY DEF Apart
  <2>1. d # c => d \in Active
    BY <1>2 DEF Active
  <2>2. e # c => e \in Active
    BY <1>2 DEF Active
  <2> QED BY <2>1, <2>2, <1>1
<1>7. Watched'
  <2>1. \A d \in Call : Answering(d) => Answering(d)'
    BY <1>2 DEF Answering
  <2> QED BY <2>1 DEF CallInv, Watched
<1> QED BY <1>3, <1>4, <1>5, <1>6, <1>7 DEF CallInv

LEMMA StutterInv == ASSUME CallInv, UNCHANGED callVars PROVE CallInv'
<1> USE DEF callVars, kindVars, trackVars, callHistory
<1>1. CallTypes'
  BY DEF CallInv, CallTypes
<1>2. ASSUME NEW c \in Call PROVE Contained(c)'
  BY DoesKept DEF CallInv, Contained
<1>3. ASSUME NEW c \in Call, ~ overlapped'[c] PROVE Solo(c)'
  BY <1>3, DoesKept
  DEF CallInv, Solo, Unrun, First, Fresh, Again, Bared, Chain, Stored, Counted, Ours, OnlyRun, Cached
<1>4. Apart' /\ Watched'
  BY DEF CallInv, Apart, Active, Watched, Answering
<1> QED BY <1>1, <1>2, <1>3, <1>4 DEF CallInv

LEMMA CallNextInv == ASSUME CallInv, [CallNext]_callVars PROVE CallInv'
<1>1. CASE CallNext
  BY <1>1, StartInv, EnterChainInv, BareInv, OriginalInv, ResetInv, DecideInv, FailBeforeInv, FailAfterInv,
     CheckInv, RunInv, StoreInv, ReadInv, FromHookInv, ExceptInv, FromFallbackInv, LeaveInv DEF CallNext
<1> QED BY <1>1, StutterInv

LEMMA Invariance == CallSpec => []CallInv
<1> QED BY CallInitInv, CallNextInv, PTL DEF CallSpec

-----------------------------------------------------------------------------
(* The theorems.                                                           *)

\* However many calls there are and in whatever order they run: the original of a call that meets
\* no other is run once, and twice in the three cases RunOnce names only.
THEOREM RunsCounted == CallSpec => []RunOnce
<1>1. CallInv => RunOnce
  BY DEF CallInv, RunOnce, Alone, Done, Solo, Counted
<1> QED BY <1>1, Invariance, PTL

\* No caller gets an exception of hook code, and a call that meets no other gets what the original
\* did, but for the TypeError of an async call whose hook failed after the original.
THEOREM OutcomeCorrect == CallSpec => []OwnOutcome
<1>1. CallInv => OwnOutcome
  BY DEF CallInv, OwnOutcome, Alone, Done, Contained, Solo, Ours
<1> QED BY <1>1, Invariance, PTL

\* For every failure limit: when the calls that saw the hook fail have been answered, a hook that
\* has failed as often as the limit has been taken away.
THEOREM GivenUpCorrect == CallSpec => []GivenUp
<1>1. CallInv => GivenUp
  BY DEF CallInv, GivenUp, Failing, Watched, Answering
<1> QED BY <1>1, Invariance, PTL
=============================================================================
