----------------------- MODULE SymbolHandlersProofs -----------------------
(***************************************************************************)
(* Proofs about SymbolHandlers: between commands the registries of the     *)
(* manager agree, no hook survives its command, and no configured hook is  *)
(* missed, for any modules, symbols, handlers and configurations.          *)
(*                                                                         *)
(* The manager holds a symbol from its creation until it is stopped.  The  *)
(* proof follows three kinds of symbols: those that are not held, which no *)
(* thread hooks any more; those that are, whose hook has the handlers of   *)
(* the symbol unless somebody is about to renew it; and those whose module *)
(* is still to come, which the importer has in its copy of the callbacks.  *)
(* The exceptions that the properties make (met, stale, unseen) only grow  *)
(* while the symbol is held.  A command that comes when shutdown has left  *)
(* the lock takes the stopped symbols up again, which nobody watches: of   *)
(* these less is claimed.                                                  *)
(***************************************************************************)
EXTENDS SymbolHandlers, FiniteSetTheorems, WellFoundedInduction, TLAPS

-----------------------------------------------------------------------------
(* The inductive invariant. *)

Steps == {"none", "ask", "gather", "install", "import"}
Mods == {"absent", "asking", "found", "loading", "copying", "notify", "loaded"}

SymbolRecord ==
    [path : Symbol, handlers : SUBSET Handler, applied : BOOLEAN, changed : BOOLEAN,
     chain : BOOLEAN, node : {NoNode} \cup SUBSET Handler, loaded : BOOLEAN,
     half : BOOLEAN]

\* The types of what TypeOK leaves out.
Types ==
    /\ strays \in [Symbol -> Nat]
    /\ mod \in [Module -> Mods]
    /\ wrapped \in [Module -> BOOLEAN]
    /\ callbacks \in [Module -> SUBSET Object]
    /\ step \in [Thread -> Steps]
    /\ job \in [Thread -> Nat]
    /\ got \in [Thread -> SUBSET Handler]
    /\ fresh \in [Thread -> BOOLEAN]

\* Shutdown has stopped the symbols, and no command has come since.
Ended == closing /\ ~ late
\* The operations that go on; in the others symbols are stopped.
Active == pc \notin {"reset", "shutdown"} /\ ~ Ended
Held == IF Active THEN live ELSE todo
In(t, o) == step[t] # "none" /\ job[t] = o
Hooks(t, o) == step[t] \in {"gather", "install"} /\ job[t] = o
Installs(t, o) == step[t] = "install" /\ job[t] = o

\* Where threads are: an importer in the notification of its module, the
\* manager in an operation that visits the symbol it works on.
Threads ==
    /\ \A t \in Thread : step[t] # "none" =>
          /\ job[t] \in Object
          /\ step[t] # "import" => symbol[job[t]].loaded
    /\ \A m \in Module : step[m] # "import" /\ (callbacks[m] # {} \/ step[m] # "none" => mod[m] = "notify")
    /\ step["manager"] # "ask"
    /\ step["manager"] # "none" => job["manager"] \in live
    /\ step["manager"] = "import" => pc = "add"
    /\ step["manager"] \in {"gather", "install"} => pc \in {"stop", "apply"}

\* The two registries, which stay in step in every state.
Registries ==
    /\ registered = UNION { symbol[o].handlers : o \in live }
    /\ \A o \in live : \A h \in symbol[o].handlers : SymbolOf[h] = symbol[o].path
    /\ \A o, q \in live : symbol[o].path = symbol[q].path => o = q
    /\ \A g, h \in registered : Id[g] = Id[h] => g = h

\* What each operation leaves for the next.
Phases ==
    /\ pc \in {"idle", "load", "add", "down"} => todo = {}
    /\ pc \in {"add", "reset", "shutdown"} \/ Ended => ~ enabled
    /\ pc = "apply" => enabled
    /\ pc \in {"idle", "load", "stop", "apply", "shutdown"} => \A o \in live : symbol[o].handlers # {}
    /\ pc = "add" => \A o \in live :
          symbol[o].handlers # {} \/ \E h \in ToAdd : SymbolOf[h] = symbol[o].path
    /\ pc \in {"idle", "load", "apply", "down"} =>
          IF enabled THEN registered = target ELSE registered \subseteq Locked \/ Ended
    /\ pc = "stop" => \A o \in live \ todo : symbol[o].handlers \subseteq Locked
    /\ watched \subseteq Held /\ (~ late => watched = Held)

\* The end: a shutdown stops the symbols, and a command may come after that.
Ends ==
    /\ pc = "shutdown" => ~ closing
    /\ pc = "down" \/ late => closing
    /\ Ended => pc \in {"idle", "load", "down"}

\* A hook counts as applied, unless renewing it has failed, and only a symbol
\* whose module is there has one.
Fields == \A o \in Object :
    /\ symbol[o].applied => symbol[o].loaded
    /\ ~ symbol[o].chain => symbol[o].node = NoNode
    /\ o \in Hooked => symbol[o].applied \/ symbol[o].path \in stale

\* What a thread has read still holds when it hooks the symbol.
Clean == \A t \in Thread : step[t] = "install" /\ symbol[job[t]].path \notin met =>
    /\ got[t] = symbol[job[t]].handlers
    /\ fresh[t] = ~ symbol[job[t]].chain
    /\ \A u \in Thread \ {t} : ~ Installs(u, job[t])

\* A symbol that is not held has no hook and gets none.
Gone == \A o \in Object \ Held : symbol[o].path \notin met =>
    /\ ~ symbol[o].applied
    /\ \A t \in Thread : ~ Installs(t, o)
    /\ \/ symbol[o].handlers = {}
       \/ (\A t \in Thread : ~ In(t, o)) /\ \A m \in Module : o \notin callbacks[m]
Forgotten == \A p \in Symbol \ (met \cup stale) : strays[p] = 0

\* The hook of a symbol has its handlers, unless the manager is renewing it,
\* or will as the symbol is marked as changed.
Current == Active => \A o \in live : symbol[o].path \notin met =>
    /\ o \in watched /\ symbol[o].chain => symbol[o].node # NoNode
    /\ symbol[o].applied =>
          \/ symbol[o].node = symbol[o].handlers
          \/ Hooks("manager", o)
          \/ symbol[o].changed /\ (pc = "add" \/ (pc = "apply" /\ o \in todo))

\* A module that is still to come calls its symbols, and a symbol whose module
\* is there is hooked once the manager is past it, or is being hooked.
Coming == Active /\ pc # "down" => \A o \in watched \ unseen : ~ symbol[o].loaded =>
    LET m == Place(o)
    IN  \/ mod[m] \in {"absent", "asking"}
        \/ mod[m] \in {"found", "loading", "copying"} /\ wrapped[m]
        \/ o \in callbacks[m]
        \/ step["manager"] = "import" /\ job["manager"] = o
Settled == pc \in {"idle", "load", "apply"} /\ enabled => \A o \in watched \ (unseen \cup todo) :
    symbol[o].loaded /\ symbol[o].path \notin met /\ symbol[o].handlers \cap Broken = {} =>
        \/ symbol[o].applied /\ symbol[o].node = symbol[o].handlers
        \/ \E t \in Thread : Hooks(t, o) \/ (step[t] = "ask" /\ job[t] = o /\ ~ symbol[o].applied)

Inv ==
    /\ TypeOK /\ Types /\ Threads /\ Registries /\ Phases /\ Ends
    /\ Fields /\ Clean /\ Gone /\ Forgotten /\ Current /\ Coming /\ Settled

-----------------------------------------------------------------------------
(* The object of a new symbol. *)

\* A set of finite sets that is not empty has a smallest one.
LEMMA SmallestSet ==
    ASSUME NEW B, B # {}, \A K \in B : IsFiniteSet(K)
    PROVE  \E K \in B : \A L \in B : L \subseteq K => L = K
<1> DEFINE S == UNION B
<1>1. IsWellFoundedOn(StrictSubsetOrdering(S), FiniteSubsetsOf(S))
  BY FS_StrictSubsetOrderingWellFounded
<1>2. B \subseteq FiniteSubsetsOf(S)
  BY DEF FiniteSubsetsOf
<1>3. PICK K \in B : \A L \in B : ~ (<< L, K >> \in StrictSubsetOrdering(S))
  BY <1>1, <1>2, WFMin
<1>4. ASSUME NEW L \in B, L \subseteq K, L # K
      PROVE  FALSE
  <2>1. << L, K >> \in (SUBSET S) \X (SUBSET S)
    BY <1>2 DEF FiniteSubsetsOf
  <2>2. QED
    BY <2>1, <1>3, <1>4 DEF StrictSubsetOrdering
<1>5. QED
  BY <1>3, <1>4

LEMMA LeastExists ==
    ASSUME NEW S \in SUBSET Nat, S # {}
    PROVE  \E n \in S : \A k \in S : n <= k
<1> DEFINE B == { 0 .. n : n \in S }
<1>1. \A K \in B : IsFiniteSet(K)
  BY FS_Interval
<1>2. PICK K \in B : \A L \in B : L \subseteq K => L = K
  <2> HIDE DEF B
  <2>1. B # {}
    BY DEF B
  <2>2. QED
    BY <1>1, <2>1, SmallestSet
<1>3. PICK n \in S : K = 0 .. n
  OBVIOUS
<1>4. ASSUME NEW k \in S, k < n
      PROVE  FALSE
  <2>1. 0 .. k \subseteq 0 .. n
    BY <1>4
  <2>2. 0 .. k = 0 .. n
    BY <2>1, <1>2, <1>3
  <2>3. n \in 0 .. n /\ n \notin 0 .. k
    BY <1>4
  <2>4. QED
    BY <2>2, <2>3
<1>5. QED
  BY <1>3, <1>4

-----------------------------------------------------------------------------
LEMMA InitInv == Init => Inv
<1> SUFFICES ASSUME Init
             PROVE  Inv
  OBVIOUS
<1> DEFINE p0 == CHOOSE p \in Symbol : TRUE
<1>1. /\ symbol = [o \in Object |-> NewSymbol(p0)]
      /\ p0 \in Symbol
  BY HandlersAssumption DEF Init
<1> HIDE DEF p0
<1>2. TypeOK
  <2>1. NewSymbol(p0) \in SymbolRecord
    <3>1. NoNode \in {NoNode} \cup SUBSET Handler
      OBVIOUS
    <3>2. QED
      BY <1>1, <3>1 DEF NewSymbol, SymbolRecord
  <2>2. symbol \in [Object -> SymbolRecord]
    BY <1>1, <2>1
  <2>3. commands \in 0 .. MaxCommands
    BY ConfigsAssumption DEF Init
  <2>4. QED
    BY <2>2, <2>3 DEF Init, TypeOK, SymbolRecord
<1>3. Types
  BY DEF Init, Types, Steps, Mods
<1>4. Threads
  BY HandlersAssumption DEF Init, Threads, Thread
<1>5. Registries /\ Phases /\ Ends /\ Clean /\ Current /\ Coming /\ Settled /\ Forgotten
  BY DEF Init, Registries, Phases, Ends, Clean, Current, Coming, Settled, Forgotten, Active, Ended, Held
<1>6. Fields /\ Gone
  BY <1>1 DEF Init, Fields, Gone, NewSymbol, Hooked, NoNode, Installs, In
<1>7. QED
  BY <1>2, <1>3, <1>4, <1>5, <1>6 DEF Inv

-----------------------------------------------------------------------------
(* Operations of the manager that visit no symbol. *)

\* What they keep, as long as no symbol ceases to be held.
LEMMA NoVisitInv ==
    ASSUME Inv, NoVisit, ByManager, step["manager"] = "none", Held \subseteq Held'
    PROVE  /\ Types' /\ Registries' /\ Fields' /\ Clean' /\ Gone' /\ Forgotten' /\ Threads'
<1> USE DEF NoVisit, ByManager, registryVars, importVars
<1>1. Types'
  BY DEF Inv, Types
<1>2. Registries'
  BY DEF Inv, Registries
<1>3. Fields'
  BY DEF Inv, Fields, Hooked
<1>4. Clean'
  BY DEF Inv, Clean, Installs
<1>5. Gone'
  BY DEF Inv, Gone, Installs, In
<1>6. Forgotten'
  BY DEF Inv, Forgotten
<1>7. Threads'
  BY DEF Inv, Threads
<1>8. QED
  BY <1>1, <1>2, <1>3, <1>4, <1>5, <1>6, <1>7

LEMMA OffInv ==
    ASSUME Inv, Off
    PROVE  Inv'
<1> USE DEF Off, Goes, NoVisit, registryVars, shutdownVars
<1>1. TypeOK'
  BY ConfigsAssumption DEF Inv, TypeOK, ByManager
<1>2. Held \subseteq Held' /\ Ends'
  BY DEF Inv, TypeOK, Ends, Phases, Held, Active, Ended
<1>3. Phases'
  BY DEF Inv, Phases, Ends, Held, Active, Ended, ToAdd
<1>4. Current'
  BY DEF Inv, Current, Phases, Ends, Held, Active, Ended, Hooks
<1>5. Coming'
  BY DEF Inv, Coming, Phases, Ends, Active, Ended, Held, Place, ByManager, importVars
<1>6. Settled'
  BY DEF Inv, Settled, Phases, Ends, Hooks, Held
<1>7. QED
  BY <1>1, <1>2, <1>3, <1>4, <1>5, <1>6, NoVisitInv DEF Inv

LEMMA OnInv ==
    ASSUME Inv, On
    PROVE  Inv'
<1> USE DEF On, Goes, NoVisit, registryVars, shutdownVars
<1>1. TypeOK'
  BY ConfigsAssumption DEF Inv, TypeOK, ByManager
<1>2. Held \subseteq Held' /\ Ends'
  BY DEF Inv, TypeOK, Ends, Phases, Held, Active, Ended
<1>3. Phases'
  BY DEF Inv, Phases, Ends, Held, Active, Ended, ToAdd
<1>4. Current'
  BY DEF Inv, Current, Phases, Ends, Held, Active, Ended, Hooks
<1>5. Coming'
  BY DEF Inv, Coming, Phases, Ends, Active, Ended, Held, Place, ByManager, importVars
<1>6. Settled'
  BY DEF Inv, Settled, Phases, Ends, Hooks, Held
<1>7. QED
  BY <1>1, <1>2, <1>3, <1>4, <1>5, <1>6, NoVisitInv DEF Inv

LEMMA LoadFailsInv ==
    ASSUME Inv, LoadFails
    PROVE  Inv'
<1> USE DEF LoadFails, Goes, NoVisit, registryVars, shutdownVars
<1>1. TypeOK'
  BY ConfigsAssumption DEF Inv, TypeOK, ByManager
<1>2. Held \subseteq Held' /\ Ends'
  BY DEF Inv, TypeOK, Ends, Phases, Held, Active, Ended
<1>3. Phases'
  BY DEF Inv, Phases, Ends, Held, Active, Ended, ToAdd
<1>4. Current'
  BY DEF Inv, Current, Phases, Ends, Held, Active, Ended, Hooks
<1>5. Coming'
  BY DEF Inv, Coming, Phases, Ends, Active, Ended, Held, Place, ByManager, importVars
<1>6. Settled'
  BY DEF Inv, Settled, Phases, Ends, Hooks, Held
<1>7. QED
  BY <1>1, <1>2, <1>3, <1>4, <1>5, <1>6, NoVisitInv DEF Inv

LEMMA LoadedInv ==
    ASSUME Inv, Loaded
    PROVE  Inv'
<1> USE DEF Loaded, Goes, NoVisit, registryVars, shutdownVars
<1>1. TypeOK'
  <2>1. target' \in SUBSET Handler
    BY ConfigsAssumption
  <2>2. /\ {enabled', late'} \subseteq BOOLEAN
        /\ UNCHANGED << updating, closing, commands, symbol, step, live, watched, registered >>
        /\ pc' \in {"stop", "add"} /\ resume' \in {"idle", "add"} /\ todo' \in {live, {}}
    BY DEF Inv, TypeOK
  <2>3. QED
    BY <2>1, <2>2 DEF Inv, TypeOK
<1>2. Held \subseteq Held' /\ Ends'
  BY DEF Inv, TypeOK, Ends, Phases, Held, Active, Ended
<1>3. Phases'
  BY DEF Inv, Phases, Ends, Held, Active, Ended, ToAdd
<1>4. Current'
  <2>1. CASE Ended
    <3>1. watched = {} /\ Held = {} /\ \A o \in live : o \in Object
      BY <2>1 DEF Inv, TypeOK, Ends, Phases, Held, Active, Ended
    <3>2. QED
      BY <3>1 DEF Inv, Gone, Current
  <2>2. CASE ~ Ended
    BY <2>2 DEF Inv, Current, Active, Ended, Hooks
  <2>3. QED
    BY <2>1, <2>2
<1>5. Coming'
  BY DEF Inv, Coming, Phases, Ends, Active, Ended, Held, Place, ByManager, importVars
<1>6. Settled'
  BY DEF Inv, Settled, Phases, Ends, Hooks, Held
<1>7. QED
  BY <1>1, <1>2, <1>3, <1>4, <1>5, <1>6, NoVisitInv DEF Inv

LEMMA StoppedInv ==
    ASSUME Inv, Stopped
    PROVE  Inv'
<1> USE DEF Stopped, Goes, NoVisit, registryVars, shutdownVars
<1>1. TypeOK'
  BY ConfigsAssumption DEF Inv, TypeOK, ByManager
<1>2. Held \subseteq Held' /\ Ends'
  BY DEF Inv, TypeOK, Ends, Phases, Held, Active, Ended
<1>3. Phases'
  <2>1. pc = "stop" /\ pc' \in {"idle", "add"} /\ todo = {} /\ ~ Ended
    BY DEF Inv, TypeOK, Ends
  <2>2. \A o \in live : symbol[o].handlers # {} /\ symbol[o].handlers \subseteq Locked
    BY <2>1 DEF Inv, Phases
  <2>3. registered \subseteq Locked
    BY <2>2 DEF Inv, Registries
  <2>4. QED
    BY <2>1, <2>2, <2>3 DEF Inv, Phases, Held, Active, Ended
<1>4. Current'
  BY DEF Inv, Current, Phases, Ends, Held, Active, Ended, Hooks
<1>5. Coming'
  BY DEF Inv, Coming, Phases, Ends, Active, Ended, Held, Place, ByManager, importVars
<1>6. Settled'
  BY DEF Inv, Settled, Phases, Ends, Hooks, Held
<1>7. QED
  BY <1>1, <1>2, <1>3, <1>4, <1>5, <1>6, NoVisitInv DEF Inv

LEMMA ReconciledInv ==
    ASSUME Inv, Reconciled
    PROVE  Inv'
<1> USE DEF Reconciled, Goes, NoVisit, registryVars, shutdownVars
<1>1. TypeOK'
  BY ConfigsAssumption DEF Inv, TypeOK, ByManager
<1>2. Held \subseteq Held' /\ Ends'
  BY DEF Inv, TypeOK, Ends, Phases, Held, Active, Ended
<1>3. Phases'
  <2>1. pc = "add" /\ \A o \in live : symbol[o].handlers # {}
    BY DEF Inv, Phases
  <2>2. registered \subseteq target
    <3>1. ASSUME NEW r \in registered
          PROVE  r \in target
      <4>1. PICK h \in target : Id[h] = Id[r]
        BY DEF ToRemove, Ids
      <4>2. h \in registered
        BY DEF ToUpdate
      <4>3. QED
        BY <4>1, <4>2 DEF Inv, Registries
    <3>2. QED
      BY <3>1
  <2>3. registered = target
    BY <2>2 DEF ToUpdate
  <2>4. QED
    BY <2>1, <2>3 DEF Inv, Phases, Ends, Held, Active, Ended
<1>4. Current'
  BY DEF Inv, Current, Phases, Ends, Held, Active, Ended, Hooks
<1>5. Coming'
  BY DEF Inv, Coming, Phases, Ends, Active, Ended, Held, Place, ByManager, importVars
<1>6. Settled'
  BY DEF Inv, Settled, Phases, Ends, Hooks, Held
<1>7. QED
  BY <1>1, <1>2, <1>3, <1>4, <1>5, <1>6, NoVisitInv DEF Inv

LEMMA AppliedAllInv ==
    ASSUME Inv, AppliedAll
    PROVE  Inv'
<1> USE DEF AppliedAll, Goes, NoVisit, registryVars, shutdownVars
<1>1. TypeOK'
  BY ConfigsAssumption DEF Inv, TypeOK, ByManager
<1>2. Held \subseteq Held' /\ Ends'
  BY DEF Inv, TypeOK, Ends, Phases, Held, Active, Ended
<1>3. Phases'
  BY DEF Inv, Phases, Ends, Held, Active, Ended, ToAdd
<1>4. Current'
  BY DEF Inv, Current, Phases, Ends, Held, Active, Ended, Hooks
<1>5. Coming'
  BY DEF Inv, Coming, Phases, Ends, Active, Ended, Held, Place, ByManager, importVars
<1>6. Settled'
  BY DEF Inv, Settled, Phases, Ends, Hooks, Held
<1>7. QED
  BY <1>1, <1>2, <1>3, <1>4, <1>5, <1>6, NoVisitInv DEF Inv

LEMMA ReconcileFailsInv ==
    ASSUME Inv, ReconcileFails
    PROVE  Inv'
<1> USE DEF ReconcileFails, Goes, NoVisit, registryVars, shutdownVars
<1>1. TypeOK'
  BY ConfigsAssumption DEF Inv, TypeOK, ByManager
<1>2. Held \subseteq Held' /\ Ends'
  BY DEF Inv, TypeOK, Ends, Phases, Held, Active, Ended
<1>3. Phases'
  BY DEF Inv, Phases, Ends, Held, Active, Ended, ToAdd
<1>4. Current'
  BY DEF Inv, Current, Phases, Ends, Held, Active, Ended, Hooks
<1>5. Coming'
  BY DEF Inv, Coming, Phases, Ends, Active, Ended, Held, Place, ByManager, importVars
<1>6. Settled'
  BY DEF Inv, Settled, Phases, Ends, Hooks, Held
<1>7. QED
  BY <1>1, <1>2, <1>3, <1>4, <1>5, <1>6, NoVisitInv DEF Inv

LEMMA ShutdownInv ==
    ASSUME Inv, Shutdown
    PROVE  Inv'
<1> USE DEF Shutdown, Goes, NoVisit, registryVars, shutdownVars
<1>1. TypeOK'
  BY ConfigsAssumption DEF Inv, TypeOK, ByManager
<1>2. Held \subseteq Held' /\ Ends'
  BY DEF Inv, TypeOK, Ends, Phases, Held, Active, Ended
<1>3. Phases'
  BY DEF Inv, Phases, Ends, Held, Active, Ended, ToAdd
<1>4. Current'
  BY DEF Inv, Current, Phases, Ends, Held, Active, Ended, Hooks
<1>5. Coming'
  BY DEF Inv, Coming, Phases, Ends, Active, Ended, Held, Place, ByManager, importVars
<1>6. Settled'
  BY DEF Inv, Settled, Phases, Ends, Hooks, Held
<1>7. QED
  BY <1>1, <1>2, <1>3, <1>4, <1>5, <1>6, NoVisitInv DEF Inv

LEMMA StoppedAllInv ==
    ASSUME Inv, StoppedAll
    PROVE  Inv'
<1> USE DEF StoppedAll, Goes, NoVisit, registryVars, shutdownVars
<1>1. TypeOK'
  BY ConfigsAssumption DEF Inv, TypeOK, ByManager
<1>2. Held \subseteq Held' /\ Ends'
  BY DEF Inv, TypeOK, Ends, Phases, Held, Active, Ended
<1>3. Phases'
  BY DEF Inv, Phases, Ends, Held, Active, Ended, ToAdd
<1>4. Current'
  BY DEF Inv, Current, Phases, Ends, Held, Active, Ended, Hooks
<1>5. Coming'
  BY DEF Inv, Coming, Phases, Ends, Active, Ended, Held, Place, ByManager, importVars
<1>6. Settled'
  BY DEF Inv, Settled, Phases, Ends, Hooks, Held
<1>7. QED
  BY <1>1, <1>2, <1>3, <1>4, <1>5, <1>6, NoVisitInv DEF Inv

LEMMA DownInv ==
    ASSUME Inv, Down
    PROVE  Inv'
<1> USE DEF Down, Goes, NoVisit, registryVars, shutdownVars
<1>1. TypeOK'
  BY ConfigsAssumption DEF Inv, TypeOK, ByManager
<1>2. Held \subseteq Held' /\ Ends'
  BY DEF Inv, TypeOK, Ends, Phases, Held, Active, Ended
<1>3. Phases'
  BY DEF Inv, Phases, Ends, Held, Active, Ended, ToAdd
<1>4. Current'
  BY DEF Inv, Current, Phases, Ends, Held, Active, Ended, Hooks
<1>5. Coming'
  BY DEF Inv, Coming, Phases, Ends, Active, Ended, Held, Place, ByManager, importVars
<1>6. Settled'
  BY DEF Inv, Settled, Phases, Ends, Hooks, Held
<1>7. QED
  BY <1>1, <1>2, <1>3, <1>4, <1>5, <1>6, NoVisitInv DEF Inv

-----------------------------------------------------------------------------
(* Operations of the manager on a symbol. *)

LEMMA Entered ==
    ASSUME Types, NEW t \in Thread, NEW o \in Nat, NEW s \in Steps, Enter(t, o, s)
    PROVE  /\ step' \in [Thread -> Steps] /\ job' \in [Thread -> Nat]
           /\ step'[t] = s /\ job'[t] = o
           /\ \A u \in Thread : u # t => step'[u] = step[u] /\ job'[u] = job[u]
BY DEF Enter, Types

LEMMA Met ==
    ASSUME Types, NEW t \in Thread, NEW o, Meets(t, o)
    PROVE  /\ met \subseteq met'
           /\ symbol[o].path \notin met' => \A u \in Thread : Installs(u, o) => u = t
BY DEF Meets, Hooking, Installs

\* Unhooking leaves nothing, unless renewing the hook has failed before.
LEMMA UnhookedFields ==
    ASSUME NEW x \in SymbolRecord
    PROVE  LET y == Unhooked(x)
           IN  /\ y \in SymbolRecord
               /\ y.path = x.path /\ y.handlers = x.handlers /\ y.changed = x.changed
               /\ y.chain = x.chain /\ y.loaded = x.loaded
               /\ ~ y.applied /\ y.node = IF x.applied THEN NoNode ELSE x.node
BY DEF Unhooked, SymbolRecord

LEMMA SymbolType ==
    ASSUME Inv
    PROVE  /\ symbol \in [Object -> SymbolRecord]
           /\ \A o \in Object : symbol[o] \in SymbolRecord
BY DEF Inv, TypeOK, SymbolRecord

\* A symbol is replaced.
LEMMA Replaced ==
    ASSUME Inv, NEW o \in Object, NEW y \in SymbolRecord, symbol' = [symbol EXCEPT ![o] = y]
    PROVE  /\ symbol' \in [Object -> SymbolRecord]
           /\ symbol'[o] = y
           /\ \A q \in Object : q # o => symbol'[q] = symbol[q]
BY SymbolType

LEMMA HookSymbolInv ==
    ASSUME Inv, NEW o \in Object, HookSymbol(o)
    PROVE  Inv'
<1> DEFINE x == symbol[o]
           looked(f) == [x EXCEPT !.loaded = @ \/ f, !.half = @ /\ ~ f]
           needs(z) == z.loaded /\ z.handlers # {} /\ ~ (z.applied /\ ~ z.changed)
<1>0. PICK found \in BOOLEAN :
        /\ symbol' = [symbol EXCEPT ![o] = looked(found)]
        /\ IF needs(looked(found)) THEN Enter("manager", o, "gather") ELSE UNCHANGED << step, job >>
        /\ unseen' = IF looked(found).loaded THEN unseen \ {o} ELSE unseen
  <2>1. (IF symbol[o].half THEN Finds(o) ELSE {FALSE}) \subseteq BOOLEAN
    BY DEF Finds
  <2>2. QED
    BY <2>1, ZenonT(30) DEF HookSymbol
<1> DEFINE y == looked(found)
           due == needs(y)
<1>1. /\ pc = "apply" /\ pc' = "apply" /\ step["manager"] = "none"
      /\ o \in todo /\ todo' = todo \ {o} /\ Meets("manager", o)
      /\ UNCHANGED << enabled, updating, resume, closing, late, target, commands, live, registered,
                      watched, stale, strays, main, lock, mod, wrapped, callbacks, got, fresh >>
  BY DEF HookSymbol, Goes, Visit, ByManager, registryVars, importVars, shutdownVars
<1>2. /\ o \in live /\ met \subseteq met' /\ x.handlers # {} /\ "manager" \in Thread /\ enabled
      /\ Active /\ Held = live /\ Held' = live /\ watched \subseteq live
  BY <1>1, Met DEF Inv, TypeOK, Phases, Ends, Thread, Held, Active, Ended
<1>3. /\ y \in SymbolRecord
      /\ y.path = x.path /\ y.handlers = x.handlers /\ y.chain = x.chain /\ (x.loaded => y.loaded)
      /\ y.applied = x.applied /\ y.node = x.node /\ y.changed = x.changed
  BY SymbolType DEF SymbolRecord
<1>4. symbol' = [symbol EXCEPT ![o] = y]
  BY <1>0
<1>5. /\ step' \in [Thread -> Steps] /\ job' \in [Thread -> Nat]
      /\ \A u \in Thread : u # "manager" => step'[u] = step[u] /\ job'[u] = job[u]
      /\ IF due THEN step'["manager"] = "gather" /\ job'["manager"] = o
         ELSE step'["manager"] = "none"
  <2>1. CASE due
    BY <1>0, <1>2, <2>1, Entered, ConfigsAssumption DEF Inv, Steps
  <2>2. CASE ~ due
    BY <1>0, <1>1, <2>2 DEF Inv, Types
  <2>3. QED
    BY <2>1, <2>2
<1>6. /\ ~ due /\ y.loaded => y.applied /\ ~ y.changed
      /\ due => y.loaded
      /\ unseen' = IF y.loaded THEN unseen \ {o} ELSE unseen
  BY <1>0, <1>2, <1>3
<1> HIDE DEF due, y
<1>7. /\ symbol' \in [Object -> SymbolRecord]
      /\ symbol'[o] = y
      /\ \A q \in Object : q # o => symbol'[q] = symbol[q]
  BY <1>3, <1>4, Replaced
<1>8. \A q \in Object :
        /\ symbol'[q].path = symbol[q].path /\ symbol'[q].handlers = symbol[q].handlers
        /\ symbol'[q].chain = symbol[q].chain /\ (symbol[q].loaded => symbol'[q].loaded)
        /\ symbol'[q].applied = symbol[q].applied /\ symbol'[q].node = symbol[q].node
        /\ symbol'[q].changed = symbol[q].changed
  BY <1>3, <1>7
<1>9. \A q \in live : q \in Object
  BY DEF Inv, TypeOK
<1>10. TypeOK'
  <2>1. \A t \in Thread : step'[t] \in {"none", "gather", "install", "ask", "import"}
    BY <1>5 DEF Steps
  <2>2. QED
    BY <1>1, <1>7, <2>1 DEF Inv, TypeOK, SymbolRecord
<1>11. Types'
  BY <1>1, <1>5 DEF Inv, Types
<1>12. Threads'
  BY <1>1, <1>2, <1>5, <1>6, <1>7, <1>8, HandlersAssumption DEF Inv, Threads, Thread
<1>13. Registries'
  BY <1>1, <1>8, <1>9 DEF Inv, Registries
<1>14. Phases' /\ Ends'
  BY <1>1, <1>2, <1>8, <1>9 DEF Inv, Phases, Ends, Active, Ended
<1>15. Fields'
  BY <1>1, <1>8 DEF Inv, Fields, Hooked
<1>16. Clean'
  BY <1>2, <1>1, <1>5, <1>8 DEF Inv, Clean, Installs, Threads
<1>17. Gone'
  BY <1>1, <1>2, <1>5, <1>8 DEF Inv, Gone, Installs, In
<1>18. Forgotten'
  BY <1>1, <1>2 DEF Inv, Forgotten
<1>19. Current'
  <2>1. x.path \notin met /\ x.applied => x.node = x.handlers \/ due
    BY <1>1, <1>2, <1>3, <1>6 DEF Inv, Current, Hooks, Fields
  <2>2. QED
    BY <1>1, <1>2, <1>5, <1>8, <1>9, <2>1 DEF Inv, Current, Hooks
<1>20. Coming'
  <2>1. \A q \in Object : Place(q)' = Place(q)
    BY <1>8 DEF Place
  <2>2. ASSUME NEW q \in watched \ unseen', ~ symbol'[q].loaded
        PROVE  q \notin unseen /\ ~ symbol[q].loaded
    BY <1>2, <1>6, <1>7, <1>8, <1>9, <2>2
  <2>3. QED
    BY <1>1, <1>2, <1>9, <2>1, <2>2 DEF Inv, Coming
<1>21. Settled'
  <2>1. x.path \notin met /\ y.loaded /\ ~ due => y.applied /\ y.node = y.handlers
    BY <1>1, <1>2, <1>3, <1>6 DEF Inv, Current, Hooks
  <2>2. ASSUME NEW q \in watched \ (unseen' \cup todo'),
               symbol'[q].loaded, symbol'[q].path \notin met', symbol'[q].handlers \cap Broken = {}
        PROVE  \/ symbol'[q].applied /\ symbol'[q].node = symbol'[q].handlers
               \/ \E t \in Thread : \/ Hooks(t, q)'
                                    \/ step'[t] = "ask" /\ job'[t] = q /\ ~ symbol'[q].applied
    <3>1. CASE q = o
      BY <1>2, <1>3, <1>5, <1>7, <2>1, <2>2, <3>1 DEF Hooks
    <3>2. CASE q # o
      <4>1. symbol'[q] = symbol[q] /\ q \notin unseen \cup todo
        BY <1>1, <1>2, <1>6, <1>7, <1>9, <2>2, <3>2
      <4>2. QED
        BY <1>1, <1>2, <1>5, <2>2, <4>1 DEF Inv, Settled, Hooks
    <3>3. QED
      BY <3>1, <3>2
  <2>3. QED
    BY <1>1, <2>2 DEF Settled
<1>22. QED
  BY <1>10, <1>11, <1>12, <1>13, <1>14, <1>15, <1>16, <1>17, <1>18, <1>19, <1>20, <1>21 DEF Inv

LEMMA StopInv ==
    ASSUME Inv, NEW o \in Object, Stop(o)
    PROVE  Inv'
<1> USE DEF Stop, ByManager, registryVars, importVars, shutdownVars
<1> DEFINE x == symbol[o]
           y == Unhooked(x)
<1>1. /\ pc \in {"reset", "shutdown"} /\ pc' = pc /\ o \in todo /\ o \in live
      /\ met \subseteq met' /\ "manager" \in Thread /\ ~ enabled
      /\ Held = todo /\ Held' = todo' /\ ~ Active /\ ~ Active'
      /\ step["manager"] = "none"
  BY DEF Inv, TypeOK, Phases, Thread, Threads, Held, Active
<1>2. /\ y \in SymbolRecord
      /\ y.path = x.path /\ y.handlers = x.handlers /\ y.chain = x.chain /\ y.loaded = x.loaded
      /\ ~ y.applied /\ y.node = IF x.applied THEN NoNode ELSE x.node
  BY SymbolType, UnhookedFields
<1>3. symbol' = [symbol EXCEPT ![o] = y]
  OBVIOUS
<1> HIDE DEF y
<1>4. /\ symbol' \in [Object -> SymbolRecord]
      /\ symbol'[o] = y
      /\ \A q \in Object : q # o => symbol'[q] = symbol[q]
  BY <1>2, <1>3, Replaced
<1>5. \A q \in Object :
        /\ symbol'[q].path = symbol[q].path /\ symbol'[q].handlers = symbol[q].handlers
        /\ symbol'[q].chain = symbol[q].chain /\ symbol'[q].loaded = symbol[q].loaded
  BY <1>2, <1>4
<1>6. TypeOK'
  BY <1>1, <1>4 DEF Inv, TypeOK, SymbolRecord
<1>7. Types'
  BY DEF Inv, Types
<1>8. Threads'
  BY <1>1, <1>5 DEF Inv, Threads
<1>9. Registries'
  <2>1. \A q \in live : q \in Object
    BY DEF Inv, TypeOK
  <2>2. QED
    BY <1>5, <2>1 DEF Inv, Registries
<1>10. Phases' /\ Ends'
  <2>1. \A q \in live : q \in Object
    BY DEF Inv, TypeOK
  <2>2. QED
    BY <1>1, <1>5, <2>1 DEF Inv, TypeOK, Phases, Ends, Ended
<1>11. Fields'
  BY <1>2, <1>4, <1>5 DEF Inv, Fields, Hooked, NoNode
<1>12. Clean'
  BY <1>1, <1>5 DEF Inv, Clean, Installs, Threads
<1>13. Gone'
  <2>1. ASSUME x.path \notin met'
        PROVE  /\ \A t \in Thread : ~ In(t, o)
               /\ \A m \in Module : o \notin callbacks[m]
    <3>1. \A m \in Module : o \notin callbacks[m] /\ job[m] # o
      BY <2>1
    <3>2. \A t \in Thread : ~ In(t, o)
      BY <1>1, <3>1 DEF In, Thread
    <3>3. QED
      BY <3>1, <3>2
  <2>2. ASSUME NEW q \in Object \ todo, symbol[q].path \notin met', q # o
        PROVE  /\ ~ symbol'[q].applied
               /\ \A t \in Thread : ~ Installs(t, q)
               /\ \/ symbol[q].handlers = {}
                  \/ (\A t \in Thread : ~ In(t, q)) /\ \A m \in Module : q \notin callbacks[m]
    BY <1>1, <1>4, <2>2 DEF Inv, Gone
  <2>3. QED
    BY <1>1, <1>2, <1>4, <1>5, <2>1, <2>2 DEF Gone, In, Installs
<1>14. Forgotten'
  BY <1>1 DEF Inv, Forgotten
<1>15. Current' /\ Coming' /\ Settled'
  BY <1>1 DEF Current, Coming, Settled
<1>16. QED
  BY <1>6, <1>7, <1>8, <1>9, <1>10, <1>11, <1>12, <1>13, <1>14, <1>15 DEF Inv

LEMMA ResetInv ==
    ASSUME Inv, Reset
    PROVE  Inv'
<1> USE DEF Reset, Goes, ByManager, importVars, shutdownVars
<1>1. /\ pc = "reset" /\ pc' = "idle" /\ todo = {} /\ step["manager"] = "none" /\ watched = {}
      /\ ~ enabled /\ Held = {} /\ Held' = {} /\ ~ Ended
  BY DEF Inv, Phases, Ends, Held, Active
<1>2. TypeOK'
  BY <1>1 DEF Inv, TypeOK
<1>3. Types'
  BY DEF Inv, Types
<1>4. Threads'
  BY <1>1 DEF Inv, Threads
<1>5. Registries' /\ Phases' /\ Current' /\ Coming' /\ Settled'
  BY <1>1 DEF Registries, Phases, Current, Coming, Settled, Ended
<1>6. Fields' /\ Clean' /\ Forgotten' /\ Ends'
  BY <1>1 DEF Inv, Fields, Clean, Forgotten, Ends, Hooked, Installs, Ended
<1>7. Gone'
  BY <1>1 DEF Inv, Gone, In, Installs
<1>8. QED
  BY <1>2, <1>3, <1>4, <1>5, <1>6, <1>7 DEF Inv

LEMMA ImportTargetInv ==
    ASSUME Inv, ImportTarget
    PROVE  Inv'
<1> DEFINE o == job["manager"]
           x == symbol[o]
<1>0. /\ step["manager"] = "import" /\ Leave("manager")
      /\ UNCHANGED << pc, live, registered, watched, met, enabled, updating, resume, closing, late,
                      target, todo, commands, stale, strays, main, lock, mod, wrapped, callbacks,
                      got, fresh >>
  BY DEF ImportTarget, Reconciling, ByManager, registryVars, importVars, shutdownVars
<1>1. PICK found \in Finds(o) :
        /\ symbol' = [symbol EXCEPT ![o].loaded = @ \/ found, ![o].half = ~ found]
        /\ unseen' = IF found \/ wrapped[Place(o)] THEN unseen ELSE unseen \cup {o}
  BY DEF ImportTarget
<1> DEFINE y == [x EXCEPT !.loaded = @ \/ found, !.half = ~ found]
<1>2. /\ pc = "add" /\ o \in live /\ o \in Object /\ "manager" \in Thread /\ ~ enabled
      /\ Active /\ Held = live /\ Held' = live /\ watched \subseteq live
      /\ found \in BOOLEAN /\ (~ found => mod[Place(o)] = "loading")
  BY <1>0 DEF Inv, TypeOK, Phases, Ends, Thread, Threads, Held, Active, Ended, Finds
<1> HIDE DEF o
<1>3. /\ y \in SymbolRecord
      /\ y.path = x.path /\ y.handlers = x.handlers /\ y.chain = x.chain /\ y.loaded = (x.loaded \/ found)
      /\ y.applied = x.applied /\ y.node = x.node /\ y.changed = x.changed
  BY <1>2, SymbolType DEF SymbolRecord
<1>4. symbol' = [symbol EXCEPT ![o] = y]
  BY <1>1, <1>2, SymbolType
<1> HIDE DEF y
<1>5. /\ symbol' \in [Object -> SymbolRecord]
      /\ symbol'[o] = y
      /\ \A q \in Object : q # o => symbol'[q] = symbol[q]
  BY <1>2, <1>3, <1>4, Replaced
<1>6. \A q \in Object :
        /\ symbol'[q].path = symbol[q].path /\ symbol'[q].handlers = symbol[q].handlers
        /\ symbol'[q].chain = symbol[q].chain /\ (symbol[q].loaded => symbol'[q].loaded)
        /\ symbol'[q].applied = symbol[q].applied /\ symbol'[q].node = symbol[q].node
        /\ symbol'[q].changed = symbol[q].changed
  BY <1>3, <1>5
<1>7. \A q \in live : q \in Object
  BY DEF Inv, TypeOK
<1>8. /\ step' \in [Thread -> Steps] /\ job' \in [Thread -> Nat]
      /\ \A u \in Thread : u # "manager" => step'[u] = step[u] /\ job'[u] = job[u]
      /\ step'["manager"] = "none"
  BY <1>0, <1>2, Entered DEF Leave, Steps, Inv
<1>9. TypeOK'
  <2>1. \A t \in Thread : step'[t] \in {"none", "gather", "install", "ask", "import"}
    BY <1>8 DEF Steps
  <2>2. QED
    BY <1>0, <1>2, <1>5, <2>1 DEF Inv, TypeOK, SymbolRecord
<1>10. Types'
  BY <1>0, <1>8 DEF Inv, Types
<1>11. Threads'
  BY <1>0, <1>2, <1>6, <1>8, HandlersAssumption DEF Inv, Threads, Thread
<1>12. Registries'
  BY <1>0, <1>6, <1>7 DEF Inv, Registries
<1>13. Phases' /\ Ends'
  BY <1>0, <1>2, <1>6, <1>7 DEF Inv, Phases, Ends, Ended, ToAdd
<1>14. Fields'
  BY <1>0, <1>6 DEF Inv, Fields, Hooked
<1>15. Clean'
  BY <1>0, <1>6, <1>8 DEF Inv, Clean, Installs, Threads
<1>16. Gone'
  BY <1>0, <1>2, <1>6, <1>8 DEF Inv, Gone, Installs, In
<1>17. Forgotten'
  BY <1>0 DEF Inv, Forgotten
<1>18. Current'
  BY <1>0, <1>2, <1>6, <1>7, <1>8 DEF Inv, Current, Hooks
<1>19. Coming'
  <2>1. \A q \in Object : Place(q)' = Place(q)
    BY <1>6 DEF Place
  <2>2. ASSUME NEW q \in watched \ unseen', ~ symbol'[q].loaded
        PROVE  LET m == Place(q)
               IN  \/ mod[m] \in {"absent", "asking"}
                   \/ mod[m] \in {"found", "loading", "copying"} /\ wrapped[m]
                   \/ q \in callbacks[m]
    <3>1. CASE q = o
      BY <1>1, <1>2, <1>3, <1>5, <2>2, <3>1
    <3>2. CASE q # o
      <4>1. q \notin unseen /\ ~ symbol[q].loaded
        BY <1>1, <1>2, <1>6, <1>7, <2>2
      <4>2. QED
        BY <1>0, <1>2, <2>2, <3>2, <4>1 DEF Inv, Coming, o
    <3>3. QED
      BY <3>1, <3>2
  <2>3. QED
    BY <1>0, <1>2, <1>7, <2>1, <2>2 DEF Coming
<1>20. Settled'
  BY <1>0, <1>2 DEF Settled
<1>21. QED
  BY <1>9, <1>10, <1>11, <1>12, <1>13, <1>14, <1>15, <1>16, <1>17, <1>18, <1>19, <1>20 DEF Inv

\* The manager changes the handlers of a symbol: what it leaves of the hook and
\* of the threads that are about to renew it.
LEMMA HandlersChange ==
    ASSUME Inv, NEW o \in Held, NEW y \in SymbolRecord,
           symbol' = [symbol EXCEPT ![o] = y],
           y.path = symbol[o].path, y.chain = symbol[o].chain, y.loaded = symbol[o].loaded,
           \/ y.applied = symbol[o].applied /\ y.node = symbol[o].node /\ Held' = Held
           \/ /\ ~ y.applied /\ y.node = IF symbol[o].applied THEN NoNode ELSE symbol[o].node
              /\ y.handlers = {} /\ Held' = Held \ {o},
           Meets("manager", o), step["manager"] = "none",
           \A u \in Thread : u # "manager" => step'[u] = step[u] /\ job'[u] = job[u],
           \/ step'["manager"] = "none"
           \/ step'["manager"] = "gather" /\ job'["manager"] = o /\ Held' = Held,
           UNCHANGED << strays, importVars, got, fresh, stale >>
    PROVE  /\ Fields' /\ Clean' /\ Gone' /\ Forgotten'
<1> USE DEF importVars
<1> DEFINE x == symbol[o]
<1>1. o \in Object /\ o \in live /\ "manager" \in Thread
  BY DEF Inv, TypeOK, Thread, Held
<1>2. /\ symbol'[o] = y
      /\ \A q \in Object : q # o => symbol'[q] = symbol[q]
  BY <1>1, Replaced
<1>3. met \subseteq met' /\ (x.path \notin met' => \A u \in Thread : ~ Installs(u, o))
  BY <1>1, Met DEF Inv, Installs
<1>4. \A q \in Object : /\ symbol'[q].path = symbol[q].path
                        /\ symbol'[q].chain = symbol[q].chain
                        /\ symbol'[q].loaded = symbol[q].loaded
  BY <1>2
<1>5. Fields'
  BY <1>2, <1>4 DEF Inv, Fields, Hooked
<1>6. Clean'
  <2>1. ASSUME NEW t \in Thread, step'[t] = "install", symbol'[job'[t]].path \notin met'
        PROVE  /\ got[t] = symbol'[job'[t]].handlers
               /\ fresh[t] = ~ symbol'[job'[t]].chain
               /\ \A u \in Thread \ {t} : ~ Installs(u, job[t])'
    <3>1. t # "manager" /\ step[t] = "install" /\ job'[t] = job[t] /\ job[t] \in Object
      BY <2>1 DEF Inv, Threads
    <3>2. job[t] # o
      BY <1>3, <1>4, <2>1, <3>1 DEF Installs
    <3>3. QED
      BY <1>2, <1>3, <2>1, <3>1, <3>2 DEF Inv, Clean, Installs
  <2>2. QED
    BY <2>1 DEF Clean
<1>7. Gone'
  <2>1. ASSUME NEW q \in Object \ Held', symbol'[q].path \notin met', q # o
        PROVE  /\ ~ symbol'[q].applied
               /\ \A t \in Thread : ~ Installs(t, q)'
               /\ \/ symbol'[q].handlers = {}
                  \/ (\A t \in Thread : ~ In(t, q)') /\ \A m \in Module : q \notin callbacks'[m]
    <3>1. symbol'[q] = symbol[q] /\ q \notin Held
      BY <1>2, <2>1
    <3>2. QED
      BY <1>3, <2>1, <3>1 DEF Inv, Gone, Installs, In
  <2>2. ASSUME o \notin Held', symbol'[o].path \notin met'
        PROVE  /\ ~ symbol'[o].applied
               /\ \A t \in Thread : ~ Installs(t, o)'
               /\ symbol'[o].handlers = {}
    <3>1. \A t \in Thread : ~ Installs(t, o)'
      BY <1>2, <1>3, <2>2 DEF Installs
    <3>2. QED
      BY <1>2, <2>2, <3>1
  <2>3. QED
    BY <2>1, <2>2 DEF Gone
<1>8. Forgotten'
  BY <1>3 DEF Inv, Forgotten
<1>9. QED
  BY <1>5, <1>6, <1>7, <1>8

LEMMA AddHandlerInv ==
    ASSUME Inv, NEW h \in Handler, AddHandler(h)
    PROVE  Inv'
<1>1. PICK o \in SymbolAt(SymbolOf[h]) :
        /\ symbol' = [symbol EXCEPT ![o].handlers = @ \cup {h}, ![o].changed = TRUE]
        /\ Meets("manager", o)
  BY DEF AddHandler
<1>0. /\ registered' = registered \cup {h} /\ pc = "add" /\ step["manager"] = "none" /\ pc' = "add"
      /\ h \in ToAdd
      /\ UNCHANGED << live, watched, step, job, unseen, enabled, updating, resume, closing, late, target, todo,
                      commands, stale, strays, main, lock, mod, wrapped, callbacks, got, fresh >>
  BY DEF AddHandler, Goes, Reconciling, ByManager, importVars, shutdownVars
<1> DEFINE x == symbol[o]
           y == [x EXCEPT !.handlers = @ \cup {h}, !.changed = TRUE]
<1>2. /\ pc = "add" /\ pc' = "add" /\ o \in live /\ o \in Object
      /\ Active /\ Held = live /\ Held' = live' /\ watched \subseteq live /\ (~ late => watched = live)
      /\ "manager" \in Thread /\ ~ enabled /\ step["manager"] = "none" /\ x.path = SymbolOf[h]
      /\ h \in target /\ h \in ToAdd
  BY <1>0 DEF SymbolAt, Inv, TypeOK, Phases, Ends, Thread, Held, Active, Ended, ToAdd
<1>3. /\ y \in SymbolRecord
      /\ y.path = x.path /\ y.handlers = x.handlers \cup {h} /\ y.chain = x.chain
      /\ y.loaded = x.loaded /\ y.applied = x.applied /\ y.node = x.node /\ y.changed
  BY <1>0, <1>2, SymbolType DEF SymbolRecord
<1>4. symbol' = [symbol EXCEPT ![o] = y]
  BY <1>1, SymbolType, <1>2
<1> HIDE DEF y
<1>5. /\ symbol' \in [Object -> SymbolRecord]
      /\ symbol'[o] = y
      /\ \A q \in Object : q # o => symbol'[q] = symbol[q]
  BY <1>0, <1>2, <1>3, <1>4, Replaced
<1>6. \A q \in live : q \in Object
  BY DEF Inv, TypeOK
<1>7. \A q \in Object :
        /\ symbol'[q].path = symbol[q].path /\ symbol'[q].loaded = symbol[q].loaded
        /\ symbol'[q].chain = symbol[q].chain /\ symbol'[q].node = symbol[q].node
        /\ symbol'[q].applied = symbol[q].applied
  BY <1>3, <1>5
<1>8. TypeOK'
  BY <1>0, <1>2, <1>5 DEF Inv, TypeOK, SymbolRecord
<1>9. Types'
  BY <1>0 DEF Inv, Types
<1>10. Threads'
  BY <1>0, <1>2, <1>7 DEF Inv, Threads
<1>11. Registries'
  <2>1. registered' = UNION { symbol'[q].handlers : q \in live' }
    BY <1>0, <1>2, <1>3, <1>5, <1>6 DEF Inv, Registries
  <2>2. \A q \in live' : \A g \in symbol'[q].handlers : SymbolOf[g] = symbol'[q].path
    <3>1. \A g \in symbol'[o].handlers : SymbolOf[g] = symbol'[o].path
      BY <1>2, <1>3, <1>5 DEF Inv, Registries
    <3>2. QED
      BY <1>0, <1>5, <1>6, <3>1 DEF Inv, Registries
  <2>3. \A q, r \in live' : symbol'[q].path = symbol'[r].path => q = r
    BY <1>0, <1>6, <1>7 DEF Inv, Registries
  <2>4. \A f, g \in registered' : Id[f] = Id[g] => f = g
    BY <1>0, <1>2 DEF Inv, Registries, ToAdd, Ids
  <2>5. QED
    BY <2>1, <2>2, <2>3, <2>4 DEF Registries
<1>12. Phases' /\ Ends'
  <2>1. ASSUME NEW q \in live
        PROVE  symbol'[q].handlers # {} \/ \E g \in ToAdd' : SymbolOf[g] = symbol'[q].path
    <3>1. CASE q = o
      BY <1>3, <1>5, <3>1
    <3>2. CASE q # o /\ symbol[q].handlers = {}
      <4>1. PICK g \in ToAdd : SymbolOf[g] = symbol[q].path
        BY <1>0, <1>2, <3>2 DEF Inv, Phases
      <4>2. SymbolOf[g] # SymbolOf[h]
        BY <1>0, <1>2, <3>2, <4>1 DEF Inv, Registries
      <4>3. Id[g] # Id[h]
        BY <1>0, <1>2, <4>1, <4>2, HandlersAssumption DEF Inv, TypeOK, ToAdd
      <4>4. g \in ToAdd'
        BY <1>0, <4>1, <4>3 DEF ToAdd, Ids
      <4>5. QED
        BY <1>0, <1>6, <1>7, <4>1, <4>4
    <3>3. QED
      BY <1>5, <1>6, <3>1, <3>2
  <2>2. QED
    BY <1>0, <1>2, <2>1 DEF Inv, Phases, Ends, Active, Ended
<1>13. Fields' /\ Clean' /\ Gone' /\ Forgotten'
  BY <1>0, <1>1, <1>2, <1>3, <1>4, HandlersChange DEF importVars
<1>14. Current'
  BY <1>0, <1>1, <1>2, <1>3, <1>5, <1>6, Met DEF Inv, Current, Hooks
<1>15. Coming'
  BY <1>0, <1>2, <1>6, <1>7 DEF Inv, Coming, Place
<1>16. Settled'
  BY <1>2 DEF Settled
<1>17. QED
  BY <1>8, <1>9, <1>10, <1>11, <1>12, <1>13, <1>14, <1>15, <1>16 DEF Inv

LEMMA UpdateHandlerInv ==
    ASSUME Inv, NEW h \in Handler, UpdateHandler(h)
    PROVE  Inv'
<1> DEFINE same == { g \in registered : Id[g] = Id[h] }
<1>0. /\ registered' = (registered \ same) \cup {h} /\ pc = "add" /\ step["manager"] = "none"
      /\ pc' = "add" /\ ToAdd = {} /\ h \in target
      /\ UNCHANGED << live, watched, step, job, unseen, enabled, updating, resume, closing, late, target, todo,
                      commands, stale, strays, main, lock, mod, wrapped, callbacks, got, fresh >>
  BY DEF UpdateHandler, Goes, Reconciling, ByManager, importVars, shutdownVars, ToUpdate
<1>1. PICK o \in SymbolAt(SymbolOf[h]) :
        /\ symbol' = [symbol EXCEPT ![o].handlers = (@ \ same) \cup {h}, ![o].changed = TRUE]
        /\ Meets("manager", o)
  BY DEF UpdateHandler
<1> DEFINE x == symbol[o]
           y == [x EXCEPT !.handlers = (@ \ same) \cup {h}, !.changed = TRUE]
<1>2. /\ o \in live /\ o \in Object
      /\ Active /\ Held = live /\ Held' = live' /\ watched \subseteq live /\ (~ late => watched = live)
      /\ "manager" \in Thread /\ ~ enabled /\ x.path = SymbolOf[h]
      /\ \A q \in live : symbol[q].handlers # {}
  BY <1>0 DEF SymbolAt, Inv, TypeOK, Phases, Ends, Thread, Held, Active, Ended
<1> HIDE DEF same
<1>3. /\ y \in SymbolRecord
      /\ y.path = x.path /\ y.handlers = (x.handlers \ same) \cup {h} /\ y.chain = x.chain
      /\ y.loaded = x.loaded /\ y.applied = x.applied /\ y.node = x.node /\ y.changed
  BY <1>2, SymbolType DEF SymbolRecord
<1>4. symbol' = [symbol EXCEPT ![o] = y]
  BY <1>1, <1>2, SymbolType
<1> HIDE DEF y
<1>5. /\ symbol' \in [Object -> SymbolRecord]
      /\ symbol'[o] = y
      /\ \A q \in Object : q # o => symbol'[q] = symbol[q]
  BY <1>2, <1>3, <1>4, Replaced
<1>6. \A q \in live : q \in Object
  BY DEF Inv, TypeOK
<1>7. \A q \in Object :
        /\ symbol'[q].path = symbol[q].path /\ symbol'[q].loaded = symbol[q].loaded
        /\ symbol'[q].chain = symbol[q].chain /\ symbol'[q].node = symbol[q].node
        /\ symbol'[q].applied = symbol[q].applied
  BY <1>3, <1>5
<1>8. TypeOK'
  BY <1>0, <1>2, <1>5 DEF Inv, TypeOK, SymbolRecord
<1>9. Types'
  BY <1>0 DEF Inv, Types
<1>10. Threads'
  BY <1>0, <1>2, <1>7 DEF Inv, Threads
<1>11. Registries'
  <2>1. \A g \in same : SymbolOf[g] = x.path /\ g \in registered /\ Id[g] = Id[h]
    BY <1>2, HandlersAssumption DEF same, Inv, TypeOK
  <2>2. \A q \in live : q # o => symbol[q].handlers \cap same = {}
    BY <1>2, <2>1 DEF Inv, Registries
  <2>3. registered' = UNION { symbol'[q].handlers : q \in live' }
    <3>1. ASSUME NEW g \in registered'
          PROVE  \E q \in live' : g \in symbol'[q].handlers
      <4>1. CASE g = h
        BY <1>0, <1>2, <1>3, <1>5, <4>1
      <4>2. CASE g # h
        <5>1. g \in registered /\ g \notin same
          BY <1>0, <3>1, <4>2
        <5>2. PICK q \in live : g \in symbol[q].handlers
          BY <5>1 DEF Inv, Registries
        <5>3. g \in symbol'[q].handlers
          BY <1>3, <1>5, <1>6, <5>1, <5>2
        <5>4. QED
          BY <1>0, <5>3
      <4>3. QED
        BY <4>1, <4>2
    <3>2. ASSUME NEW q \in live', NEW g \in symbol'[q].handlers
          PROVE  g \in registered'
      <4>1. CASE q = o
        BY <1>0, <1>2, <1>3, <1>5, <3>2, <4>1 DEF Inv, Registries
      <4>2. CASE q # o
        BY <1>0, <1>5, <1>6, <2>2, <3>2, <4>2 DEF Inv, Registries
      <4>3. QED
        BY <4>1, <4>2
    <3>3. QED
      BY <3>1, <3>2
  <2>4. \A q \in live' : \A g \in symbol'[q].handlers : SymbolOf[g] = symbol'[q].path
    <3>1. \A g \in symbol'[o].handlers : SymbolOf[g] = symbol'[o].path
      BY <1>2, <1>3, <1>5 DEF Inv, Registries
    <3>2. QED
      BY <1>0, <1>5, <1>6, <3>1 DEF Inv, Registries
  <2>5. \A q, r \in live' : symbol'[q].path = symbol'[r].path => q = r
    BY <1>0, <1>6, <1>7 DEF Inv, Registries
  <2>6. \A f, g \in registered' : Id[f] = Id[g] => f = g
    BY <1>0 DEF Inv, Registries, same
  <2>7. QED
    BY <2>3, <2>4, <2>5, <2>6 DEF Registries
<1>12. Phases' /\ Ends'
  <2>1. \A q \in live : symbol'[q].handlers # {}
    BY <1>2, <1>3, <1>5, <1>6
  <2>2. QED
    BY <1>0, <1>2, <2>1 DEF Inv, Phases, Ends, Active, Ended
<1>13. Fields' /\ Clean' /\ Gone' /\ Forgotten'
  BY <1>0, <1>1, <1>2, <1>3, <1>4, HandlersChange DEF importVars
<1>14. Current'
  BY <1>0, <1>1, <1>2, <1>3, <1>5, <1>6, Met DEF Inv, Current, Hooks
<1>15. Coming'
  BY <1>0, <1>2, <1>6, <1>7 DEF Inv, Coming, Place
<1>16. Settled'
  BY <1>0 DEF Settled
<1>17. QED
  BY <1>8, <1>9, <1>10, <1>11, <1>12, <1>13, <1>14, <1>15, <1>16 DEF Inv

LEMMA RemoveHandlerInv ==
    ASSUME Inv, NEW h \in Handler, RemoveHandler(h)
    PROVE  Inv'
<1>0. /\ registered' = registered \ {h} /\ pc = "add" /\ step["manager"] = "none"
      /\ pc' = "add" /\ ToAdd = {}
      /\ UNCHANGED << step, job, unseen, enabled, updating, resume, closing, late, target, todo,
                      commands, stale, strays, main, lock, mod, wrapped, callbacks, got, fresh >>
  BY DEF RemoveHandler, Goes, Reconciling, ByManager, importVars, shutdownVars
<1>1. PICK o \in SymbolAt(SymbolOf[h]) :
        LET left == [symbol[o] EXCEPT !.handlers = @ \ {h}, !.changed = TRUE]
            empty == left.handlers = {}
        IN  /\ symbol' = [symbol EXCEPT ![o] = IF empty THEN Unhooked(left) ELSE left]
            /\ live' = IF empty THEN live \ {o} ELSE live
            /\ watched' = IF empty THEN watched \ {o} ELSE watched
            /\ Meets("manager", o)
  BY ZenonT(30) DEF RemoveHandler
<1> DEFINE x == symbol[o]
           left == [x EXCEPT !.handlers = @ \ {h}, !.changed = TRUE]
           empty == left.handlers = {}
           y == IF empty THEN Unhooked(left) ELSE left
<1>2. /\ o \in live /\ o \in Object /\ todo = {}
      /\ Active /\ Held = live /\ Held' = live' /\ watched \subseteq live /\ (~ late => watched = live)
      /\ "manager" \in Thread /\ ~ enabled /\ x.path = SymbolOf[h]
      /\ \A q \in live : symbol[q].handlers # {}
  BY <1>0 DEF SymbolAt, Inv, TypeOK, Phases, Ends, Thread, Held, Active, Ended
<1>3. /\ left \in SymbolRecord
      /\ left.path = x.path /\ left.handlers = x.handlers \ {h} /\ left.chain = x.chain
      /\ left.loaded = x.loaded /\ left.applied = x.applied /\ left.node = x.node /\ left.changed
  BY <1>2, SymbolType DEF SymbolRecord
<1> HIDE DEF left
<1>4. /\ y \in SymbolRecord
      /\ y.path = x.path /\ y.handlers = x.handlers \ {h} /\ y.chain = x.chain
      /\ y.loaded = x.loaded /\ y.changed /\ (y.applied => y.applied = x.applied)
      /\ IF empty THEN ~ y.applied /\ y.node = (IF x.applied THEN NoNode ELSE x.node)
                   ELSE y.applied = x.applied /\ y.node = x.node
  BY <1>3, UnhookedFields
<1>5. /\ symbol' = [symbol EXCEPT ![o] = y]
      /\ empty <=> y.handlers = {}
      /\ live' = (IF empty THEN live \ {o} ELSE live)
      /\ watched' = (IF empty THEN watched \ {o} ELSE watched)
      /\ Meets("manager", o)
  BY <1>1, <1>2, <1>3, <1>4 DEF left
<1> HIDE DEF empty, y
<1>6. /\ symbol' \in [Object -> SymbolRecord]
      /\ symbol'[o] = y
      /\ \A q \in Object : q # o => symbol'[q] = symbol[q]
  BY <1>2, <1>4, <1>5, Replaced
<1>7. /\ \A q \in live : q \in Object
      /\ live' \subseteq live
  BY <1>5 DEF Inv, TypeOK
<1>8. \A q \in Object :
        /\ symbol'[q].path = symbol[q].path /\ symbol'[q].loaded = symbol[q].loaded
        /\ symbol'[q].chain = symbol[q].chain
  BY <1>4, <1>6
<1>9. TypeOK'
  BY <1>0, <1>2, <1>5, <1>6, <1>7 DEF Inv, TypeOK, SymbolRecord
<1>10. Types'
  BY <1>0 DEF Inv, Types
<1>11. Threads'
  BY <1>0, <1>2, <1>8 DEF Inv, Threads
<1>12. Registries'
  <2>1. \A q \in live : q # o => h \notin symbol[q].handlers
    BY <1>2 DEF Inv, Registries
  <2>2. registered' = UNION { symbol'[q].handlers : q \in live' }
    <3>1. ASSUME NEW g \in registered'
          PROVE  \E q \in live' : g \in symbol'[q].handlers
      <4>1. g \in registered /\ g # h
        BY <1>0, <3>1
      <4>2. PICK q \in live : g \in symbol[q].handlers
        BY <4>1 DEF Inv, Registries
      <4>3. g \in symbol'[q].handlers /\ q \in live'
        BY <1>4, <1>5, <1>6, <1>7, <4>1, <4>2
      <4>4. QED
        BY <4>3
    <3>2. ASSUME NEW q \in live', NEW g \in symbol'[q].handlers
          PROVE  g \in registered'
      <4>1. CASE q = o
        BY <1>0, <1>2, <1>4, <1>6, <3>2, <4>1 DEF Inv, Registries
      <4>2. CASE q # o
        BY <1>0, <1>6, <1>7, <2>1, <3>2, <4>2 DEF Inv, Registries
      <4>3. QED
        BY <4>1, <4>2
    <3>3. QED
      BY <3>1, <3>2
  <2>3. \A q \in live' : \A g \in symbol'[q].handlers : SymbolOf[g] = symbol'[q].path
    <3>1. \A g \in symbol'[o].handlers : SymbolOf[g] = symbol'[o].path
      BY <1>2, <1>4, <1>6 DEF Inv, Registries
    <3>2. QED
      BY <1>6, <1>7, <3>1 DEF Inv, Registries
  <2>4. \A q, r \in live' : symbol'[q].path = symbol'[r].path => q = r
    BY <1>7, <1>8 DEF Inv, Registries
  <2>5. \A f, g \in registered' : Id[f] = Id[g] => f = g
    BY <1>0 DEF Inv, Registries
  <2>6. QED
    BY <2>2, <2>3, <2>4, <2>5 DEF Registries
<1>13. Phases' /\ Ends'
  <2>1. \A q \in live' : symbol'[q].handlers # {}
    BY <1>2, <1>5, <1>6, <1>7
  <2>2. QED
    BY <1>0, <1>2, <1>5, <2>1 DEF Inv, Phases, Ends, Active, Ended
<1>14. Fields' /\ Clean' /\ Gone' /\ Forgotten'
  <2>1. \/ y.applied = x.applied /\ y.node = x.node /\ Held' = Held
        \/ /\ ~ y.applied /\ y.node = IF x.applied THEN NoNode ELSE x.node
           /\ y.handlers = {} /\ Held' = Held \ {o}
    BY <1>2, <1>4, <1>5
  <2>2. QED
    BY <1>0, <1>2, <1>4, <1>5, <2>1, HandlersChange DEF importVars
<1>15. Current'
  <2>1. met \subseteq met'
    BY <1>2, <1>5, Met DEF Inv
  <2>2. ASSUME NEW q \in live', symbol'[q].path \notin met'
        PROVE  /\ q \in watched' /\ symbol'[q].chain => symbol'[q].node # NoNode
               /\ symbol'[q].applied =>
                    \/ symbol'[q].node = symbol'[q].handlers
                    \/ Hooks("manager", q)'
                    \/ symbol'[q].changed /\ pc' = "add"
    <3>1. q \in live /\ symbol[q].path \notin met
      BY <1>7, <1>8, <2>1, <2>2
    <3>2. CASE q = o
      <4>1. ~ empty
        BY <1>5, <2>2, <3>2
      <4>2. QED
        BY <1>0, <1>2, <1>4, <1>5, <1>6, <3>1, <3>2, <4>1 DEF Inv, Current
    <3>3. CASE q # o
      BY <1>0, <1>2, <1>5, <1>6, <1>7, <3>1, <3>3 DEF Inv, Current, Hooks
    <3>4. QED
      BY <3>2, <3>3
  <2>3. QED
    BY <2>2 DEF Current
<1>16. Coming'
  BY <1>0, <1>2, <1>5, <1>6, <1>7, <1>8 DEF Inv, Coming, Place
<1>17. Settled'
  BY <1>0 DEF Settled
<1>18. QED
  BY <1>9, <1>10, <1>11, <1>12, <1>13, <1>14, <1>15, <1>16, <1>17 DEF Inv

LEMMA StopUnlockedInv ==
    ASSUME Inv, NEW o \in Object, StopUnlocked(o)
    PROVE  Inv'
<1> DEFINE x == symbol[o]
           kept == x.handlers \cap Locked
           left == [x EXCEPT !.handlers = kept]
           y == IF kept = {} THEN Unhooked(left) ELSE left
           rehook == x.handlers # kept /\ kept # {} /\ x.applied
<1>0. /\ pc = "stop" /\ step["manager"] = "none" /\ pc' = "stop"
      /\ o \in todo /\ todo' = todo \ {o} /\ Meets("manager", o)
      /\ symbol' = [symbol EXCEPT ![o] = y]
      /\ watched' = (IF kept = {} THEN watched \ {o} ELSE watched)
      /\ live' = (IF kept = {} THEN live \ {o} ELSE live)
      /\ registered' = registered \ (x.handlers \ Locked)
      /\ IF rehook THEN Enter("manager", o, "gather") ELSE UNCHANGED << step, job >>
      /\ UNCHANGED << unseen, enabled, updating, resume, closing, late, target,
                      commands, stale, strays, main, lock, mod, wrapped, callbacks, got, fresh >>
  BY DEF StopUnlocked, Goes, Visit, ByManager, importVars, shutdownVars
<1>1. /\ o \in live /\ "manager" \in Thread
      /\ Active /\ Held = live /\ Held' = live' /\ watched \subseteq live /\ (~ late => watched = live)
      /\ \A q \in live : symbol[q].handlers # {}
      /\ \A q \in live \ todo : symbol[q].handlers \subseteq Locked
  BY <1>0 DEF Inv, TypeOK, Phases, Ends, Thread, Held, Active, Ended
<1>2. /\ left \in SymbolRecord
      /\ left.path = x.path /\ left.handlers = kept /\ left.chain = x.chain
      /\ left.loaded = x.loaded /\ left.applied = x.applied /\ left.node = x.node
      /\ left.changed = x.changed
  BY SymbolType DEF SymbolRecord
<1> HIDE DEF left
<1>3. /\ y \in SymbolRecord
      /\ y.path = x.path /\ y.handlers = kept /\ y.chain = x.chain
      /\ y.loaded = x.loaded /\ y.changed = x.changed
      /\ IF kept = {} THEN ~ y.applied /\ y.node = (IF x.applied THEN NoNode ELSE x.node)
                      ELSE y.applied = x.applied /\ y.node = x.node
  BY <1>2, UnhookedFields
<1> HIDE DEF y
<1>4. /\ symbol' \in [Object -> SymbolRecord]
      /\ symbol'[o] = y
      /\ \A q \in Object : q # o => symbol'[q] = symbol[q]
  BY <1>0, <1>3, Replaced
<1>5. /\ \A q \in live : q \in Object
      /\ live' \subseteq live /\ \A q \in live : q # o => q \in live'
  BY <1>0 DEF Inv, TypeOK
<1>6. \A q \in Object :
        /\ symbol'[q].path = symbol[q].path /\ symbol'[q].loaded = symbol[q].loaded
        /\ symbol'[q].chain = symbol[q].chain
  BY <1>3, <1>4
<1>7. /\ step' \in [Thread -> Steps] /\ job' \in [Thread -> Nat]
      /\ \A u \in Thread : u # "manager" => step'[u] = step[u] /\ job'[u] = job[u]
      /\ IF rehook THEN step'["manager"] = "gather" /\ job'["manager"] = o
         ELSE step'["manager"] = "none"
  <2>1. CASE rehook
    BY <1>0, <1>1, <2>1, Entered, ConfigsAssumption DEF Inv, Steps
  <2>2. CASE ~ rehook
    BY <1>0, <2>2 DEF Inv, Types
  <2>3. QED
    BY <2>1, <2>2
<1>8. TypeOK'
  <2>1. \A t \in Thread : step'[t] \in {"none", "gather", "install", "ask", "import"}
    BY <1>7 DEF Steps
  <2>2. todo' \subseteq live' /\ live' \subseteq Object /\ watched' \subseteq live'
        /\ registered' \subseteq Handler
    BY <1>0, <1>1 DEF Inv, TypeOK
  <2>3. QED
    BY <1>0, <1>4, <2>1, <2>2 DEF Inv, TypeOK, SymbolRecord
<1>9. Types'
  BY <1>0, <1>7 DEF Inv, Types
<1>10. Threads'
  <2>1. rehook => o \in live' /\ x.loaded
    BY <1>0, <1>1 DEF Inv, Fields
  <2>2. QED
    BY <1>0, <1>6, <1>7, <2>1, HandlersAssumption DEF Inv, Threads, Thread
<1>11. Registries'
  <2>1. \A q \in live : q # o => symbol[q].handlers \cap x.handlers = {}
    BY <1>1 DEF Inv, Registries
  <2>2. registered' = UNION { symbol'[q].handlers : q \in live' }
    <3>1. ASSUME NEW g \in registered'
          PROVE  \E q \in live' : g \in symbol'[q].handlers
      <4>1. g \in registered /\ ~ (g \in x.handlers /\ g \notin Locked)
        BY <1>0, <3>1
      <4>2. PICK q \in live : g \in symbol[q].handlers
        BY <4>1 DEF Inv, Registries
      <4>3. CASE q = o
        <5>1. g \in kept
          BY <4>1, <4>2, <4>3
        <5>2. QED
          BY <1>0, <1>1, <1>3, <1>4, <5>1
      <4>4. CASE q # o
        BY <1>4, <1>5, <4>2, <4>4
      <4>5. QED
        BY <4>3, <4>4
    <3>2. ASSUME NEW q \in live', NEW g \in symbol'[q].handlers
          PROVE  g \in registered'
      <4>1. CASE q = o
        BY <1>0, <1>1, <1>3, <1>4, <3>2, <4>1 DEF Inv, Registries
      <4>2. CASE q # o
        BY <1>0, <1>4, <1>5, <2>1, <3>2, <4>2 DEF Inv, Registries
      <4>3. QED
        BY <4>1, <4>2
    <3>3. QED
      BY <3>1, <3>2
  <2>3. \A q \in live' : \A g \in symbol'[q].handlers : SymbolOf[g] = symbol'[q].path
    <3>1. \A g \in symbol'[o].handlers : SymbolOf[g] = symbol'[o].path
      BY <1>1, <1>3, <1>4 DEF Inv, Registries
    <3>2. QED
      BY <1>4, <1>5, <3>1 DEF Inv, Registries
  <2>4. \A q, r \in live' : symbol'[q].path = symbol'[r].path => q = r
    BY <1>5, <1>6 DEF Inv, Registries
  <2>5. \A f, g \in registered' : Id[f] = Id[g] => f = g
    BY <1>0 DEF Inv, Registries
  <2>6. QED
    BY <2>2, <2>3, <2>4, <2>5 DEF Registries
<1>12. Phases' /\ Ends'
  <2>1. \A q \in live' : symbol'[q].handlers # {}
    BY <1>0, <1>1, <1>3, <1>4, <1>5
  <2>2. \A q \in live' \ todo' : symbol'[q].handlers \subseteq Locked
    BY <1>0, <1>1, <1>3, <1>4, <1>5
  <2>3. QED
    BY <1>0, <1>1, <2>1, <2>2 DEF Inv, Phases, Ends, Active, Ended
<1>13. Fields' /\ Clean' /\ Gone' /\ Forgotten'
  <2>1. \/ y.applied = x.applied /\ y.node = x.node /\ Held' = Held
        \/ /\ ~ y.applied /\ y.node = IF x.applied THEN NoNode ELSE x.node
           /\ y.handlers = {} /\ Held' = Held \ {o}
    BY <1>0, <1>1, <1>3
  <2>2. \/ step'["manager"] = "none"
        \/ step'["manager"] = "gather" /\ job'["manager"] = o /\ Held' = Held
    BY <1>0, <1>1, <1>7
  <2>3. o \in Held
    BY <1>1
  <2>4. QED
    BY <1>0, <1>3, <1>7, <2>1, <2>2, <2>3, HandlersChange DEF importVars
<1>14. Current'
  <2>1. met \subseteq met'
    BY <1>0, <1>1, Met DEF Inv
  <2>2. ASSUME NEW q \in live', symbol'[q].path \notin met'
        PROVE  /\ q \in watched' /\ symbol'[q].chain => symbol'[q].node # NoNode
               /\ symbol'[q].applied =>
                    \/ symbol'[q].node = symbol'[q].handlers
                    \/ Hooks("manager", q)'
    <3>1. q \in live /\ symbol[q].path \notin met
      BY <1>5, <1>6, <2>1, <2>2
    <3>2. /\ q \in watched /\ symbol[q].chain => symbol[q].node # NoNode
          /\ symbol[q].applied => symbol[q].node = symbol[q].handlers
      BY <1>0, <1>1, <3>1 DEF Inv, Current, Hooks
    <3>3. CASE q = o
      <4>1. kept # {}
        BY <1>0, <2>2, <3>3
      <4>2. /\ watched' = watched /\ symbol'[q] = y /\ y.node = x.node /\ y.applied = x.applied
            /\ y.chain = x.chain /\ y.handlers = kept
        BY <1>0, <1>3, <1>4, <3>3, <4>1
      <4>3. x.applied => x.handlers = kept \/ Hooks("manager", q)'
        BY <1>7, <3>3, <4>1 DEF Hooks
      <4>4. QED
        BY <3>2, <3>3, <4>2, <4>3
    <3>4. CASE q # o
      BY <1>0, <1>4, <1>5, <3>1, <3>2, <3>4
    <3>5. QED
      BY <3>3, <3>4
  <2>3. QED
    BY <2>2 DEF Current
<1>15. Coming'
  BY <1>0, <1>1, <1>5, <1>6, <1>7 DEF Inv, Coming, Place
<1>16. Settled'
  BY <1>0 DEF Settled
<1>17. QED
  BY <1>8, <1>9, <1>10, <1>11, <1>12, <1>13, <1>14, <1>15, <1>16 DEF Inv

LEMMA CreateInv ==
    ASSUME Inv, NEW h \in Handler, Create(h)
    PROVE  Inv'
<1> DEFINE p == SymbolOf[h]
           n == NewSymbol(p)
<1>1. Free # {} /\ Free \in SUBSET Nat
  BY ConfigsAssumption DEF Create, Free
<1>0. PICK o \in Free :
        /\ pc = "add" /\ step["manager"] = "none" /\ pc' = "add"
        /\ h \in ToAdd /\ SymbolAt(p) = {}
        /\ live' = live \cup {o} /\ watched' = watched \cup {o}
        /\ symbol' = [symbol EXCEPT ![o] = n]
        /\ strays' = [strays EXCEPT ![symbol[o].path] =
                        @ + IF symbol[o].node \notin {NoNode, {}} THEN 1 ELSE 0]
        /\ IF mod[ModuleOf[p]] \in {"absent", "asking", "found"}
           THEN UNCHANGED << step, job >> ELSE Enter("manager", o, "import")
        /\ unseen' = IF mod[ModuleOf[p]] = "found" /\ ~ wrapped[ModuleOf[p]]
                     THEN unseen \cup {o} ELSE unseen \ {o}
        /\ UNCHANGED << enabled, updating, resume, closing, late, target, todo, commands, registered,
                        main, lock, mod, wrapped, callbacks, got, fresh, met, stale >>
  <2> DEFINE c == CHOOSE x \in Free : \A y \in Free : x <= y
  <2>1. c \in Free
    BY <1>1, LeastExists
  <2>2. QED
    BY <2>1 DEF Create, Goes, importVars, shutdownVars
<1> DEFINE x == symbol[o]
           k == IF x.node \notin {NoNode, {}} THEN 1 ELSE 0
<1>2. /\ o \in Object /\ o \in Nat /\ o \notin live /\ o \notin watched
      /\ \A m \in Module : o \notin callbacks[m]
      /\ \A t \in Thread : job[t] # o
      /\ todo = {} /\ ~ enabled /\ "manager" \in Thread
      /\ Active /\ Held = live /\ Held' = live' /\ watched \subseteq live /\ (~ late => watched = live)
      /\ p \in Symbol /\ ModuleOf[p] \in Module
  <2>1. p \in Symbol /\ ModuleOf[p] \in Module
    BY HandlersAssumption
  <2>2. /\ todo = {} /\ ~ enabled
        /\ Active /\ Held = live /\ Held' = live' /\ watched \subseteq live /\ (~ late => watched = live)
    BY <1>0 DEF Inv, Phases, Ends, Held, Active, Ended
  <2>3. /\ o \in Object /\ o \notin live /\ o \notin watched
        /\ o \notin UNION { callbacks[m] : m \in Module } /\ o \notin { job[t] : t \in Thread }
    <3> DEFINE U == UNION { callbacks[m] : m \in Module }
               J == { job[t] : t \in Thread }
    <3>1. o \in Object \ (live \cup watched \cup U \cup J)
      BY <1>0 DEF Free
    <3> HIDE DEF U, J
    <3>2. o \in Object /\ o \notin live /\ o \notin watched /\ o \notin U /\ o \notin J
      BY <3>1
    <3>3. QED
      BY <3>2 DEF U, J
  <2>4. o \in Nat /\ "manager" \in Thread
    BY <2>3, ConfigsAssumption DEF Thread
  <2>5. QED
    BY <2>1, <2>2, <2>3, <2>4
<1>3. /\ n \in SymbolRecord
      /\ n.path = p /\ n.handlers = {} /\ ~ n.applied /\ ~ n.changed /\ ~ n.chain
      /\ n.node = NoNode /\ ~ n.loaded
  BY <1>2 DEF NewSymbol, SymbolRecord
<1> HIDE DEF n
<1>4. /\ symbol' \in [Object -> SymbolRecord]
      /\ symbol'[o] = n
      /\ \A q \in Object : q # o => symbol'[q] = symbol[q]
  BY <1>0, <1>2, <1>3, Replaced
<1>5. /\ step' \in [Thread -> Steps] /\ job' \in [Thread -> Nat]
      /\ \A u \in Thread : u # "manager" => step'[u] = step[u] /\ job'[u] = job[u]
      /\ IF mod[ModuleOf[p]] \in {"absent", "asking", "found"} THEN step'["manager"] = "none"
         ELSE step'["manager"] = "import" /\ job'["manager"] = o
  <2>1. CASE mod[ModuleOf[p]] \in {"absent", "asking", "found"}
    BY <1>0, <2>1 DEF Inv, Types
  <2>2. CASE ~ (mod[ModuleOf[p]] \in {"absent", "asking", "found"})
    BY <1>0, <1>2, <2>2, Entered DEF Inv, Steps
  <2>3. QED
    BY <2>1, <2>2
<1>6. \A q \in live : q \in Object /\ symbol'[q] = symbol[q]
  BY <1>2, <1>4 DEF Inv, TypeOK
<1>7. TypeOK'
  <2>1. \A t \in Thread : step'[t] \in {"none", "gather", "install", "ask", "import"}
    BY <1>5 DEF Steps
  <2>2. QED
    BY <1>0, <1>2, <1>4, <2>1 DEF Inv, TypeOK, SymbolRecord
<1>8. Types'
  <2>1. strays' \in [Symbol -> Nat]
    <3>1. k \in Nat /\ strays' = [strays EXCEPT ![x.path] = @ + k]
      BY <1>0
    <3> HIDE DEF k
    <3>2. strays \in [Symbol -> Nat]
      BY DEF Inv, Types
    <3>3. \A q \in Symbol : [strays EXCEPT ![x.path] = @ + k][q] \in Nat
      BY <3>1, <3>2
    <3>4. QED
      BY <3>1, <3>2, <3>3
  <2>2. QED
    BY <1>0, <1>5, <2>1 DEF Inv, Types
<1>9. \A t \in Thread : t # "manager" /\ step'[t] # "none" =>
          symbol'[job'[t]] = symbol[job[t]] /\ job'[t] = job[t] /\ step'[t] = step[t] /\ job[t] \in Object
  BY <1>2, <1>4, <1>5 DEF Inv, Threads
<1>10. Threads'
  BY <1>0, <1>2, <1>5, <1>9, HandlersAssumption DEF Inv, Threads, Thread
<1>11. Registries'
  <2>1. registered' = UNION { symbol'[q].handlers : q \in live' }
    BY <1>0, <1>3, <1>4, <1>6 DEF Inv, Registries
  <2>2. \A q \in live' : \A g \in symbol'[q].handlers : SymbolOf[g] = symbol'[q].path
    BY <1>0, <1>3, <1>4, <1>6 DEF Inv, Registries
  <2>3. \A q, r \in live' : symbol'[q].path = symbol'[r].path => q = r
    BY <1>0, <1>3, <1>4, <1>6 DEF Inv, Registries, SymbolAt
  <2>4. QED
    BY <1>0, <2>1, <2>2, <2>3 DEF Inv, Registries
<1>12. Phases' /\ Ends'
  <2>1. ToAdd' = ToAdd
    BY <1>0 DEF ToAdd, Ids
  <2>2. QED
    BY <1>0, <1>2, <1>3, <1>4, <1>6, <2>1 DEF Inv, Phases, Ends, Active, Ended
<1>13. Fields'
  BY <1>0, <1>3, <1>4 DEF Inv, Fields, Hooked
<1>14. Clean'
  BY <1>0, <1>5, <1>9 DEF Inv, Clean, Installs
<1>15. Gone'
  BY <1>0, <1>2, <1>4, <1>5 DEF Inv, Gone, Installs, In
<1>16. Forgotten'
  <2>1. x.path \notin met \cup stale => x.node \in {NoNode, {}}
    BY <1>2 DEF Inv, Gone, Fields, Hooked
  <2>2. ASSUME NEW q \in Symbol, q \notin met \cup stale
        PROVE  strays'[q] = 0
    <3>1. strays[q] = 0 /\ strays \in [Symbol -> Nat]
      BY <2>2 DEF Inv, Forgotten, Types
    <3>2. QED
      BY <1>0, <2>1, <2>2, <3>1
  <2>3. QED
    BY <1>0, <2>2 DEF Forgotten
<1>17. Current'
  BY <1>0, <1>2, <1>3, <1>4, <1>6 DEF Inv, Current, Hooks
<1>18. Coming'
  <2>1. Place(o)' = ModuleOf[p] /\ \A q \in live : Place(q)' = Place(q)
    BY <1>3, <1>4, <1>6 DEF Place
  <2>2. mod[ModuleOf[p]] \in Mods
    BY <1>2 DEF Inv, Types
  <2>3. ASSUME o \notin unseen'
        PROVE  \/ mod[ModuleOf[p]] \in {"absent", "asking"}
               \/ mod[ModuleOf[p]] \in {"found", "loading", "copying"} /\ wrapped[ModuleOf[p]]
               \/ step'["manager"] = "import" /\ job'["manager"] = o
    BY <1>0, <1>5, <2>2, <2>3 DEF Mods
  <2>4. ASSUME NEW q \in watched \ unseen, ~ symbol[q].loaded
        PROVE  LET m == Place(q)
               IN  \/ mod[m] \in {"absent", "asking"}
                   \/ mod[m] \in {"found", "loading", "copying"} /\ wrapped[m]
                   \/ q \in callbacks[m]
    BY <1>0, <1>2, <2>4 DEF Inv, Coming
  <2>5. QED
    BY <1>0, <1>2, <1>6, <2>1, <2>3, <2>4 DEF Coming
<1>19. Settled'
  BY <1>0 DEF Settled
<1>20. QED
  BY <1>7, <1>8, <1>10, <1>11, <1>12, <1>13, <1>14, <1>15, <1>16, <1>17, <1>18, <1>19 DEF Inv

-----------------------------------------------------------------------------
(* Hooking a symbol, on any thread. *)

LEMMA WatchedHeld ==
    ASSUME Inv
    PROVE  watched \subseteq live /\ \A o \in watched : o \in Object
BY DEF Inv, TypeOK

LEMMA GatherInv ==
    ASSUME Inv, NEW t \in Thread, Gather(t)
    PROVE  Inv'
<1> DEFINE o == job[t]
           x == symbol[o]
<1>0. /\ step[t] = "gather"
      /\ IF x.handlers = {} THEN Leave(t) ELSE Enter(t, o, "install")
      /\ got' = [got EXCEPT ![t] = x.handlers]
      /\ fresh' = [fresh EXCEPT ![t] = ~ x.chain]
      /\ Meets(t, o)
      /\ UNCHANGED << symbol, strays, stale, enabled, updating, pc, resume, closing, late, target, todo, commands,
                      live, registered, watched, main, lock, mod, wrapped,
                      callbacks, unseen >>
  BY DEF Gather, InSymbol, managerVars, registryVars, importVars, shutdownVars
<1>1. /\ o \in Object /\ o \in Nat /\ x.loaded /\ In(t, o) /\ x \in SymbolRecord
      /\ t = "manager" => pc \in {"stop", "apply"} /\ o \in live
  BY <1>0, ConfigsAssumption, SymbolType DEF Inv, Threads, In
<1>2. /\ step' \in [Thread -> Steps] /\ job' \in [Thread -> Nat]
      /\ \A u \in Thread : u # t => step'[u] = step[u] /\ job'[u] = job[u]
      /\ IF x.handlers = {} THEN step'[t] = "none" ELSE step'[t] = "install" /\ job'[t] = o
  <2> DEFINE j == job[t]
  <2>1. CASE x.handlers = {}
    BY <1>0, <2>1, Entered DEF Leave, Steps, Inv
  <2>2. CASE x.handlers # {}
    <3>1. j \in Nat /\ Enter(t, j, "install")
      BY <1>0, <1>1, <2>2
    <3> HIDE DEF j
    <3>2. /\ step' \in [Thread -> Steps] /\ job' \in [Thread -> Nat]
          /\ step'[t] = "install" /\ job'[t] = j
          /\ \A u \in Thread : u # t => step'[u] = step[u] /\ job'[u] = job[u]
      BY <3>1, Entered DEF Steps, Inv
    <3>3. QED
      BY <2>2, <3>2 DEF j
  <2>3. QED
    BY <2>1, <2>2
<1>3. /\ got' \in [Thread -> SUBSET Handler] /\ fresh' \in [Thread -> BOOLEAN]
      /\ got'[t] = x.handlers /\ fresh'[t] = ~ x.chain
      /\ \A u \in Thread : u # t => got'[u] = got[u] /\ fresh'[u] = fresh[u]
  BY <1>0, <1>1 DEF Inv, Types, SymbolRecord
<1> HIDE DEF o
<1>4. met \subseteq met' /\ (x.path \notin met' => \A u \in Thread : Installs(u, o) => u = t)
  BY <1>0, Met DEF Inv
<1>5. TypeOK'
  <2>1. \A u \in Thread : step'[u] \in {"none", "gather", "install", "ask", "import"}
    BY <1>2 DEF Steps
  <2>2. QED
    BY <1>0, <2>1 DEF Inv, TypeOK
<1>6. Types'
  BY <1>0, <1>2, <1>3 DEF Inv, Types
<1>7. Threads'
  BY <1>0, <1>1, <1>2, HandlersAssumption DEF Inv, Threads, Thread
<1>8. Registries' /\ Phases' /\ Ends' /\ Fields'
  BY <1>0 DEF Inv, Registries, Phases, Ends, Fields, Hooked, ToAdd, Held, Active, Ended
<1>9. Clean'
  <2>1. ASSUME NEW u \in Thread, step'[u] = "install", symbol[job'[u]].path \notin met'
        PROVE  /\ got'[u] = symbol[job'[u]].handlers
               /\ fresh'[u] = ~ symbol[job'[u]].chain
               /\ \A v \in Thread \ {u} : ~ (step'[v] = "install" /\ job'[v] = job'[u])
    <3>1. CASE u = t
      BY <1>2, <1>3, <1>4, <2>1, <3>1 DEF Installs
    <3>2. CASE u # t
      <4>1. step[u] = "install" /\ job'[u] = job[u] /\ job[u] # o
        BY <1>2, <1>4, <2>1, <3>2 DEF Installs
      <4>2. QED
        BY <1>2, <1>3, <1>4, <2>1, <3>2, <4>1 DEF Inv, Clean, Installs
    <3>3. QED
      BY <3>1, <3>2
  <2>2. QED
    BY <1>0, <2>1 DEF Clean, Installs
<1>17. Held' = Held /\ Active' = Active
  BY <1>0 DEF Held, Active, Ended
<1>10. Gone'
  BY <1>0, <1>1, <1>2, <1>4, <1>17 DEF Inv, Gone, Installs, In
<1>11. Forgotten'
  BY <1>0, <1>4 DEF Inv, Forgotten
<1>12. t = "manager" => x.handlers # {}
  BY <1>1 DEF Inv, Phases
<1>13. Current'
  <2>1. \A q \in live : Hooks("manager", q) => Hooks("manager", q)'
    BY <1>0, <1>2, <1>12 DEF Hooks, o, Thread
  <2>2. QED
    BY <1>0, <1>4, <1>17, <2>1 DEF Inv, Current
<1>14. Coming'
  BY <1>0, <1>2, <1>17 DEF Inv, Coming, Place, Thread
<1>15. Settled'
  <2>1. \A q \in live : \A u \in Thread :
            symbol[q].handlers # {} /\ Hooks(u, q) => Hooks(u, q)'
    BY <1>0, <1>2 DEF Hooks, o
  <2>2. pc \in {"idle", "load", "apply"} => \A q \in live : symbol[q].handlers # {}
    BY DEF Inv, Phases
  <2>3. \A u \in Thread : step[u] = "ask" => step'[u] = "ask" /\ job'[u] = job[u]
    BY <1>0, <1>2
  <2>4. QED
    BY <1>0, <1>4, <2>1, <2>2, <2>3, WatchedHeld DEF Inv, Settled
<1>16. QED
  BY <1>5, <1>6, <1>7, <1>8, <1>9, <1>10, <1>11, <1>13, <1>14, <1>15 DEF Inv

LEMMA InstallInv ==
    ASSUME Inv, NEW t \in Thread, Install(t)
    PROVE  Inv'
<1> DEFINE o == job[t]
           x == symbol[o]
           builds == (fresh[t] \/ x.node # NoNode) /\ got[t] \cap Broken = {}
           y == [x EXCEPT !.chain = TRUE,
                          !.applied = builds,
                          !.changed = @ /\ ~ builds,
                          !.node = IF builds THEN got[t] ELSE IF fresh[t] THEN {} ELSE @]
           k == IF fresh[t] /\ x.node # NoNode THEN 1 ELSE 0
<1>0. /\ step[t] = "install" /\ Leave(t)
      /\ symbol' = [symbol EXCEPT ![o] = y]
      /\ strays' = [strays EXCEPT ![x.path] = @ + k]
      /\ stale' = IF ~ builds /\ x.node \notin {NoNode, {}} THEN stale \cup {x.path} ELSE stale
      /\ got' = [got EXCEPT ![t] = {}] /\ fresh' = [fresh EXCEPT ![t] = FALSE]
      /\ Meets(t, o)
      /\ UNCHANGED << enabled, updating, pc, resume, closing, late, target, todo, commands,
                      live, registered, watched, main, lock, mod, wrapped,
                      callbacks, unseen >>
  <2>1. symbol' = [symbol EXCEPT ![o] = y]
    BY DEF Install
  <2>2. strays' = [strays EXCEPT ![x.path] = @ + k]
    BY DEF Install
  <2>3. stale' = IF ~ builds /\ x.node \notin {NoNode, {}} THEN stale \cup {x.path} ELSE stale
    BY DEF Install
  <2>4. step[t] = "install" /\ Leave(t) /\ Meets(t, o)
        /\ got' = [got EXCEPT ![t] = {}] /\ fresh' = [fresh EXCEPT ![t] = FALSE]
    BY DEF Install
  <2>5. UNCHANGED << enabled, updating, pc, resume, closing, late, target, todo, commands,
                      live, registered, watched, main, lock, mod, wrapped,
                      callbacks, unseen >>
    BY DEF Install, InSymbol, managerVars, registryVars, importVars, shutdownVars
  <2> HIDE DEF o, x, y, k, builds
  <2>6. QED
    BY <2>1, <2>2, <2>3, <2>4, <2>5
<1>1. /\ o \in Object /\ o \in Nat /\ x.loaded /\ Installs(t, o) /\ x \in SymbolRecord
      /\ got[t] \in SUBSET Handler /\ fresh[t] \in BOOLEAN
  BY <1>0, ConfigsAssumption, SymbolType DEF Inv, Threads, Installs, Types
<1> HIDE DEF o
<1>2. /\ y \in SymbolRecord
      /\ y.path = x.path /\ y.handlers = x.handlers /\ y.loaded = x.loaded /\ y.chain
      /\ y.applied = builds /\ y.changed = (x.changed /\ ~ builds)
      /\ y.node = IF builds THEN got[t] ELSE IF fresh[t] THEN {} ELSE x.node
  <2>1. builds \in BOOLEAN /\ {} \in SUBSET Handler
    OBVIOUS
  <2> HIDE DEF builds
  <2>2. QED
    BY <1>1, <2>1 DEF SymbolRecord
<1>3. got[t] # NoNode
  BY <1>1, HandlersAssumption DEF NoNode
<1> HIDE DEF builds, y
<1>4. /\ symbol' \in [Object -> SymbolRecord]
      /\ symbol'[o] = y
      /\ \A q \in Object : q # o => symbol'[q] = symbol[q]
  BY <1>0, <1>1, <1>2, Replaced
<1>5. \A q \in Object :
        /\ symbol'[q].path = symbol[q].path /\ symbol'[q].loaded = symbol[q].loaded
        /\ symbol'[q].handlers = symbol[q].handlers
  BY <1>2, <1>4
<1>6. /\ step' \in [Thread -> Steps] /\ job' \in [Thread -> Nat]
      /\ \A u \in Thread : u # t => step'[u] = step[u] /\ job'[u] = job[u]
      /\ step'[t] = "none"
  BY <1>0, Entered DEF Leave, Steps, Inv
<1>7. /\ \A q \in live : q \in Object
      /\ \A u \in Thread : step[u] # "none" => job[u] \in Object
      /\ met \subseteq met' /\ stale \subseteq stale'
  BY <1>0, Met DEF Inv, TypeOK, Threads
<1>8. x.path \notin met => /\ got[t] = x.handlers /\ fresh[t] = ~ x.chain
                          /\ \A u \in Thread \ {t} : ~ Installs(u, o)
  BY <1>1 DEF Inv, Clean, Installs
<1>9. TypeOK'
  <2>1. \A u \in Thread : step'[u] \in {"none", "gather", "install", "ask", "import"}
    BY <1>6 DEF Steps
  <2>2. QED
    BY <1>0, <1>4, <2>1 DEF Inv, TypeOK, SymbolRecord
<1>10. Types'
  <2>1. strays' \in [Symbol -> Nat]
    <3>1. k \in Nat /\ strays \in [Symbol -> Nat]
      BY DEF Inv, Types
    <3> HIDE DEF k
    <3>2. \A q \in Symbol : [strays EXCEPT ![x.path] = @ + k][q] \in Nat
      BY <3>1
    <3>3. QED
      BY <1>0, <3>1, <3>2
  <2>2. got' \in [Thread -> SUBSET Handler] /\ fresh' \in [Thread -> BOOLEAN]
    BY <1>0 DEF Inv, Types
  <2>3. QED
    BY <1>0, <1>6, <2>1, <2>2 DEF Inv, Types
<1>11. Threads'
  BY <1>0, <1>5, <1>6, HandlersAssumption DEF Inv, Threads, Thread
<1>12. Registries'
  BY <1>0, <1>5, <1>7 DEF Inv, Registries
<1>13. Phases' /\ Ends' /\ Held' = Held /\ Active' = Active
  BY <1>0, <1>5, <1>7 DEF Inv, Phases, Ends, ToAdd, Held, Active, Ended
<1>14. Fields'
  <2>1. /\ y.applied => y.loaded
        /\ y.node \notin {NoNode, {}} => y.applied \/ y.path \in stale'
    BY <1>0, <1>1, <1>2
  <2>2. QED
    BY <1>2, <1>4, <1>7, <2>1 DEF Inv, Fields, Hooked
<1>15. Clean'
  <2>1. ASSUME NEW u \in Thread, step'[u] = "install", symbol'[job'[u]].path \notin met'
        PROVE  /\ got'[u] = symbol'[job'[u]].handlers
               /\ fresh'[u] = ~ symbol'[job'[u]].chain
               /\ \A v \in Thread \ {u} : ~ (step'[v] = "install" /\ job'[v] = job'[u])
    <3>1. u # t /\ step[u] = "install" /\ job'[u] = job[u] /\ job[u] \in Object
          /\ symbol[job[u]].path \notin met
      BY <1>5, <1>6, <1>7, <2>1
    <3>2. job[u] # o
      BY <1>1, <3>1 DEF Inv, Clean, Installs
    <3>3. got'[u] = got[u] /\ fresh'[u] = fresh[u]
      BY <1>0, <3>1 DEF Inv, Types
    <3>4. QED
      BY <1>4, <1>6, <3>1, <3>2, <3>3 DEF Inv, Clean, Installs
  <2>2. QED
    BY <2>1 DEF Clean, Installs
<1>16. Gone'
  <2>1. ASSUME NEW q \in Object \ Held, symbol[q].path \notin met'
        PROVE  q # o
    BY <1>1, <1>7, <2>1 DEF Inv, Gone
  <2>2. QED
    BY <1>0, <1>4, <1>5, <1>6, <1>7, <1>13, <2>1 DEF Inv, Gone, Installs, In
<1>17. Forgotten'
  <2>1. x.path \notin met => k = 0
    BY <1>1, <1>8 DEF Inv, Fields
  <2> HIDE DEF k
  <2>2. ASSUME NEW q \in Symbol, q \notin met \cup stale
        PROVE  strays'[q] = 0
    <3>1. strays[q] = 0 /\ strays \in [Symbol -> Nat]
      BY <2>2 DEF Inv, Forgotten, Types
    <3>2. QED
      BY <1>0, <2>1, <2>2, <3>1
  <2>3. QED
    BY <1>7, <2>2 DEF Forgotten
<1>18. Current'
  <2>1. ASSUME o \in live, Active, x.path \notin met
        PROVE  (o \in watched => y.node # NoNode) /\ (y.applied => y.node = y.handlers)
    <3>1. ~ fresh[t] /\ o \in watched => x.node # NoNode
      BY <1>8, <2>1 DEF Inv, Current
    <3>2. QED
      BY <1>2, <1>3, <1>8, <2>1, <3>1 DEF NoNode
  <2>2. \A q \in live : q # o /\ Hooks("manager", q) => Hooks("manager", q)'
    BY <1>0, <1>6 DEF Hooks, o, Thread
  <2>3. QED
    BY <1>0, <1>2, <1>4, <1>5, <1>7, <1>13, <2>1, <2>2 DEF Inv, Current
<1>19. Coming'
  BY <1>0, <1>5, <1>6, <1>7, <1>13, WatchedHeld DEF Inv, Coming, Place, Thread
<1>20. Settled'
  <2>1. ASSUME o \in watched, pc \in {"idle", "load", "apply"}, enabled, x.path \notin met,
               x.handlers \cap Broken = {}
        PROVE  y.applied /\ y.node = y.handlers
    <3>1. ~ fresh[t] => x.node # NoNode
      BY <1>8, <2>1, WatchedHeld DEF Inv, Phases, Current, Active
    <3>2. QED
      BY <1>2, <1>8, <2>1, <3>1 DEF builds
  <2>2. \A q \in live : \A u \in Thread : q # o /\ Hooks(u, q) => Hooks(u, q)'
    BY <1>6 DEF Hooks, o
  <2>3. \A u \in Thread : step[u] = "ask" => step'[u] = "ask" /\ job'[u] = job[u]
    BY <1>0, <1>6
  <2>4. ASSUME NEW q \in watched' \ (unseen' \cup todo'), pc' \in {"idle", "load", "apply"}, enabled',
               symbol'[q].loaded, symbol'[q].path \notin met', symbol'[q].handlers \cap Broken = {}
        PROVE  \/ symbol'[q].applied /\ symbol'[q].node = symbol'[q].handlers
               \/ \E u \in Thread : \/ Hooks(u, q)'
                                    \/ step'[u] = "ask" /\ job'[u] = q /\ ~ symbol'[q].applied
    <3>1. CASE q = o
      BY <1>0, <1>2, <1>4, <1>7, <2>1, <2>4, <3>1
    <3>2. CASE q # o
      <4>1. symbol'[q] = symbol[q]
        BY <1>0, <1>4, <1>7, <2>4, <3>2, WatchedHeld
      <4>2. QED
        BY <1>0, <1>7, <2>2, <2>3, <2>4, <3>2, <4>1, WatchedHeld DEF Inv, Settled
    <3>3. QED
      BY <3>1, <3>2
  <2>5. QED
    BY <2>4 DEF Settled
<1>21. QED
  BY <1>9, <1>10, <1>11, <1>12, <1>13, <1>14, <1>15, <1>16, <1>17, <1>18, <1>19, <1>20 DEF Inv

-----------------------------------------------------------------------------
(* Imports. *)

\* What steps of the import itself keep.
LEMMA ImportInv ==
    ASSUME Inv, NoCallback
    PROVE  /\ TypeOK' /\ Registries' /\ Phases' /\ Ends' /\ Fields' /\ Clean' /\ Forgotten'
           /\ Current' /\ Settled' /\ Held' = Held /\ Active' = Active
<1> USE DEF NoCallback, ByImporter, managerVars, registryVars, shutdownVars
<1>1. TypeOK'
  BY DEF Inv, TypeOK
<1>2. Registries' /\ Fields' /\ Clean' /\ Forgotten'
  BY DEF Inv, Registries, Fields, Clean, Forgotten, Hooked, Installs
<1>3. Phases' /\ Ends'
  BY DEF Inv, Phases, Ends, ToAdd, Held, Active, Ended
<1>4. Current' /\ Settled'
  BY DEF Inv, Current, Settled, Active, Ended, Hooks
<1>5. Held' = Held /\ Active' = Active
  BY DEF Held, Active, Ended
<1>6. QED
  BY <1>1, <1>2, <1>3, <1>4, <1>5

LEMMA PlaceType ==
    ASSUME Inv
    PROVE  \A o \in watched : Place(o) \in Module
BY SymbolType, WatchedHeld, HandlersAssumption DEF Place, SymbolRecord

LEMMA FindInv ==
    ASSUME Inv, NEW m \in Module, Find(m)
    PROVE  Inv'
<1> USE DEF Find, NoCallback, ByImporter, managerVars, registryVars, shutdownVars
<1>0. Held' = Held /\ Active' = Active
  BY ImportInv
<1>1. Types' /\ Threads'
  BY DEF Inv, Types, Threads, Mods
<1>2. Gone'
  BY <1>0 DEF Inv, Gone, Installs, In
<1>3. Coming'
  BY <1>0, PlaceType DEF Inv, Coming, Place, Types
<1>4. QED
  BY <1>1, <1>2, <1>3, ImportInv DEF Inv

LEMMA WrapInv ==
    ASSUME Inv, NEW m \in Module, Wrap(m)
    PROVE  Inv'
<1> USE DEF Wrap, NoCallback, ByImporter, managerVars, registryVars, shutdownVars
<1>0. Held' = Held /\ Active' = Active
  BY ImportInv
<1>1. Types' /\ Threads'
  BY DEF Inv, Types, Threads, Mods
<1>2. Gone'
  BY <1>0 DEF Inv, Gone, Installs, In
<1>3. Coming'
  BY <1>0, PlaceType DEF Inv, Coming, Place, Types
<1>4. QED
  BY <1>1, <1>2, <1>3, ImportInv DEF Inv

LEMMA LoadInv ==
    ASSUME Inv, NEW m \in Module, Load(m)
    PROVE  Inv'
<1> USE DEF Load, NoCallback, ByImporter, managerVars, registryVars, shutdownVars
<1>0. Held' = Held /\ Active' = Active
  BY ImportInv
<1>1. Types' /\ Threads'
  BY DEF Inv, Types, Threads, Mods
<1>2. Gone'
  BY <1>0 DEF Inv, Gone, Installs, In
<1>3. Coming'
  BY <1>0, PlaceType DEF Inv, Coming, Place, Types
<1>4. QED
  BY <1>1, <1>2, <1>3, ImportInv DEF Inv

LEMMA ExecutedInv ==
    ASSUME Inv, NEW m \in Module, Executed(m)
    PROVE  Inv'
<1> USE DEF Executed, NoCallback, ByImporter, managerVars, registryVars, shutdownVars
<1>0. Held' = Held /\ Active' = Active
  BY ImportInv
<1>1. Types' /\ Threads'
  BY DEF Inv, Types, Threads, Mods
<1>2. Gone'
  BY <1>0 DEF Inv, Gone, Installs, In
<1>3. Coming'
  BY <1>0, PlaceType DEF Inv, Coming, Place, Types
<1>4. QED
  BY <1>1, <1>2, <1>3, ImportInv DEF Inv

LEMMA NotifyInv ==
    ASSUME Inv, NEW m \in Module, Notify(m)
    PROVE  Inv'
<1> USE DEF Notify, NoCallback, ByImporter, managerVars, registryVars, shutdownVars
<1> DEFINE new == { o \in watched : Place(o) = m }
<1>1. /\ new \subseteq watched /\ watched \subseteq Object /\ watched \subseteq Held
      /\ Held' = Held /\ Active' = Active
  BY ImportInv DEF Inv, TypeOK, Phases
<1>2. /\ callbacks' \in [Module -> SUBSET Object] /\ callbacks'[m] = new
      /\ \A n \in Module : n # m => callbacks'[n] = callbacks[n]
  BY <1>1 DEF Inv, Types
<1>3. /\ mod' \in [Module -> Mods] /\ mod[m] = "copying" /\ mod'[m] = "notify"
      /\ \A n \in Module : n # m => mod'[n] = mod[n]
  BY DEF Inv, Types, Mods
<1>4. \A o \in watched : Place(o) = m => o \in new
  OBVIOUS
<1> HIDE DEF new
<1>5. Types'
  BY <1>2, <1>3 DEF Inv, Types
<1>6. Threads'
  BY <1>2, <1>3 DEF Inv, Threads
<1>7. Gone'
  BY <1>1, <1>2 DEF Inv, Gone, Installs, In
<1>8. Coming'
  <2>1. ASSUME NEW o \in watched \ unseen, Active, pc # "down", ~ symbol[o].loaded
        PROVE  \/ mod'[Place(o)] \in {"absent", "asking"}
               \/ mod'[Place(o)] \in {"found", "loading", "copying"} /\ wrapped[Place(o)]
               \/ o \in callbacks'[Place(o)]
               \/ step["manager"] = "import" /\ job["manager"] = o
    <3>1. CASE Place(o) = m
      BY <1>2, <1>4, <2>1, <3>1
    <3>2. CASE Place(o) # m
      BY <1>2, <1>3, <2>1, <3>2, PlaceType DEF Inv, Coming
    <3>3. QED
      BY <3>1, <3>2
  <2>2. QED
    BY <1>1, <2>1 DEF Coming, Place
<1>9. QED
  BY <1>5, <1>6, <1>7, <1>8, ImportInv DEF Inv

LEMMA ImportedInv ==
    ASSUME Inv, NEW m \in Module, Imported(m)
    PROVE  Inv'
<1> USE DEF Imported, NoCallback, ByImporter, managerVars, registryVars, shutdownVars
<1>0. Held' = Held /\ Active' = Active
  BY ImportInv
<1>1. Types' /\ Threads'
  BY DEF Inv, Types, Threads, Mods
<1>2. Gone'
  BY <1>0 DEF Inv, Gone, Installs, In
<1>3. Coming'
  BY <1>0, PlaceType DEF Inv, Coming, Place, Types
<1>4. QED
  BY <1>1, <1>2, <1>3, ImportInv DEF Inv

LEMMA OnModuleLoadedInv ==
    ASSUME Inv, NEW m \in Module, OnModuleLoaded(m)
    PROVE  Inv'
<1>21. PICK o \in callbacks[m] :
        /\ step[m] = "none" /\ Enter(m, o, "ask")
        /\ callbacks' = [callbacks EXCEPT ![m] = @ \ {o}]
        /\ symbol' = [symbol EXCEPT ![o].loaded = TRUE, ![o].half = FALSE]
        /\ UNCHANGED << main, lock, mod, wrapped, unseen, enabled, updating, pc, resume, closing, late,
                        target, todo, commands, live, registered, watched, strays, got, fresh, met, stale >>
  BY DEF OnModuleLoaded, ByImporter, managerVars, registryVars, shutdownVars
<1>0. /\ o \in callbacks[m] /\ step[m] = "none" /\ Enter(m, o, "ask")
      /\ callbacks' = [callbacks EXCEPT ![m] = @ \ {o}]
      /\ UNCHANGED << main, lock, mod, wrapped, unseen, enabled, updating, pc, resume, closing, late,
                      target, todo, commands, live, registered, watched, strays, got, fresh, met, stale >>
  BY <1>21
<1> DEFINE x == symbol[o]
           y == [x EXCEPT !.loaded = TRUE, !.half = FALSE]
<1>1. /\ o \in Object /\ o \in Nat /\ mod[m] = "notify" /\ m \in Thread /\ m # "manager"
  <2>1. o \in Object
    BY DEF Inv, Types
  <2>2. QED
    BY <2>1, ConfigsAssumption, HandlersAssumption DEF Inv, Threads, Thread
<1>2. /\ y \in SymbolRecord
      /\ y.path = x.path /\ y.handlers = x.handlers /\ y.chain = x.chain /\ y.loaded
      /\ y.applied = x.applied /\ y.node = x.node /\ y.changed = x.changed
  BY <1>1, SymbolType DEF SymbolRecord
<1>3. symbol' = [symbol EXCEPT ![o] = y]
  BY <1>21, <1>1, SymbolType
<1> HIDE DEF y
<1>4. /\ symbol' \in [Object -> SymbolRecord]
      /\ symbol'[o] = y
      /\ \A q \in Object : q # o => symbol'[q] = symbol[q]
  BY <1>1, <1>2, <1>3, Replaced
<1>5. \A q \in Object :
        /\ symbol'[q].path = symbol[q].path /\ symbol'[q].handlers = symbol[q].handlers
        /\ symbol'[q].chain = symbol[q].chain /\ (symbol[q].loaded => symbol'[q].loaded)
        /\ symbol'[q].applied = symbol[q].applied /\ symbol'[q].node = symbol[q].node
        /\ symbol'[q].changed = symbol[q].changed /\ (symbol'[q].loaded => symbol[q].loaded \/ q = o)
  BY <1>2, <1>4
<1>6. /\ \A q \in live : q \in Object
      /\ \A u \in Thread : step[u] # "none" => job[u] \in Object
  BY DEF Inv, TypeOK, Threads
<1>7. /\ step' \in [Thread -> Steps] /\ job' \in [Thread -> Nat]
      /\ \A u \in Thread : u # m => step'[u] = step[u] /\ job'[u] = job[u]
      /\ step'[m] = "ask" /\ job'[m] = o
  BY <1>0, <1>1, Entered DEF Steps, Inv
<1>8. /\ callbacks' \in [Module -> SUBSET Object] /\ callbacks'[m] = callbacks[m] \ {o}
      /\ \A n \in Module : n # m => callbacks'[n] = callbacks[n]
  BY <1>0 DEF Inv, Types
<1>9. TypeOK'
  <2>1. \A t \in Thread : step'[t] \in {"none", "gather", "install", "ask", "import"}
    BY <1>7 DEF Steps
  <2>2. QED
    BY <1>0, <1>4, <2>1 DEF Inv, TypeOK, SymbolRecord
<1>10. Types'
  BY <1>0, <1>7, <1>8 DEF Inv, Types
<1>11. Threads'
  BY <1>0, <1>1, <1>2, <1>4, <1>5, <1>7, <1>8, HandlersAssumption DEF Inv, Threads, Thread
<1>12. Registries' /\ Phases' /\ Ends' /\ Held' = Held /\ Active' = Active
  BY <1>0, <1>5, <1>6 DEF Inv, Registries, Phases, Ends, ToAdd, Held, Active, Ended
<1>13. Fields'
  BY <1>0, <1>5 DEF Inv, Fields, Hooked
<1>14. Clean'
  BY <1>0, <1>5, <1>6, <1>7 DEF Inv, Clean, Installs
<1>15. Gone'
  <2>1. ASSUME NEW q \in Object \ Held, symbol[q].path \notin met
        PROVE  /\ ~ symbol'[q].applied
               /\ \A t \in Thread : ~ Installs(t, q)'
               /\ \/ symbol'[q].handlers = {}
                  \/ (\A t \in Thread : ~ In(t, q)') /\ \A n \in Module : q \notin callbacks'[n]
    <3>1. /\ ~ symbol[q].applied /\ \A t \in Thread : ~ Installs(t, q)
          /\ \/ symbol[q].handlers = {}
             \/ (\A t \in Thread : ~ In(t, q)) /\ \A n \in Module : q \notin callbacks[n]
      BY <2>1 DEF Inv, Gone
    <3>2. symbol[q].handlers # {} => q # o
      BY <3>1
    <3>3. QED
      BY <1>1, <1>5, <1>7, <1>8, <2>1, <3>1, <3>2 DEF Installs, In
  <2>2. QED
    BY <1>0, <1>5, <1>12, <2>1 DEF Gone
<1>16. Forgotten'
  BY <1>0 DEF Inv, Forgotten
<1>17. Current'
  <2>1. step'["manager"] = step["manager"] /\ job'["manager"] = job["manager"]
    BY <1>1, <1>7 DEF Thread
  <2>2. QED
    BY <1>0, <1>5, <1>6, <1>12, <2>1 DEF Inv, Current, Hooks
<1>18. Coming'
  <2>1. \A q \in Object : Place(q)' = Place(q)
    BY <1>5 DEF Place
  <2>2. ASSUME NEW q \in watched, ~ symbol'[q].loaded
        PROVE  ~ symbol[q].loaded /\ q # o
    BY <1>2, <1>4, <1>5, <2>2, WatchedHeld
  <2>3. \A q \in watched : Place(q) \in Module
    BY PlaceType
  <2>4. "manager" \in Thread
    BY DEF Thread
  <2>5. QED
    <3>1. step'["manager"] = step["manager"] /\ job'["manager"] = job["manager"]
      BY <1>1, <1>7, <2>4
    <3>2. \A q \in watched : q # o /\ q \in callbacks[Place(q)] => q \in callbacks'[Place(q)]
      BY <1>8, <2>3
    <3>3. QED
      BY <1>0, <1>12, <2>1, <2>2, <3>1, <3>2, WatchedHeld DEF Inv, Coming
<1>19. Settled'
  <2>1. \A q \in live : \A u \in Thread : Hooks(u, q) => Hooks(u, q)'
    BY <1>0, <1>7 DEF Hooks
  <2>2. \A u \in Thread : step[u] = "ask" => step'[u] = "ask" /\ job'[u] = job[u]
    BY <1>0, <1>7
  <2>3. ~ x.loaded => ~ x.applied
    BY <1>1 DEF Inv, Fields
  <2>4. ASSUME NEW q \in watched' \ (unseen' \cup todo'), pc' \in {"idle", "load", "apply"}, enabled',
               symbol'[q].loaded, symbol'[q].path \notin met', symbol'[q].handlers \cap Broken = {}
        PROVE  \/ symbol'[q].applied /\ symbol'[q].node = symbol'[q].handlers
               \/ \E u \in Thread : \/ Hooks(u, q)'
                                    \/ step'[u] = "ask" /\ job'[u] = q /\ ~ symbol'[q].applied
    <3>1. CASE q = o /\ ~ x.loaded
      BY <1>1, <1>2, <1>4, <1>7, <2>3, <3>1
    <3>2. CASE symbol[q].loaded
      BY <1>0, <1>5, <2>1, <2>2, <2>4, <3>2, WatchedHeld DEF Inv, Settled
    <3>3. QED
      BY <1>0, <1>5, <2>4, <3>1, <3>2, WatchedHeld
  <2>5. QED
    BY <2>4 DEF Settled
<1>20. QED
  BY <1>9, <1>10, <1>11, <1>12, <1>13, <1>14, <1>15, <1>16, <1>17, <1>18, <1>19 DEF Inv

LEMMA AskInv ==
    ASSUME Inv, NEW m \in Module, Ask(m)
    PROVE  Inv'
<1> DEFINE o == job[m]
<1>0. /\ step[m] = "ask"
      /\ IF updating THEN Leave(m) ELSE Enter(m, o, "gather")
      /\ unseen' = IF updating /\ ~ symbol[o].applied THEN unseen \cup {o} ELSE unseen
      /\ UNCHANGED << symbol, main, lock, mod, wrapped, callbacks, enabled, updating, pc, resume,
                      closing, late, target, todo, commands, live, registered, watched, strays, got, fresh, met, stale >>
  BY DEF Ask, ByImporter, managerVars, registryVars, importVars, shutdownVars
<1>1. m \in Thread /\ m # "manager" /\ o \in Object /\ o \in Nat /\ In(m, o) /\ mod[m] = "notify"
      /\ symbol[o].loaded
  BY <1>0, ConfigsAssumption, HandlersAssumption DEF Inv, Threads, Thread, In
<1> HIDE DEF o
<1>2. /\ step' \in [Thread -> Steps] /\ job' \in [Thread -> Nat]
      /\ \A u \in Thread : u # m => step'[u] = step[u] /\ job'[u] = job[u]
      /\ IF updating THEN step'[m] = "none" ELSE step'[m] = "gather" /\ job'[m] = o
  <2>1. CASE updating
    BY <1>0, <1>1, <2>1, Entered DEF Leave, Steps, Inv
  <2>2. CASE ~ updating
    <3>1. Enter(m, o, "gather")
      BY <1>0, <2>2
    <3>2. /\ step' \in [Thread -> Steps] /\ job' \in [Thread -> Nat]
          /\ step'[m] = "gather" /\ job'[m] = o
          /\ \A u \in Thread : u # m => step'[u] = step[u] /\ job'[u] = job[u]
      BY <1>1, <3>1, Entered DEF Steps, Inv
    <3>3. QED
      BY <2>2, <3>2
  <2>3. QED
    BY <2>1, <2>2
<1>3. TypeOK'
  <2>1. \A t \in Thread : step'[t] \in {"none", "gather", "install", "ask", "import"}
    BY <1>2 DEF Steps
  <2>2. QED
    BY <1>0, <2>1 DEF Inv, TypeOK
<1>4. Types'
  BY <1>0, <1>2 DEF Inv, Types
<1>5. Threads'
  BY <1>0, <1>1, <1>2, HandlersAssumption DEF Inv, Threads, Thread
<1>6. Registries' /\ Phases' /\ Ends' /\ Fields' /\ Forgotten' /\ Held' = Held /\ Active' = Active
  BY <1>0 DEF Inv, Registries, Phases, Ends, Fields, Forgotten, Hooked, ToAdd, Held, Active, Ended
<1>7. Clean'
  BY <1>0, <1>2 DEF Inv, Clean, Installs
<1>8. Gone'
  <2>1. \A u \in Thread, q \in Object : (In(u, q)' => In(u, q)) /\ (Installs(u, q)' => Installs(u, q))
    BY <1>1, <1>2 DEF In, Installs
  <2>2. QED
    BY <1>0, <1>6, <2>1 DEF Inv, Gone
<1>9. Current'
  BY <1>0, <1>1, <1>2, <1>6 DEF Inv, Current, Hooks, Thread
<1>10. Coming'
  BY <1>0, <1>1, <1>2, <1>6 DEF Inv, Coming, Place, Thread
<1>11. Settled'
  <2>1. \A q \in live : \A u \in Thread : Hooks(u, q) => Hooks(u, q)'
    BY <1>0, <1>2 DEF Hooks
  <2>2. ASSUME NEW q \in watched, q \notin unseen', NEW u \in Thread, step[u] = "ask", job[u] = q,
               ~ symbol[q].applied
        PROVE  Hooks(u, q)' \/ (step'[u] = "ask" /\ job'[u] = q)
    BY <1>0, <1>2, <2>2 DEF Hooks, o
  <2>3. QED
    BY <1>0, <2>1, <2>2, WatchedHeld DEF Inv, Settled
<1>12. QED
  BY <1>3, <1>4, <1>5, <1>6, <1>7, <1>8, <1>9, <1>10, <1>11 DEF Inv

-----------------------------------------------------------------------------
(* The theorems. *)

LEMMA StepInv == Inv /\ [Next]_vars => Inv'
<1> SUFFICES ASSUME Inv, [Next]_vars
             PROVE  Inv'
  OBVIOUS
<1>1. CASE UNCHANGED vars
  <2> USE <1>1 DEF vars, managerVars, registryVars, importVars, threadVars, shutdownVars
  <2>1. TypeOK' /\ Types' /\ Threads' /\ Registries' /\ Fields' /\ Clean' /\ Gone' /\ Forgotten'
    BY DEF Inv, TypeOK, Types, Threads, Registries, Fields, Clean, Gone, Forgotten, Hooked, Installs, In, Held, Active, Ended
  <2>2. Phases' /\ Ends' /\ Current' /\ Coming' /\ Settled'
    BY DEF Inv, Phases, Ends, Current, Coming, Settled, Held, Active, Ended, Hooks, ToAdd, Place
  <2>3. QED
    BY <2>1, <2>2 DEF Inv
<1>2. CASE OfManager
  BY <1>2, OffInv, OnInv, LoadFailsInv, LoadedInv, StoppedInv, ImportTargetInv, ReconciledInv,
     AppliedAllInv, ReconcileFailsInv, ShutdownInv, ResetInv, StoppedAllInv, DownInv, StopUnlockedInv, HookSymbolInv,
     StopInv, CreateInv, AddHandlerInv, RemoveHandlerInv, UpdateHandlerInv
  DEF OfManager, Works
<1>3. ASSUME NEW t \in Thread, Applying(t)
      PROVE  Inv'
  BY <1>3, GatherInv, InstallInv DEF Applying
<1>4. ASSUME NEW m \in Module, OfImporter(m)
      PROVE  Inv'
  BY <1>4, FindInv, WrapInv, LoadInv, ExecutedInv, NotifyInv, OnModuleLoadedInv, AskInv, ImportedInv
  DEF OfImporter
<1>5. QED
  BY <1>1, <1>2, <1>3, <1>4 DEF Next

\* Between commands no thread of an import is in a symbol, nor is the manager.
LEMMA QuietThreads ==
    ASSUME Inv, Quiet
    PROVE  \A t \in Thread : step[t] = "none"
BY DEF Inv, Quiet, Resting, Threads, Thread, Types, Steps

\* The manager's two registries agree between commands: one symbol for each
\* path that has handlers, with the handlers of the configuration while
\* enabled and at most the locked ones otherwise (_reconcile_handlers,
\* _stop_all_symbols_graceful and _reset_live_handlers).
THEOREM RegistriesCorrect == Spec => []RegistriesAgree
<1>1. ASSUME Inv
      PROVE  RegistriesAgree
  <2>1. ASSUME pc = "idle", NEW o \in live
        PROVE  SymbolAt(symbol[o].path) = {o}
    BY <1>1, <2>1 DEF Inv, Registries, SymbolAt
  <2>2. QED
    BY <1>1, <2>1 DEF Inv, Registries, Phases, Ended, RegistriesAgree
<1>2. QED
  BY InitInv, StepInv, <1>1, PTL DEF Spec

\* No hook survives its command, whatever modules are imported meanwhile and
\* whichever step of a reload fails: when nothing is under way each hook in
\* place is the one of a symbol that the manager knows and calls only its
\* handlers (Symbol.hook, unhook, stop and stop_unlocked), except where a
\* thread was hooking the symbol and where renewing a hook failed; and after
\* a shutdown there is none, unless a command to start came after shutdown had
\* left the manager's lock and before it stopped the control watch.
THEOREM NoHookLeft == Spec => []NoneLeft
<1>1. ASSUME Inv, Quiet, NEW p \in Symbol \ (met \cup stale)
      PROVE  /\ strays[p] = 0
             /\ \A o \in Hooked : symbol[o].path = p =>
                  /\ o \in live /\ symbol[o].node \subseteq symbol[o].handlers
                  /\ (~ enabled => symbol[o].node \subseteq Locked) /\ (closing => late)
  <2>1. strays[p] = 0
    BY <1>1 DEF Inv, Forgotten
  <2>2. ASSUME NEW o \in Hooked, symbol[o].path = p
        PROVE  /\ o \in live /\ symbol[o].node \subseteq symbol[o].handlers
               /\ (~ enabled => symbol[o].node \subseteq Locked) /\ (closing => late)
    <3>1. o \in Object /\ symbol[o].applied
      BY <1>1, <2>2 DEF Hooked, Inv, Fields
    <3>2. o \in Held
      BY <1>1, <2>2, <3>1 DEF Inv, Gone
    <3>3. Active /\ ~ Ended /\ o \in live
      BY <1>1, <3>2 DEF Inv, Phases, Held, Active, Ended, Quiet, Resting
    <3>4. symbol[o].node = symbol[o].handlers
      BY <1>1, <2>2, <3>1, <3>3, QuietThreads DEF Inv, Current, Hooks, Thread, Quiet, Resting
    <3>5. symbol[o].handlers \subseteq registered
      BY <1>1, <3>3 DEF Inv, Registries
    <3>6. ~ enabled => registered \subseteq Locked
      BY <1>1, <3>3 DEF Inv, Phases, Quiet, Resting
    <3>7. QED
      BY <3>3, <3>4, <3>5, <3>6 DEF Ended
  <2>3. QED
    BY <2>1, <2>2
<1>2. Inv => NoneLeft
  BY <1>1 DEF NoneLeft
<1>3. QED
  BY InitInv, StepInv, <1>2, PTL DEF Spec

\* No configured hook is missed: when nothing is under way and metrics are
\* enabled, each symbol of a loaded module is hooked with all its handlers,
\* unless one of them cannot be built, or the import met the update, or it is
\* one of those that shutdown had stopped when one more command came
\* (SymbolHandlerManager._apply_all_hooks, Symbol._on_module_loaded and
\* SymbolWatcher's notification).
THEOREM NoHookMissed == Spec => []NoneMissed
<1>1. ASSUME Inv, Quiet, pc = "idle", enabled, NEW o \in live \ unseen, mod[Place(o)] = "loaded",
             symbol[o].path \notin met, symbol[o].handlers \cap Broken = {}, ~ late \/ o \in watched
      PROVE  symbol[o].applied /\ symbol[o].node = symbol[o].handlers
  <2>1. todo = {} /\ ~ Ended /\ Active /\ o \in watched
    BY <1>1 DEF Inv, Phases, Held, Active
  <2>2. \A t \in Thread : step[t] = "none"
    BY <1>1, QuietThreads
  <2>3. callbacks[Place(o)] = {}
    BY <1>1, <2>1, PlaceType DEF Inv, Threads
  <2>4. symbol[o].loaded
    BY <1>1, <2>1, <2>2, <2>3 DEF Inv, Coming, Thread
  <2>5. QED
    BY <1>1, <2>1, <2>2, <2>4 DEF Inv, Settled, Hooks
<1>2. Inv => NoneMissed
  BY <1>1 DEF NoneMissed
<1>3. QED
  BY InitInv, StepInv, <1>2, PTL DEF Spec
=============================================================================
