------------------------- MODULE ProfilerManagerProofs -------------------------
(***************************************************************************)
(* Proofs about ProfilerManager, DbWriter and BufferManager, for every set *)
(* of threads, every pop size and every number of events, requests and     *)
(* edits: the types, that no buffer is dropped with events in it           *)
(* (NoneStranded), that the output file is open exactly while profiling is *)
(* started when no old command overtook (FileFollows), and that the worker *)
(* does not start what nobody asked for (StartsAsked).                     *)
(*                                                                         *)
(* Commands are numbered as they are inserted, and starts and stops        *)
(* alternate: a start has an odd number, a stop an even one, wherever it   *)
(* waits.  So the number of the command executed last tells whether the    *)
(* file is open, and that of the newest whether profiling is started.      *)
(***************************************************************************)
EXTENDS ProfilerManager, SequenceTheorems, FiniteSetTheorems, TLAPS

Odd(n) == n % 2 = 1
Commands ==
    {Event} \cup { Start(k) : k \in { n \in Nat : Odd(n) } }
            \cup { Stop(k) : k \in { n \in Nat : ~ Odd(n) } }

\* What TypeOK leaves open.
Places ==
    /\ queue \in [Thread -> Seq(Commands)]
    /\ batch \in Seq(Commands)
    /\ dpc = "sleep" => pos = 0 /\ unused = {}

\* The dump thread's lists: who may still insert is in the working list, and so is what waits.
Listed ==
    /\ \A t \in Thread : life[t] = "alive" => t \in ToSet(working)
    /\ \A t \in Thread : queue[t] # << >> => t \in ToSet(working)
    /\ \A t \in unused : queue[t] = << >> /\ life[t] = "ended"
    /\ \A t \in disabled \cup disables : life[t] = "ended"

\* Commands alternate, and the file follows the one executed last.
Alternate ==
    /\ Odd(newest) <=> (started /\ wpc # "stopped") \/ wpc \in {"enable", "started"}
    /\ wpc \in {"start", "enable", "started"} => ~ started
    /\ wpc \in {"stop", "insert_stop", "stopped"} => started
    /\ open <=> Odd(latest)

\* A request to start that has not been overtaken by a stop.
Wanted == notify /\ ~ started => asked = "start"

Inv == TypeOK /\ Places /\ Listed /\ Alternate /\ Wanted

USE DEF request, Answer

-----------------------------------------------------------------------------
(* Finite sets of numbers.                                                 *)

\* A set of finite sets that is not empty has a smallest one: induction, as a fact about sets.
LEMMA SmallestSet ==
    ASSUME NEW B, B # {}, \A K \in B : IsFiniteSet(K)
    PROVE  \E K \in B : \A L \in B : L \subseteq K => L = K
<1> DEFINE S == UNION B
<1>1. IsWellFoundedOn(StrictSubsetOrdering(S), FiniteSubsetsOf(S))
  BY FS_StrictSubsetOrderingWellFounded
<1>2. B \subseteq FiniteSubsetsOf(S)
  BY DEF FiniteSubsetsOf
<1>3. PICK K \in B : \A L \in B : ~ (<< L, K >> \in StrictSubsetOrdering(S))
  BY <1>1, <1>2, WFMin
<1>4. ASSUME NEW L \in B, L \subseteq K, L # K PROVE FALSE
  <2>1. << L, K >> \in (SUBSET S) \X (SUBSET S)
    BY <1>2 DEF FiniteSubsetsOf
  <2> QED BY <2>1, <1>3, <1>4 DEF StrictSubsetOrdering
<1> QED BY <1>3, <1>4

LEMMA MaxExists ==
    ASSUME NEW K \in SUBSET Nat, IsFiniteSet(K), K # {}
    PROVE  Max(K) \in K /\ \A k \in K : k <= Max(K)
<1>1. \E m \in K : \A k \in K : m >= k
  <2> SUFFICES ASSUME \A m \in K : \E k \in K : ~ (m >= k) PROVE FALSE
    OBVIOUS
  <2> DEFINE Above(m) == { k \in K : m < k }
             B == { Above(m) : m \in K }
  <2>1. B # {}
    OBVIOUS
  <2>2. \A L \in B : IsFiniteSet(L)
    BY FS_Subset
  <2>3. PICK m \in K : \A L \in B : L \subseteq Above(m) => L = Above(m)
    <3> HIDE DEF B
    <3>1. \E L \in B : \A M \in B : M \subseteq L => M = L
      BY <2>1, <2>2, SmallestSet
    <3> QED BY <3>1 DEF B
  <2>4. PICK k \in K : m < k
    <3>1. PICK k \in K : ~ (m >= k)
      OBVIOUS
    <3> QED BY <3>1
  <2>5. k \in Above(m) /\ k \notin Above(k)
    <3>1. k \in Nat /\ ~ (k < k)
      OBVIOUS
    <3> QED BY <2>4, <3>1
  <2>6. Above(k) \subseteq Above(m)
    <3>1. \A l \in K : k < l => m < l
      BY <2>4
    <3> QED BY <3>1
  <2>7. Above(k) \in B
    OBVIOUS
  <2> QED BY <2>3, <2>5, <2>6, <2>7
<1>2. Max(K) \in K /\ \A k \in K : Max(K) >= k
  BY <1>1 DEF Max
<1> QED BY <1>2

\* The numbers of a finite set can be put in rising order.
LEMMA RisingExists ==
    ASSUME NEW K \in SUBSET Nat, IsFiniteSet(K)
    PROVE  /\ Rising(K) \in [1 .. Cardinality(K) -> K]
           /\ \A k \in K : \E j \in 1 .. Cardinality(K) : Rising(K)[j] = k
<1> DEFINE Rises(f) == \A i, j \in DOMAIN f : i < j => f[i] < f[j]
           Has(L) == \E f \in [1 .. Cardinality(L) -> L] : Rises(f)
           Bad == { L \in SUBSET K : ~ Has(L) }
<1>1. Bad = {}
  <2> SUFFICES ASSUME Bad # {} PROVE FALSE
    OBVIOUS
  <2>1. \A L \in Bad : IsFiniteSet(L)
    BY FS_Subset
  <2>2. PICK L \in Bad : \A M \in Bad : M \subseteq L => M = L
    <3> HIDE DEF Bad
    <3> QED BY <2>1, SmallestSet
  <2>3. L \subseteq K /\ L \subseteq Nat /\ IsFiniteSet(L) /\ ~ Has(L)
    BY <2>1
  <2>4. CASE L = {}
    <3>1. Cardinality(L) = 0 /\ 1 .. 0 = {}
      BY <2>4, FS_EmptySet
    <3> DEFINE f == [i \in {} |-> 0]
    <3>2. f \in [1 .. Cardinality(L) -> L] /\ Rises(f)
      BY <3>1
    <3> QED BY <3>2, <2>3
  <2>5. CASE L # {}
    <3> DEFINE m == Max(L)
               M == L \ {m}
               n == Cardinality(L)
    <3>1. m \in L /\ \A k \in L : k <= m
      BY <2>3, <2>5, MaxExists
    <3>2. n \in Nat /\ n # 0 /\ Cardinality(M) = n - 1
      BY <2>3, <2>5, <3>1, FS_CardinalityType, FS_EmptySet, FS_RemoveElement
    <3> HIDE DEF m, n
    <3>3. Has(M)
      <4>1. M \in SUBSET K /\ M \subseteq L /\ M # L
        BY <2>3, <3>1
      <4> QED BY <4>1, <2>2
    <3>4. PICK f \in [1 .. Cardinality(M) -> M] : Rises(f)
      BY <3>3
    <3> DEFINE g == [i \in 1 .. n |-> IF i = n THEN m ELSE f[i]]
    <3>5. g \in [1 .. n -> L]
      <4> SUFFICES ASSUME NEW i \in 1 .. n PROVE (IF i = n THEN m ELSE f[i]) \in L
        OBVIOUS
      <4>1. i # n => i \in 1 .. Cardinality(M)
        BY <3>2
      <4> QED BY <4>1, <3>1, <3>4
    <3>6. Rises(g)
      <4> SUFFICES ASSUME NEW i \in 1 .. n, NEW j \in 1 .. n, i < j PROVE g[i] < g[j]
        OBVIOUS
      <4>1. i # n /\ i \in 1 .. Cardinality(M)
        BY <3>2
      <4>4. f[i] \in M /\ g[i] = f[i]
        BY <4>1, <3>4
      <4>2. CASE j = n
        <5>1. f[i] \in Nat /\ m \in Nat /\ f[i] <= m /\ f[i] # m /\ g[j] = m
          BY <4>4, <4>2, <3>1, <2>3
        <5> QED BY <5>1, <4>4
      <4>3. CASE j # n
        <5>1. j \in 1 .. Cardinality(M) /\ g[j] = f[j]
          BY <4>3, <3>2
        <5> QED BY <5>1, <4>1, <4>4, <3>4
      <4> QED BY <4>2, <4>3
    <3> HIDE DEF g
    <3>7. Has(L)
      BY <3>5, <3>6 DEF n
    <3> QED BY <3>7, <2>3
  <2> QED BY <2>4, <2>5
<1>2. Has(K)
  BY <1>1
<1>3. Rising(K) \in [1 .. Cardinality(K) -> K] /\ Rises(Rising(K))
  BY <1>2 DEF Rising
<1> HIDE DEF Bad, Has
<1>4. Cardinality(K) \in Nat
  BY FS_CardinalityType
<1>5. IsFiniteSet(1 .. Cardinality(K)) /\ Cardinality(1 .. Cardinality(K)) = Cardinality(K)
  BY <1>4, FS_Interval
<1>6. Rising(K) \in Injection(1 .. Cardinality(K), K)
  <2>1. ASSUME NEW i \in 1 .. Cardinality(K), NEW j \in 1 .. Cardinality(K), Rising(K)[i] = Rising(K)[j]
        PROVE  i = j
    <3>1. i \in Nat /\ j \in Nat
      BY <1>4
    <3>2. Rising(K)[i] \in Nat /\ DOMAIN Rising(K) = 1 .. Cardinality(K)
      BY <1>3
    <3>3. ~ (Rising(K)[i] < Rising(K)[j]) /\ ~ (Rising(K)[j] < Rising(K)[i])
      BY <2>1, <3>2
    <3>4. ~ (i < j) /\ ~ (j < i)
      BY <3>2, <3>3, <1>3
    <3> QED BY <3>1, <3>4
  <2> QED BY <2>1, <1>3 DEF Injection, IsInjective
<1>7. Rising(K) \in Surjection(1 .. Cardinality(K), K)
  BY <1>5, <1>6, FS_Injection
<1> QED BY <1>3, <1>7 DEF Surjection

\* What is left of a list: its elements that are not gone, and no other.
LEMMA WithoutProperties ==
    ASSUME NEW S, NEW s \in Seq(S), NEW gone
    PROVE  /\ Without(s, gone) \in Seq(S)
           /\ ToSet(Without(s, gone)) = ToSet(s) \ gone
<1> DEFINE K == { i \in DOMAIN s : s[i] \notin gone }
           n == Cardinality(K)
           f == Rising(K)
<1>1. Len(s) \in Nat /\ DOMAIN s = 1 .. Len(s) /\ \A i \in 1 .. Len(s) : s[i] \in S
  BY LenProperties, ElementOfSeq
<1>2. K \in SUBSET Nat /\ IsFiniteSet(K)
  <2>1. IsFiniteSet(1 .. Len(s))
    BY <1>1, FS_Interval
  <2> QED BY <1>1, <2>1, FS_Subset
<1>3. n \in Nat
  BY <1>2, FS_CardinalityType
<1> HIDE DEF K, n
<1>4. f \in [1 .. n -> K] /\ \A k \in K : \E j \in 1 .. n : f[j] = k
  BY <1>2, RisingExists DEF n
<1>5. Without(s, gone) = [j \in 1 .. n |-> s[f[j]]]
  BY <1>4 DEF Without, K
<1> HIDE DEF f
<1>6. \A j \in 1 .. n : s[f[j]] \in S /\ f[j] \in K /\ s[f[j]] \in ToSet(s) \ gone
  BY <1>1, <1>4 DEF K, ToSet
<1>7. Without(s, gone) \in Seq(S)
  BY <1>3, <1>5, <1>6, SeqDef
<1>8. DOMAIN Without(s, gone) = 1 .. n
  BY <1>5
<1>9. \A x \in ToSet(s) \ gone : x \in ToSet(Without(s, gone))
  <2> SUFFICES ASSUME NEW i \in DOMAIN s, s[i] \notin gone PROVE s[i] \in ToSet(Without(s, gone))
    BY DEF ToSet
  <2>1. PICK j \in 1 .. n : f[j] = i
    BY <1>4 DEF K
  <2> QED BY <2>1, <1>5, <1>8 DEF ToSet
<1>10. \A x \in ToSet(Without(s, gone)) : x \in ToSet(s) \ gone
  BY <1>5, <1>6, <1>8 DEF ToSet
<1> QED BY <1>7, <1>9, <1>10

-----------------------------------------------------------------------------
(* Commands and their numbers.                                             *)

LEMMA Parity == ASSUME NEW n \in Nat PROVE Odd(n + 1) <=> ~ Odd(n)
  BY DEF Odd

LEMMA CommandItems ==
    /\ Commands \subseteq Items
    /\ Event \in Commands
    /\ \A k \in Nat : Odd(k) => Start(k) \in Commands
    /\ \A k \in Nat : ~ Odd(k) => Stop(k) \in Commands
    /\ \A x \in Commands : /\ x.level = "start" => x.id \in Nat /\ Odd(x.id)
                           /\ x.level = "stop" => x.id \in Nat /\ ~ Odd(x.id)
<1> DEFINE Odds == { n \in Nat : Odd(n) }
           Evens == { n \in Nat : ~ Odd(n) }
<1>1. /\ Event \in Commands /\ Event \in Items /\ Event.level = "normal"
      /\ \A k \in Odds : Start(k) \in Commands
      /\ \A k \in Evens : Stop(k) \in Commands
  BY DEF Commands, Items, Event
<1>2. \A k \in Nat : /\ Start(k) \in Items /\ Start(k).level = "start" /\ Start(k).id = k
                     /\ Stop(k) \in Items /\ Stop(k).level = "stop" /\ Stop(k).id = k
  BY DEF Items, Start, Stop
<1>3. \A x \in Commands : x = Event \/ (\E k \in Odds : x = Start(k)) \/ (\E k \in Evens : x = Stop(k))
  BY DEF Commands
<1> QED BY <1>1, <1>2, <1>3

LEMMA CommandSequences == \A s \in Seq(Commands) : s \in Seq(Items)
  BY CommandItems, SeqMonotonic

LEMMA MinOfTwo ==
    ASSUME NEW a \in Nat, NEW b \in Nat
    PROVE  /\ Min({a, b}) \in {a, b} /\ Min({a, b}) <= a /\ Min({a, b}) <= b
<1>1. \E x \in {a, b} : \A y \in {a, b} : x =< y
  OBVIOUS
<1> QED BY <1>1 DEF Min

LEMMA ListsKept == ASSUME UNCHANGED managerVars, Places, Listed PROVE Places' /\ Listed'
  BY DEF managerVars, lists, dumper, Places, Listed

LEMMA ToSetAppend ==
    ASSUME NEW S, NEW s \in Seq(S), NEW x \in S
    PROVE  /\ Append(s, x) \in Seq(S) /\ Append(s, x) # << >>
           /\ ToSet(Append(s, x)) = ToSet(s) \cup {x}
<1>1. /\ Append(s, x) \in Seq(S) /\ Append(s, x) # << >> /\ Len(Append(s, x)) = Len(s) + 1
      /\ \A i \in 1 .. Len(s) : Append(s, x)[i] = s[i]
      /\ Append(s, x)[Len(s) + 1] = x
  BY AppendProperties
<1>2. Len(s) \in Nat /\ DOMAIN s = 1 .. Len(s) /\ DOMAIN Append(s, x) = 1 .. Len(s) + 1
  BY <1>1, LenProperties
<1>3. \A i \in 1 .. Len(s) + 1 : i \in 1 .. Len(s) \/ i = Len(s) + 1
  BY <1>2
<1> QED BY <1>1, <1>2, <1>3 DEF ToSet

\* Someone inserts a command or an event.
LEMMA InsertKept ==
    ASSUME Inv, NEW t \in Thread, NEW item \in Commands, Insert(t, item)
    PROVE  /\ UNCHANGED << life, working, disabled, dpc, works, disables, pos, unused, batch >>
           /\ Places' /\ Listed'
<1> USE DEF Insert, lists, dumper
<1>1. queue[t] \in Seq(Commands) /\ queue \in [Thread -> Seq(Commands)]
  BY DEF Inv, Places
<1>2. Append(queue[t], item) \in Seq(Commands)
  BY <1>1, AppendProperties
<1>3. Places'
  BY <1>1, <1>2 DEF Inv, Places
<1>4. Listed'
  BY <1>1 DEF Inv, Listed
<1> QED BY <1>3, <1>4

LEMMA InitInv == ASSUME Init PROVE Inv
<1> USE WorkerAssumption
<1>1. PICK inFile \in BOOLEAN, on \in BOOLEAN :
        /\ on => inFile
        /\ life = [t \in Thread |-> IF t = Worker \/ (on /\ t = Main) THEN "alive" ELSE "none"]
        /\ queue = [t \in Thread |-> IF on /\ t = Main THEN << Start(1) >> ELSE << >>]
        /\ working = IF on THEN << Main, Worker >> ELSE << Worker >>
        /\ disabled = {}
        /\ dpc = "sleep" /\ works = << >> /\ disables = {} /\ pos = 0 /\ unused = {}
        /\ batch = << >>
        /\ open = FALSE /\ latest = 0
        /\ upc = [u \in User |-> "idle"]
        /\ wpc = "sleep" /\ ret = "sleep"
        /\ enable = on /\ started = on /\ notify = on
        /\ file = inFile /\ changed = TRUE
        /\ events = 0 /\ requests = 0 /\ edits = 0
        /\ newest = IF on THEN 1 ELSE 0
        /\ asked = "none" /\ crossed = FALSE
  BY Zenon DEF Init
<1>2. Odd(1) /\ ~ Odd(0) /\ Start(1) \in Commands
  BY CommandItems DEF Odd
<1>3. << Start(1) >> \in Seq(Commands) /\ << >> \in Seq(Commands)
  BY <1>2
<1>4. Places
  BY <1>1, <1>3 DEF Places
<1>5. ToSet(working) = IF on THEN {Main, Worker} ELSE {Worker}
  <2>1. CASE on
    <3>1. DOMAIN working = 1 .. 2 /\ working[1] = Main /\ working[2] = Worker
      BY <1>1, <2>1
    <3>2. 1 .. 2 = {1, 2}
      OBVIOUS
    <3> QED BY <2>1, <3>1, <3>2 DEF ToSet
  <2>2. CASE ~ on
    <3>1. DOMAIN working = {1} /\ working[1] = Worker
      BY <1>1, <2>2
    <3> QED BY <2>2, <3>1 DEF ToSet
  <2> QED BY <2>1, <2>2
<1>6. TypeOK
  <2>1. Main \in Thread /\ Worker \in Thread
    OBVIOUS
  <2>2. << Main, Worker >> \in Seq(Thread) /\ << Worker >> \in Seq(Thread)
    BY <2>1
  <2>3. working \in Seq(Thread)
    BY <1>1, <2>2
  <2>4. works \in Seq(Thread) /\ Len(works) = 0
    BY <1>1, EmptySeq
  <2>5. queue \in [Thread -> Seq(Items)] /\ batch \in Seq(Items)
    BY <1>4, CommandSequences DEF Places
  <2>6. /\ newest \in Nat /\ latest \in Nat /\ pos \in 0 .. Len(works)
        /\ events \in 0 .. MaxEvents /\ requests \in 0 .. MaxRequests /\ edits \in 0 .. MaxEdits
    BY <1>1, <2>4
  <2>7. /\ enable \in BOOLEAN /\ started \in BOOLEAN /\ notify \in BOOLEAN
        /\ file \in BOOLEAN /\ changed \in BOOLEAN /\ open \in BOOLEAN
    BY <1>1
  <2> QED BY <1>1, <2>3, <2>4, <2>5, <2>6, <2>7 DEF TypeOK
<1>7. Listed
  BY <1>1, <1>5 DEF Listed
<1>8. Alternate /\ Wanted
  BY <1>1, <1>2 DEF Alternate, Wanted
<1> QED BY <1>4, <1>6, <1>7, <1>8 DEF Inv

-----------------------------------------------------------------------------
(* The application.                                                        *)

LEMMA FindEnabledInv == ASSUME Inv, NEW u \in User, FindEnabled(u) PROVE Inv'
<1> USE DEF FindEnabled
<1>1. Places' /\ Listed'
  BY ListsKept DEF Inv
<1>2. TypeOK'
  BY WorkerAssumption DEF Inv, TypeOK, managerVars, lists, dumper, writerVars, control, config
<1>3. Alternate' /\ Wanted'
  BY DEF Inv, Alternate, Wanted, writerVars, control
<1> QED BY <1>1, <1>2, <1>3 DEF Inv

LEMMA MakeWriterInv == ASSUME Inv, NEW u \in User, MakeWriter(u) PROVE Inv'
<1> USE DEF MakeWriter, Register, dumper
<1>1. u \in Thread /\ working \in Seq(Thread)
  BY WorkerAssumption DEF Inv, TypeOK
<1>2. working' \in Seq(Thread) /\ ToSet(working)' = ToSet(working) \cup {u}
  BY <1>1, ToSetAppend
<1>3. TypeOK'
  BY <1>2 DEF Inv, TypeOK, writerVars, control, config, bounds
<1>4. Places'
  BY DEF Inv, Places
<1>5. Listed'
  BY <1>1, <1>2 DEF Inv, TypeOK, Listed
<1>6. Alternate' /\ Wanted'
  BY DEF Inv, Alternate, Wanted, writerVars, control
<1> QED BY <1>3, <1>4, <1>5, <1>6 DEF Inv

LEMMA RecordEventInv == ASSUME Inv, NEW u \in User, RecordEvent(u) PROVE Inv'
<1> USE DEF RecordEvent
<1>1. u \in Thread /\ Event \in Commands
  BY WorkerAssumption, CommandItems
<1>2. /\ UNCHANGED << life, working, disabled, dpc, works, disables, pos, unused, batch >>
      /\ Places' /\ Listed'
  BY <1>1, InsertKept
<1>3. queue' \in [Thread -> Seq(Items)]
  BY <1>2, CommandSequences DEF Places
<1>4. TypeOK'
  BY <1>2, <1>3 DEF Inv, TypeOK, writerVars, control, config, bounds
<1>5. Alternate' /\ Wanted'
  BY DEF Inv, Alternate, Wanted, writerVars, control
<1> QED BY <1>2, <1>4, <1>5 DEF Inv

LEMMA EndThreadInv == ASSUME Inv, NEW u \in User, EndThread(u) PROVE Inv'
<1> USE DEF EndThread, Unregister, dumper
<1>1. u \in Thread
  BY WorkerAssumption
<1>2. TypeOK'
  BY <1>1 DEF Inv, TypeOK, writerVars, control, config, bounds
<1>3. Places' /\ Listed'
  BY <1>1 DEF Inv, TypeOK, Places, Listed
<1>4. Alternate' /\ Wanted'
  BY DEF Inv, Alternate, Wanted, writerVars, control
<1> QED BY <1>2, <1>3, <1>4 DEF Inv

LEMMA Underway == Stopping \in BOOLEAN /\ Starting \in BOOLEAN
<1>1. Stopping \in BOOLEAN
  BY SMT DEF Stopping
<1>2. Starting \in BOOLEAN
  BY SMT DEF Starting
<1> QED BY <1>1, <1>2

LEMMA NotifyInv == ASSUME Inv, NotifyStartProfiler \/ NotifyStopProfiler PROVE Inv'
<1> USE DEF NotifyStartProfiler, NotifyStopProfiler
<1>1. Places' /\ Listed'
  BY ListsKept DEF Inv
<1>2. TypeOK'
  <2>1. requests' \in 0 .. MaxRequests
    BY WorkerAssumption DEF Inv, TypeOK
  <2>2. notify' \in BOOLEAN /\ asked' \in {"none", "start", "stop"}
    BY DEF Inv, TypeOK
  <2>3. crossed' \in BOOLEAN
    <3>1. crossed' = Stopping \/ crossed' = Starting
      OBVIOUS
    <3> QED BY <3>1, Underway
  <2> QED BY <2>1, <2>2, <2>3 DEF Inv, TypeOK, managerVars, lists, dumper, writerVars, config
<1>3. Alternate'
  BY DEF Inv, Alternate, writerVars
<1>4. Wanted'
  BY DEF Inv, Alternate, Wanted, Stopping
<1> QED BY <1>1, <1>2, <1>3, <1>4 DEF Inv

LEMMA WriteConfigInv == ASSUME Inv, NEW on \in BOOLEAN, WriteConfig(on) PROVE Inv'
<1> USE DEF WriteConfig
<1>1. Places' /\ Listed'
  BY ListsKept DEF Inv
<1>2. TypeOK'
  <2>1. edits' \in 0 .. MaxEdits
    BY WorkerAssumption DEF Inv, TypeOK
  <2>2. file' \in BOOLEAN /\ changed' \in BOOLEAN
    BY DEF Inv, TypeOK
  <2> QED BY <2>1, <2>2 DEF Inv, TypeOK, managerVars, lists, dumper, writerVars, control
<1>3. Alternate' /\ Wanted'
  BY DEF Inv, Alternate, Wanted, writerVars, control
<1> QED BY <1>1, <1>2, <1>3 DEF Inv

-----------------------------------------------------------------------------
(* The worker.                                                             *)

LEMMA RequestKept ==
    ASSUME Inv, UNCHANGED request
    PROVE  asked' \in {"none", "start", "stop"} /\ crossed' \in BOOLEAN
BY DEF Inv, TypeOK

\* A step of the worker that inserts no command.
LEMMA WorkerInv ==
    ASSUME Inv, UNCHANGED << managerVars, writerVars, upc, bounds, newest >>,
           wpc' \in { "sleep", "start", "enable", "started", "stop", "insert_stop",
                      "stopped", "read", "compare", "limits", "file" },
           ret' \in { "sleep", "compare", "limits", "file" },
           enable' \in BOOLEAN, started' \in BOOLEAN, notify' \in BOOLEAN,
           file' \in BOOLEAN, changed' \in BOOLEAN, asked' \in {"none", "start", "stop"},
           crossed' \in BOOLEAN,
           Alternate', Wanted'
    PROVE  Inv'
<1>1. Places' /\ Listed'
  BY ListsKept DEF Inv
<1>2. TypeOK'
  BY DEF Inv, TypeOK, managerVars, lists, dumper, writerVars, bounds
<1> QED BY <1>1, <1>2 DEF Inv

LEMMA StartProfilerFailsInv == ASSUME Inv, StartProfilerFails PROVE Inv'
<1> USE DEF StartProfilerFails
<1>1. Alternate' /\ Wanted'
  BY DEF Inv, TypeOK, Alternate, Wanted, writerVars
<1> QED BY <1>1, WorkerInv DEF Inv, TypeOK, config, bounds

LEMMA SetEnableInv == ASSUME Inv, SetEnable PROVE Inv'
<1> USE DEF SetEnable
<1>1. Alternate' /\ Wanted'
  BY DEF Inv, TypeOK, Alternate, Wanted, writerVars
<1> QED BY <1>1, RequestKept, WorkerInv DEF Inv, TypeOK, config, bounds

LEMMA StartDoneInv == ASSUME Inv, StartDone PROVE Inv'
<1> USE DEF StartDone
<1>1. Alternate' /\ Wanted'
  BY DEF Inv, TypeOK, Alternate, Wanted, writerVars
<1> QED BY <1>1, WorkerInv DEF Inv, TypeOK, config, bounds

LEMMA StopProfilerInv == ASSUME Inv, StopProfiler PROVE Inv'
<1> USE DEF StopProfiler
<1>1. Alternate' /\ Wanted'
  BY DEF Inv, TypeOK, Alternate, Wanted, writerVars
<1> QED BY <1>1, RequestKept, WorkerInv DEF Inv, TypeOK, config, bounds

LEMMA StopDoneInv == ASSUME Inv, StopDone PROVE Inv'
<1> USE DEF StopDone
<1>1. Alternate' /\ Wanted'
  BY DEF Inv, TypeOK, Alternate, Wanted, writerVars
<1> QED BY <1>1, WorkerInv DEF Inv, TypeOK, config, bounds

LEMMA StatConfigInv == ASSUME Inv, StatConfig PROVE Inv'
<1>1. Alternate' /\ Wanted'
  BY DEF StatConfig, control, Inv, TypeOK, Alternate, Wanted, writerVars
<1>2. UNCHANGED << managerVars, writerVars, upc, bounds, newest >>
  BY DEF StatConfig
<1>3. /\ wpc' \in {"read", "compare"} /\ changed' \in BOOLEAN
      /\ UNCHANGED << ret, enable, started, notify, file, request >>
  BY DEF StatConfig, control
<1>4. /\ ret \in { "sleep", "compare", "limits", "file" }
      /\ enable \in BOOLEAN /\ started \in BOOLEAN /\ notify \in BOOLEAN
      /\ file \in BOOLEAN /\ asked \in {"none", "start", "stop"} /\ crossed \in BOOLEAN
  BY DEF Inv, TypeOK
<1> QED BY <1>1, <1>2, <1>3, <1>4, WorkerInv

LEMMA DynamicControlInv == ASSUME Inv, DynamicControl PROVE Inv'
<1> USE DEF DynamicControl
<1>1. Alternate' /\ Wanted'
  BY DEF Inv, TypeOK, Alternate, Wanted, writerVars
<1>2. enable' \in BOOLEAN /\ wpc' \in {"compare", "start", "stop"}
  BY DEF Inv, TypeOK
<1> QED BY <1>1, <1>2, RequestKept, WorkerInv DEF Inv, TypeOK, config, bounds

LEMMA CompareInv == ASSUME Inv, Compare PROVE Inv'
<1> USE DEF Compare, control
<1>1. Alternate' /\ Wanted'
  BY DEF Inv, TypeOK, Alternate, Wanted, writerVars
<1> QED BY <1>1, RequestKept, WorkerInv DEF Inv, TypeOK, config, bounds

LEMMA LimitsInv == ASSUME Inv, LimitReached \/ NoLimit PROVE Inv'
<1> USE DEF LimitReached, NoLimit, control
<1>1. Alternate' /\ Wanted'
  BY DEF Inv, TypeOK, Alternate, Wanted, writerVars
<1>2. /\ wpc' \in {"stop", "sleep"} /\ ret' \in { ret, "file" }
      /\ UNCHANGED << managerVars, writerVars, upc, control, config, bounds, newest, request >>
  OBVIOUS
<1> QED BY <1>1, <1>2, RequestKept, WorkerInv DEF Inv, TypeOK, config

LEMMA SetFileEnableInv == ASSUME Inv, SetFileEnable PROVE Inv'
<1> USE DEF SetFileEnable
<1>1. Alternate' /\ Wanted'
  BY DEF Inv, TypeOK, Alternate, Wanted, writerVars
<1>2. file' \in BOOLEAN /\ changed' \in BOOLEAN
  BY DEF Inv, TypeOK, config
<1> QED BY <1>1, <1>2, RequestKept, WorkerInv DEF Inv, TypeOK, bounds

\* The numbers of the commands alternate with what they do.
LEMMA StartProfilerInv == ASSUME Inv, StartProfiler PROVE Inv'
<1> USE DEF StartProfiler
<1>1. newest \in Nat /\ newest + 1 \in Nat /\ ~ started /\ Odd(newest + 1)
  BY Parity DEF Inv, TypeOK, Alternate
<1>2. Worker \in Thread /\ Start(newest + 1) \in Commands
  BY <1>1, WorkerAssumption, CommandItems
<1>3. /\ UNCHANGED << life, working, disabled, dpc, works, disables, pos, unused, batch >>
      /\ Places' /\ Listed'
  BY <1>2, InsertKept
<1>4. queue' \in [Thread -> Seq(Items)]
  BY <1>3, CommandSequences DEF Places
<1>5. TypeOK'
  BY <1>1, <1>3, <1>4 DEF Inv, TypeOK, writerVars, control, config, bounds
<1>6. Alternate' /\ Wanted'
  BY <1>1 DEF Inv, Alternate, Wanted, writerVars, control
<1> QED BY <1>3, <1>5, <1>6 DEF Inv

LEMMA InsertStopInv == ASSUME Inv, InsertStop PROVE Inv'
<1> USE DEF InsertStop
<1>1. newest \in Nat /\ newest + 1 \in Nat /\ started /\ ~ Odd(newest + 1)
  BY Parity DEF Inv, TypeOK, Alternate
<1>2. Worker \in Thread /\ Stop(newest + 1) \in Commands
  BY <1>1, WorkerAssumption, CommandItems
<1>3. /\ UNCHANGED << life, working, disabled, dpc, works, disables, pos, unused, batch >>
      /\ Places' /\ Listed'
  BY <1>2, InsertKept
<1>4. queue' \in [Thread -> Seq(Items)]
  BY <1>3, CommandSequences DEF Places
<1>5. TypeOK'
  BY <1>1, <1>3, <1>4 DEF Inv, TypeOK, writerVars, control, config, bounds
<1>6. Alternate' /\ Wanted'
  BY <1>1 DEF Inv, Alternate, Wanted, writerVars, control
<1> QED BY <1>3, <1>5, <1>6 DEF Inv

-----------------------------------------------------------------------------
(* The dump thread.                                                        *)

ByDump == UNCHANGED << upc, wpc, ret, control, config, bounds, newest, request >>

LEMMA DumpRefreshInv == ASSUME Inv, DumpRefresh, UNCHANGED writerVars, ByDump PROVE Inv'
<1> USE DEF DumpRefresh, lists, writerVars, ByDump, control, config, bounds
<1>1. works' \in Seq(Thread) /\ disables' \subseteq Thread
  BY DEF Inv, TypeOK
<1>2. Len(works') \in Nat /\ pos = 0 /\ unused = {}
  BY <1>1, LenProperties DEF Inv, Places
<1>3. TypeOK'
  BY <1>1, <1>2 DEF Inv, TypeOK
<1>4. Places' /\ Listed' /\ Alternate' /\ Wanted'
  BY DEF Inv, Places, Listed, Alternate, Wanted
<1> QED BY <1>3, <1>4 DEF Inv

LEMMA DumpPopInv == ASSUME Inv, DumpPop, UNCHANGED writerVars, ByDump PROVE Inv'
<1> USE DEF lists, writerVars, ByDump, control, config, bounds
<1> DEFINE t == works[pos + 1]
           q == queue[t]
           n == Min({Len(q), MaxPop})
           rest == SubSeq(q, n + 1, Len(q))
<1>1. /\ dpc = "pop" /\ pos < Len(works) /\ pos' = pos + 1
      /\ batch' = batch \o SubSeq(q, 1, n)
      /\ queue' = [queue EXCEPT ![t] = rest]
      /\ unused' = IF n = 0 /\ t \in disables THEN unused \cup {t} ELSE unused
      /\ UNCHANGED << life, working, disabled, dpc, works, disables >>
  BY DEF DumpPop
<1>2. /\ Len(works) \in Nat /\ pos \in Nat /\ pos + 1 \in 1 .. Len(works)
      /\ t \in Thread /\ t \in ToSet(works)
  <2>1. Len(works) \in Nat /\ DOMAIN works = 1 .. Len(works) /\ pos \in 0 .. Len(works)
    BY LenProperties DEF Inv, TypeOK
  <2>2. pos + 1 \in 1 .. Len(works)
    BY <2>1, <1>1
  <2>3. t \in Thread
    BY <2>2, ElementOfSeq DEF Inv, TypeOK
  <2>4. t \in ToSet(works)
    BY <2>1, <2>2 DEF ToSet
  <2> QED BY <2>1, <2>2, <2>3, <2>4
<1>3. q \in Seq(Commands) /\ Len(q) \in Nat /\ MaxPop \in Nat \ {0}
  BY <1>2, LenProperties, ManagerAssumption DEF Inv, Places
<1>4. n \in Nat /\ n <= Len(q) /\ (n = 0 => Len(q) = 0)
  BY <1>3, MinOfTwo
<1> HIDE DEF t, q, n
<1>5. \A i \in 1 .. Len(q) : q[i] \in Commands
  BY <1>3, ElementOfSeq
<1>6. SubSeq(q, 1, n) \in Seq(Commands) /\ rest \in Seq(Commands) /\ Len(rest) = Len(q) - n
  <2>1. \A i \in 1 .. n : q[i] \in Commands
    BY <1>3, <1>4, <1>5
  <2>2. \A i \in n + 1 .. Len(q) : q[i] \in Commands
    BY <1>3, <1>4, <1>5
  <2>3. SubSeq(q, 1, n) \in Seq(Commands)
    BY <1>4, <2>1, SubSeqProperties
  <2>4. /\ rest \in Seq(Commands)
        /\ Len(rest) = IF n + 1 <= Len(q) THEN Len(q) - (n + 1) + 1 ELSE 0
    BY <1>3, <1>4, <2>2, SubSeqProperties
  <2> QED BY <1>3, <1>4, <2>3, <2>4
<1>7. rest # << >> => q # << >>
  BY <1>3, <1>4, <1>6, EmptySeq
<1>8. q # << >> => n # 0
  BY <1>3, <1>4, EmptySeq
<1>9. batch' \in Seq(Commands)
  BY <1>1, <1>6, ConcatProperties DEF Inv, Places
<1> HIDE DEF rest
<1>10. Places'
  BY <1>1, <1>2, <1>6, <1>9 DEF Inv, Places
<1>11. TypeOK'
  <2>1. queue' \in [Thread -> Seq(Items)] /\ batch' \in Seq(Items)
    BY <1>10, CommandSequences DEF Places
  <2>2. pos' \in 0 .. Len(works) /\ unused' \subseteq ToSet(works)
    BY <1>1, <1>2 DEF Inv, TypeOK
  <2> QED BY <1>1, <2>1, <2>2 DEF Inv, TypeOK
<1>12. Listed'
  <2>1. \A u \in Thread : queue'[u] # << >> => queue[u] # << >>
    BY <1>1, <1>2, <1>7 DEF q, Inv, TypeOK
  <2>2. \A u \in unused' : queue[u] = << >> /\ life[u] = "ended"
    <3>1. n = 0 /\ t \in disables => queue[t] = << >> /\ life[t] = "ended"
      BY <1>8 DEF q, Inv, Listed
    <3> QED BY <1>1, <3>1 DEF Inv, Listed
  <2>3. unused' \subseteq Thread
    BY <1>1, <1>2, ElementOfSeq DEF Inv, TypeOK, ToSet
  <2>4. \A u \in unused' : queue'[u] = << >>
    BY <2>1, <2>2, <2>3
  <2> QED BY <1>1, <2>1, <2>2, <2>4 DEF Inv, Listed
<1>13. Alternate' /\ Wanted'
  BY DEF Inv, Alternate, Wanted
<1> QED BY <1>10, <1>11, <1>12, <1>13 DEF Inv

\* Whatever a batch holds: the command executed last tells whether the file is open.
LEMMA ExecutedFollows ==
    ASSUME Inv, ExecutorDumpToDb
    PROVE  open' \in BOOLEAN /\ latest' \in Nat /\ (open' <=> Odd(latest'))
<1>1. /\ DOMAIN batch = 1 .. Len(batch) /\ Len(batch) \in Nat
      /\ \A i \in 1 .. Len(batch) : batch[i] \in Commands
  BY LenProperties, ElementOfSeq DEF Inv, Places
<1>2. ASSUME NEW level, OfLevel(level) # {}
      PROVE  Max(OfLevel(level)) \in OfLevel(level)
  <2>1. IsFiniteSet(1 .. Len(batch))
    BY <1>1, FS_Interval
  <2>2. OfLevel(level) \subseteq 1 .. Len(batch)
    BY <1>1 DEF OfLevel
  <2>3. IsFiniteSet(OfLevel(level)) /\ OfLevel(level) \in SUBSET Nat
    BY <2>1, <2>2, FS_Subset
  <2> QED BY <2>3, <1>2, MaxExists
<1>3. ASSUME NEW level, OfLevel(level) # {}
      PROVE  \E x \in Commands : x.level = level /\ x.id = LastOf(level)
  BY <1>1, <1>2, <1>3 DEF OfLevel, LastOf
<1>4. OfLevel("start") # {} => LastOf("start") \in Nat /\ Odd(LastOf("start"))
  BY <1>3, CommandItems
<1>5. OfLevel("stop") # {} => LastOf("stop") \in Nat /\ ~ Odd(LastOf("stop"))
  BY <1>3, CommandItems
<1> QED BY <1>4, <1>5 DEF ExecutorDumpToDb, LastExecuted, Inv, TypeOK, Alternate

LEMMA DumpFreeInv == ASSUME Inv, ExecutorDumpToDb, DumpFree, ByDump PROVE Inv'
<1> USE DEF DumpFree, ByDump, control, config, bounds
<1>1. working' \in Seq(Thread) /\ ToSet(working)' = ToSet(working) \ unused
  BY WithoutProperties DEF Inv, TypeOK
<1>2. << >> \in Seq(Items) /\ << >> \in Seq(Commands) /\ Len(working') \in Nat
  BY <1>1, EmptySeq, LenProperties
<1>3. open' \in BOOLEAN /\ latest' \in Nat /\ (open' <=> Odd(latest'))
  BY ExecutedFollows
<1>4. TypeOK'
  BY <1>1, <1>2, <1>3 DEF Inv, TypeOK
<1>5. Places'
  BY <1>2 DEF Inv, Places
<1>6. Listed'
  BY <1>1 DEF Inv, Listed
<1>7. Alternate' /\ Wanted'
  BY <1>3 DEF Inv, Alternate, Wanted
<1> QED BY <1>4, <1>5, <1>6, <1>7 DEF Inv

LEMMA StutterInv == ASSUME Inv, UNCHANGED vars PROVE Inv'
<1> USE DEF vars, control, config, bounds
<1>1. Places' /\ Listed'
  BY ListsKept DEF Inv
<1>2. TypeOK'
  BY DEF Inv, TypeOK, managerVars, lists, dumper, writerVars
<1>3. Alternate' /\ Wanted'
  BY DEF Inv, Alternate, Wanted, writerVars
<1> QED BY <1>1, <1>2, <1>3 DEF Inv

LEMMA NextInv == ASSUME Inv, [Next]_vars PROVE Inv'
<1>1. CASE Application
  BY <1>1, FindEnabledInv, MakeWriterInv, RecordEventInv, EndThreadInv, NotifyInv, WriteConfigInv
  DEF Application
<1>2. CASE WorkerStep
  BY <1>2, StartProfilerInv, StartProfilerFailsInv, SetEnableInv, StartDoneInv, StopProfilerInv,
     InsertStopInv, StopDoneInv, StatConfigInv, DynamicControlInv, CompareInv, LimitsInv,
     SetFileEnableInv DEF WorkerStep
<1>3. CASE Dump
  BY <1>3, DumpRefreshInv, DumpPopInv, DumpFreeInv DEF Dump, DumpStep, ByDump
<1> QED BY <1>1, <1>2, <1>3, StutterInv DEF Next

LEMMA Invariance == Spec => []Inv
<1> QED BY InitInv, NextInv, PTL DEF Spec

-----------------------------------------------------------------------------
(* The theorems.                                                           *)

\* For every set of threads and every pop size: every variable keeps its type; the dump thread's
\* position stays within its copy, and what it is about to drop is in that copy.
THEOREM TypeCorrect == Spec => []TypeOK
<1>1. Inv => TypeOK
  BY DEF Inv
<1> QED BY <1>1, Invariance, PTL

\* However threads come, record and end while the dump thread works on its copies: a buffer with
\* something in it is in the working list, and one that is to be dropped is empty for good.
THEOREM NothingStranded == Spec => []NoneStranded
<1>1. Inv => NoneStranded
  BY DEF Inv, Listed, NoneStranded
<1> QED BY <1>1, Invariance, PTL

\* Whatever the file, the requests and the limits did: once all commands are executed, and the
\* newest last, the output file is open exactly while profiling is started.
THEOREM FileCorrect == Spec => []FileFollows
<1>1. Inv => FileFollows
  BY DEF Inv, Alternate, FileFollows
<1> QED BY <1>1, Invariance, PTL

\* However requests, the file and the limits meet: the worker starts profiling by notifyStarted only
\* for a call of StartServerProfiler that no stop has overtaken.
THEOREM StartsOnlyAsked == Spec => StartsAsked
<1>1. Inv /\ [Next]_vars => [(wpc = "compare" /\ wpc' = "start") => asked = "start"]_vars
  <2> SUFFICES ASSUME Inv, Next, wpc = "compare", wpc' = "start"
               PROVE  asked = "start"
    OBVIOUS
  <2>1. Compare
    <3>1. ~ Application
      BY DEF Application, FindEnabled, MakeWriter, RecordEvent, EndThread, NotifyStartProfiler,
         NotifyStopProfiler, WriteConfig
    <3>2. ~ Dump
      BY DEF Dump
    <3> QED BY <3>1, <3>2
        DEF Next, WorkerStep, StartProfiler, StartProfilerFails, SetEnable, StartDone, StopProfiler,
            InsertStop, StopDone, StatConfig, DynamicControl, LimitReached, NoLimit, SetFileEnable
  <2>2. notify /\ ~ started
    BY <2>1 DEF Compare, Inv, TypeOK
  <2> QED BY <2>2 DEF Inv, Wanted
<1> QED BY <1>1, Invariance, PTL DEF Spec, StartsAsked
================================================================================
