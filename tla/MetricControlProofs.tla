------------------------ MODULE MetricControlProofs ------------------------
(***************************************************************************)
(* Theorems about MetricControl, for every number of processes, clients,   *)
(* slots, objects, commands and crashes.  Four inductive invariants, each  *)
(* resting on the ones before it:                                          *)
(*   TypeInv          types, and what a control point says about the data; *)
(*   ExclusionInv     who holds which semaphore;                           *)
(*   RegistrationInv  where the ring's cursor is, seen from a registration;*)
(*   FollowInv        who has looked, or will be told, after a command.    *)
(***************************************************************************)
EXTENDS MetricControl, TLAPS

-----------------------------------------------------------------------------
(* The invariants.                                                         *)

\* The steps a client takes while it is connected to a segment, and to a semaphore as well.
WithSem == { "add", "register", "check", "check_ts", "decided", "in_callback", "commit",
             "running", "stop_symbols", "stop_watch", "command", "set_state", "set_ts",
             "signal", "cleanup", "should_destroy" }
WithSeg == WithSem \cup { "header", "list", "sem", "sem_create" }

\* A client that uses a segment or a semaphore is connected to one.
Connected ==
    /\ \A c \in Client : pc[c] \in WithSeg => seg[c] \in Object
    /\ \A c \in Client : pc[c] \in WithSem => sem[c] \in Object

\* The handler's frame exists only while the handler is installed.
HandlerAlive == \A p \in Procs : hpc[p] # "none" => Installed(p)

\* A process that registers has found a list with a length.
ListReady == \A c \in Client : pc[c] = "register" => len[seg[c]] = MaxProcs

\* TypeOK, by what an action changes together.
ClientTypes ==
    /\ pc \in [Client -> Labels]
    /\ idx \in [Client -> 0 .. MaxProcs]
    /\ seg \in [Client -> ObjectOrNone]
    /\ sem \in [Client -> ObjectOrNone]
NameTypes ==
    /\ shmName \in ObjectOrNone /\ semName \in ObjectOrNone
    /\ shmMade \in ObjectOrNone /\ semMade \in ObjectOrNone
    /\ semVal \in [Object -> 0 .. 1]
SegmentTypes ==
    /\ hdr \in [Object -> BOOLEAN]
    /\ state \in [Object -> States]
    /\ ts \in [Object -> 0 .. MaxTime]
    /\ len \in [Object -> {0, MaxProcs}]
    /\ cursor \in [Object -> Index]
    /\ slot \in [Object -> [Index -> Procs \cup {NoPid}]]
HistoryTypes ==
    /\ guard \in [Object -> ObjectOrNone]
    /\ raced \in SUBSET Object
    /\ registered \in SUBSET Procs
    /\ at \in [Procs -> Index]
    /\ age \in [Procs -> Nat]
WatchTypes ==
    /\ cur \in [Procs -> Readings]
    /\ mread \in [Procs -> Readings]
    /\ hpc \in [Procs -> {"none", "ts", "callback"}]
    /\ hread \in [Procs -> Readings]
    /\ sig \in [Procs -> BOOLEAN]
    /\ hooks \in [Procs -> BOOLEAN]
    /\ failed \in [Procs -> BOOLEAN]
    /\ skipped \in [Procs -> BOOLEAN]
    /\ cut \in [Procs -> BOOLEAN]
CommandTypes ==
    /\ cmd \in [Clis -> Commands]
    /\ commands \in 0 .. MaxCommands
    /\ crashes \in 0 .. MaxCrashes
    /\ now \in 0 .. MaxTime

TypeInv ==
    /\ ClientTypes /\ NameTypes /\ SegmentTypes /\ HistoryTypes /\ WatchTypes /\ CommandTypes
    /\ Connected /\ HandlerAlive /\ ListReady

\* Objects are numbered as they are made, so a new one is nobody's yet.
MadeBefore ==
    /\ shmName <= shmMade /\ semName <= semMade
    /\ \A c \in Client : seg[c] <= shmMade /\ sem[c] <= semMade

\* A client inside a critical section has taken its semaphore, and no other client has; unless
\* the segment has raced, it is the semaphore the segment was first locked with.
Holding ==
    \A c \in Client : pc[c] \in Locked =>
        /\ semVal[sem[c]] = 0
        /\ seg[c] \notin raced => guard[seg[c]] = sem[c]
        /\ \A d \in Client \ {c} : pc[d] \in Locked => sem[d] # sem[c]

ExclusionInv == TypeInv /\ MadeBefore /\ Holding

\* Nobody shares a segment with the client that initialises it, unless the segment has raced.
SoleInitialiser ==
    \A c, d \in Client :
        (c # d /\ pc[c] \in Initialising /\ seg[c] = seg[d]) => seg[c] \in raced

\* The cursor a registration has read is still the segment's cursor.
CursorRead ==
    \A p \in Procs : (pc[p] = "register" /\ seg[p] \notin raced) => idx[p] = cursor[seg[p]]

\* A registered process is past add_process, in a list with a length.
After == { "check", "check_ts", "decided", "in_callback", "commit", "running", "stop_symbols",
           "stop_watch", "stopped", "dead", "killed" }
Registered ==
    \A p \in Procs :
        /\ p \notin registered => age[p] = 0
        /\ p \in registered => pc[p] \in After /\ (seg[p] # NoObject => len[seg[p]] = MaxProcs)

Placed(p) == seg[p] # NoObject /\ seg[p] \notin raced /\ ~Dead(p) /\ age[p] < MaxProcs

\* The cursor is age[p] + 1 positions past a process's slot, around the ring.
Ring ==
    \A p \in registered : Placed(p) =>
        /\ slot[seg[p]][at[p]] = p
        /\ at[p] + 1 + age[p] \in { cursor[seg[p]], cursor[seg[p]] + MaxProcs }

RegistrationInv == ExclusionInv /\ SoleInitialiser /\ CursorRead /\ Registered /\ Ring

-----------------------------------------------------------------------------
(* Types.                                                                  *)

USE DEF shmVars, names, segment, conn, history, watchVars, bounds

LEMMA TypeInvImplies == TypeInv => TypeOK
BY DEF TypeInv, TypeOK, ClientTypes, NameTypes, SegmentTypes, HistoryTypes, WatchTypes,
       CommandTypes

\* A registration writes within the list, and leaves the cursor within it.
LEMMA WrapInIndex == \A x \in Nat : x % MaxProcs \in Index
BY ShmAssumption DEF Index

LEMMA ReadingUpdate ==
    /\ Blank \in Readings
    /\ \A x \in States : [Blank EXCEPT !.state = x] \in Readings
    /\ \A r \in Readings, t \in 0 .. MaxTime : [r EXCEPT !.ts = t] \in Readings
BY BoundAssumption DEF Readings, Blank, States

\* What a command finds at the position it signals.
LEMMA SignalledSlot ==
    ASSUME TypeInv, NEW c \in Clis, SignalSlot(c)
    PROVE  /\ seg[c] \in Object
           /\ idx[c] \in Index /\ idx[c] + 1 \in 0 .. MaxProcs
           /\ slot[seg[c]][idx[c]] \in Procs \cup {NoPid}
<1> USE DEF TypeInv
<1>1. seg[c] \in Object /\ c \in Client
  BY DEF SignalSlot, Connected, Client, WithSem, WithSeg
<1>2. len[seg[c]] \in {0, MaxProcs} /\ idx[c] \in Nat
  BY <1>1 DEF SegmentTypes, ClientTypes
<1>3. idx[c] \in Index /\ idx[c] + 1 \in 0 .. MaxProcs
  BY <1>2, ShmAssumption DEF SignalSlot, Index
<1>. QED
  BY <1>1, <1>3 DEF SegmentTypes

LEMMA TypeInit == Init => TypeInv
<1> SUFFICES ASSUME Init PROVE TypeInv
  OBVIOUS
<1> USE DEF Init, ShmInit, WatchInit
<1>1. ClientTypes /\ NameTypes
  BY ShmAssumption DEF ClientTypes, NameTypes, Labels, ObjectOrNone, NoObject
<1>2. SegmentTypes /\ HistoryTypes
  BY ShmAssumption, BoundAssumption
     DEF SegmentTypes, HistoryTypes, States, Index, ObjectOrNone, NoObject
<1>3. WatchTypes /\ CommandTypes
  BY ReadingUpdate, BoundAssumption DEF WatchTypes, CommandTypes, Commands
<1>4. Connected /\ HandlerAlive /\ ListReady
  BY DEF Connected, HandlerAlive, ListReady, WithSem, WithSeg
<1>. QED
  BY <1>1, <1>2, <1>3, <1>4 DEF TypeInv

\* connect().
LEMMA TypeConnect ==
    ASSUME TypeInv, NEW c \in Client, NEW create \in BOOLEAN, NEW next \in {"add", "command"},
           NEW giveUp \in {"start_failed", "exit"}, Connect(c, create, next, giveUp),
           UNCHANGED << watchVars, cmd, bounds >>
    PROVE  TypeInv'
<1> USE DEF TypeInv, Goto
<1>1. CASE OpenSegment(c)
  <2>1. ClientTypes'
    BY <1>1 DEF OpenSegment, ClientTypes, Labels, NameTypes, ObjectOrNone
  <2>2. HistoryTypes'
    BY <1>1 DEF OpenSegment, HistoryTypes, NameTypes, ObjectOrNone, Object, NoObject
  <2>3. NameTypes' /\ SegmentTypes' /\ WatchTypes' /\ CommandTypes'
    BY <1>1 DEF OpenSegment, NameTypes, SegmentTypes, WatchTypes, CommandTypes
  <2>4. Connected'
    BY <1>1 DEF OpenSegment, Connected, ClientTypes, NameTypes, Object, ObjectOrNone, NoObject,
       WithSem, WithSeg
  <2>5. HandlerAlive'
    BY <1>1 DEF OpenSegment, HandlerAlive, ClientTypes, WatchTypes, Client, Installed
  <2>6. ListReady'
    BY <1>1 DEF OpenSegment, ListReady, ClientTypes, SegmentTypes
  <2>. QED
    BY <2>1, <2>2, <2>3, <2>4, <2>5, <2>6
<1>2. CASE SegmentMissing(c, create, giveUp)
  <2>1. ClientTypes'
    BY <1>2 DEF SegmentMissing, ClientTypes, Labels
  <2>2. NameTypes' /\ SegmentTypes' /\ HistoryTypes' /\ WatchTypes' /\ CommandTypes'
    BY <1>2 DEF SegmentMissing, NameTypes, SegmentTypes, HistoryTypes, WatchTypes, CommandTypes
  <2>3. Connected'
    BY <1>2 DEF SegmentMissing, Connected, ClientTypes, NameTypes, Object, ObjectOrNone, NoObject,
       WithSem, WithSeg
  <2>4. HandlerAlive'
    BY <1>2 DEF SegmentMissing, HandlerAlive, ClientTypes, WatchTypes, Client, Installed
  <2>5. ListReady'
    BY <1>2 DEF SegmentMissing, ListReady, ClientTypes, SegmentTypes
  <2>. QED
    BY <2>1, <2>2, <2>3, <2>4, <2>5
<1>3. CASE CreateSegment(c)
  <2>1. ClientTypes'
    BY ShmAssumption, <1>3 DEF CreateSegment, ClientTypes, Labels, NameTypes, ObjectOrNone,
       Object, NoObject
  <2>2. NameTypes'
    BY ShmAssumption, <1>3 DEF CreateSegment, NameTypes, ObjectOrNone, Object, NoObject
  <2>3. SegmentTypes' /\ HistoryTypes' /\ WatchTypes' /\ CommandTypes'
    BY <1>3 DEF CreateSegment, SegmentTypes, HistoryTypes, WatchTypes, CommandTypes
  <2>4. Connected'
    BY ShmAssumption, <1>3 DEF CreateSegment, Connected, ClientTypes, NameTypes, Object,
       ObjectOrNone, NoObject, WithSem, WithSeg
  <2>5. HandlerAlive'
    BY <1>3 DEF CreateSegment, HandlerAlive, ClientTypes, WatchTypes, Client, Installed
  <2>6. ListReady'
    BY <1>3 DEF CreateSegment, ListReady, ClientTypes, SegmentTypes
  <2>. QED
    BY <2>1, <2>2, <2>3, <2>4, <2>5, <2>6
<1>4. CASE CreateSegmentFails(c, giveUp)
  <2>1. ClientTypes'
    BY <1>4 DEF CreateSegmentFails, ClientTypes, Labels
  <2>2. NameTypes' /\ SegmentTypes' /\ HistoryTypes' /\ WatchTypes' /\ CommandTypes'
    BY <1>4 DEF CreateSegmentFails, NameTypes, SegmentTypes, HistoryTypes, WatchTypes,
       CommandTypes
  <2>3. Connected'
    BY <1>4 DEF CreateSegmentFails, Connected, ClientTypes, NameTypes, Object, ObjectOrNone,
       NoObject, WithSem, WithSeg
  <2>4. HandlerAlive'
    BY <1>4 DEF CreateSegmentFails, HandlerAlive, ClientTypes, WatchTypes, Client, Installed
  <2>5. ListReady'
    BY <1>4 DEF CreateSegmentFails, ListReady, ClientTypes, SegmentTypes
  <2>. QED
    BY <2>1, <2>2, <2>3, <2>4, <2>5
<1>5. CASE InitHeader(c)
  <2>1. ClientTypes'
    BY <1>5 DEF InitHeader, ClientTypes, Labels
  <2>2. SegmentTypes'
    BY BoundAssumption, <1>5 DEF InitHeader, SegmentTypes, ClientTypes, Connected, WithSem,
       WithSeg, Client, States
  <2>3. NameTypes' /\ HistoryTypes' /\ WatchTypes' /\ CommandTypes'
    BY <1>5 DEF InitHeader, NameTypes, HistoryTypes, WatchTypes, CommandTypes
  <2>4. Connected'
    BY <1>5 DEF InitHeader, Connected, ClientTypes, NameTypes, Object, ObjectOrNone, NoObject,
       WithSem, WithSeg
  <2>5. HandlerAlive'
    BY <1>5 DEF InitHeader, HandlerAlive, ClientTypes, WatchTypes, Client, Installed
  <2>6. ListReady'
    BY <1>5 DEF InitHeader, ListReady, ClientTypes, SegmentTypes
  <2>. QED
    BY <2>1, <2>2, <2>3, <2>4, <2>5, <2>6
<1>6. CASE InitProcessList(c)
  <2>1. ClientTypes'
    BY <1>6 DEF InitProcessList, ClientTypes, Labels
  <2>2. SegmentTypes'
    BY ShmAssumption, <1>6 DEF InitProcessList, SegmentTypes, ClientTypes, Connected, WithSem,
       WithSeg, Client, Index
  <2>3. NameTypes' /\ HistoryTypes' /\ WatchTypes' /\ CommandTypes'
    BY <1>6 DEF InitProcessList, NameTypes, HistoryTypes, WatchTypes, CommandTypes
  <2>4. Connected'
    BY <1>6 DEF InitProcessList, Connected, ClientTypes, NameTypes, Object, ObjectOrNone,
       NoObject, WithSem, WithSeg
  <2>5. HandlerAlive'
    BY <1>6 DEF InitProcessList, HandlerAlive, ClientTypes, WatchTypes, Client, Installed
  <2>6. ListReady'
    BY <1>6 DEF InitProcessList, ListReady, ClientTypes, SegmentTypes
  <2>. QED
    BY <2>1, <2>2, <2>3, <2>4, <2>5, <2>6
<1>7. CASE OpenSemaphore(c, next)
  <2>1. ClientTypes'
    BY <1>7 DEF OpenSemaphore, ClientTypes, Labels, NameTypes
  <2>2. NameTypes' /\ SegmentTypes' /\ HistoryTypes' /\ WatchTypes' /\ CommandTypes'
    BY <1>7 DEF OpenSemaphore, NameTypes, SegmentTypes, HistoryTypes, WatchTypes, CommandTypes
  <2>3. Connected'
    BY <1>7 DEF OpenSemaphore, Connected, ClientTypes, NameTypes, Object, ObjectOrNone, NoObject,
       WithSem, WithSeg, Labels
  <2>4. HandlerAlive'
    BY <1>7 DEF OpenSemaphore, HandlerAlive, ClientTypes, WatchTypes, Client, Installed
  <2>5. ListReady'
    BY <1>7 DEF OpenSemaphore, ListReady, ClientTypes, SegmentTypes
  <2>. QED
    BY <2>1, <2>2, <2>3, <2>4, <2>5
<1>8. CASE CreateSemaphore(c, next)
  <2>1. ClientTypes'
    BY ShmAssumption, <1>8 DEF CreateSemaphore, ClientTypes, Labels, NameTypes, ObjectOrNone,
       Object, NoObject
  <2>2. NameTypes'
    BY ShmAssumption, <1>8 DEF CreateSemaphore, NameTypes, ObjectOrNone, Object, NoObject
  <2>3. SegmentTypes' /\ HistoryTypes' /\ WatchTypes' /\ CommandTypes'
    BY <1>8 DEF CreateSemaphore, SegmentTypes, HistoryTypes, WatchTypes, CommandTypes
  <2>4. Connected'
    BY ShmAssumption, <1>8 DEF CreateSemaphore, Connected, ClientTypes, NameTypes, Object,
       ObjectOrNone, NoObject, WithSem, WithSeg
  <2>5. HandlerAlive'
    BY <1>8 DEF CreateSemaphore, HandlerAlive, ClientTypes, WatchTypes, Client, Installed
  <2>6. ListReady'
    BY <1>8 DEF CreateSemaphore, ListReady, ClientTypes, SegmentTypes
  <2>. QED
    BY <2>1, <2>2, <2>3, <2>4, <2>5, <2>6
<1>9. CASE CreateSemaphoreFails(c, giveUp)
  <2>1. ClientTypes'
    BY <1>9 DEF CreateSemaphoreFails, ClientTypes, Labels
  <2>2. NameTypes' /\ SegmentTypes' /\ HistoryTypes' /\ WatchTypes' /\ CommandTypes'
    BY <1>9 DEF CreateSemaphoreFails, NameTypes, SegmentTypes, HistoryTypes, WatchTypes,
       CommandTypes
  <2>3. Connected'
    BY <1>9 DEF CreateSemaphoreFails, Connected, ClientTypes, NameTypes, Object, ObjectOrNone,
       NoObject, WithSem, WithSeg
  <2>4. HandlerAlive'
    BY <1>9 DEF CreateSemaphoreFails, HandlerAlive, ClientTypes, WatchTypes, Client, Installed
  <2>5. ListReady'
    BY <1>9 DEF CreateSemaphoreFails, ListReady, ClientTypes, SegmentTypes
  <2>. QED
    BY <2>1, <2>2, <2>3, <2>4, <2>5
<1>. QED
  BY <1>1, <1>2, <1>3, <1>4, <1>5, <1>6, <1>7, <1>8, <1>9 DEF Connect

\* add_process().
LEMMA TypeAddProcess ==
    ASSUME TypeInv, NEW p \in Procs, AddCurrentProcess(p), UNCHANGED << cmd, bounds >>
    PROVE  TypeInv'
<1> USE DEF TypeInv, Goto
<1> MainRuns(p) /\ UNCHANGED watchVars
  BY DEF AddCurrentProcess
<1>1. CASE AddProcessUnavailable(p)
  <2>1. ClientTypes'
    BY <1>1 DEF AddProcessUnavailable, AcquireRelease, ClientTypes, Labels
  <2>2. NameTypes' /\ SegmentTypes' /\ HistoryTypes' /\ WatchTypes' /\ CommandTypes'
    BY <1>1 DEF AddProcessUnavailable, AcquireRelease, NameTypes, SegmentTypes, HistoryTypes,
       WatchTypes, CommandTypes
  <2>3. Connected'
    BY <1>1 DEF AddProcessUnavailable, AcquireRelease, Connected, ClientTypes, NameTypes, Object,
       ObjectOrNone, NoObject, WithSem, WithSeg
  <2>4. HandlerAlive'
    BY <1>1 DEF AddProcessUnavailable, AcquireRelease, HandlerAlive, ClientTypes, WatchTypes,
       Client, Installed
  <2>5. ListReady'
    BY <1>1 DEF AddProcessUnavailable, AcquireRelease, ListReady, ClientTypes, SegmentTypes
  <2>. QED
    BY <2>1, <2>2, <2>3, <2>4, <2>5
<1>2. CASE AddProcess(p)
  <2>1. ClientTypes'
    BY ShmAssumption, <1>2 DEF AddProcess, Acquire, ClientTypes, Labels, Client, SegmentTypes,
       Connected, WithSem, WithSeg, Index
  <2>2. NameTypes'
    BY <1>2 DEF AddProcess, Acquire, NameTypes, ClientTypes, Connected, WithSem, WithSeg, Client
  <2>3. HistoryTypes'
    BY <1>2 DEF AddProcess, Acquire, HistoryTypes, ClientTypes, Connected, WithSem, WithSeg,
       Client, ObjectOrNone, Object
  <2>4. SegmentTypes' /\ WatchTypes' /\ CommandTypes'
    BY <1>2 DEF AddProcess, Acquire, SegmentTypes, WatchTypes, CommandTypes
  <2>5. Connected'
    BY <1>2 DEF AddProcess, Acquire, Connected, ClientTypes, NameTypes, Object, ObjectOrNone,
       NoObject, WithSem, WithSeg
  <2>6. HandlerAlive'
    BY <1>2 DEF AddProcess, Acquire, HandlerAlive, ClientTypes, WatchTypes, Client, Installed
  <2>7. ListReady'
    BY <1>2 DEF AddProcess, Acquire, ListReady, ClientTypes, SegmentTypes, Connected, WithSem,
       WithSeg, Client
  <2>. QED
    BY <2>1, <2>2, <2>3, <2>4, <2>5, <2>6, <2>7
<1>3. CASE RegisterProcess(p)
  <2>1. ClientTypes'
    BY ShmAssumption, <1>3 DEF RegisterProcess, Release, ClientTypes, Labels, Client
  <2>2. NameTypes'
    BY <1>3 DEF RegisterProcess, Release, NameTypes, ClientTypes, Connected, WithSem, WithSeg,
       Client
  <2>3. SegmentTypes'
    BY ShmAssumption, WrapInIndex, <1>3 DEF RegisterProcess, Release, SegmentTypes, ClientTypes,
       Connected, WithSem, WithSeg, Client, ListReady
  <2>4. HistoryTypes'
    BY ShmAssumption, WrapInIndex, <1>3 DEF RegisterProcess, Release, HistoryTypes, ClientTypes,
       Connected, WithSem, WithSeg, Client, ListReady
  <2>5. WatchTypes' /\ CommandTypes'
    BY <1>3 DEF RegisterProcess, Release, WatchTypes, CommandTypes
  <2>6. Connected'
    BY <1>3 DEF RegisterProcess, Release, Connected, ClientTypes, NameTypes, Object, ObjectOrNone,
       NoObject, WithSem, WithSeg
  <2>7. HandlerAlive'
    BY <1>3 DEF RegisterProcess, Release, HandlerAlive, ClientTypes, WatchTypes, Client, Installed
  <2>8. ListReady'
    BY <1>3 DEF RegisterProcess, Release, ListReady, ClientTypes, SegmentTypes
  <2>. QED
    BY <2>1, <2>2, <2>3, <2>4, <2>5, <2>6, <2>7, <2>8
<1>. QED
  BY <1>1, <1>2, <1>3 DEF AddCurrentProcess

\* start()'s own check.
LEMMA TypeMainCheck ==
    ASSUME TypeInv, NEW p \in Procs, UNCHANGED << cmd, bounds >>,
           \/ MainReadState(p) \/ MainReadTs(p) \/ MainEnterCallback(p)
           \/ MainLeaveCallback(p) \/ MainCommit(p)
    PROVE  TypeInv'
<1> USE DEF TypeInv, Goto
<1>1. CASE MainReadState(p)
  <2>1. ClientTypes'
    BY <1>1 DEF MainReadState, MainRuns, ClientTypes, Labels, Client
  <2>2. WatchTypes'
    <3>1. CASE hdr[seg[p]]
      <4>1. [Blank EXCEPT !.state = state[seg[p]]] \in Readings
        BY <1>1, ReadingUpdate DEF MainReadState, SegmentTypes, ClientTypes, Connected, Client,
           WithSem, WithSeg
      <4>. QED
        BY <1>1, <3>1, <4>1, ReadingUpdate DEF WatchTypes, MainReadState
    <3>2. CASE ~hdr[seg[p]]
      BY <1>1, <3>2 DEF WatchTypes, MainReadState
    <3>. QED
      BY <3>1, <3>2
  <2>3. NameTypes' /\ SegmentTypes' /\ HistoryTypes' /\ CommandTypes'
    BY <1>1 DEF MainReadState, MainRuns, NameTypes, SegmentTypes, HistoryTypes, CommandTypes
  <2>4. Connected'
    BY <1>1 DEF MainReadState, MainRuns, Connected, ClientTypes, NameTypes, Object, ObjectOrNone,
       NoObject, WithSem, WithSeg
  <2>5. HandlerAlive'
    BY <1>1 DEF MainReadState, MainRuns, HandlerAlive, ClientTypes, WatchTypes, Client, Installed
  <2>6. ListReady'
    BY <1>1 DEF MainReadState, MainRuns, ListReady, ClientTypes, SegmentTypes
  <2>. QED
    BY <2>1, <2>2, <2>3, <2>4, <2>5, <2>6
<1>2. CASE MainReadTs(p)
  <2>1. ClientTypes'
    BY <1>2 DEF MainReadTs, MainRuns, ClientTypes, Labels, Client
  <2>2. WatchTypes'
    <3> DEFINE read == [mread[p] EXCEPT !.ts = ts[seg[p]]]
    <3>1. ts[seg[p]] \in 0 .. MaxTime
      BY <1>2 DEF MainReadTs, SegmentTypes, ClientTypes, Connected, Client, WithSem, WithSeg
    <3>2. read \in Readings
      BY <3>1, ReadingUpdate DEF WatchTypes
    <3>3. mread' \in {[mread EXCEPT ![p] = read], [mread EXCEPT ![p] = Blank]}
      BY <1>2 DEF MainReadTs
    <3>4. mread' \in [Procs -> Readings]
      BY <3>2, <3>3, ReadingUpdate DEF WatchTypes
    <3>. QED
      BY <1>2, <3>4 DEF WatchTypes, MainReadTs
  <2>3. NameTypes' /\ SegmentTypes' /\ HistoryTypes' /\ CommandTypes'
    BY <1>2 DEF MainReadTs, MainRuns, NameTypes, SegmentTypes, HistoryTypes, CommandTypes
  <2>4. Connected'
    BY <1>2 DEF MainReadTs, MainRuns, Connected, ClientTypes, NameTypes, Object, ObjectOrNone,
       NoObject, WithSem, WithSeg
  <2>5. HandlerAlive'
    BY <1>2 DEF MainReadTs, MainRuns, HandlerAlive, ClientTypes, WatchTypes, Client, Installed
  <2>6. ListReady'
    BY <1>2 DEF MainReadTs, MainRuns, ListReady, ClientTypes, SegmentTypes
  <2>. QED
    BY <2>1, <2>2, <2>3, <2>4, <2>5, <2>6
<1>3. CASE MainEnterCallback(p)
  <2>1. ClientTypes'
    BY <1>3 DEF MainEnterCallback, MainRuns, ClientTypes, Labels, Client
  <2>2. NameTypes' /\ SegmentTypes' /\ HistoryTypes' /\ WatchTypes' /\ CommandTypes'
    BY <1>3 DEF MainEnterCallback, MainRuns, NameTypes, SegmentTypes, HistoryTypes, WatchTypes,
       CommandTypes
  <2>3. Connected'
    BY <1>3 DEF MainEnterCallback, MainRuns, Connected, ClientTypes, NameTypes, Object,
       ObjectOrNone, NoObject, WithSem, WithSeg
  <2>4. HandlerAlive'
    BY <1>3 DEF MainEnterCallback, MainRuns, HandlerAlive, ClientTypes, WatchTypes, Client,
       Installed
  <2>5. ListReady'
    BY <1>3 DEF MainEnterCallback, MainRuns, ListReady, ClientTypes, SegmentTypes
  <2>. QED
    BY <2>1, <2>2, <2>3, <2>4, <2>5
<1>4. CASE MainLeaveCallback(p)
  <2>1. ClientTypes'
    BY <1>4 DEF MainLeaveCallback, MainRuns, ClientTypes, Labels, Client
  <2>2. WatchTypes'
    BY <1>4 DEF MainLeaveCallback, MainRuns, WatchTypes, Callback
  <2>3. NameTypes' /\ SegmentTypes' /\ HistoryTypes' /\ CommandTypes'
    BY <1>4 DEF MainLeaveCallback, MainRuns, NameTypes, SegmentTypes, HistoryTypes, CommandTypes
  <2>4. Connected'
    BY <1>4 DEF MainLeaveCallback, MainRuns, Connected, ClientTypes, NameTypes, Object,
       ObjectOrNone, NoObject, WithSem, WithSeg
  <2>5. HandlerAlive'
    BY <1>4 DEF MainLeaveCallback, MainRuns, HandlerAlive, ClientTypes, WatchTypes, Client,
       Installed
  <2>6. ListReady'
    BY <1>4 DEF MainLeaveCallback, MainRuns, ListReady, ClientTypes, SegmentTypes
  <2>. QED
    BY <2>1, <2>2, <2>3, <2>4, <2>5, <2>6
<1>5. CASE MainCommit(p)
  <2>1. ClientTypes'
    BY <1>5 DEF MainCommit, MainRuns, ClientTypes, Labels, Client
  <2>2. WatchTypes'
    BY ReadingUpdate, <1>5 DEF MainCommit, MainRuns, WatchTypes
  <2>3. NameTypes' /\ SegmentTypes' /\ HistoryTypes' /\ CommandTypes'
    BY <1>5 DEF MainCommit, MainRuns, NameTypes, SegmentTypes, HistoryTypes, CommandTypes
  <2>4. Connected'
    BY <1>5 DEF MainCommit, MainRuns, Connected, ClientTypes, NameTypes, Object, ObjectOrNone,
       NoObject, WithSem, WithSeg
  <2>5. HandlerAlive'
    BY <1>5 DEF MainCommit, MainRuns, HandlerAlive, ClientTypes, WatchTypes, Client, Installed
  <2>6. ListReady'
    BY <1>5 DEF MainCommit, MainRuns, ListReady, ClientTypes, SegmentTypes
  <2>. QED
    BY <2>1, <2>2, <2>3, <2>4, <2>5, <2>6
<1>. QED
  BY <1>1, <1>2, <1>3, <1>4, <1>5

\* The signal handler.
LEMMA TypeHandler ==
    ASSUME TypeInv, NEW p \in Procs, HandlerStep(p), UNCHANGED << cmd, bounds >>
    PROVE  TypeInv'
<1> USE DEF TypeInv, Goto
<1>1. CASE HandlerStart(p)
  <2>1. WatchTypes'
    <3>1. [Blank EXCEPT !.state = state[seg[p]]] \in Readings
      BY <1>1, ReadingUpdate DEF HandlerStart, SegmentTypes, ClientTypes, Connected, Client,
         WithSem, WithSeg, Installed
    <3>. QED
      BY <1>1, <3>1 DEF WatchTypes, HandlerStart
  <2>2. ClientTypes' /\ NameTypes' /\ SegmentTypes' /\ HistoryTypes' /\ CommandTypes'
    BY <1>1 DEF HandlerStart, ClientTypes, NameTypes, SegmentTypes, HistoryTypes, CommandTypes
  <2>3. Connected'
    BY <1>1 DEF HandlerStart, Connected, ClientTypes, NameTypes, Object, ObjectOrNone, NoObject,
       WithSem, WithSeg
  <2>4. HandlerAlive'
    BY <1>1 DEF HandlerStart, HandlerAlive, ClientTypes, WatchTypes, Client, Installed
  <2>5. ListReady'
    BY <1>1 DEF HandlerStart, ListReady, ClientTypes, SegmentTypes
  <2>. QED
    BY <2>1, <2>2, <2>3, <2>4, <2>5
<1>2. CASE HandlerSkip(p)
  <2>1. WatchTypes'
    BY <1>2 DEF HandlerSkip, WatchTypes
  <2>2. ClientTypes' /\ NameTypes' /\ SegmentTypes' /\ HistoryTypes' /\ CommandTypes'
    BY <1>2 DEF HandlerSkip, ClientTypes, NameTypes, SegmentTypes, HistoryTypes, CommandTypes
  <2>3. Connected'
    BY <1>2 DEF HandlerSkip, Connected, ClientTypes, NameTypes, Object, ObjectOrNone, NoObject,
       WithSem, WithSeg
  <2>4. HandlerAlive'
    BY <1>2 DEF HandlerSkip, HandlerAlive, ClientTypes, WatchTypes, Client, Installed
  <2>5. ListReady'
    BY <1>2 DEF HandlerSkip, ListReady, ClientTypes, SegmentTypes
  <2>. QED
    BY <2>1, <2>2, <2>3, <2>4, <2>5
<1>3. CASE HandlerReadTs(p)
  <2>1. WatchTypes'
    <3> DEFINE read == [hread[p] EXCEPT !.ts = ts[seg[p]]]
    <3>1. ts[seg[p]] \in 0 .. MaxTime
      BY <1>3 DEF HandlerReadTs, SegmentTypes, ClientTypes, Connected, Client, WithSem, WithSeg,
         HandlerAlive, Installed
    <3>2. read \in Readings
      BY <3>1, ReadingUpdate DEF WatchTypes
    <3>3. hread' \in {[hread EXCEPT ![p] = read], [hread EXCEPT ![p] = Blank]}
      BY <1>3 DEF HandlerReadTs
    <3>4. hread' \in [Procs -> Readings]
      BY <3>2, <3>3, ReadingUpdate DEF WatchTypes
    <3>. QED
      BY <1>3, <3>4 DEF WatchTypes, HandlerReadTs
  <2>2. ClientTypes' /\ NameTypes' /\ SegmentTypes' /\ HistoryTypes' /\ CommandTypes'
    BY <1>3 DEF HandlerReadTs, ClientTypes, NameTypes, SegmentTypes, HistoryTypes, CommandTypes
  <2>3. Connected'
    BY <1>3 DEF HandlerReadTs, Connected, ClientTypes, NameTypes, Object, ObjectOrNone, NoObject,
       WithSem, WithSeg
  <2>4. HandlerAlive'
    BY <1>3 DEF HandlerReadTs, HandlerAlive, ClientTypes, WatchTypes, Client, Installed
  <2>5. ListReady'
    BY <1>3 DEF HandlerReadTs, ListReady, ClientTypes, SegmentTypes
  <2>. QED
    BY <2>1, <2>2, <2>3, <2>4, <2>5
<1>4. CASE HandlerCallback(p)
  <2>1. WatchTypes'
    BY ReadingUpdate, <1>4 DEF HandlerCallback, WatchTypes, Callback
  <2>2. ClientTypes' /\ NameTypes' /\ SegmentTypes' /\ HistoryTypes' /\ CommandTypes'
    BY <1>4 DEF HandlerCallback, ClientTypes, NameTypes, SegmentTypes, HistoryTypes, CommandTypes
  <2>3. Connected'
    BY <1>4 DEF HandlerCallback, Connected, ClientTypes, NameTypes, Object, ObjectOrNone,
       NoObject, WithSem, WithSeg
  <2>4. HandlerAlive'
    BY <1>4 DEF HandlerCallback, HandlerAlive, ClientTypes, WatchTypes, Client, Installed
  <2>5. ListReady'
    BY <1>4 DEF HandlerCallback, ListReady, ClientTypes, SegmentTypes
  <2>. QED
    BY <2>1, <2>2, <2>3, <2>4, <2>5
<1>. QED
  BY <1>1, <1>2, <1>3, <1>4 DEF HandlerStep

\* start() and shutdown().
LEMMA TypeStartStop ==
    ASSUME TypeInv, NEW p \in Procs, UNCHANGED << cmd, bounds >>,
           Start(p) \/ Shutdown(p) \/ StopSymbols(p) \/ StopWatch(p)
    PROVE  TypeInv'
<1> USE DEF TypeInv, Goto
<1>1. CASE Start(p)
  <2>1. ClientTypes'
    BY <1>1 DEF Start, ClientTypes, Labels
  <2>2. NameTypes' /\ SegmentTypes' /\ HistoryTypes' /\ WatchTypes' /\ CommandTypes'
    BY <1>1 DEF Start, NameTypes, SegmentTypes, HistoryTypes, WatchTypes, CommandTypes
  <2>3. Connected'
    BY <1>1 DEF Start, Connected, ClientTypes, NameTypes, Object, ObjectOrNone, NoObject, WithSem,
       WithSeg
  <2>4. HandlerAlive'
    BY <1>1 DEF Start, HandlerAlive, ClientTypes, WatchTypes, Client, Installed
  <2>5. ListReady'
    BY <1>1 DEF Start, ListReady, ClientTypes, SegmentTypes
  <2>. QED
    BY <2>1, <2>2, <2>3, <2>4, <2>5
<1>2. CASE Shutdown(p)
  <2>1. ClientTypes'
    BY <1>2 DEF Shutdown, MainRuns, ClientTypes, Labels
  <2>2. NameTypes' /\ SegmentTypes' /\ HistoryTypes' /\ WatchTypes' /\ CommandTypes'
    BY <1>2 DEF Shutdown, MainRuns, NameTypes, SegmentTypes, HistoryTypes, WatchTypes,
       CommandTypes
  <2>3. Connected'
    BY <1>2 DEF Shutdown, MainRuns, Connected, ClientTypes, NameTypes, Object, ObjectOrNone,
       NoObject, WithSem, WithSeg
  <2>4. HandlerAlive'
    BY <1>2 DEF Shutdown, MainRuns, HandlerAlive, ClientTypes, WatchTypes, Client, Installed
  <2>5. ListReady'
    BY <1>2 DEF Shutdown, MainRuns, ListReady, ClientTypes, SegmentTypes
  <2>. QED
    BY <2>1, <2>2, <2>3, <2>4, <2>5
<1>3. CASE StopSymbols(p)
  <2>1. ClientTypes'
    BY <1>3 DEF StopSymbols, MainRuns, ClientTypes, Labels
  <2>2. WatchTypes'
    BY <1>3 DEF StopSymbols, MainRuns, WatchTypes
  <2>3. NameTypes' /\ SegmentTypes' /\ HistoryTypes' /\ CommandTypes'
    BY <1>3 DEF StopSymbols, MainRuns, NameTypes, SegmentTypes, HistoryTypes, CommandTypes
  <2>4. Connected'
    BY <1>3 DEF StopSymbols, MainRuns, Connected, ClientTypes, NameTypes, Object, ObjectOrNone,
       NoObject, WithSem, WithSeg
  <2>5. HandlerAlive'
    BY <1>3 DEF StopSymbols, MainRuns, HandlerAlive, ClientTypes, WatchTypes, Client, Installed
  <2>6. ListReady'
    BY <1>3 DEF StopSymbols, MainRuns, ListReady, ClientTypes, SegmentTypes
  <2>. QED
    BY <2>1, <2>2, <2>3, <2>4, <2>5, <2>6
<1>4. CASE StopWatch(p)
  <2>1. ClientTypes'
    BY ShmAssumption, <1>4 DEF StopWatch, MainRuns, ClientTypes, Labels, Client, ObjectOrNone,
       NoObject
  <2>2. WatchTypes'
    BY <1>4 DEF StopWatch, MainRuns, WatchTypes
  <2>3. NameTypes' /\ SegmentTypes' /\ HistoryTypes' /\ CommandTypes'
    BY <1>4 DEF StopWatch, MainRuns, NameTypes, SegmentTypes, HistoryTypes, CommandTypes
  <2>4. Connected'
    BY <1>4 DEF StopWatch, MainRuns, Connected, ClientTypes, NameTypes, Object, ObjectOrNone,
       NoObject, WithSem, WithSeg
  <2>5. HandlerAlive'
    BY <1>4 DEF StopWatch, MainRuns, HandlerAlive, ClientTypes, WatchTypes, Client, Installed
  <2>6. ListReady'
    BY <1>4 DEF StopWatch, MainRuns, ListReady, ClientTypes, SegmentTypes
  <2>. QED
    BY <2>1, <2>2, <2>3, <2>4, <2>5, <2>6
<1>. QED
  BY <1>1, <1>2, <1>3, <1>4

\* One command of the command line client.
LEMMA TypeCommand ==
    ASSUME TypeInv, NEW c \in Clis,
           \/ CommandUnchanged(c) \/ Command(c) \/ SetState(c) \/ SetTimestamp(c)
           \/ SignalSlot(c) \/ CommandDone(c) \/ Exit(c)
    PROVE  TypeInv'
<1> USE DEF TypeInv, Goto
<1> c \in Client /\ c \notin Procs
  BY ShmAssumption DEF Client
<1>1. CASE CommandUnchanged(c)
  <2>1. ClientTypes'
    BY <1>1 DEF CommandUnchanged, AcquireRelease, ClientTypes, Labels
  <2>2. NameTypes' /\ SegmentTypes' /\ HistoryTypes' /\ WatchTypes' /\ CommandTypes'
    BY <1>1 DEF CommandUnchanged, AcquireRelease, NameTypes, SegmentTypes, HistoryTypes,
       WatchTypes, CommandTypes
  <2>3. Connected'
    BY <1>1 DEF CommandUnchanged, AcquireRelease, Connected, ClientTypes, NameTypes, Object,
       ObjectOrNone, NoObject, WithSem, WithSeg
  <2>4. HandlerAlive'
    BY <1>1 DEF CommandUnchanged, AcquireRelease, HandlerAlive, ClientTypes, WatchTypes, Client,
       Installed
  <2>5. ListReady'
    BY <1>1 DEF CommandUnchanged, AcquireRelease, ListReady, ClientTypes, SegmentTypes
  <2>. QED
    BY <2>1, <2>2, <2>3, <2>4, <2>5
<1>2. CASE Command(c)
  <2>1. ClientTypes'
    BY <1>2 DEF Command, Acquire, ClientTypes, Labels
  <2>2. NameTypes'
    BY <1>2 DEF Command, Acquire, NameTypes, ClientTypes, Connected, WithSem, WithSeg, Client
  <2>3. HistoryTypes'
    BY <1>2 DEF Command, Acquire, HistoryTypes, ClientTypes, Connected, WithSem, WithSeg, Client,
       ObjectOrNone, Object
  <2>4. SegmentTypes' /\ WatchTypes' /\ CommandTypes'
    BY <1>2 DEF Command, Acquire, SegmentTypes, WatchTypes, CommandTypes
  <2>5. Connected'
    BY <1>2 DEF Command, Acquire, Connected, ClientTypes, NameTypes, Object, ObjectOrNone,
       NoObject, WithSem, WithSeg
  <2>6. HandlerAlive'
    BY <1>2 DEF Command, Acquire, HandlerAlive, ClientTypes, WatchTypes, Client, Installed
  <2>7. ListReady'
    BY <1>2 DEF Command, Acquire, ListReady, ClientTypes, SegmentTypes
  <2>. QED
    BY <2>1, <2>2, <2>3, <2>4, <2>5, <2>6, <2>7
<1>3. CASE SetState(c)
  <2>1. ClientTypes'
    BY <1>3 DEF SetState, ClientTypes, Labels
  <2>2. SegmentTypes'
    BY <1>3 DEF SetState, SegmentTypes, States, Target
  <2>3. NameTypes' /\ HistoryTypes' /\ WatchTypes' /\ CommandTypes'
    BY <1>3 DEF SetState, NameTypes, HistoryTypes, WatchTypes, CommandTypes
  <2>4. Connected'
    BY <1>3 DEF SetState, Connected, ClientTypes, NameTypes, Object, ObjectOrNone, NoObject,
       WithSem, WithSeg
  <2>5. HandlerAlive'
    BY <1>3 DEF SetState, HandlerAlive, ClientTypes, WatchTypes, Client, Installed
  <2>6. ListReady'
    BY <1>3 DEF SetState, ListReady, ClientTypes, SegmentTypes
  <2>. QED
    BY <2>1, <2>2, <2>3, <2>4, <2>5, <2>6
<1>4. CASE SetTimestamp(c)
  <2>1. ClientTypes'
    BY <1>4 DEF SetTimestamp, ClientTypes, Labels
  <2>2. SegmentTypes'
    BY BoundAssumption, <1>4 DEF SetTimestamp, SegmentTypes, ClientTypes, Connected, WithSem,
       WithSeg, Client, CommandTypes
  <2>3. CommandTypes'
    BY <1>4 DEF SetTimestamp, CommandTypes
  <2>4. NameTypes' /\ HistoryTypes' /\ WatchTypes'
    BY <1>4 DEF SetTimestamp, NameTypes, HistoryTypes, WatchTypes
  <2>5. Connected'
    BY <1>4 DEF SetTimestamp, Connected, ClientTypes, NameTypes, Object, ObjectOrNone, NoObject,
       WithSem, WithSeg
  <2>6. HandlerAlive'
    BY <1>4 DEF SetTimestamp, HandlerAlive, ClientTypes, WatchTypes, Client, Installed
  <2>7. ListReady'
    BY <1>4 DEF SetTimestamp, ListReady, ClientTypes, SegmentTypes
  <2>. QED
    BY <2>1, <2>2, <2>3, <2>4, <2>5, <2>6, <2>7
<1>5. CASE SignalSlot(c)
  <2>1. ClientTypes'
    <3>1. pc' \in [Client -> Labels]
      BY <1>5, SignalledSlot DEF SignalSlot, ClientTypes, Labels
    <3>. QED
      BY <1>5, SignalledSlot, <3>1 DEF SignalSlot, ClientTypes
  <2>2. SegmentTypes'
    <3>1. slot' \in {slot, [slot EXCEPT ![seg[c]][idx[c]] = NoPid]}
      BY <1>5 DEF SignalSlot
    <3>2. slot' \in [Object -> [Index -> Procs \cup {NoPid}]]
      BY <1>5, SignalledSlot, <3>1 DEF SegmentTypes
    <3>. QED
      BY <1>5, <3>2 DEF SignalSlot, SegmentTypes
  <2>3. WatchTypes'
    BY SignalledSlot, <1>5 DEF SignalSlot, WatchTypes
  <2>4. NameTypes' /\ HistoryTypes' /\ CommandTypes'
    BY <1>5 DEF SignalSlot, NameTypes, HistoryTypes, CommandTypes
  <2>5. Connected'
    BY <1>5 DEF SignalSlot, Connected, ClientTypes, NameTypes, Object, ObjectOrNone, NoObject,
       WithSem, WithSeg
  <2>6. HandlerAlive'
    BY <1>5 DEF SignalSlot, HandlerAlive, ClientTypes, WatchTypes, Client, Installed
  <2>7. ListReady'
    BY <1>5 DEF SignalSlot, ListReady, ClientTypes, SegmentTypes
  <2>. QED
    BY <2>1, <2>2, <2>3, <2>4, <2>5, <2>6, <2>7
<1>6. CASE CommandDone(c)
  <2>1. ClientTypes'
    BY ShmAssumption, <1>6 DEF CommandDone, Release, ClientTypes, Labels
  <2>2. NameTypes'
    BY <1>6 DEF CommandDone, Release, NameTypes, ClientTypes, Connected, WithSem, WithSeg, Client
  <2>3. SegmentTypes' /\ HistoryTypes' /\ WatchTypes' /\ CommandTypes'
    BY <1>6 DEF CommandDone, Release, SegmentTypes, HistoryTypes, WatchTypes, CommandTypes
  <2>4. Connected'
    BY <1>6 DEF CommandDone, Release, Connected, ClientTypes, NameTypes, Object, ObjectOrNone,
       NoObject, WithSem, WithSeg
  <2>5. HandlerAlive'
    BY <1>6 DEF CommandDone, Release, HandlerAlive, ClientTypes, WatchTypes, Client, Installed
  <2>6. ListReady'
    BY <1>6 DEF CommandDone, Release, ListReady, ClientTypes, SegmentTypes
  <2>. QED
    BY <2>1, <2>2, <2>3, <2>4, <2>5, <2>6
<1>7. CASE Exit(c)
  <2>1. ClientTypes'
    BY ShmAssumption, <1>7 DEF Exit, ClientTypes, Labels, ObjectOrNone, NoObject
  <2>2. CommandTypes'
    BY <1>7 DEF Exit, CommandTypes, Commands
  <2>3. NameTypes' /\ SegmentTypes' /\ HistoryTypes' /\ WatchTypes'
    BY <1>7 DEF Exit, NameTypes, SegmentTypes, HistoryTypes, WatchTypes
  <2>4. Connected'
    BY <1>7 DEF Exit, Connected, ClientTypes, NameTypes, Object, ObjectOrNone, NoObject, WithSem,
       WithSeg
  <2>5. HandlerAlive'
    BY <1>7 DEF Exit, HandlerAlive, ClientTypes, WatchTypes, Client, Installed
  <2>6. ListReady'
    BY <1>7 DEF Exit, ListReady, ClientTypes, SegmentTypes
  <2>. QED
    BY <2>1, <2>2, <2>3, <2>4, <2>5, <2>6
<1>. QED
  BY <1>1, <1>2, <1>3, <1>4, <1>5, <1>6, <1>7

\* cleanup_invalid_processes, should_destroy and destroy.
LEMMA TypeRelease ==
    ASSUME TypeInv, NEW c \in Clis, ReleaseResources(c)
    PROVE  TypeInv'
<1> USE DEF TypeInv, Goto
<1> c \in Client /\ c \notin Procs
  BY ShmAssumption DEF Client
<1> UNCHANGED << watchVars, cmd, bounds >>
  BY DEF ReleaseResources
<1>1. CASE CleanupInvalid(c)
  <2>1. ClientTypes'
    BY <1>1 DEF CleanupInvalid, Release, ClientTypes, Labels
  <2>2. NameTypes'
    BY <1>1 DEF CleanupInvalid, Release, NameTypes, ClientTypes, Connected, WithSem, WithSeg,
       Client
  <2>3. SegmentTypes'
    BY <1>1 DEF CleanupInvalid, Release, SegmentTypes, LiveSlots
  <2>4. HistoryTypes' /\ WatchTypes' /\ CommandTypes'
    BY <1>1 DEF CleanupInvalid, Release, HistoryTypes, WatchTypes, CommandTypes
  <2>5. Connected'
    BY <1>1 DEF CleanupInvalid, Release, Connected, ClientTypes, NameTypes, Object, ObjectOrNone,
       NoObject, WithSem, WithSeg
  <2>6. HandlerAlive'
    BY <1>1 DEF CleanupInvalid, Release, HandlerAlive, ClientTypes, WatchTypes, Client, Installed
  <2>7. ListReady'
    BY <1>1 DEF CleanupInvalid, Release, ListReady, ClientTypes, SegmentTypes
  <2>. QED
    BY <2>1, <2>2, <2>3, <2>4, <2>5, <2>6, <2>7
<1>2. CASE ShouldDestroy(c)
  <2>1. ClientTypes'
    BY <1>2 DEF ShouldDestroy, ClientTypes, Labels
  <2>2. NameTypes' /\ SegmentTypes' /\ HistoryTypes' /\ WatchTypes' /\ CommandTypes'
    BY <1>2 DEF ShouldDestroy, NameTypes, SegmentTypes, HistoryTypes, WatchTypes, CommandTypes
  <2>3. Connected'
    BY <1>2 DEF ShouldDestroy, Connected, ClientTypes, NameTypes, Object, ObjectOrNone, NoObject,
       WithSem, WithSeg
  <2>4. HandlerAlive'
    BY <1>2 DEF ShouldDestroy, HandlerAlive, ClientTypes, WatchTypes, Client, Installed
  <2>5. ListReady'
    BY <1>2 DEF ShouldDestroy, ListReady, ClientTypes, SegmentTypes
  <2>. QED
    BY <2>1, <2>2, <2>3, <2>4, <2>5
<1>3. CASE UnlinkSegment(c)
  <2>1. ClientTypes'
    BY <1>3 DEF UnlinkSegment, ClientTypes, Labels
  <2>2. NameTypes'
    BY ShmAssumption, <1>3 DEF UnlinkSegment, NameTypes, ObjectOrNone, NoObject
  <2>3. SegmentTypes' /\ HistoryTypes' /\ WatchTypes' /\ CommandTypes'
    BY <1>3 DEF UnlinkSegment, SegmentTypes, HistoryTypes, WatchTypes, CommandTypes
  <2>4. Connected'
    BY <1>3 DEF UnlinkSegment, Connected, ClientTypes, NameTypes, Object, ObjectOrNone, NoObject,
       WithSem, WithSeg
  <2>5. HandlerAlive'
    BY <1>3 DEF UnlinkSegment, HandlerAlive, ClientTypes, WatchTypes, Client, Installed
  <2>6. ListReady'
    BY <1>3 DEF UnlinkSegment, ListReady, ClientTypes, SegmentTypes
  <2>. QED
    BY <2>1, <2>2, <2>3, <2>4, <2>5, <2>6
<1>4. CASE UnlinkSemaphore(c)
  <2>1. ClientTypes'
    BY <1>4 DEF UnlinkSemaphore, ClientTypes, Labels
  <2>2. NameTypes'
    BY ShmAssumption, <1>4 DEF UnlinkSemaphore, NameTypes, ObjectOrNone, NoObject
  <2>3. SegmentTypes' /\ HistoryTypes' /\ WatchTypes' /\ CommandTypes'
    BY <1>4 DEF UnlinkSemaphore, SegmentTypes, HistoryTypes, WatchTypes, CommandTypes
  <2>4. Connected'
    BY <1>4 DEF UnlinkSemaphore, Connected, ClientTypes, NameTypes, Object, ObjectOrNone,
       NoObject, WithSem, WithSeg
  <2>5. HandlerAlive'
    BY <1>4 DEF UnlinkSemaphore, HandlerAlive, ClientTypes, WatchTypes, Client, Installed
  <2>6. ListReady'
    BY <1>4 DEF UnlinkSemaphore, ListReady, ClientTypes, SegmentTypes
  <2>. QED
    BY <2>1, <2>2, <2>3, <2>4, <2>5, <2>6
<1>. QED
  BY <1>1, <1>2, <1>3, <1>4 DEF ReleaseResources

\* A service process is killed.
LEMMA TypeCrashProcess ==
    ASSUME TypeInv, NEW p \in Procs, CrashProcess(p)
    PROVE  TypeInv'
<1> USE DEF TypeInv, Goto
<1>1. CASE CrashProcess(p)
  <2>1. ClientTypes'
    BY ShmAssumption, <1>1 DEF CrashProcess, ClientTypes, Labels, Client, ObjectOrNone, NoObject
  <2>2. HistoryTypes'
    BY ShmAssumption, <1>1 DEF CrashProcess, HistoryTypes, Index
  <2>3. WatchTypes'
    BY ReadingUpdate, <1>1 DEF CrashProcess, WatchTypes
  <2>4. CommandTypes'
    BY BoundAssumption, <1>1 DEF CrashProcess, CommandTypes
  <2>5. NameTypes' /\ SegmentTypes'
    BY <1>1 DEF CrashProcess, NameTypes, SegmentTypes
  <2>6. Connected'
    BY <1>1 DEF CrashProcess, Connected, ClientTypes, NameTypes, Object, ObjectOrNone, NoObject,
       WithSem, WithSeg
  <2>7. HandlerAlive'
    BY <1>1 DEF CrashProcess, HandlerAlive, ClientTypes, WatchTypes, Client, Installed
  <2>8. ListReady'
    BY <1>1 DEF CrashProcess, ListReady, ClientTypes, SegmentTypes
  <2>. QED
    BY <2>1, <2>2, <2>3, <2>4, <2>5, <2>6, <2>7, <2>8
<1>. QED
  BY <1>1

\* A command line client starts, or is killed.
LEMMA TypeCliLife ==
    ASSUME TypeInv, NEW c \in Clis, CrashCli(c) \/ \E k \in Commands : Invoke(c, k)
    PROVE  TypeInv'
<1> USE DEF TypeInv, Goto
<1> c \in Client /\ c \notin Procs
  BY ShmAssumption DEF Client
<1>1. CASE CrashCli(c)
  <2>1. ClientTypes'
    BY <1>1 DEF CrashCli, ClientTypes, Labels
  <2>2. CommandTypes'
    BY BoundAssumption, <1>1 DEF CrashCli, CommandTypes
  <2>3. NameTypes' /\ SegmentTypes' /\ HistoryTypes' /\ WatchTypes'
    BY <1>1 DEF CrashCli, NameTypes, SegmentTypes, HistoryTypes, WatchTypes
  <2>4. Connected'
    BY <1>1 DEF CrashCli, Connected, ClientTypes, NameTypes, Object, ObjectOrNone, NoObject,
       WithSem, WithSeg
  <2>5. HandlerAlive'
    BY <1>1 DEF CrashCli, HandlerAlive, ClientTypes, WatchTypes, Client, Installed
  <2>6. ListReady'
    BY <1>1 DEF CrashCli, ListReady, ClientTypes, SegmentTypes
  <2>. QED
    BY <2>1, <2>2, <2>3, <2>4, <2>5, <2>6
<1>2. CASE \E k \in Commands : Invoke(c, k)
  <2>1. ClientTypes'
    BY <1>2 DEF Invoke, ClientTypes, Labels
  <2>2. CommandTypes'
    BY BoundAssumption, <1>2 DEF Invoke, CommandTypes
  <2>3. NameTypes' /\ SegmentTypes' /\ HistoryTypes' /\ WatchTypes'
    BY <1>2 DEF Invoke, NameTypes, SegmentTypes, HistoryTypes, WatchTypes
  <2>4. Connected'
    BY <1>2 DEF Invoke, Connected, ClientTypes, NameTypes, Object, ObjectOrNone, NoObject,
       WithSem, WithSeg
  <2>5. HandlerAlive'
    BY <1>2 DEF Invoke, HandlerAlive, ClientTypes, WatchTypes, Client, Installed
  <2>6. ListReady'
    BY <1>2 DEF Invoke, ListReady, ClientTypes, SegmentTypes
  <2>. QED
    BY <2>1, <2>2, <2>3, <2>4, <2>5, <2>6
<1>. QED
  BY <1>1, <1>2

LEMMA TypeStep == TypeInv /\ [Next]_vars => TypeInv'
<1> SUFFICES ASSUME TypeInv, [Next]_vars PROVE TypeInv'
  OBVIOUS
<1>1. ASSUME NEW p \in Procs, Start(p) \/ MainStep(p) \/ HandlerStep(p) \/ Shutdown(p),
             UNCHANGED << cmd, bounds >>
      PROVE  TypeInv'
  <2>1. CASE ConnectProcess(p)
    BY <1>1, <2>1, TypeConnect DEF ConnectProcess, Client
  <2>2. CASE AddCurrentProcess(p)
    BY <1>1, <2>2, TypeAddProcess
  <2>3. CASE \/ MainReadState(p) \/ MainReadTs(p) \/ MainEnterCallback(p)
             \/ MainLeaveCallback(p) \/ MainCommit(p)
    BY <1>1, <2>3, TypeMainCheck
  <2>4. CASE HandlerStep(p)
    BY <1>1, <2>4, TypeHandler
  <2>5. CASE Start(p) \/ Shutdown(p) \/ StopSymbols(p) \/ StopWatch(p)
    BY <1>1, <2>5, TypeStartStop
  <2>. QED
    BY <1>1, <2>1, <2>2, <2>3, <2>4, <2>5 DEF MainStep
<1>2. ASSUME NEW c \in Clis, CliStep(c)
      PROVE  TypeInv'
  <2>1. CASE ConnectCli(c)
    <3>1. (cmd[c] \in {"on", "restart"}) \in BOOLEAN
      OBVIOUS
    <3>. QED
      BY <2>1, <3>1, TypeConnect DEF ConnectCli, Client
  <2>2. CASE \/ CommandUnchanged(c) \/ Command(c) \/ SetState(c) \/ SetTimestamp(c)
             \/ SignalSlot(c) \/ CommandDone(c) \/ Exit(c)
    BY <2>2, TypeCommand
  <2>3. CASE ReleaseResources(c)
    BY <2>3, TypeRelease
  <2>. QED
    BY <1>2, <2>1, <2>2, <2>3 DEF CliStep
<1>3. ASSUME NEW p \in Procs, CrashProcess(p)
      PROVE  TypeInv'
  BY <1>3, TypeCrashProcess
<1>4. ASSUME NEW c \in Clis, CrashCli(c) \/ \E k \in Commands : Invoke(c, k)
      PROVE  TypeInv'
  BY <1>4, TypeCliLife
<1>5. CASE UNCHANGED vars
  BY <1>5 DEF vars, TypeInv, ClientTypes, NameTypes, SegmentTypes, HistoryTypes, WatchTypes,
     CommandTypes, Connected, HandlerAlive, ListReady, Installed
<1>. QED
  BY <1>1, <1>2, <1>3, <1>4, <1>5 DEF Next

\* Every variable keeps its type: a cursor stays inside the list, and a list position, an
\* object number or a timestamp never leaves its range.
THEOREM TypeCorrect == Spec => []TypeOK
<1>1. Spec => []TypeInv
  BY TypeInit, TypeStep, PTL DEF Spec
<1>. QED
  BY <1>1, TypeInvImplies, PTL

-----------------------------------------------------------------------------
(* Semaphores.  To the semaphores, every step is one of four kinds.        *)

\* Nobody enters a critical section, and who is inside stays as it is.
Keeps ==
    /\ semVal' = semVal /\ guard' = guard /\ raced \subseteq raced'
    /\ \A d \in Client : pc'[d] \in Locked =>
         pc[d] \in Locked /\ seg'[d] = seg[d] /\ sem'[d] = sem[d]

\* Client c enters the critical section.
Takes(c) ==
    /\ pc[c] \in WithSem \ Locked /\ Acquire(c)
    /\ seg' = seg /\ sem' = sem
    /\ \A d \in Client \ {c} : pc'[d] = pc[d]

\* Client c leaves it.
Gives(c) ==
    /\ pc[c] \in Locked /\ pc'[c] \notin Locked /\ Release(c)
    /\ seg' = seg /\ sem' = sem /\ guard' = guard /\ raced' = raced
    /\ \A d \in Client \ {c} : pc'[d] = pc[d]

\* A semaphore is made.
Makes ==
    /\ semMade < MaxObjects /\ semVal' = [semVal EXCEPT ![semMade + 1] = 1]
    /\ guard' = guard /\ raced' = raced
    /\ \A d \in Client : pc'[d] \in Locked =>
         pc[d] \in Locked /\ seg'[d] = seg[d] /\ sem'[d] = sem[d]

LEMMA ConnectKind ==
    ASSUME TypeInv, NEW c \in Client, NEW create \in BOOLEAN, NEW next \in {"add", "command"},
           NEW giveUp \in {"start_failed", "exit"}, Connect(c, create, next, giveUp)
    PROVE  Keeps \/ Makes
<1> USE DEF TypeInv, ClientTypes, Goto, Locked, Keeps, Makes
<1>1. CASE \/ OpenSegment(c) \/ SegmentMissing(c, create, giveUp) \/ CreateSegment(c)
           \/ CreateSegmentFails(c, giveUp)
  BY <1>1 DEF OpenSegment, SegmentMissing, CreateSegment, CreateSegmentFails
<1>2. CASE InitHeader(c) \/ InitProcessList(c)
  BY <1>2 DEF InitHeader, InitProcessList
<1>3. CASE OpenSemaphore(c, next) \/ CreateSemaphoreFails(c, giveUp)
  BY <1>3 DEF OpenSemaphore, CreateSemaphoreFails
<1>4. CASE CreateSemaphore(c, next)
  BY <1>4 DEF CreateSemaphore
<1>. QED
  BY <1>1, <1>2, <1>3, <1>4 DEF Connect

LEMMA ProcessKind ==
    ASSUME TypeInv, NEW p \in Procs,
           Start(p) \/ MainStep(p) \/ HandlerStep(p) \/ Shutdown(p) \/ CrashProcess(p)
    PROVE  Keeps \/ Makes \/ Takes(p) \/ Gives(p)
<1> p \in Client
  BY DEF Client
<1> USE DEF TypeInv, ClientTypes, Goto, Locked, Keeps
<1>1. CASE ConnectProcess(p)
  BY <1>1, ConnectKind DEF ConnectProcess
<1>2. CASE AddProcessUnavailable(p)
  BY <1>2 DEF AddProcessUnavailable, AcquireRelease
<1>3. CASE AddProcess(p)
  BY <1>3 DEF AddProcess, Takes, WithSem
<1>4. CASE RegisterProcess(p)
  BY <1>4 DEF RegisterProcess, Gives
<1>5. CASE \/ MainReadState(p) \/ MainReadTs(p) \/ MainEnterCallback(p)
           \/ MainLeaveCallback(p) \/ MainCommit(p)
  BY <1>5 DEF MainReadState, MainReadTs, MainEnterCallback, MainLeaveCallback, MainCommit
<1>6. CASE HandlerStep(p)
  BY <1>6 DEF HandlerStep, HandlerStart, HandlerSkip, HandlerReadTs, HandlerCallback
<1>7. CASE Start(p) \/ Shutdown(p) \/ StopSymbols(p) \/ StopWatch(p)
  BY <1>7 DEF Start, Shutdown, StopSymbols, StopWatch
<1>8. CASE CrashProcess(p)
  BY <1>8 DEF CrashProcess
<1>. QED
  BY <1>1, <1>2, <1>3, <1>4, <1>5, <1>6, <1>7, <1>8 DEF MainStep, AddCurrentProcess

LEMMA CliKind ==
    ASSUME TypeInv, NEW c \in Clis,
           CliStep(c) \/ CrashCli(c) \/ \E k \in Commands : Invoke(c, k)
    PROVE  Keeps \/ Makes \/ Takes(c) \/ Gives(c)
<1> c \in Client
  BY DEF Client
<1> USE DEF TypeInv, ClientTypes, Goto, Locked, Keeps
<1>1. CASE ConnectCli(c)
  <2>1. (cmd[c] \in {"on", "restart"}) \in BOOLEAN
    OBVIOUS
  <2>. QED
    BY <1>1, <2>1, ConnectKind DEF ConnectCli
<1>2. CASE CommandUnchanged(c)
  BY <1>2 DEF CommandUnchanged, AcquireRelease
<1>3. CASE Command(c)
  BY <1>3 DEF Command, Takes, WithSem
<1>4. CASE SetState(c) \/ SetTimestamp(c)
  BY <1>4 DEF SetState, SetTimestamp
<1>5. CASE SignalSlot(c)
  BY <1>5, SignalledSlot DEF SignalSlot
<1>6. CASE CommandDone(c)
  BY <1>6 DEF CommandDone, Gives
<1>7. CASE CleanupInvalid(c)
  BY <1>7 DEF CleanupInvalid, Gives
<1>8. CASE ShouldDestroy(c) \/ UnlinkSegment(c) \/ UnlinkSemaphore(c)
  BY <1>8 DEF ShouldDestroy, UnlinkSegment, UnlinkSemaphore
<1>9. CASE Exit(c) \/ CrashCli(c) \/ \E k \in Commands : Invoke(c, k)
  BY <1>9 DEF Exit, CrashCli, Invoke
<1>. QED
  BY <1>1, <1>2, <1>3, <1>4, <1>5, <1>6, <1>7, <1>8, <1>9 DEF CliStep, ReleaseResources

\* Where a step may bind names and connections.
Binds ==
    /\ shmMade' \in {shmMade, shmMade + 1} /\ semMade' \in {semMade, semMade + 1}
    /\ shmName' \in {shmName, NoObject, shmMade'}
    /\ semName' \in {semName, NoObject, semMade'}
    /\ \A d \in Client : seg'[d] \in {seg[d], NoObject, shmName, shmMade'}
    /\ \A d \in Client : sem'[d] \in {sem[d], NoObject, semName, semMade'}

LEMMA ConnectBinds ==
    ASSUME TypeInv, NEW c \in Client, NEW create \in BOOLEAN, NEW next \in {"add", "command"},
           NEW giveUp \in {"start_failed", "exit"}, Connect(c, create, next, giveUp)
    PROVE  Binds
<1> USE DEF TypeInv, ClientTypes, Binds
<1>1. CASE OpenSegment(c) \/ CreateSegment(c)
  BY <1>1 DEF OpenSegment, CreateSegment
<1>2. CASE OpenSemaphore(c, next) \/ CreateSemaphore(c, next)
  BY <1>2 DEF OpenSemaphore, CreateSemaphore
<1>3. CASE ~(\/ OpenSegment(c) \/ CreateSegment(c)
             \/ OpenSemaphore(c, next) \/ CreateSemaphore(c, next))
  BY <1>3 DEF Connect, SegmentMissing, CreateSegmentFails, InitHeader, InitProcessList,
     CreateSemaphoreFails
<1>. QED
  BY <1>1, <1>2, <1>3

LEMMA StepBinds == TypeInv /\ [Next]_vars => Binds
<1> SUFFICES ASSUME TypeInv, [Next]_vars PROVE Binds
  OBVIOUS
<1> USE DEF TypeInv, ClientTypes, Binds
<1>1. ASSUME NEW p \in Procs, Start(p) \/ MainStep(p) \/ HandlerStep(p) \/ Shutdown(p)
      PROVE  Binds
  <2>1. CASE ConnectProcess(p)
    BY <2>1, ConnectBinds DEF ConnectProcess, Client
  <2>2. CASE AddCurrentProcess(p)
    BY <2>2 DEF AddCurrentProcess, AddProcessUnavailable, AddProcess, RegisterProcess
  <2>3. CASE \/ MainReadState(p) \/ MainReadTs(p) \/ MainEnterCallback(p)
             \/ MainLeaveCallback(p) \/ MainCommit(p)
    BY <2>3 DEF MainReadState, MainReadTs, MainEnterCallback, MainLeaveCallback, MainCommit
  <2>4. CASE HandlerStep(p)
    BY <2>4 DEF HandlerStep, HandlerStart, HandlerSkip, HandlerReadTs, HandlerCallback
  <2>5. CASE Start(p) \/ Shutdown(p) \/ StopSymbols(p) \/ StopWatch(p)
    BY <2>5 DEF Start, Shutdown, StopSymbols, StopWatch
  <2>. QED
    BY <1>1, <2>1, <2>2, <2>3, <2>4, <2>5 DEF MainStep
<1>2. ASSUME NEW c \in Clis, CliStep(c)
      PROVE  Binds
  <2>1. CASE ConnectCli(c)
    <3>1. (cmd[c] \in {"on", "restart"}) \in BOOLEAN
      OBVIOUS
    <3>. QED
      BY <2>1, <3>1, ConnectBinds DEF ConnectCli, Client
  <2>2. CASE \/ CommandUnchanged(c) \/ Command(c) \/ SetState(c) \/ SetTimestamp(c)
             \/ SignalSlot(c) \/ CommandDone(c) \/ Exit(c)
    BY <2>2 DEF CommandUnchanged, Command, SetState, SetTimestamp, SignalSlot, CommandDone, Exit
  <2>3. CASE ReleaseResources(c)
    BY <2>3 DEF ReleaseResources, CleanupInvalid, ShouldDestroy, UnlinkSegment, UnlinkSemaphore
  <2>. QED
    BY <1>2, <2>1, <2>2, <2>3 DEF CliStep
<1>3. ASSUME NEW p \in Procs, CrashProcess(p) PROVE Binds
  BY <1>3 DEF CrashProcess
<1>4. ASSUME NEW c \in Clis, CrashCli(c) \/ \E k \in Commands : Invoke(c, k) PROVE Binds
  BY <1>4 DEF CrashCli, Invoke
<1>5. CASE UNCHANGED vars
  BY <1>5 DEF vars
<1>. QED
  BY <1>1, <1>2, <1>3, <1>4, <1>5 DEF Next

LEMMA MadeBeforeStep == TypeInv /\ MadeBefore /\ [Next]_vars => MadeBefore'
<1> SUFFICES ASSUME TypeInv, MadeBefore, Binds PROVE MadeBefore'
  BY StepBinds
<1>. QED
  BY DEF MadeBefore, Binds, TypeInv, NameTypes, ClientTypes, ObjectOrNone, NoObject

LEMMA KeepsHolding == TypeInv /\ Holding /\ Keeps => Holding'
BY DEF Holding, Keeps

\* The semaphore was free, so nobody inside has it; the segment's first semaphore is recorded.
LEMMA TakesHolding ==
    ASSUME TypeInv, Holding, NEW c \in Client, Takes(c)
    PROVE  Holding'
<1> USE DEF TypeInv
<1>1. /\ sem[c] \in Object /\ seg[c] \in Object
      /\ \A d \in Client : pc[d] \in Locked => sem[d] \in Object /\ seg[d] \in Object
  BY DEF Takes, Connected, WithSem, WithSeg, Locked
<1>2. \A d \in Client : pc[d] \in Locked => sem[d] # sem[c]
  BY DEF Takes, Acquire, Holding
<1>3. /\ semVal' = [semVal EXCEPT ![sem[c]] = 0]
      /\ raced \subseteq raced'
      /\ seg[c] \notin raced' => guard'[seg[c]] = sem[c]
      /\ \A s \in Object : guard[s] # NoObject => guard'[s] = guard[s]
  BY <1>1 DEF Takes, Acquire, HistoryTypes
<1>4. ASSUME NEW d \in Client, pc'[d] \in Locked
      PROVE  /\ semVal'[sem'[d]] = 0
             /\ seg'[d] \notin raced' => guard'[seg'[d]] = sem'[d]
             /\ \A e \in Client \ {d} : pc'[e] \in Locked => sem'[e] # sem'[d]
  <2>1. CASE d = c
    BY <1>1, <1>2, <1>3, <2>1 DEF Takes, NameTypes
  <2>2. CASE d # c
    <3>1. pc[d] \in Locked /\ sem'[d] = sem[d] /\ seg'[d] = seg[d] /\ sem' = sem
      BY <1>4, <2>2 DEF Takes
    <3>2. semVal'[sem[d]] = 0
      BY <1>1, <1>3, <3>1 DEF Holding, NameTypes
    <3>3. seg[d] \notin raced' => guard'[seg[d]] = sem[d]
      BY <1>1, <1>3, <3>1 DEF Holding, Object, NoObject
    <3>4. \A e \in Client \ {d} : pc'[e] \in Locked => sem[e] # sem[d]
      BY <1>2, <3>1 DEF Holding, Takes
    <3>. QED
      BY <3>1, <3>2, <3>3, <3>4
  <2>. QED
    BY <2>1, <2>2
<1>. QED
  BY <1>4 DEF Holding

\* Only the client that leaves had the semaphore it gives back.
LEMMA GivesHolding ==
    ASSUME TypeInv, Holding, NEW c \in Client, Gives(c)
    PROVE  Holding'
<1>1. \A d \in Client : pc'[d] \in Locked => d # c /\ pc[d] \in Locked /\ sem[d] # sem[c]
  BY DEF Gives, Holding
<1>2. \A d \in Client : pc'[d] \in Locked => semVal'[sem[d]] = semVal[sem[d]]
  BY <1>1 DEF Gives, Release, TypeInv, NameTypes
<1>. QED
  BY <1>1, <1>2 DEF Gives, Holding

\* A new semaphore is nobody's.
LEMMA MakesHolding == TypeInv /\ MadeBefore /\ Holding /\ Makes => Holding'
<1> SUFFICES ASSUME TypeInv, MadeBefore, Holding, Makes PROVE Holding'
  OBVIOUS
<1>1. \A d \in Client : sem[d] # semMade + 1
  BY DEF MadeBefore, TypeInv, NameTypes, ClientTypes, ObjectOrNone
<1>2. \A d \in Client : pc'[d] \in Locked => semVal'[sem[d]] = semVal[sem[d]]
  BY <1>1 DEF Makes, TypeInv, NameTypes
<1>. QED
  BY <1>2 DEF Holding, Makes

LEMMA StepKind ==
    ASSUME TypeInv, [Next]_vars
    PROVE  Keeps \/ Makes \/ \E c \in Client : Takes(c) \/ Gives(c)
<1>1. CASE UNCHANGED vars
  BY <1>1 DEF vars, Keeps
<1>. QED
  BY <1>1, ProcessKind, CliKind DEF Next, Client

LEMMA ExclusionInit == Init => ExclusionInv
<1> SUFFICES ASSUME Init PROVE ExclusionInv
  OBVIOUS
<1>. QED
  BY TypeInit DEF ExclusionInv, MadeBefore, Holding, Init, ShmInit, Locked, NoObject

LEMMA ExclusionStep == ExclusionInv /\ [Next]_vars => ExclusionInv'
<1> SUFFICES ASSUME ExclusionInv, [Next]_vars PROVE ExclusionInv'
  OBVIOUS
<1> USE DEF ExclusionInv
<1>1. Holding'
  BY StepKind, KeepsHolding, MakesHolding, TakesHolding, GivesHolding
<1>. QED
  BY <1>1, TypeStep, MadeBeforeStep

LEMMA ExclusionImplies == ExclusionInv => SegmentExclusion
BY DEF ExclusionInv, Holding, SegmentExclusion

LEMMA ExclusionAlways == Spec => []ExclusionInv
BY ExclusionInit, ExclusionStep, PTL DEF Spec

\* No two clients are ever inside the critical section of one segment, however many there are
\* and whoever dies inside, unless that segment was locked with two different semaphores
\* (destroy unlinks the segment's and the semaphore's names in two steps).
THEOREM ExclusionCorrect == Spec => []SegmentExclusion
BY ExclusionAlways, ExclusionImplies, PTL

-----------------------------------------------------------------------------
(* The ring.                                                               *)

\* Nobody starts to initialise a segment or connects to one.
SegmentsKept ==
    /\ raced \subseteq raced'
    /\ \A c \in Client : pc'[c] \in Initialising => pc[c] \in Initialising /\ seg'[c] = seg[c]
    /\ \A c \in Client : seg'[c] \in {seg[c], NoObject}

\* Nobody writes the cursor: only the slots of the dead are cleared, and only they are forgotten.
DataKept ==
    /\ raced \subseteq raced' /\ cursor' = cursor /\ len' = len
    /\ \A s \in Object, i \in Index :
         (i < len[s] /\ slot[s][i] \in Procs /\ pc'[slot[s][i]] \notin {"dead", "killed"})
            => slot'[s][i] = slot[s][i]
    /\ registered' \subseteq registered
    /\ \A p \in registered' : at'[p] = at[p] /\ age'[p] = age[p]
    /\ \A p \in Procs \ registered' : age'[p] = 0 \/ (p \notin registered /\ age'[p] = age[p])

\* Nobody new has read the cursor, and nobody returns to before its registration.
ReadersKept ==
    /\ \A p \in Procs : pc'[p] = "register" =>
         pc[p] = "register" /\ seg'[p] = seg[p] /\ idx'[p] = idx[p]
    /\ \A p \in Procs : pc[p] \in After =>
         /\ pc'[p] \in After /\ seg'[p] \in {seg[p], NoObject}
         /\ pc[p] \in {"dead", "killed"} => pc'[p] \in {"dead", "killed"}

RingKept == DataKept /\ ReadersKept

LEMMA DataUnchanged ==
    ASSUME TypeInv, UNCHANGED << cursor, len, slot, registered, at, age >>, raced \subseteq raced'
    PROVE  DataKept
BY DEF DataKept, TypeInv, HistoryTypes

LEMMA ConnectRing ==
    ASSUME TypeInv, NEW c \in Client, NEW create \in BOOLEAN, NEW next \in {"add", "command"},
           NEW giveUp \in {"start_failed", "exit"}, Connect(c, create, next, giveUp)
    PROVE  /\ SegmentsKept \/ OpenSegment(c) \/ CreateSegment(c)
           /\ RingKept \/ InitProcessList(c)
<1> USE DEF TypeInv, ClientTypes, Goto
<1>1. DataKept \/ InitProcessList(c)
  BY DataUnchanged DEF Connect, OpenSegment, SegmentMissing, CreateSegment, CreateSegmentFails,
     InitHeader, OpenSemaphore, CreateSemaphore, CreateSemaphoreFails
<1>2. CASE OpenSegment(c) \/ CreateSegment(c)
  <2>1. ReadersKept
    BY <1>2 DEF OpenSegment, CreateSegment, ReadersKept, After, Client
  <2>. QED
    BY <1>1, <1>2, <2>1 DEF RingKept
<1>3. CASE ~(OpenSegment(c) \/ CreateSegment(c))
  <2>1. /\ seg' = seg /\ raced' = raced /\ idx' = idx
        /\ \E l \in (Labels \ After) \ {"register"} : pc' = [pc EXCEPT ![c] = l]
        /\ pc[c] \notin After \cup {"register"}
        /\ pc'[c] \in Initialising => pc[c] \in Initialising
    BY <1>3 DEF Connect, SegmentMissing, CreateSegmentFails, InitHeader, InitProcessList,
       OpenSemaphore, CreateSemaphore, CreateSemaphoreFails, After, Labels, Initialising
  <2>2. SegmentsKept
    BY <2>1 DEF SegmentsKept
  <2>3. ReadersKept
    BY <2>1 DEF ReadersKept, Client
  <2>. QED
    BY <1>1, <2>2, <2>3 DEF RingKept
<1>. QED
  BY <1>2, <1>3

LEMMA ProcessRing ==
    ASSUME TypeInv, NEW p \in Procs,
           Start(p) \/ MainStep(p) \/ HandlerStep(p) \/ Shutdown(p) \/ CrashProcess(p)
    PROVE  /\ SegmentsKept \/ OpenSegment(p) \/ CreateSegment(p)
           /\ RingKept \/ InitProcessList(p) \/ AddProcess(p) \/ RegisterProcess(p)
<1> p \in Client /\ \A q \in Procs : q \in Client
  BY DEF Client
<1> USE DEF TypeInv, ClientTypes, Goto, SegmentsKept, ReadersKept, RingKept, Initialising, After
<1>1. CASE ConnectProcess(p)
  BY <1>1, ConnectRing DEF ConnectProcess
<1>2. CASE AddProcessUnavailable(p)
  BY <1>2, DataUnchanged DEF AddProcessUnavailable, AcquireRelease
<1>3. CASE AddProcess(p) \/ RegisterProcess(p)
  BY <1>3 DEF AddProcess, Acquire, RegisterProcess
<1>4. CASE \/ MainReadState(p) \/ MainReadTs(p) \/ MainEnterCallback(p)
           \/ MainLeaveCallback(p) \/ MainCommit(p)
  <2> USE DEF MainReadState, MainReadTs, MainEnterCallback, MainLeaveCallback, MainCommit
  <2>1. DataKept
    BY <1>4, DataUnchanged
  <2>2. SegmentsKept
    BY <1>4
  <2>3. ReadersKept
    BY <1>4
  <2>. QED
    BY <2>1, <2>2, <2>3
<1>5. CASE HandlerStep(p)
  BY <1>5, DataUnchanged DEF HandlerStep, HandlerStart, HandlerSkip, HandlerReadTs, HandlerCallback
<1>6. CASE Start(p) \/ Shutdown(p) \/ StopSymbols(p) \/ StopWatch(p)
  <2> USE DEF Start, Shutdown, StopSymbols, StopWatch
  <2>1. DataKept
    BY <1>6, DataUnchanged
  <2>2. SegmentsKept
    BY <1>6
  <2>3. ReadersKept
    BY <1>6
  <2>. QED
    BY <2>1, <2>2, <2>3
<1>7. CASE CrashProcess(p)
  <2>1. DataKept
    BY <1>7 DEF CrashProcess, DataKept, HistoryTypes, SegmentTypes
  <2>2. SegmentsKept /\ ReadersKept
    BY <1>7 DEF CrashProcess, Dead
  <2>. QED
    BY <2>1, <2>2
<1>. QED
  BY <1>1, <1>2, <1>3, <1>4, <1>5, <1>6, <1>7 DEF MainStep, AddCurrentProcess

LEMMA CliRing ==
    ASSUME TypeInv, NEW c \in Clis,
           CliStep(c) \/ CrashCli(c) \/ \E k \in Commands : Invoke(c, k)
    PROVE  /\ SegmentsKept \/ OpenSegment(c) \/ CreateSegment(c)
           /\ RingKept \/ InitProcessList(c)
<1> c \in Client /\ c \notin Procs /\ \A q \in Procs : q \in Client
  BY ShmAssumption DEF Client
<1> USE DEF TypeInv, ClientTypes, Goto, SegmentsKept, ReadersKept, RingKept, Initialising, After
<1>1. CASE ConnectCli(c)
  <2>1. (cmd[c] \in {"on", "restart"}) \in BOOLEAN
    OBVIOUS
  <2>. QED
    BY <1>1, <2>1, ConnectRing DEF ConnectCli
<1>2. CASE CommandUnchanged(c) \/ Command(c) \/ SetState(c) \/ SetTimestamp(c) \/ CommandDone(c)
  <2>1. raced \subseteq raced'
    BY <1>2 DEF CommandUnchanged, Command, SetState, SetTimestamp, CommandDone, Acquire,
       AcquireRelease
  <2>2. DataKept
    BY <1>2, <2>1, DataUnchanged
       DEF CommandUnchanged, Command, SetState, SetTimestamp, CommandDone
  <2>3. SegmentsKept
    BY <1>2, <2>1 DEF CommandUnchanged, Command, SetState, SetTimestamp, CommandDone
  <2>4. ReadersKept
    BY <1>2 DEF CommandUnchanged, Command, SetState, SetTimestamp, CommandDone
  <2>. QED
    BY <2>2, <2>3, <2>4
<1>3. CASE SignalSlot(c)
  <2> DEFINE s == seg[c]
             pid == slot[s][idx[c]]
  <2>1. /\ UNCHANGED << cursor, len, registered, at, age, seg, raced >>
        /\ \A p \in Procs : idx'[p] = idx[p]
        /\ \/ slot' = slot /\ pc' = pc
           \/ slot' = [slot EXCEPT ![s][idx[c]] = NoPid] /\ pc' = pc /\ Dead(pid)
           \/ slot' = slot /\ pc[pid] = "stopped" /\ pc' = [pc EXCEPT ![pid] = "killed"]
    BY <1>3 DEF SignalSlot
  <2>2. \A t \in Object, i \in Index :
          (slot[t][i] \in Procs /\ pc'[slot[t][i]] \notin {"dead", "killed"})
             => slot'[t][i] = slot[t][i]
    <3>1. CASE slot' = slot
      BY <3>1
    <3>2. CASE slot' = [slot EXCEPT ![s][idx[c]] = NoPid] /\ pc' = pc /\ Dead(pid)
      <4>1. slot \in [Object -> [Index -> Procs \cup {NoPid}]]
        BY DEF SegmentTypes
      <4>2. pc'[pid] \in {"dead", "killed"}
        BY <3>2 DEF Dead
      <4>3. \A t \in Object, i \in Index :
              (t # s \/ i # idx[c]) => slot'[t][i] = slot[t][i]
        BY <3>2, <4>1
      <4> QED BY <4>2, <4>3
    <3> QED BY <2>1, <3>1, <3>2
  <2>3. DataKept
    BY <2>1, <2>2 DEF DataKept, HistoryTypes
  <2>4. SegmentsKept
    BY <1>3, <2>1, SignalledSlot
  <2>5. ReadersKept
    BY <1>3, <2>1, SignalledSlot
  <2>. QED
    BY <2>3, <2>4, <2>5
<1>4. CASE CleanupInvalid(c)
  <2>1. seg[c] \in Object
    BY <1>4 DEF CleanupInvalid, Connected, WithSem, WithSeg
  <2>2. \A s \in Object, i \in Index :
          (i < len[s] /\ slot[s][i] \in Procs /\ ~Dead(slot[s][i])) => slot'[s][i] = slot[s][i]
    BY <1>4, <2>1, ShmAssumption DEF CleanupInvalid, LiveSlots, SegmentTypes
  <2>3. \A p \in Procs : pc'[p] = pc[p]
    BY <1>4 DEF CleanupInvalid
  <2>4. DataKept
    BY <1>4, <2>2, <2>3 DEF CleanupInvalid, DataKept, Dead, HistoryTypes
  <2>. QED
    BY <1>4, <2>3, <2>4 DEF CleanupInvalid
<1>5. CASE ShouldDestroy(c) \/ UnlinkSegment(c) \/ UnlinkSemaphore(c)
  <2> USE DEF ShouldDestroy, UnlinkSegment, UnlinkSemaphore
  <2>1. DataKept
    BY <1>5, DataUnchanged
  <2>2. SegmentsKept
    BY <1>5
  <2>3. ReadersKept
    BY <1>5
  <2>. QED
    BY <2>1, <2>2, <2>3
<1>6. CASE Exit(c) \/ CrashCli(c) \/ \E k \in Commands : Invoke(c, k)
  <2> USE DEF Exit, CrashCli, Invoke
  <2>1. DataKept
    BY <1>6, DataUnchanged
  <2>2. SegmentsKept
    BY <1>6
  <2>3. ReadersKept
    BY <1>6
  <2>. QED
    BY <2>1, <2>2, <2>3
<1>. QED
  BY <1>1, <1>2, <1>3, <1>4, <1>5, <1>6 DEF CliStep, ReleaseResources

\* A segment that is opened while it is initialised has raced; a new one is nobody's.
LEMMA SoleInitialiserStep ==
    ASSUME ExclusionInv, SoleInitialiser,
           SegmentsKept \/ \E c \in Client : OpenSegment(c) \/ CreateSegment(c)
    PROVE  SoleInitialiser'
<1> USE DEF ExclusionInv, TypeInv, ClientTypes, Goto
<1>1. CASE SegmentsKept
  BY <1>1 DEF SegmentsKept, SoleInitialiser, Connected, WithSeg, Initialising, Object, NoObject
<1>2. ASSUME NEW e \in Client, OpenSegment(e)
      PROVE  SoleInitialiser'
  BY <1>2 DEF OpenSegment, SoleInitialiser, Initialising
<1>3. ASSUME NEW e \in Client, CreateSegment(e)
      PROVE  SoleInitialiser'
  <2>1. \A d \in Client : seg[d] # shmMade + 1
    BY DEF MadeBefore, NameTypes, ObjectOrNone
  <2>. QED
    BY <1>3, <2>1 DEF CreateSegment, SoleInitialiser, Initialising
<1>. QED
  BY <1>1, <1>2, <1>3

LEMMA KeptRing ==
    ASSUME RegistrationInv, RingKept
    PROVE  CursorRead' /\ Registered' /\ Ring'
<1> USE DEF RegistrationInv, ExclusionInv, TypeInv, ClientTypes, RingKept, DataKept, ReadersKept
<1>1. CursorRead'
  BY DEF CursorRead
<1>2. Registered'
  BY DEF Registered, HistoryTypes
<1>3. ASSUME NEW p \in registered', Placed(p)'
      PROVE  /\ slot'[seg'[p]][at'[p]] = p
             /\ at'[p] + 1 + age'[p] \in { cursor'[seg'[p]], cursor'[seg'[p]] + MaxProcs }
  <2>1. p \in Procs /\ p \in registered /\ at'[p] = at[p] /\ age'[p] = age[p]
    BY <1>3 DEF HistoryTypes
  <2>2. /\ seg'[p] = seg[p] /\ seg[p] \in Object /\ len[seg[p]] = MaxProcs
        /\ pc'[p] \notin {"dead", "killed"} /\ Placed(p)
    BY <1>3, <2>1 DEF Placed, Registered, Dead, Client, ObjectOrNone, Object, NoObject
  <2>3. slot[seg[p]][at[p]] = p /\ at[p] + 1 + age[p] \in { cursor[seg[p]], cursor[seg[p]] + MaxProcs }
    BY <2>1, <2>2 DEF Ring
  <2>4. at[p] \in Index /\ at[p] < MaxProcs
    BY <2>1, ShmAssumption DEF HistoryTypes, Index
  <2>. QED
    BY <2>1, <2>2, <2>3, <2>4
<1>. QED
  BY <1>1, <1>2, <1>3 DEF Ring

\* Only a segment that has raced has anyone to see its cursor reset.
LEMMA InitProcessListRing ==
    ASSUME RegistrationInv, NEW c \in Client, InitProcessList(c)
    PROVE  CursorRead' /\ Registered' /\ Ring'
<1> USE DEF RegistrationInv, ExclusionInv, TypeInv, ClientTypes, InitProcessList, Goto
<1>1. seg[c] \in Object
  BY DEF Connected, WithSeg
<1>2. \A p \in Procs : (pc[p] \in After \cup {"register"} /\ seg[p] = seg[c]) => seg[p] \in raced
  BY DEF SoleInitialiser, Initialising, After, Client
<1>3. \A p \in Procs : pc[p] \in After \cup {"register"} => pc'[p] = pc[p]
  BY DEF After
<1>4. CursorRead'
  BY <1>1, <1>2, <1>3 DEF CursorRead, SegmentTypes
<1>5. Registered'
  BY <1>1, <1>3 DEF Registered, SegmentTypes
<1>6. Ring'
  BY <1>1, <1>2, <1>3 DEF Ring, Registered, Placed, Dead, SegmentTypes, HistoryTypes
<1>. QED
  BY <1>4, <1>5, <1>6

LEMMA AddProcessRing ==
    ASSUME RegistrationInv, NEW p \in Procs, AddProcess(p)
    PROVE  CursorRead' /\ Registered' /\ Ring'
<1> USE DEF RegistrationInv, ExclusionInv, TypeInv, ClientTypes, AddProcess, Acquire, Goto
<1>1. raced \subseteq raced'
  OBVIOUS
<1>2. CursorRead'
  BY <1>1 DEF CursorRead, Client
<1>3. p \notin registered
  BY DEF Registered, After
<1>4. Registered'
  BY <1>3 DEF Registered
<1>5. Ring'
  BY <1>1, <1>3 DEF Ring, Placed, Dead, HistoryTypes
<1>. QED
  BY <1>2, <1>4, <1>5

\* The cursor moves on by one, around the ring.
LEMMA RingNext ==
    \A x \in Index : /\ x % MaxProcs = x
                     /\ x + 1 < MaxProcs => (x + 1) % MaxProcs = x + 1
                     /\ x + 1 = MaxProcs => (x + 1) % MaxProcs = 0
                     /\ x + 1 < MaxProcs \/ x + 1 = MaxProcs
BY ShmAssumption DEF Index

LEMMA RegisterProcessRing ==
    ASSUME RegistrationInv, NEW p \in Procs, RegisterProcess(p)
    PROVE  CursorRead' /\ Registered' /\ Ring'
<1> DEFINE s == seg[p]
           x == idx[p]
<1> USE DEF RegistrationInv, ExclusionInv, TypeInv
<1>1. /\ p \in Client /\ pc[p] = "register" /\ p \notin registered /\ age[p] = 0
      /\ s \in Object /\ len[s] = MaxProcs /\ pc' = [pc EXCEPT ![p] = "check"]
      /\ seg' = seg /\ raced' = raced /\ len' = len
      /\ registered' = registered \cup {p}
      /\ \A q \in Procs \ {p} : idx'[q] = idx[q]
  BY DEF RegisterProcess, Goto, Client, ClientTypes, Registered, After, Connected, WithSem, WithSeg,
     ListReady
<1>2. \A q \in Procs \ {p} : (pc[q] = "register" /\ seg[q] = s) => s \in raced
  BY <1>1, ExclusionImplies DEF SegmentExclusion, Locked, Client
<1>3. \A t \in Object \ {s} : slot'[t] = slot[t] /\ cursor'[t] = cursor[t]
  BY <1>1 DEF RegisterProcess, SegmentTypes
<1>4. CursorRead'
  BY <1>1, <1>2, <1>3 DEF CursorRead, Client, ClientTypes, Connected, WithSem, WithSeg
<1>5. age' = [q \in Procs |-> IF q \in registered /\ seg[q] = s THEN age[q] + 1 ELSE age[q]]
  BY <1>1 DEF RegisterProcess
<1>6. Registered'
  BY <1>1, <1>5 DEF Registered, ClientTypes, After, Client
<1>7. ASSUME NEW q \in registered', Placed(q)'
      PROVE  /\ slot'[seg'[q]][at'[q]] = q
             /\ at'[q] + 1 + age'[q] \in { cursor'[seg'[q]], cursor'[seg'[q]] + MaxProcs }
  <2>1. q \in Procs /\ seg[q] \in Object /\ seg[q] \notin raced
    BY <1>1, <1>7 DEF Placed, HistoryTypes, ClientTypes, Client, ObjectOrNone, Object, NoObject
  <2>2. CASE seg[q] # s
    <3>1. q \in registered /\ q # p /\ at'[q] = at[q] /\ age'[q] = age[q] /\ Placed(q)
      BY <1>1, <1>5, <1>7, <2>1, <2>2 DEF RegisterProcess, Placed, Dead, HistoryTypes, ClientTypes
    <3>. QED
      BY <1>1, <1>3, <2>1, <2>2, <3>1 DEF Ring
  <2>3. CASE seg[q] = s
    <3>1. x \in Index /\ x = cursor[s]
      BY <1>1, <2>1, <2>3 DEF CursorRead, SegmentTypes
    <3>2. /\ slot' = [slot EXCEPT ![s][x] = p] /\ at' = [at EXCEPT ![p] = x]
          /\ cursor'[s] = (x + 1) % MaxProcs
      BY <1>1, <3>1, RingNext DEF RegisterProcess, SegmentTypes
    <3>3. /\ x \in Nat /\ MaxProcs \in Nat
          /\ \/ x + 1 < MaxProcs /\ cursor'[s] = x + 1
             \/ x + 1 = MaxProcs /\ cursor'[s] = 0
      BY <3>1, <3>2, RingNext, ShmAssumption DEF Index
    <3>4. CASE q = p
      <4>1. at'[q] = x /\ age'[q] = 0
        BY <1>1, <1>5, <3>2, <3>4 DEF HistoryTypes
      <4>2. slot'[s][x] = p
        BY <1>1, <3>1, <3>2 DEF SegmentTypes
      <4>. QED
        BY <1>1, <3>3, <3>4, <4>1, <4>2
    <3>5. CASE q # p
      <4>1. /\ q \in registered /\ at'[q] = at[q] /\ age'[q] = age[q] + 1 /\ Placed(q)
            /\ age[q] + 1 < MaxProcs /\ age[q] \in Nat
        BY <1>1, <1>5, <1>7, <2>1, <2>3, <3>2, <3>5, ShmAssumption
           DEF Placed, Dead, HistoryTypes, ClientTypes
      <4>2. slot[s][at[q]] = q /\ at[q] + 1 + age[q] \in { x, x + MaxProcs }
        BY <2>3, <3>1, <4>1 DEF Ring
      <4>3. at[q] \in Nat /\ at[q] < MaxProcs /\ at[q] \in Index
        BY <2>1, ShmAssumption DEF HistoryTypes, Index
      <4>4. at[q] # x
        BY <3>3, <4>1, <4>2, <4>3
      <4>5. slot'[s][at[q]] = q
        BY <1>1, <3>1, <3>2, <4>2, <4>3, <4>4 DEF SegmentTypes
      <4>6. at[q] + 1 + (age[q] + 1) \in { cursor'[s], cursor'[s] + MaxProcs }
        BY <3>3, <4>1, <4>2, <4>3
      <4>. QED
        BY <1>1, <2>3, <4>1, <4>5, <4>6
    <3>. QED
      BY <3>4, <3>5
  <2>. QED
    BY <2>2, <2>3
<1>. QED
  BY <1>4, <1>6, <1>7 DEF Ring

\* To the ring, every step is one of four kinds.
LEMMA StepRing ==
    ASSUME TypeInv, [Next]_vars
    PROVE  \/ RingKept
           \/ \E c \in Client : InitProcessList(c)
           \/ \E p \in Procs : AddProcess(p) \/ RegisterProcess(p)
<1>1. CASE UNCHANGED vars
  BY <1>1, DataUnchanged DEF vars, RingKept, ReadersKept
<1>. QED
  BY <1>1, ProcessRing, CliRing DEF Next, Client

LEMMA RegistrationInit == Init => RegistrationInv
<1> SUFFICES ASSUME Init PROVE RegistrationInv
  OBVIOUS
<1>. QED
  BY ExclusionInit DEF RegistrationInv, SoleInitialiser, CursorRead, Registered, Ring, Init,
     ShmInit, Initialising, Client

LEMMA RegistrationStep == RegistrationInv /\ [Next]_vars => RegistrationInv'
<1> SUFFICES ASSUME RegistrationInv, [Next]_vars PROVE RegistrationInv'
  OBVIOUS
<1>1. TypeInv /\ ExclusionInv /\ SoleInitialiser
  BY DEF RegistrationInv, ExclusionInv
<1>2. /\ SegmentsKept \/ \E c \in Client : OpenSegment(c) \/ CreateSegment(c)
  <2>1. CASE UNCHANGED vars
    BY <1>1, <2>1 DEF vars, SegmentsKept
  <2>. QED
    BY <1>1, <2>1, ProcessRing, CliRing DEF Next, Client
<1>3. ExclusionInv'
  BY <1>1, ExclusionStep
<1>4. SoleInitialiser'
  BY <1>1, <1>2, SoleInitialiserStep
<1>5. CursorRead' /\ Registered' /\ Ring'
  BY <1>1, StepRing, KeptRing, InitProcessListRing, AddProcessRing, RegisterProcessRing
<1>. QED
  BY <1>3, <1>4, <1>5 DEF RegistrationInv

LEMMA RegistrationImplies == RegistrationInv => RegistrationKept
BY DEF RegistrationInv, Ring, Placed, RegistrationKept

\* A process that registered stays in the list, through any interleaving of registrations,
\* commands, cleanups, restarts and crashes, until it has died or MaxProcs later registrations
\* have gone around the ring.
THEOREM RegistrationCorrect == Spec => []RegistrationKept
<1>1. Spec => []RegistrationInv
  BY RegistrationInit, RegistrationStep, PTL DEF Spec
<1>. QED
  BY <1>1, RegistrationImplies, PTL

-----------------------------------------------------------------------------
(* Following the commands.                                                 *)

\* The semaphore a segment was first locked with was made.
GuardMade == \A s \in Object : guard[s] <= semMade

\* A command begins its loops at the first position of the list.
Rewound == \A c \in Clis : pc[c] \notin {"signal", "exit"} => idx[c] = 0

\* A segment whose list has a length has a header.
HeaderFirst ==
    /\ \A c \in Client : pc[c] = "list" => hdr[seg[c]]
    /\ \A s \in Object : len[s] # 0 => hdr[s]

\* A handler that runs inside start()'s check has cut into it.
CutIn == \A p \in Procs : (hpc[p] # "none" /\ MidCheck(p)) => cut[p]

\* The hooks are as the last callback was told, which start() notes after the callback only.
Ending == { "stop_watch", "stopped", "dead", "killed" }
HooksFollow ==
    \A p \in Procs : (pc[p] \notin Ending /\ ~failed[p] /\ ~cut[p]) =>
        (hooks[p] <=> (IF pc[p] = "commit" THEN mread[p] ELSE cur[p]).state = "ON")

\* Reading r is what segment s commands.
Told(s, r) == r.state = state[s] /\ (state[s] = "ON" => r.ts = ts[s])

\* A command that has written or is about to write the timestamp has still to signal p.
Owed(p) ==
    \E c \in Clis :
        /\ seg[c] = seg[p]
        /\ \/ pc[c] = "set_ts"
           \/ pc[c] = "signal" /\ \E i \in Index : /\ idx[c] <= i /\ i < len[seg[p]]
                                                   /\ slot[seg[p]][i] = p

\* The semaphore of segment s was taken by a client that was killed inside.
Stuck(s) ==
    /\ guard[s] # NoObject /\ semVal[guard[s]] = 0
    /\ \A c \in Client : pc[c] \in Locked => sem[c] # guard[s]

\* Whichever frame of p reads the state has read, so far, what its segment commands; the
\* reading of a main frame that was cut into does not count.
Looked(p) ==
    \/ hpc[p] = "ts" /\ hread[p].state = state[seg[p]]
    \/ hpc[p] = "callback" /\ Told(seg[p], hread[p])
    \/ /\ hpc[p] = "none"
       /\ \/ cut[p]
          \/ pc[p] \in { "check", "stop_symbols", "stop_watch" }
          \/ pc[p] = "check_ts" /\ mread[p].state = state[seg[p]]
          \/ pc[p] \in { "decided", "in_callback", "commit" } /\ Told(seg[p], mread[p])
          \/ pc[p] = "running" /\ Told(seg[p], cur[p])

\* Process p is registered, connected and in the list of a segment that has not raced.
Listed(p) ==
    /\ p \in registered /\ ~Dead(p)
    /\ seg[p] # NoObject /\ seg[p] \notin raced /\ InList(p)

\* No command passes a listed process by: it has looked, or it will be told.
Informed ==
    \A p \in Procs : (Listed(p) /\ ~skipped[p]) =>
        sig[p] \/ Owed(p) \/ Stuck(seg[p]) \/ Looked(p)

FollowInv ==
    /\ RegistrationInv /\ GuardMade /\ Rewound /\ HeaderFirst /\ CutIn /\ HooksFollow /\ Informed

LEMMA FollowInit == Init => FollowInv
<1> SUFFICES ASSUME Init PROVE FollowInv
  OBVIOUS
<1>1. GuardMade /\ Rewound /\ HeaderFirst /\ CutIn
  BY DEF GuardMade, Rewound, HeaderFirst, CutIn, Init, ShmInit, WatchInit, Client, Object, NoObject
<1>2. HooksFollow
  BY DEF HooksFollow, Init, ShmInit, WatchInit, Blank, Client
<1>3. Informed
  BY DEF Informed, Listed, Init, ShmInit
<1>. QED
  BY <1>1, <1>2, <1>3, RegistrationInit DEF FollowInv

-----------------------------------------------------------------------------
(* Who may change what.                                                    *)

\* What process p keeps to itself; a signal may arrive.
Undisturbed(p) ==
    /\ pc'[p] = pc[p] /\ (sig[p] => sig'[p])
    /\ cur'[p] = cur[p] /\ mread'[p] = mread[p] /\ hpc'[p] = hpc[p] /\ hread'[p] = hread[p]
    /\ hooks'[p] = hooks[p] /\ failed'[p] = failed[p]
    /\ skipped'[p] = skipped[p] /\ cut'[p] = cut[p]

ProcessStep(p) == Start(p) \/ MainStep(p) \/ HandlerStep(p) \/ Shutdown(p) \/ CrashProcess(p)
ClientStep(c) == CliStep(c) \/ CrashCli(c) \/ \E k \in Commands : Invoke(c, k)

LEMMA Actors ==
    [Next]_vars => \/ UNCHANGED vars
                   \/ \E p \in Procs : ProcessStep(p)
                   \/ \E c \in Clis : ClientStep(c)
BY DEF Next, ProcessStep, ClientStep

\* Connecting moves nobody else.
LEMMA ConnectMoves ==
    ASSUME TypeInv, NEW c \in Client, NEW create, NEW next, NEW giveUp,
           Connect(c, create, next, giveUp)
    PROVE  /\ idx' = idx /\ slot' = slot
           /\ \A d \in Client \ {c} : pc'[d] = pc[d] /\ seg'[d] = seg[d]
           /\ pc'[c] \in {"header", "list", "sem", "sem_create", next, giveUp, "create"}
BY DEF Connect, OpenSegment, SegmentMissing, CreateSegment, CreateSegmentFails, InitHeader,
   InitProcessList, OpenSemaphore, CreateSemaphore, CreateSemaphoreFails, Goto, TypeInv, ClientTypes

\* A process's step moves no other client.
LEMMA ProcessMoves ==
    ASSUME TypeInv, NEW q \in Procs, ProcessStep(q), NEW d \in Client, d # q
    PROVE  pc'[d] = pc[d] /\ seg'[d] = seg[d] /\ idx'[d] = idx[d]
<1>0. q \in Client /\ ClientTypes
  BY DEF Client, TypeInv
<1>1. CASE ConnectProcess(q)
  BY <1>0, <1>1, ConnectMoves DEF ConnectProcess
<1>2. CASE AddCurrentProcess(q)
  BY <1>0, <1>2 DEF AddCurrentProcess, AddProcessUnavailable, AddProcess, RegisterProcess, Goto,
     ClientTypes
<1>3. CASE \/ MainReadState(q) \/ MainReadTs(q) \/ MainEnterCallback(q)
           \/ MainLeaveCallback(q) \/ MainCommit(q)
  BY <1>0, <1>3 DEF MainReadState, MainReadTs, MainEnterCallback, MainLeaveCallback, MainCommit,
     Goto, ClientTypes
<1>4. CASE HandlerStep(q)
  BY <1>4 DEF HandlerStep, HandlerStart, HandlerSkip, HandlerReadTs, HandlerCallback
<1>5. CASE Start(q) \/ Shutdown(q) \/ StopSymbols(q) \/ StopWatch(q) \/ CrashProcess(q)
  BY <1>0, <1>5 DEF Start, Shutdown, StopSymbols, StopWatch, CrashProcess, Goto, ClientTypes
<1>. QED
  BY <1>1, <1>2, <1>3, <1>4, <1>5 DEF ProcessStep, MainStep

LEMMA ProcessLeaves ==
    ASSUME TypeInv, NEW p \in Procs, NEW q \in Procs, p # q, ProcessStep(q)
    PROVE  Undisturbed(p)
<1>0. p \in Client /\ q \in Client /\ WatchTypes
  BY DEF Client, TypeInv
<1>1. pc'[p] = pc[p]
  BY <1>0, ProcessMoves
<1>2. CASE ConnectProcess(q) \/ AddCurrentProcess(q)
  BY <1>1, <1>2 DEF ConnectProcess, AddCurrentProcess, Undisturbed
<1>3. CASE \/ MainReadState(q) \/ MainReadTs(q) \/ MainEnterCallback(q)
           \/ MainLeaveCallback(q) \/ MainCommit(q)
  BY <1>0, <1>1, <1>3 DEF MainReadState, MainReadTs, MainEnterCallback, MainLeaveCallback,
     MainCommit, Callback, Undisturbed, WatchTypes
<1>4. CASE HandlerStart(q) \/ HandlerSkip(q) \/ HandlerReadTs(q)
  BY <1>0, <1>1, <1>4 DEF HandlerStart, HandlerSkip, HandlerReadTs, Undisturbed, WatchTypes
<1>5. CASE HandlerCallback(q)
  BY <1>0, <1>1, <1>5 DEF HandlerCallback, Callback, Undisturbed, WatchTypes
<1>6. CASE Start(q) \/ Shutdown(q) \/ StopSymbols(q) \/ StopWatch(q)
  BY <1>0, <1>1, <1>6 DEF Start, Shutdown, StopSymbols, StopWatch, Undisturbed, WatchTypes
<1>7. CASE CrashProcess(q)
  BY <1>0, <1>1, <1>7 DEF CrashProcess, Undisturbed, WatchTypes
<1>. QED
  BY <1>2, <1>3, <1>4, <1>5, <1>6, <1>7 DEF ProcessStep, MainStep, HandlerStep

\* A command leaves a process alone, but it may signal it, which kills one that has stopped.
LEMMA ClientLeaves ==
    ASSUME TypeInv, NEW p \in Procs, NEW c \in Clis, ClientStep(c)
    PROVE  /\ seg'[p] = seg[p] /\ idx'[p] = idx[p]
           /\ Undisturbed(p) \/ (SignalSlot(c) /\ pc'[p] = "killed")
<1>0. p \in Client /\ c \in Client /\ p # c /\ ClientTypes /\ WatchTypes
  BY ShmAssumption DEF Client, TypeInv
<1>1. CASE ConnectCli(c)
  BY <1>0, <1>1, ConnectMoves DEF ConnectCli, Undisturbed
<1>2. CASE \/ CommandUnchanged(c) \/ Command(c) \/ SetState(c) \/ SetTimestamp(c)
           \/ CommandDone(c) \/ Exit(c)
  BY <1>0, <1>2 DEF CommandUnchanged, Command, SetState, SetTimestamp, CommandDone, Exit, Goto,
     Undisturbed, ClientTypes
<1>3. CASE SignalSlot(c)
  BY <1>0, <1>3 DEF SignalSlot, Goto, Undisturbed, ClientTypes, WatchTypes
<1>4. CASE ReleaseResources(c)
  BY <1>0, <1>4 DEF ReleaseResources, CleanupInvalid, ShouldDestroy, UnlinkSegment,
     UnlinkSemaphore, Goto, Undisturbed, ClientTypes
<1>5. CASE CrashCli(c) \/ \E k \in Commands : Invoke(c, k)
  BY <1>0, <1>5 DEF CrashCli, Invoke, Goto, Undisturbed, ClientTypes
<1>. QED
  BY <1>1, <1>2, <1>3, <1>4, <1>5 DEF ClientStep, CliStep

\* A command that writes or signals moves on only by itself.
LEMMA CommandMoves ==
    ASSUME TypeInv, NEW c \in Clis, [Next]_vars, pc[c] \in {"set_ts", "signal"}
    PROVE  \/ pc'[c] = pc[c] /\ seg'[c] = seg[c] /\ idx'[c] = idx[c]
           \/ SetTimestamp(c) \/ SignalSlot(c) \/ CommandDone(c) \/ CrashCli(c)
<1>0. c \in Client /\ c \notin Procs /\ ClientTypes
  BY ShmAssumption DEF Client, TypeInv
<1>1. ASSUME NEW p \in Procs, ProcessStep(p)
      PROVE  pc'[c] = pc[c] /\ seg'[c] = seg[c] /\ idx'[c] = idx[c]
  BY <1>0, <1>1, ProcessMoves
<1>2. ASSUME NEW d \in Clis, d # c, ClientStep(d)
      PROVE  pc'[c] = pc[c] /\ seg'[c] = seg[c] /\ idx'[c] = idx[c]
  <2>0. d \in Client
    BY DEF Client
  <2>1. CASE ConnectCli(d)
    BY <1>0, <1>2, <2>0, <2>1, ConnectMoves DEF ConnectCli
  <2>2. CASE \/ CommandUnchanged(d) \/ Command(d) \/ SetState(d) \/ SetTimestamp(d)
             \/ CommandDone(d) \/ Exit(d)
    BY <1>0, <1>2, <2>0, <2>2 DEF CommandUnchanged, Command, SetState, SetTimestamp, CommandDone,
       Exit, Goto, ClientTypes
  <2>3. CASE SignalSlot(d)
    <3>1. slot[seg[d]][idx[d]] \in Procs \cup {NoPid}
      BY <2>3, SignalledSlot
    <3>. QED
      BY <1>0, <1>2, <2>0, <2>3, <3>1 DEF SignalSlot, Goto, ClientTypes
  <2>4. CASE ReleaseResources(d)
    BY <1>0, <1>2, <2>0, <2>4 DEF ReleaseResources, CleanupInvalid, ShouldDestroy, UnlinkSegment,
       UnlinkSemaphore, Goto, ClientTypes
  <2>5. CASE CrashCli(d) \/ \E k \in Commands : Invoke(d, k)
    BY <1>0, <1>2, <2>0, <2>5 DEF CrashCli, Invoke, Goto, ClientTypes
  <2>. QED
    BY <1>2, <2>1, <2>2, <2>3, <2>4, <2>5 DEF ClientStep, CliStep
<1>3. CASE ClientStep(c)
  BY <1>3 DEF ClientStep, CliStep, ConnectCli, Connect, OpenSegment, SegmentMissing, CreateSegment,
     CreateSegmentFails, InitHeader, InitProcessList, OpenSemaphore, CreateSemaphore,
     CreateSemaphoreFails, CommandUnchanged, Command, SetState, ReleaseResources, CleanupInvalid,
     ShouldDestroy, UnlinkSegment, UnlinkSemaphore, Exit, Invoke
<1>4. CASE UNCHANGED vars
  BY <1>4 DEF vars
<1>. QED
  BY <1>1, <1>2, <1>3, <1>4, Actors

\* The commanded state is written by commands and by the segment's initialiser, the list's
\* length by the initialiser.
LEMMA StateWrites ==
    ASSUME [Next]_vars
    PROVE  \/ hdr' = hdr /\ state' = state /\ ts' = ts
           \/ \E c \in Client : InitHeader(c)
           \/ \E c \in Clis : SetState(c) \/ SetTimestamp(c)
<1>1. ASSUME NEW p \in Procs, ProcessStep(p)
      PROVE  (hdr' = hdr /\ state' = state /\ ts' = ts) \/ InitHeader(p)
  BY <1>1 DEF ProcessStep, MainStep, HandlerStep, ConnectProcess, Connect, OpenSegment,
     SegmentMissing, CreateSegment, CreateSegmentFails, InitProcessList, OpenSemaphore,
     CreateSemaphore, CreateSemaphoreFails, AddCurrentProcess, AddProcessUnavailable, AddProcess,
     RegisterProcess, MainReadState, MainReadTs, MainEnterCallback, MainLeaveCallback, MainCommit,
     StopSymbols, StopWatch, HandlerStart, HandlerSkip, HandlerReadTs, HandlerCallback, Start,
     Shutdown, CrashProcess
<1>2. ASSUME NEW c \in Clis, ClientStep(c)
      PROVE  \/ hdr' = hdr /\ state' = state /\ ts' = ts
             \/ InitHeader(c) \/ SetState(c) \/ SetTimestamp(c)
  BY <1>2 DEF ClientStep, CliStep, ConnectCli, Connect, OpenSegment, SegmentMissing, CreateSegment,
     CreateSegmentFails, InitProcessList, OpenSemaphore, CreateSemaphore, CreateSemaphoreFails,
     CommandUnchanged, Command, SignalSlot, CommandDone, ReleaseResources, CleanupInvalid,
     ShouldDestroy, UnlinkSegment, UnlinkSemaphore, Exit, CrashCli, Invoke
<1>3. CASE UNCHANGED vars
  BY <1>3 DEF vars
<1>. QED
  BY <1>1, <1>2, <1>3, Actors DEF Client

\* A pid enters the list by its own registration only.
LEMMA SlotWrites ==
    ASSUME TypeInv, [Next]_vars, NEW p \in Procs, ~RegisterProcess(p),
           NEW s \in Object, NEW i \in Index, slot'[s][i] = p
    PROVE  slot[s][i] = p
<1>0. /\ slot \in [Object -> [Index -> Procs \cup {NoPid}]] /\ p # NoPid
      /\ \A c \in Clis : c \in Client
  BY ShmAssumption DEF TypeInv, SegmentTypes, Client
<1>1. ASSUME NEW q \in Procs, ProcessStep(q)
      PROVE  slot' = slot \/ RegisterProcess(q)
  BY <1>1 DEF ProcessStep, MainStep, HandlerStep, ConnectProcess, Connect, OpenSegment,
     SegmentMissing, CreateSegment, CreateSegmentFails, InitHeader, InitProcessList, OpenSemaphore,
     CreateSemaphore, CreateSemaphoreFails, AddCurrentProcess, AddProcessUnavailable, AddProcess,
     MainReadState, MainReadTs, MainEnterCallback, MainLeaveCallback, MainCommit,
     StopSymbols, StopWatch, HandlerStart, HandlerSkip, HandlerReadTs, HandlerCallback, Start,
     Shutdown, CrashProcess
<1>2. ASSUME NEW c \in Clis, ClientStep(c)
      PROVE  slot' = slot \/ SignalSlot(c) \/ CleanupInvalid(c)
  BY <1>2 DEF ClientStep, CliStep, ConnectCli, Connect, OpenSegment, SegmentMissing, CreateSegment,
     CreateSegmentFails, InitHeader, InitProcessList, OpenSemaphore, CreateSemaphore,
     CreateSemaphoreFails, CommandUnchanged, Command, SetState, SetTimestamp, CommandDone,
     ReleaseResources, ShouldDestroy, UnlinkSegment, UnlinkSemaphore, Exit, CrashCli, Invoke
<1>3. CASE slot' = slot
  BY <1>3
<1>4. ASSUME NEW q \in Procs, q # p, RegisterProcess(q)
      PROVE  slot[s][i] = p
  BY <1>0, <1>4 DEF RegisterProcess
<1>5. ASSUME NEW c \in Clis, SignalSlot(c)
      PROVE  slot[s][i] = p
  <2>1. slot' = slot \/ slot' = [slot EXCEPT ![seg[c]][idx[c]] = NoPid]
    BY <1>5 DEF SignalSlot
  <2>. QED
    BY <1>0, <2>1
<1>6. ASSUME NEW c \in Clis, CleanupInvalid(c)
      PROVE  slot[s][i] = p
  BY <1>0, <1>6 DEF CleanupInvalid
<1>. QED
  BY <1>1, <1>2, <1>3, <1>4, <1>5, <1>6, Actors DEF vars

-----------------------------------------------------------------------------
(* The conjuncts of FollowInv, one by one.                                 *)

LEMMA GuardMadeStep == ExclusionInv /\ GuardMade /\ [Next]_vars => GuardMade'
<1> SUFFICES ASSUME ExclusionInv, GuardMade, [Next]_vars, NEW s \in Object
             PROVE  guard'[s] <= semMade'
  BY DEF GuardMade
<1>1. TypeInv /\ MadeBefore /\ guard[s] \in Nat /\ semMade \in Nat
  BY DEF ExclusionInv, TypeInv, HistoryTypes, NameTypes, ObjectOrNone
<1>2. semMade' \in {semMade, semMade + 1}
  BY <1>1, StepBinds DEF Binds
<1>3. guard'[s] = guard[s] \/ \E c \in Client : guard'[s] = sem[c]
  BY <1>1, StepKind DEF Keeps, Makes, Takes, Gives, Acquire, TypeInv, HistoryTypes
<1>4. \A c \in Client : sem[c] \in Nat /\ sem[c] <= semMade
  BY <1>1 DEF MadeBefore, TypeInv, ClientTypes, ObjectOrNone
<1>. QED
  BY <1>1, <1>2, <1>3, <1>4 DEF GuardMade

\* A semaphore whose holder is gone is never released.
LEMMA StuckKept ==
    ASSUME ExclusionInv, GuardMade, [Next]_vars, NEW s \in Object, Stuck(s)
    PROVE  Stuck(s)'
<1>1. /\ TypeInv /\ guard[s] \in Object /\ semMade \in Nat /\ guard[s] # semMade + 1
      /\ semVal \in [Object -> 0 .. 1] /\ guard \in [Object -> ObjectOrNone]
  BY DEF ExclusionInv, TypeInv, HistoryTypes, NameTypes, ObjectOrNone, Object, NoObject, Stuck,
     GuardMade
<1>2. CASE Keeps \/ Makes
  BY <1>1, <1>2 DEF Keeps, Makes, Stuck
<1>3. ASSUME NEW c \in Client, Takes(c)
      PROVE  Stuck(s)'
  <2>1. sem[c] # guard[s] /\ sem[c] \in Object
    BY <1>1, <1>3 DEF Takes, Acquire, Stuck, TypeInv, Connected, WithSem
  <2>2. guard'[s] = guard[s] /\ semVal'[guard[s]] = 0
    BY <1>1, <1>3, <2>1 DEF Takes, Acquire, Stuck
  <2>. QED
    BY <1>3, <2>1, <2>2 DEF Takes, Stuck
<1>4. ASSUME NEW c \in Client, Gives(c)
      PROVE  Stuck(s)'
  BY <1>1, <1>4 DEF Gives, Release, Stuck
<1>. QED
  BY <1>1, <1>2, <1>3, <1>4, StepKind

LEMMA RewoundStep == TypeInv /\ Rewound /\ [Next]_vars => Rewound'
<1> SUFFICES ASSUME TypeInv, Rewound, [Next]_vars, NEW c \in Clis,
                    pc'[c] \notin {"signal", "exit"}
             PROVE  idx'[c] = 0
  BY DEF Rewound
<1>0. c \in Client /\ c \notin Procs /\ ClientTypes /\ (pc[c] \notin {"signal", "exit"} => idx[c] = 0)
  BY ShmAssumption DEF Client, TypeInv, Rewound
<1>1. ASSUME NEW p \in Procs, ProcessStep(p)
      PROVE  idx'[c] = 0
  BY <1>0, <1>1, ProcessMoves
<1>2. ASSUME NEW d \in Clis, ClientStep(d)
      PROVE  idx'[c] = 0
  <2>0. d \in Client
    BY DEF Client
  <2>1. CASE ConnectCli(d)
    <3>1. CASE d = c
      <4>1. pc[c] \in {"open", "create", "header", "list", "sem", "sem_create"} /\ idx' = idx
        BY <2>1, <3>1 DEF ConnectCli, Connect, OpenSegment, SegmentMissing, CreateSegment,
           CreateSegmentFails, InitHeader, InitProcessList, OpenSemaphore, CreateSemaphore,
           CreateSemaphoreFails
      <4>. QED
        BY <1>0, <4>1
    <3>2. CASE d # c
      BY <1>0, <2>0, <2>1, <3>2, ConnectMoves DEF ConnectCli
    <3>. QED
      BY <3>1, <3>2
  <2>2. CASE CommandUnchanged(d) \/ Command(d) \/ SetState(d) \/ SetTimestamp(d)
    BY <1>0, <2>0, <2>2 DEF CommandUnchanged, Command, SetState, SetTimestamp, Goto, ClientTypes
  <2>3. CASE CommandDone(d) \/ Exit(d)
    BY <1>0, <2>0, <2>3 DEF CommandDone, Exit, Goto, ClientTypes
  <2>4. CASE SignalSlot(d)
    <3>1. pc'[c] = pc[c]
      BY <1>0, <2>4, SignalledSlot DEF SignalSlot, Goto, ClientTypes
    <3>2. c # d /\ idx'[c] = idx[c]
      BY <1>0, <2>0, <2>4, <3>1 DEF SignalSlot, ClientTypes
    <3>. QED
      BY <1>0, <3>1, <3>2
  <2>5. CASE ReleaseResources(d)
    BY <1>0, <2>0, <2>5 DEF ReleaseResources, CleanupInvalid, ShouldDestroy, UnlinkSegment,
       UnlinkSemaphore, Goto, ClientTypes
  <2>6. CASE CrashCli(d) \/ \E k \in Commands : Invoke(d, k)
    BY <1>0, <2>0, <2>6 DEF CrashCli, Invoke, Goto, ClientTypes
  <2>. QED
    BY <1>2, <2>1, <2>2, <2>3, <2>4, <2>5, <2>6 DEF ClientStep, CliStep
<1>3. CASE UNCHANGED vars
  BY <1>0, <1>3 DEF vars
<1>. QED
  BY <1>1, <1>2, <1>3, Actors

\* Only the initialiser is at "list", and only from there a length is written.
LEMMA ListWrites ==
    ASSUME TypeInv, [Next]_vars
    PROVE  \/ /\ len' = len
              /\ \A d \in Client : pc'[d] = "list" => pc[d] = "list" /\ seg'[d] = seg[d]
           \/ \E c \in Client : InitHeader(c) \/ InitProcessList(c)
<1> USE DEF TypeInv, ClientTypes
<1>1. ASSUME NEW c \in Client, NEW create \in BOOLEAN, NEW next \in {"add", "command"},
             NEW giveUp \in {"start_failed", "exit"}, Connect(c, create, next, giveUp),
             ~InitHeader(c), ~InitProcessList(c)
      PROVE  /\ len' = len
             /\ \A d \in Client : pc'[d] = "list" => pc[d] = "list" /\ seg'[d] = seg[d]
  BY <1>1 DEF Connect, OpenSegment, SegmentMissing, CreateSegment, CreateSegmentFails,
     OpenSemaphore, CreateSemaphore, CreateSemaphoreFails, Goto
<1>2. ASSUME NEW p \in Procs, ProcessStep(p), ~InitHeader(p), ~InitProcessList(p)
      PROVE  /\ len' = len
             /\ \A d \in Client : pc'[d] = "list" => pc[d] = "list" /\ seg'[d] = seg[d]
  <2>1. CASE ConnectProcess(p)
    BY <1>1, <1>2, <2>1 DEF ConnectProcess, Client
  <2>2. CASE \/ Start(p) \/ AddCurrentProcess(p) \/ HandlerStep(p) \/ Shutdown(p) \/ StopSymbols(p)
             \/ StopWatch(p) \/ CrashProcess(p)
    BY <2>2 DEF Start, AddCurrentProcess, AddProcessUnavailable, AddProcess, RegisterProcess,
       HandlerStep, HandlerStart, HandlerSkip, HandlerReadTs, HandlerCallback, Shutdown,
       StopSymbols, StopWatch, CrashProcess, Goto
  <2>3. CASE \/ MainReadState(p) \/ MainReadTs(p) \/ MainEnterCallback(p)
             \/ MainLeaveCallback(p) \/ MainCommit(p)
    BY <2>3 DEF MainReadState, MainReadTs, MainEnterCallback, MainLeaveCallback, MainCommit, Goto
  <2>. QED
    BY <1>2, <2>1, <2>2, <2>3 DEF ProcessStep, MainStep
<1>3. ASSUME NEW c \in Clis, ClientStep(c), ~InitHeader(c), ~InitProcessList(c)
      PROVE  /\ len' = len
             /\ \A d \in Client : pc'[d] = "list" => pc[d] = "list" /\ seg'[d] = seg[d]
  <2>1. CASE ConnectCli(c)
    <3>1. (cmd[c] \in {"on", "restart"}) \in BOOLEAN
      OBVIOUS
    <3>. QED
      BY <1>1, <1>3, <2>1, <3>1 DEF ConnectCli, Client
  <2>2. CASE ~ConnectCli(c)
    BY <1>3, <2>2 DEF ClientStep, CliStep, CommandUnchanged, Command, SetState, SetTimestamp,
       SignalSlot, CommandDone, ReleaseResources, CleanupInvalid, ShouldDestroy, UnlinkSegment,
       UnlinkSemaphore, Exit, CrashCli, Invoke, Goto
  <2>. QED
    BY <2>1, <2>2
<1>4. CASE UNCHANGED vars
  BY <1>4 DEF vars
<1>. QED
  BY <1>2, <1>3, <1>4, Actors DEF Client

LEMMA HeaderFirstStep == TypeInv /\ HeaderFirst /\ [Next]_vars => HeaderFirst'
<1> SUFFICES ASSUME TypeInv, HeaderFirst, [Next]_vars PROVE HeaderFirst'
  OBVIOUS
<1>1. /\ ClientTypes /\ hdr \in [Object -> BOOLEAN] /\ len \in [Object -> {0, MaxProcs}]
      /\ \A c \in Client : pc[c] \in {"header", "list"} => seg[c] \in Object
  BY DEF TypeInv, SegmentTypes, Connected, WithSeg
<1>2. \A s \in Object : hdr[s] => hdr'[s]
  BY <1>1, StateWrites DEF InitHeader, SetState, SetTimestamp
<1>3. CASE /\ len' = len
           /\ \A d \in Client : pc'[d] = "list" => pc[d] = "list" /\ seg'[d] = seg[d]
  BY <1>1, <1>2, <1>3 DEF HeaderFirst
<1>4. ASSUME NEW c \in Client, InitHeader(c) \/ InitProcessList(c)
      PROVE  HeaderFirst'
  BY <1>1, <1>2, <1>4 DEF HeaderFirst, InitHeader, InitProcessList, Goto, ClientTypes
<1>. QED
  BY <1>3, <1>4, ListWrites

LEMMA CutInStep == TypeInv /\ CutIn /\ [Next]_vars => CutIn'
<1> SUFFICES ASSUME TypeInv, CutIn, [Next]_vars, NEW p \in Procs, hpc'[p] # "none", MidCheck(p)'
             PROVE  cut'[p]
  BY DEF CutIn
<1>0. /\ p \in Client /\ ClientTypes /\ WatchTypes /\ (hpc[p] # "none" /\ MidCheck(p) => cut[p])
      /\ pc'[p] \in { "check_ts", "decided", "in_callback", "commit" }
  BY DEF Client, TypeInv, CutIn, MidCheck
<1>1. CASE Undisturbed(p)
  BY <1>0, <1>1 DEF Undisturbed, MidCheck
<1>2. CASE MainStep(p)
  BY <1>0, <1>2 DEF MainStep, MainRuns, ConnectProcess, AddCurrentProcess, MainReadState,
     MainReadTs, MainEnterCallback, MainLeaveCallback, MainCommit, StopSymbols, StopWatch
<1>3. CASE HandlerStep(p)
  BY <1>0, <1>3 DEF HandlerStep, HandlerStart, HandlerSkip, HandlerReadTs, HandlerCallback,
     MidCheck, WatchTypes
<1>4. CASE Start(p) \/ Shutdown(p) \/ CrashProcess(p)
  BY <1>0, <1>4 DEF Start, Shutdown, CrashProcess, Goto, ClientTypes
<1>5. CASE UNCHANGED vars
  BY <1>0, <1>5 DEF vars, MidCheck
<1>6. ASSUME NEW q \in Procs, ProcessStep(q) PROVE cut'[p]
  BY <1>1, <1>2, <1>3, <1>4, <1>6, ProcessLeaves DEF ProcessStep
<1>7. ASSUME NEW c \in Clis, ClientStep(c) PROVE cut'[p]
  BY <1>0, <1>1, <1>7, ClientLeaves
<1>. QED
  BY <1>5, <1>6, <1>7, Actors

\* A callback that succeeds leaves the hooks as the reading says.
LEMMA CallbackDoes ==
    ASSUME TypeInv, NEW p \in Procs, NEW read \in Readings, Callback(p, read), ~failed'[p]
    PROVE  hooks'[p] <=> read.state = "ON"
<1>1. PICK on, ok \in BOOLEAN : /\ CallbackMay(p, read, on, ok)
                                /\ hooks'[p] = on /\ failed'[p] = ~ok
  BY DEF Callback, TypeInv, WatchTypes
<1>2. ok
  BY <1>1
<1>. QED
  BY <1>1, <1>2 DEF CallbackMay

LEMMA HooksFollowStep == TypeInv /\ CutIn /\ HooksFollow /\ [Next]_vars => HooksFollow'
<1> SUFFICES ASSUME TypeInv, CutIn, HooksFollow, [Next]_vars, NEW p \in Procs,
                    pc'[p] \notin Ending, ~failed'[p], ~cut'[p]
             PROVE  hooks'[p] <=> (IF pc'[p] = "commit" THEN mread'[p] ELSE cur'[p]).state = "ON"
  BY DEF HooksFollow
<1> DEFINE Was == hooks[p] <=> (IF pc[p] = "commit" THEN mread[p] ELSE cur[p]).state = "ON"
           Is == hooks'[p] <=> (IF pc'[p] = "commit" THEN mread'[p] ELSE cur'[p]).state = "ON"
<1>0. /\ p \in Client /\ ClientTypes /\ WatchTypes
      /\ (pc[p] \notin Ending /\ ~failed[p] /\ ~cut[p]) => Was
      /\ (hpc[p] # "none" /\ MidCheck(p) => cut[p])
  BY DEF Client, TypeInv, CutIn, HooksFollow
<1>1. CASE Undisturbed(p)
  BY <1>0, <1>1 DEF Undisturbed
<1>2. CASE ConnectProcess(p) \/ AddCurrentProcess(p)
  <2>1. /\ UNCHANGED watchVars
        /\ pc[p] \in {"open", "create", "header", "list", "sem", "sem_create", "add", "register"}
    BY <1>2 DEF ConnectProcess, Connect, OpenSegment, SegmentMissing, CreateSegment,
       CreateSegmentFails, InitHeader, InitProcessList, OpenSemaphore, CreateSemaphore,
       CreateSemaphoreFails, AddCurrentProcess, AddProcessUnavailable, AddProcess, RegisterProcess
  <2>2. pc'[p] # "commit"
    <3>1. CASE ConnectProcess(p)
      <4>1. Connect(p, TRUE, "add", "start_failed")
        BY <3>1 DEF ConnectProcess
      <4>2. pc'[p] \in {"header", "list", "sem", "sem_create", "add", "start_failed", "create"}
        BY <1>0, <4>1, ConnectMoves
      <4>. QED
        BY <4>2
    <3>2. CASE AddCurrentProcess(p)
      BY <1>0, <3>2 DEF AddCurrentProcess, AddProcessUnavailable, AddProcess, RegisterProcess, Goto,
         ClientTypes
    <3>. QED
      BY <1>2, <3>1, <3>2
  <2>. QED
    BY <1>0, <2>1, <2>2 DEF Ending
<1>3. CASE MainReadState(p) \/ MainReadTs(p) \/ MainEnterCallback(p)
  <2>1. /\ UNCHANGED << cur, hooks, failed, cut >> /\ pc[p] \in {"check", "check_ts", "decided"}
        /\ pc'[p] # "commit"
    BY <1>0, <1>3 DEF MainReadState, MainReadTs, MainEnterCallback, Goto, ClientTypes
  <2>. QED
    BY <1>0, <2>1 DEF Ending
<1>4. CASE MainLeaveCallback(p)
  <2>1. pc'[p] = "commit" /\ mread' = mread /\ mread[p] \in Readings /\ Callback(p, mread[p])
    BY <1>0, <1>4 DEF MainLeaveCallback, Goto, ClientTypes, WatchTypes
  <2>. QED
    BY <2>1, CallbackDoes
<1>5. CASE MainCommit(p)
  BY <1>0, <1>5 DEF MainCommit, Goto, ClientTypes, WatchTypes, Ending
<1>6. CASE HandlerStart(p) \/ HandlerSkip(p) \/ HandlerReadTs(p)
  <2>1. UNCHANGED << pc, mread, cur, hooks, failed >> /\ (cut[p] => cut'[p])
    BY <1>0, <1>6 DEF HandlerStart, HandlerSkip, HandlerReadTs, WatchTypes
  <2>. QED
    BY <1>0, <2>1
<1>7. CASE HandlerCallback(p)
  <2>1. pc'[p] = pc[p] /\ pc[p] # "commit"
    BY <1>0, <1>7 DEF HandlerCallback, MidCheck, WatchTypes
  <2>2. cur'[p] = hread[p] /\ hread[p] \in Readings /\ Callback(p, hread[p])
    BY <1>0, <1>7 DEF HandlerCallback, WatchTypes
  <2>. QED
    BY <2>1, <2>2, CallbackDoes
<1>8. CASE StopSymbols(p) \/ StopWatch(p) \/ CrashProcess(p)
  BY <1>0, <1>8 DEF StopSymbols, StopWatch, CrashProcess, Goto, ClientTypes, Ending
<1>9. CASE Start(p) \/ Shutdown(p)
  BY <1>0, <1>9 DEF Start, Shutdown, Goto, ClientTypes, Ending
<1>10. CASE UNCHANGED vars
  BY <1>0, <1>10 DEF vars
<1>11. ASSUME NEW q \in Procs, ProcessStep(q) PROVE Is
  BY <1>1, <1>2, <1>3, <1>4, <1>5, <1>6, <1>7, <1>8, <1>9, <1>11, ProcessLeaves
     DEF ProcessStep, MainStep, HandlerStep
<1>12. ASSUME NEW c \in Clis, ClientStep(c) PROVE Is
  BY <1>0, <1>1, <1>12, ClientLeaves DEF Ending
<1>. QED
  BY <1>10, <1>11, <1>12, Actors

-----------------------------------------------------------------------------
(* Informed.                                                               *)

\* A listed process was listed before, in the same list, unless it has just registered.
LEMMA ListedBefore ==
    ASSUME RegistrationInv, [Next]_vars, NEW p \in Procs, Listed(p)', ~RegisterProcess(p)
    PROVE  /\ Listed(p) /\ seg'[p] = seg[p] /\ seg[p] \in Object
           /\ len[seg[p]] = MaxProcs /\ len'[seg[p]] = MaxProcs
<1>0. /\ TypeInv /\ Registered /\ ClientTypes /\ p \in Client /\ Registered'
      /\ HistoryTypes /\ SegmentTypes
  BY RegistrationStep DEF RegistrationInv, ExclusionInv, TypeInv, Client
<1> DEFINE Was == /\ p \in registered /\ pc[p] \in After /\ ~Dead(p)
                  /\ seg'[p] = seg[p] /\ raced \subseteq raced'
<1>1. Was
  <2>1. CASE RingKept
    BY <1>0, <2>1 DEF RingKept, DataKept, ReadersKept, Listed, Dead, Registered
  <2>2. ASSUME NEW c \in Client, InitProcessList(c)
        PROVE  Was
    BY <1>0, <2>2 DEF InitProcessList, Goto, ClientTypes, Listed, Dead, Registered
  <2>3. ASSUME NEW q \in Procs, AddProcess(q) \/ RegisterProcess(q), q # p
        PROVE  Was
    BY <1>0, <2>3 DEF AddProcess, Acquire, RegisterProcess, Goto, ClientTypes, Listed, Dead,
       Registered, Client
  <2>4. CASE AddProcess(p)
    BY <1>0, <2>4 DEF AddProcess, Listed, Registered, After
  <2>. QED
    BY <1>0, <2>1, <2>2, <2>3, <2>4, StepRing
<1>2. seg[p] \in Object /\ seg[p] \notin raced
  BY <1>0, <1>1 DEF Listed, ClientTypes, ObjectOrNone, Object, NoObject
<1>3. len[seg[p]] = MaxProcs /\ len'[seg[p]] = MaxProcs
  BY <1>0, <1>1, <1>2 DEF Registered, Listed
<1>4. InList(p)
  BY <1>0, <1>1, <1>2, <1>3, SlotWrites DEF Listed, InList
<1>. QED
  BY <1>1, <1>2, <1>3, <1>4 DEF Listed, NoObject, Object

\* A command that has yet to signal a process stays so until it does, or is killed, which
\* leaves the semaphore taken for ever.
LEMMA OwedKept ==
    ASSUME FollowInv, [Next]_vars, NEW p \in Procs, Listed(p)', Owed(p), ~RegisterProcess(p)
    PROVE  Owed(p)' \/ sig'[p] \/ Stuck(seg[p])'
<1> DEFINE s == seg[p]
<1>0. /\ TypeInv /\ ExclusionInv /\ RegistrationInv /\ GuardMade /\ Rewound
      /\ ClientTypes /\ HistoryTypes /\ SegmentTypes /\ NameTypes /\ p \in Client
  BY DEF FollowInv, RegistrationInv, ExclusionInv, TypeInv, Client
<1>1. /\ Listed(p) /\ seg'[p] = s /\ s \in Object /\ len[s] = MaxProcs /\ len'[s] = MaxProcs
      /\ s \notin raced /\ s \notin raced' /\ ~Dead(p)'
  BY <1>0, ListedBefore DEF Listed
<1>2. PICK c \in Clis :
        /\ seg[c] = s
        /\ \/ pc[c] = "set_ts"
           \/ pc[c] = "signal" /\ \E i \in Index : idx[c] <= i /\ i < len[s] /\ slot[s][i] = p
  BY DEF Owed
<1>3. c \in Client /\ c \notin Procs /\ pc[c] \in Locked /\ pc[c] \in {"set_ts", "signal"}
  BY <1>2, ShmAssumption DEF Client, Locked
<1>4. \A i \in Index : slot[s][i] = p => slot'[s][i] = p \/ SignalSlot(c)
  <2>1. CASE RingKept
    BY <1>1, <2>1, ShmAssumption DEF RingKept, DataKept, Dead, Index
  <2>2. ASSUME NEW d \in Client, InitProcessList(d)
        PROVE  slot' = slot
    BY <2>2 DEF InitProcessList
  <2>3. ASSUME NEW q \in Procs, AddProcess(q)
        PROVE  slot' = slot
    BY <2>3 DEF AddProcess
  <2>4. ASSUME NEW q \in Procs, RegisterProcess(q)
        PROVE  slot'[s] = slot[s]
    <3>1. q \in Client /\ pc[q] \in Locked /\ q # c
      BY <1>3, <2>4 DEF RegisterProcess, Locked, Client
    <3>2. seg[q] # s
      BY <1>0, <1>1, <1>2, <1>3, <3>1, ExclusionImplies DEF SegmentExclusion
    <3>. QED
      BY <1>0, <1>1, <2>4, <3>2 DEF RegisterProcess, SegmentTypes
  <2>. QED
    BY <1>0, <2>1, <2>2, <2>3, <2>4, StepRing
<1>5. CASE pc'[c] = pc[c] /\ seg'[c] = seg[c] /\ idx'[c] = idx[c] /\ ~SignalSlot(c)
  BY <1>1, <1>2, <1>4, <1>5 DEF Owed
<1>6. CASE SetTimestamp(c)
  <2>1. pc'[c] = "signal" /\ seg'[c] = s /\ idx'[c] = 0
    BY <1>0, <1>2, <1>3, <1>6 DEF SetTimestamp, Goto, ClientTypes, Rewound
  <2>2. PICK i \in Index : i < len'[s] /\ slot'[s][i] = p
    BY <1>1 DEF Listed, InList
  <2>3. 0 <= i
    BY ShmAssumption DEF Index
  <2>. QED
    BY <1>1, <2>1, <2>2, <2>3 DEF Owed
<1>7. CASE SignalSlot(c)
  <2>1. PICK i \in Index : idx[c] <= i /\ i < len[s] /\ slot[s][i] = p
    BY <1>2, <1>7 DEF SignalSlot
  <2>2. CASE i = idx[c]
    <3>1. p # NoPid /\ slot[seg[c]][idx[c]] = p
      BY <1>2, <2>1, <2>2, ShmAssumption
    <3>2. pc'[p] # "killed" /\ pc[p] \notin {"dead", "killed"}
      BY <1>1 DEF Listed, Dead
    <3>. QED
      BY <1>0, <1>7, <3>1, <3>2 DEF SignalSlot, Dead, Goto, ClientTypes, TypeInv, WatchTypes
  <2>3. CASE i # idx[c]
    <3>1. /\ pc'[c] = "signal" /\ seg'[c] = s /\ idx'[c] = idx[c] + 1
      BY <1>0, <1>2, <1>3, <1>7, SignalledSlot DEF SignalSlot, Goto, ClientTypes
    <3>2. idx[c] + 1 <= i
      BY <1>0, <1>7, <2>1, <2>3, SignalledSlot, ShmAssumption DEF Index
    <3>3. slot'[s][i] = p
      <4>1. slot[seg[c]][idx[c]] = p \/ slot' = slot \/ slot' = [slot EXCEPT ![s][idx[c]] = NoPid]
        BY <1>2, <1>7 DEF SignalSlot
      <4>2. CASE slot' = slot
        BY <2>1, <4>2
      <4>3. CASE slot' = [slot EXCEPT ![s][idx[c]] = NoPid]
        BY <1>0, <1>1, <2>1, <2>3, <4>3 DEF SegmentTypes
      <4>4. CASE slot[seg[c]][idx[c]] = p /\ slot' # slot
        BY <1>1, <1>7, <4>4 DEF SignalSlot, Listed
      <4>. QED
        BY <4>1, <4>2, <4>3, <4>4
    <3>. QED
      BY <1>1, <2>1, <3>1, <3>2, <3>3 DEF Owed
  <2>. QED
    BY <2>2, <2>3
<1>8. CASE CommandDone(c)
  <2>1. PICK i \in Index : idx[c] <= i /\ i < len[s]
    BY <1>2, <1>8 DEF CommandDone
  <2>. QED
    BY <1>0, <1>1, <1>2, <1>3, <1>8, <2>1, ShmAssumption DEF CommandDone, Index, ClientTypes
<1>9. CASE CrashCli(c)
  <2>1. /\ sem[c] \in Object /\ semVal[sem[c]] = 0 /\ guard[s] = sem[c]
        /\ \A d \in Client \ {c} : pc[d] \in Locked => sem[d] # sem[c]
    BY <1>0, <1>1, <1>2, <1>3 DEF ExclusionInv, Holding, TypeInv, Connected, WithSem
  <2>2. /\ guard' = guard /\ semVal' = semVal /\ sem' = sem
        /\ pc' = [pc EXCEPT ![c] = "exit"]
    BY <1>9 DEF CrashCli, Goto
  <2>3. Stuck(s)'
    BY <1>0, <1>1, <1>3, <2>1, <2>2 DEF Stuck, Locked, Object, NoObject, ClientTypes
  <2>. QED
    BY <1>1, <2>3
<1>. QED
  BY <1>0, <1>3, <1>5, <1>6, <1>7, <1>8, <1>9, CommandMoves

\* A step of the process itself: what it has looked at stays true, and a pending signal makes
\* it look again.
LEMMA OwnStep ==
    ASSUME FollowInv, NEW p \in Procs, ProcessStep(p), Listed(p), Listed(p)', seg'[p] = seg[p],
           skipped[p] \/ sig[p] \/ Looked(p), ~skipped'[p]
    PROVE  sig'[p] \/ Looked(p)'
<1> DEFINE s == seg[p]
<1>0. /\ TypeInv /\ ClientTypes /\ SegmentTypes /\ WatchTypes /\ p \in Client
      /\ s \in Object /\ len[s] # 0 /\ hdr[s] /\ pc[p] \in After
      /\ (hpc[p] # "none" /\ MidCheck(p) => cut[p])
  <2>1. /\ TypeInv /\ p \in Client /\ pc[p] \in After /\ s \in Object /\ len[s] # 0
    BY ShmAssumption DEF FollowInv, RegistrationInv, ExclusionInv, TypeInv, Client, Listed, Registered,
       ClientTypes, ObjectOrNone, Object, NoObject
  <2>. QED
    BY <2>1 DEF FollowInv, HeaderFirst, CutIn, TypeInv
<1>1. CASE HandlerStart(p)
  BY <1>0, <1>1 DEF HandlerStart, Looked, WatchTypes, Blank
<1>2. CASE HandlerSkip(p)
  BY <1>0, <1>2 DEF HandlerSkip, WatchTypes
<1>3. CASE MainReadState(p)
  BY <1>0, <1>3 DEF MainReadState, MainRuns, Goto, ClientTypes, Looked, WatchTypes, Blank
<1>4. CASE MainReadTs(p)
  <2> DEFINE read == [mread[p] EXCEPT !.ts = ts[s]]
  <2>1. /\ hpc[p] = "none" /\ hpc' = hpc /\ pc[p] = "check_ts" /\ sig' = sig /\ cut' = cut
        /\ state' = state /\ ts' = ts /\ cur' = cur /\ skipped' = skipped
        /\ \/ Triggers(p, read) /\ mread'[p] = read /\ pc'[p] = "decided"
           \/ ~Triggers(p, read) /\ pc'[p] = "running"
    BY <1>0, <1>4 DEF MainReadTs, MainRuns, Goto, ClientTypes, WatchTypes
  <2>2. read.state = mread[p].state /\ read.ts = ts[s]
    BY <1>0 DEF WatchTypes, Readings
  <2>3. sig[p] \/ cut[p] \/ mread[p].state = state[s]
    BY <2>1 DEF Looked
  <2>. QED
    BY <1>0, <2>1, <2>2, <2>3 DEF Looked, Told, Triggers
<1>5. CASE MainEnterCallback(p) \/ MainLeaveCallback(p)
  <2>1. /\ hpc[p] = "none" /\ hpc' = hpc /\ pc[p] \in {"decided", "in_callback"} /\ sig' = sig
        /\ cut' = cut /\ state' = state /\ ts' = ts /\ mread' = mread /\ skipped' = skipped
        /\ pc'[p] \in {"in_callback", "commit"}
    BY <1>0, <1>5 DEF MainEnterCallback, MainLeaveCallback, MainRuns, Goto, ClientTypes
  <2>. QED
    BY <2>1 DEF Looked, Told
<1>6. CASE MainCommit(p)
  <2>1. /\ hpc[p] = "none" /\ hpc' = hpc /\ pc[p] = "commit" /\ pc'[p] = "running" /\ sig' = sig
        /\ cut' = cut /\ state' = state /\ ts' = ts /\ cur'[p] = mread[p] /\ skipped' = skipped
    BY <1>0, <1>6 DEF MainCommit, MainRuns, Goto, ClientTypes, WatchTypes
  <2>. QED
    BY <2>1 DEF Looked, Told
<1>7. CASE HandlerReadTs(p)
  <2> DEFINE read == [hread[p] EXCEPT !.ts = ts[s]]
  <2>1. /\ hpc[p] = "ts" /\ sig' = sig /\ cut' = cut /\ pc' = pc /\ cur' = cur
        /\ state' = state /\ ts' = ts /\ skipped' = skipped
        /\ \/ Triggers(p, read) /\ hread'[p] = read /\ hpc'[p] = "callback"
           \/ ~Triggers(p, read) /\ hpc'[p] = "none"
    BY <1>0, <1>7 DEF HandlerReadTs, WatchTypes
  <2>2. read.state = hread[p].state /\ read.ts = ts[s]
    BY <1>0 DEF WatchTypes, Readings
  <2>3. sig[p] \/ hread[p].state = state[s]
    BY <2>1 DEF Looked
  <2>4. CASE Triggers(p, read)
    BY <2>1, <2>2, <2>3, <2>4 DEF Looked, Told
  <2>5. CASE ~Triggers(p, read)
    <3>1. sig[p] \/ Told(s, cur[p])
      BY <2>2, <2>3, <2>5 DEF Triggers, Told
    <3>2. Installed(p)
      BY <2>1 DEF FollowInv, RegistrationInv, ExclusionInv, TypeInv, HandlerAlive
    <3>3. cut[p] \/ pc[p] \in {"check", "running", "stop_symbols", "stop_watch"}
      BY <1>0, <2>1, <3>2 DEF MidCheck, After, Installed
    <3>. QED
      BY <2>1, <2>5, <3>1, <3>3 DEF Looked, Told
  <2>. QED
    BY <2>4, <2>5
<1>8. CASE HandlerCallback(p)
  <2>1. /\ hpc[p] = "callback" /\ hpc'[p] = "none" /\ sig' = sig /\ pc' = pc
        /\ cur'[p] = hread[p] /\ cut'[p] = (cut[p] /\ MidCheck(p))
        /\ state' = state /\ ts' = ts /\ skipped' = skipped
    BY <1>0, <1>8 DEF HandlerCallback, WatchTypes
  <2>2. sig[p] \/ Told(s, hread[p])
    BY <2>1 DEF Looked
  <2>3. Installed(p)
    BY <2>1 DEF FollowInv, RegistrationInv, ExclusionInv, TypeInv, HandlerAlive
  <2>4. cut'[p] \/ pc[p] \in {"check", "running", "stop_symbols", "stop_watch"}
    BY <1>0, <2>1, <2>3 DEF MidCheck, After, Installed
  <2>. QED
    BY <2>1, <2>2, <2>4 DEF Looked, Told
<1>9. CASE Shutdown(p) \/ StopSymbols(p)
  <2>1. /\ hpc[p] = "none" /\ hpc' = hpc /\ pc'[p] \in {"stop_symbols", "stop_watch"}
    BY <1>0, <1>9 DEF Shutdown, StopSymbols, MainRuns, Goto, ClientTypes
  <2>. QED
    BY <2>1 DEF Looked
<1>10. CASE StopWatch(p) \/ CrashProcess(p)
  BY <1>0, <1>10 DEF StopWatch, CrashProcess, Listed, ClientTypes
<1>11. CASE Start(p) \/ ConnectProcess(p) \/ AddCurrentProcess(p)
  BY <1>0, <1>11 DEF Start, ConnectProcess, Connect, OpenSegment, SegmentMissing, CreateSegment,
     CreateSegmentFails, InitHeader, InitProcessList, OpenSemaphore, CreateSemaphore,
     CreateSemaphoreFails, AddCurrentProcess, AddProcessUnavailable, AddProcess, RegisterProcess,
     After
<1>. QED
  BY <1>1, <1>2, <1>3, <1>4, <1>5, <1>6, <1>7, <1>8, <1>9, <1>10, <1>11
     DEF ProcessStep, MainStep, HandlerStep

LEMMA InformedStep == FollowInv /\ [Next]_vars => Informed'
<1> SUFFICES ASSUME FollowInv, [Next]_vars, NEW p \in Procs, Listed(p)', ~skipped'[p]
             PROVE  sig'[p] \/ Owed(p)' \/ Stuck(seg[p])' \/ Looked(p)'
  BY DEF Informed
<1>0. /\ TypeInv /\ ExclusionInv /\ RegistrationInv /\ GuardMade /\ Rewound /\ SoleInitialiser
      /\ ClientTypes /\ SegmentTypes /\ WatchTypes /\ p \in Client
  BY DEF FollowInv, RegistrationInv, ExclusionInv, TypeInv, Client
<1>1. CASE RegisterProcess(p)
  <2>1. pc[p] = "register" /\ pc'[p] = "check"
    BY <1>0, <1>1 DEF RegisterProcess, Goto, ClientTypes
  <2>2. ProcessStep(p)
    BY <1>0, <2>1, Actors, ProcessLeaves, ClientLeaves DEF Undisturbed, vars
  <2>3. hpc'[p] = "none"
    BY <1>0, <2>1, <2>2 DEF ProcessStep, Start, MainStep, ConnectProcess, Connect, OpenSegment,
       SegmentMissing, CreateSegment, CreateSegmentFails, InitHeader, InitProcessList, OpenSemaphore,
       CreateSemaphore, CreateSemaphoreFails, AddCurrentProcess, MainRuns, MainReadState,
       MainReadTs, MainEnterCallback, MainLeaveCallback, MainCommit, StopSymbols, StopWatch,
       HandlerStep, HandlerStart, HandlerSkip, HandlerReadTs, HandlerCallback, Shutdown,
       CrashProcess, Goto, ClientTypes
  <2>. QED
    BY <2>1, <2>3 DEF Looked
<1>2. CASE ~RegisterProcess(p)
  <2>1. /\ Listed(p) /\ seg'[p] = seg[p] /\ seg[p] \in Object
        /\ len[seg[p]] = MaxProcs /\ len'[seg[p]] = MaxProcs
    BY <1>0, <1>2, ListedBefore
  <2>2. seg[p] \notin raced /\ pc[p] \in After /\ pc'[p] # "killed"
    BY <1>0, <2>1 DEF Listed, RegistrationInv, Registered, Dead
  <2>3. Owed(p) => Owed(p)' \/ sig'[p] \/ Stuck(seg[p])'
    BY <1>2, OwedKept
  <2>4. Stuck(seg[p]) => Stuck(seg[p])'
    <3>1. PICK s \in Object : s = seg[p]
      BY <2>1
    <3>2. Stuck(s) => Stuck(s)'
      BY <1>0, StuckKept
    <3>. QED
      BY <2>1, <3>1, <3>2 DEF Stuck
  <2>5. skipped[p] \/ sig[p] \/ Owed(p) \/ Stuck(seg[p]) \/ Looked(p)
    BY <2>1 DEF FollowInv, Informed
  <2>6. CASE ProcessStep(p)
    BY <2>1, <2>3, <2>4, <2>5, <2>6, OwnStep
  <2>7. CASE Undisturbed(p)
    <3>1. CASE state' = state /\ ts' = ts
      <4>1. Looked(p) => Looked(p)'
        BY <2>1, <2>7, <3>1 DEF Undisturbed, Looked, Told
      <4>. QED
        BY <2>3, <2>4, <2>5, <2>7, <4>1 DEF Undisturbed
    <3>2. ASSUME NEW c \in Client, InitHeader(c)
          PROVE  Looked(p) => Looked(p)'
      <4>1. c # p /\ pc[c] \in Initialising
        BY <2>2, <3>2 DEF InitHeader, After, Initialising
      <4>2. seg[c] # seg[p] /\ seg[c] \in Object
        BY <1>0, <2>2, <4>1 DEF SoleInitialiser, TypeInv, Connected, WithSeg, Initialising
      <4>3. state'[seg[p]] = state[seg[p]] /\ ts'[seg[p]] = ts[seg[p]]
        BY <1>0, <2>1, <3>2, <4>2 DEF InitHeader, SegmentTypes
      <4>. QED
        BY <2>1, <2>7, <4>3 DEF Undisturbed, Looked, Told
    <3>3. ASSUME NEW c \in Clis, SetState(c) \/ SetTimestamp(c)
          PROVE  Owed(p)' \/ (Looked(p) => Looked(p)')
      <4>1. c \in Client /\ seg[c] \in Object /\ seg' = seg
        BY <1>0, <3>3 DEF SetState, SetTimestamp, Client, TypeInv, Connected, WithSem, WithSeg
      <4>2. CASE seg[c] = seg[p]
        <5>1. CASE SetState(c)
          BY <1>0, <4>1, <4>2, <5>1 DEF SetState, Goto, ClientTypes, Owed
        <5>2. CASE SetTimestamp(c)
          <6>1. pc'[c] = "signal" /\ idx'[c] = 0
            BY <1>0, <4>1, <5>2 DEF SetTimestamp, Goto, ClientTypes, Rewound
          <6>2. PICK i \in Index : i < len'[seg'[p]] /\ slot'[seg'[p]][i] = p
            BY DEF Listed, InList
          <6>3. 0 <= i
            BY ShmAssumption DEF Index
          <6>. QED
            BY <4>1, <4>2, <6>1, <6>2, <6>3 DEF Owed
        <5>. QED
          BY <3>3, <5>1, <5>2
      <4>3. CASE seg[c] # seg[p]
        <5>1. state'[seg[p]] = state[seg[p]] /\ ts'[seg[p]] = ts[seg[p]]
          BY <1>0, <2>1, <3>3, <4>1, <4>3 DEF SetState, SetTimestamp, SegmentTypes
        <5>. QED
          BY <2>1, <2>7, <5>1 DEF Undisturbed, Looked, Told
      <4>. QED
        BY <4>2, <4>3
    <3>. QED
      BY <2>3, <2>4, <2>5, <2>7, <3>1, <3>2, <3>3, StateWrites DEF Undisturbed
  <2>8. CASE UNCHANGED vars
    BY <2>7, <2>8 DEF vars, Undisturbed
  <2>9. Undisturbed(p) \/ ProcessStep(p) \/ UNCHANGED vars
    BY <1>0, <2>2, Actors, ProcessLeaves, ClientLeaves
  <2>. QED
    BY <2>6, <2>7, <2>8, <2>9
<1>. QED
  BY <1>1, <1>2

LEMMA FollowStep == FollowInv /\ [Next]_vars => FollowInv'
BY RegistrationStep, GuardMadeStep, RewoundStep, HeaderFirstStep, CutInStep, HooksFollowStep,
   InformedStep DEF FollowInv, RegistrationInv, ExclusionInv

LEMMA FollowImplies == FollowInv => ListedFollow
<1> SUFFICES ASSUME FollowInv, NEW p \in registered, Quiet(p), InList(p), Settled(seg[p]),
                    ~skipped[p], ~cut[p]
             PROVE  Follows(p)
  BY DEF ListedFollow
<1> DEFINE s == seg[p]
<1>0. /\ TypeInv /\ p \in Procs /\ p \in Client /\ pc[p] = "running" /\ hpc[p] = "none" /\ ~sig[p]
      /\ s \in Object /\ s \notin raced /\ semVal[guard[s]] = 1
  BY DEF FollowInv, RegistrationInv, ExclusionInv, TypeInv, HistoryTypes, Quiet, Settled, Connected,
     WithSeg, WithSem, Client
<1>1. Listed(p)
  BY <1>0 DEF Listed, Dead, Object, NoObject
<1>2. ~Stuck(s)
  BY <1>0 DEF Stuck
<1>3. ~Owed(p)
  <2>1. ASSUME NEW c \in Clis, pc[c] \in {"set_ts", "signal"}, seg[c] = s
        PROVE  FALSE
    BY <1>0, <2>1 DEF FollowInv, RegistrationInv, ExclusionInv, Holding, Locked, Client
  <2>. QED
    BY <2>1 DEF Owed
<1>4. Told(s, cur[p])
  BY <1>0, <1>1, <1>2, <1>3 DEF FollowInv, Informed, Looked
<1>5. ~failed[p] => (hooks[p] <=> cur[p].state = "ON")
  BY <1>0 DEF FollowInv, HooksFollow, Ending
<1>. QED
  BY <1>4, <1>5 DEF Follows, Told

\* However the commands, the registrations, the reads of the state, the signals and the
\* callbacks of any number of processes and clients interleave, whoever dies: a listed process
\* that is quiet follows the last command, unless a signal was dropped while its handler ran or
\* cut into start()'s own check.
THEOREM FollowCorrect == Spec => []ListedFollow
<1>1. Spec => []FollowInv
  BY FollowInit, FollowStep, PTL DEF Spec
<1>. QED
  BY <1>1, FollowImplies, PTL
=============================================================================
