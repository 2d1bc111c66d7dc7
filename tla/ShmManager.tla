----------------------------- MODULE ShmManager -----------------------------
(***************************************************************************)
(* The control segment of ms_service_metric and the semaphore that guards  *)
(* it: ms_service_metric/utils/shm_manager.py.  A client is a service      *)
(* process or one run of the command line tool; each owns one              *)
(* SharedMemoryManager and takes its steps one at a time, so pc[c] is the  *)
(* point a client's call has reached.                                      *)
(*                                                                         *)
(* POSIX names and objects are kept apart: shmName and semName say which   *)
(* object a name is bound to now, while a client stays connected to the    *)
(* objects it opened even after their names are unlinked.  Objects are     *)
(* numbered in the order they are made; NoObject is the unbound name.      *)
(***************************************************************************)
EXTENDS Naturals, FiniteSets

CONSTANTS
    Procs,      \* service processes; a process is named by its pid
    Clis,       \* command line clients
    NoPid,      \* the pid 0 of an empty slot of the process list
    MaxProcs,   \* _max_procs: the length of the process list
    MaxObjects  \* bound: segments, and semaphores, ever made

ASSUME ShmAssumption ==
    /\ NoPid \notin Procs
    /\ Procs \cap Clis = {}
    /\ MaxProcs \in Nat \ {0}
    /\ MaxObjects \in Nat \ {0}

Client == Procs \cup Clis
NoObject == 0
Object == 1 .. MaxObjects
ObjectOrNone == 0 .. MaxObjects
Index == 0 .. (MaxProcs - 1)

VARIABLES
    pc,       \* pc[c]: the step client c is about to take
    idx,      \* idx[c]: the cursor a registration read, or a loop's position
    shmName,  \* the segment the shared-memory name is bound to
    semName,  \* the semaphore the semaphore name is bound to
    shmMade,  \* how many segments were ever made
    semMade,  \* how many semaphores were ever made
    semVal,   \* semVal[k]: the value of semaphore k
    hdr,      \* hdr[s]: the header holds the magic, version and end marker
    state,    \* state[s]: the commanded state
    ts,       \* ts[s]: the second of the last command
    len,      \* len[s]: the process list's length field, 0 until written
    cursor,   \* cursor[s]: the process list's cursor field
    slot,     \* slot[s][i]: the pid in position i of the process list
    seg,      \* seg[c]: the segment client c is connected to
    sem,      \* sem[c]: the semaphore client c is connected to
    \* history, read by no action of the code:
    guard,      \* guard[s]: the first semaphore segment s was locked with
    raced,      \* segments opened while being initialised, or locked with two semaphores
    registered, \* processes whose add_process returned an index
    at,         \* at[p]: that index
    age         \* age[p]: registrations in the same segment since

names   == << shmName, semName, shmMade, semMade >>
segment == << hdr, state, ts, len, cursor, slot >>
conn    == << seg, sem >>
history == << guard, raced, registered, at, age >>
shmVars == << pc, idx, names, semVal, segment, conn, history >>

Initialising == { "header", "list" }
\* The steps a client takes while it holds its semaphore.
Locked == { "register", "set_state", "set_ts", "signal", "cleanup" }
Dead(c) == pc[c] \in { "dead", "killed" }

ShmInit ==
    /\ pc = [c \in Client |-> "idle"]
    /\ idx = [c \in Client |-> 0]
    /\ shmName = NoObject /\ semName = NoObject
    /\ shmMade = 0 /\ semMade = 0
    /\ semVal = [k \in Object |-> 0]
    /\ hdr = [s \in Object |-> FALSE]
    /\ state = [s \in Object |-> "OFF"]
    /\ ts = [s \in Object |-> 0]
    /\ len = [s \in Object |-> 0]
    /\ cursor = [s \in Object |-> 0]
    /\ slot = [s \in Object |-> [i \in Index |-> NoPid]]
    /\ seg = [c \in Client |-> NoObject]
    /\ sem = [c \in Client |-> NoObject]
    /\ guard = [s \in Object |-> NoObject]
    /\ raced = {}
    /\ registered = {}
    /\ at = [p \in Procs |-> 0]
    /\ age = [p \in Procs |-> 0]

Goto(c, label) == pc' = [pc EXCEPT ![c] = label]

-----------------------------------------------------------------------------
(* connect(create).  Opening and creating are separate system calls, and   *)
(* _init_header runs before this client has a semaphore to hold.           *)

\* An existing segment is mapped as it is, whole or not.
OpenSegment(c) ==
    /\ pc[c] = "open"
    /\ shmName # NoObject
    /\ seg' = [seg EXCEPT ![c] = shmName]
    /\ raced' = IF \E d \in Client : seg[d] = shmName /\ pc[d] \in Initialising
                  THEN raced \cup {shmName} ELSE raced
    /\ Goto(c, "sem")
    /\ UNCHANGED << idx, names, semVal, segment, sem, guard, registered, at, age >>

\* No segment: create it, or return False.
SegmentMissing(c, create, giveUp) ==
    /\ pc[c] = "open"
    /\ shmName = NoObject
    /\ Goto(c, IF create THEN "create" ELSE giveUp)
    /\ UNCHANGED << idx, names, semVal, segment, conn, history >>

\* O_CREX, then the whole mapping is zeroed.
CreateSegment(c) ==
    /\ pc[c] = "create"
    /\ shmName = NoObject
    /\ shmMade < MaxObjects
    /\ shmMade' = shmMade + 1
    /\ shmName' = shmMade + 1
    /\ seg' = [seg EXCEPT ![c] = shmMade + 1]
    /\ Goto(c, "header")
    /\ UNCHANGED << idx, semName, semMade, semVal, segment, sem, history >>

\* Another client created it first: O_CREX raises out of connect.
CreateSegmentFails(c, giveUp) ==
    /\ pc[c] = "create"
    /\ shmName # NoObject
    /\ Goto(c, giveUp)
    /\ UNCHANGED << idx, names, semVal, segment, conn, history >>

InitHeader(c) ==
    /\ pc[c] = "header"
    /\ hdr' = [hdr EXCEPT ![seg[c]] = TRUE]
    /\ state' = [state EXCEPT ![seg[c]] = "OFF"]
    /\ ts' = [ts EXCEPT ![seg[c]] = 0]
    /\ Goto(c, "list")
    /\ UNCHANGED << idx, names, semVal, len, cursor, slot, conn, history >>

\* The mapping was zeroed, so writing the cursor changes it only if a client was faster.
InitProcessList(c) ==
    /\ pc[c] = "list"
    /\ len' = [len EXCEPT ![seg[c]] = MaxProcs]
    /\ cursor' = [cursor EXCEPT ![seg[c]] = 0]
    /\ Goto(c, "sem")
    /\ UNCHANGED << idx, names, semVal, hdr, state, ts, slot, conn, history >>

OpenSemaphore(c, next) ==
    /\ pc[c] = "sem"
    /\ IF semName # NoObject
         THEN sem' = [sem EXCEPT ![c] = semName] /\ Goto(c, next)
         ELSE Goto(c, "sem_create") /\ UNCHANGED sem
    /\ UNCHANGED << idx, names, semVal, segment, seg, history >>

CreateSemaphore(c, next) ==
    /\ pc[c] = "sem_create"
    /\ semName = NoObject
    /\ semMade < MaxObjects
    /\ semMade' = semMade + 1
    /\ semName' = semMade + 1
    /\ semVal' = [semVal EXCEPT ![semMade + 1] = 1]
    /\ sem' = [sem EXCEPT ![c] = semMade + 1]
    /\ Goto(c, next)
    /\ UNCHANGED << idx, shmName, shmMade, segment, seg, history >>

CreateSemaphoreFails(c, giveUp) ==
    /\ pc[c] = "sem_create"
    /\ semName # NoObject
    /\ Goto(c, giveUp)
    /\ UNCHANGED << idx, names, semVal, segment, conn, history >>

Connect(c, create, next, giveUp) ==
    \/ OpenSegment(c)
    \/ SegmentMissing(c, create, giveUp)
    \/ CreateSegment(c)
    \/ CreateSegmentFails(c, giveUp)
    \/ InitHeader(c)
    \/ InitProcessList(c)
    \/ OpenSemaphore(c, next)
    \/ CreateSemaphore(c, next)
    \/ CreateSemaphoreFails(c, giveUp)

-----------------------------------------------------------------------------
(* semaphore_lock().                                                       *)

\* Mutant of Acquire: the result of a failed acquire is ignored.
AcquireAnyway(c) ==
    /\ semVal' = [semVal EXCEPT ![sem[c]] = 0]
    /\ guard' = IF guard[seg[c]] = NoObject
                  THEN [guard EXCEPT ![seg[c]] = sem[c]] ELSE guard
    /\ raced' = IF guard[seg[c]] \in {NoObject, sem[c]}
                  THEN raced ELSE raced \cup {seg[c]}

Acquire(c) ==
    /\ semVal[sem[c]] = 1
    /\ semVal' = [semVal EXCEPT ![sem[c]] = 0]
    /\ guard' = IF guard[seg[c]] = NoObject
                  THEN [guard EXCEPT ![seg[c]] = sem[c]] ELSE guard
    /\ raced' = IF guard[seg[c]] \in {NoObject, sem[c]}
                  THEN raced ELSE raced \cup {seg[c]}

Release(c) == semVal' = [semVal EXCEPT ![sem[c]] = 1]

\* A critical section that is left as soon as it has looked.
AcquireRelease(c) == semVal[sem[c]] = 1 /\ UNCHANGED << semVal, guard, raced >>

-----------------------------------------------------------------------------
(* add_process.                                                            *)

\* Mutant of AddProcessUnavailable: retry until the list has a length.
AddProcessRetries(p) ==
    /\ pc[p] = "add"
    /\ len[seg[p]] = 0
    /\ UNCHANGED shmVars

\* The process list has no length yet: -1, and start() does not look at it.
AddProcessUnavailable(p) ==
    /\ pc[p] = "add"
    /\ len[seg[p]] = 0
    /\ AcquireRelease(p)
    /\ Goto(p, "check")
    /\ UNCHANGED << idx, names, segment, conn, registered, at, age >>

AddProcess(p) ==
    /\ pc[p] = "add"
    /\ len[seg[p]] > 0
    /\ Acquire(p)
    /\ idx' = [idx EXCEPT ![p] = cursor[seg[p]]]
    /\ Goto(p, "register")
    /\ UNCHANGED << names, segment, conn, registered, at, age >>

\* Mutant of RegisterProcess: the cursor is not wrapped.
RegisterProcessNoWrap(p) ==
    LET s == seg[p]
        i == idx[p] % len[s]
    IN  /\ pc[p] = "register"
        /\ slot' = [slot EXCEPT ![s][i] = p]
        /\ cursor' = [cursor EXCEPT ![s] = idx[p] + 1]
        /\ registered' = registered \cup {p}
        /\ at' = [at EXCEPT ![p] = i]
        /\ idx' = [idx EXCEPT ![p] = 0]
        /\ Release(p)
        /\ Goto(p, "check")
        /\ UNCHANGED << names, hdr, state, ts, len, conn, guard, raced, age >>

\* Mutant of RegisterProcess: the cursor is not advanced.
RegisterProcessInPlace(p) ==
    LET s == seg[p]
        i == idx[p] % len[s]
    IN  /\ pc[p] = "register"
        /\ slot' = [slot EXCEPT ![s][i] = p]
        /\ registered' = registered \cup {p}
        /\ at' = [at EXCEPT ![p] = i]
        /\ age' = [q \in Procs |-> IF q \in registered \ {p} /\ seg[q] = s
                                   THEN age[q] + 1 ELSE age[q]]
        /\ idx' = [idx EXCEPT ![p] = 0]
        /\ Release(p)
        /\ Goto(p, "check")
        /\ UNCHANGED << names, hdr, state, ts, len, cursor, conn, guard, raced >>

\* The slot at the cursor is overwritten, whoever is in it.
RegisterProcess(p) ==
    LET s == seg[p]
        i == idx[p] % len[s]
    IN  /\ pc[p] = "register"
        /\ slot' = [slot EXCEPT ![s][i] = p]
        /\ cursor' = [cursor EXCEPT ![s] = (idx[p] + 1) % len[s]]
        /\ registered' = registered \cup {p}
        /\ at' = [at EXCEPT ![p] = i]
        /\ age' = [q \in Procs |-> IF q \in registered \ {p} /\ seg[q] = s
                                   THEN age[q] + 1 ELSE age[q]]
        /\ idx' = [idx EXCEPT ![p] = 0]
        /\ Release(p)
        /\ Goto(p, "check")
        /\ UNCHANGED << names, hdr, state, ts, len, conn, guard, raced >>

-----------------------------------------------------------------------------
(* cleanup_invalid_processes, should_destroy and destroy, as the command   *)
(* line client runs them.                                                  *)

LiveSlots(s) == { i \in Index : i < len[s] /\ slot[s][i] # NoPid /\ ~Dead(slot[s][i]) }

CleanupInvalid(c) ==
    LET s == seg[c]
    IN  /\ pc[c] = "cleanup"
        /\ slot' = [slot EXCEPT ![s] =
                      [i \in Index |-> IF i \in LiveSlots(s) THEN slot[s][i] ELSE NoPid]]
        /\ Release(c)
        /\ Goto(c, "should_destroy")
        /\ UNCHANGED << idx, names, hdr, state, ts, len, cursor, conn, history >>

\* Read without the semaphore.
ShouldDestroy(c) ==
    /\ pc[c] = "should_destroy"
    /\ Goto(c, IF state[seg[c]] = "OFF" /\ LiveSlots(seg[c]) = {}
                 THEN "unlink_shm" ELSE "exit")
    /\ UNCHANGED << idx, names, semVal, segment, conn, history >>

\* destroy() disconnects first, then unlinks by name: whatever object the name has now.
UnlinkSegment(c) ==
    /\ pc[c] = "unlink_shm"
    /\ shmName' = NoObject
    /\ Goto(c, "unlink_sem")
    /\ UNCHANGED << idx, semName, shmMade, semMade, semVal, segment, conn, history >>

UnlinkSemaphore(c) ==
    /\ pc[c] = "unlink_sem"
    /\ semName' = NoObject
    /\ Goto(c, "exit")
    /\ UNCHANGED << idx, shmName, shmMade, semMade, semVal, segment, conn, history >>
=============================================================================
