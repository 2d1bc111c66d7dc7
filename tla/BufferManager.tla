---------------------------- MODULE BufferManager ----------------------------
(***************************************************************************)
(* MultiThreadBufferManager and the thread_local ServiceProfilerThread-    *)
(* Writer (cpp/include/msServiceProfiler): each thread that records has a  *)
(* buffer of its own, and one dump thread empties them all in passes.      *)
(*                                                                         *)
(* A buffer is named by its thread and is the queue of EventQueue, which   *)
(* DbBuffer implements; it is never full here.  An item is an executor: an *)
(* event, or a command that opens or closes the output file.  The dump     *)
(* thread works on copies of the two lists and takes the lock only to      *)
(* compare and to refresh them.                                            *)
(***************************************************************************)
EXTENDS Naturals, SequencesExt

CONSTANTS
    Thread, \* the threads that record
    MaxPop  \* MAX_POP_SIZE

ASSUME ManagerAssumption == MaxPop \in Nat \ {0}

VARIABLES
    life,     \* life[t]: t's thread_local writer: not made yet, alive, destroyed
    queue,    \* queue[t]: t's buffer
    working,  \* workingDbBuffers_
    disabled, \* disableDbBuffers_
    \* the dump thread:
    dpc,      \* the step of its pass
    works,    \* its copy of workingDbBuffers_
    disables, \* its copy of disableDbBuffers_
    pos,      \* buffers it has popped in this pass
    unused,   \* freeDbBuffers
    batch     \* what it has popped in this pass

lists == << life, working, disabled >>
dumper == << dpc, works, disables, pos, unused >>
managerVars == << lists, queue, dumper, batch >>

\* The numbers of K in rising order, and s without the elements of `gone` (std::remove).
Rising(K) ==
    CHOOSE f \in [1 .. Cardinality(K) -> K] : \A i, j \in DOMAIN f : i < j => f[i] < f[j]
Without(s, gone) ==
    LET kept == Rising({ i \in DOMAIN s : s[i] \notin gone })
    IN  [ j \in DOMAIN kept |-> s[kept[j]] ]

-----------------------------------------------------------------------------
(* The threads that record.                                                *)

\* The writer of a thread is made when the thread first inserts.
Register(t) ==
    /\ life[t] = "none"
    /\ life' = [life EXCEPT ![t] = "alive"]
    /\ working' = Append(working, t)
    /\ UNCHANGED << disabled, queue, dumper, batch >>

Insert(t, item) ==
    /\ life[t] = "alive"
    /\ queue' = [queue EXCEPT ![t] = Append(@, item)]
    /\ UNCHANGED << lists, dumper, batch >>

\* Mutant of Unregister: the buffer leaves the working list with its thread.
UnregisterAtOnce(t) ==
    /\ life[t] = "alive"
    /\ life' = [life EXCEPT ![t] = "ended"]
    /\ working' = Without(working, {t})
    /\ UNCHANGED << disabled, queue, dumper, batch >>

\* The thread ends: its writer is destroyed, its buffer stays in the working list.
Unregister(t) ==
    /\ life[t] = "alive"
    /\ life' = [life EXCEPT ![t] = "ended"]
    /\ disabled' = disabled \cup {t}
    /\ UNCHANGED << working, queue, dumper, batch >>

-----------------------------------------------------------------------------
(* A pass of DumpThread.                                                   *)

\* The copies are refreshed only when a list has another length than its copy.
DumpRefresh ==
    /\ dpc = "sleep"
    /\ IF Len(works) # Len(working) \/ Cardinality(disables) # Cardinality(disabled)
         THEN works' = working /\ disables' = disabled
         ELSE UNCHANGED << works, disables >>
    /\ dpc' = "pop"
    /\ UNCHANGED << lists, queue, pos, unused, batch >>

\* Mutant of DumpPop: the buffer of an ended thread is popped once.
DumpPopOnce ==
    LET t == works[pos + 1]
        n == Min({Len(queue[t]), MaxPop})
    IN  /\ dpc = "pop"
        /\ pos < Len(works)
        /\ batch' = batch \o SubSeq(queue[t], 1, n)
        /\ queue' = [queue EXCEPT ![t] = SubSeq(@, n + 1, Len(@))]
        /\ unused' = IF t \in disables THEN unused \cup {t} ELSE unused
        /\ pos' = pos + 1
        /\ UNCHANGED << lists, dpc, works, disables >>

\* popFromBuffers: one buffer.  It is to be freed if nothing was in it and its thread had
\* ended when the copies were made.
DumpPop ==
    LET t == works[pos + 1]
        n == Min({Len(queue[t]), MaxPop})
    IN  /\ dpc = "pop"
        /\ pos < Len(works)
        /\ batch' = batch \o SubSeq(queue[t], 1, n)
        /\ queue' = [queue EXCEPT ![t] = SubSeq(@, n + 1, Len(@))]
        /\ unused' = IF n = 0 /\ t \in disables THEN unused \cup {t} ELSE unused
        /\ pos' = pos + 1
        /\ UNCHANGED << lists, dpc, works, disables >>

\* Mutant of DumpFree: freeDbBuffers is kept from pass to pass.
DumpFreeKeeps ==
    /\ dpc = "pop"
    /\ pos = Len(works)
    /\ batch' = << >>
    /\ working' = Without(working, unused)
    /\ disabled' = disabled \ unused
    /\ works' = working'
    /\ disables' = disabled'
    /\ pos' = 0
    /\ dpc' = "sleep"
    /\ UNCHANGED << life, queue, unused >>

\* The end of the pass: the batch is handed on, the buffers in `unused` are dropped, and the
\* copies are made again under the same lock.
DumpFree ==
    /\ dpc = "pop"
    /\ pos = Len(works)
    /\ batch' = << >>
    /\ pos' = 0
    /\ working' = Without(working, unused)
    /\ disabled' = disabled \ unused
    /\ works' = working'
    /\ disables' = disabled'
    /\ unused' = {}
    /\ dpc' = "sleep"
    /\ UNCHANGED << life, queue >>

-----------------------------------------------------------------------------
\* The dump thread will come to every buffer that holds an event, and it drops a buffer only
\* when it is empty and its thread has ended (popFromBuffers, DumpThread, Unregister).
NoneStranded ==
    /\ \A t \in Thread : queue[t] # << >> => t \in ToSet(working)
    /\ \A t \in unused : queue[t] = << >> /\ life[t] = "ended"
=============================================================================
