------------------------------ MODULE EventQueue ------------------------------
(***************************************************************************)
(* What the buffer of a profiled thread promises                           *)
(* (cpp/include/msServiceProfiler/DbBuffer.h): a bounded queue between the *)
(* thread that records events and the thread that writes them.  An event   *)
(* is named by the call of Push that offered it.                           *)
(***************************************************************************)
EXTENDS Naturals, Sequences

CONSTANTS
    Capacity,  \* events the queue holds
    MayFail    \* memory may run out before that

VARIABLES
    queue,   \* the events accepted and not delivered, oldest first
    offered, \* calls of Push answered so far
    last     \* the event delivered last, 0 before the first

queueVars == << queue, offered, last >>

Init == queue = << >> /\ offered = 0 /\ last = 0

Accept ==
    /\ Len(queue) < Capacity
    /\ offered' = offered + 1
    /\ queue' = Append(queue, offered + 1)
    /\ UNCHANGED last

\* Push hands the event back.
Refuse ==
    /\ MayFail \/ Len(queue) = Capacity
    /\ offered' = offered + 1
    /\ UNCHANGED << queue, last >>

Deliver ==
    /\ queue # << >>
    /\ last' = Head(queue)
    /\ queue' = Tail(queue)
    /\ UNCHANGED offered

Next == Accept \/ Refuse \/ Deliver

Spec == Init /\ [][Next]_queueVars
=============================================================================
