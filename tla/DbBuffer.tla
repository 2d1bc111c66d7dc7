------------------------------- MODULE DbBuffer -------------------------------
(***************************************************************************)
(* DbBuffer (cpp/include/msServiceProfiler/DbBuffer.h): a ring of nodes    *)
(* that grows by blocks.  One thread pushes, the dump thread pops; Size_   *)
(* is the only atomic they share.  A node is named by its address: block b *)
(* holds the nodes b * BlockSize + 1 .. (b + 1) * BlockSize.               *)
(*                                                                         *)
(* Pop loads Size_ relaxed and then reads what Push wrote before its       *)
(* release of Size_, which is a data race: where loads are reordered       *)
(* (aarch64) the reads may be older than the size.  SizeSub is an acquire  *)
(* read-modify-write, so only the first event of a Pop is exposed.         *)
(***************************************************************************)
EXTENDS Naturals, Sequences

CONSTANTS
    MaxBlocks,  \* PTR_ARRAY_SIZE
    BlockSize,  \* PTR_ARRAY_PRE_SIZE
    MaxPop,     \* MAX_POP_SIZE
    MayFail,    \* new (std::nothrow) may return nullptr
    Reorders,   \* the machine reorders loads
    MaxPush     \* bound: calls of Push

ASSUME BufferAssumption ==
    /\ MaxBlocks \in Nat \ {0}
    /\ BlockSize \in Nat \ {0, 1}
    /\ MaxPop \in Nat \ {0}
    /\ MayFail \in BOOLEAN
    /\ Reorders \in BOOLEAN
    /\ MaxPush \in Nat

NoNode == 0
NoEvent == 0
Node == 1 .. MaxBlocks * BlockSize
Capacity == MaxBlocks * BlockSize - 1

VARIABLES
    \* the thread that pushes:
    ppc,     \* the step of Push
    blocks,  \* bufferIndex_
    head,    \* pHead_
    sizeRead, \* the size Push read
    offered, \* calls of Push answered: the next event is offered + 1
    \* the dump thread:
    cpc,     \* the step of Pop
    tail,    \* pTail_
    want,    \* events this Pop has still to take
    hand,    \* the event Pop moved out last
    last,    \* the event Pop counted last
    \* shared:
    link,    \* link[n]: pNext of node n, NoNode for nullptr
    data,    \* data[n]: pMarkerData of node n, NoEvent for nullptr
    size,    \* Size_
    \* what a reordered load may still return:
    fresh,   \* nodes the Push under way has written
    unseen,  \* nodes earlier calls wrote since the dump thread last acquired Size_
    formerNext, \* GetNext(n) before the link of n changed
    \* history, read by no action of the code:
    back     \* back[j]: the node j places behind the head, once around the ring

producer == << ppc, blocks, head, sizeRead, offered >>
consumer == << cpc, tail, want, hand, last >>
memory == << fresh, unseen, formerNext >>
vars == << producer, consumer, link, data, size, memory, back >>

Init ==
    /\ ppc = "idle" /\ blocks = 0 /\ head = NoNode /\ sizeRead = 0 /\ offered = 0
    /\ cpc = "idle" /\ tail = NoNode /\ want = 0 /\ hand = NoEvent /\ last = NoEvent
    /\ link = [n \in Node |-> NoNode]
    /\ data = [n \in Node |-> NoEvent]
    /\ size = 0
    /\ fresh = {} /\ unseen = {}
    /\ formerNext = [n \in Node |-> NoNode]
    /\ back = [j \in 0 .. blocks * BlockSize - 1 |-> NoNode]

BufferSize == blocks * BlockSize
\* Nodes of a block follow each other in memory; only the last, and those a block was
\* inserted behind, have a pNext.
GetNext(n) == IF n = NoNode THEN NoNode ELSE IF link[n] # NoNode THEN link[n] ELSE n + 1

-----------------------------------------------------------------------------
(* Push.                                                                   *)

PushBegin ==
    /\ ppc = "idle"
    /\ offered < MaxPush
    /\ sizeRead' = size
    /\ ppc' = "next"
    /\ UNCHANGED << blocks, head, offered, consumer, link, data, size, memory, back >>

\* Mutant of Full: without the distance to the tail.
FullLate == sizeRead >= BufferSize

\* One place is left free, so that the node the tail is on is not written.
Full == sizeRead + 1 >= BufferSize

\* The ring is used up, or memory is.
PushRefuse ==
    /\ ppc = "next"
    /\ Full
    /\ blocks < MaxBlocks => MayFail
    /\ offered' = offered + 1
    /\ sizeRead' = 0
    /\ ppc' = "idle"
    /\ UNCHANGED << blocks, head, consumer, link, data, size, memory, back >>

PushAdvance ==
    /\ ppc = "next"
    /\ ~Full
    /\ head' = GetNext(head)
    /\ back' = [j \in 0 .. BufferSize - 1 |-> IF j = 0 THEN GetNext(head) ELSE back[j - 1]]
    /\ ppc' = "store"
    /\ UNCHANGED << blocks, sizeRead, offered, consumer, link, data, size, memory >>

\* The nodes behind the head once a block that starts at `first` is inserted after it.
BackGrown(first) ==
    [j \in 0 .. BufferSize + BlockSize - 1 |->
        IF j = 0 THEN first
        ELSE IF j <= BufferSize THEN back[j - 1]
        ELSE first + BufferSize + BlockSize - j]

\* Mutant of PushGrow: the block is made, and the head does not point to it.
PushGrowUnlinked ==
    LET first == BufferSize + 1
        final == BufferSize + BlockSize
        next == GetNext(head)
    IN  /\ ppc = "next"
        /\ Full
        /\ blocks < MaxBlocks
        /\ link' = [link EXCEPT ![final] = IF next = NoNode THEN first ELSE next]
        /\ blocks' = blocks + 1
        /\ head' = first
        /\ back' = BackGrown(first)
        /\ ppc' = "store"
        /\ UNCHANGED << sizeRead, offered, consumer, data, size, memory >>

\* NewBuffer: the block's last node points to what followed the head, the head to the block.
PushGrow ==
    LET first == BufferSize + 1
        final == BufferSize + BlockSize
        next == GetNext(head)
    IN  /\ ppc = "next"
        /\ Full
        /\ blocks < MaxBlocks
        /\ link' = IF next = NoNode
                     THEN [link EXCEPT ![final] = first]
                     ELSE [link EXCEPT ![final] = next, ![head] = first]
        /\ formerNext' = IF next = NoNode THEN formerNext ELSE [formerNext EXCEPT ![head] = next]
        /\ fresh' = {n \in {head, final} : n # NoNode}
        /\ blocks' = blocks + 1
        /\ head' = first
        /\ back' = BackGrown(first)
        /\ ppc' = "store"
        /\ UNCHANGED << sizeRead, offered, consumer, data, size, unseen >>

PushStore ==
    /\ ppc = "store"
    /\ data' = [data EXCEPT ![head] = offered + 1]
    /\ fresh' = fresh \cup {head}
    /\ ppc' = "count"
    /\ UNCHANGED << blocks, head, sizeRead, offered, consumer, link, size, unseen, formerNext, back >>

\* SizeAdd.
PushCount ==
    /\ ppc = "count"
    /\ size' = size + 1
    /\ offered' = offered + 1
    /\ sizeRead' = 0
    /\ unseen' = unseen \cup fresh
    /\ fresh' = {}
    /\ ppc' = "idle"
    /\ UNCHANGED << blocks, head, consumer, link, data, formerNext, back >>

Push == PushBegin \/ PushRefuse \/ PushAdvance \/ PushGrow \/ PushStore \/ PushCount

-----------------------------------------------------------------------------
(* Pop.                                                                    *)

\* Mutant of PopBegin: the last event is left in the buffer.
PopBeginShort ==
    /\ cpc = "idle"
    /\ size > 1
    /\ want' = IF size < MaxPop THEN size ELSE MaxPop
    /\ cpc' = "first"
    /\ UNCHANGED << producer, tail, hand, last, link, data, size, memory, back >>

\* A relaxed load.  With nothing to take Pop returns 0 and changes nothing.
PopBegin ==
    /\ cpc = "idle"
    /\ size > 0
    /\ want' = IF size < MaxPop THEN size ELSE MaxPop
    /\ cpc' = "first"
    /\ UNCHANGED << producer, tail, hand, last, link, data, size, memory, back >>

\* A load that is not ordered after that of the size.
Racy(n) == Reorders /\ cpc = "first" /\ n \in unseen

\* What reading the node after the tail (markerArray_[0] at first) may return.
NextRead ==
    IF tail = NoNode
      THEN {1} \cup {n \in {NoNode} : Racy(1)}
      ELSE {GetNext(tail)} \cup {formerNext[n] : n \in {m \in {tail} : Racy(m) /\ formerNext[m] # NoNode}}

\* What moving the event out of node n may return.
EventRead(n) == {data[n]} \cup {e \in {NoEvent} : Racy(n)}

\* std::move leaves nullptr in the node.  A nullptr markerArray_[0] is dereferenced.
PopTake ==
    /\ cpc \in { "first", "take" }
    /\ \E n \in NextRead :
         IF n = NoNode
           THEN cpc' = "fault" /\ UNCHANGED << tail, hand, data >>
           ELSE /\ \E e \in EventRead(n) : hand' = e
                /\ tail' = n
                /\ data' = [data EXCEPT ![n] = NoEvent]
                /\ cpc' = "count"
    /\ UNCHANGED << producer, want, last, link, size, memory, back >>

\* SizeSub.
PopCount ==
    /\ cpc = "count"
    /\ size' = size - 1
    /\ want' = want - 1
    /\ last' = hand
    /\ hand' = NoEvent
    /\ unseen' = {}
    /\ cpc' = IF want = 1 THEN "idle" ELSE "take"
    /\ UNCHANGED << producer, tail, link, data, fresh, formerNext, back >>

Pop == PopBegin \/ PopTake \/ PopCount

Next == Push \/ Pop

Spec == Init /\ [][Next]_vars

\* The dump thread calls Pop again and again.  Nobody has to push, or to finish a Push.
FairSpec == Spec /\ WF_vars(Pop)

-----------------------------------------------------------------------------
(* What the buffer promises.                                               *)

\* Events that are counted and not yet moved out; nodes whose event is not yet counted.
Waiting == size - (IF cpc = "count" THEN 1 ELSE 0)
Lead == IF ppc \in { "store", "count" } THEN 1 ELSE 0

\* The events in the buffer, oldest first: they are in the nodes behind the head, but for the
\* one that Pop has moved out and not counted.
Events ==
    [i \in 1 .. size |-> IF i = 1 /\ cpc = "count" THEN hand ELSE data[back[Lead + size - i]]]

\* Whether Push hands the event back is settled when it reads the size.
Answered ==
    IF ppc = "next" /\ Full /\ blocks = MaxBlocks /\ ~MayFail THEN offered + 1 ELSE offered

Q == INSTANCE EventQueue WITH queue <- Events, offered <- Answered

\* Events come out once, in the order they were accepted; an event is handed back only when
\* as many as the blocks hold, less one, are in the buffer (Push, NewBuffer, Pop).
QueueSpec == Q!Spec

TypeOK ==
    /\ ppc \in { "idle", "next", "store", "count" }
    /\ blocks \in 0 .. MaxBlocks
    /\ head \in Node \cup {NoNode} /\ tail \in Node \cup {NoNode}
    /\ sizeRead \in 0 .. Capacity /\ size \in 0 .. Capacity /\ want \in 0 .. Capacity
    /\ offered \in 0 .. MaxPush
    /\ cpc \in { "idle", "first", "take", "count", "fault" }
    /\ hand \in 0 .. MaxPush /\ last \in 0 .. MaxPush
    /\ link \in [Node -> Node \cup {NoNode}]
    /\ data \in [Node -> 0 .. MaxPush]
    /\ fresh \in SUBSET Node /\ unseen \in SUBSET Node
    /\ formerNext \in [Node -> Node \cup {NoNode}]
    /\ back \in [0 .. BufferSize - 1 -> Node]

\* The nodes behind the head are one ring of all that was allocated.
Ring ==
    blocks > 0 =>
        /\ back[0] = head
        /\ \A j \in 0 .. BufferSize - 1 :
             GetNext(back[j]) = back[IF j = 0 THEN BufferSize - 1 ELSE j - 1]
        /\ \A i, j \in 0 .. BufferSize - 1 : back[i] = back[j] => i = j

\* However the ring has grown under it, the tail is as many nodes behind the head as events
\* wait, and a node further: Push never writes the node the tail is on (Push, NewBuffer, Pop).
RingKept ==
    /\ Ring
    /\ blocks > 0 => size + Lead < BufferSize
    /\ IF tail # NoNode THEN back[Lead + Waiting] = tail
       ELSE blocks > 0 => Lead + Waiting > 0 /\ back[Lead + Waiting - 1] = 1

\* Every event that is accepted is delivered: the dump thread finds it wherever the ring has
\* grown meanwhile, and is never left with a count it cannot take.
EventsLeave ==
    \A e \in 1 .. MaxPush :
        (\E i \in 1 .. Len(Events) : Events[i] = e) ~> (\A i \in 1 .. Len(Events) : Events[i] # e)

\* MultiThreadBufferManager.h: what goes through the buffer "keeps its order and needs no
\* protection".  Each event Pop moves out is a later one than the one before.
InOrder == cpc = "count" => hand > last
=============================================================================
