---------------------------- MODULE DbBufferProofs ----------------------------
(***************************************************************************)
(* Proofs about DbBuffer, for every size of the blocks, every number of    *)
(* them and every number of events, on a machine that keeps its loads in   *)
(* order: the ring stays whole and the tail keeps its distance to the head *)
(* (RingKept), and what the two threads do to it implements a bounded      *)
(* queue (EventQueue).                                                     *)
(***************************************************************************)
EXTENDS DbBuffer, SequenceTheorems, TLAPS

\* What the steps of Push and Pop know between their reads and their writes.
Places ==
    /\ blocks = 0 => head = NoNode /\ tail = NoNode /\ size = 0 /\ Lead = 0 /\ sizeRead = 0
    /\ blocks > 0 => head # NoNode
    /\ \A n \in Node : n > BufferSize => link[n] = NoNode
    /\ \A j \in 0 .. BufferSize - 1 : back[j] <= BufferSize
    /\ ppc # "idle" => /\ offered < MaxPush
                       /\ size <= sizeRead
                       /\ blocks > 0 => sizeRead < BufferSize
    /\ ppc = "count" => data[head] = offered + 1
    /\ cpc # "fault"
    /\ cpc # "idle" => 1 <= want /\ want <= size
    /\ cpc = "count" => tail # NoNode

Inv == TypeOK /\ RingKept /\ Places

-----------------------------------------------------------------------------
(* The number of nodes allocated.                                          *)

LEMMA BufferSizes ==
    ASSUME blocks \in 0 .. MaxBlocks
    PROVE  /\ BufferSize \in Nat
           /\ BufferSize <= MaxBlocks * BlockSize
           /\ blocks = 0 <=> BufferSize = 0
           /\ blocks = MaxBlocks => BufferSize = MaxBlocks * BlockSize
           /\ blocks < MaxBlocks => BufferSize + BlockSize <= MaxBlocks * BlockSize
           /\ (blocks + 1) * BlockSize = BufferSize + BlockSize
           /\ MaxBlocks * BlockSize \in Nat /\ MaxBlocks * BlockSize >= 2
<1>1. /\ BlockSize \in Nat /\ BlockSize >= 2 /\ MaxBlocks \in Nat /\ MaxBlocks >= 1
      /\ blocks \in Nat /\ blocks <= MaxBlocks
  BY BufferAssumption
<1>2. \A a, b, c \in Nat : a <= b => a * c <= b * c
  OBVIOUS
<1>3. \A a, c \in Nat : (a + 1) * c = a * c + c /\ a * c \in Nat /\ 1 * c = c /\ 0 * c = 0
  OBVIOUS
<1>4. blocks < MaxBlocks => (blocks + 1) * BlockSize <= MaxBlocks * BlockSize
  <2>1. ASSUME blocks < MaxBlocks PROVE blocks + 1 <= MaxBlocks /\ blocks + 1 \in Nat
    BY <2>1, <1>1
  <2> QED BY <2>1, <1>1, <1>2
<1>5. blocks > 0 => 1 * BlockSize <= blocks * BlockSize
  BY <1>1, <1>2
<1>6. 1 * BlockSize <= MaxBlocks * BlockSize
  BY <1>1, <1>2
<1>7. blocks * BlockSize <= MaxBlocks * BlockSize
  BY <1>1, <1>2
<1> QED BY <1>1, <1>3, <1>4, <1>5, <1>6, <1>7 DEF BufferSize

LEMMA BlocksUnchanged == ASSUME UNCHANGED blocks PROVE BufferSize' = BufferSize
  BY DEF BufferSize

LEMMA InitInv == ASSUME Reorders = FALSE, Init PROVE Inv
<1>1. BufferSize = 0 /\ Capacity \in Nat /\ MaxPush \in Nat /\ MaxBlocks \in Nat
      /\ Node = 1 .. MaxBlocks * BlockSize /\ MaxBlocks * BlockSize \in Nat
  <2>1. blocks \in 0 .. MaxBlocks
    BY BufferAssumption DEF Init
  <2> QED BY <2>1, BufferSizes, BufferAssumption DEF Init, Capacity, Node
<1>2. TypeOK
  BY <1>1 DEF TypeOK, Init, NoNode, NoEvent, BufferSize
<1>3. RingKept /\ Places
  BY <1>1 DEF RingKept, Ring, Places, Init, NoNode, NoEvent, Lead
<1> QED BY <1>2, <1>3 DEF Inv

-----------------------------------------------------------------------------
(* Push keeps the invariant.                                               *)

LEMMA PushBeginInv == ASSUME Inv, PushBegin PROVE Inv'
<1>1. BufferSize' = BufferSize /\ Lead' = Lead /\ Waiting' = Waiting
  BY BlocksUnchanged DEF PushBegin, Lead, Waiting, consumer, memory
<1>2. TypeOK'
  BY <1>1 DEF Inv, TypeOK, PushBegin, consumer, memory
<1>3. RingKept'
  BY <1>1 DEF Inv, RingKept, Ring, PushBegin, consumer, memory, GetNext
<1>4. Places'
  BY <1>1 DEF Inv, TypeOK, RingKept, Places, PushBegin, consumer, memory, Lead
<1> QED BY <1>2, <1>3, <1>4 DEF Inv

LEMMA PushRefuseInv == ASSUME Inv, PushRefuse PROVE Inv'
<1>1. BufferSize' = BufferSize /\ Lead' = Lead /\ Waiting' = Waiting
  BY BlocksUnchanged DEF PushRefuse, Lead, Waiting, consumer, memory
<1>2. Capacity \in Nat /\ MaxPush \in Nat
  BY BufferSizes, BufferAssumption DEF Inv, TypeOK, Capacity
<1>3. TypeOK'
  BY <1>1, <1>2 DEF Inv, TypeOK, Places, PushRefuse, consumer, memory
<1>4. RingKept'
  BY <1>1 DEF Inv, RingKept, Ring, PushRefuse, consumer, memory, GetNext
<1>5. Places'
  BY <1>1 DEF Inv, TypeOK, Places, PushRefuse, consumer, memory
<1> QED BY <1>3, <1>4, <1>5 DEF Inv

LEMMA PushAdvanceInv == ASSUME Inv, PushAdvance PROVE Inv'
<1>1. /\ BufferSize' = BufferSize /\ BufferSize \in Nat
      /\ Lead = 0 /\ Lead' = 1 /\ Waiting' = Waiting
  BY BlocksUnchanged, BufferSizes DEF Inv, TypeOK, PushAdvance, Lead, Waiting, consumer, memory
<1>2. blocks > 0 /\ BufferSize > size + 1 /\ size \in Nat /\ sizeRead \in Nat
  BY <1>1, BufferSizes DEF Inv, TypeOK, Places, PushAdvance, Full
<1>3. GetNext(head) = back[BufferSize - 1] /\ back \in [0 .. BufferSize - 1 -> Node]
  BY <1>1, <1>2 DEF Inv, TypeOK, RingKept, Ring
<1>4. /\ back' \in [0 .. BufferSize - 1 -> Node]
      /\ back'[0] = back[BufferSize - 1] /\ head' = back[BufferSize - 1]
      /\ \A j \in 1 .. BufferSize - 1 : back'[j] = back[j - 1]
  BY <1>1, <1>2, <1>3 DEF PushAdvance
<1>5. TypeOK'
  BY <1>1, <1>2, <1>3, <1>4 DEF Inv, TypeOK, PushAdvance, consumer, memory
<1>6. Ring'
  <2>1. \A n : GetNext(n)' = GetNext(n)
    BY DEF PushAdvance, GetNext
  <2>2. ASSUME NEW j \in 0 .. BufferSize - 1
        PROVE  GetNext(back'[j]) = back'[IF j = 0 THEN BufferSize - 1 ELSE j - 1]
    <3>1. \A i \in 0 .. BufferSize - 1 :
            GetNext(back[i]) = back[IF i = 0 THEN BufferSize - 1 ELSE i - 1]
      BY <1>2 DEF Inv, RingKept, Ring
    <3>2. CASE j = 0
      BY <3>1, <3>2, <1>1, <1>2, <1>4
    <3>3. CASE j = 1
      BY <3>1, <3>3, <1>1, <1>2, <1>4
    <3>4. CASE j > 1
      BY <3>1, <3>4, <1>1, <1>2, <1>4
    <3> QED BY <3>2, <3>3, <3>4, <1>1
  <2>3. ASSUME NEW i \in 0 .. BufferSize - 1, NEW j \in 0 .. BufferSize - 1, back'[i] = back'[j]
        PROVE  i = j
    <3>1. \A k, l \in 0 .. BufferSize - 1 : back[k] = back[l] => k = l
      BY <1>2 DEF Inv, RingKept, Ring
    <3>2. CASE i = 0 \/ j = 0
      BY <3>1, <3>2, <2>3, <1>1, <1>2, <1>4
    <3>3. CASE i > 0 /\ j > 0
      <4>1. i - 1 \in 0 .. BufferSize - 1 /\ j - 1 \in 0 .. BufferSize - 1
            /\ back[i - 1] = back[j - 1]
        BY <3>3, <2>3, <1>1, <1>2, <1>4
      <4> QED BY <4>1, <3>1, <3>3
    <3> QED BY <3>2, <3>3, <1>1
  <2> QED BY <2>1, <2>2, <2>3, <1>1, <1>4 DEF Ring
<1>7. RingKept'
  <2>1. Waiting \in Nat /\ Waiting <= size
    BY <1>2 DEF Inv, TypeOK, Places, Waiting
  <2>2. back'[Lead' + Waiting'] = back[Lead + Waiting]
    BY <1>1, <1>2, <1>4, <2>1
  <2>3. Waiting > 0 => back'[Lead' + Waiting' - 1] = back[Lead + Waiting - 1]
    <3>1. Waiting > 0 => Waiting \in 1 .. BufferSize - 1
      BY <1>1, <1>2, <2>1
    <3>2. Lead' + Waiting' - 1 = Waiting /\ Lead + Waiting - 1 = Waiting - 1
      BY <1>1, <2>1
    <3> QED BY <3>1, <3>2, <1>4
  <2>4. tail' = tail /\ size' = size /\ blocks' = blocks
    BY DEF PushAdvance, consumer
  <2> QED BY <1>1, <1>2, <1>6, <2>1, <2>2, <2>3, <2>4 DEF Inv, RingKept
<1>8. Places'
  <2>1. \A j \in 0 .. BufferSize - 1 : back'[j] <= BufferSize
    BY <1>1, <1>2, <1>4 DEF Inv, Places
  <2>2. head' # NoNode
    BY <1>1, <1>2, <1>3, <1>4, BufferSizes DEF Inv, TypeOK, Node, NoNode
  <2> QED BY <1>1, <1>2, <2>1, <2>2 DEF Inv, TypeOK, Places, PushAdvance, consumer, memory
<1> QED BY <1>5, <1>7, <1>8 DEF Inv

LEMMA PushStoreInv == ASSUME Inv, PushStore PROVE Inv'
<1>1. /\ BufferSize' = BufferSize /\ BufferSize \in Nat
      /\ Lead = 1 /\ Lead' = 1 /\ Waiting' = Waiting
  BY BlocksUnchanged, BufferSizes DEF Inv, TypeOK, PushStore, Lead, Waiting, consumer, memory
<1>2. blocks > 0 /\ head \in Node /\ offered + 1 \in 0 .. MaxPush
  BY <1>1, BufferSizes, BufferAssumption DEF Inv, TypeOK, Places, PushStore
<1>3. TypeOK'
  BY <1>1, <1>2 DEF Inv, TypeOK, PushStore, consumer, memory
<1>4. RingKept'
  BY <1>1 DEF Inv, RingKept, Ring, PushStore, consumer, memory, GetNext
<1>5. Places'
  BY <1>1, <1>2 DEF Inv, TypeOK, Places, PushStore, consumer, memory
<1> QED BY <1>3, <1>4, <1>5 DEF Inv

LEMMA PushCountInv == ASSUME Inv, PushCount PROVE Inv'
<1>1. /\ BufferSize' = BufferSize /\ BufferSize \in Nat /\ Capacity = MaxBlocks * BlockSize - 1
      /\ BufferSize <= MaxBlocks * BlockSize /\ MaxBlocks * BlockSize \in Nat
      /\ Lead = 1 /\ Lead' = 0 /\ Waiting' = Waiting + 1 /\ size \in Nat /\ Waiting \in Int
  BY BlocksUnchanged, BufferSizes
     DEF Inv, TypeOK, PushCount, Lead, Waiting, consumer, memory, Capacity
<1>2. blocks > 0 /\ offered + 1 \in 0 .. MaxPush /\ size + 1 < BufferSize /\ blocks \in Nat
  BY <1>1, BufferAssumption DEF Inv, TypeOK, Places, RingKept, PushCount
<1>3. TypeOK'
  <2>1. /\ UNCHANGED << blocks, head, tail, want, hand, last, cpc, link, data, formerNext, back >>
        /\ ppc' = "idle" /\ sizeRead' = 0 /\ size' = size + 1 /\ offered' = offered + 1
    BY DEF PushCount, consumer
  <2>2. Capacity' = Capacity /\ Node' = Node
    BY DEF Capacity, Node
  <2>3. sizeRead' \in 0 .. Capacity /\ size' \in 0 .. Capacity
    BY <1>1, <1>2, <2>1
  <2>4. fresh' \in SUBSET Node /\ unseen' \in SUBSET Node
    BY DEF Inv, TypeOK, PushCount
  <2> QED BY <1>1, <1>2, <2>1, <2>2, <2>3, <2>4 DEF Inv, TypeOK
<1>4. RingKept'
  <2>1. Ring'
    BY <1>1 DEF Inv, RingKept, Ring, PushCount, consumer, memory, GetNext
  <2>2. Lead' + Waiting' = Lead + Waiting
    BY <1>1
  <2> QED BY <1>1, <1>2, <2>1, <2>2 DEF Inv, RingKept, PushCount, consumer, memory
<1>5. Places'
  BY <1>1, <1>2 DEF Inv, TypeOK, Places, PushCount, consumer, memory
<1> QED BY <1>3, <1>4, <1>5 DEF Inv

LEMMA PushGrowInv == ASSUME Inv, PushGrow PROVE Inv'
<1> DEFINE N == BufferSize
           first == N + 1
           final == N + BlockSize
<1>1. /\ N \in Nat /\ BufferSize' = final /\ BlockSize \in Nat /\ BlockSize >= 2
      /\ MaxBlocks * BlockSize \in Nat /\ final <= MaxBlocks * BlockSize
      /\ blocks \in Nat
      /\ blocks = 0 <=> N = 0
      /\ blocks' = blocks + 1 /\ blocks' \in 0 .. MaxBlocks
  <2>1. BufferSize' = (blocks + 1) * BlockSize
    BY DEF PushGrow, BufferSize
  <2> QED BY <2>1, BufferSizes, BufferAssumption DEF Inv, TypeOK, PushGrow
<1>2. /\ Lead = 0 /\ Lead' = 1 /\ Waiting' = Waiting
      /\ size \in Nat /\ Waiting \in Nat /\ Waiting <= size
      /\ N > 0 => size < N
      /\ N = 0 => size = 0 /\ Waiting = 0
  BY <1>1 DEF Inv, TypeOK, Places, RingKept, PushGrow, Lead, Waiting, consumer
<1>3. /\ Node = 1 .. MaxBlocks * BlockSize
      /\ first \in Node /\ final \in Node /\ first < final
      /\ NoNode = 0
  BY <1>1 DEF Node, NoNode
<1>4. /\ N = 0 => head = NoNode /\ tail = NoNode
      /\ N > 0 => /\ head \in Node /\ head <= N
                  /\ head = back[0]
                  /\ GetNext(head) = back[N - 1]
                  /\ back[N - 1] \in Node /\ back[N - 1] <= N
                  /\ GetNext(head) # NoNode
  <2>1. CASE N = 0
    <3>1. head = NoNode /\ tail = NoNode
      BY <2>1, <1>1 DEF Inv, Places
    <3> QED BY <2>1, <3>1
  <2>2. CASE N > 0
    <3>1. back \in [0 .. N - 1 -> Node] /\ \A j \in 0 .. N - 1 : back[j] <= N
      BY DEF Inv, TypeOK, Places
    <3>2. back[0] = head /\ GetNext(back[0]) = back[N - 1]
      BY <2>2, <1>1 DEF Inv, RingKept, Ring
    <3>3. 0 \in 0 .. N - 1 /\ N - 1 \in 0 .. N - 1
      BY <2>2, <1>1
    <3> QED BY <2>2, <3>1, <3>2, <3>3, <1>3
  <2> QED BY <2>1, <2>2, <1>1
<1>5. /\ back \in [0 .. N - 1 -> Node]
      /\ \A j \in 0 .. N - 1 : back[j] <= N
      /\ N > 0 => \A j \in 0 .. N - 1 : GetNext(back[j]) = back[IF j = 0 THEN N - 1 ELSE j - 1]
      /\ N > 0 => \A i, j \in 0 .. N - 1 : back[i] = back[j] => i = j
  <2>1. back \in [0 .. N - 1 -> Node]
    BY DEF Inv, TypeOK
  <2>2. \A j \in 0 .. N - 1 : back[j] <= N
    BY DEF Inv, Places
  <2>3. N > 0 => Ring /\ blocks > 0
    BY <1>1 DEF Inv, RingKept
  <2> QED BY <2>1, <2>2, <2>3 DEF Ring
<1>6. /\ head' = first
      /\ DOMAIN back' = 0 .. final - 1
      /\ back'[0] = first
      /\ \A j \in 1 .. N : back'[j] = back[j - 1]
      /\ \A j \in N + 1 .. final - 1 : back'[j] = first + final - j
  BY <1>1 DEF PushGrow, BackGrown
<1>7. back' \in [0 .. final - 1 -> Node]
  <2>1. back' = BackGrown(first)
    BY DEF PushGrow
  <2>2. ASSUME NEW j \in 0 .. final - 1 PROVE back'[j] \in Node
    <3>1. CASE j = 0
      BY <3>1, <1>3, <1>6
    <3>2. CASE j \in 1 .. N
      BY <3>2, <1>1, <1>5, <1>6
    <3>3. CASE j \in N + 1 .. final - 1
      <4>1. back'[j] = first + final - j
        BY <3>3, <1>6
      <4>2. first + final - j \in 1 .. final
        BY <3>3, <1>1
      <4> QED BY <4>1, <4>2, <1>1, <1>3
    <3> QED BY <3>1, <3>2, <3>3, <1>1
  <2> QED BY <2>1, <2>2, <1>1 DEF BackGrown
<1>8. /\ link' \in [Node -> Node \cup {NoNode}]
      /\ \A n \in Node : n # final /\ n # head => link'[n] = link[n]
      /\ N = 0 => link'[final] = first
      /\ N > 0 => link'[final] = back[N - 1] /\ link'[head] = first
  <2>1. link \in [Node -> Node \cup {NoNode}]
    BY DEF Inv, TypeOK
  <2>2. CASE N = 0
    <3>1. link' = [link EXCEPT ![final] = first]
      BY <2>2, <1>4 DEF PushGrow, GetNext
    <3> QED BY <3>1, <2>1, <2>2, <1>1, <1>3
  <2>3. CASE N > 0
    <3>1. link' = [link EXCEPT ![final] = back[N - 1], ![head] = first]
      BY <2>3, <1>4 DEF PushGrow
    <3>2. head \in Node /\ final \in Node /\ head # final /\ back[N - 1] \in Node /\ first \in Node
      BY <2>3, <1>1, <1>3, <1>4
    <3> HIDE DEF first, final, N
    <3> QED BY <3>1, <3>2, <2>1, <2>3
  <2> QED BY <2>2, <2>3, <1>1
<1>9. TypeOK'
  <2>1. formerNext' \in [Node -> Node \cup {NoNode}]
    <3>1. formerNext \in [Node -> Node \cup {NoNode}]
      BY DEF Inv, TypeOK
    <3>2. CASE N = 0
      BY <3>1, <3>2, <1>4 DEF PushGrow, GetNext
    <3>3. CASE N > 0
      <4>1. formerNext' = [formerNext EXCEPT ![head] = back[N - 1]]
        BY <3>3, <1>4 DEF PushGrow
      <4> QED BY <4>1, <3>1, <3>3, <1>4
    <3> QED BY <3>2, <3>3, <1>1
  <2>2. fresh' \subseteq Node
    <3>1. fresh' = {n \in {head, final} : n # NoNode} /\ head \in Node \cup {NoNode}
      BY DEF Inv, TypeOK, PushGrow
    <3> QED BY <3>1, <1>3
  <2>3. back' \in [0 .. BufferSize' - 1 -> Node] /\ blocks' \in 0 .. MaxBlocks /\ head' \in Node
    BY <1>1, <1>3, <1>6, <1>7
  <2>4. link' \in [Node -> Node \cup {NoNode}]
    BY <1>8
  <2> QED BY <2>1, <2>2, <2>3, <2>4 DEF Inv, TypeOK, PushGrow, consumer
<1>10. Ring'
  <2> DEFINE After(n) == IF n = NoNode THEN NoNode ELSE IF link'[n] # NoNode THEN link'[n] ELSE n + 1
  <2>1. ASSUME NEW j \in 0 .. final - 1
        PROVE  After(back'[j]) = back'[IF j = 0 THEN final - 1 ELSE j - 1]
    <3> DEFINE n == back'[j]
    <3>1. n \in Node /\ After(n) = IF link'[n] # NoNode THEN link'[n] ELSE n + 1
      BY <1>3, <1>7
    <3>2. CASE j = 0
      <4>1. n = first /\ link'[first] = NoNode
        BY <3>2, <1>1, <1>3, <1>4, <1>6, <1>8 DEF Inv, Places
      <4>2. back'[final - 1] = first + 1
        BY <1>1, <1>3, <1>6
      <4> QED BY <3>1, <3>2, <4>1, <4>2
    <3>3. CASE j = 1 /\ N > 0
      <4>1. n = head /\ link'[n] = first
        BY <3>3, <1>1, <1>4, <1>6, <1>8
      <4> QED BY <3>1, <3>3, <4>1, <1>3, <1>6
    <3>4. CASE j \in 2 .. N
      <4>1. n = back[j - 1] /\ n <= N /\ n # head /\ n # final
        BY <3>4, <1>1, <1>4, <1>5, <1>6
      <4>2. After(n) = GetNext(n)
        BY <4>1, <3>1, <1>3, <1>8 DEF GetNext
      <4>3. GetNext(n) = back[j - 2]
        BY <4>1, <3>4, <1>1, <1>5
      <4>4. back'[j - 1] = back[j - 2]
        BY <3>4, <1>1, <1>6
      <4> QED BY <3>4, <4>2, <4>3, <4>4, <1>1
    <3>5. CASE j = N + 1
      <4>1. n = final
        BY <3>5, <1>1, <1>6
      <4>2. back'[N] = IF N = 0 THEN first ELSE back[N - 1]
        BY <1>1, <1>6
      <4>3. link'[final] = back'[N] /\ back'[N] # NoNode
        BY <4>2, <1>1, <1>3, <1>4, <1>8
      <4> QED BY <3>1, <3>5, <4>1, <4>3, <1>1
    <3>6. CASE j > N + 1
      <4>1. n = first + final - j /\ n > N /\ n < final
        BY <3>6, <1>1, <1>6
      <4>2. link'[n] = NoNode
        BY <4>1, <3>1, <1>1, <1>4, <1>8, <1>3 DEF Inv, Places
      <4>3. back'[j - 1] = first + final - (j - 1)
        BY <3>6, <1>1, <1>6
      <4> QED BY <3>1, <3>6, <4>1, <4>2, <4>3, <1>1
    <3> QED BY <3>2, <3>3, <3>4, <3>5, <3>6, <1>1
  <2>2. ASSUME NEW i \in 0 .. final - 1, NEW j \in 0 .. final - 1, back'[i] = back'[j]
        PROVE  i = j
    <3>1. \A k \in 0 .. final - 1 :
            \/ k = 0 /\ back'[k] = N + 1
            \/ k \in 1 .. N /\ back'[k] = back[k - 1] /\ back'[k] <= N
            \/ k > N /\ back'[k] = N + 1 + final - k /\ back'[k] > N + 1
      BY <1>1, <1>5, <1>6
    <3>2. CASE i \in 1 .. N /\ j \in 1 .. N
      <4>1. back[i - 1] = back[j - 1] /\ i - 1 \in 0 .. N - 1 /\ j - 1 \in 0 .. N - 1
        BY <3>2, <2>2, <1>1, <1>6
      <4> QED BY <4>1, <3>2, <1>1, <1>5
    <3>3. back'[i] \in Nat /\ back'[j] \in Nat
      BY <1>3, <1>7
    <3>4. CASE i = 0 \/ j = 0
      BY <3>1, <3>3, <3>4, <2>2, <1>1
    <3>5. CASE i > N /\ j > N
      BY <3>1, <3>3, <3>5, <2>2, <1>1
    <3>6. CASE (i > N /\ j \in 1 .. N) \/ (i \in 1 .. N /\ j > N)
      BY <3>1, <3>3, <3>6, <2>2, <1>1
    <3> QED BY <3>2, <3>4, <3>5, <3>6, <1>1
  <2>3. head' = back'[0]
    BY <1>6
  <2>4. \A j \in 0 .. BufferSize' - 1 : After(back'[j]) = back'[IF j = 0 THEN BufferSize' - 1 ELSE j - 1]
    BY <2>1, <1>1
  <2>5. \A i, j \in 0 .. BufferSize' - 1 : back'[i] = back'[j] => i = j
    BY <2>2, <1>1
  <2> QED BY <2>3, <2>4, <2>5 DEF Ring, GetNext
<1>11. RingKept'
  <2>1. size' = size /\ tail' = tail
    BY DEF PushGrow, consumer
  <2>2. N > 0 => back'[1 + Waiting] = back[Waiting]
    BY <1>1, <1>2, <1>6
  <2>3. Waiting > 0 => back'[Waiting] = back[Waiting - 1]
    BY <1>1, <1>2, <1>6
  <2>4. CASE N = 0
    BY <2>1, <2>4, <1>1, <1>2, <1>4, <1>6, <1>10 DEF RingKept
  <2>5. CASE N > 0
    <3>1. size' + Lead' < BufferSize'
      BY <2>1, <2>5, <1>1, <1>2
    <3>2. back'[Lead' + Waiting'] = back[Lead + Waiting]
      BY <2>2, <2>5, <1>2
    <3>3. Waiting > 0 => back'[Lead' + Waiting' - 1] = back[Lead + Waiting - 1]
      <4>1. 1 + Waiting - 1 = Waiting /\ 0 + Waiting - 1 = Waiting - 1
        BY <1>2
      <4> QED BY <4>1, <2>3, <1>2
    <3>4. tail = NoNode => Waiting > 0 /\ back[Lead + Waiting - 1] = 1
      BY <2>5, <1>1, <1>2 DEF Inv, RingKept
    <3>5. tail # NoNode => back[Lead + Waiting] = tail
      BY DEF Inv, RingKept
    <3> QED BY <2>1, <3>1, <3>2, <3>3, <3>4, <3>5, <1>2, <1>10 DEF RingKept
  <2> QED BY <2>4, <2>5, <1>1
<1>12. Places'
  <2>1. ASSUME NEW j \in 0 .. final - 1 PROVE back'[j] <= final
    <3>1. CASE j = 0
      BY <3>1, <1>1, <1>6
    <3>2. CASE j \in 1 .. N
      <4>1. j - 1 \in 0 .. N - 1
        BY <3>2, <1>1
      <4>2. back'[j] = back[j - 1]
        BY <3>2, <1>6
      <4>3. back[j - 1] <= N /\ back[j - 1] \in Nat
        BY <4>1, <1>3, <1>5
      <4> QED BY <4>2, <4>3, <1>1
    <3>3. CASE j \in N + 1 .. final - 1
      BY <3>3, <1>1, <1>6
    <3> QED BY <3>1, <3>2, <3>3, <1>1
  <2>2. \A n \in Node : n > final => link'[n] = NoNode
    BY <1>1, <1>3, <1>4, <1>8 DEF Inv, Places
  <2>3. sizeRead \in Nat /\ sizeRead < final
    BY <1>1 DEF Inv, TypeOK, Places, PushGrow
  <2>4. ppc' = "store" /\ offered' = offered /\ size' = size /\ sizeRead' = sizeRead
        /\ cpc' = cpc /\ want' = want /\ tail' = tail
    BY DEF PushGrow, consumer
  <2>5. offered < MaxPush /\ size <= sizeRead
    BY DEF Inv, Places, PushGrow
  <2>6. blocks' # 0 /\ head' # NoNode
    BY <1>1, <1>3, <1>6
  <2>7. /\ cpc' # "fault"
        /\ cpc' # "idle" => 1 <= want' /\ want' <= size'
        /\ cpc' = "count" => tail' # NoNode
    BY <2>4 DEF Inv, Places
  <2>8. \A n \in Node : n > BufferSize' => link'[n] = NoNode
    BY <2>2, <1>1
  <2>9. \A j \in 0 .. BufferSize' - 1 : back'[j] <= BufferSize'
    BY <2>1, <1>1
  <2> QED BY <2>3, <2>4, <2>5, <2>6, <2>7, <2>8, <2>9, <1>1 DEF Places
<1> QED BY <1>9, <1>11, <1>12 DEF Inv

-----------------------------------------------------------------------------
(* Pop keeps the invariant.                                                *)

LEMMA PopBeginInv == ASSUME Inv, PopBegin PROVE Inv'
<1>1. BufferSize' = BufferSize /\ Lead' = Lead /\ Waiting' = Waiting
  BY BlocksUnchanged DEF PopBegin, Lead, Waiting, producer, memory
<1>2. /\ size \in Nat /\ size <= Capacity /\ Capacity \in Nat
      /\ want' \in Nat /\ 1 <= want' /\ want' <= size
  BY BufferSizes, BufferAssumption DEF Inv, TypeOK, PopBegin, Capacity
<1>3. TypeOK'
  BY <1>1, <1>2 DEF Inv, TypeOK, PopBegin, producer, memory
<1>4. RingKept'
  BY <1>1 DEF Inv, RingKept, Ring, PopBegin, producer, memory, GetNext
<1>5. Places'
  BY <1>1, <1>2 DEF Inv, TypeOK, Places, PopBegin, producer, memory
<1> QED BY <1>3, <1>4, <1>5 DEF Inv

\* Where loads keep their order, Pop takes the oldest event, from the node after the tail.
LEMMA Taken ==
    ASSUME Inv, Reorders = FALSE, PopTake
    PROVE  /\ blocks > 0 /\ Waiting > 0 /\ Waiting = size /\ Waiting' = Waiting - 1
           /\ Lead + Waiting - 1 \in 0 .. BufferSize - 1
           /\ tail' = back[Lead + Waiting - 1] /\ tail' \in Node
           /\ hand' = data[tail']
           /\ data' = [data EXCEPT ![tail'] = NoEvent]
           /\ cpc' = "count"
<1>1. /\ cpc # "idle" /\ cpc # "count" /\ want >= 1 /\ want <= size /\ want \in Nat /\ size \in Nat
      /\ size' = size
  BY DEF Inv, TypeOK, Places, PopTake
<1>2. Waiting = size /\ Lead \in {0, 1} /\ blocks \in 0 .. MaxBlocks /\ BufferSize \in Nat
  BY <1>1, BufferSizes DEF Waiting, Lead, Inv, TypeOK
<1>3. blocks > 0
  BY <1>1, <1>2 DEF Inv, Places
<1>4. size + Lead < BufferSize
  BY <1>3 DEF Inv, RingKept
<1>5. Lead + Waiting - 1 \in 0 .. BufferSize - 1 /\ Lead + Waiting \in 1 .. BufferSize - 1
  BY <1>1, <1>2, <1>4
<1>6. NextRead = {back[Lead + Waiting - 1]}
  <2>1. CASE tail = NoNode
    <3>1. NextRead = {1}
      BY <2>1 DEF NextRead, Racy
    <3> QED BY <2>1, <3>1, <1>3 DEF Inv, RingKept
  <2>2. CASE tail # NoNode
    <3>1. NextRead = {GetNext(tail)}
      BY <2>2 DEF NextRead, Racy
    <3>2. tail = back[Lead + Waiting]
      BY <2>2 DEF Inv, RingKept
    <3>3. GetNext(back[Lead + Waiting]) = back[Lead + Waiting - 1]
      <4>1. \A j \in 0 .. BufferSize - 1 :
              GetNext(back[j]) = back[IF j = 0 THEN BufferSize - 1 ELSE j - 1]
        BY <1>3 DEF Inv, RingKept, Ring
      <4>2. \A j \in 1 .. BufferSize - 1 : GetNext(back[j]) = back[j - 1]
        BY <4>1, <1>2
      <4>3. Lead + Waiting \in 1 .. BufferSize - 1
        BY <1>5
      <4> QED BY <4>2, <4>3, <1>1, <1>2
    <3> QED BY <3>1, <3>2, <3>3
  <2> QED BY <2>1, <2>2
<1>7. back[Lead + Waiting - 1] \in Node /\ back[Lead + Waiting - 1] # NoNode
  <2>1. back \in [0 .. BufferSize - 1 -> Node]
    BY DEF Inv, TypeOK
  <2>2. back[Lead + Waiting - 1] \in Node
    BY <1>5, <2>1
  <2> QED BY <2>2, BufferSizes DEF Node, NoNode
<1>8. EventRead(back[Lead + Waiting - 1]) = {data[back[Lead + Waiting - 1]]}
  BY DEF EventRead, Racy
<1>9. /\ tail' = back[Lead + Waiting - 1] /\ hand' = data[tail']
      /\ data' = [data EXCEPT ![tail'] = NoEvent] /\ cpc' = "count"
  BY <1>6, <1>7, <1>8 DEF PopTake
<1>10. Waiting' = Waiting - 1
  BY <1>1, <1>2, <1>9 DEF Waiting
<1> QED BY <1>1, <1>2, <1>3, <1>5, <1>7, <1>9, <1>10

LEMMA PopTakeInv == ASSUME Inv, Reorders = FALSE, PopTake PROVE Inv'
<1>1. BufferSize' = BufferSize /\ Lead' = Lead /\ BufferSize \in Nat /\ Lead \in {0, 1}
  BY BlocksUnchanged, BufferSizes DEF Inv, TypeOK, PopTake, Lead, producer
<1>2. /\ blocks > 0 /\ Waiting > 0 /\ Waiting = size /\ Waiting' = Waiting - 1
      /\ Lead + Waiting - 1 \in 0 .. BufferSize - 1
      /\ tail' = back[Lead + Waiting - 1] /\ tail' \in Node
      /\ hand' = data[tail']
      /\ data' = [data EXCEPT ![tail'] = NoEvent]
      /\ cpc' = "count"
  BY Taken
<1>3. TypeOK'
  <2>1. data' \in [Node -> 0 .. MaxPush] /\ hand' \in 0 .. MaxPush
    BY <1>2, BufferAssumption DEF Inv, TypeOK, NoEvent
  <2> QED BY <2>1, <1>1, <1>2 DEF Inv, TypeOK, PopTake, producer, memory
<1>4. tail' # NoNode
  BY <1>2, BufferSizes DEF Inv, TypeOK, Node, NoNode
<1>5. RingKept'
  <2>1. Ring'
    BY <1>1 DEF Inv, RingKept, Ring, PopTake, producer, memory, GetNext
  <2>2. Lead' + Waiting' = Lead + Waiting - 1
    BY <1>1, <1>2 DEF Inv, TypeOK
  <2>3. back' = back /\ size' = size /\ blocks' = blocks
    BY DEF PopTake, producer
  <2> QED BY <2>1, <2>2, <2>3, <1>1, <1>2, <1>4 DEF Inv, RingKept
<1>6. Places'
  <2>1. ppc = "count" => data'[head] = offered + 1
    <3>1. ASSUME ppc = "count" PROVE head # tail'
      <4>1. Lead = 1 /\ Lead + Waiting - 1 # 0 /\ Waiting \in Nat
        BY <3>1, <1>2 DEF Lead, Inv, TypeOK
      <4>2. 0 \in 0 .. BufferSize - 1 /\ head = back[0]
        BY <1>1, <1>2 DEF Inv, RingKept, Ring
      <4> QED BY <4>1, <4>2, <1>2 DEF Inv, RingKept, Ring
    <3>2. head \in Node
      BY <1>2 DEF Inv, TypeOK, Places
    <3> QED BY <3>1, <3>2, <1>2 DEF Inv, TypeOK, Places
  <2> QED BY <2>1, <1>1, <1>2, <1>4 DEF Inv, TypeOK, Places, PopTake, producer
<1> QED BY <1>3, <1>5, <1>6 DEF Inv

LEMMA PopCountInv == ASSUME Inv, PopCount PROVE Inv'
<1>1. /\ BufferSize' = BufferSize /\ BufferSize \in Nat
      /\ Lead' = Lead /\ Lead \in {0, 1} /\ Waiting' = Waiting
      /\ size \in Nat /\ want \in Nat /\ 1 <= want /\ want <= size /\ size <= Capacity
      /\ size' = size - 1 /\ want' = want - 1 /\ Capacity \in Nat /\ MaxPush \in Nat
      /\ tail # NoNode /\ tail' = tail
  BY BlocksUnchanged, BufferSizes, BufferAssumption
     DEF Inv, TypeOK, Places, PopCount, Lead, Waiting, producer, Capacity
<1>2. TypeOK'
  <2>1. hand' \in 0 .. MaxPush /\ last' \in 0 .. MaxPush /\ unseen' \subseteq Node
    BY <1>1 DEF Inv, TypeOK, PopCount, NoEvent
  <2> QED BY <2>1, <1>1 DEF Inv, TypeOK, PopCount, producer
<1>3. RingKept'
  <2>1. Ring'
    BY <1>1 DEF Inv, RingKept, Ring, PopCount, producer, GetNext
  <2> QED BY <2>1, <1>1 DEF Inv, RingKept, PopCount, producer
<1>4. Places'
  BY <1>1 DEF Inv, TypeOK, Places, PopCount, producer
<1> QED BY <1>2, <1>3, <1>4 DEF Inv

LEMMA StutterInv == ASSUME Inv, UNCHANGED vars PROVE Inv'
<1>1. BufferSize' = BufferSize /\ Lead' = Lead /\ Waiting' = Waiting
  BY BlocksUnchanged DEF vars, producer, consumer, Lead, Waiting
<1>2. TypeOK'
  BY <1>1 DEF Inv, TypeOK, vars, producer, consumer, memory
<1>3. RingKept'
  BY <1>1 DEF Inv, RingKept, Ring, vars, producer, consumer, GetNext
<1>4. Places'
  BY <1>1 DEF Inv, Places, vars, producer, consumer
<1> QED BY <1>2, <1>3, <1>4 DEF Inv

LEMMA InvStep == ASSUME Reorders = FALSE, Inv, [Next]_vars PROVE Inv'
<1>1. CASE Push
  BY <1>1, PushBeginInv, PushRefuseInv, PushAdvanceInv, PushGrowInv, PushStoreInv, PushCountInv
     DEF Push
<1>2. CASE Pop
  BY <1>2, PopBeginInv, PopTakeInv, PopCountInv DEF Pop
<1>3. CASE UNCHANGED vars
  BY <1>3, StutterInv
<1> QED BY <1>1, <1>2, <1>3 DEF Next

LEMMA Invariance == ASSUME Reorders = FALSE PROVE Spec => []Inv
<1>1. Init => Inv
  BY InitInv
<1>2. Inv /\ [Next]_vars => Inv'
  BY InvStep
<1> QED BY <1>1, <1>2, PTL DEF Spec

\* Every variable keeps its type, whatever the number and size of the blocks, where loads keep
\* their order: no more events are counted than the blocks hold less one, and neither thread
\* runs past them (Push, Pop, GetNext).
THEOREM BufferTypes == ASSUME Reorders = FALSE PROVE Spec => []TypeOK
<1>1. Inv => TypeOK
  BY DEF Inv
<1> QED BY <1>1, Invariance, PTL

\* However often the ring grows under the dump thread, the tail stays on it, the waiting
\* events' distance behind the head, and Push never writes the node the tail is on.
THEOREM RingCorrect == ASSUME Reorders = FALSE PROVE Spec => []RingKept
<1>1. Inv => RingKept
  BY DEF Inv
<1> QED BY <1>1, Invariance, PTL

-----------------------------------------------------------------------------
(* The steps of Push and Pop are steps of the bounded queue, or stutter.   *)

LEMMA FunctionIsSequence ==
    ASSUME NEW S, NEW n \in Nat, NEW f \in [1 .. n -> S]
    PROVE  f \in Seq(S) /\ Len(f) = n
<1>1. f \in Seq(S)
  BY SeqDef
<1> QED BY <1>1, LenProperties

\* Where the i-th oldest event is.
EventAt(i) == IF i = 1 /\ cpc = "count" THEN hand ELSE data[back[Lead + size - i]]

EventsAreQueue ==
    /\ size \in Nat /\ size <= Capacity
    /\ Events \in Seq(0 .. MaxPush) /\ Len(Events) = size
    /\ \A i \in 1 .. size : Events[i] = EventAt(i)

LEMMA EventsSequence == Inv => EventsAreQueue
<1> SUFFICES ASSUME Inv PROVE EventsAreQueue
  OBVIOUS
<1>1. /\ size \in Nat /\ size <= Capacity /\ Lead \in {0, 1} /\ BufferSize \in Nat
      /\ blocks \in Nat
  BY BufferSizes, BufferAssumption DEF Inv, TypeOK, Lead, Capacity
<1>2. ASSUME NEW i \in 1 .. size PROVE data[back[Lead + size - i]] \in 0 .. MaxPush
  <2>1. Lead + size < BufferSize
    BY <1>1, BufferSizes DEF Inv, RingKept, Places, TypeOK
  <2>2. Lead + size - i \in 0 .. BufferSize - 1
    BY <2>1, <1>1
  <2> QED BY <2>2 DEF Inv, TypeOK
<1>3. Events \in [1 .. size -> 0 .. MaxPush]
  BY <1>2 DEF Events, Inv, TypeOK
<1> QED BY <1>1, <1>3, FunctionIsSequence DEF Events, EventsAreQueue, EventAt

LEMMA EventsSequenceNext == Inv' => EventsAreQueue'
  BY EventsSequence, PTL

\* A step that leaves every event where it is in the queue leaves the queue.
LEMMA EventsKept ==
    ASSUME Inv, Inv', size' = size, \A i \in 1 .. size : EventAt(i)' = EventAt(i)
    PROVE  Events' = Events
<1>1. EventsAreQueue /\ EventsAreQueue'
  BY EventsSequence, EventsSequenceNext
<1>2. \A i \in 1 .. size : Events'[i] = Events[i]
  BY <1>1 DEF EventsAreQueue
<1> QED BY <1>1, <1>2, SeqEqual DEF EventsAreQueue

LEMMA InitRefines == ASSUME Reorders = FALSE, Init PROVE Q!Init
<1>1. EventsAreQueue
  BY InitInv, EventsSequence
<1>2. Len(Events) = 0 /\ Events \in Seq(0 .. MaxPush)
  BY <1>1 DEF EventsAreQueue, Init
<1>3. Events = << >>
  BY <1>2, EmptySeq
<1> QED BY <1>3 DEF Q!Init, Init, Answered, NoEvent

LEMMA PushBeginRefines == ASSUME Inv, Inv', PushBegin PROVE [Q!Next]_(Q!queueVars)
<1>1. Events' = Events
  <2>1. Lead' = Lead /\ UNCHANGED << size, cpc, hand, data, back >>
    BY DEF PushBegin, Lead, consumer
  <2> QED BY <2>1, EventsKept DEF EventAt
<1>2. last' = last /\ Answered = offered /\ offered' = offered
  BY DEF PushBegin, Answered, consumer
<1>3. CASE Answered' = offered
  BY <1>1, <1>2, <1>3 DEF Q!queueVars
<1>4. CASE Answered' # offered
  <2>1. Full' /\ blocks = MaxBlocks /\ sizeRead' = size /\ BufferSize' = BufferSize /\ Answered' = offered + 1
    BY <1>2, <1>4, BlocksUnchanged DEF PushBegin, Answered
  <2>2. size + 1 >= MaxBlocks * BlockSize
    BY <2>1, BufferSizes DEF Full, Inv, TypeOK
  <2>3. Len(Events) = Capacity
    <3>1. size \in Nat /\ size <= Capacity /\ Len(Events) = size
      BY EventsSequence DEF EventsAreQueue
    <3>2. MaxBlocks * BlockSize \in Nat
      BY BufferSizes DEF Inv, TypeOK
    <3> QED BY <3>1, <3>2, <2>2 DEF Capacity
  <2> QED BY <1>1, <1>2, <2>1, <2>3 DEF Q!Next, Q!Refuse
<1> QED BY <1>3, <1>4

LEMMA PushRefuseRefines == ASSUME Inv, Inv', PushRefuse PROVE [Q!Next]_(Q!queueVars)
<1>1. Events' = Events
  <2>1. Lead' = Lead /\ UNCHANGED << size, cpc, hand, data, back >>
    BY DEF PushRefuse, Lead, consumer
  <2> QED BY <2>1, EventsKept DEF EventAt
<1>2. last' = last /\ Answered' = offered + 1 /\ blocks \in 0 .. MaxBlocks
  BY DEF PushRefuse, Answered, consumer, Inv, TypeOK
<1>3. CASE MayFail
  BY <1>1, <1>2, <1>3 DEF Q!Next, Q!Refuse, Answered
<1>4. CASE ~MayFail
  <2>1. Answered = offered + 1
    BY <1>2, <1>4, BufferAssumption DEF PushRefuse, Answered
  <2> QED BY <1>1, <1>2, <2>1 DEF Q!queueVars
<1> QED BY <1>3, <1>4

LEMMA PushAdvanceRefines == ASSUME Inv, Inv', PushAdvance PROVE [Q!Next]_(Q!queueVars)
<1>1. /\ Lead = 0 /\ Lead' = 1 /\ UNCHANGED << size, cpc, hand, data, last, offered >>
      /\ size \in Nat /\ BufferSize \in Nat /\ size < BufferSize
      /\ \A j \in 1 .. BufferSize - 1 : back'[j] = back[j - 1]
  BY BufferSizes DEF PushAdvance, Lead, consumer, Inv, TypeOK, Places, RingKept, Full
<1>2. ASSUME NEW i \in 1 .. size PROVE EventAt(i)' = EventAt(i)
  <2>1. Lead' + size' - i = Lead + size - i + 1 /\ Lead + size - i + 1 \in 1 .. BufferSize - 1
    BY <1>1
  <2>2. back'[Lead' + size' - i] = back[Lead + size - i]
    BY <2>1, <1>1
  <2> QED BY <1>1, <2>2 DEF EventAt
<1>3. Events' = Events
  BY <1>1, <1>2, EventsKept
<1>4. Answered = offered /\ Answered' = offered
  BY <1>1 DEF PushAdvance, Answered
<1> QED BY <1>1, <1>3, <1>4 DEF Q!queueVars

LEMMA PushGrowRefines == ASSUME Inv, Inv', PushGrow PROVE [Q!Next]_(Q!queueVars)
<1>1. /\ Lead = 0 /\ Lead' = 1 /\ UNCHANGED << size, cpc, hand, data, last, offered >>
      /\ size \in Nat /\ BufferSize \in Nat /\ BlockSize \in Nat /\ BlockSize >= 2
      /\ size <= BufferSize
      /\ \A j \in 1 .. BufferSize : back'[j] = back[j - 1]
  <2>1. BlockSize \in Nat /\ BlockSize >= 2 /\ BufferSize \in Nat /\ blocks \in Nat
    BY BufferSizes, BufferAssumption DEF Inv, TypeOK
  <2>2. \A j \in 1 .. BufferSize : back'[j] = back[j - 1]
    BY <2>1 DEF PushGrow, BackGrown
  <2>3. size \in Nat /\ size <= BufferSize
    <3>1. size \in Nat /\ Lead \in {0, 1}
      BY DEF Inv, TypeOK, Lead
    <3> QED BY <3>1, <2>1 DEF Inv, Places, RingKept
  <2> QED BY <2>1, <2>2, <2>3 DEF PushGrow, Lead, consumer
<1>2. ASSUME NEW i \in 1 .. size PROVE EventAt(i)' = EventAt(i)
  <2>1. Lead' + size' - i = Lead + size - i + 1 /\ Lead + size - i + 1 \in 1 .. BufferSize
    BY <1>1
  <2>2. back'[Lead' + size' - i] = back[Lead + size - i]
    BY <2>1, <1>1
  <2> QED BY <1>1, <2>2 DEF EventAt
<1>3. Events' = Events
  BY <1>1, <1>2, EventsKept
<1>4. Answered = offered /\ Answered' = offered
  BY <1>1, BufferAssumption DEF PushGrow, Answered
<1> QED BY <1>1, <1>3, <1>4 DEF Q!queueVars

LEMMA PushStoreRefines == ASSUME Inv, Inv', PushStore PROVE [Q!Next]_(Q!queueVars)
<1>1. /\ Lead = 1 /\ Lead' = 1 /\ UNCHANGED << size, cpc, hand, back, last, offered, blocks >>
      /\ size \in Nat /\ BufferSize \in Nat /\ blocks > 0 /\ size + 1 < BufferSize
      /\ data' = [data EXCEPT ![head] = offered + 1]
  <2>1. Lead = 1 /\ blocks \in Nat
    BY DEF PushStore, Lead, Inv, TypeOK
  <2>2. blocks > 0
    BY <2>1 DEF Inv, Places
  <2> QED BY <2>1, <2>2, BufferSizes DEF PushStore, Lead, consumer, Inv, TypeOK, RingKept
<1>2. ASSUME NEW i \in 1 .. size PROVE EventAt(i)' = EventAt(i)
  <2>1. Lead + size - i \in 1 .. BufferSize - 1 /\ 0 \in 0 .. BufferSize - 1
    BY <1>1
  <2>2. back[Lead + size - i] # head
    BY <2>1, <1>1 DEF Inv, RingKept, Ring
  <2>3. back[Lead + size - i] \in Node
    BY <2>1, <1>1 DEF Inv, TypeOK
  <2> QED BY <1>1, <2>2, <2>3 DEF EventAt, Inv, TypeOK
<1>3. Events' = Events
  BY <1>1, <1>2, EventsKept
<1>4. Answered = offered /\ Answered' = offered
  BY <1>1 DEF PushStore, Answered
<1> QED BY <1>1, <1>3, <1>4 DEF Q!queueVars

\* SizeAdd is where the queue accepts the event.
LEMMA PushCountRefines == ASSUME Inv, Inv', PushCount PROVE Q!Accept
<1>1. /\ Lead = 1 /\ Lead' = 0 /\ size' = size + 1 /\ size \in Nat
      /\ UNCHANGED << cpc, hand, back, data, last >>
      /\ Answered = offered /\ Answered' = offered + 1 /\ offered + 1 \in 0 .. MaxPush
      /\ data[back[0]] = offered + 1
      /\ cpc = "count" => size >= 1
  <2>1. Lead = 1 /\ blocks \in Nat /\ size \in Nat
    BY DEF PushCount, Lead, Inv, TypeOK
  <2>2. blocks > 0
    BY <2>1 DEF Inv, Places
  <2>3. head = back[0] /\ data[head] = offered + 1
    BY <2>2 DEF Inv, RingKept, Ring, Places, PushCount
  <2>4. cpc = "count" => size >= 1
    BY <2>1 DEF Inv, TypeOK, Places
  <2> QED BY <2>1, <2>3, <2>4, BufferAssumption
     DEF PushCount, Lead, consumer, Answered, Inv, TypeOK, Places
<1>2. EventsAreQueue /\ EventsAreQueue'
  BY EventsSequence, EventsSequenceNext
<1>3. /\ Append(Events, offered + 1) \in Seq(0 .. MaxPush)
      /\ Len(Append(Events, offered + 1)) = size + 1
      /\ \A i \in 1 .. size : Append(Events, offered + 1)[i] = Events[i]
      /\ Append(Events, offered + 1)[size + 1] = offered + 1
  BY <1>1, <1>2, AppendProperties DEF EventsAreQueue
<1>4. ASSUME NEW i \in 1 .. size + 1 PROVE Events'[i] = Append(Events, offered + 1)[i]
  <2>1. Events'[i] = EventAt(i)'
    BY <1>1, <1>2 DEF EventsAreQueue
  <2>2. Lead' + size' - i = Lead + size - i
    BY <1>1
  <2>3. CASE i \in 1 .. size
    BY <2>1, <2>2, <2>3, <1>1, <1>2, <1>3 DEF EventsAreQueue, EventAt
  <2>4. CASE i = size + 1
    <3>1. ~(i = 1 /\ cpc = "count") /\ Lead' + size' - i = 0
      BY <2>4, <1>1
    <3>2. EventAt(i)' = data[back[0]]
      BY <3>1, <1>1 DEF EventAt
    <3>3. Append(Events, offered + 1)[i] = offered + 1
      BY <2>4, <1>3
    <3>4. data[back[0]] = offered + 1
      BY <1>1
    <3> QED BY <2>1, <3>2, <3>3, <3>4
  <2>5. size \in Nat
    BY <1>1
  <2>6. i \in 1 .. size \/ i = size + 1
    BY <2>5
  <2> QED BY <2>3, <2>4, <2>6
<1>5. Events' = Append(Events, offered + 1)
  <2>1. Events' \in Seq(0 .. MaxPush) /\ Len(Events') = size + 1
    BY <1>1, <1>2 DEF EventsAreQueue
  <2> QED BY <2>1, <1>3, <1>4, SeqEqual
<1>6. Len(Events) < Capacity
  BY <1>1, <1>2, BufferSizes, BufferAssumption DEF EventsAreQueue, Capacity, Inv, TypeOK
<1> QED BY <1>1, <1>5, <1>6 DEF Q!Accept

LEMMA PopBeginRefines == ASSUME Inv, Inv', PopBegin PROVE [Q!Next]_(Q!queueVars)
<1>1. Lead' = Lead /\ UNCHANGED << size, hand, back, data, last, ppc, offered, blocks, sizeRead >>
      /\ cpc # "count" /\ cpc' # "count"
  BY DEF PopBegin, Lead, producer
<1>2. Events' = Events
  BY <1>1, EventsKept DEF EventAt
<1>3. Answered' = Answered
  BY <1>1 DEF Answered, Full, BufferSize
<1> QED BY <1>1, <1>2, <1>3 DEF Q!queueVars

LEMMA PopTakeRefines ==
    ASSUME Inv, Inv', Reorders = FALSE, PopTake PROVE [Q!Next]_(Q!queueVars)
<1>1. /\ blocks > 0 /\ Waiting > 0 /\ Waiting = size
      /\ Lead + Waiting - 1 \in 0 .. BufferSize - 1
      /\ tail' = back[Lead + Waiting - 1] /\ tail' \in Node
      /\ hand' = data[tail']
      /\ data' = [data EXCEPT ![tail'] = NoEvent]
      /\ cpc' = "count" /\ cpc # "count"
  BY Taken DEF PopTake
<1>2. Lead' = Lead /\ UNCHANGED << size, back, last, ppc, offered, blocks, sizeRead >>
  BY DEF PopTake, Lead, producer
<1>3. size \in Nat /\ Lead \in {0, 1} /\ BufferSize \in Nat
  BY BufferSizes DEF Inv, TypeOK, Lead
<1>4. ASSUME NEW i \in 1 .. size PROVE EventAt(i)' = EventAt(i)
  <2>1. CASE i = 1
    BY <2>1, <1>1, <1>2 DEF EventAt
  <2>2. CASE i > 1
    <3>1. /\ Lead + size - i \in 0 .. BufferSize - 1 /\ Lead + size - i # Lead + Waiting - 1
      BY <2>2, <1>1, <1>3
    <3>2. back[Lead + size - i] # tail' /\ back[Lead + size - i] \in Node
      BY <3>1, <1>1 DEF Inv, TypeOK, RingKept, Ring
    <3> QED BY <2>2, <3>2, <1>1, <1>2 DEF EventAt, Inv, TypeOK
  <2> QED BY <2>1, <2>2
<1>5. Events' = Events
  BY <1>2, <1>4, EventsKept
<1>6. Answered' = Answered
  BY <1>2 DEF Answered, Full, BufferSize
<1> QED BY <1>2, <1>5, <1>6 DEF Q!queueVars

\* SizeSub is where the queue delivers the event.
LEMMA PopCountRefines == ASSUME Inv, Inv', PopCount PROVE Q!Deliver
<1>1. /\ size \in Nat /\ size >= 1 /\ size' = size - 1 /\ last' = hand
      /\ cpc = "count" /\ cpc' # "count" /\ Lead' = Lead /\ Lead \in {0, 1}
      /\ UNCHANGED << back, data, ppc, offered, blocks, sizeRead >>
  BY DEF PopCount, producer, Lead, Inv, TypeOK, Places
<1>2. EventsAreQueue /\ EventsAreQueue'
  BY EventsSequence, EventsSequenceNext
<1>3. Events # << >> /\ Head(Events) = hand
  BY <1>1, <1>2, EmptySeq DEF EventsAreQueue, EventAt
<1>4. /\ Tail(Events) \in Seq(0 .. MaxPush) /\ Len(Tail(Events)) = size - 1
      /\ \A i \in 1 .. size - 1 : Tail(Events)[i] = Events[i + 1]
  BY <1>1, <1>2, <1>3, HeadTailProperties DEF EventsAreQueue
<1>5. ASSUME NEW i \in 1 .. size - 1 PROVE Events'[i] = Tail(Events)[i]
  <2>1. Events'[i] = EventAt(i)' /\ Events[i + 1] = EventAt(i + 1)
    BY <1>1, <1>2 DEF EventsAreQueue
  <2>2. Lead' + size' - i = Lead + size - (i + 1) /\ i + 1 # 1
    BY <1>1
  <2> QED BY <2>1, <2>2, <1>1, <1>4 DEF EventAt
<1>6. Events' = Tail(Events)
  <2>1. Events' \in Seq(0 .. MaxPush) /\ Len(Events') = size - 1
    BY <1>1, <1>2 DEF EventsAreQueue
  <2> QED BY <2>1, <1>4, <1>5, SeqEqual
<1>7. Answered' = Answered
  BY <1>1 DEF Answered, Full, BufferSize
<1> QED BY <1>1, <1>3, <1>6, <1>7 DEF Q!Deliver

LEMMA StutterRefines == ASSUME UNCHANGED vars PROVE UNCHANGED Q!queueVars
<1>1. Events' = Events
  BY DEF vars, producer, consumer, Events, Lead
<1>2. Answered' = Answered
  BY DEF vars, producer, Answered, Full, BufferSize
<1> QED BY <1>1, <1>2 DEF vars, consumer, Q!queueVars

LEMMA StepRefines ==
    ASSUME Reorders = FALSE, Inv, Inv', [Next]_vars PROVE [Q!Next]_(Q!queueVars)
<1>1. CASE Push
  BY <1>1, PushBeginRefines, PushRefuseRefines, PushAdvanceRefines, PushGrowRefines,
     PushStoreRefines, PushCountRefines DEF Push, Q!Next
<1>2. CASE Pop
  BY <1>2, PopBeginRefines, PopTakeRefines, PopCountRefines DEF Pop, Q!Next
<1>3. CASE UNCHANGED vars
  BY <1>3, StutterRefines
<1> QED BY <1>1, <1>2, <1>3 DEF Next

\* The two threads, on any interleaving of their steps, implement a bounded queue: no event is
\* lost, doubled or overtaken, and none is handed back before the blocks are used up.
THEOREM BufferIsQueue == ASSUME Reorders = FALSE PROVE Spec => QueueSpec
<1>1. Init => Q!Init
  BY InitRefines
<1>2. Inv /\ Inv' /\ [Next]_vars => [Q!Next]_(Q!queueVars)
  BY StepRefines
<1>3. Spec => []Inv
  BY Invariance
<1> QED BY <1>1, <1>2, <1>3, PTL DEF Spec, QueueSpec, Q!Spec
=============================================================================
