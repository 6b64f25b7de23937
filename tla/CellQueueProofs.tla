-------------------------- MODULE CellQueueProofs --------------------------
(***************************************************************************)
(* What a fiber of the simulation keeps, its cell and the calendar queue   *)
(* of its events, for every value of the constants.                        *)
(*                                                                         *)
(* Cell: the records of the busy channels never disagree.  The list is the *)
(* difficulty: its invariant names an enumeration `walk' of the nodes from *)
(* the tail to the head, which insertion extends and removal closes up,    *)
(* and from which the recursive Walk is computed.                          *)
(*                                                                         *)
(* CalendarQueue: nothing is lost or out of order until new_width finds a  *)
(* negative width, and a resize has the room it needs.  Events are counted *)
(* by their places: a node added to a list moves those behind it, which is *)
(* a bijection of the places but the new one (OneMore).  The width stays   *)
(* positive and events come out in order as long as the scan starts at the *)
(* day of the last one, and only a direct search ends that (FirstHit).     *)
(***************************************************************************)
EXTENDS Cell, CalendarQueue, FiniteSetTheorems, SequenceTheorems, WellFoundedInduction, TLAPS

\* A set of naturals has a least element.
LEMMA Least ==
    ASSUME NEW T, T \subseteq Nat, T # {}
    PROVE  \E k \in T : \A j \in T : k <= j
<1>1. PICK k \in T : \A j \in T : <<j, k>> \notin OpToRel(<, Nat)
  BY NatLessThanWellFounded, WFMin
<1>2. \A j \in T : <<j, k>> \in Nat \X Nat
  OBVIOUS
<1>3. \A j \in T : j < k => <<j, k>> \in OpToRel(<, Nat)
  BY <1>2 DEF OpToRel
<1>4. \A j \in T : ~(j < k)
  BY <1>1, <1>3
<1> QED
  BY <1>4

-----------------------------------------------------------------------------
Busy == Channel \ Free

\* The nodes on the list are walk[1], ..., walk[m], from its tail to its head.
Chain(m, walk) ==
    /\ \A i, j \in 1..m : walk[i] = walk[j] => i = j
    /\ heap = {walk[i] : i \in 1..m}
    /\ channels = IF m = 0 THEN NULL ELSE walk[m]
    /\ \A i \in 1..m : prev[walk[i]] = IF i = 1 THEN NULL ELSE walk[i - 1]
    /\ \A i \in 1..m : next[walk[i]] = IF i = m THEN NULL ELSE walk[i + 1]

CellTypeOK ==
    /\ state \in {"none", "cell"}
    /\ ended \in {"no", "done"}
    /\ channel_state \in [Word -> SUBSET Bit]
    /\ heap \in SUBSET Node
    /\ channels \in Node \cup {NULL}
    /\ next \in [Node -> Node \cup {NULL}]
    /\ prev \in [Node -> Node \cup {NULL}]
    /\ channel_id \in [Node -> Channel \cup {-1}]

ListInv ==
    /\ IsFiniteSet(heap)
    /\ \E m \in 0..CHANNELS_PER_CELL :
         m = Cardinality(heap) /\ \E walk \in [1..m -> Node] : Chain(m, walk)

\* The events to come when the channels in B are taken.
Events(B) == {StartEvent} \cup {EndEvent(ch) : ch \in B}

BusyInv ==
    /\ state = "none" => heap = {} /\ queue = SetToBag({InitEvent})
    /\ state = "cell" =>
         /\ {channel_id[c] : c \in heap} = Busy
         /\ \A c, d \in heap : channel_id[c] = channel_id[d] => c = d
         /\ Cardinality(heap) = Cardinality(Busy)
         /\ channel_counter = CHANNELS_PER_CELL - Cardinality(Busy)
         /\ queue = SetToBag(Events(Busy))

CellInv == CellTypeOK /\ ListInv /\ BusyInv

-----------------------------------------------------------------------------
\* Events that are in the queue once leave it.
LEMMA TakeOut ==
    ASSUME NEW S, NEW T, T \subseteq S
    PROVE  SetToBag(S) (-) SetToBag(T) = SetToBag(S \ T)
<1> DEFINE B == [e \in S |-> IF e \in T THEN 1 - 1 ELSE 1]
<1>1. SetToBag(S) (-) SetToBag(T) = [e \in {d \in DOMAIN B : B[d] > 0} |-> B[e]]
  BY DEF SetToBag, (-)
<1>2. {d \in DOMAIN B : B[d] > 0} = S \ T
  OBVIOUS
<1> QED
  BY <1>1, <1>2 DEF SetToBag

\* Events that are not in the queue join it.
LEMMA PutIn ==
    ASSUME NEW S, NEW T, S \cap T = {}
    PROVE  SetToBag(S) (+) SetToBag(T) = SetToBag(S \cup T)
BY DEF SetToBag, (+)

\* What SET_CHANNEL and RESET_CHANNEL rely on: a channel has a bit of a word that INIT
\* clears, and no two channels have the same one.
LEMMA Bits ==
    /\ \A i \in Channel : /\ i \div BITS \in Word /\ i \div BITS \in ClearedWords
                          /\ i % BITS \in Bit
    /\ \A i, j \in Channel : i \div BITS = j \div BITS /\ i % BITS = j % BITS => i = j
<1> USE CellAssumption
<1>1. \A i \in Nat : i % BITS \in 0..(BITS - 1) /\ i \div BITS \in Nat
  OBVIOUS
<1>2. \A i \in Nat : i = BITS * (i \div BITS) + (i % BITS)
  OBVIOUS
<1>3. ASSUME NEW i \in Nat, NEW j \in Nat, i <= j
      PROVE  i \div BITS <= j \div BITS
  <2> DEFINE a == i \div BITS
             b == j \div BITS
  <2>1. /\ a \in Nat /\ b \in Nat
        /\ i >= BITS * a /\ j < (BITS * b) + BITS
    BY <1>1, <1>2
  <2> HIDE DEF a, b
  <2>2. BITS * a < BITS * (b + 1)
    BY <1>3, <2>1
  <2>3. a < b + 1
    BY <2>1, <2>2
  <2> QED
    BY <2>1, <2>3 DEF a, b
<1>4. \A i \in Channel : i \in Nat /\ i <= CHANNELS_PER_CELL
  BY DEF Channel
<1>5. CHANNELS_PER_CELL \div BITS \in Nat
  BY <1>1
<1>6. \A i \in Channel : i \div BITS \in 0..(CHANNELS_PER_CELL \div BITS)
  BY <1>1, <1>3, <1>4, <1>5
<1>7. 0..(CHANNELS_PER_CELL \div BITS) \subseteq Word
  BY <1>5 DEF Word
<1>8. \A i \in Channel : i % BITS \in Bit
  BY <1>1, <1>4 DEF Bit
<1>9. \A i, j \in Channel : i \div BITS = j \div BITS /\ i % BITS = j % BITS => i = j
  BY <1>2, <1>4
<1> QED
  BY <1>6, <1>7, <1>8, <1>9 DEF ClearedWords

\* A channel's bit set or reset makes that channel, and no other, busy or free.
LEMMA BitChanges ==
    ASSUME channel_state \in [Word -> SUBSET Bit], NEW i \in Channel
    PROVE  /\ SET_CHANNEL(i) => /\ channel_state' \in [Word -> SUBSET Bit]
                                /\ Busy' = Busy \cup {i}
           /\ RESET_CHANNEL(i) => /\ channel_state' \in [Word -> SUBSET Bit]
                                  /\ Busy' = Busy \ {i}
<1>1. ASSUME SET_CHANNEL(i)
      PROVE  channel_state' \in [Word -> SUBSET Bit] /\ Busy' = Busy \cup {i}
  <2>1. channel_state' = [channel_state EXCEPT ![i \div BITS] = @ \cup {i % BITS}]
    BY <1>1 DEF SET_CHANNEL
  <2>2. channel_state' \in [Word -> SUBSET Bit]
    BY <2>1, Bits
  <2>3. \A j \in Channel : j % BITS \in channel_state'[j \div BITS]
                             <=> j % BITS \in channel_state[j \div BITS] \/ j = i
    BY <2>1, Bits
  <2> QED
    BY <2>2, <2>3 DEF Busy, Free, CHECK_CHANNEL
<1>2. ASSUME RESET_CHANNEL(i)
      PROVE  channel_state' \in [Word -> SUBSET Bit] /\ Busy' = Busy \ {i}
  <2>1. channel_state' = [channel_state EXCEPT ![i \div BITS] = @ \ {i % BITS}]
    BY <1>2 DEF RESET_CHANNEL
  <2>2. channel_state' \in [Word -> SUBSET Bit]
    BY <2>1, Bits
  <2>3. \A j \in Channel : j % BITS \in channel_state'[j \div BITS]
                             <=> j % BITS \in channel_state[j \div BITS] /\ j # i
    BY <2>1, Bits
  <2> QED
    BY <2>2, <2>3 DEF Busy, Free, CHECK_CHANNEL
<1> QED
  BY <1>1, <1>2

\* The loop of deallocation along prev meets the nodes of the list from the head, each
\* once, and then NULL.
LEMMA WalkMeets ==
    ASSUME NEW m \in 0..CHANNELS_PER_CELL, NEW walk \in [1..m -> Node], Chain(m, walk)
    PROVE  Walk = [n \in 0..CHANNELS_PER_CELL |-> IF n < m THEN walk[m - n] ELSE NULL]
<1> USE CellAssumption
<1> DEFINE S == 0..CHANNELS_PER_CELL
           W == [n \in S |-> IF n < m THEN walk[m - n] ELSE NULL]
           F(w) == [n \in S |-> IF n = 0 THEN channels
                                ELSE IF w[n - 1] \in heap THEN prev[w[n - 1]] ELSE NULL]
<1>1. ASSUME NEW n \in S
      PROVE  W[n] = IF n = 0 THEN channels
                    ELSE IF W[n - 1] \in heap THEN prev[W[n - 1]] ELSE NULL
  <2>1. CASE n = 0
    BY <2>1 DEF Chain
  <2>2. CASE n # 0 /\ n - 1 < m
    <3>1. m - (n - 1) \in 1..m /\ W[n - 1] = walk[m - (n - 1)]
      BY <2>2
    <3>2. walk[m - (n - 1)] \in heap
      BY <3>1 DEF Chain
    <3>3. prev[walk[m - (n - 1)]] = IF m - (n - 1) = 1 THEN NULL ELSE walk[(m - (n - 1)) - 1]
      BY <3>1 DEF Chain
    <3>4. W[n] = IF n < m THEN walk[m - n] ELSE NULL
      OBVIOUS
    <3> QED
      BY <2>2, <3>1, <3>2, <3>3, <3>4
  <2>3. CASE n # 0 /\ ~(n - 1 < m)
    <3>1. W[n - 1] = NULL /\ W[n] = NULL
      BY <2>3
    <3>2. NULL \notin heap
      BY DEF Chain
    <3> QED
      BY <2>3, <3>1, <3>2
  <2> QED
    BY <2>1, <2>2, <2>3
<1>2. W = F(W)
  BY <1>1
<1>3. Walk = CHOOSE w : w = F(w)
  BY DEF Walk
<1>4. Walk = F(Walk)
  <2> HIDE DEF W, F
  <2> QED
    BY <1>2, <1>3
<1>5. \A n \in S : Walk[n] = IF n = 0 THEN channels
                             ELSE IF Walk[n - 1] \in heap THEN prev[Walk[n - 1]] ELSE NULL
  BY <1>4
<1> DEFINE Bad == {n \in S : Walk[n] # W[n]}
<1>6. Bad = {}
  <2>1. SUFFICES ASSUME Bad # {} PROVE FALSE
    OBVIOUS
  <2>2. Bad \subseteq Nat
    OBVIOUS
  <2>3. PICK k \in Bad : \A j \in Bad : k <= j
    <3> HIDE DEF Bad
    <3> QED
      BY <2>1, <2>2, Least
  <2>4. k \in S /\ Walk[k] # W[k]
    OBVIOUS
  <2>5. k # 0 => k - 1 \in S /\ ~(k <= k - 1)
    BY <2>4
  <2> HIDE DEF W
  <2>6. k # 0 => k - 1 \notin Bad
    BY <2>3, <2>5
  <2>7. k # 0 => Walk[k - 1] = W[k - 1]
    BY <2>5, <2>6
  <2> QED
    BY <1>1, <1>5, <2>4, <2>5, <2>7
<1>7. \A n \in S : Walk[n] = W[n]
  BY <1>6
<1>8. Walk = [n \in S |-> Walk[n]]
  BY <1>4
<1> QED
  BY <1>7, <1>8

\* The nodes met are the allocated ones, and a channel's node is found wherever it is.
LEMMA WalkFinds ==
    ASSUME CellTypeOK, ListInv
    PROVE  /\ OnList = heap
           /\ (\A c, d \in heap : channel_id[c] = channel_id[d] => c = d) =>
                \A c \in Node, ch \in Channel : Found(c, ch) <=> c \in heap /\ channel_id[c] = ch
<1> USE CellAssumption
<1>1. PICK m \in 0..CHANNELS_PER_CELL : \E walk \in [1..m -> Node] : Chain(m, walk)
  BY DEF ListInv
<1>2. PICK walk \in [1..m -> Node] : Chain(m, walk)
  BY <1>1
<1>3. Walk = [n \in 0..CHANNELS_PER_CELL |-> IF n < m THEN walk[m - n] ELSE NULL]
  BY <1>2, WalkMeets
<1>4. \A n \in 0..CHANNELS_PER_CELL : /\ n < m => Walk[n] = walk[m - n] /\ m - n \in 1..m
                                      /\ n >= m => Walk[n] = NULL
  BY <1>3
<1>5. DOMAIN Walk = 0..CHANNELS_PER_CELL
  BY <1>3
<1>6. \A i \in 1..m : m - i \in 0..CHANNELS_PER_CELL /\ Walk[m - i] = walk[i]
  BY <1>3
<1>7. heap = {walk[i] : i \in 1..m} /\ \A i, j \in 1..m : walk[i] = walk[j] => i = j
  BY <1>2 DEF Chain
<1>8. NULL \notin heap /\ heap \subseteq Node
  BY DEF CellTypeOK
<1>9. OnList = heap
  <2>1. \A c \in OnList : c \in heap
    BY <1>4, <1>5, <1>7 DEF OnList
  <2>2. \A c \in heap : c \in OnList
    BY <1>5, <1>6, <1>7, <1>8 DEF OnList
  <2> QED
    BY <2>1, <2>2
<1>10. ASSUME \A c, d \in heap : channel_id[c] = channel_id[d] => c = d,
              NEW c \in Node, NEW ch \in Channel
       PROVE  Found(c, ch) <=> c \in heap /\ channel_id[c] = ch
  <2>1. ASSUME Found(c, ch) PROVE c \in heap /\ channel_id[c] = ch
    BY <1>4, <1>5, <1>7, <2>1 DEF Found
  <2>2. ASSUME c \in heap, channel_id[c] = ch PROVE Found(c, ch)
    <3>1. PICK i \in 1..m : c = walk[i]
      BY <1>7, <2>2
    <3>2. m - i \in DOMAIN Walk /\ Walk[m - i] = c
      BY <1>5, <1>6, <3>1
    <3>3. ASSUME NEW n \in DOMAIN Walk, n < m - i PROVE channel_id[Walk[n]] # ch
      <4>1. n < m /\ Walk[n] = walk[m - n] /\ m - n \in 1..m /\ m - n # i
        BY <1>4, <1>5, <3>3
      <4>2. Walk[n] \in heap /\ Walk[n] # c
        BY <1>7, <3>1, <4>1
      <4> QED
        BY <1>10, <2>2, <4>2
    <3> QED
      BY <1>8, <2>2, <3>2, <3>3 DEF Found
  <2> QED
    BY <2>1, <2>2
<1> QED
  BY <1>9, <1>10

-----------------------------------------------------------------------------
\* A list's nodes are no more than there are channels.
LEMMA HeapSize ==
    ASSUME NEW S \in SUBSET Node
    PROVE  IsFiniteSet(S) /\ Cardinality(S) \in 0..CHANNELS_PER_CELL
<1> USE CellAssumption
<1>1. IsFiniteSet(Node) /\ Cardinality(Node) = CHANNELS_PER_CELL
  BY FS_Interval DEF Node
<1>2. IsFiniteSet(S) /\ Cardinality(S) <= Cardinality(Node)
  BY <1>1, FS_Subset
<1>3. Cardinality(S) \in Nat
  BY <1>2, FS_CardinalityType
<1> QED
  BY <1>1, <1>2, <1>3

\* allocation's insertion at the head extends the list by one node.
LEMMA PushKeepsList ==
    ASSUME CellTypeOK, ListInv, NEW c \in Node \ heap, NEW i \in Channel, PushChannel(c, i)
    PROVE  /\ ListInv'
           /\ heap' = heap \cup {c} /\ heap' \in SUBSET Node
           /\ Cardinality(heap') = Cardinality(heap) + 1
           /\ channels' \in Node \cup {NULL}
           /\ next' \in [Node -> Node \cup {NULL}]
           /\ prev' \in [Node -> Node \cup {NULL}]
           /\ channel_id' \in [Node -> Channel \cup {-1}]
<1> USE CellAssumption
<1>1. PICK m \in 0..CHANNELS_PER_CELL :
        m = Cardinality(heap) /\ \E walk \in [1..m -> Node] : Chain(m, walk)
  BY DEF ListInv
<1>2. PICK walk \in [1..m -> Node] : Chain(m, walk)
  BY <1>1
<1> DEFINE longer == [k \in 1..(m + 1) |-> IF k = m + 1 THEN c ELSE walk[k]]
<1>3. /\ heap' = heap \cup {c}
      /\ prev' = [prev EXCEPT ![c] = channels]
      /\ next' = [d \in Node |-> IF d = c THEN NULL ELSE IF d = channels THEN c ELSE next[d]]
      /\ channels' = c
      /\ channel_id' = [channel_id EXCEPT ![c] = i]
  BY DEF PushChannel
<1>4. heap' \in SUBSET Node /\ IsFiniteSet(heap')
  BY <1>3, HeapSize DEF CellTypeOK
<1>5. Cardinality(heap') = Cardinality(heap) + 1
  BY <1>3, HeapSize, FS_AddElement DEF CellTypeOK
<1>6. m + 1 \in 0..CHANNELS_PER_CELL /\ m + 1 = Cardinality(heap')
  BY <1>1, <1>4, <1>5, HeapSize
<1>7. longer \in [1..(m + 1) -> Node]
  OBVIOUS
<1>8. /\ \A k \in 1..m : k \in 1..(m + 1) /\ longer[k] = walk[k]
                         /\ walk[k] \in heap /\ walk[k] # c
      /\ m + 1 \in 1..(m + 1) /\ longer[m + 1] = c
      /\ \A k \in 1..(m + 1) : k # m + 1 => k \in 1..m
  BY <1>2 DEF Chain
<1> HIDE DEF longer
<1>9. Chain(m + 1, longer)'
  <2>1. \A k, l \in 1..(m + 1) : longer[k] = longer[l] => k = l
    BY <1>2, <1>8 DEF Chain
  <2>2. heap' = {longer[k] : k \in 1..(m + 1)}
    <3>1. heap = {walk[k] : k \in 1..m}
      BY <1>2 DEF Chain
    <3>2. \A x \in heap' : \E k \in 1..(m + 1) : x = longer[k]
      BY <1>3, <1>8, <3>1
    <3>3. \A k \in 1..(m + 1) : longer[k] \in heap'
      BY <1>3, <1>8
    <3> QED
      BY <3>2, <3>3
  <2>3. channels' = IF m + 1 = 0 THEN NULL ELSE longer[m + 1]
    BY <1>3, <1>8
  <2>4. ASSUME NEW k \in 1..(m + 1)
        PROVE  prev'[longer[k]] = IF k = 1 THEN NULL ELSE longer[k - 1]
    <3>1. CASE k = m + 1
      <4>1. prev'[longer[k]] = channels
        BY <1>3, <1>8, <3>1 DEF CellTypeOK
      <4>2. channels = IF m = 0 THEN NULL ELSE walk[m]
        BY <1>2 DEF Chain
      <4>3. m # 0 => longer[m] = walk[m]
        BY <1>8
      <4> QED
        BY <3>1, <4>1, <4>2, <4>3
    <3>2. CASE k # m + 1
      <4>1. k \in 1..m /\ longer[k] = walk[k] /\ walk[k] # c /\ walk[k] \in Node
        BY <1>8, <3>2
      <4>2. prev'[walk[k]] = prev[walk[k]]
        BY <1>3, <4>1 DEF CellTypeOK
      <4>3. prev[walk[k]] = IF k = 1 THEN NULL ELSE walk[k - 1]
        BY <1>2, <4>1 DEF Chain
      <4>4. k # 1 => longer[k - 1] = walk[k - 1]
        BY <1>8, <4>1
      <4> QED
        BY <4>1, <4>2, <4>3, <4>4
    <3> QED
      BY <3>1, <3>2
  <2>5. ASSUME NEW k \in 1..(m + 1)
        PROVE  next'[longer[k]] = IF k = m + 1 THEN NULL ELSE longer[k + 1]
    <3>1. CASE k = m + 1
      BY <1>3, <1>8, <3>1
    <3>2. CASE k # m + 1
      <4>1. k \in 1..m /\ longer[k] = walk[k] /\ walk[k] # c /\ walk[k] \in Node
        BY <1>8, <3>2
      <4>2. next'[walk[k]] = IF walk[k] = channels THEN c ELSE next[walk[k]]
        BY <1>3, <4>1
      <4>3. next[walk[k]] = IF k = m THEN NULL ELSE walk[k + 1]
        BY <1>2, <4>1 DEF Chain
      <4>4. m \in 1..m /\ channels = walk[m]
        BY <1>2, <4>1 DEF Chain
      <4>5. walk[k] = channels <=> k = m
        BY <1>2, <4>1, <4>4 DEF Chain
      <4>6. k # m => k + 1 \in 1..m /\ longer[k + 1] = walk[k + 1]
        BY <1>8, <4>1
      <4> QED
        BY <1>8, <3>2, <4>1, <4>2, <4>3, <4>5, <4>6
    <3> QED
      BY <3>1, <3>2
  <2> QED
    BY <2>1, <2>2, <2>3, <2>4, <2>5 DEF Chain
<1>10. ListInv'
  BY <1>4, <1>6, <1>7, <1>9 DEF ListInv
<1> QED
  BY <1>3, <1>4, <1>5, <1>10 DEF CellTypeOK

\* deallocation's removal closes up the list around the node, wherever it was.
LEMMA UnlinkKeepsList ==
    ASSUME CellTypeOK, ListInv, NEW c \in heap, Unlink(c)
    PROVE  /\ ListInv'
           /\ heap' = heap \ {c} /\ heap' \in SUBSET Node
           /\ Cardinality(heap') = Cardinality(heap) - 1
           /\ channels' \in Node \cup {NULL}
           /\ next' \in [Node -> Node \cup {NULL}]
           /\ prev' \in [Node -> Node \cup {NULL}]
           /\ UNCHANGED channel_id
<1> USE CellAssumption
<1>1. PICK m \in 0..CHANNELS_PER_CELL :
        m = Cardinality(heap) /\ \E walk \in [1..m -> Node] : Chain(m, walk)
  BY DEF ListInv
<1>2. PICK walk \in [1..m -> Node] : Chain(m, walk)
  BY <1>1
<1>3. PICK k \in 1..m : c = walk[k]
  BY <1>2 DEF Chain
<1>4. /\ c \in Node
      /\ m \in 1..m
      /\ channels = walk[m]
      /\ prev[c] = IF k = 1 THEN NULL ELSE walk[k - 1]
      /\ next[c] = IF k = m THEN NULL ELSE walk[k + 1]
      /\ c = channels <=> k = m
      /\ \A i, j \in 1..m : walk[i] = walk[j] => i = j
      /\ \A i \in 1..m : walk[i] \in heap /\ walk[i] \in Node /\ walk[i] # NULL
  BY <1>2, <1>3 DEF Chain
<1>5. /\ heap' = heap \ {c}
      /\ channels' = IF c = channels THEN prev[c] ELSE channels
      /\ next' = [d \in Node |-> IF d # prev[c] THEN next[d]
                                 ELSE IF c = channels THEN NULL ELSE next[c]]
      /\ prev' = [d \in Node |-> IF d = next[c] /\ c # channels THEN prev[c] ELSE prev[d]]
      /\ UNCHANGED channel_id
  BY DEF Unlink, UnlinkPrev
<1>6. heap' \in SUBSET Node /\ IsFiniteSet(heap')
  BY <1>5, HeapSize DEF CellTypeOK
<1>7. Cardinality(heap') = Cardinality(heap) - 1
  BY <1>5, HeapSize, FS_RemoveElement DEF CellTypeOK
<1>8. m - 1 \in 0..CHANNELS_PER_CELL /\ m - 1 = Cardinality(heap')
  BY <1>1, <1>4, <1>7
<1> DEFINE shorter == [j \in 1..(m - 1) |-> IF j < k THEN walk[j] ELSE walk[j + 1]]
<1>9. \A j \in 1..(m - 1) : /\ shorter[j] = IF j < k THEN walk[j] ELSE walk[j + 1]
                            /\ j \in 1..m /\ j + 1 \in 1..m
  OBVIOUS
<1>10. shorter \in [1..(m - 1) -> Node]
  BY <1>4, <1>9
<1> HIDE DEF shorter
<1>11. Chain(m - 1, shorter)'
  <2>1. \A i, j \in 1..(m - 1) : shorter[i] = shorter[j] => i = j
    BY <1>4, <1>9
  <2>2. heap' = {shorter[j] : j \in 1..(m - 1)}
    <3>1. heap = {walk[j] : j \in 1..m}
      BY <1>2 DEF Chain
    <3>2. ASSUME NEW x \in heap' PROVE \E j \in 1..(m - 1) : x = shorter[j]
      <4>1. PICK j \in 1..m : x = walk[j] /\ j # k
        BY <1>3, <1>5, <3>1
      <4>2. CASE j < k
        BY <1>9, <4>1, <4>2
      <4>3. CASE j > k
        <5>1. j - 1 \in 1..(m - 1) /\ ~(j - 1 < k) /\ (j - 1) + 1 = j
          BY <4>3
        <5> QED
          BY <1>9, <4>1, <5>1
      <4> QED
        BY <4>1, <4>2, <4>3
    <3>3. ASSUME NEW j \in 1..(m - 1) PROVE shorter[j] \in heap'
      BY <1>3, <1>4, <1>5, <1>9
    <3> QED
      BY <3>2, <3>3
  <2>3. channels' = IF m - 1 = 0 THEN NULL ELSE shorter[m - 1]
    <3>1. CASE k = m
      BY <1>4, <1>5, <1>9, <3>1
    <3>2. CASE k # m
      <4>1. m - 1 \in 1..(m - 1) /\ ~(m - 1 < k) /\ (m - 1) + 1 = m
        BY <3>2
      <4> QED
        BY <1>4, <1>5, <1>9, <3>2, <4>1
    <3> QED
      BY <3>1, <3>2
  <2>4. ASSUME NEW j \in 1..(m - 1)
        PROVE  prev'[shorter[j]] = IF j = 1 THEN NULL ELSE shorter[j - 1]
    <3>1. \A i \in 1..m : prev[walk[i]] = IF i = 1 THEN NULL ELSE walk[i - 1]
      BY <1>2 DEF Chain
    <3>2. j # 1 => shorter[j - 1] = IF j - 1 < k THEN walk[j - 1] ELSE walk[(j - 1) + 1]
      BY <1>9
    <3>3. CASE j < k
      <4>1. k # m => walk[j] # next[c]
        BY <1>4, <1>9, <3>3
      <4>2. prev'[walk[j]] = prev[walk[j]]
        BY <1>4, <1>5, <1>9, <4>1
      <4> QED
        BY <1>9, <3>1, <3>2, <3>3, <4>2
    <3>4. CASE j = k
      <4>1. k # m /\ next[c] = walk[j + 1] /\ c # channels
        BY <1>4, <3>4
      <4>2. prev'[walk[j + 1]] = prev[c]
        BY <1>4, <1>5, <1>9, <4>1
      <4> QED
        BY <1>4, <1>9, <3>2, <3>4, <4>2
    <3>5. CASE j > k
      <4>1. walk[j + 1] # next[c]
        BY <1>4, <1>9, <3>5
      <4>2. prev'[walk[j + 1]] = prev[walk[j + 1]]
        BY <1>4, <1>5, <1>9, <4>1
      <4>3. prev[walk[j + 1]] = walk[j]
        <5>1. j + 1 \in 1..m /\ j + 1 # 1 /\ (j + 1) - 1 = j
          OBVIOUS
        <5> QED
          BY <3>1, <5>1
      <4>4. j # 1 /\ shorter[j - 1] = walk[j]
        BY <3>2, <3>5
      <4>5. shorter[j] = walk[j + 1]
        BY <1>9, <3>5
      <4> QED
        BY <4>2, <4>3, <4>4, <4>5
    <3> QED
      BY <3>3, <3>4, <3>5
  <2>5. ASSUME NEW j \in 1..(m - 1)
        PROVE  next'[shorter[j]] = IF j = m - 1 THEN NULL ELSE shorter[j + 1]
    <3>1. \A i \in 1..m : next[walk[i]] = IF i = m THEN NULL ELSE walk[i + 1]
      BY <1>2 DEF Chain
    <3>2. j # m - 1 => /\ shorter[j + 1] = IF j + 1 < k THEN walk[j + 1] ELSE walk[(j + 1) + 1]
                       /\ j + 1 \in 1..(m - 1)
      BY <1>9
    <3>3. CASE j < k - 1
      <4>1. walk[j] # prev[c]
        BY <1>4, <1>9, <3>3
      <4>2. next'[walk[j]] = next[walk[j]]
        BY <1>4, <1>5, <1>9, <4>1
      <4>3. j # m - 1 /\ j + 1 < k
        BY <3>3
      <4> QED
        BY <1>9, <3>1, <3>2, <3>3, <4>2, <4>3
    <3>4. CASE j = k - 1
      <4>1. walk[j] = prev[c] /\ shorter[j] = walk[j]
        BY <1>4, <1>9, <3>4
      <4>2. next'[walk[j]] = IF k = m THEN NULL ELSE walk[k + 1]
        BY <1>4, <1>5, <1>9, <4>1
      <4>3. j # m - 1 => shorter[j + 1] = walk[k + 1]
        BY <3>2, <3>4
      <4> QED
        BY <3>4, <4>1, <4>2, <4>3
    <3>5. CASE j > k - 1
      <4>1. shorter[j] = walk[j + 1] /\ walk[j + 1] # prev[c]
        BY <1>4, <1>9, <3>5
      <4>2. next'[walk[j + 1]] = next[walk[j + 1]]
        BY <1>4, <1>5, <1>9, <4>1
      <4>3. next[walk[j + 1]] = IF j + 1 = m THEN NULL ELSE walk[(j + 1) + 1]
        BY <1>9, <3>1
      <4>4. j # m - 1 => shorter[j + 1] = walk[(j + 1) + 1]
        BY <3>2, <3>5
      <4> QED
        BY <4>1, <4>2, <4>3, <4>4
    <3> QED
      BY <3>3, <3>4, <3>5
  <2> QED
    BY <2>1, <2>2, <2>3, <2>4, <2>5 DEF Chain
<1>12. ListInv'
  BY <1>6, <1>8, <1>10, <1>11 DEF ListInv
<1> QED
  BY <1>4, <1>5, <1>6, <1>7, <1>12 DEF CellTypeOK

\* A step that leaves the pointers alone leaves the list as it is.
LEMMA ListStays ==
    ASSUME ListInv, UNCHANGED <<channels, next, prev, heap>>
    PROVE  ListInv'
<1>1. ASSUME NEW m, NEW walk, Chain(m, walk) PROVE Chain(m, walk)'
  BY <1>1 DEF Chain
<1> QED
  BY <1>1 DEF ListInv

\* A step that leaves all of the state alone keeps the invariant.
LEMMA Stutter ==
    ASSUME CellInv, UNCHANGED <<listVars, queue, state, channel_counter, ended>>
    PROVE  CellInv'
<1>1. ListInv'
  BY ListStays DEF CellInv, listVars
<1>2. CellTypeOK'
  BY DEF CellInv, CellTypeOK, listVars
<1>3. Busy' = Busy
  BY DEF Busy, Free, CHECK_CHANNEL, listVars
<1>4. BusyInv'
  BY <1>3 DEF CellInv, BusyInv, Events, listVars
<1> QED
  BY <1>1, <1>2, <1>4 DEF CellInv

-----------------------------------------------------------------------------
\* Events are told apart by their type and, at the end of a call, by the channel.
LEMMA EventsDiffer ==
    /\ InitEvent # StartEvent
    /\ \A ch : EndEvent(ch) # StartEvent /\ EndEvent(ch) # InitEvent
    /\ \A ch, k : EndEvent(ch) = EndEvent(k) => ch = k
    /\ \A ch, B : EndEvent(ch) \in Events(B) <=> ch \in B
    /\ \A B : StartEvent \in Events(B) /\ InitEvent \notin Events(B)
    /\ \A S : DOMAIN SetToBag(S) = S
<1>1. /\ InitEvent # StartEvent
      /\ \A ch : EndEvent(ch) # StartEvent /\ EndEvent(ch) # InitEvent
  BY DEF InitEvent, StartEvent, EndEvent
<1>2. \A ch, k : EndEvent(ch) = EndEvent(k) => ch = k
  BY DEF EndEvent
<1>3. \A S : DOMAIN SetToBag(S) = S
  BY DEF SetToBag
<1> QED
  BY <1>1, <1>2, <1>3 DEF Events

\* The number of busy channels, and what one more or less makes of it.
LEMMA BusySize ==
    /\ IsFiniteSet(Busy) /\ Cardinality(Busy) \in 0..CHANNELS_PER_CELL
    /\ Cardinality(Busy) # CHANNELS_PER_CELL => Free # {}
    /\ \A i : i \notin Busy => Cardinality(Busy \cup {i}) = Cardinality(Busy) + 1
    /\ \A i : i \in Busy => Cardinality(Busy \ {i}) = Cardinality(Busy) - 1
<1> USE CellAssumption
<1>1. IsFiniteSet(Channel) /\ Cardinality(Channel) = CHANNELS_PER_CELL
  BY FS_Interval DEF Channel
<1>2. Busy \in SUBSET Channel
  BY DEF Busy
<1>3. IsFiniteSet(Busy) /\ Cardinality(Busy) <= CHANNELS_PER_CELL
  BY <1>1, <1>2, FS_Subset
<1>4. Cardinality(Busy) \in Nat
  BY <1>3, FS_CardinalityType
<1>5. Free = {} => Busy = Channel
  BY DEF Busy
<1> QED
  BY <1>1, <1>3, <1>4, <1>5, FS_AddElement, FS_RemoveElement

\* INIT leaves every channel free and schedules the first call.
LEMMA InitStep ==
    ASSUME CellInv, ProcessInit
    PROVE  CellInv'
<1> USE CellAssumption
<1>1. state = "none"
  BY EventsDiffer DEF CellInv, CellTypeOK, BusyInv, ProcessInit
<1>2. heap = {} /\ queue = SetToBag({InitEvent})
  BY <1>1 DEF CellInv, BusyInv
<1>3. /\ state' = "cell"
      /\ channel_counter' = CHANNELS_PER_CELL
      /\ channel_state' = [w \in Word |-> IF w \in ClearedWords THEN {} ELSE channel_state[w]]
      /\ queue' = (queue (-) SetToBag({InitEvent})) (+) SetToBag({StartEvent})
      /\ UNCHANGED <<channels, next, prev, channel_id, heap, ended>>
  BY DEF ProcessInit
<1>4. channel_state' \in [Word -> SUBSET Bit]
  BY <1>3 DEF CellInv, CellTypeOK
<1>5. Busy' = {}
  <2>1. \A i \in Channel : channel_state'[i \div BITS] = {}
    BY <1>3, Bits
  <2> QED
    BY <2>1 DEF Busy, Free, CHECK_CHANNEL
<1>6. queue' = SetToBag({StartEvent})
  <2>1. queue (-) SetToBag({InitEvent}) = SetToBag({})
    BY <1>2, TakeOut
  <2>2. SetToBag({}) (+) SetToBag({StartEvent}) = SetToBag({StartEvent})
    BY PutIn
  <2> QED
    BY <1>3, <2>1, <2>2
<1>7. CellTypeOK'
  BY <1>3, <1>4 DEF CellInv, CellTypeOK
<1>8. ListInv'
  BY <1>3, ListStays DEF CellInv
<1>9. Events(Busy)' = {StartEvent}
  BY <1>5 DEF Events
<1>10. Cardinality(Busy') = 0 /\ Cardinality(heap') = 0
  BY <1>2, <1>3, <1>5, FS_EmptySet
<1>11. BusyInv'
  BY <1>2, <1>3, <1>5, <1>6, <1>9, <1>10 DEF BusyInv
<1> QED
  BY <1>7, <1>8, <1>11 DEF CellInv

\* A call that arrives is blocked or finds the channel the counter promises it.
LEMMA StartStep ==
    ASSUME CellInv, StartCall
    PROVE  CellInv'
<1> USE CellAssumption
<1>1. state = "cell" /\ UNCHANGED state
  BY EventsDiffer DEF CellInv, CellTypeOK, BusyInv, StartCall
<1>2. /\ {channel_id[c] : c \in heap} = Busy
      /\ \A c, d \in heap : channel_id[c] = channel_id[d] => c = d
      /\ Cardinality(heap) = Cardinality(Busy)
      /\ channel_counter = CHANNELS_PER_CELL - Cardinality(Busy)
      /\ queue = SetToBag(Events(Busy))
  BY <1>1 DEF CellInv, BusyInv
<1> DEFINE rest == Events(Busy) \ {StartEvent}
<1>3. queue (-) SetToBag({StartEvent}) = SetToBag(rest)
  BY <1>2, EventsDiffer, TakeOut
<1>4. CASE /\ channel_counter = 0
           /\ queue' = AfterBlocked
           /\ UNCHANGED <<channel_counter, listVars, ended>>
  <2>1. queue' = SetToBag(rest) (+) SetToBag({StartEvent})
    BY <1>3, <1>4 DEF AfterBlocked
  <2>2. rest \cap {StartEvent} = {} /\ rest \cup {StartEvent} = Events(Busy)
    BY EventsDiffer
  <2>3. queue' = queue
    BY <1>2, <2>1, <2>2, PutIn
  <2>4. UNCHANGED <<listVars, queue, state, channel_counter, ended>>
    BY <1>1, <1>4, <2>3
  <2> QED
    BY <2>4, Stutter
<1>5. CASE channel_counter # 0 /\ channel_counter' = channel_counter - 1 /\ Admit
  <2>1. Free # {}
    BY <1>2, <1>5, BusySize
  <2>2. PICK i \in Free :
          /\ allocation(i)
          /\ queue' = (queue (-) SetToBag({StartEvent})) (+) SetToBag({EndEvent(i), StartEvent})
          /\ UNCHANGED ended
    BY <1>5, <2>1 DEF Admit
  <2>3. i \in Channel /\ i \notin Busy
    BY DEF Busy, Free
  <2>4. PICK c \in Node \ heap : PushChannel(c, i)
    BY <2>2 DEF allocation
  <2>5. channel_state' \in [Word -> SUBSET Bit] /\ Busy' = Busy \cup {i}
    BY <2>2, <2>3, BitChanges DEF allocation, CellInv, CellTypeOK
  <2>6. CellTypeOK /\ ListInv
    BY DEF CellInv
  <2>7. /\ ListInv'
        /\ heap' = heap \cup {c} /\ heap' \in SUBSET Node
        /\ Cardinality(heap') = Cardinality(heap) + 1
        /\ channels' \in Node \cup {NULL}
        /\ next' \in [Node -> Node \cup {NULL}]
        /\ prev' \in [Node -> Node \cup {NULL}]
        /\ channel_id' \in [Node -> Channel \cup {-1}]
    BY <2>3, <2>4, <2>6, PushKeepsList
  <2>8. CellTypeOK'
    BY <1>1, <2>2, <2>5, <2>6, <2>7 DEF CellTypeOK
  <2>9. queue' = SetToBag(Events(Busy'))
    <3>1. rest \cap {EndEvent(i), StartEvent} = {}
      BY <2>3, EventsDiffer
    <3>2. rest \cup {EndEvent(i), StartEvent} = Events(Busy \cup {i})
      BY DEF Events
    <3>3. SetToBag(rest) (+) SetToBag({EndEvent(i), StartEvent})
            = SetToBag(rest \cup {EndEvent(i), StartEvent})
      BY <3>1, PutIn
    <3> QED
      BY <1>3, <2>2, <2>5, <3>2, <3>3
  <2>10. channel_id' = [channel_id EXCEPT ![c] = i]
    BY <2>4 DEF PushChannel
  <2>11. /\ \A d \in heap : d \in Node /\ d # c /\ channel_id'[d] = channel_id[d]
                            /\ channel_id[d] \in Busy
         /\ channel_id'[c] = i
    BY <1>2, <2>6, <2>10 DEF CellTypeOK
  <2>12. {channel_id'[d] : d \in heap'} = Busy'
    <3>1. \A d \in heap' : channel_id'[d] \in Busy'
      BY <2>5, <2>7, <2>11
    <3>2. \A b \in Busy' : \E d \in heap' : b = channel_id'[d]
      BY <1>2, <2>5, <2>7, <2>11
    <3> QED
      BY <3>1, <3>2
  <2>13. \A d, e \in heap' : channel_id'[d] = channel_id'[e] => d = e
    BY <1>2, <2>3, <2>7, <2>11
  <2>14. /\ Cardinality(Busy') = Cardinality(Busy) + 1
         /\ channel_counter' = CHANNELS_PER_CELL - Cardinality(Busy')
    BY <1>2, <1>5, <2>3, <2>5, BusySize
  <2>15. BusyInv'
    BY <1>1, <1>2, <2>7, <2>9, <2>12, <2>13, <2>14 DEF BusyInv
  <2> QED
    BY <2>7, <2>8, <2>15 DEF CellInv
<1> QED
  BY <1>4, <1>5 DEF StartCall

\* A call that ends finds its channel, and gives it back.
LEMMA EndStep ==
    ASSUME CellInv, NEW ch \in Channel, EndCall(ch)
    PROVE  CellInv'
<1> USE CellAssumption
<1>1. state = "cell" /\ UNCHANGED state
  <2>1. EndEvent(ch) \in DOMAIN queue /\ UNCHANGED state
    BY DEF EndCall
  <2>2. EndEvent(ch) \notin {InitEvent}
    BY EventsDiffer
  <2>3. DOMAIN SetToBag({InitEvent}) = {InitEvent}
    BY EventsDiffer
  <2> QED
    BY <2>1, <2>2, <2>3 DEF CellInv, CellTypeOK, BusyInv
<1>2. /\ {channel_id[c] : c \in heap} = Busy
      /\ \A c, d \in heap : channel_id[c] = channel_id[d] => c = d
      /\ Cardinality(heap) = Cardinality(Busy)
      /\ channel_counter = CHANNELS_PER_CELL - Cardinality(Busy)
      /\ queue = SetToBag(Events(Busy))
  BY <1>1 DEF CellInv, BusyInv
<1>3. ch \in Busy
  <2>1. EndEvent(ch) \in DOMAIN queue
    BY DEF EndCall
  <2>2. DOMAIN queue = Events(Busy)
    BY <1>2, EventsDiffer
  <2> QED
    BY <2>1, <2>2, EventsDiffer
<1>4. CellTypeOK /\ ListInv
  BY DEF CellInv
<1>5. \A c \in Node : Found(c, ch) <=> c \in heap /\ channel_id[c] = ch
  BY <1>2, <1>4, WalkFinds
<1>6. \E c \in Node : Found(c, ch)
  BY <1>2, <1>3, <1>4, <1>5 DEF CellTypeOK
<1>7. PICK c \in Node : Found(c, ch) /\ Unlink(c) /\ RESET_CHANNEL(ch)
  BY <1>6 DEF EndCall, deallocation
<1>8. c \in heap /\ channel_id[c] = ch
  BY <1>5, <1>7
<1>9. channel_state' \in [Word -> SUBSET Bit] /\ Busy' = Busy \ {ch}
  BY <1>4, <1>7, BitChanges DEF CellTypeOK
<1>10. /\ ListInv'
       /\ heap' = heap \ {c} /\ heap' \in SUBSET Node
       /\ Cardinality(heap') = Cardinality(heap) - 1
       /\ channels' \in Node \cup {NULL}
       /\ next' \in [Node -> Node \cup {NULL}]
       /\ prev' \in [Node -> Node \cup {NULL}]
       /\ UNCHANGED channel_id
  BY <1>4, <1>7, <1>8, UnlinkKeepsList
<1>11. ended' \in {"no", "done"}
  BY <1>4, <1>6 DEF EndCall, CellTypeOK
<1>12. CellTypeOK'
  BY <1>1, <1>4, <1>9, <1>10, <1>11 DEF CellTypeOK
<1>13. queue' = SetToBag(Events(Busy'))
  <2>1. queue' = SetToBag(Events(Busy) \ {EndEvent(ch)})
    BY <1>2, <1>3, EventsDiffer, TakeOut DEF EndCall
  <2>2. Events(Busy) \ {EndEvent(ch)} = Events(Busy \ {ch})
    BY EventsDiffer DEF Events
  <2> QED
    BY <1>9, <2>1, <2>2
<1>14. {channel_id'[d] : d \in heap'} = Busy'
  <2>1. \A d \in heap' : channel_id'[d] \in Busy'
    BY <1>2, <1>8, <1>9, <1>10
  <2>2. \A b \in Busy' : \E d \in heap' : b = channel_id'[d]
    BY <1>2, <1>8, <1>9, <1>10
  <2> QED
    BY <2>1, <2>2
<1>15. \A d, e \in heap' : channel_id'[d] = channel_id'[e] => d = e
  BY <1>2, <1>10
<1>16. channel_counter' = channel_counter + 1
  BY DEF EndCall
<1>17. /\ Cardinality(Busy') = Cardinality(Busy) - 1
       /\ channel_counter' = CHANNELS_PER_CELL - Cardinality(Busy')
  BY <1>2, <1>3, <1>9, <1>16, BusySize
<1>18. BusyInv'
  BY <1>1, <1>2, <1>10, <1>13, <1>14, <1>15, <1>17 DEF BusyInv
<1> QED
  BY <1>10, <1>12, <1>18 DEF CellInv

-----------------------------------------------------------------------------
\* The inductive invariant: the list is a chain of the allocated nodes, and the bits of
\* channel_state, the nodes' numbers, channel_counter and the queue name the same channels.
THEOREM CellInvariant == Spec => []CellInv
<1> USE CellAssumption
<1>1. Init => CellInv
  <2> SUFFICES ASSUME Init PROVE CellInv
    OBVIOUS
  <2>1. CellTypeOK
    BY DEF Init, CellTypeOK
  <2>2. IsFiniteSet(heap) /\ Cardinality(heap) = 0
    BY FS_EmptySet DEF Init
  <2>3. Chain(0, [i \in 1..0 |-> 1])
    BY DEF Init, Chain
  <2>4. 1 \in Node
    BY DEF Node
  <2>5. 0 \in 0..CHANNELS_PER_CELL /\ [i \in 1..0 |-> 1] \in [1..0 -> Node]
    BY <2>4
  <2>6. ListInv
    BY <2>2, <2>3, <2>5 DEF ListInv
  <2>7. BusyInv
    BY DEF Init, BusyInv
  <2> QED
    BY <2>1, <2>6, <2>7 DEF CellInv
<1>2. CellInv /\ [Next]_vars => CellInv'
  <2> SUFFICES ASSUME CellInv, [Next]_vars PROVE CellInv'
    OBVIOUS
  <2>1. CASE UNCHANGED vars
    BY <2>1, Stutter DEF vars
  <2>2. CASE ended = "no" /\ Round
    <3>1. queue # EmptyBag
      <4>1. InitEvent \in DOMAIN queue \/ StartEvent \in DOMAIN queue
        BY EventsDiffer DEF CellInv, CellTypeOK, BusyInv
      <4>2. DOMAIN EmptyBag = {}
        BY DEF EmptyBag, SetToBag
      <4> QED
        BY <4>1, <4>2
    <3> QED
      BY <2>2, <3>1, InitStep, StartStep, EndStep DEF Round
  <2> QED
    BY <2>1, <2>2 DEF Next, Ended
<1> QED
  BY <1>1, <1>2, PTL DEF Spec

\* The list stays well formed, for every number of channels: OnList is heap, and next is
\* the way back along prev.
THEOREM ListAlwaysWellFormed == Spec => []ListWellFormed
<1> USE CellAssumption
<1>1. ASSUME CellInv PROVE ListWellFormed
  <2>1. CellTypeOK /\ ListInv
    BY <1>1 DEF CellInv
  <2>2. OnList = heap
    BY <2>1, WalkFinds
  <2>3. PICK m \in 0..CHANNELS_PER_CELL : \E walk \in [1..m -> Node] : Chain(m, walk)
    BY <2>1 DEF ListInv
  <2>4. PICK walk \in [1..m -> Node] : Chain(m, walk)
    BY <2>3
  <2>5. channels \in heap => next[channels] = NULL
    BY <2>4 DEF Chain
  <2>6. \A c \in heap : prev[c] \in heap => next[prev[c]] = c
    BY <2>4 DEF Chain
  <2> QED
    BY <2>2, <2>5, <2>6 DEF ListWellFormed
<1> QED
  BY <1>1, CellInvariant, PTL

\* The list, the bits, the counter and the END_CALL events always name the same channels.
THEOREM ChannelsAlwaysAgree == Spec => []ChannelsAgree
<1>1. ASSUME CellInv PROVE ChannelsAgree
  <2>1. OnList = heap
    BY <1>1, WalkFinds DEF CellInv
  <2>2. state = "cell" => \A ch \in Channel : EndsPending(ch) = IF ch \in Busy THEN 1 ELSE 0
    <3>1. ASSUME state = "cell", NEW ch \in Channel
          PROVE  EndsPending(ch) = IF ch \in Busy THEN 1 ELSE 0
      <4>1. queue = SetToBag(Events(Busy))
        BY <1>1, <3>1 DEF CellInv, BusyInv
      <4>2. EndEvent(ch) \in DOMAIN queue <=> ch \in Busy
        BY <4>1, EventsDiffer
      <4>3. \A e \in DOMAIN queue : queue[e] = 1
        BY <4>1 DEF SetToBag
      <4> QED
        BY <4>2, <4>3 DEF EndsPending
    <3> QED
      BY <3>1
  <2> QED
    BY <1>1, <2>1, <2>2 DEF CellInv, BusyInv, ChannelsAgree, Busy
<1> QED
  BY <1>1, CellInvariant, PTL

\* None of the program's own stops is ever met.
THEOREM NeverAborts == Spec => []NoAbort
<1>1. CellInv => NoAbort
  BY DEF CellInv, CellTypeOK, NoAbort
<1> QED
  BY <1>1, CellInvariant, PTL

-----------------------------------------------------------------------------
\* Places(cal) has a pair for every bucket and position in it.
LEMMA PlaceIs ==
  ASSUME NEW cal
  PROVE  \A p : p \in Places(cal) <=> \E d \in DOMAIN cal : \E j \in 1..Len(cal[d]) : p = <<d, j>>
BY DEF Places

\* The calendar cal2 is cal with a node more, at place k of bucket b.
NodeAdded(D, cal, cal2, b, k) ==
    /\ cal \in [D -> Seq(Time)] /\ cal2 \in [D -> Seq(Time)] /\ b \in D
    /\ k \in 1..Len(cal2[b]) /\ Len(cal2[b]) = Len(cal[b]) + 1
    /\ \A d \in D \ {b} : cal2[d] = cal[d]
    /\ \A j \in 1..Len(cal[b]) : cal2[b][IF j < k THEN j ELSE j + 1] = cal[b][j]

\* calqueue_put and the removal of a node move the later nodes of one bucket by a place
\* and no other: a calendar with one node more has one event more, that node's.
LEMMA OneMore ==
  ASSUME NEW D, NEW cal, NEW cal2, NEW b, NEW k, NodeAdded(D, cal, cal2, b, k),
         IsFiniteSet(Places(cal)) \/ IsFiniteSet(Places(cal2))
  PROVE  /\ IsFiniteSet(Places(cal)) /\ IsFiniteSet(Places(cal2))
         /\ Cardinality(Places(cal2)) = Cardinality(Places(cal)) + 1
         /\ \A t : Cardinality(PlacesOf(cal2, t)) =
                   Cardinality(PlacesOf(cal, t)) + IF t = cal2[b][k] THEN 1 ELSE 0
<1>0. /\ cal \in [D -> Seq(Time)] /\ cal2 \in [D -> Seq(Time)] /\ b \in D
      /\ k \in 1..Len(cal2[b]) /\ Len(cal2[b]) = Len(cal[b]) + 1
      /\ \A d \in D \ {b} : cal2[d] = cal[d]
      /\ \A j \in 1..Len(cal[b]) : cal2[b][IF j < k THEN j ELSE j + 1] = cal[b][j]
  BY DEF NodeAdded
<1> USE <1>0
<1> DEFINE n == Len(cal[b])
<1>1. n \in Nat /\ DOMAIN cal = D /\ DOMAIN cal2 = D /\ k \in 1..(n + 1) /\ Len(cal2[b]) = n + 1
  BY LenProperties
<1>a. \A d \in D : Len(cal[d]) \in Nat
  BY LenProperties
<1>2. /\ Places(cal2) = Places(cal) \cup {<<b, n + 1>>} /\ <<b, n + 1>> \notin Places(cal)
      /\ Places(cal) = Places(cal2) \ {<<b, n + 1>>}
  <2> HIDE DEF n
  <2>1. \A p : p \in Places(cal) <=> \E d \in D : \E j \in 1..Len(cal[d]) : p = <<d, j>>
    BY <1>1, PlaceIs
  <2>2. \A p : p \in Places(cal2) <=> \E d \in D : \E j \in 1..Len(cal2[d]) : p = <<d, j>>
    BY <1>1, PlaceIs
  <2>3. <<b, n + 1>> \notin Places(cal)
    <3> SUFFICES ASSUME NEW d \in D, NEW j \in 1..Len(cal[d]), <<b, n + 1>> = <<d, j>>
                 PROVE  FALSE
      BY <2>1
    <3> QED
      BY <1>1 DEF n
  <2>4. ASSUME NEW p PROVE p \in Places(cal2) <=> p \in Places(cal) \/ p = <<b, n + 1>>
    <3>1. ASSUME p \in Places(cal2) PROVE p \in Places(cal) \/ p = <<b, n + 1>>
      <4>1. PICK d \in D, j \in Nat : j \in 1..Len(cal2[d]) /\ p = <<d, j>>
        BY <2>2, <3>1
      <4>2. CASE d # b
        BY <2>1, <4>1, <4>2
      <4>3. CASE d = b /\ j = n + 1
        BY <4>1, <4>3
      <4>4. CASE d = b /\ j # n + 1
        <5>1. j \in 1..Len(cal[d])
          BY <1>1, <4>1, <4>4 DEF n
        <5> QED
          BY <2>1, <4>1, <5>1
      <4> QED
        BY <4>2, <4>3, <4>4
    <3>2. ASSUME p \in Places(cal) PROVE p \in Places(cal2)
      <4>1. PICK d \in D, j \in Nat : j \in 1..Len(cal[d]) /\ p = <<d, j>>
        BY <2>1, <3>2
      <4>2. j \in 1..Len(cal2[d])
        BY <1>1, <4>1 DEF n
      <4> QED
        BY <2>2, <4>1, <4>2
    <3>3. p = <<b, n + 1>> => p \in Places(cal2)
      <4>1. n + 1 \in 1..Len(cal2[b])
        BY <1>1
      <4> QED
        BY <2>2, <4>1
    <3> QED
      BY <3>1, <3>2, <3>3
  <2> QED
    BY <2>3, <2>4
<1>3. IsFiniteSet(Places(cal)) /\ IsFiniteSet(Places(cal2))
  <2>1. IsFiniteSet(Places(cal)) => IsFiniteSet(Places(cal) \cup {<<b, n + 1>>})
    BY FS_AddElement
  <2>2. IsFiniteSet(Places(cal2)) => IsFiniteSet(Places(cal2) \ {<<b, n + 1>>})
    BY FS_RemoveElement
  <2> QED
    BY <1>2, <2>1, <2>2
<1>4. Cardinality(Places(cal2)) = Cardinality(Places(cal)) + 1
  BY <1>2, <1>3, FS_AddElement
<1>5. ASSUME NEW t
      PROVE  Cardinality(PlacesOf(cal2, t)) =
             Cardinality(PlacesOf(cal, t)) + IF t = cal2[b][k] THEN 1 ELSE 0
  <2> DEFINE S == PlacesOf(cal, t)
             T == PlacesOf(cal2, t)
             x == <<b, k>>
             up(j) == IF j < k THEN j ELSE j + 1
             f == [p \in S |-> IF p[1] = b THEN <<b, up(p[2])>> ELSE p]
  <2>1. IsFiniteSet(S) /\ IsFiniteSet(T)
    BY <1>3, FS_Subset DEF PlacesOf
  <2>2. \A p : p \in S <=> \E d \in D : \E j \in 1..Len(cal[d]) : p = <<d, j>> /\ cal[d][j] = t
    BY <1>1, PlaceIs DEF PlacesOf
  <2>3. \A p : p \in T <=> \E d \in D : \E j \in 1..Len(cal2[d]) : p = <<d, j>> /\ cal2[d][j] = t
    BY <1>1, PlaceIs DEF PlacesOf
  <2>4. x \in T <=> t = cal2[b][k]
    BY <2>3
  <2>5. ASSUME NEW p \in S PROVE f[p] \in T \ {x}
    <3>1. PICK d \in D, j \in Nat : j \in 1..Len(cal[d]) /\ p = <<d, j>> /\ cal[d][j] = t
      BY <2>2
    <3>2. CASE d # b
      <4>1. f[p] = <<d, j>> /\ <<d, j>> # x
        BY <3>1, <3>2
      <4>2. <<d, j>> \in T
        BY <2>3, <3>1, <3>2
      <4> QED
        BY <4>1, <4>2
    <3>3. CASE d = b
      <4>1. f[p] = <<b, up(j)>>
        BY <3>1, <3>3
      <4>2. up(j) \in 1..Len(cal2[b]) /\ up(j) # k /\ cal2[b][up(j)] = t
        BY <1>1, <3>1, <3>3
      <4> HIDE DEF up, f, S, T
      <4>3. <<b, up(j)>> \in T
        BY <2>3, <4>2
      <4> QED
        BY <4>1, <4>2, <4>3
    <3> QED
      BY <3>2, <3>3
  <2>6. ASSUME NEW p \in S, NEW r \in S, f[p] = f[r] PROVE p = r
    <3>1. PICK d \in D, j \in Nat : j \in 1..Len(cal[d]) /\ p = <<d, j>>
      BY <2>2
    <3>2. PICK e \in D, i \in Nat : i \in 1..Len(cal[e]) /\ r = <<e, i>>
      BY <2>2
    <3>3. f[p][1] = d /\ f[p][2] = (IF d = b THEN up(j) ELSE j)
      <4> HIDE DEF up, S
      <4> QED
        BY <3>1
    <3>4. f[r][1] = e /\ f[r][2] = (IF e = b THEN up(i) ELSE i)
      <4> HIDE DEF up, S
      <4> QED
        BY <3>2
    <3>5. up(j) = up(i) => j = i
      <4> HIDE DEF f, S
      <4> QED
        BY <1>1
    <3> HIDE DEF up, f, S, T
    <3>6. d = e
      BY <2>6, <3>3, <3>4
    <3>7. j = i
      BY <2>6, <3>3, <3>4, <3>5, <3>6
    <3> QED
      BY <3>1, <3>2, <3>6, <3>7
  <2>7. ASSUME NEW r \in T \ {x} PROVE \E p \in S : f[p] = r
    <3>1. PICK d \in D, j \in Nat : j \in 1..Len(cal2[d]) /\ r = <<d, j>> /\ cal2[d][j] = t
      BY <2>3
    <3>2. CASE d # b
      <4>1. r \in S
        BY <2>2, <3>1, <3>2
      <4>2. f[r] = r
        BY <3>1, <3>2, <4>1
      <4> QED
        BY <4>1, <4>2
    <3>3. CASE d = b
      <4> DEFINE i == IF j < k THEN j ELSE j - 1
      <4>1. j # k
        BY <3>1, <3>3
      <4>2. i \in 1..Len(cal[b]) /\ up(i) = j
        BY <1>1, <3>1, <3>3, <4>1
      <4> HIDE DEF i
      <4>3. cal[b][i] = t
        BY <3>1, <3>3, <4>2
      <4>4. <<b, i>> \in S
        BY <2>2, <4>2, <4>3
      <4>5. f[<<b, i>>] = <<b, up(i)>>
        BY <4>4
      <4> QED
        BY <3>1, <3>3, <4>2, <4>4, <4>5
    <3> QED
      BY <3>2, <3>3
  <2> HIDE DEF S, T, f, up
  <2>8. f \in Bijection(S, T \ {x})
    <3>1. f \in [S -> T \ {x}]
      BY <2>5 DEF f
    <3> QED
      BY <3>1, <2>6, <2>7 DEF Bijection, Injection, Surjection, IsInjective
  <2>9. Cardinality(T \ {x}) = Cardinality(S)
    <3>1. ExistsBijection(S, T \ {x})
      BY <2>8 DEF ExistsBijection
    <3> QED
      BY <2>1, <3>1, FS_Bijection
  <2>10. Cardinality(T) \in Nat /\ Cardinality(S) \in Nat
    BY <2>1, FS_CardinalityType
  <2>11. Cardinality(T \ {x}) = IF x \in T THEN Cardinality(T) - 1 ELSE Cardinality(T)
    BY <2>1, FS_RemoveElement
  <2>12. Cardinality(T) = Cardinality(S) + IF t = cal2[b][k] THEN 1 ELSE 0
    <3> HIDE DEF x
    <3> QED
      BY <2>4, <2>9, <2>10, <2>11
  <2> QED
    BY <2>12 DEF S, T
<1> QED
  BY <1>3, <1>4, <1>5

\* Times are natural numbers.
LEMMA TimesAreNat == \A t \in Time : t \in Nat
BY CalendarAssumption

\* The place calqueue_put finds in a list exists.
LEMMA PositionFound ==
  ASSUME NEW s \in Seq(Time), NEW t \in Time
  PROVE  /\ Position(s, t) \in 1..(Len(s) + 1)
         /\ Position(s, t) <= Len(s) => s[Position(s, t)] > t
         /\ \A j \in 1..(Position(s, t) - 1) : s[j] <= t
<1> DEFINE L == {k \in 1..(Len(s) + 1) : k <= Len(s) => s[k] > t}
<1>1. Len(s) \in Nat /\ \A j \in 1..Len(s) : s[j] \in Time
  BY LenProperties
<1>2. Len(s) + 1 \in L /\ L \subseteq Nat
  BY <1>1
<1>3. PICK k \in L : \A j \in L : k <= j
  BY <1>2, Least
<1>4. \A j \in 1..(k - 1) : s[j] <= t
  <2> SUFFICES ASSUME NEW j \in 1..(k - 1), ~(s[j] <= t)
               PROVE  FALSE
    OBVIOUS
  <2>1. j \in 1..Len(s) /\ s[j] > t
    BY <1>1, TimesAreNat
  <2>2. j \in L
    BY <1>1, <2>1
  <2> QED
    BY <1>3, <2>2
<1>5. \E h \in 1..(Len(s) + 1) : /\ h <= Len(s) => s[h] > t
                                 /\ \A j \in 1..(h - 1) : s[j] <= t
  BY <1>4
<1> QED
  BY <1>5 DEF Position

\* calqueue_put puts one node into the list, in front of the first later one.
LEMMA InsertedList ==
  ASSUME NEW s \in Seq(Time), NEW t \in Time
  PROVE  /\ InsertSorted(s, t) \in Seq(Time) /\ Len(InsertSorted(s, t)) = Len(s) + 1
         /\ InsertSorted(s, t)[Position(s, t)] = t
         /\ \A j \in 1..Len(s) :
              InsertSorted(s, t)[IF j < Position(s, t) THEN j ELSE j + 1] = s[j]
<1> DEFINE k == Position(s, t)
           r == [j \in 1..(Len(s) + 1) |-> IF j < k THEN s[j] ELSE IF j = k THEN t ELSE s[j - 1]]
<1>1. Len(s) \in Nat /\ \A j \in 1..Len(s) : s[j] \in Time
  BY LenProperties
<1>2. k \in 1..(Len(s) + 1)
  BY PositionFound
<1> HIDE DEF k
<1>3. \A j \in 1..(Len(s) + 1) : r[j] \in Time
  <2> SUFFICES ASSUME NEW j \in 1..(Len(s) + 1) PROVE r[j] \in Time
    OBVIOUS
  <2>1. CASE j < k
    BY <1>1, <1>2, <2>1
  <2>2. CASE j = k
    BY <1>1, <1>2, <2>2
  <2>3. CASE j > k
    <3>1. j - 1 \in 1..Len(s)
      BY <1>1, <1>2, <2>3
    <3> QED
      BY <1>1, <1>2, <2>3, <3>1
  <2> QED
    BY <1>1, <1>2, <2>1, <2>2, <2>3
<1>4. r \in [1..(Len(s) + 1) -> Time]
  BY <1>3
<1>5. r \in Seq(Time) /\ Len(r) = Len(s) + 1
  BY <1>1, <1>4, SeqDef
<1>6. r[k] = t /\ \A j \in 1..Len(s) : r[IF j < k THEN j ELSE j + 1] = s[j]
  BY <1>1, <1>2
<1>7. r = InsertSorted(s, t)
  BY DEF InsertSorted, k
<1> HIDE DEF r
<1> QED
  BY <1>5, <1>6, <1>7 DEF k

Sorted(s) == \A j, k \in 1..Len(s) : j < k => s[j] <= s[k]

\* A list that was in order still is after calqueue_put, and has no other events besides.
LEMMA InsertedInOrder ==
  ASSUME NEW s \in Seq(Time), NEW t \in Time
  PROVE  /\ Sorted(s) => Sorted(InsertSorted(s, t))
         /\ \A j \in 1..Len(InsertSorted(s, t)) :
              InsertSorted(s, t)[j] = t \/ \E i \in 1..Len(s) : InsertSorted(s, t)[j] = s[i]
<1> DEFINE r == InsertSorted(s, t)
           k == Position(s, t)
<1>1. Len(s) \in Nat /\ \A j \in 1..Len(s) : s[j] \in Int
  BY LenProperties, TimesAreNat
<1>a. t \in Int
  BY CalendarAssumption
<1>2. /\ k \in 1..(Len(s) + 1) /\ Len(r) = Len(s) + 1 /\ r[k] = t /\ t \in Int
      /\ k <= Len(s) => s[k] > t
      /\ \A j \in 1..(k - 1) : s[j] <= t
  BY <1>a, PositionFound, InsertedList
<1>3. \A j \in 1..Len(s) : r[IF j < k THEN j ELSE j + 1] = s[j]
  BY InsertedList
<1> HIDE DEF r, k
<1>4. \A j \in 1..Len(r) : j < k => j \in 1..Len(s) /\ r[j] = s[j]
  BY <1>1, <1>2, <1>3
<1>5. \A j \in 1..Len(r) : j > k => j - 1 \in 1..Len(s) /\ r[j] = s[j - 1]
  <2> SUFFICES ASSUME NEW j \in 1..Len(r), j > k PROVE j - 1 \in 1..Len(s) /\ r[j] = s[j - 1]
    OBVIOUS
  <2>1. j - 1 \in 1..Len(s) /\ ~(j - 1 < k) /\ (j - 1) + 1 = j
    BY <1>1, <1>2
  <2> QED
    BY <1>3, <2>1
<1>6. \A j \in 1..Len(r) : r[j] = t \/ \E i \in 1..Len(s) : r[j] = s[i]
  BY <1>1, <1>2, <1>4, <1>5
<1>7. ASSUME Sorted(s), NEW i \in 1..Len(r), NEW j \in 1..Len(r), i < j PROVE r[i] <= r[j]
  <2>1. \A m \in 1..Len(s) : m >= k => s[m] >= t
    BY <1>1, <1>2, <1>7 DEF Sorted
  <2>2. CASE i < k /\ j < k
    BY <1>4, <1>7, <2>2 DEF Sorted
  <2>3. CASE i < k /\ j = k
    BY <1>1, <1>2, <1>4, <2>3
  <2>4. CASE i < k /\ j > k
    BY <1>1, <1>2, <1>4, <1>5, <1>7, <2>4 DEF Sorted
  <2>5. CASE i = k /\ j > k
    BY <1>1, <1>2, <1>5, <2>1, <2>5
  <2>6. CASE i > k /\ j > k
    <3>1. i - 1 \in 1..Len(s) /\ j - 1 \in 1..Len(s) /\ r[i] = s[i - 1] /\ r[j] = s[j - 1]
      BY <1>5, <2>6
    <3>2. i - 1 < j - 1
      BY <1>1, <1>2, <1>7
    <3> QED
      BY <1>7, <3>1, <3>2 DEF Sorted
  <2> QED
    BY <1>1, <1>2, <1>7, <2>2, <2>3, <2>4, <2>5, <2>6
<1>8. Sorted(s) => Sorted(r)
  BY <1>7 DEF Sorted
<1> QED
  BY <1>6, <1>8 DEF r

\* The removal of the head of a list.
LEMMA TailList ==
  ASSUME NEW s \in Seq(Time), s # <<>>
  PROVE  /\ Head(s) \in Time /\ s[1] = Head(s) /\ Tail(s) \in Seq(Time)
         /\ Len(s) = Len(Tail(s)) + 1 /\ 1 \in 1..Len(s)
         /\ \A j \in 1..Len(Tail(s)) : s[j + 1] = Tail(s)[j]
         /\ Sorted(s) => Sorted(Tail(s))
<1>1. Len(s) \in Nat \ {0} /\ Len(Tail(s)) = Len(s) - 1
  BY HeadTailProperties, EmptySeq
<1>2. Head(s) \in Time /\ s[1] = Head(s) /\ Tail(s) \in Seq(Time)
  BY HeadTailProperties
<1>3. \A j \in 1..Len(Tail(s)) : s[j + 1] = Tail(s)[j]
  BY HeadTailProperties
<1>4. Sorted(s) => Sorted(Tail(s))
  <2> SUFFICES ASSUME Sorted(s), NEW i \in 1..Len(Tail(s)), NEW j \in 1..Len(Tail(s)), i < j
               PROVE  Tail(s)[i] <= Tail(s)[j]
    BY DEF Sorted
  <2>1. i + 1 \in 1..Len(s) /\ j + 1 \in 1..Len(s) /\ i + 1 < j + 1
    BY <1>1
  <2>2. s[i + 1] <= s[j + 1]
    BY <2>1 DEF Sorted
  <2> QED
    BY <1>3, <2>2
<1> QED
  BY <1>1, <1>2, <1>3, <1>4

-----------------------------------------------------------------------------
Width == [num : Int, den : Nat]

\* The type of a calqueue.
QueueOK(c) ==
    c \in [firstsub : Nat, nbuckets : Nat \ {0}, cwidth : Width, qsize : Int,
           calendar : [0..(c.nbuckets - 1) -> Seq(Time)], lastprio : Time, lastbucket : Int,
           top : Int]

\* The buckets of c are in order and hold the events of their days.
InOrder(c) ==
    \A b \in DOMAIN c.calendar :
        /\ Sorted(c.calendar[b])
        /\ \A j \in 1..Len(c.calendar[b]) : b = Bucket(c, c.calendar[b][j])

\* A quotient is the number of whole steps, and the only one.
LEMMA Division ==
  ASSUME NEW x \in Nat, NEW n \in Nat \ {0}
  PROVE  /\ x \div n \in Nat /\ x % n \in 0..(n - 1)
         /\ x = n * (x \div n) + (x % n)
OBVIOUS

\* A multiple of n less than n away from 0 is 0.
LEMMA NoMultiple ==
  ASSUME NEW n \in Nat \ {0}, NEW d \in Int, n * d < n, -n < n * d
  PROVE  d = 0
<1>1. ~(d >= 1)
  <2> SUFFICES ASSUME d >= 1 PROVE FALSE
    OBVIOUS
  <2>1. n * d >= n * 1
    OBVIOUS
  <2> QED
    BY <2>1
<1>2. ~(d <= -1)
  <2> SUFFICES ASSUME d <= -1 PROVE FALSE
    OBVIOUS
  <2>1. n * d <= n * (-1)
    OBVIOUS
  <2> QED
    BY <2>1
<1> QED
  BY <1>1, <1>2

\* A number has one quotient and one remainder.
LEMMA SameRemainder ==
  ASSUME NEW n \in Nat \ {0}, NEW a \in Nat, NEW b \in Nat, NEW r \in 0..(n - 1),
         NEW s \in 0..(n - 1), n * a + r = n * b + s
  PROVE  a = b /\ r = s
<1>1. n * (a - b) = s - r
  OBVIOUS
<1>2. a - b = 0
  <2>1. a - b \in Int /\ n * (a - b) < n /\ -n < n * (a - b)
    BY <1>1
  <2> QED
    BY <2>1, NoMultiple
<1> QED
  BY <1>2

\* The remainder of a sum is that of the remainder and the rest.
LEMMA Shift ==
  ASSUME NEW v \in Nat, NEW k \in Nat, NEW n \in Nat \ {0}
  PROVE  ((v % n) + k) % n = (v + k) % n
<1> DEFINE a == v \div n
           r == v % n
           b == (r + k) \div n
           s == (r + k) % n
           e == (v + k) \div n
           u == (v + k) % n
<1>1. a \in Nat /\ r \in 0..(n - 1) /\ v = n * a + r
  BY Division
<1>2. b \in Nat /\ s \in 0..(n - 1) /\ r + k = n * b + s
  <2>1. r + k \in Nat
    BY <1>1
  <2> QED
    BY <2>1, Division
<1>3. e \in Nat /\ u \in 0..(n - 1) /\ v + k = n * e + u
  <2>1. v + k \in Nat
    OBVIOUS
  <2> QED
    BY <2>1, Division
<1> HIDE DEF a, r, b, s, e, u
<1>4. n * (a + b) = n * a + n * b
  BY <1>1, <1>2
<1>5. n * a \in Int /\ n * b \in Int /\ n * e \in Int
  BY <1>1, <1>2, <1>3
<1>6. n * (a + b) + s = n * e + u
  BY <1>1, <1>2, <1>3, <1>4, <1>5
<1>7. a + b \in Nat
  BY <1>1, <1>2
<1>8. s = u
  BY <1>2, <1>3, <1>6, <1>7, SameRemainder
<1> QED
  BY <1>8 DEF r, s, u

\* Two numbers less than n apart differ in their remainders.
LEMMA Apart ==
  ASSUME NEW x \in Nat, NEW y \in Nat, NEW n \in Nat \ {0}, x % n = y % n, x - y < n, y - x < n
  PROVE  x = y
<1> DEFINE a == x \div n
           b == y \div n
           r == x % n
<1>1. a \in Nat /\ b \in Nat /\ r \in 0..(n - 1) /\ x = n * a + r /\ y = n * b + r
  BY Division
<1> HIDE DEF a, b, r
<1>2. n * (a - b) = x - y
  BY <1>1
<1>3. a - b = 0
  <2>1. a - b \in Int /\ n * (a - b) < n /\ -n < n * (a - b)
    BY <1>1, <1>2
  <2> QED
    BY <2>1, NoMultiple
<1> QED
  BY <1>1, <1>3

\* Cancelling a factor.
LEMMA Cancel ==
  ASSUME NEW a \in Int, NEW b \in Int, NEW n \in Nat \ {0}
  PROVE  a * n < b * n <=> a < b
<1>1. ASSUME a < b PROVE a * n < b * n
  <2>1. b - a >= 1 /\ b - a \in Nat
    BY <1>1
  <2>2. (b - a) * n > 0
    BY <2>1
  <2>3. (b - a) * n = b * n - a * n
    OBVIOUS
  <2> QED
    BY <2>2, <2>3
<1>2. ASSUME ~(a < b) PROVE ~(a * n < b * n)
  <2>1. a - b \in Nat
    BY <1>2
  <2>2. (a - b) * n >= 0
    BY <2>1
  <2>3. (a - b) * n = a * n - b * n
    OBVIOUS
  <2> QED
    BY <2>2, <2>3
<1> QED
  BY <1>1, <1>2

\* A product of naturals is one.
LEMMA Product ==
  ASSUME NEW m \in Nat, NEW n \in Nat
  PROVE  m * n \in Nat
OBVIOUS

\* With a width that is not negative an event has a bucket of the calendar; with a negative
\* one it may have one before it.
LEMMA BucketInCalendar ==
  ASSUME NEW w \in Width, NEW n \in Nat \ {0}, NEW t \in Time
  PROVE  /\ VirtualBucket(w, t) \in Int /\ ActualBucket(VirtualBucket(w, t), n) \in Int
         /\ ActualBucket(VirtualBucket(w, t), n) < n
         /\ w.num >= 0 => ActualBucket(VirtualBucket(w, t), n) \in 0..(n - 1)
<1> DEFINE v == VirtualBucket(w, t)
<1>1. w.num \in Int /\ w.den \in Nat /\ t \in Nat /\ t * w.den \in Nat
  <2>1. w.num \in Int /\ w.den \in Nat /\ t \in Nat
    BY CalendarAssumption DEF Width
  <2> QED
    BY <2>1, Product
<1>2. CASE w.num > 0
  <2>1. v = (t * w.den) \div w.num
    BY <1>1, <1>2 DEF VirtualBucket
  <2>2. v \in Nat
    <3>1. w.num \in Nat \ {0}
      BY <1>1, <1>2
    <3> QED
      BY <1>1, <2>1, <3>1, Division
  <2> HIDE DEF v
  <2> QED
    BY <2>2, Division DEF ActualBucket, v
<1>3. CASE w.num = 0
  <2>1. v = 0
    BY <1>3 DEF VirtualBucket
  <2> QED
    BY <2>1, Division DEF ActualBucket
<1>4. CASE w.num < 0
  <2> DEFINE u == (t * w.den) \div (-w.num)
  <2>1. v = -u
    BY <1>1, <1>4 DEF VirtualBucket
  <2>2. u \in Nat
    <3>1. -w.num \in Nat \ {0}
      BY <1>1, <1>4
    <3> QED
      BY <1>1, <3>1, Division
  <2> HIDE DEF u, v
  <2>3. u % n \in 0..(n - 1)
    BY <2>2, Division
  <2>4. -v = u
    BY <2>1, <2>2
  <2>5. ActualBucket(v, n) \in Int /\ ActualBucket(v, n) < n
    <3>1. CASE u = 0
      BY <2>1, <2>2, <3>1, Division DEF ActualBucket
    <3>2. CASE u # 0
      <4>1. ActualBucket(v, n) = -(u % n)
        BY <2>1, <2>2, <2>4, <3>2 DEF ActualBucket
      <4> QED
        BY <2>3, <4>1
    <3> QED
      BY <3>1, <3>2
  <2>6. v \in Int /\ ~(w.num >= 0)
    BY <1>1, <1>4, <2>1, <2>2
  <2> QED
    BY <2>5, <2>6 DEF v
<1> QED
  BY <1>1, <1>2, <1>3, <1>4

\* localinit makes an empty calendar.
LEMMA Initialised ==
  ASSUME NEW base \in Nat, NEW n \in Nat \ {0}, NEW w \in Width, NEW t \in Time
  PROVE  LET c == localinit(base, n, w, t)
         IN  /\ QueueOK(c) /\ c.firstsub = base /\ c.nbuckets = n /\ c.cwidth = w
             /\ c.qsize = 0 /\ Places(c.calendar) = {} /\ InOrder(c)
             /\ \A b \in DOMAIN c.calendar : c.calendar[b] = <<>>
             /\ w.num >= 0 => c.lastbucket \in DOMAIN c.calendar
<1> DEFINE c == localinit(base, n, w, t)
           v == VirtualBucket(w, t)
           x == IF w.num = 0 THEN 0 ELSE 2 * v + 3
<1>1. /\ v \in Int /\ ActualBucket(v, n) \in Int
      /\ w.num >= 0 => ActualBucket(v, n) \in 0..(n - 1)
  BY BucketInCalendar
<1>2. x \in Int
  BY <1>1
<1>3. <<>> \in Seq(Time) /\ Len(<<>>) = 0
  BY EmptySeq
<1> HIDE DEF v, x
<1>4. c = [firstsub |-> base, nbuckets |-> n, cwidth |-> w, qsize |-> 0,
           calendar |-> [b \in 0..(n - 1) |-> <<>>], lastprio |-> t,
           lastbucket |-> ActualBucket(v, n), top |-> x]
  BY DEF localinit, v, x
<1>5. /\ c.firstsub = base /\ c.nbuckets = n /\ c.cwidth = w /\ c.qsize = 0
      /\ c.calendar = [b \in 0..(n - 1) |-> <<>>] /\ c.lastbucket = ActualBucket(v, n)
  BY <1>4
<1>6. QueueOK(c)
  BY <1>1, <1>2, <1>3, <1>4 DEF QueueOK
<1> HIDE DEF c
<1>7. \A b \in DOMAIN c.calendar : c.calendar[b] = <<>> /\ Len(c.calendar[b]) = 0
  BY <1>3, <1>5
<1>8. Places(c.calendar) = {}
  BY <1>7, PlaceIs
<1>9. InOrder(c)
  BY <1>7 DEF InOrder, Sorted
<1> QED
  BY <1>1, <1>5, <1>6, <1>7, <1>8, <1>9 DEF c

\* calqueue_put of an event of time t: one event more, in its bucket and in order.
LEMMA Placed ==
  ASSUME NEW c, QueueOK(c), NEW t \in Time, IsFiniteSet(Places(c.calendar))
  PROVE  LET d == Place(c, t)
         IN  /\ QueueOK(d) /\ d.qsize = c.qsize + 1
             /\ d.firstsub = c.firstsub /\ d.nbuckets = c.nbuckets /\ d.cwidth = c.cwidth
             /\ d.lastprio = c.lastprio /\ d.lastbucket = c.lastbucket /\ d.top = c.top
             /\ IsFiniteSet(Places(d.calendar))
             /\ c.cwidth.num >= 0 =>
                  /\ Cardinality(Places(d.calendar)) = Cardinality(Places(c.calendar)) + 1
                  /\ \A u : Cardinality(PlacesOf(d.calendar, u)) =
                            Cardinality(PlacesOf(c.calendar, u)) + IF u = t THEN 1 ELSE 0
                  /\ InOrder(c) => InOrder(d)
<1> DEFINE d == Place(c, t)
           b == Bucket(c, t)
           D == 0..(c.nbuckets - 1)
           s == c.calendar[b]
           more == [c.calendar EXCEPT ![b] = InsertSorted(s, t)]
<1>0. c.firstsub \in Nat /\ c.lastprio \in Time /\ c.lastbucket \in Int /\ c.top \in Int
  BY DEF QueueOK
<1>1. /\ c.nbuckets \in Nat \ {0} /\ c.cwidth \in Width /\ c.qsize \in Int
      /\ c.calendar \in [D -> Seq(Time)]
  BY DEF QueueOK
<1>2. b \in Int /\ b < c.nbuckets /\ (c.cwidth.num >= 0 => b \in D)
  BY <1>1, BucketInCalendar DEF Bucket
<1> HIDE DEF b
<1>3. d = [c EXCEPT !.qsize = c.qsize + 1, !.calendar = IF b < 0 THEN c.calendar ELSE more]
  BY DEF Place, b
<1>4. b < 0 \/ b \in D
  BY <1>1, <1>2
<1> HIDE DEF d
<1>5. CASE b < 0
  <2>1. d = [c EXCEPT !.qsize = c.qsize + 1, !.calendar = c.calendar]
    BY <1>3, <1>5
  <2>2. /\ d.qsize = c.qsize + 1 /\ d.calendar = c.calendar
        /\ d.firstsub = c.firstsub /\ d.nbuckets = c.nbuckets /\ d.cwidth = c.cwidth
        /\ d.lastprio = c.lastprio /\ d.lastbucket = c.lastbucket /\ d.top = c.top
        /\ QueueOK(d)
    <3>1. d = [firstsub |-> c.firstsub, nbuckets |-> c.nbuckets, cwidth |-> c.cwidth,
               qsize |-> c.qsize + 1, calendar |-> c.calendar, lastprio |-> c.lastprio,
               lastbucket |-> c.lastbucket, top |-> c.top]
      BY <2>1 DEF QueueOK
    <3> QED
      BY <1>0, <1>1, <3>1 DEF QueueOK
  <2>3. ~(c.cwidth.num >= 0)
    BY <1>2, <1>5
  <2> QED
    BY <2>2, <2>3 DEF d
<1>6. CASE b \in D
  <2>1. ~(b < 0) /\ s \in Seq(Time)
    BY <1>1, <1>2, <1>6
  <2>2. /\ InsertSorted(s, t) \in Seq(Time) /\ Len(InsertSorted(s, t)) = Len(s) + 1
        /\ InsertSorted(s, t)[Position(s, t)] = t
        /\ \A j \in 1..Len(s) : InsertSorted(s, t)[IF j < Position(s, t) THEN j ELSE j + 1] = s[j]
        /\ Position(s, t) \in 1..(Len(s) + 1)
    BY <2>1, InsertedList, PositionFound
  <2>3. /\ more \in [D -> Seq(Time)] /\ more[b] = InsertSorted(s, t)
        /\ \A e \in D \ {b} : more[e] = c.calendar[e]
    BY <1>1, <1>6, <2>2
  <2> HIDE DEF more
  <2>4. d = [c EXCEPT !.qsize = c.qsize + 1, !.calendar = more]
    BY <1>3, <2>1
  <2>5. /\ d.qsize = c.qsize + 1 /\ d.calendar = more
        /\ d.firstsub = c.firstsub /\ d.nbuckets = c.nbuckets /\ d.cwidth = c.cwidth
        /\ d.lastprio = c.lastprio /\ d.lastbucket = c.lastbucket /\ d.top = c.top
        /\ QueueOK(d)
    <3>1. d = [firstsub |-> c.firstsub, nbuckets |-> c.nbuckets, cwidth |-> c.cwidth,
               qsize |-> c.qsize + 1, calendar |-> more, lastprio |-> c.lastprio,
               lastbucket |-> c.lastbucket, top |-> c.top]
      BY <2>4 DEF QueueOK
    <3> QED
      BY <1>0, <1>1, <2>3, <3>1 DEF QueueOK
  <2>6. /\ IsFiniteSet(Places(more))
        /\ Cardinality(Places(more)) = Cardinality(Places(c.calendar)) + 1
        /\ \A u : Cardinality(PlacesOf(more, u)) =
                  Cardinality(PlacesOf(c.calendar, u)) + IF u = t THEN 1 ELSE 0
    <3> DEFINE k == Position(s, t)
    <3>1. /\ k \in 1..Len(more[b]) /\ Len(more[b]) = Len(c.calendar[b]) + 1 /\ more[b][k] = t
          /\ \A j \in 1..Len(c.calendar[b]) :
               more[b][IF j < k THEN j ELSE j + 1] = c.calendar[b][j]
      BY <2>2, <2>3
    <3>2. NodeAdded(D, c.calendar, more, b, k)
      BY <1>1, <1>6, <2>3, <3>1 DEF NodeAdded
    <3> HIDE DEF k, s, D
    <3> QED
      BY <3>1, <3>2, OneMore
  <2>7. ASSUME InOrder(c) PROVE InOrder(d)
    <3>1. \A u : Bucket(d, u) = Bucket(c, u)
      BY <2>5 DEF Bucket
    <3>2. DOMAIN d.calendar = D /\ DOMAIN c.calendar = D
      BY <1>1, <2>3, <2>5
    <3> SUFFICES ASSUME NEW e \in D
                 PROVE  /\ Sorted(more[e])
                        /\ \A j \in 1..Len(more[e]) : e = Bucket(c, more[e][j])
      BY <2>5, <3>1, <3>2 DEF InOrder
    <3>3. CASE e # b
      BY <2>3, <2>7, <3>2, <3>3 DEF InOrder
    <3>4. CASE e = b
      <4>1. Sorted(s) /\ \A j \in 1..Len(s) : b = Bucket(c, s[j])
        BY <2>7, <1>6, <3>2 DEF InOrder
      <4>2. Sorted(InsertSorted(s, t))
        BY <2>1, <4>1, InsertedInOrder
      <4>3. \A j \in 1..Len(InsertSorted(s, t)) :
              InsertSorted(s, t)[j] = t \/ \E i \in 1..Len(s) : InsertSorted(s, t)[j] = s[i]
        BY <2>1, InsertedInOrder
      <4>4. \A j \in 1..Len(InsertSorted(s, t)) : b = Bucket(c, InsertSorted(s, t)[j])
        BY <4>1, <4>3 DEF b
      <4> QED
        BY <2>3, <3>4, <4>2, <4>4
    <3> QED
      BY <3>3, <3>4
  <2> QED
    BY <2>5, <2>6, <2>7 DEF d
<1> QED
  BY <1>4, <1>5, <1>6

\* A calendar without the first event of bucket b.
LEMMA HeadRemoved ==
  ASSUME NEW D, NEW cal \in [D -> Seq(Time)], NEW b \in Full(cal), IsFiniteSet(Places(cal))
  PROVE  LET less == WithoutHead(cal, b)
         IN  /\ less \in [D -> Seq(Time)] /\ IsFiniteSet(Places(less)) /\ b \in D
             /\ less[b] = Tail(cal[b]) /\ \A e \in D \ {b} : less[e] = cal[e]
             /\ Head(cal[b]) \in Time
             /\ Cardinality(Places(cal)) = Cardinality(Places(less)) + 1
             /\ \A u : Cardinality(PlacesOf(cal, u)) =
                       Cardinality(PlacesOf(less, u)) + IF u = Head(cal[b]) THEN 1 ELSE 0
<1> DEFINE less == WithoutHead(cal, b)
           s == cal[b]
<1>1. b \in D /\ s \in Seq(Time) /\ s # <<>>
  BY DEF Full
<1>2. /\ Head(s) \in Time /\ s[1] = Head(s) /\ Tail(s) \in Seq(Time)
      /\ Len(s) = Len(Tail(s)) + 1 /\ 1 \in 1..Len(s)
      /\ \A j \in 1..Len(Tail(s)) : s[j + 1] = Tail(s)[j]
  BY <1>1, TailList
<1>3. /\ less \in [D -> Seq(Time)] /\ less[b] = Tail(s)
      /\ \A e \in D \ {b} : less[e] = cal[e]
  BY <1>1, <1>2 DEF WithoutHead
<1> HIDE DEF less
<1>4. \A j \in 1..Len(less[b]) : cal[b][IF j < 1 THEN j ELSE j + 1] = less[b][j]
  BY <1>2, <1>3
<1>5. /\ IsFiniteSet(Places(less))
      /\ Cardinality(Places(cal)) = Cardinality(Places(less)) + 1
      /\ \A u : Cardinality(PlacesOf(cal, u)) =
                Cardinality(PlacesOf(less, u)) + IF u = cal[b][1] THEN 1 ELSE 0
  <2>1. NodeAdded(D, less, cal, b, 1)
    BY <1>1, <1>2, <1>3, <1>4 DEF NodeAdded
  <2> QED
    BY <2>1, OneMore
<1> QED
  BY <1>1, <1>2, <1>3, <1>5 DEF less

\* calqueue_deq from bucket b: one event less, the others where they were.
LEMMA TakenFrom ==
  ASSUME NEW c, QueueOK(c), NEW b \in Full(c.calendar), NEW x \in Int,
         IsFiniteSet(Places(c.calendar))
  PROVE  LET d == TakeFrom(c, b, x)
         IN  /\ QueueOK(d) /\ d.qsize = c.qsize - 1
             /\ d.firstsub = c.firstsub /\ d.nbuckets = c.nbuckets /\ d.cwidth = c.cwidth
             /\ d.lastprio \in Time /\ d.lastbucket \in DOMAIN d.calendar
             /\ IsFiniteSet(Places(d.calendar))
             /\ Cardinality(Places(c.calendar)) = Cardinality(Places(d.calendar)) + 1
             /\ \A u : Cardinality(PlacesOf(c.calendar, u)) =
                       Cardinality(PlacesOf(d.calendar, u)) + IF u = d.lastprio THEN 1 ELSE 0
             /\ InOrder(c) => InOrder(d)
<1> DEFINE d == TakeFrom(c, b, x)
           D == 0..(c.nbuckets - 1)
           less == WithoutHead(c.calendar, b)
<1>1. /\ c.nbuckets \in Nat \ {0} /\ c.qsize \in Int /\ c.calendar \in [D -> Seq(Time)]
      /\ c.firstsub \in Nat /\ c.cwidth \in Width
  BY DEF QueueOK
<1>2. /\ less \in [D -> Seq(Time)] /\ IsFiniteSet(Places(less)) /\ b \in D
      /\ less[b] = Tail(c.calendar[b]) /\ \A e \in D \ {b} : less[e] = c.calendar[e]
      /\ Head(c.calendar[b]) \in Time
      /\ Cardinality(Places(c.calendar)) = Cardinality(Places(less)) + 1
      /\ \A u : Cardinality(PlacesOf(c.calendar, u)) =
                Cardinality(PlacesOf(less, u)) + IF u = Head(c.calendar[b]) THEN 1 ELSE 0
  <2> HIDE DEF D
  <2> QED
    BY <1>1, HeadRemoved
<1> HIDE DEF less
<1>3. d = [c EXCEPT !.lastbucket = b, !.lastprio = Head(c.calendar[b]), !.qsize = c.qsize - 1,
                    !.top = x, !.calendar = less]
  BY DEF TakeFrom, less
<1> HIDE DEF d
<1>4. /\ d.qsize = c.qsize - 1 /\ d.calendar = less
      /\ d.firstsub = c.firstsub /\ d.nbuckets = c.nbuckets /\ d.cwidth = c.cwidth
      /\ d.lastprio = Head(c.calendar[b]) /\ d.lastbucket = b
      /\ QueueOK(d)
  <2>1. d = [firstsub |-> c.firstsub, nbuckets |-> c.nbuckets, cwidth |-> c.cwidth,
             qsize |-> c.qsize - 1, calendar |-> less, lastprio |-> Head(c.calendar[b]),
             lastbucket |-> b, top |-> x]
    BY <1>3 DEF QueueOK
  <2> QED
    BY <1>1, <1>2, <2>1 DEF QueueOK
<1>5. ASSUME InOrder(c) PROVE InOrder(d)
  <2>1. \A u : Bucket(d, u) = Bucket(c, u)
    BY <1>4 DEF Bucket
  <2>2. DOMAIN d.calendar = D /\ DOMAIN c.calendar = D
    BY <1>1, <1>2, <1>4
  <2> SUFFICES ASSUME NEW e \in D
               PROVE  /\ Sorted(less[e])
                      /\ \A j \in 1..Len(less[e]) : e = Bucket(c, less[e][j])
    BY <1>4, <2>1, <2>2 DEF InOrder
  <2>3. CASE e # b
    BY <1>2, <1>5, <2>2, <2>3 DEF InOrder
  <2>4. CASE e = b
    <3> DEFINE s == c.calendar[b]
    <3>1. Sorted(s) /\ \A j \in 1..Len(s) : b = Bucket(c, s[j])
      BY <1>2, <1>5, <2>2 DEF InOrder
    <3>2. s \in Seq(Time) /\ s # <<>>
      BY <1>1, <1>2 DEF Full
    <3>3. /\ Len(s) = Len(Tail(s)) + 1 /\ Tail(s) \in Seq(Time) /\ Sorted(Tail(s))
          /\ \A j \in 1..Len(Tail(s)) : s[j + 1] = Tail(s)[j]
      BY <3>1, <3>2, TailList
    <3> HIDE DEF s
    <3>4. \A j \in 1..Len(Tail(s)) : j + 1 \in 1..Len(s)
      BY <3>3, LenProperties
    <3>5. \A j \in 1..Len(Tail(s)) : b = Bucket(c, Tail(s)[j])
      BY <3>1, <3>3, <3>4
    <3> QED
      BY <1>2, <2>4, <3>3, <3>5 DEF s
  <2> QED
    BY <2>3, <2>4
<1> QED
  BY <1>1, <1>2, <1>4, <1>5 DEF d

\* The direct search finds the lowest of the heads.
LEMMA DirectFound ==
  ASSUME NEW c, QueueOK(c), Places(c.calendar) # {}
  PROVE  /\ Direct(c) \in Full(c.calendar)
         /\ \A d \in Full(c.calendar) : Head(c.calendar[Direct(c)]) <= Head(c.calendar[d])
<1> DEFINE D == 0..(c.nbuckets - 1)
           F == Full(c.calendar)
<1>0. c.nbuckets \in Nat \ {0} /\ c.calendar \in [D -> Seq(Time)]
  BY DEF QueueOK
<1>1. F # {} /\ F \subseteq Nat
  <2>1. PICK b \in D : \E j \in 1..Len(c.calendar[b]) : <<b, j>> \in Places(c.calendar)
    BY <1>0, PlaceIs
  <2>2. c.calendar[b] # <<>>
    BY <2>1, EmptySeq
  <2> QED
    BY <1>0, <2>1, <2>2 DEF Full
<1>2. \A b \in F : Head(c.calendar[b]) \in Nat
  <2> SUFFICES ASSUME NEW b \in F PROVE Head(c.calendar[b]) \in Nat
    OBVIOUS
  <2>1. Head(c.calendar[b]) \in Time
    BY <1>0, TailList DEF Full
  <2> QED
    BY <2>1, CalendarAssumption
<1> DEFINE H == {Head(c.calendar[b]) : b \in F}
<1>3. PICK h \in H : \A g \in H : h <= g
  <2>1. H # {} /\ H \subseteq Nat
    BY <1>1, <1>2
  <2> HIDE DEF H
  <2> QED
    BY <2>1, Least
<1> DEFINE B == {b \in F : Head(c.calendar[b]) = h}
<1>4. PICK b \in B : \A d \in B : b <= d
  <2>1. B # {} /\ B \subseteq Nat
    BY <1>1, <1>3
  <2> HIDE DEF B
  <2> QED
    BY <2>1, Least
<1>5. \A d \in F : \/ Head(c.calendar[b]) < Head(c.calendar[d])
                   \/ Head(c.calendar[b]) = Head(c.calendar[d]) /\ b <= d
  <2> SUFFICES ASSUME NEW d \in F
               PROVE  \/ Head(c.calendar[b]) < Head(c.calendar[d])
                      \/ Head(c.calendar[b]) = Head(c.calendar[d]) /\ b <= d
    OBVIOUS
  <2>1. Head(c.calendar[b]) = h /\ h <= Head(c.calendar[d]) /\ h \in Nat
    BY <1>2, <1>3, <1>4
  <2>2. CASE Head(c.calendar[d]) = h
    BY <1>4, <2>1, <2>2
  <2>3. CASE Head(c.calendar[d]) # h
    BY <1>2, <2>1, <2>3
  <2> QED
    BY <2>2, <2>3
<1>6. Direct(c) \in F
  <2>1. \E e \in F : \A d \in F : \/ Head(c.calendar[e]) < Head(c.calendar[d])
                                  \/ Head(c.calendar[e]) = Head(c.calendar[d]) /\ e <= d
    BY <1>4, <1>5
  <2> HIDE DEF F
  <2> QED
    BY <2>1 DEF Direct, F
<1>7. \A d \in F : \/ Head(c.calendar[Direct(c)]) < Head(c.calendar[d])
                   \/ Head(c.calendar[Direct(c)]) = Head(c.calendar[d]) /\ Direct(c) <= d
  <2>1. \E e \in F : \A d \in F : \/ Head(c.calendar[e]) < Head(c.calendar[d])
                                  \/ Head(c.calendar[e]) = Head(c.calendar[d]) /\ e <= d
    BY <1>4, <1>5
  <2> HIDE DEF F
  <2> QED
    BY <2>1 DEF Direct, F
<1> HIDE DEF F
<1>8. \A d \in F : Head(c.calendar[Direct(c)]) <= Head(c.calendar[d])
  BY <1>2, <1>6, <1>7
<1> QED
  BY <1>6, <1>8 DEF F

\* calqueue_deq finds an event when there is one: the scan one of the year it has reached,
\* the direct search one of any year.
LEMMA Taken ==
  ASSUME NEW c, QueueOK(c), c.lastbucket \in DOMAIN c.calendar, Places(c.calendar) # {}
  PROVE  \E b \in Full(c.calendar), x \in Int : Dequeue(c) = TakeFrom(c, b, x)
<1> DEFINE D == 0..(c.nbuckets - 1)
           F == Full(c.calendar)
           hits == {k \in D : Hit(c, k)}
           first == CHOOSE h \in hits : \A j \in hits : h <= j
<1>1. /\ c.nbuckets \in Nat \ {0} /\ c.calendar \in [D -> Seq(Time)] /\ c.lastbucket \in D
      /\ c.top \in Int /\ c.cwidth.num \in Int
  BY DEF QueueOK, Width
<1>2. \A k \in Int : Advanced(c, k) \in Int
  BY <1>1 DEF Advanced
<1>3. CASE hits # {}
  <2>1. \E h \in hits : \A j \in hits : h <= j
    <3>1. hits \subseteq Nat
      BY <1>1
    <3> HIDE DEF hits
    <3> QED
      BY <1>3, <3>1, Least
  <2>2. first \in hits
    BY <2>1
  <2> HIDE DEF first
  <2>3. Scanned(c, first) \in D
    <3>1. c.lastbucket + first \in Nat
      BY <1>1, <2>2
    <3> QED
      BY <1>1, <3>1, Division DEF Scanned
  <2>4. Scanned(c, first) \in F
    BY <1>1, <2>2, <2>3 DEF Hit, Full
  <2>5. Dequeue(c) = TakeFrom(c, Scanned(c, first), Advanced(c, first))
    BY <1>3 DEF Dequeue, first
  <2> QED
    BY <1>1, <1>2, <2>2, <2>4, <2>5
<1>4. CASE hits = {}
  <2>1. Direct(c) \in F
    BY DirectFound
  <2>2. Dequeue(c) = TakeFrom(c, Direct(c), Advanced(c, c.nbuckets))
    BY <1>4 DEF Dequeue
  <2>3. Advanced(c, c.nbuckets) \in Int
    BY <1>1 DEF Advanced
  <2> HIDE DEF D, hits, first, F
  <2> QED
    BY <2>1, <2>2, <2>3 DEF F
<1> QED
  BY <1>3, <1>4

-----------------------------------------------------------------------------
\* A number of buckets doublings and halvings can reach, from 2 up to MAXNBUCKETS.
Size(n) == n \in 2..MAXNBUCKETS /\ \E m \in 1..MAXNBUCKETS : n * m = MAXNBUCKETS

Widening == {"new_width", "sample", "put_back"}

\* The locals of new_width and resize are in use only while these run, and new_width takes
\* no more samples than there are events.
PhaseInv ==
    /\ pc \in Widening \cup {"user", "copy"}
    /\ newsize \in Nat /\ held \in [Time -> Int]
    /\ temp \in Seq(Time) /\ back \in Nat
    /\ small \in [sum : Int, count : Nat]
    /\ saved \in [nsamples : Nat, lastbucket : Int, lastprio : Time, top : Int]
    /\ pc \notin {"sample", "put_back"} => temp = <<>>
    /\ pc # "put_back" => back = 0
    /\ pc # "copy" => old = NoOld
    /\ pc = "sample" => Len(temp) < saved.nsamples /\ saved.nsamples <= q.qsize + Len(temp)
    /\ pc = "put_back" => Len(temp) = saved.nsamples /\ back <= saved.nsamples

\* What is left of the old calendar, of n buckets at the other end of calq, does not fill
\* the new one to its threshold.
OldInv(n) ==
    /\ Size(n)
    /\ old \in [firstsub : {0, CALQSPACE - n}, calendar : [0..(n - 1) -> Seq(Time)]]
    /\ old.firstsub = 0 <=> q.firstsub # 0
    /\ IsFiniteSet(Places(old.calendar))
    /\ q.qsize + Cardinality(Places(old.calendar)) <= 2 * q.nbuckets

\* A calendar is at one end of calq, and a resize will hold the events there are.
SizeInv ==
    /\ Size(q.nbuckets) /\ q.firstsub \in {0, CALQSPACE - q.nbuckets}
    /\ pc = "user" /\ q.nbuckets < MAXNBUCKETS => q.qsize <= 2 * q.nbuckets
    /\ pc \in Widening => Size(newsize) /\ q.qsize + (Len(temp) - back) <= 2 * newsize
    /\ pc = "copy" => \E n \in Nat : OldInv(n)

\* Until a resize finds a negative width, nothing is lost or out of order.
ContentsInv ==
    WidthNotNegative => Conserved /\ InOrder(q) /\ q.lastbucket \in DOMAIN q.calendar

CalendarInv ==
    /\ QueueOK(q) /\ IsFiniteSet(Places(q.calendar))
    /\ pc \in Widening => WidthNotNegative
    /\ PhaseInv /\ SizeInv /\ ContentsInv

\* The samples from the k-th on that have time t.
InHand(s, k, t) == {i \in (k + 1)..Len(s) : s[i] = t}

-----------------------------------------------------------------------------
\* A list of samples is short, and every one is taken or put back once.
LEMMA Samples ==
  ASSUME NEW s \in Seq(Time), NEW k \in Nat, NEW t
  PROVE  /\ Cardinality(InHand(s, k, t)) \in Nat
         /\ k >= Len(s) => Cardinality(InHand(s, k, t)) = 0
         /\ k < Len(s) => Cardinality(InHand(s, k, t)) =
                          Cardinality(InHand(s, k + 1, t)) + IF t = s[k + 1] THEN 1 ELSE 0
<1>1. Len(s) \in Nat
  BY LenProperties
<1>2. \A m \in Nat : IsFiniteSet(InHand(s, m, t)) /\ Cardinality(InHand(s, m, t)) \in Nat
  <2> SUFFICES ASSUME NEW m \in Nat
               PROVE  IsFiniteSet(InHand(s, m, t)) /\ Cardinality(InHand(s, m, t)) \in Nat
    OBVIOUS
  <2>1. IsFiniteSet((m + 1)..Len(s))
    BY <1>1, FS_Interval
  <2>2. InHand(s, m, t) \subseteq (m + 1)..Len(s)
    BY DEF InHand
  <2>3. IsFiniteSet(InHand(s, m, t))
    BY <2>1, <2>2, FS_Subset
  <2> QED
    BY <2>3, FS_CardinalityType
<1>3. ASSUME k >= Len(s) PROVE Cardinality(InHand(s, k, t)) = 0
  <2>1. InHand(s, k, t) = {}
    BY <1>1, <1>3 DEF InHand
  <2> QED
    BY <2>1, FS_EmptySet
<1>4. ASSUME k < Len(s)
      PROVE  Cardinality(InHand(s, k, t)) =
             Cardinality(InHand(s, k + 1, t)) + IF t = s[k + 1] THEN 1 ELSE 0
  <2> DEFINE S == InHand(s, k, t)
  <2>1. InHand(s, k + 1, t) = S \ {k + 1}
    BY <1>1 DEF InHand
  <2>2. k + 1 \in S <=> t = s[k + 1]
    BY <1>1, <1>4 DEF InHand
  <2>3. IsFiniteSet(S) /\ Cardinality(S) \in Nat
    BY <1>2
  <2> HIDE DEF S
  <2>4. Cardinality(S \ {k + 1}) = IF k + 1 \in S THEN Cardinality(S) - 1 ELSE Cardinality(S)
    BY <2>3, FS_RemoveElement
  <2>5. Cardinality(S) = Cardinality(S \ {k + 1}) + IF t = s[k + 1] THEN 1 ELSE 0
    BY <2>2, <2>3, <2>4
  <2> QED
    BY <2>1, <2>5 DEF S
<1> QED
  BY <1>2, <1>3, <1>4

\* A sample is added to temp.
LEMMA SampleAdded ==
  ASSUME NEW s \in Seq(Time), NEW x \in Time, NEW t
  PROVE  /\ Append(s, x) \in Seq(Time) /\ Len(Append(s, x)) = Len(s) + 1
         /\ Cardinality(InHand(Append(s, x), 0, t)) =
            Cardinality(InHand(s, 0, t)) + IF t = x THEN 1 ELSE 0
<1> DEFINE r == Append(s, x)
           n == Len(s)
<1>1. n \in Nat /\ r \in Seq(Time) /\ Len(r) = n + 1 /\ r[n + 1] = x
  BY LenProperties, AppendProperties
<1>2. \A i \in 1..n : r[i] = s[i]
  BY LenProperties, AppendProperties
<1> HIDE DEF r, n
<1>3. InHand(s, 0, t) = InHand(r, 0, t) \ {n + 1} /\ (n + 1 \in InHand(r, 0, t) <=> t = x)
  BY <1>1, <1>2 DEF InHand, n
<1>4. IsFiniteSet(InHand(r, 0, t))
  <2>1. IsFiniteSet(1..(n + 1))
    BY <1>1, FS_Interval
  <2>2. InHand(r, 0, t) \subseteq 1..(n + 1)
    BY <1>1 DEF InHand
  <2> QED
    BY <2>1, <2>2, FS_Subset
<1>5. Cardinality(InHand(r, 0, t)) \in Nat
  BY <1>4, FS_CardinalityType
<1>6. Cardinality(InHand(r, 0, t) \ {n + 1}) =
        IF n + 1 \in InHand(r, 0, t) THEN Cardinality(InHand(r, 0, t)) - 1
        ELSE Cardinality(InHand(r, 0, t))
  BY <1>4, FS_RemoveElement
<1>7. Cardinality(InHand(r, 0, t)) = Cardinality(InHand(s, 0, t)) + IF t = x THEN 1 ELSE 0
  <2> DEFINE R == InHand(r, 0, t)
             S == InHand(s, 0, t)
  <2>1. Cardinality(R) \in Nat /\ S = R \ {n + 1} /\ (n + 1 \in R <=> t = x)
    BY <1>3, <1>5
  <2>2. Cardinality(R \ {n + 1}) = IF n + 1 \in R THEN Cardinality(R) - 1 ELSE Cardinality(R)
    BY <1>6
  <2> HIDE DEF R, S
  <2>3. Cardinality(R) = Cardinality(S) + IF t = x THEN 1 ELSE 0
    BY <2>1, <2>2
  <2> QED
    BY <2>3 DEF R, S
<1> QED
  BY <1>1, <1>7 DEF r, n

\* The events of time t in a calendar are finitely many.
LEMMA CountIsNat ==
  ASSUME NEW cal, IsFiniteSet(Places(cal))
  PROVE  Cardinality(Places(cal)) \in Nat /\ \A t : Cardinality(PlacesOf(cal, t)) \in Nat
<1>1. \A t : IsFiniteSet(PlacesOf(cal, t))
  BY FS_Subset DEF PlacesOf
<1> QED
  BY <1>1, FS_CardinalityType

\* Where nothing is left there is nothing to count.
LEMMA NothingLeft ==
  ASSUME NEW cal, \A b \in DOMAIN cal : cal[b] = <<>>
  PROVE  Places(cal) = {} /\ Cardinality(Places(cal)) = 0 /\ IsFiniteSet(Places(cal))
         /\ \A t : Cardinality(PlacesOf(cal, t)) = 0
<1>1. Len(<<>>) = 0
  BY EmptySeq
<1>2. Places(cal) = {}
  BY <1>1, PlaceIs
<1>3. \A t : PlacesOf(cal, t) = {}
  BY <1>2 DEF PlacesOf
<1> QED
  BY <1>2, <1>3, FS_EmptySet

\* No old calendar, no events in it.
LEMMA NoOldEmpty ==
  /\ \A t : Cardinality(PlacesOf(NoOld.calendar, t)) = 0
  /\ DOMAIN NoOld.calendar = {}
<1>1. DOMAIN <<>> = {}
  OBVIOUS
<1> QED
  BY <1>1, NothingLeft DEF NoOld

\* Twice or half a number of buckets is a number of buckets, as MAXNBUCKETS is a power of two.
LEMMA SizesDouble ==
  ASSUME NEW n, Size(n)
  PROVE  /\ n < MAXNBUCKETS => Size(2 * n)
         /\ n \div 2 >= 2 => Size(n \div 2) /\ 2 * (n \div 2) = n
<1>1. PICK m \in 1..MAXNBUCKETS : n * m = MAXNBUCKETS /\ n \in 2..MAXNBUCKETS
  BY DEF Size
<1>a. n \in 1..MAXNBUCKETS /\ n > 1 /\ MAXNBUCKETS \in Nat
  BY <1>1, CalendarAssumption
<1>b. \A i, j \in 1..MAXNBUCKETS :
        i * j = MAXNBUCKETS /\ j > 1 => \E k \in 1..MAXNBUCKETS : j = 2 * k
  BY CalendarAssumption
<1>2. ASSUME n < MAXNBUCKETS PROVE Size(2 * n)
  <2>1. m > 1
    BY <1>1, <1>2, CalendarAssumption
  <2>2. PICK k \in 1..MAXNBUCKETS : m = 2 * k
    BY <1>1, <1>a, <1>b, <2>1
  <2>3. (2 * n) * k = MAXNBUCKETS
    BY <1>1, <2>2, CalendarAssumption
  <2>4. 2 * n <= MAXNBUCKETS
    BY <1>1, <2>3, CalendarAssumption
  <2> QED
    BY <1>1, <2>3, <2>4, CalendarAssumption DEF Size
<1>3. ASSUME n \div 2 >= 2 PROVE Size(n \div 2) /\ 2 * (n \div 2) = n
  <2>1. m * n = MAXNBUCKETS
    BY <1>1, CalendarAssumption
  <2>2. PICK k \in 1..MAXNBUCKETS : n = 2 * k
    BY <1>1, <1>a, <1>b, <2>1
  <2>3. n \div 2 = k
    BY <2>2, CalendarAssumption
  <2>4. k * (2 * m) = MAXNBUCKETS
    BY <1>1, <2>2, CalendarAssumption
  <2>5. 2 * m <= MAXNBUCKETS
    BY <1>1, <2>2, <2>4, CalendarAssumption
  <2>6. 2 * m \in 1..MAXNBUCKETS
    BY <1>1, <2>5, CalendarAssumption
  <2>7. Size(k)
    BY <1>3, <2>3, <2>4, <2>6 DEF Size
  <2> QED
    BY <2>2, <2>3, <2>7
<1> QED
  BY <1>2, <1>3

-----------------------------------------------------------------------------
\* What the invariant says of the counts.
LEMMA Counts ==
  ASSUME CalendarInv, WidthNotNegative
  PROVE  /\ q.qsize = Cardinality(Places(q.calendar))
         /\ \A t \in Time :
              held[t] = Cardinality(PlacesOf(q.calendar, t)) + Cardinality(InHand(temp, back, t))
                        + Cardinality(PlacesOf(old.calendar, t))
         /\ InOrder(q) /\ q.lastbucket \in DOMAIN q.calendar
BY DEF CalendarInv, ContentsInv, Conserved, InHand

\* And how they are put together again.
LEMMA Counted ==
  ASSUME q'.qsize = Cardinality(Places(q'.calendar)),
         \A t \in Time :
           held'[t] = Cardinality(PlacesOf(q'.calendar, t)) + Cardinality(InHand(temp', back', t))
                      + Cardinality(PlacesOf(old'.calendar, t)),
         InOrder(q'), q'.lastbucket \in DOMAIN q'.calendar
  PROVE  ContentsInv'
BY DEF ContentsInv, Conserved, InHand, InOrder, Sorted, Bucket, VirtualBucket, ActualBucket,
       Places, PlacesOf

\* The counts of the invariant are numbers.
LEMMA CountsAreNat ==
  ASSUME CalendarInv, NEW t
  PROVE  /\ Cardinality(PlacesOf(q.calendar, t)) \in Nat
         /\ Cardinality(InHand(temp, back, t)) \in Nat
         /\ Cardinality(PlacesOf(old.calendar, t)) \in Nat
<1>1. Cardinality(PlacesOf(q.calendar, t)) \in Nat
  BY CountIsNat DEF CalendarInv
<1>2. Cardinality(InHand(temp, back, t)) \in Nat
  BY Samples DEF CalendarInv, PhaseInv
<1>3. CASE pc = "copy"
  <2>1. IsFiniteSet(Places(old.calendar))
    BY <1>3 DEF CalendarInv, SizeInv, OldInv
  <2> QED
    BY <1>1, <1>2, <2>1, CountIsNat
<1>4. CASE pc # "copy"
  BY <1>1, <1>2, <1>4, NoOldEmpty DEF CalendarInv, PhaseInv
<1> QED
  BY <1>3, <1>4

\* calqueue_put of the queue: one event more, which the counts show unless the width is negative.
LEMMA Enqueued ==
  ASSUME CalendarInv, NEW t \in Time, q' = Place(q, t)
  PROVE  /\ QueueOK(q') /\ q'.qsize = q.qsize + 1
         /\ q'.firstsub = q.firstsub /\ q'.nbuckets = q.nbuckets /\ q'.cwidth = q.cwidth
         /\ q'.lastbucket = q.lastbucket /\ IsFiniteSet(Places(q'.calendar))
         /\ WidthNotNegative =>
              /\ Cardinality(Places(q'.calendar)) = Cardinality(Places(q.calendar)) + 1
              /\ \A u : Cardinality(PlacesOf(q'.calendar, u)) =
                        Cardinality(PlacesOf(q.calendar, u)) + IF u = t THEN 1 ELSE 0
              /\ InOrder(q) => InOrder(q')
<1> DEFINE d == Place(q, t)
<1>1. QueueOK(q) /\ IsFiniteSet(Places(q.calendar))
  BY DEF CalendarInv
<1>2. /\ QueueOK(d) /\ d.qsize = q.qsize + 1
      /\ d.firstsub = q.firstsub /\ d.nbuckets = q.nbuckets /\ d.cwidth = q.cwidth
      /\ d.lastbucket = q.lastbucket /\ IsFiniteSet(Places(d.calendar))
      /\ q.cwidth.num >= 0 =>
           /\ Cardinality(Places(d.calendar)) = Cardinality(Places(q.calendar)) + 1
           /\ \A u : Cardinality(PlacesOf(d.calendar, u)) =
                     Cardinality(PlacesOf(q.calendar, u)) + IF u = t THEN 1 ELSE 0
           /\ InOrder(q) => InOrder(d)
  BY <1>1, Placed
<1>3. q' = d
  OBVIOUS
<1> HIDE DEF d
<1> QED
  BY <1>2, <1>3 DEF WidthNotNegative

\* A put keeps the invariant, and asks for a calendar that will hold the events.
LEMMA PutStep ==
  ASSUME CalendarInv, NEW t \in Time, Put(t)
  PROVE  CalendarInv'
<1>1. /\ pc = "user" /\ WidthNotNegative /\ q' = Place(q, t)
      /\ held' = [held EXCEPT ![t] = @ + 1]
      /\ UNCHANGED <<saved, temp, back, small, old>>
  BY DEF Put, WidthNotNegative, widthVars
<1>2. \/ pc' = "user" /\ UNCHANGED newsize
      \/ /\ pc' = "new_width" /\ newsize' = 2 * q.nbuckets
         /\ q'.qsize > 2 * q.nbuckets /\ q.nbuckets < MAXNBUCKETS
  BY <1>1 DEF Put, Resizes, Doubled
<1>3. QueueOK(q) /\ IsFiniteSet(Places(q.calendar))
  BY DEF CalendarInv
<1>4. /\ QueueOK(q') /\ q'.qsize = q.qsize + 1
      /\ q'.firstsub = q.firstsub /\ q'.nbuckets = q.nbuckets /\ q'.cwidth = q.cwidth
      /\ q'.lastbucket = q.lastbucket /\ IsFiniteSet(Places(q'.calendar))
      /\ Cardinality(Places(q'.calendar)) = Cardinality(Places(q.calendar)) + 1
      /\ \A u : Cardinality(PlacesOf(q'.calendar, u)) =
                Cardinality(PlacesOf(q.calendar, u)) + IF u = t THEN 1 ELSE 0
      /\ InOrder(q) => InOrder(q')
  BY <1>1, Enqueued
<1>5. q.qsize \in Int /\ q.nbuckets \in Nat /\ DOMAIN q.calendar = DOMAIN q'.calendar
  BY <1>3, <1>4 DEF QueueOK
<1>6. PhaseInv'
  <2>1. temp = <<>> /\ back = 0 /\ old = NoOld /\ held' \in [Time -> Int] /\ newsize' \in Nat
    BY <1>1, <1>2, <1>5 DEF CalendarInv, PhaseInv
  <2> QED
    BY <1>1, <1>2, <2>1 DEF CalendarInv, PhaseInv, Widening
<1>7. SizeInv'
  <2>1. Size(q.nbuckets) /\ q.firstsub \in {0, CALQSPACE - q.nbuckets}
    BY DEF CalendarInv, SizeInv
  <2>2. Size(q'.nbuckets) /\ q'.firstsub \in {0, CALQSPACE - q'.nbuckets}
    BY <1>4, <2>1
  <2>3. temp' = <<>> /\ back' = 0 /\ Len(<<>>) = 0
    BY <1>1, EmptySeq DEF CalendarInv, PhaseInv
  <2>4. Size(q.nbuckets) => q.nbuckets >= 1
    BY CalendarAssumption DEF Size
  <2>5. q.nbuckets < MAXNBUCKETS => q.qsize <= 2 * q.nbuckets
    BY <1>1 DEF CalendarInv, SizeInv
  <2>6. CASE pc' = "user"
    <3>1. q'.nbuckets < MAXNBUCKETS => q'.qsize <= 2 * q'.nbuckets
      BY <1>1, <1>4, <1>5, <2>6 DEF Put, Resizes
    <3> QED
      BY <2>2, <2>6, <3>1 DEF SizeInv, Widening, Size
  <2>7. CASE pc' = "new_width"
    <3>1. newsize' = 2 * q.nbuckets /\ Size(newsize') /\ q.nbuckets < MAXNBUCKETS
      BY <1>2, <2>1, <2>7, SizesDouble
    <3>2. q'.qsize + (Len(temp') - back') <= 2 * newsize'
      BY <1>4, <1>5, <2>1, <2>3, <2>4, <2>5, <3>1
    <3> QED
      BY <2>2, <2>7, <3>1, <3>2 DEF SizeInv, Widening, Size
  <2> QED
    BY <1>2, <2>6, <2>7
<1>8. ContentsInv'
  <2>1. /\ q.qsize = Cardinality(Places(q.calendar)) /\ InOrder(q)
        /\ q.lastbucket \in DOMAIN q.calendar
        /\ \A u \in Time :
             held[u] = Cardinality(PlacesOf(q.calendar, u)) + Cardinality(InHand(temp, back, u))
                       + Cardinality(PlacesOf(old.calendar, u))
    BY <1>1, Counts
  <2>2. ASSUME NEW u \in Time
        PROVE  held'[u] = Cardinality(PlacesOf(q'.calendar, u))
                          + Cardinality(InHand(temp', back', u))
                          + Cardinality(PlacesOf(old'.calendar, u))
    <3>1. /\ Cardinality(PlacesOf(q.calendar, u)) \in Nat
          /\ Cardinality(InHand(temp, back, u)) \in Nat
          /\ Cardinality(PlacesOf(old.calendar, u)) \in Nat
      BY CountsAreNat
    <3>2. held'[u] = held[u] + IF u = t THEN 1 ELSE 0
      <4>1. held \in [Time -> Int]
        BY DEF CalendarInv, PhaseInv
      <4> QED
        BY <1>1, <4>1
    <3> QED
      BY <1>1, <1>4, <2>1, <3>1, <3>2
  <2>3. q'.qsize = Cardinality(Places(q'.calendar))
    BY <1>4, <2>1
  <2> QED
    BY <1>4, <1>5, <2>1, <2>2, <2>3, Counted
<1> QED
  BY <1>1, <1>4, <1>6, <1>7, <1>8 DEF CalendarInv, WidthNotNegative, Places

\* calqueue_deq of a queue that is not empty takes one event out, the one lastprio then names.
LEMMA Dequeued ==
  ASSUME CalendarInv, WidthNotNegative, q.qsize > 0, q' = Dequeue(q)
  PROVE  /\ QueueOK(q') /\ q'.qsize = q.qsize - 1 /\ q'.qsize \in Nat
         /\ q'.firstsub = q.firstsub /\ q'.nbuckets = q.nbuckets /\ q'.cwidth = q.cwidth
         /\ q'.lastprio \in Time /\ q'.lastbucket \in DOMAIN q'.calendar
         /\ IsFiniteSet(Places(q'.calendar)) /\ q'.qsize = Cardinality(Places(q'.calendar))
         /\ \A u : /\ Cardinality(PlacesOf(q'.calendar, u)) \in Nat
                   /\ Cardinality(PlacesOf(q.calendar, u)) =
                      Cardinality(PlacesOf(q'.calendar, u)) + IF u = q'.lastprio THEN 1 ELSE 0
         /\ InOrder(q')
<1>1. /\ QueueOK(q) /\ IsFiniteSet(Places(q.calendar)) /\ InOrder(q)
      /\ q.lastbucket \in DOMAIN q.calendar /\ q.qsize = Cardinality(Places(q.calendar))
  BY Counts DEF CalendarInv
<1>2. Places(q.calendar) # {}
  BY <1>1, FS_EmptySet
<1>3. PICK b \in Full(q.calendar), x \in Int : q' = TakeFrom(q, b, x)
  BY <1>1, <1>2, Taken
<1>4. /\ QueueOK(q') /\ q'.qsize = q.qsize - 1
      /\ q'.firstsub = q.firstsub /\ q'.nbuckets = q.nbuckets /\ q'.cwidth = q.cwidth
      /\ q'.lastprio \in Time /\ q'.lastbucket \in DOMAIN q'.calendar
      /\ IsFiniteSet(Places(q'.calendar))
      /\ Cardinality(Places(q.calendar)) = Cardinality(Places(q'.calendar)) + 1
      /\ \A u : Cardinality(PlacesOf(q.calendar, u)) =
                Cardinality(PlacesOf(q'.calendar, u)) + IF u = q'.lastprio THEN 1 ELSE 0
      /\ InOrder(q')
  <2>1. QueueOK(q) /\ b \in Full(q.calendar) /\ x \in Int /\ IsFiniteSet(Places(q.calendar))
    BY <1>1
  <2> DEFINE d == TakeFrom(q, b, x)
  <2>2. /\ QueueOK(d) /\ d.qsize = q.qsize - 1
        /\ d.firstsub = q.firstsub /\ d.nbuckets = q.nbuckets /\ d.cwidth = q.cwidth
        /\ d.lastprio \in Time /\ d.lastbucket \in DOMAIN d.calendar
        /\ IsFiniteSet(Places(d.calendar))
        /\ Cardinality(Places(q.calendar)) = Cardinality(Places(d.calendar)) + 1
        /\ \A u : Cardinality(PlacesOf(q.calendar, u)) =
                  Cardinality(PlacesOf(d.calendar, u)) + IF u = d.lastprio THEN 1 ELSE 0
        /\ InOrder(q) => InOrder(d)
    BY <2>1, TakenFrom
  <2>3. q' = d
    BY <1>3
  <2> HIDE DEF d
  <2> QED
    BY <1>1, <2>2, <2>3
<1>5. /\ Cardinality(Places(q'.calendar)) \in Nat
      /\ \A u : Cardinality(PlacesOf(q'.calendar, u)) \in Nat
  BY <1>4, CountIsNat
<1>6. q'.qsize = Cardinality(Places(q'.calendar)) /\ q'.qsize \in Nat
  BY <1>1, <1>4, <1>5
<1> QED
  BY <1>4, <1>5, <1>6

\* A get keeps the invariant, and asks for a calendar that will hold the events.
LEMMA GetStep ==
  ASSUME CalendarInv, Get
  PROVE  CalendarInv'
<1>1. /\ pc = "user" /\ WidthNotNegative /\ q.qsize > 0 /\ q' = Dequeue(q)
      /\ held' = [held EXCEPT ![q'.lastprio] = @ - 1]
      /\ UNCHANGED <<saved, temp, back, small, old>>
  BY DEF Get, WidthNotNegative, widthVars
<1>2. \/ pc' = "user" /\ UNCHANGED newsize
      \/ /\ pc' = "new_width" /\ newsize' = q.nbuckets \div 2
         /\ q'.qsize < q.nbuckets \div 2 - 2
  BY <1>1 DEF Get, Resizes
<1>3. /\ QueueOK(q') /\ q'.qsize = q.qsize - 1 /\ q'.qsize \in Nat
      /\ q'.firstsub = q.firstsub /\ q'.nbuckets = q.nbuckets /\ q'.cwidth = q.cwidth
      /\ q'.lastprio \in Time /\ q'.lastbucket \in DOMAIN q'.calendar
      /\ IsFiniteSet(Places(q'.calendar)) /\ q'.qsize = Cardinality(Places(q'.calendar))
      /\ \A u : /\ Cardinality(PlacesOf(q'.calendar, u)) \in Nat
                /\ Cardinality(PlacesOf(q.calendar, u)) =
                   Cardinality(PlacesOf(q'.calendar, u)) + IF u = q'.lastprio THEN 1 ELSE 0
      /\ InOrder(q')
  BY <1>1, Dequeued
<1>4. q.qsize \in Int /\ q.nbuckets \in Nat \ {0}
  BY DEF CalendarInv, QueueOK
<1>5. held \in [Time -> Int]
  BY DEF CalendarInv, PhaseInv
<1>6. PhaseInv'
  <2>1. held' \in [Time -> Int]
    BY <1>1, <1>3, <1>5
  <2>2. temp = <<>> /\ back = 0 /\ old = NoOld /\ newsize' \in Nat
    BY <1>1, <1>2, <1>4 DEF CalendarInv, PhaseInv
  <2> QED
    BY <1>1, <1>2, <2>1, <2>2 DEF CalendarInv, PhaseInv, Widening
<1>7. SizeInv'
  <2>1. Size(q.nbuckets) /\ q.firstsub \in {0, CALQSPACE - q.nbuckets}
    BY DEF CalendarInv, SizeInv
  <2>2. Size(q'.nbuckets) /\ q'.firstsub \in {0, CALQSPACE - q'.nbuckets}
    BY <1>3, <2>1
  <2>3. temp' = <<>> /\ back' = 0 /\ Len(<<>>) = 0
    BY <1>1, EmptySeq DEF CalendarInv, PhaseInv
  <2>4. CASE pc' = "user"
    <3>1. q'.nbuckets < MAXNBUCKETS => q'.qsize <= 2 * q'.nbuckets
      BY <1>1, <1>3, <1>4 DEF CalendarInv, SizeInv
    <3> QED
      BY <2>2, <2>4, <3>1 DEF SizeInv, Widening, Size
  <2>5. CASE pc' = "new_width"
    <3>1. /\ newsize' = q.nbuckets \div 2 /\ q'.qsize < newsize' - 2 /\ newsize' \in Nat
          /\ q.nbuckets \div 2 >= 2
      BY <1>2, <1>3, <1>4, <2>5
    <3>2. Size(newsize')
      BY <2>1, <3>1, SizesDouble
    <3>3. q'.qsize + (Len(temp') - back') <= 2 * newsize'
      BY <1>3, <2>3, <3>1
    <3> QED
      BY <2>2, <2>5, <3>2, <3>3 DEF SizeInv, Widening, Size
  <2> QED
    BY <1>2, <2>4, <2>5
<1>8. ContentsInv'
  <2>1. \A u \in Time :
             held[u] = Cardinality(PlacesOf(q.calendar, u)) + Cardinality(InHand(temp, back, u))
                       + Cardinality(PlacesOf(old.calendar, u))
    BY <1>1, Counts
  <2>2. ASSUME NEW u \in Time
        PROVE  held'[u] = Cardinality(PlacesOf(q'.calendar, u))
                          + Cardinality(InHand(temp', back', u))
                          + Cardinality(PlacesOf(old'.calendar, u))
    <3>1. /\ Cardinality(InHand(temp, back, u)) \in Nat
          /\ Cardinality(PlacesOf(old.calendar, u)) \in Nat
      BY CountsAreNat
    <3>2. held'[u] = held[u] - IF u = q'.lastprio THEN 1 ELSE 0
      BY <1>1, <1>3, <1>5
    <3> QED
      BY <1>1, <1>3, <2>1, <3>1, <3>2
  <2> QED
    BY <1>3, <2>2, Counted
<1> QED
  BY <1>1, <1>3, <1>6, <1>7, <1>8 DEF CalendarInv, WidthNotNegative, Places

\* new_width takes a sample: there is one, and it is in hand from then on.
LEMMA TakeSampleStep ==
  ASSUME CalendarInv, TakeSample
  PROVE  CalendarInv'
<1>1. /\ pc = "sample" /\ q' = Dequeue(q) /\ temp' = Append(temp, q'.lastprio)
      /\ pc' = (IF Len(temp') = saved.nsamples THEN "put_back" ELSE "sample")
      /\ UNCHANGED <<newsize, saved, back, small, old, held>>
  BY DEF TakeSample
<1>2. /\ WidthNotNegative /\ back = 0 /\ old = NoOld /\ temp \in Seq(Time) /\ Len(temp) \in Nat
      /\ Len(temp) < saved.nsamples /\ saved.nsamples <= q.qsize + Len(temp)
      /\ saved.nsamples \in Nat /\ q.qsize \in Int
  BY <1>1, LenProperties DEF CalendarInv, PhaseInv, Widening, QueueOK
<1>3. q.qsize > 0
  BY <1>2
<1>4. /\ QueueOK(q') /\ q'.qsize = q.qsize - 1 /\ q'.qsize \in Nat
      /\ q'.firstsub = q.firstsub /\ q'.nbuckets = q.nbuckets /\ q'.cwidth = q.cwidth
      /\ q'.lastprio \in Time /\ q'.lastbucket \in DOMAIN q'.calendar
      /\ IsFiniteSet(Places(q'.calendar)) /\ q'.qsize = Cardinality(Places(q'.calendar))
      /\ \A u : /\ Cardinality(PlacesOf(q'.calendar, u)) \in Nat
                /\ Cardinality(PlacesOf(q.calendar, u)) =
                   Cardinality(PlacesOf(q'.calendar, u)) + IF u = q'.lastprio THEN 1 ELSE 0
      /\ InOrder(q')
  BY <1>1, <1>2, <1>3, Dequeued
<1>5. temp' \in Seq(Time) /\ Len(temp') = Len(temp) + 1
  BY <1>1, <1>2, <1>4, SampleAdded
<1>6. PhaseInv'
  <2>1. /\ pc' = "sample" => Len(temp') < saved.nsamples
        /\ saved.nsamples <= q'.qsize + Len(temp')
        /\ pc' = "put_back" => Len(temp') = saved.nsamples
    BY <1>1, <1>2, <1>4, <1>5
  <2> QED
    BY <1>1, <1>2, <1>5, <2>1 DEF CalendarInv, PhaseInv, Widening
<1>7. SizeInv'
  <2>1. /\ Size(q'.nbuckets) /\ q'.firstsub \in {0, CALQSPACE - q'.nbuckets} /\ Size(newsize')
        /\ q.qsize + (Len(temp) - back) <= 2 * newsize /\ newsize \in Nat
    BY <1>1, <1>4 DEF CalendarInv, PhaseInv, SizeInv, Widening
  <2>2. q'.qsize + (Len(temp') - back') <= 2 * newsize'
    BY <1>1, <1>2, <1>4, <1>5, <2>1
  <2> QED
    BY <1>1, <2>1, <2>2 DEF SizeInv, Size
<1>8. ContentsInv'
  <2>1. \A u \in Time :
             held[u] = Cardinality(PlacesOf(q.calendar, u)) + Cardinality(InHand(temp, back, u))
                       + Cardinality(PlacesOf(old.calendar, u))
    BY <1>2, Counts
  <2>2. ASSUME NEW u \in Time
        PROVE  held'[u] = Cardinality(PlacesOf(q'.calendar, u))
                          + Cardinality(InHand(temp', back', u))
                          + Cardinality(PlacesOf(old'.calendar, u))
    <3>1. /\ Cardinality(InHand(temp, back, u)) \in Nat
          /\ Cardinality(PlacesOf(old.calendar, u)) \in Nat
      BY CountsAreNat
    <3>2. Cardinality(InHand(temp', 0, u)) =
            Cardinality(InHand(temp, 0, u)) + IF u = q'.lastprio THEN 1 ELSE 0
      BY <1>1, <1>2, <1>4, SampleAdded
    <3> QED
      BY <1>1, <1>2, <1>4, <2>1, <3>1, <3>2
  <2> QED
    BY <1>4, <2>2, Counted
<1> QED
  BY <1>1, <1>2, <1>4, <1>6, <1>7, <1>8 DEF CalendarInv, WidthNotNegative, Places

\* new_width puts a sample back.
LEMMA PutBackStep ==
  ASSUME CalendarInv, PutBack
  PROVE  CalendarInv'
<1>1. /\ pc = "put_back" /\ back < saved.nsamples /\ q' = Place(q, temp[back + 1])
      /\ back' = back + 1
      /\ UNCHANGED <<pc, newsize, saved, temp, old, held>>
  BY DEF PutBack
<1>2. /\ WidthNotNegative /\ back \in Nat /\ old = NoOld /\ temp \in Seq(Time)
      /\ Len(temp) \in Nat /\ Len(temp) = saved.nsamples
      /\ saved.nsamples \in Nat /\ q.qsize \in Int
  BY <1>1, LenProperties DEF CalendarInv, PhaseInv, Widening, QueueOK
<1>3. /\ \A i \in 1..Len(temp) : temp[i] \in Time /\ temp[i] \in Int
  BY <1>2, LenProperties, TimesAreNat
<1>4. temp[back + 1] \in Time
  BY <1>1, <1>2, <1>3
<1>5. /\ QueueOK(q') /\ q'.qsize = q.qsize + 1
      /\ q'.firstsub = q.firstsub /\ q'.nbuckets = q.nbuckets /\ q'.cwidth = q.cwidth
      /\ q'.lastbucket = q.lastbucket /\ IsFiniteSet(Places(q'.calendar))
      /\ Cardinality(Places(q'.calendar)) = Cardinality(Places(q.calendar)) + 1
      /\ \A u : Cardinality(PlacesOf(q'.calendar, u)) =
                Cardinality(PlacesOf(q.calendar, u)) + IF u = temp[back + 1] THEN 1 ELSE 0
      /\ InOrder(q) => InOrder(q')
  <2> DEFINE t == temp[back + 1]
  <2>1. t \in Time /\ q' = Place(q, t)
    BY <1>1, <1>4
  <2> HIDE DEF t
  <2>2. /\ QueueOK(q') /\ q'.qsize = q.qsize + 1
        /\ q'.firstsub = q.firstsub /\ q'.nbuckets = q.nbuckets /\ q'.cwidth = q.cwidth
        /\ q'.lastbucket = q.lastbucket /\ IsFiniteSet(Places(q'.calendar))
        /\ Cardinality(Places(q'.calendar)) = Cardinality(Places(q.calendar)) + 1
        /\ \A u : Cardinality(PlacesOf(q'.calendar, u)) =
                  Cardinality(PlacesOf(q.calendar, u)) + IF u = t THEN 1 ELSE 0
        /\ InOrder(q) => InOrder(q')
    BY <1>2, <2>1, Enqueued
  <2> QED
    BY <2>2 DEF t
<1>6. PhaseInv'
  <2>1. small' \in [sum : Int, count : Nat]
    <3>1. small \in [sum : Int, count : Nat]
      BY DEF CalendarInv, PhaseInv
    <3>2. \/ small' = small
          \/ /\ back + 1 > 1
             /\ small' = [sum |-> small.sum + (temp[back + 1] - temp[(back + 1) - 1]),
                          count |-> small.count + 1]
      BY DEF PutBack
    <3>3. CASE small' = small
      BY <3>1, <3>3
    <3>4. CASE /\ back + 1 > 1
               /\ small' = [sum |-> small.sum + (temp[back + 1] - temp[(back + 1) - 1]),
                            count |-> small.count + 1]
      <4>1. back + 1 \in 1..Len(temp) /\ (back + 1) - 1 \in 1..Len(temp)
        BY <1>1, <1>2, <3>4
      <4>2. temp[back + 1] \in Int /\ temp[(back + 1) - 1] \in Int
        BY <1>3, <4>1
      <4> QED
        BY <3>1, <3>4, <4>2
    <3> QED
      BY <3>2, <3>3, <3>4
  <2>2. back' \in Nat /\ back' <= saved.nsamples
    BY <1>1, <1>2
  <2> QED
    BY <1>1, <1>2, <2>1, <2>2 DEF CalendarInv, PhaseInv, Widening
<1>7. SizeInv'
  <2>1. /\ Size(q'.nbuckets) /\ q'.firstsub \in {0, CALQSPACE - q'.nbuckets} /\ Size(newsize')
        /\ q.qsize + (Len(temp) - back) <= 2 * newsize /\ newsize \in Nat
    BY <1>1, <1>5 DEF CalendarInv, PhaseInv, SizeInv, Widening
  <2>2. q'.qsize + (Len(temp') - back') <= 2 * newsize'
    BY <1>1, <1>2, <1>5, <2>1
  <2> QED
    BY <1>1, <2>1, <2>2 DEF SizeInv, Size
<1>8. ContentsInv'
  <2>1. /\ q.qsize = Cardinality(Places(q.calendar)) /\ InOrder(q)
        /\ q.lastbucket \in DOMAIN q.calendar
        /\ \A u \in Time :
             held[u] = Cardinality(PlacesOf(q.calendar, u)) + Cardinality(InHand(temp, back, u))
                       + Cardinality(PlacesOf(old.calendar, u))
    BY <1>2, Counts
  <2>2. ASSUME NEW u \in Time
        PROVE  held'[u] = Cardinality(PlacesOf(q'.calendar, u))
                          + Cardinality(InHand(temp', back', u))
                          + Cardinality(PlacesOf(old'.calendar, u))
    <3>1. /\ Cardinality(PlacesOf(q.calendar, u)) \in Nat
          /\ Cardinality(PlacesOf(old.calendar, u)) \in Nat
      BY CountsAreNat
    <3>2. Cardinality(InHand(temp, back, u)) =
            Cardinality(InHand(temp, back + 1, u)) + IF u = temp[back + 1] THEN 1 ELSE 0
      BY <1>1, <1>2, Samples
    <3>3. Cardinality(InHand(temp, back + 1, u)) \in Nat
      <4>1. back + 1 \in Nat
        BY <1>2
      <4> QED
        BY <1>2, <4>1, Samples
    <3> QED
      BY <1>1, <1>5, <2>1, <3>1, <3>2, <3>3
  <2>3. q'.qsize = Cardinality(Places(q'.calendar))
    BY <1>5, <2>1
  <2>4. DOMAIN q'.calendar = DOMAIN q.calendar
    BY <1>5 DEF CalendarInv, QueueOK
  <2> QED
    BY <1>5, <2>1, <2>2, <2>3, <2>4, Counted
<1> QED
  BY <1>1, <1>2, <1>5, <1>6, <1>7, <1>8 DEF CalendarInv, WidthNotNegative, Places

\* Nothing that the counts depend on changes.
LEMMA SameContents ==
  ASSUME ContentsInv, UNCHANGED <<q, temp, back, old, held>>
  PROVE  ContentsInv'
<1>1. ASSUME WidthNotNegative' PROVE ContentsInv'
  <2>1. WidthNotNegative
    BY <1>1 DEF WidthNotNegative
  <2>2. /\ q.qsize = Cardinality(Places(q.calendar))
        /\ InOrder(q) /\ q.lastbucket \in DOMAIN q.calendar
        /\ \A t \in Time :
             held[t] = Cardinality(PlacesOf(q.calendar, t)) + Cardinality(InHand(temp, back, t))
                       + Cardinality(PlacesOf(old.calendar, t))
    BY <2>1 DEF ContentsInv, Conserved, InHand
  <2> QED
    BY <2>2, Counted
<1> QED
  BY <1>1 DEF ContentsInv

\* resize goes on with an empty calendar of newsize buckets at the other end of calq: all
\* the events are in the old one, and do not fill the new one to its threshold.
LEMMA CopyStarts ==
  ASSUME CalendarInv, pc \in Widening, back >= Len(temp), NEW w \in Width, NEW c,
         c.firstsub = q.firstsub, c.calendar = q.calendar, c.lastprio \in Time, StartCopy(c, w)
  PROVE  CalendarInv'
<1> DEFINE base == NewBase(c)
           m == q.nbuckets
<1>1. /\ q' = localinit(base, newsize, w, c.lastprio)
      /\ old' = [firstsub |-> q.firstsub, calendar |-> q.calendar]
      /\ pc' = "copy" /\ saved' = NoSave /\ temp' = <<>> /\ back' = 0 /\ small' = NoSum
      /\ UNCHANGED <<newsize, held>>
  BY DEF StartCopy
<1>2. /\ QueueOK(q) /\ IsFiniteSet(Places(q.calendar)) /\ WidthNotNegative
      /\ temp \in Seq(Time) /\ Len(temp) \in Nat /\ back \in Nat /\ back <= Len(temp)
      /\ old = NoOld /\ held \in [Time -> Int]
      /\ Size(m) /\ q.firstsub \in {0, CALQSPACE - m}
      /\ Size(newsize) /\ q.qsize + (Len(temp) - back) <= 2 * newsize
  <2>1. temp \in Seq(Time) /\ Len(temp) \in Nat
    BY LenProperties DEF CalendarInv, PhaseInv
  <2>2. back \in Nat /\ back <= Len(temp)
    BY <2>1 DEF CalendarInv, PhaseInv
  <2> QED
    BY <2>1, <2>2 DEF CalendarInv, PhaseInv, SizeInv, Widening
<1>3. /\ m \in Nat /\ newsize \in Nat \ {0} /\ q.qsize \in Int
      /\ q.calendar \in [0..(m - 1) -> Seq(Time)]
      /\ m <= MAXNBUCKETS /\ newsize <= MAXNBUCKETS
  <2>1. /\ m \in Nat /\ newsize \in Nat \ {0}
        /\ m <= MAXNBUCKETS /\ newsize <= MAXNBUCKETS
    <3>1. Size(m) /\ Size(newsize)
      BY <1>2
    <3> HIDE DEF m
    <3> QED
      BY <3>1, CalendarAssumption DEF Size
  <2>2. QueueOK(q)
    BY <1>2
  <2>3. q.qsize \in Int /\ q.calendar \in [0..(m - 1) -> Seq(Time)]
    BY <2>2 DEF QueueOK
  <2> QED
    BY <2>1, <2>3
<1>4. base \in Nat /\ base \in {0, CALQSPACE - newsize} /\ (base # 0 <=> q.firstsub = 0)
  BY <1>3, CalendarAssumption DEF NewBase
<1> HIDE DEF base, m
<1>5. /\ QueueOK(q') /\ q'.firstsub = base /\ q'.nbuckets = newsize /\ q'.cwidth = w
      /\ q'.qsize = 0 /\ Places(q'.calendar) = {} /\ InOrder(q')
      /\ \A b \in DOMAIN q'.calendar : q'.calendar[b] = <<>>
      /\ w.num >= 0 => q'.lastbucket \in DOMAIN q'.calendar
  <2> DEFINE d == localinit(base, newsize, w, c.lastprio)
  <2>1. /\ QueueOK(d) /\ d.firstsub = base /\ d.nbuckets = newsize /\ d.cwidth = w
        /\ d.qsize = 0 /\ Places(d.calendar) = {} /\ InOrder(d)
        /\ \A b \in DOMAIN d.calendar : d.calendar[b] = <<>>
        /\ w.num >= 0 => d.lastbucket \in DOMAIN d.calendar
    BY <1>3, <1>4, Initialised
  <2>2. q' = d
    BY <1>1
  <2> HIDE DEF d
  <2> QED
    BY <2>1, <2>2
<1>6. q.qsize = Cardinality(Places(q.calendar)) /\ back = Len(temp)
  BY <1>2, Counts
<1>7. PhaseInv'
  <2>1. <<>> \in Seq(Time) /\ 0 \in Time
    BY CalendarAssumption
  <2>2. saved' \in [nsamples : Nat, lastbucket : Int, lastprio : Time, top : Int]
    BY <1>1, <2>1 DEF NoSave
  <2>3. small' \in [sum : Int, count : Nat]
    BY <1>1 DEF NoSum
  <2> QED
    BY <1>1, <1>2, <1>3, <2>1, <2>2, <2>3 DEF PhaseInv, Widening
<1>8. SizeInv'
  <2>1. /\ old' \in [firstsub : {0, CALQSPACE - m}, calendar : [0..(m - 1) -> Seq(Time)]]
        /\ old'.firstsub = q.firstsub /\ old'.calendar = q.calendar
    BY <1>1, <1>2, <1>3
  <2>2. q'.qsize + Cardinality(Places(old'.calendar)) <= 2 * q'.nbuckets
    BY <1>2, <1>3, <1>5, <1>6, <2>1
  <2>3. old'.firstsub = 0 <=> q'.firstsub # 0
    BY <1>4, <1>5, <2>1
  <2>4. IsFiniteSet(Places(old'.calendar))
    BY <1>2, <2>1
  <2>5. \E n \in Nat : OldInv(n)'
    BY <1>2, <1>3, <2>1, <2>2, <2>3, <2>4 DEF OldInv, Size, Places
  <2> QED
    BY <1>1, <1>2, <1>4, <1>5, <2>5 DEF SizeInv, Widening, Size
<1>9. ContentsInv'
  <2>1. CASE w.num >= 0
    <3>1. \A u \in Time :
             held[u] = Cardinality(PlacesOf(q.calendar, u)) + Cardinality(InHand(temp, back, u))
                       + Cardinality(PlacesOf(old.calendar, u))
      BY <1>2, Counts
    <3>2. ASSUME NEW u \in Time
          PROVE  held'[u] = Cardinality(PlacesOf(q'.calendar, u))
                            + Cardinality(InHand(temp', back', u))
                            + Cardinality(PlacesOf(old'.calendar, u))
      <4>1. Cardinality(InHand(temp, back, u)) = 0 /\ Cardinality(InHand(<<>>, 0, u)) = 0
        <5>1. <<>> \in Seq(Time) /\ Len(<<>>) = 0
          BY EmptySeq
        <5>2. Cardinality(InHand(<<>>, 0, u)) = 0
          <6>1. InHand(<<>>, 0, u) = {}
            BY <5>1 DEF InHand
          <6> QED
            BY <6>1, FS_EmptySet
        <5> QED
          BY <1>2, <1>6, <5>2, Samples
      <4>2. Cardinality(PlacesOf(old.calendar, u)) = 0
        BY <1>2, NoOldEmpty
      <4>3. Cardinality(PlacesOf(q'.calendar, u)) = 0
        BY <1>5, NothingLeft
      <4>4. Cardinality(PlacesOf(q.calendar, u)) \in Nat
        BY CountsAreNat
      <4>5. old'.calendar = q.calendar /\ held' = held
        BY <1>1
      <4>6. held[u] = Cardinality(PlacesOf(q.calendar, u))
        BY <3>1, <4>1, <4>2, <4>4
      <4> QED
        BY <1>1, <4>1, <4>3, <4>4, <4>5, <4>6
    <3>3. q'.qsize = Cardinality(Places(q'.calendar))
      BY <1>5, FS_EmptySet
    <3> QED
      BY <1>5, <2>1, <3>2, <3>3, Counted
  <2>2. CASE ~(w.num >= 0)
    BY <1>5, <2>2 DEF ContentsInv, WidthNotNegative
  <2> QED
    BY <2>1, <2>2
<1>10. IsFiniteSet(Places(q'.calendar))
  BY <1>5, FS_EmptySet
<1> QED
  BY <1>1, <1>5, <1>7, <1>8, <1>9, <1>10 DEF CalendarInv, Widening, Places

\* new_width finds fewer than two events, or will take some of them as samples.
LEMMA NewWidthStep ==
  ASSUME CalendarInv, NewWidth
  PROVE  CalendarInv'
<1>1. /\ pc = "new_width" /\ pc \in Widening /\ QueueOK(q) /\ temp = <<>> /\ back = 0
      /\ Len(temp) = 0
  BY EmptySeq DEF NewWidth, CalendarInv, PhaseInv, Widening
<1>2. q.lastprio \in Time /\ q.lastbucket \in Int /\ q.top \in Int /\ q.qsize \in Int
  BY <1>1 DEF QueueOK
<1>3. CASE StartCopy(q, UnitWidth)
  <2>1. UnitWidth \in Width
    BY CalendarAssumption DEF UnitWidth, Width
  <2> QED
    BY <1>1, <1>2, <1>3, <2>1, CopyStarts
<1>4. CASE /\ q.qsize >= 2
           /\ saved' = [nsamples |-> nsamples(q.qsize), lastbucket |-> q.lastbucket,
                        lastprio |-> q.lastprio, top |-> q.top]
           /\ pc' = "sample"
           /\ UNCHANGED <<q, newsize, temp, back, small, old, held, got>>
  <2>1. nsamples(q.qsize) \in Nat /\ 0 < nsamples(q.qsize) /\ nsamples(q.qsize) <= q.qsize
    BY <1>2, <1>4 DEF nsamples
  <2>2. /\ saved' \in [nsamples : Nat, lastbucket : Int, lastprio : Time, top : Int]
        /\ saved'.nsamples = nsamples(q.qsize)
    BY <1>2, <1>4, <2>1
  <2>3. PhaseInv'
    BY <1>1, <1>2, <1>4, <2>1, <2>2 DEF CalendarInv, PhaseInv, Widening
  <2>4. SizeInv'
    BY <1>1, <1>4 DEF CalendarInv, SizeInv, Size, Widening
  <2>5. ContentsInv'
    BY <1>4, SameContents DEF CalendarInv
  <2> QED
    BY <1>1, <1>4, <2>3, <2>4, <2>5 DEF CalendarInv, WidthNotNegative, Widening, QueueOK, Places
<1> QED
  BY <1>3, <1>4 DEF NewWidth

\* new_width restores where the calendar was, and resize begins to copy.
LEMMA SetWidthStep ==
  ASSUME CalendarInv, SetWidth
  PROVE  CalendarInv'
<1> DEFINE w == [num |-> 3 * small.sum, den |-> small.count]
<1>1. /\ pc = "put_back" /\ pc \in Widening /\ back = saved.nsamples /\ StartCopy(Restored, w)
  BY DEF SetWidth, Widening
<1>2. back >= Len(temp) /\ saved.lastprio \in Time /\ w \in Width
  BY <1>1 DEF CalendarInv, PhaseInv, Width
<1>3. /\ Restored.firstsub = q.firstsub /\ Restored.calendar = q.calendar
      /\ Restored.lastprio = saved.lastprio
  BY DEF Restored, CalendarInv, QueueOK
<1> HIDE DEF w
<1> QED
  BY <1>1, <1>2, <1>3, CopyStarts

\* An event is copied: it leaves the old calendar for the new one, unless the new width is
\* negative.
LEMMA CopyStep ==
  ASSUME CalendarInv, NEW b, CopyEvent(b)
  PROVE  CalendarInv'
<1> DEFINE x == Head(old.calendar[b])
           less == WithoutHead(old.calendar, b)
<1>1. /\ pc = "copy" /\ b \in Full(old.calendar) /\ q' = Place(q, x)
      /\ old' = [old EXCEPT !.calendar = less]
      /\ UNCHANGED <<pc, newsize, saved, temp, back, small, held>>
  BY DEF CopyEvent, Uncopied, widthVars
<1>2. QueueOK(q) /\ IsFiniteSet(Places(q.calendar)) /\ q.qsize \in Int /\ q.nbuckets \in Nat
  BY DEF CalendarInv, QueueOK
<1>3. PICK n \in Nat : OldInv(n)
  BY <1>1 DEF CalendarInv, SizeInv
<1> DEFINE D == 0..(n - 1)
<1>4. old.calendar \in [D -> Seq(Time)] /\ IsFiniteSet(Places(old.calendar))
  BY <1>3 DEF OldInv
<1> HIDE DEF D, less
<1>5. /\ less \in [D -> Seq(Time)] /\ IsFiniteSet(Places(less)) /\ x \in Time
      /\ Cardinality(Places(old.calendar)) = Cardinality(Places(less)) + 1
      /\ \A u : Cardinality(PlacesOf(old.calendar, u)) =
                Cardinality(PlacesOf(less, u)) + IF u = x THEN 1 ELSE 0
  BY <1>1, <1>4, HeadRemoved DEF less
<1> HIDE DEF x
<1>6. /\ QueueOK(q') /\ q'.qsize = q.qsize + 1
      /\ q'.firstsub = q.firstsub /\ q'.nbuckets = q.nbuckets /\ q'.cwidth = q.cwidth
      /\ q'.lastbucket = q.lastbucket /\ IsFiniteSet(Places(q'.calendar))
      /\ q.cwidth.num >= 0 =>
           /\ Cardinality(Places(q'.calendar)) = Cardinality(Places(q.calendar)) + 1
           /\ \A u : Cardinality(PlacesOf(q'.calendar, u)) =
                     Cardinality(PlacesOf(q.calendar, u)) + IF u = x THEN 1 ELSE 0
           /\ InOrder(q) => InOrder(q')
  BY <1>1, <1>5, Enqueued DEF WidthNotNegative
<1>7. old'.firstsub = old.firstsub /\ old'.calendar = less
  BY <1>1, <1>3 DEF OldInv
<1>8. /\ Cardinality(Places(less)) \in Nat /\ Cardinality(Places(q.calendar)) \in Nat
      /\ \A u : Cardinality(PlacesOf(less, u)) \in Nat
  BY <1>2, <1>5, CountIsNat
<1>9. PhaseInv'
  BY <1>1 DEF CalendarInv, PhaseInv, Widening
<1>10. SizeInv'
  <2>1. /\ old' \in [firstsub : {0, CALQSPACE - n}, calendar : [D -> Seq(Time)]]
        /\ old'.firstsub = 0 <=> q'.firstsub # 0
    BY <1>1, <1>3, <1>5, <1>6, <1>7 DEF OldInv
  <2>2. q'.qsize + Cardinality(Places(old'.calendar)) <= 2 * q'.nbuckets
    <3>1. q.qsize + Cardinality(Places(old.calendar)) <= 2 * q.nbuckets
      BY <1>3 DEF OldInv
    <3> QED
      BY <1>2, <1>5, <1>6, <1>7, <1>8, <3>1
  <2>3. IsFiniteSet(Places(old'.calendar)) /\ Size(n)
    BY <1>3, <1>5, <1>7 DEF OldInv
  <2>4. \E k \in Nat : OldInv(k)'
    BY <2>1, <2>2, <2>3 DEF OldInv, Size, Places, D
  <2>5. Size(q'.nbuckets) /\ q'.firstsub \in {0, CALQSPACE - q'.nbuckets}
    BY <1>6 DEF CalendarInv, SizeInv
  <2> QED
    BY <1>1, <2>4, <2>5 DEF SizeInv, Widening, Size
<1>11. ContentsInv'
  <2>1. CASE q.cwidth.num >= 0
    <3>1. WidthNotNegative
      BY <2>1 DEF WidthNotNegative
    <3>2. /\ q.qsize = Cardinality(Places(q.calendar)) /\ InOrder(q)
          /\ q.lastbucket \in DOMAIN q.calendar
          /\ \A u \in Time :
             held[u] = Cardinality(PlacesOf(q.calendar, u)) + Cardinality(InHand(temp, back, u))
                       + Cardinality(PlacesOf(old.calendar, u))
      BY <3>1, Counts
    <3>3. ASSUME NEW u \in Time
          PROVE  held'[u] = Cardinality(PlacesOf(q'.calendar, u))
                            + Cardinality(InHand(temp', back', u))
                            + Cardinality(PlacesOf(old'.calendar, u))
      <4>1. /\ Cardinality(PlacesOf(q.calendar, u)) \in Nat
            /\ Cardinality(InHand(temp, back, u)) \in Nat
        BY CountsAreNat
      <4>2. Cardinality(PlacesOf(q'.calendar, u)) =
              Cardinality(PlacesOf(q.calendar, u)) + IF u = x THEN 1 ELSE 0
        BY <1>6, <2>1
      <4>3. /\ Cardinality(PlacesOf(old.calendar, u)) =
               Cardinality(PlacesOf(less, u)) + IF u = x THEN 1 ELSE 0
            /\ Cardinality(PlacesOf(less, u)) \in Nat
        BY <1>5, <1>8
      <4> QED
        BY <1>1, <1>7, <3>2, <4>1, <4>2, <4>3
    <3>4. q'.qsize = Cardinality(Places(q'.calendar)) /\ InOrder(q')
      BY <1>6, <2>1, <3>2
    <3>5. DOMAIN q'.calendar = DOMAIN q.calendar
      BY <1>2, <1>6 DEF QueueOK
    <3> QED
      BY <1>6, <3>2, <3>3, <3>4, <3>5, Counted
  <2>2. CASE ~(q.cwidth.num >= 0)
    BY <1>6, <2>2 DEF ContentsInv, WidthNotNegative
  <2> QED
    BY <2>1, <2>2
<1> QED
  BY <1>1, <1>6, <1>9, <1>10, <1>11 DEF CalendarInv, Widening, Places

\* The resize is over: nothing is left of the old calendar.
LEMMA CopiedStep ==
  ASSUME CalendarInv, Copied
  PROVE  CalendarInv'
<1>1. /\ pc = "copy" /\ Full(old.calendar) = {}
      /\ pc' = "user" /\ newsize' = 0 /\ old' = NoOld
      /\ UNCHANGED <<q, saved, temp, back, small, held>>
  BY DEF Copied, Uncopied, widthVars
<1>2. PICK n \in Nat : OldInv(n)
  BY <1>1 DEF CalendarInv, SizeInv
<1>3. \A b \in DOMAIN old.calendar : old.calendar[b] = <<>>
  BY <1>1 DEF Full
<1>4. Cardinality(Places(old.calendar)) = 0 /\ \A u : Cardinality(PlacesOf(old.calendar, u)) = 0
  BY <1>3, NothingLeft
<1>5. PhaseInv'
  BY <1>1 DEF CalendarInv, PhaseInv, Widening
<1>6. SizeInv'
  <2>1. q.qsize + Cardinality(Places(old.calendar)) <= 2 * q.nbuckets /\ q.qsize \in Int
    BY <1>2 DEF OldInv, CalendarInv, QueueOK
  <2>2. q.qsize <= 2 * q.nbuckets
    BY <1>4, <2>1
  <2> QED
    BY <1>1, <2>2 DEF CalendarInv, SizeInv, Widening, Size
<1>7. ContentsInv'
  <2>1. CASE WidthNotNegative
    <3>1. /\ q.qsize = Cardinality(Places(q.calendar)) /\ InOrder(q)
          /\ q.lastbucket \in DOMAIN q.calendar
          /\ \A u \in Time :
             held[u] = Cardinality(PlacesOf(q.calendar, u)) + Cardinality(InHand(temp, back, u))
                       + Cardinality(PlacesOf(old.calendar, u))
      BY <2>1, Counts
    <3>2. \A u : Cardinality(PlacesOf(old'.calendar, u)) = Cardinality(PlacesOf(old.calendar, u))
      BY <1>1, <1>4, NoOldEmpty
    <3> QED
      BY <1>1, <3>1, <3>2, Counted
  <2>2. CASE ~WidthNotNegative
    BY <1>1, <2>2 DEF ContentsInv, WidthNotNegative
  <2> QED
    BY <2>1, <2>2
<1> QED
  BY <1>1, <1>5, <1>6, <1>7 DEF CalendarInv, QueueOK, Places, Widening

\* calqueue_init makes an empty calendar of two buckets.
LEMMA CalendarStart ==
  ASSUME CalendarInit
  PROVE  CalendarInv
<1>1. UnitWidth \in Width /\ UnitWidth.num >= 0
  BY CalendarAssumption DEF UnitWidth, Width
<1>2. 0 \in Time /\ <<>> \in Seq(Time) /\ Len(<<>>) = 0
  BY CalendarAssumption, EmptySeq
<1>3. /\ QueueOK(q) /\ q.firstsub = 0 /\ q.nbuckets = 2 /\ q.cwidth = UnitWidth /\ q.qsize = 0
      /\ Places(q.calendar) = {} /\ InOrder(q)
      /\ \A b \in DOMAIN q.calendar : q.calendar[b] = <<>>
      /\ q.lastbucket \in DOMAIN q.calendar
  <2> DEFINE z == 0
             n == 2
             d == localinit(z, n, UnitWidth, z)
  <2>0. z \in Nat /\ z \in Time /\ n \in Nat \ {0}
    BY <1>2
  <2> HIDE DEF z, n
  <2>1. /\ QueueOK(d) /\ d.firstsub = z /\ d.nbuckets = n /\ d.cwidth = UnitWidth
        /\ d.qsize = 0 /\ Places(d.calendar) = {} /\ InOrder(d)
        /\ \A b \in DOMAIN d.calendar : d.calendar[b] = <<>>
        /\ UnitWidth.num >= 0 => d.lastbucket \in DOMAIN d.calendar
    BY <1>1, <2>0, Initialised
  <2>2. q = d
    BY DEF CalendarInit, calqueue_init, z, n
  <2> HIDE DEF d
  <2> QED
    BY <1>1, <2>1, <2>2 DEF z, n
<1>4. PhaseInv
  BY <1>2 DEF CalendarInit, PhaseInv, Widening, NoSave, NoSum
<1>5. SizeInv
  <2>1. Size(2)
    <3>1. MAXNBUCKETS * 1 = MAXNBUCKETS /\ 1 * MAXNBUCKETS = MAXNBUCKETS
      BY CalendarAssumption
    <3>2. PICK k \in 1..MAXNBUCKETS : MAXNBUCKETS = 2 * k
      BY <3>1, CalendarAssumption
    <3> QED
      BY <3>2, CalendarAssumption DEF Size
  <2> QED
    BY <1>3, <2>1 DEF CalendarInit, SizeInv, Widening
<1>6. ContentsInv
  <2>1. ASSUME NEW u \in Time
        PROVE  held[u] = Cardinality(PlacesOf(q.calendar, u)) + Cardinality(InHand(temp, back, u))
                         + Cardinality(PlacesOf(old.calendar, u))
    <3>1. Cardinality(PlacesOf(q.calendar, u)) = 0
      BY <1>3, NothingLeft
    <3>2. temp \in Seq(Time) /\ back \in Nat /\ back >= Len(temp)
      BY <1>2 DEF CalendarInit
    <3>3. Cardinality(InHand(temp, back, u)) = 0
      BY <3>2, Samples
    <3>4. Cardinality(PlacesOf(old.calendar, u)) = 0
      BY NoOldEmpty DEF CalendarInit
    <3>5. held[u] = 0
      BY DEF CalendarInit
    <3> QED
      BY <3>1, <3>3, <3>4, <3>5
  <2>2. q.qsize = Cardinality(Places(q.calendar))
    BY <1>3, FS_EmptySet
  <2> QED
    BY <1>3, <2>1, <2>2 DEF ContentsInv, Conserved, InHand
<1>7. IsFiniteSet(Places(q.calendar))
  BY <1>3, FS_EmptySet
<1> QED
  BY <1>3, <1>4, <1>5, <1>6, <1>7 DEF CalendarInv, CalendarInit, Widening

-----------------------------------------------------------------------------
\* The inductive invariant of the calendar queue: calqueue_put, calqueue_get and each round of
\* the loops of new_width and resize keep it.
THEOREM CalendarInvariant == CalendarSpec => []CalendarInv
<1>1. CalendarInit => CalendarInv
  BY CalendarStart
<1>2. CalendarInv /\ [CalendarNext]_calendarVars => CalendarInv'
  <2> SUFFICES ASSUME CalendarInv, [CalendarNext]_calendarVars PROVE CalendarInv'
    OBVIOUS
  <2>1. CASE NewWidth
    BY <2>1, NewWidthStep
  <2>2. CASE TakeSample
    BY <2>2, TakeSampleStep
  <2>3. CASE PutBack
    BY <2>3, PutBackStep
  <2>4. CASE SetWidth
    BY <2>4, SetWidthStep
  <2>5. CASE Copied
    BY <2>5, CopiedStep
  <2>6. CASE \E b \in DOMAIN old.calendar : CopyEvent(b)
    BY <2>6, CopyStep
  <2>7. CASE Get
    BY <2>7, GetStep
  <2>8. CASE \E t \in Time : Put(t)
    BY <2>8, PutStep
  <2>9. CASE UNCHANGED calendarVars
    <3>1. UNCHANGED <<q, pc, newsize, saved, temp, back, small, old, held>>
      BY <2>9 DEF calendarVars, widthVars
    <3>2. ContentsInv'
      BY <3>1, SameContents DEF CalendarInv
    <3>3. PhaseInv' /\ QueueOK(q') /\ IsFiniteSet(Places(q'.calendar))
      BY <3>1 DEF CalendarInv, PhaseInv
    <3>4. SizeInv'
      <4>1. Size(q'.nbuckets) /\ q'.firstsub \in {0, CALQSPACE - q'.nbuckets}
        BY <3>1 DEF CalendarInv, SizeInv
      <4>2. pc' = "copy" => \E n \in Nat : OldInv(n)'
        BY <3>1 DEF CalendarInv, SizeInv, OldInv, Size, Places
      <4> QED
        BY <3>1, <4>1, <4>2 DEF CalendarInv, SizeInv, Size
    <3> QED
      BY <3>1, <3>2, <3>3, <3>4 DEF CalendarInv, WidthNotNegative, Places
  <2> QED
    BY <2>1, <2>2, <2>3, <2>4, <2>5, <2>6, <2>7, <2>8, <2>9 DEF CalendarNext, resize
<1> QED
  BY <1>1, <1>2, PTL DEF CalendarSpec

\* No event is lost or duplicated, as long as new_width has found no negative width: neither by
\* calqueue_put and calqueue_get nor by the samples and the copies of a resize.
THEOREM EventsAlwaysConserved == CalendarSpec => []EventsConserved
<1>1. CalendarInv => EventsConserved
  BY DEF CalendarInv, ContentsInv, EventsConserved
<1> QED
  BY <1>1, CalendarInvariant, PTL

\* As long as the width is not negative, every bucket of the calendar calqueue_put inserts
\* into is in order of time and holds the events of its own days only.
THEOREM BucketsAlwaysSorted == CalendarSpec => []BucketsSorted
<1>1. CalendarInv => BucketsSorted
  BY DEF CalendarInv, ContentsInv, InOrder, Sorted, BucketsSorted
<1> QED
  BY <1>1, CalendarInvariant, PTL

\* The array calq holds both calendars of a resize without overlap, whatever the width.
THEOREM CalendarsAlwaysDisjoint == CalendarSpec => []CalendarsDisjoint
<1>1. CalendarInv => CalendarsDisjoint
  <2> SUFFICES ASSUME CalendarInv PROVE CalendarsDisjoint
    OBVIOUS
  <2>1. /\ q.nbuckets \in 1..MAXNBUCKETS /\ q.firstsub \in {0, CALQSPACE - q.nbuckets}
        /\ DOMAIN q.calendar = 0..(q.nbuckets - 1)
    BY DEF CalendarInv, SizeInv, Size, QueueOK
  <2>2. Cells(q) \subseteq 0..(CALQSPACE - 1)
    BY <2>1, CalendarAssumption DEF Cells
  <2>3. CASE pc = "copy"
    <3>1. PICK n \in Nat : OldInv(n)
      BY <2>3 DEF CalendarInv, SizeInv
    <3>2. /\ n \in 1..MAXNBUCKETS /\ old.firstsub \in {0, CALQSPACE - n}
          /\ DOMAIN old.calendar = 0..(n - 1) /\ (old.firstsub = 0 <=> q.firstsub # 0)
      BY <3>1 DEF OldInv, Size
    <3>3. Cells(old) \subseteq 0..(CALQSPACE - 1)
      BY <3>2, CalendarAssumption DEF Cells
    <3>4. Cells(q) \cap Cells(old) = {}
      <4>1. CASE q.firstsub = 0
        <5>1. \A i \in Cells(q) : i < MAXNBUCKETS
          BY <2>1, <4>1, CalendarAssumption DEF Cells
        <5>2. \A i \in Cells(old) : i >= MAXNBUCKETS
          BY <3>2, <4>1, CalendarAssumption DEF Cells
        <5> QED
          BY <2>2, <5>1, <5>2, CalendarAssumption
      <4>2. CASE q.firstsub # 0
        <5>1. \A i \in Cells(old) : i < MAXNBUCKETS
          BY <3>2, <4>2, CalendarAssumption DEF Cells
        <5>2. \A i \in Cells(q) : i >= MAXNBUCKETS
          BY <2>1, <4>2, CalendarAssumption DEF Cells
        <5> QED
          BY <2>2, <5>1, <5>2, CalendarAssumption
      <4> QED
        BY <4>1, <4>2
    <3> QED
      BY <2>2, <3>3, <3>4 DEF CalendarsDisjoint
  <2>4. CASE pc # "copy"
    <3>1. Cells(old) = {}
      BY <2>4, NoOldEmpty DEF CalendarInv, PhaseInv, Cells
    <3> QED
      BY <2>2, <2>4, <3>1 DEF CalendarsDisjoint
  <2> QED
    BY <2>3, <2>4
<1> QED
  BY <1>1, CalendarInvariant, PTL

\* The calqueue_put with which resize copies an event never starts a resize of its own,
\* whatever the width: resize is not reentered.
THEOREM CopiesNeverResize == CalendarSpec => []CopyNeverResizes
<1>1. CalendarInv => CopyNeverResizes
  <2> SUFFICES ASSUME CalendarInv, pc = "copy" PROVE q.qsize <= 2 * q.nbuckets
    BY DEF CopyNeverResizes
  <2>1. PICK n \in Nat : OldInv(n)
    BY DEF CalendarInv, SizeInv
  <2>2. /\ q.qsize + Cardinality(Places(old.calendar)) <= 2 * q.nbuckets
        /\ Cardinality(Places(old.calendar)) \in Nat /\ q.qsize \in Int /\ q.nbuckets \in Nat
    BY <2>1, CountIsNat DEF OldInv, CalendarInv, QueueOK
  <2> QED
    BY <2>2
<1> QED
  BY <1>1, CalendarInvariant, PTL

-----------------------------------------------------------------------------
\* The days of the calendar, which last num / den each.
LEMMA Days ==
  ASSUME NEW w \in Width, w.num > 0, NEW t \in Time
  PROVE  /\ VirtualBucket(w, t) \in Nat
         /\ VirtualBucket(w, t) * w.num <= t * w.den
         /\ t * w.den < (VirtualBucket(w, t) + 1) * w.num
<1> DEFINE x == t * w.den
           n == w.num
           v == x \div n
<1>1. n \in Nat \ {0} /\ x \in Nat
  <2>1. w.num \in Int /\ w.den \in Nat /\ t \in Nat
    BY CalendarAssumption DEF Width
  <2> QED
    BY <2>1, Product
<1>2. VirtualBucket(w, t) = v
  BY <1>1 DEF VirtualBucket
<1> HIDE DEF x, n
<1>3. v \in Nat /\ x % n \in 0..(n - 1) /\ x = n * v + (x % n)
  BY <1>1, Division
<1> HIDE DEF v
<1>4. v * n = n * v /\ (v + 1) * n = n * v + n /\ n * v \in Int
  BY <1>1, <1>3
<1>5. v * n <= x /\ x < (v + 1) * n
  BY <1>1, <1>3, <1>4
<1> QED
  BY <1>2, <1>3, <1>5 DEF x, n

\* An earlier event has no later day.
LEMMA DaysInOrder ==
  ASSUME NEW w \in Width, w.num > 0, NEW s \in Time, NEW t \in Time, s <= t
  PROVE  VirtualBucket(w, s) <= VirtualBucket(w, t)
<1> DEFINE a == VirtualBucket(w, s)
           b == VirtualBucket(w, t)
<1>1. /\ a \in Nat /\ b \in Nat /\ a * w.num <= s * w.den /\ t * w.den < (b + 1) * w.num
  BY Days
<1>2. w.num \in Nat \ {0} /\ w.den \in Nat /\ s \in Nat /\ t \in Nat
  BY CalendarAssumption DEF Width
<1> HIDE DEF a, b
<1>3. s * w.den <= t * w.den
  BY <1>2
<1>4. a * w.num < (b + 1) * w.num
  <2>1. a * w.num \in Int /\ (b + 1) * w.num \in Int /\ s * w.den \in Int /\ t * w.den \in Int
    BY <1>1, <1>2
  <2> QED
    BY <1>1, <1>3, <2>1
<1>5. a < b + 1
  BY <1>1, <1>2, <1>4, Cancel
<1>6. a <= b
  BY <1>1, <1>5
<1> QED
  BY <1>6 DEF a, b

\* A calendar in order, at the place of the last event taken out, which no event precedes.
Ready(c) ==
    /\ QueueOK(c) /\ c.nbuckets >= 2 /\ c.cwidth.num >= 0
    /\ InOrder(c) /\ c.lastbucket \in DOMAIN c.calendar
    /\ Positioned(c) /\ NoneBefore(c.calendar, c.lastprio)

\* The scan looks at the bucket of one day after the other.
LEMMA ScannedDay ==
  ASSUME NEW c, Ready(c), c.cwidth.num > 0, NEW k \in Nat
  PROVE  Scanned(c, k) = (VirtualBucket(c.cwidth, c.lastprio) + k) % c.nbuckets
<1> DEFINE v == VirtualBucket(c.cwidth, c.lastprio)
           n == c.nbuckets
<1>1. v \in Nat /\ n \in Nat \ {0}
  BY Days DEF Ready, QueueOK
<1>2. c.lastbucket = ActualBucket(v, n)
  BY DEF Ready, Positioned, Bucket
<1> HIDE DEF v
<1>3. c.lastbucket = v % n
  BY <1>1, <1>2 DEF ActualBucket
<1>4. ((v % n) + k) % n = (v + k) % n
  BY <1>1, Shift
<1> QED
  BY <1>3, <1>4 DEF Scanned, v

\* It stops at a head of its day or an earlier one, and at none later than the day after.
LEMMA HitDay ==
  ASSUME NEW c, Ready(c), c.cwidth.num > 0, NEW k \in Nat, Scanned(c, k) \in Full(c.calendar)
  PROVE  LET x == VirtualBucket(c.cwidth, Head(c.calendar[Scanned(c, k)]))
             v == VirtualBucket(c.cwidth, c.lastprio)
         IN  /\ Hit(c, k) => x <= v + k + 1
             /\ x <= v + k => Hit(c, k)
<1> DEFINE h == Head(c.calendar[Scanned(c, k)])
           x == VirtualBucket(c.cwidth, h)
           v == VirtualBucket(c.cwidth, c.lastprio)
           n == c.cwidth.num
           e == h * c.cwidth.den
<1>1. /\ c.cwidth \in Width /\ c.lastprio \in Time
      /\ c.calendar \in [0..(c.nbuckets - 1) -> Seq(Time)]
  BY DEF Ready, QueueOK
<1>2. c.calendar[Scanned(c, k)] # <<>> /\ c.calendar[Scanned(c, k)] \in Seq(Time)
  BY <1>1 DEF Full
<1>3. h \in Time
  BY <1>2, TailList
<1>4. h \in Nat /\ c.cwidth.den \in Nat /\ n \in Nat \ {0} /\ e \in Nat
  <2>1. h \in Nat /\ c.cwidth.den \in Nat /\ n \in Nat \ {0}
    BY <1>1, <1>3, TimesAreNat DEF Width
  <2> QED
    BY <2>1, Product
<1>5. x \in Nat /\ v \in Nat /\ x * n <= e /\ e < (x + 1) * n
  BY <1>1, <1>3, Days
<1>6. Advanced(c, k) = 2 * (v + k) + 3
  <2>1. c.top = 2 * v + 3
    BY DEF Ready, Positioned
  <2> HIDE DEF v
  <2>2. Advanced(c, k) = c.top + 2 * k
    BY <1>4 DEF Advanced
  <2> QED
    BY <1>5, <2>1, <2>2
<1>7. 2 * h * c.cwidth.den = 2 * e
  <2> HIDE DEF h
  <2> QED
    BY <1>4
<1> DEFINE y == 2 * (v + k) + 3
<1>8. Hit(c, k) <=> 2 * e < y * n
  BY <1>2, <1>6, <1>7 DEF Hit
<1> HIDE DEF h, x, v, n, e
<1>9. (2 * x) * n = 2 * (x * n) /\ (2 * x + 2) * n = 2 * ((x + 1) * n) /\ x * n \in Int
      /\ (x + 1) * n \in Int /\ y \in Nat /\ y * n \in Int
  BY <1>4, <1>5
<1>10. ASSUME Hit(c, k) PROVE x <= v + k + 1
  <2>1. (2 * x) * n < y * n
    BY <1>4, <1>5, <1>8, <1>9, <1>10
  <2>2. 2 * x \in Int /\ y \in Int
    BY <1>5, <1>9
  <2> HIDE DEF y
  <2>3. 2 * x < y
    BY <1>4, <2>1, <2>2, Cancel
  <2> QED
    BY <1>5, <2>3 DEF y
<1>11. ASSUME x <= v + k PROVE Hit(c, k)
  <2>1. 2 * x + 2 < y /\ 2 * x + 2 \in Int /\ y \in Int
    BY <1>5, <1>11
  <2> HIDE DEF y
  <2>2. (2 * x + 2) * n < y * n
    BY <1>4, <2>1, Cancel
  <2> QED
    BY <1>4, <1>5, <1>8, <1>9, <2>2
<1> QED
  BY <1>10, <1>11 DEF x, v, h

\* What is known of an event of such a calendar.
LEMMA AnEvent ==
  ASSUME NEW c, Ready(c), NEW b \in DOMAIN c.calendar, NEW j \in 1..Len(c.calendar[b])
  PROVE  LET t == c.calendar[b][j]
         IN  /\ t \in Time /\ c.lastprio <= t /\ b = Bucket(c, t)
             /\ b \in Full(c.calendar) /\ Head(c.calendar[b]) \in Time
             /\ Head(c.calendar[b]) <= t
<1> DEFINE s == c.calendar[b]
           t == s[j]
<1>1. s \in Seq(Time)
  BY DEF Ready, QueueOK
<1>2. s # <<>>
  BY EmptySeq
<1>3. Head(s) \in Time /\ s[1] = Head(s) /\ 1 \in 1..Len(s)
  BY <1>1, <1>2, TailList
<1>4. t \in Time /\ Len(s) \in Nat
  BY <1>1, LenProperties
<1>5. Sorted(s) /\ b = Bucket(c, t) /\ c.lastprio <= t
  BY DEF Ready, InOrder, NoneBefore
<1>6. s[1] <= t
  <2>1. CASE j = 1
    <3>1. s[1] = t /\ t \in Nat
      BY <1>4, <2>1, CalendarAssumption
    <3> HIDE DEF s, t
    <3> QED
      BY <3>1
  <2>2. CASE 1 < j
    BY <1>3, <1>5, <2>2 DEF Sorted
  <2> QED
    BY <1>4, <2>1, <2>2
<1>7. b \in Full(c.calendar)
  BY <1>2 DEF Full
<1> QED
  BY <1>3, <1>4, <1>5, <1>6, <1>7

\* With a positive width the bucket of an event is the remainder of its day.
LEMMA BucketOfDay ==
  ASSUME NEW c, QueueOK(c), c.cwidth.num > 0, NEW t \in Time
  PROVE  Bucket(c, t) = VirtualBucket(c.cwidth, t) % c.nbuckets
<1>1. VirtualBucket(c.cwidth, t) \in Nat
  BY Days DEF QueueOK
<1> QED
  BY <1>1 DEF Bucket, ActualBucket

\* Where the scan stops first is an event of that day, and none precedes it.
LEMMA FirstHit ==
  ASSUME NEW c, Ready(c), c.cwidth.num > 0, NEW k \in 0..(c.nbuckets - 1), Hit(c, k),
         \A j \in 0..(c.nbuckets - 1) : Hit(c, j) => k <= j
  PROVE  LET h == Head(c.calendar[Scanned(c, k)])
         IN  /\ NoneBefore(c.calendar, h)
             /\ VirtualBucket(c.cwidth, h) = VirtualBucket(c.cwidth, c.lastprio) + k
<1> DEFINE B == Scanned(c, k)
           h == Head(c.calendar[B])
           v == VirtualBucket(c.cwidth, c.lastprio)
           n == c.nbuckets
<1>1. /\ QueueOK(c) /\ n \in Nat /\ n >= 2 /\ n \in Nat \ {0} /\ c.cwidth \in Width
      /\ c.lastprio \in Time /\ DOMAIN c.calendar = 0..(n - 1)
      /\ c.calendar \in [0..(n - 1) -> Seq(Time)]
  BY DEF Ready, QueueOK
<1>2. v \in Nat
  BY <1>1, Days
<1>3. \A j \in Nat : Scanned(c, j) = (v + j) % n
  BY ScannedDay
<1> HIDE DEF v
<1>4. k \in Nat /\ k < n
  BY <1>1
<1>5. B \in 0..(n - 1) /\ B = (v + k) % n
  <2>1. v + k \in Nat
    BY <1>2, <1>4
  <2> QED
    BY <1>1, <1>3, <1>4, <2>1, Division
<1>6. B \in Full(c.calendar)
  BY <1>1, <1>5 DEF Hit, Full
<1>7. PICK i \in 1..Len(c.calendar[B]) : h = c.calendar[B][i]
  <2>1. c.calendar[B] \in Seq(Time) /\ c.calendar[B] # <<>>
    BY <1>1, <1>5, <1>6 DEF Full
  <2> QED
    BY <2>1, TailList
<1>8. h \in Time /\ c.lastprio <= h /\ B = Bucket(c, h)
  BY <1>1, <1>5, <1>7, AnEvent
<1> DEFINE x == VirtualBucket(c.cwidth, h)
<1>9. x \in Nat /\ v <= x /\ x <= v + k + 1 /\ B = x % n
  <2>1. x \in Nat
    BY <1>1, <1>8, Days
  <2>2. v <= x
    BY <1>1, <1>8, DaysInOrder DEF v
  <2>3. x <= v + k + 1
    BY <1>4, <1>6, HitDay DEF v
  <2>4. B = x % n
    BY <1>1, <1>8, BucketOfDay
  <2> QED
    BY <2>1, <2>2, <2>3, <2>4
<1> HIDE DEF x, h, B
<1>10. x = v + k
  <2>1. v + k \in Nat /\ x - (v + k) < n /\ (v + k) - x < n
    BY <1>1, <1>2, <1>4, <1>9
  <2>2. x % n = (v + k) % n
    BY <1>5, <1>9
  <2> QED
    BY <1>1, <1>9, <2>1, <2>2, Apart
<1>11. ASSUME NEW b \in DOMAIN c.calendar, NEW j \in 1..Len(c.calendar[b])
       PROVE  h <= c.calendar[b][j]
  <2> DEFINE t == c.calendar[b][j]
             y == VirtualBucket(c.cwidth, t)
             g == Head(c.calendar[b])
  <2>1. /\ t \in Time /\ c.lastprio <= t /\ b = Bucket(c, t) /\ b \in Full(c.calendar)
        /\ g \in Time /\ g <= t
    BY AnEvent
  <2> HIDE DEF t, g
  <2>2. y \in Nat /\ v <= y /\ b = y % n
    <3>1. y \in Nat
      BY <1>1, <2>1, Days
    <3>2. v <= y
      BY <1>1, <2>1, DaysInOrder DEF v
    <3>3. b = y % n
      BY <1>1, <2>1, BucketOfDay
    <3> QED
      BY <3>1, <3>2, <3>3
  <2>3. VirtualBucket(c.cwidth, g) <= y
    BY <1>1, <2>1, DaysInOrder
  <2> HIDE DEF y
  <2>4. CASE y < v + k
    <3> DEFINE d == y - v
    <3>1. d \in Nat /\ d < k /\ v + d = y /\ d \in 0..(n - 1)
      BY <1>1, <1>2, <1>4, <2>2, <2>4
    <3>2. Scanned(c, d) = b
      BY <1>3, <2>2, <3>1
    <3> HIDE DEF d
    <3>3. Scanned(c, d) \in Full(c.calendar)
      BY <2>1, <3>2
    <3>4. VirtualBucket(c.cwidth, Head(c.calendar[Scanned(c, d)])) <= v + d
      BY <2>3, <3>1, <3>2 DEF g
    <3>5. Hit(c, d)
      BY <3>1, <3>3, <3>4, HitDay DEF v
    <3>6. k <= d
      BY <3>1, <3>5
    <3> QED
      BY <1>4, <3>1, <3>6
  <2>5. CASE y = v + k
    <3>1. b = B
      BY <1>5, <2>2, <2>5
    <3> QED
      BY <2>1, <3>1 DEF h, g, t
  <2>6. CASE y > v + k
    <3> SUFFICES ASSUME ~(h <= t) PROVE FALSE
      BY DEF t
    <3>1. t <= h
      BY <1>8, <2>1, CalendarAssumption
    <3>2. y <= x
      BY <1>1, <1>8, <2>1, <3>1, DaysInOrder DEF x, y
    <3> QED
      BY <1>2, <1>4, <1>9, <1>10, <2>2, <2>6, <3>2
  <2> QED
    BY <1>2, <1>4, <2>2, <2>4, <2>5, <2>6
<1>12. NoneBefore(c.calendar, h)
  BY <1>11 DEF NoneBefore
<1> QED
  BY <1>10, <1>12 DEF x, h, v, B

\* No event precedes the lowest head either.
LEMMA DirectFirst ==
  ASSUME NEW c, Ready(c), Places(c.calendar) # {}
  PROVE  Direct(c) \in Full(c.calendar) /\ NoneBefore(c.calendar, Head(c.calendar[Direct(c)]))
<1> DEFINE h == Head(c.calendar[Direct(c)])
<1>1. QueueOK(c) /\ c.calendar \in [0..(c.nbuckets - 1) -> Seq(Time)]
  BY DEF Ready, QueueOK
<1>2. Direct(c) \in Full(c.calendar) /\ \A d \in Full(c.calendar) : h <= Head(c.calendar[d])
  BY <1>1, DirectFound
<1>3. h \in Time
  BY <1>1, <1>2, TailList DEF Full
<1> HIDE DEF h
<1>4. ASSUME NEW b \in DOMAIN c.calendar, NEW j \in 1..Len(c.calendar[b])
      PROVE  h <= c.calendar[b][j]
  <2> DEFINE t == c.calendar[b][j]
             g == Head(c.calendar[b])
  <2>1. t \in Time /\ b \in Full(c.calendar) /\ g \in Time /\ g <= t
    BY AnEvent
  <2>2. h <= g
    BY <1>2, <2>1
  <2> HIDE DEF t, g
  <2>3. h <= t
    BY <1>3, <2>1, <2>2, CalendarAssumption
  <2> QED
    BY <2>3 DEF t
<1> QED
  BY <1>2, <1>4 DEF NoneBefore, h

\* Taking out the head of bucket b.
LEMMA TakeKeeps ==
  ASSUME NEW c, QueueOK(c), NEW b \in Full(c.calendar), NEW x \in Int
  PROVE  LET d == TakeFrom(c, b, x)
         IN  /\ d.lastprio = Head(c.calendar[b]) /\ d.lastbucket = b /\ d.top = x
             /\ d.cwidth = c.cwidth /\ d.nbuckets = c.nbuckets
             /\ \A p : NoneBefore(c.calendar, p) =>
                         p <= Head(c.calendar[b]) /\ NoneBefore(d.calendar, p)
<1> DEFINE d == TakeFrom(c, b, x)
           D == 0..(c.nbuckets - 1)
           less == WithoutHead(c.calendar, b)
           s == c.calendar[b]
<1>1. c.calendar \in [D -> Seq(Time)] /\ b \in D /\ s \in Seq(Time) /\ s # <<>>
  BY DEF QueueOK, Full
<1>2. /\ s[1] = Head(s) /\ 1 \in 1..Len(s) /\ Len(s) = Len(Tail(s)) + 1
      /\ \A j \in 1..Len(Tail(s)) : s[j + 1] = Tail(s)[j]
      /\ Tail(s) \in Seq(Time)
  BY <1>1, TailList
<1>3. /\ d.lastprio = Head(s) /\ d.lastbucket = b /\ d.top = x
      /\ d.cwidth = c.cwidth /\ d.nbuckets = c.nbuckets /\ d.calendar = less
  BY DEF TakeFrom, QueueOK
<1>4. DOMAIN less = D /\ less[b] = Tail(s) /\ \A e \in D \ {b} : less[e] = c.calendar[e]
  BY <1>1 DEF WithoutHead
<1> HIDE DEF d, less
<1>5. ASSUME NEW p, NoneBefore(c.calendar, p)
      PROVE  p <= Head(s) /\ NoneBefore(less, p)
  <2>1. \A e \in D : \A j \in 1..Len(c.calendar[e]) : p <= c.calendar[e][j]
    BY <1>1, <1>5 DEF NoneBefore
  <2>2. p <= Head(s)
    BY <1>1, <1>2, <2>1
  <2>3. ASSUME NEW j \in 1..Len(Tail(s)) PROVE p <= Tail(s)[j]
    <3>1. Len(Tail(s)) \in Nat
      BY <1>2, LenProperties
    <3>2. j + 1 \in 1..Len(s)
      BY <1>2, <3>1
    <3>3. p <= s[j + 1]
      BY <1>1, <2>1, <3>2
    <3> QED
      BY <1>2, <3>3
  <2>4. ASSUME NEW e \in D, NEW j \in 1..Len(less[e]) PROVE p <= less[e][j]
    <3>1. CASE e = b
      BY <1>4, <2>3, <3>1
    <3>2. CASE e # b
      BY <1>4, <2>1, <3>2
    <3> QED
      BY <3>1, <3>2
  <2> QED
    BY <1>4, <2>2, <2>4 DEF NoneBefore
<1> QED
  BY <1>3, <1>5 DEF d

\* calqueue_deq takes out an event that none precedes, and unless it had to search directly
\* is then at the place of that event.
LEMMA TakenInOrder ==
  ASSUME NEW c, Ready(c), Places(c.calendar) # {}
  PROVE  LET d == Dequeue(c)
         IN  /\ NoneBefore(c.calendar, d.lastprio) /\ NoneBefore(d.calendar, d.lastprio)
             /\ \A p : NoneBefore(c.calendar, p) => p <= d.lastprio /\ NoneBefore(d.calendar, p)
             /\ \/ Positioned(d)
                \/ c.cwidth.num > 0 /\ \A k \in 0..(c.nbuckets - 1) : ~Hit(c, k)
<1> DEFINE d == Dequeue(c)
           D == 0..(c.nbuckets - 1)
           hits == {k \in D : Hit(c, k)}
           first == CHOOSE h \in hits : \A j \in hits : h <= j
<1>1. /\ QueueOK(c) /\ c.nbuckets \in Nat \ {0} /\ c.calendar \in [D -> Seq(Time)]
      /\ c.lastbucket \in D /\ c.top \in Int /\ c.cwidth \in Width /\ c.cwidth.num \in Int
      /\ c.cwidth.num >= 0 /\ c.lastprio \in Time
  BY DEF Ready, QueueOK, Width
<1>2. \A k \in Int : Advanced(c, k) \in Int
  BY <1>1 DEF Advanced
<1>3. CASE hits # {}
  <2>1. \E h \in hits : \A j \in hits : h <= j
    <3>1. hits \subseteq Nat
      BY <1>1
    <3> HIDE DEF hits
    <3> QED
      BY <1>3, <3>1, Least
  <2>2. first \in hits /\ \A j \in hits : first <= j
    BY <2>1
  <2>3. d = TakeFrom(c, Scanned(c, first), Advanced(c, first))
    BY <1>3 DEF Dequeue
  <2> HIDE DEF first, d
  <2>4. /\ first \in D /\ first \in Nat /\ Hit(c, first)
        /\ \A j \in D : Hit(c, j) => first <= j
    BY <1>1, <2>2
  <2> DEFINE b == Scanned(c, first)
             h == Head(c.calendar[b])
  <2>5. c.cwidth.num > 0
    <3> SUFFICES ASSUME c.cwidth.num = 0 PROVE FALSE
      BY <1>1
    <3>1. c.calendar[b] # <<>> /\ 2 * h * c.cwidth.den < Advanced(c, first) * 0
      BY <2>4 DEF Hit
    <3>2. b \in D
      <4>1. c.lastbucket + first \in Nat
        BY <1>1, <2>4
      <4> QED
        BY <1>1, <4>1, Division DEF Scanned
    <3>3. h \in Time
      BY <1>1, <3>1, <3>2, TailList
    <3> HIDE DEF h, b
    <3>4. h \in Nat /\ c.cwidth.den \in Nat
      BY <1>1, <3>3, CalendarAssumption DEF Width
    <3>5. 2 * h * c.cwidth.den \in Nat
      BY <3>4, Product
    <3>6. Advanced(c, first) * 0 = 0
      BY <1>2, <2>4
    <3> QED
      BY <3>1, <3>5, <3>6
  <2>6. /\ NoneBefore(c.calendar, h)
        /\ VirtualBucket(c.cwidth, h) = VirtualBucket(c.cwidth, c.lastprio) + first
    BY <2>4, <2>5, FirstHit
  <2>7. b \in D
    <3>1. c.lastbucket + first \in Nat
      BY <1>1, <2>4
    <3> QED
      BY <1>1, <3>1, Division DEF Scanned
  <2>8. b \in Full(c.calendar) /\ h \in Time
    BY <1>1, <2>4, <2>7, TailList DEF Hit, Full
  <2>9. Advanced(c, first) \in Int
    BY <1>2, <2>4
  <2>10. /\ d.lastprio = h /\ d.lastbucket = b /\ d.top = Advanced(c, first)
         /\ d.cwidth = c.cwidth /\ d.nbuckets = c.nbuckets
         /\ \A p : NoneBefore(c.calendar, p) => p <= h /\ NoneBefore(d.calendar, p)
    <3> DEFINE a == Advanced(c, first)
               e == TakeFrom(c, b, a)
    <3>1. b \in Full(c.calendar) /\ a \in Int /\ d = e
      BY <2>3, <2>8, <2>9
    <3> HIDE DEF a, b
    <3>2. /\ e.lastprio = h /\ e.lastbucket = b /\ e.top = a
          /\ e.cwidth = c.cwidth /\ e.nbuckets = c.nbuckets
          /\ \A p : NoneBefore(c.calendar, p) => p <= h /\ NoneBefore(e.calendar, p)
      BY <1>1, <3>1, TakeKeeps
    <3> HIDE DEF e, h
    <3> QED
      BY <3>1, <3>2 DEF a
  <2>11. Positioned(d)
    <3>1. b = Bucket(c, h)
      <4>1. PICK i \in 1..Len(c.calendar[b]) : h = c.calendar[b][i]
        BY <1>1, <2>7, <2>8, TailList DEF Full
      <4> QED
        BY <1>1, <2>7, <4>1, AnEvent
    <3>2. Bucket(d, h) = Bucket(c, h)
      BY <2>10 DEF Bucket
    <3>3. Advanced(c, first) = 2 * VirtualBucket(c.cwidth, h) + 3
      <4> DEFINE v == VirtualBucket(c.cwidth, c.lastprio)
      <4>1. c.top = 2 * v + 3 /\ v \in Nat
        BY <1>1, <2>5, Days DEF Ready, Positioned
      <4>2. Advanced(c, first) = c.top + 2 * first
        BY <2>5 DEF Advanced
      <4> HIDE DEF v
      <4>3. Advanced(c, first) = 2 * (v + first) + 3
        BY <2>4, <4>1, <4>2
      <4> QED
        BY <2>6, <4>3 DEF v
    <3> HIDE DEF b, h
    <3> QED
      BY <2>10, <3>1, <3>2, <3>3 DEF Positioned
  <2> HIDE DEF h, b
  <2> QED
    BY <2>6, <2>10, <2>11 DEF d
<1>4. CASE hits = {}
  <2> DEFINE b == Direct(c)
             h == Head(c.calendar[b])
             x == Advanced(c, c.nbuckets)
  <2>1. d = TakeFrom(c, b, x)
    BY <1>4 DEF Dequeue
  <2>2. b \in Full(c.calendar) /\ NoneBefore(c.calendar, h)
    BY DirectFirst
  <2>3. x \in Int
    <3>1. c.nbuckets \in Int
      BY <1>1
    <3> QED
      BY <1>2, <3>1
  <2> HIDE DEF d, b, x
  <2>4. /\ d.lastprio = h /\ d.cwidth = c.cwidth
        /\ \A p : NoneBefore(c.calendar, p) => p <= h /\ NoneBefore(d.calendar, p)
    <3> DEFINE e == TakeFrom(c, b, x)
    <3>1. /\ e.lastprio = h /\ e.cwidth = c.cwidth
          /\ \A p : NoneBefore(c.calendar, p) => p <= h /\ NoneBefore(e.calendar, p)
      BY <1>1, <2>2, <2>3, TakeKeeps
    <3> HIDE DEF e, h
    <3> QED
      BY <2>1, <3>1 DEF e
  <2>5. \A k \in D : ~Hit(c, k)
    BY <1>4
  <2>6. c.cwidth.num = 0 => Positioned(d)
    BY <2>4 DEF Positioned
  <2> HIDE DEF h
  <2> QED
    BY <1>1, <2>2, <2>4, <2>5, <2>6 DEF d
<1> QED
  BY <1>3, <1>4

\* calqueue_put of an event that does not precede p.
LEMMA PlaceKeeps ==
  ASSUME NEW c, QueueOK(c), NEW t \in Time, NEW p, NoneBefore(c.calendar, p), p <= t
  PROVE  NoneBefore(Place(c, t).calendar, p)
<1> DEFINE D == 0..(c.nbuckets - 1)
           b == Bucket(c, t)
           s == c.calendar[b]
           more == [c.calendar EXCEPT ![b] = InsertSorted(s, t)]
<1>1. c.calendar \in [D -> Seq(Time)]
  BY DEF QueueOK
<1>2. \A e \in D : \A j \in 1..Len(c.calendar[e]) : p <= c.calendar[e][j]
  BY <1>1 DEF NoneBefore
<1>3. b \in Int /\ b < c.nbuckets /\ c.nbuckets \in Nat
  BY BucketInCalendar DEF Bucket, QueueOK
<1>4. Place(c, t).calendar = IF b < 0 THEN c.calendar ELSE more
  BY DEF Place, QueueOK
<1> HIDE DEF b
<1>5. CASE b < 0
  BY <1>4, <1>5
<1>6. CASE ~(b < 0)
  <2>1. b \in D /\ s \in Seq(Time)
    BY <1>1, <1>3, <1>6
  <2>2. \A j \in 1..Len(InsertSorted(s, t)) :
          InsertSorted(s, t)[j] = t \/ \E i \in 1..Len(s) : InsertSorted(s, t)[j] = s[i]
    BY <2>1, InsertedInOrder
  <2>3. DOMAIN more = D /\ more[b] = InsertSorted(s, t) /\ \A e \in D \ {b} : more[e] = c.calendar[e]
    BY <1>1, <2>1
  <2> HIDE DEF more
  <2>4. \A j \in 1..Len(InsertSorted(s, t)) : p <= InsertSorted(s, t)[j]
    BY <1>2, <2>1, <2>2
  <2>5. ASSUME NEW e \in D, NEW j \in 1..Len(more[e]) PROVE p <= more[e][j]
    <3>1. CASE e = b
      BY <2>3, <2>4, <3>1
    <3>2. CASE e # b
      BY <1>2, <2>3, <3>2
    <3> QED
      BY <3>1, <3>2
  <2> QED
    BY <1>4, <1>6, <2>3, <2>5 DEF NoneBefore
<1> QED
  BY <1>5, <1>6

-----------------------------------------------------------------------------
\* How OnTime is put together again after a step.
LEMMA OnTimeAgain ==
  ASSUME q'.cwidth.num >= 0, small'.sum >= 0,
         pc' # "put_back" => Positioned(q') /\ NoneBefore(q'.calendar, q'.lastprio),
         NEW now, now = IF pc' \in {"sample", "put_back"} THEN saved'.lastprio ELSE q'.lastprio,
         NoneBefore(q'.calendar, now), NoneBefore(old'.calendar, now),
         \A i \in 1..Len(temp') : now <= temp'[i],
         \A i, j \in 1..Len(temp') : i < j => temp'[i] <= temp'[j],
         pc' = "sample" => \A i \in 1..Len(temp') : temp'[i] <= q'.lastprio
  PROVE  OnTime'
BY DEF OnTime, Now, WidthNotNegative, Positioned, NoneBefore, Bucket, VirtualBucket, ActualBucket

\* Outside of a resize, and before its first event is copied, there is no old calendar.
LEMMA NoneInNoOld == \A p : NoneBefore(NoOld.calendar, p)
BY NoOldEmpty DEF NoneBefore

\* The queue is in order and in its place, but while samples are put back.
LEMMA ReadyNow ==
  ASSUME CalendarInv, OnTime, pc # "put_back"
  PROVE  Ready(q)
<1>1. QueueOK(q) /\ WidthNotNegative /\ Size(q.nbuckets) /\ Positioned(q)
      /\ NoneBefore(q.calendar, q.lastprio)
  BY DEF CalendarInv, SizeInv, OnTime
<1>2. InOrder(q) /\ q.lastbucket \in DOMAIN q.calendar
  BY <1>1, Counts
<1>3. q.nbuckets >= 2
  BY <1>1, CalendarAssumption DEF Size
<1> QED
  BY <1>1, <1>2, <1>3 DEF Ready, WidthNotNegative

\* A get or a sample takes out an event that none precedes.
LEMMA DequeuedInOrder ==
  ASSUME CalendarInv, OnTime, pc # "put_back", q.qsize > 0, q' = Dequeue(q)
  PROVE  /\ NoneBefore(q.calendar, q'.lastprio) /\ NoneBefore(q'.calendar, q'.lastprio)
         /\ \A p : NoneBefore(q.calendar, p) => p <= q'.lastprio /\ NoneBefore(q'.calendar, p)
         /\ \/ Positioned(q')
            \/ q.cwidth.num > 0 /\ \A k \in 0..(q.nbuckets - 1) : ~Hit(q, k)
         /\ q'.cwidth = q.cwidth /\ q'.lastprio \in Time /\ q.lastprio <= q'.lastprio
<1>1. WidthNotNegative /\ NoneBefore(q.calendar, q.lastprio)
  BY DEF OnTime
<1>2. q'.cwidth = q.cwidth /\ q'.lastprio \in Time
  BY <1>1, Dequeued
<1>3. Places(q.calendar) # {}
  <2>1. q.qsize = Cardinality(Places(q.calendar))
    BY <1>1, Counts
  <2> QED
    BY <2>1, FS_EmptySet
<1>4. Ready(q)
  BY ReadyNow
<1> DEFINE d == Dequeue(q)
<1>5. /\ NoneBefore(q.calendar, d.lastprio) /\ NoneBefore(d.calendar, d.lastprio)
      /\ \A p : NoneBefore(q.calendar, p) => p <= d.lastprio /\ NoneBefore(d.calendar, p)
      /\ \/ Positioned(d)
         \/ q.cwidth.num > 0 /\ \A k \in 0..(q.nbuckets - 1) : ~Hit(q, k)
  BY <1>3, <1>4, TakenInOrder
<1>6. q' = d
  OBVIOUS
<1> HIDE DEF d
<1> QED
  BY <1>1, <1>2, <1>5, <1>6

\* A put of an event that does not precede p changes neither position nor what precedes p.
LEMMA PlacedInOrder ==
  ASSUME CalendarInv, NEW t \in Time, q' = Place(q, t)
  PROVE  /\ q'.cwidth = q.cwidth /\ q'.lastprio = q.lastprio
         /\ Positioned(q) => Positioned(q')
         /\ \A p : NoneBefore(q.calendar, p) /\ p <= t => NoneBefore(q'.calendar, p)
<1> DEFINE d == Place(q, t)
<1>1. QueueOK(q) /\ IsFiniteSet(Places(q.calendar))
  BY DEF CalendarInv
<1>2. /\ d.nbuckets = q.nbuckets /\ d.cwidth = q.cwidth
      /\ d.lastprio = q.lastprio /\ d.lastbucket = q.lastbucket /\ d.top = q.top
  BY <1>1, Placed
<1>3. \A p : NoneBefore(q.calendar, p) /\ p <= t => NoneBefore(d.calendar, p)
  BY <1>1, PlaceKeeps
<1>4. q' = d
  OBVIOUS
<1> HIDE DEF d
<1>5. Positioned(q) => Positioned(d)
  BY <1>2 DEF Positioned, Bucket
<1> QED
  BY <1>2, <1>3, <1>4, <1>5

\* A new calendar starts at the place of the last event taken out.
LEMMA StartPositioned ==
  ASSUME NEW base, NEW n, NEW w, NEW t
  PROVE  LET c == localinit(base, n, w, t) IN Positioned(c) /\ c.lastprio = t /\ c.cwidth = w
BY DEF localinit, Positioned, Bucket

\* A put keeps the calendar on time: the event does not precede the last one taken out.
LEMMA PutOnTime ==
  ASSUME CalendarInv, OnTime, NEW t \in Time, Put(t)
  PROVE  OnTime'
<1>1. /\ pc = "user" /\ pc' \in {"user", "new_width"} /\ q' = Place(q, t) /\ q.lastprio <= t
      /\ UNCHANGED <<saved, temp, back, small, old>>
  <2>1. q.lastprio \in Int /\ t \in Int
    BY TimesAreNat DEF CalendarInv, QueueOK
  <2> QED
    BY <2>1 DEF Put, Resizes, widthVars
<1>2. /\ q'.cwidth = q.cwidth /\ q'.lastprio = q.lastprio
      /\ Positioned(q) => Positioned(q')
      /\ \A p : NoneBefore(q.calendar, p) /\ p <= t => NoneBefore(q'.calendar, p)
  BY <1>1, PlacedInOrder
<1>3. /\ q.cwidth.num >= 0 /\ small.sum >= 0 /\ Positioned(q)
      /\ NoneBefore(q.calendar, q.lastprio) /\ NoneBefore(old.calendar, q.lastprio)
      /\ \A i \in 1..Len(temp) : q.lastprio <= temp[i]
      /\ \A i, j \in 1..Len(temp) : i < j => temp[i] <= temp[j]
  BY <1>1 DEF OnTime, Now, WidthNotNegative
<1> QED
  BY <1>1, <1>2, <1>3, OnTimeAgain

\* A get that need not search directly keeps the calendar on time.
LEMMA GetOnTime ==
  ASSUME CalendarInv, OnTime, Get
  PROVE  OnTime' \/ DirectSearch
<1>1. /\ pc = "user" /\ pc' \in {"user", "new_width"} /\ q' = Dequeue(q) /\ q.qsize > 0
      /\ UNCHANGED <<saved, temp, back, small, old>>
  BY DEF Get, Resizes, widthVars
<1>2. /\ NoneBefore(q'.calendar, q'.lastprio) /\ q'.cwidth = q.cwidth
      /\ \/ Positioned(q')
         \/ q.cwidth.num > 0 /\ \A k \in 0..(q.nbuckets - 1) : ~Hit(q, k)
  BY <1>1, DequeuedInOrder
<1>3. q.cwidth.num >= 0 /\ small.sum >= 0
  BY DEF OnTime, WidthNotNegative
<1>4. temp = <<>> /\ old = NoOld /\ Len(<<>>) = 0
  BY <1>1, EmptySeq DEF CalendarInv, PhaseInv
<1>5. CASE Positioned(q')
  <2>1. NoneBefore(old'.calendar, q'.lastprio)
    BY <1>1, <1>4, NoneInNoOld
  <2> QED
    BY <1>1, <1>2, <1>3, <1>4, <1>5, <2>1, OnTimeAgain
<1>6. CASE q.cwidth.num > 0 /\ \A k \in 0..(q.nbuckets - 1) : ~Hit(q, k)
  BY <1>6 DEF DirectSearch
<1> QED
  BY <1>2, <1>5, <1>6

\* A sample comes after the earlier ones.
LEMMA SampleOnTime ==
  ASSUME CalendarInv, OnTime, TakeSample
  PROVE  OnTime' \/ DirectSearch
<1>1. /\ pc = "sample" /\ pc' \in {"sample", "put_back"} /\ q' = Dequeue(q)
      /\ temp' = Append(temp, q'.lastprio) /\ UNCHANGED <<saved, back, small, old>>
  BY DEF TakeSample
<1>2. /\ temp \in Seq(Time) /\ Len(temp) \in Nat /\ Len(temp) < saved.nsamples
      /\ saved.nsamples <= q.qsize + Len(temp) /\ saved.nsamples \in Nat /\ q.qsize \in Int
      /\ q.lastprio \in Time
  BY <1>1, LenProperties DEF CalendarInv, PhaseInv, QueueOK
<1>3. q.qsize > 0
  BY <1>2
<1>4. /\ NoneBefore(q'.calendar, q'.lastprio) /\ q'.cwidth = q.cwidth
      /\ \A p : NoneBefore(q.calendar, p) => p <= q'.lastprio /\ NoneBefore(q'.calendar, p)
      /\ \/ Positioned(q')
         \/ q.cwidth.num > 0 /\ \A k \in 0..(q.nbuckets - 1) : ~Hit(q, k)
      /\ q'.lastprio \in Time /\ q.lastprio <= q'.lastprio
  BY <1>1, <1>3, DequeuedInOrder
<1>5. /\ q.cwidth.num >= 0 /\ small.sum >= 0
      /\ NoneBefore(q.calendar, saved.lastprio) /\ NoneBefore(old.calendar, saved.lastprio)
      /\ \A i \in 1..Len(temp) : saved.lastprio <= temp[i] /\ temp[i] <= q.lastprio
      /\ \A i, j \in 1..Len(temp) : i < j => temp[i] <= temp[j]
  BY <1>1 DEF OnTime, Now, WidthNotNegative
<1> DEFINE n == Len(temp)
           x == q'.lastprio
<1>6. /\ Len(temp') = n + 1 /\ temp'[n + 1] = x /\ \A i \in 1..n : temp'[i] = temp[i]
  BY <1>1, <1>2, <1>4, AppendProperties
<1>7. \A i \in 1..n : temp[i] <= x /\ temp[i] \in Time
  <2> SUFFICES ASSUME NEW i \in 1..n PROVE temp[i] <= x /\ temp[i] \in Time
    OBVIOUS
  <2>1. temp[i] \in Time /\ temp[i] <= q.lastprio
    BY <1>2, <1>5, LenProperties
  <2> QED
    BY <1>2, <1>4, <2>1, TimesAreNat
<1>8. x \in Int /\ saved.lastprio <= x
  BY <1>4, <1>5, TimesAreNat
<1> HIDE DEF n, x
<1>9. CASE Positioned(q')
  <2>1. n \in Nat
    BY <1>2 DEF n
  <2>2. \A i \in 1..Len(temp') : saved.lastprio <= temp'[i] /\ temp'[i] <= x
    <3> SUFFICES ASSUME NEW i \in 1..(n + 1) PROVE saved.lastprio <= temp'[i] /\ temp'[i] <= x
      BY <1>6
    <3>1. CASE i = n + 1
      BY <1>6, <1>8, <3>1
    <3>2. CASE i # n + 1
      <4>1. i \in 1..n
        BY <2>1, <3>2
      <4> QED
        BY <1>5, <1>6, <1>7, <4>1 DEF n
    <3> QED
      BY <3>1, <3>2
  <2>3. \A i, j \in 1..Len(temp') : i < j => temp'[i] <= temp'[j]
    <3> SUFFICES ASSUME NEW i \in 1..(n + 1), NEW j \in 1..(n + 1), i < j
                 PROVE  temp'[i] <= temp'[j]
      BY <1>6
    <3>1. i \in 1..n
      BY <2>1
    <3>2. CASE j = n + 1
      BY <1>6, <1>7, <3>1, <3>2
    <3>3. CASE j # n + 1
      <4>1. j \in 1..n
        BY <2>1, <3>3
      <4> QED
        BY <1>5, <1>6, <3>1, <4>1 DEF n
    <3> QED
      BY <3>2, <3>3
  <2>4. NoneBefore(q'.calendar, saved.lastprio) /\ NoneBefore(old'.calendar, saved.lastprio)
    BY <1>1, <1>4, <1>5
  <2>5. OnTime'
    BY <1>1, <1>4, <1>5, <1>9, <2>2, <2>3, <2>4, OnTimeAgain DEF x
  <2> QED
    BY <2>5
<1>10. CASE q.cwidth.num > 0 /\ \A k \in 0..(q.nbuckets - 1) : ~Hit(q, k)
  BY <1>10 DEF DirectSearch
<1> QED
  BY <1>4, <1>9, <1>10

\* The separations of samples in order are not negative.
LEMMA PutBackOnTime ==
  ASSUME CalendarInv, OnTime, PutBack
  PROVE  OnTime'
<1>1. /\ pc = "put_back" /\ pc' = "put_back" /\ back < saved.nsamples
      /\ q' = Place(q, temp[back + 1]) /\ UNCHANGED <<saved, temp, old>>
  BY DEF PutBack
<1>2. /\ temp \in Seq(Time) /\ Len(temp) \in Nat /\ Len(temp) = saved.nsamples /\ back \in Nat
      /\ small.sum \in Int
  BY <1>1, LenProperties DEF CalendarInv, PhaseInv
<1>3. \A i \in 1..Len(temp) : temp[i] \in Time /\ temp[i] \in Int
  BY <1>2, LenProperties, TimesAreNat
<1>4. /\ q.cwidth.num >= 0 /\ small.sum >= 0
      /\ NoneBefore(q.calendar, saved.lastprio) /\ NoneBefore(old.calendar, saved.lastprio)
      /\ \A i \in 1..Len(temp) : saved.lastprio <= temp[i]
      /\ \A i, j \in 1..Len(temp) : i < j => temp[i] <= temp[j]
  BY <1>1 DEF OnTime, Now, WidthNotNegative
<1>5. back + 1 \in 1..Len(temp)
  BY <1>1, <1>2
<1>6. NoneBefore(q'.calendar, saved.lastprio) /\ q'.cwidth = q.cwidth
  <2> DEFINE t == temp[back + 1]
  <2>1. t \in Time /\ saved.lastprio <= t /\ q' = Place(q, t)
    BY <1>1, <1>3, <1>4, <1>5
  <2> HIDE DEF t
  <2> QED
    BY <1>4, <2>1, PlacedInOrder
<1>7. small'.sum >= 0
  <2>1. \/ small' = small
        \/ /\ back + 1 > 1
           /\ small' = [sum |-> small.sum + (temp[back + 1] - temp[(back + 1) - 1]),
                        count |-> small.count + 1]
    BY DEF PutBack
  <2>2. CASE small' = small
    BY <1>4, <2>2
  <2>3. CASE /\ back + 1 > 1
             /\ small' = [sum |-> small.sum + (temp[back + 1] - temp[(back + 1) - 1]),
                          count |-> small.count + 1]
    <3>1. (back + 1) - 1 \in 1..Len(temp) /\ (back + 1) - 1 < back + 1
      BY <1>2, <1>5, <2>3
    <3>2. /\ temp[back + 1] \in Int /\ temp[(back + 1) - 1] \in Int
          /\ temp[(back + 1) - 1] <= temp[back + 1]
      BY <1>3, <1>4, <1>5, <3>1
    <3>3. small'.sum = small.sum + (temp[back + 1] - temp[(back + 1) - 1])
      BY <2>3
    <3> QED
      BY <1>2, <1>4, <3>2, <3>3
  <2> QED
    BY <2>1, <2>2, <2>3
<1> QED
  BY <1>1, <1>4, <1>6, <1>7, OnTimeAgain

\* resize goes on with a calendar that starts at the last event taken out before it.
LEMMA CopyStartsOnTime ==
  ASSUME CalendarInv, OnTime, pc \in Widening, NEW c, NEW w, w.num >= 0,
         c.calendar = q.calendar, c.lastprio = Now, StartCopy(c, w)
  PROVE  OnTime'
<1>1. /\ q' = localinit(NewBase(c), newsize, w, Now) /\ old'.calendar = q.calendar
      /\ pc' = "copy" /\ temp' = <<>> /\ small'.sum = 0
  BY DEF StartCopy, NoSum
<1>2. Positioned(q') /\ q'.lastprio = Now /\ q'.cwidth = w
  <2> DEFINE d == localinit(NewBase(c), newsize, w, Now)
  <2>1. Positioned(d) /\ d.lastprio = Now /\ d.cwidth = w
    BY StartPositioned
  <2> HIDE DEF d
  <2> QED
    BY <1>1, <2>1 DEF d
<1>3. \A b \in DOMAIN q'.calendar : q'.calendar[b] = <<>>
  BY <1>1 DEF localinit
<1>4. Len(<<>>) = 0
  BY EmptySeq
<1>5. NoneBefore(q'.calendar, q'.lastprio)
  BY <1>3, <1>4 DEF NoneBefore
<1>6. NoneBefore(old'.calendar, q'.lastprio)
  BY <1>1, <1>2 DEF OnTime
<1> QED
  BY <1>1, <1>2, <1>4, <1>5, <1>6, OnTimeAgain

\* new_width saves the place it will have to go back to.
LEMMA NewWidthOnTime ==
  ASSUME CalendarInv, OnTime, NewWidth
  PROVE  OnTime'
<1>1. pc = "new_width" /\ pc \in Widening /\ temp = <<>> /\ Len(<<>>) = 0 /\ Now = q.lastprio
  BY EmptySeq DEF NewWidth, CalendarInv, PhaseInv, Widening, Now
<1>2. CASE StartCopy(q, UnitWidth)
  <2>1. UnitWidth.num >= 0
    BY CalendarAssumption DEF UnitWidth
  <2> QED
    BY <1>1, <1>2, <2>1, CopyStartsOnTime
<1>3. CASE /\ saved' = [nsamples |-> nsamples(q.qsize), lastbucket |-> q.lastbucket,
                        lastprio |-> q.lastprio, top |-> q.top]
           /\ pc' = "sample"
           /\ UNCHANGED <<q, newsize, temp, back, small, old, held, got>>
  <2>1. saved'.lastprio = q.lastprio
    BY <1>3
  <2>2. /\ q.cwidth.num >= 0 /\ small.sum >= 0 /\ Positioned(q)
        /\ NoneBefore(q.calendar, q.lastprio) /\ NoneBefore(old.calendar, q.lastprio)
    BY <1>1 DEF OnTime, WidthNotNegative
  <2> QED
    BY <1>1, <1>3, <2>1, <2>2, OnTimeAgain
<1> QED
  BY <1>2, <1>3 DEF NewWidth

\* new_width goes back to the place it saved, with a width that is not negative.
LEMMA SetWidthOnTime ==
  ASSUME CalendarInv, OnTime, SetWidth
  PROVE  OnTime'
<1> DEFINE w == [num |-> 3 * small.sum, den |-> small.count]
<1>1. pc = "put_back" /\ pc \in Widening /\ StartCopy(Restored, w)
  BY DEF SetWidth, Widening
<1>2. w.num >= 0
  <2>1. small.sum \in Int /\ small.sum >= 0
    BY DEF OnTime, CalendarInv, PhaseInv
  <2> QED
    BY <2>1
<1>3. Restored.calendar = q.calendar /\ Restored.lastprio = Now
  BY <1>1 DEF Restored, Now, CalendarInv, QueueOK
<1> HIDE DEF w
<1> QED
  BY <1>1, <1>2, <1>3, CopyStartsOnTime

\* The events that are copied do not precede the last one taken out.
LEMMA CopyOnTime ==
  ASSUME CalendarInv, OnTime, NEW b, CopyEvent(b)
  PROVE  OnTime'
<1> DEFINE x == Head(old.calendar[b])
           less == WithoutHead(old.calendar, b)
           s == old.calendar[b]
<1>1. /\ pc = "copy" /\ pc' = "copy" /\ b \in Full(old.calendar) /\ q' = Place(q, x)
      /\ old' = [old EXCEPT !.calendar = less] /\ UNCHANGED <<saved, temp, back, small>>
  BY DEF CopyEvent, Uncopied, widthVars
<1>2. PICK n \in Nat : OldInv(n)
  BY <1>1 DEF CalendarInv, SizeInv
<1> DEFINE D == 0..(n - 1)
<1>3. old.calendar \in [D -> Seq(Time)] /\ b \in D /\ s \in Seq(Time) /\ s # <<>>
  BY <1>1, <1>2 DEF OldInv, Full
<1>4. old'.calendar = less
  BY <1>1, <1>2 DEF OldInv
<1>5. /\ x \in Time /\ s[1] = x /\ 1 \in 1..Len(s) /\ Len(s) = Len(Tail(s)) + 1
      /\ \A j \in 1..Len(Tail(s)) : s[j + 1] = Tail(s)[j]
      /\ Len(Tail(s)) \in Nat
  BY <1>3, TailList, LenProperties
<1>6. DOMAIN less = D /\ less[b] = Tail(s) /\ \A e \in D \ {b} : less[e] = old.calendar[e]
  BY <1>3 DEF WithoutHead
<1>7. /\ q.cwidth.num >= 0 /\ small.sum >= 0 /\ Positioned(q)
      /\ NoneBefore(q.calendar, q.lastprio) /\ NoneBefore(old.calendar, q.lastprio)
      /\ \A i \in 1..Len(temp) : q.lastprio <= temp[i]
      /\ \A i, j \in 1..Len(temp) : i < j => temp[i] <= temp[j]
  BY <1>1 DEF OnTime, Now, WidthNotNegative
<1> HIDE DEF less
<1>8. q.lastprio <= x
  BY <1>3, <1>5, <1>7 DEF NoneBefore
<1>9. NoneBefore(less, q.lastprio)
  <2>1. \A e \in D : \A j \in 1..Len(old.calendar[e]) : q.lastprio <= old.calendar[e][j]
    BY <1>3, <1>7 DEF NoneBefore
  <2>2. ASSUME NEW e \in D, NEW j \in 1..Len(less[e]) PROVE q.lastprio <= less[e][j]
    <3>1. CASE e = b
      <4>1. j \in 1..Len(Tail(s)) /\ less[e][j] = Tail(s)[j]
        BY <1>6, <3>1
      <4>2. j + 1 \in 1..Len(s)
        BY <1>5, <4>1
      <4>3. q.lastprio <= s[j + 1]
        BY <1>3, <2>1, <4>2
      <4> QED
        BY <1>5, <4>1, <4>3
    <3>2. CASE e # b
      BY <1>6, <2>1, <3>2
    <3> QED
      BY <3>1, <3>2
  <2> QED
    BY <1>6, <2>2 DEF NoneBefore
<1> HIDE DEF x
<1>10. /\ q'.cwidth = q.cwidth /\ q'.lastprio = q.lastprio /\ Positioned(q')
       /\ NoneBefore(q'.calendar, q.lastprio)
  BY <1>1, <1>5, <1>7, <1>8, PlacedInOrder
<1> QED
  BY <1>1, <1>4, <1>7, <1>9, <1>10, OnTimeAgain

\* The end of a resize changes nothing in the new calendar.
LEMMA CopiedOnTime ==
  ASSUME CalendarInv, OnTime, Copied
  PROVE  OnTime'
<1>1. pc = "copy" /\ pc' = "user" /\ old' = NoOld /\ UNCHANGED <<q, saved, temp, back, small>>
  BY DEF Copied, widthVars
<1>2. /\ q.cwidth.num >= 0 /\ small.sum >= 0 /\ Positioned(q)
      /\ NoneBefore(q.calendar, q.lastprio)
      /\ \A i \in 1..Len(temp) : q.lastprio <= temp[i]
      /\ \A i, j \in 1..Len(temp) : i < j => temp[i] <= temp[j]
  BY <1>1 DEF OnTime, Now, WidthNotNegative
<1>3. NoneBefore(old'.calendar, q.lastprio)
  BY <1>1, NoneInNoOld
<1> QED
  BY <1>1, <1>2, <1>3, OnTimeAgain

\* calqueue_init starts at time 0, before any event.
LEMMA StartOnTime ==
  ASSUME CalendarInit
  PROVE  OnTime
<1> DEFINE d == localinit(0, 2, UnitWidth, 0)
<1>1. /\ q = d /\ pc = "user" /\ temp = <<>> /\ small.sum = 0 /\ old = NoOld
      /\ Len(<<>>) = 0
  BY EmptySeq DEF CalendarInit, calqueue_init, NoSum
<1>2. Positioned(d) /\ d.cwidth = UnitWidth
  BY StartPositioned
<1>3. \A b \in DOMAIN d.calendar : d.calendar[b] = <<>>
  BY DEF localinit
<1> HIDE DEF d
<1>4. WidthNotNegative
  BY <1>1, <1>2, CalendarAssumption DEF WidthNotNegative, UnitWidth
<1>5. \A p : NoneBefore(q.calendar, p) /\ NoneBefore(old.calendar, p)
  BY <1>1, <1>3, NoneInNoOld DEF NoneBefore
<1> QED
  BY <1>1, <1>2, <1>4, <1>5 DEF OnTime

\* Only a direct search of calqueue_deq leaves the calendar at another place than that of the
\* last event taken out, whatever puts, gets and resizes came before it.
THEOREM PositionAlwaysKept == CalendarSpec => PositionKept
<1>1. CalendarInv /\ [CalendarNext]_calendarVars
        => [OnTime => OnTime' \/ DirectSearch]_calendarVars
  <2> SUFFICES ASSUME CalendarInv, CalendarNext, OnTime
               PROVE  OnTime' \/ DirectSearch
    OBVIOUS
  <2>1. CASE NewWidth
    BY <2>1, NewWidthOnTime
  <2>2. CASE TakeSample
    BY <2>2, SampleOnTime
  <2>3. CASE PutBack
    BY <2>3, PutBackOnTime
  <2>4. CASE SetWidth
    BY <2>4, SetWidthOnTime
  <2>5. CASE Copied
    BY <2>5, CopiedOnTime
  <2>6. CASE \E b \in DOMAIN old.calendar : CopyEvent(b)
    BY <2>6, CopyOnTime
  <2>7. CASE Get
    BY <2>7, GetOnTime
  <2>8. CASE \E t \in Time : Put(t)
    BY <2>8, PutOnTime
  <2> QED
    BY <2>1, <2>2, <2>3, <2>4, <2>5, <2>6, <2>7, <2>8 DEF CalendarNext, resize
<1>2. CalendarInit => OnTime
  BY StartOnTime
<1> QED
  BY <1>1, <1>2, CalendarInvariant, PTL DEF CalendarSpec, PositionKept

\* From a calendar in that place calqueue_get returns an event that none of those in the queue
\* precedes, also if it has to search for it directly.
THEOREM OnTimeTakesMinimum == CalendarSpec => TakesMinimum
<1>1. CalendarInv /\ [CalendarNext]_calendarVars
        => [Get /\ OnTime => \A t \in Time : held[t] > 0 => got' <= t]_calendarVars
  <2> SUFFICES ASSUME CalendarInv, OnTime, Get, NEW t \in Time, held[t] > 0
               PROVE  got' <= t
    OBVIOUS
  <2>1. /\ pc = "user" /\ q.qsize > 0 /\ q' = Dequeue(q) /\ got' = q'.lastprio
        /\ WidthNotNegative
    BY DEF Get, OnTime
  <2>2. NoneBefore(q.calendar, q'.lastprio)
    BY <2>1, DequeuedInOrder
  <2>3. held[t] = Cardinality(PlacesOf(q.calendar, t)) + Cardinality(InHand(temp, back, t))
                  + Cardinality(PlacesOf(old.calendar, t))
    BY <2>1, Counts
  <2>4. Cardinality(InHand(temp, back, t)) = 0
    <3>1. temp \in Seq(Time) /\ back \in Nat /\ back >= Len(temp)
      BY <2>1, EmptySeq DEF CalendarInv, PhaseInv
    <3> QED
      BY <3>1, Samples
  <2>5. Cardinality(PlacesOf(old.calendar, t)) = 0
    BY <2>1, NoOldEmpty DEF CalendarInv, PhaseInv
  <2>6. Cardinality(PlacesOf(q.calendar, t)) \in Nat
    BY CountsAreNat
  <2>7. PlacesOf(q.calendar, t) # {}
    <3>1. Cardinality(PlacesOf(q.calendar, t)) # 0
      BY <2>3, <2>4, <2>5, <2>6
    <3>2. Cardinality({}) = 0
      BY FS_EmptySet
    <3> QED
      BY <3>1, <3>2
  <2>8. PICK b \in DOMAIN q.calendar : \E j \in 1..Len(q.calendar[b]) : q.calendar[b][j] = t
    <3>1. PICK p \in Places(q.calendar) : q.calendar[p[1]][p[2]] = t
      BY <2>7 DEF PlacesOf
    <3>2. PICK b \in DOMAIN q.calendar : \E j \in 1..Len(q.calendar[b]) : p = <<b, j>>
      BY PlaceIs
    <3> QED
      BY <3>1, <3>2
  <2> QED
    BY <2>1, <2>2, <2>8 DEF NoneBefore
<1> QED
  BY <1>1, CalendarInvariant, PTL DEF CalendarSpec, TakesMinimum
=============================================================================
