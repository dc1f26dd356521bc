--------------------------- MODULE SwitchCoreProofs ---------------------------
(***************************************************************************)
(* Theorems about VoqBuffer, for any number of ports, both organisations   *)
(* and any configured size, and about SwitchCore, which contains it, for   *)
(* any traffic, any latencies and all three schedulers, with resets        *)
(* between cycles.                                                         *)
(***************************************************************************)
EXTENDS SwitchCore, FiniteSetTheorems, SequenceTheorems, TLAPS

Matching == INSTANCE PortSchedulerProofs

-------------------------------------------------------------------------------
(* The packet buffer. *)

(* Cells and limits are well defined. *)
LEMMA CellType ==
  /\ \A i, o \in Ports : Cell(i, o) \in Cells
  /\ \A c \in Cells : Limit(c) \in Nat
<1>1. 0 \in Ports
  BY BufferAssumption DEF Ports
<1> QED
  BY <1>1, BufferAssumption DEF Cell, Cells, Limit

(* ... and never change. *)
LEMMA CellsFixed ==
  ASSUME UNCHANGED bufferType
  PROVE  /\ \A i, o \in Ports : Cell(i, o)' = Cell(i, o)
         /\ \A c \in Cells : Limit(c)' = Limit(c)
  BY DEF Cell, Limit

LEMMA OutputPortsType ==
  ASSUME NEW i \in Ports, NEW dst \in Ports \cup {Broadcast}
  PROVE  OutputPorts(i, dst) \subseteq Ports
  BY DEF OutputPorts, Broadcast

(* The state an accepted packet leaves behind, queue by queue. *)
LEMMA AcceptQueues ==
  ASSUME TypeOK, NEW i \in Ports, NEW dst \in Ports \cup {Broadcast},
         NEW words \in Nat \ {0}, EnqueueAccepted(i, dst, words)
  PROVE  \A a, o \in Ports :
           voq'[a][o] = IF a = i /\ o \in OutputPorts(i, dst)
                        THEN Append(voq[a][o], [id |-> offered + 1, words |-> words])
                        ELSE voq[a][o]
  BY DEF TypeOK, EnqueueAccepted

LEMMA WordsType ==
  ASSUME NEW words \in 1 .. MaxWords
  PROVE  words \in Nat \ {0}
  BY BufferAssumption

(* The fields of the entries of a queue. *)
LEMMA EntryType ==
  ASSUME NEW s \in Seq(Entry)
  PROVE  /\ Len(s) \in Nat
         /\ \A m \in 1 .. Len(s) : s[m].id \in Nat \ {0} /\ s[m].words \in Nat \ {0}
         /\ s # <<>> => /\ Len(s) > 0
                       /\ Head(s) = s[1]
                       /\ Head(s).words \in Nat \ {0}
                       /\ Tail(s) \in Seq(Entry)
                       /\ Len(Tail(s)) = Len(s) - 1
                       /\ \A m \in 1 .. Len(s) - 1 : Tail(s)[m] = s[m + 1]
<1>1. \A e \in Entry : e.id \in Nat \ {0} /\ e.words \in Nat \ {0}
  BY DEF Entry
<1>2. Len(s) \in Nat /\ \A m \in 1 .. Len(s) : s[m] \in Entry
  OBVIOUS
<1>3. ASSUME s # <<>> PROVE Head(s) \in Entry /\ Head(s) = s[1] /\ Len(s) > 0
  BY <1>3
<1>4. ASSUME s # <<>> PROVE /\ Tail(s) \in Seq(Entry)
                            /\ Len(Tail(s)) = Len(s) - 1
                            /\ \A m \in 1 .. Len(s) - 1 : Tail(s)[m] = s[m + 1]
  BY <1>4
<1> QED
  BY <1>1, <1>2, <1>3, <1>4

(* An enqueue keeps every variable in its type. *)
LEMMA EnqueueTyped ==
  ASSUME TypeOK, NEW i \in Ports, NEW dst \in Ports \cup {Broadcast},
         NEW words \in Nat \ {0}, EnqueuePacket(i, dst, words)
  PROVE  TypeOK'
<1>1. offered' \in Nat /\ bufferType' \in BufferTypes /\ request' \in Requests
  <2>1. OutputPorts(i, dst) \in SUBSET Ports
    BY OutputPortsType
  <2>2. <<i, OutputPorts(i, dst)>> \in Requests
    BY <2>1 DEF Requests
  <2> QED
    BY <2>2 DEF EnqueuePacket, TypeOK
<1>2. CASE EnqueueAccepted(i, dst, words)
  <2>1. [id |-> offered + 1, words |-> words] \in Entry
    BY DEF TypeOK, Entry
  <2>2. voq' \in [Ports -> [Ports -> Seq(Entry)]]
    BY <1>2, <2>1 DEF EnqueueAccepted, TypeOK
  <2>3. used' \in [Cells -> Nat] /\ peak' \in [Cells -> Nat]
    BY <1>2 DEF EnqueueAccepted, TypeOK, MaxOf
  <2>4. stats' \in [Counters -> Int]
    <3>1. NumOutputs(i, dst) \in Int
      BY BufferAssumption DEF NumOutputs
    <3> QED
      BY <1>2, <3>1 DEF EnqueueAccepted, TypeOK, Counters, MaxOf
  <2> QED
    BY <1>1, <2>2, <2>3, <2>4 DEF TypeOK
<1>3. CASE EnqueueDropped(i, dst, words)
  BY <1>1, <1>3 DEF EnqueueDropped, TypeOK, Counters
<1> QED
  BY <1>2, <1>3 DEF EnqueuePacket

(* Every variable keeps its type. *)
THEOREM TypeCorrect == Spec => []TypeOK
<1>1. Init => TypeOK
  BY DEF Init, TypeOK, Requests
<1>2. TypeOK /\ [Next]_vars => TypeOK'
  <2> SUFFICES ASSUME TypeOK, [Next]_vars PROVE TypeOK'
    OBVIOUS
  <2>1. ASSUME NEW i \in Ports, NEW dst \in Ports \cup {Broadcast},
               NEW words \in 1 .. MaxWords, EnqueuePacket(i, dst, words)
        PROVE  TypeOK'
    BY <2>1, EnqueueTyped, WordsType
  <2>2. ASSUME NEW i \in Ports, NEW o \in Ports, DequeuePacket(i, o)
        PROVE  TypeOK'
    <3>1. voq[i][o] \in Seq(Entry) /\ voq[i][o] # <<>>
      BY <2>2 DEF TypeOK, DequeuePacket
    <3>2. Head(voq[i][o]) \in Entry /\ Tail(voq[i][o]) \in Seq(Entry)
      BY <3>1
    <3>3. voq' \in [Ports -> [Ports -> Seq(Entry)]]
      BY <2>2, <3>2 DEF TypeOK, DequeuePacket
    <3>4. used' \in [Cells -> Nat]
      <4>1. Cell(i, o) \in Cells
        BY CellType
      <4>2. MaxOf(0, used[Cell(i, o)] - Head(voq[i][o]).words) \in Nat
        BY <3>2, <4>1 DEF TypeOK, MaxOf, Entry
      <4> QED
        BY <2>2, <4>1, <4>2 DEF TypeOK, DequeuePacket
    <3>5. stats' \in [Counters -> Int]
      BY <2>2 DEF TypeOK, DequeuePacket, Counters
    <3> QED
      BY <2>2, <3>3, <3>4, <3>5 DEF TypeOK, DequeuePacket
  <2>3. ASSUME Reset PROVE TypeOK'
    BY <2>3 DEF Reset, TypeOK, Requests
  <2>4. ASSUME UNCHANGED vars PROVE TypeOK'
    BY <2>4 DEF vars, TypeOK
  <2> QED
    BY <2>1, <2>2, <2>3, <2>4 DEF Next
<1> QED
  BY <1>1, <1>2, PTL DEF Spec

-------------------------------------------------------------------------------
(* The memory of an accepted packet was checked against the limit of every *)
(* cell it is charged to.                                                  *)
LEMMA EnqueueFits ==
  ASSUME TypeOK, WithinLimits, NEW i \in Ports, NEW dst \in Ports \cup {Broadcast},
         NEW words \in Nat \ {0}, EnqueuePacket(i, dst, words)
  PROVE  WithinLimits'
<1>0. /\ \A a, o \in Ports : Cell(a, o)' = Cell(a, o)
      /\ \A c \in Cells : Limit(c)' = Limit(c)
  BY CellsFixed DEF EnqueuePacket
<1>1. CASE EnqueueAccepted(i, dst, words)
  <2> SUFFICES ASSUME NEW a \in Ports, NEW b \in Ports
               PROVE  /\ used'[Cell(a, b)] <= peak'[Cell(a, b)]
                      /\ peak'[Cell(a, b)] <= Limit(Cell(a, b))
    BY <1>0, CellType DEF WithinLimits
  <2> DEFINE c == Cell(a, b)
             charged == {Cell(i, o) : o \in OutputPorts(i, dst)}
  <2>1. c \in Cells /\ used[c] \in Nat /\ peak[c] \in Nat /\ Limit(c) \in Nat
    BY CellType DEF TypeOK
  <2>2. used[c] <= peak[c] /\ peak[c] <= Limit(c)
    BY DEF WithinLimits
  <2>3. c \in charged => used[c] + words <= Limit(c)
    BY <1>1 DEF EnqueueAccepted, HasRoom
  <2>4. used'[c] = IF c \in charged THEN used[c] + words ELSE used[c]
    BY <1>1, <2>1 DEF EnqueueAccepted
  <2>5. peak'[c] = IF c \in charged THEN MaxOf(peak[c], used[c] + words)
                                    ELSE peak[c]
    BY <1>1, <2>1 DEF EnqueueAccepted
  <2> HIDE DEF c, charged
  <2>6. used'[c] <= peak'[c] /\ peak'[c] <= Limit(c)
    BY <2>1, <2>2, <2>3, <2>4, <2>5 DEF MaxOf
  <2> QED
    BY <2>6 DEF c
<1>2. CASE EnqueueDropped(i, dst, words)
  BY <1>0, <1>2, CellType DEF EnqueueDropped, WithinLimits
<1> QED
  BY <1>1, <1>2 DEF EnqueuePacket

LEMMA InitFits == Init => WithinLimits
  BY CellType DEF Init, WithinLimits

(* Memory that is only given back stays within the limits. *)
LEMMA FreedFits ==
  ASSUME TypeOK, WithinLimits, TypeOK', UNCHANGED <<bufferType, peak>>,
         \A c \in Cells : used'[c] <= used[c]
  PROVE  WithinLimits'
<1>0. /\ \A i, o \in Ports : Cell(i, o)' = Cell(i, o)
      /\ \A c \in Cells : Limit(c)' = Limit(c)
  BY CellsFixed
<1> SUFFICES ASSUME NEW a \in Ports, NEW b \in Ports
             PROVE  /\ used'[Cell(a, b)] <= peak'[Cell(a, b)]
                    /\ peak'[Cell(a, b)] <= Limit(Cell(a, b))
  BY <1>0, CellType DEF WithinLimits
<1> DEFINE c == Cell(a, b)
<1>1. /\ c \in Cells /\ used[c] \in Nat /\ used'[c] \in Nat /\ peak[c] \in Nat
      /\ used[c] <= peak[c] /\ peak[c] <= Limit(c) /\ peak'[c] = peak[c]
  BY CellType DEF TypeOK, WithinLimits
<1> HIDE DEF c
<1>2. used'[c] <= peak'[c] /\ peak'[c] <= Limit(c)
  BY <1>1
<1> QED
  BY <1>2 DEF c

(* The memory of an accepted packet was checked against the limit of every *)
(* cell it is charged to, and a dequeue only gives memory back.            *)
THEOREM MemoryBounded == Spec => []WithinLimits
<1>1. Init => WithinLimits
  BY InitFits
<1>2. TypeOK /\ WithinLimits /\ TypeOK' /\ [Next]_vars => WithinLimits'
  <2> SUFFICES ASSUME TypeOK, WithinLimits, TypeOK', [Next]_vars PROVE WithinLimits'
    OBVIOUS
  <2>0. /\ \A i, o \in Ports : Cell(i, o)' = Cell(i, o)
        /\ \A c \in Cells : Limit(c)' = Limit(c)
    BY CellsFixed DEF Next, EnqueuePacket, DequeuePacket, Reset, vars
  <2>1. ASSUME NEW i \in Ports, NEW dst \in Ports \cup {Broadcast},
               NEW words \in 1 .. MaxWords, EnqueuePacket(i, dst, words)
        PROVE  WithinLimits'
    BY <2>1, EnqueueFits, WordsType
  <2>2. ASSUME NEW i \in Ports, NEW o \in Ports, DequeuePacket(i, o)
        PROVE  WithinLimits'
    <3>1. Cell(i, o) \in Cells /\ Head(voq[i][o]).words \in Nat
      <4>1. voq[i][o] \in Seq(Entry) /\ voq[i][o] # <<>>
        BY <2>2 DEF TypeOK, DequeuePacket
      <4> QED
        BY <4>1, CellType, EntryType
    <3>2. MaxOf(0, used[Cell(i, o)] - Head(voq[i][o]).words) <= used[Cell(i, o)]
      <4>1. used[Cell(i, o)] \in Nat
        BY <3>1 DEF TypeOK
      <4>2. \A m, n \in Nat : MaxOf(0, m - n) <= m
        BY DEF MaxOf
      <4> QED
        BY <3>1, <4>1, <4>2
    <3>3. \A c \in Cells : used'[c] <= used[c]
      BY <2>2, <3>1, <3>2 DEF DequeuePacket, TypeOK
    <3> QED
      BY <2>2, <3>3, FreedFits DEF DequeuePacket
  <2>3. ASSUME Reset PROVE WithinLimits'
    BY <2>0, <2>3, CellType DEF Reset, WithinLimits
  <2>4. ASSUME UNCHANGED vars PROVE WithinLimits'
    BY <2>0, <2>4, CellType DEF vars, WithinLimits
  <2> QED
    BY <2>1, <2>2, <2>3, <2>4 DEF Next
<1> QED
  BY <1>1, <1>2, TypeCorrect, PTL DEF Spec

-------------------------------------------------------------------------------
(* Counting the words of a memory, for any matrix of queues and any set of *)
(* pairs.                                                                  *)
Matrices == [Ports -> [Ports -> Seq(Entry)]]
Pairs == SUBSET (Ports \X Ports)

Queue(q, io) == q[io[1]][io[2]]

IsWord(w, q, io, m, k) ==
  w = <<<<io, m>>, k>> /\ m \in 1 .. Len(Queue(q, io)) /\ k \in 1 .. Queue(q, io)[m].words

LEMMA QueueType ==
  ASSUME NEW q \in Matrices, NEW io \in Ports \X Ports
  PROVE  /\ Queue(q, io) \in Seq(Entry)
         /\ DOMAIN Queue(q, io) = 1 .. Len(Queue(q, io)) /\ Len(Queue(q, io)) \in Nat
         /\ \A m \in 1 .. Len(Queue(q, io)) : Queue(q, io)[m].words \in Nat \ {0}
<1>1. Queue(q, io) \in Seq(Entry)
  BY DEF Matrices, Queue
<1> QED
  BY <1>1, EntryType

LEMMA PlaceIs ==
  ASSUME NEW q \in Matrices, NEW P \in Pairs, NEW p
  PROVE  p \in PlacesIn(q, P) <=> \E io \in P : \E m \in 1 .. Len(Queue(q, io)) : p = <<io, m>>
<1>1. \A io \in P : io \in Ports \X Ports /\ DOMAIN Queue(q, io) = 1 .. Len(Queue(q, io))
  BY QueueType DEF Pairs
<1>2. p \in PlacesIn(q, P) <=> \E io \in P : p \in {io} \X DOMAIN Queue(q, io)
  BY DEF PlacesIn, Queue
<1>3. \A io \in P : p \in {io} \X DOMAIN Queue(q, io)
                      <=> \E m \in 1 .. Len(Queue(q, io)) : p = <<io, m>>
  BY <1>1
<1> QED
  BY <1>2, <1>3

LEMMA WordIs ==
  ASSUME NEW q \in Matrices, NEW P \in Pairs, NEW w \in WordsIn(q, P)
  PROVE  \E io \in P, m \in Nat, k \in Nat : IsWord(w, q, io, m, k)
<1>1. PICK p \in PlacesIn(q, P) : w \in {p} \X (1 .. EntryAt(q, p).words)
  BY DEF WordsIn
<1>2. PICK io \in P : \E m \in 1 .. Len(Queue(q, io)) : p = <<io, m>>
  BY PlaceIs
<1>3. PICK m \in 1 .. Len(Queue(q, io)) : p = <<io, m>>
  BY <1>2
<1>4. /\ EntryAt(q, p) = Queue(q, io)[m]
      /\ Len(Queue(q, io)) \in Nat /\ Queue(q, io)[m].words \in Nat
  BY <1>3, QueueType DEF EntryAt, Queue, Pairs
<1>5. PICK k \in 1 .. Queue(q, io)[m].words : w = <<p, k>>
  BY <1>1, <1>4
<1>6. m \in Nat /\ k \in Nat /\ IsWord(w, q, io, m, k)
  BY <1>3, <1>4, <1>5 DEF IsWord
<1> QED
  BY <1>6

LEMMA WordAt ==
  ASSUME NEW q \in Matrices, NEW P \in Pairs, NEW io \in P, NEW m, NEW k, NEW w,
         IsWord(w, q, io, m, k)
  PROVE  w \in WordsIn(q, P)
<1>1. <<io, m>> \in PlacesIn(q, P)
  BY PlaceIs DEF IsWord
<1>2. EntryAt(q, <<io, m>>) = Queue(q, io)[m]
  BY DEF EntryAt, Queue
<1>3. w \in {<<io, m>>} \X (1 .. EntryAt(q, <<io, m>>).words)
  BY <1>2 DEF IsWord
<1> QED
  BY <1>1, <1>3 DEF WordsIn

(* As many as there are numbers to tell them apart. *)
LEMMA Numbered ==
  ASSUME NEW x, NEW n \in Nat
  PROVE  /\ IsFiniteSet({x} \X (1 .. n))
         /\ Cardinality({x} \X (1 .. n)) = n
<1>1. IsFiniteSet(1 .. n) /\ Cardinality(1 .. n) = n
  BY FS_Interval
<1>2. IsFiniteSet({x}) /\ Cardinality({x}) = 1
  BY FS_Singleton
<1> QED
  BY <1>1, <1>2, FS_Product

(* A packet joins one of the queues. *)
LEMMA WordsGrow ==
  ASSUME NEW q \in Matrices, NEW r \in Matrices, NEW P \in Pairs, NEW io \in P,
         NEW e \in Entry, Queue(r, io) = Append(Queue(q, io), e),
         \A ab \in P : ab # io => Queue(r, ab) = Queue(q, ab),
         IsFiniteSet(WordsIn(q, P))
  PROVE  /\ IsFiniteSet(WordsIn(r, P))
         /\ Cardinality(WordsIn(r, P)) = Cardinality(WordsIn(q, P)) + e.words
<1> DEFINE n == Len(Queue(q, io))
           new == {<<io, n + 1>>} \X (1 .. e.words)
<1>1. /\ n \in Nat /\ Len(Queue(r, io)) = n + 1
      /\ \A m \in 1 .. n : Queue(r, io)[m] = Queue(q, io)[m]
      /\ Queue(r, io)[n + 1] = e
      /\ e.words \in Nat
  <2>1. Queue(q, io) \in Seq(Entry)
    BY QueueType DEF Pairs
  <2>2. e.words \in Nat
    BY DEF Entry
  <2> QED
    BY <2>1, <2>2
<1> HIDE DEF n
<1>2. ASSUME NEW w \in WordsIn(r, P) PROVE w \in WordsIn(q, P) \cup new
  <2>1. PICK ab \in P, m \in Nat, k \in Nat : IsWord(w, r, ab, m, k)
    BY WordIs
  <2>2. CASE ab # io
    <3>1. IsWord(w, q, ab, m, k)
      BY <2>1, <2>2 DEF IsWord
    <3> QED
      BY <3>1, WordAt
  <2>3. CASE ab = io /\ m # n + 1
    <3>1. IsWord(w, q, io, m, k)
      BY <1>1, <2>1, <2>3 DEF IsWord, n
    <3> QED
      BY <3>1, WordAt
  <2>4. CASE ab = io /\ m = n + 1
    BY <1>1, <2>1, <2>4 DEF IsWord
  <2> QED
    BY <2>2, <2>3, <2>4
<1>3. ASSUME NEW w \in WordsIn(q, P) PROVE w \in WordsIn(r, P) /\ w \notin new
  <2>1. PICK ab \in P, m \in Nat, k \in Nat : IsWord(w, q, ab, m, k)
    BY WordIs
  <2>2. CASE ab # io
    <3>1. IsWord(w, r, ab, m, k) /\ w[1][1] = ab
      BY <2>1, <2>2 DEF IsWord
    <3> QED
      BY <2>2, <3>1, WordAt
  <2>3. CASE ab = io
    <3>1. m \in 1 .. n
      BY <2>1, <2>3 DEF IsWord, n
    <3>2. IsWord(w, r, io, m, k) /\ w[1][2] = m
      BY <1>1, <2>1, <2>3, <3>1 DEF IsWord
    <3>3. m # n + 1
      BY <1>1, <3>1
    <3> QED
      BY <3>2, <3>3, WordAt
  <2> QED
    BY <2>2, <2>3
<1>4. ASSUME NEW w \in new PROVE w \in WordsIn(r, P)
  <2>1. PICK k \in 1 .. e.words : w = <<<<io, n + 1>>, k>>
    OBVIOUS
  <2>2. IsWord(w, r, io, n + 1, k)
    BY <1>1, <2>1 DEF IsWord
  <2> QED
    BY <2>2, WordAt
<1>5. IsFiniteSet(new) /\ Cardinality(new) = e.words
  BY <1>1, Numbered
<1> HIDE DEF new
<1>6. WordsIn(r, P) = WordsIn(q, P) \cup new /\ WordsIn(q, P) \cap new = {}
  BY <1>2, <1>3, <1>4
<1>7. /\ IsFiniteSet(WordsIn(q, P) \cup new)
      /\ Cardinality(WordsIn(q, P) \cup new)
           = Cardinality(WordsIn(q, P)) + Cardinality(new) - Cardinality({})
  BY <1>5, <1>6, FS_Union
<1>8. Cardinality({}) = 0 /\ Cardinality(WordsIn(q, P)) \in Nat
  BY FS_EmptySet, FS_CardinalityType
<1> QED
  BY <1>1, <1>5, <1>6, <1>7, <1>8

(* The packet at the head of one of the queues leaves, and the others of   *)
(* its queue move up.                                                      *)
LEMMA WordsShrink ==
  ASSUME NEW q \in Matrices, NEW r \in Matrices, NEW P \in Pairs, NEW io \in P,
         Queue(q, io) # <<>>, Queue(r, io) = Tail(Queue(q, io)),
         \A ab \in P : ab # io => Queue(r, ab) = Queue(q, ab),
         IsFiniteSet(WordsIn(q, P))
  PROVE  /\ IsFiniteSet(WordsIn(r, P))
         /\ Cardinality(WordsIn(r, P)) = Cardinality(WordsIn(q, P)) - Head(Queue(q, io)).words
         /\ Cardinality(WordsIn(q, P)) \in Nat /\ Cardinality(WordsIn(r, P)) \in Nat
<1> DEFINE n == Len(Queue(q, io))
           first == {<<io, 1>>} \X (1 .. Head(Queue(q, io)).words)
           Before(w) == IF w[1][1] = io THEN <<<<io, w[1][2] + 1>>, w[2]>> ELSE w
           f == [w \in WordsIn(r, P) |-> Before(w)]
<1>1. /\ n \in Nat \ {0} /\ Len(Queue(r, io)) = n - 1
      /\ Head(Queue(q, io)) = Queue(q, io)[1] /\ Head(Queue(q, io)).words \in Nat
      /\ \A m \in 1 .. n - 1 : Queue(r, io)[m] = Queue(q, io)[m + 1]
  <2>1. Queue(q, io) \in Seq(Entry)
    BY QueueType DEF Pairs
  <2> QED
    BY <2>1, EntryType
<1> HIDE DEF n
<1>2. ASSUME NEW w \in first PROVE w \in WordsIn(q, P)
  <2>1. PICK k \in 1 .. Head(Queue(q, io)).words : w = <<<<io, 1>>, k>>
    OBVIOUS
  <2>2. IsWord(w, q, io, 1, k)
    BY <1>1, <2>1 DEF IsWord, n
  <2> QED
    BY <2>2, WordAt
<1>3. IsFiniteSet(first) /\ Cardinality(first) = Head(Queue(q, io)).words
  BY <1>1, Numbered
<1>4. ASSUME NEW w \in WordsIn(r, P)
      PROVE  /\ Before(w) \in WordsIn(q, P) \ first
             /\ w = <<<<w[1][1], w[1][2]>>, w[2]>> /\ w[1][2] \in Nat
  <2>1. PICK ab \in P, m \in Nat, k \in Nat : IsWord(w, r, ab, m, k)
    BY WordIs
  <2>2. w = <<<<ab, m>>, k>>
    BY <2>1 DEF IsWord
  <2>3. CASE ab # io
    <3>1. Before(w) = w /\ IsWord(w, q, ab, m, k)
      BY <2>1, <2>2, <2>3 DEF IsWord
    <3>2. w \notin first
      BY <2>2, <2>3
    <3> QED
      BY <2>2, <3>1, <3>2, WordAt
  <2>4. CASE ab = io
    <3>1. Before(w) = <<<<io, m + 1>>, k>> /\ m \in 1 .. n - 1
      BY <1>1, <2>1, <2>2, <2>4 DEF IsWord
    <3>2. m + 1 \in 1 .. n /\ m + 1 # 1
      BY <1>1, <3>1
    <3>3. IsWord(Before(w), q, io, m + 1, k)
      BY <1>1, <2>1, <2>4, <3>1, <3>2 DEF IsWord, n
    <3>4. Before(w) \notin first
      BY <3>1, <3>2
    <3> QED
      BY <2>2, <3>3, <3>4, WordAt
  <2> QED
    BY <2>3, <2>4
<1>5. ASSUME NEW v \in WordsIn(r, P), NEW w \in WordsIn(r, P), Before(v) = Before(w)
      PROVE  v = w
  <2>1. /\ v = <<<<v[1][1], v[1][2]>>, v[2]>> /\ v[1][2] \in Nat
        /\ w = <<<<w[1][1], w[1][2]>>, w[2]>> /\ w[1][2] \in Nat
    BY <1>4
  <2>2. /\ Before(v)[1][1] = v[1][1] /\ Before(v)[2] = v[2]
        /\ Before(v)[1][2] = IF v[1][1] = io THEN v[1][2] + 1 ELSE v[1][2]
    OBVIOUS
  <2>3. /\ Before(w)[1][1] = w[1][1] /\ Before(w)[2] = w[2]
        /\ Before(w)[1][2] = IF w[1][1] = io THEN w[1][2] + 1 ELSE w[1][2]
    OBVIOUS
  <2> HIDE DEF Before
  <2>4. v[1][1] = w[1][1] /\ v[2] = w[2] /\ v[1][2] = w[1][2]
    BY <1>5, <2>1, <2>2, <2>3
  <2> QED
    BY <2>1, <2>4
<1>6. ASSUME NEW w \in WordsIn(q, P) \ first PROVE \E v \in WordsIn(r, P) : Before(v) = w
  <2>1. PICK ab \in P, m \in Nat, k \in Nat : IsWord(w, q, ab, m, k)
    BY WordIs
  <2>2. w = <<<<ab, m>>, k>>
    BY <2>1 DEF IsWord
  <2>3. CASE ab # io
    <3>1. Before(w) = w /\ IsWord(w, r, ab, m, k)
      BY <2>1, <2>2, <2>3 DEF IsWord
    <3> QED
      BY <3>1, WordAt
  <2>4. CASE ab = io
    <3>1. m # 1
      BY <1>1, <2>1, <2>2, <2>4 DEF IsWord
    <3>2. m - 1 \in 1 .. n - 1 /\ (m - 1) + 1 = m
      BY <1>1, <2>1, <2>4, <3>1 DEF IsWord, n
    <3>3. IsWord(<<<<io, m - 1>>, k>>, r, io, m - 1, k)
      BY <1>1, <2>1, <2>4, <3>2 DEF IsWord
    <3>4. Before(<<<<io, m - 1>>, k>>) = w
      BY <2>2, <2>4, <3>2
    <3> QED
      BY <3>3, <3>4, WordAt
  <2> QED
    BY <2>3, <2>4
<1>7. /\ f \in Injection(WordsIn(r, P), WordsIn(q, P) \ first)
      /\ f \in Surjection(WordsIn(r, P), WordsIn(q, P) \ first)
  <2>1. /\ f \in [WordsIn(r, P) -> WordsIn(q, P) \ first]
        /\ \A w \in WordsIn(r, P) : f[w] = Before(w)
    BY <1>4
  <2> HIDE DEF f, first, Before
  <2> QED
    BY <1>5, <1>6, <2>1 DEF Injection, Surjection, IsInjective
<1> HIDE DEF f, first
<1>8. /\ IsFiniteSet(WordsIn(q, P) \ first)
      /\ Cardinality(WordsIn(q, P) \ first)
           = Cardinality(WordsIn(q, P)) - Cardinality(WordsIn(q, P) \cap first)
  BY FS_Difference
<1>9. WordsIn(q, P) \cap first = first
  BY <1>2
<1>10. /\ IsFiniteSet(WordsIn(r, P))
       /\ Cardinality(WordsIn(q, P) \ first) = Cardinality(WordsIn(r, P))
  BY <1>7, <1>8, FS_Injection
<1>11. Cardinality(WordsIn(q, P)) \in Nat /\ Cardinality(WordsIn(r, P)) \in Nat
  BY <1>10, FS_CardinalityType
<1> QED
  BY <1>3, <1>8, <1>9, <1>10, <1>11

LEMMA WordsSame ==
  ASSUME NEW q \in Matrices, NEW r \in Matrices, NEW P \in Pairs,
         \A io \in P : Queue(r, io) = Queue(q, io)
  PROVE  WordsIn(r, P) = WordsIn(q, P)
<1>1. ASSUME NEW a \in Matrices, NEW b \in Matrices, NEW w \in WordsIn(a, P),
             \A io \in P : Queue(a, io) = Queue(b, io)
      PROVE  w \in WordsIn(b, P)
  <2>1. PICK io \in P, m \in Nat, k \in Nat : IsWord(w, a, io, m, k)
    BY WordIs
  <2>2. IsWord(w, b, io, m, k)
    BY <1>1, <2>1 DEF IsWord
  <2> QED
    BY <2>2, WordAt
<1> QED
  BY <1>1

(* The numbers of the packets themselves. *)
LEMMA PairsFinite ==
  ASSUME NEW K \in Pairs
  PROVE  IsFiniteSet(K) /\ Cardinality(K) \in Nat
<1>1. IsFiniteSet(Ports)
  BY FS_Interval, BufferAssumption DEF Ports
<1>2. IsFiniteSet(Ports \X Ports)
  BY <1>1, FS_Product
<1>3. IsFiniteSet(K)
  BY <1>2, FS_Subset DEF Pairs
<1> QED
  BY <1>3, FS_CardinalityType

LEMMA OnePerPair ==
  ASSUME NEW K \in Pairs, NEW g
  PROVE  /\ IsFiniteSet({<<io, g[io]>> : io \in K})
         /\ Cardinality({<<io, g[io]>> : io \in K}) = Cardinality(K)
<1> DEFINE T == {<<io, g[io]>> : io \in K}
           f == [io \in K |-> <<io, g[io]>>]
<1>1. f \in Injection(K, T) /\ f \in Surjection(K, T)
  BY DEF Injection, Surjection, IsInjective
<1>2. IsFiniteSet(K) /\ Cardinality(K) \in Nat
  BY PairsFinite
<1> HIDE DEF f, T
<1>3. IsFiniteSet(T) /\ Cardinality(T) = Cardinality(K)
  BY <1>1, <1>2, FS_Surjection
<1> QED
  BY <1>3 DEF T

AllPairs == Ports \X Ports

LEMMA PlacesGrow ==
  ASSUME NEW q \in Matrices, NEW r \in Matrices, NEW K \in Pairs, NEW e \in Entry,
         \A io \in AllPairs : Queue(r, io) = IF io \in K THEN Append(Queue(q, io), e)
                                                          ELSE Queue(q, io),
         IsFiniteSet(PlacesIn(q, AllPairs))
  PROVE  /\ IsFiniteSet(PlacesIn(r, AllPairs))
         /\ Cardinality(PlacesIn(r, AllPairs))
              = Cardinality(PlacesIn(q, AllPairs)) + Cardinality(K)
<1> DEFINE g == [io \in AllPairs |-> Len(Queue(q, io)) + 1]
           new == {<<io, g[io]>> : io \in K}
           Q == PlacesIn(q, AllPairs)
<1>1. /\ AllPairs \in Pairs /\ K \subseteq AllPairs
      /\ \A io \in AllPairs :
           /\ Len(Queue(q, io)) \in Nat
           /\ Len(Queue(r, io)) = IF io \in K THEN Len(Queue(q, io)) + 1 ELSE Len(Queue(q, io))
  <2>1. \A io \in AllPairs : Queue(q, io) \in Seq(Entry)
    BY QueueType DEF AllPairs
  <2>2. \A io \in AllPairs : /\ Len(Queue(q, io)) \in Nat
                             /\ Len(Append(Queue(q, io), e)) = Len(Queue(q, io)) + 1
    BY <2>1
  <2> QED
    BY <2>2 DEF Pairs, AllPairs
<1>2. ASSUME NEW p PROVE /\ p \in PlacesIn(r, AllPairs) <=> p \in Q \cup new
                         /\ ~(p \in Q /\ p \in new)
  <2>1. p \in Q <=> \E io \in AllPairs : \E m \in 1 .. Len(Queue(q, io)) : p = <<io, m>>
    BY <1>1, PlaceIs
  <2>2. p \in PlacesIn(r, AllPairs)
          <=> \E io \in AllPairs : \E m \in 1 .. Len(Queue(r, io)) : p = <<io, m>>
    BY <1>1, PlaceIs
  <2>3. p \in new <=> \E io \in K : p = <<io, Len(Queue(q, io)) + 1>>
    BY <1>1
  <2> HIDE DEF Q, new
  <2> QED
    BY <1>1, <2>1, <2>2, <2>3
<1>3. IsFiniteSet(new) /\ Cardinality(new) = Cardinality(K)
  BY OnePerPair
<1> HIDE DEF new, g
<1>4. PlacesIn(r, AllPairs) = Q \cup new /\ Q \cap new = {}
  BY <1>2
<1> HIDE DEF Q
<1>5. /\ IsFiniteSet(Q \cup new)
      /\ Cardinality(Q \cup new) = Cardinality(Q) + Cardinality(new) - Cardinality({})
  BY <1>3, <1>4, FS_Union DEF Q
<1>6. Cardinality({}) = 0 /\ Cardinality(Q) \in Nat /\ Cardinality(K) \in Nat
  BY FS_EmptySet, FS_CardinalityType, PairsFinite DEF Q
<1> QED
  BY <1>3, <1>4, <1>5, <1>6 DEF Q

LEMMA PlacesShrink ==
  ASSUME NEW q \in Matrices, NEW r \in Matrices, NEW K \in Pairs,
         \A io \in K : Queue(q, io) # <<>>,
         \A io \in AllPairs : Queue(r, io) = IF io \in K THEN Tail(Queue(q, io))
                                                          ELSE Queue(q, io),
         IsFiniteSet(PlacesIn(q, AllPairs))
  PROVE  /\ IsFiniteSet(PlacesIn(r, AllPairs))
         /\ Cardinality(PlacesIn(r, AllPairs))
              = Cardinality(PlacesIn(q, AllPairs)) - Cardinality(K)
<1> DEFINE g == [io \in AllPairs |-> Len(Queue(q, io))]
           last == {<<io, g[io]>> : io \in K}
           Q == PlacesIn(q, AllPairs)
<1>1. /\ AllPairs \in Pairs /\ K \subseteq AllPairs
      /\ \A io \in AllPairs :
           /\ Len(Queue(q, io)) \in Nat
           /\ io \in K => Len(Queue(q, io)) > 0
           /\ Len(Queue(r, io)) = IF io \in K THEN Len(Queue(q, io)) - 1 ELSE Len(Queue(q, io))
  <2>1. \A io \in AllPairs : Queue(q, io) \in Seq(Entry)
    BY QueueType DEF AllPairs
  <2>2. \A s \in Seq(Entry) : /\ Len(s) \in Nat
                              /\ s # <<>> => Len(s) > 0 /\ Len(Tail(s)) = Len(s) - 1
    BY EntryType
  <2>3. K \subseteq AllPairs /\ AllPairs \in Pairs
    BY DEF Pairs, AllPairs
  <2> QED
    BY <2>1, <2>2, <2>3
<1>2. ASSUME NEW p PROVE /\ p \in PlacesIn(r, AllPairs) <=> p \in Q /\ p \notin last
                         /\ p \in last => p \in Q
  <2>1. p \in Q <=> \E io \in AllPairs : \E m \in 1 .. Len(Queue(q, io)) : p = <<io, m>>
    BY <1>1, PlaceIs
  <2>2. p \in PlacesIn(r, AllPairs)
          <=> \E io \in AllPairs : \E m \in 1 .. Len(Queue(r, io)) : p = <<io, m>>
    BY <1>1, PlaceIs
  <2>3. p \in last <=> \E io \in K : p = <<io, Len(Queue(q, io))>>
    BY <1>1
  <2> HIDE DEF Q, last
  <2> QED
    BY <1>1, <2>1, <2>2, <2>3
<1>3. IsFiniteSet(last) /\ Cardinality(last) = Cardinality(K)
  BY OnePerPair
<1> HIDE DEF last, g
<1>4. PlacesIn(r, AllPairs) = Q \ last /\ Q \cap last = last
  BY <1>2
<1> HIDE DEF Q
<1>5. /\ IsFiniteSet(Q \ last)
      /\ Cardinality(Q \ last) = Cardinality(Q) - Cardinality(Q \cap last)
  BY FS_Difference DEF Q
<1> QED
  BY <1>3, <1>4, <1>5 DEF Q

-------------------------------------------------------------------------------
(* Queue i, o after a dequeue, and every other queue as it was. *)
LEMMA DequeueQueues ==
  ASSUME TypeOK, NEW i \in Ports, NEW o \in Ports, DequeuePacket(i, o)
  PROVE  /\ voq[i][o] \in Seq(Entry) /\ voq[i][o] # <<>>
         /\ \A a, b \in Ports :
              voq'[a][b] = IF a = i /\ b = o THEN Tail(voq[a][b]) ELSE voq[a][b]
  BY DEF TypeOK, DequeuePacket

(* What the cells are charged with and what the statistics say is queued,  *)
(* in sets that are finite, so that counting means something.              *)
Accounting ==
  /\ \A c \in Cells : /\ IsFiniteSet(WordsIn(voq, Sharing(c)))
                      /\ used[c] = Cardinality(WordsIn(voq, Sharing(c)))
  /\ IsFiniteSet(PlacesIn(voq, AllPairs))
  /\ stats["occupancy"] = Cardinality(PlacesIn(voq, AllPairs))

LEMMA SharingType ==
  /\ AllPairs \in Pairs
  /\ \A c \in Cells : Sharing(c) \in Pairs
  /\ \A c \in Cells, io \in AllPairs : io \in Sharing(c) <=> Cell(io[1], io[2]) = c
  /\ \A i, o, b \in Ports : Cell(i, o) = Cell(i, b) => o = b
  /\ \A i, o \in Ports : <<i, o>> \in AllPairs
  BY DEF Sharing, AllPairs, Pairs, Cell

LEMMA SharingFixed ==
  ASSUME UNCHANGED bufferType
  PROVE  \A c \in Cells : Sharing(c)' = Sharing(c)
  BY DEF Sharing, Cell

EmptyBuffer ==
  /\ voq = [i \in Ports |-> [o \in Ports |-> <<>>]]
  /\ used = [c \in Cells |-> 0]
  /\ stats = [k \in Counters |-> 0]

LEMMA EmptyAccounted == EmptyBuffer => Accounting
<1> SUFFICES ASSUME voq = [i \in Ports |-> [o \in Ports |-> <<>>]],
                    used = [c \in Cells |-> 0], stats = [k \in Counters |-> 0]
             PROVE  Accounting
  BY DEF EmptyBuffer
<1>1. \A io \in AllPairs : Queue(voq, io) = <<>>
  BY DEF AllPairs, Queue
<1>2. voq \in Matrices
  BY DEF Matrices
<1>3. ASSUME NEW P \in Pairs PROVE WordsIn(voq, P) = {} /\ PlacesIn(voq, P) = {}
  <2>1. \A io \in P : Len(Queue(voq, io)) = 0
    BY <1>1 DEF Pairs, AllPairs
  <2>2. ASSUME NEW w \in WordsIn(voq, P) PROVE FALSE
    <3>1. PICK io \in P, m \in Nat, k \in Nat : IsWord(w, voq, io, m, k)
      BY <1>2, WordIs
    <3>2. m \in 1 .. 0
      BY <2>1, <3>1 DEF IsWord
    <3> QED
      BY <3>2
  <2>3. ASSUME NEW p \in PlacesIn(voq, P) PROVE FALSE
    <3>1. \E io \in P : \E m \in 1 .. Len(Queue(voq, io)) : p = <<io, m>>
      BY <1>2, PlaceIs
    <3> QED
      BY <2>1, <3>1
  <2> QED
    BY <2>2, <2>3
<1>4. IsFiniteSet({}) /\ Cardinality({}) = 0
  BY FS_EmptySet
<1> QED
  BY <1>3, <1>4, SharingType DEF Accounting, Counters

(* An accepted packet is charged once to every cell it is queued in, and   *)
(* counted once for every output.                                          *)
LEMMA EnqueueAccounted ==
  ASSUME TypeOK, Accounting, NEW i \in Ports, NEW dst \in Ports \cup {Broadcast},
         NEW words \in Nat \ {0}, EnqueuePacket(i, dst, words)
  PROVE  Accounting'
<1>1. TypeOK'
  BY EnqueueTyped
<1>2. voq \in Matrices /\ voq' \in Matrices
  BY <1>1 DEF TypeOK, Matrices
<1>3. \A c \in Cells : Sharing(c)' = Sharing(c)
  BY SharingFixed DEF EnqueuePacket
<1>4. CASE EnqueueAccepted(i, dst, words)
  <2> DEFINE outs == OutputPorts(i, dst)
             e == [id |-> offered + 1, words |-> words]
             K == {i} \X outs
  <2>1. outs \in SUBSET Ports /\ e \in Entry /\ e.words = words /\ K \in Pairs
    BY OutputPortsType DEF Entry, TypeOK, Pairs
  <2>2. \A io \in AllPairs : Queue(voq', io) = IF io \in K THEN Append(Queue(voq, io), e)
                                                            ELSE Queue(voq, io)
    <3>1. \A io \in AllPairs : io[1] \in Ports /\ io[2] \in Ports /\ io = <<io[1], io[2]>>
      BY DEF AllPairs
    <3>2. \A io \in AllPairs : io \in K <=> io[1] = i /\ io[2] \in outs
      BY <3>1
    <3> QED
      BY <1>4, <3>1, <3>2, AcceptQueues DEF Queue
  <2>3. \A c \in Cells : used'[c] = IF \E o \in outs : Cell(i, o) = c THEN used[c] + words
                                                                     ELSE used[c]
    BY <1>4 DEF EnqueueAccepted
  <2>4. stats'["occupancy"] = stats["occupancy"] + NumOutputs(i, dst)
    BY <1>4 DEF EnqueueAccepted, TypeOK, Counters
  <2>5. NumOutputs(i, dst) = Cardinality(K)
    <3>1. IsFiniteSet(Ports) /\ Cardinality(Ports) = NumPorts
      <4>1. 0 \in Int /\ NumPorts - 1 \in Int /\ NumPorts \in Nat \ {0}
        BY BufferAssumption
      <4>2. IsFiniteSet(0 .. NumPorts - 1)
            /\ Cardinality(0 .. NumPorts - 1)
                 = IF 0 > NumPorts - 1 THEN 0 ELSE (NumPorts - 1) - 0 + 1
        BY <4>1, FS_Interval
      <4> QED
        BY <4>1, <4>2 DEF Ports
    <3>2. IsFiniteSet(outs) /\ Cardinality(outs) = NumOutputs(i, dst)
      <4>1. CASE dst = Broadcast
        <5>1. IsFiniteSet(Ports \ {i}) /\ Cardinality(Ports \ {i}) = Cardinality(Ports) - 1
          BY <3>1, FS_RemoveElement
        <5> QED
          BY <3>1, <4>1, <5>1 DEF OutputPorts, NumOutputs
      <4>2. CASE dst # Broadcast
        <5>1. IsFiniteSet({dst}) /\ Cardinality({dst}) = 1
          BY FS_Singleton
        <5> QED
          BY <4>2, <5>1 DEF OutputPorts, NumOutputs
      <4> QED
        BY <4>1, <4>2
    <3>3. IsFiniteSet({i}) /\ Cardinality({i}) = 1
      BY FS_Singleton
    <3>4. NumOutputs(i, dst) \in Int
      BY BufferAssumption DEF NumOutputs
    <3> HIDE DEF outs
    <3>5. Cardinality(K) = Cardinality({i}) * Cardinality(outs)
      BY <3>2, <3>3, FS_Product
    <3> HIDE DEF K
    <3> QED
      BY <3>2, <3>3, <3>4, <3>5
  <2> HIDE DEF e
  <2>6. ASSUME NEW c \in Cells
        PROVE  /\ IsFiniteSet(WordsIn(voq', Sharing(c)))
               /\ used'[c] = Cardinality(WordsIn(voq', Sharing(c)))
    <3>1. /\ Sharing(c) \in Pairs /\ Sharing(c) \subseteq AllPairs
          /\ IsFiniteSet(WordsIn(voq, Sharing(c)))
          /\ used[c] = Cardinality(WordsIn(voq, Sharing(c)))
      BY SharingType DEF Accounting, Pairs, AllPairs
    <3>2. \A io \in Sharing(c) : io[1] \in Ports /\ io[2] \in Ports
                                 /\ io = <<io[1], io[2]>> /\ Cell(io[1], io[2]) = c
      BY DEF Sharing
    <3>3. CASE \E o \in outs : Cell(i, o) = c
      <4>1. PICK o \in outs : Cell(i, o) = c
        BY <3>3
      <4>2. <<i, o>> \in Sharing(c) /\ <<i, o>> \in K
        BY <2>1, <4>1, SharingType
      <4>3. \A ab \in Sharing(c) : ab # <<i, o>> => ab \notin K
        BY <2>1, <3>2, <4>1, SharingType
      <4>4. /\ Queue(voq', <<i, o>>) = Append(Queue(voq, <<i, o>>), e)
            /\ \A ab \in Sharing(c) : ab # <<i, o>> => Queue(voq', ab) = Queue(voq, ab)
        BY <2>2, <3>1, <4>2, <4>3
      <4>5. /\ IsFiniteSet(WordsIn(voq', Sharing(c)))
            /\ Cardinality(WordsIn(voq', Sharing(c)))
                 = Cardinality(WordsIn(voq, Sharing(c))) + e.words
        BY <1>2, <2>1, <3>1, <4>2, <4>4, WordsGrow
      <4> QED
        BY <2>1, <2>3, <3>1, <3>3, <4>5
    <3>4. CASE ~\E o \in outs : Cell(i, o) = c
      <4>1. \A ab \in Sharing(c) : ab \notin K
        BY <3>2, <3>4
      <4>2. \A ab \in Sharing(c) : Queue(voq', ab) = Queue(voq, ab)
        BY <2>2, <3>1, <4>1
      <4>3. WordsIn(voq', Sharing(c)) = WordsIn(voq, Sharing(c))
        BY <1>2, <3>1, <4>2, WordsSame
      <4> QED
        BY <2>3, <3>1, <3>4, <4>3
    <3> QED
      BY <3>3, <3>4
  <2> HIDE DEF K
  <2>7. /\ IsFiniteSet(PlacesIn(voq', AllPairs))
        /\ stats'["occupancy"] = Cardinality(PlacesIn(voq', AllPairs))
    <3>1. /\ IsFiniteSet(PlacesIn(voq, AllPairs))
          /\ stats["occupancy"] = Cardinality(PlacesIn(voq, AllPairs))
      BY DEF Accounting
    <3>2. /\ IsFiniteSet(PlacesIn(voq', AllPairs))
          /\ Cardinality(PlacesIn(voq', AllPairs))
               = Cardinality(PlacesIn(voq, AllPairs)) + Cardinality(K)
      BY <1>2, <2>1, <2>2, <3>1, PlacesGrow
    <3> QED
      BY <2>4, <2>5, <3>1, <3>2
  <2> QED
    BY <1>3, <2>6, <2>7 DEF Accounting, AllPairs
<1>5. CASE EnqueueDropped(i, dst, words)
  <2>1. voq' = voq /\ used' = used /\ stats'["occupancy"] = stats["occupancy"]
    BY <1>5 DEF EnqueueDropped, TypeOK, Counters
  <2> QED
    BY <1>3, <2>1 DEF Accounting, AllPairs
<1> QED
  BY <1>4, <1>5 DEF EnqueuePacket

(* The heads of some queues leave, no two of them in the same cell: what a *)
(* cell gives back is what it was charged with, and the clamp at zero is   *)
(* never reached.                                                          *)
LEMMA DequeuesAccounted ==
  ASSUME TypeOK, TypeOK', Accounting, UNCHANGED bufferType, NEW K \in Pairs,
         \A io \in K : Queue(voq, io) # <<>>,
         \A io \in AllPairs : Queue(voq', io) = IF io \in K THEN Tail(Queue(voq, io))
                                                             ELSE Queue(voq, io),
         \A io, ab \in K : Cell(io[1], io[2]) = Cell(ab[1], ab[2]) => io = ab,
         \A c \in Cells : (\A io \in K : Cell(io[1], io[2]) # c) => used'[c] = used[c],
         \A io \in K : used'[Cell(io[1], io[2])]
                         = MaxOf(0, used[Cell(io[1], io[2])] - Head(Queue(voq, io)).words),
         stats'["occupancy"] = stats["occupancy"] - Cardinality(K)
  PROVE  Accounting'
<1>1. voq \in Matrices /\ voq' \in Matrices
  BY DEF TypeOK, Matrices
<1>2. \A c \in Cells : Sharing(c)' = Sharing(c)
  BY SharingFixed
<1>3. K \subseteq AllPairs
  BY DEF Pairs, AllPairs
<1>4. ASSUME NEW c \in Cells
      PROVE  /\ IsFiniteSet(WordsIn(voq', Sharing(c)))
             /\ used'[c] = Cardinality(WordsIn(voq', Sharing(c)))
  <2>1. /\ Sharing(c) \in Pairs /\ Sharing(c) \subseteq AllPairs
        /\ IsFiniteSet(WordsIn(voq, Sharing(c)))
        /\ used[c] = Cardinality(WordsIn(voq, Sharing(c)))
        /\ \A io \in AllPairs : io \in Sharing(c) <=> Cell(io[1], io[2]) = c
    BY SharingType DEF Accounting, Pairs, AllPairs
  <2>2. CASE \E io \in K : Cell(io[1], io[2]) = c
    <3>1. PICK io \in K : Cell(io[1], io[2]) = c
      BY <2>2
    <3>2. io \in Sharing(c) /\ \A ab \in Sharing(c) : ab # io => ab \notin K
      BY <1>3, <2>1, <3>1
    <3>3. /\ Queue(voq, io) # <<>> /\ Queue(voq', io) = Tail(Queue(voq, io))
          /\ \A ab \in Sharing(c) : ab # io => Queue(voq', ab) = Queue(voq, ab)
      BY <1>3, <2>1, <3>1, <3>2
    <3>4. /\ IsFiniteSet(WordsIn(voq', Sharing(c)))
          /\ Cardinality(WordsIn(voq', Sharing(c)))
               = Cardinality(WordsIn(voq, Sharing(c))) - Head(Queue(voq, io)).words
          /\ Cardinality(WordsIn(voq', Sharing(c))) \in Nat
      BY <1>1, <2>1, <3>2, <3>3, WordsShrink
    <3>5. used'[c] = MaxOf(0, used[c] - Head(Queue(voq, io)).words)
      BY <3>1
    <3> QED
      BY <2>1, <3>4, <3>5 DEF MaxOf
  <2>3. CASE ~\E io \in K : Cell(io[1], io[2]) = c
    <3>1. \A ab \in Sharing(c) : Queue(voq', ab) = Queue(voq, ab)
      BY <2>1, <2>3
    <3>2. WordsIn(voq', Sharing(c)) = WordsIn(voq, Sharing(c))
      BY <1>1, <2>1, <3>1, WordsSame
    <3> QED
      BY <2>1, <2>3, <3>2
  <2> QED
    BY <2>2, <2>3
<1>5. /\ IsFiniteSet(PlacesIn(voq, AllPairs))
      /\ stats["occupancy"] = Cardinality(PlacesIn(voq, AllPairs))
  BY DEF Accounting
<1>6. /\ IsFiniteSet(PlacesIn(voq', AllPairs))
      /\ Cardinality(PlacesIn(voq', AllPairs))
           = Cardinality(PlacesIn(voq, AllPairs)) - Cardinality(K)
  BY <1>1, <1>5, PlacesShrink
<1> QED
  BY <1>2, <1>4, <1>5, <1>6 DEF Accounting, AllPairs

LEMMA AccountingKept == Spec => []Accounting
<1>1. Init => Accounting
  BY EmptyAccounted DEF Init, EmptyBuffer
<1>2. TypeOK /\ TypeOK' /\ Accounting /\ [Next]_vars => Accounting'
  <2> SUFFICES ASSUME TypeOK, TypeOK', Accounting, [Next]_vars PROVE Accounting'
    OBVIOUS
  <2>1. ASSUME NEW i \in Ports, NEW dst \in Ports \cup {Broadcast},
               NEW words \in 1 .. MaxWords, EnqueuePacket(i, dst, words)
        PROVE  Accounting'
    BY <2>1, EnqueueAccounted, WordsType
  <2>2. ASSUME NEW i \in Ports, NEW o \in Ports, DequeuePacket(i, o)
        PROVE  Accounting'
    <3> DEFINE K == {<<i, o>>}
    <3>1. K \in Pairs /\ \A io \in K : io = <<i, o>>
      BY DEF Pairs
    <3>2. UNCHANGED bufferType /\ Queue(voq, <<i, o>>) # <<>>
      BY <2>2 DEF DequeuePacket, Queue
    <3>3. \A io \in AllPairs : Queue(voq', io) = IF io \in K THEN Tail(Queue(voq, io))
                                                             ELSE Queue(voq, io)
      BY <2>2, DequeueQueues DEF AllPairs, Queue
    <3>4. \A c \in Cells : used'[c] = IF c = Cell(i, o)
                                      THEN MaxOf(0, used[c] - Head(Queue(voq, <<i, o>>)).words)
                                      ELSE used[c]
      BY <2>2 DEF DequeuePacket, TypeOK, Queue
    <3>5. Cardinality(K) = 1
      BY FS_Singleton
    <3>6. stats'["occupancy"] = stats["occupancy"] - 1
      BY <2>2 DEF DequeuePacket, TypeOK, Counters
    <3>7. Cell(i, o) \in Cells /\ <<i, o>>[1] = i /\ <<i, o>>[2] = o
      BY CellType
    <3> HIDE DEF K
    <3>8. /\ \A io \in K : Queue(voq, io) # <<>>
          /\ \A io, ab \in K : Cell(io[1], io[2]) = Cell(ab[1], ab[2]) => io = ab
          /\ \A c \in Cells : (\A io \in K : Cell(io[1], io[2]) # c) => used'[c] = used[c]
          /\ \A io \in K : used'[Cell(io[1], io[2])]
                             = MaxOf(0, used[Cell(io[1], io[2])] - Head(Queue(voq, io)).words)
      <4>1. <<i, o>> \in K
        BY DEF K
      <4> QED
        BY <3>1, <3>2, <3>4, <3>7, <4>1
    <3> QED
      BY <3>1, <3>2, <3>3, <3>5, <3>6, <3>8, DequeuesAccounted
  <2>3. ASSUME Reset PROVE Accounting'
    <3>1. EmptyBuffer'
      BY <2>3 DEF Reset, EmptyBuffer
    <3> QED
      BY <3>1, EmptyAccounted, PTL
  <2>4. ASSUME UNCHANGED vars PROVE Accounting'
    BY <2>4 DEF vars, Accounting, Sharing, Cell
  <2> QED
    BY <2>1, <2>2, <2>3, <2>4 DEF Next
<1> QED
  BY <1>1, <1>2, TypeCorrect, PTL DEF Spec

(* Every cell is charged with the words of the entries it holds, whichever *)
(* organisation maps the queues to the cells.                              *)
THEOREM AccountingExact == Spec => []UsedIsWhatIsQueued
<1>1. Accounting => UsedIsWhatIsQueued
  BY DEF Accounting, UsedIsWhatIsQueued
<1> QED
  BY <1>1, AccountingKept, PTL

(* The running count of queued copies, from which drop and peak statistics *)
(* are made, is what counting the queues afresh would give.                *)
THEOREM OccupancyExact == Spec => []OccupancyIsCopiesQueued
<1>1. Accounting => OccupancyIsCopiesQueued
  BY DEF Accounting, OccupancyIsCopiesQueued, AllPairs
<1> QED
  BY <1>1, AccountingKept, PTL

-------------------------------------------------------------------------------
(* InOrder survives a larger bound, a new highest packet at the tail, and  *)
(* the removal of the head.                                                *)
LEMMA InOrderKept ==
  ASSUME NEW s \in Seq(Entry), NEW last \in Nat, InOrder(s, last),
         NEW words \in Nat \ {0}
  PROVE  /\ InOrder(s, last + 1)
         /\ InOrder(Append(s, [id |-> last + 1, words |-> words]), last + 1)
         /\ s # <<>> => InOrder(Tail(s), last)
<1>1. \A m \in 1 .. Len(s) : s[m].id \in Nat
  BY EntryType
<1>2. InOrder(s, last + 1)
  BY <1>1 DEF InOrder
<1>3. InOrder(Append(s, [id |-> last + 1, words |-> words]), last + 1)
  <2> DEFINE e == [id |-> last + 1, words |-> words]
             t == Append(s, e)
  <2>1. e \in Entry /\ e.id = last + 1
    BY DEF Entry
  <2> HIDE DEF e
  <2>2. /\ Len(t) = Len(s) + 1
        /\ t[Len(s) + 1] = e
        /\ \A m \in 1 .. Len(s) : t[m] = s[m]
    BY <2>1
  <2> HIDE DEF t
  <2>3. \A m \in 1 .. Len(t) : t[m].id <= last + 1
    BY <1>1, <2>1, <2>2 DEF InOrder
  <2>4. ASSUME NEW m \in 1 .. Len(t), NEW n \in 1 .. Len(t), m < n
        PROVE  t[m].id < t[n].id
    <3>1. Len(s) \in Nat /\ m \in 1 .. Len(s)
      BY <2>2, <2>4
    <3>2. CASE n \in 1 .. Len(s)
      BY <2>2, <2>4, <3>1, <3>2 DEF InOrder
    <3>3. CASE n = Len(s) + 1
      <4>1. t[n].id = last + 1 /\ t[m] = s[m]
        BY <2>1, <2>2, <3>1, <3>3
      <4>2. s[m].id \in Nat /\ s[m].id <= last
        BY <1>1, <3>1 DEF InOrder
      <4> QED
        BY <4>1, <4>2
    <3> QED
      BY <2>2, <3>1, <3>2, <3>3
  <2> QED
    BY <2>3, <2>4 DEF InOrder, t, e
<1>4. s # <<>> => InOrder(Tail(s), last)
  <2> SUFFICES ASSUME s # <<>> PROVE InOrder(Tail(s), last)
    OBVIOUS
  <2>1. /\ Len(s) \in Nat
        /\ Len(Tail(s)) = Len(s) - 1
        /\ \A m \in 1 .. Len(s) - 1 : Tail(s)[m] = s[m + 1]
    BY EntryType
  <2> QED
    BY <1>1, <2>1 DEF InOrder
<1> QED
  BY <1>2, <1>3, <1>4

(* A new packet has the highest number so far, so appending it to a queue  *)
(* keeps the queue in order.                                               *)
LEMMA EnqueueInOrder ==
  ASSUME TypeOK, QueuesInOrder, NEW i \in Ports, NEW dst \in Ports \cup {Broadcast},
         NEW words \in Nat \ {0}, EnqueuePacket(i, dst, words)
  PROVE  QueuesInOrder'
<1>0. \A a, b \in Ports : voq[a][b] \in Seq(Entry) /\ InOrder(voq[a][b], offered)
  BY DEF TypeOK, QueuesInOrder
<1>1. offered' = offered + 1 /\ offered \in Nat
  BY DEF EnqueuePacket, TypeOK
<1>2. \A a, b \in Ports :
        /\ InOrder(voq[a][b], offered + 1)
        /\ InOrder(Append(voq[a][b], [id |-> offered + 1, words |-> words]),
                   offered + 1)
  BY <1>0, <1>1, InOrderKept
<1>3. CASE EnqueueAccepted(i, dst, words)
  BY <1>1, <1>2, <1>3, AcceptQueues DEF QueuesInOrder
<1>4. CASE EnqueueDropped(i, dst, words)
  BY <1>1, <1>2, <1>4 DEF EnqueueDropped, QueuesInOrder
<1> QED
  BY <1>3, <1>4 DEF EnqueuePacket

(* A new packet has the highest number so far, so appending it to a queue  *)
(* keeps the queue in order.                                               *)
THEOREM FlowsInOrder == Spec => []QueuesInOrder
<1>1. Init => QueuesInOrder
  BY DEF Init, QueuesInOrder, InOrder
<1>2. TypeOK /\ QueuesInOrder /\ [Next]_vars => QueuesInOrder'
  <2> SUFFICES ASSUME TypeOK, QueuesInOrder, [Next]_vars PROVE QueuesInOrder'
    OBVIOUS
  <2>0. \A a, b \in Ports : voq[a][b] \in Seq(Entry) /\ InOrder(voq[a][b], offered)
    BY DEF TypeOK, QueuesInOrder
  <2>1. ASSUME NEW i \in Ports, NEW dst \in Ports \cup {Broadcast},
               NEW words \in 1 .. MaxWords, EnqueuePacket(i, dst, words)
        PROVE  QueuesInOrder'
    BY <2>1, EnqueueInOrder, WordsType
  <2>2. ASSUME NEW i \in Ports, NEW o \in Ports, DequeuePacket(i, o)
        PROVE  QueuesInOrder'
    <3>1. offered' = offered /\ offered \in Nat /\ 1 \in Nat \ {0}
      BY <2>2 DEF DequeuePacket, TypeOK
    <3>2. InOrder(Tail(voq[i][o]), offered)
      <4>1. voq[i][o] \in Seq(Entry) /\ voq[i][o] # <<>> /\ InOrder(voq[i][o], offered)
        BY <2>0, <2>2, DequeueQueues
      <4> QED
        BY <3>1, <4>1, InOrderKept
    <3>3. \A a, b \in Ports : InOrder(voq'[a][b], offered)
      BY <2>0, <2>2, <3>2, DequeueQueues
    <3> QED
      BY <3>1, <3>3 DEF QueuesInOrder
  <2>3. ASSUME Reset PROVE QueuesInOrder'
    BY <2>3 DEF Reset, QueuesInOrder, InOrder
  <2>4. ASSUME UNCHANGED vars PROVE QueuesInOrder'
    BY <2>4 DEF vars, QueuesInOrder
  <2> QED
    BY <2>1, <2>2, <2>3, <2>4 DEF Next
<1> QED
  BY <1>1, <1>2, TypeCorrect, PTL DEF Spec

-------------------------------------------------------------------------------
(* The numbers in a queue after an append. *)
LEMMA IdsAppend ==
  ASSUME NEW s \in Seq(Entry), NEW e \in Entry
  PROVE  IdsOf(Append(s, e)) = IdsOf(s) \cup {e.id}
<1> DEFINE t == Append(s, e)
<1>1. /\ Len(s) \in Nat
      /\ Len(t) = Len(s) + 1
      /\ t[Len(s) + 1] = e
      /\ \A m \in 1 .. Len(s) : t[m] = s[m]
  OBVIOUS
<1> HIDE DEF t
<1>2. \A id : id \in IdsOf(t) <=> id \in IdsOf(s) \/ id = e.id
  BY <1>1 DEF IdsOf
<1> QED
  BY <1>2 DEF t

(* The numbers in a queue whose head, the lowest of them, leaves. *)
LEMMA IdsTail ==
  ASSUME NEW s \in Seq(Entry), s # <<>>, NEW last, InOrder(s, last)
  PROVE  /\ Head(s).id \in IdsOf(s)
         /\ IdsOf(Tail(s)) = IdsOf(s) \ {Head(s).id}
         /\ \A id \in IdsOf(s) : Head(s).id <= id
<1> DEFINE t == Tail(s)
<1>1. /\ Len(s) \in Nat \ {0}
      /\ Head(s) = s[1]
      /\ Len(t) = Len(s) - 1
      /\ \A m \in 1 .. Len(t) : t[m] = s[m + 1]
      /\ \A m \in 1 .. Len(s) : s[m].id \in Nat
  BY EntryType
<1> HIDE DEF t
<1>2. Head(s).id \in IdsOf(s)
  BY <1>1 DEF IdsOf
<1>3. \A m \in 2 .. Len(s) : Head(s).id < s[m].id
  BY <1>1 DEF InOrder
<1>4. \A id \in IdsOf(s) : Head(s).id <= id
  BY <1>1, <1>3 DEF IdsOf
<1>5. ASSUME NEW id \in IdsOf(t) PROVE id \in IdsOf(s) /\ id # Head(s).id
  <2>1. PICK m \in 1 .. Len(t) : id = s[m + 1].id
    BY <1>1 DEF IdsOf
  <2>2. m + 1 \in 2 .. Len(s) /\ m + 1 \in 1 .. Len(s)
    BY <1>1
  <2> QED
    BY <1>1, <1>3, <2>1, <2>2 DEF IdsOf
<1>6. ASSUME NEW id \in IdsOf(s), id # Head(s).id PROVE id \in IdsOf(t)
  <2>1. PICK m \in 1 .. Len(s) : id = s[m].id
    BY DEF IdsOf
  <2>2. m - 1 \in 1 .. Len(t) /\ t[m - 1] = s[m]
    BY <1>1, <1>6, <2>1
  <2> QED
    BY <2>1, <2>2 DEF IdsOf
<1>7. IdsOf(t) = IdsOf(s) \ {Head(s).id}
  BY <1>5, <1>6
<1> QED
  BY <1>2, <1>4, <1>7 DEF t

(* The ids of a queue in order are numbers of packets already offered. *)
LEMMA IdsBounded ==
  ASSUME NEW s \in Seq(Entry), NEW last \in Nat, InOrder(s, last)
  PROVE  IdsOf(s) \subseteq 1 .. last
<1>1. \A m \in 1 .. Len(s) : s[m].id \in 1 .. last
  BY EntryType DEF InOrder
<1> QED
  BY <1>1 DEF IdsOf

(* The copies in queues that are in order: one for each number queued. *)
LEMMA CopiesInQueues ==
  ASSUME NEW q \in [Ports -> [Ports -> Seq(Entry)]], NEW last \in Nat,
         \A a, b \in Ports : InOrder(q[a][b], last)
  PROVE  /\ \A c \in QueuedCopies(q, last) : c = <<c[1], c[2], c[3]>>
         /\ \A p, a, b : <<p, a, b>> \in QueuedCopies(q, last) <=>
              a \in Ports /\ b \in Ports /\ p \in IdsOf(q[a][b])
<1>1. \A a, b \in Ports : IdsOf(q[a][b]) \subseteq 1 .. last
  BY IdsBounded
<1> QED
  BY <1>1 DEF QueuedCopies

(* An accepted packet owes a copy to each of its outputs, a refused one    *)
(* owes none.                                                              *)
LEMMA EnqueuePending ==
  ASSUME TypeOK, QueuesInOrder, TypeOK', QueuesInOrder',
         NEW i \in Ports, NEW dst \in Ports \cup {Broadcast}, NEW words \in Nat \ {0},
         EnqueuePacket(i, dst, words)
  PROVE  /\ offered' = offered + 1
         /\ Pending' = IF HasRoom(i, dst, words)
                       THEN Pending \cup ({offered + 1} \X {i} \X OutputPorts(i, dst))
                       ELSE Pending
<1> DEFINE outs == OutputPorts(i, dst)
           e == [id |-> offered + 1, words |-> words]
<1>1. /\ \A c \in Pending : c = <<c[1], c[2], c[3]>>
      /\ \A p, a, b : <<p, a, b>> \in Pending <=>
           a \in Ports /\ b \in Ports /\ p \in IdsOf(voq[a][b])
  BY CopiesInQueues DEF TypeOK, QueuesInOrder, Pending
<1>2. /\ \A c \in Pending' : c = <<c[1], c[2], c[3]>>
      /\ \A p, a, b : <<p, a, b>> \in Pending' <=>
           a \in Ports /\ b \in Ports /\ p \in IdsOf(voq'[a][b])
  BY CopiesInQueues DEF TypeOK, QueuesInOrder, Pending
<1>3. outs \in SUBSET Ports /\ e \in Entry /\ e.id = offered + 1
  BY OutputPortsType DEF Entry, TypeOK
<1> HIDE DEF outs
<1>4. CASE EnqueueAccepted(i, dst, words)
  <2>1. ASSUME NEW a \in Ports, NEW b \in Ports
        PROVE  IdsOf(voq'[a][b]) = IF a = i /\ b \in outs
                                   THEN IdsOf(voq[a][b]) \cup {offered + 1}
                                   ELSE IdsOf(voq[a][b])
    <3>1. voq[a][b] \in Seq(Entry)
      BY DEF TypeOK
    <3>2. IdsOf(Append(voq[a][b], e)) = IdsOf(voq[a][b]) \cup {offered + 1}
      BY <1>3, <3>1, IdsAppend
    <3> HIDE DEF e
    <3>3. voq'[a][b] = IF a = i /\ b \in outs THEN Append(voq[a][b], e)
                                             ELSE voq[a][b]
      BY <1>4, AcceptQueues DEF outs, e
    <3> QED
      BY <3>2, <3>3
  <2>2. \A p, a, b : <<p, a, b>> \in Pending' <=>
           \/ <<p, a, b>> \in Pending
           \/ p = offered + 1 /\ a = i /\ b \in outs
    <3> SUFFICES ASSUME NEW p, NEW a, NEW b
                 PROVE  <<p, a, b>> \in Pending' <=>
                           \/ <<p, a, b>> \in Pending
                           \/ p = offered + 1 /\ a = i /\ b \in outs
      OBVIOUS
    <3>1. CASE a = i /\ b \in outs
      <4>1. a \in Ports /\ b \in Ports
        BY <1>3, <3>1
      <4>2. IdsOf(voq'[a][b]) = IdsOf(voq[a][b]) \cup {offered + 1}
        BY <2>1, <3>1, <4>1
      <4> QED
        BY <1>1, <1>2, <3>1, <4>1, <4>2
    <3>2. CASE ~(a = i /\ b \in outs) /\ a \in Ports /\ b \in Ports
      <4>1. IdsOf(voq'[a][b]) = IdsOf(voq[a][b])
        BY <2>1, <3>2
      <4> QED
        BY <1>1, <1>2, <3>2, <4>1
    <3>3. CASE ~(a \in Ports /\ b \in Ports)
      BY <1>1, <1>2, <1>3, <3>3
    <3> QED
      BY <3>1, <3>2, <3>3
  <2>3. Pending' = Pending \cup ({offered + 1} \X {i} \X outs)
    <3>1. ASSUME NEW c \in Pending'
          PROVE  c \in Pending \cup ({offered + 1} \X {i} \X outs)
      BY <1>2, <2>2
    <3>2. ASSUME NEW c \in Pending PROVE c \in Pending'
      BY <1>1, <2>2
    <3>3. ASSUME NEW c \in {offered + 1} \X {i} \X outs PROVE c \in Pending'
      BY <2>2
    <3> QED
      BY <3>1, <3>2, <3>3
  <2> QED
    BY <1>4, <2>3 DEF EnqueueAccepted, EnqueuePacket, outs
<1>5. CASE EnqueueDropped(i, dst, words)
  <2>1. \A c : c \in Pending' <=> c \in Pending
    BY <1>1, <1>2, <1>5 DEF EnqueueDropped
  <2>2. Pending' = Pending
    BY <2>1
  <2> QED
    BY <1>5, <2>2 DEF EnqueueDropped, EnqueuePacket
<1> QED
  BY <1>4, <1>5 DEF EnqueuePacket

(* Every step of the buffer is a step of OrderedMulticast on the copies it *)
(* owes, or changes neither the copies nor the offers: a packet is taken   *)
(* for all the outputs it asks for or for none, a copy leaves once and in  *)
(* the order of its flow, and only a reset, which numbers the packets      *)
(* afresh, forgets one.                                                    *)
THEOREM Refinement == Spec => ImplementsOrderedMulticast
<1>1. Init => OM!Init
  BY DEF Init, OM!Init, Pending, QueuedCopies, IdsOf
<1>2. TypeOK /\ QueuesInOrder /\ TypeOK' /\ QueuesInOrder' /\ [Next]_vars
        => [OM!Next]_OM!vars
  <2> SUFFICES ASSUME TypeOK, QueuesInOrder, TypeOK', QueuesInOrder', [Next]_vars
               PROVE  [OM!Next]_OM!vars
    OBVIOUS
  <2>1. /\ \A c \in Pending : c = <<c[1], c[2], c[3]>>
        /\ \A p, a, b : <<p, a, b>> \in Pending <=>
             a \in Ports /\ b \in Ports /\ p \in IdsOf(voq[a][b])
    BY CopiesInQueues DEF TypeOK, QueuesInOrder, Pending
  <2>2. /\ \A c \in Pending' : c = <<c[1], c[2], c[3]>>
        /\ \A p, a, b : <<p, a, b>> \in Pending' <=>
             a \in Ports /\ b \in Ports /\ p \in IdsOf(voq'[a][b])
    BY CopiesInQueues DEF TypeOK, QueuesInOrder, Pending
  <2>3. ASSUME NEW i \in Ports, NEW dst \in Ports \cup {Broadcast},
               NEW words \in 1 .. MaxWords, EnqueuePacket(i, dst, words)
        PROVE  OM!Next
    <3> DEFINE outs == OutputPorts(i, dst)
    <3>1. outs \in SUBSET Ports /\ words \in Nat \ {0}
      BY OutputPortsType, WordsType
    <3>2. /\ offered' = offered + 1 /\ request' = <<i, outs>>
          /\ Pending' = IF HasRoom(i, dst, words)
                        THEN Pending \cup ({offered + 1} \X {i} \X outs) ELSE Pending
      BY <2>3, <3>1, EnqueuePending DEF EnqueuePacket
    <3> HIDE DEF outs
    <3>3. OM!Accept(i, outs) \/ OM!Refuse(i, outs)
      BY <3>2 DEF OM!Accept, OM!Refuse, OM!Offer
    <3> QED
      BY <3>1, <3>3 DEF OM!Next
  <2>4. ASSUME NEW i \in Ports, NEW o \in Ports, DequeuePacket(i, o)
        PROVE  OM!Next
    <3> DEFINE p == Head(voq[i][o]).id
    <3>1. /\ voq[i][o] \in Seq(Entry) /\ voq[i][o] # <<>>
          /\ InOrder(voq[i][o], offered)
      BY <2>4 DEF TypeOK, QueuesInOrder, DequeuePacket
    <3>2. /\ p \in IdsOf(voq[i][o])
          /\ IdsOf(Tail(voq[i][o])) = IdsOf(voq[i][o]) \ {p}
          /\ \A id \in IdsOf(voq[i][o]) : p <= id
      BY <3>1, IdsTail
    <3> HIDE DEF p
    <3>3. \A q, a, b : <<q, a, b>> \in Pending' <=>
             <<q, a, b>> \in Pending /\ <<q, a, b>> # <<p, i, o>>
      <4>1. ASSUME NEW a \in Ports, NEW b \in Ports
            PROVE  IdsOf(voq'[a][b]) = IF a = i /\ b = o THEN IdsOf(voq[a][b]) \ {p}
                                                        ELSE IdsOf(voq[a][b])
        <5>1. voq'[a][b] = IF a = i /\ b = o THEN Tail(voq[a][b]) ELSE voq[a][b]
          BY <2>4, DequeueQueues
        <5> QED
          BY <3>2, <5>1
      <4> QED
        BY <2>1, <2>2, <4>1
    <3>4. Pending' = Pending \ {<<p, i, o>>}
      <4>1. ASSUME NEW c \in Pending' PROVE c \in Pending \ {<<p, i, o>>}
        BY <2>2, <3>3
      <4>2. ASSUME NEW c \in Pending, c # <<p, i, o>> PROVE c \in Pending'
        BY <2>1, <3>3, <4>2
      <4> QED
        BY <4>1, <4>2
    <3>5. <<p, i, o>> \in Pending
      BY <2>1, <3>2
    <3>6. \A c \in Pending : c[2] = i /\ c[3] = o => p <= c[1]
      BY <2>1, <3>2
    <3>7. OM!Deliver(p, i, o)
      BY <2>4, <3>4, <3>5, <3>6 DEF OM!Deliver, DequeuePacket
    <3>8. \E c \in Pending : OM!Deliver(c[1], c[2], c[3])
      BY <3>5, <3>7
    <3> QED
      BY <3>8 DEF OM!Next
  <2>5. ASSUME Reset PROVE OM!Next
    <3>1. \A a, b \in Ports : voq'[a][b] = <<>>
      BY <2>5 DEF Reset
    <3>2. IdsOf(<<>>) = {}
      BY DEF IdsOf
    <3>3. ASSUME NEW c \in Pending' PROVE FALSE
      <4>1. /\ <<c[1], c[2], c[3]>> \in Pending'
            /\ c[2] \in Ports /\ c[3] \in Ports /\ c[1] \in IdsOf(voq'[c[2]][c[3]])
        BY <2>2, <3>3
      <4> QED
        BY <3>1, <3>2, <4>1
    <3>4. Pending' = {}
      BY <3>3
    <3> QED
      BY <2>5, <3>4 DEF OM!Next, OM!Clear, Reset
  <2>6. ASSUME UNCHANGED vars PROVE UNCHANGED OM!vars
    BY <2>6 DEF vars, OM!vars, Pending
  <2> QED
    BY <2>3, <2>4, <2>5, <2>6 DEF Next
<1> QED
  BY <1>1, <1>2, TypeCorrect, FlowsInOrder, PTL DEF Spec, ImplementsOrderedMulticast

-------------------------------------------------------------------------------
(* The switch. *)

(* Types, narrowed to the packets that have arrived. *)
Arrived == 1 .. Len(received)
ArrivedWords == {w \in Arrived \X (Nat \ {0}) : w[2] <= received[w[1]].words}

Carried == [in : Ports, meta : Arrived, data : Seq(ArrivedWords) \ {<<>>}]
CarriedTo ==
  [in : Ports, meta : Arrived, data : Seq(ArrivedWords) \ {<<>>}, port : Ports \cup {Broadcast}]

RxStates ==
  [inq : Seq(ArrivedWords), metas : Seq(Arrived), consuming : BOOLEAN, phase : Phases,
   left : Nat, item : Carried \cup {NoItem}, complete : BOOLEAN]
HashStates ==
  [phase : Phases, left : Nat, item : CarriedTo \cup {NoItem}, ii : 0 .. HashII,
   engine : 0 .. HashII - 1]
SchedStates ==
  [phase : {"idle", "processing", "ready"}, left : Nat,
   list : SUBSET [port : Ports, entry : Entry],
   ii : 0 .. SchedII, inPtr : [Ports -> Ports], outPtr : [Ports -> Ports]]

Holding(s) == s.phase \in {"processing", "ready"}

Table(f) ==
  \A k \in DOMAIN f : f[k] \in [addr : Addrs, port : Ports] /\ k = Key(f[k].addr)

(* Each component of the pipeline on its own. *)
ArrivalsOK == received \in Seq(Traffic) /\ Len(received) <= MaxPackets
RxOK ==
  /\ rx \in [Ports -> RxStates]
  /\ \A p \in Ports : /\ Holding(rx[p]) => rx[p].item \in Carried /\ rx[p].item.in = p
                      /\ rx[p].phase = "sending" => rx[p].left > 0
QueuesOK == rxToHash \in Seq(Carried) /\ hashToBuffer \in Seq(CarriedTo)
HashOK ==
  /\ hash \in HashStates
  /\ Holding(hash) => hash.item \in CarriedTo
  /\ hash.phase \in {"processing", "sending"} => hash.left > 0
  /\ Table(fwd)
SchedOK ==
  /\ sched \in SchedStates
  /\ sched.phase = "processing" => sched.left > 0
  /\ sched.phase = "idle" => sched.list = {}
OutOK == out \in [Ports -> [entry : Entry \cup {NoEntry}, left : Nat]]
OfferedOK == offeredAs \in Seq(CarriedTo) /\ Len(offeredAs) = offered

PipelineOK ==
  /\ TypeOK
  /\ ArrivalsOK
  /\ RxOK
  /\ QueuesOK
  /\ HashOK
  /\ SchedOK
  /\ OutOK
  /\ OfferedOK

-------------------------------------------------------------------------------
(* The packets that have been looked up, in that order. *)
InHash == IF Holding(hash) THEN <<hash.item>> ELSE <<>>
LookedUp == offeredAs \o hashToBuffer \o InHash

(* All that have left the RX stages, the ones looked up first. *)
Labels(q) == [n \in 1 .. Len(q) |-> [in |-> q[n].in, meta |-> q[n].meta]]
Queued == Labels(LookedUp \o rxToHash)

(* Of one port, what comes first in a queue arrived first. *)
PortOrder(q) ==
  \A m, n \in DOMAIN q : m < n /\ q[m].in = q[n].in => q[m].meta < q[n].meta

(* Packets of port p that have left its RX stage; the one that the stage   *)
(* collects the words of; those whose metadata waits there.                *)
Ahead(p) == {Queued[n].meta : n \in {m \in DOMAIN Queued : Queued[m].in = p}}
Collected(r) == IF Holding(r) THEN {r.item.meta} ELSE {}
Parsing(r) == {r.metas[k] : k \in DOMAIN r.metas}

Below(A, B) == \A a \in A, b \in B : a < b
Increasing(m) == \A j, k \in DOMAIN m : j < k => m[j] < m[k]
WordOrder(q) ==
  \A j, k \in DOMAIN q : j < k => q[j][1] <= q[k][1] /\ (IsLast(q[j]) => q[j][1] < q[k][1])
After(seen, q, within) ==
  \A n \in seen, k \in DOMAIN q : n <= q[k][1] /\ (~within => n < q[k][1])

(* What an RX stage has seen are older packets than those of the words     *)
(* that wait, or earlier parts of the first of them.                       *)
RxOrder(ahead, r) ==
  /\ Below(ahead, Collected(r) \cup Parsing(r)) /\ Below(Collected(r), Parsing(r))
  /\ Increasing(r.metas)
  /\ After(ahead \cup Collected(r) \cup Parsing(r), r.inq, r.consuming)
  /\ WordOrder(r.inq)

OrderInv == PortOrder(Queued) /\ \A p \in Ports : RxOrder(Ahead(p), rx[p])

-------------------------------------------------------------------------------
(* The forwarding table is what the last packet of each slot taught. *)
Slots == {Key(a) : a \in Addrs}

(* The headers of the packets looked up, and among the first n of them the *)
(* packets that taught the table something about its slot k.               *)
Headers == [n \in 1 .. Len(LookedUp) |-> Meta(LookedUp[n])]
Teachers(hdrs, n, k) == {m \in 1 .. n : Learns(hdrs[m]) /\ Key(hdrs[m].src) = k}

TableIsLearned ==
  \A k \in Slots :
    LET T == Teachers(Headers, Len(LookedUp), k)
    IN \/ T = {} /\ k \notin DOMAIN fwd
       \/ /\ k \in DOMAIN fwd
          /\ \E m \in T : /\ \A j \in T : j <= m
                          /\ fwd[k] = [addr |-> Headers[m].src, port |-> LookedUp[m].in]

(* The n-th packet of q left by the port its destination was known to be   *)
(* on when it was looked up.                                               *)
RoutedByTable(q, hdrs, n) ==
  LET dst == hdrs[n].dst
      T   == Teachers(hdrs, n, Key(dst))
  IN (dst # All /\ ~HasRoute(dst)) =>
       \/ T = {} /\ q[n].port = dst % NumPorts
       \/ \E m \in T : /\ \A j \in T : j <= m
                       /\ q[n].port = IF hdrs[m].src = dst THEN q[m].in ELSE dst % NumPorts

RoutingInv ==
  /\ TableIsLearned
  /\ \A n \in 1 .. Len(LookedUp) : RoutedByTable(LookedUp, Headers, n)

-------------------------------------------------------------------------------
(* Whole packets, when none is shorter than the latency of the RX engine. *)
LongEnough == \A pkt \in Traffic : pkt.words >= RxLatency

Whole(item) == item.data = WordsOf(item.meta) /\ item.in = Meta(item).in

(* The words of whole packets of one port, the first perhaps begun. *)
ArrivedAt(q, p) == \A k \in DOMAIN q : received[q[k][1]].in = p
Chain(q) ==
  \A k \in DOMAIN q : k + 1 \in DOMAIN q =>
    IF IsLast(q[k]) THEN q[k + 1][2] = 1 ELSE q[k + 1] = <<q[k][1], q[k][2] + 1>>
Closed(q) == q # <<>> => IsLast(q[Len(q)])
WholeQueue(q, p) == ArrivedAt(q, p) /\ Chain(q) /\ Closed(q)

(* In the middle of a packet, and between two. *)
Begun(p, r) ==
  LET n == Len(r.item.data)
  IN /\ r.consuming /\ ~r.complete
     /\ r.left = MaxOf(0, RxLatency - n)
     /\ r.item.data = [k \in 1 .. n |-> <<r.item.meta, k>>]
     /\ Meta(r.item).in = p
     /\ r.inq # <<>> /\ r.inq[1] = <<r.item.meta, n + 1>>
Between(r) ==
  /\ ~r.consuming
  /\ r.inq # <<>> => r.inq[1][2] = 1
  /\ r.phase = "ready" => Whole(r.item)

RxWhole(p, r) ==
  /\ WholeQueue(r.inq, p)
  /\ r.metas = <<>>
  /\ IF r.phase = "processing" THEN Begun(p, r) ELSE Between(r)

WholeInv ==
  /\ \A n \in DOMAIN LookedUp : Whole(LookedUp[n])
  /\ \A n \in DOMAIN rxToHash : Whole(rxToHash[n])
  /\ \A p \in Ports : RxWhole(p, rx[p])

(* No packet is lost on its way to the buffer. *)
Waiting(r) == {r.inq[k][1] : k \in DOMAIN r.inq}
NoneLost ==
  \A n \in Arrived : \E p \in Ports : n \in Ahead(p) \cup Collected(rx[p]) \cup Waiting(rx[p])

-------------------------------------------------------------------------------
(* Copies that have left the buffer: chosen by the scheduler, and put on   *)
(* the wire.                                                               *)
OnList == {Copy(t.entry, t.port) : t \in sched.list}
OnWire == {Copy(out[o].entry, o) : o \in {p \in Ports : out[p].entry # NoEntry}}

OfferedCopies == (1 .. offered) \X Ports \X Ports
ListedOnce == \A t, u \in sched.list : t.port = u.port => t = u
FromInput == \A c \in Pending : offeredAs[c[1]].in = c[2]

CopiesInv ==
  /\ QueuesInOrder
  /\ FromInput
  /\ ListedOnce
  /\ OnList \cup OnWire \cup sent \subseteq OfferedCopies
  /\ taken = InSwitch \cup sent

(* Copies whose packets fit between two dispatches of the scheduler.       *)
ShortEnough == \A pkt \in Traffic : pkt.words <= SchedLatency + 1

(* The words that an output may still send before the next dispatch: one   *)
(* for each scheduler stage to come before that, and one more if its turn  *)
(* in this cycle has not come.                                             *)
UntilDispatch ==
  IF sched.phase = "processing" THEN sched.left
  ELSE IF sched.phase = "ready" THEN 0 ELSE SchedLatency
TurnToCome(o) == IF stage[1] = "output" /\ stage[2] <= o THEN 1 ELSE 0
Remaining(o) == UntilDispatch + TurnToCome(o)

Fits(words) == words <= SchedLatency + 1
TimingInv ==
  /\ sched.phase = "processing" => sched.left < SchedLatency
  /\ \A i, o \in Ports : \A k \in DOMAIN voq[i][o] : Fits(voq[i][o][k].words)
  /\ \A t \in sched.list : Fits(t.entry.words)
  /\ \A o \in Ports : out[o].entry # NoEntry => out[o].left \in 1 .. Remaining(o)

(* Of one flow, the copies in A are older than those in B. *)
Older(A, B) == \A c \in A, d \in B : c[2] = d[2] /\ c[3] = d[3] => c[1] < d[1]

FlowInv ==
  /\ Older(sent, InSwitch)
  /\ Older(OnWire, Pending \cup OnList)
  /\ Older(OnList, Pending)
  /\ resent = {}

-------------------------------------------------------------------------------
(* Sequences. *)
LEMMA Appended ==
  ASSUME NEW E, NEW q \in Seq(E), NEW x \in E
  PROVE  /\ Append(q, x) \in Seq(E)
         /\ Len(q) \in Nat /\ Len(Append(q, x)) = Len(q) + 1
         /\ \A k \in 1 .. Len(q) : Append(q, x)[k] = q[k]
         /\ Append(q, x)[Len(q) + 1] = x
         /\ Append(q, x) # <<>>
<1>1. /\ Append(q, x) \in Seq(E)
      /\ Len(q) \in Nat /\ Len(Append(q, x)) = Len(q) + 1
      /\ \A k \in 1 .. Len(q) : Append(q, x)[k] = q[k]
      /\ Append(q, x)[Len(q) + 1] = x
  OBVIOUS
<1>2. Len(<<>>) = 0
  OBVIOUS
<1> QED
  BY <1>1, <1>2

LEMMA Taken ==
  ASSUME NEW E, NEW q \in Seq(E), q # <<>>
  PROVE  /\ Tail(q) \in Seq(E)
         /\ Len(q) \in Nat \ {0} /\ Len(Tail(q)) = Len(q) - 1
         /\ Head(q) = q[1] /\ Head(q) \in E
         /\ \A k \in 1 .. Len(q) - 1 : Tail(q)[k] = q[k + 1]
  OBVIOUS

LEMMA Joined ==
  ASSUME NEW E, NEW q \in Seq(E), NEW r \in Seq(E)
  PROVE  /\ q \o r \in Seq(E)
         /\ Len(q) \in Nat /\ Len(r) \in Nat /\ Len(q \o r) = Len(q) + Len(r)
         /\ \A k \in 1 .. Len(q) : (q \o r)[k] = q[k]
         /\ \A k \in 1 .. Len(r) : (q \o r)[Len(q) + k] = r[k]
  OBVIOUS

-------------------------------------------------------------------------------
(* What one step of an RX engine does, field by field. *)
LEMMA ParsedFields ==
  ASSUME NEW r \in RxStates, r.inq # <<>>
  PROVE  /\ Parsed(r) \in RxStates
         /\ Parsed(r).inq = Tail(r.inq)
         /\ Parsed(r).metas = IF r.consuming THEN r.metas ELSE Append(r.metas, Head(r.inq)[1])
         /\ Parsed(r).consuming = ~IsLast(Head(r.inq))
         /\ Parsed(r).phase = r.phase /\ Parsed(r).left = r.left
         /\ Parsed(r).item = r.item /\ Parsed(r).complete = r.complete
<1>1. /\ Tail(r.inq) \in Seq(ArrivedWords) /\ Head(r.inq) \in ArrivedWords
      /\ r.metas \in Seq(Arrived)
  BY Taken DEF RxStates
<1>2. Head(r.inq)[1] \in Arrived
  BY <1>1 DEF ArrivedWords
<1>3. Append(r.metas, Head(r.inq)[1]) \in Seq(Arrived)
  BY <1>1, <1>2, Appended
<1>4. IsLast(Head(r.inq)) \in BOOLEAN
  BY DEF IsLast
<1> DEFINE t == Tail(r.inq)
           m == IF r.consuming THEN r.metas ELSE Append(r.metas, Head(r.inq)[1])
           c == ~IsLast(Head(r.inq))
<1>5. Parsed(r) = [r EXCEPT !.inq = t, !.metas = m, !.consuming = c]
  BY DEF Parsed, RxStates
<1>6. t \in Seq(ArrivedWords) /\ m \in Seq(Arrived) /\ c \in BOOLEAN
  BY <1>1, <1>3, <1>4
<1> HIDE DEF t, m, c
<1>7. /\ Parsed(r) \in RxStates
      /\ Parsed(r).inq = t /\ Parsed(r).metas = m /\ Parsed(r).consuming = c
      /\ Parsed(r).phase = r.phase /\ Parsed(r).left = r.left
      /\ Parsed(r).item = r.item /\ Parsed(r).complete = r.complete
  BY <1>5, <1>6 DEF RxStates
<1> QED
  BY <1>7 DEF t, m, c

LEMMA CompletedFields ==
  ASSUME NEW r \in RxStates
  PROVE  LET s == CompleteIfDone(r) IN
         /\ s \in RxStates
         /\ s.phase = IF r.left = 0 /\ r.complete THEN "ready" ELSE r.phase
         /\ s.inq = r.inq /\ s.metas = r.metas /\ s.consuming = r.consuming
         /\ s.left = r.left /\ s.item = r.item /\ s.complete = r.complete
  BY DEF CompleteIfDone, RxStates, Phases

LEMMA ProcessingFields ==
  ASSUME NEW r \in RxStates, r.item \in Carried, r.phase = "processing"
  PROVE  LET s == RxProcessing(r)
             word == Head(r.inq)
         IN /\ s \in RxStates
            /\ s.item \in Carried /\ s.item.in = r.item.in /\ s.item.meta = r.item.meta
            /\ s.left = MaxOf(0, r.left - 1)
            /\ s.phase = IF s.left = 0 /\ s.complete THEN "ready" ELSE "processing"
            /\ r.inq = <<>> =>
                 /\ s.inq = r.inq /\ s.metas = r.metas /\ s.consuming = r.consuming
                 /\ s.item = r.item /\ s.complete = r.complete
            /\ r.inq # <<>> =>
                 /\ s.inq = Tail(r.inq)
                 /\ s.metas = IF r.consuming THEN r.metas ELSE Append(r.metas, word[1])
                 /\ s.consuming = ~IsLast(word)
                 /\ s.item.data = Append(r.item.data, word)
                 /\ s.complete = (r.complete \/ IsLast(word))
<1> DEFINE word == Head(r.inq)
           fed == IF r.inq = <<>> THEN r
                  ELSE [Parsed(r) EXCEPT !.item.data = Append(@, word),
                                         !.complete = @ \/ IsLast(word)]
           timed == [fed EXCEPT !.left = MaxOf(0, @ - 1)]
<1>1. RxProcessing(r) = CompleteIfDone(timed)
  BY DEF RxProcessing
<1>2. /\ fed \in RxStates
      /\ fed.item \in Carried /\ fed.item.in = r.item.in /\ fed.item.meta = r.item.meta
      /\ fed.left = r.left /\ fed.phase = r.phase
      /\ r.inq = <<>> => fed = r
      /\ r.inq # <<>> =>
           /\ fed.inq = Tail(r.inq)
           /\ fed.metas = IF r.consuming THEN r.metas ELSE Append(r.metas, word[1])
           /\ fed.consuming = ~IsLast(word)
           /\ fed.item.data = Append(r.item.data, word)
           /\ fed.complete = (r.complete \/ IsLast(word))
  <2>1. CASE r.inq = <<>>
    BY <2>1
  <2>2. CASE r.inq # <<>>
    <3> DEFINE par == Parsed(r)
               d == Append(r.item.data, word)
               c == r.complete \/ IsLast(word)
               it == [r.item EXCEPT !.data = d]
    <3>1. /\ par \in RxStates /\ par.inq = Tail(r.inq)
          /\ par.metas = IF r.consuming THEN r.metas ELSE Append(r.metas, word[1])
          /\ par.consuming = ~IsLast(word)
          /\ par.phase = r.phase /\ par.left = r.left
          /\ par.item = r.item /\ par.complete = r.complete
      BY <2>2, ParsedFields
    <3>2. word \in ArrivedWords /\ r.item.data \in Seq(ArrivedWords)
      BY <2>2, Taken DEF RxStates, Carried
    <3>3. d \in Seq(ArrivedWords) \ {<<>>}
      BY <3>2, Appended
    <3>4. c \in BOOLEAN
      BY DEF IsLast, RxStates
    <3>5. fed = [par EXCEPT !.item = [@ EXCEPT !.data = d], !.complete = c]
      BY <2>2, <3>1 DEF RxStates, Carried
    <3> HIDE DEF par, d, c, word
    <3>6. it \in Carried /\ it.in = r.item.in /\ it.meta = r.item.meta /\ it.data = d
      BY <3>3 DEF Carried
    <3>7. fed = [par EXCEPT !.item = it, !.complete = c]
      BY <3>5, <3>1
    <3> HIDE DEF it, fed
    <3>8. /\ fed \in RxStates
          /\ fed.item = it /\ fed.complete = c
          /\ fed.inq = par.inq /\ fed.metas = par.metas /\ fed.consuming = par.consuming
          /\ fed.phase = par.phase /\ fed.left = par.left
      BY <3>7, <3>6, <3>4, <3>1 DEF RxStates
    <3> QED
      BY <3>8, <3>1, <3>6, <2>2 DEF c, d
  <2> QED
    BY <2>1, <2>2
<1> HIDE DEF fed
<1>3. /\ timed \in RxStates
      /\ timed.left = MaxOf(0, r.left - 1) /\ timed.phase = "processing"
      /\ timed.inq = fed.inq /\ timed.metas = fed.metas /\ timed.consuming = fed.consuming
      /\ timed.item = fed.item /\ timed.complete = fed.complete
  BY <1>2 DEF RxStates, MaxOf
<1> HIDE DEF timed
<1> DEFINE s == CompleteIfDone(timed)
<1>4. /\ s \in RxStates
      /\ s.phase = IF timed.left = 0 /\ timed.complete THEN "ready" ELSE timed.phase
      /\ s.inq = timed.inq /\ s.metas = timed.metas /\ s.consuming = timed.consuming
      /\ s.left = timed.left /\ s.item = timed.item /\ s.complete = timed.complete
  BY <1>3, CompletedFields
<1> HIDE DEF s
<1>5. /\ s \in RxStates
      /\ s.item \in Carried /\ s.item.in = r.item.in /\ s.item.meta = r.item.meta
      /\ s.left = MaxOf(0, r.left - 1)
      /\ s.phase = IF s.left = 0 /\ s.complete THEN "ready" ELSE "processing"
  BY <1>2, <1>3, <1>4
<1>6. s.inq = fed.inq /\ s.metas = fed.metas /\ s.consuming = fed.consuming
      /\ s.item = fed.item /\ s.complete = fed.complete
  BY <1>3, <1>4
<1> QED
  BY <1>1, <1>2, <1>5, <1>6 DEF s, word

LEMMA StartFields ==
  ASSUME NEW p \in Ports, NEW r \in RxStates, r.phase = "idle", r.inq # <<>>
  PROVE  LET s == RxStart(p, r)
             word == Head(r.inq)
             metas == IF r.consuming THEN r.metas ELSE Append(r.metas, word[1])
         IN /\ s \in RxStates
            /\ s.inq = Tail(r.inq) /\ s.consuming = ~IsLast(word)
            /\ metas \in Seq(Arrived)
            /\ metas = <<>> => s.phase = "idle" /\ s.metas = <<>>
            /\ metas # <<>> =>
                 /\ s.item = [in |-> p, meta |-> Head(metas), data |-> <<word>>]
                 /\ s.item \in Carried /\ s.item.in = p
                 /\ s.metas = <<>> /\ s.left = RxLatency - 1 /\ s.complete = IsLast(word)
                 /\ s.phase = IF s.left = 0 /\ s.complete THEN "ready" ELSE "processing"
<1> DEFINE word == Head(r.inq)
           metas == IF r.consuming THEN r.metas ELSE Append(r.metas, word[1])
           par == Parsed(r)
           it == [in |-> p, meta |-> Head(metas), data |-> <<word>>]
           c == IsLast(word)
           begun == [par EXCEPT !.phase = "processing", !.left = RxLatency - 1, !.metas = <<>>,
                                !.item = it, !.complete = c]
<1>1. /\ par \in RxStates /\ par.inq = Tail(r.inq) /\ par.metas = metas
      /\ par.consuming = ~IsLast(word)
      /\ par.phase = r.phase /\ par.left = r.left
      /\ par.item = r.item /\ par.complete = r.complete
  BY ParsedFields
<1>2. word \in ArrivedWords /\ metas \in Seq(Arrived)
  BY <1>1, Taken DEF RxStates
<1>3. RxStart(p, r) = IF metas = <<>> THEN par ELSE CompleteIfDone(begun)
  <2>1. par.metas = metas
    BY <1>1
  <2> HIDE DEF metas
  <2> QED
    BY <2>1 DEF RxStart
<1>4. CASE metas = <<>>
  BY <1>1, <1>2, <1>3, <1>4
<1>5. CASE metas # <<>>
  <2>1. Head(metas) \in Arrived
    BY <1>2, <1>5, Taken
  <2>2. <<word>> \in Seq(ArrivedWords) \ {<<>>}
    BY <1>2
  <2>3. c \in BOOLEAN
    BY DEF IsLast
  <2>4. RxLatency - 1 \in Nat
    BY CoreAssumption
  <2>5. <<>> \in Seq(Arrived)
    OBVIOUS
  <2> HIDE DEF word, metas, c, par
  <2>6. it \in Carried /\ it.in = p
    BY <2>1, <2>2 DEF Carried
  <2> HIDE DEF it
  <2>7. /\ begun \in RxStates
        /\ begun.inq = par.inq /\ begun.consuming = par.consuming
        /\ begun.phase = "processing" /\ begun.left = RxLatency - 1 /\ begun.metas = <<>>
        /\ begun.item = it /\ begun.complete = c
    BY <1>1, <2>3, <2>4, <2>5, <2>6 DEF RxStates, Phases
  <2> HIDE DEF begun
  <2>8. LET s == CompleteIfDone(begun) IN
         /\ s \in RxStates
         /\ s.phase = IF begun.left = 0 /\ begun.complete THEN "ready" ELSE begun.phase
         /\ s.inq = begun.inq /\ s.metas = begun.metas /\ s.consuming = begun.consuming
         /\ s.left = begun.left /\ s.item = begun.item /\ s.complete = begun.complete
    BY <2>7, CompletedFields
  <2>9. RxStart(p, r) = CompleteIfDone(begun)
    BY <1>3, <1>5
  <2>10. LET s == RxStart(p, r) IN
        /\ s \in RxStates
        /\ s.inq = par.inq /\ s.consuming = par.consuming
        /\ s.item = it /\ s.metas = <<>> /\ s.left = RxLatency - 1 /\ s.complete = c
        /\ s.phase = IF s.left = 0 /\ s.complete THEN "ready" ELSE "processing"
    BY <2>7, <2>8, <2>9
  <2>11. par.inq = Tail(r.inq) /\ par.consuming = ~IsLast(Head(r.inq)) /\ metas \in Seq(Arrived)
    BY <1>1, <1>2 DEF word
  <2> QED
    BY <2>10, <2>11, <2>6, <1>5 DEF it, c, metas, word
<1> QED
  BY <1>4, <1>5

-------------------------------------------------------------------------------
(* What has arrived only grows, but for a reset. *)
LEMMA SeqMonotone ==
  ASSUME NEW E, NEW T, E \subseteq T
  PROVE  Seq(E) \subseteq Seq(T)
  BY SeqMonotonic

LEMMA SameArrivals ==
  ASSUME received' = received
  PROVE  /\ Arrived' = Arrived /\ ArrivedWords' = ArrivedWords
         /\ Carried' = Carried /\ CarriedTo' = CarriedTo
         /\ RxStates' = RxStates /\ HashStates' = HashStates
  BY DEF Arrived, ArrivedWords, Carried, CarriedTo, RxStates, HashStates

LEMMA MoreArrivals ==
  ASSUME ArrivalsOK, NEW pkt \in Traffic, received' = Append(received, pkt)
  PROVE  /\ Arrived \subseteq Arrived' /\ ArrivedWords \subseteq ArrivedWords'
         /\ Carried \subseteq Carried' /\ CarriedTo \subseteq CarriedTo'
         /\ RxStates \subseteq RxStates' /\ HashStates \subseteq HashStates'
         /\ \A n \in Arrived : received'[n] = received[n]
<1>1. /\ Len(received) \in Nat /\ Len(received') = Len(received) + 1
      /\ \A n \in 1 .. Len(received) : received'[n] = received[n]
  BY DEF ArrivalsOK
<1>2. Arrived \subseteq Arrived' /\ \A n \in Arrived : received'[n] = received[n]
  BY <1>1 DEF Arrived
<1>3. ArrivedWords \subseteq ArrivedWords'
  BY <1>2 DEF ArrivedWords
<1>4. Seq(ArrivedWords) \subseteq Seq(ArrivedWords') /\ Seq(Arrived) \subseteq Seq(Arrived')
  BY <1>2, <1>3, SeqMonotone
<1>5. Carried \subseteq Carried' /\ CarriedTo \subseteq CarriedTo'
  BY <1>2, <1>4 DEF Carried, CarriedTo
<1>6. RxStates \subseteq RxStates'
  BY <1>2, <1>4, <1>5 DEF RxStates
<1>7. HashStates \subseteq HashStates'
  BY <1>5 DEF HashStates
<1> QED
  BY <1>2, <1>3, <1>5, <1>6, <1>7

LEMMA SizesPositive ==
  /\ HashSize \in Nat /\ CyclesPerWord \in Nat \ {0}
  /\ RxLatency \in Nat \ {0} /\ HashLatency \in Nat \ {0} /\ HashII \in Nat \ {0}
  /\ SchedLatency \in Nat \ {0} /\ SchedII \in Nat \ {0}
  /\ NumPorts \in Nat \ {0} /\ 0 \in Ports
  BY CoreAssumption, BufferAssumption DEF Ports

AtRest == received = <<>> /\ rx = IdleRx /\ RestInit

LEMMA RestTyped == AtRest => PipelineOK
<1> SUFFICES ASSUME received = <<>>, rx = IdleRx, RestInit
             PROVE  PipelineOK
  BY DEF AtRest
<1>1. TypeOK
  BY BufferAssumption DEF RestInit, Init, TypeOK, Cells, Counters, Requests
<1>2. ArrivalsOK
  BY CoreAssumption DEF ArrivalsOK
<1>3. IdleRx \in [Ports -> RxStates] /\ \A p \in Ports : IdleRx[p].phase = "idle"
  BY DEF IdleRx, RxStates, Phases
<1>4. RxOK
  BY <1>3 DEF RxOK, Holding
<1>5. QueuesOK /\ OfferedOK
  BY DEF RestInit, Init, QueuesOK, OfferedOK
<1>6. HashOK
  <2>1. hash \in HashStates /\ hash.phase = "idle"
    BY SizesPositive DEF RestInit, IdleHash, HashStates, Phases
  <2>2. fwd = <<>> /\ DOMAIN <<>> = {}
    BY DEF RestInit
  <2> QED
    BY <2>1, <2>2 DEF HashOK, Holding, Table
<1>7. SchedOK
  BY SizesPositive DEF RestInit, SchedOK, IdleScheduler, SchedStates
<1>8. OutOK
  BY DEF RestInit, OutOK, IdleOutputs
<1> QED
  BY <1>1, <1>2, <1>4, <1>5, <1>6, <1>7, <1>8 DEF PipelineOK

LEMMA ResetIsRest ==
  ASSUME TypeOK, ResetSwitch
  PROVE  AtRest'
  BY DEF ResetSwitch, AtRest, RestInit, Init, TypeOK

LEMMA ReceiveTyped ==
  ASSUME PipelineOK, NEW pkt \in Traffic, ReceivePacket(pkt)
  PROVE  PipelineOK'
<1>1. /\ received' = Append(received, pkt) /\ received \in Seq(Traffic)
      /\ Len(received) < MaxPackets /\ Len(received) \in Nat
      /\ pkt.in \in Ports /\ pkt.words \in Nat \ {0}
  BY CoreAssumption DEF ReceivePacket, PipelineOK, ArrivalsOK
<1>2. /\ Arrived \subseteq Arrived' /\ ArrivedWords \subseteq ArrivedWords'
      /\ Carried \subseteq Carried' /\ CarriedTo \subseteq CarriedTo'
      /\ RxStates \subseteq RxStates' /\ HashStates \subseteq HashStates'
  BY <1>1, MoreArrivals DEF PipelineOK
<1>3. ArrivalsOK'
  BY <1>1, CoreAssumption DEF ArrivalsOK
<1>4. RxOK'
  <2> DEFINE news == [k \in 1 .. pkt.words |-> <<Len(received) + 1, k>>]
             q == rx[pkt.in].inq \o news
  <2>1. rx \in [Ports -> RxStates]
    BY DEF PipelineOK, RxOK
  <2>2. /\ Len(received') = Len(received) + 1 /\ received'[Len(received) + 1] = pkt
    BY <1>1
  <2>3. \A k \in 1 .. pkt.words : <<Len(received) + 1, k>> \in ArrivedWords'
    BY <2>2, <1>1 DEF Arrived, ArrivedWords
  <2>4. news \in Seq(ArrivedWords')
    <3>1. news \in [1 .. pkt.words -> ArrivedWords'] /\ pkt.words \in Nat
      BY <2>3, <1>1
    <3> QED
      BY <3>1
  <2>5. rx[pkt.in].inq \in Seq(ArrivedWords')
    BY <2>1, <1>1, <1>2, SeqMonotone DEF RxStates
  <2>6. q \in Seq(ArrivedWords')
    BY <2>4, <2>5, Joined
  <2>7. rx' = [rx EXCEPT ![pkt.in].inq = q]
    BY DEF ReceivePacket
  <2> HIDE DEF q
  <2>8. \A p \in Ports : rx'[p] = IF p = pkt.in THEN [rx[p] EXCEPT !.inq = q] ELSE rx[p]
    BY <2>7, <2>1, <1>1
  <2>9. \A p \in Ports : rx[p] \in RxStates' /\ rx[p] \in RxStates
    BY <2>1, <1>2
  <2>10. \A p \in Ports : /\ rx'[p] \in RxStates'
                          /\ rx'[p].phase = rx[p].phase /\ rx'[p].item = rx[p].item
                          /\ rx'[p].left = rx[p].left
    <3>1. SUFFICES ASSUME NEW r \in RxStates'
                   PROVE  LET s == [r EXCEPT !.inq = q]
                          IN s \in RxStates' /\ s.phase = r.phase /\ s.item = r.item /\ s.left = r.left
      BY <2>8, <2>9
    <3> QED
      BY <3>1, <2>6 DEF RxStates
  <2>11. rx' \in [Ports -> RxStates']
    BY <2>10, <2>7, <2>1
  <2>12. \A p \in Ports : /\ Holding(rx[p]) => rx[p].item \in Carried /\ rx[p].item.in = p
                          /\ rx[p].phase = "sending" => rx[p].left > 0
    BY DEF PipelineOK, RxOK
  <2>13. \A p \in Ports : /\ Holding(rx'[p]) => rx'[p].item \in Carried' /\ rx'[p].item.in = p
                          /\ rx'[p].phase = "sending" => rx'[p].left > 0
    BY <2>12, <2>10, <1>2 DEF Holding
  <2> QED
    BY <2>11, <2>13 DEF RxOK, Holding
<1>5. QueuesOK' /\ OfferedOK'
  <2>1. UNCHANGED <<rxToHash, hashToBuffer, offeredAs, offered>>
    BY DEF ReceivePacket, history, vars
  <2>2. Seq(Carried) \subseteq Seq(Carried') /\ Seq(CarriedTo) \subseteq Seq(CarriedTo')
    BY <1>2, SeqMonotone
  <2> QED
    BY <2>1, <2>2 DEF PipelineOK, QueuesOK, OfferedOK
<1>6. HashOK'
  BY <1>2 DEF ReceivePacket, PipelineOK, HashOK, Holding, Table, Key
<1>7. TypeOK' /\ SchedOK' /\ OutOK'
  BY DEF ReceivePacket, PipelineOK, vars, TypeOK, SchedOK, OutOK
<1> QED
  BY <1>3, <1>4, <1>5, <1>6, <1>7 DEF PipelineOK

LEMMA TickedFields ==
  ASSUME NEW r \in RxStates, r.phase = "sending" => r.left > 0
  PROVE  LET s == Ticked(r)
         IN /\ s \in RxStates
            /\ s.phase = IF r.phase = "sending" /\ r.left <= 1 THEN "idle" ELSE r.phase
            /\ s.inq = r.inq /\ s.metas = r.metas /\ s.consuming = r.consuming
            /\ s.item = r.item /\ s.complete = r.complete
            /\ Holding(s) <=> Holding(r)
            /\ s.phase = "sending" => s.left > 0
            /\ Holding(r) => s = r
<1> DEFINE l == r.left - 1
           f == IF r.left <= 1 THEN "idle" ELSE r.phase
<1>1. CASE r.phase = "sending"
  <2>1. Ticked(r) = [r EXCEPT !.left = l, !.phase = f]
    BY <1>1 DEF Ticked
  <2>2. l \in Nat /\ f \in Phases /\ (f = "sending" => l > 0) /\ f \in {"idle", "sending"}
    BY <1>1 DEF RxStates, Phases
  <2>3. f = IF r.phase = "sending" /\ r.left <= 1 THEN "idle" ELSE r.phase
    BY <1>1
  <2> HIDE DEF l, f
  <2>4. LET s == Ticked(r)
        IN /\ s \in RxStates /\ s.phase = f /\ s.left = l
           /\ s.inq = r.inq /\ s.metas = r.metas /\ s.consuming = r.consuming
           /\ s.item = r.item /\ s.complete = r.complete
    BY <2>1, <2>2 DEF RxStates
  <2> QED
    BY <2>2, <2>3, <2>4, <1>1 DEF Holding
<1>2. CASE r.phase # "sending"
  BY <1>2 DEF Ticked, Holding
<1> QED
  BY <1>1, <1>2

LEMMA HashTickedFields ==
  ASSUME HashOK
  PROVE  LET s == [Ticked(hash) EXCEPT !.ii = MaxOf(0, @ - 1)]
         IN /\ s \in HashStates
            /\ s.item = hash.item
            /\ Holding(s) <=> Holding(hash)
            /\ s.phase \in {"processing", "sending"} => s.left > 0
<1> DEFINE u == Ticked(hash)
           n == MaxOf(0, u.ii - 1)
<1>1. hash \in HashStates /\ (hash.phase \in {"processing", "sending"} => hash.left > 0)
  BY DEF HashOK
<1>2. /\ u \in HashStates /\ u.item = hash.item /\ (Holding(u) <=> Holding(hash))
      /\ u.phase \in {"processing", "sending"} => u.left > 0
  <2> DEFINE l == hash.left - 1
             f == IF hash.left <= 1 THEN "idle" ELSE hash.phase
  <2>1. CASE hash.phase = "sending"
    <3>1. u = [hash EXCEPT !.left = l, !.phase = f]
      BY <2>1 DEF Ticked
    <3>2. l \in Nat /\ f \in Phases /\ (f = "sending" => l > 0) /\ f \in {"idle", "sending"}
      BY <2>1, <1>1 DEF HashStates, Phases
    <3> HIDE DEF l, f, u
    <3>3. u \in HashStates /\ u.item = hash.item /\ u.phase = f /\ u.left = l
      BY <3>1, <3>2, <1>1 DEF HashStates
    <3> QED
      BY <3>2, <3>3, <2>1 DEF Holding
  <2>2. CASE hash.phase # "sending"
    BY <2>2, <1>1 DEF Ticked
  <2> QED
    BY <2>1, <2>2
<1>3. n \in 0 .. HashII
  <2>1. u.ii \in 0 .. HashII
    BY <1>2 DEF HashStates
  <2> HIDE DEF u
  <2> QED
    BY <2>1, SizesPositive DEF MaxOf
<1> HIDE DEF n
<1>5. [Ticked(hash) EXCEPT !.ii = MaxOf(0, @ - 1)] = [u EXCEPT !.ii = n]
  BY DEF n
<1> HIDE DEF u
<1>4. LET s == [u EXCEPT !.ii = n]
      IN s \in HashStates /\ s.item = u.item /\ s.phase = u.phase /\ s.left = u.left
  BY <1>2, <1>3 DEF HashStates
<1> QED
  BY <1>2, <1>4, <1>5 DEF Holding

LEMMA TickTyped ==
  ASSUME PipelineOK, TickAllModules
  PROVE  PipelineOK'
<1>1. received' = received
  BY DEF TickAllModules
<1>2. /\ Arrived' = Arrived /\ ArrivedWords' = ArrivedWords
      /\ Carried' = Carried /\ CarriedTo' = CarriedTo
      /\ RxStates' = RxStates /\ HashStates' = HashStates
  BY <1>1, SameArrivals
<1>3. RxOK'
  <2>1. rx' = [p \in Ports |-> Ticked(rx[p])]
    BY DEF TickAllModules
  <2>2. \A p \in Ports :
          /\ rx[p] \in RxStates /\ (Holding(rx[p]) => rx[p].item \in Carried /\ rx[p].item.in = p)
          /\ rx[p].phase = "sending" => rx[p].left > 0
    BY DEF PipelineOK, RxOK
  <2>3. \A p \in Ports : /\ rx'[p] \in RxStates /\ rx'[p].item = rx[p].item
                         /\ Holding(rx'[p]) <=> Holding(rx[p])
                         /\ rx'[p].phase = "sending" => rx'[p].left > 0
    BY <2>1, <2>2, TickedFields
  <2>4. rx' \in [Ports -> RxStates]
    BY <2>1, <2>3
  <2>5. \A p \in Ports : /\ Holding(rx'[p]) => rx'[p].item \in Carried /\ rx'[p].item.in = p
                         /\ rx'[p].phase = "sending" => rx'[p].left > 0
    BY <2>2, <2>3
  <2> QED
    BY <2>4, <2>5, <1>2 DEF RxOK, Holding
<1>4. HashOK'
  <2>1. hash' = [Ticked(hash) EXCEPT !.ii = MaxOf(0, @ - 1)] /\ fwd' = fwd
    BY DEF TickAllModules
  <2>2. HashOK
    BY DEF PipelineOK
  <2>3. /\ hash' \in HashStates /\ hash'.item = hash.item
        /\ Holding(hash') <=> Holding(hash)
        /\ hash'.phase \in {"processing", "sending"} => hash'.left > 0
    BY <2>1, <2>2, HashTickedFields
  <2> QED
    BY <2>1, <2>2, <2>3, <1>2 DEF HashOK, Holding, Table, Key
<1>5. SchedOK'
  <2> DEFINE n == MaxOf(0, sched.ii - 1)
  <2>1. sched' = [sched EXCEPT !.ii = n]
    BY DEF TickAllModules
  <2>2. n \in 0 .. SchedII
    BY SizesPositive DEF PipelineOK, SchedOK, SchedStates, MaxOf
  <2> HIDE DEF n
  <2> QED
    BY <2>1, <2>2 DEF PipelineOK, SchedOK, SchedStates
<1>6. TypeOK' /\ OutOK' /\ ArrivalsOK' /\ QueuesOK' /\ OfferedOK'
  <2>1. UNCHANGED <<vars, received, rxToHash, hashToBuffer, out, offeredAs>>
    BY DEF TickAllModules, history
  <2> QED
    BY <2>1, <1>2
       DEF PipelineOK, vars, TypeOK, OutOK, ArrivalsOK, QueuesOK, OfferedOK
<1> QED
  BY <1>3, <1>4, <1>5, <1>6 DEF PipelineOK

LEMMA PortsFinite ==
  ASSUME NEW A \in SUBSET Ports
  PROVE  IsFiniteSet(A) /\ Cardinality(A) \in Nat
<1>1. IsFiniteSet(Ports)
  BY FS_Interval, SizesPositive DEF Ports
<1> QED
  BY <1>1, FS_Subset, FS_CardinalityType

(* Words are counted from one, and every one takes a cycle. *)
LEMMA CyclesPositive ==
  ASSUME NEW E, NEW d \in Seq(E), d # <<>>
  PROVE  Len(d) \in Nat \ {0} /\ Cycles(Len(d)) \in Nat \ {0}
<1>1. Len(d) \in Nat \ {0}
  BY Taken
<1>2. \A a, b \in Nat \ {0} : a * b \in Nat \ {0}
  OBVIOUS
<1> QED
  BY <1>1, <1>2, SizesPositive DEF Cycles

LEMMA RxStepCases ==
  ASSUME NEW p \in Ports, NEW r \in RxStates
  PROVE  /\ r.phase = "ready" /\ hash.ii = 0 =>
              RxStep(p, r) = [r EXCEPT !.phase = "sending", !.left = Cycles(Len(r.item.data)),
                                       !.item = NoItem]
         /\ r.phase = "processing" => RxStep(p, r) = RxProcessing(r)
         /\ r.phase = "idle" /\ r.inq # <<>> => RxStep(p, r) = RxStart(p, r)
         /\ \/ r.phase = "ready" /\ hash.ii # 0
            \/ r.phase = "idle" /\ r.inq = <<>>
            \/ r.phase = "sending"
            => RxStep(p, r) = r
  BY DEF RxStep

(* Handing a packet on. *)
LEMMA SendingFields ==
  ASSUME NEW r \in RxStates, r.item \in Carried
  PROVE  LET s == [r EXCEPT !.phase = "sending", !.left = Cycles(Len(r.item.data)),
                            !.item = NoItem]
         IN /\ s \in RxStates /\ s.phase = "sending" /\ s.left > 0
            /\ s.inq = r.inq /\ s.metas = r.metas /\ s.consuming = r.consuming
            /\ s.item = NoItem /\ s.complete = r.complete
<1> DEFINE n == Cycles(Len(r.item.data))
<1>1. n \in Nat \ {0}
  BY CyclesPositive DEF Carried
<1> HIDE DEF n
<1>2. n > 0 /\ n \in Nat
  BY <1>1
<1>3. LET s == [r EXCEPT !.phase = "sending", !.left = n, !.item = NoItem]
      IN /\ s \in RxStates /\ s.phase = "sending" /\ s.left > 0
         /\ s.inq = r.inq /\ s.metas = r.metas /\ s.consuming = r.consuming
         /\ s.item = NoItem /\ s.complete = r.complete
  BY <1>2 DEF RxStates, Phases
<1> QED
  BY <1>3 DEF n

LEMMA RxStepTyped ==
  ASSUME NEW p \in Ports, NEW r \in RxStates,
         Holding(r) => r.item \in Carried /\ r.item.in = p,
         r.phase = "sending" => r.left > 0
  PROVE  LET s == RxStep(p, r)
         IN /\ s \in RxStates
            /\ Holding(s) => s.item \in Carried /\ s.item.in = p
            /\ s.phase = "sending" => s.left > 0
<1>1. CASE r.phase = "ready" /\ hash.ii = 0
  BY <1>1, RxStepCases, SendingFields DEF Holding
<1>2. CASE r.phase = "processing"
  <2>1. r.item \in Carried /\ r.item.in = p
    BY <1>2 DEF Holding
  <2>2. LET s == RxProcessing(r)
        IN s \in RxStates /\ s.item \in Carried /\ s.item.in = p /\ s.phase # "sending"
    BY <1>2, <2>1, ProcessingFields
  <2> QED
    BY <2>2, <1>2, RxStepCases
<1>3. CASE r.phase = "idle" /\ r.inq # <<>>
  <2>1. LET s == RxStart(p, r)
        IN s \in RxStates /\ (s.phase # "idle" => s.item \in Carried /\ s.item.in = p)
           /\ s.phase # "sending"
    BY <1>3, StartFields
  <2> QED
    BY <2>1, <1>3, RxStepCases DEF Holding
<1>4. CASE \/ r.phase = "ready" /\ hash.ii # 0
           \/ r.phase = "idle" /\ r.inq = <<>>
           \/ r.phase = "sending"
  BY <1>4, RxStepCases
<1>5. r.phase \in {"idle", "processing", "ready", "sending"}
  BY DEF RxStates, Phases
<1> QED
  BY <1>1, <1>2, <1>3, <1>4, <1>5

(* The packets handed to the hash engine in a cycle: one of each port that *)
(* hands one on, port after port.                                          *)
Handing == {p \in Ports : rx[p].phase = "ready" /\ hash.ii = 0}
HandedBy(s) == [k \in DOMAIN s |-> rx[s[k]].item]

LEMMA Handed ==
  ASSUME RxOK, NEW s \in Ascending(Handing)
  PROVE  /\ HandedBy(s) \in Seq(Carried)
         /\ DOMAIN HandedBy(s) = DOMAIN s /\ DOMAIN s = 1 .. Len(HandedBy(s))
         /\ \A k \in DOMAIN s : s[k] \in Handing /\ HandedBy(s)[k] = rx[s[k]].item
                                /\ rx[s[k]].item.in = s[k]
<1> DEFINE n == Cardinality(Handing)
<1>1. n \in Nat
  BY PortsFinite DEF Handing
<1>2. s \in [1 .. n -> Handing]
  BY DEF Ascending
<1>3. \A p \in Handing : p \in Ports /\ rx[p].item \in Carried /\ rx[p].item.in = p
  BY DEF RxOK, Holding, Handing
<1> HIDE DEF n
<1>4. HandedBy(s) \in [1 .. n -> Carried]
  BY <1>2, <1>3 DEF HandedBy
<1>5. HandedBy(s) \in Seq(Carried) /\ Len(HandedBy(s)) = n
  BY <1>4, <1>1
<1> QED
  BY <1>1, <1>2, <1>3, <1>4, <1>5 DEF HandedBy

LEMMA RxTyped ==
  ASSUME PipelineOK, ProcessRxStage
  PROVE  PipelineOK'
<1>1. received' = received
  BY DEF ProcessRxStage
<1>2. /\ Arrived' = Arrived /\ ArrivedWords' = ArrivedWords
      /\ Carried' = Carried /\ CarriedTo' = CarriedTo
      /\ RxStates' = RxStates /\ HashStates' = HashStates
  BY <1>1, SameArrivals
<1>3. RxOK'
  <2>1. rx' = [p \in Ports |-> RxStep(p, rx[p])]
    BY DEF ProcessRxStage
  <2>2. \A p \in Ports :
          /\ rx[p] \in RxStates /\ (Holding(rx[p]) => rx[p].item \in Carried /\ rx[p].item.in = p)
          /\ rx[p].phase = "sending" => rx[p].left > 0
    BY DEF PipelineOK, RxOK
  <2>3. \A p \in Ports : LET s == RxStep(p, rx[p])
                         IN /\ s \in RxStates
                            /\ Holding(s) => s.item \in Carried /\ s.item.in = p
                            /\ s.phase = "sending" => s.left > 0
    BY <2>2, RxStepTyped
  <2>4. rx' \in [Ports -> RxStates]
    BY <2>1, <2>3
  <2>5. \A p \in Ports : /\ Holding(rx'[p]) => rx'[p].item \in Carried /\ rx'[p].item.in = p
                         /\ rx'[p].phase = "sending" => rx'[p].left > 0
    BY <2>1, <2>3
  <2> QED
    BY <2>4, <2>5, <1>2 DEF RxOK, Holding
<1>4. QueuesOK'
  <2>1. PICK s \in Ascending(Handing) : rxToHash' = rxToHash \o HandedBy(s)
    BY DEF ProcessRxStage, Handing, HandedBy
  <2>2. rxToHash' \in Seq(Carried)
    BY <2>1, Handed, Joined DEF PipelineOK, QueuesOK
  <2> QED
    BY <2>2, <1>2 DEF ProcessRxStage, PipelineOK, QueuesOK
<1>5. TypeOK' /\ OutOK' /\ ArrivalsOK' /\ OfferedOK' /\ SchedOK' /\ HashOK'
  <2>1. UNCHANGED <<vars, received, out, sched, hash, fwd, offeredAs>>
    BY DEF ProcessRxStage, history
  <2> QED
    BY <2>1, <1>2 DEF PipelineOK, vars, TypeOK, OutOK, ArrivalsOK, OfferedOK, SchedOK, HashOK,
                      Holding, Table, Key
<1> QED
  BY <1>3, <1>4, <1>5 DEF PipelineOK

-------------------------------------------------------------------------------
(* The hash engine. *)
Believed(item) == [Meta(item) EXCEPT !.in = item.in]

LEMMA BelievedFields ==
  ASSUME ArrivalsOK, NEW item, item.in \in Ports, item.meta \in Arrived
  PROVE  /\ Believed(item).in = item.in
         /\ Believed(item).src = Meta(item).src /\ Meta(item).src \in Addrs
         /\ Believed(item).dst = Meta(item).dst /\ Meta(item).dst \in Addrs \cup {All}
         /\ Meta(item).in \in Ports /\ Meta(item).words \in Nat \ {0}
         /\ Meta(item) \in Traffic
<1>1. Meta(item) \in Traffic
  BY DEF ArrivalsOK, Meta, Arrived
<1>2. Meta(item) \in [in : Ports, src : Addrs, dst : Addrs \cup {All}, words : Nat \ {0}]
  BY <1>1, CoreAssumption
<1> QED
  BY <1>1, <1>2 DEF Believed

LEMMA AddrTypes ==
  /\ \A a \in Addrs : a \in Nat /\ a # All
  /\ \A a \in Nat : a % NumPorts \in Ports
  BY CoreAssumption, SizesPositive DEF All, Ports

(* The table after a packet from src at port in, and a lookup in a table. *)
LEMMA LearnedTable ==
  ASSUME ArrivalsOK, Table(fwd), NEW item, item.in \in Ports, item.meta \in Arrived
  PROVE  Table(Learned(Believed(item)))
<1> DEFINE b == Believed(item)
           e == [addr |-> b.src, port |-> b.in]
<1>1. b.in \in Ports /\ b.src \in Addrs
  BY BelievedFields
<1> SUFFICES Table(Learned(b))
  OBVIOUS
<1> HIDE DEF b
<1>2. CASE Learns(b)
  <2>1. Learned(b) = [k \in DOMAIN fwd \cup {Key(b.src)} |-> IF k = Key(b.src) THEN e ELSE fwd[k]]
    BY <1>2 DEF Learned
  <2>2. e \in [addr : Addrs, port : Ports] /\ Key(b.src) = Key(e.addr)
    BY <1>1
  <2> QED
    BY <2>1, <2>2 DEF Table
<1>3. CASE ~Learns(b)
  BY <1>3 DEF Learned
<1> QED
  BY <1>2, <1>3

LEMMA LookUpType ==
  ASSUME NEW t, Table(t), NEW dst \in Addrs \cup {All}
  PROVE  LookUp(t, dst) \in Ports \cup {Broadcast}
<1>1. CASE dst = All
  BY <1>1 DEF LookUp
<1>2. CASE dst # All
  <2>1. dst \in Nat /\ dst % NumPorts \in Ports
    BY <1>2, AddrTypes
  <2>2. HasRoute(dst) => Routes[dst] \in Ports
    BY CoreAssumption DEF HasRoute
  <2>3. \A k \in DOMAIN t : t[k].port \in Ports
    BY DEF Table
  <2> QED
    BY <1>2, <2>1, <2>2, <2>3 DEF LookUp
<1> QED
  BY <1>1, <1>2

(* Accepting a packet. *)
LEMMA AcceptFields ==
  ASSUME PipelineOK, HashAccept, hash.engine = 0
  PROVE  LET item == Head(rxToHash)
             pkt  == Believed(item)
             held == WithPort(item, LookUp(Learned(pkt), pkt.dst))
         IN /\ rxToHash # <<>> /\ item \in Carried /\ hash.phase = "idle"
            /\ held \in CarriedTo /\ held.in = item.in /\ held.meta = item.meta
            /\ held.data = item.data /\ held.port = LookUp(Learned(pkt), Meta(item).dst)
            /\ hash' \in HashStates /\ hash'.item = held /\ Holding(hash')
            /\ hash'.phase \in {"processing", "sending"} => hash'.left > 0
            /\ rxToHash' = Tail(rxToHash) /\ fwd' = Learned(pkt) /\ Table(fwd')
            /\ UNCHANGED hashToBuffer
<1> DEFINE item == Head(rxToHash)
           pkt == Believed(item)
           held == WithPort(item, LookUp(Learned(pkt), pkt.dst))
           n == HashLatency - 1
           f == IF HashLatency = 1 THEN "ready" ELSE "processing"
<1>1. /\ hash.phase = "idle" /\ rxToHash # <<>>
      /\ hash' = [phase |-> f, left |-> n, item |-> held, ii |-> HashII, engine |-> HashII - 1]
      /\ rxToHash' = Tail(rxToHash) /\ fwd' = Learned(pkt) /\ UNCHANGED hashToBuffer
  BY DEF HashAccept, HashAcceptFrom, Believed
<1>2. item \in Carried
  BY <1>1, Taken DEF PipelineOK, QueuesOK
<1>3. item.in \in Ports /\ item.meta \in Arrived /\ item.data \in Seq(ArrivedWords) \ {<<>>}
  BY <1>2 DEF Carried
<1>4. Table(Learned(pkt))
  BY <1>3, LearnedTable DEF PipelineOK, HashOK
<1>5. pkt.dst \in Addrs \cup {All} /\ pkt.dst = Meta(item).dst
  BY <1>3, BelievedFields DEF PipelineOK
<1>6. LookUp(Learned(pkt), pkt.dst) \in Ports \cup {Broadcast}
  BY <1>4, <1>5, LookUpType
<1>7. /\ held \in CarriedTo /\ held.in = item.in /\ held.meta = item.meta
      /\ held.data = item.data /\ held.port = LookUp(Learned(pkt), pkt.dst)
  BY <1>3, <1>6 DEF WithPort, CarriedTo
<1>8. /\ n \in Nat /\ f \in Phases /\ f \in {"ready", "processing"}
      /\ f = "processing" => n > 0
      /\ HashII \in 0 .. HashII /\ HashII - 1 \in 0 .. HashII - 1
  BY SizesPositive DEF Phases
<1> HIDE DEF held, n, f
<1>9. /\ hash' \in HashStates /\ hash'.item = held /\ Holding(hash')
      /\ hash'.phase \in {"processing", "sending"} => hash'.left > 0
  BY <1>1, <1>7, <1>8 DEF HashStates, Holding
<1> QED
  BY <1>1, <1>2, <1>4, <1>5, <1>7, <1>9 DEF held

LEMMA HashSendFields ==
  ASSUME PipelineOK, HashSend
  PROVE  /\ hash.item \in CarriedTo /\ hash.phase = "ready" /\ Holding(hash)
         /\ hash' \in HashStates /\ hash'.phase = "sending" /\ hash'.left > 0
         /\ hashToBuffer' = Append(hashToBuffer, hash.item)
         /\ UNCHANGED <<rxToHash, fwd>>
<1> DEFINE n == Cycles(Len(hash.item.data))
<1>1. hash.item \in CarriedTo /\ hash.phase = "ready" /\ Holding(hash) /\ hash \in HashStates
  BY DEF HashSend, PipelineOK, HashOK, Holding
<1>2. n \in Nat \ {0}
  BY <1>1, CyclesPositive DEF CarriedTo
<1>3. hash' = [hash EXCEPT !.phase = "sending", !.left = n, !.item = NoItem]
  BY DEF HashSend
<1> HIDE DEF n
<1>4. n \in Nat /\ n > 0
  BY <1>2
<1>5. hash' \in HashStates /\ hash'.phase = "sending" /\ hash'.left > 0
  BY <1>1, <1>3, <1>4 DEF HashStates, Phases
<1> QED
  BY <1>1, <1>5 DEF HashSend

LEMMA HashProcessFields ==
  ASSUME PipelineOK, HashProcess
  PROVE  /\ hash' \in HashStates /\ hash'.item = hash.item
         /\ Holding(hash) /\ Holding(hash')
         /\ hash'.phase \in {"processing", "sending"} => hash'.left > 0
         /\ UNCHANGED <<rxToHash, hashToBuffer, fwd>>
<1> DEFINE n == hash.left - 1
           f == IF hash.left = 1 THEN "ready" ELSE hash.phase
<1>1. hash.phase = "processing" /\ hash.left > 0 /\ hash \in HashStates /\ hash.left \in Nat
  BY DEF HashProcess, PipelineOK, HashOK, HashStates
<1>2. n \in Nat /\ f \in {"ready", "processing"} /\ (f = "processing" => n > 0)
  BY <1>1
<1>3. hash' = [hash EXCEPT !.left = n, !.phase = f]
  BY DEF HashProcess
<1> HIDE DEF n, f
<1>4. /\ hash' \in HashStates /\ hash'.item = hash.item /\ hash'.phase = f /\ hash'.left = n
  BY <1>1, <1>2, <1>3 DEF HashStates, Phases
<1> QED
  BY <1>1, <1>2, <1>4 DEF HashProcess, Holding

(* What the four alternatives of the stage do to the queues and the table. *)
LEMMA HashTyped ==
  ASSUME PipelineOK, ProcessHashStage
  PROVE  PipelineOK'
<1>1. UNCHANGED <<vars, received, rx, sched, out, offeredAs>>
  BY DEF ProcessHashStage, history
<1>2. /\ Arrived' = Arrived /\ ArrivedWords' = ArrivedWords
      /\ Carried' = Carried /\ CarriedTo' = CarriedTo
      /\ RxStates' = RxStates /\ HashStates' = HashStates
  BY <1>1, SameArrivals
<1>3. rxToHash \in Seq(Carried) /\ hashToBuffer \in Seq(CarriedTo) /\ Table(fwd) /\ hash \in HashStates
  BY DEF PipelineOK, QueuesOK, HashOK
<1>4. /\ rxToHash' \in Seq(Carried) /\ hashToBuffer' \in Seq(CarriedTo)
      /\ hash' \in HashStates /\ Table(fwd')
      /\ Holding(hash') => hash'.item \in CarriedTo
      /\ hash'.phase \in {"processing", "sending"} => hash'.left > 0
  <2>1. CASE HashAccept /\ hash.engine = 0
    BY <2>1, <1>3, AcceptFields, Taken
  <2>2. CASE HashAccept /\ hash.engine # 0
    <3>1. /\ hash.engine \in 0 .. HashII - 1 /\ HashII \in Nat
          /\ hash.phase = "idle"
      BY <2>2, <1>3, SizesPositive DEF HashStates, HashAccept, HashAcceptFrom
    <3>2. hash.engine - 1 \in 0 .. HashII - 1 /\ hash.engine > 0
      BY <2>2, <3>1
    <3>3. /\ hash' = [hash EXCEPT !.engine = @ - 1]
          /\ UNCHANGED <<rxToHash, hashToBuffer, fwd>>
      BY <2>2, <3>2 DEF HashAccept, HashAcceptFrom
    <3>4. hash' \in HashStates /\ hash'.phase = "idle"
      BY <3>1, <3>2, <3>3, <1>3 DEF HashStates
    <3> QED
      BY <3>3, <3>4, <1>3 DEF Holding
  <2>3. CASE HashProcess
    BY <2>3, <1>3, HashProcessFields DEF PipelineOK, HashOK
  <2>4. CASE HashSend
    <3>1. /\ hash.item \in CarriedTo /\ hash' \in HashStates
          /\ hash'.phase = "sending" /\ hash'.left > 0
          /\ hashToBuffer' = Append(hashToBuffer, hash.item)
          /\ UNCHANGED <<rxToHash, fwd>>
      BY <2>4, HashSendFields
    <3>2. hashToBuffer' \in Seq(CarriedTo)
      BY <3>1, <1>3, Appended
    <3>3. ~Holding(hash')
      BY <3>1 DEF Holding
    <3> QED
      BY <3>1, <3>2, <3>3, <1>3
  <2>5. CASE HashWait
    BY <2>5, <1>3 DEF HashWait, PipelineOK, HashOK
  <2> QED
    BY <2>1, <2>2, <2>3, <2>4, <2>5 DEF ProcessHashStage
<1>5. QueuesOK' /\ HashOK'
  BY <1>4, <1>2 DEF QueuesOK, HashOK, Holding, Table, Key
<1>6. TypeOK' /\ OutOK' /\ ArrivalsOK' /\ OfferedOK' /\ SchedOK' /\ RxOK'
  BY <1>1, <1>2 DEF PipelineOK, vars, TypeOK, OutOK, ArrivalsOK, OfferedOK, SchedOK, RxOK,
                    Holding
<1> QED
  BY <1>5, <1>6 DEF PipelineOK

-------------------------------------------------------------------------------
(* The buffer takes the packet that has waited longest. *)
LEMMA EnqueueFields ==
  ASSUME PipelineOK, ProcessBufferEnqueue, hashToBuffer # <<>>
  PROVE  LET item == Head(hashToBuffer)
         IN /\ item \in CarriedTo /\ item.in \in Ports /\ item.port \in Ports \cup {Broadcast}
            /\ item.meta \in Arrived /\ Len(item.data) \in Nat \ {0}
            /\ EnqueuePacket(item.in, item.port, Len(item.data))
            /\ offered \in Nat /\ offered' = offered + 1
            /\ request' = <<item.in, OutputPorts(item.in, item.port)>>
            /\ offeredAs' = Append(offeredAs, item)
            /\ hashToBuffer' = Tail(hashToBuffer)
            /\ OutputPorts(item.in, item.port) \subseteq Ports
            /\ taken' = IF HasRoom(item.in, item.port, Len(item.data))
                        THEN taken \cup {<<offered + 1, item.in, o>> :
                                            o \in OutputPorts(item.in, item.port)}
                        ELSE taken
<1> DEFINE item == Head(hashToBuffer)
<1>1. item \in CarriedTo
  BY Taken DEF PipelineOK, QueuesOK
<1>2. item.in \in Ports /\ item.port \in Ports \cup {Broadcast} /\ item.meta \in Arrived
  BY <1>1 DEF CarriedTo
<1>3. Len(item.data) \in Nat \ {0}
  BY <1>1, Taken DEF CarriedTo
<1>4. OutputPorts(item.in, item.port) \subseteq Ports
  BY <1>2, OutputPortsType
<1>5. /\ EnqueuePacket(item.in, item.port, Len(item.data))
      /\ offeredAs' = Append(offeredAs, item)
      /\ hashToBuffer' = Tail(hashToBuffer)
      /\ taken' = IF HasRoom(item.in, item.port, Len(item.data))
                  THEN taken \cup {<<offered + 1, item.in, o>> :
                                      o \in OutputPorts(item.in, item.port)}
                  ELSE taken
  BY DEF ProcessBufferEnqueue
<1>6. /\ offered \in Nat /\ offered' = offered + 1
      /\ request' = <<item.in, OutputPorts(item.in, item.port)>>
  BY <1>5 DEF EnqueuePacket, PipelineOK, TypeOK
<1> HIDE DEF item
<1> QED
  BY <1>1, <1>2, <1>3, <1>4, <1>5, <1>6 DEF item

LEMMA EnqueueStageTyped ==
  ASSUME PipelineOK, ProcessBufferEnqueue
  PROVE  PipelineOK'
<1>1. UNCHANGED <<received, rx, rxToHash, hash, fwd, sched, out>>
  BY DEF ProcessBufferEnqueue
<1>2. /\ Arrived' = Arrived /\ ArrivedWords' = ArrivedWords
      /\ Carried' = Carried /\ CarriedTo' = CarriedTo
      /\ RxStates' = RxStates /\ HashStates' = HashStates
  BY <1>1, SameArrivals
<1>3. TypeOK' /\ hashToBuffer' \in Seq(CarriedTo) /\ OfferedOK'
  <2>1. CASE hashToBuffer = <<>>
    BY <2>1, <1>2 DEF ProcessBufferEnqueue, PipelineOK, QueuesOK, OfferedOK, vars, TypeOK
  <2>2. CASE hashToBuffer # <<>>
    <3> DEFINE item == Head(hashToBuffer)
    <3>1. /\ item \in CarriedTo /\ item.in \in Ports /\ item.port \in Ports \cup {Broadcast}
          /\ Len(item.data) \in Nat \ {0}
          /\ EnqueuePacket(item.in, item.port, Len(item.data))
          /\ offered' = offered + 1 /\ offeredAs' = Append(offeredAs, item)
          /\ hashToBuffer' = Tail(hashToBuffer)
      BY <2>2, EnqueueFields
    <3> HIDE DEF item
    <3>2. TypeOK'
      BY <3>1, EnqueueTyped DEF PipelineOK
    <3>3. hashToBuffer' \in Seq(CarriedTo)
      BY <2>2, <3>1, Taken DEF PipelineOK, QueuesOK
    <3>4. offeredAs' \in Seq(CarriedTo) /\ Len(offeredAs') = offered'
      BY <3>1, Appended DEF PipelineOK, OfferedOK
    <3> QED
      BY <3>2, <3>3, <3>4, <1>2 DEF OfferedOK
  <2> QED
    BY <2>1, <2>2
<1>4. QueuesOK'
  BY <1>1, <1>2, <1>3 DEF PipelineOK, QueuesOK
<1>5. ArrivalsOK' /\ RxOK' /\ HashOK' /\ SchedOK' /\ OutOK'
  BY <1>1, <1>2 DEF PipelineOK, OutOK, ArrivalsOK, SchedOK, RxOK, HashOK, Holding, Table, Key
<1> QED
  BY <1>3, <1>4, <1>5 DEF PipelineOK

-------------------------------------------------------------------------------
(* The matchings of a cycle, seen through the instance of SwitchCore. *)
LEMMA SameMatchings ==
  ASSUME NEW t, NEW len, NEW a, NEW b, NEW m
  PROVE  /\ S!Matches(t, len, a, b) = Matching!Matches(t, len, a, b)
         /\ S!InPointers(t, len, a, m) = Matching!InPointers(t, len, a, m)
         /\ S!OutPointers(t, len, b, m) = Matching!OutPointers(t, len, b, m)
<1>1. S!Matches(t, len, a, b) = Matching!Matches(t, len, a, b)
  BY DEF S!Matches, S!RRMatches, S!Ready, S!FirstFrom, S!Offset, S!EDRRMMatches, S!Requests,
         S!FirstPerOutput, S!ISlipRounds, S!ISlipIteration, S!Preferred, S!Ports,
         Matching!Matches, Matching!RRMatches, Matching!Ready, Matching!FirstFrom,
         Matching!Offset, Matching!EDRRMMatches, Matching!Requests, Matching!FirstPerOutput,
         Matching!ISlipRounds, Matching!ISlipIteration, Matching!Preferred, Matching!Ports
<1>2. S!InPointers(t, len, a, m) = Matching!InPointers(t, len, a, m)
  BY DEF S!InPointers, S!EDRRMInPointers, S!Succ, S!Ports,
         Matching!InPointers, Matching!EDRRMInPointers, Matching!Succ, Matching!Ports
<1>3. S!OutPointers(t, len, b, m) = Matching!OutPointers(t, len, b, m)
  BY DEF S!OutPointers, S!EDRRMOutPointers, S!RRPointers, S!Succ, S!Ready, S!FirstFrom,
         S!Offset, S!Ports,
         Matching!OutPointers, Matching!EDRRMOutPointers, Matching!RRPointers, Matching!Succ,
         Matching!Ready, Matching!FirstFrom, Matching!Offset, Matching!Ports
<1> QED
  BY <1>1, <1>2, <1>3

Chosen == S!Matches(SchedulerType, Lengths, sched.inPtr, sched.outPtr)

LEMMA LengthsType ==
  ASSUME TypeOK
  PROVE  /\ Lengths \in [Ports -> [Ports -> Nat]]
         /\ \A i, o \in Ports : Lengths[i][o] = Len(voq[i][o])
         /\ \A i, o \in Ports : Lengths[i][o] > 0 <=> voq[i][o] # <<>>
<1>1. \A i, o \in Ports : voq[i][o] \in Seq(Entry)
  BY DEF TypeOK
<1>2. \A i, o \in Ports : /\ Len(voq[i][o]) \in Nat
                          /\ Len(voq[i][o]) > 0 <=> voq[i][o] # <<>>
  <2> SUFFICES ASSUME NEW q \in Seq(Entry) PROVE Len(q) \in Nat /\ (Len(q) > 0 <=> q # <<>>)
    BY <1>1
  <2>1. Len(q) \in Nat /\ (q # <<>> => Len(q) > 0) /\ Len(<<>>) = 0
    BY Taken
  <2> QED
    BY <2>1
<1> QED
  BY <1>2 DEF Lengths

(* A cycle dequeues from queues that hold a packet, one for each output,   *)
(* and leaves pointers to ports.                                           *)
LEMMA ChosenDequeuable ==
  ASSUME TypeOK, SchedOK
  PROVE  /\ Chosen \in SUBSET (Ports \X Ports)
         /\ \A m \in Chosen : m[1] \in Ports /\ m[2] \in Ports /\ voq[m[1]][m[2]] # <<>>
         /\ \A m, n \in Chosen : m[2] = n[2] => m = n
         /\ S!InPointers(SchedulerType, Lengths, sched.inPtr, Chosen) \in [Ports -> Ports]
         /\ S!OutPointers(SchedulerType, Lengths, sched.outPtr, Chosen) \in [Ports -> Ports]
         /\ Cardinality(Chosen) \in Nat
<1>1. /\ SchedulerType \in Matching!SchedulerTypes /\ Lengths \in Matching!QueueLengths
      /\ sched.inPtr \in Matching!Pointers /\ sched.outPtr \in Matching!Pointers
  <2>1. Matching!Ports = Ports
    BY DEF Matching!Ports, Ports
  <2> QED
    BY <2>1, LengthsType, CoreAssumption
       DEF SchedOK, SchedStates, Matching!QueueLengths, Matching!Pointers,
           Matching!SchedulerTypes, S!SchedulerTypes
<1>2. Matching!Dequeuable(SchedulerType, Lengths, Chosen)
  <2>1. Chosen = Matching!Matches(SchedulerType, Lengths, sched.inPtr, sched.outPtr)
    BY SameMatchings DEF Chosen
  <2> QED
    BY <1>1, <2>1, Matching!MatchesDequeuable, BufferAssumption
<1>3. /\ S!InPointers(SchedulerType, Lengths, sched.inPtr, Chosen) \in [Ports -> Ports]
      /\ S!OutPointers(SchedulerType, Lengths, sched.outPtr, Chosen) \in [Ports -> Ports]
  <2>1. /\ Matching!InPointers(SchedulerType, Lengths, sched.inPtr, Chosen) \in Matching!Pointers
        /\ Matching!OutPointers(SchedulerType, Lengths, sched.outPtr, Chosen) \in Matching!Pointers
    BY <1>1, <1>2, Matching!PointersType, BufferAssumption
  <2>2. Matching!Pointers = [Ports -> Ports]
    BY DEF Matching!Pointers, Matching!Ports, Ports
  <2> QED
    BY <2>1, <2>2, SameMatchings
<1>4. /\ Chosen \in SUBSET (Ports \X Ports)
      /\ \A m \in Chosen : Lengths[m[1]][m[2]] > 0
      /\ \A m, n \in Chosen : m[2] = n[2] => m = n
  BY <1>2 DEF Matching!Dequeuable, Matching!Ports, Ports
<1>5. \A m \in Chosen : m[1] \in Ports /\ m[2] \in Ports /\ voq[m[1]][m[2]] # <<>>
  BY <1>4, LengthsType
<1>6. Cardinality(Chosen) \in Nat
  <2>1. IsFiniteSet(Ports)
    BY PortsFinite
  <2>2. IsFiniteSet(Ports \X Ports)
    BY <2>1, FS_Product
  <2> QED
    BY <2>2, <1>4, FS_Subset, FS_CardinalityType
<1> QED
  BY <1>3, <1>4, <1>5, <1>6

(* What a cycle of the scheduler takes from the queues. *)
Listed(m) == [port |-> m[2], entry |-> Head(voq[m[1]][m[2]])]

LEMMA ScheduleFields ==
  ASSUME PipelineOK, Schedule
  PROVE  /\ sched.phase = "idle" /\ sched.list = {}
         /\ \A i, o \in Ports :
              voq'[i][o] = IF <<i, o>> \in Chosen THEN Tail(voq[i][o]) ELSE voq[i][o]
         /\ voq' \in [Ports -> [Ports -> Seq(Entry)]]
         /\ used' \in [Cells -> Nat] /\ \A c \in Cells : used'[c] <= used[c]
         /\ stats' \in [Counters -> Int]
         /\ UNCHANGED <<bufferType, peak, offered, request, out>>
         /\ \A m \in Chosen : Head(voq[m[1]][m[2]]) \in Entry /\ m = <<m[1], m[2]>>
         /\ sched' \in SchedStates /\ sched'.list = {Listed(m) : m \in Chosen}
         /\ sched'.phase \in {"processing", "ready"}
         /\ sched'.phase = IF SchedLatency = 1 THEN "ready" ELSE "processing"
         /\ sched'.left = SchedLatency - 1
<1> DEFINE Freed(c) == {m \in Chosen : Cell(m[1], m[2]) = c}
           First(c) == CHOOSE m \in Freed(c) : TRUE
           WordsFreed(c) == Head(voq[First(c)[1]][First(c)[2]]).words
<1>1. /\ sched.phase = "idle"
      /\ DequeueMatches(Chosen)
      /\ sched' = [phase  |-> IF SchedLatency = 1 THEN "ready" ELSE "processing",
                   left   |-> SchedLatency - 1,
                   list   |-> {Listed(m) : m \in Chosen},
                   ii     |-> SchedII,
                   inPtr  |-> S!InPointers(SchedulerType, Lengths, sched.inPtr, Chosen),
                   outPtr |-> S!OutPointers(SchedulerType, Lengths, sched.outPtr, Chosen)]
      /\ UNCHANGED out
  BY DEF Schedule, Chosen, Listed
<1>2. /\ Chosen \in SUBSET (Ports \X Ports)
      /\ \A m \in Chosen : m[1] \in Ports /\ m[2] \in Ports /\ voq[m[1]][m[2]] # <<>>
      /\ S!InPointers(SchedulerType, Lengths, sched.inPtr, Chosen) \in [Ports -> Ports]
      /\ S!OutPointers(SchedulerType, Lengths, sched.outPtr, Chosen) \in [Ports -> Ports]
      /\ Cardinality(Chosen) \in Nat
  BY ChosenDequeuable DEF PipelineOK
<1>3. /\ voq' = [i \in Ports |-> [o \in Ports |->
                   IF <<i, o>> \in Chosen THEN Tail(voq[i][o]) ELSE voq[i][o]]]
      /\ used' = [c \in Cells |-> IF Freed(c) = {} THEN used[c]
                                  ELSE MaxOf(0, used[c] - WordsFreed(c))]
      /\ stats' = [stats EXCEPT !["dequeued"] = @ + Cardinality(Chosen),
                                !["occupancy"] = @ - Cardinality(Chosen)]
      /\ UNCHANGED <<bufferType, peak, offered, request>>
  BY <1>1 DEF DequeueMatches
<1>4. \A i, o \in Ports : voq[i][o] \in Seq(Entry)
  BY DEF PipelineOK, TypeOK
<1>5. \A i, o \in Ports : voq[i][o] # <<>> => /\ Tail(voq[i][o]) \in Seq(Entry)
                                              /\ Head(voq[i][o]) \in Entry
  BY <1>4, Taken
<1>6. voq' \in [Ports -> [Ports -> Seq(Entry)]]
  <2>1. \A i, o \in Ports : <<i, o>> \in Chosen => voq[i][o] # <<>>
    BY <1>2
  <2>2. \A i, o \in Ports : (IF <<i, o>> \in Chosen THEN Tail(voq[i][o]) ELSE voq[i][o])
                              \in Seq(Entry)
    BY <1>4, <1>5, <2>1
  <2> QED
    BY <1>3, <2>2
<1>7. \A m \in Chosen : Head(voq[m[1]][m[2]]) \in Entry /\ m = <<m[1], m[2]>>
  BY <1>2, <1>5
<1>8. \A c \in Cells : Freed(c) # {} => WordsFreed(c) \in Nat
  <2> TAKE c \in Cells
  <2> HAVE Freed(c) # {}
  <2>1. First(c) \in Chosen
    OBVIOUS
  <2> QED
    BY <2>1, <1>7 DEF Entry
<1>9. used' \in [Cells -> Nat] /\ \A c \in Cells : used'[c] <= used[c]
  <2>1. used \in [Cells -> Nat]
    BY DEF PipelineOK, TypeOK
  <2> HIDE DEF Freed, WordsFreed
  <2>2. \A a, w \in Nat : MaxOf(0, a - w) \in Nat /\ MaxOf(0, a - w) <= a
    BY DEF MaxOf
  <2>3. \A c \in Cells : Freed(c) # {} => /\ MaxOf(0, used[c] - WordsFreed(c)) \in Nat
                                          /\ MaxOf(0, used[c] - WordsFreed(c)) <= used[c]
    BY <2>1, <2>2, <1>8
  <2> QED
    BY <1>3, <2>1, <2>3
<1>10. stats' \in [Counters -> Int]
  <2>1. stats \in [Counters -> Int]
    BY DEF PipelineOK, TypeOK
  <2>2. \A a \in Int, n \in Nat : a + n \in Int /\ a - n \in Int
    OBVIOUS
  <2> QED
    BY <1>2, <1>3, <2>1, <2>2 DEF Counters
<1>11. sched.list = {}
  BY <1>1 DEF PipelineOK, SchedOK
<1>12. sched' \in SchedStates
  <2>1. {Listed(m) : m \in Chosen} \in SUBSET [port : Ports, entry : Entry]
    BY <1>2, <1>7 DEF Listed
  <2>2. SchedLatency - 1 \in Nat /\ SchedII \in 0 .. SchedII
    BY SizesPositive
  <2> QED
    BY <1>1, <1>2, <2>1, <2>2 DEF SchedStates
<1>13. \A i, o \in Ports :
         voq'[i][o] = IF <<i, o>> \in Chosen THEN Tail(voq[i][o]) ELSE voq[i][o]
  BY <1>3
<1> QED
  BY <1>1, <1>3, <1>6, <1>7, <1>9, <1>10, <1>11, <1>12, <1>13

Idling == {t \in sched.list : out[t.port].entry = NoEntry}
LoadOf(t) == [entry |-> t.entry, left |-> t.entry.words]

(* Every output that was idle and is listed is loaded. *)
LEMMA DispatchFields ==
  ASSUME PipelineOK, Dispatch
  PROVE  /\ sched.phase = "ready" /\ UNCHANGED vars
         /\ sched' = IF Idling = sched.list THEN [sched EXCEPT !.phase = "idle", !.list = {}]
                                            ELSE sched
         /\ \A o \in Ports : (\A t \in Idling : t.port # o) => out'[o] = out[o]
         /\ \A o \in Ports : (\E t \in Idling : t.port = o) =>
              out[o].entry = NoEntry /\ \E t \in Idling : t.port = o /\ out'[o] = LoadOf(t)
         /\ OutOK'
<1>1. /\ sched.phase = "ready" /\ UNCHANGED vars
      /\ sched' = IF Idling = sched.list THEN [sched EXCEPT !.phase = "idle", !.list = {}]
                                         ELSE sched
      /\ out' = [o \in Ports |-> IF \E t \in Idling : t.port = o
                                 THEN LoadOf(CHOOSE t \in Idling : t.port = o) ELSE out[o]]
  BY DEF Dispatch, Idling, LoadOf
<1>2. \A o \in Ports : (\E t \in Idling : t.port = o) =>
        out[o].entry = NoEntry /\ \E t \in Idling : t.port = o /\ out'[o] = LoadOf(t)
  <2> TAKE o \in Ports
  <2> HAVE \E t \in Idling : t.port = o
  <2> DEFINE t == CHOOSE t \in Idling : t.port = o
  <2>1. t \in Idling /\ t.port = o
    OBVIOUS
  <2>2. out'[o] = LoadOf(t)
    BY <1>1
  <2> HIDE DEF t
  <2>3. out[t.port].entry = NoEntry
    BY <2>1 DEF Idling
  <2> QED
    BY <2>1, <2>2, <2>3
<1>3. \A o \in Ports : (\A t \in Idling : t.port # o) => out'[o] = out[o]
  BY <1>1
<1>4. \A t \in Idling : LoadOf(t) \in [entry : Entry \cup {NoEntry}, left : Nat]
  BY DEF Idling, LoadOf, PipelineOK, SchedOK, SchedStates, Entry
<1>5. \A o \in Ports : out'[o] \in [entry : Entry \cup {NoEntry}, left : Nat]
  BY <1>2, <1>3, <1>4 DEF PipelineOK, OutOK
<1>6. OutOK'
  BY <1>1, <1>5 DEF OutOK
<1> QED
  BY <1>1, <1>2, <1>3, <1>6

LEMMA ScheduleProcessFields ==
  ASSUME PipelineOK, ScheduleProcess
  PROVE  /\ sched.phase = "processing" /\ sched.left > 0 /\ sched.left \in Nat
         /\ sched' \in SchedStates /\ sched'.list = sched.list
         /\ sched'.left = sched.left - 1
         /\ sched'.phase = IF sched.left = 1 THEN "ready" ELSE "processing"
         /\ UNCHANGED <<vars, out>>
<1> DEFINE n == sched.left - 1
           f == IF sched.left = 1 THEN "ready" ELSE "processing"
<1>1. /\ sched.phase = "processing" /\ sched.left > 0 /\ sched \in SchedStates
      /\ sched.left \in Nat
  BY DEF ScheduleProcess, PipelineOK, SchedOK, SchedStates
<1>2. n \in Nat /\ f \in {"ready", "processing"}
  BY <1>1
<1>3. sched' = [sched EXCEPT !.left = n, !.phase = f]
  BY <1>1 DEF ScheduleProcess
<1> HIDE DEF n, f
<1>4. sched' \in SchedStates /\ sched'.list = sched.list /\ sched'.left = n /\ sched'.phase = f
  BY <1>1, <1>2, <1>3 DEF SchedStates
<1> QED
  BY <1>1, <1>4 DEF ScheduleProcess, n, f

LEMMA ScheduleStageTyped ==
  ASSUME PipelineOK, ProcessSchedulerStage
  PROVE  PipelineOK'
<1>1. UNCHANGED <<received, rx, rxToHash, hashToBuffer, hash, fwd, offeredAs>>
  BY DEF ProcessSchedulerStage, history
<1>2. /\ Arrived' = Arrived /\ ArrivedWords' = ArrivedWords
      /\ Carried' = Carried /\ CarriedTo' = CarriedTo
      /\ RxStates' = RxStates /\ HashStates' = HashStates
  BY <1>1, SameArrivals
<1>3. TypeOK' /\ SchedOK' /\ OutOK' /\ offered' = offered
  <2>1. CASE Schedule
    <3>1. /\ voq' \in [Ports -> [Ports -> Seq(Entry)]] /\ used' \in [Cells -> Nat]
          /\ stats' \in [Counters -> Int] /\ UNCHANGED <<bufferType, peak, offered, request, out>>
          /\ sched' \in SchedStates
          /\ sched'.phase = IF SchedLatency = 1 THEN "ready" ELSE "processing"
          /\ sched'.left = SchedLatency - 1
      BY <2>1, ScheduleFields
    <3>2. SchedOK'
      BY <3>1, SizesPositive DEF SchedOK
    <3> QED
      BY <3>1, <3>2 DEF PipelineOK, TypeOK, OutOK
  <2>2. CASE ScheduleProcess
    <3>1. /\ sched.left > 0 /\ sched.left \in Nat
          /\ sched' \in SchedStates /\ sched'.left = sched.left - 1
          /\ sched'.phase = IF sched.left = 1 THEN "ready" ELSE "processing"
          /\ UNCHANGED <<vars, out>>
      BY <2>2, ScheduleProcessFields
    <3>2. SchedOK'
      BY <3>1 DEF SchedOK
    <3> QED
      BY <3>1, <3>2 DEF PipelineOK, TypeOK, OutOK, vars
  <2>3. CASE Dispatch
    <3>1. /\ sched.phase = "ready" /\ UNCHANGED vars /\ OutOK'
          /\ sched' = IF Idling = sched.list THEN [sched EXCEPT !.phase = "idle", !.list = {}]
                                             ELSE sched
      BY <2>3, DispatchFields
    <3>2. SchedOK'
      BY <3>1 DEF SchedOK, PipelineOK, SchedStates
    <3> QED
      BY <3>1, <3>2 DEF PipelineOK, TypeOK, vars
  <2>4. CASE ScheduleWait
    BY <2>4 DEF ScheduleWait, PipelineOK, TypeOK, vars, SchedOK, OutOK
  <2> QED
    BY <2>1, <2>2, <2>3, <2>4 DEF ProcessSchedulerStage
<1>4. ArrivalsOK' /\ RxOK' /\ HashOK' /\ QueuesOK' /\ OfferedOK'
  BY <1>1, <1>2, <1>3 DEF PipelineOK, ArrivalsOK, RxOK, HashOK, QueuesOK, OfferedOK, Holding,
                          Table, Key
<1> QED
  BY <1>3, <1>4 DEF PipelineOK

LEMMA OutputTyped ==
  ASSUME PipelineOK, NEW o \in Ports, ProcessOutputStage(o)
  PROVE  PipelineOK'
<1>1. UNCHANGED <<vars, received, rx, rxToHash, hashToBuffer, hash, fwd, sched, offeredAs>>
  BY DEF ProcessOutputStage
<1>2. /\ Arrived' = Arrived /\ ArrivedWords' = ArrivedWords
      /\ Carried' = Carried /\ CarriedTo' = CarriedTo
      /\ RxStates' = RxStates /\ HashStates' = HashStates
  BY <1>1, SameArrivals
<1>3. OutOK'
  <2>1. out \in [Ports -> [entry : Entry \cup {NoEntry}, left : Nat]]
    BY DEF PipelineOK, OutOK
  <2>2. CASE Transmit(o)
    BY <2>1, <2>2 DEF Transmit, OutOK
  <2>3. CASE Transfer(o)
    <3> DEFINE n == out[o].left - 1
    <3>1. n \in Nat /\ out' = [out EXCEPT ![o].left = n]
      BY <2>1, <2>3 DEF Transfer
    <3> HIDE DEF n
    <3> QED
      BY <3>1, <2>1 DEF OutOK
  <2>4. CASE out' = out
    BY <2>1, <2>4 DEF OutOK
  <2> QED
    BY <2>2, <2>3, <2>4 DEF ProcessOutputStage
<1>4. TypeOK' /\ ArrivalsOK' /\ RxOK' /\ HashOK' /\ QueuesOK' /\ OfferedOK' /\ SchedOK'
  BY <1>1, <1>2 DEF PipelineOK, ArrivalsOK, RxOK, HashOK, QueuesOK, OfferedOK, Holding,
                    Table, Key, SchedOK, TypeOK, vars
<1> QED
  BY <1>3, <1>4 DEF PipelineOK

LEMMA StutterTyped ==
  ASSUME PipelineOK, UNCHANGED coreVars
  PROVE  PipelineOK'
<1>1. UNCHANGED <<vars, received, rx, rxToHash, hashToBuffer, hash, fwd, sched, out, offeredAs>>
  BY DEF coreVars, pipeline, history
<1>2. /\ Arrived' = Arrived /\ ArrivedWords' = ArrivedWords
      /\ Carried' = Carried /\ CarriedTo' = CarriedTo
      /\ RxStates' = RxStates /\ HashStates' = HashStates
  BY <1>1, SameArrivals
<1> QED
  BY <1>1, <1>2 DEF PipelineOK, ArrivalsOK, RxOK, HashOK, QueuesOK, OfferedOK, Holding,
                    Table, Key, SchedOK, OutOK, TypeOK, vars

LEMMA StepTyped ==
  ASSUME PipelineOK, [CoreNext]_coreVars
  PROVE  PipelineOK'
<1>1. ASSUME NEW pkt \in Traffic, ReceivePacket(pkt) PROVE PipelineOK'
  BY <1>1, ReceiveTyped
<1>2. CASE ResetSwitch
  <2>1. AtRest'
    BY <1>2, ResetIsRest DEF PipelineOK
  <2> QED
    BY <2>1, RestTyped, PTL
<1>3. CASE TickAllModules
  BY <1>3, TickTyped
<1>4. CASE ProcessRxStage
  BY <1>4, RxTyped
<1>5. CASE ProcessHashStage
  BY <1>5, HashTyped
<1>6. CASE ProcessBufferEnqueue
  BY <1>6, EnqueueStageTyped
<1>7. CASE ProcessSchedulerStage
  BY <1>7, ScheduleStageTyped
<1>8. ASSUME NEW o \in Ports, ProcessOutputStage(o) PROVE PipelineOK'
  BY <1>8, OutputTyped
<1>9. CASE UNCHANGED coreVars
  BY <1>9, StutterTyped
<1> QED
  BY <1>1, <1>2, <1>3, <1>4, <1>5, <1>6, <1>7, <1>8, <1>9 DEF CoreNext, Cycle

LEMMA PipelineTyped == CoreSpec => []PipelineOK
<1>1. CoreInit => PipelineOK
  BY RestTyped DEF CoreInit, AtRest
<1>2. PipelineOK /\ [CoreNext]_coreVars => PipelineOK'
  BY StepTyped
<1> QED
  BY <1>1, <1>2, PTL DEF CoreSpec

(* What the pipeline carries has the types CoreTypeOK gives it. *)
LEMMA PipelineTypes ==
  ASSUME PipelineOK
  PROVE  CoreTypeOK
<1>1. /\ received \in Seq(Traffic) /\ Len(received) \in Nat /\ Len(received) <= MaxPackets
      /\ MaxPackets \in Nat
  BY CoreAssumption DEF PipelineOK, ArrivalsOK
<1>2. Arrived \subseteq 1 .. MaxPackets
  BY <1>1 DEF Arrived
<1>3. ArrivedWords \subseteq Words
  BY <1>2 DEF ArrivedWords, Words
<1>4. Seq(ArrivedWords) \subseteq Seq(Words) /\ Seq(Arrived) \subseteq Seq(1 .. MaxPackets)
  BY <1>2, <1>3, SeqMonotone
<1>5. Carried \subseteq Items /\ CarriedTo \subseteq Routed /\ NoItem \in Items
  <2>1. 1 .. MaxPackets \subseteq 0 .. MaxPackets /\ 0 \in 0 .. MaxPackets
    BY <1>1
  <2>2. Carried \subseteq Items
    BY <1>2, <1>4, <2>1 DEF Carried, Items
  <2>3. CarriedTo \subseteq Routed
    BY <1>2, <1>4 DEF CarriedTo, Routed
  <2>4. NoItem \in Items
    BY <2>1, SizesPositive DEF NoItem, Items
  <2> QED
    BY <2>2, <2>3, <2>4
<1>6. /\ \A p \in Ports :
           /\ rx[p].inq \in Seq(Words) /\ rx[p].metas \in Seq(1 .. MaxPackets)
           /\ rx[p].consuming \in BOOLEAN /\ rx[p].complete \in BOOLEAN
           /\ rx[p].phase \in Phases /\ rx[p].left \in Nat /\ rx[p].item \in Items
  <2>1. \A p \in Ports : rx[p] \in RxStates
    BY DEF PipelineOK, RxOK
  <2> QED
    BY <2>1, <1>4, <1>5 DEF RxStates
<1>7. rxToHash \in Seq(Items) /\ hashToBuffer \in Seq(Routed) /\ offeredAs \in Seq(Routed)
  <2>1. Seq(Carried) \subseteq Seq(Items) /\ Seq(CarriedTo) \subseteq Seq(Routed)
    BY <1>5, SeqMonotone
  <2> QED
    BY <2>1 DEF PipelineOK, QueuesOK, OfferedOK
<1>8. /\ hash.phase \in Phases /\ hash.left \in Nat /\ hash.ii \in 0 .. HashII
      /\ hash.engine \in 0 .. HashII - 1
      /\ \A k \in DOMAIN fwd : fwd[k] \in [addr : Addrs, port : Ports] /\ k = Key(fwd[k].addr)
  BY DEF PipelineOK, HashOK, HashStates, Table
<1>9. /\ sched.phase \in Phases \ {"sending"} /\ sched.left \in Nat /\ sched.ii \in 0 .. SchedII
      /\ sched.inPtr \in [Ports -> Ports] /\ sched.outPtr \in [Ports -> Ports]
      /\ sched.list \subseteq [port : Ports, entry : Entry]
  BY DEF PipelineOK, SchedOK, SchedStates, Phases
<1>10. \A o \in Ports : out[o].entry \in Entry \cup {NoEntry} /\ out[o].left \in Nat
  BY DEF PipelineOK, OutOK
<1>11. TypeOK /\ Len(offeredAs) = offered
  BY DEF PipelineOK, OfferedOK
<1> QED
  BY <1>1, <1>6, <1>7, <1>8, <1>9, <1>10, <1>11 DEF CoreTypeOK

(* Every variable of the pipeline keeps its type, whatever the traffic and *)
(* through resets: no stage ever handles a packet that has not arrived, an *)
(* empty list of words or a port out of range.                             *)
THEOREM CoreTypeCorrect == CoreSpec => []CoreTypeOK
<1>1. PipelineOK => CoreTypeOK
  BY PipelineTypes
<1> QED
  BY <1>1, PipelineTyped, PTL

-------------------------------------------------------------------------------
(* The packets that have been looked up: they queue for the buffer, and a  *)
(* new one joins when the hash engine takes it.                            *)
LEMMA LookedUpType ==
  ASSUME PipelineOK
  PROVE  /\ offeredAs \in Seq(CarriedTo) /\ hashToBuffer \in Seq(CarriedTo)
         /\ InHash \in Seq(CarriedTo) /\ LookedUp \in Seq(CarriedTo)
         /\ offered \in Nat /\ Len(LookedUp) \in Nat
         /\ \A n \in 1 .. offered : n \in 1 .. Len(LookedUp) /\ LookedUp[n] = offeredAs[n]
<1>1. /\ offeredAs \in Seq(CarriedTo) /\ hashToBuffer \in Seq(CarriedTo)
      /\ Len(offeredAs) = offered
  BY DEF PipelineOK, OfferedOK, QueuesOK
<1>2. InHash \in Seq(CarriedTo)
  BY DEF InHash, PipelineOK, HashOK
<1>3. LookedUp = (offeredAs \o hashToBuffer) \o InHash
  BY DEF LookedUp
<1>4. /\ offeredAs \o hashToBuffer \in Seq(CarriedTo)
      /\ Len(offeredAs \o hashToBuffer) = offered + Len(hashToBuffer)
      /\ \A k \in 1 .. offered : (offeredAs \o hashToBuffer)[k] = offeredAs[k]
      /\ Len(hashToBuffer) \in Nat /\ offered \in Nat
  BY <1>1, Joined
<1>5. /\ LookedUp \in Seq(CarriedTo) /\ Len(InHash) \in Nat
      /\ Len(LookedUp) = offered + Len(hashToBuffer) + Len(InHash)
      /\ \A k \in 1 .. offered + Len(hashToBuffer) : LookedUp[k] = (offeredAs \o hashToBuffer)[k]
  <2> DEFINE c == offeredAs \o hashToBuffer
  <2>1. c \in Seq(CarriedTo) /\ Len(c) = offered + Len(hashToBuffer) /\ LookedUp = c \o InHash
    BY <1>3, <1>4
  <2> HIDE DEF c
  <2>2. /\ c \o InHash \in Seq(CarriedTo) /\ Len(InHash) \in Nat
        /\ Len(c \o InHash) = Len(c) + Len(InHash)
        /\ \A k \in 1 .. Len(c) : (c \o InHash)[k] = c[k]
    BY <2>1, <1>2, Joined
  <2> QED
    BY <2>1, <2>2 DEF c
<1>6. \A n \in 1 .. offered : n \in 1 .. Len(LookedUp) /\ LookedUp[n] = offeredAs[n]
  <2> HIDE DEF LookedUp
  <2>1. \A n \in 1 .. offered : n \in 1 .. offered + Len(hashToBuffer)
                                /\ n \in 1 .. offered + Len(hashToBuffer) + Len(InHash)
    BY <1>4, <1>5
  <2> QED
    BY <2>1, <1>4, <1>5
<1>7. Len(LookedUp) \in Nat /\ offered \in Nat
  BY <1>4, <1>5
<1> QED
  BY <1>1, <1>2, <1>5, <1>6, <1>7

(* Its end moves from queue to queue without a change of order. *)
LEMMA Shifted ==
  ASSUME NEW E, NEW a \in Seq(E), NEW b \in Seq(E), b # <<>>
  PROVE  Append(a, Head(b)) \o Tail(b) = a \o b
<1>1. Head(b) \in E /\ Tail(b) \in Seq(E) /\ Append(a, Head(b)) = a \o <<Head(b)>>
  BY Taken, AppendIsConcat
<1>2. <<Head(b)>> \in Seq(E) /\ <<Head(b)>> \o Tail(b) = b
  <2>1. <<Head(b)>> \in Seq(E)
    BY <1>1
  <2> DEFINE h == <<Head(b)>>
  <2>2. h \in Seq(E) /\ Len(h) = 1 /\ h[1] = Head(b)
    BY <2>1
  <2>3. Len(b) \in Nat \ {0} /\ Len(Tail(b)) = Len(b) - 1 /\ Head(b) = b[1]
        /\ \A k \in 1 .. Len(b) - 1 : Tail(b)[k] = b[k + 1]
    BY Taken
  <2> DEFINE t == Tail(b)
  <2> HIDE DEF h
  <2>4. /\ h \o t \in Seq(E) /\ Len(h \o t) = Len(b)
        /\ \A i \in 1 .. Len(b) : (h \o t)[i] = IF i <= 1 THEN h[i] ELSE t[i - 1]
    <3>1. t \in Seq(E) /\ Len(t) = Len(b) - 1
      BY <2>3, <1>1
    <3> HIDE DEF t
    <3>2. /\ h \o t \in Seq(E) /\ Len(h \o t) = Len(h) + Len(t)
          /\ \A i \in 1 .. Len(h) + Len(t) : (h \o t)[i] = IF i <= Len(h) THEN h[i]
                                                            ELSE t[i - Len(h)]
      BY <3>1, <2>2, ConcatProperties
    <3> QED
      BY <3>1, <3>2, <2>2, <2>3
  <2>5. \A i \in 1 .. Len(b) : (h \o Tail(b))[i] = b[i]
    BY <2>2, <2>3, <2>4
  <2>6. h \o Tail(b) = b
    BY <2>4, <2>5, SeqEqual
  <2> QED
    BY <2>1, <2>6 DEF h
<1> QED
  BY <1>1, <1>2, ConcatAssociative

LEMMA LookUpSteps ==
  ASSUME PipelineOK, [CoreNext]_coreVars
  PROVE  \/ AtRest'
         \/ /\ Arrived \subseteq Arrived' /\ \A n \in Arrived : received'[n] = received[n]
            /\ LookedUp' = LookedUp /\ fwd' = fwd
            /\ \/ UNCHANGED <<received, rx, rxToHash>>
               \/ TickAllModules
               \/ \E pkt \in Traffic : ReceivePacket(pkt)
               \/ ProcessRxStage
         \/ /\ HashAccept /\ hash.engine = 0 /\ ProcessHashStage
            /\ received' = received
            /\ LookedUp' = Append(LookedUp, hash'.item)
<1> DEFINE Kept == /\ Arrived \subseteq Arrived'
                   /\ \A n \in Arrived : received'[n] = received[n]
                   /\ LookedUp' = LookedUp /\ fwd' = fwd
                   /\ \/ UNCHANGED <<received, rx, rxToHash>>
                      \/ TickAllModules
                      \/ \E pkt \in Traffic : ReceivePacket(pkt)
                      \/ ProcessRxStage
<1>0. /\ LookedUp = (offeredAs \o hashToBuffer) \o InHash
      /\ LookedUp' = (offeredAs' \o hashToBuffer') \o InHash'
  BY DEF LookedUp
<1>1. /\ offeredAs \in Seq(CarriedTo) /\ hashToBuffer \in Seq(CarriedTo)
      /\ InHash \in Seq(CarriedTo)
  BY LookedUpType
<1>2. ASSUME UNCHANGED <<offeredAs, hashToBuffer, fwd, received>>, InHash' = InHash,
             UNCHANGED <<rx, rxToHash>> \/ TickAllModules \/ ProcessRxStage
      PROVE  Kept
  BY <1>0, <1>2, SameArrivals
<1>3. ASSUME NEW pkt \in Traffic, ReceivePacket(pkt)
      PROVE  Kept
  <2>1. /\ received' = Append(received, pkt) /\ InHash' = InHash
        /\ UNCHANGED <<offeredAs, hashToBuffer, fwd>>
    BY <1>3 DEF ReceivePacket, history, InHash, Holding
  <2> QED
    BY <2>1, <1>0, <1>3, MoreArrivals DEF PipelineOK
<1>4. CASE ResetSwitch
  BY <1>4, ResetIsRest DEF PipelineOK
<1>5. CASE TickAllModules
  <2>1. InHash' = InHash
    <3>1. hash' = [Ticked(hash) EXCEPT !.ii = MaxOf(0, @ - 1)]
      BY <1>5 DEF TickAllModules
    <3>2. Holding(hash') <=> Holding(hash)
      BY <3>1, HashTickedFields DEF PipelineOK
    <3>3. hash'.item = hash.item
      BY <3>1, HashTickedFields DEF PipelineOK
    <3> QED
      BY <3>2, <3>3 DEF InHash, Holding
  <2> QED
    BY <1>5, <2>1, <1>2 DEF TickAllModules, history
<1>6. CASE ProcessRxStage
  BY <1>6, <1>2 DEF ProcessRxStage, history, InHash, Holding
<1>7. CASE ProcessHashStage
  <2>1. UNCHANGED <<offeredAs, received, rx>>
    BY <1>7 DEF ProcessHashStage, history
  <2>2. CASE HashAccept /\ hash.engine = 0
    <3>1. /\ hash.phase = "idle" /\ Holding(hash') /\ hashToBuffer' = hashToBuffer
          /\ hash'.item \in CarriedTo
      BY <2>2, AcceptFields
    <3>2. InHash = <<>> /\ InHash' = <<hash'.item>>
      BY <3>1 DEF InHash, Holding
    <3>3. offeredAs \o hashToBuffer \in Seq(CarriedTo)
      BY <1>1, Joined
    <3>4. LookedUp = offeredAs \o hashToBuffer
      BY <1>0, <3>2, <3>3, ConcatEmptySeq
    <3>5. LookedUp' = Append(LookedUp, hash'.item)
      BY <1>0, <3>1, <3>2, <3>3, <3>4, <2>1, AppendIsConcat
    <3> QED
      BY <2>1, <2>2, <3>5, <1>7
  <2>3. CASE HashAccept /\ hash.engine # 0
    <3>1. hash.engine > 0
      BY <2>3, SizesPositive DEF PipelineOK, HashOK, HashStates
    <3>2. /\ UNCHANGED <<rxToHash, hashToBuffer, fwd>>
          /\ hash.phase = "idle" /\ hash' = [hash EXCEPT !.engine = @ - 1]
      BY <2>3, <3>1 DEF HashAccept, HashAcceptFrom
    <3>3. hash'.phase = "idle"
      BY <3>2 DEF PipelineOK, HashOK, HashStates
    <3>4. InHash' = InHash
      BY <3>2, <3>3 DEF InHash, Holding
    <3> QED
      BY <3>2, <3>4, <2>1, <1>2
  <2>4. CASE HashProcess
    BY <2>4, <2>1, <1>2, HashProcessFields DEF InHash, Holding
  <2>5. CASE HashSend
    <3>1. /\ hash.item \in CarriedTo /\ Holding(hash) /\ hash'.phase = "sending"
          /\ hashToBuffer' = Append(hashToBuffer, hash.item) /\ UNCHANGED <<rxToHash, fwd>>
      BY <2>5, HashSendFields
    <3>2. InHash = <<hash.item>> /\ InHash' = <<>>
      BY <3>1 DEF InHash, Holding
    <3>3. /\ hashToBuffer' = hashToBuffer \o <<hash.item>>
          /\ <<hash.item>> \in Seq(CarriedTo)
      BY <3>1, <1>1, AppendIsConcat
    <3>4. /\ hashToBuffer' \in Seq(CarriedTo)
          /\ offeredAs \o hashToBuffer' = (offeredAs \o hashToBuffer) \o <<hash.item>>
          /\ offeredAs \o hashToBuffer' \in Seq(CarriedTo)
      BY <3>3, <1>1, ConcatAssociative, Joined
    <3>5. LookedUp' = LookedUp
      BY <1>0, <3>2, <3>4, <2>1, ConcatEmptySeq
    <3> QED
      BY <3>1, <3>5, <2>1, SameArrivals
  <2>6. CASE HashWait
    BY <2>6, <2>1, <1>2 DEF HashWait, InHash, Holding
  <2> QED
    BY <1>7, <2>2, <2>3, <2>4, <2>5, <2>6 DEF ProcessHashStage
<1>8. CASE ProcessBufferEnqueue
  <2>1. UNCHANGED <<received, rx, rxToHash, hash, fwd>> /\ InHash' = InHash
    BY <1>8 DEF ProcessBufferEnqueue, InHash, Holding
  <2>2. CASE hashToBuffer = <<>>
    BY <1>8, <2>1, <2>2, <1>2 DEF ProcessBufferEnqueue
  <2>3. CASE hashToBuffer # <<>>
    <3>1. /\ offeredAs' = Append(offeredAs, Head(hashToBuffer))
          /\ hashToBuffer' = Tail(hashToBuffer)
      BY <1>8, <2>3, EnqueueFields
    <3>2. offeredAs' \o hashToBuffer' = offeredAs \o hashToBuffer
      BY <3>1, <2>3, <1>1, Shifted
    <3> QED
      BY <3>2, <2>1, <1>0, SameArrivals
  <2> QED
    BY <2>2, <2>3
<1>9. CASE ProcessSchedulerStage
  BY <1>9, <1>2 DEF ProcessSchedulerStage, history, InHash, Holding
<1>10. ASSUME NEW o \in Ports, ProcessOutputStage(o)
       PROVE  Kept
  BY <1>10, <1>2 DEF ProcessOutputStage, InHash, Holding
<1>11. CASE UNCHANGED coreVars
  BY <1>11, <1>2 DEF coreVars, pipeline, history, InHash, Holding
<1> QED
  BY <1>3, <1>4, <1>5, <1>6, <1>7, <1>8, <1>9, <1>10, <1>11 DEF CoreNext, Cycle

-------------------------------------------------------------------------------
(* Packets looked up do not change, and what they taught does not either.  *)
LEMMA RoutedKept ==
  ASSUME NEW q, NEW r, NEW hdrs, NEW more, NEW n \in Nat, n > 0,
         \A m \in 1 .. n : r[m] = q[m] /\ more[m] = hdrs[m],
         RoutedByTable(q, hdrs, n)
  PROVE  RoutedByTable(r, more, n)
<1>1. n \in 1 .. n /\ more[n] = hdrs[n] /\ r[n] = q[n]
  OBVIOUS
<1> DEFINE dst == hdrs[n].dst
           T == Teachers(hdrs, n, Key(dst))
<1>2. Teachers(more, n, Key(dst)) = T
  BY DEF Teachers
<1>3. \A m \in T : m \in 1 .. n /\ r[m] = q[m] /\ more[m] = hdrs[m]
  BY DEF Teachers
<1>4. (dst # All /\ ~HasRoute(dst)) =>
       \/ T = {} /\ q[n].port = dst % NumPorts
       \/ \E m \in T : /\ \A j \in T : j <= m
                       /\ q[n].port = IF hdrs[m].src = dst THEN q[m].in ELSE dst % NumPorts
  BY DEF RoutedByTable
<1> HIDE DEF T
<1>5. (dst # All /\ ~HasRoute(dst)) =>
       \/ T = {} /\ r[n].port = dst % NumPorts
       \/ \E m \in T : /\ \A j \in T : j <= m
                       /\ r[n].port = IF more[m].src = dst THEN r[m].in ELSE dst % NumPorts
  BY <1>1, <1>3, <1>4
<1> QED
  BY <1>1, <1>2, <1>5 DEF RoutedByTable

LEMMA HeadersFields ==
  ASSUME PipelineOK
  PROVE  /\ Len(LookedUp) \in Nat /\ LookedUp \in Seq(CarriedTo)
         /\ \A n \in 1 .. Len(LookedUp) :
              /\ LookedUp[n] \in CarriedTo /\ LookedUp[n].meta \in Arrived
              /\ LookedUp[n].in \in Ports
              /\ Headers[n] = received[LookedUp[n].meta] /\ Headers[n] \in Traffic
              /\ Headers[n].src \in Addrs /\ Headers[n].dst \in Addrs \cup {All}
<1>1. LookedUp \in Seq(CarriedTo) /\ Len(LookedUp) \in Nat
  BY LookedUpType
<1>2. ASSUME NEW n \in 1 .. Len(LookedUp)
      PROVE  /\ LookedUp[n] \in CarriedTo /\ LookedUp[n].meta \in Arrived
             /\ LookedUp[n].in \in Ports
             /\ Headers[n] = received[LookedUp[n].meta] /\ Headers[n] \in Traffic
             /\ Headers[n].src \in Addrs /\ Headers[n].dst \in Addrs \cup {All}
  <2>1. LookedUp[n] \in CarriedTo
    BY <1>1, ElementOfSeq
  <2>2. LookedUp[n].meta \in Arrived /\ LookedUp[n].in \in Ports
    BY <2>1 DEF CarriedTo
  <2>3. Headers[n] = Meta(LookedUp[n])
    BY DEF Headers
  <2>4. Meta(LookedUp[n]) = received[LookedUp[n].meta]
    BY DEF Meta
  <2>5. /\ Meta(LookedUp[n]) \in Traffic /\ Meta(LookedUp[n]).src \in Addrs
        /\ Meta(LookedUp[n]).dst \in Addrs \cup {All}
    BY <2>2, BelievedFields DEF PipelineOK
  <2> QED
    BY <2>1, <2>2, <2>3, <2>4, <2>5
<1> QED
  BY <1>1, <1>2

(* The headers a step leaves as they are. *)
LEMMA HeadersKept ==
  ASSUME PipelineOK, \A n \in Arrived : received'[n] = received[n],
         \A n \in 1 .. Len(LookedUp) : n \in 1 .. Len(LookedUp') /\ LookedUp'[n] = LookedUp[n]
  PROVE  \A n \in 1 .. Len(LookedUp) : Headers'[n] = Headers[n]
<1> TAKE n \in 1 .. Len(LookedUp)
<1>1. LookedUp[n].meta \in Arrived /\ Headers[n] = received[LookedUp[n].meta]
  BY HeadersFields
<1>2. n \in 1 .. Len(LookedUp') /\ LookedUp'[n] = LookedUp[n]
  OBVIOUS
<1>3. Headers'[n] = received'[LookedUp'[n].meta]
  BY <1>2 DEF Headers, Meta
<1> QED
  BY <1>1, <1>2, <1>3

(* The table always knows what the packets looked up have taught it, and   *)
(* the next packet is sent where the table then says.                      *)
LEMMA AcceptRouted ==
  ASSUME PipelineOK, RoutingInv, HashAccept, hash.engine = 0, received' = received,
         LookedUp' = Append(LookedUp, hash'.item)
  PROVE  RoutingInv'
<1>1. PICK h, q, r, hdrs, more, table, item :
        /\ h = hash'.item /\ q = LookedUp /\ r = LookedUp' /\ hdrs = Headers
        /\ more = Headers' /\ table = fwd' /\ item = Head(rxToHash)
  OBVIOUS
<1> DEFINE pkt == Believed(item)
           N == Len(q) + 1
<1>2. /\ item \in Carried
      /\ h \in CarriedTo /\ h.in = item.in /\ h.meta = item.meta
      /\ table = Learned(pkt) /\ h.port = LookUp(table, Meta(item).dst)
  BY <1>1, AcceptFields
<1>3. q \in Seq(CarriedTo) /\ Len(q) \in Nat
  BY <1>1, LookedUpType
<1>4. /\ Len(r) = N /\ r[N] = h /\ \A m \in 1 .. Len(q) : r[m] = q[m]
      /\ N \in Nat /\ N > 0 /\ N \in 1 .. N
  BY <1>1, <1>2, <1>3, Appended
<1>5. \A m \in 1 .. Len(q) : m \in 1 .. N /\ more[m] = hdrs[m]
  <2>1. \A m \in 1 .. Len(q) : m \in 1 .. N
    BY <1>3
  <2>2. \A m \in 1 .. Len(LookedUp) : m \in 1 .. Len(LookedUp') /\ LookedUp'[m] = LookedUp[m]
    BY <2>1, <1>1, <1>4
  <2> QED
    BY <2>1, <2>2, <1>1, HeadersKept
<1>6. more[N] = Meta(item)
  <2>1. more[N] = received[r[N].meta]
    BY <1>1, <1>4 DEF Headers, Meta
  <2> QED
    BY <2>1, <1>2, <1>4 DEF Meta
<1>7. item.in \in Ports /\ item.meta \in Arrived
  BY <1>2 DEF Carried
<1>8. /\ pkt.in = h.in /\ pkt.src = more[N].src /\ pkt.dst = more[N].dst
      /\ more[N].src \in Addrs /\ more[N].dst \in Addrs \cup {All}
      /\ Learns(pkt) <=> Learns(more[N])
  <2>1. /\ pkt.in = item.in /\ pkt.src = Meta(item).src /\ pkt.dst = Meta(item).dst
        /\ Meta(item).src \in Addrs /\ Meta(item).dst \in Addrs \cup {All}
    BY <1>7, BelievedFields DEF PipelineOK
  <2> HIDE DEF pkt
  <2> QED
    BY <2>1, <1>2, <1>6 DEF Learns
<1> HIDE DEF pkt
<1> DEFINE Learners(k) == Teachers(more, N, k)
           Before(k) == Teachers(hdrs, Len(q), k)
           e == [addr |-> more[N].src, port |-> r[N].in]
<1>9. \A k : Learners(k) = IF Learns(more[N]) /\ Key(more[N].src) = k
                           THEN Before(k) \cup {N} ELSE Before(k)
  <2>1. \A m : m \in 1 .. N <=> m \in 1 .. Len(q) \/ m = N
    BY <1>3
  <2> QED
    BY <2>1, <1>5 DEF Teachers
<1>10. \A k : \A j \in Before(k) : j \in 1 .. Len(q) /\ j <= N
  BY <1>3 DEF Teachers
<1>11. /\ Learns(more[N]) =>
            table = [k \in DOMAIN fwd \cup {Key(more[N].src)} |->
                       IF k = Key(more[N].src) THEN e ELSE fwd[k]]
       /\ ~Learns(more[N]) => table = fwd
  BY <1>2, <1>4, <1>8 DEF Learned
<1>12. \A k \in Slots :
         \/ Before(k) = {} /\ k \notin DOMAIN fwd
         \/ /\ k \in DOMAIN fwd
            /\ \E m \in Before(k) : /\ \A j \in Before(k) : j <= m
                                    /\ fwd[k] = [addr |-> hdrs[m].src, port |-> q[m].in]
  BY <1>1 DEF RoutingInv, TableIsLearned
<1> HIDE DEF Learners, Before, e
<1>13. ASSUME NEW k \in Slots
       PROVE  \/ Learners(k) = {} /\ k \notin DOMAIN table
              \/ /\ k \in DOMAIN table
                 /\ \E m \in Learners(k) : /\ \A j \in Learners(k) : j <= m
                                           /\ table[k] = [addr |-> more[m].src, port |-> r[m].in]
  <2>1. CASE Learns(more[N]) /\ Key(more[N].src) = k
    <3>1. N \in Learners(k) /\ \A j \in Learners(k) : j <= N
      BY <2>1, <1>4, <1>9, <1>10
    <3>2. k \in DOMAIN table /\ table[k] = e
      BY <2>1, <1>11
    <3> QED
      BY <3>1, <3>2 DEF e
  <2>2. CASE ~(Learns(more[N]) /\ Key(more[N].src) = k)
    <3>1. Learners(k) = Before(k)
      BY <2>2, <1>9
    <3>2. (k \in DOMAIN table <=> k \in DOMAIN fwd) /\ (k \in DOMAIN fwd => table[k] = fwd[k])
      BY <2>2, <1>11
    <3>3. \A m \in Before(k) : more[m] = hdrs[m] /\ r[m] = q[m]
      BY <1>4, <1>5, <1>10
    <3>4. CASE Before(k) = {} /\ k \notin DOMAIN fwd
      BY <3>1, <3>2, <3>4
    <3>5. ASSUME k \in DOMAIN fwd, NEW m \in Before(k), \A j \in Before(k) : j <= m,
                 fwd[k] = [addr |-> hdrs[m].src, port |-> q[m].in]
          PROVE  /\ m \in Learners(k) /\ \A j \in Learners(k) : j <= m
                 /\ k \in DOMAIN table /\ table[k] = [addr |-> more[m].src, port |-> r[m].in]
      <4>1. table[k] = fwd[k] /\ k \in DOMAIN table
        BY <3>2, <3>5
      <4>2. more[m] = hdrs[m] /\ r[m] = q[m]
        BY <3>3
      <4> QED
        BY <3>1, <3>5, <4>1, <4>2
    <3> QED
      BY <3>4, <3>5, <1>12
  <2> QED
    BY <2>1, <2>2
<1>14. TableIsLearned'
  BY <1>1, <1>4, <1>13 DEF TableIsLearned, Learners
<1>15. \A n \in 1 .. Len(q) : RoutedByTable(r, more, n)
  <2> TAKE n \in 1 .. Len(q)
  <2>1. n \in Nat /\ n > 0 /\ \A m \in 1 .. n : m \in 1 .. Len(q)
    BY <1>3
  <2>2. \A m \in 1 .. n : r[m] = q[m] /\ more[m] = hdrs[m]
    BY <2>1, <1>4, <1>5
  <2>3. RoutedByTable(q, hdrs, n)
    BY <1>1 DEF RoutingInv
  <2> QED
    BY <2>1, <2>2, <2>3, RoutedKept
<1>16. RoutedByTable(r, more, N)
  <2> DEFINE dst == more[N].dst
  <2> SUFFICES ASSUME dst # All, ~HasRoute(dst)
               PROVE  \/ Learners(Key(dst)) = {} /\ r[N].port = dst % NumPorts
                      \/ \E m \in Learners(Key(dst)) :
                           /\ \A j \in Learners(Key(dst)) : j <= m
                           /\ r[N].port = IF more[m].src = dst THEN r[m].in ELSE dst % NumPorts
    BY DEF RoutedByTable, Learners
  <2>1. r[N].port = IF Key(dst) \in DOMAIN table /\ table[Key(dst)].addr = dst
                    THEN table[Key(dst)].port ELSE dst % NumPorts
    BY <1>2, <1>4, <1>6 DEF LookUp
  <2>2. Key(dst) \in Slots
    BY <1>8 DEF Slots
  <2> DEFINE k == Key(dst)
  <2>3. \/ Learners(k) = {} /\ k \notin DOMAIN table
        \/ /\ k \in DOMAIN table
           /\ \E m \in Learners(k) : /\ \A j \in Learners(k) : j <= m
                                     /\ table[k] = [addr |-> more[m].src, port |-> r[m].in]
    BY <2>2, <1>13
  <2> HIDE DEF dst, k
  <2>4. CASE k \notin DOMAIN table
    BY <2>1, <2>3, <2>4 DEF k
  <2>5. CASE k \in DOMAIN table
    <3>1. PICK m \in Learners(k) : /\ \A j \in Learners(k) : j <= m
                                  /\ table[k] = [addr |-> more[m].src, port |-> r[m].in]
      BY <2>3, <2>5
    <3>2. r[N].port = IF more[m].src = dst THEN r[m].in ELSE dst % NumPorts
      BY <2>1, <2>5, <3>1 DEF k
    <3> QED
      BY <3>1, <3>2 DEF k
  <2> QED
    BY <2>4, <2>5
<1>17. \A n \in 1 .. N : RoutedByTable(r, more, n)
  <2>1. \A m : m \in 1 .. N <=> m \in 1 .. Len(q) \/ m = N
    BY <1>3
  <2> QED
    BY <2>1, <1>15, <1>16
<1> QED
  BY <1>1, <1>4, <1>14, <1>17 DEF RoutingInv

LEMMA RestRouted == AtRest => RoutingInv
<1> SUFFICES ASSUME AtRest PROVE RoutingInv
  OBVIOUS
<1>1. offeredAs = <<>> /\ hashToBuffer = <<>> /\ fwd = <<>> /\ InHash = <<>>
  BY DEF AtRest, RestInit, IdleHash, InHash, Holding
<1>2. LookedUp = <<>> /\ Len(LookedUp) = 0
  BY <1>1 DEF LookedUp
<1>3. 1 .. Len(LookedUp) = {}
  BY <1>2
<1>4. \A k : Teachers(Headers, Len(LookedUp), k) = {}
  BY <1>3 DEF Teachers
<1>5. \A k : k \notin DOMAIN fwd
  BY <1>1
<1> QED
  BY <1>3, <1>4, <1>5 DEF RoutingInv, TableIsLearned

LEMMA StepRouted ==
  ASSUME PipelineOK, RoutingInv, [CoreNext]_coreVars
  PROVE  RoutingInv'
<1>1. CASE AtRest'
  BY <1>1, RestRouted, PTL
<1>2. ASSUME \A n \in Arrived : received'[n] = received[n], LookedUp' = LookedUp, fwd' = fwd
      PROVE  RoutingInv'
  <2>1. \A n \in 1 .. Len(LookedUp) : Headers'[n] = Headers[n]
    BY <1>2, HeadersKept
  <2>2. Headers' = Headers
    <3>1. /\ Headers = [n \in 1 .. Len(LookedUp) |-> Headers[n]]
          /\ Headers' = [n \in 1 .. Len(LookedUp) |-> Headers'[n]]
      BY <1>2 DEF Headers
    <3> QED
      BY <2>1, <3>1
  <2> QED
    BY <1>2, <2>2 DEF RoutingInv, TableIsLearned
<1> QED
  BY <1>1, <1>2, LookUpSteps, AcceptRouted

LEMMA RoutingKept == CoreSpec => []RoutingInv
<1>1. CoreInit => RoutingInv
  BY RestRouted DEF CoreInit, AtRest
<1>2. PipelineOK /\ RoutingInv /\ [CoreNext]_coreVars => RoutingInv'
  BY StepRouted
<1> QED
  BY <1>1, <1>2, PipelineTyped, PTL DEF CoreSpec

(* A packet the buffer is offered leaves by the port its destination was   *)
(* last learned on, or, when another address has taken the slot since or   *)
(* none has, by port (address % ports): the table is looked up before the  *)
(* buffer is reached, and what other packets teach it in between, while    *)
(* this one waits in the queue, does not matter.                           *)
THEOREM GoesWhereLearned == CoreSpec => []GoesWhereLastSeen
<1>1. PipelineOK /\ RoutingInv => GoesWhereLastSeen
  <2> SUFFICES ASSUME PipelineOK, RoutingInv, NEW n \in 1 .. offered,
                      Meta(offeredAs[n]).dst # All, ~HasRoute(Meta(offeredAs[n]).dst)
               PROVE  LET dst  == Meta(offeredAs[n]).dst
                          last == CHOOSE m \in Holders(n) : \A k \in Holders(n) : k <= m
                      IN offeredAs[n].port =
                           IF Holders(n) # {} /\ Meta(offeredAs[last]).src = dst
                           THEN offeredAs[last].in ELSE dst % NumPorts
    BY DEF GoesWhereLastSeen
  <2> DEFINE dst == Meta(offeredAs[n]).dst
             last == CHOOSE m \in Holders(n) : \A k \in Holders(n) : k <= m
  <2>1. offered \in Nat /\ n \in Nat /\ \A m \in 1 .. n : m \in 1 .. offered
    BY LookedUpType
  <2>2. \A m \in 1 .. offered :
          /\ m \in 1 .. Len(LookedUp) /\ LookedUp[m] = offeredAs[m]
          /\ Headers[m] = Meta(offeredAs[m])
    BY LookedUpType DEF Headers
  <2>3. RoutedByTable(LookedUp, Headers, n)
    BY <2>2 DEF RoutingInv
  <2>4. Headers[n].dst = dst /\ LookedUp[n] = offeredAs[n]
    BY <2>2
  <2>5. Teachers(Headers, n, Key(dst)) = Holders(n)
    BY <2>1, <2>2 DEF Teachers, Holders
  <2>6. Holders(n) \subseteq 1 .. n
    BY DEF Holders
  <2> HIDE DEF dst
  <2>7. \/ Holders(n) = {} /\ offeredAs[n].port = dst % NumPorts
        \/ \E m \in Holders(n) :
             /\ \A j \in Holders(n) : j <= m
             /\ offeredAs[n].port = IF Headers[m].src = dst THEN LookedUp[m].in
                                                            ELSE dst % NumPorts
    BY <2>3, <2>4, <2>5 DEF RoutedByTable, dst
  <2>8. CASE Holders(n) = {}
    BY <2>7, <2>8 DEF dst
  <2>9. CASE Holders(n) # {}
    <3>1. PICK m \in Holders(n) :
            /\ \A j \in Holders(n) : j <= m
            /\ offeredAs[n].port = IF Headers[m].src = dst THEN LookedUp[m].in
                                                           ELSE dst % NumPorts
      BY <2>7, <2>9
    <3>2. last \in Holders(n) /\ \A k \in Holders(n) : k <= last
      BY <3>1
    <3>3. last = m
      BY <3>1, <3>2, <2>6, <2>1
    <3>4. Headers[m] = Meta(offeredAs[m]) /\ LookedUp[m] = offeredAs[m]
      BY <2>1, <2>2, <2>6
    <3> HIDE DEF last
    <3> QED
      BY <3>1, <3>3, <3>4, <2>9 DEF dst, last
  <2> QED
    BY <2>8, <2>9
<1> QED
  BY <1>1, PipelineTyped, RoutingKept, PTL

-------------------------------------------------------------------------------
(* The words of an RX queue, and those that are left when one is taken.    *)
LEMMA WordTypes ==
  ASSUME NEW q \in Seq(ArrivedWords)
  PROVE  \A k \in DOMAIN q : q[k] \in ArrivedWords /\ q[k][1] \in Arrived /\ q[k][1] \in Nat
<1>1. \A w \in ArrivedWords : w[1] \in Arrived
  BY DEF ArrivedWords
<1>2. Arrived \subseteq Nat
  BY DEF Arrived
<1>3. \A k \in DOMAIN q : q[k] \in ArrivedWords
  OBVIOUS
<1> QED
  BY <1>1, <1>2, <1>3

LEMMA PopOrder ==
  ASSUME NEW q \in Seq(ArrivedWords), q # <<>>, WordOrder(q),
         NEW seen \in SUBSET Nat, NEW within \in BOOLEAN, After(seen, q, within)
  PROVE  LET word == Head(q)
         IN /\ word[1] \in Arrived /\ word[1] \in Nat
            /\ \A n \in seen : n <= word[1] /\ (~within => n < word[1])
            /\ WordOrder(Tail(q))
            /\ After(seen \cup {word[1]}, Tail(q), ~IsLast(word))
<1> DEFINE word == Head(q)
           t == Tail(q)
<1>1. /\ Len(q) \in Nat \ {0} /\ Len(t) = Len(q) - 1 /\ t \in Seq(ArrivedWords)
      /\ word = q[1] /\ \A k \in 1 .. Len(q) - 1 : t[k] = q[k + 1]
      /\ DOMAIN q = 1 .. Len(q)
  BY Taken
<1>2. DOMAIN t = 1 .. Len(q) - 1
  <2> HIDE DEF t
  <2> QED
    BY <1>1
<1> HIDE DEF t, word
<1>3. \A k \in DOMAIN t : /\ k + 1 \in DOMAIN q /\ t[k] = q[k + 1] /\ k \in Nat
                          /\ 1 \in DOMAIN q /\ 1 < k + 1
  BY <1>1, <1>2
<1>4. \A k \in DOMAIN q : q[k][1] \in Nat
  BY WordTypes
<1>5. 1 \in DOMAIN q /\ word[1] \in Arrived /\ word[1] \in Nat
  BY <1>1, WordTypes
<1>6. \A n \in seen : n <= word[1] /\ (~within => n < word[1])
  BY <1>1, <1>5 DEF After
<1>7. \A j, k \in DOMAIN q : j < k => q[j][1] <= q[k][1] /\ (IsLast(q[j]) => q[j][1] < q[k][1])
  BY DEF WordOrder
<1>8. WordOrder(t)
  <2> SUFFICES ASSUME NEW j \in DOMAIN t, NEW k \in DOMAIN t, j < k
               PROVE  t[j][1] <= t[k][1] /\ (IsLast(t[j]) => t[j][1] < t[k][1])
    BY DEF WordOrder
  <2>1. j + 1 < k + 1 /\ j + 1 \in DOMAIN q /\ k + 1 \in DOMAIN q
    BY <1>3
  <2>2. t[j] = q[j + 1] /\ t[k] = q[k + 1]
    BY <1>3
  <2> QED
    BY <2>1, <2>2, <1>7
<1>9. ASSUME NEW n \in seen \cup {word[1]}, NEW k \in DOMAIN t
      PROVE  n <= t[k][1] /\ (IsLast(word) => n < t[k][1])
  <2>1. word[1] <= t[k][1] /\ (IsLast(word) => word[1] < t[k][1]) /\ t[k][1] \in Nat
    BY <1>1, <1>3, <1>4, <1>7
  <2>2. n <= word[1] /\ n \in Nat
    BY <1>5, <1>6
  <2> QED
    BY <2>1, <2>2, <1>5
<1>10. After(seen \cup {word[1]}, t, ~IsLast(word))
  BY <1>9 DEF After
<1> QED
  BY <1>5, <1>6, <1>8, <1>10 DEF word, t

LEMMA AfterSubset ==
  ASSUME NEW seen, NEW part \in SUBSET seen, NEW q, NEW within, After(seen, q, within)
  PROVE  After(part, q, within)
  BY DEF After

(* Metadata taken up by an RX engine that is between two packets. *)
LEMMA AppendIncreasing ==
  ASSUME NEW m \in Seq(Arrived), Increasing(m), NEW n \in Arrived,
         \A k \in DOMAIN m : m[k] < n
  PROVE  /\ Increasing(Append(m, n))
         /\ {Append(m, n)[k] : k \in DOMAIN Append(m, n)} = {m[k] : k \in DOMAIN m} \cup {n}
<1> DEFINE a == Append(m, n)
<1>1. /\ Len(m) \in Nat /\ a \in Seq(Arrived) /\ Len(a) = Len(m) + 1
      /\ \A k \in 1 .. Len(m) : a[k] = m[k]
      /\ a[Len(m) + 1] = n
  BY Appended
<1> HIDE DEF a
<1>2. /\ DOMAIN m = 1 .. Len(m) /\ DOMAIN a = 1 .. Len(m) + 1
      /\ \A k : k \in DOMAIN a <=> k \in DOMAIN m \/ k = Len(m) + 1
  BY <1>1
<1>3. Increasing(a)
  <2> SUFFICES ASSUME NEW j \in DOMAIN a, NEW k \in DOMAIN a, j < k PROVE a[j] < a[k]
    BY DEF Increasing
  <2>1. j \in DOMAIN m
    BY <1>1, <1>2
  <2> QED
    BY <2>1, <1>1, <1>2 DEF Increasing
<1>4. {a[k] : k \in DOMAIN a} = {m[k] : k \in DOMAIN m} \cup {n}
  BY <1>1, <1>2
<1> QED
  BY <1>3, <1>4 DEF a

(* A step of an RX engine keeps the order of one port: the packet handed   *)
(* on is younger than all that were before, and older than what is left.   *)
LEMMA RxOrderStep ==
  ASSUME NEW p \in Ports, NEW r \in RxStates, NEW ahead \in SUBSET Nat,
         Holding(r) => r.item \in Carried /\ r.item.in = p,
         RxOrder(ahead, r)
  PROVE  RxOrder(IF r.phase = "ready" /\ hash.ii = 0 THEN ahead \cup {r.item.meta} ELSE ahead,
                 RxStep(p, r))
<1> DEFINE s == RxStep(p, r)
           word == Head(r.inq)
           mm == IF r.consuming THEN r.metas ELSE Append(r.metas, word[1])
           C == Collected(r)
           M == Parsing(r)
           parsed == {mm[k] : k \in DOMAIN mm}
<1>1. /\ Below(ahead, C \cup M) /\ Below(C, M) /\ Increasing(r.metas)
      /\ After(ahead \cup C \cup M, r.inq, r.consuming)
      /\ WordOrder(r.inq)
  BY DEF RxOrder
<1>2. /\ r.inq \in Seq(ArrivedWords) /\ r.metas \in Seq(Arrived) /\ r.consuming \in BOOLEAN
      /\ Arrived \subseteq Nat
  BY DEF RxStates, Arrived
<1>3. C \in SUBSET Nat /\ M \in SUBSET Nat
  <2>1. \A k \in DOMAIN r.metas : r.metas[k] \in Nat
    BY <1>2, ElementOfSeq, LenProperties
  <2>2. Holding(r) => r.item.meta \in Nat
    BY <1>2 DEF Carried
  <2> QED
    BY <2>1, <2>2 DEF Collected, Parsing
<1>4. ahead \cup C \cup M \in SUBSET Nat
  BY <1>3
<1>5. ASSUME r.inq # <<>>
      PROVE  /\ mm \in Seq(Arrived) /\ Increasing(mm)
             /\ Below(ahead, C \cup parsed) /\ Below(C, parsed)
             /\ After(ahead \cup C \cup parsed, Tail(r.inq), ~IsLast(word))
             /\ WordOrder(Tail(r.inq))
  <2> DEFINE seen == ahead \cup C \cup M
  <2>1. /\ word[1] \in Arrived /\ word[1] \in Nat
        /\ \A n \in seen : n <= word[1] /\ (~r.consuming => n < word[1])
        /\ WordOrder(Tail(r.inq))
        /\ After(seen \cup {word[1]}, Tail(r.inq), ~IsLast(word))
    BY <1>1, <1>2, <1>4, <1>5, PopOrder
  <2> HIDE DEF word, C, M
  <2>2. CASE r.consuming
    <3>1. mm = r.metas /\ parsed = M
      BY <2>2 DEF M, Parsing
    <3>2. After(ahead \cup C \cup M, Tail(r.inq), ~IsLast(word))
      BY <2>1, AfterSubset
    <3> QED
      BY <3>1, <3>2, <2>1, <1>1, <1>2
  <2>3. CASE ~r.consuming
    <3>1. mm = Append(r.metas, word[1])
      BY <2>3
    <3>2. \A k \in DOMAIN r.metas : r.metas[k] \in M
      BY DEF M, Parsing
    <3>3. \A k \in DOMAIN r.metas : r.metas[k] < word[1]
      BY <2>1, <2>3, <3>2
    <3>4. mm \in Seq(Arrived) /\ Increasing(mm) /\ parsed = M \cup {word[1]}
      <4> DEFINE a == Append(r.metas, word[1])
      <4>1. Increasing(a) /\ {a[k] : k \in DOMAIN a} = {r.metas[k] : k \in DOMAIN r.metas} \cup {word[1]}
        BY <3>3, <2>1, <1>1, <1>2, AppendIncreasing
      <4>2. a \in Seq(Arrived)
        BY <2>1, <1>2, Appended
      <4> HIDE DEF a
      <4>3. mm = a
        BY <3>1 DEF a
      <4> HIDE DEF mm
      <4> QED
        BY <4>1, <4>2, <4>3 DEF M, Parsing
    <3> HIDE DEF mm, parsed
    <3>5. Below(ahead, C \cup parsed) /\ Below(C, parsed)
      BY <3>4, <2>1, <2>3, <1>1 DEF Below
    <3>6. ahead \cup C \cup parsed = seen \cup {word[1]}
      BY <3>4
    <3> QED
      BY <3>4, <3>5, <3>6, <2>1
  <2> QED
    BY <2>2, <2>3, <1>2
<1>6. CASE r.phase = "ready" /\ hash.ii = 0
  <2>1. r.item \in Carried /\ C = {r.item.meta}
    BY <1>6 DEF Holding, Collected
  <2>2. s.phase = "sending" /\ s.inq = r.inq /\ s.metas = r.metas /\ s.consuming = r.consuming
    <3>1. s = [r EXCEPT !.phase = "sending", !.left = Cycles(Len(r.item.data)), !.item = NoItem]
      BY <1>6, RxStepCases
    <3> HIDE DEF s
    <3> QED
      BY <2>1, <3>1, SendingFields
  <2>3. Collected(s) = {} /\ Parsing(s) = M
    BY <2>2 DEF Collected, Parsing, Holding
  <2> HIDE DEF s, C, M
  <2>4. Below(ahead \cup C, Collected(s) \cup Parsing(s)) /\ Below(Collected(s), Parsing(s))
    BY <2>3, <1>1 DEF Below
  <2>5. (ahead \cup C) \cup Collected(s) \cup Parsing(s) = ahead \cup C \cup M
    BY <2>3
  <2>6. RxOrder(ahead \cup C, s)
    BY <2>2, <2>4, <2>5, <1>1 DEF RxOrder
  <2> QED
    BY <2>6, <2>1, <1>6 DEF s
<1>7. CASE r.phase = "processing"
  <2>1. r.item \in Carried
    BY <1>7 DEF Holding
  <2>2. s = RxProcessing(r)
    BY <1>7, RxStepCases
  <2>3. /\ s.item.meta = r.item.meta /\ s.phase \in {"ready", "processing"}
        /\ r.inq = <<>> => s.inq = r.inq /\ s.metas = r.metas /\ s.consuming = r.consuming
        /\ r.inq # <<>> => s.inq = Tail(r.inq) /\ s.metas = mm /\ s.consuming = ~IsLast(word)
    BY <1>7, <2>1, <2>2, ProcessingFields
  <2>4. Collected(s) = C
    BY <1>7, <2>3 DEF Collected, Holding
  <2> HIDE DEF s, mm, C
  <2>5. CASE r.inq = <<>>
    <3>1. RxOrder(ahead, s)
      BY <2>3, <2>4, <2>5, <1>1 DEF RxOrder, Parsing
    <3> QED
      BY <3>1, <1>7 DEF s
  <2>6. CASE r.inq # <<>>
    <3>1. Parsing(s) = parsed
      BY <2>3, <2>6 DEF Parsing
    <3> HIDE DEF parsed, word
    <3>2. RxOrder(ahead, s)
      BY <2>3, <2>4, <2>6, <3>1, <1>5 DEF RxOrder
    <3> QED
      BY <3>2, <1>7 DEF s
  <2> QED
    BY <2>5, <2>6
<1>8. CASE r.phase = "idle" /\ r.inq # <<>>
  <2>1. /\ s.inq = Tail(r.inq) /\ s.consuming = ~IsLast(word)
        /\ mm = <<>> => s.phase = "idle" /\ s.metas = <<>>
        /\ mm # <<>> => /\ s.item.meta = Head(mm) /\ s.metas = <<>>
                        /\ s.phase \in {"ready", "processing"}
    <3> DEFINE u == RxStart(p, r)
    <3>1. s = u
      BY <1>8, RxStepCases
    <3>2. /\ u.inq = Tail(r.inq) /\ u.consuming = ~IsLast(word)
          /\ mm = <<>> => u.phase = "idle" /\ u.metas = <<>>
          /\ mm # <<>> => /\ u.item = [in |-> p, meta |-> Head(mm), data |-> <<word>>]
                          /\ u.metas = <<>>
                          /\ u.phase = IF u.left = 0 /\ u.complete THEN "ready"
                                                                   ELSE "processing"
      BY <1>8, StartFields
    <3> HIDE DEF s, u, mm, word
    <3> QED
      BY <3>1, <3>2
  <2>2. C = {}
    BY <1>8 DEF Collected, Holding
  <2>3. Parsing(s) = {} /\ Increasing(s.metas) /\ s.metas = <<>>
    BY <2>1 DEF Parsing, Increasing
  <2>4. Collected(s) \in SUBSET parsed
    <3>1. CASE mm = <<>>
      BY <3>1, <2>1 DEF Collected, Holding
    <3>2. CASE mm # <<>>
      <4>1. Collected(s) = {Head(mm)}
        BY <3>2, <2>1 DEF Collected, Holding
      <4>2. Head(mm) = mm[1] /\ 1 \in DOMAIN mm
        BY <3>2, <1>5, <1>8, Taken
      <4> QED
        BY <4>1, <4>2
    <3> QED
      BY <3>1, <3>2
  <2> HIDE DEF s, mm, parsed, word, C
  <2>5. Below(ahead, Collected(s) \cup Parsing(s)) /\ Below(Collected(s), Parsing(s))
    BY <2>3, <2>4, <1>5, <1>8 DEF Below
  <2>6. After(ahead \cup Collected(s) \cup Parsing(s), Tail(r.inq), ~IsLast(word))
    <3>1. ahead \cup Collected(s) \cup Parsing(s) \in SUBSET (ahead \cup C \cup parsed)
      BY <2>3, <2>4
    <3> QED
      BY <3>1, <1>5, <1>8, AfterSubset
  <2>7. RxOrder(ahead, s)
    BY <2>1, <2>3, <2>5, <2>6, <1>5, <1>8 DEF RxOrder
  <2> QED
    BY <2>7, <1>8 DEF s
<1>9. CASE \/ r.phase = "ready" /\ hash.ii # 0
           \/ r.phase = "idle" /\ r.inq = <<>>
           \/ r.phase = "sending"
  BY <1>9, RxStepCases
<1>10. r.phase \in {"idle", "processing", "ready", "sending"}
  BY DEF RxStates, Phases
<1> QED
  BY <1>6, <1>7, <1>8, <1>9, <1>10

-------------------------------------------------------------------------------
(* What has left the RX stages: packets join at the end. *)
LEMMA FunctionIsSeq ==
  ASSUME NEW E, NEW n \in Nat, NEW f \in [1 .. n -> E]
  PROVE  f \in Seq(E) /\ Len(f) = n /\ DOMAIN f = 1 .. n
  OBVIOUS

LEMMA Relabelled ==
  ASSUME NEW E, NEW a \in Seq(E), NEW b \in Seq(E), b # <<>>, NEW h \in E,
         h.in = Head(b).in, h.meta = Head(b).meta
  PROVE  Labels(Append(a, h) \o Tail(b)) = Labels(a \o b)
<1>1. /\ Len(a) \in Nat /\ Append(a, h) \in Seq(E) /\ Len(Append(a, h)) = Len(a) + 1
      /\ \A k \in 1 .. Len(a) : Append(a, h)[k] = a[k]
      /\ Append(a, h)[Len(a) + 1] = h
  BY Appended
<1>2. /\ Tail(b) \in Seq(E) /\ Len(b) \in Nat \ {0} /\ Len(Tail(b)) = Len(b) - 1
      /\ Head(b) = b[1] /\ \A k \in 1 .. Len(b) - 1 : Tail(b)[k] = b[k + 1]
  BY Taken
<1> DEFINE c == Append(a, h)
           t == Tail(b)
           q == a \o b
           r == c \o t
<1>3. Len(q) = Len(a) + Len(b)
      /\ \A k \in 1 .. Len(a) + Len(b) : q[k] = IF k <= Len(a) THEN a[k] ELSE b[k - Len(a)]
  BY ConcatProperties
<1> HIDE DEF c, t
<1>4. Len(r) = Len(c) + Len(t)
      /\ \A k \in 1 .. Len(c) + Len(t) : r[k] = IF k <= Len(c) THEN c[k] ELSE t[k - Len(c)]
  BY <1>1, <1>2, ConcatProperties DEF c, t
<1> HIDE DEF q, r
<1>5. Len(r) = Len(q)
  BY <1>1, <1>2, <1>3, <1>4 DEF c, t
<1>6. ASSUME NEW k \in 1 .. Len(q) PROVE r[k].in = q[k].in /\ r[k].meta = q[k].meta
  <2>1. CASE k <= Len(a)
    <3>1. r[k] = c[k] /\ q[k] = a[k] /\ c[k] = a[k]
      BY <2>1, <1>1, <1>2, <1>3, <1>4 DEF c, t
    <3> QED
      BY <3>1
  <2>2. CASE k = Len(a) + 1
    <3>1. r[k] = h
      BY <2>2, <1>1, <1>2, <1>4 DEF c, t
    <3>2. q[k] = b[1]
      BY <2>2, <1>1, <1>2, <1>3
    <3> QED
      BY <3>1, <3>2, <1>2
  <2>3. CASE k > Len(a) + 1
    <3>1. r[k] = t[k - (Len(a) + 1)] /\ k - (Len(a) + 1) \in 1 .. Len(b) - 1
      BY <2>3, <1>1, <1>2, <1>3, <1>4 DEF c, t
    <3>2. t[k - (Len(a) + 1)] = b[(k - (Len(a) + 1)) + 1]
      BY <3>1, <1>2 DEF t
    <3>3. (k - (Len(a) + 1)) + 1 = k - Len(a)
      BY <1>1
    <3>4. q[k] = b[k - Len(a)]
      BY <2>3, <1>1, <1>3
    <3> QED
      BY <3>1, <3>2, <3>3, <3>4
  <2>4. k <= Len(a) \/ k = Len(a) + 1 \/ k > Len(a) + 1
    BY <1>1, <1>2, <1>3
  <2> QED
    BY <2>1, <2>2, <2>3, <2>4
<1>7. Labels(r) = Labels(q)
  BY <1>5, <1>6 DEF Labels
<1> QED
  BY <1>7 DEF c, t, q, r

LEMMA QueuedType ==
  ASSUME PipelineOK
  PROVE  /\ LookedUp \in Seq(Carried \cup CarriedTo) /\ rxToHash \in Seq(Carried \cup CarriedTo)
         /\ LookedUp \o rxToHash \in Seq(Carried \cup CarriedTo)
         /\ Queued \in Seq([in : Ports, meta : Arrived])
         /\ Len(Queued) = Len(LookedUp \o rxToHash)
         /\ \A n \in 1 .. Len(LookedUp) :
              /\ n \in DOMAIN Queued
              /\ Queued[n].in = LookedUp[n].in /\ Queued[n].meta = LookedUp[n].meta
         /\ \A p : Ahead(p) \in SUBSET Arrived /\ Ahead(p) \in SUBSET Nat
<1> DEFINE E == Carried \cup CarriedTo
           q == LookedUp \o rxToHash
<1>1. LookedUp \in Seq(E) /\ rxToHash \in Seq(E)
  BY LookedUpType, SeqMonotonic DEF PipelineOK, QueuesOK
<1>2. \A x \in E : x.in \in Ports /\ x.meta \in Arrived
  BY DEF Carried, CarriedTo
<1> HIDE DEF E
<1>3. /\ q \in Seq(E) /\ Len(LookedUp) \in Nat /\ Len(rxToHash) \in Nat
      /\ Len(q) = Len(LookedUp) + Len(rxToHash)
      /\ \A k \in 1 .. Len(LookedUp) : q[k] = LookedUp[k]
  BY <1>1, Joined
<1> HIDE DEF q
<1>4. Queued = [n \in 1 .. Len(q) |-> [in |-> q[n].in, meta |-> q[n].meta]]
  BY DEF Queued, Labels, q
<1>5. \A n \in 1 .. Len(q) : q[n].in \in Ports /\ q[n].meta \in Arrived
  BY <1>2, <1>3, ElementOfSeq
<1>6. Queued \in Seq([in : Ports, meta : Arrived]) /\ Len(Queued) = Len(q)
      /\ DOMAIN Queued = 1 .. Len(q)
  <2>1. Len(q) \in Nat
    BY <1>3
  <2>2. Queued \in [1 .. Len(q) -> [in : Ports, meta : Arrived]]
    BY <1>4, <1>5
  <2> QED
    BY <2>1, <2>2, FunctionIsSeq
<1>7. \A n \in 1 .. Len(LookedUp) :
        /\ n \in DOMAIN Queued
        /\ Queued[n].in = LookedUp[n].in /\ Queued[n].meta = LookedUp[n].meta
  <2>1. \A n \in 1 .. Len(LookedUp) : n \in 1 .. Len(q)
    BY <1>3
  <2> QED
    BY <2>1, <1>3, <1>4, <1>6
<1>8. \A p : Ahead(p) \in SUBSET Arrived /\ Ahead(p) \in SUBSET Nat
  <2>1. \A n \in DOMAIN Queued : Queued[n].meta \in Arrived
    BY <1>4, <1>5, <1>6
  <2>2. Arrived \subseteq Nat
    BY DEF Arrived
  <2> QED
    BY <2>1, <2>2 DEF Ahead
<1> QED
  BY <1>1, <1>3, <1>6, <1>7, <1>8 DEF E, q

-------------------------------------------------------------------------------
(* The order of arrival survives every step. *)
LEMMA RxOrderSubset ==
  ASSUME NEW ahead, NEW part \in SUBSET ahead, NEW r, RxOrder(ahead, r)
  PROVE  RxOrder(part, r)
  BY DEF RxOrder, Below, After

LEMMA RxOrderNext ==
  ASSUME received' = received, NEW p, NEW ahead, NEW r, ahead = Ahead(p)', r = rx'[p],
         RxOrder(ahead, r)
  PROVE  RxOrder(Ahead(p), rx[p])'
  BY DEF RxOrder, Below, After, WordOrder, Increasing, Collected, Parsing, Holding, IsLast

LEMMA OrderUntouched ==
  ASSUME OrderInv, received' = received, Queued' = Queued,
         \A p \in Ports : /\ rx'[p].inq = rx[p].inq /\ rx'[p].metas = rx[p].metas
                          /\ rx'[p].consuming = rx[p].consuming
                          /\ Collected(rx'[p]) = Collected(rx[p])
  PROVE  OrderInv'
<1>1. PortOrder(Queued)'
  BY DEF OrderInv, PortOrder
<1>2. ASSUME NEW p \in Ports PROVE RxOrder(Ahead(p), rx[p])'
  <2>1. RxOrder(Ahead(p), rx[p])
    BY DEF OrderInv
  <2>2. PICK a, r : a = Ahead(p)' /\ r = rx'[p]
    OBVIOUS
  <2>3. a = Ahead(p)
    BY <2>2 DEF Ahead
  <2>4. /\ r.inq = rx[p].inq /\ r.metas = rx[p].metas /\ r.consuming = rx[p].consuming
        /\ Collected(r) = Collected(rx[p])
    BY <2>2
  <2>5. Parsing(r) = Parsing(rx[p])
    BY <2>4 DEF Parsing
  <2>6. RxOrder(a, r)
    BY <2>1, <2>3, <2>4, <2>5 DEF RxOrder
  <2> QED
    BY <2>2, <2>6, RxOrderNext
<1> QED
  BY <1>1, <1>2 DEF OrderInv

LEMMA ReceiveOrdered ==
  ASSUME PipelineOK, OrderInv, NEW pkt \in Traffic, ReceivePacket(pkt), LookedUp' = LookedUp
  PROVE  OrderInv'
<1>1. /\ received' = Append(received, pkt) /\ Len(received) \in Nat
      /\ pkt.in \in Ports /\ pkt.words \in Nat \ {0} /\ rxToHash' = rxToHash
      /\ rx \in [Ports -> RxStates]
  BY CoreAssumption DEF ReceivePacket, PipelineOK, ArrivalsOK, RxOK
<1> DEFINE N == Len(received) + 1
           news == [k \in 1 .. pkt.words |-> <<N, k>>]
<1>2. /\ received'[N] = pkt /\ N \in Nat /\ \A n \in Arrived : n \in Nat /\ n < N
      /\ \A n \in Arrived : received'[n] = received[n]
  BY <1>1 DEF PipelineOK, ArrivalsOK, Arrived
<1>3. \A p \in Ports : rx'[p] = IF p = pkt.in THEN [rx[p] EXCEPT !.inq = @ \o news] ELSE rx[p]
  BY <1>1 DEF ReceivePacket
<1>4. Queued' = Queued
  BY <1>1 DEF Queued
<1>5. PortOrder(Queued)'
  BY <1>4 DEF OrderInv, PortOrder
<1> HIDE DEF N, news
<1>6. ASSUME NEW p \in Ports PROVE RxOrder(Ahead(p), rx[p])'
  <2>1. PICK a, r, q : a = Ahead(p)' /\ r = rx'[p] /\ q = rx'[p].inq
    OBVIOUS
  <2>2. a = Ahead(p) /\ a \in SUBSET Arrived
    <3>1. Ahead(p)' = Ahead(p)
      BY <1>4 DEF Ahead
    <3> QED
      BY <3>1, <2>1, QueuedType
  <2> DEFINE old == rx[p].inq
             seen == a \cup Collected(rx[p]) \cup Parsing(rx[p])
  <2>3. /\ rx[p] \in RxStates
        /\ Holding(rx[p]) => rx[p].item \in Carried
    BY DEF PipelineOK, RxOK
  <2>4. old \in Seq(ArrivedWords) /\ rx[p].metas \in Seq(Arrived)
    BY <2>3 DEF RxStates
  <2>5. seen \in SUBSET Arrived
    <3>1. \A k \in DOMAIN rx[p].metas : rx[p].metas[k] \in Arrived
      BY <2>4, ElementOfSeq, LenProperties
    <3>2. Holding(rx[p]) => rx[p].item.meta \in Arrived
      BY <2>3 DEF Carried
    <3> QED
      BY <2>2, <3>1, <3>2 DEF Collected, Parsing
  <2>6. /\ Below(a, Collected(rx[p]) \cup Parsing(rx[p]))
        /\ Below(Collected(rx[p]), Parsing(rx[p]))
        /\ Increasing(rx[p].metas)
        /\ After(seen, old, rx[p].consuming)
        /\ WordOrder(old)
    BY <2>2 DEF OrderInv, RxOrder
  <2>7. /\ r.metas = rx[p].metas /\ r.consuming = rx[p].consuming
        /\ r.item = rx[p].item /\ r.phase = rx[p].phase
        /\ r.inq = q
    BY <2>1, <1>3, <2>3 DEF RxStates
  <2>8. Collected(r) = Collected(rx[p]) /\ Parsing(r) = Parsing(rx[p])
    BY <2>7 DEF Collected, Parsing, Holding
  <2>9. q = IF p = pkt.in THEN old \o news ELSE old
    BY <2>1, <1>3, <2>3 DEF RxStates
  <2> HIDE DEF old, seen
  <2>10. \A k \in DOMAIN old : old[k][1] \in Arrived
    BY <2>4, WordTypes
  <2>11. /\ DOMAIN old \subseteq DOMAIN q
         /\ \A k \in DOMAIN q :
              \/ k \in DOMAIN old /\ q[k] = old[k]
              \/ /\ q[k] = <<N, k - Len(old)>> /\ k - Len(old) \in 1 .. pkt.words
                 /\ \A j \in DOMAIN old : j < k
         /\ \A k \in DOMAIN q : k \in Nat
         /\ Len(old) \in Nat
    <3>1. DOMAIN old = 1 .. Len(old) /\ Len(old) \in Nat
      BY <2>4
    <3>2. CASE p # pkt.in
      BY <3>1, <3>2, <2>9
    <3>3. CASE p = pkt.in
      <4>1. news \in Seq(Nat \X Nat) /\ Len(news) = pkt.words /\ \A k \in 1 .. pkt.words : news[k] = <<N, k>>
        <5>1. news \in [1 .. pkt.words -> Nat \X Nat] /\ pkt.words \in Nat
          BY <1>1, <1>2 DEF news
        <5> QED
          BY <5>1, FunctionIsSeq DEF news
      <4>2. old \in Seq(Nat \X Nat)
        <5>1. ArrivedWords \subseteq Nat \X Nat
          BY DEF ArrivedWords, Arrived
        <5> QED
          BY <5>1, <2>4, SeqMonotonic
      <4>3. /\ q \in Seq(Nat \X Nat) /\ Len(q) = Len(old) + pkt.words
            /\ \A k \in 1 .. Len(old) + pkt.words :
                 q[k] = IF k <= Len(old) THEN old[k] ELSE news[k - Len(old)]
        <5>1. /\ old \o news \in Seq(Nat \X Nat) /\ Len(old \o news) = Len(old) + Len(news)
              /\ \A k \in 1 .. Len(old) + Len(news) :
                   (old \o news)[k] = IF k <= Len(old) THEN old[k] ELSE news[k - Len(old)]
          BY <4>1, <4>2, ConcatProperties
        <5>2. q = old \o news
          BY <3>3, <2>9
        <5> QED
          BY <5>1, <5>2, <4>1
      <4>4. DOMAIN q = 1 .. Len(old) + pkt.words
        BY <4>3
      <4>5. ASSUME NEW k \in DOMAIN q, ~(k <= Len(old))
            PROVE  /\ q[k] = <<N, k - Len(old)>> /\ k - Len(old) \in 1 .. pkt.words
                   /\ \A j \in DOMAIN old : j < k
        <5>1. k - Len(old) \in 1 .. pkt.words /\ \A j \in DOMAIN old : j < k
          BY <3>1, <4>4, <4>5, <1>1
        <5>2. q[k] = news[k - Len(old)]
          BY <4>3, <4>4, <4>5
        <5> QED
          BY <5>1, <5>2, <4>1
      <4>6. DOMAIN old \subseteq DOMAIN q /\ \A k \in DOMAIN q : k \in Nat
        BY <3>1, <4>4, <1>1
      <4>7. \A k \in DOMAIN q : k <= Len(old) => k \in DOMAIN old /\ q[k] = old[k]
        BY <3>1, <4>3, <4>4, <1>1
      <4> QED
        BY <3>1, <4>5, <4>6, <4>7
    <3> QED
      BY <3>2, <3>3
  <2>12. After(seen, q, r.consuming)
    <3> SUFFICES ASSUME NEW n \in seen, NEW k \in DOMAIN q
                 PROVE  n <= q[k][1] /\ (~r.consuming => n < q[k][1])
      BY DEF After
    <3>1. CASE k \in DOMAIN old /\ q[k] = old[k]
      BY <3>1, <2>6, <2>7 DEF After
    <3>2. CASE q[k] = <<N, k - Len(old)>>
      BY <3>2, <2>5, <1>2
    <3> QED
      BY <3>1, <3>2, <2>11
  <2>13. ASSUME NEW j \in DOMAIN q, NEW k \in DOMAIN q, j < k
         PROVE  /\ q[j][1] <= q[k][1]
                /\ q[j][2] = received'[q[j][1]].words => q[j][1] < q[k][1]
    <3>1. CASE k \in DOMAIN old /\ q[k] = old[k]
      <4>1. j \in DOMAIN old /\ q[j] = old[j]
        <5>1. ~(\A i \in DOMAIN old : i < j)
          BY <3>1, <2>11, <2>13
        <5> QED
          BY <5>1, <2>11
      <4>2. q[j][1] \in Arrived
        BY <4>1, <2>10
      <4>3. received'[q[j][1]] = received[q[j][1]]
        BY <4>2, <1>2
      <4> QED
        BY <3>1, <4>1, <4>3, <2>6, <2>13 DEF WordOrder, IsLast
    <3>2. CASE q[k] = <<N, k - Len(old)>> /\ k - Len(old) \in 1 .. pkt.words
      <4>1. CASE j \in DOMAIN old /\ q[j] = old[j]
        <5>1. q[j][1] \in Arrived
          BY <4>1, <2>10
        <5> QED
          BY <5>1, <3>2, <1>2
      <4>2. CASE q[j] = <<N, j - Len(old)>> /\ j - Len(old) \in 1 .. pkt.words
        <5>1. q[j][1] = N /\ q[k][1] = N /\ received'[q[j][1]].words = pkt.words
              /\ q[j][2] = j - Len(old)
          BY <4>2, <3>2, <1>2
        <5>2. j \in Nat /\ k \in Nat /\ Len(old) \in Nat /\ pkt.words \in Nat
          BY <2>11, <1>1
        <5>3. j - Len(old) # pkt.words
          BY <3>2, <5>2, <2>13
        <5> QED
          BY <5>1, <5>3, <1>2
      <4> QED
        BY <4>1, <4>2, <2>11
    <3> QED
      BY <3>1, <3>2, <2>11
  <2>14. WordOrder(rx[p].inq)'
    BY <2>13, <2>1 DEF WordOrder, IsLast
  <2>15. /\ Below(a, Collected(r) \cup Parsing(r)) /\ Below(Collected(r), Parsing(r))
         /\ Increasing(r.metas)
         /\ After(a \cup Collected(r) \cup Parsing(r), r.inq, r.consuming)
    BY <2>6, <2>7, <2>8, <2>12 DEF seen
  <2> HIDE DEF old
  <2> QED
    BY <2>1, <2>14, <2>15 DEF RxOrder, Below, After, Increasing, Collected, Parsing, Holding
<1> QED
  BY <1>5, <1>6 DEF OrderInv

(* A packet handed on joins the queue as the youngest of its port. *)
LEMMA QueuedGrows ==
  ASSUME PipelineOK, ProcessRxStage, LookedUp' = LookedUp
  PROVE  \E s \in Ascending(Handing) :
           LET h == HandedBy(s)
           IN /\ Len(Queued) \in Nat /\ Len(h) \in Nat /\ DOMAIN Queued = 1 .. Len(Queued)
              /\ DOMAIN Queued' = 1 .. Len(Queued) + Len(h)
              /\ \A k \in 1 .. Len(Queued) : Queued'[k] = Queued[k]
              /\ \A k \in 1 .. Len(h) :
                   /\ s[k] \in Handing
                   /\ Queued'[Len(Queued) + k] = [in |-> s[k], meta |-> rx[s[k]].item.meta]
              /\ \A j, k \in 1 .. Len(h) : j < k => s[j] < s[k]
<1> DEFINE E == Carried \cup CarriedTo
           q == LookedUp \o rxToHash
<1>1. PICK s \in Ascending(Handing) : rxToHash' = rxToHash \o HandedBy(s)
  BY DEF ProcessRxStage, Handing, HandedBy
<1> DEFINE h == HandedBy(s)
<1>2. /\ h \in Seq(Carried) /\ DOMAIN s = 1 .. Len(h)
      /\ \A k \in DOMAIN s : s[k] \in Handing /\ h[k] = rx[s[k]].item /\ rx[s[k]].item.in = s[k]
  BY <1>1, Handed DEF PipelineOK
<1>3. \A j, k \in DOMAIN s : j < k => s[j] < s[k]
  BY <1>1 DEF Ascending
<1> HIDE DEF h
<1>4. /\ LookedUp \in Seq(E) /\ rxToHash \in Seq(E) /\ h \in Seq(E)
      /\ q \in Seq(E) /\ Len(Queued) = Len(q)
  BY <1>2, QueuedType, SeqMonotonic
<1> HIDE DEF q, E
<1>5. LookedUp' \o rxToHash' = q \o h
  <2>1. LookedUp' \o rxToHash' = LookedUp \o (rxToHash \o h)
    BY <1>1 DEF h
  <2>2. LookedUp \o (rxToHash \o h) = (LookedUp \o rxToHash) \o h
    <3>1. \A a, b, c \in Seq(E) : a \o (b \o c) = (a \o b) \o c
      BY ConcatAssociative
    <3> QED
      BY <1>4, <3>1, Zenon
  <2> QED
    BY <2>1, <2>2 DEF q
<1> DEFINE r == q \o h
<1>6. /\ Len(q) \in Nat /\ Len(h) \in Nat /\ Len(r) = Len(q) + Len(h)
      /\ \A k \in 1 .. Len(q) : r[k] = q[k]
      /\ \A k \in 1 .. Len(h) : r[Len(q) + k] = h[k]
  BY <1>4, Joined
<1> HIDE DEF r
<1>7. Queued = [n \in 1 .. Len(q) |-> [in |-> q[n].in, meta |-> q[n].meta]]
  BY DEF Queued, Labels, q
<1>8. Queued' = [n \in 1 .. Len(r) |-> [in |-> r[n].in, meta |-> r[n].meta]]
  BY <1>5 DEF Queued, Labels, r
<1>9. \A k \in 1 .. Len(q) : Queued'[k] = Queued[k]
  <2>1. \A k \in 1 .. Len(q) : k \in 1 .. Len(r)
    BY <1>6
  <2> QED
    BY <2>1, <1>6, <1>7, <1>8
<1>10. ASSUME NEW k \in 1 .. Len(h)
       PROVE  /\ s[k] \in Handing
              /\ Queued'[Len(q) + k] = [in |-> s[k], meta |-> rx[s[k]].item.meta]
  <2>1. Len(q) + k \in 1 .. Len(r)
    BY <1>6
  <2> QED
    BY <2>1, <1>2, <1>6, <1>8
<1>11. DOMAIN Queued = 1 .. Len(q) /\ DOMAIN Queued' = 1 .. Len(q) + Len(h)
  BY <1>6, <1>7, <1>8
<1>12. Len(Queued) = Len(q) /\ \A j, k \in 1 .. Len(h) : j < k => s[j] < s[k]
  BY <1>2, <1>3, <1>4
<1> HIDE DEF r
<1>13. /\ Len(Queued) \in Nat /\ Len(h) \in Nat /\ DOMAIN Queued = 1 .. Len(Queued)
       /\ DOMAIN Queued' = 1 .. Len(Queued) + Len(h)
       /\ \A k \in 1 .. Len(Queued) : Queued'[k] = Queued[k]
       /\ \A k \in 1 .. Len(h) :
            /\ s[k] \in Handing
            /\ Queued'[Len(Queued) + k] = [in |-> s[k], meta |-> rx[s[k]].item.meta]
       /\ \A j, k \in 1 .. Len(h) : j < k => s[j] < s[k]
  BY <1>6, <1>9, <1>10, <1>11, <1>12
<1> QED
  BY <1>13 DEF h

LEMMA HandOrdered ==
  ASSUME PipelineOK, OrderInv, ProcessRxStage, LookedUp' = LookedUp
  PROVE  OrderInv'
<1> DEFINE n == Len(Queued)
<1>1. PICK s \in Ascending(Handing) :
        LET h == HandedBy(s)
        IN /\ Len(Queued) \in Nat /\ Len(h) \in Nat /\ DOMAIN Queued = 1 .. Len(Queued)
           /\ DOMAIN Queued' = 1 .. Len(Queued) + Len(h)
           /\ \A k \in 1 .. Len(Queued) : Queued'[k] = Queued[k]
           /\ \A k \in 1 .. Len(h) :
                /\ s[k] \in Handing
                /\ Queued'[Len(Queued) + k] = [in |-> s[k], meta |-> rx[s[k]].item.meta]
           /\ \A j, k \in 1 .. Len(h) : j < k => s[j] < s[k]
  BY QueuedGrows
<1> DEFINE l == Len(HandedBy(s))
<1>2. /\ n \in Nat /\ l \in Nat
      /\ DOMAIN Queued = 1 .. n /\ DOMAIN Queued' = 1 .. n + l
      /\ \A k \in 1 .. n : Queued'[k] = Queued[k]
      /\ \A k \in 1 .. l : s[k] \in Handing /\ Queued'[n + k] = [in |-> s[k], meta |-> rx[s[k]].item.meta]
      /\ \A j, k \in 1 .. l : j < k => s[j] < s[k]
  BY <1>1
<1> HIDE DEF n, l
<1>3. \A k \in 1 .. n + l : k \in 1 .. n \/ (k - n \in 1 .. l /\ n + (k - n) = k)
  BY <1>2
<1>4. \A k \in DOMAIN Queued' : k \notin 1 .. n =>
         /\ Queued'[k].in \in Handing
         /\ Queued'[k].meta = rx[Queued'[k].in].item.meta
  <2> SUFFICES ASSUME NEW k \in 1 .. n + l, k \notin 1 .. n
               PROVE  /\ Queued'[k].in \in Handing
                      /\ Queued'[k].meta = rx[Queued'[k].in].item.meta
    BY <1>2
  <2>1. k - n \in 1 .. l /\ n + (k - n) = k
    BY <1>3
  <2> DEFINE d == k - n
  <2>2. d \in 1 .. l /\ n + d = k
    BY <2>1
  <2> HIDE DEF d
  <2>3. s[d] \in Handing /\ Queued'[k] = [in |-> s[d], meta |-> rx[s[d]].item.meta]
    BY <2>2, <1>2
  <2> QED
    BY <2>3
<1>5. \A p \in Handing : p \in Ports /\ Collected(rx[p]) = {rx[p].item.meta}
  BY DEF Handing, Collected, Holding
<1>6. \A p \in Ports : Below(Ahead(p), Collected(rx[p]))
  <2>1. \A p \in Ports : RxOrder(Ahead(p), rx[p])
    BY DEF OrderInv
  <2> QED
    BY <2>1 DEF RxOrder, Below
<1>7. PortOrder(Queued)'
  <2> SUFFICES ASSUME NEW j \in DOMAIN Queued', NEW k \in DOMAIN Queued', j < k,
                      Queued'[j].in = Queued'[k].in
               PROVE  Queued'[j].meta < Queued'[k].meta
    BY DEF PortOrder
  <2>1. CASE k \in 1 .. n
    <3>1. j \in 1 .. n
      BY <2>1, <1>2
    <3> QED
      BY <2>1, <3>1, <1>2 DEF OrderInv, PortOrder
  <2>2. CASE k \notin 1 .. n /\ j \in 1 .. n
    <3> DEFINE p == Queued'[k].in
    <3>1. p \in Handing /\ Queued'[k].meta = rx[p].item.meta
      BY <2>2, <1>4
    <3> HIDE DEF p
    <3>2. Queued[j].meta \in Ahead(p)
      <4>1. j \in DOMAIN Queued /\ Queued[j].in = p
        BY <2>2, <1>2 DEF p
      <4> QED
        BY <4>1 DEF Ahead
    <3>3. Queued'[k].meta \in Collected(rx[p]) /\ p \in Ports
      BY <3>1, <1>5
    <3> QED
      BY <2>2, <3>2, <3>3, <1>2, <1>6 DEF Below
  <2>3. CASE k \notin 1 .. n /\ j \notin 1 .. n
    <3> DEFINE c == j - n
               d == k - n
    <3>1. c \in 1 .. l /\ d \in 1 .. l /\ n + c = j /\ n + d = k /\ c < d
      BY <2>3, <1>2, <1>3
    <3> HIDE DEF c, d
    <3>2. Queued'[n + c].in = s[c] /\ Queued'[n + d].in = s[d] /\ s[c] < s[d]
      <4>1. Queued'[n + c] = [in |-> s[c], meta |-> rx[s[c]].item.meta]
        BY <3>1, <1>2
      <4>2. Queued'[n + d] = [in |-> s[d], meta |-> rx[s[d]].item.meta]
        BY <3>1, <1>2
      <4>3. s[c] < s[d]
        BY <3>1, <1>2
      <4> QED
        BY <4>1, <4>2, <4>3
    <3>3. s[c] \in Handing /\ s[c] = s[d]
      BY <3>1, <3>2, <1>2
    <3>4. Handing \subseteq Nat
      BY DEF Handing, Ports
    <3>5. s[c] \in Nat
      BY <3>3, <3>4
    <3> QED
      BY <3>2, <3>3, <3>5
  <2> QED
    BY <2>1, <2>2, <2>3
<1>8. ASSUME NEW p \in Ports PROVE RxOrder(Ahead(p), rx[p])'
  <2> DEFINE full == IF rx[p].phase = "ready" /\ hash.ii = 0
                     THEN Ahead(p) \cup {rx[p].item.meta} ELSE Ahead(p)
  <2>1. RxOrder(full, RxStep(p, rx[p]))
    <3>1. RxOrder(Ahead(p), rx[p]) /\ Ahead(p) \in SUBSET Nat /\ rx[p] \in RxStates
          /\ (Holding(rx[p]) => rx[p].item \in Carried /\ rx[p].item.in = p)
      BY QueuedType DEF OrderInv, PipelineOK, RxOK
    <3> QED
      BY <3>1, RxOrderStep
  <2>2. PICK a, r : a = Ahead(p)' /\ r = rx'[p]
    OBVIOUS
  <2>3. r = RxStep(p, rx[p]) /\ received' = received
    BY <2>2 DEF ProcessRxStage
  <2>4. a \subseteq full
    <3> SUFFICES ASSUME NEW k \in DOMAIN Queued', Queued'[k].in = p
                 PROVE  Queued'[k].meta \in full
      BY <2>2 DEF Ahead
    <3>1. CASE k \in 1 .. n
      <4>1. k \in DOMAIN Queued /\ Queued[k].in = p /\ Queued'[k].meta = Queued[k].meta
        BY <3>1, <1>2
      <4>2. Queued[k].meta \in Ahead(p)
        BY <4>1 DEF Ahead
      <4> QED
        BY <4>1, <4>2
    <3>2. CASE k \notin 1 .. n
      <4>1. p \in Handing /\ Queued'[k].meta = rx[p].item.meta
        BY <3>2, <1>4
      <4> QED
        BY <4>1 DEF Handing
    <3> QED
      BY <3>1, <3>2
  <2> HIDE DEF full
  <2>5. RxOrder(a, r)
    BY <2>1, <2>3, <2>4, RxOrderSubset
  <2> QED
    BY <2>2, <2>3, <2>5, RxOrderNext
<1> QED
  BY <1>7, <1>8 DEF OrderInv

LEMMA RestOrdered == AtRest => OrderInv
<1> SUFFICES ASSUME AtRest PROVE OrderInv
  OBVIOUS
<1>1. offeredAs = <<>> /\ hashToBuffer = <<>> /\ rxToHash = <<>> /\ InHash = <<>>
  BY DEF AtRest, RestInit, IdleHash, InHash, Holding
<1>2. LookedUp \o rxToHash = <<>>
  BY <1>1 DEF LookedUp
<1>3. DOMAIN Queued = {}
  <2>1. Len(LookedUp \o rxToHash) = 0
    BY <1>2
  <2> QED
    BY <2>1 DEF Queued, Labels
<1>4. PortOrder(Queued) /\ \A p : Ahead(p) = {}
  BY <1>3 DEF PortOrder, Ahead
<1>5. ASSUME NEW p \in Ports PROVE RxOrder(Ahead(p), rx[p])
  <2>1. rx[p].phase = "idle" /\ rx[p].metas = <<>> /\ rx[p].inq = <<>>
    BY DEF AtRest, IdleRx
  <2>2. DOMAIN rx[p].metas = {} /\ DOMAIN rx[p].inq = {}
    BY <2>1
  <2>3. Collected(rx[p]) = {} /\ Parsing(rx[p]) = {}
    BY <2>1, <2>2 DEF Collected, Parsing, Holding
  <2> QED
    BY <1>4, <2>2, <2>3 DEF RxOrder, Below, After, WordOrder, Increasing
<1> QED
  BY <1>4, <1>5 DEF OrderInv

LEMMA StepOrdered ==
  ASSUME PipelineOK, OrderInv, [CoreNext]_coreVars
  PROVE  OrderInv'
<1>1. CASE AtRest'
  BY <1>1, RestOrdered, PTL
<1>2. CASE LookedUp' = LookedUp /\ UNCHANGED <<received, rx, rxToHash>>
  <2>1. Queued' = Queued
    BY <1>2 DEF Queued
  <2> QED
    BY <1>2, <2>1, OrderUntouched
<1>3. CASE LookedUp' = LookedUp /\ TickAllModules
  <2>1. Queued' = Queued /\ received' = received
    BY <1>3 DEF Queued, TickAllModules
  <2>2. ASSUME NEW p \in Ports
        PROVE  /\ rx'[p].inq = rx[p].inq /\ rx'[p].metas = rx[p].metas
               /\ rx'[p].consuming = rx[p].consuming
               /\ Collected(rx'[p]) = Collected(rx[p])
    <3> DEFINE s == Ticked(rx[p])
    <3>1. rx'[p] = s
      BY <1>3 DEF TickAllModules
    <3>2. /\ s.inq = rx[p].inq /\ s.metas = rx[p].metas /\ s.consuming = rx[p].consuming
          /\ s.item = rx[p].item /\ (Holding(s) <=> Holding(rx[p]))
      BY TickedFields DEF PipelineOK, RxOK
    <3> QED
      BY <3>1, <3>2 DEF Collected
  <2> QED
    BY <2>1, <2>2, OrderUntouched
<1>4. CASE LookedUp' = LookedUp /\ \E pkt \in Traffic : ReceivePacket(pkt)
  BY <1>4, ReceiveOrdered
<1>5. CASE LookedUp' = LookedUp /\ ProcessRxStage
  BY <1>5, HandOrdered
<1>6. CASE HashAccept /\ hash.engine = 0 /\ ProcessHashStage /\ received' = received
           /\ LookedUp' = Append(LookedUp, hash'.item)
  <2>1. /\ rxToHash # <<>> /\ hash'.item \in CarriedTo /\ rxToHash' = Tail(rxToHash)
        /\ hash'.item.in = Head(rxToHash).in /\ hash'.item.meta = Head(rxToHash).meta
    BY <1>6, AcceptFields
  <2>2. Labels(Append(LookedUp, hash'.item) \o Tail(rxToHash)) = Labels(LookedUp \o rxToHash)
    <3>1. LookedUp \in Seq(Carried \cup CarriedTo) /\ rxToHash \in Seq(Carried \cup CarriedTo)
      BY QueuedType
    <3> HIDE DEF LookedUp
    <3> QED
      BY <2>1, <3>1, Relabelled
  <2>3. Queued' = Queued
    BY <2>1, <2>2, <1>6 DEF Queued, Labels
  <2>4. rx' = rx
    BY <1>6 DEF ProcessHashStage
  <2> QED
    BY <2>3, <2>4, <1>6, OrderUntouched
<1> QED
  BY <1>1, <1>2, <1>3, <1>4, <1>5, <1>6, LookUpSteps

LEMMA OrderKept == CoreSpec => []OrderInv
<1>1. CoreInit => OrderInv
  BY RestOrdered DEF CoreInit, AtRest
<1>2. PipelineOK /\ OrderInv /\ [CoreNext]_coreVars => OrderInv'
  BY StepOrdered
<1> QED
  BY <1>1, <1>2, PipelineTyped, PTL DEF CoreSpec

(* The packets of an input are offered to the buffer in the order in which *)
(* they arrived and none is offered twice, whatever the lengths of the     *)
(* packets and the latencies: an RX engine whose latency ends before its   *)
(* packet may lose words, but never overtakes or repeats a packet.         *)
THEOREM OfferedInOrder == CoreSpec => []ArrivalOrder
<1>1. PipelineOK /\ OrderInv => ArrivalOrder
  <2> SUFFICES ASSUME PipelineOK, OrderInv, NEW m \in 1 .. offered, NEW n \in 1 .. offered,
                      m < n, offeredAs[m].in = offeredAs[n].in
               PROVE  offeredAs[m].meta < offeredAs[n].meta
    BY DEF ArrivalOrder
  <2>1. \A k \in 1 .. offered : /\ k \in DOMAIN Queued
                                /\ Queued[k].in = offeredAs[k].in
                                /\ Queued[k].meta = offeredAs[k].meta
    BY QueuedType, LookedUpType
  <2> QED
    BY <2>1 DEF OrderInv, PortOrder
<1> QED
  BY <1>1, PipelineTyped, OrderKept, PTL

-------------------------------------------------------------------------------
(* When no packet is shorter than the latency of the RX engine, it takes   *)
(* one packet at a time, from the first word to the last.                  *)
LEMMA PopWhole ==
  ASSUME NEW q \in Seq(ArrivedWords), q # <<>>, NEW p, WholeQueue(q, p)
  PROVE  LET word == Head(q)
             t    == Tail(q)
         IN /\ WholeQueue(t, p) /\ received[word[1]].in = p
            /\ IsLast(word) => (t # <<>> => t[1][2] = 1)
            /\ ~IsLast(word) => t # <<>> /\ t[1] = <<word[1], word[2] + 1>>
            /\ \A k \in DOMAIN q : q[k] = word \/ \E j \in DOMAIN t : t[j] = q[k]
<1> DEFINE word == Head(q)
           t == Tail(q)
<1>1. /\ Len(q) \in Nat \ {0} /\ Len(t) = Len(q) - 1 /\ t \in Seq(ArrivedWords)
      /\ word = q[1] /\ \A k \in 1 .. Len(q) - 1 : t[k] = q[k + 1]
      /\ DOMAIN q = 1 .. Len(q)
  BY Taken
<1> HIDE DEF t, word
<1>2. DOMAIN t = 1 .. Len(q) - 1 /\ (t # <<>> <=> Len(t) > 0)
  BY <1>1
<1>3. \A k \in DOMAIN t : k + 1 \in DOMAIN q /\ t[k] = q[k + 1]
  BY <1>1, <1>2
<1>4. ArrivedAt(t, p) /\ received[word[1]].in = p
  BY <1>1, <1>3 DEF WholeQueue, ArrivedAt
<1>5. Chain(t)
  <2> SUFFICES ASSUME NEW k \in DOMAIN t, k + 1 \in DOMAIN t
               PROVE  IF IsLast(t[k]) THEN t[k + 1][2] = 1
                      ELSE t[k + 1] = <<t[k][1], t[k][2] + 1>>
    BY DEF Chain
  <2>1. k + 1 \in DOMAIN q /\ (k + 1) + 1 \in DOMAIN q /\ t[k] = q[k + 1]
        /\ t[k + 1] = q[(k + 1) + 1]
    BY <1>3
  <2> QED
    BY <2>1 DEF WholeQueue, Chain
<1>6. Closed(t)
  <2> SUFFICES ASSUME t # <<>> PROVE IsLast(t[Len(t)])
    BY DEF Closed
  <2>1. Len(t) \in DOMAIN t /\ Len(t) + 1 = Len(q)
    BY <1>1, <1>2
  <2>2. t[Len(t)] = q[Len(q)]
    BY <2>1, <1>3
  <2> QED
    BY <2>2 DEF WholeQueue, Closed
<1>7. IsLast(word) => (t # <<>> => t[1][2] = 1)
  <2> SUFFICES ASSUME IsLast(word), t # <<>> PROVE t[1][2] = 1
    OBVIOUS
  <2>1. 1 \in DOMAIN t /\ 1 \in DOMAIN q /\ 1 + 1 \in DOMAIN q /\ t[1] = q[1 + 1]
    BY <1>1, <1>2
  <2>2. IF IsLast(q[1]) THEN q[1 + 1][2] = 1 ELSE q[1 + 1] = <<q[1][1], q[1][2] + 1>>
    BY <2>1 DEF WholeQueue, Chain
  <2> QED
    BY <2>1, <2>2, <1>1
<1>8. ~IsLast(word) => t # <<>> /\ t[1] = <<word[1], word[2] + 1>>
  <2> SUFFICES ASSUME ~IsLast(word) PROVE t # <<>> /\ t[1] = <<word[1], word[2] + 1>>
    OBVIOUS
  <2>1. Len(q) # 1
    BY <1>1 DEF WholeQueue, Closed
  <2>2. 1 \in DOMAIN t /\ 1 \in DOMAIN q /\ 1 + 1 \in DOMAIN q /\ t[1] = q[1 + 1] /\ t # <<>>
    BY <2>1, <1>1, <1>2
  <2>3. IF IsLast(q[1]) THEN q[1 + 1][2] = 1 ELSE q[1 + 1] = <<q[1][1], q[1][2] + 1>>
    BY <2>2 DEF WholeQueue, Chain
  <2> QED
    BY <2>2, <2>3, <1>1
<1>9. \A k \in DOMAIN q : q[k] = word \/ \E j \in DOMAIN t : t[j] = q[k]
  <2> SUFFICES ASSUME NEW k \in DOMAIN q, k # 1 PROVE \E j \in DOMAIN t : t[j] = q[k]
    BY <1>1
  <2>1. k - 1 \in DOMAIN t /\ (k - 1) + 1 = k
    BY <1>1, <1>2
  <2> QED
    BY <2>1, <1>3
<1> QED
  BY <1>4, <1>5, <1>6, <1>7, <1>8, <1>9 DEF WholeQueue, t, word

LEMMA WordsAppended ==
  ASSUME NEW m, NEW n \in Nat, NEW d, d = [k \in 1 .. n |-> <<m, k>>]
  PROVE  Append(d, <<m, n + 1>>) = [k \in 1 .. n + 1 |-> <<m, k>>]
<1> DEFINE E == {<<m, k>> : k \in Nat}
           w == <<m, n + 1>>
           b == [k \in 1 .. n + 1 |-> <<m, k>>]
<1>1. d \in Seq(E) /\ Len(d) = n /\ w \in E
  <2>1. d \in [1 .. n -> E]
    OBVIOUS
  <2> QED
    BY <2>1, FunctionIsSeq
<1>2. b \in Seq(E) /\ Len(b) = n + 1
  <2>1. b \in [1 .. n + 1 -> E] /\ n + 1 \in Nat
    OBVIOUS
  <2> QED
    BY <2>1, FunctionIsSeq
<1>3. \A k \in 1 .. n + 1 : b[k] = <<m, k>>
  OBVIOUS
<1> HIDE DEF b, E
<1>4. /\ Append(d, w) \in Seq(E) /\ Len(Append(d, w)) = n + 1
      /\ \A k \in 1 .. n : Append(d, w)[k] = d[k]
      /\ Append(d, w)[n + 1] = w
  BY <1>1, Appended
<1>5. ASSUME NEW k \in 1 .. n + 1 PROVE Append(d, w)[k] = b[k]
  <2>1. CASE k = n + 1
    BY <2>1, <1>3, <1>4
  <2>2. CASE k \in 1 .. n
    BY <2>2, <1>3, <1>4
  <2> QED
    BY <2>1, <2>2
<1>6. Append(d, w) = b
  BY <1>2, <1>4, <1>5, SeqEqual
<1> QED
  BY <1>6 DEF b

LEMMA WholeStep ==
  ASSUME LongEnough, ArrivalsOK, NEW p \in Ports, NEW r \in RxStates,
         Holding(r) => r.item \in Carried /\ r.item.in = p,
         RxWhole(p, r)
  PROVE  /\ RxWhole(p, RxStep(p, r))
         /\ \A n \in Collected(r) \cup Waiting(r) :
              \/ n \in Collected(RxStep(p, r)) \cup Waiting(RxStep(p, r))
              \/ r.phase = "ready" /\ hash.ii = 0 /\ n = r.item.meta
<1> DEFINE s == RxStep(p, r)
           word == Head(r.inq)
           Kept == \A n \in Collected(r) \cup Waiting(r) :
                     \/ n \in Collected(s) \cup Waiting(s)
                     \/ r.phase = "ready" /\ hash.ii = 0 /\ n = r.item.meta
<1>1. /\ r.inq \in Seq(ArrivedWords) /\ WholeQueue(r.inq, p) /\ r.metas = <<>>
      /\ RxLatency \in Nat \ {0}
  BY SizesPositive DEF RxWhole, RxStates
<1>2. ASSUME r.inq # <<>>
      PROVE  /\ word[1] \in Arrived /\ word[2] \in Nat \ {0} /\ word = <<word[1], word[2]>>
             /\ word = r.inq[1]
             /\ received[word[1]].words \in Nat /\ received[word[1]].words >= RxLatency
             /\ WholeQueue(Tail(r.inq), p) /\ received[word[1]].in = p
             /\ IsLast(word) => (Tail(r.inq) # <<>> => Tail(r.inq)[1][2] = 1)
             /\ ~IsLast(word) => /\ Tail(r.inq) # <<>>
                                 /\ Tail(r.inq)[1] = <<word[1], word[2] + 1>>
             /\ \A n \in Waiting(r) : n = word[1] \/ \E j \in DOMAIN Tail(r.inq) : n = Tail(r.inq)[j][1]
  <2>1. word \in ArrivedWords /\ word = r.inq[1]
    BY <1>1, <1>2, Taken
  <2>2. word[1] \in Arrived /\ word[2] \in Nat \ {0} /\ word = <<word[1], word[2]>>
    BY <2>1 DEF ArrivedWords
  <2>3. received[word[1]] \in Traffic
    BY <2>2 DEF ArrivalsOK, Arrived
  <2>4. received[word[1]].words \in Nat /\ received[word[1]].words >= RxLatency
    BY <2>3, CoreAssumption DEF LongEnough
  <2>5. /\ WholeQueue(Tail(r.inq), p) /\ received[word[1]].in = p
        /\ IsLast(word) => (Tail(r.inq) # <<>> => Tail(r.inq)[1][2] = 1)
        /\ ~IsLast(word) => /\ Tail(r.inq) # <<>>
                            /\ Tail(r.inq)[1] = <<word[1], word[2] + 1>>
        /\ \A k \in DOMAIN r.inq : r.inq[k] = word \/ \E j \in DOMAIN Tail(r.inq) : Tail(r.inq)[j] = r.inq[k]
    BY <1>1, <1>2, PopWhole
  <2>6. \A n \in Waiting(r) : n = word[1] \/ \E j \in DOMAIN Tail(r.inq) : n = Tail(r.inq)[j][1]
    BY <2>5 DEF Waiting
  <2> QED
    BY <2>1, <2>2, <2>4, <2>5, <2>6
<1>3. CASE r.phase = "ready" /\ hash.ii = 0
  <2>1. r.item \in Carried
    BY <1>3 DEF Holding
  <2>2. /\ s.phase = "sending" /\ s.inq = r.inq /\ s.metas = r.metas
        /\ s.consuming = r.consuming
    BY <1>3, <2>1, RxStepCases, SendingFields
  <2> HIDE DEF s
  <2>3. RxWhole(p, s)
    BY <2>2, <1>3 DEF RxWhole, Between
  <2>4. Kept
    BY <2>2, <1>3 DEF Waiting, Collected, Holding
  <2> QED
    BY <2>3, <2>4 DEF s
<1>4. CASE r.phase = "processing"
  <2> DEFINE n == Len(r.item.data)
             m == r.item.meta
  <2>1. /\ r.item \in Carried /\ n \in Nat /\ m \in Arrived /\ r.item.in = p
    <3>1. r.item \in Carried /\ r.item.in = p
      BY <1>4 DEF Holding
    <3> QED
      BY <3>1 DEF Carried
  <2>2. /\ r.consuming /\ ~r.complete /\ r.left = MaxOf(0, RxLatency - n)
        /\ r.item.data = [k \in 1 .. n |-> <<m, k>>]
        /\ Meta(r.item).in = p
        /\ r.inq # <<>> /\ r.inq[1] = <<m, n + 1>>
    BY <1>4 DEF RxWhole, Begun
  <2>3. word = <<m, n + 1>> /\ word[1] = m /\ word[2] = n + 1
    BY <1>2, <2>2
  <2>4. /\ s.item.in = p /\ s.item.meta = m
        /\ s.left = MaxOf(0, r.left - 1)
        /\ s.phase = IF s.left = 0 /\ s.complete THEN "ready" ELSE "processing"
        /\ s.inq = Tail(r.inq) /\ s.metas = <<>> /\ s.consuming = ~IsLast(word)
        /\ s.item.data = Append(r.item.data, word)
        /\ s.complete = (r.complete \/ IsLast(word))
    <3>1. s = RxProcessing(r)
      BY <1>4, RxStepCases
    <3> QED
      BY <3>1, <1>1, <1>4, <2>1, <2>2, ProcessingFields
  <2> HIDE DEF s, n, m, word
  <2>5. s.item.data = [k \in 1 .. n + 1 |-> <<m, k>>]
    BY <2>1, <2>2, <2>3, <2>4, WordsAppended
  <2>6. Len(s.item.data) = n + 1
    <3>1. n + 1 \in Nat /\ s.item.data \in [1 .. n + 1 -> {<<m, k>> : k \in Nat}]
      BY <2>1, <2>5
    <3> QED
      BY <3>1, FunctionIsSeq
  <2>7. s.left = MaxOf(0, RxLatency - (n + 1))
    BY <2>1, <2>2, <2>4, <1>1 DEF MaxOf
  <2>8. Meta(s.item).in = p
    BY <2>2, <2>4 DEF Meta, m
  <2>9. RxWhole(p, s)
    <3>1. CASE IsLast(word)
      <4>1. n + 1 = received[m].words /\ n + 1 >= RxLatency
        BY <3>1, <1>2, <2>2, <2>3 DEF IsLast
      <4>2. s.left = 0
        BY <4>1, <2>1, <2>7, <1>1 DEF MaxOf
      <4>3. s.complete /\ s.phase = "ready"
        BY <4>2, <2>4, <3>1
      <4>4. Whole(s.item)
        BY <4>1, <2>4, <2>5, <2>8 DEF Whole, WordsOf
      <4>5. Between(s)
        BY <4>4, <3>1, <1>2, <2>2, <2>4 DEF Between
      <4> QED
        BY <4>3, <4>5, <1>2, <2>2, <2>4 DEF RxWhole
    <3>2. CASE ~IsLast(word)
      <4>1. s.phase = "processing" /\ s.consuming /\ ~s.complete
        BY <3>2, <2>2, <2>4
      <4>2. s.inq # <<>> /\ s.inq[1] = <<m, (n + 1) + 1>>
        BY <3>2, <1>2, <2>2, <2>3, <2>4
      <4>3. Begun(p, s)
        BY <4>1, <4>2, <2>4, <2>5, <2>6, <2>7, <2>8 DEF Begun
      <4> QED
        BY <4>1, <4>3, <1>2, <2>2, <2>4 DEF RxWhole
    <3> QED
      BY <3>1, <3>2
  <2>10. Kept
    <3>1. Collected(r) = {m} /\ Collected(s) = {m}
      BY <1>4, <2>4 DEF Collected, Holding, m
    <3>2. \A j \in DOMAIN s.inq : s.inq[j][1] \in Waiting(s)
      BY DEF Waiting
    <3>3. \A k \in Waiting(r) : k = m \/ k \in Waiting(s)
      BY <3>2, <1>2, <2>2, <2>3, <2>4
    <3> QED
      BY <3>1, <3>3
  <2> QED
    BY <2>9, <2>10 DEF s
<1>5. CASE r.phase = "idle" /\ r.inq # <<>>
  <2> DEFINE m == word[1]
             metas == IF r.consuming THEN r.metas ELSE Append(r.metas, word[1])
  <2>1. ~r.consuming /\ word[2] = 1
    BY <1>2, <1>5 DEF RxWhole, Between
  <2>2. metas = <<m>> /\ metas # <<>> /\ Head(metas) = m
    BY <2>1, <1>1
  <2>3. LET u == RxStart(p, r)
        IN /\ u.inq = Tail(r.inq) /\ u.consuming = ~IsLast(word)
           /\ metas # <<>> =>
                /\ u.item = [in |-> p, meta |-> Head(metas), data |-> <<word>>]
                /\ u.metas = <<>> /\ u.left = RxLatency - 1 /\ u.complete = IsLast(word)
                /\ u.phase = IF u.left = 0 /\ u.complete THEN "ready" ELSE "processing"
    BY <1>5, StartFields
  <2> HIDE DEF metas
  <2>4. /\ s.inq = Tail(r.inq) /\ s.consuming = ~IsLast(word)
        /\ s.item.in = p /\ s.item.meta = m /\ s.item.data = <<word>>
        /\ s.metas = <<>> /\ s.left = RxLatency - 1 /\ s.complete = IsLast(word)
        /\ s.phase = IF s.left = 0 /\ s.complete THEN "ready" ELSE "processing"
    <3>1. s = RxStart(p, r)
      BY <1>5, RxStepCases
    <3> HIDE DEF m, word
    <3> QED
      BY <3>1, <2>2, <2>3
  <2>5. word = <<m, 1>>
    BY <1>2, <1>5, <2>1
  <2> HIDE DEF s, m, word
  <2>6. s.item.data = [k \in 1 .. 1 |-> <<m, k>>] /\ Len(s.item.data) = 1
    BY <2>4, <2>5
  <2>7. Meta(s.item).in = p
    BY <1>2, <1>5, <2>4 DEF Meta, m
  <2>8. RxWhole(p, s)
    <3>1. CASE IsLast(word)
      <4>1. received[m].words = 1 /\ RxLatency = 1
        BY <3>1, <1>1, <1>2, <1>5, <2>1 DEF IsLast, m
      <4>2. s.left = 0 /\ s.complete /\ s.phase = "ready"
        BY <4>1, <2>4, <3>1
      <4>3. Whole(s.item)
        BY <4>1, <2>4, <2>6, <2>7 DEF Whole, WordsOf
      <4>4. Between(s)
        BY <4>2, <4>3, <3>1, <1>2, <1>5, <2>4 DEF Between
      <4> QED
        BY <4>2, <4>4, <1>2, <1>5, <2>4 DEF RxWhole
    <3>2. CASE ~IsLast(word)
      <4>1. s.phase = "processing" /\ s.consuming /\ ~s.complete
        BY <3>2, <2>4
      <4>2. s.inq # <<>> /\ s.inq[1] = <<m, 1 + 1>>
        BY <3>2, <1>2, <1>5, <2>1, <2>4 DEF m
      <4>3. s.left = MaxOf(0, RxLatency - 1)
        BY <2>4, <1>1 DEF MaxOf
      <4>4. Begun(p, s)
        BY <4>1, <4>2, <4>3, <2>4, <2>6, <2>7 DEF Begun
      <4> QED
        BY <4>1, <4>4, <1>2, <1>5, <2>4 DEF RxWhole
    <3> QED
      BY <3>1, <3>2
  <2>9. Kept
    <3>1. Collected(r) = {}
      BY <1>5 DEF Collected, Holding
    <3>2. Collected(s) = {m}
      BY <2>4 DEF Collected, Holding
    <3>3. \A k \in Waiting(r) : k = m \/ k \in Waiting(s)
      BY <1>2, <1>5, <2>4 DEF Waiting, m
    <3> QED
      BY <3>1, <3>2, <3>3
  <2> QED
    BY <2>8, <2>9 DEF s
<1>6. CASE \/ r.phase = "ready" /\ hash.ii # 0
           \/ r.phase = "idle" /\ r.inq = <<>>
           \/ r.phase = "sending"
  BY <1>6, RxStepCases
<1>7. r.phase \in {"idle", "processing", "ready", "sending"}
  BY DEF RxStates, Phases
<1> QED
  BY <1>3, <1>4, <1>5, <1>6, <1>7

LEMMA AscendingOnto ==
  ASSUME NEW A \in SUBSET Ports, NEW s \in Ascending(A)
  PROVE  \A p \in A : \E k \in DOMAIN s : s[k] = p
<1> DEFINE n == Cardinality(A)
<1>1. n \in Nat /\ IsFiniteSet(A)
  BY PortsFinite
<1>2. s \in [1 .. n -> A] /\ \A j, k \in 1 .. n : j < k => s[j] < s[k]
  BY DEF Ascending
<1>3. A \subseteq Nat
  BY DEF Ports
<1> HIDE DEF n
<1>4. ASSUME NEW j \in 1 .. n, NEW k \in 1 .. n, s[j] = s[k] PROVE j = k
  <2>1. s[j] \in Nat /\ s[k] \in Nat
    BY <1>2, <1>3
  <2>2. ~(j < k) /\ ~(k < j)
    BY <2>1, <1>2, <1>4
  <2> QED
    BY <2>2, <1>1
<1>5. s \in Injection(1 .. n, A)
  BY <1>2, <1>4 DEF Injection, IsInjective
<1>6. Cardinality(1 .. n) = n
  BY <1>1, FS_Interval
<1>7. s \in Surjection(1 .. n, A)
  BY <1>1, <1>5, <1>6, FS_Injection DEF n
<1> QED
  BY <1>2, <1>7 DEF Surjection

(* A packet that leaves its RX stage joins the ones ahead of its port. *)
LEMMA AheadGrows ==
  ASSUME PipelineOK, ProcessRxStage, LookedUp' = LookedUp, NEW p \in Ports
  PROVE  /\ Ahead(p) \subseteq Ahead(p)'
         /\ p \in Handing => rx[p].item.meta \in Ahead(p)'
<1> DEFINE n == Len(Queued)
<1>1. PICK s \in Ascending(Handing) :
        LET h == HandedBy(s)
        IN /\ Len(Queued) \in Nat /\ Len(h) \in Nat /\ DOMAIN Queued = 1 .. Len(Queued)
           /\ DOMAIN Queued' = 1 .. Len(Queued) + Len(h)
           /\ \A k \in 1 .. Len(Queued) : Queued'[k] = Queued[k]
           /\ \A k \in 1 .. Len(h) :
                /\ s[k] \in Handing
                /\ Queued'[Len(Queued) + k] = [in |-> s[k], meta |-> rx[s[k]].item.meta]
           /\ \A j, k \in 1 .. Len(h) : j < k => s[j] < s[k]
  BY QueuedGrows
<1> DEFINE l == Len(HandedBy(s))
<1>2. /\ n \in Nat /\ l \in Nat
      /\ DOMAIN Queued = 1 .. n /\ DOMAIN Queued' = 1 .. n + l
      /\ \A k \in 1 .. n : Queued'[k] = Queued[k]
      /\ \A k \in 1 .. l : Queued'[n + k] = [in |-> s[k], meta |-> rx[s[k]].item.meta]
  BY <1>1
<1>3. DOMAIN s = 1 .. l
  BY <1>1, Handed DEF PipelineOK
<1> HIDE DEF n, l
<1>4. \A k \in DOMAIN Queued : k \in DOMAIN Queued' /\ Queued'[k] = Queued[k]
  BY <1>2
<1>5. Ahead(p) \subseteq Ahead(p)'
  BY <1>4 DEF Ahead
<1>6. ASSUME p \in Handing PROVE rx[p].item.meta \in Ahead(p)'
  <2>1. PICK k \in 1 .. l : s[k] = p
    <3>1. Handing \subseteq Ports
      BY DEF Handing
    <3>2. \E k \in DOMAIN s : s[k] = p
      BY <3>1, <1>6, AscendingOnto
    <3> QED
      BY <3>2, <1>3
  <2> DEFINE d == n + k
  <2>2. d \in DOMAIN Queued'
    BY <1>2
  <2>3. Queued'[d] = [in |-> p, meta |-> rx[p].item.meta]
    BY <1>2, <2>1
  <2> HIDE DEF d
  <2> QED
    BY <2>2, <2>3 DEF Ahead
<1> QED
  BY <1>5, <1>6

(* Wholeness and completeness across the other steps. *)
LEMMA RxWholeNext ==
  ASSUME received' = received, NEW p, NEW r, r = rx'[p], RxWhole(p, r)
  PROVE  RxWhole(p, rx[p])'
  BY DEF RxWhole, WholeQueue, ArrivedAt, Chain, Closed, Begun, Between, Whole, WordsOf, IsLast,
         Meta

LEMMA WholeItems ==
  ASSUME received' = received, WholeInv,
         \A n \in DOMAIN LookedUp' : Whole(LookedUp'[n]),
         \A n \in DOMAIN rxToHash' : Whole(rxToHash'[n]),
         \A p \in Ports : RxWhole(p, rx'[p])
  PROVE  WholeInv'
<1>1. \A p \in Ports : RxWhole(p, rx[p])'
  BY RxWholeNext
<1>2. \A n \in DOMAIN LookedUp' : Whole(LookedUp[n])'
  BY DEF Whole, WordsOf, Meta
<1>3. \A n \in DOMAIN rxToHash' : Whole(rxToHash[n])'
  BY DEF Whole, WordsOf, Meta
<1> QED
  BY <1>1, <1>2, <1>3 DEF WholeInv

LEMMA NoneLostNext ==
  ASSUME received' = received, NoneLost,
         \A p \in Ports : /\ Ahead(p) \subseteq Ahead(p)'
                          /\ \A n \in Collected(rx[p]) \cup Waiting(rx[p]) :
                               n \in Ahead(p)' \cup Collected(rx'[p]) \cup Waiting(rx'[p])
  PROVE  NoneLost'
<1> SUFFICES ASSUME NEW n \in Arrived
             PROVE  \E p \in Ports : n \in Ahead(p)' \cup Collected(rx'[p]) \cup Waiting(rx'[p])
  BY SameArrivals DEF NoneLost, Collected, Waiting, Holding
<1>1. PICK p \in Ports : n \in Ahead(p) \cup Collected(rx[p]) \cup Waiting(rx[p])
  BY DEF NoneLost
<1> QED
  BY <1>1

(* An arriving packet joins the queue of its port, word after word. *)
LEMMA QueueGrows ==
  ASSUME PipelineOK, NEW pkt \in Traffic, ReceivePacket(pkt), NEW p \in Ports
  PROVE  LET N   == Len(received) + 1
             old == rx[p].inq
             q   == rx'[p].inq
             L   == Len(old)
         IN /\ N \in Nat /\ received'[N] = pkt /\ L \in Nat /\ pkt.words \in Nat \ {0}
            /\ pkt.in \in Ports
            /\ \A n \in Arrived : received'[n] = received[n]
            /\ \A n : n \in Arrived' => n \in Arrived \/ n = N
            /\ rx'[p] = [rx[p] EXCEPT !.inq = q]
            /\ DOMAIN old = 1 .. L
            /\ \A k \in 1 .. L : old[k][1] \in Arrived /\ q[k] = old[k]
            /\ p # pkt.in => q = old
            /\ p = pkt.in => /\ DOMAIN q = 1 .. L + pkt.words /\ Len(q) = L + pkt.words
                             /\ \A k \in 1 .. pkt.words : q[L + k] = <<N, k>>
<1> DEFINE N == Len(received) + 1
           old == rx[p].inq
           L == Len(old)
           news == [k \in 1 .. pkt.words |-> <<N, k>>]
           q == rx'[p].inq
<1>1. /\ received' = Append(received, pkt) /\ received \in Seq(Traffic) /\ Len(received) \in Nat
      /\ pkt.in \in Ports /\ pkt.words \in Nat \ {0}
      /\ rx \in [Ports -> RxStates] /\ rx[p] \in RxStates
  BY CoreAssumption DEF ReceivePacket, PipelineOK, ArrivalsOK, RxOK
<1>2. /\ received'[N] = pkt /\ N \in Nat /\ Len(received') = N
      /\ \A n \in Arrived : received'[n] = received[n]
  BY <1>1 DEF Arrived
<1>3. \A n : n \in Arrived' => n \in Arrived \/ n = N
  BY <1>1, <1>2 DEF Arrived
<1>4. rx'[p] = IF p = pkt.in THEN [rx[p] EXCEPT !.inq = @ \o news] ELSE rx[p]
  BY <1>1 DEF ReceivePacket
<1>5. old \in Seq(ArrivedWords)
  BY <1>1 DEF RxStates
<1>6. L \in Nat /\ DOMAIN old = 1 .. L /\ \A k \in 1 .. L : old[k][1] \in Arrived
  <2>1. L \in Nat /\ DOMAIN old = 1 .. L
    BY <1>5, LenProperties
  <2> QED
    BY <2>1, <1>5, WordTypes
<1>7. /\ q = IF p = pkt.in THEN old \o news ELSE old
      /\ rx'[p] = [rx[p] EXCEPT !.inq = q]
  <2> DEFINE c == old \o news
  <2>1. rx'[p] = IF p = pkt.in THEN [rx[p] EXCEPT !.inq = c] ELSE rx[p]
    BY <1>4
  <2> HIDE DEF c
  <2>2. rx'[p].inq = IF p = pkt.in THEN c ELSE rx[p].inq
    BY <2>1, <1>1 DEF RxStates
  <2>3. rx'[p] = [rx[p] EXCEPT !.inq = rx'[p].inq]
    BY <2>1, <2>2, <1>1 DEF RxStates
  <2> QED
    BY <2>2, <2>3 DEF c
<1>8. ASSUME p = pkt.in
      PROVE  /\ DOMAIN q = 1 .. L + pkt.words /\ Len(q) = L + pkt.words
             /\ \A k \in 1 .. L : q[k] = old[k]
             /\ \A k \in 1 .. pkt.words : q[L + k] = <<N, k>>
  <2> DEFINE E == Nat \X Nat
  <2>1. /\ news \in Seq(E) /\ Len(news) = pkt.words
        /\ \A k \in 1 .. pkt.words : news[k] = <<N, k>>
    <3>1. news \in [1 .. pkt.words -> E] /\ pkt.words \in Nat
      BY <1>1, <1>2
    <3> QED
      BY <3>1, FunctionIsSeq
  <2>2. old \in Seq(E)
    <3>1. ArrivedWords \subseteq E
      BY DEF ArrivedWords, Arrived
    <3> QED
      BY <3>1, <1>5, SeqMonotonic
  <2> HIDE DEF news, old, N, E
  <2> DEFINE c == old \o news
  <2>3. /\ c \in Seq(E) /\ Len(c) = Len(old) + pkt.words
        /\ \A k \in 1 .. Len(old) : c[k] = old[k]
        /\ \A k \in 1 .. pkt.words : c[Len(old) + k] = news[k]
    <3>1. /\ c \in Seq(E) /\ Len(c) = Len(old) + Len(news)
          /\ \A k \in 1 .. Len(old) : c[k] = old[k]
          /\ \A k \in 1 .. Len(news) : c[Len(old) + k] = news[k]
      <4>1. news \in Seq(E) /\ old \in Seq(E)
        BY <2>1, <2>2
      <4> QED
        BY <4>1, Joined
    <3> QED
      BY <3>1, <2>1
  <2>4. q = c
    BY <1>7, <1>8
  <2> HIDE DEF c, q
  <2>5. DOMAIN q = 1 .. Len(q)
    BY <2>3, <2>4
  <2> QED
    BY <2>1, <2>3, <2>4, <2>5
<1>9. \A k \in 1 .. L : q[k] = old[k]
  BY <1>7, <1>8
<1> HIDE DEF N, old, L, news, q
<1>10. /\ N \in Nat /\ received'[N] = pkt /\ L \in Nat /\ pkt.words \in Nat \ {0}
       /\ pkt.in \in Ports
       /\ \A n \in Arrived : received'[n] = received[n]
       /\ \A n : n \in Arrived' => n \in Arrived \/ n = N
       /\ rx'[p] = [rx[p] EXCEPT !.inq = q]
       /\ DOMAIN old = 1 .. L
       /\ \A k \in 1 .. L : old[k][1] \in Arrived /\ q[k] = old[k]
       /\ p # pkt.in => q = old
       /\ p = pkt.in => /\ DOMAIN q = 1 .. L + pkt.words /\ Len(q) = L + pkt.words
                        /\ \A k \in 1 .. pkt.words : q[L + k] = <<N, k>>
  BY <1>1, <1>2, <1>3, <1>6, <1>7, <1>8, <1>9
<1> QED
  BY <1>10 DEF N, old, L, q

LEMMA WholeMore ==
  ASSUME \A n \in Arrived : received'[n] = received[n], NEW item, item.meta \in Arrived,
         Whole(item)
  PROVE  Whole(item)'
<1>1. received'[item.meta] = received[item.meta]
  OBVIOUS
<1> QED
  BY <1>1 DEF Whole, WordsOf, Meta

LEMMA ReceiveWhole ==
  ASSUME PipelineOK, WholeInv, NEW pkt \in Traffic, ReceivePacket(pkt), LookedUp' = LookedUp
  PROVE  WholeInv'
<1>1. /\ rxToHash' = rxToHash
      /\ \A n \in Arrived : received'[n] = received[n]
  <2>1. ArrivalsOK /\ received' = Append(received, pkt) /\ rxToHash' = rxToHash
    BY DEF ReceivePacket, PipelineOK
  <2> QED
    BY <2>1, MoreArrivals
<1>2. \A n \in DOMAIN LookedUp : Whole(LookedUp[n])'
  <2> SUFFICES ASSUME NEW n \in DOMAIN LookedUp PROVE Whole(LookedUp[n])'
    OBVIOUS
  <2>1. PICK item : item = LookedUp[n] /\ item = LookedUp'[n]
    OBVIOUS
  <2>2. LookedUp \in Seq(CarriedTo)
    BY LookedUpType
  <2>3. item \in CarriedTo
    <3> HIDE DEF LookedUp
    <3> QED
      BY <2>1, <2>2, ElementOfSeq, LenProperties
  <2>4. item.meta \in Arrived /\ Whole(item)
    BY <2>1, <2>3 DEF CarriedTo, WholeInv
  <2>5. Whole(item)'
    BY <1>1, <2>4, WholeMore
  <2> QED
    BY <2>1, <2>5 DEF Whole, WordsOf, Meta
<1>3. \A n \in DOMAIN rxToHash : Whole(rxToHash[n])'
  <2> SUFFICES ASSUME NEW n \in DOMAIN rxToHash PROVE Whole(rxToHash[n])'
    OBVIOUS
  <2>1. PICK item : item = rxToHash[n] /\ item = rxToHash'[n]
    BY <1>1
  <2>2. rxToHash \in Seq(Carried)
    BY DEF PipelineOK, QueuesOK
  <2>3. item \in Carried
    BY <2>1, <2>2, ElementOfSeq, LenProperties
  <2>4. item.meta \in Arrived /\ Whole(item)
    BY <2>1, <2>3 DEF Carried, WholeInv
  <2>5. Whole(item)'
    BY <1>1, <2>4, WholeMore
  <2> QED
    BY <2>1, <2>5 DEF Whole, WordsOf, Meta
<1>4. ASSUME NEW p \in Ports PROVE RxWhole(p, rx[p])'
  <2>1. PICK r, q, u : r = rx'[p] /\ q = rx'[p].inq /\ u = received'
    OBVIOUS
  <2> DEFINE N == Len(received) + 1
             old == rx[p].inq
             L == Len(old)
  <2>2. /\ N \in Nat /\ u[N] = pkt /\ L \in Nat /\ pkt.words \in Nat \ {0}
        /\ \A n \in Arrived : u[n] = received[n]
        /\ r = [rx[p] EXCEPT !.inq = q]
        /\ DOMAIN old = 1 .. L
        /\ \A k \in 1 .. L : old[k][1] \in Arrived /\ q[k] = old[k]
        /\ p # pkt.in => q = old
        /\ p = pkt.in => /\ DOMAIN q = 1 .. L + pkt.words /\ Len(q) = L + pkt.words
                         /\ \A k \in 1 .. pkt.words : q[L + k] = <<N, k>>
    BY <2>1, QueueGrows
  <2>3. rx[p] \in RxStates /\ (Holding(rx[p]) => rx[p].item \in Carried)
    BY DEF PipelineOK, RxOK
  <2>4. /\ r.metas = rx[p].metas /\ r.consuming = rx[p].consuming /\ r.phase = rx[p].phase
        /\ r.left = rx[p].left /\ r.item = rx[p].item /\ r.complete = rx[p].complete
        /\ r.inq = q
    BY <2>2, <2>3 DEF RxStates
  <2>5. old \in Seq(ArrivedWords)
    BY <2>3 DEF RxStates
  <2>6. RxWhole(p, rx[p]) /\ WholeQueue(old, p)
    BY DEF WholeInv, RxWhole
  <2> DEFINE last(w) == w[2] = u[w[1]].words
             chain(v) == \A k \in DOMAIN v : k + 1 \in DOMAIN v =>
                           IF last(v[k]) THEN v[k + 1][2] = 1
                           ELSE v[k + 1] = <<v[k][1], v[k][2] + 1>>
  <2> HIDE DEF N, old, L
  <2>7. \A k \in 1 .. L : last(old[k]) <=> IsLast(old[k])
    BY <2>2 DEF IsLast
  <2>8. L > 0 <=> old # <<>>
    BY <2>5 DEF L
  <2>9. ASSUME p = pkt.in, NEW k \in DOMAIN q
        PROVE  \/ k \in 1 .. L /\ q[k] = old[k]
               \/ /\ k - L \in 1 .. pkt.words /\ k \in Nat
                  /\ q[k] = <<N, k - L>>
    <3>1. k \in 1 .. L + pkt.words
      BY <2>2, <2>9
    <3>2. CASE k \in 1 .. L
      BY <3>2, <2>2
    <3>3. CASE k \notin 1 .. L
      <4>1. k - L \in 1 .. pkt.words /\ L + (k - L) = k /\ k \in Nat
        BY <3>1, <3>3, <2>2
      <4>2. q[L + (k - L)] = <<N, k - L>>
        BY <4>1, <2>2, <2>9
      <4> QED
        BY <4>1, <4>2
    <3> QED
      BY <3>2, <3>3
  <2>10. \A k \in DOMAIN q : u[q[k][1]].in = p
    <3>1. \A k \in DOMAIN old : u[old[k][1]].in = p
      BY <2>2, <2>6 DEF WholeQueue, ArrivedAt
    <3> QED
      BY <3>1, <2>2, <2>9
  <2>11. chain(q)
    <3> SUFFICES ASSUME NEW k \in DOMAIN q, k + 1 \in DOMAIN q
                 PROVE  IF last(q[k]) THEN q[k + 1][2] = 1
                        ELSE q[k + 1] = <<q[k][1], q[k][2] + 1>>
      OBVIOUS
    <3> HIDE DEF last
    <3>1. \A j \in 1 .. L : j + 1 \in 1 .. L =>
            IF last(old[j]) THEN old[j + 1][2] = 1
            ELSE old[j + 1] = <<old[j][1], old[j][2] + 1>>
      BY <2>2, <2>6, <2>7 DEF WholeQueue, Chain
    <3>2. CASE p # pkt.in
      BY <3>1, <3>2, <2>2
    <3>3. CASE p = pkt.in /\ k + 1 \in 1 .. L
      <4>1. k \in 1 .. L
        BY <3>3, <2>2
      <4> QED
        BY <4>1, <3>1, <3>3, <2>2
    <3>4. CASE p = pkt.in /\ k + 1 \notin 1 .. L
      <4>0. k \in Nat \ {0} /\ k >= L
        BY <3>4, <2>2
      <4>1. q[k + 1] = <<N, (k + 1) - L>> /\ (k + 1) - L \in 1 .. pkt.words
        <5> DEFINE d == k + 1
        <5>1. d \in DOMAIN q /\ d \notin 1 .. L
          BY <3>4
        <5> HIDE DEF d
        <5>2. q[d] = <<N, d - L>> /\ d - L \in 1 .. pkt.words
          BY <5>1, <3>4, <2>9
        <5> QED
          BY <5>2 DEF d
      <4>2. CASE k \in 1 .. L
        <5>1. k = L /\ old # <<>>
          BY <4>0, <4>2, <2>2, <2>8
        <5>2. last(q[k])
          BY <5>1, <2>2, <2>6, <2>7, <4>2 DEF WholeQueue, Closed, L
        <5>3. q[k + 1][2] = 1
          BY <4>1, <5>1, <2>2
        <5> QED
          BY <5>2, <5>3
      <4>3. CASE k \notin 1 .. L
        <5>1. q[k] = <<N, k - L>>
          BY <4>3, <3>4, <2>9
        <5>2. ~last(q[k])
          BY <5>1, <4>0, <4>1, <2>2 DEF last
        <5>3. (k + 1) - L = (k - L) + 1
          BY <4>0, <2>2
        <5>4. q[k + 1] = <<q[k][1], q[k][2] + 1>>
          BY <4>1, <5>1, <5>3
        <5> QED
          BY <5>2, <5>4
      <4> QED
        BY <4>2, <4>3
    <3> QED
      BY <3>2, <3>3, <3>4
  <2>12. q # <<>> => last(q[Len(q)])
    <3>1. CASE p # pkt.in
      <4>1. q = old
        BY <3>1, <2>2
      <4> SUFFICES ASSUME old # <<>> PROVE last(old[Len(old)])
        BY <4>1
      <4>2. Len(old) \in 1 .. L
        BY <2>2, <2>8 DEF L
      <4> QED
        BY <4>2, <2>6, <2>7 DEF WholeQueue, Closed
    <3>2. CASE p = pkt.in
      <4>1. Len(q) = L + pkt.words /\ q[L + pkt.words] = <<N, pkt.words>>
        BY <3>2, <2>2
      <4> QED
        BY <4>1, <2>2
    <3> QED
      BY <3>1, <3>2
  <2>13. WholeQueue(rx[p].inq, p)'
    BY <2>1, <2>10, <2>11, <2>12 DEF WholeQueue, ArrivedAt, Chain, Closed, IsLast
  <2>14. \A k \in 1 .. L : k \in DOMAIN q
    BY <2>2
  <2>15. CASE rx[p].phase = "processing"
    <3>1. Begun(p, rx[p]) /\ rx[p].item.meta \in Arrived
      BY <2>3, <2>6, <2>15 DEF RxWhole, Holding, Carried
    <3>2. r.inq # <<>> /\ r.inq[1] = rx[p].inq[1]
      <4>1. old # <<>> /\ 1 \in 1 .. L
        BY <3>1, <2>2, <2>8 DEF Begun, old
      <4>2. q[1] = old[1] /\ 1 \in DOMAIN q
        BY <4>1, <2>2, <2>14
      <4> QED
        BY <4>1, <4>2, <2>4 DEF old
    <3>3. u[rx[p].item.meta] = received[rx[p].item.meta]
      BY <3>1, <2>2
    <3>4. Begun(p, rx[p])'
      BY <3>1, <3>2, <3>3, <2>1, <2>4 DEF Begun, Meta
    <3> QED
      BY <3>4, <2>1, <2>4, <2>6, <2>13, <2>15 DEF RxWhole
  <2>16. CASE rx[p].phase # "processing"
    <3>1. Between(rx[p])
      BY <2>6, <2>16 DEF RxWhole
    <3>2. r.inq # <<>> => r.inq[1][2] = 1
      <4>1. CASE old # <<>>
        <5>1. 1 \in 1 .. L
          BY <4>1, <2>2, <2>8
        <5> QED
          BY <5>1, <4>1, <3>1, <2>2, <2>4 DEF Between, old
      <4>2. CASE old = <<>> /\ p # pkt.in
        BY <4>2, <2>2, <2>4
      <4>3. CASE old = <<>> /\ p = pkt.in
        <5>1. L = 0 /\ 1 \in 1 .. pkt.words
          BY <4>3, <2>2, <2>8
        <5>2. q[L + 1] = <<N, 1>>
          BY <5>1, <4>3, <2>2
        <5> QED
          BY <5>1, <5>2, <2>4
      <4> QED
        BY <4>1, <4>2, <4>3
    <3>3. rx[p].phase = "ready" => Whole(rx[p].item)'
      <4> SUFFICES ASSUME rx[p].phase = "ready" PROVE Whole(rx[p].item)'
        OBVIOUS
      <4>1. PICK item : item = rx[p].item /\ item = rx'[p].item
        BY <2>1, <2>4
      <4>2. item.meta \in Arrived /\ Whole(item)
        BY <4>1, <3>1, <2>3 DEF Between, Holding, Carried
      <4>3. Whole(item)'
        BY <4>2, <1>1, WholeMore
      <4> QED
        BY <4>1, <4>3 DEF Whole, WordsOf, Meta
    <3>4. Between(rx[p])'
      BY <3>1, <3>2, <3>3, <2>1, <2>4 DEF Between
    <3> QED
      BY <3>4, <2>1, <2>4, <2>6, <2>13, <2>16 DEF RxWhole
  <2> QED
    BY <2>15, <2>16
<1> QED
  BY <1>1, <1>2, <1>3, <1>4 DEF WholeInv

LEMMA ReceiveComplete ==
  ASSUME PipelineOK, NoneLost, NEW pkt \in Traffic, ReceivePacket(pkt), LookedUp' = LookedUp
  PROVE  NoneLost'
<1>1. Queued' = Queued
  BY DEF ReceivePacket, Queued
<1>2. \A p : Ahead(p)' = Ahead(p)
  BY <1>1 DEF Ahead
<1>3. ASSUME NEW p \in Ports
      PROVE  /\ Collected(rx'[p]) = Collected(rx[p])
             /\ Waiting(rx[p]) \subseteq Waiting(rx'[p])
             /\ p = pkt.in => Len(received) + 1 \in Waiting(rx'[p])
  <2> DEFINE N == Len(received) + 1
             old == rx[p].inq
             q == rx'[p].inq
             L == Len(old)
  <2>1. /\ N \in Nat /\ L \in Nat /\ pkt.words \in Nat \ {0}
        /\ rx'[p] = [rx[p] EXCEPT !.inq = q]
        /\ DOMAIN old = 1 .. L
        /\ \A k \in 1 .. L : q[k] = old[k]
        /\ p # pkt.in => q = old
        /\ p = pkt.in => /\ DOMAIN q = 1 .. L + pkt.words
                         /\ \A k \in 1 .. pkt.words : q[L + k] = <<N, k>>
    BY QueueGrows
  <2>2. Collected(rx'[p]) = Collected(rx[p])
    <3>1. rx[p] \in RxStates
      BY DEF PipelineOK, RxOK
    <3>2. rx'[p].phase = rx[p].phase /\ rx'[p].item = rx[p].item
      BY <2>1, <3>1 DEF RxStates
    <3> QED
      BY <3>2 DEF Collected, Holding
  <2> HIDE DEF L, N, old, q
  <2>3. \A k \in DOMAIN old : k \in DOMAIN q /\ q[k] = old[k]
    BY <2>1
  <2>4. Waiting(rx[p]) \subseteq Waiting(rx'[p])
    BY <2>3 DEF Waiting, old, q
  <2>5. p = pkt.in => N \in Waiting(rx'[p])
    <3> SUFFICES ASSUME p = pkt.in PROVE N \in Waiting(rx'[p])
      OBVIOUS
    <3>1. 1 \in 1 .. pkt.words /\ L + 1 \in DOMAIN q
      BY <2>1
    <3>2. q[L + 1] = <<N, 1>>
      BY <3>1, <2>1
    <3>3. L + 1 \in DOMAIN q /\ q[L + 1][1] = N
      BY <3>1, <3>2
    <3> QED
      BY <3>3 DEF Waiting, q
  <2> QED
    BY <2>2, <2>4, <2>5 DEF N
<1>4. pkt.in \in Ports /\ \A n : n \in Arrived' => n \in Arrived \/ n = Len(received) + 1
  <2>1. pkt.in \in Ports
    BY CoreAssumption
  <2> QED
    BY <2>1, QueueGrows
<1>5. ASSUME NEW n \in Arrived'
      PROVE  \E p \in Ports : n \in Ahead(p)' \cup Collected(rx'[p]) \cup Waiting(rx'[p])
  <2>1. CASE n \in Arrived
    <3>1. PICK p \in Ports : n \in Ahead(p) \cup Collected(rx[p]) \cup Waiting(rx[p])
      BY <2>1 DEF NoneLost
    <3>2. n \in Ahead(p)' \cup Collected(rx'[p]) \cup Waiting(rx'[p])
      BY <3>1, <1>2, <1>3
    <3> QED
      BY <3>2
  <2>2. CASE n = Len(received) + 1
    BY <2>2, <1>3, <1>4
  <2> QED
    BY <2>1, <2>2, <1>4
<1> QED
  BY <1>5 DEF NoneLost, Collected, Waiting, Holding

LEMMA HandWhole ==
  ASSUME LongEnough, PipelineOK, WholeInv, NoneLost, ProcessRxStage, LookedUp' = LookedUp
  PROVE  WholeInv' /\ NoneLost'
<1>1. received' = received /\ \A p \in Ports : rx'[p] = RxStep(p, rx[p])
  BY DEF ProcessRxStage
<1>2. ASSUME NEW p \in Ports
      PROVE  /\ RxWhole(p, rx'[p])
             /\ \A n \in Collected(rx[p]) \cup Waiting(rx[p]) :
                  \/ n \in Collected(rx'[p]) \cup Waiting(rx'[p])
                  \/ rx[p].phase = "ready" /\ hash.ii = 0 /\ n = rx[p].item.meta
  <2>1. /\ ArrivalsOK /\ rx[p] \in RxStates /\ RxWhole(p, rx[p])
        /\ Holding(rx[p]) => rx[p].item \in Carried /\ rx[p].item.in = p
    BY DEF PipelineOK, RxOK, WholeInv
  <2> QED
    BY <2>1, <1>1, WholeStep
<1>3. NoneLost'
  <2> SUFFICES ASSUME NEW p \in Ports
               PROVE  /\ Ahead(p) \subseteq Ahead(p)'
                      /\ \A n \in Collected(rx[p]) \cup Waiting(rx[p]) :
                           n \in Ahead(p)' \cup Collected(rx'[p]) \cup Waiting(rx'[p])
    BY <1>1, NoneLostNext
  <2>1. /\ Ahead(p) \subseteq Ahead(p)'
        /\ rx[p].phase = "ready" /\ hash.ii = 0 => rx[p].item.meta \in Ahead(p)'
    BY AheadGrows DEF Handing
  <2> QED
    BY <2>1, <1>2
<1>4. \A n \in DOMAIN rxToHash' : Whole(rxToHash'[n])
  <2>1. PICK s \in Ascending(Handing) : rxToHash' = rxToHash \o HandedBy(s)
    BY DEF ProcessRxStage, Handing, HandedBy
  <2> DEFINE h == HandedBy(s)
             q == rxToHash
  <2>2. /\ h \in Seq(Carried) /\ DOMAIN h = DOMAIN s
        /\ \A k \in DOMAIN s : s[k] \in Handing /\ h[k] = rx[s[k]].item
    BY <2>1, Handed DEF PipelineOK
  <2>3. q \in Seq(Carried)
    BY DEF PipelineOK, QueuesOK
  <2>4. \A k \in DOMAIN h : Whole(h[k])
    <3> SUFFICES ASSUME NEW k \in DOMAIN h PROVE Whole(h[k])
      OBVIOUS
    <3>1. s[k] \in Handing /\ h[k] = rx[s[k]].item
      BY <2>2
    <3>2. s[k] \in Ports /\ rx[s[k]].phase = "ready"
      BY <3>1 DEF Handing
    <3>3. Whole(rx[s[k]].item)
      BY <3>2 DEF WholeInv, RxWhole, Between
    <3> QED
      BY <3>1, <3>3
  <2>5. \A k \in DOMAIN q : Whole(q[k])
    BY DEF WholeInv
  <2> HIDE DEF h, q
  <2> DEFINE c == q \o h
  <2>6. c \in Seq(Carried) /\ Len(q) \in Nat /\ Len(h) \in Nat /\ Len(c) = Len(q) + Len(h)
        /\ (\A k \in 1 .. Len(q) : c[k] = q[k])
        /\ (\A k \in 1 .. Len(h) : c[Len(q) + k] = h[k])
    BY <2>2, <2>3, Joined
  <2> HIDE DEF c
  <2>7. DOMAIN c = 1 .. Len(c) /\ DOMAIN q = 1 .. Len(q) /\ DOMAIN h = 1 .. Len(h)
    BY <2>2, <2>3, <2>6, LenProperties
  <2>8. ASSUME NEW n \in DOMAIN c PROVE Whole(c[n])
    <3>1. CASE n \in 1 .. Len(q)
      BY <3>1, <2>5, <2>6, <2>7
    <3>2. CASE n \notin 1 .. Len(q)
      <4> DEFINE d == n - Len(q)
      <4>1. d \in 1 .. Len(h) /\ Len(q) + d = n
        BY <3>2, <2>6, <2>7
      <4> HIDE DEF d
      <4>2. c[n] = h[d] /\ Whole(h[d])
        BY <4>1, <2>4, <2>6, <2>7
      <4> QED
        BY <4>2
    <3> QED
      BY <3>1, <3>2
  <2>9. rxToHash' = c
    BY <2>1 DEF c, q, h
  <2> QED
    BY <2>8, <2>9
<1>5. \A n \in DOMAIN LookedUp' : Whole(LookedUp'[n])
  BY DEF WholeInv
<1>6. WholeInv'
  BY <1>1, <1>2, <1>4, <1>5, WholeItems
<1> QED
  BY <1>3, <1>6

LEMMA AcceptWhole ==
  ASSUME PipelineOK, WholeInv, HashAccept, hash.engine = 0, ProcessHashStage,
         received' = received, LookedUp' = Append(LookedUp, hash'.item)
  PROVE  WholeInv'
<1>1. /\ rxToHash # <<>> /\ rxToHash \in Seq(Carried) /\ rxToHash' = Tail(rxToHash)
      /\ hash'.item \in CarriedTo /\ hash'.item.in = Head(rxToHash).in
      /\ hash'.item.meta = Head(rxToHash).meta /\ hash'.item.data = Head(rxToHash).data
      /\ rx' = rx
  BY AcceptFields DEF PipelineOK, QueuesOK, ProcessHashStage
<1>2. /\ Len(rxToHash) \in Nat \ {0} /\ Len(Tail(rxToHash)) = Len(rxToHash) - 1
      /\ Tail(rxToHash) \in Seq(Carried) /\ Head(rxToHash) = rxToHash[1]
      /\ \A k \in 1 .. Len(rxToHash) - 1 : Tail(rxToHash)[k] = rxToHash[k + 1]
  BY <1>1, Taken
<1> DEFINE t == Tail(rxToHash)
<1>3. \A k \in DOMAIN rxToHash : Whole(rxToHash[k])
  BY DEF WholeInv
<1>4. DOMAIN rxToHash = 1 .. Len(rxToHash) /\ 1 \in DOMAIN rxToHash
  BY <1>1, <1>2, LenProperties
<1>5. Whole(hash'.item)
  <2>1. Whole(Head(rxToHash))
    BY <1>2, <1>3, <1>4
  <2> QED
    BY <2>1, <1>1 DEF Whole, Meta
<1> HIDE DEF t
<1>6. \A n \in DOMAIN t : Whole(t[n])
  <2>1. DOMAIN t = 1 .. Len(rxToHash) - 1
    BY <1>2, LenProperties DEF t
  <2>2. \A n \in DOMAIN t : n + 1 \in DOMAIN rxToHash /\ t[n] = rxToHash[n + 1]
    BY <2>1, <1>2, <1>4 DEF t
  <2> QED
    BY <2>2, <1>3
<1> DEFINE a == LookedUp
           c == Append(a, hash'.item)
<1>7. /\ a \in Seq(CarriedTo)
      /\ \A k \in DOMAIN a : Whole(a[k])
  BY LookedUpType DEF WholeInv
<1> HIDE DEF a
<1>8. Len(a) \in Nat /\ Len(c) = Len(a) + 1 /\ c \in Seq(CarriedTo)
      /\ (\A k \in 1 .. Len(a) : c[k] = a[k]) /\ c[Len(a) + 1] = hash'.item
  BY <1>1, <1>7, Appended
<1> HIDE DEF c
<1>9. \A k \in DOMAIN c : Whole(c[k])
  <2>1. DOMAIN c = 1 .. Len(a) + 1 /\ DOMAIN a = 1 .. Len(a)
    BY <1>7, <1>8, LenProperties
  <2> SUFFICES ASSUME NEW k \in 1 .. Len(a) + 1 PROVE Whole(c[k])
    BY <2>1
  <2>2. CASE k = Len(a) + 1
    BY <2>2, <1>5, <1>8
  <2>3. CASE k \in 1 .. Len(a)
    BY <2>1, <2>3, <1>7, <1>8
  <2> QED
    BY <2>2, <2>3, <1>8
<1>10. LookedUp' = c /\ rxToHash' = t
  BY <1>1 DEF a, c, t
<1>11. \A p \in Ports : RxWhole(p, rx'[p])
  BY <1>1 DEF WholeInv
<1> QED
  BY <1>6, <1>9, <1>10, <1>11, WholeItems

LEMMA RestWhole == AtRest => WholeInv /\ NoneLost
<1> SUFFICES ASSUME AtRest PROVE WholeInv /\ NoneLost
  OBVIOUS
<1>1. /\ offeredAs = <<>> /\ hashToBuffer = <<>> /\ rxToHash = <<>> /\ InHash = <<>>
      /\ received = <<>>
  BY DEF AtRest, RestInit, IdleHash, InHash, Holding
<1>2. LookedUp = <<>> /\ DOMAIN LookedUp = {} /\ DOMAIN rxToHash = {} /\ Arrived = {}
  BY <1>1 DEF LookedUp, Arrived
<1>3. ASSUME NEW p \in Ports PROVE RxWhole(p, rx[p])
  <2>1. /\ rx[p].inq = <<>> /\ DOMAIN rx[p].inq = {} /\ rx[p].metas = <<>>
        /\ rx[p].phase = "idle" /\ ~rx[p].consuming
    BY DEF AtRest, IdleRx
  <2> QED
    BY <2>1 DEF RxWhole, WholeQueue, ArrivedAt, Chain, Closed, Between
<1> QED
  BY <1>2, <1>3 DEF WholeInv, NoneLost

LEMMA StepWhole ==
  ASSUME LongEnough, PipelineOK, WholeInv, NoneLost, [CoreNext]_coreVars
  PROVE  WholeInv' /\ NoneLost'
<1>1. CASE AtRest'
  BY <1>1, RestWhole, PTL
<1>2. CASE LookedUp' = LookedUp /\ UNCHANGED <<received, rx, rxToHash>>
  <2>1. /\ \A n \in DOMAIN LookedUp' : Whole(LookedUp'[n])
        /\ \A n \in DOMAIN rxToHash' : Whole(rxToHash'[n])
        /\ \A p \in Ports : RxWhole(p, rx'[p])
    BY <1>2 DEF WholeInv
  <2>2. Queued' = Queued
    BY <1>2 DEF Queued
  <2>3. \A p : Ahead(p)' = Ahead(p)
    BY <2>2 DEF Ahead
  <2>4. WholeInv'
    BY <1>2, <2>1, WholeItems
  <2>5. NoneLost'
    BY <1>2, <2>3, NoneLostNext
  <2> QED
    BY <2>4, <2>5
<1>3. CASE LookedUp' = LookedUp /\ TickAllModules
  <2>1. received' = received /\ rxToHash' = rxToHash
    BY <1>3 DEF TickAllModules
  <2>2. ASSUME NEW p \in Ports
        PROVE  /\ RxWhole(p, rx'[p])
               /\ Collected(rx'[p]) = Collected(rx[p]) /\ Waiting(rx'[p]) = Waiting(rx[p])
    <3> DEFINE s == Ticked(rx[p])
    <3>1. rx'[p] = s /\ RxWhole(p, rx[p])
      BY <1>3 DEF TickAllModules, WholeInv
    <3>2. /\ s.inq = rx[p].inq /\ s.metas = rx[p].metas /\ s.consuming = rx[p].consuming
          /\ s.item = rx[p].item /\ (Holding(s) <=> Holding(rx[p]))
          /\ Holding(rx[p]) => s = rx[p]
      BY TickedFields DEF PipelineOK, RxOK
    <3> HIDE DEF s
    <3>3. Collected(s) = Collected(rx[p]) /\ Waiting(s) = Waiting(rx[p])
      BY <3>2 DEF Collected, Waiting
    <3>4. RxWhole(p, s)
      <4>1. CASE Holding(rx[p])
        BY <4>1, <3>1, <3>2
      <4>2. CASE ~Holding(rx[p])
        <5>1. s.phase # "processing" /\ s.phase # "ready" /\ rx[p].phase # "processing"
          BY <4>2, <3>2 DEF Holding
        <5> QED
          BY <5>1, <3>1, <3>2 DEF RxWhole, Between
      <4> QED
        BY <4>1, <4>2
    <3> QED
      BY <3>1, <3>3, <3>4
  <2>3. /\ \A n \in DOMAIN LookedUp' : Whole(LookedUp'[n])
        /\ \A n \in DOMAIN rxToHash' : Whole(rxToHash'[n])
    BY <1>3, <2>1 DEF WholeInv
  <2>4. Queued' = Queued
    BY <1>3, <2>1 DEF Queued
  <2>5. \A p : Ahead(p)' = Ahead(p)
    BY <2>4 DEF Ahead
  <2>6. WholeInv'
    BY <2>1, <2>2, <2>3, WholeItems
  <2>7. NoneLost'
    BY <2>1, <2>2, <2>5, NoneLostNext
  <2> QED
    BY <2>6, <2>7
<1>4. CASE LookedUp' = LookedUp /\ \E pkt \in Traffic : ReceivePacket(pkt)
  BY <1>4, ReceiveWhole, ReceiveComplete
<1>5. CASE LookedUp' = LookedUp /\ ProcessRxStage
  BY <1>5, HandWhole
<1>6. CASE HashAccept /\ hash.engine = 0 /\ ProcessHashStage /\ received' = received
           /\ LookedUp' = Append(LookedUp, hash'.item)
  <2>1. /\ rxToHash # <<>> /\ hash'.item \in CarriedTo /\ rxToHash' = Tail(rxToHash)
        /\ hash'.item.in = Head(rxToHash).in /\ hash'.item.meta = Head(rxToHash).meta
    BY <1>6, AcceptFields
  <2>2. Labels(Append(LookedUp, hash'.item) \o Tail(rxToHash)) = Labels(LookedUp \o rxToHash)
    <3>1. LookedUp \in Seq(Carried \cup CarriedTo) /\ rxToHash \in Seq(Carried \cup CarriedTo)
      BY QueuedType
    <3> HIDE DEF LookedUp
    <3> QED
      BY <2>1, <3>1, Relabelled
  <2>3. Queued' = Queued
    BY <2>1, <2>2, <1>6 DEF Queued, Labels
  <2>4. \A p : Ahead(p)' = Ahead(p)
    BY <2>3 DEF Ahead
  <2>5. rx' = rx
    BY <1>6 DEF ProcessHashStage
  <2>6. NoneLost'
    BY <1>6, <2>4, <2>5, NoneLostNext
  <2> QED
    BY <2>6, <1>6, AcceptWhole
<1> QED
  BY <1>1, <1>2, <1>3, <1>4, <1>5, <1>6, LookUpSteps

LEMMA WholeKept ==
  ASSUME LongEnough
  PROVE  CoreSpec => [](WholeInv /\ NoneLost)
<1>1. CoreInit => WholeInv /\ NoneLost
  BY RestWhole DEF CoreInit, AtRest
<1>2. PipelineOK /\ WholeInv /\ NoneLost /\ [CoreNext]_coreVars => (WholeInv /\ NoneLost)'
  BY StepWhole
<1> QED
  BY <1>1, <1>2, PipelineTyped, PTL DEF CoreSpec

(* When no packet is shorter than the latency of the RX engine, what the   *)
(* buffer is offered are whole packets under their own headers, however    *)
(* close they follow each other.                                           *)
THEOREM OfferedWhole ==
  ASSUME LongEnough
  PROVE  CoreSpec => []PacketsIntact
<1>1. PipelineOK /\ WholeInv => PacketsIntact
  <2> SUFFICES ASSUME PipelineOK, WholeInv, NEW n \in 1 .. offered
               PROVE  /\ offeredAs[n].data = WordsOf(offeredAs[n].meta)
                      /\ offeredAs[n].in = Meta(offeredAs[n]).in
    BY DEF PacketsIntact
  <2>1. n \in 1 .. Len(LookedUp) /\ LookedUp[n] = offeredAs[n] /\ LookedUp \in Seq(CarriedTo)
    BY LookedUpType
  <2>2. n \in DOMAIN LookedUp
    <3> HIDE DEF LookedUp
    <3> QED
      BY <2>1, LenProperties
  <2> QED
    BY <2>1, <2>2 DEF WholeInv, Whole
<1> QED
  BY <1>1, PipelineTyped, WholeKept, PTL

(* A switch that runs no further cycle is done: under the same condition,  *)
(* nothing that has_pending_work does not look at can be left over, and    *)
(* every packet received has been offered to the buffer exactly once.      *)
THEOREM QuiescentWhenDone ==
  ASSUME LongEnough
  PROVE  CoreSpec => []QuiescentIsDone
<1>1. PipelineOK /\ OrderInv /\ WholeInv /\ NoneLost => QuiescentIsDone
  <2> SUFFICES ASSUME PipelineOK, OrderInv, WholeInv, NoneLost, ~HasPendingWork
               PROVE  /\ InSwitch = {}
                      /\ offered = Len(received)
                      /\ \A p \in Ports : rx[p].metas = <<>> /\ ~rx[p].consuming
    BY DEF QuiescentIsDone
  <2>1. /\ \A p \in Ports : rx[p].inq = <<>> /\ ~Holding(rx[p])
        /\ hash.phase = "idle" /\ sched.phase = "idle"
        /\ rxToHash = <<>> /\ hashToBuffer = <<>>
        /\ \A i, o \in Ports : voq[i][o] = <<>>
        /\ \A o \in Ports : out[o].entry = NoEntry
    BY DEF HasPendingWork, HasInnerWork, Backlog, Holding
  <2>2. InSwitch = {}
    <3>1. \A i, o \in Ports : IdsOf(voq[i][o]) = {}
      <4>1. Len(<<>>) = 0 /\ 1 .. 0 = {}
        OBVIOUS
      <4> QED
        BY <4>1, <2>1 DEF IdsOf
    <3>2. Pending = {}
      <4> SUFFICES ASSUME NEW c \in Pending PROVE FALSE
        OBVIOUS
      <4>1. c[2] \in Ports /\ c[3] \in Ports /\ c[1] \in IdsOf(voq[c[2]][c[3]])
        BY DEF Pending, QueuedCopies
      <4> QED
        BY <4>1, <3>1
    <3>3. sched.list = {}
      BY <2>1 DEF PipelineOK, SchedOK
    <3> QED
      BY <3>2, <3>3, <2>1 DEF InSwitch
  <2>3. \A p \in Ports : rx[p].metas = <<>> /\ ~rx[p].consuming
    BY <2>1 DEF WholeInv, RxWhole, Between, Holding
  <2>4. /\ offered \in Nat /\ Len(received) \in Nat /\ offeredAs \in Seq(CarriedTo)
        /\ DOMAIN offeredAs = 1 .. offered /\ LookedUp = offeredAs
        /\ Len(offeredAs) = offered
    <3>1. InHash = <<>>
      BY <2>1 DEF InHash, Holding
    <3>2. offeredAs \in Seq(CarriedTo) /\ Len(offeredAs) = offered /\ offered \in Nat
          /\ Len(received) \in Nat
      BY LookedUpType DEF PipelineOK, OfferedOK, ArrivalsOK
    <3>3. LookedUp = offeredAs
      BY <3>1, <3>2, <2>1, ConcatEmptySeq DEF LookedUp
    <3> QED
      BY <3>2, <3>3, LenProperties
  <2>5. /\ DOMAIN Queued = 1 .. offered
        /\ \A k \in 1 .. offered : /\ Queued[k].in = offeredAs[k].in
                                   /\ Queued[k].meta = offeredAs[k].meta
    <3>1. LookedUp \o rxToHash = offeredAs
      BY <2>1, <2>4, ConcatEmptySeq
    <3>2. Queued = Labels(offeredAs)
      BY <3>1 DEF Queued
    <3> QED
      BY <3>2, <2>4 DEF Labels
  <2>6. \A k \in 1 .. offered : /\ offeredAs[k].meta \in Arrived
                                /\ offeredAs[k].in = received[offeredAs[k].meta].in
    <3>1. \A k \in 1 .. offered : Whole(offeredAs[k])
      BY <2>4 DEF WholeInv
    <3>2. \A k \in 1 .. offered : offeredAs[k].meta \in Arrived
      <4>1. \A k \in 1 .. offered : offeredAs[k] \in CarriedTo
        BY <2>4, ElementOfSeq
      <4> QED
        BY <4>1 DEF CarriedTo
    <3> QED
      BY <3>1, <3>2 DEF Whole, Meta
  <2> DEFINE f == [k \in 1 .. offered |-> offeredAs[k].meta]
  <2>7. f \in [1 .. offered -> Arrived]
    BY <2>6
  <2>8. ASSUME NEW j \in 1 .. offered, NEW k \in 1 .. offered, f[j] = f[k]
        PROVE  j = k
    <3>1. offeredAs[j].meta = offeredAs[k].meta /\ offeredAs[j].in = offeredAs[k].in
      BY <2>6, <2>8
    <3>2. Queued[j].in = Queued[k].in /\ Queued[j].meta = Queued[k].meta
          /\ Queued[j].meta \in Nat
      BY <3>1, <2>5, <2>6 DEF Arrived
    <3>3. ~(j < k) /\ ~(k < j)
      BY <3>2, <2>5 DEF OrderInv, PortOrder
    <3> QED
      BY <3>3, <2>4
  <2>9. ASSUME NEW n \in Arrived PROVE \E k \in 1 .. offered : f[k] = n
    <3>1. PICK p \in Ports : n \in Ahead(p) \cup Collected(rx[p]) \cup Waiting(rx[p])
      BY DEF NoneLost
    <3>2. Collected(rx[p]) = {} /\ Waiting(rx[p]) = {}
      BY <2>1 DEF Collected, Waiting
    <3>3. PICK k \in DOMAIN Queued : Queued[k].meta = n
      BY <3>1, <3>2 DEF Ahead
    <3> QED
      BY <3>3, <2>5
  <2> HIDE DEF f
  <2>10. f \in Bijection(1 .. offered, Arrived)
    <3>1. f \in Injection(1 .. offered, Arrived)
      BY <2>7, <2>8 DEF Injection, IsInjective
    <3>2. f \in Surjection(1 .. offered, Arrived)
      BY <2>7, <2>9 DEF Surjection
    <3> QED
      BY <3>1, <3>2 DEF Bijection
  <2>11. Cardinality(1 .. offered) = offered /\ Cardinality(Arrived) = Len(received)
         /\ IsFiniteSet(1 .. offered)
    <3>1. \A n \in Nat : IsFiniteSet(1 .. n) /\ Cardinality(1 .. n) = n
      <4> TAKE n \in Nat
      <4>1. 1 \in Int /\ n \in Int /\ n - 1 + 1 = n
        OBVIOUS
      <4>2. /\ IsFiniteSet(1 .. n)
            /\ Cardinality(1 .. n) = IF 1 > n THEN 0 ELSE n - 1 + 1
        BY <4>1, FS_Interval
      <4>3. 1 > n => n = 0
        OBVIOUS
      <4> QED
        BY <4>1, <4>2, <4>3
    <3> QED
      BY <3>1, <2>4 DEF Arrived
  <2>12. offered = Len(received)
    BY <2>10, <2>11, FS_Bijection DEF ExistsBijection
  <2> QED
    BY <2>2, <2>3, <2>12
<1> QED
  BY <1>1, PipelineTyped, OrderKept, WholeKept, PTL

-------------------------------------------------------------------------------
(* What the steps of the switch do to the copies: the buffer takes all     *)
(* those a packet asks for or none, the scheduler chooses the oldest of some of its queues and *)
(* loads them, and outputs send.                                           *)
TakeCopies ==
  \E i \in Ports, asked, dests \in SUBSET Ports :
    /\ dests \in {asked, {}}
    /\ offered' = offered + 1 /\ request' = <<i, asked>>
    /\ Pending' = Pending \cup ({offered + 1} \X {i} \X dests)
    /\ taken' = taken \cup ({offered + 1} \X {i} \X dests)
    /\ UNCHANGED <<OnList, OnWire, sent, resent>>

ChooseCopies ==
  /\ OnList = {}
  /\ Pending = Pending' \cup OnList'
  /\ Older(OnList', Pending')
  /\ UNCHANGED <<OnWire, sent, taken, resent, offered, request>>

LoadCopies ==
  /\ OnList \cup OnWire = OnList' \cup OnWire'
  /\ OnWire = {} => OnList' = {}
  /\ UNCHANGED <<Pending, sent, taken, resent, offered, request>>

SendCopy ==
  \E c \in OnWire :
    /\ \A d \in OnWire : d[3] = c[3] => d = c
    /\ OnWire' = OnWire \ {c}
    /\ sent' = sent \cup {c}
    /\ resent' = IF c \in sent THEN resent \cup {c} ELSE resent
    /\ UNCHANGED <<Pending, OnList, taken, offered, request>>

KeepCopies ==
  UNCHANGED <<Pending, OnList, OnWire, sent, taken, resent, offered, request>>

LEMMA PendingCopies ==
  ASSUME TypeOK, QueuesInOrder
  PROVE  /\ \A c \in Pending : c = <<c[1], c[2], c[3]>> /\ c \in OfferedCopies
         /\ \A p, a, b : <<p, a, b>> \in Pending <=>
              a \in Ports /\ b \in Ports /\ p \in IdsOf(voq[a][b])
  BY CopiesInQueues DEF TypeOK, QueuesInOrder, Pending, QueuedCopies, OfferedCopies

LEMMA CopyFields ==
  ASSUME NEW e, NEW o
  PROVE  /\ Copy(e, o)[1] = e.id /\ Copy(e, o)[2] = offeredAs[e.id].in /\ Copy(e, o)[3] = o
         /\ Copy(e, o) \in OfferedCopies => e.id \in 1 .. offered
  BY DEF Copy, OfferedCopies

LEMMA CopiesFixed ==
  ASSUME OnList \cup OnWire \subseteq OfferedCopies, ListedOnce,
         \A id \in 1 .. offered : offeredAs'[id] = offeredAs[id]
  PROVE  /\ sched'.list = sched.list => OnList' = OnList /\ ListedOnce'
         /\ (\A o \in Ports : out'[o].entry = out[o].entry) => OnWire' = OnWire
<1>1. ASSUME NEW e, NEW o, Copy(e, o) \in OfferedCopies
      PROVE  <<e.id, offeredAs'[e.id].in, o>> = Copy(e, o)
  <2>1. e.id \in 1 .. offered
    BY <1>1, CopyFields
  <2> QED
    BY <2>1 DEF Copy
<1>2. ASSUME sched'.list = sched.list PROVE OnList' = OnList
  <2>1. OnList' = {<<t.entry.id, offeredAs'[t.entry.id].in, t.port>> : t \in sched.list}
    BY <1>2 DEF OnList, Copy
  <2>2. \A t \in sched.list : Copy(t.entry, t.port) \in OfferedCopies
    BY DEF OnList
  <2>3. \A t \in sched.list :
          <<t.entry.id, offeredAs'[t.entry.id].in, t.port>> = Copy(t.entry, t.port)
    BY <1>1, <2>2
  <2> QED
    BY <2>1, <2>3 DEF OnList
<1>3. ASSUME \A o \in Ports : out'[o].entry = out[o].entry PROVE OnWire' = OnWire
  <2> DEFINE busy == {p \in Ports : out[p].entry # NoEntry}
  <2>1. OnWire' = {<<out[o].entry.id, offeredAs'[out[o].entry.id].in, o>> : o \in busy}
    BY <1>3 DEF OnWire, Copy
  <2>2. \A o \in busy : Copy(out[o].entry, o) \in OfferedCopies
    BY DEF OnWire
  <2>3. \A o \in busy :
          <<out[o].entry.id, offeredAs'[out[o].entry.id].in, o>> = Copy(out[o].entry, o)
    BY <1>1, <2>2
  <2> QED
    BY <2>1, <2>3 DEF OnWire
<1>4. sched'.list = sched.list => ListedOnce'
  BY DEF ListedOnce
<1> QED
  BY <1>2, <1>3, <1>4

(* The copies of a packet that the buffer takes. *)
LEMMA EnqueueCopies ==
  ASSUME PipelineOK, CopiesInv, ProcessBufferEnqueue
  PROVE  (TakeCopies \/ KeepCopies) /\ (QueuesInOrder /\ FromInput /\ ListedOnce)'
<1>1. /\ UNCHANGED <<sched, out, sent, resent>>
      /\ OnList \cup OnWire \subseteq OfferedCopies /\ QueuesInOrder /\ FromInput /\ ListedOnce
  BY DEF ProcessBufferEnqueue, CopiesInv
<1>2. CASE hashToBuffer = <<>>
  <2>1. UNCHANGED <<vars, offeredAs, taken>>
    BY <1>2 DEF ProcessBufferEnqueue
  <2>2. UNCHANGED <<Pending, offered, request>> /\ QueuesInOrder'
    BY <1>1, <2>1 DEF vars, Pending, QueuesInOrder
  <2>3. FromInput'
    BY <1>1, <2>1, <2>2 DEF FromInput
  <2>4. UNCHANGED <<OnList, OnWire>> /\ ListedOnce'
    BY <1>1, <2>1, CopiesFixed
  <2> QED
    BY <1>1, <2>1, <2>2, <2>3, <2>4 DEF KeepCopies
<1>3. CASE hashToBuffer # <<>>
  <2> DEFINE item == Head(hashToBuffer)
             outs == OutputPorts(item.in, item.port)
             room == HasRoom(item.in, item.port, Len(item.data))
             dests == IF room THEN outs ELSE {}
             new == {offered + 1} \X {item.in} \X dests
  <2>1. /\ item \in CarriedTo /\ item.in \in Ports /\ item.port \in Ports \cup {Broadcast}
        /\ Len(item.data) \in Nat \ {0}
        /\ EnqueuePacket(item.in, item.port, Len(item.data))
        /\ offered \in Nat /\ offered' = offered + 1 /\ request' = <<item.in, outs>>
        /\ offeredAs' = Append(offeredAs, item)
        /\ outs \subseteq Ports
        /\ taken' = IF room
                    THEN taken \cup {<<offered + 1, item.in, o>> : o \in outs} ELSE taken
    BY <1>3, EnqueueFields
  <2>2. PipelineOK'
    BY EnqueueStageTyped
  <2>3. TypeOK /\ TypeOK'
    BY <2>2 DEF PipelineOK
  <2> HIDE DEF item
  <2>4. QueuesInOrder'
    BY <1>1, <2>1, <2>3, EnqueueInOrder
  <2>5. Pending' = IF room THEN Pending \cup ({offered + 1} \X {item.in} \X outs) ELSE Pending
    BY <1>1, <2>1, <2>3, <2>4, EnqueuePending
  <2>6. {<<offered + 1, item.in, o>> : o \in outs} = {offered + 1} \X {item.in} \X outs
    OBVIOUS
  <2> HIDE DEF outs, room
  <2>7. /\ Pending' = Pending \cup new /\ taken' = taken \cup new
        /\ outs \in SUBSET Ports /\ dests \in SUBSET Ports /\ dests \in {outs, {}}
    BY <2>1, <2>5, <2>6
  <2>8. /\ \A id \in 1 .. offered : offeredAs'[id] = offeredAs[id]
        /\ offeredAs'[offered + 1] = item
    <3>1. offeredAs \in Seq(CarriedTo) /\ Len(offeredAs) = offered
      BY DEF PipelineOK, OfferedOK
    <3> QED
      BY <2>1, <3>1, Appended
  <2>9. UNCHANGED <<OnList, OnWire>> /\ ListedOnce'
    BY <1>1, <2>8, CopiesFixed
  <2>10. FromInput'
    <3> SUFFICES ASSUME NEW c \in Pending' PROVE offeredAs'[c[1]].in = c[2]
      BY DEF FromInput
    <3>1. CASE c \in Pending
      <4>1. c[1] \in 1 .. offered
        BY <3>1, <1>1, <2>3, PendingCopies DEF OfferedCopies
      <4> QED
        BY <3>1, <4>1, <1>1, <2>8 DEF FromInput
    <3>2. CASE c \in new
      BY <3>2, <2>8
    <3> QED
      BY <3>1, <3>2, <2>7
  <2> HIDE DEF dests
  <2>11. TakeCopies
    BY <1>1, <2>1, <2>7, <2>9 DEF TakeCopies
  <2> QED
    BY <2>4, <2>9, <2>10, <2>11
<1> QED
  BY <1>2, <1>3

(* The oldest copies of some queues, at most one for an output. *)
LEMMA ScheduleCopies ==
  ASSUME PipelineOK, CopiesInv, Schedule, UNCHANGED history
  PROVE  ChooseCopies /\ (QueuesInOrder /\ FromInput /\ ListedOnce)'
<1>1. /\ sched.phase = "idle" /\ sched.list = {}
      /\ \A i, o \in Ports :
           voq'[i][o] = IF <<i, o>> \in Chosen THEN Tail(voq[i][o]) ELSE voq[i][o]
      /\ voq' \in [Ports -> [Ports -> Seq(Entry)]]
      /\ UNCHANGED <<offered, request, out>>
      /\ \A m \in Chosen : Head(voq[m[1]][m[2]]) \in Entry /\ m = <<m[1], m[2]>>
      /\ sched'.list = {Listed(m) : m \in Chosen}
  BY ScheduleFields
<1>2. /\ Chosen \in SUBSET (Ports \X Ports)
      /\ \A m \in Chosen : m[1] \in Ports /\ m[2] \in Ports /\ voq[m[1]][m[2]] # <<>>
      /\ \A m, n \in Chosen : m[2] = n[2] => m = n
  BY ChosenDequeuable DEF PipelineOK
<1>3. /\ TypeOK /\ QueuesInOrder /\ FromInput
      /\ \A i, o \in Ports : voq[i][o] \in Seq(Entry) /\ InOrder(voq[i][o], offered)
  BY DEF PipelineOK, TypeOK, CopiesInv, QueuesInOrder
<1>4. UNCHANGED <<offeredAs, taken, sent, resent>>
  BY DEF history
<1>5. QueuesInOrder'
  <2> SUFFICES ASSUME NEW i \in Ports, NEW o \in Ports PROVE InOrder(voq'[i][o], offered)
    BY <1>1 DEF QueuesInOrder
  <2>1. CASE <<i, o>> \in Chosen
    <3>1. voq[i][o] # <<>> /\ voq'[i][o] = Tail(voq[i][o])
      BY <2>1, <1>1, <1>2
    <3>2. 1 \in Nat \ {0} /\ offered \in Nat
      BY <1>3 DEF TypeOK
    <3> QED
      BY <3>1, <3>2, <1>3, InOrderKept
  <2>2. CASE <<i, o>> \notin Chosen
    BY <2>2, <1>1, <1>3
  <2> QED
    BY <2>1, <2>2
<1>6. ListedOnce'
  <2> SUFFICES ASSUME NEW m \in Chosen, NEW n \in Chosen, Listed(m).port = Listed(n).port
               PROVE  Listed(m) = Listed(n)
    BY <1>1 DEF ListedOnce
  <2> QED
    BY <1>2 DEF Listed
<1> DEFINE head(m) == Head(voq[m[1]][m[2]]).id
<1>7. ASSUME NEW m \in Chosen
      PROVE  /\ head(m) \in IdsOf(voq[m[1]][m[2]])
             /\ IdsOf(voq'[m[1]][m[2]]) = IdsOf(voq[m[1]][m[2]]) \ {head(m)}
             /\ \A id \in IdsOf(voq[m[1]][m[2]]) : head(m) <= id
             /\ <<head(m), m[1], m[2]>> \in Pending
  <2> DEFINE q == voq[m[1]][m[2]]
  <2>1. q \in Seq(Entry) /\ InOrder(q, offered) /\ q # <<>> /\ voq'[m[1]][m[2]] = Tail(q)
        /\ m[1] \in Ports /\ m[2] \in Ports
    BY <1>1, <1>2, <1>3
  <2> HIDE DEF q
  <2>2. /\ Head(q).id \in IdsOf(q)
        /\ IdsOf(Tail(q)) = IdsOf(q) \ {Head(q).id}
        /\ \A id \in IdsOf(q) : Head(q).id <= id
    BY <2>1, IdsTail
  <2>3. <<Head(q).id, m[1], m[2]>> \in Pending
    BY <2>1, <2>2, <1>3, PendingCopies DEF q
  <2> QED
    BY <2>1, <2>2, <2>3 DEF q
<1>8. /\ \A c \in Pending : c = <<c[1], c[2], c[3]>> /\ c \in OfferedCopies
      /\ \A p, a, b : <<p, a, b>> \in Pending <=>
           a \in Ports /\ b \in Ports /\ p \in IdsOf(voq[a][b])
  BY <1>3, PendingCopies
<1>9. /\ \A c \in Pending' : c = <<c[1], c[2], c[3]>>
      /\ \A p, a, b : <<p, a, b>> \in Pending' <=>
           a \in Ports /\ b \in Ports /\ p \in IdsOf(voq'[a][b])
  <2>1. \A a, b \in Ports : InOrder(voq'[a][b], offered)
    BY <1>1, <1>5 DEF QueuesInOrder
  <2>2. offered \in Nat
    BY <1>3 DEF TypeOK
  <2>3. Pending' = QueuedCopies(voq', offered)
    BY <1>1 DEF Pending
  <2> QED
    BY <1>1, <2>1, <2>2, <2>3, CopiesInQueues
<1>10. OnList' = {<<head(m), m[1], m[2]>> : m \in Chosen}
  <2>1. OnList' = {<<Listed(m).entry.id, offeredAs[Listed(m).entry.id].in, Listed(m).port>>
                     : m \in Chosen}
    <3>1. OnList' = {<<t.entry.id, offeredAs[t.entry.id].in, t.port>> : t \in sched'.list}
      BY <1>4 DEF OnList, Copy
    <3> QED
      BY <3>1, <1>1
  <2>2. ASSUME NEW m \in Chosen
        PROVE  <<Listed(m).entry.id, offeredAs[Listed(m).entry.id].in, Listed(m).port>>
                 = <<head(m), m[1], m[2]>>
    <3>1. Listed(m).entry.id = head(m) /\ Listed(m).port = m[2]
      BY DEF Listed
    <3>2. offeredAs[head(m)].in = m[1]
      BY <1>3, <1>7 DEF FromInput
    <3> QED
      BY <3>1, <3>2
  <2> QED
    BY <2>1, <2>2
<1> HIDE DEF head
<1>11. \A p, a, b : <<p, a, b>> \in Pending =>
         IF <<a, b>> \in Chosen /\ p = head(<<a, b>>)
         THEN <<p, a, b>> \in OnList' ELSE <<p, a, b>> \in Pending'
  <2> SUFFICES ASSUME NEW p, NEW a, NEW b, <<p, a, b>> \in Pending
               PROVE  IF <<a, b>> \in Chosen /\ p = head(<<a, b>>)
                      THEN <<p, a, b>> \in OnList' ELSE <<p, a, b>> \in Pending'
    OBVIOUS
  <2>1. a \in Ports /\ b \in Ports /\ p \in IdsOf(voq[a][b])
    BY <1>8
  <2>2. CASE <<a, b>> \in Chosen /\ p = head(<<a, b>>)
    BY <2>2, <1>10
  <2>3. CASE <<a, b>> \in Chosen /\ p # head(<<a, b>>)
    <3>1. IdsOf(voq'[a][b]) = IdsOf(voq[a][b]) \ {head(<<a, b>>)}
      BY <2>3, <1>7
    <3> QED
      BY <2>1, <2>3, <3>1, <1>9
  <2>4. CASE <<a, b>> \notin Chosen
    BY <2>1, <2>4, <1>1, <1>9
  <2> QED
    BY <2>2, <2>3, <2>4
<1>12. \A c \in Pending' : c \in Pending
  <2> SUFFICES ASSUME NEW p, NEW a, NEW b, <<p, a, b>> \in Pending'
               PROVE  <<p, a, b>> \in Pending
    BY <1>9
  <2>1. a \in Ports /\ b \in Ports /\ p \in IdsOf(voq'[a][b])
    BY <1>9
  <2>2. IdsOf(voq'[a][b]) \subseteq IdsOf(voq[a][b])
    <3>1. CASE <<a, b>> \in Chosen
      <4>1. IdsOf(voq'[a][b]) = IdsOf(voq[a][b]) \ {head(<<a, b>>)}
        BY <3>1, <1>7
      <4> QED
        BY <4>1
    <3>2. CASE <<a, b>> \notin Chosen
      <4>1. voq'[a][b] = voq[a][b]
        BY <3>2, <2>1, <1>1
      <4> QED
        BY <4>1
    <3> QED
      BY <3>1, <3>2
  <2> QED
    BY <2>1, <2>2, <1>8
<1>13. Pending = Pending' \cup OnList'
  <2>1. \A c \in OnList' : c \in Pending
    BY <1>7, <1>10
  <2>2. \A c \in Pending : c \in Pending' \cup OnList'
    <3> SUFFICES ASSUME NEW c \in Pending PROVE c \in Pending' \cup OnList'
      OBVIOUS
    <3>1. c = <<c[1], c[2], c[3]>>
      BY <1>8
    <3>2. <<c[1], c[2], c[3]>> \in Pending
      BY <3>1
    <3>3. <<c[1], c[2], c[3]>> \in Pending' \cup OnList'
      BY <3>2, <1>11
    <3> QED
      BY <3>1, <3>3
  <2> QED
    BY <1>12, <2>1, <2>2
<1>14. Older(OnList', Pending')
  <2> SUFFICES ASSUME NEW m \in Chosen, NEW d \in Pending', d[2] = m[1], d[3] = m[2]
               PROVE  head(m) < d[1]
    BY <1>10 DEF Older
  <2>1. d[1] \in IdsOf(voq'[m[1]][m[2]])
    BY <1>9
  <2>2. head(m) <= d[1] /\ head(m) # d[1]
    BY <2>1, <1>7
  <2>3. head(m) \in Nat /\ d[1] \in Nat
    <3>1. \A c \in Pending : c[1] \in Nat
      BY <1>8 DEF OfferedCopies
    <3> QED
      BY <3>1, <1>7, <1>12
  <2> QED
    BY <2>2, <2>3
<1>15. OnList = {} /\ OnWire' = OnWire
  BY <1>1, <1>4 DEF OnList, OnWire, Copy
<1>16. FromInput'
  BY <1>3, <1>4, <1>12 DEF FromInput
<1> QED
  BY <1>1, <1>4, <1>5, <1>6, <1>13, <1>14, <1>15, <1>16 DEF ChooseCopies

(* Loading the idle outputs of the list moves no copy out of the switch.   *)
LEMMA DispatchCopies ==
  ASSUME PipelineOK, CopiesInv, Dispatch, UNCHANGED history
  PROVE  LoadCopies /\ (QueuesInOrder /\ FromInput /\ ListedOnce)'
<1>1. /\ UNCHANGED vars
      /\ sched'.list = IF Idling = sched.list THEN {} ELSE sched.list
      /\ \A o \in Ports : (\A t \in Idling : t.port # o) => out'[o] = out[o]
      /\ \A o \in Ports : (\E t \in Idling : t.port = o) =>
           out[o].entry = NoEntry /\ \E t \in Idling : t.port = o /\ out'[o] = LoadOf(t)
  <2>1. sched' = IF Idling = sched.list THEN [sched EXCEPT !.phase = "idle", !.list = {}]
                                        ELSE sched
    BY DispatchFields
  <2>2. sched'.list = IF Idling = sched.list THEN {} ELSE sched.list
    BY <2>1 DEF PipelineOK, SchedOK, SchedStates
  <2> QED
    BY <2>2, DispatchFields
<1>2. /\ UNCHANGED <<voq, offered, request, offeredAs, taken, sent, resent>>
      /\ ListedOnce /\ QueuesInOrder /\ FromInput
  BY <1>1 DEF vars, history, CopiesInv
<1>3. UNCHANGED Pending /\ (QueuesInOrder /\ FromInput /\ ListedOnce)'
  <2>1. UNCHANGED Pending /\ QueuesInOrder'
    BY <1>2 DEF Pending, QueuesInOrder
  <2>2. FromInput'
    BY <1>2, <2>1 DEF FromInput
  <2>3. ListedOnce'
    BY <1>1, <1>2 DEF ListedOnce
  <2> QED
    BY <2>1, <2>2, <2>3
<1>4. ASSUME NEW t \in Idling
      PROVE  /\ t \in sched.list /\ t.port \in Ports /\ t.entry # NoEntry
             /\ out'[t.port].entry = t.entry /\ out[t.port].entry = NoEntry
  <2>1. /\ t \in sched.list /\ t.port \in Ports /\ t.entry \in Entry
        /\ out[t.port].entry = NoEntry
    BY DEF Idling, PipelineOK, SchedOK, SchedStates
  <2>2. t.entry # NoEntry
    BY <2>1 DEF Entry, NoEntry
  <2>3. PICK u \in Idling : u.port = t.port /\ out'[t.port] = LoadOf(u)
    BY <1>1, <2>1
  <2>4. u = t
    BY <1>2, <2>1, <2>3 DEF ListedOnce, Idling
  <2> QED
    BY <2>1, <2>2, <2>3, <2>4 DEF LoadOf
<1> DEFINE loaded == {Copy(t.entry, t.port) : t \in Idling}
<1>5. /\ OnWire' = {Copy(out'[o].entry, o) : o \in {p \in Ports : out'[p].entry # NoEntry}}
      /\ OnList' = {Copy(t.entry, t.port) : t \in sched'.list}
  BY <1>2 DEF OnWire, OnList, Copy
<1>6. loaded \subseteq OnWire'
  <2> SUFFICES ASSUME NEW t \in Idling PROVE Copy(t.entry, t.port) \in OnWire'
    OBVIOUS
  <2>1. t.port \in {p \in Ports : out'[p].entry # NoEntry}
    BY <1>4
  <2> QED
    BY <2>1, <1>4, <1>5
<1>7. OnWire \subseteq OnWire'
  <2> SUFFICES ASSUME NEW o \in Ports, out[o].entry # NoEntry
               PROVE  Copy(out[o].entry, o) \in OnWire'
    BY DEF OnWire
  <2>1. \A t \in Idling : t.port # o
    BY <1>4
  <2>2. out'[o] = out[o]
    BY <1>1, <2>1
  <2> QED
    BY <2>2, <1>5
<1>8. OnWire' \subseteq OnWire \cup loaded
  <2> SUFFICES ASSUME NEW o \in Ports, out'[o].entry # NoEntry
               PROVE  Copy(out'[o].entry, o) \in OnWire \cup loaded
    BY <1>5
  <2>1. CASE \A t \in Idling : t.port # o
    <3>1. out'[o] = out[o]
      BY <2>1, <1>1
    <3> QED
      BY <3>1 DEF OnWire
  <2>2. CASE \E t \in Idling : t.port = o
    <3>1. PICK t \in Idling : t.port = o
      BY <2>2
    <3> QED
      BY <3>1, <1>4
  <2> QED
    BY <2>1, <2>2
<1>9. loaded \subseteq OnList
  BY DEF OnList, Idling
<1>10. OnList' = IF Idling = sched.list THEN {} ELSE OnList
  BY <1>1, <1>5 DEF OnList
<1>11. Idling = sched.list => loaded = OnList
  BY DEF OnList
<1>12. OnWire = {} => Idling = sched.list
  <2>1. \A t \in sched.list : t.port \in Ports
    BY DEF PipelineOK, SchedOK, SchedStates
  <2> QED
    BY <2>1 DEF OnWire, Idling
<1> HIDE DEF loaded
<1>13. OnList \cup OnWire = OnList' \cup OnWire' /\ (OnWire = {} => OnList' = {})
  BY <1>6, <1>7, <1>8, <1>9, <1>10, <1>11, <1>12
<1> QED
  BY <1>2, <1>3, <1>13 DEF LoadCopies

(* An output sends the last word of its copy, or another one, or nothing.  *)
LEMMA OutputCopies ==
  ASSUME PipelineOK, CopiesInv, NEW o \in Ports, ProcessOutputStage(o)
  PROVE  (SendCopy \/ KeepCopies) /\ (QueuesInOrder /\ FromInput /\ ListedOnce)'
<1>1. /\ UNCHANGED <<vars, sched, offeredAs, taken>>
      /\ out \in [Ports -> [entry : Entry \cup {NoEntry}, left : Nat]]
      /\ OnList \cup OnWire \subseteq OfferedCopies /\ ListedOnce /\ QueuesInOrder /\ FromInput
  BY DEF ProcessOutputStage, PipelineOK, OutOK, CopiesInv
<1>2. UNCHANGED <<Pending, OnList, offered, request>> /\ (QueuesInOrder /\ FromInput /\ ListedOnce)'
  <2>1. UNCHANGED <<Pending, offered, request>> /\ QueuesInOrder'
    BY <1>1 DEF vars, Pending, QueuesInOrder
  <2>2. FromInput'
    BY <1>1, <2>1 DEF FromInput
  <2>3. OnList' = OnList /\ ListedOnce'
    BY <1>1 DEF OnList, ListedOnce, Copy
  <2> QED
    BY <2>1, <2>2, <2>3
<1>3. OnWire' = {Copy(out'[p].entry, p) : p \in {q \in Ports : out'[q].entry # NoEntry}}
  BY <1>1 DEF OnWire, Copy
<1>4. CASE Transmit(o)
  <2>1. /\ out[o].entry # NoEntry
        /\ out' = [out EXCEPT ![o] = [entry |-> NoEntry, left |-> 0]]
        /\ sent' = sent \cup {CopyOn(o)}
        /\ resent' = IF CopyOn(o) \in sent THEN resent \cup {CopyOn(o)} ELSE resent
    BY <1>4 DEF Transmit
  <2>2. /\ out'[o].entry = NoEntry
        /\ \A p \in Ports : p # o => out'[p] = out[p]
    BY <1>1, <2>1
  <2>3. CopyOn(o) \in OnWire /\ \A d \in OnWire : d[3] = o => d = CopyOn(o)
    BY <2>1, CopyFields DEF OnWire, CopyOn
  <2>4. CopyOn(o)[3] = o
    BY CopyFields DEF CopyOn
  <2>5. OnWire' = OnWire \ {CopyOn(o)}
    <3>1. OnWire' \subseteq OnWire \ {CopyOn(o)}
      <4> SUFFICES ASSUME NEW p \in Ports, out'[p].entry # NoEntry
                   PROVE  Copy(out'[p].entry, p) \in OnWire \ {CopyOn(o)}
        BY <1>3
      <4>1. p # o /\ out'[p] = out[p]
        BY <2>2
      <4>2. Copy(out[p].entry, p)[3] = p
        BY CopyFields
      <4> QED
        BY <4>1, <4>2, <2>4 DEF OnWire
    <3>2. OnWire \ {CopyOn(o)} \subseteq OnWire'
      <4> SUFFICES ASSUME NEW p \in Ports, out[p].entry # NoEntry,
                          Copy(out[p].entry, p) # CopyOn(o)
                   PROVE  Copy(out[p].entry, p) \in OnWire'
        BY DEF OnWire
      <4>1. p # o
        BY DEF CopyOn
      <4>2. out'[p] = out[p]
        BY <4>1, <2>2
      <4> QED
        BY <4>2, <1>3
    <3> QED
      BY <3>1, <3>2
  <2>6. SendCopy
    BY <1>1, <1>2, <2>1, <2>3, <2>4, <2>5 DEF SendCopy
  <2> QED
    BY <1>2, <2>6
<1>5. CASE Transfer(o) \/ (out[o].entry = NoEntry /\ UNCHANGED <<out, sent, resent>>)
  <2>1. UNCHANGED <<sent, resent>> /\ \A p \in Ports : out'[p].entry = out[p].entry
    BY <1>1, <1>5 DEF Transfer
  <2>2. OnWire' = OnWire
    BY <2>1, <1>3 DEF OnWire
  <2> QED
    BY <1>1, <1>2, <2>1, <2>2 DEF KeepCopies
<1> QED
  BY <1>4, <1>5 DEF ProcessOutputStage

(* The other steps leave the copies where they are. *)
LEMMA CopiesUntouched ==
  ASSUME PipelineOK, CopiesInv, UNCHANGED <<vars, sched.list, out, history>>
  PROVE  KeepCopies /\ (QueuesInOrder /\ FromInput /\ ListedOnce)'
<1>1. /\ UNCHANGED <<voq, offered, request, offeredAs, taken, sent, resent, out>>
      /\ sched'.list = sched.list /\ ListedOnce /\ QueuesInOrder /\ FromInput
  BY DEF vars, history, CopiesInv
<1>2. UNCHANGED Pending /\ QueuesInOrder'
  BY <1>1 DEF Pending, QueuesInOrder
<1>3. FromInput'
  BY <1>1, <1>2 DEF FromInput
<1>4. UNCHANGED <<OnList, OnWire>> /\ ListedOnce'
  BY <1>1 DEF OnList, OnWire, Copy, ListedOnce
<1> QED
  BY <1>1, <1>2, <1>3, <1>4 DEF KeepCopies

(* Every step, then, does one of those things. *)
LEMMA CopySteps ==
  ASSUME PipelineOK, CopiesInv, [CoreNext]_coreVars
  PROVE  \/ ResetSwitch
         \/ /\ \/ TakeCopies \/ ChooseCopies \/ SendCopy \/ KeepCopies
               \/ LoadCopies /\ stage = <<"scheduler", 0>> /\ sched.phase = "ready"
            /\ (QueuesInOrder /\ FromInput /\ ListedOnce)'
<1>1. CASE ResetSwitch
  BY <1>1
<1>2. ASSUME NEW pkt \in Traffic, ReceivePacket(pkt) PROVE UNCHANGED <<vars, sched.list, out, history>>
  BY <1>2 DEF ReceivePacket
<1>3. CASE TickAllModules \/ ProcessRxStage \/ ProcessHashStage \/ UNCHANGED coreVars
  <2>1. sched \in SchedStates
    BY DEF PipelineOK, SchedOK
  <2>2. CASE TickAllModules
    <3>1. sched'.list = sched.list /\ UNCHANGED <<vars, out, history>>
      BY <2>1, <2>2 DEF TickAllModules, SchedStates
    <3> QED
      BY <3>1, CopiesUntouched
  <2>3. CASE ProcessRxStage \/ ProcessHashStage \/ UNCHANGED coreVars
    <3>1. UNCHANGED <<vars, sched.list, out, history>>
      BY <2>3 DEF ProcessRxStage, ProcessHashStage, coreVars, pipeline
    <3> QED
      BY <3>1, CopiesUntouched
  <2> QED
    BY <1>3, <2>2, <2>3
<1>4. CASE ProcessBufferEnqueue
  BY <1>4, EnqueueCopies
<1>5. CASE ProcessSchedulerStage
  <2>1. stage = <<"scheduler", 0>> /\ UNCHANGED history
    BY <1>5 DEF ProcessSchedulerStage
  <2>2. CASE Schedule
    BY <2>1, <2>2, ScheduleCopies
  <2>3. CASE Dispatch
    BY <2>1, <2>3, DispatchCopies DEF Dispatch
  <2>4. CASE ScheduleProcess \/ ScheduleWait
    <3>1. UNCHANGED <<vars, sched.list, out, history>>
      BY <2>1, <2>4, ScheduleProcessFields DEF ScheduleWait
    <3> QED
      BY <3>1, CopiesUntouched
  <2> QED
    BY <1>5, <2>2, <2>3, <2>4 DEF ProcessSchedulerStage
<1>6. ASSUME NEW o \in Ports, ProcessOutputStage(o)
      PROVE  (SendCopy \/ KeepCopies) /\ (QueuesInOrder /\ FromInput /\ ListedOnce)'
  BY <1>6, OutputCopies
<1> QED
  BY <1>1, <1>2, <1>3, <1>4, <1>5, <1>6, CopiesUntouched DEF CoreNext, Cycle

-------------------------------------------------------------------------------
(* Every copy the buffer took is in the switch or has been sent.           *)
LEMMA RestCopies == AtRest => CopiesInv /\ FlowInv
<1> SUFFICES ASSUME AtRest PROVE CopiesInv /\ FlowInv
  OBVIOUS
<1>1. /\ offered = 0 /\ sched.list = {} /\ sent = {} /\ taken = {} /\ resent = {}
      /\ voq = [i \in Ports |-> [o \in Ports |-> <<>>]]
      /\ out = IdleOutputs
  BY DEF AtRest, RestInit, Init, IdleScheduler
<1>2. \A i, o \in Ports : voq[i][o] = <<>>
  BY <1>1
<1>3. QueuesInOrder
  BY <1>2 DEF QueuesInOrder, InOrder
<1>4. Pending = {}
  BY <1>1 DEF Pending, QueuedCopies
<1>5. OnList = {} /\ OnWire = {}
  BY <1>1 DEF OnList, OnWire, IdleOutputs
<1>6. InSwitch = {}
  BY <1>4, <1>5 DEF InSwitch, OnList, OnWire
<1> QED
  BY <1>1, <1>3, <1>4, <1>5, <1>6
  DEF CopiesInv, FromInput, ListedOnce, FlowInv, Older

LEMMA InSwitchIs == InSwitch = Pending \cup OnList \cup OnWire
  BY DEF InSwitch, OnList, OnWire

LEMMA CopiesNext ==
  ASSUME PipelineOK, CopiesInv, [CoreNext]_coreVars
  PROVE  CopiesInv'
<1>1. CASE ResetSwitch
  <2>1. AtRest'
    BY <1>1, ResetIsRest DEF PipelineOK
  <2> QED
    BY <2>1, RestCopies, PTL
<1>2. CASE /\ TakeCopies \/ ChooseCopies \/ SendCopy \/ KeepCopies \/ LoadCopies
           /\ (QueuesInOrder /\ FromInput /\ ListedOnce)'
  <2>1. /\ offered \in Nat /\ Pending \subseteq OfferedCopies
        /\ OnList \cup OnWire \cup sent \subseteq OfferedCopies
        /\ taken = Pending \cup OnList \cup OnWire \cup sent
    <3>1. TypeOK /\ QueuesInOrder
      BY DEF PipelineOK, CopiesInv
    <3> QED
      BY <3>1, PendingCopies, InSwitchIs DEF CopiesInv, TypeOK
  <2>2. InSwitch' = Pending' \cup OnList' \cup OnWire'
    BY DEF InSwitch, OnList, OnWire
  <2>3. OfferedCopies' = (1 .. offered') \X Ports \X Ports
    BY DEF OfferedCopies
  <2>4. /\ OnList' \cup OnWire' \cup sent' \subseteq OfferedCopies'
        /\ taken' = Pending' \cup OnList' \cup OnWire' \cup sent'
    <3>1. CASE TakeCopies
      <4>1. PICK i \in Ports, dests \in SUBSET Ports :
              /\ offered' = offered + 1
              /\ Pending' = Pending \cup ({offered + 1} \X {i} \X dests)
              /\ taken' = taken \cup ({offered + 1} \X {i} \X dests)
              /\ UNCHANGED <<OnList, OnWire, sent>>
        BY <3>1 DEF TakeCopies
      <4>2. OfferedCopies \subseteq OfferedCopies'
        BY <4>1, <2>1, <2>3 DEF OfferedCopies
      <4> QED
        BY <4>1, <4>2, <2>1
    <3>2. CASE ~TakeCopies
      <4>1. offered' = offered
        BY <3>2, <1>2 DEF ChooseCopies, SendCopy, KeepCopies, LoadCopies
      <4>2. OfferedCopies' = OfferedCopies
        BY <4>1, <2>3 DEF OfferedCopies
      <4>3. CASE ChooseCopies
        BY <4>2, <4>3, <2>1 DEF ChooseCopies
      <4>4. CASE SendCopy
        BY <4>2, <4>4, <2>1 DEF SendCopy
      <4>5. CASE KeepCopies
        BY <4>2, <4>5, <2>1 DEF KeepCopies
      <4>6. CASE LoadCopies
        BY <4>2, <4>6, <2>1 DEF LoadCopies
      <4> QED
        BY <3>2, <1>2, <4>3, <4>4, <4>5, <4>6
    <3> QED
      BY <3>1, <3>2
  <2> QED
    BY <1>2, <2>2, <2>4 DEF CopiesInv
<1> QED
  BY <1>1, <1>2, CopySteps

LEMMA CopiesKept == CoreSpec => []CopiesInv
<1>1. CoreInit => CopiesInv
  BY RestCopies DEF CoreInit, AtRest
<1>2. PipelineOK /\ CopiesInv /\ [CoreNext]_coreVars => CopiesInv'
  BY CopiesNext
<1> QED
  BY <1>1, <1>2, PipelineTyped, PTL DEF CoreSpec

-------------------------------------------------------------------------------
(* The scheduler loads outputs only when all of them have finished.        *)
LEMMA LatencyType == SchedLatency \in Nat \ {0}
  BY CoreAssumption

LEMMA RestTiming == AtRest => TimingInv
<1> SUFFICES ASSUME AtRest PROVE TimingInv
  OBVIOUS
<1>1. /\ sched.phase = "idle" /\ sched.list = {}
      /\ \A i, o \in Ports : voq[i][o] = <<>>
      /\ \A o \in Ports : out[o].entry = NoEntry
  BY DEF AtRest, RestInit, Init, IdleScheduler, IdleOutputs
<1>2. DOMAIN <<>> = {}
  OBVIOUS
<1> QED
  BY <1>1, <1>2 DEF TimingInv

(* What the next state needs, in terms of what a step changes. *)
LEMMA TimingNext ==
  ASSUME /\ sched'.phase = "processing" => sched'.left < SchedLatency,
         \A i, o \in Ports : \A k \in DOMAIN voq'[i][o] : Fits(voq'[i][o][k].words),
         \A t \in sched'.list : Fits(t.entry.words),
         \A o \in Ports : out'[o].entry # NoEntry => out'[o].left \in 1 .. Remaining(o)'
  PROVE  TimingInv'
  BY DEF TimingInv, Fits

LEMMA RemainingType ==
  ASSUME PipelineOK, NEW o \in Ports
  PROVE  UntilDispatch \in Nat /\ TurnToCome(o) \in {0, 1} /\ Remaining(o) \in Nat
<1>1. UntilDispatch \in Nat
  BY LatencyType DEF UntilDispatch, PipelineOK, SchedOK, SchedStates
<1> QED
  BY <1>1 DEF TurnToCome, Remaining

(* The stages that touch neither scheduler nor outputs, and do not hand    *)
(* the turn from one output to the next.                                   *)
LEMMA TimingUntouched ==
  ASSUME TimingInv, UNCHANGED <<sched.phase, sched.left, sched.list, out>>,
         \A o \in Ports : TurnToCome(o)' = TurnToCome(o),
         \A i, o \in Ports : \A k \in DOMAIN voq'[i][o] : Fits(voq'[i][o][k].words)
  PROVE  TimingInv'
<1>1. sched'.phase = sched.phase /\ sched'.left = sched.left /\ sched'.list = sched.list
      /\ out' = out
  OBVIOUS
<1>2. UntilDispatch' = UntilDispatch
  BY <1>1 DEF UntilDispatch
<1>3. \A o \in Ports : Remaining(o)' = Remaining(o)
  BY <1>2 DEF Remaining
<1> QED
  BY <1>1, <1>3, TimingNext DEF TimingInv

(* The packet that the buffer takes is whole, and so no longer than the    *)
(* packet that arrived.                                                    *)
LEMMA EnqueueTiming ==
  ASSUME ShortEnough, PipelineOK, WholeInv, TimingInv, ProcessBufferEnqueue
  PROVE  TimingInv'
<1>1. /\ UNCHANGED <<sched.phase, sched.left, sched.list, out>>
      /\ \A o \in Ports : TurnToCome(o)' = TurnToCome(o)
  BY DEF ProcessBufferEnqueue, TurnToCome
<1>2. \A i, o \in Ports : voq[i][o] \in Seq(Entry)
  BY DEF PipelineOK, TypeOK
<1>3. \A i, o \in Ports : \A k \in DOMAIN voq'[i][o] : Fits(voq'[i][o][k].words)
  <2>1. CASE hashToBuffer = <<>>
    <3>1. voq' = voq
      BY <2>1 DEF ProcessBufferEnqueue, vars
    <3> QED
      BY <3>1 DEF TimingInv
  <2>2. CASE hashToBuffer # <<>>
    <3> DEFINE item == Head(hashToBuffer)
    <3>1. /\ item \in CarriedTo /\ item.in \in Ports /\ item.port \in Ports \cup {Broadcast}
          /\ item.meta \in Arrived /\ Len(item.data) \in Nat \ {0}
          /\ EnqueuePacket(item.in, item.port, Len(item.data))
          /\ offered \in Nat
      BY <2>2, EnqueueFields
    <3>2. Whole(item)
      <4> DEFINE n == Len(offeredAs) + 1
      <4>1. /\ offeredAs \in Seq(CarriedTo) /\ hashToBuffer \in Seq(CarriedTo)
            /\ InHash \in Seq(CarriedTo)
        BY LookedUpType
      <4>2. /\ Len(offeredAs) \in Nat /\ Len(hashToBuffer) \in Nat \ {0}
            /\ item = hashToBuffer[1]
        BY <2>2, <4>1, Taken
      <4>3. hashToBuffer \o InHash \in Seq(CarriedTo)
            /\ Len(hashToBuffer \o InHash) \in Nat \ {0}
            /\ (hashToBuffer \o InHash)[1] = item
        BY <4>1, <4>2, Joined
      <4>4. LookedUp = offeredAs \o (hashToBuffer \o InHash)
        BY <4>1, ConcatAssociative DEF LookedUp
      <4>5. n \in DOMAIN LookedUp /\ LookedUp[n] = item
        <5> HIDE DEF item
        <5> DEFINE rest == hashToBuffer \o InHash
        <5>1. /\ offeredAs \o rest \in Seq(CarriedTo)
              /\ Len(offeredAs \o rest) = Len(offeredAs) + Len(rest)
              /\ \A k \in 1 .. Len(rest) : (offeredAs \o rest)[k + Len(offeredAs)] = rest[k]
          <6> HIDE DEF rest
          <6> QED
            BY <4>1, <4>3, Joined, ConcatProperties DEF rest
        <5> HIDE DEF rest
        <5>2. 1 \in 1 .. Len(rest) /\ rest[1] = item
          BY <4>3 DEF rest
        <5> QED
          BY <4>2, <4>4, <5>1, <5>2 DEF rest
      <4> QED
        BY <4>5 DEF WholeInv
    <3> HIDE DEF item
    <3>3. Len(item.data) = received[item.meta].words
      <4>1. item.data = WordsOf(item.meta)
        BY <3>2 DEF Whole
      <4>2. received[item.meta] \in Traffic
        BY <3>1 DEF Arrived, PipelineOK, ArrivalsOK
      <4>3. received[item.meta].words \in Nat
        BY <4>2, CoreAssumption
      <4> QED
        BY <4>1, <4>3 DEF WordsOf
    <3>4. Fits(Len(item.data))
      <4>1. received \in Seq(Traffic)
        BY DEF PipelineOK, ArrivalsOK
      <4>2. received[item.meta] \in Traffic
        BY <3>1, <4>1 DEF Arrived
      <4> QED
        BY <3>3, <4>2 DEF ShortEnough, Fits
    <3> DEFINE e == [id |-> offered + 1, words |-> Len(item.data)]
    <3>5. \A i, o \in Ports : voq'[i][o] = voq[i][o] \/ voq'[i][o] = Append(voq[i][o], e)
      <4>1. CASE EnqueueDropped(item.in, item.port, Len(item.data))
        BY <4>1 DEF EnqueueDropped
      <4>2. CASE EnqueueAccepted(item.in, item.port, Len(item.data))
        <5>1. voq' = [voq EXCEPT ![item.in] =
                        [o \in Ports |-> IF o \in OutputPorts(item.in, item.port)
                                         THEN Append(@[o], e) ELSE @[o]]]
          BY <4>2 DEF EnqueueAccepted
        <5>2. voq \in [Ports -> [Ports -> Seq(Entry)]]
          BY DEF PipelineOK, TypeOK
        <5> HIDE DEF e
        <5> QED
          BY <5>1, <5>2, <3>1
      <4> QED
        BY <4>1, <4>2, <3>1 DEF EnqueuePacket
    <3>6. e \in Entry /\ Fits(e.words)
      BY <3>1, <3>4 DEF Entry
    <3> HIDE DEF e
    <3>7. ASSUME NEW i \in Ports, NEW o \in Ports, NEW k \in DOMAIN voq'[i][o]
          PROVE  Fits(voq'[i][o][k].words)
      <4>1. \A j \in DOMAIN voq[i][o] : Fits(voq[i][o][j].words)
        BY DEF TimingInv
      <4>2. CASE voq'[i][o] = voq[i][o]
        BY <4>1, <4>2
      <4>3. CASE voq'[i][o] = Append(voq[i][o], e)
        <5> DEFINE q == voq[i][o]
        <5>1. q \in Seq(Entry)
          BY <1>2
        <5> HIDE DEF q
        <5>2. k \in 1 .. Len(q) + 1 /\ DOMAIN q = 1 .. Len(q) /\ Len(q) \in Nat
          BY <4>3, <5>1, <3>6, Appended DEF q
        <5>3. k = Len(q) + 1 => voq'[i][o][k] = e
          BY <4>3, <5>1, <3>6, Appended DEF q
        <5>4. k \in 1 .. Len(q) => voq'[i][o][k] = q[k]
          BY <4>3, <5>1, <3>6, Appended DEF q
        <5> QED
          BY <5>2, <5>3, <5>4, <4>1, <3>6 DEF q
      <4> QED
        BY <4>2, <4>3, <3>5
    <3> QED
      BY <3>7
  <2> QED
    BY <2>1, <2>2
<1> QED
  BY <1>1, <1>3, TimingUntouched

(* The scheduler's stage comes once in a cycle: it counts the latency of   *)
(* its list down, and at the end of that no output is busy.                *)
LEMMA ScheduleTiming ==
  ASSUME PipelineOK, TimingInv, ProcessSchedulerStage
  PROVE  TimingInv'
<1>1. /\ stage = <<"scheduler", 0>> /\ stage' = <<"output", 0>>
      /\ SchedLatency \in Nat \ {0}
      /\ sched.left \in Nat /\ sched.phase \in {"idle", "processing", "ready"}
      /\ \A i, o \in Ports : voq[i][o] \in Seq(Entry)
  BY LatencyType DEF ProcessSchedulerStage, PipelineOK, SchedOK, SchedStates, TypeOK
<1>2. \A o \in Ports : TurnToCome(o) = 0 /\ TurnToCome(o)' = 1
  <2>1. \A o \in Ports : 0 <= o
    BY BufferAssumption DEF Ports
  <2> QED
    BY <1>1, <2>1 DEF TurnToCome
<1>3. \A o \in Ports : Remaining(o) = UntilDispatch /\ Remaining(o)' = UntilDispatch' + 1
  <2>1. UntilDispatch \in Nat
    BY <1>1 DEF UntilDispatch
  <2> QED
    BY <1>2, <2>1 DEF Remaining
<1>4. \A o \in Ports : out[o].entry # NoEntry => out[o].left \in 1 .. UntilDispatch
  BY <1>3 DEF TimingInv
<1>5. CASE Schedule
  <2>1. /\ sched.phase = "idle" /\ out' = out
        /\ \A i, o \in Ports :
             voq'[i][o] = IF <<i, o>> \in Chosen THEN Tail(voq[i][o]) ELSE voq[i][o]
        /\ sched'.list = {Listed(m) : m \in Chosen}
        /\ sched'.phase = IF SchedLatency = 1 THEN "ready" ELSE "processing"
        /\ sched'.left = SchedLatency - 1
    BY <1>5, ScheduleFields
  <2>2. /\ \A m \in Chosen : m[1] \in Ports /\ m[2] \in Ports /\ voq[m[1]][m[2]] # <<>>
        /\ \A m \in Chosen : m = <<m[1], m[2]>>
    BY <1>5, ScheduleFields, ChosenDequeuable DEF PipelineOK
  <2>3. UntilDispatch' = SchedLatency - 1 /\ UntilDispatch = SchedLatency
    BY <1>1, <2>1 DEF UntilDispatch
  <2>4. ASSUME NEW i \in Ports, NEW o \in Ports, voq[i][o] # <<>>
        PROVE  /\ Fits(Head(voq[i][o]).words)
               /\ \A k \in DOMAIN Tail(voq[i][o]) : Fits(Tail(voq[i][o])[k].words)
    <3> DEFINE q == voq[i][o]
    <3>1. q \in Seq(Entry) /\ \A k \in DOMAIN q : Fits(q[k].words)
      BY <1>1 DEF TimingInv
    <3>2. q # <<>>
      BY <2>4
    <3> HIDE DEF q
    <3>3. /\ Len(q) \in Nat \ {0} /\ Len(Tail(q)) = Len(q) - 1 /\ Tail(q) \in Seq(Entry)
          /\ Head(q) = q[1] /\ \A k \in 1 .. Len(q) - 1 : Tail(q)[k] = q[k + 1]
      BY <3>1, <3>2, Taken
    <3>4. DOMAIN q = 1 .. Len(q) /\ DOMAIN Tail(q) = 1 .. Len(q) - 1
      BY <3>1, <3>3, LenProperties
    <3>5. \A k \in 1 .. Len(q) - 1 : k + 1 \in DOMAIN q
      BY <3>3, <3>4
    <3>6. Fits(Head(q).words)
      BY <3>1, <3>3, <3>4
    <3>7. \A k \in DOMAIN Tail(q) : Fits(Tail(q)[k].words)
      BY <3>1, <3>3, <3>4, <3>5
    <3> QED
      BY <3>6, <3>7 DEF q
  <2>5. \A i, o \in Ports : \A k \in DOMAIN voq'[i][o] : Fits(voq'[i][o][k].words)
    <3> SUFFICES ASSUME NEW i \in Ports, NEW o \in Ports
                 PROVE  \A k \in DOMAIN voq'[i][o] : Fits(voq'[i][o][k].words)
      OBVIOUS
    <3>1. CASE <<i, o>> \in Chosen
      <4>1. voq[i][o] # <<>> /\ voq'[i][o] = Tail(voq[i][o])
        BY <3>1, <2>1, <2>2
      <4> QED
        BY <4>1, <2>4
    <3>2. CASE <<i, o>> \notin Chosen
      <4>1. voq'[i][o] = voq[i][o]
        BY <3>2, <2>1
      <4> QED
        BY <4>1 DEF TimingInv
    <3> QED
      BY <3>1, <3>2
  <2>6. \A t \in sched'.list : Fits(t.entry.words)
    <3> SUFFICES ASSUME NEW m \in Chosen PROVE Fits(Listed(m).entry.words)
      BY <2>1
    <3> QED
      BY <2>2, <2>4 DEF Listed
  <2>7. sched'.left < SchedLatency
    BY <1>1, <2>1
  <2>8. \A o \in Ports : out'[o].entry # NoEntry => out'[o].left \in 1 .. Remaining(o)'
    BY <1>1, <1>3, <1>4, <2>1, <2>3
  <2> QED
    BY <2>5, <2>6, <2>7, <2>8, TimingNext
<1>6. CASE ScheduleProcess
  <2>1. /\ sched.phase = "processing" /\ sched.left > 0
        /\ sched'.list = sched.list /\ sched'.left = sched.left - 1
        /\ sched'.phase = IF sched.left = 1 THEN "ready" ELSE "processing"
        /\ voq' = voq /\ out' = out
    BY <1>6, ScheduleProcessFields DEF vars
  <2>2. UntilDispatch' = sched.left - 1 /\ UntilDispatch = sched.left
    BY <1>1, <2>1 DEF UntilDispatch
  <2>3. \A o \in Ports : out'[o].entry # NoEntry => out'[o].left \in 1 .. Remaining(o)'
    BY <1>1, <1>3, <1>4, <2>1, <2>2
  <2>4. sched.left < SchedLatency
    BY <2>1 DEF TimingInv
  <2>5. sched'.left < SchedLatency
    BY <1>1, <2>1, <2>4
  <2>6. /\ \A i, o \in Ports : \A k \in DOMAIN voq'[i][o] : Fits(voq'[i][o][k].words)
        /\ \A t \in sched'.list : Fits(t.entry.words)
    BY <2>1 DEF TimingInv
  <2> QED
    BY <2>3, <2>5, <2>6, TimingNext
<1>7. CASE Dispatch
  <2>1. /\ sched.phase = "ready" /\ UNCHANGED voq
        /\ sched' = IF Idling = sched.list THEN [sched EXCEPT !.phase = "idle", !.list = {}]
                                           ELSE sched
        /\ \A o \in Ports : (\A t \in Idling : t.port # o) => out'[o] = out[o]
        /\ \A o \in Ports : (\E t \in Idling : t.port = o) =>
             out[o].entry = NoEntry /\ \E t \in Idling : t.port = o /\ out'[o] = LoadOf(t)
    BY <1>7, DispatchFields DEF vars
  <2>2. \A o \in Ports : out[o].entry = NoEntry
    BY <1>1, <1>4, <2>1 DEF UntilDispatch
  <2>3. Idling = sched.list
    BY <2>2 DEF Idling, PipelineOK, SchedOK, SchedStates
  <2>4. sched'.phase = "idle" /\ sched'.list = {}
    BY <2>1, <2>3 DEF PipelineOK, SchedOK, SchedStates
  <2>5. UntilDispatch' = SchedLatency
    BY <2>4 DEF UntilDispatch
  <2>6. ASSUME NEW o \in Ports, out'[o].entry # NoEntry
        PROVE  out'[o].left \in 1 .. Remaining(o)'
    <3>1. \E t \in Idling : t.port = o /\ out'[o] = LoadOf(t)
      BY <2>6, <2>1, <2>2
    <3>2. PICK t \in sched.list : out'[o] = LoadOf(t)
      BY <3>1 DEF Idling
    <3>3. out'[o].left = t.entry.words /\ t.entry.words \in Nat \ {0}
      BY <3>2 DEF LoadOf, PipelineOK, SchedOK, SchedStates, Entry
    <3>4. t.entry.words <= SchedLatency + 1
      BY DEF TimingInv, Fits
    <3> QED
      BY <1>1, <1>3, <2>5, <3>3, <3>4
  <2>7. \A i, o \in Ports : \A k \in DOMAIN voq'[i][o] : Fits(voq'[i][o][k].words)
    BY <2>1 DEF TimingInv
  <2> QED
    BY <2>4, <2>6, <2>7, TimingNext
<1>8. CASE ScheduleWait
  <2>1. sched.phase = "idle" /\ sched' = sched /\ out' = out /\ voq' = voq
    BY <1>8 DEF ScheduleWait, vars
  <2>2. UntilDispatch' = SchedLatency /\ UntilDispatch = SchedLatency
    BY <2>1 DEF UntilDispatch
  <2>3. \A o \in Ports : out'[o].entry # NoEntry => out'[o].left \in 1 .. Remaining(o)'
    BY <1>1, <1>3, <1>4, <2>1, <2>2
  <2> QED
    BY <2>1, <2>3, TimingNext DEF TimingInv
<1> QED
  BY <1>5, <1>6, <1>7, <1>8 DEF ProcessSchedulerStage

(* An output whose turn it is sends a word, or has none.                   *)
LEMMA OutputTiming ==
  ASSUME PipelineOK, TimingInv, NEW o \in Ports, ProcessOutputStage(o)
  PROVE  TimingInv'
<1>1. /\ stage = <<"output", o>>
      /\ stage' = IF o = NumPorts - 1 THEN <<"rest", 0>> ELSE <<"output", o + 1>>
      /\ sched' = sched /\ voq' = voq
      /\ out \in [Ports -> [entry : Entry \cup {NoEntry}, left : Nat]]
      /\ o \in Nat /\ o <= NumPorts - 1 /\ NumPorts \in Nat
  BY BufferAssumption DEF ProcessOutputStage, vars, Ports, PipelineOK, OutOK
<1>2. UntilDispatch' = UntilDispatch /\ UntilDispatch \in Nat
  BY <1>1, RemainingType DEF UntilDispatch
<1>3. ASSUME NEW p \in Ports, p # o PROVE Remaining(p)' = Remaining(p)
  <2>1. p \in Nat /\ p <= NumPorts - 1
    BY BufferAssumption DEF Ports
  <2>2. TurnToCome(p) = IF o <= p THEN 1 ELSE 0
    BY <1>1 DEF TurnToCome
  <2>3. CASE o = NumPorts - 1
    <3>1. stage'[1] = "rest"
      BY <1>1, <2>3
    <3>2. TurnToCome(p)' = 0
      BY <3>1 DEF TurnToCome
    <3>3. ~(o <= p)
      BY <1>1, <1>3, <2>1, <2>3
    <3> QED
      BY <1>2, <2>2, <3>2, <3>3 DEF Remaining
  <2>4. CASE o # NumPorts - 1
    <3>1. stage' = <<"output", o + 1>>
      BY <1>1, <2>4
    <3>2. TurnToCome(p)' = IF o + 1 <= p THEN 1 ELSE 0
      BY <3>1 DEF TurnToCome
    <3>3. o <= p <=> o + 1 <= p
      BY <1>1, <1>3, <2>1
    <3> QED
      BY <1>2, <2>2, <3>2, <3>3 DEF Remaining
  <2> QED
    BY <2>3, <2>4
<1>4. Remaining(o) = UntilDispatch + 1 /\ Remaining(o)' = UntilDispatch
  <2>1. TurnToCome(o) = 1
    BY <1>1 DEF TurnToCome
  <2>2. TurnToCome(o)' = 0
    <3>1. stage'[1] = "rest" \/ (stage'[1] = "output" /\ stage'[2] = o + 1)
      BY <1>1
    <3> QED
      BY <1>1, <3>1 DEF TurnToCome
  <2> QED
    BY <1>2, <2>1, <2>2 DEF Remaining
<1>5. \A p \in Ports : p # o => out'[p] = out[p]
  BY <1>1 DEF ProcessOutputStage, Transmit, Transfer
<1>6. out'[o].entry # NoEntry => out'[o].left \in 1 .. Remaining(o)'
  <2>1. CASE Transmit(o)
    <3>1. out'[o].entry = NoEntry
      BY <1>1, <2>1 DEF Transmit
    <3> QED
      BY <3>1
  <2>2. CASE Transfer(o)
    <3>1. out[o].entry # NoEntry /\ out[o].left > 1 /\ out'[o].left = out[o].left - 1
      BY <1>1, <2>2 DEF Transfer
    <3>2. out[o].left \in 1 .. UntilDispatch + 1
      BY <3>1, <1>4 DEF TimingInv
    <3>3. out[o].left - 1 \in 1 .. UntilDispatch
      BY <3>1, <3>2, <1>2
    <3> QED
      BY <3>1, <3>3, <1>4
  <2>3. CASE out[o].entry = NoEntry /\ UNCHANGED out
    BY <2>3
  <2> QED
    BY <2>1, <2>2, <2>3 DEF ProcessOutputStage
<1>7. \A p \in Ports : out'[p].entry # NoEntry => out'[p].left \in 1 .. Remaining(p)'
  <2> SUFFICES ASSUME NEW p \in Ports, out'[p].entry # NoEntry
               PROVE  out'[p].left \in 1 .. Remaining(p)'
    OBVIOUS
  <2>1. CASE p = o
    BY <2>1, <1>6
  <2>2. CASE p # o
    <3>1. out[p].left \in 1 .. Remaining(p)
      BY <2>2, <1>5 DEF TimingInv
    <3> QED
      BY <3>1, <2>2, <1>3, <1>5
  <2> QED
    BY <2>1, <2>2
<1> QED
  BY <1>1, <1>7, TimingNext DEF TimingInv

LEMMA TimingKept ==
  ASSUME LongEnough, ShortEnough
  PROVE  CoreSpec => []TimingInv
<1>1. CoreInit => TimingInv
  BY RestTiming DEF CoreInit, AtRest
<1>2. PipelineOK /\ WholeInv /\ TimingInv /\ [CoreNext]_coreVars => TimingInv'
  <2> SUFFICES ASSUME PipelineOK, WholeInv, TimingInv, [CoreNext]_coreVars PROVE TimingInv'
    OBVIOUS
  <2>1. \A i, o \in Ports : \A k \in DOMAIN voq[i][o] : Fits(voq[i][o][k].words)
    BY DEF TimingInv
  <2>2. CASE ResetSwitch
    <3>1. AtRest'
      BY <2>2, ResetIsRest DEF PipelineOK
    <3> QED
      BY <3>1, RestTiming, PTL
  <2>3. CASE (\E pkt \in Traffic : ReceivePacket(pkt)) \/ UNCHANGED coreVars
    <3>1. UNCHANGED <<stage, sched, out, voq>>
      BY <2>3 DEF ReceivePacket, coreVars, pipeline, vars
    <3> QED
      BY <2>1, <3>1, TimingUntouched DEF TurnToCome
  <2>4. CASE TickAllModules \/ ProcessRxStage \/ ProcessHashStage
    <3>1. /\ stage[1] # "output" /\ stage'[1] # "output" /\ UNCHANGED <<out, voq>>
      BY <2>4 DEF TickAllModules, ProcessRxStage, ProcessHashStage, vars
    <3>2. UNCHANGED <<sched.phase, sched.left, sched.list>>
      BY <2>4 DEF TickAllModules, ProcessRxStage, ProcessHashStage, PipelineOK, SchedOK,
                  SchedStates
    <3> QED
      BY <2>1, <3>1, <3>2, TimingUntouched DEF TurnToCome
  <2>5. CASE ProcessBufferEnqueue
    BY <2>5, EnqueueTiming
  <2>6. CASE ProcessSchedulerStage
    BY <2>6, ScheduleTiming
  <2>7. ASSUME NEW o \in Ports, ProcessOutputStage(o) PROVE TimingInv'
    BY <2>7, OutputTiming
  <2> QED
    BY <2>2, <2>3, <2>4, <2>5, <2>6, <2>7 DEF CoreNext, Cycle
<1> QED
  BY <1>1, <1>2, PipelineTyped, WholeKept, PTL DEF CoreSpec

-------------------------------------------------------------------------------
(* No flow is overtaken between the buffer and the wire.                   *)
LEMMA CopyTypes ==
  ASSUME PipelineOK, CopiesInv
  PROVE  /\ offered \in Nat
         /\ Pending \cup OnList \cup OnWire \cup sent \subseteq OfferedCopies
         /\ \A c \in OfferedCopies : c = <<c[1], c[2], c[3]>> /\ c[1] \in Nat /\ c[1] <= offered
<1>1. TypeOK /\ QueuesInOrder
  BY DEF PipelineOK, CopiesInv
<1> QED
  BY <1>1, PendingCopies DEF CopiesInv, OfferedCopies, TypeOK

LEMMA FlowNext ==
  ASSUME PipelineOK, CopiesInv, TimingInv, FlowInv, [CoreNext]_coreVars
  PROVE  FlowInv'
<1>1. CASE ResetSwitch
  <2>1. AtRest'
    BY <1>1, ResetIsRest DEF PipelineOK
  <2> QED
    BY <2>1, RestCopies, PTL
<1>2. /\ Older(sent, Pending \cup OnList \cup OnWire)
      /\ Older(OnWire, Pending \cup OnList) /\ Older(OnList, Pending) /\ resent = {}
  BY InSwitchIs DEF FlowInv
<1>3. /\ offered \in Nat
      /\ Pending \cup OnList \cup OnWire \cup sent \subseteq OfferedCopies
      /\ \A c \in OfferedCopies : c[1] \in Nat /\ c[1] <= offered
  BY CopyTypes
<1>4. SUFFICES ASSUME ~ResetSwitch
               PROVE  /\ Older(sent', Pending' \cup OnList' \cup OnWire')
                      /\ Older(OnWire', Pending' \cup OnList') /\ Older(OnList', Pending')
                      /\ resent' = {}
  <2>1. InSwitch' = Pending' \cup OnList' \cup OnWire'
    BY DEF InSwitch, OnList, OnWire
  <2> QED
    BY <1>1, <2>1 DEF FlowInv, Older
<1>5. CASE TakeCopies
  <2>1. PICK i \in Ports, dests \in SUBSET Ports :
          /\ offered' = offered + 1
          /\ Pending' = Pending \cup ({offered + 1} \X {i} \X dests)
          /\ UNCHANGED <<OnList, OnWire, sent, resent>>
    BY <1>5 DEF TakeCopies
  <2> DEFINE new == {offered + 1} \X {i} \X dests
  <2>2. \A c \in OfferedCopies, d \in new : c[1] < d[1]
    BY <1>3
  <2> HIDE DEF new
  <2> QED
    BY <1>2, <1>3, <2>1, <2>2 DEF Older, new
<1>6. CASE ChooseCopies
  BY <1>2, <1>6 DEF ChooseCopies, Older
<1>7. CASE LoadCopies /\ stage = <<"scheduler", 0>> /\ sched.phase = "ready"
  <2>1. OnWire = {}
    <3>1. \A o \in Ports : Remaining(o) = 0
      BY <1>7 DEF Remaining, UntilDispatch, TurnToCome
    <3>2. \A o \in Ports : out[o].entry = NoEntry
      BY <3>1 DEF TimingInv
    <3> QED
      BY <3>2 DEF OnWire
  <2>2. OnList' = {} /\ OnWire' = OnList /\ UNCHANGED <<Pending, sent, resent>>
    BY <1>7, <2>1 DEF LoadCopies
  <2> QED
    BY <1>2, <2>2 DEF Older
<1>8. CASE SendCopy
  <2>1. PICK c \in OnWire :
          /\ \A d \in OnWire : d[3] = c[3] => d = c
          /\ OnWire' = OnWire \ {c}
          /\ sent' = sent \cup {c}
          /\ resent' = IF c \in sent THEN resent \cup {c} ELSE resent
          /\ UNCHANGED <<Pending, OnList>>
    BY <1>8 DEF SendCopy
  <2>2. c \notin sent
    BY <1>2, <1>3 DEF Older
  <2>3. Older({c}, Pending \cup OnList \cup (OnWire \ {c}))
    BY <1>2, <2>1 DEF Older
  <2>4. Older(sent', Pending' \cup OnList' \cup OnWire')
    BY <1>2, <2>1, <2>3 DEF Older
  <2> QED
    BY <1>2, <2>1, <2>2, <2>4 DEF Older
<1>9. CASE KeepCopies
  BY <1>2, <1>9 DEF KeepCopies
<1> QED
  BY <1>4, <1>5, <1>6, <1>7, <1>8, <1>9, CopySteps

LEMMA FlowKept ==
  ASSUME LongEnough, ShortEnough
  PROVE  CoreSpec => []FlowInv
<1>1. CoreInit => FlowInv
  BY RestCopies DEF CoreInit, AtRest
<1>2. PipelineOK /\ CopiesInv /\ TimingInv /\ FlowInv /\ [CoreNext]_coreVars => FlowInv'
  BY FlowNext
<1> QED
  BY <1>1, <1>2, PipelineTyped, CopiesKept, TimingKept, PTL DEF CoreSpec

(* Between the buffer and the wire no copy is lost, none is invented and   *)
(* none is sent while it is also kept, when the words of every packet fit  *)
(* between two dispatches.                                                 *)
THEOREM NoCopyLost ==
  ASSUME LongEnough, ShortEnough
  PROVE  CoreSpec => []CopiesConserved
<1>1. PipelineOK /\ CopiesInv /\ FlowInv => CopiesConserved
  <2> SUFFICES ASSUME PipelineOK, CopiesInv, FlowInv PROVE InSwitch \cap sent = {}
    BY DEF CopiesInv, CopiesConserved
  <2>1. \A c \in sent : c[1] \in Nat
    BY CopyTypes
  <2> QED
    BY <2>1 DEF FlowInv, Older
<1> QED
  BY <1>1, PipelineTyped, CopiesKept, FlowKept, PTL

(* Under the same condition a list that was dispatched is gone: no copy is *)
(* put on the wire a second time.                                          *)
THEOREM NoCopySentTwice ==
  ASSUME LongEnough, ShortEnough
  PROVE  CoreSpec => []SentOnce
<1>1. FlowInv => SentOnce
  BY DEF FlowInv, SentOnce
<1> QED
  BY <1>1, FlowKept, PTL

Emptied == InSwitch = {} /\ offered = 0 /\ request = <<>>

LEMMA RestIsEmpty == AtRest => Emptied
<1>1. AtRest => CopiesInv /\ taken = {} /\ offered = 0 /\ request = <<>>
  BY RestCopies DEF AtRest, RestInit, Init
<1> QED
  BY <1>1 DEF CopiesInv, Emptied

(* And the switch is the ordered multicast that its buffer is, up to the   *)
(* last word on the wire: a packet is taken for every output it is meant   *)
(* for or for none, every flow leaves in the order of its packets, and     *)
(* only a reset forgets a copy.                                            *)
THEOREM SwitchIsOrderedMulticast ==
  ASSUME LongEnough, ShortEnough
  PROVE  CoreSpec => ImplementsMulticastToWire
<1>1. CoreInit => Wire!Init
  BY RestIsEmpty DEF CoreInit, AtRest, Emptied, Wire!Init
<1>2. ASSUME PipelineOK, CopiesInv, FlowInv, [CoreNext]_coreVars
      PROVE  [Wire!Next]_Wire!vars
  <2>1. \/ TakeCopies \/ ChooseCopies \/ SendCopy \/ KeepCopies \/ LoadCopies
        \/ ResetSwitch
    BY <1>2, CopySteps
  <2>2. /\ InSwitch = Pending \cup OnList \cup OnWire
        /\ InSwitch' = Pending' \cup OnList' \cup OnWire'
    BY DEF InSwitch, OnList, OnWire
  <2>3. CASE TakeCopies
    <3>1. PICK i \in Ports, asked \in SUBSET Ports, dests \in SUBSET Ports :
            /\ dests \in {asked, {}}
            /\ offered' = offered + 1 /\ request' = <<i, asked>>
            /\ Pending' = Pending \cup ({offered + 1} \X {i} \X dests)
            /\ UNCHANGED <<OnList, OnWire>>
      BY <2>3 DEF TakeCopies
    <3>2. Wire!Accept(i, asked) \/ Wire!Refuse(i, asked)
      BY <2>2, <3>1 DEF Wire!Accept, Wire!Refuse, Wire!Offer
    <3> QED
      BY <3>2 DEF Wire!Next
  <2>4. CASE SendCopy
    <3>1. PICK c \in OnWire :
            /\ \A d \in OnWire : d[3] = c[3] => d = c
            /\ OnWire' = OnWire \ {c}
            /\ UNCHANGED <<Pending, OnList, offered, request>>
      BY <2>4 DEF SendCopy
    <3>2. /\ \A d \in InSwitch : d[1] \in Nat
          /\ c = <<c[1], c[2], c[3]>> /\ c \in InSwitch
      BY <1>2, <2>2, CopyTypes
    <3>3. \A d \in Pending \cup OnList : d[2] = c[2] /\ d[3] = c[3] => c[1] < d[1]
      BY <1>2 DEF FlowInv, Older
    <3>4. \A d \in InSwitch : d[2] = c[2] /\ d[3] = c[3] => c[1] <= d[1]
      BY <2>2, <3>1, <3>2, <3>3
    <3>5. c \notin Pending \cup OnList
      BY <3>2, <3>3
    <3>6. InSwitch' = InSwitch \ {<<c[1], c[2], c[3]>>}
      BY <2>2, <3>1, <3>2, <3>5
    <3>7. <<c[1], c[2], c[3]>> \in InSwitch
      BY <3>2
    <3>8. Wire!Deliver(c[1], c[2], c[3])
      BY <3>1, <3>4, <3>6, <3>7 DEF Wire!Deliver
    <3> QED
      BY <3>2, <3>8 DEF Wire!Next
  <2>5. CASE ChooseCopies \/ LoadCopies \/ KeepCopies
    <3>1. InSwitch' = InSwitch /\ offered' = offered /\ request' = request
      BY <2>2, <2>5 DEF ChooseCopies, LoadCopies, KeepCopies
    <3> QED
      BY <3>1 DEF Wire!vars
  <2>6. CASE ResetSwitch
    <3>1. AtRest'
      BY <1>2, <2>6, ResetIsRest DEF PipelineOK
    <3>2. Emptied'
      BY <3>1, RestIsEmpty, PTL
    <3> QED
      BY <3>2 DEF Emptied, Wire!Next, Wire!Clear
  <2> QED
    BY <2>1, <2>3, <2>4, <2>5, <2>6
<1> QED
  BY <1>1, <1>2, PipelineTyped, CopiesKept, FlowKept, PTL
  DEF CoreSpec, ImplementsMulticastToWire

-------------------------------------------------------------------------------
(* The memory of the buffer, filled and emptied by the pipeline.           *)
BufferInv == WithinLimits /\ Accounting

LEMMA RestBuffer == AtRest => BufferInv
<1> SUFFICES ASSUME Init PROVE BufferInv
  BY DEF AtRest, RestInit
<1>1. WithinLimits
  BY InitFits
<1>2. EmptyBuffer
  BY DEF Init, EmptyBuffer
<1> QED
  BY <1>1, <1>2, EmptyAccounted DEF BufferInv

(* What a cycle of the scheduler gives back: no two matches share an       *)
(* output, hence none share a cell, and every cell is freed of the words   *)
(* of one head at most.                                                    *)
LEMMA ScheduleFrees ==
  ASSUME PipelineOK, Schedule
  PROVE  /\ \A m, n \in Chosen : Cell(m[1], m[2]) = Cell(n[1], n[2]) => m = n
         /\ \A c \in Cells : (\A m \in Chosen : Cell(m[1], m[2]) # c) => used'[c] = used[c]
         /\ \A m \in Chosen : used'[Cell(m[1], m[2])]
                                = MaxOf(0, used[Cell(m[1], m[2])] - Head(Queue(voq, m)).words)
         /\ stats'["occupancy"] = stats["occupancy"] - Cardinality(Chosen)
<1> DEFINE Freed(c) == {m \in Chosen : Cell(m[1], m[2]) = c}
           First(c) == CHOOSE m \in Freed(c) : TRUE
           WordsFreed(c) == Head(voq[First(c)[1]][First(c)[2]]).words
<1>1. /\ \A m \in Chosen : m[1] \in Ports /\ m[2] \in Ports
      /\ \A m, n \in Chosen : m[2] = n[2] => m = n
  BY ChosenDequeuable DEF PipelineOK
<1>2. \A m, n \in Chosen : Cell(m[1], m[2]) = Cell(n[1], n[2]) => m = n
  BY <1>1 DEF Cell
<1>3. /\ used' = [c \in Cells |-> IF Freed(c) = {} THEN used[c]
                                  ELSE MaxOf(0, used[c] - WordsFreed(c))]
      /\ stats' = [stats EXCEPT !["dequeued"] = @ + Cardinality(Chosen),
                                !["occupancy"] = @ - Cardinality(Chosen)]
  BY DEF Schedule, Chosen, DequeueMatches
<1>4. \A c \in Cells : (\A m \in Chosen : Cell(m[1], m[2]) # c) => used'[c] = used[c]
  BY <1>3
<1>5. ASSUME NEW m \in Chosen
      PROVE  used'[Cell(m[1], m[2])]
               = MaxOf(0, used[Cell(m[1], m[2])] - Head(Queue(voq, m)).words)
  <2> DEFINE c == Cell(m[1], m[2])
  <2>1. c \in Cells
    BY <1>1, CellType
  <2>2. Freed(c) # {} /\ \A n \in Freed(c) : n = m
    BY <1>2
  <2>3. First(c) = m
    BY <2>2
  <2>4. WordsFreed(c) = Head(Queue(voq, m)).words
    BY <2>3 DEF Queue
  <2> HIDE DEF Freed, WordsFreed, c
  <2>5. used'[c] = MaxOf(0, used[c] - Head(Queue(voq, m)).words)
    BY <1>3, <2>1, <2>2, <2>4
  <2> QED
    BY <2>5 DEF c
<1>6. stats'["occupancy"] = stats["occupancy"] - Cardinality(Chosen)
  BY <1>3 DEF PipelineOK, TypeOK, Counters
<1> QED
  BY <1>2, <1>4, <1>5, <1>6

LEMMA ScheduleAccounted ==
  ASSUME PipelineOK, TypeOK', BufferInv, Schedule
  PROVE  BufferInv'
<1>1. TypeOK /\ WithinLimits /\ Accounting
  BY DEF PipelineOK, BufferInv
<1>2. /\ \A i, o \in Ports :
           voq'[i][o] = IF <<i, o>> \in Chosen THEN Tail(voq[i][o]) ELSE voq[i][o]
      /\ \A c \in Cells : used'[c] <= used[c]
      /\ UNCHANGED <<bufferType, peak>>
  BY ScheduleFields
<1>3. Chosen \in Pairs /\ \A m \in Chosen : Queue(voq, m) # <<>>
  BY ChosenDequeuable DEF PipelineOK, Pairs, Queue
<1>4. \A io \in AllPairs : Queue(voq', io) = IF io \in Chosen THEN Tail(Queue(voq, io))
                                                              ELSE Queue(voq, io)
  BY <1>2 DEF AllPairs, Queue
<1>5. Accounting'
  BY <1>1, <1>2, <1>3, <1>4, ScheduleFrees, DequeuesAccounted
<1>6. WithinLimits'
  BY <1>1, <1>2, FreedFits
<1> QED
  BY <1>5, <1>6 DEF BufferInv

LEMMA StepBuffer ==
  ASSUME PipelineOK, TypeOK', BufferInv, [CoreNext]_coreVars
  PROVE  BufferInv'
<1>1. CASE UNCHANGED vars
  BY <1>1 DEF vars, BufferInv, WithinLimits, Accounting, Sharing, Cell, Limit
<1>2. CASE ResetSwitch
  <2>1. AtRest'
    BY <1>2, ResetIsRest DEF PipelineOK
  <2> QED
    BY <2>1, RestBuffer, PTL
<1>3. CASE ProcessBufferEnqueue
  <2>1. CASE hashToBuffer = <<>>
    BY <1>1, <1>3, <2>1 DEF ProcessBufferEnqueue
  <2>2. CASE hashToBuffer # <<>>
    <3> DEFINE item == Head(hashToBuffer)
    <3>1. /\ item.in \in Ports /\ item.port \in Ports \cup {Broadcast}
          /\ Len(item.data) \in Nat \ {0}
          /\ EnqueuePacket(item.in, item.port, Len(item.data))
      BY <1>3, <2>2, EnqueueFields
    <3>2. TypeOK /\ WithinLimits /\ Accounting
      BY DEF PipelineOK, BufferInv
    <3> HIDE DEF item
    <3> QED
      BY <3>1, <3>2, EnqueueFits, EnqueueAccounted DEF BufferInv
  <2> QED
    BY <2>1, <2>2
<1>4. CASE Schedule
  BY <1>4, ScheduleAccounted
<1>5. CASE Dispatch \/ ScheduleProcess \/ ScheduleWait
  <2>1. UNCHANGED vars
    BY <1>5, DispatchFields, ScheduleProcessFields DEF ScheduleWait
  <2> QED
    BY <1>1, <2>1
<1>6. ASSUME \/ \E pkt \in Traffic : ReceivePacket(pkt)
             \/ TickAllModules \/ ProcessRxStage \/ ProcessHashStage
             \/ \E o \in Ports : ProcessOutputStage(o)
             \/ UNCHANGED coreVars
      PROVE  BufferInv'
  <2>1. UNCHANGED vars
    BY <1>6 DEF ReceivePacket, TickAllModules, ProcessRxStage, ProcessHashStage,
                ProcessOutputStage, coreVars
  <2> QED
    BY <1>1, <2>1
<1> QED
  BY <1>2, <1>3, <1>4, <1>5, <1>6 DEF CoreNext, Cycle, ProcessSchedulerStage

LEMMA BufferKept == CoreSpec => []BufferInv
<1>1. CoreInit => BufferInv
  BY RestBuffer DEF CoreInit, AtRest
<1>2. PipelineOK /\ PipelineOK' /\ BufferInv /\ [CoreNext]_coreVars => BufferInv'
  BY StepBuffer DEF PipelineOK
<1> QED
  BY <1>1, <1>2, PipelineTyped, PTL DEF CoreSpec

(* Under the schedulers, which free several memories in one cycle, no      *)
(* memory of the switch is ever over-committed.                            *)
THEOREM SwitchMemoryBounded == CoreSpec => []WithinLimits
<1>1. BufferInv => WithinLimits
  BY DEF BufferInv
<1> QED
  BY <1>1, BufferKept, PTL

(* The memory the switch believes to be in use, by which it drops packets, *)
(* and the copies it believes to be queued are the queued ones, in every   *)
(* stage of every cycle and through resets.                                *)
THEOREM SwitchAccountingExact == CoreSpec => [](UsedIsWhatIsQueued /\ OccupancyIsCopiesQueued)
<1>1. BufferInv => UsedIsWhatIsQueued /\ OccupancyIsCopiesQueued
  BY DEF BufferInv, Accounting, UsedIsWhatIsQueued, OccupancyIsCopiesQueued, AllPairs
<1> QED
  BY <1>1, BufferKept, PTL
===============================================================================
