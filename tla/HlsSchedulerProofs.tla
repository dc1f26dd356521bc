-------------------------- MODULE HlsSchedulerProofs --------------------------
(***************************************************************************)
(* Theorems about HlsScheduler, for any number of ports, any depth of the  *)
(* buffers and any traffic: the shared buffer never leaks an address, and  *)
(* as long as no ring of a pair is full no word is lost, doubled or        *)
(* overtaken and no packet is torn apart.                                  *)
(***************************************************************************)
EXTENDS HlsScheduler, HlsArbiterProofs, FiniteSetTheorems

Usable == 0 .. Depth - 2     \* the addresses that are ever in use
Word == Ports \X Nat \X Nat
Entries == IF storage = "shared" THEN Usable ELSE Word

Holds(q) == {q[i] : i \in 1 .. Len(q)}
Distinct(q) == \A i, j \in 1 .. Len(q) : q[i] = q[j] => i = j

LEMMA Sizes == Depth \in Nat \ {0} /\ Usable \subseteq Addresses /\ 0 \in Ports
  BY MemoryAssumption, PortsAssumption DEF Usable, Addresses, Ports

(* Sequences that grow at their end and shrink at their start. *)
LEMMA Appended ==
  ASSUME NEW S, NEW q \in Seq(S), NEW x \in S
  PROVE  /\ Append(q, x) \in Seq(S)
         /\ Len(Append(q, x)) = Len(q) + 1
         /\ Append(q, x) # <<>>
         /\ \A i \in 1 .. Len(q) : Append(q, x)[i] = q[i]
         /\ Append(q, x)[Len(q) + 1] = x
         /\ Holds(Append(q, x)) = Holds(q) \cup {x}
         /\ Distinct(q) /\ x \notin Holds(q) => Distinct(Append(q, x))
<1> DEFINE r == Append(q, x)
<1>1. /\ r \in Seq(S) /\ Len(r) = Len(q) + 1 /\ Len(q) \in Nat
      /\ \A i \in 1 .. Len(q) : r[i] = q[i]
      /\ r[Len(q) + 1] = x
  OBVIOUS
<1> HIDE DEF r
<1>2. r # <<>>
  <2>1. Len(<<>>) = 0
    OBVIOUS
  <2> QED
    BY <1>1, <2>1
<1>3. 1 .. Len(r) = (1 .. Len(q)) \cup {Len(q) + 1}
  BY <1>1
<1>4. Holds(r) = Holds(q) \cup {x}
  BY <1>1, <1>3 DEF Holds
<1>5. Distinct(q) /\ x \notin Holds(q) => Distinct(r)
  BY <1>1, <1>3 DEF Distinct, Holds
<1> QED
  BY <1>1, <1>2, <1>4, <1>5 DEF r

LEMMA Taken ==
  ASSUME NEW S, NEW q \in Seq(S), q # <<>>
  PROVE  /\ Tail(q) \in Seq(S)
         /\ Len(q) \in Nat \ {0}
         /\ Len(Tail(q)) = Len(q) - 1
         /\ Head(q) = q[1] /\ Head(q) \in S /\ Head(q) \in Holds(q)
         /\ \A i \in 1 .. Len(q) - 1 : Tail(q)[i] = q[i + 1]
         /\ Distinct(q) => /\ Distinct(Tail(q))
                           /\ Holds(Tail(q)) = Holds(q) \ {Head(q)}
<1> DEFINE r == Tail(q)
<1>1. /\ r \in Seq(S) /\ Len(r) = Len(q) - 1 /\ Len(q) \in Nat \ {0}
      /\ Head(q) = q[1] /\ q[1] \in S
      /\ \A i \in 1 .. Len(q) - 1 : r[i] = q[i + 1]
  OBVIOUS
<1> HIDE DEF r
<1>2. q[1] \in Holds(q)
  BY <1>1 DEF Holds
<1>3. ASSUME Distinct(q)
      PROVE  Distinct(r) /\ Holds(r) = Holds(q) \ {q[1]}
  <2>1. Distinct(r)
    BY <1>1, <1>3 DEF Distinct
  <2>2. ASSUME NEW x \in Holds(r)
        PROVE  x \in Holds(q) \ {q[1]}
    <3>1. PICK i \in 1 .. Len(q) - 1 : x = q[i + 1]
      BY <1>1, <2>2 DEF Holds
    <3>2. i + 1 \in 1 .. Len(q) /\ 1 \in 1 .. Len(q) /\ i + 1 # 1
      BY <1>1
    <3> QED
      BY <1>3, <3>1, <3>2 DEF Distinct, Holds
  <2>3. ASSUME NEW x \in Holds(q), x # q[1]
        PROVE  x \in Holds(r)
    <3>1. PICK i \in 1 .. Len(q) : x = q[i]
      BY <2>3 DEF Holds
    <3>2. i # 1
      BY <2>3, <3>1
    <3>3. i - 1 \in 1 .. Len(q) - 1 /\ (i - 1) + 1 = i
      BY <1>1, <3>2
    <3>4. r[i - 1] = q[(i - 1) + 1]
      BY <1>1, <3>3
    <3> QED
      BY <1>1, <3>1, <3>3, <3>4 DEF Holds
  <2> QED
    BY <2>1, <2>2, <2>3
<1> QED
  BY <1>1, <1>2, <1>3 DEF r

LEMMA AsFunction ==
  ASSUME NEW S, NEW q \in Seq(S), NEW n, n = Len(q)
  PROVE  q = [i \in 1 .. n |-> q[i]]
  OBVIOUS

LEMMA TailOfAppend ==
  ASSUME NEW S, NEW q \in Seq(S), q # <<>>, NEW x \in S
  PROVE  Tail(Append(q, x)) = Append(Tail(q), x) /\ Head(Append(q, x)) = Head(q)
  OBVIOUS

(* A ring that holds no address twice never has Depth entries. *)
LEMMA DistinctIsShort ==
  ASSUME NEW q \in Seq(Usable), Distinct(q)
  PROVE  Len(q) < Depth
<1>1. Len(q) \in Nat /\ q \in [1 .. Len(q) -> Usable]
  OBVIOUS
<1>2. q \in Injection(1 .. Len(q), Usable)
  BY <1>1 DEF Injection, IsInjective, Distinct
<1>3. IsFiniteSet(Usable) /\ Cardinality(Usable) = Depth - 1
  BY Sizes, FS_Interval DEF Usable
<1>4. Cardinality(1 .. Len(q)) = Len(q)
  BY <1>1, FS_Interval
<1>5. Cardinality(1 .. Len(q)) <= Cardinality(Usable)
  BY <1>2, <1>3, FS_Injection
<1> QED
  BY <1>1, <1>3, <1>4, <1>5, Sizes

-------------------------------------------------------------------------------
(* A memory, and how its free list and its bitmaps divide the buffer. *)
Memory ==
  [free   : Seq(Usable),
   data   : [Addresses -> Word \cup {None}],
   bitmap : [Addresses -> SUBSET Ports],
   voq    : [Ports -> Seq(Entries)]]

Partition(m) ==
  /\ Distinct(m.free)
  /\ \A dp \in Ports : Distinct(m.voq[dp])
  /\ \A a \in Usable : a \in Holds(m.free) <=> m.bitmap[a] = {}
  /\ \A a \in Usable, dp \in Ports : a \in Holds(m.voq[dp]) <=> dp \in m.bitmap[a]

(* The words that a memory holds for a port. *)
View(m, dp) ==
  [i \in 1 .. Len(m.voq[dp]) |->
     IF storage = "shared" THEN m.data[m.voq[dp][i]] ELSE m.voq[dp][i]]

Grows(q, yes, x) == IF yes THEN Append(q, x) ELSE q
Shrinks(q, yes) == IF yes THEN Tail(q) ELSE q

LEMMA EnqueuedIsMemory ==
  ASSUME NEW sp \in Ports, mem[sp] \in Memory, NextWord(sp) \in Word, Mask(sp) \subseteq Ports,
         ~Full(sp), storage \in {"shared", "perPair"}
  PROVE  /\ Enqueued(sp) \in Memory
         /\ Len(Enqueued(sp).free) <= Len(mem[sp].free)
         /\ storage = "shared" => /\ mem[sp].free # <<>>
                                  /\ Len(Enqueued(sp).free) = Len(mem[sp].free) - 1
         /\ storage # "shared" => Enqueued(sp).free = mem[sp].free
         /\ \A dp \in Ports : Enqueued(sp).voq[dp] =
              Grows(mem[sp].voq[dp], dp \in Mask(sp),
                    IF storage = "shared" THEN Head(mem[sp].free) ELSE NextWord(sp))
<1> DEFINE m == mem[sp]
           entry == IF storage = "shared" THEN Head(m.free) ELSE NextWord(sp)
           queues == [dp \in Ports |-> IF dp \in Mask(sp) THEN Append(m.voq[dp], entry)
                                       ELSE m.voq[dp]]
<1>1. /\ m.free \in Seq(Usable) /\ m.data \in [Addresses -> Word \cup {None}]
      /\ m.bitmap \in [Addresses -> SUBSET Ports] /\ m.voq \in [Ports -> Seq(Entries)]
      /\ m = [free |-> m.free, data |-> m.data, bitmap |-> m.bitmap, voq |-> m.voq]
  BY DEF Memory
<1>2. storage = "shared" =>
        /\ m.free # <<>> /\ Head(m.free) \in Usable /\ Tail(m.free) \in Seq(Usable)
        /\ Len(Tail(m.free)) = Len(m.free) - 1 /\ Len(m.free) \in Nat
  BY <1>1, Taken DEF Full
<1>3. entry \in Entries
  BY <1>2 DEF Entries
<1> HIDE DEF entry
<1>4. queues \in [Ports -> Seq(Entries)]
  BY <1>1, <1>3, Appended
<1>5. \A dp \in Ports : queues[dp] = Grows(m.voq[dp], dp \in Mask(sp), entry)
  BY DEF Grows
<1> HIDE DEF queues
<1>6. CASE storage = "shared"
  <2>1. Enqueued(sp) = [free   |-> Tail(m.free),
                        data   |-> [m.data EXCEPT ![entry] = NextWord(sp)],
                        bitmap |-> [m.bitmap EXCEPT ![entry] = Mask(sp)],
                        voq    |-> queues]
    BY <1>6 DEF Enqueued, queues, entry
  <2>2. [m.data EXCEPT ![entry] = NextWord(sp)] \in [Addresses -> Word \cup {None}]
    BY <1>1
  <2>3. [m.bitmap EXCEPT ![entry] = Mask(sp)] \in [Addresses -> SUBSET Ports]
    BY <1>1
  <2>4. Enqueued(sp) \in Memory
    BY <1>2, <1>4, <1>6, <2>1, <2>2, <2>3 DEF Memory
  <2> QED
    BY <1>2, <1>5, <1>6, <2>1, <2>4 DEF entry
<1>7. CASE storage # "shared"
  <2>1. Enqueued(sp) = [m EXCEPT !.voq = queues]
    BY <1>7 DEF Enqueued, queues, entry
  <2>2. Enqueued(sp) \in Memory
    BY <1>1, <1>4, <2>1 DEF Memory
  <2>3. Len(m.free) \in Nat
    BY <1>1
  <2> QED
    BY <1>1, <1>5, <1>7, <2>1, <2>2, <2>3 DEF entry
<1> QED
  BY <1>6, <1>7

LEMMA EnqueuedShared ==
  ASSUME NEW sp \in Ports, mem[sp] \in Memory, NextWord(sp) \in Word,
         Mask(sp) \subseteq Ports, Mask(sp) # {}, ~Full(sp),
         storage = "shared", Partition(mem[sp])
  PROVE  /\ Partition(Enqueued(sp))
         /\ \A dp \in Ports : View(Enqueued(sp), dp) =
              Grows(View(mem[sp], dp), dp \in Mask(sp), NextWord(sp))
<1> DEFINE m == mem[sp]
           f == Enqueued(sp)
           a == Head(m.free)
<1>1. /\ m.free \in Seq(Usable) /\ m.data \in [Addresses -> Word \cup {None}]
      /\ m.bitmap \in [Addresses -> SUBSET Ports] /\ m.voq \in [Ports -> Seq(Usable)]
      /\ m.free # <<>>
  BY DEF Memory, Entries, Full
<1>2. /\ a \in Usable /\ a \in Holds(m.free)
      /\ Distinct(Tail(m.free)) /\ Holds(Tail(m.free)) = Holds(m.free) \ {a}
  BY <1>1, Taken DEF Partition
<1>3. m.bitmap[a] = {} /\ \A dp \in Ports : a \notin Holds(m.voq[dp])
  BY <1>2 DEF Partition
<1>4. /\ f.free = Tail(m.free)
      /\ f.data = [m.data EXCEPT ![a] = NextWord(sp)]
      /\ f.bitmap = [m.bitmap EXCEPT ![a] = Mask(sp)]
  BY DEF Enqueued
<1>5. \A dp \in Ports : f.voq[dp] = Grows(m.voq[dp], dp \in Mask(sp), a)
  BY EnqueuedIsMemory
<1> HIDE DEF f, a
<1>6. a \in Addresses
  BY <1>2, Sizes
<1>7. \A dp \in Ports : /\ Distinct(f.voq[dp])
                        /\ Holds(f.voq[dp]) = Holds(m.voq[dp]) \cup
                                                 (IF dp \in Mask(sp) THEN {a} ELSE {})
  <2> SUFFICES ASSUME NEW dp \in Ports
               PROVE  /\ Distinct(f.voq[dp])
                      /\ Holds(f.voq[dp]) = Holds(m.voq[dp]) \cup
                                               (IF dp \in Mask(sp) THEN {a} ELSE {})
    OBVIOUS
  <2>1. m.voq[dp] \in Seq(Usable) /\ Distinct(m.voq[dp]) /\ a \notin Holds(m.voq[dp])
    BY <1>1, <1>3 DEF Partition
  <2> QED
    BY <1>2, <1>5, <2>1, Appended DEF Grows
<1>8. Partition(f)
  <2>1. \A b \in Usable : f.bitmap[b] = IF b = a THEN Mask(sp) ELSE m.bitmap[b]
    BY <1>1, <1>4, Sizes
  <2>2. \A b \in Usable : b \in Holds(f.free) <=> f.bitmap[b] = {}
    BY <1>2, <1>4, <2>1 DEF Partition
  <2>3. \A b \in Usable, dp \in Ports : b \in Holds(f.voq[dp]) <=> dp \in f.bitmap[b]
    BY <1>3, <1>7, <2>1 DEF Partition
  <2> QED
    BY <1>2, <1>4, <1>7, <2>2, <2>3 DEF Partition
<1>9. ASSUME NEW dp \in Ports
      PROVE  View(f, dp) = Grows(View(m, dp), dp \in Mask(sp), NextWord(sp))
  <2> DEFINE q == m.voq[dp]
             v == View(m, dp)
  <2>1. q \in Seq(Usable) /\ Len(q) \in Nat /\ a \notin Holds(q)
    BY <1>1, <1>3
  <2>2. /\ v \in Seq(Word \cup {None}) /\ Len(v) = Len(q)
        /\ \A i \in 1 .. Len(q) : v[i] = m.data[q[i]]
    <3>1. \A i \in 1 .. Len(q) : q[i] \in Usable
      BY <2>1
    <3>2. \A i \in 1 .. Len(q) : m.data[q[i]] \in Word \cup {None}
      BY <1>1, <3>1, Sizes
    <3>3. v = [i \in 1 .. Len(q) |-> m.data[q[i]]]
      BY DEF View
    <3> HIDE DEF v, q
    <3> QED
      BY <2>1, <3>2, <3>3
  <2>3. \A i \in 1 .. Len(q) : f.data[q[i]] = m.data[q[i]]
    <3>1. \A i \in 1 .. Len(q) : q[i] # a
      BY <2>1 DEF Holds
    <3> QED
      BY <1>1, <1>4, <3>1
  <2>4. f.data[a] = NextWord(sp)
    BY <1>1, <1>4, <1>6
  <2>5. View(f, dp) = [i \in 1 .. Len(f.voq[dp]) |-> f.data[f.voq[dp][i]]]
    BY DEF View
  <2> HIDE DEF v, q
  <2>6. CASE dp \in Mask(sp)
    <3>1. f.voq[dp] = Append(q, a)
      BY <1>5, <2>6 DEF Grows, q
    <3>2. /\ Len(Append(q, a)) = Len(q) + 1
          /\ \A i \in 1 .. Len(q) : Append(q, a)[i] = q[i]
          /\ Append(q, a)[Len(q) + 1] = a
      BY <1>2, <2>1, Appended
    <3>3. /\ Append(v, NextWord(sp)) \in Seq(Word \cup {None})
          /\ Len(Append(v, NextWord(sp))) = Len(v) + 1
          /\ \A i \in 1 .. Len(v) : Append(v, NextWord(sp))[i] = v[i]
          /\ Append(v, NextWord(sp))[Len(v) + 1] = NextWord(sp)
      BY <2>2, Appended
    <3>4. \A i \in 1 .. Len(q) + 1 : i \in 1 .. Len(q) \/ i = Len(q) + 1
      BY <2>1
    <3>5. \A i \in 1 .. Len(q) + 1 : f.data[Append(q, a)[i]] = Append(v, NextWord(sp))[i]
      BY <2>2, <2>3, <2>4, <3>2, <3>3, <3>4
    <3>6. Append(v, NextWord(sp)) =
            [i \in 1 .. Len(q) + 1 |-> Append(v, NextWord(sp))[i]]
      BY <2>2, <3>3, AsFunction
    <3>7. View(f, dp) = Append(v, NextWord(sp))
      BY <2>5, <3>1, <3>2, <3>5, <3>6
    <3> QED
      BY <2>6, <3>7 DEF Grows, v
  <2>7. CASE dp \notin Mask(sp)
    <3>1. f.voq[dp] = q
      BY <1>5, <2>7 DEF Grows, q
    <3>2. v = [i \in 1 .. Len(q) |-> v[i]]
      BY <2>2
    <3>3. View(f, dp) = v
      BY <2>2, <2>3, <2>5, <3>1, <3>2
    <3> QED
      BY <2>7, <3>3 DEF Grows, v
  <2> QED
    BY <2>6, <2>7
<1> QED
  BY <1>8, <1>9 DEF f

LEMMA DequeuedIsMemory ==
  ASSUME NEW m \in Memory, NEW dp \in Ports, m.voq[dp] # <<>>,
         storage \in {"shared", "perPair"}
  PROVE  /\ Dequeued(m, dp) \in Memory
         /\ Len(Dequeued(m, dp).free) <= Len(m.free) + 1
         /\ storage # "shared" => Dequeued(m, dp).free = m.free
         /\ \A e \in Ports : Dequeued(m, dp).voq[e] = Shrinks(m.voq[e], e = dp)
<1> DEFINE g == Dequeued(m, dp)
           entry == Head(m.voq[dp])
           left == Toggle(m.bitmap[entry], dp)
           queues == [m.voq EXCEPT ![dp] = Tail(@)]
<1>1. /\ m.free \in Seq(Usable) /\ m.data \in [Addresses -> Word \cup {None}]
      /\ m.bitmap \in [Addresses -> SUBSET Ports] /\ m.voq \in [Ports -> Seq(Entries)]
      /\ m = [free |-> m.free, data |-> m.data, bitmap |-> m.bitmap, voq |-> m.voq]
      /\ Len(m.free) \in Nat
  BY DEF Memory
<1>2. Tail(m.voq[dp]) \in Seq(Entries) /\ entry \in Entries
  BY <1>1, Taken
<1>3. queues \in [Ports -> Seq(Entries)]
  BY <1>1, <1>2
<1>4. \A e \in Ports : queues[e] = Shrinks(m.voq[e], e = dp)
  BY <1>1 DEF Shrinks
<1> HIDE DEF queues
<1>5. CASE storage = "shared"
  <2>1. entry \in Usable /\ entry \in Addresses
    BY <1>2, <1>5, Sizes DEF Entries
  <2> DEFINE free == IF left = {} THEN Append(m.free, entry) ELSE m.free
             bits == [m.bitmap EXCEPT ![entry] = left]
  <2>2. free \in Seq(Usable) /\ Len(free) <= Len(m.free) + 1
    BY <1>1, <2>1, Appended
  <2>3. bits \in [Addresses -> SUBSET Ports]
    BY <1>1, <2>1 DEF Toggle
  <2>4. g = [m EXCEPT !.voq = queues, !.bitmap = bits, !.free = free]
    BY <1>1, <1>5 DEF Dequeued, queues
  <2> HIDE DEF free, bits, g
  <2>5. g = [free |-> free, data |-> m.data, bitmap |-> bits, voq |-> queues]
    BY <1>1, <2>4
  <2>6. g \in Memory
    BY <1>1, <1>3, <2>2, <2>3, <2>5 DEF Memory
  <2> QED
    BY <1>4, <1>5, <2>2, <2>5, <2>6 DEF g
<1>6. CASE storage = "perPair"
  <2>1. g = [m EXCEPT !.voq = queues]
    BY <1>1, <1>6 DEF Dequeued, queues
  <2> HIDE DEF g
  <2>2. g = [free |-> m.free, data |-> m.data, bitmap |-> m.bitmap, voq |-> queues]
    BY <1>1, <2>1
  <2>3. g \in Memory
    BY <1>1, <1>3, <2>2 DEF Memory
  <2> QED
    BY <1>1, <1>4, <1>6, <2>2, <2>3 DEF g
<1> QED
  BY <1>5, <1>6

LEMMA DequeuedShared ==
  ASSUME NEW m \in Memory, NEW dp \in Ports, m.voq[dp] # <<>>,
         storage = "shared", Partition(m)
  PROVE  /\ Partition(Dequeued(m, dp))
         /\ Dequeued(m, dp).data = m.data
<1> DEFINE g == Dequeued(m, dp)
           a == Head(m.voq[dp])
           left == Toggle(m.bitmap[a], dp)
<1>1. /\ m.free \in Seq(Usable) /\ m.data \in [Addresses -> Word \cup {None}]
      /\ m.bitmap \in [Addresses -> SUBSET Ports] /\ m.voq \in [Ports -> Seq(Usable)]
      /\ m = [free |-> m.free, data |-> m.data, bitmap |-> m.bitmap, voq |-> m.voq]
  BY DEF Memory, Entries
<1>2. /\ a \in Usable /\ a \in Holds(m.voq[dp])
      /\ Distinct(Tail(m.voq[dp])) /\ Holds(Tail(m.voq[dp])) = Holds(m.voq[dp]) \ {a}
  BY <1>1, Taken DEF Partition
<1>3. dp \in m.bitmap[a] /\ a \notin Holds(m.free)
  BY <1>2 DEF Partition
<1>4. left = m.bitmap[a] \ {dp}
  BY <1>3 DEF Toggle
<1>5. /\ g.data = m.data
      /\ g.bitmap = [m.bitmap EXCEPT ![a] = left]
      /\ g.free = IF left = {} THEN Append(m.free, a) ELSE m.free
  BY <1>1 DEF Dequeued
<1>6. \A e \in Ports : g.voq[e] = Shrinks(m.voq[e], e = dp)
  BY DequeuedIsMemory
<1> HIDE DEF g, a, left
<1>7. a \in Addresses
  BY <1>2, Sizes
<1>8. \A b \in Usable : g.bitmap[b] = IF b = a THEN m.bitmap[a] \ {dp} ELSE m.bitmap[b]
  BY <1>1, <1>4, <1>5, <1>7, Sizes
<1>9. Distinct(g.free) /\ Holds(g.free) = Holds(m.free) \cup (IF left = {} THEN {a} ELSE {})
  BY <1>1, <1>2, <1>3, <1>5, Appended DEF Partition
<1>10. \A b \in Usable : b \in Holds(g.free) <=> g.bitmap[b] = {}
  BY <1>3, <1>4, <1>8, <1>9 DEF Partition
<1>11. \A e \in Ports : /\ Distinct(g.voq[e])
                        /\ Holds(g.voq[e]) = Holds(m.voq[e]) \ (IF e = dp THEN {a} ELSE {})
  BY <1>2, <1>6 DEF Shrinks, Partition
<1>12. \A b \in Usable, e \in Ports : b \in Holds(g.voq[e]) <=> e \in g.bitmap[b]
  BY <1>8, <1>11 DEF Partition
<1> QED
  BY <1>5, <1>9, <1>10, <1>11, <1>12 DEF Partition, g

(* What a memory holds for a port after its first word for it was taken. *)
LEMMA DequeuedView ==
  ASSUME NEW m \in Memory, NEW dp \in Ports, m.voq[dp] # <<>>, NEW e \in Ports,
         storage \in {"shared", "perPair"}, storage = "shared" => Partition(m)
  PROVE  View(Dequeued(m, dp), e) = Shrinks(View(m, e), e = dp)
<1> DEFINE g == Dequeued(m, dp)
           q == m.voq[e]
           Stored(x) == IF storage = "shared" THEN m.data[x] ELSE x
           v == [i \in 1 .. Len(q) |-> Stored(q[i])]
<1>1. q \in Seq(Entries) /\ Len(q) \in Nat
  BY DEF Memory
<1>2. g.voq[e] = Shrinks(q, e = dp)
  BY DequeuedIsMemory
<1>3. storage = "shared" => g.data = m.data
  BY DequeuedShared
<1>4. View(g, e) = [i \in 1 .. Len(g.voq[e]) |-> Stored(g.voq[e][i])]
  BY <1>3 DEF View
<1>5. View(m, e) = v
  BY DEF View
<1> HIDE DEF g, q, Stored
<1>6. CASE e # dp
  BY <1>2, <1>4, <1>5, <1>6 DEF Shrinks, g
<1>7. CASE e = dp
  <2>1. q # <<>>
    BY <1>7 DEF q
  <2>2. /\ Len(Tail(q)) = Len(q) - 1 /\ Len(q) \in Nat \ {0}
        /\ \A i \in 1 .. Len(q) - 1 : Tail(q)[i] = q[i + 1]
    BY <1>1, <2>1, Taken
  <2>3. v \in Seq({Stored(q[i]) : i \in 1 .. Len(q)}) /\ Len(v) = Len(q) /\ v # <<>>
    <3>1. v \in Seq({Stored(q[i]) : i \in 1 .. Len(q)}) /\ Len(v) = Len(q)
      BY <1>1
    <3>2. Len(<<>>) = 0
      OBVIOUS
    <3> QED
      BY <2>2, <3>1, <3>2
  <2> HIDE DEF v
  <2>4. /\ Tail(v) \in Seq({Stored(q[i]) : i \in 1 .. Len(q)})
        /\ Len(Tail(v)) = Len(q) - 1
        /\ \A i \in 1 .. Len(q) - 1 : Tail(v)[i] = v[i + 1]
    BY <2>3, Taken
  <2>5. \A i \in 1 .. Len(q) - 1 : i + 1 \in 1 .. Len(q)
    BY <2>2
  <2>6. \A i \in 1 .. Len(q) - 1 : Tail(v)[i] = Stored(Tail(q)[i])
    BY <2>2, <2>4, <2>5 DEF v
  <2>7. Tail(v) = [i \in 1 .. Len(q) - 1 |-> Tail(v)[i]]
    BY <2>4, AsFunction
  <2>8. g.voq[e] = Tail(q)
    BY <1>2, <1>7 DEF Shrinks
  <2>9. View(g, e) = Tail(v)
    BY <1>4, <2>2, <2>6, <2>7, <2>8
  <2> QED
    BY <1>5, <1>7, <2>9 DEF Shrinks, g
<1> QED
  BY <1>6, <1>7

(* A memory that is divided, or no ring of which is full, does not wrap. *)
LEMMA NotWrapped ==
  ASSUME NEW m \in Memory, Len(m.free) < Depth, \A dp \in Ports : Len(m.voq[dp]) < Depth
  PROVE  Wrapped(m) = m
<1>1. Len(m.free) # Depth /\ \A dp \in Ports : Len(m.voq[dp]) # Depth
  BY Sizes DEF Memory
<1>2. Ring(m.free) = m.free /\ \A dp \in Ports : Ring(m.voq[dp]) = m.voq[dp]
  BY <1>1 DEF Ring
<1>3. [dp \in Ports |-> Ring(m.voq[dp])] = m.voq
  BY <1>2 DEF Memory
<1> QED
  BY <1>2, <1>3 DEF Wrapped, Memory

(* And in any case it has no ring of Depth entries. *)
LEMMA WrappedIsMemory ==
  ASSUME NEW m \in Memory, Len(m.free) <= Depth, \A dp \in Ports : Len(m.voq[dp]) <= Depth
  PROVE  /\ Wrapped(m) \in Memory
         /\ Len(Wrapped(m).free) < Depth
         /\ \A dp \in Ports : Len(Wrapped(m).voq[dp]) < Depth
<1>1. /\ m.free \in Seq(Usable) /\ m.voq \in [Ports -> Seq(Entries)]
  BY DEF Memory
<1>2. ASSUME NEW S, NEW q \in Seq(S), Len(q) <= Depth
      PROVE  Ring(q) \in Seq(S) /\ Len(Ring(q)) < Depth
  <2>1. Len(q) \in Nat /\ <<>> \in Seq(S) /\ Len(<<>>) = 0
    OBVIOUS
  <2> QED
    BY <1>2, <2>1, Sizes DEF Ring
<1> DEFINE queues == [dp \in Ports |-> Ring(m.voq[dp])]
           free == Ring(m.free)
<1>3. free \in Seq(Usable) /\ Len(free) < Depth
  BY <1>1, <1>2
<1>4. queues \in [Ports -> Seq(Entries)] /\ \A dp \in Ports : Len(queues[dp]) < Depth
  BY <1>1, <1>2
<1>5. Wrapped(m) = [m EXCEPT !.free = free, !.voq = queues]
  BY DEF Wrapped
<1> HIDE DEF queues, free
<1> QED
  BY <1>3, <1>4, <1>5 DEF Memory

-------------------------------------------------------------------------------
(* The words of a source. *)
Own(sp) == {sp} \X Nat \X Nat

(* The memory of a source between two calls. *)
Sound(m, sp) ==
  /\ m \in Memory
  /\ Len(m.free) < Depth
  /\ \A dp \in Ports : Len(m.voq[dp]) < Depth
  /\ storage = "shared" => Partition(m)
  /\ \A dp \in Ports : View(m, dp) \in Seq(Own(sp))

(* What is enqueued joins the queues of its ports, whatever the memory. *)
LEMMA EnqueuedView ==
  ASSUME NEW sp \in Ports, Sound(mem[sp], sp), NextWord(sp) \in Own(sp),
         Mask(sp) \subseteq Ports, Mask(sp) # {}, ~Full(sp),
         storage \in {"shared", "perPair"}
  PROVE  /\ Enqueued(sp) \in Memory
         /\ Len(Enqueued(sp).free) < Depth
         /\ storage = "shared" => Partition(Enqueued(sp))
         /\ storage # "shared" => Enqueued(sp).free = mem[sp].free
         /\ \A dp \in Ports :
              /\ Len(Enqueued(sp).voq[dp]) <= Len(mem[sp].voq[dp]) + 1
              /\ dp \notin Mask(sp) => Enqueued(sp).voq[dp] = mem[sp].voq[dp]
              /\ mem[sp].voq[dp] # <<>> => Enqueued(sp).voq[dp] # <<>>
              /\ View(Enqueued(sp), dp) =
                   Grows(View(mem[sp], dp), dp \in Mask(sp), NextWord(sp))
<1> DEFINE m == mem[sp]
           f == Enqueued(sp)
           entry == IF storage = "shared" THEN Head(m.free) ELSE NextWord(sp)
<1>1. m \in Memory /\ NextWord(sp) \in Word
  BY DEF Sound, Own, Word
<1>2. /\ m.free \in Seq(Usable) /\ m.voq \in [Ports -> Seq(Entries)]
      /\ Len(m.free) \in Nat /\ Len(m.free) < Depth
  BY <1>1 DEF Memory, Sound
<1>3. /\ f \in Memory /\ Len(f.free) <= Len(m.free)
      /\ storage # "shared" => f.free = m.free
      /\ \A dp \in Ports : f.voq[dp] = Grows(m.voq[dp], dp \in Mask(sp), entry)
  BY <1>1, EnqueuedIsMemory
<1>4. entry \in Entries
  BY <1>1, <1>2, Taken DEF Entries, Full
<1>5. Len(f.free) \in Nat
  BY <1>3 DEF Memory
<1> HIDE DEF entry, f
<1>6. ASSUME NEW dp \in Ports
      PROVE  /\ Len(f.voq[dp]) <= Len(m.voq[dp]) + 1
             /\ dp \notin Mask(sp) => f.voq[dp] = m.voq[dp]
             /\ m.voq[dp] # <<>> => f.voq[dp] # <<>>
  <2>1. m.voq[dp] \in Seq(Entries) /\ Len(m.voq[dp]) \in Nat
    BY <1>2
  <2>2. CASE dp \in Mask(sp)
    <3>1. f.voq[dp] = Append(m.voq[dp], entry)
      BY <1>3, <2>2 DEF Grows
    <3>2. /\ Append(m.voq[dp], entry) # <<>>
          /\ Len(Append(m.voq[dp], entry)) = Len(m.voq[dp]) + 1
      BY <1>4, <2>1, Appended
    <3> QED
      BY <2>1, <2>2, <3>1, <3>2
  <2>3. CASE dp \notin Mask(sp)
    <3>1. f.voq[dp] = m.voq[dp]
      BY <1>3, <2>3 DEF Grows
    <3> QED
      BY <2>1, <3>1
  <2> QED
    BY <2>2, <2>3
<1>7. ASSUME storage = "shared"
      PROVE  /\ Partition(f)
             /\ \A dp \in Ports : View(f, dp) = Grows(View(m, dp), dp \in Mask(sp), NextWord(sp))
  BY <1>1, <1>7, EnqueuedShared DEF Sound, f
<1>8. ASSUME storage # "shared", NEW dp \in Ports
      PROVE  View(f, dp) = Grows(View(m, dp), dp \in Mask(sp), NextWord(sp))
  <2>1. m.voq[dp] \in Seq(Word) /\ entry = NextWord(sp) /\ f.voq \in [Ports -> Seq(Word)]
    BY <1>2, <1>3, <1>8 DEF Entries, entry, Memory
  <2>2. View(m, dp) = m.voq[dp] /\ View(f, dp) = f.voq[dp]
    <3>1. f.voq[dp] \in Seq(Word)
      BY <2>1
    <3> QED
      BY <1>8, <2>1, <3>1, AsFunction DEF View
  <2> QED
    BY <1>3, <2>1, <2>2
<1> QED
  BY <1>2, <1>3, <1>5, <1>6, <1>7, <1>8, Sizes DEF f

(* The memory of a source after the digest of a call, and then after the   *)
(* transmission to the ports `to', one at most.                            *)
Filled(sp, yes) == IF yes THEN Enqueued(sp) ELSE mem[sp]
Emptied(m, to) == IF to = {} THEN m ELSE Dequeued(m, CHOOSE dp \in to : TRUE)

(* No ring that the next word of a source joins has its last free entry.   *)
(* The shared buffer needs no such condition: its free list keeps its      *)
(* rings short.                                                            *)
Room(sp) ==
  storage = "perPair" => \A dp \in Mask(sp) : Len(mem[sp].voq[dp]) < Depth - 1

(* What a call does to the memory of one source: a word may join the       *)
(* queues, and the word at the head of one of them may leave.              *)
LEMMA SourceStep ==
  ASSUME NEW sp \in Ports, Sound(mem[sp], sp), storage \in {"shared", "perPair"},
         NEW yes \in BOOLEAN,
         yes => /\ NextWord(sp) \in Own(sp) /\ ~Full(sp)
                /\ Mask(sp) \subseteq Ports /\ Mask(sp) # {},
         NEW to \in SUBSET Ports, \A d, e \in to : d = e,
         \A dp \in to : mem[sp].voq[dp] # <<>>
  PROVE  LET g == Emptied(Filled(sp, yes), to) IN
         /\ Sound(Wrapped(g), sp)
         /\ (yes => Room(sp)) =>
              \A dp \in Ports : View(Wrapped(g), dp) =
                Shrinks(Grows(View(mem[sp], dp), yes /\ dp \in Mask(sp), NextWord(sp)),
                        dp \in to)
<1> DEFINE f == Filled(sp, yes)
           g == Emptied(f, to)
           m == mem[sp]
           v(dp) == View(m, dp)
           w(dp) == Shrinks(Grows(v(dp), yes /\ dp \in Mask(sp), NextWord(sp)), dp \in to)
<1>1. /\ m \in Memory /\ Len(m.free) < Depth /\ Len(m.free) \in Nat
      /\ \A dp \in Ports : Len(m.voq[dp]) < Depth /\ Len(m.voq[dp]) \in Nat
      /\ storage = "shared" => Partition(m)
      /\ \A dp \in Ports : v(dp) \in Seq(Own(sp))
  BY DEF Sound, Memory
<1>2. /\ f \in Memory /\ Len(f.free) < Depth
      /\ storage = "shared" => Partition(f)
      /\ \A dp \in Ports :
           /\ Len(f.voq[dp]) <= Len(m.voq[dp]) + 1
           /\ ~(yes /\ dp \in Mask(sp)) => f.voq[dp] = m.voq[dp]
           /\ m.voq[dp] # <<>> => f.voq[dp] # <<>>
           /\ View(f, dp) = Grows(v(dp), yes /\ dp \in Mask(sp), NextWord(sp))
  <2>1. CASE yes
    BY <2>1, EnqueuedView DEF Filled, Sound
  <2>2. CASE ~yes
    BY <1>1, <2>2 DEF Grows, Filled
  <2> QED
    BY <2>1, <2>2
<1> HIDE DEF f
<1>3. \A dp \in Ports : Len(f.voq[dp]) \in Nat
  BY <1>2 DEF Memory
<1>0. IF to = {} THEN g = f
      ELSE \E dp \in Ports : to = {dp} /\ m.voq[dp] # <<>> /\ g = Dequeued(f, dp)
  BY DEF Emptied
<1> HIDE DEF g, w, v, m
<1>4. /\ g \in Memory /\ Len(g.free) <= Depth
      /\ storage # "shared" => Len(g.free) < Depth
      /\ storage = "shared" => Partition(g)
      /\ \A dp \in Ports : View(g, dp) = w(dp)
      /\ \A dp \in Ports : Len(g.voq[dp]) <= Len(f.voq[dp])
  <2>1. CASE to = {}
    <3>0. g = f
      BY <1>0, <2>1
    <3>1. \A dp \in Ports : w(dp) = View(f, dp)
      BY <1>2, <2>1 DEF Shrinks, w
    <3>2. Len(f.free) \in Nat
      BY <1>2 DEF Memory
    <3>3. \A dp \in Ports : Len(g.voq[dp]) <= Len(f.voq[dp])
      BY <1>3, <3>0
    <3> QED
      BY <1>2, <3>0, <3>1, <3>2, <3>3, Sizes
  <2>2. CASE to # {}
    <3>0. PICK to1 \in Ports : to = {to1} /\ m.voq[to1] # <<>> /\ g = Dequeued(f, to1)
      BY <1>0, <2>2
    <3>1. f.voq[to1] # <<>>
      BY <1>2, <3>0
    <3>2. /\ g \in Memory /\ Len(g.free) <= Len(f.free) + 1
          /\ storage # "shared" => g.free = f.free
          /\ \A e \in Ports : g.voq[e] = Shrinks(f.voq[e], e = to1)
      BY <1>2, <3>0, <3>1, DequeuedIsMemory
    <3>3. storage = "shared" => Partition(g)
      BY <1>2, <3>0, <3>1, DequeuedShared
    <3>4. ASSUME NEW dp \in Ports
          PROVE  View(g, dp) = w(dp)
      <4>1. View(g, dp) = Shrinks(View(f, dp), dp = to1)
        BY <1>2, <3>0, <3>1, DequeuedView
      <4>2. (dp \in to) = (dp = to1)
        BY <3>0
      <4> QED
        BY <1>2, <4>1, <4>2 DEF w
    <3>5. ASSUME NEW dp \in Ports
          PROVE  Len(g.voq[dp]) <= Len(f.voq[dp])
      <4>1. f.voq[dp] \in Seq(Entries) /\ Len(f.voq[dp]) \in Nat
        BY <1>2, <1>3 DEF Memory
      <4>2. CASE dp = to1
        <5>1. Len(Tail(f.voq[dp])) = Len(f.voq[dp]) - 1
          BY <3>1, <4>1, <4>2, Taken
        <5>2. g.voq[dp] = Tail(f.voq[dp])
          BY <3>2, <4>2 DEF Shrinks
        <5> QED
          BY <4>1, <5>1, <5>2
      <4>3. CASE dp # to1
        <5>1. g.voq[dp] = f.voq[dp]
          BY <3>2, <4>3 DEF Shrinks
        <5> QED
          BY <4>1, <5>1
      <4> QED
        BY <4>2, <4>3
    <3>6. Len(f.free) \in Nat /\ Len(g.free) \in Nat
      BY <1>2, <3>2 DEF Memory
    <3>7. Len(g.free) <= Depth /\ (storage # "shared" => Len(g.free) < Depth)
      BY <1>2, <3>2, <3>6, Sizes
    <3> QED
      BY <3>2, <3>3, <3>4, <3>5, <3>7
  <2> QED
    BY <2>1, <2>2
<1>5. \A dp \in Ports : w(dp) \in Seq(Own(sp))
  <2> SUFFICES ASSUME NEW dp \in Ports PROVE w(dp) \in Seq(Own(sp))
    OBVIOUS
  <2> DEFINE u == Grows(v(dp), yes /\ dp \in Mask(sp), NextWord(sp))
  <2>1. u \in Seq(Own(sp))
    BY <1>1, Appended DEF Grows
  <2>2. dp \in to => u # <<>>
    <3>1. ASSUME dp \in to
          PROVE  m.voq[dp] # <<>>
      BY <3>1 DEF m
    <3>2. ASSUME m.voq[dp] # <<>>
          PROVE  v(dp) # <<>>
      <4>1. m.voq[dp] \in Seq(Entries)
        BY <1>1 DEF Memory
      <4>2. Len(m.voq[dp]) \in Nat \ {0}
        BY <3>2, <4>1, Taken
      <4>3. v(dp) = [i \in 1 .. Len(m.voq[dp]) |-> v(dp)[i]]
        BY DEF v, View
      <4>4. 1 \in DOMAIN v(dp)
        BY <4>2, <4>3
      <4>5. DOMAIN (<<>>) = {}
        OBVIOUS
      <4> QED
        BY <4>4, <4>5
    <3>3. CASE yes /\ dp \in Mask(sp)
      BY <1>1, <3>3, Appended DEF Grows
    <3>4. CASE ~(yes /\ dp \in Mask(sp))
      BY <3>1, <3>2, <3>4 DEF Grows
    <3> QED
      BY <3>3, <3>4
  <2>3. w(dp) = Shrinks(u, dp \in to)
    BY DEF w
  <2> HIDE DEF u
  <2> QED
    BY <2>1, <2>2, <2>3, Taken DEF Shrinks
\* A divided memory has no full ring, and without full rings nothing wraps.
<1> SUFFICES /\ Sound(Wrapped(g), sp)
             /\ (yes => Room(sp)) => \A dp \in Ports : View(Wrapped(g), dp) = w(dp)
  BY DEF g, f, w, v, m
<1>6. CASE \A dp \in Ports : Len(g.voq[dp]) < Depth
  <2>1. storage = "shared" => Len(g.free) < Depth
    BY <1>4, DistinctIsShort DEF Partition, Memory
  <2>2. Wrapped(g) = g /\ Len(g.free) < Depth
    BY <1>4, <1>6, <2>1, NotWrapped
  <2> QED
    BY <1>4, <1>5, <1>6, <2>2 DEF Sound
<1>7. CASE ~ \A dp \in Ports : Len(g.voq[dp]) < Depth
  <2>1. storage # "shared"
    <3> SUFFICES ASSUME storage = "shared"
                 PROVE  \A dp \in Ports : Len(g.voq[dp]) < Depth
      BY <1>7
    <3>1. \A dp \in Ports : g.voq[dp] \in Seq(Usable) /\ Distinct(g.voq[dp])
      BY <1>4 DEF Memory, Entries, Partition
    <3> QED
      BY <3>1, DistinctIsShort
  <2>2. \A dp \in Ports : Len(g.voq[dp]) <= Depth /\ Len(g.voq[dp]) \in Nat
    <3>1. \A dp \in Ports : Len(g.voq[dp]) \in Nat
      BY <1>4 DEF Memory
    <3>2. ASSUME NEW dp \in Ports
          PROVE  Len(g.voq[dp]) <= Depth
      <4>1. /\ Len(m.voq[dp]) < Depth /\ Len(m.voq[dp]) \in Nat
            /\ Len(f.voq[dp]) <= Len(m.voq[dp]) + 1 /\ Len(f.voq[dp]) \in Nat
            /\ Len(g.voq[dp]) <= Len(f.voq[dp]) /\ Len(g.voq[dp]) \in Nat
        BY <1>1, <1>2, <1>3, <1>4, <3>1
      <4> QED
        BY <4>1, Sizes
    <3> QED
      BY <3>1, <3>2
  <2>3. /\ Wrapped(g) \in Memory /\ Len(Wrapped(g).free) < Depth
        /\ \A dp \in Ports : Len(Wrapped(g).voq[dp]) < Depth
    BY <1>4, <2>2, WrappedIsMemory
  <2>4. ASSUME NEW dp \in Ports
        PROVE  View(Wrapped(g), dp) \in Seq(Own(sp))
    <3>1. Wrapped(g).voq[dp] = Ring(g.voq[dp])
      BY <1>4 DEF Wrapped, Memory
    <3>2. CASE Ring(g.voq[dp]) = g.voq[dp]
      <4>1. View(Wrapped(g), dp) = View(g, dp)
        BY <2>1, <3>1, <3>2 DEF View
      <4> QED
        BY <1>4, <1>5, <4>1
    <3>3. CASE Ring(g.voq[dp]) = <<>>
      <4>1. View(Wrapped(g), dp) = <<>>
        BY <2>1, <3>1, <3>3 DEF View
      <4> QED
        BY <4>1
    <3> QED
      BY <3>2, <3>3 DEF Ring
  <2>5. yes /\ ~Room(sp)
    <3>1. PICK dp \in Ports : ~(Len(g.voq[dp]) < Depth)
      BY <1>7
    <3>2. /\ Len(m.voq[dp]) \in Nat /\ Len(m.voq[dp]) < Depth
          /\ Len(f.voq[dp]) <= Len(m.voq[dp]) + 1 /\ Len(f.voq[dp]) \in Nat
          /\ Len(g.voq[dp]) <= Len(f.voq[dp]) /\ Len(g.voq[dp]) \in Nat
      BY <1>1, <1>2, <1>3, <1>4, <2>2
    <3>3. yes /\ dp \in Mask(sp)
      <4>1. f.voq[dp] # m.voq[dp]
        BY <3>1, <3>2, Sizes
      <4> QED
        BY <1>2, <4>1
    <3>4. ~(Len(m.voq[dp]) < Depth - 1)
      <4> DEFINE a == Len(m.voq[dp])
                 b == Len(f.voq[dp])
                 c == Len(g.voq[dp])
      <4>1. /\ a \in Nat /\ b \in Nat /\ c \in Nat /\ Depth \in Nat
            /\ ~(c < Depth) /\ b <= a + 1 /\ c <= b
        BY <3>1, <3>2, Sizes
      <4> HIDE DEF a, b, c
      <4>2. ~(a < Depth - 1)
        BY <4>1
      <4> QED
        BY <4>2 DEF a
    <3>5. storage = "perPair"
      BY <2>1
    <3> QED
      BY <3>3, <3>4, <3>5 DEF Room, m
  <2> QED
    BY <2>1, <2>3, <2>4, <2>5 DEF Sound
<1> QED
  BY <1>6, <1>7

-------------------------------------------------------------------------------
(* How far the digest of a source is: digest[sp] is the mask of a packet   *)
(* whose first word is in memory and whose last one is not.                *)
Underway(sp) ==
  /\ next[sp][1] \in 1 .. Len(offered[sp]) + 1
  /\ IF More(sp) THEN next[sp][2] \in 1 .. NextPacket(sp).words ELSE next[sp][2] = 1
  /\ digest[sp] = IF next[sp][2] = 1 THEN {} ELSE NextPacket(sp).to

(* What holds whatever the traffic, even if a ring of a pair wraps. *)
MemoryInv ==
  /\ \E c \in Cases : storage = c.storage /\ offered = c.offered
  /\ next \in [Ports -> Nat \X Nat]
  /\ digest \in [Ports -> SUBSET Ports]
  /\ held \in [Ports -> BOOLEAN]
  /\ settled \in BOOLEAN
  /\ arb \in Registers
  /\ Locked(arb)
  /\ tx \in [Ports -> Seq(Word)]
  /\ \A sp \in Ports : Underway(sp) /\ Sound(mem[sp], sp)

LEMMA Given ==
  ASSUME MemoryInv
  PROVE  storage \in {"shared", "perPair"} /\ offered \in [Ports -> Seq(Packet)]
BY MemoryAssumption DEF MemoryInv

(* What a source digests next. *)
LEMMA Digestible ==
  ASSUME MemoryInv, NEW sp \in Ports, More(sp)
  PROVE  /\ next[sp][1] \in 1 .. Len(offered[sp]) /\ NextPacket(sp) \in Packet
         /\ NextWord(sp) \in Own(sp)
         /\ Mask(sp) = NextPacket(sp).to /\ Mask(sp) \subseteq Ports /\ Mask(sp) # {}
<1>1. offered[sp] \in Seq(Packet) /\ Underway(sp) /\ next[sp] \in Nat \X Nat
  BY Given DEF MemoryInv
<1>2. Len(offered[sp]) \in Nat /\ next[sp][1] \in Nat
  BY <1>1
<1>3. next[sp][1] \in 1 .. Len(offered[sp])
  BY <1>1, <1>2 DEF More, Underway
<1>4. NextPacket(sp) \in Packet
  BY <1>1, <1>3 DEF NextPacket
<1>5. NextPacket(sp).to \subseteq Ports /\ NextPacket(sp).to # {}
  BY <1>4 DEF Packet
<1>6. Mask(sp) = NextPacket(sp).to
  BY <1>1, <1>5 DEF Mask, Underway
<1>7. NextWord(sp) \in Own(sp)
  BY <1>1 DEF NextWord, Own
<1> QED
  BY <1>3, <1>4, <1>5, <1>6, <1>7

(* The words at the heads of the queues. *)
LEMMA HeadOfView ==
  ASSUME MemoryInv, NEW sp \in Ports, NEW dp \in Ports, mem[sp].voq[dp] # <<>>
  PROVE  /\ View(mem[sp], dp) \in Seq(Own(sp)) /\ View(mem[sp], dp) # <<>>
         /\ HeadWord(sp, dp) = Head(View(mem[sp], dp))
         /\ HeadWord(sp, dp) \in Own(sp) /\ HeadWord(sp, dp) \in Word
<1> DEFINE q == mem[sp].voq[dp]
           v == View(mem[sp], dp)
<1>1. v \in Seq(Own(sp)) /\ q \in Seq(Entries)
  BY DEF MemoryInv, Sound, Memory
<1>2. Len(q) \in Nat \ {0} /\ Head(q) = q[1]
  BY <1>1, Taken
<1>3. v = [i \in 1 .. Len(q) |-> WordOf(sp, q[i])]
  BY DEF View, WordOf
<1> HIDE DEF v
<1>4. v[1] = WordOf(sp, q[1]) /\ 1 \in DOMAIN v
  BY <1>2, <1>3
<1>5. v # <<>>
  <2>1. DOMAIN (<<>>) = {}
    OBVIOUS
  <2> QED
    BY <1>4, <2>1
<1>6. Head(v) = v[1] /\ Head(v) \in Own(sp)
  BY <1>1, <1>5, Taken
<1>7. HeadWord(sp, dp) = Head(v)
  BY <1>2, <1>4, <1>6 DEF HeadWord
<1> QED
  BY <1>1, <1>5, <1>6, <1>7 DEF v, Own, Word

-------------------------------------------------------------------------------
(* A call, source by source: the ports a source sends to (one at most) and *)
(* what that and the digest of these sources make of the state.            *)
To(sp) == {dp \in Ports : <<sp, dp>> \in Sends(arb, Ready)}
Ending == {m \in Sends(arb, Ready) : LastWord(HeadWord(m[1], m[2]))}

CallOf(digesting) ==
  /\ \A sp \in digesting : More(sp) /\ ~Full(sp)
  /\ \A sp \in Ports :
       /\ mem'[sp] = Wrapped(Emptied(Filled(sp, sp \in digesting), To(sp)))
       /\ sp \notin digesting => next'[sp] = next[sp] /\ digest'[sp] = digest[sp]
       /\ sp \in digesting =>
            IF LastWord(NextWord(sp))
            THEN next'[sp] = <<next[sp][1] + 1, 1>> /\ digest'[sp] = {}
            ELSE next'[sp] = <<next[sp][1], next[sp][2] + 1>> /\ digest'[sp] = Mask(sp)
  /\ \A dp \in Ports :
       /\ \A sp \in Ports : dp \in To(sp) => tx'[dp] = Append(tx[dp], HeadWord(sp, dp))
       /\ (\A sp \in Ports : dp \notin To(sp)) => tx'[dp] = tx[dp]
  /\ arb' = AfterSends(arb, Ready, Sends(arb, Ready), Ending)
  /\ next' = [sp \in Ports |-> next'[sp]] /\ digest' = [sp \in Ports |-> digest'[sp]]
  /\ tx' = [dp \in Ports |-> tx'[dp]]
  /\ held' \in [Ports -> BOOLEAN]
  /\ UNCHANGED <<storage, offered, settled>>

(* No port takes part in two transfers of a call, and each of them has a   *)
(* word to send.                                                           *)
LEMMA Matching ==
  ASSUME MemoryInv
  PROVE  /\ Ready \in SUBSET (Ports \X Ports)
         /\ Fits(arb, Sends(arb, Ready))
         /\ \A sp \in Ports : /\ To(sp) \subseteq Ports
                              /\ \A d, e \in To(sp) : d = e
                              /\ \A dp \in To(sp) : mem[sp].voq[dp] # <<>>
         /\ \A s, r \in Ports, dp \in Ports : dp \in To(s) /\ dp \in To(r) => s = r
<1>1. Ready \in SUBSET (Ports \X Ports) /\ arb \in Registers
  BY DEF Ready, MemoryInv
<1>2. Fits(arb, Sends(arb, Ready)) /\ Sends(arb, Ready) \subseteq Ready
  BY <1>1, SendsFit, SendsReady
<1>3. \A m \in Ready : mem[m[1]].voq[m[2]] # <<>>
  BY DEF Ready
<1>4. \A m, n \in Sends(arb, Ready) : (m[1] = n[1] \/ m[2] = n[2]) => m = n
  BY <1>2 DEF Fits
<1> QED
  BY <1>1, <1>2, <1>3, <1>4 DEF To

LEMMA CallIs ==
  ASSUME MemoryInv, Call
  PROVE  \E digesting \in SUBSET Ports : CallOf(digesting)
<1>1. PICK s \in Streams, sends \in {Sends(arb, Ready)} :
        LET digesting == {sp \in Ports : Digests(sp, s[1], s[2])}
            filled == [sp \in Ports |-> IF sp \in digesting THEN Enqueued(sp) ELSE mem[sp]]
            ends(sp) == LastWord(NextWord(sp))
        IN /\ next' = [sp \in Ports |->
                         IF sp \notin digesting THEN next[sp]
                         ELSE IF ends(sp) THEN <<next[sp][1] + 1, 1>>
                         ELSE <<next[sp][1], next[sp][2] + 1>>]
           /\ digest' = [sp \in Ports |->
                           IF sp \notin digesting THEN digest[sp]
                           ELSE IF ends(sp) THEN {} ELSE Mask(sp)]
           /\ held' = [sp \in Ports |->
                         IF sp \in digesting THEN FALSE
                         ELSE held[sp] \/ (digest[sp] = {} /\ ~Full(sp) /\ sp \in s[1])]
           /\ mem' = [sp \in Ports |->
                        Wrapped(IF \E m \in sends : m[1] = sp
                                THEN Dequeued(filled[sp], (CHOOSE m \in sends : m[1] = sp)[2])
                                ELSE filled[sp])]
           /\ tx' = [dp \in Ports |->
                       IF \E m \in sends : m[2] = dp
                       THEN Append(tx[dp], HeadWord((CHOOSE m \in sends : m[2] = dp)[1], dp))
                       ELSE tx[dp]]
           /\ arb' = AfterSends(arb, Ready, sends,
                                {m \in sends : LastWord(HeadWord(m[1], m[2]))})
           /\ UNCHANGED <<storage, offered, settled>>
  BY DEF Call
<1>0. sends = Sends(arb, Ready)
  OBVIOUS
<1> DEFINE digesting == {sp \in Ports : Digests(sp, s[1], s[2])}
<1>2. \A sp \in digesting : More(sp) /\ ~Full(sp)
  BY DEF Digests
<1>3. \A sp \in Ports : Filled(sp, sp \in digesting) =
                          IF sp \in digesting THEN Enqueued(sp) ELSE mem[sp]
  BY DEF Filled
<1>4. /\ sends \subseteq Ports \X Ports
      /\ \A m, n \in sends : (m[1] = n[1] \/ m[2] = n[2]) => m = n
  BY <1>0, Matching DEF Fits
<1>5. held' \in [Ports -> BOOLEAN]
  <2>1. \A sp \in Ports : held'[sp] \in BOOLEAN
    BY <1>1 DEF MemoryInv
  <2> QED
    BY <1>1, <2>1
<1>6. arb' = AfterSends(arb, Ready, sends, Ending)
  BY <1>0, <1>1 DEF Ending
<1> HIDE DEF digesting
<1>7. ASSUME NEW sp \in Ports
      PROVE  mem'[sp] = Wrapped(Emptied(Filled(sp, sp \in digesting), To(sp)))
  <2>1. mem'[sp] = Wrapped(IF \E m \in sends : m[1] = sp
                           THEN Dequeued(Filled(sp, sp \in digesting),
                                         (CHOOSE m \in sends : m[1] = sp)[2])
                           ELSE Filled(sp, sp \in digesting))
    BY <1>1, <1>3 DEF digesting
  <2>2. CASE \E m \in sends : m[1] = sp
    <3>1. PICK m \in sends : m[1] = sp
      BY <2>2
    <3>2. (CHOOSE n \in sends : n[1] = sp) = m
      BY <1>4, <3>1
    <3>3. m = <<sp, m[2]>> /\ m[2] \in Ports
      BY <1>4, <3>1
    <3>4. To(sp) = {m[2]}
      BY <1>0, <1>4, <3>1, <3>3 DEF To
    <3>5. To(sp) # {} /\ (CHOOSE dp \in To(sp) : TRUE) = m[2]
      BY <3>4
    <3> QED
      BY <2>1, <2>2, <3>2, <3>5 DEF Emptied
  <2>3. CASE ~ \E m \in sends : m[1] = sp
    <3>1. To(sp) = {}
      BY <1>0, <2>3 DEF To
    <3> QED
      BY <2>1, <2>3, <3>1 DEF Emptied
  <2> QED
    BY <2>2, <2>3
<1>8. ASSUME NEW dp \in Ports
      PROVE  /\ \A sp \in Ports : dp \in To(sp) => tx'[dp] = Append(tx[dp], HeadWord(sp, dp))
             /\ (\A sp \in Ports : dp \notin To(sp)) => tx'[dp] = tx[dp]
  <2>1. tx'[dp] = IF \E m \in sends : m[2] = dp
                  THEN Append(tx[dp], HeadWord((CHOOSE m \in sends : m[2] = dp)[1], dp))
                  ELSE tx[dp]
    BY <1>1
  <2>2. ASSUME NEW sp \in Ports, dp \in To(sp)
        PROVE  tx'[dp] = Append(tx[dp], HeadWord(sp, dp))
    <3>1. <<sp, dp>> \in sends
      BY <1>0, <2>2 DEF To
    <3>2. (CHOOSE m \in sends : m[2] = dp) = <<sp, dp>>
      BY <1>4, <3>1
    <3>3. \E m \in sends : m[2] = dp
      BY <3>1
    <3>4. <<sp, dp>>[1] = sp
      OBVIOUS
    <3> QED
      BY <2>1, <3>2, <3>3, <3>4, Zenon
  <2>3. ASSUME \A sp \in Ports : dp \notin To(sp)
        PROVE  tx'[dp] = tx[dp]
    <3>1. ASSUME NEW m \in sends, m[2] = dp
          PROVE  FALSE
      <4>1. m = <<m[1], dp>> /\ m[1] \in Ports
        BY <1>4, <3>1
      <4> QED
        BY <1>0, <2>3, <3>1, <4>1 DEF To
    <3> QED
      BY <2>1, <3>1
  <2> QED
    BY <2>2, <2>3
<1>9. ASSUME NEW sp \in Ports
      PROVE  /\ sp \notin digesting => next'[sp] = next[sp] /\ digest'[sp] = digest[sp]
             /\ sp \in digesting =>
                  IF LastWord(NextWord(sp))
                  THEN next'[sp] = <<next[sp][1] + 1, 1>> /\ digest'[sp] = {}
                  ELSE next'[sp] = <<next[sp][1], next[sp][2] + 1>> /\ digest'[sp] = Mask(sp)
  BY <1>1 DEF digesting
<1>10. /\ next' = [sp \in Ports |-> next'[sp]] /\ digest' = [sp \in Ports |-> digest'[sp]]
       /\ tx' = [dp \in Ports |-> tx'[dp]]
  BY <1>1
<1>11. digesting \in SUBSET Ports /\ UNCHANGED <<storage, offered, settled>>
  BY <1>1 DEF digesting
<1> QED
  BY <1>0, <1>2, <1>5, <1>6, <1>7, <1>8, <1>9, <1>10, <1>11 DEF CallOf

(* What a call does to one source: to its memory, and to the words for     *)
(* each port in it if no ring wraps.                                       *)
LEMMA CallOnSource ==
  ASSUME MemoryInv, NEW digesting \in SUBSET Ports, CallOf(digesting), NEW sp \in Ports
  PROVE  /\ Sound(mem'[sp], sp)
         /\ (sp \in digesting => Room(sp)) =>
              \A dp \in Ports : View(mem'[sp], dp) =
                Shrinks(Grows(View(mem[sp], dp), sp \in digesting /\ dp \in Mask(sp),
                              NextWord(sp)),
                        dp \in To(sp))
<1>1. Sound(mem[sp], sp) /\ storage \in {"shared", "perPair"}
  BY Given DEF MemoryInv
<1>2. sp \in digesting => /\ NextWord(sp) \in Own(sp) /\ ~Full(sp)
                          /\ Mask(sp) \subseteq Ports /\ Mask(sp) # {}
  BY Digestible DEF CallOf
<1>3. /\ To(sp) \in SUBSET Ports /\ \A d, e \in To(sp) : d = e
      /\ \A dp \in To(sp) : mem[sp].voq[dp] # <<>>
  BY Matching
<1>4. mem'[sp] = Wrapped(Emptied(Filled(sp, sp \in digesting), To(sp)))
  BY DEF CallOf
<1>5. (sp \in digesting) \in BOOLEAN
  OBVIOUS
<1> DEFINE yes == sp \in digesting
<1>6. LET g == Emptied(Filled(sp, yes), To(sp)) IN
         /\ Sound(Wrapped(g), sp)
         /\ (yes => Room(sp)) =>
              \A dp \in Ports : View(Wrapped(g), dp) =
                Shrinks(Grows(View(mem[sp], dp), yes /\ dp \in Mask(sp), NextWord(sp)),
                        dp \in To(sp))
  <2> HIDE DEF yes
  <2>1. yes \in BOOLEAN
    BY <1>5 DEF yes
  <2>2. yes => /\ NextWord(sp) \in Own(sp) /\ ~Full(sp)
               /\ Mask(sp) \subseteq Ports /\ Mask(sp) # {}
    BY <1>2 DEF yes
  <2> QED
    BY <1>1, <1>3, <2>1, <2>2, SourceStep
<1> QED
  BY <1>4, <1>6

-------------------------------------------------------------------------------
LEMMA InitMemory == Init => MemoryInv
<1> SUFFICES ASSUME Init PROVE MemoryInv
  OBVIOUS
<1>1. PICK c \in Cases :
        storage = c.storage /\ offered = c.offered /\ arb = AfterReset(c.arbiter)
  BY DEF Init
<1>2. arb \in Registers /\ Locked(arb)
  BY <1>1, ResetRegisters, MemoryAssumption
<1>3. storage \in {"shared", "perPair"} /\ offered \in [Ports -> Seq(Packet)]
  BY <1>1, MemoryAssumption
<1>4. /\ next \in [Ports -> Nat \X Nat] /\ digest \in [Ports -> SUBSET Ports]
      /\ held \in [Ports -> BOOLEAN] /\ settled \in BOOLEAN
      /\ tx \in [Ports -> Seq(Word)]
  <2>1. <<>> \in Seq(Word)
    OBVIOUS
  <2> QED
    BY <2>1 DEF Init
<1>5. ASSUME NEW sp \in Ports
      PROVE  Underway(sp)
  <2>1. next[sp] = <<1, 1>> /\ digest[sp] = {} /\ offered[sp] \in Seq(Packet)
    BY <1>3 DEF Init
  <2>2. Len(offered[sp]) \in Nat
    BY <2>1
  <2>3. ASSUME More(sp)
        PROVE  1 \in 1 .. NextPacket(sp).words
    <3>1. NextPacket(sp) \in Packet
      BY <2>1, <2>2, <2>3 DEF More, NextPacket
    <3> QED
      BY <3>1 DEF Packet
  <2> QED
    BY <2>1, <2>2, <2>3 DEF Underway
<1>6. ASSUME NEW sp \in Ports
      PROVE  Sound(mem[sp], sp)
  <2> DEFINE m == mem[sp]
  <2>1. /\ m = [free   |-> FreeAfterReset,
                data   |-> [a \in Addresses |-> None],
                bitmap |-> [a \in Addresses |-> {}],
                voq    |-> [dp \in Ports |-> <<>>]]
    BY DEF Init
  <2> HIDE DEF m
  <2>2. /\ FreeAfterReset \in Seq(Usable) /\ Len(FreeAfterReset) = Depth - 1
        /\ \A i \in 1 .. Depth - 1 : FreeAfterReset[i] = i - 1
    BY Sizes DEF FreeAfterReset, Usable
  <2>3. \A a \in Usable : a + 1 \in 1 .. Depth - 1 /\ FreeAfterReset[a + 1] = a
    <3>1. \A a \in Usable : a + 1 \in 1 .. Depth - 1 /\ (a + 1) - 1 = a
      BY Sizes DEF Usable
    <3> QED
      BY <2>2, <3>1
  <2>4. Distinct(FreeAfterReset) /\ Holds(FreeAfterReset) = Usable
    <3>1. Distinct(FreeAfterReset)
      BY <2>2, Sizes DEF Distinct
    <3>2. Holds(FreeAfterReset) \subseteq Usable
      BY <2>2 DEF Holds
    <3>3. Usable \subseteq Holds(FreeAfterReset)
      BY <2>2, <2>3 DEF Holds
    <3> QED
      BY <3>1, <3>2, <3>3
  <2>5. \A S : <<>> \in Seq(S) /\ Len(<<>>) = 0
    OBVIOUS
  <2>6. m \in Memory
    BY <2>1, <2>2, <2>5 DEF Memory
  <2>7. Partition(m)
    <3>1. Holds(<<>>) = {} /\ Distinct(<<>>)
      BY <2>5 DEF Holds, Distinct
    <3>2. \A a \in Usable : m.bitmap[a] = {}
      BY <2>1, Sizes
    <3> QED
      BY <2>1, <2>4, <3>1, <3>2 DEF Partition
  <2>8. \A dp \in Ports : View(m, dp) \in Seq(Own(sp))
    <3>1. \A dp \in Ports : View(m, dp) = <<>>
      BY <2>1, <2>5 DEF View
    <3> QED
      BY <2>5, <3>1
  <2>9. Len(m.free) < Depth /\ \A dp \in Ports : Len(m.voq[dp]) < Depth
    BY <2>1, <2>2, <2>5, Sizes
  <2> QED
    BY <2>6, <2>7, <2>8, <2>9 DEF Sound, m
<1> QED
  BY <1>1, <1>2, <1>4, <1>5, <1>6 DEF MemoryInv

LEMMA CallMemory ==
  ASSUME MemoryInv, Call
  PROVE  MemoryInv'
<1> PICK digesting \in SUBSET Ports : CallOf(digesting)
  BY CallIs
<1>1. UNCHANGED <<storage, offered, settled>> /\ held' \in [Ports -> BOOLEAN]
  BY DEF CallOf
<1>2. arb' \in Registers /\ Locked(arb')
  <2>1. arb \in Registers /\ Locked(arb)
    BY DEF MemoryInv
  <2>2. /\ Ready \in SUBSET (Ports \X Ports) /\ Fits(arb, Sends(arb, Ready))
        /\ Ending \in SUBSET Sends(arb, Ready)
    BY Matching DEF Ending
  <2>3. arb' = AfterSends(arb, Ready, Sends(arb, Ready), Ending)
    BY DEF CallOf
  <2>4. Follows(arb, Sends(arb, Ready), Ending, arb')
    BY <2>1, <2>2, <2>3, AfterCall
  <2> QED
    BY <2>1, <2>2, <2>3, <2>4, RegistersKept, LockedKept
<1>3. tx' \in [Ports -> Seq(Word)]
  <2>1. ASSUME NEW dp \in Ports
        PROVE  tx'[dp] \in Seq(Word)
    <3>1. tx[dp] \in Seq(Word)
      BY DEF MemoryInv
    <3>2. CASE \E sp \in Ports : dp \in To(sp)
      <4>1. PICK sp \in Ports : dp \in To(sp)
        BY <3>2
      <4>2. HeadWord(sp, dp) \in Word
        BY <4>1, Matching, HeadOfView
      <4>3. tx'[dp] = Append(tx[dp], HeadWord(sp, dp))
        BY <4>1 DEF CallOf
      <4> QED
        BY <3>1, <4>2, <4>3
    <3>3. CASE ~ \E sp \in Ports : dp \in To(sp)
      BY <3>1, <3>3 DEF CallOf
    <3> QED
      BY <3>2, <3>3
  <2>2. tx' = [dp \in Ports |-> tx'[dp]]
    BY DEF CallOf
  <2> QED
    BY <2>1, <2>2
<1>4. ASSUME NEW sp \in Ports
      PROVE  /\ next'[sp] \in Nat \X Nat /\ digest'[sp] \in SUBSET Ports
             /\ Underway(sp)'
  <2>1. /\ Underway(sp) /\ next[sp] \in Nat \X Nat /\ digest[sp] \in SUBSET Ports
        /\ offered[sp] \in Seq(Packet)
    BY Given DEF MemoryInv
  <2>2. CASE sp \notin digesting
    <3>1. next'[sp] = next[sp] /\ digest'[sp] = digest[sp]
      BY <2>2 DEF CallOf
    <3> QED
      BY <1>1, <2>1, <3>1 DEF Underway, More, NextPacket
  <2>3. CASE sp \in digesting
    <3>1. More(sp)
      BY <2>3 DEF CallOf
    <3>2. /\ next[sp][1] \in 1 .. Len(offered[sp]) /\ NextPacket(sp) \in Packet
          /\ Mask(sp) = NextPacket(sp).to /\ Mask(sp) \subseteq Ports
          /\ next[sp][2] \in 1 .. NextPacket(sp).words /\ NextPacket(sp).words \in Nat
          /\ Len(offered[sp]) \in Nat
      BY <2>1, <3>1, Digestible DEF Underway, Packet
    <3>3. LastWord(NextWord(sp)) <=> next[sp][2] = NextPacket(sp).words
      BY DEF LastWord, NextWord, NextPacket
    <3>4. CASE LastWord(NextWord(sp))
      <4>1. next'[sp] = <<next[sp][1] + 1, 1>> /\ digest'[sp] = {}
        BY <2>3, <3>4 DEF CallOf
      <4>2. next'[sp][1] = next[sp][1] + 1 /\ next'[sp][2] = 1
        BY <4>1
      <4>3. ASSUME More(sp)'
            PROVE  1 \in 1 .. NextPacket(sp)'.words
        <5>1. next'[sp][1] \in 1 .. Len(offered[sp])
          BY <1>1, <3>2, <4>2, <4>3 DEF More
        <5>2. NextPacket(sp)' \in Packet
          BY <1>1, <2>1, <5>1 DEF NextPacket
        <5> QED
          BY <5>2 DEF Packet
      <4> QED
        BY <1>1, <3>2, <4>1, <4>2, <4>3 DEF Underway
    <3>5. CASE ~LastWord(NextWord(sp))
      <4>1. next'[sp] = <<next[sp][1], next[sp][2] + 1>> /\ digest'[sp] = Mask(sp)
        BY <2>3, <3>5 DEF CallOf
      <4>2. next'[sp][1] = next[sp][1] /\ next'[sp][2] = next[sp][2] + 1
        BY <4>1
      <4>3. More(sp)' /\ NextPacket(sp)' = NextPacket(sp)
        BY <1>1, <3>1, <4>2 DEF More, NextPacket
      <4>4. next[sp][2] + 1 \in 1 .. NextPacket(sp).words /\ next[sp][2] + 1 # 1
        BY <3>2, <3>3, <3>5
      <4>5. next'[sp] \in Nat \X Nat
        BY <3>2, <4>1
      <4> QED
        BY <1>1, <3>2, <4>1, <4>2, <4>3, <4>4, <4>5 DEF Underway
    <3> QED
      BY <3>4, <3>5
  <2> QED
    BY <2>2, <2>3
<1>5. next' \in [Ports -> Nat \X Nat] /\ digest' \in [Ports -> SUBSET Ports]
  BY <1>4 DEF CallOf
<1>6. ASSUME NEW sp \in Ports
      PROVE  Sound(mem[sp], sp)'
  <2>1. Sound(mem'[sp], sp)
    BY CallOnSource
  <2> QED
    BY <1>1, <2>1 DEF Sound, Memory, Entries, View
<1> QED
  BY <1>1, <1>2, <1>3, <1>4, <1>5, <1>6 DEF MemoryInv

LEMMA MemoryKept == MemoryInv /\ [Next]_vars => MemoryInv'
<1> SUFFICES ASSUME MemoryInv, [Next]_vars PROVE MemoryInv'
  OBVIOUS
<1>1. CASE Call
  BY <1>1, CallMemory
<1>2. CASE UNCHANGED <<storage, offered, next, digest, held, mem, arb, tx>>
           /\ settled' \in BOOLEAN
  <2>1. ASSUME NEW sp \in Ports
        PROVE  Underway(sp)' /\ Sound(mem[sp], sp)'
    <3>1. Underway(sp) /\ Sound(mem[sp], sp)
      BY DEF MemoryInv
    <3>2. Underway(sp)'
      BY <1>2, <3>1 DEF Underway, More, NextPacket
    <3>3. Sound(mem[sp], sp)'
      BY <1>2, <3>1 DEF Sound, Memory, Entries, View
    <3> QED
      BY <3>2, <3>3
  <2> QED
    BY <1>2, <2>1 DEF MemoryInv
<1> QED
  BY <1>1, <1>2 DEF Next, Settle, vars, MemoryInv

(* Types are kept, and no queue ever shows Depth entries. *)
THEOREM TypeCorrect == Spec => []TypeOK
<1>1. MemoryInv => TypeOK
  <2> SUFFICES ASSUME MemoryInv PROVE TypeOK
    OBVIOUS
  <2>1. ASSUME NEW sp \in Ports
        PROVE  /\ Range(mem[sp].free) \subseteq Addresses /\ Len(mem[sp].free) < Depth
               /\ mem[sp].bitmap \in [Addresses -> SUBSET Ports]
               /\ \A dp \in Ports : Len(mem[sp].voq[dp]) < Depth
    <3>1. mem[sp] \in Memory /\ Len(mem[sp].free) < Depth
          /\ \A dp \in Ports : Len(mem[sp].voq[dp]) < Depth
      BY DEF MemoryInv, Sound
    <3>2. mem[sp].free \in Seq(Usable) /\ mem[sp].bitmap \in [Addresses -> SUBSET Ports]
      BY <3>1 DEF Memory
    <3>3. Range(mem[sp].free) \subseteq Usable
      BY <3>2 DEF Range
    <3> QED
      BY <3>1, <3>2, <3>3, Sizes
  <2>2. DOMAIN tx = Ports
    BY DEF MemoryInv
  <2> QED
    BY <2>1, <2>2 DEF TypeOK, MemoryInv
<1> QED
  BY <1>1, InitMemory, MemoryKept, PTL DEF Spec

(* The free list and the bitmaps divide the shared buffer, whatever the    *)
(* arbiter, the number of ports, the depth and the traffic: an address     *)
(* that no queue holds is free, and it is never handed out twice.          *)
THEOREM FreeListCorrect == Spec => []BufferPartitioned
<1> DEFINE times(a, q) == Cardinality({i \in DOMAIN q : q[i] = a})
<1>1. ASSUME NEW q \in Seq(Usable), Distinct(q), NEW a
      PROVE  times(a, q) = IF a \in Holds(q) THEN 1 ELSE 0
  <2>1. DOMAIN q = 1 .. Len(q)
    BY <1>1
  <2>2. CASE a \in Holds(q)
    <3>1. PICK i \in 1 .. Len(q) : a = q[i]
      BY <2>2 DEF Holds
    <3>2. {j \in DOMAIN q : q[j] = a} = {i}
      BY <1>1, <2>1, <3>1 DEF Distinct
    <3> QED
      BY <2>2, <3>2, FS_Singleton
  <2>3. CASE a \notin Holds(q)
    <3>1. {j \in DOMAIN q : q[j] = a} = {}
      BY <2>1, <2>3 DEF Holds
    <3> QED
      BY <2>3, <3>1, FS_EmptySet
  <2> QED
    BY <2>2, <2>3
<1> HIDE DEF times
<1>2. MemoryInv => BufferPartitioned
  <2> SUFFICES ASSUME MemoryInv, storage = "shared", NEW sp \in Ports, NEW a \in Usable
               PROVE  /\ times(a, mem[sp].free) = (IF mem[sp].bitmap[a] = {} THEN 1 ELSE 0)
                      /\ \A dp \in Ports : times(a, mem[sp].voq[dp]) =
                           (IF dp \in mem[sp].bitmap[a] THEN 1 ELSE 0)
    BY DEF BufferPartitioned, Usable, times
  <2>1. mem[sp] \in Memory /\ Partition(mem[sp])
    BY DEF MemoryInv, Sound
  <2>2. mem[sp].free \in Seq(Usable) /\ \A dp \in Ports : mem[sp].voq[dp] \in Seq(Usable)
    BY <2>1 DEF Memory, Entries
  <2>3. times(a, mem[sp].free) = (IF mem[sp].bitmap[a] = {} THEN 1 ELSE 0)
    BY <1>1, <2>1, <2>2 DEF Partition
  <2>4. ASSUME NEW dp \in Ports
        PROVE  times(a, mem[sp].voq[dp]) = (IF dp \in mem[sp].bitmap[a] THEN 1 ELSE 0)
    BY <1>1, <2>1, <2>2 DEF Partition
  <2> QED
    BY <2>3, <2>4
<1> QED
  BY <1>2, InitMemory, MemoryKept, PTL DEF Spec

-------------------------------------------------------------------------------
(* Accounts when a word moves: it is sent, it joins the queue, or it is of *)
(* another source.                                                         *)
LEMMA AccountsSent ==
  ASSUME NEW sp \in Ports, NEW t \in Seq(Word), NEW q \in Seq(Own(sp)), q # <<>>,
         NEW words, Accounts(t, q, sp, words)
  PROVE  Accounts(Append(t, Head(q)), Tail(q), sp, words)
<1> DEFINE u == Append(t, Head(q))
           r == Tail(q)
           x == Head(q)
           got(s) == {i \in DOMAIN s : s[i][1] = sp}
<1>1. /\ r \in Seq(Own(sp)) /\ Len(q) \in Nat \ {0} /\ Len(r) = Len(q) - 1
      /\ x = q[1] /\ x \in Own(sp) /\ \A i \in 1 .. Len(q) - 1 : r[i] = q[i + 1]
  BY Taken
<1>2. x \in Word /\ x[1] = sp
  BY <1>1 DEF Own, Word
<1>3. /\ u \in Seq(Word) /\ Len(u) = Len(t) + 1 /\ Len(t) \in Nat
      /\ \A i \in 1 .. Len(t) : u[i] = t[i]
      /\ u[Len(t) + 1] = x
  BY <1>2, Appended
<1>4. DOMAIN u = (1 .. Len(t)) \cup {Len(t) + 1} /\ DOMAIN t = 1 .. Len(t)
      /\ DOMAIN q = 1 .. Len(q) /\ DOMAIN r = 1 .. Len(q) - 1
  <2>1. 1 .. Len(t) + 1 = (1 .. Len(t)) \cup {Len(t) + 1}
    BY <1>3
  <2> QED
    BY <1>1, <1>3, <2>1
<1> HIDE DEF u, r, x
<1>5. /\ {t[i] : i \in got(t)} \cup Range(q) = words
      /\ \A i, j \in got(t) : i < j => Before(t[i], t[j])
      /\ \A i \in got(t), j \in DOMAIN q : Before(t[i], q[j])
      /\ \A i, j \in DOMAIN q : i < j => Before(q[i], q[j])
  BY DEF Accounts
<1>6. got(u) = got(t) \cup {Len(t) + 1}
  BY <1>2, <1>3, <1>4
<1>7. \A i \in got(t) : i \in 1 .. Len(t) /\ u[i] = t[i]
  BY <1>3, <1>4
<1>8. \A j \in DOMAIN r : j + 1 \in DOMAIN q /\ r[j] = q[j + 1] /\ 1 < j + 1
  BY <1>1, <1>4
<1>9. 1 \in DOMAIN q /\ \A j \in DOMAIN q : j # 1 => j - 1 \in DOMAIN r /\ (j - 1) + 1 = j
  BY <1>1, <1>4
<1>10. Range(q) = Range(r) \cup {x}
  <2>1. Range(q) \subseteq Range(r) \cup {x}
    <3> SUFFICES ASSUME NEW j \in DOMAIN q PROVE q[j] \in Range(r) \cup {x}
      BY DEF Range
    <3>1. CASE j = 1
      BY <1>1, <3>1
    <3>2. CASE j # 1
      <4>1. j - 1 \in DOMAIN r /\ r[j - 1] = q[(j - 1) + 1] /\ (j - 1) + 1 = j
        BY <1>8, <1>9, <3>2
      <4> QED
        BY <4>1 DEF Range
    <3> QED
      BY <3>1, <3>2
  <2>2. \A j \in DOMAIN r : r[j] \in Range(q)
    BY <1>8 DEF Range
  <2>3. x \in Range(q)
    BY <1>1, <1>9 DEF Range
  <2>4. Range(r) \subseteq Range(q)
    BY <2>2 DEF Range
  <2> QED
    BY <2>1, <2>3, <2>4
<1>11. {u[i] : i \in got(u)} = {t[i] : i \in got(t)} \cup {x}
  BY <1>3, <1>6, <1>7
<1>12. \A i, j \in got(u) : i < j => Before(u[i], u[j])
  <2> SUFFICES ASSUME NEW i \in got(u), NEW j \in got(u), i < j
               PROVE  Before(u[i], u[j])
    OBVIOUS
  <2>1. i \in got(t)
    BY <1>3, <1>4, <1>6, <1>7
  <2>2. CASE j \in got(t)
    BY <1>5, <1>7, <2>1, <2>2
  <2>3. CASE j = Len(t) + 1
    BY <1>1, <1>3, <1>5, <1>7, <1>9, <2>1, <2>3
  <2> QED
    BY <1>6, <2>2, <2>3
<1>13. \A i \in got(u), j \in DOMAIN r : Before(u[i], r[j])
  <2> SUFFICES ASSUME NEW i \in got(u), NEW j \in DOMAIN r
               PROVE  Before(u[i], r[j])
    OBVIOUS
  <2>1. CASE i \in got(t)
    BY <1>5, <1>7, <1>8, <2>1
  <2>2. CASE i = Len(t) + 1
    <3>1. u[i] = q[1] /\ 1 \in DOMAIN q
      BY <1>1, <1>3, <1>9, <2>2
    <3>2. j + 1 \in DOMAIN q /\ r[j] = q[j + 1] /\ 1 < j + 1
      BY <1>8
    <3> QED
      BY <1>5, <3>1, <3>2
  <2> QED
    BY <1>6, <2>1, <2>2
<1>14. \A i, j \in DOMAIN r : i < j => Before(r[i], r[j])
  <2> SUFFICES ASSUME NEW i \in DOMAIN r, NEW j \in DOMAIN r, i < j
               PROVE  Before(r[i], r[j])
    OBVIOUS
  <2>1. i + 1 < j + 1
    BY <1>1, <1>4
  <2> QED
    BY <1>5, <1>8, <2>1
<1>15. {u[i] : i \in got(u)} \cup Range(r) = words
  BY <1>5, <1>10, <1>11
<1> QED
  BY <1>12, <1>13, <1>14, <1>15 DEF Accounts, u, r, x

LEMMA AccountsQueued ==
  ASSUME NEW sp \in Ports, NEW t \in Seq(Word), NEW q \in Seq(Own(sp)), NEW x \in Own(sp),
         NEW words, Accounts(t, q, sp, words), \A w \in words : Before(w, x)
  PROVE  Accounts(t, Append(q, x), sp, words \cup {x})
<1> DEFINE r == Append(q, x)
           got == {i \in DOMAIN t : t[i][1] = sp}
<1>1. /\ r \in Seq(Own(sp)) /\ Len(r) = Len(q) + 1 /\ Len(q) \in Nat
      /\ \A i \in 1 .. Len(q) : r[i] = q[i]
      /\ r[Len(q) + 1] = x
  BY Appended
<1>2. DOMAIN r = DOMAIN q \cup {Len(q) + 1} /\ DOMAIN q = 1 .. Len(q)
  <2>1. 1 .. Len(q) + 1 = (1 .. Len(q)) \cup {Len(q) + 1}
    BY <1>1
  <2> QED
    BY <1>1, <2>1
<1> HIDE DEF r
<1>3. /\ {t[i] : i \in got} \cup Range(q) = words
      /\ \A i, j \in got : i < j => Before(t[i], t[j])
      /\ \A i \in got, j \in DOMAIN q : Before(t[i], q[j])
      /\ \A i, j \in DOMAIN q : i < j => Before(q[i], q[j])
  BY DEF Accounts
<1>4. (\A i \in got : t[i] \in words) /\ (\A j \in DOMAIN q : q[j] \in words)
  BY <1>3 DEF Range
<1>5. Range(r) = Range(q) \cup {x}
  BY <1>1, <1>2 DEF Range
<1>6. \A i \in got, j \in DOMAIN r : Before(t[i], r[j])
  BY <1>1, <1>2, <1>3, <1>4
<1>7. \A i, j \in DOMAIN r : i < j => Before(r[i], r[j])
  <2> SUFFICES ASSUME NEW i \in DOMAIN r, NEW j \in DOMAIN r, i < j
               PROVE  Before(r[i], r[j])
    OBVIOUS
  <2>1. i \in DOMAIN q /\ r[i] = q[i]
    BY <1>1, <1>2
  <2>2. CASE j \in DOMAIN q
    BY <1>1, <1>2, <1>3, <2>1, <2>2
  <2>3. CASE j = Len(q) + 1
    BY <1>1, <1>4, <2>1, <2>3
  <2> QED
    BY <1>2, <2>2, <2>3
<1> QED
  BY <1>3, <1>5, <1>6, <1>7 DEF Accounts, r

LEMMA AccountsOther ==
  ASSUME NEW sp \in Ports, NEW t \in Seq(Word), NEW q, NEW x \in Word, x[1] # sp,
         NEW words, Accounts(t, q, sp, words)
  PROVE  Accounts(Append(t, x), q, sp, words)
<1> DEFINE u == Append(t, x)
           got(s) == {i \in DOMAIN s : s[i][1] = sp}
<1>1. /\ u \in Seq(Word) /\ Len(u) = Len(t) + 1 /\ Len(t) \in Nat
      /\ \A i \in 1 .. Len(t) : u[i] = t[i]
      /\ u[Len(t) + 1] = x
  BY Appended
<1>2. DOMAIN u = (1 .. Len(t)) \cup {Len(t) + 1} /\ DOMAIN t = 1 .. Len(t)
  <2>1. 1 .. Len(t) + 1 = (1 .. Len(t)) \cup {Len(t) + 1}
    BY <1>1
  <2> QED
    BY <1>1, <2>1
<1> HIDE DEF u
<1>3. got(u) = got(t) /\ \A i \in got(t) : u[i] = t[i]
  BY <1>1, <1>2
<1>4. {u[i] : i \in got(u)} = {t[i] : i \in got(t)}
  BY <1>3
<1> QED
  BY <1>3, <1>4 DEF Accounts, u

(* The words that are due: those of the packets that go to the port. *)
LEMMA DueIs ==
  ASSUME offered \in [Ports -> Seq(Packet)], NEW sp \in Ports, NEW dp, NEW w
  PROVE  w \in Due(sp, dp) <=>
           /\ w \in Own(sp)
           /\ w[2] \in 1 .. Len(offered[sp]) /\ dp \in offered[sp][w[2]].to
           /\ w[3] \in 1 .. offered[sp][w[2]].words
<1>1. DOMAIN offered[sp] = 1 .. Len(offered[sp]) /\ Len(offered[sp]) \in Nat
  OBVIOUS
<1>2. \A i \in 1 .. Len(offered[sp]) : offered[sp][i].words \in Nat
  <2>1. \A i \in 1 .. Len(offered[sp]) : offered[sp][i] \in Packet
    OBVIOUS
  <2> QED
    BY <2>1 DEF Packet
<1>3. ASSUME w \in Due(sp, dp)
      PROVE  /\ w \in Own(sp)
             /\ w[2] \in 1 .. Len(offered[sp]) /\ dp \in offered[sp][w[2]].to
             /\ w[3] \in 1 .. offered[sp][w[2]].words
  <2>1. PICK i \in DOMAIN offered[sp] :
          dp \in offered[sp][i].to /\ w \in {<<sp, i, k>> : k \in 1 .. offered[sp][i].words}
    BY <1>3 DEF Due
  <2>2. PICK k \in 1 .. offered[sp][i].words : w = <<sp, i, k>>
    BY <2>1
  <2>3. i \in 1 .. Len(offered[sp]) /\ i \in Nat /\ k \in Nat
    BY <1>1, <1>2
  <2> QED
    BY <2>1, <2>2, <2>3 DEF Own
<1>4. ASSUME w \in Own(sp), w[2] \in 1 .. Len(offered[sp]), dp \in offered[sp][w[2]].to,
             w[3] \in 1 .. offered[sp][w[2]].words
      PROVE  w \in Due(sp, dp)
  <2>1. w = <<sp, w[2], w[3]>>
    BY <1>4 DEF Own
  <2>2. w \in {<<sp, w[2], k>> : k \in 1 .. offered[sp][w[2]].words}
    BY <1>4, <2>1
  <2> QED
    BY <1>1, <1>4, <2>2 DEF Due
<1> QED
  BY <1>3, <1>4

(* A call adds what it digests to what was digested. *)
LEMMA DigestedGrows ==
  ASSUME MemoryInv, NEW digesting \in SUBSET Ports, CallOf(digesting),
         NEW sp \in Ports, NEW dp \in Ports
  PROVE  Digested(sp, dp)' = Digested(sp, dp) \cup
           (IF sp \in digesting /\ dp \in Mask(sp) THEN {NextWord(sp)} ELSE {})
<1> DEFINE p == next[sp][1]
           k == next[sp][2]
<1>1. UNCHANGED offered /\ offered \in [Ports -> Seq(Packet)]
  BY Given DEF CallOf
<1>2. Due(sp, dp)' = Due(sp, dp)
  BY <1>1 DEF Due
<1>3. Underway(sp) /\ next[sp] \in Nat \X Nat
  BY DEF MemoryInv
<1>4. CASE sp \notin digesting
  <2>1. NextWord(sp)' = NextWord(sp)
    BY <1>4 DEF CallOf, NextWord
  <2> QED
    BY <1>2, <1>4, <2>1 DEF Digested
<1>5. CASE sp \in digesting
  <2>1. /\ p \in 1 .. Len(offered[sp]) /\ NextPacket(sp) \in Packet
        /\ NextWord(sp) \in Own(sp) /\ Mask(sp) = NextPacket(sp).to
        /\ k \in 1 .. NextPacket(sp).words /\ NextPacket(sp).words \in Nat
    BY <1>3, <1>5, Digestible DEF CallOf, Underway, Packet
  <2>2. NextPacket(sp) = offered[sp][p] /\ p \in Nat /\ k \in Nat
    BY <1>3 DEF NextPacket
  <2>3. NextWord(sp)[1] = sp /\ NextWord(sp)[2] = p /\ NextWord(sp)[3] = k
    BY DEF NextWord
  <2>4. \/ k = offered[sp][p].words /\ NextWord(sp)'[2] = p + 1 /\ NextWord(sp)'[3] = 1
        \/ k # offered[sp][p].words /\ NextWord(sp)'[2] = p /\ NextWord(sp)'[3] = k + 1
    <3>1. LastWord(NextWord(sp)) <=> k = offered[sp][p].words
      BY DEF LastWord, NextWord
    <3>2. CASE LastWord(NextWord(sp))
      <4>1. next'[sp] = <<p + 1, 1>>
        BY <1>5, <3>2 DEF CallOf
      <4> QED
        BY <3>1, <3>2, <4>1 DEF NextWord
    <3>3. CASE ~LastWord(NextWord(sp))
      <4>1. next'[sp] = <<p, k + 1>>
        BY <1>5, <3>3 DEF CallOf
      <4> QED
        BY <3>1, <3>3, <4>1 DEF NextWord
    <3> QED
      BY <3>2, <3>3
  <2>5. NextWord(sp) \in Due(sp, dp) <=> dp \in Mask(sp)
    BY <1>1, <2>1, <2>2, <2>3, DueIs
  <2>6. ASSUME NEW w \in Due(sp, dp)
        PROVE  Before(w, NextWord(sp)') <=> Before(w, NextWord(sp)) \/ w = NextWord(sp)
    <3>1. /\ w \in Own(sp) /\ w[2] \in 1 .. Len(offered[sp])
          /\ w[3] \in 1 .. offered[sp][w[2]].words
      BY <1>1, DueIs
    <3>2. w[2] \in Nat /\ w[3] \in Nat /\ w[3] >= 1
          /\ (w[2] = p => w[3] <= offered[sp][p].words)
      BY <2>1, <2>2, <3>1 DEF Own
    <3>3. w = NextWord(sp) <=> w[2] = p /\ w[3] = k
      BY <2>3, <3>1 DEF Own, NextWord
    <3> HIDE DEF p, k
    <3>4. offered[sp][p].words \in Nat /\ k <= offered[sp][p].words
      BY <2>1, <2>2
    <3> QED
      BY <2>2, <2>3, <2>4, <3>2, <3>3, <3>4 DEF Before
  <2> HIDE DEF p, k
  <2>7. Digested(sp, dp)' = {w \in Due(sp, dp) : Before(w, NextWord(sp)')}
    BY <1>2 DEF Digested
  <2> QED
    BY <1>5, <2>5, <2>6, <2>7 DEF Digested
<1> QED
  BY <1>4, <1>5

(* Whatever is digested finds room. *)
NeverFull == \A sp \in Ports : More(sp) => Room(sp)

LEMMA WaitingIs ==
  ASSUME MemoryInv, NEW sp \in Ports, NEW dp \in Ports
  PROVE  Waiting(sp, dp) = View(mem[sp], dp) /\ Waiting(sp, dp) \in Seq(Own(sp))
<1>1. mem[sp].voq[dp] \in Seq(Entries) /\ View(mem[sp], dp) \in Seq(Own(sp))
  BY DEF MemoryInv, Sound, Memory
<1>2. DOMAIN mem[sp].voq[dp] = 1 .. Len(mem[sp].voq[dp])
  BY <1>1
<1> QED
  BY <1>1, <1>2 DEF Waiting, WordOf, View

LEMMA WordsKept ==
  ASSUME MemoryInv, NEW digesting \in SUBSET Ports, CallOf(digesting),
         NeverFull, WordsAccountedFor, MemoryInv'
  PROVE  WordsAccountedFor'
<1> SUFFICES ASSUME NEW sp \in Ports, NEW dp \in Ports
             PROVE  Accounts(tx'[dp], Waiting(sp, dp)', sp, Digested(sp, dp)')
  BY DEF WordsAccountedFor
<1> DEFINE t == tx[dp]
           q == Waiting(sp, dp)
           x == NextWord(sp)
           joins == sp \in digesting /\ dp \in Mask(sp)
           r == Grows(q, joins, x)
           words == Digested(sp, dp) \cup (IF joins THEN {x} ELSE {})
<1>1. /\ q = View(mem[sp], dp) /\ q \in Seq(Own(sp)) /\ t \in Seq(Word)
      /\ Accounts(t, q, sp, Digested(sp, dp))
  BY WaitingIs DEF WordsAccountedFor, MemoryInv
<1>2. Waiting(sp, dp)' = Shrinks(r, dp \in To(sp))
  <2>1. View(mem'[sp], dp) = Shrinks(r, dp \in To(sp))
    <3>1. sp \in digesting => Room(sp)
      BY DEF NeverFull, CallOf
    <3> QED
      BY <1>1, <3>1, CallOnSource
  <2>2. Waiting(sp, dp)' = View(mem'[sp], dp)
    <3>1. storage' = storage
      BY DEF CallOf
    <3>2. mem'[sp].voq[dp] \in Seq(Entries')
      BY DEF MemoryInv, Sound, Memory
    <3>3. DOMAIN mem'[sp].voq[dp] = 1 .. Len(mem'[sp].voq[dp])
      BY <3>2
    <3> QED
      BY <3>1, <3>3 DEF Waiting, WordOf, View
  <2> QED
    BY <2>1, <2>2
<1>3. Digested(sp, dp)' = words
  BY DigestedGrows
<1>4. joins => x \in Own(sp)
  BY Digestible DEF CallOf
<1>5. \A w \in Digested(sp, dp) : Before(w, x)
  BY DEF Digested
<1> HIDE DEF x, joins, q, t
<1>6. r \in Seq(Own(sp)) /\ Accounts(t, r, sp, words)
  <2>1. CASE joins
    BY <1>1, <1>4, <1>5, <2>1, AccountsQueued, Appended DEF Grows
  <2>2. CASE ~joins
    BY <1>1, <2>2 DEF Grows
  <2> QED
    BY <2>1, <2>2
<1>7. CASE dp \in To(sp)
  <2>1. q # <<>> /\ HeadWord(sp, dp) = Head(q)
    BY <1>1, <1>7, Matching, HeadOfView
  <2>2. tx'[dp] = Append(t, Head(q))
    BY <1>7, <2>1 DEF CallOf, t
  <2>3. r # <<>> /\ Head(r) = Head(q)
    <3>1. CASE joins
      BY <1>1, <1>4, <2>1, <3>1, Appended, TailOfAppend DEF Grows
    <3>2. CASE ~joins
      BY <2>1, <3>2 DEF Grows
    <3> QED
      BY <3>1, <3>2
  <2>4. Accounts(Append(t, Head(r)), Tail(r), sp, words)
    <3> HIDE DEF r, words
    <3> QED
      BY <1>1, <1>6, <2>3, AccountsSent
  <2> QED
    BY <1>2, <1>3, <1>7, <2>2, <2>3, <2>4 DEF Shrinks
<1>8. CASE dp \notin To(sp)
  <2>1. Waiting(sp, dp)' = r
    BY <1>2, <1>8 DEF Shrinks
  <2>2. CASE \E s \in Ports : dp \in To(s)
    <3>1. PICK s \in Ports : dp \in To(s)
      BY <2>2
    <3>2. tx'[dp] = Append(t, HeadWord(s, dp))
      BY <3>1 DEF CallOf, t
    <3>3. HeadWord(s, dp) \in Own(s) /\ HeadWord(s, dp) \in Word /\ s # sp
      BY <1>8, <3>1, Matching, HeadOfView
    <3>4. HeadWord(s, dp)[1] # sp
      BY <3>3 DEF Own
    <3> QED
      BY <1>1, <1>3, <1>6, <2>1, <3>2, <3>3, <3>4, AccountsOther
  <2>3. CASE ~ \E s \in Ports : dp \in To(s)
    <3>1. tx'[dp] = t
      BY <2>3 DEF CallOf, t
    <3> QED
      BY <1>3, <1>6, <2>1, <3>1
  <2> QED
    BY <2>2, <2>3
<1> QED
  BY <1>7, <1>8

(* A destination is busy with the source of its last word until that is    *)
(* the last word of its packet.                                            *)
Sending ==
  \A dp \in Ports :
    LET t == tx[dp]
    IN IF t = <<>> \/ LastWord(t[Len(t)]) THEN ~arb.txBusy[dp]
       ELSE arb.txBusy[dp] /\ arb.txServing[dp] = t[Len(t)][1]

LEMMA SendingKept ==
  ASSUME MemoryInv, NEW digesting \in SUBSET Ports, CallOf(digesting), Sending
  PROVE  Sending'
<1> SUFFICES ASSUME NEW dp \in Ports
             PROVE  IF tx'[dp] = <<>> \/ LastWord(tx'[dp][Len(tx'[dp])])
                    THEN ~arb'.txBusy[dp]
                    ELSE arb'.txBusy[dp] /\ arb'.txServing[dp] = tx'[dp][Len(tx'[dp])][1]
  <2>1. UNCHANGED offered
    BY DEF CallOf
  <2> QED
    BY <2>1 DEF Sending, LastWord
<1>1. Follows(arb, Sends(arb, Ready), Ending, arb')
  <2>1. /\ arb \in Registers /\ Ready \in SUBSET (Ports \X Ports)
        /\ Fits(arb, Sends(arb, Ready)) /\ Ending \in SUBSET Sends(arb, Ready)
        /\ arb' = AfterSends(arb, Ready, Sends(arb, Ready), Ending)
    BY Matching DEF MemoryInv, Ending, CallOf
  <2> QED
    BY <2>1, AfterCall
<1>2. tx[dp] \in Seq(Word)
  BY DEF MemoryInv
<1>3. CASE \E sp \in Ports : dp \in To(sp)
  <2>1. PICK sp \in Ports : dp \in To(sp)
    BY <1>3
  <2> DEFINE w == HeadWord(sp, dp)
  <2>2. <<sp, dp>> \in Sends(arb, Ready)
    BY <2>1 DEF To
  <2>3. w \in Word /\ w[1] = sp
    BY <2>1, Matching, HeadOfView DEF Own
  <2>4. <<sp, dp>> \in Ending <=> LastWord(w)
    BY <2>2 DEF Ending
  <2>5. tx'[dp] = Append(tx[dp], w)
    BY <2>1 DEF CallOf
  <2> HIDE DEF w
  <2>6. tx'[dp] # <<>> /\ tx'[dp][Len(tx'[dp])] = w
    BY <1>2, <2>3, <2>5, Appended
  <2>7. CASE LastWord(w)
    <3>1. ~arb'.txBusy[<<sp, dp>>[2]]
      BY <1>1, <2>4, <2>7 DEF Follows
    <3> QED
      BY <2>6, <2>7, <3>1
  <2>8. CASE ~LastWord(w)
    <3>1. /\ arb'.txBusy[<<sp, dp>>[2]]
          /\ arb'.txServing[<<sp, dp>>[2]] = <<sp, dp>>[1]
      BY <1>1, <2>2, <2>4, <2>8 DEF Follows
    <3> QED
      BY <2>3, <2>6, <2>8, <3>1
  <2> QED
    BY <2>7, <2>8
<1>4. CASE ~ \E sp \in Ports : dp \in To(sp)
  <2>1. tx'[dp] = tx[dp]
    BY <1>4 DEF CallOf
  <2>2. \A m \in Sends(arb, Ready) : m[2] # dp
    <3> SUFFICES ASSUME NEW m \in Sends(arb, Ready), m[2] = dp PROVE FALSE
      OBVIOUS
    <3>1. m[1] \in Ports /\ m = <<m[1], dp>>
      BY Matching DEF Fits
    <3> QED
      BY <1>4, <3>1 DEF To
  <2>3. (arb'.txBusy[dp] <=> arb.txBusy[dp]) /\ arb'.txServing[dp] = arb.txServing[dp]
    BY <1>1, <2>2 DEF Follows
  <2> QED
    BY <2>1, <2>3 DEF Sending
<1> QED
  BY <1>3, <1>4

(* The word at the head of a queue follows what its port has got of its    *)
(* source, with no word that is due in between.                            *)
LEMMA NextInLine ==
  ASSUME MemoryInv, WordsAccountedFor, NEW sp \in Ports, NEW dp \in Ports,
         mem[sp].voq[dp] # <<>>
  PROVE  LET w == HeadWord(sp, dp) IN
         /\ w \in Due(sp, dp)
         /\ \A i \in DOMAIN tx[dp] : tx[dp][i][1] = sp =>
              tx[dp][i] \in Due(sp, dp) /\ Before(tx[dp][i], w)
         /\ \A x \in Due(sp, dp) : Before(x, w) => \E i \in DOMAIN tx[dp] : tx[dp][i] = x
<1> DEFINE w == HeadWord(sp, dp)
           q == Waiting(sp, dp)
           t == tx[dp]
           got == {i \in DOMAIN t : t[i][1] = sp}
<1>1. /\ q \in Seq(Own(sp)) /\ q # <<>> /\ w = Head(q)
  BY WaitingIs, HeadOfView
<1>2. w = q[1] /\ 1 \in DOMAIN q /\ DOMAIN q = 1 .. Len(q) /\ Len(q) \in Nat
  BY <1>1, Taken
<1>3. /\ {t[i] : i \in got} \cup Range(q) = Digested(sp, dp)
      /\ \A i \in got, j \in DOMAIN q : Before(t[i], q[j])
      /\ \A i, j \in DOMAIN q : i < j => Before(q[i], q[j])
  BY DEF WordsAccountedFor, Accounts
<1> HIDE DEF w, q, t
<1>4. w \in Digested(sp, dp) /\ \A i \in got : t[i] \in Digested(sp, dp)
  BY <1>2, <1>3 DEF Range
<1>5. \A x \in Digested(sp, dp) : x \in Due(sp, dp) /\ Before(x, NextWord(sp))
  BY DEF Digested
<1>6. ASSUME NEW x \in Due(sp, dp), Before(x, w)
      PROVE  \E i \in DOMAIN t : t[i] = x
  <2>1. offered \in [Ports -> Seq(Packet)] /\ next[sp] \in Nat \X Nat
    BY Given DEF MemoryInv
  <2>2. x \in Own(sp) /\ w \in Own(sp) /\ NextWord(sp) \in Own(sp)
    BY <1>4, <1>5, <2>1, DueIs DEF NextWord, Own
  <2>3. /\ x[2] \in Nat /\ x[3] \in Nat /\ w[2] \in Nat /\ w[3] \in Nat
        /\ NextWord(sp)[2] \in Nat /\ NextWord(sp)[3] \in Nat
    BY <2>2 DEF Own
  <2>4. Before(w, NextWord(sp))
    BY <1>4, <1>5
  <2>5. Before(x, NextWord(sp))
    BY <1>6, <2>3, <2>4 DEF Before
  <2>6. x \in Digested(sp, dp)
    BY <2>5 DEF Digested
  <2>7. x \notin Range(q)
    <3> SUFFICES ASSUME NEW j \in DOMAIN q, x = q[j] PROVE FALSE
      BY DEF Range
    <3>1. CASE j = 1
      BY <1>2, <1>6, <2>3, <3>1 DEF Before
    <3>2. CASE j # 1
      <4>1. Before(w, x)
        BY <1>2, <1>3, <3>2
      <4> QED
        BY <1>6, <2>3, <4>1 DEF Before
    <3> QED
      BY <3>1, <3>2
  <2> QED
    BY <1>3, <2>6, <2>7
<1> QED
  BY <1>2, <1>3, <1>4, <1>5, <1>6 DEF w, t

(* The i-th word of t starts a packet or is the next one of its packet. *)
InTurn(t, i) ==
  IF i = 1 \/ LastWord(t[i - 1]) THEN t[i][3] = 1
  ELSE t[i] = [t[i - 1] EXCEPT ![3] = @ + 1]

LEMMA WholeKept ==
  ASSUME MemoryInv, NEW digesting \in SUBSET Ports, CallOf(digesting),
         WordsAccountedFor, Sending, PacketsWhole
  PROVE  PacketsWhole'
<1>1. UNCHANGED offered /\ offered \in [Ports -> Seq(Packet)]
  BY Given DEF CallOf
<1> SUFFICES ASSUME NEW dp \in Ports, NEW i \in DOMAIN tx'[dp]
             PROVE  InTurn(tx'[dp], i)
  <2>1. ASSUME NEW dp \in Ports, NEW i \in DOMAIN tx'[dp], InTurn(tx'[dp], i)
        PROVE  InTurn(tx[dp], i)'
    <3>1. LastWord(tx[dp][i - 1])' <=> LastWord(tx'[dp][i - 1])
      BY <1>1 DEF LastWord
    <3> QED
      BY <2>1, <3>1, Zenon DEF InTurn
  <2>2. (\A dp \in Ports : \A i \in DOMAIN tx[dp] : InTurn(tx[dp], i))' => PacketsWhole'
    BY Zenon DEF PacketsWhole, InTurn
  <2> QED
    BY <2>1, <2>2
<1> DEFINE t == tx[dp]
           n == Len(t)
<1>2. t \in Seq(Word) /\ n \in Nat /\ DOMAIN t = 1 .. n
  BY DEF MemoryInv
<1>3. \A j \in DOMAIN t : InTurn(t, j)
  BY Zenon DEF PacketsWhole, InTurn
<1>4. CASE ~ \E sp \in Ports : dp \in To(sp)
  <2>1. tx'[dp] = t
    BY <1>4 DEF CallOf
  <2> QED
    BY <1>3, <2>1
<1>5. CASE \E sp \in Ports : dp \in To(sp)
  <2>1. PICK sp \in Ports : dp \in To(sp)
    BY <1>5
  <2> DEFINE w == HeadWord(sp, dp)
             u == tx'[dp]
  <2>2. mem[sp].voq[dp] # <<>> /\ <<sp, dp>> \in Sends(arb, Ready)
    BY <2>1, Matching DEF To
  <2>3. /\ w \in Own(sp) /\ w \in Word /\ w \in Due(sp, dp)
        /\ \A j \in DOMAIN t : t[j][1] = sp => t[j] \in Due(sp, dp) /\ Before(t[j], w)
        /\ \A x \in Due(sp, dp) : Before(x, w) => \E j \in DOMAIN t : t[j] = x
    BY <2>2, HeadOfView, NextInLine
  <2>4. /\ u = Append(t, w) /\ Len(u) = n + 1 /\ u[n + 1] = w
        /\ \A j \in 1 .. n : u[j] = t[j]
    <3>1. u = Append(t, w)
      BY <2>1 DEF CallOf
    <3> QED
      BY <1>2, <2>3, <3>1, Appended
  <2>5. DOMAIN u = (1 .. n) \cup {n + 1}
    BY <1>2, <2>3, <2>4
  <2> HIDE DEF w, u, t, n
  <2>6. CASE i \in 1 .. n
    <3>1. InTurn(t, i)
      BY <1>2, <1>3, <2>6
    <3>2. i = 1 \/ i - 1 \in 1 .. n
      BY <1>2, <2>6
    <3> QED
      BY <2>4, <2>6, <3>1, <3>2 DEF u, InTurn
  \* What is due, as numbers.
  <2>7. \A x : x \in Due(sp, dp) <=>
          /\ x \in Own(sp)
          /\ x[2] \in 1 .. Len(offered[sp]) /\ dp \in offered[sp][x[2]].to
          /\ x[3] \in 1 .. offered[sp][x[2]].words
    BY <1>1, DueIs
  <2>8. \A x \in Due(sp, dp) : /\ x[1] = sp /\ x[2] \in Nat /\ x[3] \in Nat \ {0}
                               /\ offered[sp][x[2]].words \in Nat
                               /\ x[3] <= offered[sp][x[2]].words
                               /\ x = <<sp, x[2], x[3]>>
                               /\ LastWord(x) <=> x[3] = offered[sp][x[2]].words
    <3> SUFFICES ASSUME NEW x \in Due(sp, dp)
                 PROVE  /\ x[1] = sp /\ x[2] \in Nat /\ x[3] \in Nat \ {0}
                        /\ offered[sp][x[2]].words \in Nat
                        /\ x[3] <= offered[sp][x[2]].words
                        /\ x = <<sp, x[2], x[3]>>
                        /\ LastWord(x) <=> x[3] = offered[sp][x[2]].words
      OBVIOUS
    <3>1. /\ x \in Own(sp) /\ x[2] \in 1 .. Len(offered[sp])
          /\ x[3] \in 1 .. offered[sp][x[2]].words
      BY <2>7
    <3>2. offered[sp][x[2]] \in Packet
      BY <1>1, <3>1
    <3> QED
      BY <3>1, <3>2 DEF Own, Packet, LastWord
  <2>9. ASSUME NEW x \in Due(sp, dp), x[3] < offered[sp][x[2]].words
        PROVE  /\ [x EXCEPT ![3] = @ + 1] \in Due(sp, dp)
               /\ [x EXCEPT ![3] = @ + 1] = <<sp, x[2], x[3] + 1>>
               /\ Before(x, [x EXCEPT ![3] = @ + 1])
    <3> DEFINE y == <<sp, x[2], x[3] + 1>>
    <3>1. y[1] = sp /\ y[2] = x[2] /\ y[3] = x[3] + 1
      OBVIOUS
    <3>2. [x EXCEPT ![3] = @ + 1] = y
      BY <2>8
    <3>3. y \in Own(sp) /\ y[3] \in 1 .. offered[sp][x[2]].words
      BY <2>8, <2>9 DEF Own
    <3>4. y \in Due(sp, dp)
      BY <2>7, <3>1, <3>3
    <3>5. Before(x, y)
      BY <2>8, <3>1 DEF Before
    <3> QED
      BY <3>2, <3>4, <3>5
  \* At the start of a packet: an earlier word of it would have been sent,
  \* and then this one right after it.
  <2>10. ASSUME i = n + 1, n = 0 \/ LastWord(t[n])
         PROVE  w[3] = 1
    <3> SUFFICES ASSUME w[3] # 1 PROVE FALSE
      OBVIOUS
    <3> DEFINE x == <<sp, w[2], w[3] - 1>>
    <3>1. x[1] = sp /\ x[2] = w[2] /\ x[3] = w[3] - 1
      OBVIOUS
    <3>2. x \in Own(sp) /\ x[3] \in 1 .. offered[sp][w[2]].words
      BY <2>3, <2>8 DEF Own
    <3>3. x \in Due(sp, dp) /\ x[3] < offered[sp][x[2]].words /\ Before(x, w)
      BY <2>3, <2>7, <2>8, <3>1, <3>2 DEF Before
    <3>4. [x EXCEPT ![3] = @ + 1] = w
      <4>1. [x EXCEPT ![3] = @ + 1] = <<sp, x[2], x[3] + 1>>
        BY <2>9, <3>3
      <4>2. w = <<sp, w[2], w[3]>> /\ w[3] \in Nat
        BY <2>3, <2>8
      <4> QED
        BY <3>1, <4>1, <4>2
    <3> HIDE DEF x
    <3>5. PICK j \in 1 .. n : t[j] = x
      BY <1>2, <2>3, <3>3
    <3>6. ~LastWord(x)
      BY <2>8, <3>3
    <3>7. j + 1 \in 1 .. n /\ (j + 1) - 1 = j /\ j + 1 # 1
      BY <1>2, <2>10, <3>5, <3>6
    <3>8. t[j + 1] = w
      BY <1>2, <1>3, <3>4, <3>5, <3>6, <3>7 DEF InTurn
    <3>9. Before(w, w)
      BY <1>2, <2>3, <2>8, <3>7, <3>8
    <3> QED
      BY <2>3, <2>8, <3>9 DEF Before
  \* In the middle of a packet: the port is held for its source, whose next
  \* word it is.
  <2>11. ASSUME i = n + 1, n # 0, ~LastWord(t[n])
         PROVE  w = [t[n] EXCEPT ![3] = @ + 1]
    <3>1. arb.txBusy[dp] /\ arb.txServing[dp] = t[n][1]
      <4>1. t # <<>>
        BY <2>11 DEF n
      <4> QED
        BY <2>11, <4>1 DEF Sending, t, n
    <3>2. sp = t[n][1]
      <4>1. \A m \in Sends(arb, Ready) : arb.txBusy[m[2]] => m[1] = arb.txServing[m[2]]
        BY Matching DEF Fits
      <4>2. <<sp, dp>>[1] = arb.txServing[<<sp, dp>>[2]]
        BY <2>2, <3>1, <4>1
      <4> QED
        BY <3>1, <4>2
    <3>3. n \in DOMAIN t /\ t[n] \in Due(sp, dp) /\ Before(t[n], w)
      BY <1>2, <2>3, <2>11, <3>2
    <3> DEFINE x == [t[n] EXCEPT ![3] = @ + 1]
    <3>4. t[n][3] < offered[sp][t[n][2]].words
      BY <2>8, <2>11, <3>3
    <3>5. x \in Due(sp, dp) /\ x = <<sp, t[n][2], t[n][3] + 1>> /\ Before(t[n], x)
      BY <2>9, <3>3, <3>4
    <3> HIDE DEF x
    <3>6. x[2] = t[n][2] /\ x[3] = t[n][3] + 1
      BY <3>5
    <3>7. x = w \/ Before(x, w)
      BY <2>3, <2>8, <3>3, <3>5, <3>6 DEF Before
    <3>8. ~Before(x, w)
      <4> SUFFICES ASSUME Before(x, w) PROVE FALSE
        OBVIOUS
      <4>1. PICK j \in 1 .. n : t[j] = x
        BY <1>2, <2>3, <3>5
      <4>2. j # n
        BY <2>8, <3>3, <3>6, <4>1
      <4>3. Before(x, t[n])
        <5>1. \A a, b \in {k \in DOMAIN t : t[k][1] = sp} : a < b => Before(t[a], t[b])
          BY DEF WordsAccountedFor, Accounts, t
        <5>2. t[j][1] = sp
          BY <2>8, <3>5, <4>1
        <5>3. j \in DOMAIN t /\ j < n
          BY <1>2, <4>2
        <5> QED
          BY <3>2, <3>3, <4>1, <5>1, <5>2, <5>3
      <4> QED
        BY <2>8, <3>3, <3>5, <3>6, <4>3 DEF Before
    <3> QED
      BY <3>7, <3>8 DEF x
  <2>12. CASE i = n + 1
    <3>1. n = 0 \/ n \in 1 .. n
      BY <1>2
    <3>2. i - 1 = n /\ (i = 1 <=> n = 0)
      BY <1>2, <2>12
    <3> QED
      BY <2>4, <2>10, <2>11, <2>12, <3>1, <3>2 DEF u, InTurn
  <2> QED
    BY <2>5, <2>6, <2>12 DEF u
<1> QED
  BY <1>4, <1>5

-------------------------------------------------------------------------------
(* Inductive as long as no ring wraps: which packet holds a destination    *)
(* says why the word that comes next is the next one.                      *)
WordsInv == WordsAccountedFor /\ Sending /\ PacketsWhole

LEMMA InitWords == Init => WordsInv
<1> SUFFICES ASSUME Init PROVE WordsInv
  OBVIOUS
<1>1. MemoryInv
  BY InitMemory
<1>2. \A dp \in Ports : tx[dp] = <<>>
  BY DEF Init
<1>3. DOMAIN (<<>>) = {}
  OBVIOUS
<1>4. ASSUME NEW sp \in Ports, NEW dp \in Ports
      PROVE  Accounts(tx[dp], Waiting(sp, dp), sp, Digested(sp, dp))
  <2>1. DOMAIN Waiting(sp, dp) = {}
    <3>1. mem[sp].voq[dp] = <<>>
      BY DEF Init
    <3> QED
      BY <1>3, <3>1 DEF Waiting
  <2>2. Range(Waiting(sp, dp)) = {}
    BY <2>1 DEF Range
  <2>3. Digested(sp, dp) = {}
    <3> SUFFICES ASSUME NEW w \in Due(sp, dp), Before(w, NextWord(sp)) PROVE FALSE
      BY DEF Digested
    <3>1. NextWord(sp)[2] = 1 /\ NextWord(sp)[3] = 1
      BY DEF Init, NextWord
    <3>2. /\ w[2] \in 1 .. Len(offered[sp]) /\ w[3] \in 1 .. offered[sp][w[2]].words
          /\ w \in Own(sp)
      BY <1>1, Given, DueIs
    <3>3. w[2] \in Nat \ {0} /\ w[3] \in Nat /\ w[3] >= 1
      BY <3>2 DEF Own
    <3> QED
      BY <3>1, <3>3 DEF Before
  <2> QED
    BY <1>2, <1>3, <2>1, <2>2, <2>3 DEF Accounts
<1>5. Sending
  <2>1. \A dp \in Ports : ~arb.txBusy[dp]
    BY DEF Init, AfterReset
  <2> QED
    BY <1>2, <2>1 DEF Sending
<1>6. PacketsWhole
  BY <1>2, <1>3 DEF PacketsWhole
<1> QED
  BY <1>4, <1>5, <1>6 DEF WordsInv, WordsAccountedFor

LEMMA WordsInvKept ==
  MemoryInv /\ MemoryInv' /\ NeverFull /\ WordsInv /\ [Next]_vars => WordsInv'
<1> SUFFICES ASSUME MemoryInv, MemoryInv', NeverFull, WordsInv, [Next]_vars
             PROVE  WordsInv'
  OBVIOUS
<1>1. CASE Call
  <2>1. PICK digesting \in SUBSET Ports : CallOf(digesting)
    BY <1>1, CallIs
  <2> QED
    BY <2>1, WordsKept, SendingKept, WholeKept DEF WordsInv
<1>2. CASE UNCHANGED <<storage, offered, next, digest, held, mem, arb, tx>>
  <2>1. WordsAccountedFor'
    <3>1. \A sp, dp \in Ports : Waiting(sp, dp)' = Waiting(sp, dp)
      BY <1>2 DEF Waiting, WordOf
    <3>2. \A sp, dp \in Ports : Digested(sp, dp)' = Digested(sp, dp)
      BY <1>2 DEF Digested, Due, NextWord
    <3> QED
      BY <1>2, <3>1, <3>2 DEF WordsInv, WordsAccountedFor
  <2>2. Sending'
    BY <1>2 DEF WordsInv, Sending, LastWord
  <2>3. PacketsWhole'
    BY <1>2 DEF WordsInv, PacketsWhole, LastWord
  <2> QED
    BY <2>1, <2>2, <2>3 DEF WordsInv
<1> QED
  BY <1>1, <1>2 DEF Next, Settle, vars

(* As long as whatever is digested finds room: no word is lost, doubled,   *)
(* misdirected or overtaken between the digest and the wire, for any       *)
(* number of ports, arbiter, depth and traffic.  Only the rings of         *)
(* scheduler_nb1p.cpp can be full, and it does not look.                   *)
THEOREM NothingLost == Spec /\ []NeverFull => []WordsAccountedFor
<1>1. Spec => []MemoryInv
  BY InitMemory, MemoryKept, PTL DEF Spec
<1>2. WordsInv => WordsAccountedFor
  BY DEF WordsInv
<1> QED
  BY <1>1, <1>2, InitWords, WordsInvKept, PTL DEF Spec

(* And no packet is torn apart on its way. *)
THEOREM NothingTorn == Spec /\ []NeverFull => []PacketsWhole
<1>1. Spec => []MemoryInv
  BY InitMemory, MemoryKept, PTL DEF Spec
<1>2. WordsInv => PacketsWhole
  BY DEF WordsInv
<1> QED
  BY <1>1, <1>2, InitWords, WordsInvKept, PTL DEF Spec

-------------------------------------------------------------------------------
(* When that is so: the shared buffer looks before it digests, and the     *)
(* rings per pair suffice for traffic with fewer words than entries for    *)
(* every pair.                                                             *)
Fitting ==
  storage = "shared" \/ \A sp, dp \in Ports : Cardinality(Due(sp, dp)) < Depth

LEMMA DueFinite ==
  ASSUME offered \in [Ports -> Seq(Packet)], NEW sp \in Ports, NEW dp \in Ports
  PROVE  IsFiniteSet(Due(sp, dp))
<1> DEFINE I == {j \in DOMAIN offered[sp] : dp \in offered[sp][j].to}
           words(i) == {<<sp, i, k>> : k \in 1 .. offered[sp][i].words}
           all == [i \in I |-> words(i)]
<1>1. DOMAIN offered[sp] = 1 .. Len(offered[sp]) /\ Len(offered[sp]) \in Nat
  OBVIOUS
<1>2. IsFiniteSet(I)
  <2>1. IsFiniteSet(1 .. Len(offered[sp])) /\ I \in SUBSET (1 .. Len(offered[sp]))
    BY <1>1, FS_Interval
  <2> QED
    BY <2>1, FS_Subset
<1>3. ASSUME NEW i \in I
      PROVE  IsFiniteSet(words(i))
  <2> DEFINE n == offered[sp][i].words
             number == [k \in 1 .. n |-> <<sp, i, k>>]
  <2>1. n \in Nat
    <3>1. offered[sp][i] \in Packet
      BY <1>1
    <3> QED
      BY <3>1 DEF Packet
  <2>2. IsFiniteSet(1 .. n)
    BY <2>1, FS_Interval
  <2>3. number \in Surjection(1 .. n, words(i))
    BY DEF Surjection
  <2> QED
    BY <2>2, <2>3, FS_Surjection
<1>4. Due(sp, dp) = UNION {words(i) : i \in I}
  BY DEF Due
<1> HIDE DEF I, words
<1>5. all \in Surjection(I, {words(i) : i \in I})
  BY DEF Surjection
<1>6. IsFiniteSet({words(i) : i \in I})
  BY <1>2, <1>5, FS_Surjection
<1> QED
  BY <1>3, <1>4, <1>6, FS_UNION

LEMMA FittingHasRoom ==
  ASSUME MemoryInv, WordsAccountedFor, Fitting
  PROVE  NeverFull
<1> SUFFICES ASSUME NEW sp \in Ports, More(sp), storage = "perPair", NEW dp \in Mask(sp)
             PROVE  Len(mem[sp].voq[dp]) < Depth - 1
  BY DEF NeverFull, Room
<1> DEFINE q == Waiting(sp, dp)
           x == NextWord(sp)
           D == Due(sp, dp)
<1>1. /\ dp \in Ports /\ x \in Own(sp) /\ NextPacket(sp) \in Packet
      /\ next[sp][1] \in 1 .. Len(offered[sp]) /\ dp \in NextPacket(sp).to
      /\ offered \in [Ports -> Seq(Packet)]
  BY Digestible, Given
<1>2. x \in D
  <2>1. next[sp][2] \in 1 .. NextPacket(sp).words
    BY DEF MemoryInv, Underway
  <2>2. x[2] = next[sp][1] /\ x[3] = next[sp][2] /\ NextPacket(sp) = offered[sp][next[sp][1]]
    BY DEF NextWord, NextPacket
  <2> QED
    BY <1>1, <2>1, <2>2, DueIs
<1>3. IsFiniteSet(D) /\ Cardinality(D) < Depth /\ Cardinality(D) \in Nat
  BY <1>1, DueFinite, FS_CardinalityType DEF Fitting
<1>4. IsFiniteSet(D \ {x}) /\ Cardinality(D \ {x}) = Cardinality(D) - 1
  BY <1>2, <1>3, FS_RemoveElement
<1>5. /\ q \in Seq(Own(sp)) /\ Len(q) \in Nat /\ DOMAIN q = 1 .. Len(q)
  BY <1>1, WaitingIs
<1>6. /\ Range(q) \subseteq Digested(sp, dp)
      /\ \A i, j \in DOMAIN q : i < j => Before(q[i], q[j])
  BY <1>1 DEF WordsAccountedFor, Accounts
<1>7. \A w \in Own(sp) : ~Before(w, w)
  <2>1. \A w \in Own(sp) : w[2] \in Nat /\ w[3] \in Nat
    BY DEF Own
  <2> QED
    BY <2>1 DEF Before
<1>8. \A i \in 1 .. Len(q) : q[i] \in D \ {x}
  <2> SUFFICES ASSUME NEW i \in 1 .. Len(q) PROVE q[i] \in D /\ q[i] # x
    OBVIOUS
  <2>1. q[i] \in Digested(sp, dp)
    BY <1>5, <1>6 DEF Range
  <2>2. q[i] \in D /\ Before(q[i], x)
    BY <2>1 DEF Digested
  <2> QED
    BY <1>1, <1>7, <2>2
<1> HIDE DEF q, x, D
<1>9. q \in Injection(1 .. Len(q), D \ {x})
  <2>1. \A i, j \in 1 .. Len(q) : q[i] = q[j] => i = j
    <3> SUFFICES ASSUME NEW i \in 1 .. Len(q), NEW j \in 1 .. Len(q), q[i] = q[j], i < j
                 PROVE  FALSE
      BY <1>5
    <3>1. q[i] \in Own(sp)
      BY <1>5
    <3> QED
      BY <1>5, <1>6, <1>7, <3>1
  <2>2. q \in [1 .. Len(q) -> D \ {x}]
    BY <1>5, <1>8
  <2> QED
    BY <2>1, <2>2 DEF Injection, IsInjective
<1>10. Cardinality(1 .. Len(q)) = Len(q)
  BY <1>5, FS_Interval
<1>11. Len(q) <= Cardinality(D) - 1
  <2>1. Cardinality(1 .. Len(q)) <= Cardinality(D \ {x})
    BY <1>4, <1>9, FS_Injection
  <2> QED
    BY <1>4, <1>10, <2>1
<1>12. Len(q) = Len(mem[sp].voq[dp])
  <2>1. mem[sp].voq[dp] \in Seq(Entries)
    BY <1>1 DEF MemoryInv, Sound, Memory
  <2>2. q = [i \in 1 .. Len(mem[sp].voq[dp]) |-> WordOf(sp, mem[sp].voq[dp][i])]
    BY <2>1 DEF q, Waiting
  <2> QED
    BY <2>1, <2>2
<1> QED
  BY <1>3, <1>5, <1>11, <1>12, Sizes

LEMMA FittingInv == Spec /\ Fitting => [](WordsInv /\ MemoryInv)
<1>1. Spec => []MemoryInv
  BY InitMemory, MemoryKept, PTL DEF Spec
<1>2. Fitting /\ [Next]_vars => Fitting'
  <2>1. [Next]_vars => UNCHANGED <<storage, offered>>
    BY DEF Next, Call, Settle, vars
  <2>2. UNCHANGED offered => \A sp, dp \in Ports : Due(sp, dp)' = Due(sp, dp)
    BY DEF Due
  <2> QED
    BY <2>1, <2>2 DEF Fitting
<1>3. MemoryInv /\ MemoryInv' /\ Fitting /\ WordsInv /\ [Next]_vars => WordsInv'
  BY FittingHasRoom, WordsInvKept DEF WordsInv
<1> QED
  BY <1>1, <1>2, <1>3, InitWords, PTL DEF Spec

(* So scheduler.cpp and scheduler_iSLIP.cpp account for every word of any  *)
(* traffic, and scheduler_nb1p.cpp for those of traffic that fits.         *)
THEOREM FittingLosesNothing == Spec /\ Fitting => []WordsAccountedFor
<1>1. WordsInv => WordsAccountedFor
  BY DEF WordsInv
<1> QED
  BY <1>1, FittingInv, PTL

(* And they keep the words of every packet together. *)
THEOREM FittingTearsNothing == Spec /\ Fitting => []PacketsWhole
<1>1. WordsInv => PacketsWhole
  BY DEF WordsInv
<1> QED
  BY <1>1, FittingInv, PTL
===============================================================================
