----------------------------- MODULE NetworkProofs -----------------------------
(***************************************************************************)
(* Theorems about Topology and NetworkSimulator, for every topology, trace *)
(* and limit, every delay and every latency of the switches.               *)
(***************************************************************************)
EXTENDS NetworkSimulator, FiniteSetTheorems, NaturalsInduction, WellFoundedInduction, TLAPS

(* Induction, and functions defined by recursion, on the numbers up to n.  *)
LEMMA LeastNumber ==
  ASSUME NEW T \in SUBSET Nat, T # {}
  PROVE  \E m \in T : \A n \in T : m <= n
<1>1. PICK x \in T : \A y \in T : ~(<<y, x>> \in OpToRel(<, Nat))
  BY NatLessThanWellFounded, WFMin
<1>2. \A x1, y1 \in Nat : x1 < y1 => <<x1, y1>> \in OpToRel(<, Nat)
  BY DEF OpToRel
<1>3. \A y \in T : ~(y < x)
  BY <1>1, <1>2
<1> QED
  BY <1>3

LEMMA Induct ==
  ASSUME NEW n \in Nat, NEW T, 0 \in T, \A k \in 0 .. n - 1 : k \in T => k + 1 \in T
  PROVE  \A k \in 0 .. n : k \in T
<1> DEFINE U == {k \in 0 .. n : k \notin T}
<1>1. SUFFICES ASSUME U # {} PROVE FALSE
  OBVIOUS
<1>2. PICK m \in U : \A k \in U : m <= k
  <2>1. U \in SUBSET Nat
    OBVIOUS
  <2> HIDE DEF U
  <2> QED
    BY <1>1, <2>1, LeastNumber
<1>3. m # 0 /\ m - 1 \in 0 .. n - 1 /\ (m - 1) + 1 = m
  OBVIOUS
<1>4. m - 1 \notin U
  BY <1>2, <1>3
<1>5. m - 1 \in T
  BY <1>3, <1>4
<1> QED
  BY <1>3, <1>5

IsStep(step, S) == step \in [S \X Nat -> S]

Iterates(f, S, start, step, n) ==
  f \in [0 .. n -> S] /\ f[0] = start /\ \A k \in 1 .. n : f[k] = step[<<f[k - 1], k>>]

LEMMA Recursion ==
  ASSUME NEW S, NEW start \in S, NEW n \in Nat, NEW step, IsStep(step, S)
  PROVE  \E f : Iterates(f, S, start, step, n)
<1> DEFINE Is(f, m) == Iterates(f, S, start, step, m)
           T == {m \in Nat : \E f : Is(f, m)}
<1>1. 0 \in T
  <2>1. Is([k \in 0 .. 0 |-> start], 0)
    BY DEF Iterates
  <2> QED
    BY <2>1
<1>2. ASSUME NEW m \in Nat, m \in T PROVE m + 1 \in T
  <2>1. PICK f : Is(f, m)
    BY <1>2
  <2> DEFINE g == [k \in 0 .. m + 1 |-> IF k = m + 1 THEN step[<<f[m], m + 1>>] ELSE f[k]]
  <2>2. f[m] \in S /\ step[<<f[m], m + 1>>] \in S
    BY <2>1 DEF Iterates, IsStep
  <2>3. /\ g \in [0 .. m + 1 -> S] /\ g[0] = start /\ g[m + 1] = step[<<f[m], m + 1>>]
        /\ \A k \in 0 .. m : g[k] = f[k]
    BY <2>1, <2>2 DEF Iterates
  <2> HIDE DEF g
  <2>4. ASSUME NEW k \in 1 .. m + 1 PROVE g[k] = step[<<g[k - 1], k>>]
    <3>1. CASE k = m + 1
      BY <2>3, <3>1
    <3>2. CASE k # m + 1
      <4>1. k \in 1 .. m /\ k \in 0 .. m /\ k - 1 \in 0 .. m
        BY <3>2
      <4> QED
        BY <2>1, <2>3, <4>1 DEF Iterates
    <3> QED
      BY <3>1, <3>2
  <2>5. Is(g, m + 1)
    BY <2>3, <2>4 DEF Iterates
  <2> HIDE DEF Is
  <2> QED
    BY <2>5
<1> HIDE DEF T
<1>3. n \in 0 .. n /\ \A k \in 0 .. n - 1 : k \in T => k + 1 \in T
  BY <1>2
<1>4. n \in T
  BY <1>1, <1>3, Induct
<1> QED
  BY <1>4 DEF T

LEMMA StaysIn ==
  ASSUME NEW S, NEW n \in Nat, NEW g, DOMAIN g = 0 .. n, g[0] \in S,
         \A k \in 1 .. n : g[k - 1] \in S => g[k] \in S
  PROVE  \A k \in 0 .. n : g[k] \in S
<1> DEFINE T == {k \in 0 .. n : g[k] \in S}
<1>1. 0 \in T
  OBVIOUS
<1>2. ASSUME NEW k \in 0 .. n - 1, k \in T PROVE k + 1 \in T
  <2>1. k + 1 \in 1 .. n /\ k + 1 \in 0 .. n /\ (k + 1) - 1 = k
    OBVIOUS
  <2> QED
    BY <1>2, <2>1
<1> HIDE DEF T
<1>3. \A k \in 0 .. n : k \in T
  BY <1>1, <1>2, Induct
<1> QED
  BY <1>3 DEF T

Hops(links) == [from : Nodes(links), out : Nat, to : Nodes(links), in : Nat]
Trees(links) == UNION {[D -> Hops(links)] : D \in SUBSET Nodes(links)}
Searches(links) == [queue : Seq(Nodes(links)), parent : Trees(links)]

VisitedUpTo(links, node, search) ==
  CHOOSE after : after = [n \in 0 .. Len(links) |->
                            IF n = 0 THEN search ELSE Visit(links[n], node, after[n - 1])]

LEMMA VisitAllIs ==
  ASSUME NEW links, NEW node, NEW search
  PROVE  VisitAll(links, node, search) = VisitedUpTo(links, node, search)[Len(links)]
  BY DEF VisitAll, VisitedUpTo

LEMMA ConnectionsOf ==
  ASSUME NEW links \in Seq(Connections), NEW conn \in Range(links)
  PROVE  /\ conn \in Connections
         /\ \A k \in {1, 2} : conn[k] \in End /\ conn[k].node \in Nodes(links)
<1>1. PICK n \in DOMAIN links : conn = links[n]
  BY DEF Range
<1>2. conn \in Connections
  BY <1>1
<1>3. \A k \in {1, 2} : conn[k] \in End /\ conn[k] \in Ends(links)
  BY <1>2 DEF Connections, Ends
<1> QED
  BY <1>2, <1>3 DEF Nodes

LEMMA HopType ==
  ASSUME NEW links \in Seq(Connections), NEW conn \in Range(links), NEW node, Joins(conn, node)
  PROVE  /\ Hop(conn, node) \in Hops(links)
         /\ Hop(conn, node).from = node
         /\ Hop(conn, node).to = Across(conn, node).node
  BY ConnectionsOf DEF Hop, Hops, At, Across, Joins, End

LEMMA VisitNew ==
  ASSUME NEW links \in Seq(Connections), NEW conn \in Range(links), NEW node,
         NEW x \in Searches(links), NewNeighbour(conn, node, x.parent),
         NEW hop, hop = Hop(conn, node), NEW y, y = Visit(conn, node, x)
  PROVE  /\ y \in Searches(links)
         /\ hop.to = Across(conn, node).node
         /\ hop.to \notin DOMAIN x.parent
         /\ DOMAIN y.parent = DOMAIN x.parent \cup {hop.to}
         /\ y.parent[hop.to] = hop
         /\ \A z \in DOMAIN x.parent : y.parent[z] = x.parent[z]
         /\ y.queue = Append(x.queue, hop.to)
<1> DEFINE p == Recorded(x.parent, hop)
<1>1. hop \in Hops(links) /\ hop.to = Across(conn, node).node /\ hop.to \in Nodes(links)
  BY HopType DEF NewNeighbour, Hops
<1>2. x.queue \in Seq(Nodes(links)) /\ x.parent \in Trees(links)
  BY DEF Searches
<1>3. PICK D \in SUBSET Nodes(links) : x.parent \in [D -> Hops(links)]
  BY <1>2 DEF Trees
<1>4. /\ DOMAIN p = DOMAIN x.parent \cup {hop.to} /\ p[hop.to] = hop
      /\ \A z \in DOMAIN x.parent : hop.to # z => p[z] = x.parent[z]
      /\ p \in [D \cup {hop.to} -> Hops(links)]
  BY <1>1, <1>3 DEF Recorded
<1>5. p \in Trees(links)
  BY <1>1, <1>4 DEF Trees
<1>6. hop.to \notin DOMAIN x.parent
  BY <1>1 DEF NewNeighbour
<1>7. y = [queue |-> Append(x.queue, hop.to), parent |-> p]
  BY DEF Visit
<1> HIDE DEF p
<1>8. Append(x.queue, hop.to) \in Seq(Nodes(links))
  BY <1>1, <1>2
<1>9. \A z \in DOMAIN x.parent : p[z] = x.parent[z]
  BY <1>4, <1>6
<1>10. y \in Searches(links)
  BY <1>5, <1>7, <1>8 DEF Searches
<1>11. y.parent = p /\ y.queue = Append(x.queue, hop.to)
  BY <1>7
<1> QED
  BY <1>1, <1>4, <1>6, <1>9, <1>10, <1>11

LEMMA VisitType ==
  ASSUME NEW links \in Seq(Connections), NEW conn \in Range(links), NEW node,
         NEW x \in Searches(links)
  PROVE  Visit(conn, node, x) \in Searches(links)
<1>1. CASE NewNeighbour(conn, node, x.parent)
  BY <1>1, VisitNew
<1>2. CASE ~NewNeighbour(conn, node, x.parent)
  BY <1>2 DEF Visit
<1> QED
  BY <1>1, <1>2

LEMMA VisitedIs ==
  ASSUME NEW links \in Seq(Connections), NEW node, NEW search \in Searches(links)
  PROVE  LET f == VisitedUpTo(links, node, search)
         IN /\ f \in [0 .. Len(links) -> Searches(links)] /\ f[0] = search
            /\ \A n \in 1 .. Len(links) : f[n] = Visit(links[n], node, f[n - 1])
<1> DEFINE S == Searches(links)
           step == [x \in S \X Nat |->
                      IF x[2] \in DOMAIN links THEN Visit(links[x[2]], node, x[1]) ELSE x[1]]
           Values(f) == [n \in 0 .. Len(links) |->
                           IF n = 0 THEN search ELSE Visit(links[n], node, f[n - 1])]
           g == VisitedUpTo(links, node, search)
<1>1. Len(links) \in Nat /\ \A n \in DOMAIN links : links[n] \in Range(links)
  BY DEF Range
<1>2. IsStep(step, S)
  BY <1>1, VisitType DEF IsStep
<1>3. PICK f : Iterates(f, S, search, step, Len(links))
  <2> HIDE DEF step
  <2> QED
    BY <1>1, <1>2, Recursion
<1>4. \A k \in 1 .. Len(links) : f[k] = Visit(links[k], node, f[k - 1])
  <2> SUFFICES ASSUME NEW k \in 1 .. Len(links) PROVE f[k] = Visit(links[k], node, f[k - 1])
    OBVIOUS
  <2>1. k - 1 \in 0 .. Len(links) /\ k \in DOMAIN links /\ k \in Nat
    BY <1>1
  <2>2. <<f[k - 1], k>> \in S \X Nat
    BY <1>3, <2>1 DEF Iterates
  <2> QED
    BY <1>3, <2>1, <2>2 DEF Iterates
<1>5. f = Values(f)
  BY <1>1, <1>3, <1>4 DEF Iterates
<1>6. g = Values(g)
  BY <1>5 DEF VisitedUpTo
<1> HIDE DEF g
<1>7. /\ g = [n \in 0 .. Len(links) |-> g[n]] /\ g[0] = search
      /\ \A n \in 1 .. Len(links) : g[n] = Visit(links[n], node, g[n - 1])
  BY <1>1, <1>6
<1>8. \A n \in 1 .. Len(links) : g[n - 1] \in S => g[n] \in S
  BY <1>1, <1>7, VisitType
<1>9. \A n \in 0 .. Len(links) : g[n] \in S
  <2> HIDE DEF S
  <2>1. search \in S
    BY DEF S
  <2> QED
    BY <1>1, <1>7, <1>8, <2>1, StaysIn
<1> QED
  BY <1>7, <1>9 DEF g

-------------------------------------------------------------------------------
LEMMA NodesFinite ==
  ASSUME NEW links \in Seq(Connections)
  PROVE  IsFiniteSet(Nodes(links))
<1> DEFINE first  == [n \in DOMAIN links |-> links[n][1].node]
           second == [n \in DOMAIN links |-> links[n][2].node]
           A == {first[n] : n \in DOMAIN links}
           B == {second[n] : n \in DOMAIN links}
<1>1. IsFiniteSet(DOMAIN links)
  BY FS_Interval
<1>2. first \in Surjection(DOMAIN links, A) /\ second \in Surjection(DOMAIN links, B)
  BY DEF Surjection
<1> HIDE DEF first, second
<1>3. IsFiniteSet(A) /\ IsFiniteSet(B)
  <2> HIDE DEF A, B
  <2> QED
    BY <1>1, <1>2, FS_Surjection
<1>4. IsFiniteSet(A \cup B)
  BY <1>3, FS_Union
<1>5. Nodes(links) \subseteq A \cup B
  <2> SUFFICES ASSUME NEW x \in Nodes(links) PROVE x \in A \cup B
    OBVIOUS
  <2>1. PICK n \in DOMAIN links : x \in {links[n][1].node, links[n][2].node}
    BY DEF Nodes, Ends, Range
  <2> QED
    BY <2>1 DEF first, second
<1> QED
  BY <1>4, <1>5, FS_Subset

LinkHop(links, hop) ==
  \E conn \in Range(links) : Joins(conn, hop.from) /\ Hop(conn, hop.from) = hop

(* What the loop over the connections at node has made of a search. *)
Visited(links, node, x, y, seen) ==
  /\ x \in Searches(links) /\ y \in Searches(links)
  /\ DOMAIN y.parent = DOMAIN x.parent \cup seen
  /\ \A z \in DOMAIN x.parent : y.parent[z] = x.parent[z]
  /\ \A z \in DOMAIN y.parent \ DOMAIN x.parent :
       LET hop == y.parent[z] IN hop.from = node /\ hop.to = z /\ LinkHop(links, hop)
  /\ Len(x.queue) <= Len(y.queue)
  /\ \A k \in 1 .. Len(x.queue) : y.queue[k] = x.queue[k]
  /\ \A k \in Len(x.queue) + 1 .. Len(y.queue) : y.queue[k] \in DOMAIN y.parent \ DOMAIN x.parent
  /\ \A z \in DOMAIN y.parent \ DOMAIN x.parent :
       \E k \in Len(x.queue) + 1 .. Len(y.queue) : y.queue[k] = z
  /\ Cardinality(DOMAIN y.parent) - Len(y.queue) = Cardinality(DOMAIN x.parent) - Len(x.queue)

LEMMA SearchFinite ==
  ASSUME NEW links \in Seq(Connections), NEW x \in Searches(links)
  PROVE  /\ IsFiniteSet(DOMAIN x.parent) /\ Cardinality(DOMAIN x.parent) \in Nat
         /\ Cardinality(DOMAIN x.parent) <= Cardinality(Nodes(links))
         /\ Cardinality(Nodes(links)) \in Nat
         /\ x.queue \in Seq(Nodes(links)) /\ Len(x.queue) \in Nat
         /\ \A z \in DOMAIN x.parent : x.parent[z] \in Hops(links)
<1>1. x.queue \in Seq(Nodes(links)) /\ x.parent \in Trees(links)
  BY DEF Searches
<1>2. PICK D \in SUBSET Nodes(links) : x.parent \in [D -> Hops(links)]
  BY <1>1 DEF Trees
<1>3. DOMAIN x.parent \in SUBSET Nodes(links)
  BY <1>2
<1> QED
  BY <1>1, <1>2, <1>3, NodesFinite, FS_Subset, FS_CardinalityType

LEMMA VisitedNone ==
  ASSUME NEW links \in Seq(Connections), NEW node, NEW x \in Searches(links)
  PROVE  Visited(links, node, x, x, {})
  BY SearchFinite DEF Visited

LEMMA VisitedMore ==
  ASSUME NEW links \in Seq(Connections), NEW node, NEW x, NEW y, NEW seen,
         Visited(links, node, x, y, seen), NEW conn \in Range(links),
         NEW z, z = Visit(conn, node, y)
  PROVE  Visited(links, node, x, z,
                 IF Joins(conn, node) THEN seen \cup {Across(conn, node).node} ELSE seen)
<1>1. CASE ~NewNeighbour(conn, node, y.parent)
  <2>1. z = y
    BY <1>1 DEF Visit
  <2>2. Joins(conn, node) => Across(conn, node).node \in DOMAIN y.parent
    BY <1>1 DEF NewNeighbour
  <2> QED
    BY <2>1, <2>2 DEF Visited
<1>2. CASE NewNeighbour(conn, node, y.parent)
  <2> DEFINE hop == Hop(conn, node)
  <2>1. x \in Searches(links) /\ y \in Searches(links)
    BY DEF Visited
  <2>2. /\ z \in Searches(links)
        /\ hop.to = Across(conn, node).node
        /\ hop.to \notin DOMAIN y.parent
        /\ DOMAIN z.parent = DOMAIN y.parent \cup {hop.to}
        /\ z.parent[hop.to] = hop
        /\ \A n \in DOMAIN y.parent : z.parent[n] = y.parent[n]
        /\ z.queue = Append(y.queue, hop.to)
    BY <1>2, <2>1, VisitNew
  <2>3. Joins(conn, node)
    BY <1>2 DEF NewNeighbour
  <2>4. hop \in Hops(links) /\ hop.from = node /\ LinkHop(links, hop)
    BY <2>3, HopType DEF LinkHop
  <2> HIDE DEF hop
  <2>5. /\ Len(z.queue) = Len(y.queue) + 1 /\ z.queue[Len(y.queue) + 1] = hop.to
        /\ \A k \in 1 .. Len(y.queue) : z.queue[k] = y.queue[k]
        /\ Len(y.queue) \in Nat /\ Len(x.queue) \in Nat
    BY <2>1, <2>2, SearchFinite
  <2>6. Cardinality(DOMAIN z.parent) = Cardinality(DOMAIN y.parent) + 1
    BY <2>1, <2>2, SearchFinite, FS_AddElement
  <2>7. /\ Cardinality(DOMAIN y.parent) \in Nat /\ Cardinality(DOMAIN x.parent) \in Nat
        /\ Cardinality(DOMAIN y.parent) - Len(y.queue) = Cardinality(DOMAIN x.parent) - Len(x.queue)
    BY <2>1, SearchFinite DEF Visited
  <2>8. Cardinality(DOMAIN z.parent) - Len(z.queue) = Cardinality(DOMAIN x.parent) - Len(x.queue)
    BY <2>5, <2>6, <2>7
  <2>9. DOMAIN z.parent = DOMAIN x.parent \cup (seen \cup {Across(conn, node).node})
    BY <2>2 DEF Visited
  <2>10. \A n \in DOMAIN x.parent : z.parent[n] = x.parent[n]
    BY <2>2 DEF Visited
  <2>11. \A n \in DOMAIN z.parent \ DOMAIN x.parent :
           z.parent[n].from = node /\ z.parent[n].to = n /\ LinkHop(links, z.parent[n])
    BY <2>2, <2>4 DEF Visited
  <2>12. /\ Len(x.queue) <= Len(y.queue)
         /\ \A k \in 1 .. Len(x.queue) : y.queue[k] = x.queue[k]
         /\ \A k \in Len(x.queue) + 1 .. Len(y.queue) :
              y.queue[k] \in DOMAIN y.parent \ DOMAIN x.parent
         /\ \A n \in DOMAIN y.parent \ DOMAIN x.parent :
              \E k \in Len(x.queue) + 1 .. Len(y.queue) : y.queue[k] = n
         /\ DOMAIN x.parent \subseteq DOMAIN y.parent
    BY DEF Visited
  <2>13. Len(x.queue) <= Len(z.queue) /\ \A k \in 1 .. Len(x.queue) : z.queue[k] = x.queue[k]
    BY <2>5, <2>12
  <2>14. ASSUME NEW k \in Len(x.queue) + 1 .. Len(z.queue)
         PROVE  z.queue[k] \in DOMAIN z.parent \ DOMAIN x.parent
    <3>1. CASE k = Len(y.queue) + 1
      BY <3>1, <2>2, <2>5, <2>12
    <3>2. CASE k # Len(y.queue) + 1
      <4>1. k \in Len(x.queue) + 1 .. Len(y.queue) /\ k \in 1 .. Len(y.queue)
        BY <3>2, <2>5
      <4> QED
        BY <4>1, <2>2, <2>5, <2>12
    <3> QED
      BY <3>1, <3>2
  <2>15. ASSUME NEW n \in DOMAIN z.parent \ DOMAIN x.parent
         PROVE  \E k \in Len(x.queue) + 1 .. Len(z.queue) : z.queue[k] = n
    <3>1. CASE n = hop.to
      <4>1. Len(y.queue) + 1 \in Len(x.queue) + 1 .. Len(z.queue)
        BY <2>5, <2>12
      <4> QED
        BY <3>1, <4>1, <2>5
    <3>2. CASE n # hop.to
      <4>1. PICK k \in Len(x.queue) + 1 .. Len(y.queue) : y.queue[k] = n
        BY <3>2, <2>2, <2>12
      <4>2. k \in Len(x.queue) + 1 .. Len(z.queue) /\ k \in 1 .. Len(y.queue)
        BY <2>5
      <4> QED
        BY <4>1, <4>2, <2>5
    <3> QED
      BY <3>1, <3>2
  <2> QED
    BY <2>1, <2>2, <2>3, <2>8, <2>9, <2>10, <2>11, <2>13, <2>14, <2>15 DEF Visited
<1> QED
  BY <1>1, <1>2

LEMMA VisitedAll ==
  ASSUME NEW links \in Seq(Connections), NEW node, NEW x \in Searches(links)
  PROVE  Visited(links, node, x, VisitAll(links, node, x), Neighbours(links, node))
<1> DEFINE f == VisitedUpTo(links, node, x)
           Seen(n) == {Across(links[m], node).node : m \in {i \in 1 .. n : Joins(links[i], node)}}
           T == {n \in 0 .. Len(links) : Visited(links, node, x, f[n], Seen(n))}
<1>1. /\ f[0] = x
      /\ \A n \in 1 .. Len(links) : f[n] = Visit(links[n], node, f[n - 1])
  BY VisitedIs
<1> HIDE DEF f
<1>2. Len(links) \in Nat /\ \A n \in 1 .. Len(links) : links[n] \in Range(links)
  BY DEF Range
<1>3. 0 \in T
  <2>1. Seen(0) = {}
    OBVIOUS
  <2>2. 0 \in 0 .. Len(links)
    BY <1>2
  <2> HIDE DEF Seen
  <2> QED
    BY <1>1, <2>1, <2>2, VisitedNone
<1>4. ASSUME NEW n \in 0 .. Len(links) - 1, n \in T PROVE n + 1 \in T
  <2>1. /\ n + 1 \in 1 .. Len(links) /\ n + 1 \in 0 .. Len(links) /\ (n + 1) - 1 = n
        /\ \A i : i \in 1 .. n + 1 <=> i \in 1 .. n \/ i = n + 1
    BY <1>2
  <2> DEFINE conn == links[n + 1]
             more == IF Joins(conn, node) THEN Seen(n) \cup {Across(conn, node).node} ELSE Seen(n)
  <2>2. Seen(n + 1) = more
    BY <2>1
  <2>3. f[n + 1] = Visit(conn, node, f[n]) /\ conn \in Range(links)
    BY <1>1, <1>2, <2>1
  <2>4. Visited(links, node, x, f[n], Seen(n))
    BY <1>4
  <2> HIDE DEF conn, Seen
  <2>5. Visited(links, node, x, f[n + 1], more)
    BY <2>3, <2>4, VisitedMore
  <2> HIDE DEF more
  <2> QED
    BY <2>1, <2>2, <2>5
<1> HIDE DEF T
<1>5. \A n \in 0 .. Len(links) : n \in T
  BY <1>2, <1>3, <1>4, Induct
<1>6. Visited(links, node, x, f[Len(links)], Seen(Len(links)))
  <2>1. Len(links) \in T
    BY <1>2, <1>5
  <2> QED
    BY <2>1 DEF T
<1>7. Seen(Len(links)) = Neighbours(links, node)
  BY DEF Neighbours, Range
<1> HIDE DEF Seen
<1> QED
  BY <1>6, <1>7, VisitAllIs DEF f

-------------------------------------------------------------------------------
(* The breadth-first search.  d is the depth of each node found: that of   *)
(* the switch it was found from, and one more.  The queue is in the order  *)
(* of the depths and spans at most two; what has left it is no deeper than *)
(* its head, and all that its switches reach has been found.               *)
Queued(x, z) == \E k \in 1 .. Len(x.queue) : x.queue[k] = z

DepthsRight(links, s, parent, d) ==
  /\ s \in DOMAIN parent /\ d[s] = 0
  /\ \A z \in DOMAIN parent : d[z] \in Nat /\ d[z] < Cardinality(DOMAIN parent)
  /\ \A z \in DOMAIN parent \ {s} :
       LET hop == parent[z]
       IN /\ hop.to = z /\ LinkHop(links, hop)
          /\ hop.from \in DOMAIN parent \cap SwitchNodes /\ d[z] = d[hop.from] + 1

QueueRight(x, d) ==
  /\ \A k \in 1 .. Len(x.queue) : x.queue[k] \in DOMAIN x.parent
  /\ \A j, k \in 1 .. Len(x.queue) :
       /\ j <= k => d[x.queue[j]] <= d[x.queue[k]]
       /\ d[x.queue[k]] <= d[x.queue[j]] + 1
  /\ \A z \in DOMAIN x.parent : ~Queued(x, z) =>
       \A k \in 1 .. Len(x.queue) : d[z] <= d[x.queue[k]]

Reached(links, parent, d, z) ==
  z \in SwitchNodes =>
    \A n \in Neighbours(links, z) : n \in DOMAIN parent /\ d[n] <= d[z] + 1

SearchRight(links, s, x, d) ==
  /\ x \in Searches(links)
  /\ DepthsRight(links, s, x.parent, d)
  /\ QueueRight(x, d)
  /\ \A z \in DOMAIN x.parent : ~Queued(x, z) => Reached(links, x.parent, d, z)

LEMMA HostExplored ==
  ASSUME NEW links \in Seq(Connections), NEW s, NEW x, NEW d, SearchRight(links, s, x, d),
         x.queue # <<>>, Head(x.queue) \notin SwitchNodes,
         NEW y, y = [x EXCEPT !.queue = Tail(@)]
  PROVE  /\ SearchRight(links, s, y, d)
         /\ y.parent = x.parent /\ Len(y.queue) = Len(x.queue) - 1
<1>1. x \in Searches(links)
  BY DEF SearchRight
<1>2. /\ x.queue \in Seq(Nodes(links)) /\ Len(x.queue) \in Nat
      /\ Len(x.queue) > 0
      /\ y.parent = x.parent /\ y.queue = Tail(x.queue)
  BY <1>1, SearchFinite DEF Searches
<1>3. /\ Len(y.queue) = Len(x.queue) - 1
      /\ \A k \in 1 .. Len(y.queue) : y.queue[k] = x.queue[k + 1] /\ k + 1 \in 1 .. Len(x.queue)
      /\ Tail(x.queue) \in Seq(Nodes(links)) /\ 1 \in 1 .. Len(x.queue)
      /\ Head(x.queue) = x.queue[1]
  BY <1>2
<1>4. y \in Searches(links)
  BY <1>1, <1>3 DEF Searches
<1>5. DepthsRight(links, s, y.parent, d)
  BY <1>2 DEF DepthsRight, SearchRight
<1>6. \A z : Queued(x, z) => z = Head(x.queue) \/ Queued(y, z)
  <2> SUFFICES ASSUME NEW z, NEW k \in 1 .. Len(x.queue), x.queue[k] = z, k # 1
               PROVE  Queued(y, z)
    BY <1>3 DEF Queued
  <2>1. k - 1 \in 1 .. Len(y.queue) /\ (k - 1) + 1 = k
    BY <1>2, <1>3
  <2> QED
    BY <1>3, <2>1 DEF Queued
<1>7. \A z \in DOMAIN x.parent : d[z] \in Nat
  BY DEF SearchRight, DepthsRight
<1>8. QueueRight(y, d)
  <2>1. \A k \in 1 .. Len(x.queue) : d[x.queue[1]] <= d[x.queue[k]]
    BY <1>3 DEF SearchRight, QueueRight
  <2>2. \A k \in 1 .. Len(y.queue) : y.queue[k] \in DOMAIN y.parent
    BY <1>2, <1>3 DEF SearchRight, QueueRight
  <2>3. ASSUME NEW j \in 1 .. Len(y.queue), NEW k \in 1 .. Len(y.queue)
        PROVE  /\ j <= k => d[y.queue[j]] <= d[y.queue[k]]
               /\ d[y.queue[k]] <= d[y.queue[j]] + 1
    BY <1>3 DEF SearchRight, QueueRight
  <2>4. ASSUME NEW z \in DOMAIN y.parent, ~Queued(y, z), NEW k \in 1 .. Len(y.queue)
        PROVE  d[z] <= d[y.queue[k]]
    BY <1>2, <1>3, <1>6, <2>1, <2>4 DEF SearchRight, QueueRight
  <2> QED
    BY <2>2, <2>3, <2>4 DEF QueueRight
<1>9. \A z \in DOMAIN y.parent : ~Queued(y, z) => Reached(links, y.parent, d, z)
  BY <1>2, <1>6 DEF SearchRight, Reached
<1> QED
  BY <1>2, <1>3, <1>4, <1>5, <1>8, <1>9 DEF SearchRight

LEMMA SwitchExplored ==
  ASSUME NEW links \in Seq(Connections), NEW s, NEW x, NEW d, SearchRight(links, s, x, d),
         x.queue # <<>>, NEW node, node = Head(x.queue), node \in SwitchNodes,
         NEW rest, rest = [x EXCEPT !.queue = Tail(@)],
         NEW y, Visited(links, node, rest, y, Neighbours(links, node))
  PROVE  /\ \E b : SearchRight(links, s, y, b)
         /\ Cardinality(DOMAIN y.parent) - Len(y.queue)
              = Cardinality(DOMAIN x.parent) - (Len(x.queue) - 1)
<1> DEFINE b == [z \in DOMAIN y.parent |-> IF z \in DOMAIN x.parent THEN d[z] ELSE d[node] + 1]
           n == Len(rest.queue)
<1>1. x \in Searches(links) /\ y \in Searches(links)
  BY DEF SearchRight, Visited
<1>2. /\ Len(x.queue) \in Nat /\ Len(x.queue) > 0 /\ Head(x.queue) = x.queue[1]
      /\ rest.parent = x.parent /\ n = Len(x.queue) - 1 /\ n \in Nat
      /\ \A k \in 1 .. n : rest.queue[k] = x.queue[k + 1] /\ k + 1 \in 1 .. Len(x.queue)
      /\ 1 \in 1 .. Len(x.queue)
      /\ Len(y.queue) \in Nat
  <2>1. x.queue \in Seq(Nodes(links)) /\ Len(x.queue) \in Nat /\ Len(y.queue) \in Nat
    BY <1>1, SearchFinite
  <2>2. rest.parent = x.parent /\ rest.queue = Tail(x.queue)
    BY <1>1 DEF Searches
  <2> QED
    BY <2>1, <2>2
<1> HIDE DEF n
<1>3. /\ DOMAIN y.parent = DOMAIN x.parent \cup Neighbours(links, node)
      /\ \A z \in DOMAIN x.parent : y.parent[z] = x.parent[z]
      /\ \A z \in DOMAIN y.parent \ DOMAIN x.parent :
           y.parent[z].from = node /\ y.parent[z].to = z /\ LinkHop(links, y.parent[z])
      /\ n <= Len(y.queue)
      /\ \A k \in 1 .. n : y.queue[k] = rest.queue[k]
      /\ \A k \in n + 1 .. Len(y.queue) : y.queue[k] \in DOMAIN y.parent \ DOMAIN x.parent
      /\ \A z \in DOMAIN y.parent \ DOMAIN x.parent : \E k \in n + 1 .. Len(y.queue) : y.queue[k] = z
      /\ Cardinality(DOMAIN y.parent) - Len(y.queue) = Cardinality(DOMAIN x.parent) - n
  BY <1>2 DEF Visited, n
<1>4. /\ Cardinality(DOMAIN x.parent) \in Nat /\ Cardinality(DOMAIN y.parent) \in Nat
      /\ IsFiniteSet(DOMAIN y.parent)
  BY <1>1, SearchFinite
<1>5. /\ \A z \in DOMAIN x.parent : d[z] \in Nat /\ d[z] < Cardinality(DOMAIN x.parent)
      /\ node \in DOMAIN x.parent /\ d[node] \in Nat
      /\ \A k \in 1 .. Len(x.queue) :
           /\ x.queue[k] \in DOMAIN x.parent
           /\ d[node] <= d[x.queue[k]] /\ d[x.queue[k]] <= d[node] + 1
      /\ \A z \in DOMAIN x.parent : ~Queued(x, z) => d[z] <= d[node]
  BY <1>2 DEF SearchRight, DepthsRight, QueueRight
<1>6. /\ \A z \in DOMAIN x.parent : b[z] = d[z] /\ z \in DOMAIN y.parent
      /\ \A z \in DOMAIN y.parent \ DOMAIN x.parent : b[z] = d[node] + 1
  BY <1>3
<1> HIDE DEF b
<1>7. Cardinality(DOMAIN x.parent) <= Cardinality(DOMAIN y.parent)
  BY <1>3, <1>4, FS_Subset
<1>8. \A z \in DOMAIN x.parent : d[z] <= d[node] + 1
  <2> SUFFICES ASSUME NEW z \in DOMAIN x.parent PROVE d[z] <= d[node] + 1
    OBVIOUS
  <2>1. CASE Queued(x, z)
    BY <2>1, <1>5 DEF Queued
  <2>2. CASE ~Queued(x, z)
    BY <2>2, <1>5
  <2> QED
    BY <2>1, <2>2
<1>9. DepthsRight(links, s, y.parent, b)
  <2>1. s \in DOMAIN x.parent /\ s \in DOMAIN y.parent /\ b[s] = 0
    BY <1>3, <1>6 DEF SearchRight, DepthsRight
  <2>2. ASSUME NEW z \in DOMAIN y.parent
        PROVE  b[z] \in Nat /\ b[z] < Cardinality(DOMAIN y.parent)
    <3>1. CASE z \in DOMAIN x.parent
      BY <3>1, <1>4, <1>5, <1>6, <1>7
    <3>2. CASE z \notin DOMAIN x.parent
      <4>1. PICK k \in n + 1 .. Len(y.queue) : y.queue[k] = z
        BY <3>2, <1>3
      <4>2. Len(y.queue) >= n + 1
        BY <4>1, <1>2
      <4>3. Cardinality(DOMAIN x.parent) + 1 <= Cardinality(DOMAIN y.parent)
        BY <4>2, <1>2, <1>3, <1>4
      <4>4. b[z] = d[node] + 1 /\ d[node] < Cardinality(DOMAIN x.parent)
        BY <3>2, <1>5, <1>6
      <4> QED
        BY <4>3, <4>4, <1>4, <1>5
    <3> QED
      BY <3>1, <3>2
  <2>3. ASSUME NEW z \in DOMAIN y.parent \ {s}, NEW hop, hop = y.parent[z]
        PROVE  /\ hop.to = z /\ LinkHop(links, hop)
               /\ hop.from \in DOMAIN y.parent \cap SwitchNodes /\ b[z] = b[hop.from] + 1
    <3>1. CASE z \in DOMAIN x.parent
      <4>1. hop = x.parent[z]
        BY <2>3, <3>1, <1>3
      <4>2. /\ hop.to = z /\ LinkHop(links, hop)
            /\ hop.from \in DOMAIN x.parent \cap SwitchNodes /\ d[z] = d[hop.from] + 1
        BY <3>1, <4>1 DEF SearchRight, DepthsRight
      <4> QED
        BY <3>1, <4>2, <1>6
    <3>2. CASE z \notin DOMAIN x.parent
      BY <2>3, <3>2, <1>3, <1>5, <1>6
    <3> QED
      BY <3>1, <3>2
  <2> QED
    BY <2>1, <2>2, <2>3 DEF DepthsRight
<1>10. \A z : Queued(x, z) => z = node \/ Queued(y, z)
  <2> SUFFICES ASSUME NEW z, NEW k \in 1 .. Len(x.queue), x.queue[k] = z, k # 1
               PROVE  Queued(y, z)
    BY <1>2 DEF Queued
  <2>1. k - 1 \in 1 .. n /\ (k - 1) + 1 = k
    BY <1>2
  <2>2. k - 1 \in 1 .. Len(y.queue)
    BY <2>1, <1>2, <1>3
  <2>3. y.queue[k - 1] = z
    BY <2>1, <1>2, <1>3
  <2> QED
    BY <2>2, <2>3 DEF Queued
<1>11. \A z \in DOMAIN y.parent \ DOMAIN x.parent : Queued(y, z)
  <2> SUFFICES ASSUME NEW z \in DOMAIN y.parent \ DOMAIN x.parent PROVE Queued(y, z)
    OBVIOUS
  <2>1. PICK k \in n + 1 .. Len(y.queue) : y.queue[k] = z
    BY <1>3
  <2>2. k \in 1 .. Len(y.queue)
    BY <1>2
  <2> QED
    BY <2>1, <2>2 DEF Queued
<1>12. \A k \in 1 .. Len(y.queue) :
         /\ k <= n => /\ y.queue[k] = x.queue[k + 1] /\ k + 1 \in 1 .. Len(x.queue)
                      /\ y.queue[k] \in DOMAIN x.parent
                      /\ b[y.queue[k]] = d[x.queue[k + 1]]
         /\ k > n => y.queue[k] \in DOMAIN y.parent \ DOMAIN x.parent /\ b[y.queue[k]] = d[node] + 1
  <2> SUFFICES ASSUME NEW k \in 1 .. Len(y.queue)
               PROVE  /\ k <= n => /\ y.queue[k] = x.queue[k + 1] /\ k + 1 \in 1 .. Len(x.queue)
                                   /\ y.queue[k] \in DOMAIN x.parent
                                   /\ b[y.queue[k]] = d[x.queue[k + 1]]
                      /\ k > n => /\ y.queue[k] \in DOMAIN y.parent \ DOMAIN x.parent
                                  /\ b[y.queue[k]] = d[node] + 1
    OBVIOUS
  <2>1. k <= n => k \in 1 .. n
    BY <1>2
  <2>2. k > n => k \in n + 1 .. Len(y.queue)
    BY <1>2
  <2>3. k <= n => y.queue[k] = x.queue[k + 1] /\ k + 1 \in 1 .. Len(x.queue)
    BY <2>1, <1>2, <1>3
  <2>4. k > n => y.queue[k] \in DOMAIN y.parent \ DOMAIN x.parent
    BY <2>2, <1>3
  <2> QED
    BY <2>3, <2>4, <1>5, <1>6
<1>13. \A k \in 1 .. Len(y.queue) :
         /\ y.queue[k] \in DOMAIN y.parent
         /\ b[y.queue[k]] \in Nat /\ d[node] <= b[y.queue[k]] /\ b[y.queue[k]] <= d[node] + 1
  <2> SUFFICES ASSUME NEW k \in 1 .. Len(y.queue)
               PROVE  /\ y.queue[k] \in DOMAIN y.parent
                      /\ b[y.queue[k]] \in Nat /\ d[node] <= b[y.queue[k]]
                      /\ b[y.queue[k]] <= d[node] + 1
    OBVIOUS
  <2>1. CASE k <= n
    BY <2>1, <1>5, <1>6, <1>12
  <2>2. CASE k > n
    BY <2>2, <1>5, <1>12
  <2> QED
    BY <2>1, <2>2, <1>2
<1>14. QueueRight(y, b)
  <2>1. ASSUME NEW j \in 1 .. Len(y.queue), NEW k \in 1 .. Len(y.queue), j <= k
        PROVE  b[y.queue[j]] <= b[y.queue[k]]
    <3>1. CASE k <= n
      <4>1. j <= n /\ j + 1 <= k + 1
        BY <3>1, <2>1, <1>2
      <4>2. d[x.queue[j + 1]] <= d[x.queue[k + 1]]
        BY <3>1, <4>1, <1>12 DEF SearchRight, QueueRight
      <4> QED
        BY <3>1, <4>1, <4>2, <1>12
    <3>2. CASE k > n
      BY <3>2, <1>12, <1>13
    <3> QED
      BY <3>1, <3>2, <1>2
  <2>2. ASSUME NEW j \in 1 .. Len(y.queue), NEW k \in 1 .. Len(y.queue)
        PROVE  b[y.queue[k]] <= b[y.queue[j]] + 1
    <3>1. /\ d[node] \in Nat /\ b[y.queue[j]] \in Nat /\ b[y.queue[k]] \in Nat
          /\ b[y.queue[k]] <= d[node] + 1 /\ d[node] <= b[y.queue[j]]
      BY <1>5, <1>13
    <3> QED
      BY <3>1
  <2>3. ASSUME NEW z \in DOMAIN y.parent, ~Queued(y, z), NEW k \in 1 .. Len(y.queue)
        PROVE  b[z] <= b[y.queue[k]]
    <3>1. z \in DOMAIN x.parent /\ (z = node \/ ~Queued(x, z))
      BY <2>3, <1>10, <1>11
    <3>2. b[z] = d[z] /\ d[z] <= d[node] /\ d[z] \in Nat
      BY <3>1, <1>5, <1>6
    <3> QED
      BY <3>2, <1>5, <1>13
  <2> QED
    BY <2>1, <2>2, <2>3, <1>13 DEF QueueRight
<1>15. ASSUME NEW z \in DOMAIN y.parent, ~Queued(y, z) PROVE Reached(links, y.parent, b, z)
  <2>1. z \in DOMAIN x.parent /\ (z = node \/ ~Queued(x, z)) /\ b[z] = d[z]
    BY <1>15, <1>6, <1>10, <1>11
  <2>2. CASE z = node
    <3>1. ASSUME NEW m \in Neighbours(links, node)
          PROVE  m \in DOMAIN y.parent /\ b[m] <= d[node] + 1
      <4>1. m \in DOMAIN y.parent
        BY <1>3
      <4>2. CASE m \in DOMAIN x.parent
        BY <4>1, <4>2, <1>6, <1>8
      <4>3. CASE m \notin DOMAIN x.parent
        BY <4>1, <4>3, <1>5, <1>6
      <4> QED
        BY <4>1, <4>2, <4>3
    <3> QED
      BY <2>1, <2>2, <3>1 DEF Reached
  <2>3. CASE ~Queued(x, z)
    BY <2>1, <2>3, <1>3, <1>6 DEF Reached, SearchRight
  <2> QED
    BY <2>1, <2>2, <2>3
<1>16. SearchRight(links, s, y, b)
  BY <1>1, <1>9, <1>14, <1>15 DEF SearchRight
<1> QED
  BY <1>2, <1>3, <1>16

Start(s) == [queue |-> <<s>>, parent |-> [node \in {s} |-> NoHop(s)]]

LEMMA StartRight ==
  ASSUME NEW links \in Seq(Connections), NEW s \in Nodes(links)
  PROVE  /\ Start(s) \in Searches(links) /\ Len(Start(s).queue) = 1
         /\ Cardinality(DOMAIN Start(s).parent) = 1
         /\ \E d : SearchRight(links, s, Start(s), d)
<1> DEFINE x == Start(s)
           d == [z \in {s} |-> 0]
<1>1. x.queue = <<s>> /\ x.parent = [node \in {s} |-> NoHop(s)] /\ DOMAIN x.parent = {s}
  BY DEF Start
<1>2. NoHop(s) \in Hops(links)
  BY DEF NoHop, Hops
<1>3. x.parent \in Trees(links)
  <2>1. x.parent \in [{s} -> Hops(links)] /\ {s} \in SUBSET Nodes(links)
    BY <1>1, <1>2
  <2> QED
    BY <2>1 DEF Trees
<1>4. <<s>> \in Seq(Nodes(links)) /\ Len(<<s>>) = 1 /\ <<s>>[1] = s
  OBVIOUS
<1>5. x \in Searches(links)
  BY <1>1, <1>3, <1>4 DEF Searches, Start
<1>6. Cardinality({s}) = 1
  BY FS_Singleton
<1>7. DepthsRight(links, s, x.parent, d)
  BY <1>1, <1>6 DEF DepthsRight
<1> HIDE DEF x
<1>8. Queued(x, s)
  BY <1>1, <1>4 DEF Queued
<1>9. QueueRight(x, d)
  BY <1>1, <1>4, <1>8 DEF QueueRight
<1>10. SearchRight(links, s, x, d)
  BY <1>1, <1>5, <1>7, <1>8, <1>9 DEF SearchRight
<1> HIDE DEF d
<1> QED
  BY <1>1, <1>4, <1>5, <1>6, <1>10 DEF x

(* One step of the search. *)
LEMMA ExploreType ==
  ASSUME NEW links \in Seq(Connections), NEW x \in Searches(links), x.queue # <<>>
  PROVE  Explore(links, x) \in Searches(links)
<1> DEFINE rest == [x EXCEPT !.queue = Tail(@)]
<1>1. rest \in Searches(links)
  <2>1. Tail(x.queue) \in Seq(Nodes(links))
    BY SearchFinite
  <2> QED
    BY <2>1 DEF Searches
<1> HIDE DEF rest
<1>2. VisitAll(links, Head(x.queue), rest) \in Searches(links)
  BY <1>1, VisitedAll DEF Visited
<1> QED
  BY <1>1, <1>2 DEF Explore, rest

LEMMA Explored ==
  ASSUME NEW links \in Seq(Connections), NEW s, NEW x, \E d : SearchRight(links, s, x, d),
         x.queue # <<>>, NEW y, y = Explore(links, x)
  PROVE  /\ \E d : SearchRight(links, s, y, d)
         /\ Cardinality(DOMAIN y.parent) - Len(y.queue)
              = Cardinality(DOMAIN x.parent) - (Len(x.queue) - 1)
<1> DEFINE rest == [x EXCEPT !.queue = Tail(@)]
           node == Head(x.queue)
<1>1. PICK d : SearchRight(links, s, x, d)
  OBVIOUS
<1>2. x \in Searches(links)
  BY <1>1 DEF SearchRight
<1>3. rest \in Searches(links)
  <2>1. Tail(x.queue) \in Seq(Nodes(links))
    BY <1>2, SearchFinite
  <2> QED
    BY <1>2, <2>1 DEF Searches
<1>4. CASE node \notin SwitchNodes
  <2>1. y = rest
    BY <1>4 DEF Explore
  <2>2. /\ SearchRight(links, s, y, d)
        /\ y.parent = x.parent /\ Len(y.queue) = Len(x.queue) - 1
    BY <1>1, <1>4, <2>1, HostExplored
  <2> QED
    BY <2>2
<1>5. CASE node \in SwitchNodes
  <2>1. y = VisitAll(links, node, rest)
    BY <1>5 DEF Explore
  <2>2. Visited(links, node, rest, y, Neighbours(links, node))
    <3> HIDE DEF rest, node
    <3> QED
      BY <1>3, <2>1, VisitedAll
  <2> QED
    BY <1>1, <1>5, <2>2, SwitchExplored
<1> QED
  BY <1>4, <1>5

SearchUpTo(links, s) ==
  CHOOSE search : search = [k \in 0 .. Cardinality(Nodes(links)) |->
                              IF k = 0 THEN [queue |-> <<s>>, parent |-> [node \in {s} |-> NoHop(s)]]
                              ELSE LET before == search[k - 1]
                                   IN IF before.queue = <<>> THEN before ELSE Explore(links, before)]

LEMMA ParentsFromIs ==
  ASSUME NEW links, NEW s
  PROVE  ParentsFrom(links, s) = SearchUpTo(links, s)[Cardinality(Nodes(links))].parent
  BY DEF ParentsFrom, SearchUpTo

Searched(links, x) == IF x.queue = <<>> THEN x ELSE Explore(links, x)

LEMMA SearchUpToIs ==
  ASSUME NEW links \in Seq(Connections), NEW s \in Nodes(links)
  PROVE  LET f == SearchUpTo(links, s)
             n == Cardinality(Nodes(links))
         IN f[0] = Start(s) /\ \A k \in 1 .. n : f[k] = Searched(links, f[k - 1])
<1> DEFINE S == Searches(links)
           n == Cardinality(Nodes(links))
           step == [a \in S \X Nat |-> Searched(links, a[1])]
           g == SearchUpTo(links, s)
           Values(f) == [k \in 0 .. n |->
                           IF k = 0 THEN [queue |-> <<s>>, parent |-> [node \in {s} |-> NoHop(s)]]
                           ELSE LET before == f[k - 1]
                                IN IF before.queue = <<>> THEN before ELSE Explore(links, before)]
<1>1. n \in Nat
  BY NodesFinite, FS_CardinalityType
<1>2. IsStep(step, S)
  BY ExploreType DEF IsStep, Searched
<1>3. PICK f : Iterates(f, S, Start(s), step, n)
  <2>1. Start(s) \in S
    BY StartRight
  <2> HIDE DEF step, S, n
  <2> QED
    BY <1>1, <1>2, <2>1, Recursion
<1> HIDE DEF n
<1>4. \A k \in 1 .. n : f[k] = Searched(links, f[k - 1])
  <2> SUFFICES ASSUME NEW k \in 1 .. n PROVE f[k] = Searched(links, f[k - 1])
    OBVIOUS
  <2>1. k - 1 \in 0 .. n /\ k \in Nat
    BY <1>1
  <2>2. <<f[k - 1], k>> \in S \X Nat
    BY <1>3, <2>1 DEF Iterates
  <2> QED
    BY <1>3, <2>1, <2>2 DEF Iterates
<1>5. f = Values(f)
  <2>1. f = [k \in 0 .. n |-> f[k]] /\ f[0] = Start(s)
    BY <1>3 DEF Iterates
  <2>2. \A k \in 0 .. n : f[k] = Values(f)[k]
    <3>1. f[0] = Values(f)[0]
      BY <1>1, <2>1 DEF Start
    <3>2. ASSUME NEW k \in 1 .. n PROVE f[k] = Values(f)[k]
      <4>1. k \in 0 .. n /\ k # 0
        BY <1>1
      <4>2. Values(f)[k] = IF f[k - 1].queue = <<>> THEN f[k - 1] ELSE Explore(links, f[k - 1])
        BY <4>1
      <4> QED
        BY <1>4, <4>2 DEF Searched
    <3>3. \A k \in 0 .. n : k = 0 \/ k \in 1 .. n
      BY <1>1
    <3> QED
      BY <3>1, <3>2, <3>3
  <2> QED
    BY <2>1, <2>2
<1>6. g = Values(g)
  BY <1>5 DEF SearchUpTo, n
<1> HIDE DEF g
<1>7. g[0] = Start(s) /\ \A k \in 1 .. n : g[k] = Searched(links, g[k - 1])
  <2>1. 0 \in 0 .. n /\ \A k \in 1 .. n : k \in 0 .. n /\ k # 0
    BY <1>1
  <2>2. g[0] = Start(s)
    BY <1>6, <2>1 DEF Start
  <2>3. ASSUME NEW k \in 1 .. n PROVE g[k] = Searched(links, g[k - 1])
    <3>1. g[k] = LET before == g[k - 1]
                 IN IF before.queue = <<>> THEN before ELSE Explore(links, before)
      BY <1>6, <2>1
    <3> QED
      BY <3>1 DEF Searched
  <2> QED
    BY <2>2, <2>3
<1> QED
  BY <1>7 DEF g, n

(* Every step takes one node from the queue, and adds what it finds. *)
LEMMA Counted ==
  ASSUME NEW links \in Seq(Connections), NEW x \in Searches(links), NEW y \in Searches(links),
         NEW k \in Nat, k + Len(x.queue) = Cardinality(DOMAIN x.parent),
         Cardinality(DOMAIN y.parent) - Len(y.queue)
           = Cardinality(DOMAIN x.parent) - (Len(x.queue) - 1)
  PROVE  (k + 1) + Len(y.queue) = Cardinality(DOMAIN y.parent)
<1>1. /\ Cardinality(DOMAIN y.parent) \in Nat /\ Cardinality(DOMAIN x.parent) \in Nat
      /\ Len(y.queue) \in Nat /\ Len(x.queue) \in Nat
  BY SearchFinite
<1> DEFINE cx == Cardinality(DOMAIN x.parent)
           cy == Cardinality(DOMAIN y.parent)
           lx == Len(x.queue)
           ly == Len(y.queue)
<1>2. /\ cx \in Nat /\ cy \in Nat /\ lx \in Nat /\ ly \in Nat
      /\ k + lx = cx /\ cy - ly = cx - (lx - 1)
  BY <1>1
<1> HIDE DEF cx, cy, lx, ly
<1>3. (k + 1) + ly = cy
  BY <1>2
<1> QED
  BY <1>3 DEF cy, ly

Sound(links, s, x) == \E d : SearchRight(links, s, x, d)

(* When the search is over, its tree has the depth of every node that can  *)
(* be reached.                                                             *)
LEMMA SearchEnds ==
  ASSUME NEW links \in Seq(Connections), NEW s \in Nodes(links),
         NEW parent, parent = ParentsFrom(links, s)
  PROVE  /\ parent \in Trees(links) /\ Cardinality(DOMAIN parent) \in Nat
         /\ \E d : /\ DepthsRight(links, s, parent, d)
                   /\ \A z \in DOMAIN parent : Reached(links, parent, d, z)
<1> DEFINE f == SearchUpTo(links, s)
           n == Cardinality(Nodes(links))
           T == {k \in 0 .. n : /\ Sound(links, s, f[k])
                                /\ \/ f[k].queue = <<>>
                                   \/ k + Len(f[k].queue) = Cardinality(DOMAIN f[k].parent)}
<1>1. n \in Nat
  BY NodesFinite, FS_CardinalityType
<1>2. f[0] = Start(s) /\ \A k \in 1 .. n : f[k] = Searched(links, f[k - 1])
  BY SearchUpToIs
<1>3. parent = f[n].parent
  BY ParentsFromIs
<1> HIDE DEF f, n
<1>4. 0 \in T
  <2>1. Sound(links, s, f[0]) /\ Len(f[0].queue) = 1 /\ Cardinality(DOMAIN f[0].parent) = 1
    <3>1. Start(s) = f[0]
      BY <1>2
    <3> QED
      BY <3>1, StartRight DEF Sound
  <2>2. 0 \in 0 .. n /\ 0 + 1 = 1
    BY <1>1
  <2> QED
    BY <2>1, <2>2
<1>5. ASSUME NEW k \in 0 .. n - 1, k \in T PROVE k + 1 \in T
  <2>1. k + 1 \in 1 .. n /\ k + 1 \in 0 .. n /\ (k + 1) - 1 = k
    BY <1>1
  <2>2. f[k + 1] = Searched(links, f[k])
    BY <1>2, <2>1
  <2>3. CASE f[k].queue = <<>>
    BY <1>5, <2>1, <2>2, <2>3 DEF Searched
  <2>4. CASE f[k].queue # <<>>
    <3> DEFINE x == f[k]
               y == f[k + 1]
    <3>1. Sound(links, s, x) /\ k + Len(x.queue) = Cardinality(DOMAIN x.parent)
      BY <1>5, <2>4
    <3>2. y = Explore(links, x)
      BY <2>2, <2>4 DEF Searched
    <3> HIDE DEF x, y
    <3>3. /\ Sound(links, s, y)
          /\ Cardinality(DOMAIN y.parent) - Len(y.queue)
               = Cardinality(DOMAIN x.parent) - (Len(x.queue) - 1)
      BY <2>4, <3>1, <3>2, Explored DEF x, Sound
    <3>4. x \in Searches(links) /\ y \in Searches(links)
      BY <3>1, <3>3 DEF SearchRight, Sound
    <3>5. (k + 1) + Len(y.queue) = Cardinality(DOMAIN y.parent)
      <4>1. k \in Nat
        BY <1>1
      <4> QED
        BY <3>1, <3>3, <3>4, <4>1, Counted
    <3> QED
      BY <2>1, <3>3, <3>5 DEF y
  <2> QED
    BY <2>3, <2>4
<1> HIDE DEF T
<1>6. n \in T
  <2>1. n \in 0 .. n /\ \A k \in 0 .. n : k \in T
    BY <1>1, <1>4, <1>5, Induct
  <2> QED
    BY <2>1
<1>7. PICK d : SearchRight(links, s, f[n], d)
  BY <1>6 DEF T, Sound
<1>8. f[n] \in Searches(links)
  BY <1>7 DEF SearchRight
<1>9. f[n].queue = <<>>
  <2>1. SUFFICES ASSUME n + Len(f[n].queue) = Cardinality(DOMAIN f[n].parent)
                 PROVE  f[n].queue = <<>>
    BY <1>6 DEF T
  <2>2. /\ Cardinality(DOMAIN f[n].parent) <= n /\ Len(f[n].queue) \in Nat
        /\ Cardinality(DOMAIN f[n].parent) \in Nat
        /\ f[n].queue \in Seq(Nodes(links))
    BY <1>8, SearchFinite DEF n
  <2>3. Len(f[n].queue) = 0
    BY <1>1, <2>1, <2>2
  <2> QED
    BY <2>2, <2>3
<1>10. \A z : ~Queued(f[n], z)
  BY <1>9 DEF Queued
<1>11. /\ DepthsRight(links, s, parent, d)
       /\ \A z \in DOMAIN parent : Reached(links, parent, d, z)
  BY <1>3, <1>7, <1>10 DEF SearchRight
<1>12. parent \in Trees(links) /\ Cardinality(DOMAIN parent) \in Nat
  BY <1>3, <1>8, SearchFinite DEF Searches
<1> QED
  BY <1>11, <1>12

-------------------------------------------------------------------------------
ReachUpTo(links, s, k) ==
  CHOOSE reach : reach = [n \in 0 .. k |->
                            IF n = 0 THEN {s}
                            ELSE reach[n - 1] \cup
                                   UNION {Neighbours(links, m) : m \in reach[n - 1] \cap SwitchNodes}]

LEMMA WithinHopsIs ==
  ASSUME NEW links, NEW s, NEW k
  PROVE  WithinHops(links, s, k) = ReachUpTo(links, s, k)[k]
  BY DEF WithinHops, ReachUpTo

Further(links, R) == R \cup UNION {Neighbours(links, m) : m \in R \cap SwitchNodes}

LEMMA NeighboursAreNodes ==
  ASSUME NEW links \in Seq(Connections), NEW node
  PROVE  Neighbours(links, node) \subseteq Nodes(links)
<1> SUFFICES ASSUME NEW conn \in Range(links) PROVE Across(conn, node).node \in Nodes(links)
  BY DEF Neighbours
<1> QED
  BY ConnectionsOf DEF Across

LEMMA ReachUpToIs ==
  ASSUME NEW links \in Seq(Connections), NEW s \in Nodes(links), NEW k \in Nat
  PROVE  LET r == ReachUpTo(links, s, k)
         IN r[0] = {s} /\ \A n \in 1 .. k : r[n] = Further(links, r[n - 1])
<1> DEFINE S == SUBSET Nodes(links)
           step == [a \in S \X Nat |-> Further(links, a[1])]
           g == ReachUpTo(links, s, k)
           Values(f) == [n \in 0 .. k |->
                           IF n = 0 THEN {s}
                           ELSE f[n - 1] \cup
                                  UNION {Neighbours(links, m) : m \in f[n - 1] \cap SwitchNodes}]
<1>1. IsStep(step, S)
  <2>1. \A R \in S : Further(links, R) \in S
    BY NeighboursAreNodes DEF Further
  <2> QED
    BY <2>1 DEF IsStep
<1>2. PICK f : Iterates(f, S, {s}, step, k)
  <2>1. {s} \in S
    OBVIOUS
  <2> HIDE DEF step, S
  <2> QED
    BY <1>1, <2>1, Recursion
<1>3. \A n \in 1 .. k : f[n] = Further(links, f[n - 1])
  <2> SUFFICES ASSUME NEW n \in 1 .. k PROVE f[n] = Further(links, f[n - 1])
    OBVIOUS
  <2>1. n - 1 \in 0 .. k /\ n \in Nat
    OBVIOUS
  <2>2. <<f[n - 1], n>> \in S \X Nat
    BY <1>2, <2>1 DEF Iterates
  <2>3. f[n] = step[<<f[n - 1], n>>]
    BY <1>2 DEF Iterates
  <2> QED
    BY <2>2, <2>3
<1>4. f = Values(f)
  <2>1. f = [n \in 0 .. k |-> f[n]] /\ f[0] = {s}
    BY <1>2 DEF Iterates
  <2>2. ASSUME NEW n \in 1 .. k PROVE f[n] = Values(f)[n]
    <3>1. n \in 0 .. k /\ n # 0
      OBVIOUS
    <3> QED
      BY <1>3, <3>1 DEF Further
  <2>3. f[0] = Values(f)[0] /\ \A n \in 0 .. k : n = 0 \/ n \in 1 .. k
    BY <2>1
  <2> QED
    BY <2>1, <2>2, <2>3
<1>5. g = Values(g)
  BY <1>4 DEF ReachUpTo
<1> HIDE DEF g
<1>6. g[0] = {s}
  BY <1>5
<1>7. ASSUME NEW n \in 1 .. k PROVE g[n] = Further(links, g[n - 1])
  <2>1. n \in 0 .. k /\ n # 0
    OBVIOUS
  <2> QED
    BY <1>5, <2>1 DEF Further
<1> QED
  BY <1>6, <1>7 DEF g

(* What can be reached in k hops is in the tree, and no deeper. *)
LEMMA WithinDepth ==
  ASSUME NEW links \in Seq(Connections), NEW s \in Nodes(links), NEW k \in Nat,
         NEW parent, NEW d, DepthsRight(links, s, parent, d),
         \A z \in DOMAIN parent : Reached(links, parent, d, z),
         NEW x \in WithinHops(links, s, k)
  PROVE  x \in DOMAIN parent /\ d[x] <= k
<1> DEFINE r == ReachUpTo(links, s, k)
           T == {n \in 0 .. k : \A z \in r[n] : z \in DOMAIN parent /\ d[z] <= n}
<1>1. r[0] = {s} /\ \A n \in 1 .. k : r[n] = Further(links, r[n - 1])
  BY ReachUpToIs
<1>2. x \in r[k]
  BY WithinHopsIs
<1> HIDE DEF r
<1>3. 0 \in T
  BY <1>1 DEF DepthsRight
<1>4. ASSUME NEW n \in 0 .. k - 1, n \in T PROVE n + 1 \in T
  <2>1. n + 1 \in 1 .. k /\ n + 1 \in 0 .. k /\ (n + 1) - 1 = n
    OBVIOUS
  <2>2. ASSUME NEW z \in r[n + 1] PROVE z \in DOMAIN parent /\ d[z] <= n + 1
    <3>1. z \in Further(links, r[n])
      BY <1>1, <2>1
    <3>2. CASE z \in r[n]
      <4>1. z \in DOMAIN parent /\ d[z] <= n /\ d[z] \in Nat
        BY <1>4, <3>2 DEF DepthsRight
      <4> QED
        BY <4>1
    <3>3. CASE \E m \in r[n] \cap SwitchNodes : z \in Neighbours(links, m)
      <4>1. PICK m \in r[n] \cap SwitchNodes : z \in Neighbours(links, m)
        BY <3>3
      <4>2. m \in DOMAIN parent /\ d[m] <= n /\ d[m] \in Nat
        BY <1>4 DEF DepthsRight
      <4>3. z \in DOMAIN parent /\ d[z] <= d[m] + 1 /\ d[z] \in Nat
        BY <4>1, <4>2 DEF Reached, DepthsRight
      <4> QED
        BY <4>2, <4>3
    <3> QED
      BY <3>1, <3>2, <3>3 DEF Further
  <2> QED
    BY <2>1, <2>2
<1> HIDE DEF T
<1>5. k \in T
  <2>1. k \in 0 .. k /\ \A n \in 0 .. k : n \in T
    BY <1>3, <1>4, Induct
  <2> QED
    BY <2>1
<1> QED
  BY <1>2, <1>5 DEF T

-------------------------------------------------------------------------------
NextOf(h, later) == IF later = <<>> THEN h ELSE later[1].from
Longer(h, s, parent, later) ==
  IF NextOf(h, later) = s THEN later ELSE <<parent[NextOf(h, later)]>> \o later

PathUpTo(h, s, parent) ==
  CHOOSE path : path = [k \in 0 .. Cardinality(DOMAIN parent) |->
                          IF k = 0 THEN <<>>
                          ELSE LET later == path[k - 1]
                                   node  == IF later = <<>> THEN h ELSE later[1].from
                               IN IF node = s THEN later ELSE <<parent[node]>> \o later]

LEMMA PathToIs ==
  ASSUME NEW h, NEW s, NEW parent
  PROVE  PathTo(h, s, parent) = PathUpTo(h, s, parent)[Cardinality(DOMAIN parent)]
  BY DEF PathTo, PathUpTo

LEMMA Prepended ==
  ASSUME NEW S, NEW a \in S, NEW q \in Seq(S), NEW r, r = <<a>> \o q
  PROVE  /\ r \in Seq(S) /\ Len(r) = Len(q) + 1 /\ r[1] = a /\ r # <<>>
         /\ \A i \in 1 .. Len(q) : r[i + 1] = q[i]
<1>1. r \in Seq(S) /\ Len(r) = Len(q) + 1 /\ r[1] = a
  OBVIOUS
<1>2. \A i \in 1 .. Len(q) : r[i + 1] = q[i]
  OBVIOUS
<1>3. r # <<>>
  BY <1>1
<1> QED
  BY <1>1, <1>2, <1>3

(* Paths that end in the tree can be made longer. *)
Tails(links, parent) ==
  {q \in Seq(Hops(links)) : q = <<>> \/ q[1].from \in DOMAIN parent}

LEMMA LongerType ==
  ASSUME NEW links \in Seq(Connections), NEW s, NEW parent \in Trees(links), NEW d,
         DepthsRight(links, s, parent, d), NEW h \in DOMAIN parent, NEW q \in Tails(links, parent)
  PROVE  Longer(h, s, parent, q) \in Tails(links, parent)
<1> DEFINE node == NextOf(h, q)
<1>1. CASE node = s
  BY <1>1 DEF Longer
<1>2. CASE node # s
  <2>1. node \in DOMAIN parent
    BY DEF NextOf, Tails
  <2>2. parent[node] \in Hops(links) /\ parent[node].from \in DOMAIN parent
    BY <1>2, <2>1 DEF Trees, DepthsRight
  <2>3. Longer(h, s, parent, q) = <<parent[node]>> \o q /\ q \in Seq(Hops(links))
    BY <1>2 DEF Longer, Tails
  <2> DEFINE r == Longer(h, s, parent, q)
             hop == parent[node]
  <2> HIDE DEF node, r
  <2>4. hop \in Hops(links) /\ hop.from \in DOMAIN parent /\ r = <<hop>> \o q
    BY <2>2, <2>3 DEF r
  <2> HIDE DEF hop
  <2>5. r \in Seq(Hops(links)) /\ r[1] = hop
    BY <2>3, <2>4, Prepended
  <2> QED
    BY <2>4, <2>5 DEF Tails, r
<1> QED
  BY <1>1, <1>2

LEMMA PathUpToIs ==
  ASSUME NEW links \in Seq(Connections), NEW s, NEW parent \in Trees(links), NEW d,
         DepthsRight(links, s, parent, d), NEW h \in DOMAIN parent,
         NEW n \in Nat, n = Cardinality(DOMAIN parent)
  PROVE  LET p == PathUpTo(h, s, parent)
         IN p[0] = <<>> /\ \A k \in 1 .. n : p[k] = Longer(h, s, parent, p[k - 1])
<1> DEFINE S == Tails(links, parent)
           step == [a \in S \X Nat |-> Longer(h, s, parent, a[1])]
           g == PathUpTo(h, s, parent)
           Values(f) == [k \in 0 .. n |->
                           IF k = 0 THEN <<>>
                           ELSE LET later == f[k - 1]
                                    node  == IF later = <<>> THEN h ELSE later[1].from
                                IN IF node = s THEN later ELSE <<parent[node]>> \o later]
<1>1. IsStep(step, S)
  BY LongerType DEF IsStep
<1>2. PICK f : Iterates(f, S, <<>>, step, n)
  <2>1. <<>> \in S
    BY DEF Tails
  <2> HIDE DEF step, S
  <2> QED
    BY <1>1, <2>1, Recursion
<1>3. \A k \in 1 .. n : f[k] = Longer(h, s, parent, f[k - 1])
  <2> SUFFICES ASSUME NEW k \in 1 .. n PROVE f[k] = Longer(h, s, parent, f[k - 1])
    OBVIOUS
  <2>1. k - 1 \in 0 .. n /\ k \in Nat
    OBVIOUS
  <2>2. <<f[k - 1], k>> \in S \X Nat
    BY <1>2, <2>1 DEF Iterates
  <2>3. f[k] = step[<<f[k - 1], k>>]
    BY <1>2 DEF Iterates
  <2> QED
    BY <2>2, <2>3
<1>4. f = Values(f)
  <2>1. f = [k \in 0 .. n |-> f[k]] /\ f[0] = <<>>
    BY <1>2 DEF Iterates
  <2>2. ASSUME NEW k \in 1 .. n PROVE f[k] = Values(f)[k]
    <3>1. k \in 0 .. n /\ k # 0
      OBVIOUS
    <3> QED
      BY <1>3, <3>1 DEF Longer, NextOf
  <2>3. f[0] = Values(f)[0] /\ \A k \in 0 .. n : k = 0 \/ k \in 1 .. n
    BY <2>1
  <2> QED
    BY <2>1, <2>2, <2>3
<1>5. g = Values(g)
  BY <1>4 DEF PathUpTo
<1> HIDE DEF g
<1>6. g[0] = <<>>
  BY <1>5
<1>7. ASSUME NEW k \in 1 .. n PROVE g[k] = Longer(h, s, parent, g[k - 1])
  <2>1. k \in 0 .. n /\ k # 0
    OBVIOUS
  <2> QED
    BY <1>5, <2>1 DEF Longer, NextOf
<1> QED
  BY <1>6, <1>7 DEF g

(* The last m hops of a path to h that follows the tree. *)
Leads(links, h, parent, d, m, q) ==
  /\ q \in Seq(Hops(links)) /\ Len(q) = m
  /\ m > 0 => /\ q[m].to = h
              /\ q[1].from \in DOMAIN parent \cap SwitchNodes /\ d[q[1].from] = d[h] - m
  /\ \A i \in 1 .. m :
       /\ LinkHop(links, q[i])
       /\ i < m => q[i].to \in SwitchNodes /\ q[i + 1].from = q[i].to

LEMMA LeadsLonger ==
  ASSUME NEW links \in Seq(Connections), NEW s, NEW parent \in Trees(links), NEW d,
         DepthsRight(links, s, parent, d), NEW h \in DOMAIN parent, h # s,
         NEW m \in Nat, m < d[h], NEW q, Leads(links, h, parent, d, m, q)
  PROVE  Leads(links, h, parent, d, m + 1, Longer(h, s, parent, q))
<1> DEFINE node == NextOf(h, q)
           hop  == parent[node]
           r    == Longer(h, s, parent, q)
<1>1. q \in Seq(Hops(links)) /\ Len(q) = m /\ (q = <<>> <=> m = 0)
  BY DEF Leads
<1>2. d[h] \in Nat /\ \A z \in DOMAIN parent : d[z] \in Nat
  BY DEF DepthsRight
<1>3. /\ node \in DOMAIN parent /\ d[node] = d[h] - m
      /\ m = 0 => node = h
      /\ m > 0 => node = q[1].from /\ node \in SwitchNodes
  BY <1>1, <1>2 DEF NextOf, Leads
<1>4. node # s
  BY <1>2, <1>3 DEF DepthsRight
<1> HIDE DEF node
<1>5. /\ hop \in Hops(links) /\ hop.to = node /\ LinkHop(links, hop)
      /\ hop.from \in DOMAIN parent \cap SwitchNodes /\ d[node] = d[hop.from] + 1
  BY <1>3, <1>4 DEF Trees, DepthsRight
<1>6. r = <<hop>> \o q
  BY <1>4 DEF Longer, node
<1> HIDE DEF hop, r
<1>7. /\ r \in Seq(Hops(links)) /\ Len(r) = m + 1 /\ r[1] = hop
      /\ \A i \in 1 .. m : r[i + 1] = q[i]
  BY <1>1, <1>5, <1>6, Prepended
<1>8. r[m + 1].to = h
  <2>1. CASE m = 0
    BY <2>1, <1>3, <1>5, <1>7
  <2>2. CASE m > 0
    <3>1. m \in 1 .. m
      BY <2>2
    <3> QED
      BY <2>2, <3>1, <1>7 DEF Leads
  <2> QED
    BY <2>1, <2>2
<1>9. d[r[1].from] = d[h] - (m + 1) /\ r[1].from \in DOMAIN parent \cap SwitchNodes
  <2>1. /\ d[hop.from] \in Nat /\ d[h] \in Nat
        /\ d[hop.from] + 1 = d[h] - m
    BY <1>2, <1>3, <1>5
  <2>2. d[hop.from] = d[h] - (m + 1)
    BY <2>1
  <2> QED
    BY <2>2, <1>5, <1>7
<1>10. ASSUME NEW i \in 1 .. m + 1
       PROVE  /\ LinkHop(links, r[i])
              /\ i < m + 1 => r[i].to \in SwitchNodes /\ r[i + 1].from = r[i].to
  <2>1. CASE i = 1
    <3>1. LinkHop(links, r[i])
      BY <2>1, <1>5, <1>7
    <3>2. m > 0 => r[1].to \in SwitchNodes /\ r[1 + 1].from = r[1].to
      BY <1>3, <1>5, <1>7
    <3> QED
      BY <2>1, <3>1, <3>2
  <2>2. CASE i # 1
    <3>1. i - 1 \in 1 .. m /\ (i - 1) + 1 = i /\ (i < m + 1 => i - 1 < m /\ i \in 1 .. m)
      BY <2>2
    <3>2. r[i] = q[i - 1] /\ (i < m + 1 => r[i + 1] = q[i])
      BY <3>1, <1>7
    <3> QED
      BY <3>1, <3>2 DEF Leads
  <2> QED
    BY <2>1, <2>2
<1> QED
  BY <1>7, <1>8, <1>9, <1>10 DEF Leads, r

(* The path that is reconstructed is as long as the host is deep. *)
LEMMA PathRight ==
  ASSUME NEW links \in Seq(Connections), NEW s, NEW parent \in Trees(links), NEW d,
         DepthsRight(links, s, parent, d), NEW h \in DOMAIN parent, h # s,
         Cardinality(DOMAIN parent) \in Nat
  PROVE  /\ IsPath(links, PathTo(h, s, parent), s, h) /\ Len(PathTo(h, s, parent)) = d[h]
         /\ PathTo(h, s, parent) \in Seq(Hops(links))
<1> DEFINE n == Cardinality(DOMAIN parent)
           p == PathUpTo(h, s, parent)
           Depth(k) == IF k <= d[h] THEN k ELSE d[h]
           T == {k \in 0 .. n : Leads(links, h, parent, d, Depth(k), p[k])}
<1>1. p[0] = <<>> /\ \A k \in 1 .. n : p[k] = Longer(h, s, parent, p[k - 1])
  BY PathUpToIs
<1> HIDE DEF p
<1>2. d[h] \in Nat /\ d[h] < n /\ d[h] > 0 /\ n \in Nat
  BY DEF DepthsRight
<1> HIDE DEF n
<1>3. 0 \in T
  <2>1. Leads(links, h, parent, d, 0, <<>>)
    BY DEF Leads
  <2>2. Depth(0) = 0 /\ 0 \in 0 .. n
    BY <1>2
  <2> QED
    BY <1>1, <2>1, <2>2
<1>4. ASSUME NEW k \in 0 .. n - 1, k \in T PROVE k + 1 \in T
  <2>1. k + 1 \in 1 .. n /\ k + 1 \in 0 .. n /\ (k + 1) - 1 = k /\ k \in Nat
    BY <1>2
  <2>2. p[k + 1] = Longer(h, s, parent, p[k])
    BY <1>1, <2>1
  <2>3. CASE k < d[h]
    <3>1. Depth(k) = k /\ Depth(k + 1) = k + 1
      BY <2>1, <2>3, <1>2
    <3>2. Leads(links, h, parent, d, k, p[k])
      BY <1>4, <3>1
    <3>3. Leads(links, h, parent, d, k + 1, p[k + 1])
      BY <2>1, <2>2, <2>3, <3>2, LeadsLonger
    <3> QED
      BY <2>1, <3>1, <3>3
  <2>4. CASE k >= d[h]
    <3>1. Depth(k) = d[h] /\ Depth(k + 1) = d[h]
      BY <2>1, <2>4, <1>2
    <3>2. Leads(links, h, parent, d, d[h], p[k])
      BY <1>4, <3>1
    <3>3. p[k] # <<>> /\ p[k][1].from \in DOMAIN parent /\ d[p[k][1].from] = 0
      BY <3>2, <1>2 DEF Leads
    <3>4. NextOf(h, p[k]) = s
      BY <3>3 DEF NextOf, DepthsRight
    <3>5. p[k + 1] = p[k]
      BY <2>2, <3>4 DEF Longer
    <3> QED
      BY <2>1, <3>1, <3>2, <3>5
  <2> QED
    BY <2>1, <2>3, <2>4, <1>2
<1>5. Leads(links, h, parent, d, d[h], p[n])
  <2> HIDE DEF T
  <2>1. n \in 0 .. n /\ \A k \in 0 .. n : k \in T
    BY <1>2, <1>3, <1>4, Induct
  <2>2. Leads(links, h, parent, d, Depth(n), p[n])
    BY <2>1 DEF T
  <2>3. Depth(n) = d[h]
    BY <1>2
  <2> QED
    BY <2>2, <2>3
<1> DEFINE path == PathTo(h, s, parent)
<1>6. path = p[n]
  BY PathToIs DEF p, n
<1> HIDE DEF path
<1>7. path \in Seq(Hops(links)) /\ Len(path) = d[h] /\ path # <<>>
  BY <1>2, <1>5, <1>6 DEF Leads
<1>8. path[1].from = s
  <2>1. path[1].from \in DOMAIN parent /\ d[path[1].from] = 0
    BY <1>2, <1>5, <1>6 DEF Leads
  <2> QED
    BY <2>1 DEF DepthsRight
<1>9. Last(path).to = h
  BY <1>2, <1>5, <1>6, <1>7 DEF Leads, Last
<1>10. ASSUME NEW k \in DOMAIN path
       PROVE  /\ LinkHop(links, path[k])
              /\ k < Len(path) => path[k].to \in SwitchNodes /\ path[k + 1].from = path[k].to
  <2>1. k \in 1 .. d[h]
    BY <1>7
  <2> QED
    BY <2>1, <1>5, <1>6, <1>7 DEF Leads
<1> QED
  BY <1>7, <1>8, <1>9, <1>10 DEF IsPath, LinkHop, path

-------------------------------------------------------------------------------
(* The routes of a switch. *)
LEMMA RoutesShortest ==
  ASSUME NEW links \in Seq(Connections), NEW s \in SwitchesOf(links), NEW h \in HostsOf(links),
         NEW r, r = RoutesFrom(links, s)
  PROVE  IF h \in DOMAIN r
         THEN IsPath(links, r[h], s, h) /\ h \notin WithinHops(links, s, Len(r[h]) - 1)
         ELSE h \notin WithinHops(links, s, Cardinality(Nodes(links)))
<1> DEFINE parent == ParentsFrom(links, s)
<1>1. s \in Nodes(links) /\ s \in SwitchNodes /\ h \notin SwitchNodes /\ h # s
  BY DEF SwitchesOf, HostsOf
<1>2. /\ parent \in Trees(links) /\ Cardinality(DOMAIN parent) \in Nat
      /\ \E d : /\ DepthsRight(links, s, parent, d)
                /\ \A z \in DOMAIN parent : Reached(links, parent, d, z)
  BY <1>1, SearchEnds
<1>3. /\ DOMAIN r = DOMAIN parent \cap HostsOf(links)
      /\ \A x \in DOMAIN r : r[x] = PathTo(x, s, parent)
  BY DEF RoutesFrom
<1> HIDE DEF parent
<1>4. PICK d : /\ DepthsRight(links, s, parent, d)
               /\ \A z \in DOMAIN parent : Reached(links, parent, d, z)
  BY <1>2
<1>5. CASE h \in DOMAIN r
  <2>1. h \in DOMAIN parent /\ r[h] = PathTo(h, s, parent)
    BY <1>3, <1>5
  <2>2. IsPath(links, r[h], s, h) /\ Len(r[h]) = d[h]
    BY <1>1, <1>2, <1>4, <2>1, PathRight
  <2>3. d[h] \in Nat /\ d[h] - 1 \in Nat /\ ~(d[h] <= d[h] - 1)
    BY <1>1, <1>4, <2>1 DEF DepthsRight
  <2>4. h \notin WithinHops(links, s, d[h] - 1)
    BY <1>1, <1>4, <2>3, WithinDepth
  <2> QED
    BY <1>5, <2>2, <2>4
<1>6. CASE h \notin DOMAIN r
  <2>1. h \notin DOMAIN parent
    BY <1>3, <1>6
  <2>2. Cardinality(Nodes(links)) \in Nat
    BY NodesFinite, FS_CardinalityType
  <2> QED
    BY <1>1, <1>4, <1>6, <2>1, <2>2, WithinDepth
<1> QED
  BY <1>5, <1>6

-------------------------------------------------------------------------------
(* Hosts and switches of a network. *)
LEMMA LastIsThere ==
  ASSUME NEW S, NEW links \in Seq(S), NEW L \in SUBSET DOMAIN links, L # {}
  PROVE  LastOf(L) \in L /\ \A m \in L : m <= LastOf(L)
<1> DEFINE T == {Len(links) - n : n \in L}
<1>1. Len(links) \in Nat /\ \A n \in L : n \in 1 .. Len(links)
  OBVIOUS
<1>2. T \in SUBSET Nat /\ T # {}
  BY <1>1
<1>3. PICK t \in T : \A u \in T : t <= u
  <2> HIDE DEF T
  <2> QED
    BY <1>2, LeastNumber
<1>4. PICK n \in L : t = Len(links) - n
  OBVIOUS
<1>5. \A m \in L : m <= n
  <2> SUFFICES ASSUME NEW m \in L PROVE m <= n
    OBVIOUS
  <2>1. t <= Len(links) - m
    BY <1>3
  <2> QED
    BY <1>1, <1>4, <2>1
<1> QED
  BY <1>4, <1>5 DEF LastOf

LEMMA LinksOfNetwork ==
  ASSUME topo \in Topologies, NEW n \in DOMAIN topo
  PROVE  /\ topo \in Seq(Connections) /\ topo[n] \in Connections /\ topo[n] \in Range(topo)
         /\ \E k \in {1, 2} : topo[n][k].node \in SwitchNodes
         /\ \A k \in {1, 2} : /\ topo[n][k] \in Ends(topo)
                              /\ topo[n][k].node \in Nodes(topo)
                              /\ topo[n][k].node \in SwitchNodes =>
                                   topo[n][k].node \in Switches /\ topo[n][k].port \in Ports
<1>1. topo \in Seq(Connections) /\ topo[n] \in Range(topo)
  BY NetAssumption DEF Range
<1>2. topo[n] \in Connections
  BY <1>1
<1>3. \A k \in {1, 2} : topo[n][k] \in Ends(topo)
  BY <1>1 DEF Ends
<1>4. \A k \in {1, 2} : topo[n][k].node \in Nodes(topo)
  BY <1>3 DEF Nodes
<1> QED
  BY <1>1, <1>2, <1>3, <1>4, NetAssumption DEF Switches, SwitchesOf

(* A host is attached to a port of a switch. *)
LEMMA AttachedToSwitch ==
  ASSUME topo \in Topologies, NEW h \in Hosts
  PROVE  AttachedTo(topo, h).node \in Switches /\ AttachedTo(topo, h).port \in Ports
<1> DEFINE L == {n \in DOMAIN topo : Joins(topo[n], h)}
<1>1. topo \in Seq(Connections)
  BY NetAssumption
<1>2. PICK end \in Ends(topo) : end.node = h
  BY DEF Hosts, HostsOf, Nodes
<1>3. PICK n \in DOMAIN topo : end \in {topo[n][1], topo[n][2]}
  BY <1>2 DEF Ends, Range
<1>4. L # {}
  BY <1>2, <1>3 DEF Joins
<1>5. LastOf(L) \in L
  BY <1>1, <1>4, LastIsThere
<1>6. PICK m \in DOMAIN topo : m = LastOf(L) /\ Joins(topo[m], h)
  BY <1>5
<1>7. AttachedTo(topo, h) = Across(topo[m], h)
  BY <1>6 DEF AttachedTo
<1>8. h \notin SwitchNodes
  BY DEF Hosts, HostsOf
<1> HIDE DEF L
<1> QED
  BY <1>6, <1>7, <1>8, LinksOfNetwork DEF Across, Joins

(* Behind a port of a switch is a node of the network. *)
LEMMA BehindIsNode ==
  ASSUME topo \in Topologies, NEW s \in Switches, NEW o \in DOMAIN Behind(topo, s)
  PROVE  Behind(topo, s)[o] \in Switches \cup Hosts
<1> DEFINE end == [node |-> s, port |-> o]
           L == LinesAt(topo, end)
<1>1. topo \in Seq(Connections)
  BY NetAssumption
<1>2. o \in PortsOf(topo, s)
  BY DEF Behind
<1>3. PICK e \in Ends(topo) : e.node = s /\ e.port = o
  BY <1>2 DEF PortsOf
<1>4. PICK n \in DOMAIN topo : e \in {topo[n][1], topo[n][2]}
  BY <1>3 DEF Ends, Range
<1>5. e = end
  BY <1>3, <1>4, LinksOfNetwork DEF Connections, End
<1>6. L # {} /\ L \subseteq DOMAIN topo
  BY <1>4, <1>5 DEF LinesAt
<1>7. LastOf(L) \in L
  BY <1>1, <1>6, LastIsThere
<1>8. PICK m \in DOMAIN topo : m = LastOf(L)
  BY <1>6, <1>7
<1>9. Behind(topo, s)[o] = IF topo[m][1] = end THEN topo[m][2].node ELSE topo[m][1].node
  BY <1>2, <1>8 DEF Behind
<1> QED
  BY <1>9, LinksOfNetwork DEF Switches, SwitchesOf, Hosts, HostsOf

-------------------------------------------------------------------------------
LEMMA InSum ==
  ASSUME NEW B, NEW C
  PROVE  BagToSet(B (+) C) = BagToSet(B) \cup BagToSet(C)
  BY DEF BagToSet, (+)

LEMMA InDifference ==
  ASSUME NEW B, NEW C
  PROVE  BagToSet(B (-) C) \subseteq BagToSet(B)
  BY DEF BagToSet, (-)

LEMMA OfSet ==
  ASSUME NEW S
  PROVE  BagToSet(SetToBag(S)) = S
  BY DEF BagToSet, SetToBag

LEMMA InEmpty == BagToSet(EmptyBag) = {}
  BY OfSet DEF EmptyBag

(* The inductive invariant: times are numbers, the loop has begun once it  *)
(* is on, and until then the time is the start.                            *)
InTime ==
  /\ now \in Nat
  /\ loop \in [on : BOOLEAN, begun : BOOLEAN, left : Int]
  /\ loop.on => loop.begun
  /\ ~loop.begun => now = 0
  /\ \A e \in BagToSet(queue) : e.time \in Nat /\ now <= e.time

(* Every transmission takes some time. *)
LEMMA RoutedLater ==
  ASSUME NEW s, NEW o, NEW p, NEW t \in Nat, NEW e \in Routed(s, o, p, t)
  PROVE  e.time \in Nat /\ t <= e.time
<1>1. e.time = t + HostDelay \/ e.time = t + SwitchDelay
  BY DEF Routed, Transmission
<1> QED
  BY <1>1, NetAssumption

(* What is on the heap after an event. *)
LEMMA QueueAfter ==
  ASSUME NEW e, NEW events, Processed(e, events)
  PROVE  /\ \A f \in BagToSet(queue') :
              \/ f \in BagToSet(queue)
              \/ f \in events
              \/ \E s \in Pending' : f = Cycle(e.time + CycleTime, s)
         /\ \A s \in Pending' : Cycle(e.time + CycleTime, s) \in BagToSet(queue')
<1> DEFINE cycles == {Cycle(e.time + CycleTime, s) : s \in Pending'}
           rest   == queue (-) SetToBag({e})
<1>1. queue' = (rest (+) SetToBag(events)) (+) SetToBag(cycles)
  BY DEF Processed
<1>2. BagToSet(queue') = (BagToSet(rest) \cup events) \cup cycles
  BY <1>1, InSum, OfSet
<1>3. BagToSet(rest) \subseteq BagToSet(queue)
  BY InDifference
<1> QED
  BY <1>2, <1>3

LEMMA TimeMovesOn ==
  ASSUME InTime, NEW e \in BagToSet(queue), IsNext(e), loop.on,
         NEW events, \A f \in events : f.time \in Nat /\ e.time <= f.time,
         Processed(e, events)
  PROVE  InTime'
<1>1. now' = e.time /\ e.time \in Nat
  BY DEF InTime, Processed
<1>2. /\ loop' \in [on : BOOLEAN, begun : BOOLEAN, left : Int]
      /\ loop'.on = loop.on /\ loop'.begun = loop.begun
  <2> DEFINE left == IF loop.left = Unlimited THEN loop.left ELSE loop.left - 1
  <2>1. loop \in [on : BOOLEAN, begun : BOOLEAN, left : Int] /\ left \in Int
    BY DEF InTime
  <2>2. loop' = [loop EXCEPT !.left = left]
    BY DEF Processed
  <2> QED
    BY <2>1, <2>2
<1>3. ASSUME NEW f \in BagToSet(queue')
      PROVE  f.time \in Nat /\ e.time <= f.time
  <2>1. CASE f \in BagToSet(queue)
    BY <2>1, <1>1 DEF InTime, IsNext, Before
  <2>2. CASE f \in events
    BY <2>2
  <2>3. CASE \E s : f = Cycle(e.time + CycleTime, s)
    BY <2>3, <1>1, NetAssumption DEF Cycle
  <2> QED
    BY <2>1, <2>2, <2>3, <1>3, QueueAfter
<1> QED
  BY <1>1, <1>2, <1>3 DEF InTime

(* The three kinds of events. *)
LEMMA EventInTime ==
  ASSUME InTime, ProcessEvent
  PROVE  InTime'
<1>1. PICK e \in BagToSet(queue) :
        /\ loop.on /\ IsNext(e)
        /\ ProcessInjection(e) \/ ProcessTransmission(e) \/ ProcessSwitchCycle(e)
  BY DEF ProcessEvent
<1>2. CASE Processed(e, {})
  BY <1>1, <1>2, TimeMovesOn
<1>3. CASE \E w : BusyCycle(e, e.switch, w)
  <2> PICK w : BusyCycle(e, e.switch, w)
    BY <1>3
  <2>1. PICK M \in Matchings(w) :
          Processed(e, UNION {Routed(e.switch, c[2], Head(w.voq[c]), e.time) : c \in M})
    BY DEF BusyCycle
  <2>2. e.time \in Nat
    BY <1>1 DEF InTime
  <2> QED
    BY <1>1, <2>1, <2>2, RoutedLater, TimeMovesOn
<1>4. CASE ProcessInjection(e) \/ ProcessTransmission(e)
  BY <1>4, <1>2 DEF ProcessInjection, ProcessTransmission
<1>5. CASE ProcessSwitchCycle(e)
  BY <1>5, <1>2, <1>3 DEF ProcessSwitchCycle, QuietCycle
<1> QED
  BY <1>1, <1>4, <1>5

LEMMA ScheduleInTime ==
  ASSUME InTime, NEW trace \in Traces, ScheduleTrace(trace)
  PROVE  InTime'
<1> DEFINE injections == {Inject(trace[k].time, k) : k \in Known(trace)}
<1>1. trace \in Seq(Entry) /\ Known(trace) \subseteq DOMAIN trace
  BY NetAssumption DEF Known
<1>2. \A k \in Known(trace) : trace[k].time \in Nat
  <2>1. \A k \in DOMAIN trace : trace[k] \in Entry
    BY <1>1
  <2> QED
    BY <1>1, <2>1 DEF Entry
<1>3. \A f \in injections : f.time \in Nat
  BY <1>2 DEF Inject
<1>4. queue' = queue (+) SetToBag(injections) /\ now' = now /\ loop' = loop /\ now = 0
  BY DEF ScheduleTrace, InTime
<1>5. BagToSet(queue') = BagToSet(queue) \cup injections
  BY <1>4, InSum, OfSet
<1> QED
  BY <1>3, <1>4, <1>5 DEF InTime

(* The times of the events and of the simulation stay in order: the heap   *)
(* hands out what is due first, and handlers schedule from its time on.    *)
THEOREM TimeInvariant == NetSpec => []InTime
<1>1. NetInit => InTime
  BY InEmpty DEF NetInit, InTime, Unlimited
<1>2. ASSUME InTime, [NetNext]_netVars
      PROVE  InTime'
  <2>1. CASE \E trace \in Traces : ScheduleTrace(trace)
    BY <2>1, <1>2, ScheduleInTime
  <2>2. CASE \E limit \in Limits : StartRun(limit)
    BY <2>2, <1>2, NetAssumption DEF StartRun, InTime, Unlimited
  <2>3. CASE ProcessEvent
    BY <2>3, <1>2, EventInTime
  <2>4. CASE EndRun
    BY <2>4, <1>2 DEF EndRun, InTime
  <2>5. CASE Reset
    BY <2>5, <1>2, InEmpty DEF Reset, InTime
  <2>6. CASE UNCHANGED netVars
    BY <2>6, <1>2 DEF netVars, InTime
  <2> QED
    BY <1>2, <2>1, <2>2, <2>3, <2>4, <2>5, <2>6 DEF NetNext, RunLoop
<1> QED
  BY <1>1, <1>2, PTL DEF NetSpec

(* The simulation never goes back in time, whatever the delays, the trace  *)
(* and what the switches do.                                               *)
THEOREM TimeMovesForward == NetSpec => []NothingInThePast
<1>1. InTime => NothingInThePast
  BY DEF InTime, NothingInThePast
<1> QED
  BY <1>1, TimeInvariant, PTL

-------------------------------------------------------------------------------
LEMMA IdleHasNoWork == ~HasPendingWork(IdleSwitch)
  BY DEF HasPendingWork, Inside, IdleSwitch

(* Every event leaves a cycle one cycle time ahead for each switch with    *)
(* work; nothing else gives a switch work or takes an event away.          *)
LEMMA EventKeepsCycles ==
  ASSUME InTime, NEW e \in BagToSet(queue), NEW events, Processed(e, events)
  PROVE  PendingSwitchesRun'
<1>1. now' = e.time /\ e.time \in Nat
  BY DEF InTime, Processed
<1>2. e.time + CycleTime \in now' .. now' + CycleTime
  BY <1>1, NetAssumption
<1>3. ASSUME NEW s \in Switches', HasPendingWork(switch'[s])
      PROVE  Cycle(e.time + CycleTime, s) \in BagToSet(queue')
  BY <1>3, QueueAfter DEF Pending
<1> QED
  BY <1>2, <1>3 DEF PendingSwitchesRun

(* No switch with work is left without a cycle within a cycle time, also   *)
(* where the loop stopped at its limit.                                    *)
THEOREM NoSwitchForgotten == NetSpec => []PendingSwitchesRun
<1>1. NetInit => PendingSwitchesRun
  <2> SUFFICES ASSUME NetInit, NEW s \in Switches
               PROVE  ~HasPendingWork(switch[s])
    BY DEF PendingSwitchesRun
  <2> QED
    BY IdleHasNoWork DEF NetInit, Switches
<1>2. ASSUME PendingSwitchesRun, InTime, [NetNext]_netVars
      PROVE  PendingSwitchesRun'
  <2>1. CASE \E trace \in Traces : ScheduleTrace(trace)
    <3>1. BagToSet(queue) \subseteq BagToSet(queue')
      BY <2>1, InSum DEF ScheduleTrace
    <3> QED
      BY <1>2, <2>1, <3>1
      DEF ScheduleTrace, state, PendingSwitchesRun, Switches
  <2>2. CASE \E limit \in Limits : StartRun(limit)
    BY <1>2, <2>2 DEF StartRun, state, PendingSwitchesRun, Switches
  <2>3. CASE ProcessEvent
    <3>1. \E e \in BagToSet(queue) : \E events : Processed(e, events)
      BY <2>3 DEF ProcessEvent, ProcessInjection, ProcessTransmission, ProcessSwitchCycle,
                  BusyCycle, QuietCycle
    <3> QED
      BY <1>2, <3>1, EventKeepsCycles
  <2>4. CASE EndRun
    BY <1>2, <2>4 DEF EndRun, state, PendingSwitchesRun, Switches
  <2>5. CASE Reset
    <3>1. \A s \in Switches' : switch'[s] = IdleSwitch
      BY <2>5 DEF Reset, Switches
    <3> QED
      BY <3>1, IdleHasNoWork DEF PendingSwitchesRun
  <2>6. CASE UNCHANGED netVars
    BY <1>2, <2>6 DEF netVars, state, PendingSwitchesRun, Switches
  <2> QED
    BY <1>2, <2>1, <2>2, <2>3, <2>4, <2>5, <2>6 DEF NetNext, RunLoop
<1> QED
  BY <1>1, <1>2, TimeInvariant, PTL DEF NetSpec

-------------------------------------------------------------------------------
(* The packets that have been injected: they have a record, or had one of  *)
(* the same id.                                                            *)
Awaits(p) == \E e \in BagToSet(queue) : e.kind = "inject" /\ e.packet = p
Entered == {p \in DOMAIN entries : ~Awaits(p) /\ entries[p].id \in DOMAIN active}

(* A packet is injected once, and a transmission to a host is of a packet  *)
(* addressed to it.                                                        *)
EventsInOrder ==
  \A e \in BagToSet(queue) :
    /\ e.kind = "inject" => /\ e.packet \in DOMAIN entries /\ queue[e] = 1
                            /\ e = Inject(entries[e.packet].time, e.packet)
    /\ e.kind = "transmit" => e.packet \in Entered /\ (e.to \in Hosts => e.to = Dst(e.packet))
    /\ e.kind = "cycle" => e.switch \in Switches

SwitchStates(S) ==
  [rx : [Ports -> Seq(S)], voq : [Ports \X Ports -> Seq(S)], slack : 0 .. MaxQuiet,
   clock : Nat]

DeliveredRight == \A d \in delivered : d[1] \in Entered /\ d[2] = Dst(d[1])

(* The record of an id is of a packet with that id, and says when one that *)
(* bears it was delivered.                                                 *)
RecordsRight ==
  /\ active \in [DOMAIN active -> [packet : Entered, completed : Nat \cup {Never}]]
  /\ \A id \in DOMAIN active :
       LET p == active[id].packet
           t == active[id].completed
       IN /\ entries[p].id = id
          /\ IF t = Never THEN id < IdMod => \A d \in delivered : d[1] # p
                          ELSE \E d \in delivered : Id(d[1]) = id /\ d[3] = t

PacketsInv ==
  /\ entries \in Seq(Entry)
  /\ EventsInOrder
  /\ switch \in [Switches -> SwitchStates(Entered)]
  /\ DeliveredRight
  /\ RecordsRight

-------------------------------------------------------------------------------
LEMMA Remainder ==
  ASSUME NEW n \in Nat, NEW m \in Nat \ {0}, n < m
  PROVE  n % m = n
  OBVIOUS

LEMMA SequencesGrow ==
  ASSUME NEW S, NEW T, S \subseteq T
  PROVE  Seq(S) \subseteq Seq(T)
<1> SUFFICES ASSUME NEW s \in Seq(S) PROVE s \in Seq(T)
  OBVIOUS
<1>1. s \in [1 .. Len(s) -> S] /\ Len(s) \in Nat
  OBVIOUS
<1>2. s \in [1 .. Len(s) -> T]
  BY <1>1
<1> QED
  BY <1>1, <1>2

LEMMA StatesGrow ==
  ASSUME NEW S, NEW T, S \subseteq T
  PROVE  SwitchStates(S) \subseteq SwitchStates(T)
  BY SequencesGrow DEF SwitchStates

LEMMA IdleIsState == \A S : IdleSwitch \in SwitchStates(S)
  BY NetAssumption DEF IdleSwitch, SwitchStates

(* How often an event is on a heap to which others are added ... *)
LEMMA CountInSum ==
  ASSUME NEW B, NEW S, NEW x \in BagToSet(B (+) SetToBag(S)), x \notin S
  PROVE  x \in BagToSet(B) /\ (B[x] \in Int => (B (+) SetToBag(S))[x] = B[x])
  BY DEF BagToSet, (+), SetToBag

(* ... and from which one is taken. *)
LEMMA CountInRest ==
  ASSUME NEW B, NEW e, NEW x \in BagToSet(B (-) SetToBag({e})), B[e] = 1 \/ x # e
  PROVE  x # e /\ x \in BagToSet(B) /\ (B (-) SetToBag({e}))[x] = B[x]
  BY DEF BagToSet, (-), SetToBag

(* What a handler may add to the heap. *)
Transmissions(events) ==
  \A f \in events :
    /\ f.kind = "transmit" /\ f.packet \in Entered
    /\ f.to \in Hosts => f.to = Dst(f.packet)

LEMMA NoMoreInjections ==
  ASSUME EventsInOrder, NEW e \in BagToSet(queue), NEW events, Transmissions(events),
         Processed(e, events), NEW f \in BagToSet(queue'), f.kind = "inject"
  PROVE  f \in BagToSet(queue) /\ f # e /\ queue'[f] = 1
<1> DEFINE cycles == {Cycle(e.time + CycleTime, s) : s \in Pending'}
           rest   == queue (-) SetToBag({e})
           more   == rest (+) SetToBag(events)
<1>1. queue' = more (+) SetToBag(cycles)
  BY DEF Processed
<1>2. f \notin cycles
  BY DEF Cycle
<1>3. f \notin events
  BY DEF Transmissions
<1>4. f \in BagToSet(more)
  BY <1>1, <1>2, CountInSum
<1>5. f \in BagToSet(rest)
  BY <1>3, <1>4, CountInSum
<1>6. f \in BagToSet(queue)
  BY <1>5, InDifference
<1>7. queue[f] = 1
  BY <1>6 DEF EventsInOrder
<1>8. f # e /\ rest[f] = 1
  BY <1>5, <1>7, CountInRest
<1>9. more[f] = 1
  BY <1>3, <1>4, <1>8, CountInSum
<1>10. queue'[f] = 1
  BY <1>1, <1>2, <1>9, CountInSum
<1> QED
  BY <1>6, <1>8, <1>10

(* The packets that have entered stay so, and an injection adds its own. *)
LEMMA MoreEntered ==
  ASSUME EventsInOrder, NEW e \in BagToSet(queue), NEW events, Transmissions(events),
         Processed(e, events), DOMAIN active \subseteq DOMAIN active',
         e.kind = "inject" => entries[e.packet].id \in DOMAIN active'
  PROVE  /\ Entered \subseteq Entered'
         /\ e.kind = "inject" => e.packet \in Entered' /\ e.packet \notin Entered
         /\ EventsInOrder'
         /\ entries' = entries /\ topo' = topo /\ routes' = routes
<1>1. entries' = entries /\ topo' = topo /\ routes' = routes
  BY DEF Processed
<1>2. \A p : Dst(p)' = Dst(p)
  BY <1>1 DEF Dst
<1>3. \A f \in BagToSet(queue') : f.kind = "inject" =>
        f \in BagToSet(queue) /\ f # e /\ queue'[f] = 1
  BY NoMoreInjections
<1>4. Entered \subseteq Entered'
  BY <1>1, <1>3 DEF Entered, Awaits
<1>5. ASSUME e.kind = "inject"
      PROVE  e.packet \in Entered' /\ e.packet \notin Entered
  <2>1. e.packet \in DOMAIN entries /\ e = Inject(entries[e.packet].time, e.packet)
    BY <1>5 DEF EventsInOrder
  <2>2. ASSUME NEW f \in BagToSet(queue'), f.kind = "inject", f.packet = e.packet
        PROVE  FALSE
    <3>1. f \in BagToSet(queue) /\ f # e
      BY <1>3, <2>2
    <3>2. f = Inject(entries[f.packet].time, f.packet)
      BY <3>1, <2>2 DEF EventsInOrder
    <3> QED
      BY <2>1, <2>2, <3>1, <3>2
  <2> QED
    BY <1>1, <1>5, <2>1, <2>2 DEF Entered, Awaits
<1>6. EventsInOrder'
  <2> SUFFICES ASSUME NEW f \in BagToSet(queue')
               PROVE  /\ f.kind = "inject" =>
                           /\ f.packet \in DOMAIN entries /\ queue'[f] = 1
                           /\ f = Inject(entries[f.packet].time, f.packet)
                      /\ f.kind = "transmit" =>
                           f.packet \in Entered' /\ (f.to \in Hosts => f.to = Dst(f.packet))
                      /\ f.kind = "cycle" => f.switch \in Switches
    BY <1>1, <1>2 DEF EventsInOrder, Hosts, Switches
  <2>1. ASSUME f.kind = "inject"
        PROVE  /\ f.packet \in DOMAIN entries /\ queue'[f] = 1
               /\ f = Inject(entries[f.packet].time, f.packet)
    BY <1>3, <2>1 DEF EventsInOrder
  <2>2. \/ f \in BagToSet(queue)
        \/ f \in events
        \/ f.kind = "cycle" /\ f.switch \in Switches
    BY <1>1, QueueAfter DEF Cycle, Pending, Switches
  <2>3. f.kind = "transmit" =>
          f.packet \in Entered' /\ (f.to \in Hosts => f.to = Dst(f.packet))
    BY <1>4, <2>2 DEF EventsInOrder, Transmissions
  <2>4. f.kind = "cycle" => f.switch \in Switches
    BY <2>2 DEF EventsInOrder, Transmissions
  <2> QED
    BY <2>1, <2>3, <2>4
<1> QED
  BY <1>1, <1>4, <1>5, <1>6

-------------------------------------------------------------------------------
(* A switch hands on what it holds. *)
LEMMA Appended ==
  ASSUME NEW S, NEW q \in Seq(S), NEW x \in S
  PROVE  Append(q, x) \in Seq(S) /\ Append(q, x) # <<>>
<1>1. Append(q, x) \in Seq(S) /\ Len(Append(q, x)) = Len(q) + 1 /\ Len(q) \in Nat
  OBVIOUS
<1>2. Len(<<>>) = 0
  OBVIOUS
<1> QED
  BY <1>1, <1>2

LEMMA ReceivedIsState ==
  ASSUME NEW S, NEW w \in SwitchStates(S), NEW port, NEW p \in S
  PROVE  ReceivePacket(w, port, p) \in SwitchStates(S)
<1>1. MaxQuiet \in 0 .. MaxQuiet
  BY NetAssumption
<1>2. w.rx \in [Ports -> Seq(S)]
  BY DEF SwitchStates
<1>3. [w.rx EXCEPT ![port] = Append(@, p)] \in [Ports -> Seq(S)]
  <2>1. port \in Ports => Append(w.rx[port], p) \in Seq(S)
    BY <1>2, Appended
  <2> QED
    BY <1>2, <2>1
<1> QED
  BY <1>1, <1>3 DEF ReceivePacket, SwitchStates

LEMMA LookedUpIsState ==
  ASSUME NEW S, NEW w \in SwitchStates(S), NEW in \in Ports, w.rx[in] # <<>>, NEW outs
  PROVE  /\ LookedUp(w, in, outs) \in SwitchStates(S)
         /\ \A c \in Ports \X Ports : w.voq[c] # <<>> => LookedUp(w, in, outs).voq[c] # <<>>
<1> DEFINE voq == [c \in Ports \X Ports |->
                     IF c[1] = in /\ c[2] \in outs THEN Append(w.voq[c], Head(w.rx[in]))
                                                   ELSE w.voq[c]]
           rx == [w.rx EXCEPT ![in] = Tail(@)]
<1>1. w.rx \in [Ports -> Seq(S)] /\ w.voq \in [Ports \X Ports -> Seq(S)]
  BY DEF SwitchStates
<1>2. Head(w.rx[in]) \in S /\ Tail(w.rx[in]) \in Seq(S)
  BY <1>1
<1>3. rx \in [Ports -> Seq(S)]
  BY <1>1, <1>2
<1>4. voq \in [Ports \X Ports -> Seq(S)]
  BY <1>1, <1>2
<1>5. \A c \in Ports \X Ports : w.voq[c] # <<>> => voq[c] # <<>>
  <2>1. \A c \in Ports \X Ports : Append(w.voq[c], Head(w.rx[in])) # <<>>
    BY <1>1, <1>2, Appended
  <2> QED
    BY <2>1
<1>6. LookedUp(w, in, outs) = [w EXCEPT !.rx = rx, !.voq = voq]
  BY DEF LookedUp, SwitchStates
<1> HIDE DEF rx, voq
<1> QED
  BY <1>3, <1>4, <1>5, <1>6 DEF SwitchStates

LEMMA TransmittedIsState ==
  ASSUME NEW S, NEW w \in SwitchStates(S), NEW M,
         \A c \in M : c \in Ports \X Ports /\ w.voq[c] # <<>>
  PROVE  Transmitted(w, M) \in SwitchStates(S)
<1> DEFINE voq == [c \in Ports \X Ports |-> IF c \in M THEN Tail(w.voq[c]) ELSE w.voq[c]]
<1>1. w.voq \in [Ports \X Ports -> Seq(S)]
  BY DEF SwitchStates
<1>2. voq \in [Ports \X Ports -> Seq(S)]
  BY <1>1
<1>3. Transmitted(w, M) = [w EXCEPT !.voq = voq]
  BY DEF Transmitted
<1> HIDE DEF voq
<1> QED
  BY <1>2, <1>3 DEF SwitchStates

LEMMA LookIsState ==
  ASSUME NEW S, NEW s, NEW w \in SwitchStates(S), NEW look \in Looks(s, w)
  PROVE  /\ look.w \in SwitchStates(S)
         /\ \A c \in Ports \X Ports : w.voq[c] # <<>> => look.w.voq[c] # <<>>
<1>1. \/ look.w = w
      \/ \E in \in Ports : /\ w.rx[in] # <<>>
                           /\ \E outs : look.w = LookedUp(w, in, outs)
  BY DEF Looks
<1> QED
  BY <1>1, LookedUpIsState

LEMMA RoutedRight ==
  ASSUME NEW s, NEW o, NEW p \in Entered, NEW t
  PROVE  Transmissions(Routed(s, o, p, t))
  BY DEF Transmissions, Routed, Transmission

-------------------------------------------------------------------------------
(* An event that only changes the switches. *)
LEMMA OthersStay ==
  ASSUME PacketsInv, NEW e \in BagToSet(queue), NEW events, Transmissions(events),
         e.kind # "inject", Processed(e, events), UNCHANGED <<active, delivered>>,
         switch' \in [Switches -> SwitchStates(Entered')]
  PROVE  PacketsInv'
<1>1. /\ Entered \subseteq Entered' /\ EventsInOrder'
      /\ entries' = entries /\ topo' = topo
  BY MoreEntered DEF PacketsInv
<1>2. \A p : Dst(p)' = Dst(p) /\ Id(p)' = Id(p)
  BY <1>1 DEF Dst, Id
<1>3. DeliveredRight'
  BY <1>1, <1>2 DEF PacketsInv, DeliveredRight
<1>4. active' \in [DOMAIN active' -> [packet : Entered', completed : Nat \cup {Never}]]
  BY <1>1 DEF PacketsInv, RecordsRight
<1>5. RecordsRight'
  BY <1>1, <1>2, <1>4 DEF PacketsInv, RecordsRight
<1> QED
  BY <1>1, <1>3, <1>5 DEF PacketsInv, Switches

LEMMA InjectionRight ==
  ASSUME PacketsInv, NEW e \in BagToSet(queue), ProcessInjection(e)
  PROVE  PacketsInv'
<1> DEFINE p     == e.packet
           entry == entries[p]
           at    == AttachedTo(topo, entry.src)
           new   == [packet |-> p, completed |-> Never]
<1>1. /\ e.kind = "inject" /\ Processed(e, {}) /\ delivered' = delivered
      /\ active' = [id \in DOMAIN active \cup {entry.id} |->
                      IF id = entry.id THEN new ELSE active[id]]
      /\ switch' = [switch EXCEPT ![at.node] = ReceivePacket(@, at.port, p)]
  BY DEF ProcessInjection
<1>2. DOMAIN active \subseteq DOMAIN active' /\ entry.id \in DOMAIN active'
  BY <1>1
<1>3. /\ Entered \subseteq Entered' /\ EventsInOrder'
      /\ p \in Entered' /\ p \notin Entered
      /\ entries' = entries /\ topo' = topo
  BY <1>1, <1>2, MoreEntered DEF PacketsInv, Transmissions
<1>4. \A q : Dst(q)' = Dst(q) /\ Id(q)' = Id(q)
  BY <1>3 DEF Dst, Id
<1>5. switch' \in [Switches -> SwitchStates(Entered')]
  <2>1. switch \in [Switches -> SwitchStates(Entered')]
    BY <1>3, StatesGrow DEF PacketsInv
  <2>2. at.node \in Switches =>
          ReceivePacket(switch[at.node], at.port, p) \in SwitchStates(Entered')
    BY <1>3, <2>1, ReceivedIsState
  <2> HIDE DEF at
  <2> QED
    BY <1>1, <2>1, <2>2
<1>6. DeliveredRight'
  BY <1>1, <1>3, <1>4 DEF PacketsInv, DeliveredRight
<1>7. DOMAIN active' = DOMAIN active \cup {entry.id}
  BY <1>1
<1>8. \A id \in DOMAIN active' : active'[id] = IF id = entry.id THEN new ELSE active[id]
  BY <1>1
<1>9. new \in [packet : Entered', completed : Nat \cup {Never}]
  BY <1>3 DEF Never
<1>10. \A id \in DOMAIN active : active[id] \in [packet : Entered', completed : Nat \cup {Never}]
  BY <1>3 DEF PacketsInv, RecordsRight
<1>11. active' \in [DOMAIN active' -> [packet : Entered', completed : Nat \cup {Never}]]
  <2>1. active' = [id \in DOMAIN active' |-> active'[id]]
    BY <1>1
  <2> HIDE DEF new
  <2> QED
    BY <2>1, <1>7, <1>8, <1>9, <1>10
<1>12. \A d \in delivered' : d[1] # p
  BY <1>1, <1>3 DEF PacketsInv, DeliveredRight
<1>13. RecordsRight'
  <2> SUFFICES ASSUME NEW id \in DOMAIN active'
               PROVE  LET q == active'[id].packet
                          t == active'[id].completed
                      IN /\ entries[q].id = id
                         /\ IF t = Never THEN id < IdMod => \A d \in delivered' : d[1] # q
                                         ELSE \E d \in delivered' : Id(d[1]) = id /\ d[3] = t
    BY <1>3, <1>4, <1>11 DEF RecordsRight
  <2>1. CASE id = entry.id
    BY <2>1, <1>8, <1>12
  <2>2. CASE id # entry.id
    BY <2>2, <1>1, <1>7, <1>8 DEF PacketsInv, RecordsRight
  <2> QED
    BY <2>1, <2>2
<1> QED
  BY <1>3, <1>5, <1>6, <1>13 DEF PacketsInv, Switches

(* A delivery completes the record of the packet, and only that. *)
LEMMA TransmissionRight ==
  ASSUME PacketsInv, InTime, NEW e \in BagToSet(queue), ProcessTransmission(e)
  PROVE  PacketsInv'
<1> DEFINE p == e.packet
           t == e.time
<1>1. /\ e.kind = "transmit" /\ Processed(e, {}) /\ switch' = switch
      /\ t \in Nat /\ p \in Entered
  BY DEF ProcessTransmission, PacketsInv, EventsInOrder, InTime
<1>2. DOMAIN active' = DOMAIN active
  BY DEF ProcessTransmission, Deliver, PacketsInv, RecordsRight
<1>3. /\ Entered \subseteq Entered' /\ EventsInOrder'
      /\ entries' = entries /\ topo' = topo
  BY <1>1, <1>2, MoreEntered DEF PacketsInv, Transmissions
<1>4. switch' \in [Switches -> SwitchStates(Entered')]
  BY <1>1, <1>3, StatesGrow DEF PacketsInv
<1>5. CASE e.to \notin Hosts
  BY <1>1, <1>4, <1>5, OthersStay DEF ProcessTransmission, Transmissions
<1>6. CASE e.to \in Hosts
  <2>1. \A q : Dst(q)' = Dst(q) /\ Id(q)' = Id(q)
    BY <1>3 DEF Dst, Id
  <2>2. delivered' = delivered \cup {<<p, Dst(p), t>>}
    BY <1>1, <1>6 DEF ProcessTransmission, Deliver, PacketsInv, EventsInOrder
  <2>3. DeliveredRight'
    BY <1>1, <1>3, <2>1, <2>2 DEF PacketsInv, DeliveredRight
  <2>4. active' = [id \in DOMAIN active |->
                     IF id = Id(p) THEN [active[id] EXCEPT !.completed = t] ELSE active[id]]
    BY <1>1, <1>6 DEF ProcessTransmission, Deliver, PacketsInv, RecordsRight
  <2>5. active \in [DOMAIN active -> [packet : Entered', completed : Nat \cup {Never}]]
    BY <1>3 DEF PacketsInv, RecordsRight
  <2>6. active' \in [DOMAIN active' -> [packet : Entered', completed : Nat \cup {Never}]]
    BY <1>1, <2>4, <2>5
  <2>7. ASSUME NEW id \in DOMAIN active, id < IdMod, active[id].packet = p
        PROVE  id = Id(p)
    <3>1. p \in DOMAIN entries /\ entries[p].id = id
      BY <2>7 DEF PacketsInv, RecordsRight, Entered
    <3>2. id \in Nat
      <4>1. entries[p] \in Entry
        BY <3>1 DEF PacketsInv
      <4> QED
        BY <3>1, <4>1 DEF Entry
    <3> QED
      BY <2>7, <3>1, <3>2, Remainder, NetAssumption DEF Id
  <2>8. RecordsRight'
    <3> SUFFICES ASSUME NEW id \in DOMAIN active
                 PROVE  LET q == active'[id].packet
                            u == active'[id].completed
                        IN /\ entries[q].id = id
                           /\ IF u = Never THEN id < IdMod => \A d \in delivered' : d[1] # q
                                           ELSE \E d \in delivered' : Id(d[1]) = id /\ d[3] = u
      BY <1>3, <2>1, <2>4, <2>6 DEF RecordsRight
    <3> DEFINE q == active[id].packet
               u == active[id].completed
    <3>1. /\ active'[id].packet = q
          /\ active'[id].completed = IF id = Id(p) THEN t ELSE u
      BY <2>4, <2>5
    <3>2. /\ entries[q].id = id
          /\ IF u = Never THEN id < IdMod => \A d \in delivered : d[1] # q
                          ELSE \E d \in delivered : Id(d[1]) = id /\ d[3] = u
      BY DEF PacketsInv, RecordsRight
    <3>3. t # Never
      BY <1>1 DEF Never
    <3>4. id < IdMod /\ q = p => id = Id(p)
      BY <2>7
    <3> HIDE DEF q, u, p, t
    <3>5. <<p, Dst(p), t>> \in delivered' /\ delivered \subseteq delivered'
      BY <2>2
    <3>6. CASE id = Id(p)
      BY <3>1, <3>2, <3>3, <3>5, <3>6
    <3>7. CASE id # Id(p)
      <4>1. CASE u = Never
        BY <2>2, <3>1, <3>2, <3>4, <3>7, <4>1
      <4>2. CASE u # Never
        BY <3>1, <3>2, <3>5, <3>7, <4>2
      <4> QED
        BY <4>1, <4>2
    <3> QED
      BY <3>6, <3>7
  <2> QED
    BY <1>3, <1>4, <2>3, <2>8 DEF PacketsInv, Switches
<1> QED
  BY <1>5, <1>6

(* What a cycle of a switch hands on, and what it keeps, had entered it. *)
LEMMA CycleRight ==
  ASSUME PacketsInv, InTime, NEW e \in BagToSet(queue), ProcessSwitchCycle(e)
  PROVE  PacketsInv'
<1> DEFINE s == e.switch
           w == [switch[s] EXCEPT !.clock = MaxOf(@, e.time) + CycleTime]
<1>1. /\ e.kind = "cycle" /\ UNCHANGED <<active, delivered>>
      /\ BusyCycle(e, s, w) \/ QuietCycle(e, s, w)
  BY DEF ProcessSwitchCycle
<1>2. s \in Switches /\ e.time \in Nat
  BY <1>1 DEF PacketsInv, EventsInOrder, InTime
<1>3. w \in SwitchStates(Entered)
  <2>1. switch[s] \in SwitchStates(Entered) /\ CycleTime \in Nat
    BY <1>2, NetAssumption DEF PacketsInv
  <2>2. MaxOf(switch[s].clock, e.time) + CycleTime \in Nat
    BY <1>2, <2>1 DEF SwitchStates, MaxOf
  <2> QED
    BY <2>1, <2>2 DEF SwitchStates
<1> HIDE DEF w
<1>4. CASE BusyCycle(e, s, w)
  <2>1. PICK look \in Looks(s, w), M \in Matchings(w) :
          /\ switch' = [switch EXCEPT ![s] = [Transmitted(look.w, M) EXCEPT !.slack = MaxQuiet]]
          /\ Processed(e, UNION {Routed(s, c[2], Head(w.voq[c]), e.time) : c \in M})
    BY <1>4 DEF BusyCycle
  <2> DEFINE events == UNION {Routed(s, c[2], Head(w.voq[c]), e.time) : c \in M}
             u      == [Transmitted(look.w, M) EXCEPT !.slack = MaxQuiet]
  <2>2. \A c \in M : c \in Ports \X Ports /\ w.voq[c] # <<>>
    BY DEF Matchings
  <2>3. \A c \in M : Head(w.voq[c]) \in Entered
    <3>1. w.voq \in [Ports \X Ports -> Seq(Entered)]
      BY <1>3 DEF SwitchStates
    <3> QED
      BY <2>2, <3>1
  <2>4. Transmissions(events)
    BY <2>3, RoutedRight DEF Transmissions
  <2>5. Transmitted(look.w, M) \in SwitchStates(Entered)
    BY <1>3, <2>2, LookIsState, TransmittedIsState
  <2>6. u \in SwitchStates(Entered)
    <3>1. MaxQuiet \in 0 .. MaxQuiet
      BY NetAssumption
    <3> QED
      BY <2>5, <3>1 DEF SwitchStates
  <2>7. Entered \subseteq Entered'
    BY <1>1, <2>1, <2>4, MoreEntered DEF PacketsInv
  <2>8. switch' \in [Switches -> SwitchStates(Entered')]
    <3>1. SwitchStates(Entered) \subseteq SwitchStates(Entered')
      BY <2>7, StatesGrow
    <3>2. switch' = [switch EXCEPT ![s] = u]
      BY <2>1
    <3> HIDE DEF u
    <3> QED
      BY <2>6, <3>1, <3>2 DEF PacketsInv
  <2> QED
    BY <1>1, <2>1, <2>4, <2>8, OthersStay
<1>5. CASE QuietCycle(e, s, w)
  <2>1. PICK k \in IF Inside(w) THEN {w.slack - 1} ELSE 0 .. MaxOf(0, w.slack - 1) :
          switch' = [switch EXCEPT ![s] = [w EXCEPT !.slack = k]]
    BY <1>5 DEF QuietCycle
  <2>2. Processed(e, {}) /\ Transmissions({})
    BY <1>5 DEF QuietCycle, Transmissions
  <2>3. k \in 0 .. MaxQuiet
    <3>1. w.slack \in 0 .. MaxQuiet /\ MaxQuiet \in Nat
      BY <1>3, NetAssumption DEF SwitchStates
    <3> QED
      BY <1>5, <2>1, <3>1 DEF QuietCycle, MaxOf
  <2>4. [w EXCEPT !.slack = k] \in SwitchStates(Entered)
    BY <1>3, <2>3 DEF SwitchStates
  <2>5. SwitchStates(Entered) \subseteq SwitchStates(Entered')
    BY <1>1, <2>2, MoreEntered, StatesGrow DEF PacketsInv
  <2>6. switch' \in [Switches -> SwitchStates(Entered')]
    BY <2>1, <2>4, <2>5 DEF PacketsInv
  <2> QED
    BY <1>1, <2>2, <2>6, OthersStay
<1> QED
  BY <1>1, <1>4, <1>5

(* The trace is scheduled before the loop runs, and every entry once. *)
LEMMA ScheduleRight ==
  ASSUME PacketsInv, NEW trace \in Traces, ScheduleTrace(trace)
  PROVE  PacketsInv'
<1> DEFINE injections == {Inject(trace[k].time, k) : k \in Known(trace)}
<1>1. /\ entries = <<>> /\ entries' = trace /\ trace \in Seq(Entry)
      /\ queue' = queue (+) SetToBag(injections)
      /\ UNCHANGED <<topo, switch, active, delivered>>
  BY NetAssumption DEF ScheduleTrace, state
<1>2. Entered = {}
  BY <1>1 DEF Entered
<1>3. \A f \in BagToSet(queue) : f.kind # "inject" /\ f.kind # "transmit"
  BY <1>1, <1>2 DEF PacketsInv, EventsInOrder
<1>4. \A k \in Known(trace) : k \in DOMAIN trace
  BY DEF Known
<1>5. EventsInOrder'
  <2> SUFFICES ASSUME NEW f \in BagToSet(queue')
               PROVE  /\ f.kind = "inject" =>
                           /\ f.packet \in DOMAIN trace /\ queue'[f] = 1
                           /\ f = Inject(trace[f.packet].time, f.packet)
                      /\ f.kind # "transmit"
                      /\ f.kind = "cycle" => f.switch \in Switches
    BY <1>1 DEF EventsInOrder, Switches
  <2>1. CASE f \in injections
    <3>1. f \notin BagToSet(queue)
      BY <2>1, <1>3 DEF Inject
    <3>2. queue'[f] = 1
      BY <2>1, <3>1, <1>1 DEF BagToSet, (+), SetToBag
    <3> QED
      BY <2>1, <3>2, <1>4 DEF Inject
  <2>2. CASE f \notin injections
    <3>1. f \in BagToSet(queue)
      BY <2>2, <1>1, InSum, OfSet
    <3> QED
      BY <3>1, <1>3 DEF PacketsInv, EventsInOrder
  <2> QED
    BY <2>1, <2>2
<1>6. delivered = {} /\ DOMAIN active = {}
  BY <1>2 DEF PacketsInv, DeliveredRight, RecordsRight
<1>7. DeliveredRight' /\ RecordsRight'
  BY <1>1, <1>6 DEF DeliveredRight, RecordsRight
<1>8. switch' \in [Switches -> SwitchStates(Entered')]
  BY <1>1, <1>2, StatesGrow DEF PacketsInv
<1> QED
  BY <1>1, <1>5, <1>7, <1>8 DEF PacketsInv, Switches

(* A new simulator, and one that was reset. *)
Fresh ==
  /\ entries = <<>> /\ queue = EmptyBag
  /\ switch \in [Switches -> {IdleSwitch}]
  /\ active = <<>> /\ delivered = {}

LEMMA FreshRight == Fresh => PacketsInv
<1> SUFFICES ASSUME Fresh PROVE PacketsInv
  OBVIOUS
<1>1. entries \in Seq(Entry) /\ DOMAIN active = {} /\ active = [x \in {} |-> x]
  BY DEF Fresh
<1>2. switch \in [Switches -> SwitchStates(Entered)]
  BY IdleIsState DEF Fresh
<1> QED
  BY <1>1, <1>2, InEmpty DEF Fresh, PacketsInv, EventsInOrder, DeliveredRight, RecordsRight

LEMMA PacketsStep ==
  ASSUME PacketsInv, InTime, [NetNext]_netVars
  PROVE  PacketsInv'
<1>1. CASE \E trace \in Traces : ScheduleTrace(trace)
  BY <1>1, ScheduleRight
<1>2. CASE UNCHANGED <<topo, entries, queue, switch, active, delivered>>
  <2>1. Entered' = Entered /\ Switches' = Switches /\ Hosts' = Hosts
    BY <1>2 DEF Entered, Awaits, Switches, Hosts
  <2>2. \A p : Dst(p)' = Dst(p) /\ Id(p)' = Id(p)
    BY <1>2 DEF Dst, Id
  <2>3. EventsInOrder' /\ DeliveredRight'
    BY <1>2, <2>1, <2>2 DEF PacketsInv, EventsInOrder, DeliveredRight
  <2>4. RecordsRight'
    BY <1>2, <2>1, <2>2 DEF PacketsInv, RecordsRight
  <2> QED
    BY <1>2, <2>1, <2>3, <2>4 DEF PacketsInv
<1>3. CASE \E limit \in Limits : StartRun(limit)
  BY <1>2, <1>3 DEF StartRun, state
<1>4. CASE ProcessEvent
  BY <1>4, InjectionRight, TransmissionRight, CycleRight DEF ProcessEvent
<1>5. CASE EndRun
  BY <1>2, <1>5 DEF EndRun, state
<1>6. CASE Reset
  <2>1. Fresh'
    BY <1>6 DEF Reset, Fresh, Switches
  <2>2. Fresh' => PacketsInv'
    BY FreshRight, PTL
  <2> QED
    BY <2>1, <2>2
<1>7. CASE UNCHANGED netVars
  BY <1>2, <1>7 DEF netVars, state
<1> QED
  BY <1>1, <1>3, <1>4, <1>5, <1>6, <1>7 DEF NetNext, RunLoop

THEOREM PacketsInvariant == NetSpec => []PacketsInv
<1>1. NetInit => PacketsInv
  BY FreshRight DEF NetInit, Fresh, Switches
<1>2. PacketsInv /\ InTime /\ [NetNext]_netVars => PacketsInv'
  BY PacketsStep
<1> QED
  BY <1>1, <1>2, TimeInvariant, PTL DEF NetSpec

(* A packet is delivered to no host but the one its header names, and a    *)
(* record is completed only when a packet whose header bears its id        *)
(* arrives, and where the id fits the header no later than its own packet  *)
(* does, for every topology, trace and limit, whatever the switches make   *)
(* of the packets.                                                         *)
THEOREM PacketsReachTheirHosts == NetSpec => []RightPacketRightHost
<1>1. PacketsInv => RightPacketRightHost
  <2> SUFFICES ASSUME PacketsInv PROVE RightPacketRightHost
    OBVIOUS
  <2>1. \A d \in delivered : d[2] = Dst(d[1])
    BY DEF PacketsInv, DeliveredRight
  <2>2. \A id \in DOMAIN active :
          LET p == active[id].packet
              t == active[id].completed
          IN IF t = Never THEN id < IdMod => \A d \in delivered : d[1] # p
                          ELSE \E d \in delivered : Id(d[1]) = id /\ d[3] = t
    BY DEF PacketsInv, RecordsRight
  <2> QED
    BY <2>1, <2>2 DEF RightPacketRightHost, ReachedHost
<1> QED
  BY <1>1, PacketsInvariant, PTL
-------------------------------------------------------------------------------
LEMMA BagOfSet == \A S : IsABag(SetToBag(S))
  BY DEF IsABag, SetToBag

LEMMA BagSum ==
  ASSUME NEW B, NEW C, IsABag(B), IsABag(C)
  PROVE  IsABag(B (+) C)
  BY DEF IsABag, (+)

LEMMA BagRest ==
  ASSUME NEW B, NEW C, IsABag(B), IsABag(C)
  PROVE  IsABag(B (-) C)
  BY DEF IsABag, (-)

(* What an event leaves, whatever it does to the switches. *)
LEMMA ProcessedType ==
  ASSUME NetTypeOK, NEW e \in BagToSet(queue), loop.left # 0,
         NEW events, events \subseteq Events, Processed(e, events)
  PROVE  /\ hashType' \in HashTypes
         /\ topo' \in Topologies /\ DOMAIN routes' = Switches' /\ entries' \in Seq(Entry)
         /\ IsABag(queue') /\ BagToSet(queue') \subseteq Events' /\ now' \in Nat
         /\ loop'.on \in BOOLEAN /\ loop'.begun \in BOOLEAN
         /\ loop'.left \in Nat \cup {Unlimited}
         /\ topo' = topo /\ entries' = entries /\ Switches' = Switches /\ Hosts' = Hosts
<1>1. /\ hashType' = hashType /\ topo' = topo /\ routes' = routes /\ entries' = entries
      /\ now' = e.time
      /\ queue' = ((queue (-) SetToBag({e})) (+) SetToBag(events))
                    (+) SetToBag({Cycle(e.time + CycleTime, s) : s \in Pending'})
      /\ loop' = [loop EXCEPT !.left = IF @ = Unlimited THEN @ ELSE @ - 1]
  BY DEF Processed
<1>2. Switches' = Switches /\ Hosts' = Hosts /\ Events' = Events
  BY <1>1 DEF Switches, Hosts, Events
<1>3. IsABag(queue')
  BY <1>1, BagOfSet, BagSum, BagRest DEF NetTypeOK
<1>4. e \in Events /\ e.time \in Nat
  BY DEF NetTypeOK, Events
<1>5. e.time + CycleTime \in Nat
  BY <1>4, NetAssumption
<1>6. \A s \in Switches : Cycle(e.time + CycleTime, s) \in Events
  BY <1>5 DEF Cycle, Events
<1>7. Pending' \subseteq Switches
  BY <1>2 DEF Pending
<1>8. BagToSet(queue') \subseteq Events
  BY <1>6, <1>7, QueueAfter DEF NetTypeOK
<1>9. loop'.on \in BOOLEAN /\ loop'.begun \in BOOLEAN /\ loop'.left \in Nat \cup {Unlimited}
  <2> DEFINE left == IF loop.left = Unlimited THEN loop.left ELSE loop.left - 1
  <2>1. left \in Nat \cup {Unlimited}
    BY DEF NetTypeOK
  <2>2. loop' = [loop EXCEPT !.left = left]
    BY <1>1
  <2>3. loop'.on = loop.on /\ loop'.begun = loop.begun /\ loop'.left \in {left, loop.left}
    BY <2>2
  <2> QED
    BY <2>1, <2>3 DEF NetTypeOK
<1> QED
  BY <1>1, <1>2, <1>3, <1>4, <1>8, <1>9 DEF NetTypeOK

(* What PacketsInv says of the types. *)
PacketTypes ==
  /\ entries \in Seq(Entry)
  /\ switch \in [Switches -> SwitchStates(DOMAIN entries)]
  /\ \A id \in DOMAIN active :
       active[id] \in [packet : DOMAIN entries, completed : Nat \cup {Never}]

LEMMA PacketsTyped == PacketsInv => PacketTypes
<1> SUFFICES ASSUME PacketsInv PROVE PacketTypes
  OBVIOUS
<1>1. Entered \subseteq DOMAIN entries
  BY DEF Entered
<1> QED
  BY <1>1, StatesGrow DEF PacketsInv, RecordsRight, PacketTypes

LEMMA InjectionTyped ==
  ASSUME NetTypeOK, PacketsInv', NEW e \in BagToSet(queue), loop.left # 0, ProcessInjection(e)
  PROVE  NetTypeOK'
<1> DEFINE src == entries[e.packet].src
<1>1. Processed(e, {}) /\ stats' = [stats EXCEPT ![src].sent = @ + 1]
      /\ refused' = refused /\ delivered' = delivered /\ e.kind = "inject"
  BY DEF ProcessInjection
<1>2. src \in Hosts
  BY <1>1 DEF NetTypeOK, Events
<1>3. stats' \in [Hosts -> [sent : Nat, received : Nat]]
  <2>1. stats[src] \in [sent : Nat, received : Nat]
    BY <1>2 DEF NetTypeOK
  <2>2. [stats[src] EXCEPT !.sent = @ + 1] \in [sent : Nat, received : Nat]
    BY <2>1
  <2> QED
    BY <1>1, <2>2 DEF NetTypeOK
<1>4. PacketTypes'
  BY PacketsTyped, PTL
<1> QED
  BY <1>1, <1>3, <1>4, ProcessedType DEF NetTypeOK, PacketTypes, SwitchStates

LEMMA TransmissionTyped ==
  ASSUME NetTypeOK, PacketsInv', NEW e \in BagToSet(queue), loop.left # 0,
         ProcessTransmission(e)
  PROVE  NetTypeOK'
<1>1. Processed(e, {}) /\ refused' = refused /\ e.kind = "transmit"
  BY DEF ProcessTransmission
<1>2. e.packet \in DOMAIN entries /\ e.time \in Nat
  BY <1>1 DEF NetTypeOK, Events
<1>3. delivered' \subseteq (DOMAIN entries) \X Hosts \X Nat
  BY <1>2 DEF NetTypeOK, ProcessTransmission, Deliver
<1>4. stats' \in [Hosts -> [sent : Nat, received : Nat]]
  <2>1. CASE stats' = stats
    BY <2>1 DEF NetTypeOK
  <2>2. CASE e.to \in Hosts /\ stats' = [stats EXCEPT ![e.to].received = @ + 1]
    <3>1. stats[e.to] \in [sent : Nat, received : Nat]
      BY <2>2 DEF NetTypeOK
    <3>2. [stats[e.to] EXCEPT !.received = @ + 1] \in [sent : Nat, received : Nat]
      BY <3>1
    <3> QED
      BY <2>2, <3>2 DEF NetTypeOK
  <2> QED
    BY <2>1, <2>2 DEF ProcessTransmission, Deliver
<1>5. PacketTypes'
  BY PacketsTyped, PTL
<1> QED
  BY <1>1, <1>3, <1>4, <1>5, ProcessedType DEF NetTypeOK, PacketTypes, SwitchStates

(* What a switch transmits goes to a node of the network. *)
LEMMA RoutedTyped ==
  ASSUME topo \in Topologies, NEW s \in Switches, NEW o \in Ports, NEW p \in DOMAIN entries,
         NEW t \in Nat
  PROVE  Routed(s, o, p, t) \subseteq Events
<1> DEFINE to == Behind(topo, s)[o]
<1>1. t + SwitchDelay \in Nat /\ t + HostDelay \in Nat
  BY NetAssumption
<1>2. CASE o \in DOMAIN Behind(topo, s)
  <2>1. to \in Switches \cup Hosts
    BY <1>2, BehindIsNode
  <2>2. \A u \in Nat, priority \in {0, 1} : Transmission(u, priority, p, <<s, o>>, to) \in Events
    BY <2>1 DEF Transmission, Events
  <2>3. Routed(s, o, p, t) \subseteq
          {Transmission(t + SwitchDelay, 0, p, <<s, o>>, to),
           Transmission(t + HostDelay, 1, p, <<s, o>>, to)}
    BY <1>2 DEF Routed
  <2> QED
    BY <1>1, <2>2, <2>3
<1> QED
  BY <1>2 DEF Routed

LEMMA CycleTyped ==
  ASSUME NetTypeOK, PacketsInv', NEW e \in BagToSet(queue), loop.left # 0,
         ProcessSwitchCycle(e)
  PROVE  NetTypeOK'
<1> DEFINE s == e.switch
           w == [switch[s] EXCEPT !.clock = MaxOf(@, e.time) + CycleTime]
<1>1. /\ e.kind = "cycle" /\ UNCHANGED <<active, stats, delivered>>
      /\ BusyCycle(e, s, w) \/ QuietCycle(e, s, w)
  BY DEF ProcessSwitchCycle
<1>2. s \in Switches /\ e.time \in Nat
  BY <1>1 DEF NetTypeOK, Events
<1>3. /\ w.rx \in [Ports -> Seq(DOMAIN entries)]
      /\ w.voq \in [Ports \X Ports -> Seq(DOMAIN entries)]
  <2>1. switch[s] \in [rx : [Ports -> Seq(DOMAIN entries)],
                       voq : [Ports \X Ports -> Seq(DOMAIN entries)],
                       slack : 0 .. MaxQuiet, clock : Nat]
    BY <1>2 DEF NetTypeOK
  <2>2. w.rx = switch[s].rx /\ w.voq = switch[s].voq
    BY <2>1
  <2> QED
    BY <2>1, <2>2
<1> HIDE DEF w
<1>4. PICK events : /\ Processed(e, events) /\ events \subseteq Events
                    /\ refused' \subseteq DOMAIN entries
  <2>1. CASE QuietCycle(e, s, w)
    <3>1. Processed(e, {}) /\ refused' = refused
      BY <2>1 DEF QuietCycle
    <3>2. refused \subseteq DOMAIN entries
      BY DEF NetTypeOK
    <3> QED
      BY <3>1, <3>2
  <2>2. CASE BusyCycle(e, s, w)
    <3>1. PICK look \in Looks(s, w), M \in Matchings(w) :
            /\ refused' = refused \cup look.refused
            /\ Processed(e, UNION {Routed(s, c[2], Head(w.voq[c]), e.time) : c \in M})
      BY <2>2 DEF BusyCycle
    <3>2. \A c \in M : c \in Ports \X Ports /\ w.voq[c] # <<>>
      BY DEF Matchings
    <3>3. \A c \in M : c[2] \in Ports /\ Head(w.voq[c]) \in DOMAIN entries
      BY <1>3, <3>2
    <3>4. \A c \in M : Routed(s, c[2], Head(w.voq[c]), e.time) \subseteq Events
      BY <1>2, <3>3, RoutedTyped DEF NetTypeOK
    <3>5. look.refused \subseteq DOMAIN entries
      <4>1. \A in \in Ports : w.rx[in] # <<>> => Head(w.rx[in]) \in DOMAIN entries
        BY <1>3
      <4>2. \/ look.refused = {}
            \/ \E in \in Ports : w.rx[in] # <<>> /\ look.refused = {Head(w.rx[in])}
        BY DEF Looks
      <4> QED
        BY <4>1, <4>2
    <3> QED
      BY <3>1, <3>4, <3>5 DEF NetTypeOK
  <2> QED
    BY <1>1, <2>1, <2>2
<1>5. PacketTypes'
  BY PacketsTyped, PTL
<1>6. /\ stats' \in [Hosts -> [sent : Nat, received : Nat]]
      /\ delivered' \subseteq (DOMAIN entries) \X Hosts \X Nat
  BY <1>1 DEF NetTypeOK
<1> QED
  BY <1>4, <1>5, <1>6, ProcessedType DEF NetTypeOK, PacketTypes, SwitchStates

LEMMA TraceTyped ==
  ASSUME NetTypeOK, PacketsInv', NEW trace \in Traces, ScheduleTrace(trace)
  PROVE  NetTypeOK'
<1> DEFINE injections == {Inject(trace[k].time, k) : k \in Known(trace)}
<1>1. /\ entries = <<>> /\ entries' = trace /\ trace \in Seq(Entry)
      /\ queue' = queue (+) SetToBag(injections)
      /\ UNCHANGED <<hashType, topo, routes, now, loop, stats, refused, delivered>>
  BY NetAssumption DEF ScheduleTrace, state
<1>2. Switches' = Switches /\ Hosts' = Hosts
  BY <1>1 DEF Switches, Hosts
<1>3. DOMAIN entries = {}
  BY <1>1
<1>4. Events \subseteq Events'
  BY <1>2, <1>3 DEF Events
<1>5. injections \subseteq Events'
  <2>1. \A k \in Known(trace) : trace[k].time \in Nat
    <3>1. \A k \in DOMAIN trace : trace[k] \in Entry
      BY <1>1
    <3> QED
      BY <3>1 DEF Known, Entry
  <2> QED
    BY <1>1, <1>2, <2>1 DEF Known, Inject, Events
<1>6. IsABag(queue') /\ BagToSet(queue') \subseteq Events'
  BY <1>1, <1>4, <1>5, BagOfSet, BagSum, InSum, OfSet DEF NetTypeOK
<1>7. PacketTypes'
  BY PacketsTyped, PTL
<1>8. refused = {} /\ delivered = {}
  BY <1>3 DEF NetTypeOK
<1> QED
  BY <1>1, <1>2, <1>6, <1>7, <1>8 DEF NetTypeOK, PacketTypes, SwitchStates

(* A new simulator, or one that was reset, with its loop. *)
NewNetwork ==
  /\ hashType \in HashTypes
  /\ topo \in Topologies /\ DOMAIN routes = Switches /\ now = 0
  /\ loop.on \in BOOLEAN /\ loop.begun \in BOOLEAN /\ loop.left \in Nat \cup {Unlimited}
  /\ stats = [h \in Hosts |-> NoStats] /\ refused = {} /\ delivered = {}
  /\ Fresh

LEMMA NewTyped == NewNetwork => NetTypeOK
<1> SUFFICES ASSUME NewNetwork PROVE NetTypeOK
  OBVIOUS
<1>1. PacketTypes
  BY FreshRight, PacketsTyped DEF NewNetwork
<1>2. IsABag(queue) /\ BagToSet(queue) = {}
  BY BagOfSet, InEmpty DEF EmptyBag, NewNetwork, Fresh
<1> QED
  BY <1>1, <1>2 DEF NewNetwork, PacketTypes, NetTypeOK, SwitchStates, NoStats

LEMMA TypeStep ==
  ASSUME NetTypeOK, PacketsInv', NetNext
  PROVE  NetTypeOK'
<1>1. CASE \E trace \in Traces : ScheduleTrace(trace)
  BY <1>1, TraceTyped
<1>2. ASSUME UNCHANGED <<hashType, topo, routes, entries, queue, now, state>>,
             loop'.on \in BOOLEAN, loop'.begun \in BOOLEAN,
             loop'.left \in Nat \cup {Unlimited}
      PROVE  NetTypeOK'
  BY <1>2 DEF NetTypeOK, state, Events, Switches, Hosts
<1>3. CASE \E limit \in Limits : StartRun(limit)
  <2>1. /\ UNCHANGED <<hashType, topo, routes, entries, queue, now, state>>
        /\ loop'.on = TRUE /\ loop'.begun = TRUE /\ loop'.left \in Limits \cup {Unlimited}
    BY <1>3 DEF StartRun
  <2> QED
    BY <2>1, <1>2, NetAssumption
<1>4. CASE ProcessEvent
  <2>1. loop.left # 0
    BY <1>4 DEF ProcessEvent, LoopIsDone
  <2> QED
    BY <1>4, <2>1, InjectionTyped, TransmissionTyped, CycleTyped DEF ProcessEvent
<1>5. CASE EndRun
  <2>1. /\ UNCHANGED <<hashType, topo, routes, entries, queue, now, state>>
        /\ loop' = [loop EXCEPT !.on = FALSE]
    BY <1>5 DEF EndRun
  <2>2. loop'.on \in {FALSE, loop.on} /\ loop'.begun = loop.begun /\ loop'.left = loop.left
    BY <2>1
  <2> QED
    BY <2>1, <2>2, <1>2 DEF NetTypeOK
<1>6. CASE Reset
  <2>1. NewNetwork'
    <3>1. loop'.on = loop.on /\ loop'.begun \in {FALSE, loop.begun} /\ loop'.left = loop.left
      <4>1. loop' = [loop EXCEPT !.begun = FALSE]
        BY <1>6 DEF Reset
      <4> QED
        BY <4>1
    <3>2. topo' = topo /\ routes' = routes /\ Switches' = Switches /\ Hosts' = Hosts
      BY <1>6 DEF Reset, Switches, Hosts
    <3> QED
      BY <1>6, <3>1, <3>2 DEF Reset, NewNetwork, Fresh, NetTypeOK
  <2>2. NewNetwork' => NetTypeOK'
    BY NewTyped, PTL
  <2> QED
    BY <2>1, <2>2
<1> QED
  BY <1>1, <1>3, <1>4, <1>5, <1>6 DEF NetNext, RunLoop

(* The state has its type, the bag of events among it, for every topology, *)
(* trace and limit: packets are entries of the trace, wherever they wait,  *)
(* events are for the switches and hosts there are, and the ports fit.     *)
THEOREM NetTypeCorrect == NetSpec => []NetTypeOK
<1>1. NetInit => NetTypeOK
  <2>1. NetInit => NewNetwork
    BY DEF NetInit, NewNetwork, Fresh, Switches, Hosts, Unlimited
  <2> QED
    BY <2>1, NewTyped
<1>2. NetTypeOK /\ PacketsInv' /\ [NetNext]_netVars => NetTypeOK'
  <2> SUFFICES ASSUME NetTypeOK, PacketsInv', [NetNext]_netVars PROVE NetTypeOK'
    OBVIOUS
  <2>1. CASE UNCHANGED netVars
    BY <2>1 DEF netVars, state, NetTypeOK, Events, Switches, Hosts
  <2> QED
    BY <2>1, TypeStep
<1> QED
  BY <1>1, <1>2, PacketsInvariant, PTL DEF NetSpec

(* The routing tables are those of the topology, also after a reset. *)
Loaded == topo \in Topologies /\ routes = [s \in SwitchesOf(topo) |-> RoutesFrom(topo, s)]

(* The routing tables in use are those of the topology in use.            *)
THEOREM TablesLoaded == NetSpec => []Loaded
<1>1. NetInit => Loaded
  BY DEF NetInit, Loaded
<1>2. Loaded /\ [NetNext]_netVars => Loaded'
  BY DEF Loaded, netVars, NetNext, RunLoop, ScheduleTrace, StartRun, EndRun, Reset, ProcessEvent,
         ProcessInjection, ProcessTransmission, ProcessSwitchCycle, BusyCycle, QuietCycle, Processed
<1> QED
  BY <1>1, <1>2, PTL DEF NetSpec

(* The routes that load_topology computes are the shortest, and there is   *)
(* one to every host that can be reached, for every topology: a ring or a  *)
(* line that is there twice, a host on several switches.                   *)
THEOREM RoutesCorrect == NetSpec => []RoutesAreShortest
<1>1. Loaded => RoutesAreShortest
  <2> SUFFICES ASSUME Loaded, NEW s \in Switches, NEW h \in Hosts
               PROVE  IF h \in DOMAIN routes[s]
                      THEN /\ IsPath(topo, routes[s][h], s, h)
                           /\ h \notin WithinHops(topo, s, Len(routes[s][h]) - 1)
                      ELSE h \notin WithinHops(topo, s, Cardinality(Nodes(topo)))
    BY DEF RoutesAreShortest
  <2>1. routes[s] = RoutesFrom(topo, s)
    BY DEF Loaded, Switches
  <2>2. topo \in Seq(Connections)
    BY NetAssumption DEF Loaded
  <2> QED
    BY <2>1, <2>2, RoutesShortest DEF Switches, Hosts
<1> QED
  BY <1>1, TablesLoaded, PTL

-------------------------------------------------------------------------------
(* A host of a switch is one link away, and its route is that link.        *)
LEMMA AttachedIsNeighbour ==
  ASSUME topo \in Topologies, NEW h \in Hosts, NEW s, s = AttachedTo(topo, h).node
  PROVE  s \in Switches /\ h \in Neighbours(topo, s)
<1> DEFINE L == {n \in DOMAIN topo : Joins(topo[n], h)}
<1>1. topo \in Seq(Connections) /\ s \in Switches
  BY NetAssumption, AttachedToSwitch
<1>2. PICK end \in Ends(topo) : end.node = h
  BY DEF Hosts, HostsOf, Nodes
<1>3. PICK n \in DOMAIN topo : end \in {topo[n][1], topo[n][2]}
  BY <1>2 DEF Ends, Range
<1>4. L # {}
  BY <1>2, <1>3 DEF Joins
<1>5. LastOf(L) \in L
  BY <1>1, <1>4, LastIsThere
<1>6. PICK m \in DOMAIN topo : m = LastOf(L) /\ Joins(topo[m], h)
  BY <1>5
<1>7. Across(topo[m], h).node = s /\ topo[m] \in Range(topo)
  BY <1>6, LinksOfNetwork DEF AttachedTo
<1>8. h # s
  BY <1>1 DEF Hosts, HostsOf, Switches, SwitchesOf
<1>9. Joins(topo[m], s) /\ Across(topo[m], s).node = h
  BY <1>6, <1>7, <1>8 DEF Joins, Across
<1> QED
  BY <1>1, <1>7, <1>9 DEF Neighbours

LEMMA HostsAreNumbers == topo \in Topologies => Hosts \subseteq Nat
<1> SUFFICES ASSUME topo \in Topologies, NEW h \in Hosts PROVE h \in Nat
  OBVIOUS
<1>1. PICK end \in Ends(topo) : end.node = h
  BY DEF Hosts, HostsOf, Nodes
<1>2. PICK n \in DOMAIN topo : end \in {topo[n][1], topo[n][2]}
  BY DEF Ends, Range
<1> QED
  BY <1>1, <1>2, LinksOfNetwork DEF Connections, End

LEMMA NeighbourRoute ==
  ASSUME NEW links \in Seq(Connections), NEW s \in SwitchesOf(links), NEW h \in HostsOf(links),
         h \in Neighbours(links, s), NEW r, r = RoutesFrom(links, s)
  PROVE  /\ h \in DOMAIN r
         /\ \E conn \in Range(links) : /\ Joins(conn, s) /\ Across(conn, s).node = h
                                       /\ At(conn, s).port = r[h][1].out
<1> DEFINE parent == ParentsFrom(links, s)
<1>1. s \in Nodes(links) /\ s \in SwitchNodes /\ h \notin SwitchNodes /\ h # s
  BY DEF SwitchesOf, HostsOf
<1>2. /\ parent \in Trees(links) /\ Cardinality(DOMAIN parent) \in Nat
      /\ \E d : /\ DepthsRight(links, s, parent, d)
                /\ \A z \in DOMAIN parent : Reached(links, parent, d, z)
  BY <1>1, SearchEnds
<1>3. /\ DOMAIN r = DOMAIN parent \cap HostsOf(links)
      /\ \A x \in DOMAIN r : r[x] = PathTo(x, s, parent)
  BY DEF RoutesFrom
<1> HIDE DEF parent
<1>4. PICK d : /\ DepthsRight(links, s, parent, d)
               /\ \A z \in DOMAIN parent : Reached(links, parent, d, z)
  BY <1>2
<1>5. s \in DOMAIN parent /\ d[s] = 0 /\ h \in DOMAIN parent /\ d[h] <= d[s] + 1
  BY <1>1, <1>4 DEF DepthsRight, Reached
<1>6. d[h] = 1
  <2>1. d[h] = d[parent[h].from] + 1 /\ parent[h].from \in DOMAIN parent
    BY <1>1, <1>4, <1>5 DEF DepthsRight
  <2>2. d[parent[h].from] \in Nat
    BY <1>4, <2>1 DEF DepthsRight
  <2> QED
    BY <1>5, <2>1, <2>2
<1>7. h \in DOMAIN r /\ r[h] = PathTo(h, s, parent)
  BY <1>3, <1>5
<1>8. IsPath(links, r[h], s, h) /\ Len(r[h]) = d[h] /\ r[h] \in Seq(Hops(links))
  BY <1>1, <1>2, <1>4, <1>5, <1>7, PathRight
<1>9. r[h][1].from = s /\ r[h][1].to = h /\ 1 \in DOMAIN r[h]
  <2>1. r[h][1].from = s /\ Last(r[h]).to = h
    BY <1>8 DEF IsPath
  <2>2. Last(r[h]) = r[h][1]
    BY <1>6, <1>8 DEF Last
  <2>3. 1 \in DOMAIN r[h]
    BY <1>6, <1>8
  <2> QED
    BY <2>1, <2>2, <2>3
<1>10. PICK conn \in Range(links) : Joins(conn, s) /\ Hop(conn, s) = r[h][1]
  BY <1>8, <1>9 DEF IsPath
<1> QED
  BY <1>7, <1>9, <1>10 DEF Hop

LEMMA LocalRoute ==
  ASSUME topo \in Topologies, WellWired(topo), NEW h \in Hosts,
         NEW s, s = AttachedTo(topo, h).node, NEW r, r = RoutesFrom(topo, s), NEW o, o = r[h][1].out
  PROVE  /\ s \in Switches /\ h \in DOMAIN r
         /\ o \in DOMAIN Behind(topo, s) /\ o \in Ports /\ Behind(topo, s)[o] = h
<1> DEFINE end == [node |-> s, port |-> o]
           L == LinesAt(topo, end)
<1>1. topo \in Seq(Connections) /\ s \in Switches /\ s \in SwitchNodes
      /\ h \in Neighbours(topo, s) /\ s \in SwitchesOf(topo) /\ h \in HostsOf(topo) /\ h # s
  BY NetAssumption, AttachedIsNeighbour DEF Switches, SwitchesOf, Hosts, HostsOf
<1>2. PICK conn \in Range(topo) : Joins(conn, s) /\ Across(conn, s).node = h /\ At(conn, s).port = o
  BY <1>1, NeighbourRoute
<1>3. h \in DOMAIN r
  BY <1>1, NeighbourRoute
<1>4. PICK n \in DOMAIN topo : conn = topo[n]
  BY <1>2 DEF Range
<1>5. PICK k \in {1, 2} : conn[k] = At(conn, s) /\ conn[k].node = s
  BY <1>2 DEF Joins, At
<1>6. conn[k] = end /\ conn \in Connections
  BY <1>2, <1>4, <1>5, LinksOfNetwork DEF Connections, End
<1>7. conn[3 - k].node = h /\ topo[n][k].node \in SwitchNodes
  BY <1>1, <1>2, <1>4, <1>5 DEF Across, Joins
<1>8. n \in L /\ L \in SUBSET DOMAIN topo
  BY <1>4, <1>5, <1>6 DEF LinesAt
<1>9. PICK l \in DOMAIN topo : l = LastOf(L) /\ l \in L
  BY <1>1, <1>8, LastIsThere
<1>10. end \in Ends(topo) /\ o \in Ports
  BY <1>1, <1>4, <1>5, <1>6, LinksOfNetwork
<1>11. o \in PortsOf(topo, s)
  BY <1>10 DEF PortsOf
<1>12. /\ o \in DOMAIN Behind(topo, s)
       /\ Behind(topo, s)[o] = IF topo[l][1] = end THEN topo[l][2].node ELSE topo[l][1].node
  BY <1>9, <1>11 DEF Behind
<1>13. (IF topo[l][1] = end THEN topo[l][2].node ELSE topo[l][1].node) = h
  <2>1. \A j \in {1, 2} : topo[l][j] = end => topo[n][3 - k].node = topo[l][3 - j].node
    BY <1>4, <1>6, <1>7 DEF WellWired
  <2>2. topo[l][1] = end \/ topo[l][2] = end
    BY <1>9 DEF LinesAt
  <2>3. topo[l][1] = end => topo[l][2].node = h
    BY <1>4, <1>7, <2>1
  <2>4. topo[l][2] = end => topo[l][1].node = h
    BY <1>4, <1>7, <2>1
  <2> QED
    BY <2>2, <2>3, <2>4
<1> QED
  BY <1>1, <1>3, <1>10, <1>12, <1>13

-------------------------------------------------------------------------------
(* A family of queues: where a packet stands in it, and whether once.      *)
Has(q, p) == \E k \in DOMAIN q : q[k] = p
IsIn(f, p) == \E x \in DOMAIN f : Has(f[x], p)
OnceIn(f, p) ==
  \A x, y \in DOMAIN f : \A j \in DOMAIN f[x], k \in DOMAIN f[y] :
    f[x][j] = p /\ f[y][k] = p => x = y /\ j = k

Taken(f, T) == [x \in DOMAIN f |-> IF x \in T THEN Tail(f[x]) ELSE f[x]]
Added(f, T, q) == [x \in DOMAIN f |-> IF x \in T THEN Append(f[x], q) ELSE f[x]]

(* Heads are taken from some of the queues ... *)
LEMMA TakenIs ==
  ASSUME NEW X, NEW S, NEW f \in [X -> Seq(S)], NEW T, \A x \in T : x \in X /\ f[x] # <<>>
  PROVE  /\ DOMAIN Taken(f, T) = X
         /\ \A x \in T : 1 \in DOMAIN f[x]
         /\ \A x \in X : \A j \in DOMAIN Taken(f, T)[x] : \E i \in DOMAIN f[x] :
              /\ i = (IF x \in T THEN j + 1 ELSE j) /\ f[x][i] = Taken(f, T)[x][j]
              /\ j \in Nat /\ j >= 1
<1> DEFINE g == Taken(f, T)
<1>1. DOMAIN f = X /\ DOMAIN g = X
  BY DEF Taken
<1>2. \A x \in X : g[x] = IF x \in T THEN Tail(f[x]) ELSE f[x]
  BY <1>1 DEF Taken
<1>3. ASSUME NEW x \in X
      PROVE  DOMAIN f[x] = 1 .. Len(f[x]) /\ Len(f[x]) \in Nat
  OBVIOUS
<1>4. ASSUME NEW x \in T
      PROVE  /\ DOMAIN g[x] = 1 .. Len(f[x]) - 1 /\ 1 \in DOMAIN f[x]
             /\ \A k \in DOMAIN g[x] : g[x][k] = f[x][k + 1] /\ k + 1 \in DOMAIN f[x]
  <2>1. f[x] \in Seq(S) /\ f[x] # <<>> /\ g[x] = Tail(f[x])
    BY <1>2
  <2> QED
    BY <2>1
<1> HIDE DEF g
<1>5. ASSUME NEW x \in X, NEW j \in DOMAIN g[x]
      PROVE  \E i \in DOMAIN f[x] : /\ i = (IF x \in T THEN j + 1 ELSE j) /\ f[x][i] = g[x][j]
                                    /\ j \in Nat /\ j >= 1
  <2>1. CASE x \in T
    BY <1>3, <1>4, <2>1
  <2>2. CASE x \notin T
    BY <1>2, <1>3, <2>2
  <2> QED
    BY <2>1, <2>2
<1> QED
  BY <1>1, <1>4, <1>5 DEF g

LEMMA TakenOnce ==
  ASSUME NEW X, NEW S, NEW f \in [X -> Seq(S)], NEW T, \A x \in T : x \in X /\ f[x] # <<>>, NEW p
  PROVE  /\ IsIn(Taken(f, T), p) => IsIn(f, p)
         /\ OnceIn(f, p) => OnceIn(Taken(f, T), p)
<1> DEFINE g == Taken(f, T)
<1>1. /\ DOMAIN f = X /\ DOMAIN g = X
      /\ \A x \in X : \A j \in DOMAIN g[x] : \E i \in DOMAIN f[x] :
           /\ i = (IF x \in T THEN j + 1 ELSE j) /\ f[x][i] = g[x][j]
           /\ j \in Nat
  BY TakenIs
<1> HIDE DEF g
<1>2. IsIn(g, p) => IsIn(f, p)
  BY <1>1 DEF IsIn, Has
<1>3. ASSUME OnceIn(f, p) PROVE OnceIn(g, p)
  <2> SUFFICES ASSUME NEW x \in X, NEW y \in X, NEW j \in DOMAIN g[x], NEW k \in DOMAIN g[y],
                      g[x][j] = p, g[y][k] = p
               PROVE  x = y /\ j = k
    BY <1>1 DEF OnceIn
  <2>1. PICK i \in DOMAIN f[x] : /\ i = (IF x \in T THEN j + 1 ELSE j) /\ f[x][i] = g[x][j]
                                 /\ j \in Nat
    BY <1>1
  <2>2. PICK l \in DOMAIN f[y] : /\ l = (IF y \in T THEN k + 1 ELSE k) /\ f[y][l] = g[y][k]
                                 /\ k \in Nat
    BY <1>1
  <2>3. x = y /\ i = l
    BY <1>1, <1>3, <2>1, <2>2 DEF OnceIn
  <2> QED
    BY <2>1, <2>2, <2>3
<1> QED
  BY <1>2, <1>3 DEF g

HaveHeads(f, T) ==
  (\E S : f \in [DOMAIN f -> Seq(S)]) /\ \A x \in T : x \in DOMAIN f /\ f[x] # <<>>

LEMMA OthersWait ==
  ASSUME NEW f, NEW T, HaveHeads(f, T), NEW x \in DOMAIN f, NEW p, Has(f[x], p)
  PROVE  Has(Taken(f, T)[x], p) \/ (x \in T /\ f[x][1] = p)
<1>1. PICK S : f[x] \in Seq(S)
  BY DEF HaveHeads
<1>2. PICK k \in DOMAIN f[x] : f[x][k] = p
  BY DEF Has
<1>3. CASE x \in T
  <2>1. Taken(f, T)[x] = Tail(f[x]) /\ f[x] # <<>>
    BY <1>3 DEF Taken, HaveHeads
  <2>2. k # 1 => k - 1 \in DOMAIN Tail(f[x]) /\ Tail(f[x])[k - 1] = p
    BY <1>1, <1>2, <2>1
  <2>3. k # 1 => Has(Tail(f[x]), p)
    BY <2>2 DEF Has
  <2> QED
    BY <1>2, <1>3, <2>1, <2>3
<1>4. CASE x \notin T
  <2>1. Taken(f, T)[x] = f[x]
    BY <1>4 DEF Taken
  <2> QED
    BY <2>1
<1> QED
  BY <1>3, <1>4

LEMMA HeadTaken ==
  ASSUME NEW f, NEW T, HaveHeads(f, T), NEW p, OnceIn(f, p)
  PROVE  \A x \in T : f[x][1] = p =>
           IsIn(f, p) /\ ~IsIn(Taken(f, T), p) /\ \A y \in T : f[y][1] = p => y = x
<1> DEFINE X == DOMAIN f
<1> PICK S : f \in [X -> Seq(S)]
  BY DEF HaveHeads
<1>0. \A x \in T : x \in X /\ f[x] # <<>>
  BY DEF HaveHeads
<1> SUFFICES ASSUME NEW x \in T, f[x][1] = p
             PROVE  IsIn(f, p) /\ ~IsIn(Taken(f, T), p) /\ \A y \in T : f[y][1] = p => y = x
  OBVIOUS
<1> DEFINE g == Taken(f, T)
<1>1. /\ DOMAIN f = X /\ DOMAIN g = X
      /\ \A y \in T : 1 \in DOMAIN f[y]
      /\ \A y \in X : \A j \in DOMAIN g[y] : \E i \in DOMAIN f[y] :
           /\ i = (IF y \in T THEN j + 1 ELSE j) /\ f[y][i] = g[y][j]
           /\ j \in Nat /\ j >= 1
  BY <1>0, TakenIs
<1> HIDE DEF g, X
<1>2. IsIn(f, p)
  BY <1>0, <1>1 DEF IsIn, Has
<1>3. ASSUME NEW y \in T, f[y][1] = p PROVE y = x
  BY <1>0, <1>1, <1>3 DEF OnceIn
<1>4. ASSUME NEW y \in X, NEW j \in DOMAIN g[y], g[y][j] = p PROVE FALSE
  <2>1. PICK i \in DOMAIN f[y] : /\ i = (IF y \in T THEN j + 1 ELSE j) /\ f[y][i] = g[y][j]
                                 /\ j \in Nat /\ j >= 1
    BY <1>1
  <2>2. y = x /\ i = 1
    BY <1>0, <1>1, <1>4, <2>1 DEF OnceIn
  <2> QED
    BY <2>1, <2>2
<1> QED
  BY <1>1, <1>2, <1>3, <1>4 DEF IsIn, Has, g, X

(* ... and a packet is added to the tail of some. *)
LEMMA AddedOnce ==
  ASSUME NEW X, NEW S, NEW f \in [X -> Seq(S)], NEW T, NEW q \in S, NEW p
  PROVE  /\ IsIn(Added(f, T, q), p) => IsIn(f, p) \/ p = q
         /\ OnceIn(f, p) /\ p # q => OnceIn(Added(f, T, q), p)
         /\ ~IsIn(f, q) /\ (\A x, y \in T : x = y) => OnceIn(Added(f, T, q), q)
<1> DEFINE g == Added(f, T, q)
<1>1. DOMAIN f = X /\ DOMAIN g = X
  BY DEF Added
<1>2. \A x \in X : g[x] = IF x \in T THEN Append(f[x], q) ELSE f[x]
  BY <1>1 DEF Added
<1>3. ASSUME NEW x \in X
      PROVE  DOMAIN f[x] = 1 .. Len(f[x]) /\ Len(f[x]) \in Nat
  OBVIOUS
<1>4. ASSUME NEW x \in X, x \in T
      PROVE  /\ DOMAIN g[x] = 1 .. Len(f[x]) + 1 /\ Len(f[x]) + 1 \in DOMAIN g[x]
             /\ g[x][Len(f[x]) + 1] = q
             /\ \A k \in DOMAIN f[x] : k \in DOMAIN g[x] /\ g[x][k] = f[x][k]
             /\ g[x] # <<>>
  <2>1. f[x] \in Seq(S) /\ g[x] = Append(f[x], q)
    BY <1>2, <1>4
  <2> QED
    BY <2>1, Appended
<1> HIDE DEF g
<1>5. ASSUME NEW x \in X, NEW k \in DOMAIN g[x]
      PROVE  \/ k \in DOMAIN f[x] /\ g[x][k] = f[x][k]
             \/ x \in T /\ k = Len(f[x]) + 1 /\ g[x][k] = q
  <2>1. CASE x \in T
    BY <1>3, <1>4, <2>1
  <2>2. CASE x \notin T
    BY <1>2, <2>2
  <2> QED
    BY <2>1, <2>2
<1>6. IsIn(g, p) => IsIn(f, p) \/ p = q
  BY <1>1, <1>5 DEF IsIn, Has
<1>7. OnceIn(f, p) /\ p # q => OnceIn(g, p)
  BY <1>1, <1>5 DEF OnceIn
<1>8. ~IsIn(f, q) /\ (\A x, y \in T : x = y) => OnceIn(g, q)
  BY <1>1, <1>5 DEF OnceIn, IsIn, Has
<1> QED
  BY <1>6, <1>7, <1>8 DEF g

LEMMA AppendHas ==
  ASSUME NEW S, NEW f \in Seq(S), NEW q \in S
  PROVE  Has(Append(f, q), q) /\ \A p : Has(f, p) => Has(Append(f, q), p)
<1>1. /\ Len(f) + 1 \in DOMAIN Append(f, q) /\ Append(f, q)[Len(f) + 1] = q
      /\ \A k \in DOMAIN f : k \in DOMAIN Append(f, q) /\ Append(f, q)[k] = f[k]
  OBVIOUS
<1> QED
  BY <1>1 DEF Has

AddedKeeps(f, T, q) ==
  /\ \A x \in T : x \in DOMAIN f => Has(Added(f, T, q)[x], q)
  /\ \A x \in DOMAIN f : \A p : Has(f[x], p) => Has(Added(f, T, q)[x], p)

LEMMA AddedHas ==
  ASSUME NEW X, NEW S, NEW f \in [X -> Seq(S)], NEW T, NEW q \in S
  PROVE  AddedKeeps(f, T, q)
<1> DEFINE g == Added(f, T, q)
<1>1. \A x \in X : g[x] = IF x \in T THEN Append(f[x], q) ELSE f[x]
  BY DEF Added
<1> HIDE DEF g
<1>2. ASSUME NEW x \in X
      PROVE  /\ x \in T => Has(g[x], q)
             /\ \A p : Has(f[x], p) => Has(g[x], p)
  <2>1. f[x] \in Seq(S)
    OBVIOUS
  <2>2. Has(Append(f[x], q), q) /\ \A p : Has(f[x], p) => Has(Append(f[x], q), p)
    BY <2>1, AppendHas
  <2> QED
    BY <1>1, <2>2
<1> QED
  BY <1>2 DEF AddedKeeps, g

LEMMA HeadStays ==
  ASSUME NEW X, NEW S, NEW f \in [X -> Seq(S)], NEW T, NEW q \in S, NEW x \in X, f[x] # <<>>
  PROVE  Added(f, T, q)[x] # <<>> /\ Added(f, T, q)[x][1] = f[x][1]
<1>1. f[x] \in Seq(S) /\ 1 \in DOMAIN f[x]
  OBVIOUS
<1>2. Append(f[x], q) # <<>> /\ Append(f[x], q)[1] = f[x][1]
  BY <1>1, Appended
<1> QED
  BY <1>2 DEF Added

-------------------------------------------------------------------------------
(* One switch: a packet for one host is in it once, whatever it does.      *)
HeldOnce(w, p) == OnceIn(w.rx, p) /\ OnceIn(w.voq, p) /\ ~(IsIn(w.rx, p) /\ IsIn(w.voq, p))
Holds(w, p) == IsIn(w.rx, p) \/ IsIn(w.voq, p)

LEMMA IdleHolds ==
  ASSUME NEW p
  PROVE  HeldOnce(IdleSwitch, p) /\ ~Holds(IdleSwitch, p)
  BY DEF HeldOnce, Holds, IdleSwitch, OnceIn, IsIn, Has

LEMMA OutsideHeld ==
  ASSUME NEW S, NEW w \in SwitchStates(S), NEW p, p \notin S
  PROVE  HeldOnce(w, p) /\ ~Holds(w, p)
<1>1. w.rx \in [Ports -> Seq(S)] /\ w.voq \in [Ports \X Ports -> Seq(S)]
  BY DEF SwitchStates
<1>2. ASSUME NEW X, NEW f \in [X -> Seq(S)] PROVE ~IsIn(f, p) /\ OnceIn(f, p)
  <2>1. \A x \in X : \A k \in DOMAIN f[x] : f[x][k] \in S
    OBVIOUS
  <2> QED
    BY <2>1 DEF IsIn, Has, OnceIn
<1> QED
  BY <1>1, <1>2 DEF HeldOnce, Holds

LEMMA LookedUpIs ==
  ASSUME NEW S, NEW w \in SwitchStates(S), NEW in \in Ports, w.rx[in] # <<>>, NEW outs
  PROVE  /\ LookedUp(w, in, outs).rx = Taken(w.rx, {in})
         /\ LookedUp(w, in, outs).voq = Added(w.voq, {in} \X outs, Head(w.rx[in]))
<1> DEFINE q == Head(w.rx[in])
           v == LookedUp(w, in, outs)
<1>1. w.rx \in [Ports -> Seq(S)] /\ w.voq \in [Ports \X Ports -> Seq(S)]
  BY DEF SwitchStates
<1>2. /\ v.rx = [w.rx EXCEPT ![in] = Tail(@)]
      /\ v.voq = [c \in Ports \X Ports |->
                    IF c[1] = in /\ c[2] \in outs THEN Append(w.voq[c], q) ELSE w.voq[c]]
  BY DEF LookedUp, SwitchStates
<1> HIDE DEF q, v
<1>3. v.rx = Taken(w.rx, {in})
  BY <1>1, <1>2 DEF Taken
<1>4. \A c \in Ports \X Ports : (c[1] = in /\ c[2] \in outs) <=> c \in {in} \X outs
  OBVIOUS
<1>5. v.voq = Added(w.voq, {in} \X outs, q)
  BY <1>1, <1>2, <1>4 DEF Added
<1> QED
  BY <1>3, <1>5 DEF v, q

LEMMA LookUpHeld ==
  ASSUME NEW S, NEW w \in SwitchStates(S), NEW in \in Ports, w.rx[in] # <<>>, NEW outs,
         NEW p, HeldOnce(w, p), p = Head(w.rx[in]) => \A o, m \in outs : o = m
  PROVE  /\ HeldOnce(LookedUp(w, in, outs), p)
         /\ Holds(LookedUp(w, in, outs), p) => Holds(w, p)
<1> DEFINE q == Head(w.rx[in])
           v == LookedUp(w, in, outs)
           rx == w.rx
           voq == w.voq
           A == {in} \X outs
<1>1. rx \in [Ports -> Seq(S)] /\ voq \in [Ports \X Ports -> Seq(S)]
  BY DEF SwitchStates
<1>2. v.rx = Taken(rx, {in}) /\ v.voq = Added(voq, A, q)
  BY LookedUpIs
<1>3. q \in S /\ q = rx[in][1] /\ rx[in] # <<>>
  BY <1>1
<1>4. OnceIn(rx, p) /\ OnceIn(voq, p) /\ ~(IsIn(rx, p) /\ IsIn(voq, p))
  BY DEF HeldOnce
<1>5. p = q => \A x, y \in A : x = y
  OBVIOUS
<1> HIDE DEF q, v, rx, voq, A
<1>6. /\ IsIn(Taken(rx, {in}), p) => IsIn(rx, p)
      /\ OnceIn(Taken(rx, {in}), p)
      /\ p = q => IsIn(rx, p) /\ ~IsIn(Taken(rx, {in}), p)
  <2>1. \A x \in {in} : x \in Ports /\ rx[x] # <<>>
    BY <1>3
  <2>2. /\ IsIn(Taken(rx, {in}), p) => IsIn(rx, p)
        /\ OnceIn(Taken(rx, {in}), p)
    BY <1>1, <1>4, <2>1, TakenOnce
  <2>3. p = q => IsIn(rx, p) /\ ~IsIn(Taken(rx, {in}), p)
    <3>1. HaveHeads(rx, {in})
      BY <1>1, <2>1 DEF HaveHeads
    <3> QED
      BY <1>3, <1>4, <3>1, HeadTaken
  <2> QED
    BY <2>2, <2>3
<1>7. /\ IsIn(Added(voq, A, q), p) => IsIn(voq, p) \/ p = q
      /\ p # q => OnceIn(Added(voq, A, q), p)
  BY <1>1, <1>3, <1>4, AddedOnce
<1>8. p = q => OnceIn(Added(voq, A, q), p)
  BY <1>1, <1>3, <1>4, <1>5, <1>6, AddedOnce
<1>9. HeldOnce(v, p) /\ (IsIn(v.rx, p) \/ IsIn(v.voq, p) => IsIn(rx, p) \/ IsIn(voq, p))
  BY <1>2, <1>4, <1>6, <1>7, <1>8 DEF HeldOnce
<1> QED
  BY <1>9 DEF Holds, v, rx, voq

(* For a packet with one destination the lookup has one output. *)
LEMMA LookHeld ==
  ASSUME NEW S, NEW s, NEW w \in SwitchStates(S), NEW look \in Looks(s, w),
         NEW p, Dst(p) # All, HeldOnce(w, p)
  PROVE  HeldOnce(look.w, p) /\ (Holds(look.w, p) => Holds(w, p))
<1>1. CASE look.w = w
  BY <1>1
<1>2. ASSUME NEW in \in Ports, w.rx[in] # <<>>, NEW outs,
             outs \in LookUps(s, in, Head(w.rx[in])) \/ outs = {}, look.w = LookedUp(w, in, outs)
      PROVE  HeldOnce(look.w, p) /\ (Holds(look.w, p) => Holds(w, p))
  <2>1. p = Head(w.rx[in]) => \A o, m \in outs : o = m
    BY <1>2 DEF LookUps
  <2> QED
    BY <1>2, <2>1, LookUpHeld
<1>3. \/ look.w = w
      \/ \E in \in Ports : /\ w.rx[in] # <<>>
                           /\ \E outs : /\ outs \in LookUps(s, in, Head(w.rx[in])) \/ outs = {}
                                        /\ look.w = LookedUp(w, in, outs)
  BY DEF Looks
<1> QED
  BY <1>1, <1>2, <1>3

LEMMA LookKeepsHeads ==
  ASSUME NEW S, NEW s, NEW w \in SwitchStates(S), NEW look \in Looks(s, w),
         NEW c \in Ports \X Ports, w.voq[c] # <<>>
  PROVE  look.w.voq[c] # <<>> /\ look.w.voq[c][1] = Head(w.voq[c])
<1>1. w.voq \in [Ports \X Ports -> Seq(S)]
  BY DEF SwitchStates
<1>2. CASE look.w = w
  BY <1>1, <1>2
<1>3. ASSUME NEW in \in Ports, w.rx[in] # <<>>, NEW outs, look.w = LookedUp(w, in, outs)
      PROVE  look.w.voq[c] # <<>> /\ look.w.voq[c][1] = w.voq[c][1]
  <2> DEFINE q == Head(w.rx[in])
  <2>1. look.w.voq = Added(w.voq, {in} \X outs, q)
    <3>1. LookedUp(w, in, outs).voq = Added(w.voq, {in} \X outs, q)
      BY <1>3, LookedUpIs
    <3> QED
      BY <1>3, <3>1
  <2>2. q \in S
    BY <1>3 DEF SwitchStates
  <2> HIDE DEF q
  <2> QED
    BY <1>1, <2>1, <2>2, HeadStays
<1>4. \/ look.w = w
      \/ \E in \in Ports : w.rx[in] # <<>> /\ \E outs : look.w = LookedUp(w, in, outs)
  BY DEF Looks
<1> QED
  BY <1>1, <1>2, <1>3, <1>4

LEMMA TransmittedIs ==
  ASSUME NEW S, NEW w \in SwitchStates(S), NEW M
  PROVE  Transmitted(w, M).rx = w.rx /\ Transmitted(w, M).voq = Taken(w.voq, M)
<1>1. /\ Transmitted(w, M).rx = w.rx
      /\ Transmitted(w, M).voq =
           [c \in Ports \X Ports |-> IF c \in M THEN Tail(w.voq[c]) ELSE w.voq[c]]
  BY DEF Transmitted, SwitchStates
<1> QED
  BY <1>1 DEF Taken, SwitchStates

LEMMA TransmitHeld ==
  ASSUME NEW S, NEW w \in SwitchStates(S), NEW M, NEW v,
         v.rx = w.rx, v.voq = Taken(w.voq, M),
         HaveHeads(w.voq, M), NEW p, HeldOnce(w, p)
  PROVE  /\ HeldOnce(v, p) /\ (Holds(v, p) => Holds(w, p))
         /\ \A c \in M : w.voq[c][1] = p =>
              /\ ~Holds(v, p) /\ Holds(w, p)
              /\ \A b \in M : w.voq[b][1] = p => b = c
<1> DEFINE voq == w.voq
           C == Ports \X Ports
<1>1. voq \in [C -> Seq(S)]
  BY DEF SwitchStates
<1>2. v.voq = Taken(voq, M) /\ OnceIn(voq, p) /\ \A c \in M : c \in C /\ voq[c] # <<>>
  BY <1>1 DEF HeldOnce, HaveHeads
<1> HIDE DEF voq, C
<1>3. OnceIn(v.voq, p) /\ (IsIn(v.voq, p) => IsIn(voq, p))
  BY <1>1, <1>2, TakenOnce
<1>4. \A c \in M : voq[c][1] = p =>
        IsIn(voq, p) /\ ~IsIn(Taken(voq, M), p) /\ \A b \in M : voq[b][1] = p => b = c
  <2>1. HaveHeads(voq, M)
    BY DEF voq
  <2> QED
    BY <1>2, <2>1, HeadTaken
<1> QED
  BY <1>2, <1>3, <1>4 DEF HeldOnce, Holds, voq

-------------------------------------------------------------------------------
(* What an event does to the transmissions on the heap. *)
LEMMA TransmissionsAfter ==
  ASSUME NetTypeOK, NEW e \in BagToSet(queue), NEW events, Processed(e, events),
         NEW f, f.kind = "transmit"
  PROVE  /\ f \in events => f \in BagToSet(queue')
         /\ f \in BagToSet(queue) /\ f # e => f \in BagToSet(queue')
         /\ f \in BagToSet(queue') => f \in BagToSet(queue) \/ f \in events
         /\ f \in BagToSet(queue') /\ f \notin events /\ queue[f] = 1 =>
              f # e /\ queue'[f] = 1
         /\ f \in events /\ f \notin BagToSet(queue) => queue'[f] = 1
<1> DEFINE cycles == {Cycle(e.time + CycleTime, s) : s \in Pending'}
           rest   == queue (-) SetToBag({e})
           more   == rest (+) SetToBag(events)
<1>1. queue' = more (+) SetToBag(cycles)
  BY DEF Processed
<1>2. f \notin cycles
  BY DEF Cycle
<1>3. IsABag(queue) /\ \A x \in BagToSet(queue) : queue[x] \in Nat \ {0}
  BY DEF NetTypeOK, IsABag, BagToSet
<1>4. f \in BagToSet(queue) /\ f # e => f \in BagToSet(rest)
  BY <1>3 DEF BagToSet, (-), SetToBag
<1>5. BagToSet(rest) \subseteq BagToSet(queue) /\ BagToSet(more) = BagToSet(rest) \cup events
  BY InDifference, InSum, OfSet
<1>6. BagToSet(queue') = BagToSet(more) \cup cycles
  BY <1>1, InSum, OfSet
<1>7. ASSUME f \in BagToSet(queue'), f \notin events, queue[f] = 1
      PROVE  f # e /\ queue'[f] = 1
  <2>1. f \in BagToSet(more)
    BY <1>2, <1>6, <1>7
  <2>2. f \in BagToSet(rest)
    BY <1>5, <1>7, <2>1
  <2>3. f # e /\ rest[f] = 1
    BY <1>7, <2>2, CountInRest
  <2>4. more[f] = 1
    BY <1>7, <2>1, <2>3, CountInSum
  <2> QED
    BY <1>1, <1>2, <1>7, <2>3, <2>4, CountInSum
<1>8. ASSUME f \in events, f \notin BagToSet(queue)
      PROVE  queue'[f] = 1
  <2>1. f \notin BagToSet(rest)
    BY <1>5, <1>8
  <2>2. f \in BagToSet(more) /\ more[f] = 1
    BY <1>8, <2>1 DEF BagToSet, (+), SetToBag
  <2>3. f \in BagToSet(queue')
    BY <1>6, <2>2
  <2> QED
    BY <1>1, <1>2, <2>2, <2>3, CountInSum
<1> QED
  BY <1>2, <1>4, <1>5, <1>6, <1>7, <1>8

LEMMA ReceiveHeld ==
  ASSUME NEW S, NEW w \in SwitchStates(S), NEW port \in Ports, NEW q \in S,
         NEW v, v = ReceivePacket(w, port, q), NEW p
  PROVE  /\ HeldOnce(w, p) /\ p # q => HeldOnce(v, p) /\ (Holds(v, p) => Holds(w, p))
         /\ ~Holds(w, q) => HeldOnce(v, q)
         /\ Has(v.rx[port], q)
<1> DEFINE rx == w.rx
           voq == w.voq
<1>1. rx \in [Ports -> Seq(S)] /\ voq \in [Ports \X Ports -> Seq(S)]
  BY DEF SwitchStates
<1>2. v.voq = voq /\ v.rx = [rx EXCEPT ![port] = Append(@, q)]
  BY DEF ReceivePacket, SwitchStates
<1> DEFINE T == {port}
<1> HIDE DEF rx, voq
<1>3. v.rx = Added(rx, T, q) /\ port \in T /\ \A x, y \in T : x = y
  BY <1>1, <1>2 DEF Added
<1> HIDE DEF T
<1>4. /\ IsIn(v.rx, p) => IsIn(rx, p) \/ p = q
      /\ OnceIn(rx, p) /\ p # q => OnceIn(v.rx, p)
      /\ ~IsIn(rx, q) => OnceIn(v.rx, q)
      /\ Has(v.rx[port], q)
  <2> DEFINE g == Added(rx, T, q)
  <2>1. /\ IsIn(g, p) => IsIn(rx, p) \/ p = q
        /\ OnceIn(rx, p) /\ p # q => OnceIn(g, p)
    BY <1>1, AddedOnce
  <2>2. ~IsIn(rx, q) => OnceIn(g, q)
    BY <1>1, <1>3, AddedOnce
  <2>3. Has(g[port], q)
    <3>1. rx[port] \in Seq(S) /\ g[port] = Append(rx[port], q)
      BY <1>1, <1>3 DEF Added
    <3> QED
      BY <3>1, AppendHas
  <2>4. v.rx = g
    BY <1>3
  <2> HIDE DEF g
  <2> QED
    BY <2>1, <2>2, <2>3, <2>4
<1>5. ~IsIn(voq, q) => OnceIn(voq, q)
  BY DEF IsIn, Has, OnceIn
<1> QED
  BY <1>2, <1>4, <1>5 DEF HeldOnce, Holds, rx, voq

-------------------------------------------------------------------------------
(* A packet for one host is in one place: in one queue of one switch, in   *)
(* one transmission, or delivered.                                         *)
SentOf(p) == {e \in BagToSet(queue) : e.kind = "transmit" /\ e.packet = p}
DeliveriesOf(p) == {d \in delivered : d[1] = p}

OnePlace(p) ==
  /\ \A s \in Switches : HeldOnce(switch[s], p)
  /\ \A r, s \in Switches : Holds(switch[r], p) /\ Holds(switch[s], p) => r = s
  /\ \A e, f \in SentOf(p) : e = f /\ queue[e] = 1
  /\ \A d, f \in DeliveriesOf(p) : d = f
  /\ \A s \in Switches : Holds(switch[s], p) => SentOf(p) = {} /\ DeliveriesOf(p) = {}
  /\ SentOf(p) = {} \/ DeliveriesOf(p) = {}

InOnePlace == \A p \in DOMAIN entries : Dst(p) # All => OnePlace(p)

LEMMA SentAfter ==
  ASSUME NetTypeOK, NEW e \in BagToSet(queue), NEW events, Processed(e, events),
         NEW p, \A f \in events : f.packet # p
  PROVE  /\ SentOf(p)' \subseteq SentOf(p)
         /\ \A f \in SentOf(p)' : queue[f] = 1 => f # e /\ queue'[f] = 1
<1>1. ASSUME NEW f \in BagToSet(queue'), f.kind = "transmit", f.packet = p
      PROVE  f \in BagToSet(queue) /\ (queue[f] = 1 => f # e /\ queue'[f] = 1)
  BY <1>1, TransmissionsAfter
<1> QED
  BY <1>1 DEF SentOf

LEMMA NotEntered ==
  ASSUME PacketsInv, NEW p, p \notin Entered
  PROVE  /\ \A s \in Switches : HeldOnce(switch[s], p) /\ ~Holds(switch[s], p)
         /\ SentOf(p) = {} /\ DeliveriesOf(p) = {}
<1>1. \A s \in Switches : switch[s] \in SwitchStates(Entered)
  BY DEF PacketsInv
<1> QED
  BY <1>1, OutsideHeld DEF PacketsInv, EventsInOrder, DeliveredRight, SentOf, DeliveriesOf

LEMMA InjectionKeepsPlace ==
  ASSUME PacketsInv, NetTypeOK, InOnePlace, NEW e \in BagToSet(queue), ProcessInjection(e)
  PROVE  InOnePlace'
<1> DEFINE q  == e.packet
           at == AttachedTo(topo, entries[q].src)
<1>1. /\ e.kind = "inject" /\ Processed(e, {}) /\ delivered' = delivered
      /\ switch' = [switch EXCEPT ![at.node] = ReceivePacket(@, at.port, q)]
  BY DEF ProcessInjection
<1>2. q \notin Entered /\ entries' = entries /\ topo' = topo
  BY <1>1 DEF Entered, Awaits, Processed
<1>3. q \in DOMAIN entries /\ entries[q].src \in Hosts
  BY <1>1 DEF NetTypeOK, Events
<1>4. at.node \in Switches /\ at.port \in Ports
  BY <1>3, AttachedToSwitch DEF NetTypeOK
<1> HIDE DEF at
<1>5. Switches' = Switches /\ DOMAIN entries' = DOMAIN entries /\ \A p : Dst(p)' = Dst(p)
  BY <1>2 DEF Switches, Dst
<1>6. \A s \in Switches : switch[s] \in SwitchStates(DOMAIN entries)
  BY PacketsTyped DEF PacketTypes
<1>7. /\ switch'[at.node] = ReceivePacket(switch[at.node], at.port, q)
      /\ \A s \in Switches : s # at.node => switch'[s] = switch[s]
  BY <1>1, <1>4, PacketsTyped DEF PacketTypes
<1> SUFFICES ASSUME NEW p \in DOMAIN entries, Dst(p) # All PROVE OnePlace(p)'
  BY <1>5 DEF InOnePlace
<1>8. OnePlace(p)
  BY DEF InOnePlace
<1>9. /\ SentOf(p)' \subseteq SentOf(p)
      /\ \A f \in SentOf(p)' : queue[f] = 1 => queue'[f] = 1
  BY <1>1, SentAfter
<1>10. DeliveriesOf(p)' = DeliveriesOf(p)
  BY <1>1 DEF DeliveriesOf
<1>11. CASE p = q
  <2>1. /\ \A s \in Switches : HeldOnce(switch[s], p) /\ ~Holds(switch[s], p)
        /\ SentOf(p) = {} /\ DeliveriesOf(p) = {}
    BY <1>2, <1>11, NotEntered
  <2>2. HeldOnce(switch'[at.node], p)
    BY <1>3, <1>4, <1>6, <1>7, <1>11, <2>1, ReceiveHeld
  <2> QED
    BY <1>5, <1>7, <1>9, <1>10, <2>1, <2>2 DEF OnePlace
<1>12. CASE p # q
  <2>1. \A s \in Switches : HeldOnce(switch'[s], p) /\ (Holds(switch'[s], p) => Holds(switch[s], p))
    <3>1. HeldOnce(switch[at.node], p)
      BY <1>4, <1>8 DEF OnePlace
    <3>2. /\ HeldOnce(switch'[at.node], p)
          /\ Holds(switch'[at.node], p) => Holds(switch[at.node], p)
      BY <1>3, <1>4, <1>6, <1>7, <1>12, <3>1, ReceiveHeld
    <3> QED
      BY <1>7, <1>8, <3>2 DEF OnePlace
  <2> QED
    BY <1>5, <1>8, <1>9, <1>10, <2>1 DEF OnePlace
<1> QED
  BY <1>11, <1>12

LEMMA TransmissionKeepsPlace ==
  ASSUME PacketsInv, NetTypeOK, InOnePlace, NEW e \in BagToSet(queue), ProcessTransmission(e)
  PROVE  InOnePlace'
<1>1. /\ e.kind = "transmit" /\ Processed(e, {}) /\ switch' = switch
      /\ entries' = entries /\ topo' = topo
  BY DEF ProcessTransmission, Processed
<1>2. \/ delivered' = delivered
      \/ delivered' = delivered \cup {<<e.packet, e.to, e.time>>}
  BY DEF ProcessTransmission, Deliver
<1>3. Switches' = Switches /\ DOMAIN entries' = DOMAIN entries /\ \A p : Dst(p)' = Dst(p)
  BY <1>1 DEF Switches, Dst
<1> SUFFICES ASSUME NEW p \in DOMAIN entries, Dst(p) # All PROVE OnePlace(p)'
  BY <1>3 DEF InOnePlace
<1>4. OnePlace(p)
  BY DEF InOnePlace
<1>5. /\ SentOf(p)' \subseteq SentOf(p)
      /\ \A f \in SentOf(p)' : queue[f] = 1 => f # e /\ queue'[f] = 1
  BY <1>1, SentAfter
<1>6. CASE DeliveriesOf(p)' = DeliveriesOf(p)
  BY <1>1, <1>3, <1>4, <1>5, <1>6 DEF OnePlace
<1>7. CASE p = e.packet /\ delivered' = delivered \cup {<<e.packet, e.to, e.time>>}
  <2>1. e \in SentOf(p)
    BY <1>1, <1>7 DEF SentOf
  <2>2. DeliveriesOf(p) = {} /\ \A s \in Switches : ~Holds(switch[s], p)
    BY <1>4, <2>1 DEF OnePlace
  <2>3. SentOf(p)' = {}
    BY <1>4, <1>5, <2>1 DEF OnePlace
  <2>4. \A d, f \in DeliveriesOf(p)' : d = f
    BY <1>7, <2>2 DEF DeliveriesOf
  <2> QED
    BY <1>1, <1>3, <1>4, <2>2, <2>3, <2>4 DEF OnePlace
<1>8. \/ DeliveriesOf(p)' = DeliveriesOf(p)
      \/ p = e.packet /\ delivered' = delivered \cup {<<e.packet, e.to, e.time>>}
  BY <1>2 DEF DeliveriesOf
<1> QED
  BY <1>6, <1>7, <1>8

LEMMA NothingSent ==
  ASSUME NetTypeOK, NEW e \in BagToSet(queue), NEW events, Processed(e, events),
         delivered' = delivered, NEW p, OnePlace(p), \A f \in events : f.packet # p,
         \A s \in Switches : /\ HeldOnce(switch'[s], p)
                             /\ Holds(switch'[s], p) => Holds(switch[s], p)
  PROVE  OnePlace(p)'
<1>1. Switches' = Switches
  BY DEF Processed, Switches
<1>2. /\ SentOf(p)' \subseteq SentOf(p)
      /\ \A f \in SentOf(p)' : queue[f] = 1 => queue'[f] = 1
  BY SentAfter
<1>3. DeliveriesOf(p)' = DeliveriesOf(p)
  BY DEF DeliveriesOf
<1> QED
  BY <1>1, <1>2, <1>3 DEF OnePlace

(* What a cycle does to its switch. *)
LEMMA CycleIs ==
  ASSUME PacketsInv, NetTypeOK, NEW e \in BagToSet(queue), e.kind = "cycle",
         NEW w, w = [switch[e.switch] EXCEPT !.clock = MaxOf(@, e.time) + CycleTime]
  PROVE  /\ e.switch \in Switches /\ w \in SwitchStates(DOMAIN entries)
         /\ w.rx = switch[e.switch].rx /\ w.voq = switch[e.switch].voq
<1>1. e.switch \in Switches /\ e.time \in Nat
  BY DEF NetTypeOK, Events
<1>2. switch[e.switch] \in SwitchStates(DOMAIN entries) /\ CycleTime \in Nat
  BY <1>1, PacketsTyped, NetAssumption DEF PacketTypes
<1>3. MaxOf(switch[e.switch].clock, e.time) + CycleTime \in Nat
  BY <1>1, <1>2 DEF SwitchStates, MaxOf
<1> QED
  BY <1>1, <1>2, <1>3 DEF SwitchStates

LEMMA BusyIs ==
  ASSUME PacketsInv, NEW s \in Switches, NEW u, switch' = [switch EXCEPT ![s] = u]
  PROVE  switch'[s] = u /\ \A r \in Switches : r # s => switch'[r] = switch[r]
  BY DEF PacketsInv

LEMMA BusyKeepsPlace ==
  ASSUME PacketsInv, NetTypeOK, NEW e \in BagToSet(queue), NEW s \in Switches,
         NEW w \in SwitchStates(DOMAIN entries), w.rx = switch[s].rx, w.voq = switch[s].voq,
         BusyCycle(e, s, w), delivered' = delivered,
         NEW p, Dst(p) # All, OnePlace(p)
  PROVE  OnePlace(p)'
<1>1. PICK look \in Looks(s, w), M \in Matchings(w) :
        /\ switch' = [switch EXCEPT ![s] = [Transmitted(look.w, M) EXCEPT !.slack = MaxQuiet]]
        /\ Processed(e, UNION {Routed(s, c[2], Head(w.voq[c]), e.time) : c \in M})
  BY DEF BusyCycle
<1> DEFINE v == look.w
           T == Transmitted(v, M)
           u == [T EXCEPT !.slack = MaxQuiet]
           events == UNION {Routed(s, c[2], Head(w.voq[c]), e.time) : c \in M}
<1>2. \A c \in M : c \in Ports \X Ports /\ w.voq[c] # <<>>
  BY DEF Matchings
<1>3. v \in SwitchStates(DOMAIN entries)
  BY LookIsState
<1>4. u.rx = v.rx /\ u.voq = Taken(v.voq, M)
  <2>1. T.rx = v.rx /\ T.voq = Taken(v.voq, M)
    BY <1>3, TransmittedIs
  <2>2. T \in SwitchStates(DOMAIN entries)
    BY <1>2, <1>3, LookIsState, TransmittedIsState
  <2> HIDE DEF T
  <2> QED
    BY <2>1, <2>2 DEF SwitchStates
<1>5. switch'[s] = u /\ \A r \in Switches : r # s => switch'[r] = switch[r]
  BY <1>1, BusyIs
<1>6. \A c \in M : v.voq[c] # <<>> /\ v.voq[c][1] = Head(w.voq[c])
  BY <1>2, LookKeepsHeads
<1>7. Processed(e, events)
  BY <1>1
<1> HIDE DEF v, u, events
<1>8. HeldOnce(w, p) /\ (Holds(w, p) <=> Holds(switch[s], p))
  BY DEF OnePlace, HeldOnce, Holds
<1>9. HeldOnce(v, p) /\ (Holds(v, p) => Holds(w, p))
  BY <1>8, LookHeld DEF v
<1>10. /\ HeldOnce(u, p) /\ (Holds(u, p) => Holds(v, p))
       /\ \A c \in M : v.voq[c][1] = p =>
            ~Holds(u, p) /\ Holds(v, p) /\ \A b \in M : v.voq[b][1] = p => b = c
  <2>1. HaveHeads(v.voq, M)
    BY <1>2, <1>3, <1>6 DEF HaveHeads, SwitchStates
  <2> QED
    BY <1>3, <1>4, <1>9, <2>1, TransmitHeld
<1>11. \A f \in events : \E c \in M : f \in Routed(s, c[2], Head(w.voq[c]), e.time)
  BY DEF events
<1>12. \A c \in M : \A f \in Routed(s, c[2], Head(w.voq[c]), e.time) :
         /\ f.packet = Head(w.voq[c]) /\ f.kind = "transmit"
         /\ \A g \in Routed(s, c[2], Head(w.voq[c]), e.time) : f = g
  BY DEF Routed, Transmission
<1>13. CASE \A c \in M : Head(w.voq[c]) # p
  <2>1. \A f \in events : f.packet # p
    BY <1>11, <1>12, <1>13
  <2>2. \A r \in Switches : HeldOnce(switch'[r], p) /\ (Holds(switch'[r], p) => Holds(switch[r], p))
    BY <1>5, <1>8, <1>9, <1>10 DEF OnePlace
  <2> QED
    BY <1>7, <2>1, <2>2, NothingSent
<1>14. ASSUME NEW c \in M, Head(w.voq[c]) = p
       PROVE  OnePlace(p)'
  <2>1. /\ ~Holds(u, p) /\ Holds(switch[s], p)
        /\ \A b \in M : Head(w.voq[b]) = p => b = c
    BY <1>6, <1>8, <1>9, <1>10, <1>14
  <2>2. SentOf(p) = {} /\ DeliveriesOf(p) = {} /\ \A r \in Switches : r # s => ~Holds(switch[r], p)
    BY <2>1 DEF OnePlace
  <2>3. \A r \in Switches : HeldOnce(switch'[r], p) /\ ~Holds(switch'[r], p)
    BY <1>5, <1>10, <2>1, <2>2 DEF OnePlace
  <2>4. \A f, g \in events : f.packet = p /\ g.packet = p => f = g
    BY <1>11, <1>12, <2>1
  <2>5. \A f \in SentOf(p)' : f \in events /\ f.packet = p /\ queue'[f] = 1
    <3>1. ASSUME NEW f \in BagToSet(queue'), f.kind = "transmit", f.packet = p
          PROVE  f \in events /\ queue'[f] = 1
      <4>1. f \notin BagToSet(queue)
        BY <2>2, <3>1 DEF SentOf
      <4> QED
        BY <1>7, <3>1, <4>1, TransmissionsAfter
    <3> QED
      BY <3>1 DEF SentOf
  <2>6. Switches' = Switches /\ DeliveriesOf(p)' = {}
    BY <1>7, <2>2 DEF Processed, Switches, DeliveriesOf
  <2> QED
    BY <2>3, <2>4, <2>5, <2>6 DEF OnePlace
<1> QED
  BY <1>13, <1>14

LEMMA CycleKeepsPlace ==
  ASSUME PacketsInv, NetTypeOK, InOnePlace, NEW e \in BagToSet(queue), ProcessSwitchCycle(e)
  PROVE  InOnePlace'
<1> DEFINE s == e.switch
           w == [switch[s] EXCEPT !.clock = MaxOf(@, e.time) + CycleTime]
<1>1. /\ e.kind = "cycle" /\ delivered' = delivered
      /\ BusyCycle(e, s, w) \/ QuietCycle(e, s, w)
  BY DEF ProcessSwitchCycle
<1>2. /\ s \in Switches /\ w \in SwitchStates(DOMAIN entries)
      /\ w.rx = switch[s].rx /\ w.voq = switch[s].voq
  BY <1>1, CycleIs
<1> HIDE DEF w
<1>3. entries' = entries /\ topo' = topo
  BY <1>1 DEF BusyCycle, QuietCycle, Processed
<1>4. DOMAIN entries' = DOMAIN entries /\ \A p : Dst(p)' = Dst(p)
  BY <1>3 DEF Dst
<1> SUFFICES ASSUME NEW p \in DOMAIN entries, Dst(p) # All PROVE OnePlace(p)'
  BY <1>4 DEF InOnePlace
<1>5. OnePlace(p)
  BY DEF InOnePlace
<1>6. CASE BusyCycle(e, s, w)
  BY <1>1, <1>2, <1>5, <1>6, BusyKeepsPlace
<1>7. CASE QuietCycle(e, s, w)
  <2>1. PICK k : switch' = [switch EXCEPT ![s] = [w EXCEPT !.slack = k]]
    BY <1>7 DEF QuietCycle
  <2> DEFINE u == [w EXCEPT !.slack = k]
  <2>2. switch'[s] = u /\ \A r \in Switches : r # s => switch'[r] = switch[r]
    BY <1>2, <2>1, BusyIs
  <2>3. u.rx = switch[s].rx /\ u.voq = switch[s].voq
    BY <1>2 DEF SwitchStates
  <2> HIDE DEF u
  <2>4. \A r \in Switches : HeldOnce(switch'[r], p) /\ (Holds(switch'[r], p) => Holds(switch[r], p))
    BY <1>5, <2>2, <2>3 DEF OnePlace, HeldOnce, Holds
  <2>5. Processed(e, {})
    BY <1>7 DEF QuietCycle
  <2> QED
    BY <1>1, <1>5, <2>4, <2>5, NothingSent
<1> QED
  BY <1>1, <1>6, <1>7

LEMMA ScheduleKeepsPlace ==
  ASSUME PacketsInv, NEW trace \in Traces, ScheduleTrace(trace)
  PROVE  InOnePlace'
<1> DEFINE injections == {Inject(trace[k].time, k) : k \in Known(trace)}
<1>1. /\ entries = <<>> /\ queue' = queue (+) SetToBag(injections)
      /\ UNCHANGED <<topo, switch, delivered>>
  BY DEF ScheduleTrace, state
<1>2. Entered = {} /\ Switches' = Switches
  BY <1>1 DEF Entered, Switches
<1>3. \A f \in BagToSet(queue') : f \in BagToSet(queue) \/ f.kind = "inject"
  BY <1>1, InSum, OfSet DEF Inject
<1> SUFFICES ASSUME NEW p \in DOMAIN entries' PROVE OnePlace(p)'
  BY DEF InOnePlace
<1>4. /\ \A s \in Switches : HeldOnce(switch[s], p) /\ ~Holds(switch[s], p)
      /\ SentOf(p) = {} /\ DeliveriesOf(p) = {}
  BY <1>2, NotEntered
<1>5. SentOf(p)' = {} /\ DeliveriesOf(p)' = {}
  BY <1>1, <1>3, <1>4 DEF SentOf, DeliveriesOf
<1> QED
  BY <1>1, <1>2, <1>4, <1>5 DEF OnePlace

LEMMA FreshInPlace == Fresh => InOnePlace
  BY DEF Fresh, InOnePlace

LEMMA PlaceStep ==
  ASSUME PacketsInv, NetTypeOK, InOnePlace, [NetNext]_netVars
  PROVE  InOnePlace'
<1>1. CASE \E trace \in Traces : ScheduleTrace(trace)
  BY <1>1, ScheduleKeepsPlace
<1>2. CASE UNCHANGED <<topo, entries, queue, switch, delivered>>
  BY <1>2 DEF InOnePlace, OnePlace, SentOf, DeliveriesOf, Switches, Dst
<1>3. CASE \E limit \in Limits : StartRun(limit)
  BY <1>2, <1>3 DEF StartRun, state
<1>4. CASE ProcessEvent
  BY <1>4, InjectionKeepsPlace, TransmissionKeepsPlace, CycleKeepsPlace DEF ProcessEvent
<1>5. CASE EndRun
  BY <1>2, <1>5 DEF EndRun, state
<1>6. CASE Reset
  <2>1. Fresh'
    BY <1>6 DEF Reset, Fresh, Switches
  <2>2. Fresh' => InOnePlace'
    BY FreshInPlace, PTL
  <2> QED
    BY <2>1, <2>2
<1>7. CASE UNCHANGED netVars
  BY <1>2, <1>7 DEF netVars, state
<1> QED
  BY <1>1, <1>3, <1>4, <1>5, <1>6, <1>7 DEF NetNext, RunLoop

(* A packet for one host is never in two places, whatever the lookups, the *)
(* matchings and the links do with it.                                     *)
THEOREM PlaceInvariant == NetSpec => []InOnePlace
<1>1. NetInit => InOnePlace
  BY DEF NetInit, InOnePlace
<1>2. PacketsInv /\ NetTypeOK /\ InOnePlace /\ [NetNext]_netVars => InOnePlace'
  BY PlaceStep
<1> QED
  BY <1>1, <1>2, PacketsInvariant, NetTypeCorrect, PTL DEF NetSpec

(* It is delivered once, since one for all hosts is delivered to none.     *)
LEMMA DeliveredOnce ==
  ASSUME PacketsInv, NetTypeOK, InOnePlace, NEW d \in delivered, NEW f \in delivered, d[1] = f[1]
  PROVE  d = f
<1>1. d[1] \in DOMAIN entries /\ d[2] = Dst(d[1]) /\ d[2] \in Hosts
  BY DEF PacketsInv, DeliveredRight, NetTypeOK
<1>2. d[2] # All
  <2>1. d[2] \in Nat
    BY <1>1, HostsAreNumbers DEF NetTypeOK
  <2> QED
    BY <2>1 DEF All
<1> QED
  BY <1>1, <1>2 DEF InOnePlace, OnePlace, DeliveriesOf

-------------------------------------------------------------------------------
(* The counts of the hosts. *)
CountedOf(h) == {d \in DeliveriesTo(h) : Identified(d[1])}

CountsRight ==
  /\ IsFiniteSet(delivered)
  /\ \A h \in Hosts :
       stats[h].received \in Cardinality(CountedOf(h)) .. Cardinality(DeliveriesTo(h))

(* Deliveries and records stay as they are in all steps but one. *)
LEMMA CountsStay ==
  ASSUME CountsRight, UNCHANGED <<topo, delivered>>,
         \A h \in Hosts : stats'[h].received = stats[h].received,
         entries' = entries \/ delivered = {}
  PROVE  CountsRight'
<1>1. Hosts' = Hosts
  BY DEF Hosts
<1>2. \A h : DeliveriesTo(h)' = DeliveriesTo(h)
  BY DEF DeliveriesTo
<1>3. \A h : CountedOf(h)' = CountedOf(h)
  <2>1. CASE entries' = entries
    BY <1>2, <2>1 DEF CountedOf, Identified, Id
  <2>2. CASE delivered = {}
    BY <1>2, <2>2 DEF CountedOf, DeliveriesTo
  <2> QED
    BY <2>1, <2>2
<1> QED
  BY <1>1, <1>2, <1>3 DEF CountsRight

LEMMA OneMore ==
  ASSUME NEW S, IsFiniteSet(S), NEW x, x \notin S
  PROVE  /\ Cardinality(S \cup {x}) = Cardinality(S) + 1 /\ Cardinality(S) \in Nat
         /\ IsFiniteSet(S \cup {x})
  BY FS_AddElement, FS_CardinalityType

LEMMA DeliveryCounted ==
  ASSUME PacketsInv, NetTypeOK, InOnePlace, CountsRight, NEW e \in BagToSet(queue),
         ProcessTransmission(e)
  PROVE  CountsRight'
<1> DEFINE p == e.packet
           h == e.to
           x == <<p, h, e.time>>
<1>1. /\ e.kind = "transmit" /\ Processed(e, {}) /\ topo' = topo /\ entries' = entries
  BY DEF ProcessTransmission, Processed
<1>2. CASE h \notin Hosts
  BY <1>1, <1>2, CountsStay DEF ProcessTransmission
<1>3. CASE h \in Hosts
  <2>1. p \in Entered /\ p \in DOMAIN entries /\ h = Dst(p)
    BY <1>1, <1>3 DEF PacketsInv, EventsInOrder, Entered
  <2>2. h # All
    <3>1. h \in Nat
      BY <1>3, HostsAreNumbers DEF NetTypeOK
    <3> QED
      BY <3>1 DEF All
  <2>3. OnePlace(p)
    BY <2>1, <2>2 DEF InOnePlace
  <2>4. DeliveriesOf(p) = {}
    BY <1>1, <2>3 DEF OnePlace, SentOf
  <2>5. x \notin delivered
    BY <2>4 DEF DeliveriesOf
  <2>6. delivered' = delivered \cup {x}
    BY <1>1, <1>3 DEF ProcessTransmission, Deliver
  <2>7. /\ IsFiniteSet(delivered')
        /\ \A g : g # h => DeliveriesTo(g)' = DeliveriesTo(g) /\ CountedOf(g)' = CountedOf(g)
        /\ DeliveriesTo(h)' = DeliveriesTo(h) \cup {x}
        /\ CountedOf(h)' = CountedOf(h) \cup (IF Identified(p) THEN {x} ELSE {})
        /\ x \notin DeliveriesTo(h) /\ x \notin CountedOf(h)
    <3>1. IsFiniteSet(delivered')
      BY <2>6, FS_AddElement DEF CountsRight
    <3>2. /\ \A g : g # h => DeliveriesTo(g)' = DeliveriesTo(g)
          /\ DeliveriesTo(h)' = DeliveriesTo(h) \cup {x}
          /\ x \notin DeliveriesTo(h)
      BY <2>5, <2>6 DEF DeliveriesTo
    <3>3. \A q : Identified(q)' <=> Identified(q)
      BY <1>1 DEF Identified, Id
    <3> HIDE DEF h
    <3> QED
      BY <3>1, <3>2, <3>3 DEF CountedOf
  <2>8. IsFiniteSet(DeliveriesTo(h)) /\ IsFiniteSet(CountedOf(h))
    BY FS_Subset DEF CountsRight, DeliveriesTo, CountedOf
  <2>9. Hosts' = Hosts /\ \A g \in Hosts : g # h => stats'[g].received = stats[g].received
    BY <1>1, <1>3 DEF ProcessTransmission, Deliver, NetTypeOK, Hosts
  <2>10. \/ stats'[h].received = stats[h].received + 1
         \/ stats'[h].received = stats[h].received /\ ~Identified(p)
    <3>1. CASE Id(p) \in DOMAIN active
      BY <1>3, <3>1 DEF ProcessTransmission, Deliver, NetTypeOK
    <3>2. CASE Id(p) \notin DOMAIN active
      <4>1. stats' = stats
        BY <1>3, <3>2 DEF ProcessTransmission, Deliver
      <4>2. ASSUME Identified(p) PROVE FALSE
        <5>1. entries[p] \in Entry
          BY <2>1 DEF PacketsInv
        <5>2. Id(p) = entries[p].id
          BY <4>2, <5>1, Remainder, NetAssumption DEF Identified, Id, Entry
        <5> QED
          BY <2>1, <3>2, <5>2 DEF Entered
      <4> QED
        BY <4>1, <4>2
    <3> QED
      BY <3>1, <3>2
  <2>11. /\ Cardinality(DeliveriesTo(h)') = Cardinality(DeliveriesTo(h)) + 1
         /\ Cardinality(DeliveriesTo(h)) \in Nat /\ Cardinality(CountedOf(h)) \in Nat
         /\ Cardinality(CountedOf(h)') = Cardinality(CountedOf(h)) + (IF Identified(p) THEN 1 ELSE 0)
    <3>1. /\ Cardinality(DeliveriesTo(h)') = Cardinality(DeliveriesTo(h)) + 1
          /\ Cardinality(DeliveriesTo(h)) \in Nat /\ Cardinality(CountedOf(h)) \in Nat
          /\ Cardinality(CountedOf(h) \cup {x}) = Cardinality(CountedOf(h)) + 1
      BY <2>7, <2>8, OneMore
    <3>2. ~Identified(p) => CountedOf(h)' = CountedOf(h)
      BY <2>7
    <3>3. Identified(p) => CountedOf(h)' = CountedOf(h) \cup {x}
      BY <2>7
    <3> QED
      BY <3>1, <3>2, <3>3
  <2> DEFINE low == Cardinality(CountedOf(h))
             high == Cardinality(DeliveriesTo(h))
  <2>12. stats[h].received \in low .. high /\ stats[h].received \in Nat
    BY <1>3 DEF CountsRight, NetTypeOK
  <2>13. stats'[h].received \in Cardinality(CountedOf(h)') .. Cardinality(DeliveriesTo(h)')
    <3>1. low \in Nat /\ high \in Nat
      BY <2>11
    <3> HIDE DEF low, high
    <3> QED
      BY <2>10, <2>11, <2>12, <3>1 DEF low, high
  <2> HIDE DEF h
  <2>14. \A g \in Hosts : stats'[g].received
           \in Cardinality(CountedOf(g)') .. Cardinality(DeliveriesTo(g)')
    BY <2>7, <2>9, <2>13 DEF CountsRight
  <2> QED
    BY <2>7, <2>9, <2>14 DEF CountsRight
<1> QED
  BY <1>2, <1>3

LEMMA CountsStep ==
  ASSUME PacketsInv, NetTypeOK, InOnePlace, CountsRight, [NetNext]_netVars
  PROVE  CountsRight'
<1>1. CASE \E trace \in Traces : ScheduleTrace(trace)
  <2>1. entries = <<>> /\ UNCHANGED <<topo, delivered, stats>>
    BY <1>1 DEF ScheduleTrace, state
  <2>2. delivered = {}
    BY <2>1 DEF PacketsInv, DeliveredRight, Entered
  <2> QED
    BY <2>1, <2>2, CountsStay
<1>2. CASE UNCHANGED <<topo, entries, delivered, stats>>
  BY <1>2, CountsStay
<1>3. CASE \E limit \in Limits : StartRun(limit)
  BY <1>2, <1>3 DEF StartRun, state
<1>4. CASE ProcessEvent
  <2>1. PICK e \in BagToSet(queue) :
          ProcessInjection(e) \/ ProcessTransmission(e) \/ ProcessSwitchCycle(e)
    BY <1>4 DEF ProcessEvent
  <2>2. CASE ProcessInjection(e)
    <3>1. UNCHANGED <<topo, entries, delivered>> /\ stats' = [stats EXCEPT ![entries[e.packet].src].sent = @ + 1]
      BY <2>2 DEF ProcessInjection, Processed
    <3>2. \A h \in Hosts : stats'[h].received = stats[h].received
      BY <3>1 DEF NetTypeOK
    <3> QED
      BY <3>1, <3>2, CountsStay
  <2>3. CASE ProcessTransmission(e)
    BY <2>3, DeliveryCounted
  <2>4. CASE ProcessSwitchCycle(e)
    BY <1>2, <2>4 DEF ProcessSwitchCycle, BusyCycle, QuietCycle, Processed
  <2> QED
    BY <2>1, <2>2, <2>3, <2>4
<1>5. CASE EndRun
  BY <1>2, <1>5 DEF EndRun, state
<1>6. CASE Reset
  <2>1. /\ delivered' = {} /\ Hosts' = Hosts /\ stats' = [h \in Hosts |-> NoStats]
    BY <1>6 DEF Reset, Hosts
  <2>2. \A h : DeliveriesTo(h)' = {} /\ CountedOf(h)' = {}
    BY <2>1 DEF DeliveriesTo, CountedOf
  <2>3. IsFiniteSet({}) /\ Cardinality({}) = 0
    BY FS_EmptySet
  <2>4. \A h \in Hosts : stats'[h].received = 0
    BY <2>1 DEF NoStats
  <2>5. IsFiniteSet(delivered')
    BY <2>1, <2>3
  <2>6. \A h \in Hosts' : stats'[h].received
          \in Cardinality(CountedOf(h)') .. Cardinality(DeliveriesTo(h)')
    <3> SUFFICES ASSUME NEW h \in Hosts
                 PROVE  stats'[h].received
                          \in Cardinality(CountedOf(h)') .. Cardinality(DeliveriesTo(h)')
      BY <2>1
    <3>1. Cardinality(CountedOf(h)') = 0 /\ Cardinality(DeliveriesTo(h)') = 0
      BY <2>2, <2>3
    <3> QED
      BY <2>4, <3>1
  <2> QED
    BY <2>5, <2>6 DEF CountsRight
<1>7. CASE UNCHANGED netVars
  BY <1>2, <1>7 DEF netVars, state
<1> QED
  BY <1>1, <1>3, <1>4, <1>5, <1>6, <1>7 DEF NetNext, RunLoop

(* No host counts more than it was given, or misses a packet that can be   *)
(* told apart.                                                             *)
THEOREM CountsInvariant == NetSpec => []CountsRight
<1>1. NetInit => CountsRight
  <2> SUFFICES ASSUME NetInit PROVE CountsRight
    OBVIOUS
  <2>1. delivered = {} /\ stats = [h \in Hosts |-> NoStats]
    BY DEF NetInit, Hosts
  <2>2. \A h : DeliveriesTo(h) = {} /\ CountedOf(h) = {}
    BY <2>1 DEF DeliveriesTo, CountedOf
  <2> QED
    BY <2>1, <2>2, FS_EmptySet DEF CountsRight, NoStats
<1>2. PacketsInv /\ NetTypeOK /\ InOnePlace /\ CountsRight /\ [NetNext]_netVars => CountsRight'
  BY CountsStep
<1> QED
  BY <1>1, <1>2, PacketsInvariant, NetTypeCorrect, PlaceInvariant, PTL DEF NetSpec

-------------------------------------------------------------------------------
(* The way of a local packet: a queue of its switch, for the port of its   *)
(* host once it is looked up, the line of the host, and the host.          *)
WaitsIn(w, o, p) ==
  (\E i \in Ports : Has(w.rx[i], p)) \/ (\E i \in Ports : Has(w.voq[<<i, o>>], p))

SwitchOf(p) == AttachedTo(topo, entries[p].dst).node
PortOf(p) == routes[SwitchOf(p)][entries[p].dst][1].out

SentHome(p) ==
  \E e \in BagToSet(queue) : e.kind = "transmit" /\ e.packet = p /\ e.to = entries[p].dst

OnItsWay(p) ==
  \/ Awaits(p)
  \/ WaitsIn(switch[SwitchOf(p)], PortOf(p), p)
  \/ SentHome(p)
  \/ ReachedHost(p, entries[p].dst)

Local(p) == entries[p].dst < AddrMod /\ IsLocal(p)

(* Routes that the switches follow, to the nodes that they lead to. *)
Guided == hashType = "FullLookupTable" /\ WellWired(topo)

NoneAstray ==
  Guided => \A p \in DOMAIN entries : Local(p) /\ p \notin refused => OnItsWay(p)

LEMMA LocalIs ==
  ASSUME PacketsInv, Loaded, Guided, NEW p \in DOMAIN entries, Local(p),
         NEW h, h = entries[p].dst, NEW s, s = SwitchOf(p), NEW o, o = PortOf(p)
  PROVE  /\ s \in Switches /\ h \in Hosts /\ Dst(p) = h /\ h # All
         /\ HasRoute(s, h) /\ o = routes[s][h][1].out
         /\ o \in Ports /\ o \in DOMAIN Behind(topo, s) /\ Behind(topo, s)[o] = h
         /\ entries[p].src \in Hosts /\ AttachedTo(topo, entries[p].src).node = s
<1>1. h \in Hosts /\ entries[p].src \in Hosts /\ AttachedTo(topo, entries[p].src).node = s
  BY DEF Local, IsLocal, SwitchOf
<1>2. h \in Nat
  BY <1>1, HostsAreNumbers DEF Loaded
<1>3. h # All /\ Dst(p) = h
  <2>1. h < AddrMod /\ AddrMod \in Nat \ {0}
    BY NetAssumption DEF Local
  <2>2. h % AddrMod = h
    BY <1>2, <2>1, Remainder
  <2> QED
    BY <1>2, <2>2 DEF All, Dst
<1>4. s = AttachedTo(topo, h).node /\ topo \in Topologies /\ s \in Switches
  BY <1>1, AttachedToSwitch DEF SwitchOf, Loaded
<1>5. routes[s] = RoutesFrom(topo, s) /\ o = routes[s][h][1].out
  BY <1>4 DEF Loaded, Switches, PortOf
<1> QED
  BY <1>1, <1>3, <1>4, <1>5, LocalRoute DEF Guided, HasRoute

LEMMA LookWaits ==
  ASSUME NEW S, NEW s, NEW w \in SwitchStates(S), NEW look \in Looks(s, w), NEW p, NEW o \in Ports,
         Dst(p) # All, HasRoute(s, Dst(p)), o = routes[s][Dst(p)][1].out,
         WaitsIn(w, o, p)
  PROVE  WaitsIn(look.w, o, p) \/ p \in look.refused
<1>1. w.rx \in [Ports -> Seq(S)] /\ w.voq \in [Ports \X Ports -> Seq(S)]
  BY DEF SwitchStates
<1>2. CASE look.w = w
  BY <1>2
<1>3. ASSUME NEW in \in Ports, w.rx[in] # <<>>, NEW outs, look.w = LookedUp(w, in, outs),
             p = Head(w.rx[in]) => o \in outs \/ p \in look.refused
      PROVE  WaitsIn(look.w, o, p) \/ p \in look.refused
  <2> DEFINE q == Head(w.rx[in])
             rx == w.rx
             voq == w.voq
             A == {in} \X outs
  <2>1. look.w.rx = Taken(rx, {in}) /\ look.w.voq = Added(voq, A, q)
    <3>1. LookedUp(w, in, outs).rx = Taken(rx, {in}) /\ LookedUp(w, in, outs).voq = Added(voq, A, q)
      BY <1>3, LookedUpIs
    <3> QED
      BY <1>3, <3>1
  <2>2. q \in S /\ q = rx[in][1] /\ rx[in] # <<>>
    BY <1>1, <1>3
  <2>3. o \in outs => <<in, o>> \in A
    OBVIOUS
  <2>4. rx \in [Ports -> Seq(S)] /\ voq \in [Ports \X Ports -> Seq(S)]
    BY <1>1
  <2>5. (\E i \in Ports : Has(rx[i], p)) \/ (\E i \in Ports : Has(voq[<<i, o>>], p))
    BY DEF WaitsIn
  <2> HIDE DEF q, rx, voq, A
  <2>6. CASE \E i \in Ports : Has(voq[<<i, o>>], p)
    <3>1. PICK i \in Ports : Has(voq[<<i, o>>], p)
      BY <2>6
    <3>2. AddedKeeps(voq, A, q) /\ <<i, o>> \in Ports \X Ports
      BY <2>2, <2>4, AddedHas
    <3>3. Has(Added(voq, A, q)[<<i, o>>], p)
      BY <2>4, <3>1, <3>2 DEF AddedKeeps
    <3> QED
      BY <2>1, <3>3 DEF WaitsIn
  <2>7. ASSUME NEW i \in Ports, Has(rx[i], p)
        PROVE  WaitsIn(look.w, o, p) \/ p \in look.refused
    <3>1. Has(Taken(rx, {in})[i], p) \/ (i = in /\ rx[i][1] = p)
      <4>1. HaveHeads(rx, {in}) /\ i \in DOMAIN rx
        BY <2>2, <2>4 DEF HaveHeads
      <4> QED
        BY <2>7, <4>1, OthersWait
    <3>2. CASE Has(Taken(rx, {in})[i], p)
      BY <2>1, <3>2 DEF WaitsIn
    <3>3. CASE p = q
      <4>1. CASE o \in outs
        <5>1. AddedKeeps(voq, A, q) /\ <<in, o>> \in Ports \X Ports
          BY <1>3, <2>2, <2>4, AddedHas
        <5>2. Has(Added(voq, A, q)[<<in, o>>], p)
          BY <2>3, <2>4, <3>3, <4>1, <5>1 DEF AddedKeeps
        <5> QED
          BY <2>1, <5>2 DEF WaitsIn
      <4> QED
        BY <1>3, <3>3, <4>1 DEF q
    <3> QED
      BY <2>2, <3>1, <3>2, <3>3
  <2> QED
    BY <2>5, <2>6, <2>7
<1>4. \/ look.w = w
      \/ \E in \in Ports : w.rx[in] # <<>> /\ \E outs :
           /\ look.w = LookedUp(w, in, outs)
           /\ p = Head(w.rx[in]) => o \in outs \/ p \in look.refused
  <2>1. \/ look.w = w
        \/ \E in \in Ports : w.rx[in] # <<>> /\
             \/ \E outs \in LookUps(s, in, Head(w.rx[in])) : look.w = LookedUp(w, in, outs)
             \/ look.w = LookedUp(w, in, {}) /\ look.refused = {Head(w.rx[in])}
    BY DEF Looks
  <2>2. \A in : \A outs \in LookUps(s, in, p) : o \in outs
    BY DEF LookUps
  <2> QED
    BY <2>1, <2>2
<1> QED
  BY <1>2, <1>3, <1>4

Leaves(w, M, o, p) == \E c \in M : c[2] = o /\ w.voq[c][1] = p

LEMMA TransmitWaits ==
  ASSUME NEW S, NEW w \in SwitchStates(S), NEW M, NEW v, v.rx = w.rx, v.voq = Taken(w.voq, M),
         HaveHeads(w.voq, M), NEW p, NEW o \in Ports, WaitsIn(w, o, p)
  PROVE  WaitsIn(v, o, p) \/ Leaves(w, M, o, p)
<1>1. w.voq \in [Ports \X Ports -> Seq(S)]
  BY DEF SwitchStates
<1>2. CASE \E i \in Ports : Has(w.rx[i], p)
  BY <1>2 DEF WaitsIn
<1>3. ASSUME NEW i \in Ports, NEW x, x = <<i, o>>, Has(w.voq[x], p)
      PROVE  WaitsIn(v, o, p) \/ Leaves(w, M, o, p)
  <2>1. x \in DOMAIN w.voq /\ x[2] = o
    BY <1>1, <1>3
  <2>2. Has(Taken(w.voq, M)[x], p) \/ (x \in M /\ w.voq[x][1] = p)
    BY <1>3, <2>1, OthersWait
  <2> QED
    BY <1>3, <2>1, <2>2 DEF WaitsIn, Leaves
<1> QED
  BY <1>2, <1>3 DEF WaitsIn

LEMMA ReceiveWaits ==
  ASSUME NEW S, NEW w \in SwitchStates(S), NEW port \in Ports, NEW q \in S,
         NEW v, v = ReceivePacket(w, port, q), NEW p, NEW o \in Ports, WaitsIn(w, o, p)
  PROVE  WaitsIn(v, o, p)
<1> DEFINE rx == w.rx
<1>1. rx \in [Ports -> Seq(S)] /\ v.voq = w.voq /\ v.rx = [rx EXCEPT ![port] = Append(@, q)]
  BY DEF ReceivePacket, SwitchStates
<1>2. (\E i \in Ports : Has(rx[i], p)) \/ (\E i \in Ports : Has(w.voq[<<i, o>>], p))
  BY DEF WaitsIn
<1> HIDE DEF rx
<1>3. v.rx = Added(rx, {port}, q)
  BY <1>1 DEF Added
<1>4. AddedKeeps(rx, {port}, q)
  BY <1>1, AddedHas
<1>5. \A i \in Ports : Has(rx[i], p) => Has(v.rx[i], p)
  BY <1>1, <1>3, <1>4 DEF AddedKeeps
<1> QED
  BY <1>1, <1>2, <1>5 DEF WaitsIn

(* What an event leaves on the heap. *)
LEMMA EventsAfter ==
  ASSUME NetTypeOK, NEW e \in BagToSet(queue), NEW events, Processed(e, events)
  PROVE  /\ events \subseteq BagToSet(queue')
         /\ \A f \in BagToSet(queue) : f # e => f \in BagToSet(queue')
<1> DEFINE cycles == {Cycle(e.time + CycleTime, s) : s \in Pending'}
           rest   == queue (-) SetToBag({e})
           more   == rest (+) SetToBag(events)
<1>1. queue' = more (+) SetToBag(cycles)
  BY DEF Processed
<1>2. IsABag(queue) /\ \A x \in BagToSet(queue) : queue[x] \in Nat \ {0}
  BY DEF NetTypeOK, IsABag, BagToSet
<1>3. \A f \in BagToSet(queue) : f # e => f \in BagToSet(rest)
  BY <1>2 DEF BagToSet, (-), SetToBag
<1>4. BagToSet(more) = BagToSet(rest) \cup events
  BY InSum, OfSet
<1>5. BagToSet(queue') = BagToSet(more) \cup cycles
  BY <1>1, InSum, OfSet
<1> QED
  BY <1>3, <1>4, <1>5

LEMMA WayAfter ==
  ASSUME NetTypeOK, NEW e \in BagToSet(queue), NEW events, Processed(e, events), NEW p
  PROVE  /\ SwitchOf(p)' = SwitchOf(p) /\ PortOf(p)' = PortOf(p)
         /\ Local(p)' <=> Local(p)
         /\ Guided' <=> Guided
         /\ Awaits(p) => Awaits(p)' \/ (e.kind = "inject" /\ e.packet = p)
         /\ SentHome(p) => SentHome(p)' \/ (e.kind = "transmit" /\ e.packet = p
                                              /\ e.to = entries[p].dst)
         /\ \A f \in events : f.kind = "transmit" /\ f.packet = p /\ f.to = entries[p].dst =>
              SentHome(p)'
<1>1. topo' = topo /\ entries' = entries /\ routes' = routes /\ hashType' = hashType
  BY DEF Processed
<1>2. /\ events \subseteq BagToSet(queue')
      /\ \A f \in BagToSet(queue) : f # e => f \in BagToSet(queue')
  BY EventsAfter
<1>3. SwitchOf(p)' = SwitchOf(p) /\ PortOf(p)' = PortOf(p)
  BY <1>1 DEF SwitchOf, PortOf
<1>4. (Local(p)' <=> Local(p)) /\ (Guided' <=> Guided)
  BY <1>1 DEF Local, IsLocal, Hosts, Guided
<1>5. Awaits(p) => Awaits(p)' \/ (e.kind = "inject" /\ e.packet = p)
  BY <1>2 DEF Awaits
<1>6. SentHome(p) => SentHome(p)' \/ (e.kind = "transmit" /\ e.packet = p
                                        /\ e.to = entries[p].dst)
  BY <1>1, <1>2 DEF SentHome
<1>7. \A f \in events : f.kind = "transmit" /\ f.packet = p /\ f.to = entries[p].dst =>
        SentHome(p)'
  BY <1>1, <1>2 DEF SentHome
<1> QED
  BY <1>3, <1>4, <1>5, <1>6, <1>7

(* The packets that the handler of an event must keep on their way. *)
LEMMA KeepsOnWay ==
  ASSUME NetTypeOK, NoneAstray, NEW e \in BagToSet(queue), NEW events, Processed(e, events),
         refused \subseteq refused',
         Guided => \A p \in DOMAIN entries :
           Local(p) /\ p \notin refused' /\ OnItsWay(p) => OnItsWay(p)'
  PROVE  NoneAstray'
<1>1. DOMAIN entries' = DOMAIN entries /\ (Guided' <=> Guided)
  BY WayAfter DEF Processed
<1> SUFFICES ASSUME Guided, NEW p \in DOMAIN entries, Local(p)', p \notin refused'
             PROVE  OnItsWay(p)'
  BY <1>1 DEF NoneAstray
<1>2. Local(p)
  BY WayAfter
<1> QED
  BY <1>2 DEF NoneAstray

LEMMA InjectionOnWay ==
  ASSUME PacketsInv, NetTypeOK, Loaded, NoneAstray, NEW e \in BagToSet(queue),
         ProcessInjection(e)
  PROVE  NoneAstray'
<1> DEFINE q  == e.packet
           at == AttachedTo(topo, entries[q].src)
<1>1. /\ e.kind = "inject" /\ Processed(e, {}) /\ delivered' = delivered /\ refused' = refused
      /\ switch' = [switch EXCEPT ![at.node] = ReceivePacket(@, at.port, q)]
  BY DEF ProcessInjection
<1>2. q \in DOMAIN entries /\ entries[q].src \in Hosts /\ entries' = entries
  BY <1>1 DEF NetTypeOK, Events, Processed
<1>3. at.node \in Switches /\ at.port \in Ports
  BY <1>2, AttachedToSwitch DEF NetTypeOK
<1>4. \A s \in Switches : switch[s] \in SwitchStates(DOMAIN entries)
  BY PacketsTyped DEF PacketTypes
<1>5. /\ switch'[at.node] = ReceivePacket(switch[at.node], at.port, q)
      /\ \A s \in Switches : s # at.node => switch'[s] = switch[s]
  BY <1>1, <1>3, PacketsTyped DEF PacketTypes
<1>6. ASSUME Guided, NEW p \in DOMAIN entries, Local(p), OnItsWay(p)
      PROVE  OnItsWay(p)'
  <2> DEFINE s == SwitchOf(p)
             o == PortOf(p)
  <2>1. /\ SwitchOf(p)' = s /\ PortOf(p)' = o
        /\ Awaits(p) => Awaits(p)' \/ p = q
        /\ SentHome(p) => SentHome(p)'
    BY <1>1, WayAfter
  <2>2. s \in Switches /\ o \in Ports /\ (p = q => at.node = s)
    BY <1>6, LocalIs
  <2>3. ReachedHost(p, entries[p].dst)' <=> ReachedHost(p, entries[p].dst)
    BY <1>1, <1>2 DEF ReachedHost
  <2> HIDE DEF s, o, at, q
  <2>4. CASE Awaits(p) /\ p = q
    <3>1. Has(switch'[s].rx[at.port], p)
      BY <1>2, <1>3, <1>4, <1>5, <2>2, <2>4, ReceiveHeld
    <3>2. WaitsIn(switch'[s], o, p)
      BY <1>3, <3>1 DEF WaitsIn
    <3> QED
      BY <2>1, <3>2 DEF OnItsWay
  <2>5. CASE WaitsIn(switch[s], o, p)
    <3>1. WaitsIn(switch'[s], o, p)
      BY <1>2, <1>3, <1>4, <1>5, <2>2, <2>5, ReceiveWaits
    <3> QED
      BY <2>1, <3>1 DEF OnItsWay
  <2> QED
    BY <1>6, <2>1, <2>3, <2>4, <2>5 DEF OnItsWay, s, o
<1> QED
  BY <1>1, <1>6, KeepsOnWay

LEMMA TransmissionOnWay ==
  ASSUME PacketsInv, NetTypeOK, Loaded, NoneAstray, NEW e \in BagToSet(queue),
         ProcessTransmission(e)
  PROVE  NoneAstray'
<1>1. /\ e.kind = "transmit" /\ Processed(e, {}) /\ refused' = refused /\ switch' = switch
      /\ entries' = entries
  BY DEF ProcessTransmission, Processed
<1>2. /\ delivered \subseteq delivered'
      /\ e.to \in Hosts => <<e.packet, e.to, e.time>> \in delivered'
  BY DEF ProcessTransmission, Deliver
<1>3. ASSUME NEW p \in DOMAIN entries, Local(p), OnItsWay(p)
      PROVE  OnItsWay(p)'
  <2>1. /\ SwitchOf(p)' = SwitchOf(p) /\ PortOf(p)' = PortOf(p)
        /\ Awaits(p) => Awaits(p)'
        /\ SentHome(p) => SentHome(p)' \/ (e.packet = p /\ e.to = entries[p].dst)
    BY <1>1, WayAfter
  <2>2. ReachedHost(p, entries[p].dst) => ReachedHost(p, entries[p].dst)'
    BY <1>1, <1>2 DEF ReachedHost
  <2>3. e.packet = p /\ e.to = entries[p].dst => ReachedHost(p, entries[p].dst)'
    <3>1. entries[p].dst \in Hosts
      BY <1>3 DEF Local, IsLocal
    <3>2. e.packet = p /\ e.to = entries[p].dst => <<p, entries[p].dst, e.time>> \in delivered'
      BY <1>2, <3>1
    <3> QED
      BY <1>1, <3>2 DEF ReachedHost
  <2>4. WaitsIn(switch[SwitchOf(p)], PortOf(p), p) => WaitsIn(switch[SwitchOf(p)], PortOf(p), p)'
    BY <1>1, <2>1
  <2> QED
    BY <1>3, <2>1, <2>2, <2>3, <2>4 DEF OnItsWay
<1> QED
  BY <1>1, <1>3, KeepsOnWay

LEMMA BusyOnWay ==
  ASSUME PacketsInv, NetTypeOK, Loaded, NoneAstray, NEW e \in BagToSet(queue),
         NEW s \in Switches, NEW w \in SwitchStates(DOMAIN entries),
         w.rx = switch[s].rx, w.voq = switch[s].voq,
         BusyCycle(e, s, w), e.kind = "cycle", delivered' = delivered
  PROVE  NoneAstray'
<1>1. PICK look \in Looks(s, w), M \in Matchings(w) :
        /\ switch' = [switch EXCEPT ![s] = [Transmitted(look.w, M) EXCEPT !.slack = MaxQuiet]]
        /\ refused' = refused \cup look.refused
        /\ Processed(e, UNION {Routed(s, c[2], Head(w.voq[c]), e.time) : c \in M})
  BY DEF BusyCycle
<1> DEFINE v == look.w
           T == Transmitted(v, M)
           u == [T EXCEPT !.slack = MaxQuiet]
           events == UNION {Routed(s, c[2], Head(w.voq[c]), e.time) : c \in M}
<1>2. \A c \in M : c \in Ports \X Ports /\ w.voq[c] # <<>>
  BY DEF Matchings
<1>3. v \in SwitchStates(DOMAIN entries)
  BY LookIsState
<1>4. u.rx = v.rx /\ u.voq = Taken(v.voq, M)
  <2>1. T.rx = v.rx /\ T.voq = Taken(v.voq, M)
    BY <1>3, TransmittedIs
  <2>2. T \in SwitchStates(DOMAIN entries)
    BY <1>2, <1>3, LookIsState, TransmittedIsState
  <2> HIDE DEF T
  <2> QED
    BY <2>1, <2>2 DEF SwitchStates
<1>5. switch'[s] = u /\ \A r \in Switches : r # s => switch'[r] = switch[r]
  BY <1>1, BusyIs
<1>6. HaveHeads(v.voq, M) /\ \A c \in M : v.voq[c][1] = Head(w.voq[c])
  <2>1. \A c \in M : v.voq[c] # <<>> /\ v.voq[c][1] = Head(w.voq[c])
    BY <1>2, LookKeepsHeads
  <2> QED
    BY <1>2, <1>3, <2>1 DEF HaveHeads, SwitchStates
<1>7. Processed(e, events) /\ refused \subseteq refused' /\ look.refused \subseteq refused'
  BY <1>1
<1>8. \A c \in M : Routed(s, c[2], Head(w.voq[c]), e.time) \subseteq events
  OBVIOUS
<1> HIDE DEF v, u, events
<1>9. ASSUME Guided, NEW p \in DOMAIN entries, Local(p), p \notin refused', OnItsWay(p)
      PROVE  OnItsWay(p)'
  <2> DEFINE r == SwitchOf(p)
             o == PortOf(p)
             h == entries[p].dst
  <2>1. /\ SwitchOf(p)' = r /\ PortOf(p)' = o
        /\ Awaits(p) => Awaits(p)'
        /\ SentHome(p) => SentHome(p)'
        /\ \A f \in events : f.kind = "transmit" /\ f.packet = p /\ f.to = h => SentHome(p)'
    BY <1>7, WayAfter
  <2>2. /\ r \in Switches /\ h \in Hosts /\ Dst(p) = h /\ Dst(p) # All
        /\ HasRoute(r, Dst(p)) /\ o = routes[r][Dst(p)][1].out
        /\ o \in Ports /\ o \in DOMAIN Behind(topo, r) /\ Behind(topo, r)[o] = h
    BY <1>9, LocalIs
  <2>3. ReachedHost(p, h)' <=> ReachedHost(p, h)
    BY <1>7 DEF ReachedHost, Processed
  <2> HIDE DEF r, o, h
  <2>4. ASSUME WaitsIn(switch[r], o, p)
        PROVE  WaitsIn(switch'[r], o, p) \/ SentHome(p)'
    <3>1. CASE r # s
      BY <1>5, <2>2, <2>4, <3>1
    <3>2. CASE r = s
      <4>1. WaitsIn(w, o, p)
        BY <2>4, <3>2 DEF WaitsIn
      <4>2. WaitsIn(v, o, p)
        <5>1. WaitsIn(v, o, p) \/ p \in look.refused
          BY <2>2, <3>2, <4>1, LookWaits DEF v
        <5> QED
          BY <1>7, <1>9, <5>1
      <4>3. WaitsIn(u, o, p) \/ Leaves(v, M, o, p)
        <5>1. HaveHeads(v.voq, M) /\ o \in Ports
          BY <1>6, <2>2
        <5> QED
          BY <1>3, <1>4, <4>2, <5>1, TransmitWaits
      <4>4. ASSUME NEW c \in M, c[2] = o, v.voq[c][1] = p
            PROVE  SentHome(p)'
        <5> DEFINE f == Transmission(e.time + HostDelay, 1, p, <<s, o>>, h)
        <5>1. f \in Routed(s, o, p, e.time)
          BY <2>2, <3>2 DEF Routed
        <5>2. f \in events
          BY <1>6, <1>8, <4>4, <5>1
        <5>3. f.kind = "transmit" /\ f.packet = p /\ f.to = h
          BY DEF Transmission
        <5> HIDE DEF f
        <5> QED
          BY <2>1, <5>2, <5>3
      <4> QED
        BY <1>5, <3>2, <4>3, <4>4 DEF Leaves
    <3> QED
      BY <3>1, <3>2
  <2>5. WaitsIn(switch'[r], o, p) => WaitsIn(switch[SwitchOf(p)], PortOf(p), p)'
    BY <2>1
  <2>6. \/ Awaits(p) \/ WaitsIn(switch[r], o, p) \/ SentHome(p) \/ ReachedHost(p, h)
    BY <1>9 DEF OnItsWay, r, o, h
  <2>7. ReachedHost(p, h)' => ReachedHost(p, entries[p].dst)'
    BY <1>7 DEF h, Processed
  <2> QED
    BY <2>1, <2>3, <2>4, <2>5, <2>6, <2>7 DEF OnItsWay
<1> QED
  BY <1>7, <1>9, KeepsOnWay

LEMMA CycleOnWay ==
  ASSUME PacketsInv, NetTypeOK, Loaded, NoneAstray, NEW e \in BagToSet(queue),
         ProcessSwitchCycle(e)
  PROVE  NoneAstray'
<1> DEFINE s == e.switch
           w == [switch[s] EXCEPT !.clock = MaxOf(@, e.time) + CycleTime]
<1>1. /\ e.kind = "cycle" /\ delivered' = delivered
      /\ BusyCycle(e, s, w) \/ QuietCycle(e, s, w)
  BY DEF ProcessSwitchCycle
<1>2. /\ s \in Switches /\ w \in SwitchStates(DOMAIN entries)
      /\ w.rx = switch[s].rx /\ w.voq = switch[s].voq
  BY <1>1, CycleIs
<1> HIDE DEF w
<1>3. CASE BusyCycle(e, s, w)
  BY <1>1, <1>2, <1>3, BusyOnWay
<1>4. CASE QuietCycle(e, s, w)
  <2>1. PICK k : switch' = [switch EXCEPT ![s] = [w EXCEPT !.slack = k]]
    BY <1>4 DEF QuietCycle
  <2> DEFINE u == [w EXCEPT !.slack = k]
  <2>2. switch'[s] = u /\ \A r \in Switches : r # s => switch'[r] = switch[r]
    BY <1>2, <2>1, BusyIs
  <2>3. u.rx = switch[s].rx /\ u.voq = switch[s].voq
    BY <1>2 DEF SwitchStates
  <2> HIDE DEF u
  <2>4. Processed(e, {}) /\ refused' = refused /\ entries' = entries
    BY <1>4 DEF QuietCycle, Processed
  <2>5. ASSUME Guided, NEW p \in DOMAIN entries, Local(p), OnItsWay(p)
        PROVE  OnItsWay(p)'
    <3>1. /\ SwitchOf(p)' = SwitchOf(p) /\ PortOf(p)' = PortOf(p)
          /\ Awaits(p) => Awaits(p)'
          /\ SentHome(p) => SentHome(p)'
      BY <1>1, <2>4, WayAfter
    <3>2. SwitchOf(p) \in Switches
      BY <2>5, LocalIs
    <3>3. WaitsIn(switch[SwitchOf(p)], PortOf(p), p) =>
            WaitsIn(switch'[SwitchOf(p)], PortOf(p), p)
      BY <2>2, <2>3, <3>2 DEF WaitsIn
    <3>4. ReachedHost(p, entries[p].dst)' <=> ReachedHost(p, entries[p].dst)
      BY <1>1, <2>4 DEF ReachedHost
    <3> QED
      BY <2>5, <3>1, <3>3, <3>4 DEF OnItsWay
  <2> QED
    BY <2>4, <2>5, KeepsOnWay
<1> QED
  BY <1>1, <1>3, <1>4

LEMMA ScheduleOnWay ==
  ASSUME NEW trace \in Traces, ScheduleTrace(trace)
  PROVE  NoneAstray'
<1> DEFINE injections == {Inject(trace[k].time, k) : k \in Known(trace)}
<1>1. entries' = trace /\ topo' = topo /\ queue' = queue (+) SetToBag(injections)
  BY DEF ScheduleTrace
<1>2. injections \subseteq BagToSet(queue')
  BY <1>1, InSum, OfSet
<1> SUFFICES ASSUME NEW p \in DOMAIN trace, trace[p].src \in Hosts
             PROVE  Awaits(p)'
  BY <1>1 DEF NoneAstray, OnItsWay, Local, IsLocal, Hosts
<1>3. Inject(trace[p].time, p) \in BagToSet(queue')
  BY <1>2 DEF Known
<1> QED
  BY <1>3 DEF Awaits, Inject

LEMMA WayStep ==
  ASSUME PacketsInv, NetTypeOK, Loaded, NoneAstray, [NetNext]_netVars
  PROVE  NoneAstray'
<1>1. CASE \E trace \in Traces : ScheduleTrace(trace)
  BY <1>1, ScheduleOnWay
<1>2. CASE UNCHANGED <<hashType, topo, routes, entries, queue, switch, refused, delivered>>
  BY <1>2 DEF NoneAstray, OnItsWay, Guided, Local, IsLocal, Hosts, Awaits, SwitchOf, PortOf,
              SentHome, ReachedHost
<1>3. CASE \E limit \in Limits : StartRun(limit)
  BY <1>2, <1>3 DEF StartRun, state
<1>4. CASE ProcessEvent
  BY <1>4, InjectionOnWay, TransmissionOnWay, CycleOnWay DEF ProcessEvent
<1>5. CASE EndRun
  BY <1>2, <1>5 DEF EndRun, state
<1>6. CASE Reset
  BY <1>6 DEF Reset, NoneAstray
<1>7. CASE UNCHANGED netVars
  BY <1>2, <1>7 DEF netVars, state
<1> QED
  BY <1>1, <1>3, <1>4, <1>5, <1>6, <1>7 DEF NetNext, RunLoop

(* No packet between hosts of one switch leaves its way home.              *)
THEOREM WayInvariant == NetSpec => []NoneAstray
<1>1. NetInit => NoneAstray
  BY DEF NetInit, NoneAstray
<1>2. PacketsInv /\ NetTypeOK /\ Loaded /\ NoneAstray /\ [NetNext]_netVars => NoneAstray'
  BY WayStep
<1> QED
  BY <1>1, <1>2, PacketsInvariant, NetTypeCorrect, TablesLoaded, PTL DEF NetSpec

(* With nothing on the heap no switch has a packet, and what is on its way *)
(* has arrived.                                                            *)
LEMMA NothingLeft ==
  ASSUME PendingSwitchesRun, PacketsInv, Loaded, NoneAstray, queue = EmptyBag,
         Guided, NEW p \in DOMAIN entries, Local(p), p \notin refused
  PROVE  ReachedHost(p, entries[p].dst)
<1> DEFINE s == SwitchOf(p)
           o == PortOf(p)
<1>1. s \in Switches /\ o \in Ports
  BY LocalIs
<1>2. BagToSet(queue) = {}
  BY InEmpty
<1>3. ~Awaits(p) /\ ~SentHome(p)
  BY <1>2 DEF Awaits, SentHome
<1> HIDE DEF s, o
<1>4. ~WaitsIn(switch[s], o, p)
  <2>1. ~Inside(switch[s])
    BY <1>1, <1>2 DEF PendingSwitchesRun, HasPendingWork
  <2>2. (\A i \in Ports : switch[s].rx[i] = <<>>) /\ \A i \in Ports : switch[s].voq[<<i, o>>] = <<>>
    BY <1>1, <2>1 DEF Inside
  <2>3. ~Has(<<>>, p)
    BY DEF Has
  <2> QED
    BY <2>2, <2>3 DEF WaitsIn
<1> QED
  BY <1>3, <1>4 DEF NoneAstray, OnItsWay, s, o

(* When the heap is empty the packets between hosts of one switch are      *)
(* received if the switches follow the routes; with either hash none is    *)
(* received twice, and the hosts have counted right.                       *)
THEOREM LocalPacketsDelivered == NetSpec => []LocalPacketsArrive
<1>1. ASSUME PendingSwitchesRun, PacketsInv, NetTypeOK, Loaded, InOnePlace, CountsRight, NoneAstray
      PROVE  LocalPacketsArrive
  <2> SUFFICES ASSUME queue = EmptyBag
               PROVE  /\ (hashType = "FullLookupTable" /\ WellWired(topo)) =>
                           \A p \in DOMAIN entries :
                             (entries[p].dst < AddrMod /\ IsLocal(p) /\ p \notin refused)
                               => ReachedHost(p, entries[p].dst)
                      /\ \A d, f \in delivered : d[1] = f[1] => d = f
                      /\ \A h \in Hosts :
                           stats[h].received
                             \in Cardinality({d \in DeliveriesTo(h) : Identified(d[1])})
                                   .. Cardinality(DeliveriesTo(h))
    BY DEF LocalPacketsArrive
  <2>1. (hashType = "FullLookupTable" /\ WellWired(topo)) =>
          \A p \in DOMAIN entries :
            (entries[p].dst < AddrMod /\ IsLocal(p) /\ p \notin refused)
              => ReachedHost(p, entries[p].dst)
    BY <1>1, NothingLeft DEF Local, Guided
  <2>2. \A d, f \in delivered : d[1] = f[1] => d = f
    BY <1>1, DeliveredOnce
  <2>3. \A h \in Hosts :
          stats[h].received \in Cardinality({d \in DeliveriesTo(h) : Identified(d[1])})
                                  .. Cardinality(DeliveriesTo(h))
    BY <1>1 DEF CountsRight, CountedOf
  <2> QED
    BY <2>1, <2>2, <2>3
<1> QED
  BY <1>1, NoSwitchForgotten, PacketsInvariant, NetTypeCorrect, TablesLoaded, PlaceInvariant,
     CountsInvariant, WayInvariant, PTL
===============================================================================
