-------------------------- MODULE PortSchedulerProofs --------------------------
(***************************************************************************)
(* Lemmas about ports in a circle and about the three matching algorithms, *)
(* for any number of ports, any queues and any pointers.                   *)
(***************************************************************************)
EXTENDS PortSchedulers, WellFoundedInduction, TLAPS

(* The scan offset is a position in the ring of ports, and it tells two    *)
(* ports apart.                                                            *)
LEMMA OffsetType ==
  ASSUME NEW p \in Ports, NEW x \in Ports
  PROVE  /\ Offset(p, x) \in 0 .. NumPorts - 1
         /\ \A y \in Ports : Offset(p, x) = Offset(p, y) => x = y
  BY PortsAssumption DEF Ports, Offset

LEMMA SuccType ==
  ASSUME NEW p \in Ports
  PROVE  Succ(p) \in Ports
  BY PortsAssumption DEF Ports, Succ

(* Once the pointer has moved past the port it stopped at, every port that *)
(* came later in the scan is closer by at least one.                       *)
LEMMA OffsetPast ==
  ASSUME NEW p \in Ports, NEW x \in Ports, NEW w \in Ports,
         Offset(p, w) < Offset(p, x)
  PROVE  Offset(Succ(w), x) < Offset(p, x)
  BY PortsAssumption DEF Ports, Offset, Succ

(* A set of naturals that is not empty has a least element. *)
LEMMA LeastNat ==
  ASSUME NEW T \in SUBSET Nat, T # {}
  PROVE  \E m \in T : \A n \in T : m <= n
<1>1. \E x \in T : \A y \in T : ~(<<y, x>> \in OpToRel(<, Nat))
  BY NatLessThanWellFounded, WFMin
<1>2. \A x, y \in Nat : x < y => <<x, y>> \in OpToRel(<, Nat)
  BY DEF OpToRel
<1>3. PICK x \in T : \A y \in T : ~(<<y, x>> \in OpToRel(<, Nat))
  BY <1>1
<1>4. \A y \in T : ~(y < x)
  BY <1>2, <1>3
<1> QED
  BY <1>4

(* A scan over a set that is not empty stops at a member that is nearest   *)
(* to where it started.                                                    *)
LEMMA FirstFromMember ==
  ASSUME NEW p \in Ports, NEW S \in SUBSET Ports, S # {}
  PROVE  /\ FirstFrom(p, S) \in S
         /\ \A y \in S : Offset(p, FirstFrom(p, S)) <= Offset(p, y)
<1>1. {Offset(p, x) : x \in S} \in SUBSET Nat /\ {Offset(p, x) : x \in S} # {}
  BY OffsetType
<1>2. PICK m \in {Offset(p, x) : x \in S} : \A n \in {Offset(p, x) : x \in S} : m <= n
  BY <1>1, LeastNat
<1>3. \E x \in S : \A y \in S : Offset(p, x) <= Offset(p, y)
  BY <1>2
<1> QED
  BY <1>3 DEF FirstFrom

-------------------------------------------------------------------------------
QueueLengths == [Ports -> [Ports -> Nat]]
Pointers == [Ports -> Ports]

(* A set of matches a cycle may dequeue by, under the scheduler t. *)
Dequeuable(t, len, matches) ==
  /\ matches \in SUBSET (Ports \X Ports)
  /\ \A m \in matches : len[m[1]][m[2]] > 0
  /\ \A m, n \in matches : (m[2] = n[2] \/ (t # "RoundRobin" /\ m[1] = n[1])) => m = n

LEMMA RRDequeuable ==
  ASSUME NEW len \in QueueLengths, NEW outPtr \in Pointers
  PROVE  Dequeuable("RoundRobin", len, RRMatches(len, outPtr))
<1> DEFINE M == RRMatches(len, outPtr)
<1>1. M \in SUBSET (Ports \X Ports) /\ \A m \in M : len[m[1]][m[2]] > 0
  BY DEF RRMatches, Ready
<1>2. ASSUME NEW m \in M, NEW n \in M, m[2] = n[2] PROVE m = n
  <2>1. m[1] = n[1]
    BY <1>2 DEF RRMatches
  <2> QED
    BY <1>1, <1>2, <2>1
<1> QED
  BY <1>1, <1>2 DEF Dequeuable

LEMMA EDRRMDequeuable ==
  ASSUME NEW len \in QueueLengths, NEW inPtr \in Pointers, NEW outPtr \in Pointers
  PROVE  Dequeuable("EDRRM", len, EDRRMMatches(len, inPtr, outPtr))
<1> DEFINE M == EDRRMMatches(len, inPtr, outPtr)
<1>1. M \subseteq Requests(len, inPtr)
  BY DEF EDRRMMatches
<1>2. M \in SUBSET (Ports \X Ports) /\ \A m \in M : len[m[1]][m[2]] > 0
  BY <1>1 DEF Requests
<1>3. \A p \in Ports : inPtr[p] \in Ports /\ outPtr[p] \in Ports
  BY DEF Pointers
<1>4. ASSUME NEW m \in M, NEW n \in M, m[1] = n[1] PROVE m = n
  <2>1. /\ Offset(inPtr[m[1]], m[2]) <= Offset(inPtr[m[1]], n[2])
        /\ Offset(inPtr[m[1]], n[2]) <= Offset(inPtr[m[1]], m[2])
    BY <1>1, <1>2, <1>4 DEF Requests
  <2>2. m[2] = n[2]
    BY <1>2, <1>3, <2>1, OffsetType
  <2> QED
    BY <1>2, <1>4, <2>2
<1>5. ASSUME NEW m \in M, NEW n \in M, m[2] = n[2] PROVE m = n
  <2>1. /\ Offset(outPtr[m[2]], m[1]) <= Offset(outPtr[m[2]], n[1])
        /\ Offset(outPtr[m[2]], n[1]) <= Offset(outPtr[m[2]], m[1])
    BY <1>1, <1>5 DEF EDRRMMatches
  <2>2. m[1] = n[1]
    BY <1>2, <1>3, <2>1, OffsetType
  <2> QED
    BY <1>2, <1>5, <2>2
<1> QED
  BY <1>2, <1>4, <1>5 DEF Dequeuable

(* One iteration of iSLIP matches inputs that have no match yet, and is a  *)
(* matching: an input has one longest queue, an output one lowest asker.   *)
LEMMA IterationMatches ==
  ASSUME NEW len \in QueueLengths, NEW matched
  PROVE  LET M == ISlipIteration(len, matched)
         IN /\ M \in SUBSET ((Ports \ matched) \X Ports)
            /\ \A m \in M : len[m[1]][m[2]] > 0
            /\ \A m, n \in M : (m[1] = n[1] \/ m[2] = n[2]) => m = n
<1> DEFINE M == ISlipIteration(len, matched)
<1>1. M \in SUBSET ((Ports \ matched) \X Ports) /\ \A m \in M : m[2] \in Preferred(len, m[1])
  BY DEF ISlipIteration
<1>2. \A p \in Ports : p \in Int
  BY PortsAssumption DEF Ports
<1>3. \A i, o \in Ports : len[i][o] \in Int
  BY DEF QueueLengths
<1>4. ASSUME NEW m \in M, NEW n \in M, m[1] = n[1] PROVE m = n
  <2> DEFINE i == m[1]
             a == m[2]
             b == n[2]
  <2>1. i \in Ports /\ a \in Ports /\ b \in Ports
        /\ a \in Preferred(len, i) /\ b \in Preferred(len, i)
    BY <1>1, <1>4
  <2> HIDE DEF i, a, b
  <2>2. /\ len[i][b] < len[i][a] \/ (len[i][b] = len[i][a] /\ a <= b)
        /\ len[i][a] < len[i][b] \/ (len[i][a] = len[i][b] /\ b <= a)
    BY <2>1 DEF Preferred
  <2>3. a = b
    BY <1>2, <1>3, <2>1, <2>2
  <2> QED
    BY <1>1, <1>4, <2>3 DEF a, b
<1>5. ASSUME NEW m \in M, NEW n \in M, m[2] = n[2] PROVE m = n
  <2>1. m[1] <= n[1] /\ n[1] <= m[1]
    BY <1>1, <1>5 DEF ISlipIteration
  <2>2. m[1] = n[1]
    BY <1>1, <1>2, <2>1
  <2> QED
    BY <1>1, <1>5, <2>2
<1>6. \A m \in M : len[m[1]][m[2]] > 0
  BY <1>1 DEF Preferred
<1> QED
  BY <1>1, <1>4, <1>5, <1>6

(* An input is matched in one of the four iterations only, and of the      *)
(* outputs matched in several the first match is kept.                     *)
LEMMA ISlipDequeuable ==
  ASSUME NEW len \in QueueLengths
  PROVE  Dequeuable("iSLIP", len, FirstPerOutput(ISlipRounds(len)))
<1> DEFINE Inputs(matches) == {m[1] : m \in matches}
           r1 == ISlipIteration(len, {})
           r2 == ISlipIteration(len, Inputs(r1))
           r3 == ISlipIteration(len, Inputs(r1 \cup r2))
           r4 == ISlipIteration(len, Inputs(r1 \cup r2 \cup r3))
           R == <<r1, r2, r3, r4>>
           M == FirstPerOutput(R)
<1>1. ISlipRounds(len) = R
  BY DEF ISlipRounds
<1>2. /\ r1 \in SUBSET (Ports \X Ports)
      /\ r2 \in SUBSET ((Ports \ Inputs(r1)) \X Ports)
      /\ r3 \in SUBSET ((Ports \ Inputs(r1 \cup r2)) \X Ports)
      /\ r4 \in SUBSET ((Ports \ Inputs(r1 \cup r2 \cup r3)) \X Ports)
  BY IterationMatches
<1> DEFINE Good(r) == /\ \A m \in r : len[m[1]][m[2]] > 0
                      /\ \A m, n \in r : (m[1] = n[1] \/ m[2] = n[2]) => m = n
<1>3. Good(r1) /\ Good(r2) /\ Good(r3) /\ Good(r4)
  BY IterationMatches
<1> HIDE DEF r1, r2, r3, r4, Good
<1>4. \A k \in 1 .. 4 : Good(R[k])
  BY <1>3
<1>5. \A k \in 1 .. 4 : /\ \A m \in R[k] : len[m[1]][m[2]] > 0
                        /\ \A m, n \in R[k] : (m[1] = n[1] \/ m[2] = n[2]) => m = n
  BY <1>4 DEF Good
<1>6. \A j, k \in 1 .. 4 : j < k => \A m \in R[j], n \in R[k] : m[1] # n[1]
  BY <1>2
<1>7. \A k \in 1 .. 4 : R[k] \subseteq Ports \X Ports
  BY <1>2
<1>8. DOMAIN R = 1 .. 4
  OBVIOUS
<1> HIDE DEF R
<1>9. \A m \in M : \E k \in 1 .. 4 :
        m \in R[k] /\ \A j \in 1 .. k - 1 : \A n \in R[j] : n[2] # m[2]
  BY <1>8 DEF FirstPerOutput
<1> HIDE DEF M
<1>10. ASSUME NEW m \in M, NEW n \in M, m[1] = n[1] \/ m[2] = n[2] PROVE m = n
  <2>1. PICK j \in 1 .. 4 : m \in R[j] /\ \A h \in 1 .. j - 1 : \A x \in R[h] : x[2] # m[2]
    BY <1>9
  <2>2. PICK k \in 1 .. 4 : n \in R[k] /\ \A h \in 1 .. k - 1 : \A x \in R[h] : x[2] # n[2]
    BY <1>9
  <2>3. CASE j < k
    <3>1. m[1] # n[1] /\ m[2] # n[2]
      BY <1>6, <2>1, <2>2, <2>3
    <3> QED
      BY <1>10, <3>1
  <2>4. CASE k < j
    <3>1. m[1] # n[1] /\ m[2] # n[2]
      BY <1>6, <2>1, <2>2, <2>4
    <3> QED
      BY <1>10, <3>1
  <2>5. CASE j = k
    BY <1>5, <1>10, <2>1, <2>2, <2>5
  <2> QED
    BY <2>3, <2>4, <2>5
<1>11. M \in SUBSET (Ports \X Ports) /\ \A m \in M : len[m[1]][m[2]] > 0
  BY <1>5, <1>7, <1>9
<1> QED
  BY <1>1, <1>10, <1>11 DEF Dequeuable, M

(* Whichever the scheduler. *)
LEMMA MatchesDequeuable ==
  \A t \in SchedulerTypes, len \in QueueLengths, inPtr, outPtr \in Pointers :
    Dequeuable(t, len, Matches(t, len, inPtr, outPtr))
<1> TAKE t \in SchedulerTypes, len \in QueueLengths, inPtr, outPtr \in Pointers
<1>1. CASE t = "RoundRobin"
  BY <1>1, RRDequeuable DEF Matches
<1>2. CASE t = "EDRRM"
  BY <1>2, EDRRMDequeuable DEF Matches
<1>3. CASE t = "iSLIP"
  BY <1>3, ISlipDequeuable DEF Matches
<1> QED
  BY <1>1, <1>2, <1>3 DEF SchedulerTypes

(* What a cycle of the round robin does to an output: its scan stops at a  *)
(* ready input, that input and no other is matched to it, and its pointer  *)
(* moves past it; without a ready input nothing happens there.             *)
LEMMA CyclePerOutput ==
  ASSUME NEW len \in QueueLengths, NEW outPtr \in Pointers, NEW o \in Ports
  PROVE  LET w == FirstFrom(outPtr[o], Ready(len, o))
         IN IF Ready(len, o) = {}
            THEN /\ RRPointers(len, outPtr)[o] = outPtr[o]
                 /\ \A i \in Ports : <<i, o>> \notin RRMatches(len, outPtr)
            ELSE /\ w \in Ready(len, o) /\ w \in Ports
                 /\ RRPointers(len, outPtr)[o] = Succ(w)
                 /\ \A i \in Ports : <<i, o>> \in RRMatches(len, outPtr) <=> i = w
                 /\ \A i \in Ready(len, o) :
                      Offset(outPtr[o], w) <= Offset(outPtr[o], i)
<1> DEFINE R == Ready(len, o)
           w == FirstFrom(outPtr[o], R)
<1>1. R \in SUBSET Ports /\ outPtr[o] \in Ports
  BY DEF Ready, Pointers
<1>2. CASE R = {}
  BY <1>2 DEF RRPointers, RRMatches
<1>3. CASE R # {}
  <2>1. w \in R /\ \A i \in R : Offset(outPtr[o], w) <= Offset(outPtr[o], i)
    BY <1>1, <1>3, FirstFromMember
  <2>2. RRPointers(len, outPtr)[o] = Succ(w)
    BY <1>3 DEF RRPointers
  <2>3. \A i \in Ports : <<i, o>> \in RRMatches(len, outPtr) <=> i = w
    BY <2>1 DEF RRMatches
  <2> QED
    BY <1>1, <1>3, <2>1, <2>2, <2>3
<1> QED
  BY <1>2, <1>3

(* The pointers of EDRRM, input by input: an input's pointer stays on the  *)
(* output it was matched to while packets are left for it.                 *)
LEMMA EDRRMPointer ==
  ASSUME NEW len \in QueueLengths, NEW inPtr \in Pointers, NEW i \in Ports,
         NEW matches, Dequeuable("EDRRM", len, matches)
  PROVE  LET ptr == EDRRMInPointers(len, inPtr, matches)[i]
         IN /\ \A o \in Ports : <<i, o>> \in matches =>
                 ptr = IF len[i][o] > 1 THEN o ELSE Succ(o)
            /\ (\A o \in Ports : <<i, o>> \notin matches) => ptr = inPtr[i]
<1>1. matches \in SUBSET (Ports \X Ports)
  BY DEF Dequeuable
<1>2. ASSUME NEW o \in Ports, <<i, o>> \in matches
      PROVE  EDRRMInPointers(len, inPtr, matches)[i] = IF len[i][o] > 1 THEN o ELSE Succ(o)
  <2> DEFINE c == CHOOSE m \in matches : m[1] = i
  <2>1. \A m \in matches : m[1] = i => m = <<i, o>>
    BY <1>2 DEF Dequeuable
  <2>2. c = <<i, o>>
    BY <1>2, <2>1
  <2>3. EDRRMInPointers(len, inPtr, matches)[i] =
          IF len[i][c[2]] > 1 THEN c[2] ELSE Succ(c[2])
    BY <1>2 DEF EDRRMInPointers
  <2> HIDE DEF c
  <2> QED
    BY <2>2, <2>3
<1>3. ASSUME \A o \in Ports : <<i, o>> \notin matches
      PROVE  EDRRMInPointers(len, inPtr, matches)[i] = inPtr[i]
  <2>1. ~ \E m \in matches : m[1] = i
    BY <1>1, <1>3
  <2> QED
    BY <2>1 DEF EDRRMInPointers
<1> QED
  BY <1>2, <1>3

(* No pointer leaves the ports. *)
LEMMA PointersType ==
  \A t \in SchedulerTypes, len \in QueueLengths, inPtr, outPtr \in Pointers :
   \A matches : Dequeuable(t, len, matches) =>
      /\ InPointers(t, len, inPtr, matches) \in Pointers
      /\ OutPointers(t, len, outPtr, matches) \in Pointers
<1> TAKE t \in SchedulerTypes, len \in QueueLengths, inPtr, outPtr \in Pointers
<1> SUFFICES ASSUME NEW matches, Dequeuable(t, len, matches)
             PROVE  /\ InPointers(t, len, inPtr, matches) \in Pointers
                    /\ OutPointers(t, len, outPtr, matches) \in Pointers
  OBVIOUS
<1>1. \A p \in Ports : inPtr[p] \in Ports /\ outPtr[p] \in Ports
  BY DEF Pointers
<1>2. matches \in SUBSET (Ports \X Ports)
  BY DEF Dequeuable
<1>3. CASE t = "RoundRobin"
  <2>1. \A o \in Ports : RRPointers(len, outPtr)[o] \in Ports
    <3> TAKE o \in Ports
    <3>1. CASE Ready(len, o) = {}
      BY <1>1, <3>1, CyclePerOutput
    <3>2. CASE Ready(len, o) # {}
      BY <3>2, CyclePerOutput, SuccType
    <3> QED
      BY <3>1, <3>2
  <2>2. OutPointers(t, len, outPtr, matches) = RRPointers(len, outPtr)
    BY <1>3 DEF OutPointers
  <2>3. RRPointers(len, outPtr) \in [Ports -> Ports]
    BY <2>1 DEF RRPointers
  <2> QED
    BY <1>3, <2>2, <2>3 DEF InPointers, Pointers
<1>4. CASE t = "EDRRM"
  <2>1. ASSUME NEW i \in Ports
        PROVE  EDRRMInPointers(len, inPtr, matches)[i] \in Ports
    <3>1. CASE \A o \in Ports : <<i, o>> \notin matches
      BY <1>1, <1>4, <3>1, EDRRMPointer
    <3>2. CASE \E o \in Ports : <<i, o>> \in matches
      <4>1. PICK o \in Ports : <<i, o>> \in matches
        BY <3>2
      <4>2. EDRRMInPointers(len, inPtr, matches)[i] = IF len[i][o] > 1 THEN o ELSE Succ(o)
        BY <1>4, <4>1, EDRRMPointer
      <4> QED
        BY <4>2, SuccType
    <3> QED
      BY <3>1, <3>2
  <2>2. EDRRMInPointers(len, inPtr, matches) \in [Ports -> Ports]
    BY <2>1 DEF EDRRMInPointers
  <2>3. ASSUME NEW o \in Ports
        PROVE  EDRRMOutPointers(outPtr, matches)[o] \in Ports
    <3>1. CASE \E m \in matches : m[2] = o
      <4>1. (CHOOSE m \in matches : m[2] = o)[1] \in Ports
        BY <1>2, <3>1
      <4> QED
        BY <3>1, <4>1, SuccType DEF EDRRMOutPointers
    <3>2. CASE ~ \E m \in matches : m[2] = o
      BY <1>1, <3>2 DEF EDRRMOutPointers
    <3> QED
      BY <3>1, <3>2
  <2>4. EDRRMOutPointers(outPtr, matches) \in [Ports -> Ports]
    BY <2>3 DEF EDRRMOutPointers
  <2> QED
    BY <1>4, <2>2, <2>4 DEF InPointers, OutPointers, Pointers
<1>5. CASE t = "iSLIP"
  BY <1>5 DEF InPointers, OutPointers
<1> QED
  BY <1>3, <1>4, <1>5 DEF SchedulerTypes
===============================================================================
