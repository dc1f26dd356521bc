---------------------------- MODULE SchedulerProofs ----------------------------
(***************************************************************************)
(* The three schedulers of the simulator, for every number of ports and    *)
(* every queue bound: one packet per port, bounded waiting of the round    *)
(* robin, exhaustive service of EDRRM.                                     *)
(***************************************************************************)
EXTENDS Schedulers, PortSchedulerProofs

-------------------------------------------------------------------------------
(* Each time a queue is passed over, the pointer of its output comes       *)
(* closer to it.                                                           *)
PointerApproaches ==
  \A i, o \in Ports : wait[i][o] + Offset(outPtr[o], i) <= NumPorts - 1

(* The pointer of an EDRRM input rests on the queue it has not drained.    *)
PointerRests ==
  \A i \in Ports : busyWith[i] # None =>
    type = "EDRRM" /\ inPtr[i] = busyWith[i] /\ len[i][busyWith[i]] > 0

IInv ==
  /\ TypeOK
  /\ OnePacketPerPort
  /\ PointerApproaches
  /\ PointerRests

(* What the lemmas about the matchings ask for. *)
LEMMA MatchingArguments ==
  ASSUME TypeOK
  PROVE  /\ type \in SchedulerTypes /\ len \in QueueLengths
         /\ inPtr \in Pointers /\ outPtr \in Pointers
  BY CapAssumption DEF TypeOK, QueueLengths, Pointers

(* Every variable keeps its type. *)
LEMMA TypeStep == TypeOK /\ [Next]_vars => TypeOK'
<1> SUFFICES ASSUME TypeOK, [Next]_vars PROVE TypeOK'
  OBVIOUS
<1>1. ASSUME NEW i \in Ports, NEW o \in Ports, Arrive(i, o)
      PROVE  TypeOK'
  <2>1. len' \in [Ports -> [Ports -> 0 .. Cap]]
    BY <1>1, CapAssumption DEF Arrive, TypeOK
  <2> QED
    BY <1>1, <2>1 DEF Arrive, TypeOK
<1>2. ASSUME Close PROVE TypeOK'
  BY <1>2 DEF Close, TypeOK
<1>3. ASSUME ScheduleCycle PROVE TypeOK'
  <2> DEFINE matches == Matches(type, len, inPtr, outPtr)
  <2>1. Dequeuable(type, len, matches)
    BY MatchesDequeuable, MatchingArguments
  <2>2. /\ matches \in SUBSET (Ports \X Ports)
        /\ \A i, o \in Ports : <<i, o>> \in matches => len[i][o] > 0
    BY <2>1 DEF Dequeuable
  <2>3. inPtr' \in [Ports -> Ports] /\ outPtr' \in [Ports -> Ports]
    BY <1>3, <2>1, PointersType, MatchingArguments DEF ScheduleCycle, Pointers
  <2> HIDE DEF matches
  <2>4. /\ served' = matches
        /\ len' = [i \in Ports |-> [o \in Ports |->
                     IF <<i, o>> \in matches THEN len[i][o] - 1 ELSE len[i][o]]]
        /\ wait' = Waited(matches)
        /\ busyWith' = BusyWith(matches)
        /\ UNCHANGED <<type, closed>>
    BY <1>3 DEF ScheduleCycle, matches
  <2>5. len' \in [Ports -> [Ports -> 0 .. Cap]]
    BY <2>2, <2>4, CapAssumption DEF TypeOK
  <2>6. wait' \in [Ports -> [Ports -> Nat]]
    BY <2>4, PortsAssumption DEF Waited, TypeOK
  <2>7. busyWith' \in [Ports -> Ports \cup {None}]
    BY <2>4 DEF BusyWith, TypeOK
  <2> QED
    BY <2>2, <2>3, <2>4, <2>5, <2>6, <2>7 DEF TypeOK
<1>4. ASSUME UNCHANGED vars PROVE TypeOK'
  BY <1>4 DEF vars, TypeOK
<1> QED
  BY <1>1, <1>2, <1>3, <1>4 DEF Next

(* A queue that is passed over in a cycle gains one cycle of waiting and   *)
(* loses at least one step of distance from the pointer.                   *)
LEMMA CycleApproaches ==
  ASSUME TypeOK, PointerApproaches, ScheduleCycle
  PROVE  PointerApproaches'
<1> SUFFICES ASSUME NEW i \in Ports, NEW o \in Ports
             PROVE  wait'[i][o] + Offset(outPtr'[o], i) <= NumPorts - 1
  BY DEF PointerApproaches
<1> DEFINE p == outPtr[o]
           w == FirstFrom(p, Ready(len, o))
           matches == Matches(type, len, inPtr, outPtr)
           passed == type = "RoundRobin" /\ len[i][o] # 0 /\ <<i, o>> \notin matches
<1>1. /\ p \in Ports /\ wait[i][o] \in Nat /\ len[i][o] \in Nat
      /\ wait[i][o] + Offset(p, i) <= NumPorts - 1
  BY CapAssumption DEF TypeOK, PointerApproaches
<1>2. wait'[i][o] = IF passed THEN wait[i][o] + 1 ELSE 0
  <2>1. wait[i][o] # NumPorts
    BY <1>1, OffsetType, PortsAssumption
  <2>2. wait' = Waited(matches)
    BY DEF ScheduleCycle
  <2> QED
    BY <2>1, <2>2 DEF Waited
<1>3. outPtr'[o] \in Ports
  BY TypeStep DEF Next, TypeOK
<1>4. CASE ~passed
  BY <1>2, <1>3, <1>4, OffsetType, PortsAssumption
<1>5. CASE passed
  <2>1. outPtr' = RRPointers(len, outPtr) /\ matches = RRMatches(len, outPtr)
    BY <1>5 DEF ScheduleCycle, OutPointers, Matches
  <2>2. i \in Ready(len, o)
    BY <1>1, <1>5 DEF Ready
  <2>3. /\ w \in Ports /\ w # i
        /\ outPtr'[o] = Succ(w)
        /\ Offset(p, w) <= Offset(p, i)
    BY <1>5, <2>1, <2>2, CyclePerOutput, MatchingArguments
  <2> HIDE DEF p, w
  <2>4. Offset(p, w) < Offset(p, i)
    BY <1>1, <2>3, OffsetType
  <2>5. Offset(Succ(w), i) < Offset(p, i)
    BY <1>1, <2>3, <2>4, OffsetPast
  <2>6. Offset(Succ(w), i) \in Int /\ Offset(p, i) \in Int
    BY <1>1, <2>3, OffsetType, SuccType
  <2> QED
    BY <1>1, <1>2, <1>5, <2>3, <2>5, <2>6, PortsAssumption
<1> QED
  BY <1>4, <1>5

(* An EDRRM input that leaves packets behind keeps its pointer there, and  *)
(* one that is not matched leaves queue and pointer as they are.           *)
LEMMA CycleRests ==
  ASSUME TypeOK, PointerRests, ScheduleCycle
  PROVE  PointerRests'
<1> SUFFICES ASSUME NEW i \in Ports, busyWith'[i] # None
             PROVE  /\ type' = "EDRRM" /\ inPtr'[i] = busyWith'[i]
                    /\ len'[i][busyWith'[i]] > 0
  BY DEF PointerRests, None
<1> DEFINE matches == Matches(type, len, inPtr, outPtr)
<1>1. Dequeuable(type, len, matches)
  BY MatchesDequeuable, MatchingArguments
<1>2. /\ len' = [a \in Ports |-> [o \in Ports |->
                   IF <<a, o>> \in matches THEN len[a][o] - 1 ELSE len[a][o]]]
      /\ inPtr' = InPointers(type, len, inPtr, matches)
      /\ busyWith' = BusyWith(matches)
      /\ type' = type
  BY DEF ScheduleCycle
<1>3. \A o \in Ports : len[i][o] \in Int
  BY CapAssumption DEF TypeOK
<1>4. busyWith[i] \in Ports \cup {None}
  BY DEF TypeOK
<1> HIDE DEF matches
<1>5. CASE type = "EDRRM" /\ \E o \in Ports : <<i, o>> \in matches
  <2>1. PICK o \in Ports : <<i, o>> \in matches
    BY <1>5
  <2>2. \A q \in Ports : <<i, q>> \in matches => q = o
    BY <1>1, <1>5, <2>1 DEF Dequeuable
  <2>3. (CHOOSE q \in Ports : <<i, q>> \in matches) = o
    BY <2>1, <2>2
  <2>4. busyWith'[i] = IF len[i][o] > 1 THEN o ELSE None
    BY <1>2, <1>5, <2>3 DEF BusyWith
  <2>5. inPtr'[i] = IF len[i][o] > 1 THEN o ELSE Succ(o)
    BY <1>1, <1>2, <1>5, <2>1, EDRRMPointer, MatchingArguments DEF InPointers
  <2>6. len'[i][o] = len[i][o] - 1
    BY <1>2, <2>1
  <2> QED
    BY <1>2, <1>3, <1>5, <2>1, <2>4, <2>5, <2>6
<1>6. CASE ~(type = "EDRRM" /\ \E o \in Ports : <<i, o>> \in matches)
  <2>1. busyWith'[i] = busyWith[i]
    BY <1>2, <1>6 DEF BusyWith
  <2>2. /\ type = "EDRRM" /\ inPtr[i] = busyWith[i]
        /\ busyWith[i] \in Ports /\ len[i][busyWith[i]] > 0
    BY <1>4, <2>1 DEF PointerRests
  <2>3. \A o \in Ports : <<i, o>> \notin matches
    BY <1>6, <2>2
  <2>4. inPtr'[i] = inPtr[i]
    BY <1>1, <1>2, <2>2, <2>3, EDRRMPointer, MatchingArguments DEF InPointers
  <2>5. len'[i][busyWith[i]] = len[i][busyWith[i]]
    BY <1>2, <2>2, <2>3
  <2> QED
    BY <1>2, <2>1, <2>2, <2>4, <2>5
<1> QED
  BY <1>5, <1>6

THEOREM SchedulersInvariant == Spec => []IInv
<1>1. Init => IInv
  <2> SUFFICES ASSUME Init PROVE IInv
    OBVIOUS
  <2>1. 0 \in Ports
    BY PortsAssumption DEF Ports
  <2>2. TypeOK
    <3>1. len \in [Ports -> [Ports -> 0 .. Cap]]
      BY CapAssumption DEF Init
    <3>2. inPtr \in [Ports -> Ports] /\ outPtr \in [Ports -> Ports]
      BY <2>1 DEF Init
    <3>3. wait \in [Ports -> [Ports -> Nat]] /\ busyWith \in [Ports -> Ports \cup {None}]
      BY DEF Init
    <3> QED
      BY <3>1, <3>2, <3>3 DEF Init, TypeOK
  <2>3. PointerApproaches
    BY <2>1, OffsetType, PortsAssumption DEF Init, PointerApproaches
  <2> QED
    BY <2>2, <2>3 DEF Init, IInv, OnePacketPerPort, PointerRests
<1>2. IInv /\ [Next]_vars => IInv'
  <2> SUFFICES ASSUME IInv, [Next]_vars PROVE IInv'
    OBVIOUS
  <2>1. TypeOK'
    BY TypeStep DEF IInv
  <2>2. ASSUME NEW i \in Ports, NEW o \in Ports, Arrive(i, o)
        PROVE  IInv'
    <3>1. OnePacketPerPort' /\ PointerApproaches'
      BY <2>2 DEF Arrive, IInv, OnePacketPerPort, PointerApproaches
    <3>2. \A a, b \in Ports : len'[a][b] >= len[a][b] /\ len'[a][b] \in Nat
      BY <2>1, <2>2, CapAssumption DEF Arrive, IInv, TypeOK
    <3>3. PointerRests'
      <4>1. \A a \in Ports : busyWith[a] \in Ports \cup {None}
        BY DEF IInv, TypeOK
      <4>2. \A a \in Ports : busyWith[a] \in Ports => len[a][busyWith[a]] \in Nat
        BY CapAssumption DEF IInv, TypeOK
      <4> QED
        BY <2>2, <3>2, <4>1, <4>2 DEF Arrive, IInv, PointerRests, None
    <3> QED
      BY <2>1, <3>1, <3>3 DEF IInv
  <2>3. CASE Close
    BY <2>1, <2>3 DEF Close, IInv, OnePacketPerPort, PointerApproaches, PointerRests, None
  <2>4. CASE ScheduleCycle
    <3>1. OnePacketPerPort'
      BY <2>4, MatchesDequeuable, MatchingArguments DEF ScheduleCycle, IInv, Dequeuable, OnePacketPerPort
    <3> QED
      BY <2>1, <2>4, <3>1, CycleApproaches, CycleRests DEF IInv
  <2>5. CASE UNCHANGED vars
    BY <2>1, <2>5
       DEF vars, IInv, OnePacketPerPort, PointerApproaches, PointerRests, None
  <2> QED
    BY <2>2, <2>3, <2>4, <2>5 DEF Next
<1> QED
  BY <1>1, <1>2, PTL DEF Spec

(* The queues, pointers and matches of all three schedulers keep their     *)
(* types: no pointer leaves the ports, no queue that is empty is served.   *)
THEOREM SchedulersTypeCorrect == Spec => []TypeOK
<1>1. IInv => TypeOK
  BY DEF IInv
<1> QED
  BY SchedulersInvariant, <1>1, PTL

(* A cycle sends at most one packet to an output and, but for the round    *)
(* robin, takes at most one from an input.                                 *)
THEOREM OneMatchPerPort == Spec => []OnePacketPerPort
<1>1. IInv => OnePacketPerPort
  BY DEF IInv
<1> QED
  BY SchedulersInvariant, <1>1, PTL

(* Under round robin a queue with a packet is passed over at most          *)
(* NumPorts - 1 times in a row (scheduler_base.py:217-258).                *)
THEOREM BoundedWaiting == Spec => []BoundedWait
<1>1. IInv => BoundedWait
  <2> SUFFICES ASSUME IInv, NEW i \in Ports, NEW o \in Ports
               PROVE  wait[i][o] <= NumPorts - 1
    BY DEF BoundedWait
  <2>1. wait[i][o] + Offset(outPtr[o], i) <= NumPorts - 1
    BY DEF IInv, PointerApproaches
  <2>2. wait[i][o] \in Nat /\ outPtr[o] \in Ports
    BY DEF IInv, TypeOK
  <2> QED
    BY <2>1, <2>2, OffsetType, PortsAssumption
<1> QED
  BY SchedulersInvariant, <1>1, PTL

(* An EDRRM input serves no other queue before the one it is at is drained *)
(* (scheduler_base.py:405-469).                                            *)
THEOREM ServiceIsExhaustive == Spec => ExhaustiveService
<1>1. ASSUME IInv, ScheduleCycle, NEW i \in Ports, NEW o \in Ports,
             <<i, o>> \in served', busyWith[i] # None
      PROVE  o = busyWith[i]
  <2> DEFINE b == busyWith[i]
  <2>1. /\ b \in Ports /\ type = "EDRRM" /\ inPtr[i] = b /\ len[i][b] > 0
    BY <1>1 DEF IInv, PointerRests, TypeOK
  <2>2. <<i, o>> \in Requests(len, inPtr)
    BY <1>1, <2>1 DEF ScheduleCycle, Matches, EDRRMMatches
  <2>3. Offset(b, o) <= Offset(b, b)
    BY <2>1, <2>2 DEF Requests
  <2> HIDE DEF b
  <2>4. Offset(b, b) = 0
    BY <2>1, PortsAssumption DEF Offset, Ports
  <2>5. Offset(b, o) = Offset(b, b)
    BY <2>1, <2>3, <2>4, OffsetType
  <2>6. b = o
    BY <2>1, <2>5, OffsetType
  <2> QED
    BY <2>6 DEF b
<1>2. IInv /\ [Next]_vars =>
        [ScheduleCycle => \A i, o \in Ports :
           (<<i, o>> \in served' /\ busyWith[i] # None) => o = busyWith[i]]_vars
  BY <1>1
<1> QED
  BY SchedulersInvariant, <1>2, PTL DEF Spec, ExhaustiveService
================================================================================
