--------------------------- MODULE HlsServiceProofs ---------------------------
(***************************************************************************)
(* For any number of ports and any length of packets: the words of a       *)
(* packet stay together under both arbiters, and no destination overrules  *)
(* another under round robin.                                              *)
(***************************************************************************)
EXTENDS HlsService, HlsArbiterProofs

(* What is sent in part is what the registers hold. *)
Served ==
  \A m \in Pairs : sent[m] # 0 => arb.txBusy[m[2]] /\ arb.txServing[m[2]] = m[1]

(* The inductive invariant: Served says more than NoInterleaving does, and *)
(* Apart is why nobody overrules.                                          *)
IInv ==
  /\ arb \in Registers
  /\ sent \in [Pairs -> 0 .. PacketWords - 1]
  /\ Locked(arb)
  /\ Served
  /\ CallsMatch
  /\ arb.kind = "RoundRobin" => Apart(arb)

-------------------------------------------------------------------------------
LEMMA InitInv == Init => IInv
<1> SUFFICES ASSUME Init PROVE IInv
  OBVIOUS
<1> PICK kind \in Arbiters : arb = AfterReset(kind)
  BY DEF Init
<1>2. arb \in Registers /\ Locked(arb) /\ (arb.kind = "RoundRobin" => Apart(arb))
  BY ResetRegisters
<1>3. sent \in [Pairs -> 0 .. PacketWords - 1] /\ Served
  BY HlsServiceAssumption DEF Init, Served
<1>4. CallsMatch
  BY DEF Init, CallsMatch
<1> QED
  BY <1>2, <1>3, <1>4 DEF IInv

LEMMA CallInv ==
  ASSUME IInv, Call
  PROVE  IInv'
<1> DEFINE sends == Sends(arb, Ready)
           ending == {m \in sends : sent[m] = PacketWords - 1}
<1>0. /\ Ready \in SUBSET (Ports \X Ports)
      /\ arb \in Registers /\ Locked(arb) /\ Served
      /\ sent \in [Pairs -> 0 .. PacketWords - 1]
  BY DEF IInv, Ready, Pairs
<1>1. Fits(arb, sends)
  BY <1>0, SendsFit
<1>2. /\ arb' = AfterSends(arb, Ready, sends, ending)
      /\ sent' = [m \in Pairs |-> IF m \notin sends THEN sent[m]
                                  ELSE IF sent[m] = PacketWords - 1 THEN 0
                                  ELSE sent[m] + 1]
  BY DEF Call
<1>3. ending \in SUBSET sends
  OBVIOUS
<1> HIDE DEF sends, ending
<1>4. arb' \in Registers
  BY <1>0, <1>1, <1>2, <1>3, RegistersKept
<1>5. Follows(arb, sends, ending, arb')
  BY <1>0, <1>1, <1>2, <1>3, AfterCall
<1>6. Locked(arb')
  BY <1>0, <1>1, <1>3, <1>5, LockedKept
<1>7. sent' \in [Pairs -> 0 .. PacketWords - 1]
  BY <1>0, <1>2, HlsServiceAssumption
<1>8. Served'
  <2> SUFFICES ASSUME NEW m \in Pairs, sent'[m] # 0
               PROVE  arb'.txBusy[m[2]] /\ arb'.txServing[m[2]] = m[1]
    BY DEF Served
  <2>1. m[1] \in Ports /\ m[2] \in Ports
    BY DEF Pairs
  <2>2. CASE m \in sends
    <3>1. m \in sends \ ending
      BY <1>2, <2>2 DEF ending
    <3> QED
      BY <1>5, <3>1 DEF Follows
  <2>3. CASE m \notin sends
    <3>1. arb.txBusy[m[2]] /\ arb.txServing[m[2]] = m[1]
      BY <1>0, <1>2, <2>3 DEF Served
    <3>2. ASSUME NEW n \in sends, n[2] = m[2]
          PROVE  FALSE
      <4>1. n[1] = m[1] /\ n \in Ports \X Ports
        BY <1>1, <3>1, <3>2 DEF Fits
      <4>2. n = m
        BY <3>2, <4>1 DEF Pairs
      <4> QED
        BY <2>3, <4>2
    <3> QED
      BY <1>5, <2>1, <3>1, <3>2 DEF Follows
  <2> QED
    BY <2>2, <2>3
<1>9. arb'.kind = "RoundRobin" => Apart(arb')
  <2>1. arb'.kind = arb.kind
    BY <1>2 DEF AfterSends
  <2> QED
    BY <1>0, <1>2, <2>1, ApartKept DEF IInv
<1>10. CallsMatch'
  <2>1. moved' = sends
    BY DEF Call, sends
  <2> QED
    BY <1>1, <2>1 DEF CallsMatch, Fits
<1> QED
  BY <1>4, <1>6, <1>7, <1>8, <1>9, <1>10 DEF IInv

(* The inductive invariant holds. *)
THEOREM ServiceInvariant == Spec => []IInv
<1>1. IInv /\ [Next]_vars => IInv'
  <2> SUFFICES ASSUME IInv, [Next]_vars PROVE IInv'
    OBVIOUS
  <2>1. CASE Call
    BY <2>1, CallInv
  <2>2. CASE Close
    BY <2>2 DEF Close, IInv, Served, CallsMatch
  <2>3. CASE UNCHANGED vars
    BY <2>3 DEF vars, IInv, Served, CallsMatch
  <2> QED
    BY <2>1, <2>2, <2>3 DEF Next
<1> QED
  BY InitInv, <1>1, PTL DEF Spec

(* A packet on its way holds its source and its destination for each other, *)
(* for any number of ports and under both arbiters (scheduler.cpp:258-289,  *)
(* scheduler_iSLIP.cpp:319-349).                                            *)
THEOREM PacketsStayLocked == Spec => []PacketsLocked
<1>1. IInv => PacketsLocked
  BY DEF IInv, PacketsLocked
<1> QED
  BY ServiceInvariant, <1>1, PTL

(* In a call no source sends to two destinations and no destination takes  *)
(* from two sources, under both arbiters.                                  *)
THEOREM CallsAreMatchings == Spec => []CallsMatch
<1>1. IInv => CallsMatch
  BY DEF IInv
<1> QED
  BY ServiceInvariant, <1>1, PTL

(* The words of a packet are not interleaved with those of another on a    *)
(* link, whatever the number of ports and the length of the packets.       *)
THEOREM PacketsContiguous == Spec => []NoInterleaving
<1>1. IInv => NoInterleaving
  <2> SUFFICES ASSUME IInv, NEW m \in Pairs, NEW p \in Pairs,
                      sent[m] # 0, sent[p] # 0, m[1] = p[1] \/ m[2] = p[2]
               PROVE  m = p
    BY DEF NoInterleaving
  <2>1. /\ arb.txBusy[m[2]] /\ arb.txServing[m[2]] = m[1]
        /\ arb.txBusy[p[2]] /\ arb.txServing[p[2]] = p[1]
    BY DEF IInv, Served
  <2>2. m[2] \in Ports /\ p[2] \in Ports
    BY DEF Pairs
  <2>3. m[2] = p[2]
    BY <2>1, <2>2 DEF IInv, Locked
  <2>4. m[1] = p[1]
    BY <2>1, <2>3
  <2> QED
    BY <2>3, <2>4 DEF Pairs
<1> QED
  BY ServiceInvariant, <1>1, PTL

(* Under round robin asked[sp] is written at most once in a call           *)
(* (scheduler.cpp:222): no destination loses its turn to another.          *)
THEOREM RoundRobinNobodyOverrules == Spec => []NobodyOverrules
<1>1. IInv => NobodyOverrules
  <2> SUFFICES ASSUME IInv, arb.kind = "RoundRobin", NEW d \in Ports, NEW e \in Ports,
                      MayAsk(arb, d), MayAsk(arb, e), Source(arb, d) = Source(arb, e)
               PROVE  d = e
    BY DEF NobodyOverrules, NobodyOverruled
  <2>1. Locked(arb) /\ Apart(arb)
    BY DEF IInv
  <2>2. CASE arb.txBusy[d] /\ arb.txBusy[e]
    BY <2>1, <2>2 DEF Locked, Source
  <2>3. CASE arb.txBusy[d] /\ ~arb.txBusy[e]
    BY <2>1, <2>3 DEF Locked, Source, MayAsk
  <2>4. CASE ~arb.txBusy[d] /\ arb.txBusy[e]
    BY <2>1, <2>4 DEF Locked, Source, MayAsk
  <2>5. CASE ~arb.txBusy[d] /\ ~arb.txBusy[e]
    BY <2>1, <2>5 DEF Apart, Source
  <2> QED
    BY <2>2, <2>3, <2>4, <2>5
<1> QED
  BY ServiceInvariant, <1>1, PTL

-------------------------------------------------------------------------------
(* Whole packets leave nothing over. *)
LEMMA Multiple ==
  ASSUME NEW c \in Nat, NEW d \in Nat \ {0}
  PROVE  (c * d) % d = 0
<1> DEFINE q == (c * d) \div d
           r == (c * d) % d
<1>1. c * d \in Nat
  OBVIOUS
<1>2. q \in Int /\ r \in 0 .. d - 1 /\ c * d = d * q + r
  BY <1>1
<1> HIDE DEF q, r
<1>3. d * (c - q) = r
  BY <1>2
<1>4. c - q < 1
  <2> SUFFICES ASSUME c - q >= 1 PROVE FALSE
    BY <1>2
  <2>1. d * (c - q) >= d
    BY <1>2
  <2> QED
    BY <1>2, <1>3, <2>1
<1>5. c - q > -1
  <2> SUFFICES ASSUME c - q <= -1 PROVE FALSE
    BY <1>2
  <2>1. d * (c - q) <= -d
    BY <1>2
  <2> QED
    BY <1>2, <1>3, <2>1
<1>6. c - q = 0
  BY <1>2, <1>4, <1>5
<1>7. r = 0
  BY <1>3, <1>6
<1> QED
  BY <1>7 DEF r

(* What a queue holds and what has been sent of its first packet are       *)
(* together no more than Cap packets, which is why a packet that has begun *)
(* to arrive always has room for its next word.                            *)
Room ==
  /\ queued \in [Pairs -> Nat]
  /\ \A m \in Pairs : queued[m] + sent[m] <= Cap * PacketWords

(* A queue a word is digested for has room for it. *)
LEMMA DigestHasRoom ==
  ASSUME Room, sent \in [Pairs -> 0 .. PacketWords - 1],
         NEW m \in Pairs, NEW digest \in Digests, m[2] \in digest[m[1]]
  PROVE  queued[m] + sent[m] + 1 <= Cap * PacketWords
<1> DEFINE K == Cap * PacketWords
           sum == queued[m] + sent[m]
<1>1. m[1] \in Ports /\ m[2] \in Ports /\ m = <<m[1], m[2]>>
  BY DEF Pairs
<1>2. digest[m[1]] \in MayDigest(m[1])
  BY <1>1 DEF Digests
<1>3. /\ queued[m] \in Nat /\ sent[m] \in 0 .. PacketWords - 1
      /\ PacketWords \in Nat \ {0} /\ Cap \in Nat \ {0} /\ sum <= K
  BY HlsServiceAssumption DEF Room
<1>4. K \in Nat /\ sum \in Nat
  BY <1>3
<1>5. CASE Underway(m[1]) # {}
  <2>1. m[2] \in Underway(m[1])
    BY <1>2, <1>5 DEF MayDigest
  <2>2. (sent[m] + queued[m]) % PacketWords # 0
    BY <1>1, <2>1 DEF Underway
  <2>3. sum % PacketWords # 0
    BY <1>3, <2>2
  <2>4. K % PacketWords = 0
    BY <1>3, Multiple
  <2>5. sum # K
    BY <2>3, <2>4
  <2> QED
    BY <1>3, <1>4, <2>5
<1>6. CASE Underway(m[1]) = {}
  <2>1. queued[m] <= (Cap - 1) * PacketWords
    BY <1>1, <1>2, <1>6 DEF MayDigest
  <2>2. (Cap - 1) * PacketWords = K - PacketWords
    BY <1>3
  <2> QED
    BY <1>3, <1>4, <2>1, <2>2
<1> QED
  BY <1>5, <1>6

LEMMA CallKeepsRoom ==
  ASSUME IInv, Room, Call
  PROVE  Room'
<1> DEFINE sends == Sends(arb, Ready)
<1>1. PICK digest \in Digests :
        /\ queued' = [m \in Pairs |-> queued[m] + (IF m[2] \in digest[m[1]] THEN 1 ELSE 0)
                                                - (IF m \in sends THEN 1 ELSE 0)]
        /\ sent' = [m \in Pairs |-> IF m \notin sends THEN sent[m]
                                    ELSE IF sent[m] = PacketWords - 1 THEN 0
                                    ELSE sent[m] + 1]
  BY DEF Call
<1>2. sent \in [Pairs -> 0 .. PacketWords - 1] /\ arb \in Registers
  BY DEF IInv
<1>3. Ready \in SUBSET (Ports \X Ports)
  BY DEF Ready, Pairs
<1>4. \A m \in sends : queued[m] > 0
  BY <1>2, <1>3, SendsReady DEF Ready
<1> HIDE DEF sends
<1>5. ASSUME NEW m \in Pairs
      PROVE  queued'[m] \in Nat /\ queued'[m] + sent'[m] <= Cap * PacketWords
  <2>1. /\ queued[m] \in Nat /\ sent[m] \in 0 .. PacketWords - 1
        /\ PacketWords \in Nat \ {0} /\ Cap * PacketWords \in Nat
        /\ queued[m] + sent[m] <= Cap * PacketWords
    BY <1>2, HlsServiceAssumption DEF Room
  <2> DEFINE K == Cap * PacketWords
             more == IF m[2] \in digest[m[1]] THEN 1 ELSE 0
             less == IF m \in sends THEN 1 ELSE 0
  <2>2. queued[m] + sent[m] + more <= K
    BY <2>1, DigestHasRoom, <1>2
  <2>3. queued'[m] = queued[m] + more - less
    BY <1>1
  <2>4. sent'[m] <= sent[m] + less
    BY <1>1, <2>1
  <2>5. sent'[m] \in Nat
    BY <1>1, <2>1
  <2>6. queued[m] - less \in Nat
    BY <1>4, <2>1
  <2>7. more \in {0, 1} /\ less \in {0, 1} /\ K \in Nat
    BY <2>1
  <2> HIDE DEF K, more, less
  <2>8. queued'[m] \in Nat /\ queued'[m] + sent'[m] <= K
    BY <2>1, <2>2, <2>3, <2>4, <2>5, <2>6, <2>7
  <2> QED
    BY <2>8 DEF K
<1>6. queued' \in [Pairs -> Nat]
  <2>1. queued' = [m \in Pairs |-> queued'[m]]
    BY <1>1
  <2> QED
    BY <2>1, <1>5
<1> QED
  BY <1>5, <1>6 DEF Room

(* The queues never outgrow Cap packets and the registers stay in the      *)
(* ports, for any number of ports and any length of packets.               *)
THEOREM TypeCorrect == Spec => []TypeOK
<1>1. Init => Room
  BY HlsServiceAssumption DEF Init, Room
<1>2. ASSUME IInv, Room, [Next]_vars
      PROVE  Room'
  <2>1. CASE Call
    BY <1>2, <2>1, CallKeepsRoom
  <2>2. CASE Close
    BY <1>2, <2>2 DEF Close, Room
  <2>3. CASE UNCHANGED vars
    BY <1>2, <2>3 DEF vars, Room
  <2> QED
    BY <1>2, <2>1, <2>2, <2>3 DEF Next
<1>3. Spec => []Room
  BY <1>1, <1>2, ServiceInvariant, PTL DEF Spec
<1> DEFINE Rest == closed \in BOOLEAN /\ moved \in SUBSET Pairs
<1>4. Init => Rest
  BY DEF Init
<1>5. IInv /\ Rest /\ [Next]_vars => Rest'
  <2> SUFFICES ASSUME IInv, Rest, [Next]_vars PROVE Rest'
    OBVIOUS
  <2>1. CASE Call
    <3>1. Ready \in SUBSET (Ports \X Ports) /\ arb \in Registers
      BY DEF Ready, Pairs, IInv
    <3>2. moved' \subseteq Pairs
      BY <2>1, <3>1, SendsReady DEF Call, Pairs
    <3> QED
      BY <2>1, <3>2 DEF Call
  <2>2. CASE Close
    BY <2>2 DEF Close
  <2>3. CASE UNCHANGED vars
    BY <2>3 DEF vars
  <2> QED
    BY <2>1, <2>2, <2>3 DEF Next
<1>6. IInv /\ Room /\ Rest => TypeOK
  <2> SUFFICES ASSUME IInv, Room, Rest PROVE TypeOK
    OBVIOUS
  <2>1. ASSUME NEW m \in Pairs
        PROVE  queued[m] \in 0 .. Cap * PacketWords
    <3>1. queued[m] \in Nat /\ sent[m] \in Nat /\ queued[m] + sent[m] <= Cap * PacketWords
      BY HlsServiceAssumption DEF IInv, Room
    <3>2. Cap * PacketWords \in Nat
      BY HlsServiceAssumption
    <3> QED
      BY <3>1, <3>2
  <2> QED
    BY <2>1 DEF IInv, Room, TypeOK
<1> QED
  BY ServiceInvariant, <1>3, <1>4, <1>5, <1>6, PTL DEF Spec
===============================================================================
