--------------------------- MODULE HlsArbiterProofs ---------------------------
(***************************************************************************)
(* What a call of the hardware's arbiters does to their registers, for any *)
(* number of ports: the transfers of both fit the registers, which stay    *)
(* locked, and the pointers of the round robin stay apart.                 *)
(***************************************************************************)
EXTENDS HlsArbiters, TLAPS

(* The lemmas about ports in a circle are those of the simulator.          *)
Circle == INSTANCE PortSchedulerProofs

LEMMA SuccType ==
  ASSUME NEW p \in Ports
  PROVE  Succ(p) \in Ports
  BY PortsAssumption DEF Ports, Succ

LEMMA FirstFromMember ==
  ASSUME NEW p \in Ports, NEW S \in SUBSET Ports, S # {}
  PROVE  /\ FirstFrom(p, S) \in S
         /\ \A y \in S : Offset(p, FirstFrom(p, S)) <= Offset(p, y)
  BY PortsAssumption, Circle!FirstFromMember
     DEF Circle!Ports, Circle!FirstFrom, Circle!Offset, Ports, FirstFrom, Offset

(* A set of transfers that respects the registers: no port takes part in   *)
(* two, a destination under way takes from the source it serves, a free    *)
(* one from a free source.                                                 *)
Fits(a, sends) ==
  /\ sends \subseteq Ports \X Ports
  /\ \A m, n \in sends : (m[1] = n[1] \/ m[2] = n[2]) => m = n
  /\ \A m \in sends : IF a.txBusy[m[2]] THEN m[1] = a.txServing[m[2]]
                      ELSE ~a.spBusy[m[1]]

(* The round robin's transfers fit: asked[sp] has one value. *)
LEMMA RRFits ==
  ASSUME NEW a \in Registers, NEW ready \in SUBSET (Ports \X Ports)
  PROVE  Fits(a, RRSends(a, ready))
<1> DEFINE S == RRSends(a, ready)
<1>1. S \subseteq Ports \X Ports
  BY DEF RRSends
<1>2. \A m \in S : /\ MayAsk(a, m[2]) /\ m[1] = Source(a, m[2])
                   /\ Asks(a, ready, m[2])
  BY DEF RRSends, Asks
<1>3. ASSUME NEW m \in S, NEW n \in S, m[1] = n[1]
      PROVE  m = n
  <2>1. n[2] <= m[2] /\ m[2] <= n[2]
    BY <1>1, <1>2, <1>3 DEF RRSends
  <2>2. m[2] \in Int /\ n[2] \in Int
    BY <1>1, PortsAssumption DEF Ports
  <2> QED
    BY <1>1, <1>3, <2>1, <2>2
<1>4. ASSUME NEW m \in S, NEW n \in S, m[2] = n[2]
      PROVE  m = n
  BY <1>1, <1>2, <1>4
<1>5. ASSUME NEW m \in S
      PROVE  IF a.txBusy[m[2]] THEN m[1] = a.txServing[m[2]] ELSE ~a.spBusy[m[1]]
  BY <1>2 DEF Source, MayAsk
<1> QED
  BY <1>1, <1>3, <1>4, <1>5 DEF Fits

(* What a destination grants: the source it serves, or one that is free. *)
LEMMA GrantFits ==
  ASSUME NEW a \in Registers, NEW ready \in SUBSET (Ports \X Ports),
         NEW m \in Grants(a, ready)
  PROVE  /\ m \in Ports \X Ports
         /\ IF a.txBusy[m[2]] THEN m[1] = a.txServing[m[2]] ELSE ~a.spBusy[m[1]]
         /\ \A n \in Grants(a, ready) : m[2] = n[2] => m = n
<1>1. Grants(a, ready) \subseteq Ports \X Ports
  BY DEF Grants
<1>2. ASSUME ~a.txBusy[m[2]]
      PROVE  ~a.spBusy[m[1]]
  <2> DEFINE W == Wanting(a, ready, m[2])
  <2>1. m[1] = IF W = {} THEN NumPorts ELSE FirstFrom(a.txNext[m[2]], W)
    BY <1>2 DEF Grants
  <2>2. m[1] \in Ports /\ m[2] \in Ports /\ m[1] # NumPorts
    BY <1>1, PortsAssumption DEF Ports
  <2>3. W # {}
    BY <2>1, <2>2
  <2>4. W \in SUBSET Ports /\ a.txNext[m[2]] \in Ports
    BY <2>2 DEF Wanting, Registers
  <2>5. FirstFrom(a.txNext[m[2]], W) \in W
    BY <2>3, <2>4, FirstFromMember
  <2>6. m[1] \in W
    BY <2>1, <2>3, <2>5
  <2> QED
    BY <2>6 DEF Wanting
<1>3. a.txBusy[m[2]] => m[1] = a.txServing[m[2]]
  BY DEF Grants
<1>4. ASSUME NEW n \in Grants(a, ready), m[2] = n[2]
      PROVE  m = n
  <2>1. m[1] = n[1]
    BY <1>4 DEF Grants
  <2> QED
    BY <1>1, <1>4, <2>1
<1> QED
  BY <1>1, <1>2, <1>3, <1>4

(* The transfers iSLIP's sources accept fit as well. *)
LEMMA ISlipFits ==
  ASSUME NEW a \in Registers, NEW ready \in SUBSET (Ports \X Ports)
  PROVE  Fits(a, ISlipSends(a, ready))
<1> DEFINE S == ISlipSends(a, ready)
           grants == Grants(a, ready)
           Ongoing(sp) == {dp \in GrantedTo(sp, grants) : a.txBusy[dp]}
<1>1. S \subseteq grants
  BY DEF ISlipSends
<1>2. S \subseteq Ports \X Ports
  BY <1>1, GrantFits
<1>3. ASSUME NEW m \in S, NEW n \in S, m[1] = n[1]
      PROVE  m = n
  <2>1. \A x \in S : IF a.spBusy[x[1]]
                     THEN x[2] \in Ongoing(x[1]) /\ \A dp \in Ongoing(x[1]) : dp <= x[2]
                     ELSE x[2] = FirstFrom(a.spNext[x[1]], GrantedTo(x[1], grants))
    BY DEF ISlipSends
  <2>2. m[2] \in Int /\ n[2] \in Int
    BY <1>2, PortsAssumption DEF Ports
  <2>3. CASE a.spBusy[m[1]]
    <3>1. m[2] \in Ongoing(m[1]) /\ \A dp \in Ongoing(m[1]) : dp <= m[2]
      BY <2>1, <2>3
    <3>2. n[2] \in Ongoing(m[1]) /\ \A dp \in Ongoing(m[1]) : dp <= n[2]
      BY <2>1, <2>3, <1>3
    <3>3. m[2] <= n[2] /\ n[2] <= m[2]
      BY <3>1, <3>2
    <3> QED
      BY <1>2, <1>3, <2>2, <3>3
  <2>4. CASE ~a.spBusy[m[1]]
    <3>1. m[2] = n[2]
      BY <1>3, <2>1, <2>4
    <3> QED
      BY <1>2, <1>3, <3>1
  <2> QED
    BY <2>3, <2>4
<1>4. ASSUME NEW m \in S, NEW n \in S, m[2] = n[2]
      PROVE  m = n
  BY <1>1, <1>4, GrantFits
<1>5. ASSUME NEW m \in S
      PROVE  IF a.txBusy[m[2]] THEN m[1] = a.txServing[m[2]] ELSE ~a.spBusy[m[1]]
  BY <1>1, GrantFits
<1> QED
  BY <1>2, <1>3, <1>4, <1>5 DEF Fits

(* Whichever the arbiter. *)
LEMMA SendsFit ==
  ASSUME NEW a \in Registers, NEW ready \in SUBSET (Ports \X Ports)
  PROVE  Fits(a, Sends(a, ready))
BY RRFits, ISlipFits DEF Sends

(* A call sends only from queues that had a word. *)
LEMMA SendsReady ==
  ASSUME NEW a \in Registers, NEW ready \in SUBSET (Ports \X Ports)
  PROVE  Sends(a, ready) \subseteq ready
<1>1. RRSends(a, ready) \subseteq ready
  <2> SUFFICES ASSUME NEW m \in RRSends(a, ready) PROVE m \in ready
    OBVIOUS
  <2>1. m \in Ports \X Ports /\ <<m[1], m[2]>> \in ready
    BY DEF RRSends, Asks
  <2> QED
    BY <2>1
<1>2. ISlipSends(a, ready) \subseteq ready
  BY DEF ISlipSends, Grants
<1> QED
  BY <1>1, <1>2 DEF Sends

-------------------------------------------------------------------------------
(* The pointers of the round robin never meet. *)
Apart(a) == \A d, e \in Ports : a.txNext[d] = a.txNext[e] => d = e

(* A reset leaves nothing under way and the pointers apart. *)
LEMMA ResetRegisters ==
  ASSUME NEW kind \in Arbiters
  PROVE  /\ AfterReset(kind) \in Registers
         /\ Locked(AfterReset(kind))
         /\ AfterReset(kind).kind = "RoundRobin" => Apart(AfterReset(kind))
<1>1. 0 \in Ports
  BY PortsAssumption DEF Ports
<1> QED
  BY <1>1 DEF AfterReset, Registers, Locked, Apart

(* The registers keep their types. *)
LEMMA RegistersKept ==
  ASSUME NEW a \in Registers, NEW ready \in SUBSET (Ports \X Ports),
         NEW sends, Fits(a, sends), NEW ending \in SUBSET sends
  PROVE  AfterSends(a, ready, sends, ending) \in Registers
<1> DEFINE b == AfterSends(a, ready, sends, ending)
<1>1. \A ptr \in Ports : \A S \in SUBSET Ports : PassedOver(ptr, S) \in Ports
  BY SuccType, FirstFromMember DEF PassedOver
<1>2. \A m \in sends : m[1] \in Ports /\ m[2] \in Ports
  BY DEF Fits
<1>3. TxBusy(a, sends, ending) \in [Ports -> BOOLEAN]
  BY DEF TxBusy, Registers
<1>4. TxServing(a, sends, ending) \in [Ports -> Ports]
  <2>1. ASSUME NEW dp \in Ports
        PROVE  (IF \E m \in sends \ ending : m[2] = dp
                THEN (CHOOSE m \in sends \ ending : m[2] = dp)[1]
                ELSE a.txServing[dp]) \in Ports
    <3>1. CASE \E m \in sends \ ending : m[2] = dp
      BY <1>2, <3>1
    <3>2. CASE ~ \E m \in sends \ ending : m[2] = dp
      BY <3>2 DEF Registers
    <3> QED
      BY <3>1, <3>2
  <2> QED
    BY <2>1 DEF TxServing
<1>5. TxNext(a, ready) \in [Ports -> Ports]
  <2>1. \A dp \in Ports : Wanting(a, ready, dp) \in SUBSET Ports
    BY DEF Wanting
  <2>2. \A dp \in Ports : a.txNext[dp] \in Ports
    BY DEF Registers
  <2> QED
    BY <1>1, <2>1, <2>2, SuccType DEF TxNext
<1>6. SpBusy(a, sends, ending) \in [Ports -> BOOLEAN]
  BY DEF SpBusy, Registers
<1>7. SpNext(a, ready) \in [Ports -> Ports]
  <2>1. \A sp \in Ports : GrantedTo(sp, Grants(a, ready)) \in SUBSET Ports
    BY DEF GrantedTo, Grants
  <2>2. \A sp \in Ports : a.spNext[sp] \in Ports
    BY DEF Registers
  <2> QED
    BY <1>1, <2>1, <2>2 DEF SpNext
<1> QED
  BY <1>3, <1>4, <1>5, <1>6, <1>7 DEF AfterSends, Registers

(* What the registers b say after a call that began with a, pair by pair. *)
Follows(a, sends, ending, b) ==
  /\ \A m \in sends \ ending : b.txBusy[m[2]] /\ b.txServing[m[2]] = m[1] /\ b.spBusy[m[1]]
  /\ \A m \in ending : ~b.txBusy[m[2]] /\ ~b.spBusy[m[1]]
  /\ \A dp \in Ports : (\A m \in sends : m[2] # dp) =>
       (b.txBusy[dp] <=> a.txBusy[dp]) /\ b.txServing[dp] = a.txServing[dp]
  /\ \A sp \in Ports : (\A m \in sends : m[1] # sp) => (b.spBusy[sp] <=> a.spBusy[sp])

LEMMA AfterCall ==
  ASSUME NEW a \in Registers, NEW ready \in SUBSET (Ports \X Ports),
         NEW sends, Fits(a, sends), NEW ending \in SUBSET sends
  PROVE  Follows(a, sends, ending, AfterSends(a, ready, sends, ending))
<1> DEFINE b == AfterSends(a, ready, sends, ending)
<1>1. /\ b.txBusy = TxBusy(a, sends, ending)
      /\ b.txServing = TxServing(a, sends, ending)
      /\ b.spBusy = SpBusy(a, sends, ending)
  BY DEF AfterSends
<1>2. \A m \in sends : m[1] \in Ports /\ m[2] \in Ports
  BY DEF Fits
<1>3. ASSUME NEW m \in sends \ ending
      PROVE  b.txBusy[m[2]] /\ b.txServing[m[2]] = m[1] /\ b.spBusy[m[1]]
  <2>1. b.txBusy[m[2]] /\ b.spBusy[m[1]]
    BY <1>1, <1>2, <1>3 DEF TxBusy, SpBusy
  <2>2. \A n \in sends \ ending : n[2] = m[2] => n = m
    BY <1>3 DEF Fits
  <2>3. (CHOOSE n \in sends \ ending : n[2] = m[2]) = m
    BY <1>3, <2>2
  <2>4. b.txServing[m[2]] = m[1]
    BY <1>1, <1>2, <1>3, <2>3 DEF TxServing
  <2> QED
    BY <2>1, <2>4
<1>4. ASSUME NEW m \in ending
      PROVE  ~b.txBusy[m[2]] /\ ~b.spBusy[m[1]]
  <2>1. \A n \in sends : (n[1] = m[1] \/ n[2] = m[2]) => n = m
    BY <1>4 DEF Fits
  <2>2. b.txBusy[m[2]] = \E n \in sends \ ending : n[2] = m[2]
    BY <1>1, <1>2, <1>4 DEF TxBusy
  <2>3. b.spBusy[m[1]] = \E n \in sends \ ending : n[1] = m[1]
    BY <1>1, <1>2, <1>4 DEF SpBusy
  <2> QED
    BY <1>4, <2>1, <2>2, <2>3
<1>5. ASSUME NEW dp \in Ports, \A m \in sends : m[2] # dp
      PROVE  (b.txBusy[dp] <=> a.txBusy[dp]) /\ b.txServing[dp] = a.txServing[dp]
  BY <1>1, <1>5 DEF TxBusy, TxServing
<1>6. ASSUME NEW sp \in Ports, \A m \in sends : m[1] # sp
      PROVE  (b.spBusy[sp] <=> a.spBusy[sp])
  BY <1>1, <1>6 DEF SpBusy
<1> QED
  BY <1>3, <1>4, <1>5, <1>6 DEF Follows

(* A call that fits the registers leaves them locked. *)
LEMMA LockedKept ==
  ASSUME NEW a \in Registers, Locked(a),
         NEW sends, Fits(a, sends), NEW ending \in SUBSET sends,
         NEW b, Follows(a, sends, ending, b)
  PROVE  Locked(b)
<1>1. /\ \A m \in sends \ ending : b.txBusy[m[2]] /\ b.txServing[m[2]] = m[1] /\ b.spBusy[m[1]]
      /\ \A m \in ending : ~b.txBusy[m[2]] /\ ~b.spBusy[m[1]]
      /\ \A dp \in Ports : (\A m \in sends : m[2] # dp) =>
           (b.txBusy[dp] <=> a.txBusy[dp]) /\ b.txServing[dp] = a.txServing[dp]
      /\ \A sp \in Ports : (\A m \in sends : m[1] # sp) => (b.spBusy[sp] <=> a.spBusy[sp])
  BY DEF Follows
<1>2. /\ \A m \in sends : m[1] \in Ports /\ m[2] \in Ports
      /\ \A m, n \in sends : (m[1] = n[1] \/ m[2] = n[2]) => m = n
      /\ \A m \in sends : IF a.txBusy[m[2]] THEN m[1] = a.txServing[m[2]]
                           ELSE ~a.spBusy[m[1]]
  BY DEF Fits
<1>3. \A dp \in Ports : a.txServing[dp] \in Ports
  BY DEF Registers
\* A destination under way whose source sends: it sends to that destination.
<1>4. ASSUME NEW dp \in Ports, a.txBusy[dp], NEW m \in sends, m[1] = a.txServing[dp]
      PROVE  m[2] = dp
  <2>1. a.spBusy[m[1]]
    BY <1>4 DEF Locked
  <2>2. a.txBusy[m[2]] /\ m[1] = a.txServing[m[2]]
    BY <1>2, <2>1
  <2>3. \A d, e \in Ports :
          (a.txBusy[d] /\ a.txBusy[e] /\ a.txServing[d] = a.txServing[e]) => d = e
    BY DEF Locked
  <2>4. m[2] \in Ports /\ a.txServing[m[2]] = a.txServing[dp]
    BY <1>2, <1>4, <2>2
  <2> QED
    BY <1>4, <2>2, <2>3, <2>4
\* Where the destinations under way after the call come from.
<1>5. ASSUME NEW dp \in Ports, b.txBusy[dp]
      PROVE  \/ \E m \in sends \ ending : m[2] = dp /\ m[1] = b.txServing[dp]
             \/ /\ a.txBusy[dp] /\ b.txServing[dp] = a.txServing[dp]
                /\ \A m \in sends : m[2] # dp /\ m[1] # a.txServing[dp]
  <2>1. CASE \E m \in sends : m[2] = dp
    BY <1>1, <1>5, <2>1
  <2>2. CASE \A m \in sends : m[2] # dp
    <3>1. a.txBusy[dp] /\ b.txServing[dp] = a.txServing[dp]
      BY <1>1, <1>5, <2>2
    <3> QED
      BY <1>4, <2>2, <3>1
  <2> QED
    BY <2>1, <2>2
<1>6. ASSUME NEW dp \in Ports, b.txBusy[dp]
      PROVE  b.spBusy[b.txServing[dp]]
  <2>1. CASE \E m \in sends \ ending : m[2] = dp /\ m[1] = b.txServing[dp]
    BY <1>1, <2>1
  <2>2. CASE /\ a.txBusy[dp] /\ b.txServing[dp] = a.txServing[dp]
             /\ \A m \in sends : m[2] # dp /\ m[1] # a.txServing[dp]
    <3>1. a.spBusy[a.txServing[dp]]
      BY <2>2 DEF Locked
    <3> QED
      BY <1>1, <1>3, <2>2, <3>1
  <2> QED
    BY <1>5, <1>6, <2>1, <2>2
<1>7. ASSUME NEW sp \in Ports, b.spBusy[sp]
      PROVE  \E dp \in Ports : b.txBusy[dp] /\ b.txServing[dp] = sp
  <2>1. CASE \E m \in sends : m[1] = sp
    <3>1. PICK m \in sends : m[1] = sp
      BY <2>1
    <3>2. m \in sends \ ending
      BY <1>1, <1>7, <3>1
    <3> QED
      BY <1>1, <1>2, <3>1, <3>2
  <2>2. CASE \A m \in sends : m[1] # sp
    <3>1. a.spBusy[sp]
      BY <1>1, <1>7, <2>2
    <3>2. PICK dp \in Ports : a.txBusy[dp] /\ a.txServing[dp] = sp
      BY <3>1 DEF Locked
    <3>3. \A m \in sends : m[2] # dp
      BY <1>2, <2>2, <3>2
    <3> QED
      BY <1>1, <3>2, <3>3
  <2> QED
    BY <2>1, <2>2
<1>8. ASSUME NEW d \in Ports, NEW e \in Ports, b.txBusy[d], b.txBusy[e],
             b.txServing[d] = b.txServing[e]
      PROVE  d = e
  <2>1. CASE \E m \in sends \ ending : m[2] = d /\ m[1] = b.txServing[d]
    BY <1>2, <1>5, <1>8, <2>1
  <2>2. CASE \A m \in sends \ ending : ~(m[2] = d /\ m[1] = b.txServing[d])
    <3>1. /\ a.txBusy[d] /\ b.txServing[d] = a.txServing[d]
          /\ \A m \in sends : m[2] # d /\ m[1] # a.txServing[d]
      BY <1>5, <1>8, <2>2
    <3>2. \A m \in sends \ ending : ~(m[2] = e /\ m[1] = b.txServing[e])
      BY <1>8, <3>1
    <3>3. a.txBusy[e] /\ b.txServing[e] = a.txServing[e]
      BY <1>5, <1>8, <3>2
    <3> QED
      BY <1>8, <3>1, <3>3 DEF Locked
  <2> QED
    BY <2>1, <2>2
<1> QED
  BY <1>6, <1>7, <1>8 DEF Locked

(* The pointers of the round robin all move by one, so they stay apart. *)
LEMMA ApartKept ==
  ASSUME NEW a \in Registers, a.kind = "RoundRobin", Apart(a), NEW ready,
         NEW sends, NEW ending
  PROVE  Apart(AfterSends(a, ready, sends, ending))
<1>1. \A p, q \in Ports : Succ(p) = Succ(q) => p = q
  BY PortsAssumption DEF Succ, Ports
<1>2. \A dp \in Ports : a.txNext[dp] \in Ports
  BY DEF Registers
<1>3. \A dp \in Ports : AfterSends(a, ready, sends, ending).txNext[dp] = Succ(a.txNext[dp])
  BY DEF AfterSends, TxNext
<1> QED
  BY <1>1, <1>2, <1>3 DEF Apart
===============================================================================
