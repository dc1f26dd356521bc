------------------------------ MODULE HlsArbiters ------------------------------
(***************************************************************************)
(* The output transmission of the hardware schedulers, which move a word a *)
(* call: who sends to whom.  "RoundRobin" is that of scheduler.cpp and of  *)
(* scheduler_nb1p.cpp, which is the same; "iSLIP" that of                  *)
(* scheduler_iSLIP.cpp.  A bitstream has one of them.                      *)
(*   a: the registers of the arbiter;                                      *)
(*   ready: the pairs <<source, destination>> whose queue had a word at    *)
(*          the start of the call.                                         *)
(***************************************************************************)
EXTENDS Cyclic

CONSTANT Arbiters    \* bound: those that are looked at

ASSUME ArbitersAssumption == Arbiters \subseteq {"RoundRobin", "iSLIP"}

Registers ==
  [kind      : Arbiters,            \* which of them this is
   txBusy    : [Ports -> BOOLEAN],   \* a packet to this destination is under way
   txServing : [Ports -> Ports],     \* ... from this source
   txNext    : [Ports -> Ports],     \* where a free destination looks
   spBusy    : [Ports -> BOOLEAN],   \* a packet of this source is under way
   spNext    : [Ports -> Ports]]     \* iSLIP: where a source starts to look

AfterReset(kind) ==
  [kind      |-> kind,
   txBusy    |-> [dp \in Ports |-> FALSE],
   txServing |-> [dp \in Ports |-> 0],
   txNext    |-> [dp \in Ports |-> IF kind = "iSLIP" THEN 0 ELSE dp],
   spBusy    |-> [sp \in Ports |-> FALSE],
   spNext    |-> [sp \in Ports |-> 0]]

-------------------------------------------------------------------------------
(* Round robin.  A destination asks one source: the one it is serving or   *)
(* the one its pointer is at, and the pointer moves on in every call.      *)
Source(a, dp) == IF a.txBusy[dp] THEN a.txServing[dp] ELSE a.txNext[dp]

(* Mutant of MayAsk: a free destination asks a source that is busy. *)
MayAskBusy(a, dp) == TRUE

(* Mutant of MayAsk: a destination does not get its own busy source. *)
MayAskFree(a, dp) == ~a.spBusy[Source(a, dp)]

MayAsk(a, dp) == a.txBusy[dp] \/ ~a.spBusy[Source(a, dp)]

Asks(a, ready, dp) == MayAsk(a, dp) /\ <<Source(a, dp), dp>> \in ready

(* asked[sp]: of several destinations the last one overwrites the others. *)
RRSends(a, ready) ==
  {m \in Ports \X Ports :
     /\ Asks(a, ready, m[2]) /\ m[1] = Source(a, m[2])
     /\ \A dp \in Ports : (Asks(a, ready, dp) /\ Source(a, dp) = m[1]) => dp <= m[2]}

-------------------------------------------------------------------------------
(* iSLIP.  A busy destination grants the source it serves, a free one the  *)
(* first source from its pointer that is not busy and has a word for it.   *)
Wanting(a, ready, dp) == {sp \in Ports : ~a.spBusy[sp] /\ <<sp, dp>> \in ready}

Grants(a, ready) ==
  {m \in ready :
     m[1] = IF a.txBusy[m[2]] THEN a.txServing[m[2]]
            ELSE IF Wanting(a, ready, m[2]) = {} THEN NumPorts
            ELSE FirstFrom(a.txNext[m[2]], Wanting(a, ready, m[2]))}

GrantedTo(sp, grants) == {m[2] : m \in {g \in grants : g[1] = sp}}

(* Mutant of ISlipSends: grants are not accepted by the sources first. *)
ISlipSendsGranted(a, ready) == Grants(a, ready)

(* A busy source goes on with the destination it was sending to, the last  *)
(* one if there are several; a free one accepts the first grant from its   *)
(* own pointer.                                                            *)
ISlipSends(a, ready) ==
  LET grants == Grants(a, ready)
      Ongoing(sp) == {dp \in GrantedTo(sp, grants) : a.txBusy[dp]}
  IN {m \in grants :
        IF a.spBusy[m[1]]
        THEN m[2] \in Ongoing(m[1]) /\ \A dp \in Ongoing(m[1]) : dp <= m[2]
        ELSE m[2] = FirstFrom(a.spNext[m[1]], GrantedTo(m[1], grants))}

(* The pointers move past the port found, or by one if none was; that of a *)
(* destination does not wait to see whether its grant is accepted.         *)
PassedOver(ptr, S) == Succ(IF S = {} THEN ptr ELSE FirstFrom(ptr, S))

-------------------------------------------------------------------------------
Sends(a, ready) ==
  IF a.kind = "iSLIP" THEN ISlipSends(a, ready) ELSE RRSends(a, ready)

(* Mutant of TxNext: a pointer of the round robin only moves on while its  *)
(* destination is free.                                                    *)
TxNextIdle(a, ready) ==
  [dp \in Ports |->
     IF a.txBusy[dp] THEN a.txNext[dp]
     ELSE IF a.kind = "iSLIP" THEN PassedOver(a.txNext[dp], Wanting(a, ready, dp))
     ELSE Succ(a.txNext[dp])]

TxNext(a, ready) ==
  [dp \in Ports |->
     IF a.kind # "iSLIP" THEN Succ(a.txNext[dp])
     ELSE IF a.txBusy[dp] THEN a.txNext[dp]
     ELSE PassedOver(a.txNext[dp], Wanting(a, ready, dp))]

SpNext(a, ready) ==
  LET grants == Grants(a, ready)
  IN [sp \in Ports |->
        IF a.kind # "iSLIP" \/ a.spBusy[sp] THEN a.spNext[sp]
        ELSE PassedOver(a.spNext[sp], GrantedTo(sp, grants))]

(* Mutant of TxBusy: a destination is not marked busy. *)
TxBusyNever(a, sends, ending) == a.txBusy

TxBusy(a, sends, ending) ==
  [dp \in Ports |-> IF \E m \in sends : m[2] = dp
                    THEN \E m \in sends \ ending : m[2] = dp
                    ELSE a.txBusy[dp]]

TxServing(a, sends, ending) ==
  [dp \in Ports |-> IF \E m \in sends \ ending : m[2] = dp
                    THEN (CHOOSE m \in sends \ ending : m[2] = dp)[1]
                    ELSE a.txServing[dp]]

(* Mutant of SpBusy: a source is not marked busy. *)
SpBusyNever(a, sends, ending) == a.spBusy

(* Mutant of SpBusy: a source stays busy after the last word. *)
SpBusyForever(a, sends, ending) ==
  [sp \in Ports |-> a.spBusy[sp] \/ \E m \in sends : m[1] = sp]

SpBusy(a, sends, ending) ==
  [sp \in Ports |-> IF \E m \in sends : m[1] = sp
                    THEN \E m \in sends \ ending : m[1] = sp
                    ELSE a.spBusy[sp]]

(* The registers after a call in which the pairs of `sends' move a word,   *)
(* those of `ending' the last word of a packet.                            *)
AfterSends(a, ready, sends, ending) ==
  [kind      |-> a.kind,
   txBusy    |-> TxBusy(a, sends, ending),
   txServing |-> TxServing(a, sends, ending),
   txNext    |-> TxNext(a, ready),
   spBusy    |-> SpBusy(a, sends, ending),
   spNext    |-> SpNext(a, ready)]

-------------------------------------------------------------------------------
(* A packet on its way holds its source and its destination, each for the  *)
(* other: this is what keeps the words of a packet together on the wire.   *)
Locked(a) ==
  /\ \A dp \in Ports : a.txBusy[dp] => a.spBusy[a.txServing[dp]]
  /\ \A sp \in Ports : a.spBusy[sp] => \E dp \in Ports : a.txBusy[dp] /\ a.txServing[dp] = sp
  /\ \A d, e \in Ports :
       (a.txBusy[d] /\ a.txBusy[e] /\ a.txServing[d] = a.txServing[e]) => d = e

(* No two destinations ever ask one source, so that asked[sp] is never     *)
(* overwritten and no destination loses its turn: the pointers of the      *)
(* round robin, all of which move in every call, never meet.               *)
NobodyOverruled(a) ==
  \A d, e \in Ports :
    (MayAsk(a, d) /\ MayAsk(a, e) /\ Source(a, d) = Source(a, e)) => d = e
===============================================================================
