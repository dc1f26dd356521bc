----------------------------- MODULE MCSwitchCore -----------------------------
(* SwitchCore with two ports. *)
EXTENDS SwitchCore

CONSTANT Bursts   \* packets that wait in the RX queues when a run starts

MCVoqSize == [c \in Ports \X Ports |-> IF c[2] = 0 THEN 2 ELSE 5]
LargeVoqSize == [c \in Ports \X Ports |-> 16]

NoRoutes == <<>>

(* Any host behind any port sends packets of two and of three words to any *)
(* host or to all of them.                                                 *)
AnyToAny == [in : Ports, src : Addrs, dst : Addrs \cup {All}, words : {2, 3}]

(* Each host stays behind one port, where the switch has to learn that it *)
(* is: of two addresses the hash files in one slot, one is not behind the  *)
(* port an address the tables do not hold is sent to.                      *)
Settled == {pkt \in AnyToAny : pkt.in = (IF pkt.src = 0 THEN 1 ELSE 0)}

(* Packets of one word, back to back. *)
OneWord == [in : {0}, src : {0}, dst : {1}, words : {1}]

Packet(i, o, words) == [in |-> i, src |-> i, dst |-> o, words |-> words]
ShortPackets == {Packet(i, o, 2) : i, o \in Ports}
Mixed(words) == ShortPackets \cup {Packet(0, 1, words)}

(* Five short packets, or four and then two that may be long: up to the    *)
(* seven words that fit between two dispatches of iSLIP, or beyond.        *)
MixedBursts(words) ==
  {<<Packet(0, 0, 2), Packet(0, 1, 2), Packet(1, 0, 2), Packet(1, 1, 2), p, q>> :
     p, q \in Mixed(words)}
FittingTraffic == Mixed(7)
FittingBursts == [1 .. 5 -> ShortPackets] \cup MixedBursts(7)
OverlongTraffic == Mixed(8)
OverlongBursts == MixedBursts(8)

WordsFrom(burst, p) ==
  LET mine == SelectSeq([n \in DOMAIN burst |-> n], LAMBDA n : burst[n].in = p)
  IN FoldLeft(LAMBDA acc, n : acc \o [k \in 1 .. burst[n].words |-> <<n, k>>], <<>>, mine)

BurstInit ==
  \E burst \in Bursts :
    /\ received = burst
    /\ rx = [p \in Ports |-> [IdleRx[p] EXCEPT !.inq = WordsFrom(burst, p)]]
    /\ RestInit

(* The burst is all there is, until a reset. *)
BurstNext == Cycle \/ ResetSwitch
BurstSpec == BurstInit /\ [][BurstNext]_coreVars
FairBurstSpec == BurstSpec /\ WF_coreVars(Cycle)
===============================================================================
