------------------------------ MODULE HlsService ------------------------------
(***************************************************************************)
(* The arbiters of the hardware schedulers over queues that never run out  *)
(* of memory: packets of PacketWords words keep arriving word by word, for *)
(* one port or for all others, as scheduler.cpp digests them.  The memory  *)
(* itself is HlsScheduler's.                                               *)
(***************************************************************************)
EXTENDS HlsArbiters

CONSTANTS
  PacketWords,
  Cap           \* bound: the longest queue, in packets

ASSUME HlsServiceAssumption == PacketWords \in Nat \ {0} /\ Cap \in Nat \ {0}

VARIABLES
  arb,      \* the registers of the arbiter
  queued,   \* queued[sp][dp]: the words in voq[sp][dp]
  sent,     \* sent[sp][dp]: the words sent of the packet voq[sp][dp] is at
  closed,   \* no more packets arrive
  moved     \* the pairs that moved a word in the last call

vars == <<arb, queued, sent, closed, moved>>

Pairs == Ports \X Ports

TypeOK ==
  /\ arb \in Registers
  /\ queued \in [Pairs -> 0 .. Cap * PacketWords]
  /\ sent \in [Pairs -> 0 .. PacketWords - 1]
  /\ closed \in BOOLEAN
  /\ moved \in SUBSET Pairs

Init ==
  /\ \E kind \in Arbiters : arb = AfterReset(kind)
  /\ queued = [m \in Pairs |-> 0]
  /\ sent = [m \in Pairs |-> 0]
  /\ closed = FALSE
  /\ moved = {}

Close ==
  /\ ~closed
  /\ closed' = TRUE
  /\ UNCHANGED <<arb, queued, sent, moved>>

(* The ports the packet is for that source sp is in the middle of; none    *)
(* while digest_states[sp] is IDLE.                                        *)
Underway(sp) == {dp \in Ports : (sent[sp, dp] + queued[sp, dp]) % PacketWords # 0}

Masks(sp) == {{dp} : dp \in Ports} \cup {Ports \ {sp}}

(* The ports the next word of source sp may be for; {} if none is digested *)
(* in this call.  What a packet still lacks when the traffic ends comes    *)
(* without a gap.                                                          *)
MayDigest(sp) ==
  IF Underway(sp) # {} THEN {Underway(sp)} \cup (IF closed THEN {} ELSE {{}})
  ELSE {{}} \cup {M \in Masks(sp) :
                    ~closed /\ \A dp \in M : queued[sp, dp] <= (Cap - 1) * PacketWords}

Digests == {d \in [Ports -> SUBSET Ports] : \A sp \in Ports : d[sp] \in MayDigest(sp)}

Ready == {m \in Pairs : queued[m] > 0}

(* One call: what it sends is decided by the queues as they are before its *)
(* digest.                                                                 *)
Call ==
  \E sends \in {Sends(arb, Ready)}, digest \in Digests :
    /\ moved' = sends
    /\ queued' = [m \in Pairs |-> queued[m] + (IF m[2] \in digest[m[1]] THEN 1 ELSE 0)
                                            - (IF m \in sends THEN 1 ELSE 0)]
    /\ sent' = [m \in Pairs |-> IF m \notin sends THEN sent[m]
                                ELSE IF sent[m] = PacketWords - 1 THEN 0
                                ELSE sent[m] + 1]
    /\ arb' = AfterSends(arb, Ready, sends, {m \in sends : sent[m] = PacketWords - 1})
    /\ UNCHANGED closed

Next == Close \/ Call

(* The hardware calls the scheduler for ever. *)
Spec == Init /\ [][Next]_vars
FairSpec == Spec /\ WF_vars(Call)

-------------------------------------------------------------------------------
(* Packets hold their source and destination for each other. *)
PacketsLocked == Locked(arb)

(* Under round robin no destination overrules another: asked[sp] is written *)
(* at most once in a call.                                                  *)
NobodyOverrules == arb.kind = "RoundRobin" => NobodyOverruled(arb)

(* A call is a matching: a source sends to one destination, and a          *)
(* destination takes from one source.                                      *)
CallsMatch == \A m, n \in moved : (m[1] = n[1] \/ m[2] = n[2]) => m = n

(* Between two words of a packet its destination starts on no packet of    *)
(* another source, and its source on none for another destination: at most *)
(* one packet per port is sent in part.                                    *)
NoInterleaving ==
  \A m, p \in Pairs :
    (sent[m] # 0 /\ sent[p] # 0 /\ (m[1] = p[1] \/ m[2] = p[2])) => m = p

(* Once the traffic ends the queues run empty. *)
HlsDrains == closed ~> \A m \in Pairs : queued[m] = 0
===============================================================================
