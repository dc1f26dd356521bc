------------------------------ MODULE SwitchCore ------------------------------
(***************************************************************************)
(* One switch of the cycle-accurate simulator: the pipeline                *)
(*   input -> RX engines -> hash engine -> VOQ buffer -> scheduler -> out  *)
(* of simulator/src/switch_core.py, one action per stage method of         *)
(* process_cycle, over the engines of rx_engine.py and hash_engine.py, the *)
(* buffer of VoqBuffer and the matchings of PortSchedulers.                *)
(*                                                                         *)
(* A packet is its number in the order of arrival; its k-th bus word is    *)
(* the pair <<packet, k>>.  An item is what the stages hand on: the input  *)
(* port, the packet whose header gave the metadata, and the data words.    *)
(***************************************************************************)
EXTENDS VoqBuffer, SequencesExt

CONSTANTS
  Addrs,          \* host addresses
  HashType,       \* "FullLookupTable" or "MultiBankHash"
  HashSize,       \* 2^hash_bits
  Routes,         \* the static routing table: address -> port
  SchedulerType,  \* "RoundRobin", "EDRRM" or "iSLIP"
  CyclesPerWord,  \* bus cycles of 64 bytes, which a handover counts per word: 1 at 512 bits
  RxLatency, HashLatency, HashII, SchedLatency, SchedII,
  Traffic,        \* the packets that may arrive
  MaxPackets      \* bound: how many do

S == INSTANCE PortSchedulers

All == -1   \* the destination of a broadcast packet

ASSUME CoreAssumption ==
  /\ Addrs \subseteq Nat
  /\ \A a \in DOMAIN Routes : a \in Addrs /\ Routes[a] \in Ports
  /\ HashType \in {"FullLookupTable", "MultiBankHash"}
  /\ SchedulerType \in S!SchedulerTypes
  /\ {HashSize, CyclesPerWord, RxLatency, HashLatency, HashII, SchedLatency, SchedII}
       \subseteq Nat \ {0}
  /\ Traffic \subseteq [in : Ports, src : Addrs, dst : Addrs \cup {All}, words : Nat \ {0}]
  /\ MaxPackets \in Nat

VARIABLES
  received,      \* the packets that have arrived
  stage,         \* the stage method that runs next
  rx,            \* per port: the RX engine and the pipeline state around it
  rxToHash, hashToBuffer,
  hash,          \* pipeline state of the hash engine
  fwd,           \* the forwarding table: key -> learned address and port
  sched,         \* pipeline state and pointers of the scheduler
  out,           \* per port: the copy on the wire
  offeredAs,     \* history: the item offered to the buffer under each number
  taken,         \* history: copies the buffer took, <<number, input, output>>
  sent,          \* history: copies transmitted
  resent         \* history: copies transmitted more than once

pipeline == <<rx, rxToHash, hashToBuffer, hash, fwd, sched, out>>
history == <<offeredAs, taken, sent, resent>>
coreVars == <<vars, received, stage, pipeline, history>>

(* What a handover between stages occupies the sender for; an output takes *)
(* one cycle for a word whatever the width of the bus.                     *)
Cycles(words) == words * CyclesPerWord
Meta(item) == received[item.meta]
IsLast(word) == word[2] = received[word[1]].words
WordsOf(p) == [k \in 1 .. received[p].words |-> <<p, k>>]

NoItem == [in |-> 0, meta |-> 0, data |-> <<>>]
NoEntry == [id |-> 0, words |-> 0]

IdleRx == [p \in Ports |-> [inq |-> <<>>, metas |-> <<>>, consuming |-> FALSE,
                            phase |-> "idle", left |-> 0, item |-> NoItem, complete |-> FALSE]]
IdleHash == [phase |-> "idle", left |-> 0, item |-> NoItem, ii |-> 0, engine |-> 0]
IdleScheduler == [phase |-> "idle", left |-> 0, list |-> {}, ii |-> 0,
                  inPtr |-> [p \in Ports |-> 0], outPtr |-> [p \in Ports |-> 0]]
IdleOutputs == [p \in Ports |-> [entry |-> NoEntry, left |-> 0]]

(* Everything behind the RX queues is empty. *)
RestInit ==
  /\ Init
  /\ stage = <<"rest", 0>>
  /\ rxToHash = <<>>
  /\ hashToBuffer = <<>>
  /\ hash = IdleHash
  /\ fwd = <<>>
  /\ sched = IdleScheduler
  /\ out = IdleOutputs
  /\ offeredAs = <<>>
  /\ taken = {}
  /\ sent = {}
  /\ resent = {}

CoreInit ==
  /\ received = <<>>
  /\ rx = IdleRx
  /\ RestInit

-------------------------------------------------------------------------------
(* Between cycles. *)

Backlog == \E i, o \in Ports : voq[i][o] # <<>>

(* has_pending_work; without its last clause, a mutant of it. *)
HasInnerWork ==
  \/ \E p \in Ports : rx[p].inq # <<>> \/ rx[p].phase \in {"processing", "ready"}
  \/ hash.phase # "idle"
  \/ sched.phase # "idle"
  \/ rxToHash # <<>>
  \/ hashToBuffer # <<>>
  \/ Backlog

HasPendingWork ==
  \/ HasInnerWork
  \/ \E o \in Ports : out[o].entry # NoEntry

(* reset: all engines, queues, tables, pipeline states and counters start  *)
(* afresh, and with them the numbers of the packets.                       *)
ResetSwitch ==
  /\ stage = <<"rest", 0>>
  /\ rx' = IdleRx
  /\ hash' = IdleHash
  /\ sched' = IdleScheduler
  /\ out' = IdleOutputs
  /\ voq' = [i \in Ports |-> [o \in Ports |-> <<>>]]
  /\ used' = [c \in Cells |-> 0] /\ peak' = [c \in Cells |-> 0]
  /\ stats' = [k \in Counters |-> 0]
  /\ received' = <<>> /\ rxToHash' = <<>> /\ hashToBuffer' = <<>> /\ fwd' = <<>>
  /\ offered' = 0 /\ request' = <<>> /\ offeredAs' = <<>> /\ taken' = {} /\ sent' = {} /\ resent' = {}
  /\ UNCHANGED <<bufferType, stage>>

(* receive_packet: the words of a packet join the queue of its RX engine. *)
ReceivePacket(pkt) ==
  /\ stage = <<"rest", 0>>
  /\ Len(received) < MaxPackets
  /\ received' = Append(received, pkt)
  /\ rx' = [rx EXCEPT ![pkt.in].inq =
              @ \o [k \in 1 .. pkt.words |-> <<Len(received) + 1, k>>]]
  /\ UNCHANGED <<vars, stage, rxToHash, hashToBuffer, hash, fwd, sched, out, history>>

(* _tick_all_modules, which opens a cycle.  The simulator runs one only    *)
(* while has_pending_work.                                                 *)
Ticked(s) ==
  IF s.phase = "sending"
  THEN [s EXCEPT !.left = @ - 1, !.phase = IF s.left <= 1 THEN "idle" ELSE @]
  ELSE s

TickAllModules ==
  /\ stage = <<"rest", 0>>
  /\ HasPendingWork
  /\ stage' = <<"rx", 0>>
  /\ rx' = [p \in Ports |-> Ticked(rx[p])]
  /\ hash' = [Ticked(hash) EXCEPT !.ii = MaxOf(0, @ - 1)]
  /\ sched' = [sched EXCEPT !.ii = MaxOf(0, @ - 1)]
  /\ UNCHANGED <<vars, received, rxToHash, hashToBuffer, fwd, out, history>>

-------------------------------------------------------------------------------
(* _process_rx_stage. *)

(* RxEngine.process_cycle: one word.  A header leaves its metadata behind. *)
Parsed(r) ==
  LET word == Head(r.inq)
  IN [r EXCEPT !.inq = Tail(@),
               !.metas = IF r.consuming THEN @ ELSE Append(@, word[1]),
               !.consuming = ~IsLast(word)]

(* Mutant of CompleteIfDone: the latency over, the packet is handed on. *)
CompleteInTime(r) == IF r.left = 0 THEN [r EXCEPT !.phase = "ready"] ELSE r

CompleteIfDone(r) ==
  IF r.left = 0 /\ r.complete THEN [r EXCEPT !.phase = "ready"] ELSE r

(* Collecting the words of a packet: the stage takes a word whenever there *)
(* is one, whether or not the packet is complete, and not its metadata.    *)
RxProcessing(r) ==
  LET word == Head(r.inq)
      fed  == IF r.inq = <<>> THEN r
              ELSE [Parsed(r) EXCEPT !.item.data = Append(@, word),
                                     !.complete = @ \/ IsLast(word)]
  IN CompleteIfDone([fed EXCEPT !.left = MaxOf(0, @ - 1)])

(* Starting on a packet; the oldest metadata is taken and the others are   *)
(* dropped, and a word that comes with no metadata is lost.                *)
RxStart(p, r) ==
  LET word == Head(r.inq)
      next == Parsed(r)
  IN IF next.metas = <<>> THEN next
     ELSE CompleteIfDone(
            [next EXCEPT !.phase = "processing", !.left = RxLatency - 1, !.metas = <<>>,
                         !.item = [in |-> p, meta |-> Head(next.metas), data |-> <<word>>],
                         !.complete = IsLast(word)])

RxStep(p, r) ==
  CASE r.phase = "ready" /\ hash.ii = 0 ->
         [r EXCEPT !.phase = "sending", !.left = Cycles(Len(r.item.data)), !.item = NoItem]
    [] r.phase = "processing" -> RxProcessing(r)
    [] r.phase = "idle" /\ r.inq # <<>> -> RxStart(p, r)
    [] OTHER -> r

(* The ports of a set in the order in which the loop comes to them. *)
Ascending(ports) ==
  {s \in [1 .. Cardinality(ports) -> ports] : \A j, k \in DOMAIN s : j < k => s[j] < s[k]}

ProcessRxStage ==
  LET handing == {p \in Ports : rx[p].phase = "ready" /\ hash.ii = 0}
  IN /\ stage = <<"rx", 0>>
     /\ stage' = <<"hash", 0>>
     /\ rx' = [p \in Ports |-> RxStep(p, rx[p])]
     /\ \E s \in Ascending(handing) :
          rxToHash' = rxToHash \o [k \in DOMAIN s |-> rx[s[k]].item]
     /\ UNCHANGED <<vars, received, hashToBuffer, hash, fwd, sched, out, history>>

-------------------------------------------------------------------------------
(* _process_hash_stage and process_metadata of the two hash engines.       *)

(* Where the tables file an address.  The lookup table has a slot for each *)
(* address, a bank of the hash a slot for each residue.                    *)
Key(a) == IF HashType = "FullLookupTable" THEN <<0, a>>
                                          ELSE <<a % NumPorts, a % HashSize>>

(* The multi-bank hash does not learn from a broadcast. *)
Learns(pkt) == HashType = "FullLookupTable" \/ pkt.dst # All

(* Mutant of Learned: an address once learned stays where it was. *)
LearnedOnce(pkt) ==
  IF Learns(pkt)
  THEN [k \in DOMAIN fwd \cup {Key(pkt.src)} |->
          IF k \in DOMAIN fwd THEN fwd[k] ELSE [addr |-> pkt.src, port |-> pkt.in]]
  ELSE fwd

Learned(pkt) ==
  IF Learns(pkt)
  THEN [k \in DOMAIN fwd \cup {Key(pkt.src)} |->
          IF k = Key(pkt.src) THEN [addr |-> pkt.src, port |-> pkt.in] ELSE fwd[k]]
  ELSE fwd

(* A static route comes first; the multi-bank hash is given the routes and *)
(* ignores them.                                                           *)
HasRoute(dst) == HashType = "FullLookupTable" /\ dst \in DOMAIN Routes

(* An address the table does not hold goes to port (address % ports). *)
LookUp(table, dst) ==
  IF dst = All THEN Broadcast
  ELSE IF HasRoute(dst) THEN Routes[dst]
  ELSE IF Key(dst) \in DOMAIN table /\ table[Key(dst)].addr = dst
       THEN table[Key(dst)].port
       ELSE dst % NumPorts

WithPort(item, port) ==
  [in |-> item.in, meta |-> item.meta, data |-> item.data, port |-> port]

(* The engine itself refuses HashII - 1 calls after each packet it served; *)
(* the packet stays at the head of the queue.                              *)
HashAcceptFrom(item, rest) ==
  LET pkt   == [Meta(item) EXCEPT !.in = item.in]
      table == Learned(pkt)
  IN /\ hash.phase = "idle" /\ rxToHash # <<>> /\ hash.ii = 0
     /\ UNCHANGED hashToBuffer
     /\ IF hash.engine > 0
        THEN /\ hash' = [hash EXCEPT !.engine = @ - 1]
             /\ UNCHANGED <<rxToHash, fwd>>
        ELSE /\ hash' = [phase  |-> IF HashLatency = 1 THEN "ready" ELSE "processing",
                         left   |-> HashLatency - 1,
                         item   |-> WithPort(item, LookUp(table, pkt.dst)),
                         ii     |-> HashII,
                         engine |-> HashII - 1]
             /\ rxToHash' = rest
             /\ fwd' = table

(* Mutant of HashAccept: the youngest packet is served first. *)
HashAcceptYoungest == HashAcceptFrom(Last(rxToHash), Front(rxToHash))

HashAccept == HashAcceptFrom(Head(rxToHash), Tail(rxToHash))

HashProcess ==
  /\ hash.phase = "processing"
  /\ hash' = [hash EXCEPT !.left = @ - 1,
                          !.phase = IF hash.left = 1 THEN "ready" ELSE @]
  /\ UNCHANGED <<rxToHash, hashToBuffer, fwd>>

HashSend ==
  /\ hash.phase = "ready"
  /\ hashToBuffer' = Append(hashToBuffer, hash.item)
  /\ hash' = [hash EXCEPT !.phase = "sending", !.left = Cycles(Len(hash.item.data)),
                          !.item = NoItem]
  /\ UNCHANGED <<rxToHash, fwd>>

HashWait ==
  /\ \/ hash.phase = "sending"
     \/ hash.phase = "idle" /\ (rxToHash = <<>> \/ hash.ii > 0)
  /\ UNCHANGED <<hash, rxToHash, hashToBuffer, fwd>>

ProcessHashStage ==
  /\ stage = <<"hash", 0>>
  /\ stage' = <<"buffer", 0>>
  /\ HashAccept \/ HashProcess \/ HashSend \/ HashWait
  /\ UNCHANGED <<vars, received, rx, sched, out, history>>

-------------------------------------------------------------------------------
(* _process_buffer_enqueue: at most one packet in a cycle. *)
ProcessBufferEnqueue ==
  /\ stage = <<"buffer", 0>>
  /\ stage' = <<"scheduler", 0>>
  /\ IF hashToBuffer = <<>>
     THEN UNCHANGED <<vars, hashToBuffer, offeredAs, taken>>
     ELSE LET item == Head(hashToBuffer)
              copies == {<<offered + 1, item.in, o>> : o \in OutputPorts(item.in, item.port)}
          IN /\ EnqueuePacket(item.in, item.port, Len(item.data))
             /\ hashToBuffer' = Tail(hashToBuffer)
             /\ offeredAs' = Append(offeredAs, item)
             /\ taken' = IF HasRoom(item.in, item.port, Len(item.data))
                         THEN taken \cup copies ELSE taken
  /\ UNCHANGED <<received, rx, rxToHash, hash, fwd, sched, out, sent, resent>>

-------------------------------------------------------------------------------
(* _process_scheduler_stage. *)
Lengths == [i \in Ports |-> [o \in Ports |-> Len(voq[i][o])]]

(* Mutant of DequeueMatches: the youngest entry leaves the queue. *)
DequeueYoungestMatches(matches) ==
  /\ voq' = [i \in Ports |-> [o \in Ports |->
               IF <<i, o>> \in matches THEN SubSeq(voq[i][o], 1, Len(voq[i][o]) - 1)
                                       ELSE voq[i][o]]]
  /\ UNCHANGED <<bufferType, used, peak, stats, offered, request>>

(* process_matches: dequeue_packet of every match; no two share an output, *)
(* and so no two share a memory cell.                                      *)
DequeueMatches(matches) ==
  LET Freed(c) == {m \in matches : Cell(m[1], m[2]) = c}
      WordsFreed(c) == LET m == CHOOSE m \in Freed(c) : TRUE
                       IN Head(voq[m[1]][m[2]]).words
  IN /\ voq' = [i \in Ports |-> [o \in Ports |->
                  IF <<i, o>> \in matches THEN Tail(voq[i][o]) ELSE voq[i][o]]]
     /\ used' = [c \in Cells |-> IF Freed(c) = {} THEN used[c]
                                 ELSE MaxOf(0, used[c] - WordsFreed(c))]
     /\ stats' = [stats EXCEPT !["dequeued"] = @ + Cardinality(matches),
                               !["occupancy"] = @ - Cardinality(matches)]
     /\ UNCHANGED <<bufferType, peak, offered, request>>

Schedule ==
  LET matches == S!Matches(SchedulerType, Lengths, sched.inPtr, sched.outPtr)
  IN /\ sched.phase = "idle" /\ Backlog /\ sched.ii = 0
     /\ DequeueMatches(matches)
     /\ sched' = [phase  |-> IF SchedLatency = 1 THEN "ready" ELSE "processing",
                  left   |-> SchedLatency - 1,
                  list   |-> {[port |-> m[2], entry |-> Head(voq[m[1]][m[2]])] : m \in matches},
                  ii     |-> SchedII,
                  inPtr  |-> S!InPointers(SchedulerType, Lengths, sched.inPtr, matches),
                  outPtr |-> S!OutPointers(SchedulerType, Lengths, sched.outPtr, matches)]
     /\ UNCHANGED out

ScheduleProcess ==
  /\ sched.phase = "processing"
  /\ sched' = [sched EXCEPT !.left = @ - 1,
                            !.phase = IF sched.left = 1 THEN "ready" ELSE @]
  /\ UNCHANGED <<vars, out>>

(* Mutant of Dispatch: the list is not cleared. *)
DispatchAndKeep ==
  LET idle == {t \in sched.list : out[t.port].entry = NoEntry}
      Load(t) == [entry |-> t.entry, left |-> t.entry.words]
  IN /\ sched.phase = "ready"
     /\ out' = [o \in Ports |-> IF \E t \in idle : t.port = o
                                THEN Load(CHOOSE t \in idle : t.port = o) ELSE out[o]]
     /\ UNCHANGED <<vars, sched>>

(* Every idle output is loaded; the list is kept whole, entries already    *)
(* loaded included, unless every output of it was idle.                    *)
Dispatch ==
  LET idle == {t \in sched.list : out[t.port].entry = NoEntry}
      Load(t) == [entry |-> t.entry, left |-> t.entry.words]
  IN /\ sched.phase = "ready"
     /\ out' = [o \in Ports |-> IF \E t \in idle : t.port = o
                                THEN Load(CHOOSE t \in idle : t.port = o) ELSE out[o]]
     /\ sched' = IF idle = sched.list
                 THEN [sched EXCEPT !.phase = "idle", !.list = {}] ELSE sched
     /\ UNCHANGED vars

ScheduleWait ==
  /\ sched.phase = "idle" /\ (~Backlog \/ sched.ii > 0)
  /\ UNCHANGED <<vars, sched, out>>

ProcessSchedulerStage ==
  /\ stage = <<"scheduler", 0>>
  /\ stage' = <<"output", 0>>
  /\ Schedule \/ ScheduleProcess \/ Dispatch \/ ScheduleWait
  /\ UNCHANGED <<received, rx, rxToHash, hashToBuffer, hash, fwd, history>>

-------------------------------------------------------------------------------
(* _process_output_stage, one port after the other, and the end of the     *)
(* cycle after the last.                                                   *)
Copy(entry, o) == <<entry.id, offeredAs[entry.id].in, o>>
CopyOn(o) == Copy(out[o].entry, o)

Transmit(o) ==
  /\ out[o].entry # NoEntry /\ out[o].left <= 1
  /\ out' = [out EXCEPT ![o] = [entry |-> NoEntry, left |-> 0]]
  /\ sent' = sent \cup {CopyOn(o)}
  /\ resent' = IF CopyOn(o) \in sent THEN resent \cup {CopyOn(o)} ELSE resent

Transfer(o) ==
  /\ out[o].entry # NoEntry /\ out[o].left > 1
  /\ out' = [out EXCEPT ![o].left = @ - 1]
  /\ UNCHANGED <<sent, resent>>

ProcessOutputStage(o) ==
  /\ stage = <<"output", o>>
  /\ stage' = IF o = NumPorts - 1 THEN <<"rest", 0>> ELSE <<"output", o + 1>>
  /\ \/ Transmit(o)
     \/ Transfer(o)
     \/ out[o].entry = NoEntry /\ UNCHANGED <<out, sent, resent>>
  /\ UNCHANGED <<vars, received, rx, rxToHash, hashToBuffer, hash, fwd, sched, offeredAs, taken>>

Cycle ==
  \/ TickAllModules
  \/ ProcessRxStage
  \/ ProcessHashStage
  \/ ProcessBufferEnqueue
  \/ ProcessSchedulerStage
  \/ \E o \in Ports : ProcessOutputStage(o)

CoreNext ==
  \/ \E pkt \in Traffic : ReceivePacket(pkt)
  \/ ResetSwitch
  \/ Cycle

CoreSpec == CoreInit /\ [][CoreNext]_coreVars

(* A cycle runs to its end, and the simulator's event loop runs another    *)
(* one for as long as has_pending_work.                                    *)
FairCoreSpec == CoreSpec /\ WF_coreVars(Cycle)

-------------------------------------------------------------------------------
(* Type invariant of the pipeline. *)
Words == (1 .. MaxPackets) \X (Nat \ {0})
Items == [in : Ports, meta : 0 .. MaxPackets, data : Seq(Words)]
Routed == [in : Ports, meta : 1 .. MaxPackets, data : Seq(Words), port : Ports \cup {Broadcast}]
Phases == {"idle", "processing", "ready", "sending"}

CoreTypeOK ==
  /\ TypeOK
  /\ received \in Seq(Traffic)
  /\ \A p \in Ports :
       /\ rx[p].inq \in Seq(Words) /\ rx[p].metas \in Seq(1 .. MaxPackets)
       /\ rx[p].consuming \in BOOLEAN /\ rx[p].complete \in BOOLEAN
       /\ rx[p].phase \in Phases /\ rx[p].left \in Nat /\ rx[p].item \in Items
  /\ rxToHash \in Seq(Items)
  /\ hashToBuffer \in Seq(Routed)
  /\ hash.phase \in Phases /\ hash.left \in Nat /\ hash.ii \in 0 .. HashII
  /\ hash.engine \in 0 .. HashII - 1
  /\ \A k \in DOMAIN fwd : fwd[k] \in [addr : Addrs, port : Ports] /\ k = Key(fwd[k].addr)
  /\ sched.phase \in Phases \ {"sending"} /\ sched.left \in Nat /\ sched.ii \in 0 .. SchedII
  /\ sched.inPtr \in [Ports -> Ports] /\ sched.outPtr \in [Ports -> Ports]
  /\ sched.list \subseteq [port : Ports, entry : Entry]
  /\ \A o \in Ports : out[o].entry \in Entry \cup {NoEntry} /\ out[o].left \in Nat
  /\ offeredAs \in Seq(Routed) /\ Len(offeredAs) = offered

(* The RX engines put every packet back together: what reaches the buffer  *)
(* is one packet, with its own header's metadata and all of its words,     *)
(* however the words of back-to-back packets fall into the cycles.         *)
PacketsIntact ==
  \A n \in 1 .. offered :
    /\ offeredAs[n].data = WordsOf(offeredAs[n].meta)
    /\ offeredAs[n].in = Meta(offeredAs[n]).in

(* Two queues and four stages keep the packets of an input in order, and   *)
(* none is offered to the buffer twice.                                    *)
ArrivalOrder ==
  \A m, n \in 1 .. offered :
    (m < n /\ offeredAs[m].in = offeredAs[n].in) => offeredAs[m].meta < offeredAs[n].meta

(* Where the copies are between the buffer and the wire. *)
InSwitch ==
  Pending \cup {Copy(t.entry, t.port) : t \in sched.list}
          \cup {Copy(out[o].entry, o) : o \in {p \in Ports : out[p].entry # NoEntry}}

(* No copy is put on the wire twice, although the scheduler keeps a list   *)
(* of dequeued copies that it may dispatch only in part.                   *)
SentOnce == resent = {}

(* A copy the buffer took is still in the switch or has been transmitted,  *)
(* and never both: none is overwritten on its way through the scheduler's  *)
(* list and the output ports, and none is invented.                        *)
CopiesConserved ==
  /\ taken = InSwitch \cup sent
  /\ InSwitch \cap sent = {}

(* has_pending_work, which decides whether another cycle is run, answers   *)
(* FALSE only when every packet received has been offered to the buffer    *)
(* and every copy the buffer took has been transmitted.                    *)
QuiescentIsDone ==
  (stage = <<"rest", 0>> /\ ~HasPendingWork)
    => /\ InSwitch = {}
       /\ offered = Len(received)
       /\ \A p \in Ports : rx[p].metas = <<>> /\ ~rx[p].consuming

(* A unicast packet leaves for the port its destination was last learned   *)
(* on, unless another address has taken its slot of the table since; until *)
(* it is learned, for port (address % ports).  The packet's own source is  *)
(* learned before its destination is looked up.  (Static routes win.)      *)
Holders(n) ==
  {m \in 1 .. n : /\ Learns(Meta(offeredAs[m]))
                  /\ Key(Meta(offeredAs[m]).src) = Key(Meta(offeredAs[n]).dst)}

GoesWhereLastSeen ==
  \A n \in 1 .. offered :
    (Meta(offeredAs[n]).dst # All /\ ~HasRoute(Meta(offeredAs[n]).dst)) =>
      LET dst  == Meta(offeredAs[n]).dst
          last == CHOOSE m \in Holders(n) : \A k \in Holders(n) : k <= m
      IN offeredAs[n].port =
           IF Holders(n) # {} /\ Meta(offeredAs[last]).src = dst
           THEN offeredAs[last].in ELSE dst % NumPorts

(* Behind the lookup the switch is an ordered multicast, reset or not: a   *)
(* packet is taken for all the outputs it was looked up for or for none,   *)
(* and a copy is owed until its last word is on the wire, wherever it is.  *)
Wire == INSTANCE OrderedMulticast
          WITH Inputs <- Ports, Outputs <- Ports, pending <- InSwitch

ImplementsMulticastToWire == Wire!Init /\ [][Wire!Next]_Wire!vars

(* The switch finishes: whatever the packets on their way, no stage waits  *)
(* for another for ever, and cycles bring the switch to rest.              *)
SwitchDrains ==
  []<>(stage = <<"rest", 0>> /\ ~HasPendingWork)
===============================================================================
