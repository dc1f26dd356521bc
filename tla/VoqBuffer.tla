------------------------------- MODULE VoqBuffer -------------------------------
(***************************************************************************)
(* The packet buffer of the cycle-accurate simulator: a matrix of virtual  *)
(* output queues, one per (input, output) pair, over memory organised in   *)
(* one of two ways (simulator/src/buffer_voq.py):                          *)
(*   "OneBufferPerPort": all inputs share one memory per output port;      *)
(*   "NBuffersPerPort":  every (input, output) pair has its own memory,    *)
(*                       and the pairs with input = output have none.      *)
(* Memory is counted in bus words.  Packets are numbered in the order in   *)
(* which they are offered to the buffer; the number is a label only.       *)
(***************************************************************************)
EXTENDS Integers, Sequences, FiniteSets

CONSTANTS
  NumPorts,
  BufferTypes,  \* the organisations a switch may be built with
  VoqSize,      \* get_voq_size: <<input, output>> -> words of memory
  MaxWords,     \* bound: the longest packet, in words
  MaxOffers     \* bound: how many packets are offered

Ports == 0 .. NumPorts - 1

ASSUME BufferAssumption ==
  /\ NumPorts \in Nat \ {0}
  /\ BufferTypes \subseteq {"OneBufferPerPort", "NBuffersPerPort"}
  /\ VoqSize \in [Ports \X Ports -> Nat]
  /\ MaxWords \in Nat
  /\ MaxOffers \in Nat

VARIABLES
  bufferType, \* the organisation of this switch, which never changes
  voq,       \* voq[i][o]: entries of input i queued for output o
  used,      \* used[c]: words of memory cell c in use
  peak,      \* peak[c]: most words of c ever in use
  stats,     \* the counters of the buffer
  offered,   \* history: number of packets offered since the last reset
  request    \* history: <<input, outputs>> of the packet offered last

vars == <<bufferType, voq, used, peak, stats, offered, request>>

Entry == [id : Nat \ {0}, words : Nat \ {0}]
Cells == Ports \X Ports
Requests == {<<>>} \cup (Ports \X SUBSET Ports)
Counters == {"enqueued", "dequeued", "dropped", "occupancy", "peakOccupancy"}

(* A packet goes to one port, or to all ports except the one it came from. *)
Broadcast == NumPorts
OutputPorts(i, dst) == IF dst = Broadcast THEN Ports \ {i} ELSE {dst}

(* The memory that holds the queue of the pair (i, o), and its size. *)
Cell(i, o) == IF bufferType = "OneBufferPerPort" THEN <<0, o>> ELSE <<i, o>>

Limit(c) ==
  IF bufferType = "NBuffersPerPort" /\ c[1] = c[2] THEN 0 ELSE VoqSize[c]

MaxOf(a, b) == IF a >= b THEN a ELSE b

Init ==
  /\ bufferType \in BufferTypes
  /\ voq = [i \in Ports |-> [o \in Ports |-> <<>>]]
  /\ used = [c \in Cells |-> 0]
  /\ peak = [c \in Cells |-> 0]
  /\ stats = [k \in Counters |-> 0]
  /\ offered = 0 /\ request = <<>>

(* Mutant of HasRoom: room in one of the memories is enough. *)
HasRoomSomewhere(i, dst, words) ==
  \E o \in OutputPorts(i, dst) : used[Cell(i, o)] + words <= Limit(Cell(i, o))

(* Every destination must have room for the whole packet. *)
HasRoom(i, dst, words) ==
  \A o \in OutputPorts(i, dst) : used[Cell(i, o)] + words <= Limit(Cell(i, o))

(* Mutant of NumOutputs: a packet counts once, however many its copies. *)
OnePerPacket(i, dst) == 1

NumOutputs(i, dst) == IF dst = Broadcast THEN NumPorts - 1 ELSE 1

(* Mutant of EnqueueAccepted: the outputs that have room get their copy. *)
EnqueueWhereRoom(i, dst, words) ==
  LET outs  == {o \in OutputPorts(i, dst) : used[Cell(i, o)] + words <= Limit(Cell(i, o))}
      cells == {Cell(i, o) : o \in outs}
      entry == [id |-> offered + 1, words |-> words]
  IN /\ outs # {}
     /\ voq' = [voq EXCEPT ![i] =
                  [o \in Ports |-> IF o \in outs THEN Append(@[o], entry) ELSE @[o]]]
     /\ used' = [c \in Cells |-> IF c \in cells THEN used[c] + words ELSE used[c]]
     /\ UNCHANGED <<peak, stats>>

EnqueueAccepted(i, dst, words) ==
  LET outs  == OutputPorts(i, dst)
      cells == {Cell(i, o) : o \in outs}
      entry == [id |-> offered + 1, words |-> words]
      occ   == stats["occupancy"] + NumOutputs(i, dst)
  IN /\ HasRoom(i, dst, words)
     /\ voq' = [voq EXCEPT ![i] =
                  [o \in Ports |-> IF o \in outs THEN Append(@[o], entry) ELSE @[o]]]
     /\ used' = [c \in Cells |-> IF c \in cells THEN used[c] + words ELSE used[c]]
     /\ peak' = [c \in Cells |-> IF c \in cells THEN MaxOf(peak[c], used[c] + words)
                                                ELSE peak[c]]
     /\ stats' = [stats EXCEPT !["enqueued"] = @ + 1, !["occupancy"] = occ,
                               !["peakOccupancy"] = MaxOf(@, occ)]

EnqueueDropped(i, dst, words) ==
  /\ ~HasRoom(i, dst, words)
  /\ stats' = [stats EXCEPT !["dropped"] = @ + 1]
  /\ UNCHANGED <<voq, used, peak>>

(* enqueue_packet: all copies or none. *)
EnqueuePacket(i, dst, words) ==
  /\ offered < MaxOffers
  /\ offered' = offered + 1
  /\ request' = <<i, OutputPorts(i, dst)>>
  /\ UNCHANGED bufferType
  /\ \/ EnqueueAccepted(i, dst, words)
     \/ EnqueueDropped(i, dst, words)

(* Mutants of DequeuePacket: the memory of the pair is freed, whatever the *)
(* organisation; one word is freed.                                        *)
DequeueFreesPair(i, o) ==
  /\ voq[i][o] # <<>>
  /\ voq' = [voq EXCEPT ![i][o] = Tail(@)]
  /\ used' = [used EXCEPT ![<<i, o>>] = @ - Head(voq[i][o]).words]
  /\ UNCHANGED <<bufferType, peak, stats, offered, request>>

DequeueFreesOneWord(i, o) ==
  /\ voq[i][o] # <<>>
  /\ voq' = [voq EXCEPT ![i][o] = Tail(@)]
  /\ used' = [used EXCEPT ![Cell(i, o)] = MaxOf(0, @ - 1)]
  /\ UNCHANGED <<bufferType, peak, stats, offered, request>>

(* dequeue_packet on a non-empty queue; on an empty one it changes nothing. *)
DequeuePacket(i, o) ==
  /\ voq[i][o] # <<>>
  /\ voq' = [voq EXCEPT ![i][o] = Tail(@)]
  /\ used' = [used EXCEPT ![Cell(i, o)] = MaxOf(0, @ - Head(voq[i][o]).words)]
  /\ stats' = [stats EXCEPT !["dequeued"] = @ + 1, !["occupancy"] = @ - 1]
  /\ UNCHANGED <<bufferType, peak, offered, request>>

(* reset; the numbering of the packets begins again. *)
Reset ==
  /\ voq' = [i \in Ports |-> [o \in Ports |-> <<>>]]
  /\ used' = [c \in Cells |-> 0]
  /\ peak' = [c \in Cells |-> 0]
  /\ stats' = [k \in Counters |-> 0]
  /\ offered' = 0 /\ request' = <<>>
  /\ UNCHANGED bufferType

Next ==
  \/ \E i \in Ports, dst \in Ports \cup {Broadcast}, words \in 1 .. MaxWords :
        EnqueuePacket(i, dst, words)
  \/ \E i, o \in Ports : DequeuePacket(i, o)
  \/ Reset

Spec == Init /\ [][Next]_vars

-------------------------------------------------------------------------------
(* Type invariant: every variable of the buffer stays in its range. *)
TypeOK ==
  /\ bufferType \in BufferTypes
  /\ voq \in [Ports -> [Ports -> Seq(Entry)]]
  /\ used \in [Cells -> Nat]
  /\ peak \in [Cells -> Nat]
  /\ stats \in [Counters -> Int]
  /\ offered \in Nat
  /\ request \in Requests

(* No memory is over-committed: what a cell holds, now and at its recorded *)
(* peak, fits the size the configuration gave it, even though a broadcast  *)
(* reserves in several cells on the strength of one check.                 *)
WithinLimits ==
  \A i, o \in Ports :
    /\ used[Cell(i, o)] <= peak[Cell(i, o)]
    /\ peak[Cell(i, o)] <= Limit(Cell(i, o))

(* The places taken in the queues of some pairs, and one for every word of *)
(* the entries there.                                                      *)
EntryAt(q, place) == q[place[1][1]][place[1][2]][place[2]]
PlacesIn(q, pairs) == UNION {{io} \X DOMAIN q[io[1]][io[2]] : io \in pairs}
WordsIn(q, pairs) ==
  UNION {{place} \X (1 .. EntryAt(q, place).words) : place \in PlacesIn(q, pairs)}

Sharing(c) == {io \in Ports \X Ports : Cell(io[1], io[2]) = c}

(* The memory accounting is exact: a cell is charged for the words of the  *)
(* entries it holds and for nothing else, so the clamp at zero in          *)
(* dequeue_packet never hides a missing charge and no memory leaks.        *)
UsedIsWhatIsQueued ==
  \A c \in Cells : used[c] = Cardinality(WordsIn(voq, Sharing(c)))

(* current_occupancy, which the drop and peak statistics are built on, is  *)
(* the number of queued copies (get_total_occupancy computes it afresh).   *)
OccupancyIsCopiesQueued == stats["occupancy"] = Cardinality(PlacesIn(voq, Ports \X Ports))

(* Packets are queued in the order of their numbers, and no queue holds a  *)
(* packet that was not offered yet: the order every flow leaves in.        *)
InOrder(s, last) ==
  /\ \A m \in 1 .. Len(s) : s[m].id <= last
  /\ \A m, n \in 1 .. Len(s) : m < n => s[m].id < s[n].id

QueuesInOrder == \A i, o \in Ports : InOrder(voq[i][o], offered)

(* The refinement mapping to OrderedMulticast: a copy is owed while its    *)
(* entry sits in the queue of its flow.                                    *)
IdsOf(s) == {s[m].id : m \in 1 .. Len(s)}
QueuedCopies(q, last) ==
  {c \in (1 .. last) \X Ports \X Ports : c[1] \in IdsOf(q[c[2]][c[3]])}
Pending == QueuedCopies(voq, offered)

OM == INSTANCE OrderedMulticast
        WITH Inputs <- Ports, Outputs <- Ports, pending <- Pending

(* The buffer takes a packet for all the outputs it asks for or for none,  *)
(* forgets no copy but by a reset, hands none out twice, and keeps every   *)
(* flow in order.                                                          *)
ImplementsOrderedMulticast == OM!Init /\ [][OM!Next]_OM!vars
===============================================================================
