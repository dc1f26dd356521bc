----------------------------- MODULE HlsScheduler -----------------------------
(***************************************************************************)
(* A hardware scheduler with its memory: one call digests a word per       *)
(* source and transmits a word per matched pair.                           *)
(*   storage = "shared":  scheduler.cpp and scheduler_iSLIP.cpp, a buffer  *)
(*     of words per source, with a free list, the ports each word still    *)
(*     has to go to (bitmap), and a ring of addresses per pair;            *)
(*   storage = "perPair": scheduler_nb1p.cpp, a ring of words per pair.    *)
(* A word is <<sp, i, k>>: the k-th word of the i-th packet of source sp.  *)
(***************************************************************************)
EXTENDS HlsArbiters, Sequences, FiniteSets, Functions

(* A packet goes to one port or to all but its source. *)
Packet == [to : (SUBSET Ports) \ {{}}, words : Nat \ {0}]

CONSTANTS
  Depth,    \* MAX_QUEUE_DEPTH
  Cases     \* bound: arbiters, memories and the packets each source may be offered

ASSUME MemoryAssumption ==
  /\ Depth \in Nat
  /\ \E bits \in 1 .. Depth : Depth = 2^bits
  /\ Cases \subseteq [arbiter : Arbiters, storage : {"shared", "perPair"},
                       offered : [Ports -> Seq(Packet)]]
  /\ \A c \in Cases : c.storage = "perPair" => c.arbiter = "RoundRobin"

VARIABLES
  storage,   \* the organisation of the memory
  offered,   \* offered[sp]: the packets that reach source sp, in order
  next,      \* next[sp]: the packet and the word source sp digests next
  digest,    \* digest[sp]: {} for IDLE, else the mask of the packet under way
  held,      \* held[sp]: IDLE_data_valid, a header waits for its metadata
  settled,   \* everything offered has reached the streams
  mem,       \* mem[sp]: free list, words, bitmaps and rings
  arb,       \* the registers of the arbiter
  tx         \* tx[dp]: the words transmitted

vars == <<storage, offered, next, digest, held, settled, mem, arb, tx>>

-------------------------------------------------------------------------------
Addresses == 0 .. Depth - 1
None == <<>>

TypeOK ==
  /\ \E c \in Cases : storage = c.storage /\ offered = c.offered
  /\ next \in [Ports -> Nat \X Nat]
  /\ digest \in [Ports -> SUBSET Ports]
  /\ held \in [Ports -> BOOLEAN]
  /\ settled \in BOOLEAN
  /\ \A sp \in Ports :
       /\ Range(mem[sp].free) \subseteq Addresses /\ Len(mem[sp].free) < Depth
       /\ mem[sp].bitmap \in [Addresses -> SUBSET Ports]
       /\ \A dp \in Ports : Len(mem[sp].voq[dp]) < Depth
  /\ arb \in Registers
  /\ DOMAIN tx = Ports

(* Mutant of FreeAfterReset: the tail one further on. *)
FreeAfterResetAll == [i \in 1 .. Depth |-> i - 1]

(* The free list is a ring of Depth entries whose tail starts Depth - 1    *)
(* after its head: the last address is never in use.                       *)
FreeAfterReset == [i \in 1 .. Depth - 1 |-> i - 1]

(* After a reset of at least Depth calls. *)
Init ==
  /\ \E c \in Cases :
       storage = c.storage /\ offered = c.offered /\ arb = AfterReset(c.arbiter)
  /\ next = [sp \in Ports |-> <<1, 1>>]
  /\ digest = [sp \in Ports |-> {}]
  /\ held = [sp \in Ports |-> FALSE]
  /\ settled = FALSE
  /\ mem = [sp \in Ports |->
              [free   |-> FreeAfterReset,
               data   |-> [a \in Addresses |-> None],
               bitmap |-> [a \in Addresses |-> {}],
               voq    |-> [dp \in Ports |-> <<>>]]]
  /\ tx = [dp \in Ports |-> <<>>]

-------------------------------------------------------------------------------
(* Digest. *)
More(sp) == next[sp][1] <= Len(offered[sp])
NextPacket(sp) == offered[sp][next[sp][1]]
LastWord(w) == w[3] = offered[w[1]][w[2]].words
NextWord(sp) == <<sp, next[sp][1], next[sp][2]>>

Full(sp) == storage = "shared" /\ mem[sp].free = <<>>

(* Source sp digests a word, given the sources with a word in              *)
(* data_after_rx and those with a record in meta_after_hash.  A packet     *)
(* starts when both are there.                                             *)
Digests(sp, data, meta) ==
  /\ More(sp) /\ ~Full(sp)
  /\ IF digest[sp] = {} THEN (held[sp] \/ sp \in data) /\ sp \in meta
     ELSE sp \in data

Mask(sp) == IF digest[sp] = {} THEN NextPacket(sp).to ELSE digest[sp]

(* enqueue_word *)
Enqueued(sp) ==
  LET m == mem[sp]
      entry == IF storage = "shared" THEN Head(m.free) ELSE NextWord(sp)
      queues == [dp \in Ports |-> IF dp \in Mask(sp) THEN Append(m.voq[dp], entry)
                                  ELSE m.voq[dp]]
  IN IF storage = "shared"
     THEN [free   |-> Tail(m.free),
           data   |-> [m.data EXCEPT ![entry] = NextWord(sp)],
           bitmap |-> [m.bitmap EXCEPT ![entry] = Mask(sp)],
           voq    |-> queues]
     ELSE [m EXCEPT !.voq = queues]

-------------------------------------------------------------------------------
(* Transmission. *)
Ready == {m \in Ports \X Ports : mem[m[1]].voq[m[2]] # <<>>}

(* The word that an entry of a ring of source sp stands for. *)
WordOf(sp, entry) == IF storage = "shared" THEN mem[sp].data[entry] ELSE entry

HeadWord(sp, dp) == WordOf(sp, Head(mem[sp].voq[dp]))

(* bitmap ^= 1 << dp *)
Toggle(ports, dp) == (ports \cup {dp}) \ (ports \cap {dp})

(* Mutant of Dequeued: a word is freed with the first of its copies. *)
DequeuedAtOnce(m, dp) ==
  LET entry == Head(m.voq[dp])
  IN [m EXCEPT !.voq[dp] = Tail(@),
               !.bitmap[entry] = Toggle(@, dp),
               !.free = Append(@, entry)]

(* The memory m without the word at the head of its queue for dp, which is *)
(* freed once it has gone to all its ports.                                *)
Dequeued(m, dp) ==
  LET entry == Head(m.voq[dp])
      left == Toggle(m.bitmap[entry], dp)
      rest == [m EXCEPT !.voq[dp] = Tail(@)]
  IN IF storage = "perPair" THEN rest
     ELSE [rest EXCEPT !.bitmap[entry] = left,
                       !.free = IF left = {} THEN Append(@, entry) ELSE @]

(* Mutant of Ring: full one entry too early. *)
RingShort(q) == IF Len(q) = Depth - 1 THEN <<>> ELSE q

(* Heads and tails are numbers modulo Depth: a ring with Depth entries     *)
(* reads as empty.                                                         *)
Ring(q) == IF Len(q) = Depth THEN <<>> ELSE q

Wrapped(m) == [m EXCEPT !.free = Ring(@),
                        !.voq = [dp \in Ports |-> Ring(m.voq[dp])]]

-------------------------------------------------------------------------------
(* The streams that have something for the scheduler.  The RX engine       *)
(* writes a header before the hash engine has its metadata.                *)
Streams ==
  LET waiting == {sp \in Ports : More(sp)}
  IN IF settled THEN {<<waiting, waiting>>}
     ELSE {s \in (SUBSET waiting) \X (SUBSET waiting) :
             s[2] \subseteq s[1] \cup {sp \in Ports : held[sp]}}

(* One call of the scheduler.  Which queues have a word is noted before    *)
(* the digest.                                                             *)
Call ==
  \E s \in Streams, sends \in {Sends(arb, Ready)} :
    LET digesting == {sp \in Ports : Digests(sp, s[1], s[2])}
        filled == [sp \in Ports |-> IF sp \in digesting THEN Enqueued(sp) ELSE mem[sp]]
        ends(sp) == LastWord(NextWord(sp))
    IN /\ next' = [sp \in Ports |->
                     IF sp \notin digesting THEN next[sp]
                     ELSE IF ends(sp) THEN <<next[sp][1] + 1, 1>>
                     ELSE <<next[sp][1], next[sp][2] + 1>>]
       /\ digest' = [sp \in Ports |->
                       IF sp \notin digesting THEN digest[sp]
                       ELSE IF ends(sp) THEN {} ELSE Mask(sp)]
       /\ held' = [sp \in Ports |->
                     IF sp \in digesting THEN FALSE
                     ELSE held[sp] \/ (digest[sp] = {} /\ ~Full(sp) /\ sp \in s[1])]
       /\ mem' = [sp \in Ports |->
                    Wrapped(IF \E m \in sends : m[1] = sp
                            THEN Dequeued(filled[sp], (CHOOSE m \in sends : m[1] = sp)[2])
                            ELSE filled[sp])]
       /\ tx' = [dp \in Ports |->
                   IF \E m \in sends : m[2] = dp
                   THEN Append(tx[dp], HeadWord((CHOOSE m \in sends : m[2] = dp)[1], dp))
                   ELSE tx[dp]]
       /\ arb' = AfterSends(arb, Ready, sends,
                            {m \in sends : LastWord(HeadWord(m[1], m[2]))})
       /\ UNCHANGED <<storage, offered, settled>>

(* The engines before the scheduler have done their work. *)
Settle ==
  /\ ~settled
  /\ settled' = TRUE
  /\ UNCHANGED <<storage, offered, next, digest, held, mem, arb, tx>>

Next == Call \/ Settle

Spec == Init /\ [][Next]_vars

(* The engines before the scheduler finish, and then it is called for as   *)
(* long as a call does anything.                                           *)
FairSpec == Spec /\ WF_vars(Settle) /\ WF_vars(settled /\ Call)

-------------------------------------------------------------------------------
(* The free list and the bitmaps divide the buffer: an address is free     *)
(* once, or its word is in exactly the queues its bitmap names, once each. *)
BufferPartitioned == storage = "shared" =>
  \A sp \in Ports :
    LET m == mem[sp]
        times(a, q) == Cardinality({i \in DOMAIN q : q[i] = a})
    IN \A a \in 0 .. Depth - 2 :
         /\ times(a, m.free) = (IF m.bitmap[a] = {} THEN 1 ELSE 0)
         /\ \A dp \in Ports : times(a, m.voq[dp]) = (IF dp \in m.bitmap[a] THEN 1 ELSE 0)

(* The words of source sp that are queued for port dp. *)
Waiting(sp, dp) == [i \in DOMAIN mem[sp].voq[dp] |-> WordOf(sp, mem[sp].voq[dp][i])]

Before(v, w) == v[2] < w[2] \/ (v[2] = w[2] /\ v[3] < w[3])

(* The words that source sp has digested for port dp. *)
Due(sp, dp) ==
  UNION {{<<sp, i, k>> : k \in 1 .. offered[sp][i].words} :
           i \in {j \in DOMAIN offered[sp] : dp \in offered[sp][j].to}}

Digested(sp, dp) == {w \in Due(sp, dp) : Before(w, NextWord(sp))}

(* What t holds of source sp, and then q, are these words in their order. *)
Accounts(t, q, sp, words) ==
  LET got == {i \in DOMAIN t : t[i][1] = sp}
  IN /\ {t[i] : i \in got} \cup Range(q) = words
     /\ \A i, j \in got : i < j => Before(t[i], t[j])
     /\ \A i \in got, j \in DOMAIN q : Before(t[i], q[j])
     /\ \A i, j \in DOMAIN q : i < j => Before(q[i], q[j])

(* No word is lost, doubled, misdirected or overtaken: what a port has got *)
(* of a source and what is queued for it are the words digested for it, in *)
(* their order.                                                            *)
WordsAccountedFor ==
  \A sp, dp \in Ports : Accounts(tx[dp], Waiting(sp, dp), sp, Digested(sp, dp))

(* A port sends a packet from its first word to its last with no word of   *)
(* another in between.                                                     *)
PacketsWhole ==
  \A dp \in Ports : \A i \in DOMAIN tx[dp] :
    LET w == tx[dp][i]
        start == i = 1 \/ LastWord(tx[dp][i - 1])
    IN IF start THEN w[3] = 1
       ELSE w = [tx[dp][i - 1] EXCEPT ![3] = @ + 1]

(* Everything offered is delivered in the end. *)
AllDelivered ==
  <>(\A sp \in Ports : ~More(sp) /\ \A dp \in Ports : mem[sp].voq[dp] = <<>>)

Words(sp) == FoldFunction(LAMBDA p, n : p.words + n, 0, offered[sp])

(* It is delivered if no source is ever short of memory, and also if some  *)
(* are, as long as they share it and no packet is for more than one port:  *)
(* a packet longer than the buffer then streams through it.                *)
DeliveredIfItFits ==
  \/ \A sp \in Ports : Words(sp) < Depth
  \/ /\ storage = "shared"
     /\ \A sp \in Ports : \A i \in DOMAIN offered[sp] : Cardinality(offered[sp][i].to) = 1
  => AllDelivered
===============================================================================
