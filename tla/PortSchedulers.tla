---------------------------- MODULE PortSchedulers ----------------------------
(***************************************************************************)
(* The three matching algorithms of simulator/src/scheduler_base.py as     *)
(* functions of the queue lengths and of the scheduler's pointers.         *)
(*   len[i][o]: packets input i holds for output o.                        *)
(* A match is a pair <<input, output>>; schedule_cycle builds a list of    *)
(* them, but the lengths do not change while it does, so its order matters *)
(* only where two matches name one output (iSLIP).                         *)
(***************************************************************************)
EXTENDS Cyclic

-------------------------------------------------------------------------------
(* RoundRobinScheduler: each output takes the first input with a packet    *)
(* for it, counted from the output's pointer, and moves the pointer past   *)
(* that input.  Outputs do not look at each other: an input may be matched *)
(* to several outputs in one cycle.                                        *)

Ready(len, o) == {i \in Ports : len[i][o] > 0}

RRMatches(len, ptr) ==
  {m \in Ports \X Ports :
     m[1] \in Ready(len, m[2]) /\ m[1] = FirstFrom(ptr[m[2]], Ready(len, m[2]))}

(* Mutant of RRPointers: the pointer stays on the input it served. *)
RRPointersStay(len, ptr) ==
  [o \in Ports |-> IF Ready(len, o) = {} THEN ptr[o] ELSE FirstFrom(ptr[o], Ready(len, o))]

RRPointers(len, ptr) ==
  [o \in Ports |-> IF Ready(len, o) = {} THEN ptr[o]
                                         ELSE Succ(FirstFrom(ptr[o], Ready(len, o)))]

-------------------------------------------------------------------------------
(* iSLIPScheduler: an input without a match asks for its longest queue,    *)
(* the lowest-numbered one of several; an output grants the lowest-        *)
(* numbered input that asks.  Four iterations.                             *)

Preferred(len, i) ==
  {o \in Ports : /\ len[i][o] > 0
                 /\ \A p \in Ports : len[i][p] < len[i][o] \/ (len[i][p] = len[i][o] /\ o <= p)}

ISlipIteration(len, matched) ==
  {m \in (Ports \ matched) \X Ports :
     /\ m[2] \in Preferred(len, m[1])
     /\ \A j \in Ports \ matched : m[2] \in Preferred(len, j) => m[1] <= j}

(* The matches of each iteration.  An output matched in one iteration      *)
(* grants again in the next: output_busy is only set once process_matches  *)
(* dequeues.                                                               *)
ISlipRounds(len) ==
  LET Inputs(matches) == {m[1] : m \in matches}
      first  == ISlipIteration(len, {})
      second == ISlipIteration(len, Inputs(first))
      third  == ISlipIteration(len, Inputs(first \cup second))
      fourth == ISlipIteration(len, Inputs(first \cup second \cup third))
  IN <<first, second, third, fourth>>

(* Mutant of FirstPerOutput: conflicts dequeue as well. *)
EveryMatch(rounds) == UNION {rounds[k] : k \in DOMAIN rounds}

(* process_matches: the first match of an output dequeues, later ones find *)
(* the output busy and are counted as conflicts.                           *)
FirstPerOutput(rounds) ==
  UNION {{m \in rounds[k] : \A j \in 1 .. k - 1 : \A n \in rounds[j] : n[2] # m[2]} :
         k \in DOMAIN rounds}

-------------------------------------------------------------------------------
(* EDRRMScheduler, one iteration: an input asks for the first non-empty    *)
(* queue from its pointer, an output grants the first requester from its   *)
(* own.  The output's pointer moves past the input; the input's pointer    *)
(* stays on the output while packets are left for it.                      *)

(* Mutant of Requests: no queue with a single packet is asked for. *)
RequestsButLast(len, inPtr) ==
  {m \in Ports \X Ports :
     /\ len[m[1]][m[2]] > 1
     /\ \A o \in Ports : len[m[1]][o] > 1
                          => Offset(inPtr[m[1]], m[2]) <= Offset(inPtr[m[1]], o)}

Requests(len, inPtr) ==
  {m \in Ports \X Ports :
     /\ len[m[1]][m[2]] > 0
     /\ \A o \in Ports : len[m[1]][o] > 0
                          => Offset(inPtr[m[1]], m[2]) <= Offset(inPtr[m[1]], o)}

EDRRMMatches(len, inPtr, outPtr) ==
  LET asks == Requests(len, inPtr)
  IN {m \in asks : \A n \in asks :
        n[2] = m[2] => Offset(outPtr[m[2]], m[1]) <= Offset(outPtr[m[2]], n[1])}

(* Mutant of EDRRMInPointers: the pointer moves on although packets are left. *)
EDRRMInPointersAdvance(len, inPtr, matches) ==
  [i \in Ports |->
     IF \E m \in matches : m[1] = i
     THEN Succ((CHOOSE m \in matches : m[1] = i)[2])
     ELSE inPtr[i]]

EDRRMInPointers(len, inPtr, matches) ==
  [i \in Ports |->
     IF \E m \in matches : m[1] = i
     THEN LET o == (CHOOSE m \in matches : m[1] = i)[2]
          IN IF len[i][o] > 1 THEN o ELSE Succ(o)
     ELSE inPtr[i]]

(* Mutant of EDRRMOutPointers: the output's pointer never moves. *)
EDRRMOutPointersFixed(outPtr, matches) == outPtr

EDRRMOutPointers(outPtr, matches) ==
  [o \in Ports |->
     IF \E m \in matches : m[2] = o
     THEN Succ((CHOOSE m \in matches : m[2] = o)[1])
     ELSE outPtr[o]]

-------------------------------------------------------------------------------
(* The scheduler create_scheduler makes: the matches of one cycle that     *)
(* dequeue, and the pointers after it.  inPtr is rr_index_in of EDRRM,     *)
(* outPtr its rr_index_out or the input_pointers of the round robin.       *)
SchedulerTypes == {"RoundRobin", "EDRRM", "iSLIP"}

Matches(type, len, inPtr, outPtr) ==
  CASE type = "RoundRobin" -> RRMatches(len, outPtr)
    [] type = "EDRRM"      -> EDRRMMatches(len, inPtr, outPtr)
    [] type = "iSLIP"      -> FirstPerOutput(ISlipRounds(len))

InPointers(type, len, inPtr, matches) ==
  IF type = "EDRRM" THEN EDRRMInPointers(len, inPtr, matches) ELSE inPtr

OutPointers(type, len, outPtr, matches) ==
  CASE type = "RoundRobin" -> RRPointers(len, outPtr)
    [] type = "EDRRM"      -> EDRRMOutPointers(outPtr, matches)
    [] type = "iSLIP"      -> outPtr
===============================================================================
