------------------------------- MODULE Schedulers -------------------------------
(***************************************************************************)
(* A scheduler of the simulator on its own (scheduler_base.py): queue      *)
(* lengths that arriving packets raise and its matches lower.  Which of    *)
(* the three algorithms it is, is chosen once.                             *)
(***************************************************************************)
EXTENDS PortSchedulers

CONSTANT Cap    \* bound: the longest queue, in packets

ASSUME CapAssumption == Cap \in Nat \ {0}

VARIABLES
  type,      \* the algorithm
  len,       \* len[i][o]: packets queued at input i for output o
  inPtr,     \* inPtr[i]: where input i starts its scan of the outputs (EDRRM)
  outPtr,    \* outPtr[o]: where output o starts its scan of the inputs (not iSLIP)
  closed,    \* no more packets arrive
  served,    \* the matches that dequeued in the last scheduling cycle
  wait,      \* history, round robin: cycles a backlogged queue was passed over, to NumPorts
  busyWith   \* history, EDRRM: the queue input i was serving and has not drained

vars == <<type, len, inPtr, outPtr, closed, served, wait, busyWith>>

None == NumPorts

TypeOK ==
  /\ type \in SchedulerTypes
  /\ len \in [Ports -> [Ports -> 0 .. Cap]]
  /\ inPtr \in [Ports -> Ports]
  /\ outPtr \in [Ports -> Ports]
  /\ closed \in BOOLEAN
  /\ served \in SUBSET (Ports \X Ports)
  /\ wait \in [Ports -> [Ports -> Nat]]
  /\ busyWith \in [Ports -> Ports \cup {None}]

Init ==
  /\ type \in SchedulerTypes
  /\ len = [i \in Ports |-> [o \in Ports |-> 0]]
  /\ inPtr = [i \in Ports |-> 0]
  /\ outPtr = [o \in Ports |-> 0]
  /\ closed = FALSE
  /\ served = {}
  /\ wait = [i \in Ports |-> [o \in Ports |-> 0]]
  /\ busyWith = [i \in Ports |-> None]

Arrive(i, o) ==
  /\ ~closed
  /\ len[i][o] < Cap
  /\ len' = [len EXCEPT ![i][o] = @ + 1]
  /\ UNCHANGED <<type, inPtr, outPtr, closed, served, wait, busyWith>>

(* The trace ends: what is queued is all there will be. *)
Close ==
  /\ ~closed
  /\ closed' = TRUE
  /\ UNCHANGED <<type, len, inPtr, outPtr, served, wait, busyWith>>

(* The history of a cycle. *)
Waited(matches) ==
  [i \in Ports |-> [o \in Ports |->
     IF type # "RoundRobin" \/ len[i][o] = 0 \/ <<i, o>> \in matches THEN 0
     ELSE IF wait[i][o] = NumPorts THEN NumPorts ELSE wait[i][o] + 1]]

BusyWith(matches) ==
  [i \in Ports |->
     IF type = "EDRRM" /\ \E o \in Ports : <<i, o>> \in matches
     THEN LET o == CHOOSE o \in Ports : <<i, o>> \in matches
          IN IF len[i][o] > 1 THEN o ELSE None
     ELSE busyWith[i]]

(* schedule_cycle, process_matches, where each match takes one packet out  *)
(* of its queue, and end_cycle.                                            *)
ScheduleCycle ==
  \E matches \in {Matches(type, len, inPtr, outPtr)} :
    /\ served' = matches
    /\ len' = [i \in Ports |-> [o \in Ports |->
                 IF <<i, o>> \in matches THEN len[i][o] - 1 ELSE len[i][o]]]
    /\ inPtr' = InPointers(type, len, inPtr, matches)
    /\ outPtr' = OutPointers(type, len, outPtr, matches)
    /\ wait' = Waited(matches)
    /\ busyWith' = BusyWith(matches)
    /\ UNCHANGED <<type, closed>>

Next ==
  \/ \E i, o \in Ports : Arrive(i, o)
  \/ Close
  \/ ScheduleCycle

Spec == Init /\ [][Next]_vars

(* The simulator runs a switch cycle for as long as work is pending. *)
FairSpec == Spec /\ WF_vars(ScheduleCycle)

-------------------------------------------------------------------------------
(* A cycle sends at most one packet to each output and, but for the round  *)
(* robin, takes at most one from each input, although iSLIP's iterations   *)
(* may match an output more than once.                                     *)
OnePacketPerPort ==
  \A m, n \in served :
    (m[2] = n[2] \/ (type # "RoundRobin" /\ m[1] = n[1])) => m = n

(* Bounded waiting: under round robin a queue that holds a packet is       *)
(* passed over at most NumPorts - 1 times before it is served, however     *)
(* much the other inputs send to the same output.                          *)
BoundedWait == \A i, o \in Ports : wait[i][o] <= NumPorts - 1

(* Exhaustive service: once an input of EDRRM has started on a queue it    *)
(* serves no other until that one is drained, however often it loses the   *)
(* output to another input in between.                                     *)
ExhaustiveService ==
  [][ScheduleCycle =>
       \A i, o \in Ports : (<<i, o>> \in served' /\ busyWith[i] # None)
                             => o = busyWith[i]]_vars

(* A queue with a packet is served eventually, under the scheduler t ... *)
NoQueueStarves(t) ==
  \A i, o \in Ports : (type = t /\ len[i][o] > 0) ~> <<i, o>> \in served

(* ... an input with a packet is, whichever its queue. *)
NoInputStarves(t) ==
  \A i \in Ports :
    (type = t /\ \E o \in Ports : len[i][o] > 0) ~> \E o \in Ports : <<i, o>> \in served

(* The round robin starves no queue, EDRRM no input.  iSLIP does: it grants *)
(* the lowest input that asks.                                             *)
NobodyStarves == NoQueueStarves("RoundRobin") /\ NoInputStarves("EDRRM")

(* Once the trace has ended, the switch runs empty. *)
Drains == closed ~> \A i, o \in Ports : len[i][o] = 0
================================================================================
