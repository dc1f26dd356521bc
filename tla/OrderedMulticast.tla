--------------------------- MODULE OrderedMulticast ---------------------------
(***************************************************************************)
(* What a switch buffer promises, whatever its memory organisation.        *)
(*                                                                         *)
(* Packets are offered one after the other and numbered in that order; an  *)
(* offer names the outputs it asks for.  An accepted packet owes one copy  *)
(* to each of these, all of them at once; a refused one owes nothing.  A   *)
(* copy leaves exactly once, and the copies of one flow (one input, one    *)
(* output) leave in the order in which their packets were accepted.  Only  *)
(* a new beginning, which numbers the packets afresh, forgets a copy.      *)
(***************************************************************************)
EXTENDS Naturals

CONSTANTS Inputs, Outputs

VARIABLES
  offered,   \* number of packets offered since the beginning
  request,   \* <<input, outputs>> of the offer made last
  pending    \* copies owed: <<packet, input, output>>

vars == <<offered, request, pending>>

Copy == (Nat \ {0}) \X Inputs \X Outputs

Init ==
  /\ offered = 0 /\ request = <<>>
  /\ pending = {}

(* The packet that comes next asks for the outputs in dests ... *)
Offer(i, dests) ==
  /\ offered' = offered + 1
  /\ request' = <<i, dests>>

(* ... and is taken for every one of them ... *)
Accept(i, dests) ==
  /\ Offer(i, dests)
  /\ pending' = pending \cup ({offered + 1} \X {i} \X dests)

(* ... or for none. *)
Refuse(i, dests) ==
  /\ Offer(i, dests)
  /\ UNCHANGED pending

(* The oldest copy of its flow leaves. *)
Deliver(p, i, o) ==
  /\ <<p, i, o>> \in pending
  /\ \A c \in pending : (c[2] = i /\ c[3] = o) => p <= c[1]
  /\ pending' = pending \ {<<p, i, o>>}
  /\ UNCHANGED <<offered, request>>

(* Everything begins anew. *)
Clear ==
  /\ offered' = 0 /\ request' = <<>>
  /\ pending' = {}

Next ==
  \/ \E i \in Inputs, dests \in SUBSET Outputs : Accept(i, dests) \/ Refuse(i, dests)
  \/ \E c \in pending : Deliver(c[1], c[2], c[3])
  \/ Clear

Spec == Init /\ [][Next]_vars
===============================================================================
