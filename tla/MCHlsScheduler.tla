---------------------------- MODULE MCHlsScheduler ----------------------------
(* The traffic of the runs of HlsScheduler. *)
EXTENDS HlsScheduler

To(dp, n) == [to |-> {dp}, words |-> n]
All(sp, n) == [to |-> Ports \ {sp}, words |-> n]

With(arbiter, memory, traffics) ==
  {[arbiter |-> arbiter, storage |-> memory, offered |-> t] : t \in traffics}

(* The packets of ports 0 and 1; the other ports send none. *)
Offers(p, q) == [sp \in Ports |-> CASE sp = 0 -> p [] sp = 1 -> q [] OTHER -> <<>>]

(* Port 0 sends two packets, to one port or to all, while port 1 competes  *)
(* for port 2.                                                             *)
Mixed ==
  {Offers(<<p, q>>, <<To(2, 2)>>) :
     p \in {To(1, 1), All(0, 1), All(0, 3)}, q \in {To(2, 2), All(0, 3)}}

(* Packets to one port each, also longer than the buffer. *)
Unicast ==
  {Offers(<<To(d, 2), To(e, Depth + 1)>>, <<To(d, 3)>>) : d \in {0, 1}, e \in {0, 1}}

(* Packets that fit into the rings. *)
Fitting ==
  {Offers(<<To(d, 1), To(e, 2)>>, <<To(d, 2), All(1, 1)>>) : d \in {0, 1}, e \in {0, 1}}

AllSchedulers ==
  With("RoundRobin", "shared", Mixed)
    \cup With("iSLIP", "shared", Mixed \cup Unicast)
    \cup With("RoundRobin", "perPair", Fitting)

(* Two packets to all other ports, each half as long as the buffer. *)
ShortBroadcasts ==
  With("RoundRobin", "shared",
       {Offers(<<All(0, Depth \div 2), All(0, Depth \div 2)>>, <<>>)})
===============================================================================
