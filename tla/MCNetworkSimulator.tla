-------------------------- MODULE MCNetworkSimulator --------------------------
(* NetworkSimulator with small networks: hosts 0, 1, ...; switches from 20. *)
EXTENDS NetworkSimulator

Link(m, p, n, q) == <<[node |-> m, port |-> p], [node |-> n, port |-> q]>>

(* One of its lines is there twice. *)
OneSwitch ==
  <<Link(0, 0, 20, 0), Link(1, 0, 20, 1), Link(20, 2, 17, 0), Link(1, 0, 20, 1)>>

TwoSwitches ==
  <<Link(0, 0, 20, 0), Link(1, 0, 20, 1), Link(20, 2, 21, 0), Link(2, 0, 21, 1), Link(3, 0, 21, 2)>>

(* A ring of five, so that the two ways round differ in length. *)
Ring ==
  <<Link(20, 0, 21, 1), Link(20, 1, 24, 0), Link(24, 1, 23, 0), Link(23, 1, 22, 0),
    Link(22, 1, 21, 0), Link(0, 0, 20, 2), Link(22, 2, 1, 0)>>

(* Two hosts on one port: only the second is behind it. *)
SharedPort == <<Link(0, 0, 20, 0), Link(1, 0, 20, 0), Link(20, 1, 17, 0)>>

SmallNetworks == {OneSwitch, TwoSwitches, Ring, SharedPort}

Sent(time, src, dst, id) ==
  [time |-> time, src |-> src, dst |-> dst, id |-> id, words |-> RxLatency]

BothWays == <<Sent(0, 0, 1, 0), Sent(0, 1, 0, 1)>>
TwoAtOnce == <<Sent(0, 2, 3, 0), Sent(0, 0, 1, 1)>>
SameId == <<Sent(0, 0, 1, 0), Sent(4, 0, 1, 0)>>
Aliases == <<Sent(0, 0, 17, 0), Sent(5, 1, 0, 32768)>>
Elsewhere == <<Sent(0, 0, 2, 0), Sent(3, 0, All, 1)>>

Three == <<Sent(0, 0, 1, 0), Sent(1, 0, 1, 1), Sent(6, 1, 0, 2)>>

SmallTraces == {Three, BothWays, TwoAtOnce, SameId, Aliases, Elsewhere}

(* Two packets at one time are enough to set a switch ahead. *)
OneNetwork == {OneSwitch}
TracesOfOne == {BothWays}
===============================================================================
