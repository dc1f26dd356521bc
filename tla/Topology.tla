------------------------------- MODULE Topology -------------------------------
(***************************************************************************)
(* What NetworkSimulator.load_topology makes of a topology file: which     *)
(* node is behind each port of a switch, where a host is attached, and the *)
(* path a breadth-first search finds from every switch to every host.      *)
(*                                                                         *)
(* A topology is the sequence of its connections, and a connection a pair  *)
(* of ends, [node, port].  Hosts are named by their addresses; a switch is *)
(* any other number.                                                       *)
(***************************************************************************)
EXTENDS SequencesExt

CONSTANT SwitchNodes   \* the nodes whose names begin with "s"

End == [node : Nat, port : Nat]
Connections == End \X End

Joins(conn, node) == node \in {conn[1].node, conn[2].node}
At(conn, node) == IF conn[1].node = node THEN conn[1] ELSE conn[2]
Across(conn, node) == IF conn[1].node = node THEN conn[2] ELSE conn[1]

Ends(topo) == UNION {{conn[1], conn[2]} : conn \in Range(topo)}
Nodes(topo) == {end.node : end \in Ends(topo)}
SwitchesOf(topo) == Nodes(topo) \cap SwitchNodes
HostsOf(topo) == Nodes(topo) \ SwitchNodes

(* _setup_switch_link, _setup_host_link: a later line wins. *)
LastOf(lines) == CHOOSE n \in lines : \A m \in lines : m <= n

LinesAt(topo, end) == {n \in DOMAIN topo : end \in {topo[n][1], topo[n][2]}}
PortsOf(topo, s) == {end.port : end \in {e \in Ends(topo) : e.node = s}}

Behind(topo, s) ==
  [port \in PortsOf(topo, s) |->
     LET end  == [node |-> s, port |-> port]
         conn == topo[LastOf(LinesAt(topo, end))]
     IN IF conn[1] = end THEN conn[2].node ELSE conn[1].node]

(* No port of a switch leads to two nodes. *)
WellWired(topo) ==
  \A m, n \in DOMAIN topo : \A j, k \in {1, 2} :
    topo[m][j].node \in SwitchNodes /\ topo[m][j] = topo[n][k]
      => topo[m][3 - j].node = topo[n][3 - k].node

AttachedTo(topo, h) ==
  Across(topo[LastOf({n \in DOMAIN topo : Joins(topo[n], h)})], h)

-------------------------------------------------------------------------------
(* _build_routing_for_switch.  parent is both visited and parent_map: the  *)
(* hop by which the search came to a node.                                 *)
Hop(conn, from) ==
  [from |-> from, out |-> At(conn, from).port,
   to |-> Across(conn, from).node, in |-> Across(conn, from).port]

NewNeighbour(conn, node, parent) ==
  Joins(conn, node) /\ Across(conn, node).node \notin DOMAIN parent

Recorded(parent, hop) ==
  [node \in DOMAIN parent \cup {hop.to} |-> IF node = hop.to THEN hop ELSE parent[node]]

(* One line of the loop over the connections, at node. *)
Visit(conn, node, search) ==
  LET hop == Hop(conn, node)
  IN IF NewNeighbour(conn, node, search.parent)
     THEN [queue |-> Append(search.queue, hop.to), parent |-> Recorded(search.parent, hop)]
     ELSE search

VisitAll(topo, node, search) ==
  LET after[n \in 0 .. Len(topo)] ==
        IF n = 0 THEN search ELSE Visit(topo[n], node, after[n - 1])
  IN after[Len(topo)]

(* Mutant of Explore: the youngest node of the queue is explored next. *)
ExploreDeepFirst(topo, search) ==
  LET node == Last(search.queue)
      rest == [search EXCEPT !.queue = Front(@)]
  IN IF node \notin SwitchNodes THEN rest ELSE VisitAll(topo, node, rest)

(* A host is recorded and not explored further. *)
Explore(topo, search) ==
  LET node == Head(search.queue)
      rest == [search EXCEPT !.queue = Tail(@)]
  IN IF node \notin SwitchNodes THEN rest ELSE VisitAll(topo, node, rest)

NoHop(s) == [from |-> s, out |-> 0, to |-> s, in |-> 0]

(* Every node enters the queue at most once. *)
ParentsFrom(topo, s) ==
  LET most == Cardinality(Nodes(topo))
      search[k \in 0 .. most] ==
        IF k = 0 THEN [queue |-> <<s>>, parent |-> [node \in {s} |-> NoHop(s)]]
        ELSE LET before == search[k - 1]
             IN IF before.queue = <<>> THEN before ELSE Explore(topo, before)
  IN search[most].parent

(* _reconstruct_path: backwards from the host. *)
PathTo(h, s, parent) ==
  LET most == Cardinality(DOMAIN parent)
      path[k \in 0 .. most] ==
        IF k = 0 THEN <<>>
        ELSE LET later == path[k - 1]
                 node  == IF later = <<>> THEN h ELSE later[1].from
             IN IF node = s THEN later ELSE <<parent[node]>> \o later
  IN path[most]

(* _build_routing_table, for one switch. *)
RoutesFrom(topo, s) ==
  LET parent == ParentsFrom(topo, s)
  IN [h \in DOMAIN parent \cap HostsOf(topo) |-> PathTo(h, s, parent)]

-------------------------------------------------------------------------------
(* For comparison, the nodes at most k links away by way of switches. *)
Neighbours(topo, node) == {Across(conn, node).node : conn \in {c \in Range(topo) : Joins(c, node)}}

WithinHops(topo, s, k) ==
  LET reach[n \in 0 .. k] ==
        IF n = 0 THEN {s}
        ELSE reach[n - 1] \cup
               UNION {Neighbours(topo, m) : m \in reach[n - 1] \cap SwitchNodes}
  IN reach[k]

(* A path in the network: along its links, and from switch to switch up to *)
(* the host.                                                               *)
IsPath(topo, path, s, h) ==
  /\ path # <<>> /\ path[1].from = s /\ Last(path).to = h
  /\ \A k \in DOMAIN path :
       /\ \E conn \in Range(topo) : Joins(conn, path[k].from) /\ Hop(conn, path[k].from) = path[k]
       /\ k < Len(path) => path[k].to \in SwitchNodes /\ path[k + 1].from = path[k].to
===============================================================================
