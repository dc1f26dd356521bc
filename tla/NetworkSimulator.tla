--------------------------- MODULE NetworkSimulator ---------------------------
(***************************************************************************)
(* The event loop of simulator/src/simulation.py over a network of         *)
(* switches: a heap of timed events, the injection of a trace, the cycles  *)
(* of the switches, and the delivery of what they transmit.                *)
(*                                                                         *)
(* A switch is what SwitchCore promises to be (ImplementsMulticastToWire,  *)
(* SwitchDrains): packets wait at their input, are taken for all their     *)
(* outputs or refused, and a copy leaves in the order of its flow, at most *)
(* one per output and cycle.  What a call of process_cycle does of this is *)
(* left open, but it hands nothing on at most MaxQuiet times in a row.     *)
(*                                                                         *)
(* It promises that for packets of certain lengths only, and the traces    *)
(* hold no others: a packet with fewer words than the RX engine has cycles *)
(* of latency swallows the one behind it, and one too long to leave        *)
(* between two dispatches of the scheduler may be sent twice.              *)
(*                                                                         *)
(* A packet is its number in the trace.                                    *)
(***************************************************************************)
EXTENDS Topology, Bags

CONSTANTS
  Topologies,    \* the topology files that may be loaded
  Traces,        \* the traces that may be scheduled: sequences of entries
  Limits,        \* what max_cycles may be; 0 when it is not given
  HashTypes,     \* the hash engines the switches may be configured with
  NumPorts,
  RxLatency, SchedLatency,
  CycleTime, HostDelay, SwitchDelay,
  AddrMod,       \* the header has 4 bits for an address: 16
  IdMod,         \* and 15 for a trace id: 32768
  MaxQuiet       \* bound on the latency of a switch, in calls

Ports == 0 .. NumPorts - 1
All == -1        \* the destination of a broadcast packet
Never == -1      \* the completion time of a packet that is under way
Unlimited == -1

Entry ==
  [time : Nat, src : Nat, dst : Nat \cup {All}, id : Nat,
   words : RxLatency .. SchedLatency + 1]

ASSUME NetAssumption ==
  /\ HashTypes \subseteq {"FullLookupTable", "MultiBankHash"}
  /\ {NumPorts, RxLatency, SchedLatency, CycleTime, AddrMod, IdMod} \subseteq Nat \ {0}
  /\ {HostDelay, SwitchDelay, MaxQuiet} \subseteq Nat
  /\ Limits \subseteq Nat
  /\ Traces \subseteq Seq(Entry)
  /\ Topologies \subseteq Seq(Connections)
  /\ \A links \in Topologies : \A conn \in Range(links) :
       /\ \E k \in {1, 2} : conn[k].node \in SwitchNodes
       /\ \A k \in {1, 2} : conn[k].node \in SwitchNodes => conn[k].port \in Ports

VARIABLES
  hashType,    \* the hash engine of all switches, which never changes
  topo,        \* the topology loaded
  routes,      \* switch -> host -> path
  entries,     \* the trace entries scheduled
  queue,       \* event_queue: a bag of events
  now,         \* current_time_ns
  loop,        \* run_simulation: whether it is running, and the events it may still process
  switch,      \* the switches
  active,      \* active_packets: trace id -> the packet and when it was completed
  stats,       \* host_stats
  refused,     \* history: packets a buffer refused
  delivered    \* history: <<packet, host, time>> of what reached a host

state == <<switch, active, stats, refused, delivered>>
netVars == <<hashType, topo, routes, entries, queue, now, loop, state>>

MaxOf(m, n) == IF m >= n THEN m ELSE n

Switches == SwitchesOf(topo)
Hosts == HostsOf(topo)

Dst(p) == IF entries[p].dst = All THEN All ELSE entries[p].dst % AddrMod
Id(p) == entries[p].id % IdMod

IdleSwitch ==
  [rx |-> [p \in Ports |-> <<>>], voq |-> [c \in Ports \X Ports |-> <<>>],
   slack |-> 0, clock |-> 0]
NoStats == [sent |-> 0, received |-> 0]

(* load_topology on a new simulator. *)
NetInit ==
  /\ hashType \in HashTypes
  /\ topo \in Topologies
  /\ routes = [s \in SwitchesOf(topo) |-> RoutesFrom(topo, s)]
  /\ entries = <<>>
  /\ queue = EmptyBag
  /\ now = 0
  /\ loop = [on |-> FALSE, begun |-> FALSE, left |-> Unlimited]
  /\ switch = [s \in SwitchesOf(topo) |-> IdleSwitch]
  /\ active = <<>>
  /\ stats = [h \in HostsOf(topo) |-> NoStats]
  /\ refused = {}
  /\ delivered = {}

-------------------------------------------------------------------------------
(* Events.  The heap gives the earliest, of those the one of the highest   *)
(* priority, and of those any.                                             *)
Inject(t, p) == [time |-> t, priority |-> 0, kind |-> "inject", packet |-> p]
Cycle(t, s) == [time |-> t, priority |-> 0, kind |-> "cycle", switch |-> s]
Transmission(t, priority, p, from, to) ==
  [time |-> t, priority |-> priority, kind |-> "transmit", packet |-> p, from |-> from, to |-> to]

(* Mutant of Before: the priority decides, and then the time. *)
BeforeByPriority(e, f) ==
  \/ e.priority > f.priority
  \/ e.priority = f.priority /\ e.time < f.time

Before(e, f) ==
  \/ e.time < f.time
  \/ e.time = f.time /\ e.priority > f.priority

IsNext(e) == e \in BagToSet(queue) /\ \A f \in BagToSet(queue) : ~Before(f, e)

-------------------------------------------------------------------------------
(* The switch. *)
Inside(w) == (\E p \in Ports : w.rx[p] # <<>>) \/ (\E c \in Ports \X Ports : w.voq[c] # <<>>)

(* Mutant of HasPendingWork: the packets in the buffer are forgotten. *)
HasPendingInput(w) == (\E p \in Ports : w.rx[p] # <<>>) \/ w.slack > 0

(* A switch may need some more cycles to come to rest after its last packet. *)
HasPendingWork(w) == Inside(w) \/ w.slack > 0

ReceivePacket(w, port, p) == [w EXCEPT !.rx[port] = Append(@, p), !.slack = MaxQuiet]

(* The ports of s that an address may have been learned on: those by which *)
(* packets that bear it as their source come in.                           *)
LearnedPorts(s, dst) ==
  {AttachedTo(topo, h).port :
     h \in {src \in {entries[q].src : q \in DOMAIN entries} \cap Hosts :
             src % AddrMod = dst /\ AttachedTo(topo, src).node = s}}

(* The outputs of a packet.  Where no route is known it is the port the    *)
(* address was learned on, or guessed from it, and the multi-bank hash     *)
(* knows no routes.                                                        *)
HasRoute(s, dst) == hashType = "FullLookupTable" /\ dst \in DOMAIN routes[s]

LookUps(s, in, p) ==
  IF Dst(p) = All THEN {Ports \ {in}}
  ELSE IF HasRoute(s, Dst(p)) THEN {{routes[s][Dst(p)][1].out}}
  ELSE {{o} : o \in {Dst(p) % NumPorts} \cup LearnedPorts(s, Dst(p))}

(* The packet at the head of an input goes to outs; refused, to none. *)
LookedUp(w, in, outs) ==
  [w EXCEPT !.rx[in] = Tail(@),
            !.voq = [c \in Ports \X Ports |->
                       IF c[1] = in /\ c[2] \in outs THEN Append(w.voq[c], Head(w.rx[in]))
                                                     ELSE w.voq[c]]]

Matchings(w) ==
  {M \in SUBSET {c \in Ports \X Ports : w.voq[c] # <<>>} : \A c, d \in M : c[2] = d[2] => c = d}

Transmitted(w, M) ==
  [w EXCEPT !.voq = [c \in Ports \X Ports |-> IF c \in M THEN Tail(w.voq[c]) ELSE w.voq[c]]]

-------------------------------------------------------------------------------
(* Mutant of Pending: one switch at a time. *)
FirstPending ==
  {s \in Switches : /\ HasPendingWork(switch[s])
                    /\ \A r \in Switches : HasPendingWork(switch[r]) => s <= r}

Pending == {s \in Switches : HasPendingWork(switch[s])}

(* What every event ends with.  It leaves the heap, what it gave rise to   *)
(* joins it, and _schedule_pending_cycles adds a cycle for each switch     *)
(* with work, whatever cycles that switch already has.                     *)
Processed(e, events) ==
  /\ UNCHANGED <<hashType, topo, routes, entries>>
  /\ now' = e.time
  /\ queue' = ((queue (-) SetToBag({e})) (+) SetToBag(events))
                (+) SetToBag({Cycle(e.time + CycleTime, s) : s \in Pending'})
  /\ loop' = [loop EXCEPT !.left = IF @ = Unlimited THEN @ ELSE @ - 1]

(* _process_injection.  A trace id used before gets a new record. *)
ProcessInjection(e) ==
  LET entry == entries[e.packet]
      at    == AttachedTo(topo, entry.src)
  IN /\ e.kind = "inject"
     /\ switch' = [switch EXCEPT ![at.node] = ReceivePacket(@, at.port, e.packet)]
     /\ stats' = [stats EXCEPT ![entry.src].sent = @ + 1]
     /\ active' = [id \in DOMAIN active \cup {entry.id} |->
                     IF id = entry.id THEN [packet |-> e.packet, completed |-> Never]
                                      ELSE active[id]]
     /\ UNCHANGED <<refused, delivered>>
     /\ Processed(e, {})

(* _deliver_to_host, for a trace id that is known. *)
Deliver(p, h, t) ==
  /\ delivered' = delivered \cup {<<p, h, t>>}
  /\ IF Id(p) \in DOMAIN active
     THEN /\ active' = [active EXCEPT ![Id(p)].completed = t]
          /\ stats' = [stats EXCEPT ![h].received = @ + 1]
     ELSE UNCHANGED <<active, stats>>

(* _process_transmission: what goes to another switch is gone. *)
ProcessTransmission(e) ==
  /\ e.kind = "transmit"
  /\ IF e.to \in Hosts THEN Deliver(e.packet, e.to, e.time)
                       ELSE UNCHANGED <<delivered, active, stats>>
  /\ UNCHANGED <<switch, refused>>
  /\ Processed(e, {})

(* Mutant of Routed: the address is not compared. *)
RoutedToAnyHost(s, o, p, t) ==
  LET ports == Behind(topo, s)
  IN IF o \notin DOMAIN ports THEN {}
     ELSE IF ports[o] \in Hosts THEN {Transmission(t + HostDelay, 1, p, <<s, o>>, ports[o])}
     ELSE {Transmission(t + SwitchDelay, 0, p, <<s, o>>, ports[o])}

(* _route_packet: to the host behind the port if the packet is addressed   *)
(* to it, to the switch behind the port in any case.                       *)
Routed(s, o, p, t) ==
  LET ports == Behind(topo, s)
  IN IF o \notin DOMAIN ports THEN {}
     ELSE IF ports[o] \notin Hosts THEN {Transmission(t + SwitchDelay, 0, p, <<s, o>>, ports[o])}
     ELSE IF ports[o] = Dst(p) THEN {Transmission(t + HostDelay, 1, p, <<s, o>>, ports[o])}
     ELSE {}

(* What the lookup of one packet can make of a switch; a refused packet    *)
(* goes to no output.                                                      *)
Looks(s, w) ==
  {[w |-> w, refused |-> {}]}
    \cup UNION {{[w |-> LookedUp(w, in, outs), refused |-> {}] :
                   outs \in LookUps(s, in, Head(w.rx[in]))}
                \cup {[w |-> LookedUp(w, in, {}), refused |-> {Head(w.rx[in])}]} :
                  in \in {p \in Ports : w.rx[p] # <<>>}}

(* A call of process_cycle that hands something on. *)
BusyCycle(e, s, w) ==
  \E look \in Looks(s, w), M \in Matchings(w) :
    /\ look.w # w \/ M # {}
    /\ switch' = [switch EXCEPT ![s] = [Transmitted(look.w, M) EXCEPT !.slack = MaxQuiet]]
    /\ refused' = refused \cup look.refused
    /\ Processed(e, UNION {Routed(s, c[2], Head(w.voq[c]), e.time) : c \in M})

(* One that does not; an empty switch may come to rest in any of them. *)
QuietCycle(e, s, w) ==
  /\ Inside(w) => w.slack > 0
  /\ \E k \in IF Inside(w) THEN {w.slack - 1} ELSE 0 .. MaxOf(0, w.slack - 1) :
       switch' = [switch EXCEPT ![s] = [w EXCEPT !.slack = k]]
  /\ UNCHANGED refused
  /\ Processed(e, {})

(* _process_switch_cycle.  The clock of the switch keeps up with the time  *)
(* of the event, and moves on by a cycle in every call.                    *)
ProcessSwitchCycle(e) ==
  LET w == [switch[e.switch] EXCEPT !.clock = MaxOf(@, e.time) + CycleTime]
  IN /\ e.kind = "cycle"
     /\ UNCHANGED <<active, stats, delivered>>
     /\ BusyCycle(e, e.switch, w) \/ QuietCycle(e, e.switch, w)

-------------------------------------------------------------------------------
(* Mutant of Known: no entry is skipped. *)
AnySource(trace) == DOMAIN trace

(* An entry whose source is not a host of the topology is skipped. *)
Known(trace) == {k \in DOMAIN trace : trace[k].src \in Hosts}

(* schedule_packet_injection, before the loop has run. *)
ScheduleTrace(trace) ==
  /\ ~loop.begun /\ entries = <<>>
  /\ entries' = trace
  /\ queue' = queue (+) SetToBag({Inject(trace[k].time, k) : k \in Known(trace)})
  /\ UNCHANGED <<hashType, topo, routes, now, loop, state>>

(* run_simulation.  The limit is the number of events to process, also     *)
(* where it was given as a time; 0 is no limit.                            *)
StartRun(limit) ==
  /\ ~loop.on
  /\ loop' = [on |-> TRUE, begun |-> TRUE, left |-> IF limit = 0 THEN Unlimited ELSE limit]
  /\ UNCHANGED <<hashType, topo, routes, entries, queue, now, state>>

LoopIsDone == queue = EmptyBag \/ loop.left = 0

ProcessEvent ==
  /\ loop.on /\ ~LoopIsDone
  /\ \E e \in BagToSet(queue) :
       /\ IsNext(e)
       /\ ProcessInjection(e) \/ ProcessTransmission(e) \/ ProcessSwitchCycle(e)

(* Mutant of EndRun: the loop continues at the limit where it should break. *)
EndRunWhenEmpty ==
  /\ loop.on /\ LoopIsDone
  /\ loop' = [loop EXCEPT !.on = queue # EmptyBag]
  /\ UNCHANGED <<hashType, topo, routes, entries, queue, now, state>>

EndRun ==
  /\ loop.on /\ LoopIsDone
  /\ loop' = [loop EXCEPT !.on = FALSE]
  /\ UNCHANGED <<hashType, topo, routes, entries, queue, now, state>>

(* reset. *)
Reset ==
  /\ ~loop.on
  /\ queue' = EmptyBag
  /\ now' = 0
  /\ entries' = <<>>
  /\ loop' = [loop EXCEPT !.begun = FALSE]
  /\ switch' = [s \in Switches |-> IdleSwitch]
  /\ active' = <<>>
  /\ stats' = [h \in Hosts |-> NoStats]
  /\ refused' = {} /\ delivered' = {}
  /\ UNCHANGED <<hashType, topo, routes>>

RunLoop == ProcessEvent \/ EndRun

NetNext ==
  \/ \E trace \in Traces : ScheduleTrace(trace)
  \/ \E limit \in Limits : StartRun(limit)
  \/ RunLoop
  \/ Reset

NetSpec == NetInit /\ [][NetNext]_netVars
FairNetSpec == NetSpec /\ WF_netVars(RunLoop)

-------------------------------------------------------------------------------
Events ==
  [time : Nat, priority : {0}, kind : {"inject"},
   packet : {p \in DOMAIN entries : entries[p].src \in Hosts}]
    \cup [time : Nat, priority : {0}, kind : {"cycle"}, switch : Switches]
    \cup [time : Nat, priority : {0, 1}, kind : {"transmit"}, packet : DOMAIN entries,
          from : Switches \X Ports, to : Switches \cup Hosts]

NetTypeOK ==
  /\ hashType \in HashTypes
  /\ topo \in Topologies
  /\ DOMAIN routes = Switches
  /\ entries \in Seq(Entry)
  /\ IsABag(queue) /\ BagToSet(queue) \subseteq Events
  /\ now \in Nat
  /\ loop.on \in BOOLEAN /\ loop.begun \in BOOLEAN /\ loop.left \in Nat \cup {Unlimited}
  /\ switch \in [Switches -> [rx : [Ports -> Seq(DOMAIN entries)],
                              voq : [Ports \X Ports -> Seq(DOMAIN entries)],
                              slack : 0 .. MaxQuiet, clock : Nat]]
  /\ \A id \in DOMAIN active :
       active[id] \in [packet : DOMAIN entries, completed : Nat \cup {Never}]
  /\ stats \in [Hosts -> [sent : Nat, received : Nat]]
  /\ refused \subseteq DOMAIN entries
  /\ delivered \subseteq (DOMAIN entries) \X Hosts \X Nat

(* The simulation never goes back in time: no event left on the heap is    *)
(* earlier than the one processed last, whatever the handlers scheduled.   *)
NothingInThePast == \A e \in BagToSet(queue) : now <= e.time

(* No switch is forgotten: one that has work has a cycle on the heap, and  *)
(* within a cycle time, also when the loop stopped at its limit and will   *)
(* be resumed.                                                             *)
PendingSwitchesRun ==
  \A s \in Switches : HasPendingWork(switch[s]) =>
    \E t \in now .. now + CycleTime : Cycle(t, s) \in BagToSet(queue)

(* Addresses and trace ids that the header carries whole, the ids unique.  *)
Identified(p) ==
  /\ entries[p].dst < AddrMod /\ entries[p].id < IdMod
  /\ \A q \in DOMAIN entries : Id(q) = Id(p) => q = p

ReachedHost(p, h) == \E d \in delivered : d[1] = p /\ d[2] = h

IsLocal(p) ==
  /\ {entries[p].src, entries[p].dst} \subseteq Hosts
  /\ AttachedTo(topo, entries[p].dst).node = AttachedTo(topo, entries[p].src).node

DeliveriesTo(h) == {d \in delivered : d[2] = h}

(* Where the switches follow the routes, which the full lookup table does  *)
(* and the multi-bank hash does not, a packet between two hosts of one     *)
(* switch, to an address that the header carries whole, is received unless *)
(* a buffer refused it or a port of the topology leads to two nodes: none  *)
(* is left in the switches or on the links when the heap is empty, also    *)
(* where the loop stopped and was resumed.  With either hash no packet is  *)
(* received twice, and the count of every host is right.                   *)
LocalPacketsArrive ==
  queue = EmptyBag =>
    /\ (hashType = "FullLookupTable" /\ WellWired(topo)) => \A p \in DOMAIN entries :
         (entries[p].dst < AddrMod /\ IsLocal(p) /\ p \notin refused)
           => ReachedHost(p, entries[p].dst)
    /\ \A d, f \in delivered : d[1] = f[1] => d = f
    /\ \A h \in Hosts :
         stats[h].received \in Cardinality({d \in DeliveriesTo(h) : Identified(d[1])})
                                 .. Cardinality(DeliveriesTo(h))

(* A packet reaches no host but the one its header names.  A record is     *)
(* completed only when a packet whose header bears its id arrives, and     *)
(* where the id fits the header no later than its own packet does.  That   *)
(* is as much as the header tells: where the trace has an address or an id *)
(* that does not fit it, or uses an id twice, the host or the packet may   *)
(* be another than the one meant.                                          *)
RightPacketRightHost ==
  /\ \A d \in delivered : d[2] = Dst(d[1])
  /\ \A id \in DOMAIN active :
       LET record == active[id]
       IN IF record.completed = Never
          THEN id < IdMod => \A h \in Hosts : ~ReachedHost(record.packet, h)
          ELSE \E d \in delivered : Id(d[1]) = id /\ d[3] = record.completed

(* The search finds a path to every host that can be reached by way of     *)
(* switches, and no path is shorter.                                       *)
RoutesAreShortest ==
  \A s \in Switches, h \in Hosts :
    IF h \in DOMAIN routes[s]
    THEN /\ IsPath(topo, routes[s][h], s, h)
         /\ h \notin WithinHops(topo, s, Len(routes[s][h]) - 1)
    ELSE h \notin WithinHops(topo, s, Cardinality(Nodes(topo)))

(* A run ends: the cycles of the switches, which call for more of          *)
(* themselves after every event, die out once the traffic is through.      *)
RunEnds == loop.on ~> ~loop.on

(* What the comment in _process_switch_cycle says the global time is       *)
(* passed for: a switch is at the time of the simulation.                  *)
SwitchesInStep == \A s \in Switches : switch[s].clock <= now + CycleTime
===============================================================================
