# A TLA+ verification project for SPAC

SPAC is a co-design environment for network switches: a DSL that generates a
switch, the HLS sources of the switch, a cycle-accurate simulator of it in
Python, and an ns-3 module that puts the generated protocol stack and the switch
into a network.  This directory models the parts of it that keep state and
decide things, checks them with TLC and proves what holds for every size with
TLAPS.

## 1. Inventory

| Component | Source | State | Operations | What is hard | Correct when |
|---|---|---|---|---|---|
| VOQ buffer | `simulator/src/buffer_voq.py`, sizes in `config.py` | a queue per (input, output) pair, the words in use per memory, counters | enqueue (unicast, broadcast), dequeue, reset | a broadcast is checked and reserved in several memories; two ways to organise the memory; a clamp at zero hides a wrong charge | all copies or none, no memory over-committed, the charge of a memory is what it holds, every flow in order |
| Schedulers | `simulator/src/scheduler_base.py` | a pointer per port (round robin, EDRRM); nothing (iSLIP) | `schedule_cycle`, `process_matches` | fairness under contention, several iterations over one output | a matching; no starvation; the queues drain |
| Switch pipeline | `simulator/src/switch_core.py`, `rx_engine.py`, `hash_engine.py`, `pipeline_common.py`, `packet.py` | per stage: busy phase, remaining cycles, held item; queues between the stages; the forwarding table | `receive_packet`, `process_cycle`: tick, RX, hash, enqueue, schedule, output | stages that hand over one packet while reading the next; initiation intervals; latency; partial dispatch; coming to rest | packets intact, in order, to the right port, each copy sent once, nothing forgotten |
| Network simulator | `simulator/src/simulation.py` | event heap, topology, routing tables, packets under way, host statistics | load a topology, schedule a trace, run up to a limit, inject, transmit, switch cycle, reset | several cycle events of one switch; a limit in the middle; ids and addresses cut by the header; routes in a network with loops | time moves forward; no switch forgotten; each packet delivered once, to its host; a run ends |
| Design-space scan | `tools/dse_scanning_graph/dse_scanner.py`, `simulator/src/config.py` | lists of results, peaks and configurations; the sizes of the queues | scan all architectures, select, size the queues, iterate, write | runs that raise; sizes derived from the peaks of another run; two layouts of the sizes | the best are taken with their own figures; the sizes suffice |
| HLS schedulers | `switch_hls/src/scheduler.cpp`, `scheduler_iSLIP.cpp`, `scheduler_nb1p.cpp` | a word buffer, free list, bitmap and VOQ rings per source; who serves whom | digest a word, transmit a word, reset | words shared by all outputs of a broadcast; flow control through the free list only; several outputs asking one source | the free list, the bitmaps and the rings partition the buffer; packets contiguous on each output; no deadlock |
| HLS RX and hash | `switch_hls/src/rx_engine.cpp`, `hash_engine.cpp`, `switch_top.cpp` | parse state per port, forwarding tables, bank arbitration | parse a word, save, look up | several ports, one bank; last writer wins | a lookup returns what was learned |
| ns-3 switch stacks and ports | `ns3-simulator-demo/nb/model/nb-*-switch-stack.cc`, `nb-*-switch-port-device.cc` | VOQs, forwarding table with ages, round-robin pointers | receive, arbitrate, port idle, age | polling for idle, re-entrance | flows in order, no frame stuck |
| ns-3 devices and channels | `nb-p2p-*`, `nb-csma-*`, `backoff.cc` | transmit state machine, queue, wire state, attached devices | send, transmit start / end / abort, backoff, attach, detach | detaching mid-frame, retries, asserts between events | one frame on the wire; every queued frame sent or counted as dropped |
| NetBlocks runtime | `nb_runtime.cc`, `nb_simple.c`, `nb-stack.cc`, `nb-timer-manager.cc`, client and server applications | connection table, accept and data queues, timers | establish, tear down, send, ingress, accept, read, cycle | callbacks that change the table being walked, fixed arrays, buffer lifetime | a packet reaches the one connection it is for, in order |
| SPAC DSL and generators | `SPAC/src` | none that evolves | layout, binding, code generation | text | not a subject of a state machine |
| Batch tools, traces, build files | `simulator/tools`, `trace_parser.py`, `data`, `nb/build` | none | batch runs, parsing | - | - |

How they interact.  In the simulator everything is calls in one thread: the
event loop injects packets with `receive_packet` and runs `process_cycle` while
`has_pending_work`; within a cycle the stages run one after the other and
communicate through two unbounded queues (`_rx_to_hash_queue`,
`_hash_to_buffer_queue`), the VOQ buffer, the scheduler's list of dequeued
entries and one register per output.  The design-space scan runs whole
simulations, one after the other, and looks at their statistics.  In the HLS switch the engines run
concurrently and are joined by streams.  In ns-3 everything is events: a device
delivers to a stack, the stack calls a port, the port's trace callback
schedules the stack's next arbitration.

`PROJECT.json` lists the hazards with their lines, and which property covers
which.

## 2. Modules

```
OrderedMulticast        abstract: copies owed per flow, in order
  ^ implemented by
VoqBuffer               the packet buffer           <- SwitchCoreProofs, first part
  ^ extended by            MCVoqBuffer: the sizes
SwitchCore              the pipeline, around VoqBuffer and PortSchedulers
  |                        <- SwitchCoreProofs
  |                        MCSwitchCore: traffic and bursts
  v uses
PortSchedulers          the three matching algorithms as functions
  ^ extended by            <- PortSchedulerProofs, under SchedulerProofs and SwitchCoreProofs
Schedulers              one of them on its own      <- SchedulerProofs

HlsArbiters             the two output arbiters of the hardware, as functions
  ^ extended by            <- HlsArbiterProofs, under both proofs below
HlsService              endless traffic, no memory: fairness  <- HlsServiceProofs
HlsScheduler            the memory and the digest, finite traffic
                           <- HlsSchedulerProofs
                           MCHlsScheduler: the traffic

Cyclic                  ports in a circle, under both families

Topology                links, attachment, breadth-first routes
  ^ extended by
NetworkSimulator        events, traces, switches as promised above
  |                        <- NetworkProofs
                           MCNetworkSimulator: networks and traces

SwitchConfig            sizes of the queues in a configuration
  ^ extended by
DesignSpaceScan         the two phases of the scan  <- DesignSpaceProofs
                           MCDesignSpaceScan: the architectures
```

**OrderedMulticast** is what a buffer, or the whole switch behind the lookup,
promises: a packet is taken for all its outputs or for none, and then each copy
leaves once, in order within its (input, output) flow.  An offer names the
outputs it asks for (`request`, which the mapping takes from the code's packet
and not from what the buffer did with it), so an implementation that takes a
broadcast for some of them only does not refine it.  `Clear` forgets what is owed,
and may only be mapped to by a step that sets `offered` and `request` back as
well, which the reset alone does.

**VoqBuffer** is `OneBufferPerPortBuffer` and `NBuffersPerPortBuffer` in one:
`Cell` and `Limit` say which memory a queue is charged to and how large it is
(the classes differ in nothing else), `bufferType`, chosen in the first state
and kept, which class it is, `used` is `voq_used_bytes` in words,
`stats` the counters.  `EnqueuePacket`, `DequeuePacket` and `Reset` are the
three methods.  Packet numbers are labels the code does not have, and so is
`request`, the arguments of the last `enqueue_packet`.

**PortSchedulers** has the matching of one `schedule_cycle` as a set of
pairs, and the pointers after it.  A loop with a moving pointer becomes
`FirstFrom`, the first member of a set in cyclic order; `output_pointer` of the
round-robin class only turns the order of the list and is left out.  iSLIP's
iterations are kept apart (`ISlipRounds`), because `output_busy` is set only
when `process_matches` dequeues: `FirstPerOutput` is that filter.
`backoff_counters` is read by the code but never filled.  The fourth iteration
is the last (`max_iterations`); the code stops earlier only when every input is
matched, and then an iteration finds nothing.

**Schedulers** is a scheduler on its own: packets arrive until the trace is
closed, and `ScheduleCycle` is `schedule_cycle`, `process_matches` and
`end_cycle`.  `type`, chosen in the first state and kept, is what
`create_scheduler` makes.  `served`, `wait` and `busyWith` are history variables;
`wait` saturates at `NumPorts`, one more than what is claimed of it.

**SwitchCore** is `SwitchCore.process_cycle`.  `stage` says which method runs
next, and each method is one action: `TickAllModules`, `ProcessRxStage` (all
ports), `ProcessHashStage`, `ProcessBufferEnqueue`, `ProcessSchedulerStage`,
`ProcessOutputStage(o)`.  Packets arrive (`ReceivePacket`) between cycles, at
any moment, as the event loop injects them.

- A word on the bus is the pair <<packet, k>>; the last word of a packet is
  known by its number.  An item is the port, the packet whose header gave the
  metadata, and the words collected: exactly what can go wrong in the RX stage.
- The flags of `PipelineState` (`processing`, `output_ready`, `output_busy`,
  `input_busy`) are never set together; `phase` is the one that is.  `left` is
  the remaining counter of that phase, `ii` the stage's own interval, `engine`
  the refusals the hash engine has left.
- The RX engine's own interval is 1 in every configuration, so its engine never
  refuses a word and the stage never waits for it.
- `CyclesPerWord`: `calculate_transfer_cycles` of a handover counts 64 bytes
  per word whatever the bus, the output stage counts real words.
- `fwd` is a function of what the tables are addressed by (`Key`): a slot per
  address in the full lookup table, bank and residue in the multi-bank hash.
- `offeredAs`, `taken`, `sent` and `resent` are history variables of the
  properties.
- `ResetSwitch` is `reset`, between cycles.  It starts all engines afresh, and
  the pointers of every scheduler that has one.

**HlsArbiters** is the output transmission of the hardware schedulers.  The
registers `tx_busy`, `tx_serving_sp`, `tx_next_sp`, `sp_busy` and `sp_next_dp`
are one record, with a field `kind` that says which arbiter was built and never
changes; `Sends` says which pairs move a word in a call and
`AfterSends` what the registers are then.  `RRSends` is the `asked` loop, where
of several destinations the last overwrites the others; `ISlipSends` the grant
and accept stages.  A scan that wraps around is again `FirstFrom`.

**HlsService** puts the arbiters over queues that are counters, with packets
arriving for ever, a word per call and source, with gaps, unicast or broadcast.
`Underway` is what `digest_states` and `digest_dp` hold.  It is there for what
needs endless traffic, and for the proofs.

**HlsScheduler** is a whole scheduler: `Call` is one call of the function, the
digest of every source and then the transmission, over a snapshot of which
queues had a word.  `mem` has the free list and the rings as sequences (`Ring`:
a ring with `Depth` entries reads as empty, since heads and tails are numbers
modulo `Depth`), the words and the bitmaps; `storage` and the arbiter's `kind`,
chosen in the first state together with the traffic (`Cases`), say which of the
three source files it is.  The streams from the RX and hash engines are not
variables: how far they are filled is chosen anew in each call (`Streams`), and
a header is there before its metadata.  So `IDLE_meta_valid` never stays set,
and `held` is `IDLE_data_valid`.  `Settle` says that the engines before have
done their work, after which the streams hold all that is offered.

**Topology** is `load_topology` as operators on the sequence of the file's
lines: `Behind` and `AttachedTo` are the `ports` and `connected_*` entries a later
line overwrites (`LastOf`), `Explore` one turn of the search's loop and `Visit`
one turn of the loop in it, `PathTo` the walk back through `parent_map`.  A host
is explored no further, as in the code, so a route leads through switches alone.
The loops are functions of the number of turns taken, the search's with as many
turns as there are nodes.  `WithinHops` is the reference definition of distance
the routes are compared with.  A topology is a file the code gets through: a line
has a switch on one end, since `_setup_host_link` has no entry for a line
between two hosts, and the ports of a switch are those it has.

**NetworkSimulator** is the event loop.  `queue` is the heap, a bag, because
there may be several equal events; `IsNext` is `__lt__`, and of events it does
not tell apart any is taken, since `heapq` is not stable.  Each kind of event has
its action, and each ends with `Processed`: the event leaves, what it gave rise
to joins, and `_schedule_pending_cycles` adds a cycle for each switch with work.
`loop.left` is `max_cycle_limit - cycle_count`.  `entries` is the trace, and a
packet is its number in it; what the header keeps of its address and id is `Dst`
and `Id`.

A switch in it is not `SwitchCore` but what the runs of SwitchCore show of one
(`ImplementsMulticastToWire`, `SwitchDrains`): packets wait at an input, are
looked up in order, are taken for all their outputs or refused, and leave in the
order of their flow.  How far a call of `process_cycle` gets is open, in one step
for the lookup and one matching, but for `slack`: at most `MaxQuiet` calls in a
row hand nothing on.  `hashType` is the hash engine of the configuration, the same
for all switches.  A lookup in the full table gives the port of the route where
there is one (`HasRoute`); the multi-bank hash never reads `routing_table`.  Without
a route it gives the port the address was learned on or `dst_addr % num_ports`:
any of them (`LookUps`), since what is learned when, and which address is pushed out
of its slot, is the subject of SwitchCore.  Whether a guessed port leads to the
host is a matter of the topology, and a packet at another host's port is dropped
by `_route_packet`.

The promise holds of packets of certain lengths only, and `Entry` admits no
others: at least `RxLatency` words, else the RX stage merges packets
(switch_one_word), and at most `SchedLatency + 1`, else a copy may be sent twice
(switch_overlong).  Where `RxLatency > SchedLatency + 1` there is no such packet and
what is said of traces is empty; no configuration of `LatencyEstimator` is like
that.

**SwitchConfig** and **DesignSpaceScan**: `RunConfig` or `ConfigRaises` is a turn
of the first loop, `SelectCandidates` `select_top_n_candidates`, `SizeQueues` and
`Iterate` the call and a turn of the loop of `run_phase2_optimization`.  What a
simulation reports is chosen freely for an architecture and its `demand` kept:
the code is deterministic, so the second phase meets the same traffic.  This is
for topologies of one switch: `run_single_simulation` reads the statistics of the
first switch only, and with several, what another one drops for its smaller
queues could change the cycle events, and so the demand, of the first.  The branch
of the growth step that doubles all sizes is left out: it is for a simulation
that reports no peaks, and every buffer reports them.  It drops
nothing iff each queue has room for its demand, and the peak of a queue that
drops is its size.  `"few"` and `"many"` are drop rates on either side of
`max_drop_rate`.  The sort is stable, so exactly one sequence is in its order:
`Sorted` names it instead of computing it.  The loops of the selection and the
sum of the sizes are recursive functions of the position reached.
`NextPowerOf2` goes by the bit length, as the code does, and `PowerOf2` is
defined by doubling.

## 3. Runs

| Run | Question | Bounds |
|---|---|---|
| voq_buffer | is every word accounted for, and the buffer an ordered multicast? | 3 ports, so a broadcast reserves in two memories of different size (2 and 3 words) and can fail in one; 3 packets of 1 or 2 words fill and overflow them; resets at any time; both organisations (per pair, the diagonal has no memory).  A buffer that takes a broadcast where there is room, and only there, is not an ordered multicast |
| schedulers | matching, waiting, starvation, drain, for all three | 2 ports, queues up to 2: contention, refilling and emptying all happen, iSLIP's longest queue has rivals, and an output is matched in two iterations |
| switch_round_robin | the pipeline under arbitrary arrivals | 2 ports, 3 packets of 2 or 3 words to any host, to all, or back; a multi-bank hash in which the addresses 0 and 4 share a slot, and the one the tables do not hold is not behind the port they guess; small memories drop some |
| switch_burst | backlog, partial dispatch and rest | up to 6 packets queued before the first cycle; one or two of them as long as the dispatch interval allows; both organisations of the memory |
| switch_one_word | are one-word packets kept apart? no | two of them |
| switch_overlong | may a packet be longer than that interval? no | one word more |
| hls_arbiters | the hardware arbiters: locking, matching, order, drain | 2 ports, packets of 2 words with gaps, two per queue, both arbiters; for any size by proof |
| hls_scheduler | are the memories kept in order, and is what fits delivered? | 3 ports, so that a word has two copies to send; 4 entries, 3 usable: two packets of port 0, each unicast or broadcast, of up to 3 words or one of 5, run into the limit, with a competitor at port 1; the rings per pair get up to 3 words each |
| hls_broadcast_stuck | do broadcasts get through? no | 4 ports, the code's 8 entries, two broadcasts of 4 words |
| network | does every packet arrive, once, where it should, and does a run end? | one switch with three hosts (one of them 17, which aliases 1, and one on a line that is there twice), one with two hosts on one port, two switches, and a ring of five, whose two ways round differ; traces of two or three packets that meet, share an id or alias in the header, or go to all or nowhere; a limit of two events, to stop in the middle, and none; resets between runs; switches that take up to two calls for a packet's next step; either hash engine |
| network_in_step | is a switch at the time of the simulation? no | one switch, two packets at one time |
| design_space | are the best taken, and do their optimized sizes suffice? | 3 architectures of both layouts, 2 of them taken; 2 ports; demands of 0, 4, 5 and 9 against queues of 2 to 8: at, above and beyond a power of two; any of the runs may raise |

Some of what a configuration chooses (buffer organisation, scheduler, arbiter,
memory) is chosen by the first state, so that one run covers the alternatives.
EDRRM is checked on its own but is not the scheduler of a pipeline run; per-pair
memories are part of switch_burst only.

Latencies and intervals are the values `LatencyEstimator` gives for small
switches (RX 2; full lookup 2 with interval 1, multi-bank 4 with 3; round robin
2 / 1, EDRRM 4 / 2, iSLIP 6 / 4).  A packet of one word is possible only with
the widest buses and shortest payloads, which is why the runs that are to pass
use two words and more and one run is about one-word packets alone.

What the failing runs say about the code:

- *switch_one_word*: the RX stage reads a further word while it waits out its
  latency even when the packet is complete.  A header that is already queued is
  swallowed: two packets become one item, and the second one's metadata is
  dropped at the next start.  From two words on the last word of a packet comes
  no earlier than the last cycle of a latency of two, and nothing is swallowed.
- *switch_overlong*: `_process_scheduler_stage` keeps its list whole when one
  output of it is busy, so the entries it did load are loaded again when their
  outputs are free.  This needs a packet longer than the cycles between two
  dispatches (seven words under iSLIP) and a second output in the same list.
- *hls_broadcast_stuck*: the words of a broadcast stay until every output has
  sent them, but only one output at a time has the source (`sp_busy`).  The
  first output has taken the first broadcast and starts on the second, whose
  last word the full free list keeps out; the others wait for the source to send
  the first.  A single broadcast of 8 words is stuck as well.
- *network_in_step*: every event adds a cycle for every switch with work,
  whatever cycles it has on the heap.  Two packets injected at one time leave
  two cycles at one time, and since `process_cycle` moves a switch's clock on in
  each call, the clock gets ahead of the events, by more the more packets meet.
  The latencies a switch reports are by its own clock, those of the network by
  the time of the events.

Observations made while modelling, most of them with other values of the
constants:

- The iSLIP of the simulator, called "iterative round-robin with priorities",
  has a fixed priority, `min(requesters)`: `NoInputStarves("iSLIP")` fails with
  two ports.
- In the hardware round robin `tx_next_sp` moves in every call, busy or not.
  After a packet of as many words as there are ports it is where it was before,
  and with endless traffic of such packets the other source starves.  With
  packets of one word every queue is served.
- The hardware iSLIP does not serve every queue even then: all pointers start at
  0 and a destination's moves even if its grant is not accepted, so both
  destinations grant source 0, then both source 1, and the sources' pointers
  turn in the same step: the pairs (0, 1) and (1, 0) are never served while
  (0, 0) and (1, 1) have traffic.
- The rings of the per-pair scheduler are filled without a check: with a word
  per call from one source and an output that comes round every `NumPorts`
  calls, the eighth word makes head and tail equal, and the ring's words are
  lost (`WordsAccountedFor` with 16 packets of one word).  The traffic of
  hls_scheduler fits its rings, so that run does not meet this;
  `FittingLosesNothing` is the bound within which it cannot happen.
- With the multi-bank hash a packet between two hosts of one switch need not
  arrive: the lookup ignores the routes, and where the destination has not sent
  yet it guesses `dst_addr % num_ports`.  If another host is at that port the packet
  is dropped, counted nowhere.  `LocalPacketsArrive` claims arrival for the full
  lookup table only.
- A port that two lines of a topology give to two hosts leads to the last of them
  (`_setup_host_link` overwrites the entry): both send through it, and a packet for
  the first is routed to the port and dropped there.  Nothing checks the file for
  it; `LocalPacketsArrive` asks for `WellWired` where a packet is to arrive.
- A copy of a broadcast is never delivered: the address of no host is -1.
- What is sent to another switch is dropped by `_process_transmission`, which
  delivers to hosts only, although the class "Supports cycle-accurate simulation
  for single and multi-switch topologies" (`simulation.py:57`).
  `LocalPacketsArrive` is about packets within one switch for this reason, and
  nothing is claimed of the others.
- The header word has four bits for an address and fifteen for a trace id; the
  trace and the topology have no such bound (`tools/topology/dse_32nodes.csv` has
  hosts 0 to 31, `pcap_to_trace.py` numbers packets without end).  A packet for
  host 17 is handed to host 1; a packet with id 32768 completes the record of id 0
  and leaves its own open for ever.  A trace id used again before the first packet
  has arrived takes over its record.  The traces of the network run have all three.
  `RightPacketRightHost` says what the header allows to be said: which host its
  address names, and which packets, those bearing the id, may complete a record.
  It does not say that they are the ones meant, and by the above they need not be.
- `max_time_ns` limits the number of events, as `max_time_ns / cycle_time_ns`;
  an event is not a cycle.  A limit that comes out as 0 is none.
- `hops` and `path` are never updated.
- A trace scheduled after a limited run may lie before the time reached; the
  model schedules one before the loop has begun.
- A route through a port the switch does not have raises an IndexError; the
  topologies of the model have only ports of the switch.
- `examples/experiment_8port_islip.py` calls
  `schedule_packet_injection_from_host`, which the simulator does not have.
- In phase 2 of the scan the sizes already fit in the first iteration, so the
  growth between iterations is never needed (`OptimizedSuffices`).  This holds
  while the large size is a power of two; otherwise the optimized sizes may take
  more memory than before.
- A simulation that raises in phase 2 loses the results of phase 1 too: they are
  written at the end.

The pipeline specifications stop when the packets of the instance are used up, which is
why those runs do not check for deadlock; what must not stop early is
stated by `QuiescentIsDone` and `SwitchDrains`.

### Fairness

The only fairness assumed is that the program goes on: WF on `ScheduleCycle`,
and on `Cycle` for the pipeline.  `_schedule_pending_cycles` pushes another
cycle for every switch that `has_pending_work`, and a cycle is one function
call.  Arrivals are never fair: a trace may end at any point.  `TickAllModules`
is enabled only while `has_pending_work`; the event loop can also run a cycle
it had scheduled before the switch came to rest, which finds every stage idle
and only lets the interval counters run down.  For the event loop it is WF on
`RunLoop`: the loop goes on once called.  That somebody schedules a trace, calls
`run_simulation` again or resets is never assumed.  A switch that has work comes
on within `MaxQuiet` calls; this is the latency of its stages, and part of what
it is taken to be rather than fairness.

The hardware calls its scheduler for ever, whatever there is to do: WF on
`Call` (in HlsScheduler, where it is costly to evaluate, only of the calls after
`Settle`, which is less).  WF on `Settle` in HlsScheduler: the RX and hash engines run freely, and
their streams are 64 deep, more than the traffic of any run.  Arrivals in
HlsService are not fair, except that a packet that has begun arrives whole.

## 4. Proofs

**SwitchCoreProofs** begins with the theorems about the buffer on its own (the
specification of VoqBuffer, which SwitchCore extends), for any number of ports,
both organisations, any sizes and packet lengths:

- `TypeCorrect`.  The clamp at zero is what makes the type of `used` inductive
  by itself.
- `MemoryBounded` (`WithinLimits`).  Both the use of a memory and its recorded
  peak stay within its limit; inductive given the types.
- `AccountingExact` (`UsedIsWhatIsQueued`) and `OccupancyExact`
  (`OccupancyIsCopiesQueued`).  `Accounting` is inductive: the words queued in a
  cell are a set, and so are the places taken in all queues, and both are
  finite.  `WordsGrow` and `WordsShrink` say by how much one enqueue and one
  dequeue change the first, `PlacesGrow` and `PlacesShrink` the second.  A dequeue
  moves every later entry up by one place, so the proof counts along the map from
  the new places to the old ones.  What a dequeue gives back was charged, so
  the clamp is never reached.
- `FlowsInOrder` (`QueuesInOrder`).  Every queue ascends and holds nothing
  younger than the last packet offered.
- `Refinement` (`ImplementsOrderedMulticast`).  `QueuesInOrder` is the
  strengthening that is needed: the entry at the head of a queue is the oldest
  copy the flow is owed, and no other entry of the queue has its number.  An
  enqueue owes a copy for each of the outputs of `request` or changes no queue, and
  a reset is the abstract `Clear`.

**PortSchedulerProofs** has the lemmas about `Offset`, `Succ` and `FirstFrom`
that carry the cyclic arithmetic of all schedulers, and what holds of one cycle
of each of the three: its matches may be dequeued (`RRDequeuable`,
`EDRRMDequeuable`, `ISlipDequeuable`), that is, they are of queues with a packet,
and no two are of one output or, but for the round robin, of one input.  For
iSLIP `IterationMatches` says so of an iteration, whose inputs are none of those
matched before.

**SchedulerProofs**, for any number of ports and any queue bound:

- `SchedulersInvariant` proves `IInv`: the types, the matching property, and two
  facts about pointers.  `PointerApproaches`: the cycles a queue has been passed
  over plus the distance of its output's pointer to it never exceed
  `NumPorts - 1`.  `PointerRests`: the pointer of an EDRRM input is at the queue
  the input has not drained, and that queue holds a packet.
- `SchedulersTypeCorrect`, `OneMatchPerPort`: each algorithm's matches may be
  dequeued.
- `BoundedWaiting` follows from `PointerApproaches`; `BoundedWait` alone is not
  inductive, since it does not say where the pointer is.
- `ServiceIsExhaustive` follows from `PointerRests`: the scan of an input starts
  at the queue it rests on.

**The rest of SwitchCoreProofs**, for any number of ports, traffic, latencies and
intervals, both hash engines, both organisations of the buffer and all three
schedulers, through resets:

- `CoreTypeCorrect` (`CoreTypeOK`).  `PipelineOK` is the inductive invariant: it
  narrows the types to packets that have arrived, says that a stage which holds
  an item holds one of at least one word, and that a counter runs only in the
  phase it belongs to.
- `GoesWhereLearned` (`GoesWhereLastSeen`).  `LookedUp` strings together the
  items that have been looked up, whether offered, queued for the buffer or held
  by the hash stage; `TableIsLearned` says of each slot that it holds what the
  last of them taught it, and `RoutedByTable` of each item that it got the port
  its destination had at that moment.  Both are needed: the table changes while
  the item waits for the buffer.
- `OfferedInOrder` (`ArrivalOrder`).  `OrderInv` orders the packets of an input
  along the whole pipeline, from those offered to the words not yet parsed; it
  holds for every latency, also where words of two packets are merged.
- `OfferedWhole` (`PacketsIntact`) and `QuiescentWhenDone` (`QuiescentIsDone`),
  if no packet has fewer words than the RX engine has cycles of latency
  (`LongEnough`).  `WholeInv` says where in a packet each RX engine is: in the
  middle of one its remaining latency is `RxLatency` less the words collected, so
  the latency is over before the next header is at the head of the queue.
  `NoneLost`: every packet is somewhere on the way.
- `NoCopyLost` (`CopiesConserved`), `NoCopySentTwice` (`SentOnce`) and
  `SwitchIsOrderedMulticast` (`ImplementsMulticastToWire`), if moreover no packet
  has more words than the latency of the scheduler and one (`ShortEnough`).
  `CopiesInv`, that the copies taken are those in the switch and those sent,
  needs no condition.  `TimingInv` bounds the words an output has left by the
  calls of the output stage that come before the next dispatch (`Remaining`), so
  all outputs are idle when a list is dispatched, and it is dispatched whole.
  `FlowInv` then says that of one flow the copies sent are older than those on the
  wire, these than those on the list, and these than those queued.
- `SwitchMemoryBounded` (`WithinLimits`) and `SwitchAccountingExact`
  (`UsedIsWhatIsQueued`, `OccupancyIsCopiesQueued`): what is proved of single
  calls holds of the pipeline, where one cycle dequeues all matches.  No two
  of them share an output, hence none share a cell (`ScheduleFrees`).
- The two conditions are where the code stops being right: the packets of
  switch_one_word are one word shorter than the first allows, those of
  switch_overlong one word longer than the second.
- A reset is a step of the specification of all theorems.  In the refinement it is
  `Clear`, which numbers the packets anew as the code's reset does, and no other
  step forgets a copy.

**HlsArbiterProofs** has what holds of a call of either hardware arbiter.
`Fits` is the interface: both choose transfers that fit the registers
(`RRFits`, `ISlipFits`), and from there on no proof asks which arbiter it was.
`LockedKept`: sources and destinations keep holding each other.

**HlsServiceProofs**, for any number of ports and any packet length:

- `PacketsStayLocked`, `CallsAreMatchings`, `PacketsContiguous` under both
  arbiters, `RoundRobinNobodyOverrules` under round robin.  The inductive
  invariant `IInv` ties what is sent in part to the registers (`Served`); that
  ports hold each other (`Locked`) keeps it, and `Apart`, pointers that never
  meet because they all move by one, is what keeps destinations from asking the
  same source.
- `TypeCorrect`, by the invariant `Room`: what a queue holds and what was sent of
  its first packet is at most `Cap` whole packets, so that a packet that was
  begun always has room for its next word.

**HlsSchedulerProofs**, for any number of ports, any depth of the buffers and
any traffic, and for the three schedulers alike:

- `TypeCorrect` and `FreeListCorrect` (`BufferPartitioned`) hold whatever
  happens.  The inductive invariant `MemoryInv` says, source by source, that no
  address is on the free list or in a ring twice, that an address is free iff
  its bitmap is empty and in the rings its bitmap names (`Partition`), that a
  ring has fewer than `Depth` entries, and which words are digested and queued
  (`View`); that ports hold each other (`Locked`) says which heads a call takes.
  A ring that holds no address twice can never be full (`DistinctIsShort`): this
  is why the rings of the shared buffer need no check of their own.
- `NothingLost` (`WordsAccountedFor`) and `NothingTorn` (`PacketsWhole`) hold
  where no word is written to a ring with only its last entry free
  (`NeverFull`).  `WordsInv` is inductive given `MemoryInv`: what an output has
  sent of a source and what waits for it there are the words digested for it, in
  order, and an output that is in the middle of a packet has sent the words of
  it before the next one (`Sending`).
- `FittingLosesNothing` and `FittingTearsNothing` have no condition on the
  behaviour: `Fitting` is a condition on the traffic, and only for
  scheduler_nb1p.cpp, whose rings are filled without a check: the words of a
  pair must be fewer than its ring has entries.  The two schedulers with a
  shared buffer are fitting by themselves.

**NetworkProofs**, for every topology, trace, limit and delay:

- `TimeInvariant` proves `InTime`: what is on the heap is not before the time
  reached.  That an event is the first of the heap (`IsNext`) and that no handler
  schedules earlier than its own time (`RoutedLater`) keep it; that a loop which
  is on has begun, and the time is 0 until then, is what a trace that is
  scheduled needs.  `TimeMovesForward` (`NothingInThePast`) follows.
- `NoSwitchForgotten` (`PendingSwitchesRun`): inductive given the times, since
  every event renews the cycles of all switches with work (`EventKeepsCycles`),
  and only events give a switch work.
- `PacketsReachTheirHosts` (`RightPacketRightHost`).  The inductive invariant
  `PacketsInv` follows a packet through the network.  It awaits its injection or
  has `Entered`; the switches hold, and transmissions carry, only what has
  entered (`SwitchStates`, `EventsInOrder`); a transmission to a host is of a
  packet addressed to it (`RoutedRight`); and the record of a trace id is of a
  packet with that id, and completed only by a packet whose header bears it
  (`RecordsRight`).  That an injection is on the heap once is what keeps a packet
  from entering twice, which would make a completed record new again
  (`NoMoreInjections`).  The theorem is about header fields and holds for every
  trace; that ids and addresses in the header are those of the trace is claimed
  nowhere, and is not so.
- `NetTypeCorrect` (`NetTypeOK`) is the type part of the same invariant, with a
  lemma on what a host's line leads to (`AttachedToSwitch`: the other end is a
  switch and one of its ports).
- `RoutesCorrect` (`RoutesAreShortest`).  A search of any length is followed by
  its number of turns.  `SearchRight` says what stands after each: the tree in
  `parent` has a depth for every node in it, the nodes left in the queue are of
  two depths at most, the smaller first, and every neighbour of a switch that left
  the queue is in the tree, one deeper at most (`Reached`); a turn keeps it
  (`SwitchExplored`, `HostExplored`).  `SearchEnds` shows that as
  many turns as there are nodes empty the queue, `DepthsRight` that a depth is
  the distance of `WithinHops`, and `PathRight` that the walk back through the tree
  is a path of that length.  The induction theorems of the library, whose
  parameter is an operator, are not used: `Induct` and `Recursion` are proved here
  from the least number principle, for sets and functions.
- `LocalPacketsDelivered` (`LocalPacketsArrive`), from three more invariants.
  `InOnePlace`: a packet for one host is once in one queue of one switch, or in one
  transmission that is on the heap once, or delivered once; a lookup moves it
  between queues (`LookHeld`), a matching takes it from one (`TransmitHeld`), and
  that a switch takes it from its queue and sends it in one event is why it cannot
  be in two of the three.  `CountsRight`: the count of a host is at most its
  deliveries and at least those of identified packets, because a delivery is new
  each time.  `NoneAstray`: with the full lookup table, a packet between hosts of
  one switch that no buffer refused awaits its injection, waits in its switch, after the lookup in a queue of
  the port the route gives, is on the line of its host, or is there.  The port is
  the right one because the route to a neighbour is one link (`NeighbourRoute`, by
  the depths above) and in a well wired topology that link's port leads back to the
  host (`LocalRoute`).  With the heap empty, `NoSwitchForgotten` leaves no packet
  in a switch.

**DesignSpaceProofs**, for every list of architectures without repetition, any
number of ports, candidates and iterations, and whatever the simulations report:

- `ScanInvariantHolds` proves the inductive invariant of three parts.
  `DemandsKnown`: every architecture tried has raised or has a demand.
  `ListsAligned`: `results`, `sim_results_data` and the configurations beside
  them hold, place by place, what one run reported, each run that did not raise
  once.  `StageInStep`: from the selection on, the candidates are what
  `select_top_n_candidates` makes of the lists, and each that is handled took one
  iteration.  Neither property is inductive without them: both speak of the end
  of a phase, and what makes them true is how the lists were filled.
- `BestSelected` (`SelectedAreBest`).  The place of a clean run in the sorted list
  is the number of runs before it (`SortedExists`), and there is no other such
  list (`SortedIs`).  As no two candidates share an architecture, the first loop
  takes the first `TopN` of them (`PickedIs`) and the second finds nothing to add
  (`NothingToFill`), so the selection is the head of the list (`SelectTopNIs`).
- `SizingSuffices` (`OptimizedSuffices`).  `PowerOf2Grows` and `BitLengthIs` give
  `NextPowerOf2Is`: the size is at least the peak, at most the large queue it was
  measured in, and less than twice the peak or the least size.  With this the
  first iteration drops nothing (`OptimizedIsEnough`).  For the total, a sum
  of bounded sizes is bounded by their number (`SumBounded`), and a square of
  queues by its places off the diagonal, which has no memory (`SquareBounded`).
- The proof showed that the stand-in for a run that raised must have a latency
  that no report has: with one port and a memory per pair there are no queues, so
  a report without demands could have equalled it.  `Raised` has latency -1.

All theorems need only the named assumptions on the constants, and where a
condition on the behaviour is needed it is part of the statement, as said above.
Every safety property that a run checks and expects to hold is stated by a
theorem.  Only model-checked is what needs fairness (no starvation, draining,
that a packet arrives, that a run ends): liveness and ENABLED are out of reach of
the prover used here.

## 5. Plan

1. (done) buffer, schedulers, pipeline.
2. (done) HLS arbiters and schedulers, with the partition of the buffer and
   the fate of every word as theorems; left: resets under traffic.
3. (done) Event loop of the simulator; the design-space scan.
4. Proofs.  (done) The pipeline: types, order, routing, whole packets, the
   conservation of copies and the refinement; the network: times, routes, the way
   of a packet; the scan: its selection and its sizes.
5. HLS RX and hash engines: bank arbitration, learning, the pairing of words
   and metadata; then the three engines composed.
6. ns-3 switch stack with its ports: VOQ order, idle polling, a
   matching in every arbitration, aging.
7. ns-3 CSMA and point-to-point devices over their channels: transmit state
   machine, backoff, attach and detach.
8. NetBlocks runtime: connection table, accept and data queues, callbacks.
9. The pipeline with EDRRM and per-pair memories under arbitrary arrivals, as
   further choices of the first state of the runs there are.

## 6. Not modelled

The HLS RX and hash engines, the ns-3 stacks, devices and channels and the
NetBlocks runtime are planned, and their hazards listed, but no module covers
them yet.  Not modelled and not planned: the SPAC DSL and its generators
(sequential text transformation), statistics and logging, area estimates, the
batch tools, and the formats of traces, topologies and configuration files.
