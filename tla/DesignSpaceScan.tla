---------------------------- MODULE DesignSpaceScan ----------------------------
(***************************************************************************)
(* The design-space scan of tools/dse_scanning_graph/dse_scanner.py.       *)
(* Phase 1 simulates every architecture with large queues and keeps what   *)
(* the runs that did not raise report; the best that drop nothing are      *)
(* selected; phase 2 sizes their queues by the peaks of phase 1 and        *)
(* simulates again, up to MaxIterations times.                             *)
(*                                                                         *)
(* Of a simulation the scan sees how full the queues were, the latency,    *)
(* the throughput and the drops.  A simulation is deterministic: the       *)
(* demand of an architecture is what it uses where memory is no limit, and *)
(* it drops nothing iff every queue has room for its demand.  That is of   *)
(* the one switch whose statistics the scan reads: with more switches in   *)
(* the topology the demand would have to depend on what the others drop.   *)
(***************************************************************************)
EXTENDS SwitchConfig

CONSTANTS
  Architectures,  \* sequence of [key, buffer]: hash, buffer, scheduler and width of a design
  NumPorts,
  LargeVoqSize, MinVoqSize,
  TopN,           \* how many candidates phase 2 takes
  MaxIterations,
  Amounts,        \* bytes a queue may come to hold
  Latencies, Throughputs

PowerOf2[k \in Nat] == IF k = 0 THEN 1 ELSE 2 * PowerOf2[k - 1]

ASSUME ScanAssumption ==
  /\ {NumPorts, MinVoqSize, LargeVoqSize, TopN, MaxIterations} \subseteq Nat \ {0}
  /\ MinVoqSize <= LargeVoqSize /\ \E k \in 0 .. LargeVoqSize : LargeVoqSize = PowerOf2[k]
  /\ Amounts \cup Latencies \cup Throughputs \subseteq Nat
  /\ Architectures \in Seq(Range(Architectures))
  /\ \A k, m \in DOMAIN Architectures : Architectures[k].key = Architectures[m].key => k = m

VARIABLES
  stage,       \* "phase 1", "phase 2" or "written"
  scanned,     \* number of architectures tried
  results,     \* of the runs that did not raise
  simResults,  \* sim_results_data: the peaks of those runs
  configsRan,  \* and their configurations
  selected,    \* top_candidates
  sizes,       \* current_voq_sizes of the candidate in hand; empty before it is sized
  phase2,      \* phase2_results
  handled,     \* number of candidates phase 2 has finished with
  demand       \* the demand of each architecture, once it is known

scan == <<results, simResults, configsRan>>
scanVars == <<stage, scanned, scan, selected, sizes, phase2, handled, demand>>

(* generate_phase1_configurations. *)
Configs ==
  [k \in DOMAIN Architectures |->
     [key |-> Architectures[k].key, buffer |-> Architectures[k].buffer, ports |-> NumPorts,
      global |-> LargeVoqSize, sizes |-> <<>>]]

ScanInit ==
  /\ stage = "phase 1" /\ scanned = 0
  /\ results = <<>> /\ simResults = <<>> /\ configsRan = <<>>
  /\ selected = <<>> /\ sizes = <<>> /\ phase2 = <<>> /\ handled = 0
  /\ demand = <<>>

-------------------------------------------------------------------------------
Fits(cfg, need) == \A q \in Queues(cfg) : need[q] <= GetVoqSize(cfg, q)

(* run_single_simulation.  A queue that cannot hold its demand drops, and  *)
(* its peak is its size; the share of the drops is above max_drop_rate or  *)
(* not ("few").  Peaks are always reported, so that the sizes are never    *)
(* doubled for the want of them.                                           *)
Outcomes(cfg, d) ==
  [drops : IF Fits(cfg, d.need) THEN {"none"} ELSE {"few", "many"},
   peaks : {[q \in Queues(cfg) |->
               IF d.need[q] <= GetVoqSize(cfg, q) THEN d.need[q] ELSE GetVoqSize(cfg, q)]}]

Result(cfg, d, outcome) ==
  [key |-> cfg.key, drops |-> outcome.drops, latency |-> d.latency, throughput |-> d.throughput,
   memory |-> GetTotalBufferSize(cfg), sizes |-> cfg.sizes]

Demands(cfg) ==
  [need : [Queues(cfg) -> Amounts], latency : Latencies, throughput : Throughputs]

(* A run of phase 1 that returns. *)
RunConfig ==
  /\ stage = "phase 1" /\ scanned < Len(Configs)
  /\ LET cfg == Configs[scanned + 1]
     IN \E d \in Demands(cfg) : \E outcome \in Outcomes(cfg, d) :
          /\ demand' = Append(demand, d)
          /\ results' = Append(results, Result(cfg, d, outcome))
          /\ simResults' = Append(simResults, outcome.peaks)
          /\ configsRan' = Append(configsRan, cfg)
  /\ scanned' = scanned + 1
  /\ UNCHANGED <<stage, selected, sizes, phase2, handled>>

(* One that raises is left out of all three lists; it has no latency. *)
Raised == [need |-> <<>>, latency |-> -1, throughput |-> 0]

ConfigRaises ==
  /\ stage = "phase 1" /\ scanned < Len(Configs)
  /\ demand' = Append(demand, Raised)
  /\ scanned' = scanned + 1
  /\ UNCHANGED <<stage, scan, selected, sizes, phase2, handled>>

-------------------------------------------------------------------------------
(* Mutant of Candidate: the lists are zipped with all the configurations.  *)
CandidateOfAll(k) == [config |-> Configs[k], result |-> results[k], peaks |-> simResults[k]]

Candidate(k) == [config |-> configsRan[k], result |-> results[k], peaks |-> simResults[k]]

(* The order of candidates.sort, which is stable. *)
Better(r, s) ==
  \/ r.latency < s.latency
  \/ r.latency = s.latency /\ r.throughput > s.throughput

SortsBefore(k, m) ==
  \/ Better(results[k], results[m])
  \/ ~Better(results[m], results[k]) /\ k < m

Sorted(K) ==
  CHOOSE order \in [1 .. Cardinality(K) -> K] :
    \A m, n \in DOMAIN order : m < n => SortsBefore(order[m], order[n])

Candidates ==
  LET order == Sorted({k \in DOMAIN results : results[k].drops = "none"})
  IN [n \in DOMAIN order |-> Candidate(order[n])]

(* select_top_n_candidates: first by the architectures not seen yet, ... *)
Picks(sel, c) ==
  /\ Len(sel) < TopN
  /\ \/ \A k \in DOMAIN sel : sel[k].result.key # c.result.key
     \/ Len(sel) < TopN \div 2

Picked ==
  LET sel[n \in 0 .. Len(Candidates)] ==
        IF n = 0 THEN <<>>
        ELSE IF Picks(sel[n - 1], Candidates[n]) THEN Append(sel[n - 1], Candidates[n])
        ELSE sel[n - 1]
  IN sel[Len(Candidates)]

(* ... then by what is left. *)
Fills(sel, c) == Len(sel) < TopN /\ ~Contains(sel, c)

SelectTopN ==
  LET sel[n \in 0 .. Len(Candidates)] ==
        IF n = 0 THEN Picked
        ELSE IF Fills(sel[n - 1], Candidates[n]) THEN Append(sel[n - 1], Candidates[n])
        ELSE sel[n - 1]
  IN sel[Len(Candidates)]

SelectCandidates ==
  /\ stage = "phase 1" /\ scanned = Len(Configs)
  /\ stage' = "phase 2"
  /\ selected' = SelectTopN
  /\ UNCHANGED <<scanned, scan, sizes, phase2, handled, demand>>

-------------------------------------------------------------------------------
(* The method bit_length of a number. *)
BitLength(x) == CHOOSE k \in 0 .. x : x < PowerOf2[k] /\ \A j \in 0 .. k - 1 : PowerOf2[j] <= x

(* Mutant of NextPowerOf2: the power of two below. *)
PowerOf2Below(x, minimum) ==
  IF x <= minimum THEN minimum ELSE PowerOf2[BitLength(x - 1) - 1]

NextPowerOf2(x, minimum) == IF x <= minimum THEN minimum ELSE PowerOf2[BitLength(x - 1)]

(* compute_optimized_voq_sizes; an empty queue gets the least size too. *)
ComputeOptimizedVoqSizes(cfg, peaks) ==
  [k \in 1 .. IF PerPort(cfg) THEN cfg.ports ELSE cfg.ports * cfg.ports |->
     LET at == {q \in Queues(cfg) : SizeIndex(cfg, q) = k}
     IN IF at = {} THEN 0 ELSE NextPowerOf2(peaks[CHOOSE q \in at : TRUE], MinVoqSize)]

(* The growth between two iterations, by the peaks of the last one. *)
Grown(cfg, peaks) ==
  [k \in DOMAIN sizes |->
     IF \E q \in Queues(cfg) : SizeIndex(cfg, q) = k /\ peaks[q] > sizes[k]
     THEN ComputeOptimizedVoqSizes(cfg, peaks)[k] ELSE sizes[k]]

InHand == selected[handled + 1]
IndexOf(cfg) == CHOOSE k \in DOMAIN Configs : Configs[k].key = cfg.key
Iterations == Cardinality({k \in DOMAIN phase2 : phase2[k].key = InHand.config.key})

SizeQueues ==
  /\ stage = "phase 2" /\ handled < Len(selected) /\ sizes = <<>>
  /\ sizes' = ComputeOptimizedVoqSizes(InHand.config, InHand.peaks)
  /\ UNCHANGED <<stage, scanned, scan, selected, phase2, handled, demand>>

(* One iteration of run_phase2_optimization; after the last of a candidate *)
(* the next is in hand.                                                    *)
Iterate ==
  /\ stage = "phase 2" /\ sizes # <<>>
  /\ LET cfg == [InHand.config EXCEPT !.global = MinVoqSize, !.sizes = sizes]
         d   == demand[IndexOf(cfg)]
     IN \E outcome \in Outcomes(cfg, d) :
          /\ phase2' = Append(phase2, Result(cfg, d, outcome))
          /\ LET last == outcome.drops # "many" \/ Iterations + 1 = MaxIterations
             IN /\ sizes' = IF last THEN <<>> ELSE Grown(cfg, outcome.peaks)
                /\ handled' = IF last THEN handled + 1 ELSE handled
  /\ UNCHANGED <<stage, scanned, scan, selected, demand>>

WriteResults ==
  /\ stage = "phase 2" /\ handled = Len(selected)
  /\ stage' = "written"
  /\ UNCHANGED <<scanned, scan, selected, sizes, phase2, handled, demand>>

ScanNext ==
  \/ RunConfig \/ ConfigRaises
  \/ SelectCandidates
  \/ SizeQueues \/ Iterate
  \/ WriteResults

ScanSpec == ScanInit /\ [][ScanNext]_scanVars

-------------------------------------------------------------------------------
RanWithoutDrops(k) == demand[k] # Raised /\ Fits(Configs[k], demand[k].need)

(* Phase 2 is given the best designs, each with its own figures: whichever *)
(* runs of phase 1 raised, a candidate is a design that dropped nothing,   *)
(* its peaks are what its own traffic needs, and no design that was passed *)
(* over is better than one that was taken.                                 *)
SelectedAreBest ==
  stage # "phase 1" =>
    LET taken  == {IndexOf(selected[n].config) : n \in DOMAIN selected}
        passed == {k \in DOMAIN Configs : RanWithoutDrops(k)} \ taken
    IN /\ \A n \in DOMAIN selected :
            LET k == IndexOf(selected[n].config)
            IN /\ RanWithoutDrops(k)
               /\ selected[n].peaks = demand[k].need
               /\ \A m \in passed : ~Better(demand[m], demand[k])
       /\ passed # {} => Cardinality(taken) = TopN

(* Sizing by the peaks is enough: one iteration of phase 2 serves each     *)
(* candidate, without a drop, from a valid list of sizes that leaves no    *)
(* queue more than twice its demand and takes no more memory than before.  *)
OptimizedSuffices ==
  stage = "written" =>
    /\ Len(phase2) = Len(selected)
    /\ \A n \in DOMAIN phase2 :
         LET was == selected[n].config
             cfg == [was EXCEPT !.global = MinVoqSize, !.sizes = phase2[n].sizes]
         IN /\ phase2[n].key = was.key /\ phase2[n].drops = "none"
            /\ ValidateVoqSizes(cfg)
            /\ \A q \in Queues(cfg) :
                 \/ GetVoqSize(cfg, q) = MinVoqSize
                 \/ GetVoqSize(cfg, q) < 2 * demand[IndexOf(was)].need[q]
            /\ phase2[n].memory <= GetTotalBufferSize(was)
===============================================================================
