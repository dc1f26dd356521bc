----------------------------- MODULE SwitchConfig -----------------------------
(***************************************************************************)
(* The sizes of the virtual output queues in a switch configuration        *)
(* (simulator/src/config.py): one size for all, or a list of sizes.        *)
(*                                                                         *)
(* A configuration is a record [ports, buffer, global, sizes]; sizes is    *)
(* empty where the list is not given.                                      *)
(***************************************************************************)
EXTENDS SequencesExt

PerPort(cfg) == cfg.buffer = "OneBufferPerPort"

(* The queues that a buffer keeps memory for, as <<input, output>>; where  *)
(* the inputs share it, the input is 0.                                    *)
Queues(cfg) ==
  IF PerPort(cfg) THEN {0} \X (0 .. cfg.ports - 1)
  ELSE {q \in (0 .. cfg.ports - 1) \X (0 .. cfg.ports - 1) : q[1] # q[2]}

(* Where a list of sizes has the size of a queue. *)
SizeIndex(cfg, q) == IF PerPort(cfg) THEN q[2] + 1 ELSE q[1] * cfg.ports + q[2] + 1

GetVoqSize(cfg, q) ==
  IF SizeIndex(cfg, q) \in DOMAIN cfg.sizes THEN cfg.sizes[SizeIndex(cfg, q)] ELSE cfg.global

SumOf(sizes) ==
  LET sum[n \in 0 .. Len(sizes)] == IF n = 0 THEN 0 ELSE sum[n - 1] + sizes[n]
  IN sum[Len(sizes)]

GetTotalBufferSize(cfg) ==
  IF cfg.sizes # <<>> THEN SumOf(cfg.sizes)
  ELSE IF PerPort(cfg) THEN cfg.global * cfg.ports
  ELSE cfg.global * cfg.ports * (cfg.ports - 1)

ValidateVoqSizes(cfg) ==
  cfg.sizes # <<>> =>
    /\ Len(cfg.sizes) = IF PerPort(cfg) THEN cfg.ports ELSE cfg.ports * cfg.ports
    /\ \A k \in DOMAIN cfg.sizes : cfg.sizes[k] >= 0
===============================================================================
