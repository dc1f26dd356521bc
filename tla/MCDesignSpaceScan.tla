-------------------------- MODULE MCDesignSpaceScan --------------------------
(* DesignSpaceScan with three architectures. *)
EXTENDS DesignSpaceScan

SmallArchitectures ==
  <<[key |-> "rr/1b1p", buffer |-> "OneBufferPerPort"],
    [key |-> "islip/1b1p", buffer |-> "OneBufferPerPort"],
    [key |-> "islip/nb1p", buffer |-> "NBuffersPerPort"]>>
===============================================================================
