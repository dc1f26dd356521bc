----------------------------- MODULE MCVoqBuffer -----------------------------
(* VoqBuffer on a small instance: memories of two and of three words. *)
EXTENDS VoqBuffer

MCVoqSize == [c \in Ports \X Ports |-> 2 + (c[2] % 2)]
==============================================================================
