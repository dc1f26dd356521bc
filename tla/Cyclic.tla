-------------------------------- MODULE Cyclic --------------------------------
(* Ports in a circle: how the schedulers, those of the simulator and those *)
(* of the hardware, move their round-robin pointers and scan from them.    *)
EXTENDS Integers

CONSTANT NumPorts

ASSUME PortsAssumption == NumPorts \in Nat \ {0}

Ports == 0 .. NumPorts - 1

(* Mutant of Succ: the pointer does not wrap. *)
SuccNoWrap(p) == p + 1

(* (p + 1) % num_ports *)
Succ(p) == IF p = NumPorts - 1 THEN 0 ELSE p + 1

(* The offset at which a cyclic scan that starts at p reaches x. *)
Offset(p, x) == IF x >= p THEN x - p ELSE x + NumPorts - p

(* The first member of S that a cyclic scan from p finds. *)
FirstFrom(p, S) == CHOOSE x \in S : \A y \in S : Offset(p, x) <= Offset(p, y)
===============================================================================
