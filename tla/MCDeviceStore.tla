--------------------------- MODULE MCDeviceStore ---------------------------
(* Small instances of DeviceStore. *)
EXTENDS DeviceStore, TLC

CONSTANTS a, b, s, g

\* Two processes of one password; the session is a's.
SameGen == [p \in Procs |-> g]
HomeA == [x \in Sessions |-> a]

Symm == Permutations(Devices)
=============================================================================
