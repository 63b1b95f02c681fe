---------------------------- MODULE MCIIIFCache ----------------------------
(* The instance of the image cache for TLC: renditions of one master, and  *)
(* keys that are longer than the 255 bytes of an index record, all cut to  *)
(* c3.                                                                     *)
EXTENDS IIIFCache, TLC

CONSTANTS c3, o1

SameMaster == [c \in Names |-> o1]
KeysCut == [c \in Names |-> c3]
UnitSizes == [c \in Names |-> 1]

Symmetry == Permutations(Procs) \cup Permutations(Files)

=============================================================================
