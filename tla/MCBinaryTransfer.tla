-------------------------- MODULE MCBinaryTransfer --------------------------
(* Two arguments of every C++ type, and a program in C that makes values   *)
(* of every kind of flags, or of one of each kind moveFrom() treats alike. *)
(* Of the two values a string can have, one is the other followed by a NUL *)
(* and more.                                                               *)
EXTENDS BinaryTransfer, TLC

CONSTANTS a1, a2, plain, withNul

MCArg   == {a1, a2}
MCVal   == {plain, withNul}
MCCStr  == [v \in MCVal |-> plain]
CppAll   == {"fund", "string", "object", "array", "bits"}
FlagAll  == CppAll \cup {"array of strings", "other"}
FlagSome == {"fund", "string", "object", "bits", "other"}

Symmetry == Permutations(Arg) \cup Permutations(Block)
=============================================================================
