---------------------------- MODULE MCAnyObject ----------------------------
(* Small instances of AnyObject: one type of each layout that can be       *)
(* copied, and one that cannot (std::unique_ptr, std::promise...) and does *)
(* not fit the buffer.  The copy of a class may throw, as that of a string *)
(* or of a container does when there is no memory left.                    *)
EXTENDS AnyObject, TLC

CONSTANTS s1, s2, s3, int, small, big, unique

MCSlot     == {s1, s2, s3}
MCFund     == {int}
MCSmall    == {small}
MCBig      == {big, unique}
MCCopyable == {int, small, big}
MCThrowing == {small, big, unique}
MCSelfRef  == {small}

Symmetry ==
  Permutations(Slot) \cup Permutations(Block) \cup Permutations(Pool)
=============================================================================
