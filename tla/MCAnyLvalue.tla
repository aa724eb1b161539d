---------------------------- MODULE MCAnyLvalue ----------------------------
(* Two any objects, one type of each layout, all of them copyable.         *)
EXTENDS AnyLvalue

CONSTANTS s1, s2, int, small, big

MCSlot  == {s1, s2}
MCFund  == {int}
MCSmall == {small}
MCBig   == {big}
MCCopyable == {int, small, big}
NoThrowing == {}
NoSelfRef  == {}
=============================================================================
