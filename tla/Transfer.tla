------------------------------ MODULE Transfer ------------------------------
(***************************************************************************)
(* What the transfer of arguments promises to C++ and C: each argument is  *)
(* a channel for one value.  A value sent from C++ is received as it was,  *)
(* whatever happens to the other arguments; one that the program in C puts *)
(* in is received when C++ has a type for it, a string up to its first NUL.*)
(* There are no pointers here and no memory: a value is in an any or on    *)
(* its way.                                                                *)
(***************************************************************************)
CONSTANTS
  Arg,       \* the arguments of a step
  CppType,   \* the C++ types in use
  Flag,      \* the flags of binary types the program in C uses
  Val,       \* values that are told apart
  CStr,      \* [Val -> Val], the part of a string before its first NUL
  Moved      \* value of an object that was moved from

VARIABLES
  content,   \* [Arg -> what the any holds]
  transit,   \* [Arg -> what is on its way, and where it comes from]
  stopped    \* the program was terminated

vars == <<content, transit, stopped>>

Content(t, v)  == [type |-> t, val |-> v]
Sent(by, t, v) == [by |-> by, is |-> Content(t, v)]
Nothing        == Sent("none", "void", Moved)

(* C++ sends a value, and keeps it only when it is of a fundamental type.  *)
Send(i) ==
  /\ content[i].type # "void" /\ transit[i] = Nothing
  /\ content' = [content EXCEPT ![i].val =
       IF content[i].type = "fund" THEN content[i].val ELSE Moved]
  /\ transit' = [transit EXCEPT ![i] = Sent("cpp", content[i].type, content[i].val)]
  /\ UNCHANGED stopped

(* The program in C puts a value in.                                       *)
Put(i) ==
  /\ UNCHANGED <<content, stopped>>
  /\ transit[i] = Nothing
  /\ transit'[i] \in [by : {"c"}, is : [type : Flag, val : Val]]
  /\ transit' = [transit EXCEPT ![i] = transit'[i]]

(* What becomes of c when s is received.                                   *)
Arrived(s, c) ==
  CASE s.by = "cpp" \/ s.is.type \in {"fund", "array", "bits"} -> s.is
    [] s.by = "c" /\ s.is.type = "string" -> Content("string", CStr[s.is.val])
    [] OTHER -> c

Receive(i) ==
  /\ transit[i] # Nothing /\ transit[i].is.type # "other"
  /\ content' = [content EXCEPT ![i] = Arrived(transit[i], content[i])]
  /\ transit' = [transit EXCEPT ![i] = Nothing]
  /\ UNCHANGED stopped

(* The program in C has no use for a value.                                *)
Drop(i) ==
  /\ UNCHANGED <<content, stopped>>
  /\ transit' = [transit EXCEPT ![i] = Nothing]

(* C++ gives an argument a new value; what is on its way is not affected.  *)
Assign(i) ==
  /\ content'[i] \in [type : CppType, val : Val]
  /\ content' = [content EXCEPT ![i] = content'[i]]
  /\ UNCHANGED <<transit, stopped>>

(* A value nobody can know ends the program.                               *)
Stop(i) ==
  /\ stopped'
  /\ transit[i].by = "c" /\ transit[i].is.type = "other"
  /\ UNCHANGED <<content, transit>>

Init ==
  /\ content = [i \in Arg |-> Content("void", Moved)]
  /\ transit = [i \in Arg |-> Nothing]
  /\ stopped = FALSE

Next ==
  /\ ~stopped
  /\ \E i \in Arg :
       \/ Assign(i) \/ Send(i) \/ Put(i)
       \/ Receive(i) \/ Drop(i) \/ Stop(i)

Spec == Init /\ [][Next]_vars
=============================================================================
