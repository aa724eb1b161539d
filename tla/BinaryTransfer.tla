--------------------------- MODULE BinaryTransfer ---------------------------
(***************************************************************************)
(* Arguments on their way between C++ and C: any::extract() turns the      *)
(* content of an any into a FutoInBinaryValue (details::moveTo), and       *)
(* details::moveFrom() turns one back (details/binarymove.hpp), as         *)
(* NextArgs::moveTo() and moveFrom() do with each argument of a step.      *)
(* What a binary value refers to is released by the cleanup() of its type, *)
(* which futoin_reset_binval() calls (binaryval.h).                        *)
(*                                                                         *)
(* A C++ type is one of five cases: a fundamental type, one of the three   *)
(* string types, std::vector of a fundamental type, std::vector<bool>, and *)
(* any other class.  A binary value is made by C++, or by the program      *)
(* written in C with types and a cleanup of its own.  Widths and character *)
(* types follow the same pattern each and are left out, and length goes    *)
(* with the memory p points to.                                            *)
(*                                                                         *)
(* The any objects are taken at their word here: AnyObject is about their  *)
(* storage.                                                                *)
(***************************************************************************)
CONSTANTS
  Arg,        \* the arguments of a step
  CppType,    \* the C++ types in use
  Flag,       \* the flags of binary types the program in C uses
  Val,        \* values that are told apart
  CStr,       \* [Val -> Val], the part of a string before its first NUL
  Moved,      \* value of an object that was moved from
  Zero,       \* a zeroed union or pointer
  Block       \* memory allocated by new and by the C program (bounds it)

Array == {"array", "bits"}
Text  == Array \cup {"string"}
Pod   == Text \cup {"fund"}

ASSUME TransferAssumption ==
  /\ CppType \subseteq Pod \cup {"object"}
  /\ Flag \subseteq Pod \cup {"object", "array of strings", "other"}
  /\ CStr \in [Val -> Val]
  /\ Moved \notin Val
  /\ Zero \notin Block \cup Val \cup {Moved}
  /\ Block \cap (Val \cup {Moved}) = {}

VARIABLES
  arg,        \* [Arg -> the content of the any]
  bin,        \* [Arg -> FutoInBinaryValue]
  heap,       \* [Block -> what is in it]
  fatal,      \* FatalMsg has terminated the program
  wire        \* history: [Arg -> what was put in the binary value last]

vars == <<arg, bin, heap, fatal, wire>>

-----------------------------------------------------------------------------
Content(t, v) == [type |-> t, val |-> v]
Empty         == Content("void", Moved)

(* A FutoInType: who defined it, and flags.                                *)
Cpp(flag) == [by |-> "cpp", flags |-> flag]
C(flag)   == [by |-> "c",   flags |-> flag]
NoType    == [by |-> "none", flags |-> "none"]

(* The union of p and the fundamental members, and custom_data.            *)
Binary(t, u, c) == [type |-> t, u |-> u, custom_data |-> c]
Reset           == Binary(NoType, Zero, Zero)

(* A block holds a futoin::string, a futoin::any, an array of bool, or     *)
(* memory of the program in C.                                             *)
Memory(k, t, v) == [kind |-> k, is |-> Content(t, v)]
Free            == Memory("free", "void", Moved)

Sent(by, t, v) == [by |-> by, is |-> Content(t, v)]
Nothing        == Sent("none", "void", Moved)

-----------------------------------------------------------------------------
(* Mutant: p is taken from the string that was moved from.                 *)
StringToDangles(i, v) ==
  \E s \in Block :
    /\ heap[s] = Free
    /\ heap' = [heap EXCEPT ![s] = Memory("string", "string", v)]
    /\ bin' = [bin EXCEPT ![i] = Binary(Cpp("string"), Zero, s)]

(* moveStringHelper::moveTo                                                *)
StringTo(i, v) ==
  \E s \in Block :
    /\ heap[s] = Free
    /\ heap' = [heap EXCEPT ![s] = Memory("string", "string", v)]
    /\ bin' = [bin EXCEPT ![i] = Binary(Cpp("string"), s, s)]

(* moveFundamentalHelper::moveTo                                           *)
FundamentalTo(i, v) ==
  /\ bin' = [bin EXCEPT ![i] = Binary(Cpp("fund"), v, @.custom_data)]
  /\ UNCHANGED heap

(* moveHelper<T, Any>::moveTo: the object lives on in a new any.           *)
ObjectTo(i, v) ==
  \E a \in Block :
    /\ heap[a] = Free
    /\ heap' = [heap EXCEPT ![a] = Memory("any", "object", v)]
    /\ bin' = [bin EXCEPT ![i] = Binary(Cpp("object"), @.u, a)]

(* moveArrayHelper::moveTo: the elements stay where they are when the      *)
(* vector moves to a new any.  The type is that of custom objects.         *)
ArrayTo(i, v) ==
  \E a \in Block :
    /\ heap[a] = Free
    /\ heap' = [heap EXCEPT ![a] = Memory("any", "array", v)]
    /\ bin' = [bin EXCEPT ![i] = Binary(Cpp("object"), a, a)]

(* moveArrayHelper<bool>::moveTo: the bits are unpacked to an array.       *)
BitsTo(i, v) ==
  \E a, p \in Block :
    /\ a # p /\ heap[a] = Free /\ heap[p] = Free
    /\ heap' = [heap EXCEPT ![a] = Memory("any", "bits", v),
                            ![p] = Memory("bool[]", "bits", v)]
    /\ bin' = [bin EXCEPT ![i] = Binary(Cpp("object"), p, a)]

(* any::extract(arg_i), which moves the value out of the any.  The caller  *)
(* passes a binary value that was reset.                                   *)
Extract(i) ==
  /\ ~fatal
  /\ bin[i] = Reset
  /\ LET t == arg[i].type
         v == arg[i].val IN
     /\ \/ t = "fund"   /\ FundamentalTo(i, v) /\ UNCHANGED arg
        \/ /\ \/ t = "string" /\ StringTo(i, v)
              \/ t = "object" /\ ObjectTo(i, v)
              \/ t = "array"  /\ ArrayTo(i, v)
              \/ t = "bits"   /\ BitsTo(i, v)
           /\ arg' = [arg EXCEPT ![i].val = Moved]
     /\ wire' = [wire EXCEPT ![i] = Sent("cpp", t, v)]
  /\ UNCHANGED fatal

-----------------------------------------------------------------------------
(* What type->cleanup() of a binary value releases.  The array of a        *)
(* std::vector<bool> is not among it.  The cleanup of a type of the C      *)
(* program releases what p points to.                                      *)
Cleanup(d) ==
  CASE d.type.by = "cpp" /\ d.type.flags \in {"string", "object"} -> {d.custom_data}
    [] d.type.by = "c" /\ d.type.flags # "fund" -> {d.u}
    [] OTHER -> {}

(* Mutant: the value forgets its type before its cleanup is called.        *)
ResetBinvalForgets(i) ==
  /\ bin' = [bin EXCEPT ![i] = Reset]
  /\ heap' = heap

(* Mutant: the value keeps what it refers to, and can be reset again.      *)
ResetBinvalKeeps(i) ==
  /\ bin' = bin
  /\ heap' = [b \in Block |-> IF b \in Cleanup(bin[i]) THEN Free ELSE heap[b]]

(* Mutant: the pointers stay after the cleanup, only the type goes.        *)
ResetBinvalTypeOnly(i) ==
  /\ bin' = [bin EXCEPT ![i].type = NoType]
  /\ heap' = [b \in Block |-> IF b \in Cleanup(bin[i]) THEN Free ELSE heap[b]]

(* futoin_reset_binval(arg_i)                                              *)
ResetBinval(i) ==
  /\ bin' = [bin EXCEPT ![i] = Reset]
  /\ heap' = [b \in Block |-> IF b \in Cleanup(bin[i]) THEN Free ELSE heap[b]]

(* What a moveHelper finds in a binary value of a type it did not define:  *)
(* strings end at a NUL, arrays have a length, objects are not touched,    *)
(* and an array of strings is not received either: the FatalMsg for it     *)
(* stands after a break (line 431) and cannot be reached.                  *)
Foreign(d, a) ==
  CASE d.type.flags = "string" -> Content("string", CStr[heap[d.u].is.val])
    [] d.type.flags \in Array  -> Content(d.type.flags, heap[d.u].is.val)
    [] OTHER -> a

(* Mutant: strings are always taken from p, up to a NUL.                   *)
ReceivedCString(d, a) ==
  CASE d.type.flags = "fund"   -> Content("fund", d.u)
    [] d.type.flags = "string" -> Content("string",
         LET v == heap[d.u].is.val IN IF v \in Val THEN CStr[v] ELSE v)
    [] d.type.by = "cpp" -> heap[d.custom_data].is
    [] OTHER -> Foreign(d, a)

(* What moveHelper::moveFrom assigns to an any a: the value of a           *)
(* fundamental type, what custom_data holds when C++ made it, or a copy.   *)
Received(d, a) ==
  CASE d.type.flags = "fund" -> Content("fund", d.u)
    [] d.type.flags # "fund" /\ d.type.by = "cpp" -> heap[d.custom_data].is
    [] OTHER -> Foreign(d, a)

(* details::moveFrom(arg_i, any).  A value without type is left alone; one *)
(* of unknown flags ends the program.                                      *)
MoveFrom(i) ==
  /\ ~fatal
  /\ bin[i].type # NoType
  /\ IF bin[i].type.flags = "other"
     THEN fatal' = TRUE /\ UNCHANGED <<arg, bin, heap>>
     ELSE /\ arg' = [arg EXCEPT ![i] = Received(bin[i], arg[i])]
          /\ ResetBinval(i)
          /\ UNCHANGED fatal
  /\ UNCHANGED wire

-----------------------------------------------------------------------------
(* NextArgs::assign(): the any gets a new value, of which the history says *)
(* nothing once the last transfer is over.                                 *)
Assign(i, t, v) ==
  /\ ~fatal
  /\ arg' = [arg EXCEPT ![i] = Content(t, v)]
  /\ wire' = IF bin[i] = Reset THEN [wire EXCEPT ![i] = Nothing] ELSE wire
  /\ UNCHANGED <<bin, heap, fatal>>

(* External: the program in C makes a value of its own, a string with a    *)
(* NUL at its end.                                                         *)
Make(i, f, v) ==
  /\ ~fatal
  /\ bin[i] = Reset
  /\ wire' = [wire EXCEPT ![i] = Sent("c", f, v)]
  /\ \/ /\ f = "fund"
        /\ bin' = [bin EXCEPT ![i] = Binary(C(f), v, Zero)]
        /\ UNCHANGED heap
     \/ /\ f # "fund"
        /\ \E b \in Block :
             /\ heap[b] = Free
             /\ heap' = [heap EXCEPT ![b] = Memory("c", f, v)]
             /\ bin' = [bin EXCEPT ![i] = Binary(C(f), b, Zero)]
  /\ UNCHANGED <<arg, fatal>>

(* The program in C has no use for a value, and resets it.                 *)
Discard(i) ==
  /\ ~fatal
  /\ ResetBinval(i)
  /\ wire' = [wire EXCEPT ![i] = Nothing]
  /\ UNCHANGED <<arg, fatal>>

Init ==
  /\ arg  = [i \in Arg |-> Empty]
  /\ bin  = [i \in Arg |-> Reset]
  /\ heap = [b \in Block |-> Free]
  /\ fatal = FALSE
  /\ wire = [i \in Arg |-> Nothing]

Next ==
  \E i \in Arg :
    \/ Extract(i) \/ MoveFrom(i) \/ Discard(i)
    \/ \E t \in CppType, v \in Val : Assign(i, t, v)
    \/ \E f \in Flag, v \in Val : Make(i, f, v)

Spec == Init /\ [][Next]_vars

-----------------------------------------------------------------------------
Contents == [type : CppType \cup Flag \cup {"void"}, val : Val \cup {Moved}]
Types    == [by : {"cpp", "c"}, flags : Pod \cup Flag \cup {"object"}] \cup {NoType}

(* A binary value without a type is zeroed: C must not find a pointer left *)
(* from an earlier value in it (binaryval.h:102).                          *)
TypeOK ==
  /\ arg \in [Arg -> Contents]
  /\ bin \in [Arg -> [type : Types, u : Block \cup Val \cup {Moved, Zero},
                      custom_data : Block \cup {Zero}]]
  /\ \A i \in Arg : bin[i].type = NoType => bin[i] = Reset
  /\ heap \in [Block -> [kind : {"free", "string", "any", "bool[]", "c"}, is : Contents]]
  /\ fatal \in BOOLEAN
  /\ wire \in [Arg -> [by : {"none", "cpp", "c"}, is : Contents]]

(* What cleanup() will release is there, is of the kind cleanup() and      *)
(* moveFrom() cast it to, and belongs to no other binary value, however    *)
(* values went back and forth: nothing is freed twice or taken for what it *)
(* is not (binarymove.hpp 46, 178, 214).                                   *)
OwnsWhatItReleases ==
  \A i \in Arg : \A b \in Cleanup(bin[i]) :
    /\ b \in Block
    /\ heap[b].kind = CASE bin[i].type.by = "c"           -> "c"
                        [] bin[i].type = Cpp("string") -> "string"
                        [] OTHER                          -> "any"
    /\ \A j \in Arg \ {i} : b \notin Cleanup(bin[j])

(* The program in C can read what C++ sent: a fundamental value in the     *)
(* union, and strings and arrays at p, where they are as long as the       *)
(* binary value is.                                                        *)
ReadableInC ==
  \A i \in Arg : bin[i] # Reset /\ wire[i].is.type \in Pod =>
    IF wire[i].is.type = "fund" THEN bin[i].u = wire[i].is.val
    ELSE bin[i].u \in Block /\ heap[bin[i].u].is = wire[i].is

(* What was sent arrives, of the same type and value: always when it comes *)
(* from C++ and was not discarded, and from C when it is a fundamental     *)
(* value, an array, or a string without NULs.                              *)
ArrivesAsSent ==
  \A i \in Arg : bin[i] = Reset /\ wire[i] # Nothing =>
    \/ arg[i] = wire[i].is
    \/ wire[i].by = "c" /\ wire[i].is.type \notin Pod
    \/ wire[i].by = "c" /\ wire[i].is.type = "string" /\ CStr[wire[i].is.val] # wire[i].is.val

Owned(b) == \E i \in Arg : b \in Cleanup(bin[i])

(* No memory is lost but the arrays unpacked from a std::vector<bool>.     *)
OnlyBitsLost == \A b \in Block : heap[b] # Free => Owned(b) \/ heap[b].kind = "bool[]"

(* What is on its way in argument i, as the side that did not make it      *)
(* finds it: in the binary value, in the object custom_data points to, or  *)
(* in the memory of the program in C.                                      *)
InTransit(i) ==
  LET d == bin[i] IN
  CASE d.type = NoType -> Nothing
    [] d.type # NoType /\ d.type.flags = "fund" -> Sent(d.type.by, "fund", d.u)
    [] d.type.by = "cpp" /\ d.type.flags # "fund" ->
         [by |-> "cpp", is |-> heap[d.custom_data].is]
    [] d.type.by = "c" /\ d.type.flags # "fund" ->
         [by |-> "c", is |-> heap[d.u].is]

(* Pointers, cleanup functions and shared memory are not seen from outside:*)
(* the two sides implement a channel for each argument, in which no value  *)
(* changes while it is on its way and none gets into another's place.      *)
Channels == INSTANCE Transfer WITH
  content <- arg, transit <- [i \in Arg |-> InTransit(i)], stopped <- fatal

ImplementsTransfer == Channels!Spec

-----------------------------------------------------------------------------
(* Stated of the code by its documentation, and not so: see the README.    *)

(* Each instance supports a cleanup handler, invoked by                    *)
(* futoin_reset_binval() (README.md:567): what a value allocated goes.     *)
NoLeak == \A b \in Block : heap[b] # Free =>
            Owned(b) \/ \E i \in Arg : bin[i] # Reset /\ bin[i].u = b
=============================================================================
