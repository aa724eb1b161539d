------------------------------ MODULE NextArgs ------------------------------
(***************************************************************************)
(* details/nextargs.hpp: the arguments of a step result or of an event, an *)
(* array of four any objects.  What can be told of them is their types: a  *)
(* value of the wrong type, or none, is a bad_cast in every function that  *)
(* takes them out.                                                         *)
(***************************************************************************)
EXTENDS Naturals, Sequences

CONSTANTS
  Param,     \* types of parameters and values
  String,    \* futoin::string, one of them
  CString,   \* const char*, which is no type of a parameter
  NoArg      \* NextArgs::NoArg, the type of what was not given

ASSUME ParamAssumption ==
  String \in Param /\ CString \notin Param /\ NoArg \notin Param \cup {CString}

MAX_NEXT_ARGS == 4
Arity == 0..MAX_NEXT_ARGS

(* Parameter types of a function, without references and const, and lists  *)
(* of values given to assign().                                            *)
ListOver(S) == UNION {[1..n -> S] : n \in Arity}
Signatures  == ListOver(Param)
Arguments   == [1..MAX_NEXT_ARGS -> Param \cup {NoArg}]

(* Mutant: a C string is kept as the pointer it is.                        *)
SmartForwardKeeps(t) == t

(* smart_forward<T>::it(v): a C string becomes a string; a pointer does    *)
(* not compile.                                                            *)
SmartForward(t) == IF t = CString THEN String ELSE t

(* assign(a, b, c, d): what is not given is a NoArg, and takes the place   *)
(* of what was there.                                                      *)
AssignArgs(values) ==
  [i \in 1..MAX_NEXT_ARGS |->
     IF i <= Len(values) THEN SmartForward(values[i]) ELSE NoArg]

(* Model<A, B, C, D>::instance                                             *)
ModelArgs(sig) ==
  [i \in 1..MAX_NEXT_ARGS |-> IF i <= Len(sig) THEN sig[i] ELSE NoArg]

(* Mutant: the cast of the last parameter is missing in one of the five    *)
(* overloads.                                                              *)
CastsButLast(sig, args) == \A i \in DOMAIN sig : i < Len(sig) => args[i] = sig[i]

(* test_cast<A...>(), repeatable() and once(): any_cast to each parameter, *)
(* and to none beyond.                                                     *)
Casts(sig, args) == \A i \in DOMAIN sig : args[i] = sig[i]
=============================================================================
