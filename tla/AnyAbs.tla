------------------------------- MODULE AnyAbs -------------------------------
(***************************************************************************)
(* What futoin::any promises its users: value semantics.  Each any object  *)
(* is a cell of its own.  A cell does not exist (Dead), is empty, or holds *)
(* a value of exactly one type; an operation on one cell never changes     *)
(* what another one holds, except that a move empties its source, and that *)
(* an object used as an lvalue is moved from.                              *)
(***************************************************************************)
CONSTANTS
  Slot,    \* the any objects of the program
  Type,    \* the types stored in them
  Val,     \* the values of those types that are told apart
  Moved,   \* the unspecified value a C++ object has after a move from it
  Dead,    \* content of a cell that is not constructed
  Empty    \* content of a cell with has_value() = false

VARIABLE content

Held == Type \X (Val \cup {Moved})

Init == content = [s \in Slot |-> Dead]

(* Default construction, construction and assignment from a value, reset().*)
Put(s) ==
  \E c \in {Empty} \cup (Type \X Val) :
    content' = [content EXCEPT ![s] = c]

(* Copy construction and copy assignment: the source keeps its value.      *)
Copy(s, o) ==
  /\ s # o /\ content[o] # Dead
  /\ content' = [content EXCEPT ![s] = content[o]]

(* Move construction and move assignment: the source becomes empty.        *)
Move(s, o) ==
  /\ s # o /\ content[o] # Dead
  /\ content' = [content EXCEPT ![s] = content[o], ![o] = Empty]

(* A write through the reference any_cast<T&>() returned, or a move out of *)
(* it: the type stays, the value changes in this cell alone.               *)
Write(s) ==
  /\ content[s] \in Held
  /\ \E v \in Val \cup {Moved} :
       content' = [content EXCEPT ![s] = <<content[s][1], v>>]

(* Construction or assignment from an lvalue that any_cast<T&>() returned: *)
(* the object is taken, not copied.                                        *)
Take(s, o) ==
  /\ s # o /\ content[o] \in Held
  /\ content' = [content EXCEPT ![s] = content[o],
                                ![o] = <<content[o][1], Moved>>]

Destroy(s) ==
  /\ content[s] # Dead
  /\ content' = [content EXCEPT ![s] = Dead]

Next ==
  \/ \E s \in Slot : Put(s) \/ Write(s) \/ Destroy(s)
  \/ \E s, o \in Slot : Copy(s, o) \/ Move(s, o) \/ Take(s, o)

Spec == Init /\ [][Next]_content
=============================================================================
