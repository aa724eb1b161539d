----------------------------- MODULE AnyLvalue -----------------------------
(***************************************************************************)
(* AnyObject with a history of what the program asked for: which any       *)
(* objects hold an object the program itself moved from, by std::move() of *)
(* what any_cast<T&>() returned, or a copy of one.  Construction and       *)
(* assignment from an lvalue ask for a copy.                               *)
(***************************************************************************)
EXTENDS AnyObject

VARIABLE released    \* the any objects whose value the program gave up

(* The value asked for in s is a new one, that of o, or given up.          *)
New(s)        == released' = released \ {s}
CopyOf(s, o)  == released' = IF o \in released THEN released \cup {s} ELSE released \ {s}
MovedTo(s, o) == released' = (IF o \in released THEN released \cup {s} ELSE released \ {s}) \ {o}
Given(s, v)   == released' = IF v = Moved THEN released \cup {s} ELSE released \ {s}

LvalueInit == Init /\ released = {}

LvalueNext ==
  \/ \E s \in Slot : (Construct(s) \/ Reset(s) \/ Destroy(s)) /\ New(s)
  \/ \E s \in Slot, t \in Type, v \in Val :
       (ConstructValue(s, t, v) \/ AssignValue(s, t, v)) /\ New(s)
  \/ \E s \in Slot, t \in Type, v \in Val \cup {Moved} : Write(s, t, v) /\ Given(s, v)
  \/ \E s, o \in Slot :
       \/ (ConstructCopy(s, o) \/ AssignCopy(s, o)) /\ CopyOf(s, o)
       \/ (ConstructMove(s, o) \/ AssignMove(s, o)) /\ MovedTo(s, o)
       \/ (ConstructFromRef(s, o) \/ AssignFromRef(s, o)) /\ CopyOf(s, o)

LvalueSpec == LvalueInit /\ [][LvalueNext]_<<vars, released>>

(* README.md:535 calls any an implementation of std::any, which copies an  *)
(* lvalue it is constructed or assigned from: an object is moved from only *)
(* if the program asked for it.                                            *)
MovedOnlyOnRequest ==
  torn = {} => \A s \in alive :
    type_info[s] \in SmallT \cup BigT /\ Content(s) = Moved => s \in released
=============================================================================
