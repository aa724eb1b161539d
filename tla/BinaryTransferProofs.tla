------------------------ MODULE BinaryTransferProofs ------------------------
(***************************************************************************)
(* What BinaryTransfer checks for two arguments holds for any number of    *)
(* arguments, values and blocks.  The invariant that is inductive says of  *)
(* each binary value, type by type, where the value that was put in it is  *)
(* (Carries), that no two binary values own the same block, and that what  *)
(* arrived is what was sent.                                               *)
(***************************************************************************)
EXTENDS BinaryTransfer, TLAPS

CarriesString(i) ==
  /\ bin[i].type = Cpp("string") /\ wire[i].by = "cpp" /\ wire[i].is.type = "string"
  /\ bin[i].custom_data \in Block /\ bin[i].u = bin[i].custom_data
  /\ heap[bin[i].u].kind = "string" /\ heap[bin[i].u].is = wire[i].is

CarriesFundamental(i) ==
  /\ bin[i].type \in {Cpp("fund"), C("fund")} /\ wire[i].is.type = "fund"
  /\ wire[i].by = bin[i].type.by
  /\ bin[i].u = wire[i].is.val /\ bin[i].custom_data = Zero

CarriesAny(i) ==
  /\ bin[i].type = Cpp("object") /\ wire[i].by = "cpp"
  /\ wire[i].is.type \in Array \cup {"object"}
  /\ bin[i].custom_data \in Block
  /\ heap[bin[i].custom_data].kind = "any"
  /\ heap[bin[i].custom_data].is = wire[i].is
  /\ wire[i].is.type = "array" => bin[i].u = bin[i].custom_data
  /\ wire[i].is.type = "bits" =>
       /\ bin[i].u \in Block
       /\ heap[bin[i].u].kind = "bool[]" /\ heap[bin[i].u].is = wire[i].is
  /\ wire[i].is.type = "object" => bin[i].u = Zero

CarriesForeign(i) ==
  /\ bin[i].type = C(wire[i].is.type) /\ wire[i].by = "c" /\ wire[i].is.type # "fund"
  /\ wire[i].is.val \in Val
  /\ bin[i].u \in Block /\ bin[i].custom_data = Zero
  /\ heap[bin[i].u].kind = "c" /\ heap[bin[i].u].is = wire[i].is

Carries(i) ==
  \/ bin[i] = Reset
  \/ CarriesString(i) \/ CarriesFundamental(i) \/ CarriesAny(i) \/ CarriesForeign(i)

Disjoint(i, j) == Cleanup(bin[i]) \cap Cleanup(bin[j]) = {}

IInv ==
  /\ TypeOK
  /\ \A i \in Arg : Carries(i)
  /\ \A i, j \in Arg : i # j => Disjoint(i, j)
  /\ ArrivesAsSent
  /\ OnlyBitsLost

-----------------------------------------------------------------------------
(* What a binary value owns is there, of the kind its type says.           *)
LEMMA OwnedKinds ==
  ASSUME TypeOK, NEW i \in Arg, Carries(i), NEW b \in Cleanup(bin[i])
  PROVE  /\ b \in Block
         /\ bin[i] # Reset
         /\ b \in {bin[i].u, bin[i].custom_data}
         /\ heap[b].kind = CASE bin[i].type.by = "c"        -> "c"
                             [] bin[i].type = Cpp("string") -> "string"
                             [] OTHER                       -> "any"
         /\ heap[b].kind \notin {"free", "bool[]"}
<1> USE DEF Cleanup, Cpp, C, NoType
<1>1. CASE bin[i] = Reset
  BY <1>1 DEF Reset, Binary
<1>2. CASE CarriesString(i)
  BY <1>2 DEF CarriesString, Reset, Binary
<1>3. CASE CarriesFundamental(i)
  BY <1>3 DEF CarriesFundamental, Reset, Binary
<1>4. CASE CarriesAny(i)
  BY <1>4 DEF CarriesAny, Reset, Binary
<1>5. CASE CarriesForeign(i)
  BY <1>5 DEF CarriesForeign, Reset, Binary
<1> QED BY <1>1, <1>2, <1>3, <1>4, <1>5 DEF Carries

(* Memory a binary value refers to without owning it is an array of bool.  *)
LEMMA ReferredKinds ==
  ASSUME TypeOK, NEW i \in Arg, Carries(i),
         NEW b \in Block, b \in {bin[i].u, bin[i].custom_data}
  PROVE  (b \in Cleanup(bin[i]) \/ heap[b].kind = "bool[]") /\ heap[b].kind # "free"
<1>1. Zero \notin Block /\ Block \cap (Val \cup {Moved}) = {}
  BY TransferAssumption
<1> USE DEF Cleanup, Cpp, C, NoType
<1>2. CASE bin[i] = Reset
  BY <1>1, <1>2 DEF Reset, Binary
<1>3. CASE CarriesString(i)
  BY <1>3 DEF CarriesString
<1>4. CASE CarriesFundamental(i)
  <2>1. wire[i].is.val \in Val \cup {Moved}
    BY DEF TypeOK, Contents
  <2> QED BY <1>1, <1>4, <2>1 DEF CarriesFundamental
<1>5. CASE CarriesAny(i)
  BY <1>1, <1>5 DEF CarriesAny, Array
<1>6. CASE CarriesForeign(i)
  BY <1>1, <1>6 DEF CarriesForeign
<1> QED BY <1>2, <1>3, <1>4, <1>5, <1>6 DEF Carries

(* A binary value whose memory a step leaves alone carries what it did.    *)
LEMMA Untouched ==
  ASSUME NEW j \in Arg, Carries(j), bin'[j] = bin[j], wire'[j] = wire[j],
         \A b \in Block : b \in {bin[j].u, bin[j].custom_data} => heap'[b] = heap[b]
  PROVE  Carries(j)'
<1>1. CASE bin[j] = Reset
  BY <1>1 DEF Carries
<1>2. CASE CarriesString(j)
  BY <1>2 DEF Carries, CarriesString
<1>3. CASE CarriesFundamental(j)
  BY <1>3 DEF Carries, CarriesFundamental
<1>4. CASE CarriesAny(j)
  BY <1>4 DEF Carries, CarriesAny
<1>5. CASE CarriesForeign(j)
  BY <1>5 DEF Carries, CarriesForeign
<1> QED BY <1>1, <1>2, <1>3, <1>4, <1>5 DEF Carries

(* A step that takes free memory or releases what one binary value owns    *)
(* does not touch the others.                                              *)
LEMMA OthersKept ==
  ASSUME IInv, NEW i \in Arg,
         \A j \in Arg \ {i} : bin'[j] = bin[j] /\ wire'[j] = wire[j],
         \A b \in Block : heap'[b] = heap[b] \/ heap[b].kind = "free" \/ b \in Cleanup(bin[i])
  PROVE  \A j \in Arg \ {i} : Carries(j)'
<1> SUFFICES ASSUME NEW j \in Arg \ {i} PROVE Carries(j)'
  OBVIOUS
<1>1. Carries(i) /\ Carries(j) /\ Disjoint(i, j) /\ TypeOK
  BY DEF IInv
<1>2. ASSUME NEW b \in Block, b \in {bin[j].u, bin[j].custom_data}
      PROVE  heap'[b] = heap[b]
  <2>1. (b \in Cleanup(bin[j]) \/ heap[b].kind = "bool[]") /\ heap[b].kind # "free"
    BY <1>1, <1>2, ReferredKinds
  <2>2. b \in Cleanup(bin[i]) => heap[b].kind # "bool[]"
    BY <1>1, OwnedKinds
  <2> QED BY <1>1, <2>1, <2>2 DEF Disjoint
<1> QED BY <1>1, <1>2, Untouched

(* Putting a value in an argument that is empty, in memory that was free.  *)
LEMMA SendInv ==
  ASSUME IInv, TypeOK', NEW i \in Arg, bin[i] = Reset, bin'[i] # Reset, Carries(i)',
         \A j \in Arg \ {i} : bin'[j] = bin[j] /\ wire'[j] = wire[j] /\ arg'[j] = arg[j],
         \A b \in Cleanup(bin'[i]) : heap[b].kind = "free",
         \A b \in Block : \/ heap'[b] = heap[b]
                          \/ /\ heap[b].kind = "free"
                             /\ b \in Cleanup(bin'[i]) \/ heap'[b].kind = "bool[]"
  PROVE  IInv'
<1>1. \A j \in Arg : Carries(j)'
  BY OthersKept
<1>2. ASSUME NEW j \in Arg \ {i} PROVE Cleanup(bin'[i]) \cap Cleanup(bin'[j]) = {}
  <2>1. TypeOK /\ Carries(j) /\ bin'[j] = bin[j]
    BY <1>2 DEF IInv
  <2>2. \A b \in Cleanup(bin[j]) : heap[b].kind # "free"
    BY <2>1, OwnedKinds
  <2> QED BY <2>1, <2>2
<1>3. \A j, k \in Arg : j # k => Disjoint(j, k)'
  BY <1>2 DEF IInv, Disjoint
<1>4. ArrivesAsSent'
  BY DEF IInv, ArrivesAsSent
<1>5. OnlyBitsLost'
  <2> SUFFICES ASSUME NEW b \in Block, heap'[b] # Free, heap'[b].kind # "bool[]"
               PROVE  \E j \in Arg : b \in Cleanup(bin'[j])
    BY DEF OnlyBitsLost, Owned
  <2>1. CASE b \in Cleanup(bin'[i])
    BY <2>1
  <2>2. CASE heap'[b] = heap[b]
    <3>1. PICK j \in Arg : b \in Cleanup(bin[j])
      BY <2>2 DEF IInv, OnlyBitsLost, Owned
    <3>2. Cleanup(bin[i]) = {}
      BY DEF Cleanup, Reset, Binary, NoType
    <3> QED BY <3>1, <3>2
  <2> QED BY <2>1, <2>2
<1> QED BY <1>1, <1>3, <1>4, <1>5 DEF IInv

(* Resetting an argument, whose value was received or is not wanted.       *)
LEMMA ResetInv ==
  ASSUME IInv, TypeOK', NEW i \in Arg, ResetBinval(i),
         \A j \in Arg \ {i} : wire'[j] = wire[j] /\ arg'[j] = arg[j],
         \/ wire'[i] = Nothing
         \/ arg'[i] = wire'[i].is
         \/ wire'[i].by = "c" /\ wire'[i].is.type \notin Pod
         \/ wire'[i].by = "c" /\ wire'[i].is.type = "string"
                             /\ CStr[wire'[i].is.val] # wire'[i].is.val
  PROVE  IInv'
<1>1. bin'[i] = Reset /\ \A j \in Arg \ {i} : bin'[j] = bin[j]
  BY DEF IInv, TypeOK, ResetBinval
<1>2. \A b \in Block : heap'[b] = IF b \in Cleanup(bin[i]) THEN Free ELSE heap[b]
  BY DEF ResetBinval
<1>3. \A j \in Arg : Carries(j)'
  <2>1. \A j \in Arg \ {i} : Carries(j)'
    BY <1>1, <1>2, OthersKept
  <2> QED BY <1>1, <2>1 DEF Carries
<1>4. Cleanup(bin'[i]) = {}
  BY <1>1 DEF Cleanup, Reset, Binary, NoType
<1>5. \A j, k \in Arg : j # k => Disjoint(j, k)'
  BY <1>1, <1>4 DEF IInv, Disjoint
<1>6. ArrivesAsSent'
  BY <1>1 DEF IInv, ArrivesAsSent
<1>7. OnlyBitsLost'
  <2> SUFFICES ASSUME NEW b \in Block, heap'[b] # Free, heap'[b].kind # "bool[]"
               PROVE  \E j \in Arg : b \in Cleanup(bin'[j])
    BY DEF OnlyBitsLost, Owned
  <2>1. b \notin Cleanup(bin[i]) /\ heap'[b] = heap[b]
    BY <1>2
  <2>2. PICK j \in Arg : b \in Cleanup(bin[j])
    BY <2>1 DEF IInv, OnlyBitsLost, Owned
  <2> QED BY <1>1, <2>1, <2>2
<1> QED BY <1>3, <1>5, <1>6, <1>7 DEF IInv

-----------------------------------------------------------------------------
THEOREM InitInv == Init => IInv
<1> SUFFICES ASSUME Init PROVE IInv
  OBVIOUS
<1> USE DEF Init, Empty, Nothing, Sent, Content, Free, Memory, Reset, Binary, NoType
<1>1. TypeOK
  BY DEF TypeOK, Contents, Types
<1>2. \A i \in Arg : Carries(i) /\ Cleanup(bin[i]) = {}
  BY DEF Carries, Cleanup
<1> QED BY <1>1, <1>2 DEF IInv, Disjoint, ArrivesAsSent, OnlyBitsLost

(* any::extract(): one lemma for each moveHelper.                          *)
LEMMA StringToInv ==
  ASSUME IInv, NEW i \in Arg, bin[i] = Reset, arg[i].type = "string",
         StringTo(i, arg[i].val), arg' = [arg EXCEPT ![i].val = Moved],
         wire' = [wire EXCEPT ![i] = Sent("cpp", arg[i].type, arg[i].val)], fatal' = fatal
  PROVE  IInv'
<1> DEFINE v == arg[i].val
<1>0. TypeOK /\ arg[i] \in Contents
  BY DEF IInv, TypeOK
<1>1. PICK s \in Block :
        /\ heap[s] = Free
        /\ heap' = [heap EXCEPT ![s] = Memory("string", "string", v)]
        /\ bin' = [bin EXCEPT ![i] = Binary(Cpp("string"), s, s)]
  BY DEF StringTo
<1>2. bin'[i] = Binary(Cpp("string"), s, s) /\ wire'[i] = Sent("cpp", "string", v)
      /\ heap'[s] = Memory("string", "string", v)
  BY <1>0, <1>1 DEF TypeOK
<1>3. bin'[i] # Reset
  BY <1>2 DEF Binary, Reset, Cpp, NoType
<1>4. CarriesString(i)'
  BY <1>2 DEF CarriesString, Binary, Sent, Memory, Content
<1>5. Cleanup(bin'[i]) = {s}
  BY <1>2 DEF Cleanup, Binary, Cpp
<1>6. TypeOK'
  BY <1>0, <1>1, <1>2, <1>3 DEF TypeOK, Contents, Types, Binary, Cpp, NoType, Memory,
     Content, Sent, Pod, Text
<1>7. heap[s].kind = "free"
  BY <1>1 DEF Free, Memory
<1>8. \A j \in Arg \ {i} : bin'[j] = bin[j] /\ wire'[j] = wire[j] /\ arg'[j] = arg[j]
  BY <1>0, <1>1 DEF TypeOK
<1>9. \A b \in Block \ {s} : heap'[b] = heap[b]
  BY <1>0, <1>1 DEF TypeOK
<1> QED BY <1>3, <1>4, <1>5, <1>6, <1>7, <1>8, <1>9, SendInv DEF Carries

LEMMA ObjectToInv ==
  ASSUME IInv, NEW i \in Arg, bin[i] = Reset, arg[i].type = "object",
         ObjectTo(i, arg[i].val), arg' = [arg EXCEPT ![i].val = Moved],
         wire' = [wire EXCEPT ![i] = Sent("cpp", arg[i].type, arg[i].val)], fatal' = fatal
  PROVE  IInv'
<1> DEFINE v == arg[i].val
<1>0. TypeOK /\ arg[i] \in Contents /\ bin[i].u = Zero
  BY DEF IInv, TypeOK, Reset, Binary
<1>1. PICK a \in Block :
        /\ heap[a] = Free
        /\ heap' = [heap EXCEPT ![a] = Memory("any", "object", v)]
        /\ bin' = [bin EXCEPT ![i] = Binary(Cpp("object"), Zero, a)]
  BY <1>0 DEF ObjectTo
<1>2. bin'[i] = Binary(Cpp("object"), Zero, a) /\ wire'[i] = Sent("cpp", "object", v)
      /\ heap'[a] = Memory("any", "object", v)
  BY <1>0, <1>1 DEF TypeOK
<1>3. bin'[i] # Reset
  BY <1>2 DEF Binary, Reset, Cpp, NoType
<1>4. CarriesAny(i)'
  BY <1>2 DEF CarriesAny, Binary, Sent, Memory, Content, Array
<1>5. Cleanup(bin'[i]) = {a}
  BY <1>2 DEF Cleanup, Binary, Cpp
<1>6. TypeOK'
  BY <1>0, <1>1, <1>2, <1>3 DEF TypeOK, Contents, Types, Binary, Cpp, NoType, Memory,
     Content, Sent, Pod, Text
<1>7. heap[a].kind = "free"
  BY <1>1 DEF Free, Memory
<1>8. \A j \in Arg \ {i} : bin'[j] = bin[j] /\ wire'[j] = wire[j] /\ arg'[j] = arg[j]
  BY <1>0, <1>1 DEF TypeOK
<1>9. \A b \in Block \ {a} : heap'[b] = heap[b]
  BY <1>0, <1>1 DEF TypeOK
<1> QED BY <1>3, <1>4, <1>5, <1>6, <1>7, <1>8, <1>9, SendInv DEF Carries

LEMMA ArrayToInv ==
  ASSUME IInv, NEW i \in Arg, bin[i] = Reset, arg[i].type = "array",
         ArrayTo(i, arg[i].val), arg' = [arg EXCEPT ![i].val = Moved],
         wire' = [wire EXCEPT ![i] = Sent("cpp", arg[i].type, arg[i].val)], fatal' = fatal
  PROVE  IInv'
<1> DEFINE v == arg[i].val
<1>0. TypeOK /\ arg[i] \in Contents
  BY DEF IInv, TypeOK
<1>1. PICK a \in Block :
        /\ heap[a] = Free
        /\ heap' = [heap EXCEPT ![a] = Memory("any", "array", v)]
        /\ bin' = [bin EXCEPT ![i] = Binary(Cpp("object"), a, a)]
  BY DEF ArrayTo
<1>2. bin'[i] = Binary(Cpp("object"), a, a) /\ wire'[i] = Sent("cpp", "array", v)
      /\ heap'[a] = Memory("any", "array", v)
  BY <1>0, <1>1 DEF TypeOK
<1>3. bin'[i] # Reset
  BY <1>2 DEF Binary, Reset, Cpp, NoType
<1>4. CarriesAny(i)'
  BY <1>2 DEF CarriesAny, Binary, Sent, Memory, Content, Array
<1>5. Cleanup(bin'[i]) = {a}
  BY <1>2 DEF Cleanup, Binary, Cpp
<1>6. TypeOK'
  BY <1>0, <1>1, <1>2, <1>3 DEF TypeOK, Contents, Types, Binary, Cpp, NoType, Memory,
     Content, Sent, Pod, Text
<1>7. heap[a].kind = "free"
  BY <1>1 DEF Free, Memory
<1>8. \A j \in Arg \ {i} : bin'[j] = bin[j] /\ wire'[j] = wire[j] /\ arg'[j] = arg[j]
  BY <1>0, <1>1 DEF TypeOK
<1>9. \A b \in Block \ {a} : heap'[b] = heap[b]
  BY <1>0, <1>1 DEF TypeOK
<1> QED BY <1>3, <1>4, <1>5, <1>6, <1>7, <1>8, <1>9, SendInv DEF Carries

LEMMA BitsToInv ==
  ASSUME IInv, NEW i \in Arg, bin[i] = Reset, arg[i].type = "bits",
         BitsTo(i, arg[i].val), arg' = [arg EXCEPT ![i].val = Moved],
         wire' = [wire EXCEPT ![i] = Sent("cpp", arg[i].type, arg[i].val)], fatal' = fatal
  PROVE  IInv'
<1> DEFINE v == arg[i].val
<1>0. TypeOK /\ arg[i] \in Contents
  BY DEF IInv, TypeOK
<1>1. PICK a \in Block, p \in Block :
        /\ a # p /\ heap[a] = Free /\ heap[p] = Free
        /\ heap' = [heap EXCEPT ![a] = Memory("any", "bits", v),
                                ![p] = Memory("bool[]", "bits", v)]
        /\ bin' = [bin EXCEPT ![i] = Binary(Cpp("object"), p, a)]
  BY DEF BitsTo
<1>2. bin'[i] = Binary(Cpp("object"), p, a) /\ wire'[i] = Sent("cpp", "bits", v)
      /\ heap'[a] = Memory("any", "bits", v) /\ heap'[p] = Memory("bool[]", "bits", v)
  BY <1>0, <1>1 DEF TypeOK
<1>3. bin'[i] # Reset
  BY <1>2 DEF Binary, Reset, Cpp, NoType
<1>4. CarriesAny(i)'
  BY <1>2 DEF CarriesAny, Binary, Sent, Memory, Content, Array
<1>5. Cleanup(bin'[i]) = {a}
  BY <1>2 DEF Cleanup, Binary, Cpp
<1>6. TypeOK'
  BY <1>0, <1>1, <1>2, <1>3 DEF TypeOK, Contents, Types, Binary, Cpp, NoType, Memory,
     Content, Sent, Pod, Text
<1>7. heap[a].kind = "free" /\ heap[p].kind = "free" /\ heap'[p].kind = "bool[]"
  BY <1>1, <1>2 DEF Free, Memory
<1>8. \A j \in Arg \ {i} : bin'[j] = bin[j] /\ wire'[j] = wire[j] /\ arg'[j] = arg[j]
  BY <1>0, <1>1 DEF TypeOK
<1>9. \A b \in Block \ {a, p} : heap'[b] = heap[b]
  BY <1>0, <1>1 DEF TypeOK
<1> QED BY <1>3, <1>4, <1>5, <1>6, <1>7, <1>8, <1>9, SendInv DEF Carries

(* A fundamental value, sent by C++ or made by the program in C, needs no  *)
(* memory.                                                                 *)
LEMMA FundamentalInv ==
  ASSUME IInv, NEW i \in Arg, bin[i] = Reset, NEW w \in {"cpp", "c"},
         NEW v \in Val \cup {Moved}, "fund" \in CppType \cup Flag,
         bin' = [bin EXCEPT ![i] = Binary([by |-> w, flags |-> "fund"], v, Zero)],
         wire' = [wire EXCEPT ![i] = Sent(w, "fund", v)],
         UNCHANGED <<arg, heap, fatal>>
  PROVE  IInv'
<1>0. TypeOK
  BY DEF IInv
<1>2. bin'[i] = Binary([by |-> w, flags |-> "fund"], v, Zero) /\ wire'[i] = Sent(w, "fund", v)
  BY <1>0 DEF TypeOK
<1>3. bin'[i] # Reset
  BY <1>2 DEF Binary, Reset, NoType
<1>4. CarriesFundamental(i)'
  BY <1>2 DEF CarriesFundamental, Binary, Sent, Content, Cpp, C
<1>5. Cleanup(bin'[i]) = {}
  BY <1>2 DEF Cleanup, Binary
<1>6. TypeOK'
  BY <1>0, <1>2, <1>3 DEF TypeOK, Contents, Types, Binary, NoType, Content, Sent, Pod, Text
<1>8. \A j \in Arg \ {i} : bin'[j] = bin[j] /\ wire'[j] = wire[j] /\ arg'[j] = arg[j]
  BY <1>0 DEF TypeOK
<1> QED BY <1>3, <1>4, <1>5, <1>6, <1>8, SendInv DEF Carries

LEMMA ExtractInv ==
  ASSUME IInv, NEW i \in Arg, Extract(i)
  PROVE  IInv'
<1>1. CASE arg[i].type = "fund" /\ FundamentalTo(i, arg[i].val) /\ UNCHANGED arg
  <2>1. arg[i] \in Contents /\ bin[i].custom_data = Zero
    BY DEF IInv, TypeOK, Extract, Reset, Binary
  <2>2. arg[i].val \in Val \cup {Moved} /\ "fund" \in CppType \cup Flag
    BY <1>1, <2>1 DEF Contents
  <2>3. bin' = [bin EXCEPT ![i] = Binary([by |-> "cpp", flags |-> "fund"], arg[i].val, Zero)]
    BY <1>1, <2>1 DEF FundamentalTo, Cpp
  <2> QED BY <1>1, <2>2, <2>3, FundamentalInv DEF Extract, FundamentalTo
<1>2. CASE arg[i].type = "string" /\ StringTo(i, arg[i].val)
             /\ arg' = [arg EXCEPT ![i].val = Moved]
  BY <1>2, StringToInv DEF Extract
<1>3. CASE arg[i].type = "object" /\ ObjectTo(i, arg[i].val)
             /\ arg' = [arg EXCEPT ![i].val = Moved]
  BY <1>3, ObjectToInv DEF Extract
<1>4. CASE arg[i].type = "array" /\ ArrayTo(i, arg[i].val)
             /\ arg' = [arg EXCEPT ![i].val = Moved]
  BY <1>4, ArrayToInv DEF Extract
<1>5. CASE arg[i].type = "bits" /\ BitsTo(i, arg[i].val)
             /\ arg' = [arg EXCEPT ![i].val = Moved]
  BY <1>5, BitsToInv DEF Extract
<1> QED BY <1>1, <1>2, <1>3, <1>4, <1>5 DEF Extract

LEMMA MakeInv ==
  ASSUME IInv, NEW i \in Arg, NEW f \in Flag, NEW v \in Val, Make(i, f, v)
  PROVE  IInv'
<1>1. CASE f = "fund"
  BY <1>1, FundamentalInv DEF Make, C
<1>2. CASE f # "fund"
  <2>0. TypeOK /\ bin[i] = Reset
    BY DEF IInv, Make
  <2>1. PICK b \in Block :
          /\ heap[b] = Free
          /\ heap' = [heap EXCEPT ![b] = Memory("c", f, v)]
          /\ bin' = [bin EXCEPT ![i] = Binary(C(f), b, Zero)]
    BY <1>2 DEF Make
  <2>2. /\ bin'[i] = Binary(C(f), b, Zero) /\ wire'[i] = Sent("c", f, v)
        /\ heap'[b] = Memory("c", f, v)
    BY <2>0, <2>1 DEF TypeOK, Make
  <2>3. bin'[i] # Reset
    BY <2>2 DEF Binary, Reset, C, NoType
  <2>4. CarriesForeign(i)'
    BY <1>2, <2>2 DEF CarriesForeign, Binary, Sent, Memory, Content
  <2>5. Cleanup(bin'[i]) = {b}
    BY <1>2, <2>2 DEF Cleanup, Binary, C
  <2>6. TypeOK'
    BY <2>0, <2>1, <2>2, <2>3 DEF TypeOK, Contents, Types, Binary, C, NoType, Memory,
       Content, Sent, Make
  <2>7. heap[b].kind = "free"
    BY <2>1 DEF Free, Memory
  <2>8. \A j \in Arg \ {i} : bin'[j] = bin[j] /\ wire'[j] = wire[j] /\ arg'[j] = arg[j]
    BY <2>0, <2>1 DEF TypeOK, Make
  <2>9. \A c \in Block \ {b} : heap'[c] = heap[c]
    BY <2>0, <2>1 DEF TypeOK
  <2> QED BY <2>0, <2>3, <2>4, <2>5, <2>6, <2>7, <2>8, <2>9, SendInv DEF Carries
<1> QED BY <1>1, <1>2

LEMMA ResetType ==
  ASSUME TypeOK, NEW i \in Arg, ResetBinval(i)
  PROVE  /\ bin' \in [Arg -> [type : Types, u : Block \cup Val \cup {Moved, Zero},
                             custom_data : Block \cup {Zero}]]
         /\ \A j \in Arg : bin'[j].type = NoType => bin'[j] = Reset
         /\ heap' \in [Block -> [kind : {"free", "string", "any", "bool[]", "c"},
                                is : Contents]]
<1>1. Free \in [kind : {"free", "string", "any", "bool[]", "c"}, is : Contents]
  BY DEF Free, Memory, Content, Contents
<1>2. Reset \in [type : Types, u : Block \cup Val \cup {Moved, Zero},
                custom_data : Block \cup {Zero}]
  BY DEF Reset, Binary, Types
<1> QED BY <1>1, <1>2 DEF TypeOK, ResetBinval

LEMMA DiscardInv ==
  ASSUME IInv, NEW i \in Arg, Discard(i)
  PROVE  IInv'
<1>1. TypeOK
  BY DEF IInv
<1>2. Nothing \in [by : {"none", "cpp", "c"}, is : Contents]
  BY DEF Nothing, Sent, Content, Contents
<1>3. TypeOK'
  BY <1>1, <1>2, ResetType DEF TypeOK, Discard
<1> QED BY <1>1, <1>3, ResetInv DEF Discard, TypeOK

(* What moveHelper::moveFrom assigns is what was put in the binary value,  *)
(* whichever side did it, but for C strings with a NUL in them and for     *)
(* what C++ has no type for.                                               *)
LEMMA ReceivedAsSent ==
  ASSUME TypeOK, NEW i \in Arg, Carries(i), bin[i] # Reset, bin[i].type.flags # "other"
  PROVE  /\ Received(bin[i], arg[i]) \in Contents
         /\ \/ Received(bin[i], arg[i]) = wire[i].is
            \/ wire[i].by = "c" /\ wire[i].is.type \notin Pod
            \/ wire[i].by = "c" /\ wire[i].is.type = "string"
                               /\ CStr[wire[i].is.val] # wire[i].is.val
<1>0. wire[i].is \in Contents /\ arg[i] \in Contents
  BY DEF TypeOK
<1>1. \A x \in Contents : x = Content(x.type, x.val)
  BY DEF Contents, Content
<1>2. CASE CarriesString(i)
  BY <1>0, <1>2 DEF CarriesString, Received, Cpp
<1>3. CASE CarriesFundamental(i)
  BY <1>0, <1>1, <1>3 DEF CarriesFundamental, Received, Cpp, C
<1>4. CASE CarriesAny(i)
  BY <1>0, <1>4 DEF CarriesAny, Received, Cpp
<1>5. CASE CarriesForeign(i)
  <2> DEFINE w == wire[i].is
  <2>1. Received(bin[i], arg[i]) = Foreign(bin[i], arg[i]) /\ bin[i].type.flags = w.type
        /\ heap[bin[i].u].is = w /\ wire[i].by = "c" /\ w.val \in Val /\ w.type # "fund"
    BY <1>5 DEF CarriesForeign, Received, C
  <2>2. CASE w.type = "string"
    <3>1. CStr[w.val] \in Val
      BY <2>1, TransferAssumption
    <3>2. Received(bin[i], arg[i]) = Content("string", CStr[w.val])
      BY <2>1, <2>2 DEF Foreign, Array
    <3>3. Content("string", CStr[w.val]) \in Contents
      BY <1>0, <2>2, <3>1 DEF Content, Contents
    <3>4. CStr[w.val] = w.val => Content("string", CStr[w.val]) = w
      BY <1>0, <1>1, <2>2
    <3> QED BY <2>1, <2>2, <3>2, <3>3, <3>4
  <2>3. CASE w.type \in Array
    <3>1. Received(bin[i], arg[i]) = Content(w.type, w.val)
      BY <2>1, <2>3 DEF Foreign, Array
    <3> QED BY <1>0, <1>1, <3>1
  <2>4. CASE w.type \notin Pod
    <3>1. Received(bin[i], arg[i]) = arg[i]
      BY <2>1, <2>4 DEF Foreign, Pod, Text, Array
    <3> QED BY <1>0, <2>1, <2>4, <3>1
  <2> QED BY <2>1, <2>2, <2>3, <2>4 DEF Pod, Text
<1> QED BY <1>2, <1>3, <1>4, <1>5 DEF Carries

LEMMA MoveFromInv ==
  ASSUME IInv, NEW i \in Arg, MoveFrom(i)
  PROVE  IInv'
<1>1. TypeOK /\ Carries(i) /\ bin[i] # Reset
  BY DEF IInv, MoveFrom, Reset, Binary
<1>2. CASE bin[i].type.flags = "other"
  <2>1. fatal' = TRUE /\ UNCHANGED <<arg, bin, heap, wire>>
    BY <1>2 DEF MoveFrom
  <2>2. TypeOK'
    BY <1>1, <2>1 DEF TypeOK
  <2>3. \A j \in Arg : Carries(j)'
    BY <2>1, Untouched DEF IInv
  <2> QED BY <2>1, <2>2, <2>3 DEF IInv, Disjoint, ArrivesAsSent, OnlyBitsLost, Owned
<1>3. CASE bin[i].type.flags # "other"
  <2>1. /\ arg' = [arg EXCEPT ![i] = Received(bin[i], arg[i])]
        /\ ResetBinval(i) /\ UNCHANGED <<fatal, wire>>
    BY <1>3 DEF MoveFrom
  <2>2. arg'[i] = Received(bin[i], arg[i]) /\ \A j \in Arg \ {i} : arg'[j] = arg[j]
    BY <1>1, <2>1 DEF TypeOK
  <2>3. TypeOK'
    BY <1>1, <1>3, <2>1, ReceivedAsSent, ResetType DEF TypeOK
  <2> QED BY <1>1, <1>3, <2>1, <2>2, <2>3, ReceivedAsSent, ResetInv
<1> QED BY <1>2, <1>3

(* A new value in an any leaves what is under way alone.                   *)
LEMMA AssignInv ==
  ASSUME IInv, NEW i \in Arg, NEW t \in CppType, NEW v \in Val, Assign(i, t, v)
  PROVE  IInv'
<1>1. TypeOK
  BY DEF IInv
<1>2. /\ \A j \in Arg : bin'[j] = bin[j] /\ (bin[j] # Reset => wire'[j] = wire[j])
      /\ \A j \in Arg \ {i} : arg'[j] = arg[j] /\ wire'[j] = wire[j]
      /\ bin[i] = Reset => wire'[i] = Nothing
      /\ UNCHANGED <<bin, heap>>
  BY <1>1 DEF Assign, TypeOK
<1>3. TypeOK'
  BY <1>1 DEF TypeOK, Assign, Contents, Content, Nothing, Sent
<1>4. ASSUME NEW j \in Arg PROVE Carries(j)'
  <2>1. Carries(j)
    BY DEF IInv
  <2>2. CASE bin[j] = Reset
    BY <1>2, <2>2 DEF Carries
  <2>3. CASE bin[j] # Reset
    BY <1>2, <2>1, <2>3, Untouched
  <2> QED BY <2>2, <2>3
<1>5. ArrivesAsSent'
  BY <1>2 DEF IInv, ArrivesAsSent
<1> QED BY <1>2, <1>3, <1>4, <1>5 DEF IInv, Disjoint, OnlyBitsLost, Owned

THEOREM NextInv == IInv /\ [Next]_vars => IInv'
<1> SUFFICES ASSUME IInv, [Next]_vars PROVE IInv'
  OBVIOUS
<1>1. ASSUME NEW i \in Arg, Extract(i) PROVE IInv'
  BY <1>1, ExtractInv
<1>2. ASSUME NEW i \in Arg, MoveFrom(i) PROVE IInv'
  BY <1>2, MoveFromInv
<1>3. ASSUME NEW i \in Arg, Discard(i) PROVE IInv'
  BY <1>3, DiscardInv
<1>4. ASSUME NEW i \in Arg, NEW t \in CppType, NEW v \in Val, Assign(i, t, v) PROVE IInv'
  BY <1>4, AssignInv
<1>5. ASSUME NEW i \in Arg, NEW f \in Flag, NEW v \in Val, Make(i, f, v) PROVE IInv'
  BY <1>5, MakeInv
<1>6. CASE UNCHANGED vars
  <2>1. TypeOK'
    BY <1>6 DEF vars, IInv, TypeOK
  <2>2. \A j \in Arg : Carries(j)'
    BY <1>6, Untouched DEF vars, IInv
  <2> QED BY <1>6, <2>1, <2>2 DEF vars, IInv, Disjoint, ArrivesAsSent, OnlyBitsLost, Owned
<1> QED BY <1>1, <1>2, <1>3, <1>4, <1>5, <1>6 DEF Next

(* The invariant of the transfer of arguments holds in every reachable     *)
(* state (binarymove.hpp, binaryval.h).                                    *)
THEOREM Invariance == Spec => []IInv
<1> QED BY InitInv, NextInv, PTL DEF Spec

(* Every any, binary value and block has its type, and a binary value      *)
(* without a type is zeroed (binaryval.h:92).                              *)
THEOREM TypeCorrect == Spec => []TypeOK
<1>1. IInv => TypeOK
  BY DEF IInv
<1> QED BY <1>1, Invariance, PTL

(* No memory of an argument is released twice, nor by a cleanup() made for *)
(* another kind of it, for any number of arguments.                        *)
THEOREM ReleasedOnce == Spec => []OwnsWhatItReleases
<1>1. IInv => OwnsWhatItReleases
  BY OwnedKinds DEF IInv, OwnsWhatItReleases, Disjoint
<1> QED BY <1>1, Invariance, PTL

(* The program in C reads the strings, arrays and fundamental values that  *)
(* C++ sent, in memory that is still there.                                *)
THEOREM Readable == Spec => []ReadableInC
<1>1. IInv => ReadableInC
  <2> SUFFICES ASSUME IInv, NEW i \in Arg, bin[i] # Reset, wire[i].is.type \in Pod
               PROVE  IF wire[i].is.type = "fund" THEN bin[i].u = wire[i].is.val
                      ELSE bin[i].u \in Block /\ heap[bin[i].u].is = wire[i].is
    BY DEF ReadableInC
  <2>1. CASE CarriesString(i)
    BY <2>1 DEF CarriesString
  <2>2. CASE CarriesFundamental(i)
    BY <2>2 DEF CarriesFundamental
  <2>3. CASE CarriesAny(i)
    BY <2>3 DEF CarriesAny, Array, Pod, Text
  <2>4. CASE CarriesForeign(i)
    BY <2>4 DEF CarriesForeign
  <2> QED BY <2>1, <2>2, <2>3, <2>4 DEF IInv, Carries
<1> QED BY <1>1, Invariance, PTL

(* What was extracted from an any on one side arrives in an any on the     *)
(* other with its type and value, whatever happens to other arguments.     *)
THEOREM Delivered == Spec => []ArrivesAsSent
<1>1. IInv => ArrivesAsSent
  BY DEF IInv
<1> QED BY <1>1, Invariance, PTL

(* Whatever the two sides send, receive and discard, all memory but the    *)
(* unpacked arrays of bool has an owner.                                   *)
THEOREM NothingElseLost == Spec => []OnlyBitsLost
<1>1. IInv => OnlyBitsLost
  BY DEF IInv
<1> QED BY <1>1, Invariance, PTL
-----------------------------------------------------------------------------
(* Refinement of Transfer: what is on its way in a binary value is what    *)
(* was put in it last, wherever the pieces of it are.                      *)
TransitIsWire ==
  \A i \in Arg : InTransit(i) = IF bin[i] = Reset THEN Nothing ELSE wire[i]

LEMMA TransitFromWire == IInv => TransitIsWire
<1> SUFFICES ASSUME IInv, NEW i \in Arg
             PROVE  InTransit(i) = IF bin[i] = Reset THEN Nothing ELSE wire[i]
  BY DEF TransitIsWire
<1>1. /\ wire[i] \in [by : {"none", "cpp", "c"}, is : Contents] /\ Carries(i)
      /\ wire[i].is = Content(wire[i].is.type, wire[i].is.val)
      /\ wire[i] = [by |-> wire[i].by, is |-> wire[i].is]
  BY DEF IInv, TypeOK, Contents, Content
<1>2. CASE bin[i] = Reset
  BY <1>2 DEF InTransit, Reset, Binary, NoType
<1>3. ASSUME bin[i].type \in {Cpp("string"), Cpp("object")}
      PROVE  bin[i] # Reset /\ InTransit(i) = [by |-> "cpp", is |-> heap[bin[i].custom_data].is]
  BY <1>3 DEF InTransit, Cpp, NoType, Reset, Binary
<1>4. CASE CarriesString(i)
  BY <1>1, <1>3, <1>4 DEF CarriesString
<1>5. CASE CarriesAny(i)
  BY <1>1, <1>3, <1>5 DEF CarriesAny
<1>6. CASE CarriesFundamental(i)
  <2>1. bin[i] # Reset /\ InTransit(i) = Sent(bin[i].type.by, "fund", bin[i].u)
    BY <1>6 DEF CarriesFundamental, InTransit, Cpp, C, NoType, Reset, Binary
  <2> QED BY <1>1, <1>6, <2>1 DEF CarriesFundamental, Sent, Content
<1>7. CASE CarriesForeign(i)
  <2>1. bin[i] # Reset /\ InTransit(i) = [by |-> "c", is |-> heap[bin[i].u].is]
    BY <1>7 DEF CarriesForeign, InTransit, C, NoType, Reset, Binary
  <2> QED BY <1>1, <1>7, <2>1 DEF CarriesForeign
<1> QED BY <1>1, <1>2, <1>4, <1>5, <1>6, <1>7 DEF Carries

LEMMA TransitFromWireNext == IInv' => TransitIsWire'
BY TransitFromWire, PTL

Transit == [i \in Arg |-> InTransit(i)]

(* A step that changes one argument at most changes what is on its way in  *)
(* that one at most.                                                       *)
LEMMA TransitOf ==
  ASSUME IInv, IInv', NEW i \in Arg,
         \A j \in Arg \ {i} : bin'[j] = bin[j] /\ wire'[j] = wire[j]
  PROVE  /\ Transit[i] = IF bin[i] = Reset THEN Nothing ELSE wire[i]
         /\ Transit' = [Transit EXCEPT ![i] = IF bin'[i] = Reset THEN Nothing ELSE wire'[i]]
<1>1. /\ \A j \in Arg : Transit[j] = IF bin[j] = Reset THEN Nothing ELSE wire[j]
      /\ \A j \in Arg : Transit'[j] = IF bin'[j] = Reset THEN Nothing ELSE wire'[j]
  BY TransitFromWire, TransitFromWireNext DEF Transit, TransitIsWire
<1>2. Transit' = [j \in Arg |-> Transit'[j]] /\ Transit = [j \in Arg |-> Transit[j]]
  BY DEF Transit
<1> QED BY <1>1, <1>2

(* A value on its way has a sender.                                        *)
LEMMA NotNothing ==
  ASSUME IInv, NEW i \in Arg, bin[i] # Reset
  PROVE  wire[i].by \in {"cpp", "c"} /\ wire[i] # Nothing
<1>1. Carries(i)
  BY DEF IInv
<1>2. wire[i].by \in {"cpp", "c"}
  BY <1>1 DEF Carries, CarriesString, CarriesFundamental, CarriesAny, CarriesForeign, Cpp, C
<1> QED BY <1>2 DEF Nothing, Sent

(* moveFrom() makes of a binary value exactly what Transfer says of what   *)
(* was put in it.                                                          *)
LEMMA ReceivedIsArrived ==
  ASSUME IInv, NEW i \in Arg, bin[i] # Reset
  PROVE  /\ bin[i].type.flags # "other" =>
              Received(bin[i], arg[i]) = Channels!Arrived(wire[i], arg[i])
         /\ bin[i].type.flags = "other" <=> wire[i].by = "c" /\ wire[i].is.type = "other"
<1>1. Carries(i) /\ wire[i].is \in Contents
      /\ \A x \in Contents : x = Content(x.type, x.val)
  BY DEF IInv, TypeOK, Contents, Content
<1>2. CASE CarriesString(i)
  BY <1>2 DEF CarriesString, Received, Cpp, Channels!Arrived
<1>3. CASE CarriesFundamental(i)
  BY <1>1, <1>3 DEF CarriesFundamental, Received, Cpp, C, Channels!Arrived
<1>4. CASE CarriesAny(i)
  BY <1>4 DEF CarriesAny, Received, Cpp, Channels!Arrived, Array
<1>5. CASE CarriesForeign(i)
  <2> DEFINE w == wire[i].is
  <2>1. Received(bin[i], arg[i]) = Foreign(bin[i], arg[i]) /\ bin[i].type.flags = w.type
        /\ heap[bin[i].u].is = w /\ wire[i].by = "c" /\ w.type # "fund"
    BY <1>5 DEF CarriesForeign, Received, C
  <2>2. CASE w.type = "string"
    BY <2>1, <2>2 DEF Foreign, Array, Channels!Arrived, Channels!Content, Content
  <2>3. CASE w.type \in Array
    BY <1>1, <2>1, <2>3 DEF Foreign, Array, Channels!Arrived
  <2>4. CASE w.type \notin Pod
    BY <2>1, <2>4 DEF Foreign, Pod, Text, Array, Channels!Arrived
  <2> QED BY <2>1, <2>2, <2>3, <2>4 DEF Pod, Text
<1> QED BY <1>1, <1>2, <1>3, <1>4, <1>5 DEF Carries

LEMMA ChannelNames ==
  /\ Channels!Nothing = Nothing
  /\ \A t, v : Channels!Content(t, v) = Content(t, v)
  /\ \A b, t, v : Channels!Sent(b, t, v) = Sent(b, t, v)
BY DEF Channels!Nothing, Channels!Content, Channels!Sent, Nothing, Content, Sent

LEMMA ExtractSends ==
  ASSUME IInv, IInv', NEW i \in Arg, Extract(i)
  PROVE  Channels!Send(i)
<1>1. /\ bin[i] = Reset /\ TypeOK /\ UNCHANGED fatal
      /\ wire' = [wire EXCEPT ![i] = Sent("cpp", arg[i].type, arg[i].val)]
      /\ arg[i].type \in {"fund", "string", "object", "array", "bits"}
      /\ IF arg[i].type = "fund" THEN arg' = arg ELSE arg' = [arg EXCEPT ![i].val = Moved]
  BY DEF Extract, IInv
<1>2. /\ bin'[i] # Reset /\ \A j \in Arg \ {i} : bin'[j] = bin[j]
  BY <1>1 DEF Extract, FundamentalTo, StringTo, ObjectTo, ArrayTo, BitsTo, TypeOK, Binary,
              Reset, Cpp, NoType
<1>3. /\ wire'[i] = Sent("cpp", arg[i].type, arg[i].val)
      /\ \A j \in Arg \ {i} : wire'[j] = wire[j]
  BY <1>1 DEF TypeOK
<1>4. /\ Transit[i] = Nothing
      /\ Transit' = [Transit EXCEPT ![i] = Sent("cpp", arg[i].type, arg[i].val)]
  BY <1>1, <1>2, <1>3, TransitOf
<1>5. arg' = [arg EXCEPT ![i].val = IF arg[i].type = "fund" THEN arg[i].val ELSE Moved]
  BY <1>1 DEF TypeOK, Contents
<1> QED BY <1>1, <1>4, <1>5, ChannelNames DEF Channels!Send, Transit

LEMMA MakePuts ==
  ASSUME IInv, IInv', NEW i \in Arg, NEW f \in Flag, NEW v \in Val, Make(i, f, v)
  PROVE  Channels!Put(i)
<1>1. /\ bin[i] = Reset /\ TypeOK /\ UNCHANGED <<arg, fatal>>
      /\ wire' = [wire EXCEPT ![i] = Sent("c", f, v)]
  BY DEF Make, IInv
<1>2. /\ bin'[i] # Reset /\ \A j \in Arg \ {i} : bin'[j] = bin[j]
  BY <1>1 DEF Make, TypeOK, Binary, Reset, C, NoType
<1>3. wire'[i] = Sent("c", f, v) /\ \A j \in Arg \ {i} : wire'[j] = wire[j]
  BY <1>1 DEF TypeOK
<1>4. /\ Transit[i] = Nothing /\ Transit' = [Transit EXCEPT ![i] = Sent("c", f, v)]
  BY <1>1, <1>2, <1>3, TransitOf
<1>5. /\ Transit'[i] = Sent("c", f, v)
      /\ Sent("c", f, v) \in [by : {"c"}, is : [type : Flag, val : Val]]
  BY <1>4 DEF Transit, Sent, Content
<1> QED BY <1>1, <1>4, <1>5, ChannelNames DEF Channels!Put, Transit

LEMMA MoveFromReceives ==
  ASSUME IInv, IInv', NEW i \in Arg, MoveFrom(i)
  PROVE  Channels!Receive(i) \/ Channels!Stop(i)
<1>1. bin[i] # Reset /\ TypeOK /\ wire' = wire
  BY DEF MoveFrom, Reset, Binary, IInv
<1>2. wire[i].by \in {"cpp", "c"} /\ wire[i] # Nothing
  BY <1>1, NotNothing
<1>3. CASE bin[i].type.flags = "other"
  <2>1. fatal' = TRUE /\ UNCHANGED <<arg, bin, heap>>
    BY <1>3 DEF MoveFrom
  <2>2. Transit[i] = wire[i] /\ Transit' = Transit
    <3>1. Transit[i] = wire[i]
      BY <1>1, <2>1, TransitOf
    <3>2. Transit' = Transit
      BY <2>1 DEF Transit, InTransit
    <3> QED BY <3>1, <3>2
  <2> QED BY <1>1, <1>3, <2>1, <2>2, ReceivedIsArrived DEF Channels!Stop, Transit
<1>4. CASE bin[i].type.flags # "other"
  <2>1. arg' = [arg EXCEPT ![i] = Received(bin[i], arg[i])] /\ ResetBinval(i) /\ UNCHANGED fatal
    BY <1>4 DEF MoveFrom
  <2>2. bin'[i] = Reset /\ \A j \in Arg \ {i} : bin'[j] = bin[j]
    BY <1>1, <2>1 DEF ResetBinval, TypeOK
  <2>3. Transit[i] = wire[i] /\ Transit' = [Transit EXCEPT ![i] = Nothing]
    BY <1>1, <2>2, TransitOf
  <2>4. Received(bin[i], arg[i]) = Channels!Arrived(wire[i], arg[i])
    BY <1>1, <1>4, ReceivedIsArrived
  <2>5. wire[i].is.type # "other"
    BY <1>1, <1>2, <1>4, ReceivedIsArrived DEF IInv, Carries, CarriesString,
       CarriesFundamental, CarriesAny, CarriesForeign, Array, C
  <2> QED BY <1>2, <2>1, <2>3, <2>4, <2>5, ChannelNames DEF Channels!Receive, Transit
<1> QED BY <1>3, <1>4

LEMMA DiscardDrops ==
  ASSUME IInv, IInv', NEW i \in Arg, Discard(i)
  PROVE  Channels!Drop(i)
<1>1. /\ bin'[i] = Reset /\ \A j \in Arg \ {i} : bin'[j] = bin[j] /\ wire'[j] = wire[j]
      /\ UNCHANGED <<arg, fatal>>
  BY DEF Discard, ResetBinval, IInv, TypeOK
<1>2. Transit' = [Transit EXCEPT ![i] = Nothing]
  BY <1>1, TransitOf
<1> QED BY <1>1, <1>2, ChannelNames DEF Channels!Drop, Transit

LEMMA AssignAssigns ==
  ASSUME IInv, NEW i \in Arg, NEW t \in CppType, NEW v \in Val, Assign(i, t, v)
  PROVE  Channels!Assign(i)
<1>1. /\ arg' = [arg EXCEPT ![i] = Content(t, v)] /\ arg'[i] = Content(t, v)
      /\ UNCHANGED <<bin, heap, fatal>>
  BY DEF Assign, IInv, TypeOK
<1>2. Transit' = Transit
  BY <1>1 DEF Transit, InTransit
<1>3. Content(t, v) \in [type : CppType, val : Val]
  BY DEF Content
<1> QED BY <1>1, <1>2, <1>3 DEF Channels!Assign, Transit

(* One step of the two sides, as Transfer sees it.                         *)
LEMMA StepImplements ==
  IInv /\ IInv' /\ [Next]_vars => [Channels!Next]_Channels!vars
<1> SUFFICES ASSUME IInv, IInv', [Next]_vars
             PROVE  Channels!Next \/ UNCHANGED Channels!vars
  OBVIOUS
<1>1. CASE UNCHANGED vars
  BY <1>1 DEF vars, Channels!vars, InTransit
<1>2. ASSUME NEW i \in Arg,
             \/ Extract(i) \/ MoveFrom(i) \/ Discard(i)
             \/ \E t \in CppType, v \in Val : Assign(i, t, v)
             \/ \E f \in Flag, v \in Val : Make(i, f, v)
      PROVE  Channels!Next
  <2>1. ~fatal
    BY <1>2 DEF Extract, MoveFrom, Discard, Assign, Make
  <2>2. \/ Channels!Send(i) \/ Channels!Receive(i) \/ Channels!Stop(i) \/ Channels!Drop(i)
        \/ Channels!Assign(i) \/ Channels!Put(i)
    BY <1>2, ExtractSends, MoveFromReceives, DiscardDrops, AssignAssigns, MakePuts
  <2> QED BY <2>1, <2>2 DEF Channels!Next
<1> QED BY <1>1, <1>2 DEF Next

LEMMA InitImplements == Init => Channels!Init
BY ChannelNames DEF Init, Channels!Init, Empty, InTransit, Reset, Binary, NoType

(* For any number of arguments, values and blocks, the transfer of         *)
(* arguments implements a channel for each of them: pointers, cleanup      *)
(* functions and the order of transfers make no difference to what arrives.*)
THEOREM TransferImplemented == Spec => ImplementsTransfer
BY InitImplements, StepImplements, Invariance, PTL DEF Spec, ImplementsTransfer, Channels!Spec
-----------------------------------------------------------------------------
(* The promise of the documentation that this code does not keep, NoLeak,  *)
(* is broken by std::vector<bool> alone: no other type leaves memory that  *)
(* no cleanup() releases.                                                  *)
NoBools == \A b \in Block : heap[b].kind # "bool[]"

LEMMA NoBoolsKept ==
  ASSUME "bits" \notin CppType \cup Flag, IInv, NoBools, [Next]_vars
  PROVE  NoBools'
<1>1. TypeOK /\ \A i \in Arg : arg[i].type # "bits"
  BY DEF IInv, TypeOK, Contents
<1>2. ASSUME NEW i \in Arg, Extract(i)
      PROVE  NoBools'
  BY <1>1, <1>2 DEF Extract, FundamentalTo, StringTo, ObjectTo, ArrayTo, NoBools, TypeOK, Memory
<1>3. ASSUME NEW i \in Arg, ResetBinval(i)
      PROVE  NoBools'
  BY <1>3 DEF ResetBinval, NoBools, Free, Memory
<1>4. ASSUME NEW i \in Arg, NEW f \in Flag, NEW v \in Val, Make(i, f, v)
      PROVE  NoBools'
  BY <1>1, <1>4 DEF Make, NoBools, TypeOK, Memory
<1>5. CASE UNCHANGED heap
  BY <1>5 DEF NoBools
<1> QED BY <1>2, <1>3, <1>4, <1>5 DEF Next, MoveFrom, Discard, Assign, vars

(* Where no std::vector<bool> is transferred, all memory goes with its     *)
(* binary value, as the documentation has it.                              *)
THEOREM OnlyBitsLeak ==
  ASSUME "bits" \notin CppType \cup Flag
  PROVE  Spec => []NoLeak
<1>1. Init => NoBools
  BY DEF Init, NoBools, Free, Memory
<1>2. IInv /\ NoBools /\ [Next]_vars => NoBools'
  BY NoBoolsKept
<1>3. IInv /\ NoBools => NoLeak
  BY DEF IInv, OnlyBitsLost, NoBools, NoLeak
<1> QED BY <1>1, <1>2, <1>3, Invariance, PTL DEF Spec
=============================================================================
