----------------------------- MODULE MCMemPool -----------------------------
(* Two threads, two containers, an element type and the type of the table  *)
(* beside the elements.  The arena has a pool of its own, the slab, for    *)
(* each type it is asked to optimize; the heap has none.                   *)
EXTENDS MemPool, TLC
CONSTANTS t1, t2, c1, c2, node, bucket, heap, arena, slab
MCThread    == {t1, t2}
MCType      == {node, bucket}
MCHeld      == {node}
MCRebound   == (node :> bucket) @@ (bucket :> bucket)
MCContainer == {c1, c2}
MCPool      == {heap, arena, slab}
MCRoot      == {arena, slab}
MCMemPoolOf == [x \in MCPool \X MCType \X BOOLEAN |->
                  IF x[1] = arena /\ x[3] THEN slab ELSE x[1]]
Symmetry    == Permutations(MCThread) \cup Permutations(MCContainer)
=============================================================================
