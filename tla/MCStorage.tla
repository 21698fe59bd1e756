------------------------------ MODULE MCStorage ------------------------------
(* An instance of Storage small enough for TLC, whose rows have the vectors *)
(* Embedder computes.                                                       *)
EXTENDS Storage, Embedder, TLC

CONSTANTS old, new, w1, w2, c1

(* The old profile cuts a document into three chunks, the new one into two.  *)
Sizes    == [b \in Branches |-> IF b = "tables" THEN old :> 1 @@ new :> 1
                                ELSE old :> 3 @@ new :> 2]
Passages == old :> (0 :> VectorsOfPassage(3, 0) @@ 1 :> VectorsOfPassage(3, 1)
                    @@ 2 :> VectorsOfPassage(3, 2))
         @@ new :> (0 :> VectorsOfPassage(2, 0) @@ 1 :> VectorsOfPassage(2, 1))
Started  == w1 :> old @@ w2 :> new @@ c1 :> old
=============================================================================
