---------------------------- MODULE MCChainForks ----------------------------
(***************************************************************************)
(* Epochs of one block and two forks from the genesis, delivered in every  *)
(* order: a1-a2-a3-a4 gathers a majority and is finalized up to a2, b1-b2  *)
(* is discarded.  Votes for one fork travel in blocks of the other, and    *)
(* twice.  Orphan trees nest and compete for one missing parent, a1.  Of   *)
(* its children e2 fails to execute and h2 has a wrong height; l1 comes    *)
(* from a key without enough stake, and a vote of b1 is not valid.         *)
(***************************************************************************)
EXTENDS MCChain

CONSTANTS g, a1, a2, a3, a4, b1, b2, e2, h2, l1

MCBlocks == {a1, a2, a3, a4, b1, b2, e2, h2, l1}
MCParent == a1 :> g @@ a2 :> a1 @@ a3 :> a2 @@ a4 :> a3 @@ b1 :> g @@ b2 :> b1 @@
            e2 :> a1 @@ h2 :> a1 @@ l1 :> g
MCHeight == g :> 0 @@ a1 :> 1 @@ a2 :> 2 @@ a3 :> 3 @@ a4 :> 4 @@ b1 :> 1 @@ b2 :> 2 @@
            e2 :> 2 @@ h2 :> 3 @@ l1 :> 1
MCAncestors == AncestorsOf(MCParent)
MCProposer == [b \in MCBlocks |-> IF b = l1 THEN w ELSE IF b \in {b1, b2} THEN v2 ELSE v1]
MCExecutable == MCBlocks \ {e2}
MCBlockVotes ==
    a1 :> <<>> @@
    a2 :> << VoteBy(v1, a1, g) >> @@
    a3 :> << VoteBy(v1, a2, g), VoteBy(v2, a2, g) >> @@
    a4 :> << VoteBy(v1, a2, g), VoteBy(v1, a3, a1), VoteBy(v2, a3, a1) >> @@
    b1 :> << [VoteBy(v1, a1, g) EXCEPT !.valid = FALSE] >> @@
    b2 :> << VoteBy(v3, b1, g), VoteBy(w, b1, g), VoteBy(v1, a1, g),
             VoteBy(v2, a1, g) >> @@
    [b \in {e2, h2, l1} |-> <<>>]
=============================================================================
