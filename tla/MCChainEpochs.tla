---------------------------- MODULE MCChainEpochs ---------------------------
(***************************************************************************)
(* Epochs of two blocks.  p1 to p6 gathers a majority and is finalized to  *)
(* p1 and then, in one loop, to p2 and p3; q2 competes with it inside      *)
(* epoch 1.  A block may overtake blocks that are one height below it.     *)
(***************************************************************************)
EXTENDS MCChain

CONSTANTS g, p1, p2, p3, p4, p5, p6, q2

MCBlocks == {p1, p2, p3, p4, p5, p6, q2}
MCParent == p1 :> g @@ p2 :> p1 @@ p3 :> p2 @@ p4 :> p3 @@ p5 :> p4 @@ p6 :> p5 @@
            q2 :> p1
MCHeight == g :> 0 @@ p1 :> 1 @@ p2 :> 2 @@ p3 :> 3 @@ p4 :> 4 @@ p5 :> 5 @@
            p6 :> 6 @@ q2 :> 2
MCAncestors == AncestorsOf(MCParent)
MCProposer == [b \in MCBlocks |-> IF b = q2 THEN v2 ELSE v1]
MCBlockVotes ==
    p1 :> <<>> @@
    p2 :> <<>> @@
    p3 :> << VoteBy(v1, p2, g), VoteBy(v2, p2, g) >> @@
    p4 :> << VoteBy(v3, q2, g) >> @@
    p5 :> << VoteBy(v1, p4, p1), VoteBy(v2, p4, p1) >> @@
    p6 :> <<>> @@
    q2 :> <<>>

(* If every block is delivered eventually, in whatever order and however   *)
(* often, the branch that holds the votes of a majority is finalized as    *)
(* far as those votes allow: Chain::try_finalize_roots is not held up by   *)
(* a competing fork, by votes that arrive before their blocks, or by       *)
(* events that poll_next has not handed out yet.                           *)
MajorityBranchIsFinalized == <>(finalized = p3)
=============================================================================
