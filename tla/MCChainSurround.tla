-------------------------- MODULE MCChainSurround ---------------------------
(***************************************************************************)
(* Epochs of one block.  While b3 has a vote, a4 and a5 are included but  *)
(* are not the head; b4 hides b3, a5 is replayed and voted for; then the   *)
(* votes that b4 carries finalize b2, and b4 is replayed and voted for.    *)
(***************************************************************************)
EXTENDS MCChain

CONSTANTS g, a1, a2, a3, a4, a5, b1, b2, b3, b4

MCBlocks == {a1, a2, a3, a4, a5, b1, b2, b3, b4}
MCParent == a1 :> g @@ a2 :> a1 @@ a3 :> a2 @@ a4 :> a3 @@ a5 :> a4 @@
            b1 :> g @@ b2 :> b1 @@ b3 :> b2 @@ b4 :> b3
MCHeight == g :> 0 @@ a1 :> 1 @@ a2 :> 2 @@ a3 :> 3 @@ a4 :> 4 @@ a5 :> 5 @@
            b1 :> 1 @@ b2 :> 2 @@ b3 :> 3 @@ b4 :> 4
MCAncestors == AncestorsOf(MCParent)
MCProposer == [b \in MCBlocks |-> v1]
MCBlockVotes == [b \in MCBlocks |->
    CASE b = a2 -> << VoteBy(v3, b3, g) >>
      [] b = b4 -> << VoteBy(v1, b3, g), VoteBy(v2, b3, g) >>
      [] OTHER  -> <<>>]
=============================================================================
