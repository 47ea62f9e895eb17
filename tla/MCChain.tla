------------------------------ MODULE MCChain ------------------------------
(***************************************************************************)
(* What the instances of Chain share: four keys, of which w has too little *)
(* stake, so that {v1, v2} and {v1, v3} hold a majority and {v2, v3} not,  *)
(* and the functions that Chain derives from the parent links and stakes.  *)
(***************************************************************************)
EXTENDS ChainClaims, ChainFinality

CONSTANTS v1, v2, v3, w

MCKeys == {v1, v2, v3, w}
MCStake == v1 :> 2 @@ v2 :> 1 @@ v3 :> 1 @@ w :> 0
MCStakeOf ==
    [S \in SUBSET DOMAIN MCStake |-> MapThenSumSet(LAMBDA v : MCStake[v], S)]

VoteBy(v, t, j) ==
    [validator |-> v, target |-> t, justification |-> j, valid |-> TRUE]

AncestorsOf(parent) ==
    LET anc[b \in DOMAIN parent] ==
            {parent[b]} \cup
            (IF parent[b] \in DOMAIN parent THEN anc[parent[b]] ELSE {})
    IN anc
=============================================================================
