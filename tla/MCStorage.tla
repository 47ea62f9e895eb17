----------------------------- MODULE MCStorage ------------------------------
(***************************************************************************)
(* A chain of three blocks that are confirmed and finalized one after the  *)
(* other, long enough for the history to be pruned.                        *)
(***************************************************************************)
EXTENDS StorageClaims

CONSTANTS g, c1, c2, c3

MCBlocks == {c1, c2, c3}
MCParent == c1 :> g @@ c2 :> c1 @@ c3 :> c2
MCHeight == g :> 0 @@ c1 :> 1 @@ c2 :> 2 @@ c3 :> 3
MCAncestors == [b \in MCBlocks |-> {a \in MCBlocks \cup {g} : MCHeight[a] < MCHeight[b]}]
=============================================================================
