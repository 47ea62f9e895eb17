---------------------------- MODULE ChainClaims -----------------------------
(***************************************************************************)
(* What comments and docs of the repository say of the consensus engine    *)
(* and the engine does not do.  Each claim quotes its place; a run of its  *)
(* own shows a behaviour of Chain that contradicts it.                     *)
(***************************************************************************)
EXTENDS Chain

(* chain.rs:557: commit_and_vote makes sure that it does not violate "No   *)
(* surround vote": no vote of this validator spans another one.            *)
NoSurroundVote ==
    \A u, x \in voted :
        ~ /\ Height[u.justification] < Height[x.justification]
          /\ Height[x.target] < Height[u.target]
=============================================================================
