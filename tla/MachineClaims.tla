--------------------------- MODULE MachineClaims ----------------------------
(***************************************************************************)
(* What comments of the repository say of the execution of transactions    *)
(* and the code does not do.                                               *)
(***************************************************************************)
EXTENDS Machine

(* machine.rs:54: the Machine is "a state machine that takes as an input a *)
(* state and a block and outputs a new state", and state.rs:147: "the      *)
(* entire state of the blockchain is the result of cumulative application  *)
(* of consecutive state diffs": the same blocks give every validator the   *)
(* same outputs, and none refuses the block of a validator that follows    *)
(* the code.                                                               *)
HonestBlocksAreAccepted == \A r \in Replicas : ~rejected[r]

(* currency.rs:33: the supply of a mint "represents the total number of    *)
(* all tokens in all accounts".                                            *)
SupplyIsTotal ==
    \A r \in Replicas : \A m \in Mints :
        HeadState(r)[m].exists => Balances(m, HeadState(r)) = HeadState(r)[m].data.supply
=============================================================================
