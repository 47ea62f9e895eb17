----------------------------- MODULE NodeClaims -----------------------------
(***************************************************************************)
(* What a comment of the repository says of a validator and the code does  *)
(* not do.                                                                 *)
(***************************************************************************)
EXTENDS Node

(* machine.rs:131: the transactions of a block "must follow a known        *)
(* ordering algorithm described in more detail in the block producer       *)
(* module": what the producer takes from its mempool passes the check, and *)
(* produce() does not panic.                                               *)
ProducerFollowsTheOrder == main # "panic: order"
=============================================================================
