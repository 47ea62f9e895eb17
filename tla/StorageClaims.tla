---------------------------- MODULE StorageClaims ---------------------------
(***************************************************************************)
(* What comments of the repository say of storage and restarts and the     *)
(* code does not do.                                                       *)
(***************************************************************************)
EXTENDS Storage

(* vm/state.rs:107: Finalized "Represents a block that has been finalized  *)
(* [...].  It contains the global blockchain state": the account state is  *)
(* the one after the finalized block, also when main() builds it from the  *)
(* two databases after a crash.                                            *)
StateIsOfFinalizedBlock == state = finalized
=============================================================================
