------------------------------ MODULE TxOrder -------------------------------
(***************************************************************************)
(* The order of the transactions of a block: how the producer chooses it   *)
(* (MempoolState::take_transactions, producer.rs) and how a validator      *)
(* verifies it (verify_transactions_order, vm/machine.rs).                 *)
(*                                                                         *)
(* A transaction has a payer, a nonce and a hash; `hash' is its rank in    *)
(* the order of the hashes.                                                *)
(***************************************************************************)
EXTENDS Integers, Sequences, FiniteSets, SequencesExt

(* Whether a transaction continues the group of the payer of the one       *)
(* before it: in the code, with the nonce one below.                       *)
is_within_payer_group(tx, prev) ==
    tx.payer = prev.payer /\ tx.nonce = prev.nonce - 1

(* The k-th transaction is compared with the head of its group, which is   *)
(* the last one up to k that starts a group, and the first transaction of  *)
(* the block starts none.                                                  *)
verify_transactions_order(txs) ==
    \A k \in 2..Len(txs) : \A head \in 2..k :
        (/\ ~is_within_payer_group(txs[head], txs[head-1])
         /\ \A j \in (head+1)..k : is_within_payer_group(txs[j], txs[j-1]))
        => txs[k].hash >= txs[head].hash

-----------------------------------------------------------------------------
(* take_transactions goes through the mempool in the order in which the    *)
(* hash map yields it, which can be any: `order'.                          *)

(* group_by joins neighbours only: the run of one payer around position i. *)
RunOf(order, i) ==
    {j \in DOMAIN order : \A k \in DOMAIN order :
        (i <= k /\ k <= j) \/ (j <= k /\ k <= i) => order[k].payer = order[i].payer}

(* Inside a run the transactions are sorted by nonce; the sort is stable.  *)
SortsBefore(order, i, j) ==
    order[i].nonce < order[j].nonce \/ (order[i].nonce = order[j].nonce /\ i <= j)
FirstOf(order, i) ==
    CHOOSE j \in RunOf(order, i) : \A k \in RunOf(order, i) : SortsBefore(order, j, k)

(* The runs are sorted by the hash of their first transaction ...          *)
Precedes(order, i, j) ==
    LET x == order[FirstOf(order, i)].hash
        y == order[FirstOf(order, j)].hash IN
    i # j /\ (x < y \/ (x = y /\ SortsBefore(order, i, j)))

Sorted(order) ==
    CHOOSE s \in SetToSeqs(DOMAIN order) :
        \A i, j \in DOMAIN s : i < j => Precedes(order, s[i], s[j])

(* ... and joined, and the first `count' transactions are taken.           *)
take_transactions(order, count) ==
    [k \in 1..(IF count < Len(order) THEN count ELSE Len(order)) |-> order[Sorted(order)[k]]]
=============================================================================
