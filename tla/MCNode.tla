------------------------------- MODULE MCNode -------------------------------
(***************************************************************************)
(* Transactions of two payers and an invalid one, a block of a peer that   *)
(* has one of them too, and a vote of someone who is no validator.         *)
(***************************************************************************)
EXTENDS NodeClaims

CONSTANTS p, q, v

Transaction(payer, nonce, hash) ==
    [payer |-> payer, nonce |-> nonce, hash |-> hash, valid |-> TRUE]
P1 == Transaction(p, 1, 1)
P2 == Transaction(p, 2, 2)
P3 == Transaction(p, 3, 3)
Q1 == Transaction(q, 1, 4)

MCVotes == {[validator |-> v]}
MCPeerBlocks == {Block("peer", {P1}, MCVotes)}
LivePeerBlocks == {Block("peer", {P1}, {})}
MCBatches == {<<P1, [P1 EXCEPT !.hash = 5]>>}

OneTx == {P1}
MCTxs == {P1, Q1, [P2 EXCEPT !.valid = FALSE]}
FourTxs == {P1, P2, P3, Q1}
=============================================================================
