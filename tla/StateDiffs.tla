----------------------------- MODULE StateDiffs -----------------------------
(***************************************************************************)
(* Accounts, state differences and views of the state: vm/state.rs,        *)
(* primitives/account.rs, the cascading view of consensus/forktree.rs and  *)
(* the persistent state of storage/state.rs.                               *)
(*                                                                         *)
(* An address is a non-empty tuple of names: a wallet <<"w1">>, a contract *)
(* <<"currency">>, or an address derived from a contract, which is the     *)
(* contract's name followed by the seeds.  <<>> is the absent address.     *)
(***************************************************************************)
EXTENDS Integers, Sequences, FiniteSets

CONSTANTS
    Addresses,   \* the addresses that an account may have
    Wallets      \* the addresses on the curve: those that have a private key

None == <<>>

(* Option<Vec<u8>> of an account, decoded: the kind of record it holds and *)
(* that record's fields, the others being blank.                           *)
NoData == [kind |-> "none", authority |-> None, supply |-> 0, mint |-> None,
           owner |-> None, balance |-> 0, mask |-> <<>>, bytecode |-> <<>>]

ASSUME AddressAssumption == Wallets \subseteq Addresses /\ None \notin Addresses

(* Option<Account>: `exists' tells an account from no account.             *)
NoAccount == [exists |-> FALSE, nonce |-> 0, executable |-> FALSE,
              owner |-> None, data |-> NoData]
Account(nonce, executable, owner, data) ==
    [exists |-> TRUE, nonce |-> nonce, executable |-> executable,
     owner |-> owner, data |-> data]

has_private_key(a) == a \in Wallets
derive(contract, seeds) == contract \o seeds

-----------------------------------------------------------------------------
(* StateDiff: `data' are the accounts written, `deletes' those removed.    *)
(* An account may be in both: remove() leaves its entry in `data'.         *)
EmptyDiff == [data |-> [a \in Addresses |-> NoAccount], deletes |-> {}]

Set(diff, a, account) ==
    [data |-> [diff.data EXCEPT ![a] = account], deletes |-> diff.deletes \ {a}]

Delete(diff, a) == [diff EXCEPT !.deletes = @ \cup {a}]

Merge_mutant(diff, newer) ==
    [data |-> [a \in Addresses |-> IF newer.data[a].exists THEN newer.data[a]
                                   ELSE diff.data[a]],
     deletes |-> diff.deletes \cup newer.deletes]

Merge(diff, newer) ==
    [data |-> [a \in Addresses |-> IF newer.data[a].exists THEN newer.data[a]
                                   ELSE diff.data[a]],
     deletes |-> {a \in diff.deletes : ~newer.data[a].exists} \cup newer.deletes]

(* Overlayed::get: the overlay answers if it wrote the account.  Deletes   *)
(* are not read.                                                           *)
Overlayed(base, diff) ==
    [a \in Addresses |-> IF diff.data[a].exists THEN diff.data[a] ELSE base[a]]

(* CascadingState::get on top of the finalized state: the newest block of  *)
(* the path that wrote the account answers.  Deletes are not read.         *)
CascadingState(base, diffs) ==
    [a \in Addresses |->
        IF \E i \in DOMAIN diffs : diffs[i].data[a].exists
        THEN diffs[CHOOSE i \in DOMAIN diffs :
                     /\ diffs[i].data[a].exists
                     /\ \A j \in DOMAIN diffs : diffs[j].data[a].exists => j <= i].data[a]
        ELSE base[a]]

(* A conversion: what is left of an account that is written to the disk    *)
(* and read back.  The field `executable' is skipped by the serializer.    *)
Persisted(account) == [account EXCEPT !.executable = FALSE]

(* PersistentState::apply: StateDiff::iter yields the writes first and     *)
(* then the removals.                                                      *)
Applied(base, diff) ==
    [a \in Addresses |->
        IF a \in diff.deletes THEN NoAccount
        ELSE IF diff.data[a].exists THEN Persisted(diff.data[a])
        ELSE base[a]]

(* StateDiff::hash with Account::hash: of an account only its nonce, its   *)
(* owner and its data are hashed, and the deletes are not.                 *)
DiffHash(diff) ==
    [a \in Addresses |-> <<diff.data[a].exists, diff.data[a].nonce,
                           diff.data[a].owner, diff.data[a].data>>]
=============================================================================
