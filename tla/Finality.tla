------------------------------ MODULE Finality ------------------------------
(***************************************************************************)
(* What the consensus engine promises to the parts of the validator that   *)
(* listen to it: which blocks it announces as confirmed and as finalized,  *)
(* and in which order.  ChainFinality shows that Chain implements this     *)
(* specification, and Storage builds on it instead of on all of Chain.     *)
(***************************************************************************)
EXTENDS Integers, Sequences, SequencesExt

CONSTANTS
    Blocks,     \* the blocks that are ever produced
    Genesis,    \* the genesis block
    Parent,     \* [Blocks -> hashes]: the parent of a block
    Ancestors   \* [Blocks -> sets of hashes]: the blocks below a block

VARIABLES
    finalized,      \* the last finalized block
    secured,        \* the confirmed blocks above the finalized block
    announcements   \* what was not announced yet; Head is announced next

finalityvars == <<finalized, secured, announcements>>

Announcement(kind, b) == [kind |-> kind, block |-> b]

FinalityInit ==
    /\ finalized = Genesis
    /\ secured = {}
    /\ announcements = <<>>

(* A vote for t confirms t and the blocks below it that were not confirmed *)
(* yet.  Their announcement, lowest block first, overtakes everything that *)
(* waits to be announced.                                                  *)
Confirm(t) ==
    LET newly == {b \in {t} \cup Ancestors[t] :
                     b \in Blocks \ secured /\ finalized \in Ancestors[b]} IN
    /\ t \in newly
    /\ secured' = secured \cup newly
    /\ \E s \in SetToSeqs(newly) :
          /\ \A i \in 2..Len(s) : Parent[s[i]] = s[i-1]
          /\ announcements' = [i \in DOMAIN s |-> Announcement("confirmed", s[i])]
                                  \o announcements
    /\ UNCHANGED finalized

(* A confirmed child of the finalized block is finalized, and the confirmed*)
(* blocks of other branches are given up.                                  *)
Finalize(r) ==
    /\ r \in secured
    /\ Parent[r] = finalized
    /\ finalized' = r
    /\ secured' = {b \in secured : r \in Ancestors[b]}
    /\ announcements' = Append(announcements, Announcement("finalized", r))

Announce ==
    /\ announcements # <<>>
    /\ announcements' = Tail(announcements)
    /\ UNCHANGED <<finalized, secured>>

FinalityNext ==
    \/ \E b \in Blocks : Confirm(b) \/ Finalize(b)
    \/ Announce

FinalitySpec == FinalityInit /\ [][FinalityNext]_finalityvars
=============================================================================
