------------------------------- MODULE Chain -------------------------------
(***************************************************************************)
(* The consensus engine of one validator: src/consensus/chain.rs with the  *)
(* two structures it owns, the fork tree (forktree.rs) and the orphans     *)
(* (orphans.rs).                                                           *)
(*                                                                         *)
(* The engine is driven from the outside by two calls only, and both run   *)
(* to completion on the one thread that owns the Chain: include(block) and *)
(* poll_next().  A call is a sequence of steps of this model; `call' says  *)
(* which function the engine is in, and no call starts while another one   *)
(* is running.  Between two calls anything may arrive in any order, twice  *)
(* or never.                                                               *)
(*                                                                         *)
(* A block is identified with its hash.  What a block says of itself (its  *)
(* parent, its height, its proposer, its votes) is fixed by the hash and   *)
(* so is given by constant functions.  Running a block's transactions is   *)
(* abstracted to its verdict: the block is in Executable or not.           *)
(***************************************************************************)
EXTENDS Integers, Sequences, FiniteSets, SequencesExt

CONSTANTS
    Blocks,               \* the hashes of the blocks that are ever produced
    Genesis,              \* the hash of the genesis block
    Unknown,              \* hashes that blocks name but that no one ever produces
    Parent,               \* [Blocks -> Hashes]: Produced::parent
    Height,               \* [Blocks \cup {Genesis} -> Nat]: Block::height
    Proposer,             \* [Blocks -> Keys]: the key that signed the block
    Signed,               \* the blocks whose signature verifies
    Executable,           \* the blocks whose state hash the VM reproduces
    BlockVotes,           \* [Blocks -> Seq(Votes)]: the votes a block carries
    Keys,                 \* public keys, of validators or not
    Stake,                \* [Validators -> Nat]: Chain::stakes, Validators \subseteq Keys
    StakeOf,              \* the stake held by a set of validators, see StakeAssumption
    Ancestors,            \* [Blocks -> SUBSET Hashes], see AncestorsAssumption
    MinimumStake,         \* limits.minimum_stake of the genesis
    EpochBlocks,          \* genesis.epoch_blocks
    MaxJustificationAge,  \* limits.max_justification_age of the genesis
    FloatRounding,        \* what the f64 product adds to the majority stake: 0 or 1
    AlwaysOverdue,        \* BOOLEAN: every orphan timer has expired when it is looked at
    ReorderWindow,        \* bound: a block does not overtake blocks this far below it
    QueueBound            \* bound: no block arrives while more events are unread

Hashes == Blocks \cup {Genesis} \cup Unknown
Validators == DOMAIN Stake

(* A vote as it stands in a block; `valid' is Vote::verify_signature.      *)
Votes == [validator : Keys, target : Hashes, justification : Hashes,
          valid : BOOLEAN]

ASSUME BlockAssumption ==
    /\ Genesis \notin Blocks /\ Genesis \notin Unknown
    /\ Blocks \cap Unknown = {}
    /\ IsFiniteSet(Blocks) /\ IsFiniteSet(Unknown)
    /\ Parent \in [Blocks -> Hashes]
    /\ Height \in [Blocks \cup {Genesis} -> Nat]
    /\ Height[Genesis] = 0
    /\ Proposer \in [Blocks -> Keys]
    /\ Signed \subseteq Blocks /\ Executable \subseteq Blocks
    /\ BlockVotes \in [Blocks -> Seq(Votes)]
    /\ Validators \subseteq Keys

(* Ancestors is the transitive closure of the parent links.  It is not     *)
(* reflexive, because a hash covers the hash of the parent, and it is a    *)
(* chain, because a block has one parent.                                  *)
ASSUME AncestorsAssumption ==
    /\ Ancestors \in [Blocks -> SUBSET Hashes]
    /\ \A b \in Blocks :
          /\ Ancestors[b] = {Parent[b]} \cup
                (IF Parent[b] \in Blocks THEN Ancestors[Parent[b]] ELSE {})
          /\ b \notin Ancestors[b]
          /\ \A a \in Ancestors[b] \cap Blocks : Ancestors[a] \subseteq Ancestors[b]
          /\ \A a, c \in Ancestors[b] \cap Blocks :
                a = c \/ a \in Ancestors[c] \/ c \in Ancestors[a]

(* StakeOf sums Stake: it is additive and agrees with Stake on singletons. *)
ASSUME StakeAssumption ==
    /\ Stake \in [Validators -> Nat]
    /\ StakeOf \in [SUBSET Validators -> Nat]
    /\ \A v \in Validators : StakeOf[{v}] = Stake[v]
    /\ \A A, B \in SUBSET Validators :
          A \cap B = {} => StakeOf[A \cup B] = StakeOf[A] + StakeOf[B]

ASSUME LimitAssumption ==
    /\ MinimumStake \in Nat
    /\ EpochBlocks \in Nat \ {0}
    /\ MaxJustificationAge \in Nat
    /\ FloatRounding \in {0, 1}
    /\ AlwaysOverdue \in BOOLEAN
    /\ ReorderWindow \in Nat
    /\ QueueBound \in Nat

VARIABLES
    finalized,          \* the last finalized block
    forktrees,          \* the set of volatile blocks, all trees together
    children,           \* TreeNode.children by hash; those of `finalized' are the roots
    votes,              \* VolatileBlock.votes
    voters,             \* VolatileBlock.voters
    orphans,            \* Orphans.blocks: missing parent -> blocks of the tree ({}: no entry)
    orphanvotes,        \* Orphans.votes: missing target -> votes (<<>>: no entry)
    ownvotes,           \* the map epoch -> (justification, target), as a set of entries
    events,             \* the queue; Head is the next event that poll_next returns
    finalized_history,  \* the map epoch -> hashes, as a set of pairs
    call,               \* the function that the engine is executing, or "idle"
    including,          \* blocks still to include in this include(); Head is the current
    counting,           \* votes still to count in this poll_next()
    polled,             \* the block whose BlockIncluded event is being handled
    received,           \* history: the blocks that include() was called with
    emitted,            \* history: kind of event -> blocks it was returned for
    voted               \* history: the votes this validator cast

treevars == <<finalized, forktrees, children, votes, voters>>
orphanvars == <<orphans, orphanvotes>>
callvars == <<call, including, counting, polled>>
historyvars == <<received, emitted, voted>>
vars == <<treevars, orphanvars, ownvotes, events, finalized_history, callvars,
          historyvars>>

Calls == {"idle", "include", "commit", "consume", "count", "late", "finalize"}
Kinds == {"included", "confirmed", "finalized", "discarded", "missing", "vote"}
Events == {e \in [kind : Kinds, block : Hashes] :
              e.kind # "missing" => e.block \in Blocks}
OwnVotes == [target : Blocks, justification : Blocks \cup {Genesis}]

Epoch(b) == Height[b] \div EpochBlocks

total_stake == StakeOf[{v \in Validators : Stake[v] >= MinimumStake}]

(* Some validator holds stake: ValidatorSchedule::new, which main() calls  *)
(* before it starts, refuses weights that are all zero.                    *)
ASSUME StakedAssumption == total_stake > 0

(* ceil(0.67 * total) in f64: 0.67 is not a binary fraction, so the        *)
(* product of a whole total may land just above the exact one.             *)
minimum_majority_stake == (67 * total_stake + 99) \div 100 + FloatRounding

confirmed(b) == votes[b] >= minimum_majority_stake

EventOf(kind, b) == [kind |-> kind, block |-> b]
EventsOf(kind, s) == [i \in DOMAIN s |-> EventOf(kind, s[i])]

(***************************************************************************)
(* The fork tree.                                                          *)
(***************************************************************************)
Lineage(b) == {b} \cup Ancestors[b]

(* TreeNode::path: the node and its ancestors up to the root of its tree.  *)
path(b) == Lineage(b) \cap forktrees

is_descendant_of(b, h) == h \in path(b) \ {b}

depth(b) == Cardinality(path(b)) - 1

(* The child that TreeNode::head descends into: the first one that has the *)
(* most votes.  (The code compares the depths of siblings on a draw, which *)
(* are equal, so a later sibling never wins a draw.)                       *)
IsTopChild(c) ==
    LET siblings == children[Parent[c]] IN
    \E i \in DOMAIN siblings :
        /\ siblings[i] = c
        /\ \A j \in DOMAIN siblings : votes[siblings[j]] <= votes[c]
        /\ \A j \in 1..(i-1) : votes[siblings[j]] < votes[c]

(* h is what TreeNode::head returns for the node r.                        *)
IsHead(h, r) ==
    /\ h \in forktrees
    /\ r \in path(h)
    /\ children[h] = <<>>
    /\ \A a \in path(h) : r \in Ancestors[a] => IsTopChild(a)

roots == children[finalized]

(* h is the block that Chain::with_head chooses: of the heads of the trees *)
(* the one with the most votes, then the deepest, then the newest tree.    *)
with_head(h) ==
    IF roots = <<>> THEN h = finalized
    ELSE \E i \in DOMAIN roots :
            /\ IsHead(h, roots[i])
            /\ \A j \in DOMAIN roots : \A g \in forktrees :
                  IsHead(g, roots[j]) =>
                    \/ votes[g] < votes[h]
                    \/ votes[g] = votes[h] /\ depth(g) < depth(h)
                    \/ votes[g] = votes[h] /\ depth(g) = depth(h) /\ j <= i

(* s is TreeNode::epoch_start of b.                                        *)
epoch_start(b, s) ==
    /\ s \in path(b)
    /\ Epoch(s) = Epoch(b)
    /\ \A a \in path(b) : Epoch(a) = Epoch(b) => Height[s] <= Height[a]

in_finalized_history(h) ==
    \/ h = finalized
    \/ \E e \in finalized_history : e[2] = h
    \/ /\ Cardinality({e[1] : e \in finalized_history}) < MaxJustificationAge
       /\ h = Genesis

-----------------------------------------------------------------------------
Init ==
    /\ finalized = Genesis
    /\ forktrees = {}
    /\ children = [h \in Hashes |-> <<>>]
    /\ votes = [b \in Blocks |-> 0]
    /\ voters = [b \in Blocks |-> {}]
    /\ orphans = [h \in Hashes |-> {}]
    /\ orphanvotes = [h \in Hashes |-> <<>>]
    /\ ownvotes = {}
    /\ events = <<>>
    /\ finalized_history = {}
    /\ call = "idle"
    /\ including = <<>>
    /\ counting = <<>>
    /\ polled = Genesis
    /\ received = {}
    /\ emitted = [k \in Kinds |-> {}]
    /\ voted = {}

(***************************************************************************)
(* include(block)                                                          *)
(***************************************************************************)
(* The network, a replay or the local producer hands a block to include(). *)
ReceiveBlock(b) ==
    /\ call = "idle"
    /\ Len(events) <= QueueBound
    /\ \A c \in Blocks : Height[c] + ReorderWindow <= Height[b] => c \in received
    /\ call' = "include"
    /\ including' = <<b>>
    /\ received' = received \cup {b}
    /\ UNCHANGED <<treevars, orphanvars, ownvotes, events, finalized_history,
                   counting, polled, emitted, voted>>

(* Mutant: include() does not notice that it has no more orphans to take.  *)
ReturnFromInclude_mutant ==
    /\ including' = Tail(including)
    /\ call' = "include"

(* include() returns for the current block; the loop over the orphans that *)
(* were waiting for an earlier one goes on, if there is one.               *)
ReturnFromInclude ==
    /\ including' = Tail(including)
    /\ call' = IF Tail(including) = <<>> THEN "idle" ELSE "include"

Acceptable(b) ==
    /\ Proposer[b] \in Validators
    /\ Stake[Proposer[b]] >= MinimumStake
    /\ Height[b] > Height[finalized]
    /\ b \in Signed

RejectBlock ==
    /\ call = "include"
    /\ ~Acceptable(Head(including))
    /\ ReturnFromInclude
    /\ UNCHANGED <<treevars, orphanvars, ownvotes, events, finalized_history,
                   counting, polled, historyvars>>

Attached(b) == Parent[b] \in forktrees \cup {finalized}

(* Mutant: try_include trusts the height that the block claims.            *)
Executes_mutant(b) == b \in Executable

Executes(b) == Height[b] = Height[Parent[b]] + 1 /\ b \in Executable

(* Mutant: try_include does not look for the block in the tree.            *)
IsNew_mutant(b) == TRUE

(* get_block_node finds no block of this hash.                             *)
IsNew(b) == b \notin forktrees \cup {finalized}

(* try_include of a block that is already in the tree.                     *)
IncludeDuplicate ==
    /\ call = "include"
    /\ Acceptable(Head(including))
    /\ ~IsNew(Head(including))
    /\ call' = "commit"
    /\ UNCHANGED <<treevars, orphanvars, ownvotes, events, finalized_history,
                   including, counting, polled, historyvars>>

(* Mutant: the event is emitted for roots only.                            *)
emit_event_mutant(b) ==
    events' = IF Parent[b] = finalized THEN Append(events, EventOf("included", b))
              ELSE events

emit_event(b) == events' = Append(events, EventOf("included", b))

(* try_include of a new block under a root or a volatile parent.           *)
TryInclude ==
    LET b == Head(including) IN
    /\ call = "include"
    /\ Acceptable(b)
    /\ IsNew(b)
    /\ Attached(b)
    /\ Executes(b)
    /\ forktrees' = forktrees \cup {b}
    /\ children' = [children EXCEPT ![Parent[b]] = Append(@, b)]
    /\ votes' = [votes EXCEPT ![b] = 0]
    /\ voters' = [voters EXCEPT ![b] = {}]
    /\ emit_event(b)
    /\ call' = "commit"
    /\ UNCHANGED <<finalized, orphanvars, ownvotes, finalized_history,
                   including, counting, polled, historyvars>>

(* try_include fails with a wrong height or a state hash mismatch.         *)
RejectExecution ==
    LET b == Head(including) IN
    /\ call = "include"
    /\ Acceptable(b)
    /\ IsNew(b)
    /\ Attached(b)
    /\ ~Executes(b)
    /\ ReturnFromInclude
    /\ UNCHANGED <<treevars, orphanvars, ownvotes, events, finalized_history,
                   counting, polled, historyvars>>

(* Node::insert of b succeeds in the orphan tree that waits for h: the     *)
(* parent of b is in that tree, at a lower height.                         *)
InsertsUnder(b, h) ==
    /\ Parent[b] \in orphans[h]
    /\ Height[Parent[b]] < Height[b]

(* The entry of Orphans.blocks that add_block puts b into.  A block that   *)
(* fits no tree opens one, unless an entry for its parent exists already:  *)
(* then it is dropped.                                                     *)
OrphanEntries(b) ==
    LET fitting == {h \in Hashes : InsertsUnder(b, h)} IN
    IF fitting # {} THEN fitting
    ELSE IF orphans[Parent[b]] = {} THEN {Parent[b]} ELSE {}

AddOrphan ==
    LET b == Head(including) IN
    /\ call = "include"
    /\ Acceptable(b)
    /\ IsNew(b)
    /\ ~Attached(b)
    /\ \/ \E h \in OrphanEntries(b) :
             orphans' = [orphans EXCEPT ![h] = @ \cup {b}]
       \/ OrphanEntries(b) = {} /\ UNCHANGED orphans
    /\ ReturnFromInclude
    /\ UNCHANGED <<treevars, orphanvotes, ownvotes, events, finalized_history,
                   counting, polled, historyvars>>

(* Mutant: commit_and_vote does not compare the target with its last one.  *)
MayVote_mutant(b) ==
    b \in forktrees /\ \A o \in ownvotes : o.epoch = Epoch(b) =>
        o.justification = finalized \/ in_finalized_history(o.justification)

(* The voting rules of commit_and_vote against the vote already cast in    *)
(* the epoch of b.                                                         *)
MayVote(b) ==
    b \in forktrees /\ \A o \in ownvotes : o.epoch = Epoch(b) =>
        /\ o.justification = finalized \/ in_finalized_history(o.justification)
        /\ is_descendant_of(b, o.target)

commit_and_vote(b) ==
    /\ ownvotes' = {o \in ownvotes : o.epoch # Epoch(b)} \cup
                   {[epoch |-> Epoch(b), justification |-> finalized, target |-> b]}
    /\ events' = Append(events, EventOf("vote", b))
    /\ voted' = voted \cup {[target |-> b, justification |-> finalized]}

(* The block just included is voted for, if it became the head.            *)
CommitAndVote ==
    LET b == Head(including) IN
    /\ call = "commit"
    /\ IF with_head(b) /\ MayVote(b)
       THEN commit_and_vote(b)
       ELSE UNCHANGED <<ownvotes, events, voted>>
    /\ call' = "consume"
    /\ UNCHANGED <<treevars, orphanvars, finalized_history, including, counting,
                   polled, received, emitted>>

(* The position of the parent of s[i] in s, 0 when it is not in s.         *)
ParentPosition(s, i) ==
    LET P == {j \in DOMAIN s : s[j] = Parent[s[i]]} IN
    IF P = {} THEN 0 ELSE CHOOSE j \in P : TRUE

(* The orders in which Node::flatten can list an orphan tree: breadth      *)
(* first, siblings in the order of a hash map.                             *)
flatten(tree) ==
    {s \in SetToSeqs(tree) :
        /\ \A i \in DOMAIN s : ParentPosition(s, i) < i
        /\ \A i, j \in DOMAIN s : i < j => ParentPosition(s, i) <= ParentPosition(s, j)}

(* Mutant: the loop over the orphans does not look for orphans of orphans. *)
Awaited_mutant(b) == Tail(including) = <<>> /\ orphans[b] # {}

Awaited(b) == orphans[b] # {}

(* consume_blocks: the orphans that waited for the block are included next.*)
ConsumeBlocks ==
    LET b == Head(including) IN
    /\ call = "consume"
    /\ Awaited(b)
    /\ \E s \in flatten(orphans[b]) : including' = s \o Tail(including)
    /\ orphans' = [orphans EXCEPT ![b] = {}]
    /\ call' = "include"
    /\ UNCHANGED <<treevars, orphanvotes, ownvotes, events, finalized_history,
                   counting, polled, historyvars>>

(* No orphan waits for the block: include() is done with it.               *)
NothingToConsume ==
    /\ call = "consume"
    /\ ~Awaited(Head(including))
    /\ ReturnFromInclude
    /\ UNCHANGED <<treevars, orphanvars, ownvotes, events, finalized_history,
                   counting, polled, historyvars>>

(***************************************************************************)
(* poll_next()                                                             *)
(***************************************************************************)
Emit(e) ==
    /\ events' = Tail(events)
    /\ emitted' = [emitted EXCEPT ![e.kind] = @ \cup {e.block}]

(* A BlockIncluded event starts post_block_included for its block.         *)
PollIncluded ==
    LET e == Head(events) IN
    /\ call = "idle" /\ events # <<>> /\ e.kind = "included"
    /\ Emit(e)
    /\ polled' = e.block
    /\ counting' = BlockVotes[e.block]
    /\ call' = "count"
    /\ UNCHANGED <<treevars, orphanvars, ownvotes, finalized_history, including,
                   received, voted>>

Counting == call \in {"count", "late"} /\ counting # <<>>

VoteIsEligible(v) ==
    /\ v.validator \in Validators
    /\ Stake[v.validator] >= MinimumStake
    /\ v.valid

IsJustified(v) ==
    \/ in_finalized_history(v.justification)
    \/ is_descendant_of(v.target, v.justification)

(* injest_vote of a vote that is refused: by its validator, its signature  *)
(* or its justification.                                                   *)
RejectVote ==
    LET v == Head(counting) IN
    /\ Counting
    /\ ~VoteIsEligible(v) \/ (v.target \in forktrees /\ ~IsJustified(v))
    /\ counting' = Tail(counting)
    /\ UNCHANGED <<treevars, orphanvars, ownvotes, events, finalized_history,
                   call, including, polled, historyvars>>

(* injest_vote of a vote whose target is not in the tree.                  *)
StoreVote ==
    LET v == Head(counting) IN
    /\ Counting
    /\ VoteIsEligible(v)
    /\ v.target \notin forktrees
    /\ orphanvotes' = [orphanvotes EXCEPT ![v.target] = Append(@, v)]
    /\ counting' = Tail(counting)
    /\ UNCHANGED <<treevars, orphans, ownvotes, events, finalized_history,
                   call, including, polled, historyvars>>

(* Mutant: add_votes adds the stake whether the voter is new or not.       *)
add_votes_twice(target, v) ==
    /\ votes' = [b \in Blocks |->
          IF b \in path(target) THEN votes[b] + Stake[v] ELSE votes[b]]
    /\ voters' = [b \in Blocks |->
          IF b \in path(target) THEN voters[b] \cup {v} ELSE voters[b]]

(* Mutant: add_votes stops at the target.                                  *)
add_votes_target(target, v) ==
    /\ votes' = [votes EXCEPT ![target] = IF v \in voters[target] THEN @ ELSE @ + Stake[v]]
    /\ voters' = [voters EXCEPT ![target] = @ \cup {v}]

(* TreeNode::add_votes: the target and all its volatile ancestors get the  *)
(* stake of a voter that they have not counted yet.                        *)
add_votes(target, v) ==
    /\ votes' = [b \in Blocks |->
          IF b \in path(target) /\ v \notin voters[b] THEN votes[b] + Stake[v]
          ELSE votes[b]]
    /\ voters' = [b \in Blocks |->
          IF b \in path(target) THEN voters[b] \cup {v} ELSE voters[b]]

(* Mutant: only the target of the vote is looked at.                       *)
newly_confirmed_mutant(target) ==
    {b \in {target} : ~confirmed(b) /\ votes'[b] >= minimum_majority_stake}

(* The blocks that the vote for target has confirmed.                      *)
newly_confirmed(target) ==
    {b \in path(target) : ~confirmed(b) /\ votes'[b] >= minimum_majority_stake}

(* injest_vote of a vote that counts.  The blocks it confirms are put at   *)
(* the end of the queue that is popped, oldest block first.                *)
InjestVote ==
    LET v == Head(counting) IN
    /\ Counting
    /\ VoteIsEligible(v)
    /\ v.target \in forktrees
    /\ IsJustified(v)
    /\ add_votes(v.target, v.validator)
    /\ \E s \in SetToSeqs(newly_confirmed(v.target)) :
          /\ \A i, j \in DOMAIN s : i < j => Height[s[i]] < Height[s[j]]
          /\ events' = EventsOf("confirmed", s) \o events
    /\ counting' = Tail(counting)
    /\ UNCHANGED <<finalized, forktrees, children, orphanvars, ownvotes,
                   finalized_history, call, including, polled, historyvars>>

(* consume_votes: the votes that waited for the block are counted next.    *)
ConsumeVotes ==
    /\ call = "count" /\ counting = <<>>
    /\ counting' = orphanvotes[polled]
    /\ orphanvotes' = [orphanvotes EXCEPT ![polled] = <<>>]
    /\ call' = "late"
    /\ UNCHANGED <<treevars, orphans, ownvotes, events, finalized_history,
                   including, polled, historyvars>>

(* The loop over try_finalize_roots begins.                                *)
BeginFinalize ==
    /\ call = "late" /\ counting = <<>>
    /\ call' = "finalize"
    /\ UNCHANGED <<treevars, orphanvars, ownvotes, events, finalized_history,
                   including, counting, polled, historyvars>>

(* c is the first block of the epoch before the one that s starts.         *)
PreviousCheckpoint(s, c) ==
    /\ Parent[s] \in forktrees
    /\ epoch_start(Parent[s], c)

(* Mutant: the head itself has to be confirmed.                            *)
Finalizable_mutant(r) ==
    /\ confirmed(r)
    /\ \E h, s, first, second \in forktrees :
          /\ IsHead(h, r)
          /\ confirmed(h)
          /\ epoch_start(h, s)
          /\ PreviousCheckpoint(s, first)
          /\ confirmed(first)
          /\ PreviousCheckpoint(first, second)
          /\ confirmed(second)

(* The test of find_finalizable_root for one root: the two epochs before   *)
(* the epoch of its head start with confirmed blocks.                      *)
Finalizable(r) ==
    /\ confirmed(r)
    /\ \E h, s, first, second \in forktrees :
          /\ IsHead(h, r)
          /\ epoch_start(h, s)
          /\ PreviousCheckpoint(s, first)
          /\ confirmed(first)
          /\ PreviousCheckpoint(first, second)
          /\ confirmed(second)

FinalizableRoots == {i \in DOMAIN roots : Finalizable(roots[i])}

(* The traversal of a discarded tree: a node, then its subtrees in order.  *)
VisitedBefore(a, b) ==
    \/ a \in Ancestors[b]
    \/ \E x \in Lineage(a) \cap Blocks, y \in Lineage(b) \cap Blocks :
          \E i, j \in DOMAIN children[Parent[x]] :
             /\ i < j
             /\ children[Parent[x]][i] = x
             /\ children[Parent[x]][j] = y

(* The blocks below r.                                                     *)
Survivors(r) == {b \in forktrees : r \in Ancestors[b]}

(* Mutant: the event of the finalized block is put at the wrong end.       *)
signal_finalized_mutant(r, s) ==
    events' = <<EventOf("finalized", r)>> \o events \o EventsOf("discarded", s)

signal_finalized(r, s) ==
    events' = Append(events \o EventsOf("discarded", s), EventOf("finalized", r))

(* finalize_root: r replaces the finalized block, its children become the  *)
(* roots, and every block of the other trees is discarded.                 *)
finalize_root(r) ==
    LET kept == Survivors(r)
        discarded == forktrees \ (kept \cup {r}) IN
    /\ finalized' = r
    /\ forktrees' = kept
    /\ children' = [h \in Hashes |->
          IF h \in kept \cup {r} THEN children[h] ELSE <<>>]
    /\ votes' = [b \in Blocks |-> IF b \in kept THEN votes[b] ELSE 0]
    /\ voters' = [b \in Blocks |-> IF b \in kept THEN voters[b] ELSE {}]
    /\ \E s \in SetToSeqs(discarded) :
          /\ \A i, j \in DOMAIN s : i < j => VisitedBefore(s[i], s[j])
          /\ signal_finalized(r, s)

(* Mutant: the last root is taken out of the list instead of the one found.*)
find_finalizable_root_mutant(i) == FinalizableRoots # {} /\ i = Len(roots)

(* i is the index that find_finalizable_root returns.                      *)
find_finalizable_root(i) ==
    i \in FinalizableRoots /\ \A j \in FinalizableRoots : i <= j

(* One round of try_finalize_roots that finds a root.                      *)
TryFinalizeRoots ==
    /\ call = "finalize"
    /\ \E i \in DOMAIN roots :
          /\ find_finalizable_root(i)
          /\ finalize_root(roots[i])
          /\ ownvotes' = {o \in ownvotes : o.epoch # Epoch(roots[i])}
    /\ UNCHANGED <<orphanvars, finalized_history, callvars, historyvars>>

(* Mutant: try_finalize_roots is called once instead of in a loop.         *)
NothingToFinalize_mutant == TRUE

(* try_finalize_roots returns false.                                       *)
NothingToFinalize == FinalizableRoots = {}

(* missing_blocks: trees no taller than the finalized block are pruned,    *)
(* and the parent of a tree that waited too long is asked for.             *)
MissingBlocks ==
    LET waiting == {h \in Hashes : orphans[h] # {}}
        irrelevant == {h \in waiting :
                          \A b \in orphans[h] : Height[b] <= Height[finalized]}
    IN
    /\ call = "finalize"
    /\ NothingToFinalize
    /\ orphans' = [h \in Hashes |-> IF h \in irrelevant THEN {} ELSE orphans[h]]
    /\ \E overdue \in SUBSET (waiting \ irrelevant) :
          /\ AlwaysOverdue => overdue = waiting \ irrelevant
          /\ \E s \in SetToSeqs(overdue) : events' = events \o EventsOf("missing", s)
    /\ call' = "idle"
    /\ UNCHANGED <<treevars, orphanvotes, ownvotes, finalized_history, including,
                   counting, polled, historyvars>>

(* A BlockFinalized event enters the justification window: post_block_     *)
(* finalized files the block under the epoch of the block finalized now.   *)
PollFinalized ==
    LET e == Head(events) IN
    /\ call = "idle" /\ events # <<>> /\ e.kind = "finalized"
    /\ Emit(e)
    /\ finalized_history' =
          {x \in finalized_history \cup {<<Epoch(finalized), e.block>>} :
              x[1] >= Epoch(finalized) - MaxJustificationAge}
    /\ UNCHANGED <<treevars, orphanvars, ownvotes, callvars, received, voted>>

(* Every other event is only handed to the caller.                         *)
PollOther ==
    LET e == Head(events) IN
    /\ call = "idle" /\ events # <<>> /\ e.kind \notin {"included", "finalized"}
    /\ Emit(e)
    /\ UNCHANGED <<treevars, orphanvars, ownvotes, finalized_history, callvars,
                   received, voted>>

-----------------------------------------------------------------------------
IncludeStep == \/ RejectBlock \/ IncludeDuplicate \/ TryInclude
               \/ RejectExecution \/ AddOrphan \/ CommitAndVote \/ ConsumeBlocks
               \/ NothingToConsume

PollStep == \/ RejectVote \/ StoreVote \/ InjestVote \/ ConsumeVotes
            \/ BeginFinalize \/ TryFinalizeRoots \/ MissingBlocks

poll_next == PollIncluded \/ PollFinalized \/ PollOther

Next == \/ \E b \in Blocks : ReceiveBlock(b)
        \/ IncludeStep
        \/ PollStep
        \/ poll_next

(* A call that has started runs to its end, and the event loop, which      *)
(* takes a random ready branch of its select!, polls the chain again and   *)
(* again.  Nothing makes a block arrive.                                   *)
Fairness == WF_vars(IncludeStep \/ PollStep) /\ SF_vars(poll_next)

Spec == Init /\ [][Next]_vars /\ Fairness

(* Gossip, replays and missing-block requests together bring every block   *)
(* again and again.                                                        *)
LiveSpec == Spec /\ \A b \in Blocks : SF_vars(ReceiveBlock(b))
-----------------------------------------------------------------------------
(* Every variable has its type; in particular the tree holds blocks and    *)
(* the queue only names blocks where the engine looks one up.              *)
TypeOK ==
    /\ finalized \in Blocks \cup {Genesis}
    /\ forktrees \subseteq Blocks
    /\ children \in [Hashes -> Seq(Blocks)]
    /\ votes \in [Blocks -> Nat]
    /\ voters \in [Blocks -> SUBSET Validators]
    /\ orphans \in [Hashes -> SUBSET Blocks]
    /\ orphanvotes \in [Hashes -> Seq(Votes)]
    /\ ownvotes \subseteq [epoch : Nat, justification : Blocks \cup {Genesis},
                           target : Blocks]
    /\ events \in Seq(Events)
    /\ finalized_history \subseteq Nat \X Blocks
    /\ call \in Calls
    /\ including \in Seq(Blocks)
    /\ counting \in Seq(Votes)
    /\ polled \in Hashes
    /\ received \subseteq Blocks
    /\ emitted \in [Kinds -> SUBSET Hashes]
    /\ voted \subseteq OwnVotes
    /\ call \in {"include", "commit", "consume"} <=> including # <<>>

(* The fork trees hang together: every volatile block descends from the    *)
(* finalized block through volatile blocks only, one height at a time, and *)
(* the child lists hold exactly the volatile blocks.  It is what makes     *)
(* path(), head() and epoch_start() mean anything (try_include,            *)
(* finalize_root).                                                         *)
ForkTreeConnected ==
    /\ finalized \notin forktrees
    /\ \A b \in forktrees :
          /\ finalized \in Ancestors[b]
          /\ Parent[b] \in forktrees \cup {finalized}
          /\ Height[b] = Height[Parent[b]] + 1
    /\ \A h \in Hashes :
          ToSet(children[h]) = {b \in forktrees : Parent[b] = h}

(* No stake is counted twice for a block, whatever votes are repeated,     *)
(* late or cast for several of its descendants, and whoever counts for a   *)
(* block counts for all its volatile ancestors (add_votes).                *)
VotesAreStakeOfVoters ==
    \A b \in forktrees :
        /\ votes[b] = StakeOf[voters[b]]
        /\ Parent[b] \in forktrees => voters[b] \subseteq voters[Parent[b]]

(* A block is confirmed only if all its volatile ancestors are, which the  *)
(* search for a finalizable root and the block store rely on.              *)
ConfirmedIsPrefixClosed ==
    \A b \in forktrees : confirmed(b) => \A a \in path(b) : confirmed(a)

(* A block that was discarded or finalized never comes back into the tree, *)
(* however often it or its descendants are received again.                 *)
NoReinclusion ==
    /\ forktrees \cap (emitted["discarded"] \cup emitted["finalized"]) = {}
    /\ \A i, j \in DOMAIN events :
          /\ events[i].kind = "included" /\ i # j => events[i] # events[j]
          /\ events[i].kind = "included" => events[i].block \notin emitted["included"]

(* BlockFinalized events leave the engine in chain order without a gap:    *)
(* the block store panics on a gap (blocks.rs, store_raw_block).           *)
FinalizedWithoutGaps ==
    LET pending == {i \in DOMAIN events : events[i].kind = "finalized"} IN
    /\ \A b \in emitted["finalized"] :
          Parent[b] \in emitted["finalized"] \cup {Genesis}
    /\ \A i \in pending :
          LET p == Parent[events[i].block] IN
          \/ p \in emitted["finalized"] \cup {Genesis}
          \/ \E j \in pending : j < i /\ events[j].block = p
    /\ finalized # Genesis =>
          \/ finalized \in emitted["finalized"]
          \/ \E i \in pending : events[i].block = finalized

(* Whoever listens to the engine hears that a block is confirmed before it *)
(* hears that it is finalized.                                             *)
ConfirmedBeforeFinalized == emitted["finalized"] \subseteq emitted["confirmed"]

(* No block that could join the tree stays among the orphans: between two  *)
(* calls no orphan tree waits for a block that is in the tree              *)
(* (consume_blocks, also for orphans of orphans).                          *)
NoReadyOrphans ==
    call = "idle" => \A h \in forktrees \cup {finalized} : orphans[h] = {}

(* The finalization loop stops only at the last block of an epoch, so that *)
(* no volatile block shares its epoch with a finalized one.                *)
FinalizedEndsEpoch ==
    call \notin {"finalize"} /\ finalized # Genesis
        => (Height[finalized] + 1) % EpochBlocks = 0

Conflict(a, b) == a \notin Lineage(b) /\ b \notin Lineage(a)

(* This validator never votes for two conflicting blocks of one epoch,     *)
(* although try_finalize_roots forgets its votes of a finalized epoch.     *)
NoConflictingVotesInEpoch ==
    \A u, w \in voted :
        Epoch(u.target) = Epoch(w.target) => ~Conflict(u.target, w.target)

(* The finalized block only ever moves to one of its children, and only    *)
(* when validators with a majority of the stake voted for that child or    *)
(* its descendants.                                                        *)
FinalizedAdvances ==
    [][finalized' # finalized =>
          /\ finalized' \in forktrees
          /\ Parent[finalized'] = finalized
          /\ StakeOf[voters[finalized']] >= minimum_majority_stake]_vars

(* Every block that joins the tree is eventually announced, and with it    *)
(* its votes are counted, although confirmations jump the queue and blocks *)
(* keep arriving.                                                          *)
IncludedIsAnnounced ==
    \A b \in Blocks : b \in forktrees ~> b \in emitted["included"]
=============================================================================
