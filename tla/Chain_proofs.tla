---------------------------- MODULE Chain_proofs ----------------------------
(***************************************************************************)
(* Proofs about the consensus engine, for every set of blocks, votes and   *)
(* validators and every limit of the genesis.                              *)
(***************************************************************************)
EXTENDS Chain, SequenceFacts, FiniteSetTheorems, TLAPS

-----------------------------------------------------------------------------
LEMMA ListingOfBlocks ==
    ASSUME NEW S \in SUBSET Blocks, NEW s \in SetToSeqs(S)
    PROVE  s \in Seq(S) /\ s \in Seq(Blocks)
<1>1. IsFiniteSet(Blocks)
  BY BlockAssumption
<1> QED
  BY ONLY <1>1, ListingIsSeq

LEMMA HashesAreFinite == IsFiniteSet(Hashes)
  BY BlockAssumption, FS_Union, FS_Singleton DEF Hashes

(* Heights and epochs of blocks are natural numbers.                       *)
LEMMA EpochIsNat ==
    ASSUME NEW b \in Blocks \cup {Genesis}
    PROVE  Height[b] \in Nat /\ Epoch(b) \in Nat
<1>1. \A h \in Nat, n \in Nat \ {0} : h \div n \in Nat
  BY Z3
<1> QED
  BY <1>1, BlockAssumption, LimitAssumption DEF Epoch

LEMMA MajorityIsInt == total_stake \in Nat /\ minimum_majority_stake \in Int
  BY StakeAssumption, LimitAssumption DEF total_stake, minimum_majority_stake

-----------------------------------------------------------------------------
LEMMA EventsOfIsSeq ==
    ASSUME NEW k \in Kinds, NEW S \in SUBSET Hashes, NEW s \in Seq(S),
           k # "missing" => S \subseteq Blocks
    PROVE  EventsOf(k, s) \in Seq(Events)
  BY DEF EventsOf, EventOf, Events

LEMMA EventOfIsEvent ==
    ASSUME NEW k \in Kinds, NEW b \in Blocks
    PROVE  EventOf(k, b) \in Events
  BY DEF EventOf, Events, Hashes

LEMMA IncludingIsNotEmpty ==
    ASSUME TypeOK, call \in {"include", "commit", "consume"}
    PROVE  Head(including) \in Blocks /\ Tail(including) \in Seq(Blocks)
  BY DEF TypeOK

LEMMA TypeInit == Init => TypeOK
  BY BlockAssumption DEF Init, TypeOK, Calls, Hashes, Kinds, OwnVotes

LEMMA TypeInclude == TypeOK /\ IncludeStep => TypeOK'
<1> SUFFICES ASSUME TypeOK, IncludeStep PROVE TypeOK'
  OBVIOUS
<1> USE DEF treevars, orphanvars, callvars, historyvars, Calls
<1> DEFINE b == Head(including)
<1>0. call \in {"include", "commit", "consume"} /\ including \in Seq(Blocks)
      /\ including # <<>>
  BY DEF TypeOK, IncludeStep, RejectBlock, IncludeDuplicate, TryInclude,
         RejectExecution, AddOrphan, CommitAndVote, ConsumeBlocks,
       NothingToConsume
<1>1. b \in Blocks /\ Tail(including) \in Seq(Blocks)
  BY <1>0, IncludingIsNotEmpty
<1>2. Parent[b] \in Hashes
  BY <1>1, BlockAssumption
<1>3. b \in Hashes
  BY <1>1 DEF Hashes
<1> HIDE DEF b
<1>4. CASE RejectBlock
  BY <1>0, <1>1, <1>4 DEF TypeOK, RejectBlock, ReturnFromInclude
<1>5. CASE IncludeDuplicate
  BY <1>0, <1>5 DEF TypeOK, IncludeDuplicate
<1>6. CASE TryInclude
  <2>1. /\ forktrees' = forktrees \cup {b}
        /\ children' = [children EXCEPT ![Parent[b]] = Append(children[Parent[b]], b)]
        /\ votes' = [votes EXCEPT ![b] = 0]
        /\ voters' = [voters EXCEPT ![b] = {}]
        /\ events' = Append(events, EventOf("included", b))
        /\ call' = "commit"
        /\ UNCHANGED <<finalized, orphanvars, ownvotes, finalized_history,
                       including, counting, polled, historyvars>>
    BY <1>6 DEF TryInclude, emit_event, b
  <2>2. children' \in [Hashes -> Seq(Blocks)]
    BY <2>1, <1>1, <1>2 DEF TypeOK
  <2>3. events' \in Seq(Events)
    BY <2>1, <1>1, EventOfIsEvent DEF TypeOK, Kinds
  <2>4. forktrees' \subseteq Blocks /\ votes' \in [Blocks -> Nat]
        /\ voters' \in [Blocks -> SUBSET Validators]
    BY <2>1, <1>1 DEF TypeOK
  <2> QED
    BY <1>0, <2>1, <2>2, <2>3, <2>4 DEF TypeOK
<1>7. CASE RejectExecution
  BY <1>0, <1>1, <1>7 DEF TypeOK, RejectExecution, ReturnFromInclude
<1>8. CASE AddOrphan
  <2>1. orphans' \in [Hashes -> SUBSET Blocks]
    <3>1. CASE UNCHANGED orphans
      BY <3>1 DEF TypeOK
    <3>2. CASE \E h \in OrphanEntries(b) :
                  orphans' = [orphans EXCEPT ![h] = orphans[h] \cup {b}]
      <4>1. OrphanEntries(b) \subseteq Hashes
        BY <1>2 DEF OrphanEntries
      <4> QED
        BY <3>2, <4>1, <1>1 DEF TypeOK
    <3> QED
      BY <1>8, <3>1, <3>2 DEF AddOrphan, b
  <2> QED
    BY <1>0, <1>1, <1>8, <2>1 DEF TypeOK, AddOrphan, ReturnFromInclude
<1>9. CASE CommitAndVote
  <2>1. CASE UNCHANGED <<ownvotes, events, voted>>
    BY <2>1, <1>0, <1>9 DEF TypeOK, CommitAndVote
  <2>2. CASE commit_and_vote(b)
    <3>1. Epoch(b) \in Nat
      BY <1>1, EpochIsNat
    <3>2. events' \in Seq(Events)
      BY <2>2, <1>1, EventOfIsEvent DEF TypeOK, Kinds, commit_and_vote
    <3>3. ownvotes' \subseteq [epoch : Nat, justification : Blocks \cup {Genesis},
                              target : Blocks]
      BY <2>2, <3>1, <1>1 DEF TypeOK, commit_and_vote
    <3>4. voted' \subseteq OwnVotes
      BY <2>2, <1>1 DEF TypeOK, commit_and_vote, OwnVotes
    <3> QED
      BY <3>2, <3>3, <3>4, <1>0, <1>9 DEF TypeOK, CommitAndVote
  <2> QED
    BY <1>9, <2>1, <2>2 DEF CommitAndVote, b
<1>10. CASE ConsumeBlocks
  <2>1. PICK s \in flatten(orphans[b]) : including' = s \o Tail(including)
    BY <1>10 DEF ConsumeBlocks, b
  <2>2. orphans[b] \in SUBSET Blocks /\ orphans[b] # {}
    BY <1>3, <1>10 DEF TypeOK, ConsumeBlocks, Awaited, b
  <2>3. s \in Seq(orphans[b]) /\ s \in Seq(Blocks) /\ s \in SetToSeqs(orphans[b])
    BY <2>2, ListingIsSeq, BlockAssumption DEF flatten
  <2>4. including' \in Seq(Blocks)
    BY <2>1, <2>3, <1>1
  <2>5. including' # <<>>
    <3>1. s # <<>>
      BY <2>2, <2>3, ListingIsNotEmpty, BlockAssumption
    <3> QED
      BY <2>1, <2>3, <3>1, <1>1
  <2>6. orphans' \in [Hashes -> SUBSET Blocks]
    BY <1>10, <1>3 DEF ConsumeBlocks, TypeOK, b
  <2> QED
    BY <1>10, <2>4, <2>5, <2>6 DEF TypeOK, ConsumeBlocks
<1>11. CASE NothingToConsume
  BY <1>0, <1>1, <1>11 DEF TypeOK, NothingToConsume, ReturnFromInclude
<1> QED
  BY <1>4, <1>5, <1>6, <1>7, <1>8, <1>9, <1>10, <1>11 DEF IncludeStep
LEMMA VoteTypes ==
    ASSUME TypeOK, counting # <<>>
    PROVE  /\ Head(counting) \in Votes
           /\ Tail(counting) \in Seq(Votes)
           /\ Head(counting).target \in Hashes
<1>1. Head(counting) \in Votes /\ Tail(counting) \in Seq(Votes)
  BY DEF TypeOK
<1> QED
  BY <1>1 DEF Votes

LEMMA TypePollStep == TypeOK /\ PollStep => TypeOK'
<1> SUFFICES ASSUME TypeOK, PollStep PROVE TypeOK'
  OBVIOUS
<1> USE DEF treevars, orphanvars, callvars, historyvars, Calls
<1> DEFINE v == Head(counting)
<1>1. Counting => /\ v \in Votes /\ Tail(counting) \in Seq(Votes)
                  /\ v.target \in Hashes
  BY VoteTypes DEF Counting
<1> HIDE DEF v
<1>2. CASE RejectVote
  BY <1>1, <1>2 DEF TypeOK, RejectVote
<1>3. CASE StoreVote
  <2>1. Counting /\ v.target \in Hashes
        /\ orphanvotes' = [orphanvotes EXCEPT ![v.target] = Append(orphanvotes[v.target], v)]
    BY <1>1, <1>3 DEF StoreVote, v
  <2>2. orphanvotes' \in [Hashes -> Seq(Votes)]
    BY <2>1, <1>1 DEF TypeOK
  <2> QED
    BY <1>1, <1>3, <2>2 DEF TypeOK, StoreVote
<1>4. CASE InjestVote
  <2>1. Counting /\ v.target \in forktrees /\ v.validator \in Validators
        /\ add_votes(v.target, v.validator)
    BY <1>4 DEF InjestVote, VoteIsEligible, v
  <2>2. votes' \in [Blocks -> Nat] /\ voters' \in [Blocks -> SUBSET Validators]
    <3>1. Stake[v.validator] \in Nat
      BY <2>1, StakeAssumption
    <3> QED
      BY <2>1, <3>1, SMTT(60) DEF TypeOK, add_votes
  <2>3. events' \in Seq(Events)
    <3> DEFINE newly == newly_confirmed(v.target)
    <3>1. PICK s \in SetToSeqs(newly) : events' = EventsOf("confirmed", s) \o events
      BY <1>4 DEF InjestVote, v
    <3>2. newly \in SUBSET Blocks /\ newly \in SUBSET Hashes
      BY DEF newly_confirmed, path, TypeOK, Hashes
    <3> HIDE DEF newly
    <3>3. s \in Seq(newly)
      BY <3>2, ListingIsSeq, BlockAssumption
    <3>4. EventsOf("confirmed", s) \in Seq(Events)
      BY <3>2, <3>3, EventsOfIsSeq DEF Kinds
    <3> QED
      BY <3>1, <3>4 DEF TypeOK
  <2> QED
    BY <1>1, <1>4, <2>1, <2>2, <2>3 DEF TypeOK, InjestVote
<1>5. CASE ConsumeVotes
  BY <1>5 DEF TypeOK, ConsumeVotes
<1>6. CASE BeginFinalize
  BY <1>6 DEF TypeOK, BeginFinalize
<1>7. CASE TryFinalizeRoots
  <2>1. PICK i \in DOMAIN roots :
             /\ finalize_root(roots[i])
             /\ ownvotes' = {o \in ownvotes : o.epoch # Epoch(roots[i])}
    BY <1>7 DEF TryFinalizeRoots
  <2>2. roots[i] \in Blocks
    BY <2>1 DEF roots, TypeOK, Hashes
  <2> DEFINE r == roots[i]
             kept == Survivors(r)
             discarded == forktrees \ (kept \cup {r})
  <2>3. PICK s \in SetToSeqs(discarded) :
             events' = Append(events \o EventsOf("discarded", s), EventOf("finalized", r))
    BY <2>1 DEF finalize_root, signal_finalized
  <2>4. discarded \in SUBSET Blocks /\ discarded \in SUBSET Hashes
    BY DEF TypeOK, Hashes
  <2>5. s \in Seq(discarded)
    <3> HIDE DEF discarded
    <3> QED
      BY ONLY <2>4, s \in SetToSeqs(discarded), ListingOfBlocks
  <2>6. events' \in Seq(Events)
    <3>1. EventsOf("discarded", s) \in Seq(Events)
      BY <2>4, <2>5, EventsOfIsSeq DEF Kinds
    <3>2. EventOf("finalized", r) \in Events
      BY <2>2, EventOfIsEvent DEF Kinds
    <3> QED
      BY <3>1, <3>2, <2>3 DEF TypeOK
  <2>7. /\ finalized' \in Blocks \cup {Genesis}
        /\ forktrees' \subseteq Blocks
        /\ children' \in [Hashes -> Seq(Blocks)]
        /\ votes' \in [Blocks -> Nat]
        /\ voters' \in [Blocks -> SUBSET Validators]
    BY <2>1, <2>2 DEF TypeOK, finalize_root, Survivors
  <2>8. ownvotes' \subseteq ownvotes
    BY <2>1
  <2> QED
    BY <1>7, <2>6, <2>7, <2>8 DEF TypeOK, TryFinalizeRoots
<1>8. CASE MissingBlocks
  <2>1. orphans' \in [Hashes -> SUBSET Blocks]
    BY <1>8 DEF MissingBlocks, TypeOK
  <2>2. events' \in Seq(Events)
    <3>1. PICK overdue \in SUBSET Hashes : \E s \in SetToSeqs(overdue) :
               events' = events \o EventsOf("missing", s)
      BY <1>8 DEF MissingBlocks
    <3>2. PICK s \in SetToSeqs(overdue) : events' = events \o EventsOf("missing", s)
      BY <3>1
    <3>3. s \in Seq(overdue)
      BY ListingIsSeq, HashesAreFinite
    <3>4. EventsOf("missing", s) \in Seq(Events)
      BY <3>3, EventsOfIsSeq DEF Kinds
    <3> QED
      BY <3>2, <3>4 DEF TypeOK
  <2> QED
    BY <1>8, <2>1, <2>2 DEF TypeOK, MissingBlocks
<1> QED
  BY <1>2, <1>3, <1>4, <1>5, <1>6, <1>7, <1>8 DEF PollStep

LEMMA TypePoll == TypeOK /\ poll_next => TypeOK'
<1> SUFFICES ASSUME TypeOK, poll_next PROVE TypeOK'
  OBVIOUS
<1> USE DEF treevars, orphanvars, callvars, historyvars, Calls
<1> DEFINE e == Head(events)
<1>1. call = "idle" /\ events # <<>>
  BY DEF poll_next, PollIncluded, PollFinalized, PollOther
<1>2. e \in Events /\ Tail(events) \in Seq(Events)
  BY <1>1 DEF TypeOK
<1>3. /\ e.kind \in Kinds
      /\ e.block \in Hashes
      /\ e.kind # "missing" => e.block \in Blocks
  BY <1>2 DEF Events
<1> HIDE DEF e
<1>4. events' \in Seq(Events) /\ emitted' \in [Kinds -> SUBSET Hashes]
  <2>1. Emit(e)
    BY DEF poll_next, PollIncluded, PollFinalized, PollOther, e
  <2> QED
    BY <2>1, <1>2, <1>3 DEF TypeOK, Emit
<1>5. CASE PollIncluded
  <2>1. BlockVotes[e.block] \in Seq(Votes)
    BY <1>3, <1>5, BlockAssumption DEF PollIncluded, e
  <2> QED
    BY <1>3, <1>4, <1>5, <2>1 DEF TypeOK, PollIncluded, e
<1>6. CASE PollFinalized
  <2>1. Epoch(finalized) \in Nat
    BY EpochIsNat DEF TypeOK
  <2>2. finalized_history' \subseteq Nat \X Blocks
    BY <1>3, <1>6, <2>1 DEF TypeOK, PollFinalized, e
  <2> QED
    BY <1>4, <1>6, <2>2 DEF TypeOK, PollFinalized
<1>7. CASE PollOther
  BY <1>4, <1>7 DEF TypeOK, PollOther
<1> QED
  BY <1>5, <1>6, <1>7 DEF poll_next

LEMMA TypeNext == TypeOK /\ [Next]_vars => TypeOK'
<1> SUFFICES ASSUME TypeOK, [Next]_vars PROVE TypeOK'
  OBVIOUS
<1> USE DEF treevars, orphanvars, callvars, historyvars, Calls
<1>1. CASE \E b \in Blocks : ReceiveBlock(b)
  BY <1>1 DEF TypeOK, ReceiveBlock
<1>2. CASE UNCHANGED vars
  BY <1>2 DEF TypeOK, vars
<1> QED
  BY <1>1, <1>2, TypeInclude, TypePollStep, TypePoll DEF Next

(* The engine is type correct: in particular it never looks up a block     *)
(* that does not exist and never runs out of blocks to include in the      *)
(* middle of include().                                                    *)
THEOREM TypeCorrect == Spec => []TypeOK
  BY TypeInit, TypeNext, PTL DEF Spec

-----------------------------------------------------------------------------
(***************************************************************************)
(* The shape of the fork trees.  ForkTreeConnected looks at one parent     *)
(* link at a time; what the engine needs is that whole paths lead through  *)
(* the tree to the finalized block, which KnownAncestors adds.             *)
(***************************************************************************)
History(h) == IF h \in Blocks THEN Lineage(h) ELSE {h}

KnownAncestors ==
    \A b \in forktrees : Ancestors[b] \subseteq forktrees \cup History(finalized)

TreeInv == TypeOK /\ ForkTreeConnected /\ KnownAncestors

LEMMA AncestorsOfChild ==
    ASSUME NEW b \in Blocks
    PROVE  /\ Ancestors[b] = History(Parent[b])
           /\ Parent[b] \in Ancestors[b]
           /\ b \notin Ancestors[b]
           /\ b # Parent[b]
  BY AncestorsAssumption DEF History, Lineage

LEMMA AncestorsTransitive ==
    ASSUME NEW b \in Blocks, NEW a \in Ancestors[b], a \in Blocks
    PROVE  Ancestors[a] \subseteq Ancestors[b] /\ b \notin Ancestors[a]
  BY AncestorsAssumption

LEMMA AncestorsComparable ==
    ASSUME NEW b \in Blocks, NEW a \in Ancestors[b], a \in Blocks,
           NEW c \in Ancestors[b], c \in Blocks
    PROVE  a = c \/ a \in Ancestors[c] \/ c \in Ancestors[a]
  BY AncestorsAssumption

(* A root is a volatile child of the finalized block.                      *)
LEMMA RootIsChild ==
    ASSUME TypeOK, ForkTreeConnected, NEW i \in DOMAIN roots
    PROVE  roots[i] \in forktrees /\ Parent[roots[i]] = finalized
<1>1. finalized \in Hashes
  BY DEF TypeOK, Hashes
<1>2. roots[i] \in ToSet(children[finalized])
  BY DEF roots, ToSet
<1> QED
  BY <1>1, <1>2 DEF ForkTreeConnected

LEMMA TreeInit == Init => TreeInv
<1> SUFFICES ASSUME Init PROVE TreeInv
  OBVIOUS
<1>1. TypeOK
  BY TypeInit
<1>2. \A h \in Hashes : ToSet(children[h]) = {}
  BY DEF Init, ToSet
<1> QED
  BY <1>1, <1>2 DEF Init, TreeInv, ForkTreeConnected, KnownAncestors

LEMMA TreeTryInclude == TreeInv /\ TryInclude => (ForkTreeConnected /\ KnownAncestors)'
<1> SUFFICES ASSUME TreeInv, TryInclude PROVE (ForkTreeConnected /\ KnownAncestors)'
  OBVIOUS
<1> DEFINE b == Head(including)
<1> USE DEF TreeInv
<1>1. b \in Blocks
  BY IncludingIsNotEmpty DEF TryInclude
<1>2. /\ finalized' = finalized
      /\ forktrees' = forktrees \cup {b}
      /\ children' = [children EXCEPT ![Parent[b]] = Append(children[Parent[b]], b)]
      /\ b \notin forktrees
      /\ Parent[b] \in forktrees \cup {finalized}
      /\ Height[b] = Height[Parent[b]] + 1
      /\ Height[b] > Height[finalized]
  BY DEF TryInclude, IsNew, Attached, Executes, Acceptable
<1> HIDE DEF b
<1>3. Height[finalized] \in Nat
  BY EpochIsNat DEF TypeOK
<1>4. finalized \notin forktrees'
  BY <1>2, <1>3 DEF ForkTreeConnected
<1>5. Ancestors[b] \subseteq forktrees \cup History(finalized)
  <2>1. CASE Parent[b] = finalized
    BY <2>1, <1>1, AncestorsOfChild
  <2>2. CASE Parent[b] \in forktrees
    <3>1. Ancestors[b] = {Parent[b]} \cup Ancestors[Parent[b]]
      BY <2>2, <1>1, AncestorsOfChild DEF TypeOK, History, Lineage
    <3> QED
      BY <3>1, <2>2 DEF KnownAncestors
  <2> QED
    BY <1>2, <2>1, <2>2
<1>6. finalized \in Ancestors[b]
  <2>1. CASE Parent[b] = finalized
    BY <2>1, <1>1, AncestorsOfChild
  <2>2. CASE Parent[b] \in forktrees
    <3>1. Ancestors[b] = {Parent[b]} \cup Ancestors[Parent[b]]
      BY <2>2, <1>1, AncestorsOfChild DEF TypeOK, History, Lineage
    <3> QED
      BY <3>1, <2>2 DEF ForkTreeConnected
  <2> QED
    BY <1>2, <2>1, <2>2
<1>7. KnownAncestors'
  BY <1>2, <1>5 DEF KnownAncestors, History, Lineage
<1>8. \A h \in Hashes : ToSet(children'[h]) = {c \in forktrees' : Parent[c] = h}
  <2> SUFFICES ASSUME NEW h \in Hashes
               PROVE  ToSet(children'[h]) = {c \in forktrees' : Parent[c] = h}
    OBVIOUS
  <2>1. children[h] \in Seq(Blocks) /\ Parent[b] \in Hashes
    BY <1>1, BlockAssumption DEF TypeOK
  <2>2. ToSet(children[h]) = {c \in forktrees : Parent[c] = h}
    BY DEF ForkTreeConnected
  <2>3. CASE h = Parent[b]
    <3>1. children'[h] = Append(children[h], b)
      BY <1>2, <2>3 DEF TypeOK
    <3>2. ToSet(Append(children[h], b)) = ToSet(children[h]) \cup {b}
      BY <2>1, <1>1, ToSetAppend
    <3> QED
      BY <3>1, <3>2, <2>2, <2>3, <1>2
  <2>4. CASE h # Parent[b]
    <3>1. children'[h] = children[h]
      BY <1>2, <2>4 DEF TypeOK
    <3> QED
      BY <3>1, <2>2, <2>4, <1>2
  <2> QED
    BY <2>3, <2>4
<1>9. \A c \in forktrees' : /\ finalized \in Ancestors[c]
                            /\ Parent[c] \in forktrees' \cup {finalized}
                            /\ Height[c] = Height[Parent[c]] + 1
  BY <1>2, <1>6 DEF ForkTreeConnected
<1> QED
  BY <1>2, <1>4, <1>7, <1>8, <1>9 DEF ForkTreeConnected
(* What a round of try_finalize_roots does to the tree.                    *)
LEMMA FinalizeRoot ==
    ASSUME TreeInv, TryFinalizeRoots
    PROVE  \E r \in forktrees :
              /\ Parent[r] = finalized
              /\ confirmed(r)
              /\ finalize_root(r)
<1>1. PICK i \in DOMAIN roots : i \in FinalizableRoots /\ finalize_root(roots[i])
  BY DEF TryFinalizeRoots, find_finalizable_root
<1>2. confirmed(roots[i])
  BY <1>1 DEF FinalizableRoots, Finalizable
<1> QED
  BY <1>1, <1>2, RootIsChild DEF TreeInv

LEMMA TreeFinalize == TreeInv /\ TryFinalizeRoots => (ForkTreeConnected /\ KnownAncestors)'
<1> SUFFICES ASSUME TreeInv, TryFinalizeRoots PROVE (ForkTreeConnected /\ KnownAncestors)'
  OBVIOUS
<1> USE DEF TreeInv
<1>1. PICK r \in forktrees : Parent[r] = finalized /\ finalize_root(r)
  BY FinalizeRoot
<1> DEFINE kept == {b \in forktrees : r \in Ancestors[b]}
<1>2. /\ finalized' = r
      /\ forktrees' = kept
      /\ children' = [h \in Hashes |-> IF h \in kept \cup {r} THEN children[h] ELSE <<>>]
  BY <1>1 DEF finalize_root, Survivors
<1>3. r \in Blocks /\ forktrees \subseteq Blocks /\ r \notin Ancestors[r]
  BY <1>1, AncestorsOfChild DEF TypeOK
<1>4. Ancestors[r] = History(finalized) /\ finalized \in Ancestors[r]
  BY <1>1, <1>3, AncestorsOfChild
<1>5. r \notin kept
  BY <1>3
<1>6. ASSUME NEW b \in kept PROVE Parent[b] \in kept \cup {r}
  <2>1. r \in History(Parent[b])
    BY <1>3, AncestorsOfChild
  <2>2. Parent[b] \in forktrees \cup {finalized}
    BY DEF ForkTreeConnected
  <2>3. Parent[b] # finalized
    BY <2>1, <1>3, <1>4
  <2> QED
    BY <2>1, <2>2, <2>3, <1>3 DEF History, Lineage
<1>7. ASSUME NEW b \in forktrees, Parent[b] \in kept \cup {r} PROVE b \in kept
  <2>1. Ancestors[b] = History(Parent[b])
    BY <1>3, AncestorsOfChild
  <2>2. Parent[b] \in Blocks
    BY <1>3, <1>7
  <2> QED
    BY <2>1, <2>2, <1>7 DEF History, Lineage
<1>8. \A h \in Hashes : ToSet(children'[h]) = {b \in kept : Parent[b] = h}
  <2> SUFFICES ASSUME NEW h \in Hashes
               PROVE  ToSet(children'[h]) = {b \in kept : Parent[b] = h}
    OBVIOUS
  <2>1. CASE h \in kept \cup {r}
    <3>1. ToSet(children'[h]) = {b \in forktrees : Parent[b] = h}
      BY <1>2, <2>1 DEF ForkTreeConnected
    <3> QED
      BY <3>1, <2>1, <1>7
  <2>2. CASE h \notin kept \cup {r}
    <3>1. ToSet(children'[h]) = {}
      BY <1>2, <2>2 DEF ToSet
    <3> QED
      BY <3>1, <2>2, <1>6
  <2> QED
    BY <2>1, <2>2
<1>9. ASSUME NEW b \in kept PROVE Ancestors[b] \subseteq kept \cup History(r)
  <2> SUFFICES ASSUME NEW a \in Ancestors[b] PROVE a \in kept \cup History(r)
    OBVIOUS
  <2>1. a \in forktrees \cup History(finalized)
    BY DEF KnownAncestors
  <2>2. CASE a \in History(finalized)
    BY <2>2, <1>3, <1>4 DEF History, Lineage
  <2>3. CASE a \in forktrees
    <3>1. a = r \/ a \in Ancestors[r] \/ r \in Ancestors[a]
      BY <2>3, <1>3, AncestorsComparable
    <3> QED
      BY <3>1, <2>3, <1>3 DEF History, Lineage
  <2> QED
    BY <2>1, <2>2, <2>3
<1>10. ForkTreeConnected'
  <2>1. \A b \in kept : Height[b] = Height[Parent[b]] + 1
    BY DEF ForkTreeConnected
  <2> HIDE DEF kept
  <2> QED
    BY <1>2, <1>5, <1>6, <1>8, <2>1, <1>3 DEF ForkTreeConnected, kept
<1>11. KnownAncestors'
  BY <1>2, <1>9 DEF KnownAncestors, History, Lineage
<1> QED
  BY <1>10, <1>11

LEMMA TreeNext == TreeInv /\ [Next]_vars => TreeInv'
<1> SUFFICES ASSUME TreeInv, [Next]_vars PROVE TreeInv'
  OBVIOUS
<1>1. TypeOK'
  BY TypeNext DEF TreeInv
<1>2. CASE TryInclude
  BY <1>1, <1>2, TreeTryInclude DEF TreeInv
<1>3. CASE TryFinalizeRoots
  BY <1>1, <1>3, TreeFinalize DEF TreeInv
<1>4. CASE ~TryInclude /\ ~TryFinalizeRoots
  <2>1. UNCHANGED <<finalized, forktrees, children>>
    BY <1>4 DEF Next, ReceiveBlock, IncludeStep, PollStep, poll_next, RejectBlock,
       IncludeDuplicate, RejectExecution, AddOrphan, CommitAndVote, ConsumeBlocks,
       NothingToConsume,
       RejectVote, StoreVote, InjestVote, ConsumeVotes, BeginFinalize,
       MissingBlocks, PollIncluded, PollFinalized, PollOther, vars, treevars
  <2> QED
    BY <1>1, <2>1 DEF TreeInv, ForkTreeConnected, KnownAncestors, History, Lineage
<1> QED
  BY <1>2, <1>3, <1>4

(* A volatile block is neither the finalized block nor below it.           *)
LEMMA VolatileIsAbove ==
    ASSUME TreeInv, NEW b \in forktrees
    PROVE  b \in Blocks /\ finalized \in Ancestors[b] /\ b \notin History(finalized)
<1>1. b \in Blocks /\ finalized \in Ancestors[b]
  BY DEF TreeInv, TypeOK, ForkTreeConnected
<1>2. CASE finalized \in Blocks
  BY <1>1, <1>2, AncestorsTransitive, AncestorsOfChild DEF History, Lineage
<1>3. CASE finalized \notin Blocks
  BY <1>1, <1>3 DEF History
<1> QED
  BY <1>1, <1>2, <1>3

(* Heights grow along a path: ForkTreeConnected says so of one step only.  *)
LEMMA HeightsGrow ==
    ASSUME TreeInv, NEW b \in forktrees, NEW a \in forktrees, a \in Ancestors[b]
    PROVE  Height[a] < Height[b]
<1> DEFINE Bad(h) == \E c \in forktrees : /\ Height[c] = h
                                          /\ a \in Ancestors[c]
                                          /\ ~(Height[a] < h)
           S == {h \in Nat : Bad(h)}
<1>0. \A c \in forktrees : Height[c] \in Nat
  BY EpochIsNat DEF TreeInv, TypeOK
<1> SUFFICES ASSUME S # {} PROVE FALSE
  BY <1>0
<1>1. PICK h \in S : \A i \in S : h <= i
  BY Smallest
<1>2. PICK c \in forktrees : Height[c] = h /\ a \in Ancestors[c] /\ ~(Height[a] < h)
  BY <1>1
<1>3. /\ c \in Blocks
      /\ Parent[c] \in forktrees \cup {finalized}
      /\ Height[c] = Height[Parent[c]] + 1
  BY DEF TreeInv, TypeOK, ForkTreeConnected
<1>4. a = Parent[c] \/ (Parent[c] \in forktrees /\ a \in Ancestors[Parent[c]])
  <2>1. a \in History(Parent[c])
    BY <1>2, <1>3, AncestorsOfChild
  <2>2. Parent[c] = finalized => a \notin History(Parent[c])
    BY VolatileIsAbove
  <2> QED
    BY <2>1, <2>2, <1>3 DEF History, Lineage, TreeInv, TypeOK
<1>5. a # Parent[c]
  BY <1>0, <1>2, <1>3
<1>6. Parent[c] \in forktrees /\ a \in Ancestors[Parent[c]]
  BY <1>4, <1>5
<1>7. Height[Parent[c]] \in Nat /\ Height[Parent[c]] = h - 1 /\ Height[a] \in Nat
  BY <1>0, <1>2, <1>3, <1>6
<1>8. Height[Parent[c]] \in S
  BY <1>2, <1>6, <1>7
<1> QED
  BY <1>1, <1>7, <1>8

(* Two blocks of a path are ordered by their heights.                      *)
LEMMA PathIsChain ==
    ASSUME TreeInv, NEW t \in forktrees, NEW a \in path(t), NEW b \in path(t),
           Height[a] < Height[b]
    PROVE  a \in Ancestors[b]
<1>1. a \in forktrees /\ b \in forktrees /\ a \in Blocks /\ b \in Blocks /\ t \in Blocks
      /\ Height[a] \in Nat /\ Height[b] \in Nat
  BY EpochIsNat DEF path, TreeInv, TypeOK
<1>2. a = b \/ a \in Ancestors[b] \/ b \in Ancestors[a]
  BY <1>1, AncestorsComparable DEF path, Lineage
<1>3. b \in Ancestors[a] => Height[b] < Height[a]
  BY <1>1, HeightsGrow
<1> QED
  BY <1>1, <1>2, <1>3

(* Whatever blocks arrive in whatever order, and however often the engine  *)
(* finalizes, the fork trees hang together and hang from the finalized     *)
(* block (try_include, finalize_root).                                     *)
THEOREM ForkTreeIsConnected == Spec => []ForkTreeConnected
<1>1. Spec => []TreeInv
  BY TreeInit, TreeNext, PTL DEF Spec
<1>2. TreeInv => ForkTreeConnected
  BY DEF TreeInv
<1> QED
  BY <1>1, <1>2, PTL

-----------------------------------------------------------------------------
(***************************************************************************)
(* Votes.  VotesAreStakeOfVoters relates a block to its parent; a vote is  *)
(* counted along a whole path, so the invariant speaks of whole paths.     *)
(***************************************************************************)
VoteInv ==
    \A b \in forktrees :
        /\ votes[b] = StakeOf[voters[b]]
        /\ \A a \in path(b) : voters[b] \subseteq voters[a]

(* Adding a validator to a set adds its stake, once.                       *)
LEMMA StakeOfOneMore ==
    ASSUME NEW S \in SUBSET Validators, NEW v \in Validators, v \notin S
    PROVE  StakeOf[S \cup {v}] = StakeOf[S] + Stake[v]
<1>1. S \cap {v} = {} /\ {v} \in SUBSET Validators
  OBVIOUS
<1>2. StakeOf[S \cup {v}] = StakeOf[S] + StakeOf[{v}]
  BY <1>1, StakeAssumption
<1>3. StakeOf[{v}] = Stake[v]
  BY StakeAssumption
<1> QED
  BY ONLY <1>2, <1>3, Zenon

LEMMA NoStake == StakeOf[{}] = 0
<1>1. StakeOf[{} \cup {}] = StakeOf[{}] + StakeOf[{}]
  <2>1. {} \in SUBSET Validators /\ {} \cap {} = {}
    OBVIOUS
  <2> QED
    BY <2>1, StakeAssumption
<1>2. StakeOf[{}] \in Nat
  <2>1. {} \in SUBSET Validators
    OBVIOUS
  <2> QED
    BY <2>1, StakeAssumption
<1>3. {} \cup {} = {}
  BY ONLY Zenon
<1>4. StakeOf[{}] = StakeOf[{}] + StakeOf[{}]
  BY ONLY <1>1, <1>3, Zenon
<1>5. ASSUME NEW n \in Nat, n = n + n
      PROVE  n = 0
  BY ONLY <1>5, SMT
<1> QED
  BY ONLY <1>2, <1>4, <1>5, Zenon

(* More validators never hold less stake.                                  *)
LEMMA StakeOfIsMonotone ==
    ASSUME NEW B \in SUBSET Validators, NEW A \in SUBSET B
    PROVE  StakeOf[A] <= StakeOf[B]
<1>0. A \in SUBSET Validators /\ B \ A \in SUBSET Validators
  OBVIOUS
<1>1. A \cup (B \ A) = B /\ A \cap (B \ A) = {}
  OBVIOUS
<1>2. StakeOf[B] = StakeOf[A] + StakeOf[B \ A]
  <2>1. StakeOf[A \cup (B \ A)] = StakeOf[A] + StakeOf[B \ A]
    BY <1>0, <1>1, StakeAssumption
  <2> QED
    BY ONLY <2>1, <1>1, Zenon
<1>3. StakeOf[A] \in Nat /\ StakeOf[B \ A] \in Nat
  BY <1>0, StakeAssumption
<1> QED
  BY <1>2, <1>3

(* The path of a block contains the paths of the blocks on it.             *)
LEMMA PathIsTransitive ==
    ASSUME TypeOK, NEW t \in forktrees, NEW b \in path(t)
    PROVE  b \in forktrees /\ path(b) \subseteq path(t)
  BY AncestorsTransitive DEF path, Lineage, TypeOK

LEMMA VoteInjest == TreeInv /\ VoteInv /\ InjestVote => VoteInv'
<1> SUFFICES ASSUME TreeInv, VoteInv, InjestVote PROVE VoteInv'
  OBVIOUS
<1> DEFINE t == Head(counting).target
           v == Head(counting).validator
<1>1. t \in forktrees /\ v \in Validators
  BY DEF InjestVote, VoteIsEligible
<1>2. /\ votes' = [b \in Blocks |->
              IF b \in path(t) /\ v \notin voters[b] THEN votes[b] + Stake[v]
              ELSE votes[b]]
      /\ voters' = [b \in Blocks |->
              IF b \in path(t) THEN voters[b] \cup {v} ELSE voters[b]]
      /\ forktrees' = forktrees
  BY DEF InjestVote, add_votes
<1> HIDE DEF t, v
<1> SUFFICES ASSUME NEW b \in forktrees
             PROVE  /\ votes'[b] = StakeOf[voters'[b]]
                    /\ \A a \in path(b) : voters'[b] \subseteq voters'[a]
  BY <1>2 DEF VoteInv, path
<1>3. b \in Blocks /\ voters[b] \in SUBSET Validators /\ path(b) \subseteq Blocks
  BY DEF TreeInv, TypeOK, path
<1>4. /\ votes[b] = StakeOf[voters[b]]
      /\ \A a \in path(b) : voters[b] \subseteq voters[a]
  BY DEF VoteInv
<1>5. votes'[b] = StakeOf[voters'[b]]
  <2>1. CASE b \in path(t) /\ v \notin voters[b]
    BY <2>1, <1>1, <1>2, <1>3, <1>4, StakeOfOneMore
  <2>2. CASE b \in path(t) /\ v \in voters[b]
    <3>1. voters[b] \cup {v} = voters[b]
      BY <2>2
    <3> QED
      BY <2>2, <3>1, <1>2, <1>3, <1>4
  <2>3. CASE b \notin path(t)
    BY <2>3, <1>2, <1>3, <1>4
  <2> QED
    BY <2>1, <2>2, <2>3
<1>6. ASSUME NEW a \in path(b) PROVE voters'[b] \subseteq voters'[a]
  <2>1. b \in path(t) => a \in path(t)
    BY <1>1, PathIsTransitive DEF TreeInv
  <2> QED
    BY <2>1, <1>2, <1>3, <1>4
<1> QED
  BY <1>5, <1>6

LEMMA VoteTryInclude == TreeInv /\ VoteInv /\ TryInclude => VoteInv'
<1> SUFFICES ASSUME TreeInv, VoteInv, TryInclude PROVE VoteInv'
  OBVIOUS
<1> DEFINE b == Head(including)
<1>1. b \in Blocks
  BY IncludingIsNotEmpty DEF TryInclude, TreeInv
<1>2. /\ forktrees' = forktrees \cup {b}
      /\ finalized' = finalized
      /\ votes' = [votes EXCEPT ![b] = 0]
      /\ voters' = [voters EXCEPT ![b] = {}]
      /\ b \notin forktrees
  BY DEF TryInclude, IsNew
<1> HIDE DEF b
<1>3. votes'[b] = 0 /\ voters'[b] = {}
  BY <1>1, <1>2 DEF TreeInv, TypeOK
<1>4. \A c \in forktrees : votes'[c] = votes[c] /\ voters'[c] = voters[c]
  BY <1>1, <1>2 DEF TreeInv, TypeOK
<1>5. finalized \in Ancestors[b]
  BY <1>1, <1>2, TreeTryInclude DEF ForkTreeConnected
\* The new block is an ancestor of no block of the tree.
<1>6. ASSUME NEW c \in forktrees PROVE b \notin Ancestors[c]
  <2>1. b \notin History(finalized)
    <3>1. CASE finalized \in Blocks
      BY <3>1, <1>1, <1>5, AncestorsTransitive, AncestorsOfChild DEF History, Lineage
    <3>2. CASE finalized \notin Blocks
      BY <3>2, <1>1 DEF History
    <3> QED
      BY <3>1, <3>2
  <2> QED
    BY <2>1, <1>2 DEF TreeInv, KnownAncestors
<1>7. \A c \in forktrees : path(c)' = path(c)
  BY <1>2, <1>6 DEF path, Lineage
<1> SUFFICES ASSUME NEW c \in forktrees'
             PROVE  /\ votes'[c] = StakeOf[voters'[c]]
                    /\ \A a \in path(c)' : voters'[c] \subseteq voters'[a]
  BY DEF VoteInv
<1>8. CASE c = b
  BY <1>3, <1>8, NoStake
<1>9. CASE c \in forktrees
  <2>1. path(c) \subseteq forktrees
    BY DEF path
  <2> QED
    BY <2>1, <1>4, <1>7, <1>9 DEF VoteInv
<1> QED
  BY <1>2, <1>8, <1>9

LEMMA VoteFinalize == TreeInv /\ VoteInv /\ TryFinalizeRoots => VoteInv'
<1> SUFFICES ASSUME TreeInv, VoteInv, TryFinalizeRoots PROVE VoteInv'
  OBVIOUS
<1>1. PICK r \in forktrees : finalize_root(r)
  BY FinalizeRoot
<1> DEFINE kept == {b \in forktrees : r \in Ancestors[b]}
<1>2. /\ forktrees' = kept
      /\ votes' = [b \in Blocks |-> IF b \in kept THEN votes[b] ELSE 0]
      /\ voters' = [b \in Blocks |-> IF b \in kept THEN voters[b] ELSE {}]
  BY <1>1 DEF finalize_root, Survivors
<1>3. \A b \in kept : votes'[b] = votes[b] /\ voters'[b] = voters[b]
  BY <1>2 DEF TreeInv, TypeOK
<1>4. \A b \in kept : path(b)' \subseteq path(b) /\ path(b)' \subseteq kept
  BY <1>2 DEF path, Lineage
<1> HIDE DEF kept
<1>5. kept \subseteq forktrees
  BY DEF kept
<1> QED
  BY <1>2, <1>3, <1>4, <1>5, SMTT(60) DEF VoteInv

LEMMA VoteNext == TreeInv /\ VoteInv /\ [Next]_vars => VoteInv'
<1> SUFFICES ASSUME TreeInv, VoteInv, [Next]_vars PROVE VoteInv'
  OBVIOUS
<1>1. CASE ~InjestVote /\ ~TryInclude /\ ~TryFinalizeRoots
  <2>1. UNCHANGED <<finalized, forktrees, votes, voters>>
    BY <1>1 DEF Next, ReceiveBlock, IncludeStep, PollStep, poll_next, RejectBlock,
       IncludeDuplicate, RejectExecution, AddOrphan, CommitAndVote, ConsumeBlocks,
       NothingToConsume,
       RejectVote, StoreVote, ConsumeVotes, BeginFinalize,
       MissingBlocks, PollIncluded, PollFinalized, PollOther, vars, treevars
  <2> QED
    BY <2>1 DEF VoteInv, path, Lineage
<1> QED
  BY <1>1, VoteInjest, VoteTryInclude, VoteFinalize

LEMMA VoteInvariant == Spec => [](TreeInv /\ VoteInv)
<1>1. Init => TreeInv /\ VoteInv
  BY TreeInit DEF Init, VoteInv
<1>2. (TreeInv /\ VoteInv) /\ [Next]_vars => (TreeInv /\ VoteInv)'
  BY TreeNext, VoteNext
<1> QED
  BY <1>1, <1>2, PTL DEF Spec

(* The votes of a block are exactly the stake of the validators that voted *)
(* for it or for one of its descendants: repeated, late and overlapping    *)
(* votes never count twice (add_votes).                                    *)
THEOREM VotesAreCountedOnce == Spec => []VotesAreStakeOfVoters
<1>1. TreeInv /\ VoteInv => VotesAreStakeOfVoters
  <2> SUFFICES ASSUME TreeInv, VoteInv, NEW b \in forktrees, Parent[b] \in forktrees
               PROVE  Parent[b] \in path(b)
    BY DEF VoteInv, VotesAreStakeOfVoters
  <2> QED
    BY AncestorsOfChild DEF TreeInv, TypeOK, path, Lineage
<1> QED
  BY <1>1, VoteInvariant, PTL

LEMMA PrefixClosed == TreeInv /\ VoteInv => ConfirmedIsPrefixClosed
<1> SUFFICES ASSUME TreeInv, VoteInv, NEW b \in forktrees, confirmed(b),
                    NEW a \in path(b)
             PROVE  confirmed(a)
  BY DEF ConfirmedIsPrefixClosed
<1>1. a \in forktrees /\ voters[b] \subseteq voters[a]
  BY DEF VoteInv, path
<1>2. voters[a] \in SUBSET Validators /\ voters[b] \in SUBSET Validators
  BY <1>1 DEF TreeInv, TypeOK
<1>3. StakeOf[voters[b]] <= StakeOf[voters[a]]
  BY <1>1, <1>2, StakeOfIsMonotone
<1>4. votes[b] = StakeOf[voters[b]] /\ votes[a] = StakeOf[voters[a]]
  BY <1>1 DEF VoteInv
<1>5. StakeOf[voters[b]] \in Nat /\ StakeOf[voters[a]] \in Nat
  BY <1>2, StakeAssumption
<1> QED
  BY <1>3, <1>4, <1>5, MajorityIsInt DEF confirmed

(* When a block is confirmed, so are all its volatile ancestors.           *)
THEOREM ConfirmationIsPrefixClosed == Spec => []ConfirmedIsPrefixClosed
  BY PrefixClosed, VoteInvariant, PTL

(* The finalized block moves only to a child of itself, and only to one    *)
(* that validators with a majority of the stake voted for.                 *)
THEOREM FinalizedAdvancesByMajority == Spec => FinalizedAdvances
<1> DEFINE Advance == finalized' # finalized =>
                 /\ finalized' \in forktrees
                 /\ Parent[finalized'] = finalized
                 /\ StakeOf[voters[finalized']] >= minimum_majority_stake
<1>1. TreeInv /\ VoteInv /\ [Next]_vars => [Advance]_vars
  <2> SUFFICES ASSUME TreeInv, VoteInv, [Next]_vars, finalized' # finalized
               PROVE  Advance
    BY ZenonT(60)
  <2>1. TryFinalizeRoots
    BY DEF Next, ReceiveBlock, IncludeStep, PollStep, poll_next, RejectBlock, TryInclude,
       IncludeDuplicate, RejectExecution, AddOrphan, CommitAndVote, ConsumeBlocks,
       NothingToConsume,
       RejectVote, StoreVote, InjestVote, ConsumeVotes, BeginFinalize,
       MissingBlocks, PollIncluded, PollFinalized, PollOther, vars, treevars
  <2>2. PICK r \in forktrees : Parent[r] = finalized /\ confirmed(r) /\ finalize_root(r)
    BY <2>1, FinalizeRoot
  <2>3. finalized' = r /\ votes[r] = StakeOf[voters[r]]
    BY <2>2 DEF finalize_root, VoteInv
  <2> QED
    BY <2>2, <2>3 DEF confirmed
<1> QED
  BY <1>1, VoteInvariant, PTL DEF Spec, FinalizedAdvances

-----------------------------------------------------------------------------
(***************************************************************************)
(* Blocks do not come back.  What rules out that a block is included twice *)
(* is not the search for duplicates alone, which only looks at the tree:   *)
(* a block that left the tree is no descendant of the finalized block, and *)
(* never will be of a later one.                                           *)
(***************************************************************************)

(* The queue announces no block twice.                                     *)
NoRepeats(q) ==
    \A i, j \in DOMAIN q : q[i].kind = "included" /\ i # j => q[i] # q[j]

LEMMA NoRepeatsConcat ==
    ASSUME NEW q \in Seq(Events), NoRepeats(q), NEW s \in Seq(Events),
           \A x \in ToSet(s) : x.kind # "included"
    PROVE  NoRepeats(q \o s) /\ NoRepeats(s \o q)
<1>1. \A i \in DOMAIN s : s[i].kind # "included"
  BY DEF ToSet
<1>2. NoRepeats(q \o s)
  <2> SUFFICES ASSUME NEW i \in DOMAIN (q \o s), NEW j \in DOMAIN (q \o s),
                      (q \o s)[i].kind = "included", i # j
               PROVE  (q \o s)[i] # (q \o s)[j]
    BY DEF NoRepeats
  <2>1. i \in DOMAIN q /\ (q \o s)[i] = q[i]
    BY ConcatIndex, <1>1
  <2>2. CASE j \in DOMAIN q /\ (q \o s)[j] = q[j]
    BY <2>1, <2>2 DEF NoRepeats
  <2>3. CASE j - Len(q) \in DOMAIN s /\ (q \o s)[j] = s[j - Len(q)]
    BY <2>1, <2>3, <1>1
  <2> QED
    BY ConcatIndex, <2>2, <2>3
<1>3. NoRepeats(s \o q)
  <2> SUFFICES ASSUME NEW i \in DOMAIN (s \o q), NEW j \in DOMAIN (s \o q),
                      (s \o q)[i].kind = "included", i # j
               PROVE  (s \o q)[i] # (s \o q)[j]
    BY DEF NoRepeats
  <2>1. i - Len(s) \in DOMAIN q /\ (s \o q)[i] = q[i - Len(s)]
    BY ConcatIndex, <1>1
  <2>2. CASE j \in DOMAIN s /\ (s \o q)[j] = s[j]
    BY <2>1, <2>2, <1>1
  <2>3. CASE j - Len(s) \in DOMAIN q /\ (s \o q)[j] = q[j - Len(s)]
    <3>1. i - Len(s) # j - Len(s)
      OBVIOUS
    <3> QED
      BY <2>1, <2>3, <3>1 DEF NoRepeats
  <2> QED
    BY ConcatIndex, <2>2, <2>3
<1> QED
  BY <1>2, <1>3

LEMMA NoRepeatsAppend ==
    ASSUME NEW q \in Seq(Events), NoRepeats(q), NEW e \in Events,
           e \notin ToSet(q) \/ e.kind # "included"
    PROVE  NoRepeats(Append(q, e))
<1>1. /\ DOMAIN Append(q, e) = 1..(Len(q) + 1)
      /\ DOMAIN q = 1..Len(q)
      /\ Len(q) \in Nat
      /\ Append(q, e)[Len(q) + 1] = e
      /\ \A i \in 1..Len(q) : Append(q, e)[i] = q[i]
  OBVIOUS
<1>2. \A i \in DOMAIN q : q[i] # e \/ q[i].kind # "included"
  BY DEF ToSet
<1> SUFFICES ASSUME NEW i \in 1..(Len(q) + 1), NEW j \in 1..(Len(q) + 1),
                    Append(q, e)[i].kind = "included", i # j
             PROVE  Append(q, e)[i] # Append(q, e)[j]
  BY <1>1 DEF NoRepeats
<1>3. CASE i = Len(q) + 1
  <2>1. j \in 1..Len(q)
    BY <1>1, <1>3
  <2> QED
    BY <1>1, <1>2, <1>3, <2>1
<1>4. CASE j = Len(q) + 1
  <2>1. i \in 1..Len(q)
    BY <1>1, <1>4
  <2> QED
    BY <1>1, <1>2, <1>4, <2>1
<1>5. CASE i \in 1..Len(q) /\ j \in 1..Len(q)
  BY <1>1, <1>5 DEF NoRepeats
<1> QED
  BY <1>1, <1>3, <1>4, <1>5

LEMMA NoRepeatsTail ==
    ASSUME NEW q \in Seq(Events), NoRepeats(q), q # <<>>
    PROVE  /\ NoRepeats(Tail(q))
           /\ Head(q).kind = "included" => Head(q) \notin ToSet(Tail(q))
<1>1. 1 \in DOMAIN q /\ Head(q) = q[1]
  OBVIOUS
<1>2. \A i \in DOMAIN Tail(q) : i + 1 \in DOMAIN q /\ Tail(q)[i] = q[i + 1]
                              /\ i + 1 # 1 /\ i \in Int
  OBVIOUS
<1>3. NoRepeats(Tail(q))
  <2> SUFFICES ASSUME NEW i \in DOMAIN Tail(q), NEW j \in DOMAIN Tail(q),
                      Tail(q)[i].kind = "included", i # j
               PROVE  Tail(q)[i] # Tail(q)[j]
    BY DEF NoRepeats
  <2>1. i + 1 # j + 1
    BY <1>2
  <2> QED
    BY <1>2, <2>1 DEF NoRepeats
<1>4. ASSUME Head(q).kind = "included", NEW i \in DOMAIN Tail(q)
      PROVE  Head(q) # Tail(q)[i]
  BY <1>1, <1>2, <1>4 DEF NoRepeats
<1> QED
  BY <1>3, <1>4 DEF ToSet
Announced(b) == EventOf("included", b) \in ToSet(events) \/ b \in emitted["included"]

Left(b) == \E k \in {"discarded", "finalized"} :
               EventOf(k, b) \in ToSet(events) \/ b \in emitted[k]

LeftInv ==
    /\ NoRepeats(events)
    /\ \A b \in Blocks :
          /\ EventOf("included", b) \in ToSet(events) => b \notin emitted["included"]
          /\ Announced(b) => b \in forktrees \/ finalized \notin Ancestors[b]
          /\ Left(b) => finalized \notin Ancestors[b]

LEMMA EventsOfKind ==
    ASSUME NEW k, NEW S, NEW s \in Seq(S), NEW e \in ToSet(EventsOf(k, s))
    PROVE  \E b \in S : e = EventOf(k, b)
  BY DEF ToSet, EventsOf

(* Events of other kinds may be queued at either end.                      *)
LEMMA LeftOtherEvents ==
    ASSUME TypeOK, LeftInv, NEW s \in Seq(Events),
           \A e \in ToSet(s) : e.kind \in {"vote", "confirmed", "missing"},
           events' = events \o s \/ events' = s \o events,
           UNCHANGED <<finalized, forktrees, emitted>>
    PROVE  LeftInv'
<1>1. events \in Seq(Events)
  BY DEF TypeOK
<1>2. NoRepeats(events')
  BY <1>1, NoRepeatsConcat DEF LeftInv
<1>3. ToSet(events') = ToSet(events) \cup ToSet(s)
  <2>1. ToSet(events \o s) = ToSet(events) \cup ToSet(s)
    BY <1>1, ToSetConcat
  <2>2. ToSet(s \o events) = ToSet(s) \cup ToSet(events)
    BY <1>1, ToSetConcat
  <2> QED
    BY <2>1, <2>2
<1>4. \A b \in Blocks, k \in {"included", "discarded", "finalized"} :
         EventOf(k, b) \in ToSet(events') => EventOf(k, b) \in ToSet(events)
  BY <1>3 DEF EventOf
<1> QED
  BY <1>2, <1>4 DEF LeftInv, Announced, Left

LEMMA LeftTryInclude == TreeInv /\ LeftInv /\ TryInclude => LeftInv'
<1> SUFFICES ASSUME TreeInv, LeftInv, TryInclude PROVE LeftInv'
  OBVIOUS
<1> DEFINE b == Head(including)
<1>1. b \in Blocks
  BY IncludingIsNotEmpty DEF TryInclude, TreeInv
<1>2. /\ forktrees' = forktrees \cup {b}
      /\ finalized' = finalized
      /\ emitted' = emitted
      /\ events' = Append(events, EventOf("included", b))
      /\ b \notin forktrees
  BY DEF TryInclude, emit_event, IsNew, historyvars
<1> HIDE DEF b
<1>3. finalized \in Ancestors[b]
  BY <1>1, <1>2, TreeTryInclude DEF ForkTreeConnected
<1>4. ~Announced(b)
  BY <1>1, <1>2, <1>3 DEF LeftInv
<1>5. events \in Seq(Events) /\ EventOf("included", b) \in Events
  BY <1>1, EventOfIsEvent DEF TreeInv, TypeOK, Kinds
<1>6. NoRepeats(events')
  BY <1>2, <1>4, <1>5, NoRepeatsAppend DEF LeftInv, Announced
<1>7. ToSet(events') = ToSet(events) \cup {EventOf("included", b)}
  BY <1>2, <1>5, ToSetAppend
<1>8. \A c \in Blocks : /\ EventOf("included", c) \in ToSet(events') =>
                              c = b \/ EventOf("included", c) \in ToSet(events)
                        /\ EventOf("discarded", c) \in ToSet(events') =>
                              EventOf("discarded", c) \in ToSet(events)
                        /\ EventOf("finalized", c) \in ToSet(events') =>
                              EventOf("finalized", c) \in ToSet(events)
  BY <1>7 DEF EventOf
<1> QED
  BY <1>2, <1>4, <1>6, <1>8 DEF LeftInv, Announced, Left

LEMMA LeftFinalize == TreeInv /\ LeftInv /\ TryFinalizeRoots => LeftInv'
<1> SUFFICES ASSUME TreeInv, LeftInv, TryFinalizeRoots PROVE LeftInv'
  OBVIOUS
<1>1. PICK r \in forktrees : Parent[r] = finalized /\ finalize_root(r)
  BY FinalizeRoot
<1> DEFINE discarded == forktrees \ (Survivors(r) \cup {r})
<1>2. PICK s \in SetToSeqs(discarded) : signal_finalized(r, s)
  BY <1>1 DEF finalize_root
<1>3. finalized' = r /\ forktrees' = Survivors(r) /\ emitted' = emitted
  BY <1>1 DEF finalize_root, TryFinalizeRoots, historyvars
<1>4. r \in Blocks /\ discarded \in SUBSET Blocks /\ events \in Seq(Events)
  BY DEF TreeInv, TypeOK
<1>5. s \in Seq(discarded)
  <2> HIDE DEF discarded
  <2> QED
    BY ONLY <1>4, s \in SetToSeqs(discarded), ListingOfBlocks
<1> DEFINE ds == EventsOf("discarded", s)
           q == events \o ds
<1>6. ds \in Seq(Events) /\ EventOf("finalized", r) \in Events
  <2>1. discarded \in SUBSET Hashes
    BY <1>4 DEF Hashes
  <2> QED
    BY <2>1, <1>4, <1>5, EventsOfIsSeq, EventOfIsEvent DEF Kinds
<1>7. \A e \in ToSet(ds) : \E b \in discarded : e = EventOf("discarded", b)
  BY <1>5, EventsOfKind
<1>8. events' = Append(q, EventOf("finalized", r))
  BY <1>2 DEF signal_finalized
<1> HIDE DEF ds
<1>9. q \in Seq(Events) /\ NoRepeats(q)
  <2>1. \A e \in ToSet(ds) : e.kind # "included"
    BY <1>7 DEF EventOf
  <2> QED
    BY <2>1, <1>4, <1>6, NoRepeatsConcat DEF LeftInv
<1>10. NoRepeats(events')
  BY <1>6, <1>8, <1>9, NoRepeatsAppend DEF EventOf
<1>11. ToSet(events') = ToSet(events) \cup ToSet(ds) \cup {EventOf("finalized", r)}
  <2>1. ToSet(q) = ToSet(events) \cup ToSet(ds)
    BY <1>4, <1>6, ToSetConcat
  <2> HIDE DEF q
  <2>2. ToSet(events') = ToSet(q) \cup {EventOf("finalized", r)}
    BY <1>6, <1>8, <1>9, ToSetAppend
  <2> QED
    BY <2>1, <2>2
<1>12. \A b \in Blocks :
          /\ EventOf("included", b) \in ToSet(events') =>
                 EventOf("included", b) \in ToSet(events)
          /\ EventOf("discarded", b) \in ToSet(events') =>
                 b \in discarded \/ EventOf("discarded", b) \in ToSet(events)
          /\ EventOf("finalized", b) \in ToSet(events') =>
                 b = r \/ EventOf("finalized", b) \in ToSet(events)
  BY <1>7, <1>11 DEF EventOf
\* A block that descends from r descends from the block finalized before.
<1>13. ASSUME NEW b \in Blocks, r \in Ancestors[b] PROVE finalized \in Ancestors[b]
  BY <1>1, <1>4, <1>13, AncestorsTransitive, AncestorsOfChild
<1>14. r \notin Ancestors[r] /\ \A b \in discarded : r \notin Ancestors[b]
  BY <1>4, AncestorsOfChild DEF Survivors
<1>15. ASSUME NEW b \in Blocks, Announced(b)'
       PROVE  b \in forktrees' \/ finalized' \notin Ancestors[b]
  <2>1. b \in forktrees \/ finalized \notin Ancestors[b]
    BY <1>3, <1>12, <1>15 DEF LeftInv, Announced
  <2> QED
    BY <2>1, <1>3, <1>13 DEF Survivors
<1>16. ASSUME NEW b \in Blocks, Left(b)' PROVE finalized' \notin Ancestors[b]
  <2>1. b \in discarded \/ b = r \/ Left(b)
    BY <1>3, <1>12, <1>16 DEF Left
  <2>2. Left(b) => finalized \notin Ancestors[b]
    BY DEF LeftInv
  <2> QED
    BY <2>1, <2>2, <1>3, <1>13, <1>14
<1> QED
  BY <1>3, <1>10, <1>12, <1>15, <1>16 DEF LeftInv

LEMMA LeftPoll == TreeInv /\ LeftInv /\ poll_next => LeftInv'
<1> SUFFICES ASSUME TreeInv, LeftInv, poll_next PROVE LeftInv'
  OBVIOUS
<1> DEFINE e == Head(events)
<1>1. Emit(e) /\ events # <<>> /\ UNCHANGED <<finalized, forktrees>>
  BY DEF poll_next, PollIncluded, PollFinalized, PollOther, treevars
<1>2. events \in Seq(Events) /\ emitted \in [Kinds -> SUBSET Hashes]
  BY DEF TreeInv, TypeOK
<1>3. e \in Events /\ e \in ToSet(events) /\ ToSet(Tail(events)) \subseteq ToSet(events)
  BY <1>1, <1>2, ToSetTail
<1>4. /\ NoRepeats(Tail(events))
      /\ e.kind = "included" => e \notin ToSet(Tail(events))
  BY <1>1, <1>2, NoRepeatsTail DEF LeftInv
<1> HIDE DEF e
<1>5. /\ events' = Tail(events)
      /\ \A k \in Kinds : emitted'[k] = IF k = e.kind THEN emitted[k] \cup {e.block}
                                         ELSE emitted[k]
  BY <1>1, <1>2 DEF Emit
<1>6. e = EventOf(e.kind, e.block) /\ e.kind \in Kinds
  BY <1>3 DEF Events, EventOf
<1>7. \A b \in Blocks, k \in Kinds :
         EventOf(k, b) \in ToSet(events') \/ b \in emitted'[k]
            => EventOf(k, b) \in ToSet(events) \/ b \in emitted[k]
  BY <1>3, <1>5, <1>6
<1>8. ASSUME NEW b \in Blocks, EventOf("included", b) \in ToSet(events')
      PROVE  b \notin emitted'["included"]
  <2>1. b \notin emitted["included"]
    BY <1>3, <1>5, <1>8 DEF LeftInv
  <2>2. CASE e.kind = "included" /\ e.block = b
    BY <2>2, <1>4, <1>5, <1>6, <1>8
  <2>3. CASE ~(e.kind = "included" /\ e.block = b)
    BY <2>1, <2>3, <1>5 DEF Kinds
  <2> QED
    BY <2>2, <2>3
<1>9. \A b \in Blocks : (Announced(b)' => Announced(b)) /\ (Left(b)' => Left(b))
  BY <1>7 DEF Announced, Left, Kinds
<1> QED
  BY <1>1, <1>4, <1>5, <1>8, <1>9 DEF LeftInv

LEMMA LeftNext == TreeInv /\ LeftInv /\ [Next]_vars => LeftInv'
<1> SUFFICES ASSUME TreeInv, LeftInv, [Next]_vars PROVE LeftInv'
  OBVIOUS
<1>1. events \in Seq(Events)
  BY DEF TreeInv, TypeOK
<1>2. CASE CommitAndVote
  <2> DEFINE b == Head(including)
  <2>1. UNCHANGED <<finalized, forktrees, emitted>>
    BY <1>2 DEF CommitAndVote, treevars
  <2>2. CASE events' = events
    BY <2>1, <2>2 DEF LeftInv, Announced, Left
  <2>3. CASE events' = Append(events, EventOf("vote", b))
    <3>1. EventOf("vote", b) \in Events
      BY <1>2, IncludingIsNotEmpty, EventOfIsEvent DEF CommitAndVote, TreeInv, Kinds
    <3> HIDE DEF b
    <3>2. events' = events \o <<EventOf("vote", b)>>
      BY <3>1, <2>3, <1>1
    <3>3. \A x \in ToSet(<<EventOf("vote", b)>>) : x.kind = "vote"
      BY DEF ToSet, EventOf
    <3> DEFINE s == <<EventOf("vote", b)>>
    <3>4. s \in Seq(Events)
      BY <3>1
    <3> HIDE DEF s
    <3> QED
      BY <3>2, <3>3, <3>4, <2>1, LeftOtherEvents DEF TreeInv, s
  <2> QED
    BY <1>2, <2>2, <2>3 DEF CommitAndVote, commit_and_vote
<1>3. CASE InjestVote
  <2> DEFINE newly == newly_confirmed(Head(counting).target)
  <2>1. PICK s \in SetToSeqs(newly) : events' = EventsOf("confirmed", s) \o events
    BY <1>3 DEF InjestVote
  <2>2. newly \in SUBSET Blocks /\ newly \in SUBSET Hashes
    BY DEF newly_confirmed, path, TreeInv, TypeOK, Hashes
  <2> HIDE DEF newly
  <2>3. s \in Seq(newly)
    BY <2>2, ListingIsSeq, BlockAssumption
  <2>4. EventsOf("confirmed", s) \in Seq(Events)
    BY <2>2, <2>3, EventsOfIsSeq DEF Kinds
  <2>5. \A x \in ToSet(EventsOf("confirmed", s)) : x.kind = "confirmed"
    BY <2>3, EventsOfKind DEF EventOf
  <2>6. UNCHANGED <<finalized, forktrees, emitted>>
    BY <1>3 DEF InjestVote, historyvars
  <2> QED
    BY <2>1, <2>4, <2>5, <2>6, LeftOtherEvents DEF TreeInv
<1>4. CASE MissingBlocks
  <2>1. PICK overdue \in SUBSET Hashes : \E s \in SetToSeqs(overdue) :
             events' = events \o EventsOf("missing", s)
    BY <1>4 DEF MissingBlocks
  <2>2. PICK s \in SetToSeqs(overdue) : events' = events \o EventsOf("missing", s)
    BY <2>1
  <2>3. s \in Seq(overdue)
    BY ListingIsSeq, HashesAreFinite
  <2>4. EventsOf("missing", s) \in Seq(Events)
    BY <2>3, EventsOfIsSeq DEF Kinds
  <2>5. \A x \in ToSet(EventsOf("missing", s)) : x.kind = "missing"
    BY <2>3, EventsOfKind DEF EventOf
  <2>6. UNCHANGED <<finalized, forktrees, emitted>>
    BY <1>4 DEF MissingBlocks, historyvars, treevars
  <2> QED
    BY <2>2, <2>4, <2>5, <2>6, LeftOtherEvents DEF TreeInv
<1>5. CASE UNCHANGED <<finalized, forktrees, events, emitted>>
  BY <1>5 DEF LeftInv, Announced, Left
<1>6. \/ TryInclude \/ TryFinalizeRoots \/ poll_next \/ CommitAndVote
      \/ InjestVote \/ MissingBlocks
      \/ UNCHANGED <<finalized, forktrees, events, emitted>>
  BY DEF Next, ReceiveBlock, IncludeStep, PollStep, RejectBlock, IncludeDuplicate,
     RejectExecution, AddOrphan, ConsumeBlocks, NothingToConsume, RejectVote,
     StoreVote, ConsumeVotes, BeginFinalize, vars, treevars, historyvars
<1> QED
  BY <1>2, <1>3, <1>4, <1>5, <1>6, LeftTryInclude, LeftFinalize, LeftPoll

(* A block that was discarded or finalized never enters the tree again,    *)
(* and every block is announced as included at most once, however often it *)
(* is received.                                                            *)
THEOREM BlocksNeverReturn == Spec => []NoReinclusion
<1>1. Init => TreeInv /\ LeftInv
  BY TreeInit DEF Init, LeftInv, NoRepeats, Announced, Left, ToSet, Kinds
<1>2. (TreeInv /\ LeftInv) /\ [Next]_vars => (TreeInv /\ LeftInv)'
  BY TreeNext, LeftNext
<1>3. TreeInv /\ LeftInv => NoReinclusion
  <2> SUFFICES ASSUME TreeInv, LeftInv PROVE NoReinclusion
    OBVIOUS
  <2>1. ASSUME NEW b \in forktrees
        PROVE  b \notin emitted["discarded"] \cup emitted["finalized"]
    <3>1. b \in Blocks /\ finalized \in Ancestors[b]
      BY DEF TreeInv, TypeOK, ForkTreeConnected
    <3> QED
      BY <3>1 DEF LeftInv, Left
  <2>2. ASSUME NEW i \in DOMAIN events, events[i].kind = "included"
        PROVE  events[i].block \notin emitted["included"]
    <3>1. events[i] \in Events
      BY DEF TreeInv, TypeOK
    <3>2. events[i] = EventOf("included", events[i].block) /\ events[i].block \in Blocks
      BY <3>1, <2>2 DEF Events, EventOf
    <3>3. events[i] \in ToSet(events)
      BY DEF ToSet
    <3> QED
      BY <3>2, <3>3 DEF LeftInv
  <2>3. NoRepeats(events)
    BY DEF LeftInv
  <2> QED
    BY <2>1, <2>2, <2>3 DEF NoReinclusion, NoRepeats
<1> QED
  BY <1>1, <1>2, <1>3, PTL DEF Spec

-----------------------------------------------------------------------------
(***************************************************************************)
(* Orphans.  Between two steps of include() an orphan tree may wait for a  *)
(* block of the fork tree, but only for the block that is being included,  *)
(* and only until consume_blocks has looked for it.                        *)
(***************************************************************************)
ReadyInv ==
    \A h \in forktrees \cup {finalized} :
        orphans[h] # {} => call \in {"commit", "consume"} /\ h = Head(including)

LEMMA ReadyAddOrphan == TreeInv /\ ReadyInv /\ AddOrphan => ReadyInv'
<1> SUFFICES ASSUME TreeInv, ReadyInv, AddOrphan PROVE ReadyInv'
  OBVIOUS
<1> DEFINE b == Head(including)
<1>1. /\ call = "include"
      /\ Parent[b] \notin forktrees \cup {finalized}
      /\ UNCHANGED <<forktrees, finalized>>
      /\ \/ \E h \in OrphanEntries(b) :
               orphans' = [orphans EXCEPT ![h] = orphans[h] \cup {b}]
         \/ UNCHANGED orphans
  BY DEF AddOrphan, Attached, treevars
<1>2. b \in Blocks
  BY <1>1, IncludingIsNotEmpty DEF TreeInv
<1> HIDE DEF b
<1>3. \A h \in forktrees \cup {finalized} : orphans[h] = {}
  BY <1>1 DEF ReadyInv
\* Neither the missing parent nor what its orphan tree waits for is in the tree.
<1>4. \A h \in OrphanEntries(b) : h \in Hashes \ (forktrees \cup {finalized})
  BY <1>1, <1>2, <1>3, BlockAssumption DEF OrphanEntries, InsertsUnder
<1>5. orphans \in [Hashes -> SUBSET Blocks]
  BY DEF TreeInv, TypeOK
<1>6. \A h \in forktrees \cup {finalized} : orphans'[h] = orphans[h]
  BY <1>1, <1>4, <1>5 DEF TreeInv, TypeOK, Hashes
<1> QED
  BY <1>1, <1>3, <1>6 DEF ReadyInv

LEMMA ReadyNext == TreeInv /\ ReadyInv /\ [Next]_vars => ReadyInv'
<1> SUFFICES ASSUME TreeInv, ReadyInv, [Next]_vars PROVE ReadyInv'
  OBVIOUS
<1> USE DEF treevars, orphanvars
<1>1. CASE TryInclude
  BY <1>1 DEF TryInclude, ReadyInv
<1>2. CASE IncludeDuplicate
  BY <1>2 DEF IncludeDuplicate, ReadyInv
<1>3. CASE CommitAndVote
  BY <1>3 DEF CommitAndVote, ReadyInv
<1>4. CASE ConsumeBlocks
  <2>1. Head(including) \in Hashes
    BY <1>4, IncludingIsNotEmpty DEF ConsumeBlocks, TreeInv, Hashes
  <2>2. \A h \in forktrees \cup {finalized} : orphans'[h] = {}
    BY <1>4, <2>1 DEF ConsumeBlocks, ReadyInv, TreeInv, TypeOK, Hashes
  <2> QED
    BY <1>4, <2>2 DEF ConsumeBlocks, ReadyInv
<1>5. CASE NothingToConsume
  BY <1>5 DEF NothingToConsume, Awaited, ReadyInv
<1>6. CASE TryFinalizeRoots
  <2>1. PICK r \in forktrees : finalize_root(r)
    BY <1>6, FinalizeRoot
  <2>2. forktrees' \cup {finalized'} \subseteq forktrees /\ UNCHANGED orphans
    BY <1>6, <2>1 DEF finalize_root, Survivors, TryFinalizeRoots
  <2> QED
    BY <1>6, <2>2 DEF TryFinalizeRoots, ReadyInv
<1>7. CASE MissingBlocks
  <2>1. \A h \in forktrees \cup {finalized} : orphans'[h] \in {{}, orphans[h]}
    BY <1>7 DEF MissingBlocks, TreeInv, TypeOK, Hashes
  <2> QED
    BY <1>7, <2>1 DEF MissingBlocks, ReadyInv
<1>8. CASE /\ UNCHANGED <<forktrees, finalized, orphans>>
           /\ call \notin {"commit", "consume"}
  BY <1>8 DEF ReadyInv
<1>9. CASE UNCHANGED <<forktrees, finalized, orphans, call, including>>
  BY <1>9 DEF ReadyInv
<1>10. \/ TryInclude \/ IncludeDuplicate \/ CommitAndVote \/ ConsumeBlocks
       \/ NothingToConsume \/ TryFinalizeRoots \/ MissingBlocks \/ AddOrphan
       \/ UNCHANGED <<forktrees, finalized, orphans>> /\ call \notin {"commit", "consume"}
       \/ UNCHANGED <<forktrees, finalized, orphans, call, including>>
  BY DEF Next, ReceiveBlock, IncludeStep, PollStep, poll_next, RejectBlock,
     RejectExecution, RejectVote, StoreVote, InjestVote, ConsumeVotes, BeginFinalize,
     PollIncluded, PollFinalized, PollOther, Counting, vars, callvars
<1> QED
  BY <1>1, <1>2, <1>3, <1>4, <1>5, <1>6, <1>7, <1>8, <1>9, <1>10, ReadyAddOrphan

(* When include() and poll_next() have returned, no orphan tree waits for  *)
(* a block of the fork tree: consume_blocks has found the orphans of every *)
(* block that joined the tree, the orphans of orphans included.            *)
THEOREM OrphansAreNotForgotten == Spec => []NoReadyOrphans
<1>1. Init => TreeInv /\ ReadyInv
  BY TreeInit, BlockAssumption DEF Init, ReadyInv, Hashes
<1>2. (TreeInv /\ ReadyInv) /\ [Next]_vars => (TreeInv /\ ReadyInv)'
  BY TreeNext, ReadyNext
<1>3. TreeInv /\ ReadyInv => NoReadyOrphans
  BY DEF ReadyInv, NoReadyOrphans
<1> QED
  BY <1>1, <1>2, <1>3, PTL DEF Spec
=============================================================================
