------------------------- MODULE ChainEpochs_proofs -------------------------
(***************************************************************************)
(* Proofs about epochs: where the finalization loop stops, and why the     *)
(* votes of this validator in one epoch never conflict although it forgets *)
(* them when a block of the epoch is finalized.                            *)
(***************************************************************************)
EXTENDS Chain_proofs

-----------------------------------------------------------------------------
(* The next height is in the same epoch unless it starts a new one.        *)
LEMMA NextHeight ==
    ASSUME NEW n \in Nat, NEW e \in Nat \ {0}, (n + 1) % e # 0
    PROVE  (n + 1) \div e = n \div e
<1>1. n = e * (n \div e) + (n % e) /\ n % e \in 0..(e - 1) /\ n \div e \in Int
  BY Z3
<1>2. n + 1 = e * ((n + 1) \div e) + ((n + 1) % e) /\ (n + 1) % e \in 0..(e - 1)
      /\ (n + 1) \div e \in Int
  BY Z3
<1> DEFINE p == n \div e
           q == (n + 1) \div e
           a == n % e
           b == (n + 1) % e
<1> HIDE DEF p, q, a, b
<1>3. n = e * p + a /\ n + 1 = e * q + b /\ a \in 0..(e - 1) /\ b \in 1..(e - 1)
      /\ p \in Int /\ q \in Int
  BY <1>1, <1>2 DEF p, q, a, b
<1>4. e * q - e * p = a + 1 - b
  BY <1>3
<1>5. e * (q - p) = a + 1 - b
  BY <1>3, <1>4
<1>6. a + 1 - b < e /\ a + 1 - b > -e
  BY <1>3
<1>7. q - p = 0
  <2>1. CASE q - p >= 1
    <3>1. e * (q - p) >= e
      BY <2>1, <1>3
    <3> QED
      BY <3>1, <1>5, <1>6, <1>3
  <2>2. CASE q - p <= -1
    <3>1. e * (q - p) <= -e
      BY <2>2, <1>3
    <3> QED
      BY <3>1, <1>5, <1>6, <1>3
  <2> QED
    BY <2>1, <2>2, <1>3
<1> QED
  BY <1>3, <1>7 DEF p, q

(* A later height is in a later epoch after the last height of an epoch,   *)
(* and never in an earlier one.                                            *)
LEMMA LaterHeight ==
    ASSUME NEW n \in Nat, NEW m \in Nat, n < m, NEW e \in Nat \ {0}
    PROVE  /\ n \div e <= m \div e
           /\ (n + 1) % e = 0 => n \div e < m \div e
<1>1. n = e * (n \div e) + (n % e) /\ n % e \in 0..(e - 1) /\ n \div e \in Int
  BY Z3
<1>2. m = e * (m \div e) + (m % e) /\ m % e \in 0..(e - 1) /\ m \div e \in Int
  BY Z3
<1>3. n + 1 = e * ((n + 1) \div e) + ((n + 1) % e) /\ (n + 1) \div e \in Int
  BY Z3
<1> DEFINE p == n \div e
           q == m \div e
           k == (n + 1) \div e
           a == n % e
           b == m % e
<1> HIDE DEF p, q, k, a, b
<1>4. n = e * p + a /\ m = e * q + b /\ a \in 0..(e - 1) /\ b \in 0..(e - 1)
      /\ p \in Int /\ q \in Int
  BY <1>1, <1>2 DEF p, q, a, b
<1>5. p <= q
  <2> SUFFICES ASSUME q + 1 <= p PROVE FALSE
    BY <1>4
  <2>1. e * (q + 1) <= e * p
    BY <1>4
  <2>2. e * (q + 1) = e * q + e
    BY <1>4
  <2> QED
    BY <2>1, <2>2, <1>4
<1>6. ASSUME (n + 1) % e = 0 PROVE p < q
  <2>1. n + 1 = e * k /\ k \in Int
    BY <1>3, <1>6 DEF k
  <2>2. p + 1 <= k
    <3> SUFFICES ASSUME k <= p PROVE FALSE
      BY <2>1, <1>4
    <3>1. e * k <= e * p
      BY <2>1, <1>4
    <3> QED
      BY <3>1, <2>1, <1>4
  <2>3. k <= q
    <3> SUFFICES ASSUME q + 1 <= k PROVE FALSE
      BY <2>1, <1>4
    <3>1. e * (q + 1) <= e * k
      BY <2>1, <1>4
    <3>2. e * (q + 1) = e * q + e
      BY <1>4
    <3> QED
      BY <3>1, <3>2, <2>1, <1>4
  <2> QED
    BY <2>1, <2>2, <2>3, <1>4
<1> QED
  BY <1>5, <1>6 DEF p, q

EndsEpoch(b) == (Height[b] + 1) % EpochBlocks = 0

(* The blocks of a path are its root and blocks above it.                  *)
LEMMA PathStartsAtRoot ==
    ASSUME TreeInv, NEW h \in forktrees, NEW r \in path(h), Parent[r] = finalized,
           NEW b \in path(h)
    PROVE  b = r \/ b \in Survivors(r)
<1>1. b \in forktrees /\ r \in forktrees /\ h \in Blocks /\ b \in Blocks /\ r \in Blocks
  BY DEF path, TreeInv, TypeOK
<1>2. b = r \/ b \in Ancestors[r] \/ r \in Ancestors[b]
  BY <1>1, AncestorsComparable DEF path, Lineage
<1>3. b \notin Ancestors[r]
  BY <1>1, AncestorsOfChild, VolatileIsAbove
<1> QED
  BY <1>1, <1>2, <1>3 DEF Survivors

(* The path to a block above r passes through a child of r.                *)
LEMMA ChildOnPath ==
    ASSUME TreeInv, NEW r \in forktrees, NEW b \in Survivors(r)
    PROVE  \E c \in path(b) : Parent[c] = r /\ c \in Survivors(r)
<1>1. b \in forktrees /\ b \in Blocks /\ r \in Ancestors[b]
  BY DEF Survivors, TreeInv, TypeOK
<1> DEFINE S == {n \in Nat : \E c \in path(b) : c \in Survivors(r) /\ Height[c] = n}
<1>2. Height[b] \in S
  BY <1>1, EpochIsNat DEF path, Lineage
<1>3. PICK n \in S : \A m \in S : n <= m
  BY <1>2, Smallest
<1>4. PICK c \in path(b) : c \in Survivors(r) /\ Height[c] = n
  BY <1>3
<1>5. c \in forktrees /\ c \in Blocks /\ r \in Ancestors[c]
      /\ Parent[c] \in forktrees \cup {finalized} /\ Height[c] = Height[Parent[c]] + 1
  BY <1>4 DEF Survivors, TreeInv, TypeOK, ForkTreeConnected
<1>6. r \in History(Parent[c])
  BY <1>5, AncestorsOfChild
<1>7. Parent[c] \in forktrees /\ Parent[c] \in Blocks
  BY <1>5, <1>6, VolatileIsAbove DEF TreeInv, TypeOK
<1>8. Parent[c] = r \/ Parent[c] \in Survivors(r)
  BY <1>6, <1>7 DEF History, Lineage, Survivors
<1>9. Parent[c] \in path(b)
  <2>1. Parent[c] \in path(c)
    BY <1>5, <1>7, AncestorsOfChild DEF path, Lineage
  <2> QED
    BY <2>1, <1>1, <1>4, PathIsTransitive DEF TreeInv
<1>10. Parent[c] \notin Survivors(r)
  <2>1. Height[Parent[c]] \in Nat
    BY <1>7, EpochIsNat
  <2>2. Height[Parent[c]] \in S => n <= Height[Parent[c]]
    BY <1>3
  <2> QED
    BY <2>1, <2>2, <1>4, <1>5, <1>9
<1> QED
  BY <1>4, <1>8, <1>10

(* The first block of the previous epoch is in an earlier epoch than what  *)
(* follows it.                                                             *)
LEMMA CheckpointStartsEpoch ==
    ASSUME TreeInv, NEW h \in forktrees, NEW s, epoch_start(h, s),
           Parent[s] \in forktrees
    PROVE  /\ s \in path(h) /\ Parent[s] \in path(h)
           /\ Epoch(Parent[s]) # Epoch(s)
<1>1. /\ s \in path(h) /\ s \in forktrees /\ s \in Blocks
      /\ Height[s] = Height[Parent[s]] + 1
  BY DEF epoch_start, path, TreeInv, TypeOK, ForkTreeConnected
<1>2. Parent[s] \in path(h)
  <2>1. Parent[s] \in path(s)
    BY <1>1, AncestorsOfChild DEF path, Lineage
  <2> QED
    BY <2>1, <1>1, PathIsTransitive DEF TreeInv
<1>3. Height[Parent[s]] \in Nat
  BY EpochIsNat DEF TreeInv, TypeOK
<1> QED
  BY <1>1, <1>2, <1>3 DEF epoch_start

(* The head of the tree that r roots is the head of the tree of the child  *)
(* of r on the way to it, when r is finalized.                             *)
LEMMA HeadOfNextRoot ==
    ASSUME TreeInv, NEW r \in forktrees, finalize_root(r),
           NEW h \in Survivors(r), IsHead(h, r),
           NEW c \in Survivors(r), Parent[c] = r, c \in path(h)
    PROVE  IsHead(h, c)'
<1> DEFINE kept == Survivors(r)
<1>1. /\ forktrees' = kept
      /\ \A x \in kept \cup {r} : children'[x] = children[x]
      /\ \A x \in kept : votes'[x] = votes[x]
  BY DEF finalize_root, Survivors, TreeInv, TypeOK, Hashes
<1>2. kept \subseteq forktrees /\ forktrees \subseteq Blocks /\ \A x \in kept : r \in Ancestors[x]
  BY DEF Survivors, TreeInv, TypeOK
<1>3. path(h)' = path(h) \cap kept
  BY <1>1, <1>2 DEF path
<1>4. ASSUME NEW a \in path(h)', c \in Ancestors[a]
      PROVE  IsTopChild(a)'
  <2>1. a \in kept /\ a \in path(h) /\ a \in Blocks
    BY <1>2, <1>3
  <2>2. IsTopChild(a)
    BY <2>1, <1>2 DEF IsHead
  <2>3. Parent[a] \in kept
    <3>1. Parent[a] \in forktrees \cup {finalized} /\ c \in History(Parent[a])
      BY <2>1, <1>2, <1>4, AncestorsOfChild DEF TreeInv, ForkTreeConnected
    <3>2. Parent[a] \in forktrees
      BY <3>1, <1>2, VolatileIsAbove
    <3>3. r \in Ancestors[Parent[a]]
      BY <3>1, <3>2, <1>2, AncestorsTransitive DEF History, Lineage
    <3> QED
      BY <3>2, <3>3 DEF Survivors
  <2> DEFINE siblings == children[Parent[a]]
  <2>4. children'[Parent[a]] = siblings
    BY <2>3, <1>1
  <2>5. \A j \in DOMAIN siblings : siblings[j] \in kept
    <3> SUFFICES ASSUME NEW j \in DOMAIN siblings PROVE siblings[j] \in kept
      OBVIOUS
    <3>1. siblings[j] \in ToSet(siblings) /\ Parent[a] \in Hashes
      BY <2>1, BlockAssumption DEF ToSet
    <3>2. siblings[j] \in forktrees /\ Parent[siblings[j]] = Parent[a]
      BY <3>1 DEF TreeInv, ForkTreeConnected
    <3>3. Parent[a] \in Blocks /\ r \in Ancestors[Parent[a]]
      BY <2>3, <1>2
    <3>4. r \in Ancestors[siblings[j]]
      BY <3>2, <3>3, <1>2, AncestorsOfChild, ZenonT(60) DEF History, Lineage
    <3> QED
      BY <3>2, <3>4 DEF Survivors
  <2>6. votes'[a] = votes[a] /\ \A j \in DOMAIN siblings : votes'[siblings[j]] = votes[siblings[j]]
    BY <2>1, <2>5, <1>1
  <2>7. siblings \in Seq(Blocks)
    BY <2>1, BlockAssumption DEF TreeInv, TypeOK
  <2>8. PICK i \in DOMAIN siblings :
             /\ siblings[i] = a
             /\ \A j \in DOMAIN siblings : votes[siblings[j]] <= votes[a]
             /\ \A j \in 1..(i - 1) : votes[siblings[j]] < votes[a]
    BY <2>2 DEF IsTopChild
  <2>9. \A j \in 1..(i - 1) : j \in DOMAIN siblings
    BY <2>7
  <2> HIDE DEF siblings
  <2>10. \E k \in DOMAIN siblings :
             /\ siblings[k] = a
             /\ \A j \in DOMAIN siblings : votes'[siblings[j]] <= votes'[a]
             /\ \A j \in 1..(k - 1) : votes'[siblings[j]] < votes'[a]
    BY <2>6, <2>8, <2>9
  <2> QED
    BY <2>4, <2>10 DEF IsTopChild
<1>5. children'[h] = <<>>
  BY <1>1 DEF IsHead
<1> QED
  BY <1>1, <1>3, <1>4, <1>5 DEF IsHead

(* A round of the loop that stops in the middle of an epoch is followed by *)
(* another one: the child on the way to the same head is finalizable.      *)
LEMMA LoopGoesOn ==
    ASSUME TreeInv, VoteInv, TryFinalizeRoots, ~EndsEpoch(finalized')
    PROVE  (FinalizableRoots # {})'
<1>1. PICK i \in DOMAIN roots : i \in FinalizableRoots /\ finalize_root(roots[i])
  BY DEF TryFinalizeRoots, find_finalizable_root
<1> DEFINE r == roots[i]
           kept == Survivors(r)
<1>2. r \in forktrees /\ Parent[r] = finalized /\ finalize_root(r) /\ Finalizable(r)
  BY <1>1, RootIsChild DEF TreeInv, FinalizableRoots
<1> HIDE DEF r
<1>3. PICK h, s, first, second \in forktrees :
           /\ IsHead(h, r)
           /\ epoch_start(h, s)
           /\ PreviousCheckpoint(s, first)
           /\ confirmed(first)
           /\ PreviousCheckpoint(first, second)
           /\ confirmed(second)
  BY <1>2 DEF Finalizable
<1>4. /\ finalized' = r
      /\ forktrees' = kept
      /\ children'[r] = children[r]
      /\ \A x \in kept : votes'[x] = votes[x]
  BY <1>2 DEF finalize_root, Survivors, TreeInv, TypeOK, Hashes
<1>5. kept \subseteq forktrees /\ forktrees \subseteq Blocks /\ finalized \notin forktrees
      /\ \A x \in kept : r \in Ancestors[x] /\ Height[r] < Height[x]
  BY <1>2, HeightsGrow DEF Survivors, TreeInv, TypeOK, ForkTreeConnected
<1>6. \A x \in forktrees : Height[x] \in Nat /\ Epoch(x) \in Nat
  BY <1>5, EpochIsNat
\* The checkpoints are on the path to the head.
<1>7. /\ r \in path(h)
      /\ s \in path(h) /\ Parent[s] \in path(h)
  BY <1>3, CheckpointStartsEpoch DEF IsHead, PreviousCheckpoint
<1>8. /\ Parent[s] \in forktrees /\ epoch_start(Parent[s], first)
      /\ Parent[first] \in forktrees /\ epoch_start(Parent[first], second)
  BY <1>3 DEF PreviousCheckpoint
<1>9. /\ first \in path(Parent[s]) /\ Parent[first] \in path(Parent[s])
      /\ Epoch(Parent[first]) # Epoch(first)
  BY <1>8, CheckpointStartsEpoch
<1>10. /\ first \in path(h) /\ Parent[first] \in path(h) /\ second \in path(h)
       /\ second \in path(Parent[first])
  <2>1. second \in path(Parent[first])
    BY <1>8 DEF epoch_start
  <2> QED
    BY <2>1, <1>7, <1>8, <1>9, PathIsTransitive DEF TreeInv
<1>11. \A b \in path(h) : b = r \/ b \in kept
  BY <1>2, <1>7, PathStartsAtRoot
<1>12. s \in kept /\ first \in kept
  BY <1>2, <1>5, <1>7, <1>8, <1>10, <1>11
\* Whatever has a survivor on its path survives.
<1>13. ASSUME NEW b \in forktrees, NEW a \in kept, a \in path(b) PROVE b \in kept
  BY <1>5, <1>13, AncestorsTransitive DEF path, Lineage, Survivors
<1>14. h \in kept /\ Parent[s] \in kept
  BY <1>7, <1>8, <1>9, <1>12, <1>13
<1>15. PICK c \in path(first) : Parent[c] = r /\ c \in kept
  BY <1>2, <1>12, ChildOnPath
<1>16. c \in path(h) /\ c \in forktrees /\ Height[c] = Height[r] + 1
  BY <1>3, <1>5, <1>10, <1>15, PathIsTransitive DEF TreeInv, ForkTreeConnected
<1>17. Epoch(c) = Epoch(r)
  BY <1>2, <1>4, <1>6, <1>16, NextHeight, LimitAssumption DEF EndsEpoch, Epoch
<1>18. confirmed(c)
  BY <1>3, <1>15, PrefixClosed DEF ConfirmedIsPrefixClosed
<1>19. c \in path(Parent[first]) /\ Parent[first] \in kept
  <2>1. c # first
    BY <1>9, <1>15, <1>17
  <2>2. c \in Ancestors[first] /\ first \in Blocks
    BY <2>1, <1>3, <1>5, <1>15 DEF path, Lineage
  <2>3. c \in History(Parent[first])
    BY <2>2, AncestorsOfChild
  <2>4. c \in path(Parent[first])
    BY <2>3, <1>5, <1>8, <1>16 DEF History, path
  <2> QED
    BY <2>4, <1>8, <1>13, <1>15
<1>20. \A b \in forktrees : path(b)' = path(b) \cap kept
  BY <1>4, <1>5 DEF path
<1>21. \A b \in kept : confirmed(b)' <=> confirmed(b)
  BY <1>4 DEF confirmed
<1>22. epoch_start(h, s)' /\ epoch_start(Parent[s], first)'
  BY <1>3, <1>8, <1>12, <1>20 DEF epoch_start, Epoch
<1>23. PICK g \in kept : confirmed(g) /\ epoch_start(Parent[first], g)'
  <2>1. CASE second = r
    <3>1. Epoch(c) = Epoch(Parent[first])
      BY <2>1, <1>8, <1>17 DEF epoch_start
    <3>2. \A a \in kept : Height[c] <= Height[a]
      BY <1>2, <1>5, <1>6, <1>16
    <3>3. epoch_start(Parent[first], c)'
      BY <3>1, <3>2, <1>8, <1>15, <1>19, <1>20 DEF epoch_start, Epoch
    <3> QED
      BY <3>3, <1>15, <1>18
  <2>2. CASE second # r
    <3>1. second \in kept
      BY <2>2, <1>10, <1>11
    <3>2. epoch_start(Parent[first], second)'
      BY <3>1, <1>8, <1>20 DEF epoch_start, Epoch
    <3> QED
      BY <3>1, <3>2, <1>3
  <2> QED
    BY <2>1, <2>2
<1>24. IsHead(h, c)'
  BY <1>2, <1>3, <1>14, <1>15, <1>16, HeadOfNextRoot
<1>25. PreviousCheckpoint(s, first)' /\ PreviousCheckpoint(first, g)'
  BY <1>4, <1>14, <1>19, <1>22, <1>23 DEF PreviousCheckpoint
<1>26. Finalizable(c)'
  <2>1. confirmed(c)' /\ confirmed(first)' /\ confirmed(g)'
    BY <1>3, <1>12, <1>15, <1>18, <1>21, <1>23
  <2>2. h \in forktrees' /\ s \in forktrees' /\ first \in forktrees' /\ g \in forktrees'
    BY <1>4, <1>12, <1>14, <1>23
  <2> QED
    BY <2>1, <2>2, <1>22, <1>24, <1>25 DEF Finalizable
<1>27. roots' = children[r]
  BY <1>4 DEF roots
<1>28. PICK j \in DOMAIN children[r] : children[r][j] = c
  <2>1. r \in Hashes
    BY <1>2, <1>5 DEF Hashes
  <2>2. c \in ToSet(children[r])
    BY <2>1, <1>15, <1>16 DEF TreeInv, ForkTreeConnected
  <2> QED
    BY <2>2 DEF ToSet
<1> QED
  BY <1>26, <1>27, <1>28 DEF FinalizableRoots

-----------------------------------------------------------------------------
(***************************************************************************)
(* Where the loop stops.  In the middle of it the finalized block may be   *)
(* any block, but then another round follows.                              *)
(***************************************************************************)
EpochInv ==
    \/ finalized = Genesis
    \/ EndsEpoch(finalized)
    \/ call = "finalize" /\ FinalizableRoots # {}

LEMMA EpochNext == TreeInv /\ VoteInv /\ EpochInv /\ [Next]_vars => EpochInv'
<1> SUFFICES ASSUME TreeInv, VoteInv, EpochInv, [Next]_vars PROVE EpochInv'
  OBVIOUS
<1> USE DEF treevars, callvars
<1>1. CASE TryFinalizeRoots
  <2>1. call' = "finalize"
    BY <1>1 DEF TryFinalizeRoots
  <2>2. CASE EndsEpoch(finalized')
    BY <2>2 DEF EpochInv, EndsEpoch
  <2>3. CASE ~EndsEpoch(finalized')
    BY <2>1, <2>3, <1>1, LoopGoesOn DEF EpochInv
  <2> QED
    BY <2>2, <2>3
<1>2. CASE MissingBlocks
  BY <1>2 DEF MissingBlocks, NothingToFinalize, EpochInv, EndsEpoch
<1>3. CASE finalized' = finalized /\ call # "finalize"
  BY <1>3 DEF EpochInv, EndsEpoch
<1>4. CASE UNCHANGED vars
  <2>1. UNCHANGED <<finalized, forktrees, children, votes, call>>
    BY <1>4 DEF vars
  <2>2. \A h, r : IsHead(h, r)' <=> IsHead(h, r)
    <3>1. \A a : IsTopChild(a)' <=> IsTopChild(a)
      BY <2>1 DEF IsTopChild
    <3> QED
      BY <2>1, <3>1 DEF IsHead, path, Lineage
  <2>3. \A b, c : epoch_start(b, c)' <=> epoch_start(b, c)
    BY <2>1 DEF epoch_start, path, Lineage, Epoch
  <2>4. \A b, c : PreviousCheckpoint(b, c)' <=> PreviousCheckpoint(b, c)
    BY <2>1, <2>3 DEF PreviousCheckpoint
  <2>5. \A b : confirmed(b)' <=> confirmed(b)
    BY <2>1 DEF confirmed
  <2>6. \A r : Finalizable(r)' <=> Finalizable(r)
    BY <2>1, <2>2, <2>3, <2>4, <2>5 DEF Finalizable
  <2>7. FinalizableRoots' = FinalizableRoots
    BY <2>1, <2>6, SMTT(60) DEF FinalizableRoots, roots
  <2> QED
    BY <2>1, <2>7 DEF EpochInv, EndsEpoch
<1>5. \/ TryFinalizeRoots \/ MissingBlocks \/ UNCHANGED vars
      \/ finalized' = finalized /\ call # "finalize"
  BY DEF Next, ReceiveBlock, IncludeStep, PollStep, poll_next, RejectBlock, TryInclude,
     IncludeDuplicate, RejectExecution, AddOrphan, CommitAndVote, ConsumeBlocks,
     NothingToConsume, RejectVote, StoreVote, InjestVote, ConsumeVotes, BeginFinalize,
     PollIncluded, PollFinalized, PollOther, Counting
<1> QED
  BY <1>1, <1>2, <1>3, <1>4, <1>5

LEMMA EpochInvariant == Spec => [](TreeInv /\ VoteInv /\ EpochInv)
<1>1. Init => EpochInv
  BY DEF Init, EpochInv
<1>2. (TreeInv /\ VoteInv) /\ EpochInv /\ [Next]_vars => EpochInv'
  BY EpochNext
<1> QED
  BY <1>1, <1>2, VoteInvariant, PTL DEF Spec

(* The loop of post_block_included over try_finalize_roots never stops in  *)
(* the middle of an epoch, so that the block it leaves finalized is the    *)
(* last one of its epoch and no volatile block shares an epoch with it.    *)
THEOREM FinalizationEndsEpochs == Spec => []FinalizedEndsEpoch
<1>1. TreeInv /\ VoteInv /\ EpochInv => FinalizedEndsEpoch
  BY DEF EpochInv, FinalizedEndsEpoch, EndsEpoch
<1> QED
  BY <1>1, EpochInvariant, PTL

-----------------------------------------------------------------------------
(***************************************************************************)
(* The votes of this validator.  It remembers one vote per epoch, the last *)
(* one, and that vote covers all it cast in the epoch; it forgets the vote *)
(* when a block of the epoch is finalized, when no block of the epoch can  *)
(* be voted for any more.                                                  *)
(***************************************************************************)
Votable(e) == finalized = Genesis \/ Epoch(finalized) < e

OwnVoteInv ==
    /\ \A u \in voted : Votable(Epoch(u.target)) =>
          \E o \in ownvotes : /\ o.epoch = Epoch(u.target)
                              /\ u.target \in Lineage(o.target)
    /\ NoConflictingVotesInEpoch

(* A volatile block is above the finalized one.                            *)
LEMMA VolatileIsHigher ==
    ASSUME TreeInv, NEW b \in forktrees
    PROVE  Height[finalized] < Height[b]
<1> DEFINE S == {n \in Nat : \E c \in path(b) : Height[c] = n}
<1>1. b \in path(b) /\ \A c \in forktrees : Height[c] \in Nat
  BY EpochIsNat DEF path, Lineage, TreeInv, TypeOK
<1>2. PICK n \in S : \A m \in S : n <= m
  <2>1. Height[b] \in S
    BY <1>1
  <2> QED
    BY <2>1, Smallest
<1>3. PICK c \in path(b) : Height[c] = n
  BY <1>2
<1>4. c \in forktrees /\ c \in Blocks /\ Parent[c] \in forktrees \cup {finalized}
      /\ Height[c] = Height[Parent[c]] + 1
  BY <1>3 DEF path, TreeInv, TypeOK, ForkTreeConnected
<1>5. Parent[c] \notin forktrees
  <2> SUFFICES ASSUME Parent[c] \in forktrees PROVE FALSE
    OBVIOUS
  <2>1. Parent[c] \in path(c)
    BY <1>4, AncestorsOfChild DEF path, Lineage
  <2>2. Parent[c] \in path(b)
    BY <2>1, <1>3, <1>4, PathIsTransitive DEF TreeInv
  <2>3. Height[Parent[c]] \in S
    BY <2>2, <1>1
  <2> QED
    BY <2>3, <1>1, <1>2, <1>3, <1>4
<1>6. Height[b] \in S
  BY <1>1
<1>7. n <= Height[b]
  BY <1>2, <1>6
<1>8. Height[finalized] \in Nat
  BY EpochIsNat DEF TreeInv, TypeOK
<1> QED
  BY <1>1, <1>3, <1>4, <1>5, <1>7, <1>8

LEMMA OwnVoteFinalize == TreeInv /\ OwnVoteInv /\ TryFinalizeRoots => OwnVoteInv'
<1> SUFFICES ASSUME TreeInv, OwnVoteInv, TryFinalizeRoots PROVE OwnVoteInv'
  OBVIOUS
<1>1. PICK i \in DOMAIN roots :
           /\ finalize_root(roots[i])
           /\ ownvotes' = {o \in ownvotes : o.epoch # Epoch(roots[i])}
  BY DEF TryFinalizeRoots
<1> DEFINE r == roots[i]
<1>2. r \in forktrees /\ finalized' = r /\ voted' = voted
  BY <1>1, RootIsChild DEF TreeInv, finalize_root, TryFinalizeRoots, historyvars
<1>3. ownvotes' = {o \in ownvotes : o.epoch # Epoch(r)}
  BY <1>1
<1> HIDE DEF r
<1>4. Epoch(finalized) <= Epoch(r)
  BY <1>2, VolatileIsHigher, LaterHeight, EpochIsNat, LimitAssumption
     DEF Epoch, TreeInv, TypeOK
<1>5. Epoch(r) \in Nat /\ Epoch(finalized) \in Nat /\ r # Genesis
      /\ \A u \in voted : Epoch(u.target) \in Nat
  BY <1>2, EpochIsNat, BlockAssumption DEF TreeInv, TypeOK, OwnVotes
<1>6. ASSUME NEW u \in voted, Votable(Epoch(u.target))'
      PROVE  \E o \in ownvotes' : /\ o.epoch = Epoch(u.target)
                                  /\ u.target \in Lineage(o.target)
  <2>1. Epoch(r) < Epoch(u.target)
    BY <1>2, <1>5, <1>6 DEF Votable, Epoch
  <2>2. Votable(Epoch(u.target))
    BY <2>1, <1>4, <1>5 DEF Votable
  <2> QED
    BY <2>1, <2>2, <1>3, <1>5 DEF OwnVoteInv
<1>7. NoConflictingVotesInEpoch'
  BY <1>2 DEF OwnVoteInv, NoConflictingVotesInEpoch, Conflict, Lineage, Epoch
<1> QED
  BY <1>2, <1>6, <1>7 DEF OwnVoteInv, Epoch, Lineage

LEMMA OwnVoteCommit ==
    TreeInv /\ EpochInv /\ OwnVoteInv /\ CommitAndVote => OwnVoteInv'
<1> SUFFICES ASSUME TreeInv, EpochInv, OwnVoteInv, CommitAndVote PROVE OwnVoteInv'
  OBVIOUS
<1> DEFINE b == Head(including)
<1>1. call = "commit" /\ finalized' = finalized
  BY DEF CommitAndVote, treevars
<1>2. CASE UNCHANGED <<ownvotes, voted>>
  BY <1>1, <1>2 DEF OwnVoteInv, NoConflictingVotesInEpoch, Votable, Conflict, Lineage, Epoch
<1>3. CASE MayVote(b) /\ commit_and_vote(b)
  <2>1. b \in forktrees /\ b \in Blocks
    BY <1>3 DEF MayVote, TreeInv, TypeOK
  <2> HIDE DEF b
  <2> DEFINE own == [epoch |-> Epoch(b), justification |-> finalized, target |-> b]
             vote == [target |-> b, justification |-> finalized]
  <2>2. /\ ownvotes' = {o \in ownvotes : o.epoch # Epoch(b)} \cup {own}
        /\ voted' = voted \cup {vote}
    BY <1>3 DEF commit_and_vote
  \* No block of the epoch of b is finalized.
  <2>3. Votable(Epoch(b))
    <3>1. finalized = Genesis \/ EndsEpoch(finalized)
      BY <1>1 DEF EpochInv
    <3>2. Height[finalized] < Height[b] /\ Height[b] \in Nat /\ Height[finalized] \in Nat
      BY <2>1, VolatileIsHigher, EpochIsNat DEF TreeInv, TypeOK
    <3> QED
      BY <3>1, <3>2, LaterHeight, LimitAssumption DEF Votable, EndsEpoch, Epoch
  \* So the remembered vote covers all votes of the epoch, and b descends from it.
  <2>4. ASSUME NEW u \in voted, Epoch(u.target) = Epoch(b)
        PROVE  u.target \in Lineage(b)
    <3>1. PICK o \in ownvotes : o.epoch = Epoch(b) /\ u.target \in Lineage(o.target)
      BY <2>3, <2>4 DEF OwnVoteInv
    <3>2. o.target \in Ancestors[b] /\ o.target \in Blocks
      BY <3>1, <1>3 DEF MayVote, is_descendant_of, path, Lineage, TreeInv, TypeOK
    <3> QED
      BY <3>1, <3>2, <2>1, AncestorsTransitive DEF Lineage
  <2>5. ASSUME NEW u \in voted', Votable(Epoch(u.target))'
        PROVE  \E o \in ownvotes' : /\ o.epoch = Epoch(u.target)
                                    /\ u.target \in Lineage(o.target)
    <3>1. own \in ownvotes' /\ own.epoch = Epoch(b) /\ own.target = b
      BY <2>2
    <3>2. CASE Epoch(u.target) = Epoch(b)
      <4>1. u.target \in Lineage(b)
        BY <3>2, <2>2, <2>4 DEF Lineage
      <4> HIDE DEF own
      <4> QED
        BY <4>1, <3>1, <3>2
    <3>3. CASE Epoch(u.target) # Epoch(b)
      <4>1. u \in voted
        BY <3>3, <2>2
      <4>2. Votable(Epoch(u.target))
        BY <1>1, <2>5 DEF Votable, Epoch
      <4>3. PICK o \in ownvotes : o.epoch = Epoch(u.target) /\ u.target \in Lineage(o.target)
        BY <4>1, <4>2 DEF OwnVoteInv
      <4>4. o \in ownvotes'
        BY <4>3, <3>3, <2>2
      <4> QED
        BY <4>3, <4>4
    <3> QED
      BY <3>2, <3>3
  <2>6. ASSUME NEW u \in voted', NEW w \in voted', Epoch(u.target) = Epoch(w.target)
        PROVE  ~Conflict(u.target, w.target)
    <3>1. CASE u \in voted /\ w \in voted
      BY <3>1, <2>6 DEF OwnVoteInv, NoConflictingVotesInEpoch
    <3>2. CASE u = vote
      BY <3>2, <2>2, <2>4, <2>6 DEF Conflict, Lineage
    <3>3. CASE w = vote
      BY <3>3, <2>2, <2>4, <2>6 DEF Conflict, Lineage
    <3> QED
      BY <3>1, <3>2, <3>3, <2>2
  <2>7. NoConflictingVotesInEpoch'
    BY <2>6 DEF NoConflictingVotesInEpoch, Conflict, Lineage, Epoch
  <2> QED
    BY <2>5, <2>7 DEF OwnVoteInv, Epoch, Lineage
<1> QED
  BY <1>2, <1>3 DEF CommitAndVote

LEMMA OwnVoteNext ==
    TreeInv /\ EpochInv /\ OwnVoteInv /\ [Next]_vars => OwnVoteInv'
<1> SUFFICES ASSUME TreeInv, EpochInv, OwnVoteInv, [Next]_vars PROVE OwnVoteInv'
  OBVIOUS
<1>1. CASE UNCHANGED <<finalized, ownvotes, voted>>
  BY <1>1, SMTT(60) DEF OwnVoteInv, NoConflictingVotesInEpoch, Votable, Conflict, Lineage, Epoch
<1>2. TryFinalizeRoots \/ CommitAndVote \/ UNCHANGED <<finalized, ownvotes, voted>>
  BY DEF Next, ReceiveBlock, IncludeStep, PollStep, poll_next, RejectBlock, TryInclude,
     IncludeDuplicate, RejectExecution, AddOrphan, ConsumeBlocks, NothingToConsume,
     RejectVote, StoreVote, InjestVote, ConsumeVotes, BeginFinalize, MissingBlocks,
     PollIncluded, PollFinalized, PollOther, vars, treevars, historyvars
<1> QED
  BY <1>1, <1>2, OwnVoteFinalize, OwnVoteCommit

(* This validator never votes for two conflicting blocks of one epoch: the *)
(* one vote per epoch that commit_and_vote compares with covers the others *)
(* of that epoch, and try_finalize_roots forgets it only when no block of  *)
(* the epoch can become the target of a vote any more.                     *)
THEOREM VotesOfEpochAgree == Spec => []NoConflictingVotesInEpoch
<1>1. Init => OwnVoteInv
  BY DEF Init, OwnVoteInv, NoConflictingVotesInEpoch
<1>2. (TreeInv /\ VoteInv /\ EpochInv) /\ OwnVoteInv /\ [Next]_vars => OwnVoteInv'
  BY OwnVoteNext
<1>3. OwnVoteInv => NoConflictingVotesInEpoch
  BY DEF OwnVoteInv
<1> QED
  BY <1>1, <1>2, <1>3, EpochInvariant, PTL DEF Spec
=============================================================================
