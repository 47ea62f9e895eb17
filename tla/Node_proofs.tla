----------------------------- MODULE Node_proofs -----------------------------
(***************************************************************************)
(* Theorems about the run loop of a validator and the tasks around it, for *)
(* every set of transactions, votes, blocks and RPC calls.                 *)
(***************************************************************************)
EXTENDS Node, SequenceFacts

-----------------------------------------------------------------------------
(* Sorting.                                                                *)

(* A strict total order of 1..n has a sequence that lists it: the place of *)
(* a number is how many there are before it.                               *)
LEMMA SortingExists ==
    ASSUME NEW n \in Nat, NEW R,
           \A i \in 1..n : <<i, i>> \notin R,
           \A i, j \in 1..n : i # j => <<i, j>> \in R \/ <<j, i>> \in R,
           \A i, j, k \in 1..n : <<i, j>> \in R /\ <<j, k>> \in R => <<i, k>> \in R
    PROVE  \E s \in SetToSeqs(1..n) :
              \A i, j \in DOMAIN s : i < j => <<s[i], s[j]>> \in R
<1> DEFINE I == 1..n
           Below(i) == {j \in I : <<j, i>> \in R}
           size(i) == Cardinality(Below(i))
<1>1. IsFiniteSet(I) /\ Cardinality(I) = n
    BY FS_Interval
<1>2. \A i \in I : IsFiniteSet(Below(i)) /\ size(i) \in Nat
    <2> SUFFICES ASSUME NEW i \in I PROVE IsFiniteSet(Below(i)) /\ size(i) \in Nat
        OBVIOUS
    <2>1. Below(i) \in SUBSET I OBVIOUS
    <2> HIDE DEF Below, I
    <2>2. IsFiniteSet(Below(i)) BY <1>1, <2>1, FS_Subset
    <2> QED BY <2>2, FS_CardinalityType
<1>3. \A i \in I : size(i) + 1 \in I
    <2> SUFFICES ASSUME NEW i \in I PROVE size(i) + 1 \in I
        OBVIOUS
    <2>1. Below(i) \in SUBSET I /\ i \notin Below(i) OBVIOUS
    <2> HIDE DEF Below
    <2>2. size(i) <= n /\ size(i) # n
        BY <1>1, <2>1, FS_Subset
    <2> QED BY <1>2, <2>2
<1>4. \A i, j \in I : <<i, j>> \in R => size(i) < size(j)
    <2> SUFFICES ASSUME NEW i \in I, NEW j \in I, <<i, j>> \in R
                 PROVE  size(i) < size(j)
        OBVIOUS
    <2>1. Below(i) \in SUBSET Below(j) /\ i \in Below(j) /\ i \notin Below(i) OBVIOUS
    <2>2. IsFiniteSet(Below(j)) /\ size(i) \in Nat /\ size(j) \in Nat BY <1>2
    <2> HIDE DEF Below
    <2>3. size(i) <= size(j) /\ size(i) # size(j)
        BY <2>1, <2>2, FS_Subset
    <2> QED BY <2>2, <2>3
<1> DEFINE rank == [i \in I |-> size(i) + 1]
<1> HIDE DEF Below, I
<1>5. \A i, j \in I : rank[i] = rank[j] => i = j
    <2> SUFFICES ASSUME NEW i \in I, NEW j \in I, i # j PROVE rank[i] # rank[j]
        OBVIOUS
    <2>1. size(i) < size(j) \/ size(j) < size(i) BY <1>4 DEF I
    <2>2. size(i) \in Nat /\ size(j) \in Nat BY <1>2
    <2> QED BY <2>1, <2>2
<1>6. rank \in [I -> I] BY <1>3
<1>7. rank \in Injection(I, I)
    BY <1>5, <1>6 DEF Injection, IsInjective
<1>8. rank \in Surjection(I, I)
    BY <1>1, <1>7, FS_Injection
<1>9. \A k \in I : \E i \in I : rank[i] = k
    BY <1>8 DEF Surjection
<1> HIDE DEF rank
<1> DEFINE s == [k \in I |-> CHOOSE i \in I : rank[i] = k]
<1>10. s \in [I -> I] /\ \A k \in I : s[k] \in I /\ rank[s[k]] = k
    <2>1. \A k \in I : (CHOOSE i \in I : rank[i] = k) \in I
                     /\ rank[CHOOSE i \in I : rank[i] = k] = k
        BY <1>9
    <2> QED BY <2>1
<1> HIDE DEF s
<1>11. s \in SetToSeqs(I) /\ DOMAIN s = I
    <2>1. IsInjective(s) BY <1>10 DEF IsInjective
    <2> QED BY <1>1, <1>10, <2>1 DEF SetToSeqs, I
<1>12. ASSUME NEW i \in I, NEW j \in I, i < j PROVE <<s[i], s[j]>> \in R
    <2>0. i # j BY <1>12 DEF I
    <2>1. s[i] # s[j] BY <1>10, <2>0, Zenon
    <2>2. ASSUME <<s[j], s[i]>> \in R PROVE FALSE
        <3>1. size(s[j]) < size(s[i]) BY <1>4, <1>10, <2>2
        <3>2. size(s[j]) \in Nat /\ size(s[i]) \in Nat BY <1>2, <1>10
        <3>3. size(s[j]) + 1 = j /\ size(s[i]) + 1 = i BY <1>10 DEF rank
        <3> QED BY <3>1, <3>2, <3>3, <1>12
    <2> QED BY <1>10, <2>1, <2>2 DEF I
<1> QED BY <1>11, <1>12 DEF I

(* A mempool in the order in which the hash map yields it.                 *)
IsOrder(order, n) ==
    /\ n \in Nat /\ DOMAIN order = 1..n /\ Len(order) = n
    /\ \A i \in 1..n : order[i].nonce \in Nat /\ order[i].hash \in Nat

(* Every run of a payer has a first transaction: the one with the smallest *)
(* nonce and among those the one that the hash map yields first.           *)
LEMMA FirstIs ==
    ASSUME NEW order, NEW n, IsOrder(order, n), NEW i \in 1..n
    PROVE  FirstOf(order, i) \in 1..n
<1> DEFINE run == RunOf(order, i)
           nonces == {order[j].nonce : j \in run}
<1>1. i \in run /\ run \subseteq 1..n BY DEF RunOf, IsOrder
<1> HIDE DEF run
<1>2. PICK x \in nonces : \A y \in nonces : x <= y
    <2>1. nonces # {} /\ nonces \subseteq Nat BY <1>1 DEF IsOrder
    <2> QED BY <2>1, Smallest
<1> DEFINE least == {j \in run : order[j].nonce = x}
<1>3. PICK j \in least : \A k \in least : j <= k
    <2>1. \E k \in run : order[k].nonce = x BY <1>2
    <2>2. run \subseteq Nat BY <1>1
    <2>3. least # {} /\ least \subseteq Nat BY <2>1, <2>2
    <2> HIDE DEF least
    <2> QED BY <2>3, Smallest
<1>4. \A k \in run : SortsBefore(order, j, k)
    <2> SUFFICES ASSUME NEW k \in run PROVE SortsBefore(order, j, k)
        OBVIOUS
    <2>1. order[j].nonce = x /\ x <= order[k].nonce /\ order[k].nonce \in Nat /\ x \in Nat
        BY <1>1, <1>2, <1>3 DEF IsOrder
    <2>2. CASE order[k].nonce = x
        BY <1>3, <2>1, <2>2 DEF SortsBefore
    <2>3. CASE order[k].nonce # x
        BY <2>1, <2>3 DEF SortsBefore
    <2> QED BY <2>2, <2>3
<1>5. FirstOf(order, i) \in run
    BY <1>3, <1>4 DEF FirstOf, run
<1> QED BY <1>1, <1>5

(* What take_transactions sorts by is a total order, so that the mempool   *)
(* has a sorted listing and Sorted is one.                                 *)
LEMMA SortedIs ==
    ASSUME NEW order, NEW n, IsOrder(order, n)
    PROVE  /\ Sorted(order) \in SetToSeqs(1..n)
           /\ \A i, j \in DOMAIN Sorted(order) :
                 i < j => Precedes(order, Sorted(order)[i], Sorted(order)[j])
<1> DEFINE I == 1..n
           h(i) == order[FirstOf(order, i)].hash
           R == {p \in I \X I : Precedes(order, p[1], p[2])}
<1>1. \A i \in I : h(i) \in Nat /\ order[i].nonce \in Nat /\ i \in Nat
    <2>1. \A i \in I : FirstOf(order, i) \in I BY FirstIs
    <2> QED BY <2>1 DEF IsOrder
<1> HIDE DEF h
<1>2. \A i, j \in I : <<i, j>> \in R <=>
         i # j /\ (h(i) < h(j) \/ (h(i) = h(j) /\
            (order[i].nonce < order[j].nonce \/ (order[i].nonce = order[j].nonce /\ i <= j))))
    BY DEF Precedes, SortsBefore, h
<1> HIDE DEF R, I
<1>3. /\ \A i \in I : <<i, i>> \notin R
      /\ \A i, j \in I : i # j => <<i, j>> \in R \/ <<j, i>> \in R
    BY <1>1, <1>2
<1>4. ASSUME NEW i \in I, NEW j \in I, NEW k \in I, <<i, j>> \in R, <<j, k>> \in R
      PROVE  <<i, k>> \in R
    BY <1>1, <1>2, <1>4
<1>5. \E s \in SetToSeqs(I) : \A i, j \in DOMAIN s : i < j => <<s[i], s[j]>> \in R
    <2>1. n \in Nat BY DEF IsOrder
    <2>2. \A i, j, k \in I : <<i, j>> \in R /\ <<j, k>> \in R => <<i, k>> \in R BY <1>4
    <2> QED BY <1>3, <2>1, <2>2, SortingExists DEF I
<1>6. \A p : p \in R => Precedes(order, p[1], p[2])
    BY DEF R
<1>7. \E s \in SetToSeqs(I) :
         \A i, j \in DOMAIN s : i < j => Precedes(order, s[i], s[j])
    <2>1. PICK s \in SetToSeqs(I) : \A i, j \in DOMAIN s : i < j => <<s[i], s[j]>> \in R
        BY <1>5
    <2>2. ASSUME NEW i \in DOMAIN s, NEW j \in DOMAIN s, i < j
          PROVE  Precedes(order, s[i], s[j])
        <3>1. <<s[i], s[j]>> \in R BY <2>1, <2>2
        <3> QED BY <1>6, <3>1
    <2> QED BY <2>2
<1>8. DOMAIN order = I BY DEF I, IsOrder
<1> QED BY <1>7, <1>8 DEF Sorted, I

(* take_transactions takes transactions of the mempool, each of them once, *)
(* and as many as fit.                                                     *)
LEMMA TakenIs ==
    ASSUME NEW order, NEW n, IsOrder(order, n), NEW count \in Nat,
           \A i, j \in 1..n : order[i] = order[j] => i = j
    PROVE  LET taken == take_transactions(order, count) IN
           /\ \A k \in DOMAIN taken : taken[k] \in {order[i] : i \in 1..n}
           /\ \A k, l \in DOMAIN taken : taken[k] = taken[l] => k = l
           /\ DOMAIN taken = 1..(IF count < n THEN count ELSE n)
<1> DEFINE s == Sorted(order)
           m == IF count < n THEN count ELSE n
           taken == take_transactions(order, count)
<1>1. IsFiniteSet(1..n) /\ Cardinality(1..n) = n /\ s \in SetToSeqs(1..n)
    <2>1. n \in Nat BY DEF IsOrder
    <2> QED BY <2>1, SortedIs, FS_Interval
<1> HIDE DEF s
<1>2. s \in [1..n -> 1..n] /\ \A k, l \in 1..n : s[k] = s[l] => k = l
    BY <1>1 DEF SetToSeqs, IsInjective
<1>3. taken = [k \in 1..m |-> order[s[k]]]
    BY DEF take_transactions, s, IsOrder
<1> HIDE DEF taken
<1>4. 1..m \subseteq 1..n
    BY DEF IsOrder
<1> HIDE DEF m
<1>5. \A k, l \in 1..n : s[k] \in 1..n /\ (s[k] = s[l] => k = l)
    BY <1>2
<1>6. ASSUME NEW k \in 1..m PROVE taken[k] \in {order[i] : i \in 1..n}
    <2>1. taken[k] = order[s[k]] /\ s[k] \in 1..n BY <1>3, <1>4, <1>5
    <2> QED BY <2>1
<1>7. ASSUME NEW k \in 1..m, NEW l \in 1..m, taken[k] = taken[l] PROVE k = l
    <2>1. order[s[k]] = order[s[l]] BY <1>3, <1>7
    <2>2. s[k] \in 1..n /\ s[l] \in 1..n /\ k \in 1..n /\ l \in 1..n BY <1>4, <1>5
    <2>3. s[k] = s[l] BY <2>1, <2>2
    <2> QED BY <1>5, <2>2, <2>3
<1>8. DOMAIN taken = 1..m BY <1>3
<1> QED BY <1>6, <1>7, <1>8 DEF taken, m

-----------------------------------------------------------------------------
(* The mempool.                                                            *)

(* What takes transactions out of the mempool: producing, and the          *)
(* background consumer; recording only adds.                               *)
LEMMA RecordKeeps == ASSUME NEW ts, txs' = RecordTransactions(ts) PROVE txs \subseteq txs'
BY DEF RecordTransactions

LEMMA ProduceTakes ==
    ASSUME produce, NEW t \in txs \ txs'
    PROVE  t \in pending'.txs \/ Stopped'
<1>1. PICK order \in SetToSeqs(txs) :
        LET taken == take_transactions(order, MaxBlockTxs) IN
        /\ txs' = LeftAfter(taken)
        /\ \/ pending' = Block("me", {taken[i] : i \in DOMAIN taken}, votes)
           \/ main' = "panic: order"
    BY DEF produce
<1>. DEFINE taken == take_transactions(order, MaxBlockTxs)
<1>2. t \in {taken[i] : i \in DOMAIN taken}
    BY <1>1 DEF LeftAfter
<1>3. CASE pending' = Block("me", {taken[i] : i \in DOMAIN taken}, votes)
    BY <1>2, <1>3 DEF Block
<1>4. CASE main' = "panic: order"
    BY <1>4 DEF Stopped
<1> QED BY <1>1, <1>3, <1>4

(* A transaction leaves the mempool only in a block of this validator, or  *)
(* when the background consumer gets to an included block with it: no      *)
(* interleaving of loop and consumer loses one in another way.             *)
THEOREM MempoolLosesNothing == Spec => TxsLeaveInBlocks
<1>. DEFINE Leaves(t) ==
              \/ t \in pending'.txs \/ Stopped'
              \/ jobs # <<>> /\ t \in Head(jobs).txs /\ jobs' = Tail(jobs)
<1>1. ASSUME [Next]_vars, NEW t \in txs \ txs' PROVE Leaves(t)
    <2>0. txs' # txs BY <1>1
    <2>1. CASE OnSlot
        BY <1>1, <2>0, <2>1, ProduceTakes DEF OnSlot
    <2>2. ASSUME NEW e \in NetEvents, OnNetwork(e) PROVE Leaves(t)
        <3>1. txs' = txs \/ txs' = RecordTransactions({e.what})
            BY <2>2 DEF OnNetwork, mempool
        <3> QED BY <1>1, <2>0, <3>1, RecordKeeps
    <2>3. CASE OnChainEvent
        <3>1. txs' = txs \/ txs' = RecordTransactions(Head(events).block.txs)
            BY <2>3 DEF OnChainEvent, mempool
        <3> QED BY <1>1, <2>0, <3>1, RecordKeeps
    <2>4. CASE Consume
        BY <1>1, <2>4 DEF Consume
    <2>5. CASE Loop
        <3>1. ASSUME NEW b \in PeerBlocks, OnReplay(b) PROVE txs' = txs
            BY <3>1 DEF OnReplay, mempool
        <3>2. ASSUME OnProduced \/ Sleep PROVE txs' = txs
            BY <3>2 DEF OnProduced, Sleep, mempool
        <3>3. ASSUME NEW x \in Txs, OnRpc(x) PROVE txs' = txs
            BY <3>3 DEF OnRpc, mempool
        <3> QED BY <2>0, <2>1, <2>2, <2>3, <2>5, <3>1, <3>2, <3>3 DEF Loop
    <2>6. CASE Tasks
        <3>1. txs' = txs \/ Consume
            BY <2>6 DEF Tasks, WaitForGenesis, WakeForSlot, PublishSlot, Expire, Deliver,
                        LocalNodeKnown,
                        Publish, RpcCall, mempool
        <3> QED BY <2>0, <2>4, <3>1
    <2>7. CASE UNCHANGED vars
        BY <2>0, <2>7 DEF vars
    <2> QED BY <1>1, <2>5, <2>6, <2>7 DEF Next
<1>2. [Next]_vars => [\A t \in txs \ txs' : Leaves(t)]_vars
    BY <1>1
<1> QED BY <1>2, PTL DEF Spec, TxsLeaveInBlocks

-----------------------------------------------------------------------------
(* Types.                                                                  *)

(* The blocks of peers, and what this validator can produce.               *)
NodeBlocks ==
    {b \in PeerBlocks \cup [txs : SUBSET Txs, votes : SUBSET Votes, by : {"me", "none"}] :
        IsFiniteSet(b.txs)}
ChainEvents == [kind : {"included", "discarded", "gossip"}, block : NodeBlocks]

(* The types of the variables, with what sorting and listing need: a       *)
(* mempool, a fork tree and blocks that are finite.                        *)
MempoolInv ==
    /\ txs \subseteq {t \in Txs : t.valid} /\ IsFiniteSet(txs)
    /\ votes \subseteq {w \in Votes : w.validator \in Validators}
EngineInv ==
    /\ tree \subseteq NodeBlocks /\ IsFiniteSet(tree)
    /\ events \in Seq(ChainEvents)
LoopInv ==
    /\ main \in {"awake", "asleep", "exited", "panic: order", "panic: no delay"}
    /\ wait \in Nat
    /\ ticker \in {"sleeping", "publishing"} /\ fresh \in BOOLEAN
    /\ pending \in NodeBlocks
    /\ requests \in [PeerBlocks -> {"none", "waiting", "due"}]
    /\ jobs \in Seq(NodeBlocks)
    /\ netin \subseteq NetEvents /\ netout \subseteq {"produced", "other"}
    /\ net \in {"starting", "ready", "dead"}
NodeInv == MempoolInv /\ EngineInv /\ LoopInv

LEMMA JobsAre == ASSUME NodeInv PROVE jobs \in Seq(NodeBlocks)
BY Zenon DEF NodeInv, LoopInv

LEMMA BlockFacts ==
    ASSUME NEW b \in NodeBlocks
    PROVE  b.txs \subseteq Txs /\ b.votes \subseteq Votes /\ IsFiniteSet(b.txs)
BY NodeAssumption DEF NodeBlocks

LEMMA PeerBlocksAre == PeerBlocks \subseteq NodeBlocks
BY NodeAssumption DEF NodeBlocks

LEMMA NoBlockIs == NoBlock \in NodeBlocks
<1>1. IsFiniteSet({}) BY FS_EmptySet
<1> QED BY <1>1 DEF NoBlock, NodeBlocks

(* What is recorded is valid, and little enough to stay finite.            *)
LEMMA RecordTyped ==
    ASSUME MempoolInv, NEW ts \in SUBSET Txs, IsFiniteSet(ts)
    PROVE  /\ RecordTransactions(ts) \subseteq {t \in Txs : t.valid}
           /\ IsFiniteSet(RecordTransactions(ts))
<1>1. {t \in ts : t.valid} \in SUBSET ts OBVIOUS
<1>2. IsFiniteSet({t \in ts : t.valid}) BY <1>1, FS_Subset
<1>3. IsFiniteSet(txs \cup {t \in ts : t.valid}) BY <1>2, FS_Union DEF MempoolInv
<1> QED BY <1>3 DEF RecordTransactions, MempoolInv

LEMMA VotesTyped ==
    ASSUME MempoolInv, NEW vs \in SUBSET Votes
    PROVE  RecordVotes(vs) \subseteq {w \in Votes : w.validator \in Validators}
BY DEF RecordVotes, MempoolInv

(* A block that is produced has transactions of the mempool only.          *)
LEMMA ProduceTyped ==
    ASSUME NodeInv, produce
    PROVE  /\ MempoolInv'
           /\ pending' \in NodeBlocks
           /\ main' \in {main, "panic: order"}
<1>1. PICK order \in SetToSeqs(txs) :
        LET taken == take_transactions(order, MaxBlockTxs)
            block == Block("me", {taken[i] : i \in DOMAIN taken}, votes) IN
        /\ votes' = {}
        /\ txs' = LeftAfter(taken)
        /\ \/ pending' = block /\ main' = main
           \/ main' = "panic: order" /\ pending' = pending
    BY DEF produce
<1> DEFINE n == Cardinality(txs)
           taken == take_transactions(order, MaxBlockTxs)
           T == {taken[i] : i \in DOMAIN taken}
<1>2. n \in Nat BY FS_CardinalityType DEF NodeInv, MempoolInv
<1>3. order \in [1..n -> txs] /\ \A i, j \in 1..n : order[i] = order[j] => i = j
    BY <1>1, <1>2 DEF SetToSeqs, IsInjective
<1> HIDE DEF n
<1>4. IsOrder(order, n)
    <2>1. \A i \in 1..n : order[i] \in Txs BY <1>3 DEF NodeInv, MempoolInv
    <2>2. \A i \in 1..n : order[i].nonce \in Nat /\ order[i].hash \in Nat
        BY <2>1, NodeAssumption
    <2>3. order \in Seq(txs) /\ DOMAIN order = 1..n /\ Len(order) = n BY <1>2, <1>3
    <2> QED BY <1>2, <2>2, <2>3 DEF IsOrder
<1>5. \A k \in DOMAIN taken : taken[k] \in {order[i] : i \in 1..n}
    BY <1>3, <1>4, TakenIs, NodeAssumption
<1> HIDE DEF taken
<1>6. T \in SUBSET txs BY <1>3, <1>5
<1> HIDE DEF T
<1>7. IsFiniteSet(T) /\ IsFiniteSet(txs \ T)
    BY <1>6, FS_Subset, FS_Difference DEF NodeInv, MempoolInv
<1>8. txs' = txs \ T /\ votes' = {}
    BY <1>1 DEF LeftAfter, T, taken
<1>9. MempoolInv'
    BY <1>7, <1>8 DEF NodeInv, MempoolInv
<1>10. Block("me", T, votes) \in NodeBlocks
    BY <1>6, <1>7 DEF Block, NodeBlocks, NodeInv, MempoolInv
<1>11. \/ pending' = Block("me", T, votes) /\ main' = main
       \/ main' = "panic: order" /\ pending' = pending
    BY <1>1 DEF T, taken
<1> QED BY <1>9, <1>10, <1>11 DEF NodeInv, LoopInv

(* include() keeps the tree finite and queues events about its blocks.     *)
LEMMA IncludeTyped ==
    ASSUME EngineInv, NEW b \in NodeBlocks, include(b)
    PROVE  EngineInv'
<1>1. CASE UNCHANGED <<tree, events>> BY <1>1 DEF EngineInv
<1>2. ASSUME NEW discarded \in SUBSET (tree \ {b}), NEW s \in SetToSeqs(discarded),
             NEW more \in {<<>>, <<Event("gossip", NoBlock)>>},
             tree' = (tree \cup {b}) \ discarded,
             events' = events \o <<Event("included", b)>> \o more \o
                       [i \in DOMAIN s |-> Event("discarded", s[i])]
      PROVE  EngineInv'
    <2>1. IsFiniteSet(tree \cup {b}) BY FS_AddElement DEF EngineInv
    <2>2. IsFiniteSet(tree') BY <1>2, <2>1, FS_Difference
    <2>3. discarded \in SUBSET tree OBVIOUS
    <2>4. s \in Seq(tree) BY <2>3, ListingIsSeq DEF EngineInv
    <2> DEFINE q == [i \in DOMAIN s |-> Event("discarded", s[i])]
    <2>5. q \in Seq(ChainEvents)
        <3>1. DOMAIN s = 1..Len(s) /\ Len(s) \in Nat /\ \A i \in 1..Len(s) : s[i] \in NodeBlocks
            BY <2>4 DEF EngineInv
        <3>2. \A i \in 1..Len(s) : Event("discarded", s[i]) \in ChainEvents
            BY <3>1 DEF Event, ChainEvents
        <3> QED BY <3>1, <3>2
    <2> HIDE DEF q
    <2>6. Event("included", b) \in ChainEvents /\ Event("gossip", NoBlock) \in ChainEvents
        BY NoBlockIs DEF Event, ChainEvents
    <2>7. <<Event("included", b)>> \in Seq(ChainEvents) /\ more \in Seq(ChainEvents)
        <3>1. \A e \in ChainEvents : <<e>> \in Seq(ChainEvents) OBVIOUS
        <3>2. <<>> \in Seq(ChainEvents) OBVIOUS
        <3> QED BY <2>6, <3>1, <3>2, Zenon
    <2>8. events \o <<Event("included", b)>> \in Seq(ChainEvents) BY <2>7 DEF EngineInv
    <2> DEFINE f == events \o <<Event("included", b)>>
    <2> HIDE DEF f
    <2>9. f \o more \in Seq(ChainEvents) BY <2>7, <2>8 DEF f
    <2> DEFINE g == f \o more
    <2> HIDE DEF g
    <2>10. g \o q \in Seq(ChainEvents) BY <2>5, <2>9 DEF g
    <2>11. events' \in Seq(ChainEvents) BY <1>2, <2>10 DEF f, g, q
    <2>12. tree' \subseteq NodeBlocks BY <1>2 DEF EngineInv
    <2> QED BY <2>2, <2>11, <2>12 DEF EngineInv
<1> QED BY <1>1, <1>2 DEF include

LEMMA GossipTyped ==
    ASSUME LoopInv, NEW kind \in {"produced", "other"}, gossip(kind)
    PROVE  main' \in {main, "exited"} /\ netout' \subseteq {"produced", "other"}
BY DEF LoopInv, gossip

(* Every branch of the loop keeps the types.                               *)
LEMMA LoopTyped ==
    ASSUME NodeInv, Loop
    PROVE  NodeInv'
<1> USE DEF NodeInv
<1>1. CASE OnSlot
    <2>1. /\ UNCHANGED <<wait, ticker, requests, tree, events, jobs, netin, netout, net>>
          /\ fresh' = FALSE
        BY <1>1 DEF OnSlot
    <2>2. /\ MempoolInv' /\ pending' \in NodeBlocks
          /\ main' \in {main, "panic: order"}
        <3>1. CASE produce BY <3>1, ProduceTyped
        <3>2. CASE UNCHANGED <<main, txs, votes, pending>>
            BY <3>2 DEF MempoolInv, LoopInv
        <3> QED BY <1>1, <3>1, <3>2 DEF OnSlot
    <2> QED BY <2>1, <2>2 DEF EngineInv, LoopInv
<1>2. ASSUME NEW b \in PeerBlocks, OnReplay(b) PROVE NodeInv'
    <2>1. /\ requests' = [requests EXCEPT ![b] = "none"]
          /\ UNCHANGED <<wait, ticker, fresh, txs, votes, netin, net, pending, tree,
                         events, jobs>>
          /\ gossip("other") \/ UNCHANGED <<main, netout>>
        BY <1>2 DEF OnReplay, clock, mempool, network
    <2>2. main' \in {main, "exited"} /\ netout' \subseteq {"produced", "other"}
        BY <2>1, GossipTyped DEF LoopInv
    <2>3. requests' \in [PeerBlocks -> {"none", "waiting", "due"}]
        BY <2>1 DEF LoopInv
    <2> QED BY <2>1, <2>2, <2>3 DEF MempoolInv, EngineInv, LoopInv
<1>3. ASSUME NEW e \in NetEvents, OnNetwork(e) PROVE NodeInv'
    <2>1. /\ netin' = netin \ {e}
          /\ UNCHANGED <<wait, ticker, fresh, pending, jobs, netout, net>>
        BY <1>3 DEF OnNetwork, clock
    <2>2. CASE /\ e.kind = "block" /\ include(e.what)
               /\ requests' = [requests EXCEPT ![e.what] = "none"]
               /\ UNCHANGED <<main, txs, votes>>
        <3>1. e.what \in PeerBlocks BY <2>2 DEF NetEvents
        <3>2. EngineInv' BY <2>2, <3>1, PeerBlocksAre, IncludeTyped
        <3>3. requests' \in [PeerBlocks -> {"none", "waiting", "due"}]
            BY <2>2, <3>1 DEF LoopInv
        <3> QED BY <2>1, <2>2, <3>2, <3>3 DEF MempoolInv, LoopInv
    <2>3. CASE /\ e.kind = "vote" /\ votes' = RecordVotes({e.what})
               /\ UNCHANGED <<main, txs, requests, tree, events>>
        <3>1. {e.what} \in SUBSET Votes BY <2>3 DEF NetEvents
        <3>2. votes' \subseteq {w \in Votes : w.validator \in Validators}
            BY <2>3, <3>1, VotesTyped
        <3> QED BY <2>1, <2>3, <3>2 DEF MempoolInv, EngineInv, LoopInv
    <2>4. CASE /\ e.kind = "missing" /\ Request(e.what)
               /\ UNCHANGED <<txs, votes, tree, events>>
        <3>1. e.what \in PeerBlocks BY <2>4 DEF NetEvents
        <3>2. /\ main' \in {main, "panic: no delay"}
              /\ requests' \in [PeerBlocks -> {"none", "waiting", "due"}]
            BY <2>4, <3>1 DEF Request, LoopInv
        <3> QED BY <2>1, <2>4, <3>2 DEF MempoolInv, EngineInv, LoopInv
    <2>5. CASE /\ e.kind = "tx" /\ txs' = RecordTransactions({e.what})
               /\ UNCHANGED <<main, votes, requests, tree, events>>
        <3>1. {e.what} \in SUBSET Txs BY <2>5 DEF NetEvents
        <3>2. IsFiniteSet({e.what}) BY FS_Singleton
        <3>3. txs' \subseteq {t \in Txs : t.valid} /\ IsFiniteSet(txs')
            BY <2>5, <3>1, <3>2, RecordTyped
        <3> QED BY <2>1, <2>5, <3>3 DEF MempoolInv, EngineInv, LoopInv
    <2> QED BY <1>3, <2>2, <2>3, <2>4, <2>5 DEF OnNetwork, mempool
<1>4. CASE OnProduced
    <2>1. /\ UNCHANGED <<wait, ticker, fresh, txs, votes, netin, net, requests, jobs>>
          /\ pending' = NoBlock /\ include(pending) /\ gossip("produced")
        BY <1>4 DEF OnProduced, clock, mempool, network
    <2>2. EngineInv' BY <2>1, IncludeTyped DEF LoopInv
    <2>3. main' \in {main, "exited"} /\ netout' \subseteq {"produced", "other"}
        BY <2>1, GossipTyped
    <2> QED BY <2>1, <2>2, <2>3, NoBlockIs DEF MempoolInv, LoopInv
<1>5. CASE OnChainEvent
    <2>1. /\ events # <<>> /\ events' = Tail(events)
          /\ UNCHANGED <<wait, ticker, fresh, netin, net, pending, requests, tree>>
        BY <1>5 DEF OnChainEvent, clock, network
    <2>2. Head(events) \in ChainEvents /\ Tail(events) \in Seq(ChainEvents)
        BY <2>1 DEF EngineInv
    <2>3. Head(events).block \in NodeBlocks BY <2>2 DEF ChainEvents
    <2>4. EngineInv' BY <2>1, <2>2 DEF EngineInv
    <2>5. CASE gossip("other") /\ UNCHANGED <<txs, votes, jobs>>
        <3>1. main' \in {main, "exited"} /\ netout' \subseteq {"produced", "other"}
        BY <2>5, GossipTyped
        <3> QED BY <2>1, <2>4, <2>5, <3>1 DEF MempoolInv, LoopInv
    <2>6. CASE /\ votes' = RecordVotes(Head(events).block.votes)
               /\ txs' = RecordTransactions(Head(events).block.txs)
               /\ UNCHANGED <<main, netout, jobs>>
        <3>1. MempoolInv'
            BY <2>3, <2>6, BlockFacts, VotesTyped, RecordTyped DEF MempoolInv
        <3> QED BY <2>1, <2>4, <2>6, <3>1 DEF LoopInv
    <2>7. CASE /\ jobs' = Append(jobs, Head(events).block)
               /\ UNCHANGED <<main, netout, txs, votes>>
        <3>1. jobs' \in Seq(NodeBlocks) BY ONLY <2>3, <2>7, JobsAre, NodeInv
        <3> QED BY <2>1, <2>4, <2>7, <3>1 DEF MempoolInv, LoopInv
    <2> QED BY <1>5, <2>5, <2>6, <2>7 DEF OnChainEvent, mempool
<1>6. ASSUME NEW t \in Txs, OnRpc(t) PROVE NodeInv'
    <2>1. /\ UNCHANGED <<wait, ticker, fresh, txs, votes, netin, net, pending, requests,
                         tree, events, jobs>>
          /\ gossip("other")
        BY <1>6 DEF OnRpc, clock, mempool, network
    <2>2. main' \in {main, "exited"} /\ netout' \subseteq {"produced", "other"}
        BY <2>1, GossipTyped
    <2> QED BY <2>1, <2>2 DEF MempoolInv, EngineInv, LoopInv
<1>7. CASE Sleep
    BY <1>7 DEF Sleep, clock, mempool, network, MempoolInv, EngineInv, LoopInv
<1> QED BY <1>1, <1>2, <1>3, <1>4, <1>5, <1>6, <1>7 DEF Loop

(* So does a step of another task.                                         *)
LEMMA TasksTyped ==
    ASSUME NodeInv, Tasks
    PROVE  NodeInv'
<1> USE DEF NodeInv
<1>1. Woken \in {main, "awake"} BY DEF Woken
<1>2. CASE WakeForSlot
    BY <1>1, <1>2 DEF WakeForSlot, mempool, network, MempoolInv, EngineInv, LoopInv
<1>3. CASE PublishSlot
    BY <1>3 DEF PublishSlot, mempool, network, MempoolInv, EngineInv, LoopInv
<1>4. ASSUME NEW b \in PeerBlocks, Expire(b) PROVE NodeInv'
    BY <1>4 DEF Expire, clock, mempool, network, MempoolInv, EngineInv, LoopInv
<1>5. CASE Consume
    <2>1. /\ UNCHANGED <<main, wait, ticker, fresh, netin, net, pending, requests, tree,
                         events, netout>>
          /\ jobs' = Tail(jobs) /\ jobs # <<>>
          /\ txs' = txs \ Head(jobs).txs /\ votes' = votes \ Head(jobs).votes
        BY <1>5 DEF Consume, clock, network
    <2>2. IsFiniteSet(txs') BY <2>1, FS_Difference DEF MempoolInv
    <2>3. jobs' \in Seq(NodeBlocks) BY ONLY <2>1, JobsAre, NodeInv
    <2> QED BY <2>1, <2>2, <2>3 DEF MempoolInv, EngineInv, LoopInv
<1>6. ASSUME NEW e \in NetEvents, Deliver(e) PROVE NodeInv'
    BY <1>1, <1>6 DEF Deliver, clock, mempool, MempoolInv, EngineInv, LoopInv
<1>7. CASE LocalNodeKnown
    BY <1>7 DEF LocalNodeKnown, clock, mempool, MempoolInv, EngineInv, LoopInv
<1>8. CASE Publish
    BY <1>8 DEF Publish, clock, mempool, MempoolInv, EngineInv, LoopInv
<1>9. ASSUME NEW batch \in RpcBatches, NEW confirmed \in [Payers -> Nonces],
             RpcCall(batch, confirmed)
      PROVE  NodeInv'
    BY <1>1, <1>9 DEF RpcCall, clock, mempool, network, MempoolInv, EngineInv, LoopInv
<1>10. CASE WaitForGenesis
    <2>1. /\ UNCHANGED <<main, ticker, fresh, txs, votes, netin, net, pending, requests, tree,
                         events, jobs, netout>>
          /\ wait > 0 /\ wait' = wait - 1
        BY <1>10 DEF WaitForGenesis, mempool, network
    <2>2. wait \in Nat BY Zenon DEF LoopInv
    <2>3. wait' \in Nat BY ONLY <2>1, <2>2
    <2> QED BY <2>1, <2>3, Zenon DEF MempoolInv, EngineInv, LoopInv
<1> QED BY <1>2, <1>3, <1>4, <1>5, <1>6, <1>7, <1>8, <1>9, <1>10 DEF Tasks

(* The types of main.rs and its tasks: the mempool (producer.rs) has valid *)
(* transactions and votes of validators only, and neither sorting the      *)
(* mempool nor returning a discarded block to it brings in anything else.  *)
THEOREM NodeIsTyped == Spec => []TypeOK
<1>1. Init => NodeInv
    <2> SUFFICES ASSUME Init PROVE NodeInv
        OBVIOUS
    <2>1. IsFiniteSet({}) BY FS_EmptySet
    <2>2. MempoolInv BY <2>1 DEF Init, MempoolInv
    <2>3. EngineInv BY <2>1 DEF Init, EngineInv
    <2>4. requests \in [PeerBlocks -> {"none", "waiting", "due"}] BY DEF Init
    <2>5. jobs \in Seq(NodeBlocks)
        <3>1. jobs = <<>> BY Zenon DEF Init
        <3> QED BY <3>1
    <2>6. wait \in Nat
        <3>1. PICK lead \in Leads : wait = GenesisWait(lead) BY Zenon DEF Init
        <3> QED BY <3>1, NodeAssumption DEF GenesisWait
    <2>7. netout \subseteq {"produced", "other"} /\ netin \subseteq NetEvents BY DEF Init
    <2>8. LoopInv BY <2>4, <2>5, <2>6, <2>7, NoBlockIs, Zenon DEF Init, LoopInv
    <2> QED BY <2>2, <2>3, <2>8 DEF NodeInv
<1>2. NodeInv /\ [Next]_vars => NodeInv'
    <2>1. ASSUME NodeInv, UNCHANGED vars PROVE NodeInv'
        BY <2>1 DEF vars, NodeInv, MempoolInv, EngineInv, LoopInv
    <2> QED BY <2>1, LoopTyped, TasksTyped DEF Next
<1>3. NodeInv => TypeOK
    <2> SUFFICES ASSUME NodeInv PROVE TypeOK
        OBVIOUS
    <2>1. \A b \in tree : b.txs \subseteq Txs /\ b.votes \subseteq Votes
        BY BlockFacts DEF NodeInv, EngineInv
    <2>2. pending.txs \subseteq Txs /\ pending.votes \subseteq Votes
        BY BlockFacts DEF NodeInv, LoopInv
    <2>3. \A i \in DOMAIN jobs : jobs[i].txs \subseteq Txs
        <3>1. \A i \in DOMAIN jobs : jobs[i] \in NodeBlocks BY JobsAre
        <3> QED BY <3>1, BlockFacts
    <2>4. \A i \in DOMAIN events : events[i].kind \in {"included", "discarded", "gossip"}
        <3>1. \A i \in DOMAIN events : events[i] \in ChainEvents BY DEF NodeInv, EngineInv
        <3> QED BY <3>1 DEF ChainEvents
    <2> QED BY <2>1, <2>2, <2>3, <2>4 DEF NodeInv, MempoolInv, LoopInv, TypeOK
<1> QED BY <1>1, <1>2, <1>3, PTL DEF Spec

-----------------------------------------------------------------------------
(* The replay responder.                                                   *)

(* Powers of two double: a set with one more element has twice the         *)
(* subsets.                                                                *)
LEMMA PowerDoubles ==
    ASSUME NEW n \in Nat
    PROVE  2^n \in Nat /\ 2^(n + 1) = 2^n + 2^n
<1> DEFINE e == n + 1
           A == SUBSET (1..n)
           C == SUBSET (1..e)
           B == {X \in C : e \in X}
<1>1. /\ IsFiniteSet(1..n) /\ Cardinality(1..n) = n
      /\ IsFiniteSet(1..e) /\ Cardinality(1..e) = n + 1
    BY FS_Interval
<1>2. /\ IsFiniteSet(A) /\ Cardinality(A) = 2^n
      /\ IsFiniteSet(C) /\ Cardinality(C) = 2^(n + 1)
    BY <1>1, FS_SUBSET
<1>3. 1..e = (1..n) \cup {e} /\ e \notin 1..n OBVIOUS
<1> DEFINE I == 1..n
<1> HIDE DEF e, I
<1>4. C = A \cup B /\ A \cap B = {} BY <1>3 DEF I
<1>5. B \in SUBSET C OBVIOUS
<1>6. IsFiniteSet(B) BY <1>2, <1>5, FS_Subset
<1> DEFINE f == [X \in A |-> X \cup {e}]
<1>7. f \in Bijection(A, B)
    <2>1. f \in [A -> B] BY <1>3 DEF I
    <2>2. ASSUME NEW X \in A, NEW Y \in A, f[X] = f[Y] PROVE X = Y
        <3>1. X \cup {e} = Y \cup {e} /\ e \notin X /\ e \notin Y BY <1>3, <2>2 DEF I
        <3> QED BY <3>1
    <2>3. ASSUME NEW Y \in B PROVE \E X \in A : f[X] = Y
        <3>1. Y \ {e} \in A BY <1>3 DEF I
        <3>2. f[Y \ {e}] = Y BY <3>1
        <3> QED BY <3>1, <3>2
    <2> QED BY <2>1, <2>2, <2>3 DEF Bijection, Injection, Surjection, IsInjective
<1> HIDE DEF A, B, C, f
<1>8. Cardinality(B) = Cardinality(A)
    BY <1>2, <1>7, FS_Bijection DEF ExistsBijection
<1>9. Cardinality(A) \in Nat /\ Cardinality(B) \in Nat
    BY <1>2, <1>6, FS_CardinalityType
<1>10. Cardinality(A \cap B) = 0 BY <1>4, FS_EmptySet
<1>11. Cardinality(C) = Cardinality(A) + Cardinality(B) - Cardinality(A \cap B)
    BY <1>2, <1>4, <1>6, FS_Union
<1> QED BY <1>2, <1>8, <1>9, <1>10, <1>11

LEMMA Quadruples ==
    ASSUME NEW k \in Nat
    PROVE  2^(2 * k) \in Nat /\ 2^(2 * k + 2) = 4 * 2^(2 * k)
<1> DEFINE n == 2 * k
<1>1. n \in Nat /\ n + 1 \in Nat OBVIOUS
<1>2. (n + 1) + 1 = n + 2 OBVIOUS
<1> HIDE DEF n
<1>3. 2^n \in Nat /\ 2^(n + 1) = 2^n + 2^n BY <1>1, PowerDoubles
<1>4. 2^(n + 1) \in Nat /\ 2^((n + 1) + 1) = 2^(n + 1) + 2^(n + 1) BY <1>1, PowerDoubles
<1>5. 2^n \in Nat /\ 2^(n + 2) = 4 * 2^n BY <1>2, <1>3, <1>4
<1> QED BY <1>5 DEF n

(* Powers outgrow squares.                                                 *)
LEMMA SquareIsSmaller == \A n \in Nat : n * n < 2^(2 * n)
<1> DEFINE S == {n \in Nat : n * n < 2^(2 * n)}
<1>1. 0 \in S
    <2>1. 2^0 = 1 /\ 2 * 0 = 0 OBVIOUS
    <2> QED BY <2>1
<1>2. ASSUME NEW n \in Nat, n \in S PROVE n + 1 \in S
    <2> DEFINE x == 2^(2 * n)
    <2>1. x \in Nat /\ 2^(2 * n + 2) = 4 * x BY Quadruples
    <2>2. n * n < x BY <1>2
    <2>3. 2 * n + 2 = 2 * (n + 1) OBVIOUS
    <2> HIDE DEF x
    <2>4. (n + 1) * (n + 1) = n * n + 2 * n + 1 /\ n * n \in Nat OBVIOUS
    <2>5. 2 * n <= n * n + 1
        <3>1. CASE n = 0 BY <3>1
        <3>2. CASE n = 1 BY <3>2
        <3>3. CASE n >= 2
            <4>1. 2 * n <= n * n BY <3>3
            <4> QED BY <4>1
        <3> QED BY <3>1, <3>2, <3>3
    <2>6. (n + 1) * (n + 1) < 4 * x BY <2>1, <2>2, <2>4, <2>5
    <2>7. 2^(2 * (n + 1)) = 4 * x BY <2>1, <2>3
    <2> QED BY <2>6, <2>7
<1> HIDE DEF S
<1>3. \A n \in Nat : n \in S => n + 1 \in S BY <1>2
<1>4. Nat \subseteq S BY <1>1, <1>3, Induction
<1> QED BY <1>4 DEF S

(* The logarithm of the size of the network, rounded, is what its comment  *)
(* says.                                                                   *)
LEMMA RoundLog2Is ==
    ASSUME NEW n \in Nat \ {0}
    PROVE  /\ RoundLog2(n) \in 0..n
           /\ 2^(2 * RoundLog2(n)) <= 2 * n * n
           /\ 2 * n * n < 2^(2 * RoundLog2(n) + 2)
<1> DEFINE K == {k \in Nat : 2 * n * n < 2^(2 * k + 2)}
<1>1. n \in K
    <2> DEFINE x == 2^(2 * n)
    <2>1. n * n < x /\ x \in Nat /\ 2^(2 * n + 2) = 4 * x BY SquareIsSmaller, Quadruples
    <2> HIDE DEF x
    <2>2. 2 * n * n = 2 * (n * n) /\ n * n \in Nat OBVIOUS
    <2>3. 2 * n * n < 4 * x BY <2>1, <2>2
    <2> QED BY <2>1, <2>3
<1>2. PICK k \in K : \A j \in K : k <= j
    <2>1. K \subseteq Nat /\ K # {} BY <1>1
    <2> QED BY <2>1, Smallest
<1>3. k \in 0..n BY <1>1, <1>2
<1>4. 2^(2 * k) <= 2 * n * n
    <2>1. CASE k = 0
        <3>1. 2 * k = 0 /\ 2^0 = 1 BY <2>1
        <3>2. 2^(2 * k) = 1 BY <3>1, Zenon
        <3>3. 1 <= 2 * n * n OBVIOUS
        <3> QED BY <3>2, <3>3, Zenon
    <2>2. CASE k # 0
        <3>1. k - 1 \in Nat /\ k - 1 \notin K BY <1>2, <2>2
        <3>2. 2 * (k - 1) + 2 = 2 * k BY <1>3
        <3>3. 2^(2 * k) \in Nat BY Quadruples
        <3>4. ~(2 * n * n < 2^(2 * k)) BY <3>1, <3>2
        <3>5. 2 * n * n \in Nat OBVIOUS
        <3> QED BY <3>3, <3>4, <3>5
    <2> QED BY <2>1, <2>2
<1>5. \E j \in 0..n : 2^(2 * j) <= 2 * n * n /\ 2 * n * n < 2^(2 * j + 2)
    BY <1>2, <1>3, <1>4
<1> QED BY <1>5 DEF RoundLog2

(* In a network of three or more validators the range of the delays is not *)
(* empty.                                                                  *)
LEMMA DelayRange == ASSUME NetworkSize >= 3 PROVE low < high
<1> DEFINE n == NetworkSize
           k == RoundLog2(n)
<1>1. n \in Nat \ {0} BY NodeAssumption
<1>2. k \in 0..n /\ 2 * n * n < 2^(2 * k + 2) BY <1>1, RoundLog2Is
<1>3. k \in Nat BY <1>1, <1>2
<1> HIDE DEF k
<1>4. 2 * n * n >= 18
    <2>1. n * n >= 9 BY <1>1
    <2>2. 2 * n * n = 2 * (n * n) /\ n * n \in Nat BY <1>1
    <2> QED BY <2>1, <2>2
<1>5. ASSUME k = 0 PROVE FALSE
    <2>1. 2 * k + 2 = 2 /\ 2^2 = 4 BY <1>5
    <2>2. 2 * n * n < 4 BY <1>2, <2>1
    <2>3. 2 * n * n \in Nat BY <1>1
    <2> QED BY <1>4, <2>2, <2>3
<1>6. ASSUME k = 1 PROVE FALSE
    <2>1. 2 * k + 2 = 4 /\ 2^4 = 16 BY <1>6
    <2>2. 2 * n * n < 16 BY <1>2, <2>1
    <2>3. 2 * n * n \in Nat BY <1>1
    <2> QED BY <1>4, <2>2, <2>3
<1>7. 1 < k BY <1>3, <1>5, <1>6
<1> QED BY <1>7 DEF low, high, k

(* The responder (network/responder.rs) panics when the range that it      *)
(* draws a delay from is empty.  That happens in networks of one or two    *)
(* validators only: with three or more it never does.                      *)
THEOREM ThreeValidatorsCanReplay == NetworkSize >= 3 /\ Spec => []ReplayDelayExists
<1> SUFFICES ASSUME NetworkSize >= 3 PROVE Spec => []ReplayDelayExists
    OBVIOUS
<1>1. Init => ReplayDelayExists
    BY DEF Init, ReplayDelayExists
<1>2. ReplayDelayExists /\ [Next]_vars => ReplayDelayExists'
    <2> SUFFICES ASSUME ReplayDelayExists, [Next]_vars PROVE ReplayDelayExists'
        OBVIOUS
    <2>1. CASE OnSlot
        BY <2>1 DEF OnSlot, produce, ReplayDelayExists
    <2>2. ASSUME NEW e \in NetEvents, OnNetwork(e) PROVE ReplayDelayExists'
        BY <2>2, DelayRange DEF OnNetwork, Request, ReplayDelayExists
    <2>3. ASSUME NEW b \in PeerBlocks, OnReplay(b) PROVE ReplayDelayExists'
        BY <2>3 DEF OnReplay, gossip, ReplayDelayExists
    <2>4. CASE OnProduced
        BY <2>4 DEF OnProduced, gossip, ReplayDelayExists
    <2>5. CASE OnChainEvent
        BY <2>5 DEF OnChainEvent, gossip, ReplayDelayExists
    <2>6. ASSUME NEW t \in Txs, OnRpc(t) PROVE ReplayDelayExists'
        BY <2>6 DEF OnRpc, gossip, ReplayDelayExists
    <2>7. CASE Sleep
        BY <2>7 DEF Sleep, ReplayDelayExists
    <2>8. CASE Tasks
        <3>1. main' = main \/ main' = Woken
            BY <2>8 DEF Tasks, WaitForGenesis, WakeForSlot, PublishSlot, Expire, Consume,
                        Deliver, LocalNodeKnown, Publish, RpcCall
        <3> QED BY <3>1 DEF Woken, ReplayDelayExists
    <2>9. CASE UNCHANGED vars
        BY <2>9 DEF vars, ReplayDelayExists
    <2> QED BY <2>1, <2>2, <2>3, <2>4, <2>5, <2>6, <2>7, <2>8, <2>9 DEF Next, Loop
<1> QED BY <1>1, <1>2, PTL DEF Spec

-----------------------------------------------------------------------------
(* The RPC service.                                                        *)

(* The valid transactions of the payer of batch[k] among the first k: what *)
(* ExpectedNonce adds to the confirmed nonce.                              *)
Counted(batch, k) == {j \in 1..k : batch[j].valid /\ batch[j].payer = batch[k].payer}

LEMMA CountedIsFinite ==
    ASSUME NEW batch, NEW k \in Nat
    PROVE  IsFiniteSet(Counted(batch, k)) /\ Cardinality(Counted(batch, k)) \in Nat
<1>1. IsFiniteSet(1..k) BY FS_Interval
<1>2. Counted(batch, k) \in SUBSET (1..k) BY DEF Counted
<1>3. IsFiniteSet(Counted(batch, k)) BY <1>1, <1>2, FS_Subset
<1> QED BY <1>3, FS_CardinalityType

(* A later valid transaction of the same payer is counted higher.          *)
LEMMA CountGrows ==
    ASSUME NEW batch, NEW k \in Nat, NEW l \in Nat, 0 < k, k < l,
           batch[l].valid, batch[k].payer = batch[l].payer
    PROVE  Cardinality(Counted(batch, k)) < Cardinality(Counted(batch, l))
<1>1. Counted(batch, k) \in SUBSET Counted(batch, l) BY DEF Counted
<1>2. l \in Counted(batch, l) BY DEF Counted
<1>3. l \notin Counted(batch, k) BY DEF Counted
<1>4. /\ Cardinality(Counted(batch, k)) <= Cardinality(Counted(batch, l))
      /\ Cardinality(Counted(batch, k)) # Cardinality(Counted(batch, l))
    BY <1>1, <1>2, <1>3, CountedIsFinite, FS_Subset
<1> QED BY <1>4, CountedIsFinite

(* What one call lets through has no two transactions for one nonce.       *)
LEMMA ServedOnce ==
    ASSUME NEW batch \in RpcBatches, NEW confirmed \in [Payers -> Nonces],
           NEW s \in serve_send_transactions(batch, confirmed),
           NEW t \in serve_send_transactions(batch, confirmed),
           s.payer = t.payer, s.nonce = t.nonce
    PROVE  s = t
<1>1. PICK n \in Nat : DOMAIN batch = 1..n BY NodeAssumption
<1>2. PICK k \in 1..n : /\ s = batch[k] /\ batch[k].valid
                        /\ batch[k].nonce = ExpectedNonce(batch, k, confirmed)
    BY <1>1 DEF serve_send_transactions
<1>3. PICK l \in 1..n : /\ t = batch[l] /\ batch[l].valid
                        /\ batch[l].nonce = ExpectedNonce(batch, l, confirmed)
    BY <1>1 DEF serve_send_transactions
<1>4. confirmed[s.payer] \in Nat
    BY <1>1, <1>2, NodeAssumption DEF Payers
<1>5. confirmed[s.payer] + Cardinality(Counted(batch, k)) =
      confirmed[s.payer] + Cardinality(Counted(batch, l))
    BY <1>2, <1>3 DEF ExpectedNonce, Counted
<1>6. Cardinality(Counted(batch, k)) = Cardinality(Counted(batch, l))
    BY <1>4, <1>5, CountedIsFinite
<1>7. ~(k < l) /\ ~(l < k)
    BY <1>2, <1>3, <1>6, CountGrows, CountedIsFinite
<1> QED BY <1>2, <1>3, <1>7

(* Of the transactions of a call that wait for the loop, no two of a payer *)
(* have the same nonce: a batch cannot replay within itself, whatever is   *)
(* refused in between.                                                     *)
THEOREM RpcIsReplayFree == Spec => []RpcAdmitsEachNonceOnce
<1>1. Init => RpcAdmitsEachNonceOnce
    BY DEF Init, RpcAdmitsEachNonceOnce
<1>2. RpcAdmitsEachNonceOnce /\ [Next]_vars => RpcAdmitsEachNonceOnce'
    <2> SUFFICES ASSUME RpcAdmitsEachNonceOnce, [Next]_vars
                 PROVE  RpcAdmitsEachNonceOnce'
        OBVIOUS
    <2>1. ASSUME NEW batch \in RpcBatches, NEW confirmed \in [Payers -> Nonces],
                 RpcCall(batch, confirmed)
          PROVE  RpcAdmitsEachNonceOnce'
        BY <2>1, ServedOnce DEF RpcCall, RpcAdmitsEachNonceOnce
    <2>2. CASE rpc' \subseteq rpc
        BY <2>2 DEF RpcAdmitsEachNonceOnce
    <2>3. CASE Loop
        <3>1. rpc' \subseteq rpc
            BY <2>3 DEF Loop, OnSlot, OnReplay, OnNetwork, OnProduced, OnChainEvent, OnRpc,
                        Sleep
        <3> QED BY <2>2, <3>1
    <2>4. CASE Tasks
        <3>1. \/ rpc' = rpc
              \/ \E batch \in RpcBatches : \E confirmed \in [Payers -> Nonces] :
                    RpcCall(batch, confirmed)
            BY <2>4 DEF Tasks, WaitForGenesis, WakeForSlot, PublishSlot, Expire, Consume,
                        Deliver, LocalNodeKnown, Publish
        <3> QED BY <2>1, <2>2, <3>1
    <2>5. CASE UNCHANGED vars
        BY <2>2, <2>5 DEF vars
    <2> QED BY <2>3, <2>4, <2>5 DEF Next
<1> QED BY <1>1, <1>2, PTL DEF Spec
=============================================================================
