# Formal model of the rensa validator

TLA+ specifications of [rensa](../src), a proof-of-stake blockchain in Rust, with
the TLC configurations that check them and TLAPS proofs of what matters most.
Paths such as `chain.rs` are relative to `src/src/consensus`, all others to
`src/src`.  `PROJECT.json` maps each definition to the lines it stands for.

## 1. The system

A validator is one process.  A `select!` loop (`main.rs`) drives, one call at a
time, the consensus engine, the block producer, the network and the RPC service;
a background task hands blocks to their consumers (block store, mempool,
dbsync).

| Part | State | Operations | Hard because | Correct when | Here |
|---|---|---|---|---|---|
| engine (`chain.rs`) | last finalized block, fork trees, own votes, event queue, justification window | `include`, `poll_next` | blocks and votes arrive late, twice, in any order; `include` recurses into orphans; events are queued at both ends | votes are counted once, finality only moves forward with a majority, nothing comes back, listeners hear events in order | `Chain` |
| fork tree (`forktree.rs`) | votes and voters of each volatile block, child lists, raw parent pointers | `head`, `add_votes`, `epoch_start`, `path` | trees are cut and re-rooted while links stay raw pointers | trees stay connected, counts agree along a path | `Chain` |
| orphans (`orphans.rs`) | trees of blocks by missing parent, votes by missing target | `add_block`, `consume_blocks`, `missing_blocks` | nested orphans, one slot per parent, timers | no orphan is left behind when its parent arrives; what is missing is asked for | `Chain` |
| block consumers (`consumer.rs`) | unbounded channel | `consume` | runs behind the engine, swallows panics | every event reaches every consumer, in order | `Storage` |
| block store (`storage/blocks.rs`) | sled trees confirmed, finalized, outputs, hashes | `consume`, `latest`, `get_by_hash` | several writes per block, crashes, pruning | no gaps, kept blocks can be found | `Storage` |
| account state (`storage/state.rs`) | sled map of accounts | `apply` | a second database, written at another time than the blocks | it belongs to the finalized block | `Storage` (which block it belongs to) |
| producer and mempool (`producer.rs`) | pending votes, transactions, block | `produce`, `record_*`, `reuse_discarded`, `consume` | shared with the background task; the stream of produced blocks wakes nobody | what leaves the mempool is in a block; a produced block is gossiped | `Node`, `TxOrder` |
| schedule (`schedule.rs`) | slot clock, waker | stream of slots | the loop is woken before the slot is published; a genesis in the future | the loop catches up with the clock; slots begin with the genesis | `Node` |
| responder (`network/responder.rs`) | delayed replies | `request`, `cancel`, stream | a timeout races somebody else's reply, and wakes nobody | somebody replies | `Node` |
| network task (`network/mod.rs`) | queues of events and commands | gossip commands, `NetworkEvent`s | panics in a task of its own | commands of the loop can be published | `Node` |
| RPC (`rpc.rs`) | - | `serve_send_transactions`, queries | nonces of a batch against a confirmed account | each nonce is let through once | `Node` (the first) |
| state views (`vm/state.rs`, `forktree.rs`) | accounts written and deleted | set, remove, merge, overlay, cascade, hash | the same block is read through different stacks of diffs | all validators see the same accounts | `StateDiffs` |
| VM (`vm/machine.rs`, `unit.rs`, `output.rs`, `executed.rs`) | nonces, outputs, limits | `execute` | failures keep the nonce, outputs are checked against the old state | all validators compute the same output; no replay | `Machine`, `TxOrder` |
| currency (`vm/builtin/currency.rs`) | mints and coin accounts | create, set authority, mint, transfer, burn | saturation, same account twice, accounts collected when empty | tokens are made and spent by whom they should be | `Currency` |
| wasm and sha3 (`vm/builtin/`) | allocated bytecode | allocate, upload, install; digest | four accounts that must agree | - | `Builtins` |
| membership (`network/episub/view.rs`) | active and passive views | HyParView messages | concurrent joins, shuffles and disconnects | neighbours are other nodes that can be reached | `HyParView`, `Mesh` |
| broadcast (`network/episub/tree.rs`, `cache.rs`) | eager and lazy peers, received and observed messages | PlumTree messages | lost and duplicated messages; caches that expire; ticks that nothing brings about | a repetition is recognised as long as the message is remembered | `PlumTree`, `Mesh` |
| episub (`behaviour.rs`, `topic.rs`, `handler.rs`) | meshes, early peers, connections | libp2p callbacks, `poll` | handlers only queue; both ends notice a broken connection at different times | the tree follows the view | `Mesh` |
| wasm runtime, substreams and framing, dbsync, CLI, SDKs | - | - | I/O | - | not modelled |

Interaction: gossip delivers blocks to `Chain::include` and votes to the mempool;
the producer puts pending votes into its blocks, and only votes inside blocks are
counted; `Chain::poll_next` yields events, which the loop turns into gossip (votes,
requests for missing blocks), returns to the mempool (discarded blocks) or sends to
the background task (included, confirmed, finalized blocks).

## 2. Modules

| Module | Content |
|---|---|
| `Chain` | the engine of one validator with its fork tree and orphans |
| `ChainClaims` | statements of comments that the engine does not satisfy |
| `Finality` | abstract specification: what the engine promises its listeners |
| `ChainFinality` | `Chain` implements `Finality` (`INSTANCE ... WITH`) |
| `Storage` | main loop, consumers, block store and account state on top of `Finality`, with crash and restart |
| `StorageClaims` | statements of comments that storage does not satisfy |
| `StateDiffs` | accounts, diffs, the views on them, what the disk keeps |
| `Currency`, `Builtins` | the builtin contracts as operators from environment and call to outputs |
| `TxOrder` | how a block's transactions are chosen and how the choice is verified |
| `Machine` | execution of blocks by several validators that finalize at their own pace |
| `MachineClaims` | statements of comments that execution does not satisfy |
| `Node` | the main loop with the tasks around it |
| `NodeClaims` | a statement of a comment that the loop does not satisfy |
| `HyParView`, `PlumTree` | the two protocols of a node, as operators on its view and its tree |
| `Mesh` | several nodes with these protocols, and the connections between them |
| `Chain_proofs`, `ChainFinality_proofs`, `ChainEpochs_proofs`, `Storage_proofs`, `Node_proofs`, `Machine_proofs`, `Mesh_proofs` | theorems about these modules (`ChainEpochs_proofs`: about `Chain` too) |
| `SequenceFacts` | lemmas about sequences that the proofs share |
| `MCChain`, `MCChainForks`, `MCChainEpochs`, `MCChainSurround`, `MCStorage`, `MCMachine`, `MCNode`, `MCMesh` | instances for TLC |

How they fit together: `Machine` is what `Chain` takes as the verdict `Executable`;
`Chain` is what `Node` takes as the nondeterministic answer of `include`; `Finality` is
what `Chain` is shown to implement and `Storage` builds on; `Mesh` is the delivery
that `Node` and `Chain` take as given.

### Chain

`include` and `poll_next` run to completion on one thread, so they are the units
of interleaving: `call` names the function that is running, and `ReceiveBlock` and
`poll_next` need `call = "idle"`.  Inside a call there is one action per step of
the code: the early returns of `include` (`RejectBlock`, `RejectExecution`), the three
outcomes of `try_include` (`IncludeDuplicate`, `TryInclude`, `AddOrphan`), the vote
(`CommitAndVote`), the recursion into waiting orphans (`ConsumeBlocks`, where
`including` is the stack of blocks still to include), the counting of votes one by
one (`RejectVote`, `StoreVote`, `InjestVote`, then `ConsumeVotes` for the late ones),
each round of the finalization loop (`TryFinalizeRoots`) and the search for missing
blocks (`MissingBlocks`).  The event queue is a sequence whose head is popped next:
`push_front` of the `VecDeque` is an append here, and `append` of confirmations is
a prefix, because `poll_next` pops from the back.

Data is abstracted as follows.  A block is its hash; parent, height, proposer and
votes are constant functions of it.  Signatures and the execution by the VM are
verdicts (`Signed`, `Executable`, `valid`).  The trees are the set `forktrees` with
the constant parent links; the child lists keep their order, because `head()` and the
search for a finalizable root depend on it.  `Ancestors` and `StakeOf` are constants
constrained by `AncestorsAssumption` and `StakeAssumption` (closure of the parent
links, additivity of stake): TLAPS cannot do the inductions that would derive
them, and TLC evaluates the assumptions on every instance, where they are computed.
The majority is `ceil(total * 0.67)` in floating point; `FloatRounding` is 1 when the
product of the actual total lands above the exact value.  Timers of orphans are
expired or not by choice, always expired when `AlwaysOverdue`.

Not modelled of this part: block hashing, and the address stability of the raw parent pointers when the children of
a finalized root are moved to a new list (`chain.rs:689`); the model takes a parent
link to denote the parent.

### Finality and Storage

`Finality` has three actions: confirm a path of blocks (its announcements overtake
waiting ones), finalize a confirmed child of the finalized block (appended), announce.
`Storage` replaces the engine by it and adds what happens to an announcement: the
main loop sends it into the channel (`RunLoop`), the background task takes it
(`Receive`) and `BlockStore::consume` performs its writes one after the other.  Its three futures
are joined without an await point between them, so they run in the order in which
they are written.  A panic ends the task of one block only (`RefuseFinalized`): the
release profile unwinds and `join_all` ignores the result.

`Restart` is a crash followed by `main()`: everything in memory is gone, each database
is what was last flushed (`FlushState`, `FlushBlocks`: sled, external, modelled as recovering to a
moment of its past), and the engine starts from the last finalized block stored.
Pruning goes tree by tree, outputs, confirmed, finalized, and entry by entry
(`PruneEntry`), each followed by the removal of the block's hash (`PruneHash`); lookups and
crashes come in between.  A finalized block below the history may therefore be without
outputs for a while, or for good after a crash until the next pruning, and
`FinalizedBlocksAreFound` says so.  The tree of single transactions is left out.  The instance has
one chain of blocks: two confirmed blocks of one height are a listed hazard, not
modelled yet.  Every block is taken to change the state, so that it executes only on
the state it was built on.

### StateDiffs, Currency, Builtins, TxOrder and Machine

These are operators, and `Machine` adds the state: one chain of blocks and, for each
validator, its persistent state (`base`), how many blocks it has finalized, the diffs of
the blocks above, and whether it has refused a block.  `Produce` is
`BlockProducer::produce` on the producer's head with the transactions of one block,
`Include` is `Executed::new` and the comparison of the output's hash, `Finalize` is
`Finalized::apply`.  Forks are left to `Chain`.

Each conversion is modelled by what it does.  An account read back from disk has lost
`executable` (the serializer skips the field: `Persisted`); the hash of a diff covers
nonce, owner and data of the accounts written and not the deletes (`DiffHash`).
Overlayed and cascading views ignore deletes, the persistent state obeys them: the
operators differ as the code does.  Hashes are ranks, addresses are tuples of names
(a derived address is its contract followed by the seeds), the data of an account is
a record with the decoded fields, and whether parameters can be decoded or a
signature verifies is a field of the transaction.  Amounts saturate at `MaxAmount`,
which stands for `u64::MAX`.  `verify_transactions_order` is translated as it is
written: a group continues with the nonce *below*, and group heads are not compared
with one another.

The WASM contract compares the length of the contract's *address* with the number of
accounts it expects, so it refuses a deployment that has the accounts its documentation
asks for (`wasm.rs:176` against `30` and `139`).  That it fails on every input is proved (`NothingGetsDeployed`), as the
reason why the runtime (`vm/runtime.rs`) does not have to be modelled.

### Node

The loop is one task: `select!` polls its branches in random order and sleeps when none
is ready.  A branch is an action (`OnSlot`, `OnReplay`, `OnNetwork`, `OnProduced`,
`OnChainEvent`, `OnRpc`), sleeping is one (`Sleep`), and every other task wakes the loop
exactly when the code does.  The producer and the responder register no waker, so
nothing wakes the loop for them; the clock wakes it *before* it publishes the slot
(`WakeForSlot`, `PublishSlot`), and the first slot without waking it at all.  A node may start
some time before the genesis (`Leads`): the task of the clock then waits for
`now - genesis`, a negative number of milliseconds read as a `u64` (`GenesisWait`, modulo `U64`), and
publishes nothing before that wait is over.  `Consume` is the background task emptying the mempool
of included blocks, in parallel with the loop.  A panic of the loop is a value of `main`,
a panic of the network task makes `net` dead, and the loop exits with an error at the
next command it sends.  The engine answers `include` with any list of events `Chain`
could answer with.  `RoundLog2` is the rounding of the floating point `log2` done in integers:
rounding up from the half is comparing `2 n^2` with powers of four.

### HyParView, PlumTree and Mesh

`HyParView` maps a node's view (active and passive peers, queued actions) to the next
one, with the set of results where the code draws from a hash set; `PlumTree` does it for
eager and lazy peers, received and observed messages.  `Mesh` has one action per
callback and per kind of poll: the queue of HyParView is polled one action at a time
(`PollNodes`), and only then does the tree learn of a neighbour.  Connections deliver in
order, lose what is in flight when they break, and a message for a peer without a connection is
dropped (libp2p, external).  As in the code: a refused neighbour gets no answer,
shuffle replies are not filtered, `drain().next()` empties the passive view when it is
too large, and a peer is added at the end of a shuffle's walk without regard to the size of the view.
Links may therefore be asymmetric, and no property claims otherwise.

Neither protocol has a timer: `poll` looks at the clock and does what is due.  `now` is the
time in units of `2 * tick_frequency`, `Elapse` lets it pass at any moment, and `NodesTick` and
`TreeTick` are the part of a poll that runs when a tick is due, before anything queued is given out.
They may happen whenever they are due, and nothing has to bring them about: `poll`
registers no waker.  The caches are functions from ids to the first entry, with its time and
hop, and the best hop.  `publish_ihaves` advertises what is within `LazyWindow`, `repair_tree` looks at
IHAVEs from one unit up to `LazyWindow` old, and `prune_history` forgets what is
`HistoryWindow` old.  The instances have windows of 2 and 3 units, the ratio of the 4 and 6
slots of `network/mod.rs:139-140`.

Left out: more than one topic, unsubscribing, banning and the authorizer, the
addresses of peers, malformed messages, a second connection between the same two
nodes, and the substreams and framing of
`handler.rs` and `codec.rs` (of the handler only what a temporary connection carries).

## 3. Runs

Four keys: `v1` with stake 2, `v2`, `v3` with 1, `w` without enough stake; a majority needs 3 of 4.

| Run | Shows | Instance and why it is enough |
|---|---|---|
| `forks` | type, `VotesAreStakeOfVoters`, `ConfirmedIsPrefixClosed`, `NoReinclusion`, `FinalizedWithoutGaps`, `ConfirmedBeforeFinalized`, `ForkTreeConnected`, `NoReadyOrphans`, `FinalizedAdvances`, and that the engine implements `Finality` | two forks, epochs of one block, nine blocks in any order with any repetition: nested orphans, three siblings that wait for one parent, a block that does not execute, one of wrong height, one from a key without enough stake, an invalid vote; timers expire or not; finalizes two blocks and discards a fork.  At most two unread events when a block arrives (`QueueBound`), and one call may queue more |
| `epochs` | `FinalizedEndsEpoch`, `NoConflictingVotesInEpoch`, `IncludedIsAnnounced`, `MajorityBranchIsFinalized` | under `LiveSpec`: epochs of two blocks and a fork inside an epoch, whose vote travels in a block of the other branch; three blocks are finalized, two of them in one loop.  A block overtakes at most one height (`ReorderWindow`), at most one unread event when a block arrives (`QueueBound`) |
| `storage` | `RefusedOnlyIfLagging`, `RecentHistoryIsKept`, `ConfirmedAboveFinalized`, `FinalizedBlocksAreFound`, `FinalizedIsStored` | three blocks, history of one, one crash between any two writes, any flushes; blocks are confirmed up to two heights above the stored ones (`Lead`), so the history is pruned both harmlessly and harmfully |
| `machine` | type, `ReplicasAgree`, `NoReplay`, `NonceCounts`, `SupplyIsAccounted`, `RevokedIsFinal`, `OnlySignersPay` | a producer and a follower, two wallets, one token with 3 units and 14 transactions: transfers that empty an account, to oneself, unsigned; mints, burns, revocation of the authority, wrong nonces, an invalid signature, a deployment.  At most 3 transactions in at most 3 blocks of at most 2, finalized in any interleaving: enough for a deletion, its finalization at one validator only, and a block after it |
| `node` | type, `ReplayDelayExists`, `RpcAdmitsEachNonceOnce`, `TxsLeaveInBlocks` | two transactions of which a block takes one, so that part of the mempool stays, and an invalid one; gossiped, posted to RPC, produced here and by a peer; a vote of a stranger; one block of a peer, asked for and delivered; started before the genesis or after; queues of one or two entries, so that every pair of tasks meets |
| `node_live` | `SlotIsYielded`, `ReplayIsServed`, `ProducedIsGossiped` | one transaction and one block of a peer, under `LiveSpec` |
| `mesh` | `NeverItsOwnNeighbor`, `TreeFollowsView`, `NeighborsAreReachable`, `DeliveriesAreSpaced` | three nodes with active views of at most 2; a cold start with a shuffle, a broken connection and a tick; a full mesh with a message and a broken connection; a mesh where one node has lazy links only, with a message and 4 units of time, one more than the history window, which is when messages are forgotten and come again |
| `claim_surround_vote` | violated: the validator casts a vote that surrounds another one | an instance of its own |
| `claim_restart` | violated: after a crash the account state is not that of the block started from | storage |
| `claim_honest_blocks` | violated: an account deleted by a volatile block is read by one validator and not by another that has finalized the block, and the honest next block is refused | machine |
| `claim_supply` | violated: a transfer of a wallet to itself makes tokens, and the supply is not the total of all accounts | machine |
| `claim_order` | violated: nonces 1, 3, 2 of one payer, which the hash map does not yield as neighbours, pass the producer and fail the order check; `produce` panics | four transactions, nothing else |

The disagreements are listed under `findings` with the comment they contradict.
Others that were met while modelling, kept in the models and not given a run:
`with_head` follows the leaf with the most votes, not the heaviest subtree
(`chain.rs:207`, `225`); of two orphans with one missing parent the second is dropped
(`orphans.rs:130`, `178`); a missing block is requested only when some block is included
(`orphans.rs:202`, `chain.rs:759`); without RPC stored blocks cannot be looked up
(`storage/blocks.rs:26`, `105`); pruning by a confirmed block can remove the last finalized
one (`storage/blocks.rs:155`, `300`); the responder panics in a network of two validators or
fewer, where the range of its delay is empty (`ReplayDelayExists` is checked for three,
the smallest network that works, and proved for three or more).  `SupplyIsAccounted` is what
is left of the total of `claim_supply`: it holds as long as no transfer from an account to itself has succeeded.
`produce` replaces a block that is still pending (`producer.rs:172`), so `ProducedIsGossiped` speaks of
this block or the one that took its place.  A node that starts before the genesis waits for a negative time
read as a `u64` and has no slots (`schedule.rs:115-121`).  When an included block is discarded before the
background task gets to it, `reuse_discarded` puts its transactions back and `consume` then removes them
(`producer.rs:230` against `chain.rs:78`); `TxsLeaveInBlocks` permits it.  Whatever is gossiped before the node has learned its own address
panics the network task, which unwraps the error (`network/mod.rs:229-253`).  No call of the WASM contract passes its check of the
accounts (`wasm.rs:176` against `30` and `139`).  A message is forgotten after the history window and delivered
again when a peer that got it later still advertises it (`tree.rs:124` against `259-265`); `DeliveriesAreSpaced` says how
often that can be.  The ticks that look for missing messages are said to come "every configured tick Duration"
(`tree.rs:267`, `config.rs:70`), but `poll` registers no waker for them (`tree.rs:360`).

The chains of `storage` and `machine` end, a node may stop, and a mesh
comes to rest when its bounds are used up, so these runs do not check for deadlock; in
the runs of `Chain` a block can always arrive.

**Fairness.** `Spec` of `Chain`: a call that has begun ends (`WF` of its steps), and the
loop polls the engine again and again (`SF`: `select!` picks a ready branch at random,
while arriving blocks keep interrupting).  `LiveSpec` adds that every block is
delivered again and again, which gossip and replays provide on a connected
network; it is assumed in the `epochs` run only.  `Storage`: the loop and the
background task keep running (`WF`); nothing is assumed of flushes, crashes, or of new
blocks.  `Node`: tasks run (`WF` of the clock once it runs, of delays, of the consumer and of the network
task), and a branch of the loop that stays ready is taken (`WF`: `select!` starts at
a random branch); nothing is assumed of peers and clients, nor of the wait for a genesis in the
future, which takes longer than any run of the program.  A node that started too early is never woken for a
due replay, which is why `ReplayIsServed` has `wait > 0` as a way out.  `Mesh`: no fairness is assumed and no
liveness claimed.  Delivery over lazy links depends on ticks, `poll` of HyParView and of PlumTree registers no
waker for them, and duplicates that cross may leave a node with lazy links only.

## 4. Proofs

The theorems hold for all constants that satisfy the assumptions of the modules;
`SequenceFacts` has the lemmas about sequences that several of them use.

### The engine (`Chain_proofs`)

| Theorem | Property |
|---|---|
| `TypeCorrect` | `TypeOK` |
| `ForkTreeIsConnected` | `ForkTreeConnected` |
| `VotesAreCountedOnce` | `VotesAreStakeOfVoters` |
| `ConfirmationIsPrefixClosed` | `ConfirmedIsPrefixClosed` |
| `FinalizedAdvancesByMajority` | `FinalizedAdvances` |
| `BlocksNeverReturn` | `NoReinclusion` |
| `OrphansAreNotForgotten` | `NoReadyOrphans` |

The argument goes in layers.  `TypeOK` is inductive; it ties `call` to `including`,
which makes the current block well defined.  `TreeInv` adds `ForkTreeConnected`:
`TryInclude` attaches under a node of the tree, and `finalize_root` keeps exactly the
descendants of the new finalized block, which needs that ancestors of a block form a
chain.  On top of it the vote invariant: `path(target)` is closed under parents, so
adding a voter to a path keeps `voters` monotone towards the root, and `StakeOf` of a
grown set grows by the stake of the new voter; prefix closure of confirmation and the
majority behind each finalization follow from monotonicity of `StakeOf`.
`BlocksNeverReturn` is not inductive by itself: a block that is gone could come back if
its parent were still attached.  `LeftInv` strengthens it: whatever was announced,
queued or emitted, is in the tree or does not descend from the finalized block, and
whatever left does not descend from it; a new block of the tree always does, so it
cannot be one of those.  `OrphansAreNotForgotten` speaks of the time between calls;
`ReadyInv` says what holds within one: the only attached block that orphans may wait for is the
one being included, and only until `consume_blocks` has looked for them.

### Its events and what they implement (`ChainFinality_proofs`)

| Theorem | Property |
|---|---|
| `FinalizedInChainOrder` | `FinalizedWithoutGaps` |
| `ConfirmationComesFirst` | `ConfirmedBeforeFinalized` |
| `EngineImplementsFinality` | `ImplementsFinality` |

The order of events is an invariant over pairs "e is heard only after d"
(`Required`: a finalized block after its parent and after its own confirmation): for
each queued e, d has been heard or is ahead of it in the queue, and if e was heard so
was d.  `injest_vote` puts confirmations in front of everything, which is harmless
because no event of another kind has to precede them: only "finalized" events wait for something
(`OnlyFinalizedWaits`).  The refinement takes what is queued or emitted of kinds
"confirmed" and "finalized" as the announcements of `Finality` (`Announcements`, a
recursive function, with lemmas for `Append`, `\o` and `Tail`), and the confirmed blocks of
the tree as those it has secured.  Each action is then a step of `Finality` or leaves its
variables alone: a vote that confirms several blocks of a path at once announces them
parents first (`NewlyConfirmedIsChain`), and a root that is finalized was
confirmed because a majority is more than nothing (`MajorityIsPositive`).

### Epochs (`ChainEpochs_proofs`)

| Theorem | Property |
|---|---|
| `FinalizationEndsEpochs` | `FinalizedEndsEpoch` |
| `VotesOfEpochAgree` | `NoConflictingVotesInEpoch` |

`try_finalize_roots` finalizes block by block, so within it the finalized block is
anywhere in an epoch; `EpochInv` says that the loop then has another root to finalize.
That it does (`LoopGoesOn`) needs the votes: the condition looks at the head below
a root, and finalizing the root leaves a head with the same checkpoint below its child.
For the votes, `OwnVoteInv`: as long as a block of the epoch may still be voted for
(`Votable`), the vote that `ownvotes` keeps for it covers all that were cast.  The entry is
dropped with the finalization of a block of that epoch or a later one, and a vote is only
cast for epochs above the finalized block's.

### Block store (`Storage_proofs`)

| Theorem | Property |
|---|---|
| `StoreRefusesOnlyIfLagging` | `RefusedOnlyIfLagging` |
| `ConfirmedStayAboveFinalized` | `ConfirmedAboveFinalized` |
| `HistoryIsKept` | `RecentHistoryIsKept` |
| `StoredBlocksAreFound` | `FinalizedBlocksAreFound`, under three hypotheses |

The first three follow from `StorageInv`, with these parts: both the database and what
is on disk are `Sound`, so a crash at any point between two writes starts from a sound
one; what is queued on the way to the store is sorted, and its finalized blocks continue
the stored chain (`Linked`), unless pruning has removed the whole chain (`Lost`, which only
`lagged` explains); each step of a write knows what the steps before it have done
(`JobInv`); and a block that is or may be finalized has been recorded by hash before, is outgrown by
the history, or is on its way (`RecordInv`), which is what `prune_older_than` relies
on when it goes by the heights of recorded blocks.

`StoredBlocksAreFound` has the hypotheses without which the code does not find its blocks:
outputs are stored (`Detailed`; `get_by_height` finds no block that has none), no two
blocks have one height (`OneChain`; outputs are never replaced, so a second confirmed block of a
height would get those of the first), and `Lead <= HistoryLen + 1`: a block confirmed further
above an empty store would prune the hash and the outputs of one that is still to be
finalized.  The instance of the run meets them.  The hash and the outputs are written when a block is
confirmed, not when it is finalized, so `FoundInv` follows every block that is or may be
finalized: both are stored, or the block is the one at hand, or its confirmation waits (`Held`).
`prune_older_than` is the step that could break this.  Before anything is finalized in the store the
bound on confirmations keeps every height young (`LeadInv`); later such a block is above the latest
stored one, so if it is old that one is too: the finalized tree is about to be emptied (`Doomed`, between the
removals) and then the store is `Lost`, where nothing is finalized before a restart.  What pruning leaves in between, a
finalized block whose outputs or hash are gone already, is below the history of a block that the store has
(`Complete`), and a crash there leaves nothing worse.

### Main loop (`Node_proofs`)

| Theorem | Property |
|---|---|
| `MempoolLosesNothing` | `TxsLeaveInBlocks` |
| `RpcIsReplayFree` | `RpcAdmitsEachNonceOnce` |
| `NodeIsTyped` | `TypeOK` |
| `ThreeValidatorsCanReplay` | `ReplayDelayExists`, for `NetworkSize >= 3` |

`RpcAdmitsEachNonceOnce` is inductive as it stands: the loop only takes away from what an RPC
call let through.  That a call lets nothing else through rests on a
lemma about counting: of two valid transactions of one payer in a batch the later
one is counted higher, so their expected nonces differ.  `TxsLeaveInBlocks` is an
action property and needs no invariant; it goes through every action that touches the
mempool.

For the types, what `take_transactions` takes has to be taken from the mempool.  `Sorted` chooses a
listing of the positions in order, and the lemma behind it is that there is one
(`SortingExists`): in a strict total order on finitely many positions, the number of positions
below one is its place, and every place is taken (`FS_Injection`).  `TypeOK` is then inductive together with the types of what waits between the tasks
(`NodeInv`).  For the delay, the lower end of the range is below the upper one once
`RoundLog2(NetworkSize)` is at least two (`DelayRange`), which is where three validators come
in; that the logarithm exists, for every number of validators, is an induction over powers of two
(`RoundLog2Is`).

### State and execution (`Machine_proofs`)

| Theorem | Property |
|---|---|
| `MachineTypes` | `TypeOK` |
| `ValidatorsAgree` | `ReplicasAgree` |
| `NoncesCount` | `NonceCounts` |
| `TransactionsDoNotRepeat` | `NoReplay` |
| `RevocationIsFinal` | `RevokedIsFinal` |
| `SpendingIsSigned` | `OnlySignersPay` |

The first part is about the operators of `StateDiffs`: `MergeIsComposition` (apply of a
merged diff is apply of its parts in order), `CascadeIsOverlay` (the view through a path
is the repeated overlay of its blocks) and `FinalizationKeepsTheView` (finalizing the
oldest volatile block changes what is read at the head only where that block deleted an
account that no later block has written).  The last one is the reason for the exception in
`ReplicasAgree`, and the behaviour of `claim_honest_blocks` comes from exactly that
exception.  Both views choose the newest writer; that there is one follows from the
well-foundedness of the natural numbers (`WFMin`).

The second part says what a block can do.  Accounts are `PlainAccounts`: none is a
contract and none holds bytecode.  Every Currency and Sha3 call returns a list of outputs
(`Batches`) with plain data that creates and deletes only addresses without a private
key and empties an account in the output just before the one that deletes it; the WASM
contract returns an error on every input (`WasmFails`).  Processing such outputs gives a
plain difference (`PlainDiffs`) that leaves every wallet's nonce alone (`ProcessIsPlain`); a
transaction adds one to its payer's and takes effect only if its own nonce is the result
(`OneEffect`); a block adds to each wallet's nonce what it pays for in it, and what took
effect has the nonce of its place (`BlockEffect`).  The folds of `process_outputs` and `execute`
are recursive functions; `ProcessUnfolds` and `ExecuteUnfolds` show that they have the
values their definitions say, by `Induction` over a set of positions, which the provers
can use because it has no operator as a parameter.

The third part is the inductive invariant `MachineInv`.  It compares the validators with
`Canon`, the state that the genesis and the outputs in the chain make: each sees what
`Canon` says, or no account where that has an emptied one that is not a wallet
(`HeadsFollow`); the nonces of `Canon` count (`NoncesFollow`); what took effect has the nonce of its
place in the chain (`EffectsFollow`).  A producer on a head that lacks an account may
get another output than the others would; those then refuse the block.  Equal hashes mean equal
writes because no account is executable (`HashTellsData`: that field is not
hashed), so whoever accepts a block goes where `Canon` goes.  Two effects of one
transaction would need one nonce at two places, and the count of its payer's
transactions is larger at the later one.

The fourth part is about tokens.  An output of a contract is `Lawful`: Currency creates
only mints and coins, writes them only over their like, gives nothing to a revoked mint and
takes from a coin account only if the wallet it is derived from has signed; Sha3 writes
neither kind.  That is not enough: Sha3 must not overwrite a mint or a coin account
either.  It cannot as long as these belong to Currency and are no wallets
(`WritableOk`), which is the invariant `TokenInv`; it also says that nothing else has
a balance, so that a new account takes nothing from the one that was there.  `KeptAt` states what
may happen to one account, given the coins `SpentBy` the signers; it passes from an output
to a transaction, a block and the view of a validator (`HeadsKeepTokens`).  `ExecutionUnit::new`
has verified the signatures by then, and a finalization takes away only emptied accounts.

### Membership and broadcast (`Mesh_proofs`)

| Theorem | Property |
|---|---|
| `NoNodeIsItsOwnNeighbor` | `NeverItsOwnNeighbor` |
| `TreesFollowViews` | `TreeFollowsView` |
| `NeighborsStayReachable` | `NeighborsAreReachable` |
| `DeliveriesStaySpaced` | `DeliveriesAreSpaced` |

They follow from the invariant `MeshInv`.  Its largest part is what may be queued and on the wire:
that no node becomes its own neighbour needs that a `Neighbor` request names its sender,
and that a view is only told of other nodes.  `Keeps` relates view and tree through the queue between
them: the last queued event about a peer says what the view says, and if there is none
the tree agrees already.  `Reaches` does the same for connections and the dials that
are queued.  For deliveries: k of them, queued or in the past, took
k history windows by now if the message is forgotten, and k - 1 by the time of its last receipt if it is
remembered (`Paced`); `prune_history` is where the one turns into the other.
`WireInv` says who can be at the other end: a node that has its end of the
connection, and one of the two has a mesh (a node without one has nothing in view,
tree or queues, `Unborn`).  The lemmas go operator by operator (what each handler of `HyParView` and
`PlumTree` does to the invariant of one node), the steps of `Mesh` then put nodes together.

### Assumptions

`StakedAssumption` (the total stake is positive) is what `ValidatorSchedule::new` enforces
before an engine exists: the weighted index over the stakes is an error if they are all
zero (`schedule.rs:47`, `main.rs:145`).  Without it the majority would be zero and every
block would count as confirmed before it is announced as such.  `StorageAssumption` says of `Height`, `Parent` and
`Ancestors` what `Chain` says.  `DerivedAssumption` is the loop of `Pubkey::derive`, which goes on until it has an
address without a private key (`keys.rs:53-69`); without it a coin account could be a
wallet, whose nonce goes with it when it is deleted.  `GenesisAssumption`: the genesis maps addresses
to accounts, none of them a contract or an upload, as in `test/genesis.json`, and what it has of
mints and coins belongs to Currency, at addresses without a private key: with mints in the hands of
another contract nothing could be said of them.  `DistinctAssumption` is for `SpendingIsSigned` only: the seeds of
coin accounts are two public keys of 32 bytes each, so equal addresses of two wallets' coins
would be a collision of SHA3 (`keys.rs:53-69`).  Supplies, balances and amounts are at most
`MaxAmount`, being `u64`; above it saturating addition would take tokens away.  The addresses of
the builtin contracts are distinct (`MachineAssumption`).  Sets of blocks, peers and message ids, and the
transactions of a block, are finite, as they are in any run of the program.

### Only model-checked

- All liveness: fairness is out of the prover's reach.
- Of `Machine`: `SupplyIsAccounted`, a sum over the accounts of a mint.  It is not true for all
  constants: where an addition saturates, supply and balances lose different amounts, and after a
  transfer of an account to itself more can be burned than the supply, whose subtraction then
  stops at zero.  A genesis whose balances do not add up to its supplies breaks it at once.

## 5. Plan

1. Proofs: `SupplyIsAccounted` for amounts that do not saturate and a balanced genesis, by
   sums over finite sets.
2. Several engines exchanging blocks and votes: agreement on finalized blocks and the
   effect of the justification window.
3. Confirmed forks and a restarted engine without `ownvotes` in `Storage`.

### Not modelled

- `vm/runtime.rs`: the binding to the wasmer engine; no transaction can deploy a
  contract for it to run.  `vm/builtin/staking.rs` is a stub.
- `handler.rs`, `codec.rs`, `connection.rs`: substreams, framing and protobuf conversion.
  An error on an inbound substream leaves its state poisoned, and the next poll
  is an `unreachable!`; that is not examined.
- RPC queries, `dbsync`, command line, key and number formats: I/O and encodings
  without protocol state.
- Client and contract SDKs: outside the validator.
