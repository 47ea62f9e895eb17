------------------------------- MODULE Storage ------------------------------
(***************************************************************************)
(* How finality reaches the disk: the main loop (main.rs), the background  *)
(* task that hands blocks to their consumers (consumer.rs), the block      *)
(* store (storage/blocks.rs) and the account state (storage/state.rs),     *)
(* with crashes and restarts of the validator.                             *)
(*                                                                         *)
(* The engine appears as what Finality says of it.  It writes the account  *)
(* state itself, in the step that finalizes a block; the block is stored   *)
(* later, by the background task, in several writes.  Both are sled        *)
(* databases, each of which recovers to some moment of its own past.       *)
(*                                                                         *)
(* A tree of the block store maps heights to blocks; Genesis, which is     *)
(* never stored, stands for no entry.  Every block is taken to carry a     *)
(* transaction: it executes only on the state that it was produced for.    *)
(***************************************************************************)
EXTENDS Finality, FiniteSets

CONSTANTS
    Height,       \* [Blocks \cup {Genesis} -> Nat]
    HistoryLen,   \* BlockStore.history_len
    Detailed,     \* BlockStore.detailed: transaction outputs are stored
    Lead,         \* bound: how far blocks are confirmed above the stored ones
    MaxCrashes    \* bound: how often the validator crashes

Heights == {Height[b] : b \in Blocks}
None == Genesis

ASSUME StorageAssumption ==
    /\ Genesis \notin Blocks /\ IsFiniteSet(Blocks)
    /\ Height \in [Blocks \cup {Genesis} -> Nat] /\ Height[Genesis] = 0
    /\ \A b \in Blocks : Parent[b] \in Blocks \cup {Genesis}
                           /\ Height[b] = Height[Parent[b]] + 1
    /\ \A b \in Blocks :
          Ancestors[b] = {Parent[b]} \cup
             (IF Parent[b] \in Blocks THEN Ancestors[Parent[b]] ELSE {})
    /\ HistoryLen \in Nat /\ Detailed \in BOOLEAN
    /\ Lead \in Nat /\ MaxCrashes \in Nat

VARIABLES
    state,      \* PersistentState: the last block whose diff was applied
    db,         \* the trees of the BlockStore
    statedisk,  \* what a crash leaves of state
    dbdisk,     \* what a crash leaves of db
    channel,    \* BlockConsumers.sender: blocks on their way to the consumers
    job,        \* what the store does with the block it is consuming
    refused,    \* history: the finalized blocks that store_raw_block panicked on
    lagged,     \* history: a block was confirmed too far above the stored ones
    crashes     \* history: how often the validator has crashed

memory == <<channel, job>>
disks == <<statedisk, dbdisk>>
storagevars == <<finalityvars, state, db, disks, memory, refused, lagged, crashes>>

Idle == [step |-> "idle", event |-> Announcement("confirmed", None), pruned |-> None]
Block == job.event.block
IsFinalized == job.event.kind = "finalized"

(* BlockStore::latest for the finalized tree, Genesis when it is empty.    *)
latest(d) ==
    LET stored == {h \in Heights : d.finalized[h] # None} IN
    IF stored = {} THEN Genesis
    ELSE d.finalized[CHOOSE h \in stored : \A g \in stored : g <= h]

Init ==
    /\ FinalityInit
    /\ state = Genesis
    /\ db = [confirmed |-> [h \in Heights |-> None],
             finalized |-> [h \in Heights |-> None],
             outputs |-> [h \in Heights |-> None],
             hashes |-> {}]
    /\ statedisk = state
    /\ dbdisk = db
    /\ channel = <<>>
    /\ job = Idle
    /\ refused = {}
    /\ lagged = FALSE
    /\ crashes = 0

(* The engine includes and confirms blocks, which the VM executes on top of*)
(* the finalized state.                                                    *)
ConfirmBlock(b) ==
    /\ state = finalized
    /\ Height[b] <= Height[latest(db)] + Lead
    /\ Confirm(b)
    /\ lagged' = (lagged \/ Height[b] > Height[latest(db)] + HistoryLen)
    /\ UNCHANGED <<state, db, disks, memory, refused, crashes>>

(* Finalized::apply: the block becomes the finalized one and its state     *)
(* diff goes to the account database in one batch.                         *)
FinalizeBlock(r) ==
    /\ Finalize(r)
    /\ state' = r
    /\ UNCHANGED <<db, disks, memory, refused, lagged, crashes>>

(* The main loop takes an event of the engine to BlockConsumers::consume.  *)
RunLoop ==
    /\ Announce
    /\ channel' = Append(channel, Head(announcements))
    /\ UNCHANGED <<state, db, disks, job, refused, lagged, crashes>>

(* Mutant: the task waits for a second block before it takes one.          *)
Receive_mutant ==
    /\ job = Idle
    /\ Len(channel) > 1
    /\ job' = [Idle EXCEPT !.step = "raw", !.event = Head(channel)]
    /\ channel' = Tail(channel)
    /\ UNCHANGED <<finalityvars, state, db, disks, refused, lagged, crashes>>

(* The background task receives a block and calls the consumers.           *)
Receive ==
    /\ job = Idle
    /\ channel # <<>>
    /\ job' = [Idle EXCEPT !.step = "raw", !.event = Head(channel)]
    /\ channel' = Tail(channel)
    /\ UNCHANGED <<finalityvars, state, db, disks, refused, lagged, crashes>>

Continue(step) == job' = [job EXCEPT !.step = step]

Store(tree, h, b) == db' = [db EXCEPT ![tree][h] = b]

(* Where consume goes on: store_outputs, or at once to pruning.            *)
AfterRaw == IF Detailed THEN "details" ELSE "confirmed"

(* store_raw_block of a confirmed block.                                   *)
StoreConfirmed ==
    /\ job.step = "raw" /\ ~IsFinalized
    /\ Store("confirmed", Height[Block], Block)
    /\ Continue(AfterRaw)
    /\ UNCHANGED <<finalityvars, state, disks, channel, refused, lagged, crashes>>

(* Mutant: a finalized block stays among the confirmed ones.               *)
RemoveConfirmed_mutant == UNCHANGED db

RemoveConfirmed == Store("confirmed", Height[Block], None)

(* store_raw_block of the next finalized block: it leaves the confirmed    *)
(* tree ...                                                                *)
BeginStoreFinalized ==
    /\ job.step = "raw" /\ IsFinalized
    /\ Height[Block] = Height[latest(db)] + 1
    /\ RemoveConfirmed
    /\ Continue("insert")
    /\ UNCHANGED <<finalityvars, state, disks, channel, refused, lagged, crashes>>

(* ... and enters the finalized tree.                                      *)
EndStoreFinalized ==
    /\ job.step = "insert"
    /\ Store("finalized", Height[Block], Block)
    /\ Continue(AfterRaw)
    /\ UNCHANGED <<finalityvars, state, disks, channel, refused, lagged, crashes>>

(* store_raw_block panics on a gap.  The panic ends the task of this one   *)
(* block; join_all ignores it and the next block is received.              *)
RefuseFinalized ==
    /\ job.step = "raw" /\ IsFinalized
    /\ Height[Block] # Height[latest(db)] + 1
    /\ refused' = refused \cup {Block}
    /\ job' = Idle
    /\ UNCHANGED <<finalityvars, state, db, disks, channel, lagged, crashes>>

(* store_outputs: the outputs that a height has are never replaced.        *)
StoreOutputs ==
    /\ job.step = "details"
    /\ IF db.outputs[Height[Block]] = None
       THEN Store("outputs", Height[Block], Block)
       ELSE UNCHANGED db
    /\ Continue("outputs")
    /\ UNCHANGED <<finalityvars, state, disks, channel, refused, lagged, crashes>>

(* Mutant: the range of pruned heights includes its upper end.             *)
IsOld_mutant(h) == h <= Height[Block] - HistoryLen

IsOld(h) == h < Height[Block] - HistoryLen

(* prune_older_than: outputs first, if there are any, then the confirmed   *)
(* and then the finalized blocks.  In each tree the entries go one by one, *)
(* the lowest first; a block that was removed loses its hash next.         *)
OldHeights(tree) == {h \in Heights : IsOld(h) /\ db[tree][h] # None}
AfterPruning(tree) ==
    CASE tree = "outputs" -> "confirmed"
      [] tree = "confirmed" -> "finalized"
      [] tree = "finalized" -> "hash"

PruneEntry(tree) ==
    /\ job.step = tree /\ job.pruned = None
    /\ \E h \in OldHeights(tree) :
          /\ \A i \in OldHeights(tree) : h <= i
          /\ Store(tree, h, None)
          /\ job' = [job EXCEPT !.pruned = IF tree = "outputs" THEN None ELSE db[tree][h]]
    /\ UNCHANGED <<finalityvars, state, disks, channel, refused, lagged, crashes>>

PruneHash ==
    /\ job.pruned # None
    /\ db' = [db EXCEPT !.hashes = @ \ {job.pruned}]
    /\ job' = [job EXCEPT !.pruned = None]
    /\ UNCHANGED <<finalityvars, state, disks, channel, refused, lagged, crashes>>

PruneDone(tree) ==
    /\ job.step = tree /\ job.pruned = None /\ OldHeights(tree) = {}
    /\ Continue(AfterPruning(tree))
    /\ UNCHANGED <<finalityvars, state, db, disks, channel, refused, lagged, crashes>>

PruneOlderThan ==
    \/ PruneHash
    \/ \E tree \in {"outputs", "confirmed", "finalized"} : PruneEntry(tree) \/ PruneDone(tree)

(* Mutant: the hash is stored for finalized blocks only.                   *)
AddHash_mutant ==
    db' = [db EXCEPT !.hashes = IF IsFinalized THEN @ \cup {Block} ELSE @]

AddHash == db' = [db EXCEPT !.hashes = @ \cup {Block}]

(* The end of BlockStore::consume: the block can be looked up by its hash. *)
StoreHash ==
    /\ job.step = "hash"
    /\ AddHash
    /\ job' = Idle
    /\ UNCHANGED <<finalityvars, state, disks, channel, refused, lagged, crashes>>

(* sled writes what it holds in memory to the disk, in its own time.  Once *)
(* no crash can follow it does not matter what is on the disk.             *)
FlushState ==
    /\ crashes < MaxCrashes
    /\ statedisk # state
    /\ statedisk' = state
    /\ UNCHANGED <<finalityvars, state, db, dbdisk, memory, refused, lagged, crashes>>

FlushBlocks ==
    /\ crashes < MaxCrashes
    /\ dbdisk # db
    /\ dbdisk' = db
    /\ UNCHANGED <<finalityvars, state, db, statedisk, memory, refused, lagged, crashes>>

(* Mutant: the validator starts from the block that its state belongs to.  *)
StartBlock_mutant == statedisk

(* The block that main() starts the engine with.                           *)
StartBlock == latest(dbdisk)

(* The validator crashes and starts again from its databases.              *)
Restart ==
    /\ crashes < MaxCrashes
    /\ crashes' = crashes + 1
    /\ finalized' = StartBlock
    /\ secured' = {}
    /\ announcements' = <<>>
    /\ channel' = <<>>
    /\ job' = Idle
    /\ state' = statedisk
    /\ db' = dbdisk
    /\ UNCHANGED <<disks, refused, lagged>>

(* The loop of the background task.                                        *)
Consume == \/ Receive
           \/ StoreConfirmed \/ BeginStoreFinalized \/ EndStoreFinalized
           \/ RefuseFinalized \/ StoreOutputs \/ PruneOlderThan \/ StoreHash

Next == \/ \E b \in Blocks : ConfirmBlock(b) \/ FinalizeBlock(b)
        \/ RunLoop
        \/ Consume
        \/ FlushState \/ FlushBlocks
        \/ Restart

(* The main loop polls the engine again and again, and the background task *)
(* runs as long as the process lives.                                      *)
Fairness == WF_storagevars(RunLoop) /\ WF_storagevars(Consume)

Spec == Init /\ [][Next]_storagevars /\ Fairness
-----------------------------------------------------------------------------
(* A finalized block meets a gap in the store (store_raw_block) only if    *)
(* blocks were confirmed further above the stored ones than the history is *)
(* long; a crash opens no gap, because the validator starts again from the *)
(* last block stored.                                                      *)
RefusedOnlyIfLagging == refused # {} => lagged

(* The history of some block that the store has reached begins above the   *)
(* height.                                                                 *)
Outgrown(h) ==
    \E i \in Heights, c \in Blocks :
        /\ c \in db.hashes \cup {db.confirmed[i], db.finalized[i]}
        /\ h < Height[c] - HistoryLen

(* Of the finalized blocks no more is lost than the history length allows: *)
(* counted from the highest block the store knows of, the last ones are    *)
(* all there, and they are one chain (prune_older_than).                   *)
RecentHistoryIsKept ==
    \A b \in {latest(db)} \cup (IF latest(db) = Genesis THEN {}
                                ELSE Ancestors[latest(db)]) :
        b = Genesis \/ db.finalized[Height[b]] = b \/ Outgrown(Height[b])

(* A height that is finalized is not confirmed as well: get_by_height and  *)
(* get_block_commitment look into the confirmed tree first.                *)
ConfirmedAboveFinalized ==
    \A h \in Heights : db.confirmed[h] # None => h > Height[latest(db)]

(* get_by_hash finds the block b and the outputs that belong to it.        *)
Found(b) ==
    /\ b \in db.hashes
    /\ LET h == Height[b] IN
       /\ b = IF db.confirmed[h] # None THEN db.confirmed[h] ELSE db.finalized[h]
       /\ db.outputs[h] = b

(* Every finalized block of the history can be looked up, for a replay or  *)
(* a client, between any two writes of BlockStore::consume and after a     *)
(* crash between them.  A block below the history may have lost its        *)
(* outputs already, which are removed first.                               *)
FinalizedBlocksAreFound ==
    \A h \in Heights :
        db.finalized[h] # None => Found(db.finalized[h]) \/ Outgrown(h)

(* A finalized block is eventually stored, unless the validator crashes or *)
(* the store has lost track of the chain.                                  *)
FinalizedIsStored ==
    \A b \in Blocks, n \in 0..MaxCrashes :
        finalized = b /\ crashes = n
            ~> crashes > n \/ lagged \/ Height[latest(db)] >= Height[b]
=============================================================================
