-------------------------------- MODULE Node --------------------------------
(***************************************************************************)
(* A validator's run loop, main.rs, and what it connects: the slot clock   *)
(* (consensus/schedule.rs), the block producer with its mempool            *)
(* (producer.rs), the replay responder (network/responder.rs), the task    *)
(* that feeds block consumers (consumer.rs), the network task              *)
(* (network/mod.rs) and the RPC service (rpc.rs).                          *)
(*                                                                         *)
(* The loop is one task.  select! polls its branches in random order and   *)
(* runs the first one that is ready; when none is, the task sleeps until   *)
(* something wakes it, and two of the branches, the producer and the       *)
(* responder, never do.  The clock, the consumers, the network and the RPC *)
(* service are tasks of their own and run in parallel with the loop.       *)
(*                                                                         *)
(* The consensus engine is module Chain; here it answers a call of         *)
(* include() with any events that Chain could answer with.  A block is a   *)
(* record of its transactions and votes and stands for its own hash.       *)
(***************************************************************************)
EXTENDS TxOrder

CONSTANTS
    Txs,             \* transactions: [payer, nonce, hash, valid]
    Votes,           \* votes: [validator]
    Validators,      \* genesis.validators
    PeerBlocks,      \* the blocks that other validators produce
    Stored,          \* the blocks in the block store
    MaxBlockTxs,     \* limits.max_block_transactions
    NetworkSize,     \* genesis.validators.len()
    Leads,           \* how long before the genesis a node may start, in slots
    U64,             \* how many values a u64 has
    RpcBatches,      \* the lists of transactions that clients post
    Nonces,          \* what the confirmed nonce of a payer can be
    InboxBound,      \* bound: events from the network that wait
    EventBound,      \* bound: events of the engine that wait
    JobBound,        \* bound: blocks that wait for the consumers
    TreeBound        \* bound: blocks in the fork tree

VARIABLES
    main,       \* the loop: awake, asleep, exited, or the panic that ended it
    wait,       \* how long the task of the clock still waits for the genesis
    ticker,     \* the task of the clock: sleeping, or about to publish a slot
    fresh,      \* the clock's slot is ahead of the last slot yielded
    txs, votes, \* the mempool, shared with the producer's consumer
    pending,    \* BlockProducer::pending
    requests,   \* SwarmResponder::requests: none, waiting or due
    tree,       \* the blocks that the engine holds
    events,     \* ChainEvents that wait
    jobs,       \* included blocks on their way to the consumers
    netin,      \* NetworkEvents that wait
    netout,     \* what kinds of NetworkCommands wait: produced blocks, others
    net,        \* the network task: starting, ready or dead
    rpc         \* transactions from RPC clients that wait

vars == <<main, wait, ticker, fresh, txs, votes, pending, requests, tree, events,
          jobs, netin, netout, net, rpc>>
clock == <<wait, ticker, fresh>>
mempool == <<txs, votes>>
network == <<netin, net>>

NoBlock == [txs |-> {}, votes |-> {}, by |-> "none"]
Block(by, t, v) == [txs |-> t, votes |-> v, by |-> by]

ASSUME NodeAssumption ==
    /\ \A t \in Txs : t.nonce \in Nat /\ t.hash \in Nat /\ t.valid \in BOOLEAN
    /\ \A s, t \in Txs : s.hash = t.hash => s = t
    /\ Stored \subseteq PeerBlocks
    /\ \A b \in PeerBlocks : b.txs \subseteq Txs /\ b.votes \subseteq Votes /\ b.by = "peer"
    /\ \A b \in PeerBlocks : IsFiniteSet(b.txs)
    /\ \A batch \in RpcBatches : Len(batch) \in Nat /\ DOMAIN batch = 1..Len(batch)
    /\ \A batch \in RpcBatches : \A k \in DOMAIN batch : \E t \in Txs : batch[k].payer = t.payer
    /\ Nonces \subseteq Nat
    /\ MaxBlockTxs \in Nat /\ NetworkSize \in Nat \ {0}
    /\ U64 \in Nat \ {0} /\ \A t \in Leads : t \in Nat /\ 2 * t <= U64

-----------------------------------------------------------------------------
(* SwarmResponder: delays are drawn from [low, high), in slots.            *)

RoundLog2_mutant(n) == CHOOSE k \in 0..n : 2^k <= n /\ n < 2^(k+1)

(* f64::log2().round(): the k with 2^(k - 1/2) <= n < 2^(k + 1/2).         *)
RoundLog2(n) ==
    CHOOSE k \in 0..n : 2^(2*k) <= 2 * n * n /\ 2 * n * n < 2^(2*k + 2)

low == 1
high == RoundLog2(NetworkSize)

(* request(): Uniform::new panics on an empty range.  A request that is    *)
(* pending already keeps its delay.                                        *)
Request(b) ==
    \/ requests[b] # "none" /\ UNCHANGED <<requests, main>>
    \/ /\ requests[b] = "none" /\ low < high
       /\ requests' = [requests EXCEPT ![b] = "waiting"]
       /\ UNCHANGED main
    \/ /\ requests[b] = "none" /\ ~(low < high)
       /\ main' = "panic: no delay"
       /\ UNCHANGED requests

-----------------------------------------------------------------------------
(* The mempool.                                                            *)

RecordVotes_mutant(vs) == votes \cup vs

(* add_vote.                                                               *)
RecordVotes(vs) == votes \cup {v \in vs : v.validator \in Validators}

(* record_transaction: verify_limits and verify_signatures, `valid' here.  *)
RecordTransactions(ts) == txs \cup {t \in ts : t.valid}

(* The transactions that are left after some were taken for a block.       *)
LeftAfter_mutant(taken) == {}
LeftAfter(taken) == txs \ {taken[i] : i \in DOMAIN taken}

(* produce: the block becomes pending in place of one that still is.  The  *)
(* transactions are executed on the head first, which is refused if their  *)
(* order is.                                                               *)
produce ==
    \E order \in SetToSeqs(txs) :
        LET taken == take_transactions(order, MaxBlockTxs)
            block == Block("me", {taken[i] : i \in DOMAIN taken}, votes) IN
        /\ votes' = {}
        /\ txs' = LeftAfter(taken)
        /\ IF verify_transactions_order(taken)
           THEN pending' = block /\ UNCHANGED main
           ELSE main' = "panic: order" /\ UNCHANGED pending

-----------------------------------------------------------------------------
(* Calls of the loop to other components.                                  *)

(* Chain::include.  A block that is accepted may finalize others, and the  *)
(* branches that lose are discarded.  The engine may also vote or ask for  *)
(* a block that it misses, both of which are events of kind "gossip".      *)
Event(kind, block) == [kind |-> kind, block |-> block]

include(b) ==
    \/ UNCHANGED <<tree, events>>
    \/ \E discarded \in SUBSET (tree \ {b}) :
          \E s \in SetToSeqs(discarded) :
          \E more \in {<<>>, <<Event("gossip", NoBlock)>>} :
             /\ tree' = (tree \cup {b}) \ discarded
             /\ events' = events \o <<Event("included", b)>> \o more \o
                          [i \in DOMAIN s |-> Event("discarded", s[i])]
             /\ Len(events') <= EventBound /\ Cardinality(tree') <= TreeBound

(* Network::gossip_*: the command is queued for the network task, and the  *)
(* loop returns an error if that task is gone.                             *)
gossip(kind) ==
    IF net = "dead" THEN main' = "exited" /\ UNCHANGED netout
    ELSE netout' = netout \cup {kind} /\ UNCHANGED main

-----------------------------------------------------------------------------
(* The branches of the loop.                                               *)

(* A new slot, of this validator or of another one.                        *)
OnSlot ==
    /\ main = "awake" /\ fresh
    /\ fresh' = FALSE
    /\ \/ produce
       \/ UNCHANGED <<main, txs, votes, pending>>
    /\ UNCHANGED <<wait, ticker, requests, tree, events, jobs, netin, netout, net, rpc>>

(* A replay whose delay is over.                                           *)
OnReplay(b) ==
    /\ main = "awake" /\ requests[b] = "due"
    /\ requests' = [requests EXCEPT ![b] = "none"]
    /\ IF b \in tree \cup Stored THEN gossip("other") ELSE UNCHANGED <<main, netout>>
    /\ UNCHANGED <<clock, mempool, network, pending, tree, events, jobs, rpc>>

OnNetwork(e) ==
    /\ main = "awake" /\ e \in netin
    /\ netin' = netin \ {e}
    /\ \/ /\ e.kind = "block"
          /\ requests' = [requests EXCEPT ![e.what] = "none"]
          /\ include(e.what)
          /\ UNCHANGED <<main, mempool>>
       \/ /\ e.kind = "vote"
          /\ votes' = RecordVotes({e.what})
          /\ UNCHANGED <<main, txs, requests, tree, events>>
       \/ /\ e.kind = "missing"
          /\ Request(e.what)
          /\ UNCHANGED <<mempool, tree, events>>
       \/ /\ e.kind = "tx"
          /\ txs' = RecordTransactions({e.what})
          /\ UNCHANGED <<main, votes, requests, tree, events>>
    /\ UNCHANGED <<clock, pending, jobs, netout, net, rpc>>

OnProduced_mutant ==
    /\ main = "awake" /\ pending # NoBlock
    /\ pending' = NoBlock
    /\ include(pending)
    /\ UNCHANGED <<main, clock, mempool, network, requests, jobs, netout, rpc>>

(* The producer's own block.                                               *)
OnProduced ==
    /\ main = "awake" /\ pending # NoBlock
    /\ pending' = NoBlock
    /\ include(pending)
    /\ gossip("produced")
    /\ UNCHANGED <<clock, mempool, network, requests, jobs, rpc>>

(* An event of the engine.  Votes and requests for blocks are gossiped;    *)
(* the votes and transactions of a discarded block go back to the mempool. *)
OnChainEvent ==
    /\ main = "awake" /\ events # <<>>
    /\ events' = Tail(events)
    /\ LET e == Head(events) IN
       \/ /\ e.kind = "gossip"
          /\ gossip("other") /\ UNCHANGED <<mempool, jobs>>
       \/ /\ e.kind = "discarded"
          /\ votes' = RecordVotes(e.block.votes)
          /\ txs' = RecordTransactions(e.block.txs)
          /\ UNCHANGED <<main, netout, jobs>>
       \/ /\ e.kind = "included"
          /\ Len(jobs) < JobBound
          /\ jobs' = Append(jobs, e.block)
          /\ UNCHANGED <<main, netout, mempool>>
    /\ UNCHANGED <<clock, network, pending, requests, tree, rpc>>

(* A transaction from RPC is gossiped.                                     *)
OnRpc(t) ==
    /\ main = "awake" /\ t \in rpc
    /\ rpc' = rpc \ {t}
    /\ gossip("other")
    /\ UNCHANGED <<clock, mempool, network, pending, requests, tree, events, jobs>>

(* No branch is ready.                                                     *)
Ready == \/ fresh \/ pending # NoBlock \/ events # <<>> \/ netin # {} \/ rpc # {}
         \/ \E b \in PeerBlocks : requests[b] = "due"

Sleep ==
    /\ main = "awake" /\ ~Ready
    /\ main' = "asleep"
    /\ UNCHANGED <<clock, mempool, network, pending, requests, tree, events, jobs,
                   netout, rpc>>

Stopped == main \notin {"awake", "asleep"}
Woken == IF main = "asleep" THEN "awake" ELSE main

-----------------------------------------------------------------------------
(* The other tasks, which end with the loop.                               *)

(* ValidatorScheduleStream::new.  A node that starts before the genesis is *)
(* to wait for it, but the time that it waits for is now - genesis, which  *)
(* is negative, as a u64.                                                  *)
GenesisWait(lead) == IF lead > 0 THEN (0 - lead) % U64 ELSE 0

WaitForGenesis ==
    /\ ~Stopped /\ wait > 0
    /\ wait' = wait - 1
    /\ UNCHANGED <<main, ticker, fresh, mempool, network, pending, requests, tree, events,
                   jobs, netout, rpc>>

(* At the start of a slot the clock wakes the loop first and publishes the *)
(* slot after that; the first slot it publishes without waking the loop.   *)
WakeForSlot_mutant ==
    /\ ~Stopped /\ ticker = "sleeping"
    /\ ticker' = "publishing"
    /\ UNCHANGED <<main, wait, fresh, mempool, network, pending, requests, tree, events,
                   jobs, netout, rpc>>
WakeForSlot ==
    /\ ~Stopped /\ ticker = "sleeping"
    /\ ticker' = "publishing"
    /\ main' = Woken
    /\ UNCHANGED <<wait, fresh, mempool, network, pending, requests, tree, events, jobs,
                   netout, rpc>>
PublishSlot ==
    /\ ~Stopped /\ wait = 0 /\ ticker = "publishing"
    /\ ticker' = "sleeping"
    /\ fresh' = TRUE
    /\ UNCHANGED <<main, wait, mempool, network, pending, requests, tree, events, jobs,
                   netout, rpc>>

(* The delay of a replay runs out; nobody is told.                         *)
Expire(b) ==
    /\ ~Stopped /\ requests[b] = "waiting"
    /\ requests' = [requests EXCEPT ![b] = "due"]
    /\ UNCHANGED <<main, clock, mempool, network, pending, tree, events, jobs,
                   netout, rpc>>

(* BlockConsumers, and BlockProducer::consume: what an included block      *)
(* carries is removed from the mempool.                                    *)
Consume ==
    /\ ~Stopped /\ jobs # <<>>
    /\ jobs' = Tail(jobs)
    /\ txs' = txs \ Head(jobs).txs
    /\ votes' = votes \ Head(jobs).votes
    /\ UNCHANGED <<main, clock, network, pending, requests, tree, events,
                   netout, rpc>>

(* The network task: an event arrives, the node's own address becomes      *)
(* known, a command is published.  Before the address is known there is no *)
(* topic to publish on, and the task ends with a panic.                    *)
NetEvents == [kind : {"block", "missing"}, what : PeerBlocks] \cup
             [kind : {"vote"}, what : Votes] \cup [kind : {"tx"}, what : Txs]

Deliver(e) ==
    /\ ~Stopped /\ net # "dead" /\ Cardinality(netin) < InboxBound
    /\ netin' = netin \cup {e}
    /\ main' = Woken
    /\ UNCHANGED <<clock, mempool, net, pending, requests, tree, events, jobs,
                   netout, rpc>>
LocalNodeKnown ==
    /\ ~Stopped /\ net = "starting"
    /\ net' = "ready"
    /\ UNCHANGED <<main, clock, mempool, netin, pending, requests, tree, events, jobs,
                   netout, rpc>>
Publish ==
    /\ ~Stopped /\ net # "dead"
    /\ \E kind \in netout : netout' = netout \ {kind}
    /\ net' = IF net = "starting" THEN "dead" ELSE net
    /\ UNCHANGED <<main, clock, mempool, netin, pending, requests, tree, events, jobs,
                   rpc>>

Payers == {t.payer : t \in Txs}

(* serve_send_transactions: of each payer the transactions are expected    *)
(* with nonces that follow the confirmed one and then each other.  The     *)
(* count goes on past a transaction whose nonce is refused, and an invalid *)
(* transaction is not counted.                                             *)
ExpectedNonce_mutant(batch, k, confirmed) == batch[k].nonce
ExpectedNonce(batch, k, confirmed) ==
    confirmed[batch[k].payer] +
    Cardinality({j \in 1..k : batch[j].valid /\ batch[j].payer = batch[k].payer})
serve_send_transactions(batch, confirmed) ==
    {batch[k] : k \in {k \in DOMAIN batch :
        /\ batch[k].valid
        /\ batch[k].nonce = ExpectedNonce(batch, k, confirmed)}}

RpcCall(batch, confirmed) ==
    /\ ~Stopped /\ rpc = {}
    /\ rpc' = serve_send_transactions(batch, confirmed)
    /\ rpc' # {}
    /\ main' = Woken
    /\ UNCHANGED <<clock, mempool, network, pending, requests, tree, events, jobs,
                   netout>>

-----------------------------------------------------------------------------
Init ==
    /\ main = "awake"
    /\ \E lead \in Leads : wait = GenesisWait(lead)
    /\ ticker = "publishing" /\ fresh = FALSE
    /\ txs = {} /\ votes = {} /\ pending = NoBlock
    /\ requests = [b \in PeerBlocks |-> "none"]
    /\ tree = {} /\ events = <<>> /\ jobs = <<>>
    /\ netin = {} /\ netout = {} /\ net = "starting" /\ rpc = {}

Loop ==
    \/ OnSlot
    \/ \E b \in PeerBlocks : OnReplay(b)
    \/ \E e \in NetEvents : OnNetwork(e)
    \/ OnProduced
    \/ OnChainEvent
    \/ \E t \in Txs : OnRpc(t)
    \/ Sleep

Tasks ==
    \/ WaitForGenesis
    \/ WakeForSlot
    \/ PublishSlot
    \/ \E b \in PeerBlocks : Expire(b)
    \/ Consume
    \/ \E e \in NetEvents : Deliver(e)
    \/ LocalNodeKnown
    \/ Publish
    \/ \E batch \in RpcBatches : \E confirmed \in [Payers -> Nonces] : RpcCall(batch, confirmed)

Next == Loop \/ Tasks

Spec == Init /\ [][Next]_vars

(* Time passes and tasks are scheduled.  A branch of the loop that stays   *)
(* ready is taken in the end, because select! starts at a random branch.   *)
(* The end of the wait for the genesis is nothing to rely on: it is more   *)
(* than 2^63 milliseconds away.                                            *)
Fairness ==
    /\ WF_vars(WakeForSlot) /\ WF_vars(PublishSlot)
    /\ \A b \in PeerBlocks : WF_vars(Expire(b)) /\ WF_vars(OnReplay(b))
    /\ WF_vars(OnSlot) /\ WF_vars(OnProduced) /\ WF_vars(OnChainEvent)
    /\ WF_vars(Consume) /\ WF_vars(Publish)

LiveSpec == Spec /\ Fairness

-----------------------------------------------------------------------------
(* Properties.                                                             *)

(* Types.  Among them: record_transaction (producer.rs) and the rpc accept *)
(* valid transactions only, and record_vote keeps votes of validators only.*)
TypeOK ==
    /\ main \in {"awake", "asleep", "exited", "panic: order", "panic: no delay"}
    /\ wait \in Nat /\ ticker \in {"sleeping", "publishing"} /\ fresh \in BOOLEAN
    /\ txs \subseteq {t \in Txs : t.valid}
    /\ votes \subseteq {w \in Votes : w.validator \in Validators}
    /\ \A b \in tree : b.txs \subseteq Txs /\ b.votes \subseteq Votes
    /\ pending.txs \subseteq Txs /\ pending.votes \subseteq Votes
    /\ requests \in [PeerBlocks -> {"none", "waiting", "due"}]
    /\ \A i \in DOMAIN jobs : jobs[i].txs \subseteq Txs
    /\ \A i \in DOMAIN events :
          events[i].kind \in {"included", "discarded", "gossip"}
    /\ netin \subseteq NetEvents /\ netout \subseteq {"produced", "other"}
    /\ net \in {"starting", "ready", "dead"}

(* A transaction leaves the mempool in a block of this validator, or when  *)
(* the background consumer gets to an included block with it.  What does   *)
(* not fit into a block stays for a later one.  The block may be discarded *)
(* by then, or replaced by that of the next slot before it is polled: what *)
(* becomes of the transaction is not said here.                            *)
TxsLeaveInBlocks ==
    [][\A t \in txs \ txs' :
          \/ t \in pending'.txs \/ Stopped'
          \/ jobs # <<>> /\ t \in Head(jobs).txs /\ jobs' = Tail(jobs)]_vars

(* The responder can draw a delay in a network of this size.               *)
ReplayDelayExists == main # "panic: no delay"

(* Of the transactions that one call of the RPC service lets through, no   *)
(* two are for the same nonce of a payer.                                  *)
RpcAdmitsEachNonceOnce ==
    \A s, t \in rpc : s.payer = t.payer /\ s.nonce = t.nonce => s = t

(* The loop catches up with the clock, although the clock wakes the loop   *)
(* before it publishes a slot and nothing wakes it after that.             *)
SlotIsYielded == fresh ~> (~fresh \/ Stopped)

(* A request for a block is served, or dropped because a peer was faster,  *)
(* although its delay runs out while the loop sleeps: the next slot wakes  *)
(* the loop.  At a node that started before the genesis there is none.     *)
ReplayIsServed ==
    \A b \in PeerBlocks :
        requests[b] # "none" ~> (requests[b] = "none" \/ Stopped \/ wait > 0)

(* When a block has been produced, a produced block is handed to the       *)
(* network, although nothing wakes the loop for it: this one, or the one   *)
(* of a later slot that took its place before the loop got to it.          *)
ProducedIsGossiped == pending # NoBlock ~> ("produced" \in netout \/ Stopped)
=============================================================================
