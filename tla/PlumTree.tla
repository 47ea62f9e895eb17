------------------------------ MODULE PlumTree ------------------------------
(***************************************************************************)
(* Broadcast in one topic at one node, network/episub/tree.rs, with the    *)
(* cache of messages, cache.rs.                                            *)
(*                                                                         *)
(* A tree is a record of the eager and the lazy peers, the messages that   *)
(* were received, those that others say they have, and out_events.  A      *)
(* handler is an operator on trees; time is what Instant::now() gives, in  *)
(* units of 2 * config.tick_frequency: repair_tree looks for a message     *)
(* when its IHAVE has been there for one unit, and in a unit ticks are due.*)
(*                                                                         *)
(* The caches are functions from ids to records.  by_time of the cache has *)
(* the first entry that was put in for an id, with its hop and its time;   *)
(* data, where get looks, the best one, with the fewest hops.  Nothing     *)
(* looks up a best entry among the observed ones.                          *)
(***************************************************************************)
EXTENDS HyParView

CONSTANTS
    HopFactor,           \* config.hop_optimization_factor
    OptimizeSenderTree,  \* config.optimize_sender_tree
    LazyWindow,          \* config.lazy_push_window
    HistoryWindow        \* config.history_window

ASSUME PlumTreeAssumption ==
    /\ HopFactor \in Nat /\ OptimizeSenderTree \in BOOLEAN
    /\ LazyWindow \in Nat /\ HistoryWindow \in Nat

(* A message, its IHAVEs (a function from ids to hops), and repairs.       *)
Message(id, hop) == [action |-> "Message", id |-> id, hop |-> hop]
IHave(ihaves) == [action |-> "IHave", ihaves |-> ihaves]
Prune == [action |-> "Prune"]
Graft(ids) == [action |-> "Graft", ids |-> ids]
Deliver(id) == [type |-> "Deliver", id |-> id]

Empty == [i \in {} |-> 0]
EmptyTree == [eager |-> {}, lazy |-> {}, received |-> Empty, observed |-> Empty,
              out |-> <<>>]

Update(f, k, x) == [i \in DOMAIN f \cup {k} |-> IF i = k THEN x ELSE f[i]]

inject_neighbor_up(t, p) == [t EXCEPT !.eager = @ \cup {p}]

inject_neighbor_down(t, p) == [t EXCEPT !.eager = @ \ {p}, !.lazy = @ \ {p}]

(* A message is not published if its random id has been seen before.       *)
publish(t, id, time) ==
    IF id \in DOMAIN t.received \cup DOMAIN t.observed THEN t
    ELSE [push(t, ToAll(t.eager, Message(id, 1)))
          EXCEPT !.received = Update(@, id, [hop |-> 0, best |-> 0, at |-> time])]

inject_prune(t, p) == [t EXCEPT !.eager = @ \ {p}, !.lazy = @ \cup {p}]

(* What ExpiringCache::insert keeps for an id, and whether it was new.     *)
entry(t, id, hop, time) ==
    IF id \in DOMAIN t.received
    THEN [t.received[id] EXCEPT !.best = Min({@, hop})]
    ELSE [hop |-> hop, best |-> hop, at |-> time]

insert_mutant(t, id, hop, time) ==
    [new |-> IF id \in DOMAIN t.received THEN hop < t.received[id].best ELSE TRUE,
     received |-> Update(t.received, id, entry(t, id, hop, time))]

insert(t, id, hop, time) ==
    [new |-> id \notin DOMAIN t.received,
     received |-> Update(t.received, id, entry(t, id, hop, time))]

(* A message that is new goes to the application and on to the eager       *)
(* peers; one that is not shows a cycle, which is cut.                     *)
inject_message(t, p, id, hop, time) ==
    LET inserted == insert(t, id, hop, time)
        u == [t EXCEPT !.received = inserted.received] IN
    IF inserted.new
    THEN push(u, <<Deliver(id)>> \o ToAll(t.eager \ {p}, Message(id, hop + 1)))
    ELSE IF OptimizeSenderTree /\ p \in t.eager
    THEN push(inject_prune(u, p), <<Notify(p, Prune)>>)
    ELSE u

inject_ihave(t, p, ihaves, time) ==
    [t EXCEPT !.observed =
        [id \in DOMAIN @ \cup DOMAIN ihaves |->
            IF id \in DOMAIN @ THEN @[id]
            ELSE [sender |-> p, hop |-> ihaves[id], at |-> time]]]

(* The messages that were asked for are sent again, with their own hops.   *)
inject_graft(t, p, ids) ==
    LET s == SetToSeq(ids \cap DOMAIN t.received) IN
    push([t EXCEPT !.lazy = @ \ {p}, !.eager = @ \cup {p}],
         [i \in DOMAIN s |-> Notify(p, Message(s[i], t.received[s[i]].best))])

-----------------------------------------------------------------------------
(* What poll does once in a tick.                                          *)

(* What was received within the lazy push window is advertised.            *)
publish_ihaves(t, time) ==
    LET recent == {id \in DOMAIN t.received : time - t.received[id].at <= LazyWindow} IN
    IF recent = {} THEN t
    ELSE push(t, ToAll(t.lazy, IHave([id \in recent |-> t.received[id].hop])))

(* The entries of a cache that are younger than the history window.        *)
younger(cache, time) ==
    [id \in {i \in DOMAIN cache : time - cache[i].at < HistoryWindow} |-> cache[id]]

prune_history(t, time) ==
    [t EXCEPT !.observed = younger(@, time), !.received = younger(@, time)]

(* Whom to ask for which messages, and which links to take up again        *)
(* because the way through them is shorter.                                *)
repair_tree(t, time) ==
    LET settled == {id \in DOMAIN t.observed : time - t.observed[id].at \in 1..LazyWindow}
        missing == settled \ DOMAIN t.received
        shorter == {id \in settled \ missing :
                       /\ Max({0, t.received[id].best - t.observed[id].hop}) >= HopFactor
                       /\ t.observed[id].hop # 0}
        asked(p) == {id \in missing : t.observed[id].sender = p}
        s == SetToSeq({t.observed[id].sender : id \in missing \cup shorter}) IN
    prune_history(push(t, [i \in DOMAIN s |-> Notify(s[i], Graft(asked(s[i])))]), time)

tick(t, time) == repair_tree(publish_ihaves(t, time), time)
=============================================================================
