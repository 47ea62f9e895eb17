------------------------------ MODULE HyParView ------------------------------
(***************************************************************************)
(* Membership of one topic at one node, network/episub/view.rs.            *)
(*                                                                         *)
(* A view is a record of the active view, the passive view and out_events, *)
(* the actions that wait for the network to poll them.  A handler is an    *)
(* operator on views; one that draws a random peer or sample gives the set *)
(* of the views that it can leave behind.  A peer is its PeerId, which is  *)
(* all that comparing and hashing an AddressablePeer looks at.             *)
(***************************************************************************)
EXTENDS Integers, Sequences, FiniteSets, FiniteSetsExt, SequencesExt

CONSTANTS
    Peers,        \* the nodes of the topic
    MaxActive,    \* config.max_active_view_size()
    MinActive,    \* config.min_active_view_size()
    MaxPassive,   \* config.max_passive_view_size()
    WalkLength,   \* config.active_walk_length()
    ShuffleMax    \* config.shuffle_max_size()

ASSUME HyParViewAssumption ==
    /\ IsFiniteSet(Peers)
    /\ MaxActive \in Nat \ {0}
    /\ MinActive = Max({1, MaxActive \div 2})
    /\ MaxPassive \in Nat
    /\ WalkLength \in 2..6
    /\ ShuffleMax = 2 * MaxActive

new == [active |-> {}, passive |-> {}, out |-> <<>>]

-----------------------------------------------------------------------------
(* The actions in out_events, and the control messages on the wire.        *)

Dial(p, temporary) == [type |-> "Dial", peer |-> p, temporary |-> temporary]
PeerAdded(p) == [type |-> "PeerAdded", peer |-> p]
PeerRemoved(p) == [type |-> "PeerRemoved", peer |-> p]
Notify(p, rpc) == [type |-> "Notify", peer |-> p, rpc |-> rpc]

Join(p, ttl) == [action |-> "Join", peer |-> p, ttl |-> ttl]
ForwardJoin(p, ttl) == [action |-> "ForwardJoin", peer |-> p, ttl |-> ttl]
Neighbor(p, high) == [action |-> "Neighbor", peer |-> p, high |-> high]
Disconnect(alive) == [action |-> "Disconnect", alive |-> alive]
Shuffle(p, ttl, nodes) ==
    [action |-> "Shuffle", peer |-> p, ttl |-> ttl, nodes |-> nodes]
ShuffleReply(nodes) == [action |-> "ShuffleReply", nodes |-> nodes]

push(v, events) == [v EXCEPT !.out = @ \o events]

(* The same message to every peer of a set, in the order of a hash set.    *)
ToAll(peers, rpc) ==
    LET s == SetToSeq(peers) IN [i \in DOMAIN s |-> Notify(s[i], rpc)]

overconnected(v) == Cardinality(v.active) >= MaxActive
starved(v) == Cardinality(v.active) < MinActive

-----------------------------------------------------------------------------
add_node_to_active_view_mutant(me, v, p, initiator) ==
    IF p \in v.active THEN v
    ELSE [push(v, (IF initiator
                   THEN <<Dial(p, FALSE), Notify(p, Neighbor(me, FALSE))>>
                   ELSE <<>>) \o <<PeerAdded(p)>>)
          EXCEPT !.active = @ \cup {p}]

(* The request to be a neighbour has high priority if the active view is   *)
(* empty, but the view is looked at after the peer was put into it.        *)
add_node_to_active_view(me, v, p, initiator) ==
    IF p = me \/ p \in v.active THEN v
    ELSE LET active == v.active \cup {p} IN
         [push(v, (IF initiator
                   THEN <<Dial(p, FALSE), Notify(p, Neighbor(me, active = {}))>>
                   ELSE <<>>) \o <<PeerAdded(p)>>)
          EXCEPT !.active = active]

(* The nodes are put in one by one, and a random one is dropped each time  *)
(* that there are too many.                                                *)
add_nodes_to_passive_view(me, v, nodes) ==
    LET all == v.passive \cup (nodes \ {me}) IN
    {[v EXCEPT !.passive = kept] :
        kept \in kSubset(Min({MaxPassive, Cardinality(all)}), all)}

add_node_to_passive_view(me, v, p) == add_nodes_to_passive_view(me, v, {p})

(* The peer that has to leave the active view is drawn from the passive    *)
(* view.                                                                   *)
free_up_active_slot(me, v) ==
    IF ~overconnected(v) \/ v.passive = {} THEN {v}
    ELSE UNION {add_node_to_passive_view(me,
                    [push(v, <<Notify(p, Disconnect(TRUE)), PeerRemoved(p)>>)
                     EXCEPT !.active = @ \ {p}], p) : p \in v.passive}

(* A new peer becomes active if there is room, and passive otherwise.      *)
admit(me, v, p) ==
    IF ~overconnected(v) THEN {add_node_to_active_view(me, v, p, TRUE)}
    ELSE add_node_to_passive_view(me, v, p)

-----------------------------------------------------------------------------
(* The handlers of control messages.                                       *)

initiate_join(me, v, p) == push(v, <<Notify(p, Join(me, WalkLength))>>)

inject_join(me, v, sender, p, ttl) ==
    IF p \in v.active THEN {v}
    ELSE {push(w, ToAll(w.active \ {p, sender}, ForwardJoin(p, ttl))) :
             w \in admit(me, v, p)}

inject_forward_join(me, v, sender, p, ttl) ==
    IF p = me THEN {v}
    ELSE LET freed == IF ttl = 0 /\ p \notin v.active
                      THEN free_up_active_slot(me, v) ELSE {v}
             forward(w) ==
                 IF ttl = 0 THEN w
                 ELSE push(w, ToAll(w.active \ {p, sender}, ForwardJoin(p, ttl - 1))) IN
         {forward(w) : w \in UNION {admit(me, u, p) : u \in freed}}

inject_disconnect_mutant(me, v, p, alive) ==
    LET kept == IF alive
                THEN IF p \in v.active THEN add_node_to_passive_view(me, v, p) ELSE {v}
                ELSE {[v EXCEPT !.passive = @ \ {p}]} IN
    {[w EXCEPT !.active = @ \ {p}] : w \in kept}

(* A peer that is alive is kept as a passive one, if it was active.        *)
inject_disconnect(me, v, p, alive) ==
    LET kept == IF alive
                THEN IF p \in v.active THEN add_node_to_passive_view(me, v, p) ELSE {v}
                ELSE {[v EXCEPT !.passive = @ \ {p}]} IN
    {IF p \in w.active
     THEN [push(w, <<PeerRemoved(p)>>) EXCEPT !.active = @ \ {p}]
     ELSE w : w \in kept}

(* Nothing is sent back to a peer that finds no room.                      *)
inject_neighbor(me, v, p, high) ==
    IF p \in v.active THEN {v}
    ELSE IF ~overconnected(v) THEN {add_node_to_active_view(me, v, p, FALSE)}
    ELSE IF high
    THEN {add_node_to_active_view(me, w, p, FALSE) : w \in free_up_active_slot(me, v)}
    ELSE inject_disconnect(me, v, p, TRUE)

(* The reply goes to a node that may not be connected.                     *)
send_shuffle_reply(v, origin, nodes) ==
    push(v, (IF origin \in v.active THEN <<>> ELSE <<Dial(origin, TRUE)>>)
            \o <<Notify(origin, ShuffleReply(nodes))>>)

(* The shuffle wanders on to one random neighbour; where there is none its *)
(* origin becomes active, whether or not there is room.                    *)
inject_shuffle(me, v, from, origin, ttl, nodes) ==
    LET unknown == (v.active \cup v.passive) \ nodes
        samples == kSubset(Min({ShuffleMax, Cardinality(unknown)}), unknown)
        fresh == nodes \ (v.active \cup v.passive)
        next(w) == w.active \ {from, origin}
        forward(w) ==
            IF ttl = 0 THEN {w}
            ELSE IF next(w) = {} THEN {add_node_to_active_view(me, w, origin, TRUE)}
            ELSE {push(w, <<Notify(p, Shuffle(origin, ttl - 1, nodes))>>) : p \in next(w)} IN
    UNION {forward(w) :
        w \in UNION {add_nodes_to_passive_view(me, send_shuffle_reply(v, origin, s), fresh) :
                        s \in samples}}

(* The nodes are not compared with the active view or the local node, and  *)
(* drain() empties a view that has become too large.                       *)
inject_shuffle_reply(v, nodes) ==
    LET all == v.passive \cup nodes IN
    [v EXCEPT !.passive = IF Cardinality(all) > MaxPassive THEN {} ELSE all]

-----------------------------------------------------------------------------
(* The timers of poll.                                                     *)

(* A sample of the active view chained with the passive view.              *)
send_shuffle(me, v, p) ==
    LET size == Min({ShuffleMax, Cardinality(v.active) + Cardinality(v.passive)}) IN
    {push(v, <<Notify(p, Shuffle(me, WalkLength, ab[1] \cup ab[2]))>>) :
        ab \in {xy \in (SUBSET v.active) \X (SUBSET v.passive) :
                   Cardinality(xy[1]) + Cardinality(xy[2]) = size}}

shuffle_timer(me, v) == UNION {send_shuffle(me, v, p) : p \in v.active}

maybe_move_random_passive_to_active(me, v) ==
    IF ~starved(v) \/ v.passive = {} THEN {v}
    ELSE {add_node_to_active_view(me, [v EXCEPT !.passive = @ \ {p}], p, TRUE) :
             p \in v.passive}
=============================================================================
