-------------------------------- MODULE Mesh --------------------------------
(***************************************************************************)
(* The nodes of one gossip topic: at each node an Episub behaviour         *)
(* (network/episub/behaviour.rs) with the TopicMesh of the topic           *)
(* (topic.rs), which feeds what changes in the active view of HyParView to *)
(* the broadcast tree of PlumTree; between them the connections.           *)
(*                                                                         *)
(* A handler only queues what it wants done.  The network polls the queues *)
(* one action at a time, and other events come in between: the tree lags   *)
(* behind the view, and a message is handed to a connection only if there  *)
(* is one by then.  Connections keep messages in order and lose those in   *)
(* flight when they break, which the two ends notice at different times.   *)
(***************************************************************************)
EXTENDS PlumTree

CONSTANTS
    Ids,         \* the messages that are published
    Bootstrap,   \* pairs <<n, m>>: n is told to connect to m
    Starts,      \* the states that the nodes start in
    WireBound    \* bound: messages in flight from one node to another

(* A start: the nodes have joined, with some links lazy, or nothing has    *)
(* happened yet; and the bounds on how many connections are lost or fail   *)
(* to be made, how many shuffles start, which messages <<n, id>> a node n  *)
(* publishes, and how much time there is.                                  *)
Bounds(breaks, shuffles, messages, time) ==
    [breaks |-> breaks, shuffles |-> shuffles, messages |-> messages, time |-> time]
Cold(bounds) == [joined |-> FALSE, lazy |-> {}, left |-> bounds]
Meshed(lazy, bounds) == [joined |-> TRUE, lazy |-> lazy, left |-> bounds]

ASSUME MeshAssumption ==
    /\ IsFiniteSet(Ids)
    /\ Bootstrap \subseteq Peers \X Peers
    /\ \A s \in Starts :
          /\ s.joined \in BOOLEAN /\ s.lazy \subseteq SUBSET Peers
          /\ s.left.breaks \in Nat /\ s.left.shuffles \in Nat
          /\ s.left.messages \subseteq Peers \X Ids /\ s.left.time \in Nat
    /\ WireBound \in Nat \ {0}

VARIABLES
    known,      \* the nodes that know an address of their own
    early,      \* Episub::early_peers
    view, tree, \* TopicMesh::nodes and TopicMesh::tree, for each node
    up,         \* <<n, m>>: n has a connection to m, as far as n knows
    temporary,  \* <<n, m>>: n's end of it is for a shuffle reply only
    dialing,    \* <<n, m, temporary>>: n is dialing m
    wire,       \* messages in flight, for <<n, m>> from n to m
    delivered,  \* how often each message was handed to the application
    now,        \* Instant::now(), in units of 2 * tick_frequency
    last_tick,  \* last_tick of HyParView and of PlumTree, for each node
    left        \* what the bounds leave

vars == <<known, early, view, tree, up, temporary, dialing, wire, delivered, now,
          last_tick, left>>
clock == <<now, last_tick>>
links == <<up, temporary, dialing, wire>>
local == <<known, early>>

Others(n) == Peers \ {n}
Pairs == {nm \in Peers \X Peers : nm[1] # nm[2]}
Connected(n, m) == {<<n, m>>, <<m, n>>} \subseteq up

(* Either nothing has happened yet, or all nodes have joined, and messages *)
(* that are forgotten by now have made some of the links lazy.             *)
Init ==
    /\ \E s \in Starts :
          /\ known = IF s.joined THEN Peers ELSE {}
          /\ view = [n \in Peers |->
                        IF s.joined THEN [new EXCEPT !.active = Others(n)] ELSE new]
          /\ tree = [n \in Peers |->
                 LET lazy == {m \in Others(n) : {n, m} \in s.lazy} IN
                 IF s.joined THEN [EmptyTree EXCEPT !.eager = Others(n) \ lazy, !.lazy = lazy]
                 ELSE EmptyTree]
          /\ left = s.left
          /\ up = IF s.joined THEN Pairs ELSE {}
          /\ dialing = IF s.joined THEN {} ELSE {<<b[1], b[2], FALSE>> : b \in Bootstrap}
    /\ early = [n \in Peers |-> {}]
    /\ temporary = {}
    /\ wire = [nm \in Pairs |-> <<>>]
    /\ delivered = [n \in Peers |-> [id \in Ids |-> 0]]
    /\ now = 0
    /\ last_tick = [n \in Peers |-> [nodes |-> 0, tree |-> 0]]

(* HyParView and PlumTree have no timers: when they are polled they look   *)
(* at the time, and do what is due before they give what they have queued. *)
(* They register no waker for it either, so nothing has to poll them when  *)
(* a tick comes due.  A tick that finds nothing to do is left out.         *)
NodesTickDue(n) ==
    now > last_tick[n].nodes /\ starved(view[n]) /\ view[n].passive # {}

TreeTickDue(n) ==
    now > last_tick[n].tree /\ DOMAIN tree[n].received \cup DOMAIN tree[n].observed # {}

-----------------------------------------------------------------------------
(* Episub.                                                                 *)

(* request_join_for_starving_topics.                                       *)
request_join(n, v, p) ==
    IF starved(v) /\ p \notin v.active THEN initiate_join(n, v, p) ELSE v

(* update_local_node_info, once there is an address: the topics that were  *)
(* subscribed to get their mesh, and peers that were dialed before that    *)
(* are asked to join.                                                      *)
UpdateLocalNodeInfo(n) ==
    /\ n \notin known
    /\ known' = known \cup {n}
    /\ view' = [view EXCEPT ![n] = push(@, ToAll(early[n], Join(n, WalkLength)))]
    /\ early' = [early EXCEPT ![n] = {}]
    /\ UNCHANGED <<tree, links, delivered, clock, left>>

(* inject_connection_established at both ends; only the dialer acts on it. *)
(* A second connection between two nodes is not told apart from the first. *)
ConnectionEstablished(n, m, temp) ==
    /\ <<n, m, temp>> \in dialing
    /\ Connected(n, m) \/ {<<n, m>>, <<m, n>>} \cap up = {}
    /\ dialing' = dialing \ {<<n, m, temp>>}
    /\ up' = up \cup {<<n, m>>, <<m, n>>}
    /\ temporary' = temporary \cup (IF temp /\ ~Connected(n, m) THEN {<<n, m>>} ELSE {})
    /\ IF n \in known
       THEN view' = [view EXCEPT ![n] = request_join(n, @, m)] /\ UNCHANGED early
       ELSE early' = [early EXCEPT ![n] = @ \cup {m}] /\ UNCHANGED view
    /\ UNCHANGED <<known, tree, wire, delivered, clock, left>>

disconnected_mutant(n, m, alive) ==
    IF n \in known /\ ~alive
    THEN \E v \in inject_disconnect(n, view[n], m, alive) : view' = [view EXCEPT ![n] = v]
    ELSE UNCHANGED view

(* TopicMesh::disconnected, in the mesh that there may be.                 *)
disconnected(n, m, alive) ==
    IF n \in known
    THEN \E v \in inject_disconnect(n, view[n], m, alive) : view' = [view EXCEPT ![n] = v]
    ELSE UNCHANGED view

(* inject_dial_failure.                                                    *)
DialFailure(n, m, temp) ==
    /\ <<n, m, temp>> \in dialing /\ <<n, m>> \notin up
    /\ left.breaks > 0 /\ left' = [left EXCEPT !.breaks = @ - 1]
    /\ dialing' = dialing \ {<<n, m, temp>>}
    /\ disconnected(n, m, FALSE)
    /\ UNCHANGED <<local, tree, up, temporary, wire, delivered, clock>>

(* inject_connection_closed, at one end: the connection broke, or it was a *)
(* temporary one, or the other end has closed it.                          *)
ConnectionClosed(n, m) ==
    /\ <<n, m>> \in up
    /\ \/ Connected(n, m) /\ <<n, m>> \notin temporary
          /\ left.breaks > 0 /\ left' = [left EXCEPT !.breaks = @ - 1]
       \/ (~Connected(n, m) \/ <<n, m>> \in temporary) /\ UNCHANGED left
    /\ up' = up \ {<<n, m>>}
    /\ temporary' = temporary \ {<<n, m>>}
    /\ wire' = [wire EXCEPT ![<<n, m>>] = <<>>, ![<<m, n>>] = <<>>]
    /\ disconnected(n, m, TRUE)
    /\ UNCHANGED <<local, tree, dialing, delivered, clock>>

(* What the handler of a connection lets through.                          *)
carries(n, m, rpc) ==
    /\ <<n, m>> \in up
    /\ <<n, m>> \in temporary => rpc.action = "ShuffleReply"

(* NotifyHandler: a message is dropped if there is no connection.          *)
Send(n, m, rpc) ==
    IF carries(n, m, rpc) /\ Connected(n, m)
    THEN Len(wire[<<n, m>>]) < WireBound
         /\ wire' = [wire EXCEPT ![<<n, m>>] = Append(@, rpc)]
    ELSE UNCHANGED wire

-----------------------------------------------------------------------------
(* TopicMesh.                                                              *)

inject_rpc_call_view(n, m, rpc) ==
    CASE rpc.action = "Join" -> inject_join(n, view[n], m, rpc.peer, rpc.ttl)
      [] rpc.action = "ForwardJoin" ->
             inject_forward_join(n, view[n], m, rpc.peer, rpc.ttl)
      [] rpc.action = "Neighbor" -> inject_neighbor(n, view[n], rpc.peer, rpc.high)
      [] rpc.action = "Disconnect" -> inject_disconnect(n, view[n], m, rpc.alive)
      [] rpc.action = "Shuffle" ->
             inject_shuffle(n, view[n], m, rpc.peer, rpc.ttl, rpc.nodes)
      [] rpc.action = "ShuffleReply" -> {inject_shuffle_reply(view[n], rpc.nodes)}
      [] OTHER -> {view[n]}

inject_rpc_call_tree(n, m, rpc) ==
    CASE rpc.action = "Message" -> inject_message(tree[n], m, rpc.id, rpc.hop, now)
      [] rpc.action = "IHave" -> inject_ihave(tree[n], m, rpc.ihaves, now)
      [] rpc.action = "Prune" -> inject_prune(tree[n], m)
      [] rpc.action = "Graft" -> inject_graft(tree[n], m, rpc.ids)
      [] OTHER -> tree[n]

(* inject_event: n gets a message from m.  A node that has no mesh for the *)
(* topic says so and closes the connection, which may be before the        *)
(* message is out.                                                         *)
InjectEvent(n, m) ==
    /\ wire[<<m, n>>] # <<>>
    /\ \/ /\ n \in known
          /\ wire' = [wire EXCEPT ![<<m, n>>] = Tail(@)]
          /\ \E v \in inject_rpc_call_view(n, m, Head(wire[<<m, n>>])) :
                view' = [view EXCEPT ![n] = v]
          /\ tree' = [tree EXCEPT ![n] = inject_rpc_call_tree(n, m, Head(wire[<<m, n>>]))]
          /\ UNCHANGED <<up, temporary>>
       \/ /\ n \notin known
          /\ \E sent \in {<<>>, <<Disconnect(FALSE)>>} :
                wire' = [wire EXCEPT ![<<m, n>>] = <<>>, ![<<n, m>>] = sent]
          /\ up' = up \ {<<n, m>>} /\ temporary' = temporary \ {<<n, m>>}
          /\ UNCHANGED <<view, tree>>
    /\ UNCHANGED <<local, dialing, delivered, clock, left>>

(* poll: what HyParView has queued comes first.                            *)
PollNodes(n) ==
    /\ ~NodesTickDue(n) /\ view[n].out # <<>>
    /\ LET e == Head(view[n].out) IN
       /\ view' = [view EXCEPT ![n].out = Tail(@)]
       /\ tree' = [tree EXCEPT ![n] =
              CASE e.type = "PeerAdded" -> inject_neighbor_up(@, e.peer)
                [] e.type = "PeerRemoved" -> inject_neighbor_down(@, e.peer)
                [] OTHER -> @]
       /\ IF e.type = "Notify" THEN Send(n, e.peer, e.rpc) ELSE UNCHANGED wire
       /\ dialing' = IF e.type = "Dial" /\ <<n, e.peer>> \notin up
                     THEN dialing \cup {<<n, e.peer, e.temporary>>} ELSE dialing
    /\ UNCHANGED <<local, up, temporary, delivered, clock, left>>

PollTree(n) ==
    /\ view[n].out = <<>> /\ ~TreeTickDue(n) /\ tree[n].out # <<>>
    /\ LET e == Head(tree[n].out) IN
       /\ tree' = [tree EXCEPT ![n].out = Tail(@)]
       /\ IF e.type = "Notify" THEN Send(n, e.peer, e.rpc) ELSE UNCHANGED wire
       /\ delivered' = IF e.type = "Deliver" THEN [delivered EXCEPT ![n][e.id] = @ + 1]
                       ELSE delivered
    /\ UNCHANGED <<local, view, up, temporary, dialing, clock, left>>

ShuffleTimer(n) ==
    /\ left.shuffles > 0
    /\ \E v \in shuffle_timer(n, view[n]) : view' = [view EXCEPT ![n] = v]
    /\ left' = [left EXCEPT !.shuffles = @ - 1]
    /\ UNCHANGED <<local, tree, links, delivered, clock>>

NodesTick(n) ==
    /\ NodesTickDue(n)
    /\ \E v \in maybe_move_random_passive_to_active(n, view[n]) :
          view' = [view EXCEPT ![n] = v]
    /\ last_tick' = [last_tick EXCEPT ![n].nodes = now]
    /\ UNCHANGED <<local, tree, links, delivered, now, left>>

(* The tree is polled when HyParView has nothing to give.                  *)
TreeTick(n) ==
    /\ view[n].out = <<>> /\ TreeTickDue(n)
    /\ tree' = [tree EXCEPT ![n] = tick(@, now)]
    /\ last_tick' = [last_tick EXCEPT ![n].tree = now]
    /\ UNCHANGED <<local, view, links, delivered, now, left>>

(* Time passes, as far as the bound goes.                                  *)
Elapse ==
    /\ left.time > 0
    /\ now' = now + 1
    /\ left' = [left EXCEPT !.time = @ - 1]
    /\ UNCHANGED <<local, view, tree, links, delivered, last_tick>>

(* Episub::publish.                                                        *)
Publish(n, id) ==
    /\ n \in known /\ <<n, id>> \in left.messages
    /\ tree' = [tree EXCEPT ![n] = publish(@, id, now)]
    /\ left' = [left EXCEPT !.messages = @ \ {<<n, id>>}]
    /\ UNCHANGED <<local, view, links, delivered, clock>>

Next ==
    \/ Elapse
    \/ \E n \in Peers :
          \/ UpdateLocalNodeInfo(n)
          \/ PollNodes(n)
          \/ PollTree(n)
          \/ ShuffleTimer(n)
          \/ NodesTick(n)
          \/ TreeTick(n)
          \/ \E id \in Ids : Publish(n, id)
          \/ \E m \in Others(n) :
                \/ ConnectionClosed(n, m)
                \/ InjectEvent(n, m)
                \/ \E temp \in BOOLEAN :
                      \/ ConnectionEstablished(n, m, temp)
                      \/ DialFailure(n, m, temp)

Spec == Init /\ [][Next]_vars

-----------------------------------------------------------------------------
(* The view and the tree never hold the node itself, although a shuffle    *)
(* reply can put it into its own passive view and a starving node takes    *)
(* its new neighbours from there.                                          *)
NeverItsOwnNeighbor ==
    \A n \in Peers : n \notin view[n].active \cup tree[n].eager \cup tree[n].lazy

(* Where the events about p are that HyParView has queued.                 *)
Pending(n, p) ==
    {i \in DOMAIN view[n].out : /\ view[n].out[i].type \in {"PeerAdded", "PeerRemoved"}
                                /\ view[n].out[i].peer = p}

(* The tree lags behind the active view but does not lose it: when all     *)
(* that is queued about a peer has been polled, an active peer is eager or *)
(* lazy, in whatever order peers came and went and messages arrived.       *)
TreeFollowsView ==
    \A n \in Peers : \A p \in Others(n) :
        IF Pending(n, p) = {}
        THEN p \in view[n].active => p \in tree[n].eager \cup tree[n].lazy
        ELSE p \in view[n].active <=> view[n].out[Max(Pending(n, p))] = PeerAdded(p)

(* A node does not keep a neighbour that it cannot reach: it has a         *)
(* connection to it, is dialing it or is about to.                         *)
NeighborsAreReachable ==
    \A n \in Peers : \A p \in view[n].active :
        \/ <<n, p>> \in up
        \/ \E temp \in BOOLEAN : <<n, p, temp>> \in dialing
        \/ \E i \in DOMAIN view[n].out :
              view[n].out[i].type = "Dial" /\ view[n].out[i].peer = p

(* How often a node has handed or will hand a message to the application.  *)
Deliveries(n, id) ==
    delivered[n][id] + Cardinality({i \in DOMAIN tree[n].out : tree[n].out[i] = Deliver(id)})

(* Whichever ways a message comes in, is advertised and grafted for: by    *)
(* the time a node has handed it to the application k + 1 times, k whole   *)
(* history windows have passed, in each of which it was remembered.        *)
DeliveriesAreSpaced ==
    \A n \in Peers, id \in Ids : (Deliveries(n, id) - 1) * HistoryWindow <= now
=============================================================================
