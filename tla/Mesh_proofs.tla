---------------------------- MODULE Mesh_proofs -----------------------------
(***************************************************************************)
(* Proofs about membership and broadcast, for any number of nodes and      *)
(* messages, any sizes of the views and any start that Mesh allows.        *)
(***************************************************************************)
EXTENDS Mesh, SequenceFacts

(* What the HyParView of a node sends: only the node itself asks for being *)
(* a neighbour.  And what PlumTree sends.                                  *)
ViewRpcs(me) ==
    [action : {"Join", "ForwardJoin"}, peer : Peers, ttl : Nat]
        \cup [action : {"Neighbor"}, peer : {me}, high : BOOLEAN]
        \cup [action : {"Disconnect"}, alive : BOOLEAN]
        \cup [action : {"Shuffle"}, peer : Peers, ttl : Nat, nodes : SUBSET Peers]
        \cup [action : {"ShuffleReply"}, nodes : SUBSET Peers]

Partial(S) == UNION {[D -> S] : D \in SUBSET Ids}

TreeRpcs ==
    [action : {"Message"}, id : Ids, hop : Nat]
        \cup [action : {"IHave"}, ihaves : Partial(Nat)]
        \cup [action : {"Prune"}]
        \cup [action : {"Graft"}, ids : SUBSET Ids]

ViewEvents(me) ==
    [type : {"Dial"}, peer : Peers, temporary : BOOLEAN]
        \cup [type : {"PeerAdded"}, peer : Others(me)]
        \cup [type : {"PeerRemoved"}, peer : Peers]
        \cup [type : {"Notify"}, peer : Peers, rpc : ViewRpcs(me)]

TreeEvents ==
    [type : {"Notify"}, peer : Peers, rpc : TreeRpcs] \cup [type : {"Deliver"}, id : Ids]

Views(me) ==
    [active : SUBSET Others(me), passive : SUBSET Peers, out : Seq(ViewEvents(me))]

Receipts == [hop : Nat, best : Nat, at : Nat]
Sightings == [sender : Peers, hop : Nat, at : Nat]
Trees(me) ==
    [eager : SUBSET Others(me), lazy : SUBSET Others(me), received : Partial(Receipts),
     observed : Partial(Sightings), out : Seq(TreeEvents)]

(* Where the events about p are in a queue.                                *)
About(q, p) ==
    {i \in DOMAIN q : q[i].type \in {"PeerAdded", "PeerRemoved"} /\ q[i].peer = p}

(* The peers T of the tree will be those of the view when it has handled   *)
(* what is queued.                                                         *)
Keeps(v, T, p) ==
    /\ About(v.out, p) = {} /\ p \in v.active => p \in T
    /\ \A i \in About(v.out, p) : (\A j \in About(v.out, p) : j <= i) =>
          (p \in v.active <=> v.out[i] = PeerAdded(p))

(* A neighbour is one of the peers R that are connected or being dialed,   *)
(* or is about to be dialed.                                               *)
Dials(q, p) == \E i \in DOMAIN q : q[i].type = "Dial" /\ q[i].peer = p
Reaches(v, R, p) == p \in v.active => p \in R \/ Dials(v.out, p)

ViewInv(me, v, T, R) ==
    /\ v \in Views(me)
    /\ \A p \in Others(me) : Keeps(v, T, p) /\ Reaches(v, R, p)

(* The deliveries of a message, the queued ones and the d[id] of the past, *)
(* are a history window apart: k of them took k windows to be forgotten,   *)
(* or all but one as long as the last receipt is remembered.               *)
Delivers(q, id) == {i \in DOMAIN q : q[i] = Deliver(id)}
Count(q, d, id) == d[id] + Cardinality(Delivers(q, id))
Owed(k) == k * HistoryWindow
Paced(r, id, k, time) ==
    IF id \in DOMAIN r
    THEN r[id].at <= time /\ Owed(k) <= r[id].at + HistoryWindow
    ELSE Owed(k) <= time

TreeInv(me, t, d, time) ==
    /\ t \in Trees(me) /\ time \in Nat
    /\ \A id \in Ids : d[id] \in Nat /\ Paced(t.received, id, Count(t.out, d, id), time)

Near(t) == t.eager \cup t.lazy
Reachable(n) ==
    {p \in Others(n) : <<n, p>> \in up \/ \E temp \in BOOLEAN : <<n, p, temp>> \in dialing}

(* A message travels to a node that has its end of the connection.  A node *)
(* without a mesh has nothing to say; it only answers a node with one.     *)
WireInv(n, m) ==
    /\ wire[<<n, m>>] \in Seq(ViewRpcs(n) \cup TreeRpcs)
    /\ wire[<<n, m>>] # <<>> =>
          /\ <<m, n>> \in up
          /\ n \in known \/ m \in known
          /\ m \in known \/ <<n, m>> \in up

Unborn(n) ==
    /\ view[n].active = {} /\ view[n].passive = {} /\ view[n].out = <<>>
    /\ DOMAIN tree[n].received = {} /\ DOMAIN tree[n].observed = {} /\ tree[n].out = <<>>

NodeInv(n) ==
    /\ ViewInv(n, view[n], Near(tree[n]), Reachable(n))
    /\ TreeInv(n, tree[n], delivered[n], now)
    /\ n \notin known => Unborn(n)

Shapes ==
    /\ DOMAIN view = Peers /\ DOMAIN tree = Peers /\ DOMAIN wire = Pairs
    /\ early \in [Peers -> SUBSET Peers] /\ up \subseteq Pairs
    /\ delivered \in [Peers -> [Ids -> Nat]] /\ now \in Nat

MeshInv ==
    /\ Shapes
    /\ \A n \in Peers : NodeInv(n)
    /\ \A n \in Peers : \A m \in Others(n) : WireInv(n, m)

-----------------------------------------------------------------------------
(***************************************************************************)
(* Events and messages.                                                    *)
(***************************************************************************)
LEMMA PeersAreFinite ==
    /\ IsFiniteSet(Peers) /\ \A S \in SUBSET Peers : IsFiniteSet(S)
    /\ IsFiniteSet(Ids) /\ \A S \in SUBSET Ids : IsFiniteSet(S)
  BY HyParViewAssumption, MeshAssumption, FS_Subset

(* A set in the order of a hash set is a sequence of its elements.         *)
LEMMA OrderIsSeq ==
    ASSUME NEW S, IsFiniteSet(S)
    PROVE  SetToSeq(S) \in Seq(S)
<1> DEFINE F == {f \in [1..Cardinality(S) -> S] : IsInjective(f)}
<1>1. Cardinality(S) \in Nat /\ ExistsBijection(1..Cardinality(S), S)
  BY FS_CardinalityType
<1>2. PICK f \in Bijection(1..Cardinality(S), S) : TRUE
  BY <1>1 DEF ExistsBijection
<1>3. f \in [1..Cardinality(S) -> S] /\ IsInjective(f)
  BY <1>2 DEF Bijection, Injection, IsInjective
<1>4. SetToSeq(S) \in [1..Cardinality(S) -> S]
  BY <1>3 DEF SetToSeq
<1> QED
  BY <1>1, <1>4

LEMMA ImageIsSeq ==
    ASSUME NEW S, NEW s \in Seq(S), NEW T, NEW f \in [DOMAIN s -> T]
    PROVE  f \in Seq(T)
  OBVIOUS

LEMMA SeqOfMore ==
    ASSUME NEW S, NEW s \in Seq(S), NEW T, S \subseteq T
    PROVE  s \in Seq(T)
  OBVIOUS

LEMMA ShortSeqs ==
    ASSUME NEW S, NEW x \in S, NEW y \in S
    PROVE  /\ <<>> \in Seq(S) /\ <<x>> \in Seq(S) /\ <<x, y>> \in Seq(S)
           /\ <<x, y>> = <<x>> \o <<y>>
           /\ 1 \in DOMAIN <<x, y>> /\ <<x, y>>[1] = x
<1>1. <<>> \in Seq(S) /\ <<x>> \in Seq(S) /\ <<x, y>> \in Seq(S)
  OBVIOUS
<1>2. 1 \in DOMAIN <<x, y>> /\ <<x, y>>[1] = x
  OBVIOUS
<1>3. <<x, y>> = <<x>> \o <<y>>
  <2> DEFINE a == <<x>>
             b == <<y>>
             l == <<x, y>>
  <2>1. a \in Seq(S) /\ b \in Seq(S) /\ Len(a) = 1 /\ Len(b) = 1 /\ a[1] = x /\ b[1] = y
    OBVIOUS
  <2>2. l \in Seq(S) /\ Len(l) = 2 /\ l[1] = x /\ l[2] = y
    OBVIOUS
  <2> HIDE DEF a, b, l
  <2>3. a \o b \in Seq(S) /\ Len(a \o b) = 2 /\ (a \o b)[1] = x /\ (a \o b)[2] = y
    <3>1. a \o b \in Seq(S) /\ Len(a \o b) = Len(a) + Len(b)
      <4>1. a \in Seq(S) /\ b \in Seq(S)
        BY <2>1
      <4> QED
        BY ONLY <4>1
    <3>2. 1 \in DOMAIN a /\ 2 \in DOMAIN (a \o b) /\ 1 \in DOMAIN (a \o b)
      BY <3>1, <2>1
    <3>3. (a \o b)[1] = a[1]
      BY <3>2, <2>1
    <3>4. (a \o b)[2] = b[2 - 1]
      BY <3>2, <2>1
    <3> QED
      BY <3>1, <3>3, <3>4, <2>1
  <2>4. \A i \in 1..2 : l[i] = (a \o b)[i]
    BY <2>2, <2>3
  <2>5. l = a \o b
    BY <2>2, <2>3, <2>4, SMTT(60)
  <2> QED
    BY <2>5 DEF l, a, b
<1> QED
  BY <1>1, <1>2, <1>3

LEMMA ToAllIsSeq ==
    ASSUME NEW S \in SUBSET Peers, NEW rpc
    PROVE  ToAll(S, rpc) \in Seq([type : {"Notify"}, peer : S, rpc : {rpc}])
<1> DEFINE s == SetToSeq(S)
<1>1. s \in Seq(S)
  BY PeersAreFinite, OrderIsSeq
<1> HIDE DEF s
<1> DEFINE E == [type : {"Notify"}, peer : S, rpc : {rpc}]
<1>2. \A i \in DOMAIN s : Notify(s[i], rpc) \in E
  BY <1>1 DEF Notify
<1>3. ToAll(S, rpc) = [i \in DOMAIN s |-> Notify(s[i], rpc)]
  BY DEF ToAll, s
<1> HIDE DEF E
<1>4. ToAll(S, rpc) \in [DOMAIN s -> E]
  BY <1>2, <1>3
<1>5. ToAll(S, rpc) \in Seq(E)
  BY <1>1, <1>4, ImageIsSeq
<1> QED
  BY <1>5 DEF E

(* The empty set is listed as the empty sequence.                          *)
LEMMA OrderOfNothing == SetToSeq({}) = <<>>
<1>1. IsFiniteSet({})
  BY FS_EmptySet
<1>2. SetToSeq({}) \in Seq({})
  BY <1>1, OrderIsSeq
<1> QED
  BY <1>2

(* Messages that an action queues, and events that concern no neighbour.   *)
Quiet(me) == {e \in ViewEvents(me) : e.type \in {"Dial", "Notify"}}

LEMMA QuietEvents ==
    ASSUME NEW me \in Peers, NEW p \in Peers
    PROVE  /\ \A temp \in BOOLEAN : Dial(p, temp) \in Quiet(me)
           /\ \A rpc \in ViewRpcs(me) : Notify(p, rpc) \in Quiet(me)
           /\ Dial(p, FALSE).type = "Dial" /\ Dial(p, FALSE).peer = p
  BY DEF Quiet, ViewEvents, Dial, Notify

LEMMA QuietToAll ==
    ASSUME NEW me \in Peers, NEW S \in SUBSET Peers, NEW rpc \in ViewRpcs(me)
    PROVE  ToAll(S, rpc) \in Seq(Quiet(me))
<1> DEFINE E == [type : {"Notify"}, peer : S, rpc : {rpc}]
<1>1. E \subseteq Quiet(me)
  BY DEF Quiet, ViewEvents
<1>2. ToAll(S, rpc) \in Seq(E)
  BY ToAllIsSeq
<1> HIDE DEF E
<1> QED
  BY <1>1, <1>2, SeqOfMore

LEMMA RpcsOfViews ==
    ASSUME NEW me \in Peers, NEW p \in Peers, NEW ttl \in Nat, NEW nodes \in SUBSET Peers
    PROVE  /\ Join(p, ttl) \in ViewRpcs(me) /\ ForwardJoin(p, ttl) \in ViewRpcs(me)
           /\ \A b \in BOOLEAN : Neighbor(me, b) \in ViewRpcs(me) /\ Disconnect(b) \in ViewRpcs(me)
           /\ Shuffle(p, ttl, nodes) \in ViewRpcs(me) /\ ShuffleReply(nodes) \in ViewRpcs(me)
  BY DEF ViewRpcs, Join, ForwardJoin, Neighbor, Disconnect, Shuffle, ShuffleReply

LEMMA RpcFields ==
    ASSUME NEW me \in Peers, NEW rpc \in ViewRpcs(me) \cup TreeRpcs
    PROVE  /\ rpc.action \in {"Join", "ForwardJoin", "Shuffle"} => rpc.peer \in Peers /\ rpc.ttl \in Nat
           /\ rpc.action = "Neighbor" => rpc.peer = me /\ rpc.high \in BOOLEAN
           /\ rpc.action = "Disconnect" => rpc.alive \in BOOLEAN
           /\ rpc.action \in {"Shuffle", "ShuffleReply"} => rpc.nodes \in SUBSET Peers
           /\ rpc.action = "Message" => rpc.id \in Ids /\ rpc.hop \in Nat
           /\ rpc.action = "IHave" => rpc.ihaves \in Partial(Nat)
           /\ rpc.action = "Graft" => rpc.ids \in SUBSET Ids
  BY DEF ViewRpcs, TreeRpcs

-----------------------------------------------------------------------------
(***************************************************************************)
(* What can happen to a view.                                              *)
(***************************************************************************)

(* Events that concern no neighbour are queued.                            *)
LEMMA PushQuiet ==
    ASSUME NEW me \in Peers, NEW T, NEW R, NEW v, ViewInv(me, v, T, R),
           NEW s \in Seq(Quiet(me))
    PROVE  ViewInv(me, push(v, s), T, R) /\ push(v, s).active = v.active
           /\ push(v, s).passive = v.passive
<1> DEFINE w == push(v, s)
           q == v.out \o s
<1>1. v \in Views(me) /\ v.out \in Seq(ViewEvents(me)) /\ s \in Seq(ViewEvents(me))
      /\ \A i \in DOMAIN s : s[i].type \in {"Dial", "Notify"}
  BY DEF ViewInv, Views, Quiet
<1>2. w \in Views(me) /\ w.active = v.active /\ w.passive = v.passive /\ w.out = q
  <2>1. q \in Seq(ViewEvents(me))
    BY <1>1
  <2> HIDE DEF q
  <2>2. w = [v EXCEPT !.out = q]
    BY DEF push, q
  <2> QED
    BY <2>1, <2>2, <1>1 DEF Views
<1>3. DOMAIN v.out \subseteq DOMAIN q /\ \A i \in DOMAIN v.out : q[i] = v.out[i]
  BY <1>1
<1>4. \A i \in DOMAIN q \ DOMAIN v.out : q[i].type \in {"Dial", "Notify"}
  BY <1>1
<1> HIDE DEF w, q
<1>5. \A p : About(q, p) = About(v.out, p) /\ (Dials(v.out, p) => Dials(q, p))
  BY <1>3, <1>4 DEF About, Dials
<1>6. \A p : \A i \in About(q, p) : q[i] = v.out[i]
  BY <1>3, <1>5 DEF About
<1>7. \A p \in Others(me) : Keeps(w, T, p) /\ Reaches(w, R, p)
  BY <1>2, <1>5, <1>6 DEF ViewInv, Keeps, Reaches
<1> QED
  BY <1>2, <1>7 DEF ViewInv, w

(* A peer becomes active or stops being active, and the tree is told.      *)
LEMMA PeerChanges ==
    ASSUME NEW me \in Peers, NEW T, NEW R, NEW v, ViewInv(me, v, T, R),
           NEW s \in Seq(Quiet(me)), NEW p \in Peers, NEW A \in SUBSET Others(me),
           NEW e \in ViewEvents(me), e \in {PeerAdded(p), PeerRemoved(p)},
           A \ {p} = v.active \ {p}, p \in A <=> e = PeerAdded(p),
           p \in A => p \in R \/ Dials(s, p)
    PROVE  ViewInv(me, [active |-> A, passive |-> v.passive, out |-> v.out \o (s \o <<e>>)], T, R)
<1> DEFINE r == s \o <<e>>
           q == v.out \o r
           w == [active |-> A, passive |-> v.passive, out |-> q]
           n == Len(v.out) + Len(s) + 1
<1>1. v \in Views(me) /\ v.out \in Seq(ViewEvents(me)) /\ s \in Seq(ViewEvents(me))
      /\ \A i \in DOMAIN s : s[i].type \in {"Dial", "Notify"}
  BY DEF ViewInv, Views, Quiet
<1>2. /\ r \in Seq(ViewEvents(me)) /\ Len(r) = Len(s) + 1
      /\ \A i \in DOMAIN s : i \in DOMAIN r /\ r[i] = s[i]
      /\ r[Len(s) + 1] = e
  BY <1>1
<1>3. e.type \in {"PeerAdded", "PeerRemoved"} /\ e.peer = p
  BY DEF PeerAdded, PeerRemoved
<1> HIDE DEF r
<1>4. q \in Seq(ViewEvents(me)) /\ Len(q) = n /\ n \in Nat
      /\ DOMAIN v.out \subseteq DOMAIN q /\ \A i \in DOMAIN v.out : q[i] = v.out[i] /\ i < n
  BY <1>1, <1>2, SMTT(60)
<1>5. n \in DOMAIN q /\ q[n] = e
  BY <1>1, <1>2
<1>6. \A i \in DOMAIN q \ DOMAIN v.out : i = n \/ (i < n /\ i - Len(v.out) \in DOMAIN s
                                                  /\ q[i] = s[i - Len(v.out)])
  <2> SUFFICES ASSUME NEW i \in DOMAIN q, i \notin DOMAIN v.out, i # n
               PROVE  i < n /\ i - Len(v.out) \in DOMAIN s /\ q[i] = s[i - Len(v.out)]
    OBVIOUS
  <2>1. i \in Nat /\ Len(v.out) < i /\ i < n
    <3>1. Len(v.out) \in Nat /\ Len(s) \in Nat /\ DOMAIN v.out = 1..Len(v.out)
          /\ DOMAIN q = 1..n
      BY <1>1, <1>4
    <3> HIDE DEF q
    <3> QED
      BY <3>1
  <2>2. i - Len(v.out) \in DOMAIN s
    BY <2>1, <1>1
  <2>3. q[i] = r[i - Len(v.out)]
    BY <2>1, <1>1, <1>2
  <2> QED
    BY <2>1, <2>2, <2>3, <1>2
<1>7. \A i \in DOMAIN s : Len(v.out) + i \in DOMAIN q /\ q[Len(v.out) + i] = s[i]
  BY <1>1, <1>2, SMTT(60)
<1>8. w \in Views(me)
  BY <1>1, <1>4 DEF Views
<1> HIDE DEF q
<1>9. \A x : x # p => About(q, x) = About(v.out, x)
  <2> SUFFICES ASSUME NEW x, x # p PROVE About(q, x) = About(v.out, x)
    OBVIOUS
  <2>1. ASSUME NEW i \in About(q, x) PROVE i \in About(v.out, x)
    <3>1. i \in DOMAIN q /\ q[i].type \in {"PeerAdded", "PeerRemoved"} /\ q[i].peer = x
      BY <2>1 DEF About
    <3>2. i # n
      BY <3>1, <1>3, <1>5
    <3>3. i \in DOMAIN v.out
      <4> SUFFICES ASSUME i \notin DOMAIN v.out PROVE FALSE
        OBVIOUS
      <4>1. i - Len(v.out) \in DOMAIN s /\ q[i] = s[i - Len(v.out)]
        BY <3>1, <3>2, <1>6, Zenon
      <4>2. q[i].type \in {"Dial", "Notify"}
        BY <4>1, <1>1, Zenon
      <4> QED
        BY <4>2, <3>1
    <3> QED
      BY <3>1, <3>3, <1>4, Zenon DEF About
  <2>2. ASSUME NEW i \in About(v.out, x) PROVE i \in About(q, x)
    BY <2>2, <1>4, Zenon DEF About
  <2> QED
    BY <2>1, <2>2, Zenon
<1>10. n \in About(q, p) /\ \A i \in About(q, p) : i <= n
  <2>1. \A i \in DOMAIN q : i <= n
    BY <1>4
  <2> QED
    BY <2>1, <1>3, <1>5 DEF About
<1>11. \A x : Dials(v.out, x) \/ Dials(s, x) => Dials(q, x)
  BY <1>4, <1>7 DEF Dials
<1> SUFFICES ASSUME NEW x \in Others(me) PROVE Keeps(w, T, x) /\ Reaches(w, R, x)
  BY <1>8 DEF ViewInv, q, r
<1>12. w.active = A /\ w.out = q
  OBVIOUS
<1> HIDE DEF w
<1>13. CASE x # p
  <2>1. x \in A <=> x \in v.active
    BY <1>13
  <2>2. Keeps(v, T, x) /\ Reaches(v, R, x)
    BY DEF ViewInv
  <2>3. \A i \in About(v.out, x) : q[i] = v.out[i]
    BY <1>4 DEF About
  <2>4. Keeps(w, T, x)
    BY <2>1, <2>2, <2>3, <1>9, <1>12, <1>13 DEF Keeps
  <2>5. Reaches(w, R, x)
    BY <2>1, <2>2, <1>11, <1>12 DEF Reaches
  <2> QED
    BY <2>4, <2>5
<1>14. CASE x = p
  <2>1. ASSUME NEW i \in About(q, p), \A j \in About(q, p) : j <= i PROVE i = n
    <3>1. i \in Nat /\ n <= i /\ i <= n
      BY <2>1, <1>4, <1>10 DEF About
    <3> QED
      BY <3>1, <1>4
  <2>2. Keeps(w, T, p)
    BY <2>1, <1>5, <1>10, <1>12 DEF Keeps
  <2>3. Reaches(w, R, p)
    BY <1>11, <1>12 DEF Reaches
  <2> QED
    BY <2>2, <2>3, <1>14
<1> QED
  BY <1>13, <1>14

(* The passive view is nobody else's business.                             *)
LEMMA PassiveChanges ==
    ASSUME NEW me \in Peers, NEW T, NEW R, NEW v, ViewInv(me, v, T, R),
           NEW P \in SUBSET Peers
    PROVE  /\ ViewInv(me, [v EXCEPT !.passive = P], T, R)
           /\ [v EXCEPT !.passive = P].active = v.active
           /\ [v EXCEPT !.passive = P].passive = P
<1> DEFINE w == [v EXCEPT !.passive = P]
<1>1. w \in Views(me) /\ w.active = v.active /\ w.out = v.out /\ w.passive = P
  BY DEF ViewInv, Views
<1> HIDE DEF w
<1>2. \A p \in Others(me) : Keeps(w, T, p) /\ Reaches(w, R, p)
  BY <1>1 DEF ViewInv, Keeps, Reaches
<1> QED
  BY <1>1, <1>2 DEF ViewInv, w

(* The tree gets more peers, and connections come, or go that are not to   *)
(* neighbours.                                                             *)
LEMMA WorldChanges ==
    ASSUME NEW me, NEW T, NEW R, NEW v, ViewInv(me, v, T, R), NEW U, NEW Q,
           \A p \in Others(me) : p \in T => p \in U,
           \A p \in v.active : p \in R => p \in Q
    PROVE  ViewInv(me, v, U, Q)
  BY DEF ViewInv, Keeps, Reaches

(* The tree takes the first event of the queue.                            *)
LEMMA EventIsPolled ==
    ASSUME NEW me \in Peers, NEW T, NEW R, NEW v, ViewInv(me, v, T, R), v.out # <<>>,
           NEW U, NEW Q,
           R \subseteq Q, Head(v.out).type = "Dial" => Head(v.out).peer \in Q,
           \A p \in Others(me) :
              p \in U <=> \/ p \in T /\ Head(v.out) # PeerRemoved(p)
                          \/ Head(v.out) = PeerAdded(p)
    PROVE  /\ ViewInv(me, [v EXCEPT !.out = Tail(v.out)], U, Q)
           /\ Head(v.out) \in ViewEvents(me)
<1> DEFINE w == [v EXCEPT !.out = Tail(v.out)]
           q == v.out
           e == Head(q)
<1>1. v \in Views(me) /\ q \in Seq(ViewEvents(me)) /\ q # <<>>
  BY DEF ViewInv, Views
<1>2. /\ e = q[1] /\ 1 \in DOMAIN q /\ e \in ViewEvents(me)
      /\ Tail(q) \in Seq(ViewEvents(me))
      /\ \A i \in DOMAIN Tail(q) : i + 1 \in DOMAIN q /\ Tail(q)[i] = q[i + 1] /\ i \in Nat
      /\ \A i \in DOMAIN q : i \in Nat /\ (i = 1 \/ i - 1 \in DOMAIN Tail(q))
  BY <1>1
<1>3. w \in Views(me) /\ w.active = v.active /\ w.out = Tail(q)
  BY <1>1, <1>2 DEF Views
<1> HIDE DEF w
<1> SUFFICES ASSUME NEW p \in Others(me) PROVE Keeps(w, U, p) /\ Reaches(w, Q, p)
  BY <1>2, <1>3 DEF ViewInv, w
<1>4. Keeps(v, T, p) /\ Reaches(v, R, p)
  BY DEF ViewInv
<1>5. \A i : i \in About(Tail(q), p) => i \in Nat /\ i + 1 \in About(q, p)
  BY <1>2 DEF About
<1>6. \A i \in About(q, p) : i \in Nat /\ (i = 1 \/ i - 1 \in About(Tail(q), p))
  <2> SUFFICES ASSUME NEW i \in About(q, p), i # 1
               PROVE  i \in Nat /\ i - 1 \in About(Tail(q), p)
    BY <1>2 DEF About
  <2>1. i \in Nat /\ i - 1 \in DOMAIN Tail(q) /\ (i - 1) + 1 = i
    BY <1>2 DEF About
  <2>2. Tail(q)[i - 1] = q[i]
    BY <2>1, <1>2
  <2> QED
    BY <2>1, <2>2 DEF About
<1>7. Reaches(w, Q, p)
  <2> SUFFICES ASSUME p \in v.active, p \notin Q PROVE Dials(Tail(q), p)
    BY <1>3 DEF Reaches
  <2>1. PICK i \in DOMAIN q : q[i].type = "Dial" /\ q[i].peer = p
    BY <1>4 DEF Reaches, Dials
  <2>2. i # 1
    BY <2>1, <1>2
  <2>3. i - 1 \in DOMAIN Tail(q) /\ (i - 1) + 1 = i
    BY <2>2, <1>2
  <2>4. Tail(q)[i - 1] = q[i]
    BY <2>3, <1>2
  <2> QED
    BY <2>1, <2>3, <2>4 DEF Dials
<1>8. ASSUME About(Tail(q), p) = {}, p \in v.active PROVE p \in U
  <2>1. CASE About(q, p) = {}
    <3>1. p \in T
      BY <2>1, <1>4, <1>8 DEF Keeps
    <3>2. e # PeerRemoved(p)
      BY <2>1, <1>2 DEF About, PeerRemoved
    <3> QED
      BY <3>1, <3>2
  <2>2. CASE About(q, p) # {}
    <3>1. 1 \in About(q, p) /\ \A j \in About(q, p) : j <= 1
      BY <2>2, <1>6, <1>8
    <3>2. e = PeerAdded(p)
      BY <3>1, <1>2, <1>4, <1>8 DEF Keeps
    <3> QED
      BY <3>2
  <2> QED
    BY <2>1, <2>2
<1>9. ASSUME NEW i \in About(Tail(q), p), \A j \in About(Tail(q), p) : j <= i
      PROVE  p \in v.active <=> Tail(q)[i] = PeerAdded(p)
  <2>1. i \in Nat /\ i + 1 \in About(q, p) /\ Tail(q)[i] = q[i + 1]
    BY <1>2, <1>5 DEF About
  <2>2. \A j \in About(q, p) : j <= i + 1
    <3> SUFFICES ASSUME NEW j \in About(q, p) PROVE j <= i + 1
      OBVIOUS
    <3>1. j \in Nat /\ (j = 1 \/ j - 1 \in About(Tail(q), p))
      BY <1>6
    <3>2. CASE j = 1
      BY <3>2, <2>1
    <3>3. CASE j - 1 \in About(Tail(q), p)
      <4>1. j - 1 <= i
        BY <3>3, <1>9
      <4> QED
        BY <4>1, <3>1, <2>1
    <3> QED
      BY <3>1, <3>2, <3>3
  <2> QED
    BY <2>1, <2>2, <1>4 DEF Keeps
<1>10. Keeps(w, U, p)
  BY <1>3, <1>8, <1>9 DEF Keeps
<1> QED
  BY <1>7, <1>10

-----------------------------------------------------------------------------
(***************************************************************************)
(* The handlers of HyParView.                                              *)
(***************************************************************************)
LEMMA NodeIsAdded ==
    ASSUME NEW me \in Peers, NEW T, NEW R, NEW v, ViewInv(me, v, T, R),
           NEW p \in Peers, NEW initiator \in BOOLEAN, initiator \/ p \in R \/ p = me
    PROVE  ViewInv(me, add_node_to_active_view(me, v, p, initiator), T, R)
<1> DEFINE w == add_node_to_active_view(me, v, p, initiator)
           A == v.active \cup {p}
           b == (A = {})
           s == IF initiator THEN <<Dial(p, FALSE), Notify(p, Neighbor(me, b))>> ELSE <<>>
           e == PeerAdded(p)
           q == v.out \o (s \o <<e>>)
<1>1. CASE p = me \/ p \in v.active
  <2>1. w = v
    BY <1>1 DEF add_node_to_active_view
  <2> QED
    BY <2>1
<1>2. CASE p # me /\ p \notin v.active
  <2>1. v \in Views(me) /\ p \in Others(me) /\ A \in SUBSET Others(me)
        /\ A \ {p} = v.active \ {p} /\ p \in A
    BY <1>2 DEF ViewInv, Views, Others
  <2>2. w = [push(v, s \o <<e>>) EXCEPT !.active = A]
    BY <1>2 DEF add_node_to_active_view
  <2>3. push(v, s \o <<e>>) = [v EXCEPT !.out = q]
    BY DEF push
  <2>4. b \in BOOLEAN
    OBVIOUS
  <2> HIDE DEF A, b
  <2>5. s \in Seq(Quiet(me)) /\ (Dials(s, p) \/ p \in R)
    <3>1. CASE initiator
      <4>1. /\ Dial(p, FALSE) \in Quiet(me) /\ Notify(p, Neighbor(me, b)) \in Quiet(me)
            /\ Dial(p, FALSE).type = "Dial" /\ Dial(p, FALSE).peer = p
        <5>1. Neighbor(me, b) \in ViewRpcs(me)
          BY <2>4, RpcsOfViews
        <5> QED
          BY <5>1, QuietEvents
      <4> DEFINE x == Dial(p, FALSE)
                 y == Notify(p, Neighbor(me, b))
      <4>2. s = <<x, y>>
        BY <3>1
      <4> HIDE DEF s, x, y
      <4>3. s \in Seq(Quiet(me)) /\ 1 \in DOMAIN s /\ s[1] = x
        <5>1. x \in Quiet(me) /\ y \in Quiet(me)
          BY <4>1 DEF x, y
        <5> QED
          BY <5>1, <4>2, ShortSeqs
      <4> QED
        BY <4>1, <4>3 DEF Dials, x
    <3>2. CASE ~initiator
      <4>1. s = <<>> /\ p \in R
        BY <3>2, <1>2
      <4> HIDE DEF s
      <4> QED
        BY <4>1
    <3> QED
      BY <3>1, <3>2
  <2>6. e \in ViewEvents(me) /\ e \in {PeerAdded(p), PeerRemoved(p)}
    BY <2>1 DEF ViewEvents, PeerAdded
  <2> HIDE DEF s, e
  <2>7. ViewInv(me, [active |-> A, passive |-> v.passive, out |-> q], T, R)
    BY <2>1, <2>5, <2>6, PeerChanges DEF e
  <2> HIDE DEF q
  <2>8. w = [active |-> A, passive |-> v.passive, out |-> q]
    BY <2>1, <2>2, <2>3 DEF Views
  <2> QED
    BY <2>7, <2>8
<1> QED
  BY <1>1, <1>2

LEMMA ViewRecord ==
    ASSUME NEW me, NEW v \in Views(me), NEW A, NEW q
    PROVE  [[v EXCEPT !.out = q] EXCEPT !.active = A]
              = [active |-> A, passive |-> v.passive, out |-> q]
<1> DEFINE u == [v EXCEPT !.out = q]
           w == [u EXCEPT !.active = A]
<1>1. DOMAIN v = {"active", "passive", "out"}
  BY DEF Views
<1>2. DOMAIN u = {"active", "passive", "out"} /\ u["passive"] = v["passive"] /\ u["out"] = q
  BY <1>1
<1> HIDE DEF u
<1>3. w = [active |-> A, passive |-> u["passive"], out |-> u["out"]]
  BY <1>2
<1> QED
  BY <1>2, <1>3 DEF u

(* A peer leaves the active view, whether or not it was in there.          *)
LEMMA NodeIsRemoved ==
    ASSUME NEW me \in Peers, NEW T, NEW R, NEW v, ViewInv(me, v, T, R),
           NEW p \in Peers, NEW s \in Seq(Quiet(me)), NEW u \in Seq(ViewEvents(me)),
           u = s \o <<PeerRemoved(p)>>
    PROVE  /\ ViewInv(me, [push(v, u) EXCEPT !.active = v.active \ {p}], T, R)
           /\ p \notin [push(v, u) EXCEPT !.active = v.active \ {p}].active
<1> DEFINE A == v.active \ {p}
           e == PeerRemoved(p)
           q == v.out \o (s \o <<e>>)
           w == [push(v, u) EXCEPT !.active = A]
<1>1. v \in Views(me) /\ A \in SUBSET Others(me) /\ A \ {p} = v.active \ {p} /\ p \notin A
  BY DEF ViewInv, Views
<1>2. e \in ViewEvents(me) /\ e \in {PeerAdded(p), PeerRemoved(p)} /\ e # PeerAdded(p)
  BY DEF ViewEvents, PeerRemoved, PeerAdded
<1>3. push(v, u) = [v EXCEPT !.out = q]
  BY DEF push
<1> HIDE DEF A, e
<1>4. ViewInv(me, [active |-> A, passive |-> v.passive, out |-> q], T, R)
  BY <1>1, <1>2, PeerChanges
<1> HIDE DEF q
<1>5. w = [active |-> A, passive |-> v.passive, out |-> q]
  <2>1. w = [[v EXCEPT !.out = q] EXCEPT !.active = A]
    BY <1>3
  <2> QED
    BY <2>1, <1>1, ViewRecord
<1> QED
  BY <1>1, <1>4, <1>5 DEF A

LEMMA NodesBecomePassive ==
    ASSUME NEW me \in Peers, NEW T, NEW R, NEW v, ViewInv(me, v, T, R),
           NEW nodes \in SUBSET Peers, NEW w \in add_nodes_to_passive_view(me, v, nodes)
    PROVE  ViewInv(me, w, T, R) /\ w.active = v.active
<1> DEFINE all == v.passive \cup (nodes \ {me})
<1>1. all \subseteq Peers
  BY DEF ViewInv, Views
<1>2. PICK kept \in SUBSET all : w = [v EXCEPT !.passive = kept]
  BY DEF add_nodes_to_passive_view, kSubset
<1>3. kept \in SUBSET Peers
  BY <1>1
<1> QED
  BY <1>2, <1>3, PassiveChanges

LEMMA SlotIsFreed ==
    ASSUME NEW me \in Peers, NEW T, NEW R, NEW v, ViewInv(me, v, T, R),
           NEW w \in free_up_active_slot(me, v)
    PROVE  ViewInv(me, w, T, R)
<1>1. CASE w = v
  BY <1>1
<1>2. CASE w # v
  <2>1. PICK p \in v.passive :
           w \in add_node_to_passive_view(me,
                    [push(v, <<Notify(p, Disconnect(TRUE)), PeerRemoved(p)>>)
                     EXCEPT !.active = v.active \ {p}], p)
    <3>1. ASSUME NEW u PROVE push(v, u).active = v.active
      BY DEF push, ViewInv, Views
    <3>2. PICK p \in v.passive :
             w \in add_node_to_passive_view(me,
                      [push(v, <<Notify(p, Disconnect(TRUE)), PeerRemoved(p)>>)
                       EXCEPT !.active = @ \ {p}], p)
      BY <1>2 DEF free_up_active_slot
    <3> QED
      BY <3>1, <3>2
  <2>2. p \in Peers
    BY DEF ViewInv, Views
  <2> DEFINE u == <<Notify(p, Disconnect(TRUE)), PeerRemoved(p)>>
             s == <<Notify(p, Disconnect(TRUE))>>
             x == [push(v, u) EXCEPT !.active = v.active \ {p}]
  <2>3. Notify(p, Disconnect(TRUE)) \in Quiet(me)
    BY <2>2, RpcsOfViews, QuietEvents
  <2>4. PeerRemoved(p) \in ViewEvents(me)
    BY <2>2 DEF ViewEvents, PeerRemoved
  <2>5. s \in Seq(Quiet(me)) /\ u \in Seq(ViewEvents(me)) /\ u = s \o <<PeerRemoved(p)>>
    <3>1. Notify(p, Disconnect(TRUE)) \in ViewEvents(me)
      BY <2>3 DEF Quiet
    <3> QED
      BY <3>1, <2>3, <2>4, ShortSeqs
  <2> HIDE DEF u, s
  <2>6. ViewInv(me, x, T, R)
    BY <2>2, <2>5, NodeIsRemoved
  <2>7. w \in add_nodes_to_passive_view(me, x, {p})
    BY <2>1 DEF add_node_to_passive_view, u
  <2> HIDE DEF x
  <2> QED
    BY <2>2, <2>6, <2>7, NodesBecomePassive
<1> QED
  BY <1>1, <1>2

LEMMA NodeIsAdmitted ==
    ASSUME NEW me \in Peers, NEW T, NEW R, NEW v, ViewInv(me, v, T, R),
           NEW p \in Peers, NEW w \in admit(me, v, p)
    PROVE  ViewInv(me, w, T, R)
<1>1. CASE w = add_node_to_active_view(me, v, p, TRUE)
  BY <1>1, NodeIsAdded
<1>2. CASE w \in add_nodes_to_passive_view(me, v, {p})
  BY <1>2, NodesBecomePassive
<1> QED
  BY <1>1, <1>2 DEF admit, add_node_to_passive_view

(* The message that inject_join and inject_forward_join pass on.           *)
LEMMA JoinIsForwarded ==
    ASSUME NEW me \in Peers, NEW T, NEW R, NEW w, ViewInv(me, w, T, R),
           NEW S, NEW p \in Peers, NEW ttl \in Nat
    PROVE  ViewInv(me, push(w, ToAll(w.active \ S, ForwardJoin(p, ttl))), T, R)
<1>1. w.active \ S \in SUBSET Peers
  BY DEF ViewInv, Views, Others
<1>2. ToAll(w.active \ S, ForwardJoin(p, ttl)) \in Seq(Quiet(me))
  BY <1>1, RpcsOfViews, QuietToAll
<1> QED
  BY <1>2, PushQuiet

LEMMA JoinKeeps ==
    ASSUME NEW me \in Peers, NEW T, NEW R, NEW v, ViewInv(me, v, T, R),
           NEW sender, NEW p \in Peers, NEW ttl \in Nat,
           NEW w \in inject_join(me, v, sender, p, ttl)
    PROVE  ViewInv(me, w, T, R)
<1>1. CASE w = v
  BY <1>1
<1>2. CASE w # v
  <2>1. PICK u \in admit(me, v, p) :
           w = push(u, ToAll(u.active \ {p, sender}, ForwardJoin(p, ttl)))
    BY <1>2 DEF inject_join
  <2>2. ViewInv(me, u, T, R)
    BY NodeIsAdmitted
  <2> QED
    BY <2>1, <2>2, JoinIsForwarded
<1> QED
  BY <1>1, <1>2

LEMMA ForwardJoinKeeps ==
    ASSUME NEW me \in Peers, NEW T, NEW R, NEW v, ViewInv(me, v, T, R),
           NEW sender, NEW p \in Peers, NEW ttl \in Nat,
           NEW w \in inject_forward_join(me, v, sender, p, ttl)
    PROVE  ViewInv(me, w, T, R)
<1>1. CASE w = v
  BY <1>1
<1>2. CASE w # v
  <2> DEFINE freed == IF ttl = 0 /\ p \notin v.active THEN free_up_active_slot(me, v) ELSE {v}
  <2>1. PICK y \in freed : \E u \in admit(me, y, p) :
           w = IF ttl = 0 THEN u
               ELSE push(u, ToAll(u.active \ {p, sender}, ForwardJoin(p, ttl - 1)))
    BY <1>2 DEF inject_forward_join
  <2>2. ViewInv(me, y, T, R)
    BY SlotIsFreed
  <2>3. PICK u \in admit(me, y, p) :
           w = IF ttl = 0 THEN u
               ELSE push(u, ToAll(u.active \ {p, sender}, ForwardJoin(p, ttl - 1)))
    BY <2>1
  <2>4. ViewInv(me, u, T, R)
    BY <2>2, <2>3, NodeIsAdmitted
  <2>5. CASE ttl = 0
    BY <2>3, <2>4, <2>5
  <2>6. CASE ttl # 0
    <3>1. ttl - 1 \in Nat
      BY <2>6
    <3> DEFINE k == ttl - 1
    <3> HIDE DEF k
    <3>2. ViewInv(me, push(u, ToAll(u.active \ {p, sender}, ForwardJoin(p, k))), T, R)
      BY <3>1, <2>4, JoinIsForwarded DEF k
    <3> QED
      BY <3>2, <2>3, <2>6 DEF k
  <2> QED
    BY <2>5, <2>6
<1> QED
  BY <1>1, <1>2

(* A peer that is disconnected is no neighbour any more.                   *)
LEMMA DisconnectKeeps ==
    ASSUME NEW me \in Peers, NEW T, NEW R, NEW v, ViewInv(me, v, T, R),
           NEW p \in Peers, NEW alive, NEW w \in inject_disconnect(me, v, p, alive)
    PROVE  ViewInv(me, w, T, R) /\ p \notin w.active
<1> DEFINE kept == IF alive
                   THEN IF p \in v.active THEN add_node_to_passive_view(me, v, p) ELSE {v}
                   ELSE {[v EXCEPT !.passive = v.passive \ {p}]}
<1>1. PICK u \in kept : w = IF p \in u.active
                            THEN [push(u, <<PeerRemoved(p)>>) EXCEPT !.active = u.active \ {p}]
                            ELSE u
  <2>1. inject_disconnect(me, v, p, alive) =
           {IF p \in u.active THEN [push(u, <<PeerRemoved(p)>>) EXCEPT !.active = @ \ {p}]
            ELSE u : u \in kept}
    BY DEF inject_disconnect
  <2>2. \A u : [push(u, <<PeerRemoved(p)>>) EXCEPT !.active = @ \ {p}]
               = [push(u, <<PeerRemoved(p)>>) EXCEPT !.active = u.active \ {p}]
    BY DEF push
  <2> HIDE DEF kept
  <2> QED
    BY <2>1, <2>2
<1>2. ViewInv(me, u, T, R)
  <2>1. CASE u = v
    BY <2>1
  <2>2. CASE u \in add_nodes_to_passive_view(me, v, {p})
    BY <2>2, NodesBecomePassive
  <2>3. CASE u = [v EXCEPT !.passive = v.passive \ {p}]
    <3>1. v.passive \ {p} \in SUBSET Peers
      BY DEF ViewInv, Views
    <3> QED
      BY <3>1, <2>3, PassiveChanges
  <2> QED
    BY <2>1, <2>2, <2>3 DEF add_node_to_passive_view
<1> HIDE DEF kept
<1>3. CASE p \notin u.active
  BY <1>1, <1>2, <1>3
<1>4. CASE p \in u.active
  <2> DEFINE s == <<>>
             r == <<PeerRemoved(p)>>
  <2>1. PeerRemoved(p) \in ViewEvents(me)
    BY DEF ViewEvents, PeerRemoved
  <2>2. s \in Seq(Quiet(me)) /\ r \in Seq(ViewEvents(me)) /\ r = s \o <<PeerRemoved(p)>>
    BY <2>1
  <2> HIDE DEF s, r
  <2>3. /\ ViewInv(me, [push(u, r) EXCEPT !.active = u.active \ {p}], T, R)
        /\ p \notin [push(u, r) EXCEPT !.active = u.active \ {p}].active
    BY <2>2, <1>2, NodeIsRemoved
  <2> QED
    BY <2>3, <1>1, <1>4 DEF r
<1> QED
  BY <1>3, <1>4

LEMMA NeighborKeeps ==
    ASSUME NEW me \in Peers, NEW T, NEW R, NEW v, ViewInv(me, v, T, R),
           NEW p \in Peers, p \in R, NEW high, NEW w \in inject_neighbor(me, v, p, high)
    PROVE  ViewInv(me, w, T, R)
<1>1. CASE w = v
  BY <1>1
<1>2. CASE w = add_node_to_active_view(me, v, p, FALSE)
  BY <1>2, NodeIsAdded
<1>3. CASE \E u \in free_up_active_slot(me, v) : w = add_node_to_active_view(me, u, p, FALSE)
  <2>1. PICK u \in free_up_active_slot(me, v) : w = add_node_to_active_view(me, u, p, FALSE)
    BY <1>3
  <2>2. ViewInv(me, u, T, R)
    BY SlotIsFreed
  <2> QED
    BY <2>1, <2>2, NodeIsAdded
<1>4. CASE w \in inject_disconnect(me, v, p, TRUE)
  BY <1>4, DisconnectKeeps
<1> QED
  BY <1>1, <1>2, <1>3, <1>4 DEF inject_neighbor

LEMMA ShuffleKeeps ==
    ASSUME NEW me \in Peers, NEW T, NEW R, NEW v, ViewInv(me, v, T, R),
           NEW from, NEW origin \in Peers, NEW ttl \in Nat, NEW nodes \in SUBSET Peers,
           NEW w \in inject_shuffle(me, v, from, origin, ttl, nodes)
    PROVE  ViewInv(me, w, T, R)
<1> DEFINE unknown == (v.active \cup v.passive) \ nodes
           samples == kSubset(Min({ShuffleMax, Cardinality(unknown)}), unknown)
           fresh == nodes \ (v.active \cup v.passive)
           next(u) == u.active \ {from, origin}
           forward(u) ==
              IF ttl = 0 THEN {u}
              ELSE IF next(u) = {} THEN {add_node_to_active_view(me, u, origin, TRUE)}
              ELSE {push(u, <<Notify(p, Shuffle(origin, ttl - 1, nodes))>>) : p \in next(u)}
<1>1. PICK s \in samples :
         \E u \in add_nodes_to_passive_view(me, send_shuffle_reply(v, origin, s), fresh) :
            w \in forward(u)
  <2> DEFINE spread(s) == add_nodes_to_passive_view(me, send_shuffle_reply(v, origin, s), fresh)
  <2>1. w \in UNION {forward(u) : u \in UNION {spread(s) : s \in samples}}
    BY Zenon DEF inject_shuffle
  <2> HIDE DEF samples, forward, spread
  <2>2. PICK u \in UNION {spread(s) : s \in samples} : w \in forward(u)
    BY <2>1, Zenon
  <2>3. PICK s \in samples : u \in spread(s)
    BY <2>2, Zenon
  <2> QED
    BY <2>2, <2>3, Zenon DEF spread
<1>2. s \in SUBSET Peers /\ fresh \in SUBSET Peers
  BY DEF kSubset, ViewInv, Views, Others
<1> HIDE DEF samples, fresh
<1> DEFINE d == IF origin \in v.active THEN <<>> ELSE <<Dial(origin, TRUE)>>
           r == d \o <<Notify(origin, ShuffleReply(s))>>
           x == send_shuffle_reply(v, origin, s)
<1>3. ViewInv(me, x, T, R)
  <2>1. ShuffleReply(s) \in ViewRpcs(me)
    BY <1>2, RpcsOfViews
  <2>2. Dial(origin, TRUE) \in Quiet(me) /\ Notify(origin, ShuffleReply(s)) \in Quiet(me)
    BY <2>1, QuietEvents
  <2> DEFINE y == <<Notify(origin, ShuffleReply(s))>>
  <2>3. d \in Seq(Quiet(me)) /\ y \in Seq(Quiet(me))
    <3>1. /\ <<>> \in Seq(Quiet(me)) /\ <<Dial(origin, TRUE)>> \in Seq(Quiet(me))
          /\ y \in Seq(Quiet(me))
      BY <2>2, ShortSeqs
    <3> HIDE DEF y
    <3> QED
      BY <3>1, Zenon
  <2>4. r \in Seq(Quiet(me))
    <3>1. r = d \o y
      OBVIOUS
    <3> HIDE DEF d, y, r
    <3> QED
      BY <3>1, <2>3
  <2>5. x = push(v, r)
    BY DEF send_shuffle_reply
  <2> HIDE DEF r
  <2> QED
    BY <2>4, <2>5, PushQuiet
<1> HIDE DEF x
<1>4. PICK u \in add_nodes_to_passive_view(me, x, fresh) : w \in forward(u)
  BY <1>1 DEF x
<1>5. ViewInv(me, u, T, R)
  BY <1>2, <1>3, <1>4, NodesBecomePassive
<1>6. CASE w = u
  BY <1>5, <1>6
<1>7. CASE w = add_node_to_active_view(me, u, origin, TRUE)
  BY <1>5, <1>7, NodeIsAdded
<1>8. CASE ttl # 0 /\ \E p \in next(u) :
              w = push(u, <<Notify(p, Shuffle(origin, ttl - 1, nodes))>>)
  <2>1. PICK p \in next(u) : w = push(u, <<Notify(p, Shuffle(origin, ttl - 1, nodes))>>)
    BY <1>8
  <2>2. p \in Peers /\ ttl - 1 \in Nat
    BY <1>5, <1>8 DEF ViewInv, Views, Others
  <2> DEFINE k == ttl - 1
             e == Notify(p, Shuffle(origin, k, nodes))
  <2>3. k \in Nat
    BY <2>2
  <2> HIDE DEF k
  <2>4. e \in Quiet(me)
    <3>1. Shuffle(origin, k, nodes) \in ViewRpcs(me)
      BY <2>3, RpcsOfViews
    <3> QED
      BY <3>1, <2>2, QuietEvents
  <2>5. w = push(u, <<e>>)
    BY <2>1 DEF k
  <2> HIDE DEF e
  <2>6. <<e>> \in Seq(Quiet(me))
    BY <2>4
  <2> QED
    BY <2>5, <2>6, <1>5, PushQuiet
<1> QED
  BY <1>4, <1>6, <1>7, <1>8

LEMMA ShuffleReplyKeeps ==
    ASSUME NEW me \in Peers, NEW T, NEW R, NEW v, ViewInv(me, v, T, R),
           NEW nodes \in SUBSET Peers
    PROVE  ViewInv(me, inject_shuffle_reply(v, nodes), T, R)
<1> DEFINE all == v.passive \cup nodes
           P == IF Cardinality(all) > MaxPassive THEN {} ELSE all
<1>1. P \in SUBSET Peers
  BY DEF ViewInv, Views
<1>2. inject_shuffle_reply(v, nodes) = [v EXCEPT !.passive = P]
  BY DEF inject_shuffle_reply
<1> HIDE DEF P
<1> QED
  BY <1>1, <1>2, PassiveChanges

LEMMA ShuffleTimerKeeps ==
    ASSUME NEW me \in Peers, NEW T, NEW R, NEW v, ViewInv(me, v, T, R),
           NEW w \in shuffle_timer(me, v)
    PROVE  ViewInv(me, w, T, R) /\ v.active # {}
<1>1. PICK p \in v.active : w \in send_shuffle(me, v, p)
  BY DEF shuffle_timer
<1>2. PICK ab \in (SUBSET v.active) \X (SUBSET v.passive) :
         w = push(v, <<Notify(p, Shuffle(me, WalkLength, ab[1] \cup ab[2]))>>)
  BY <1>1 DEF send_shuffle
<1> DEFINE nodes == ab[1] \cup ab[2]
           e == Notify(p, Shuffle(me, WalkLength, nodes))
<1>3. p \in Peers /\ nodes \in SUBSET Peers /\ WalkLength \in Nat
  BY HyParViewAssumption DEF ViewInv, Views, Others
<1> HIDE DEF nodes
<1>4. e \in Quiet(me)
  <2>1. Shuffle(me, WalkLength, nodes) \in ViewRpcs(me)
    BY <1>3, RpcsOfViews
  <2> QED
    BY <2>1, <1>3, QuietEvents
<1>5. w = push(v, <<e>>)
  BY <1>2 DEF nodes
<1> HIDE DEF e
<1>6. <<e>> \in Seq(Quiet(me))
  BY <1>4
<1> QED
  BY <1>1, <1>5, <1>6, PushQuiet

LEMMA TickKeeps ==
    ASSUME NEW me \in Peers, NEW T, NEW R, NEW v, ViewInv(me, v, T, R),
           NEW w \in maybe_move_random_passive_to_active(me, v)
    PROVE  ViewInv(me, w, T, R)
<1>1. CASE w = v
  BY <1>1
<1>2. CASE w # v
  <2>1. PICK p \in v.passive :
           w = add_node_to_active_view(me, [v EXCEPT !.passive = v.passive \ {p}], p, TRUE)
    BY <1>2 DEF maybe_move_random_passive_to_active
  <2>2. p \in Peers /\ v.passive \ {p} \in SUBSET Peers
    BY DEF ViewInv, Views
  <2> DEFINE x == [v EXCEPT !.passive = v.passive \ {p}]
  <2>3. ViewInv(me, x, T, R)
    BY <2>2, PassiveChanges
  <2>4. w = add_node_to_active_view(me, x, p, TRUE)
    BY <2>1
  <2> HIDE DEF x
  <2> QED
    BY <2>2, <2>3, <2>4, NodeIsAdded
<1> QED
  BY <1>1, <1>2

-----------------------------------------------------------------------------
(***************************************************************************)
(* The handlers of PlumTree.                                               *)
(***************************************************************************)
Notices == [type : {"Notify"}, peer : Peers, rpc : TreeRpcs]

LEMMA NoticesToAll ==
    ASSUME NEW S \in SUBSET Peers, NEW rpc \in TreeRpcs
    PROVE  ToAll(S, rpc) \in Seq(Notices)
<1> DEFINE E == [type : {"Notify"}, peer : S, rpc : {rpc}]
<1>1. E \subseteq Notices
  BY DEF Notices
<1>2. ToAll(S, rpc) \in Seq(E)
  BY ToAllIsSeq
<1> HIDE DEF E
<1> QED
  BY <1>1, <1>2, SeqOfMore

LEMMA NoticesAreEvents ==
    /\ Notices \subseteq TreeEvents /\ \A e \in Notices : e.type = "Notify"
    /\ \A s \in Seq(Notices) : s \in Seq(TreeEvents)
<1>1. Notices \subseteq TreeEvents
  BY DEF Notices, TreeEvents
<1>2. \A e \in Notices : e.type = "Notify"
  BY DEF Notices
<1> QED
  BY <1>1, <1>2, SeqOfMore

LEMMA TreeRpcsAre ==
    /\ \A id \in Ids, hop \in Nat : Message(id, hop) \in TreeRpcs
    /\ \A ihaves \in Partial(Nat) : IHave(ihaves) \in TreeRpcs
    /\ Prune \in TreeRpcs
    /\ \A ids \in SUBSET Ids : Graft(ids) \in TreeRpcs
  BY DEF TreeRpcs, Message, IHave, Prune, Graft

LEMMA TreeIs ==
    ASSUME NEW me, NEW t \in Trees(me)
    PROVE  /\ DOMAIN t = {"eager", "lazy", "received", "observed", "out"}
           /\ t.eager \in SUBSET Others(me) /\ t.lazy \in SUBSET Others(me)
           /\ t.eager \in SUBSET Peers /\ t.lazy \in SUBSET Peers
           /\ t.received \in Partial(Receipts) /\ t.out \in Seq(TreeEvents)
           /\ t.observed \in Partial(Sightings)
  BY DEF Trees, Others

LEMMA HistoryIsNat == HistoryWindow \in Nat
  BY PlumTreeAssumption

LEMMA OwedGrows ==
    ASSUME NEW k \in Nat
    PROVE  /\ Owed(k) \in Nat /\ Owed(k + 1) = Owed(k) + HistoryWindow
           /\ (k - 1) * HistoryWindow = Owed(k) - HistoryWindow
  BY HistoryIsNat, SMTT(60) DEF Owed

LEMMA ReceiptIs ==
    ASSUME NEW me, NEW d, NEW time, NEW t, TreeInv(me, t, d, time), NEW id \in DOMAIN t.received
    PROVE  id \in Ids /\ t.received[id] \in Receipts /\ t.received[id].at \in Nat
<1>1. t.received \in Partial(Receipts)
  BY TreeIs DEF TreeInv
<1>2. id \in Ids /\ t.received[id] \in Receipts
  BY <1>1 DEF Partial
<1> QED
  BY <1>2 DEF Receipts

(* The deliveries that are queued.                                         *)
LEMMA DeliversIsFinite ==
    ASSUME NEW q \in Seq(TreeEvents), NEW id
    PROVE  IsFiniteSet(Delivers(q, id)) /\ Cardinality(Delivers(q, id)) \in Nat
<1>1. IsFiniteSet(1..Len(q)) /\ Delivers(q, id) \subseteq 1..Len(q)
  BY FS_Interval DEF Delivers
<1> QED
  BY <1>1, FS_Subset, FS_CardinalityType

LEMMA CountIsNat ==
    ASSUME NEW me, NEW d, NEW time, NEW t, TreeInv(me, t, d, time), NEW id \in Ids
    PROVE  Count(t.out, d, id) \in Nat
<1>1. t.out \in Seq(TreeEvents) /\ d[id] \in Nat
  BY TreeIs DEF TreeInv
<1>2. Cardinality(Delivers(t.out, id)) \in Nat
  BY <1>1, DeliversIsFinite
<1> QED
  BY <1>1, <1>2 DEF Count

(* Time does no harm.                                                      *)
LEMMA TimePasses ==
    ASSUME NEW me, NEW d, NEW time, NEW t, TreeInv(me, t, d, time), NEW later \in Nat, time <= later
    PROVE  TreeInv(me, t, d, later)
<1> SUFFICES ASSUME NEW id \in Ids
             PROVE  Paced(t.received, id, Count(t.out, d, id), later)
  BY DEF TreeInv
<1> DEFINE k == Count(t.out, d, id)
<1>1. k \in Nat /\ Paced(t.received, id, k, time) /\ time \in Nat
  BY CountIsNat DEF TreeInv
<1>2. id \in DOMAIN t.received => t.received[id].at \in Nat
  BY ReceiptIs
<1> HIDE DEF k
<1>3. Owed(k) \in Nat
  BY <1>1, OwedGrows
<1>4. Paced(t.received, id, k, later)
  BY <1>1, <1>2, <1>3 DEF Paced
<1> QED
  BY <1>4 DEF k

(* The tree changes and messages are queued.                               *)
LEMMA TreeChanges ==
    ASSUME NEW me, NEW d, NEW time, NEW t, TreeInv(me, t, d, time), NEW w \in Trees(me),
           NEW s \in Seq(Notices), w.out = t.out \o s,
           w.received = t.received
    PROVE  TreeInv(me, w, d, time)
<1> DEFINE q == t.out \o s
<1>1. t.out \in Seq(TreeEvents) /\ s \in Seq(TreeEvents)
      /\ \A i \in DOMAIN s : s[i].type = "Notify"
  <2>1. t.out \in Seq(TreeEvents)
    BY TreeIs DEF TreeInv
  <2>2. \A i \in DOMAIN s : s[i] \in Notices
    OBVIOUS
  <2> QED
    BY <2>1, <2>2, NoticesAreEvents
<1>2. DOMAIN t.out \subseteq DOMAIN q /\ \A i \in DOMAIN t.out : q[i] = t.out[i]
  BY <1>1
<1>3. \A i \in DOMAIN q \ DOMAIN t.out : q[i].type = "Notify"
  BY <1>1
<1> HIDE DEF q
<1>4. \A id : Deliver(id).type = "Deliver"
  BY DEF Deliver
<1>5. \A id : Delivers(q, id) = Delivers(t.out, id)
  BY <1>2, <1>3, <1>4 DEF Delivers
<1>6. w.out = q
  BY DEF q
<1> QED
  BY <1>5, <1>6 DEF TreeInv, Count

LEMMA PushNotices ==
    ASSUME NEW me, NEW d, NEW time, NEW t, TreeInv(me, t, d, time), NEW s \in Seq(Notices)
    PROVE  /\ TreeInv(me, push(t, s), d, time) /\ push(t, s) = [t EXCEPT !.out = t.out \o s]
           /\ Near(push(t, s)) = Near(t)
           /\ push(t, s).received = t.received /\ push(t, s).observed = t.observed
           /\ push(t, s).eager = t.eager /\ push(t, s).lazy = t.lazy
<1> DEFINE q == t.out \o s
           w == [t EXCEPT !.out = q]
<1>1. t \in Trees(me) /\ t.out \in Seq(TreeEvents) /\ s \in Seq(TreeEvents)
  BY TreeIs, NoticesAreEvents DEF TreeInv
<1>2. q \in Seq(TreeEvents)
  BY <1>1
<1>3. push(t, s) = w
  BY DEF push
<1> HIDE DEF q
<1>4. /\ w \in Trees(me) /\ w.out = q /\ w.received = t.received /\ w.observed = t.observed
      /\ w.eager = t.eager /\ w.lazy = t.lazy
  BY <1>1, <1>2 DEF Trees
<1> HIDE DEF w
<1>5. TreeInv(me, w, d, time)
  BY <1>4, TreeChanges DEF q
<1> QED
  BY <1>3, <1>4, <1>5 DEF Near, w, q

(* Peers move between eager and lazy, come and go.                         *)
LEMMA PeersMove ==
    ASSUME NEW me, NEW d, NEW time, NEW t, TreeInv(me, t, d, time), NEW w \in Trees(me),
           w.out = t.out, w.received = t.received
    PROVE  TreeInv(me, w, d, time)
  BY DEF TreeInv

LEMMA PruneKeeps ==
    ASSUME NEW me, NEW d, NEW time, NEW t, TreeInv(me, t, d, time), NEW p \in Others(me)
    PROVE  /\ TreeInv(me, inject_prune(t, p), d, time)
           /\ Near(t) \subseteq Near(inject_prune(t, p))
<1> DEFINE E == t.eager \ {p}
           L == t.lazy \cup {p}
           w == inject_prune(t, p)
<1>1. t \in Trees(me) /\ E \in SUBSET Others(me) /\ L \in SUBSET Others(me)
  BY TreeIs DEF TreeInv
<1>2. w = [t EXCEPT !.eager = E, !.lazy = L]
  BY DEF inject_prune
<1> HIDE DEF E, L
<1>3. /\ w \in Trees(me) /\ w.out = t.out /\ w.received = t.received
      /\ w.eager = E /\ w.lazy = L
  BY <1>1, <1>2 DEF Trees
<1> HIDE DEF w
<1>4. TreeInv(me, w, d, time)
  BY <1>3, PeersMove
<1> QED
  BY <1>3, <1>4 DEF Near, E, L, w

LEMMA UpAndDownKeep ==
    ASSUME NEW me, NEW d, NEW time, NEW t, TreeInv(me, t, d, time), NEW p
    PROVE  /\ p \in Others(me) => TreeInv(me, inject_neighbor_up(t, p), d, time)
           /\ TreeInv(me, inject_neighbor_down(t, p), d, time)
           /\ Near(inject_neighbor_up(t, p)) = Near(t) \cup {p}
           /\ Near(inject_neighbor_down(t, p)) = Near(t) \ {p}
<1>1. t \in Trees(me) /\ t.eager \in SUBSET Others(me) /\ t.lazy \in SUBSET Others(me)
  BY TreeIs DEF TreeInv
<1>4. /\ TreeInv(me, inject_neighbor_down(t, p), d, time)
      /\ Near(inject_neighbor_down(t, p)) = Near(t) \ {p}
  <2> DEFINE E == t.eager \ {p}
             L == t.lazy \ {p}
             w == inject_neighbor_down(t, p)
  <2>1. E \in SUBSET Others(me) /\ L \in SUBSET Others(me)
    BY <1>1
  <2>2. w = [t EXCEPT !.eager = E, !.lazy = L]
    BY DEF inject_neighbor_down
  <2> HIDE DEF E, L
  <2>3. /\ w \in Trees(me) /\ w.out = t.out /\ w.received = t.received
        /\ w.eager = E /\ w.lazy = L
    BY <1>1, <2>1, <2>2 DEF Trees
  <2> HIDE DEF w
  <2>4. TreeInv(me, w, d, time)
    BY <2>3, PeersMove
  <2> QED
    BY <2>3, <2>4 DEF Near, E, L, w
<1>5. Near(inject_neighbor_up(t, p)) = Near(t) \cup {p}
  BY <1>1 DEF inject_neighbor_up, Near, Trees
<1>6. ASSUME p \in Others(me) PROVE TreeInv(me, inject_neighbor_up(t, p), d, time)
  <2> DEFINE E == t.eager \cup {p}
             w == inject_neighbor_up(t, p)
  <2>1. E \in SUBSET Others(me)
    BY <1>1, <1>6
  <2>2. w = [t EXCEPT !.eager = E]
    BY DEF inject_neighbor_up
  <2> HIDE DEF E
  <2>3. w \in Trees(me) /\ w.out = t.out /\ w.received = t.received
    BY <1>1, <2>1, <2>2 DEF Trees
  <2> HIDE DEF w
  <2>4. TreeInv(me, w, d, time)
    BY <2>3 DEF TreeInv
  <2> QED
    BY <2>4 DEF w
<1> QED
  BY <1>4, <1>5, <1>6 DEF Near

(* A message enters the cache.                                             *)
LEMMA MessageIsKept ==
    ASSUME NEW r \in Partial(Receipts), NEW id \in Ids, NEW x \in Receipts
    PROVE  /\ Update(r, id, x) \in Partial(Receipts)
           /\ DOMAIN Update(r, id, x) = DOMAIN r \cup {id}
           /\ Update(r, id, x)[id] = x
           /\ \A y \in DOMAIN r : y # id => Update(r, id, x)[y] = r[y]
<1> DEFINE u == Update(r, id, x)
<1>1. PICK D \in SUBSET Ids : r \in [D -> Receipts]
  BY DEF Partial
<1>2. /\ DOMAIN r = D /\ u \in [D \cup {id} -> Receipts] /\ D \cup {id} \in SUBSET Ids
      /\ u[id] = x /\ \A y \in DOMAIN r : y # id => u[y] = r[y]
  BY <1>1 DEF Update
<1> HIDE DEF u
<1>3. u \in Partial(Receipts) /\ DOMAIN u = D \cup {id}
  BY <1>2 DEF Partial
<1> QED
  BY <1>2, <1>3 DEF u

(* What was received keeps its time, and what is new has come now.         *)
LEMMA ReceivedGrows ==
    ASSUME NEW me, NEW d, NEW time, NEW t, TreeInv(me, t, d, time), NEW r \in Partial(Receipts),
           \A x \in DOMAIN t.received : x \in DOMAIN r /\ r[x].at = t.received[x].at,
           \A x \in DOMAIN r : x \in DOMAIN t.received \/ r[x].at = time,
           NEW w, w = [t EXCEPT !.received = r]
    PROVE  /\ TreeInv(me, w, d, time) /\ Near(w) = Near(t) /\ w.received = r /\ w.out = t.out
<1>1. t \in Trees(me) /\ time \in Nat
  BY DEF TreeInv
<1>2. /\ w \in Trees(me) /\ w.received = r /\ w.out = t.out
      /\ w.eager = t.eager /\ w.lazy = t.lazy
  BY <1>1 DEF Trees
<1>3. TreeInv(me, w, d, time)
  <2> SUFFICES ASSUME NEW id \in Ids
               PROVE  d[id] \in Nat /\ Paced(r, id, Count(t.out, d, id), time)
    BY <1>1, <1>2 DEF TreeInv
  <2> DEFINE k == Count(t.out, d, id)
  <2>1. d[id] \in Nat /\ k \in Nat /\ Paced(t.received, id, k, time)
    BY CountIsNat DEF TreeInv
  <2> HIDE DEF k
  <2>2. Owed(k) \in Nat
    BY <2>1, OwedGrows
  <2>3. Paced(r, id, k, time)
    BY <1>1, <2>1, <2>2, HistoryIsNat DEF Paced
  <2> QED
    BY <2>1, <2>3 DEF k
<1> QED
  BY <1>2, <1>3 DEF Near

LEMMA PushTwice ==
    ASSUME NEW S, NEW v, v.out \in Seq(S), "out" \in DOMAIN v,
           NEW a \in Seq(S), NEW b \in Seq(S)
    PROVE  push(push(v, a), b) = push(v, a \o b)
<1>1. (v.out \o a) \o b = v.out \o (a \o b)
  <2>1. /\ Len((v.out \o a) \o b) = Len(v.out \o (a \o b)) /\ v.out \o (a \o b) \in Seq(S)
        /\ (v.out \o a) \o b \in Seq(S)
    OBVIOUS
  <2>2. \A i \in 1..Len(v.out \o (a \o b)) : ((v.out \o a) \o b)[i] = (v.out \o (a \o b))[i]
    OBVIOUS
  <2> QED
    BY <2>1, <2>2, SMTT(60)
<1> DEFINE x == v.out \o a
           y == x \o b
<1>2. push(push(v, a), b) = [[v EXCEPT !.out = x] EXCEPT !.out = [v EXCEPT !.out = x].out \o b]
  BY DEF push
<1> HIDE DEF x
<1>3. [v EXCEPT !.out = x].out = x
  OBVIOUS
<1>4. push(push(v, a), b) = [[v EXCEPT !.out = x] EXCEPT !.out = y]
  BY <1>2, <1>3
<1> HIDE DEF y
<1>5. [[v EXCEPT !.out = x] EXCEPT !.out = y] = [v EXCEPT !.out = y]
  OBVIOUS
<1>6. push(v, a \o b) = [v EXCEPT !.out = y]
  BY <1>1 DEF push, x, y
<1> QED
  BY <1>4, <1>5, <1>6

LEMMA PublishKeeps ==
    ASSUME NEW me, NEW d, NEW time, NEW t, TreeInv(me, t, d, time), NEW id \in Ids
    PROVE  TreeInv(me, publish(t, id, time), d, time) /\ Near(publish(t, id, time)) = Near(t)
<1>1. CASE id \in DOMAIN t.received \cup DOMAIN t.observed
  BY <1>1 DEF publish
<1>2. CASE id \notin DOMAIN t.received \cup DOMAIN t.observed
  <2> DEFINE s == ToAll(t.eager, Message(id, 1))
             u == push(t, s)
             x == [hop |-> 0, best |-> 0, at |-> time]
             r == Update(u.received, id, x)
  <2>1. publish(t, id, time) = [u EXCEPT !.received = r]
    BY <1>2 DEF publish
  <2>2. t.eager \in SUBSET Peers /\ Message(id, 1) \in TreeRpcs /\ time \in Nat
    BY TreeIs, TreeRpcsAre DEF TreeInv
  <2>3. s \in Seq(Notices)
    BY <2>2, NoticesToAll
  <2> HIDE DEF s
  <2>4. TreeInv(me, u, d, time) /\ Near(u) = Near(t) /\ u.received = t.received
    BY <2>3, PushNotices
  <2> HIDE DEF u
  <2>5. u.received \in Partial(Receipts)
    BY <2>4, TreeIs DEF TreeInv
  <2>6. x \in Receipts /\ x.at = time
    BY <2>2 DEF Receipts
  <2> HIDE DEF x
  <2>7. /\ r \in Partial(Receipts) /\ DOMAIN r = DOMAIN u.received \cup {id}
        /\ r[id] = x /\ \A y \in DOMAIN u.received : y # id => r[y] = u.received[y]
    BY <2>5, <2>6, MessageIsKept
  <2> HIDE DEF r
  <2>8. /\ \A y \in DOMAIN u.received : y \in DOMAIN r /\ r[y].at = u.received[y].at
        /\ \A y \in DOMAIN r : y \in DOMAIN u.received \/ r[y].at = time
    BY <1>2, <2>4, <2>6, <2>7
  <2> QED
    BY <2>1, <2>4, <2>7, <2>8, ReceivedGrows
<1> QED
  BY <1>1, <1>2

(* A message that is not in the cache yet is put there, to be delivered.   *)
LEMMA DeliveryIsQueued ==
    ASSUME NEW me, NEW d, NEW time, NEW t, TreeInv(me, t, d, time), NEW id \in Ids,
           NEW u, TreeInv(me, u, d, time), u.out = t.out, id \notin DOMAIN t.received,
           id \in DOMAIN u.received, u.received[id].at = time
    PROVE  /\ TreeInv(me, push(u, <<Deliver(id)>>), d, time)
           /\ Near(push(u, <<Deliver(id)>>)) = Near(u)
<1> DEFINE e == Deliver(id)
           q == Append(u.out, e)
           w == [u EXCEPT !.out = q]
<1>1. u \in Trees(me) /\ u.out \in Seq(TreeEvents) /\ e \in TreeEvents /\ time \in Nat
  BY TreeIs DEF TreeInv, Deliver, TreeEvents
<1>2. q \in Seq(TreeEvents) /\ q = u.out \o <<e>>
  BY <1>1
<1>3. push(u, <<e>>) = w
  BY <1>2 DEF push
<1>4. /\ DOMAIN q = DOMAIN u.out \cup {Len(u.out) + 1}
      /\ Len(u.out) + 1 \notin DOMAIN u.out
      /\ \A i \in DOMAIN u.out : q[i] = u.out[i]
      /\ q[Len(u.out) + 1] = e
  BY <1>1
<1> HIDE DEF q
<1>5. /\ w \in Trees(me) /\ w.out = q /\ w.received = u.received
      /\ w.eager = u.eager /\ w.lazy = u.lazy
  BY <1>1, <1>2 DEF Trees
<1> HIDE DEF w
<1>6. \A x : x # id => Delivers(q, x) = Delivers(u.out, x)
  <2>1. \A x : x # id => e # Deliver(x)
    BY DEF Deliver
  <2> HIDE DEF e
  <2> QED
    BY <2>1, <1>4 DEF Delivers
<1>7. Count(q, d, id) = Count(u.out, d, id) + 1
  <2> DEFINE D == Delivers(u.out, id)
             i == Len(u.out) + 1
  <2>1. IsFiniteSet(D) /\ Cardinality(D) \in Nat /\ d[id] \in Nat
    BY <1>1, DeliversIsFinite DEF TreeInv
  <2>2. Delivers(q, id) = D \cup {i} /\ i \notin D
    BY <1>4 DEF Delivers
  <2> HIDE DEF D, i
  <2>3. Cardinality(D \cup {i}) = Cardinality(D) + 1
    BY <2>1, <2>2, FS_AddElement
  <2> QED
    BY <2>1, <2>2, <2>3 DEF Count, D
<1>8. TreeInv(me, w, d, time)
  <2> SUFFICES ASSUME NEW x \in Ids
               PROVE  d[x] \in Nat /\ Paced(u.received, x, Count(q, d, x), time)
    BY <1>1, <1>5 DEF TreeInv
  <2>1. d[x] \in Nat /\ Paced(u.received, x, Count(u.out, d, x), time)
    BY DEF TreeInv
  <2>2. CASE x = id
    <3> DEFINE k == Count(u.out, d, id)
    <3>1. k \in Nat /\ Paced(t.received, id, k, time)
      BY CountIsNat DEF TreeInv
    <3>2. Count(q, d, id) = k + 1
      BY <1>7
    <3> HIDE DEF k
    <3>3. Owed(k) <= time
      BY <3>1 DEF Paced
    <3>4. Owed(k + 1) = Owed(k) + HistoryWindow /\ Owed(k) \in Nat
      BY <3>1, OwedGrows
    <3>5. Paced(u.received, id, k + 1, time)
      BY <1>1, <3>3, <3>4, HistoryIsNat DEF Paced
    <3> QED
      BY <2>1, <2>2, <3>2, <3>5
  <2>3. CASE x # id
    BY <2>1, <2>3, <1>6 DEF Count
  <2> QED
    BY <2>2, <2>3
<1> QED
  BY <1>3, <1>5, <1>8 DEF Near

LEMMA LesserIsNat ==
    ASSUME NEW a \in Nat, NEW b \in Nat
    PROVE  Min({a, b}) \in Nat
<1> DEFINE S == {a, b}
<1>1. \E x \in S : \A y \in S : x =< y
  OBVIOUS
<1>2. S \subseteq Nat
  OBVIOUS
<1> HIDE DEF S
<1>3. Min(S) \in S
  BY <1>1 DEF Min
<1> QED
  BY <1>2, <1>3 DEF S

(* What insert keeps for a message.                                        *)
LEMMA EntryIs ==
    ASSUME NEW me, NEW d, NEW time, NEW t, TreeInv(me, t, d, time), NEW id \in Ids,
           NEW hop \in Nat
    PROVE  /\ entry(t, id, hop, time) \in Receipts
           /\ id \in DOMAIN t.received => entry(t, id, hop, time).at = t.received[id].at
           /\ id \notin DOMAIN t.received => entry(t, id, hop, time).at = time
<1>1. CASE id \in DOMAIN t.received
  <2> DEFINE x == t.received[id]
             b == Min({x.best, hop})
  <2>1. x \in Receipts /\ x.best \in Nat
    BY <1>1, ReceiptIs DEF Receipts
  <2>2. entry(t, id, hop, time) = [x EXCEPT !.best = b]
    BY <1>1 DEF entry
  <2> HIDE DEF x
  <2>3. b \in Nat
    BY <2>1, LesserIsNat
  <2> HIDE DEF b
  <2>4. [x EXCEPT !.best = b] \in Receipts /\ [x EXCEPT !.best = b].at = x.at
    BY <2>1, <2>3 DEF Receipts
  <2> QED
    BY <1>1, <2>2, <2>4 DEF x
<1>2. CASE id \notin DOMAIN t.received
  <2>1. entry(t, id, hop, time) = [hop |-> hop, best |-> hop, at |-> time]
    BY <1>2 DEF entry
  <2>2. time \in Nat
    BY DEF TreeInv
  <2> QED
    BY <1>2, <2>1, <2>2 DEF Receipts
<1> QED
  BY <1>1, <1>2

LEMMA MessageKeeps ==
    ASSUME NEW me, NEW d, NEW time, NEW t, TreeInv(me, t, d, time), NEW p \in Others(me),
           NEW id \in Ids, NEW hop \in Nat
    PROVE  /\ TreeInv(me, inject_message(t, p, id, hop, time), d, time)
           /\ Near(t) \subseteq Near(inject_message(t, p, id, hop, time))
<1> DEFINE x == entry(t, id, hop, time)
           r == Update(t.received, id, x)
           u == [t EXCEPT !.received = r]
           w == inject_message(t, p, id, hop, time)
<1>1. /\ insert(t, id, hop, time).new = (id \notin DOMAIN t.received)
      /\ insert(t, id, hop, time).received = r
  BY DEF insert
<1>2. w = IF id \notin DOMAIN t.received
          THEN push(u, <<Deliver(id)>> \o ToAll(t.eager \ {p}, Message(id, hop + 1)))
          ELSE IF OptimizeSenderTree /\ p \in t.eager
          THEN push(inject_prune(u, p), <<Notify(p, Prune)>>)
          ELSE u
  BY <1>1 DEF inject_message
<1>3. /\ TreeInv(me, u, d, time) /\ Near(u) = Near(t) /\ u.out = t.out
      /\ id \in DOMAIN u.received
      /\ id \notin DOMAIN t.received => u.received[id].at = time
  <2>1. t.received \in Partial(Receipts)
    BY TreeIs DEF TreeInv
  <2>2. /\ x \in Receipts
        /\ id \in DOMAIN t.received => x.at = t.received[id].at
        /\ id \notin DOMAIN t.received => x.at = time
    BY EntryIs
  <2> HIDE DEF x
  <2>3. /\ r \in Partial(Receipts) /\ DOMAIN r = DOMAIN t.received \cup {id}
        /\ r[id] = x /\ \A y \in DOMAIN t.received : y # id => r[y] = t.received[y]
    BY <2>1, <2>2, MessageIsKept
  <2>4. u = [t EXCEPT !.received = r]
    OBVIOUS
  <2> HIDE DEF r, u
  <2>5. /\ \A y \in DOMAIN t.received : y \in DOMAIN r /\ r[y].at = t.received[y].at
        /\ \A y \in DOMAIN r : y \in DOMAIN t.received \/ r[y].at = time
    BY <2>2, <2>3
  <2>6. TreeInv(me, u, d, time) /\ Near(u) = Near(t) /\ u.received = r /\ u.out = t.out
    BY <2>3, <2>4, <2>5, ReceivedGrows
  <2> QED
    BY <2>2, <2>3, <2>6
<1> HIDE DEF x, r, u, w
<1>4. CASE id \notin DOMAIN t.received
  <2> DEFINE s == ToAll(t.eager \ {p}, Message(id, hop + 1))
             e == <<Deliver(id)>>
             v == push(u, e)
  <2>1. TreeInv(me, v, d, time) /\ Near(v) = Near(u)
    BY <1>3, <1>4, DeliveryIsQueued
  <2>2. s \in Seq(Notices)
    <3>1. t.eager \ {p} \in SUBSET Peers
      BY TreeIs DEF TreeInv
    <3>2. Message(id, hop + 1) \in TreeRpcs
      BY TreeRpcsAre
    <3> QED
      BY <3>1, <3>2, NoticesToAll
  <2> HIDE DEF s
  <2>3. w = push(u, e \o s)
    BY <1>2, <1>4 DEF s
  <2>4. w = push(v, s)
    <3>1. u.out \in Seq(TreeEvents) /\ "out" \in DOMAIN u
      BY <1>3, TreeIs DEF TreeInv
    <3>2. e \in Seq(TreeEvents)
      BY DEF Deliver, TreeEvents
    <3>3. s \in Seq(TreeEvents)
      BY <2>2, NoticesAreEvents
    <3> HIDE DEF e
    <3> QED
      BY <3>1, <3>2, <3>3, <2>3, PushTwice
  <2> HIDE DEF v
  <2>5. TreeInv(me, w, d, time) /\ Near(w) = Near(v)
    BY <2>1, <2>2, <2>4, PushNotices
  <2> QED
    BY <2>1, <2>5, <1>3 DEF w
<1>5. CASE id \in DOMAIN t.received /\ w = push(inject_prune(u, p), <<Notify(p, Prune)>>)
  <2> DEFINE v == inject_prune(u, p)
             s == <<Notify(p, Prune)>>
  <2>1. TreeInv(me, v, d, time) /\ Near(u) \subseteq Near(v)
    BY <1>3, PruneKeeps
  <2>2. s \in Seq(Notices)
    <3>1. Notify(p, Prune) \in Notices
      BY TreeRpcsAre DEF Notify, Notices, Others
    <3> QED
      BY <3>1
  <2> HIDE DEF v, s
  <2>3. w = push(v, s)
    BY <1>5 DEF v, s
  <2>4. TreeInv(me, w, d, time) /\ Near(w) = Near(v)
    BY <2>1, <2>2, <2>3, PushNotices
  <2> QED
    BY <2>1, <2>4, <1>3 DEF w
<1>6. CASE w = u
  BY <1>3, <1>6 DEF w
<1> QED
  BY <1>2, <1>4, <1>5, <1>6

(* Who has which messages is noted, to be asked later.                     *)
LEMMA IhaveKeeps ==
    ASSUME NEW me, NEW d, NEW time, NEW t, TreeInv(me, t, d, time), NEW p \in Others(me),
           NEW ihaves \in Partial(Nat)
    PROVE  /\ TreeInv(me, inject_ihave(t, p, ihaves, time), d, time)
           /\ Near(inject_ihave(t, p, ihaves, time)) = Near(t)
<1> DEFINE S == Sightings
           o == [id \in DOMAIN t.observed \cup DOMAIN ihaves |->
                    IF id \in DOMAIN t.observed THEN t.observed[id]
                    ELSE [sender |-> p, hop |-> ihaves[id], at |-> time]]
           w == inject_ihave(t, p, ihaves, time)
<1>1. t \in Trees(me) /\ t.observed \in Partial(S) /\ p \in Peers /\ time \in Nat
  BY TreeIs DEF TreeInv, Others
<1>2. w = [t EXCEPT !.observed = o]
  BY DEF inject_ihave
<1>3. o \in Partial(S)
  <2>1. PICK D \in SUBSET Ids : t.observed \in [D -> S]
    BY <1>1 DEF Partial
  <2>2. PICK F \in SUBSET Ids : ihaves \in [F -> Nat]
    BY DEF Partial
  <2>3. \A id \in F : [sender |-> p, hop |-> ihaves[id], at |-> time] \in S
    BY <2>2, <1>1 DEF Sightings
  <2> HIDE DEF S
  <2>4. o \in [D \cup F -> S] /\ D \cup F \in SUBSET Ids
    BY <2>1, <2>2, <2>3
  <2> HIDE DEF o
  <2> QED
    BY <2>4 DEF Partial
<1> HIDE DEF o
<1>4. /\ w \in Trees(me) /\ w.out = t.out /\ w.received = t.received
      /\ w.eager = t.eager /\ w.lazy = t.lazy
  BY <1>1, <1>2, <1>3 DEF Trees
<1> HIDE DEF w
<1>5. TreeInv(me, w, d, time)
  BY <1>4, PeersMove
<1> QED
  BY <1>4, <1>5 DEF Near, w

(* What was asked for is sent again.                                       *)
LEMMA GraftKeeps ==
    ASSUME NEW me, NEW d, NEW time, NEW t, TreeInv(me, t, d, time), NEW p \in Others(me),
           NEW ids \in SUBSET Ids
    PROVE  /\ TreeInv(me, inject_graft(t, p, ids), d, time)
           /\ Near(t) \subseteq Near(inject_graft(t, p, ids))
<1> DEFINE E == t.eager \cup {p}
           L == t.lazy \ {p}
           u == [t EXCEPT !.lazy = L, !.eager = E]
           A == ids \cap DOMAIN t.received
           s == SetToSeq(A)
           q == [i \in DOMAIN s |-> Notify(p, Message(s[i], t.received[s[i]].best))]
           w == inject_graft(t, p, ids)
<1>1. /\ t \in Trees(me) /\ E \in SUBSET Others(me) /\ L \in SUBSET Others(me)
      /\ t.received \in Partial(Receipts) /\ p \in Peers
  BY TreeIs DEF TreeInv, Others
<1>2. w = push(u, q)
  BY DEF inject_graft
<1>3. q \in Seq(Notices)
  <2>1. A \in SUBSET Ids /\ \A id \in A : t.received[id].best \in Nat
    BY <1>1 DEF Partial, Receipts
  <2>2. s \in Seq(A)
    BY <2>1, PeersAreFinite, OrderIsSeq
  <2>3. \A id \in A : Notify(p, Message(id, t.received[id].best)) \in Notices
    <3>1. \A id \in A : Message(id, t.received[id].best) \in TreeRpcs
      BY <2>1, TreeRpcsAre
    <3> QED
      BY <3>1, <1>1 DEF Notify, Notices
  <2> HIDE DEF s, A
  <2>4. \A i \in DOMAIN s : s[i] \in A
    BY <2>2
  <2>5. q \in [DOMAIN s -> Notices]
    BY <2>3, <2>4
  <2> HIDE DEF q
  <2> QED
    BY <2>2, <2>5, ImageIsSeq
<1> HIDE DEF E, L, q
<1>4. /\ u \in Trees(me) /\ u.out = t.out /\ u.received = t.received
      /\ u.eager = E /\ u.lazy = L
  BY <1>1 DEF Trees
<1> HIDE DEF u, w
<1>5. TreeInv(me, u, d, time)
  BY <1>4, PeersMove
<1>6. TreeInv(me, w, d, time) /\ Near(w) = Near(u)
  BY <1>2, <1>3, <1>5, PushNotices
<1>7. Near(t) \subseteq Near(u)
  BY <1>4 DEF Near, E, L
<1> QED
  BY <1>6, <1>7 DEF w

(* A part of a cache is a cache.                                           *)
LEMMA PartOfCache ==
    ASSUME NEW S, NEW r \in Partial(S), NEW A \in SUBSET DOMAIN r
    PROVE  [id \in A |-> r[id]] \in Partial(S)
<1> DEFINE f == [id \in A |-> r[id]]
<1>1. PICK D \in SUBSET Ids : r \in [D -> S]
  BY DEF Partial
<1>2. f \in [A -> S] /\ A \in SUBSET Ids
  BY <1>1
<1> HIDE DEF f
<1>3. f \in Partial(S)
  BY <1>2 DEF Partial
<1> QED
  BY <1>3 DEF f

(* IHAVEs go to the lazy peers.                                            *)
LEMMA IhavesArePublished ==
    ASSUME NEW me, NEW d, NEW time, NEW t, TreeInv(me, t, d, time)
    PROVE  /\ TreeInv(me, publish_ihaves(t, time), d, time)
           /\ Near(publish_ihaves(t, time)) = Near(t)
<1> DEFINE A == {id \in DOMAIN t.received : time - t.received[id].at <= LazyWindow}
           h == [id \in A |-> t.received[id].hop]
<1>1. t.lazy \in SUBSET Peers /\ t.received \in Partial(Receipts)
  BY TreeIs DEF TreeInv
<1>2. CASE A = {}
  BY <1>2 DEF publish_ihaves
<1>3. CASE A # {}
  <2> DEFINE s == ToAll(t.lazy, IHave(h))
  <2>1. publish_ihaves(t, time) = push(t, s)
    BY <1>3 DEF publish_ihaves
  <2>2. h \in Partial(Nat)
    <3>1. \A id \in A : t.received[id].hop \in Nat
      BY ReceiptIs DEF Receipts
    <3>2. A \in SUBSET Ids
      BY ReceiptIs
    <3> HIDE DEF A
    <3>3. h \in [A -> Nat]
      BY <3>1
    <3> HIDE DEF h
    <3> QED
      BY <3>2, <3>3 DEF Partial
  <2> HIDE DEF h
  <2>3. IHave(h) \in TreeRpcs
    BY <2>2, TreeRpcsAre
  <2>4. s \in Seq(Notices)
    BY <1>1, <2>3, NoticesToAll
  <2> HIDE DEF s
  <2> QED
    BY <2>1, <2>4, PushNotices
<1> QED
  BY <1>2, <1>3

(* What is forgotten came in a history window ago.                         *)
LEMMA HistoryIsPruned ==
    ASSUME NEW me, NEW d, NEW time, NEW t, TreeInv(me, t, d, time)
    PROVE  /\ TreeInv(me, prune_history(t, time), d, time)
           /\ Near(prune_history(t, time)) = Near(t)
<1> DEFINE A == {i \in DOMAIN t.received : time - t.received[i].at < HistoryWindow}
           B == {i \in DOMAIN t.observed : time - t.observed[i].at < HistoryWindow}
           r == [id \in A |-> t.received[id]]
           o == [id \in B |-> t.observed[id]]
           w == prune_history(t, time)
<1>1. /\ t \in Trees(me) /\ time \in Nat
      /\ t.received \in Partial(Receipts) /\ t.observed \in Partial(Sightings)
  BY TreeIs DEF TreeInv
<1>2. w = [t EXCEPT !.observed = o, !.received = r]
  BY DEF prune_history, younger
<1>3. r \in Partial(Receipts) /\ o \in Partial(Sightings)
  <2>1. A \in SUBSET DOMAIN t.received /\ B \in SUBSET DOMAIN t.observed
    OBVIOUS
  <2> HIDE DEF A, B
  <2> QED
    BY <1>1, <2>1, PartOfCache
<1>4. /\ DOMAIN r \subseteq DOMAIN t.received
      /\ \A id \in DOMAIN r : r[id] = t.received[id]
      /\ \A id \in DOMAIN t.received \ DOMAIN r : ~(time - t.received[id].at < HistoryWindow)
  OBVIOUS
<1> HIDE DEF r, o
<1>5. /\ w \in Trees(me) /\ w.out = t.out /\ w.received = r
      /\ w.eager = t.eager /\ w.lazy = t.lazy
  BY <1>1, <1>2, <1>3 DEF Trees
<1> HIDE DEF w
<1>6. TreeInv(me, w, d, time)
  <2> SUFFICES ASSUME NEW id \in Ids
               PROVE  d[id] \in Nat /\ Paced(r, id, Count(t.out, d, id), time)
    BY <1>1, <1>5 DEF TreeInv
  <2> DEFINE k == Count(t.out, d, id)
  <2>1. d[id] \in Nat /\ k \in Nat /\ Paced(t.received, id, k, time)
    BY CountIsNat DEF TreeInv
  <2>2. id \in DOMAIN t.received => t.received[id].at \in Nat
    BY ReceiptIs
  <2> HIDE DEF k
  <2>3. Owed(k) \in Nat
    BY <2>1, OwedGrows
  <2>4. CASE id \in DOMAIN t.received \ DOMAIN r
    <3>1. ~(time - t.received[id].at < HistoryWindow) /\ t.received[id].at \in Nat
      BY <1>4, <2>2, <2>4
    <3>2. Owed(k) <= t.received[id].at + HistoryWindow
      BY <2>1, <2>4 DEF Paced
    <3>3. Owed(k) <= time
      BY <1>1, <2>3, <3>1, <3>2, HistoryIsNat
    <3> QED
      BY <2>1, <2>4, <3>3 DEF Paced, k
  <2>5. CASE id \notin DOMAIN t.received \ DOMAIN r
    <3>1. Paced(r, id, k, time)
      BY <1>4, <2>1, <2>5 DEF Paced
    <3> QED
      BY <2>1, <3>1 DEF k
  <2> QED
    BY <2>4, <2>5
<1> QED
  BY <1>5, <1>6 DEF Near, w

(* Messages that are missing are asked for, and old ones are forgotten.    *)
LEMMA TreeIsRepaired ==
    ASSUME NEW me, NEW d, NEW time, NEW t, TreeInv(me, t, d, time)
    PROVE  /\ TreeInv(me, repair_tree(t, time), d, time)
           /\ Near(repair_tree(t, time)) = Near(t)
<1> DEFINE settled == {id \in DOMAIN t.observed : time - t.observed[id].at \in 1..LazyWindow}
           missing == settled \ DOMAIN t.received
           shorter == {id \in settled \ missing :
                          /\ Max({0, t.received[id].best - t.observed[id].hop}) >= HopFactor
                          /\ t.observed[id].hop # 0}
           asked(p) == {id \in missing : t.observed[id].sender = p}
           P == {t.observed[id].sender : id \in missing \cup shorter}
           s == SetToSeq(P)
           q == [i \in DOMAIN s |-> Notify(s[i], Graft(asked(s[i])))]
<1>1. repair_tree(t, time) = prune_history(push(t, q), time)
  BY DEF repair_tree
<1>2. PICK D \in SUBSET Ids : t.observed \in [D -> Sightings]
  <2>1. t.observed \in Partial(Sightings)
    BY TreeIs DEF TreeInv
  <2> QED
    BY <2>1 DEF Partial
<1>3. settled \subseteq D
  BY <1>2
<1>4. \A id \in D : t.observed[id].sender \in Peers
  BY <1>2 DEF Sightings
<1>5. P \in SUBSET Peers
  <2> HIDE DEF settled
  <2> QED
    BY <1>3, <1>4
<1>6. \A p : asked(p) \in SUBSET Ids
  <2> HIDE DEF settled
  <2> QED
    BY <1>3
<1> HIDE DEF P, asked
<1>7. s \in Seq(P)
  BY <1>5, PeersAreFinite, OrderIsSeq
<1> HIDE DEF s
<1>8. q \in Seq(Notices)
  <2>1. \A p \in Peers : Notify(p, Graft(asked(p))) \in Notices
    <3>1. \A p : Graft(asked(p)) \in TreeRpcs
      BY <1>6, TreeRpcsAre
    <3> QED
      BY <3>1 DEF Notify, Notices
  <2>2. \A i \in DOMAIN s : s[i] \in Peers
    BY <1>5, <1>7
  <2>3. q \in [DOMAIN s -> Notices]
    BY <2>1, <2>2
  <2> HIDE DEF q
  <2> QED
    BY <1>7, <2>3, ImageIsSeq
<1> HIDE DEF q
<1>9. TreeInv(me, push(t, q), d, time) /\ Near(push(t, q)) = Near(t)
  BY <1>8, PushNotices
<1> QED
  BY <1>1, <1>9, HistoryIsPruned

LEMMA TimerKeeps ==
    ASSUME NEW me, NEW d, NEW time, NEW t, TreeInv(me, t, d, time)
    PROVE  /\ TreeInv(me, tick(t, time), d, time) /\ Near(tick(t, time)) = Near(t)
<1> DEFINE x == publish_ihaves(t, time)
<1>1. tick(t, time) = repair_tree(x, time)
  BY DEF tick
<1>2. TreeInv(me, x, d, time) /\ Near(x) = Near(t)
  BY IhavesArePublished
<1> HIDE DEF x
<1> QED
  BY <1>1, <1>2, TreeIsRepaired

(* The first event of a queue leaves it.                                   *)
LEMMA TailDelivers ==
    ASSUME NEW q \in Seq(TreeEvents), q # <<>>, NEW id
    PROVE  Cardinality(Delivers(q, id)) =
              Cardinality(Delivers(Tail(q), id)) + (IF Head(q) = Deliver(id) THEN 1 ELSE 0)
<1> DEFINE D == Delivers(q, id)
           E == Delivers(Tail(q), id)
           f == [i \in E |-> i + 1]
<1>1. /\ 1 \in DOMAIN q /\ q[1] = Head(q) /\ Tail(q) \in Seq(TreeEvents)
      /\ \A i \in DOMAIN Tail(q) : i \in Nat /\ i > 0 /\ i + 1 \in DOMAIN q
                                   /\ Tail(q)[i] = q[i + 1]
      /\ \A i \in DOMAIN q : i \in Nat /\ (i # 1 => i - 1 \in DOMAIN Tail(q))
  OBVIOUS
<1>2. IsFiniteSet(D) /\ IsFiniteSet(E) /\ Cardinality(D) \in Nat /\ Cardinality(E) \in Nat
  BY <1>1, DeliversIsFinite
<1>3. \A i \in E : i \in Nat /\ i > 0 /\ i + 1 \in D
  BY <1>1 DEF Delivers
<1>4. \A j \in D : j \in Nat /\ (j # 1 => j - 1 \in E)
  <2> SUFFICES ASSUME NEW j \in D, j # 1 PROVE j - 1 \in E
    BY <1>1 DEF Delivers
  <2>1. j \in DOMAIN q /\ q[j] = Deliver(id) /\ j \in Nat /\ j - 1 \in DOMAIN Tail(q)
    BY <1>1 DEF Delivers
  <2>2. Tail(q)[j - 1] = q[(j - 1) + 1] /\ (j - 1) + 1 = j
    BY <1>1, <2>1
  <2> QED
    BY <2>1, <2>2 DEF Delivers
<1>5. 1 \in D <=> Head(q) = Deliver(id)
  BY <1>1 DEF Delivers
<1> HIDE DEF D, E
<1>6. f \in Bijection(E, D \ {1})
  <2>1. f \in [E -> D \ {1}]
    BY <1>3
  <2>2. \A i, j \in E : f[i] = f[j] => i = j
    BY <1>3
  <2>3. \A j \in D \ {1} : \E i \in E : f[i] = j
    <3> SUFFICES ASSUME NEW j \in D \ {1} PROVE \E i \in E : f[i] = j
      OBVIOUS
    <3>1. j \in Nat /\ j - 1 \in E
      BY <1>4
    <3>2. f[j - 1] = j
      BY <3>1
    <3> QED
      BY <3>1, <3>2
  <2> HIDE DEF f
  <2> QED
    BY <2>1, <2>2, <2>3 DEF Bijection, Injection, Surjection, IsInjective
<1> HIDE DEF f
<1>7. Cardinality(D \ {1}) = Cardinality(E)
  BY <1>2, <1>6, FS_Bijection DEF ExistsBijection
<1>8. Cardinality(D) = Cardinality(E) + (IF 1 \in D THEN 1 ELSE 0)
  <2>1. CASE 1 \in D
    <3>1. Cardinality(D \ {1}) = Cardinality(D) - 1
      BY <1>2, <2>1, FS_RemoveElement
    <3> QED
      BY <1>2, <1>7, <2>1, <3>1
  <2>2. CASE 1 \notin D
    <3>1. D \ {1} = D
      BY <2>2
    <3>2. Cardinality(D) = Cardinality(E)
      BY <1>7, <3>1, Zenon
    <3> QED
      BY <1>2, <2>2, <3>2
  <2> QED
    BY <2>1, <2>2
<1> QED
  BY <1>5, <1>8 DEF D, E

LEMMA TreeIsPolled ==
    ASSUME NEW me, NEW d \in [Ids -> Nat], NEW time, NEW t, TreeInv(me, t, d, time), t.out # <<>>,
           NEW e, e = Head(t.out), NEW w \in Trees(me), w.out = Tail(t.out),
           w.received = t.received,
           NEW c, \A id \in Ids : c[id] = IF e = Deliver(id) THEN d[id] + 1 ELSE d[id]
    PROVE  TreeInv(me, w, c, time)
<1>1. t.out \in Seq(TreeEvents) /\ Tail(t.out) \in Seq(TreeEvents)
  <2>1. t.out \in Seq(TreeEvents)
    BY TreeIs DEF TreeInv
  <2> QED
    BY <2>1
<1> SUFFICES ASSUME NEW x \in Ids
             PROVE  c[x] \in Nat /\ Paced(t.received, x, Count(Tail(t.out), c, x), time)
  BY DEF TreeInv
<1> DEFINE D == Cardinality(Delivers(t.out, x))
           E == Cardinality(Delivers(Tail(t.out), x))
<1>2. D = E + (IF e = Deliver(x) THEN 1 ELSE 0)
  BY <1>1, TailDelivers
<1>3. D \in Nat /\ E \in Nat /\ d[x] \in Nat
  BY <1>1, DeliversIsFinite
<1>4. Count(t.out, d, x) = d[x] + D /\ Count(Tail(t.out), c, x) = c[x] + E
  BY DEF Count
<1> HIDE DEF D, E
<1>5. c[x] \in Nat /\ c[x] + E = d[x] + D
  BY <1>2, <1>3
<1> QED
  BY <1>4, <1>5 DEF TreeInv

-----------------------------------------------------------------------------
(***************************************************************************)
(* The steps.                                                              *)
(***************************************************************************)

(* A step of one node leaves the others as they are.                       *)
LEMMA OthersAreKept ==
    ASSUME NEW n \in Peers, \A m \in Peers : NodeInv(m),
           \A m \in Others(n) : /\ view'[m] = view[m] /\ tree'[m] = tree[m]
                                /\ delivered'[m] = delivered[m]
                                /\ m \in known => m \in known'
                                /\ Reachable(m) \subseteq Reachable(m)',
           now' = now
    PROVE  \A m \in Others(n) : NodeInv(m)'
<1> SUFFICES ASSUME NEW m \in Others(n) PROVE NodeInv(m)'
  OBVIOUS
<1>1. /\ NodeInv(m) /\ view'[m] = view[m] /\ tree'[m] = tree[m]
      /\ delivered'[m] = delivered[m] /\ (m \in known => m \in known')
      /\ Reachable(m) \subseteq Reachable(m)'
  BY DEF Others
<1>2. ViewInv(m, view[m], Near(tree[m]), Reachable(m)')
  BY <1>1, WorldChanges DEF NodeInv
<1>3. ViewInv(m, view[m], Near(tree[m]), Reachable(m))'
  BY <1>1, <1>2
<1>4. TreeInv(m, tree[m], delivered[m], now)'
  BY <1>1 DEF NodeInv
<1>5. (m \notin known => Unborn(m))'
  BY <1>1 DEF NodeInv, Unborn
<1> QED
  BY <1>3, <1>4, <1>5 DEF NodeInv

LEMMA NodesAre ==
    ASSUME NEW n \in Peers, NodeInv(n)', \A m \in Others(n) : NodeInv(m)'
    PROVE  (\A m \in Peers : NodeInv(m))'
  BY DEF Others

LEMMA ReachableGrows ==
    ASSUME NEW n, up \subseteq up', dialing \subseteq dialing'
    PROVE  Reachable(n) \subseteq Reachable(n)'
  BY DEF Reachable

LEMMA WiresAreKept ==
    ASSUME NEW n \in Peers, NEW m \in Others(n), WireInv(n, m),
           wire'[<<n, m>>] = wire[<<n, m>>], up \subseteq up', known \subseteq known'
    PROVE  WireInv(n, m)'
  BY DEF WireInv

(* Only the view of a node that has one changes.                           *)
LEMMA ViewStep ==
    ASSUME MeshInv, NEW n \in Peers, NEW v, view' = [view EXCEPT ![n] = v],
           ViewInv(n, v, Near(tree[n]), Reachable(n)'), n \in known',
           known \subseteq known', up \subseteq up', up' \subseteq Pairs,
           \A m \in Others(n) : Reachable(m) \subseteq Reachable(m)',
           early' \in [Peers -> SUBSET Peers],
           UNCHANGED <<tree, wire, delivered, now>>
    PROVE  MeshInv'
<1>1. Shapes'
  BY DEF MeshInv, Shapes
<1>2. view'[n] = v /\ \A m \in Others(n) : view'[m] = view[m]
  BY DEF MeshInv, Shapes, Others
<1>3. NodeInv(n)'
  BY <1>2 DEF MeshInv, NodeInv
<1>4. \A m \in Others(n) : NodeInv(m)'
  <2>1. \A m \in Others(n) : /\ view'[m] = view[m] /\ tree'[m] = tree[m]
                             /\ delivered'[m] = delivered[m]
                             /\ m \in known => m \in known'
                             /\ Reachable(m) \subseteq Reachable(m)'
    BY <1>2
  <2>2. \A m \in Peers : NodeInv(m)
    BY DEF MeshInv
  <2> QED
    BY <2>1, <2>2, OthersAreKept
<1>5. (\A k \in Peers : \A m \in Others(k) : WireInv(k, m))'
  <2> SUFFICES ASSUME NEW k \in Peers, NEW m \in Others(k) PROVE WireInv(k, m)'
    BY DEF Others
  <2> QED
    BY WiresAreKept DEF MeshInv
<1> QED
  BY <1>1, <1>3, <1>4, <1>5, NodesAre DEF MeshInv

LEMMA NodeIs ==
    ASSUME MeshInv, NEW n \in Peers
    PROVE  /\ ViewInv(n, view[n], Near(tree[n]), Reachable(n))
           /\ TreeInv(n, tree[n], delivered[n], now)
           /\ n \notin known => Unborn(n)
           /\ delivered[n] \in [Ids -> Nat] /\ early[n] \in SUBSET Peers
  BY DEF MeshInv, NodeInv, Shapes

LEMMA UpdateLocalNodeInfoStep ==
    ASSUME MeshInv, NEW n \in Peers, UpdateLocalNodeInfo(n)
    PROVE  MeshInv'
<1> DEFINE s == ToAll(early[n], Join(n, WalkLength))
           v == push(view[n], s)
<1>1. view' = [view EXCEPT ![n] = v] /\ known' = known \cup {n}
      /\ early' = [early EXCEPT ![n] = {}]
      /\ UNCHANGED <<tree, up, dialing, wire, delivered, now>>
  BY DEF UpdateLocalNodeInfo, links, clock
<1>2. s \in Seq(Quiet(n))
  <2>1. WalkLength \in Nat
    BY HyParViewAssumption
  <2>2. Join(n, WalkLength) \in ViewRpcs(n)
    BY <2>1, RpcsOfViews
  <2> QED
    BY <2>2, NodeIs, QuietToAll
<1> HIDE DEF s
<1>3. ViewInv(n, v, Near(tree[n]), Reachable(n))
  BY <1>2, NodeIs, PushQuiet
<1>4. \A m : Reachable(m)' = Reachable(m)
  BY <1>1 DEF Reachable
<1>5. early' \in [Peers -> SUBSET Peers]
  BY <1>1 DEF MeshInv, Shapes
<1> HIDE DEF v
<1>6. ViewInv(n, v, Near(tree[n]), Reachable(n)')
  BY <1>3, <1>4
<1>7. up' \subseteq Pairs
  BY <1>1 DEF MeshInv, Shapes
<1> QED
  BY <1>1, <1>4, <1>5, <1>6, <1>7, ViewStep

LEMMA ConnectionEstablishedStep ==
    ASSUME MeshInv, NEW n \in Peers, NEW m \in Others(n), NEW temp \in BOOLEAN,
           ConnectionEstablished(n, m, temp)
    PROVE  MeshInv'
<1>1. /\ dialing' = dialing \ {<<n, m, temp>>} /\ up' = up \cup {<<n, m>>, <<m, n>>}
      /\ UNCHANGED <<known, tree, wire, delivered, now>>
  BY DEF ConnectionEstablished, clock
<1>2. \A k : Reachable(k) \subseteq Reachable(k)'
  BY <1>1 DEF Reachable
<1>3. m \in Peers /\ m # n /\ up' \subseteq Pairs
  BY <1>1 DEF MeshInv, Shapes, Others, Pairs
<1>4. CASE n \in known
  <2> DEFINE v == request_join(n, view[n], m)
  <2>1. view' = [view EXCEPT ![n] = v] /\ early' = early
    BY <1>4 DEF ConnectionEstablished
  <2>2. ViewInv(n, v, Near(tree[n]), Reachable(n))
    <3>1. CASE v = view[n]
      BY <3>1, NodeIs
    <3>2. CASE v # view[n]
      <4> DEFINE s == <<Notify(m, Join(n, WalkLength))>>
      <4>1. v = push(view[n], s)
        BY <3>2 DEF request_join, initiate_join
      <4>2. WalkLength \in Nat
        BY HyParViewAssumption
      <4>3. Join(n, WalkLength) \in ViewRpcs(n)
        BY <4>2, RpcsOfViews
      <4>4. Notify(m, Join(n, WalkLength)) \in Quiet(n)
        BY <4>3, <1>3, QuietEvents
      <4>5. s \in Seq(Quiet(n))
        BY <4>4
      <4> HIDE DEF s
      <4> QED
        BY <4>1, <4>5, NodeIs, PushQuiet
    <3> QED
      BY <3>1, <3>2
  <2> HIDE DEF v
  <2>3. ViewInv(n, v, Near(tree[n]), Reachable(n)')
    BY <2>2, <1>2, WorldChanges
  <2>4. early' \in [Peers -> SUBSET Peers]
    BY <2>1 DEF MeshInv, Shapes
  <2> QED
    BY <1>1, <1>2, <1>3, <1>4, <2>1, <2>3, <2>4, ViewStep
<1>5. CASE n \notin known
  <2>1. view' = view /\ early' = [early EXCEPT ![n] = @ \cup {m}]
    BY <1>5 DEF ConnectionEstablished
  <2>2. Shapes'
    BY <2>1, <1>1, <1>3 DEF MeshInv, Shapes
  <2>3. \A k \in Peers : NodeInv(k)
    BY DEF MeshInv
  <2>4. \A k \in Peers : NodeInv(k)'
    <3> SUFFICES ASSUME NEW k \in Peers PROVE NodeInv(k)'
      OBVIOUS
    <3>1. ViewInv(k, view[k], Near(tree[k]), Reachable(k)')
      BY <2>3, <1>2, WorldChanges DEF NodeInv
    <3> QED
      BY <3>1, <2>1, <2>3, <1>1 DEF NodeInv, Unborn
  <2>5. \A k \in Peers : \A l \in Others(k) : WireInv(k, l)'
    BY <1>1, WiresAreKept DEF MeshInv
  <2> QED
    BY <2>2, <2>4, <2>5 DEF MeshInv, Others
<1> QED
  BY <1>4, <1>5

(* An end of a connection, or of one that is being made, goes away.        *)
LEMMA PeerIsLost ==
    ASSUME MeshInv, NEW n \in Peers, NEW m \in Others(n), NEW alive,
           disconnected(n, m, alive), UNCHANGED <<known, early, tree, delivered, now>>,
           \A k \in Others(n) : Reachable(k) \subseteq Reachable(k)',
           \A p \in Reachable(n) : p \in Reachable(n)' \/ p = m,
           up' \subseteq Pairs, DOMAIN wire' = Pairs,
           \A k \in Peers : \A l \in Others(k) : WireInv(k, l)'
    PROVE  MeshInv'
<1>1. PICK v : /\ DOMAIN view' = Peers /\ view'[n] = v
               /\ \A k \in Others(n) : view'[k] = view[k]
               /\ IF n \in known THEN v \in inject_disconnect(n, view[n], m, alive)
                  ELSE v = view[n]
  <2>1. CASE n \in known
    <3>1. PICK v \in inject_disconnect(n, view[n], m, alive) : view' = [view EXCEPT ![n] = v]
      BY <2>1 DEF disconnected
    <3>2. DOMAIN view = Peers
      BY DEF MeshInv, Shapes
    <3> QED
      BY <3>1, <3>2, <2>1 DEF Others
  <2>2. CASE n \notin known
    BY <2>2 DEF disconnected, MeshInv, Shapes
  <2> QED
    BY <2>1, <2>2
<1>2. Shapes'
  BY <1>1 DEF MeshInv, Shapes
<1>3. view'[n] = v /\ \A k \in Others(n) : view'[k] = view[k]
  BY <1>1
<1>4. ViewInv(n, v, Near(tree[n]), Reachable(n)) /\ m \notin v.active
  <2>1. CASE n \in known
    <3>1. m \in Peers /\ v \in inject_disconnect(n, view[n], m, alive)
      BY <1>1, <2>1 DEF Others
    <3> QED
      BY <3>1, NodeIs, DisconnectKeeps
  <2>2. CASE n \notin known
    BY <1>1, <2>2, NodeIs DEF Unborn
  <2> QED
    BY <2>1, <2>2
<1>5. ViewInv(n, v, Near(tree[n]), Reachable(n)')
  BY <1>4, WorldChanges
<1>6. NodeInv(n)'
  <2>1. n \notin known => v = view[n]
    BY <1>1
  <2> QED
    BY <1>3, <1>5, <2>1, NodeIs DEF NodeInv, Unborn
<1>7. \A k \in Others(n) : NodeInv(k)'
  <2>1. \A k \in Others(n) : /\ view'[k] = view[k] /\ tree'[k] = tree[k]
                             /\ delivered'[k] = delivered[k]
                             /\ k \in known => k \in known'
                             /\ Reachable(k) \subseteq Reachable(k)'
    BY <1>3
  <2>2. \A k \in Peers : NodeInv(k)
    BY DEF MeshInv
  <2> QED
    BY <2>1, <2>2, OthersAreKept
<1> QED
  BY <1>2, <1>6, <1>7, NodesAre DEF MeshInv, Others

LEMMA DialFailureStep ==
    ASSUME MeshInv, NEW n \in Peers, NEW m \in Others(n), NEW temp \in BOOLEAN,
           DialFailure(n, m, temp)
    PROVE  MeshInv'
<1>1. /\ dialing' = dialing \ {<<n, m, temp>>} /\ disconnected(n, m, FALSE)
      /\ UNCHANGED <<known, early, tree, up, wire, delivered, now>>
  BY DEF DialFailure, local, clock
<1>2. /\ \A k \in Others(n) : Reachable(k) \subseteq Reachable(k)'
      /\ \A p \in Reachable(n) : p \in Reachable(n)' \/ p = m
  BY <1>1 DEF Reachable, Others
<1>3. \A k \in Peers : \A l \in Others(k) : WireInv(k, l)'
  BY <1>1, WiresAreKept DEF MeshInv
<1>4. up' \subseteq Pairs /\ DOMAIN wire' = Pairs
  BY <1>1 DEF MeshInv, Shapes
<1> QED
  BY <1>1, <1>2, <1>3, <1>4, PeerIsLost

LEMMA ConnectionClosedStep ==
    ASSUME MeshInv, NEW n \in Peers, NEW m \in Others(n), ConnectionClosed(n, m)
    PROVE  MeshInv'
<1>1. /\ up' = up \ {<<n, m>>} /\ disconnected(n, m, TRUE)
      /\ wire' = [wire EXCEPT ![<<n, m>>] = <<>>, ![<<m, n>>] = <<>>]
      /\ UNCHANGED <<known, early, tree, dialing, delivered, now>>
  BY DEF ConnectionClosed, local, clock
<1>2. /\ \A k \in Others(n) : Reachable(k) \subseteq Reachable(k)'
      /\ \A p \in Reachable(n) : p \in Reachable(n)' \/ p = m
  BY <1>1 DEF Reachable, Others
<1>3. /\ DOMAIN wire' = Pairs /\ <<n, m>> \in Pairs /\ <<m, n>> \in Pairs
      /\ wire'[<<n, m>>] = <<>> /\ wire'[<<m, n>>] = <<>>
      /\ \A k \in Pairs : k # <<n, m>> /\ k # <<m, n>> => wire'[k] = wire[k]
  BY <1>1 DEF MeshInv, Shapes, Pairs, Others
<1>4. ASSUME NEW k \in Peers, NEW l \in Others(k) PROVE WireInv(k, l)'
  <2>1. CASE <<k, l>> = <<n, m>> \/ <<k, l>> = <<m, n>>
    <3>1. wire'[<<k, l>>] = <<>>
      BY <2>1, <1>3
    <3>2. <<>> \in Seq(ViewRpcs(k) \cup TreeRpcs)
      OBVIOUS
    <3> QED
      BY <3>1, <3>2 DEF WireInv
  <2>2. CASE <<k, l>> # <<n, m>> /\ <<k, l>> # <<m, n>>
    <3>1. <<k, l>> \in Pairs /\ WireInv(k, l)
      BY DEF MeshInv, Pairs, Others
    <3>2. wire'[<<k, l>>] = wire[<<k, l>>]
      BY <3>1, <2>2, <1>3
    <3>3. (<<k, l>> \in up => <<k, l>> \in up') /\ (<<l, k>> \in up => <<l, k>> \in up')
      BY <2>2, <1>1
    <3> QED
      BY <3>1, <3>2, <3>3, <1>1 DEF WireInv
  <2> QED
    BY <2>1, <2>2
<1>5. up' \subseteq Pairs
  BY <1>1 DEF MeshInv, Shapes
<1> QED
  BY <1>1, <1>2, <1>3, <1>4, <1>5, PeerIsLost

(* A node sends a message of its own, if there is a connection.            *)
LEMMA SendKeeps ==
    ASSUME MeshInv, NEW n \in Peers, n \in known, NEW m, NEW rpc \in ViewRpcs(n) \cup TreeRpcs,
           Send(n, m, rpc), UNCHANGED <<known, up>>
    PROVE  /\ DOMAIN wire' = Pairs
           /\ \A k \in Peers : \A l \in Others(k) : WireInv(k, l)'
<1>1. DOMAIN wire = Pairs /\ up \subseteq Pairs
      /\ \A k \in Peers : \A l \in Others(k) : WireInv(k, l)
  BY DEF MeshInv, Shapes
<1>2. CASE UNCHANGED wire
  BY <1>1, <1>2, WiresAreKept
<1>3. CASE ~(UNCHANGED wire)
  <2> DEFINE q == wire[<<n, m>>]
  <2>1. /\ <<n, m>> \in up /\ <<m, n>> \in up /\ wire' = [wire EXCEPT ![<<n, m>>] = Append(q, rpc)]
    BY <1>3 DEF Send, Connected
  <2>2. <<n, m>> \in Pairs /\ m \in Others(n)
    BY <2>1, <1>1 DEF Pairs, Others
  <2>3. /\ DOMAIN wire' = Pairs /\ wire'[<<n, m>>] = Append(q, rpc)
        /\ \A k \in Pairs : k # <<n, m>> => wire'[k] = wire[k]
    BY <2>1, <2>2, <1>1
  <2>4. Append(q, rpc) \in Seq(ViewRpcs(n) \cup TreeRpcs)
    <3>1. q \in Seq(ViewRpcs(n) \cup TreeRpcs)
      BY <1>1, <2>2 DEF WireInv
    <3> HIDE DEF q
    <3> QED
      BY <3>1
  <2> HIDE DEF q
  <2>5. WireInv(n, m)'
    BY <2>1, <2>3, <2>4 DEF WireInv
  <2>6. ASSUME NEW k \in Peers, NEW l \in Others(k), <<k, l>> # <<n, m>> PROVE WireInv(k, l)'
    <3>1. <<k, l>> \in Pairs
      BY DEF Pairs, Others
    <3>2. wire'[<<k, l>>] = wire[<<k, l>>]
      BY <3>1, <2>3, <2>6
    <3> QED
      BY <3>2, <1>1, WiresAreKept
  <2> QED
    BY <2>3, <2>5, <2>6
<1> QED
  BY <1>2, <1>3

(* Only the tree of a node changes, and perhaps what it has sent.          *)
LEMMA TreeStep ==
    ASSUME MeshInv, NEW n \in Peers, NEW t, tree' = [tree EXCEPT ![n] = t],
           TreeInv(n, t, delivered'[n], now), Near(t) = Near(tree[n]),
           n \notin known => /\ DOMAIN t.received = {} /\ DOMAIN t.observed = {}
                             /\ t.out = <<>>,
           delivered' \in [Peers -> [Ids -> Nat]],
           \A m \in Others(n) : delivered'[m] = delivered[m],
           DOMAIN wire' = Pairs, \A k \in Peers : \A l \in Others(k) : WireInv(k, l)',
           UNCHANGED <<known, early, view, up, dialing, now>>
    PROVE  MeshInv'
<1>1. Shapes'
  BY DEF MeshInv, Shapes
<1>2. tree'[n] = t /\ \A m \in Others(n) : tree'[m] = tree[m]
  BY DEF MeshInv, Shapes, Others
<1>3. \A m : Reachable(m)' = Reachable(m)
  BY DEF Reachable
<1>4. NodeInv(n)'
  <2>1. ViewInv(n, view[n], Near(tree[n]), Reachable(n))'
    BY <1>2, <1>3, NodeIs
  <2>2. (n \notin known => Unborn(n))'
    BY <1>2, NodeIs DEF Unborn
  <2> QED
    BY <2>1, <2>2, <1>2 DEF NodeInv
<1>5. \A m \in Others(n) : NodeInv(m)'
  <2>1. \A m \in Others(n) : /\ view'[m] = view[m] /\ tree'[m] = tree[m]
                             /\ delivered'[m] = delivered[m]
                             /\ m \in known => m \in known'
                             /\ Reachable(m) \subseteq Reachable(m)'
    BY <1>2, <1>3
  <2>2. \A m \in Peers : NodeInv(m)
    BY DEF MeshInv
  <2> QED
    BY <2>1, <2>2, OthersAreKept
<1> QED
  BY <1>1, <1>4, <1>5, NodesAre DEF MeshInv, Others

LEMMA PollTreeStep ==
    ASSUME MeshInv, NEW n \in Peers, PollTree(n)
    PROVE  MeshInv'
<1> DEFINE q == Tail(tree[n].out)
           e == Head(tree[n].out)
           t == [tree[n] EXCEPT !.out = q]
<1>1. /\ tree[n].out # <<>> /\ tree' = [tree EXCEPT ![n] = t]
      /\ UNCHANGED <<known, early, view, up, dialing, now>>
  BY DEF PollTree, local, clock
<1>2. n \in known
  BY <1>1, NodeIs DEF Unborn
<1>3. TreeInv(n, tree[n], delivered[n], now) /\ tree[n] \in Trees(n) /\ tree[n].out \in Seq(TreeEvents)
  <2>1. TreeInv(n, tree[n], delivered[n], now)
    BY NodeIs
  <2> QED
    BY <2>1, TreeIs DEF TreeInv
<1>4. q \in Seq(TreeEvents) /\ e \in TreeEvents
  BY <1>1, <1>3
<1>5. IF e.type = "Notify" THEN Send(n, e.peer, e.rpc) ELSE UNCHANGED wire
  BY DEF PollTree
<1>6. delivered' = IF e.type = "Deliver" THEN [delivered EXCEPT ![n][e.id] = @ + 1]
                   ELSE delivered
  BY DEF PollTree
<1>7. q = Tail(tree[n].out) /\ e = Head(tree[n].out)
  OBVIOUS
<1> HIDE DEF q, e
<1>8. /\ t \in Trees(n) /\ t.out = q /\ t.received = tree[n].received
      /\ t.eager = tree[n].eager /\ t.lazy = tree[n].lazy
  BY <1>3, <1>4 DEF Trees
<1> HIDE DEF t
<1>9. DOMAIN wire = Pairs /\ delivered \in [Peers -> [Ids -> Nat]]
      /\ \A k \in Peers : \A l \in Others(k) : WireInv(k, l)
  BY DEF MeshInv, Shapes
<1>10. DOMAIN wire' = Pairs /\ \A k \in Peers : \A l \in Others(k) : WireInv(k, l)'
  <2>1. CASE e.type = "Notify"
    <3>1. e.rpc \in ViewRpcs(n) \cup TreeRpcs
      BY <2>1, <1>4 DEF TreeEvents
    <3> QED
      BY <3>1, <2>1, <1>1, <1>2, <1>5, SendKeeps
  <2>2. CASE e.type # "Notify"
    BY <2>2, <1>1, <1>5, <1>9, WiresAreKept
  <2> QED
    BY <2>1, <2>2
<1>11. /\ delivered' \in [Peers -> [Ids -> Nat]]
       /\ \A m \in Others(n) : delivered'[m] = delivered[m]
       /\ \A id \in Ids : delivered'[n][id] =
             IF e = Deliver(id) THEN delivered[n][id] + 1 ELSE delivered[n][id]
  <2>1. CASE e.type = "Deliver"
    <3>1. e.id \in Ids /\ \A id \in Ids : e = Deliver(id) <=> id = e.id
      BY <2>1, <1>4 DEF TreeEvents, Deliver
    <3> DEFINE c == [delivered[n] EXCEPT ![e.id] = @ + 1]
    <3>2. delivered' = [delivered EXCEPT ![n] = c]
      BY <2>1, <1>6
    <3>3. /\ c \in [Ids -> Nat]
          /\ \A id \in Ids : c[id] = IF id = e.id THEN delivered[n][id] + 1 ELSE delivered[n][id]
      BY <3>1, <1>9
    <3> HIDE DEF c
    <3>4. delivered'[n] = c
      BY <3>2, <1>9
    <3>5. /\ delivered' \in [Peers -> [Ids -> Nat]]
          /\ \A m \in Others(n) : delivered'[m] = delivered[m]
      BY <3>2, <3>3, <1>9 DEF Others
    <3> QED
      BY <3>1, <3>3, <3>4, <3>5
  <2>2. CASE e.type # "Deliver"
    <3>1. \A id \in Ids : e # Deliver(id)
      BY <2>2 DEF Deliver
    <3> QED
      BY <3>1, <2>2, <1>6, <1>9
  <2> QED
    BY <2>1, <2>2
<1>12. TreeInv(n, t, delivered'[n], now)
  <2> DEFINE u == tree[n]
             c == delivered'[n]
             d == delivered[n]
  <2>1. d \in [Ids -> Nat]
    BY <1>9
  <2>2. TreeInv(n, u, d, now) /\ u.out # <<>> /\ e = Head(u.out)
    BY <1>1, <1>3, <1>7
  <2>3. t \in Trees(n) /\ t.out = Tail(u.out) /\ t.received = u.received
    BY <1>7, <1>8
  <2>4. \A id \in Ids : c[id] = IF e = Deliver(id) THEN d[id] + 1 ELSE d[id]
    BY <1>11
  <2> HIDE DEF u, c, d
  <2>5. TreeInv(n, t, c, now)
    BY ONLY <2>1, <2>2, <2>3, <2>4, TreeIsPolled
  <2> QED
    BY <2>5 DEF c
<1>13. Near(t) = Near(tree[n])
  BY <1>8 DEF Near
<1> QED
  BY <1>1, <1>2, <1>10, <1>11, <1>12, <1>13, TreeStep

LEMMA TreeTickStep ==
    ASSUME MeshInv, NEW n \in Peers, TreeTick(n)
    PROVE  MeshInv'
<1> DEFINE t == tick(tree[n], now)
<1>1. /\ tree' = [tree EXCEPT ![n] = t]
      /\ DOMAIN tree[n].received \cup DOMAIN tree[n].observed # {}
      /\ UNCHANGED <<known, early, view, up, dialing, wire, delivered, now>>
  BY DEF TreeTick, TreeTickDue, local, links
<1>2. n \in known
  BY <1>1, NodeIs DEF Unborn
<1>3. TreeInv(n, t, delivered[n], now) /\ Near(t) = Near(tree[n])
  BY NodeIs, TimerKeeps
<1>4. /\ DOMAIN wire' = Pairs /\ \A k \in Peers : \A l \in Others(k) : WireInv(k, l)'
      /\ delivered' \in [Peers -> [Ids -> Nat]]
  BY <1>1, WiresAreKept DEF MeshInv, Shapes
<1> HIDE DEF t
<1> QED
  BY <1>1, <1>2, <1>3, <1>4, TreeStep

(* Time passes.                                                            *)
LEMMA ElapseStep ==
    ASSUME MeshInv, Elapse
    PROVE  MeshInv'
<1>1. /\ now' = now + 1 /\ now \in Nat
      /\ UNCHANGED <<known, early, view, tree, up, dialing, wire, delivered>>
  BY DEF Elapse, local, links, MeshInv, Shapes
<1>2. Shapes'
  BY <1>1 DEF MeshInv, Shapes
<1>3. ASSUME NEW n \in Peers PROVE NodeInv(n)'
  <2>1. TreeInv(n, tree[n], delivered[n], now')
    BY <1>1, NodeIs, TimePasses
  <2>2. ViewInv(n, view[n], Near(tree[n]), Reachable(n)) /\ (n \notin known => Unborn(n))
    BY NodeIs
  <2> QED
    BY <1>1, <2>1, <2>2 DEF NodeInv, Reachable, Unborn
<1>4. \A n \in Peers : \A m \in Others(n) : WireInv(n, m)'
  BY <1>1, WiresAreKept DEF MeshInv
<1> QED
  BY <1>2, <1>3, <1>4 DEF MeshInv, Others

LEMMA PublishStep ==
    ASSUME MeshInv, NEW n \in Peers, NEW id \in Ids, Publish(n, id)
    PROVE  MeshInv'
<1> DEFINE t == publish(tree[n], id, now)
<1>1. /\ tree' = [tree EXCEPT ![n] = t] /\ n \in known
      /\ UNCHANGED <<known, early, view, up, dialing, wire, delivered, now>>
  BY DEF Publish, local, links, clock
<1>2. TreeInv(n, t, delivered[n], now) /\ Near(t) = Near(tree[n])
  BY NodeIs, PublishKeeps
<1>3. /\ DOMAIN wire' = Pairs /\ \A k \in Peers : \A l \in Others(k) : WireInv(k, l)'
      /\ delivered' \in [Peers -> [Ids -> Nat]]
  BY <1>1, WiresAreKept DEF MeshInv, Shapes
<1> HIDE DEF t
<1> QED
  BY <1>1, <1>2, <1>3, TreeStep

LEMMA ShuffleTimerStep ==
    ASSUME MeshInv, NEW n \in Peers, ShuffleTimer(n)
    PROVE  MeshInv'
<1>1. PICK v \in shuffle_timer(n, view[n]) : view' = [view EXCEPT ![n] = v]
  BY DEF ShuffleTimer
<1>2. UNCHANGED <<known, early, tree, up, dialing, wire, delivered, now>>
  BY DEF ShuffleTimer, local, links, clock
<1>3. ViewInv(n, v, Near(tree[n]), Reachable(n)) /\ view[n].active # {}
  BY NodeIs, ShuffleTimerKeeps
<1>4. n \in known /\ up' \subseteq Pairs /\ early' \in [Peers -> SUBSET Peers]
  BY <1>2, <1>3, NodeIs DEF Unborn, MeshInv, Shapes
<1>5. \A m : Reachable(m)' = Reachable(m)
  BY <1>2 DEF Reachable
<1>6. ViewInv(n, v, Near(tree[n]), Reachable(n)')
  BY <1>3, <1>5
<1> QED
  BY <1>1, <1>2, <1>4, <1>5, <1>6, ViewStep

LEMMA NodesTickStep ==
    ASSUME MeshInv, NEW n \in Peers, NodesTick(n)
    PROVE  MeshInv'
<1>1. PICK v \in maybe_move_random_passive_to_active(n, view[n]) :
         view' = [view EXCEPT ![n] = v]
  BY DEF NodesTick
<1>2. UNCHANGED <<known, early, tree, up, dialing, wire, delivered, now>> /\ view[n].passive # {}
  BY DEF NodesTick, NodesTickDue, local, links
<1>3. ViewInv(n, v, Near(tree[n]), Reachable(n))
  BY NodeIs, TickKeeps
<1>4. n \in known /\ up' \subseteq Pairs /\ early' \in [Peers -> SUBSET Peers]
  BY <1>2, NodeIs DEF Unborn, MeshInv, Shapes
<1>5. \A m : Reachable(m)' = Reachable(m)
  BY <1>2 DEF Reachable
<1>6. ViewInv(n, v, Near(tree[n]), Reachable(n)')
  BY <1>3, <1>5
<1> QED
  BY <1>1, <1>2, <1>4, <1>5, <1>6, ViewStep

(* A step of one node, in its view, its tree and its messages.             *)
LEMMA NodeStep ==
    ASSUME MeshInv, NEW n \in Peers, n \in known, NEW v, NEW t,
           view' = [view EXCEPT ![n] = v], tree' = [tree EXCEPT ![n] = t],
           ViewInv(n, v, Near(t), Reachable(n)'), TreeInv(n, t, delivered[n], now),
           \A m \in Others(n) : Reachable(m) \subseteq Reachable(m)',
           DOMAIN wire' = Pairs, \A k \in Peers : \A l \in Others(k) : WireInv(k, l)',
           UNCHANGED <<known, early, up, delivered, now>>
    PROVE  MeshInv'
<1>1. Shapes'
  BY DEF MeshInv, Shapes
<1>2. /\ view'[n] = v /\ tree'[n] = t
      /\ \A m \in Others(n) : view'[m] = view[m] /\ tree'[m] = tree[m]
  BY DEF MeshInv, Shapes, Others
<1>3. NodeInv(n)'
  BY <1>2 DEF NodeInv
<1>4. \A m \in Others(n) : NodeInv(m)'
  <2>1. \A m \in Others(n) : /\ view'[m] = view[m] /\ tree'[m] = tree[m]
                             /\ delivered'[m] = delivered[m]
                             /\ m \in known => m \in known'
                             /\ Reachable(m) \subseteq Reachable(m)'
    BY <1>2
  <2>2. \A m \in Peers : NodeInv(m)
    BY DEF MeshInv
  <2> QED
    BY <2>1, <2>2, OthersAreKept
<1> QED
  BY <1>1, <1>3, <1>4, NodesAre DEF MeshInv, Others

LEMMA PollNodesStep ==
    ASSUME MeshInv, NEW n \in Peers, PollNodes(n)
    PROVE  MeshInv'
<1> DEFINE q == view[n].out
           e == Head(q)
           v == [view[n] EXCEPT !.out = Tail(q)]
           t == CASE e.type = "PeerAdded" -> inject_neighbor_up(tree[n], e.peer)
                  [] e.type = "PeerRemoved" -> inject_neighbor_down(tree[n], e.peer)
                  [] OTHER -> tree[n]
<1>1. /\ q # <<>> /\ view' = [view EXCEPT ![n] = v]
      /\ UNCHANGED <<known, early, up, delivered, now>>
  BY DEF PollNodes, local, clock
<1>2. tree' = [tree EXCEPT ![n] = t]
  BY DEF PollNodes
<1>3. IF e.type = "Notify" THEN Send(n, e.peer, e.rpc) ELSE UNCHANGED wire
  BY DEF PollNodes
<1>4. dialing' = IF e.type = "Dial" /\ <<n, e.peer>> \notin up
                 THEN dialing \cup {<<n, e.peer, e.temporary>>} ELSE dialing
  BY DEF PollNodes
<1>5. n \in known
  BY <1>1, NodeIs DEF Unborn
<1>6. /\ ViewInv(n, view[n], Near(tree[n]), Reachable(n)) /\ TreeInv(n, tree[n], delivered[n], now)
  BY NodeIs
<1>7. e \in ViewEvents(n)
  <2>1. q \in Seq(ViewEvents(n))
    BY <1>6 DEF ViewInv, Views
  <2> HIDE DEF q
  <2> QED
    BY <1>1, <2>1
<1>8. DOMAIN wire = Pairs /\ \A k \in Peers : \A l \in Others(k) : WireInv(k, l)
  BY DEF MeshInv, Shapes
<1>9. v = [view[n] EXCEPT !.out = Tail(view[n].out)] /\ e = Head(view[n].out)
  OBVIOUS
<1> HIDE DEF e, v, q
<1>10. /\ e.type \in {"Dial", "PeerAdded", "PeerRemoved", "Notify"}
       /\ e.type = "Dial" => e.peer \in Peers /\ e.temporary \in BOOLEAN
       /\ e.type = "PeerAdded" => e.peer \in Others(n) /\ e = PeerAdded(e.peer)
       /\ e.type = "PeerRemoved" => e.peer \in Peers /\ e = PeerRemoved(e.peer)
       /\ e.type = "Notify" => e.rpc \in ViewRpcs(n)
       /\ \A p : e = PeerAdded(p) => e.type = "PeerAdded" /\ e.peer = p
       /\ \A p : e = PeerRemoved(p) => e.type = "PeerRemoved" /\ e.peer = p
  BY <1>7 DEF ViewEvents, PeerAdded, PeerRemoved
<1>11. DOMAIN wire' = Pairs /\ \A k \in Peers : \A l \in Others(k) : WireInv(k, l)'
  <2>1. CASE e.type = "Notify"
    <3>1. e.rpc \in ViewRpcs(n) \cup TreeRpcs
      BY <2>1, <1>10
    <3> QED
      BY <3>1, <2>1, <1>1, <1>3, <1>5, SendKeeps
  <2>2. CASE e.type # "Notify"
    BY <2>2, <1>1, <1>3, <1>8, WiresAreKept
  <2> QED
    BY <2>1, <2>2
<1>12. /\ \A m : Reachable(m) \subseteq Reachable(m)'
       /\ e.type = "Dial" /\ e.peer # n => e.peer \in Reachable(n)'
  <2>1. \A m : Reachable(m) \subseteq Reachable(m)'
    BY <1>1, <1>4, ReachableGrows
  <2>2. ASSUME e.type = "Dial", e.peer # n PROVE e.peer \in Reachable(n)'
    BY <2>2, <1>1, <1>4, <1>10 DEF Reachable, Others
  <2> QED
    BY <2>1, <2>2
<1>13. /\ TreeInv(n, t, delivered[n], now)
       /\ \A p \in Others(n) :
              p \in Near(t) <=> \/ p \in Near(tree[n]) /\ e # PeerRemoved(p)
                                \/ e = PeerAdded(p)
  <2>1. CASE e.type = "PeerAdded"
    <3>1. t = inject_neighbor_up(tree[n], e.peer)
      BY <2>1
    <3> HIDE DEF t
    <3>2. TreeInv(n, t, delivered[n], now) /\ Near(t) = Near(tree[n]) \cup {e.peer}
      BY <3>1, <2>1, <1>6, <1>10, UpAndDownKeep
    <3> QED
      BY <3>2, <2>1, <1>10
  <2>2. CASE e.type = "PeerRemoved"
    <3>1. t = inject_neighbor_down(tree[n], e.peer)
      BY <2>2
    <3> HIDE DEF t
    <3>2. TreeInv(n, t, delivered[n], now) /\ Near(t) = Near(tree[n]) \ {e.peer}
      BY <3>1, <2>2, <1>6, <1>10, UpAndDownKeep
    <3> QED
      BY <3>2, <2>2, <1>10
  <2>3. CASE e.type \notin {"PeerAdded", "PeerRemoved"}
    <3>1. t = tree[n]
      BY <2>3
    <3> HIDE DEF t
    <3> QED
      BY <3>1, <2>3, <1>6, <1>10
  <2> QED
    BY <2>1, <2>2, <2>3
<1> HIDE DEF t
<1>14. ViewInv(n, v, Near(t), Reachable(n)')
  <2> DEFINE Q == Reachable(n)' \cup {n}
             w == view[n]
  <2>1. Reachable(n) \subseteq Q /\ (Head(w.out).type = "Dial" => Head(w.out).peer \in Q)
    BY <1>9, <1>12
  <2>2. ViewInv(n, w, Near(tree[n]), Reachable(n)) /\ w.out # <<>>
    BY <1>1, <1>6 DEF q
  <2>3. \A p \in Others(n) :
              p \in Near(t) <=> \/ p \in Near(tree[n]) /\ Head(w.out) # PeerRemoved(p)
                                \/ Head(w.out) = PeerAdded(p)
    BY <1>9, <1>13
  <2> HIDE DEF Q, w
  <2>4. ViewInv(n, [w EXCEPT !.out = Tail(w.out)], Near(t), Q)
    BY <2>1, <2>2, <2>3, EventIsPolled
  <2>5. ViewInv(n, v, Near(t), Q)
    BY <2>4, <1>9 DEF w
  <2>6. \A p \in v.active : p \in Q => p \in Reachable(n)'
    BY <2>5 DEF ViewInv, Views, Others, Q
  <2> QED
    BY <2>5, <2>6, WorldChanges
<1> QED
  BY <1>1, <1>2, <1>5, <1>11, <1>12, <1>13, <1>14, NodeStep

(* A node that has a mesh handles a message.                               *)
LEMMA ViewHandles ==
    ASSUME MeshInv, NEW n \in Peers, NEW m \in Others(n), NEW rpc \in ViewRpcs(m) \cup TreeRpcs,
           NEW T, m \in Reachable(n), ViewInv(n, view[n], T, Reachable(n)),
           NEW v \in inject_rpc_call_view(n, m, rpc)
    PROVE  ViewInv(n, v, T, Reachable(n))
<1>1. m \in Peers
  BY DEF Others
<1>2. CASE rpc.action = "Join"
  <2>1. v \in inject_join(n, view[n], m, rpc.peer, rpc.ttl)
    BY <1>2 DEF inject_rpc_call_view
  <2>2. rpc.peer \in Peers /\ rpc.ttl \in Nat
    BY <1>1, <1>2, RpcFields
  <2> QED
    BY <2>1, <2>2, JoinKeeps
<1>3. CASE rpc.action = "ForwardJoin"
  <2>1. v \in inject_forward_join(n, view[n], m, rpc.peer, rpc.ttl)
    BY <1>3 DEF inject_rpc_call_view
  <2>2. rpc.peer \in Peers /\ rpc.ttl \in Nat
    BY <1>1, <1>3, RpcFields
  <2> QED
    BY <2>1, <2>2, ForwardJoinKeeps
<1>4. CASE rpc.action = "Neighbor"
  <2>1. v \in inject_neighbor(n, view[n], rpc.peer, rpc.high)
    BY <1>4 DEF inject_rpc_call_view
  <2>2. rpc.peer = m
    BY <1>1, <1>4, RpcFields
  <2> QED
    BY <1>1, <2>1, <2>2, NeighborKeeps
<1>5. CASE rpc.action = "Disconnect"
  <2>1. v \in inject_disconnect(n, view[n], m, rpc.alive)
    BY <1>5 DEF inject_rpc_call_view
  <2> QED
    BY <1>1, <2>1, DisconnectKeeps
<1>6. CASE rpc.action = "Shuffle"
  <2>1. v \in inject_shuffle(n, view[n], m, rpc.peer, rpc.ttl, rpc.nodes)
    BY <1>6 DEF inject_rpc_call_view
  <2>2. rpc.peer \in Peers /\ rpc.ttl \in Nat /\ rpc.nodes \in SUBSET Peers
    BY <1>1, <1>6, RpcFields
  <2> QED
    BY <2>1, <2>2, ShuffleKeeps
<1>7. CASE rpc.action = "ShuffleReply"
  <2>1. v = inject_shuffle_reply(view[n], rpc.nodes)
    BY <1>7 DEF inject_rpc_call_view
  <2>2. rpc.nodes \in SUBSET Peers
    BY <1>1, <1>7, RpcFields
  <2> QED
    BY <2>1, <2>2, ShuffleReplyKeeps
<1>8. CASE rpc.action \notin {"Join", "ForwardJoin", "Neighbor", "Disconnect", "Shuffle",
                              "ShuffleReply"}
  <2>1. v = view[n]
    BY <1>8 DEF inject_rpc_call_view
  <2> QED
    BY <2>1
<1> QED
  BY <1>2, <1>3, <1>4, <1>5, <1>6, <1>7, <1>8

LEMMA TreeHandles ==
    ASSUME MeshInv, NEW n \in Peers, NEW m \in Others(n), NEW rpc \in ViewRpcs(m) \cup TreeRpcs,
           NEW t, t = inject_rpc_call_tree(n, m, rpc)
    PROVE  TreeInv(n, t, delivered[n], now) /\ Near(tree[n]) \subseteq Near(t)
<1>1. m \in Peers /\ TreeInv(n, tree[n], delivered[n], now)
  BY NodeIs DEF Others
<1>2. CASE rpc.action = "Message"
  <2>1. t = inject_message(tree[n], m, rpc.id, rpc.hop, now)
    BY <1>2 DEF inject_rpc_call_tree
  <2>2. rpc.id \in Ids /\ rpc.hop \in Nat
    BY <1>1, <1>2, RpcFields
  <2> QED
    BY <1>1, <2>1, <2>2, MessageKeeps
<1>3. CASE rpc.action = "IHave"
  <2>1. t = inject_ihave(tree[n], m, rpc.ihaves, now)
    BY <1>3 DEF inject_rpc_call_tree
  <2>2. rpc.ihaves \in Partial(Nat)
    BY <1>1, <1>3, RpcFields
  <2> QED
    BY <1>1, <2>1, <2>2, IhaveKeeps
<1>4. CASE rpc.action = "Prune"
  <2>1. t = inject_prune(tree[n], m)
    BY <1>4 DEF inject_rpc_call_tree
  <2> QED
    BY <1>1, <2>1, PruneKeeps
<1>5. CASE rpc.action = "Graft"
  <2>1. t = inject_graft(tree[n], m, rpc.ids)
    BY <1>5 DEF inject_rpc_call_tree
  <2>2. rpc.ids \in SUBSET Ids
    BY <1>1, <1>5, RpcFields
  <2> QED
    BY <1>1, <2>1, <2>2, GraftKeeps
<1>6. CASE rpc.action \notin {"Message", "IHave", "Prune", "Graft"}
  <2>1. t = tree[n]
    BY <1>6 DEF inject_rpc_call_tree
  <2> QED
    BY <1>1, <2>1
<1> QED
  BY <1>2, <1>3, <1>4, <1>5, <1>6

LEMMA InjectEventStep ==
    ASSUME MeshInv, NEW n \in Peers, NEW m \in Others(n), InjectEvent(n, m)
    PROVE  MeshInv'
<1> DEFINE q == wire[<<m, n>>]
           rpc == Head(q)
<1>1. q # <<>> /\ UNCHANGED <<known, early, dialing, delivered, now>>
  BY DEF InjectEvent, local, clock
<1>2. /\ m \in Peers /\ n \in Others(m) /\ m # n /\ <<m, n>> \in Pairs /\ <<n, m>> \in Pairs
      /\ DOMAIN wire = Pairs /\ up \subseteq Pairs
      /\ \A k \in Peers : \A l \in Others(k) : WireInv(k, l)
  BY DEF Others, Pairs, MeshInv, Shapes
<1>3. /\ q \in Seq(ViewRpcs(m) \cup TreeRpcs) /\ <<n, m>> \in up
      /\ m \in known \/ n \in known
      /\ n \in known \/ <<m, n>> \in up
  BY <1>1, <1>2 DEF WireInv
<1>4. rpc \in ViewRpcs(m) \cup TreeRpcs /\ Tail(q) \in Seq(ViewRpcs(m) \cup TreeRpcs)
  <2> HIDE DEF q
  <2> QED
    BY <1>1, <1>3
<1>5. CASE n \in known
  <2> DEFINE t == inject_rpc_call_tree(n, m, rpc)
  <2>1. PICK v \in inject_rpc_call_view(n, m, rpc) : view' = [view EXCEPT ![n] = v]
    BY <1>5 DEF InjectEvent
  <2>2. tree' = [tree EXCEPT ![n] = t] /\ wire' = [wire EXCEPT ![<<m, n>>] = Tail(q)]
        /\ up' = up
    BY <1>5 DEF InjectEvent
  <2> HIDE DEF rpc, q
  <2>3. TreeInv(n, t, delivered[n], now) /\ Near(tree[n]) \subseteq Near(t)
    BY <1>4, TreeHandles
  <2> HIDE DEF t
  <2>4. ViewInv(n, view[n], Near(t), Reachable(n))
    BY <2>3, NodeIs, WorldChanges
  <2>5. m \in Reachable(n)
    BY <1>3 DEF Reachable
  <2>6. ViewInv(n, v, Near(t), Reachable(n))
    BY <1>4, <2>4, <2>5, ViewHandles
  <2>7. \A k : Reachable(k)' = Reachable(k)
    BY <2>2, <1>1 DEF Reachable
  <2>8. DOMAIN wire' = Pairs /\ wire'[<<m, n>>] = Tail(q)
        /\ \A k \in Pairs : k # <<m, n>> => wire'[k] = wire[k]
    BY <2>2, <1>2
  <2>9. ASSUME NEW k \in Peers, NEW l \in Others(k) PROVE WireInv(k, l)'
    <3>1. CASE k = m /\ l = n
      <4>1. wire'[<<k, l>>] \in Seq(ViewRpcs(k) \cup TreeRpcs)
        BY <3>1, <2>8, <1>4
      <4> QED
        BY <4>1, <3>1, <1>1, <1>3, <1>5, <2>2 DEF WireInv
    <3>2. CASE ~(k = m /\ l = n)
      <4>1. <<k, l>> \in Pairs /\ <<k, l>> # <<m, n>>
        BY <3>2 DEF Pairs, Others
      <4>2. wire'[<<k, l>>] = wire[<<k, l>>]
        BY <4>1, <2>8
      <4> QED
        BY <4>2, <1>1, <1>2, <2>2, WiresAreKept
    <3> QED
      BY <3>1, <3>2
  <2>10. ViewInv(n, v, Near(t), Reachable(n)')
    BY <2>6, <2>7
  <2> QED
    BY <1>1, <1>5, <2>1, <2>2, <2>3, <2>7, <2>8, <2>9, <2>10, NodeStep
<1>6. CASE n \notin known
  <2>1. PICK sent \in {<<>>, <<Disconnect(FALSE)>>} :
           wire' = [wire EXCEPT ![<<m, n>>] = <<>>, ![<<n, m>>] = sent]
    BY <1>6 DEF InjectEvent
  <2>2. up' = up \ {<<n, m>>} /\ UNCHANGED <<view, tree>>
    BY <1>6 DEF InjectEvent
  <2>3. <<m, n>> \in up' /\ m \in known
    BY <2>2, <1>2, <1>3, <1>6
  <2>4. sent \in Seq(ViewRpcs(n) \cup TreeRpcs)
    <3>1. Disconnect(FALSE) \in ViewRpcs(n) \cup TreeRpcs
      BY DEF ViewRpcs, Disconnect
    <3> DEFINE S == ViewRpcs(n) \cup TreeRpcs
               r == Disconnect(FALSE)
    <3>a. r \in S
      BY <3>1
    <3> HIDE DEF S, r
    <3>2. <<>> \in Seq(S) /\ <<r>> \in Seq(S)
      BY ONLY <3>a, ShortSeqs
    <3> QED
      BY <3>2 DEF S, r
  <2>5. <<m, n>> # <<n, m>>
    BY <1>2
  <2>6. /\ DOMAIN wire' = Pairs /\ wire'[<<m, n>>] = <<>> /\ wire'[<<n, m>>] = sent
        /\ \A k \in Pairs : k # <<m, n>> /\ k # <<n, m>> => wire'[k] = wire[k]
    BY <2>1, <2>5, <1>2
  <2>7. ASSUME NEW k \in Peers, NEW l \in Others(k) PROVE WireInv(k, l)'
    <3>1. CASE k = m /\ l = n
      <4>1. wire'[<<k, l>>] = <<>> /\ <<>> \in Seq(ViewRpcs(k) \cup TreeRpcs)
        BY <3>1, <2>6
      <4> QED
        BY <4>1 DEF WireInv
    <3>2. CASE k = n /\ l = m
      <4>1. wire'[<<k, l>>] \in Seq(ViewRpcs(k) \cup TreeRpcs)
        BY <3>2, <2>4, <2>6
      <4> QED
        BY <4>1, <3>2, <2>3, <1>1 DEF WireInv
    <3>3. CASE ~(k = m /\ l = n) /\ ~(k = n /\ l = m)
      <4>1. <<k, l>> \in Pairs /\ <<k, l>> # <<m, n>> /\ <<k, l>> # <<n, m>>
            /\ <<l, k>> # <<n, m>>
        BY <3>3 DEF Pairs, Others
      <4>2. wire'[<<k, l>>] = wire[<<k, l>>]
        BY <4>1, <2>6
      <4>3. (<<k, l>> \in up => <<k, l>> \in up') /\ (<<l, k>> \in up => <<l, k>> \in up')
        BY <4>1, <2>2
      <4> QED
        BY <4>2, <4>3, <1>1, <1>2 DEF WireInv
    <3> QED
      BY <3>1, <3>2, <3>3
  <2>8. Shapes'
    BY <2>2, <2>6, <1>1 DEF MeshInv, Shapes
  <2>9. \A k \in Others(n) : Reachable(k) \subseteq Reachable(k)'
    BY <1>1, <2>2 DEF Reachable, Others
  <2>10. \A k \in Peers : NodeInv(k)
    BY DEF MeshInv
  <2>11. \A k \in Others(n) : NodeInv(k)'
    <3>1. \A k \in Others(n) : /\ view'[k] = view[k] /\ tree'[k] = tree[k]
                               /\ delivered'[k] = delivered[k]
                               /\ k \in known => k \in known'
                               /\ Reachable(k) \subseteq Reachable(k)'
      BY <1>1, <2>2, <2>9
    <3> QED
      BY <3>1, <2>10, <1>1, OthersAreKept
  <2>12. NodeInv(n)'
    <3>1. view[n].active = {} /\ Unborn(n)
      BY <1>6, NodeIs DEF Unborn
    <3>2. ViewInv(n, view[n], Near(tree[n]), Reachable(n)')
      BY <3>1, NodeIs, WorldChanges
    <3> QED
      BY <3>1, <3>2, <2>2, <1>1, NodeIs DEF NodeInv, Unborn
  <2> QED
    BY <2>7, <2>8, <2>11, <2>12, NodesAre DEF MeshInv, Others
<1> QED
  BY <1>5, <1>6

-----------------------------------------------------------------------------
(***************************************************************************)
(* The invariant, and what follows from it.                                *)
(***************************************************************************)
LEMMA MeshInit == Init => MeshInv
<1> SUFFICES ASSUME Init PROVE MeshInv
  BY ZenonT(60)
<1>1. PICK s \in Starts :
         /\ known = IF s.joined THEN Peers ELSE {}
         /\ view = [n \in Peers |->
                       IF s.joined THEN [new EXCEPT !.active = Others(n)] ELSE new]
         /\ tree = [n \in Peers |->
                LET lazy == {m \in Others(n) : {n, m} \in s.lazy} IN
                IF s.joined THEN [EmptyTree EXCEPT !.eager = Others(n) \ lazy, !.lazy = lazy]
                ELSE EmptyTree]
         /\ up = IF s.joined THEN Pairs ELSE {}
  BY DEF Init
<1>2. early = [n \in Peers |-> {}] /\ wire = [nm \in Pairs |-> <<>>]
      /\ delivered = [n \in Peers |-> [id \in Ids |-> 0]] /\ now = 0
  BY DEF Init
<1>3. Shapes
  BY <1>1, <1>2 DEF Shapes
<1>4. ASSUME NEW n \in Peers, NEW m \in Others(n) PROVE WireInv(n, m)
  <2>1. <<n, m>> \in Pairs
    BY DEF Pairs, Others
  <2>2. wire[<<n, m>>] = <<>> /\ <<>> \in Seq(ViewRpcs(n) \cup TreeRpcs)
    BY <2>1, <1>2
  <2> QED
    BY <2>2 DEF WireInv
<1>5. ASSUME NEW n \in Peers PROVE NodeInv(n)
  <2> DEFINE A == IF s.joined THEN Others(n) ELSE {}
             L == IF s.joined THEN {m \in Others(n) : {n, m} \in s.lazy} ELSE {}
             E == IF s.joined THEN Others(n) \ L ELSE {}
             q == <<>>
  <2>1. view[n] = [active |-> A, passive |-> {}, out |-> q]
    <3>1. CASE s.joined
      BY <3>1, <1>1 DEF new
    <3>2. CASE ~s.joined
      BY <3>2, <1>1 DEF new
    <3> QED
      BY <3>1, <3>2
  <2>2. tree[n] = [eager |-> E, lazy |-> L, received |-> Empty, observed |-> Empty, out |-> q]
    <3>1. CASE s.joined
      BY <3>1, <1>1 DEF EmptyTree
    <3>2. CASE ~s.joined
      BY <3>2, <1>1 DEF EmptyTree
    <3> QED
      BY <3>1, <3>2
  <2>3. A \subseteq Others(n) /\ E \subseteq Others(n) /\ L \subseteq Others(n) /\ A = E \cup L
    OBVIOUS
  <2>4. \A p \in A : p \in Reachable(n)
    BY <1>1 DEF Reachable, Pairs, Others
  <2>5. n \notin known => A = {}
    BY <1>1
  <2>6. q = <<>> /\ DOMAIN q = {} /\ q \in Seq(ViewEvents(n)) /\ q \in Seq(TreeEvents)
    OBVIOUS
  <2>7. /\ DOMAIN Empty = {} /\ \A S : Empty \in Partial(S)
    BY ZenonT(60) DEF Empty, Partial
  <2>8. \A id \in Ids : delivered[n][id] = 0
    BY <1>2
  <2> HIDE DEF A, L, E, q
  <2>9. view[n] \in Views(n) /\ view[n].active = A /\ view[n].out = q /\ view[n].passive = {}
    BY <2>1, <2>3, <2>6 DEF Views
  <2>10. tree[n] \in Trees(n) /\ tree[n].eager = E /\ tree[n].lazy = L /\ tree[n].out = q
         /\ tree[n].received = Empty /\ tree[n].observed = Empty
    BY <2>2, <2>3, <2>6, <2>7 DEF Trees
  <2>11. ViewInv(n, view[n], Near(tree[n]), Reachable(n))
    BY <2>3, <2>4, <2>6, <2>9, <2>10 DEF ViewInv, Keeps, Reaches, About, Near
  <2>12. TreeInv(n, tree[n], delivered[n], now)
    <3>1. \A id \in Ids : Count(q, delivered[n], id) = 0
      <4>1. \A id : Delivers(q, id) = {}
        BY <2>6 DEF Delivers
      <4> QED
        BY <4>1, <2>8, FS_EmptySet DEF Count
    <3>2. Owed(0) = 0
      BY HistoryIsNat DEF Owed
    <3> QED
      BY <3>1, <3>2, <2>7, <2>8, <2>10, <1>2 DEF TreeInv, Paced
  <2> QED
    BY <2>5, <2>6, <2>7, <2>9, <2>10, <2>11, <2>12 DEF NodeInv, Unborn
<1> QED
  BY <1>3, <1>4, <1>5 DEF MeshInv

LEMMA MeshNext == MeshInv /\ [Next]_vars => MeshInv'
<1> SUFFICES ASSUME MeshInv, [Next]_vars PROVE MeshInv'
  OBVIOUS
<1>1. ASSUME NEW n \in Peers,
             \/ UpdateLocalNodeInfo(n) \/ PollNodes(n) \/ PollTree(n) \/ ShuffleTimer(n)
             \/ NodesTick(n) \/ TreeTick(n) \/ \E id \in Ids : Publish(n, id)
      PROVE  MeshInv'
  BY <1>1, UpdateLocalNodeInfoStep, PollNodesStep, PollTreeStep, ShuffleTimerStep,
     NodesTickStep, TreeTickStep, PublishStep
<1>2. ASSUME NEW n \in Peers, NEW m \in Others(n),
             \/ ConnectionClosed(n, m) \/ InjectEvent(n, m)
             \/ \E temp \in BOOLEAN :
                   ConnectionEstablished(n, m, temp) \/ DialFailure(n, m, temp)
      PROVE  MeshInv'
  BY <1>2, ConnectionClosedStep, InjectEventStep, ConnectionEstablishedStep, DialFailureStep
<1>3. CASE Elapse
  BY <1>3, ElapseStep
<1>4. CASE UNCHANGED vars
  <2>1. UNCHANGED <<known, early, view, tree, up, dialing, wire, delivered, now>>
    BY <1>4 DEF vars
  <2> QED
    BY <2>1 DEF MeshInv, Shapes, NodeInv, Reachable, Unborn, WireInv
<1> QED
  BY <1>1, <1>2, <1>3, <1>4 DEF Next

(* The invariant of membership and broadcast: at every node the tree will  *)
(* follow the view when it has handled what is queued, a neighbour is      *)
(* connected or being dialed, the deliveries of a message are a history    *)
(* window apart, and only nodes with a mesh speak.                         *)
THEOREM MeshInvariant == Spec => []MeshInv
<1>1. Init => MeshInv
  BY MeshInit
<1>2. MeshInv /\ [Next]_vars => MeshInv'
  BY MeshNext
<1> QED
  BY <1>1, <1>2, PTL DEF Spec

(* No node ever becomes its own neighbour: add_node_to_active_view turns   *)
(* the local node away, whatever shuffles bring into the passive view.     *)
THEOREM NoNodeIsItsOwnNeighbor == Spec => []NeverItsOwnNeighbor
<1>1. MeshInv => NeverItsOwnNeighbor
  <2> SUFFICES ASSUME MeshInv, NEW n \in Peers
               PROVE  n \notin view[n].active \cup tree[n].eager \cup tree[n].lazy
    BY DEF NeverItsOwnNeighbor
  <2>1. view[n] \in Views(n) /\ tree[n] \in Trees(n)
    BY NodeIs DEF ViewInv, TreeInv
  <2> QED
    BY <2>1 DEF Views, Trees, Others
<1> QED
  BY <1>1, MeshInvariant, PTL

(* The last of some indices of a sequence.                                 *)
LEMMA LastIndex ==
    ASSUME NEW S, NEW s \in Seq(S), NEW A \in SUBSET DOMAIN s, A # {}
    PROVE  Max(A) \in A /\ \A j \in A : j <= Max(A)
<1> DEFINE B == {Len(s) - i : i \in A}
<1>1. \A i \in A : i \in Nat /\ Len(s) - i \in Nat
  OBVIOUS
<1>2. Len(s) \in Nat
  OBVIOUS
<1>3. B \subseteq Nat /\ B # {}
  BY <1>1
<1>4. PICK b \in B : \A c \in B : b <= c
  BY <1>3, Smallest
<1>5. PICK x \in A : b = Len(s) - x
  BY <1>4
<1>6. \A j \in A : Len(s) - x <= Len(s) - j
  BY <1>4, <1>5
<1>7. \A j \in A : x >= j
  BY <1>1, <1>2, <1>5, <1>6, SMTT(60)
<1>8. Max(A) \in A /\ \A j \in A : Max(A) >= j
  BY <1>5, <1>7 DEF Max
<1> QED
  BY <1>1, <1>8

(* TopicMesh loses no change of the active view on its way to the tree: an *)
(* active peer is eager or lazy when all events about it have been polled, *)
(* and until then the last of them says whether the peer is active.        *)
THEOREM TreesFollowViews == Spec => []TreeFollowsView
<1>1. MeshInv => TreeFollowsView
  <2> SUFFICES ASSUME MeshInv, NEW n \in Peers, NEW p \in Others(n)
               PROVE  IF Pending(n, p) = {}
                      THEN p \in view[n].active => p \in tree[n].eager \cup tree[n].lazy
                      ELSE p \in view[n].active <=>
                              view[n].out[Max(Pending(n, p))] = PeerAdded(p)
    BY DEF TreeFollowsView
  <2>1. view[n].out \in Seq(ViewEvents(n)) /\ Keeps(view[n], Near(tree[n]), p)
    BY NodeIs DEF ViewInv, Views
  <2>2. Pending(n, p) = About(view[n].out, p)
    BY DEF Pending, About
  <2>3. CASE Pending(n, p) = {}
    BY <2>1, <2>2, <2>3 DEF Keeps, Near
  <2>4. CASE Pending(n, p) # {}
    <3> DEFINE A == Pending(n, p)
    <3>1. A \in SUBSET DOMAIN view[n].out
      BY DEF Pending
    <3>2. A # {} /\ A = About(view[n].out, p)
      BY <2>2, <2>4
    <3> HIDE DEF A
    <3>3. Max(A) \in A /\ \A j \in A : j <= Max(A)
      BY <2>1, <3>1, <3>2, LastIndex
    <3>4. p \in view[n].active <=> view[n].out[Max(A)] = PeerAdded(p)
      BY <2>1, <3>2, <3>3 DEF Keeps
    <3> QED
      BY <2>4, <3>4 DEF A
  <2> QED
    BY <2>3, <2>4
<1> QED
  BY <1>1, MeshInvariant, PTL

(* A node that closes or loses a connection, or fails to make one, drops   *)
(* the neighbour; a new neighbour asked for it over a connection or is     *)
(* dialed first.                                                           *)
THEOREM NeighborsStayReachable == Spec => []NeighborsAreReachable
<1>1. MeshInv => NeighborsAreReachable
  <2> SUFFICES ASSUME MeshInv, NEW n \in Peers, NEW p \in view[n].active
               PROVE  \/ <<n, p>> \in up
                      \/ \E temp \in BOOLEAN : <<n, p, temp>> \in dialing
                      \/ \E i \in DOMAIN view[n].out :
                            view[n].out[i].type = "Dial" /\ view[n].out[i].peer = p
    BY DEF NeighborsAreReachable
  <2>1. p \in Others(n)
    BY NodeIs DEF ViewInv, Views
  <2>2. p \in Reachable(n) \/ Dials(view[n].out, p)
    BY <2>1, NodeIs DEF ViewInv, Reaches
  <2> QED
    BY <2>2 DEF Reachable, Dials
<1> QED
  BY <1>1, MeshInvariant, PTL

(* prune_history does not forget a message before a history window has     *)
(* passed since it was received or published, and only what is forgotten   *)
(* is delivered again: k + 1 deliveries take k windows.                    *)
THEOREM DeliveriesStaySpaced == Spec => []DeliveriesAreSpaced
<1>1. MeshInv => DeliveriesAreSpaced
  <2> SUFFICES ASSUME MeshInv, NEW n \in Peers, NEW id \in Ids
               PROVE  (Deliveries(n, id) - 1) * HistoryWindow <= now
    BY DEF DeliveriesAreSpaced
  <2> DEFINE k == Count(tree[n].out, delivered[n], id)
  <2>1. Deliveries(n, id) = k
    BY DEF Deliveries, Count, Delivers
  <2>2. TreeInv(n, tree[n], delivered[n], now)
    BY NodeIs
  <2>3. k \in Nat /\ Paced(tree[n].received, id, k, now) /\ now \in Nat
    BY <2>2, CountIsNat DEF TreeInv
  <2>4. id \in DOMAIN tree[n].received => tree[n].received[id].at \in Nat
    BY <2>2, ReceiptIs
  <2> HIDE DEF k
  <2>5. (k - 1) * HistoryWindow = Owed(k) - HistoryWindow /\ Owed(k) \in Nat
    BY <2>3, HistoryIsNat, OwedGrows
  <2>6. Owed(k) <= now + HistoryWindow
    <3>1. CASE id \in DOMAIN tree[n].received
      BY <2>3, <2>4, <2>5, <3>1, HistoryIsNat DEF Paced
    <3>2. CASE id \notin DOMAIN tree[n].received
      BY <2>3, <2>5, <3>2, HistoryIsNat DEF Paced
    <3> QED
      BY <3>1, <3>2
  <2> QED
    BY <2>1, <2>3, <2>5, <2>6, HistoryIsNat
<1> QED
  BY <1>1, MeshInvariant, PTL
=============================================================================
