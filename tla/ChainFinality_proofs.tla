------------------------ MODULE ChainFinality_proofs ------------------------
(***************************************************************************)
(* Proofs about what the consensus engine announces.  The queue is written *)
(* at both ends: injest_vote puts confirmations in front of everything     *)
(* that waits, all other events go to the back.  First the order of what   *)
(* is confirmed and finalized, then that the engine implements Finality,   *)
(* step by step.                                                           *)
(***************************************************************************)
EXTENDS ChainFinality, Chain_proofs

-----------------------------------------------------------------------------
(***************************************************************************)
(* Order in a queue.  A pair <<d, e>> of R says that e may be announced    *)
(* only after d.                                                           *)
(***************************************************************************)
Pairs == [kind : Kinds, block : Hashes] \X Events

Heard(em, e) == e.block \in em[e.kind]

Precedes(q, em, d, i) ==
    Heard(em, d) \/ \E j \in DOMAIN q : j < i /\ q[j] = d

InOrder(q, em, R) ==
    /\ \A r \in R : Heard(em, r[2]) => Heard(em, r[1])
    /\ \A r \in R : \A i \in DOMAIN q : q[i] = r[2] => Precedes(q, em, r[1], i)

(* Events that wait for nothing may be queued at the front.                *)
LEMMA OrderPrepend ==
    ASSUME NEW q \in Seq(Events), NEW em, NEW R, InOrder(q, em, R),
           NEW s \in Seq(Events), \A r \in R : r[2] \notin ToSet(s)
    PROVE  InOrder(s \o q, em, R)
<1> SUFFICES ASSUME NEW r \in R, NEW i \in DOMAIN (s \o q), (s \o q)[i] = r[2]
             PROVE  Precedes(s \o q, em, r[1], i)
  BY DEF InOrder
<1>1. i - Len(s) \in DOMAIN q /\ q[i - Len(s)] = r[2]
  BY ConcatIndex DEF ToSet
<1>2. Precedes(q, em, r[1], i - Len(s))
  BY <1>1 DEF InOrder
<1>3. ASSUME NEW j \in DOMAIN q, j < i - Len(s), q[j] = r[1]
      PROVE  j + Len(s) \in DOMAIN (s \o q) /\ j + Len(s) < i
             /\ (s \o q)[j + Len(s)] = r[1]
  BY <1>3
<1> QED
  BY <1>2, <1>3 DEF Precedes

(* And at the back.                                                        *)
LEMMA OrderConcat ==
    ASSUME NEW q \in Seq(Events), NEW em, NEW R, InOrder(q, em, R),
           NEW s \in Seq(Events), \A r \in R : r[2] \notin ToSet(s)
    PROVE  InOrder(q \o s, em, R)
<1> SUFFICES ASSUME NEW r \in R, NEW i \in DOMAIN (q \o s), (q \o s)[i] = r[2]
             PROVE  Precedes(q \o s, em, r[1], i)
  BY DEF InOrder
<1>1. i \in DOMAIN q /\ q[i] = r[2]
  BY ConcatIndex DEF ToSet
<1>2. Precedes(q, em, r[1], i)
  BY <1>1 DEF InOrder
<1>3. ASSUME NEW j \in DOMAIN q PROVE j \in DOMAIN (q \o s) /\ (q \o s)[j] = q[j]
  OBVIOUS
<1> QED
  BY <1>2, <1>3 DEF Precedes

(* An event may be queued at the back once what it waits for is queued.    *)
LEMMA OrderAppend ==
    ASSUME NEW q \in Seq(Events), NEW em, NEW R, InOrder(q, em, R),
           NEW e \in Events,
           \A r \in R : r[2] = e => Heard(em, r[1]) \/ r[1] \in ToSet(q)
    PROVE  InOrder(Append(q, e), em, R)
<1>1. /\ DOMAIN Append(q, e) = 1..(Len(q) + 1)
      /\ DOMAIN q = 1..Len(q)
      /\ Len(q) \in Nat
      /\ Append(q, e)[Len(q) + 1] = e
      /\ \A i \in 1..Len(q) : Append(q, e)[i] = q[i]
  OBVIOUS
<1> SUFFICES ASSUME NEW r \in R, NEW i \in 1..(Len(q) + 1), Append(q, e)[i] = r[2]
             PROVE  Precedes(Append(q, e), em, r[1], i)
  BY <1>1 DEF InOrder
<1>2. CASE i \in 1..Len(q)
  <2>1. Precedes(q, em, r[1], i)
    BY <1>1, <1>2 DEF InOrder
  <2> QED
    BY <2>1, <1>1 DEF Precedes
<1>3. CASE i = Len(q) + 1
  <2>1. CASE r[1] \in ToSet(q)
    <3>1. PICK j \in 1..Len(q) : q[j] = r[1]
      BY <2>1, <1>1 DEF ToSet
    <3> QED
      BY <3>1, <1>1, <1>3 DEF Precedes
  <2> QED
    BY <2>1, <1>1, <1>3 DEF Precedes
<1> QED
  BY <1>1, <1>2, <1>3

(* The head of a queue in order may be announced.                          *)
LEMMA OrderEmit ==
    ASSUME NEW q \in Seq(Events), NEW em \in [Kinds -> SUBSET Hashes],
           NEW R \in SUBSET Pairs, InOrder(q, em, R), q # <<>>
    PROVE  InOrder(Tail(q), [em EXCEPT ![Head(q).kind] = @ \cup {Head(q).block}], R)
<1> DEFINE e == Head(q)
           em2 == [em EXCEPT ![e.kind] = @ \cup {e.block}]
<1>1. e \in Events /\ e = q[1] /\ 1 \in DOMAIN q
  OBVIOUS
<1>2. \A i \in DOMAIN Tail(q) : i + 1 \in DOMAIN q /\ Tail(q)[i] = q[i + 1]
  OBVIOUS
<1>3. \A i \in DOMAIN q : i = 1 \/ (i - 1 \in DOMAIN Tail(q) /\ Tail(q)[i - 1] = q[i])
  OBVIOUS
<1>4. ASSUME NEW d \in [kind : Kinds, block : Hashes]
      PROVE  Heard(em2, d) <=> Heard(em, d) \/ d = e
  BY <1>1 DEF Heard, Events
<1>5. \A r \in R : r[1] \in [kind : Kinds, block : Hashes]
                   /\ r[2] \in [kind : Kinds, block : Hashes]
  BY DEF Pairs, Events
<1> HIDE DEF e, em2
<1>6. ASSUME NEW r \in R, Heard(em2, r[2]) PROVE Heard(em2, r[1])
  <2>1. CASE Heard(em, r[2])
    BY <2>1, <1>4, <1>5 DEF InOrder
  <2>2. CASE r[2] = e
    <3>1. Precedes(q, em, r[1], 1)
      BY <1>1, <2>2 DEF InOrder
    <3>2. ~\E j \in DOMAIN q : j < 1
      OBVIOUS
    <3> QED
      BY <3>1, <3>2, <1>4, <1>5 DEF Precedes
  <2> QED
    BY <2>1, <2>2, <1>4, <1>5, <1>6
<1>7. ASSUME NEW r \in R, NEW i \in DOMAIN Tail(q), Tail(q)[i] = r[2]
      PROVE  Precedes(Tail(q), em2, r[1], i)
  <2>1. Precedes(q, em, r[1], i + 1)
    BY <1>2, <1>7 DEF InOrder
  <2>2. CASE Heard(em, r[1])
    BY <2>2, <1>4, <1>5 DEF Precedes
  <2>3. ASSUME NEW j \in DOMAIN q, j < i + 1, q[j] = r[1]
        PROVE  Precedes(Tail(q), em2, r[1], i)
    <3>1. CASE j = 1
      BY <3>1, <2>3, <1>1, <1>4, <1>5 DEF Precedes
    <3>2. CASE j # 1
      <4>1. j - 1 \in DOMAIN Tail(q) /\ Tail(q)[j - 1] = r[1]
        BY <3>2, <2>3, <1>3
      <4>2. j - 1 < i
        BY <2>3
      <4> QED
        BY <4>1, <4>2 DEF Precedes
    <3> QED
      BY <3>1, <3>2
  <2> QED
    BY <2>1, <2>2, <2>3 DEF Precedes
<1> QED
  BY <1>6, <1>7 DEF InOrder, e, em2

-----------------------------------------------------------------------------
(***************************************************************************)
(* What the events of the engine wait for: a finalized block for its own   *)
(* confirmation and for the finalization of its parent.                    *)
(***************************************************************************)
ParentFirst ==
    {r \in Pairs : /\ r[2].kind = "finalized"
                   /\ Parent[r[2].block] # Genesis
                   /\ r[1] = EventOf("finalized", Parent[r[2].block])}

ConfirmedFirst ==
    {r \in Pairs : /\ r[2].kind = "finalized"
                   /\ r[1] = EventOf("confirmed", r[2].block)}

Required == ParentFirst \cup ConfirmedFirst

Known(e) == Heard(emitted, e) \/ e \in ToSet(events)

QueueInv ==
    /\ InOrder(events, emitted, Required)
    /\ finalized # Genesis => Known(EventOf("finalized", finalized))
    /\ \A b \in forktrees : confirmed(b) => Known(EventOf("confirmed", b))

LEMMA OnlyFinalizedWaits ==
    ASSUME NEW s \in Seq(Events), \A e \in ToSet(s) : e.kind # "finalized"
    PROVE  \A r \in Required : r[2] \notin ToSet(s)
  BY DEF Required, ParentFirst, ConfirmedFirst

LEMMA RequiredArePairs == Required \in SUBSET Pairs
  BY DEF Required, ParentFirst, ConfirmedFirst

(* A listing of a finite set names every element of it.                    *)
LEMMA ListingIsComplete ==
    ASSUME NEW S \in SUBSET Blocks, NEW s \in SetToSeqs(S)
    PROVE  ToSet(s) = S /\ \A i, j \in DOMAIN s : s[i] = s[j] => i = j
<1>1. IsFiniteSet(S)
  BY FS_Subset, BlockAssumption
<1> QED
  BY <1>1, ListingCovers

LEMMA MajorityIsPositive == minimum_majority_stake > 0
<1>1. total_stake \in Nat /\ total_stake > 0 /\ FloatRounding \in {0, 1}
  BY MajorityIsInt, StakedAssumption, LimitAssumption
<1>2. \A t \in Nat : t > 0 => (67 * t + 99) \div 100 > 0
  BY Z3
<1> QED
  BY <1>1, <1>2 DEF minimum_majority_stake

(* Nothing that was queued or announced is forgotten, and nothing gets     *)
(* confirmed: the queue invariant is kept.                                 *)
LEMMA QueueKept ==
    ASSUME TreeInv, QueueInv, InOrder(events', emitted', Required),
           \A k \in {"confirmed", "finalized"}, b \in Blocks :
              Known(EventOf(k, b)) => Known(EventOf(k, b))',
           \/ finalized' = finalized
           \/ finalized' \in Blocks /\ Known(EventOf("finalized", finalized))',
           \A b \in forktrees' : confirmed(b)' => b \in forktrees /\ confirmed(b)
    PROVE  QueueInv'
<1>1. finalized' # Genesis => Known(EventOf("finalized", finalized))'
  <2>1. CASE finalized' = finalized
    <3>1. finalized # Genesis => finalized \in Blocks
      BY DEF TreeInv, TypeOK
    <3>2. finalized # Genesis => Known(EventOf("finalized", finalized))
      BY DEF QueueInv
    <3> QED
      BY <2>1, <3>1, <3>2
  <2> QED
    BY <2>1
<1>2. \A b \in forktrees' : confirmed(b)' => Known(EventOf("confirmed", b))'
  BY DEF QueueInv, TreeInv, TypeOK
<1> QED
  BY <1>1, <1>2 DEF QueueInv

(* Events of other kinds may be queued at either end.                      *)
LEMMA QueueOtherEvents ==
    ASSUME TypeOK, QueueInv, NEW s \in Seq(Events),
           \A e \in ToSet(s) : e.kind # "finalized",
           events' = events \o s \/ events' = s \o events,
           UNCHANGED emitted
    PROVE  /\ InOrder(events', emitted', Required)
           /\ \A e : Known(e) => Known(e)'
           /\ \A e \in ToSet(s) : Known(e)'
<1>1. events \in Seq(Events)
  BY DEF TypeOK
<1>2. InOrder(events, emitted, Required)
  BY DEF QueueInv
<1>3. InOrder(events', emitted, Required)
  BY <1>1, <1>2, OrderPrepend, OrderConcat, OnlyFinalizedWaits
<1>4. ToSet(events') = ToSet(events) \cup ToSet(s)
  <2>1. ToSet(events \o s) = ToSet(events) \cup ToSet(s)
    BY <1>1, ToSetConcat
  <2>2. ToSet(s \o events) = ToSet(s) \cup ToSet(events)
    BY <1>1, ToSetConcat
  <2> QED
    BY <2>1, <2>2
<1> QED
  BY <1>3, <1>4 DEF Known, Heard

LEMMA QueueTryInclude == TreeInv /\ QueueInv /\ TryInclude => QueueInv'
<1> SUFFICES ASSUME TreeInv, QueueInv, TryInclude PROVE QueueInv'
  OBVIOUS
<1> DEFINE b == Head(including)
           s == <<EventOf("included", b)>>
<1>1. b \in Blocks
  BY IncludingIsNotEmpty DEF TryInclude, TreeInv
<1>2. /\ forktrees' = forktrees \cup {b}
      /\ UNCHANGED <<finalized, emitted>>
      /\ votes' = [votes EXCEPT ![b] = 0]
      /\ events' = Append(events, EventOf("included", b))
      /\ b \notin forktrees
  BY DEF TryInclude, emit_event, IsNew, historyvars
<1>3. EventOf("included", b) \in Events /\ events \in Seq(Events)
  BY <1>1, EventOfIsEvent DEF Kinds, TreeInv, TypeOK
<1> HIDE DEF b
<1>4. s \in Seq(Events) /\ events' = events \o s
  BY <1>2, <1>3
<1>5. \A e \in ToSet(s) : e.kind # "finalized"
  BY DEF ToSet, EventOf
<1>6. votes'[b] = 0 /\ \A c \in forktrees : votes'[c] = votes[c]
  BY <1>1, <1>2 DEF TreeInv, TypeOK
<1>7. \A c \in forktrees' : confirmed(c)' => c \in forktrees /\ confirmed(c)
  BY <1>2, <1>6, MajorityIsPositive, MajorityIsInt DEF confirmed
<1> HIDE DEF s
<1>8. InOrder(events', emitted', Required) /\ \A e : Known(e) => Known(e)'
  BY <1>2, <1>4, <1>5, QueueOtherEvents DEF TreeInv
<1> QED
  BY <1>2, <1>7, <1>8, QueueKept

LEMMA QueueInjest == TreeInv /\ QueueInv /\ InjestVote => QueueInv'
<1> SUFFICES ASSUME TreeInv, QueueInv, InjestVote PROVE QueueInv'
  OBVIOUS
<1> DEFINE t == Head(counting).target
           newly == newly_confirmed(t)
<1>1. PICK s \in SetToSeqs(newly) : events' = EventsOf("confirmed", s) \o events
  BY DEF InjestVote
<1>2. newly \in SUBSET Blocks /\ newly \in SUBSET Hashes
  BY DEF newly_confirmed, path, TreeInv, TypeOK, Hashes
<1>3. /\ UNCHANGED <<finalized, forktrees, emitted>>
      /\ add_votes(t, Head(counting).validator)
  BY DEF InjestVote, historyvars
\* Only blocks on the path of the target get votes.
<1>4. \A c \in forktrees : confirmed(c)' => c \in newly \/ confirmed(c)
  <2>1. \A c \in forktrees : votes'[c] # votes[c] => c \in path(t)
    BY <1>3 DEF add_votes, TreeInv, TypeOK
  <2> QED
    BY <2>1 DEF newly_confirmed, confirmed
<1> HIDE DEF newly, t
<1>5. s \in Seq(newly) /\ ToSet(s) = newly
  BY <1>2, ListingOfBlocks, ListingIsComplete
<1> DEFINE cs == EventsOf("confirmed", s)
<1>6. cs \in Seq(Events)
  BY <1>2, <1>5, EventsOfIsSeq DEF Kinds
<1>7. \A e \in ToSet(cs) : e.kind # "finalized"
  BY <1>5, EventsOfKind DEF EventOf
<1>8. \A c \in newly : EventOf("confirmed", c) \in ToSet(cs)
  BY <1>5 DEF ToSet, EventsOf
<1> HIDE DEF cs
<1>9. /\ InOrder(events', emitted', Required)
      /\ \A e : Known(e) => Known(e)'
      /\ \A e \in ToSet(cs) : Known(e)'
  BY <1>1, <1>3, <1>6, <1>7, QueueOtherEvents DEF TreeInv, cs
<1>10. \A c \in forktrees' : confirmed(c)' => Known(EventOf("confirmed", c))'
  BY <1>3, <1>4, <1>8, <1>9 DEF QueueInv
<1>11. finalized' # Genesis => Known(EventOf("finalized", finalized))'
  BY <1>3, <1>9 DEF QueueInv
<1> QED
  BY <1>9, <1>10, <1>11 DEF QueueInv

LEMMA QueueFinalize == TreeInv /\ QueueInv /\ TryFinalizeRoots => QueueInv'
<1> SUFFICES ASSUME TreeInv, QueueInv, TryFinalizeRoots PROVE QueueInv'
  OBVIOUS
<1>1. PICK r \in forktrees : Parent[r] = finalized /\ confirmed(r) /\ finalize_root(r)
  BY FinalizeRoot
<1> DEFINE discarded == forktrees \ (Survivors(r) \cup {r})
<1>2. PICK s \in SetToSeqs(discarded) : signal_finalized(r, s)
  BY <1>1 DEF finalize_root
<1>3. finalized' = r /\ forktrees' = Survivors(r) /\ emitted' = emitted
  BY <1>1 DEF finalize_root, TryFinalizeRoots, historyvars
<1>4. r \in Blocks /\ discarded \in SUBSET Blocks /\ events \in Seq(Events)
  BY DEF TreeInv, TypeOK
<1>5. s \in Seq(discarded)
  <2> HIDE DEF discarded
  <2> QED
    BY ONLY <1>4, s \in SetToSeqs(discarded), ListingOfBlocks
<1> DEFINE ds == EventsOf("discarded", s)
           q == events \o ds
           f == EventOf("finalized", r)
<1>6. ds \in Seq(Events) /\ f \in Events
  <2>1. discarded \in SUBSET Hashes
    BY <1>4 DEF Hashes
  <2> QED
    BY <2>1, <1>4, <1>5, EventsOfIsSeq, EventOfIsEvent DEF Kinds
<1>7. \A e \in ToSet(ds) : e.kind # "finalized"
  BY <1>5, EventsOfKind DEF EventOf
<1>8. events' = Append(q, f)
  BY <1>2 DEF signal_finalized
<1> HIDE DEF ds
<1>9. q \in Seq(Events) /\ InOrder(q, emitted, Required)
  BY <1>4, <1>6, <1>7, OrderConcat, OnlyFinalizedWaits DEF QueueInv
<1>10. ToSet(q) = ToSet(events) \cup ToSet(ds)
  BY <1>4, <1>6, ToSetConcat
<1>11. ASSUME NEW x \in Required, x[2] = f
       PROVE  Heard(emitted, x[1]) \/ x[1] \in ToSet(q)
  <2>1. \/ finalized # Genesis /\ x[1] = EventOf("finalized", finalized)
        \/ x[1] = EventOf("confirmed", r)
    BY <1>1, <1>11 DEF Required, ParentFirst, ConfirmedFirst, EventOf
  <2>2. Known(x[1])
    BY <2>1, <1>1 DEF QueueInv
  <2> QED
    BY <2>2, <1>10 DEF Known
<1> HIDE DEF q, f
<1>12. InOrder(events', emitted', Required)
  BY <1>3, <1>6, <1>8, <1>9, <1>11, OrderAppend
<1>13. ToSet(events') = ToSet(events) \cup ToSet(ds) \cup {f}
  BY <1>6, <1>8, <1>9, <1>10, ToSetAppend
<1>14. \A e : Known(e) => Known(e)'
  BY <1>3, <1>13 DEF Known, Heard
<1>15. finalized' \in Blocks /\ Known(EventOf("finalized", finalized))'
  BY <1>3, <1>4, <1>13 DEF Known, f
<1>16. \A c \in forktrees' : confirmed(c)' => c \in forktrees /\ confirmed(c)
  BY <1>1, <1>3 DEF finalize_root, Survivors, confirmed, TreeInv, TypeOK
<1> QED
  BY <1>12, <1>14, <1>15, <1>16, QueueKept

LEMMA QueuePoll == TreeInv /\ QueueInv /\ poll_next => QueueInv'
<1> SUFFICES ASSUME TreeInv, QueueInv, poll_next PROVE QueueInv'
  OBVIOUS
<1> DEFINE e == Head(events)
<1>1. Emit(e) /\ events # <<>> /\ UNCHANGED <<finalized, forktrees, votes>>
  BY DEF poll_next, PollIncluded, PollFinalized, PollOther, treevars
<1>2. events \in Seq(Events) /\ emitted \in [Kinds -> SUBSET Hashes]
  BY DEF TreeInv, TypeOK
<1>3. InOrder(events', emitted', Required)
  BY <1>1, <1>2, OrderEmit, RequiredArePairs DEF Emit, QueueInv
<1>4. e \in Events /\ \A x \in ToSet(events) : x = e \/ x \in ToSet(Tail(events))
  <2>1. e \in Events /\ e = events[1]
    BY <1>1, <1>2
  <2>2. ASSUME NEW i \in DOMAIN events
        PROVE  events[i] = e \/ events[i] \in ToSet(Tail(events))
    <3>1. i = 1 \/ (i - 1 \in DOMAIN Tail(events) /\ Tail(events)[i - 1] = events[i])
      BY <1>1, <1>2
    <3> QED
      BY <2>1, <3>1 DEF ToSet
  <2> HIDE DEF e
  <2> QED
    BY <2>1, <2>2 DEF ToSet
<1> HIDE DEF e
<1>5. /\ events' = Tail(events)
      /\ \A k \in Kinds : emitted'[k] = IF k = e.kind THEN emitted[k] \cup {e.block}
                                         ELSE emitted[k]
  BY <1>1, <1>2 DEF Emit
<1>6. ASSUME NEW k \in Kinds, NEW b \in Blocks, Known(EventOf(k, b))
      PROVE  Known(EventOf(k, b))'
  <2> DEFINE x == EventOf(k, b)
  <2>1. x.kind = k /\ x.block = b
    BY DEF EventOf
  <2> HIDE DEF x
  <2>2. b \in emitted[k] \/ x = e \/ x \in ToSet(Tail(events))
    BY <1>4, <1>6, <2>1 DEF Known, Heard, x
  <2>3. b \in emitted'[k] \/ x \in ToSet(events')
    BY <1>5, <2>1, <2>2
  <2> QED
    BY <2>1, <2>3 DEF Known, Heard, x
<1> QED
  BY <1>1, <1>3, <1>6, QueueKept DEF confirmed, Kinds

LEMMA QueueNext == TreeInv /\ QueueInv /\ [Next]_vars => QueueInv'
<1> SUFFICES ASSUME TreeInv, QueueInv, [Next]_vars PROVE QueueInv'
  OBVIOUS
<1>1. events \in Seq(Events)
  BY DEF TreeInv, TypeOK
<1>2. CASE CommitAndVote
  <2> DEFINE b == Head(including)
             s == <<EventOf("vote", b)>>
  <2>1. UNCHANGED <<finalized, forktrees, votes, emitted>>
    BY <1>2 DEF CommitAndVote, treevars
  <2>2. CASE events' = events
    BY <2>1, <2>2 DEF QueueInv, Known, Heard, confirmed
  <2>3. CASE events' = Append(events, EventOf("vote", b))
    <3>1. EventOf("vote", b) \in Events
      BY <1>2, IncludingIsNotEmpty, EventOfIsEvent DEF CommitAndVote, TreeInv, Kinds
    <3> HIDE DEF b
    <3>2. s \in Seq(Events) /\ events' = events \o s
      BY <3>1, <2>3, <1>1
    <3>3. \A x \in ToSet(s) : x.kind # "finalized"
      BY DEF ToSet, EventOf
    <3> HIDE DEF s
    <3>4. InOrder(events', emitted', Required) /\ \A e : Known(e) => Known(e)'
      BY <2>1, <3>2, <3>3, QueueOtherEvents DEF TreeInv
    <3> QED
      BY <2>1, <3>4, QueueKept DEF confirmed
  <2> QED
    BY <1>2, <2>2, <2>3 DEF CommitAndVote, commit_and_vote
<1>3. CASE MissingBlocks
  <2>1. PICK overdue \in SUBSET Hashes : \E s \in SetToSeqs(overdue) :
             events' = events \o EventsOf("missing", s)
    BY <1>3 DEF MissingBlocks
  <2>2. PICK s \in SetToSeqs(overdue) : events' = events \o EventsOf("missing", s)
    BY <2>1
  <2>3. s \in Seq(overdue)
    BY ListingIsSeq, HashesAreFinite
  <2>4. EventsOf("missing", s) \in Seq(Events)
    BY <2>3, EventsOfIsSeq DEF Kinds
  <2>5. \A x \in ToSet(EventsOf("missing", s)) : x.kind # "finalized"
    BY <2>3, EventsOfKind DEF EventOf
  <2>6. UNCHANGED <<finalized, forktrees, votes, emitted>>
    BY <1>3 DEF MissingBlocks, historyvars, treevars
  <2>7. InOrder(events', emitted', Required) /\ \A e : Known(e) => Known(e)'
    BY <2>2, <2>4, <2>5, <2>6, QueueOtherEvents DEF TreeInv
  <2> QED
    BY <2>6, <2>7, QueueKept DEF confirmed
<1>4. CASE UNCHANGED <<finalized, forktrees, votes, events, emitted>>
  BY <1>4 DEF QueueInv, Known, Heard, confirmed
<1>5. \/ TryInclude \/ TryFinalizeRoots \/ poll_next \/ CommitAndVote
      \/ InjestVote \/ MissingBlocks
      \/ UNCHANGED <<finalized, forktrees, votes, events, emitted>>
  BY DEF Next, ReceiveBlock, IncludeStep, PollStep, RejectBlock, IncludeDuplicate,
     RejectExecution, AddOrphan, ConsumeBlocks, NothingToConsume, RejectVote,
     StoreVote, ConsumeVotes, BeginFinalize, vars, treevars, historyvars
<1> QED
  BY <1>2, <1>3, <1>4, <1>5, QueueTryInclude, QueueInjest, QueueFinalize, QueuePoll

(* Only blocks are announced as finalized.                                 *)
HeardInv == emitted["finalized"] \subseteq Blocks

LEMMA HeardNext == TypeOK /\ HeardInv /\ [Next]_vars => HeardInv'
<1> SUFFICES ASSUME TypeOK, HeardInv, [Next]_vars PROVE HeardInv'
  OBVIOUS
<1>1. CASE poll_next
  <2>1. Emit(Head(events)) /\ events # <<>>
    BY <1>1 DEF poll_next, PollIncluded, PollFinalized, PollOther
  <2>2. Head(events) \in Events /\ emitted \in [Kinds -> SUBSET Hashes]
    BY <2>1 DEF TypeOK
  <2> QED
    BY <2>1, <2>2 DEF Emit, Events, HeardInv
<1>2. CASE UNCHANGED emitted
  BY <1>2, SMTT(60) DEF HeardInv
<1>3. poll_next \/ UNCHANGED emitted
  BY DEF Next, ReceiveBlock, IncludeStep, PollStep, RejectBlock, IncludeDuplicate,
     TryInclude, RejectExecution, AddOrphan, CommitAndVote, ConsumeBlocks,
     NothingToConsume, RejectVote, StoreVote, InjestVote, ConsumeVotes, BeginFinalize,
     TryFinalizeRoots, MissingBlocks, vars, historyvars
<1> QED
  BY <1>1, <1>2, <1>3

LEMMA QueueInvariant == Spec => [](TreeInv /\ QueueInv /\ HeardInv)
<1>1. Init => TreeInv /\ QueueInv /\ HeardInv
  <2> SUFFICES ASSUME Init PROVE TreeInv /\ QueueInv /\ HeardInv
    OBVIOUS
  <2>1. \A e \in Events : ~Heard(emitted, e)
    BY DEF Init, Heard, Events
  <2>2. \A r \in Required : r[2] \in Events
    BY RequiredArePairs DEF Pairs
  <2>3. events = <<>>
    BY DEF Init
  <2>4. InOrder(events, emitted, Required)
    BY <2>1, <2>2, <2>3 DEF InOrder
  <2> QED
    BY <2>4, TreeInit DEF Init, QueueInv, HeardInv, Kinds
<1>2. (TreeInv /\ QueueInv /\ HeardInv) /\ [Next]_vars
          => (TreeInv /\ QueueInv /\ HeardInv)'
  BY TreeNext, QueueNext, HeardNext DEF TreeInv
<1> QED
  BY <1>1, <1>2, PTL DEF Spec

(* Whoever listens to the engine hears of every finalized block after its  *)
(* parent, and of the last finalized one sooner or later if the queue is   *)
(* read, although confirmations jump the queue: store_raw_block never      *)
(* meets a gap.                                                            *)
THEOREM FinalizedInChainOrder == Spec => []FinalizedWithoutGaps
<1>1. TreeInv /\ QueueInv /\ HeardInv => FinalizedWithoutGaps
  <2> SUFFICES ASSUME TreeInv, QueueInv, HeardInv PROVE FinalizedWithoutGaps
    OBVIOUS
  <2>1. events \in Seq(Events) /\ emitted \in [Kinds -> SUBSET Hashes]
    BY DEF TreeInv, TypeOK
  <2> DEFINE Fin(b) == EventOf("finalized", b)
  <2>2. \A h \in Hashes : Fin(h) \in [kind : Kinds, block : Hashes]
                          /\ Fin(h).kind = "finalized" /\ Fin(h).block = h
    BY DEF EventOf, Kinds
  <2>3. ASSUME NEW b \in Blocks, Parent[b] # Genesis
        PROVE  <<Fin(Parent[b]), Fin(b)>> \in Required
    <3>1. Parent[b] \in Hashes /\ Fin(b) \in Events
      BY BlockAssumption, EventOfIsEvent DEF Kinds
    <3> QED
      BY <2>2, <2>3, <3>1 DEF Required, ParentFirst, Pairs, EventOf
  <2>4. \A b \in emitted["finalized"] :
           Parent[b] \in emitted["finalized"] \cup {Genesis}
    <3> SUFFICES ASSUME NEW b \in emitted["finalized"], b \in Blocks, Parent[b] # Genesis
                 PROVE  Parent[b] \in emitted["finalized"]
      BY DEF HeardInv
    <3>1. Heard(emitted, Fin(b)) => Heard(emitted, Fin(Parent[b]))
      BY <2>3 DEF QueueInv, InOrder
    <3> QED
      BY <3>1 DEF Heard, EventOf
  <2>5. ASSUME NEW i \in DOMAIN events, events[i].kind = "finalized",
               Parent[events[i].block] # Genesis
        PROVE  Precedes(events, emitted, Fin(Parent[events[i].block]), i)
    <3>1. events[i] \in Events
      BY <2>1
    <3>2. events[i].block \in Blocks /\ events[i] = Fin(events[i].block)
      BY <2>5, <3>1 DEF Events, EventOf
    <3> QED
      BY <2>3, <2>5, <3>2 DEF QueueInv, InOrder
  <2>6. ASSUME NEW i \in DOMAIN events, events[i].kind = "finalized"
        PROVE  LET p == Parent[events[i].block] IN
               \/ p \in emitted["finalized"] \cup {Genesis}
               \/ \E j \in {k \in DOMAIN events : events[k].kind = "finalized"} :
                      j < i /\ events[j].block = p
    BY <2>5, <2>6 DEF Precedes, Heard, EventOf
  <2>7. finalized # Genesis =>
           \/ finalized \in emitted["finalized"]
           \/ \E i \in {k \in DOMAIN events : events[k].kind = "finalized"} :
                  events[i].block = finalized
    BY DEF QueueInv, Known, Heard, EventOf, ToSet
  <2> QED
    BY <2>4, <2>6, <2>7 DEF FinalizedWithoutGaps
<1> QED
  BY <1>1, QueueInvariant, PTL

(* Every block is announced as confirmed before it is announced as         *)
(* finalized (injest_vote, try_finalize_roots).                            *)
THEOREM ConfirmationComesFirst == Spec => []ConfirmedBeforeFinalized
<1>1. QueueInv /\ HeardInv => ConfirmedBeforeFinalized
  <2> SUFFICES ASSUME QueueInv, NEW b \in emitted["finalized"], b \in Blocks
               PROVE  b \in emitted["confirmed"]
    BY DEF ConfirmedBeforeFinalized, HeardInv
  <2> DEFINE c == EventOf("confirmed", b)
             f == EventOf("finalized", b)
  <2>1. f \in Events /\ c \in [kind : Kinds, block : Hashes]
    BY EventOfIsEvent DEF EventOf, Kinds, Hashes
  <2>2. <<c, f>> \in Required
    BY <2>1 DEF Required, ConfirmedFirst, Pairs, EventOf
  <2>3. Heard(emitted, f) => Heard(emitted, c)
    BY <2>2 DEF QueueInv, InOrder
  <2> QED
    BY <2>3 DEF Heard, EventOf
<1> QED
  BY <1>1, QueueInvariant, PTL

-----------------------------------------------------------------------------
(***************************************************************************)
(* The announcements in a queue.                                           *)
(***************************************************************************)

(* f lists the announcements of ever longer beginnings of q.               *)
Filters(q, n, f) ==
    /\ f \in [0..n -> Seq(Events)]
    /\ f[0] = <<>>
    /\ \A m \in 1..n : f[m] = IF IsAnnouncement(q[m]) THEN Append(f[m - 1], q[m])
                              ELSE f[m - 1]

LEMMA FilterExists ==
    ASSUME NEW q \in Seq(Events)
    PROVE  \E f : Filters(q, Len(q), f)
<1> DEFINE S == {n \in Nat : n <= Len(q) => \E f : Filters(q, n, f)}
<1>1. 0 \in S
  <2>1. Filters(q, 0, [n \in 0..0 |-> <<>>])
    BY DEF Filters
  <2> QED
    BY <2>1
<1>2. ASSUME NEW n \in Nat, n \in S PROVE n + 1 \in S
  <2> SUFFICES ASSUME n + 1 <= Len(q) PROVE \E f : Filters(q, n + 1, f)
    OBVIOUS
  <2>1. PICK f : Filters(q, n, f)
    BY <1>2
  <2>2. q[n + 1] \in Events
    OBVIOUS
  <2> DEFINE e == q[n + 1]
             g == [m \in 0..(n + 1) |->
                      IF m <= n THEN f[m]
                      ELSE IF IsAnnouncement(e) THEN Append(f[n], e) ELSE f[n]]
  <2>3. f \in [0..n -> Seq(Events)] /\ f[n] \in Seq(Events)
    BY <2>1 DEF Filters
  <2>4. g \in [0..(n + 1) -> Seq(Events)]
    BY <2>2, <2>3
  <2>5. ASSUME NEW m \in 1..(n + 1)
        PROVE  g[m] = IF IsAnnouncement(q[m]) THEN Append(g[m - 1], q[m]) ELSE g[m - 1]
    <3>1. CASE m <= n
      <4>1. m \in 1..n /\ g[m] = f[m] /\ g[m - 1] = f[m - 1]
        BY <3>1
      <4> QED
        BY <4>1, <2>1 DEF Filters
    <3>2. CASE m = n + 1
      <4>1. g[m - 1] = f[n]
        BY <3>2
      <4> QED
        BY <4>1, <3>2
    <3> QED
      BY <3>1, <3>2
  <2>6. g[0] = <<>>
    BY <2>1 DEF Filters
  <2> HIDE DEF g
  <2> QED
    BY <2>4, <2>5, <2>6 DEF Filters
<1> HIDE DEF S
<1>3. Len(q) \in S
  BY <1>1, <1>2, Induction
<1> QED
  BY <1>3 DEF S

LEMMA AnnouncementsAre ==
    ASSUME NEW q \in Seq(Events), NEW f, Filters(q, Len(q), f)
    PROVE  Announcements(q) = f[Len(q)]
<1> DEFINE U(g) == g = [n \in 0..Len(q) |->
                          IF n = 0 THEN <<>>
                          ELSE IF IsAnnouncement(q[n]) THEN Append(g[n - 1], q[n])
                          ELSE g[n - 1]]
           c == CHOOSE g : U(g)
<1>1. Announcements(q) = c[Len(q)]
  BY DEF Announcements
<1>2. U(f)
  <2>1. f \in [0..Len(q) -> Seq(Events)]
    BY DEF Filters
  <2>2. \A n \in 0..Len(q) : n # 0 => n \in 1..Len(q)
    OBVIOUS
  <2>3. \A n \in 0..Len(q) : f[n] = IF n = 0 THEN <<>>
                          ELSE IF IsAnnouncement(q[n]) THEN Append(f[n - 1], q[n])
                          ELSE f[n - 1]
    BY <2>2, Zenon DEF Filters
  <2> QED
    BY <2>1, <2>3
<1>3. U(c)
  BY <1>2, Zenon
<1> HIDE DEF c
<1>4. \A n \in 0..Len(q) : c[n] = IF n = 0 THEN <<>>
                          ELSE IF IsAnnouncement(q[n]) THEN Append(c[n - 1], q[n])
                          ELSE c[n - 1]
  BY <1>3
<1> DEFINE S == {n \in Nat : n <= Len(q) => c[n] = f[n]}
<1>5. 0 \in S
  BY <1>4 DEF Filters
<1>6. ASSUME NEW n \in Nat, n \in S PROVE n + 1 \in S
  <2> SUFFICES ASSUME n + 1 <= Len(q) PROVE c[n + 1] = f[n + 1]
    OBVIOUS
  <2>1. c[n] = f[n] /\ n + 1 \in 0..Len(q) /\ n + 1 \in 1..Len(q)
        /\ (n + 1) - 1 = n /\ n + 1 # 0
    BY <1>6
  <2> QED
    BY <2>1, <1>4 DEF Filters
<1> HIDE DEF S
<1>7. Len(q) \in S
  BY <1>5, <1>6, Induction
<1> QED
  BY <1>1, <1>7 DEF S

LEMMA AnnouncementsOfAppend ==
    ASSUME NEW q \in Seq(Events), NEW e \in Events
    PROVE  /\ Announcements(q) \in Seq(Events)
           /\ Announcements(Append(q, e)) =
                 IF IsAnnouncement(e) THEN Append(Announcements(q), e)
                 ELSE Announcements(q)
<1> DEFINE p == Append(q, e)
<1>1. /\ p \in Seq(Events) /\ Len(p) = Len(q) + 1 /\ Len(q) \in Nat
      /\ p[Len(q) + 1] = e
      /\ \A i \in 1..Len(q) : p[i] = q[i]
  OBVIOUS
<1> HIDE DEF p
<1>2. PICK f : Filters(p, Len(p), f)
  BY <1>1, FilterExists
<1> DEFINE g == [n \in 0..Len(q) |-> f[n]]
<1>3. Filters(q, Len(q), g)
  <2>1. f \in [0..Len(p) -> Seq(Events)] /\ f[0] = <<>>
    BY <1>2 DEF Filters
  <2>2. g \in [0..Len(q) -> Seq(Events)] /\ g[0] = <<>>
    BY <2>1, <1>1
  <2>3. ASSUME NEW m \in 1..Len(q)
        PROVE  g[m] = IF IsAnnouncement(q[m]) THEN Append(g[m - 1], q[m]) ELSE g[m - 1]
    <3>1. m \in 1..Len(p) /\ g[m] = f[m] /\ g[m - 1] = f[m - 1] /\ p[m] = q[m]
      BY <1>1
    <3>2. f[m] = IF IsAnnouncement(p[m]) THEN Append(f[m - 1], p[m]) ELSE f[m - 1]
      BY <1>2, <3>1 DEF Filters
    <3> QED
      BY <3>1, <3>2
  <2> HIDE DEF g
  <2> QED
    BY <2>2, <2>3 DEF Filters
<1>4. Announcements(q) = f[Len(q)] /\ f[Len(q)] \in Seq(Events)
  <2>1. g[Len(q)] = f[Len(q)] /\ g[Len(q)] \in Seq(Events)
    BY <1>1, <1>3 DEF Filters
  <2> HIDE DEF g
  <2> QED
    BY <1>3, <2>1, AnnouncementsAre
<1>5. Announcements(p) = f[Len(q) + 1]
  BY <1>1, <1>2, AnnouncementsAre
<1>6. f[Len(q) + 1] = IF IsAnnouncement(e) THEN Append(f[Len(q)], e) ELSE f[Len(q)]
  <2>1. Len(q) + 1 \in 1..Len(p) /\ (Len(q) + 1) - 1 = Len(q)
    BY <1>1
  <2>2. f[Len(q) + 1] = IF IsAnnouncement(p[Len(q) + 1])
                        THEN Append(f[(Len(q) + 1) - 1], p[Len(q) + 1])
                        ELSE f[(Len(q) + 1) - 1]
    BY <1>2, <2>1 DEF Filters
  <2> QED
    BY <1>1, <2>1, <2>2
<1> QED
  BY <1>4, <1>5, <1>6 DEF p

LEMMA AnnouncementsOfNothing == Announcements(<<>>) = <<>>
<1>1. Filters(<<>>, 0, [n \in 0..0 |-> <<>>])
  BY DEF Filters
<1>2. <<>> \in Seq(Events) /\ Len(<<>>) = 0
  OBVIOUS
<1> QED
  BY <1>1, <1>2, AnnouncementsAre

LEMMA AnnouncementsIsSeq ==
    ASSUME NEW q \in Seq(Events)
    PROVE  Announcements(q) \in Seq(Events)
<1>1. PICK f : Filters(q, Len(q), f)
  BY FilterExists
<1>2. f \in [0..Len(q) -> Seq(Events)] /\ Len(q) \in 0..Len(q)
  BY <1>1 DEF Filters
<1> QED
  BY <1>1, <1>2, AnnouncementsAre

LEMMA ConcatFacts ==
    ASSUME NEW a \in Seq(Events), NEW b \in Seq(Events), NEW e \in Events
    PROVE  /\ Append(a \o b, e) = a \o Append(b, e)
           /\ <<>> \o a = a /\ a \o <<>> = a
           /\ <<e>> \o a # <<>> /\ Tail(<<e>> \o a) = a
  BY SMTT(60)

(* The last event of a queue and what comes before it.                     *)
LEMMA SplitLast ==
    ASSUME NEW n \in Nat, NEW t \in Seq(Events), Len(t) = n + 1
    PROVE  \E u \in Seq(Events), e \in Events :
              /\ Len(u) = n
              /\ t = Append(u, e)
              /\ ToSet(u) \subseteq ToSet(t)
              /\ e \in ToSet(t)
<1> DEFINE u == SubSeq(t, 1, n)
           e == t[n + 1]
<1>1. u \in Seq(Events) /\ e \in Events /\ Len(u) = n
  OBVIOUS
<1>2. t = Append(u, e)
  OBVIOUS
<1> HIDE DEF u, e
<1>3. ToSet(Append(u, e)) = ToSet(u) \cup {e}
  BY <1>1, ToSetAppend
<1> QED
  BY <1>1, <1>2, <1>3

LEMMA AnnouncementsOfConcat ==
    ASSUME NEW s \in Seq(Events), NEW t \in Seq(Events)
    PROVE  Announcements(s \o t) = Announcements(s) \o Announcements(t)
<1> DEFINE A(q) == Announcements(q)
           S == {n \in Nat : \A x \in Seq(Events) :
                    Len(x) = n => A(s \o x) = A(s) \o A(x)}
<1>0. \A x \in Seq(Events) : A(x) \in Seq(Events)
  BY AnnouncementsIsSeq
<1> HIDE DEF A
<1>1. 0 \in S
  <2> SUFFICES ASSUME NEW x \in Seq(Events), Len(x) = 0 PROVE A(s \o x) = A(s) \o A(x)
    OBVIOUS
  <2>1. x = <<>> /\ s \o x = s
    OBVIOUS
  <2>2. A(x) = <<>>
    BY <2>1, AnnouncementsOfNothing DEF A
  <2> QED
    BY <1>0, <2>1, <2>2
<1>2. ASSUME NEW n \in Nat, n \in S PROVE n + 1 \in S
  <2> SUFFICES ASSUME NEW x \in Seq(Events), Len(x) = n + 1
               PROVE  A(s \o x) = A(s) \o A(x)
    OBVIOUS
  <2>1. PICK u \in Seq(Events), e \in Events :
             /\ Len(u) = n /\ x = Append(u, e)
             /\ ToSet(u) \subseteq ToSet(x) /\ e \in ToSet(x)
    BY SplitLast
  <2>2. A(s \o u) = A(s) \o A(u)
    BY <1>2, <2>1
  <2>3. s \o x = Append(s \o u, e) /\ s \o u \in Seq(Events)
    BY <2>1
  <2>4. A(s \o x) = IF IsAnnouncement(e) THEN Append(A(s \o u), e) ELSE A(s \o u)
    BY <2>3, AnnouncementsOfAppend DEF A
  <2>5. A(x) = IF IsAnnouncement(e) THEN Append(A(u), e) ELSE A(u)
    BY <2>1, AnnouncementsOfAppend DEF A
  <2>6. A(s) \in Seq(Events) /\ A(u) \in Seq(Events)
    BY <1>0
  <2>7. Append(A(s) \o A(u), e) = A(s) \o Append(A(u), e)
    BY <2>6, ConcatFacts, ZenonT(60)
  <2> QED
    BY <2>2, <2>4, <2>5, <2>7
<1> HIDE DEF S
<1>3. Len(t) \in S
  BY <1>1, <1>2, Induction
<1> QED
  BY <1>3 DEF S, A

(* A queue of announcements only, and one without any.                     *)
LEMMA AnnouncementsOfOneKind ==
    ASSUME NEW t \in Seq(Events)
    PROVE  /\ (\A e \in ToSet(t) : IsAnnouncement(e)) => Announcements(t) = t
           /\ (\A e \in ToSet(t) : ~IsAnnouncement(e)) => Announcements(t) = <<>>
<1> DEFINE S == {n \in Nat : \A x \in Seq(Events) : Len(x) = n =>
              /\ (\A e \in ToSet(x) : IsAnnouncement(e)) => Announcements(x) = x
              /\ (\A e \in ToSet(x) : ~IsAnnouncement(e)) => Announcements(x) = <<>>}
<1>1. 0 \in S
  <2>1. \A x \in Seq(Events) : Len(x) = 0 => x = <<>>
    OBVIOUS
  <2> QED
    BY <2>1, AnnouncementsOfNothing
<1>2. ASSUME NEW n \in Nat, n \in S PROVE n + 1 \in S
  <2> SUFFICES ASSUME NEW x \in Seq(Events), Len(x) = n + 1
               PROVE  /\ (\A e \in ToSet(x) : IsAnnouncement(e)) => Announcements(x) = x
                      /\ (\A e \in ToSet(x) : ~IsAnnouncement(e))
                            => Announcements(x) = <<>>
    OBVIOUS
  <2>1. PICK u \in Seq(Events), e \in Events :
             /\ Len(u) = n /\ x = Append(u, e)
             /\ ToSet(u) \subseteq ToSet(x) /\ e \in ToSet(x)
    BY SplitLast
  <2>2. Announcements(x) = IF IsAnnouncement(e) THEN Append(Announcements(u), e)
                           ELSE Announcements(u)
    BY <2>1, AnnouncementsOfAppend
  <2>3. /\ (\A y \in ToSet(u) : IsAnnouncement(y)) => Announcements(u) = u
        /\ (\A y \in ToSet(u) : ~IsAnnouncement(y)) => Announcements(u) = <<>>
    BY <1>2, <2>1
  <2> QED
    BY <2>1, <2>2, <2>3
<1> HIDE DEF S
<1>3. Len(t) \in S
  BY <1>1, <1>2, Induction
<1> QED
  BY <1>3 DEF S

(* What is left to announce when the head of the queue has been taken.     *)
LEMMA AnnouncementsOfTail ==
    ASSUME NEW q \in Seq(Events), q # <<>>
    PROVE  /\ ~IsAnnouncement(Head(q)) => Announcements(Tail(q)) = Announcements(q)
           /\ IsAnnouncement(Head(q)) =>
                 Announcements(q) # <<>> /\ Announcements(Tail(q)) = Tail(Announcements(q))
<1> DEFINE h == Head(q)
           t == Tail(q)
<1>1. h \in Events /\ t \in Seq(Events) /\ <<h>> \in Seq(Events) /\ q = <<h>> \o t
      /\ ToSet(<<h>>) = {h}
  BY DEF ToSet
<1> HIDE DEF h, t
<1>2. Announcements(q) = Announcements(<<h>>) \o Announcements(t)
  BY <1>1, AnnouncementsOfConcat
<1>3. Announcements(t) \in Seq(Events)
  BY <1>1, AnnouncementsIsSeq
<1>4. Announcements(<<h>>) = IF IsAnnouncement(h) THEN <<h>> ELSE <<>>
  BY <1>1, AnnouncementsOfOneKind
<1> QED
  <2> DEFINE a == Announcements(t)
  <2> HIDE DEF a
  <2>1. Announcements(q) = IF IsAnnouncement(h) THEN <<h>> \o a ELSE <<>> \o a
    BY <1>2, <1>4 DEF a
  <2>2. <<>> \o a = a /\ <<h>> \o a # <<>> /\ Tail(<<h>> \o a) = a
    BY <1>1, <1>3, ConcatFacts DEF a
  <2> QED
    BY <2>1, <2>2 DEF h, t, a

-----------------------------------------------------------------------------
(***************************************************************************)
(* The steps of the engine.                                                *)
(***************************************************************************)
Secured == {b \in forktrees : confirmed(b)}

LEMMA RefineInit == Init => F!FinalityInit
  BY AnnouncementsOfNothing DEF Init, F!FinalityInit

(* A step that queues no announcement, confirms and finalizes nothing is   *)
(* invisible.                                                              *)
LEMMA RefineInvisible ==
    ASSUME finalized' = finalized, Secured' = Secured,
           Announcements(events') = Announcements(events)
    PROVE  UNCHANGED F!finalityvars
  BY DEF F!finalityvars, Secured

(* The blocks of a path are the blocks below its end and above the         *)
(* finalized block.                                                        *)
LEMMA PathIsAboveFinalized ==
    ASSUME TreeInv, NEW t \in forktrees
    PROVE  path(t) = {b \in Lineage(t) : b \in Blocks /\ finalized \in Ancestors[b]}
<1>1. ASSUME NEW b \in path(t) PROVE b \in Blocks /\ finalized \in Ancestors[b]
  BY VolatileIsAbove DEF path
<1>2. ASSUME NEW b \in Lineage(t), b \in Blocks, finalized \in Ancestors[b]
      PROVE  b \in forktrees
  <2>1. b = t \/ b \in forktrees \cup History(finalized)
    BY DEF Lineage, TreeInv, KnownAncestors
  <2>2. b \notin History(finalized)
    <3>1. CASE finalized \in Blocks
      BY <1>2, <3>1, AncestorsTransitive, AncestorsOfChild DEF History, Lineage
    <3>2. CASE finalized \notin Blocks
      BY <1>2, <3>2 DEF History
    <3> QED
      BY <3>1, <3>2
  <2> QED
    BY <2>1, <2>2
<1> QED
  BY <1>1, <1>2 DEF path

(* The blocks that a vote confirms, oldest first, follow each other.       *)
LEMMA NewlyConfirmedIsChain ==
    ASSUME TreeInv, NEW t \in forktrees, NEW N \in SUBSET path(t),
           \A b \in N : \A a \in path(b) : a \in N \/ ~\E c \in N : c \in path(a),
           NEW s \in SetToSeqs(N),
           \A i, j \in DOMAIN s : i < j => Height[s[i]] < Height[s[j]],
           NEW i \in 2..Len(s)
    PROVE  Parent[s[i]] = s[i - 1]
<1>1. path(t) \subseteq forktrees /\ forktrees \subseteq Blocks
  BY DEF path, TreeInv, TypeOK
<1>2. s \in Seq(N) /\ ToSet(s) = N /\ N \subseteq Blocks
  BY <1>1, ListingOfBlocks, ListingIsComplete
<1> DEFINE b == s[i]
           a == s[i - 1]
           p == Parent[b]
<1>3. i \in DOMAIN s /\ i - 1 \in DOMAIN s /\ i - 1 < i /\ a \in N /\ b \in N
  BY <1>2
<1>4. Height[a] < Height[b]
  BY <1>3
<1>5. a \in Ancestors[b] /\ a \in forktrees /\ b \in forktrees /\ b \in Blocks
  BY <1>1, <1>3, <1>4, PathIsChain
<1> SUFFICES ASSUME a # p PROVE FALSE
  OBVIOUS
<1>6. p \in forktrees /\ a \in Ancestors[p]
  <2>1. a \in History(p)
    BY <1>5, AncestorsOfChild
  <2>2. p \in forktrees \cup {finalized}
    BY <1>5 DEF TreeInv, ForkTreeConnected
  <2>3. a \notin History(finalized)
    BY <1>5, VolatileIsAbove
  <2> QED
    BY <2>1, <2>2, <2>3, <1>1 DEF History, Lineage
<1>7. p \in path(b) /\ a \in path(p)
  BY <1>5, <1>6, AncestorsOfChild DEF path, Lineage
<1>8. p \in N
  BY <1>3, <1>7
<1>9. PICK k \in DOMAIN s : s[k] = p
  BY <1>2, <1>8 DEF ToSet
<1>10. Height[a] < Height[p] /\ Height[p] < Height[b]
  <2>1. p \in Ancestors[b]
    BY <1>5, AncestorsOfChild
  <2> QED
    BY <2>1, <1>5, <1>6, HeightsGrow
<1>11. Height[a] \in Nat /\ Height[b] \in Nat /\ Height[p] \in Nat
  BY <1>1, <1>5, <1>6, EpochIsNat
<1>12. k \in Int /\ i \in Int /\ (k < i - 1 \/ k = i - 1 \/ k = i \/ k > i)
  BY <1>2
<1>13. k < i - 1 => Height[p] < Height[a]
  BY <1>3, <1>9
<1>14. i < k => Height[b] < Height[p]
  BY <1>3, <1>9
<1>15. k # i - 1 /\ k # i
  BY <1>9, <1>10, <1>11
<1> HIDE DEF a, b, p
<1> QED
  BY <1>10, <1>11, <1>12, <1>13, <1>14, <1>15

LEMMA PrefixClosedNext == (TreeInv /\ VoteInv => ConfirmedIsPrefixClosed)'
  BY PrefixClosed, PTL

LEMMA SameListings == \A N : F!SetToSeqs(N) = SetToSeqs(N)
  BY DEF F!SetToSeqs, SetToSeqs, F!Cardinality, Cardinality

LEMMA RefineInjest ==
    ASSUME TreeInv, VoteInv, TreeInv', VoteInv', InjestVote
    PROVE  F!FinalityNext \/ UNCHANGED F!finalityvars
<1> DEFINE t == Head(counting).target
           v == Head(counting).validator
           N == newly_confirmed(t)
<1>1. PICK s \in SetToSeqs(N) :
           /\ \A i, j \in DOMAIN s : i < j => Height[s[i]] < Height[s[j]]
           /\ events' = EventsOf("confirmed", s) \o events
  BY DEF InjestVote
<1>2. /\ t \in forktrees /\ v \in Validators
      /\ UNCHANGED <<finalized, forktrees>>
      /\ add_votes(t, v)
  BY DEF InjestVote, VoteIsEligible
<1>3. /\ \A b \in forktrees : confirmed(b)' <=> votes'[b] >= minimum_majority_stake
      /\ \A b \in forktrees : path(b)' = path(b)
  BY <1>2 DEF confirmed, path
<1>4. N = {b \in path(t) : ~confirmed(b) /\ confirmed(b)'}
  BY <1>3 DEF newly_confirmed, path
<1>5. \A b \in forktrees : confirmed(b)' <=> confirmed(b) \/ b \in N
  <2>1. \A b \in forktrees : /\ b \notin path(t) => votes'[b] = votes[b]
                             /\ votes'[b] >= votes[b]
                             /\ votes[b] \in Nat /\ votes'[b] \in Nat
    <3>1. Stake[v] \in Nat
      BY <1>2, StakeAssumption
    <3>2. /\ forktrees \subseteq Blocks /\ votes \in [Blocks -> Nat]
          /\ votes' = [b \in Blocks |->
                 IF b \in path(t) /\ v \notin voters[b] THEN votes[b] + Stake[v]
                 ELSE votes[b]]
      BY <1>2 DEF add_votes, TreeInv, TypeOK
    <3> HIDE DEF t, v
    <3> QED
      BY <3>1, <3>2
  <2>2. ASSUME NEW b \in forktrees, confirmed(b) PROVE confirmed(b)'
    BY <2>1, <2>2, <1>3, MajorityIsInt DEF confirmed
  <2> QED
    BY <2>1, <2>2, <1>3, <1>4 DEF confirmed
<1> HIDE DEF N, t, v
<1>6. N \in SUBSET path(t) /\ path(t) \subseteq forktrees /\ forktrees \subseteq Blocks
  BY <1>4 DEF path, TreeInv, TypeOK
<1>7. s \in Seq(N) /\ ToSet(s) = N
  BY <1>6, ListingOfBlocks, ListingIsComplete
<1>8. Announcements(events') = EventsOf("confirmed", s) \o Announcements(events)
  <2> DEFINE cs == EventsOf("confirmed", s)
  <2>1. cs \in Seq(Events)
    <3>1. N \in SUBSET Hashes /\ N \in SUBSET Blocks
      BY <1>6 DEF Hashes
    <3> QED
      BY <3>1, <1>7, EventsOfIsSeq DEF Kinds
  <2>2. \A e \in ToSet(cs) : IsAnnouncement(e)
    BY <1>7, EventsOfKind DEF EventOf, IsAnnouncement
  <2>3. events \in Seq(Events)
    BY DEF TreeInv, TypeOK
  <2> HIDE DEF cs
  <2>4. Announcements(cs \o events) = Announcements(cs) \o Announcements(events)
    BY <2>1, <2>3, AnnouncementsOfConcat
  <2>5. Announcements(cs) = cs
    BY <2>1, <2>2, AnnouncementsOfOneKind
  <2> QED
    BY <1>1, <2>4, <2>5 DEF cs
<1>9. ConfirmedIsPrefixClosed /\ ConfirmedIsPrefixClosed'
  BY PrefixClosed, PrefixClosedNext
<1>10. CASE N = {}
  <2>1. s = <<>>
    BY <1>7, <1>10
  <2>2. Announcements(events') = Announcements(events)
    <3>1. EventsOf("confirmed", s) = <<>>
      BY <2>1 DEF EventsOf
    <3>2. Announcements(events) \in Seq(Events)
      BY AnnouncementsIsSeq DEF TreeInv, TypeOK
    <3> QED
      BY <1>8, <3>1, <3>2
  <2>3. Secured' = Secured
    BY <1>2, <1>5, <1>10 DEF Secured
  <2> QED
    BY <2>2, <2>3, <1>2, RefineInvisible
<1>11. CASE N # {}
  <2> DEFINE m == s[Len(s)]
  <2>1. Len(s) \in DOMAIN s /\ m \in N
    BY <1>7, <1>11 DEF ToSet
  <2>2. m \in forktrees /\ m \in Blocks /\ confirmed(m)' /\ ~confirmed(m)
    BY <2>1, <1>4, <1>6
  \* m is the highest block that the vote confirms.
  <2>3. \A b \in N : b = m \/ b \in Ancestors[m]
    <3> SUFFICES ASSUME NEW b \in N, b # m PROVE b \in Ancestors[m]
      OBVIOUS
    <3>1. PICK i \in DOMAIN s : s[i] = b
      BY <1>7 DEF ToSet
    <3>2. i < Len(s)
      BY <3>1, <1>7
    <3>3. Height[b] < Height[m]
      BY <3>1, <3>2, <2>1, <1>1
    <3> QED
      BY <3>3, <2>1, <1>2, <1>6, PathIsChain
  <2> HIDE DEF m
  <2>4. N = path(m) \ Secured
    <3>1. ASSUME NEW b \in N PROVE b \in path(m) \ Secured
      BY <2>3, <1>4, <1>6 DEF path, Lineage, Secured
    <3>2. ASSUME NEW b \in path(m) \ Secured PROVE b \in N
      <4>1. b \in forktrees /\ ~confirmed(b)
        BY DEF path, Secured
      <4>2. confirmed(b)'
        BY <1>2, <1>3, <1>9, <2>2 DEF ConfirmedIsPrefixClosed
      <4> QED
        BY <4>1, <4>2, <1>5
    <3> QED
      BY <3>1, <3>2
  <2>5. N = {b \in {m} \cup Ancestors[m] :
                b \in Blocks \ Secured /\ finalized \in Ancestors[b]}
    BY <2>2, <2>4, PathIsAboveFinalized DEF Lineage
  <2>6. ASSUME NEW i \in 2..Len(s) PROVE Parent[s[i]] = s[i - 1]
    <3>1. ASSUME NEW b \in N, NEW a \in path(b), NEW c \in N, c \in path(a)
          PROVE  a \in N
      <4>1. a \in forktrees /\ b \in forktrees
        BY <1>6 DEF path
      <4>2. ~confirmed(a)
        BY <4>1, <3>1, <1>4, <1>9 DEF ConfirmedIsPrefixClosed
      <4>3. confirmed(a)'
        BY <4>1, <1>2, <1>3, <1>4, <1>9 DEF ConfirmedIsPrefixClosed
      <4> QED
        BY <4>1, <4>2, <4>3, <1>5
    <3>2. \A b \in N : \A a \in path(b) : a \in N \/ ~\E c \in N : c \in path(a)
      BY <3>1
    <3> QED
      BY <3>2, <1>1, <1>2, <1>6, NewlyConfirmedIsChain
  <2>7. Secured' = Secured \cup N
    BY <1>2, <1>5, <1>6 DEF Secured
  <2>8. EventsOf("confirmed", s) = [i \in DOMAIN s |-> F!Announcement("confirmed", s[i])]
    BY DEF EventsOf, EventOf, F!Announcement
  <2>9. F!Confirm(m)
    <3>1. m \in N /\ UNCHANGED finalized
      BY <2>1, <1>2
    <3>2. s \in F!SetToSeqs(N)
      BY SameListings
    <3>3. Announcements(events') = [i \in DOMAIN s |-> F!Announcement("confirmed", s[i])]
                                       \o Announcements(events)
      BY <1>8, <2>8
    <3> QED
      BY <3>1, <3>2, <3>3, <2>5, <2>6, <2>7, Zenon DEF F!Confirm, Secured
  <2> QED
    BY <2>2, <2>9 DEF F!FinalityNext
<1> QED
  BY <1>10, <1>11

LEMMA RefineFinalize ==
    ASSUME TreeInv, TryFinalizeRoots
    PROVE  F!FinalityNext
<1>1. PICK r \in forktrees : Parent[r] = finalized /\ confirmed(r) /\ finalize_root(r)
  BY FinalizeRoot
<1> DEFINE discarded == forktrees \ (Survivors(r) \cup {r})
<1>2. PICK s \in SetToSeqs(discarded) : signal_finalized(r, s)
  BY <1>1 DEF finalize_root
<1>3. /\ finalized' = r /\ forktrees' = Survivors(r)
      /\ votes' = [b \in Blocks |-> IF b \in Survivors(r) THEN votes[b] ELSE 0]
  BY <1>1 DEF finalize_root
<1>4. r \in Blocks /\ discarded \in SUBSET Blocks /\ events \in Seq(Events)
      /\ forktrees \subseteq Blocks
  BY DEF TreeInv, TypeOK
<1>5. s \in Seq(discarded)
  <2> HIDE DEF discarded
  <2> QED
    BY ONLY <1>4, s \in SetToSeqs(discarded), ListingOfBlocks
<1> DEFINE ds == EventsOf("discarded", s)
           f == EventOf("finalized", r)
<1>6. ds \in Seq(Events) /\ f \in Events /\ IsAnnouncement(f)
  <2>1. discarded \in SUBSET Hashes
    BY <1>4 DEF Hashes
  <2> QED
    BY <2>1, <1>4, <1>5, EventsOfIsSeq, EventOfIsEvent DEF Kinds, IsAnnouncement, EventOf
<1>7. \A e \in ToSet(ds) : ~IsAnnouncement(e)
  BY <1>5, EventsOfKind DEF EventOf, IsAnnouncement
<1>8. events' = Append(events \o ds, f)
  BY <1>2 DEF signal_finalized
<1> HIDE DEF ds
<1>9. Announcements(events') = Append(Announcements(events), F!Announcement("finalized", r))
  <2>1. Announcements(events \o ds) = Announcements(events) \o Announcements(ds)
    BY <1>4, <1>6, AnnouncementsOfConcat
  <2>2. Announcements(ds) = <<>>
    BY <1>6, <1>7, AnnouncementsOfOneKind
  <2>3. Announcements(events) \o <<>> = Announcements(events)
    BY <1>4, <1>6, AnnouncementsIsSeq, ConcatFacts
  <2>4. events \o ds \in Seq(Events)
    BY <1>4, <1>6
  <2>5. Announcements(events') = Append(Announcements(events \o ds), f)
    BY <2>4, <1>6, <1>8, AnnouncementsOfAppend
  <2> QED
    BY <2>1, <2>2, <2>3, <2>5 DEF F!Announcement, EventOf
<1>10. Secured' = {b \in Secured : r \in Ancestors[b]}
  <2>1. \A b \in Survivors(r) : b \in forktrees /\ votes'[b] = votes[b]
    BY <1>3, <1>4 DEF Survivors
  <2> QED
    BY <1>3, <2>1 DEF Secured, confirmed, Survivors
<1>11. F!Finalize(r)
  BY <1>1, <1>3, <1>9, <1>10 DEF F!Finalize, Secured
<1> QED
  BY <1>4, <1>11 DEF F!FinalityNext

LEMMA RefinePoll ==
    ASSUME TreeInv, poll_next
    PROVE  F!FinalityNext \/ UNCHANGED F!finalityvars
<1>1. Emit(Head(events)) /\ events # <<>> /\ UNCHANGED <<finalized, forktrees, votes>>
  BY DEF poll_next, PollIncluded, PollFinalized, PollOther, treevars
<1>2. events \in Seq(Events) /\ events' = Tail(events)
  BY <1>1 DEF TreeInv, TypeOK, Emit
<1>3. Secured' = Secured
  BY <1>1 DEF Secured, confirmed
<1>4. CASE IsAnnouncement(Head(events))
  <2>1. /\ Announcements(events) # <<>>
        /\ Announcements(events') = Tail(Announcements(events))
    BY <1>1, <1>2, <1>4, AnnouncementsOfTail
  <2> QED
    BY <2>1, <1>1, <1>3 DEF F!FinalityNext, F!Announce, Secured
<1>5. CASE ~IsAnnouncement(Head(events))
  <2>1. Announcements(events') = Announcements(events)
    BY <1>1, <1>2, <1>5, AnnouncementsOfTail
  <2> QED
    BY <2>1, <1>1, <1>3, RefineInvisible
<1> QED
  BY <1>4, <1>5

(* Events of other kinds that go to the back of the queue are invisible.   *)
LEMMA RefineOtherEvents ==
    ASSUME TreeInv, finalized' = finalized, Secured' = Secured,
           NEW s \in Seq(Events), \A e \in ToSet(s) : ~IsAnnouncement(e),
           events' = events \o s
    PROVE  UNCHANGED F!finalityvars
<1>1. events \in Seq(Events)
  BY DEF TreeInv, TypeOK
<1>2. Announcements(events') = Announcements(events) \o Announcements(s)
  BY <1>1, AnnouncementsOfConcat
<1>3. Announcements(s) = <<>>
  BY AnnouncementsOfOneKind
<1>4. Announcements(events) \in Seq(Events)
  BY <1>1, AnnouncementsIsSeq
<1>5. Announcements(events) \o <<>> = Announcements(events)
  BY <1>4
<1> QED
  BY <1>2, <1>3, <1>5, RefineInvisible

LEMMA RefineTryInclude ==
    ASSUME TreeInv, TryInclude
    PROVE  UNCHANGED F!finalityvars
<1> DEFINE b == Head(including)
           s == <<EventOf("included", b)>>
<1>1. b \in Blocks
  BY IncludingIsNotEmpty DEF TryInclude, TreeInv
<1>2. /\ forktrees' = forktrees \cup {b}
      /\ UNCHANGED finalized
      /\ votes' = [votes EXCEPT ![b] = 0]
      /\ events' = Append(events, EventOf("included", b))
      /\ b \notin forktrees
  BY DEF TryInclude, emit_event, IsNew
<1>3. EventOf("included", b) \in Events /\ events \in Seq(Events)
  BY <1>1, EventOfIsEvent DEF Kinds, TreeInv, TypeOK
<1> HIDE DEF b
<1>4. s \in Seq(Events) /\ events' = events \o s
  BY <1>2, <1>3
<1>5. \A e \in ToSet(s) : ~IsAnnouncement(e)
  BY DEF ToSet, EventOf, IsAnnouncement
<1>6. votes'[b] = 0 /\ \A c \in forktrees : votes'[c] = votes[c]
  BY <1>1, <1>2 DEF TreeInv, TypeOK
<1>7. Secured' = Secured
  BY <1>2, <1>6, MajorityIsPositive, MajorityIsInt DEF Secured, confirmed
<1> HIDE DEF s
<1> QED
  BY <1>2, <1>4, <1>5, <1>7, RefineOtherEvents

LEMMA RefineNext ==
    ASSUME TreeInv, VoteInv, TreeInv', VoteInv', [Next]_vars
    PROVE  F!FinalityNext \/ UNCHANGED F!finalityvars
<1>1. events \in Seq(Events)
  BY DEF TreeInv, TypeOK
<1>2. CASE CommitAndVote
  <2> DEFINE b == Head(including)
             s == <<EventOf("vote", b)>>
  <2>1. finalized' = finalized /\ Secured' = Secured
    BY <1>2 DEF CommitAndVote, treevars, Secured, confirmed
  <2>2. CASE events' = events
    BY <2>1, <2>2, RefineInvisible
  <2>3. CASE events' = Append(events, EventOf("vote", b))
    <3>1. EventOf("vote", b) \in Events
      BY <1>2, IncludingIsNotEmpty, EventOfIsEvent DEF CommitAndVote, TreeInv, Kinds
    <3> HIDE DEF b
    <3>2. s \in Seq(Events) /\ events' = events \o s
      BY <3>1, <2>3, <1>1
    <3>3. \A x \in ToSet(s) : ~IsAnnouncement(x)
      BY DEF ToSet, EventOf, IsAnnouncement
    <3> HIDE DEF s
    <3> QED
      BY <2>1, <3>2, <3>3, RefineOtherEvents
  <2> QED
    BY <1>2, <2>2, <2>3 DEF CommitAndVote, commit_and_vote
<1>3. CASE MissingBlocks
  <2>1. PICK overdue \in SUBSET Hashes : \E s \in SetToSeqs(overdue) :
             events' = events \o EventsOf("missing", s)
    BY <1>3 DEF MissingBlocks
  <2>2. PICK s \in SetToSeqs(overdue) : events' = events \o EventsOf("missing", s)
    BY <2>1
  <2>3. s \in Seq(overdue)
    BY ListingIsSeq, HashesAreFinite
  <2>4. EventsOf("missing", s) \in Seq(Events)
    BY <2>3, EventsOfIsSeq DEF Kinds
  <2>5. \A x \in ToSet(EventsOf("missing", s)) : ~IsAnnouncement(x)
    BY <2>3, EventsOfKind DEF EventOf, IsAnnouncement
  <2>6. finalized' = finalized /\ Secured' = Secured
    BY <1>3 DEF MissingBlocks, treevars, Secured, confirmed
  <2> QED
    BY <2>2, <2>4, <2>5, <2>6, RefineOtherEvents
<1>4. CASE UNCHANGED <<finalized, forktrees, votes, events>>
  <2>1. Secured' = Secured
    BY <1>4 DEF Secured, confirmed
  <2> QED
    BY <1>4, <2>1, RefineInvisible
<1>5. \/ TryInclude \/ TryFinalizeRoots \/ poll_next \/ CommitAndVote
      \/ InjestVote \/ MissingBlocks
      \/ UNCHANGED <<finalized, forktrees, votes, events>>
  BY DEF Next, ReceiveBlock, IncludeStep, PollStep, RejectBlock, IncludeDuplicate,
     RejectExecution, AddOrphan, ConsumeBlocks, NothingToConsume, RejectVote,
     StoreVote, ConsumeVotes, BeginFinalize, vars, treevars
<1> QED
  BY <1>2, <1>3, <1>4, <1>5, RefineTryInclude, RefineInjest, RefineFinalize, RefinePoll

(* The consensus engine implements Finality: whatever arrives in whatever  *)
(* order, what it announces as confirmed and finalized, and in which       *)
(* order, is what Finality allows (injest_vote, try_finalize_roots,        *)
(* poll_next).  Finality asks for no progress, so neither does this.       *)
THEOREM EngineImplementsFinality == Spec => ImplementsFinality
<1>1. Init => F!FinalityInit
  BY RefineInit
<1>2. /\ TreeInv /\ VoteInv /\ (TreeInv /\ VoteInv)'
      /\ [Next]_vars
      => [F!FinalityNext]_(F!finalityvars)
  BY RefineNext
<1> QED
  BY <1>1, <1>2, VoteInvariant, PTL DEF Spec, ImplementsFinality, F!FinalitySpec
=============================================================================
