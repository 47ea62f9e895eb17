--------------------------- MODULE Storage_proofs ---------------------------
(***************************************************************************)
(* Proofs about the way of a finalized block to the disk, for every chain  *)
(* of blocks, every length of the history and any number of crashes.       *)
(***************************************************************************)
EXTENDS Storage, SequenceFacts

Notices == [kind : {"confirmed", "finalized"}, block : Blocks]
Pruning == {"outputs", "confirmed", "finalized"}
Steps == {"raw", "insert", "details", "hash"} \cup Pruning
Jobs == [step : Steps, event : Notices, pruned : Blocks \cup {None}]

(* What the consumers were or will be told and the store has not written   *)
(* yet: the block at hand, then the channel, then the queue of the engine. *)
Current == IF job.step \in {"raw", "insert"} THEN <<job.event>> ELSE <<>>
Work == Current \o (channel \o announcements)
Waiting == ToSet(Work)

Stored(d) == {h \in Heights : d.finalized[h] # None}

(* A database: blocks are filed under their heights, and if any is stored  *)
(* one is the highest.                                                     *)
WellFormed(d) ==
    /\ DOMAIN d = {"confirmed", "finalized", "outputs", "hashes"}
    /\ d.confirmed \in [Heights -> Blocks \cup {None}]
    /\ d.finalized \in [Heights -> Blocks \cup {None}]
    /\ d.outputs \in [Heights -> Blocks \cup {None}]
    /\ d.hashes \subseteq Blocks
    /\ \A h \in Heights : /\ d.confirmed[h] # None => Height[d.confirmed[h]] = h
                          /\ d.finalized[h] # None => Height[d.finalized[h]] = h
    /\ Stored(d) # {} => \E h \in Stored(d) : \A g \in Stored(d) : g <= h

TypeInv ==
    /\ finalized \in Blocks \cup {Genesis}
    /\ secured \subseteq Blocks
    /\ announcements \in Seq(Notices)
    /\ channel \in Seq(Notices)
    /\ job = Idle \/ job \in Jobs
    /\ WellFormed(db) /\ WellFormed(dbdisk)
    /\ lagged \in BOOLEAN

(* A block that the database knows of is more than the history above n.    *)
Known(d) ==
    {c \in Blocks : \/ c \in d.hashes
                    \/ \E h \in Heights : c \in {d.confirmed[h], d.finalized[h]}}
Above(d, n) == \E c \in Known(d) : n < Height[c] - HistoryLen

(* What is below the history of the store stays so.                        *)
Growing == \A n \in Nat : Above(db, n) => Above(db', n)

(* What a crash may leave behind, and the validator starts again from.     *)
Sound(d) ==
    /\ \A h \in Heights : d.confirmed[h] # None => h > Height[latest(d)]
    /\ latest(d) # Genesis => \A b \in {latest(d)} \cup Ancestors[latest(d)] :
          b = Genesis \/ d.finalized[Height[b]] = b \/ Above(d, Height[b])

(* The step that the store is at.                                          *)
JobInv ==
    /\ job.step = "insert" =>
          /\ IsFinalized
          /\ Height[Block] = Height[latest(db)] + 1
          /\ db.confirmed[Height[Block]] = None
    /\ job.step \in {"details"} \cup Pruning =>
          /\ Block \in {db.confirmed[Height[Block]], db.finalized[Height[Block]]}
          /\ lagged \/ Height[Block] <= Height[latest(db)] + HistoryLen
    /\ job.pruned # None =>
          /\ job.step \in Pruning /\ job.pruned \in Blocks
          /\ Height[job.pruned] < Height[Block] - HistoryLen

(* What follows a finalized block in the queue is above it.                *)
Sorted(q) ==
    \A i, j \in DOMAIN q : i < j /\ q[i].kind = "finalized"
        => Height[q[i].block] < Height[q[j].block]

(* The finalized blocks that wait continue the chain in the store ...      *)
Linked ==
    /\ \A e \in Waiting : e.kind = "finalized" =>
          \/ Parent[e.block] = latest(db)
          \/ Announcement("finalized", Parent[e.block]) \in Waiting
    /\ finalized = latest(db) \/ Announcement("finalized", finalized) \in Waiting

(* ... unless it lost its whole chain and can take no block before the     *)
(* next restart.                                                           *)
Lost ==
    /\ lagged
    /\ latest(db) = Genesis
    /\ Height[finalized] >= 1
    /\ \A e \in Waiting : e.kind = "finalized" => Height[e.block] >= 2

QueueInv ==
    /\ Sorted(Work)
    /\ Height[latest(db)] <= Height[finalized]
    /\ \A e \in Waiting :
          /\ Height[latest(db)] < Height[e.block]
          /\ e.kind = "finalized" => Height[e.block] <= Height[finalized]
          /\ e.kind = "confirmed" => lagged \/ Height[e.block] <= Height[latest(db)] + HistoryLen
    /\ Lost \/ Linked

(* A block that is or may be finalized has its hash stored first.          *)
Recorded(b) ==
    \/ b \in db.hashes
    \/ Above(db, Height[b])
    \/ job.step \in {"details", "hash"} \cup Pruning /\ Block = b
    \/ Announcement("confirmed", b) \in Waiting

RecordInv ==
    /\ \A b \in secured : Recorded(b)
    /\ \A e \in Waiting : e.kind = "finalized" => Recorded(e.block)

StorageInv ==
    /\ TypeInv
    /\ Sound(db) /\ Sound(dbdisk)
    /\ JobInv
    /\ QueueInv
    /\ RecordInv
    /\ RefusedOnlyIfLagging

-----------------------------------------------------------------------------
(***************************************************************************)
(* Blocks, heights and databases.                                          *)
(***************************************************************************)
LEMMA HeightsOfBlocks ==
    /\ \A b \in Blocks : /\ Height[b] \in Nat /\ Height[b] >= 1 /\ Height[b] \in Heights
                         /\ Parent[b] \in Blocks \cup {Genesis}
                         /\ Height[b] = Height[Parent[b]] + 1
    /\ \A h \in Heights : h \in Nat /\ h >= 1
    /\ Height[Genesis] = 0 /\ Genesis \notin Blocks
    /\ HistoryLen \in Nat
  BY StorageAssumption DEF Heights

(* The blocks below a block have lower heights.                            *)
LEMMA AncestorsAreLower ==
    ASSUME NEW b \in Blocks, NEW a \in Ancestors[b]
    PROVE  a \in Blocks \cup {Genesis} /\ Height[a] < Height[b]
<1> DEFINE Bad(c) == \E x \in Ancestors[c] :
                        ~(x \in Blocks \cup {Genesis} /\ Height[x] < Height[c])
           S == {n \in Nat : \E c \in Blocks : Height[c] = n /\ Bad(c)}
<1> SUFFICES ASSUME S # {} PROVE FALSE
  BY HeightsOfBlocks
<1>1. PICK n \in S : \A m \in S : n <= m
  BY Smallest
<1>2. PICK c \in Blocks : Height[c] = n /\ Bad(c)
  BY <1>1
<1>3. PICK x \in Ancestors[c] : ~(x \in Blocks \cup {Genesis} /\ Height[x] < Height[c])
  BY <1>2
<1>4. Ancestors[c] = {Parent[c]} \cup
         (IF Parent[c] \in Blocks THEN Ancestors[Parent[c]] ELSE {})
  BY StorageAssumption
<1>5. /\ Parent[c] \in Blocks \cup {Genesis} /\ Height[c] = Height[Parent[c]] + 1
      /\ Height[Parent[c]] \in Nat
  BY HeightsOfBlocks
<1>6. Parent[c] \in Blocks /\ x \in Ancestors[Parent[c]]
  BY <1>3, <1>4, <1>5
<1>7. Height[Parent[c]] \notin S
  BY <1>1, <1>2, <1>5
<1>8. x \in Blocks \cup {Genesis} /\ Height[x] < Height[Parent[c]]
  BY <1>5, <1>6, <1>7
<1>9. Height[x] \in Nat
  BY <1>8, HeightsOfBlocks
<1> QED
  BY <1>3, <1>5, <1>8, <1>9

(* What BlockStore::latest finds.                                          *)
LEMMA LatestIsTop ==
    ASSUME NEW d, WellFormed(d)
    PROVE  /\ latest(d) \in Blocks \cup {Genesis} /\ Height[latest(d)] \in Nat
           /\ Stored(d) = {} => latest(d) = Genesis
           /\ Stored(d) # {} => /\ latest(d) \in Blocks
                                /\ Height[latest(d)] \in Stored(d)
                                /\ d.finalized[Height[latest(d)]] = latest(d)
           /\ \A g \in Stored(d) : g <= Height[latest(d)]
<1>1. CASE Stored(d) = {}
  <2>1. latest(d) = Genesis
    BY <1>1 DEF latest, Stored
  <2> QED
    BY <1>1, <2>1, HeightsOfBlocks
<1>2. CASE Stored(d) # {}
  <2> DEFINE top == CHOOSE h \in Stored(d) : \A g \in Stored(d) : g <= h
  <2>1. top \in Stored(d) /\ \A g \in Stored(d) : g <= top
    BY <1>2 DEF WellFormed
  <2>2. latest(d) = d.finalized[top]
    BY <1>2 DEF latest, Stored
  <2> HIDE DEF top
  <2>3. top \in Heights /\ d.finalized[top] # None
    BY <2>1 DEF Stored
  <2>4. d.finalized[top] \in Blocks /\ Height[d.finalized[top]] = top
    BY <2>3 DEF WellFormed
  <2> QED
    BY <1>2, <2>1, <2>2, <2>4, HeightsOfBlocks
<1> QED
  BY <1>1, <1>2

LEMMA LatestIs ==
    ASSUME NEW d, WellFormed(d), NEW b \in Blocks, d.finalized[Height[b]] = b,
           \A g \in Stored(d) : g <= Height[b]
    PROVE  latest(d) = b
<1>1. Height[b] \in Stored(d)
  BY HeightsOfBlocks DEF Stored, None
<1>2. /\ Height[latest(d)] \in Stored(d) /\ d.finalized[Height[latest(d)]] = latest(d)
      /\ Height[b] <= Height[latest(d)]
  BY <1>1, LatestIsTop
<1>3. Height[latest(d)] = Height[b]
  BY <1>1, <1>2, HeightsOfBlocks DEF Stored
<1> QED
  BY <1>2, <1>3

(* The latest block depends on the finalized tree alone.                   *)
LEMMA LatestKept ==
    ASSUME NEW d, NEW e, e.finalized = d.finalized
    PROVE  latest(e) = latest(d)
  BY DEF latest

-----------------------------------------------------------------------------
(***************************************************************************)
(* The queue of what is to be stored.                                      *)
(***************************************************************************)
LEMMA WorkIsSeq ==
    ASSUME TypeInv
    PROVE  /\ Current \in Seq(Notices) /\ channel \o announcements \in Seq(Notices)
           /\ Work \in Seq(Notices) /\ Waiting \subseteq Notices
           /\ Waiting = ToSet(Current) \cup ToSet(channel \o announcements)
<1>1. Current \in Seq(Notices)
  BY DEF TypeInv, Jobs, Current, Idle
<1>2. channel \o announcements \in Seq(Notices)
  BY DEF TypeInv
<1>3. Work \in Seq(Notices)
  BY <1>1, <1>2 DEF Work
<1>4. Waiting \subseteq Notices
  BY <1>3 DEF Waiting, ToSet
<1> DEFINE q == channel \o announcements
<1> HIDE DEF q
<1>5. ToSet(Current \o q) = ToSet(Current) \cup ToSet(q)
  <2>1. q \in Seq(Notices)
    BY <1>2 DEF q
  <2> QED
    BY ONLY <2>1, <1>1, ToSetConcat
<1> QED
  BY <1>1, <1>2, <1>3, <1>4, <1>5 DEF Waiting, Work, q

LEMMA NoticeFacts ==
    ASSUME NEW e \in Notices
    PROVE  /\ e.kind \in {"confirmed", "finalized"} /\ e.block \in Blocks
           /\ Height[e.block] \in Nat /\ e = Announcement(e.kind, e.block)
           /\ \A k, b : Announcement(k, b) = e <=> k = e.kind /\ b = e.block
  BY HeightsOfBlocks DEF Notices, Announcement

(* The block at hand is the first of the queue.                            *)
LEMMA FirstOfWork ==
    ASSUME TypeInv, Sorted(Work), job.step \in {"raw", "insert"}
    PROVE  /\ job.event \in Notices
           /\ Waiting = {job.event} \cup ToSet(channel \o announcements)
           /\ IsFinalized => \A f \in ToSet(channel \o announcements) :
                                Height[Block] < Height[f.block]
           /\ Sorted(<<>> \o (channel \o announcements))
<1> DEFINE q == channel \o announcements
           w == <<job.event>> \o q
<1>1. Current = <<job.event>> /\ job.event \in Notices /\ q \in Seq(Notices)
  BY WorkIsSeq DEF Current, TypeInv, Jobs, Idle
<1> HIDE DEF q
<1>2. Work = w
  BY <1>1 DEF Work, q
<1>3. ToSet(<<job.event>>) = {job.event}
  BY DEF ToSet
<1>4. Waiting = {job.event} \cup ToSet(q)
  BY <1>1, <1>3, WorkIsSeq DEF q
<1>5. /\ 1 \in DOMAIN w /\ w[1] = job.event
      /\ \A i \in DOMAIN q : i + 1 \in DOMAIN w /\ w[i + 1] = q[i] /\ 1 < i + 1
  BY <1>1
<1>6. ASSUME IsFinalized, NEW f \in ToSet(q) PROVE Height[Block] < Height[f.block]
  <2>1. PICK i \in DOMAIN q : f = q[i]
    BY DEF ToSet
  <2>2. i + 1 \in DOMAIN Work /\ Work[i + 1] = f /\ 1 < i + 1
        /\ 1 \in DOMAIN Work /\ Work[1] = job.event
    BY <2>1, <1>2, <1>5, Zenon
  <2>3. Work[1].kind = "finalized" /\ Block = Work[1].block
    BY <2>2, <1>6, Zenon DEF IsFinalized, Block
  <2> HIDE DEF w
  <2> QED
    BY <2>2, <2>3, Zenon DEF Sorted
<1>7. <<>> \o q = q
  BY <1>1
<1>8. Sorted(q)
  <2> SUFFICES ASSUME NEW i \in DOMAIN q, NEW j \in DOMAIN q, i < j, q[i].kind = "finalized"
               PROVE  Height[q[i].block] < Height[q[j].block]
    BY DEF Sorted
  <2>1. i + 1 < j + 1
    BY <1>1
  <2> QED
    BY <2>1, <1>2, <1>5, SMTT(60) DEF Sorted
<1> QED
  BY <1>1, <1>4, <1>6, <1>7, <1>8 DEF q

(* Confirmations that overtake a part of the queue keep its order.         *)
LEMMA SortedInsert ==
    ASSUME NEW p \in Seq(Notices), NEW s \in Seq(Notices), NEW a \in Seq(Notices),
           Sorted(p \o a),
           \A y \in ToSet(s) : /\ y.kind = "confirmed"
                               /\ \A x \in ToSet(p) : x.kind = "finalized"
                                     => Height[x.block] < Height[y.block]
    PROVE  Sorted(p \o (s \o a))
<1> DEFINE w == p \o (s \o a)
           v == p \o a
<1>1. s \o a \in Seq(Notices) /\ Len(s \o a) = Len(s) + Len(a)
  OBVIOUS
<1>2. w \in Seq(Notices) /\ Len(w) = Len(p) + (Len(s) + Len(a))
      /\ v \in Seq(Notices) /\ Len(v) = Len(p) + Len(a)
  BY <1>1
<1>3. ASSUME NEW i \in DOMAIN w
      PROVE  \/ /\ i <= Len(p) /\ w[i] \in ToSet(p)
                /\ i \in DOMAIN v /\ v[i] = w[i]
             \/ /\ Len(p) < i /\ i <= Len(p) + Len(s) /\ w[i] \in ToSet(s)
             \/ /\ Len(p) + Len(s) < i /\ i - Len(s) \in DOMAIN v
                /\ v[i - Len(s)] = w[i]
  <2>1. CASE i <= Len(p)
    <3>1. i \in DOMAIN p /\ w[i] = p[i] /\ i \in DOMAIN v /\ v[i] = p[i]
      BY <2>1, <1>1, <1>2
    <3> QED
      BY <3>1, <2>1 DEF ToSet
  <2>2. CASE Len(p) < i /\ i <= Len(p) + Len(s)
    <3>1. i - Len(p) \in DOMAIN s /\ w[i] = (s \o a)[i - Len(p)]
      BY <2>2, <1>1, <1>2
    <3>2. (s \o a)[i - Len(p)] = s[i - Len(p)]
      BY <3>1
    <3> QED
      BY <3>1, <3>2, <2>2 DEF ToSet
  <2>3. CASE Len(p) + Len(s) < i
    <3>1. w[i] = (s \o a)[i - Len(p)]
      BY <2>3, <1>1, <1>2
    <3>2. (s \o a)[i - Len(p)] = a[i - Len(p) - Len(s)]
      BY <2>3, <1>1, <1>2
    <3>3. i - Len(s) \in DOMAIN v /\ v[i - Len(s)] = a[i - Len(s) - Len(p)]
      BY <2>3, <1>1, <1>2
    <3>4. i - Len(p) - Len(s) = i - Len(s) - Len(p)
      BY <1>2
    <3> QED
      BY <3>1, <3>2, <3>3, <3>4, <2>3
  <2> QED
    BY <2>1, <2>2, <2>3, <1>2, SMTT(60)
<1> SUFFICES ASSUME NEW i \in DOMAIN w, NEW j \in DOMAIN w, i < j, w[i].kind = "finalized"
             PROVE  Height[w[i].block] < Height[w[j].block]
  BY DEF Sorted
<1> HIDE DEF w
<1>4. w[i] \notin ToSet(s)
  OBVIOUS
<1>5. CASE w[j] \in ToSet(s) /\ j <= Len(p) + Len(s)
  <2>1. w[i] \in ToSet(p)
    BY <1>2, <1>3, <1>4, <1>5
  <2> QED
    BY <2>1, <1>5
<1>6. CASE \/ j <= Len(p) /\ j \in DOMAIN v /\ v[j] = w[j]
           \/ Len(p) + Len(s) < j /\ j - Len(s) \in DOMAIN v /\ v[j - Len(s)] = w[j]
  <2>1. i \in Int /\ j \in Int /\ Len(p) \in Nat /\ Len(s) \in Nat
    BY <1>2
  <2>2. PICK k \in DOMAIN v : /\ v[k] = w[i]
                              /\ (i <= Len(p) /\ k = i) \/ (Len(p) + Len(s) < i /\ k = i - Len(s))
    BY <1>3, <1>4
  <2>3. PICK l \in DOMAIN v : /\ v[l] = w[j]
                              /\ (j <= Len(p) /\ l = j) \/ (Len(p) + Len(s) < j /\ l = j - Len(s))
    BY <1>6
  <2>4. k < l
    BY <2>1, <2>2, <2>3
  <2> QED
    BY <2>2, <2>3, <2>4 DEF Sorted
<1> QED
  BY <1>3, <1>5, <1>6

(* A finalized block at the end of the queue is above all others.          *)
LEMMA SortedAppend ==
    ASSUME NEW q \in Seq(Notices), Sorted(q), NEW e \in Notices,
           \A x \in ToSet(q) : x.kind = "finalized" => Height[x.block] < Height[e.block]
    PROVE  Sorted(Append(q, e))
<1> DEFINE w == Append(q, e)
<1>1. \A i \in DOMAIN w : (i \in DOMAIN q /\ w[i] = q[i]) \/ (i = Len(q) + 1 /\ w[i] = e)
  OBVIOUS
<1>2. \A i \in DOMAIN q : q[i] \in ToSet(q) /\ i \in Nat /\ i <= Len(q) /\ Len(q) \in Nat
  BY DEF ToSet
<1> SUFFICES ASSUME NEW i \in DOMAIN w, NEW j \in DOMAIN w, i < j, w[i].kind = "finalized"
             PROVE  Height[w[i].block] < Height[w[j].block]
  BY DEF Sorted
<1>3. i \in DOMAIN q /\ w[i] = q[i]
  BY <1>1, <1>2
<1> QED
  BY <1>1, <1>2, <1>3 DEF Sorted

LEMMA Reassociate ==
    ASSUME NEW S, NEW p \in Seq(S), NEW q \in Seq(S), NEW r \in Seq(S)
    PROVE  p \o (q \o r) = (p \o q) \o r
<1>1. Len(p \o (q \o r)) = Len((p \o q) \o r) /\ p \o (q \o r) \in Seq(S)
      /\ (p \o q) \o r \in Seq(S)
  OBVIOUS
<1>2. \A i \in 1..Len(p \o (q \o r)) : (p \o (q \o r))[i] = ((p \o q) \o r)[i]
  OBVIOUS
<1> QED
  BY <1>1, <1>2

-----------------------------------------------------------------------------
(***************************************************************************)
(* The engine, the main loop and the disks.                                *)
(***************************************************************************)
LEMMA StorageInit == Init => StorageInv
<1> SUFFICES ASSUME Init PROVE StorageInv
  OBVIOUS
<1>1. WellFormed(db) /\ Stored(db) = {} /\ dbdisk = db
  BY StorageAssumption DEF Init, WellFormed, Stored, None
<1>2. latest(db) = Genesis
  BY <1>1, LatestIsTop
<1>3. /\ finalized = Genesis /\ secured = {} /\ announcements = <<>> /\ channel = <<>>
      /\ job = Idle /\ refused = {} /\ lagged = FALSE
      /\ \A h \in Heights : db.confirmed[h] = None
  BY DEF Init, FinalityInit
<1>4. TypeInv
  <2>1. lagged \in BOOLEAN /\ job = Idle /\ secured \subseteq Blocks
    BY <1>3
  <2>2. announcements \in Seq(Notices) /\ channel \in Seq(Notices)
    BY <1>3
  <2> QED
    BY <2>1, <2>2, <1>1, <1>3, Zenon DEF TypeInv
<1>5. job.step = "idle" /\ Current = <<>> /\ Work = <<>> /\ Waiting = {}
  BY <1>3 DEF Idle, Current, Work, Waiting, ToSet
<1>6. Sound(db) /\ Sound(dbdisk)
  BY <1>1, <1>2, <1>3 DEF Sound
<1>7. JobInv /\ RecordInv /\ RefusedOnlyIfLagging
  BY <1>3, <1>5 DEF JobInv, Pruning, RecordInv, RefusedOnlyIfLagging, Idle
<1>8. QueueInv
  BY <1>2, <1>3, <1>5, HeightsOfBlocks DEF QueueInv, Linked, Sorted
<1> QED
  BY <1>4, <1>6, <1>7, <1>8 DEF StorageInv

(* Nothing but the place of the waiting blocks, or the disk, changes.      *)
LEMMA Untouched ==
    ASSUME StorageInv, TypeInv', Sound(dbdisk)', Work' = Work,
           UNCHANGED <<finalized, secured, job, db, lagged, refused>>
    PROVE  StorageInv'
<1>1. Waiting' = Waiting
  BY DEF Waiting
<1>2. Sound(db)' /\ JobInv' /\ RefusedOnlyIfLagging'
  BY DEF StorageInv, Sound, Above, Known, JobInv, IsFinalized, Block,
     RefusedOnlyIfLagging
<1>3. Sorted(Work)' /\ (Lost' <=> Lost) /\ (Linked' <=> Linked)
  BY <1>1 DEF StorageInv, QueueInv, Sorted, Lost, Linked
<1>4. QueueInv'
  BY <1>1, <1>3 DEF StorageInv, QueueInv
<1>5. \A b : Recorded(b)' <=> Recorded(b)
  BY <1>1 DEF Recorded, Pruning, Above, Known, Block
<1>6. RecordInv'
  BY <1>1, <1>5 DEF StorageInv, RecordInv
<1> QED
  BY <1>2, <1>4, <1>6 DEF StorageInv

LEMMA StepRunLoop == StorageInv /\ RunLoop => StorageInv'
<1> SUFFICES ASSUME StorageInv, RunLoop PROVE StorageInv'
  OBVIOUS
<1>1. /\ channel' = Append(channel, Head(announcements))
      /\ announcements # <<>> /\ announcements' = Tail(announcements)
      /\ UNCHANGED <<finalized, secured, job, db, lagged, refused, dbdisk>>
  BY DEF RunLoop, Announce, disks
<1>2. announcements \in Seq(Notices) /\ channel \in Seq(Notices)
  BY DEF StorageInv, TypeInv
<1>3. announcements' \in Seq(Notices) /\ channel' \in Seq(Notices)
  BY <1>1, <1>2
<1>4. channel' \o announcements' = channel \o announcements
  BY <1>1, <1>2, HeadMoves
<1>5. Work' = Work
  BY <1>1, <1>4 DEF Work, Current
<1>6. TypeInv'
  BY <1>1, <1>3 DEF StorageInv, TypeInv, WellFormed, Stored
<1>7. Sound(dbdisk)'
  BY <1>1 DEF StorageInv, Sound, Above, Known
<1> QED
  BY <1>1, <1>5, <1>6, <1>7, Untouched

LEMMA StepFlush ==
    ASSUME StorageInv, FlushState \/ FlushBlocks \/ UNCHANGED storagevars
    PROVE  StorageInv'
<1>1. UNCHANGED <<finalized, secured, announcements, channel, job, db, lagged, refused>>
      /\ dbdisk' \in {db, dbdisk}
  BY DEF FlushState, FlushBlocks, storagevars, finalityvars, memory, disks
<1>2. Work' = Work
  BY <1>1 DEF Work, Current
<1>3. TypeInv'
  BY <1>1 DEF StorageInv, TypeInv, WellFormed, Stored
<1>4. Sound(dbdisk)'
  BY <1>1 DEF StorageInv, Sound, Above, Known
<1> QED
  BY <1>1, <1>2, <1>3, <1>4, Untouched

(* What a vote adds to the queue: the newly confirmed blocks, in front of  *)
(* what the engine has not announced yet.                                  *)
Adds(t, newly, new, p) ==
    /\ newly \subseteq Blocks
    /\ \A b \in newly : /\ Height[finalized] < Height[b] /\ Height[b] <= Height[t]
                        /\ Height[b] \in Nat /\ Height[t] \in Nat
    /\ secured' = secured \cup newly
    /\ lagged' = (lagged \/ Height[t] > Height[latest(db)] + HistoryLen)
    /\ UNCHANGED <<finalized, db, dbdisk, channel, job, refused>>
    /\ new \in Seq(Notices) /\ announcements' \in Seq(Notices) /\ p \in Seq(Notices)
    /\ ToSet(new) = {Announcement("confirmed", b) : b \in newly}
    /\ Work = p \o announcements /\ Work' = p \o (new \o announcements)
    /\ Waiting = ToSet(p) \cup ToSet(announcements) /\ Waiting' = Waiting \cup ToSet(new)

LEMMA ConfirmAdds ==
    ASSUME StorageInv, NEW t \in Blocks, ConfirmBlock(t)
    PROVE  \E newly, new, p : Adds(t, newly, new, p)
<1> DEFINE newly == {b \in {t} \cup Ancestors[t] :
                        b \in Blocks \ secured /\ finalized \in Ancestors[b]}
<1>1. /\ secured' = secured \cup newly
      /\ lagged' = (lagged \/ Height[t] > Height[latest(db)] + HistoryLen)
      /\ UNCHANGED <<finalized, db, dbdisk, channel, job, refused>>
  BY DEF ConfirmBlock, Confirm, memory, disks
<1>2. PICK s \in SetToSeqs(newly) :
           announcements' = [i \in DOMAIN s |-> Announcement("confirmed", s[i])]
                                \o announcements
  BY DEF ConfirmBlock, Confirm
<1> DEFINE new == [i \in DOMAIN s |-> Announcement("confirmed", s[i])]
<1>3. /\ newly \subseteq Blocks
      /\ \A b \in newly : /\ Height[finalized] < Height[b] /\ Height[b] <= Height[t]
                          /\ Height[b] \in Nat /\ Height[t] \in Nat
  <2>1. \A b \in newly : b \in Blocks /\ finalized \in Ancestors[b]
                         /\ (b = t \/ b \in Ancestors[t])
    OBVIOUS
  <2> HIDE DEF newly
  <2> QED
    BY <2>1, AncestorsAreLower, HeightsOfBlocks
<1>4. s \in Seq(newly) /\ ToSet(s) = newly
  <2> HIDE DEF newly
  <2>1. IsFiniteSet(Blocks) /\ newly \in SUBSET Blocks
    BY <1>3, StorageAssumption
  <2>2. IsFiniteSet(newly)
    BY <2>1, FS_Subset
  <2> QED
    BY <2>1, <2>2, ListingIsSeq, ListingCovers
<1> HIDE DEF newly
<1>5. new \in Seq(Notices) /\ ToSet(new) = {Announcement("confirmed", b) : b \in newly}
  <2>1. new \in Seq(Notices)
    <3>1. \A i \in DOMAIN s : Announcement("confirmed", s[i]) \in Notices
      BY <1>3, <1>4 DEF Announcement, Notices
    <3> QED
      BY <3>1, <1>4
  <2>2. ToSet(new) = {Announcement("confirmed", b) : b \in ToSet(s)}
    BY <1>4 DEF ToSet
  <2> QED
    BY <2>1, <2>2, <1>4
<1> HIDE DEF new
<1>6. announcements' = new \o announcements
  BY <1>2 DEF new
<1>7. /\ TypeInv /\ channel \in Seq(Notices) /\ announcements \in Seq(Notices)
      /\ Current \in Seq(Notices) /\ Waiting \subseteq Notices
      /\ Height[latest(db)] \in Nat /\ Height[finalized] \in Nat
  BY WorkIsSeq, LatestIsTop, HeightsOfBlocks DEF StorageInv, TypeInv
<1>8. announcements' \in Seq(Notices)
  BY <1>5, <1>6, <1>7
<1> DEFINE p == Current \o channel
<1>9. /\ Work = p \o announcements /\ p \in Seq(Notices)
       /\ Work' = p \o (new \o announcements)
  <2>1. Current' = Current
    BY <1>1 DEF Current
  <2>2. new \o announcements \in Seq(Notices)
    BY <1>5, <1>7
  <2>3. Work' = Current \o (channel \o (new \o announcements))
    BY <2>1, <1>1, <1>6 DEF Work
  <2> DEFINE q == new \o announcements
  <2> HIDE DEF q
  <2>4. Current \o (channel \o q) = (Current \o channel) \o q
    <3>1. q \in Seq(Notices)
      BY <2>2 DEF q
    <3> QED
      BY <3>1, <1>7, Reassociate, SMTT(60)
  <2>5. Current \o (channel \o announcements) = (Current \o channel) \o announcements
    BY <1>7, Reassociate, SMTT(60)
  <2> QED
    BY <2>3, <2>4, <2>5, <1>7 DEF Work, q
<1> HIDE DEF p
<1>10. Waiting = ToSet(p) \cup ToSet(announcements) /\ Waiting' = Waiting \cup ToSet(new)
  <2>1. Waiting = ToSet(p) \cup ToSet(announcements)
    BY <1>7, <1>9, ToSetConcat DEF Waiting
  <2>2. new \o announcements \in Seq(Notices)
        /\ ToSet(new \o announcements) = ToSet(new) \cup ToSet(announcements)
    BY <1>5, <1>7, ToSetConcat
  <2> DEFINE q == new \o announcements
  <2> HIDE DEF q
  <2>3. ToSet(p \o q) = ToSet(p) \cup ToSet(q)
    <3>1. q \in Seq(Notices)
      BY <2>2 DEF q
    <3> QED
      BY <3>1, <1>9, ToSetConcat
  <2>4. Waiting' = ToSet(p) \cup ToSet(new \o announcements)
    BY <2>3, <1>9 DEF Waiting, q
  <2> QED
    BY <2>1, <2>2, <2>4
<1>11. Adds(t, newly, new, p)
  BY <1>1, <1>3, <1>5, <1>8, <1>9, <1>10 DEF Adds
<1> QED
  BY <1>11

(* The engine confirms blocks above the finalized one.                     *)
LEMMA StepConfirm ==
    ASSUME StorageInv, NEW t \in Blocks, ConfirmBlock(t)
    PROVE  StorageInv'
<1>1. PICK newly, new, p : Adds(t, newly, new, p)
  BY ConfirmAdds
<1>2. /\ secured' = secured \cup newly
      /\ lagged' = (lagged \/ Height[t] > Height[latest(db)] + HistoryLen)
      /\ UNCHANGED <<finalized, db, dbdisk, channel, job, refused>>
  BY <1>1 DEF Adds
<1>3. /\ newly \subseteq Blocks
      /\ \A b \in newly : /\ Height[finalized] < Height[b] /\ Height[b] <= Height[t]
                          /\ Height[b] \in Nat /\ Height[t] \in Nat
  BY <1>1 DEF Adds
<1>4. new \in Seq(Notices) /\ ToSet(new) = {Announcement("confirmed", b) : b \in newly}
  BY <1>1 DEF Adds
<1>5. /\ TypeInv /\ announcements \in Seq(Notices) /\ Waiting \subseteq Notices
      /\ Height[latest(db)] \in Nat /\ Height[finalized] \in Nat
  BY WorkIsSeq, LatestIsTop, HeightsOfBlocks DEF StorageInv, TypeInv
<1>6. TypeInv'
  <2>1. announcements' \in Seq(Notices)
    BY <1>1 DEF Adds
  <2> QED
    BY <2>1, <1>2, <1>3 DEF StorageInv, TypeInv, WellFormed, Stored
<1>7. /\ Work = p \o announcements /\ p \in Seq(Notices)
       /\ Work' = p \o (new \o announcements)
  BY <1>1 DEF Adds
<1>8. Waiting = ToSet(p) \cup ToSet(announcements) /\ Waiting' = Waiting \cup ToSet(new)
  BY <1>1 DEF Adds
<1>9. \A e \in ToSet(new) : e.kind = "confirmed" /\ e.block \in newly
  BY <1>4 DEF Announcement
<1>10. Sorted(Work')
  <2>1. ASSUME NEW x \in ToSet(p), x.kind = "finalized", NEW y \in ToSet(new)
        PROVE  Height[x.block] < Height[y.block]
    <3>1. x \in Waiting /\ x \in Notices
      BY <1>5, <1>8
    <3>2. Height[x.block] <= Height[finalized] /\ Height[x.block] \in Nat
      BY <2>1, <3>1, NoticeFacts DEF StorageInv, QueueInv
    <3>3. Height[finalized] < Height[y.block] /\ Height[y.block] \in Nat
      BY <1>3, <1>9
    <3> QED
      BY <3>2, <3>3, <1>5
  <2>2. Sorted(p \o announcements)
    BY <1>7 DEF StorageInv, QueueInv
  <2> QED
    BY <2>1, <2>2, <1>4, <1>5, <1>7, <1>9, SortedInsert
<1>11. lagged => lagged'
  BY <1>2
<1>12. ASSUME NEW e \in Waiting'
       PROVE  /\ Height[latest(db)] < Height[e.block]
              /\ e.kind = "finalized" => Height[e.block] <= Height[finalized]
              /\ e.kind = "confirmed" => lagged' \/ Height[e.block] <= Height[latest(db)] + HistoryLen
  <2>1. CASE e \in Waiting
    BY <2>1, <1>11 DEF StorageInv, QueueInv
  <2>2. CASE e \in ToSet(new)
    <3>1. e.kind = "confirmed" /\ Height[finalized] < Height[e.block]
          /\ Height[e.block] <= Height[t] /\ Height[e.block] \in Nat /\ Height[t] \in Nat
      BY <2>2, <1>3, <1>9
    <3>2. Height[latest(db)] <= Height[finalized]
      BY DEF StorageInv, QueueInv
    <3>3. lagged' \/ Height[t] <= Height[latest(db)] + HistoryLen
      <4>1. CASE Height[t] > Height[latest(db)] + HistoryLen
        BY <4>1, <1>2, Zenon
      <4>2. CASE ~(Height[t] > Height[latest(db)] + HistoryLen)
        BY <4>2, <1>5, <3>1, HeightsOfBlocks
      <4> QED
        BY <4>1, <4>2
    <3> QED
      BY <3>1, <3>2, <3>3, <1>5, HeightsOfBlocks
  <2> QED
    BY <2>1, <2>2, <1>8
<1>13. Lost' \/ Linked'
  <2>1. CASE Lost
    BY <2>1, <1>2, <1>8, <1>9 DEF Lost
  <2>2. CASE Linked
    BY <2>2, <1>2, <1>8, <1>9 DEF Linked
  <2> QED
    BY <2>1, <2>2 DEF StorageInv, QueueInv
<1>14. QueueInv'
  BY <1>2, <1>10, <1>12, <1>13 DEF StorageInv, QueueInv
<1>15. RecordInv'
  <2>1. \A b : Recorded(b) => Recorded(b)'
    BY <1>2, <1>8 DEF Recorded, Pruning, Above, Known, Block
  <2>2. \A b \in newly : Recorded(b)'
    BY <1>4, <1>8 DEF Recorded, Pruning
  <2> QED
    BY <2>1, <2>2, <1>2, <1>8, <1>9 DEF StorageInv, RecordInv
<1>16. Sound(db)' /\ Sound(dbdisk)' /\ JobInv' /\ RefusedOnlyIfLagging'
  BY <1>2, <1>11 DEF StorageInv, Sound, Above, Known, JobInv, IsFinalized, Block,
     RefusedOnlyIfLagging
<1> QED
  BY <1>6, <1>14, <1>15, <1>16 DEF StorageInv

(* A finalized block goes to the end of the queue.                         *)
LEMMA FinalizeAdds ==
    ASSUME StorageInv, NEW r \in Blocks, FinalizeBlock(r)
    PROVE  LET e == Announcement("finalized", r) IN
           Work' = Append(Work, e) /\ Waiting' = Waiting \cup {e}
<1> DEFINE e == Announcement("finalized", r)
<1>1. announcements' = Append(announcements, e) /\ UNCHANGED <<channel, job>>
  BY DEF FinalizeBlock, Finalize, memory
<1>2. e \in Notices
  BY DEF Announcement, Notices
<1>3. /\ channel \in Seq(Notices) /\ announcements \in Seq(Notices)
      /\ Current \in Seq(Notices) /\ Work \in Seq(Notices)
  BY WorkIsSeq DEF StorageInv, TypeInv
<1> HIDE DEF e
<1>4. Work' = Append(Work, e)
  <2>1. Current' = Current
    BY <1>1 DEF Current
  <2>2. channel \o Append(announcements, e) = Append(channel \o announcements, e)
    BY <1>2, <1>3, SMTT(60)
  <2> DEFINE q == channel \o announcements
  <2> HIDE DEF q
  <2>3. q \in Seq(Notices)
    BY <1>3 DEF q
  <2>4. Current \o Append(q, e) = Append(Current \o q, e)
    BY <2>3, <1>2, <1>3, SMTT(60)
  <2> QED
    BY <2>1, <2>2, <2>4, <1>1 DEF Work, q
<1>5. Waiting' = Waiting \cup {e}
  <2>1. ToSet(Append(Work, e)) = ToSet(Work) \cup {e}
    BY <1>2, <1>3, ToSetAppend
  <2> QED
    BY <2>1, <1>4 DEF Waiting
<1> QED
  BY <1>4, <1>5 DEF e

(* The engine finalizes a confirmed child of the finalized block.          *)
LEMMA StepFinalize ==
    ASSUME StorageInv, NEW r \in Blocks, FinalizeBlock(r)
    PROVE  StorageInv'
<1> DEFINE e == Announcement("finalized", r)
<1>1. /\ r \in secured /\ Parent[r] = finalized /\ finalized' = r
      /\ secured' \subseteq secured
      /\ announcements' = Append(announcements, e)
      /\ UNCHANGED <<db, dbdisk, channel, job, refused, lagged>>
  BY DEF FinalizeBlock, Finalize, memory, disks
<1>2. e \in Notices /\ e.kind = "finalized" /\ e.block = r
  BY DEF Announcement, Notices
<1> HIDE DEF e
<1>3. /\ TypeInv /\ channel \in Seq(Notices) /\ announcements \in Seq(Notices)
      /\ Current \in Seq(Notices) /\ Waiting \subseteq Notices /\ Work \in Seq(Notices)
      /\ Height[latest(db)] \in Nat /\ Height[finalized] \in Nat
      /\ Height[r] = Height[finalized] + 1
  BY <1>1, WorkIsSeq, LatestIsTop, HeightsOfBlocks DEF StorageInv, TypeInv
<1>4. TypeInv'
  BY <1>1, <1>2, <1>3 DEF TypeInv, WellFormed, Stored
<1>5. Work' = Append(Work, e)
  BY FinalizeAdds DEF e
<1>6. Waiting' = Waiting \cup {e}
  BY FinalizeAdds DEF e
<1>7. \A x \in Waiting : x.kind = "finalized" =>
         Height[x.block] <= Height[finalized] /\ Height[x.block] < Height[r]
         /\ Height[x.block] <= Height[r]
  BY <1>3, NoticeFacts DEF StorageInv, QueueInv
<1>8. Sorted(Work')
  BY <1>2, <1>3, <1>5, <1>7, SortedAppend DEF StorageInv, QueueInv, Waiting
<1>9. Height[latest(db)] <= Height[r] /\ Height[latest(db)] < Height[r]
  BY <1>3 DEF StorageInv, QueueInv
<1>10. Lost' \/ Linked'
  <2>1. CASE Lost
    <3>1. Height[r] >= 2 /\ Height[r] >= 1
      BY <2>1, <1>3 DEF Lost
    <3> QED
      BY <2>1, <3>1, <1>1, <1>2, <1>6 DEF Lost
  <2>2. CASE Linked
    BY <2>2, <1>1, <1>2, <1>6 DEF Linked, e
  <2> QED
    BY <2>1, <2>2 DEF StorageInv, QueueInv
<1>11. ASSUME NEW x \in Waiting'
       PROVE  /\ Height[latest(db)] < Height[x.block]
              /\ x.kind = "finalized" => Height[x.block] <= Height[r]
              /\ x.kind = "confirmed" => lagged \/ Height[x.block] <= Height[latest(db)] + HistoryLen
  <2>1. CASE x \in Waiting
    BY <2>1, <1>7 DEF StorageInv, QueueInv
  <2>2. CASE x = e
    BY <2>2, <1>2, <1>3, <1>9
  <2> QED
    BY <2>1, <2>2, <1>6
<1>12. QueueInv'
  BY <1>1, <1>8, <1>9, <1>10, <1>11 DEF QueueInv
<1>13. RecordInv'
  <2>1. \A b : Recorded(b) => Recorded(b)'
    BY <1>1, <1>6 DEF Recorded, Pruning, Above, Known, Block
  <2> QED
    BY <2>1, <1>1, <1>2, <1>6 DEF StorageInv, RecordInv
<1>14. Sound(db)' /\ Sound(dbdisk)' /\ JobInv' /\ RefusedOnlyIfLagging'
  BY <1>1 DEF StorageInv, Sound, Above, Known, JobInv, IsFinalized, Block,
     RefusedOnlyIfLagging
<1> QED
  BY <1>4, <1>12, <1>13, <1>14 DEF StorageInv

(* The validator starts again: nothing waits, and the chain goes on where  *)
(* the block store ends.                                                   *)
LEMMA StepRestart == StorageInv /\ Restart => StorageInv'
<1> SUFFICES ASSUME StorageInv, Restart PROVE StorageInv'
  OBVIOUS
<1>1. /\ finalized' = latest(dbdisk) /\ secured' = {} /\ announcements' = <<>>
      /\ channel' = <<>> /\ job' = Idle /\ db' = dbdisk
      /\ UNCHANGED <<dbdisk, refused, lagged>>
  BY DEF Restart, StartBlock, disks
<1>2. WellFormed(dbdisk) /\ lagged \in BOOLEAN
      /\ latest(dbdisk) \in Blocks \cup {Genesis} /\ Height[latest(dbdisk)] \in Nat
  BY LatestIsTop DEF StorageInv, TypeInv
<1>3. announcements' \in Seq(Notices) /\ channel' \in Seq(Notices)
  BY <1>1
<1>4. TypeInv'
  BY <1>1, <1>2, <1>3 DEF TypeInv, WellFormed, Stored
<1>5. job'.step = "idle" /\ Current' = <<>> /\ Work' = <<>> /\ Waiting' = {}
  BY <1>1 DEF Idle, Current, Work, Waiting, ToSet
<1>6. Sound(db)' /\ Sound(dbdisk)' /\ RefusedOnlyIfLagging'
  BY <1>1 DEF StorageInv, Sound, Above, Known, RefusedOnlyIfLagging
<1>7. JobInv' /\ RecordInv'
  BY <1>1, <1>5 DEF JobInv, Pruning, RecordInv, Idle
<1>8. QueueInv'
  BY <1>1, <1>2, <1>5 DEF QueueInv, Linked, Sorted
<1> QED
  BY <1>4, <1>6, <1>7, <1>8 DEF StorageInv

(* The background task takes the next block out of the channel.            *)
LEMMA StepReceive == StorageInv /\ Receive => StorageInv'
<1> SUFFICES ASSUME StorageInv, Receive PROVE StorageInv'
  OBVIOUS
<1>1. /\ job = Idle /\ channel # <<>> /\ channel' = Tail(channel)
      /\ job' = [Idle EXCEPT !.step = "raw", !.event = Head(channel)]
      /\ UNCHANGED <<finalized, secured, announcements, db, dbdisk, refused, lagged>>
  BY DEF Receive, finalityvars, disks
<1>2. channel \in Seq(Notices) /\ announcements \in Seq(Notices)
  BY DEF StorageInv, TypeInv
<1>3. Head(channel) \in Notices /\ Tail(channel) \in Seq(Notices)
  BY <1>1, <1>2
<1>4. TypeInv'
  BY <1>1, <1>3 DEF StorageInv, TypeInv, WellFormed, Stored, Jobs, Steps, Idle
<1>5. Work' = Work
  <2>1. Current = <<>> /\ Current' = <<Head(channel)>>
    BY <1>1 DEF Current, Idle
  <2>2. <<Head(channel)>> \o (Tail(channel) \o announcements) = channel \o announcements
    BY <1>1, <1>2, HeadLeaves
  <2>3. <<>> \o (channel \o announcements) = channel \o announcements
    BY <1>2
  <2> QED
    BY <2>1, <2>2, <2>3, <1>1 DEF Work
<1>6. Waiting' = Waiting
  BY <1>5 DEF Waiting
<1>7. Sound(db)' /\ Sound(dbdisk)' /\ RefusedOnlyIfLagging'
  BY <1>1 DEF StorageInv, Sound, Above, Known, RefusedOnlyIfLagging
<1>8. JobInv'
  <2>1. job'.step = "raw" /\ job'.pruned = None
    BY <1>1 DEF Idle
  <2> QED
    BY <2>1 DEF JobInv, Pruning
<1>9. QueueInv'
  <2>1. Sorted(Work)' /\ (Lost' <=> Lost) /\ (Linked' <=> Linked)
    BY <1>1, <1>5, <1>6 DEF StorageInv, QueueInv, Sorted, Lost, Linked
  <2> QED
    BY <2>1, <1>1, <1>6 DEF StorageInv, QueueInv
<1>10. RecordInv'
  <2>1. \A b : Recorded(b) => Recorded(b)'
    BY <1>1, <1>6 DEF Recorded, Pruning, Above, Known, Idle
  <2> QED
    BY <2>1, <1>1, <1>6 DEF StorageInv, RecordInv
<1> QED
  BY <1>4, <1>7, <1>8, <1>9, <1>10 DEF StorageInv

-----------------------------------------------------------------------------
(***************************************************************************)
(* The block store.                                                        *)
(***************************************************************************)
LEMMA StoreChanges ==
    ASSUME WellFormed(db), NEW t \in {"confirmed", "finalized", "outputs"},
           NEW h \in Heights, NEW b, Store(t, h, b)
    PROVE  /\ DOMAIN db' = DOMAIN db
           /\ db'[t] = [db[t] EXCEPT ![h] = b]
           /\ db'[t][h] = b
           /\ \A g \in Heights : g # h => db'[t][g] = db[t][g]
           /\ \A u \in DOMAIN db : u # t => db'[u] = db[u]
  BY DEF Store, WellFormed

(* The block at hand leaves the queue.                                     *)
LEMMA DropFirst ==
    ASSUME TypeInv, Sorted(Work), job.step \in {"raw", "insert"},
           job'.step \notin {"raw", "insert"}, UNCHANGED <<channel, announcements>>
    PROVE  /\ job.event \in Notices /\ Block \in Blocks
           /\ Waiting = {job.event} \cup Waiting' /\ Waiting' \subseteq Notices
           /\ Sorted(Work)'
           /\ IsFinalized => \A f \in Waiting' : Height[Block] < Height[f.block]
<1> DEFINE q == channel \o announcements
<1>1. /\ job.event \in Notices /\ Waiting = {job.event} \cup ToSet(q)
      /\ IsFinalized => \A f \in ToSet(q) : Height[Block] < Height[f.block]
      /\ Sorted(<<>> \o q)
  BY FirstOfWork
<1>2. q \in Seq(Notices)
  BY WorkIsSeq
<1>3. Work' = <<>> \o q
  BY DEF Work, Current
<1> HIDE DEF q
<1>4. <<>> \o q = q
  BY <1>2
<1>5. Waiting' = ToSet(q)
  BY <1>3, <1>4 DEF Waiting
<1>6. ToSet(q) \subseteq Notices
  BY <1>2 DEF ToSet
<1>7. Block \in Blocks
  BY <1>1, NoticeFacts DEF Block
<1> QED
  BY <1>1, <1>3, <1>5, <1>6, <1>7 DEF Sorted

(* The queue and the records when confirmed blocks or hashes are stored:   *)
(* the latest block stays and no record is lost.                           *)
LEMMA ConfirmedLeaves ==
    ASSUME StorageInv, Sorted(Work)', latest(db)' = latest(db),
           Waiting' \subseteq Waiting,
           \A e \in Waiting \ Waiting' : e.kind = "confirmed",
           UNCHANGED <<finalized, lagged>>
    PROVE  QueueInv'
<1>1. Lost => Lost'
  BY DEF Lost
<1>2. Linked => Linked'
  BY DEF Linked, Announcement
<1> QED
  BY <1>1, <1>2 DEF StorageInv, QueueInv

(* store_raw_block of a confirmed block.                                   *)
LEMMA StepStoreConfirmed == StorageInv /\ StoreConfirmed => StorageInv' /\ Growing
<1> SUFFICES ASSUME StorageInv, StoreConfirmed PROVE StorageInv' /\ Growing
  OBVIOUS
<1> DEFINE b == Block
           h == Height[b]
<1>1. /\ job.step = "raw" /\ ~IsFinalized
      /\ Store("confirmed", h, b)
      /\ job' = [job EXCEPT !.step = AfterRaw]
      /\ UNCHANGED <<finalized, secured, announcements, channel, dbdisk, refused, lagged>>
  BY DEF StoreConfirmed, Continue, finalityvars, disks
<1>2. /\ TypeInv /\ WellFormed(db) /\ job \in Jobs
      /\ AfterRaw \in {"details", "confirmed"}
  BY <1>1 DEF StorageInv, TypeInv, Jobs, Idle, AfterRaw
<1>3. /\ job'.step = AfterRaw /\ job'.event = job.event /\ job' \in Jobs
      /\ Block' = b
  BY <1>1, <1>2 DEF Jobs, Steps, Pruning, Block
<1>4. /\ job.event \in Notices /\ b \in Blocks
      /\ Waiting = {job.event} \cup Waiting' /\ Waiting' \subseteq Notices
      /\ Sorted(Work)'
  BY <1>1, <1>2, <1>3, DropFirst DEF StorageInv, QueueInv
<1>5. /\ b = job.event.block /\ job.event.kind = "confirmed"
      /\ job.event = Announcement("confirmed", b)
  BY <1>1, <1>4, NoticeFacts DEF Block, IsFinalized
<1>6. h \in Heights /\ h \in Nat
  BY <1>4, HeightsOfBlocks
<1> HIDE DEF b, h
<1>7. /\ DOMAIN db' = DOMAIN db
      /\ db'.confirmed = [db.confirmed EXCEPT ![h] = b]
      /\ db'.confirmed[h] = b
      /\ \A g \in Heights : g # h => db'.confirmed[g] = db.confirmed[g]
      /\ db'.finalized = db.finalized /\ db'.outputs = db.outputs /\ db'.hashes = db.hashes
  <2>1. DOMAIN db = {"confirmed", "finalized", "outputs", "hashes"}
    BY <1>2 DEF WellFormed
  <2> QED
    BY <2>1, <1>1, <1>2, <1>6, StoreChanges
<1>8. WellFormed(db')
  <2>1. db'.confirmed \in [Heights -> Blocks \cup {None}]
    BY <1>2, <1>4, <1>6, <1>7 DEF WellFormed
  <2>2. \A g \in Heights : db'.confirmed[g] # None => Height[db'.confirmed[g]] = g
    BY <1>2, <1>7 DEF WellFormed, h
  <2>3. Stored(db') = Stored(db)
    BY <1>7 DEF Stored
  <2> QED
    BY <2>1, <2>2, <2>3, <1>2, <1>7 DEF WellFormed
<1>9. TypeInv'
  BY <1>1, <1>2, <1>3, <1>8 DEF TypeInv, WellFormed, Stored
<1>10. latest(db') = latest(db)
  BY <1>7, LatestKept
<1>11. \A n : Above(db, n) => Above(db', n)
  <2> SUFFICES ASSUME NEW n, NEW c \in Known(db), n < Height[c] - HistoryLen
               PROVE  Above(db', n)
    BY DEF Above
  <2>1. b \in Known(db')
    BY <1>4, <1>6, <1>7 DEF Known
  <2>2. CASE c \in Known(db')
    BY <2>2 DEF Above
  <2>3. CASE c \notin Known(db')
    <3>1. c \in Blocks /\ c = db.confirmed[h]
      BY <2>3, <1>7 DEF Known
    <3>2. Height[c] = Height[b]
      BY <3>1, <1>2, <1>6, HeightsOfBlocks DEF WellFormed, None, h
    <3> QED
      BY <3>2, <2>1 DEF Above
  <2> QED
    BY <2>2, <2>3
<1>12. Height[latest(db)] < h /\ (lagged \/ h <= Height[latest(db)] + HistoryLen)
  BY <1>4, <1>5 DEF StorageInv, QueueInv, h
<1>13. Sound(db')
  BY <1>7, <1>10, <1>11, <1>12 DEF StorageInv, Sound
<1>14. JobInv'
  <2>1. job'.step # "insert"
    BY <1>2, <1>3
  <2>2. Height[Block]' = h
    BY <1>3 DEF h
  <2>3. job'.pruned = None
    <3>1. job'.pruned = job.pruned
      BY <1>1, <1>2 DEF Jobs
    <3> QED
      BY <3>1, <1>1 DEF StorageInv, JobInv, Pruning
  <2> QED
    BY <2>1, <2>2, <2>3, <1>1, <1>3, <1>7, <1>10, <1>12 DEF JobInv, Pruning
<1>15. QueueInv'
  BY <1>1, <1>4, <1>5, <1>10, ConfirmedLeaves
<1>16. RecordInv'
  <2>1. ASSUME NEW x, Recorded(x) PROVE Recorded(x)'
    <3>1. CASE Announcement("confirmed", x) = job.event
      BY <3>1, <1>2, <1>3, <1>4, <1>5, NoticeFacts DEF Recorded, Pruning
    <3>2. CASE Announcement("confirmed", x) # job.event
      BY <3>2, <2>1, <1>1, <1>4, <1>7, <1>11 DEF Recorded, Pruning
    <3> QED
      BY <3>1, <3>2
  <2> QED
    BY <2>1, <1>1, <1>4 DEF StorageInv, RecordInv
<1>17. Sound(dbdisk)' /\ RefusedOnlyIfLagging'
  BY <1>1 DEF StorageInv, Sound, Above, Known, RefusedOnlyIfLagging
<1> QED
  BY <1>9, <1>11, <1>13, <1>14, <1>15, <1>16, <1>17 DEF StorageInv, Growing

(* The block that store_raw_block takes out of the confirmed tree was      *)
(* announced as confirmed before, so that its hash is stored, unless it    *)
(* was pruned since.                                                       *)
LEMMA FinalizedIsRecorded ==
    ASSUME StorageInv, job.step \in {"raw", "insert"}, IsFinalized
    PROVE  Block \in db.hashes \/ Above(db, Height[Block])
<1>1. /\ job.event \in Notices
      /\ Waiting = {job.event} \cup ToSet(channel \o announcements)
      /\ \A f \in ToSet(channel \o announcements) : Height[Block] < Height[f.block]
  BY FirstOfWork DEF StorageInv, QueueInv
<1>2. Block \in Blocks /\ Height[Block] \in Nat /\ job.event.block = Block
      /\ job.event.kind = "finalized"
  BY <1>1, NoticeFacts DEF Block, IsFinalized
<1>3. Announcement("confirmed", Block) \notin Waiting
  BY <1>1, <1>2 DEF Announcement
<1>4. Recorded(Block)
  BY <1>1, <1>2 DEF StorageInv, RecordInv
<1> QED
  BY <1>3, <1>4 DEF Recorded, Pruning

(* store_raw_block of a finalized block: it leaves the confirmed tree.     *)
LEMMA StepBeginStore == StorageInv /\ BeginStoreFinalized => StorageInv' /\ Growing
<1> SUFFICES ASSUME StorageInv, BeginStoreFinalized PROVE StorageInv' /\ Growing
  OBVIOUS
<1> DEFINE b == Block
           h == Height[b]
<1>1. /\ job.step = "raw" /\ IsFinalized
      /\ h = Height[latest(db)] + 1
      /\ Store("confirmed", h, None)
      /\ job' = [job EXCEPT !.step = "insert"]
      /\ UNCHANGED <<finalized, secured, announcements, channel, dbdisk, refused, lagged>>
  BY DEF BeginStoreFinalized, RemoveConfirmed, Continue, finalityvars, disks
<1>2. /\ TypeInv /\ WellFormed(db) /\ job \in Jobs
      /\ b \in Blocks
  BY <1>1, NoticeFacts DEF StorageInv, TypeInv, Jobs, Idle, Block
<1>3. /\ job'.step = "insert" /\ job'.event = job.event
      /\ job' \in Jobs
      /\ Block' = b /\ IsFinalized' /\ Work' = Work
  BY <1>1, <1>2 DEF Jobs, Steps, Pruning, Block, IsFinalized, Work, Current
<1>4. h \in Heights /\ h \in Nat
  BY <1>2, HeightsOfBlocks
<1>5. b \in db.hashes \/ Above(db, h)
  BY <1>1, FinalizedIsRecorded
<1> HIDE DEF b, h
<1>6. /\ DOMAIN db' = DOMAIN db
      /\ db'.confirmed = [db.confirmed EXCEPT ![h] = None]
      /\ db'.confirmed[h] = None
      /\ \A g \in Heights : g # h => db'.confirmed[g] = db.confirmed[g]
      /\ db'.finalized = db.finalized /\ db'.outputs = db.outputs /\ db'.hashes = db.hashes
  <2>1. DOMAIN db = {"confirmed", "finalized", "outputs", "hashes"}
    BY <1>2 DEF WellFormed
  <2> QED
    BY <2>1, <1>1, <1>2, <1>4, StoreChanges
<1>7. WellFormed(db')
  <2>1. db'.confirmed \in [Heights -> Blocks \cup {None}]
    BY <1>2, <1>4, <1>6 DEF WellFormed
  <2>2. \A g \in Heights : db'.confirmed[g] # None => Height[db'.confirmed[g]] = g
    BY <1>2, <1>6 DEF WellFormed
  <2>3. Stored(db') = Stored(db)
    BY <1>6 DEF Stored
  <2> QED
    BY <2>1, <2>2, <2>3, <1>2, <1>6 DEF WellFormed
<1>8. TypeInv'
  BY <1>1, <1>2, <1>3, <1>7 DEF TypeInv, WellFormed, Stored
<1>9. latest(db') = latest(db)
  BY <1>6, LatestKept
<1>10. \A c \in Known(db) : c \in Known(db') \/ Height[c] = h
  <2> SUFFICES ASSUME NEW c \in Known(db), c \notin Known(db') PROVE Height[c] = h
    OBVIOUS
  <2>1. c \in Blocks /\ c = db.confirmed[h]
    BY <1>6 DEF Known
  <2> QED
    BY <2>1, <1>2, <1>4, HeightsOfBlocks DEF WellFormed, None
<1>11. \A n \in Nat : Above(db, n) => Above(db', n)
  <2> SUFFICES ASSUME NEW n \in Nat, NEW c \in Known(db), n < Height[c] - HistoryLen
               PROVE  Above(db', n)
    BY DEF Above
  <2>1. CASE c \in Known(db')
    BY <2>1 DEF Above
  <2>2. CASE Height[c] = h /\ b \in db.hashes
    <3>1. b \in Known(db')
      BY <2>2, <1>2, <1>6 DEF Known
    <3> QED
      BY <3>1, <2>2 DEF Above, h
  <2>3. CASE Height[c] = h /\ Above(db, h)
    <3>1. PICK x \in Known(db) : h < Height[x] - HistoryLen
      BY <2>3 DEF Above
    <3>2. Height[x] \in Nat /\ HistoryLen \in Nat
      BY HeightsOfBlocks DEF Known
    <3>3. x \in Known(db') /\ n < Height[x] - HistoryLen
      BY <3>1, <3>2, <2>3, <1>4, <1>10
    <3> QED
      BY <3>3 DEF Above
  <2> QED
    BY <2>1, <2>2, <2>3, <1>5, <1>10
<1>12. Sound(db')
  <2>1. ASSUME latest(db) # Genesis, NEW x \in {latest(db)} \cup Ancestors[latest(db)]
        PROVE  x = Genesis \/ db.finalized[Height[x]] = x \/ Above(db', Height[x])
    <3>1. latest(db) \in Blocks
      BY <2>1, <1>2, LatestIsTop
    <3>2. Height[x] \in Nat
      BY <3>1, AncestorsAreLower, HeightsOfBlocks
    <3> QED
      BY <3>2, <2>1, <1>11 DEF StorageInv, Sound
  <2> QED
    BY <2>1, <1>6, <1>9 DEF StorageInv, Sound
<1>13. JobInv'
  <2>1. Height[Block]' = h
    BY <1>3 DEF h
  <2>2. job'.pruned = None
    <3>1. job'.pruned = job.pruned
      BY <1>1, <1>2 DEF Jobs
    <3> QED
      BY <3>1, <1>1 DEF StorageInv, JobInv, Pruning
  <2> QED
    BY <2>1, <2>2, <1>1, <1>3, <1>6, <1>9 DEF JobInv, Pruning
<1>14. Waiting' = Waiting
  BY <1>3 DEF Waiting
<1>15. QueueInv'
  BY <1>1, <1>3, <1>9, <1>14, ConfirmedLeaves DEF StorageInv, QueueInv, Sorted
<1>16. RecordInv'
  <2>1. ASSUME NEW x \in Blocks, Recorded(x) PROVE Recorded(x)'
    BY <2>1, <1>1, <1>6, <1>11, <1>14, HeightsOfBlocks DEF Recorded, Pruning
  <2>2. \A e \in Waiting : e.block \in Blocks
    BY <1>2, WorkIsSeq, NoticeFacts
  <2> QED
    BY <2>1, <2>2, <1>1, <1>14 DEF StorageInv, RecordInv, TypeInv
<1>17. Sound(dbdisk)' /\ RefusedOnlyIfLagging'
  BY <1>1 DEF StorageInv, Sound, Above, Known, RefusedOnlyIfLagging
<1> QED
  BY <1>8, <1>11, <1>12, <1>13, <1>15, <1>16, <1>17 DEF StorageInv, Growing

(* The first finalized block of the queue continues the chain in the store *)
(* if its height does, and always while the store has not lost its chain.  *)
LEMMA FirstContinues ==
    ASSUME StorageInv, job.step \in {"raw", "insert"}, IsFinalized
    PROVE  /\ Linked => Parent[Block] = latest(db) /\ Height[Block] = Height[latest(db)] + 1
           /\ Height[Block] = Height[latest(db)] + 1 => Linked
<1>1. /\ job.event \in Notices
      /\ Waiting = {job.event} \cup ToSet(channel \o announcements)
      /\ \A f \in ToSet(channel \o announcements) : Height[Block] < Height[f.block]
  BY FirstOfWork DEF StorageInv, QueueInv
<1>2. Block \in Blocks /\ Height[Block] \in Nat /\ job.event.block = Block
      /\ job.event.kind = "finalized" /\ job.event \in Waiting
  BY <1>1, NoticeFacts DEF Block, IsFinalized
<1>3. Height[Block] = Height[Parent[Block]] + 1 /\ Height[Parent[Block]] \in Nat
  BY <1>2, HeightsOfBlocks
<1>4. Announcement("finalized", Parent[Block]) \notin Waiting
  <2>1. ASSUME NEW e \in Waiting PROVE e.block # Parent[Block]
    <3>1. CASE e = job.event
      BY <3>1, <1>2, <1>3
    <3>2. CASE e \in ToSet(channel \o announcements)
      BY <3>2, <1>1, <1>3
    <3> QED
      BY <3>1, <3>2, <1>1
  <2>2. Announcement("finalized", Parent[Block]).block = Parent[Block]
    BY DEF Announcement
  <2> QED
    BY <2>1, <2>2
<1>5. Linked => Parent[Block] = latest(db)
  BY <1>2, <1>4 DEF Linked
<1>6. Lost => Height[Block] # Height[latest(db)] + 1
  BY <1>2, HeightsOfBlocks DEF Lost
<1> QED
  BY <1>3, <1>5, <1>6 DEF StorageInv, QueueInv

(* store_raw_block refuses a block only after the store lost its chain.    *)
LEMMA StepRefuse == StorageInv /\ RefuseFinalized => StorageInv'
<1> SUFFICES ASSUME StorageInv, RefuseFinalized PROVE StorageInv'
  OBVIOUS
<1>1. /\ job.step = "raw" /\ IsFinalized
      /\ Height[Block] # Height[latest(db)] + 1
      /\ job' = Idle
      /\ UNCHANGED <<finalized, secured, announcements, channel, db, dbdisk, lagged>>
  BY DEF RefuseFinalized, finalityvars, disks
<1>2. Lost
  BY <1>1, FirstContinues DEF StorageInv, QueueInv
<1>3. TypeInv'
  BY <1>1 DEF StorageInv, TypeInv, WellFormed, Stored
<1>4. job'.step = "idle"
  BY <1>1 DEF Idle
<1>5. /\ Waiting = {job.event} \cup Waiting' /\ Sorted(Work)' /\ job.event.kind = "finalized"
  BY <1>1, <1>4, DropFirst DEF StorageInv, QueueInv, IsFinalized
<1>6. QueueInv'
  BY <1>1, <1>2, <1>5 DEF StorageInv, QueueInv, Lost
<1>7. RecordInv'
  <2>1. ASSUME NEW x, Recorded(x) PROVE Recorded(x)'
    BY <2>1, <1>1, <1>5 DEF Recorded, Pruning, Above, Known, Announcement
  <2> QED
    BY <2>1, <1>1, <1>5 DEF StorageInv, RecordInv
<1>8. Sound(db)' /\ Sound(dbdisk)'
  BY <1>1 DEF StorageInv, Sound, Above, Known
<1>9. JobInv' /\ RefusedOnlyIfLagging'
  BY <1>1, <1>2, <1>4 DEF JobInv, Pruning, RefusedOnlyIfLagging, Lost, Idle
<1> QED
  BY <1>3, <1>6, <1>7, <1>8, <1>9 DEF StorageInv

(* ... and enters the finalized tree, where it is the latest block.        *)
LEMMA StepEndStore == StorageInv /\ EndStoreFinalized => StorageInv' /\ Growing
<1> SUFFICES ASSUME StorageInv, EndStoreFinalized PROVE StorageInv' /\ Growing
  OBVIOUS
<1> DEFINE b == Block
           h == Height[b]
<1>1. /\ job.step = "insert"
      /\ Store("finalized", h, b)
      /\ job' = [job EXCEPT !.step = AfterRaw]
      /\ UNCHANGED <<finalized, secured, announcements, channel, dbdisk, refused, lagged>>
  BY DEF EndStoreFinalized, Continue, finalityvars, disks
<1>2. /\ IsFinalized /\ h = Height[latest(db)] + 1 /\ db.confirmed[h] = None
      /\ TypeInv /\ WellFormed(db) /\ job \in Jobs
      /\ AfterRaw \in {"details", "confirmed"}
  BY <1>1 DEF StorageInv, TypeInv, Jobs, Idle, AfterRaw, JobInv
<1>3. /\ job'.step = AfterRaw /\ job'.event = job.event
      /\ job' \in Jobs
      /\ Block' = b
  BY <1>1, <1>2 DEF Jobs, Steps, Pruning, Block
<1>4. Linked /\ Parent[b] = latest(db)
  BY <1>1, <1>2, FirstContinues
<1>5. /\ job.event \in Notices /\ b \in Blocks
      /\ Waiting = {job.event} \cup Waiting' /\ Waiting' \subseteq Notices
      /\ Sorted(Work)'
      /\ \A f \in Waiting' : h < Height[f.block]
  BY <1>1, <1>2, <1>3, DropFirst DEF StorageInv, QueueInv
<1>6. job.event.block = b /\ job.event.kind = "finalized" /\ job.event \in Waiting
      /\ job.event = Announcement("finalized", b)
  BY <1>2, <1>5, NoticeFacts DEF Block, IsFinalized
<1>7. /\ h \in Heights /\ h \in Nat /\ Height[latest(db)] \in Nat
      /\ \A g \in Stored(db) : g <= Height[latest(db)]
  BY <1>2, <1>5, HeightsOfBlocks, LatestIsTop
<1> HIDE DEF b, h
<1>8. /\ DOMAIN db' = DOMAIN db
      /\ db'.finalized = [db.finalized EXCEPT ![h] = b]
      /\ db'.finalized[h] = b
      /\ \A g \in Heights : g # h => db'.finalized[g] = db.finalized[g]
      /\ db'.confirmed = db.confirmed /\ db'.outputs = db.outputs /\ db'.hashes = db.hashes
  <2>1. DOMAIN db = {"confirmed", "finalized", "outputs", "hashes"}
    BY <1>2 DEF WellFormed
  <2> QED
    BY <2>1, <1>1, <1>2, <1>7, StoreChanges
<1>9. h \notin Stored(db) /\ b # None
  BY <1>2, <1>5, <1>7, HeightsOfBlocks DEF None
<1>10. Stored(db') = Stored(db) \cup {h}
  BY <1>7, <1>8, <1>9 DEF Stored
<1>11. \A g \in Stored(db') : g <= h
  <2>1. \A g \in Stored(db) : g \in Nat
    BY HeightsOfBlocks DEF Stored
  <2> QED
    BY <2>1, <1>2, <1>7, <1>10
<1>12. WellFormed(db')
  <2>1. db'.finalized \in [Heights -> Blocks \cup {None}]
    BY <1>2, <1>5, <1>7, <1>8 DEF WellFormed
  <2>2. \A g \in Heights : db'.finalized[g] # None => Height[db'.finalized[g]] = g
    BY <1>2, <1>8 DEF WellFormed, h
  <2> QED
    BY <2>1, <2>2, <1>2, <1>8, <1>10, <1>11 DEF WellFormed
<1>13. TypeInv'
  BY <1>1, <1>2, <1>3, <1>12 DEF TypeInv, WellFormed, Stored
<1>14. latest(db') = b
  BY <1>5, <1>8, <1>11, <1>12, LatestIs DEF h
<1>15. \A n : Above(db, n) => Above(db', n)
  <2>1. ASSUME NEW c \in Known(db) PROVE c \in Known(db')
    <3>1. c \in Blocks /\ c # None
      BY HeightsOfBlocks DEF Known, None
    <3>2. CASE c \in db.hashes
      BY <3>1, <3>2, <1>8 DEF Known
    <3>3. CASE \E g \in Heights : c = db.confirmed[g]
      BY <3>1, <3>3, <1>8 DEF Known
    <3>4. CASE \E g \in Heights : c = db.finalized[g]
      <4>1. PICK g \in Heights : c = db.finalized[g]
        BY <3>4
      <4>2. g # h
        BY <4>1, <3>1, <1>9 DEF Stored
      <4>3. db'.finalized[g] = c
        BY <4>1, <4>2, <1>8
      <4> QED
        BY <4>3, <3>1 DEF Known
    <3> QED
      BY <3>2, <3>3, <3>4 DEF Known
  <2> QED
    BY <2>1 DEF Above
<1>16. Sound(db')
  <2>1. ASSUME NEW g \in Heights, db'.confirmed[g] # None PROVE g > h
    <3>1. g > Height[latest(db)] /\ g # h
      BY <2>1, <1>2, <1>8 DEF StorageInv, Sound
    <3> QED
      BY <3>1, <1>2, <1>7, HeightsOfBlocks
  <2>2. ASSUME NEW x \in {b} \cup Ancestors[b]
        PROVE  x = Genesis \/ db'.finalized[Height[x]] = x \/ Above(db', Height[x])
    <3>1. CASE x = b
      BY <3>1, <1>8 DEF h
    <3>2. CASE x \in Ancestors[b] /\ x # Genesis
      <4>1. x \in Blocks /\ Height[x] < h /\ Height[x] \in Heights
        BY <3>2, <1>5, AncestorsAreLower, HeightsOfBlocks DEF h
      <4>2. x \in {latest(db)} \cup (IF latest(db) \in Blocks THEN Ancestors[latest(db)] ELSE {})
        BY <3>2, <1>4, <1>5, StorageAssumption
      <4>3. latest(db) # Genesis
        BY <4>1, <4>2, HeightsOfBlocks
      <4>4. db.finalized[Height[x]] = x \/ Above(db, Height[x])
        BY <4>2, <4>3, <3>2 DEF StorageInv, Sound
      <4>5. Height[x] # h
        BY <4>1, <1>7, HeightsOfBlocks
      <4> QED
        BY <4>1, <4>4, <4>5, <1>8, <1>15
    <3> QED
      BY <3>1, <3>2, <2>2
  <2> QED
    BY <2>1, <2>2, <1>14 DEF Sound, h
<1>17. JobInv'
  <2>1. job'.step # "insert" /\ Height[Block]' = h /\ latest(db)' = b
    BY <1>2, <1>3, <1>14 DEF h
  <2>2. h <= h + HistoryLen
    BY <1>7, HeightsOfBlocks
  <2>3. job'.pruned = None
    <3>1. job'.pruned = job.pruned
      BY <1>1, <1>2 DEF Jobs
    <3> QED
      BY <3>1, <1>1 DEF StorageInv, JobInv, Pruning
  <2> QED
    BY <2>1, <2>2, <2>3, <1>3, <1>8 DEF JobInv, Pruning, h
<1>18. Linked'
  <2>1. ASSUME NEW e \in Waiting', e.kind = "finalized"
        PROVE  Parent[e.block] = b \/ Announcement("finalized", Parent[e.block]) \in Waiting'
    <3>1. /\ e \in Waiting /\ e.block \in Blocks /\ h < Height[e.block]
          /\ Height[e.block] = Height[Parent[e.block]] + 1 /\ Height[e.block] \in Nat
      BY <1>5, NoticeFacts, HeightsOfBlocks
    <3>2. Parent[e.block] # latest(db)
      BY <3>1, <1>2, <1>7
    <3>3. Announcement("finalized", Parent[e.block]) \in Waiting
      BY <2>1, <3>1, <3>2, <1>4 DEF Linked
    <3>4. CASE Announcement("finalized", Parent[e.block]) = job.event
      BY <3>4, <1>5, <1>6, NoticeFacts
    <3>5. CASE Announcement("finalized", Parent[e.block]) # job.event
      BY <3>3, <3>5, <1>5
    <3> QED
      BY <3>4, <3>5
  <2>2. finalized = b \/ Announcement("finalized", finalized) \in Waiting'
    <3>1. finalized # latest(db)
      <4>1. h <= Height[finalized]
        BY <1>6 DEF StorageInv, QueueInv, h
      <4> QED
        BY <4>1, <1>2, <1>7
    <3>2. Announcement("finalized", finalized) \in Waiting
      BY <3>1, <1>4 DEF Linked
    <3>3. Announcement("finalized", finalized) = job.event => finalized = b
      BY <1>5, <1>6, NoticeFacts
    <3> QED
      BY <3>2, <3>3, <1>5
  <2> QED
    BY <2>1, <2>2, <1>1, <1>14 DEF Linked
<1>19. QueueInv'
  <2>1. h <= Height[finalized]
    BY <1>6 DEF StorageInv, QueueInv, h
  <2>2. ASSUME NEW e \in Waiting'
        PROVE  /\ e.kind = "finalized" => Height[e.block] <= Height[finalized]
               /\ e.kind = "confirmed" => lagged \/ Height[e.block] <= h + HistoryLen
    <3>1. e \in Waiting /\ Height[e.block] \in Nat
      BY <1>5, NoticeFacts
    <3>2. e.kind = "confirmed" => lagged \/ Height[e.block] <= Height[latest(db)] + HistoryLen
      BY <3>1 DEF StorageInv, QueueInv
    <3> QED
      BY <3>1, <3>2, <1>2, <1>7, HeightsOfBlocks DEF StorageInv, QueueInv
  <2> QED
    BY <2>1, <2>2, <1>1, <1>5, <1>14, <1>18 DEF QueueInv, h
<1>20. RecordInv'
  <2>1. ASSUME NEW x, Recorded(x) PROVE Recorded(x)'
    <3>1. Announcement("confirmed", x) # job.event
      BY <1>6 DEF Announcement
    <3> QED
      BY <2>1, <3>1, <1>1, <1>5, <1>8, <1>15 DEF Recorded, Pruning
  <2> QED
    BY <2>1, <1>1, <1>5 DEF StorageInv, RecordInv
<1>21. Sound(dbdisk)' /\ RefusedOnlyIfLagging'
  BY <1>1 DEF StorageInv, Sound, Above, Known, RefusedOnlyIfLagging
<1> QED
  BY <1>13, <1>15, <1>16, <1>17, <1>19, <1>20, <1>21 DEF StorageInv, Growing

(* store_outputs changes nothing that the other steps look at.             *)
LEMMA StepOutputs == StorageInv /\ StoreOutputs => StorageInv' /\ Growing
<1> SUFFICES ASSUME StorageInv, StoreOutputs PROVE StorageInv' /\ Growing
  OBVIOUS
<1> DEFINE h == Height[Block]
<1>1. /\ job.step = "details"
      /\ Store("outputs", h, Block) \/ UNCHANGED db
      /\ job' = [job EXCEPT !.step = "outputs"]
      /\ UNCHANGED <<finalized, secured, announcements, channel, dbdisk, refused, lagged>>
  BY DEF StoreOutputs, Continue, finalityvars, disks
<1>2. /\ TypeInv /\ WellFormed(db) /\ job \in Jobs
      /\ Block \in Blocks
  BY <1>1, NoticeFacts DEF StorageInv, TypeInv, Jobs, Idle, Block
<1>3. /\ job'.step = "outputs" /\ job'.event = job.event
      /\ job' \in Jobs
      /\ Block' = Block /\ Work' = Work
  BY <1>1, <1>2 DEF Jobs, Steps, Pruning, Block, Work, Current
<1>4. h \in Heights
  BY <1>2, HeightsOfBlocks
<1>5. /\ DOMAIN db' = DOMAIN db
      /\ db'.outputs \in [Heights -> Blocks \cup {None}]
      /\ db'.confirmed = db.confirmed /\ db'.finalized = db.finalized /\ db'.hashes = db.hashes
  <2>1. DOMAIN db = {"confirmed", "finalized", "outputs", "hashes"}
        /\ db.outputs \in [Heights -> Blocks \cup {None}]
    BY <1>2 DEF WellFormed
  <2>2. CASE UNCHANGED db
    BY <2>1, <2>2
  <2>3. CASE Store("outputs", h, Block)
    <3> DEFINE b == Block
    <3>1. b \in Blocks
      BY <1>2
    <3> HIDE DEF h, b
    <3>2. /\ DOMAIN db' = DOMAIN db
          /\ db'["outputs"] = [db["outputs"] EXCEPT ![h] = b]
          /\ \A u \in DOMAIN db : u # "outputs" => db'[u] = db[u]
      <4>1. Store("outputs", h, b)
        BY <2>3 DEF b
      <4> QED
        BY <4>1, <1>2, <1>4, StoreChanges
    <3>3. db'.outputs \in [Heights -> Blocks \cup {None}]
      BY <2>1, <3>1, <3>2
    <3> QED
      BY <2>1, <3>2, <3>3
  <2> QED
    BY <2>2, <2>3, <1>1
<1>6. Stored(db') = Stored(db) /\ Known(db') = Known(db) /\ latest(db') = latest(db)
  BY <1>5, LatestKept DEF Stored, Known
<1>7. WellFormed(db')
  BY <1>2, <1>5, <1>6 DEF WellFormed
<1>8. TypeInv'
  BY <1>1, <1>2, <1>3, <1>7 DEF TypeInv, WellFormed, Stored
<1>9. Waiting' = Waiting
  BY <1>3 DEF Waiting
<1>10. Sound(db')
  BY <1>5, <1>6 DEF StorageInv, Sound, Above
<1>11. JobInv'
  BY <1>1, <1>3, <1>5, <1>6 DEF StorageInv, JobInv, Pruning
<1>12. QueueInv'
  BY <1>1, <1>3, <1>6, <1>9, ConfirmedLeaves DEF StorageInv, QueueInv, Sorted
<1>13. RecordInv'
  <2>1. \A x : Recorded(x) => Recorded(x)'
    BY <1>1, <1>3, <1>5, <1>6, <1>9 DEF Recorded, Pruning, Above
  <2> QED
    BY <2>1, <1>1, <1>9 DEF StorageInv, RecordInv
<1>14. Sound(dbdisk)' /\ RefusedOnlyIfLagging'
  BY <1>1 DEF StorageInv, Sound, Above, Known, RefusedOnlyIfLagging
<1>15. Growing
  BY <1>6 DEF Growing, Above
<1> QED
  BY <1>8, <1>10, <1>11, <1>12, <1>13, <1>14, <1>15 DEF StorageInv

(* The hash of the block at hand is stored.                                *)
LEMMA StepHash == StorageInv /\ StoreHash => StorageInv' /\ Growing
<1> SUFFICES ASSUME StorageInv, StoreHash PROVE StorageInv' /\ Growing
  OBVIOUS
<1>1. /\ job.step = "hash"
      /\ db' = [db EXCEPT !.hashes = db.hashes \cup {Block}]
      /\ job' = Idle
      /\ UNCHANGED <<finalized, secured, announcements, channel, dbdisk, refused, lagged>>
  BY DEF StoreHash, AddHash, finalityvars, disks
<1>2. TypeInv /\ WellFormed(db) /\ Block \in Blocks
  BY <1>1, NoticeFacts DEF StorageInv, TypeInv, Jobs, Idle, Block
<1>3. job'.step = "idle" /\ Work' = Work
  BY <1>1 DEF Idle, Work, Current
<1>4. /\ DOMAIN db' = DOMAIN db
      /\ db'.hashes = db.hashes \cup {Block}
      /\ db'.confirmed = db.confirmed /\ db'.finalized = db.finalized /\ db'.outputs = db.outputs
  BY <1>1, <1>2 DEF WellFormed
<1>5. Stored(db') = Stored(db) /\ Known(db) \subseteq Known(db') /\ latest(db') = latest(db)
  BY <1>4, LatestKept DEF Stored, Known
<1>6. WellFormed(db')
  BY <1>2, <1>4, <1>5 DEF WellFormed
<1>7. TypeInv'
  BY <1>1, <1>2, <1>6 DEF TypeInv, WellFormed, Stored
<1>8. Waiting' = Waiting
  BY <1>3 DEF Waiting
<1>9. \A n : Above(db, n) => Above(db', n)
  BY <1>5 DEF Above
<1>10. Sound(db')
  BY <1>4, <1>5, <1>9 DEF StorageInv, Sound
<1>11. JobInv'
  BY <1>1, <1>3 DEF JobInv, Pruning, Idle
<1>12. QueueInv'
  BY <1>1, <1>3, <1>5, <1>8, ConfirmedLeaves DEF StorageInv, QueueInv, Sorted
<1>13. RecordInv'
  <2>1. \A x : Recorded(x) => Recorded(x)'
    BY <1>4, <1>8, <1>9 DEF Recorded, Pruning
  <2> QED
    BY <2>1, <1>1, <1>8 DEF StorageInv, RecordInv
<1>14. Sound(dbdisk)' /\ RefusedOnlyIfLagging'
  BY <1>1 DEF StorageInv, Sound, Above, Known, RefusedOnlyIfLagging
<1> QED
  BY <1>7, <1>9, <1>10, <1>11, <1>12, <1>13, <1>14 DEF StorageInv, Growing

(* A step of prune_older_than takes away what is more than the history     *)
(* below the block at hand: an entry, the lowest one of its tree, or the   *)
(* hash that belonged to it.                                               *)
IsBelow(n) == n < Height[Block] - HistoryLen

Prunes ==
    /\ job.step \in Pruning /\ job'.step \in Pruning \cup {"hash"}
    /\ job' \in Jobs /\ job'.event = job.event
    /\ job'.pruned # None => /\ job'.step \in Pruning /\ job'.pruned \in Blocks
                             /\ IsBelow(Height[job'.pruned])
    /\ UNCHANGED <<finalized, secured, announcements, channel, dbdisk, refused, lagged>>
    /\ DOMAIN db' = {"confirmed", "finalized", "outputs", "hashes"}
    /\ \A t \in Pruning :
          /\ db'[t] \in [Heights -> Blocks \cup {None}]
          /\ \A g \in Heights : \/ db'[t][g] = db[t][g]
                                \/ db'[t][g] = None /\ IsBelow(g)
    /\ db'.hashes \subseteq db.hashes
    /\ \A c \in db.hashes \ db'.hashes : IsBelow(Height[c])
    /\ \A g, i \in Stored(db) : g < i /\ g \in Stored(db') => i \in Stored(db')
    /\ job'.step = "hash" => \A g \in Stored(db') : ~IsBelow(g)

LEMMA EntryPrunes ==
    ASSUME StorageInv, NEW t \in Pruning, PruneEntry(t)
    PROVE  Prunes
<1>1. PICK h \in OldHeights(t) :
           /\ \A i \in OldHeights(t) : h <= i
           /\ Store(t, h, None)
           /\ job' = [job EXCEPT !.pruned = IF t = "outputs" THEN None ELSE db[t][h]]
  BY DEF PruneEntry
<1>2. /\ job.step = t /\ job.pruned = None
      /\ UNCHANGED <<finalized, secured, announcements, channel, dbdisk, refused, lagged>>
  BY DEF PruneEntry, finalityvars, disks
<1>3. /\ WellFormed(db) /\ job \in Jobs /\ t \in {"outputs", "confirmed", "finalized"}
  BY <1>2 DEF StorageInv, TypeInv, Jobs, Idle, Pruning
<1>4. /\ h \in Heights /\ IsBelow(h) /\ db[t][h] # None
      /\ \A i \in Heights : IsBelow(i) /\ db[t][i] # None => h <= i
  BY <1>1 DEF OldHeights, IsOld, IsBelow
<1>5. /\ DOMAIN db = {"confirmed", "finalized", "outputs", "hashes"}
      /\ db[t] \in [Heights -> Blocks \cup {None}]
      /\ t # "outputs" => db[t][h] \in Blocks /\ Height[db[t][h]] = h
  BY <1>3, <1>4 DEF WellFormed
<1>6. /\ DOMAIN db' = DOMAIN db
      /\ db'[t] = [db[t] EXCEPT ![h] = None]
      /\ db'[t][h] = None
      /\ \A g \in Heights : g # h => db'[t][g] = db[t][g]
      /\ \A u \in DOMAIN db : u # t => db'[u] = db[u]
  BY <1>1, <1>3, <1>4, StoreChanges
<1>7. /\ job'.step = t /\ job'.event = job.event
      /\ job'.pruned = IF t = "outputs" THEN None ELSE db[t][h]
  BY <1>1, <1>2, <1>3 DEF Jobs
<1>8. job' \in Jobs
  BY <1>1, <1>3, <1>5 DEF Jobs
<1>9. job'.pruned # None => /\ job'.step \in Pruning /\ job'.pruned \in Blocks
                            /\ IsBelow(Height[job'.pruned])
  BY <1>4, <1>5, <1>7
<1>10. ASSUME NEW u \in Pruning
       PROVE  /\ db'[u] \in [Heights -> Blocks \cup {None}]
              /\ \A g \in Heights : \/ db'[u][g] = db[u][g]
                                    \/ db'[u][g] = None /\ IsBelow(g)
  <2>1. CASE u = t
    <3>1. db'[t] \in [Heights -> Blocks \cup {None}]
      BY <1>5, <1>6
    <3>2. \A g \in Heights : \/ db'[t][g] = db[t][g]
                             \/ db'[t][g] = None /\ IsBelow(g)
      BY <1>4, <1>6
    <3> QED
      BY <2>1, <3>1, <3>2
  <2>2. CASE u # t
    <3>1. db'[u] = db[u]
      BY <2>2, <1>5, <1>6 DEF Pruning
    <3> QED
      BY <3>1, <1>3 DEF WellFormed, Pruning
  <2> QED
    BY <2>1, <2>2
<1>11. db'.hashes = db.hashes
  BY <1>3, <1>5, <1>6
<1>12. ASSUME NEW g \in Stored(db), NEW i \in Stored(db), g < i, g \in Stored(db')
       PROVE  i \in Stored(db')
  <2>1. CASE t # "finalized"
    BY <2>1, <1>5, <1>6, <1>12 DEF Stored
  <2>2. CASE t = "finalized"
    <3>1. g \in Heights /\ i \in Heights /\ db.finalized[g] # None /\ db'.finalized[g] # None
      BY <1>12 DEF Stored
    <3>2. i # h
      <4> SUFFICES ASSUME i = h PROVE FALSE
        OBVIOUS
      <4>1. g \in Nat /\ h \in Nat /\ Height[Block] \in Int /\ HistoryLen \in Nat
        BY <3>1, <1>2, <1>3, <1>4, HeightsOfBlocks, NoticeFacts DEF Jobs, Block
      <4>2. IsBelow(g)
        BY <4>1, <1>4, <1>12 DEF IsBelow
      <4> QED
        BY <4>1, <4>2, <3>1, <2>2, <1>4, <1>12
    <3>3. db'.finalized[i] = db.finalized[i]
      BY <3>1, <3>2, <2>2, <1>6
    <3> QED
      BY <3>1, <3>3 DEF Stored
  <2> QED
    BY <2>1, <2>2
<1>13. job'.step \in Pruning /\ job'.step # "hash"
  BY <1>3, <1>7 DEF Pruning
<1> QED
  BY <1>2, <1>5, <1>6, <1>7, <1>8, <1>9, <1>10, <1>11, <1>12, <1>13 DEF Prunes

LEMMA HashPrunes ==
    ASSUME StorageInv, PruneHash
    PROVE  Prunes
<1>1. /\ job.pruned # None
      /\ db' = [db EXCEPT !.hashes = db.hashes \ {job.pruned}]
      /\ job' = [job EXCEPT !.pruned = None]
      /\ UNCHANGED <<finalized, secured, announcements, channel, dbdisk, refused, lagged>>
  BY DEF PruneHash, finalityvars, disks
<1>2. job.step \in Pruning /\ IsBelow(Height[job.pruned])
  BY <1>1 DEF StorageInv, JobInv, IsBelow
<1>3. WellFormed(db) /\ job \in Jobs
  BY <1>2 DEF StorageInv, TypeInv, Jobs, Idle, Pruning
<1>4. /\ job' \in Jobs /\ job'.step = job.step /\ job'.event = job.event /\ job'.pruned = None
  BY <1>1, <1>3 DEF Jobs
<1>5. /\ DOMAIN db' = {"confirmed", "finalized", "outputs", "hashes"}
      /\ \A t \in Pruning : db'[t] = db[t] /\ db[t] \in [Heights -> Blocks \cup {None}]
      /\ db'.hashes = db.hashes \ {job.pruned}
      /\ db'.finalized = db.finalized
  BY <1>1, <1>3 DEF WellFormed, Pruning
<1>6. job'.step # "hash"
  BY <1>2, <1>4 DEF Pruning
<1>7. Stored(db') = Stored(db)
  BY <1>5 DEF Stored
<1> QED
  BY <1>1, <1>2, <1>4, <1>5, <1>6, <1>7 DEF Prunes

LEMMA DonePrunes ==
    ASSUME StorageInv, NEW t \in Pruning, PruneDone(t)
    PROVE  Prunes
<1>1. /\ job.step = t /\ job.pruned = None /\ OldHeights(t) = {} /\ db' = db
      /\ job' = [job EXCEPT !.step = AfterPruning(t)]
      /\ UNCHANGED <<finalized, secured, announcements, channel, dbdisk, refused, lagged>>
  BY DEF PruneDone, Continue, finalityvars, disks
<1>2. WellFormed(db) /\ job \in Jobs
  BY <1>1 DEF StorageInv, TypeInv, Jobs, Idle, Pruning
<1>3. /\ AfterPruning(t) \in Pruning \cup {"hash"}
      /\ AfterPruning(t) = "hash" => t = "finalized"
  BY DEF AfterPruning, Pruning
<1>4. /\ job' \in Jobs /\ job'.step = AfterPruning(t) /\ job'.event = job.event
      /\ job'.pruned = None
  BY <1>1, <1>2, <1>3 DEF Jobs, Steps, Pruning
<1>5. /\ DOMAIN db = {"confirmed", "finalized", "outputs", "hashes"}
      /\ \A u \in Pruning : db[u] \in [Heights -> Blocks \cup {None}]
  BY <1>2 DEF WellFormed, Pruning
<1>6. ASSUME t = "finalized", NEW g \in Stored(db) PROVE ~IsBelow(g)
  BY <1>1, <1>6 DEF OldHeights, IsOld, IsBelow, Stored
<1>7. Stored(db') = Stored(db)
  BY <1>1
<1> QED
  BY <1>1, <1>3, <1>4, <1>5, <1>6, <1>7 DEF Prunes

LEMMA StepsPrune ==
    ASSUME StorageInv, PruneOlderThan
    PROVE  Prunes
  BY EntryPrunes, HashPrunes, DonePrunes DEF PruneOlderThan, Pruning

(* The block at hand stays, and so does the latest one unless a block was  *)
(* confirmed too far above it; then the finalized tree runs empty and the  *)
(* store has lost its chain.                                               *)
LEMMA StepPrune == StorageInv /\ PruneOlderThan => StorageInv' /\ Growing
<1> SUFFICES ASSUME StorageInv, PruneOlderThan PROVE StorageInv' /\ Growing
  OBVIOUS
<1> DEFINE b == Block
           top == latest(db)
           Old(n) == n < Height[b] - HistoryLen
<1>1. /\ job.step \in Pruning /\ job'.step \in Pruning \cup {"hash"}
      /\ job' \in Jobs /\ job'.event = job.event /\ Block' = b
      /\ job'.pruned # None => /\ job'.step \in Pruning /\ job'.pruned \in Blocks
                               /\ Old(Height[job'.pruned])
      /\ UNCHANGED <<finalized, secured, announcements, channel, dbdisk, refused, lagged>>
  BY StepsPrune DEF Prunes, IsBelow, Block
<1>2. /\ DOMAIN db' = {"confirmed", "finalized", "outputs", "hashes"}
      /\ db'.confirmed \in [Heights -> Blocks \cup {None}]
      /\ db'.finalized \in [Heights -> Blocks \cup {None}]
      /\ db'.outputs \in [Heights -> Blocks \cup {None}]
      /\ \A g \in Heights :
            /\ db'.confirmed[g] = db.confirmed[g] \/ (db'.confirmed[g] = None /\ Old(g))
            /\ db'.finalized[g] = db.finalized[g] \/ (db'.finalized[g] = None /\ Old(g))
      /\ db'.hashes \subseteq db.hashes
      /\ \A c \in db.hashes \ db'.hashes : Old(Height[c])
      /\ \A g, i \in Stored(db) : g < i /\ g \in Stored(db') => i \in Stored(db')
  BY StepsPrune DEF Prunes, IsBelow, Pruning
<1>3. TypeInv /\ WellFormed(db) /\ job \in Jobs /\ b \in Blocks
  BY <1>1, NoticeFacts DEF StorageInv, TypeInv, Jobs, Idle, Block, Pruning
<1>4. job.step \notin {"raw", "insert"} /\ job'.step \notin {"raw", "insert"} /\ Work' = Work
  BY <1>1 DEF Pruning, Work, Current
<1>5. /\ b \in {db.confirmed[Height[b]], db.finalized[Height[b]]}
      /\ lagged \/ Height[b] <= Height[top] + HistoryLen
  BY <1>1 DEF StorageInv, JobInv
<1>6. /\ Height[b] \in Heights /\ Height[b] \in Nat /\ HistoryLen \in Nat
      /\ Height[top] \in Nat /\ ~Old(Height[b])
  BY <1>3, HeightsOfBlocks, LatestIsTop
<1> HIDE DEF b, top
<1>7. /\ b \in {db'.confirmed[Height[b]], db'.finalized[Height[b]]}
      /\ b \in Known(db')
  BY <1>2, <1>3, <1>5, <1>6 DEF Known
<1>8. \A n : Old(n) => Above(db', n)
  BY <1>7 DEF Above
<1>10. \A c \in Known(db) : c \in Known(db') \/ Old(Height[c])
  <2> SUFFICES ASSUME NEW c \in Known(db), ~Old(Height[c]) PROVE c \in Known(db')
    OBVIOUS
  <2>1. c \in Blocks /\ c # None
    BY HeightsOfBlocks DEF Known, None
  <2>2. CASE c \in db.hashes
    BY <2>1, <2>2, <1>2 DEF Known
  <2>3. CASE \E g \in Heights : c = db.confirmed[g]
    <3>1. PICK g \in Heights : c = db.confirmed[g]
      BY <2>3
    <3>2. Height[c] = g
      BY <3>1, <2>1, <1>3 DEF WellFormed
    <3>3. db'.confirmed[g] = c
      BY <3>1, <3>2, <1>2
    <3> QED
      BY <3>3, <2>1 DEF Known
  <2>4. CASE \E g \in Heights : c = db.finalized[g]
    <3>1. PICK g \in Heights : c = db.finalized[g]
      BY <2>4
    <3>2. Height[c] = g
      BY <3>1, <2>1, <1>3 DEF WellFormed
    <3>3. db'.finalized[g] = c
      BY <3>1, <3>2, <1>2
    <3> QED
      BY <3>3, <2>1 DEF Known
  <2> QED
    BY <2>2, <2>3, <2>4 DEF Known
<1>11. Growing
  <2> SUFFICES ASSUME NEW n \in Nat, NEW c \in Known(db), n < Height[c] - HistoryLen
               PROVE  Above(db', n)
    BY DEF Above, Growing
  <2>1. CASE c \in Known(db')
    BY <2>1 DEF Above
  <2>2. CASE Old(Height[c])
    <3>1. Height[c] \in Nat
      BY HeightsOfBlocks DEF Known
    <3>2. Old(n)
      BY <3>1, <2>2, <1>6
    <3> QED
      BY <3>2, <1>8
  <2> QED
    BY <2>1, <2>2, <1>10
<1>12. Stored(db') \subseteq Stored(db) /\ \A g \in Stored(db) \ Stored(db') : Old(g)
  BY <1>2 DEF Stored
<1>13. /\ Stored(db) = {} => top = Genesis
       /\ Stored(db) # {} => /\ top \in Blocks /\ Height[top] \in Stored(db)
                             /\ db.finalized[Height[top]] = top
       /\ \A g \in Stored(db) : g <= Height[top]
       /\ \A g \in Stored(db) : g \in Nat /\ g \in Heights
  BY <1>3, LatestIsTop, HeightsOfBlocks DEF Stored, top
<1>14. Stored(db') # {} => /\ Height[top] \in Stored(db') /\ top \in Blocks
                           /\ db'.finalized[Height[top]] = top
                           /\ \A g \in Stored(db') : g <= Height[top]
  <2> SUFFICES ASSUME NEW g \in Stored(db')
               PROVE  /\ Height[top] \in Stored(db') /\ top \in Blocks
                      /\ db'.finalized[Height[top]] = top
    BY <1>12, <1>13
  <2>1. g \in Stored(db) /\ Height[top] \in Stored(db) /\ g <= Height[top] /\ g \in Nat
    BY <1>12, <1>13
  <2>2. Height[top] \in Stored(db')
    BY <2>1, <1>2, <1>6
  <2>3. db'.finalized[Height[top]] = db.finalized[Height[top]]
    BY <2>2, <1>2 DEF Stored
  <2> QED
    BY <2>1, <2>2, <2>3, <1>13
<1>15. WellFormed(db')
  <2>1. db'.hashes \subseteq Blocks
    BY <1>2, <1>3 DEF WellFormed
  <2>2. \A g \in Heights : /\ db'.confirmed[g] # None => Height[db'.confirmed[g]] = g
                           /\ db'.finalized[g] # None => Height[db'.finalized[g]] = g
    BY <1>2, <1>3 DEF WellFormed
  <2> QED
    BY <2>1, <2>2, <1>2, <1>14 DEF WellFormed
<1>16. TypeInv'
  BY <1>1, <1>3, <1>15 DEF TypeInv, WellFormed, Stored
<1>18. Waiting' = Waiting /\ Sorted(Work)' /\ Waiting \subseteq Notices
  BY <1>3, <1>4, WorkIsSeq DEF Waiting, StorageInv, QueueInv, Sorted
<1>19. RecordInv'
  <2>1. ASSUME NEW x \in Blocks, Recorded(x) PROVE Recorded(x)'
    <3>1. Height[x] \in Nat /\ x # None
      BY HeightsOfBlocks DEF None
    <3>2. CASE x \in db.hashes
      BY <3>1, <3>2, <1>2, <1>8 DEF Recorded
    <3>3. CASE Above(db, Height[x])
      BY <3>1, <3>3, <1>11 DEF Recorded, Growing
    <3>4. CASE Block = x
      BY <3>4, <1>1 DEF Recorded, b
    <3>5. CASE Announcement("confirmed", x) \in Waiting
      BY <3>5, <1>18 DEF Recorded
    <3> QED
      BY <2>1, <3>2, <3>3, <3>4, <3>5 DEF Recorded
  <2>2. \A e \in Waiting : e.block \in Blocks
    BY <1>18, NoticeFacts
  <2> QED
    BY <2>1, <2>2, <1>1, <1>18 DEF StorageInv, RecordInv, TypeInv
<1>20. Sound(dbdisk)' /\ RefusedOnlyIfLagging'
  BY <1>1 DEF StorageInv, Sound, Above, Known, RefusedOnlyIfLagging
<1>21. CASE top = Genesis \/ Height[top] \in Stored(db')
  <2>1. latest(db') = top
    <3>1. CASE top = Genesis
      <4>1. Stored(db) = {}
        BY <3>1, <1>13, HeightsOfBlocks
      <4>2. Stored(db') = {}
        BY <4>1, <1>12
      <4> QED
        BY <4>2, <3>1, <1>15, LatestIsTop
    <3>2. CASE Height[top] \in Stored(db')
      BY <3>2, <1>14, <1>15, LatestIs
    <3> QED
      BY <3>1, <3>2, <1>21
  <2>2. Sound(db')
    <3>1. ASSUME NEW g \in Heights, db'.confirmed[g] # None PROVE g > Height[top]
      BY <3>1, <1>2 DEF StorageInv, Sound, top
    <3>2. ASSUME top # Genesis, NEW x \in {top} \cup Ancestors[top]
          PROVE  x = Genesis \/ db'.finalized[Height[x]] = x \/ Above(db', Height[x])
      <4>1. top \in Blocks
        BY <3>2, <1>13
      <4>2. x = Genesis \/ (x \in Blocks /\ Height[x] \in Nat /\ Height[x] \in Heights)
        BY <4>1, AncestorsAreLower, HeightsOfBlocks
      <4>3. x = Genesis \/ db.finalized[Height[x]] = x \/ Above(db, Height[x])
        BY <3>2 DEF StorageInv, Sound, top
      <4> QED
        BY <4>2, <4>3, <1>2, <1>8, <1>11 DEF Growing
    <3> QED
      BY <3>1, <3>2, <2>1 DEF Sound
  <2>3. QueueInv'
    BY <2>1, <1>1, <1>18, ConfirmedLeaves DEF top
  <2>4. JobInv'
    <3>1. lagged' \/ Height[Block]' <= Height[latest(db)]' + HistoryLen
      BY <2>1, <1>1, <1>5
    <3>2. Block' \in {db'.confirmed[Height[Block']], db'.finalized[Height[Block']]}
      BY <1>1, <1>7
    <3> QED
      BY <3>1, <3>2, <1>1, <1>4 DEF JobInv
  <2> QED
    BY <2>2, <2>3, <2>4, <1>11, <1>16, <1>19, <1>20 DEF StorageInv
<1>22. CASE top # Genesis /\ Height[top] \notin Stored(db')
  <2>1. latest(db') = Genesis
    <3>1. Stored(db') = {}
      BY <1>22, <1>14
    <3> QED
      BY <3>1, <1>15, LatestIsTop
  <2>2. lagged
    <3>1. Old(Height[top])
      BY <1>12, <1>13, <1>22
    <3> QED
      BY <3>1, <1>5, <1>6
  <2>3. top \in Blocks /\ Height[top] >= 1
    BY <1>13, <1>22, HeightsOfBlocks
  <2>4. Height[finalized] \in Nat /\ Height[finalized] >= 1
    BY <2>3, <1>3, <1>6, HeightsOfBlocks DEF StorageInv, QueueInv, TypeInv, top
  <2>5. \A e \in Waiting : Height[e.block] \in Nat /\ Height[e.block] >= 2
    BY <2>3, <1>6, <1>18, NoticeFacts DEF StorageInv, QueueInv, top
  <2>6. Lost'
    BY <2>1, <2>2, <2>4, <2>5, <1>1, <1>18 DEF Lost
  <2>7. QueueInv'
    <3>1. Height[latest(db')] <= Height[finalized]
      BY <2>1, <2>4, HeightsOfBlocks
    <3>2. \A e \in Waiting : Height[latest(db')] < Height[e.block]
      BY <2>1, <2>5, HeightsOfBlocks
    <3> QED
      BY <3>1, <3>2, <2>2, <2>6, <1>1, <1>18 DEF StorageInv, QueueInv
  <2>8. Sound(db')
    BY <2>1, HeightsOfBlocks DEF Sound
  <2>9. JobInv'
    <3>1. lagged'
      BY <2>2, <1>1
    <3>2. Block' \in {db'.confirmed[Height[Block']], db'.finalized[Height[Block']]}
      BY <1>1, <1>7
    <3> QED
      BY <3>1, <3>2, <1>1, <1>4 DEF JobInv
  <2> QED
    BY <2>7, <2>8, <2>9, <1>11, <1>16, <1>19, <1>20 DEF StorageInv
<1> QED
  BY <1>21, <1>22

-----------------------------------------------------------------------------
(***************************************************************************)
(* The theorems.                                                           *)
(***************************************************************************)
LEMMA StorageNext == StorageInv /\ [Next]_storagevars => StorageInv'
<1> SUFFICES ASSUME StorageInv, [Next]_storagevars PROVE StorageInv'
  OBVIOUS
<1>1. CASE UNCHANGED storagevars \/ FlushState \/ FlushBlocks
  BY <1>1, StepFlush
<1>2. ASSUME NEW b \in Blocks, ConfirmBlock(b) PROVE StorageInv'
  BY <1>2, StepConfirm
<1>3. ASSUME NEW b \in Blocks, FinalizeBlock(b) PROVE StorageInv'
  BY <1>3, StepFinalize
<1>4. CASE RunLoop
  BY <1>4, StepRunLoop
<1>5. CASE Consume
  BY <1>5, StepReceive, StepStoreConfirmed, StepBeginStore, StepEndStore, StepRefuse,
     StepOutputs, StepPrune, StepHash DEF Consume
<1>6. CASE Restart
  BY <1>6, StepRestart
<1> QED
  BY <1>1, <1>2, <1>3, <1>4, <1>5, <1>6 DEF Next

(* The block store, its queue and its disk fit together at every moment,   *)
(* whatever the engine finalizes and whenever the validator crashes.       *)
THEOREM StorageInvariant == Spec => []StorageInv
<1>1. Init => StorageInv
  BY StorageInit
<1>2. StorageInv /\ [Next]_storagevars => StorageInv'
  BY StorageNext
<1> QED
  BY <1>1, <1>2, PTL DEF Spec

(* store_raw_block panics on a gap only if a block was confirmed further   *)
(* above the stored ones than the history is long; crashes open no gap.    *)
THEOREM StoreRefusesOnlyIfLagging == Spec => []RefusedOnlyIfLagging
<1>1. StorageInv => RefusedOnlyIfLagging
  BY DEF StorageInv
<1> QED
  BY <1>1, StorageInvariant, PTL

(* A height of the finalized tree, or below it, has no confirmed block:    *)
(* get_by_height, which looks there first, never returns a stale one.      *)
THEOREM ConfirmedStayAboveFinalized == Spec => []ConfirmedAboveFinalized
<1>1. StorageInv => ConfirmedAboveFinalized
  BY DEF StorageInv, Sound, ConfirmedAboveFinalized
<1> QED
  BY <1>1, StorageInvariant, PTL

LEMMA AboveIsOutgrown ==
    ASSUME NEW n, Above(db, n)
    PROVE  Outgrown(n)
<1>1. PICK c \in Known(db) : n < Height[c] - HistoryLen
  BY DEF Above
<1>2. c \in Blocks /\ Height[c] \in Heights
  BY HeightsOfBlocks DEF Known
<1>3. PICK h \in Heights : c \in db.hashes \cup {db.confirmed[h], db.finalized[h]}
  BY <1>2 DEF Known
<1> QED
  BY <1>1, <1>2, <1>3 DEF Outgrown

(* prune_older_than, and a crash at any moment, take no block of the       *)
(* finalized chain that is within the history of the highest block.        *)
THEOREM HistoryIsKept == Spec => []RecentHistoryIsKept
<1>1. StorageInv => RecentHistoryIsKept
  <2> SUFFICES ASSUME StorageInv,
                      NEW b \in {latest(db)} \cup (IF latest(db) = Genesis THEN {}
                                                  ELSE Ancestors[latest(db)]),
                      b # Genesis, db.finalized[Height[b]] # b
               PROVE  Outgrown(Height[b])
    BY DEF RecentHistoryIsKept
  <2> QED
    BY AboveIsOutgrown DEF StorageInv, Sound
<1> QED
  BY <1>1, StorageInvariant, PTL

-----------------------------------------------------------------------------
(***************************************************************************)
(* What get_by_hash finds: the hash and the outputs of a block are written *)
(* when it is confirmed, and must still be there when it is finalized.     *)
(***************************************************************************)
OneChain == \A a, b \in Blocks : Height[a] = Height[b] => a = b

(* Every finalized block of the history has its hash and its height has    *)
(* outputs.                                                                *)
Complete(d) ==
    /\ \A h \in Stored(d) : \/ d.finalized[h] \in d.hashes /\ d.outputs[h] # None
                            \/ Above(d, h)
    /\ \A h \in Heights : d.outputs[h] # None => Height[d.outputs[h]] = h

Kept(b) == db.outputs[Height[b]] # None

(* The hash and the outputs of b are stored, or will be.                   *)
Held(b) ==
    \/ b \in db.hashes /\ Kept(b)
    \/ job.step = "details" /\ Block = b
    \/ job.step \in Pruning \cup {"hash"} /\ Block = b /\ Kept(b)
    \/ Announcement("confirmed", b) \in Waiting

HeldInv ==
    /\ \A b \in secured : Held(b)
    /\ \A e \in Waiting : e.kind = "finalized" => Held(e.block)

(* While no block is finalized in the store, the bound on the confirmed    *)
(* blocks is a bound on their heights.                                     *)
LeadInv ==
    latest(db) = Genesis =>
        /\ \A e \in Waiting : e.kind = "confirmed" => Height[e.block] <= Lead
        /\ job.step \in {"details"} \cup Pruning /\ ~IsFinalized => Height[Block] <= Lead

FinalInv ==
    /\ job.step = "insert" => Block \in db.hashes /\ Kept(Block)
    /\ job.step \in {"details"} \cup Pruning /\ IsFinalized => db.finalized[Height[Block]] = Block

(* prune_older_than is about to take the whole chain of the store.         *)
Doomed ==
    /\ job.step \in Pruning
    /\ latest(db) # Genesis
    /\ Height[latest(db)] < Height[Block] - HistoryLen

FoundInv ==
    /\ Complete(db) /\ Complete(dbdisk)
    /\ \A b \in secured : Height[finalized] < Height[b]
    /\ FinalInv
    /\ Lost \/ Doomed \/ (HeldInv /\ LeadInv)

LEMMA FoundInit == Init => FoundInv
<1> SUFFICES ASSUME Init PROVE FoundInv
  OBVIOUS
<1>1. /\ secured = {} /\ announcements = <<>> /\ channel = <<>> /\ job = Idle /\ dbdisk = db
      /\ \A h \in Heights : db.finalized[h] = None /\ db.outputs[h] = None
  BY DEF Init, FinalityInit
<1>2. job.step = "idle" /\ Current = <<>> /\ Work = <<>> /\ Waiting = {}
  BY <1>1 DEF Idle, Current, Work, Waiting, ToSet
<1>3. Complete(db) /\ Complete(dbdisk)
  BY <1>1 DEF Complete, Stored
<1> QED
  BY <1>1, <1>2, <1>3 DEF FoundInv, FinalInv, Pruning, HeldInv, LeadInv

LEMMA CompleteKept ==
    ASSUME Complete(db), Growing, db'.finalized = db.finalized, db'.outputs = db.outputs,
           db.hashes \subseteq db'.hashes
    PROVE  Complete(db')
<1>1. Stored(db') = Stored(db) /\ \A h \in Stored(db) : h \in Nat
  BY HeightsOfBlocks DEF Stored
<1> QED
  BY <1>1 DEF Complete, Growing

(* Steps that leave the block store and the waiting blocks as they are.    *)
LEMMA FoundUntouched ==
    ASSUME FoundInv, Complete(dbdisk)', Waiting' = Waiting,
           UNCHANGED <<finalized, secured, db, lagged>>,
           UNCHANGED job \/ (job.step = "idle" /\ job'.step = "raw")
    PROVE  FoundInv'
<1>1. Complete(db)' /\ \A b \in secured' : Height[finalized'] < Height[b]
  BY DEF FoundInv, Complete, Stored, Above, Known
<1>2. FinalInv'
  BY DEF FoundInv, FinalInv, Pruning, Kept, Block, IsFinalized
<1>3. Lost => Lost'
  BY DEF Lost
<1>4. \A b : Held(b) => Held(b)'
  BY DEF Held, Pruning, Kept, Block
<1>5. HeldInv => HeldInv'
  BY <1>4 DEF HeldInv
<1>6. LeadInv => LeadInv'
  BY DEF LeadInv, Pruning, Block, IsFinalized
<1>7. Doomed => Doomed'
  BY DEF Doomed, Block, Pruning
<1> QED
  BY <1>1, <1>2, <1>3, <1>5, <1>6, <1>7 DEF FoundInv

LEMMA FoundQuiet ==
    ASSUME StorageInv, FoundInv,
           RunLoop \/ Receive \/ FlushState \/ FlushBlocks \/ UNCHANGED storagevars
    PROVE  FoundInv'
<1>1. CASE RunLoop
  <2>1. /\ channel' = Append(channel, Head(announcements))
        /\ announcements # <<>> /\ announcements' = Tail(announcements)
        /\ UNCHANGED <<finalized, secured, job, db, lagged, dbdisk>>
    BY <1>1 DEF RunLoop, Announce, disks
  <2>2. announcements \in Seq(Notices) /\ channel \in Seq(Notices)
    BY DEF StorageInv, TypeInv
  <2>3. channel' \o announcements' = channel \o announcements
    BY <2>1, <2>2, HeadMoves
  <2>4. Waiting' = Waiting
    BY <2>1, <2>3 DEF Waiting, Work, Current
  <2>5. Complete(dbdisk)'
    BY <2>1 DEF FoundInv, Complete, Stored, Above, Known
  <2> QED
    BY <2>1, <2>4, <2>5, FoundUntouched
<1>2. CASE Receive
  <2>1. /\ job = Idle /\ channel # <<>> /\ channel' = Tail(channel)
        /\ job' = [Idle EXCEPT !.step = "raw", !.event = Head(channel)]
        /\ UNCHANGED <<finalized, secured, announcements, db, dbdisk, lagged>>
    BY <1>2 DEF Receive, finalityvars, disks
  <2>2. channel \in Seq(Notices) /\ announcements \in Seq(Notices)
    BY DEF StorageInv, TypeInv
  <2>3. Current = <<>> /\ Current' = <<Head(channel)>>
    BY <2>1 DEF Current, Idle
  <2>4. <<Head(channel)>> \o (Tail(channel) \o announcements) = channel \o announcements
    BY <2>1, <2>2, HeadLeaves
  <2>5. <<>> \o (channel \o announcements) = channel \o announcements
    BY <2>2
  <2>6. Waiting' = Waiting
    BY <2>1, <2>3, <2>4, <2>5 DEF Work, Waiting
  <2>7. Complete(dbdisk)'
    BY <2>1 DEF FoundInv, Complete, Stored, Above, Known
  <2>8. job.step = "idle" /\ job'.step = "raw"
    BY <2>1 DEF Idle
  <2> QED
    BY <2>1, <2>6, <2>7, <2>8, FoundUntouched
<1>3. CASE FlushState \/ FlushBlocks \/ UNCHANGED storagevars
  <2>1. /\ UNCHANGED <<finalized, secured, announcements, channel, job, db, lagged>>
        /\ dbdisk' \in {db, dbdisk}
    BY <1>3 DEF FlushState, FlushBlocks, storagevars, finalityvars, memory, disks
  <2>2. Waiting' = Waiting
    BY <2>1 DEF Waiting, Work, Current
  <2>3. Complete(dbdisk)'
    BY <2>1 DEF FoundInv, Complete, Stored, Above, Known
  <2> QED
    BY <2>1, <2>2, <2>3, FoundUntouched
<1> QED
  BY <1>1, <1>2, <1>3

LEMMA FoundRestart == FoundInv /\ Restart => FoundInv'
<1> SUFFICES ASSUME FoundInv, Restart PROVE FoundInv'
  OBVIOUS
<1>1. /\ secured' = {} /\ announcements' = <<>> /\ channel' = <<>> /\ job' = Idle
      /\ db' = dbdisk /\ dbdisk' = dbdisk
  BY DEF Restart, disks
<1>2. job'.step = "idle" /\ Current' = <<>> /\ Work' = <<>> /\ Waiting' = {}
  BY <1>1 DEF Idle, Current, Work, Waiting, ToSet
<1>3. Complete(db)' /\ Complete(dbdisk)'
  BY <1>1 DEF FoundInv, Complete, Stored, Above, Known
<1> QED
  BY <1>1, <1>2, <1>3 DEF FoundInv, FinalInv, Pruning, HeldInv, LeadInv

(* A newly confirmed block waits for its hash and its outputs.             *)
LEMMA FoundConfirm ==
    ASSUME StorageInv, FoundInv, NEW t \in Blocks, ConfirmBlock(t)
    PROVE  FoundInv'
<1>1. PICK newly, new, p : Adds(t, newly, new, p)
  BY ConfirmAdds
<1>2. /\ secured' = secured \cup newly /\ (lagged => lagged')
      /\ UNCHANGED <<finalized, db, dbdisk, job>>
      /\ Waiting' = Waiting \cup ToSet(new)
      /\ ToSet(new) = {Announcement("confirmed", b) : b \in newly}
  BY <1>1 DEF Adds
<1>3. \A b \in newly : Height[finalized] < Height[b] /\ Height[b] <= Height[t]
                       /\ Height[b] \in Nat /\ Height[t] \in Nat
  BY <1>1 DEF Adds
<1>4. \A e \in ToSet(new) : e.kind = "confirmed" /\ e.block \in newly
  BY <1>2 DEF Announcement
<1>5. Complete(db)' /\ Complete(dbdisk)'
  BY <1>2 DEF FoundInv, Complete, Stored, Above, Known
<1>6. \A b \in secured' : Height[finalized'] < Height[b]
  BY <1>2, <1>3 DEF FoundInv
<1>7. FinalInv'
  BY <1>2 DEF FoundInv, FinalInv, Pruning, Kept, Block, IsFinalized
<1>8. Lost => Lost'
  BY <1>2, <1>4 DEF Lost
<1>9. HeldInv => HeldInv'
  <2>1. \A b : Held(b) => Held(b)'
    BY <1>2 DEF Held, Pruning, Kept, Block
  <2>2. \A b \in newly : Held(b)'
    BY <1>2 DEF Held, Pruning
  <2> QED
    BY <2>1, <2>2, <1>2, <1>4 DEF HeldInv
<1>10. LeadInv => LeadInv'
  <2> SUFFICES ASSUME LeadInv, latest(db)' = Genesis PROVE LeadInv'
    BY DEF LeadInv, Pruning
  <2>1. latest(db) = Genesis
    BY <1>2
  <2>2. Height[t] <= Lead
    BY <2>1, HeightsOfBlocks, StorageAssumption DEF ConfirmBlock
  <2>3. \A e \in ToSet(new) : Height[e.block] <= Lead
    BY <2>2, <1>3, <1>4, StorageAssumption
  <2> QED
    BY <2>1, <2>3, <1>2 DEF LeadInv, Pruning, Block, IsFinalized
<1>11. Doomed => Doomed'
  BY <1>2 DEF Doomed, Block
<1> QED
  BY <1>5, <1>6, <1>7, <1>8, <1>9, <1>10, <1>11 DEF FoundInv

(* A block that is finalized was confirmed before.                         *)
LEMMA FoundFinalize ==
    ASSUME StorageInv, FoundInv, NEW r \in Blocks, FinalizeBlock(r)
    PROVE  FoundInv'
<1> DEFINE e == Announcement("finalized", r)
<1>1. /\ r \in secured /\ Parent[r] = finalized /\ finalized' = r
      /\ secured' = {b \in secured : r \in Ancestors[b]}
      /\ UNCHANGED <<db, dbdisk, job, lagged>>
  BY DEF FinalizeBlock, Finalize, memory, disks
<1>2. e.kind = "finalized" /\ e.block = r
  BY DEF Announcement
<1>3. Waiting' = Waiting \cup {e}
  BY FinalizeAdds
<1> HIDE DEF e
<1>4. Complete(db)' /\ Complete(dbdisk)'
  BY <1>1 DEF FoundInv, Complete, Stored, Above, Known
<1>5. \A b \in secured' : Height[finalized'] < Height[b]
  BY <1>1, AncestorsAreLower DEF StorageInv, TypeInv
<1>6. FinalInv'
  BY <1>1 DEF FoundInv, FinalInv, Pruning, Kept, Block, IsFinalized
<1>7. Lost => Lost'
  <2>1. Height[r] = Height[finalized] + 1 /\ Height[finalized] \in Nat
    BY <1>1, HeightsOfBlocks DEF StorageInv, TypeInv
  <2> QED
    BY <2>1, <1>1, <1>2, <1>3 DEF Lost
<1>8. HeldInv => HeldInv'
  <2>1. \A b : Held(b) => Held(b)'
    BY <1>1, <1>3 DEF Held, Pruning, Kept, Block
  <2> QED
    BY <2>1, <1>1, <1>2, <1>3 DEF HeldInv
<1>9. LeadInv => LeadInv'
  BY <1>1, <1>2, <1>3 DEF LeadInv, Pruning, Block, IsFinalized
<1>10. Doomed => Doomed'
  BY <1>1 DEF Doomed, Block
<1> QED
  BY <1>4, <1>5, <1>6, <1>7, <1>8, <1>9, <1>10 DEF FoundInv

(* The confirmed block at hand gets its outputs next.                      *)
LEMMA FoundStoreConfirmed ==
    ASSUME StorageInv, FoundInv, StoreConfirmed, Detailed
    PROVE  FoundInv'
<1> DEFINE b == Block
           h == Height[b]
<1>1. /\ job.step = "raw" /\ ~IsFinalized /\ Store("confirmed", h, b)
      /\ job' = [job EXCEPT !.step = "details"]
      /\ UNCHANGED <<finalized, secured, announcements, channel, dbdisk, lagged>>
  BY DEF StoreConfirmed, Continue, AfterRaw, finalityvars, disks
<1>2. TypeInv /\ WellFormed(db) /\ job \in Jobs
  BY <1>1 DEF StorageInv, TypeInv, Jobs, Idle
<1>3. job'.step = "details" /\ job'.event = job.event /\ Block' = b /\ ~IsFinalized'
  BY <1>1, <1>2 DEF Jobs, Block, IsFinalized
<1>4. /\ job.event \in Notices /\ b \in Blocks /\ Waiting = {job.event} \cup Waiting'
  BY <1>1, <1>2, <1>3, DropFirst DEF StorageInv, QueueInv
<1>5. b = job.event.block /\ job.event.kind = "confirmed"
  BY <1>1, <1>4, NoticeFacts DEF Block, IsFinalized
<1>6. h \in Heights
  BY <1>4, HeightsOfBlocks
<1> HIDE DEF b, h
<1>7. db'.finalized = db.finalized /\ db'.outputs = db.outputs /\ db'.hashes = db.hashes
  <2>1. DOMAIN db = {"confirmed", "finalized", "outputs", "hashes"}
    BY <1>2 DEF WellFormed
  <2> QED
    BY <2>1, <1>1, <1>2, <1>6, StoreChanges
<1>8. latest(db') = latest(db) /\ Complete(db)' /\ Complete(dbdisk)'
  <2>1. Complete(db')
    BY <1>7, StepStoreConfirmed, CompleteKept DEF FoundInv
  <2>2. Complete(dbdisk')
    BY <1>1 DEF FoundInv, Complete, Stored, Above, Known
  <2> QED
    BY <2>1, <2>2, <1>7, LatestKept
<1>9. (\A x \in secured' : Height[finalized'] < Height[x]) /\ FinalInv'
  BY <1>1, <1>3 DEF FoundInv, FinalInv, Pruning
<1>10. Lost => Lost'
  BY <1>1, <1>4, <1>8 DEF Lost
<1>11. HeldInv => HeldInv'
  <2>1. ASSUME NEW x, Held(x) PROVE Held(x)'
    <3>1. CASE Announcement("confirmed", x) = job.event
      BY <3>1, <1>3, <1>4, <1>5, NoticeFacts DEF Held, Pruning
    <3>2. CASE Announcement("confirmed", x) # job.event
      BY <3>2, <2>1, <1>1, <1>4, <1>7 DEF Held, Pruning, Kept
    <3> QED
      BY <3>1, <3>2
  <2> QED
    BY <2>1, <1>1, <1>4 DEF HeldInv
<1>12. LeadInv => LeadInv'
  BY <1>3, <1>4, <1>5, <1>8 DEF LeadInv, Pruning
<1> QED
  BY <1>1, <1>8, <1>9, <1>10, <1>11, <1>12 DEF FoundInv, Doomed, Pruning

(* The next finalized block has its hash and its outputs: its confirmation *)
(* was handled before, and the store has not lost its chain.               *)
LEMMA NextIsHeld ==
    ASSUME StorageInv, FoundInv, job.step = "raw", IsFinalized,
           Height[Block] = Height[latest(db)] + 1
    PROVE  ~Lost /\ Block \in db.hashes /\ Kept(Block)
<1>1. /\ job.event \in Notices
      /\ Waiting = {job.event} \cup ToSet(channel \o announcements)
      /\ \A f \in ToSet(channel \o announcements) : Height[Block] < Height[f.block]
  BY FirstOfWork DEF StorageInv, QueueInv
<1>2. Block \in Blocks /\ Height[Block] \in Nat /\ job.event.block = Block
      /\ job.event.kind = "finalized" /\ job.event \in Waiting
  BY <1>1, NoticeFacts DEF Block, IsFinalized
<1>3. Announcement("confirmed", Block) \notin Waiting
  BY <1>1, <1>2 DEF Announcement
<1>4. ~Lost
  BY <1>2, HeightsOfBlocks DEF Lost
<1>5. Held(Block)
  BY <1>2, <1>4 DEF FoundInv, Doomed, Pruning, HeldInv
<1> QED
  BY <1>3, <1>4, <1>5 DEF Held, Pruning

LEMMA FoundBeginStore == StorageInv /\ FoundInv /\ BeginStoreFinalized => FoundInv'
<1> SUFFICES ASSUME StorageInv, FoundInv, BeginStoreFinalized PROVE FoundInv'
  OBVIOUS
<1> DEFINE b == Block
           h == Height[b]
<1>1. /\ job.step = "raw" /\ IsFinalized /\ h = Height[latest(db)] + 1
      /\ Store("confirmed", h, None)
      /\ job' = [job EXCEPT !.step = "insert"]
      /\ UNCHANGED <<finalized, secured, announcements, channel, dbdisk, lagged>>
  BY DEF BeginStoreFinalized, RemoveConfirmed, Continue, finalityvars, disks
<1>2. /\ WellFormed(db) /\ job \in Jobs /\ b \in Blocks
  BY <1>1, NoticeFacts DEF StorageInv, TypeInv, Jobs, Idle, Block
<1>3. /\ job'.step = "insert" /\ job'.event = job.event /\ Block' = b /\ Waiting' = Waiting
  BY <1>1, <1>2 DEF Jobs, Block, Waiting, Work, Current
<1>4. h \in Heights
  BY <1>2, HeightsOfBlocks
<1>5. ~Lost /\ b \in db.hashes /\ Kept(b)
  BY <1>1, NextIsHeld
<1> HIDE DEF b, h
<1>6. db'.finalized = db.finalized /\ db'.outputs = db.outputs /\ db'.hashes = db.hashes
  <2>1. DOMAIN db = {"confirmed", "finalized", "outputs", "hashes"}
    BY <1>2 DEF WellFormed
  <2> QED
    BY <2>1, <1>1, <1>2, <1>4, StoreChanges
<1>7. latest(db') = latest(db) /\ Complete(db)' /\ Complete(dbdisk)'
  <2>1. Complete(db')
    BY <1>6, StepBeginStore, CompleteKept DEF FoundInv
  <2>2. Complete(dbdisk')
    BY <1>1 DEF FoundInv, Complete, Stored, Above, Known
  <2> QED
    BY <2>1, <2>2, <1>6, LatestKept
<1>8. (\A x \in secured' : Height[finalized'] < Height[x]) /\ FinalInv'
  BY <1>1, <1>3, <1>5, <1>6 DEF FoundInv, FinalInv, Pruning, Kept
<1>9. HeldInv'
  <2>1. \A x : Held(x) => Held(x)'
    BY <1>1, <1>3, <1>6 DEF Held, Pruning, Kept
  <2> QED
    BY <2>1, <1>1, <1>3, <1>5 DEF FoundInv, Doomed, Pruning, HeldInv
<1>10. LeadInv'
  BY <1>1, <1>3, <1>5, <1>7 DEF FoundInv, Doomed, Pruning, LeadInv
<1> QED
  BY <1>7, <1>8, <1>9, <1>10 DEF FoundInv

(* The finalized block enters its tree with its hash and outputs in place. *)
LEMMA FoundEndStore ==
    ASSUME StorageInv, FoundInv, EndStoreFinalized, StorageInv'
    PROVE  FoundInv'
<1> DEFINE b == Block
           h == Height[b]
<1>1. /\ job.step = "insert" /\ Store("finalized", h, b)
      /\ job' = [job EXCEPT !.step = AfterRaw]
      /\ UNCHANGED <<finalized, secured, announcements, channel, dbdisk, lagged>>
  BY DEF EndStoreFinalized, Continue, finalityvars, disks
<1>2. /\ IsFinalized /\ h = Height[latest(db)] + 1
      /\ TypeInv /\ WellFormed(db) /\ job \in Jobs
      /\ AfterRaw \in {"details", "confirmed"}
  BY <1>1 DEF StorageInv, TypeInv, Jobs, Idle, AfterRaw, JobInv
<1>3. job'.step = AfterRaw /\ job'.event = job.event /\ Block' = b
  BY <1>1, <1>2 DEF Jobs, Block
<1>4. /\ job.event \in Notices /\ b \in Blocks
      /\ Waiting = {job.event} \cup Waiting'
  BY <1>1, <1>2, <1>3, DropFirst DEF StorageInv, QueueInv
<1>5. job.event.block = b /\ job.event.kind = "finalized" /\ job.event \in Waiting
  BY <1>2, <1>4, NoticeFacts DEF Block, IsFinalized
<1>6. h \in Heights /\ h \in Nat /\ b # None
  BY <1>4, HeightsOfBlocks DEF None
<1>7. b \in db.hashes /\ db.outputs[h] # None
  BY <1>1 DEF FoundInv, FinalInv, Pruning, Kept
<1> HIDE DEF b, h
<1>8. /\ DOMAIN db' = DOMAIN db /\ db'.finalized = [db.finalized EXCEPT ![h] = b]
      /\ db'.finalized[h] = b
      /\ \A g \in Heights : g # h => db'.finalized[g] = db.finalized[g]
      /\ db'.outputs = db.outputs /\ db'.hashes = db.hashes
  <2>1. DOMAIN db = {"confirmed", "finalized", "outputs", "hashes"}
    BY <1>2 DEF WellFormed
  <2> QED
    BY <2>1, <1>1, <1>2, <1>6, StoreChanges
<1>9. Complete(db)' /\ Complete(dbdisk)'
  <2>1. \A g \in Heights : Above(db, g) => Above(db', g)
    BY StepEndStore, HeightsOfBlocks DEF Growing
  <2>2. Complete(db')
    BY <2>1, <1>7, <1>8 DEF FoundInv, Complete, Stored
  <2>3. Complete(dbdisk')
    BY <1>1 DEF FoundInv, Complete, Stored, Above, Known
  <2> QED
    BY <2>2, <2>3
<1>10. (\A x \in secured' : Height[finalized'] < Height[x]) /\ FinalInv'
  <2>1. Height[Block]' = h
    BY <1>3 DEF h
  <2> QED
    BY <2>1, <1>1, <1>2, <1>3, <1>8 DEF FoundInv, FinalInv, Pruning
<1>11. latest(db') # Genesis
  <2>1. WellFormed(db')
    BY DEF StorageInv, TypeInv
  <2>2. h \in Stored(db')
    BY <1>6, <1>8 DEF Stored
  <2>3. latest(db') \in Blocks
    BY <2>1, <2>2, LatestIsTop
  <2> QED
    BY <2>3, HeightsOfBlocks
<1>12. ~Lost
  BY <1>2, <1>5, <1>6, HeightsOfBlocks DEF Lost, h
<1>13. HeldInv'
  <2>1. ASSUME NEW x, Held(x) PROVE Held(x)'
    <3>1. Announcement("confirmed", x) # job.event
      BY <1>5 DEF Announcement
    <3> QED
      BY <2>1, <3>1, <1>1, <1>4, <1>8 DEF Held, Pruning, Kept
  <2> QED
    BY <2>1, <1>1, <1>4, <1>12 DEF FoundInv, Doomed, Pruning, HeldInv
<1> QED
  BY <1>9, <1>10, <1>11, <1>13 DEF FoundInv, LeadInv

(* store_raw_block refuses a block only when nothing is tracked any more.  *)
LEMMA FoundRefuse == StorageInv /\ FoundInv /\ RefuseFinalized => FoundInv'
<1> SUFFICES ASSUME StorageInv, FoundInv, RefuseFinalized PROVE FoundInv'
  OBVIOUS
<1>1. /\ job.step = "raw" /\ IsFinalized /\ Height[Block] # Height[latest(db)] + 1
      /\ job' = Idle
      /\ UNCHANGED <<finalized, secured, announcements, channel, db, dbdisk, lagged>>
  BY DEF RefuseFinalized, finalityvars, disks
<1>2. Lost
  BY <1>1, FirstContinues DEF StorageInv, QueueInv
<1>3. job'.step = "idle"
  BY <1>1 DEF Idle
<1>4. Waiting = {job.event} \cup Waiting'
  BY <1>1, <1>3, DropFirst DEF StorageInv, QueueInv
<1>5. Lost'
  BY <1>1, <1>2, <1>4 DEF Lost
<1>6. Complete(db)' /\ Complete(dbdisk)'
  BY <1>1 DEF FoundInv, Complete, Stored, Above, Known
<1>7. (\A x \in secured' : Height[finalized'] < Height[x]) /\ FinalInv'
  BY <1>1, <1>3 DEF FoundInv, FinalInv, Pruning
<1> QED
  BY <1>5, <1>6, <1>7 DEF FoundInv

(* store_outputs: the height of the block at hand has outputs afterwards.  *)
LEMMA FoundOutputs == StorageInv /\ FoundInv /\ StoreOutputs => FoundInv'
<1> SUFFICES ASSUME StorageInv, FoundInv, StoreOutputs PROVE FoundInv'
  OBVIOUS
<1> DEFINE b == Block
           h == Height[b]
<1>1. /\ job.step = "details"
      /\ IF db.outputs[h] = None THEN Store("outputs", h, b) ELSE UNCHANGED db
      /\ job' = [job EXCEPT !.step = "outputs"]
      /\ UNCHANGED <<finalized, secured, announcements, channel, dbdisk, lagged>>
  BY DEF StoreOutputs, Continue, finalityvars, disks
<1>2. /\ WellFormed(db) /\ job \in Jobs /\ b \in Blocks
  BY <1>1, NoticeFacts DEF StorageInv, TypeInv, Jobs, Idle, Block
<1>3. /\ job'.step = "outputs" /\ job'.event = job.event
      /\ Block' = b /\ (IsFinalized' <=> IsFinalized) /\ Waiting' = Waiting
  BY <1>1, <1>2 DEF Jobs, Block, IsFinalized, Waiting, Work, Current
<1>4. h \in Heights /\ b # None
  BY <1>2, HeightsOfBlocks DEF None
<1>5. b = Block /\ Height[b] = h
  OBVIOUS
<1> HIDE DEF b, h
<1>6. /\ db'.finalized = db.finalized /\ db'.hashes = db.hashes
      /\ \A g \in Heights : g # h => db'.outputs[g] = db.outputs[g]
      /\ db'.outputs[h] = IF db.outputs[h] = None THEN b ELSE db.outputs[h]
  <2>1. DOMAIN db = {"confirmed", "finalized", "outputs", "hashes"}
    BY <1>2 DEF WellFormed
  <2>2. CASE db.outputs[h] = None
    <3>1. Store("outputs", h, b)
      BY <2>2, <1>1
    <3>2. /\ DOMAIN db' = DOMAIN db
          /\ db'["outputs"] = [db["outputs"] EXCEPT ![h] = b]
          /\ db'["outputs"][h] = b
          /\ \A g \in Heights : g # h => db'["outputs"][g] = db["outputs"][g]
          /\ \A u \in DOMAIN db : u # "outputs" => db'[u] = db[u]
      BY <3>1, <1>2, <1>4, StoreChanges
    <3> QED
      BY <2>1, <2>2, <3>2
  <2>3. CASE db.outputs[h] # None
    BY <2>3, <1>1
  <2> QED
    BY <2>2, <2>3
<1>7. latest(db') = latest(db) /\ Complete(db)' /\ Complete(dbdisk)'
  <2>1. latest(db') = latest(db)
    BY <1>6, LatestKept
  <2>2. Stored(db') = Stored(db) /\ Stored(db) \subseteq Heights
    BY <1>6 DEF Stored
  <2>3. \A g \in Heights : db.outputs[g] # None => db'.outputs[g] # None
    BY <1>6
  <2>4. \A g \in Heights : db'.outputs[g] # None => Height[db'.outputs[g]] = g
    BY <1>5, <1>6 DEF FoundInv, Complete
  <2>5. \A g \in Heights : Above(db, g) => Above(db', g)
    BY StepOutputs, HeightsOfBlocks DEF Growing
  <2>6. Complete(db')
    BY <2>2, <2>3, <2>4, <2>5, <1>6 DEF FoundInv, Complete
  <2>7. Complete(dbdisk')
    BY <1>1 DEF FoundInv, Complete, Stored, Above, Known
  <2> QED
    BY <2>1, <2>6, <2>7
<1>8. (\A x \in secured' : Height[finalized'] < Height[x]) /\ FinalInv'
  BY <1>1, <1>3, <1>5, <1>6 DEF FoundInv, FinalInv, Pruning
<1>9. Lost => Lost'
  BY <1>1, <1>3, <1>7 DEF Lost
<1>10. HeldInv => HeldInv'
  <2>1. ASSUME NEW x \in Blocks, Held(x) PROVE Held(x)'
    <3>1. Height[x] \in Heights
      BY HeightsOfBlocks
    <3>2. Kept(x) => Kept(x)'
      BY <3>1, <1>6 DEF Kept
    <3>3. x = b => Kept(x)'
      BY <1>4, <1>5, <1>6 DEF Kept
    <3> QED
      BY <2>1, <3>2, <3>3, <1>1, <1>3, <1>5, <1>6 DEF Held, Pruning
  <2>2. \A e \in Waiting : e.block \in Blocks
    BY WorkIsSeq, NoticeFacts DEF StorageInv
  <2> QED
    BY <2>1, <2>2, <1>1, <1>3 DEF HeldInv, StorageInv, TypeInv
<1>11. LeadInv => LeadInv'
  BY <1>1, <1>3, <1>5, <1>7 DEF LeadInv, Pruning
<1> QED
  BY <1>1, <1>7, <1>8, <1>9, <1>10, <1>11 DEF FoundInv, Doomed, Pruning

(* The block at hand has its outputs already; now its hash is stored.      *)
LEMMA FoundHash == StorageInv /\ FoundInv /\ StoreHash => FoundInv'
<1> SUFFICES ASSUME StorageInv, FoundInv, StoreHash PROVE FoundInv'
  OBVIOUS
<1>1. /\ job.step = "hash" /\ job' = Idle
      /\ db' = [db EXCEPT !.hashes = db.hashes \cup {Block}]
      /\ UNCHANGED <<finalized, secured, announcements, channel, dbdisk, lagged>>
  BY DEF StoreHash, AddHash, finalityvars, disks
<1>2. job'.step = "idle" /\ Waiting' = Waiting
  BY <1>1 DEF Idle, Waiting, Work, Current
<1>3. /\ db'.hashes = db.hashes \cup {Block}
      /\ db'.finalized = db.finalized /\ db'.outputs = db.outputs
  <2>1. DOMAIN db = {"confirmed", "finalized", "outputs", "hashes"}
    BY DEF StorageInv, TypeInv, WellFormed
  <2> QED
    BY <2>1, <1>1
<1>4. latest(db') = latest(db) /\ Complete(db)' /\ Complete(dbdisk)'
  <2>1. latest(db') = latest(db) /\ Stored(db') = Stored(db)
    BY <1>3, LatestKept DEF Stored
  <2>2. Complete(db')
    BY <1>3, StepHash, CompleteKept DEF FoundInv
  <2>3. Complete(dbdisk')
    BY <1>1 DEF FoundInv, Complete, Stored, Above, Known
  <2> QED
    BY <2>1, <2>2, <2>3
<1>5. (\A x \in secured' : Height[finalized'] < Height[x]) /\ FinalInv'
  BY <1>1, <1>2 DEF FoundInv, FinalInv, Pruning
<1>6. Lost => Lost'
  BY <1>1, <1>2, <1>4 DEF Lost
<1>7. HeldInv => HeldInv'
  <2>1. \A x : Held(x) => Held(x)'
    BY <1>1, <1>2, <1>3 DEF Held, Pruning, Kept
  <2> QED
    BY <2>1, <1>1, <1>2 DEF HeldInv
<1>8. LeadInv => LeadInv'
  BY <1>2, <1>4 DEF LeadInv, Pruning
<1> QED
  BY <1>1, <1>4, <1>5, <1>6, <1>7, <1>8 DEF FoundInv, Doomed, Pruning

(* prune_older_than.  While nothing is finalized in the store nothing is   *)
(* old, because no block is confirmed so far up.  Later a tracked block is *)
(* above the latest one: either it is not old, or all finalized blocks are *)
(* and the store is about to lose its chain.                               *)
LEMMA FoundPrune ==
    ASSUME StorageInv, FoundInv, PruneOlderThan, StorageInv', Growing, Lead <= HistoryLen + 1
    PROVE  FoundInv'
<1> DEFINE b == Block
           top == latest(db)
           Old(n) == n < Height[b] - HistoryLen
<1>1. /\ job.step \in Pruning /\ job'.step \in Pruning \cup {"hash"}
      /\ job' \in Jobs /\ job'.event = job.event /\ Block' = b
      /\ (IsFinalized' <=> IsFinalized)
      /\ UNCHANGED <<finalized, secured, announcements, channel, dbdisk, lagged>>
  BY StepsPrune DEF Prunes, Block, IsFinalized
<1>2. /\ \A g \in Heights :
            /\ db'.finalized[g] = db.finalized[g] \/ (db'.finalized[g] = None /\ Old(g))
            /\ db'.outputs[g] = db.outputs[g] \/ (db'.outputs[g] = None /\ Old(g))
      /\ db'.hashes \subseteq db.hashes
      /\ \A c \in db.hashes \ db'.hashes : Old(Height[c])
      /\ job'.step = "hash" => \A g \in Stored(db') : ~Old(g)
  BY StepsPrune DEF Prunes, IsBelow, Pruning
<1>3. /\ TypeInv /\ WellFormed(db) /\ WellFormed(db') /\ job \in Jobs /\ b \in Blocks
  BY <1>1, NoticeFacts DEF StorageInv, TypeInv, Jobs, Idle, Block, Pruning
<1>4. /\ job.step \notin {"raw", "insert", "details"}
      /\ job'.step \notin {"raw", "insert", "details"} /\ Waiting' = Waiting
  BY <1>1 DEF Pruning, Waiting, Work, Current
<1>5. /\ Height[b] \in Heights /\ Height[b] \in Nat /\ HistoryLen \in Nat
      /\ top \in Blocks \cup {Genesis} /\ Height[top] \in Nat
      /\ \A g \in Stored(db) : g <= Height[top]
      /\ Stored(db) # {} => top \in Blocks
  BY <1>3, HeightsOfBlocks, LatestIsTop
<1>6. b = Block /\ top = latest(db) /\ b \in {db'.confirmed[Height[b]], db'.finalized[Height[b]]}
  <2>1. b \in {db.confirmed[Height[b]], db.finalized[Height[b]]}
    BY <1>1 DEF StorageInv, JobInv
  <2>2. b # None /\ ~Old(Height[b])
    BY <1>3, <1>5, HeightsOfBlocks DEF None
  <2>3. db'.confirmed[Height[b]] = db.confirmed[Height[b]] \/ Old(Height[b])
    BY <1>5, StepsPrune DEF Prunes, IsBelow, Pruning
  <2>4. db'.finalized[Height[b]] = db.finalized[Height[b]]
    BY <2>2, <1>2, <1>5
  <2> QED
    BY <2>1, <2>2, <2>3, <2>4
<1>7. \A n : Old(n) => Above(db', n)
  <2>1. b \in Known(db')
    BY <1>3, <1>5, <1>6 DEF Known
  <2> QED
    BY <2>1 DEF Above
<1> HIDE DEF b, top
<1>8. Stored(db') \subseteq Stored(db) /\ \A g \in Stored(db) \ Stored(db') : Old(g)
  BY <1>2 DEF Stored
<1>10. ASSUME NEW x \in Blocks, ~Old(Height[x])
       PROVE  (x \in db.hashes => x \in db'.hashes) /\ (Kept(x) => Kept(x)')
  <2>1. x # None /\ Height[x] \in Heights
    BY HeightsOfBlocks DEF None
  <2>2. x \in db.hashes => x \in db'.hashes
    BY <2>1, <1>2, <1>10
  <2>3. Kept(x) => Kept(x)'
    BY <2>1, <1>2, <1>10 DEF Kept
  <2> QED
    BY <2>2, <2>3
<1>11. Complete(db)' /\ Complete(dbdisk)'
  <2>1. ASSUME NEW g \in Stored(db')
        PROVE  \/ db'.finalized[g] \in db'.hashes /\ db'.outputs[g] # None
               \/ Above(db', g)
    <3>1. g \in Heights /\ db'.finalized[g] = db.finalized[g] /\ db.finalized[g] # None
          /\ g \in Nat
      BY <1>2, HeightsOfBlocks DEF Stored
    <3>2. CASE Old(g) \/ Above(db, g)
      BY <3>1, <3>2, <1>7 DEF Growing
    <3>3. CASE ~Old(g) /\ db.finalized[g] \in db.hashes /\ db.outputs[g] # None
      <4>1. db.finalized[g] \in Blocks /\ Height[db.finalized[g]] = g
        BY <3>1, <1>3 DEF WellFormed
      <4>2. db.finalized[g] \in db'.hashes
        BY <3>3, <4>1, <1>10
      <4> QED
        BY <3>1, <3>3, <4>2, <1>2
    <3> QED
      BY <3>1, <3>2, <3>3 DEF FoundInv, Complete, Stored, Above, Known
  <2>2. \A g \in Heights : db'.outputs[g] # None => Height[db'.outputs[g]] = g
    BY <1>2 DEF FoundInv, Complete
  <2>3. Complete(db')
    BY <2>1, <2>2 DEF Complete
  <2>4. Complete(dbdisk')
    BY <1>1 DEF FoundInv, Complete, Stored, Above, Known
  <2> QED
    BY <2>3, <2>4
<1>12. (\A x \in secured' : Height[finalized'] < Height[x]) /\ FinalInv'
  <2>1. IsFinalized => db'.finalized[Height[b]] = b
    BY <1>1, <1>2, <1>5, <1>6 DEF FoundInv, FinalInv, Pruning
  <2> QED
    BY <2>1, <1>1, <1>4, <1>6 DEF FoundInv, FinalInv, Pruning
<1>13. ASSUME NEW x \in Blocks, ~Old(Height[x]), Held(x) PROVE Held(x)'
  BY <1>1, <1>4, <1>6, <1>10, <1>13 DEF Held, Pruning
<1>14. ASSUME \A x \in secured : ~Old(Height[x]),
              \A e \in Waiting : e.kind = "finalized" => ~Old(Height[e.block])
       PROVE  HeldInv => HeldInv'
  <2>1. \A e \in Waiting : e.block \in Blocks
    BY <1>3, WorkIsSeq, NoticeFacts
  <2>2. secured \subseteq Blocks
    BY <1>3 DEF TypeInv
  <2> QED
    BY <2>1, <2>2, <1>1, <1>4, <1>13, <1>14 DEF HeldInv
<1>15. \A x \in secured : x \in Blocks /\ Height[x] \in Nat /\ Height[top] < Height[x]
  <2>1. Height[finalized] \in Nat /\ Height[top] <= Height[finalized] /\ secured \subseteq Blocks
    BY <1>3, <1>6, HeightsOfBlocks DEF StorageInv, TypeInv, QueueInv
  <2> QED
    BY <2>1, <1>5, HeightsOfBlocks DEF FoundInv
<1>16. \A e \in Waiting : e.block \in Blocks /\ Height[e.block] \in Nat
                          /\ Height[top] < Height[e.block]
  BY <1>3, <1>6, WorkIsSeq, NoticeFacts DEF StorageInv, QueueInv
<1>17. CASE top = Genesis
  <2>1. Stored(db) = {}
    BY <1>5, <1>17, HeightsOfBlocks
  <2>2. Stored(db') = {}
    BY <2>1, <1>8
  <2>3. latest(db') = Genesis
    BY <2>2, <1>3, LatestIsTop
  <2>4. Lost => Lost'
    BY <2>3, <1>1, <1>4 DEF Lost
  <2>5. ASSUME ~Lost PROVE HeldInv' /\ LeadInv'
    <3>1. ~IsFinalized
      BY <2>1, <1>1, <1>3, <1>5, <1>6, HeightsOfBlocks DEF FoundInv, FinalInv, Pruning, Stored, None
    <3>2. LeadInv /\ HeldInv
      BY <2>5, <1>6, <1>17 DEF FoundInv, Doomed
    <3>3. Height[b] <= Lead
      BY <3>1, <3>2, <1>1, <1>6, <1>17 DEF LeadInv, Pruning
    <3>4. \A n \in Nat : n >= 1 => ~Old(n)
      BY <3>3, <1>5, StorageAssumption
    <3>5. HeldInv'
      BY <3>2, <3>4, <1>14, <1>15, <1>16, HeightsOfBlocks
    <3>6. LeadInv'
      BY <3>2, <3>3, <1>1, <1>4, <1>6, <1>17 DEF LeadInv, Pruning
    <3> QED
      BY <3>5, <3>6
  <2> QED
    BY <2>4, <2>5, <1>11, <1>12 DEF FoundInv
<1>18. CASE top # Genesis /\ Old(Height[top])
  <2>1. CASE Stored(db') = {}
    <3>1. latest(db') = Genesis
      BY <2>1, <1>3, LatestIsTop
    <3>2. lagged
      BY <1>1, <1>5, <1>6, <1>18 DEF StorageInv, JobInv
    <3>3. Height[top] >= 1
      BY <1>5, <1>18, HeightsOfBlocks
    <3>4. Height[finalized] >= 1
      BY <3>3, <1>3, <1>5, <1>6, HeightsOfBlocks DEF StorageInv, QueueInv, TypeInv
    <3>5. \A e \in Waiting : Height[e.block] >= 2
      BY <3>3, <1>5, <1>16
    <3>6. Lost'
      BY <3>1, <3>2, <3>4, <3>5, <1>1, <1>4 DEF Lost
    <3> QED
      BY <3>6, <1>11, <1>12 DEF FoundInv
  <2>2. CASE Stored(db') # {}
    <3>1. latest(db') \in Blocks /\ Height[latest(db')] \in Stored(db')
          /\ Height[latest(db')] \in Nat
      BY <2>2, <1>3, LatestIsTop
    <3>2. Height[latest(db')] <= Height[top]
      BY <3>1, <1>5, <1>8
    <3>3. Old(Height[latest(db')])
      BY <3>1, <3>2, <1>5, <1>18
    <3>4. job'.step \in Pruning
      BY <3>1, <3>3, <1>1, <1>2
    <3>5. latest(db') # Genesis
      BY <3>1, HeightsOfBlocks
    <3>6. Doomed'
      BY <3>3, <3>4, <3>5, <1>1 DEF Doomed
    <3> QED
      BY <3>6, <1>11, <1>12 DEF FoundInv
  <2> QED
    BY <2>1, <2>2
<1>19. CASE top # Genesis /\ ~Old(Height[top])
  <2>1. ~Lost /\ ~Doomed
    BY <1>6, <1>19 DEF Lost, Doomed
  <2>2. \A n \in Nat : Height[top] < n => ~Old(n)
    BY <1>5, <1>19
  <2>3. HeldInv'
    BY <2>1, <2>2, <1>14, <1>15, <1>16 DEF FoundInv
  <2>4. latest(db') # Genesis
    <3>1. Stored(db) # {}
      BY <1>3, <1>6, <1>19, LatestIsTop
    <3>2. Height[top] \in Stored(db)
      BY <3>1, <1>3, <1>6, LatestIsTop
    <3>3. Height[top] \in Stored(db')
      BY <3>2, <1>8, <1>19
    <3>4. latest(db') \in Blocks
      BY <3>3, <1>3, LatestIsTop
    <3> QED
      BY <3>4, HeightsOfBlocks
  <2> QED
    BY <2>3, <2>4, <1>11, <1>12 DEF FoundInv, LeadInv
<1> QED
  BY <1>17, <1>18, <1>19

LEMMA FoundNext ==
    ASSUME StorageInv, FoundInv, [Next]_storagevars, Detailed, Lead <= HistoryLen + 1
    PROVE  FoundInv'
<1>1. StorageInv'
  BY StorageNext
<1>2. CASE UNCHANGED storagevars \/ FlushState \/ FlushBlocks \/ RunLoop
  BY <1>2, FoundQuiet
<1>3. ASSUME NEW b \in Blocks, ConfirmBlock(b) PROVE FoundInv'
  BY <1>3, FoundConfirm
<1>4. ASSUME NEW b \in Blocks, FinalizeBlock(b) PROVE FoundInv'
  BY <1>4, FoundFinalize
<1>5. CASE Consume
  <2>1. CASE Receive
    BY <2>1, FoundQuiet
  <2>2. CASE StoreConfirmed
    BY <2>2, FoundStoreConfirmed
  <2>3. CASE BeginStoreFinalized
    BY <2>3, FoundBeginStore
  <2>4. CASE EndStoreFinalized
    BY <2>4, <1>1, FoundEndStore
  <2>5. CASE RefuseFinalized
    BY <2>5, FoundRefuse
  <2>6. CASE StoreOutputs
    BY <2>6, FoundOutputs
  <2>7. CASE PruneOlderThan
    BY <2>7, <1>1, StepPrune, FoundPrune
  <2>8. CASE StoreHash
    BY <2>8, FoundHash
  <2> QED
    BY <2>1, <2>2, <2>3, <2>4, <2>5, <2>6, <2>7, <2>8, <1>5 DEF Consume
<1>6. CASE Restart
  BY <1>6, FoundRestart
<1> QED
  BY <1>2, <1>3, <1>4, <1>5, <1>6 DEF Next

(* get_by_hash finds every finalized block that the store keeps and that   *)
(* is not below its history, with the outputs that belong to it, between   *)
(* any two writes of BlockStore::consume and after a crash between them:   *)
(* for a store with outputs (BlockStore.detailed), if no two blocks have   *)
(* one height, and if the votes run no further ahead of the store than its *)
(* history and one block.                                                  *)
THEOREM StoredBlocksAreFound ==
    Detailed /\ OneChain /\ Lead <= HistoryLen + 1 /\ Spec => []FinalizedBlocksAreFound
<1> SUFFICES ASSUME Detailed, OneChain, Lead <= HistoryLen + 1
             PROVE  Spec => []FinalizedBlocksAreFound
  OBVIOUS
<1>1. Init => FoundInv
  BY FoundInit
<1>2. StorageInv /\ FoundInv /\ [Next]_storagevars => FoundInv'
  BY FoundNext
<1>3. StorageInv /\ FoundInv => FinalizedBlocksAreFound
  <2> SUFFICES ASSUME StorageInv, FoundInv, NEW h \in Heights, db.finalized[h] # None,
                      ~Outgrown(h)
               PROVE  Found(db.finalized[h])
    BY DEF FinalizedBlocksAreFound
  <2> DEFINE b == db.finalized[h]
  <2>1. /\ WellFormed(db) /\ b \in Blocks /\ Height[b] = h /\ h \in Stored(db)
    BY DEF StorageInv, TypeInv, WellFormed, Stored
  <2>2. b \in db.hashes /\ db.outputs[h] # None /\ Height[db.outputs[h]] = h
    BY <2>1, AboveIsOutgrown DEF FoundInv, Complete
  <2>3. db.outputs[h] \in Blocks
    BY <2>1, <2>2 DEF WellFormed
  <2>4. db.outputs[h] = b
    BY <2>1, <2>2, <2>3 DEF OneChain
  <2>5. h <= Height[latest(db)] /\ Height[latest(db)] \in Nat /\ h \in Nat
    BY <2>1, LatestIsTop, HeightsOfBlocks
  <2>6. db.confirmed[h] = None
    BY <2>5 DEF StorageInv, Sound
  <2> QED
    BY <2>1, <2>2, <2>4, <2>6 DEF Found
<1> QED
  BY <1>1, <1>2, <1>3, StorageInvariant, PTL DEF Spec
=============================================================================
