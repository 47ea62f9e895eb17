--------------------------- MODULE Machine_proofs ---------------------------
(***************************************************************************)
(* Proofs about the state and the execution of blocks, for any accounts,   *)
(* transactions and validators.  First what the views of the state have in *)
(* common, for every set of addresses and every list of blocks; then what  *)
(* transactions and blocks may do to accounts; then the validators.        *)
(***************************************************************************)
EXTENDS Machine, SequenceFacts, WellFoundedInduction, SequenceTheorems

(* Whether a difference has written the account a.                         *)
Wrote(diff, a) == diff.data[a].exists

(* No block of a list but the first has written it.                        *)
OnlyFirst(diffs, a) == \A i \in 2..Len(diffs) : ~Wrote(diffs[i], a)

-----------------------------------------------------------------------------
(* Merging the differences of two blocks and applying the result to the    *)
(* persistent state (StateDiff::merge, PersistentState::apply) is applying *)
(* one after the other: writes after deletes and deletes after writes, in  *)
(* whichever of the two they are.                                          *)
THEOREM MergeIsComposition ==
    ASSUME NEW below, NEW older, NEW newer
    PROVE  Applied(below, Merge(older, newer)) = Applied(Applied(below, older), newer)
<1>1. ASSUME NEW a \in Addresses
      PROVE  Applied(below, Merge(older, newer))[a] = Applied(Applied(below, older), newer)[a]
    <2>1. CASE a \in newer.deletes
        BY <2>1 DEF Applied, Merge
    <2>2. CASE a \notin newer.deletes /\ newer.data[a].exists
        BY <2>2 DEF Applied, Merge
    <2>3. CASE a \notin newer.deletes /\ ~newer.data[a].exists
        BY <2>3 DEF Applied, Merge
    <2> QED BY <2>1, <2>2, <2>3
<1> QED BY <1>1 DEF Applied

-----------------------------------------------------------------------------
(* The newest of some blocks: a set of positions has a largest one.        *)
LEMMA Largest ==
    ASSUME NEW n \in Nat, NEW S, S \subseteq 1..n, S # {}
    PROVE  \E i \in S : \A j \in S : j <= i
<1>. DEFINE T == {n - i : i \in S}
<1>1. T \subseteq Nat /\ T # {} BY SMT
<1>2. \E x \in T : \A y \in T : ~(<<y, x>> \in OpToRel(<, Nat))
    BY <1>1, NatLessThanWellFounded, WFMin
<1>3. PICK x \in T : \A y \in T : ~(y < x)
    BY <1>1, <1>2 DEF OpToRel
<1>4. PICK i \in S : x = n - i OBVIOUS
<1>5. \A j \in S : j <= i BY <1>3, <1>4
<1> QED BY <1>5

(* CascadingState::get: the newest writer answers, or else the base.       *)
LEMMA CascadeReads ==
    ASSUME NEW below, NEW D, NEW diffs \in Seq(D), NEW a \in Addresses,
           NEW i \in 1..Len(diffs), Wrote(diffs[i], a),
           \A j \in 1..Len(diffs) : Wrote(diffs[j], a) => j <= i
    PROVE  CascadingState(below, diffs)[a] = diffs[i].data[a]
<1>. DEFINE Newest(k) == /\ diffs[k].data[a].exists
                        /\ \A j \in DOMAIN diffs : diffs[j].data[a].exists => j <= k
           chosen == CHOOSE k \in DOMAIN diffs : Newest(k)
<1>1. DOMAIN diffs = 1..Len(diffs) OBVIOUS
<1>2. Newest(i) BY <1>1 DEF Wrote
<1>3. chosen \in DOMAIN diffs /\ Newest(chosen)
    BY <1>1, <1>2
<1>. HIDE DEF chosen
<1>4. chosen = i
    <2>1. chosen \in 1..Len(diffs) BY <1>1, <1>3
    <2>2. chosen <= i BY <1>1, <1>3 DEF Wrote
    <2>3. i <= chosen BY <1>1, <1>2, <1>3
    <2> QED BY <2>1, <2>2, <2>3
<1>5. CascadingState(below, diffs)[a] = diffs[chosen].data[a]
    BY <1>1, <1>2 DEF CascadingState, Wrote, chosen
<1> QED BY <1>4, <1>5

LEMMA CascadeFallsThrough ==
    ASSUME NEW below, NEW D, NEW diffs \in Seq(D), NEW a \in Addresses,
           \A j \in 1..Len(diffs) : ~Wrote(diffs[j], a)
    PROVE  CascadingState(below, diffs)[a] = below[a]
<1>1. DOMAIN diffs = 1..Len(diffs) OBVIOUS
<1> QED BY <1>1 DEF CascadingState, Wrote

LEMMA NewestWriter ==
    ASSUME NEW D, NEW diffs \in Seq(D), NEW a,
           NEW k \in 1..Len(diffs), Wrote(diffs[k], a)
    PROVE  \E i \in 1..Len(diffs) :
               Wrote(diffs[i], a) /\ \A j \in 1..Len(diffs) : Wrote(diffs[j], a) => j <= i
<1>. DEFINE S == {i \in 1..Len(diffs) : Wrote(diffs[i], a)}
<1>1. S \subseteq 1..Len(diffs) /\ S # {} /\ Len(diffs) \in Nat OBVIOUS
<1>2. PICK i \in S : \A j \in S : j <= i
    <2>. HIDE DEF S
    <2> QED BY <1>1, Largest, Zenon
<1> QED BY <1>2

(* The cascading view of a path with one more block (forktree.rs) is the   *)
(* overlay of that block on the view of the path (Overlayed, state.rs):    *)
(* the two ways in which the code reads through blocks agree.              *)
THEOREM CascadeIsOverlay ==
    ASSUME NEW below, NEW D, NEW diffs \in Seq(D), NEW diff \in D
    PROVE  CascadingState(below, Append(diffs, diff)) =
           Overlayed(CascadingState(below, diffs), diff)
<1>. DEFINE path == Append(diffs, diff)
           n == Len(diffs)
<1>1. /\ path \in Seq(D) /\ Len(path) = n + 1 /\ n \in Nat
      /\ path[n + 1] = diff /\ \A i \in 1..n : path[i] = diffs[i]
    BY AppendProperties
<1>. HIDE DEF path
<1>2. ASSUME NEW a \in Addresses
      PROVE  CascadingState(below, path)[a] = Overlayed(CascadingState(below, diffs), diff)[a]
    <2>1. CASE Wrote(diff, a)
        <3>1. CascadingState(below, path)[a] = path[n + 1].data[a]
            BY <1>1, <2>1, CascadeReads
        <3> QED BY <1>1, <2>1, <3>1 DEF Overlayed, Wrote
    <2>2. CASE ~Wrote(diff, a) /\ \A j \in 1..n : ~Wrote(diffs[j], a)
        <3>1. \A j \in 1..Len(path) : ~Wrote(path[j], a)
            BY <1>1, <2>2
        <3>2. CascadingState(below, path)[a] = below[a]
            BY <1>1, <3>1, CascadeFallsThrough
        <3>3. CascadingState(below, diffs)[a] = below[a]
            BY <2>2, CascadeFallsThrough
        <3> QED BY <2>2, <3>2, <3>3 DEF Overlayed, Wrote
    <2>3. CASE ~Wrote(diff, a) /\ \E j \in 1..n : Wrote(diffs[j], a)
        <3>1. PICK i \in 1..n : Wrote(diffs[i], a) /\ \A j \in 1..n : Wrote(diffs[j], a) => j <= i
            BY <1>1, <2>3, NewestWriter
        <3>2. CascadingState(below, diffs)[a] = diffs[i].data[a]
            BY <3>1, CascadeReads
        <3>3. /\ i \in 1..Len(path) /\ Wrote(path[i], a)
              /\ \A j \in 1..Len(path) : Wrote(path[j], a) => j <= i
            BY <1>1, <2>3, <3>1
        <3>4. CascadingState(below, path)[a] = path[i].data[a]
            BY <1>1, <3>3, CascadeReads
        <3> QED BY <1>1, <2>3, <3>1, <3>2, <3>4 DEF Overlayed, Wrote
    <2> QED BY <2>1, <2>2, <2>3
<1> QED BY <1>2, Zenon DEF CascadingState, Overlayed, path

-----------------------------------------------------------------------------
(* Finalized::apply moves the oldest block from the list of volatile       *)
(* blocks to the persistent state.  What is read at the head afterwards is *)
(* what was read before, up to the field that the disk does not keep, with *)
(* one exception: an account that the block deleted and that no later      *)
(* block has written is gone, while it could be read before.               *)
THEOREM FinalizationKeepsTheView ==
    ASSUME NEW below, NEW D, NEW diffs \in Seq(D), diffs # <<>>, NEW a \in Addresses
    PROVE  LET before == CascadingState(below, diffs)[a]
               after == CascadingState(Applied(below, Head(diffs)), Tail(diffs))[a] IN
           IF a \in Head(diffs).deletes /\ OnlyFirst(diffs, a)
           THEN after = NoAccount
           ELSE Persisted(after) = Persisted(before)
<1>. DEFINE rest == Tail(diffs)
           applied == Applied(below, Head(diffs))
           n == Len(rest)
<1>1. /\ rest \in Seq(D) /\ n \in Nat /\ Len(diffs) = n + 1
      /\ \A i \in 1..n : rest[i] = diffs[i + 1]
      /\ Head(diffs) = diffs[1]
    BY HeadTailProperties, LenProperties
<1>. HIDE DEF rest, applied
<1>2. CASE OnlyFirst(diffs, a)
    <2>1. \A j \in 1..n : ~Wrote(rest[j], a)
        BY <1>1, <1>2 DEF OnlyFirst
    <2>2. CascadingState(applied, rest)[a] = applied[a]
        BY <1>1, <2>1, CascadeFallsThrough
    <2>3. CASE a \in Head(diffs).deletes
        BY <1>2, <2>2, <2>3 DEF applied, Applied, rest
    <2>4. CASE a \notin Head(diffs).deletes /\ Wrote(diffs[1], a)
        <3>1. CascadingState(below, diffs)[a] = diffs[1].data[a]
            <4>1. 1 \in 1..Len(diffs) /\ \A j \in 1..Len(diffs) : Wrote(diffs[j], a) => j <= 1
                BY <1>1, <1>2 DEF OnlyFirst
            <4> QED BY <2>4, <4>1, CascadeReads
        <3>2. applied[a] = Persisted(diffs[1].data[a])
            BY <1>1, <2>4 DEF applied, Applied, Wrote
        <3>3. Persisted(Persisted(diffs[1].data[a])) = Persisted(diffs[1].data[a])
            BY DEF Persisted
        <3> QED BY <2>2, <2>4, <3>1, <3>2, <3>3 DEF applied, rest
    <2>5. CASE a \notin Head(diffs).deletes /\ ~Wrote(diffs[1], a)
        <3>1. \A j \in 1..Len(diffs) : ~Wrote(diffs[j], a)
            BY <1>1, <1>2, <2>5 DEF OnlyFirst
        <3>2. CascadingState(below, diffs)[a] = below[a]
            BY <3>1, CascadeFallsThrough
        <3>3. applied[a] = below[a]
            BY <1>1, <2>5 DEF applied, Applied, Wrote
        <3> QED BY <2>2, <2>5, <3>2, <3>3 DEF applied, rest
    <2> QED BY <2>3, <2>4, <2>5
<1>3. CASE ~OnlyFirst(diffs, a)
    <2>1. \E k \in 1..n : Wrote(rest[k], a)
        <3>1. PICK i \in 2..Len(diffs) : Wrote(diffs[i], a)
            BY <1>3 DEF OnlyFirst
        <3>2. i - 1 \in 1..n /\ rest[i - 1] = diffs[i]
            BY <1>1, <3>1
        <3> QED BY <3>1, <3>2
    <2>2. PICK i \in 1..n : Wrote(rest[i], a) /\ \A j \in 1..n : Wrote(rest[j], a) => j <= i
        BY <1>1, <2>1, NewestWriter
    <2>3. CascadingState(applied, rest)[a] = rest[i].data[a]
        BY <1>1, <2>2, CascadeReads
    <2>4. i + 1 \in 1..Len(diffs) /\ Wrote(diffs[i + 1], a)
        BY <1>1, <2>2
    <2>5. ASSUME NEW j \in 1..Len(diffs), Wrote(diffs[j], a) PROVE j <= i + 1
        <3>1. CASE j = 1 BY <1>1, <3>1
        <3>2. CASE j # 1
            <4>1. j - 1 \in 1..n /\ rest[j - 1] = diffs[j] BY <1>1, <3>2
            <4>2. j - 1 <= i BY <2>2, <2>5, <4>1
            <4> QED BY <1>1, <4>2
        <3> QED BY <3>1, <3>2
    <2>6. CascadingState(below, diffs)[a] = diffs[i + 1].data[a]
        BY <2>4, <2>5, CascadeReads
    <2> QED BY <1>1, <1>3, <2>3, <2>6 DEF applied, rest
<1> QED BY <1>2, <1>3

-----------------------------------------------------------------------------
(***************************************************************************)
(* Accounts that the chain can have.  None is a contract, and none holds   *)
(* bytecode: WasmContract fails on every input.                            *)
(***************************************************************************)
Amounts == 0..MaxAmount
PlainData == {x \in Data : x.kind \notin {"bytecode", "code"}}
PlainAccounts ==
    {x \in Accounts : /\ ~x.executable
                      /\ x.owner # Wasm
                      /\ x.data \in PlainData
                      /\ ~x.exists => x.nonce = 0}
PlainStates == [Addresses -> PlainAccounts]

(* A difference deletes no wallet, and what it deletes it has emptied.     *)
Emptied(x) == x.exists /\ x.data.kind = "coin" /\ x.data.balance = 0
PlainDiffs ==
    {d \in [data : PlainStates, deletes : SUBSET (Addresses \ Wallets)] :
        \A a \in d.deletes : Emptied(d.data[a])}

LEMMA AccountIsPlain ==
    ASSUME NEW nonce \in Nat, NEW owner \in Addresses \cup {None, Currency, Sha3},
           owner # Wasm, NEW data \in PlainData
    PROVE  Account(nonce, FALSE, owner, data) \in PlainAccounts
  BY DEF Account, PlainAccounts, Accounts, PlainData

LEMMA NoDataIsPlain == NoData \in PlainData /\ NoAccount \in PlainAccounts
<1>1. NoData \in Data
  BY AmountAssumption DEF NoData, Data
<1>2. NoData \in PlainData
  BY <1>1 DEF NoData, PlainData
<1> HIDE DEF NoData
<1>3. NoAccount \in Accounts
  BY <1>1 DEF NoAccount, Accounts
<1>4. Wasm # None
  BY MachineAssumption
<1> QED
  BY <1>2, <1>3, <1>4 DEF NoAccount, PlainAccounts

LEMMA EmptyIsPlain == EmptyDiff \in PlainDiffs
  BY NoDataIsPlain DEF EmptyDiff, PlainDiffs, PlainStates

LEMMA PlainFields ==
    ASSUME NEW x \in PlainAccounts
    PROVE  /\ x \in Accounts /\ x.exists \in BOOLEAN /\ x.nonce \in Nat
           /\ x.executable = FALSE
           /\ x.owner \in Addresses \cup {None, Currency, Sha3} /\ x.owner # Wasm
           /\ x.data \in PlainData
           /\ ~x.exists => x.nonce = 0
           /\ x = [exists |-> x.exists, nonce |-> x.nonce, executable |-> FALSE,
                   owner |-> x.owner, data |-> x.data]
  BY DEF PlainAccounts, Accounts

(* StateDiff::set, for an account that is there.                           *)
LEMMA SetIsPlain ==
    ASSUME NEW d \in PlainDiffs, NEW a \in Addresses, NEW x \in PlainAccounts
    PROVE  /\ Set(d, a, x) \in PlainDiffs
           /\ Set(d, a, x).data = [d.data EXCEPT ![a] = x]
  BY DEF Set, PlainDiffs, PlainStates

LEMMA MergeIsPlain ==
    ASSUME NEW d \in PlainDiffs, NEW e \in PlainDiffs
    PROVE  Merge(d, e) \in PlainDiffs
<1>1. ASSUME NEW a \in Addresses PROVE Merge(d, e).data[a] \in PlainAccounts
  BY DEF Merge, PlainDiffs, PlainStates
<1>2. Merge(d, e).deletes \in SUBSET (Addresses \ Wallets)
  BY DEF Merge, PlainDiffs
<1>3. ASSUME NEW a \in Merge(d, e).deletes PROVE Emptied(Merge(d, e).data[a])
  <2>1. a \in Addresses
    BY <1>2
  <2>2. CASE a \in e.deletes
    BY <2>1, <2>2 DEF Merge, PlainDiffs, Emptied
  <2>3. CASE a \notin e.deletes
    BY <2>1, <2>3, <1>3 DEF Merge, PlainDiffs
  <2> QED
    BY <2>2, <2>3
<1> QED
  BY <1>1, <1>2, <1>3 DEF Merge, PlainDiffs, PlainStates

(* The views of a plain state through plain differences are plain.         *)
LEMMA OverlayIsPlain ==
    ASSUME NEW S \in PlainStates, NEW d \in PlainDiffs
    PROVE  Overlayed(S, d) \in PlainStates
<1>1. ASSUME NEW a \in Addresses PROVE Overlayed(S, d)[a] \in PlainAccounts
  <2>1. S[a] \in PlainAccounts
    BY DEF PlainStates
  <2>2. d.data[a] \in PlainAccounts
    BY DEF PlainDiffs, PlainStates
  <2> QED
    BY <2>1, <2>2 DEF Overlayed
<1>2. Overlayed(S, d) = [a \in Addresses |-> Overlayed(S, d)[a]]
  BY SMTT(60) DEF Overlayed
<1> QED
  BY <1>1, <1>2 DEF PlainStates

LEMMA CascadeIsPlain ==
    ASSUME NEW S \in PlainStates, NEW diffs \in Seq(PlainDiffs)
    PROVE  CascadingState(S, diffs) \in PlainStates
<1>1. ASSUME NEW a \in Addresses PROVE CascadingState(S, diffs)[a] \in PlainAccounts
  <2>1. CASE \A j \in 1..Len(diffs) : ~Wrote(diffs[j], a)
    <3>1. CascadingState(S, diffs)[a] = S[a]
      BY <2>1, CascadeFallsThrough
    <3> QED
      BY <3>1 DEF PlainStates
  <2>2. CASE \E j \in 1..Len(diffs) : Wrote(diffs[j], a)
    <3>1. PICK i \in 1..Len(diffs) : /\ Wrote(diffs[i], a)
                                    /\ \A j \in 1..Len(diffs) : Wrote(diffs[j], a) => j <= i
      BY <2>2, NewestWriter
    <3>2. CascadingState(S, diffs)[a] = diffs[i].data[a]
      BY <3>1, CascadeReads
    <3>3. diffs[i] \in PlainDiffs
      OBVIOUS
    <3> QED
      BY <3>2, <3>3 DEF PlainDiffs, PlainStates
  <2> QED
    BY <2>1, <2>2
<1> QED
  BY <1>1 DEF CascadingState, PlainStates

LEMMA PersistedIsPlain ==
    ASSUME NEW x \in Accounts, x.owner # Wasm, x.data \in PlainData,
           ~x.exists => x.nonce = 0
    PROVE  /\ Persisted(x) \in PlainAccounts
           /\ Persisted(x).nonce = x.nonce
           /\ x \in PlainAccounts => Persisted(x) = x
  BY DEF Persisted, PlainAccounts, Accounts

LEMMA AppliedIsPlain ==
    ASSUME NEW S \in PlainStates, NEW d \in PlainDiffs
    PROVE  Applied(S, d) \in PlainStates
<1>1. ASSUME NEW a \in Addresses PROVE Applied(S, d)[a] \in PlainAccounts
  <2>1. S[a] \in PlainAccounts /\ d.data[a] \in PlainAccounts
    BY DEF PlainStates, PlainDiffs
  <2>2. Persisted(d.data[a]) \in PlainAccounts
    BY <2>1, PersistedIsPlain, PlainFields
  <2> QED
    BY <2>1, <2>2, NoDataIsPlain DEF Applied
<1> QED
  BY <1>1 DEF Applied, PlainStates

-----------------------------------------------------------------------------
(***************************************************************************)
(* What the builtin contracts return.                                      *)
(***************************************************************************)
Views == [address : Addresses, signer : BOOLEAN, writable : BOOLEAN,
          executable : {FALSE}, owner : (Addresses \cup {None, Currency, Sha3}) \ {Wasm},
          data : PlainData]
PlainEnv(env) == env.accounts \in Seq(Views)

Outs == [kind : {"log"}]
            \cup [kind : {"create"}, address : Addresses \ Wallets, data : PlainData]
            \cup [kind : {"write"}, address : Addresses, data : PlainData]
            \cup [kind : {"delete"}, address : Addresses \ Wallets]

(* A list of outputs, in which an account is emptied before it is deleted. *)
EmptiedBefore(s, n) ==
    /\ n - 1 \in DOMAIN s
    /\ s[n - 1].kind = "write" /\ s[n - 1].address = s[n].address
    /\ s[n - 1].data.kind = "coin" /\ s[n - 1].data.balance = 0
Batches ==
    {s \in Seq(Outs) : \A n \in DOMAIN s : s[n].kind = "delete" => EmptiedBefore(s, n)}

(* Ok means that no check has failed.                                      *)
LEMMA CheckedOk ==
    ASSUME NEW checks, DOMAIN checks \subseteq Nat, NEW outputs,
           Checked(checks, outputs).error = "none"
    PROVE  \A i \in DOMAIN checks : checks[i] = "none"
<1> DEFINE failing == {i \in DOMAIN checks : checks[i] # "none"}
<1> SUFFICES ASSUME failing # {} PROVE FALSE
  OBVIOUS
<1>1. failing \subseteq Nat
  OBVIOUS
<1>2. \E i \in failing : \A j \in failing : i <= j
  <2> HIDE DEF failing
  <2> QED
    BY <1>1, Smallest
<1>3. Checked(checks, outputs).error =
        checks[CHOOSE i \in failing : \A j \in failing : i <= j]
  BY DEF Checked
<1> QED
  BY <1>2, <1>3

LEMMA CheckedOutputs ==
    ASSUME NEW checks, NEW outputs
    PROVE  Checked(checks, outputs).outputs = outputs
  BY DEF Checked

LEMMA ErrorIfOk ==
    ASSUME NEW failed, NEW error, error # "none", ErrorIf(failed, error) = "none"
    PROVE  ~failed
  BY DEF ErrorIf

LEMMA BatchConcat ==
    ASSUME NEW s \in Batches, NEW t \in Batches
    PROVE  s \o t \in Batches
<1>1. s \in Seq(Outs) /\ t \in Seq(Outs) /\ s \o t \in Seq(Outs)
  BY DEF Batches
<1>2. ASSUME NEW n \in DOMAIN (s \o t), (s \o t)[n].kind = "delete"
      PROVE  EmptiedBefore(s \o t, n)
  <2>1. CASE n \in DOMAIN s /\ (s \o t)[n] = s[n]
    <3>1. EmptiedBefore(s, n)
      BY <1>2, <2>1 DEF Batches
    <3>2. (s \o t)[n - 1] = s[n - 1] /\ n - 1 \in DOMAIN (s \o t)
      BY <1>1, <3>1, <2>1 DEF EmptiedBefore
    <3> QED
      BY <2>1, <3>1, <3>2 DEF EmptiedBefore
  <2>2. CASE n - Len(s) \in DOMAIN t /\ (s \o t)[n] = t[n - Len(s)]
    <3>1. EmptiedBefore(t, n - Len(s))
      BY <1>2, <2>2 DEF Batches
    <3>2. n - 1 \in DOMAIN (s \o t) /\ (s \o t)[n - 1] = t[(n - Len(s)) - 1]
      BY <1>1, <3>1, <2>2 DEF EmptiedBefore
    <3> QED
      BY <2>2, <3>1, <3>2 DEF EmptiedBefore
  <2> QED
    BY <1>1, <2>1, <2>2, ConcatIndex
<1> QED
  BY <1>1, <1>2 DEF Batches

LEMMA LogsAreBatch ==
    ASSUME NEW n \in Nat
    PROVE  Logs(n) \in Batches
<1>1. Logs(n) \in Seq(Outs)
  BY DEF Logs, Outs
<1> QED
  BY <1>1 DEF Batches, Logs

LEMMA OneIsBatch ==
    ASSUME NEW out \in Outs, out.kind # "delete"
    PROVE  <<out>> \in Batches
  BY DEF Batches

LEMMA TwoAreBatch ==
    ASSUME NEW x \in Outs, x.kind # "delete", NEW y \in Outs, y.kind # "delete"
    PROVE  <<x, y>> \in Batches
<1>1. <<x, y>> \in Seq(Outs) /\ DOMAIN <<x, y>> = 1..2
  OBVIOUS
<1>2. \A n \in 1..2 : n = 1 \/ n = 2
  OBVIOUS
<1> QED
  BY <1>1, <1>2 DEF Batches

LEMMA CreateIsOut ==
    ASSUME NEW a \in Addresses, a \notin Wallets, NEW x \in PlainData
    PROVE  /\ CreateOwnedAccount(a, x) \in Outs
           /\ CreateOwnedAccount(a, x).kind = "create"
  BY DEF CreateOwnedAccount, Outs

LEMMA WriteIsOut ==
    ASSUME NEW a \in Addresses, NEW x \in PlainData
    PROVE  /\ WriteAccountData(a, x) \in Outs
           /\ WriteAccountData(a, x).kind = "write"
           /\ WriteAccountData(a, x).address = a /\ WriteAccountData(a, x).data = x
  BY DEF WriteAccountData, Outs

LEMMA EmptiedIsBatch ==
    ASSUME NEW a \in Addresses, a \notin Wallets, NEW x \in PlainData,
           x.kind = "coin", x.balance = 0
    PROVE  <<WriteAccountData(a, x)>> \o <<DeleteOwnedAccount(a)>> \in Batches
<1> DEFINE w == WriteAccountData(a, x)
           d == DeleteOwnedAccount(a)
<1>1. w \in Outs /\ w.kind = "write" /\ w.address = a /\ w.data = x
  BY WriteIsOut
<1>2. d \in Outs /\ d.kind = "delete" /\ d.address = a
  BY DEF DeleteOwnedAccount, Outs
<1> HIDE DEF w, d
<1> DEFINE s == <<w>> \o <<d>>
<1>3. s \in Seq(Outs) /\ DOMAIN s = 1..2 /\ s[1] = w /\ s[2] = d
  BY <1>1, <1>2
<1> HIDE DEF s
<1>4. EmptiedBefore(s, 2)
  BY <1>1, <1>2, <1>3 DEF EmptiedBefore
<1>5. \A n \in 1..2 : n = 1 \/ n = 2
  OBVIOUS
<1>6. s \in Batches
  BY <1>1, <1>3, <1>4, <1>5 DEF Batches
<1> QED
  BY <1>6 DEF s, w, d

(* The views of an environment.                                            *)
LEMMA AccIsView ==
    ASSUME NEW env, PlainEnv(env), NEW i \in 1..Len(env.accounts)
    PROVE  Acc(env, i) \in Views
  BY DEF Acc, PlainEnv

LEMMA AccIsPlain ==
    ASSUME NEW env, PlainEnv(env), NEW i \in Nat
    PROVE  Acc(env, i).data \in PlainData
<1>1. env.accounts \in Seq(Views)
  BY DEF PlainEnv
<1>2. CASE i \in DOMAIN env.accounts
  <2>1. env.accounts[i] \in Views
    BY <1>1, <1>2
  <2> QED
    BY <1>2, <2>1 DEF Acc, Views
<1>3. CASE i \notin DOMAIN env.accounts
  BY <1>3, NoDataIsPlain DEF Acc, NoView
<1> QED
  BY <1>2, <1>3

(* What may be in accounts after a contract has changed it.                *)
LEMMA CoinIsPlain ==
    ASSUME NEW m \in Addresses, NEW w \in Addresses, NEW n \in Amounts
    PROVE  CoinAccount(m, w, n) \in PlainData /\ CoinAccount(m, w, n).kind = "coin"
  BY NoDataIsPlain, AmountAssumption DEF CoinAccount, PlainData, Data, Amounts

LEMMA ChangedDataIsPlain ==
    ASSUME NEW x \in PlainData, NEW n \in Amounts, NEW a \in Addresses \cup {None}
    PROVE  /\ [x EXCEPT !.balance = n] \in PlainData
           /\ [x EXCEPT !.balance = n].kind = x.kind
           /\ [x EXCEPT !.balance = n].balance = n
           /\ [x EXCEPT !.supply = n] \in PlainData
           /\ [x EXCEPT !.authority = a] \in PlainData
           /\ x.balance \in Amounts /\ x.supply \in Amounts
           /\ x.balance \in Nat /\ x.supply \in Nat
  BY AmountAssumption DEF PlainData, Data, Amounts

LEMMA SaturatingIsAmount ==
    ASSUME NEW x \in Amounts, NEW y \in Amounts
    PROVE  /\ saturating_add(x, y) \in Amounts /\ x <= saturating_add(x, y)
           /\ saturating_sub(x, y) \in Amounts /\ saturating_sub(x, y) <= x
  BY AmountAssumption DEF saturating_add, saturating_sub, Amounts

LEMMA CreditIsOut ==
    ASSUME NEW acc \in Views, NEW m \in Addresses, NEW w \in Addresses, NEW n \in Amounts,
           acc.address \notin Wallets
    PROVE  Credit(acc, m, w, n) \in Outs /\ Credit(acc, m, w, n).kind # "delete"
<1>1. acc.address \in Addresses /\ acc.data \in PlainData
  BY DEF Views
<1>2. CASE acc.data = NoData
  BY <1>1, <1>2, CoinIsPlain, CreateIsOut DEF Credit
<1>3. CASE acc.data # NoData
  <2>1. saturating_add(acc.data.balance, n) \in Amounts
    BY <1>1, ChangedDataIsPlain, SaturatingIsAmount
  <2>2. [acc.data EXCEPT !.balance = saturating_add(acc.data.balance, n)] \in PlainData
    BY <1>1, <2>1, ChangedDataIsPlain
  <2> QED
    BY <1>1, <1>3, <2>2, WriteIsOut DEF Credit
<1> QED
  BY <1>2, <1>3

LEMMA DebitIsBatch ==
    ASSUME NEW acc \in Views, NEW n \in Amounts, acc.address \notin Wallets,
           acc.data.kind = "coin"
    PROVE  Debit(acc, n) \in Batches
<1>1. acc.address \in Addresses /\ acc.data \in PlainData
  BY DEF Views
<1> DEFINE coin == [acc.data EXCEPT !.balance = saturating_sub(acc.data.balance, n)]
<1>2. saturating_sub(acc.data.balance, n) \in Amounts
  BY <1>1, ChangedDataIsPlain, SaturatingIsAmount
<1>3. coin \in PlainData /\ coin.kind = "coin"
  BY <1>1, <1>2, ChangedDataIsPlain
<1>4. Debit(acc, n) = <<WriteAccountData(acc.address, coin)>> \o
                     (IF coin.balance = 0 THEN <<DeleteOwnedAccount(acc.address)>> ELSE <<>>)
  BY DEF Debit
<1> HIDE DEF coin
<1>5. <<WriteAccountData(acc.address, coin)>> \in Batches
  BY <1>1, <1>3, WriteIsOut, OneIsBatch
<1>6. <<>> \in Batches
  BY DEF Batches
<1>7. CASE coin.balance = 0
  BY <1>1, <1>3, <1>4, <1>7, EmptiedIsBatch
<1>8. CASE coin.balance # 0
  BY <1>4, <1>5, <1>6, <1>8, BatchConcat
<1> QED
  BY <1>7, <1>8

(* The checks that say which accounts a call may touch.                    *)
LEMMA ReadCoinAccountOk ==
    ASSUME NEW acc, NEW m \in Addresses, NEW w \in Addresses, NEW env,
           env.address \in {Currency, Wasm, Sha3},
           read_coin_account(acc, m, w, env) = "none"
    PROVE  /\ acc.address = derive(env.address, m \o w) /\ acc.address \notin Wallets
           /\ acc.owner \in {None, env.address}
           /\ acc.data # NoData => /\ acc.data.kind = "coin" /\ acc.data.mint = m
                                  /\ acc.data.owner = w
<1> DEFINE checks == <<ErrorIf(acc.address # derive(env.address, m \o w),
                               "InvalidInputAccounts"),
                       ErrorIf(acc.owner \notin {None, env.address}, "InvalidAccountOwner"),
                       ErrorIf(acc.data # NoData /\ acc.data.kind # "coin", "InvalidInputAccounts"),
                       ErrorIf(acc.data # NoData /\ acc.data.mint # m, "InvalidInputAccounts"),
                       ErrorIf(acc.data # NoData /\ acc.data.owner # w, "InvalidAccountOwner")>>
<1>1. Checked(checks, <<>>).error = "none"
  BY DEF read_coin_account
<1>2. DOMAIN checks = 1..5
  OBVIOUS
<1>3. /\ checks[1] = ErrorIf(acc.address # derive(env.address, m \o w), "InvalidInputAccounts")
      /\ checks[2] = ErrorIf(acc.owner \notin {None, env.address}, "InvalidAccountOwner")
      /\ checks[3] = ErrorIf(acc.data # NoData /\ acc.data.kind # "coin", "InvalidInputAccounts")
      /\ checks[4] = ErrorIf(acc.data # NoData /\ acc.data.mint # m, "InvalidInputAccounts")
      /\ checks[5] = ErrorIf(acc.data # NoData /\ acc.data.owner # w, "InvalidAccountOwner")
  OBVIOUS
<1> HIDE DEF checks
<1>4. \A i \in 1..5 : checks[i] = "none"
  <2>1. 1..5 \subseteq Nat
    OBVIOUS
  <2> QED
    BY <1>1, <1>2, <2>1, CheckedOk, Zenon
<1>5. /\ acc.address = derive(env.address, m \o w)
      /\ acc.owner \in {None, env.address}
      /\ acc.data # NoData => /\ acc.data.kind = "coin" /\ acc.data.mint = m
                             /\ acc.data.owner = w
  BY <1>3, <1>4 DEF ErrorIf
<1> QED
  BY <1>5, DerivedAssumption DEF has_private_key

LEMMA CheckSpendingOk ==
    ASSUME NEW coin, NEW wallet, NEW amount, CheckSpending(coin, wallet, amount) = "none"
    PROVE  coin.data # NoData /\ wallet.signer /\ ~(coin.data.balance < amount)
<1> DEFINE checks == <<ErrorIf(coin.data = NoData, "AccountDoesNotExist"),
                       ErrorIf(~wallet.signer, "MissingSigners"),
                       ErrorIf(coin.data.balance < amount, "NotEnoughBalance")>>
<1>1. Checked(checks, <<>>).error = "none"
  BY DEF CheckSpending
<1>2. DOMAIN checks = 1..3
  OBVIOUS
<1>3. /\ checks[1] = ErrorIf(coin.data = NoData, "AccountDoesNotExist")
      /\ checks[2] = ErrorIf(~wallet.signer, "MissingSigners")
      /\ checks[3] = ErrorIf(coin.data.balance < amount, "NotEnoughBalance")
  OBVIOUS
<1> HIDE DEF checks
<1>4. \A i \in 1..3 : checks[i] = "none"
  <2>1. 1..3 \subseteq Nat
    OBVIOUS
  <2> QED
    BY <1>1, <1>2, <2>1, CheckedOk, Zenon
<1> QED
  BY <1>3, <1>4 DEF ErrorIf

(* A mint whose authority is removed.                                      *)
Revoked(x) == x.kind = "mint" /\ x.authority = None
DataKept(x, y) ==
    /\ y.kind \in {"mint", "coin"} /\ x.kind = y.kind
    /\ y.kind = "mint" => x.balance = y.balance
    /\ Revoked(x) => Revoked(y) /\ y.supply <= x.supply

(* The account has the coins of a wallet that has signed.                  *)
SignedFor(env, a) ==
    \E m, w \in Addresses : \E i \in DOMAIN env.accounts :
        /\ env.accounts[i].signer /\ env.accounts[i].address = w
        /\ a = derive(Currency, m \o w)

(* An output of the Currency contract makes mints and coins only out of    *)
(* nothing or of their like, gives nothing to a mint that is revoked and   *)
(* takes coins only from wallets that have signed.  The other contracts    *)
(* make neither.                                                           *)
WrittenLawfully(out, env) ==
    \E i \in DOMAIN env.accounts :
        /\ env.accounts[i].address = out.address
        /\ DataKept(env.accounts[i].data, out.data)
        /\ out.data.balance < env.accounts[i].data.balance => SignedFor(env, out.address)
Lawful(out, env) ==
    /\ out.kind = "create" =>
          /\ env.address = Currency /\ out.data.kind \in {"mint", "coin"}
          /\ out.data.kind = "mint" => out.data.balance = 0
    /\ out.kind = "write" =>
          \/ /\ env.address # Currency /\ out.data.kind \notin {"mint", "coin"}
             /\ out.data.balance = 0
          \/ WrittenLawfully(out, env)
AllLawful(s, env) == s \in Seq(Outs) /\ \A n \in 1..Len(s) : Lawful(s[n], env)

LEMMA LawfulConcat ==
    ASSUME NEW env, NEW s, NEW t, AllLawful(s, env), AllLawful(t, env)
    PROVE  AllLawful(s \o t, env)
<1>1. s \in Seq(Outs) /\ t \in Seq(Outs)
  BY DEF AllLawful
<1>2. s \o t \in Seq(Outs) /\ DOMAIN (s \o t) = 1..Len(s \o t)
      /\ DOMAIN s = 1..Len(s) /\ DOMAIN t = 1..Len(t)
  BY <1>1
<1>3. ASSUME NEW n \in 1..Len(s \o t) PROVE Lawful((s \o t)[n], env)
  <2>1. \/ n \in DOMAIN s /\ (s \o t)[n] = s[n]
        \/ n - Len(s) \in DOMAIN t /\ (s \o t)[n] = t[n - Len(s)]
    BY <1>1, <1>2, ConcatIndex
  <2> QED
    BY <1>2, <2>1 DEF AllLawful
<1> QED
  BY <1>2, <1>3 DEF AllLawful

LEMMA LogsAreLawful ==
    ASSUME NEW n \in Nat, NEW env
    PROVE  AllLawful(Logs(n), env)
<1>1. Logs(n) \in Seq(Outs) /\ Len(Logs(n)) = n /\ \A i \in 1..n : Logs(n)[i].kind = "log"
  BY DEF Logs, Outs
<1> QED
  BY <1>1 DEF AllLawful, Lawful

LEMMA OneIsLawful ==
    ASSUME NEW out \in Outs, NEW env, Lawful(out, env)
    PROVE  AllLawful(<<out>>, env)
  BY DEF AllLawful

LEMMA AccIsListed ==
    ASSUME NEW env, PlainEnv(env), NEW i \in 1..Len(env.accounts)
    PROVE  i \in DOMAIN env.accounts /\ Acc(env, i) = env.accounts[i] /\ Acc(env, i) \in Views
  BY DEF Acc, PlainEnv

LEMMA WriteIsLawful ==
    ASSUME NEW env, PlainEnv(env), NEW i \in 1..Len(env.accounts),
           NEW x \in PlainData, DataKept(Acc(env, i).data, x),
           x.balance < Acc(env, i).data.balance => SignedFor(env, Acc(env, i).address)
    PROVE  /\ Lawful(WriteAccountData(Acc(env, i).address, x), env)
           /\ WriteAccountData(Acc(env, i).address, x) \in Outs
<1> DEFINE acc == Acc(env, i)
           out == WriteAccountData(acc.address, x)
<1>1. i \in DOMAIN env.accounts /\ acc = env.accounts[i] /\ acc \in Views
  BY AccIsListed
<1>2. acc.address \in Addresses
  BY <1>1 DEF Views
<1> HIDE DEF acc
<1>3. out \in Outs /\ out.kind = "write" /\ out.address = acc.address /\ out.data = x
  BY <1>2, WriteIsOut
<1>4. /\ DataKept(acc.data, x)
      /\ x.balance < acc.data.balance => SignedFor(env, acc.address)
  BY DEF acc
<1> HIDE DEF out
<1>5. Lawful(out, env)
  BY <1>1, <1>3, <1>4 DEF Lawful, WrittenLawfully
<1> QED
  BY <1>3, <1>5 DEF out, acc

(* Credit and Debit write coins over coins.                                *)
LEMMA CreditIsLawful ==
    ASSUME NEW env, PlainEnv(env), env.address = Currency, NEW i \in 1..Len(env.accounts),
           NEW m \in Addresses, NEW w \in Addresses, NEW n \in Amounts,
           Acc(env, i).address \notin Wallets,
           Acc(env, i).data # NoData => Acc(env, i).data.kind = "coin"
    PROVE  /\ Lawful(Credit(Acc(env, i), m, w, n), env)
           /\ Credit(Acc(env, i), m, w, n) \in Outs
<1> DEFINE acc == Acc(env, i)
<1>1. acc \in Views /\ acc.data \in PlainData
  BY AccIsView DEF Views
<1>2. Credit(acc, m, w, n) \in Outs
  BY <1>1, CreditIsOut
<1>3. CASE acc.data = NoData
  <2>1. Credit(acc, m, w, n) = CreateOwnedAccount(acc.address, CoinAccount(m, w, n))
    BY <1>3 DEF Credit
  <2>2. CoinAccount(m, w, n).kind = "coin"
    BY CoinIsPlain
  <2>3. Lawful(Credit(acc, m, w, n), env)
    BY <2>1, <2>2 DEF Lawful, CreateOwnedAccount
  <2> QED
    BY <1>2, <2>3
<1>4. CASE acc.data # NoData
  <2> DEFINE x == [acc.data EXCEPT !.balance = saturating_add(acc.data.balance, n)]
  <2>1. Credit(acc, m, w, n) = WriteAccountData(acc.address, x)
    BY <1>4 DEF Credit
  <2>2. /\ acc.data.balance \in Nat /\ saturating_add(acc.data.balance, n) \in Amounts
        /\ acc.data.balance <= saturating_add(acc.data.balance, n)
    BY <1>1, ChangedDataIsPlain, SaturatingIsAmount
  <2>3. /\ x \in PlainData /\ x.kind = "coin" /\ acc.data.kind = "coin"
        /\ x.balance \in Nat /\ x.balance = saturating_add(acc.data.balance, n)
    BY <1>1, <1>4, <2>2, ChangedDataIsPlain
  <2> HIDE DEF x
  <2>4. DataKept(acc.data, x) /\ ~(x.balance < acc.data.balance)
    BY <2>2, <2>3 DEF DataKept, Revoked
  <2>5. Lawful(WriteAccountData(acc.address, x), env)
    BY <2>3, <2>4, WriteIsLawful
  <2> QED
    BY <1>2, <2>1, <2>5
<1> QED
  BY <1>3, <1>4

LEMMA DebitIsLawful ==
    ASSUME NEW env, PlainEnv(env), NEW i \in 1..Len(env.accounts), NEW n \in Amounts,
           Acc(env, i).address \notin Wallets, Acc(env, i).data.kind = "coin",
           SignedFor(env, Acc(env, i).address)
    PROVE  AllLawful(Debit(Acc(env, i), n), env)
<1> DEFINE acc == Acc(env, i)
           x == [acc.data EXCEPT !.balance = saturating_sub(acc.data.balance, n)]
           d == DeleteOwnedAccount(acc.address)
<1>1. acc \in Views /\ acc.data \in PlainData /\ acc.address \in Addresses
  BY AccIsView DEF Views
<1>2. saturating_sub(acc.data.balance, n) \in Amounts
  BY <1>1, ChangedDataIsPlain, SaturatingIsAmount
<1>3. x \in PlainData /\ x.kind = "coin" /\ acc.data.kind = "coin"
  BY <1>1, <1>2, ChangedDataIsPlain
<1>4. Debit(acc, n) = <<WriteAccountData(acc.address, x)>> \o
                     (IF x.balance = 0 THEN <<d>> ELSE <<>>)
  BY DEF Debit
<1> HIDE DEF x
<1>5. DataKept(acc.data, x)
  BY <1>3 DEF DataKept, Revoked
<1>6. AllLawful(<<WriteAccountData(acc.address, x)>>, env)
  BY <1>3, <1>5, WriteIsLawful, OneIsLawful
<1>7. d \in Outs /\ d.kind = "delete"
  BY <1>1 DEF DeleteOwnedAccount, Outs
<1> HIDE DEF d
<1>8. AllLawful(<<d>>, env)
  BY <1>7, OneIsLawful DEF Lawful
<1>9. AllLawful(<<>>, env)
  BY DEF AllLawful
<1>10. CASE x.balance = 0
  BY <1>4, <1>6, <1>8, <1>10, LawfulConcat
<1>11. CASE x.balance # 0
  BY <1>4, <1>6, <1>9, <1>11, LawfulConcat
<1> QED
  BY <1>10, <1>11

LEMMA CheckAuthorityOk ==
    ASSUME NEW mint, NEW authority, CheckAuthority(mint, authority) = "none"
    PROVE  mint.data.authority # None
<1> DEFINE checks == <<ErrorIf(mint.data.authority = None, "AuthorityRemoved"),
                       ErrorIf(mint.data.authority # authority.address, "NotAuthorized"),
                       ErrorIf(~authority.signer, "MissingSigners")>>
<1>1. Checked(checks, <<>>).error = "none"
  BY DEF CheckAuthority
<1>2. DOMAIN checks = 1..3 /\ checks[1] = ErrorIf(mint.data.authority = None, "AuthorityRemoved")
  OBVIOUS
<1> HIDE DEF checks
<1>3. checks[1] = "none"
  <2>1. \A i \in 1..3 : checks[i] = "none"
    <3>1. 1..3 \subseteq Nat
      OBVIOUS
    <3> QED
      BY <1>1, <1>2, <3>1, CheckedOk, Zenon
  <2> QED
    BY <2>1
<1> QED
  BY <1>2, <1>3, ErrorIfOk

LEMMA ReadCoinMintOk ==
    ASSUME NEW acc, NEW env, read_coin_mint(acc, env) = "none"
    PROVE  acc.data.kind = "mint"
<1> DEFINE checks == <<ErrorIf(has_private_key(acc.address), "InvalidInputAccounts"),
                       ErrorIf(acc.owner # env.address, "InvalidAccountOwner"),
                       ErrorIf(acc.data.kind # "mint", "InvalidInputAccounts")>>
<1>1. Checked(checks, <<>>).error = "none"
  BY DEF read_coin_mint
<1>2. DOMAIN checks = 1..3 /\ checks[3] = ErrorIf(acc.data.kind # "mint", "InvalidInputAccounts")
  OBVIOUS
<1> HIDE DEF checks
<1>3. checks[3] = "none"
  <2>1. \A i \in 1..3 : checks[i] = "none"
    <3>1. 1..3 \subseteq Nat
      OBVIOUS
    <3> QED
      BY <1>1, <1>2, <3>1, CheckedOk, Zenon
  <2> QED
    BY <2>1
<1> QED
  BY <1>2, <1>3, ErrorIfOk

(* A changed mint.                                                         *)
LEMMA ChangedMint ==
    ASSUME NEW x \in PlainData, x.kind = "mint", NEW n \in Amounts, NEW a \in Addresses \cup {None}
    PROVE  /\ x.authority # None => /\ DataKept(x, [x EXCEPT !.supply = n])
                                    /\ DataKept(x, [x EXCEPT !.authority = a])
           /\ ~([x EXCEPT !.supply = n].balance < x.balance)
           /\ ~([x EXCEPT !.authority = a].balance < x.balance)
           /\ n <= x.supply => DataKept(x, [x EXCEPT !.supply = n])
  BY AmountAssumption DEF DataKept, Revoked, PlainData, Data, Amounts

LEMMA CreateIsBatch ==
    ASSUME NEW env, PlainEnv(env), env.address = Currency,
           NEW t \in Transactions, NEW valid,
           process_create(env, t.call.seed, t.call.who, valid).error = "none"
    PROVE  LET outputs == process_create(env, t.call.seed, t.call.who, valid).outputs IN
           outputs \in Batches /\ AllLawful(outputs, env)
<1> DEFINE acc == Acc(env, 1)
           who == t.call.who
           checks == <<ErrorIf(Len(env.accounts) # 1, "InvalidInputAccounts"),
                       ErrorIf(acc.address # derive(env.address, t.call.seed),
                               "InvalidInputAccounts"),
                       ErrorIf(acc.data # NoData \/ acc.owner # None, "AccountAlreadyExists"),
                       ErrorIf(~valid, "InvalidInputParameters")>>
           outputs == <<CreateOwnedAccount(acc.address, Mint(who))>> \o Logs(5)
<1>1. /\ Checked(checks, outputs).error = "none"
      /\ process_create(env, t.call.seed, t.call.who, valid).outputs
            = Checked(checks, outputs).outputs
  BY DEF process_create
<1>2. DOMAIN checks = 1..4
  OBVIOUS
<1>3. /\ checks[1] = ErrorIf(Len(env.accounts) # 1, "InvalidInputAccounts")
      /\ checks[2] = ErrorIf(acc.address # derive(env.address, t.call.seed), "InvalidInputAccounts")
  OBVIOUS
<1> HIDE DEF checks, outputs
<1>4. \A i \in 1..4 : checks[i] = "none"
  <2>1. 1..4 \subseteq Nat
    OBVIOUS
  <2> QED
    BY <1>1, <1>2, <2>1, CheckedOk, Zenon
<1>5. Len(env.accounts) = 1 /\ acc.address = derive(env.address, t.call.seed)
  <2>1. checks[1] = "none" /\ checks[2] = "none"
    BY <1>4
  <2> QED
    BY <1>3, <2>1, ErrorIfOk
<1>6. acc \in Views
  <2>1. 1 \in 1..Len(env.accounts)
    BY <1>5
  <2> QED
    BY <2>1, AccIsView
<1>7. acc.address \in Addresses /\ acc.address \notin Wallets
  BY <1>5, <1>6, DerivedAssumption DEF Views, has_private_key
<1>8. Mint(who) \in PlainData
  BY MachineAssumption, NoDataIsPlain, AmountAssumption DEF Mint, PlainData, Data
<1>9. <<CreateOwnedAccount(acc.address, Mint(who))>> \in Batches
  BY <1>7, <1>8, CreateIsOut, OneIsBatch
<1>10. outputs \in Batches
  BY <1>9, LogsAreBatch, BatchConcat DEF outputs
<1>11. AllLawful(outputs, env)
  <2> DEFINE out == CreateOwnedAccount(acc.address, Mint(who))
  <2>1. /\ out \in Outs /\ out.kind = "create"
        /\ out.data.kind = "mint" /\ out.data.balance = 0
    BY <1>7, <1>8, CreateIsOut DEF CreateOwnedAccount, Mint, NoData
  <2> HIDE DEF out
  <2>2. AllLawful(<<out>>, env)
    BY <2>1, OneIsLawful DEF Lawful
  <2> QED
    BY <2>2, LogsAreLawful, LawfulConcat DEF outputs, out
<1> QED
  BY <1>1, <1>10, <1>11, CheckedOutputs

LEMMA MintIsBatch ==
    ASSUME NEW env, PlainEnv(env), env.address = Currency,
           NEW amount \in Amounts, process_mint(env, amount).error = "none"
    PROVE  /\ process_mint(env, amount).outputs \in Batches
           /\ AllLawful(process_mint(env, amount).outputs, env)
<1> DEFINE mint == Acc(env, 1)
           wallet == Acc(env, 3).address
           coin == Acc(env, 4)
           data == [mint.data EXCEPT !.supply = saturating_add(mint.data.supply, amount)]
           checks == <<ErrorIf(Len(env.accounts) # 4, "InvalidInputAccounts"),
                       ErrorIf(amount = 0, "InvalidInputParameters"),
                       read_coin_mint(mint, env),
                       CheckAuthority(mint, Acc(env, 2)),
                       read_coin_account(coin, mint.address, wallet, env)>>
           outputs == Logs(3) \o <<Credit(coin, mint.address, wallet, amount),
                                   WriteAccountData(mint.address, data)>>
<1>1. /\ Checked(checks, outputs).error = "none"
      /\ process_mint(env, amount).outputs = Checked(checks, outputs).outputs
  BY DEF process_mint
<1>2. DOMAIN checks = 1..5
  OBVIOUS
<1>3. /\ checks[1] = ErrorIf(Len(env.accounts) # 4, "InvalidInputAccounts")
      /\ checks[3] = read_coin_mint(mint, env)
      /\ checks[4] = CheckAuthority(mint, Acc(env, 2))
      /\ checks[5] = read_coin_account(coin, mint.address, wallet, env)
  OBVIOUS
<1> HIDE DEF checks, outputs
<1>4. \A i \in 1..5 : checks[i] = "none"
  <2>1. 1..5 \subseteq Nat
    OBVIOUS
  <2> QED
    BY <1>1, <1>2, <2>1, CheckedOk, Zenon
<1>5. \A i \in {1, 2, 3, 4} : i \in 1..Len(env.accounts)
  <2>1. checks[1] = "none"
    BY <1>4
  <2>2. Len(env.accounts) = 4
    BY <1>3, <2>1, ErrorIfOk
  <2> QED
    BY <2>2
<1>6. mint \in Views /\ Acc(env, 3) \in Views /\ coin \in Views
  BY <1>5, AccIsView
<1>7. mint.address \in Addresses /\ wallet \in Addresses /\ mint.data \in PlainData
  BY <1>6 DEF Views
<1>8. coin.address \notin Wallets
  BY <1>3, <1>4, <1>7, ReadCoinAccountOk
<1>9. data \in PlainData
  <2>1. saturating_add(mint.data.supply, amount) \in Amounts
    BY <1>7, ChangedDataIsPlain, SaturatingIsAmount
  <2> QED
    BY <1>7, <2>1, ChangedDataIsPlain
<1>10. LET x == Credit(coin, mint.address, wallet, amount)
           y == WriteAccountData(mint.address, data) IN
       x \in Outs /\ x.kind # "delete" /\ y \in Outs /\ y.kind # "delete"
  BY <1>6, <1>7, <1>8, <1>9, CreditIsOut, WriteIsOut
<1>11. <<Credit(coin, mint.address, wallet, amount), WriteAccountData(mint.address, data)>>
          \in Batches
  BY <1>10, TwoAreBatch
<1>12. outputs \in Batches
  BY <1>11, LogsAreBatch, BatchConcat DEF outputs
<1>13. AllLawful(outputs, env)
  <2>1. 1 \in 1..Len(env.accounts) /\ 4 \in 1..Len(env.accounts)
    BY <1>5
  <2>2. mint.data.kind = "mint" /\ mint.data.authority # None
    <3>1. checks[3] = "none" /\ checks[4] = "none"
      BY <1>4
    <3> QED
      BY <1>3, <3>1, ReadCoinMintOk, CheckAuthorityOk
  <2>3. DataKept(mint.data, data) /\ ~(data.balance < mint.data.balance)
    <3>1. saturating_add(mint.data.supply, amount) \in Amounts
      BY <1>7, ChangedDataIsPlain, SaturatingIsAmount
    <3> QED
      BY <1>7, <2>2, <3>1, ChangedMint
  <2>4. coin.data # NoData => coin.data.kind = "coin"
    BY <1>3, <1>4, <1>7, ReadCoinAccountOk
  <2> DEFINE x == Credit(coin, mint.address, wallet, amount)
             y == WriteAccountData(mint.address, data)
  <2>5. x \in Outs /\ Lawful(x, env)
    BY <1>7, <1>8, <2>1, <2>4, CreditIsLawful
  <2>6. y \in Outs /\ Lawful(y, env)
    BY <1>9, <2>1, <2>3, WriteIsLawful
  <2> HIDE DEF x, y
  <2>7. AllLawful(<<x, y>>, env)
    BY <2>5, <2>6 DEF AllLawful
  <2> QED
    BY <2>7, LogsAreLawful, LawfulConcat DEF outputs, x, y
<1> QED
  BY <1>1, <1>12, <1>13, CheckedOutputs

LEMMA TransferIsBatch ==
    ASSUME NEW env, PlainEnv(env), env.address = Currency,
           NEW amount \in Amounts, process_transfer(env, amount).error = "none"
    PROVE  /\ process_transfer(env, amount).outputs \in Batches
           /\ AllLawful(process_transfer(env, amount).outputs, env)
<1> DEFINE mint == Acc(env, 1).address
           sender == Acc(env, 2)
           from == Acc(env, 3)
           recipient == Acc(env, 4).address
           to == Acc(env, 5)
           checks == <<ErrorIf(Len(env.accounts) # 5, "InvalidInputAccounts"),
                       ErrorIf(amount = 0, "InvalidInputParameters"),
                       read_coin_mint(Acc(env, 1), env),
                       read_coin_account(from, mint, sender.address, env),
                       CheckSpending(from, sender, amount),
                       read_coin_account(to, mint, recipient, env)>>
           outputs == Logs(5) \o Debit(from, amount) \o <<Credit(to, mint, recipient, amount)>>
<1>1. /\ Checked(checks, outputs).error = "none"
      /\ process_transfer(env, amount).outputs = Checked(checks, outputs).outputs
  BY DEF process_transfer
<1>2. DOMAIN checks = 1..6
  OBVIOUS
<1>3. /\ checks[1] = ErrorIf(Len(env.accounts) # 5, "InvalidInputAccounts")
      /\ checks[4] = read_coin_account(from, mint, sender.address, env)
      /\ checks[5] = CheckSpending(from, sender, amount)
      /\ checks[6] = read_coin_account(to, mint, recipient, env)
  OBVIOUS
<1> HIDE DEF checks, outputs
<1>4. \A i \in 1..6 : checks[i] = "none"
  <2>1. 1..6 \subseteq Nat
    OBVIOUS
  <2> QED
    BY <1>1, <1>2, <2>1, CheckedOk, Zenon
<1>5. \A i \in {1, 2, 3, 4, 5} : i \in 1..Len(env.accounts)
  <2>1. checks[1] = "none"
    BY <1>4
  <2>2. Len(env.accounts) = 5
    BY <1>3, <2>1, ErrorIfOk
  <2> QED
    BY <2>2
<1>6. Acc(env, 1) \in Views /\ sender \in Views /\ from \in Views
      /\ Acc(env, 4) \in Views /\ to \in Views
  BY <1>5, AccIsView
<1>7. mint \in Addresses /\ sender.address \in Addresses /\ recipient \in Addresses
  BY <1>6 DEF Views
<1>8. /\ from.address \notin Wallets /\ from.address = derive(env.address, mint \o sender.address)
      /\ from.data # NoData => from.data.kind = "coin"
  <2>1. read_coin_account(from, mint, sender.address, env) = "none"
    BY <1>3, <1>4
  <2> HIDE DEF mint, sender, from
  <2> QED
    BY <1>7, <2>1, ReadCoinAccountOk
<1>9. from.data # NoData
  BY <1>3, <1>4, CheckSpendingOk
<1>10. to.address \notin Wallets /\ (to.data # NoData => to.data.kind = "coin")
  <2>1. read_coin_account(to, mint, recipient, env) = "none"
    BY <1>3, <1>4
  <2> HIDE DEF mint, to, recipient
  <2>2. /\ to.address = derive(env.address, mint \o recipient) /\ to.address \notin Wallets
        /\ to.owner \in {None, env.address} /\ (to.data # NoData => to.data.kind = "coin")
    BY <1>7, <2>1, ReadCoinAccountOk
  <2> QED
    BY <2>2
<1>11. Debit(from, amount) \in Batches
  BY <1>6, <1>8, <1>9, DebitIsBatch
<1>12. <<Credit(to, mint, recipient, amount)>> \in Batches
  BY <1>6, <1>7, <1>10, CreditIsOut, OneIsBatch
<1>13. Logs(5) \o Debit(from, amount) \in Batches
  BY <1>11, LogsAreBatch, BatchConcat
<1>14. outputs \in Batches
  BY <1>12, <1>13, BatchConcat DEF outputs
<1>15. AllLawful(outputs, env)
  <2>1. 3 \in 1..Len(env.accounts) /\ 5 \in 1..Len(env.accounts)
    BY <1>5
  <2>2. AllLawful(Debit(from, amount), env)
    <3>1. 2 \in DOMAIN env.accounts /\ sender = env.accounts[2]
      BY <1>5, AccIsListed
    <3>2. sender.signer /\ from.address = derive(Currency, mint \o sender.address)
      BY <1>3, <1>4, <1>8, CheckSpendingOk
    <3> HIDE DEF mint, sender, from
    <3>3. SignedFor(env, from.address)
      BY <1>7, <3>1, <3>2 DEF SignedFor
    <3> QED
      BY <1>8, <1>9, <2>1, <3>3, DebitIsLawful DEF from
  <2>3. AllLawful(<<Credit(to, mint, recipient, amount)>>, env)
    BY <1>7, <1>10, <2>1, CreditIsLawful, OneIsLawful
  <2>4. AllLawful(Logs(5) \o Debit(from, amount), env)
    BY <2>2, LogsAreLawful, LawfulConcat
  <2> QED
    BY <2>3, <2>4, LawfulConcat DEF outputs
<1> QED
  BY <1>1, <1>14, <1>15, CheckedOutputs

LEMMA BurnIsBatch ==
    ASSUME NEW env, PlainEnv(env), env.address = Currency,
           NEW amount \in Amounts, process_burn(env, amount).error = "none"
    PROVE  /\ process_burn(env, amount).outputs \in Batches
           /\ AllLawful(process_burn(env, amount).outputs, env)
<1> DEFINE mint == Acc(env, 1)
           wallet == Acc(env, 2)
           coin == Acc(env, 3)
           data == [mint.data EXCEPT !.supply = saturating_sub(mint.data.supply, amount)]
           checks == <<ErrorIf(Len(env.accounts) # 3, "InvalidInputAccounts"),
                       ErrorIf(amount = 0, "InvalidInputParameters"),
                       read_coin_mint(mint, env),
                       read_coin_account(coin, mint.address, wallet.address, env),
                       CheckSpending(coin, wallet, amount)>>
           outputs == Logs(4) \o <<WriteAccountData(mint.address, data)>> \o Debit(coin, amount)
<1>1. /\ Checked(checks, outputs).error = "none"
      /\ process_burn(env, amount).outputs = Checked(checks, outputs).outputs
  BY DEF process_burn
<1>2. DOMAIN checks = 1..5
  OBVIOUS
<1>3. /\ checks[1] = ErrorIf(Len(env.accounts) # 3, "InvalidInputAccounts")
      /\ checks[3] = read_coin_mint(mint, env)
      /\ checks[4] = read_coin_account(coin, mint.address, wallet.address, env)
      /\ checks[5] = CheckSpending(coin, wallet, amount)
  OBVIOUS
<1> HIDE DEF checks, outputs
<1>4. \A i \in 1..5 : checks[i] = "none"
  <2>1. 1..5 \subseteq Nat
    OBVIOUS
  <2> QED
    BY <1>1, <1>2, <2>1, CheckedOk, Zenon
<1>5. \A i \in {1, 2, 3} : i \in 1..Len(env.accounts)
  <2>1. checks[1] = "none"
    BY <1>4
  <2>2. Len(env.accounts) = 3
    BY <1>3, <2>1, ErrorIfOk
  <2> QED
    BY <2>2
<1>6. mint \in Views /\ wallet \in Views /\ coin \in Views
  BY <1>5, AccIsView
<1>7. mint.address \in Addresses /\ wallet.address \in Addresses /\ mint.data \in PlainData
  BY <1>6 DEF Views
<1>8. /\ coin.address \notin Wallets
      /\ coin.address = derive(env.address, mint.address \o wallet.address)
      /\ coin.data # NoData => coin.data.kind = "coin"
  <2>1. read_coin_account(coin, mint.address, wallet.address, env) = "none"
    BY <1>3, <1>4
  <2> HIDE DEF mint, wallet, coin
  <2> QED
    BY <1>7, <2>1, ReadCoinAccountOk
<1>9. coin.data # NoData
  BY <1>3, <1>4, CheckSpendingOk
<1>10. data \in PlainData
  <2>1. saturating_sub(mint.data.supply, amount) \in Amounts
    BY <1>7, ChangedDataIsPlain, SaturatingIsAmount
  <2> QED
    BY <1>7, <2>1, ChangedDataIsPlain
<1>11. Debit(coin, amount) \in Batches
  BY <1>6, <1>8, <1>9, DebitIsBatch
<1>12. <<WriteAccountData(mint.address, data)>> \in Batches
  BY <1>7, <1>10, WriteIsOut, OneIsBatch
<1>13. Logs(4) \o <<WriteAccountData(mint.address, data)>> \in Batches
  BY <1>12, LogsAreBatch, BatchConcat
<1>14. outputs \in Batches
  BY <1>11, <1>13, BatchConcat DEF outputs
<1>15. AllLawful(outputs, env)
  <2>1. 1 \in 1..Len(env.accounts) /\ 3 \in 1..Len(env.accounts)
    BY <1>5
  <2>2. mint.data.kind = "mint"
    <3>1. checks[3] = "none"
      BY <1>4
    <3> QED
      BY <1>3, <3>1, ReadCoinMintOk
  <2>3. DataKept(mint.data, data) /\ ~(data.balance < mint.data.balance)
    <3> DEFINE n == saturating_sub(mint.data.supply, amount)
    <3>1. mint.data.supply \in Nat
      BY <1>7, ChangedDataIsPlain
    <3>2. n \in Amounts /\ n <= mint.data.supply
      BY <1>7, ChangedDataIsPlain, SaturatingIsAmount
    <3> HIDE DEF n
    <3>3. /\ DataKept(mint.data, [mint.data EXCEPT !.supply = n])
          /\ ~([mint.data EXCEPT !.supply = n].balance < mint.data.balance)
      BY <1>7, <2>2, <3>2, ChangedMint
    <3> QED
      BY <3>3 DEF n
  <2>4. AllLawful(<<WriteAccountData(mint.address, data)>>, env)
    BY <1>10, <2>1, <2>3, WriteIsLawful, OneIsLawful, ZenonT(60)
  <2>5. AllLawful(Debit(coin, amount), env)
    <3>1. 2 \in DOMAIN env.accounts /\ wallet = env.accounts[2]
      BY <1>5, AccIsListed
    <3>2. wallet.signer /\ coin.address = derive(Currency, mint.address \o wallet.address)
      BY <1>3, <1>4, <1>8, CheckSpendingOk
    <3> HIDE DEF mint, wallet, coin
    <3>3. SignedFor(env, coin.address)
      BY <1>7, <3>1, <3>2 DEF SignedFor
    <3> QED
      BY <1>8, <1>9, <2>1, <3>3, DebitIsLawful DEF coin
  <2>6. AllLawful(Logs(4) \o <<WriteAccountData(mint.address, data)>>, env)
    BY <2>4, LogsAreLawful, LawfulConcat
  <2> QED
    BY <2>5, <2>6, LawfulConcat DEF outputs
<1> QED
  BY <1>1, <1>14, <1>15, CheckedOutputs

LEMMA SetAuthorityIsBatch ==
    ASSUME NEW env, PlainEnv(env), NEW who \in Addresses \cup {None},
           process_set_authority(env, who).error = "none"
    PROVE  /\ process_set_authority(env, who).outputs \in Batches
           /\ AllLawful(process_set_authority(env, who).outputs, env)
<1> DEFINE mint == Acc(env, 1)
           checks == <<ErrorIf(Len(env.accounts) # 2, "InvalidInputAccounts"),
                       read_coin_mint(mint, env),
                       CheckAuthority(mint, Acc(env, 2))>>
           data == [mint.data EXCEPT !.authority = who]
           outputs == Logs(5) \o <<WriteAccountData(mint.address, data)>>
<1>1. /\ Checked(checks, outputs).error = "none"
      /\ process_set_authority(env, who).outputs = Checked(checks, outputs).outputs
  BY DEF process_set_authority
<1>2. /\ DOMAIN checks = 1..3 /\ checks[1] = ErrorIf(Len(env.accounts) # 2, "InvalidInputAccounts")
      /\ checks[2] = read_coin_mint(mint, env) /\ checks[3] = CheckAuthority(mint, Acc(env, 2))
  OBVIOUS
<1> HIDE DEF checks, outputs
<1>3. checks[1] = "none" /\ checks[2] = "none" /\ checks[3] = "none"
  <2>1. \A i \in 1..3 : checks[i] = "none"
    <3>1. 1..3 \subseteq Nat
      OBVIOUS
    <3> QED
      BY <1>1, <1>2, <3>1, CheckedOk, Zenon
  <2> QED
    BY <2>1
<1>4. Len(env.accounts) = 2
  BY <1>2, <1>3, ErrorIfOk
<1>5. mint \in Views
  <2>1. 1 \in 1..Len(env.accounts)
    BY <1>4
  <2> QED
    BY <2>1, AccIsView
<1>6. mint.address \in Addresses /\ mint.data \in PlainData
  BY <1>5 DEF Views
<1>7. data \in PlainData
  BY <1>6 DEF PlainData, Data
<1>8. <<WriteAccountData(mint.address, data)>> \in Batches
  BY <1>6, <1>7, WriteIsOut, OneIsBatch
<1>9. outputs \in Batches
  BY <1>8, LogsAreBatch, BatchConcat DEF outputs
<1>10. AllLawful(outputs, env)
  <2>1. 1 \in 1..Len(env.accounts)
    BY <1>4
  <2>2. mint.data.kind = "mint" /\ mint.data.authority # None
    BY <1>2, <1>3, ReadCoinMintOk, CheckAuthorityOk
  <2>3. DataKept(mint.data, data) /\ ~(data.balance < mint.data.balance)
    <3>1. 0 \in Amounts
      BY AmountAssumption DEF Amounts
    <3> QED
      BY <1>6, <2>2, <3>1, ChangedMint
  <2>4. AllLawful(<<WriteAccountData(mint.address, data)>>, env)
    BY <1>7, <2>1, <2>3, WriteIsLawful, OneIsLawful
  <2> QED
    BY <2>4, LogsAreLawful, LawfulConcat DEF outputs
<1> QED
  BY <1>1, <1>9, <1>10, CheckedOutputs

LEMMA CurrencyIsBatch ==
    ASSUME NEW env, PlainEnv(env), env.address = Currency,
           NEW t \in Transactions, CurrencyContract(env, t.call).error = "none"
    PROVE  /\ CurrencyContract(env, t.call).outputs \in Batches
           /\ AllLawful(CurrencyContract(env, t.call).outputs, env)
<1> DEFINE call == t.call
<1>1. call.amount \in Amounts /\ call.who \in Addresses \cup {None}
  BY MachineAssumption DEF Amounts
<1>2. CASE call.op = "create"
  BY <1>2, CreateIsBatch DEF CurrencyContract
<1>3. CASE call.op = "mint"
  BY <1>1, <1>3, MintIsBatch DEF CurrencyContract
<1>4. CASE call.op = "transfer"
  BY <1>1, <1>4, TransferIsBatch DEF CurrencyContract
<1>5. CASE call.op = "burn"
  BY <1>1, <1>5, BurnIsBatch DEF CurrencyContract
<1>6. CASE call.op = "set_authority"
  BY <1>1, <1>6, SetAuthorityIsBatch DEF CurrencyContract
<1>7. CASE call.op \notin {"create", "mint", "transfer", "burn", "set_authority"}
  <2>1. CurrencyContract(env, call) = Checked(<<"InvalidInputParameters">>, <<>>)
    BY <1>7 DEF CurrencyContract
  <2>2. CurrencyContract(env, call).outputs = <<>>
    BY <2>1, CheckedOutputs
  <2> QED
    BY <2>2 DEF Batches, AllLawful
<1> QED
  BY <1>2, <1>3, <1>4, <1>5, <1>6, <1>7

LEMMA Sha3IsBatch ==
    ASSUME NEW env, PlainEnv(env), env.address = Sha3, Sha3Contract(env).error = "none"
    PROVE  /\ Sha3Contract(env).outputs \in Batches
           /\ AllLawful(Sha3Contract(env).outputs, env)
<1> DEFINE acc == Acc(env, 1)
           checks == <<ErrorIf(Len(env.accounts) # 1, "InvalidInputAccounts"),
                       ErrorIf(~acc.writable, "AccountNotWritable")>>
           data == [NoData EXCEPT !.kind = "digest"]
           outputs == <<WriteAccountData(acc.address, data)>> \o Logs(1)
<1>1. /\ Checked(checks, outputs).error = "none"
      /\ Sha3Contract(env).outputs = Checked(checks, outputs).outputs
  BY DEF Sha3Contract
<1>2. DOMAIN checks = 1..2 /\ checks[1] = ErrorIf(Len(env.accounts) # 1, "InvalidInputAccounts")
  OBVIOUS
<1> HIDE DEF checks, outputs
<1>3. checks[1] = "none"
  <2>1. \A i \in 1..2 : checks[i] = "none"
    <3>1. 1..2 \subseteq Nat
      OBVIOUS
    <3> QED
      BY <1>1, <1>2, <3>1, CheckedOk, Zenon
  <2> QED
    BY <2>1
<1>4. Len(env.accounts) = 1
  BY <1>2, <1>3, ErrorIfOk
<1>5. acc \in Views
  <2>1. 1 \in 1..Len(env.accounts)
    BY <1>4
  <2> QED
    BY <2>1, AccIsView
<1>6. acc.address \in Addresses
  BY <1>5 DEF Views
<1>7. data \in PlainData
  BY NoDataIsPlain DEF PlainData, Data
<1>8. <<WriteAccountData(acc.address, data)>> \in Batches
  BY <1>6, <1>7, WriteIsOut, OneIsBatch
<1>9. outputs \in Batches
  BY <1>8, LogsAreBatch, BatchConcat DEF outputs
<1>10. AllLawful(outputs, env)
  <2> DEFINE out == WriteAccountData(acc.address, data)
  <2>1. out \in Outs /\ out.kind = "write" /\ out.data = data
    BY <1>6, <1>7, WriteIsOut
  <2>2. data.kind \notin {"mint", "coin"} /\ data.balance = 0 /\ env.address # Currency
    BY MachineAssumption DEF NoData
  <2> HIDE DEF out, data
  <2>3. AllLawful(<<out>>, env)
    BY <2>1, <2>2, OneIsLawful DEF Lawful
  <2> QED
    BY <2>3, LogsAreLawful, LawfulConcat DEF outputs, out
<1> QED
  BY <1>1, <1>9, <1>10, CheckedOutputs

(* The WASM contract returns an error, whatever the call: no account is    *)
(* one of bytecode.                                                        *)
LEMMA WasmFails ==
    ASSUME NEW env, PlainEnv(env), NEW call
    PROVE  WasmContract(env, call).error # "none"
<1>1. ASSUME NEW n \in Nat, NEW checks, DOMAIN checks = 1..n, NEW i \in 1..n,
             checks[i] # "none", NEW outputs
      PROVE  Checked(checks, outputs).error # "none"
  BY <1>1, CheckedOk
<1>2. CheckBytecode(env) # "none"
  <2> DEFINE b == Acc(env, 2)
             authority == Acc(env, 3)
             checks == <<ErrorIf(~b.writable, "AccountNotWritable"),
                         ErrorIf(b.owner = env.address, "InvalidAccountOwner"),
                         ErrorIf(b.data = NoData, "AccountDoesNotExist"),
                         ErrorIf(b.data.kind # "bytecode", "InvalidInputAccounts"),
                         ErrorIf(b.data.authority # authority.address, "InvalidInputAccounts"),
                         ErrorIf(~authority.signer, "MissingSigners")>>
  <2>1. b.data.kind # "bytecode"
    BY AccIsPlain DEF PlainData
  <2>2. DOMAIN checks = 1..6 /\ checks[4] = ErrorIf(b.data.kind # "bytecode", "InvalidInputAccounts")
    OBVIOUS
  <2>3. CheckBytecode(env) = Checked(checks, <<>>).error
    BY DEF CheckBytecode
  <2> HIDE DEF checks, b
  <2>4. 4 \in 1..6 /\ checks[4] # "none"
    BY <2>1, <2>2 DEF ErrorIf
  <2> DEFINE none == <<>>
  <2> HIDE DEF none
  <2>5. Checked(checks, none).error # "none"
    BY <1>1, <2>2, <2>4
  <2> QED
    BY <2>3, <2>5 DEF none
<1>3. ExpectsAccounts(2) # "none" /\ ExpectsAccounts(3) # "none"
  BY WasmAssumption DEF ExpectsAccounts, ErrorIf
<1>4. ASSUME NEW seed, NEW authority, NEW size
      PROVE  process_allocate(env, seed, authority, size).error # "none"
  <2> DEFINE c == Acc(env, 1)
             b == Acc(env, 2)
             checks == <<ExpectsAccounts(2),
                         ErrorIf(size > MaxContractSize, "AccountTooLarge"),
                         contract_account(seed, env),
                         ErrorIf(c.executable \/ Taken(c), "AccountAlreadyExists"),
                         bytecode_account(seed, env),
                         ErrorIf(Taken(b), "AccountAlreadyExists"),
                         ErrorIf(~b.writable, "AccountNotWritable"),
                         ErrorIf(~has_private_key(authority), "InvalidInputAccounts")>>
             outputs == Logs(5) \o <<CreateOwnedAccount(b.address, BytecodeAccount(authority))>>
  <2>1. process_allocate(env, seed, authority, size).error = Checked(checks, outputs).error
    BY DEF process_allocate
  <2>2. DOMAIN checks = 1..8 /\ checks[1] = ExpectsAccounts(2)
    OBVIOUS
  <2> HIDE DEF checks, outputs
  <2>3. 1 \in 1..8 /\ checks[1] # "none"
    BY <1>3, <2>2
  <2>4. Checked(checks, outputs).error # "none"
    BY <1>1, <2>2, <2>3
  <2> QED
    BY <2>1, <2>4
<1>5. ASSUME NEW seed, NEW index, NEW valid
      PROVE  process_upload(env, seed, index, valid).error # "none"
  <2> DEFINE c == Acc(env, 1)
             content == Acc(env, 2).data
             checks == <<ExpectsAccounts(3),
                         ErrorIf(~valid, "InvalidInputParameters"),
                         contract_account(seed, env),
                         ErrorIf(c.executable \/ Taken(c), "AccountAlreadyExists"),
                         bytecode_account(seed, env),
                         CheckBytecode(env),
                         ErrorIf(Len(content.mask) >= index, "InvalidInputParameters"),
                         ErrorIf(index > Len(content.mask), "Panic")>>
  <2>1. process_upload(env, seed, index, valid).error = Checked(checks, <<>>).error
    BY DEF process_upload
  <2>2. DOMAIN checks = 1..8 /\ checks[1] = ExpectsAccounts(3)
    OBVIOUS
  <2> HIDE DEF checks
  <2>3. 1 \in 1..8 /\ checks[1] # "none"
    BY <1>3, <2>2
  <2>4. Checked(checks, <<>>).error # "none"
    BY <1>1, <2>2, <2>3
  <2> QED
    BY <2>1, <2>4
<1>6. ASSUME NEW seed, NEW init
      PROVE  process_install(env, seed, init).error # "none"
  <2> DEFINE c == Acc(env, 1)
             b == Acc(env, 2)
             checks == <<ErrorIf(AddressLength < 3, "InvalidInputAccounts"),
                         contract_account(seed, env),
                         ErrorIf(~c.writable, "AccountNotWritable"),
                         bytecode_account(seed, env),
                         CheckBytecode(env),
                         ErrorIf(\E i \in DOMAIN b.data.mask : ~b.data.mask[i], "NotAllUploaded")>>
             outputs == Logs(2) \o
                        <<DeleteOwnedAccount(b.address),
                          CreateExecutableAccount(c.address, b.data.bytecode)>> \o
                        (IF init
                         THEN <<ContractInvoke(c.address,
                                               SubSeq(env.accounts, 3, Len(env.accounts)))>>
                         ELSE <<>>)
  <2>1. process_install(env, seed, init).error = Checked(checks, outputs).error
    BY DEF process_install
  <2>2. DOMAIN checks = 1..6 /\ checks[5] = CheckBytecode(env)
    OBVIOUS
  <2> HIDE DEF checks, outputs
  <2>3. 5 \in 1..6 /\ checks[5] # "none"
    BY <1>2, <2>2
  <2>4. Checked(checks, outputs).error # "none"
    BY <1>1, <2>2, <2>3
  <2> QED
    BY <2>1, <2>4
<1>7. CASE call.op \notin {"allocate", "upload", "install"}
  <2> DEFINE checks == <<"InvalidInputParameters">>
  <2>1. WasmContract(env, call).error = Checked(checks, <<>>).error
    BY <1>7 DEF WasmContract
  <2>2. DOMAIN checks = 1..1 /\ checks[1] = "InvalidInputParameters"
    OBVIOUS
  <2> HIDE DEF checks
  <2>3. 1 \in 1..1 /\ checks[1] # "none"
    BY <2>2
  <2>4. Checked(checks, <<>>).error # "none"
    BY <1>1, <2>2, <2>3
  <2> QED
    BY <2>1, <2>4
<1>8. CASE call.op = "allocate"
  BY <1>4, <1>8 DEF WasmContract
<1>9. CASE call.op = "upload"
  BY <1>5, <1>9 DEF WasmContract
<1>10. CASE call.op = "install"
  BY <1>6, <1>10 DEF WasmContract
<1> QED
  BY <1>7, <1>8, <1>9, <1>10

-----------------------------------------------------------------------------
(***************************************************************************)
(* One transaction.                                                        *)
(***************************************************************************)
LEMMA EnvIsPlain ==
    ASSUME NEW S \in PlainStates, NEW t \in Transactions
    PROVE  /\ PlainEnv(create_environment(t.accounts, S, t.contract))
           /\ create_environment(t.accounts, S, t.contract).address = t.contract
<1> DEFINE refs == t.accounts
           views == create_environment(refs, S, t.contract).accounts
           Refs == [address : Addresses, writable : BOOLEAN, signer : BOOLEAN]
<1>1. refs \in Seq(Refs)
  BY MachineAssumption
<1>2. views = [i \in DOMAIN refs |->
        [address |-> refs[i].address, signer |-> refs[i].signer,
         writable |-> Writable(refs[i], S, t.contract),
         executable |-> S[refs[i].address].executable, owner |-> S[refs[i].address].owner,
         data |-> S[refs[i].address].data]]
  BY DEF create_environment
<1> HIDE DEF refs, views, Refs
<1>3. ASSUME NEW i \in DOMAIN refs PROVE views[i] \in Views
  <2>0. refs[i] \in Refs
    BY <1>1
  <2>1. refs[i].address \in Addresses /\ refs[i].signer \in BOOLEAN /\ refs[i].writable \in BOOLEAN
    BY <2>0 DEF Refs
  <2>2. S[refs[i].address] \in PlainAccounts
    BY <2>1 DEF PlainStates
  <2> DEFINE x == S[refs[i].address]
             w == Writable(refs[i], S, t.contract)
             ad == refs[i].address
             sg == refs[i].signer
  <2>3. w \in BOOLEAN
    BY <2>1 DEF Writable
  <2>4. /\ x.executable = FALSE /\ x.data \in PlainData
        /\ x.owner \in Addresses \cup {None, Currency, Sha3} /\ x.owner # Wasm
    BY <2>2, PlainFields
  <2>5. views[i] = [address |-> ad, signer |-> sg, writable |-> w,
                    executable |-> FALSE, owner |-> x.owner, data |-> x.data]
    BY <1>2, <2>4
  <2>6. ad \in Addresses /\ sg \in BOOLEAN
    BY <2>1
  <2> HIDE DEF x, w, ad, sg
  <2> QED
    BY <2>3, <2>4, <2>5, <2>6 DEF Views
<1>4. DOMAIN views = 1..Len(refs) /\ Len(refs) \in Nat /\ DOMAIN refs = 1..Len(refs)
  BY <1>1, <1>2
<1>5. views \in [1..Len(refs) -> Views]
  BY <1>2, <1>3, <1>4
<1> QED
  BY <1>4, <1>5 DEF PlainEnv, views, create_environment, refs

(* ExecutionUnit::new: the nonce is the next one, and no contract but the  *)
(* builtin ones can be called.                                             *)
LEMMA AdmissionOk ==
    ASSUME NEW S \in PlainStates, NEW t \in Transactions, Admission(t, S) = "none"
    PROVE  t.nonce = S[t.payer].nonce /\ t.contract \in {Currency, Wasm, Sha3} /\ t.valid
<1> DEFINE checks == <<ErrorIf(Len(t.accounts) > MaxAccounts, "TooManyInputAccounts"),
                       ErrorIf(~t.valid, "SignatureError"),
                       ErrorIf(t.nonce # S[t.payer].nonce, "InvalidTransactionNonce"),
                       IF t.contract \in {Currency, Wasm, Sha3} THEN "none"
                       ELSE contract(t.contract, S)>>
<1>1. Checked(checks, <<>>).error = "none"
  BY DEF Admission
<1>2. /\ DOMAIN checks = 1..4
      /\ checks[2] = ErrorIf(~t.valid, "SignatureError")
      /\ checks[3] = ErrorIf(t.nonce # S[t.payer].nonce, "InvalidTransactionNonce")
      /\ checks[4] = IF t.contract \in {Currency, Wasm, Sha3} THEN "none"
                     ELSE contract(t.contract, S)
  OBVIOUS
<1> HIDE DEF checks
<1>3. \A i \in 1..4 : checks[i] = "none"
  <2>1. 1..4 \subseteq Nat
    OBVIOUS
  <2> QED
    BY <1>1, <1>2, <2>1, CheckedOk, Zenon
<1>4. t.nonce = S[t.payer].nonce /\ t.valid
  <2>1. checks[2] = "none" /\ checks[3] = "none"
    BY <1>3
  <2> QED
    BY <1>2, <2>1, ErrorIfOk
<1>5. ASSUME t.contract \notin {Currency, Wasm, Sha3} PROVE FALSE
  <2> DEFINE a == t.contract
             lookup == <<ErrorIf(~S[a].exists, "ContractDoesNotExit"),
                         ErrorIf(S[a].owner # Wasm \/ ~S[a].executable \/ S[a].data = NoData,
                                 "AccountIsNotExecutable")>>
  <2>1. a \in Addresses
    BY <1>5, MachineAssumption
  <2>2. S[a].owner # Wasm
    BY <2>1, PlainFields DEF PlainStates
  <2>3. checks[4] = "none"
    BY <1>3
  <2>4. Checked(lookup, <<>>).error = "none"
    BY <1>2, <1>5, <2>3 DEF contract
  <2>5. /\ DOMAIN lookup = 1..2
        /\ lookup[2] = ErrorIf(S[a].owner # Wasm \/ ~S[a].executable \/ S[a].data = NoData,
                               "AccountIsNotExecutable")
    OBVIOUS
  <2> HIDE DEF lookup
  <2>6. \A i \in 1..2 : lookup[i] = "none"
    <3>1. 1..2 \subseteq Nat
      OBVIOUS
    <3> QED
      BY <2>4, <2>5, <3>1, CheckedOk, Zenon
  <2>7. lookup[2] = "none"
    BY <2>6
  <2> QED
    BY <2>2, <2>5, <2>7, ErrorIfOk
<1> QED
  BY <1>4, <1>5

LEMMA BuiltinIsBatch ==
    ASSUME NEW env, PlainEnv(env), env.address \in {Currency, Wasm, Sha3},
           NEW t \in Transactions, builtin(env.address, env, t.call).error = "none"
    PROVE  /\ builtin(env.address, env, t.call).outputs \in Batches
           /\ AllLawful(builtin(env.address, env, t.call).outputs, env)
           /\ env.address \in {Currency, Sha3}
<1>1. CASE env.address = Currency
  <2>1. builtin(env.address, env, t.call) = CurrencyContract(env, t.call)
    BY <1>1, MachineAssumption DEF builtin
  <2> QED
    BY <1>1, <2>1, CurrencyIsBatch
<1>2. CASE env.address = Wasm
  <2>1. builtin(env.address, env, t.call) = WasmContract(env, t.call)
    BY <1>2, MachineAssumption DEF builtin
  <2> QED
    BY <2>1, WasmFails
<1>3. CASE env.address = Sha3
  <2>1. builtin(env.address, env, t.call) = Sha3Contract(env)
    BY <1>3, MachineAssumption DEF builtin
  <2> QED
    BY <1>3, <2>1, Sha3IsBatch
<1> QED
  BY <1>1, <1>2, <1>3

LEMMA WriteOk ==
    ASSUME NEW out, out.kind = "write", NEW env, NEW S, OutputError(out, env, S) = "none"
    PROVE  S[out.address].exists
  BY DEF OutputError

(* One round of process_outputs.                                           *)
ProcessOne(sofar, out, env, S) ==
    LET error == OutputError(out, env, S)
        logs == sofar.logs + (IF out.kind = "log" THEN 1 ELSE 0) IN
    IF sofar.error # "none" THEN sofar
    ELSE [error |-> IF error # "none" THEN error ELSE ErrorIf(logs > MaxLogs, "TooManyLogs"),
          diff |-> Merge(sofar.diff, OutputDiff(out, env, S)),
          logs |-> logs]

(* f has what the first n rounds have accumulated.                         *)
Rounds(f, n, outputs, env, S) ==
    /\ f = [m \in 0..n |-> f[m]]
    /\ f[0] = NoOutput
    /\ \A m \in 1..n : f[m] = ProcessOne(f[m - 1], outputs[m], env, S)

LEMMA RoundsExist ==
    ASSUME NEW outputs, NEW env, NEW S, NEW k \in Nat
    PROVE  \E f : Rounds(f, k, outputs, env, S)
<1> DEFINE T == {n \in Nat : \E f : Rounds(f, n, outputs, env, S)}
<1>1. 0 \in T
  <2>1. Rounds([m \in 0..0 |-> NoOutput], 0, outputs, env, S)
    BY DEF Rounds
  <2> QED
    BY <2>1
<1>2. ASSUME NEW n \in Nat, n \in T PROVE n + 1 \in T
  <2>1. PICK f : Rounds(f, n, outputs, env, S)
    BY <1>2
  <2> DEFINE new == ProcessOne(f[n], outputs[n + 1], env, S)
             g == [m \in 0..(n + 1) |-> IF m <= n THEN f[m] ELSE new]
  <2>2. g[0] = NoOutput
    BY <2>1 DEF Rounds
  <2>3. ASSUME NEW m \in 1..(n + 1)
        PROVE  g[m] = ProcessOne(g[m - 1], outputs[m], env, S)
    <3>1. CASE m <= n
      <4>1. m \in 1..n /\ g[m] = f[m] /\ g[m - 1] = f[m - 1]
        BY <3>1
      <4> QED
        BY <4>1, <2>1 DEF Rounds
    <3>2. CASE m = n + 1
      <4>1. g[m - 1] = f[n] /\ g[m] = new
        BY <3>2
      <4> QED
        BY <4>1, <3>2
    <3> QED
      BY <3>1, <3>2
  <2>4. g = [m \in 0..(n + 1) |-> g[m]]
    OBVIOUS
  <2> HIDE DEF g
  <2>5. Rounds(g, n + 1, outputs, env, S)
    BY <2>2, <2>3, <2>4 DEF Rounds
  <2> QED
    BY <2>5
<1> HIDE DEF T
<1>3. k \in T
  BY <1>1, <1>2, Induction
<1> QED
  BY <1>3 DEF T

LEMMA RoundsStep ==
    ASSUME NEW f, NEW k \in Nat, NEW outputs, NEW env, NEW S, Rounds(f, k, outputs, env, S),
           NEW n \in Nat, n + 1 \in 1..k
    PROVE  f[n + 1] = ProcessOne(f[n], outputs[n + 1], env, S)
<1>1. \A m \in 1..k : f[m] = ProcessOne(f[m - 1], outputs[m], env, S)
  BY DEF Rounds
<1>2. (n + 1) - 1 = n
  OBVIOUS
<1>3. f[n + 1] = ProcessOne(f[(n + 1) - 1], outputs[n + 1], env, S)
  BY <1>1
<1> QED
  BY <1>2, <1>3

LEMMA ProcessUnfolds ==
    ASSUME NEW outputs, NEW env, NEW S, Len(outputs) \in Nat
    PROVE  \E f : /\ Rounds(f, Len(outputs), outputs, env, S)
                  /\ process_outputs(outputs, env, S) = f[Len(outputs)]
<1> DEFINE k == Len(outputs)
           U(g) == g = [n \in 0..k |->
                          IF n = 0 THEN NoOutput
                          ELSE ProcessOne(g[n - 1], outputs[n], env, S)]
           c == CHOOSE g : U(g)
<1>1. process_outputs(outputs, env, S) = c[k]
  BY DEF process_outputs, ProcessOne
<1>2. PICK f : Rounds(f, k, outputs, env, S)
  BY RoundsExist
<1>3. U(f)
  <2>1. \A n \in 0..k : f[n] = IF n = 0 THEN NoOutput
                                ELSE ProcessOne(f[n - 1], outputs[n], env, S)
    BY <1>2 DEF Rounds
  <2> QED
    BY <1>2, <2>1 DEF Rounds
<1>4. U(c)
  BY <1>3
<1> HIDE DEF c
<1>5. Rounds(c, k, outputs, env, S)
  <2>1. c = [n \in 0..k |-> c[n]] /\ c[0] = NoOutput
    BY <1>4
  <2>2. \A n \in 1..k : c[n] = ProcessOne(c[n - 1], outputs[n], env, S)
    BY <1>4
  <2> QED
    BY <2>1, <2>2 DEF Rounds
<1> QED
  BY <1>1, <1>5

(* A difference against the state S takes no nonce of a wallet back.       *)
KeepsNonces(d, S) == \A w \in Wallets : d.data[w].exists => d.data[w].nonce = S[w].nonce

LEMMA WalletsAreAddresses == Wallets \subseteq Addresses
  BY AddressAssumption

LEMMA MergeKeepsNonces ==
    ASSUME NEW S, NEW d \in PlainDiffs, NEW e, KeepsNonces(d, S), KeepsNonces(e, S)
    PROVE  KeepsNonces(Merge(d, e), S)
  BY WalletsAreAddresses DEF KeepsNonces, Merge

LEMMA EmptyKeepsNonces ==
    ASSUME NEW S PROVE KeepsNonces(EmptyDiff, S)
  BY WalletsAreAddresses DEF KeepsNonces, EmptyDiff, NoAccount

(* process_output, for every output but a removal.                         *)
LEMMA OutputIsPlain ==
    ASSUME NEW S \in PlainStates, NEW env, env.address \in {Currency, Sha3},
           NEW out \in Outs, out.kind # "delete"
    PROVE  /\ OutputDiff(out, env, S) \in PlainDiffs
           /\ KeepsNonces(OutputDiff(out, env, S), S)
           /\ out.kind = "write" => OutputDiff(out, env, S).data[out.address]
                                        = [S[out.address] EXCEPT !.data = out.data]
<1>1. CASE out.kind = "log"
  <2>1. OutputDiff(out, env, S) = EmptyDiff
    BY <1>1 DEF OutputDiff
  <2> QED
    BY <1>1, <2>1, EmptyIsPlain, EmptyKeepsNonces
<1>2. CASE out.kind = "create"
  <2> DEFINE x == Account(0, FALSE, env.address, out.data)
  <2>1. out.address \in Addresses /\ out.address \notin Wallets /\ out.data \in PlainData
    BY <1>2 DEF Outs
  <2>2. OutputDiff(out, env, S) = Set(EmptyDiff, out.address, x)
    BY <1>2 DEF OutputDiff
  <2>3. x \in PlainAccounts
    BY <2>1, AccountIsPlain, MachineAssumption
  <2> HIDE DEF x
  <2>4. /\ Set(EmptyDiff, out.address, x) \in PlainDiffs
        /\ Set(EmptyDiff, out.address, x).data = [EmptyDiff.data EXCEPT ![out.address] = x]
    BY <2>1, <2>3, EmptyIsPlain, SetIsPlain
  <2>5. ASSUME NEW w \in Wallets PROVE ~OutputDiff(out, env, S).data[w].exists
    BY <2>1, <2>2, <2>4, WalletsAreAddresses DEF EmptyDiff, NoAccount
  <2> QED
    BY <1>2, <2>2, <2>4, <2>5 DEF KeepsNonces
<1>3. CASE out.kind = "write"
  <2> DEFINE x == [S[out.address] EXCEPT !.data = out.data]
  <2>1. out.address \in Addresses /\ out.data \in PlainData
    BY <1>3 DEF Outs
  <2>2. S[out.address] \in PlainAccounts
    BY <2>1 DEF PlainStates
  <2>3. OutputDiff(out, env, S) = Set(EmptyDiff, out.address, x)
    BY <1>3 DEF OutputDiff
  <2>4. x \in PlainAccounts /\ x.nonce = S[out.address].nonce
    BY <2>1, <2>2 DEF PlainAccounts, Accounts, PlainData
  <2> HIDE DEF x
  <2>5. /\ Set(EmptyDiff, out.address, x) \in PlainDiffs
        /\ Set(EmptyDiff, out.address, x).data = [EmptyDiff.data EXCEPT ![out.address] = x]
    BY <2>1, <2>4, EmptyIsPlain, SetIsPlain
  <2>6. DOMAIN EmptyDiff.data = Addresses /\ \A a \in Addresses : ~EmptyDiff.data[a].exists
    BY DEF EmptyDiff, NoAccount
  <2>7. ASSUME NEW w \in Wallets, OutputDiff(out, env, S).data[w].exists
        PROVE  OutputDiff(out, env, S).data[w].nonce = S[w].nonce
    BY <2>1, <2>3, <2>4, <2>5, <2>6, <2>7, WalletsAreAddresses
  <2>8. OutputDiff(out, env, S).data[out.address] = x
    BY <2>1, <2>3, <2>5, <2>6
  <2> QED
    BY <2>3, <2>5, <2>7, <2>8 DEF KeepsNonces, x
<1>4. out.kind \in {"log", "create", "write"}
  BY DEF Outs
<1> QED
  BY <1>1, <1>2, <1>3, <1>4

(* A removal, of an account that was emptied before.                       *)
LEMMA RemovalIsPlain ==
    ASSUME NEW S, NEW env, NEW out \in Outs, out.kind = "delete",
           NEW d \in PlainDiffs, KeepsNonces(d, S), Emptied(d.data[out.address])
    PROVE  /\ Merge(d, OutputDiff(out, env, S)) \in PlainDiffs
           /\ KeepsNonces(Merge(d, OutputDiff(out, env, S)), S)
<1> DEFINE e == OutputDiff(out, env, S)
           a == out.address
<1>1. a \in Addresses \ Wallets
  BY DEF Outs
<1>2. e = Delete(EmptyDiff, a)
  BY DEF OutputDiff
<1>3. e.data = EmptyDiff.data /\ e.deletes = {a}
  BY <1>2 DEF Delete, EmptyDiff
<1> HIDE DEF e
<1>4. \A b \in Addresses : ~e.data[b].exists
  BY <1>3 DEF EmptyDiff, NoAccount
<1>5. d \in [data : PlainStates, deletes : SUBSET (Addresses \ Wallets)]
  BY DEF PlainDiffs
<1>6. Merge(d, e).data = [b \in Addresses |-> d.data[b]]
  BY <1>4 DEF Merge
<1>7. Merge(d, e).data = d.data
  BY <1>5, <1>6 DEF PlainStates
<1>8. Merge(d, e).deletes = d.deletes \cup {a}
  BY <1>3, <1>4, <1>5 DEF Merge
<1>9. Merge(d, e) = [data |-> d.data, deletes |-> d.deletes \cup {a}]
  BY <1>7, <1>8 DEF Merge
<1>10. Merge(d, e) \in PlainDiffs
  BY <1>1, <1>5, <1>9 DEF PlainDiffs
<1> QED
  BY <1>7, <1>10 DEF KeepsNonces, e

LEMMA ProcessIsPlain ==
    ASSUME NEW S \in PlainStates, NEW env, env.address \in {Currency, Sha3},
           NEW outputs \in Batches, process_outputs(outputs, env, S).error = "none"
    PROVE  /\ process_outputs(outputs, env, S).diff \in PlainDiffs
           /\ KeepsNonces(process_outputs(outputs, env, S).diff, S)
<1> DEFINE k == Len(outputs)
<1>1. outputs \in Seq(Outs) /\ k \in Nat /\ DOMAIN outputs = 1..k
  BY DEF Batches
<1>2. PICK f : Rounds(f, k, outputs, env, S) /\ process_outputs(outputs, env, S) = f[k]
  BY <1>1, ProcessUnfolds
<1> DEFINE Written(n) ==
              n \in 1..k /\ outputs[n].kind = "write" =>
                 /\ S[outputs[n].address].exists
                 /\ f[n].diff.data[outputs[n].address]
                       = [S[outputs[n].address] EXCEPT !.data = outputs[n].data]
           Good(n) == f[n].error = "none" =>
                        f[n].diff \in PlainDiffs /\ KeepsNonces(f[n].diff, S) /\ Written(n)
           T == {n \in Nat : n <= k => Good(n)}
<1>3. 0 \in T
  <2>1. f[0].diff = EmptyDiff
    BY <1>2 DEF Rounds, NoOutput
  <2> QED
    BY <2>1, EmptyIsPlain, EmptyKeepsNonces
<1>4. ASSUME NEW n \in Nat, n \in T PROVE n + 1 \in T
  <2> SUFFICES ASSUME n + 1 <= k, f[n + 1].error = "none"
               PROVE  /\ f[n + 1].diff \in PlainDiffs /\ KeepsNonces(f[n + 1].diff, S)
                      /\ Written(n + 1)
    OBVIOUS
  <2> DEFINE out == outputs[n + 1]
             e == OutputDiff(out, env, S)
  <2>1. n + 1 \in 1..k /\ out \in Outs
    BY <1>1
  <2>2. f[n + 1] = ProcessOne(f[n], out, env, S)
    BY <1>1, <1>2, <2>1, RoundsStep
  <2>3. f[n].error = "none" /\ OutputError(out, env, S) = "none"
        /\ f[n + 1].diff = Merge(f[n].diff, e)
    BY <2>2 DEF ProcessOne
  <2>4. f[n].diff \in PlainDiffs /\ KeepsNonces(f[n].diff, S) /\ Written(n)
    BY <1>4, <2>3
  <2>5. CASE out.kind # "delete"
    <3>1. /\ e \in PlainDiffs /\ KeepsNonces(e, S)
          /\ out.kind = "write" => e.data[out.address] = [S[out.address] EXCEPT !.data = out.data]
      BY <2>1, <2>5, OutputIsPlain
    <3>2. f[n + 1].diff \in PlainDiffs /\ KeepsNonces(f[n + 1].diff, S)
      BY <2>3, <2>4, <3>1, MergeIsPlain, MergeKeepsNonces
    <3>3. ASSUME out.kind = "write"
          PROVE  /\ S[out.address].exists
                 /\ f[n + 1].diff.data[out.address] = [S[out.address] EXCEPT !.data = out.data]
      <4>1. S[out.address].exists
        BY <2>3, <3>3, WriteOk
      <4>2. out.address \in Addresses /\ out.data \in PlainData
        BY <2>1, <3>3 DEF Outs
      <4>3. S[out.address] \in PlainAccounts
        BY <4>2 DEF PlainStates
      <4>4. [S[out.address] EXCEPT !.data = out.data].exists = S[out.address].exists
        BY <4>3 DEF PlainAccounts, Accounts
      <4>5. e.data[out.address].exists
        BY <3>1, <3>3, <4>1, <4>4
      <4>6. Merge(f[n].diff, e).data[out.address] = e.data[out.address]
        BY <4>2, <4>5 DEF Merge
      <4> QED
        BY <2>3, <3>1, <3>3, <4>1, <4>6
    <3> QED
      BY <3>2, <3>3
  <2>6. CASE out.kind = "delete"
    <3>1. EmptiedBefore(outputs, n + 1)
      BY <1>1, <2>1, <2>6 DEF Batches
    <3>2. /\ n \in 1..k /\ outputs[n].kind = "write" /\ outputs[n].address = out.address
          /\ outputs[n].data.kind = "coin" /\ outputs[n].data.balance = 0
      BY <1>1, <3>1 DEF EmptiedBefore
    <3>3. /\ S[out.address].exists
          /\ f[n].diff.data[out.address] = [S[out.address] EXCEPT !.data = outputs[n].data]
      BY <2>4, <3>2
    <3>4. S[out.address] \in PlainAccounts
      BY <2>1, <2>6 DEF Outs, PlainStates
    <3>5. Emptied(f[n].diff.data[out.address])
      BY <3>2, <3>3, <3>4 DEF PlainAccounts, Accounts, Emptied
    <3>6. Merge(f[n].diff, e) \in PlainDiffs /\ KeepsNonces(Merge(f[n].diff, e), S)
      BY <2>1, <2>4, <2>6, <3>5, RemovalIsPlain
    <3> QED
      BY <2>3, <2>6, <3>6
  <2> QED
    BY <2>5, <2>6
<1> HIDE DEF T
<1>5. k \in T
  BY <1>1, <1>3, <1>4, Induction
<1> QED
  BY <1>2, <1>5 DEF T

(* ExecutionUnit: a transaction that succeeds has the next nonce of its    *)
(* payer, and what it does to accounts leaves them plain.                  *)
LEMMA UnitIsPlain ==
    ASSUME NEW S \in PlainStates, NEW t \in Transactions, ExecutionUnit(t, S).error = "none"
    PROVE  /\ ExecutionUnit(t, S).diff \in PlainDiffs
           /\ KeepsNonces(ExecutionUnit(t, S).diff, S)
           /\ t.nonce = S[t.payer].nonce
<1> DEFINE env == create_environment(t.accounts, S, t.contract)
           called == builtin(t.contract, env, t.call)
<1>1. ExecutionUnit(t, S) =
        IF Admission(t, S) # "none" THEN [NoOutput EXCEPT !.error = Admission(t, S)]
        ELSE IF called.error # "none" THEN [NoOutput EXCEPT !.error = called.error]
        ELSE process_outputs(called.outputs, env, S)
  BY DEF ExecutionUnit
<1>2. PlainEnv(env) /\ env.address = t.contract
  BY EnvIsPlain
<1> HIDE DEF env, called
<1>3. Admission(t, S) = "none"
  BY <1>1 DEF NoOutput
<1>4. called.error = "none"
  BY <1>1, <1>3 DEF NoOutput
<1>5. ExecutionUnit(t, S) = process_outputs(called.outputs, env, S)
  BY <1>1, <1>3, <1>4
<1>6. t.nonce = S[t.payer].nonce /\ t.contract \in {Currency, Wasm, Sha3}
  BY <1>3, AdmissionOk
<1>7. called.outputs \in Batches /\ env.address \in {Currency, Sha3}
  BY <1>2, <1>4, <1>6, BuiltinIsBatch DEF called
<1> QED
  BY <1>5, <1>6, <1>7, ProcessIsPlain

-----------------------------------------------------------------------------
(***************************************************************************)
(* A block.                                                                *)
(***************************************************************************)

(* Merging a difference and reading through it, or reading through both.   *)
LEMMA OverlayOfMerge ==
    ASSUME NEW S, NEW d, NEW e, NEW a \in Addresses
    PROVE  Overlayed(S, Merge(d, e))[a] = Overlayed(Overlayed(S, d), e)[a]
<1>1. Merge(d, e).data[a] = IF e.data[a].exists THEN e.data[a] ELSE d.data[a]
  BY DEF Merge
<1> QED
  BY <1>1 DEF Overlayed

LEMMA PaidIsPlain ==
    ASSUME NEW S \in PlainStates, NEW w \in Wallets
    PROVE  /\ PaidBy(w, S) \in PlainAccounts /\ PaidBy(w, S).exists
           /\ PaidBy(w, S).nonce = S[w].nonce + 1
<1>1. S[w] \in PlainAccounts
  BY WalletsAreAddresses DEF PlainStates
<1>2. CASE S[w].exists
  BY <1>1, <1>2 DEF PaidBy, PlainAccounts, Accounts, PlainData
<1>3. CASE ~S[w].exists
  <2>1. PaidBy(w, S) = Account(1, FALSE, None, NoData)
    BY <1>3 DEF PaidBy
  <2>2. Account(1, FALSE, None, NoData) \in PlainAccounts
    BY AccountIsPlain, NoDataIsPlain, MachineAssumption
  <2>3. S[w].nonce = 0
    BY <1>1, <1>3, PlainFields
  <2> QED
    BY <2>1, <2>2, <2>3 DEF Account
<1> QED
  BY <1>2, <1>3

Bump(t, w) == IF w = t.payer THEN 1 ELSE 0

(* What one transaction may do: its payer's nonce grows, and it succeeds   *)
(* only if its nonce is the next one.                                      *)
OneEffect(S, sofar, t, new) ==
    LET before == Overlayed(S, sofar.state)
        after == Overlayed(S, new.state) IN
    /\ new.state \in PlainDiffs
    /\ \A w \in Wallets : after[w].nonce = before[w].nonce + Bump(t, w)
    /\ \/ new.logs = sofar.logs
       \/ /\ t.nonce = before[t.payer].nonce + 1
          /\ \E n : new.logs = sofar.logs \cup {<<t.hash, n>>}

LEMMA ExecuteOneIsPlain ==
    ASSUME NEW S \in PlainStates, NEW sofar, sofar.state \in PlainDiffs,
           NEW t \in Transactions
    PROVE  OneEffect(S, sofar, t, ExecuteOne(S, sofar, t))
<1> DEFINE new == ExecuteOne(S, sofar, t)
           before == Overlayed(S, sofar.state)
           paid == Set(sofar.state, t.payer, PaidBy(t.payer, before))
           mid == Overlayed(S, paid)
           unit == ExecutionUnit(t, mid)
           x == PaidBy(t.payer, before)
<1>1. t.payer \in Wallets /\ t.payer \in Addresses
  BY MachineAssumption, WalletsAreAddresses
<1>2. before \in PlainStates
  BY OverlayIsPlain
<1>3. x \in PlainAccounts /\ x.exists /\ x.nonce = before[t.payer].nonce + 1
  BY <1>1, <1>2, PaidIsPlain
<1>4. paid \in PlainDiffs /\ paid.data = [sofar.state.data EXCEPT ![t.payer] = x]
  BY <1>1, <1>3, SetIsPlain
<1>5. new = IF unit.error = "none"
            THEN [state |-> Merge(paid, unit.diff),
                  logs |-> sofar.logs \cup {<<t.hash, unit.logs>>},
                  errors |-> sofar.errors]
            ELSE [state |-> paid, logs |-> sofar.logs,
                  errors |-> {e \in sofar.errors : e[1] # t.hash} \cup {<<t.hash, unit.error>>}]
  BY DEF ExecuteOne
<1> HIDE DEF new, paid, unit, x
<1>6. mid \in PlainStates
  BY <1>4, OverlayIsPlain
<1>7. ASSUME NEW w \in Wallets PROVE mid[w].nonce = before[w].nonce + Bump(t, w)
  <2>1. w \in Addresses /\ sofar.state.data \in PlainStates
    BY WalletsAreAddresses DEF PlainDiffs
  <2>2. CASE w = t.payer
    <3>1. paid.data[w] = x
      BY <1>1, <1>4, <2>1, <2>2 DEF PlainStates
    <3> QED
      BY <1>3, <2>1, <2>2, <3>1 DEF Overlayed, Bump
  <2>3. CASE w # t.payer
    <3>1. paid.data[w] = sofar.state.data[w]
      BY <1>4, <2>1, <2>3 DEF PlainStates
    <3>2. mid[w] = before[w]
      BY <2>1, <3>1 DEF Overlayed
    <3>3. before[w].nonce \in Nat
      BY <1>2, <2>1, PlainFields DEF PlainStates
    <3> HIDE DEF mid, before
    <3> QED
      BY <2>3, <3>2, <3>3 DEF Bump
  <2> QED
    BY <2>2, <2>3
<1>8. CASE unit.error # "none"
  <2>1. new.state = paid /\ new.logs = sofar.logs
    BY <1>5, <1>8
  <2> QED
    BY <1>4, <1>7, <2>1 DEF new, OneEffect
<1>9. CASE unit.error = "none"
  <2>1. new.state = Merge(paid, unit.diff) /\ new.logs = sofar.logs \cup {<<t.hash, unit.logs>>}
    BY <1>5, <1>9
  <2>2. unit.diff \in PlainDiffs /\ KeepsNonces(unit.diff, mid) /\ t.nonce = mid[t.payer].nonce
    BY <1>6, <1>9, UnitIsPlain DEF unit
  <2>3. new.state \in PlainDiffs
    BY <1>4, <2>1, <2>2, MergeIsPlain
  <2>4. ASSUME NEW w \in Wallets
        PROVE  Overlayed(S, new.state)[w].nonce = before[w].nonce + Bump(t, w)
    <3>1. w \in Addresses
      BY WalletsAreAddresses
    <3>2. Overlayed(S, new.state)[w] = Overlayed(mid, unit.diff)[w]
      BY <2>1, <3>1, OverlayOfMerge
    <3>3. Overlayed(mid, unit.diff)[w].nonce = mid[w].nonce
      BY <2>2, <3>1 DEF Overlayed, KeepsNonces
    <3> QED
      BY <1>7, <3>2, <3>3
  <2>5. t.nonce = before[t.payer].nonce + 1
    BY <1>1, <1>7, <2>2 DEF Bump
  <2> QED
    BY <2>1, <2>3, <2>4, <2>5 DEF new, OneEffect
<1> QED
  BY <1>8, <1>9

(* f has what the first n transactions of a block have accumulated.        *)
Nothing == [state |-> EmptyDiff, logs |-> {}, errors |-> {}]
Runs(f, n, S, txs) ==
    /\ f = [m \in 0..n |-> f[m]]
    /\ f[0] = Nothing
    /\ \A m \in 1..n : f[m] = ExecuteOne(S, f[m - 1], txs[m])

LEMMA RunsExist ==
    ASSUME NEW S, NEW txs, NEW k \in Nat
    PROVE  \E f : Runs(f, k, S, txs)
<1> DEFINE T == {n \in Nat : \E f : Runs(f, n, S, txs)}
<1>1. 0 \in T
  <2>1. Runs([m \in 0..0 |-> Nothing], 0, S, txs)
    BY DEF Runs
  <2> QED
    BY <2>1
<1>2. ASSUME NEW n \in Nat, n \in T PROVE n + 1 \in T
  <2>1. PICK f : Runs(f, n, S, txs)
    BY <1>2
  <2> DEFINE new == ExecuteOne(S, f[n], txs[n + 1])
             g == [m \in 0..(n + 1) |-> IF m <= n THEN f[m] ELSE new]
  <2>2. g[0] = Nothing
    BY <2>1 DEF Runs
  <2>3. ASSUME NEW m \in 1..(n + 1)
        PROVE  g[m] = ExecuteOne(S, g[m - 1], txs[m])
    <3>1. CASE m <= n
      <4>1. m \in 1..n /\ g[m] = f[m] /\ g[m - 1] = f[m - 1]
        BY <3>1
      <4> QED
        BY <4>1, <2>1 DEF Runs
    <3>2. CASE m = n + 1
      <4>1. g[m - 1] = f[n] /\ g[m] = new
        BY <3>2
      <4> QED
        BY <4>1, <3>2
    <3> QED
      BY <3>1, <3>2
  <2>4. g = [m \in 0..(n + 1) |-> g[m]]
    OBVIOUS
  <2> HIDE DEF g
  <2>5. Runs(g, n + 1, S, txs)
    BY <2>2, <2>3, <2>4 DEF Runs
  <2> QED
    BY <2>5
<1> HIDE DEF T
<1>3. k \in T
  BY <1>1, <1>2, Induction
<1> QED
  BY <1>3 DEF T

LEMMA RunsStep ==
    ASSUME NEW f, NEW k \in Nat, NEW S, NEW txs, Runs(f, k, S, txs),
           NEW n \in Nat, n + 1 \in 1..k
    PROVE  f[n + 1] = ExecuteOne(S, f[n], txs[n + 1])
<1>1. \A m \in 1..k : f[m] = ExecuteOne(S, f[m - 1], txs[m])
  BY DEF Runs
<1>2. (n + 1) - 1 = n
  OBVIOUS
<1>3. f[n + 1] = ExecuteOne(S, f[(n + 1) - 1], txs[n + 1])
  BY <1>1
<1> QED
  BY <1>2, <1>3

LEMMA ExecuteUnfolds ==
    ASSUME NEW S, NEW txs, Len(txs) \in Nat
    PROVE  \E f : Runs(f, Len(txs), S, txs) /\ execute(S, txs) = f[Len(txs)]
<1> DEFINE k == Len(txs)
           U(g) == g = [n \in 0..k |->
                          IF n = 0 THEN Nothing ELSE ExecuteOne(S, g[n - 1], txs[n])]
           c == CHOOSE g : U(g)
<1>1. execute(S, txs) = c[k]
  BY DEF execute, Nothing
<1>2. PICK f : Runs(f, k, S, txs)
  BY RunsExist
<1>3. U(f)
  <2>1. \A n \in 0..k : f[n] = IF n = 0 THEN Nothing ELSE ExecuteOne(S, f[n - 1], txs[n])
    BY <1>2 DEF Runs
  <2> QED
    BY <1>2, <2>1 DEF Runs
<1>4. U(c)
  BY <1>3
<1> HIDE DEF c
<1>5. Runs(c, k, S, txs)
  <2>1. c = [n \in 0..k |-> c[n]] /\ c[0] = Nothing
    BY <1>4
  <2>2. \A n \in 1..k : c[n] = ExecuteOne(S, c[n - 1], txs[n])
    BY <1>4
  <2> QED
    BY <2>1, <2>2 DEF Runs
<1> QED
  BY <1>1, <1>5

(* The transactions that w pays for among the first n of a block.          *)
PaysIn(txs, n, w) == {j \in 1..n : txs[j].payer = w}
Count(txs, n, w) == Cardinality(PaysIn(txs, n, w))

LEMMA CountIsNat ==
    ASSUME NEW txs, NEW n \in Nat, NEW w
    PROVE  /\ Count(txs, n, w) \in Nat /\ IsFiniteSet(PaysIn(txs, n, w))
           /\ Count(txs, 0, w) = 0
           /\ Count(txs, n + 1, w) = Count(txs, n, w) + Bump(txs[n + 1], w)
<1>1. ASSUME NEW m \in Nat PROVE IsFiniteSet(PaysIn(txs, m, w))
  <2>1. IsFiniteSet(1..m) /\ PaysIn(txs, m, w) \subseteq 1..m
    BY FS_Interval DEF PaysIn
  <2> QED
    BY <2>1, FS_Subset
<1>2. Count(txs, n, w) \in Nat
  BY <1>1, FS_CardinalityType DEF Count
<1>3. Count(txs, 0, w) = 0
  <2>1. PaysIn(txs, 0, w) = {}
    BY DEF PaysIn
  <2> QED
    BY <2>1, FS_EmptySet DEF Count
<1>4. CASE txs[n + 1].payer = w
  <2>1. PaysIn(txs, n + 1, w) = PaysIn(txs, n, w) \cup {n + 1} /\ n + 1 \notin PaysIn(txs, n, w)
    BY <1>4 DEF PaysIn
  <2>2. Cardinality(PaysIn(txs, n, w) \cup {n + 1}) = Cardinality(PaysIn(txs, n, w)) + 1
    BY <1>1, <2>1, FS_AddElement
  <2> QED
    BY <1>1, <1>2, <1>3, <1>4, <2>1, <2>2 DEF Count, Bump
<1>5. CASE txs[n + 1].payer # w
  <2>1. PaysIn(txs, n + 1, w) = PaysIn(txs, n, w)
    BY <1>5 DEF PaysIn
  <2>2. Count(txs, n + 1, w) = Count(txs, n, w) + 0
    BY <1>2, <2>1 DEF Count
  <2> QED
    BY <1>1, <1>2, <1>3, <1>5, <2>2 DEF Bump
<1> QED
  BY <1>4, <1>5

Bodies == UNION {[1..n -> Transactions] : n \in 1..BlockBound}

LEMMA BodyFacts ==
    ASSUME NEW txs \in Bodies
    PROVE  /\ txs \in Seq(Transactions) /\ Len(txs) \in 1..BlockBound
           /\ DOMAIN txs = 1..Len(txs)
           /\ \A j \in 1..Len(txs) : txs[j] \in Transactions
<1>1. PICK n \in 1..BlockBound : txs \in [1..n -> Transactions]
  BY DEF Bodies
<1>2. BlockBound \in Nat
  BY MachineAssumption
<1>3. txs \in Seq(Transactions) /\ Len(txs) = n
  BY <1>1, <1>2
<1> QED
  BY <1>1, <1>2, <1>3

(* Machine::execute: the nonce of a wallet grows by the transactions that  *)
(* it pays for in the block, and a transaction that takes effect has the   *)
(* nonce of its place.                                                     *)
HasItsPlace(e, txs, j, S) ==
    /\ e[1] = txs[j].hash
    /\ txs[j].nonce = S[txs[j].payer].nonce + Count(txs, j, txs[j].payer)
BlockEffect(S, txs, output) ==
    /\ output.state \in PlainDiffs
    /\ \A w \in Wallets : Overlayed(S, output.state)[w].nonce
                              = S[w].nonce + Count(txs, Len(txs), w)
    /\ \A e \in output.logs : \E j \in 1..Len(txs) : HasItsPlace(e, txs, j, S)

LEMMA ExecuteIsPlain ==
    ASSUME NEW S \in PlainStates, NEW txs \in Bodies
    PROVE  BlockEffect(S, txs, execute(S, txs))
<1> DEFINE k == Len(txs)
<1>1. k \in Nat /\ \A j \in 1..k : txs[j] \in Transactions
  BY BodyFacts, MachineAssumption
<1>2. PICK f : Runs(f, k, S, txs) /\ execute(S, txs) = f[k]
  BY <1>1, ExecuteUnfolds
<1> DEFINE Nonces(n) == \A w \in Wallets : Overlayed(S, f[n].state)[w].nonce
                                              = S[w].nonce + Count(txs, n, w)
           Placed(n) == \A e \in f[n].logs : \E j \in 1..n : HasItsPlace(e, txs, j, S)
           T == {n \in Nat : n <= k => f[n].state \in PlainDiffs /\ Nonces(n) /\ Placed(n)}
<1>3. \A w \in Wallets : S[w].nonce \in Nat
  BY WalletsAreAddresses, PlainFields DEF PlainStates
<1>4. 0 \in T
  <2>1. f[0].state = EmptyDiff /\ f[0].logs = {}
    BY <1>2 DEF Runs, Nothing
  <2>2. ASSUME NEW w \in Wallets PROVE Overlayed(S, EmptyDiff)[w] = S[w]
    BY WalletsAreAddresses DEF Overlayed, EmptyDiff, NoAccount
  <2>3. ASSUME NEW w \in Wallets
        PROVE  Overlayed(S, f[0].state)[w].nonce = S[w].nonce + Count(txs, 0, w)
    <3>1. Count(txs, 0, w) = 0
      BY CountIsNat
    <3>2. S[w].nonce \in Nat
      BY <1>3
    <3> QED
      BY <2>1, <2>2, <3>1, <3>2
  <2> QED
    BY <2>1, <2>3, EmptyIsPlain
<1>5. ASSUME NEW n \in Nat, n \in T PROVE n + 1 \in T
  <2> SUFFICES ASSUME n + 1 <= k
               PROVE  f[n + 1].state \in PlainDiffs /\ Nonces(n + 1) /\ Placed(n + 1)
    OBVIOUS
  <2> DEFINE t == txs[n + 1]
             before == Overlayed(S, f[n].state)
             after == Overlayed(S, f[n + 1].state)
  <2>1. n + 1 \in 1..k /\ t \in Transactions
    BY <1>1
  <2>2. f[n].state \in PlainDiffs /\ Nonces(n) /\ Placed(n)
    BY <1>5
  <2>3. f[n + 1] = ExecuteOne(S, f[n], t)
    BY <1>1, <1>2, <2>1, RunsStep
  <2>4. /\ f[n + 1].state \in PlainDiffs
        /\ \A w \in Wallets : after[w].nonce = before[w].nonce + Bump(t, w)
        /\ \/ f[n + 1].logs = f[n].logs
           \/ /\ t.nonce = before[t.payer].nonce + 1
              /\ \E m : f[n + 1].logs = f[n].logs \cup {<<t.hash, m>>}
    <3>1. OneEffect(S, f[n], t, ExecuteOne(S, f[n], t))
      BY <2>1, <2>2, ExecuteOneIsPlain
    <3>2. OneEffect(S, f[n], t, f[n + 1])
      BY <2>3, <3>1
    <3> QED
      BY <3>2 DEF OneEffect
  <2> HIDE DEF t
  <2>5. ASSUME NEW w \in Wallets PROVE after[w].nonce = S[w].nonce + Count(txs, n + 1, w)
    <3>1. after[w].nonce = before[w].nonce + Bump(t, w)
      BY <2>4
    <3>2. before[w].nonce = S[w].nonce + Count(txs, n, w)
      BY <2>2
    <3>3. Count(txs, n, w) \in Nat /\ Count(txs, n + 1, w) = Count(txs, n, w) + Bump(t, w)
      BY CountIsNat DEF t
    <3>4. Bump(t, w) \in Nat
      BY DEF Bump
    <3> QED
      BY <1>3, <3>1, <3>2, <3>3, <3>4
  <2>6. ASSUME NEW e \in f[n].logs
        PROVE  \E j \in 1..(n + 1) : HasItsPlace(e, txs, j, S)
    <3>1. PICK j \in 1..n : HasItsPlace(e, txs, j, S)
      BY <2>2
    <3>2. j \in 1..(n + 1)
      OBVIOUS
    <3> QED
      BY <3>1, <3>2
  <2>7. CASE f[n + 1].logs = f[n].logs
    BY <2>4, <2>5, <2>6, <2>7
  <2>8. CASE /\ t.nonce = before[t.payer].nonce + 1
             /\ \E m : f[n + 1].logs = f[n].logs \cup {<<t.hash, m>>}
    <3>1. PICK m : f[n + 1].logs = f[n].logs \cup {<<t.hash, m>>}
      BY <2>8
    <3>2. t.payer \in Wallets
      BY <2>1, MachineAssumption DEF t
    <3>3. Bump(t, t.payer) = 1
      BY DEF Bump
    <3>4. t.nonce = S[t.payer].nonce + Count(txs, n + 1, t.payer)
      BY <2>4, <2>5, <2>8, <3>2, <3>3
    <3>5. ASSUME NEW e \in f[n + 1].logs
          PROVE  \E j \in 1..(n + 1) : HasItsPlace(e, txs, j, S)
      <4>1. CASE e \in f[n].logs
        BY <2>6, <4>1
      <4>2. CASE e = <<t.hash, m>>
        <5>1. n + 1 \in 1..(n + 1) /\ e[1] = t.hash
          BY <4>2
        <5> QED
          BY <3>4, <5>1 DEF t, HasItsPlace
      <4> QED
        BY <3>1, <4>1, <4>2
    <3> QED
      BY <2>4, <2>5, <3>5
  <2> QED
    BY <2>4, <2>7, <2>8
<1> HIDE DEF T
<1>6. k \in T
  BY <1>1, <1>4, <1>5, Induction
<1> QED
  BY <1>1, <1>2, <1>6 DEF T, BlockEffect

-----------------------------------------------------------------------------
(***************************************************************************)
(* What blocks do to mints and coins.                                      *)
(***************************************************************************)
IsOwned(x, a) ==
    /\ x.data.kind \in {"mint", "coin"} => x.exists /\ x.owner = Currency /\ a \notin Wallets
    /\ x.data.kind # "coin" => x.data.balance = 0
TokensAreOwned(S) == \A a \in Addresses : IsOwned(S[a], a)

(* What becomes of a revoked mint, and of an account whose wallet has not  *)
(* signed anything.                                                        *)
StaysRevoked(x, y) == Revoked(x.data) => Revoked(y.data) /\ y.data.supply <= x.data.supply
NotSpent(x, y) == x.data.balance <= y.data.balance

(* The coins of the wallets that have signed a transaction, or one of a    *)
(* block.                                                                  *)
SpentBy(t) ==
    {a \in Addresses : t.valid /\ \E m, w \in Addresses : \E i \in DOMAIN t.accounts :
        /\ t.accounts[i].signer /\ t.accounts[i].address = w
        /\ a = derive(Currency, m \o w)}
SpentIn(txs) == {a \in Addresses : \E j \in DOMAIN txs : a \in SpentBy(txs[j])}

(* A difference that respects the mints of a state, and the coins outside  *)
(* of X.                                                                   *)
KeptAt(x, y, a, X) ==
    IsOwned(y, a) /\ StaysRevoked(x, y) /\ (a \in X \/ NotSpent(x, y))
TokenSafe(d, S, X) ==
    \A a \in Addresses : d.data[a].exists => KeptAt(S[a], d.data[a], a, X)

LEMMA AmountsAreNat ==
    ASSUME NEW S \in PlainStates, NEW a \in Addresses
    PROVE  S[a].data.supply \in Nat /\ S[a].data.balance \in Nat
<1>1. S[a].data \in PlainData
  BY DEF PlainStates, PlainAccounts
<1> QED
  BY <1>1, AmountAssumption DEF PlainData, Data

LEMMA SameIsKeptAt ==
    ASSUME NEW S \in PlainStates, NEW a \in Addresses, TokensAreOwned(S), NEW X
    PROVE  KeptAt(S[a], S[a], a, X)
  BY AmountsAreNat DEF KeptAt, TokensAreOwned, StaysRevoked, NotSpent

LEMMA MergeIsTokenSafe ==
    ASSUME NEW S, NEW X, NEW d, NEW e, TokenSafe(d, S, X), TokenSafe(e, S, X)
    PROVE  TokenSafe(Merge(d, e), S, X)
  BY DEF TokenSafe, Merge

LEMMA EmptyIsTokenSafe ==
    ASSUME NEW S, NEW X, NEW e, e.data = EmptyDiff.data
    PROVE  TokenSafe(e, S, X)
  BY DEF TokenSafe, EmptyDiff, NoAccount

(* create_environment: an account that a call can write to is a wallet's,  *)
(* or new, or of the contract that is called.                              *)
LEMMA WritableOk ==
    ASSUME NEW S \in PlainStates, NEW t \in Transactions, NEW a \in Addresses,
           set_account(a, create_environment(t.accounts, S, t.contract)) = "none"
    PROVE  a \in Wallets \/ (S[a].exists => S[a].owner = t.contract)
<1> DEFINE env == create_environment(t.accounts, S, t.contract)
           refs == t.accounts
           First(i) == /\ env.accounts[i].address = a
                       /\ \A j \in 1..(i-1) : env.accounts[j].address # a
           c == CHOOSE i \in DOMAIN env.accounts : First(i)
<1>1. IsListed(a, env) /\ ViewOf(a, env).writable
  <2>1. set_account(a, env) = "none"
    OBVIOUS
  <2> HIDE DEF env
  <2> QED
    BY <2>1 DEF set_account, ErrorIf
<1>2. env.accounts \in Seq(Views)
  <2>1. PlainEnv(env)
    BY EnvIsPlain, ZenonT(60)
  <2> HIDE DEF env
  <2> QED
    BY <2>1 DEF PlainEnv
<1>3. /\ DOMAIN env.accounts = DOMAIN refs
      /\ \A i \in DOMAIN refs : /\ env.accounts[i].address = refs[i].address
                               /\ env.accounts[i].writable = Writable(refs[i], S, t.contract)
  BY DEF create_environment
<1>4. ViewOf(a, env) = env.accounts[c]
  BY DEF ViewOf
<1> HIDE DEF env
<1>5. \E i \in DOMAIN env.accounts : First(i)
  <2> DEFINE L == {i \in DOMAIN env.accounts : env.accounts[i].address = a}
  <2>1. L \subseteq Nat /\ L # {}
    BY <1>1, <1>2 DEF IsListed
  <2> HIDE DEF L
  <2>2. PICK i \in L : \A j \in L : i <= j
    BY <2>1, Smallest
  <2>3. i \in DOMAIN env.accounts /\ env.accounts[i].address = a
    BY DEF L
  <2>4. ASSUME NEW j \in 1..(i - 1) PROVE env.accounts[j].address # a
    <3>1. j \in DOMAIN env.accounts /\ ~(i <= j)
      BY <1>2, <2>1, <2>3
    <3> QED
      BY <2>2, <3>1 DEF L
  <2> QED
    BY <2>3, <2>4
<1>6. c \in DOMAIN env.accounts /\ First(c)
  BY <1>5
<1> HIDE DEF c
<1>7. refs[c].address = a /\ Writable(refs[c], S, t.contract)
  BY <1>1, <1>3, <1>4, <1>6
<1> QED
  BY <1>7 DEF Writable, has_private_key

(* process_output: what the Currency contract writes to mints and coins is *)
(* lawful, and no other contract can write to them.                        *)
LEMMA OutputIsTokenSafe ==
    ASSUME NEW S \in PlainStates, TokensAreOwned(S), NEW t \in Transactions,
           t.contract \in {Currency, Sha3}, t.valid,
           NEW env, env = create_environment(t.accounts, S, t.contract),
           NEW out \in Outs, Lawful(out, env), OutputError(out, env, S) = "none"
    PROVE  TokenSafe(OutputDiff(out, env, S), S, SpentBy(t))
<1> DEFINE e == OutputDiff(out, env, S)
           b == out.address
           X == SpentBy(t)
<1>1. env.address = t.contract
  BY DEF create_environment
<1>2. CASE out.kind = "log"
  <2>1. e = EmptyDiff
    BY <1>2 DEF OutputDiff
  <2> QED
    BY <2>1, EmptyIsTokenSafe
<1>3. CASE out.kind = "delete"
  <2>1. e.data = EmptyDiff.data
    BY <1>3 DEF OutputDiff, Delete, EmptyDiff
  <2> QED
    BY <2>1, EmptyIsTokenSafe
<1>4. CASE out.kind = "create"
  <2> DEFINE x == Account(0, FALSE, env.address, out.data)
  <2>1. b \in Addresses /\ b \notin Wallets
    BY <1>4 DEF Outs
  <2>2. e = Set(EmptyDiff, b, x) /\ ~S[b].exists
    BY <1>4 DEF OutputDiff, OutputError
  <2>3. x.data = out.data /\ x.exists /\ x.owner = env.address
    BY DEF Account
  <2> HIDE DEF x
  <2>4. S[b].data.kind # "mint" /\ S[b].data.balance = 0
    BY <2>1, <2>2 DEF TokensAreOwned, IsOwned
  <2>5. IsOwned(x, b) /\ StaysRevoked(S[b], x)
    BY <1>4, <2>1, <2>3, <2>4 DEF IsOwned, StaysRevoked, Revoked, Lawful
  <2>6. out.data \in PlainData
    BY <1>4 DEF Outs
  <2>7. out.data.balance \in Nat
    BY <2>6, AmountAssumption DEF PlainData, Data
  <2>8. KeptAt(S[b], x, b, X)
    BY <2>3, <2>4, <2>5, <2>7 DEF KeptAt, NotSpent
  <2>9. \A a \in Addresses : e.data[a] = IF a = b THEN x ELSE NoAccount
    BY <2>1, <2>2 DEF Set, EmptyDiff
  <2> HIDE DEF e
  <2>10. TokenSafe(e, S, X)
    BY <2>8, <2>9 DEF TokenSafe, NoAccount
  <2> QED
    BY <2>10 DEF e
<1>5. CASE out.kind = "write"
  <2> DEFINE x == [S[b] EXCEPT !.data = out.data]
  <2>1. b \in Addresses /\ out.data \in PlainData
    BY <1>5 DEF Outs
  <2>2. S[b] \in PlainAccounts
    BY <2>1 DEF PlainStates
  <2>3. e = Set(EmptyDiff, b, x) /\ S[b].exists /\ set_account(b, env) = "none"
    BY <1>5 DEF OutputDiff, OutputError
  <2>4. x.data = out.data /\ x.exists = S[b].exists /\ x.owner = S[b].owner
    BY <2>2 DEF PlainAccounts, Accounts
  <2> HIDE DEF x
  <2>5. b \in Wallets \/ S[b].owner = t.contract
    BY <2>1, <2>3, WritableOk
  <2>6. S[b].data.balance \in Nat /\ out.data.balance \in Nat
    <3>1. out.data.balance \in Nat
      BY <2>1, AmountAssumption DEF PlainData, Data
    <3> QED
      BY <2>1, <3>1, AmountsAreNat
  <2>7. KeptAt(S[b], x, b, X)
    <3>1. CASE env.address # Currency /\ out.data.kind \notin {"mint", "coin"} /\ out.data.balance = 0
      <4>1. IsOwned(S[b], b)
        BY <2>1 DEF TokensAreOwned
      <4>2. S[b].data.kind \notin {"mint", "coin"} /\ S[b].data.balance = 0
        BY <1>1, <2>5, <3>1, <4>1 DEF IsOwned
      <4> QED
        BY <2>4, <3>1, <4>2 DEF KeptAt, IsOwned, StaysRevoked, Revoked, NotSpent
    <3>2. CASE WrittenLawfully(out, env)
      <4>1. PICK i \in DOMAIN env.accounts :
                /\ env.accounts[i].address = b
                /\ DataKept(env.accounts[i].data, out.data)
                /\ out.data.balance < env.accounts[i].data.balance => SignedFor(env, b)
        BY <3>2 DEF WrittenLawfully
      <4>2. env.accounts[i].data = S[b].data
        <5>1. i \in DOMAIN t.accounts /\ env.accounts[i].data = S[t.accounts[i].address].data
              /\ env.accounts[i].address = t.accounts[i].address
          BY Zenon DEF create_environment
        <5> QED
          BY <4>1, <5>1, Zenon
      <4>3. SignedFor(env, b) => b \in X
        <5>1. /\ DOMAIN env.accounts = DOMAIN t.accounts
              /\ \A k \in DOMAIN t.accounts : /\ env.accounts[k].signer = t.accounts[k].signer
                                              /\ env.accounts[k].address = t.accounts[k].address
          BY Zenon DEF create_environment
        <5>2. ASSUME NEW m \in Addresses, NEW w \in Addresses, NEW k \in DOMAIN env.accounts,
                     env.accounts[k].signer, env.accounts[k].address = w,
                     b = derive(Currency, m \o w)
              PROVE  b \in SpentBy(t)
          BY <2>1, <5>1, <5>2, Zenon DEF SpentBy
        <5> QED
          BY <5>2, Zenon DEF SignedFor
      <4>4. IsOwned(x, b)
        <5>1. IsOwned(S[b], b)
          BY <2>1 DEF TokensAreOwned
        <5>2. x.data.kind = S[b].data.kind /\ (x.data.kind = "mint" => x.data.balance = S[b].data.balance)
              /\ x.data.kind \in {"mint", "coin"}
          BY <2>4, <4>1, <4>2 DEF DataKept
        <5> QED
          BY <2>4, <5>1, <5>2 DEF IsOwned
      <4>5. StaysRevoked(S[b], x)
        BY <2>4, <4>1, <4>2 DEF StaysRevoked, DataKept
      <4>6. b \in X \/ NotSpent(S[b], x)
        BY <2>4, <2>6, <4>1, <4>2, <4>3 DEF NotSpent
      <4> QED
        BY <4>4, <4>5, <4>6 DEF KeptAt
    <3> QED
      BY <1>5, <3>1, <3>2 DEF Lawful
  <2>8. \A a \in Addresses : e.data[a] = IF a = b THEN x ELSE NoAccount
    BY <2>1, <2>3 DEF Set, EmptyDiff
  <2> HIDE DEF e
  <2>9. TokenSafe(e, S, X)
    BY <2>7, <2>8 DEF TokenSafe, NoAccount
  <2> QED
    BY <2>9 DEF e
<1>6. out.kind \in {"log", "create", "write", "delete"}
  BY DEF Outs
<1> QED
  BY <1>2, <1>3, <1>4, <1>5, <1>6, ZenonT(60)

LEMMA ProcessIsTokenSafe ==
    ASSUME NEW S \in PlainStates, TokensAreOwned(S), NEW t \in Transactions,
           t.contract \in {Currency, Sha3}, t.valid,
           NEW env, env = create_environment(t.accounts, S, t.contract),
           NEW outputs, AllLawful(outputs, env),
           process_outputs(outputs, env, S).error = "none"
    PROVE  TokenSafe(process_outputs(outputs, env, S).diff, S, SpentBy(t))
<1> DEFINE k == Len(outputs)
           X == SpentBy(t)
<1>1. outputs \in Seq(Outs) /\ k \in Nat
  BY DEF AllLawful
<1>2. PICK f : Rounds(f, k, outputs, env, S) /\ process_outputs(outputs, env, S) = f[k]
  BY <1>1, ProcessUnfolds
<1> DEFINE T == {n \in Nat : n <= k /\ f[n].error = "none" => TokenSafe(f[n].diff, S, X)}
<1>3. 0 \in T
  <2>1. f[0].diff = EmptyDiff
    BY <1>2 DEF Rounds, NoOutput
  <2> QED
    BY <2>1, EmptyIsTokenSafe
<1>4. ASSUME NEW n \in Nat, n \in T PROVE n + 1 \in T
  <2> SUFFICES ASSUME n + 1 <= k, f[n + 1].error = "none"
               PROVE  TokenSafe(f[n + 1].diff, S, X)
    OBVIOUS
  <2> DEFINE out == outputs[n + 1]
             e == OutputDiff(out, env, S)
  <2>1. n + 1 \in 1..k /\ out \in Outs /\ Lawful(out, env)
    BY <1>1 DEF AllLawful
  <2>2. f[n + 1] = ProcessOne(f[n], out, env, S)
    BY <1>1, <1>2, <2>1, RoundsStep
  <2>3. f[n].error = "none" /\ OutputError(out, env, S) = "none"
        /\ f[n + 1].diff = Merge(f[n].diff, e)
    BY <2>2 DEF ProcessOne
  <2>4. TokenSafe(f[n].diff, S, X)
    BY <1>4, <2>3
  <2> HIDE DEF out
  <2>5. TokenSafe(e, S, X)
    BY <2>1, <2>3, OutputIsTokenSafe
  <2> HIDE DEF e
  <2> QED
    BY <2>3, <2>4, <2>5, MergeIsTokenSafe
<1> HIDE DEF T
<1>5. k \in T
  BY <1>1, <1>3, <1>4, Induction
<1> QED
  BY <1>2, <1>5 DEF T

LEMMA UnitIsTokenSafe ==
    ASSUME NEW S \in PlainStates, TokensAreOwned(S), NEW t \in Transactions,
           ExecutionUnit(t, S).error = "none"
    PROVE  TokenSafe(ExecutionUnit(t, S).diff, S, SpentBy(t))
<1> DEFINE env == create_environment(t.accounts, S, t.contract)
           called == builtin(t.contract, env, t.call)
<1>1. ExecutionUnit(t, S) =
        IF Admission(t, S) # "none" THEN [NoOutput EXCEPT !.error = Admission(t, S)]
        ELSE IF called.error # "none" THEN [NoOutput EXCEPT !.error = called.error]
        ELSE process_outputs(called.outputs, env, S)
  BY DEF ExecutionUnit
<1>2. PlainEnv(env) /\ env.address = t.contract
  BY EnvIsPlain
<1> HIDE DEF env, called
<1>3. Admission(t, S) = "none"
  BY <1>1 DEF NoOutput
<1>4. called.error = "none"
  BY <1>1, <1>3 DEF NoOutput
<1>5. ExecutionUnit(t, S) = process_outputs(called.outputs, env, S)
  BY <1>1, <1>3, <1>4
<1>6. t.contract \in {Currency, Wasm, Sha3} /\ t.valid
  BY <1>3, AdmissionOk
<1>7. AllLawful(called.outputs, env) /\ env.address \in {Currency, Sha3}
  BY <1>2, <1>4, <1>6, BuiltinIsBatch DEF called
<1>8. env = create_environment(t.accounts, S, t.contract)
  BY DEF env
<1> QED
  BY <1>2, <1>5, <1>6, <1>7, <1>8, ProcessIsTokenSafe

(* A state that another one has become.                                    *)
TokenEffect(S, T, X) == \A a \in Addresses : KeptAt(S[a], T[a], a, X)

LEMMA EffectIsOwned ==
    ASSUME NEW S, NEW T, NEW X, TokenEffect(S, T, X)
    PROVE  TokensAreOwned(T)
  BY DEF TokenEffect, KeptAt, TokensAreOwned

LEMMA TokenEffectChains ==
    ASSUME NEW S \in PlainStates, NEW T \in PlainStates, NEW U \in PlainStates,
           NEW X, NEW Y, NEW Z, TokenEffect(S, T, X), TokenEffect(T, U, Y),
           X \subseteq Z, Y \subseteq Z
    PROVE  TokenEffect(S, U, Z)
<1>1. ASSUME NEW a \in Addresses PROVE KeptAt(S[a], U[a], a, Z)
  <2>1. KeptAt(S[a], T[a], a, X) /\ KeptAt(T[a], U[a], a, Y)
    BY DEF TokenEffect
  <2>2. /\ S[a].data.supply \in Nat /\ T[a].data.supply \in Nat /\ U[a].data.supply \in Nat
        /\ S[a].data.balance \in Nat /\ T[a].data.balance \in Nat /\ U[a].data.balance \in Nat
    BY AmountsAreNat
  <2>3. StaysRevoked(S[a], U[a])
    BY <2>1, <2>2 DEF KeptAt, StaysRevoked
  <2>4. a \in Z \/ NotSpent(S[a], U[a])
    BY <2>1, <2>2 DEF KeptAt, NotSpent
  <2> QED
    BY <2>1, <2>3, <2>4 DEF KeptAt
<1> QED
  BY <1>1 DEF TokenEffect

LEMMA SafeOverlay ==
    ASSUME NEW S \in PlainStates, TokensAreOwned(S), NEW X, NEW d, TokenSafe(d, S, X)
    PROVE  TokenEffect(S, Overlayed(S, d), X)
<1>1. ASSUME NEW a \in Addresses PROVE KeptAt(S[a], Overlayed(S, d)[a], a, X)
  <2>1. CASE d.data[a].exists
    BY <2>1 DEF Overlayed, TokenSafe
  <2>2. CASE ~d.data[a].exists
    <3>1. Overlayed(S, d)[a] = S[a]
      BY <2>2 DEF Overlayed
    <3> QED
      BY <3>1, SameIsKeptAt
  <2> QED
    BY <2>1, <2>2
<1> QED
  BY <1>1 DEF TokenEffect

LEMMA ExecuteOneKeepsTokens ==
    ASSUME NEW S \in PlainStates, NEW sofar, sofar.state \in PlainDiffs,
           NEW t \in Transactions, TokensAreOwned(Overlayed(S, sofar.state))
    PROVE  TokenEffect(Overlayed(S, sofar.state), Overlayed(S, ExecuteOne(S, sofar, t).state),
                       SpentBy(t))
<1> DEFINE new == ExecuteOne(S, sofar, t)
           before == Overlayed(S, sofar.state)
           p == t.payer
           x == PaidBy(p, before)
           paid == Set(sofar.state, p, x)
           mid == Overlayed(S, paid)
           unit == ExecutionUnit(t, mid)
           X == SpentBy(t)
<1>1. p \in Wallets /\ p \in Addresses
  BY MachineAssumption, WalletsAreAddresses
<1>2. before \in PlainStates
  BY OverlayIsPlain
<1>3. x \in PlainAccounts /\ x.exists
  BY <1>1, <1>2, PaidIsPlain
<1>4. paid \in PlainDiffs /\ paid.data = [sofar.state.data EXCEPT ![p] = x]
  BY <1>1, <1>3, SetIsPlain
<1>5. new.state = IF unit.error = "none" THEN Merge(paid, unit.diff) ELSE paid
  BY DEF ExecuteOne
<1>6. x.data = before[p].data \/ x.data = NoData
  <2>1. before[p] \in PlainAccounts
    BY <1>1, <1>2 DEF PlainStates
  <2> HIDE DEF before
  <2> QED
    BY <2>1 DEF PaidBy, Account, PlainAccounts, Accounts
<1>7. before[p].data.kind \notin {"mint", "coin"} /\ before[p].data.balance = 0
  BY <1>1 DEF TokensAreOwned, IsOwned
<1>8. x.data.kind \notin {"mint", "coin"} /\ x.data.balance = 0
  BY <1>6, <1>7 DEF NoData
<1> HIDE DEF x
<1>9. ASSUME NEW a \in Addresses PROVE mid[a] = IF a = p THEN x ELSE before[a]
  <2>1. DOMAIN sofar.state.data = Addresses
    BY DEF PlainDiffs, PlainStates
  <2>2. paid.data[a] = IF a = p THEN x ELSE sofar.state.data[a]
    BY <1>1, <1>4, <2>1
  <2> HIDE DEF paid
  <2> QED
    BY <1>3, <2>2 DEF Overlayed
<1>10. mid \in PlainStates
  BY <1>4, OverlayIsPlain
<1> HIDE DEF paid, before, mid
<1>11. TokensAreOwned(before)
  BY DEF before
<1>12. TokenEffect(before, mid, X)
  <2>1. ASSUME NEW a \in Addresses PROVE KeptAt(before[a], mid[a], a, X)
    <3>1. CASE a = p
      BY <1>7, <1>8, <1>9, <3>1 DEF KeptAt, IsOwned, StaysRevoked, Revoked, NotSpent
    <3>2. CASE a # p
      BY <1>2, <1>9, <1>11, <3>2, SameIsKeptAt
    <3> QED
      BY <3>1, <3>2
  <2> QED
    BY <2>1 DEF TokenEffect
<1>13. CASE unit.error # "none"
  <2>1. new.state = paid
    BY <1>5, <1>13
  <2> HIDE DEF new
  <2> QED
    BY <1>12, <2>1 DEF mid, before, new
<1>14. CASE unit.error = "none"
  <2>1. new.state = Merge(paid, unit.diff)
    BY <1>5, <1>14
  <2>2. TokensAreOwned(mid)
    BY <1>12, EffectIsOwned
  <2>3. TokenSafe(unit.diff, mid, X) /\ unit.diff \in PlainDiffs
    BY <1>10, <1>14, <2>2, UnitIsTokenSafe, UnitIsPlain
  <2>4. TokenEffect(mid, Overlayed(mid, unit.diff), X) /\ Overlayed(mid, unit.diff) \in PlainStates
    BY <1>10, <2>2, <2>3, SafeOverlay, OverlayIsPlain
  <2>5. TokenEffect(before, Overlayed(mid, unit.diff), X)
    BY <1>2, <1>10, <1>12, <2>4, TokenEffectChains
  <2> HIDE DEF unit
  <2>6. Overlayed(S, Merge(paid, unit.diff)) = Overlayed(mid, unit.diff)
    <3>1. \A a \in Addresses : Overlayed(S, Merge(paid, unit.diff))[a] = Overlayed(mid, unit.diff)[a]
      BY OverlayOfMerge DEF mid
    <3> QED
      BY <3>1 DEF Overlayed
  <2> HIDE DEF new
  <2> QED
    BY <2>1, <2>5, <2>6 DEF before, new
<1> QED
  BY <1>13, <1>14

LEMMA ExecuteKeepsTokens ==
    ASSUME NEW S \in PlainStates, NEW txs \in Bodies, TokensAreOwned(S)
    PROVE  TokenEffect(S, Overlayed(S, execute(S, txs).state), SpentIn(txs))
<1> DEFINE k == Len(txs)
           X == SpentIn(txs)
<1>1. k \in Nat /\ DOMAIN txs = 1..k /\ \A j \in 1..k : txs[j] \in Transactions
  BY BodyFacts, MachineAssumption
<1>2. PICK f : Runs(f, k, S, txs) /\ execute(S, txs) = f[k]
  BY <1>1, ExecuteUnfolds
<1> DEFINE T == {n \in Nat : n <= k => /\ f[n].state \in PlainDiffs
                                       /\ TokenEffect(S, Overlayed(S, f[n].state), X)}
<1>3. 0 \in T
  <2>1. f[0].state = EmptyDiff
    BY <1>2 DEF Runs, Nothing
  <2>2. TokenSafe(EmptyDiff, S, X)
    BY EmptyIsTokenSafe
  <2> QED
    BY <2>1, <2>2, EmptyIsPlain, SafeOverlay
<1>4. ASSUME NEW n \in Nat, n \in T PROVE n + 1 \in T
  <2> SUFFICES ASSUME n + 1 <= k
               PROVE  f[n + 1].state \in PlainDiffs /\ TokenEffect(S, Overlayed(S, f[n + 1].state), X)
    OBVIOUS
  <2> DEFINE t == txs[n + 1]
             before == Overlayed(S, f[n].state)
             after == Overlayed(S, f[n + 1].state)
  <2>1. n + 1 \in 1..k /\ t \in Transactions
    BY <1>1
  <2>2. f[n].state \in PlainDiffs /\ TokenEffect(S, before, X)
    BY <1>4
  <2>3. f[n + 1] = ExecuteOne(S, f[n], t)
    BY <1>1, <1>2, <2>1, RunsStep
  <2>4. SpentBy(t) \subseteq X
    BY <1>1, <2>1 DEF SpentIn, SpentBy
  <2> HIDE DEF t
  <2>5. f[n + 1].state \in PlainDiffs
    <3>1. OneEffect(S, f[n], t, ExecuteOne(S, f[n], t))
      BY <2>1, <2>2, ExecuteOneIsPlain
    <3> QED
      BY <2>3, <3>1 DEF OneEffect
  <2>6. TokenEffect(before, after, SpentBy(t))
    <3>1. TokensAreOwned(Overlayed(S, f[n].state))
      BY <2>2, EffectIsOwned
    <3>2. TokenEffect(Overlayed(S, f[n].state), Overlayed(S, ExecuteOne(S, f[n], t).state),
                      SpentBy(t))
      BY <2>1, <2>2, <3>1, ExecuteOneKeepsTokens
    <3> QED
      BY <2>3, <3>2
  <2>7. before \in PlainStates /\ after \in PlainStates
    BY <2>2, <2>5, OverlayIsPlain
  <2> HIDE DEF before, after, X
  <2>8. TokenEffect(S, after, X)
    BY <2>2, <2>4, <2>6, <2>7, TokenEffectChains
  <2> QED
    BY <2>5, <2>8 DEF after
<1> HIDE DEF T
<1>5. k \in T
  BY <1>1, <1>3, <1>4, Induction
<1> QED
  BY <1>1, <1>2, <1>5 DEF T

-----------------------------------------------------------------------------
(***************************************************************************)
(* The validators.  What they see is compared with the state that the      *)
(* genesis and the outputs in the chain make.                              *)
(***************************************************************************)
Blocks == {[txs |-> b, output |-> execute(S, b)] : S \in PlainStates, b \in Bodies}

LEMMA BlockFacts ==
    ASSUME NEW b \in Blocks
    PROVE  b.txs \in Bodies /\ b.output.state \in PlainDiffs
<1>1. PICK S \in PlainStates, txs \in Bodies : b = [txs |-> txs, output |-> execute(S, txs)]
  BY DEF Blocks
<1>2. BlockEffect(S, txs, execute(S, txs))
  BY ExecuteIsPlain
<1> QED
  BY <1>1, <1>2 DEF BlockEffect

Genesis0 == [a \in Addresses |->
               IF GenesisState[a].exists THEN Persisted(GenesisState[a]) ELSE NoAccount]
StatesOf(c, n) == [i \in 1..n |-> c[i].output.state]
Canon(c, n) == CascadingState(Genesis0, StatesOf(c, n))

LEMMA GenesisIsPlain ==
    /\ Genesis0 \in PlainStates
    /\ \A w \in Wallets : Genesis0[w].nonce = GenesisState[w].nonce
<1>1. ASSUME NEW a \in Addresses
      PROVE  Genesis0[a] \in PlainAccounts /\ Genesis0[a].nonce = GenesisState[a].nonce
  <2>1. /\ GenesisState[a] \in Accounts /\ GenesisState[a].owner # Wasm
        /\ GenesisState[a].data.kind \notin {"bytecode", "code"}
        /\ ~GenesisState[a].exists => GenesisState[a] = NoAccount
    BY GenesisAssumption
  <2>2. GenesisState[a].data \in PlainData
    BY <2>1 DEF PlainData, Accounts
  <2>3. CASE GenesisState[a].exists
    <3>1. Genesis0[a] = Persisted(GenesisState[a])
      BY <2>3 DEF Genesis0
    <3> QED
      BY <2>1, <2>2, <2>3, <3>1, PersistedIsPlain
  <2>4. CASE ~GenesisState[a].exists
    <3>1. Genesis0[a] = NoAccount /\ GenesisState[a] = NoAccount
      BY <2>1, <2>4 DEF Genesis0
    <3> QED
      BY <3>1, NoDataIsPlain
  <2> QED
    BY <2>3, <2>4
<1>2. Genesis0 \in PlainStates
  BY <1>1 DEF Genesis0, PlainStates
<1> QED
  BY <1>1, <1>2, WalletsAreAddresses

LEMMA StatesAreDiffs ==
    ASSUME NEW c \in Seq(Blocks), NEW n \in 0..Len(c)
    PROVE  StatesOf(c, n) \in Seq(PlainDiffs) /\ Canon(c, n) \in PlainStates
<1>1. \A i \in 1..n : c[i] \in Blocks
  OBVIOUS
<1>2. \A i \in 1..n : c[i].output.state \in PlainDiffs
  BY <1>1, BlockFacts
<1>3. StatesOf(c, n) \in Seq(PlainDiffs)
  BY <1>2 DEF StatesOf
<1> QED
  BY <1>3, CascadeIsPlain, GenesisIsPlain DEF Canon

LEMMA CanonStep ==
    ASSUME NEW c \in Seq(Blocks), NEW n \in Nat, n + 1 <= Len(c)
    PROVE  Canon(c, n + 1) = Overlayed(Canon(c, n), c[n + 1].output.state)
<1>1. n \in 0..Len(c) /\ n + 1 \in 0..Len(c) /\ c[n + 1] \in Blocks
  OBVIOUS
<1> DEFINE older == StatesOf(c, n)
           newer == c[n + 1].output.state
<1>2. older \in Seq(PlainDiffs) /\ newer \in PlainDiffs /\ StatesOf(c, n + 1) \in Seq(PlainDiffs)
  BY <1>1, StatesAreDiffs, BlockFacts
<1>3. StatesOf(c, n + 1) = Append(older, newer)
  <2>1. Len(older) = n /\ Len(StatesOf(c, n + 1)) = n + 1
    BY DEF StatesOf
  <2>2. \A i \in 1..n : older[i] = StatesOf(c, n + 1)[i]
    BY DEF StatesOf
  <2>3. StatesOf(c, n + 1)[n + 1] = newer
    BY DEF StatesOf
  <2> HIDE DEF older, newer
  <2> QED
    BY <1>2, <2>1, <2>2, <2>3
<1> HIDE DEF older, newer
<1>4. CascadingState(Genesis0, Append(older, newer))
        = Overlayed(CascadingState(Genesis0, older), newer)
  BY <1>2, CascadeIsOverlay
<1> QED
  BY <1>3, <1>4 DEF Canon, older, newer

(* The transactions that w has paid for in the first n blocks.             *)
Paid(c, w, n) ==
    {p \in (1..n) \X (1..BlockBound) :
        p[2] \in DOMAIN c[p[1]].txs /\ c[p[1]].txs[p[2]].payer = w}

LEMMA PaidIsFinite ==
    ASSUME NEW c, NEW w, NEW n \in Nat
    PROVE  /\ IsFiniteSet(Paid(c, w, n)) /\ Cardinality(Paid(c, w, n)) \in Nat
           /\ Cardinality(Paid(c, w, 0)) = 0
<1>1. BlockBound \in Nat
  BY MachineAssumption
<1>2. IsFiniteSet(1..n) /\ IsFiniteSet(1..BlockBound)
  BY <1>1, FS_Interval
<1>3. IsFiniteSet((1..n) \X (1..BlockBound))
  BY <1>2, FS_Product
<1>4. IsFiniteSet(Paid(c, w, n))
  <2>1. Paid(c, w, n) \subseteq (1..n) \X (1..BlockBound)
    BY DEF Paid
  <2> QED
    BY <1>3, <2>1, FS_Subset
<1>5. Paid(c, w, 0) = {}
  BY DEF Paid
<1> QED
  BY <1>4, <1>5, FS_CardinalityType, FS_EmptySet

LEMMA PaidStep ==
    ASSUME NEW c \in Seq(Blocks), NEW w, NEW n \in Nat, n + 1 <= Len(c)
    PROVE  Cardinality(Paid(c, w, n + 1)) =
             Cardinality(Paid(c, w, n)) + Count(c[n + 1].txs, Len(c[n + 1].txs), w)
<1> DEFINE txs == c[n + 1].txs
           k == Len(txs)
           I == PaysIn(txs, k, w)
           new == {<<n + 1, j>> : j \in I}
           old == Paid(c, w, n)
<1>1. c[n + 1] \in Blocks
  OBVIOUS
<1>2. k \in 1..BlockBound /\ DOMAIN txs = 1..k /\ BlockBound \in Nat
  BY <1>1, BlockFacts, BodyFacts, MachineAssumption
<1>3. IsFiniteSet(I)
  BY <1>2, CountIsNat
<1>4. IsFiniteSet(new) /\ Cardinality(new) = Cardinality(I)
  <2> DEFINE f == [j \in I |-> <<n + 1, j>>]
  <2>1. f \in Bijection(I, new)
    <3>1. f \in [I -> new]
      OBVIOUS
    <3>2. \A i, j \in I : f[i] = f[j] => i = j
      OBVIOUS
    <3>3. \A y \in new : \E j \in I : f[j] = y
      OBVIOUS
    <3> QED
      BY <3>1, <3>2, <3>3 DEF Bijection, Injection, Surjection, IsInjective
  <2> HIDE DEF f, I, new
  <2>2. ExistsBijection(I, new)
    BY <2>1 DEF ExistsBijection
  <2> QED
    BY <1>3, <2>2, FS_Bijection
<1>5. IsFiniteSet(old) /\ Cardinality(old) \in Nat
  BY PaidIsFinite
<1>6. Paid(c, w, n + 1) = old \cup new
  <2>1. ASSUME NEW p \in Paid(c, w, n + 1) PROVE p \in old \cup new
    <3>1. PICK i \in 1..(n + 1), j \in 1..BlockBound : p = <<i, j>>
      BY DEF Paid
    <3>2. j \in DOMAIN c[i].txs /\ c[i].txs[j].payer = w
      BY <3>1 DEF Paid
    <3>3. CASE i = n + 1
      <4>1. j \in I
        BY <1>2, <3>2, <3>3 DEF PaysIn
      <4> QED
        BY <3>1, <3>3, <4>1
    <3>4. CASE i \in 1..n
      BY <3>1, <3>2, <3>4 DEF Paid
    <3> QED
      BY <3>1, <3>3, <3>4
  <2>2. ASSUME NEW p \in old PROVE p \in Paid(c, w, n + 1)
    BY DEF Paid
  <2>3. ASSUME NEW p \in new PROVE p \in Paid(c, w, n + 1)
    <3>1. PICK j \in I : p = <<n + 1, j>>
      OBVIOUS
    <3>2. j \in 1..k /\ txs[j].payer = w
      BY DEF PaysIn
    <3>3. j \in 1..BlockBound /\ n + 1 \in 1..(n + 1)
      BY <1>2, <3>2
    <3> QED
      BY <1>2, <3>1, <3>2, <3>3 DEF Paid
  <2> QED
    BY <2>1, <2>2, <2>3
<1>7. old \cap new = {}
  <2>1. ASSUME NEW p \in old PROVE p[1] \in 1..n
    BY DEF Paid
  <2>2. ASSUME NEW p \in new PROVE p[1] = n + 1
    OBVIOUS
  <2> QED
    BY <2>1, <2>2
<1>8. Cardinality(old \cup new) = Cardinality(old) + Cardinality(new)
  <2> HIDE DEF old, new
  <2>1. Cardinality(old \cup new) = Cardinality(old) + Cardinality(new) - Cardinality(old \cap new)
    BY <1>4, <1>5, FS_Union
  <2>2. Cardinality(old \cap new) = 0
    BY <1>7, FS_EmptySet
  <2>3. Cardinality(new) \in Nat
    BY <1>4, FS_CardinalityType
  <2> QED
    BY <1>5, <2>1, <2>2, <2>3
<1> QED
  BY <1>4, <1>6, <1>8 DEF Count

(* A new block leaves what is below it alone.                              *)
LEMMA PrefixIsKept ==
    ASSUME NEW c \in Seq(Blocks), NEW b \in Blocks, NEW n \in 0..Len(c), NEW w
    PROVE  /\ Canon(Append(c, b), n) = Canon(c, n)
           /\ Paid(Append(c, b), w, n) = Paid(c, w, n)
<1> DEFINE d == Append(c, b)
<1>1. \A i \in 1..n : d[i] = c[i]
  OBVIOUS
<1> HIDE DEF d
<1>2. StatesOf(d, n) = StatesOf(c, n)
  BY <1>1 DEF StatesOf
<1>3. Paid(d, w, n) = Paid(c, w, n)
  <2>1. ASSUME NEW p \in (1..n) \X (1..BlockBound) PROVE d[p[1]] = c[p[1]]
    BY <1>1
  <2> QED
    BY <2>1 DEF Paid
<1> QED
  BY <1>2, <1>3 DEF Canon, d

-----------------------------------------------------------------------------
(* The inductive invariant.                                                *)
Types ==
    /\ chain \in Seq(Blocks)
    /\ base \in [Replicas -> PlainStates]
    /\ finalized \in [Replicas -> Nat]
    /\ volatile \in [Replicas -> Seq(PlainDiffs)]
    /\ rejected \in [Replicas -> BOOLEAN]
    /\ \A r \in Replicas : Included(r) <= Len(chain)

(* A validator sees what the chain makes, or no account where the chain    *)
(* has emptied and deleted one.                                            *)
Sees(x, y, a) == x = y \/ (x = NoAccount /\ a \notin Wallets /\ Emptied(y))
HeadsFollow ==
    \A r \in Replicas : \A a \in Addresses :
        Sees(HeadState(r)[a], Canon(chain, Included(r))[a], a)

NoncesFollow ==
    \A n \in 0..Len(chain) : \A w \in Wallets :
        Canon(chain, n)[w].nonce = GenesisState[w].nonce + Cardinality(Paid(chain, w, n))

(* What took effect in a block had the nonce of its place in the chain.    *)
EffectsFollow ==
    \A n \in 0..(Len(chain) - 1) : \A e \in chain[n + 1].output.logs :
        \E j \in 1..Len(chain[n + 1].txs) :
            HasItsPlace(e, chain[n + 1].txs, j, Canon(chain, n))

MachineInv == Types /\ HeadsFollow /\ NoncesFollow /\ EffectsFollow

LEMMA HeadIsPlain ==
    ASSUME Types, NEW r \in Replicas
    PROVE  HeadState(r) \in PlainStates /\ Included(r) \in 0..Len(chain)
<1>1. base[r] \in PlainStates /\ volatile[r] \in Seq(PlainDiffs)
  BY DEF Types
<1>2. HeadState(r) \in PlainStates
  BY <1>1, CascadeIsPlain DEF HeadState
<1>3. Included(r) \in Nat
  BY DEF Types, Included
<1> QED
  BY <1>2, <1>3 DEF Types

LEMMA InitEstablishes == Init => MachineInv
<1> SUFFICES ASSUME Init PROVE MachineInv
  OBVIOUS
<1>1. /\ chain = <<>> /\ base = [r \in Replicas |-> Genesis0]
      /\ finalized = [r \in Replicas |-> 0] /\ volatile = [r \in Replicas |-> <<>>]
      /\ rejected = [r \in Replicas |-> FALSE]
  BY DEF Init, Genesis0
<1>2. \A r \in Replicas : Included(r) = 0
  BY <1>1 DEF Included
<1>3. Types
  BY <1>1, <1>2, GenesisIsPlain DEF Types
<1>4. Len(chain) = 0 /\ StatesOf(chain, 0) = <<>>
  BY <1>1 DEF StatesOf
<1>5. ASSUME NEW a \in Addresses PROVE Canon(chain, 0)[a] = Genesis0[a]
  <2>1. DOMAIN <<>> = {}
    OBVIOUS
  <2>2. CascadingState(Genesis0, <<>>)[a] = Genesis0[a]
    BY <2>1 DEF CascadingState
  <2> QED
    BY <1>4, <2>2 DEF Canon
<1>6. HeadsFollow
  <2>1. ASSUME NEW r \in Replicas, NEW a \in Addresses
        PROVE  HeadState(r)[a] = Canon(chain, Included(r))[a]
    <3>1. base[r] = Genesis0 /\ volatile[r] = <<>>
      BY <1>1
    <3> QED
      BY <1>2, <1>4, <3>1 DEF HeadState, Canon
  <2> QED
    BY <2>1 DEF HeadsFollow, Sees
<1>7. NoncesFollow
  <2>1. ASSUME NEW w \in Wallets
        PROVE  Canon(chain, 0)[w].nonce = GenesisState[w].nonce + Cardinality(Paid(chain, w, 0))
    <3>1. Canon(chain, 0)[w].nonce = GenesisState[w].nonce
      BY <1>5, GenesisIsPlain, WalletsAreAddresses
    <3>2. Cardinality(Paid(chain, w, 0)) = 0
      BY PaidIsFinite
    <3>3. GenesisState[w].nonce \in Nat
      BY GenesisAssumption, WalletsAreAddresses DEF Accounts
    <3> QED
      BY <3>1, <3>2, <3>3
  <2> QED
    BY <1>4, <2>1 DEF NoncesFollow
<1>8. EffectsFollow
  BY <1>4 DEF EffectsFollow
<1> QED
  BY <1>3, <1>6, <1>7, <1>8 DEF MachineInv

(* Executing a block on top of the head: the view follows, whatever the    *)
(* head lacks.                                                             *)
LEMMA SeesOverlay ==
    ASSUME NEW S, NEW T, NEW d, NEW e, d.data = e.data,
           NEW a \in Addresses, Sees(S[a], T[a], a)
    PROVE  Sees(Overlayed(S, d)[a], Overlayed(T, e)[a], a)
<1>1. Overlayed(S, d)[a] = IF d.data[a].exists THEN d.data[a] ELSE S[a]
  BY DEF Overlayed
<1>2. Overlayed(T, e)[a] = IF d.data[a].exists THEN d.data[a] ELSE T[a]
  BY DEF Overlayed
<1>3. CASE d.data[a].exists
  BY <1>1, <1>2, <1>3 DEF Sees
<1>4. CASE ~d.data[a].exists
  BY <1>1, <1>2, <1>4
<1> QED
  BY <1>3, <1>4

(* Finalized::apply on a view.                                             *)
LEMMA SeesFinalized ==
    ASSUME NEW S \in PlainStates, NEW diffs \in Seq(PlainDiffs), diffs # <<>>,
           NEW a \in Addresses, NEW y, Sees(CascadingState(S, diffs)[a], y, a)
    PROVE  Sees(CascadingState(Applied(S, Head(diffs)), Tail(diffs))[a], y, a)
<1> DEFINE before == CascadingState(S, diffs)[a]
           after == CascadingState(Applied(S, Head(diffs)), Tail(diffs))[a]
<1>1. /\ Head(diffs) \in PlainDiffs /\ Tail(diffs) \in Seq(PlainDiffs)
      /\ Head(diffs) = diffs[1] /\ Len(diffs) \in Nat /\ 1 \in 1..Len(diffs)
  OBVIOUS
<1>2. before \in PlainAccounts /\ after \in PlainAccounts
  <2>1. CascadingState(S, diffs) \in PlainStates
    BY CascadeIsPlain
  <2>2. Applied(S, Head(diffs)) \in PlainStates
    BY <1>1, AppliedIsPlain
  <2>3. CascadingState(Applied(S, Head(diffs)), Tail(diffs)) \in PlainStates
    BY <1>1, <2>2, CascadeIsPlain
  <2> QED
    BY <2>1, <2>3 DEF PlainStates
<1>3. CASE a \in Head(diffs).deletes /\ OnlyFirst(diffs, a)
  <2>1. after = NoAccount
    BY <1>3, FinalizationKeepsTheView
  <2>2. Emptied(diffs[1].data[a]) /\ a \notin Wallets
    BY <1>1, <1>3 DEF PlainDiffs
  <2>3. Wrote(diffs[1], a) /\ \A j \in 1..Len(diffs) : Wrote(diffs[j], a) => j <= 1
    BY <1>1, <1>3, <2>2 DEF Wrote, Emptied, OnlyFirst
  <2>4. before = diffs[1].data[a]
    BY <1>1, <2>3, CascadeReads
  <2>5. Emptied(before) /\ before # NoAccount
    BY <2>2, <2>4 DEF Emptied, NoAccount
  <2>6. y = before
    BY <2>5 DEF Sees
  <2> HIDE DEF before, after
  <2> QED
    BY <2>1, <2>2, <2>5, <2>6 DEF Sees, after
<1>4. CASE ~(a \in Head(diffs).deletes /\ OnlyFirst(diffs, a))
  <2>1. Persisted(after) = Persisted(before)
    BY <1>4, FinalizationKeepsTheView
  <2>2. Persisted(after) = after /\ Persisted(before) = before
    BY <1>2, PersistedIsPlain, PlainFields
  <2>3. after = before
    BY <2>1, <2>2
  <2> QED
    BY <2>3
<1> QED
  BY <1>3, <1>4

(* A validator whose head does not change.                                 *)
LEMMA SameHead ==
    ASSUME NEW r, base'[r] = base[r], volatile'[r] = volatile[r],
           finalized'[r] = finalized[r]
    PROVE  HeadState(r)' = HeadState(r) /\ Included(r)' = Included(r)
  BY DEF HeadState, Included

(* A validator that includes a block with the difference d.                *)
LEMMA LongerHead ==
    ASSUME Types, NEW r \in Replicas, NEW d \in PlainDiffs, base' = base, finalized' = finalized,
           volatile' = [volatile EXCEPT ![r] = Append(@, d)]
    PROVE  /\ volatile' \in [Replicas -> Seq(PlainDiffs)]
           /\ HeadState(r)' = Overlayed(HeadState(r), d)
           /\ Included(r)' = Included(r) + 1
           /\ \A s \in Replicas : s # r => /\ HeadState(s)' = HeadState(s)
                                           /\ Included(s)' = Included(s)
<1>1. volatile[r] \in Seq(PlainDiffs) /\ finalized[r] \in Nat
  BY DEF Types
<1>2. volatile'[r] = Append(volatile[r], d)
  BY DEF Types
<1>3. volatile' \in [Replicas -> Seq(PlainDiffs)]
  BY <1>1 DEF Types
<1>4. HeadState(r)' = Overlayed(HeadState(r), d)
  BY <1>1, <1>2, CascadeIsOverlay DEF HeadState
<1>5. Included(r)' = Included(r) + 1
  BY <1>1, <1>2 DEF Included
<1>6. ASSUME NEW s \in Replicas, s # r
      PROVE  HeadState(s)' = HeadState(s) /\ Included(s)' = Included(s)
  <2>1. volatile'[s] = volatile[s]
    BY <1>6 DEF Types
  <2> QED
    BY <2>1, SameHead
<1> QED
  BY <1>3, <1>4, <1>5, <1>6

LEMMA ProduceKeeps ==
    ASSUME MachineInv, NEW r \in Replicas, NEW txs \in Bodies, Produce(r, txs)
    PROVE  MachineInv'
<1> DEFINE S == HeadState(r)
           output == execute(S, txs)
           b == [txs |-> txs, output |-> output]
           n == Len(chain)
<1>1. S \in PlainStates /\ n \in Nat /\ chain \in Seq(Blocks)
  BY HeadIsPlain DEF MachineInv, Types
<1>2. b \in Blocks /\ b.txs = txs /\ b.output = output
  BY <1>1 DEF Blocks
<1>3. BlockEffect(S, txs, output)
  BY <1>1, ExecuteIsPlain
<1> HIDE DEF output, b
<1>4. output.state \in PlainDiffs
  BY <1>3 DEF BlockEffect
<1>5. /\ chain' = Append(chain, b) /\ Included(r) = n
      /\ volatile' = [volatile EXCEPT ![r] = Append(@, output.state)]
      /\ base' = base /\ finalized' = finalized /\ rejected' = rejected
  BY DEF Produce, output, b
<1>6. /\ chain' \in Seq(Blocks) /\ Len(chain') = n + 1 /\ chain'[n + 1] = b
      /\ \A i \in 1..n : chain'[i] = chain[i]
  BY <1>1, <1>2, <1>5
<1>7. /\ volatile' \in [Replicas -> Seq(PlainDiffs)]
      /\ HeadState(r)' = Overlayed(S, output.state)
      /\ Included(r)' = n + 1
      /\ \A s \in Replicas : s # r => /\ HeadState(s)' = HeadState(s)
                                      /\ Included(s)' = Included(s)
  BY <1>4, <1>5, LongerHead DEF MachineInv
<1>8. ASSUME NEW m \in 0..n, NEW w
      PROVE  Canon(chain', m) = Canon(chain, m) /\ Paid(chain', w, m) = Paid(chain, w, m)
  BY <1>1, <1>2, <1>5, PrefixIsKept
<1>9. Canon(chain', n + 1) = Overlayed(Canon(chain, n), output.state)
  <2>1. Canon(chain', n + 1) = Overlayed(Canon(chain', n), chain'[n + 1].output.state)
    BY <1>1, <1>6, CanonStep
  <2>2. n \in 0..n
    BY <1>1
  <2> QED
    BY <1>2, <1>6, <1>8, <2>1, <2>2
<1>10. ASSUME NEW w \in Wallets PROVE S[w] = Canon(chain, n)[w]
  BY <1>5, WalletsAreAddresses DEF MachineInv, HeadsFollow, Sees
<1>11. Types'
  <2>1. ASSUME NEW s \in Replicas PROVE Included(s)' <= n + 1
    <3>1. CASE s = r
      BY <1>1, <1>7, <3>1
    <3>2. CASE s # r
      <4>1. Included(s) \in 0..n
        BY HeadIsPlain DEF MachineInv
      <4> QED
        BY <1>1, <1>7, <3>2, <4>1
    <3> QED
      BY <3>1, <3>2
  <2> QED
    BY <1>5, <1>6, <1>7, <2>1 DEF MachineInv, Types
<1>12. HeadsFollow'
  <2>1. ASSUME NEW s \in Replicas, NEW a \in Addresses
        PROVE  Sees(HeadState(s)'[a], Canon(chain', Included(s)')[a], a)
    <3>1. CASE s = r
      <4>1. Sees(S[a], Canon(chain, n)[a], a)
        BY <1>5 DEF MachineInv, HeadsFollow
      <4>2. Sees(Overlayed(S, output.state)[a], Overlayed(Canon(chain, n), output.state)[a], a)
        BY <4>1, SeesOverlay
      <4> QED
        BY <1>7, <1>9, <3>1, <4>2
    <3>2. CASE s # r
      <4>1. Included(s) \in 0..n
        BY HeadIsPlain DEF MachineInv
      <4>2. Canon(chain', Included(s)) = Canon(chain, Included(s))
        BY <1>8, <4>1
      <4> QED
        BY <1>7, <3>2, <4>2 DEF MachineInv, HeadsFollow
    <3> QED
      BY <3>1, <3>2
  <2> QED
    BY <2>1 DEF HeadsFollow
<1>13. NoncesFollow'
  <2>1. ASSUME NEW m \in 0..(n + 1), NEW w \in Wallets
        PROVE  Canon(chain', m)[w].nonce = GenesisState[w].nonce + Cardinality(Paid(chain', w, m))
    <3>1. CASE m \in 0..n
      <4>1. Canon(chain, m)[w].nonce = GenesisState[w].nonce + Cardinality(Paid(chain, w, m))
        BY <3>1 DEF MachineInv, NoncesFollow
      <4> QED
        BY <1>8, <3>1, <4>1
    <3>2. CASE m = n + 1
      <4>1. Canon(chain, n)[w].nonce = GenesisState[w].nonce + Cardinality(Paid(chain, w, n))
        BY <1>1 DEF MachineInv, NoncesFollow
      <4>2. Cardinality(Paid(chain', w, n + 1)) =
              Cardinality(Paid(chain', w, n)) + Count(b.txs, Len(b.txs), w)
        <5> DEFINE c == chain'
        <5> HIDE DEF c
        <5>1. c \in Seq(Blocks) /\ n + 1 <= Len(c) /\ c[n + 1] = b
          BY <1>1, <1>6 DEF c
        <5>2. Cardinality(Paid(c, w, n + 1)) =
                Cardinality(Paid(c, w, n)) + Count(c[n + 1].txs, Len(c[n + 1].txs), w)
          BY <1>1, <5>1, PaidStep
        <5> QED
          BY <5>1, <5>2 DEF c
      <4>3. Paid(chain', w, n) = Paid(chain, w, n)
        BY <1>1, <1>8
      <4>4. Canon(chain', n + 1)[w] = Overlayed(S, output.state)[w]
        BY <1>9, <1>10, WalletsAreAddresses DEF Overlayed
      <4>5. Overlayed(S, output.state)[w].nonce = S[w].nonce + Count(txs, Len(txs), w)
        BY <1>3 DEF BlockEffect
      <4>6. /\ GenesisState[w].nonce \in Nat /\ Cardinality(Paid(chain, w, n)) \in Nat
            /\ Count(txs, Len(txs), w) \in Nat
        BY <1>1, GenesisAssumption, WalletsAreAddresses, PaidIsFinite, CountIsNat, BodyFacts
           DEF Accounts
      <4>7. S[w].nonce = GenesisState[w].nonce + Cardinality(Paid(chain, w, n))
        BY <1>10, <4>1
      <4> QED
        BY <1>2, <3>2, <4>2, <4>3, <4>4, <4>5, <4>6, <4>7
    <3> QED
      BY <1>1, <3>1, <3>2
  <2> QED
    BY <1>6, <2>1 DEF NoncesFollow
<1>14. EffectsFollow'
  <2>1. ASSUME NEW m \in 0..n, NEW e \in chain'[m + 1].output.logs
        PROVE  \E j \in 1..Len(chain'[m + 1].txs) :
                   HasItsPlace(e, chain'[m + 1].txs, j, Canon(chain', m))
    <3>1. CASE m \in 0..(n - 1)
      <4>1. chain'[m + 1] = chain[m + 1] /\ Canon(chain', m) = Canon(chain, m)
        BY <1>1, <1>6, <1>8, <3>1
      <4> QED
        BY <3>1, <4>1 DEF MachineInv, EffectsFollow
    <3>2. CASE m = n
      <4>1. chain'[m + 1] = b /\ Canon(chain', m) = Canon(chain, n)
        BY <1>1, <1>6, <1>8, <3>2
      <4>2. PICK j \in 1..Len(txs) : HasItsPlace(e, txs, j, S)
        BY <1>2, <1>3, <4>1 DEF BlockEffect
      <4>3. txs[j].payer \in Wallets
        BY BodyFacts, MachineAssumption
      <4>4. HasItsPlace(e, txs, j, Canon(chain, n))
        BY <1>10, <4>2, <4>3 DEF HasItsPlace
      <4> QED
        BY <1>2, <4>1, <4>4
    <3> QED
      BY <1>1, <3>1, <3>2
  <2>2. Len(chain') - 1 = n
    BY <1>1, <1>6
  <2> QED
    BY <2>1, <2>2 DEF EffectsFollow
<1> QED
  BY <1>11, <1>12, <1>13, <1>14 DEF MachineInv

(* Equal hashes of plain outputs mean that the same accounts are written.  *)
LEMMA HashTellsData ==
    ASSUME NEW d \in PlainDiffs, NEW e \in PlainDiffs, DiffHash(d) = DiffHash(e)
    PROVE  d.data = e.data
<1>1. ASSUME NEW a \in Addresses PROVE d.data[a] = e.data[a]
  <2>1. d.data[a] \in PlainAccounts /\ e.data[a] \in PlainAccounts
    BY DEF PlainDiffs, PlainStates
  <2>2. DiffHash(d)[a] = DiffHash(e)[a]
    OBVIOUS
  <2>3. /\ d.data[a].exists = e.data[a].exists /\ d.data[a].nonce = e.data[a].nonce
        /\ d.data[a].owner = e.data[a].owner /\ d.data[a].data = e.data[a].data
    BY <2>2 DEF DiffHash
  <2> QED
    BY <2>1, <2>3, PlainFields
<1> QED
  BY <1>1 DEF PlainDiffs, PlainStates

LEMMA IncludeKeeps ==
    ASSUME MachineInv, NEW r \in Replicas, Include(r)
    PROVE  MachineInv'
<1> DEFINE S == HeadState(r)
           n == Included(r)
           b == chain[n + 1]
           output == execute(S, b.txs)
<1>1. S \in PlainStates /\ n \in 0..Len(chain) /\ chain \in Seq(Blocks)
  BY HeadIsPlain DEF MachineInv, Types
<1>2. n < Len(chain) /\ Len(chain) \in Nat /\ n \in Nat /\ n + 1 \in 1..Len(chain)
  BY <1>1 DEF Include
<1>3. b \in Blocks
  BY <1>1, <1>2
<1>4. b.txs \in Bodies /\ b.output.state \in PlainDiffs
  BY <1>3, BlockFacts
<1> HIDE DEF b
<1>5. output.state \in PlainDiffs
  BY <1>1, <1>4, ExecuteIsPlain DEF BlockEffect
<1>6. chain' = chain /\ base' = base /\ finalized' = finalized
  BY DEF Include
<1>7. NoncesFollow' /\ EffectsFollow'
  BY <1>6 DEF MachineInv, NoncesFollow, EffectsFollow
<1>8. CASE OutputHash(output) = OutputHash(b.output)
  <2>1. /\ volatile' = [volatile EXCEPT ![r] = Append(@, output.state)]
        /\ rejected' = rejected
    BY <1>8 DEF Include, b
  <2> HIDE DEF output
  <2>2. output.state.data = b.output.state.data
    <3>1. DiffHash(output.state) = DiffHash(b.output.state)
      BY <1>8 DEF OutputHash
    <3> QED
      BY <1>4, <1>5, <3>1, HashTellsData
  <2>3. /\ volatile' \in [Replicas -> Seq(PlainDiffs)]
        /\ HeadState(r)' = Overlayed(S, output.state)
        /\ Included(r)' = n + 1
        /\ \A s \in Replicas : s # r => /\ HeadState(s)' = HeadState(s)
                                        /\ Included(s)' = Included(s)
    BY <1>5, <1>6, <2>1, LongerHead DEF MachineInv
  <2>4. Types'
    <3>1. ASSUME NEW s \in Replicas PROVE Included(s)' <= Len(chain)
      <4>1. CASE s = r
        BY <1>2, <2>3, <4>1
      <4>2. CASE s # r
        BY <2>3, <4>2 DEF MachineInv, Types
      <4> QED
        BY <4>1, <4>2
    <3> QED
      BY <1>6, <2>1, <2>3, <3>1 DEF MachineInv, Types
  <2>5. Canon(chain, n + 1) = Overlayed(Canon(chain, n), b.output.state)
    BY <1>1, <1>2, CanonStep DEF b
  <2>6. HeadsFollow'
    <3>1. ASSUME NEW s \in Replicas, NEW a \in Addresses
          PROVE  Sees(HeadState(s)'[a], Canon(chain', Included(s)')[a], a)
      <4>1. CASE s = r
        <5>1. Sees(S[a], Canon(chain, n)[a], a)
          BY DEF MachineInv, HeadsFollow
        <5>2. Sees(Overlayed(S, output.state)[a],
                   Overlayed(Canon(chain, n), b.output.state)[a], a)
          BY <2>2, <5>1, SeesOverlay
        <5> QED
          BY <1>6, <2>3, <2>5, <4>1, <5>2
      <4>2. CASE s # r
        BY <1>6, <2>3, <4>2 DEF MachineInv, HeadsFollow
      <4> QED
        BY <4>1, <4>2
    <3> QED
      BY <3>1 DEF HeadsFollow
  <2> QED
    BY <1>7, <2>4, <2>6 DEF MachineInv
<1>9. CASE OutputHash(output) # OutputHash(b.output)
  <2>1. volatile' = volatile /\ rejected' = [rejected EXCEPT ![r] = TRUE]
    BY <1>9 DEF Include, b
  <2>2. \A s \in Replicas : HeadState(s)' = HeadState(s) /\ Included(s)' = Included(s)
    BY <1>6, <2>1 DEF HeadState, Included
  <2>3. Types'
    BY <1>6, <2>1, <2>2 DEF MachineInv, Types
  <2>4. HeadsFollow'
    BY <1>6, <2>2 DEF MachineInv, HeadsFollow
  <2> QED
    BY <1>7, <2>3, <2>4 DEF MachineInv
<1> QED
  BY <1>8, <1>9

LEMMA FinalizeKeeps ==
    ASSUME MachineInv, NEW r \in Replicas, Finalize(r)
    PROVE  MachineInv'
<1>1. base[r] \in PlainStates /\ volatile[r] \in Seq(PlainDiffs) /\ finalized[r] \in Nat
  BY DEF MachineInv, Types
<1>2. volatile[r] # <<>>
  BY DEF Finalize
<1>3. /\ Head(volatile[r]) \in PlainDiffs /\ Tail(volatile[r]) \in Seq(PlainDiffs)
      /\ Len(Tail(volatile[r])) = Len(volatile[r]) - 1 /\ Len(volatile[r]) \in Nat
  BY <1>1, <1>2
<1>4. /\ chain' = chain /\ rejected' = rejected
      /\ base' = [base EXCEPT ![r] = Applied(@, Head(volatile[r]))]
      /\ finalized' = [finalized EXCEPT ![r] = @ + 1]
      /\ volatile' = [volatile EXCEPT ![r] = Tail(@)]
  BY DEF Finalize
<1>5. /\ base'[r] = Applied(base[r], Head(volatile[r])) /\ finalized'[r] = finalized[r] + 1
      /\ volatile'[r] = Tail(volatile[r])
      /\ \A s \in Replicas : s # r => /\ base'[s] = base[s] /\ finalized'[s] = finalized[s]
                                      /\ volatile'[s] = volatile[s]
  BY <1>4 DEF MachineInv, Types
<1>6. \A s \in Replicas : Included(s)' = Included(s)
  <2>1. Included(r)' = Included(r)
    BY <1>1, <1>3, <1>5 DEF Included
  <2> QED
    BY <1>5, <2>1, SameHead
<1>7. Applied(base[r], Head(volatile[r])) \in PlainStates
  BY <1>1, <1>3, AppliedIsPlain
<1>8. Types'
  <2>1. base' \in [Replicas -> PlainStates]
    BY <1>4, <1>7 DEF MachineInv, Types
  <2>2. finalized' \in [Replicas -> Nat] /\ volatile' \in [Replicas -> Seq(PlainDiffs)]
    BY <1>1, <1>3, <1>4 DEF MachineInv, Types
  <2> QED
    BY <1>4, <1>6, <2>1, <2>2 DEF MachineInv, Types
<1>9. HeadsFollow'
  <2>1. ASSUME NEW s \in Replicas, NEW a \in Addresses
        PROVE  Sees(HeadState(s)'[a], Canon(chain', Included(s)')[a], a)
    <3>1. Sees(HeadState(s)[a], Canon(chain, Included(s))[a], a)
      BY DEF MachineInv, HeadsFollow
    <3>2. CASE s = r
      <4> DEFINE y == Canon(chain, Included(r))[a]
      <4>1. Sees(CascadingState(base[r], volatile[r])[a], y, a)
        BY <3>1, <3>2 DEF HeadState
      <4> HIDE DEF y
      <4>2. Sees(CascadingState(Applied(base[r], Head(volatile[r])), Tail(volatile[r]))[a], y, a)
        BY <1>1, <1>2, <4>1, SeesFinalized
      <4>3. HeadState(r)' = CascadingState(Applied(base[r], Head(volatile[r])), Tail(volatile[r]))
        BY <1>5 DEF HeadState
      <4> QED
        BY <1>4, <1>6, <3>2, <4>2, <4>3 DEF y
    <3>3. CASE s # r
      <4>1. HeadState(s)' = HeadState(s)
        BY <1>5, <3>3, SameHead
      <4> QED
        BY <1>4, <1>6, <3>1, <4>1
    <3> QED
      BY <3>2, <3>3
  <2> QED
    BY <2>1 DEF HeadsFollow
<1>10. NoncesFollow' /\ EffectsFollow'
  BY <1>4 DEF MachineInv, NoncesFollow, EffectsFollow
<1> QED
  BY <1>8, <1>9, <1>10 DEF MachineInv

(* What holds at every reachable state of Machine::execute, Executed::new  *)
(* and Finalized::apply.                                                   *)
THEOREM MachineInvariant == Spec => []MachineInv
<1>1. Init => MachineInv
  BY InitEstablishes
<1>2. MachineInv /\ [Next]_vars => MachineInv'
  <2> SUFFICES ASSUME MachineInv, [Next]_vars PROVE MachineInv'
    OBVIOUS
  <2>1. ASSUME NEW n \in 1..BlockBound, NEW txs \in [1..n -> Transactions],
               NEW r \in Replicas, Produce(r, txs)
        PROVE  MachineInv'
    <3>1. txs \in Bodies
      BY DEF Bodies
    <3> QED
      BY <2>1, <3>1, ProduceKeeps
  <2>2. ASSUME NEW r \in Replicas, Include(r) PROVE MachineInv'
    BY <2>2, IncludeKeeps
  <2>3. ASSUME NEW r \in Replicas, Finalize(r) PROVE MachineInv'
    BY <2>3, FinalizeKeeps
  <2>4. CASE UNCHANGED vars
    BY <2>4 DEF vars, MachineInv, Types, HeadsFollow, NoncesFollow, EffectsFollow,
                HeadState, Included
  <2> QED
    BY <2>1, <2>2, <2>3, <2>4 DEF Next
<1> QED
  BY <1>1, <1>2, PTL DEF Spec

-----------------------------------------------------------------------------
(* Every state and every difference maps addresses to accounts, whatever   *)
(* the transactions of the blocks do, and no validator is ahead of the     *)
(* chain.                                                                  *)
THEOREM MachineTypes == Spec => []TypeOK
<1>1. MachineInv => TypeOK
  <2> SUFFICES ASSUME MachineInv PROVE TypeOK
    OBVIOUS
  <2>1. PlainStates \subseteq [Addresses -> Accounts] /\ PlainDiffs \subseteq Diffs
    BY DEF PlainStates, PlainAccounts, PlainDiffs, Diffs
  <2>2. ASSUME NEW i \in DOMAIN chain
        PROVE  /\ chain[i].output.state \in Diffs
               /\ \A j \in DOMAIN chain[i].txs : chain[i].txs[j] \in Transactions
    <3>1. chain[i] \in Blocks
      BY DEF MachineInv, Types
    <3>2. chain[i].txs \in Bodies /\ chain[i].output.state \in PlainDiffs
      BY <3>1, BlockFacts
    <3> QED
      BY <2>1, <3>2, BodyFacts
  <2>3. base \in [Replicas -> [Addresses -> Accounts]]
    BY <2>1 DEF MachineInv, Types
  <2>4. ASSUME NEW r \in Replicas
        PROVE  /\ finalized[r] \in Nat /\ rejected[r] \in BOOLEAN /\ Included(r) <= Len(chain)
               /\ \A i \in DOMAIN volatile[r] : volatile[r][i] \in Diffs
    BY <2>1 DEF MachineInv, Types
  <2> QED
    BY <2>2, <2>3, <2>4 DEF TypeOK
<1> QED
  BY <1>1, MachineInvariant, PTL

(* What lets the model leave out the WASM runtime, and what wasm.rs:3 says *)
(* otherwise of: no account is ever an executable one.                     *)
NothingIsDeployed ==
    \A r \in Replicas : \A a \in Addresses :
        HeadState(r)[a].owner # Wasm /\ ~HeadState(r)[a].executable

(* The WASM contract (wasm.rs) counts the bytes of its address for its     *)
(* accounts and takes its own accounts for those of others, so that no     *)
(* input gets past its checks to an executable account.                    *)
THEOREM NothingGetsDeployed == Spec => []NothingIsDeployed
<1>1. MachineInv => NothingIsDeployed
  <2> SUFFICES ASSUME MachineInv, NEW r \in Replicas, NEW a \in Addresses
               PROVE  HeadState(r)[a].owner # Wasm /\ ~HeadState(r)[a].executable
    BY DEF NothingIsDeployed
  <2>1. HeadState(r)[a] \in PlainAccounts
    BY HeadIsPlain DEF MachineInv, PlainStates
  <2> QED
    BY <2>1, PlainFields
<1> QED
  BY <1>1, MachineInvariant, PTL

(* Executed::new: validators that have executed the same blocks see the    *)
(* same accounts, however far each has finalized, except that one of them  *)
(* may still read an emptied account whose deletion the other has applied. *)
THEOREM ValidatorsAgree == Spec => []ReplicasAgree
<1>1. MachineInv => ReplicasAgree
  <2> SUFFICES ASSUME MachineInv, NEW r \in Replicas, NEW s \in Replicas,
                      Included(r) = Included(s), NEW a \in Addresses
               PROVE  \/ Persisted(HeadState(r)[a]) = Persisted(HeadState(s)[a])
                      \/ /\ ~HeadState(r)[a].exists
                         /\ HeadState(s)[a].data.kind = "coin"
                         /\ HeadState(s)[a].data.balance = 0
                      \/ /\ ~HeadState(s)[a].exists
                         /\ HeadState(r)[a].data.kind = "coin"
                         /\ HeadState(r)[a].data.balance = 0
    BY DEF ReplicasAgree
  <2> DEFINE x == HeadState(r)[a]
             y == HeadState(s)[a]
             z == Canon(chain, Included(r))[a]
  <2>1. Sees(x, z, a) /\ Sees(y, z, a)
    BY DEF MachineInv, HeadsFollow
  <2> HIDE DEF x, y, z
  <2>2. \/ x = y
        \/ x = NoAccount /\ Emptied(y)
        \/ y = NoAccount /\ Emptied(x)
    BY <2>1 DEF Sees
  <2>3. ~NoAccount.exists
    BY DEF NoAccount
  <2> QED
    BY <2>2, <2>3 DEF Emptied, x, y
<1> QED
  BY <1>1, MachineInvariant, PTL

(* Machine::execute: the nonce of a wallet counts the transactions that it *)
(* has paid for, failed ones too, through any writes and finalizations.    *)
THEOREM NoncesCount == Spec => []NonceCounts
<1>1. MachineInv => NonceCounts
  <2> SUFFICES ASSUME MachineInv, NEW r \in Replicas, NEW w \in Wallets
               PROVE  HeadState(r)[w].nonce =
                        GenesisState[w].nonce + Cardinality(PaidTxs(w, Included(r)))
    BY DEF NonceCounts
  <2>1. Included(r) \in 0..Len(chain)
    BY HeadIsPlain DEF MachineInv
  <2>2. HeadState(r)[w] = Canon(chain, Included(r))[w]
    BY WalletsAreAddresses DEF MachineInv, HeadsFollow, Sees
  <2>3. PaidTxs(w, Included(r)) = Paid(chain, w, Included(r))
    BY DEF PaidTxs, Paid
  <2> QED
    BY <2>1, <2>2, <2>3 DEF MachineInv, NoncesFollow
<1> QED
  BY <1>1, MachineInvariant, PTL

(* The counts only grow.                                                   *)
LEMMA PaidGrows ==
    ASSUME NEW c, NEW w, NEW m \in Nat, NEW n \in Nat, m <= n
    PROVE  Cardinality(Paid(c, w, m)) <= Cardinality(Paid(c, w, n))
<1>1. Paid(c, w, m) \subseteq Paid(c, w, n)
  BY DEF Paid
<1>2. IsFiniteSet(Paid(c, w, n))
  BY PaidIsFinite
<1> QED
  BY <1>1, <1>2, FS_Subset

LEMMA CountGrows ==
    ASSUME NEW txs, NEW w, NEW k \in Nat, NEW j \in 1..k
    PROVE  /\ Count(txs, j, w) <= Count(txs, k, w)
           /\ txs[j].payer = w => Count(txs, j, w) >= 1
<1>1. PaysIn(txs, j, w) \subseteq PaysIn(txs, k, w)
  BY DEF PaysIn
<1>2. IsFiniteSet(PaysIn(txs, j, w)) /\ IsFiniteSet(PaysIn(txs, k, w)) /\ Count(txs, j, w) \in Nat
  <2>1. j \in Nat
    OBVIOUS
  <2>2. IsFiniteSet(PaysIn(txs, j, w)) /\ Count(txs, j, w) \in Nat
    BY <2>1, CountIsNat
  <2>3. IsFiniteSet(PaysIn(txs, k, w))
    BY CountIsNat
  <2> QED
    BY <2>2, <2>3
<1>3. Count(txs, j, w) <= Count(txs, k, w)
  BY <1>1, <1>2, FS_Subset DEF Count
<1>4. ASSUME txs[j].payer = w PROVE Count(txs, j, w) # 0
  <2>1. j \in PaysIn(txs, j, w)
    BY <1>4 DEF PaysIn
  <2> QED
    BY <1>2, <2>1, FS_EmptySet DEF Count
<1> QED
  BY <1>2, <1>3, <1>4

(* ExecutionUnit::new with the nonce that Machine::execute increments: no  *)
(* transaction takes effect in two blocks, whatever blocks have it again.  *)
THEOREM TransactionsDoNotRepeat == Spec => []NoReplay
<1>1. ASSUME MachineInv, NEW m \in 0..(Len(chain) - 1), NEW n \in 0..(Len(chain) - 1), m < n,
             NEW h, h \in Succeeded(m + 1), h \in Succeeded(n + 1)
      PROVE  FALSE
  <2> DEFINE xs == chain[m + 1].txs
             ys == chain[n + 1].txs
  <2>1. chain \in Seq(Blocks) /\ Len(chain) \in Nat
    BY <1>1 DEF MachineInv, Types
  <2>2. chain[m + 1] \in Blocks /\ chain[n + 1] \in Blocks
    BY <2>1
  <2>3. xs \in Bodies /\ ys \in Bodies
    BY <2>2, BlockFacts
  <2>4. PICK j \in 1..Len(xs) :
               xs[j].hash = h /\ xs[j].nonce = Canon(chain, m)[xs[j].payer].nonce
                                                 + Count(xs, j, xs[j].payer)
    <3>1. PICK e \in chain[m + 1].output.logs : e[1] = h
      BY <1>1 DEF Succeeded
    <3> QED
      BY <1>1, <3>1 DEF MachineInv, EffectsFollow, HasItsPlace
  <2>5. PICK k \in 1..Len(ys) :
               ys[k].hash = h /\ ys[k].nonce = Canon(chain, n)[ys[k].payer].nonce
                                                 + Count(ys, k, ys[k].payer)
    <3>1. PICK e \in chain[n + 1].output.logs : e[1] = h
      BY <1>1 DEF Succeeded
    <3> QED
      BY <1>1, <3>1 DEF MachineInv, EffectsFollow, HasItsPlace
  <2> DEFINE t == xs[j]
             w == t.payer
             lx == Len(xs)
  <2>6. t \in Transactions /\ ys[k] = t /\ w \in Wallets /\ lx \in Nat
    <3>1. xs[j] \in Transactions /\ Len(xs) \in 1..BlockBound
      BY <2>3, BodyFacts
    <3>2. ys[k] \in Transactions
      BY <2>3, BodyFacts
    <3>3. xs[j].hash = ys[k].hash /\ BlockBound \in Nat
      BY <2>4, <2>5, MachineAssumption
    <3> HIDE DEF xs, ys
    <3>4. ys[k] = xs[j] /\ xs[j].payer \in Wallets
      BY <3>1, <3>2, <3>3, MachineAssumption
    <3> QED
      BY <3>1, <3>3, <3>4
  <2>7. t.nonce = Canon(chain, m)[w].nonce + Count(xs, j, w)
    BY <2>4
  <2>8. t.nonce = Canon(chain, n)[w].nonce + Count(ys, k, w)
    BY <2>5, <2>6
  <2>9. /\ Canon(chain, m)[w].nonce = GenesisState[w].nonce + Cardinality(Paid(chain, w, m))
        /\ Canon(chain, n)[w].nonce = GenesisState[w].nonce + Cardinality(Paid(chain, w, n))
    <3>1. m \in 0..Len(chain) /\ n \in 0..Len(chain)
      BY <2>1
    <3> QED
      BY <1>1, <2>6, <3>1 DEF MachineInv, NoncesFollow
  <2> HIDE DEF t, lx
  <2>10. Cardinality(Paid(chain, w, m + 1)) = Cardinality(Paid(chain, w, m)) + Count(xs, lx, w)
    BY <2>1, PaidStep DEF lx
  <2>11. Cardinality(Paid(chain, w, m + 1)) <= Cardinality(Paid(chain, w, n))
    BY <1>1, <2>1, PaidGrows
  <2>12. Count(xs, j, w) <= Count(xs, lx, w)
    BY <2>6, CountGrows DEF lx
  <2>13. Count(ys, k, w) >= 1
    <3>1. Len(ys) \in Nat /\ ys[k].payer = w
      BY <2>3, <2>6, BodyFacts
    <3> QED
      BY <3>1, CountGrows
  <2>14. /\ GenesisState[w].nonce \in Nat /\ Cardinality(Paid(chain, w, m)) \in Nat
         /\ Cardinality(Paid(chain, w, n)) \in Nat
         /\ Count(xs, j, w) \in Nat /\ Count(xs, lx, w) \in Nat /\ Count(ys, k, w) \in Nat
    <3>1. GenesisState[w].nonce \in Nat
      BY <2>6, GenesisAssumption, WalletsAreAddresses DEF Accounts
    <3>2. j \in Nat /\ k \in Nat /\ m \in Nat /\ n \in Nat
      OBVIOUS
    <3> QED
      BY <2>6, <3>1, <3>2, PaidIsFinite, CountIsNat
  <2> DEFINE g == GenesisState[w].nonce
             pm == Cardinality(Paid(chain, w, m))
             pn == Cardinality(Paid(chain, w, n))
             cj == Count(xs, j, w)
             cl == Count(xs, lx, w)
             ck == Count(ys, k, w)
  <2>15. g + pm + cj = g + pn + ck
    BY <2>7, <2>8, <2>9
  <2>16. pm + cl <= pn /\ cj <= cl /\ ck >= 1
    BY <2>10, <2>11, <2>12, <2>13
  <2>17. g \in Nat /\ pm \in Nat /\ pn \in Nat /\ cj \in Nat /\ cl \in Nat /\ ck \in Nat
    BY <2>14
  <2> HIDE DEF g, pm, pn, cj, cl, ck
  <2> QED
    BY <2>15, <2>16, <2>17
<1>2. MachineInv => NoReplay
  <2> SUFFICES ASSUME MachineInv, NEW i \in DOMAIN chain, NEW j \in DOMAIN chain, i # j,
                      NEW h, h \in Succeeded(i), h \in Succeeded(j)
               PROVE  FALSE
    BY DEF NoReplay
  <2>1. /\ Len(chain) \in Nat /\ i \in 1..Len(chain) /\ j \in 1..Len(chain)
        /\ i - 1 \in 0..(Len(chain) - 1) /\ j - 1 \in 0..(Len(chain) - 1)
        /\ (i - 1) + 1 = i /\ (j - 1) + 1 = j
    BY DEF MachineInv, Types
  <2>2. CASE i < j
    <3>1. i - 1 < j - 1
      BY <2>1, <2>2
    <3> QED
      BY <1>1, <2>1, <3>1
  <2>3. CASE j < i
    <3>1. j - 1 < i - 1
      BY <2>1, <2>3
    <3> QED
      BY <1>1, <2>1, <3>1
  <2> QED
    BY <2>1, <2>2, <2>3
<1> QED
  BY <1>2, MachineInvariant, PTL

-----------------------------------------------------------------------------
(* The mints and coins that a validator sees are accounts of the Currency  *)
(* contract, and nothing else has a balance.                               *)
TokenInv == \A r \in Replicas : TokensAreOwned(HeadState(r))

(* What a step does to the view of a validator: nothing, or a block, or a  *)
(* finalization, which takes away emptied accounts only.                   *)
HeadsKeepTokens ==
    \A r \in Replicas :
        TokenEffect(HeadState(r), HeadState(r)', SpentIn(chain'[Included(r)'].txs))

LEMMA SameIsKept ==
    ASSUME NEW S \in PlainStates, TokensAreOwned(S), NEW X
    PROVE  TokenEffect(S, S, X)
  BY SameIsKeptAt DEF TokenEffect

LEMMA BlockKeepsTokens ==
    ASSUME MachineInv, TokenInv, NEW r \in Replicas, NEW txs \in Bodies,
           base' = base, finalized' = finalized, chain'[Included(r) + 1].txs = txs,
           volatile' = [volatile EXCEPT ![r] = Append(@, execute(HeadState(r), txs).state)]
    PROVE  HeadsKeepTokens
<1> DEFINE S == HeadState(r)
           d == execute(S, txs).state
           X(s) == SpentIn(chain'[Included(s)'].txs)
<1>1. S \in PlainStates /\ Types /\ TokensAreOwned(S)
  BY HeadIsPlain DEF MachineInv, TokenInv
<1>2. d \in PlainDiffs
  BY <1>1, ExecuteIsPlain DEF BlockEffect
<1>3. TokenEffect(S, Overlayed(S, d), SpentIn(txs))
  BY <1>1, ExecuteKeepsTokens
<1>4. /\ HeadState(r)' = Overlayed(S, d)
      /\ \A s \in Replicas : s # r => HeadState(s)' = HeadState(s)
  <2>1. volatile' = [volatile EXCEPT ![r] = Append(@, d)]
    OBVIOUS
  <2> HIDE DEF d
  <2> QED
    BY <1>1, <1>2, <2>1, LongerHead
<1>5. ASSUME NEW s \in Replicas, s # r PROVE TokenEffect(HeadState(s), HeadState(s)', X(s))
  <2>1. HeadState(s) \in PlainStates /\ TokensAreOwned(HeadState(s))
    BY <1>1, HeadIsPlain DEF TokenInv
  <2> QED
    BY <1>4, <1>5, <2>1, SameIsKept
<1>6. chain'[Included(r)'].txs = txs
  <2>1. volatile[r] \in Seq(PlainDiffs) /\ finalized[r] \in Nat
        /\ volatile \in [Replicas -> Seq(PlainDiffs)]
    BY <1>1 DEF Types
  <2>2. volatile'[r] = Append(volatile[r], d)
    BY <2>1
  <2> HIDE DEF d
  <2>3. Len(volatile'[r]) = Len(volatile[r]) + 1 /\ Len(volatile[r]) \in Nat
    BY <1>2, <2>1, <2>2
  <2>4. Included(r)' = finalized'[r] + Len(volatile'[r])
    BY DEF Included
  <2>5. Included(r)' = finalized[r] + (Len(volatile[r]) + 1)
    BY <2>3, <2>4
  <2>6. Included(r) + 1 = finalized[r] + (Len(volatile[r]) + 1)
    <3>1. \A x, y \in Nat : (x + y) + 1 = x + (y + 1)
      OBVIOUS
    <3> QED
      BY <2>1, <2>3, <3>1, Zenon DEF Included
  <2> QED
    BY <2>5, <2>6
<1> HIDE DEF S, d
<1> QED
  BY <1>3, <1>4, <1>5, <1>6 DEF HeadsKeepTokens, S

LEMMA FinalizeKeepsTokens ==
    ASSUME MachineInv, TokenInv, NEW r \in Replicas, Finalize(r)
    PROVE  HeadsKeepTokens
<1> DEFINE diffs == volatile[r]
           S == CascadingState(base[r], diffs)
           T == CascadingState(Applied(base[r], Head(diffs)), Tail(diffs))
<1>1. base[r] \in PlainStates /\ diffs \in Seq(PlainDiffs) /\ diffs # <<>>
  BY DEF MachineInv, Types, Finalize
<1>2. /\ base'[r] = Applied(base[r], Head(diffs)) /\ volatile'[r] = Tail(diffs)
      /\ \A s \in Replicas : s # r => base'[s] = base[s] /\ volatile'[s] = volatile[s]
  BY DEF MachineInv, Types, Finalize
<1>3. HeadState(r) = S /\ HeadState(r)' = T
  BY <1>2 DEF HeadState
<1>4. S \in PlainStates /\ TokensAreOwned(S)
  BY <1>3, HeadIsPlain DEF MachineInv, TokenInv
<1>5. ASSUME NEW a \in Addresses PROVE KeptAt(S[a], T[a], a, {})
  <2>1. Sees(S[a], S[a], a)
    BY DEF Sees
  <2> DEFINE y == S[a]
  <2>2. Sees(CascadingState(base[r], diffs)[a], y, a)
    BY <2>1
  <2> HIDE DEF y
  <2>3. Sees(T[a], y, a)
    BY <1>1, <2>2, SeesFinalized
  <2>4. T[a] = S[a] \/ (T[a] = NoAccount /\ Emptied(S[a]))
    BY <2>3 DEF Sees, y
  <2>5. KeptAt(S[a], S[a], a, {})
    BY <1>4, SameIsKeptAt
  <2> HIDE DEF S, T
  <2>6. CASE T[a] = S[a]
    BY <2>5, <2>6
  <2>7. CASE T[a] = NoAccount /\ Emptied(S[a])
    BY <2>7 DEF KeptAt, StaysRevoked, NotSpent, Revoked, Emptied, IsOwned, NoAccount, NoData
  <2> QED
    BY <2>4, <2>6, <2>7
<1>6. TokenEffect(S, T, SpentIn(chain'[Included(r)'].txs))
  <2> HIDE DEF S, T
  <2> QED
    BY <1>5 DEF TokenEffect, KeptAt
<1>7. ASSUME NEW s \in Replicas, s # r
      PROVE  TokenEffect(HeadState(s), HeadState(s)', SpentIn(chain'[Included(s)'].txs))
  <2>1. HeadState(s) \in PlainStates /\ TokensAreOwned(HeadState(s))
    BY HeadIsPlain DEF MachineInv, TokenInv
  <2>2. HeadState(s)' = HeadState(s)
    BY <1>2, <1>7 DEF HeadState
  <2> QED
    BY <2>1, <2>2, SameIsKept
<1> HIDE DEF S, T
<1> QED
  BY <1>3, <1>6, <1>7 DEF HeadsKeepTokens

LEMMA StepKeepsTokens == MachineInv /\ TokenInv /\ [Next]_vars => HeadsKeepTokens
<1> SUFFICES ASSUME MachineInv, TokenInv, [Next]_vars PROVE HeadsKeepTokens
  OBVIOUS
<1>1. ASSUME \A s \in Replicas : HeadState(s)' = HeadState(s) PROVE HeadsKeepTokens
  <2>1. \A s \in Replicas : HeadState(s) \in PlainStates /\ TokensAreOwned(HeadState(s))
    BY HeadIsPlain DEF MachineInv, TokenInv
  <2>2. \A s \in Replicas :
          TokenEffect(HeadState(s), HeadState(s), SpentIn(chain'[Included(s)'].txs))
    BY <2>1, SameIsKept
  <2> QED
    BY <1>1, <2>2 DEF HeadsKeepTokens
<1>2. ASSUME NEW n \in 1..BlockBound, NEW txs \in [1..n -> Transactions],
             NEW r \in Replicas, Produce(r, txs)
      PROVE  HeadsKeepTokens
  <2>1. txs \in Bodies
    BY DEF Bodies
  <2>2. /\ volatile' = [volatile EXCEPT ![r] = Append(@, execute(HeadState(r), txs).state)]
        /\ base' = base /\ finalized' = finalized
    BY <1>2 DEF Produce
  <2>3. chain'[Included(r) + 1].txs = txs
    <3> DEFINE b == [txs |-> txs, output |-> execute(HeadState(r), txs)]
    <3>1. Included(r) = Len(chain) /\ chain' = Append(chain, b) /\ b.txs = txs
      BY <1>2 DEF Produce
    <3>2. chain \in Seq(Blocks)
      BY DEF MachineInv, Types
    <3> HIDE DEF b
    <3>3. chain'[Len(chain) + 1] = b
      BY <3>1, <3>2
    <3> QED
      BY <3>1, <3>3
  <2> QED
    BY <2>1, <2>2, <2>3, BlockKeepsTokens
<1>3. ASSUME NEW r \in Replicas, Include(r) PROVE HeadsKeepTokens
  <2> DEFINE txs == chain[Included(r) + 1].txs
  <2>1. chain[Included(r) + 1] \in Blocks
    <3>1. Included(r) \in 0..Len(chain) /\ Included(r) < Len(chain) /\ chain \in Seq(Blocks)
      BY <1>3, HeadIsPlain DEF MachineInv, Types, Include
    <3> QED
      BY <3>1
  <2>2. txs \in Bodies
    BY <2>1, BlockFacts
  <2>3. base' = base /\ finalized' = finalized /\ chain'[Included(r) + 1].txs = txs
    BY <1>3 DEF Include
  <2>4. \/ volatile' = [volatile EXCEPT ![r] = Append(@, execute(HeadState(r), txs).state)]
        \/ volatile' = volatile
    BY <1>3 DEF Include
  <2>5. CASE volatile' = [volatile EXCEPT ![r] = Append(@, execute(HeadState(r), txs).state)]
    <3> HIDE DEF txs
    <3> QED
      BY <2>2, <2>3, <2>5, BlockKeepsTokens
  <2>6. CASE volatile' = volatile
    BY <1>1, <2>3, <2>6 DEF HeadState
  <2> QED
    BY <2>4, <2>5, <2>6
<1>4. ASSUME NEW r \in Replicas, Finalize(r) PROVE HeadsKeepTokens
  BY <1>4, FinalizeKeepsTokens
<1>5. CASE UNCHANGED vars
  BY <1>1, <1>5 DEF vars, HeadState
<1> QED
  BY <1>2, <1>3, <1>4, <1>5 DEF Next

(* read_coin_mint, read_coin_account and create_environment: mints and     *)
(* coins are accounts of the Currency contract and of no wallet, in every  *)
(* state that a validator sees, so that no other contract writes to them.  *)
THEOREM TokenInvariant == Spec => []TokenInv
<1>1. Init => TokenInv
  <2> SUFFICES ASSUME Init, NEW r \in Replicas, NEW a \in Addresses
               PROVE  IsOwned(HeadState(r)[a], a)
    BY DEF TokenInv, TokensAreOwned
  <2>1. HeadState(r) = CascadingState(Genesis0, <<>>)
    BY DEF Init, HeadState, Genesis0
  <2>2. DOMAIN <<>> = {}
    OBVIOUS
  <2>3. CascadingState(Genesis0, <<>>)[a] = Genesis0[a]
    BY <2>2 DEF CascadingState
  <2>4. /\ GenesisState[a] \in Accounts
        /\ GenesisState[a].data.kind \in {"mint", "coin"} =>
              GenesisState[a].owner = Currency /\ a \notin Wallets
        /\ GenesisState[a].data.kind # "coin" => GenesisState[a].data.balance = 0
    BY GenesisAssumption DEF has_private_key
  <2>5. IsOwned(Genesis0[a], a)
    BY <2>4 DEF Genesis0, IsOwned, Persisted, Accounts, NoAccount, NoData
  <2> QED
    BY <2>1, <2>3, <2>5
<1>2. MachineInv /\ TokenInv /\ [Next]_vars => TokenInv'
  <2> SUFFICES ASSUME MachineInv, TokenInv, [Next]_vars, NEW r \in Replicas
               PROVE  TokensAreOwned(HeadState(r)')
    BY DEF TokenInv
  <2>1. TokenEffect(HeadState(r), HeadState(r)', SpentIn(chain'[Included(r)'].txs))
    BY StepKeepsTokens DEF HeadsKeepTokens
  <2> QED
    BY <2>1, EffectIsOwned
<1> QED
  BY <1>1, <1>2, MachineInvariant, PTL DEF Spec

(* Currency::process_mint and process_set_authority, with everything else  *)
(* that writes accounts: once the authority of a mint is removed its       *)
(* supply never grows again and no authority comes back.                   *)
THEOREM RevocationIsFinal == Spec => RevokedIsFinal
<1> DEFINE A == \A r \in Replicas : \A a \in Addresses :
          LET old == HeadState(r)[a].data
              new == HeadState(r)'[a].data IN
          old.kind = "mint" /\ old.authority = None =>
              /\ new.kind = "mint" /\ new.authority = None
              /\ new.supply <= old.supply
<1>1. MachineInv /\ TokenInv /\ [Next]_vars => A
  BY StepKeepsTokens DEF HeadsKeepTokens, TokenEffect, KeptAt, StaysRevoked, Revoked
<1>2. MachineInv /\ TokenInv /\ [Next]_vars => [A]_vars
  BY <1>1
<1> QED
  BY <1>2, MachineInvariant, TokenInvariant, PTL DEF Spec, RevokedIsFinal

(* CheckSpending in Currency::process_transfer and process_burn, with      *)
(* Transaction::verify_signatures: the tokens of a wallet become fewer     *)
(* only in a block with a transaction that the wallet has signed.          *)
THEOREM SpendingIsSigned == Spec => OnlySignersPay
<1> DEFINE Signed(w, txs) == \E j \in DOMAIN txs :
                LET tx == txs[j] IN
                tx.valid /\ \E i \in DOMAIN tx.accounts :
                               tx.accounts[i].address = w /\ tx.accounts[i].signer
           A == \A r \in Replicas : \A m \in Mints : \A w \in Wallets :
          LET coin == derive(Currency, m \o w) IN
          (coin \in Addresses /\ HeadState(r)'[coin].data.balance < HeadState(r)[coin].data.balance)
          => Signed(w, chain'[Included(r)'].txs)
           P == \A r \in Replicas : HeadState(r) \in PlainStates
<1>1. MachineInv => P
  BY HeadIsPlain DEF MachineInv
<1>2. MachineInv' => P'
  BY <1>1, PTL
<1>3. ASSUME MachineInv, TokenInv, MachineInv', [Next]_vars PROVE A
  <2> SUFFICES ASSUME NEW r \in Replicas, NEW m \in Mints, NEW w \in Wallets,
                      derive(Currency, m \o w) \in Addresses,
                      HeadState(r)'[derive(Currency, m \o w)].data.balance
                         < HeadState(r)[derive(Currency, m \o w)].data.balance
               PROVE  Signed(w, chain'[Included(r)'].txs)
    OBVIOUS
  <2> DEFINE coin == derive(Currency, m \o w)
             txs == chain'[Included(r)'].txs
  <2>1. KeptAt(HeadState(r)[coin], HeadState(r)'[coin], coin, SpentIn(txs))
    BY <1>3, StepKeepsTokens DEF HeadsKeepTokens, TokenEffect
  <2>2. HeadState(r)[coin].data.balance \in Nat /\ HeadState(r)'[coin].data.balance \in Nat
    <3>1. HeadState(r) \in PlainStates /\ HeadState(r)' \in PlainStates
      BY <1>3, <1>1, <1>2
    <3> QED
      BY <3>1, AmountsAreNat
  <2>3. coin \in SpentIn(txs)
    BY <2>1, <2>2 DEF KeptAt, NotSpent
  <2> HIDE DEF txs
  <2>4. PICK j \in DOMAIN txs : coin \in SpentBy(txs[j])
    BY <2>3 DEF SpentIn
  <2>5. /\ txs[j].valid
        /\ \E n, v \in Addresses : \E i \in DOMAIN txs[j].accounts :
              /\ txs[j].accounts[i].signer /\ txs[j].accounts[i].address = v
              /\ coin = derive(Currency, n \o v)
    BY <2>4 DEF SpentBy
  <2>6. PICK n \in Addresses, v \in Addresses, i \in DOMAIN txs[j].accounts :
              /\ txs[j].accounts[i].signer /\ txs[j].accounts[i].address = v
              /\ coin = derive(Currency, n \o v)
    BY <2>5
  <2>7. m \in Addresses /\ w \in Addresses
    BY WalletsAreAddresses DEF Mints
  <2>8. v = w
    BY <2>6, <2>7, DistinctAssumption
  <2> QED
    BY <2>5, <2>6, <2>8 DEF txs
<1>4. MachineInv /\ TokenInv /\ MachineInv' /\ [Next]_vars => [A]_vars
  BY <1>3
<1> QED
  BY <1>4, MachineInvariant, TokenInvariant, PTL DEF Spec, OnlySignersPay
=============================================================================
