------------------------ MODULE HistoryStorage_proofs ------------------------
(***************************************************************************)
(* Proofs about HistoryStorage: no mined transaction is forgotten, none is *)
(* listed twice, and no own one gets lost from the list.                   *)
(*                                                                         *)
(* MinedShown is not inductive.  A memo stops waiting when its details     *)
(* have come (Merge) or when a new session takes its record from the       *)
(* database (Restart), so MemoInv follows both.  A running history sync    *)
(* works on what waits now (Working), because state syncs and cuts wait    *)
(* for it; a waiting memo is below the tree's end, the pending ones are at *)
(* or above it (PendingAbove), so none is answered twice; the details of a *)
(* mined transaction are complete or missing, never a local record         *)
(* (MinedAnswers).  What waits no more is shown and has its record in the  *)
(* database (ShownKept); what the saved sync index covers and the database *)
(* has no record of is marked there as failed (Findable).                  *)
(*                                                                         *)
(* What the list returns needs ListInv on top of it.  A mined record is of *)
(* a memo saved as mined (ListTrue), which is the one of its slot's        *)
(* transaction (MemosPlaced), and no transaction has two slots (Placed);   *)
(* a pending memo that the next trimming leaves is of no mined transaction *)
(* (PendingApart), a local record that is still shown is of a transaction  *)
(* whose job is over (OverTrue), and the sent records of what is mined are *)
(* gone once its details have come (Cleared).  In the other direction, a   *)
(* transaction whose hash was told is still kept as sent, has failed, or   *)
(* is mined and shown, or about to be (AllKnown).  That a new session      *)
(* lists what the last one did needs its records in the database           *)
(* (MinedStored).                                                          *)
(*                                                                         *)
(* The types need two facts besides: what a record names has been sent     *)
(* (WasSent), and details that are merged are of what was asked            *)
(* (Answered).                                                             *)
(***************************************************************************)
EXTENDS HistoryStorage, FiniteSetTheorems, SequenceTheorems, WellFoundedInduction, TLAPS
USE HistoryAssumption

\* What the proof needs of the types.
Typed ==
    /\ chain \in Seq(Tx) /\ pend \in Seq(Tx) /\ sends \in [Tx -> Nat]
    /\ next \in Nat /\ tops.mined \in Int /\ -1 <= tops.mined
    /\ DOMAIN dbMemo \subseteq Slots /\ DOMAIN dbTx \subseteq Slots
    /\ DOMAIN dbPending \subseteq Slots /\ DOMAIN unparsedPending \subseteq Slots
    /\ syncIndex \in Slots \cup {-1} /\ dbSync \in Slots \cup {-1}
    /\ DOMAIN got = {"mined", "pending"}

\* A transaction is in the chain, and this is the hash it was mined under.
InChain(h) == Contains(chain, h[1]) /\ h[2] = sends[h[1]]

\* Memos are saved as mined of what is in the chain, and the state sync has
\* stored what lies below, or is about to.
MemosMined ==
    \A i \in DOMAIN dbMemo :
        /\ InChain(dbMemo[i]) /\ i < Len(chain)
        /\ feed = "idle" => i < next
        /\ feed = "fetched" => i < next \/ i <= tops.mined

\* The memos that wait are among those saved.
WaitingSaved == \A i \in DOMAIN unparsed : i \in DOMAIN dbMemo /\ unparsed[i] = dbMemo[i]

\* The records kept are of memos saved, and below the tree's end.
RecordsSaved == \A i \in DOMAIN dbTx : i < next /\ (i \in DOMAIN dbMemo => dbTx[i] = dbMemo[i])

\* Pending memos lie above the tree's end, the sync index below.
PendingAbove ==
    /\ \A i \in DOMAIN unparsedPending : next <= i
    /\ \A i \in DOMAIN dbPending : next <= i
    /\ syncIndex < next /\ dbSync < next

\* A history sync works on the memos that still wait, while the state sync rests;
\* of those mined none is answered with a local record.
Working ==
    hpc = "details" =>
        /\ feed = "idle" /\ asked.mined = unparsed /\ asked.pending = unparsedPending
        /\ got.mined # Waiting =>
              /\ DOMAIN got.mined = DOMAIN unparsed
              /\ \A i \in DOMAIN unparsed : got.mined[i] \in {"full", "partial", "none"}
        /\ got.pending # Waiting => DOMAIN got.pending = DOMAIN unparsedPending

\* What waits no more is shown, and its record is kept.
ShownKept ==
    \A i \in DOMAIN dbMemo \ DOMAIN unparsed :
        /\ i \in DOMAIN dbTx
        /\ i \in DOMAIN current /\ current[i] = Record("mined", dbMemo[i])

\* A new session finds every memo: its record is kept, or it lies above the sync
\* index or is marked as failed.
Findable ==
    ~torn /\ dbFails # Undefined =>
        \A i \in DOMAIN dbMemo : i <= dbSync => i \in dbFails \/ i \in DOMAIN dbTx

MemoInv ==
    /\ Typed /\ MemosMined /\ WaitingSaved /\ RecordsSaved /\ PendingAbove
    /\ Working /\ ShownKept /\ Findable

\* The orderly use: what is listed in Untimely does not happen, except that a
\* pending transaction may disappear from under later ones.
Orderly == Untimely \subseteq {"shift"}

\* The client only keeps records of own transactions.
SentOwn == queued \subseteq Own /\ failed \cup dbFailed \subseteq Own /\ \A h \in sent : h[1] \in Own

\* A transaction is in the chain or the optimistic state once, and the
\* sequencer's state of its job says where it is.
Placed ==
    /\ seq \in [Own -> {"new", "waiting", "sent", "failed", "reverted", "mined"}]
    /\ rec \in [Own -> [state : {"Pending", "RejectedByRelayer", "RejectedByPool"}, sends : Nat]]
    /\ \A i, j \in DOMAIN chain : i # j => chain[i] # chain[j]
    /\ \A i, j \in DOMAIN pend : i # j => pend[i] # pend[j]
    /\ \A i \in DOMAIN chain, j \in DOMAIN pend : chain[i] # pend[j]
    /\ \A i \in DOMAIN chain : chain[i] \in Own => seq[chain[i]] = "mined"
    /\ \A i \in DOMAIN pend : pend[i] \in Own => seq[pend[i]] = "sent"

\* A rejected or reverted transaction stays so.
Over(t) == rec[t].state # "Pending" \/ t \in failed \cup dbFailed
OverTrue == \A t \in Own : Over(t) => seq[t] \in {"failed", "reverted"}

\* A mined memo is the one of its slot's transaction.
MemoAt(i) == dbMemo[i] = <<chain[i + 1], sends[chain[i + 1]]>>
MemosPlaced == \A i \in DOMAIN dbMemo : MemoAt(i)

\* A pending memo that is not trimmed is not of a mined transaction.
Trimmed(i) == feed = "fetched" /\ ~(tops.mined < i /\ i <= tops.pending)
PendingApart ==
    /\ tops.pending \in Int
    /\ \A i \in DOMAIN unparsedPending : i \in DOMAIN dbPending /\ unparsedPending[i] = dbPending[i]
    /\ \A k \in DOMAIN pend : pend[k] \in Others => Len(chain) + k - 1 \notin DOMAIN dbPending
    /\ feed # "failed" =>
          \A i \in DOMAIN dbPending : ~Trimmed(i) => \A j \in DOMAIN dbMemo : dbMemo[j][1] # dbPending[i][1]

\* What the list shows as mined is what the memos saved as mined tell.
ListTrue ==
    /\ DOMAIN dbTx \subseteq DOMAIN dbMemo
    /\ \A i \in DOMAIN current :
          /\ current[i].kind \in {"mined", "pending", "local"}
          /\ current[i].kind = "mined" => i \in DOMAIN dbMemo /\ current[i] = Record("mined", dbMemo[i])
          /\ current[i].kind = "local" => current[i].hash[1] \in Own
    /\ hpc = "details" /\ got.pending # Waiting =>
          \A i \in DOMAIN unparsedPending : got.pending[i] = "local" => unparsedPending[i][1] \in Own

\* Nothing is kept any more of a transaction that is shown as mined, or about to.
Gone(t) == t \notin queued /\ \A h \in sent : h[1] # t
Cleared ==
    /\ \A i \in DOMAIN current : current[i].kind = "mined" => Gone(current[i].hash[1])
    /\ hpc = "details" /\ got.mined # Waiting =>
          \A i \in DOMAIN unparsed : got.mined[i] \in {"full", "partial"} => Gone(unparsed[i][1])

\* A transaction whose hash was told has failed, is still kept as sent, or is
\* shown as mined or about to.
Known(t) ==
    \/ t \in failed
    \/ \E h \in sent : h[1] = t
    \/ /\ Contains(chain, t)
       /\ \/ \E i \in DOMAIN current : current[i] = Record("mined", <<t, sends[t]>>)
          \/ /\ hpc = "details" /\ got.mined # Waiting
             /\ \E i \in DOMAIN unparsed : got.mined[i] = "full" /\ unparsed[i] = <<t, sends[t]>>
AllKnown ==
    /\ tracked \subseteq Own /\ \A t \in tracked : Known(t)
    /\ IsFiniteSet(sent) /\ DOMAIN current \subseteq Slots

ListInv == SentOwn /\ Placed /\ OverTrue /\ MemosPlaced /\ PendingApart /\ ListTrue /\ Cleared /\ AllKnown

-----------------------------------------------------------------------------
(* The operators the actions are built from.                               *)

\* A set of naturals has a least element.
LEMMA NatLeast ==
    ASSUME NEW S, S \subseteq Nat, S # {}
    PROVE  \E m \in S : \A k \in S : m <= k
<1>1. IsWellFoundedOn(OpToRel(<, Nat), Nat)
  BY NatLessThanWellFounded, Zenon
<1>2. PICK m \in S : \A k \in S : <<k, m>> \notin OpToRel(<, Nat)
  BY <1>1, WFMin, Zenon
<1>3. \A k \in S : ~ (k < m)
  BY <1>2, Zenon DEF OpToRel
<1> QED BY <1>3, SMT

\* Slots have a greatest one (Math.max of syncHistory and rollbackHistory).
LEMMA GreatestIs ==
    ASSUME NEW S, S \subseteq Slots, S # {}
    PROVE  Greatest(S) \in S /\ \A y \in S : y <= Greatest(S)
<1> DEFINE Below == {n \in Nat : \E x \in S : n + x = MaxSlot}
<1>1. MaxSlot \in Nat /\ \A x \in S : x \in Nat /\ MaxSlot - x \in Nat
  BY DEF Slots
<1>2. Below # {}
  <2>1. PICK x \in S : TRUE
    OBVIOUS
  <2>2. MaxSlot - x \in Below
    BY <1>1, <2>1
  <2> QED BY <2>2
<1>3. PICK m \in Below : \A k \in Below : m <= k
  BY <1>2, NatLeast
<1>4. PICK x \in S : m + x = MaxSlot
  BY <1>3
<1>5. ASSUME NEW y \in S PROVE y <= x
  <2>1. MaxSlot - y \in Below
    BY <1>1
  <2>2. m <= MaxSlot - y
    BY <1>3, <2>1
  <2> QED BY <1>1, <1>3, <1>4, <2>2
<1>6. \E z \in S : \A y \in S : y <= z
  BY <1>4, <1>5
<1> QED BY <1>6, Zenon DEF Greatest

\* What is left of a function's entries.
LEMMA WithoutIs ==
    \A f, S : /\ DOMAIN Without(f, S) = DOMAIN f \ S
              /\ \A x \in DOMAIN f \ S : Without(f, S)[x] = f[x]
BY DEF Without

\* The empty map has no entry.
LEMMA EmptyIs == DOMAIN Empty = {}
BY DEF Empty, Without

\* A memo map with nothing left is the empty map.
LEMMA NothingLeft == \A f, S : DOMAIN f \ S = {} => Without(f, S) = Empty
BY DEF Empty, Without

\* The fields of a record of the list.
LEMMA RecordIs == \A k, h : Record(k, h).kind = k /\ Record(k, h).hash = h
BY DEF Record

-----------------------------------------------------------------------------
(* The sequencer and the pool contract.                                    *)

\* The steps that change nothing of the history but the list's pending records.
LEMMA SameMemos ==
    ASSUME MemoInv,
           UNCHANGED <<next, feed, tops, syncIndex, memos, running, torn,
                       dbMemo, dbPending, dbTx, dbSync, dbFails>>,
           chain' \in Seq(Tx), pend' \in Seq(Tx), sends' \in [Tx -> Nat],
           Len(chain) <= Len(chain'), \A h : InChain(h) => InChain(h)',
           \A i \in DOMAIN current : current[i].kind = "mined" =>
               i \in DOMAIN current' /\ current'[i] = current[i]
    PROVE  MemoInv'
<1>1. Typed'
  BY DEF MemoInv, Typed, memos, running
<1>2. Len(chain) \in Nat /\ Len(chain') \in Nat
  BY DEF MemoInv, Typed
<1>3. MemosMined'
  <2>1. MemosMined /\ \A j \in DOMAIN dbMemo : j \in Int
    BY DEF MemoInv, Typed, Slots
  <2>2. \A j \in DOMAIN dbMemo : j < Len(chain) => j < Len(chain')
    BY <1>2, <2>1
  <2> QED BY <2>1, <2>2 DEF MemosMined
<1>4. WaitingSaved' /\ RecordsSaved' /\ PendingAbove' /\ Working' /\ Findable'
  BY DEF MemoInv, WaitingSaved, RecordsSaved, PendingAbove, Working, Findable, memos, running
<1>5. ShownKept'
  BY RecordIs DEF MemoInv, ShownKept, memos
<1> QED BY <1>1, <1>3, <1>4, <1>5 DEF MemoInv

\* A sequence without one entry, glued from its two ends.
LEMMA Joined ==
    ASSUME NEW S, NEW s \in Seq(S), NEW k \in 1 .. Len(s), NEW low \in Seq(S), NEW high \in Seq(S),
           Len(low) = k - 1, \A i \in 1 .. (k - 1) : low[i] = s[i],
           Len(high) = Len(s) - k, \A i \in 1 .. (Len(s) - k) : high[i] = s[k + i]
    PROVE  /\ (low \o high) \in Seq(S) /\ Len(low \o high) = Len(s) - 1
           /\ \A i \in 1 .. (Len(s) - 1) : (low \o high)[i] = IF i < k THEN s[i] ELSE s[i + 1]
<1>1. Len(s) \in Nat /\ k \in Nat /\ k <= Len(s) /\ 1 <= k
  OBVIOUS
<1>2. (low \o high) \in Seq(S)
  BY ConcatProperties
<1>3. Len(low \o high) = Len(low) + Len(high)
  BY ConcatProperties
<1>4. \A i \in 1 .. (Len(low) + Len(high)) :
            (low \o high)[i] = IF i <= Len(low) THEN low[i] ELSE high[i - Len(low)]
  BY ConcatProperties
<1>5. ASSUME NEW i \in 1 .. (Len(s) - 1), i < k
      PROVE  (low \o high)[i] = s[i]
  <2>1. i \in 1 .. (Len(low) + Len(high)) /\ i <= Len(low) /\ i \in 1 .. (k - 1)
    BY <1>1, <1>5
  <2> QED BY <1>4, <2>1
<1>6. ASSUME NEW i \in 1 .. (Len(s) - 1), ~(i < k)
      PROVE  (low \o high)[i] = s[i + 1]
  <2>1. i \in 1 .. (Len(low) + Len(high)) /\ ~(i <= Len(low))
    BY <1>1, <1>6
  <2>2. i - Len(low) \in 1 .. (Len(s) - k) /\ k + (i - Len(low)) = i + 1
    BY <1>1, <1>6
  <2>3. (low \o high)[i] = high[i - Len(low)]
    BY <1>4, <2>1
  <2>4. high[i - Len(low)] = s[k + (i - Len(low))]
    BY <2>2
  <2> QED BY <2>2, <2>3, <2>4
<1> QED BY <1>1, <1>2, <1>3, <1>5, <1>6

\* RemoveAt leaves the entries before k and moves those after it down.
LEMMA RemoveAtIs ==
    ASSUME NEW S, NEW s \in Seq(S), NEW k \in DOMAIN s
    PROVE  /\ RemoveAt(s, k) \in Seq(S) /\ Len(RemoveAt(s, k)) = Len(s) - 1
           /\ \A i \in 1 .. (Len(s) - 1) : RemoveAt(s, k)[i] = IF i < k THEN s[i] ELSE s[i + 1]
<1>1. k \in 1 .. Len(s) /\ Len(s) \in Nat
  OBVIOUS
<1>2. SubSeq(s, 1, k - 1) \in Seq(S) /\ Len(SubSeq(s, 1, k - 1)) = k - 1
      /\ \A i \in 1 .. (k - 1) : SubSeq(s, 1, k - 1)[i] = s[i]
  BY <1>1, SubSeqProperties
<1>3. SubSeq(s, k + 1, Len(s)) \in Seq(S) /\ Len(SubSeq(s, k + 1, Len(s))) = Len(s) - k
      /\ \A i \in 1 .. (Len(s) - k) : SubSeq(s, k + 1, Len(s))[i] = s[k + i]
  BY <1>1, SubSeqProperties
<1> DEFINE low  == SubSeq(s, 1, k - 1)
           high == SubSeq(s, k + 1, Len(s))
<1>4. RemoveAt(s, k) = low \o high
  BY DEF RemoveAt
<1>5. /\ low \in Seq(S) /\ high \in Seq(S)
      /\ Len(low) = k - 1 /\ \A i \in 1 .. (k - 1) : low[i] = s[i]
      /\ Len(high) = Len(s) - k /\ \A i \in 1 .. (Len(s) - k) : high[i] = s[k + i]
  BY <1>2, <1>3
<1> HIDE DEF low, high
<1>6. (low \o high) \in Seq(S) /\ Len(low \o high) = Len(s) - 1
  BY <1>1, <1>5, Joined
<1>7. \A i \in 1 .. (Len(s) - 1) : (low \o high)[i] = IF i < k THEN s[i] ELSE s[i + 1]
  BY <1>1, <1>5, Joined
<1> QED BY <1>4, <1>6, <1>7

\* What is in the chain stays there, under the hash it was mined with.
LEMMA EnvironmentMemos ==
    ASSUME MemoInv, \/ \E t \in Own : Send(t) \/ Reject(t)
                    \/ \E t \in Tx : SendToPool(t) \/ LeavePool(t)
                    \/ Mine1
    PROVE  MemoInv'
<1>1. UNCHANGED <<next, feed, tops, syncIndex, memos, running, torn, current,
                  dbMemo, dbPending, dbTx, dbSync, dbFails>>
  BY DEF Send, Reject, SendToPool, LeavePool, Mine1, db
<1>2. chain \in Seq(Tx) /\ pend \in Seq(Tx) /\ sends \in [Tx -> Nat]
  BY DEF MemoInv, Typed
<1>3. CASE UNCHANGED <<chain, sends>> /\ pend' \in Seq(Tx)
  BY <1>1, <1>2, <1>3, SameMemos DEF InChain
<1>4. CASE \E t \in Own : Send(t) \/ Reject(t)
  <2>1. UNCHANGED <<chain, sends, pend>>
    BY <1>4 DEF Send, Reject
  <2> QED BY <1>2, <1>3, <2>1
<1>5. ASSUME NEW t \in Tx, SendToPool(t)
      PROVE  MemoInv'
  <2>1. chain' = chain /\ pend' = Append(pend, t) /\ sends' = [sends EXCEPT ![t] = @ + 1]
        /\ ~Contains(chain \o pend, t)
    BY <1>5 DEF SendToPool
  <2>2. pend' \in Seq(Tx) /\ sends' \in [Tx -> Nat]
    BY <1>2, <2>1
  <2>3. ~Contains(chain, t)
    BY <1>2, <2>1, ConcatProperties DEF Contains
  <2>4. \A h : InChain(h) => h[1] \in Tx /\ h[1] # t
    BY <1>2, <2>3 DEF InChain, Contains
  <2>5. \A h : InChain(h) => InChain(h)'
    BY <1>2, <2>1, <2>4 DEF InChain
  <2> QED BY <1>1, <1>2, <2>1, <2>2, <2>5, SameMemos
<1>6. ASSUME NEW t \in Tx, LeavePool(t)
      PROVE  MemoInv'
  <2>1. UNCHANGED <<chain, sends>> /\ \E k \in DOMAIN pend : pend' = RemoveAt(pend, k)
    BY <1>6 DEF LeavePool
  <2>2. pend' \in Seq(Tx)
    BY <1>2, <2>1, RemoveAtIs
  <2> QED BY <1>3, <2>1, <2>2
<1>7. CASE Mine1
  <2>1. pend # <<>> /\ chain' = Append(chain, Head(pend)) /\ pend' = Tail(pend) /\ sends' = sends
    BY <1>7 DEF Mine1
  <2>2. Head(pend) \in Tx /\ pend' \in Seq(Tx)
    BY <1>2, <2>1
  <2>3. chain' \in Seq(Tx) /\ Len(chain') = Len(chain) + 1 /\ Len(chain) \in Nat
        /\ \A j \in 1 .. Len(chain) : chain'[j] = chain[j]
    BY <1>2, <2>1, <2>2
  <2>4. \A x : Contains(chain, x) => Contains(chain, x)'
    BY <2>3 DEF Contains
  <2>5. \A h : InChain(h) => InChain(h)'
    BY <2>1, <2>4 DEF InChain
  <2> QED BY <1>1, <1>2, <2>1, <2>2, <2>3, <2>5, SameMemos
<1> QED BY <1>4, <1>5, <1>6, <1>7

-----------------------------------------------------------------------------
(* The job monitors.                                                       *)

\* Only a pending record is removed from the list.
LEMMA RemoveKeepsMined ==
    ASSUME NEW t, NEW h, RemovePendingRecord(t, h)
    PROVE  \A i \in DOMAIN current : current[i].kind = "mined" =>
               i \in DOMAIN current' /\ current'[i] = current[i]
<1>1. current' = current \/ \E i \in DOMAIN current : IsPending(i, {t}) /\ current' = Without(current, {i})
  BY DEF RemovePendingRecord
<1>2. \A i : IsPending(i, {t}) => current[i].kind # "mined"
  BY DEF IsPending
<1>3. CASE current' = current
  BY <1>3
<1>4. ASSUME NEW j \in DOMAIN current, IsPending(j, {t}), current' = Without(current, {j}),
             NEW i \in DOMAIN current, current[i].kind = "mined"
      PROVE  i \in DOMAIN current' /\ current'[i] = current[i]
  <2>1. i \in DOMAIN current \ {j}
    BY <1>2, <1>4
  <2> QED BY <1>4, <2>1, WithoutIs, ZenonT(30)
<1> QED BY <1>1, <1>3, <1>4

\* The job monitors touch no memo and no mined record.
LEMMA JobMemos ==
    ASSUME MemoInv, NEW t \in Own, JobSent(t) \/ JobFailed(t) \/ JobReverted(t)
    PROVE  MemoInv'
<1>1. UNCHANGED <<services, syncIndex, memos, running, torn,
                  dbMemo, dbPending, dbTx, dbSync, dbFails>>
  BY DEF JobSent, JobFailed, JobReverted, db
<1>2. \A i \in DOMAIN current : current[i].kind = "mined" =>
          i \in DOMAIN current' /\ current'[i] = current[i]
  <2>1. CASE current' = current
    BY <2>1
  <2>2. CASE current' # current
    <3>1. \E h : RemovePendingRecord(t, h)
      BY <2>2 DEF JobSent, JobFailed, JobReverted
    <3> QED BY <3>1, RemoveKeepsMined
  <2> QED BY <2>1, <2>2
<1>3. UNCHANGED <<chain, pend, sends, next, feed, tops>>
  BY <1>1 DEF services
<1>4. /\ chain' \in Seq(Tx) /\ pend' \in Seq(Tx) /\ sends' \in [Tx -> Nat]
      /\ Len(chain) <= Len(chain') /\ \A h : InChain(h) => InChain(h)'
  BY <1>3 DEF MemoInv, Typed, InChain
<1> QED BY <1>1, <1>2, <1>3, <1>4, SameMemos

-----------------------------------------------------------------------------
(* The state synchronisation.                                              *)

\* What a hot sync reads as mined is in the chain.
LEMMA MinedInChain ==
    ASSUME Typed, NEW i \in SlotsFrom(next), Mined(i)
    PROVE  InChain(HashAt(i))
<1>1. i \in Nat /\ i < Len(chain) /\ chain \in Seq(Tx) /\ pend \in Seq(Tx)
  BY DEF Typed, SlotsFrom, Slots, Mined
<1>2. i + 1 \in 1 .. Len(chain)
  BY <1>1
<1>3. TxAt(i) = chain[i + 1]
  BY <1>1, <1>2, ConcatProperties DEF TxAt
<1>4. Contains(chain, TxAt(i))
  BY <1>2, <1>3 DEF Contains
<1> QED BY <1>4 DEF InChain, HashAt

\* The memos of a hot sync lie at or above nextTreeIndex, hence above the sync
\* index, so all of those mined will wait.
LEMMA FetchMemos ==
    ASSUME MemoInv, Orderly, Fetch
    PROVE  MemoInv'
<1> DEFINE seen   == SlotsFrom(next)
           ours   == {i \in seen : TxAt(i) \in Mine}
           mined  == [i \in {j \in ours : Mined(j)} |-> HashAt(i)]
           pending == [i \in {j \in ours : ~Mined(j)} |-> HashAt(i)]
           fresh  == {i \in DOMAIN mined : i > syncIndex}
           top(S) == IF S = {} THEN -1 ELSE Greatest(S)
           low    == {i \in seen : Mined(i)}
           freshly == [i \in fresh |-> mined[i]]
<1>1. /\ hpc = "idle" /\ feed' = "fetched"
      /\ tops' = IF seen = {} THEN [mined |-> next - 1, pending |-> -1]
                 ELSE [mined |-> top(low), pending |-> top({i \in seen : ~Mined(i)})]
      /\ unparsed' = Overlay(unparsed, freshly)
      /\ unparsedPending' = Overlay(unparsedPending, pending)
      /\ dbMemo' = Overlay(dbMemo, mined) /\ dbPending' = Overlay(dbPending, pending)
  BY Zenon DEF Fetch, Orderly
<1>2. UNCHANGED <<chain, pend, sends, next, syncIndex, current, running, dbTx, dbSync, dbFails, torn>>
  BY DEF Fetch
<1>3. Typed /\ next \in Nat /\ Len(chain) \in Nat /\ syncIndex \in Int /\ dbSync \in Int
      /\ syncIndex < next /\ dbSync < next
  BY DEF MemoInv, Typed, PendingAbove, Slots
<1>4. seen \subseteq Slots /\ (\A i \in seen : next <= i) /\ low \subseteq Slots
  BY DEF SlotsFrom
<1>5. DOMAIN mined \subseteq low /\ DOMAIN pending \subseteq seen /\ low \subseteq seen
  OBVIOUS
<1>6. DOMAIN freshly = fresh /\ (\A i \in DOMAIN mined : mined[i] = HashAt(i))
      /\ \A i \in fresh : freshly[i] = mined[i]
  OBVIOUS
<1>7. fresh = DOMAIN mined
  BY <1>3, <1>4, <1>5 DEF Slots
<1>8. \A i \in low : i <= tops'.mined
  <2>1. CASE low = {}
    BY <2>1
  <2>2. CASE low # {}
    <3>1. tops'.mined = Greatest(low)
      BY <1>1, <2>2
    <3> QED BY <1>4, <2>2, <3>1, GreatestIs
  <2> QED BY <2>1, <2>2
<1>9. tops'.mined \in Int /\ -1 <= tops'.mined
  <2>1. CASE seen = {}
    BY <1>1, <1>3, <2>1
  <2>2. CASE seen # {} /\ low = {}
    BY <1>1, <2>2
  <2>3. CASE low # {}
    <3>1. tops'.mined = Greatest(low) /\ Greatest(low) \in Slots
      BY <1>1, <1>4, <2>3, GreatestIs
    <3> QED BY <3>1 DEF Slots
  <2> QED BY <2>1, <2>2, <2>3
<1>10. \A i \in DOMAIN mined : InChain(mined[i]) /\ i < Len(chain)
  BY <1>3, <1>6, MinedInChain DEF Mined
<1>11. \A i \in Slots : next <= i /\ i < Len(chain) => i \in low
  <2>1. Len(chain \o pend) = Len(chain) + Len(pend) /\ Len(pend) \in Nat
    BY ConcatProperties DEF MemoInv, Typed
  <2> QED BY <1>3, <2>1 DEF SlotsFrom, Mined, Slots
<1> HIDE DEF seen, mined, pending, fresh, top, low, freshly
<1>12. DOMAIN dbMemo' = DOMAIN dbMemo \cup DOMAIN mined
       /\ (\A i \in DOMAIN mined : dbMemo'[i] = mined[i])
       /\ \A i \in DOMAIN dbMemo \ DOMAIN mined : dbMemo'[i] = dbMemo[i]
  <2>1. dbMemo' = Overlay(dbMemo, mined)
    BY <1>1
  <2> QED BY <2>1 DEF Overlay
<1>13. DOMAIN unparsed' = DOMAIN unparsed \cup DOMAIN mined
       /\ (\A i \in DOMAIN mined : unparsed'[i] = mined[i])
       /\ \A i \in DOMAIN unparsed \ DOMAIN mined : unparsed'[i] = unparsed[i]
  <2>1. unparsed' = Overlay(unparsed, freshly) /\ DOMAIN freshly = DOMAIN mined
        /\ \A i \in DOMAIN mined : freshly[i] = mined[i]
    BY <1>1, <1>6, <1>7
  <2>2. /\ DOMAIN unparsed' = DOMAIN unparsed \cup DOMAIN freshly
        /\ \A i \in DOMAIN freshly : unparsed'[i] = freshly[i]
        /\ \A i \in DOMAIN unparsed \ DOMAIN freshly : unparsed'[i] = unparsed[i]
    BY <2>1 DEF Overlay
  <2> QED BY <2>1, <2>2
<1>14. DOMAIN unparsedPending' = DOMAIN unparsedPending \cup DOMAIN pending
       /\ DOMAIN dbPending' = DOMAIN dbPending \cup DOMAIN pending
  <2>1. unparsedPending' = Overlay(unparsedPending, pending) /\ dbPending' = Overlay(dbPending, pending)
    BY <1>1
  <2> QED BY <2>1 DEF Overlay
<1>15. Typed'
  BY <1>2, <1>4, <1>5, <1>9, <1>12, <1>14 DEF MemoInv, Typed, running
<1>16. MemosMined'
  <2> SUFFICES ASSUME NEW i \in DOMAIN dbMemo'
               PROVE  InChain(dbMemo'[i]) /\ i < Len(chain) /\ (i < next \/ i <= tops'.mined)
    BY <1>1, <1>2 DEF MemosMined, InChain
  <2>1. CASE i \in DOMAIN mined
    BY <1>5, <1>8, <1>10, <1>12, <2>1
  <2>2. CASE i \notin DOMAIN mined
    <3>1. i \in DOMAIN dbMemo /\ dbMemo'[i] = dbMemo[i] /\ i \in Slots
      BY <1>12, <2>2 DEF MemoInv, Typed
    <3>2. InChain(dbMemo[i]) /\ i < Len(chain)
      BY <3>1 DEF MemoInv, MemosMined
    <3>3. i < next \/ i \in low
      BY <1>3, <1>11, <3>1, <3>2 DEF Slots
    <3> QED BY <1>8, <3>1, <3>2, <3>3
  <2> QED BY <2>1, <2>2
<1>17. WaitingSaved'
  BY <1>12, <1>13 DEF MemoInv, WaitingSaved
<1>18. \A i \in DOMAIN mined : next <= i /\ i \in Nat
  <2>1. \A i \in DOMAIN mined : i \in seen /\ i \in Slots
    BY <1>4, <1>5
  <2> QED BY <1>4, <2>1 DEF Slots
<1>19. RecordsSaved'
  <2> SUFFICES ASSUME NEW i \in DOMAIN dbTx
               PROVE  i < next /\ (i \in DOMAIN dbMemo' => dbTx[i] = dbMemo'[i])
    BY <1>2 DEF RecordsSaved
  <2>1. i < next /\ (i \in DOMAIN dbMemo => dbTx[i] = dbMemo[i])
    BY DEF MemoInv, RecordsSaved
  <2>2. i \notin DOMAIN mined
    BY <1>3, <1>18, <2>1
  <2> QED BY <1>12, <2>1, <2>2
<1>20. PendingAbove'
  BY <1>2, <1>4, <1>5, <1>14 DEF MemoInv, PendingAbove
<1>21. Working'
  BY <1>1, <1>2 DEF Working, running
<1>22. ShownKept'
  BY <1>2, <1>12, <1>13 DEF MemoInv, ShownKept
<1>23. Findable'
  BY <1>2, <1>3, <1>12, <1>18 DEF MemoInv, Findable
<1> QED BY <1>15, <1>16, <1>17, <1>19, <1>20, <1>21, <1>22, <1>23 DEF MemoInv

\* The pending memos that stay lie above what has been stored.
LEMMA StoreMemos ==
    ASSUME MemoInv, Store
    PROVE  MemoInv'
<1>1. /\ feed = "fetched" /\ feed' = "idle"
      /\ next' = IF tops.mined + 1 > next THEN tops.mined + 1 ELSE next
      /\ unparsedPending' = Without(unparsedPending,
            {i \in DOMAIN unparsedPending : i <= tops.mined \/ i > tops.pending})
      /\ dbPending' = Without(dbPending, {i \in DOMAIN dbPending : i <= tops.mined \/ i > tops.pending})
  BY DEF Store
<1>2. UNCHANGED <<chain, pend, sends, tops, syncIndex, unparsed, current, running,
                  dbMemo, dbTx, dbSync, dbFails, torn>>
  BY DEF Store
<1>3. next \in Nat /\ tops.mined \in Int /\ -1 <= tops.mined /\ Typed
  BY DEF MemoInv, Typed
<1>4. next' \in Nat /\ next <= next' /\ tops.mined < next'
  BY <1>1, <1>3
<1>5. \A i \in DOMAIN unparsedPending' : i \in DOMAIN unparsedPending /\ ~(i <= tops.mined)
  <2> DEFINE stale == {i \in DOMAIN unparsedPending : i <= tops.mined \/ i > tops.pending}
  <2>1. DOMAIN unparsedPending' = DOMAIN unparsedPending \ stale
    BY <1>1, WithoutIs, Zenon
  <2> QED BY <2>1
<1>6. \A i \in DOMAIN dbPending' : i \in DOMAIN dbPending /\ ~(i <= tops.mined)
  <2> DEFINE stale == {i \in DOMAIN dbPending : i <= tops.mined \/ i > tops.pending}
  <2>1. DOMAIN dbPending' = DOMAIN dbPending \ stale
    BY <1>1, WithoutIs, Zenon
  <2> QED BY <2>1
<1>7. Typed'
  BY <1>2, <1>4, <1>5, <1>6 DEF MemoInv, Typed, running
<1>8. MemosMined'
  BY <1>1, <1>2, <1>3, <1>4, SMTT(30) DEF MemoInv, MemosMined, Typed, InChain, Slots
<1>9. WaitingSaved' /\ ShownKept' /\ Findable'
  BY <1>2 DEF MemoInv, WaitingSaved, ShownKept, Findable
<1>10. \A i \in DOMAIN dbTx : i < next'
  <2> SUFFICES ASSUME NEW i \in DOMAIN dbTx PROVE i < next'
    OBVIOUS
  <2>1. i \in Nat /\ i < next
    BY DEF MemoInv, RecordsSaved, Typed, Slots
  <2> QED BY <1>3, <1>4, <2>1
<1>11. RecordsSaved'
  BY <1>2, <1>10 DEF MemoInv, RecordsSaved
<1>12. PendingAbove'
  <2>1. syncIndex \in Int /\ syncIndex < next /\ dbSync \in Int /\ dbSync < next
    BY DEF MemoInv, PendingAbove, Typed, Slots
  <2>2. syncIndex < next' /\ dbSync < next'
    BY <1>3, <1>4, <2>1
  <2>3. \A i \in Nat : next <= i /\ ~(i <= tops.mined) => next' <= i
    BY <1>1, <1>3
  <2>4. \A i \in DOMAIN unparsedPending : next <= i /\ i \in Nat
    BY DEF MemoInv, PendingAbove, Typed, Slots
  <2>5. \A i \in DOMAIN dbPending : next <= i /\ i \in Nat
    BY DEF MemoInv, PendingAbove, Typed, Slots
  <2> QED BY <1>2, <1>5, <1>6, <2>2, <2>3, <2>4, <2>5 DEF PendingAbove
<1>13. Working'
  BY <1>1, <1>2 DEF MemoInv, Working, running
<1> QED BY <1>7, <1>8, <1>9, <1>11, <1>12, <1>13 DEF MemoInv

\* A state sync that fails after it has saved its memos.
LEMMA StoreFailsMemos ==
    ASSUME MemoInv, StoreFails
    PROVE  MemoInv'
<1>1. feed = "fetched" /\ feed' = "failed"
  BY DEF StoreFails
<1>2. UNCHANGED <<chain, pend, sends, next, tops, syncIndex, memos, current, running, db, torn>>
  BY DEF StoreFails
<1>3. Typed' /\ WaitingSaved' /\ RecordsSaved' /\ PendingAbove' /\ ShownKept' /\ Findable'
  BY <1>2 DEF MemoInv, Typed, WaitingSaved, RecordsSaved, PendingAbove, ShownKept, Findable,
     memos, running, db
<1>4. MemosMined' /\ Working'
  BY <1>1, <1>2 DEF MemoInv, MemosMined, Working, InChain, running, memos, db
<1> QED BY <1>3, <1>4 DEF MemoInv

\* Everything at or above the cut goes, in memory as in the database.
LEMMA RollbackMemos ==
    ASSUME MemoInv, NEW k \in Slots, Rollback(k)
    PROVE  MemoInv'
<1> DEFINE gone == {j \in Slots : j >= k}
           left == Without(unparsed, gone)
<1>1. /\ feed # "fetched" /\ hpc = "idle" /\ k <= next /\ next' = k
      /\ current' = Without(current, gone) /\ unparsed' = left
      /\ unparsedPending' = Without(unparsedPending, gone)
      /\ syncIndex' = (IF left = Empty THEN -1 ELSE Greatest(DOMAIN left))
      /\ dbTx' = Without(dbTx, gone) /\ dbMemo' = Without(dbMemo, gone)
      /\ dbPending' = Without(dbPending, gone)
      /\ dbSync' = syncIndex' /\ torn' = TRUE
  BY DEF Rollback
<1>2. UNCHANGED <<chain, pend, sends, feed, tops, running>>
  BY DEF Rollback
<1>3. k \in Nat /\ next \in Nat
  BY DEF MemoInv, Typed, Slots
<1>4. \A i \in Slots : i \notin gone <=> i < k
  BY <1>3 DEF Slots
<1>5. DOMAIN unparsed \subseteq DOMAIN dbMemo /\ DOMAIN dbMemo \subseteq Slots
  BY DEF MemoInv, WaitingSaved, Typed
<1> HIDE DEF gone
<1>6. DOMAIN left = DOMAIN unparsed \ gone /\ \A i \in DOMAIN left : left[i] = unparsed[i]
  BY DEF Without
<1>7. DOMAIN dbMemo' = DOMAIN dbMemo \ gone /\ \A i \in DOMAIN dbMemo' : dbMemo'[i] = dbMemo[i]
  <2>1. dbMemo' = Without(dbMemo, gone)
    BY <1>1
  <2> QED BY <2>1 DEF Without
<1>8. DOMAIN dbTx' = DOMAIN dbTx \ gone /\ \A i \in DOMAIN dbTx' : dbTx'[i] = dbTx[i]
  <2>1. dbTx' = Without(dbTx, gone)
    BY <1>1
  <2> QED BY <2>1 DEF Without
<1>9. DOMAIN current' = DOMAIN current \ gone /\ \A i \in DOMAIN current' : current'[i] = current[i]
  <2>1. current' = Without(current, gone)
    BY <1>1
  <2> QED BY <2>1 DEF Without
<1>10. /\ DOMAIN unparsedPending' = DOMAIN unparsedPending \ gone
       /\ DOMAIN dbPending' = DOMAIN dbPending \ gone
  <2>1. unparsedPending' = Without(unparsedPending, gone) /\ dbPending' = Without(dbPending, gone)
    BY <1>1
  <2> QED BY <2>1 DEF Without
<1>11. syncIndex' \in Slots \cup {-1} /\ syncIndex' < k
  <2>1. CASE DOMAIN left = {}
    <3>1. left = Empty
      BY <1>6, <2>1, NothingLeft
    <3> QED BY <1>1, <1>3, <3>1
  <2>2. CASE DOMAIN left # {}
    <3>1. left # Empty
      BY <2>2, EmptyIs
    <3>2. DOMAIN left \subseteq Slots
      BY <1>5, <1>6
    <3>3. Greatest(DOMAIN left) \in DOMAIN left
      BY <2>2, <3>2, GreatestIs
    <3>4. syncIndex' \in DOMAIN left
      BY <1>1, <3>1, <3>3, Zenon
    <3> QED BY <1>4, <1>6, <3>2, <3>4
  <2> QED BY <2>1, <2>2
<1> HIDE DEF left
<1>12. Typed'
  BY <1>1, <1>2, <1>3, <1>7, <1>8, <1>10, <1>11 DEF MemoInv, Typed, running
<1>13. \A i \in DOMAIN dbMemo' : i < k /\ i \in DOMAIN dbMemo
  BY <1>4, <1>5, <1>7
<1>14. MemosMined'
  BY <1>1, <1>2, <1>7, <1>13 DEF MemoInv, MemosMined, InChain
<1>15. WaitingSaved' /\ ShownKept'
  BY <1>1, <1>6, <1>7, <1>8, <1>9 DEF MemoInv, WaitingSaved, ShownKept
<1>16. RecordsSaved'
  <2> SUFFICES ASSUME NEW i \in DOMAIN dbTx'
               PROVE  i < k /\ (i \in DOMAIN dbMemo' => dbTx'[i] = dbMemo'[i])
    BY <1>1 DEF RecordsSaved
  <2>1. i < next /\ (i \in DOMAIN dbMemo => dbTx[i] = dbMemo[i])
    BY <1>8 DEF MemoInv, RecordsSaved
  <2>2. i \in Slots
    BY <1>8 DEF MemoInv, Typed
  <2> QED BY <1>4, <1>7, <1>8, <2>1, <2>2
<1>17. PendingAbove'
  <2>1. \A i \in DOMAIN unparsedPending' : FALSE
    BY <1>3, <1>1, <1>4, <1>10 DEF MemoInv, PendingAbove, Typed, Slots
  <2>2. \A i \in DOMAIN dbPending' : FALSE
    BY <1>3, <1>1, <1>4, <1>10 DEF MemoInv, PendingAbove, Typed, Slots
  <2> QED BY <1>1, <1>11, <2>1, <2>2 DEF PendingAbove
<1>18. Working' /\ Findable'
  BY <1>1, <1>2 DEF Working, Findable, running
<1> QED BY <1>12, <1>14, <1>15, <1>16, <1>17, <1>18 DEF MemoInv

\* A wipe leaves no memo and no record.
LEMMA CleanMemos ==
    ASSUME MemoInv, Clean
    PROVE  MemoInv'
<1>1. /\ hpc = "idle" /\ next' = 0 /\ syncIndex' = -1 /\ dbSync' = -1
      /\ unparsed' = Empty /\ unparsedPending' = Empty /\ current' = Empty
      /\ dbMemo' = Empty /\ dbPending' = Empty /\ dbTx' = Empty
  BY DEF Clean
<1>2. UNCHANGED <<chain, pend, sends, feed, tops, running>>
  BY DEF Clean
<1>3. Typed'
  BY <1>1, <1>2, EmptyIs DEF MemoInv, Typed, running
<1>4. MemosMined' /\ WaitingSaved' /\ RecordsSaved' /\ ShownKept' /\ Findable'
  BY <1>1, EmptyIs DEF MemosMined, WaitingSaved, RecordsSaved, ShownKept, Findable
<1>5. PendingAbove' /\ Working'
  BY <1>1, <1>2, EmptyIs DEF PendingAbove, Working, running
<1> QED BY <1>3, <1>4, <1>5 DEF MemoInv

-----------------------------------------------------------------------------
(* The history sync.                                                       *)

\* Only pending records are left out of a new list.
LEMMA KeptKeepsMined ==
    \A i \in DOMAIN current : current[i].kind = "mined" => i \in DOMAIN Kept /\ Kept[i] = current[i]
<1>1. \A i \in DOMAIN current : current[i].kind = "mined" => i \in Settled
  BY DEF Settled, IsPending
<1> QED BY <1>1 DEF Kept, Without

\* The answers of a history sync that has just begun.
LEMMA NotGotIs == DOMAIN NotGot = {"mined", "pending"} /\ NotGot.mined = Waiting /\ NotGot.pending = Waiting
BY DEF NotGot

\* A history sync starts with the memos that wait.
LEMMA GetAllHistoryMemos ==
    ASSUME MemoInv, Orderly, GetAllHistory
    PROVE  MemoInv'
<1>1. hpc = "idle" /\ feed = "idle" /\ got' = NotGot
  BY DEF GetAllHistory, Orderly
<1>2. UNCHANGED <<chain, pend, sends, next, feed, tops, syncIndex, unparsed, unparsedPending, torn,
                  dbMemo, dbPending, dbTx, dbSync, dbFails>>
  BY DEF GetAllHistory, services, memos, db
<1>3. \/ hpc' = "idle"
      \/ asked' = [mined |-> unparsed, pending |-> unparsedPending]
  BY <1>1 DEF GetAllHistory
<1>4. \A i \in DOMAIN current : current[i].kind = "mined" =>
          i \in DOMAIN current' /\ current'[i] = current[i]
  <2>1. current' = current \/ current' = Kept
    BY DEF GetAllHistory
  <2> QED BY <2>1, KeptKeepsMined
<1>5. Typed'
  BY <1>1, <1>2, NotGotIs DEF MemoInv, Typed
<1>6. MemosMined' /\ WaitingSaved' /\ RecordsSaved' /\ PendingAbove' /\ Findable'
  BY <1>2 DEF MemoInv, MemosMined, WaitingSaved, RecordsSaved, PendingAbove, Findable, InChain
<1>7. Working'
  <2>1. CASE hpc' = "idle"
    BY <2>1 DEF Working
  <2>2. CASE asked' = [mined |-> unparsed, pending |-> unparsedPending]
    BY <1>1, <1>2, <2>2, NotGotIs DEF Working
  <2> QED BY <1>3, <2>1, <2>2
<1>8. ShownKept'
  <2> SUFFICES ASSUME NEW i \in DOMAIN dbMemo \ DOMAIN unparsed
               PROVE  i \in DOMAIN dbTx /\ i \in DOMAIN current'
                      /\ current'[i] = Record("mined", dbMemo[i])
    BY <1>2 DEF ShownKept
  <2>1. i \in DOMAIN dbTx /\ i \in DOMAIN current /\ current[i] = Record("mined", dbMemo[i])
    BY DEF MemoInv, ShownKept
  <2> QED BY <1>4, <2>1, RecordIs
<1> QED BY <1>5, <1>6, <1>7, <1>8 DEF MemoInv

\* The details of what is mined are there, or are missing altogether: the record
\* of a sent transaction only stands in for them when a node lags behind.
LEMMA MinedAnswers ==
    ASSUME Orderly, NEW h, InChain(h)
    PROVE  Answers(h, FALSE) \subseteq {"full", "partial", "none"}
<1>1. InBlock(h) /\ "lag" \notin Untimely
  BY DEF InBlock, InChain, Orderly
<1>2. CASE h \in sent
  BY <1>1, <1>2 DEF Answers
<1>3. CASE h \notin sent
  BY <1>1, <1>3 DEF Answers
<1> QED BY <1>2, <1>3

\* Each mined memo gets an answer, and none is a local record.
LEMMA ConvertMinedMemos ==
    ASSUME MemoInv, Orderly, ConvertMined
    PROVE  MemoInv'
<1>1. PICK out \in [DOMAIN asked.mined -> Outcome] :
          /\ \A i \in DOMAIN out : out[i] \in Answers(asked.mined[i], FALSE)
          /\ got' = [got EXCEPT !.mined = out]
  BY Zenon DEF ConvertMined
<1>2. hpc = "details"
  BY DEF ConvertMined
<1>3. UNCHANGED <<chain, pend, sends, next, feed, tops, syncIndex, unparsed, unparsedPending, torn,
                  current, hpc, asked, dbMemo, dbPending, dbTx, dbSync, dbFails>>
  BY DEF ConvertMined, services, memos, db
<1>4. DOMAIN got' = {"mined", "pending"} /\ got'.mined = out /\ got'.pending = got.pending
  BY <1>1 DEF MemoInv, Typed
<1>5. asked.mined = unparsed
  BY <1>2 DEF MemoInv, Working
<1>6. DOMAIN out = DOMAIN unparsed
  BY <1>1, <1>5
<1>7. ASSUME NEW i \in DOMAIN unparsed PROVE out[i] \in {"full", "partial", "none"}
  <2>1. InChain(unparsed[i])
    BY DEF MemoInv, WaitingSaved, MemosMined
  <2>2. out[i] \in Answers(unparsed[i], FALSE)
    BY <1>1, <1>5, <1>6
  <2> QED BY <2>1, <2>2, MinedAnswers
<1>8. Typed'
  BY <1>3, <1>4 DEF MemoInv, Typed
<1>9. MemosMined' /\ WaitingSaved' /\ RecordsSaved' /\ PendingAbove' /\ Findable' /\ ShownKept'
  BY <1>3 DEF MemoInv, MemosMined, WaitingSaved, RecordsSaved, PendingAbove, Findable, ShownKept, InChain
<1>10. Working'
  BY <1>2, <1>3, <1>4, <1>6, <1>7 DEF MemoInv, Working
<1> QED BY <1>8, <1>9, <1>10 DEF MemoInv

\* Each pending memo gets an answer.
LEMMA ConvertPendingMemos ==
    ASSUME MemoInv, ConvertPending
    PROVE  MemoInv'
<1>1. PICK out \in [DOMAIN asked.pending -> Outcome] : got' = [got EXCEPT !.pending = out]
  BY Zenon DEF ConvertPending
<1>2. hpc = "details"
  BY DEF ConvertPending
<1>3. UNCHANGED <<chain, pend, sends, next, feed, tops, syncIndex, unparsed, unparsedPending, torn,
                  current, hpc, asked, dbMemo, dbPending, dbTx, dbSync, dbFails>>
  BY DEF ConvertPending, services, memos, db
<1>4. DOMAIN got' = {"mined", "pending"} /\ got'.pending = out /\ got'.mined = got.mined
  BY <1>1 DEF MemoInv, Typed
<1>5. DOMAIN out = DOMAIN unparsedPending
  BY <1>1, <1>2 DEF MemoInv, Working
<1>6. Typed'
  BY <1>3, <1>4 DEF MemoInv, Typed
<1>7. MemosMined' /\ WaitingSaved' /\ RecordsSaved' /\ PendingAbove' /\ Findable' /\ ShownKept'
  BY <1>3 DEF MemoInv, MemosMined, WaitingSaved, RecordsSaved, PendingAbove, Findable, ShownKept, InChain
<1>8. Working'
  BY <1>2, <1>3, <1>4, <1>5 DEF MemoInv, Working
<1> QED BY <1>6, <1>7, <1>8 DEF MemoInv

\* What a conversion brings (convertToHistory).
LEMMA BuiltIs ==
    ASSUME NEW from, NEW out, NEW kind
    PROVE  /\ DOMAIN Built(from, out, kind) \subseteq DOMAIN out
           /\ \A i \in DOMAIN out : out[i] = "full" =>
                  i \in DOMAIN Built(from, out, kind) /\ Built(from, out, kind)[i] = Record(kind, from[i])
BY DEF Built

\* A waiting memo is below the tree's end, so it is not among the pending ones:
\* with its full details it is shown and its record kept, otherwise it still
\* waits and is marked as failed.
LEMMA MergeMemos ==
    ASSUME MemoInv, Merge
    PROVE  MemoInv'
<1> DEFINE done    == With(got.mined, {"full", "partial"})
           resync  == With(got.mined, {"partial"}) \cup With(got.pending, {"partial"})
           success == With(got.mined, {"full", "partial", "local"})
                        \cup With(got.pending, {"full", "partial", "local"})
           none    == With(got.mined, {"none"}) \cup With(got.pending, {"none"})
           first   == Built(asked.mined, got.mined, "mined")
           second  == Built(asked.pending, got.pending, "pending")
           records2 == [i \in done |-> asked.mined[i]]
<1>1. /\ hpc = "details" /\ got.mined # Waiting /\ got.pending # Waiting
      /\ current' = Overlay(Kept, Overlay(first, second))
      /\ dbTx' = Overlay(dbTx, records2)
      /\ dbFails' = none \cup resync
      /\ unparsed' = Without(unparsed, success \ resync)
      /\ dbSync' = syncIndex' /\ got' = NotGot
  BY Zenon DEF Merge
<1>2. UNCHANGED <<chain, pend, sends, next, feed, tops, unparsedPending, dbMemo, dbPending>>
  BY DEF Merge, services
<1>3. syncIndex' \in done \cup {syncIndex}
  BY DEF Merge
<1>4. hpc' = "idle" \/ asked' = [mined |-> unparsed', pending |-> unparsedPending]
  BY DEF Merge
<1>5. /\ feed = "idle" /\ asked.mined = unparsed
      /\ DOMAIN got.mined = DOMAIN unparsed /\ DOMAIN got.pending = DOMAIN unparsedPending
      /\ \A i \in DOMAIN unparsed : got.mined[i] \in {"full", "partial", "none"}
  BY <1>1 DEF MemoInv, Working
<1>6. \A i \in DOMAIN dbMemo : i \in Slots /\ i < next /\ i \notin DOMAIN unparsedPending
  <2> SUFFICES ASSUME NEW i \in DOMAIN dbMemo
               PROVE  i \in Slots /\ i < next /\ i \notin DOMAIN unparsedPending
    OBVIOUS
  <2>1. i \in Slots /\ i < next /\ next \in Nat
    BY <1>5 DEF MemoInv, Typed, MemosMined
  <2>2. i \in DOMAIN unparsedPending => next <= i
    BY DEF MemoInv, PendingAbove
  <2> QED BY <2>1, <2>2 DEF Slots
<1>7. \A i \in DOMAIN unparsed : i \in DOMAIN dbMemo /\ unparsed[i] = dbMemo[i]
  BY DEF MemoInv, WaitingSaved
<1>8. \A i \in DOMAIN unparsed :
          /\ i \in success \ resync <=> got.mined[i] = "full"
          /\ i \in done <=> got.mined[i] # "none"
          /\ got.mined[i] = "none" => i \in none
  BY <1>5, <1>6, <1>7 DEF With
<1>9. done \subseteq DOMAIN unparsed
  BY <1>5 DEF With
<1> HIDE DEF done, resync, success, none
<1>10. /\ DOMAIN unparsed' = {i \in DOMAIN unparsed : got.mined[i] # "full"}
       /\ \A i \in DOMAIN unparsed' : unparsed'[i] = unparsed[i]
  <2>1. DOMAIN unparsed' = DOMAIN unparsed \ (success \ resync)
        /\ \A i \in DOMAIN unparsed' : unparsed'[i] = unparsed[i]
    BY <1>1 DEF Without
  <2> QED BY <1>8, <2>1
<1>11. /\ DOMAIN dbTx' = DOMAIN dbTx \cup done
       /\ \A i \in done : dbTx'[i] = unparsed[i]
       /\ \A i \in DOMAIN dbTx \ done : dbTx'[i] = dbTx[i]
  <2>1. dbTx' = Overlay(dbTx, [i \in done |-> unparsed[i]])
    BY <1>1, <1>5
  <2> QED BY <2>1 DEF Overlay
<1>12. DOMAIN first \subseteq DOMAIN unparsed /\ DOMAIN second \subseteq DOMAIN unparsedPending
       /\ \A i \in DOMAIN unparsed : got.mined[i] = "full" =>
              i \in DOMAIN first /\ first[i] = Record("mined", unparsed[i])
  BY <1>5, BuiltIs
<1> HIDE DEF first, second
<1>13. /\ \A i \in DOMAIN first \ DOMAIN second : i \in DOMAIN current' /\ current'[i] = first[i]
       /\ \A i \in DOMAIN Kept \ (DOMAIN first \cup DOMAIN second) :
             i \in DOMAIN current' /\ current'[i] = Kept[i]
  <2>1. current' = Overlay(Kept, Overlay(first, second))
    BY <1>1
  <2> QED BY <2>1 DEF Overlay
<1>14. Typed'
  <2>1. done \subseteq Slots
    BY <1>6, <1>7, <1>9
  <2>2. syncIndex' \in Slots \cup {-1} /\ dbSync' \in Slots \cup {-1}
    BY <1>1, <1>3, <2>1 DEF MemoInv, Typed
  <2> QED BY <1>1, <1>2, <1>11, <2>1, <2>2, NotGotIs DEF MemoInv, Typed
<1>15. MemosMined'
  BY <1>2 DEF MemoInv, MemosMined, InChain
<1>16. WaitingSaved'
  BY <1>2, <1>7, <1>10 DEF WaitingSaved
<1>17. RecordsSaved'
  <2> SUFFICES ASSUME NEW i \in DOMAIN dbTx'
               PROVE  i < next /\ (i \in DOMAIN dbMemo => dbTx'[i] = dbMemo[i])
    BY <1>2 DEF RecordsSaved
  <2>1. CASE i \in done
    BY <1>6, <1>7, <1>9, <1>11, <2>1
  <2>2. CASE i \in DOMAIN dbTx \ done
    BY <1>11, <2>2 DEF MemoInv, RecordsSaved
  <2> QED BY <1>11, <2>1, <2>2
<1>18. PendingAbove'
  <2>1. syncIndex' < next
    BY <1>3, <1>6, <1>7, <1>9 DEF MemoInv, PendingAbove
  <2> QED BY <1>1, <1>2, <2>1 DEF MemoInv, PendingAbove
<1>19. Working'
  <2>1. CASE hpc' = "idle"
    BY <2>1 DEF Working
  <2>2. CASE asked' = [mined |-> unparsed', pending |-> unparsedPending]
    BY <1>1, <1>2, <1>5, <2>2, NotGotIs DEF Working
  <2> QED BY <1>4, <2>1, <2>2
<1>20. ShownKept'
  <2> SUFFICES ASSUME NEW i \in DOMAIN dbMemo \ DOMAIN unparsed'
               PROVE  i \in DOMAIN dbTx' /\ i \in DOMAIN current'
                      /\ current'[i] = Record("mined", dbMemo[i])
    BY <1>2 DEF ShownKept
  <2>1. i \notin DOMAIN second
    BY <1>6, <1>12
  <2>2. CASE i \in DOMAIN unparsed
    <3>1. got.mined[i] = "full" /\ i \in done
      BY <1>8, <1>10, <2>2
    <3>2. i \in DOMAIN first /\ first[i] = Record("mined", dbMemo[i])
      BY <1>7, <1>12, <2>2, <3>1
    <3> QED BY <1>11, <1>13, <2>1, <3>1, <3>2
  <2>3. CASE i \notin DOMAIN unparsed
    <3>1. i \in DOMAIN dbTx /\ i \in DOMAIN current /\ current[i] = Record("mined", dbMemo[i])
      BY <2>3 DEF MemoInv, ShownKept
    <3>2. i \in DOMAIN Kept /\ Kept[i] = current[i]
      BY <3>1, RecordIs, KeptKeepsMined
    <3>3. i \notin DOMAIN first
      BY <1>12, <2>3
    <3>4. i \in DOMAIN current' /\ current'[i] = Kept[i]
      BY <1>13, <2>1, <3>2, <3>3
    <3> QED BY <1>11, <3>1, <3>2, <3>4
  <2> QED BY <2>2, <2>3
<1>21. Findable'
  <2> SUFFICES ASSUME NEW i \in DOMAIN dbMemo
               PROVE  i \in dbFails' \/ i \in DOMAIN dbTx'
    BY <1>2 DEF Findable
  <2>1. CASE i \in DOMAIN unparsed
    BY <1>1, <1>8, <1>11, <2>1
  <2>2. CASE i \notin DOMAIN unparsed
    BY <1>11, <2>2 DEF MemoInv, ShownKept
  <2> QED BY <2>1, <2>2
<1> QED BY <1>14, <1>15, <1>16, <1>17, <1>18, <1>19, <1>20, <1>21 DEF MemoInv

\* The late writes of the records change no memo and no record.
LEMMA RecordsWrittenMemos ==
    ASSUME MemoInv, RecordsWritten \/ UNCHANGED vars
    PROVE  MemoInv'
<1>1. UNCHANGED <<chain, pend, sends, next, feed, tops, syncIndex, memos, running, torn,
                  current, dbMemo, dbPending, dbTx, dbSync, dbFails>>
  BY DEF RecordsWritten, vars, services, db
<1>2. Typed'
  BY <1>1 DEF MemoInv, Typed, memos, running
<1>3. MemosMined' /\ WaitingSaved' /\ RecordsSaved' /\ PendingAbove' /\ Working' /\ Findable' /\ ShownKept'
  BY <1>1 DEF MemoInv, MemosMined, WaitingSaved, RecordsSaved, PendingAbove, Working, Findable,
     ShownKept, InChain, memos, running
<1> QED BY <1>2, <1>3 DEF MemoInv

-----------------------------------------------------------------------------
(* A new session.                                                          *)

\* preloadCache converts what lies above the saved sync index and what is marked
\* as failed; the record of everything else is kept.
LEMMA RestartMemos ==
    ASSUME MemoInv, Orderly, Restart
    PROVE  MemoInv'
<1> DEFINE from  == IF dbSync = 0 THEN -1 ELSE dbSync
           above == {i \in DOMAIN dbMemo : i > from}
           fails == IF dbFails = Undefined THEN DOMAIN dbMemo \ DOMAIN dbTx'
                    ELSE dbFails \cap DOMAIN dbMemo
<1>1. /\ ~torn /\ unwritten = {}
      /\ \E lost \in SUBSET unwritten : dbTx' = Without(dbTx, lost)
      /\ feed' = "failed" /\ hpc' = "idle" /\ got' = NotGot /\ syncIndex' = from
      /\ unparsed' = [i \in above \cup fails |-> dbMemo[i]]
      /\ current' = [i \in DOMAIN dbTx' |-> Record("mined", dbTx'[i])]
  BY Zenon DEF Restart, Orderly
<1>2. DOMAIN unparsedPending' \subseteq DOMAIN dbPending
  BY DEF Restart
<1>3. UNCHANGED <<chain, pend, sends, next, tops, dbMemo, dbPending, dbSync, dbFails, torn>>
  BY DEF Restart
<1>4. DOMAIN dbTx' = DOMAIN dbTx /\ \A i \in DOMAIN dbTx : dbTx'[i] = dbTx[i]
  <2>1. dbTx' = Without(dbTx, {})
    BY <1>1
  <2> QED BY <2>1 DEF Without
<1>5. dbSync \in Slots \cup {-1} /\ from \in Slots \cup {-1} /\ from \in Int /\ dbSync \in Int
      /\ from <= dbSync
  BY DEF MemoInv, Typed, Slots
<1>6. DOMAIN unparsed' = above \cup fails /\ (\A i \in above \cup fails : unparsed'[i] = dbMemo[i])
      /\ above \subseteq DOMAIN dbMemo
  BY <1>1
<1>7. fails \subseteq DOMAIN dbMemo
  OBVIOUS
<1>8. \A i \in DOMAIN dbMemo \ (above \cup fails) : i \in DOMAIN dbTx
  <2> SUFFICES ASSUME NEW i \in DOMAIN dbMemo, i \notin above, i \notin fails
               PROVE  i \in DOMAIN dbTx
    OBVIOUS
  <2>1. CASE dbFails = Undefined
    BY <1>4, <2>1
  <2>2. CASE dbFails # Undefined
    <3>1. i \notin dbFails
      BY <2>2
    <3>2. i \in Int /\ ~(i > from)
      BY DEF MemoInv, Typed, Slots
    <3>3. i <= dbSync
      BY <1>5, <3>2
    <3> QED BY <1>1, <2>2, <3>1, <3>3 DEF MemoInv, Findable
  <2> QED BY <2>1, <2>2
<1> HIDE DEF from, above, fails
<1>9. Typed'
  BY <1>1, <1>2, <1>3, <1>4, <1>5, NotGotIs DEF MemoInv, Typed
<1>10. MemosMined' /\ Working'
  BY <1>1, <1>3 DEF MemoInv, MemosMined, Working, InChain
<1>11. WaitingSaved'
  BY <1>3, <1>6, <1>7 DEF WaitingSaved
<1>12. RecordsSaved' /\ Findable'
  BY <1>3, <1>4 DEF MemoInv, RecordsSaved, Findable
<1>13. PendingAbove'
  <2>1. from < next
    <3>1. dbSync < next /\ next \in Nat
      BY DEF MemoInv, PendingAbove, Typed
    <3> QED BY <1>5, <3>1
  <2> QED BY <1>1, <1>2, <1>3, <2>1 DEF MemoInv, PendingAbove
<1>14. ShownKept'
  <2> SUFFICES ASSUME NEW i \in DOMAIN dbMemo, i \notin DOMAIN unparsed'
               PROVE  i \in DOMAIN dbTx' /\ i \in DOMAIN current'
                      /\ current'[i] = Record("mined", dbMemo[i])
    BY <1>3 DEF ShownKept
  <2>1. i \in DOMAIN dbTx /\ i \in DOMAIN dbTx'
    BY <1>4, <1>6, <1>8
  <2>2. dbTx'[i] = dbMemo[i]
    BY <1>4, <2>1 DEF MemoInv, RecordsSaved
  <2>3. i \in DOMAIN current' /\ current'[i] = Record("mined", dbTx'[i])
    BY <1>1, <2>1
  <2> QED BY <2>1, <2>2, <2>3
<1> QED BY <1>9, <1>10, <1>11, <1>12, <1>13, <1>14 DEF MemoInv

-----------------------------------------------------------------------------
\* At first no memo is saved.
LEMMA InitMemos == Init => MemoInv
<1> SUFFICES ASSUME Init PROVE MemoInv
  OBVIOUS
<1>1. DOMAIN dbMemo = {} /\ DOMAIN dbPending = {} /\ DOMAIN dbTx = {}
      /\ DOMAIN unparsed = {} /\ DOMAIN unparsedPending = {}
  BY EmptyIs DEF Init
<1>2. Typed
  <2>1. sends \in [Tx -> Nat] /\ tops.mined = -1
    BY DEF Init
  <2> QED BY <1>1, <2>1, NotGotIs DEF Init, Typed
<1>3. MemosMined /\ WaitingSaved /\ RecordsSaved /\ PendingAbove /\ Working /\ ShownKept /\ Findable
  BY <1>1 DEF Init, MemosMined, WaitingSaved, RecordsSaved, PendingAbove, Working, ShownKept, Findable
<1> QED BY <1>2, <1>3 DEF MemoInv

\* No step breaks the invariant of the memos.
LEMMA NextMemos ==
    ASSUME Orderly PROVE MemoInv /\ [Next]_vars => MemoInv'
<1> SUFFICES ASSUME MemoInv, [Next]_vars PROVE MemoInv'
  OBVIOUS
<1>1. CASE \/ \E t \in Own : Send(t) \/ Reject(t)
           \/ \E t \in Tx : SendToPool(t) \/ LeavePool(t)
           \/ Mine1
  BY <1>1, EnvironmentMemos
<1>2. CASE \E t \in Own : JobSent(t) \/ JobFailed(t) \/ JobReverted(t)
  BY <1>2, JobMemos
<1>3. CASE Fetch
  BY <1>3, FetchMemos
<1>4. CASE Store
  BY <1>4, StoreMemos
<1>5. CASE StoreFails
  BY <1>5, StoreFailsMemos
<1>6. CASE \E i \in Slots : Rollback(i)
  BY <1>6, RollbackMemos
<1>7. CASE Clean
  BY <1>7, CleanMemos
<1>8. CASE GetAllHistory
  BY <1>8, GetAllHistoryMemos
<1>9. CASE ConvertMined
  BY <1>9, ConvertMinedMemos
<1>10. CASE ConvertPending
  BY <1>10, ConvertPendingMemos
<1>11. CASE Merge
  BY <1>11, MergeMemos
<1>12. CASE Restart
  BY <1>12, RestartMemos
<1>13. CASE RecordsWritten \/ UNCHANGED vars
  BY <1>13, RecordsWrittenMemos
<1> QED BY <1>1, <1>2, <1>3, <1>4, <1>5, <1>6, <1>7, <1>8, <1>9, <1>10, <1>11, <1>12, <1>13 DEF Next

\* The invariant of the memos implies MinedShown.
LEMMA MemosShown == MemoInv => MinedShown
BY DEF MemoInv, ShownKept, MinedShown

\* No mined transaction is forgotten, in this session and in the next ones, as
\* long as history syncs do not overlap with state syncs and the process does
\* not die at the moments the run names (MinedShown).
THEOREM MinedShownHolds ==
    ASSUME Orderly PROVE Spec => []MinedShown
BY InitMemos, NextMemos, MemosShown, PTL DEF Spec

-----------------------------------------------------------------------------
(* Where a transaction is, and what the client keeps of it.                *)

\* No step makes the client keep a record of a stranger's transaction.
LEMMA SentOwnKept == SentOwn /\ [Next]_vars => SentOwn'
<1> SUFFICES ASSUME SentOwn, [Next]_vars PROVE SentOwn'
  OBVIOUS
<1>1. ASSUME NEW t \in Own, Send(t)
      PROVE  SentOwn'
  BY <1>1 DEF SentOwn, Send, db
<1>2. ASSUME NEW t \in Own, JobSent(t)
      PROVE  SentOwn'
  <2>1. UNCHANGED <<queued, failed, dbFailed>> /\ sent' \subseteq sent \cup {<<t, sends[t]>>}
    BY <1>2 DEF JobSent, SetTxHash, db
  <2> QED BY <2>1 DEF SentOwn
<1>3. ASSUME NEW t \in Own, JobFailed(t) \/ JobReverted(t)
      PROVE  SentOwn'
  <2>1. failed' \subseteq failed \cup {t} /\ dbFailed' \subseteq dbFailed \cup {t}
        /\ queued' \subseteq queued /\ sent' \subseteq sent
    BY <1>3 DEF JobFailed, JobReverted
  <2> QED BY <2>1 DEF SentOwn
<1>4. CASE \/ ConvertMined \/ Clean \/ Restart
  <2>1. failed' \cup dbFailed' \subseteq failed \cup dbFailed /\ queued' \subseteq queued /\ sent' \subseteq sent
    BY <1>4 DEF ConvertMined, Clean, Restart, db
  <2> QED BY <2>1 DEF SentOwn
<1>5. CASE UNCHANGED <<queued, sent, failed, dbFailed>>
  BY <1>5 DEF SentOwn
<1>6. CASE \/ \E t \in Own : Reject(t)
           \/ \E t \in Tx : SendToPool(t) \/ LeavePool(t)
           \/ Mine1 \/ Fetch \/ Store \/ StoreFails \/ \E i \in Slots : Rollback(i)
           \/ GetAllHistory \/ ConvertPending \/ Merge \/ RecordsWritten \/ UNCHANGED vars
  <2>1. UNCHANGED <<queued, sent, failed, dbFailed>>
    BY <1>6 DEF Reject, SendToPool, LeavePool, Mine1, Fetch, Store, StoreFails, Rollback, GetAllHistory,
       ConvertPending, Merge, RecordsWritten, vars, records, db
  <2> QED BY <1>5, <2>1
<1> QED BY <1>1, <1>2, <1>3, <1>4, <1>6 DEF Next

\* No step puts a transaction in two slots, or in one its job does not know of.
LEMMA PlacedKept == Typed /\ Placed /\ [Next]_vars => Placed'
<1> SUFFICES ASSUME Typed, Placed, [Next]_vars PROVE Placed'
  OBVIOUS
<1>1. chain \in Seq(Tx) /\ pend \in Seq(Tx) /\ sends \in [Tx -> Nat] /\ Own \subseteq Tx
  BY DEF Typed, Tx, Mine
<1>2. ASSUME NEW t \in Own, Send(t) \/ Reject(t)
      PROVE  Placed'
  <2>1. UNCHANGED <<chain, pend, rec>> /\ seq[t] \in {"new", "waiting"}
        /\ \E s \in {"waiting", "failed"} : seq' = [seq EXCEPT ![t] = s]
    BY <1>2 DEF Send, Reject, records
  <2> QED BY <2>1 DEF Placed
<1>3. ASSUME NEW t \in Tx, SendToPool(t)
      PROVE  Placed'
  <2>1. chain' = chain /\ pend' = Append(pend, t) /\ rec' = rec
        /\ (t \in Own => seq[t] = "waiting" /\ seq' = [seq EXCEPT ![t] = "sent"])
        /\ (t \notin Own => seq' = seq)
    BY <1>3 DEF SendToPool, records
  <2>2. ~Contains(chain \o pend, t)
    BY <1>3 DEF SendToPool
  <2>3. /\ \A i \in DOMAIN chain : chain[i] # t
        /\ \A i \in DOMAIN pend : pend[i] # t
    <3>1. Len(chain) \in Nat /\ Len(pend) \in Nat /\ Len(chain \o pend) = Len(chain) + Len(pend)
          /\ \A i \in 1 .. (Len(chain) + Len(pend)) :
                (chain \o pend)[i] = IF i <= Len(chain) THEN chain[i] ELSE pend[i - Len(chain)]
      BY <1>1, ConcatProperties
    <3>2. \A i \in 1 .. (Len(chain) + Len(pend)) : (chain \o pend)[i] # t
      BY <2>2, <3>1 DEF Contains
    <3>3. \A i \in 1 .. Len(chain) : chain[i] # t
      BY <3>1, <3>2
    <3>4. ASSUME NEW i \in 1 .. Len(pend) PROVE pend[i] # t
      <4>1. Len(chain) + i \in 1 .. (Len(chain) + Len(pend)) /\ ~(Len(chain) + i <= Len(chain))
            /\ Len(chain) + i - Len(chain) = i
        BY <3>1
      <4> QED BY <3>1, <3>2, <4>1
    <3>5. DOMAIN chain = 1 .. Len(chain) /\ DOMAIN pend = 1 .. Len(pend)
      BY <1>1
    <3> QED BY <3>3, <3>4, <3>5, Zenon
  <2>4. /\ DOMAIN pend' = 1 .. (Len(pend) + 1) /\ DOMAIN pend = 1 .. Len(pend) /\ Len(pend) \in Nat
        /\ pend'[Len(pend) + 1] = t /\ \A i \in 1 .. Len(pend) : pend'[i] = pend[i]
    BY <1>1, <2>1
  <2>5. seq' \in [Own -> {"new", "waiting", "sent", "failed", "reverted", "mined"}]
        /\ (\A u \in Own : u # t => seq'[u] = seq[u]) /\ (t \in Own => seq'[t] = "sent")
    BY <2>1 DEF Placed
  <2>6. \A i, j \in DOMAIN pend' : i # j => pend'[i] # pend'[j]
    BY <2>3, <2>4 DEF Placed
  <2>7. \A i \in DOMAIN chain, j \in DOMAIN pend' : chain[i] # pend'[j]
    BY <2>3, <2>4 DEF Placed
  <2>8. \A i \in DOMAIN chain : chain[i] \in Own => seq'[chain[i]] = "mined"
    BY <2>3, <2>5 DEF Placed
  <2>9. \A i \in DOMAIN pend' : pend'[i] \in Own => seq'[pend'[i]] = "sent"
    BY <2>3, <2>4, <2>5 DEF Placed
  <2> QED BY <2>1, <2>5, <2>6, <2>7, <2>8, <2>9 DEF Placed
<1>4. ASSUME NEW t \in Tx, LeavePool(t)
      PROVE  Placed'
  <2>1. chain' = chain /\ rec' = rec
    BY <1>4 DEF LeavePool, records
  <2>2. PICK k \in DOMAIN pend : pend[k] = t /\ pend' = RemoveAt(pend, k)
    BY <1>4 DEF LeavePool
  <2>3. PICK s \in {"waiting", "reverted"} : seq' = IF t \in Own THEN [seq EXCEPT ![t] = s] ELSE seq
    BY <1>4, Zenon DEF LeavePool
  <2>4. Len(pend') = Len(pend) - 1 /\ pend' \in Seq(Tx)
        /\ \A i \in 1 .. (Len(pend) - 1) : pend'[i] = IF i < k THEN pend[i] ELSE pend[i + 1]
    BY <1>1, <2>2, RemoveAtIs
  <2>5. k \in 1 .. Len(pend) /\ Len(pend) \in Nat /\ DOMAIN pend = 1 .. Len(pend)
        /\ DOMAIN pend' = 1 .. (Len(pend) - 1)
    BY <1>1, <2>2, <2>4
  <2>6. \A i \in DOMAIN pend' : \E j \in DOMAIN pend :
             j # k /\ ((i < k /\ j = i) \/ (~(i < k) /\ j = i + 1)) /\ pend'[i] = pend[j]
    <3> SUFFICES ASSUME NEW i \in DOMAIN pend'
                 PROVE  \E j \in DOMAIN pend :
                           j # k /\ ((i < k /\ j = i) \/ (~(i < k) /\ j = i + 1)) /\ pend'[i] = pend[j]
      OBVIOUS
    <3>1. i \in 1 .. (Len(pend) - 1) /\ i \in DOMAIN pend /\ i + 1 \in DOMAIN pend /\ i \in Int /\ k \in Int
      BY <2>5
    <3>2. CASE i < k
      <4>1. pend'[i] = pend[i] /\ i # k
        BY <2>4, <3>1, <3>2
      <4>2. i \in DOMAIN pend /\ i # k /\ ((i < k /\ i = i) \/ (~(i < k) /\ i = i + 1)) /\ pend'[i] = pend[i]
        BY <3>1, <3>2, <4>1, Zenon
      <4> QED BY <4>2, Zenon
    <3>3. CASE ~(i < k)
      <4>1. pend'[i] = pend[i + 1] /\ i + 1 # k
        BY <2>4, <3>1, <3>3
      <4>2. i + 1 \in DOMAIN pend /\ i + 1 # k /\ ((i < k /\ i + 1 = i) \/ (~(i < k) /\ i + 1 = i + 1))
            /\ pend'[i] = pend[i + 1]
        BY <3>1, <3>3, <4>1
      <4> QED BY <4>2, Zenon
    <3> QED BY <3>2, <3>3
  <2>7. seq' \in [Own -> {"new", "waiting", "sent", "failed", "reverted", "mined"}]
        /\ \A u \in Own : u # t => seq'[u] = seq[u]
    BY <2>3 DEF Placed
  <2>8. \A i, j \in DOMAIN pend' : i # j => pend'[i] # pend'[j]
    <3> SUFFICES ASSUME NEW i \in DOMAIN pend', NEW j \in DOMAIN pend', i # j
                 PROVE  pend'[i] # pend'[j]
      OBVIOUS
    <3>1. PICK i2 \in DOMAIN pend : ((i < k /\ i2 = i) \/ (~(i < k) /\ i2 = i + 1)) /\ pend'[i] = pend[i2]
      BY <2>6
    <3>2. PICK j2 \in DOMAIN pend : ((j < k /\ j2 = j) \/ (~(j < k) /\ j2 = j + 1)) /\ pend'[j] = pend[j2]
      BY <2>6
    <3>3. i2 # j2
      BY <2>5, <3>1, <3>2
    <3> QED BY <3>1, <3>2, <3>3 DEF Placed
  <2>9. \A i \in DOMAIN chain, j \in DOMAIN pend' : chain[i] # pend'[j]
    BY <2>6 DEF Placed
  <2>10. \A i \in DOMAIN chain : chain[i] \in Own => seq'[chain[i]] = "mined"
    BY <2>2, <2>7 DEF Placed
  <2>11. \A i \in DOMAIN pend' : pend'[i] \in Own => seq'[pend'[i]] = "sent"
    BY <2>2, <2>6, <2>7 DEF Placed
  <2> QED BY <2>1, <2>7, <2>8, <2>9, <2>10, <2>11 DEF Placed
<1>5. CASE Mine1
  <2>1. rec' = rec /\ pend # <<>> /\ chain' = Append(chain, Head(pend)) /\ pend' = Tail(pend)
        /\ seq' = [t \in Own |-> IF t = Head(pend) THEN "mined" ELSE seq[t]]
    BY <1>5 DEF Mine1, records
  <2>2. Len(pend) \in Nat /\ Len(pend) >= 1 /\ DOMAIN pend = 1 .. Len(pend) /\ Head(pend) = pend[1]
    BY <1>1, <2>1
  <2>3. DOMAIN pend' = 1 .. (Len(pend) - 1) /\ \A i \in 1 .. (Len(pend) - 1) : pend'[i] = pend[i + 1]
    BY <1>1, <2>1
  <2>4. /\ DOMAIN chain' = 1 .. (Len(chain) + 1) /\ DOMAIN chain = 1 .. Len(chain) /\ Len(chain) \in Nat
        /\ chain'[Len(chain) + 1] = pend[1] /\ \A i \in 1 .. Len(chain) : chain'[i] = chain[i]
    BY <1>1, <2>1, <2>2
  <2>5. seq' \in [Own -> {"new", "waiting", "sent", "failed", "reverted", "mined"}]
        /\ (\A u \in Own : u # pend[1] => seq'[u] = seq[u]) /\ (pend[1] \in Own => seq'[pend[1]] = "mined")
    BY <2>1, <2>2 DEF Placed
  <2>6. \A i, j \in DOMAIN chain' : i # j => chain'[i] # chain'[j]
    BY <2>2, <2>4 DEF Placed
  <2>11. \A j \in DOMAIN pend' : j + 1 \in DOMAIN pend /\ j + 1 # 1 /\ pend'[j] = pend[j + 1] /\ j \in Int
    BY <2>2, <2>3
  <2>12. 1 \in DOMAIN pend
    BY <2>2
  <2>7. \A i, j \in DOMAIN pend' : i # j => pend'[i] # pend'[j]
    <3> SUFFICES ASSUME NEW i \in DOMAIN pend', NEW j \in DOMAIN pend', i # j
                 PROVE  pend'[i] # pend'[j]
      OBVIOUS
    <3>1. i + 1 # j + 1
      BY <2>11
    <3> QED BY <2>11, <3>1 DEF Placed
  <2>8. \A i \in DOMAIN chain', j \in DOMAIN pend' : chain'[i] # pend'[j]
    <3> SUFFICES ASSUME NEW i \in DOMAIN chain', NEW j \in DOMAIN pend'
                 PROVE  chain'[i] # pend'[j]
      OBVIOUS
    <3>1. CASE i = Len(chain) + 1
      BY <2>4, <2>11, <2>12, <3>1 DEF Placed
    <3>2. CASE i # Len(chain) + 1
      <4>1. i \in DOMAIN chain /\ chain'[i] = chain[i]
        BY <2>4, <3>2
      <4> QED BY <2>11, <4>1 DEF Placed
    <3> QED BY <3>1, <3>2
  <2>9. \A i \in DOMAIN chain' : chain'[i] \in Own => seq'[chain'[i]] = "mined"
    BY <2>2, <2>4, <2>5 DEF Placed
  <2>10. \A i \in DOMAIN pend' : pend'[i] \in Own => seq'[pend'[i]] = "sent"
    BY <2>2, <2>3, <2>5, SMTT(30) DEF Placed
  <2> QED BY <2>1, <2>5, <2>6, <2>7, <2>8, <2>9, <2>10 DEF Placed
<1>6. ASSUME NEW t \in Own, JobSent(t) \/ JobFailed(t) \/ JobReverted(t)
      PROVE  Placed'
  <2>1. UNCHANGED <<chain, pend, seq>>
    BY <1>6 DEF JobSent, JobFailed, JobReverted, services
  <2>2. rec' \in [Own -> [state : {"Pending", "RejectedByRelayer", "RejectedByPool"}, sends : Nat]]
    <3>1. sends[t] \in Nat
      BY <1>1
    <3>2. CASE JobSent(t)
      BY <3>1, <3>2 DEF JobSent, SetTxHash, Placed
    <3>3. CASE JobFailed(t)
      BY <3>3 DEF JobFailed, Placed
    <3>4. CASE JobReverted(t)
      <4>1. \E n \in Nat : rec' = [rec EXCEPT ![t] = [state |-> "RejectedByPool", sends |-> n]]
        <5>1. CASE <<t, sends[t]>> \in sent
          BY <3>1, <3>4, <5>1 DEF JobReverted, Placed
        <5>2. CASE <<t, sends[t]>> \notin sent
          BY <3>1, <3>4, <5>2 DEF JobReverted, Placed
        <5> QED BY <5>1, <5>2
      <4> QED BY <4>1 DEF Placed
    <3> QED BY <1>6, <3>2, <3>3, <3>4
  <2> QED BY <2>1, <2>2 DEF Placed
<1>7. CASE UNCHANGED <<chain, pend, seq, rec>>
  BY <1>7 DEF Placed
<1>8. CASE \/ Fetch \/ Store \/ StoreFails \/ Clean
           \/ \E i \in Slots : Rollback(i)
           \/ GetAllHistory \/ ConvertMined \/ ConvertPending \/ Merge \/ RecordsWritten \/ Restart
           \/ UNCHANGED vars
  <2>1. UNCHANGED <<chain, pend, seq, rec>>
    BY <1>8 DEF Fetch, Store, StoreFails, Rollback, Clean, GetAllHistory, ConvertMined,
       ConvertPending, Merge, RecordsWritten, Restart, vars, records, services
  <2> QED BY <1>7, <2>1
<1>9. CASE \E t \in Own : Send(t) \/ Reject(t)
  BY <1>2, <1>9
<1>10. CASE \E t \in Tx : SendToPool(t) \/ LeavePool(t)
  BY <1>3, <1>4, <1>10
<1>11. CASE \E t \in Own : JobSent(t) \/ JobFailed(t) \/ JobReverted(t)
  BY <1>6, <1>11
<1> QED BY <1>5, <1>8, <1>9, <1>10, <1>11 DEF Next

\* A transaction is only settled as rejected once its job is over, and a job that is over stays so.
LEMMA OverKept == Typed /\ Placed /\ SentOwn /\ OverTrue /\ [Next]_vars => OverTrue'
<1> SUFFICES ASSUME Typed, Placed, SentOwn, OverTrue, [Next]_vars PROVE OverTrue'
  OBVIOUS
<1>1. ASSUME NEW t \in Own, Send(t) \/ Reject(t)
      PROVE  OverTrue'
  <2>1. UNCHANGED <<rec, failed, dbFailed>> /\ seq[t] \in {"new", "waiting"}
        /\ \E s \in {"waiting", "failed"} : seq' = [seq EXCEPT ![t] = s]
    BY <1>1 DEF Send, Reject, records, db
  <2>2. ~Over(t) /\ \A u \in Own : u # t => seq'[u] = seq[u]
    BY <2>1 DEF Placed, OverTrue
  <2> QED BY <2>1, <2>2 DEF OverTrue, Over
<1>2. ASSUME NEW t \in Tx, SendToPool(t) \/ LeavePool(t)
      PROVE  OverTrue'
  <2>1. UNCHANGED <<rec, failed, dbFailed>> /\ \A u \in Own : u # t => seq'[u] = seq[u]
    <3>1. UNCHANGED <<rec, failed, dbFailed>>
      BY <1>2 DEF SendToPool, LeavePool, records, db
    <3>2. seq' = seq \/ \E s : seq' = [seq EXCEPT ![t] = s]
      BY <1>2 DEF SendToPool, LeavePool
    <3> QED BY <3>1, <3>2 DEF Placed
  <2>2. t \in Own => seq[t] \in {"waiting", "sent"}
    <3>1. CASE SendToPool(t)
      BY <3>1 DEF SendToPool
    <3>2. CASE LeavePool(t)
      BY <3>2 DEF LeavePool, Placed
    <3> QED BY <1>2, <3>1, <3>2
  <2>3. t \in Own => ~Over(t)
    BY <2>2 DEF OverTrue
  <2> QED BY <2>1, <2>3 DEF OverTrue, Over
<1>3. CASE Mine1
  <2>1. UNCHANGED <<rec, failed, dbFailed>> /\ pend # <<>> /\ pend \in Seq(Tx)
        /\ seq' = [t \in Own |-> IF t = Head(pend) THEN "mined" ELSE seq[t]]
    BY <1>3 DEF Mine1, records, db, Typed
  <2>2. 1 \in DOMAIN pend /\ Head(pend) = pend[1]
    BY <2>1
  <2>3. pend[1] \in Own => ~Over(pend[1])
    BY <2>2 DEF Placed, OverTrue
  <2> QED BY <2>1, <2>2, <2>3 DEF OverTrue, Over
<1>4. ASSUME NEW t \in Own, JobSent(t)
      PROVE  OverTrue'
  <2>1. UNCHANGED <<seq, failed, dbFailed>> /\ (rec' = rec \/ rec' = [rec EXCEPT ![t].sends = sends[t]])
    BY <1>4 DEF JobSent, SetTxHash, services, db
  <2>2. \A u \in Own : rec'[u].state = rec[u].state
    BY <2>1 DEF Placed
  <2> QED BY <2>1, <2>2 DEF OverTrue, Over
<1>5. ASSUME NEW t \in Own, JobFailed(t) \/ JobReverted(t)
      PROVE  OverTrue'
  <2>1. seq' = seq /\ seq[t] \in {"failed", "reverted"}
        /\ failed' \subseteq failed \cup {t} /\ dbFailed' \subseteq dbFailed \cup {t}
    BY <1>5 DEF JobFailed, JobReverted, services
  <2>2. \E r : rec' = [rec EXCEPT ![t] = r]
    BY <1>5 DEF JobFailed, JobReverted
  <2>3. \A u \in Own : u # t => rec'[u] = rec[u]
    BY <2>2 DEF Placed
  <2> QED BY <2>1, <2>3 DEF OverTrue, Over
<1>6. CASE Clean \/ Restart
  <2>1. UNCHANGED <<seq, rec>> /\ failed' \cup dbFailed' \subseteq failed \cup dbFailed
    BY <1>6 DEF Clean, Restart
  <2> QED BY <2>1 DEF OverTrue, Over
<1>7. CASE \/ Fetch \/ Store \/ StoreFails \/ \E i \in Slots : Rollback(i)
           \/ GetAllHistory \/ ConvertMined \/ ConvertPending \/ Merge \/ RecordsWritten
           \/ UNCHANGED vars
  <2>1. UNCHANGED <<seq, rec, failed, dbFailed>>
    BY <1>7 DEF Fetch, Store, StoreFails, Rollback, GetAllHistory, ConvertMined,
       ConvertPending, Merge, RecordsWritten, vars, records, services, db
  <2> QED BY <2>1 DEF OverTrue, Over
<1> QED BY <1>1, <1>2, <1>3, <1>4, <1>5, <1>6, <1>7 DEF Next

-----------------------------------------------------------------------------
(* The memos and the slots they are of.                                    *)

\* What the slots hold.
LEMMA TxAtIs ==
    ASSUME Typed, NEW i \in Nat, i < Len(chain \o pend)
    PROVE  /\ Mined(i) => i + 1 \in DOMAIN chain /\ TxAt(i) = chain[i + 1]
           /\ ~Mined(i) => \E k \in DOMAIN pend : i = Len(chain) + k - 1 /\ TxAt(i) = pend[k]
           /\ TxAt(i) \in Tx
<1>1. chain \in Seq(Tx) /\ pend \in Seq(Tx) /\ Len(chain) \in Nat /\ Len(pend) \in Nat
  BY DEF Typed
<1>2. Len(chain \o pend) = Len(chain) + Len(pend)
      /\ \A j \in 1 .. (Len(chain) + Len(pend)) :
            (chain \o pend)[j] = IF j <= Len(chain) THEN chain[j] ELSE pend[j - Len(chain)]
  BY <1>1, ConcatProperties
<1>3. i + 1 \in 1 .. (Len(chain) + Len(pend))
  BY <1>1, <1>2
<1>4. CASE i < Len(chain)
  <2>1. i + 1 \in 1 .. Len(chain) /\ i + 1 <= Len(chain)
    BY <1>1, <1>4
  <2>2. TxAt(i) = chain[i + 1]
    BY <1>2, <1>3, <2>1 DEF TxAt
  <2> QED BY <1>1, <1>4, <2>1, <2>2 DEF Mined
<1>5. CASE ~(i < Len(chain))
  <2>1. i + 1 - Len(chain) \in 1 .. Len(pend) /\ ~(i + 1 <= Len(chain))
        /\ i = Len(chain) + (i + 1 - Len(chain)) - 1
    BY <1>1, <1>2, <1>5
  <2>2. TxAt(i) = pend[i + 1 - Len(chain)]
    BY <1>2, <1>3, <2>1 DEF TxAt
  <2>3. i + 1 - Len(chain) \in DOMAIN pend
    BY <1>1, <2>1
  <2>4. TxAt(i) \in Tx
    BY <1>1, <2>2, <2>3
  <2> QED BY <1>5, <2>1, <2>2, <2>3, <2>4 DEF Mined
<1> QED BY <1>4, <1>5

\* The memos a hot sync saves, and the two indexes it hands to the history.
Saves(i) == i \in SlotsFrom(next) /\ TxAt(i) \in Mine
\* What a state sync saves, memo by memo.
LEMMA FetchSaves ==
    ASSUME Typed, Fetch
    PROVE  /\ DOMAIN dbMemo \subseteq DOMAIN dbMemo'
           /\ \A i \in DOMAIN dbMemo' :
                 \/ i \in DOMAIN dbMemo /\ dbMemo'[i] = dbMemo[i]
                 \/ Saves(i) /\ Mined(i) /\ dbMemo'[i] = HashAt(i)
           /\ \A i \in DOMAIN dbPending' :
                 IF Saves(i) /\ ~Mined(i) THEN dbPending'[i] = HashAt(i)
                 ELSE i \in DOMAIN dbPending /\ dbPending'[i] = dbPending[i]
           /\ \A i \in DOMAIN unparsedPending' :
                 IF Saves(i) /\ ~Mined(i) THEN i \in DOMAIN dbPending' /\ unparsedPending'[i] = HashAt(i)
                 ELSE i \in DOMAIN unparsedPending /\ unparsedPending'[i] = unparsedPending[i]
           /\ DOMAIN dbPending \subseteq DOMAIN dbPending'
           /\ \A i \in SlotsFrom(next) : Mined(i) => i <= tops'.mined
           /\ tops'.pending \in SlotsFrom(next) \cup {-1}
<1> DEFINE seen   == SlotsFrom(next)
           ours   == {i \in seen : TxAt(i) \in Mine}
           mined  == [i \in {j \in ours : Mined(j)} |-> HashAt(i)]
           pending == [i \in {j \in ours : ~Mined(j)} |-> HashAt(i)]
           top(S) == IF S = {} THEN -1 ELSE Greatest(S)
           low    == {i \in seen : Mined(i)}
           high   == {i \in seen : ~Mined(i)}
<1>1. /\ tops' = IF seen = {} THEN [mined |-> next - 1, pending |-> -1]
                 ELSE [mined |-> top(low), pending |-> top(high)]
      /\ unparsedPending' = Overlay(unparsedPending, pending)
      /\ dbMemo' = Overlay(dbMemo, mined) /\ dbPending' = Overlay(dbPending, pending)
  BY Zenon DEF Fetch
<1>2. seen \subseteq Slots /\ low \subseteq seen /\ high \subseteq seen
  BY DEF SlotsFrom
<1>3. \A i \in low : i <= tops'.mined
  <2>1. CASE low = {}
    BY <2>1
  <2>2. CASE low # {}
    <3>1. tops'.mined = Greatest(low)
      BY <1>1, <2>2
    <3> QED BY <1>2, <2>2, <3>1, GreatestIs
  <2> QED BY <2>1, <2>2
<1>4. tops'.pending \in seen \cup {-1}
  <2>1. CASE seen = {}
    BY <1>1, <2>1
  <2>2. CASE seen # {} /\ high = {}
    BY <1>1, <2>2
  <2>3. CASE high # {}
    <3>1. tops'.pending = Greatest(high) /\ Greatest(high) \in high
      BY <1>1, <1>2, <2>3, GreatestIs
    <3> QED BY <3>1
  <2> QED BY <2>1, <2>2, <2>3
<1>5. DOMAIN mined = {i \in seen : Saves(i) /\ Mined(i)} /\ \A i \in DOMAIN mined : mined[i] = HashAt(i)
  BY DEF Saves
<1>6. DOMAIN pending = {i \in seen : Saves(i) /\ ~Mined(i)} /\ \A i \in DOMAIN pending : pending[i] = HashAt(i)
  BY DEF Saves
<1> HIDE DEF mined, pending, top
<1>7. DOMAIN dbMemo' = DOMAIN dbMemo \cup DOMAIN mined
      /\ (\A i \in DOMAIN mined : dbMemo'[i] = mined[i])
      /\ \A i \in DOMAIN dbMemo \ DOMAIN mined : dbMemo'[i] = dbMemo[i]
  <2>1. dbMemo' = Overlay(dbMemo, mined)
    BY <1>1
  <2> QED BY <2>1 DEF Overlay
<1>8. DOMAIN dbPending' = DOMAIN dbPending \cup DOMAIN pending
      /\ (\A i \in DOMAIN pending : dbPending'[i] = pending[i])
      /\ \A i \in DOMAIN dbPending \ DOMAIN pending : dbPending'[i] = dbPending[i]
  <2>1. dbPending' = Overlay(dbPending, pending)
    BY <1>1
  <2> QED BY <2>1 DEF Overlay
<1>9. DOMAIN unparsedPending' = DOMAIN unparsedPending \cup DOMAIN pending
      /\ (\A i \in DOMAIN pending : unparsedPending'[i] = pending[i])
      /\ \A i \in DOMAIN unparsedPending \ DOMAIN pending : unparsedPending'[i] = unparsedPending[i]
  <2>1. unparsedPending' = Overlay(unparsedPending, pending)
    BY <1>1
  <2> QED BY <2>1 DEF Overlay
<1>10. \A i : Saves(i) => i \in seen
  BY DEF Saves
<1> HIDE DEF seen, low, high
<1>11. \A i : Saves(i) /\ ~Mined(i) <=> i \in DOMAIN pending
  BY <1>6, <1>10
<1>12. \A i \in DOMAIN dbMemo' :
          \/ i \in DOMAIN dbMemo /\ dbMemo'[i] = dbMemo[i]
          \/ Saves(i) /\ Mined(i) /\ dbMemo'[i] = HashAt(i)
  BY <1>5, <1>7
<1>13. \A i \in DOMAIN dbPending' :
          IF Saves(i) /\ ~Mined(i) THEN dbPending'[i] = HashAt(i)
          ELSE i \in DOMAIN dbPending /\ dbPending'[i] = dbPending[i]
  BY <1>6, <1>8, <1>11
<1>14. \A i \in DOMAIN unparsedPending' :
          IF Saves(i) /\ ~Mined(i) THEN i \in DOMAIN dbPending' /\ unparsedPending'[i] = HashAt(i)
          ELSE i \in DOMAIN unparsedPending /\ unparsedPending'[i] = unparsedPending[i]
  BY <1>6, <1>8, <1>9, <1>11
<1>15. \A i \in SlotsFrom(next) : Mined(i) => i <= tops'.mined
  BY <1>3 DEF low, seen
<1>16. tops'.pending \in SlotsFrom(next) \cup {-1}
  BY <1>4 DEF seen
<1> QED BY <1>7, <1>8, <1>12, <1>13, <1>14, <1>15, <1>16

\* A mined memo stays the one of its slot.
LEMMA MemosPlacedKept ==
    Typed /\ MemosMined /\ MemosPlaced /\ [Next]_vars => MemosPlaced'
<1> SUFFICES ASSUME Typed, MemosMined, MemosPlaced, [Next]_vars PROVE MemosPlaced'
  OBVIOUS
<1>1. chain \in Seq(Tx) /\ pend \in Seq(Tx) /\ sends \in [Tx -> Nat] /\ Len(chain) \in Nat
      /\ \A i \in DOMAIN dbMemo : i \in Nat /\ i + 1 \in DOMAIN chain
  BY DEF Typed, Slots, MemosMined
<1>2. ASSUME NEW t \in Tx, SendToPool(t)
      PROVE  MemosPlaced'
  <2>1. UNCHANGED <<chain, dbMemo>> /\ sends' = [sends EXCEPT ![t] = @ + 1] /\ ~Contains(chain \o pend, t)
    BY <1>2 DEF SendToPool, db
  <2>2. ~Contains(chain, t)
    BY <1>1, <2>1, ConcatProperties DEF Contains
  <2>3. \A i \in DOMAIN chain : chain[i] # t /\ chain[i] \in Tx
    BY <1>1, <2>2 DEF Contains
  <2> QED BY <1>1, <2>1, <2>3 DEF MemosPlaced, MemoAt
<1>3. CASE Mine1
  <2>1. UNCHANGED <<sends, dbMemo>> /\ pend # <<>> /\ chain' = Append(chain, Head(pend))
    BY <1>3 DEF Mine1, db
  <2>2. Head(pend) \in Tx
    BY <1>1, <2>1
  <2>3. \A i \in DOMAIN chain : chain'[i] = chain[i]
    BY <1>1, <2>1, <2>2
  <2> QED BY <1>1, <2>1, <2>3 DEF MemosPlaced, MemoAt
<1>4. CASE Fetch
  <2>1. UNCHANGED <<chain, sends>>
    BY <1>4 DEF Fetch
  <2> SUFFICES ASSUME NEW i \in DOMAIN dbMemo', Saves(i), Mined(i), dbMemo'[i] = HashAt(i)
               PROVE  MemoAt(i)'
    BY <1>4, <2>1, FetchSaves DEF MemosPlaced, MemoAt
  <2>2. i \in Nat /\ i < Len(chain \o pend)
    BY DEF Saves, SlotsFrom, Slots
  <2> QED BY <2>1, <2>2, TxAtIs DEF MemoAt, HashAt
<1>5. CASE \E k \in Slots : Rollback(k)
  <2>1. PICK k \in Slots : Rollback(k)
    BY <1>5
  <2>2. UNCHANGED <<chain, sends>> /\ dbMemo' = Without(dbMemo, {j \in Slots : j >= k})
    BY <2>1 DEF Rollback
  <2>3. \A i \in DOMAIN dbMemo' : i \in DOMAIN dbMemo /\ dbMemo'[i] = dbMemo[i]
    BY <2>2 DEF Without
  <2> QED BY <2>2, <2>3 DEF MemosPlaced, MemoAt
<1>6. CASE Clean
  BY <1>6, EmptyIs DEF Clean, MemosPlaced
<1>7. CASE UNCHANGED <<chain, sends, dbMemo>>
  BY <1>7 DEF MemosPlaced, MemoAt
<1>8. CASE \/ \E t \in Own : Send(t) \/ Reject(t) \/ JobSent(t) \/ JobFailed(t) \/ JobReverted(t)
           \/ \E t \in Tx : LeavePool(t)
           \/ Store \/ StoreFails
           \/ GetAllHistory \/ ConvertMined \/ ConvertPending \/ Merge \/ RecordsWritten \/ Restart
           \/ UNCHANGED vars
  <2>1. UNCHANGED <<chain, sends, dbMemo>>
    BY <1>8 DEF Send, Reject, JobSent, JobFailed, JobReverted, LeavePool, Store, StoreFails,
       GetAllHistory, ConvertMined, ConvertPending, Merge, RecordsWritten, Restart, vars, services, db
  <2> QED BY <1>7, <2>1
<1> QED BY <1>2, <1>3, <1>4, <1>5, <1>6, <1>8 DEF Next

\* A memo that stays pending is of no transaction with a mined memo: the one that takes the slot of a pending memo overwrites it, and the two indexes trim the others.
LEMMA ApartKept ==
    ASSUME Untimely = {}, MemoInv, MemoInv', Placed, MemosPlaced', PendingApart, [Next]_vars
    PROVE  PendingApart'
<1>1. chain \in Seq(Tx) /\ pend \in Seq(Tx) /\ Len(chain) \in Nat /\ Typed /\ next \in Nat
      /\ tops.mined \in Int /\ DOMAIN dbPending \subseteq Slots /\ DOMAIN dbPending' \subseteq Slots
  BY DEF MemoInv, Typed
<1>2. ASSUME NEW t \in Tx, SendToPool(t) \/ LeavePool(t)
      PROVE  PendingApart'
  <2>1. UNCHANGED <<chain, feed, tops, unparsedPending, dbPending, dbMemo>> /\ Undisturbed(pend')
    BY <1>2 DEF SendToPool, LeavePool, memos, db
  <2>2. \A k \in DOMAIN pend' : pend'[k] \in Others => Len(chain) + k - 1 \notin DOMAIN dbPending
    BY <2>1 DEF Undisturbed
  <2> QED BY <2>1, <2>2 DEF PendingApart, Trimmed
<1>3. CASE Mine1
  <2>1. UNCHANGED <<feed, tops, unparsedPending, dbPending, dbMemo>> /\ pend # <<>>
        /\ chain' = Append(chain, Head(pend)) /\ pend' = Tail(pend)
    BY <1>3 DEF Mine1, memos, db
  <2>2. Len(chain') = Len(chain) + 1 /\ DOMAIN pend' = 1 .. (Len(pend) - 1) /\ DOMAIN pend = 1 .. Len(pend)
        /\ Len(pend) \in Nat /\ \A k \in DOMAIN pend' : pend'[k] = pend[k + 1]
    BY <1>1, <2>1
  <2>3. ASSUME NEW k \in DOMAIN pend', pend'[k] \in Others
        PROVE  Len(chain') + k - 1 \notin DOMAIN dbPending
    <3>1. k \in 1 .. (Len(pend) - 1)
      BY <2>2, <2>3
    <3>2. k + 1 \in 1 .. Len(pend) /\ Len(chain') + k - 1 = Len(chain) + (k + 1) - 1
      BY <1>1, <2>2, <3>1
    <3>3. k + 1 \in DOMAIN pend /\ pend[k + 1] \in Others
      BY <2>2, <2>3, <3>2
    <3> QED BY <3>2, <3>3 DEF PendingApart
  <2> QED BY <2>1, <2>3 DEF PendingApart, Trimmed
<1>4. CASE Fetch
  <2>1. UNCHANGED <<chain, pend, next, sends>> /\ feed' = "fetched"
    BY <1>4 DEF Fetch
  <2>2. /\ \A i \in DOMAIN dbPending' :
              IF Saves(i) /\ ~Mined(i) THEN dbPending'[i] = HashAt(i)
              ELSE i \in DOMAIN dbPending /\ dbPending'[i] = dbPending[i]
        /\ \A i \in DOMAIN unparsedPending' :
              IF Saves(i) /\ ~Mined(i) THEN i \in DOMAIN dbPending' /\ unparsedPending'[i] = HashAt(i)
              ELSE i \in DOMAIN unparsedPending /\ unparsedPending'[i] = unparsedPending[i]
        /\ DOMAIN dbPending \subseteq DOMAIN dbPending'
        /\ \A i \in SlotsFrom(next) : Mined(i) => i <= tops'.mined
        /\ tops'.pending \in SlotsFrom(next) \cup {-1}
    BY <1>1, <1>4, FetchSaves
  <2>3. \A i \in SlotsFrom(next) : i \in Nat /\ i < Len(chain \o pend)
    BY DEF SlotsFrom, Slots
  <2>4. tops'.pending \in Int /\ tops'.mined \in Int
    BY <2>2, <2>3 DEF MemoInv, Typed
  <2>5. \A i \in DOMAIN unparsedPending' : i \in DOMAIN dbPending' /\ unparsedPending'[i] = dbPending'[i]
    BY <2>2 DEF PendingApart
  <2>6. ASSUME NEW k \in DOMAIN pend, pend[k] \in Others, Len(chain) + k - 1 \in DOMAIN dbPending'
        PROVE  FALSE
    <3> DEFINE i == Len(chain) + k - 1
    <3>1. Saves(i) /\ ~Mined(i)
      BY <2>2, <2>6 DEF PendingApart
    <3>2. i \in Nat /\ i < Len(chain \o pend) /\ TxAt(i) \in Mine
      BY <2>3, <3>1 DEF Saves
    <3>3. PICK k2 \in DOMAIN pend : i = Len(chain) + k2 - 1 /\ TxAt(i) = pend[k2]
      BY <1>1, <3>1, <3>2, TxAtIs
    <3>4. k2 = k
      BY <1>1, <3>3
    <3>5. pend[k] \in Mine
      BY <3>2, <3>3, <3>4
    <3> QED BY <2>6, <3>5 DEF HistoryAssumption, Mine
  <2>7. ASSUME NEW i \in DOMAIN dbPending', tops'.mined < i, i <= tops'.pending, NEW j \in DOMAIN dbMemo'
        PROVE  dbMemo'[j][1] # dbPending'[i][1]
    <3>1. i \in Nat /\ next <= i /\ i \in Slots
      BY <1>1, <2>1 DEF MemoInv, PendingAbove, Slots
    <3>2. i < Len(chain \o pend)
      <4>1. tops'.pending \in SlotsFrom(next)
        BY <2>2, <2>7, <3>1
      <4>2. tops'.pending < Len(chain \o pend) /\ tops'.pending \in Nat
        BY <2>3, <4>1
      <4>3. Len(chain \o pend) \in Nat
        BY <1>1, ConcatProperties
      <4> QED BY <2>7, <3>1, <4>2, <4>3
    <3>3. i \in SlotsFrom(next)
      BY <3>1, <3>2 DEF SlotsFrom
    <3>4. ~Mined(i)
      BY <2>2, <2>4, <2>7, <3>1, <3>3
    <3>5. PICK k \in DOMAIN pend : i = Len(chain) + k - 1 /\ TxAt(i) = pend[k]
      BY <1>1, <3>1, <3>2, <3>4, TxAtIs
    <3>6. TxAt(i) \in Mine
      <4>1. TxAt(i) \in Tx
        BY <1>1, <3>1, <3>2, TxAtIs
      <4>2. TxAt(i) \notin Others
        BY <2>6, <3>5
      <4> QED BY <4>1, <4>2 DEF Tx
    <3>7. dbPending'[i][1] = pend[k]
      BY <2>2, <3>3, <3>4, <3>5, <3>6 DEF Saves, HashAt
    <3>8. dbMemo'[j][1] = chain[j + 1] /\ j + 1 \in DOMAIN chain
      BY <1>1, <2>1, SMTT(30) DEF MemosPlaced, MemoAt, MemoInv, MemosMined, Typed, Slots
    <3> QED BY <3>7, <3>8 DEF Placed
  <2>8. \A k \in DOMAIN pend' : pend'[k] \in Others => Len(chain') + k - 1 \notin DOMAIN dbPending'
    BY <2>1, <2>6
  <2>9. \A i \in DOMAIN dbPending' : ~Trimmed(i)' => \A j \in DOMAIN dbMemo' : dbMemo'[j][1] # dbPending'[i][1]
    BY <2>1, <2>7 DEF Trimmed
  <2> QED BY <2>4, <2>5, <2>8, <2>9 DEF PendingApart
<1>5. CASE Store
  <2>1. /\ feed = "fetched" /\ feed' = "idle" /\ UNCHANGED <<chain, pend, tops, dbMemo>>
        /\ unparsedPending' = Without(unparsedPending,
              {i \in DOMAIN unparsedPending : i <= tops.mined \/ i > tops.pending})
        /\ dbPending' = Without(dbPending, {i \in DOMAIN dbPending : i <= tops.mined \/ i > tops.pending})
    BY <1>5 DEF Store
  <2>2. /\ DOMAIN unparsedPending' = {i \in DOMAIN unparsedPending : ~(i <= tops.mined \/ i > tops.pending)}
        /\ \A i \in DOMAIN unparsedPending' : unparsedPending'[i] = unparsedPending[i]
    BY <2>1 DEF Without
  <2>3. /\ DOMAIN dbPending' = {i \in DOMAIN dbPending : ~(i <= tops.mined \/ i > tops.pending)}
        /\ \A i \in DOMAIN dbPending' : dbPending'[i] = dbPending[i]
    BY <2>1 DEF Without
  <2>4. \A i \in DOMAIN unparsedPending' : i \in DOMAIN dbPending' /\ unparsedPending'[i] = dbPending'[i]
    BY <2>2, <2>3 DEF PendingApart
  <2>5. \A i \in DOMAIN dbPending' : ~Trimmed(i)
    BY <1>1, <2>3 DEF PendingApart, Trimmed, Slots
  <2>6. \A i \in DOMAIN dbPending' : \A j \in DOMAIN dbMemo' : dbMemo'[j][1] # dbPending'[i][1]
    BY <2>1, <2>3, <2>5 DEF PendingApart
  <2> QED BY <2>1, <2>4, <2>6, <2>3 DEF PendingApart
<1>6. CASE \E k \in Slots : Rollback(k)
  <2>1. PICK k \in Slots : Rollback(k)
    BY <1>6
  <2> DEFINE gone == {j \in Slots : j >= k}
  <2>2. UNCHANGED <<chain, pend, feed, tops>> /\ dbMemo' = Without(dbMemo, gone)
        /\ dbPending' = Without(dbPending, gone) /\ unparsedPending' = Without(unparsedPending, gone)
    BY <2>1 DEF Rollback
  <2>3. \A i \in DOMAIN dbMemo' : i \in DOMAIN dbMemo /\ dbMemo'[i] = dbMemo[i]
    BY <2>2 DEF Without
  <2>4. DOMAIN dbPending' = DOMAIN dbPending \ gone /\ \A i \in DOMAIN dbPending' : dbPending'[i] = dbPending[i]
    BY <2>2 DEF Without
  <2>5. DOMAIN unparsedPending' = DOMAIN unparsedPending \ gone
        /\ \A i \in DOMAIN unparsedPending' : unparsedPending'[i] = unparsedPending[i]
    BY <2>2 DEF Without
  <2> HIDE DEF gone
  <2> QED BY <2>2, <2>3, <2>4, <2>5 DEF PendingApart, Trimmed
<1>7. CASE Clean
  <2>1. DOMAIN dbPending' = {} /\ DOMAIN unparsedPending' = {} /\ UNCHANGED <<chain, pend, tops>>
    BY <1>7, EmptyIs DEF Clean
  <2> QED BY <2>1 DEF PendingApart
<1>8. CASE StoreFails \/ Restart
  <2>1. feed' = "failed" /\ UNCHANGED <<chain, pend, tops, dbPending>>
        /\ \A i \in DOMAIN unparsedPending' :
              \/ i \in DOMAIN unparsedPending /\ unparsedPending'[i] = unparsedPending[i]
              \/ i \in DOMAIN dbPending /\ unparsedPending'[i] = dbPending[i]
    <3>1. CASE StoreFails
      BY <3>1 DEF StoreFails, memos, db
    <3>2. CASE Restart
      BY <3>2 DEF Restart
    <3> QED BY <1>8, <3>1, <3>2
  <2> QED BY <2>1 DEF PendingApart
<1>9. CASE UNCHANGED <<chain, pend, feed, tops, unparsedPending, dbPending, dbMemo>>
  BY <1>9 DEF PendingApart, Trimmed
<1>10. CASE \/ \E t \in Own : Send(t) \/ Reject(t) \/ JobSent(t) \/ JobFailed(t) \/ JobReverted(t)
            \/ GetAllHistory \/ ConvertMined \/ ConvertPending \/ Merge \/ RecordsWritten
            \/ UNCHANGED vars
  <2>1. UNCHANGED <<chain, pend, feed, tops, unparsedPending, dbPending, dbMemo>>
    BY <1>10 DEF Send, Reject, JobSent, JobFailed, JobReverted,
       GetAllHistory, ConvertMined, ConvertPending, Merge, RecordsWritten, vars, services, memos, db
  <2> QED BY <1>9, <2>1
<1> QED BY <1>2, <1>3, <1>4, <1>5, <1>6, <1>7, <1>8, <1>10 DEF Next

-----------------------------------------------------------------------------
(* The list.                                                               *)

\* Nothing is added when a pending record is removed.
LEMMA RemoveOnly ==
    ASSUME NEW t, NEW h, RemovePendingRecord(t, h)
    PROVE  \A i \in DOMAIN current' : i \in DOMAIN current /\ current'[i] = current[i]
<1>1. current' = current \/ \E i \in DOMAIN current : current' = Without(current, {i})
  BY DEF RemovePendingRecord
<1>2. CASE current' = current
  BY <1>2
<1>3. ASSUME NEW j \in DOMAIN current, current' = Without(current, {j})
      PROVE  \A i \in DOMAIN current' : i \in DOMAIN current /\ current'[i] = current[i]
  BY <1>3 DEF Without
<1> QED BY <1>1, <1>2, <1>3

\* The list a history sync starts from has only settled records of the last one.
LEMMA KeptIs == \A i \in DOMAIN Kept : i \in DOMAIN current /\ i \in Settled /\ Kept[i] = current[i]
<1>1. Settled \subseteq DOMAIN current
  BY DEF Settled
<1> QED BY <1>1 DEF Kept, Without

\* What a conversion brings, entry by entry.
LEMMA BuiltEntry ==
    ASSUME NEW from, NEW out, NEW kind, NEW i \in DOMAIN Built(from, out, kind)
    PROVE  /\ i \in DOMAIN out /\ out[i] # "none"
           /\ Built(from, out, kind)[i] = Record(IF out[i] = "local" THEN "local" ELSE kind, from[i])
BY DEF Built

\* The list a history sync ends with.
LEMMA MergeMakes ==
    ASSUME MemoInv, Merge
    PROVE  /\ \A i \in DOMAIN current' :
                 \/ /\ i \in DOMAIN unparsed /\ got.mined[i] \in {"full", "partial"}
                    /\ current'[i] = Record("mined", unparsed[i])
                 \/ /\ i \in DOMAIN unparsedPending
                    /\ current'[i] = Record(IF got.pending[i] = "local" THEN "local" ELSE "pending",
                                            unparsedPending[i])
                 \/ i \in DOMAIN current /\ i \in Settled /\ current'[i] = current[i]
           /\ \A i \in DOMAIN unparsed : got.mined[i] = "full" =>
                 i \in DOMAIN current' /\ current'[i] = Record("mined", unparsed[i])
           /\ \A i \in DOMAIN current \cap DOMAIN dbMemo : current[i] = Record("mined", dbMemo[i]) =>
                 i \in DOMAIN current' /\ current'[i] = current[i]
           /\ DOMAIN dbTx' \subseteq DOMAIN dbTx \cup DOMAIN unparsed
<1> DEFINE done   == With(got.mined, {"full", "partial"})
           first  == Built(asked.mined, got.mined, "mined")
           second == Built(asked.pending, got.pending, "pending")
<1>1. /\ hpc = "details" /\ got.mined # Waiting /\ got.pending # Waiting
      /\ current' = Overlay(Kept, Overlay(first, second))
      /\ dbTx' = Overlay(dbTx, [i \in done |-> asked.mined[i]])
  BY Zenon DEF Merge
<1>2. /\ asked.mined = unparsed /\ asked.pending = unparsedPending /\ feed = "idle"
      /\ DOMAIN got.mined = DOMAIN unparsed /\ DOMAIN got.pending = DOMAIN unparsedPending
      /\ \A i \in DOMAIN unparsed : got.mined[i] \in {"full", "partial", "none"}
  BY <1>1 DEF MemoInv, Working
<1>3. \A i \in DOMAIN dbMemo : i \notin DOMAIN unparsedPending
  <2> SUFFICES ASSUME NEW i \in DOMAIN dbMemo, i \in DOMAIN unparsedPending PROVE FALSE
    OBVIOUS
  <2>1. i \in Slots /\ i < next /\ next \in Nat /\ next <= i
    BY <1>2 DEF MemoInv, Typed, MemosMined, PendingAbove
  <2> QED BY <2>1 DEF Slots
<1>4. \A i \in DOMAIN unparsed : i \in DOMAIN dbMemo /\ unparsed[i] = dbMemo[i]
  BY DEF MemoInv, WaitingSaved
<1>5. \A i \in DOMAIN first : i \in DOMAIN unparsed /\ got.mined[i] \in {"full", "partial"}
                             /\ first[i] = Record("mined", unparsed[i])
  <2> SUFFICES ASSUME NEW i \in DOMAIN first
               PROVE  i \in DOMAIN unparsed /\ got.mined[i] \in {"full", "partial"}
                      /\ first[i] = Record("mined", unparsed[i])
    OBVIOUS
  <2>1. i \in DOMAIN got.mined /\ got.mined[i] # "none"
        /\ first[i] = Record(IF got.mined[i] = "local" THEN "local" ELSE "mined", asked.mined[i])
    BY BuiltEntry
  <2> QED BY <1>2, <2>1
<1>6. \A i \in DOMAIN second : i \in DOMAIN unparsedPending
          /\ second[i] = Record(IF got.pending[i] = "local" THEN "local" ELSE "pending", unparsedPending[i])
  BY <1>2, BuiltEntry
<1>7. \A i \in DOMAIN unparsed : got.mined[i] = "full" => i \in DOMAIN first
  BY <1>2, BuiltIs
<1>9. done \subseteq DOMAIN unparsed
  BY <1>2 DEF With
<1> HIDE DEF done, first, second
<1>10. /\ DOMAIN current' = DOMAIN Kept \cup DOMAIN first \cup DOMAIN second
       /\ \A i \in DOMAIN second : current'[i] = second[i]
       /\ \A i \in DOMAIN first \ DOMAIN second : current'[i] = first[i]
       /\ \A i \in DOMAIN Kept \ (DOMAIN first \cup DOMAIN second) : current'[i] = Kept[i]
  <2>1. current' = Overlay(Kept, Overlay(first, second))
    BY <1>1
  <2> QED BY <2>1 DEF Overlay
<1>11. ASSUME NEW i \in DOMAIN current'
       PROVE  \/ /\ i \in DOMAIN unparsed /\ got.mined[i] \in {"full", "partial"}
                 /\ current'[i] = Record("mined", unparsed[i])
              \/ /\ i \in DOMAIN unparsedPending
                 /\ current'[i] = Record(IF got.pending[i] = "local" THEN "local" ELSE "pending",
                                         unparsedPending[i])
              \/ i \in DOMAIN current /\ i \in Settled /\ current'[i] = current[i]
  <2>1. CASE i \in DOMAIN second
    <3>1. current'[i] = second[i]
      BY <1>10, <2>1
    <3> QED BY <1>6, <2>1, <3>1
  <2>2. CASE i \in DOMAIN first \ DOMAIN second
    <3>1. current'[i] = first[i]
      BY <1>10, <2>2
    <3> QED BY <1>5, <2>2, <3>1
  <2>3. CASE i \in DOMAIN Kept \ (DOMAIN first \cup DOMAIN second)
    <3>1. current'[i] = Kept[i]
      BY <1>10, <2>3
    <3> QED BY <2>3, <3>1, KeptIs
  <2> QED BY <1>10, <2>1, <2>2, <2>3
<1>12. ASSUME NEW i \in DOMAIN unparsed, got.mined[i] = "full"
       PROVE  i \in DOMAIN current' /\ current'[i] = Record("mined", unparsed[i])
  <2>1. i \in DOMAIN first \ DOMAIN second
    BY <1>3, <1>4, <1>6, <1>7, <1>12
  <2> QED BY <1>5, <1>10, <2>1
<1>13. ASSUME NEW i \in DOMAIN current \cap DOMAIN dbMemo, current[i] = Record("mined", dbMemo[i])
       PROVE  i \in DOMAIN current' /\ current'[i] = current[i]
  <2>1. i \in DOMAIN Kept /\ Kept[i] = current[i] /\ i \notin DOMAIN second
    BY <1>3, <1>6, <1>13, KeptKeepsMined, RecordIs
  <2>2. CASE i \in DOMAIN first
    <3>1. first[i] = current[i]
      BY <1>4, <1>5, <1>13, <2>2
    <3> QED BY <1>10, <2>1, <2>2, <3>1
  <2>3. CASE i \notin DOMAIN first
    BY <1>10, <2>1, <2>3
  <2> QED BY <2>2, <2>3
<1>14. DOMAIN dbTx' \subseteq DOMAIN dbTx \cup DOMAIN unparsed
  <2>1. DOMAIN dbTx' = DOMAIN dbTx \cup done
    BY <1>1 DEF Overlay
  <2> QED BY <1>9, <2>1
<1> QED BY <1>11, <1>12, <1>13, <1>14

\* No step shows as mined what no mined memo tells, or as local what is not own.
LEMMA ListTrueKept ==
    ASSUME Untimely = {}, MemoInv, MemosPlaced, MemosPlaced', SentOwn, ListTrue, [Next]_vars
    PROVE  ListTrue'
<1>1. Typed /\ Working /\ WaitingSaved /\ RecordsSaved
  BY DEF MemoInv
<1>2. ASSUME NEW t \in Own, JobReverted(t)
      PROVE  ListTrue'
  <2>1. UNCHANGED <<dbTx, dbMemo, hpc, got, unparsedPending>>
    BY <1>2 DEF JobReverted, running, memos
  <2>2. \A i \in DOMAIN current' : i \in DOMAIN current /\ current'[i] = current[i]
    <3>1. \E h : RemovePendingRecord(t, h)
      BY <1>2 DEF JobReverted
    <3> QED BY <3>1, RemoveOnly
  <2> QED BY <2>1, <2>2 DEF ListTrue
<1>3. CASE Fetch
  <2>1. hpc' = "idle" /\ UNCHANGED <<dbTx, current, chain, sends>>
    BY <1>3 DEF Fetch, running
  <2>2. DOMAIN dbMemo \subseteq DOMAIN dbMemo'
    BY <1>1, <1>3, FetchSaves
  <2>3. \A i \in DOMAIN dbMemo : dbMemo'[i] = dbMemo[i]
    BY <2>1, <2>2 DEF MemosPlaced, MemoAt
  <2> QED BY <2>1, <2>2, <2>3 DEF ListTrue
<1>4. CASE Store
  <2>1. hpc' # "details" /\ UNCHANGED <<dbTx, dbMemo, current>>
    BY <1>1, <1>4 DEF Store, Working, running
  <2> QED BY <2>1 DEF ListTrue
<1>5. CASE \E k \in Slots : Rollback(k)
  <2>1. PICK k \in Slots : Rollback(k)
    BY <1>5
  <2> DEFINE gone == {j \in Slots : j >= k}
  <2>2. hpc' = "idle" /\ dbMemo' = Without(dbMemo, gone) /\ dbTx' = Without(dbTx, gone)
        /\ current' = Without(current, gone)
    BY <2>1 DEF Rollback, running
  <2> HIDE DEF gone
  <2>3. DOMAIN dbMemo' = DOMAIN dbMemo \ gone /\ \A i \in DOMAIN dbMemo' : dbMemo'[i] = dbMemo[i]
    BY <2>2 DEF Without
  <2>4. DOMAIN dbTx' = DOMAIN dbTx \ gone
    BY <2>2 DEF Without
  <2>5. DOMAIN current' = DOMAIN current \ gone /\ \A i \in DOMAIN current' : current'[i] = current[i]
    BY <2>2 DEF Without
  <2> QED BY <2>2, <2>3, <2>4, <2>5 DEF ListTrue
<1>6. CASE Clean
  <2>1. hpc' = "idle" /\ DOMAIN current' = {} /\ DOMAIN dbTx' = {}
    BY <1>6, EmptyIs DEF Clean, running
  <2> QED BY <2>1 DEF ListTrue
<1>7. CASE GetAllHistory
  <2>1. UNCHANGED <<dbTx, dbMemo>> /\ got' = NotGot /\ (current' = current \/ current' = Kept)
    BY <1>7 DEF GetAllHistory, db
  <2>2. \A i \in DOMAIN current' : i \in DOMAIN current /\ current'[i] = current[i]
    BY <2>1, KeptIs
  <2> QED BY <2>1, <2>2, NotGotIs DEF ListTrue
<1>8. CASE ConvertMined
  <2>1. UNCHANGED <<dbTx, dbMemo, current, hpc, unparsedPending>> /\ got'.pending = got.pending
    BY <1>1, <1>8 DEF ConvertMined, memos, db, Typed
  <2> QED BY <2>1 DEF ListTrue
<1>9. CASE ConvertPending
  <2>1. UNCHANGED <<dbTx, dbMemo, current, hpc, unparsedPending>> /\ hpc = "details"
    BY <1>9 DEF ConvertPending, memos, db
  <2>2. PICK out \in [DOMAIN asked.pending -> Outcome] :
            /\ \A i \in DOMAIN out : out[i] \in Answers(asked.pending[i], TRUE)
            /\ got' = [got EXCEPT !.pending = out]
    BY <1>9, Zenon DEF ConvertPending
  <2>3. got'.pending = out /\ asked.pending = unparsedPending
    BY <1>1, <2>1, <2>2 DEF Typed, Working
  <2>4. ASSUME NEW i \in DOMAIN unparsedPending, out[i] = "local"
        PROVE  unparsedPending[i][1] \in Own
    <3>1. "local" \in Answers(unparsedPending[i], TRUE)
      BY <2>2, <2>3, <2>4
    <3>2. unparsedPending[i] \in sent
      BY <3>1 DEF Answers
    <3> QED BY <3>2 DEF SentOwn
  <2> QED BY <2>1, <2>3, <2>4 DEF ListTrue
<1>10. CASE Merge
  <2>1. UNCHANGED <<dbMemo, unparsedPending>> /\ got' = NotGot /\ hpc = "details" /\ got.pending # Waiting
    BY <1>10 DEF Merge
  <2>2. DOMAIN dbTx' \subseteq DOMAIN dbMemo
    BY <1>1, <1>10, MergeMakes DEF ListTrue, WaitingSaved
  <2>3. ASSUME NEW i \in DOMAIN current'
        PROVE  /\ current'[i].kind \in {"mined", "pending", "local"}
               /\ current'[i].kind = "mined" => i \in DOMAIN dbMemo /\ current'[i] = Record("mined", dbMemo[i])
               /\ current'[i].kind = "local" => current'[i].hash[1] \in Own
    <3>1. CASE i \in DOMAIN unparsed /\ current'[i] = Record("mined", unparsed[i])
      BY <1>1, <3>1, RecordIs DEF WaitingSaved
    <3>2. CASE i \in DOMAIN unparsedPending
               /\ current'[i] = Record(IF got.pending[i] = "local" THEN "local" ELSE "pending",
                                       unparsedPending[i])
      <4>1. CASE got.pending[i] = "local"
        <5>1. current'[i] = Record("local", unparsedPending[i])
          BY <3>2, <4>1
        <5> QED BY <2>1, <3>2, <4>1, <5>1, RecordIs DEF ListTrue
      <4>2. CASE got.pending[i] # "local"
        <5>1. current'[i] = Record("pending", unparsedPending[i])
          BY <3>2, <4>2
        <5> QED BY <5>1, RecordIs
      <4> QED BY <4>1, <4>2
    <3>3. CASE i \in DOMAIN current /\ current'[i] = current[i]
      BY <3>3 DEF ListTrue
    <3> QED BY <1>10, <3>1, <3>2, <3>3, MergeMakes
  <2> QED BY <2>1, <2>2, <2>3, NotGotIs DEF ListTrue
<1>11. CASE Restart
  <2>1. hpc' = "idle" /\ dbMemo' = dbMemo /\ (\E lost : dbTx' = Without(dbTx, lost))
        /\ current' = [i \in DOMAIN dbTx' |-> Record("mined", dbTx'[i])]
    BY <1>11 DEF Restart
  <2>2. DOMAIN dbTx' \subseteq DOMAIN dbTx /\ \A i \in DOMAIN dbTx' : dbTx'[i] = dbTx[i]
    BY <2>1 DEF Without
  <2>3. ASSUME NEW i \in DOMAIN current'
        PROVE  i \in DOMAIN dbMemo /\ current'[i] = Record("mined", dbMemo[i])
    BY <1>1, <2>1, <2>2 DEF ListTrue, RecordsSaved
  <2>4. \A i \in DOMAIN current' : current'[i].kind = "mined"
    BY <2>3, RecordIs
  <2> QED BY <2>1, <2>2, <2>3, <2>4 DEF ListTrue
<1>12. CASE UNCHANGED <<dbTx, dbMemo, current, hpc, got, unparsedPending>>
  BY <1>12 DEF ListTrue
<1>13. CASE \/ \E t \in Own : Send(t) \/ Reject(t) \/ JobSent(t) \/ JobFailed(t)
            \/ \E t \in Tx : SendToPool(t) \/ LeavePool(t)
            \/ Mine1 \/ StoreFails \/ RecordsWritten \/ UNCHANGED vars
  <2>1. UNCHANGED <<dbTx, dbMemo, current, hpc, got, unparsedPending>>
    BY <1>13 DEF Send, Reject, JobSent, JobFailed, SendToPool, LeavePool, Mine1, StoreFails,
       RecordsWritten, vars, running, memos, db
  <2> QED BY <1>12, <2>1
<1> QED BY <1>2, <1>3, <1>4, <1>5, <1>6, <1>7, <1>8, <1>9, <1>10, <1>11, <1>13 DEF Next

\* What is shown as mined, or waits to be, is in the chain.
LEMMA SavedMined ==
    ASSUME Typed, MemosMined, MemosPlaced, Placed, NEW i \in DOMAIN dbMemo
    PROVE  /\ dbMemo[i] = <<dbMemo[i][1], sends[dbMemo[i][1]]>>
           /\ Contains(chain, dbMemo[i][1])
           /\ dbMemo[i][1] = chain[i + 1] /\ i + 1 \in DOMAIN chain
           /\ dbMemo[i][1] \in Own => seq[dbMemo[i][1]] = "mined"
<1>1. i + 1 \in DOMAIN chain /\ chain \in Seq(Tx)
  BY DEF Typed, MemosMined, Slots
<1>2. dbMemo[i] = <<chain[i + 1], sends[chain[i + 1]]>>
  BY DEF MemosPlaced, MemoAt
<1>3. dbMemo[i][1] = chain[i + 1]
  BY <1>2
<1>4. Contains(chain, chain[i + 1])
  BY <1>1 DEF Contains
<1>5. chain[i + 1] \in Own => seq[chain[i + 1]] = "mined"
  BY <1>1 DEF Placed
<1> QED BY <1>1, <1>2, <1>3, <1>4, <1>5

\* What is shown as mined, or about to, has left the sent and queued records, and no step brings it back.
LEMMA ClearedKept ==
    ASSUME Untimely = {}, MemoInv, MemosPlaced, Placed, SentOwn, SentOwn', ListTrue, Cleared, [Next]_vars
    PROVE  Cleared'
<1>1. Typed /\ MemosMined /\ Working /\ WaitingSaved
  BY DEF MemoInv
<1>2. ASSUME NEW t \in Own, Send(t)
      PROVE  Cleared'
  <2>1. UNCHANGED <<sent, current, hpc, got, unparsed>> /\ queued' = queued \cup {t} /\ seq[t] = "new"
    BY <1>2 DEF Send, running, memos
  <2>2. \A i \in DOMAIN dbMemo : dbMemo[i][1] # t
    BY <1>1, <2>1, SavedMined
  <2>3. \A u : Gone(u) /\ u # t => Gone(u)'
    BY <2>1 DEF Gone
  <2>4. \A i \in DOMAIN current : current[i].kind = "mined" => current[i].hash[1] # t
    BY <2>2, RecordIs DEF ListTrue
  <2>5. \A i \in DOMAIN unparsed : unparsed[i][1] # t
    BY <1>1, <2>2 DEF WaitingSaved
  <2> QED BY <2>1, <2>3, <2>4, <2>5 DEF Cleared
<1>3. ASSUME NEW t \in Own, JobSent(t)
      PROVE  Cleared'
  <2>1. UNCHANGED <<queued, current, hpc, got, unparsed>>
        /\ SetTxHash(t)
    BY <1>3 DEF JobSent, running, memos
  <2>2. ASSUME NEW u, Gone(u)
        PROVE  Gone(u)'
    <3>1. CASE t \in queued
      <4>1. sent' = sent \cup {<<t, sends[t]>>} /\ queued' = queued /\ u # t
        BY <2>1, <2>2, <3>1 DEF SetTxHash, Gone
      <4> QED BY <2>2, <4>1 DEF Gone
    <3>2. CASE t \notin queued
      <4>1. sent' = sent /\ queued' = queued
        BY <2>1, <3>2 DEF SetTxHash
      <4> QED BY <2>2, <4>1 DEF Gone
    <3> QED BY <3>1, <3>2
  <2> QED BY <2>1, <2>2 DEF Cleared
<1>4. ASSUME queued' \subseteq queued, sent' \subseteq sent,
             \A i \in DOMAIN current' : i \in DOMAIN current /\ current'[i] = current[i],
             \/ hpc' = "idle" \/ got'.mined = Waiting
             \/ UNCHANGED <<hpc, got, unparsed>>
      PROVE  Cleared'
  <2>1. \A u : Gone(u) => Gone(u)'
    BY <1>4 DEF Gone
  <2> QED BY <1>4, <2>1 DEF Cleared
<1>5. ASSUME NEW t \in Own, JobFailed(t) \/ JobReverted(t)
      PROVE  Cleared'
  <2>1. UNCHANGED <<hpc, got, unparsed>> /\ queued' \subseteq queued /\ sent' \subseteq sent
    BY <1>5 DEF JobFailed, JobReverted, running, memos
  <2>2. \A i \in DOMAIN current' : i \in DOMAIN current /\ current'[i] = current[i]
    <3>1. current' = current \/ \E h : RemovePendingRecord(t, h)
      BY <1>5 DEF JobFailed, JobReverted
    <3> QED BY <3>1, RemoveOnly
  <2> QED BY <1>4, <2>1, <2>2
<1>6. CASE Fetch
  <2>1. hpc' = "idle" /\ UNCHANGED <<current, queued, sent>>
    BY <1>6 DEF Fetch, running, records
  <2> QED BY <1>4, <2>1
<1>7. CASE \E k \in Slots : Rollback(k)
  <2>1. hpc' = "idle" /\ UNCHANGED <<queued, sent>> /\ \E S : current' = Without(current, S)
    BY <1>7 DEF Rollback, running, records
  <2>2. \A i \in DOMAIN current' : i \in DOMAIN current /\ current'[i] = current[i]
    BY <2>1 DEF Without
  <2> QED BY <1>4, <2>1, <2>2
<1>8. CASE Clean
  <2>1. hpc' = "idle" /\ UNCHANGED <<queued, sent>> /\ DOMAIN current' = {}
    BY <1>8, EmptyIs DEF Clean, running
  <2> QED BY <1>4, <2>1
<1>9. CASE GetAllHistory
  <2>1. got' = NotGot /\ UNCHANGED <<queued, sent>> /\ (current' = current \/ current' = Kept)
    BY <1>9 DEF GetAllHistory, records
  <2>2. \A i \in DOMAIN current' : i \in DOMAIN current /\ current'[i] = current[i]
    BY <2>1, KeptIs
  <2> QED BY <1>4, <2>1, <2>2, NotGotIs
<1>10. CASE ConvertMined
  <2>1. UNCHANGED <<current, hpc, unparsed>> /\ hpc = "details"
    BY <1>10 DEF ConvertMined, memos
  <2>2. PICK out \in [DOMAIN asked.mined -> Outcome] :
            /\ \A i \in DOMAIN out : out[i] \in Answers(asked.mined[i], FALSE)
            /\ got' = [got EXCEPT !.mined = out]
            /\ sent' = {h \in sent : h[1] \notin {asked.mined[i][1] : i \in {j \in DOMAIN out : out[j] = "full"}}}
            /\ queued' = queued \ {asked.mined[i][1] : i \in {j \in DOMAIN out : out[j] = "full"}}
    BY <1>10, Zenon DEF ConvertMined
  <2>3. got'.mined = out /\ asked.mined = unparsed /\ DOMAIN out = DOMAIN unparsed
    BY <1>1, <2>1, <2>2 DEF Typed, Working
  <2>4. ASSUME NEW i \in DOMAIN unparsed, out[i] = "full", NEW u, u = unparsed[i][1]
        PROVE  Gone(u)'
    <3> DEFINE done == {asked.mined[k][1] : k \in {j \in DOMAIN out : out[j] = "full"}}
    <3>1. u \in done
      BY <2>3, <2>4
    <3>2. sent' = {h \in sent : h[1] \notin done} /\ queued' = queued \ done
      BY <2>2
    <3> HIDE DEF done
    <3> QED BY <3>1, <3>2 DEF Gone
  <2>5. ASSUME NEW i \in DOMAIN unparsed, out[i] = "partial", NEW u, u = unparsed[i][1]
        PROVE  Gone(u)'
    <3>1. "partial" \in Answers(unparsed[i], FALSE)
      BY <2>2, <2>3, <2>5
    <3>2. unparsed[i][1] \in Deposits
      BY <3>1 DEF Answers
    <3>3. u \notin Own
      BY <2>5, <3>2 DEF HistoryAssumption
    <3>4. queued' \subseteq Own /\ \A h \in sent' : h[1] \in Own
      BY DEF SentOwn
    <3> QED BY <3>3, <3>4 DEF Gone
  <2>6. \A u : Gone(u) => Gone(u)'
    BY <2>2 DEF Gone
  <2> QED BY <2>1, <2>3, <2>4, <2>5, <2>6 DEF Cleared
<1>11. CASE ConvertPending
  <2>1. UNCHANGED <<current, queued, sent, hpc, unparsed>> /\ got'.mined = got.mined
    BY <1>1, <1>11 DEF ConvertPending, memos, records, Typed
  <2>2. \A u : Gone(u) = Gone(u)'
    BY <2>1 DEF Gone
  <2> QED BY <2>1, <2>2 DEF Cleared
<1>12. CASE Merge
  <2>1. UNCHANGED <<queued, sent>> /\ got' = NotGot /\ hpc = "details" /\ got.mined # Waiting
    BY <1>12 DEF Merge, records
  <2>2. \A u : Gone(u) = Gone(u)'
    BY <2>1 DEF Gone
  <2>3. ASSUME NEW i \in DOMAIN current', current'[i].kind = "mined"
        PROVE  Gone(current'[i].hash[1])
    <3>1. CASE i \in DOMAIN unparsed /\ got.mined[i] \in {"full", "partial"}
               /\ current'[i] = Record("mined", unparsed[i])
      BY <2>1, <3>1, RecordIs DEF Cleared
    <3>2. CASE i \in DOMAIN unparsedPending
               /\ current'[i] = Record(IF got.pending[i] = "local" THEN "local" ELSE "pending",
                                       unparsedPending[i])
      <4>1. current'[i].kind = IF got.pending[i] = "local" THEN "local" ELSE "pending"
        BY <3>2, RecordIs
      <4> QED BY <2>3, <4>1
    <3>3. CASE i \in DOMAIN current /\ current'[i] = current[i]
      BY <2>3, <3>3 DEF Cleared
    <3> QED BY <1>12, <3>1, <3>2, <3>3, MergeMakes
  <2> QED BY <2>1, <2>2, <2>3, NotGotIs DEF Cleared
<1>13. CASE Restart
  <2>1. hpc' = "idle" /\ queued' = {} /\ sent' = {}
    BY <1>13 DEF Restart
  <2> QED BY <2>1 DEF Cleared, Gone
<1>14. CASE \/ \E t \in Own : Reject(t)
            \/ \E t \in Tx : SendToPool(t) \/ LeavePool(t)
            \/ Mine1 \/ Store \/ StoreFails \/ RecordsWritten \/ UNCHANGED vars
  <2>1. UNCHANGED <<queued, sent, current, hpc, got, unparsed>>
    BY <1>14 DEF Reject, SendToPool, LeavePool, Mine1, Store, StoreFails,
       RecordsWritten, vars, running, memos, records
  <2> QED BY <1>4, <2>1
<1> QED BY <1>2, <1>3, <1>5, <1>6, <1>7, <1>8, <1>9, <1>10, <1>11, <1>12, <1>13, <1>14 DEF Next

\* There are finitely many slots.
LEMMA SlotsFinite == IsFiniteSet(Slots)
BY FS_Interval DEF Slots

\* What keeps a transaction known: nothing of it is dropped, and where it was
\* mined and shown stays so.
LEMMA KnownStays ==
    ASSUME failed \subseteq failed', sent \subseteq sent', UNCHANGED <<hpc, got, unparsed>>,
           \A t : Contains(chain, t) => Contains(chain, t)' /\ sends'[t] = sends[t],
           \A i \in DOMAIN current : current[i].kind = "mined" => i \in DOMAIN current' /\ current'[i] = current[i],
           NEW t \in Own, Known(t)
    PROVE  Known(t)'
<1>1. CASE t \in failed \/ \E h \in sent : h[1] = t
  BY <1>1 DEF Known
<1>2. CASE Contains(chain, t)
  <2>1. Contains(chain, t)' /\ sends'[t] = sends[t]
    BY <1>2
  <2>2. \A i \in DOMAIN current : current[i] = Record("mined", <<t, sends[t]>>) =>
            i \in DOMAIN current' /\ current'[i] = current[i]
    BY RecordIs
  <2> QED BY <2>1, <2>2 DEF Known
<1> QED BY <1>1, <1>2 DEF Known

\* The steps that take nothing from the sent records and the list but what is
\* rejected, rolled back or converted.
LEMMA FiniteKept ==
    ASSUME Untimely = {}, MemoInv, MemoInv', AllKnown, [Next]_vars
    PROVE  IsFiniteSet(sent') /\ DOMAIN current' \subseteq Slots
<1>1. Typed /\ Typed' /\ WaitingSaved /\ IsFiniteSet(sent) /\ DOMAIN current \subseteq Slots
  BY DEF MemoInv, AllKnown
<1>2. ASSUME sent' \subseteq sent, \A i \in DOMAIN current' : i \in DOMAIN current
      PROVE  IsFiniteSet(sent') /\ DOMAIN current' \subseteq Slots
  <2>1. IsFiniteSet(sent')
    BY <1>1, <1>2, FS_Subset
  <2> QED BY <1>1, <1>2, <2>1
<1>3. ASSUME NEW t \in Own, JobSent(t)
      PROVE  IsFiniteSet(sent') /\ DOMAIN current' \subseteq Slots
  <2>1. current' = current /\ SetTxHash(t)
    BY <1>3 DEF JobSent
  <2>2. CASE t \in queued
    <3>1. sent' = sent \cup {<<t, sends[t]>>}
      BY <2>1, <2>2 DEF SetTxHash
    <3>2. IsFiniteSet(sent \cup {<<t, sends[t]>>})
      BY <1>1, FS_AddElement
    <3> QED BY <1>1, <2>1, <3>1, <3>2
  <2>3. CASE t \notin queued
    <3>1. sent' = sent
      BY <2>1, <2>3 DEF SetTxHash
    <3> QED BY <1>1, <2>1, <3>1
  <2> QED BY <2>2, <2>3
<1>4. ASSUME NEW t \in Own, JobFailed(t) \/ JobReverted(t)
      PROVE  IsFiniteSet(sent') /\ DOMAIN current' \subseteq Slots
  <2>1. sent' \subseteq sent
    BY <1>4 DEF JobFailed, JobReverted
  <2>2. current' = current \/ \E h : RemovePendingRecord(t, h)
    BY <1>4 DEF JobFailed, JobReverted
  <2>3. \A i \in DOMAIN current' : i \in DOMAIN current
    BY <2>2, RemoveOnly
  <2> QED BY <1>2, <2>1, <2>3
<1>5. CASE \/ \E k \in Slots : Rollback(k)
           \/ Clean \/ GetAllHistory \/ ConvertMined
  <2>1. sent' \subseteq sent
    BY <1>5 DEF Rollback, Clean, GetAllHistory, ConvertMined, records
  <2>2. current' = current \/ current' = Kept \/ current' = Empty \/ \E S : current' = Without(current, S)
    BY <1>5 DEF Rollback, Clean, GetAllHistory, ConvertMined
  <2>3. \A S : DOMAIN Without(current, S) \subseteq DOMAIN current
    BY DEF Without
  <2>4. \A i \in DOMAIN current' : i \in DOMAIN current
    BY <2>2, <2>3, KeptIs, EmptyIs
  <2> QED BY <1>2, <2>1, <2>4
<1>6. CASE Merge
  <2>1. sent' = sent
    BY <1>6 DEF Merge, records
  <2>2. DOMAIN unparsed \subseteq Slots /\ DOMAIN unparsedPending \subseteq Slots
    BY <1>1 DEF Typed, WaitingSaved
  <2>3. \A i \in DOMAIN current' : i \in DOMAIN unparsed \/ i \in DOMAIN unparsedPending \/ i \in DOMAIN current
    BY <1>6, MergeMakes
  <2> QED BY <1>1, <2>1, <2>2, <2>3
<1>7. CASE Restart
  <2>1. sent' = {} /\ DOMAIN current' = DOMAIN dbTx'
    BY <1>7 DEF Restart
  <2>2. DOMAIN dbTx' \subseteq Slots
    BY <1>1 DEF Typed
  <2> QED BY <2>1, <2>2, FS_EmptySet
<1>8. CASE \/ \E t \in Own : Send(t) \/ Reject(t)
           \/ \E t \in Tx : SendToPool(t) \/ LeavePool(t)
           \/ Mine1 \/ Fetch \/ Store \/ StoreFails \/ ConvertPending \/ RecordsWritten \/ UNCHANGED vars
  <2>1. UNCHANGED <<sent, current>>
    BY <1>8 DEF Send, Reject, SendToPool, LeavePool, Mine1, Fetch, Store, StoreFails,
       ConvertPending, RecordsWritten, vars, records
  <2> QED BY <1>1, <2>1
<1>9. CASE \E t \in Own : JobFailed(t) \/ JobReverted(t)
  BY <1>4, <1>9
<1> QED BY <1>3, <1>5, <1>6, <1>7, <1>8, <1>9 DEF Next

\* What of the chain keeps a transaction known.
LEMMA ChainStays ==
    ASSUME Typed, Typed', \/ \E u \in Tx : SendToPool(u) \/ LeavePool(u)
                          \/ Mine1
                          \/ UNCHANGED <<chain, sends>>
    PROVE  \A t : Contains(chain, t) => Contains(chain, t)' /\ sends'[t] = sends[t]
<1>1. chain \in Seq(Tx) /\ pend \in Seq(Tx) /\ sends \in [Tx -> Nat]
  BY DEF Typed
<1>2. ASSUME NEW u \in Tx, SendToPool(u)
      PROVE  \A t : Contains(chain, t) => Contains(chain, t)' /\ sends'[t] = sends[t]
  <2>1. chain' = chain /\ sends' = [sends EXCEPT ![u] = @ + 1] /\ ~Contains(chain \o pend, u)
    BY <1>2 DEF SendToPool
  <2>2. ASSUME NEW i \in DOMAIN chain PROVE chain[i] # u /\ chain[i] \in Tx
    <3>1. Len(chain) \in Nat /\ Len(pend) \in Nat /\ i \in 1 .. Len(chain)
      BY <1>1
    <3>2. Len(chain \o pend) = Len(chain) + Len(pend)
          /\ \A j \in 1 .. (Len(chain) + Len(pend)) :
                (chain \o pend)[j] = IF j <= Len(chain) THEN chain[j] ELSE pend[j - Len(chain)]
      BY <1>1, ConcatProperties
    <3>3. i \in 1 .. Len(chain \o pend) /\ (chain \o pend)[i] = chain[i]
      BY <3>1, <3>2
    <3> QED BY <1>1, <2>1, <3>3 DEF Contains
  <2>3. \A t : Contains(chain, t) => t # u /\ t \in Tx
    BY <1>1, <2>2 DEF Contains
  <2> QED BY <1>1, <2>1, <2>3
<1>3. CASE Mine1
  <2>1. sends' = sends /\ \E x : chain' = Append(chain, x)
    BY <1>3 DEF Mine1
  <2>2. PICK x : chain' = Append(chain, x)
    BY <2>1
  <2>3. Len(chain') = Len(chain) + 1 /\ \A i \in 1 .. Len(chain) : chain'[i] = chain[i]
    BY <1>1, <2>2
  <2>4. \A t : Contains(chain, t) => Contains(chain, t)'
    <3> SUFFICES ASSUME NEW t, Contains(chain, t) PROVE Contains(chain', t)
      OBVIOUS
    <3>1. PICK i \in 1 .. Len(chain) : chain[i] = t
      BY DEF Contains
    <3>2. i \in 1 .. Len(chain') /\ chain'[i] = t
      BY <1>1, <2>3, <3>1
    <3> QED BY <3>2 DEF Contains
  <2> QED BY <2>1, <2>4
<1>4. CASE UNCHANGED <<chain, sends>>
  BY <1>4
<1>5. CASE \E u \in Tx : LeavePool(u)
  BY <1>5 DEF LeavePool
<1> QED BY <1>2, <1>3, <1>4, <1>5

\* The steps of the sequencer, the chain and the state sync.
LEMMA KnownElsewhere ==
    ASSUME Typed, Typed', AllKnown,
           \/ \E t \in Own : Send(t) \/ Reject(t)
           \/ \E t \in Tx : SendToPool(t) \/ LeavePool(t)
           \/ Mine1 \/ Store \/ StoreFails \/ RecordsWritten \/ UNCHANGED vars
    PROVE  tracked' \subseteq Own /\ \A t \in tracked' : Known(t)'
<1>1. UNCHANGED <<failed, sent, hpc, got, unparsed, current, tracked>>
  BY DEF Send, Reject, SendToPool, LeavePool, Mine1, Store, StoreFails, RecordsWritten,
     vars, running, memos, records
<1>2. \A t : Contains(chain, t) => Contains(chain, t)' /\ sends'[t] = sends[t]
  <2>1. CASE \/ \E t \in Own : Send(t) \/ Reject(t)
             \/ Store \/ StoreFails \/ RecordsWritten \/ UNCHANGED vars
    <3>1. UNCHANGED <<chain, sends>>
      BY <2>1 DEF Send, Reject, Store, StoreFails, RecordsWritten, vars, services
    <3> QED BY <3>1, ChainStays
  <2>2. CASE \/ \E t \in Tx : SendToPool(t) \/ LeavePool(t)
             \/ Mine1
    BY <2>2, ChainStays
  <2> QED BY <2>1, <2>2
<1>3. \A t \in Own : Known(t) => Known(t)'
  BY <1>1, <1>2, KnownStays
<1> QED BY <1>1, <1>3 DEF AllKnown

\* The steps of the job monitor.
LEMMA KnownJobs ==
    ASSUME Typed, Typed', AllKnown, NEW t \in Own, JobSent(t) \/ JobFailed(t) \/ JobReverted(t)
    PROVE  tracked' \subseteq Own /\ \A u \in tracked' : Known(u)'
<1>1. UNCHANGED <<chain, sends, hpc, got, unparsed>>
  BY DEF JobSent, JobFailed, JobReverted, services, running, memos
<1>2. \A u : Contains(chain, u) => Contains(chain, u)' /\ sends'[u] = sends[u]
  BY <1>1, ChainStays
<1>3. CASE JobSent(t)
  <2>1. UNCHANGED <<failed, current>> /\ SetTxHash(t)
    BY <1>3 DEF JobSent
  <2>2. sent \subseteq sent' /\ tracked' \subseteq tracked \cup {t}
        /\ (t \in tracked' \ tracked => <<t, sends[t]>> \in sent')
    BY <2>1 DEF SetTxHash
  <2>3. \A u \in Own : Known(u) => Known(u)'
    BY <1>1, <1>2, <2>1, <2>2, KnownStays
  <2>4. t \in tracked' \ tracked => Known(t)'
    BY <2>2 DEF Known
  <2> QED BY <2>2, <2>3, <2>4 DEF AllKnown
<1>4. CASE JobFailed(t) \/ JobReverted(t)
  <2>1. tracked' = tracked /\ failed' = failed \cup {t}
    BY <1>4 DEF JobFailed, JobReverted
  <2>2. \A h \in sent : h[1] # t => h \in sent'
    <3>1. \A n : <<t, n>>[1] = t
      OBVIOUS
    <3>2. CASE JobFailed(t)
      <4>1. sent' = sent \ {<<t, rec[t].sends>>}
        BY <3>2 DEF JobFailed
      <4> QED BY <3>1, <4>1
    <3>3. CASE JobReverted(t)
      <4>1. \E S : sent' = sent \ S /\ \A x \in S : \E n : x = <<t, n>>
        <5>1. sent' = sent \ ({<<t, sends[t]>>} \cup IF t \in queued THEN {<<t, rec'[t].sends>>} ELSE {})
          BY <3>3 DEF JobReverted
        <5>2. \A x \in {<<t, sends[t]>>} \cup IF t \in queued THEN {<<t, rec'[t].sends>>} ELSE {} :
                  \E n : x = <<t, n>>
          <6> SUFFICES ASSUME NEW x \in {<<t, sends[t]>>} \cup IF t \in queued THEN {<<t, rec'[t].sends>>} ELSE {}
                       PROVE  \E n : x = <<t, n>>
            OBVIOUS
          <6>1. x = <<t, sends[t]>> \/ x = <<t, rec'[t].sends>>
            OBVIOUS
          <6> QED BY <6>1, Zenon
        <5> QED BY <5>1, <5>2, Zenon
      <4> QED BY <3>1, <4>1
    <3> QED BY <1>4, <3>2, <3>3
  <2>3. \A i \in DOMAIN current : current[i].kind = "mined" => i \in DOMAIN current' /\ current'[i] = current[i]
    <3>1. current' = current \/ \E h : RemovePendingRecord(t, h)
      BY <1>4 DEF JobFailed, JobReverted
    <3> QED BY <3>1, RemoveKeepsMined
  <2>4. ASSUME NEW u \in tracked
        PROVE  Known(u)'
    <3>1. CASE u = t
      BY <2>1, <3>1 DEF Known
    <3>2. CASE u # t /\ \E h \in sent : h[1] = u
      BY <2>2, <3>2 DEF Known
    <3>3. CASE u \in failed
      BY <2>1, <3>3 DEF Known
    <3>4. CASE Contains(chain, u) /\ \E i \in DOMAIN current : current[i] = Record("mined", <<u, sends[u]>>)
      <4>1. PICK i \in DOMAIN current : current[i] = Record("mined", <<u, sends[u]>>)
        BY <3>4
      <4>2. i \in DOMAIN current' /\ current'[i] = Record("mined", <<u, sends'[u]>>)
        BY <1>1, <2>3, <4>1, RecordIs
      <4> QED BY <1>2, <3>4, <4>2 DEF Known
    <3>5. CASE /\ Contains(chain, u) /\ hpc = "details" /\ got.mined # Waiting
               /\ \E i \in DOMAIN unparsed : got.mined[i] = "full" /\ unparsed[i] = <<u, sends[u]>>
      BY <1>1, <1>2, <3>5 DEF Known
    <3> QED BY <3>1, <3>2, <3>3, <3>4, <3>5 DEF Known, AllKnown
  <2> QED BY <2>1, <2>4 DEF AllKnown
<1> QED BY <1>3, <1>4

\* A state sync that saves memos.
LEMMA KnownFetch ==
    ASSUME Untimely = {}, Typed, Typed', AllKnown, Fetch
    PROVE  tracked' \subseteq Own /\ \A t \in tracked' : Known(t)'
<1>1. UNCHANGED <<chain, sends, failed, sent, current, tracked>> /\ hpc = "idle"
  BY DEF Fetch, records
<1>2. ASSUME NEW t, Known(t)
      PROVE  Known(t)'
  <2>1. \/ t \in failed
        \/ \E h \in sent : h[1] = t
        \/ Contains(chain, t) /\ \E i \in DOMAIN current : current[i] = Record("mined", <<t, sends[t]>>)
    BY <1>1, <1>2 DEF Known
  <2>2. \/ t \in failed'
        \/ \E h \in sent' : h[1] = t
        \/ Contains(chain', t) /\ \E i \in DOMAIN current' : current'[i] = Record("mined", <<t, sends'[t]>>)
    BY <1>1, <2>1
  <2> QED BY <2>2 DEF Known
<1> QED BY <1>1, <1>2 DEF AllKnown

\* A rollback and a wipe: what they cut off is no longer tracked.
LEMMA KnownCut ==
    ASSUME AllKnown, \/ \E k \in Slots : Rollback(k)
                     \/ Clean \/ Restart
    PROVE  tracked' \subseteq Own /\ \A t \in tracked' : Known(t)'
<1>1. ASSUME NEW k \in Slots, Rollback(k)
      PROVE  tracked' \subseteq Own /\ \A t \in tracked' : Known(t)'
  <2> DEFINE gone == {j \in Slots : j >= k}
  <2>1. /\ UNCHANGED <<chain, sends, failed, sent>> /\ hpc = "idle"
        /\ current' = Without(current, gone) /\ tracked' = tracked \ MinedOf(gone)
    BY <1>1 DEF Rollback, records
  <2> HIDE DEF gone
  <2>2. DOMAIN current' = DOMAIN current \ gone /\ \A i \in DOMAIN current \ gone : current'[i] = current[i]
    BY <2>1 DEF Without
  <2>3. ASSUME NEW t \in tracked'
        PROVE  Known(t)'
    <3>1. t \in tracked /\ t \in Own /\ t \notin MinedOf(gone) /\ Known(t)
      BY <2>1 DEF AllKnown
    <3>2. CASE t \in failed \/ \E h \in sent : h[1] = t
      BY <2>1, <3>2 DEF Known
    <3>3. CASE Contains(chain, t) /\ \E i \in DOMAIN current : current[i] = Record("mined", <<t, sends[t]>>)
      <4>1. PICK i \in DOMAIN current : current[i] = Record("mined", <<t, sends[t]>>)
        BY <3>3
      <4>2. i \notin gone
        BY <3>1, <4>1 DEF MinedOf
      <4>3. i \in DOMAIN current' /\ current'[i] = Record("mined", <<t, sends'[t]>>)
        BY <2>1, <2>2, <4>1, <4>2
      <4>4. Contains(chain', t)
        BY <2>1, <3>3
      <4> QED BY <4>3, <4>4 DEF Known
    <3> QED BY <2>1, <3>1, <3>2, <3>3 DEF Known
  <2> QED BY <2>1, <2>3 DEF AllKnown
<1>2. CASE Clean
  <2>1. tracked' = {t \in tracked : \E h \in sent : h[1] = t} /\ sent' = sent
    BY <1>2 DEF Clean
  <2> QED BY <2>1 DEF Known, AllKnown
<1>3. CASE Restart
  <2>1. tracked' = {}
    BY <1>3 DEF Restart
  <2> QED BY <2>1
<1> QED BY <1>1, <1>2, <1>3

\* The steps of a history sync.
LEMMA KnownSync ==
    ASSUME Untimely = {}, MemoInv, MemosPlaced, Placed, ListTrue, AllKnown,
           GetAllHistory \/ ConvertPending \/ Merge
    PROVE  tracked' \subseteq Own /\ \A t \in tracked' : Known(t)'
<1>1. UNCHANGED <<chain, sends, failed, sent, tracked, unparsed>> \/ Merge
  BY DEF GetAllHistory, ConvertPending, services, records, memos
<1>2. UNCHANGED <<chain, sends, failed, sent, tracked>>
  BY DEF GetAllHistory, ConvertPending, Merge, services, records
<1>3. ASSUME NEW t, NEW i \in DOMAIN current, Contains(chain, t),
             current[i] = Record("mined", <<t, sends[t]>>)
      PROVE  \E j \in DOMAIN current' : current'[j] = Record("mined", <<t, sends[t]>>)
  <2>1. CASE GetAllHistory
    <3>1. current' = current \/ current' = Kept
      BY <2>1 DEF GetAllHistory
    <3>2. i \in DOMAIN Kept /\ Kept[i] = current[i]
      BY <1>3, KeptKeepsMined, RecordIs
    <3> QED BY <1>3, <3>1, <3>2
  <2>2. CASE ConvertPending
    BY <1>3, <2>2 DEF ConvertPending
  <2>3. CASE Merge
    <3>1. i \in DOMAIN dbMemo /\ current[i] = Record("mined", dbMemo[i])
      BY <1>3, RecordIs DEF ListTrue
    <3>2. i \in DOMAIN current' /\ current'[i] = current[i]
      BY <2>3, <3>1, MergeMakes
    <3> QED BY <1>3, <3>2
  <2> QED BY <2>1, <2>2, <2>3
<1>4. ASSUME NEW t, hpc = "details", got.mined # Waiting, NEW i \in DOMAIN unparsed,
             got.mined[i] = "full", unparsed[i] = <<t, sends[t]>>
      PROVE  \/ \E j \in DOMAIN current' : current'[j] = Record("mined", <<t, sends[t]>>)
             \/ UNCHANGED <<hpc, unparsed>> /\ got'.mined = got.mined
  <2>1. CASE GetAllHistory
    BY <1>4, <2>1 DEF GetAllHistory
  <2>2. CASE ConvertPending
    <3>1. UNCHANGED <<hpc, unparsed>> /\ got'.mined = got.mined
      BY <2>2 DEF ConvertPending, memos, MemoInv, Typed
    <3> QED BY <3>1
  <2>3. CASE Merge
    <3>1. i \in DOMAIN current' /\ current'[i] = Record("mined", unparsed[i])
      BY <1>4, <2>3, MergeMakes
    <3> QED BY <1>4, <3>1
  <2> QED BY <2>1, <2>2, <2>3
<1>5. ASSUME NEW t \in tracked
      PROVE  Known(t)'
  <2>1. CASE t \in failed \/ \E h \in sent : h[1] = t
    BY <1>2, <2>1 DEF Known
  <2>2. CASE Contains(chain, t) /\ \E i \in DOMAIN current : current[i] = Record("mined", <<t, sends[t]>>)
    <3>1. \E j \in DOMAIN current' : current'[j] = Record("mined", <<t, sends[t]>>)
      BY <1>3, <2>2
    <3>2. Contains(chain', t) /\ \E j \in DOMAIN current' : current'[j] = Record("mined", <<t, sends'[t]>>)
      BY <1>2, <2>2, <3>1
    <3> QED BY <3>2 DEF Known
  <2>3. CASE /\ Contains(chain, t) /\ hpc = "details" /\ got.mined # Waiting
             /\ \E i \in DOMAIN unparsed : got.mined[i] = "full" /\ unparsed[i] = <<t, sends[t]>>
    <3>1. PICK i \in DOMAIN unparsed : got.mined[i] = "full" /\ unparsed[i] = <<t, sends[t]>>
      BY <2>3
    <3>2. CASE \E j \in DOMAIN current' : current'[j] = Record("mined", <<t, sends[t]>>)
      <4>1. Contains(chain', t) /\ \E j \in DOMAIN current' : current'[j] = Record("mined", <<t, sends'[t]>>)
        BY <1>2, <2>3, <3>2
      <4> QED BY <4>1 DEF Known
    <3>3. CASE UNCHANGED <<hpc, unparsed>> /\ got'.mined = got.mined
      BY <1>2, <2>3, <3>3 DEF Known
    <3> QED BY <1>4, <2>3, <3>1, <3>2, <3>3
  <2> QED BY <2>1, <2>2, <2>3 DEF Known, AllKnown
<1> QED BY <1>2, <1>5 DEF AllKnown

\* The records that a conversion removes are of memos it has the details of.
LEMMA KnownConvert ==
    ASSUME MemoInv, MemosPlaced, Placed, AllKnown, ConvertMined
    PROVE  tracked' \subseteq Own /\ \A t \in tracked' : Known(t)'
<1>1. Typed /\ MemosMined /\ Working /\ WaitingSaved
  BY DEF MemoInv
<1>2. UNCHANGED <<chain, sends, current, hpc, unparsed, failed, tracked>> /\ hpc = "details" /\ got.mined = Waiting
  BY DEF ConvertMined, memos, services
<1>3. PICK out \in [DOMAIN asked.mined -> Outcome] :
          /\ got' = [got EXCEPT !.mined = out]
          /\ sent' = {h \in sent : h[1] \notin {asked.mined[i][1] : i \in {j \in DOMAIN out : out[j] = "full"}}}
  BY Zenon DEF ConvertMined
<1>4. got'.mined = out /\ asked.mined = unparsed /\ DOMAIN out = DOMAIN unparsed
  BY <1>1, <1>2, <1>3 DEF Typed, Working
<1>5. ASSUME NEW t \in tracked
      PROVE  Known(t)'
  <2>1. CASE t \in failed
    BY <1>2, <2>1 DEF Known
  <2>2. CASE Contains(chain, t) /\ \E i \in DOMAIN current : current[i] = Record("mined", <<t, sends[t]>>)
    BY <1>2, <2>2 DEF Known
  <2>3. CASE \E h \in sent : h[1] = t
    <3>1. CASE \E i \in DOMAIN unparsed : out[i] = "full" /\ unparsed[i][1] = t
      <4>1. PICK i \in DOMAIN unparsed : out[i] = "full" /\ unparsed[i][1] = t
        BY <3>1
      <4>2. i \in DOMAIN dbMemo /\ unparsed[i] = dbMemo[i] /\ i \in Slots
        BY <1>1 DEF WaitingSaved, Typed
      <4>3. unparsed[i] = <<t, sends[t]>> /\ Contains(chain, t)
        BY <1>1, <4>1, <4>2, SavedMined
      <4>4. out # Waiting
        BY <1>4, <4>2 DEF Waiting, Slots
      <4> QED BY <1>2, <1>4, <4>1, <4>3, <4>4 DEF Known
    <3>2. CASE ~ \E i \in DOMAIN unparsed : out[i] = "full" /\ unparsed[i][1] = t
      <4>1. PICK h \in sent : h[1] = t
        BY <2>3
      <4>2. h \in sent'
        BY <1>3, <1>4, <3>2, <4>1
      <4> QED BY <4>1, <4>2 DEF Known
    <3> QED BY <3>1, <3>2
  <2>4. Known(t)
    BY DEF AllKnown
  <2> QED BY <1>2, <2>1, <2>2, <2>3, <2>4 DEF Known
<1> QED BY <1>2, <1>5 DEF AllKnown

\* No step forgets a tracked transaction.
LEMMA AllKnownKept ==
    ASSUME Untimely = {}, MemoInv, MemoInv', MemosPlaced, Placed, ListTrue, AllKnown, [Next]_vars
    PROVE  AllKnown'
<1>1. Typed /\ Typed'
  BY DEF MemoInv
<1>2. tracked' \subseteq Own /\ \A t \in tracked' : Known(t)'
  <2>1. CASE \/ \E t \in Own : Send(t) \/ Reject(t)
             \/ \E t \in Tx : SendToPool(t) \/ LeavePool(t)
             \/ Mine1 \/ Store \/ StoreFails \/ RecordsWritten \/ UNCHANGED vars
    BY <1>1, <2>1, KnownElsewhere
  <2>2. CASE \E t \in Own : JobSent(t) \/ JobFailed(t) \/ JobReverted(t)
    BY <1>1, <2>2, KnownJobs
  <2>3. CASE Fetch
    BY <1>1, <2>3, KnownFetch
  <2>4. CASE \/ \E k \in Slots : Rollback(k)
             \/ Clean \/ Restart
    BY <2>4, KnownCut
  <2>5. CASE GetAllHistory \/ ConvertPending \/ Merge
    BY <2>5, KnownSync
  <2>6. CASE ConvertMined
    BY <2>6, KnownConvert
  <2> QED BY <2>1, <2>2, <2>3, <2>4, <2>5, <2>6 DEF Next
<1> QED BY <1>2, FiniteKept DEF AllKnown

-----------------------------------------------------------------------------
(* The invariant of the list, and what getAllHistory returns.              *)

\* At first nothing is sent and nothing listed.
LEMMA InitList == Init => ListInv
<1> SUFFICES ASSUME Init PROVE ListInv
  OBVIOUS
<1>1. /\ chain = <<>> /\ pend = <<>> /\ feed = "idle" /\ hpc = "idle"
      /\ seq = [t \in Own |-> "new"] /\ rec = [t \in Own |-> [state |-> "Pending", sends |-> 0]]
      /\ tops = [mined |-> -1, pending |-> -1]
      /\ queued = {} /\ sent = {} /\ failed = {} /\ dbFailed = {} /\ tracked = {}
      /\ DOMAIN unparsedPending = {} /\ DOMAIN current = {} /\ DOMAIN dbMemo = {}
      /\ DOMAIN dbPending = {} /\ DOMAIN dbTx = {}
  BY EmptyIs DEF Init
<1>2. DOMAIN chain = {} /\ DOMAIN pend = {}
  BY <1>1
<1>3. SentOwn /\ OverTrue
  BY <1>1 DEF SentOwn, OverTrue, Over
<1>4. Placed
  BY <1>1, <1>2 DEF Placed
<1>5. MemosPlaced /\ PendingApart
  BY <1>1, <1>2 DEF MemosPlaced, PendingApart
<1>6. ListTrue /\ Cleared
  BY <1>1 DEF ListTrue, Cleared
<1>7. AllKnown
  BY <1>1, FS_EmptySet DEF AllKnown
<1> QED BY <1>3, <1>4, <1>5, <1>6, <1>7 DEF ListInv

\* No step breaks the invariant of the list.
LEMMA NextList ==
    ASSUME Untimely = {} PROVE MemoInv /\ ListInv /\ [Next]_vars => MemoInv' /\ ListInv'
<1> SUFFICES ASSUME MemoInv, ListInv, [Next]_vars PROVE MemoInv' /\ ListInv'
  OBVIOUS
<1>1. MemoInv'
  BY NextMemos DEF Orderly
<1>2. Typed /\ MemosMined
  BY DEF MemoInv
<1>3. SentOwn /\ Placed /\ OverTrue /\ MemosPlaced /\ PendingApart /\ ListTrue /\ Cleared /\ AllKnown
  BY DEF ListInv
<1>4. SentOwn' /\ Placed' /\ OverTrue' /\ MemosPlaced'
  BY <1>2, <1>3, SentOwnKept, PlacedKept, OverKept, MemosPlacedKept
<1>5. PendingApart'
  BY <1>1, <1>3, <1>4, ApartKept
<1>6. ListTrue'
  BY <1>3, <1>4, ListTrueKept
<1>7. Cleared'
  BY <1>3, <1>4, ClearedKept
<1>8. AllKnown'
  BY <1>1, <1>3, AllKnownKept
<1> QED BY <1>1, <1>4, <1>5, <1>6, <1>7, <1>8 DEF ListInv

\* What a history sync returns: the list, and the sent records it does not have.
LEMMA ListMade ==
    ASSUME MemoInv, SyncEnds
    PROVE  /\ \A i \in DOMAIN current' :
                 \/ current'[i].kind = "mined"
                 \/ feed = "idle" /\ i \in DOMAIN unparsedPending /\ current'[i].hash = unparsedPending[i]
                 \/ i \in Settled /\ current'[i] = current[i]
           /\ local' = Unlisted(current', sent) /\ hpc' = "idle"
           /\ UNCHANGED <<chain, seq, sent, failed, rec, dbMemo, dbFailed, tracked>>
<1>1. hpc' = "idle" /\ UNCHANGED <<chain, seq, sent, failed, rec, dbMemo, dbFailed, tracked>>
  BY DEF SyncEnds, GetAllHistory, Merge, services, records, db
<1>2. CASE GetAllHistory
  <2>1. current' = Kept /\ local' = Unlisted(Kept, sent)
    BY <1>1, <1>2 DEF GetAllHistory
  <2> QED BY <1>1, <2>1, KeptIs
<1>3. CASE Merge
  <2>1. local' = Unlisted(current', sent) /\ hpc = "details"
    BY <1>3 DEF Merge
  <2>2. feed = "idle"
    BY <2>1 DEF MemoInv, Working
  <2>3. ASSUME NEW i \in DOMAIN current'
        PROVE  \/ current'[i].kind = "mined"
               \/ i \in DOMAIN unparsedPending /\ current'[i].hash = unparsedPending[i]
               \/ i \in Settled /\ current'[i] = current[i]
    BY <1>3, MergeMakes, RecordIs
  <2> QED BY <1>1, <2>1, <2>2, <2>3
<1> QED BY <1>2, <1>3 DEF SyncEnds

\* A history sync that ends shows a mined transaction once.
LEMMA OnceStep ==
    ASSUME Untimely = {}, MemoInv, MemoInv', ListInv, ListInv', SyncEnds,
           NEW t \in Tx, IsMined(t)'
    PROVE  Shown(t)' = 1
<1>1. /\ Typed /\ Typed' /\ MemosMined' /\ SentOwn' /\ Placed' /\ OverTrue /\ MemosPlaced'
      /\ PendingApart /\ ListTrue' /\ Cleared' /\ ListTrue /\ Placed
  BY DEF MemoInv, ListInv
<1>2. PICK i \in DOMAIN current' : current'[i].kind = "mined" /\ current'[i].hash[1] = t
  BY DEF IsMined
<1>3. i \in DOMAIN dbMemo' /\ dbMemo'[i][1] = t
  BY <1>1, <1>2, RecordIs DEF ListTrue
<1>4. \A j \in DOMAIN dbMemo' : dbMemo'[j][1] = chain'[j + 1] /\ j + 1 \in DOMAIN chain' /\ j \in Nat
  <2> SUFFICES ASSUME NEW j \in DOMAIN dbMemo'
               PROVE  dbMemo'[j][1] = chain'[j + 1] /\ j + 1 \in DOMAIN chain' /\ j \in Nat
    OBVIOUS
  <2>1. chain' \in Seq(Tx) /\ j \in Slots /\ j < Len(chain')
    BY <1>1 DEF MemosMined, Typed
  <2>2. j \in Nat /\ j + 1 \in DOMAIN chain'
    BY <2>1 DEF Slots
  <2>3. dbMemo'[j] = <<chain'[j + 1], sends'[chain'[j + 1]]>>
    BY <1>1 DEF MemosPlaced, MemoAt
  <2> QED BY <2>2, <2>3
<1>5. UNCHANGED <<chain, seq, sent, failed, rec, dbMemo, dbFailed>> /\ local' = Unlisted(current', sent)
  BY ListMade
<1>6. t \in Own => seq[t] = "mined"
  BY <1>1, <1>3, <1>4, <1>5 DEF Placed
<1>7. t \in Own => ~Over(t)
  BY <1>1, <1>6 DEF OverTrue
<1>8. t \notin failed'
  BY <1>1, <1>5, <1>7 DEF SentOwn, Over
<1>9. {h \in local' : h[1] = t} = {}
  <2>1. \A h \in sent' : h[1] # t
    BY <1>1, <1>2 DEF Cleared, Gone
  <2>2. local' \subseteq sent'
    BY <1>5 DEF Unlisted
  <2> QED BY <2>1, <2>2
<1>10. ASSUME NEW j \in DOMAIN current', current'[j].hash[1] = t
       PROVE  j = i
  <2>1. CASE current'[j].kind = "mined"
    <3>1. j \in DOMAIN dbMemo' /\ dbMemo'[j][1] = t
      BY <1>1, <1>10, <2>1, RecordIs DEF ListTrue
    <3>2. chain'[j + 1] = chain'[i + 1] /\ j + 1 \in DOMAIN chain' /\ i + 1 \in DOMAIN chain'
      BY <1>3, <1>4, <3>1
    <3>3. j + 1 = i + 1
      BY <1>1, <3>2 DEF Placed
    <3> QED BY <1>3, <1>4, <3>1, <3>3
  <2>2. CASE feed = "idle" /\ j \in DOMAIN unparsedPending /\ current'[j].hash = unparsedPending[j]
    <3>1. j \in DOMAIN dbPending /\ dbPending[j][1] = t
      BY <1>1, <1>10, <2>2 DEF PendingApart
    <3>2. ~Trimmed(j) /\ feed # "failed"
      BY <2>2 DEF Trimmed
    <3>3. dbMemo[i][1] # dbPending[j][1]
      BY <1>1, <1>3, <1>5, <3>1, <3>2 DEF PendingApart
    <3> QED BY <1>3, <1>5, <3>1, <3>3
  <2>3. CASE current'[j].kind # "mined" /\ j \in Settled /\ current'[j] = current[j]
    <3>1. j \in DOMAIN current /\ ~IsPending(j, {})
      BY <2>3 DEF Settled
    <3>2. current[j].kind = "local" /\ rec[t].state # "Pending"
      BY <1>1, <1>10, <2>3, <3>1 DEF IsPending, ListTrue
    <3>3. t \in Own
      BY <1>1, <1>10, <2>3, <3>1, <3>2 DEF ListTrue
    <3> QED BY <1>7, <3>2, <3>3 DEF Over
  <2> QED BY <2>1, <2>2, <2>3, ListMade
<1> DEFINE shown == {j \in DOMAIN current' : current'[j].hash[1] = t}
           own   == {h \in local' : h[1] = t}
<1>11. shown = {i} /\ own = {}
  BY <1>2, <1>9, <1>10
<1>12. Cardinality({i}) = 1 /\ Cardinality({}) = 0
  BY FS_Singleton, FS_EmptySet
<1>13. Shown(t)' = Cardinality(shown) + Cardinality(own) + IF t \in failed' THEN 1 ELSE 0
  BY DEF Shown
<1> HIDE DEF shown, own
<1> QED BY <1>8, <1>11, <1>12, <1>13

\* A transaction that the list shows as mined is shown once, in the orderly use
\* (MinedOnce).
THEOREM MinedOnceHolds ==
    ASSUME Untimely = {} PROVE Spec => MinedOnce
<1>1. MemoInv /\ ListInv /\ MemoInv' /\ ListInv' /\ [Next]_vars =>
          [SyncEnds => \A t \in Tx : IsMined(t)' => Shown(t)' = 1]_vars
  BY OnceStep
<1> QED BY <1>1, InitMemos, InitList, NextList, PTL DEF Spec, MinedOnce

\* A finite set with a member counts more than none.
LEMMA SomeOf ==
    ASSUME NEW S, IsFiniteSet(S)
    PROVE  Cardinality(S) \in Nat /\ \A x \in S : Cardinality(S) > 0
<1>1. Cardinality(S) \in Nat /\ (Cardinality(S) = 0 <=> S = {})
  BY FS_CardinalityType, FS_EmptySet
<1> QED BY <1>1

\* A history sync that ends shows every tracked transaction.
LEMMA ListedStep ==
    ASSUME Untimely = {}, MemoInv, ListInv', SyncEnds, NEW t \in tracked
    PROVE  Shown(t)' > 0
<1>1. local' = Unlisted(current', sent') /\ hpc' = "idle" /\ tracked' = tracked
  BY ListMade
<1>2. IsFiniteSet(sent') /\ DOMAIN current' \subseteq Slots /\ Known(t)'
  BY <1>1 DEF ListInv, AllKnown
<1> DEFINE shown == {j \in DOMAIN current' : current'[j].hash[1] = t}
           own   == {h \in local' : h[1] = t}
<1>3. shown \subseteq Slots /\ own \subseteq sent'
  BY <1>1, <1>2 DEF Unlisted
<1>4. IsFiniteSet(shown) /\ IsFiniteSet(own)
  BY <1>2, <1>3, SlotsFinite, FS_Subset
<1>5. t \in failed' \/ (\E x : x \in shown) \/ \E x : x \in own
  <2>1. CASE t \in failed'
    BY <2>1
  <2>2. CASE \E h \in sent' : h[1] = t
    <3>1. PICK h \in sent' : h[1] = t
      BY <2>2
    <3>2. h \in local' \/ \E i \in DOMAIN current' : current'[i].hash[1] = t
      BY <1>1, <3>1 DEF Unlisted
    <3> QED BY <3>1, <3>2
  <2>3. CASE \E i \in DOMAIN current' : current'[i] = Record("mined", <<t, sends'[t]>>)
    <3>1. PICK i \in DOMAIN current' : current'[i] = Record("mined", <<t, sends'[t]>>)
      BY <2>3
    <3>2. current'[i].hash[1] = t
      BY <3>1, RecordIs
    <3> QED BY <3>2
  <2> QED BY <1>1, <1>2, <2>1, <2>2, <2>3 DEF Known
<1>6. Shown(t)' = Cardinality(shown) + Cardinality(own) + IF t \in failed' THEN 1 ELSE 0
  BY DEF Shown
<1> HIDE DEF shown, own
<1>7. /\ Cardinality(shown) \in Nat /\ Cardinality(own) \in Nat
      /\ (\E x : x \in shown) => Cardinality(shown) > 0
      /\ (\E x : x \in own) => Cardinality(own) > 0
  BY <1>4, SomeOf
<1> QED BY <1>5, <1>6, <1>7

\* An own transaction of the session whose hash was told stays in the list, in
\* the orderly use (OwnListed).
THEOREM OwnListedHolds ==
    ASSUME Untimely = {} PROVE Spec => OwnListed
<1>1. MemoInv /\ ListInv /\ ListInv' /\ [Next]_vars => [SyncEnds => \A t \in tracked : Shown(t)' > 0]_vars
  BY ListedStep
<1> QED BY <1>1, InitMemos, InitList, NextList, PTL DEF Spec, OwnListed

\* What is shown as mined has its record in the database.
MinedStored == \A i \in DOMAIN current : current[i].kind = "mined" => i \in DOMAIN dbTx

\* The records a merge writes are those of the memos it has the details of.
LEMMA MergeStores ==
    ASSUME MemoInv, Merge
    PROVE  DOMAIN dbTx' = DOMAIN dbTx \cup {i \in DOMAIN unparsed : got.mined[i] \in {"full", "partial"}}
<1>1. hpc = "details" /\ got.mined # Waiting
      /\ dbTx' = Overlay(dbTx, [i \in With(got.mined, {"full", "partial"}) |-> asked.mined[i]])
  BY Zenon DEF Merge
<1>2. DOMAIN got.mined = DOMAIN unparsed
  BY <1>1 DEF MemoInv, Working
<1> QED BY <1>1, <1>2 DEF Overlay, With

\* What is shown as mined is kept in the list by every step but a cut of its
\* memo, and in the database.
StaysListed ==
    \A i \in DOMAIN current : current[i].kind = "mined" /\ i \in DOMAIN dbMemo' =>
        i \in DOMAIN current' /\ current'[i] = current[i]

LEMMA StaysStep ==
    ASSUME Untimely = {}, MemoInv, ListTrue, MinedStored, [Next]_vars
    PROVE  StaysListed /\ MinedStored'
<1>1. CASE UNCHANGED <<current, dbTx>>
  BY <1>1 DEF StaysListed, MinedStored
<1>2. ASSUME NEW t \in Own, JobReverted(t)
      PROVE  StaysListed /\ MinedStored'
  <2>1. dbTx' = dbTx /\ \E h : RemovePendingRecord(t, h)
    BY <1>2 DEF JobReverted
  <2> QED BY <2>1, RemoveKeepsMined, RemoveOnly DEF StaysListed, MinedStored
<1>3. ASSUME NEW k \in Slots, Rollback(k)
      PROVE  StaysListed /\ MinedStored'
  <2> DEFINE gone == {j \in Slots : j >= k}
  <2>1. /\ dbMemo' = Without(dbMemo, gone) /\ dbTx' = Without(dbTx, gone)
        /\ current' = Without(current, gone)
    BY <1>3 DEF Rollback
  <2> HIDE DEF gone
  <2>2. DOMAIN dbMemo' = DOMAIN dbMemo \ gone /\ DOMAIN dbTx' = DOMAIN dbTx \ gone
        /\ DOMAIN current' = DOMAIN current \ gone
        /\ \A i \in DOMAIN current' : current'[i] = current[i]
    BY <2>1 DEF Without
  <2> QED BY <2>2 DEF StaysListed, MinedStored
<1>4. CASE Clean
  <2>1. DOMAIN dbMemo' = {} /\ DOMAIN current' = {}
    BY <1>4, EmptyIs DEF Clean
  <2> QED BY <2>1 DEF StaysListed, MinedStored
<1>5. CASE GetAllHistory
  <2>1. dbTx' = dbTx /\ (current' = current \/ current' = Kept)
    BY <1>5 DEF GetAllHistory, db
  <2> QED BY <2>1, KeptKeepsMined, KeptIs DEF StaysListed, MinedStored
<1>6. CASE Merge
  <2>1. dbMemo' = dbMemo
    BY <1>6 DEF Merge
  <2>2. StaysListed
    BY <1>6, <2>1, MergeMakes DEF StaysListed, ListTrue
  <2>3. ASSUME NEW i \in DOMAIN current', current'[i].kind = "mined"
        PROVE  i \in DOMAIN dbTx'
    <3>1. CASE i \in DOMAIN unparsed /\ got.mined[i] \in {"full", "partial"}
      BY <1>6, <3>1, MergeStores
    <3>2. CASE i \in DOMAIN current /\ current'[i] = current[i]
      BY <1>6, <2>3, <3>2, MergeStores DEF MinedStored
    <3>3. CASE current'[i] = Record(IF got.pending[i] = "local" THEN "local" ELSE "pending",
                                    unparsedPending[i])
      BY <2>3, <3>3, RecordIs
    <3> QED BY <1>6, <3>1, <3>2, <3>3, MergeMakes
  <2> QED BY <2>2, <2>3 DEF MinedStored
<1>7. CASE Restart
  <2>1. unwritten = {} /\ dbMemo' = dbMemo /\ (\E lost \in SUBSET unwritten : dbTx' = Without(dbTx, lost))
        /\ current' = [i \in DOMAIN dbTx' |-> Record("mined", dbTx'[i])]
    BY <1>7 DEF Restart
  <2>2. DOMAIN dbTx' = DOMAIN dbTx /\ \A i \in DOMAIN dbTx : dbTx'[i] = dbTx[i]
    BY <2>1 DEF Without
  <2>3. MinedStored'
    BY <2>1 DEF MinedStored
  <2>4. ASSUME NEW i \in DOMAIN current, current[i].kind = "mined", i \in DOMAIN dbMemo
        PROVE  i \in DOMAIN current' /\ current'[i] = current[i]
    <3>1. i \in DOMAIN dbTx /\ dbTx[i] = dbMemo[i] /\ current[i] = Record("mined", dbMemo[i])
      BY <2>4 DEF MinedStored, MemoInv, RecordsSaved, ListTrue
    <3> QED BY <2>1, <2>2, <3>1
  <2> QED BY <2>1, <2>3, <2>4 DEF StaysListed
<1>8. CASE \/ \E t \in Own : Send(t) \/ Reject(t) \/ JobSent(t) \/ JobFailed(t)
           \/ \E t \in Tx : SendToPool(t) \/ LeavePool(t)
           \/ Mine1 \/ Fetch \/ Store \/ StoreFails \/ ConvertMined \/ ConvertPending
           \/ RecordsWritten \/ UNCHANGED vars
  <2>1. UNCHANGED <<current, dbTx>>
    BY <1>8 DEF Send, Reject, JobSent, JobFailed, SendToPool, LeavePool, Mine1, Fetch, Store,
       StoreFails, ConvertMined, ConvertPending, RecordsWritten, vars, db
  <2> QED BY <1>1, <2>1
<1> QED BY <1>2, <1>3, <1>4, <1>5, <1>6, <1>7, <1>8 DEF Next

\* What is listed as mined stays so, in the orderly use (MinedStays).
THEOREM MinedStaysHolds ==
    ASSUME Untimely = {} PROVE Spec => MinedStays
<1>1. Init => MinedStored
  BY EmptyIs DEF Init, MinedStored
<1>2. MemoInv /\ ListInv /\ MinedStored /\ [Next]_vars => MinedStored'
  BY StaysStep DEF ListInv
<1>3. MemoInv /\ ListInv /\ MinedStored /\ [Next]_vars =>
          [\A i \in DOMAIN current : current[i].kind = "mined" /\ i \in DOMAIN dbMemo' =>
              i \in DOMAIN current' /\ current'[i] = current[i]]_vars
  BY StaysStep DEF ListInv, StaysListed
<1> QED BY <1>1, <1>2, <1>3, InitMemos, InitList, NextList, PTL DEF Spec, MinedStays

-----------------------------------------------------------------------------
(* The type invariant.                                                     *)

\* The services and the tree.
ServicesTyped ==
    /\ chain \in Seq(Tx) /\ pend \in Seq(Tx) /\ Len(chain \o pend) <= MaxSlot + 1
    /\ seq \in [Own -> {"new", "waiting", "sent", "failed", "reverted", "mined"}]
    /\ sends \in [Tx -> 0 .. MaxSends] /\ next \in 0 .. (MaxSlot + 1)
    /\ feed \in {"idle", "fetched", "failed"}
    /\ tops \in [mined : Slots \cup {-1}, pending : Slots \cup {-1}]
    /\ cuts \in 0 .. MaxCuts

\* What is in the chain or in the optimistic state, or was there, has been sent.
WasSent ==
    /\ \A k \in DOMAIN chain : sends[chain[k]] # 0
    /\ \A k \in DOMAIN pend : sends[pend[k]] # 0
    /\ \A t \in Own : seq[t] \in {"sent", "mined"} => sends[t] # 0

\* The records of own transactions.
RecordsTyped ==
    /\ queued \subseteq Own /\ sent \subseteq Hashes /\ failed \subseteq Own /\ local \subseteq Hashes
    /\ rec \in [Own -> [state : {"Pending", "RejectedByRelayer", "RejectedByPool"},
                        sends : 0 .. MaxSends]]
    /\ dbFailed \subseteq Own /\ tracked \subseteq Own /\ torn \in BOOLEAN

\* The memos and what was made of them.
MemosTyped ==
    /\ unparsed \in Map(Slots, Hashes) /\ unparsedPending \in Map(Slots, Hashes)
    /\ dbMemo \in Map(Slots, Hashes) /\ dbPending \in Map(Slots, Hashes)
    /\ current \in Map(Slots, HistoryRecord)
    /\ dbTx \in Map(Slots, Hashes) /\ unwritten \subseteq DOMAIN dbTx
    /\ syncIndex \in Slots \cup {-1} /\ dbSync \in Slots \cup {-1}
    /\ dbFails \in {Undefined} \cup SUBSET Slots

\* The running history sync.
RunTyped ==
    /\ hpc \in {"idle", "details"} /\ attempt \in 0 .. MaxAttempts
    /\ asked \in [mined : Map(Slots, Hashes), pending : Map(Slots, Hashes)]
    /\ got \in [mined : {Waiting} \cup Map(Slots, Outcome), pending : {Waiting} \cup Map(Slots, Outcome)]

\* An answer is one to what was asked.
Answered ==
    /\ got.mined # Waiting => DOMAIN got.mined = DOMAIN asked.mined
    /\ got.pending # Waiting => DOMAIN got.pending = DOMAIN asked.pending

TypeInv == ServicesTyped /\ WasSent /\ RecordsTyped /\ MemosTyped /\ RunTyped /\ Answered

\* The members of Map(S, T).
LEMMA MapIs ==
    ASSUME NEW S, NEW T, NEW f
    PROVE  f \in Map(S, T) <=> DOMAIN f \subseteq S /\ f \in [DOMAIN f -> T]
<1>1. ASSUME f \in Map(S, T) PROVE DOMAIN f \subseteq S /\ f \in [DOMAIN f -> T]
  <2>1. PICK D \in SUBSET S : f \in [D -> T]
    BY <1>1, Zenon DEF Map
  <2>2. DOMAIN f = D
    BY <2>1
  <2> QED BY <2>1, <2>2
<1>2. ASSUME DOMAIN f \subseteq S, f \in [DOMAIN f -> T] PROVE f \in Map(S, T)
  BY <1>2, Zenon DEF Map
<1> QED BY <1>1, <1>2

\* A function on slots is such a map.
LEMMA MapMade ==
    ASSUME NEW S, NEW T, NEW D, D \subseteq S, NEW f \in [D -> T]
    PROVE  f \in Map(S, T)
BY Zenon DEF Map

\* What is left of a map, or of two, is one again.
LEMMA MapKept ==
    ASSUME NEW S, NEW T, NEW f \in Map(S, T)
    PROVE  /\ \A X : Without(f, X) \in Map(S, T)
           /\ \A g \in Map(S, T) : Overlay(f, g) \in Map(S, T)
<1>1. DOMAIN f \subseteq S /\ f \in [DOMAIN f -> T]
  BY MapIs
<1>2. ASSUME NEW X PROVE Without(f, X) \in Map(S, T)
  <2>1. Without(f, X) \in [DOMAIN f \ X -> T] /\ DOMAIN f \ X \subseteq S
    BY <1>1 DEF Without
  <2> QED BY <2>1, MapMade
<1>3. ASSUME NEW g \in Map(S, T) PROVE Overlay(f, g) \in Map(S, T)
  <2>1. DOMAIN g \subseteq S /\ g \in [DOMAIN g -> T]
    BY MapIs
  <2>2. Overlay(f, g) \in [DOMAIN f \cup DOMAIN g -> T] /\ DOMAIN f \cup DOMAIN g \subseteq S
    BY <1>1, <2>1 DEF Overlay
  <2> QED BY <2>2, MapMade
<1> QED BY <1>2, <1>3

\* The empty map is one.
LEMMA EmptyMap == \A S, T : Empty \in Map(S, T)
<1> SUFFICES ASSUME NEW S, NEW T PROVE Empty \in Map(S, T)
  OBVIOUS
<1>1. Empty \in [{} -> T]
  BY DEF Empty, Without
<1> QED BY <1>1, MapMade

\* The bounds are numbers.
LEMMA BoundsAre ==
    /\ MaxSlot \in Nat /\ MaxSends \in Nat /\ MaxSends # 0 /\ MaxCuts \in Nat
    /\ MaxAttempts \in Nat /\ MaxAttempts # 0
    /\ Slots = 0 .. MaxSlot /\ Own \subseteq Tx /\ Hashes = Tx \X (1 .. MaxSends)
BY DEF Slots, Own, Tx, Mine, Hashes

\* The sequencer, the pool contract and the state sync keep their types.
LEMMA ServicesKept == ServicesTyped /\ [Next]_vars => ServicesTyped'
<1> SUFFICES ASSUME ServicesTyped, [Next]_vars PROVE ServicesTyped'
  OBVIOUS
<1> USE BoundsAre
<1>1. chain \in Seq(Tx) /\ pend \in Seq(Tx) /\ Len(chain) \in Nat /\ Len(pend) \in Nat
  BY DEF ServicesTyped
<1>2. Len(chain \o pend) = Len(chain) + Len(pend)
  BY <1>1, ConcatProperties
<1>3. CASE UNCHANGED services
  BY <1>3 DEF services, ServicesTyped
<1>4. ASSUME NEW t \in Own, Send(t) \/ Reject(t)
      PROVE  ServicesTyped'
  <2>1. UNCHANGED <<chain, pend, sends, next, feed, tops, cuts>>
        /\ \E s \in {"waiting", "failed"} : seq' = [seq EXCEPT ![t] = s]
    BY <1>4 DEF Send, Reject
  <2> QED BY <2>1 DEF ServicesTyped
<1>5. ASSUME NEW t \in Tx, SendToPool(t)
      PROVE  ServicesTyped'
  <2>1. /\ UNCHANGED <<chain, next, feed, tops, cuts>>
        /\ Len(chain \o pend) <= MaxSlot /\ sends[t] < MaxSends /\ pend' = Append(pend, t)
        /\ sends' = [sends EXCEPT ![t] = @ + 1]
        /\ seq' = IF t \in Own THEN [seq EXCEPT ![t] = "sent"] ELSE seq
    BY <1>5 DEF SendToPool, Room
  <2>2. pend' \in Seq(Tx) /\ Len(pend') = Len(pend) + 1
    BY <1>1, <2>1
  <2>3. Len(chain' \o pend') = Len(chain) + Len(pend')
    BY <1>1, <2>1, <2>2, ConcatProperties
  <2>4. Len(chain' \o pend') <= MaxSlot + 1
    BY <1>1, <1>2, <2>1, <2>2, <2>3
  <2>5. sends' \in [Tx -> 0 .. MaxSends]
    BY <2>1 DEF ServicesTyped
  <2>6. seq' \in [Own -> {"new", "waiting", "sent", "failed", "reverted", "mined"}]
    BY <2>1 DEF ServicesTyped
  <2> QED BY <2>1, <2>2, <2>4, <2>5, <2>6 DEF ServicesTyped
<1>6. ASSUME NEW t \in Tx, LeavePool(t)
      PROVE  ServicesTyped'
  <2>1. UNCHANGED <<chain, sends, next, feed, tops, cuts>>
    BY <1>6 DEF LeavePool
  <2>2. PICK k \in DOMAIN pend : pend' = RemoveAt(pend, k)
    BY <1>6 DEF LeavePool
  <2>3. PICK s \in {"waiting", "reverted"} : seq' = IF t \in Own THEN [seq EXCEPT ![t] = s] ELSE seq
    BY <1>6, Zenon DEF LeavePool
  <2>4. pend' \in Seq(Tx) /\ Len(pend') = Len(pend) - 1
    BY <1>1, <2>2, RemoveAtIs
  <2>5. Len(chain' \o pend') = Len(chain) + Len(pend')
    BY <1>1, <2>1, <2>4, ConcatProperties
  <2>6. Len(chain' \o pend') <= MaxSlot + 1
    BY <1>1, <1>2, <2>4, <2>5 DEF ServicesTyped
  <2>7. seq' \in [Own -> {"new", "waiting", "sent", "failed", "reverted", "mined"}]
    BY <2>3 DEF ServicesTyped
  <2> QED BY <2>1, <2>4, <2>6, <2>7 DEF ServicesTyped
<1>7. ASSUME Mine1 PROVE ServicesTyped'
  <2>1. pend # <<>> /\ chain' = Append(chain, Head(pend)) /\ pend' = Tail(pend)
        /\ seq' = [t \in Own |-> IF t = Head(pend) THEN "mined" ELSE seq[t]]
        /\ UNCHANGED <<sends, next, feed, tops, cuts>>
    BY <1>7 DEF Mine1
  <2>2. Head(pend) \in Tx /\ pend' \in Seq(Tx) /\ Len(pend') = Len(pend) - 1
    BY <1>1, <2>1
  <2>3. chain' \in Seq(Tx) /\ Len(chain') = Len(chain) + 1
    BY <1>1, <2>1, <2>2
  <2>4. Len(chain' \o pend') = Len(chain') + Len(pend')
    BY <2>2, <2>3, ConcatProperties
  <2>5. Len(chain' \o pend') <= MaxSlot + 1
    BY <1>1, <1>2, <2>2, <2>3, <2>4 DEF ServicesTyped
  <2>6. seq' \in [Own -> {"new", "waiting", "sent", "failed", "reverted", "mined"}]
    BY <2>1 DEF ServicesTyped
  <2> QED BY <2>1, <2>2, <2>3, <2>5, <2>6 DEF ServicesTyped
<1>8. ASSUME Fetch PROVE ServicesTyped'
  <2> DEFINE seen == SlotsFrom(next)
             top(S) == IF S = {} THEN -1 ELSE Greatest(S)
  <2>1. feed' = "fetched" /\ UNCHANGED <<chain, pend, seq, sends, next, cuts>>
        /\ tops' = IF seen = {} THEN [mined |-> next - 1, pending |-> -1]
                   ELSE [mined |-> top({i \in seen : Mined(i)}), pending |-> top({i \in seen : ~Mined(i)})]
    BY <1>8 DEF Fetch
  <2>2. seen \subseteq Slots
    BY DEF SlotsFrom
  <2>3. \A S \in SUBSET seen : top(S) \in Slots \cup {-1}
    BY <2>2, GreatestIs
  <2>4. next - 1 \in Slots \cup {-1}
    BY DEF ServicesTyped
  <2>5. tops' \in [mined : Slots \cup {-1}, pending : Slots \cup {-1}]
    <3>1. CASE seen = {}
      BY <2>1, <2>4, <3>1
    <3>2. CASE seen # {}
      <4>1. top({i \in seen : Mined(i)}) \in Slots \cup {-1} /\ top({i \in seen : ~Mined(i)}) \in Slots \cup {-1}
        BY <2>3
      <4> HIDE DEF top, seen
      <4> QED BY <2>1, <3>2, <4>1
    <3> QED BY <3>1, <3>2
  <2> QED BY <2>1, <2>5 DEF ServicesTyped
<1>9. ASSUME Store PROVE ServicesTyped'
  <2>1. feed' = "idle" /\ UNCHANGED <<chain, pend, seq, sends, tops, cuts>>
        /\ next' = IF tops.mined + 1 > next THEN tops.mined + 1 ELSE next
    BY <1>9 DEF Store
  <2>2. tops.mined \in Slots \cup {-1} /\ next \in 0 .. (MaxSlot + 1)
    BY DEF ServicesTyped
  <2>3. next' \in 0 .. (MaxSlot + 1)
    BY <2>1, <2>2
  <2> QED BY <2>1, <2>3 DEF ServicesTyped
<1>10. ASSUME StoreFails PROVE ServicesTyped'
  BY <1>10 DEF StoreFails, ServicesTyped
<1>11. ASSUME NEW i \in Slots, Rollback(i) PROVE ServicesTyped'
  BY <1>11 DEF Rollback, ServicesTyped
<1>12. ASSUME Clean PROVE ServicesTyped'
  BY <1>12 DEF Clean, ServicesTyped
<1>13. ASSUME Restart PROVE ServicesTyped'
  <2>1. feed' = "failed" /\ cuts < MaxCuts /\ cuts' = cuts + 1
        /\ UNCHANGED <<chain, pend, seq, sends, next, tops>>
    BY <1>13 DEF Restart
  <2> QED BY <2>1 DEF ServicesTyped
<1>14. CASE \/ \E t \in Own : JobSent(t) \/ JobFailed(t) \/ JobReverted(t)
            \/ GetAllHistory \/ ConvertMined \/ ConvertPending \/ Merge \/ RecordsWritten \/ UNCHANGED vars
  <2>1. UNCHANGED services
    BY <1>14 DEF JobSent, JobFailed, JobReverted, GetAllHistory, ConvertMined, ConvertPending, Merge,
       RecordsWritten, vars
  <2> QED BY <1>3, <2>1
<1> QED BY <1>4, <1>5, <1>6, <1>7, <1>8, <1>9, <1>10, <1>11, <1>12, <1>13, <1>14 DEF Next

\* Whatever reaches the pool was sent.
LEMMA WasSentKept == ServicesTyped /\ WasSent /\ [Next]_vars => WasSent'
<1> SUFFICES ASSUME ServicesTyped, WasSent, [Next]_vars PROVE WasSent'
  OBVIOUS
<1>1. chain \in Seq(Tx) /\ pend \in Seq(Tx)
  BY DEF ServicesTyped
<1>2. Own \subseteq Tx /\ sends \in [Tx -> Nat]
      /\ seq \in [Own -> {"new", "waiting", "sent", "failed", "reverted", "mined"}]
  <2>1. 0 .. MaxSends \subseteq Nat
    BY BoundsAre
  <2> QED BY <2>1, BoundsAre DEF ServicesTyped
<1>3. CASE UNCHANGED <<chain, pend, seq, sends>>
  BY <1>3 DEF WasSent
<1>4. ASSUME NEW t \in Own, Send(t) \/ Reject(t)
      PROVE  WasSent'
  <2>1. UNCHANGED <<chain, pend, sends>> /\ \E s \in {"waiting", "failed"} : seq' = [seq EXCEPT ![t] = s]
    BY <1>4 DEF Send, Reject
  <2>2. \A u \in Own : seq'[u] \in {"sent", "mined"} => seq[u] \in {"sent", "mined"}
    BY <1>2, <2>1
  <2> QED BY <2>1, <2>2 DEF WasSent
<1>5. ASSUME NEW t \in Tx, SendToPool(t)
      PROVE  WasSent'
  <2>1. /\ chain' = chain /\ pend' = Append(pend, t) /\ sends' = [sends EXCEPT ![t] = @ + 1]
        /\ seq' = IF t \in Own THEN [seq EXCEPT ![t] = "sent"] ELSE seq
    BY <1>5 DEF SendToPool
  <2>2. sends'[t] # 0 /\ \A u \in Tx : sends[u] # 0 => sends'[u] # 0
    <3>1. sends' = [sends EXCEPT ![t] = sends[t] + 1] /\ sends[t] \in Nat /\ DOMAIN sends = Tx
      BY <1>2, <2>1
    <3>2. sends'[t] = sends[t] + 1 /\ \A u \in Tx : u # t => sends'[u] = sends[u]
      BY <3>1
    <3> QED BY <3>1, <3>2
  <2>3. \A k \in DOMAIN pend' : pend'[k] = t \/ (k \in DOMAIN pend /\ pend'[k] = pend[k])
    BY <1>1, <2>1
  <2>4. (\A k \in DOMAIN chain : chain[k] \in Tx) /\ \A k \in DOMAIN pend : pend[k] \in Tx
    BY <1>1
  <2>5. \A u \in Own : seq'[u] \in {"sent", "mined"} => u = t \/ seq[u] \in {"sent", "mined"}
    BY <1>2, <2>1
  <2>6. (\A k \in DOMAIN chain' : sends'[chain'[k]] # 0)
    BY <2>1, <2>2, <2>4 DEF WasSent
  <2>7. \A k \in DOMAIN pend' : sends'[pend'[k]] # 0
    BY <2>2, <2>3, <2>4 DEF WasSent
  <2>8. \A u \in Own : seq'[u] \in {"sent", "mined"} => sends'[u] # 0
    BY <1>2, <2>2, <2>5 DEF WasSent
  <2> QED BY <2>6, <2>7, <2>8 DEF WasSent
<1>6. ASSUME NEW t \in Tx, LeavePool(t)
      PROVE  WasSent'
  <2>1. chain' = chain /\ sends' = sends
    BY <1>6 DEF LeavePool
  <2>2. PICK k \in DOMAIN pend : pend' = RemoveAt(pend, k)
    BY <1>6 DEF LeavePool
  <2>3. PICK s \in {"waiting", "reverted"} : seq' = IF t \in Own THEN [seq EXCEPT ![t] = s] ELSE seq
    BY <1>6, Zenon DEF LeavePool
  <2>4. /\ pend' \in Seq(Tx) /\ Len(pend') = Len(pend) - 1
        /\ \A j \in 1 .. (Len(pend) - 1) : pend'[j] = IF j < k THEN pend[j] ELSE pend[j + 1]
    BY <1>1, <2>2, RemoveAtIs
  <2>5. \A j \in DOMAIN pend' : \E m \in DOMAIN pend : pend'[j] = pend[m]
    <3> SUFFICES ASSUME NEW j \in DOMAIN pend' PROVE \E m \in DOMAIN pend : pend'[j] = pend[m]
      OBVIOUS
    <3>1. Len(pend) \in Nat /\ DOMAIN pend = 1 .. Len(pend) /\ DOMAIN pend' = 1 .. (Len(pend) - 1)
      BY <1>1, <2>4
    <3>2. j \in 1 .. (Len(pend) - 1) /\ j \in DOMAIN pend /\ j + 1 \in DOMAIN pend
      BY <3>1
    <3> QED BY <2>4, <3>2
  <2>6. \A u \in Own : seq'[u] \in {"sent", "mined"} => seq[u] \in {"sent", "mined"}
    BY <1>2, <2>3
  <2> QED BY <2>1, <2>5, <2>6 DEF WasSent
<1>7. ASSUME Mine1 PROVE WasSent'
  <2>1. pend # <<>> /\ chain' = Append(chain, Head(pend)) /\ pend' = Tail(pend) /\ sends' = sends
        /\ seq' = [t \in Own |-> IF t = Head(pend) THEN "mined" ELSE seq[t]]
    BY <1>7 DEF Mine1
  <2>2. 1 \in DOMAIN pend /\ Head(pend) = pend[1]
    BY <1>1, <2>1
  <2>3. sends[Head(pend)] # 0
    BY <2>2 DEF WasSent
  <2>4. \A k \in DOMAIN chain' : chain'[k] = Head(pend) \/ (k \in DOMAIN chain /\ chain'[k] = chain[k])
    BY <1>1, <2>1
  <2>5. \A k \in DOMAIN pend' : k + 1 \in DOMAIN pend /\ pend'[k] = pend[k + 1]
    BY <1>1, <2>1
  <2>6. \A u \in Own : seq'[u] \in {"sent", "mined"} => u = Head(pend) \/ seq[u] \in {"sent", "mined"}
    BY <1>2, <2>1
  <2> QED BY <2>1, <2>3, <2>4, <2>5, <2>6 DEF WasSent
<1>8. CASE \/ \E t \in Own : JobSent(t) \/ JobFailed(t) \/ JobReverted(t)
           \/ Fetch \/ Store \/ StoreFails \/ \E i \in Slots : Rollback(i)
           \/ Clean \/ GetAllHistory \/ ConvertMined \/ ConvertPending \/ Merge \/ RecordsWritten \/ Restart
           \/ UNCHANGED vars
  <2>1. UNCHANGED <<chain, pend, seq, sends>>
    BY <1>8 DEF JobSent, JobFailed, JobReverted, Fetch, Store, StoreFails, Rollback, Clean,
       GetAllHistory, ConvertMined, ConvertPending, Merge, RecordsWritten, Restart, vars, services
  <2> QED BY <1>3, <2>1
<1> QED BY <1>4, <1>5, <1>6, <1>7, <1>8 DEF Next

\* The records keep their types.
LEMMA RecordsKept == ServicesTyped /\ WasSent /\ RecordsTyped /\ [Next]_vars => RecordsTyped'
<1> SUFFICES ASSUME ServicesTyped, WasSent, RecordsTyped, [Next]_vars PROVE RecordsTyped'
  OBVIOUS
<1> USE BoundsAre
<1>1. CASE UNCHANGED <<queued, sent, failed, local, rec, dbFailed, tracked, torn>>
  BY <1>1 DEF RecordsTyped
<1>2. ASSUME NEW t \in Own, Send(t) PROVE RecordsTyped'
  <2>1. queued' = queued \cup {t} /\ UNCHANGED <<sent, failed, local, rec, dbFailed, tracked, torn>>
    BY <1>2 DEF Send, db
  <2> QED BY <2>1 DEF RecordsTyped
<1>3. ASSUME NEW t \in Own, JobSent(t) PROVE RecordsTyped'
  <2>1. UNCHANGED <<queued, failed, local, dbFailed, torn>> /\ seq[t] \in {"sent", "mined"} /\ SetTxHash(t)
    BY <1>3 DEF JobSent, db
  <2>2. sends[t] \in 1 .. MaxSends
    BY <2>1 DEF ServicesTyped, WasSent
  <2>3. <<t, sends[t]>> \in Hashes
    BY <2>2
  <2>4. CASE t \in queued
    <3>1. rec' = [rec EXCEPT ![t].sends = sends[t]] /\ sent' = sent \cup {<<t, sends[t]>>}
          /\ tracked' = tracked \cup {t}
      BY <2>1, <2>4 DEF SetTxHash
    <3>2. rec' \in [Own -> [state : {"Pending", "RejectedByRelayer", "RejectedByPool"}, sends : 0 .. MaxSends]]
      <4>1. sends[t] \in 0 .. MaxSends
        BY <2>2
      <4>2. [rec[t] EXCEPT !.sends = sends[t]]
                \in [state : {"Pending", "RejectedByRelayer", "RejectedByPool"}, sends : 0 .. MaxSends]
        BY <4>1 DEF RecordsTyped
      <4>3. rec' = [rec EXCEPT ![t] = [rec[t] EXCEPT !.sends = sends[t]]]
        BY <3>1
      <4> QED BY <4>2, <4>3 DEF RecordsTyped
    <3> QED BY <2>1, <2>3, <3>1, <3>2 DEF RecordsTyped
  <2>5. CASE t \notin queued
    BY <1>1, <2>1, <2>5 DEF SetTxHash
  <2> QED BY <2>4, <2>5
<1>4. ASSUME NEW t \in Own, JobFailed(t) PROVE RecordsTyped'
  <2>1. /\ rec' = [rec EXCEPT ![t].state = "RejectedByRelayer"]
        /\ failed' = failed \cup {t} /\ dbFailed' = dbFailed \cup {t}
        /\ queued' \subseteq queued /\ sent' \subseteq sent /\ UNCHANGED <<local, tracked, torn>>
    BY <1>4 DEF JobFailed
  <2>2. rec' \in [Own -> [state : {"Pending", "RejectedByRelayer", "RejectedByPool"}, sends : 0 .. MaxSends]]
    BY <2>1 DEF RecordsTyped
  <2> QED BY <2>1, <2>2 DEF RecordsTyped
<1>5. ASSUME NEW t \in Own, JobReverted(t) PROVE RecordsTyped'
  <2> DEFINE h == <<t, sends[t]>>
  <2>1. /\ rec' = [rec EXCEPT ![t] = [state |-> "RejectedByPool",
                                      sends |-> IF h \in sent THEN @.sends ELSE sends[t]]]
        /\ failed' = failed \cup {t} /\ dbFailed' = dbFailed \cup {t}
        /\ queued' \subseteq queued /\ sent' \subseteq sent /\ UNCHANGED <<local, tracked, torn>>
    BY <1>5 DEF JobReverted
  <2>2. sends[t] \in 0 .. MaxSends
    BY DEF ServicesTyped
  <2>3. rec' \in [Own -> [state : {"Pending", "RejectedByRelayer", "RejectedByPool"}, sends : 0 .. MaxSends]]
    <3> HIDE DEF h
    <3> QED BY <2>1, <2>2 DEF RecordsTyped
  <2> QED BY <2>1, <2>3 DEF RecordsTyped
<1>6. ASSUME NEW i \in Slots, Rollback(i) PROVE RecordsTyped'
  <2>1. tracked' \subseteq tracked /\ torn' = TRUE /\ UNCHANGED <<queued, sent, failed, local, rec, dbFailed>>
    BY <1>6 DEF Rollback, records
  <2> QED BY <2>1 DEF RecordsTyped
<1>7. ASSUME Clean PROVE RecordsTyped'
  <2>1. tracked' \subseteq tracked /\ torn' = FALSE /\ failed' = {} /\ dbFailed' = {}
        /\ UNCHANGED <<queued, sent, local, rec>>
    BY <1>7 DEF Clean
  <2> QED BY <2>1 DEF RecordsTyped
<1>8. ASSUME GetAllHistory PROVE RecordsTyped'
  <2>1. UNCHANGED <<queued, sent, failed, rec, dbFailed, tracked, torn>>
        /\ (local' = local \/ local' = Unlisted(Kept, sent))
    BY <1>8 DEF GetAllHistory, records, db
  <2>2. local' \subseteq local \cup sent
    BY <2>1 DEF Unlisted
  <2> QED BY <2>1, <2>2 DEF RecordsTyped
<1>9. ASSUME ConvertMined PROVE RecordsTyped'
  <2>1. queued' \subseteq queued /\ sent' \subseteq sent /\ UNCHANGED <<failed, local, rec, dbFailed, tracked, torn>>
    BY <1>9 DEF ConvertMined, db
  <2> QED BY <2>1 DEF RecordsTyped
<1>10. ASSUME Merge PROVE RecordsTyped'
  <2>1. UNCHANGED <<queued, sent, failed, rec, dbFailed, tracked>> /\ local' = Unlisted(current', sent)
        /\ (torn' = torn \/ torn' = FALSE)
    BY <1>10 DEF Merge, records
  <2>2. local' \subseteq sent
    BY <2>1 DEF Unlisted
  <2> QED BY <2>1, <2>2 DEF RecordsTyped
<1>11. ASSUME Restart PROVE RecordsTyped'
  <2>1. failed' = dbFailed /\ queued' = {} /\ sent' = {} /\ local' = {} /\ tracked' = {}
        /\ UNCHANGED <<rec, dbFailed, torn>>
    BY <1>11 DEF Restart
  <2> QED BY <2>1 DEF RecordsTyped
<1>12. CASE \/ \E t \in Own : Reject(t)
            \/ \E t \in Tx : SendToPool(t) \/ LeavePool(t)
            \/ Mine1 \/ Fetch \/ Store \/ StoreFails \/ ConvertPending \/ RecordsWritten \/ UNCHANGED vars
  <2>1. UNCHANGED <<queued, sent, failed, local, rec, dbFailed, tracked, torn>>
    BY <1>12 DEF Reject, SendToPool, LeavePool, Mine1, Fetch, Store, StoreFails, ConvertPending,
       RecordsWritten, vars, records, db
  <2> QED BY <1>1, <2>1
<1> QED BY <1>2, <1>3, <1>4, <1>5, <1>6, <1>7, <1>8, <1>9, <1>10, <1>11, <1>12 DEF Next

\* A hash the hot sync reads is one that was sent.
LEMMA HashAtIs ==
    ASSUME ServicesTyped, WasSent, NEW i \in SlotsFrom(next)
    PROVE  HashAt(i) \in Hashes
<1>1. chain \in Seq(Tx) /\ pend \in Seq(Tx) /\ Len(chain) \in Nat /\ Len(pend) \in Nat
  BY DEF ServicesTyped
<1>2. Len(chain \o pend) = Len(chain) + Len(pend)
      /\ \A j \in 1 .. (Len(chain) + Len(pend)) :
            (chain \o pend)[j] = IF j <= Len(chain) THEN chain[j] ELSE pend[j - Len(chain)]
  BY <1>1, ConcatProperties
<1>3. i + 1 \in 1 .. (Len(chain) + Len(pend)) /\ i \in Nat
  <2>1. i \in Nat /\ i < Len(chain \o pend)
    BY BoundsAre DEF SlotsFrom
  <2> QED BY <1>1, <1>2, <2>1
<1>4. TxAt(i) \in Tx /\ sends[TxAt(i)] # 0
  <2>1. CASE i + 1 <= Len(chain)
    <3>1. i + 1 \in DOMAIN chain /\ TxAt(i) = chain[i + 1]
      BY <1>1, <1>2, <1>3, <2>1 DEF TxAt
    <3> QED BY <1>1, <3>1 DEF WasSent
  <2>2. CASE ~(i + 1 <= Len(chain))
    <3>1. i + 1 - Len(chain) \in DOMAIN pend /\ TxAt(i) = pend[i + 1 - Len(chain)]
      <4>1. i + 1 - Len(chain) \in 1 .. Len(pend)
        BY <1>1, <1>3, <2>2
      <4>2. TxAt(i) = pend[i + 1 - Len(chain)]
        BY <1>2, <1>3, <2>2 DEF TxAt
      <4>3. DOMAIN pend = 1 .. Len(pend)
        BY <1>1
      <4> QED BY <4>1, <4>2, <4>3
    <3>2. \A k \in DOMAIN pend : pend[k] \in Tx /\ sends[pend[k]] # 0
      BY <1>1 DEF WasSent
    <3> QED BY <3>1, <3>2, Zenon
  <2> QED BY <2>1, <2>2
<1>5. sends[TxAt(i)] \in 1 .. MaxSends
  BY <1>4, BoundsAre DEF ServicesTyped
<1> QED BY <1>4, <1>5, BoundsAre DEF HashAt

\* What a conversion brings are records of the list.
LEMMA BuiltTyped ==
    ASSUME NEW from \in Map(Slots, Hashes), NEW out \in Map(Slots, Outcome), DOMAIN out = DOMAIN from,
           NEW kind \in {"mined", "pending"}
    PROVE  Built(from, out, kind) \in Map(Slots, HistoryRecord)
<1>1. DOMAIN from \subseteq Slots /\ from \in [DOMAIN from -> Hashes]
  BY MapIs
<1> DEFINE D == {j \in DOMAIN out : out[j] # "none"}
<1>2. \A i \in D : Record(IF out[i] = "local" THEN "local" ELSE kind, from[i]) \in HistoryRecord
  BY <1>1 DEF Record, HistoryRecord
<1>3. Built(from, out, kind) \in [D -> HistoryRecord]
  BY <1>2 DEF Built
<1>4. D \subseteq Slots
  BY <1>1
<1> HIDE DEF D
<1> QED BY <1>3, <1>4, MapMade

\* The memos, the list and the database keep their types.
LEMMA MemosKept == TypeInv /\ [Next]_vars => MemosTyped'
<1> SUFFICES ASSUME TypeInv, [Next]_vars PROVE MemosTyped'
  OBVIOUS
<1> DEFINE M == Map(Slots, Hashes)
<1>1. /\ unparsed \in M /\ unparsedPending \in M /\ dbMemo \in M /\ dbPending \in M /\ dbTx \in M
      /\ current \in Map(Slots, HistoryRecord) /\ unwritten \subseteq DOMAIN dbTx
      /\ syncIndex \in Slots \cup {-1} /\ dbSync \in Slots \cup {-1}
      /\ dbFails \in {Undefined} \cup SUBSET Slots
  BY DEF TypeInv, MemosTyped
<1>2. /\ \A f \in M : \A X : Without(f, X) \in M
      /\ \A f, g \in M : Overlay(f, g) \in M
      /\ Empty \in M
      /\ \A f \in M : DOMAIN f \subseteq Slots /\ \A i \in DOMAIN f : f[i] \in Hashes
  BY MapKept, MapIs, EmptyMap
<1>3. /\ \A X : Without(current, X) \in Map(Slots, HistoryRecord)
      /\ Empty \in Map(Slots, HistoryRecord)
  BY <1>1, MapKept, EmptyMap
<1>4. \A S \in SUBSET Slots : S # {} => Greatest(S) \in Slots
  BY GreatestIs
<1> HIDE DEF M
<1> USE DEF MemosTyped
<1>5. CASE UNCHANGED <<unparsed, unparsedPending, dbMemo, dbPending, current, dbTx, unwritten,
                       syncIndex, dbSync, dbFails>>
  BY <1>1, <1>5 DEF M
<1>6. ASSUME NEW t \in Own, JobReverted(t) PROVE MemosTyped'
  <2>1. UNCHANGED <<unparsed, unparsedPending, dbMemo, dbPending, dbTx, unwritten, syncIndex, dbSync, dbFails>>
        /\ \E h : RemovePendingRecord(t, h)
    BY <1>6 DEF JobReverted, memos
  <2>2. current' = current \/ \E X : current' = Without(current, X)
    BY <2>1 DEF RemovePendingRecord
  <2>3. current' \in Map(Slots, HistoryRecord)
    BY <1>1, <1>3, <2>2
  <2> QED BY <1>1, <2>1, <2>3 DEF M
<1>7. ASSUME Fetch PROVE MemosTyped'
  <2> DEFINE seen   == SlotsFrom(next)
             ours   == {i \in seen : TxAt(i) \in Mine}
             mined  == [i \in {j \in ours : Mined(j)} |-> HashAt(i)]
             pending == [i \in {j \in ours : ~Mined(j)} |-> HashAt(i)]
             fresh  == {i \in DOMAIN mined : i > syncIndex}
  <2>1. /\ unparsed' = Overlay(unparsed, [i \in fresh |-> mined[i]])
        /\ unparsedPending' = Overlay(unparsedPending, pending)
        /\ dbMemo' = Overlay(dbMemo, mined) /\ dbPending' = Overlay(dbPending, pending)
        /\ UNCHANGED <<current, dbTx, unwritten, syncIndex, dbSync, dbFails>>
    BY <1>7 DEF Fetch
  <2>2. seen \subseteq Slots /\ \A i \in seen : HashAt(i) \in Hashes
    BY HashAtIs DEF SlotsFrom, TypeInv
  <2>3. mined \in M
    <3>1. mined \in [{j \in ours : Mined(j)} -> Hashes] /\ {j \in ours : Mined(j)} \subseteq Slots
      BY <2>2
    <3> QED BY <3>1, MapMade DEF M
  <2>4. pending \in M
    <3>1. pending \in [{j \in ours : ~Mined(j)} -> Hashes] /\ {j \in ours : ~Mined(j)} \subseteq Slots
      BY <2>2
    <3> QED BY <3>1, MapMade DEF M
  <2>5. [i \in fresh |-> mined[i]] \in M
    <3> HIDE DEF mined
    <3>1. DOMAIN mined \subseteq Slots /\ \A i \in DOMAIN mined : mined[i] \in Hashes
      BY <1>2, <2>3
    <3>2. [i \in fresh |-> mined[i]] \in [fresh -> Hashes] /\ fresh \subseteq Slots
      BY <3>1
    <3> HIDE DEF fresh
    <3> QED BY <3>2, MapMade DEF M
  <2> HIDE DEF mined, pending, fresh
  <2>6. unparsed' \in M /\ unparsedPending' \in M /\ dbMemo' \in M /\ dbPending' \in M
    BY <1>1, <1>2, <2>1, <2>3, <2>4, <2>5
  <2> QED BY <1>1, <2>1, <2>6 DEF M
<1>8. ASSUME Store PROVE MemosTyped'
  <2>1. (\E X : unparsedPending' = Without(unparsedPending, X)) /\ (\E X : dbPending' = Without(dbPending, X))
        /\ UNCHANGED <<unparsed, dbMemo, current, dbTx, unwritten, syncIndex, dbSync, dbFails>>
    BY <1>8 DEF Store
  <2>2. unparsedPending' \in M /\ dbPending' \in M
    BY <1>1, <1>2, <2>1
  <2> QED BY <1>1, <2>1, <2>2 DEF M
<1>9. ASSUME NEW i \in Slots, Rollback(i) PROVE MemosTyped'
  <2> DEFINE gone == {j \in Slots : j >= i}
             left == Without(unparsed, gone)
  <2>1. /\ current' = Without(current, gone) /\ unparsed' = left
        /\ unparsedPending' = Without(unparsedPending, gone)
        /\ syncIndex' = IF left = Empty THEN -1 ELSE Greatest(DOMAIN left)
        /\ dbTx' = Without(dbTx, gone) /\ dbMemo' = Without(dbMemo, gone)
        /\ dbPending' = Without(dbPending, gone)
        /\ dbSync' = syncIndex' /\ unwritten' = {}
        /\ dbFails' = IF dbFails = Undefined THEN Undefined ELSE dbFails \ gone
    BY <1>9 DEF Rollback
  <2>2. left \in M
    BY <1>1, <1>2
  <2>3. syncIndex' \in Slots \cup {-1}
    <3>1. CASE left = Empty
      BY <2>1, <3>1
    <3>2. CASE left # Empty
      <4>1. DOMAIN left # {}
        <5>1. DOMAIN left = DOMAIN unparsed \ gone
          BY WithoutIs
        <5> QED BY <3>2, <5>1, NothingLeft
      <4>2. DOMAIN left \subseteq Slots
        BY <1>2, <2>2
      <4> HIDE DEF left
      <4> QED BY <1>4, <2>1, <3>2, <4>1, <4>2
    <3> QED BY <3>1, <3>2
  <2>4. dbFails' \in {Undefined} \cup SUBSET Slots
    BY <1>1, <2>1
  <2> HIDE DEF gone
  <2>5. unparsed' \in M /\ unparsedPending' \in M /\ dbMemo' \in M /\ dbPending' \in M /\ dbTx' \in M
        /\ current' \in Map(Slots, HistoryRecord)
    BY <1>1, <1>2, <1>3, <2>1
  <2> QED BY <2>1, <2>3, <2>4, <2>5 DEF M
<1>10. ASSUME Clean PROVE MemosTyped'
  <2>1. /\ syncIndex' = -1 /\ unparsed' = Empty /\ unparsedPending' = Empty /\ current' = Empty
        /\ dbMemo' = Empty /\ dbPending' = Empty /\ dbTx' = Empty
        /\ dbSync' = -1 /\ dbFails' = Undefined /\ unwritten' = {}
    BY <1>10 DEF Clean
  <2> QED BY <1>2, <1>3, <2>1 DEF M
<1>11. ASSUME GetAllHistory PROVE MemosTyped'
  <2>1. (current' = current \/ current' = Kept)
        /\ UNCHANGED <<unparsed, unparsedPending, dbMemo, dbPending, dbTx, unwritten, syncIndex, dbSync, dbFails>>
    BY <1>11 DEF GetAllHistory, memos, db
  <2>2. current' \in Map(Slots, HistoryRecord)
    BY <1>1, <1>3, <2>1 DEF Kept
  <2> QED BY <1>1, <2>1, <2>2 DEF M
<1>12. ASSUME Merge PROVE MemosTyped'
  <2> DEFINE mined   == With(got.mined, {"full", "partial"})
             resync  == With(got.mined, {"partial"}) \cup With(got.pending, {"partial"})
             success == With(got.mined, {"full", "partial", "local"})
                          \cup With(got.pending, {"full", "partial", "local"})
             none    == With(got.mined, {"none"}) \cup With(got.pending, {"none"})
             first   == Built(asked.mined, got.mined, "mined")
             second  == Built(asked.pending, got.pending, "pending")
  <2>1. got.mined # Waiting /\ got.pending # Waiting
    BY <1>12 DEF Merge
  <2>2. /\ current' = Overlay(Kept, Overlay(first, second))
        /\ dbTx' = Overlay(dbTx, [i \in mined |-> asked.mined[i]])
        /\ unwritten' = unwritten \cup mined
        /\ dbFails' = none \cup resync
        /\ unparsed' = Without(unparsed, success \ resync)
        /\ \E last \in IF mined = {} THEN {syncIndex} ELSE mined :
              syncIndex' = IF last > syncIndex THEN last ELSE syncIndex
        /\ dbSync' = syncIndex'
        /\ UNCHANGED <<unparsedPending, dbMemo, dbPending>>
    BY <1>12 DEF Merge
  <2>3. /\ asked.mined \in M /\ asked.pending \in M
        /\ got.mined \in Map(Slots, Outcome) /\ got.pending \in Map(Slots, Outcome)
        /\ DOMAIN got.mined = DOMAIN asked.mined /\ DOMAIN got.pending = DOMAIN asked.pending
    BY <2>1 DEF TypeInv, RunTyped, Answered, M
  <2>4. /\ DOMAIN asked.mined \subseteq Slots /\ DOMAIN asked.pending \subseteq Slots
        /\ \A i \in DOMAIN asked.mined : asked.mined[i] \in Hashes
    BY <1>2, <2>3
  <2>5. mined \subseteq DOMAIN asked.mined /\ mined \subseteq Slots /\ none \subseteq Slots /\ resync \subseteq Slots
    BY <2>3, <2>4 DEF With
  <2>6. first \in Map(Slots, HistoryRecord) /\ second \in Map(Slots, HistoryRecord)
    BY <2>3, BuiltTyped DEF M
  <2>7. [i \in mined |-> asked.mined[i]] \in M
    <3>1. [i \in mined |-> asked.mined[i]] \in [mined -> Hashes]
      BY <2>4, <2>5
    <3> HIDE DEF mined
    <3> QED BY <2>5, <3>1, MapMade DEF M
  <2> HIDE DEF mined, resync, success, none, first, second
  <2>8. current' \in Map(Slots, HistoryRecord)
    <3>1. Overlay(first, second) \in Map(Slots, HistoryRecord) /\ Kept \in Map(Slots, HistoryRecord)
      BY <1>3, <2>6, MapKept DEF Kept
    <3> QED BY <2>2, <3>1, MapKept
  <2>9. dbTx' \in M /\ unwritten' \subseteq DOMAIN dbTx'
    <3>1. dbTx' \in M
      BY <1>1, <1>2, <2>2, <2>7
    <3>2. DOMAIN dbTx' = DOMAIN dbTx \cup mined
      BY <2>2 DEF Overlay
    <3> QED BY <1>1, <2>2, <3>1, <3>2
  <2>10. syncIndex' \in Slots \cup {-1}
    BY <1>1, <2>2, <2>5
  <2>11. unparsed' \in M /\ dbFails' \in SUBSET Slots
    BY <1>1, <1>2, <2>2, <2>5
  <2> QED BY <1>1, <2>2, <2>8, <2>9, <2>10, <2>11 DEF M
<1>13. ASSUME RecordsWritten PROVE MemosTyped'
  <2>1. unwritten' = {} /\ UNCHANGED <<unparsed, unparsedPending, dbMemo, dbPending, current, dbTx,
                                       syncIndex, dbSync, dbFails>>
    BY <1>13 DEF RecordsWritten, memos
  <2> QED BY <1>1, <2>1 DEF M
<1>14. ASSUME Restart PROVE MemosTyped'
  <2> DEFINE from     == IF dbSync = 0 THEN -1 ELSE dbSync
             mined    == {i \in DOMAIN dbMemo : i > from}
             topMined == IF mined = {} THEN -1 ELSE Greatest(mined)
             fails    == IF dbFails = Undefined THEN DOMAIN dbMemo \ DOMAIN dbTx'
                         ELSE dbFails \cap DOMAIN dbMemo
             low      == {j \in DOMAIN dbPending : j > from /\ j > topMined}
  <2>1. /\ \E lost \in SUBSET unwritten : dbTx' = Without(dbTx, lost)
        /\ unwritten' = {} /\ syncIndex' = from
        /\ unparsed' = [i \in mined \cup fails |-> dbMemo[i]]
        /\ unparsedPending' = [i \in low |-> dbPending[i]]
        /\ current' = [i \in DOMAIN dbTx' |-> Record("mined", dbTx'[i])]
        /\ UNCHANGED <<dbMemo, dbPending, dbSync, dbFails>>
    BY <1>14 DEF Restart
  <2>2. dbTx' \in M
    BY <1>1, <1>2, <2>1
  <2>3. mined \cup fails \subseteq DOMAIN dbMemo /\ low \subseteq DOMAIN dbPending /\ from \in Slots \cup {-1}
    BY <1>1
  <2>4. unparsed' \in M
    <3>1. unparsed' \in [mined \cup fails -> Hashes] /\ mined \cup fails \subseteq Slots
      BY <1>1, <1>2, <2>1, <2>3
    <3> QED BY <3>1, MapMade DEF M
  <2>5. unparsedPending' \in M
    <3>1. low \subseteq Slots /\ \A i \in low : dbPending[i] \in Hashes
      BY <1>1, <1>2, <2>3
    <3> HIDE DEF low
    <3>2. unparsedPending' \in [low -> Hashes]
      BY <2>1, <3>1
    <3> QED BY <3>1, <3>2, MapMade DEF M
  <2>6. current' \in Map(Slots, HistoryRecord)
    <3>1. DOMAIN dbTx' \subseteq Slots /\ \A i \in DOMAIN dbTx' : dbTx'[i] \in Hashes
      BY <1>2, <2>2
    <3>2. current' \in [DOMAIN dbTx' -> HistoryRecord]
      BY <2>1, <3>1 DEF Record, HistoryRecord
    <3> QED BY <3>1, <3>2, MapMade
  <2> QED BY <1>1, <2>1, <2>2, <2>3, <2>4, <2>5, <2>6 DEF M
<1>15. CASE \/ \E t \in Own : Send(t) \/ Reject(t) \/ JobSent(t) \/ JobFailed(t)
            \/ \E t \in Tx : SendToPool(t) \/ LeavePool(t)
            \/ Mine1 \/ StoreFails \/ ConvertMined \/ ConvertPending \/ UNCHANGED vars
  <2>1. UNCHANGED <<unparsed, unparsedPending, dbMemo, dbPending, current, dbTx, unwritten,
                    syncIndex, dbSync, dbFails>>
    BY <1>15 DEF Send, Reject, JobSent, JobFailed, SendToPool, LeavePool, Mine1, StoreFails, ConvertMined,
       ConvertPending, vars, memos, db
  <2> QED BY <1>5, <2>1
<1> QED BY <1>6, <1>7, <1>8, <1>9, <1>10, <1>11, <1>12, <1>13, <1>14, <1>15 DEF Next

\* The running history sync keeps its types, and each answer is one to what was asked.
LEMMA RunKept == TypeInv /\ [Next]_vars => RunTyped' /\ Answered'
<1> SUFFICES ASSUME TypeInv, [Next]_vars PROVE RunTyped' /\ Answered'
  OBVIOUS
<1> DEFINE M == Map(Slots, Hashes)
           G == {Waiting} \cup Map(Slots, Outcome)
<1>1. /\ unparsed \in M /\ unparsedPending \in M
      /\ hpc \in {"idle", "details"} /\ attempt \in 0 .. MaxAttempts /\ 1 \in 0 .. MaxAttempts
      /\ asked \in [mined : M, pending : M] /\ got \in [mined : G, pending : G] /\ Answered
  BY BoundsAre DEF TypeInv, MemosTyped, RunTyped
<1>2. NotGot \in [mined : G, pending : G] /\ NotGot.mined = Waiting /\ NotGot.pending = Waiting
  BY DEF NotGot
<1>3. Idle \in [mined : M, pending : M]
  BY EmptyMap DEF Idle
<1>4. \A f \in M : DOMAIN f \subseteq Slots
  BY MapIs
<1>5. \A D \in SUBSET Slots : \A out \in [D -> Outcome] : out \in G
  BY MapMade
<1>6. ASSUME hpc' \in {"idle", "details"}, attempt' \in 0 .. MaxAttempts,
             asked' \in [mined : M, pending : M], got' \in [mined : G, pending : G]
      PROVE  RunTyped'
  BY <1>6 DEF RunTyped
<1> HIDE DEF M, G
<1>7. CASE UNCHANGED running
  BY <1>1, <1>6, <1>7 DEF running, Answered
<1>8. ASSUME GetAllHistory PROVE RunTyped' /\ Answered'
  <2>1. got' = NotGot
    BY <1>8 DEF GetAllHistory
  <2>2. \/ hpc' = "details" /\ attempt' = 1 /\ asked' = [mined |-> unparsed, pending |-> unparsedPending]
        \/ UNCHANGED <<hpc, attempt, asked>>
    BY <1>8 DEF GetAllHistory
  <2>3. hpc' \in {"idle", "details"} /\ attempt' \in 0 .. MaxAttempts /\ asked' \in [mined : M, pending : M]
    BY <1>1, <2>2
  <2>4. Answered'
    BY <1>2, <2>1 DEF Answered
  <2> QED BY <1>2, <1>6, <2>1, <2>3, <2>4
<1>9. ASSUME Merge PROVE RunTyped' /\ Answered'
  <2>1. got' = NotGot
    BY <1>9 DEF Merge
  <2>2. \/ attempt < MaxAttempts /\ attempt' = attempt + 1 /\ hpc' = hpc
           /\ asked' = [mined |-> unparsed', pending |-> unparsedPending]
        \/ hpc' = "idle" /\ attempt' = 0 /\ asked' = Idle
    BY <1>9 DEF Merge
  <2>3. unparsed' \in M
    BY MemosKept DEF MemosTyped, M
  <2>4. hpc' \in {"idle", "details"} /\ attempt' \in 0 .. MaxAttempts
    BY <1>1, <2>2, BoundsAre
  <2>5. asked' \in [mined : M, pending : M]
    BY <1>1, <1>3, <2>2, <2>3
  <2>6. Answered'
    BY <1>2, <2>1 DEF Answered
  <2> QED BY <1>2, <1>6, <2>1, <2>4, <2>5, <2>6
<1>10. ASSUME Restart PROVE RunTyped' /\ Answered'
  <2>1. hpc' = "idle" /\ attempt' = 0 /\ asked' = Idle /\ got' = NotGot
    BY <1>10 DEF Restart
  <2>2. attempt' \in 0 .. MaxAttempts
    BY <2>1, BoundsAre
  <2>3. Answered'
    BY <1>2, <2>1 DEF Answered
  <2> QED BY <1>2, <1>3, <1>6, <2>1, <2>2, <2>3
<1>11. ASSUME ConvertMined PROVE RunTyped' /\ Answered'
  <2>1. PICK out \in [DOMAIN asked.mined -> Outcome] : got' = [got EXCEPT !.mined = out]
    BY <1>11 DEF ConvertMined
  <2>2. UNCHANGED <<hpc, attempt, asked>>
    BY <1>11 DEF ConvertMined
  <2>3. DOMAIN asked.mined \subseteq Slots
    BY <1>1, <1>4
  <2>4. out \in G /\ DOMAIN out = DOMAIN asked.mined
    BY <1>5, <2>3
  <2>5. got' \in [mined : G, pending : G] /\ got'.mined = out /\ got'.pending = got.pending
    BY <1>1, <2>1, <2>4
  <2>6. Answered'
    BY <1>1, <2>2, <2>4, <2>5 DEF Answered
  <2> QED BY <1>1, <1>6, <2>2, <2>5, <2>6
<1>12. ASSUME ConvertPending PROVE RunTyped' /\ Answered'
  <2>1. PICK out \in [DOMAIN asked.pending -> Outcome] : got' = [got EXCEPT !.pending = out]
    BY <1>12 DEF ConvertPending
  <2>2. UNCHANGED <<hpc, attempt, asked>>
    BY <1>12 DEF ConvertPending
  <2>3. DOMAIN asked.pending \subseteq Slots
    BY <1>1, <1>4
  <2>4. out \in G /\ DOMAIN out = DOMAIN asked.pending
    BY <1>5, <2>3
  <2>5. got' \in [mined : G, pending : G] /\ got'.pending = out /\ got'.mined = got.mined
    BY <1>1, <2>1, <2>4
  <2>6. Answered'
    BY <1>1, <2>2, <2>4, <2>5 DEF Answered
  <2> QED BY <1>1, <1>6, <2>2, <2>5, <2>6
<1>13. CASE \/ \E t \in Own : Send(t) \/ Reject(t) \/ JobSent(t) \/ JobFailed(t) \/ JobReverted(t)
            \/ \E t \in Tx : SendToPool(t) \/ LeavePool(t)
            \/ Mine1 \/ Fetch \/ Store \/ StoreFails \/ \E i \in Slots : Rollback(i)
            \/ Clean \/ RecordsWritten \/ UNCHANGED vars
  <2>1. UNCHANGED running
    BY <1>13 DEF Send, Reject, JobSent, JobFailed, JobReverted, SendToPool, LeavePool, Mine1, Fetch, Store,
       StoreFails, Rollback, Clean, RecordsWritten, vars
  <2> QED BY <1>7, <2>1
<1> QED BY <1>8, <1>9, <1>10, <1>11, <1>12, <1>13 DEF Next

\* At first nothing was sent and nothing is kept.
LEMMA InitTyped == Init => TypeInv
<1> SUFFICES ASSUME Init PROVE TypeInv
  OBVIOUS
<1>1. /\ Empty \in Map(Slots, Hashes) /\ Empty \in Map(Slots, HistoryRecord) /\ DOMAIN Empty = {}
  BY EmptyMap, EmptyIs
<1>2. ServicesTyped
  <2>1. chain \o pend = <<>>
    BY DEF Init
  <2> QED BY <2>1, BoundsAre DEF Init, ServicesTyped
<1>3. WasSent
  BY DEF Init, WasSent
<1>4. RecordsTyped
  <2>1. rec = [t \in Own |-> [state |-> "Pending", sends |-> 0]]
    BY DEF Init
  <2>2. rec \in [Own -> [state : {"Pending", "RejectedByRelayer", "RejectedByPool"}, sends : 0 .. MaxSends]]
    BY <2>1, BoundsAre
  <2>3. queued = {} /\ sent = {} /\ failed = {} /\ local = {} /\ dbFailed = {} /\ tracked = {} /\ torn = FALSE
    BY DEF Init
  <2> QED BY <2>2, <2>3 DEF RecordsTyped
<1>5. MemosTyped
  BY <1>1 DEF Init, MemosTyped
<1>6. RunTyped /\ Answered
  BY <1>1, BoundsAre DEF Init, RunTyped, Answered, Idle, NotGot
<1> QED BY <1>2, <1>3, <1>4, <1>5, <1>6 DEF TypeInv

\* The tree, the memos, the records, the list and the database keep their types,
\* whatever is admitted: the details that are merged belong to the slots that were
\* asked for, a record has the hash of a transaction that was sent.
THEOREM TypeCorrect == Spec => []TypeOK
<1>1. TypeInv /\ [Next]_vars => TypeInv'
  BY ServicesKept, WasSentKept, RecordsKept, MemosKept, RunKept DEF TypeInv
<1>2. TypeInv => TypeOK
  BY DEF TypeInv, ServicesTyped, RecordsTyped, MemosTyped, RunTyped, TypeOK
<1> QED BY <1>1, <1>2, InitTyped, PTL DEF Spec

=============================================================================
