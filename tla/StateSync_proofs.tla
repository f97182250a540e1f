------------------------ MODULE StateSync_proofs ------------------------
(***************************************************************************)
(* Proofs about StateSync for every size of the pool, of the batches and   *)
(* of the cold storage, and for every number of repair attempts.           *)
(*                                                                         *)
(* The type invariant, and that whatever the services answer every slot    *)
(* below the last verified index is right.  VerifiedPrefix alone is not    *)
(* inductive: a corrupted bulk of the cold storage is written at or after  *)
(* the index the sync started from, so that index must not lie below the   *)
(* last verified one (StartStable), the roots still agree when the index   *)
(* is marked (MarkRight), and the counters of the repairs stay in their    *)
(* range because an attempt is only begun below the limit (AttemptsLeft).  *)
(* A user's reset during a sync breaks MarkRight: it may cut the tree      *)
(* between the comparison of the roots and the mark.  What is said of the  *)
(* verified part (Rightly) therefore supposes resets between two syncs.    *)
(*                                                                         *)
(* That a sync reports "ready" rightly (ReadyInv): its batches cover all   *)
(* it plans to fetch (BatchesCover), so a watched transaction is either in *)
(* a batch that is still asked for or has been seen (Covered).             *)
(*                                                                         *)
(* That the history is complete up to the last verified index              *)
(* (HistoryParts): every right slot of the tree, verified or not, and      *)
(* every slot a hot sync has brought has its memo (RightKnown, HotKnown),  *)
(* and the history is never cut below the end of the tree (CutFollows).    *)
(***************************************************************************)
EXTENDS StateSync, TLAPS

\* Until the bulks are in the tree they reach beyond the start of the sync ...
ColdAhead == (pc = "sync" /\ cold = "load") => start < ColdNext /\ ColdFrom < ColdNext

\* ... which lies at or after the last verified index.
StartStable == pc = "info" \/ (pc = "sync" /\ cold = "load") => stable <= start

\* What is about to be marked is still right.
MarkRight == pc = "mark" \/ (pc = "sync" /\ cold = "mark") => RootsMatch(idx)

\* A reset during a sync may cut the tree below an index that is marked then.
Rightly == ResetWhen # "any" => VerifiedPrefix /\ StartStable /\ MarkRight

\* A repair is begun only while attempts of its kind are left.
AttemptsLeft ==
    /\ pc = "rollhist" => rollbacks < RollbackAttempts
    /\ pc = "cleanhist" => wipes < WipeAttempts

SyncInv == TypeOK /\ ColdAhead /\ AttemptsLeft /\ Rightly

USE SyncAssumption

-----------------------------------------------------------------------------
(* What the parts of the actions return and preserve.                      *)

\* The batches a hot sync plans are well formed (startHotSync).
LEMMA NewHotType ==
    ASSUME NEW from \in Indexes, NEW to \in Indexes
    PROVE  NewHot(from, to) \in HotState
BY DEF NewHot, HotState, Indexes, Slots

\* An abandoned plan is well formed too.
LEMMA NoHotType == NoHot \in HotState
<1>1. 0 \in Indexes
  BY DEF Indexes
<1>2. NewHot(0, 0) \in HotState
  BY <1>1, NewHotType
<1> QED BY <1>2 DEF NoHot, HotState

\* The cold sync ends inside the pool (nextIndexAfterColdSync).
LEMMA AfterColdType ==
    ASSUME NEW from \in Indexes
    PROVE  IndexAfterCold(from) \in Indexes
BY DEF IndexAfterCold, ColdAvailable, Indexes

\* A partial tree starts inside the pool, after its first slot.
LEMMA PartialStartType ==
    ASSUME NEW delta \in Indexes, birth \in Nat, PartialPossible(delta)
    PROVE  PartialStart(delta) \in Indexes \ {0} /\ start = 0
BY DEF PartialPossible, PartialStart, Indexes

\* Cutting the tree keeps its verified part right (rollbackState, wipeState).
LEMMA CutTreeOK ==
    ASSUME NEW i \in Indexes, next \in Indexes, bad \subseteq Slots,
           stable \in Indexes, CutTree(i)
    PROVE  /\ next' \in Indexes /\ bad' \subseteq Slots /\ stable' \in Indexes
           /\ stable' <= stable /\ (VerifiedPrefix => VerifiedPrefix')
<1>1. next' \in Indexes /\ stable' \in Indexes /\ stable' <= stable
  BY DEF CutTree, Lesser, Indexes
<1>2. bad' \subseteq bad
  BY DEF CutTree
<1>3. ASSUME VerifiedPrefix PROVE VerifiedPrefix'
  <2>1. stable' <= next'
    BY <1>3 DEF CutTree, VerifiedPrefix, Lesser, Indexes
  <2>2. \A k \in bad' : k >= stable'
    BY <1>1, <1>2, <1>3 DEF VerifiedPrefix, Indexes, Slots
  <2> QED BY <2>1, <2>2 DEF VerifiedPrefix
<1> QED BY <1>1, <1>2, <1>3

\* Cutting the history only removes memos (rollbackHistory, cleanHistory).
LEMMA CutHistoryOK ==
    ASSUME NEW i, memos \subseteq Slots, unsaved \subseteq Slots,
           pmemos \subseteq Slots, CutHistory(i)
    PROVE  memos' \subseteq Slots /\ unsaved' \subseteq Slots /\ pmemos' \subseteq Slots
BY DEF CutHistory

\* A plan of the sync keeps the types, and starts at or after the last
\* verified index.
LEMMA PlanOK ==
    ASSUME SyncInv, pc = "info", NEW delta \in Indexes, NEW to \in Indexes,
           NEW partial \in BOOLEAN, partial => PartialPossible(delta),
           Plan(delta, to, partial)
    PROVE  /\ pc' \in {"sync", "check"}
           /\ start' \in Indexes /\ target' \in Indexes /\ sib' \in BOOLEAN
           /\ cold' \in {"load", "done"} /\ coldNext' \in Indexes
           /\ hot' \in HotState /\ pmemos' \subseteq Slots
           /\ pc' = "sync" /\ cold' = "load" => start' < ColdNext /\ ColdFrom < ColdNext
           /\ pc' = "sync" /\ ResetWhen # "any" => stable <= start'
<1> DEFINE from == IF partial THEN PartialStart(delta) ELSE start
<1>1. from \in Indexes /\ (ResetWhen # "any" => stable <= from)
  <2>1. CASE partial
    BY <2>1, PartialStartType DEF SyncInv, TypeOK, Rightly, StartStable, Indexes
  <2>2. CASE ~partial
    BY <2>2 DEF SyncInv, TypeOK, Rightly, StartStable
  <2> QED BY <2>1, <2>2
<1>2. CASE to > start
  <2>1. target' = to /\ sib' = partial /\ Launch(from, to) /\ pmemos' = pmemos
    BY <1>2 DEF Plan
  <2>2. hot' \in HotState
    BY <1>1, <2>1, AfterColdType, NewHotType DEF Launch
  <2>3. ColdAvailable(from) => from < ColdNext /\ ColdFrom < ColdNext
    BY DEF ColdAvailable
  <2> HIDE DEF from
  <2> QED BY <1>1, <2>1, <2>2, <2>3 DEF Launch, SyncInv, TypeOK
<1>3. CASE ~(to > start)
  <2>1. pc' = "check" /\ ForgetPlan /\ pmemos' = {}
    BY <1>3 DEF Plan
  <2>2. 0 \in Indexes
    BY DEF Indexes
  <2> QED BY <2>1, <2>2, NoHotType DEF ForgetPlan
<1> QED BY <1>2, <1>3

-----------------------------------------------------------------------------
(* The inductive invariant.                                                *)

LEMMA InitOK == Init => SyncInv
<1> SUFFICES ASSUME Init PROVE SyncInv
  OBVIOUS
<1>1. TypeOK
  <2>1. pool \in Indexes /\ own \subseteq Slots
    BY DEF Init, Indexes, Slots
  <2>2. hot \in HotState
    BY NoHotType DEF Init
  <2>3. 0 \in Indexes /\ 0 \in 0 .. RollbackAttempts /\ 0 \in 0 .. WipeAttempts
        /\ 0 \in -1 .. MaxFaults /\ -1 \in -1 .. MaxFaults /\ -1 \in Indexes \cup {-1}
    BY DEF Indexes
  <2>4. faults \in -1 .. MaxFaults /\ birth \in Nat
    BY <2>3 DEF Init
  <2> QED BY <2>1, <2>2, <2>3, <2>4, Zenon DEF Init, TypeOK
<1> QED BY <1>1 DEF Init, SyncInv, Rightly, VerifiedPrefix, StartStable, MarkRight,
        RootsMatch, ColdAhead, AttemptsLeft

\* What ends the worker keeps the types of its locals.
LEMMA EndOK ==
    ASSUME End
    PROVE  /\ pc' = "idle" /\ start' \in Indexes /\ target' \in Indexes
           /\ sib' \in BOOLEAN /\ cold' = "done" /\ coldNext' \in Indexes
           /\ hot' \in HotState /\ ready' \in BOOLEAN
           /\ stableSeen' \in Indexes /\ idx' \in Indexes
           /\ watch' \subseteq Slots /\ degraded' \in BOOLEAN
<1>1. 0 \in Indexes
  BY DEF Indexes
<1> QED BY <1>1, NoHotType, Zenon DEF End, ForgetPlan

\* A budgeted fault keeps the counter in its range.
LEMMA FaultOK ==
    ASSUME faults \in -1 .. MaxFaults, Fault \/ NoFault
    PROVE  faults' \in -1 .. MaxFaults
BY DEF Fault, NoFault

-----------------------------------------------------------------------------
(* One lemma per action: it preserves the invariant.                       *)

LEMMA EnvironmentOK == SyncInv /\ (Submit \/ Mine \/ Drop) => SyncInv'
<1> SUFFICES ASSUME SyncInv, Submit \/ Mine \/ Drop PROVE SyncInv'
  OBVIOUS
<1> USE DEF SyncInv, Rightly, VerifiedPrefix, StartStable, MarkRight, RootsMatch,
        ColdAhead, AttemptsLeft
<1>1. pool' \in Indexes /\ opt' \in Indexes /\ own' \subseteq Slots /\ watch' \subseteq Slots
  <2>1. CASE Submit
    <3>1. opt \in Slots /\ opt + 1 \in Indexes
      BY <2>1 DEF TypeOK, Submit, Indexes, Slots
    <3> QED BY <2>1, <3>1 DEF TypeOK, Submit, observers
  <2>2. CASE Mine
    BY <2>2 DEF TypeOK, Mine, Indexes, Slots
  <2>3. CASE Drop
    BY <2>3 DEF TypeOK, Drop, Indexes, Slots
  <2> QED BY <2>1, <2>2, <2>3
<1> QED BY <1>1 DEF TypeOK, Submit, Mine, Drop, tree, hist, fields, planned, locals,
        observers

LEMMA StartOK == SyncInv /\ (UpdateState \/ FreshExpires) => SyncInv'
<1> SUFFICES ASSUME SyncInv, UpdateState \/ FreshExpires PROVE SyncInv'
  OBVIOUS
<1> USE DEF SyncInv, TypeOK, Rightly, VerifiedPrefix, StartStable, MarkRight,
        RootsMatch, ColdAhead, AttemptsLeft
<1>1. CASE UpdateState
  BY <1>1, ZenonT(30) DEF UpdateState, env, tree, hist, fields, planned, locals, observers
<1>2. CASE FreshExpires
  <2>1. fresh' \in BOOLEAN
    BY <1>2, Zenon DEF FreshExpires
  <2>2. UNCHANGED <<env, tree, hist, birth, skipCold, rollbacks, wipes, lastResult, pc,
                    locals, orphans, user, observers>>
    BY <1>2 DEF FreshExpires
  <2> QED BY <2>1, <2>2 DEF env, tree, hist, planned, locals, observers
<1> QED BY <1>1, <1>2

LEMMA EnterOK == SyncInv /\ Enter => SyncInv'
<1> SUFFICES ASSUME SyncInv, Enter PROVE SyncInv'
  OBVIOUS
<1> USE DEF SyncInv, TypeOK, Rightly, VerifiedPrefix, StartStable, MarkRight,
        RootsMatch, ColdAhead, AttemptsLeft
<1>1. CASE fresh /\ End
  BY <1>1, EndOK DEF Enter, env, tree, hist, fields
<1>2. CASE ~fresh
  <2>1. {k \in own : k >= pool} \subseteq Slots
    BY DEF Slots
  <2>2. ResetWhen # "any" => stable <= next
    OBVIOUS
  <2> QED BY <1>2, <2>1, <2>2 DEF Enter, env, tree, hist, fields, End
<1> QED BY <1>1, <1>2 DEF Enter

\* Planning: the three ways the counters can be known, or the sync throws.
LEMMA InfoOK == SyncInv /\ Info => SyncInv'
<1> SUFFICES ASSUME SyncInv, Info PROVE SyncInv'
  OBVIOUS
<1> USE DEF SyncInv
<1>1. faults' \in -1 .. MaxFaults
  BY FaultOK DEF Info, TypeOK
<1>2. pool \in Indexes /\ opt \in Indexes /\ SeenIndexes \subseteq Indexes /\ pc = "info"
  BY DEF Info, TypeOK, SeenIndexes, Indexes
<1>3. ASSUME NEW delta \in Indexes, NEW to \in Indexes, NEW partial \in BOOLEAN,
             partial => PartialPossible(delta), Plan(delta, to, partial),
             UNCHANGED <<fresh, lastResult, ready, stableSeen, idx, watch>>,
             degraded' \in BOOLEAN
      PROVE  SyncInv'
  BY <1>1, <1>2, <1>3, PlanOK DEF Info, TypeOK, Rightly, VerifiedPrefix, StartStable,
      MarkRight, RootsMatch, ColdAhead, AttemptsLeft, tree
<1>4. CASE Plan(pool, opt, PartialPossible(pool)) /\ UNCHANGED <<fresh, lastResult, ready, stableSeen, idx, observers>>
  BY <1>2, <1>3, <1>4 DEF PartialPossible, observers, TypeOK
<1>5. CASE Plan(pool, opt, FALSE) /\ UNCHANGED <<fresh, lastResult, ready, stableSeen, idx, observers>>
  BY <1>2, <1>3, <1>5 DEF observers, TypeOK
<1>6. ASSUME NEW seen \in SeenIndexes, NEW siblingsOk \in BOOLEAN, degraded' = TRUE,
             Plan(seen, seen, siblingsOk /\ PartialPossible(seen)),
             UNCHANGED <<fresh, lastResult, ready, stableSeen, idx, watch>>
      PROVE  SyncInv'
  <2>1. (siblingsOk /\ PartialPossible(seen)) \in BOOLEAN
    BY DEF PartialPossible
  <2> QED BY <1>2, <1>3, <1>6, <2>1
<1>7. CASE Throw /\ UNCHANGED pmemos
  BY <1>1, <1>2, <1>7, EndOK DEF Info, Throw, TypeOK, Rightly, VerifiedPrefix,
      StartStable, MarkRight, RootsMatch, ColdAhead, AttemptsLeft, tree
<1> QED BY <1>4, <1>5, <1>6, <1>7 DEF Info

-----------------------------------------------------------------------------
(* The hot sync.                                                           *)

\* Own transactions of a range are slots, and saving their memos keeps types.
LEMMA SaveMemosOK ==
    ASSUME NEW new, new \subseteq Slots, memos \subseteq Slots, unsaved \subseteq Slots,
           SaveMemos(new)
    PROVE  memos' \subseteq Slots /\ unsaved' \subseteq Slots
BY DEF SaveMemos

LEMMA OwnInOK == TypeOK => \A lo, hi : OwnIn(lo, hi) \subseteq Slots
BY DEF TypeOK, OwnIn

LEMMA ParseBatchOK ==
    ASSUME TypeOK, NEW i \in Indexes, NEW mined \in Indexes, NEW known \in Indexes,
           NEW wrong, ParseBatch(i, mined, known, wrong)
    PROVE  /\ hot' \in HotState /\ memos' \subseteq Slots
           /\ unsaved' \subseteq Slots /\ pmemos' \subseteq Slots
<1> DEFINE minedTo == Lesser(i + BatchSize, mined)
           knownTo == Lesser(i + BatchSize, known)
<1>1. minedTo \in Indexes /\ knownTo \in Indexes /\ (i .. (minedTo - 1)) \subseteq Slots
  BY DEF Lesser, Indexes, Slots
<1>2. /\ hot' = [hot EXCEPT
                   !.todo = @ \ {i},
                   !.ok   = @ \cup ((i .. (minedTo - 1)) \ wrong),
                   !.top  = IF minedTo > i THEN Greater(@, minedTo) ELSE @,
                   !.pend = IF knownTo > Greater(i, minedTo) THEN Greater(@, knownTo) ELSE @,
                   !.own  = MergeOwn(@, OwnIn(Greater(i, minedTo), knownTo) # {})]
      /\ SaveMemos(OwnIn(i, minedTo) \ wrong)
      /\ pmemos' = pmemos \cup OwnIn(Greater(i, minedTo), knownTo)
  BY DEF ParseBatch
<1> HIDE DEF minedTo, knownTo
<1>3. \A x, y \in Indexes : Greater(x, y) \in Indexes
  BY DEF Greater
<1>4. \A x, y \in BOOLEAN : MergeOwn(x, y) \in BOOLEAN
  BY DEF MergeOwn
<1>5. hot' \in HotState
  BY <1>1, <1>2, <1>3, <1>4, ZenonT(30) DEF TypeOK, HotState
<1> QED BY <1>2, <1>5, OwnInOK, SaveMemosOK DEF TypeOK

LEMMA FetchBatchOK ==
    ASSUME SyncInv, NEW i \in Indexes, FetchBatch(i)
    PROVE  SyncInv'
<1>1. faults' \in -1 .. MaxFaults
  BY FaultOK DEF FetchBatch, SyncInv, TypeOK
<1> DEFINE Typed == /\ hot' \in HotState /\ memos' \subseteq Slots /\ unsaved' \subseteq Slots
                    /\ pmemos' \subseteq Slots /\ degraded' \in BOOLEAN
<1>2. Typed
  <2> USE DEF SyncInv
  <2>1. CASE ParseBatch(i, pool, opt, {}) /\ UNCHANGED degraded
    BY <2>1, ParseBatchOK DEF TypeOK
  <2>2. ASSUME NEW w, ParseBatch(i, pool, opt, {w}), UNCHANGED degraded
        PROVE  Typed
    BY <2>2, ParseBatchOK DEF TypeOK
  <2>3. ASSUME NEW indexed \in 0 .. pool, ParseBatch(i, indexed, indexed, {}), degraded' = TRUE
        PROVE  Typed
    <3>1. indexed \in Indexes
      BY DEF TypeOK, Indexes
    <3> QED BY <2>3, <3>1, ParseBatchOK DEF TypeOK
  <2>4. CASE /\ hot' = [hot EXCEPT !.todo = @ \ {i}, !.failed = TRUE]
             /\ UNCHANGED <<hist, degraded>>
    BY <2>4 DEF TypeOK, HotState, hist
  <2> QED BY <2>1, <2>2, <2>3, <2>4 DEF FetchBatch
<1> QED BY <1>1, <1>2 DEF FetchBatch, SyncInv, TypeOK, Rightly, VerifiedPrefix,
        StartStable, MarkRight, RootsMatch, ColdAhead, AttemptsLeft, tree, fields

LEMMA OrphanBatchOK ==
    ASSUME SyncInv, NEW i \in Indexes, OrphanBatch(i)
    PROVE  SyncInv'
<1>1. memos' \subseteq Slots /\ unsaved' \subseteq Slots /\ pmemos' \subseteq Slots
  BY OwnInOK, SaveMemosOK DEF OrphanBatch, SyncInv, TypeOK
<1>2. orphans' \subseteq Indexes
  BY DEF OrphanBatch, SyncInv, TypeOK
<1> QED BY <1>1, <1>2 DEF OrphanBatch, SyncInv, TypeOK, Rightly, VerifiedPrefix,
        StartStable, MarkRight, RootsMatch, ColdAhead, AttemptsLeft, env, tree, fields,
        planned, locals, observers

-----------------------------------------------------------------------------
(* The cold sync.                                                          *)

\* The bulks reach the tree at or after its verified end.
LEMMA ColdLoadOK == SyncInv /\ ColdLoad => SyncInv'
<1> SUFFICES ASSUME SyncInv, ColdLoad PROVE SyncInv'
  OBVIOUS
<1> USE DEF SyncInv
<1>1. PICK wrong \in {{}} \cup {{w} : w \in Greater(start, ColdFrom) .. (ColdNext - 1)} :
         /\ IF wrong = {} THEN NoFault ELSE Fault
         /\ next' = Greater(next, ColdNext)
         /\ bad' = bad \cup wrong \cup (next .. (Greater(start, ColdFrom) - 1))
         /\ SaveMemos(ColdMemos \ wrong)
  BY DEF ColdLoad
<1>2. faults' \in -1 .. MaxFaults
  BY <1>1, FaultOK DEF TypeOK
<1>3. memos' \subseteq Slots /\ unsaved' \subseteq Slots
  BY <1>1, OwnInOK, SaveMemosOK DEF ColdMemos, TypeOK
<1>4. start < ColdNext /\ ColdFrom < ColdNext
  BY DEF ColdLoad, ColdAhead
<1>5. Greater(start, ColdFrom) \in 0 .. (ColdNext - 1)
  BY <1>4 DEF Greater, TypeOK, Indexes
<1>6. \A w \in wrong : w \in Slots /\ w >= Greater(start, ColdFrom)
  BY <1>5 DEF TypeOK, Indexes, Slots
<1>7. \A k \in next .. (Greater(start, ColdFrom) - 1) : k \in Slots /\ k >= next
  BY <1>5 DEF TypeOK, Indexes, Slots
<1>8. next' \in Indexes /\ next' >= next
  BY <1>1 DEF TypeOK, Greater, Indexes
<1>9. bad' \subseteq Slots
  BY <1>1, <1>6, <1>7 DEF TypeOK
<1>10. ColdNext \in Indexes
  BY DEF Indexes
<1>11. ASSUME VerifiedPrefix, StartStable PROVE VerifiedPrefix'
  <2>1. stable <= next /\ stable <= Greater(start, ColdFrom) /\ stable' = stable
    BY <1>11 DEF ColdLoad, VerifiedPrefix, StartStable, TypeOK, Greater, Indexes
  <2>2. \A k \in bad' : k >= stable
    BY <1>1, <1>5, <1>6, <1>7, <1>11, <2>1 DEF TypeOK, VerifiedPrefix, Indexes, Slots
  <2> QED BY <1>8, <2>1, <2>2 DEF TypeOK, VerifiedPrefix, Indexes
<1> QED BY <1>2, <1>3, <1>8, <1>9, <1>10, <1>11
        DEF ColdLoad, TypeOK, Rightly, VerifiedPrefix, StartStable, MarkRight,
            RootsMatch, ColdAhead, AttemptsLeft, fields, observers

LEMMA ColdFailOK == SyncInv /\ ColdFail => SyncInv'
<1> SUFFICES ASSUME SyncInv, ColdFail PROVE SyncInv'
  OBVIOUS
<1>1. faults' \in -1 .. MaxFaults
  BY FaultOK DEF ColdFail, SyncInv, TypeOK
<1> QED BY <1>1 DEF ColdFail, SyncInv, TypeOK, Rightly, VerifiedPrefix, StartStable,
        MarkRight, RootsMatch, ColdAhead, AttemptsLeft, tree, hist, fields, observers

\* Only an index at which the roots match is marked.
LEMMA MarkOK ==
    ASSUME TypeOK, NEW i \in Indexes, RootsMatch(i), MarkVerified(i),
           next' = next, bad' = bad
    PROVE  stable' \in Indexes /\ VerifiedPrefix'
BY DEF TypeOK, RootsMatch, MarkVerified, VerifiedPrefix

LEMMA SeenOK == TypeOK => \A seen \in SeenIndexes : Lesser(seen, next) \in Indexes
BY DEF TypeOK, SeenIndexes, Lesser, Indexes

LEMMA ColdVerifyOK == SyncInv /\ ColdVerify => SyncInv'
<1> SUFFICES ASSUME SyncInv, ColdVerify PROVE SyncInv'
  OBVIOUS
<1> USE DEF SyncInv
<1>1. faults' \in -1 .. MaxFaults
  BY FaultOK DEF ColdVerify, TypeOK
<1>2. CASE cold' = "cleanhist" /\ CutTree(0) /\ UNCHANGED idx
  <2>1. 0 \in Indexes
    BY DEF Indexes
  <2>2. /\ next' \in Indexes /\ bad' \subseteq Slots /\ stable' \in Indexes
        /\ VerifiedPrefix => VerifiedPrefix'
    BY <1>2, <2>1, CutTreeOK DEF TypeOK
  <2> QED BY <1>1, <1>2, <2>2 DEF ColdVerify, TypeOK, Rightly, StartStable, MarkRight,
          ColdAhead, AttemptsLeft, hist, fields, observers
<1>3. CASE cold' = "mark" /\ RootsMatch(idx') /\ idx' \in Indexes /\ UNCHANGED tree
  BY <1>1, <1>3 DEF ColdVerify, TypeOK, Rightly, VerifiedPrefix, StartStable, MarkRight,
     RootsMatch, ColdAhead, AttemptsLeft, tree, hist, fields, observers
<1>4. CASE cold' = "done" /\ UNCHANGED <<tree, idx>>
  BY <1>1, <1>4 DEF ColdVerify, TypeOK, Rightly, VerifiedPrefix, StartStable, MarkRight,
     ColdAhead, AttemptsLeft, tree, hist, fields, observers
<1> QED BY <1>2, <1>3, <1>4, SeenOK DEF ColdVerify, RootsMatch

LEMMA ColdMarkOK == SyncInv /\ ColdMark => SyncInv'
<1> SUFFICES ASSUME SyncInv, ColdMark PROVE SyncInv'
  OBVIOUS
<1> USE DEF SyncInv
<1>1. idx \in Indexes /\ 0 \in Indexes /\ stable' \in Indexes
  BY DEF ColdMark, MarkVerified, TypeOK, Indexes
<1>2. ResetWhen # "any" => VerifiedPrefix'
  BY MarkOK DEF ColdMark, Rightly, MarkRight, TypeOK
<1> QED BY <1>1, <1>2 DEF ColdMark, TypeOK, Rightly, StartStable, MarkRight,
        ColdAhead, AttemptsLeft, env, hist, fields, observers

LEMMA ColdCleanHistoryOK == SyncInv /\ ColdCleanHistory => SyncInv'
<1> SUFFICES ASSUME SyncInv, ColdCleanHistory PROVE SyncInv'
  OBVIOUS
<1> USE DEF SyncInv
<1>1. faults' \in -1 .. MaxFaults
  BY FaultOK DEF ColdCleanHistory, TypeOK
<1>2. memos' \subseteq Slots /\ unsaved' \subseteq Slots /\ pmemos' \subseteq Slots
  BY CutHistoryOK DEF ColdCleanHistory, TypeOK, hist
<1>3. skipCold' \in BOOLEAN
  BY DEF ColdCleanHistory, TypeOK
<1>4. coldNext' \in Indexes
  BY DEF ColdCleanHistory, TypeOK, Indexes
<1> QED BY <1>1, <1>2, <1>3, <1>4 DEF ColdCleanHistory, TypeOK, Rightly, VerifiedPrefix,
        StartStable, MarkRight, RootsMatch, ColdAhead, AttemptsLeft, tree, observers

LEMMA JoinColdOK == SyncInv /\ JoinCold => SyncInv'
<1> SUFFICES ASSUME SyncInv, JoinCold PROVE SyncInv'
  OBVIOUS
<1>1. hot' \in HotState /\ orphans' \subseteq Indexes
  BY NewHotType DEF JoinCold, SyncInv, TypeOK, HotState
<1> QED BY <1>1 DEF JoinCold, SyncInv, TypeOK, Rightly, VerifiedPrefix, StartStable,
        MarkRight, RootsMatch, ColdAhead, AttemptsLeft, env, tree, hist, fields,
        observers

-----------------------------------------------------------------------------
(* Storing the hot sync.                                                   *)

\* A worker that throws or returns leaves the tree alone.
LEMMA HotFailOK == SyncInv /\ HotFail => SyncInv'
<1> SUFFICES ASSUME SyncInv, HotFail PROVE SyncInv'
  OBVIOUS
<1>1. orphans' \subseteq Indexes
  BY DEF HotFail, SyncInv, TypeOK, HotState
<1> QED BY <1>1, EndOK DEF HotFail, Throw, SyncInv, TypeOK, Rightly, VerifiedPrefix,
        StartStable, MarkRight, RootsMatch, ColdAhead, AttemptsLeft, env, tree, hist

LEMMA StoreHotOK == SyncInv /\ StoreHot => SyncInv'
<1> SUFFICES ASSUME SyncInv, StoreHot PROVE SyncInv'
  OBVIOUS
<1> USE DEF SyncInv
<1>1. PICK siblingsRight \in BOOLEAN :
         /\ IF siblingsRight THEN NoFault ELSE sib /\ Fault
         /\ next' = Greater(next, hot.top)
         /\ bad' = (bad \cup ((next .. (hot.top - 1)) \ hot.ok))
                     \ (IF sib /\ siblingsRight THEN 0 .. (start - 1) ELSE {})
  BY DEF StoreHot
<1>2. faults' \in -1 .. MaxFaults
  BY <1>1, FaultOK DEF TypeOK
<1>3. hot.top \in Indexes /\ hot.own \in BOOLEAN
  BY DEF TypeOK, HotState
<1>4. next' \in Indexes /\ next' >= next
  BY <1>1, <1>3 DEF TypeOK, Greater, Indexes
<1>5. \A k \in next .. (hot.top - 1) : k \in Slots /\ k >= next
  BY <1>3 DEF TypeOK, Indexes, Slots
<1>6. bad' \subseteq bad \cup (next .. (hot.top - 1))
  BY <1>1
<1>7. bad' \subseteq Slots
  BY <1>5, <1>6 DEF TypeOK
<1>8. ASSUME VerifiedPrefix PROVE VerifiedPrefix'
  <2>1. stable <= next /\ stable' = stable
    BY <1>8 DEF VerifiedPrefix, StoreHot
  <2>2. \A k \in bad' : k >= stable
    BY <1>5, <1>6, <1>8, <2>1 DEF TypeOK, VerifiedPrefix, Indexes, Slots
  <2> QED BY <1>4, <2>1, <2>2 DEF TypeOK, VerifiedPrefix, Indexes
<1>9. ready' \in BOOLEAN
  BY <1>3, Zenon DEF StoreHot
<1>10. pmemos' \subseteq Slots
  BY DEF StoreHot, TypeOK
<1>11. /\ start' \in Indexes /\ target' \in Indexes /\ sib' \in BOOLEAN
       /\ cold' = "done" /\ coldNext' \in Indexes /\ hot' \in HotState
  <2>1. 0 \in Indexes
    BY DEF Indexes
  <2> QED BY <2>1, NoHotType DEF StoreHot, ForgetPlan
<1>12. pc' = "check" /\ UNCHANGED <<pool, opt, own, stable, memos, unsaved, fields,
                                    stableSeen, idx, orphans, user, observers>>
  BY DEF StoreHot
<1> QED BY <1>2, <1>4, <1>7, <1>8, <1>9, <1>10, <1>11, <1>12
        DEF TypeOK, Rightly, VerifiedPrefix, StartStable, MarkRight, RootsMatch,
            ColdAhead, AttemptsLeft, fields, observers

LEMMA StoreHotFailOK == SyncInv /\ StoreHotFail => SyncInv'
<1> SUFFICES ASSUME SyncInv, StoreHotFail PROVE SyncInv'
  OBVIOUS
<1>1. faults' \in -1 .. MaxFaults
  BY FaultOK DEF StoreHotFail, SyncInv, TypeOK, NoFault
<1>2. birth' \in Nat
  BY DEF StoreHotFail, SyncInv, TypeOK
<1>3. End /\ UNCHANGED <<fresh, lastResult>>
  BY DEF StoreHotFail, Throw
<1> QED BY <1>1, <1>2, <1>3, EndOK DEF StoreHotFail, SyncInv, TypeOK, Rightly,
        VerifiedPrefix, StartStable, MarkRight, RootsMatch, ColdAhead, AttemptsLeft,
        tree, hist

-----------------------------------------------------------------------------
(* Self-healing.                                                           *)

\* Returning remembers the result.
LEMMA FinishOK ==
    ASSUME TypeOK, Finish
    PROVE  End /\ fresh' \in BOOLEAN /\ lastResult' \in BOOLEAN
BY Zenon DEF Finish, TypeOK

LEMMA CheckOK == SyncInv /\ Check => SyncInv'
<1> SUFFICES ASSUME SyncInv, Check PROVE SyncInv'
  OBVIOUS
<1> USE DEF SyncInv
<1>1. CASE EndVerified
  <2>1. Finish
    BY <1>1 DEF Check
  <2> QED BY <2>1, FinishOK, EndOK DEF Check, TypeOK, Rightly, VerifiedPrefix,
          StartStable, MarkRight, RootsMatch, ColdAhead, AttemptsLeft, env, tree, hist
<1>2. CASE ~EndVerified
  BY <1>2 DEF Check, TypeOK, Rightly, VerifiedPrefix, StartStable, MarkRight,
      RootsMatch, ColdAhead, AttemptsLeft, env, tree, hist, planned, observers
<1> QED BY <1>1, <1>2

LEMMA PoolStateOK == SyncInv /\ PoolState => SyncInv'
<1> SUFFICES ASSUME SyncInv, PoolState PROVE SyncInv'
  OBVIOUS
<1> USE DEF SyncInv
<1>1. faults' \in -1 .. MaxFaults
  BY FaultOK DEF PoolState, TypeOK
<1>2. CASE Throw
  BY <1>1, <1>2, EndOK DEF PoolState, Throw, TypeOK, Rightly, VerifiedPrefix,
      StartStable, MarkRight, RootsMatch, ColdAhead, AttemptsLeft, tree, hist
<1>3. CASE ~Throw
  <2>1. idx' \in Indexes
    BY <1>3, SeenOK DEF PoolState
  <2> QED BY <1>1, <1>3, <2>1 DEF PoolState, TypeOK, Rightly, VerifiedPrefix,
          StartStable, MarkRight, RootsMatch, ColdAhead, AttemptsLeft, tree, hist,
          planned, observers
<1> QED BY <1>2, <1>3

LEMMA CompareOK == SyncInv /\ Compare => SyncInv'
<1> SUFFICES ASSUME SyncInv, Compare PROVE SyncInv'
  OBVIOUS
<1> USE DEF SyncInv
<1>1. faults' \in -1 .. MaxFaults
  BY FaultOK DEF Compare, TypeOK
<1>2. CASE Throw
  BY <1>1, <1>2, EndOK DEF Compare, Throw, TypeOK, Rightly, VerifiedPrefix, StartStable,
     MarkRight, ColdAhead, AttemptsLeft, tree, hist
<1>3. CASE ~Throw
  <2>1. /\ pc' = (IF RootsMatch(idx) THEN "mark" ELSE "heal")
        /\ UNCHANGED <<fresh, lastResult, locals, observers>>
    BY <1>3 DEF Compare
  <2>2. /\ pc = "compare"
        /\ UNCHANGED <<pool, opt, own, tree, hist, birth, skipCold, rollbacks, wipes, orphans, user>>
    BY DEF Compare
  <2> QED BY <1>1, <2>1, <2>2 DEF TypeOK, Rightly, VerifiedPrefix, StartStable, MarkRight,
          RootsMatch, ColdAhead, AttemptsLeft, tree, hist, locals, planned, observers
<1> QED BY <1>2, <1>3

LEMMA MarkStepOK == SyncInv /\ Mark => SyncInv'
<1> SUFFICES ASSUME SyncInv, Mark PROVE SyncInv'
  OBVIOUS
<1> USE DEF SyncInv
<1>1. idx \in Indexes /\ stable' \in Indexes
  BY DEF Mark, MarkVerified, TypeOK
<1>2. ResetWhen # "any" => VerifiedPrefix'
  BY MarkOK DEF Mark, Rightly, MarkRight, TypeOK
<1> QED BY <1>1, <1>2, FinishOK, EndOK DEF Mark, TypeOK, Rightly, StartStable, MarkRight,
        ColdAhead, AttemptsLeft, env, hist

LEMMA HealOK == SyncInv /\ (HealRollback \/ HealWipe \/ HealGiveUp) => SyncInv'
<1> SUFFICES ASSUME SyncInv, HealRollback \/ HealWipe \/ HealGiveUp PROVE SyncInv'
  OBVIOUS
<1> USE DEF SyncInv
<1>1. CASE HealRollback
  <2>1. PICK real \in 0 .. stableSeen : CutTree(real) /\ idx' = real
    BY <1>1 DEF HealRollback
  <2>2. real \in Indexes
    BY DEF TypeOK, Indexes
  <2>3. rollbacks < RollbackAttempts
    BY <1>1 DEF HealRollback, MayRollback
  <2> QED BY <1>1, <2>1, <2>2, <2>3, CutTreeOK DEF HealRollback, TypeOK, Rightly,
          StartStable, MarkRight, RootsMatch, ColdAhead, AttemptsLeft, env, hist,
          fields, planned, observers
<1>2. CASE HealWipe
  <2>1. 0 \in Indexes
    BY DEF Indexes
  <2> QED BY <1>2, <2>1, CutTreeOK DEF HealWipe, TypeOK, Rightly, StartStable,
          MarkRight, RootsMatch, ColdAhead, AttemptsLeft, env, hist, fields, locals,
          planned, observers
<1>3. CASE HealGiveUp
  BY <1>3, EndOK DEF HealGiveUp, Throw, TypeOK, Rightly, VerifiedPrefix, StartStable,
      MarkRight, RootsMatch, ColdAhead, AttemptsLeft, env, tree, hist
<1> QED BY <1>1, <1>2, <1>3

\* Both repairs end with the history, and the attempt is counted.
LEMMA RollHistoryOK == SyncInv /\ RollHistory => SyncInv'
<1> SUFFICES ASSUME SyncInv, RollHistory PROVE SyncInv'
  OBVIOUS
<1> USE DEF SyncInv
<1>1. faults' \in -1 .. MaxFaults
  BY FaultOK DEF RollHistory, TypeOK
<1>2. CASE CutHistory(idx) /\ rollbacks' = rollbacks + 1 /\ pc' = "enter"
             /\ UNCHANGED <<fresh, lastResult, locals, observers>>
  <2>1. rollbacks' \in 0 .. RollbackAttempts
    BY <1>2 DEF RollHistory, TypeOK, AttemptsLeft
  <2> QED BY <1>1, <1>2, <2>1, CutHistoryOK DEF RollHistory, TypeOK, Rightly,
          VerifiedPrefix, StartStable, MarkRight, RootsMatch, ColdAhead, AttemptsLeft,
          tree, locals, planned, observers
<1>3. CASE Throw /\ UNCHANGED <<hist, rollbacks>>
  BY <1>1, <1>3, EndOK DEF RollHistory, Throw, TypeOK, Rightly, VerifiedPrefix,
      StartStable, MarkRight, RootsMatch, ColdAhead, AttemptsLeft, tree, hist
<1> QED BY <1>2, <1>3 DEF RollHistory

LEMMA CleanHistoryOK == SyncInv /\ CleanHistory => SyncInv'
<1> SUFFICES ASSUME SyncInv, CleanHistory PROVE SyncInv'
  OBVIOUS
<1> USE DEF SyncInv
<1>1. faults' \in -1 .. MaxFaults
  BY FaultOK DEF CleanHistory, TypeOK
<1>2. CASE CutHistory(0) /\ birth' = (IF rollbacks > 0 THEN 0 ELSE birth) /\ CountWipe
             /\ pc' = "enter" /\ UNCHANGED <<fresh, lastResult, locals, observers>>
  <2>1. wipes' \in 0 .. WipeAttempts /\ birth' \in Nat
    BY <1>2 DEF CleanHistory, CountWipe, TypeOK, AttemptsLeft
  <2> QED BY <1>1, <1>2, <2>1, CutHistoryOK DEF CleanHistory, TypeOK, Rightly,
          VerifiedPrefix, StartStable, MarkRight, RootsMatch, ColdAhead, AttemptsLeft,
          tree, locals, planned, observers
<1>3. CASE Throw /\ UNCHANGED <<hist, birth, wipes>>
  BY <1>1, <1>3, EndOK DEF CleanHistory, Throw, TypeOK, Rightly, VerifiedPrefix,
      StartStable, MarkRight, RootsMatch, ColdAhead, AttemptsLeft, tree, hist
<1> QED BY <1>2, <1>3 DEF CleanHistory

-----------------------------------------------------------------------------
(* The user's reset, database writes and a restart.                        *)

LEMMA UserResetOK == SyncInv /\ (UserReset \/ UserResetHistory) => SyncInv'
<1> SUFFICES ASSUME SyncInv, UserReset \/ UserResetHistory PROVE SyncInv'
  OBVIOUS
<1> USE DEF SyncInv
<1>1. CASE UserReset
  <2>1. PICK real \in {i \in Indexes : i < next} : CutTree(real) /\ user' = real
    BY <1>1 DEF UserReset
  <2>2. /\ next' \in Indexes /\ bad' \subseteq Slots /\ stable' \in Indexes
        /\ VerifiedPrefix => VerifiedPrefix'
    BY <2>1, CutTreeOK DEF TypeOK
  <2>3. ResetWhen # "any" => pc = "idle"
    BY <1>1 DEF UserReset
  <2> QED BY <1>1, <2>1, <2>2, <2>3 DEF UserReset, TypeOK, Rightly, StartStable,
          MarkRight, RootsMatch, ColdAhead, AttemptsLeft, env, hist, fields, locals,
          planned, observers
<1>2. CASE UserResetHistory
  BY <1>2, CutHistoryOK DEF UserResetHistory, TypeOK, Rightly, VerifiedPrefix,
      StartStable, MarkRight, RootsMatch, ColdAhead, AttemptsLeft, env, tree, fields,
      locals, planned, observers
<1> QED BY <1>1, <1>2

LEMMA WritesFinishOK == SyncInv /\ WritesFinish => SyncInv'
BY DEF WritesFinish, SyncInv, TypeOK, Rightly, VerifiedPrefix, StartStable, MarkRight,
    RootsMatch, ColdAhead, AttemptsLeft, env, tree, fields, locals, planned, observers

LEMMA RestartOK == SyncInv /\ Restart => SyncInv'
<1> SUFFICES ASSUME SyncInv, Restart PROVE SyncInv'
  OBVIOUS
<1>1. skipCold' \in BOOLEAN /\ fresh' \in BOOLEAN /\ lastResult' \in BOOLEAN
  BY Zenon DEF Restart
<1>2. birth' \in Nat /\ rollbacks' \in 0 .. RollbackAttempts /\ wipes' \in 0 .. WipeAttempts
  BY DEF Restart
<1> QED BY <1>1, <1>2, EndOK DEF Restart, SyncInv, TypeOK, Rightly, VerifiedPrefix,
        StartStable, MarkRight, RootsMatch, ColdAhead, AttemptsLeft, env, tree

-----------------------------------------------------------------------------
(* The theorems.                                                           *)

LEMMA StutterOK == SyncInv /\ UNCHANGED vars => SyncInv'
BY DEF vars, SyncInv, TypeOK, Rightly, VerifiedPrefix, StartStable, MarkRight,
    RootsMatch, ColdAhead, AttemptsLeft, env, tree, hist, fields, locals, planned,
    observers

LEMMA NextOK == SyncInv /\ [Next]_vars => SyncInv'
<1> SUFFICES ASSUME SyncInv, [Next]_vars PROVE SyncInv'
  OBVIOUS
<1>1. CASE Environment \/ UpdateState \/ FreshExpires
  BY <1>1, EnvironmentOK, StartOK DEF Environment
<1>2. CASE SyncStep
  <2>1. CASE \E i \in Indexes : FetchBatch(i)
    BY <2>1, FetchBatchOK
  <2>2. CASE Enter \/ Info \/ ColdLoad \/ ColdFail \/ ColdVerify \/ ColdMark \/ ColdCleanHistory \/ JoinCold
    BY <2>2, EnterOK, InfoOK, ColdLoadOK, ColdFailOK, ColdVerifyOK, ColdMarkOK, ColdCleanHistoryOK, JoinColdOK
  <2>3. CASE HotFail \/ StoreHot \/ StoreHotFail \/ Check \/ PoolState \/ Compare \/ Mark
    BY <2>3, HotFailOK, StoreHotOK, StoreHotFailOK, CheckOK, PoolStateOK, CompareOK, MarkStepOK
  <2>4. CASE HealRollback \/ HealWipe \/ HealGiveUp \/ RollHistory \/ CleanHistory
    BY <2>4, HealOK, RollHistoryOK, CleanHistoryOK
  <2> QED BY <1>2, <2>1, <2>2, <2>3, <2>4 DEF SyncStep
<1>3. CASE \E i \in Indexes : OrphanBatch(i)
  BY <1>3, OrphanBatchOK
<1>4. CASE UserReset \/ UserResetHistory \/ WritesFinish \/ Restart
  BY <1>4, UserResetOK, WritesFinishOK, RestartOK
<1>5. CASE UNCHANGED vars
  BY <1>5, StutterOK
<1> QED BY <1>1, <1>2, <1>3, <1>4, <1>5 DEF Next

\* The inductive invariant holds in every reachable state: whatever the services
\* answer and whenever the user resets the state, indexes and attempts stay in
\* their ranges; without a reset during a sync the verified part of the tree is
\* right, and so is an index that is about to be marked (verifyState).
THEOREM SyncInvariant == Spec => []SyncInv
BY InitOK, NextOK, PTL DEF Spec

\* Every reachable state is well formed: indexes stay inside the pool, and
\* the repair counters never pass their limits (updateStateOptimisticWorker).
THEOREM TypeCorrect == Spec => []TypeOK
<1>1. SyncInv => TypeOK
  BY DEF SyncInv
<1> QED BY <1>1, SyncInvariant, PTL

\* Whatever the services answer, and wherever the process dies, rolls back or
\* is wiped, no slot below the last verified index is wrong: a state that skips
\* verification skips it rightly (verifyState and the check at the end of
\* updateStateOptimisticWorker).  The user resets the state between two syncs
\* only: a rollback between the comparison of the roots and the mark is not
\* noticed by verifyState.
THEOREM VerifiedPrefixHolds ==
    ASSUME ResetWhen # "any"
    PROVE  Spec => []VerifiedPrefix
<1>1. SyncInv => VerifiedPrefix
  BY DEF SyncInv, Rightly
<1> QED BY <1>1, SyncInvariant, PTL

-----------------------------------------------------------------------------
(* What a sync reports and what the history holds: the two invariants, of  *)
(* which the second needs the restrictions on restarts and resets.         *)

\* What is mined stays mined: the tree, the bulks and whatever a hot sync has
\* brought lie below the contract's index, which the sequencer's never falls behind.
Counts ==
    /\ ColdNext <= pool /\ next <= pool /\ pool <= opt
    /\ pc \in {"info", "sync", "hot"} => start <= pool
    /\ pc \in {"sync", "hot"} => hot.from <= pool
    /\ pc = "sync" => coldNext <= pool
    /\ hot.top <= pool /\ \A k \in hot.ok : k < pool

\* The sequencer knows the own transactions, and those watched are pending.
Watched ==
    /\ \A k \in own : k < opt
    /\ \A k \in watch : k \in own /\ pool <= k /\ k < opt

\* A hot sync that has worked from the sequencer's answers alone reaches beyond
\* every watched transaction ...
Targeted == pc \in {"sync", "hot"} /\ ~degraded => \A k \in watch : k < target

\* ... and one that has seen none of them has yet to fetch their batches.
Covered ==
    pc \in {"sync", "hot"} /\ ~degraded /\ ~hot.failed /\ ~hot.own =>
        \A k \in watch : \E i \in hot.todo : i <= k /\ k < i + BatchSize

\* Once the hot sync is stored or found needless, "ready" means none is left.
ReadyKnown ==
    pc \in {"check", "verify", "compare", "mark"} /\ ready /\ ~degraded => watch = {}

\* A sync whose result is still fresh is not repeated.
NotFresh == pc \notin {"idle", "enter"} => ~fresh

ReadyInv == Counts /\ Watched /\ Targeted /\ Covered /\ ReadyKnown /\ NotFresh

\* A partial tree starts at the account's birthday at the latest.
BornLater ==
    /\ birth <= BirthIndex /\ \A k \in own : BirthIndex <= k
    /\ pc \in {"sync", "hot"} /\ sib => start <= BirthIndex

\* The own transactions in the right slots of the tree have their memos ...
RightKnown == \A k \in own : k < next /\ k \notin bad => k \in memos

\* ... and so have those that the hot sync has brought, unless it will be
\* abandoned because the cold sync has wiped the history meanwhile.
HotKnown ==
    pc = "hot" \/ (pc = "sync" /\ (cold # "done" \/ coldNext = hot.from))
        => \A k \in hot.ok : k \in own => k \in memos

\* Where the bulks are loaded the hot sync starts after them.
HotAfterCold == pc = "sync" /\ cold # "done" => hot.from = ColdNext /\ ColdNext > 0

\* The history is cut where the tree was cut before, or above.
CutFollows ==
    /\ pc = "rollhist" => next <= idx
    /\ pc = "cleanhist" \/ (pc = "sync" /\ cold = "cleanhist") => next = 0
    /\ user # -1 => pc = "idle" /\ next <= user

HistoryParts == BornLater /\ RightKnown /\ HotKnown /\ HotAfterCold /\ CutFollows

HistoryInv == Counts /\ Watched /\ HistoryParts

-----------------------------------------------------------------------------
(* What is mined stays mined.                                              *)

\* An abandoned plan has brought nothing.
LEMMA NoHotEmpty == NoHot.top = 0 /\ NoHot.ok = {} /\ NoHot.todo = {}
BY DEF NoHot, NewHot

LEMMA EndEmpty == End => pc' = "idle" /\ hot'.top = 0 /\ hot'.ok = {}
BY NoHotEmpty DEF End, ForgetPlan

\* The plan of a sync lies below the index the plan was made with.
LEMMA PlanLow ==
    ASSUME TypeOK, Counts, pc = "info", NEW delta \in Indexes, NEW to \in Indexes,
           delta <= pool, NEW partial \in BOOLEAN, partial => PartialPossible(delta),
           Plan(delta, to, partial)
    PROVE  \/ /\ pc' = "check" /\ to <= start /\ hot'.top = 0 /\ hot'.ok = {}
           \/ /\ pc' = "sync" /\ start' <= pool /\ start' \in Indexes /\ coldNext' = start'
              /\ target' = to
              /\ hot' = NewHot(IndexAfterCold(start'), to) /\ sib' = partial
              /\ IndexAfterCold(start') <= pool
              /\ cold' = (IF ColdAvailable(start') THEN "load" ELSE "done")
              /\ start' = (IF partial THEN PartialStart(delta) ELSE start)
<1> DEFINE from == IF partial THEN PartialStart(delta) ELSE start
<1>1. from \in Indexes /\ from <= pool
  <2>1. CASE partial
    BY <2>1, PartialStartType DEF TypeOK, PartialStart, Indexes
  <2>2. CASE ~partial
    BY <2>2 DEF TypeOK, Counts
  <2> QED BY <2>1, <2>2
<1>2. CASE to > start
  <2>1. target' = to /\ sib' = partial /\ Launch(from, to)
    BY <1>2 DEF Plan
  <2>2. IndexAfterCold(from) <= pool
    BY <1>1 DEF IndexAfterCold, Counts
  <2> QED BY <1>1, <2>1, <2>2 DEF Launch
<1>3. CASE ~(to > start)
  <2>1. pc' = "check" /\ hot' = NoHot
    BY <1>3 DEF Plan, ForgetPlan
  <2>2. to <= start
    BY <1>3 DEF TypeOK, Indexes
  <2> QED BY <2>1, <2>2, NoHotEmpty
<1> QED BY <1>2, <1>3

\* The index the contract is seen at is not ahead of it.
LEMMA SeenLow == TypeOK => \A seen \in SeenIndexes : seen \in Indexes /\ seen <= pool
BY DEF TypeOK, SeenIndexes, Indexes

\* The counters a plan is made with.
LEMMA InfoPlans ==
    ASSUME TypeOK, Info
    PROVE  \/ \E delta, to \in Indexes, partial \in BOOLEAN :
                /\ Plan(delta, to, partial) /\ delta <= pool
                /\ partial => PartialPossible(delta)
                /\ \/ to = opt /\ UNCHANGED degraded
                   \/ degraded'
                /\ UNCHANGED <<fresh, lastResult, ready, stableSeen, idx, watch>>
           \/ Throw /\ UNCHANGED pmemos
<1>1. pool \in Indexes /\ opt \in Indexes /\ pool <= pool
  BY DEF TypeOK, Indexes
<1>2. CASE Plan(pool, opt, PartialPossible(pool)) /\ UNCHANGED <<fresh, lastResult, ready, stableSeen, idx, observers>>
  <2>1. PartialPossible(pool) \in BOOLEAN
    BY DEF PartialPossible
  <2> QED BY <1>1, <1>2, <2>1 DEF observers
<1>3. CASE Plan(pool, opt, FALSE) /\ UNCHANGED <<fresh, lastResult, ready, stableSeen, idx, observers>>
  BY <1>1, <1>3 DEF observers
<1>4. ASSUME NEW seen \in SeenIndexes, NEW siblingsOk \in BOOLEAN, degraded' = TRUE,
             Plan(seen, seen, siblingsOk /\ PartialPossible(seen)),
             UNCHANGED <<fresh, lastResult, ready, stableSeen, idx, watch>>
      PROVE  \E delta, to \in Indexes, partial \in BOOLEAN :
                /\ Plan(delta, to, partial) /\ delta <= pool
                /\ partial => PartialPossible(delta)
                /\ \/ to = opt /\ UNCHANGED degraded
                   \/ degraded'
                /\ UNCHANGED <<fresh, lastResult, ready, stableSeen, idx, watch>>
  <2>1. (siblingsOk /\ PartialPossible(seen)) \in BOOLEAN
    BY DEF PartialPossible
  <2>2. seen \in Indexes /\ seen <= pool
    BY SeenLow
  <2> QED BY <1>4, <2>1, <2>2
<1>5. CASE Throw /\ UNCHANGED pmemos
  BY <1>5
<1> QED BY <1>2, <1>3, <1>4, <1>5 DEF Info

\* A new hot sync has brought nothing yet.
LEMMA NewHotEmpty ==
    \A from, to : /\ NewHot(from, to).from = from /\ NewHot(from, to).top = 0
                  /\ NewHot(from, to).ok = {} /\ ~NewHot(from, to).own /\ ~NewHot(from, to).failed
                  /\ NewHot(from, to).todo =
                       {i \in Indexes : i >= from /\ i <= to /\ (i - from) % BatchSize = 0}
BY DEF NewHot

\* What a batch brings is mined.
LEMMA ParseLow ==
    ASSUME TypeOK, Counts, NEW i \in Indexes, NEW mined \in Indexes, NEW known, NEW wrong,
           mined <= pool, ParseBatch(i, mined, known, wrong)
    PROVE  /\ hot'.from = hot.from /\ hot'.todo = hot.todo \ {i} /\ hot'.failed = hot.failed
           /\ hot'.ok = hot.ok \cup ((i .. (Lesser(i + BatchSize, mined) - 1)) \ wrong)
           /\ hot'.own = MergeOwn(hot.own, OwnIn(Greater(i, Lesser(i + BatchSize, mined)),
                                                 Lesser(i + BatchSize, known)) # {})
           /\ hot'.top <= pool /\ \A k \in hot'.ok : k < pool
<1> DEFINE minedTo == Lesser(i + BatchSize, mined)
           knownTo == Lesser(i + BatchSize, known)
<1>1. minedTo \in Int /\ minedTo <= pool /\ pool \in Int
  BY DEF Lesser, TypeOK, Indexes
<1>2. hot' = [hot EXCEPT
                   !.todo = @ \ {i},
                   !.ok   = @ \cup ((i .. (minedTo - 1)) \ wrong),
                   !.top  = IF minedTo > i THEN Greater(@, minedTo) ELSE @,
                   !.pend = IF knownTo > Greater(i, minedTo) THEN Greater(@, knownTo) ELSE @,
                   !.own  = MergeOwn(@, OwnIn(Greater(i, minedTo), knownTo) # {})]
  BY DEF ParseBatch
<1>3. hot \in HotState /\ hot.top \in Int
  BY DEF TypeOK, HotState, Indexes
<1> HIDE DEF minedTo, knownTo
<1>4. /\ hot'.from = hot.from /\ hot'.todo = hot.todo \ {i} /\ hot'.failed = hot.failed
      /\ hot'.ok = hot.ok \cup ((i .. (minedTo - 1)) \ wrong)
      /\ hot'.top = IF minedTo > i THEN Greater(hot.top, minedTo) ELSE hot.top
      /\ hot'.own = MergeOwn(hot.own, OwnIn(Greater(i, minedTo), knownTo) # {})
  BY <1>2, <1>3 DEF HotState
<1>5. hot'.top <= pool
  BY <1>1, <1>3, <1>4 DEF Greater, Counts
<1>6. \A k \in i .. (minedTo - 1) : k < pool
  BY <1>1 DEF Indexes
<1>7. \A k \in hot'.ok : k < pool
  BY <1>4, <1>6 DEF Counts
<1> QED BY <1>4, <1>5, <1>7 DEF minedTo, knownTo

\* The ways a batch is answered: from the sequencer, from the subgraph, or not.
LEMMA FetchAnswers ==
    ASSUME TypeOK, Counts, NEW i \in Indexes, FetchBatch(i)
    PROVE  \/ \E mined, known \in Indexes : \E wrong :
                /\ mined <= pool /\ ParseBatch(i, mined, known, wrong)
                /\ \/ mined = pool /\ known = opt /\ degraded' = degraded
                   \/ degraded'
           \/ /\ hot' = [hot EXCEPT !.todo = @ \ {i}, !.failed = TRUE]
              /\ UNCHANGED <<memos, unsaved, degraded>>
<1>1. pool \in Indexes /\ opt \in Indexes /\ pool <= pool
  BY DEF TypeOK, Indexes
<1>2. \A x \in 0 .. pool : x \in Indexes /\ x <= pool
  BY DEF TypeOK, Indexes
<1>3. CASE ParseBatch(i, pool, opt, {}) /\ UNCHANGED degraded
  BY <1>1, <1>3
<1>4. CASE \E w \in Batch(i) : ParseBatch(i, pool, opt, {w}) /\ UNCHANGED degraded
  BY <1>1, <1>4
<1>5. CASE \E indexed \in 0 .. pool : ParseBatch(i, indexed, indexed, {}) /\ degraded' = TRUE
  BY <1>2, <1>5
<1>6. CASE hot' = [hot EXCEPT !.todo = @ \ {i}, !.failed = TRUE] /\ UNCHANGED <<hist, degraded>>
  BY <1>6 DEF hist
<1> QED BY <1>3, <1>4, <1>5, <1>6 DEF FetchBatch

LEMMA FetchCounts ==
    ASSUME TypeOK, Counts, NEW i \in Indexes, FetchBatch(i)
    PROVE  Counts'
<1>1. UNCHANGED <<pool, opt, next, pc, start, coldNext>>
  BY DEF FetchBatch, tree
<1>2. hot'.from = hot.from /\ hot'.top <= pool /\ \A k \in hot'.ok : k < pool
  <2>1. CASE hot' = [hot EXCEPT !.todo = @ \ {i}, !.failed = TRUE]
    BY <2>1 DEF TypeOK, HotState, Counts
  <2>2. CASE hot' # [hot EXCEPT !.todo = @ \ {i}, !.failed = TRUE]
    <3>1. PICK mined, known \in Indexes : \E wrong :
             mined <= pool /\ ParseBatch(i, mined, known, wrong)
      BY <2>2, FetchAnswers
    <3>2. PICK wrong : mined <= pool /\ ParseBatch(i, mined, known, wrong)
      BY <3>1
    <3> QED BY <3>2, ParseLow
  <2> QED BY <2>1, <2>2
<1> QED BY <1>1, <1>2 DEF Counts

LEMMA InfoCounts == TypeOK /\ Counts /\ Info => Counts'
<1> SUFFICES ASSUME TypeOK, Counts, Info PROVE Counts'
  OBVIOUS
<1>1. UNCHANGED <<pool, opt, next>> /\ pc = "info"
  BY DEF Info, tree
<1>2. CASE Throw
  BY <1>1, <1>2, EndEmpty DEF Throw, Counts, TypeOK, Indexes
<1>3. CASE ~Throw
  <2>1. PICK delta, to \in Indexes, partial \in BOOLEAN :
           Plan(delta, to, partial) /\ delta <= pool /\ (partial => PartialPossible(delta))
    BY <1>3, InfoPlans
  <2>2. CASE pc' = "check" /\ hot'.top = 0 /\ hot'.ok = {}
    BY <1>1, <2>2 DEF Counts, TypeOK, Indexes
  <2>3. CASE /\ pc' = "sync" /\ start' <= pool /\ coldNext' = start'
             /\ hot' = NewHot(IndexAfterCold(start'), to)
             /\ IndexAfterCold(start') <= pool
    BY <1>1, <2>3, NewHotEmpty DEF Counts, TypeOK, Indexes
  <2> QED BY <1>1, <2>1, <2>2, <2>3, PlanLow
<1> QED BY <1>2, <1>3

LEMMA EndCounts ==
    ASSUME TypeOK, Counts, End, UNCHANGED <<pool, opt, next>>
    PROVE  Counts'
BY EndEmpty DEF Counts, TypeOK, Indexes

LEMMA EnvironmentCounts == TypeOK /\ Counts /\ (Submit \/ Mine \/ Drop) => Counts'
BY DEF Submit, Mine, Drop, Counts, TypeOK, Indexes, Slots, HotState, tree, locals, planned

LEMMA EnterCounts == TypeOK /\ Counts /\ Enter => Counts'
<1> SUFFICES ASSUME TypeOK, Counts, Enter PROVE Counts'
  OBVIOUS
<1>1. UNCHANGED <<pool, opt, next>>
  BY DEF Enter, env, tree
<1>2. CASE End
  BY <1>1, <1>2, EndCounts
<1>3. CASE pc' = "info" /\ start' = next /\ UNCHANGED <<hot, coldNext>>
  BY <1>1, <1>3 DEF Counts
<1> QED BY <1>2, <1>3 DEF Enter

LEMMA ColdLoadCounts == TypeOK /\ Counts /\ ColdLoad => Counts'
<1> SUFFICES ASSUME TypeOK, Counts, ColdLoad PROVE Counts'
  OBVIOUS
<1>1. UNCHANGED <<pool, opt, pc, start, hot>> /\ coldNext' = ColdNext /\ next' = Greater(next, ColdNext)
  BY DEF ColdLoad
<1> QED BY <1>1 DEF Counts, Greater

LEMMA CutLow ==
    ASSUME TypeOK, NEW i \in Indexes, CutTree(i)
    PROVE  next' \in Indexes /\ next' <= next /\ next' <= i
BY DEF CutTree, Lesser, TypeOK, Indexes

LEMMA ColdVerifyCounts == TypeOK /\ Counts /\ ColdVerify => Counts'
<1> SUFFICES ASSUME TypeOK, Counts, ColdVerify PROVE Counts'
  OBVIOUS
<1>1. UNCHANGED <<pool, opt, pc, start, hot, coldNext>>
  BY DEF ColdVerify
<1>2. next' = next \/ CutTree(0)
  BY DEF ColdVerify, tree
<1>3. 0 \in Indexes
  BY DEF Indexes
<1>4. next' <= pool
  BY <1>2, <1>3, CutLow DEF Counts, TypeOK, Indexes
<1> QED BY <1>1, <1>4 DEF Counts

LEMMA ColdMarkCounts == TypeOK /\ Counts /\ ColdMark => Counts'
BY DEF ColdMark, Counts, env

LEMMA ColdCleanCounts == TypeOK /\ Counts /\ (ColdCleanHistory \/ ColdFail) => Counts'
BY DEF ColdCleanHistory, ColdFail, Counts, tree, TypeOK, Indexes

LEMMA JoinColdCounts == TypeOK /\ Counts /\ JoinCold => Counts'
BY NewHotEmpty DEF JoinCold, Counts, tree, env, TypeOK, Indexes

LEMMA StoreHotCounts == TypeOK /\ Counts /\ StoreHot => Counts'
<1> SUFFICES ASSUME TypeOK, Counts, StoreHot PROVE Counts'
  OBVIOUS
<1>1. UNCHANGED <<pool, opt>> /\ pc' = "check" /\ next' = Greater(next, hot.top) /\ hot' = NoHot
  BY DEF StoreHot, ForgetPlan
<1>2. pool \in Int /\ 0 <= pool
  BY DEF TypeOK, Indexes
<1> QED BY <1>1, <1>2, NoHotEmpty DEF Counts, Greater

LEMMA CheckCounts == TypeOK /\ Counts /\ (Check \/ PoolState \/ Compare \/ Mark) => Counts'
<1> SUFFICES ASSUME TypeOK, Counts, Check \/ PoolState \/ Compare \/ Mark PROVE Counts'
  OBVIOUS
<1>1. UNCHANGED <<pool, opt, next>>
  BY DEF Check, PoolState, Compare, Mark, env, tree
<1>2. CASE End
  BY <1>1, <1>2, EndCounts
<1>3. CASE ~End
  BY <1>1, <1>3 DEF Check, PoolState, Compare, Mark, Finish, Throw, Counts, planned, locals
<1> QED BY <1>2, <1>3

LEMMA HealCounts == TypeOK /\ Counts /\ (HealRollback \/ HealWipe \/ UserReset) => Counts'
<1> SUFFICES ASSUME TypeOK, Counts, HealRollback \/ HealWipe \/ UserReset PROVE Counts'
  OBVIOUS
<1>1. 0 \in Indexes /\ stableSeen \in Indexes /\ \A x \in 0 .. stableSeen : x \in Indexes
  BY DEF TypeOK, Indexes
<1>2. \E i \in Indexes : CutTree(i)
  BY <1>1 DEF HealRollback, HealWipe, UserReset
<1>3. next' <= pool
  BY <1>2, CutLow DEF Counts, TypeOK, Indexes
<1>4. UNCHANGED <<pool, opt, start, hot, coldNext>> /\ pc' \in {pc, "rollhist", "cleanhist"}
  BY DEF HealRollback, HealWipe, UserReset, env, locals, planned
<1> QED BY <1>3, <1>4 DEF Counts

LEMMA EndingCounts ==
    TypeOK /\ Counts /\ (HotFail \/ StoreHotFail \/ HealGiveUp \/ Restart) => Counts'
BY EndCounts DEF HotFail, StoreHotFail, HealGiveUp, Restart, Throw, env, tree

LEMMA RepairCounts == TypeOK /\ Counts /\ (RollHistory \/ CleanHistory) => Counts'
<1> SUFFICES ASSUME TypeOK, Counts, RollHistory \/ CleanHistory PROVE Counts'
  OBVIOUS
<1>1. UNCHANGED <<pool, opt, next>>
  BY DEF RollHistory, CleanHistory, tree
<1>2. CASE End
  BY <1>1, <1>2, EndCounts
<1>3. CASE ~End
  BY <1>1, <1>3 DEF RollHistory, CleanHistory, Throw, Counts, locals, planned
<1> QED BY <1>2, <1>3

LEMMA OtherCounts ==
    ASSUME Counts, \/ UpdateState \/ FreshExpires \/ UserResetHistory \/ WritesFinish
                   \/ (\E i \in Indexes : OrphanBatch(i)) \/ UNCHANGED vars
    PROVE  Counts'
<1>1. UNCHANGED <<pool, opt, next, start, hot, coldNext>> /\ pc' \in {pc, "enter"}
  BY DEF UpdateState, FreshExpires, UserResetHistory, WritesFinish, OrphanBatch, vars,
         env, tree, locals, planned
<1> QED BY <1>1 DEF Counts

LEMMA CountsNext == SyncInv /\ Counts /\ [Next]_vars => Counts'
<1> SUFFICES ASSUME TypeOK, Counts, [Next]_vars PROVE Counts'
  BY DEF SyncInv
<1>1. CASE Environment \/ UpdateState \/ FreshExpires \/ UNCHANGED vars
  BY <1>1, EnvironmentCounts, OtherCounts DEF Environment
<1>2. CASE SyncStep
  <2>1. CASE \E i \in Indexes : FetchBatch(i)
    BY <2>1, FetchCounts
  <2>2. CASE Enter \/ Info \/ ColdLoad \/ ColdFail \/ ColdVerify \/ ColdMark \/ ColdCleanHistory \/ JoinCold
    BY <2>2, EnterCounts, InfoCounts, ColdLoadCounts, ColdVerifyCounts, ColdMarkCounts, ColdCleanCounts, JoinColdCounts
  <2>3. CASE HotFail \/ StoreHot \/ StoreHotFail \/ Check \/ PoolState \/ Compare \/ Mark
    BY <2>3, EndingCounts, StoreHotCounts, CheckCounts
  <2>4. CASE HealRollback \/ HealWipe \/ HealGiveUp \/ RollHistory \/ CleanHistory
    BY <2>4, HealCounts, EndingCounts, RepairCounts
  <2> QED BY <1>2, <2>1, <2>2, <2>3, <2>4 DEF SyncStep
<1>3. CASE \/ \E i \in Indexes : OrphanBatch(i)
           \/ UserReset \/ UserResetHistory \/ WritesFinish \/ Restart
  BY <1>3, HealCounts, OtherCounts, EndingCounts
<1> QED BY <1>1, <1>2, <1>3 DEF Next

-----------------------------------------------------------------------------
(* The batches of a hot sync cover what it plans to fetch.                 *)

LEMMA DivMod == \A n \in Nat \ {0}, x \in Nat : x = n * (x \div n) + (x % n) /\ x \div n \in Nat
OBVIOUS

LEMMA AtLeast == \A n \in Nat \ {0}, q \in Int : q >= 1 => n * q >= n
OBVIOUS

LEMMA TimesMinus == \A n, p, q \in Int : n * (p - q) = n * p - n * q /\ n * p \in Int
OBVIOUS

\* What is short of an index by its remainder is a whole number of batches.
LEMMA WholeBatches ==
    ASSUME NEW n \in Nat \ {0}, NEW q \in Nat
    PROVE  (n * q) % n = 0
<1> DEFINE x == n * q
           p == x \div n
           r == x % n
<1>1. x \in Nat
  OBVIOUS
<1>2. x = n * p + r /\ p \in Int /\ r \in 0 .. (n - 1)
  BY <1>1, DivMod
<1>3. x = n * q
  OBVIOUS
<1> HIDE DEF x, p, r
<1>4. n * (q - p) = n * q - n * p /\ n * (p - q) = n * p - n * q
  BY <1>2, TimesMinus
<1>5. n * (q - p) = r /\ n * (p - q) = 0 - r
  BY <1>1, <1>2, <1>3, <1>4
<1>6. ~(q - p >= 1) /\ ~(p - q >= 1)
  BY <1>2, <1>5, AtLeast
<1>7. p = q
  BY <1>2, <1>6
<1>8. r = 0
  BY <1>1, <1>2, <1>3, <1>7
<1> QED BY <1>8 DEF x, r

\* Every slot of the range belongs to a batch that is requested (the loop of
\* startHotSync over the batches).
LEMMA BatchesCover ==
    ASSUME NEW from \in Indexes, NEW to \in Indexes, NEW k \in Indexes, from <= k, k < to
    PROVE  \E i \in NewHot(from, to).todo : i <= k /\ k < i + BatchSize
<1> DEFINE q == (k - from) \div BatchSize
           r == (k - from) % BatchSize
           i == k - r
<1>1. k - from \in Nat /\ from \in Nat /\ k \in Nat
  BY DEF Indexes
<1>2. k - from = BatchSize * q + r /\ q \in Nat /\ r \in 0 .. (BatchSize - 1)
  BY <1>1, DivMod
<1> HIDE DEF q, r
<1>3. BatchSize * q \in Int /\ (BatchSize * q) % BatchSize = 0
  <2>1. BatchSize * q \in Int
    BY <1>2, TimesMinus
  <2>2. (BatchSize * q) % BatchSize = 0
    BY <1>2, WholeBatches
  <2> QED BY <2>1, <2>2
<1>4. i - from = BatchSize * q
  BY <1>1, <1>2, <1>3
<1>5. i >= from /\ i <= k /\ k < i + BatchSize /\ i \in Int
  BY <1>1, <1>2, <1>3
<1>6. i \in Indexes /\ i <= to
  BY <1>1, <1>5 DEF Indexes
<1>7. (i - from) % BatchSize = 0
  BY <1>3, <1>4
<1> HIDE DEF i
<1>8. i \in NewHot(from, to).todo
  BY <1>5, <1>6, <1>7, NewHotEmpty
<1> QED BY <1>5, <1>8

-----------------------------------------------------------------------------
(* What a sync reports.                                                    *)

LEMMA EndReady ==
    ASSUME ReadyInv, End, UNCHANGED <<pool, opt, own>>
    PROVE  Watched' /\ Targeted' /\ Covered' /\ ReadyKnown' /\ NotFresh'
BY DEF End, ReadyInv, Watched, Targeted, Covered, ReadyKnown, NotFresh

\* The steps that neither start, finish nor advance a hot sync.
LEMMA SameReady ==
    ASSUME ReadyInv, UNCHANGED <<opt, pool, own, target, ready, degraded, hot, watch>>,
           fresh' = fresh \/ ~fresh',
           \/ pc' = pc
           \/ pc \in {"check", "verify", "compare"} /\ pc' \in {"verify", "compare", "mark", "heal"}
           \/ pc = "heal" /\ pc' \in {"rollhist", "cleanhist"}
           \/ pc' = "enter"
    PROVE  Watched' /\ Targeted' /\ Covered' /\ ReadyKnown' /\ NotFresh'
BY DEF ReadyInv, Watched, Targeted, Covered, ReadyKnown, NotFresh

LEMMA EnvironmentReady ==
    ASSUME TypeOK, ReadyInv, Submit \/ Mine \/ Drop
    PROVE  Watched' /\ Targeted' /\ Covered' /\ ReadyKnown' /\ NotFresh'
<1>1. UNCHANGED <<pc, target, ready, degraded, hot, fresh>>
  BY DEF Submit, Mine, Drop, fields, locals, planned, observers
<1>2. watch' \subseteq watch
  BY DEF Submit, Mine, Drop, observers
<1>3. Watched'
  <2>1. CASE Submit
    <3>1. opt' = opt + 1 /\ pool' = pool /\ own' \in {own, own \cup {opt}} /\ watch' = watch
      BY <2>1 DEF Submit, observers
    <3> QED BY <3>1 DEF ReadyInv, Watched, TypeOK, Indexes, Slots
  <2>2. CASE Mine
    <3>1. opt' = opt /\ pool' = pool + 1 /\ own' = own /\ watch' = watch \ {pool}
      BY <2>2 DEF Mine
    <3> QED BY <3>1 DEF ReadyInv, Watched, TypeOK, Indexes, Slots
  <2>3. CASE Drop
    <3>1. opt' = opt - 1 /\ pool' = pool /\ own' = own \ {opt - 1} /\ watch' = watch \ {opt - 1}
      BY <2>3 DEF Drop
    <3> QED BY <3>1 DEF ReadyInv, Watched, TypeOK, Indexes, Slots
  <2> QED BY <2>1, <2>2, <2>3
<1> QED BY <1>1, <1>2, <1>3 DEF ReadyInv, Targeted, Covered, ReadyKnown, NotFresh

LEMMA EnterReady ==
    ASSUME TypeOK, ReadyInv, Enter
    PROVE  Watched' /\ Targeted' /\ Covered' /\ ReadyKnown' /\ NotFresh'
<1>1. UNCHANGED <<pool, opt, own, fresh>>
  BY DEF Enter, env, fields
<1>2. CASE End
  BY <1>1, <1>2, EndReady
<1>3. CASE ~fresh /\ pc' = "info" /\ watch' = {k \in own : k >= pool}
  <2>1. pool \in Int /\ \A k \in own : k \in Int
    BY DEF TypeOK, Indexes, Slots
  <2> QED BY <1>1, <1>3, <2>1 DEF ReadyInv, Watched, Targeted, Covered, ReadyKnown, NotFresh
<1> QED BY <1>2, <1>3 DEF Enter

LEMMA InfoReady ==
    ASSUME TypeOK, ReadyInv, Info
    PROVE  Watched' /\ Targeted' /\ Covered' /\ ReadyKnown' /\ NotFresh'
<1>1. UNCHANGED <<pool, opt, own>> /\ pc = "info"
  BY DEF Info
<1>2. CASE Throw
  BY <1>1, <1>2, EndReady DEF Throw
<1>3. CASE ~Throw
  <2>1. PICK delta, to \in Indexes, partial \in BOOLEAN :
           /\ Plan(delta, to, partial) /\ delta <= pool /\ (partial => PartialPossible(delta))
           /\ \/ to = opt /\ UNCHANGED degraded
              \/ degraded'
           /\ UNCHANGED <<fresh, lastResult, ready, stableSeen, idx, watch>>
    BY <1>3, InfoPlans
  <2>2. Watched'
    BY <1>1, <2>1 DEF ReadyInv, Watched
  <2>3. NotFresh'
    BY <1>1, <2>1 DEF ReadyInv, NotFresh
  <2>4. \A k \in watch : k \in Indexes /\ pool <= k /\ k < opt
    BY DEF TypeOK, ReadyInv, Watched, Slots, Indexes
  <2>5. CASE pc' = "check" /\ to <= start
    <3>1. to = opt => watch = {}
      BY <1>1, <2>4, <2>5 DEF TypeOK, ReadyInv, Counts, Indexes
    <3> QED BY <2>1, <2>2, <2>3, <2>5, <3>1 DEF Targeted, Covered, ReadyKnown
  <2>6. CASE /\ pc' = "sync" /\ target' = to /\ start' \in Indexes
             /\ hot' = NewHot(IndexAfterCold(start'), to)
             /\ IndexAfterCold(start') <= pool
    <3>1. Targeted'
      BY <2>1, <2>4, <2>6 DEF Targeted
    <3>2. IndexAfterCold(start') \in Indexes
      BY <2>6, AfterColdType
    <3>3. ASSUME ~degraded', NEW k \in watch'
          PROVE  \E i \in hot'.todo : i <= k /\ k < i + BatchSize
      <4>1. k \in Indexes /\ IndexAfterCold(start') <= k /\ k < to
        BY <2>1, <2>4, <2>6, <3>2, <3>3 DEF TypeOK, Indexes
      <4> QED BY <2>6, <3>2, <4>1, BatchesCover
    <3>4. Covered'
      BY <3>3 DEF Covered
    <3> QED BY <2>2, <2>3, <2>6, <3>1, <3>4 DEF ReadyKnown
  <2> QED BY <1>1, <2>1, <2>5, <2>6, PlanLow DEF ReadyInv
<1> QED BY <1>2, <1>3

\* A batch the sequencer has answered shows every own pending transaction in it.
LEMMA FetchReady ==
    ASSUME TypeOK, ReadyInv, NEW i \in Indexes, FetchBatch(i)
    PROVE  Watched' /\ Targeted' /\ Covered' /\ ReadyKnown' /\ NotFresh'
<1>1. UNCHANGED <<pool, opt, own, target, watch, pc, fresh>> /\ pc \in {"sync", "hot"}
  BY DEF FetchBatch, fields
<1>2. degraded => degraded'
  BY DEF FetchBatch
<1>3. Watched' /\ Targeted' /\ ReadyKnown' /\ NotFresh'
  BY <1>1, <1>2 DEF ReadyInv, Watched, Targeted, ReadyKnown, NotFresh
<1>4. ASSUME ~degraded', ~hot'.failed, ~hot'.own, NEW k \in watch
      PROVE  \E j \in hot'.todo : j <= k /\ k < j + BatchSize
  <2>1. CASE hot' = [hot EXCEPT !.todo = @ \ {i}, !.failed = TRUE]
    BY <1>4, <2>1 DEF TypeOK, HotState
  <2>2. CASE hot' # [hot EXCEPT !.todo = @ \ {i}, !.failed = TRUE]
    <3>1. \E wrong : ParseBatch(i, pool, opt, wrong)
      BY <1>4, <2>2, FetchAnswers DEF ReadyInv
    <3>2. PICK wrong : ParseBatch(i, pool, opt, wrong)
      BY <3>1
    <3> DEFINE minedTo == Lesser(i + BatchSize, pool)
               knownTo == Lesser(i + BatchSize, opt)
    <3>3. pool \in Indexes /\ opt \in Indexes /\ pool <= pool
      BY DEF TypeOK, Indexes
    <3>4. /\ hot'.todo = hot.todo \ {i} /\ hot'.failed = hot.failed
          /\ hot'.own = MergeOwn(hot.own, OwnIn(Greater(i, minedTo), knownTo) # {})
      BY <3>2, <3>3, ParseLow DEF ReadyInv
    <3>5. ~hot.own /\ ~hot.failed /\ OwnIn(Greater(i, minedTo), knownTo) = {}
      BY <1>4, <3>4 DEF MergeOwn
    <3>6. PICK j \in hot.todo : j <= k /\ k < j + BatchSize
      BY <1>1, <1>2, <1>4, <3>5 DEF ReadyInv, Covered
    <3>7. k \in own /\ pool <= k /\ k < opt /\ k \in Int
      BY <1>4 DEF ReadyInv, Watched, TypeOK, Slots
    <3>8. CASE j = i
      <4>1. Greater(i, minedTo) <= k /\ k < knownTo
        BY <3>3, <3>6, <3>7, <3>8 DEF Greater, Lesser, Indexes
      <4>2. k >= Greater(i, minedTo)
        BY <3>3, <3>7, <4>1 DEF Greater, Lesser, Indexes
      <4> HIDE DEF minedTo, knownTo
      <4>3. k \in OwnIn(Greater(i, minedTo), knownTo)
        BY <3>7, <4>1, <4>2 DEF OwnIn
      <4> QED BY <3>5, <4>3
    <3>9. CASE j # i
      BY <3>4, <3>6, <3>9
    <3> QED BY <3>8, <3>9
  <2> QED BY <2>1, <2>2
<1>5. Covered'
  BY <1>1, <1>4 DEF Covered
<1> QED BY <1>3, <1>5

LEMMA JoinColdReady ==
    ASSUME TypeOK, ReadyInv, JoinCold
    PROVE  Watched' /\ Targeted' /\ Covered' /\ ReadyKnown' /\ NotFresh'
<1>1. UNCHANGED <<pool, opt, own, target, watch, degraded, fresh>> /\ pc = "sync" /\ pc' = "hot"
  BY DEF JoinCold, env, fields, observers
<1>2. Watched' /\ Targeted' /\ ReadyKnown' /\ NotFresh'
  BY <1>1 DEF ReadyInv, Watched, Targeted, ReadyKnown, NotFresh
<1>3. CASE hot' = hot
  BY <1>1, <1>2, <1>3 DEF ReadyInv, Covered
<1>4. CASE hot' = NewHot(coldNext, target)
  <2>1. coldNext \in Indexes /\ target \in Indexes /\ coldNext <= pool
    BY <1>1 DEF TypeOK, ReadyInv, Counts
  <2>2. ASSUME ~degraded, NEW k \in watch
        PROVE  \E i \in hot'.todo : i <= k /\ k < i + BatchSize
    <3>1. k \in Indexes /\ coldNext <= k /\ k < target
      BY <1>1, <2>1, <2>2 DEF TypeOK, ReadyInv, Watched, Targeted, Slots, Indexes
    <3> QED BY <1>4, <2>1, <3>1, BatchesCover
  <2> QED BY <1>1, <1>2, <2>2 DEF Covered
<1> QED BY <1>3, <1>4 DEF JoinCold

LEMMA StoreHotReady ==
    ASSUME TypeOK, ReadyInv, StoreHot
    PROVE  Watched' /\ Targeted' /\ Covered' /\ ReadyKnown' /\ NotFresh'
<1>1. UNCHANGED <<pool, opt, own, watch, degraded, fresh>> /\ pc = "hot" /\ pc' = "check"
  BY DEF StoreHot, fields, observers
<1>2. ready' = ~hot.own /\ hot.todo = {} /\ ~hot.failed
  BY DEF StoreHot
<1>3. ready' /\ ~degraded => watch = {}
  BY <1>1, <1>2 DEF ReadyInv, Covered
<1> QED BY <1>1, <1>3 DEF ReadyInv, Watched, Targeted, Covered, ReadyKnown, NotFresh

LEMMA CheckReady ==
    ASSUME TypeOK, ReadyInv, Check \/ PoolState \/ Compare \/ Mark
    PROVE  Watched' /\ Targeted' /\ Covered' /\ ReadyKnown' /\ NotFresh'
<1>1. UNCHANGED <<pool, opt, own>>
  BY DEF Check, PoolState, Compare, Mark, env
<1>2. CASE End
  BY <1>1, <1>2, EndReady
<1>3. CASE ~End
  <2>1. UNCHANGED <<target, ready, degraded, hot, watch, fresh>>
        /\ pc \in {"check", "verify", "compare"} /\ pc' \in {"verify", "compare", "mark", "heal"}
    BY <1>3 DEF Check, PoolState, Compare, Mark, Finish, Throw, locals, planned, observers
  <2> QED BY <1>1, <2>1, SameReady
<1> QED BY <1>2, <1>3

LEMMA RepairReady ==
    ASSUME TypeOK, ReadyInv,
           HealRollback \/ HealWipe \/ RollHistory \/ CleanHistory
    PROVE  Watched' /\ Targeted' /\ Covered' /\ ReadyKnown' /\ NotFresh'
<1>1. UNCHANGED <<pool, opt, own>>
  BY DEF HealRollback, HealWipe, RollHistory, CleanHistory, env
<1>2. CASE End
  BY <1>1, <1>2, EndReady
<1>3. CASE ~End
  <2>1. UNCHANGED <<target, ready, degraded, hot, watch, fresh>>
        /\ \/ pc = "heal" /\ pc' \in {"rollhist", "cleanhist"}
           \/ pc' = "enter"
    BY <1>3 DEF HealRollback, HealWipe, RollHistory, CleanHistory, Throw, locals, planned,
       observers, fields
  <2> QED BY <1>1, <2>1, SameReady
<1> QED BY <1>2, <1>3

LEMMA EndingReady ==
    ASSUME ReadyInv, HotFail \/ StoreHotFail \/ HealGiveUp \/ Restart
    PROVE  Watched' /\ Targeted' /\ Covered' /\ ReadyKnown' /\ NotFresh'
BY EndReady DEF HotFail, StoreHotFail, HealGiveUp, Restart, Throw, env

LEMMA OtherReady ==
    ASSUME TypeOK, ReadyInv,
           \/ ColdLoad \/ ColdFail \/ ColdVerify \/ ColdMark \/ ColdCleanHistory
           \/ UpdateState \/ FreshExpires \/ UserReset \/ UserResetHistory \/ WritesFinish
           \/ (\E i \in Indexes : OrphanBatch(i)) \/ UNCHANGED vars
    PROVE  Watched' /\ Targeted' /\ Covered' /\ ReadyKnown' /\ NotFresh'
<1>1. UNCHANGED <<opt, pool, own, target, ready, degraded, hot, watch>>
      /\ (fresh' = fresh \/ ~fresh') /\ pc' \in {pc, "enter"}
  BY DEF ColdLoad, ColdFail, ColdVerify, ColdMark, ColdCleanHistory, UpdateState,
      FreshExpires, UserReset, UserResetHistory, WritesFinish, OrphanBatch, vars, env,
      fields, locals, planned, observers
<1> QED BY <1>1, SameReady

LEMMA ReadyNext == SyncInv /\ ReadyInv /\ [Next]_vars => ReadyInv'
<1> SUFFICES ASSUME SyncInv, ReadyInv, [Next]_vars PROVE ReadyInv'
  OBVIOUS
<1>1. Counts' /\ TypeOK
  BY CountsNext DEF SyncInv, ReadyInv
<1> DEFINE Goal == Watched' /\ Targeted' /\ Covered' /\ ReadyKnown' /\ NotFresh'
<1>2. Goal
  <2>1. CASE Environment \/ UpdateState \/ FreshExpires \/ UNCHANGED vars
    BY <1>1, <2>1, EnvironmentReady, OtherReady DEF Environment
  <2>2. CASE \E i \in Indexes : FetchBatch(i)
    BY <1>1, <2>2, FetchReady
  <2>3. CASE Enter \/ Info \/ ColdLoad \/ ColdFail \/ ColdVerify \/ ColdMark \/ ColdCleanHistory \/ JoinCold
    BY <1>1, <2>3, EnterReady, InfoReady, JoinColdReady, OtherReady
  <2>4. CASE HotFail \/ StoreHot \/ StoreHotFail \/ Check \/ PoolState \/ Compare \/ Mark
    BY <1>1, <2>4, EndingReady, StoreHotReady, CheckReady
  <2>5. CASE HealRollback \/ HealWipe \/ HealGiveUp \/ RollHistory \/ CleanHistory
    BY <1>1, <2>5, RepairReady, EndingReady
  <2>6. CASE \/ \E i \in Indexes : OrphanBatch(i)
             \/ UserReset \/ UserResetHistory \/ WritesFinish \/ Restart
    BY <1>1, <2>6, OtherReady, EndingReady
  <2> HIDE DEF Goal
  <2> QED BY <2>1, <2>2, <2>3, <2>4, <2>5, <2>6 DEF Next, SyncStep
<1> QED BY <1>1, <1>2 DEF ReadyInv

LEMMA ReadyInit == Init => ReadyInv
<1> SUFFICES ASSUME Init PROVE ReadyInv
  OBVIOUS
<1>1. Counts
  BY NoHotEmpty DEF Init, Counts
<1>2. Watched
  BY DEF Init, Watched
<1> QED BY <1>1, <1>2 DEF Init, ReadyInv, Targeted, Covered, ReadyKnown, NotFresh

\* Only a worker that returns leaves a fresh result.
LEMMA FreshByFinish ==
    ASSUME [Next]_vars, ~fresh, fresh'
    PROVE  Finish
<1>1. CASE Environment \/ UpdateState \/ FreshExpires \/ UNCHANGED vars
  BY <1>1 DEF Environment, Submit, Mine, Drop, UpdateState, FreshExpires, vars, fields
<1>2. CASE \E i \in Indexes : FetchBatch(i)
  BY <1>2 DEF FetchBatch, fields
<1>3. CASE Enter \/ Info \/ ColdLoad \/ ColdFail \/ ColdVerify \/ ColdMark \/ ColdCleanHistory \/ JoinCold
  BY <1>3 DEF Enter, Info, Throw, ColdLoad, ColdFail, ColdVerify, ColdMark,
      ColdCleanHistory, JoinCold, fields
<1>4. CASE HotFail \/ StoreHot \/ StoreHotFail \/ Check \/ PoolState \/ Compare \/ Mark
  BY <1>4 DEF HotFail, StoreHot, StoreHotFail, Check, PoolState, Compare, Mark, Throw,
      fields
<1>5. CASE HealRollback \/ HealWipe \/ HealGiveUp \/ RollHistory \/ CleanHistory
  BY <1>5 DEF HealRollback, HealWipe, HealGiveUp, RollHistory, CleanHistory, Throw, fields
<1>6. CASE \/ \E i \in Indexes : OrphanBatch(i)
           \/ UserReset \/ UserResetHistory \/ WritesFinish \/ Restart
  BY <1>6 DEF OrphanBatch, UserReset, UserResetHistory, WritesFinish, Restart, fields
<1> QED BY <1>1, <1>2, <1>3, <1>4, <1>5, <1>6 DEF Next, SyncStep

\* A sync that worked from the sequencer's answers alone reports "ready" only
\* when none of the own transactions has been pending since it started: the
\* batches cover the optimistic index, and each shows the pending ones in it
\* (hasOwnOptimisticTxs of updateStateOptimisticWorker).
THEOREM ReadySoundHolds == Spec => ReadySound
<1>1. ReadyInv /\ [Next]_vars =>
         [(pc \in {"check", "mark"} /\ fresh' /\ lastResult') => (degraded \/ watch = {})]_vars
  <2> SUFFICES ASSUME ReadyInv, [Next]_vars, pc \in {"check", "mark"}, fresh', lastResult'
               PROVE  degraded \/ watch = {}
    OBVIOUS
  <2>1. Finish
    BY FreshByFinish DEF ReadyInv, NotFresh
  <2>2. ready
    BY <2>1 DEF Finish
  <2> QED BY <2>2 DEF ReadyInv, ReadyKnown
<1> QED BY <1>1, InitOK, NextOK, ReadyInit, ReadyNext, PTL DEF Spec, ReadySound

-----------------------------------------------------------------------------
(* What the history holds.                                                 *)

LEMMA SaveGrows == \A new : SaveMemos(new) => memos \subseteq memos' /\ new \subseteq memos'
BY DEF SaveMemos

\* Cutting the tree leaves no slot right that was not right before.
LEMMA CutKnown ==
    ASSUME TypeOK, RightKnown, NEW i \in Indexes, CutTree(i), UNCHANGED <<own, memos>>
    PROVE  RightKnown' /\ next' <= i
<1>1. next' \in Indexes /\ next' <= next /\ next' <= i
  BY CutLow
<1>2. ASSUME NEW k \in own, k < next', k \notin bad'
      PROVE  k \in memos
  <2>1. k < i /\ k < next /\ k \in Int
    BY <1>1, <1>2 DEF TypeOK, Indexes, Slots
  <2>2. k \notin bad
    BY <1>2, <2>1 DEF CutTree
  <2> QED BY <2>1, <2>2 DEF RightKnown
<1> QED BY <1>1, <1>2 DEF RightKnown

\* Cutting the history above the end of the tree leaves it what it needs.
LEMMA CutHistoryKnown ==
    ASSUME TypeOK, RightKnown, NEW i \in Indexes, CutHistory(i), next <= i,
           UNCHANGED <<own, next, bad>>
    PROVE  RightKnown'
<1>1. \A k \in own : k < next => k < i
  BY DEF TypeOK, Indexes, Slots
<1> QED BY <1>1 DEF CutHistory, RightKnown

LEMMA EndHistory ==
    ASSUME HistoryInv, End, UNCHANGED <<own, next, bad, memos>>, birth' <= BirthIndex,
           user' \in {user, -1}
    PROVE  HistoryParts'
BY DEF End, HistoryInv, HistoryParts, BornLater, RightKnown, HotKnown, HotAfterCold,
    CutFollows

\* The steps outside the fetching phase that leave tree and history alone.
LEMMA SameHistory ==
    ASSUME HistoryInv, UNCHANGED <<own, next, bad, birth, sib, start, hot, user>>,
           memos \subseteq memos',
           \/ UNCHANGED <<pc, cold, coldNext, idx>>
           \/ /\ pc' \in {"enter", "info", "check", "verify", "compare", "mark", "heal"}
              /\ user # -1 => pc' = "idle"
    PROVE  HistoryParts'
BY DEF HistoryInv, HistoryParts, BornLater, RightKnown, HotKnown, HotAfterCold, CutFollows

LEMMA EnvironmentHistory ==
    ASSUME TypeOK, HistoryInv, Submit \/ Mine \/ Drop
    PROVE  HistoryParts'
<1>1. UNCHANGED <<next, bad, memos, birth, pc, locals, user>>
  BY DEF Submit, Mine, Drop, tree, hist, fields
<1>2. \A k \in own' : k \in own \/ (k = opt /\ BirthIndex <= k)
  <2>1. CASE Submit
    BY <2>1 DEF Submit, TypeOK, Indexes
  <2>2. CASE Mine \/ Drop
    BY <2>2 DEF Mine, Drop
  <2> QED BY <2>1, <2>2
<1>3. next <= opt /\ \A k \in hot.ok : k < opt /\ k \in Int
  BY DEF HistoryInv, Counts, TypeOK, HotState, Indexes, Slots
<1>4. opt \in Int /\ next \in Int
  BY DEF TypeOK, Indexes
<1>5. BornLater'
  BY <1>1, <1>2 DEF HistoryInv, HistoryParts, BornLater, locals, planned
<1>6. RightKnown'
  BY <1>1, <1>2, <1>3, <1>4 DEF HistoryInv, HistoryParts, RightKnown
<1>7. HotKnown'
  BY <1>1, <1>2, <1>3, <1>4 DEF HistoryInv, HistoryParts, HotKnown, locals, planned
<1> QED BY <1>1, <1>5, <1>6, <1>7 DEF HistoryInv, HistoryParts, HotAfterCold,
        CutFollows, locals, planned

LEMMA EnterHistory ==
    ASSUME TypeOK, HistoryInv, Enter
    PROVE  HistoryParts'
<1>1. UNCHANGED <<own, next, bad, memos, birth, user>> /\ pc = "enter"
  BY DEF Enter, env, tree, hist, fields
<1>2. birth <= BirthIndex /\ user = -1
  BY <1>1 DEF HistoryInv, HistoryParts, BornLater, CutFollows
<1>3. CASE End
  BY <1>1, <1>2, <1>3, EndHistory
<1>4. CASE ~End
  BY <1>1, <1>2, <1>4 DEF Enter, HistoryInv, HistoryParts, BornLater, RightKnown,
      HotKnown, HotAfterCold, CutFollows
<1> QED BY <1>3, <1>4

LEMMA InfoHistory ==
    ASSUME TypeOK, HistoryInv, Info
    PROVE  HistoryParts'
<1>1. UNCHANGED <<own, next, bad, memos, birth, user>> /\ pc = "info"
  BY DEF Info, tree
<1>2. birth <= BirthIndex /\ user = -1 /\ RightKnown
  BY <1>1 DEF HistoryInv, HistoryParts, BornLater, CutFollows
<1>3. RightKnown' /\ user' = -1 /\ birth' <= BirthIndex /\ \A k \in own' : BirthIndex <= k
  BY <1>1, <1>2 DEF RightKnown, HistoryInv, HistoryParts, BornLater
<1>4. CASE Throw
  BY <1>1, <1>2, <1>4, EndHistory DEF Throw
<1>5. CASE ~Throw
  <2>1. PICK delta, to \in Indexes, partial \in BOOLEAN :
           Plan(delta, to, partial) /\ delta <= pool /\ (partial => PartialPossible(delta))
    BY <1>5, InfoPlans
  <2>2. CASE pc' = "check"
    BY <1>3, <2>2 DEF HistoryParts, BornLater, HotKnown, HotAfterCold, CutFollows
  <2>3. CASE /\ pc' = "sync" /\ start' \in Indexes
             /\ hot' = NewHot(IndexAfterCold(start'), to) /\ sib' = partial
             /\ cold' = (IF ColdAvailable(start') THEN "load" ELSE "done")
             /\ start' = (IF partial THEN PartialStart(delta) ELSE start)
    <3>1. partial => start' <= BirthIndex
      <4>1. PartialStart(delta) <= birth /\ PartialStart(delta) \in Int
        BY DEF PartialStart, TypeOK, Indexes
      <4> QED BY <1>2, <2>3, <4>1 DEF TypeOK
    <3>2. BornLater'
      BY <1>3, <2>3, <3>1 DEF BornLater
    <3>3. hot'.ok = {} /\ hot'.from = IndexAfterCold(start')
      BY <2>3, NewHotEmpty
    <3>4. HotKnown'
      BY <3>3 DEF HotKnown
    <3>5. ColdAvailable(start') => start' < ColdNext
      BY DEF ColdAvailable
    <3>6. cold' # "done" => ColdAvailable(start')
      BY <2>3
    <3>7. start' >= 0 /\ start' \in Int
      BY <2>3 DEF Indexes
    <3>8. HotAfterCold'
      BY <3>3, <3>5, <3>6, <3>7 DEF HotAfterCold, IndexAfterCold
    <3>9. CutFollows'
      BY <1>3, <2>3 DEF CutFollows
    <3> QED BY <1>3, <3>2, <3>4, <3>8, <3>9 DEF HistoryParts
  <2> QED BY <1>1, <2>1, <2>2, <2>3, PlanLow DEF HistoryInv
<1> QED BY <1>4, <1>5

LEMMA FetchHistory ==
    ASSUME TypeOK, HistoryInv, NEW i \in Indexes, FetchBatch(i)
    PROVE  HistoryParts'
<1>1. UNCHANGED <<own, next, bad, birth, pc, start, sib, cold, coldNext, idx, user>>
  BY DEF FetchBatch, tree, fields
<1>2. CASE hot' = [hot EXCEPT !.todo = @ \ {i}, !.failed = TRUE] /\ memos' = memos
  <2>1. hot'.ok = hot.ok /\ hot'.from = hot.from
    BY <1>2 DEF TypeOK, HotState
  <2> QED BY <1>1, <1>2, <2>1 DEF HistoryInv, HistoryParts, BornLater, RightKnown, HotKnown,
          HotAfterCold, CutFollows
<1>3. CASE ~(hot' = [hot EXCEPT !.todo = @ \ {i}, !.failed = TRUE] /\ memos' = memos)
  <2>1. PICK mined, known \in Indexes : \E wrong :
             mined <= pool /\ ParseBatch(i, mined, known, wrong)
    BY <1>3, FetchAnswers DEF HistoryInv
  <2>2. PICK wrong : mined <= pool /\ ParseBatch(i, mined, known, wrong)
    BY <2>1
  <2> DEFINE minedTo == Lesser(i + BatchSize, mined)
  <2>3. /\ hot'.from = hot.from
        /\ hot'.ok = hot.ok \cup ((i .. (minedTo - 1)) \ wrong)
    BY <2>2, ParseLow DEF HistoryInv
  <2>4. memos \subseteq memos' /\ (OwnIn(i, minedTo) \ wrong) \subseteq memos'
    BY <2>2, SaveGrows DEF ParseBatch
  <2>5. minedTo \in Int /\ i \in Int
    BY DEF Lesser, Indexes
  <2> HIDE DEF minedTo
  <2>6. \A k \in (i .. (minedTo - 1)) \ wrong : k \in own => k \in memos'
    BY <2>4, <2>5 DEF OwnIn
  <2>7. RightKnown'
    BY <1>1, <2>4 DEF HistoryInv, HistoryParts, RightKnown
  <2>8. HotKnown'
    BY <1>1, <2>3, <2>4, <2>6 DEF HistoryInv, HistoryParts, HotKnown
  <2> QED BY <1>1, <2>3, <2>7, <2>8 DEF HistoryInv, HistoryParts, BornLater,
          HotAfterCold, CutFollows
<1> QED BY <1>2, <1>3

\* The memos of the bulks' right slots are saved with them.
LEMMA ColdLoadHistory ==
    ASSUME TypeOK, HistoryInv, ColdLoad
    PROVE  HistoryParts'
<1>1. UNCHANGED <<own, birth, pc, start, sib, hot, idx, user>> /\ pc = "sync"
      /\ cold = "load" /\ cold' = "verify"
  BY DEF ColdLoad, fields
<1>2. PICK wrong :
         /\ next' = Greater(next, ColdNext)
         /\ bad' = bad \cup wrong \cup (next .. (Greater(start, ColdFrom) - 1))
         /\ SaveMemos(ColdMemos \ wrong)
  BY DEF ColdLoad
<1>3. memos \subseteq memos' /\ (ColdMemos \ wrong) \subseteq memos'
  BY <1>2, SaveGrows
<1>4. ASSUME NEW k \in own, k < next', k \notin bad'
      PROVE  k \in memos'
  <2>1. k \in Int /\ next \in Int /\ Greater(start, ColdFrom) \in Int
    BY DEF TypeOK, Slots, Indexes, Greater
  <2>2. CASE k < next
    BY <1>2, <1>3, <1>4, <2>2 DEF HistoryInv, HistoryParts, RightKnown
  <2>3. CASE ~(k < next)
    <3>1. k < ColdNext
      BY <1>2, <1>4, <2>1, <2>3 DEF Greater
    <3>2. k >= Greater(start, ColdFrom)
      BY <1>2, <1>4, <2>1, <2>3
    <3>3. k \in ColdMemos \ wrong
      BY <1>2, <1>4, <3>1, <3>2 DEF ColdMemos, OwnIn
    <3> QED BY <1>3, <3>3
  <2> QED BY <2>2, <2>3
<1>5. RightKnown'
  BY <1>1, <1>4 DEF RightKnown
<1> QED BY <1>1, <1>3, <1>5 DEF HistoryInv, HistoryParts, BornLater, HotKnown,
        HotAfterCold, CutFollows

LEMMA ColdFailHistory ==
    ASSUME HistoryInv, ColdFail
    PROVE  HistoryParts'
BY DEF ColdFail, HistoryInv, HistoryParts, BornLater, RightKnown, HotKnown, HotAfterCold,
       CutFollows, tree, hist, fields

LEMMA ColdVerifyHistory ==
    ASSUME TypeOK, HistoryInv, ColdVerify
    PROVE  HistoryParts'
<1>1. UNCHANGED <<own, memos, birth, pc, start, sib, coldNext, hot, user>> /\ pc = "sync"
      /\ cold = "verify"
  BY DEF ColdVerify, hist, fields
<1>2. 0 \in Indexes
  BY DEF Indexes
<1>3. CASE cold' \in {"mark", "done"} /\ UNCHANGED tree
  BY <1>1, <1>3 DEF HistoryInv, HistoryParts, BornLater, RightKnown, HotKnown,
      HotAfterCold, CutFollows, tree
<1>4. CASE cold' = "cleanhist" /\ CutTree(0)
  <2>1. RightKnown' /\ next' <= 0 /\ next' \in Indexes
    BY <1>1, <1>2, <1>4, CutKnown, CutLow DEF HistoryInv, HistoryParts
  <2>2. next' = 0
    BY <2>1 DEF Indexes
  <2> QED BY <1>1, <1>4, <2>1, <2>2 DEF HistoryInv, HistoryParts, BornLater, HotKnown,
          HotAfterCold, CutFollows
<1> QED BY <1>3, <1>4 DEF ColdVerify

LEMMA ColdMarkHistory ==
    ASSUME HistoryInv, ColdMark
    PROVE  HistoryParts'
BY DEF ColdMark, HistoryInv, HistoryParts, BornLater, RightKnown, HotKnown, HotAfterCold,
       CutFollows, env, hist, fields

\* Wiping the history costs the running hot sync its memos, but it is abandoned.
LEMMA ColdCleanHistoryKnown ==
    ASSUME TypeOK, HistoryInv, ColdCleanHistory
    PROVE  HistoryParts'
<1>1. UNCHANGED <<own, next, bad, birth, pc, start, sib, hot, idx, user>> /\ pc = "sync"
      /\ cold = "cleanhist" /\ cold' = "done"
  BY DEF ColdCleanHistory, tree
<1>2. 0 \in Indexes
  BY DEF Indexes
<1>3. next = 0 /\ hot.from > 0
  BY <1>1 DEF HistoryInv, HistoryParts, CutFollows, HotAfterCold
<1>4. CASE CutHistory(0) /\ coldNext' = 0
  <2>1. RightKnown'
    BY <1>1, <1>2, <1>3, <1>4, CutHistoryKnown DEF HistoryInv, HistoryParts
  <2>2. HotKnown'
    BY <1>1, <1>3, <1>4 DEF HotKnown
  <2> QED BY <1>1, <2>1, <2>2 DEF HistoryInv, HistoryParts, BornLater, HotAfterCold,
          CutFollows
<1>5. CASE UNCHANGED <<memos, coldNext>>
  BY <1>1, <1>5 DEF HistoryInv, HistoryParts, BornLater, RightKnown, HotKnown,
      HotAfterCold, CutFollows
<1> QED BY <1>4, <1>5 DEF ColdCleanHistory, hist

LEMMA JoinColdHistory ==
    ASSUME HistoryInv, JoinCold
    PROVE  HistoryParts'
<1>1. UNCHANGED <<own, next, bad, memos, birth, start, sib, user>> /\ pc = "sync" /\ pc' = "hot"
      /\ cold = "done"
  BY DEF JoinCold, env, tree, hist, fields
<1>2. \A k \in hot'.ok : k \in own => k \in memos
  <2>1. CASE coldNext = hot.from /\ hot' = hot
    BY <1>1, <2>1 DEF HistoryInv, HistoryParts, HotKnown
  <2>2. CASE hot' = NewHot(coldNext, target)
    BY <2>2, NewHotEmpty
  <2> QED BY <2>1, <2>2 DEF JoinCold
<1> QED BY <1>1, <1>2 DEF HistoryInv, HistoryParts, BornLater, RightKnown, HotKnown,
        HotAfterCold, CutFollows

\* The slots a hot sync makes right are those it has brought, with their memos,
\* and those below the account's birthday.
LEMMA StoreHotHistory ==
    ASSUME TypeOK, HistoryInv, StoreHot
    PROVE  HistoryParts'
<1>1. UNCHANGED <<own, memos, birth, user>> /\ pc = "hot" /\ pc' = "check"
  BY DEF StoreHot, fields
<1>2. PICK siblingsRight \in BOOLEAN :
         /\ next' = Greater(next, hot.top)
         /\ bad' = (bad \cup ((next .. (hot.top - 1)) \ hot.ok))
                     \ (IF sib /\ siblingsRight THEN 0 .. (start - 1) ELSE {})
  BY DEF StoreHot
<1>3. ASSUME NEW k \in own, k < next', k \notin bad'
      PROVE  k \in memos
  <2>1. k \in Int /\ next \in Int /\ hot.top \in Int /\ start \in Int
    BY DEF TypeOK, HotState, Slots, Indexes
  <2>2. sib => k \notin 0 .. (start - 1)
    BY <1>1, <2>1 DEF HistoryInv, HistoryParts, BornLater
  <2>3. k \notin bad \cup ((next .. (hot.top - 1)) \ hot.ok)
    BY <1>2, <1>3, <2>2
  <2>4. CASE k < next
    BY <2>3, <2>4 DEF HistoryInv, HistoryParts, RightKnown
  <2>5. CASE ~(k < next)
    <3>1. k \in next .. (hot.top - 1)
      BY <1>2, <1>3, <2>1, <2>5 DEF Greater
    <3> QED BY <1>1, <2>3, <3>1 DEF HistoryInv, HistoryParts, HotKnown
  <2> QED BY <2>4, <2>5
<1>4. RightKnown'
  BY <1>1, <1>3 DEF RightKnown
<1> QED BY <1>1, <1>4 DEF HistoryInv, HistoryParts, BornLater, HotKnown, HotAfterCold,
        CutFollows

LEMMA EndingHistory ==
    ASSUME TypeOK, HistoryInv, HotFail \/ StoreHotFail \/ HealGiveUp
    PROVE  HistoryParts'
<1>1. End /\ UNCHANGED <<own, next, bad, memos, user>> /\ birth' \in {birth, 0}
  BY DEF HotFail, StoreHotFail, HealGiveUp, Throw, env, tree, hist
<1>2. birth' <= BirthIndex
  BY <1>1 DEF HistoryInv, HistoryParts, BornLater
<1> QED BY <1>1, <1>2, EndHistory

LEMMA CheckHistory ==
    ASSUME TypeOK, HistoryInv, Check \/ PoolState \/ Compare \/ Mark
    PROVE  HistoryParts'
<1>1. UNCHANGED <<own, next, bad, memos, birth, user>>
  BY DEF Check, PoolState, Compare, Mark, env, tree, hist
<1>2. birth' <= BirthIndex /\ user = -1
  BY <1>1 DEF Check, PoolState, Compare, Mark, HistoryInv, HistoryParts, BornLater,
      CutFollows
<1>3. CASE End
  BY <1>1, <1>2, <1>3, EndHistory
<1>4. CASE ~End
  <2>1. UNCHANGED <<sib, start, hot>> /\ pc' \in {"verify", "compare", "mark", "heal"}
    BY <1>4 DEF Check, PoolState, Compare, Mark, Finish, Throw, locals, planned
  <2> QED BY <1>1, <1>2, <2>1, SameHistory
<1> QED BY <1>3, <1>4

LEMMA HealHistory ==
    ASSUME TypeOK, HistoryInv, HealRollback \/ HealWipe
    PROVE  HistoryParts'
<1>1. UNCHANGED <<own, memos, birth, user, planned>> /\ pc = "heal"
  BY DEF HealRollback, HealWipe, env, hist, fields, locals
<1>2. user = -1
  BY <1>1 DEF HistoryInv, HistoryParts, CutFollows
<1>3. CASE HealRollback
  <2>1. PICK real \in 0 .. stableSeen : CutTree(real) /\ idx' = real
    BY <1>3 DEF HealRollback
  <2>2. real \in Indexes
    BY DEF TypeOK, Indexes
  <2>3. RightKnown' /\ next' <= idx'
    BY <1>1, <2>1, <2>2, CutKnown DEF HistoryInv, HistoryParts
  <2>4. pc' = "rollhist"
    BY <1>3 DEF HealRollback
  <2> QED BY <1>1, <1>2, <2>3, <2>4 DEF HistoryInv, HistoryParts, BornLater, HotKnown,
          HotAfterCold, CutFollows
<1>4. CASE HealWipe
  <2>1. CutTree(0) /\ pc' = "cleanhist" /\ 0 \in Indexes
    BY <1>4 DEF HealWipe, Indexes
  <2>2. RightKnown' /\ next' <= 0 /\ next' \in Indexes
    BY <1>1, <2>1, CutKnown, CutLow DEF HistoryInv, HistoryParts
  <2>3. next' = 0
    BY <2>2 DEF Indexes
  <2> QED BY <1>1, <1>2, <2>1, <2>2, <2>3 DEF HistoryInv, HistoryParts, BornLater,
          HotKnown, HotAfterCold, CutFollows
<1> QED BY <1>3, <1>4

LEMMA RepairHistory ==
    ASSUME TypeOK, HistoryInv, RollHistory \/ CleanHistory
    PROVE  HistoryParts'
<1>1. UNCHANGED <<own, next, bad, user>> /\ birth' \in {birth, 0} /\ pc \in {"rollhist", "cleanhist"}
  BY DEF RollHistory, CleanHistory, tree
<1>2. birth' <= BirthIndex /\ user = -1
  BY <1>1 DEF HistoryInv, HistoryParts, BornLater, CutFollows
<1>3. CASE End
  <2>1. memos' = memos
    BY <1>3 DEF RollHistory, CleanHistory, End, hist
  <2> QED BY <1>1, <1>2, <1>3, <2>1, EndHistory
<1>4. CASE ~End
  <2>1. \E i \in Indexes : CutHistory(i) /\ next <= i
    <3>1. CASE RollHistory
      BY <1>4, <3>1 DEF RollHistory, Throw, HistoryInv, HistoryParts, CutFollows, TypeOK
    <3>2. CASE CleanHistory
      BY <1>4, <3>2 DEF CleanHistory, Throw, HistoryInv, HistoryParts, CutFollows,
          TypeOK, Indexes
    <3> QED BY <3>1, <3>2
  <2>2. RightKnown'
    BY <1>1, <2>1, CutHistoryKnown DEF HistoryInv, HistoryParts
  <2>3. pc' = "enter"
    BY <1>4 DEF RollHistory, CleanHistory, Throw
  <2> QED BY <1>1, <1>2, <2>2, <2>3 DEF HistoryInv, HistoryParts, BornLater, HotKnown,
          HotAfterCold, CutFollows
<1> QED BY <1>3, <1>4

LEMMA UserResetKnown ==
    ASSUME TypeOK, HistoryInv, ResetWhen # "any", UserReset \/ UserResetHistory
    PROVE  HistoryParts'
<1>1. UNCHANGED <<own, birth, pc, locals>>
  BY DEF UserReset, UserResetHistory, env, fields
<1>2. CASE UserReset
  <2>1. PICK real \in Indexes : CutTree(real) /\ user' = real
    BY <1>2 DEF UserReset
  <2>2. pc = "idle" /\ memos' = memos
    BY <1>2 DEF UserReset, hist
  <2>3. RightKnown' /\ next' <= user'
    BY <1>1, <2>1, <2>2, CutKnown DEF HistoryInv, HistoryParts
  <2> QED BY <1>1, <2>2, <2>3 DEF HistoryInv, HistoryParts, BornLater, HotKnown,
          HotAfterCold, CutFollows
<1>3. CASE UserResetHistory
  <2>1. CutHistory(user) /\ user \in Indexes /\ next <= user /\ pc = "idle" /\ user' = -1
    BY <1>3 DEF UserResetHistory, HistoryInv, HistoryParts, CutFollows, TypeOK
  <2>2. RightKnown'
    BY <1>1, <1>3, <2>1, CutHistoryKnown DEF UserResetHistory, tree, HistoryInv,
        HistoryParts
  <2> QED BY <1>1, <2>1, <2>2 DEF HistoryInv, HistoryParts, BornLater, HotKnown,
          HotAfterCold, CutFollows
<1> QED BY <1>2, <1>3

LEMMA RestartHistory ==
    ASSUME TypeOK, HistoryInv, RestartWhen # "any", Restart
    PROVE  HistoryParts'
<1>1. End /\ UNCHANGED <<own, next, bad>> /\ memos' = memos /\ birth' = BirthIndex /\ user' = -1
  BY DEF Restart, env, tree
<1> QED BY <1>1, EndHistory

LEMMA OtherHistory ==
    ASSUME HistoryInv, ResetWhen # "any",
           \/ UpdateState \/ FreshExpires \/ WritesFinish
           \/ (\E i \in Indexes : OrphanBatch(i)) \/ UNCHANGED vars
    PROVE  HistoryParts'
<1>1. UNCHANGED <<own, next, bad, birth, sib, start, hot, user, cold, coldNext, idx>>
  BY DEF UpdateState, FreshExpires, WritesFinish, OrphanBatch, vars, env, tree, fields,
     locals, planned
<1>2. memos \subseteq memos'
  BY SaveGrows DEF UpdateState, FreshExpires, WritesFinish, OrphanBatch, vars, hist
<1>3. pc' = pc \/ (pc' = "enter" /\ user = -1)
  BY DEF UpdateState, FreshExpires, WritesFinish, OrphanBatch, vars
<1> QED BY <1>1, <1>2, <1>3, SameHistory

LEMMA HistoryNext ==
    ASSUME RestartWhen # "any", ResetWhen # "any"
    PROVE  SyncInv /\ ReadyInv /\ HistoryParts /\ [Next]_vars => HistoryParts'
<1> SUFFICES ASSUME SyncInv, ReadyInv, HistoryParts, [Next]_vars PROVE HistoryParts'
  OBVIOUS
<1>1. HistoryInv /\ TypeOK
  BY DEF SyncInv, ReadyInv, HistoryInv
<1>2. CASE Environment \/ UpdateState \/ FreshExpires \/ UNCHANGED vars
  BY <1>1, <1>2, EnvironmentHistory, OtherHistory DEF Environment
<1>3. CASE \E i \in Indexes : FetchBatch(i)
  BY <1>1, <1>3, FetchHistory
<1>4. CASE Enter \/ Info \/ ColdLoad \/ ColdFail \/ ColdVerify \/ ColdMark \/ ColdCleanHistory \/ JoinCold
  BY <1>1, <1>4, EnterHistory, InfoHistory, ColdLoadHistory, ColdFailHistory,
     ColdVerifyHistory, ColdMarkHistory, ColdCleanHistoryKnown, JoinColdHistory
<1>5. CASE HotFail \/ StoreHot \/ StoreHotFail \/ Check \/ PoolState \/ Compare \/ Mark
  BY <1>1, <1>5, EndingHistory, StoreHotHistory, CheckHistory
<1>6. CASE HealRollback \/ HealWipe \/ HealGiveUp \/ RollHistory \/ CleanHistory
  BY <1>1, <1>6, HealHistory, EndingHistory, RepairHistory
<1>7. CASE \/ \E i \in Indexes : OrphanBatch(i)
           \/ UserReset \/ UserResetHistory \/ WritesFinish \/ Restart
  BY <1>1, <1>7, OtherHistory, UserResetKnown, RestartHistory
<1> QED BY <1>2, <1>3, <1>4, <1>5, <1>6, <1>7 DEF Next, SyncStep

LEMMA HistoryInit == Init => HistoryParts
<1> SUFFICES ASSUME Init PROVE HistoryParts
  OBVIOUS
<1>1. BornLater
  BY DEF Init, BornLater
<1>2. RightKnown
  BY DEF Init, RightKnown, Indexes
<1> QED BY <1>1, <1>2 DEF Init, HistoryParts, HotKnown, HotAfterCold, CutFollows

\* The history holds the memo of every own transaction in the verified part of
\* the tree, if the process dies only after the memos are written and its user
\* resets the state only between two syncs (the database writes that nobody
\* waits for, and rollbackState and cleanState of the client).
THEOREM HistoryCompleteHolds ==
    ASSUME RestartWhen # "any", ResetWhen # "any"
    PROVE  Spec => []HistoryComplete
<1>1. SyncInv /\ HistoryParts => HistoryComplete
  <2> SUFFICES ASSUME SyncInv, HistoryParts, NEW k \in own, k < stable PROVE k \in memos
    BY DEF HistoryComplete
  <2>1. k \in Int /\ stable \in Int /\ next \in Int /\ stable <= next
    BY DEF SyncInv, TypeOK, Rightly, VerifiedPrefix, Slots, Indexes
  <2>2. k < next /\ k \notin bad
    BY <2>1 DEF SyncInv, Rightly, VerifiedPrefix
  <2> QED BY <2>2 DEF HistoryParts, RightKnown
<1> QED BY <1>1, InitOK, NextOK, ReadyInit, ReadyNext, HistoryInit, HistoryNext, PTL DEF
        Spec
=============================================================================
