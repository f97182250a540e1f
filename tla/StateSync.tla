------------------------------ MODULE StateSync ------------------------------
(***************************************************************************)
(* The synchronisation of the local Merkle tree with the pool             *)
(* (src/src/state.ts, class ZkBobState): one call of updateState() reads   *)
(* the sequencer's counters, loads the cold-storage bulks and the hot      *)
(* batches concurrently, stores the mined transactions in the tree, checks *)
(* the tree's root against the pool contract and repairs a tree that does  *)
(* not match: first by rolling it back to the last verified index, then by *)
(* wiping it, a bounded number of times.                                   *)
(*                                                                         *)
(* A transaction occupies one slot 0, 1, 2, ... of the tree (OUTPLUSONE =  *)
(* 128 leaves in the code).  What a slot holds is abstracted to right or   *)
(* wrong: the root at index i is the contract's root at i exactly when     *)
(* every slot below i is right.  The history is represented by what this   *)
(* component tells it: which own transactions it holds a memo of.          *)
(***************************************************************************)
EXTENDS Integers

CONSTANTS
    MaxTx,             \* bound: transactions the pool ever accepts
    MaxPending,        \* bound: transactions waiting in the sequencer at once
    BatchSize,         \* BATCH_SIZE
    BirthIndex,        \* the account's birthIndex, 0 when it is undefined
    PartialThreshold,  \* PARTIAL_TREE_USAGE_THRESHOLD
    ColdFrom,          \* coldConfig.index_from
    ColdNext,          \* coldConfig.next_index, 0 when there is no cold storage
    ColdThreshold,     \* COLD_STORAGE_USAGE_THRESHOLD
    HasSubgraph,       \* is a subgraph configured for the pool?
    RollbackAttempts,  \* CORRUPT_STATE_ROLLBACK_ATTEMPTS
    WipeAttempts,      \* CORRUPT_STATE_WIPE_ATTEMPTS
    MaxFaults,         \* bound: failed, wrong or late answers of the services
    Endless,           \* may the services also stay faulty for ever?
    RestartWhen,       \* when may the process die: "never", "written" (once the
                       \* memo writes nobody waits for are finished), "any"
    ResetWhen          \* when may the user reset the state: "never", "idle"
                       \* (between two syncs), "any"

ASSUME SyncAssumption ==
    /\ MaxTx \in Nat /\ MaxPending \in Nat /\ MaxFaults \in Nat
    /\ BatchSize \in Nat \ {0} /\ PartialThreshold \in Nat \ {0}
    /\ BirthIndex \in Nat /\ ColdFrom \in Nat /\ ColdThreshold \in Nat
    /\ ColdNext \in 0 .. MaxTx
    /\ RollbackAttempts \in Nat /\ WipeAttempts \in Nat
    /\ HasSubgraph \in BOOLEAN /\ Endless \in BOOLEAN
    /\ RestartWhen \in {"never", "written", "any"}
    /\ ResetWhen \in {"never", "idle", "any"}

VARIABLES
    \* the services
    pool,       \* transactions in the pool contract
    opt,        \* transactions the sequencer knows: pool .. opt-1 are pending
    own,        \* the transactions among 0 .. opt-1 this account initiated
    faults,     \* faulty answers so far, -1 when the services never recover
    \* the tree, kept by the worker in its database
    next,       \* nextTreeIndex
    bad,        \* slots below next that are wrong or were never filled
    stable,     \* getTreeLastStableIndex, the last verified index
    \* the history, as far as the sync feeds it
    memos,      \* own mined transactions with a decrypted memo
    unsaved,    \* those of them whose database write is not finished
    pmemos,     \* own pending transactions with a decrypted memo
    \* fields of ZkBobState
    birth,      \* birthIndex (0: undefined)
    skipCold,   \* skipColdStorage
    rollbacks,  \* rollbackAttempts
    wipes,      \* wipeAttempts
    fresh,      \* Date.now() < lastSyncTimestamp + MIN_RESYNC_INTERVAL
    lastResult, \* lastSyncResult
    \* locals of the running updateStateOptimisticWorker
    pc,
    start,      \* startIndex
    target,     \* optimisticIndex
    sib,        \* did the sequencer provide siblings for a partial tree?
    cold,       \* where the concurrent startColdSync is
    coldNext,   \* coldResult.nextIndex
    hot,        \* what the batches of the concurrent hot sync brought so far
    ready,      \* isReadyToTransact
    stableSeen, \* stableIndex
    idx,        \* checkIndex, then verified.index, then realRollbackIndex
    orphans,    \* batches of an abandoned hot sync that are still in flight
    \* the user's own reset: -1, or the index its history step still has to cut at
    user,
    \* observers
    watch,      \* own transactions pending since the worker started
    degraded    \* has this sync used an answer that did not come from the sequencer?

env  == <<pool, opt, own, faults>>
tree == <<next, bad, stable>>
hist == <<memos, unsaved, pmemos>>
fields == <<birth, skipCold, rollbacks, wipes, fresh, lastResult>>
planned == <<start, target, sib, cold, coldNext, hot>>
locals == <<planned, ready, stableSeen, idx>>
observers == <<watch, degraded>>
vars == <<env, tree, hist, fields, pc, locals, orphans, user, observers>>

Slots == 0 .. (MaxTx - 1)
Indexes == 0 .. MaxTx
Lesser(a, b) == IF a < b THEN a ELSE b
Greater(a, b) == IF a > b THEN a ELSE b

\* The batch requests of a hot sync of [from, to], before any is answered.
NewHot(from, to) ==
    [from |-> from,
     todo |-> {i \in Indexes : i >= from /\ i <= to /\ (i - from) % BatchSize = 0},
     ok   |-> {},        \* mined slots fetched and right
     top  |-> 0,         \* maxMinedIndex + 1
     pend |-> 0,         \* maxPendingIndex + 1
     own  |-> FALSE,     \* hasOwnOptimisticTxs
     failed |-> FALSE]

NoHot == [NewHot(0, 0) EXCEPT !.todo = {}]

HotState == [from : Indexes, todo : SUBSET Indexes, ok : SUBSET Slots,
             top : Indexes, pend : Indexes, own : BOOLEAN, failed : BOOLEAN]

TypeOK ==
    /\ pool \in Indexes /\ opt \in Indexes /\ own \subseteq Slots
    /\ faults \in -1 .. MaxFaults
    /\ next \in Indexes /\ bad \subseteq Slots /\ stable \in Indexes
    /\ memos \subseteq Slots /\ unsaved \subseteq Slots /\ pmemos \subseteq Slots
    /\ birth \in Nat /\ skipCold \in BOOLEAN
    /\ rollbacks \in 0 .. RollbackAttempts /\ wipes \in 0 .. WipeAttempts
    /\ fresh \in BOOLEAN /\ lastResult \in BOOLEAN
    /\ pc \in {"idle", "enter", "info", "sync", "hot", "check", "verify",
               "compare", "mark", "heal", "rollhist", "cleanhist"}
    /\ start \in Indexes /\ target \in Indexes /\ sib \in BOOLEAN
    /\ ready \in BOOLEAN /\ stableSeen \in Indexes /\ idx \in Indexes
    /\ cold \in {"load", "verify", "mark", "cleanhist", "done"}
    /\ coldNext \in Indexes /\ hot \in HotState /\ orphans \subseteq Indexes
    /\ user \in Indexes \cup {-1}
    /\ watch \subseteq Slots /\ degraded \in BOOLEAN

Init ==
    /\ pool \in ColdNext .. MaxTx /\ opt = pool
    /\ own \in SUBSET (BirthIndex .. (pool - 1))
    /\ faults \in IF Endless THEN {-1, 0} ELSE {0}
    /\ next = 0 /\ bad = {} /\ stable = 0
    /\ memos = {} /\ unsaved = {} /\ pmemos = {}
    /\ birth = BirthIndex /\ skipCold = FALSE /\ rollbacks = 0 /\ wipes = 0
    /\ fresh = FALSE /\ lastResult = TRUE
    /\ pc = "idle" /\ start = 0 /\ target = 0 /\ sib = FALSE
    /\ cold = "done" /\ coldNext = 0 /\ hot = NoHot
    /\ ready = TRUE /\ stableSeen = 0 /\ idx = 0
    /\ orphans = {} /\ user = -1 /\ watch = {} /\ degraded = FALSE

\* A faulty answer is drawn from the budget, if there is one.
Fault == faults < MaxFaults /\ faults' = IF faults < 0 THEN faults ELSE faults + 1
NoFault == UNCHANGED faults

\* The contract's index as the node that answers may see it.
SeenIndexes == {k \in {pool - 1, pool} : k >= 0}

-----------------------------------------------------------------------------
(* The pool and the sequencer, which the client only observes.            *)

\* A transaction enters the sequencer's optimistic state; it may be our own.
Submit ==
    /\ opt < MaxTx /\ opt - pool < MaxPending
    /\ opt' = opt + 1
    /\ \/ own' = own
       \/ opt >= BirthIndex /\ own' = own \cup {opt}
    /\ UNCHANGED <<pool, faults, tree, hist, fields, pc, locals, orphans, user, observers>>

\* The oldest pending transaction is mined.
Mine ==
    /\ pool < opt
    /\ pool' = pool + 1
    /\ watch' = watch \ {pool}
    /\ UNCHANGED <<opt, own, faults, tree, hist, fields, pc, locals, orphans, user, degraded>>

\* The newest pending transaction is rejected and forgotten.
Drop ==
    /\ opt > pool
    /\ opt' = opt - 1
    /\ own' = own \ {opt - 1}
    /\ watch' = watch \ {opt - 1}
    /\ UNCHANGED <<pool, faults, tree, hist, fields, pc, locals, orphans, user, degraded>>

-----------------------------------------------------------------------------
(* Starting and ending a sync.                                             *)

\* updateState(): a call made while a sync is running joins it (no step).
UpdateState ==
    /\ pc = "idle"
    /\ user = -1 \/ ResetWhen = "any"
    /\ pc' = "enter"
    /\ UNCHANGED <<env, tree, hist, fields, locals, orphans, user, observers>>

\* The local variables of the fetching phase, once it is over.
ForgetPlan ==
    /\ start' = 0 /\ target' = 0 /\ sib' = FALSE
    /\ cold' = "done" /\ coldNext' = 0 /\ hot' = NoHot

\* The worker ends, its local variables with it.
End ==
    /\ pc' = "idle"
    /\ ForgetPlan
    /\ ready' = TRUE /\ stableSeen' = 0 /\ idx' = 0
    /\ watch' = {} /\ degraded' = FALSE

\* The worker throws: the promise rejects, nothing is remembered of the sync.
Throw == End /\ UNCHANGED <<fresh, lastResult>>

\* The worker returns isReadyToTransact.
Finish == End /\ fresh' = TRUE /\ lastResult' = ready

\* The worker's first lines: a sync that ended within the last second is not
\* repeated, lastSyncResult is returned.
Enter ==
    /\ pc = "enter"
    /\ \/ fresh /\ End
       \/ /\ ~fresh
          /\ pc' = "info"
          /\ start' = next
          /\ ready' = TRUE
          /\ watch' = {k \in own : k >= pool}
          /\ degraded' = FALSE
          /\ UNCHANGED <<target, sib, cold, coldNext, hot, stableSeen, idx>>
    /\ UNCHANGED <<env, tree, hist, fields, orphans, user>>

\* MIN_RESYNC_INTERVAL passes.
FreshExpires ==
    /\ fresh
    /\ fresh' = FALSE
    /\ UNCHANGED <<env, tree, hist, birth, skipCold, rollbacks, wipes, lastResult,
                   pc, locals, orphans, user, observers>>

-----------------------------------------------------------------------------
(* Planning the sync.                                                      *)

\* isColdSyncAvailable
ColdAvailable(from) ==
    /\ ~skipCold
    /\ ColdFrom < ColdNext /\ from < ColdNext
    /\ ColdNext - Greater(from, ColdFrom) >= ColdThreshold

\* nextIndexAfterColdSync
IndexAfterCold(from) == IF ColdAvailable(from) THEN ColdNext ELSE from

\* The cold sync and the hot sync are started together: the hot one from the
\* index the cold one is expected to reach.
Launch(from, to) ==
    /\ start' = from
    /\ cold' = IF ColdAvailable(from) THEN "load" ELSE "done"
    /\ coldNext' = from
    /\ hot' = NewHot(IndexAfterCold(from), to)
    /\ pc' = "sync"

\* The birthday index a partial tree may start from, given the sequencer's
\* deltaIndex: at least one transaction is left to the regular sync.
PartialAfterBirth(delta) == IF birth >= delta THEN delta ELSE birth + 1
PartialStart(delta) == IF birth >= delta THEN delta - 1 ELSE birth

PartialPossible(delta) == start = 0 /\ PartialStart(delta) >= PartialThreshold

\* With the counters known (deltaIndex and the optimistic index): nothing new,
\* a partial tree, or a sync from start.
Plan(delta, to, partial) ==
    IF to > start
    THEN /\ target' = to /\ sib' = partial
         /\ Launch(IF partial THEN PartialStart(delta) ELSE start, to)
         /\ UNCHANGED pmemos
    ELSE /\ pc' = "check"
         /\ ForgetPlan
         /\ pmemos' = {}       \* setLastPendingTxIndex(-1)

\* sequencer.info() and siblings(), which may fail: the sync then starts from
\* the empty tree.  When info() fails the pool contract is asked, from a node
\* that may lag; when that fails too the sync throws.
Info ==
    /\ pc = "info"
    /\ \/ /\ NoFault
          /\ Plan(pool, opt, PartialPossible(pool))
          /\ UNCHANGED <<fresh, lastResult, ready, stableSeen, idx, observers>>
       \/ /\ PartialPossible(pool) /\ Fault
          /\ Plan(pool, opt, FALSE)
          /\ UNCHANGED <<fresh, lastResult, ready, stableSeen, idx, observers>>
       \/ \E seen \in SeenIndexes, siblingsOk \in BOOLEAN :
            /\ Fault
            /\ degraded' = TRUE
            /\ Plan(seen, seen, siblingsOk /\ PartialPossible(seen))
            /\ UNCHANGED <<fresh, lastResult, ready, stableSeen, idx, watch>>
       \/ Fault /\ Throw /\ UNCHANGED pmemos
    /\ UNCHANGED <<pool, opt, own, tree, memos, unsaved, birth, skipCold, rollbacks,
                   wipes, orphans, user>>

-----------------------------------------------------------------------------
(* The hot sync: every batch is requested at once, answers come in any     *)
(* order and each sees the sequencer at its own moment.                    *)

\* A memo is put in the memory cache at once; its database write is not awaited
\* (and only tracked when the process may die).
SaveMemos(new) ==
    /\ memos' = memos \cup new
    /\ unsaved' = IF RestartWhen = "never" THEN {} ELSE unsaved \cup (new \ memos)

Batch(i) == i .. (i + BatchSize - 1)

OwnIn(lo, hi) == {k \in own : k >= lo /\ k < hi}

\* hasOwnOptimisticTxs over all batches.
LastBatchDecides(before, now) == now
MergeOwn(before, now) == before \/ now

\* parseBatch of an answer that ends before slot known and whose mined part
\* ends before slot mined: a wrong entry yields a wrong leaf and no memo.
ParseBatch(i, mined, known, wrong) ==
    LET minedTo == Lesser(i + BatchSize, mined)
        knownTo == Lesser(i + BatchSize, known)
    IN
    /\ hot' = [hot EXCEPT
                 !.todo = @ \ {i},
                 !.ok   = @ \cup ((i .. (minedTo - 1)) \ wrong),
                 !.top  = IF minedTo > i THEN Greater(@, minedTo) ELSE @,
                 !.pend = IF knownTo > Greater(i, minedTo) THEN Greater(@, knownTo) ELSE @,
                 !.own  = MergeOwn(@, OwnIn(Greater(i, minedTo), knownTo) # {})]
    /\ SaveMemos(OwnIn(i, minedTo) \ wrong)
    /\ pmemos' = pmemos \cup OwnIn(Greater(i, minedTo), knownTo)

\* fetchBatch: the sequencer's answer, possibly with a wrong entry; the
\* subgraph's when the sequencer fails, which knows mined transactions only
\* and may lag; or a rejection, which makes the whole hot sync fail.
FetchBatch(i) ==
    /\ pc \in {"sync", "hot"} /\ i \in hot.todo
    /\ \/ NoFault /\ ParseBatch(i, pool, opt, {}) /\ UNCHANGED degraded
       \/ \E w \in Batch(i) :
            w < pool /\ Fault /\ ParseBatch(i, pool, opt, {w}) /\ UNCHANGED degraded
       \/ \E indexed \in 0 .. pool :
            HasSubgraph /\ Fault /\ ParseBatch(i, indexed, indexed, {}) /\ degraded' = TRUE
       \/ /\ Fault
          /\ hot' = [hot EXCEPT !.todo = @ \ {i}, !.failed = TRUE]
          /\ UNCHANGED <<hist, degraded>>
    /\ UNCHANGED <<pool, opt, own, tree, fields, pc, start, target, sib, cold, coldNext,
                   ready, stableSeen, idx, orphans, user, watch>>

\* A batch nobody waits for any more still saves the memos it finds.
OrphanBatch(i) ==
    /\ i \in orphans
    /\ orphans' = orphans \ {i}
    /\ SaveMemos(OwnIn(i, Lesser(i + BatchSize, pool)))
    /\ pmemos' = pmemos \cup OwnIn(Greater(i, pool), i + BatchSize)
    /\ UNCHANGED <<env, tree, fields, pc, locals, user, observers>>

-----------------------------------------------------------------------------
(* The cold sync, concurrent with the hot one.  Any error in it is caught. *)

\* The local tree agrees with the contract at index i.
RootsMatch(i) == i <= next /\ \A k \in bad : k >= i

\* wipeState and rollbackState of the worker: the tree ends at index i and
\* its last verified index does not lie beyond.
CutTree(i) ==
    /\ next' = Lesser(next, i)
    /\ bad' = {k \in bad : k < i}
    /\ stable' = Lesser(stable, i)

\* setLastVerifiedIndex(checkIndex).
MarkVerifiedAtTreeEnd(i) == stable' = next
MarkVerified(i) == stable' = i

\* rollbackHistory and cleanHistory: forget what lies at or above index i.
CutHistoryWhole(i) == memos' = {} /\ unsaved' = {} /\ pmemos' = {}
CutHistory(i) ==
    /\ memos' = {k \in memos : k < i}
    /\ unsaved' = {k \in unsaved : k < i}
    /\ pmemos' = {k \in pmemos : k < i}

\* The own transactions of the bulks' range.
ColdMemos == OwnIn(Greater(start, ColdFrom), ColdNext)

\* The bulks are loaded and added to the tree in one call of the worker; a
\* corrupted bulk (w) yields a wrong leaf.  Slots between the end of the tree
\* and the first bulk stay empty, which is wrong too.
ColdLoad ==
    /\ pc = "sync" /\ cold = "load"
    /\ \E wrong \in {{}} \cup {{w} : w \in Greater(start, ColdFrom) .. (ColdNext - 1)} :
         /\ IF wrong = {} THEN NoFault ELSE Fault
         /\ next' = Greater(next, ColdNext)
         /\ bad' = bad \cup wrong \cup (next .. (Greater(start, ColdFrom) - 1))
         /\ SaveMemos(ColdMemos \ wrong)
    /\ coldNext' = ColdNext
    /\ cold' = "verify"
    /\ UNCHANGED <<pool, opt, own, stable, pmemos, fields, pc, start, target, sib, hot,
                   ready, stableSeen, idx, orphans, user, observers>>

\* A bulk cannot be loaded (or no base address is configured).
ColdFail ==
    /\ pc = "sync" /\ cold = "load" /\ Fault
    /\ cold' = "done"
    /\ UNCHANGED <<pool, opt, own, tree, hist, fields, pc, start, target, sib, coldNext,
                   hot, ready, stableSeen, idx, orphans, user, observers>>

\* verifyState after the bulks: on a match the index is marked next, on a
\* mismatch everything is wiped.  When the contract cannot be asked, the bulks
\* stay as they are.
ColdVerify ==
    /\ pc = "sync" /\ cold = "verify"
    /\ \/ \E seen \in SeenIndexes :
            /\ IF seen = pool THEN NoFault ELSE Fault
            /\ LET check == Lesser(seen, next) IN
               IF RootsMatch(check)
               THEN cold' = "mark" /\ idx' = check /\ UNCHANGED tree
               ELSE cold' = "cleanhist" /\ CutTree(0) /\ UNCHANGED idx
       \/ /\ Fault
          /\ cold' = "done"
          /\ UNCHANGED <<tree, idx>>
    /\ UNCHANGED <<pool, opt, own, hist, fields, pc, start, target, sib, coldNext, hot,
                   ready, stableSeen, orphans, user, observers>>

\* The index the roots agreed at is marked: a request to the worker of its own.
ColdMark ==
    /\ pc = "sync" /\ cold = "mark"
    /\ MarkVerified(idx)
    /\ cold' = "done" /\ idx' = 0
    /\ UNCHANGED <<env, next, bad, hist, fields, pc, start, target, sib, coldNext, hot,
                   ready, stableSeen, orphans, user, observers>>

\* clean() goes on with the history; then the cold storage is not used again.
\* If the history's database fails, the error is caught after the tree is gone.
ColdCleanHistory ==
    /\ pc = "sync" /\ cold = "cleanhist"
    /\ cold' = "done"
    /\ \/ /\ NoFault
          /\ CutHistory(0)
          /\ skipCold' = TRUE
          /\ coldNext' = 0
       \/ /\ Fault
          /\ UNCHANGED <<hist, skipCold, coldNext>>
    /\ UNCHANGED <<pool, opt, own, tree, birth, rollbacks, wipes, fresh, lastResult, pc,
                   start, target, sib, hot, ready, stableSeen, idx, orphans, user, observers>>

\* await coldResultPromise: when the cold sync did not end where it was
\* assumed to, the running hot sync is abandoned and a new one is started.
JoinCold ==
    /\ pc = "sync" /\ cold = "done"
    /\ pc' = "hot"
    /\ IF coldNext = hot.from
       THEN UNCHANGED <<hot, orphans>>
       ELSE /\ hot' = NewHot(coldNext, target)
            /\ orphans' = orphans \cup hot.todo
    /\ UNCHANGED <<env, tree, hist, fields, start, target, sib, cold, coldNext, ready,
                   stableSeen, idx, user, observers>>

\* One batch was rejected, so was the hot sync; the other batches go on.
HotFail ==
    /\ pc = "hot" /\ hot.failed
    /\ orphans' = orphans \cup hot.todo
    /\ Throw
    /\ UNCHANGED <<env, tree, hist, birth, skipCold, rollbacks, wipes, user>>

\* worker.updateState with all batches merged in index order.  A slot no
\* batch brought stays empty below a later one.  The siblings stand for the
\* slots below start; wrong ones spoil the tree.  The pending memos are then
\* trimmed (setLastMinedTxIndex, setLastPendingTxIndex).
StoreHot ==
    /\ pc = "hot" /\ hot.todo = {} /\ ~hot.failed
    /\ \E siblingsRight \in BOOLEAN :
         /\ IF siblingsRight THEN NoFault ELSE sib /\ Fault
         /\ next' = Greater(next, hot.top)
         /\ bad' = (bad \cup ((next .. (hot.top - 1)) \ hot.ok))
                     \ (IF sib /\ siblingsRight THEN 0 .. (start - 1) ELSE {})
    /\ pmemos' = {k \in pmemos : k >= hot.top /\ k < hot.pend}
    /\ ready' = ~hot.own
    /\ ForgetPlan
    /\ pc' = "check"
    /\ UNCHANGED <<pool, opt, own, stable, memos, unsaved, fields, stableSeen, idx,
                   orphans, user, observers>>

\* The worker refuses the update (it may do so unasked when the siblings do
\* not belong to the leaves).  A partial tree is then not tried again.
StoreHotFail ==
    /\ pc = "hot" /\ hot.todo = {} /\ ~hot.failed
    /\ IF sib /\ hot.from < start THEN UNCHANGED faults ELSE Fault
    /\ birth' = IF sib THEN 0 ELSE birth
    /\ Throw
    /\ UNCHANGED <<pool, opt, own, tree, hist, skipCold, rollbacks, wipes, orphans, user>>

-----------------------------------------------------------------------------
(* Self-healing.                                                           *)

\* A tree whose end is already verified is not verified again.
VerifiedOnce == stable > 0
EndVerified == next = stable

Check ==
    /\ pc = "check"
    /\ IF EndVerified
       THEN Finish
       ELSE /\ pc' = "verify"
            /\ stableSeen' = stable
            /\ UNCHANGED <<fresh, lastResult, planned, ready, idx, observers>>
    /\ UNCHANGED <<env, tree, hist, birth, skipCold, rollbacks, wipes, orphans, user>>

\* verifyState, first request: the contract's index, from a node that may lag.
PoolState ==
    /\ pc = "verify"
    /\ \/ /\ \E seen \in SeenIndexes :
               /\ IF seen = pool THEN NoFault ELSE Fault
               /\ idx' = Lesser(seen, next)
          /\ pc' = "compare"
          /\ UNCHANGED <<fresh, lastResult, planned, ready, stableSeen, observers>>
       \/ Fault /\ Throw
    /\ UNCHANGED <<pool, opt, own, tree, hist, birth, skipCold, rollbacks, wipes, orphans, user>>

\* verifyState, second request: the contract's root at the common index is
\* compared with the local one.
Compare ==
    /\ pc = "compare"
    /\ \/ /\ NoFault
          /\ pc' = IF RootsMatch(idx) THEN "mark" ELSE "heal"
          /\ UNCHANGED <<fresh, lastResult, locals, observers>>
       \/ Fault /\ Throw
    /\ UNCHANGED <<pool, opt, own, tree, hist, birth, skipCold, rollbacks, wipes, orphans,
                   user>>

\* The roots agreed: verifyState marks the index, a request to the worker of
\* its own, and the sync ends.
Mark ==
    /\ pc = "mark"
    /\ MarkVerified(idx)
    /\ rollbacks' = 0 /\ wipes' = 0
    /\ Finish
    /\ UNCHANGED <<env, next, bad, hist, birth, skipCold, orphans, user>>

MayAlwaysRollback == stableSeen > 0 /\ stableSeen < idx
MayRollback == stableSeen > 0 /\ stableSeen < idx /\ rollbacks < RollbackAttempts

\* The worker rolls back to the last verified index, or further.
HealRollback ==
    /\ pc = "heal" /\ MayRollback
    /\ \E real \in 0 .. stableSeen : CutTree(real) /\ idx' = real
    /\ pc' = "rollhist"
    /\ UNCHANGED <<env, hist, fields, planned, ready, stableSeen, orphans, user, observers>>

HealWipe ==
    /\ pc = "heal" /\ ~MayRollback /\ wipes < WipeAttempts
    /\ CutTree(0)
    /\ pc' = "cleanhist"
    /\ UNCHANGED <<env, hist, fields, locals, orphans, user, observers>>

HealGiveUp ==
    /\ pc = "heal" /\ ~MayRollback /\ wipes = WipeAttempts
    /\ Throw
    /\ UNCHANGED <<env, tree, hist, birth, skipCold, rollbacks, wipes, orphans, user>>

\* rollback() and clean() go on with the history, which may throw; then the
\* attempt is counted and the sync starts over.
RollHistory ==
    /\ pc = "rollhist"
    /\ \/ /\ NoFault
          /\ CutHistory(idx)
          /\ rollbacks' = rollbacks + 1
          /\ pc' = "enter"
          /\ UNCHANGED <<fresh, lastResult, locals, observers>>
       \/ Fault /\ Throw /\ UNCHANGED <<hist, rollbacks>>
    /\ UNCHANGED <<pool, opt, own, tree, birth, skipCold, wipes, orphans, user>>

WipeNotCounted == wipes' = wipes
CountWipe == wipes' = wipes + 1

CleanHistory ==
    /\ pc = "cleanhist"
    /\ \/ /\ NoFault
          /\ CutHistory(0)
          /\ birth' = IF rollbacks > 0 THEN 0 ELSE birth
          /\ CountWipe
          /\ pc' = "enter"
          /\ UNCHANGED <<fresh, lastResult, locals, observers>>
       \/ Fault /\ Throw /\ UNCHANGED <<hist, birth, wipes>>
    /\ UNCHANGED <<pool, opt, own, tree, skipCold, rollbacks, orphans, user>>

-----------------------------------------------------------------------------
(* The user's own reset, database writes and a restart of the process.     *)

\* rollbackState(index) and cleanState() (index 0) of the client: the tree ...
UserReset ==
    /\ user = -1
    /\ ResetWhen = "any" \/ (ResetWhen = "idle" /\ pc = "idle")
    /\ \E real \in {i \in Indexes : i < next} : CutTree(real) /\ user' = real
    /\ UNCHANGED <<env, hist, fields, pc, locals, orphans, observers>>

\* ... and then the history.
UserResetHistory ==
    /\ user # -1
    /\ CutHistory(user)
    /\ user' = -1
    /\ UNCHANGED <<env, tree, fields, pc, locals, orphans, observers>>

\* The writes of the saved memos reach the database.
WritesFinish ==
    /\ unsaved # {}
    /\ unsaved' = {}
    /\ UNCHANGED <<env, tree, memos, pmemos, fields, pc, locals, orphans, user, observers>>

\* The process ends (or the user logs out) and a new ZkBobState is created on
\* the same databases.
Restart ==
    /\ RestartWhen = "any" \/ (RestartWhen = "written" /\ unsaved = {})
    /\ End
    /\ memos' = memos \ unsaved
    /\ unsaved' = {}
    /\ birth' = BirthIndex /\ skipCold' = FALSE /\ rollbacks' = 0 /\ wipes' = 0
    /\ fresh' = FALSE /\ lastResult' = TRUE
    /\ orphans' = {} /\ user' = -1
    /\ UNCHANGED <<env, tree, pmemos>>

-----------------------------------------------------------------------------

(* Properties.                                                             *)

\* Whatever the services answer and wherever the process dies, rolls back or
\* is wiped: every slot below the last verified index is right.  A tree that
\* ends there is never verified again (Check), so a wrong slot below it would
\* stay for ever.
VerifiedPrefix == stable <= next /\ \A k \in bad : k >= stable

\* The history works synchronously with the tree: it holds the memo of every
\* own transaction in the verified part of the tree.  A memo is produced only
\* once, when its batch is parsed: one lost behind the tree's end is not
\* fetched again.
HistoryComplete == \A k \in own : k < stable => k \in memos

\* A sync that worked from the sequencer's answers alone reports "ready" only
\* when none of our own transactions has been pending since it started.
ReadySound ==
    [][(pc \in {"check", "mark"} /\ fresh' /\ lastResult')
          => (degraded \/ watch = {})]_vars

\* Every sync ends, even when the services lie for ever: the repairs that
\* restart it are bounded.
SyncEnds == pc # "idle" ~> pc = "idle"

\* When the services are only faulty finitely often, the tree becomes right,
\* complete and verified, and stays so.
Healed == faults >= 0 => <>[](next = pool /\ stable = pool /\ bad = {})

-----------------------------------------------------------------------------

\* One step of the running sync.
SyncStep ==
    \/ Enter \/ Info
    \/ \E i \in Indexes : FetchBatch(i)
    \/ ColdLoad \/ ColdFail \/ ColdVerify \/ ColdMark \/ ColdCleanHistory \/ JoinCold
    \/ HotFail \/ StoreHot \/ StoreHotFail
    \/ Check \/ PoolState \/ Compare \/ Mark
    \/ HealRollback \/ HealWipe \/ HealGiveUp \/ RollHistory \/ CleanHistory

Environment == Submit \/ Mine \/ Drop

Next ==
    \/ Environment
    \/ UpdateState \/ FreshExpires
    \/ SyncStep
    \/ \E i \in Indexes : OrphanBatch(i)
    \/ UserReset \/ UserResetHistory \/ WritesFinish \/ Restart

Spec == Init /\ [][Next]_vars

\* A started sync keeps running, time passes, and the wallet polls.
FairSpec ==
    /\ Spec
    /\ WF_vars(SyncStep) /\ WF_vars(FreshExpires) /\ WF_vars(UpdateState)
    /\ WF_vars(UserResetHistory)
=============================================================================
