----------------------------- MODULE HistoryStorage -----------------------------
(***************************************************************************)
(* The transaction history of an account (src/src/history.ts, class        *)
(* HistoryStorage).  The state synchronisation hands it the account's      *)
(* decrypted memos, mined and pending; the job monitors hand it what the   *)
(* sequencer says of the transactions the account has sent; a history sync *)
(* (getAllHistory) turns both into the list of records the user sees, with *)
(* transaction details it has to ask a subgraph or a node for.  Memos,     *)
(* mined records, failed records and two indexes are kept in a database    *)
(* and survive a restart, the rest is lost.                                *)
(*                                                                         *)
(* A memo is known by its slot in the tree and by the native hash of its   *)
(* transaction; the hash of the n-th sending of transaction t is <<t, n>>. *)
(* A job has one transaction and one record, so all three have one name.   *)
(***************************************************************************)
EXTENDS Integers, Sequences, FiniteSets, SequencesExt

CONSTANTS
    Committed,   \* own transactions whose record has the commitment
    Bare,        \* own ones recorded without it: aggregations, redeemed gift cards
    Incoming,    \* regular transactions of others to this account
    Deposits,    \* batches of direct deposits to this account
    Others,      \* transactions that do not concern this account
    MaxSlot,     \* bound: the last slot that is ever used
    MaxSends,    \* bound: how often the sequencer sends one transaction
    MaxAttempts, \* MAX_SYNC_ATTEMPTS
    MaxCuts,     \* bound: rollbacks, resets and restarts
    HasSubgraph, \* is a subgraph configured?
    Untimely     \* the circumstances admitted beyond the orderly use, see below

Own == Committed \cup Bare
Mine == Own \cup Incoming \cup Deposits
Tx == Mine \cup Others
Slots == 0 .. MaxSlot
Hashes == Tx \X (1 .. MaxSends)

\* "overlap": a history sync while a state sync runs, or after one that failed
\* "lag":     no details of a mined transaction that the account itself has sent
\* "crash":   a restart before the records of a history sync are written
\* "cut":     a restart after a rollback and before the next history sync
\* "shift":   a stranger's transaction gets the slot of a pending memo
ASSUME HistoryAssumption ==
    /\ MaxSlot \in Nat /\ MaxSends \in Nat \ {0} /\ MaxCuts \in Nat
    /\ MaxAttempts \in Nat \ {0} /\ HasSubgraph \in BOOLEAN
    /\ Untimely \subseteq {"overlap", "lag", "crash", "cut", "shift"}
    /\ Committed \cap Bare = {} /\ Own \cap Incoming = {} /\ Own \cap Others = {}
    /\ Deposits \cap (Own \cup Incoming \cup Others) = {} /\ Incoming \cap Others = {}

VARIABLES
    \* the sequencer, the pool contract and the state synchronisation
    chain,    \* the mined transactions, slot by slot
    pend,     \* the transactions of the optimistic state, in the slots after it
    seq,      \* the sequencer's state of an own transaction's job
    sends,    \* how often a transaction was sent so far
    next,     \* the tree's nextTreeIndex
    feed,     \* the state sync: "idle", "fetched" (memos saved), "failed" since
    tops,     \* its maxMinedIndex and maxPendingIndex
    cuts,     \* rollbacks, resets and restarts so far
    \* fields of HistoryStorage
    syncIndex,
    queued,   \* queuedTxs: the jobs it has a record of
    sent,     \* sentTxs: the hashes it has a record of
    unparsed, \* unparsedMemo
    unparsedPending,
    current,  \* currentHistory
    failed,   \* failedHistory
    local,    \* pendingLocalHistory: the entries of sentTxs it was made from
    rec,      \* the record object of an own transaction: its state and its hash
    \* the running syncHistory
    hpc,      \* "idle" or "details"
    attempt,  \* syncAttempts
    asked,    \* the memos the two convertToHistory were called with
    got,      \* what became of each, once the details have arrived
    \* the database
    dbMemo, dbPending, dbTx, dbFailed, dbSync, dbFails,
    unwritten, \* the slots whose record in dbTx may be lost if the process dies
    \* observers
    tracked,  \* own transactions of this session whose hash was made known
    torn      \* has a rollback happened since the last history sync?

services == <<chain, pend, seq, sends, next, feed, tops, cuts>>
memos    == <<unparsed, unparsedPending>>
records  == <<queued, sent, failed, rec>>
running  == <<hpc, attempt, asked, got>>
db       == <<dbMemo, dbPending, dbTx, dbFailed, dbSync, dbFails, unwritten>>
vars == <<services, syncIndex, memos, records, current, local, running, db, tracked, torn>>

Map(S, T) == UNION {[D -> T] : D \in SUBSET S}
Without(f, S) == [x \in DOMAIN f \ S |-> f[x]]
Empty == Without(<<>>, {})
Overlay(f, g) == [x \in DOMAIN f \cup DOMAIN g |-> IF x \in DOMAIN g THEN g[x] ELSE f[x]]
Greatest(S) == CHOOSE x \in S : \A y \in S : y <= x
Undefined == {-1}    \* of the database entry fail_indexes

\* A record of currentHistory: built from details ("mined", "pending"), or the
\* very object that queuedTxs and sentTxs hold ("local").
HistoryRecord == [kind : {"mined", "pending", "local"}, hash : Hashes]
Record(kind, hash) == [kind |-> kind, hash |-> hash]
Outcome == {"full", "partial", "local", "none"}
Waiting == [i \in {-1} |-> "none"]    \* the details have not arrived yet
NotGot == [mined |-> Waiting, pending |-> Waiting]

TypeOK ==
    /\ chain \in Seq(Tx) /\ pend \in Seq(Tx) /\ Len(chain \o pend) <= MaxSlot + 1
    /\ seq \in [Own -> {"new", "waiting", "sent", "failed", "reverted", "mined"}]
    /\ sends \in [Tx -> 0 .. MaxSends] /\ next \in 0 .. (MaxSlot + 1)
    /\ feed \in {"idle", "fetched", "failed"}
    /\ tops \in [mined : Slots \cup {-1}, pending : Slots \cup {-1}]
    /\ cuts \in 0 .. MaxCuts
    /\ syncIndex \in Slots \cup {-1} /\ queued \subseteq Own /\ sent \subseteq Hashes
    /\ unparsed \in Map(Slots, Hashes) /\ unparsedPending \in Map(Slots, Hashes)
    /\ current \in Map(Slots, HistoryRecord)
    /\ failed \subseteq Own /\ local \subseteq Hashes
    /\ rec \in [Own -> [state : {"Pending", "RejectedByRelayer", "RejectedByPool"},
                        sends : 0 .. MaxSends]]
    /\ hpc \in {"idle", "details"} /\ attempt \in 0 .. MaxAttempts
    /\ asked \in [mined : Map(Slots, Hashes), pending : Map(Slots, Hashes)]
    /\ got \in [mined : {Waiting} \cup Map(Slots, Outcome), pending : {Waiting} \cup Map(Slots, Outcome)]
    /\ dbMemo \in Map(Slots, Hashes) /\ dbPending \in Map(Slots, Hashes)
    /\ dbTx \in Map(Slots, Hashes) /\ dbFailed \subseteq Own
    /\ dbSync \in Slots \cup {-1} /\ dbFails \in {Undefined} \cup SUBSET Slots
    /\ unwritten \subseteq DOMAIN dbTx
    /\ tracked \subseteq Own /\ torn \in BOOLEAN

Idle == [mined |-> Empty, pending |-> Empty]

Init ==
    /\ chain = <<>> /\ pend = <<>> /\ seq = [t \in Own |-> "new"]
    /\ sends = [t \in Tx |-> 0] /\ next = 0 /\ feed = "idle"
    /\ tops = [mined |-> -1, pending |-> -1] /\ cuts = 0
    /\ syncIndex = -1 /\ queued = {} /\ sent = {}
    /\ unparsed = Empty /\ unparsedPending = Empty
    /\ current = Empty /\ failed = {} /\ local = {}
    /\ rec = [t \in Own |-> [state |-> "Pending", sends |-> 0]]
    /\ hpc = "idle" /\ attempt = 0 /\ asked = Idle /\ got = NotGot
    /\ dbMemo = Empty /\ dbPending = Empty /\ dbTx = Empty /\ dbFailed = {}
    /\ dbSync = -1 /\ dbFails = Undefined /\ unwritten = {}
    /\ tracked = {} /\ torn = FALSE

-----------------------------------------------------------------------------
(* The sequencer and the pool contract *)

\* An own transaction is sent to the sequencer; its record is kept under its job.
Send(t) ==
    /\ seq[t] = "new"
    /\ seq' = [seq EXCEPT ![t] = "waiting"]
    /\ queued' = queued \cup {t}
    /\ UNCHANGED <<chain, pend, sends, next, feed, tops, cuts, syncIndex, memos, current,
                   sent, failed, rec, local, running, db, tracked, torn>>

Room == Len(chain \o pend) <= MaxSlot

\* Does no stranger's transaction of the optimistic state p hold a slot that has
\* a pending memo?  Nothing would overwrite such a memo.
Undisturbed(p) ==
    \/ "shift" \in Untimely
    \/ \A k \in DOMAIN p : p[k] \in Others => Len(chain) + k - 1 \notin DOMAIN dbPending

\* The sequencer sends a transaction to the pool: it joins the optimistic state.
SendToPool(t) ==
    /\ Room /\ sends[t] < MaxSends /\ ~Contains(chain \o pend, t)
    /\ t \in Own => seq[t] = "waiting"
    /\ t \notin Own => sends[t] = 0
    /\ pend' = Append(pend, t) /\ Undisturbed(pend')
    /\ sends' = [sends EXCEPT ![t] = @ + 1]
    /\ seq' = IF t \in Own THEN [seq EXCEPT ![t] = "sent"] ELSE seq
    /\ UNCHANGED <<chain, next, feed, tops, cuts, syncIndex, memos, records, current, local,
                   running, db, tracked, torn>>

\* It leaves the optimistic state again, to be resent (own: "waiting") or for
\* good (own: "reverted").
LeavePool(t) ==
    /\ \E k \in DOMAIN pend : pend[k] = t /\ pend' = RemoveAt(pend, k)
    /\ Undisturbed(pend')
    /\ \E s \in {"waiting", "reverted"} :
          seq' = IF t \in Own THEN [seq EXCEPT ![t] = s] ELSE seq
    /\ UNCHANGED <<chain, sends, next, feed, tops, cuts, syncIndex, memos, records, current,
                   local, running, db, tracked, torn>>

Reject(t) ==
    /\ seq[t] = "waiting" /\ seq' = [seq EXCEPT ![t] = "failed"]
    /\ UNCHANGED <<chain, pend, sends, next, feed, tops, cuts, syncIndex, memos, records,
                   current, local, running, db, tracked, torn>>

Mine1 ==
    /\ pend # <<>>
    /\ chain' = Append(chain, Head(pend)) /\ pend' = Tail(pend)
    /\ seq' = [t \in Own |-> IF t = Head(pend) THEN "mined" ELSE seq[t]]
    /\ UNCHANGED <<sends, next, feed, tops, cuts, syncIndex, memos, records, current, local,
                   running, db, tracked, torn>>

\* A node has the native transaction of a hash that is in a block.
InBlock(h) ==
    /\ h[2] = sends[h[1]]
    /\ \/ Contains(chain, h[1])
       \/ h[1] \in Own /\ seq[h[1]] = "reverted"

-----------------------------------------------------------------------------
(* What the job monitor calls (jobMonitoringWorker in client.ts) *)

\* setTxHashForQueuedTransactions; the entry of an older hash stays in sentTxs.
SetTxHash(t) ==
    IF t \in queued
    THEN /\ rec' = [rec EXCEPT ![t].sends = sends[t]]
         /\ sent' = sent \cup {<<t, sends[t]>>}
         /\ tracked' = tracked \cup {t}
    ELSE UNCHANGED <<rec, sent, tracked>>

JobSent(t) ==
    /\ seq[t] \in {"sent", "mined"}
    /\ SetTxHash(t)
    /\ UNCHANGED <<services, syncIndex, memos, queued, failed, current, local, running, db, torn>>

\* setQueuedTransactionFailedByRelayer, then removePendingTxByJob
JobFailed(t) ==
    /\ seq[t] = "failed" /\ t \in queued
    /\ rec' = [rec EXCEPT ![t].state = "RejectedByRelayer"]
    /\ failed' = failed \cup {t} /\ dbFailed' = dbFailed \cup {t}
    /\ queued' = queued \ {t} /\ sent' = sent \ {<<t, rec[t].sends>>}
    /\ UNCHANGED <<services, syncIndex, memos, current, local, running,
                   dbMemo, dbPending, dbTx, dbSync, dbFails, unwritten, tracked, torn>>

\* Is the record at slot i still in state Pending, when the records of the
\* transactions in rejected have just left that state?
IsPending(i, rejected) ==
    \/ current[i].kind = "pending"
    \/ /\ current[i].kind = "local" /\ current[i].hash[1] \notin rejected
       /\ rec[current[i].hash[1]].state = "Pending"

\* removeHistoryPendingRecordsByTxHash, once t's record is marked as rejected:
\* the first pending record with that hash is deleted, no other.
RemovePendingRecord(t, h) ==
    LET found == {i \in DOMAIN current : current[i].hash = h /\ IsPending(i, {t})}
    IN  IF found = {} THEN UNCHANGED current
        ELSE \E i \in found : current' = Without(current, {i})

\* Mistake: a reverted transaction is only looked for under its latest hash.
JobRevertedForgets(t) ==
    LET h == <<t, sends[t]>> IN
    /\ seq[t] = "reverted" /\ (h \in sent \/ t \in queued)
    /\ rec' = [rec EXCEPT ![t].state = "RejectedByPool"]
    /\ failed' = IF h \in sent THEN failed \cup {t} ELSE failed
    /\ dbFailed' = dbFailed \cup {t}
    /\ queued' = queued \ {t} /\ sent' = {x \in sent : x[1] # t}
    /\ RemovePendingRecord(t, h)
    /\ UNCHANGED <<services, syncIndex, memos, local, running,
                   dbMemo, dbPending, dbTx, dbSync, dbFails, unwritten, tracked, torn>>

\* setSentTransactionFailedByPool
JobReverted(t) ==
    LET h == <<t, sends[t]>> IN
    /\ seq[t] = "reverted" /\ (h \in sent \/ t \in queued)
    /\ rec' = [rec EXCEPT ![t] = [state |-> "RejectedByPool",
                                  sends |-> IF h \in sent THEN @.sends ELSE sends[t]]]
    /\ failed' = failed \cup {t} /\ dbFailed' = dbFailed \cup {t}
    /\ queued' = queued \ {t}
    /\ sent' = sent \ ({h} \cup IF t \in queued THEN {<<t, rec'[t].sends>>} ELSE {})
    /\ IF h \in sent THEN RemovePendingRecord(t, h)
       ELSE RemovePendingRecord(t, <<t, rec[t].sends>>)
    /\ UNCHANGED <<services, syncIndex, memos, local, running,
                   dbMemo, dbPending, dbTx, dbSync, dbFails, unwritten, tracked, torn>>

-----------------------------------------------------------------------------
(* What the state synchronisation calls (state.ts) *)

SlotsFrom(i) == {j \in Slots : j >= i /\ j < Len(chain \o pend)}
TxAt(i) == (chain \o pend)[i + 1]
HashAt(i) == <<TxAt(i), sends[TxAt(i)]>>
Mined(i) == i < Len(chain)

\* The hot sync reads the slots from nextTreeIndex on and saves the memos of
\* those that concern the account (saveDecryptedMemo).
Fetch ==
    LET seen   == SlotsFrom(next)
        ours   == {i \in seen : TxAt(i) \in Mine}
        mined  == [i \in {j \in ours : Mined(j)} |-> HashAt(i)]
        pending == [i \in {j \in ours : ~Mined(j)} |-> HashAt(i)]
        fresh  == {i \in DOMAIN mined : i > syncIndex}
        top(S) == IF S = {} THEN -1 ELSE Greatest(S)
    IN
    /\ feed \in {"idle", "failed"} /\ (hpc = "idle" \/ "overlap" \in Untimely)
    /\ feed' = "fetched"
    /\ tops' = IF seen = {} THEN [mined |-> next - 1, pending |-> -1]
               ELSE [mined |-> top({i \in seen : Mined(i)}), pending |-> top({i \in seen : ~Mined(i)})]
    /\ unparsed' = Overlay(unparsed, [i \in fresh |-> mined[i]])
    /\ unparsedPending' = Overlay(unparsedPending, pending)
    /\ dbMemo' = Overlay(dbMemo, mined) /\ dbPending' = Overlay(dbPending, pending)
    /\ UNCHANGED <<chain, pend, seq, sends, next, cuts, syncIndex, records, current, local,
                   running, dbTx, dbFailed, dbSync, dbFails, unwritten, tracked, torn>>

\* The state sync has stored the mined transactions and removes the pending
\* memos it takes for outdated: setLastMinedTxIndex, setLastPendingTxIndex.
Store ==
    LET stale(f) == {i \in DOMAIN f : i <= tops.mined \/ i > tops.pending} IN
    /\ feed = "fetched" /\ feed' = "idle"
    /\ next' = IF tops.mined + 1 > next THEN tops.mined + 1 ELSE next
    /\ unparsedPending' = Without(unparsedPending, stale(unparsedPending))
    /\ dbPending' = Without(dbPending, stale(dbPending))
    /\ UNCHANGED <<chain, pend, seq, sends, tops, cuts, syncIndex, unparsed, records, current,
                   local, running, dbMemo, dbTx, dbFailed, dbSync, dbFails, unwritten, tracked, torn>>

\* ... or it fails before that.
StoreFails ==
    /\ feed = "fetched" /\ feed' = "failed"
    /\ UNCHANGED <<chain, pend, seq, sends, next, tops, cuts, syncIndex, memos, records,
                   current, local, running, db, tracked, torn>>

MinedOf(S) == {t \in Own : \E i \in S \cap DOMAIN current : current[i] = Record("mined", <<t, sends[t]>>)}

\* The tree does not match and is cut at i: rollbackHistory, which waits for a
\* running history sync.
Rollback(i) ==
    LET gone == {j \in Slots : j >= i}
        left == Without(unparsed, gone)
    IN
    /\ feed # "fetched" /\ hpc = "idle" /\ i <= next /\ next > 0
    /\ cuts < MaxCuts /\ cuts' = cuts + 1
    /\ next' = i
    /\ current' = Without(current, gone) /\ unparsed' = left
    /\ unparsedPending' = Without(unparsedPending, gone)
    /\ syncIndex' = IF left = Empty THEN -1 ELSE Greatest(DOMAIN left)
    /\ dbTx' = Without(dbTx, gone) /\ dbMemo' = Without(dbMemo, gone)
    /\ dbPending' = Without(dbPending, gone)
    /\ dbSync' = syncIndex' /\ unwritten' = {}
    /\ dbFails' = IF dbFails = Undefined THEN Undefined ELSE dbFails \ gone
    /\ torn' = TRUE /\ tracked' = tracked \ MinedOf(gone)
    /\ UNCHANGED <<chain, pend, seq, sends, feed, tops, records, local, running, dbFailed>>

\* The user, or the self-healing, wipes the state: cleanHistory, which does not
\* touch the records of the transactions that are on their way.
Clean ==
    /\ feed # "fetched" /\ hpc = "idle" /\ next > 0
    /\ cuts < MaxCuts /\ cuts' = cuts + 1
    /\ next' = 0 /\ syncIndex' = -1
    /\ unparsed' = Empty /\ unparsedPending' = Empty /\ current' = Empty /\ failed' = {}
    /\ dbMemo' = Empty /\ dbPending' = Empty /\ dbTx' = Empty /\ dbFailed' = {}
    /\ dbSync' = -1 /\ dbFails' = Undefined /\ unwritten' = {}
    /\ torn' = FALSE /\ tracked' = {t \in tracked : \E h \in sent : h[1] = t}
    /\ UNCHANGED <<chain, pend, seq, sends, feed, tops, queued, sent, rec, local, running>>

-----------------------------------------------------------------------------
(* getAllHistory *)

\* What a conversion may make of a memo.
Answers(h, pending) ==
    LET full == InBlock(h)
        fallback == IF h \in sent THEN "local" ELSE "none"
    IN  (IF full THEN {"full"} ELSE {})
        \cup (IF full /\ h[1] \in Deposits /\ HasSubgraph THEN {"partial"} ELSE {})
        \cup (IF pending \/ ~full \/ h \notin sent \/ "lag" \in Untimely THEN {fallback} ELSE {})

\* pendingLocalHistory: the sent transactions whose commitment no record has.
Unlisted(cur, snt) ==
    {h \in snt : ~ \E i \in DOMAIN cur :
        cur[i].hash[1] = h[1] /\ (cur[i].kind = "local" \/ h[1] \in Committed)}

\* Mistake: the pending records of the previous history sync stay.
SettledAll == DOMAIN current

Settled == {i \in DOMAIN current : ~IsPending(i, {})}

\* Mistake: the records that are asked for again are left out of the new list.
KeptUnasked == Without(current, DOMAIN asked.mined \cup (DOMAIN current \ Settled))

\* The records a new list starts from: those that are not pending.
Kept == Without(current, DOMAIN current \ Settled)

GetAllHistory ==
    /\ hpc = "idle"
    /\ feed = "idle" \/ "overlap" \in Untimely
    /\ IF DOMAIN unparsed \cup DOMAIN unparsedPending # {}
       THEN /\ hpc' = "details" /\ attempt' = 1
            /\ asked' = [mined |-> unparsed, pending |-> unparsedPending]
            /\ UNCHANGED <<current, local>>
       ELSE /\ current' = Kept /\ local' = Unlisted(Kept, sent)
            /\ UNCHANGED <<hpc, attempt, asked>>
    /\ got' = NotGot
    /\ UNCHANGED <<services, syncIndex, memos, records, db, tracked, torn>>

\* Mistake: the conversion leaves the records of mined transactions in queuedTxs and sentTxs.
ConvertMinedKeepsSent ==
    /\ hpc = "details" /\ got.mined = Waiting
    /\ \E out \in [DOMAIN asked.mined -> Outcome] :
          /\ \A i \in DOMAIN out : out[i] \in Answers(asked.mined[i], FALSE)
          /\ got' = [got EXCEPT !.mined = out]
    /\ UNCHANGED <<services, syncIndex, memos, records, current, local, hpc, attempt, asked,
                   db, tracked, torn>>

\* convertToHistory of the mined memos; the records of sent transactions whose
\* details have arrived are removed (removePendingTxByCommit).
ConvertMined ==
    /\ hpc = "details" /\ got.mined = Waiting
    /\ \E out \in [DOMAIN asked.mined -> Outcome] :
          /\ \A i \in DOMAIN out : out[i] \in Answers(asked.mined[i], FALSE)
          /\ got' = [got EXCEPT !.mined = out]
          /\ LET done == {asked.mined[i][1] : i \in {j \in DOMAIN out : out[j] = "full"}} IN
             /\ sent' = {h \in sent : h[1] \notin done}
             /\ queued' = queued \ done
    /\ UNCHANGED <<services, syncIndex, memos, failed, rec, current, local, hpc, attempt, asked,
                   db, tracked, torn>>

ConvertPending ==
    /\ hpc = "details" /\ got.pending = Waiting
    /\ \E out \in [DOMAIN asked.pending -> Outcome] :
          /\ \A i \in DOMAIN out : out[i] \in Answers(asked.pending[i], TRUE)
          /\ got' = [got EXCEPT !.pending = out]
    /\ UNCHANGED <<services, syncIndex, memos, records, current, local, hpc, attempt, asked,
                   db, tracked, torn>>

\* The records that a conversion brings, and the slots it gave an outcome in S.
Built(from, out, kind) ==
    [i \in {j \in DOMAIN out : out[j] # "none"} |->
        Record(IF out[i] = "local" THEN "local" ELSE kind, from[i])]
With(out, S) == {i \in DOMAIN out : out[i] \in S}

\* Mistake: a memo whose details are missing is given up after the first attempt.
MergeGivesUp ==
    /\ hpc = "details" /\ got.mined # Waiting /\ got.pending # Waiting
    /\ LET mined   == With(got.mined, {"full", "partial"})
           brought == Overlay(Built(asked.mined, got.mined, "mined"),
                              Built(asked.pending, got.pending, "pending"))
       IN
       /\ current' = Overlay(Kept, brought)
       /\ dbTx' = Overlay(dbTx, [i \in mined |-> asked.mined[i]])
       /\ unwritten' = unwritten \cup mined
       /\ dbFails' = {} /\ unparsed' = Empty
       /\ \E last \in IF mined = {} THEN {syncIndex} ELSE mined :
             syncIndex' = IF last > syncIndex THEN last ELSE syncIndex
       /\ dbSync' = syncIndex' /\ local' = Unlisted(current', sent)
       /\ hpc' = "idle" /\ attempt' = 0 /\ asked' = Idle /\ torn' = FALSE /\ got' = NotGot
    /\ UNCHANGED <<services, unparsedPending, records, dbMemo, dbPending, dbFailed, tracked>>

\* The rest of syncHistory, and the loop around it.
Merge ==
    /\ hpc = "details" /\ got.mined # Waiting /\ got.pending # Waiting
    /\ LET mined   == With(got.mined, {"full", "partial"})
           resync  == With(got.mined, {"partial"}) \cup With(got.pending, {"partial"})
           success == With(got.mined, {"full", "partial", "local"})
                        \cup With(got.pending, {"full", "partial", "local"})
           none    == With(got.mined, {"none"}) \cup With(got.pending, {"none"})
           brought == Overlay(Built(asked.mined, got.mined, "mined"),
                              Built(asked.pending, got.pending, "pending"))
       IN
       /\ current' = Overlay(Kept, brought)
       /\ dbTx' = Overlay(dbTx, [i \in mined |-> asked.mined[i]])
       /\ unwritten' = unwritten \cup mined
       /\ dbFails' = none \cup resync
       /\ unparsed' = Without(unparsed, success \ resync)
       /\ \E last \in IF mined = {} THEN {syncIndex} ELSE mined :
             syncIndex' = IF last > syncIndex THEN last ELSE syncIndex
       /\ dbSync' = syncIndex'
       /\ local' = Unlisted(current', sent)
       /\ IF unparsed' # Empty /\ attempt < MaxAttempts
          THEN /\ attempt' = attempt + 1
               /\ asked' = [mined |-> unparsed', pending |-> unparsedPending]
               /\ UNCHANGED <<hpc, torn>>
          ELSE /\ hpc' = "idle" /\ attempt' = 0 /\ asked' = Idle /\ torn' = FALSE
       /\ got' = NotGot
    /\ UNCHANGED <<services, unparsedPending, records, dbMemo, dbPending, dbFailed, tracked>>

\* Nobody waits for the records' writes, which are not those of the two indexes.
RecordsWritten ==
    /\ unwritten # {} /\ unwritten' = {}
    /\ UNCHANGED <<services, syncIndex, memos, records, current, local, running,
                   dbMemo, dbPending, dbTx, dbFailed, dbSync, dbFails, tracked, torn>>

-----------------------------------------------------------------------------
(* The process dies and starts again: preloadCache *)

\* Mistake: preloadCache without the memos listed in fail_indexes.
RestartForgetsFails ==
    LET from == IF dbSync = 0 THEN -1 ELSE dbSync IN
    /\ cuts < MaxCuts /\ cuts' = cuts + 1 /\ ~torn /\ unwritten = {}
    /\ feed' = "failed" /\ hpc' = "idle" /\ attempt' = 0 /\ asked' = Idle /\ got' = NotGot
    /\ syncIndex' = from
    /\ unparsed' = [i \in {j \in DOMAIN dbMemo : j > from} |-> dbMemo[i]]
    /\ unparsedPending' = [i \in {j \in DOMAIN dbPending : j > from} |-> dbPending[i]]
    /\ current' = [i \in DOMAIN dbTx |-> Record("mined", dbTx[i])]
    /\ failed' = dbFailed /\ queued' = {} /\ sent' = {} /\ local' = {} /\ tracked' = {}
    /\ UNCHANGED <<chain, pend, seq, sends, next, tops, rec, db, torn>>

\* The records of sent transactions and the job monitors are gone; the memos above
\* the saved sync index and those in fail_indexes are converted again.
Restart ==
    LET from     == IF dbSync = 0 THEN -1 ELSE dbSync
        mined    == {i \in DOMAIN dbMemo : i > from}
        topMined == IF mined = {} THEN -1 ELSE Greatest(mined)
        fails    == IF dbFails = Undefined THEN DOMAIN dbMemo \ DOMAIN dbTx'
                    ELSE dbFails \cap DOMAIN dbMemo
    IN
    /\ cuts < MaxCuts /\ cuts' = cuts + 1
    /\ torn => "cut" \in Untimely
    /\ unwritten # {} => "crash" \in Untimely
    /\ \E lost \in SUBSET unwritten : dbTx' = Without(dbTx, lost)
    /\ unwritten' = {}
    /\ feed' = "failed" /\ hpc' = "idle" /\ attempt' = 0 /\ asked' = Idle /\ got' = NotGot
    /\ syncIndex' = from
    /\ unparsed' = [i \in mined \cup fails |-> dbMemo[i]]
    /\ unparsedPending' = [i \in {j \in DOMAIN dbPending : j > from /\ j > topMined} |-> dbPending[i]]
    /\ current' = [i \in DOMAIN dbTx' |-> Record("mined", dbTx'[i])]
    /\ failed' = dbFailed /\ queued' = {} /\ sent' = {} /\ local' = {} /\ tracked' = {}
    /\ UNCHANGED <<chain, pend, seq, sends, next, tops, rec, dbMemo, dbPending, dbFailed, dbSync,
                   dbFails, torn>>

-----------------------------------------------------------------------------
Next ==
    \/ \E t \in Own : Send(t) \/ Reject(t) \/ JobSent(t) \/ JobFailed(t) \/ JobReverted(t)
    \/ \E t \in Tx : SendToPool(t) \/ LeavePool(t)
    \/ Mine1
    \/ Fetch \/ Store \/ StoreFails
    \/ \E i \in Slots : Rollback(i)
    \/ Clean
    \/ GetAllHistory \/ ConvertMined \/ ConvertPending \/ Merge
    \/ RecordsWritten \/ Restart

Spec == Init /\ [][Next]_vars

-----------------------------------------------------------------------------
(* What the history promises *)

\* No mined transaction is forgotten: every memo saved as mined is shown as a
\* mined record or still waits to be converted, in this session and in the one
\* that a restart begins (preloadCache looks for memos above the sync index and
\* for those marked as failed, syncHistory and rollbackHistory move both).
MinedShown ==
    \A i \in DOMAIN dbMemo :
        \/ i \in DOMAIN unparsed
        \/ i \in DOMAIN current /\ current[i] = Record("mined", dbMemo[i])

SyncEnds == (GetAllHistory \/ Merge) /\ hpc' = "idle"

\* How often the list that getAllHistory returns shows transaction t.
Shown(t) == Cardinality({i \in DOMAIN current : current[i].hash[1] = t})
          + Cardinality({h \in local : h[1] = t}) + IF t \in failed THEN 1 ELSE 0
IsMined(t) == \E i \in DOMAIN current : current[i].kind = "mined" /\ current[i].hash[1] = t

\* A transaction that is shown as mined is shown only once: the pending memo, the
\* local record, and the entries of its former hashes are gone by then
\* (removePendingTxByCommit, setLastMinedTxIndex).
MinedOnce == [][SyncEnds => \A t \in Tx : IsMined(t)' => Shown(t)' = 1]_vars

\* A transaction the user has sent in this session, and whose hash the history
\* was told, stays in the list whatever becomes of it: resent, mined before or
\* after its memo is seen, rejected or reverted.
OwnListed == [][SyncEnds => \A t \in tracked : Shown(t)' > 0]_vars

\* What was listed as mined stays so, unless the state is cut and its memo with
\* it: no later answer without its details (a batch of deposits whose details
\* were incomplete is asked for again), no job monitor that removes records, no
\* rollback further up and no restart takes it away or makes it pending again.
MinedStays ==
    [][\A i \in DOMAIN current : current[i].kind = "mined" /\ i \in DOMAIN dbMemo' =>
          i \in DOMAIN current' /\ current'[i] = current[i]]_vars

\* What liveness needs: the client keeps synchronising the state and asking for
\* the history, the sequencer answers the polls of the job monitors, and a node
\* or the subgraph that is asked often enough has the details of what is mined.
ConvertMinedFully ==
    ConvertMined /\ \A i \in DOMAIN got'.mined : got'.mined[i] = "full"

Fairness ==
    /\ SF_vars(Fetch) /\ SF_vars(Store) /\ SF_vars(GetAllHistory)
    /\ SF_vars(ConvertMinedFully) /\ WF_vars(ConvertMined)
    /\ WF_vars(ConvertPending) /\ WF_vars(Merge)

FairSpec == Spec /\ Fairness

\* Every mined memo becomes a mined record in the end, however often the details
\* are missing at first, unless it is cut off (retries, fail_indexes).
EventuallyMined ==
    \A i \in Slots :
        i \in DOMAIN dbMemo ~> \/ i \notin DOMAIN dbMemo
                               \/ i \in DOMAIN current /\ current[i].kind = "mined"

\* The records of a mined transaction are "removed automatically on history sync"
\* from queuedTxs and sentTxs, and do not stay in the list as pending.
SentCleared ==
    \A t \in Own :
        seq[t] = "mined" ~> t \notin queued /\ \A h \in sent \cup local : h[1] # t

=============================================================================
