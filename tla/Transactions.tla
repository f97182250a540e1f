------------------------------ MODULE Transactions ------------------------------
(***************************************************************************)
(* A transfer of several transactions (src/src/client.ts, class            *)
(* ZkBobClient: transferMulti and withdrawMulti, the gate                  *)
(* waitReadyToTransact before each further part, the job monitors and      *)
(* waitJobTxHash), with the calls of updateState that the gate and the     *)
(* user interface share (src/src/state.ts).                                *)
(*                                                                         *)
(* Every transaction of an account spends the account left by the previous *)
(* one.  An account is represented by its version, the number of own       *)
(* transactions mined before; a transaction built on a version can only be *)
(* mined while that version is the pool's.                                 *)
(***************************************************************************)
EXTENDS Integers

CONSTANTS
    Parts,       \* transactions of the transfer
    MaxSends,    \* bound: how often the sequencer sends one of them
    MaxAttempts, \* MAX_ATTEMPTS of waitReadyToTransact
    IssuesThreshold, \* ISSUES_THRESHOLD of jobMonitoringWorker
    MaxErrors,   \* bound: failed requests of the monitors
    MaxSyncs,    \* bound: calls of updateState by the user interface
    Untimely     \* circumstances admitted beyond the orderly use:
                 \* "ui":   the user interface syncs while a transfer runs
                 \* "fast": a part is made within MIN_RESYNC_INTERVAL of a sync
                 \* "slow": a part is not mined within MAX_ATTEMPTS
                 \* "quick": a job is answered before its record is kept
                 \* "request": the job that the transfer waits for cannot be
                 \*            asked for
                 \* "resent": the gate's sync reads the optimistic state while
                 \*           a part waits to be sent again

ASSUME TransactionsAssumption ==
    /\ Parts \in Nat \ {0} /\ MaxSends \in Nat \ {0} /\ MaxAttempts \in Nat \ {0}
    /\ IssuesThreshold \in Nat /\ MaxErrors \in Nat /\ MaxSyncs \in Nat
    /\ Untimely \subseteq {"ui", "fast", "slow", "quick", "request", "resent"}

VARIABLES
    \* the sequencer and the pool
    job,     \* the state of each part's job, "none" before it is sent
    sends,   \* how often a part was sent to the pool
    version, \* the account's version in the pool
    base,    \* the version a part is built on
    \* ZkBobState
    account, \* the version in the local state
    sync,    \* the running updateState: "idle", "started" or "seen"
    seen,    \* what it saw: the version, and whether it is ready to transact
    fresh,   \* Date.now() < lastSyncTimestamp + MIN_RESYNC_INTERVAL
    result,  \* lastSyncResult
    \* the transfer
    pc, part,
    tries,   \* attempts of waitReadyToTransact
    joined,  \* does the transfer wait for the running updateState?
    \* the job monitors
    monitor, \* jobMonitoringWorker of a part: it does not run, polls the job, awaits
             \* the reason of a revert, or has ended without the job's outcome
    info,    \* monitoredJobs: the state last seen, "unnamed" if mined without a hash
    last,    \* lastTxHash of the monitor
    issues,  \* how often the monitor missed a hash
    told,    \* the history's record of a part: is it queued, its hash or failure
    \* bounds
    errors, syncs

sequencer == <<job, sends, version>>
state == <<account, sync, seen, fresh, result>>
transfer == <<pc, part, tries, joined, base>>
monitors == <<monitor, info, last, issues, told, errors>>
vars == <<sequencer, state, transfer, monitors, syncs>>

P == 1 .. Parts
JobState == {"none", "waiting", "failed", "sent", "reverted", "completed"}
Terminal == {"failed", "reverted", "completed"}

JobsOK ==
    /\ job \in [P -> JobState] /\ sends \in [P -> 0 .. MaxSends]
    /\ version \in Nat /\ syncs \in 0 .. MaxSyncs
TransferOK ==
    /\ pc \in {"idle", "sync", "create", "prove", "keep", "wait", "gate", "pause", "done", "failed"}
    /\ part \in P /\ tries \in 0 .. MaxAttempts /\ base \in [P -> Nat]
MonitorsOK ==
    /\ monitor \in [P -> {"off", "polls", "reason", "lost"}]
    /\ info \in [P -> JobState \cup {"unnamed"}] /\ last \in [P -> 0 .. MaxSends]
    /\ issues \in [P -> 0 .. IssuesThreshold]
    /\ told \in [P -> [state : {"none", "queued", "failed", "reverted"}, hash : 0 .. MaxSends]]
    /\ errors \in 0 .. MaxErrors
StateOK == account \in Nat /\ sync \in {"idle", "started", "seen"}
FlagsOK ==
    /\ fresh \in BOOLEAN /\ result \in BOOLEAN /\ joined \in BOOLEAN
    /\ seen \in [version : Nat, ready : BOOLEAN]

TypeOK == JobsOK /\ StateOK /\ TransferOK /\ MonitorsOK /\ FlagsOK

Init ==
    /\ job = [k \in P |-> "none"] /\ sends = [k \in P |-> 0]
    /\ version = 0 /\ base = [k \in P |-> 0] /\ account = 0
    /\ sync = "idle" /\ seen = [version |-> 0, ready |-> TRUE]
    /\ fresh = FALSE /\ result = TRUE
    /\ pc = "idle" /\ part = 1 /\ tries = 0 /\ joined = FALSE
    /\ monitor = [k \in P |-> "off"] /\ issues = [k \in P |-> 0] /\ info = [k \in P |-> "none"]
    /\ last = [k \in P |-> 0] /\ told = [k \in P |-> [state |-> "none", hash |-> 0]]
    /\ errors = 0 /\ syncs = 0

-----------------------------------------------------------------------------
(* The sequencer and the pool: the states of a job *)

Move(k, to) == job' = [job EXCEPT ![k] = to]

Active(k) == job[k] \in {"waiting", "sent"}

\* "sent: tx in the optimistic state": one that waits to be sent again is not.
Pending(k) == job[k] = "sent"
Resent(k) == job[k] = "waiting" /\ sends[k] > 0

\* The sequencer takes no second transaction on an account that its optimistic
\* state has already spent.
Accept(k) ==
    /\ job[k] = "waiting" /\ sends[k] < MaxSends
    /\ base[k] = version /\ \A j \in P \ {k} : Pending(j) => base[j] # base[k]
    /\ Move(k, "sent") /\ sends' = [sends EXCEPT ![k] = @ + 1]
    /\ UNCHANGED <<version, state, transfer, monitors, syncs>>

Reject(k) ==
    /\ job[k] = "waiting" /\ sends[k] = 0 /\ Move(k, "failed")
    /\ UNCHANGED <<sends, version, state, transfer, monitors, syncs>>

\* "switched from sent to waiting state - it means transaction was resent"
Resend(k) ==
    /\ job[k] = "sent" /\ sends[k] < MaxSends /\ Move(k, "waiting")
    /\ UNCHANGED <<sends, version, state, transfer, monitors, syncs>>

Revert(k) ==
    /\ job[k] = "sent" /\ Move(k, "reverted")
    /\ UNCHANGED <<sends, version, state, transfer, monitors, syncs>>

Complete(k) ==
    /\ job[k] = "sent" /\ base[k] = version
    /\ Move(k, "completed") /\ version' = version + 1
    /\ UNCHANGED <<sends, state, transfer, monitors, syncs>>

-----------------------------------------------------------------------------
(* updateState: one worker at a time, whose result every caller shares, and no
   worker within MIN_RESYNC_INTERVAL of the last one *)

StartSync == sync = "idle" /\ ~fresh /\ sync' = "started"

UiSync ==
    /\ syncs < MaxSyncs /\ syncs' = syncs + 1 /\ StartSync
    /\ pc \in {"idle", "done", "failed"} \/ "ui" \in Untimely
    /\ UNCHANGED <<sequencer, account, seen, fresh, result, transfer, monitors>>

\* The worker reads the sequencer's transactions ...
SyncReads ==
    /\ sync = "started" /\ sync' = "seen"
    /\ pc = "gate" /\ (\E k \in P : Resent(k)) => "resent" \in Untimely
    /\ seen' = [version |-> version, ready |-> \A k \in P : ~Pending(k)]
    /\ UNCHANGED <<sequencer, account, fresh, result, transfer, monitors, syncs>>

\* What the transfer goes on with when updateState returns: the first call's result
\* is not looked at, and waitReadyToTransact's result is not either when the
\* attempts are used up.
Continue(ready) ==
    IF pc = "sync" \/ ready \/ tries = MaxAttempts
    THEN pc' = "create" /\ tries' = 0
    ELSE pc' = "pause" /\ tries' = tries + 1

\* ... stores what is mined, and returns to all who wait.
SyncEnds ==
    /\ sync = "seen" /\ sync' = "idle"
    /\ account' = seen.version /\ fresh' = TRUE /\ result' = seen.ready
    /\ IF joined THEN Continue(seen.ready) ELSE UNCHANGED <<pc, tries>>
    /\ joined' = FALSE
    /\ UNCHANGED <<sequencer, seen, part, base, monitors, syncs>>

\* ... or throws, to all who wait: no services, or a tree it cannot repair.
SyncFails ==
    /\ sync \in {"started", "seen"} /\ sync' = "idle"
    /\ pc' = IF joined THEN "failed" ELSE pc
    /\ joined' = FALSE
    /\ UNCHANGED <<sequencer, account, seen, fresh, result, part, tries, base, monitors, syncs>>

FreshExpires ==
    /\ fresh /\ fresh' = FALSE
    /\ UNCHANGED <<sequencer, account, sync, seen, result, transfer, monitors, syncs>>

\* The transfer calls updateState: first for the balance and the notes of
\* getTransactionParts, whatever it returns, then in waitReadyToTransact.
Sync ==
    /\ pc \in {"sync", "gate"} /\ ~joined
    /\ IF sync # "idle" THEN joined' = TRUE /\ UNCHANGED <<sync, pc, tries>>
       ELSE IF fresh THEN Continue(result) /\ UNCHANGED <<sync, joined>>
       ELSE StartSync /\ joined' = TRUE /\ UNCHANGED <<pc, tries>>
    /\ UNCHANGED <<sequencer, account, seen, fresh, result, part, base, monitors, syncs>>

\* setTimeout(resolve, INTERVAL_MS) between two attempts; a part that is not
\* mined for MAX_ATTEMPTS of them is "slow".
Pause ==
    /\ pc = "pause" /\ pc' = "gate"
    /\ tries < MaxAttempts \/ "slow" \in Untimely \/ \A k \in P : ~Active(k)
    /\ ~fresh
    /\ UNCHANGED <<sequencer, state, part, tries, joined, base, monitors, syncs>>

-----------------------------------------------------------------------------
(* transferMulti *)

\* startJobMonitoring: a worker of its own for a job that has none.
StartMonitor(k) ==
    monitor' = [monitor EXCEPT ![k] = IF @ \in {"off", "lost"} THEN "polls" ELSE @]

Transfer ==
    /\ pc = "idle" /\ pc' = "sync"
    /\ sync = "idle" \/ "ui" \in Untimely
    /\ UNCHANGED <<sequencer, state, part, tries, joined, base, monitors, syncs>>

\* createTransferOptimistic builds the part on the local account.
Create ==
    /\ pc = "create" /\ pc' = "prove"
    /\ base' = [base EXCEPT ![part] = account]
    /\ UNCHANGED <<sequencer, state, part, tries, joined, monitors, syncs>>

\* The part cannot be built, proved or sent: the transfer throws.
Abort ==
    /\ pc \in {"create", "prove"} /\ pc' = "failed"
    /\ UNCHANGED <<sequencer, state, part, tries, joined, base, monitors, syncs>>

\* The proof is ready and the part is sent; its monitor starts.
Send ==
    /\ pc = "prove" /\ pc' = "keep"
    /\ fresh => "fast" \in Untimely
    /\ Move(part, "waiting")
    /\ StartMonitor(part)
    /\ UNCHANGED <<sends, version, state, part, tries, joined, base, info, last, issues, told, errors, syncs>>

\* Mistake: the transfer waits for the last part, too.
KeepAndWait ==
    /\ pc = "keep" /\ told' = [told EXCEPT ![part].state = "queued"]
    /\ pc' = "wait" /\ StartMonitor(part)
    /\ UNCHANGED <<sequencer, state, part, tries, joined, base, info, last, issues, errors, syncs>>

\* keepQueuedTransactions, when the worker has said which outputs are the
\* user's own; the last part is not waited for, and waitJobTxHash starts the
\* monitor of another one again if it has ended.
Keep ==
    /\ pc = "keep" /\ told' = [told EXCEPT ![part].state = "queued"]
    /\ IF part < Parts THEN pc' = "wait" /\ StartMonitor(part)
       ELSE pc' = "done" /\ UNCHANGED monitor
    /\ UNCHANGED <<sequencer, state, part, tries, joined, base, info, last, issues, errors, syncs>>

\* waitJobTxHash: polls monitoredJobs, throws for a rejected part and for one that
\* is mined without a hash.
HasHash == info[part] \in {"sent", "completed"}

\* Mistake: a failed job does not end the loop of waitJobTxHash.
WaitForHashOnly ==
    /\ pc = "wait" /\ HasHash /\ pc' = "gate" /\ part' = part + 1
    /\ UNCHANGED <<sequencer, state, tries, joined, base, monitors, syncs>>

\* Mistake: the next part does not wait for the optimistic state.
WaitWithoutGate ==
    /\ pc = "wait" /\ info[part] \in {"sent", "unnamed"} \cup Terminal
    /\ IF HasHash THEN pc' = "create" /\ part' = part + 1
       ELSE pc' = "failed" /\ UNCHANGED part
    /\ UNCHANGED <<sequencer, state, tries, joined, base, monitors, syncs>>

\* Mistake: a part that was refused is passed over.
WaitPastFailure ==
    /\ pc = "wait" /\ info[part] \in {"sent", "unnamed"} \cup Terminal
    /\ pc' = "gate" /\ part' = part + 1
    /\ UNCHANGED <<sequencer, state, tries, joined, base, monitors, syncs>>

Wait ==
    /\ pc = "wait" /\ info[part] \in {"sent", "unnamed"} \cup Terminal
    /\ IF HasHash THEN pc' = "gate" /\ part' = part + 1
       ELSE pc' = "failed" /\ UNCHANGED part
    /\ UNCHANGED <<sequencer, state, tries, joined, base, monitors, syncs>>

-----------------------------------------------------------------------------
(* jobMonitoringWorker *)

\* getJob answers, and monitoredJobs is updated with what it says.
Answer(k, now) ==
    /\ monitor[k] = "polls" /\ info' = [info EXCEPT ![k] = now]
    /\ told[k].state = "none" => "quick" \in Untimely
    /\ UNCHANGED <<sequencer, state, transfer, errors, syncs>>

\* The monitor polls no more; its own variables go with it.
Leave(k, as) ==
    /\ monitor' = [monitor EXCEPT ![k] = as]
    /\ last' = [last EXCEPT ![k] = 0] /\ issues' = [issues EXCEPT ![k] = 0]

\* The failure of a part that the history keeps.
TellFailure(k, how) ==
    told' = [told EXCEPT ![k].state = IF @ = "queued" THEN how ELSE @]

\* Mistake: only the first hash of a part is stored.
TellFirstHash(k, hash) ==
    told' = [told EXCEPT ![k].hash = IF told[k].state = "queued" /\ @ = 0 THEN hash ELSE @]

\* The hash of a part that the history keeps.
TellHash(k, hash) ==
    told' = [told EXCEPT ![k].hash = IF told[k].state = "queued" THEN hash ELSE @]

PollWaiting(k) ==
    /\ job[k] = "waiting" /\ Answer(k, "waiting")
    /\ UNCHANGED <<monitor, last, issues, told>>

PollFailed(k) ==
    /\ job[k] = "failed" /\ Answer(k, "failed")
    /\ TellFailure(k, "failed") /\ Leave(k, "off")

\* The history is told a hash that is not lastTxHash.
PollSent(k) ==
    /\ job[k] = "sent" /\ Answer(k, "sent")
    /\ IF last[k] # sends[k] THEN TellHash(k, sends[k]) ELSE UNCHANGED told
    /\ last' = [last EXCEPT ![k] = sends[k]]
    /\ UNCHANGED <<monitor, issues>>

\* A job that was sent has no hash in the answer; the monitor bears with
\* ISSUES_THRESHOLD of these.
PollUnnamed(k) ==
    /\ job[k] = "sent" /\ Answer(k, "sent")
    /\ IF issues[k] < IssuesThreshold
       THEN issues' = [issues EXCEPT ![k] = @ + 1] /\ UNCHANGED <<monitor, last>>
       ELSE Leave(k, "lost")
    /\ UNCHANGED told

\* The history is told the hash of a mined job, the empty one if it has none.
PollCompleted(k) ==
    /\ job[k] = "completed" /\ Leave(k, "off")
    /\ \/ Answer(k, "completed") /\ TellHash(k, sends[k])
       \/ Answer(k, "unnamed") /\ TellHash(k, 0)

\* The sequencer says why the part was reverted (or not even its hash), or the
\* monitor goes and asks the chain.
PollReverted(k) ==
    /\ job[k] = "reverted" /\ Answer(k, "reverted")
    /\ \/ TellFailure(k, "reverted") /\ Leave(k, "off")
       \/ Leave(k, "reason") /\ UNCHANGED told

Poll(k) ==
    \/ PollWaiting(k) \/ PollFailed(k) \/ PollSent(k) \/ PollUnnamed(k)
    \/ PollCompleted(k) \/ PollReverted(k)

\* getTxRevertReason returns.
ReasonArrives(k) ==
    /\ monitor[k] = "reason" /\ TellFailure(k, "reverted") /\ Leave(k, "off")
    /\ UNCHANGED <<sequencer, state, transfer, info, errors, syncs>>

\* A request fails and the worker throws: 'not found' for a job that cannot be
\* asked for, or the error of getTxRevertReason.
PollFails(k) ==
    /\ monitor[k] \in {"polls", "reason"} /\ Leave(k, "lost")
    /\ errors < MaxErrors /\ errors' = errors + 1
    /\ (part = k /\ pc = "wait" /\ monitor[k] = "polls") => "request" \in Untimely
    /\ UNCHANGED <<sequencer, state, transfer, info, told, syncs>>

\* The user waits for one of the jobs that the transfer has returned.
UserWaits(k) ==
    /\ pc = "done" /\ monitor[k] \in {"off", "lost"} /\ StartMonitor(k)
    /\ UNCHANGED <<sequencer, state, transfer, info, last, issues, told, errors, syncs>>

-----------------------------------------------------------------------------
Next ==
    \/ \E k \in P : Accept(k) \/ Reject(k) \/ Resend(k) \/ Revert(k) \/ Complete(k)
    \/ UiSync \/ SyncReads \/ SyncEnds \/ SyncFails \/ FreshExpires \/ Sync \/ Pause
    \/ Transfer \/ Create \/ Abort \/ Send \/ Keep \/ Wait
    \/ \E k \in P : Poll(k) \/ ReasonArrives(k) \/ PollFails(k) \/ UserWaits(k)

Spec == Init /\ [][Next]_vars

\* The client's timers and requests go on, and the sequencer comes to an end with
\* every job; nobody has to call anything again.
Fairness ==
    /\ WF_vars(SyncReads) /\ WF_vars(SyncEnds) /\ WF_vars(FreshExpires)
    /\ WF_vars(Sync) /\ WF_vars(Pause) /\ WF_vars(Create) /\ WF_vars(Send) /\ WF_vars(Keep)
    /\ WF_vars(Wait)
    /\ \A k \in P :
        /\ WF_vars(Poll(k)) /\ WF_vars(ReasonArrives(k))
        /\ WF_vars(Accept(k) \/ Reject(k)) /\ WF_vars(Complete(k) \/ Revert(k))

FairSpec == Spec /\ Fairness

-----------------------------------------------------------------------------
(* Properties *)

\* "The library can't make any transfers when there are outcoming transactions in
\* the optimistic state": no two parts that are on their way are built on the same
\* account, and none on an account that is already spent.
NoConflict ==
    \A k \in P : Active(k) =>
        /\ base[k] = version
        /\ \A j \in P \ {k} : Active(j) => base[j] # base[k]

\* How far a part has come, for one who does not see how it is waited for.
Stage(k) ==
    CASE job[k] = "none" -> "unsent"
      [] job[k] \in {"waiting", "sent"} -> "sent"
      [] job[k] = "completed" -> "mined"
      [] job[k] = "failed" -> "refused"
      [] job[k] = "reverted" -> "reverted"

Abstract == INSTANCE OneByOne WITH
    stage <- [k \in P |-> Stage(k)],
    spent <- [k \in P |-> IF job[k] = "none" THEN 0 ELSE base[k]]

\* The gate, the monitors and the shared syncs implement a transfer that sends its
\* parts one at a time, in order, each on the account the last one left; nothing is
\* sent after a part that the sequencer refuses.
SentOneByOne == Abstract!Spec

\* A transfer ends: it makes every part, or throws because a part is rejected
\* ("return transaction hash on success or throw an error").
TransferEnds == pc \notin {"idle", "done", "failed"} ~> pc \in {"done", "failed"}

\* The history learns what became of every part it keeps, its failure or the hash
\* under which it was mined, unless the part's own monitor is lost: one of its
\* requests has failed (of the job, or of the reason of a revert), the sequencer
\* kept the hash from it too often, or said of a mined job no hash at all.
OutcomeTold ==
    \A k \in P : job[k] \in Terminal ~>
        \/ told[k].state = job[k]
        \/ (job[k] = "completed" /\ told[k].hash = sends[k])
        \/ monitor[k] = "lost" \/ info[k] = "unnamed"
=============================================================================
