# zkBob client: verification project

TLA+ specifications of `zkbob-client-js`, the TypeScript library behind the zkBob
wallets: model-checked with TLC on small instances and, where it matters most,
proved with TLAPS for every size. The library keeps a private account in a shielded
pool on an EVM chain or on Tron. It mirrors the pool's Merkle tree, reconstructs the
account and its history from encrypted memos, builds zero-knowledge transactions and
hands them to a sequencer that sends them to the pool.

All paths below are relative to the repository, line numbers are those of `PROJECT.json`
(`map` names the lines each definition stands for).

## 1. Inventory

| Component | Source | State it keeps | Operations |
|---|---|---|---|
| State synchronisation, `ZkBobState` | `src/src/state.ts` | the tree (in a WebAssembly worker: next index, last verified index, birth index), `lastSyncResult`, the time of the last sync, repair counters | `updateState`, hot sync in batches, cold sync from bulks, `verifyState`, self-healing by rollback and wipe, `rollback`, `clean` |
| History, `HistoryStorage` | `src/src/history.ts` | unparsed memos, records by tree index, queued and sent transactions, failed ones, two indexes; an IndexedDB mirror | memos from the sync, hashes and failures from the job monitors, `getAllHistory`, `rollbackHistory`, `cleanHistory`, `preloadCache` |
| Client, transactions, `ZkBobClient` | `src/src/client.ts` | job monitors, `monitoredJobs` | transfers, withdrawals, deposits, gift cards; fees and plans of several transactions; the gate between them; job monitoring |
| Client, life cycle, `ZkBobClient` | `src/src/client.ts` | the account, the mode, states by pool and by gift card, states being freed | `login`, `logout`, `switchToPool`, `updateState`, `getAllHistory`, `giftCardBalance`, `redeemGiftCard` |
| Provider, `ZkBobProvider` | `src/src/client-provider.ts` | current pool; pool ids, denominators and decimals cached by pool; fees, limits and sequencer choices | fees, limits, public data of the pool, `switchToPool` |
| Sequencers | `src/src/services/*.ts` | the chosen proxy | HTTP requests, the cheapest proxy, a remote prover |
| Forced exit, `ForcedExitProcessor` | `src/src/emergency.ts` | none: all is read from the pool contract | state of the exit; request, execute, cancel |
| RPC endpoints, `MultiRpcManager` | `src/src/networks/rpcman.ts` | current endpoint, its issues, `badRpcs`, the count of switches | `commonRpcRetry`, `registerRpcIssue`, `switchRPC`, `switchToTheBestRPC` |
| Network backends | `src/src/networks/{evm,tron}` | contracts by pool | contract calls, transaction details |
| Subgraph | `src/src/subgraph` | none | queries of transactions and deposits |
| Ephemeral addresses, `EphemeralPool` | `src/src/ephemeral.ts` | cached addresses and balances, `startScanIndex`, `scanPromise`, `supportedMethods` | scan for an unused address, listing of the used ones |
| Direct deposits | `src/src/dd.ts` | none | pending deposits |
| Parameters and files | `src/src/params.ts`, `src/src/file-cache.ts` | one loading at a time, cached files | load, verify, cache |
| Worker | `src/src/worker.ts` | accounts of the WebAssembly library by id | create, free; otherwise a facade |
| Signers, configuration, utilities | `src/src/signers`, `src/src/utils.ts`, ... | none | conversions, typed-data signatures |

How they interact. The client calls `updateState` of the current pool's state; every
caller shares one running sync. The sync reads the sequencer's counters and
transactions, and for old ranges cold-storage bulks; it writes the tree through the
worker and hands own memos to the history. It compares the tree's root with the pool
contract's and repairs the tree and the history together. A transfer plans its
transactions from the synchronised account and notes, builds one on the account as it
is, sends it, starts a monitor that polls the job, and waits for the job's hash and for
the optimistic state to be empty before it builds the next. A monitor tells the history
hashes and failures; `getAllHistory` joins memos, local records and details asked from
the subgraph or a node. `login` and `switchToPool` drop the state of the old pool without
waiting for its deletion, move to the new pool, wait for its parameters and for every job
monitor, and create a state; whatever runs meanwhile still refers to the "current" pool.
Every request to the chain is retried by the endpoint manager, whose current endpoint and
counters all callers share; ephemeral addresses are read through it.

What is hard here: every one of these is an interleaving of promises that share fields
across `await`; answers arrive late, in any order, from nodes that lag; the process may
end between two database writes; a job may be sent several times under several hashes;
and repairs restart what they interrupt. What makes a component correct:

- *Synchronisation*: what it calls verified is right, whatever the services answered;
  the history holds every own memo of the verified tree; "ready" is never reported
  over an own pending transaction; a sync ends, and a spoiled tree is repaired.
- *History*: a mined transaction is never forgotten and is shown once; what the user
  sent stays visible; local records go when the chain's arrive.
- *Plans*: a plan can be executed transaction by transaction and is the shortest, a
  request is refused only when no plan exists, the estimations agree with it.
- *Execution*: no two transactions on the way spend the same account; a transfer ends;
  the history learns each outcome.
- *Forced exit*: a reported state was true at some moment of the call; a locked account
  does not transact; a success is reported only for what happened; every call ends.
- *Life cycle*: between calls the account has its state in the current pool and the mode
  says so; no account of the worker leaks, none is written by two syncs; caches hold
  their own pool's values; a switch ends.
- *Endpoints*: a call gives up only when no endpoint was there all the time; an endpoint
  is marked bad for its own errors; calls end.
- *Ephemeral addresses*: an address given out is unused and no used one lies above it; no
  funds lie behind the end of a listing; a scan ends.

## 2. Modules

| Module | Models | Theorems |
|---|---|---|
| `StateSync` | `ZkBobState.updateState` and all it calls, the user's resets, restarts | `StateSync_proofs` |
| `HistoryStorage` | `HistoryStorage` with its database and its callers | `HistoryStorage_proofs` |
| `TransactionParts` | the plan of a transfer or withdrawal, the two estimations | `TransactionParts_proofs` |
| `Transactions` | the execution of a plan, the gate, the job monitors | `Transactions_proofs` |
| `OneByOne` | what such an execution promises: the abstract transfer that `Transactions` implements | in `Transactions_proofs` |
| `ClientPools` | login, logout and pool switches with the states they drop, syncs, listings, gift cards and jobs under way | `ClientPools_proofs` |
| `RpcManager` | the endpoint manager and its callers | `RpcManager_proofs` |
| `EphemeralPool` | the scan and the listing of one-time addresses, on top of `RpcManager` | `EphemeralPool_proofs` |
| `ForcedExit` | the forced exit of an account, the lock it puts on transactions | `ForcedExit_proofs` |
| `MC*` | the modules TLC runs; the constants are in the `.cfg` files | - |

### StateSync

A tree slot is one transaction. Its content is *right* or *wrong* (`bad`), so that the
local root at an index equals the contract's exactly if no slot below is wrong. `next`
and `stable` are the worker's next index and last verified index; `memos`, `unsaved`
and `pmemos` are what the history was told, `unsaved` the part whose database write
nobody awaits (`parseBatch`). `pc` follows `updateStateOptimisticWorker` from `await` to
`await`: `Enter`, `Info` (counters, partial tree, plan of cold and hot sync), one
`FetchBatch` per answer of a batch in any order, `ColdLoad`/`ColdVerify`/
`ColdMark`/`ColdCleanHistory` beside them, `JoinCold` (which may restart the hot sync and leaves
batches behind that still save memos: `OrphanBatch`), `StoreHot`, `Check`, `PoolState`,
`Compare` (the root is read) and `Mark` (the verified index is set, one call of the worker
later; `ColdVerify` and `ColdMark` for the bulks), and the repairs `HealRollback`,
`HealWipe`, `RollHistory`, `CleanHistory`
that start the sync anew. `Submit`, `Mine`, `Drop` are the pool and the sequencer as
the client sees them; `Fault` counts their wrong, late or missing answers.

### HistoryStorage

A memo is known by its slot and its transaction's hash, the hash of the n-th sending of
transaction t is `<<t, n>>`. Every database table is a variable of its own. A history
sync is `GetAllHistory` (which takes the snapshot of the memos), `ConvertMined` and
`ConvertPending` (answers of the subgraph or a node, `Answers`), and `Merge`, which
repeats for missing details up to `MaxAttempts`. `Fetch`, `Store`, `StoreFails`,
`Rollback`, `Clean` are what the state sync calls; `SetTxHash`, `JobFailed`,
`JobReverted` what a monitor calls; `RecordsWritten` ends the writes of the mined records,
which are not awaited; `Restart` is `preloadCache`. Kinds of transactions
that the code treats differently are the constants `Committed`, `Bare`, `Incoming`,
`Deposits`, `Others`. `Undisturbed` is what orderly use asks of the optimistic state: that no
transaction of a stranger gets the slot of a pending memo, which nothing would overwrite.

### TransactionParts

A sequential algorithm: the initial states are all small accounts, note groups and
requests; `Fit`, `Aggregate` and `GiveUp` are the loop of `getTransactionParts` with
`tryToPrepareTransfers` as the operator `Prepared`. The reference definition is
`Executes(plan)`, which executes transactions one after the other on an account. The sums and
balances of all of them are one recursive function, `Running(start, changes)`.
`Insufficient` and `MaxAvailable` are the estimations of `feeEstimateInternal` and
`calcMaxAvailableTransfer`.

### Transactions

An account is its *version*, the number of own transactions mined before: a transaction
built on a version can only be mined while that is the pool's. The actions of a transfer
follow `transferMulti` and `withdrawMulti`; `Sync`, `Continue` and `Pause` are
`waitReadyToTransact`. Of `updateState` this module keeps what the gate depends on: one
running worker whose result all callers share, the minimal interval between two, and
the result of the last; a sync that throws (`SyncFails`) makes the transfer throw.

`Poll` is one answer to `jobMonitoringWorker`, by the state of the job; of a revert it may be
only the first half, published in `monitoredJobs` while `getTxRevertReason` is awaited
(`ReasonArrives`). The monitor ends without having told the outcome (`lost`) when one of the
two requests throws (`PollFails`) or the hash has been missing `IssuesThreshold` times
(`PollUnnamed`). `waitJobTxHash` starts it again if it has ended by then (`StartMonitor` in
`Keep` and `UserWaits`).

The sequencer may reject a part, see it reverted, or send it again under a new hash: then it
waits (`Resent`) and is *not* in the optimistic state meanwhile (`Pending`: "sent: tx in the
optimistic state", `client.ts:682-691`, as `LeavePool` of `HistoryStorage` has it too).

`OneByOne` states what all this is for: parts are sent one at a time, in order, each on
the account that the last mined one left, and nothing follows a refused part; a reverted
part does not stop the later ones (`transferMulti` never looks at a monitor's end).
`Stage` and `Abstract` are the refinement mapping (a part's stage is what became of its
job, the account it spends its `base`), `SentOneByOne` is `OneByOne`'s specification under
it. Monitors, syncs, the gate and its timers are stutters.

### ForcedExit

The pool contract keeps for a nullifier (again a *version*) the committed exit and a log
of events; an exit is known by the start of its slot. One call of the library runs at a
time, one action per request: `Sync`, then `ReadValue` and `ReadHash` of
`forcedExitState`, and `Active`, `ReadDead`, `ReadCommitted`, `ReadLog` of
`getActiveForcedExit`, which reads the nullifier anew and is used for four ends (`stage`).
`Act` and `Send` post a transaction, `Poll` and `Timeout` wait for it; any read, preparation or
callback may throw and end the call (`Throws`). Between any two
requests the clock moves, others act on the contract, another sync changes the local
nullifier, and a transaction that nobody waits for any more is mined (`MineLate`).
What the contract accepts is the external part of the model, taken from the arguments the
library gives it. `seen` collects the states that were true during a call.

### ClientPools

A state is `<<pool, user>>`, which is also the id of its account in the worker;
`zpStates[p]` is the state that pool p has, `freeing` are the pools whose deletion was
begun by `freePoolState` and has not returned, `accounts` the worker's accounts. The
worker answers in order, so that an account is gone when the deletion is *called*
(`Release`, `Logout`) while the client forgets the state when it *returns* (`Freed`), and
a new account of the same id comes after it (`Created` waits for `Freed`). A call of
`login` or `switchToPool` is `Begin` (up to its first await: the old state is dropped, the
pool changed), `Fetched` (pool id, denominator and prefix are there and are kept for the
pool that is current by then: `Store`; jobs are forgotten), `Create` (when no monitor
runs), `Created`, `Attached`. `UpdateState`, `SyncBegins`, `SyncEnds` and `DroppedSyncEnds` are
`updateState` with the mode it sets. Between the first two (`begun`) it reads its average times
and the cold storage's configuration, and only then asks for the current state
(`client.ts:1752`): a logout or a switch may come before. A dropped sync fails at its next call
of the worker, if its account is really gone. `ListHistory`/`HistoryListed`, `StartCard`/`CardCreated`/
`CardSynced`/`Redeemed`, `StartJob`/`StartWait`/`JobEnds`/`WaitPolls` and `StartRead`/
`ReadDone` are the calls that a switch may meet under way. What a sync or a job does inside
is the matter of `StateSync` and `Transactions`.

### RpcManager

An endpoint is up or down, and changes at any time (`Outage`, `Recover`). A call of
`commonRpcRetry` is `Begin`, `Answer` or `Fail` of the endpoint it asked (`at`), and
`Retry` after the delay, which asks the endpoint that is current by then or gives up when
the manager has switched once per endpoint (`switches`). `Fail` charges the error to the
*current* endpoint (`RegisterIssue`), which may mark it and switch. `BeginBest`, `Probe`
and `EndBest` are `switchToTheBestRPC`. Two history variables serve the properties:
`steady[c]` are the endpoints that were up ever since call c began, `earned` tells whether
the current endpoint has been down since it became current.

### EphemeralPool

`EphemeralPool` EXTENDS `RpcManager`: a scan and a listing are callers ("scan", "list") of
one manager, each read of an address is one of its calls, and `Chain` is every other use
of the chain. `ScanReads` and `ListReads` take the answer and go on to the next address,
return, or move `startScanIndex`; `ScanThrows` and `ListThrows` are calls that gave up. An
address is unused, funded, or "moved": its tokens were taken by permit, so that only its
permit nonce tells that it was used (`Nonused`). `Fund` and `Move` are the user's.

## 3. Runs

| Run | Checks | Shows |
|---|---|---|
| `sync_hot` | `TypeOK`, `VerifiedPrefix`, `HistoryComplete`, `ReadySound` | hot sync, repairs, restarts, resets between syncs |
| `sync_cold` | `VerifiedPrefix`, `HistoryComplete` | partial tree and cold storage beside the hot sync |
| `sync_live` | `SyncEnds`, `Healed` | bounded repairs; a tree spoiled by transient faults is repaired |
| `hist_main` | `MinedShown`, `MinedOnce`, `OwnListed`, `MinedStays` | the history through resends, reverts, rollbacks and restarts |
| `hist_live` | `EventuallyMined`, `SentCleared` | missing details are asked for until they come |
| `parts` | `PlanExecutes`, `PlanFound`, `EstimateAgrees`, `MaxExactNoDust` | plans and estimations over all small inputs |
| `tx` | `TypeOK`, `NoConflict`, `TransferEnds`, `OutcomeTold`, `SentOneByOne` | the execution of a transfer with its monitors, and that it implements `OneByOne` |
| `client` | `AccountAttached`, `NoLeak`, `OneSyncPerAccount`, `CacheTrue`, `CallsReturn` | logins, logouts and switches beside syncs, listings, a gift card and a job |
| `rpc` | `GaveUpSound`, `BadEarned`, `CallEnds`, `EventuallyServed` | two callers, three endpoints that come and go, the search for the best one |
| `scan` | `FirstUnused`, `FundsListed`, `ScanEnds` | scans and listings over two endpoints that come and go, while addresses are used |
| `exit` | `StateSound`, `TransactAllowed`, `OutcomeTrue`, `CallEnds` | calls of the forced exit while others act and time passes |
| `tx_hang` | `TransferEnds` (violated) | one failed request of a job's state leaves the transfer waiting for ever |

The violated one is the finding of `PROJECT.json`, with the comment that the program
disagrees with. Each module has one type invariant (`TypeOK`, `PoolTypeOK`). All of them are
proved; `sync_hot` and `tx` check theirs too, and the others can be added to a `.cfg` when a
module is changed.

### Bounds, and why they are enough

The safety properties are proved for every size (section 4), so that the bounds of their runs
matter only for finding a mistake in a changed model early; for the liveness properties they are
all there is.

- *StateSync*. Two transactions and batches of one (`sync_hot`) give two concurrent
  batches, a verified prefix followed by an unverified end, a rollback that cuts half
  the tree, and an own pending transaction after an own mined one. `sync_cold` has four
  transactions and batches of two, so that the cold storage ends inside a batch and a
  partial tree starts inside the bulks. Two faults are one that spoils the tree and one
  during its repair. Attempts of repair are one each, three wipes in `sync_live`, where
  a fault must not use up the last one.
- *HistoryStorage*. Two slots (one behind the other), two sends of one transaction, two
  attempts, two cuts (a rollback and a restart after it, or twice the same). `hist_main`
  has an own transaction and a batch of direct deposits, the two kinds with the most
  special cases; `hist_live` has the own transaction without commitment and an incoming one.
- *TransactionParts*. `In = Out = 2` and up to five notes give three groups; amounts
  and values lie around the fees, and a note may be worth less than one.
- *Transactions*. Two parts are the smallest transfer with a gate; each is sent up to
  twice, the gate has two attempts, one request of a monitor fails, the second missing hash
  ends a monitor, and the user interface syncs once.
- *ForcedExit*. Two calls are a request and what follows it, or a retry after a timeout.
  The clock reaches the end of the slot of an exit committed at the start, so that it can be
  cancelled and committed anew; one own transaction makes the local nullifier old.
- *ClientPools*. Two pools and two users are a switch away and back, and another user in the
  same pool. One call of login or switch at a time, one gift card, one job, one wait, one
  listing, one other reader; any number of one after the other.
- *RpcManager*. Three endpoints are a current one, a marked one and another; two callers
  share the counters, and the threshold is the first above their number (`FewCallers`), as
  `BadEarned` and `GaveUpSound` need. The code does not see to that: `history.ts:840-842`
  converts all waiting memos side by side, and its threshold is 20 (`rpcman.ts:4`). With as many
  callers as issues are needed TLC finds both properties violated: each caller's stray
  error is charged to a flawless endpoint, which is left and marked. Two retries
  distinguish the inner from the outer loop.
- *EphemeralPool*. Two addresses that may be used and two beyond them; two endpoints.

`MaxTx`, `MaxPending`, `MaxFaults`, `MaxSlot`, `MaxSends`, `MaxCuts`, `MaxErrors`,
`MaxSyncs`, `MaxVersion`, `MaxTime`, `MaxCalls`, `MaxIndex` and the sets of amounts are
bounds of the models; the other constants are
those of the code with small values.

### Orderly use, and what lies beyond it

Several properties hold only while the library is used and answered in an orderly way.
What is beyond that is a constant of the module and can be admitted one circumstance at
a time. Each breaks something that a hazard of `PROJECT.json` describes.

- `RestartWhen`: "written" lets the process die when the memo writes are finished;
  "any" lets it die before, which loses a memo for ever and breaks `HistoryComplete`.
  `sync_live` and `sync_cold` have no restarts.
- `ResetWhen`: "idle" lets the user reset the state between syncs. With "any" the reset
  cuts the tree first and the history later, the running sync refills both in between,
  and `HistoryComplete` fails; and one that cuts the tree between the comparison of the roots
  and the mark leaves the verified index beyond the tree's end, so that what is written there
  next counts as verified (`VerifiedPrefix`).
- `Untimely` of `HistoryStorage`: "overlap", a history sync beside a state sync, which
  loses a mined record (`MinedShown`); "lag", a node that does not yet have a mined own
  transaction, whose local record then stays pending for ever (`MinedShown`,
  `SentCleared`); "crash", a restart before the records of a history sync are written but after
  the index (nobody awaits either), which loses the record for ever (`MinedShown`); "cut", a
  restart between a rollback and the next history sync, after which records
  above the cut are loaded again; "shift", a stranger's transaction that gets the slot of a
  pending memo, because one before it was resent or reverted and two strangers' are there:
  `setLastMinedTxIndex` and `setLastPendingTxIndex` trim only the ends, and when the memo's
  transaction is mined in a lower slot it is listed as mined and as pending (`MinedOnce`).
  `MinedStays` fails with "overlap" and "crash" too; with "lag", "cut" or "shift" TLC finds no
  violation of it.
- `Untimely` of `Transactions`: "ui", a sync begun by the user interface during a
  transfer, which the gate joins and from which it learns an old "ready"; "fast", a part
  made within the minimal interval after a sync, so that the gate gets that sync's
  result; "slow", a part that is not mined within the gate's attempts, whose result is
  ignored; "resent", a gate that reads the optimistic state just while the part before waits
  to be sent again and is not in it: the next part is built on the account that one still
  spends. Each of the four breaks `NoConflict` and `SentOneByOne`; nothing in the code prevents
  "resent", it is up to the sequencer. "quick", a job that is answered
  before its record is kept, breaks `OutcomeTold` only. "request" is `tx_hang`.
- `NoDust` of `MaxExactNoDust` in `TransactionParts`: with a group of notes worth less than
  a fee (or an account below it) the maximum that is shown is not the most that can be sent.
- `Untimely` of `ClientPools`: "overlap", logins and switches beside each other or beside a gift
  card call, breaks `CacheTrue` and `NoLeak`; "again", a user who returns while a dropped
  state still syncs or an `updateState` begun for it has not asked for its state yet, and
  "twice", two calls for one card, break `OneSyncPerAccount`; "read", a
  pool's parameters asked for during a switch, breaks `CacheTrue`; "late" and "fail"
  (syncs that end after the drop, or fail), "history" (a listing that outlives its account),
  "unknown", "denom" and "poolid" (a switch that cannot find or read the pool) break
  `AccountAttached`; "detached", an `updateState` without a state, breaks it and
  `OneSyncPerAccount`; "monitor", a job that cannot be asked for, makes a switch throw after
  the old state is gone (`AccountAttached`) and a wait endless (`CallsReturn`), and so does
  "wait", a wait for a job that a switch forgets.
- `Untimely` of `RpcManager`: "marked", a marked endpoint that works again and is not used while
  others are not marked; "best", a search for the best endpoint during calls; "refused", a
  request that every endpoint answers with an error; "probe", an endpoint that does not tell
  its block number, which is charged to the current one; "bound", a retry through a contract
  object of the old endpoint (Tron).
- `Mishaps` of `EphemeralPool`: "overlap", a listing beside a scan, which moves the index that the
  scan has read before its await; "nonce" and "support", a permit nonce or the question
  whether the token has one that fails once: a used address is then taken for unused.

### Fairness

`FairSpec` of `StateSync`: a started sync keeps running (its promises settle), the
interval expires, the wallet keeps calling `updateState`. Of `HistoryStorage`: strong
fairness of the two syncs and of an answer that is complete, because the code retries
until it is; a node that never has a transaction's details is not the code's concern.
Of `Transactions`: the client's timers and requests go on; the sequencer ends every job,
but need not accept, resend or mine any particular one, a revert's reason arrives or its request
fails, and nobody needs to call
anything again (`UiSync`, `UserWaits` and `Transfer` are not fair). Of `ForcedExit`: a
call goes on, because its requests return or throw (`Throws` need not happen) and its loop ends
after `WAIT_TX_TIMEOUT`; neither the chain nor anybody else has to do anything. Of `ClientPools`:
requests and the worker answer, jobs end, the wait for a job polls; nobody needs to log in,
switch, sync or start anything. Of `RpcManager` and `EphemeralPool`: an asked endpoint answers or
fails, the delay before a retry ends, a scan or listing that has its answer goes on; no
endpoint needs to come back (`EventuallyServed` is about one that stays).

### Left out of the properties, but seen while modelling

- A tree whose repair counters are used up stays corrupt until the next restart: nothing
  calls `standbyState`, which would reset them.
- An own transaction recorded without its commitment (an aggregation, a redeemed gift card) is
  listed twice while it is pending, and so is one that was resent: `MinedOnce` is stated for
  what is mined.
- A rejected record that `getAllHistory` returned before is the same object as in
  `currentHistory`, and changes under a running history sync.
- An exception in the asynchronous executor of `syncHistoryPromise` leaves every later
  `getAllHistory` waiting.
- A commit that is mined and at once executed, cancelled or overtaken is reported as
  reverted (`requestForcedExit` falls through to the case of a failed transaction).
- `forcedExitState` reports an exit that is executed between its reads as not started.
- On Tron `committedForcedExit` throws: there a committed exit cannot be read back.
- A part that is reverted after its hash was seen does not stop the later parts.
- A sync whose state was dropped asks the *new* pool's sequencer and contract from then on
  (`sequencer()`, `getPoolState`); only the account it names is the old one.
- The progress timer that `updateState` starts is not stopped when the sync fails.
- `switchToTheBestRPC` and `switchRPC` enable a backend that `switchToPool` has disabled.
- `EphemeralPool` counts an address as empty that holds less than one unit of the pool.
- The second of two callers that share a loading of the parameters has its expected hash ignored.

## 4. Proofs

Each theorem holds for every value of the constants that the module's assumption admits.
Where one has a hypothesis, it is about the circumstances of section 3: `Untimely = {}` is
the orderly use. The runs check the same properties under the same hypotheses, and each
admitted circumstance breaks those that section 3 names.

`StateSync_proofs` (1698 obligations) is about every size of pool, batches and cold storage:

- `TypeCorrect`: `Spec => []TypeOK`;
- `VerifiedPrefixHolds`: `Spec => []VerifiedPrefix`, with restarts at any time and resets
  between syncs (`ResetWhen # "any"`; a reset during a sync breaks it);
- `ReadySoundHolds`: `Spec => ReadySound`, with restarts and resets at any time;
- `HistoryCompleteHolds`: `Spec => []HistoryComplete`, if neither `RestartWhen` nor
  `ResetWhen` is "any".

`VerifiedPrefix` is not inductive: a bulk of the cold storage is written at or after the
index the sync started from, so that index must not lie below the last verified one
(`StartStable`), and the root that was compared must still be right when the index is marked
(`MarkRight`). The repair counters stay in range because a repair is begun only below the
limit (`AttemptsLeft`). `SyncInv` joins these (`SyncInvariant`); its part `Rightly` claims the
first three only where no reset meets a sync, the rest holds whenever the user resets.
`ReadySound` needs that the batches of a sync cover all it
plans to fetch (`BatchesCover`) up to a target beyond every watched transaction
(`Targeted`): each is in a batch that is still asked for, or was seen and has made the
sync not ready (`Covered`), until no batch is left (`ReadyKnown`). `HistoryComplete` speaks
of the verified part of the tree, which a sync may extend over slots that it did not fetch;
`RightKnown` says that *every* right slot of the tree has its memo, `HotKnown` the same of the
slots a hot sync holds and has not stored yet, and `CutFollows` that the history is cut at
or above the tree's end. Resets during a sync and restarts before the writes are
what those two rule out.

`Transactions_proofs` (1110 obligations) is about every number of parts, sends, attempts,
errors and syncs:

- `TypeCorrect`: `Spec => []TypeOK` under all circumstances; it needs `WaitOK`, that only a
  part that is not the last is waited for;
- `NoConflictHolds`: `Orderly`, none of "ui", "fast", "slow" and "resent", implies
  `Spec => []NoConflict`;
- `TransferImplements`: `Orderly` implies `Spec => SentOneByOne`, the refinement.

The second follows the transfer. At most one part is on its way, the one whose turn it
is, and it is built on the pool's account (`OneAtATime`). Before a part is built nothing
is on its way and the local account is the pool's (`Settled`). That must come from what
the gate was told (`Gate`): by the sync it waits for, which read the sequencer after the
part had a hash and therefore was in the optimistic state (`Hashed`; unless it waits to be
sent again, which is "resent"); or by the result of
the last sync, which is only used within the interval, and no part is made within it
(`Syncing`). The first part needs no gate because nothing was ever sent (`Order`,
`Unsent`). Each of the four circumstances breaks one of these. The third needs
besides that the parts before the one whose turn it is were mined or reverted (`Passed`);
then every action is one of `OneByOne`'s or leaves its variables alone.

`TransactionParts_proofs` (3149 obligations) is about all amounts, fees and numbers of notes
and requests, without any hypothesis:

- `TypeCorrect`: `Spec => []TypeOK`;
- `PlanFoundHolds`: `Spec => []PlanFound`, a request is refused only if no number of
  aggregations makes it possible;
- `PlanExecutesHolds`: `Spec => []PlanExecutes`, a plan can be executed transaction by
  transaction, delivers the requests in their order, and no shorter one can be executed;
- `EstimateAgreesHolds`: `Spec => []EstimateAgrees`;
- `MaxExactNoDustHolds`: `Spec => []MaxExactNoDust`.

Everything is compared through running balances: `Left`, after each aggregation, and `After`,
after each transfer that follows. `RunningIs` gives the equations of the recursive functions
(`Running` is one definition for all of them), `ChunksAre` what the requests are cut into. A
plan with m aggregations executes exactly if none of these balances is negative (`ExecutesIs`),
which is what `Prepared` decides (`Pays`). The search keeps `PartsInv`: it has refused every
smaller number of aggregations. The code never tries to aggregate all groups; `LastGroup` shows
why it need not: the first transfer spends the last group anyway. For
`EstimateAgrees` the partial plan must carry exactly what the code could still pay
(`Delivered`, `AffordedIs`), for `MaxExactNoDust` the most that can be sent is what is left
after the *last* aggregation, if each brings more than its fee (`NoDustLeft`, `MaxIsLast`).

`HistoryStorage_proofs` (3952 obligations) is about all transactions, slots, resends, attempts,
rollbacks and restarts:

- `TypeCorrect`: `Spec => []TypeOK` under all circumstances;
- `MinedShownHolds`: `Untimely \subseteq {"shift"}` implies `Spec => []MinedShown`;
- `MinedOnceHolds`, `OwnListedHolds`: `Untimely = {}` implies `Spec => MinedOnce` and
  `Spec => OwnListed`;
- `MinedStaysHolds`: `Untimely = {}` implies `Spec => MinedStays`: a mined record stays in the
  list as it is as long as its memo stays, through later syncs, monitors, rollbacks and restarts.

A memo stops waiting when its details have come or when a new session takes its record from
the database. `MemoInv` follows both: a running history sync works on what waits now
(`Working`), waiting memos are below the tree's end and pending ones above it
(`PendingAbove`), so that none is answered twice; what waits no more is shown and has its
record in the database (`ShownKept`), and what the saved sync index covers without a record
is marked as failed (`Findable`). `ListInv` adds what the list itself needs: a mined
record is of a memo saved as mined (`ListTrue`), that memo is of its slot's transaction
(`MemosPlaced`) and no transaction has two slots (`Placed`); a pending memo that the next
trimming leaves is of no mined transaction (`PendingApart`, which "shift" breaks); the sent
records of what is mined are gone once its details have come (`Cleared`); and each tracked
transaction is still kept as sent, has failed, or is mined and shown or about to be
(`AllKnown`). The types need that what a record names was sent (`WasSent`) and that
details are merged into what was asked for (`Answered`). `MinedStays` needs that every listed
mined record is the stored one (`MinedStored`) and that its memo is not asked for again.

`ForcedExit_proofs` (1502 obligations) is about every delay and slot length and any number of
calls, versions and others' actions, without any hypothesis:

- `TypeCorrect`, `StateSoundHolds`, `TransactAllowedHolds`, `OutcomeTrueHolds`: `Spec => []TypeOK`,
  `[]StateSound`, `[]TransactAllowed` and `[]OutcomeTrue`.

`ExitInv` says of each value that a call has read when it was true (`ReadsTrue`, `ExitSeen`,
`NoneActive`): `seen` has it already, or one of the changes that the properties admit (an
execution, a later transaction) has happened. It holds because the contract only moves forward
(`Grows`: its log grows, the version grows, a committed exit goes only by execution or, after
its slot, by cancelling) and because the library's nullifiers are never ahead of it (`Behind`).
`Happened` says what a mined transaction has left behind, also when nobody waits for it.

`ClientPools_proofs` (1021 obligations) is about all pools, users, calls and cards:

- `TypeCorrect`: `Spec => []TypeOK` under all circumstances;
- `AccountAttachedHolds`, `NoLeakHolds`, `OneSyncHolds`, `CacheTrueHolds`: `Untimely = {}`
  implies that the property always holds.

None of the four is inductive: they speak of quiet states, and what makes them true is what
a switch keeps while it runs. `LifeInv` says it at every step: the calls take turns
(`OneCall`); a running switch is about the current pool and account, and no dropped sync
knows the account it is about to create (`Underway`); the client holds a state exactly from
`Created` on, in the current pool, and it is not being freed, all others are (`Held`); the
worker's accounts are exactly those, from `Create` on (`Living`); a sync that runs is the
attached state's, and a dropped one has no account (`Syncing`); a card's state that is being
freed is not replaced (`CardHeld`); the mode is the account's unless something runs
(`ModeTold`). One lemma per action, one step per conjunct it can disturb.

`RpcManager_proofs` (736 obligations) is about every number of endpoints, every finite set of
callers and every threshold:

- `TypeCorrect`: `Spec => []TypeOK` under all circumstances;
- `BadEarnedHolds`: `FewCallers` and `Untimely = {}` imply `Spec => BadEarned`;
- `GaveUpSoundHolds`: `FewCallers` and `Untimely = {}` imply `Spec => []GaveUpSound`.

`FewCallers`, fewer callers than issues make the manager leave an endpoint, is a premise about
the use of the library, not something the code keeps (section 3).

An error is charged to an endpoint that has answered everything only if its caller had asked
another (`Strays`). Each such caller fails once and then asks the current one, so that the
issues and the strays together never exceed the callers (`Charged`). A call gives up after
as many switches as there are endpoints; `Ahead` says that each endpoint that was up since
the call began is being asked by it, or is so near in the round robin (`Dist`) that the
switches left to the call reach it, and it is not left again while it answers.

`EphemeralPool_proofs` (308 obligations) is about every number of addresses and endpoints:

- `PoolTypeCorrect`: `PoolSpec => []PoolTypeOK` under all circumstances;
- `FirstUnusedHolds`, `FundsListedHolds`: `Mishaps = {}` implies `PoolSpec => FirstUnused` and
  `PoolSpec => FundsListed`;
- `PoolUsesRpc`: `PoolSpec => Spec`, every behaviour of the pool is one of `RpcManager`, so
  that `PoolGaveUpSound` follows from `GaveUpSoundHolds`, under the same premises.

Addresses are used in order and every index that the pool keeps is at or before the first
unused one (`Behind`); a scan and a listing take turns (`Orderly`).

Induction: the induction theorems of the library take an operator as a parameter and
cannot be cited here. The proofs take the least element of a set of naturals instead
(`NatLeast`, from the well-foundedness of `<`), for the round robin, the greatest slot of a set
and the recursive functions of `TransactionParts` (`Upto`).

Only model-checked: the liveness properties (`SyncEnds`, `Healed`, `EventuallyMined`, `SentCleared`,
`TransferEnds`, `OutcomeTold`, `CallsReturn`, `CallEnds`, `EventuallyServed`, `ScanEnds`), because
fairness and ENABLED are out of reach of the prover. Every safety invariant and every action
property that a run checks is proved, and so are the type invariants of all modules.

## 5. Not modelled

Cryptography and the WebAssembly library (external, modelled from how the code uses it);
pure input and output (`services`, `subgraph`, `networks` apart from what is named in
`map`), formatting, signing, logging and statistics; read-only accessors; the compliance
report; amounts and times in history records. The database is modelled as one atomic
write per call, except for the memos and the mined records, whose write nobody awaits. Fees
and limits with a
life time (`client-provider.ts`) are fetched again when they expire and nothing relates two
of them; deposits are single transactions that wait for nothing; direct deposits, signers,
the configuration and the subgraph client keep no state. The loading of parameters and the
file cache (`params.ts`, `file-cache.ts`) share one promise per file; beyond what is said
above nothing depends on their order.

More than two thirds of the repository's lines are generated or tables: the subgraph client
in `src/src/.graphclient` (its schema alone is 24 000 lines), contract interfaces
(`networks/evm/evm-abi.ts`, `networks/tron/abi`), type declarations. They have no behaviour to
model. Of the `TronNetwork` and `EvmNetwork` classes most methods encode one contract call
each and differ in nothing that the other components can tell apart.

## 6. Plan

1. The components of section 2, their runs, and the proofs of all their safety properties: done.
2. Compositions: an abstract sync that `StateSync` implements and `Transactions` and
   `ClientPools` use instead of their own; `StateSync` with `HistoryStorage` in place of the set
   of memos (`HistoryComplete` and `MinedShown` together: every own transaction of the verified
   tree is shown); `TransactionParts` with `Transactions`, for a plan whose aggregation is reverted.
3. The safety parts of the liveness properties, for every size: that a repair leaves the next one
   fewer attempts (`SyncEnds`), that a call of the endpoint manager switches at most once per
   endpoint (`CallEnds`), that a monitor ends only with an outcome it has told (`OutcomeTold`).
4. Weaker hypotheses where the code deserves them: which of `Untimely` each proof could admit
   (done for `Transactions`).
