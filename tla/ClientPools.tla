------------------------------- MODULE ClientPools -------------------------------
(***************************************************************************)
(* The life of a client (src/src/client.ts, class ZkBobClient: login,      *)
(* logout, switchToPool, the states of the account and of gift cards,      *)
(* updateState, getAllHistory and the job monitors a switch waits for;     *)
(* src/src/client-provider.ts: the current pool and what is cached under   *)
(* it; src/src/worker.ts: the accounts of the worker).                     *)
(*                                                                         *)
(* Nothing is locked: logout and switchToPool start to free a state and go *)
(* on, values are cached for whatever pool is current when they arrive,    *)
(* and a state that is dropped may still be syncing.                       *)
(***************************************************************************)
EXTENDS Integers, FiniteSets

CONSTANTS
    Pools, Users,
    First,      \* the pool that the client is created with
    NoUser, Nowhere,
    Calls,      \* calls of login and switchToPool that may be running
    Cards,      \* calls of giftCardBalance or redeemGiftCard that may be running
    CardPool,   \* the gift card's pool
    Untimely    \* circumstances admitted beyond the orderly use:
                \* "overlap":  login, logout, switchToPool and gift card calls overlap
                \* "again":    a user returns to a pool while a dropped state syncs,
                \*             or a call of updateState may still come to it
                \* "late":     a state is dropped when its sync needs it no more
                \* "fail":     a sync fails
                \* "detached": a sync is asked for when no state is attached
                \* "history":  a listing of the history outlives its account
                \* "twice":    calls for one gift card overlap
                \* "read":     the pool's parameters are read during a switch
                \* "unknown":  a switch to a pool that is not configured
                \* "denom":    the pool's denominator cannot be read
                \* "poolid":   the pool's id cannot be read
                \* "monitor":  a job cannot be asked for
                \* "wait":     a wait for a job has not noticed its end when the
                \*             jobs are forgotten

ASSUME ClientAssumption ==
    /\ First \in Pools /\ CardPool \in Pools /\ Nowhere \notin Pools
    /\ NoUser \notin Users \cup Cards
    /\ "card" \notin Users \cup Pools \cup {NoUser}
    /\ Untimely \subseteq {"overlap", "again", "late", "fail", "detached", "history", "twice",
                           "read", "unknown", "denom", "poolid", "monitor", "wait"}

VARIABLES
    account, curPool, mode,
    zpStates,  \* the worker account of the state that a pool has
    freeing,   \* pools whose state's free() has not returned, and "card"
    accounts,  \* zpAccounts of the worker that are not freed
    cached,    \* whose parameters a pool's cache holds
    \* login and switchToPool: the new pool, and the account of its new state
    pc, target, fetched,
    \* updateState: is there a call that has no state yet? The syncs of the states
    \* that pools have, and of states that were dropped
    begun, syncing, dropped,
    listing,   \* does getAllHistory read the history?
    \* the gift card: its calls, its state (the call that created it), the state
    \* that a call syncs
    card, cardState, cardUses,
    \* a job: its monitor, its entry in monitoredJobs, and a wait for it
    monitor, info, waiting,
    reading    \* the pool whose parameters another call reads

client == <<account, curPool, mode>>
states == <<zpStates, freeing, accounts>>
switch == <<pc, target, fetched>>
syncs == <<begun, syncing, dropped, listing>>
gift == <<card, cardState, cardUses>>
jobs == <<monitor, info, waiting>>
vars == <<client, states, cached, switch, syncs, gift, jobs, reading>>

NoState == <<Nowhere, NoUser>>
CardAccount == <<CardPool, "card">>
Account == (Pools \cup {Nowhere}) \X (Users \cup {NoUser})

TypeOK ==
    /\ account \in Users \cup {NoUser} /\ curPool \in Pools
    /\ mode \in {"accountless", "switching", "attaching", "full", "updating", "history"}
    /\ zpStates \in [Pools -> Account] /\ freeing \subseteq Pools \cup {"card"}
    /\ accounts \subseteq Account \cup {CardAccount}
    /\ cached \in [Pools -> Pools \cup {Nowhere}]
    /\ pc \in [Calls -> {"idle", "fetch", "hit", "monitors", "create", "prover"}]
    /\ target \in [Calls -> Pools] /\ fetched \in [Calls -> Account]
    /\ begun \in BOOLEAN /\ syncing \subseteq Pools /\ dropped \subseteq Account
    /\ listing \in BOOLEAN
    /\ card \in [Cards -> {"idle", "create", "sync", "prove"}]
    /\ cardState \in Cards \cup {NoUser} /\ cardUses \in [Cards -> Cards \cup {NoUser}]
    /\ monitor \in BOOLEAN /\ info \in BOOLEAN /\ waiting \in BOOLEAN
    /\ reading \in Pools \cup {Nowhere}

Init ==
    /\ account = NoUser /\ curPool = First /\ mode = "accountless"
    /\ zpStates = [p \in Pools |-> NoState] /\ freeing = {} /\ accounts = {}
    /\ cached = [p \in Pools |-> Nowhere]
    /\ pc = [c \in Calls |-> "idle"] /\ target = [c \in Calls |-> First]
    /\ fetched = [c \in Calls |-> NoState]
    /\ begun = FALSE /\ syncing = {} /\ dropped = {} /\ listing = FALSE
    /\ card = [g \in Cards |-> "idle"] /\ cardState = NoUser
    /\ cardUses = [g \in Cards |-> NoUser]
    /\ monitor = FALSE /\ info = FALSE /\ waiting = FALSE /\ reading = Nowhere

Busy == \E c \in Calls : pc[c] # "idle"
CardBusy == \E g \in Cards : card[g] # "idle"
Attachment == account # NoUser /\ zpStates[curPool] = <<curPool, account>> /\ ~Busy

\* A request may fail, or its answer be missed, only where that is admitted.
Outcomes(circumstance) == IF circumstance \in Untimely THEN BOOLEAN ELSE {TRUE}

\* The orderly use of login, logout and switchToPool
Orderly ==
    /\ (~Busy /\ ~CardBusy) \/ "overlap" \in Untimely
    /\ ~listing \/ "history" \in Untimely
    /\ reading = Nowhere \/ "read" \in Untimely

-----------------------------------------------------------------------------
(* Dropping states *)

\* Mistake: the state is forgotten, and its account not freed.
ReleaseKeeping(ps) ==
    LET held == {p \in ps : zpStates[p] # NoState} IN
    /\ freeing' = freeing \cup held
    /\ syncing' = syncing \ held
    /\ dropped' = dropped \cup {zpStates[p] : p \in held \cap syncing}
    /\ UNCHANGED accounts

\* freePoolState of each of ps, which nobody waits for: the worker will have freed
\* the accounts before it looks at any later call.
Release(ps) ==
    LET held == {p \in ps : zpStates[p] # NoState} IN
    /\ freeing' = freeing \cup held
    /\ accounts' = accounts \ {zpStates[p] : p \in held}
    /\ syncing' = syncing \ held
    /\ dropped' = dropped \cup {zpStates[p] : p \in held \cap syncing}

\* free() has returned: whatever state the pool has now is forgotten.
Freed(p) ==
    /\ p \in freeing /\ freeing' = freeing \ {p}
    /\ zpStates' = [zpStates EXCEPT ![p] = NoState]
    /\ dropped' = dropped \cup (IF p \in syncing THEN {zpStates[p]} ELSE {})
    /\ syncing' = syncing \ {p}
    /\ UNCHANGED <<client, accounts, cached, switch, begun, listing, gift, jobs, reading>>

CardFreed ==
    /\ "card" \in freeing /\ freeing' = freeing \ {"card"} /\ cardState' = NoUser
    /\ UNCHANGED <<client, zpStates, accounts, cached, switch, syncs, card, cardUses, jobs, reading>>

-----------------------------------------------------------------------------
(* login and switchToPool *)

\* Until its first await a switch has dropped the old state and moved to the pool.
Begin(c, p) ==
    /\ pc[c] = "idle" /\ Orderly
    /\ mode' = IF account' # NoUser THEN "attaching" ELSE "switching"
    /\ Release({curPool})
    /\ \/ <<p, account'>> \notin dropped' \cup (IF begun THEN {zpStates[p]} ELSE {})
       \/ "again" \in Untimely
    /\ \E known \in Outcomes("unknown") :
        IF known
        THEN /\ curPool' = p /\ target' = [target EXCEPT ![c] = p]
             /\ pc' = [pc EXCEPT ![c] = IF cached[p] = Nowhere THEN "fetch" ELSE "hit"]
        ELSE UNCHANGED <<curPool, target, pc>>
    /\ UNCHANGED <<zpStates, cached, fetched, begun, listing, gift, jobs, reading>>

Login(c, u, p) == account = NoUser /\ account' = u /\ Begin(c, p)
SwitchPool(c, p) == account' = account /\ Begin(c, p)

\* Mistake: the values are kept for the pool that the client was created with.
StoreFirst(p) == cached' = [cached EXCEPT ![First] = p]

\* Values of p have arrived: they are kept for the pool that is current by now.
Store(p) == cached' = [cached EXCEPT ![curPool] = p]

\* The denominator, the pool's id and the address prefix are there; with an
\* account the jobs are forgotten and their monitors waited for.
Fetched(c) ==
    /\ pc[c] \in {"fetch", "hit"}
    /\ \E read \in Outcomes("denom"), id \in Outcomes("poolid") :
        /\ pc[c] = "hit" => read /\ id
        /\ IF pc[c] = "fetch" /\ read /\ id THEN Store(target[c]) ELSE UNCHANGED cached
        /\ fetched' = [fetched EXCEPT ![c] = <<IF id THEN curPool ELSE Nowhere, NoUser>>]
        /\ IF ~read THEN pc' = [pc EXCEPT ![c] = "idle"] /\ UNCHANGED <<mode, info>>
           ELSE IF account = NoUser
           THEN pc' = [pc EXCEPT ![c] = "idle"] /\ mode' = "accountless" /\ UNCHANGED info
           ELSE /\ (waiting /\ ~monitor => "wait" \in Untimely)
                /\ pc' = [pc EXCEPT ![c] = "monitors"] /\ info' = FALSE /\ UNCHANGED mode
    /\ UNCHANGED <<account, curPool, states, target, syncs, gift, monitor, waiting, reading>>

\* No monitor runs: the worker is asked for an account (without a user: TypeError).
Create(c) ==
    /\ pc[c] = "monitors" /\ ~monitor
    /\ IF account = NoUser
       THEN pc' = [pc EXCEPT ![c] = "idle"] /\ UNCHANGED <<accounts, fetched>>
       ELSE LET id == <<fetched[c][1], account>> IN
            /\ pc' = [pc EXCEPT ![c] = "create"]
            /\ fetched' = [fetched EXCEPT ![c] = id] /\ accounts' = accounts \cup {id}
    /\ UNCHANGED <<client, zpStates, freeing, cached, target, syncs, gift, jobs, reading>>

\* Mistake: the new state may be there before free() of the old one has returned.
CreatedEarly(c) ==
    /\ pc[c] = "create"
    /\ pc' = [pc EXCEPT ![c] = "prover"]
    /\ zpStates' = [zpStates EXCEPT ![target[c]] = fetched[c]]
    /\ UNCHANGED <<client, freeing, accounts, cached, target, fetched, syncs, gift, jobs, reading>>

\* The worker answers in order: free() of the pool's old state has returned.
Created(c) ==
    /\ pc[c] = "create" /\ target[c] \notin freeing
    /\ pc' = [pc EXCEPT ![c] = "prover"]
    /\ zpStates' = [zpStates EXCEPT ![target[c]] = fetched[c]]
    /\ UNCHANGED <<client, freeing, accounts, cached, target, fetched, syncs, gift, jobs, reading>>

\* setProverMode has returned, or thrown, which is ignored.
Attached(c) ==
    /\ pc[c] = "prover" /\ pc' = [pc EXCEPT ![c] = "idle"]
    /\ mode' = IF account # NoUser THEN "full" ELSE "accountless"
    /\ UNCHANGED <<account, curPool, states, cached, target, fetched, syncs, gift, jobs, reading>>

Logout ==
    /\ account # NoUser /\ Orderly
    /\ account' = NoUser /\ mode' = "accountless"
    /\ LET held == {p \in Pools : zpStates[p] # NoState}
           freed == {zpStates[p] : p \in held}
                    \cup (IF cardState # NoUser THEN {CardAccount} ELSE {}) IN
        /\ freeing' = freeing \cup held \cup (IF cardState # NoUser THEN {"card"} ELSE {})
        /\ accounts' = accounts \ freed
        /\ syncing' = syncing \ held
        /\ dropped' = dropped \cup {zpStates[p] : p \in held \cap syncing}
    /\ UNCHANGED <<curPool, zpStates, cached, switch, begun, listing, gift, jobs, reading>>

-----------------------------------------------------------------------------
(* updateState and getAllHistory *)

\* It first reads the average times, which it awaits.
UpdateState ==
    /\ (Attachment \/ "detached" \in Untimely) /\ mode' = "updating"
    /\ ~begun /\ begun' = TRUE
    /\ UNCHANGED <<account, curPool, states, cached, switch, syncing, dropped, listing, gift,
                   jobs, reading>>

\* this.zpState(): without a state it throws, and the mode stays.  The state, which
\* may be one that is being freed, is kept while the cold storage's configuration is
\* read: the call counts as a sync of it from here on.  A sync that runs is joined.
SyncBegins ==
    /\ begun /\ begun' = FALSE
    /\ LET found == {curPool} \cap {p \in Pools : zpStates[p] # NoState} IN
       /\ syncing' = syncing \cup (found \ freeing)
       /\ dropped' = dropped \cup {zpStates[p] : p \in found \cap freeing}
    /\ UNCHANGED <<client, states, cached, switch, listing, gift, jobs, reading>>

\* this.zpState() after the sync throws without a state; otherwise: FullMode
FullModeIf(completes) ==
    mode' = IF completes /\ zpStates[curPool] # NoState THEN "full" ELSE mode

SyncEnds(p) ==
    /\ p \in syncing /\ syncing' = syncing \ {p}
    /\ \E ok \in Outcomes("fail") : FullModeIf(ok /\ zpStates[p] \in accounts)
    /\ UNCHANGED <<account, curPool, states, cached, switch, begun, dropped, listing, gift, jobs,
                   reading>>

\* The worker throws: the account was freed. Not if the user has come back, or the
\* sync is past its last call of the worker.
DroppedSyncEnds(s) ==
    /\ s \in dropped /\ dropped' = dropped \ {s}
    /\ \E missed \in Outcomes("late") : FullModeIf(s \in accounts \/ ~missed)
    /\ UNCHANGED <<account, curPool, states, cached, switch, begun, syncing, listing, gift, jobs,
                   reading>>

ListHistory ==
    /\ Attachment /\ ~listing /\ listing' = TRUE /\ mode' = "history"
    /\ UNCHANGED <<account, curPool, states, cached, switch, begun, syncing, dropped, gift, jobs,
                   reading>>

HistoryListed ==
    /\ listing /\ listing' = FALSE /\ mode' = "full"
    /\ UNCHANGED <<account, curPool, states, cached, switch, begun, syncing, dropped, gift, jobs,
                   reading>>

-----------------------------------------------------------------------------
(* giftCardBalance and redeemGiftCard *)

StartCard(g) ==
    /\ card[g] = "idle" /\ curPool = CardPool
    /\ ~Busy \/ "overlap" \in Untimely
    /\ ~CardBusy \/ "twice" \in Untimely
    /\ card' = [card EXCEPT ![g] = IF cardState = NoUser THEN "create" ELSE "sync"]
    /\ cardUses' = [cardUses EXCEPT ![g] = cardState]
    /\ UNCHANGED <<client, states, cached, switch, syncs, cardState, jobs, reading>>

CardCreated(g) ==
    /\ card[g] = "create" /\ card' = [card EXCEPT ![g] = "sync"]
    /\ cardState' = g /\ cardUses' = [cardUses EXCEPT ![g] = g]
    /\ accounts' = accounts \cup {CardAccount}
    /\ UNCHANGED <<client, zpStates, freeing, cached, switch, syncs, jobs, reading>>

\* The balance is returned; to redeem the card, the transaction is proved.
CardSynced(g) ==
    /\ card[g] = "sync"
    /\ \/ card' = [card EXCEPT ![g] = "idle"]
       \/ /\ CardAccount \in accounts /\ account # NoUser
          /\ card' = [card EXCEPT ![g] = "prove"]
    /\ cardUses' = [cardUses EXCEPT ![g] = NoUser]
    /\ UNCHANGED <<client, states, cached, switch, syncs, cardState, jobs, reading>>

\* Mistake: a redeemed card is forgotten, and its account not freed.
RedeemedKeeping(g) ==
    /\ card[g] = "prove" /\ ~monitor /\ ~waiting /\ card' = [card EXCEPT ![g] = "idle"]
    /\ monitor' = TRUE /\ info' = FALSE /\ cardState' = NoUser
    /\ UNCHANGED <<client, states, cached, switch, syncs, cardUses, waiting, reading>>

\* The job is monitored, and the card's state forgotten, unless no state of the
\* user is there to keep the record, or the card's is gone: both throw.
Redeemed(g) ==
    /\ card[g] = "prove" /\ ~monitor /\ ~waiting /\ card' = [card EXCEPT ![g] = "idle"]
    /\ monitor' = TRUE /\ info' = FALSE
    /\ IF zpStates[curPool] # NoState /\ cardState # NoUser
       THEN accounts' = accounts \ {CardAccount} /\ cardState' = NoUser
       ELSE UNCHANGED <<accounts, cardState>>
    /\ UNCHANGED <<client, zpStates, freeing, cached, switch, syncs, cardUses, waiting, reading>>

-----------------------------------------------------------------------------
(* Jobs, one at a time: transactions, their monitors and waits for them *)

StartJob ==
    /\ Attachment /\ ~monitor /\ ~waiting /\ monitor' = TRUE /\ info' = FALSE
    /\ UNCHANGED <<client, states, cached, switch, syncs, gift, waiting, reading>>

\* waitJobTxHash starts a monitor if none runs.
StartWait ==
    /\ Attachment /\ ~waiting /\ (monitor \/ info) /\ waiting' = TRUE /\ monitor' = TRUE
    /\ UNCHANGED <<client, states, cached, switch, syncs, gift, info, reading>>

\* Mistake: the terminal state of a job is not kept in monitoredJobs.
JobEndsUnrecorded ==
    /\ monitor /\ monitor' = FALSE
    /\ UNCHANGED <<client, states, cached, switch, syncs, gift, info, waiting, reading>>

\* A terminal state, or no answer: the monitor throws, and a switch that waits for it.
JobEnds ==
    /\ monitor /\ monitor' = FALSE
    /\ \E answered \in Outcomes("monitor") :
        /\ info' = (info \/ answered)
        /\ pc' = [c \in Calls |-> IF pc[c] = "monitors" /\ ~answered THEN "idle" ELSE pc[c]]
    /\ UNCHANGED <<client, states, cached, target, fetched, syncs, gift, waiting, reading>>

WaitPolls ==
    /\ waiting /\ info /\ waiting' = FALSE
    /\ UNCHANGED <<client, states, cached, switch, syncs, gift, monitor, info, reading>>

-----------------------------------------------------------------------------
(* Other calls that need the pool's parameters, such as fees *)

StartRead ==
    /\ reading = Nowhere /\ cached[curPool] = Nowhere
    /\ ~Busy \/ "read" \in Untimely
    /\ reading' = curPool
    /\ UNCHANGED <<client, states, cached, switch, syncs, gift, jobs>>

ReadDone ==
    /\ reading # Nowhere /\ Store(reading) /\ reading' = Nowhere
    /\ UNCHANGED <<client, states, switch, syncs, gift, jobs>>

-----------------------------------------------------------------------------
CallStep(c) == Fetched(c) \/ Create(c) \/ Created(c) \/ Attached(c)
CardStep(g) == CardCreated(g) \/ CardSynced(g) \/ Redeemed(g)

Next ==
    \/ \E c \in Calls, p \in Pools : SwitchPool(c, p) \/ \E u \in Users : Login(c, u, p)
    \/ \E c \in Calls : Fetched(c) \/ Create(c) \/ Created(c) \/ Attached(c)
    \/ Logout \/ (\E p \in Pools : Freed(p)) \/ CardFreed
    \/ UpdateState \/ SyncBegins
    \/ (\E p \in Pools : SyncEnds(p)) \/ (\E s \in dropped : DroppedSyncEnds(s))
    \/ ListHistory \/ HistoryListed
    \/ \E g \in Cards : StartCard(g) \/ CardCreated(g) \/ CardSynced(g) \/ Redeemed(g)
    \/ StartJob \/ StartWait \/ JobEnds \/ WaitPolls
    \/ StartRead \/ ReadDone

\* Requests and the worker's answers arrive, jobs reach a terminal state, and the
\* wait for a job polls.
Fairness ==
    /\ \A c \in Calls : WF_vars(CallStep(c))
    /\ \A p \in Pools : WF_vars(Freed(p))
    /\ WF_vars(CardFreed) /\ WF_vars(HistoryListed)
    /\ \A g \in Cards : WF_vars(CardStep(g))
    /\ WF_vars(JobEnds) /\ WF_vars(WaitPolls) /\ WF_vars(ReadDone)

Spec == Init /\ [][Next]_vars
FairSpec == Spec /\ Fairness

-----------------------------------------------------------------------------
(* Properties *)

Quiet == ~Busy /\ ~CardBusy /\ freeing = {}

\* Between the calls of a client that syncs no more, nor is about to, the mode
\* tells whether there is an account, and the account has its state in the current
\* pool: what getAllHistory, a transfer and every balance take from zpState().
AccountAttached ==
    Quiet /\ ~begun /\ syncing = {} /\ dropped = {} /\ ~listing =>
        IF account = NoUser THEN mode = "accountless"
        ELSE mode = "full" /\ zpStates[curPool] = <<curPool, account>>

\* The accounts that live in the worker are those of the states the client has, a
\* user's in the current pool only, and the gift card's: "remove currently activated
\* state if exist [to reduce memory consumption]".
NoLeak ==
    Quiet =>
        /\ \A p \in Pools : p # curPool => zpStates[p] = NoState
        /\ accounts = ({zpStates[p] : p \in Pools} \ {NoState})
                      \cup (IF cardState = NoUser THEN {} ELSE {CardAccount})

\* The syncs that run write to accounts of different states: a sync whose state was
\* dropped has none left, and calls for one gift card sync one state.
OneSyncPerAccount ==
    /\ dropped \cap accounts = {}
    /\ \A g, h \in Cards : card[g] = "sync" /\ card[h] = "sync" => cardUses[g] = cardUses[h]

\* A pool's cache never holds the parameters of another pool.
CacheTrue == \A p \in Pools : cached[p] \in {p, Nowhere}

\* A switch ends, though it waits for every monitor, and so does the wait for a job.
CallsReturn ==
    /\ \A c \in Calls : pc[c] # "idle" ~> pc[c] = "idle"
    /\ waiting ~> ~waiting
=============================================================================
