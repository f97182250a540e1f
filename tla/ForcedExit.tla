------------------------------- MODULE ForcedExit -------------------------------
(***************************************************************************)
(* The forced exit of an account (src/src/emergency.ts, class              *)
(* ForcedExitProcessor, with its callers in src/src/client.ts and the      *)
(* contract's log in src/src/networks/evm/index.ts).  An exit is committed *)
(* on the pool contract for the account's current nullifier, can be        *)
(* executed in its time slot, which kills the account, and cancelled after *)
(* it.  One call of the library runs at a time; between any two of its     *)
(* requests other devices, the executor and the account's own transactions *)
(* may change the contract, and another sync the local state.              *)
(*                                                                         *)
(* The nullifier of the account is its version, the number of transactions *)
(* mined before.  An exit is known by the start of its slot, 0 is none.    *)
(***************************************************************************)
EXTENDS Integers, Sequences, SequencesExt

CONSTANTS
    MaxVersion, \* bound: own transactions that are mined
    MaxTime,    \* bound: the clock
    MaxCalls,   \* bound: calls of the library
    Delay,      \* ticks between the commit and the start of its slot
    Window      \* ticks of the slot

ASSUME ForcedExitAssumption ==
    /\ MaxVersion \in Nat /\ MaxTime \in Nat /\ MaxCalls \in Nat
    /\ Delay \in Nat \ {0} /\ Window \in Nat

VARIABLES
    clock,
    \* the pool contract
    version, dead, \* is the current nullifier's value the dead signature?
    commits,       \* committedForcedExits
    log,           \* the events of a nullifier: exits, and 0 for a cancelled one
    late,          \* transactions of the library that it does not wait for
    \* the library
    local,         \* the nullifier of the local state
    op, pc, stage, \* the call, its step, and what getActiveForcedExit is for
    nul, anul,     \* the nullifiers read by the call and by getActiveForcedExit
    todo, alive, hashed, exit, \* the reads of getActiveForcedExit
    tx,            \* the transaction it has sent
    told,          \* how the call ended
    calls,
    seen           \* observer: what was true at some moment of the call

contract == <<clock, version, dead, commits, log>>
reads    == <<nul, anul, todo, alive, hashed, exit>>
call     == <<op, pc, stage, told, calls>>
vars     == <<contract, late, local, reads, call, tx, seen>>

Versions == 0 .. MaxVersion
Exits == 1 .. (MaxTime + Delay)
Ops == {"state", "request", "execute", "cancel", "transact"}
States == {"NotStarted", "CommittedWaitingSlot", "CommittedReady", "Completed", "Outdated"}
Results == {"none", "error", "locked", "dead", "allowed", "committed", "executed",
            "cancelled", "reverted", "not found"} \cup States
Tx == [kind : {"request"}, n : Versions, exit : {0}, state : {"pending", "ok", "failed"}]
      \cup [kind : {"execute", "cancel"}, n : Versions, exit : Exits,
            state : {"pending", "ok", "failed"}]
NoTx == [kind |-> "none"]

TypeOK ==
    /\ clock \in 0 .. MaxTime /\ version \in Versions /\ dead \in BOOLEAN
    /\ commits \in [Versions -> Exits \cup {0}]
    /\ log \in [Versions -> Seq(Exits \cup {0})]
    /\ late \subseteq Tx /\ tx \in Tx \cup {NoTx}
    /\ local \in Versions /\ nul \in Versions /\ anul \in Versions
    /\ op \in Ops
    /\ pc \in {"idle", "sync", "resync", "value", "hash", "active", "reads", "decide",
               "create", "send", "poll"}
    /\ stage \in {"state", "act", "lock", "result"}
    /\ todo \subseteq {"dead", "hash"} /\ alive \in BOOLEAN /\ hashed \in BOOLEAN
    /\ exit \in Exits \cup {0}
    /\ told \in Results /\ calls \in 0 .. MaxCalls /\ seen \subseteq States \cup {"Free"}

-----------------------------------------------------------------------------
(* The pool contract *)

Value(n) == IF n < version THEN "used" ELSE IF dead THEN "dead" ELSE "zero"

Phase(e) == IF clock < e THEN "CommittedWaitingSlot"
            ELSE IF clock > e + Window THEN "Outdated" ELSE "CommittedReady"

TrueState ==
    IF dead THEN "Completed"
    ELSE IF commits[version] = 0 THEN "NotStarted" ELSE Phase(commits[version])
Free == commits[version] = 0 \/ commits[version] + Window <= clock
Truth == {TrueState} \cup IF Free /\ ~dead THEN {"Free"} ELSE {}

Init ==
    /\ clock = 0 /\ version = 0 /\ dead = FALSE
    /\ commits = [n \in Versions |-> 0] /\ log = [n \in Versions |-> <<>>]
    /\ late = {} /\ tx = NoTx /\ local = 0 /\ nul = 0 /\ anul = 0
    /\ op = "state" /\ pc = "idle" /\ stage = "state"
    /\ todo = {} /\ alive = TRUE /\ hashed = FALSE /\ exit = 0
    /\ told = "none" /\ calls = 0 /\ seen = {}

\* What a mined transaction does, if the contract accepts it.
Commit(n) ==
    /\ Value(n) = "zero" /\ commits[n] = 0
    /\ commits' = [commits EXCEPT ![n] = clock + Delay]
    /\ log' = [log EXCEPT ![n] = Append(@, clock + Delay)]
    /\ UNCHANGED <<version, dead>>

Execute(n, e) ==
    /\ Value(n) = "zero" /\ e # 0 /\ commits[n] = e /\ Phase(e) = "CommittedReady"
    /\ dead' = TRUE
    /\ commits' \in {commits, [commits EXCEPT ![n] = 0]}
    /\ UNCHANGED <<version, log>>

Cancel(n, e) ==
    /\ Value(n) = "zero" /\ e # 0 /\ commits[n] = e /\ Phase(e) = "Outdated"
    /\ commits' = [commits EXCEPT ![n] = 0] /\ log' = [log EXCEPT ![n] = Append(@, 0)]
    /\ UNCHANGED <<version, dead>>

Transact ==
    /\ ~dead /\ version < MaxVersion /\ version' = version + 1
    /\ UNCHANGED <<dead, commits, log>>

Effect(t) == CASE t.kind = "request" -> Commit(t.n)
               [] t.kind = "execute" -> Execute(t.n, t.exit)
               [] t.kind = "cancel"  -> Cancel(t.n, t.exit)
Accepted(t) ==
    /\ Value(t.n) = "zero"
    /\ CASE t.kind = "request" -> commits[t.n] = 0
         [] t.kind = "execute" -> commits[t.n] = t.exit /\ Phase(t.exit) = "CommittedReady"
         [] t.kind = "cancel"  -> commits[t.n] = t.exit /\ Phase(t.exit) = "Outdated"

Observe == seen' = IF pc = "idle" THEN seen ELSE seen \cup Truth'

\* Other devices, the executor, and the account's transactions.
Others ==
    /\ \/ Commit(version) \/ Execute(version, commits[version]) \/ Cancel(version, commits[version])
       \/ Transact
    /\ UNCHANGED <<clock, late, local, reads, call, tx>>
    /\ Observe

Tick ==
    /\ clock < MaxTime /\ clock' = clock + 1
    /\ UNCHANGED <<version, dead, commits, log, late, local, reads, call, tx>>
    /\ Observe

Mine ==
    /\ tx # NoTx /\ tx.state = "pending"
    /\ IF Accepted(tx) THEN Effect(tx) /\ tx' = [tx EXCEPT !.state = "ok"]
       ELSE tx' = [tx EXCEPT !.state = "failed"] /\ UNCHANGED <<version, dead, commits, log>>
    /\ UNCHANGED <<clock, late, local, reads, call>>
    /\ Observe

MineLate(t) ==
    /\ late' = late \ {t} /\ Accepted(t) /\ Effect(t)
    /\ UNCHANGED <<clock, local, reads, call, tx>>
    /\ Observe

-----------------------------------------------------------------------------
(* The steps of a call *)

Return(result) == pc' = "idle" /\ told' = result /\ UNCHANGED <<op, stage, calls>>
Goto(step) == pc' = step /\ UNCHANGED <<op, stage, told, calls>>
GetActive(for) == pc' = "active" /\ stage' = for /\ UNCHANGED <<op, told, calls>>

Begin(o) ==
    /\ pc = "idle" /\ calls < MaxCalls /\ calls' = calls + 1
    /\ op' = o /\ pc' = "sync" /\ told' = "none"
    /\ tx' = NoTx /\ nul' = 0 /\ anul' = 0 /\ exit' = 0
    /\ seen' = Truth
    /\ UNCHANGED <<contract, late, local, stage, todo, alive, hashed>>

\* updateStateWithFallback: a failed sync leaves the last nullifier as it is.
Sync ==
    /\ \/ pc = "sync" /\ Goto(IF op = "request" THEN "create" ELSE "value")
       \/ pc = "resync" /\ GetActive("lock")
    /\ local' \in {local, version}
    /\ UNCHANGED <<contract, late, reads, tx, seen>>

\* Any other call of updateState.
OtherSync ==
    /\ pc # "idle" /\ local # version /\ local' = version
    /\ UNCHANGED <<contract, late, reads, call, tx, seen>>

\* forcedExitState has found out a state: it is returned, or allows to go on.
Reached(state) ==
    CASE op = "state" -> Return(state)
      [] op = "execute" /\ state = "CommittedReady" -> GetActive("act")
      [] op = "cancel" /\ state = "Outdated" -> GetActive("act")
      [] OTHER -> Return("error")

ReadValue ==
    /\ pc = "value" /\ nul' = local
    /\ IF op = "transact"
       THEN IF Value(local) = "dead" THEN Return("dead") ELSE Goto("resync")
       ELSE CASE Value(local) = "zero" -> Goto("hash")
              [] Value(local) = "dead" -> Reached("Completed")
              [] Value(local) = "used" -> Return("error")
    /\ UNCHANGED <<contract, late, local, anul, todo, alive, hashed, exit, tx, seen>>

ReadHash ==
    /\ pc = "hash"
    /\ IF commits[nul] = 0 THEN Reached("NotStarted") ELSE GetActive("state")
    /\ UNCHANGED <<contract, late, local, reads, tx, seen>>

\* getActiveForcedExit reads the nullifier anew, and isAccountDead once more.
Active ==
    /\ pc = "active" /\ Goto("reads")
    /\ anul' = local /\ todo' = {"dead", "hash"}
    /\ UNCHANGED <<contract, late, local, nul, alive, hashed, exit, tx, seen>>

ReadDead ==
    /\ pc = "reads" /\ "dead" \in todo
    /\ todo' = todo \ {"dead"} /\ alive' = (Value(local) # "dead")
    /\ UNCHANGED <<contract, late, local, nul, anul, hashed, exit, call, tx, seen>>

ReadCommitted ==
    /\ pc = "reads" /\ "hash" \in todo
    /\ todo' = todo \ {"hash"} /\ hashed' = (commits[anul] # 0)
    /\ UNCHANGED <<contract, late, local, nul, anul, alive, exit, call, tx, seen>>

\* Mistake: the first exit in the log is taken, not the last.
FirstOf(n) == IF log[n] = <<>> THEN 0 ELSE Head(log[n])

\* committedForcedExit: the last event decides; executions are not among them.
Committed(n) == IF log[n] = <<>> THEN 0 ELSE Last(log[n])

ReadLog ==
    /\ pc = "reads" /\ todo = {} /\ Goto("decide")
    /\ exit' = IF alive /\ hashed THEN Committed(anul) ELSE 0
    /\ alive' = TRUE /\ hashed' = FALSE
    /\ UNCHANGED <<contract, late, local, nul, anul, todo, tx, seen>>

DecideState ==
    /\ pc = "decide" /\ stage = "state"
    /\ Reached(IF exit = 0 THEN "NotStarted" ELSE Phase(exit))
    /\ UNCHANGED <<contract, late, local, reads, tx, seen>>

Post(kind, n, e) ==
    /\ tx' = [kind |-> kind, n |-> n, exit |-> e, state |-> "pending"]
    /\ Goto("poll")

\* executeActiveForcedExit
Act ==
    /\ pc = "decide" /\ stage = "act"
    /\ IF exit = 0 THEN Return("error") /\ UNCHANGED tx ELSE Post(op, anul, exit)
    /\ UNCHANGED <<contract, late, local, reads, seen>>

\* Mistake: the account is unlocked when the slot begins.
LockedUntilStart == exit # 0 /\ exit > clock

\* assertAccountCanTransact
Locked == exit # 0 /\ exit + Window > clock

AssertCanTransact ==
    /\ pc = "decide" /\ stage = "lock"
    /\ Return(IF Locked THEN "locked" ELSE "allowed")
    /\ UNCHANGED <<contract, late, local, reads, tx, seen>>

\* requestForcedExit: without an active exit the case of a mined transaction falls
\* through to the one of a reverted transaction.
Confirm ==
    /\ pc = "decide" /\ stage = "result"
    /\ Return(IF exit # 0 THEN "committed" ELSE "reverted")
    /\ UNCHANGED <<contract, late, local, reads, tx, seen>>

\* The withdrawal is built on the local account and proved; then it is posted.
Create ==
    /\ pc = "create" /\ nul' = local /\ Goto("send")
    /\ UNCHANGED <<contract, late, local, anul, todo, alive, hashed, exit, tx, seen>>

Send ==
    /\ pc = "send" /\ Post("request", nul, 0)
    /\ UNCHANGED <<contract, late, local, reads, seen>>

\* Mistake: a mined transaction is taken for a successful one.
PollIgnoresFailure ==
    /\ pc = "poll" /\ tx.state # "pending"
    /\ IF op = "request" THEN GetActive("result")
       ELSE Return(IF op = "execute" THEN "executed" ELSE "cancelled")
    /\ UNCHANGED <<contract, late, local, reads, tx, seen>>

Poll ==
    /\ pc = "poll" /\ tx.state # "pending"
    /\ \/ tx.state = "failed" /\ Return("reverted")
       \/ tx.state = "ok" /\ op = "request" /\ GetActive("result")
       \/ tx.state = "ok" /\ op = "execute" /\ Return("executed")
       \/ tx.state = "ok" /\ op = "cancel" /\ Return("cancelled")
    /\ UNCHANGED <<contract, late, local, reads, tx, seen>>

\* Mistake: the loop ends only with the transaction.
TimeoutWhenMined ==
    /\ pc = "poll" /\ tx.state # "pending" /\ Return("not found")
    /\ UNCHANGED <<contract, late, local, reads, tx, seen>>

\* WAIT_TX_TIMEOUT: the transaction may be mined later, or it could not be looked up.
Timeout ==
    /\ pc = "poll" /\ Return("not found")
    /\ late' = IF tx.state = "pending" THEN late \cup {tx} ELSE late
    /\ tx' = NoTx
    /\ UNCHANGED <<contract, local, reads, seen>>

\* A read, the proof, the preparation of a transaction or the application's callback
\* throws, and so does the call; what was sent before may still be mined.
Throws ==
    /\ pc \notin {"idle", "sync", "resync"} /\ Return("error")
    /\ late' = IF tx # NoTx /\ tx.state = "pending" THEN late \cup {tx} ELSE late
    /\ tx' = NoTx
    /\ UNCHANGED <<contract, local, reads, seen>>

-----------------------------------------------------------------------------
Step ==
    \/ Sync \/ ReadValue \/ ReadHash \/ Active \/ ReadDead \/ ReadCommitted \/ ReadLog
    \/ DecideState \/ Act \/ AssertCanTransact \/ Confirm \/ Create \/ Send
    \/ Poll \/ Timeout

Next ==
    \/ Others \/ Tick \/ Mine \/ \E t \in late : MineLate(t)
    \/ \E o \in Ops : Begin(o)
    \/ OtherSync \/ Step \/ Throws

Spec == Init /\ [][Next]_vars

\* The steps of a call are taken; nothing makes one of them throw.
FairSpec == Spec /\ WF_vars(Step)

-----------------------------------------------------------------------------
(* Properties *)

\* The state that forcedExitState puts together from several reads was the
\* account's at some moment of the call, unless the exit was executed or the
\* nullifier used meanwhile.
StateSound ==
    pc = "idle" /\ told \in States =>
        told \in seen \/ "Completed" \in seen \/ nul < version

\* assertAccountCanTransact lets a transaction pass only if the account was not
\* locked at some moment of the check, unless the exit was executed meanwhile or
\* the local state is behind (the pool takes no transaction of a used nullifier).
TransactAllowed ==
    pc = "idle" /\ told = "allowed" =>
        "Free" \in seen \/ "Completed" \in seen \/ anul < version

\* What a request, an execution or a cancellation reports has happened: success
\* only for a transaction that took effect; "reverted" only for one that failed, or
\* for a commit that was executed, cancelled or overtaken by a transaction since.
OutcomeTrue ==
    pc = "idle" =>
        /\ told = "executed" => dead
        /\ told = "cancelled" => \E i \in 2 .. Len(log[tx.n]) :
               log[tx.n][i] = 0 /\ log[tx.n][i - 1] = tx.exit
        /\ told = "committed" => exit \in ToSet(log[anul]) /\ (anul = tx.n \/ version > tx.n)
        /\ (told = "reverted" /\ tx.state = "ok") =>
               op = "request" /\ (dead \/ version > tx.n \/ 0 \in ToSet(log[tx.n]))

\* Every call ends, whatever becomes of its transaction.
CallEnds == pc # "idle" ~> pc = "idle"
=============================================================================
