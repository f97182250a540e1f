-------------------------- MODULE Transactions_proofs --------------------------
(***************************************************************************)
(* Proofs about Transactions, for every number of parts, of sendings and of*)
(* attempts: the types, and that in orderly use no two transactions on     *)
(* their way spend the same account.                                       *)
(*                                                                         *)
(* NoConflict is far from inductive.  The invariant follows the transfer:  *)
(* at most one part is on its way, the one whose turn it is (OneAtATime);  *)
(* before a part is built nothing is on its way and the local account is   *)
(* the pool's (Settled); and what the gate is told (by the sync it waits   *)
(* for, or by the result of the last one) was found out after that part    *)
(* had joined the optimistic state, and while it was not waiting to be sent*)
(* again (Hashed, Gate).                                                   *)
(***************************************************************************)
EXTENDS Transactions, TLAPS

\* The circumstances under which the gate can be told too early; how the monitors
\* fare does not matter to it.
Orderly == \A how \in {"ui", "fast", "slow", "resent"} : how \notin Untimely

NothingActive == \A k \in P : ~Active(k)

\* The part whose turn it is: the gate stands behind the part it waits for, and so
\* does a transfer that ends there.
Turn ==
    IF pc \in {"gate", "pause"} \/ (pc = "failed" /\ job[part] = "none") THEN part - 1 ELSE part

\* Parts are sent in order, one after the other.
OneAtATime ==
    \A k \in P : /\ k > Turn => job[k] = "none"
                 /\ Active(k) => k = Turn /\ base[k] = version

\* The part that is being made has not been sent.
Unsent == pc \in {"idle", "sync", "create", "prove"} => job[part] = "none"

\* A transfer starts with its first part, on the first account, and waits for
\* every part but the last.
WaitOK == pc = "wait" => part < Parts
Order ==
    /\ pc \in {"idle", "sync"} => part = 1 /\ account = 0 /\ seen.version = 0
    /\ (\A k \in P : job[k] = "none") => version = 0
    /\ pc \in {"gate", "pause"} => part > 1
    /\ pc \in {"create", "prove", "keep", "wait"} => tries = 0

\* A part that has a hash has been sent.
Hashed ==
    /\ \A k \in P : job[k] \in {"sent", "reverted", "completed"} => sends[k] > 0
    /\ \A k \in P : info[k] \in {"sent", "completed"} => sends[k] > 0
    /\ pc \in {"gate", "pause"} => sends[part - 1] > 0

\* A part is built on the pool's account when nothing is on its way.
Settled ==
    /\ pc \in {"create", "prove"} => NothingActive /\ account = version
    /\ pc = "prove" => base[part] = version

\* Who waits for a sync, and when one runs at all.
Syncing ==
    /\ joined => pc \in {"sync", "gate"} /\ sync # "idle"
    /\ sync # "idle" => joined \/ pc \in {"idle", "done", "failed"}
    /\ pc \in {"keep", "wait"} => ~fresh

\* What the gate learns is true when it learns it.
Gate ==
    /\ pc = "gate" /\ sync = "seen" /\ seen.ready => NothingActive /\ seen.version = version
    /\ pc \in {"gate", "pause"} /\ fresh /\ result => NothingActive /\ account = version
    /\ pc = "gate" /\ tries = MaxAttempts =>
            NothingActive /\ ~fresh /\ (sync = "seen" => seen.ready)

Course == OneAtATime /\ Unsent /\ Order /\ Hashed /\ Settled /\ Syncing /\ Gate

TxInv == TypeOK /\ WaitOK /\ Course

USE TransactionsAssumption

-----------------------------------------------------------------------------
(* Types *)

\* A step of a monitor, or of a user who starts one.
Monitoring == \E k \in P : Poll(k) \/ ReasonArrives(k) \/ PollFails(k) \/ UserWaits(k)

\* The monitors only learn.
LEMMA MonitorFrame ==
  ASSUME NEW k \in P, Poll(k) \/ ReasonArrives(k) \/ PollFails(k) \/ UserWaits(k)
  PROVE  /\ UNCHANGED <<sequencer, state, transfer, syncs>>
         /\ \/ info' = info
            \/ info' = [info EXCEPT ![k] = job[k]]
            \/ info' = [info EXCEPT ![k] = "unnamed"]
<1>1. CASE Poll(k)
  BY <1>1 DEF Poll, PollWaiting, PollFailed, PollSent, PollUnnamed, PollCompleted, PollReverted, Answer
<1>2. CASE ReasonArrives(k) \/ PollFails(k) \/ UserWaits(k)
  BY <1>2 DEF ReasonArrives, PollFails, UserWaits
<1> QED BY <1>1, <1>2

LEMMA InitType == Init => TypeOK
<1> SUFFICES ASSUME Init PROVE TypeOK
  OBVIOUS
<1> USE DEF Init, P
<1>1. JobsOK
  BY DEF JobsOK, JobState
<1>2. StateOK
  BY DEF StateOK
<1>3. TransferOK
  BY DEF TransferOK
<1>4. MonitorsOK
  BY DEF MonitorsOK, JobState
<1>5. FlagsOK
  BY DEF FlagsOK
<1> QED BY <1>1, <1>2, <1>3, <1>4, <1>5 DEF TypeOK

\* Jobs only move between the sequencer's states.
LEMMA JobsType == TypeOK /\ Next => JobsOK'
<1> SUFFICES ASSUME TypeOK, Next PROVE JobsOK'
  OBVIOUS
<1>1. ASSUME NEW k \in P, Accept(k) PROVE JobsOK'
  BY <1>1 DEF TypeOK, Accept, JobsOK, JobState, Move, state, transfer, monitors
<1>2. ASSUME NEW k \in P, Reject(k) PROVE JobsOK'
  BY <1>2 DEF TypeOK, Reject, JobsOK, JobState, Move, state, transfer, monitors
<1>3. ASSUME NEW k \in P, Resend(k) PROVE JobsOK'
  BY <1>3 DEF TypeOK, Resend, JobsOK, JobState, Move, state, transfer, monitors
<1>4. ASSUME NEW k \in P, Revert(k) PROVE JobsOK'
  BY <1>4 DEF TypeOK, Revert, JobsOK, JobState, Move, state, transfer, monitors
<1>5. ASSUME NEW k \in P, Complete(k) PROVE JobsOK'
  BY <1>5 DEF TypeOK, Complete, JobsOK, JobState, Move, state, transfer, monitors
<1>6. CASE UiSync
  BY <1>6 DEF TypeOK, UiSync, JobsOK, JobState, sequencer, transfer, monitors
<1>7. CASE Send
  BY <1>7 DEF TypeOK, Send, JobsOK, JobState, Move, state
<1>8. CASE UNCHANGED <<job, sends, version, syncs>>
  BY <1>8 DEF TypeOK, JobsOK, JobState
<1>9. CASE Monitoring
  BY <1>9, <1>8, MonitorFrame DEF Monitoring, sequencer, state, transfer
<1> QED
  BY <1>1, <1>2, <1>3, <1>4, <1>5, <1>6, <1>7, <1>8, <1>9
  DEF Next, Monitoring, SyncReads, SyncEnds, SyncFails, FreshExpires, Sync, Pause, Transfer, Create, Abort, Keep, Wait, sequencer, state, transfer, monitors

\* The local state follows what a sync has seen.
LEMMA StateType == TypeOK /\ Next => StateOK'
<1> SUFFICES ASSUME TypeOK, Next PROVE StateOK'
  OBVIOUS
<1>1. CASE UiSync
  BY <1>1 DEF TypeOK, UiSync, StateOK, StartSync, sequencer, transfer, monitors
<1>2. CASE SyncReads
  BY <1>2 DEF TypeOK, SyncReads, StateOK, sequencer, transfer, monitors
<1>3. CASE SyncEnds
  <2>1. seen.version \in Nat
    BY DEF TypeOK, FlagsOK
  <2> QED BY <1>3, <2>1 DEF SyncEnds, StateOK
<1>4. CASE Sync
  BY <1>4 DEF TypeOK, Sync, StateOK, StartSync, Continue, sequencer, monitors
<1>5. CASE SyncFails
  BY <1>5 DEF TypeOK, SyncFails, StateOK
<1>6. CASE UNCHANGED <<account, sync>>
  BY <1>6 DEF TypeOK, StateOK
<1>7. CASE Monitoring
  BY <1>7, <1>6, MonitorFrame DEF Monitoring, sequencer, state, transfer
<1> QED
  BY <1>1, <1>2, <1>3, <1>4, <1>6, <1>5, <1>7
  DEF Next, Monitoring, Accept, Reject, Resend, Revert, Complete, FreshExpires, Pause, Transfer, Create, Abort, Send, Keep, Wait, sequencer, state, transfer, monitors

\* The transfer goes from part to part; only a part that is not the last is waited for.
LEMMA TransferType == TypeOK /\ WaitOK /\ Next => TransferOK'
<1> SUFFICES ASSUME TypeOK, WaitOK, Next PROVE TransferOK'
  OBVIOUS
<1>1. CASE SyncEnds
  BY <1>1 DEF TypeOK, SyncEnds, TransferOK, P, Continue, sequencer, monitors
<1>2. CASE Sync
  BY <1>2 DEF TypeOK, Sync, TransferOK, P, StartSync, Continue, sequencer, monitors
<1>3. CASE Pause
  BY <1>3 DEF TypeOK, Pause, TransferOK, P, sequencer, state, monitors
<1>4. CASE Transfer
  BY <1>4 DEF TypeOK, Transfer, TransferOK, P, sequencer, state, monitors
<1>5. CASE Create
  <2>1. account \in Nat
    BY DEF TypeOK, StateOK
  <2>2. base' \in [P -> Nat]
    BY <1>5, <2>1 DEF TypeOK, TransferOK, Create
  <2> QED BY <1>5, <2>2 DEF TypeOK, Create, TransferOK
<1>6. CASE Abort
  BY <1>6 DEF TypeOK, Abort, TransferOK, P, sequencer, state, monitors
<1>7. CASE Send
  BY <1>7 DEF TypeOK, Send, TransferOK, P, Move, state
<1>8. CASE Keep
  BY <1>8 DEF TypeOK, Keep, TransferOK, P, sequencer, state
<1>9. CASE Wait
  BY <1>9 DEF TypeOK, WaitOK, Wait, TransferOK, P, HasHash, sequencer, state, monitors
<1>10. CASE SyncFails
  BY <1>10 DEF TypeOK, SyncFails, TransferOK
<1>11. CASE UNCHANGED <<pc, part, tries, base>>
  BY <1>11 DEF TypeOK, TransferOK, P
<1>12. CASE Monitoring
  BY <1>12, <1>11, MonitorFrame DEF Monitoring, sequencer, state, transfer
<1> QED
  BY <1>1, <1>2, <1>3, <1>4, <1>5, <1>6, <1>7, <1>8, <1>9, <1>11, <1>10, <1>12
  DEF Next, Monitoring, Accept, Reject, Resend, Revert, Complete, UiSync, SyncReads, FreshExpires, sequencer, state, transfer, monitors

\* The history's records of the parts.
Records == [P -> [state : {"none", "queued", "failed", "reverted"}, hash : 0 .. MaxSends]]

LEMMA RecordsType ==
  ASSUME TypeOK, NEW k \in P,
         \/ UNCHANGED told
         \/ \E how \in {"failed", "reverted"} : TellFailure(k, how)
         \/ \E hash \in 0 .. MaxSends : TellHash(k, hash)
         \/ told' = [told EXCEPT ![k].state = "queued"]
  PROVE  told' \in Records
<1>1. told \in Records
  BY DEF TypeOK, MonitorsOK, Records
<1>2. \A how \in {"none", "queued", "failed", "reverted"} : [told EXCEPT ![k].state = how] \in Records
  BY <1>1 DEF Records
<1>3. \A hash \in 0 .. MaxSends : [told EXCEPT ![k].hash = hash] \in Records
  BY <1>1 DEF Records
<1>4. told[k].state \in {"none", "queued", "failed", "reverted"} /\ told[k].hash \in 0 .. MaxSends
  BY <1>1 DEF Records
<1> QED BY <1>1, <1>2, <1>3, <1>4 DEF TellFailure, TellHash

\* The variables of a monitor that starts, goes on or ends.
LEMMA WorkerType ==
  ASSUME TypeOK, NEW k \in P,
         \/ UNCHANGED <<monitor, last, issues>>
         \/ \E as \in {"off", "reason", "lost"} : Leave(k, as)
         \/ StartMonitor(k) /\ UNCHANGED <<last, issues>>
  PROVE  /\ monitor' \in [P -> {"off", "polls", "reason", "lost"}]
         /\ last' \in [P -> 0 .. MaxSends] /\ issues' \in [P -> 0 .. IssuesThreshold]
<1>1. /\ monitor \in [P -> {"off", "polls", "reason", "lost"}]
      /\ last \in [P -> 0 .. MaxSends] /\ issues \in [P -> 0 .. IssuesThreshold]
  BY DEF TypeOK, MonitorsOK
<1>2. CASE UNCHANGED <<monitor, last, issues>>
  BY <1>1, <1>2
<1>3. ASSUME NEW as \in {"off", "reason", "lost"}, Leave(k, as)
      PROVE  /\ monitor' \in [P -> {"off", "polls", "reason", "lost"}]
             /\ last' \in [P -> 0 .. MaxSends] /\ issues' \in [P -> 0 .. IssuesThreshold]
  <2>1. 0 \in 0 .. MaxSends /\ 0 \in 0 .. IssuesThreshold
    OBVIOUS
  <2>2. monitor' = [monitor EXCEPT ![k] = as] /\ last' = [last EXCEPT ![k] = 0] /\ issues' = [issues EXCEPT ![k] = 0]
    BY <1>3 DEF Leave
  <2>3. monitor' \in [P -> {"off", "polls", "reason", "lost"}]
    BY <1>1, <2>2
  <2>4. last' \in [P -> 0 .. MaxSends]
    BY <1>1, <2>1, <2>2
  <2>5. issues' \in [P -> 0 .. IssuesThreshold]
    BY <1>1, <2>1, <2>2
  <2> QED BY <2>3, <2>4, <2>5
<1>4. CASE StartMonitor(k) /\ UNCHANGED <<last, issues>>
  <2>1. monitor[k] \in {"off", "polls", "reason", "lost"}
    BY <1>1
  <2>2. monitor' \in [P -> {"off", "polls", "reason", "lost"}]
    BY <1>1, <1>4, <2>1 DEF StartMonitor
  <2> QED BY <1>1, <1>4, <2>2
<1> QED BY <1>2, <1>3, <1>4

\* The answer to one poll.
LEMMA PollType ==
  ASSUME TypeOK, NEW k \in P, Poll(k)
  PROVE  MonitorsOK'
<1>1. /\ job[k] \in JobState /\ sends[k] \in 0 .. MaxSends /\ 0 \in 0 .. MaxSends
      /\ errors' \in 0 .. MaxErrors
  BY DEF TypeOK, JobsOK, MonitorsOK, Poll, PollWaiting, PollFailed, PollSent, PollUnnamed, PollCompleted, PollReverted, Answer
<1>2. info' \in [P -> JobState \cup {"unnamed"}]
  BY MonitorFrame, <1>1 DEF TypeOK, MonitorsOK
<1>3. told' \in Records
  BY RecordsType, <1>1 DEF Poll, PollWaiting, PollFailed, PollSent, PollUnnamed, PollCompleted, PollReverted
<1>4. /\ monitor' \in [P -> {"off", "polls", "reason", "lost"}]
      /\ last' \in [P -> 0 .. MaxSends] /\ issues' \in [P -> 0 .. IssuesThreshold]
  <2>1. CASE PollWaiting(k) \/ PollFailed(k) \/ PollCompleted(k) \/ PollReverted(k)
    BY <2>1, WorkerType DEF PollWaiting, PollFailed, PollCompleted, PollReverted
  <2>2. CASE PollSent(k)
    BY <2>2, <1>1 DEF PollSent, TypeOK, MonitorsOK
  <2>3. CASE PollUnnamed(k)
    <3>1. CASE issues[k] < IssuesThreshold
      BY <2>3, <3>1 DEF PollUnnamed, TypeOK, MonitorsOK
    <3>2. CASE ~(issues[k] < IssuesThreshold)
      BY <2>3, <3>2, WorkerType DEF PollUnnamed
    <3> QED BY <3>1, <3>2
  <2> QED BY <2>1, <2>2, <2>3 DEF Poll
<1> QED BY <1>1, <1>2, <1>3, <1>4 DEF MonitorsOK, Records

\* The monitors learn states and hashes that jobs have.
LEMMA MonitorsType == TypeOK /\ Next => MonitorsOK'
<1> SUFFICES ASSUME TypeOK, Next PROVE MonitorsOK'
  OBVIOUS
<1>1. ASSUME NEW k \in P, ReasonArrives(k) \/ PollFails(k) \/ UserWaits(k) PROVE MonitorsOK'
  <2>1. told' \in Records
    BY <1>1, RecordsType DEF ReasonArrives, PollFails, UserWaits
  <2>2. /\ monitor' \in [P -> {"off", "polls", "reason", "lost"}]
        /\ last' \in [P -> 0 .. MaxSends] /\ issues' \in [P -> 0 .. IssuesThreshold]
    BY <1>1, WorkerType DEF ReasonArrives, PollFails, UserWaits
  <2>3. info' = info /\ errors' \in 0 .. MaxErrors
    BY <1>1 DEF ReasonArrives, PollFails, UserWaits, TypeOK, MonitorsOK
  <2> QED BY <2>1, <2>2, <2>3 DEF MonitorsOK, Records, TypeOK
<1>2. CASE Keep \/ Send
  <2>1. part \in P
    BY DEF TypeOK, TransferOK
  <2>2. told' \in Records
    BY <1>2, <2>1, RecordsType DEF Keep, Send
  <2>3. /\ monitor' \in [P -> {"off", "polls", "reason", "lost"}]
        /\ last' \in [P -> 0 .. MaxSends] /\ issues' \in [P -> 0 .. IssuesThreshold]
    BY <1>2, <2>1, WorkerType DEF Keep, Send
  <2>4. info' = info /\ errors' = errors
    BY <1>2 DEF Keep, Send
  <2> QED BY <2>2, <2>3, <2>4 DEF MonitorsOK, Records, TypeOK
<1>3. CASE UNCHANGED monitors
  BY <1>3 DEF TypeOK, MonitorsOK, monitors
<1> QED
  BY <1>1, <1>2, <1>3, PollType
  DEF Next, Accept, Reject, Resend, Revert, Complete, UiSync, SyncReads, SyncEnds, SyncFails, FreshExpires, Sync, Pause, Transfer, Create, Abort, Wait

\* What is only known to hold or not, and what a sync has seen.
LEMMA FlagsType == TypeOK /\ Next => FlagsOK'
<1> SUFFICES ASSUME TypeOK, Next PROVE FlagsOK'
  OBVIOUS
<1>1. CASE Monitoring
  BY <1>1, MonitorFrame DEF Monitoring, TypeOK, FlagsOK, state, transfer
<1>2. CASE SyncFails
  BY <1>2 DEF TypeOK, SyncFails, FlagsOK, monitors
<1>3. CASE Send
  BY <1>3 DEF TypeOK, Send, FlagsOK, state
<1>4. CASE SyncReads
  <2>1. version \in Nat
    BY DEF TypeOK, JobsOK
  <2>2. (\A k \in P : ~Pending(k)) \in BOOLEAN
    OBVIOUS
  <2>3. seen' \in [version : Nat, ready : BOOLEAN]
    BY <1>4, <2>1, <2>2 DEF SyncReads
  <2> QED BY <1>4, <2>3 DEF TypeOK, SyncReads, FlagsOK, transfer, monitors
<1>5. CASE SyncEnds
  BY <1>5 DEF TypeOK, SyncEnds, FlagsOK, Continue, sequencer, monitors
<1>6. CASE FreshExpires
  BY <1>6 DEF TypeOK, FreshExpires, FlagsOK, sequencer, transfer, monitors
<1>7. CASE Sync
  BY <1>7 DEF TypeOK, Sync, FlagsOK, StartSync, Continue, sequencer, monitors
<1>8. CASE UNCHANGED <<fresh, result, joined, seen>>
  BY <1>8 DEF TypeOK, FlagsOK
<1> QED
  BY <1>1, <1>2, <1>3, <1>4, <1>5, <1>6, <1>7, <1>8
  DEF Next, Monitoring, Accept, Reject, Resend, Revert, Complete, UiSync, Pause, Transfer, Create, Abort, Keep, Wait, sequencer, state, transfer, monitors

\* Only a part that is not the last is waited for.
LEMMA WaitType == TypeOK /\ WaitOK /\ Next => WaitOK'
<1> SUFFICES ASSUME TypeOK, WaitOK, Next PROVE WaitOK'
  OBVIOUS
<1>1. CASE Keep
  BY <1>1 DEF Keep, WaitOK
<1>2. ASSUME pc' # "wait" PROVE WaitOK'
  BY <1>2 DEF WaitOK
<1>3. ASSUME UNCHANGED <<pc, part>> PROVE WaitOK'
  BY <1>3 DEF WaitOK
<1>4. CASE SyncEnds
  BY <1>2, <1>3, <1>4 DEF SyncEnds, Continue
<1>5. CASE Sync
  BY <1>2, <1>3, <1>5 DEF Sync, Continue
<1>6. CASE SyncFails
  BY <1>2, <1>3, <1>6 DEF SyncFails
<1>7. CASE Pause \/ Transfer \/ Create \/ Abort \/ Send \/ Wait
  BY <1>2, <1>7 DEF Pause, Transfer, Create, Abort, Send, Wait
<1>8. CASE Monitoring
  BY <1>8, <1>3, MonitorFrame DEF Monitoring, sequencer, state, transfer
<1> QED
  BY <1>1, <1>3, <1>4, <1>5, <1>7, <1>6, <1>8
  DEF Next, Monitoring, Accept, Reject, Resend, Revert, Complete, UiSync, SyncReads, FreshExpires, sequencer, state, transfer, monitors

\* Types as one conjunct of the inductive invariants.
LEMMA TypeStep == TypeOK /\ WaitOK /\ [Next]_vars => TypeOK' /\ WaitOK'
<1> SUFFICES ASSUME TypeOK, WaitOK, [Next]_vars PROVE TypeOK' /\ WaitOK'
  OBVIOUS
<1>1. CASE Next
  BY <1>1, JobsType, StateType, TransferType, MonitorsType, FlagsType, WaitType DEF TypeOK
<1>2. CASE UNCHANGED vars
  BY <1>2 DEF vars, sequencer, state, transfer, monitors, TypeOK, WaitOK, JobsOK, StateOK, TransferOK, MonitorsOK, FlagsOK
<1> QED BY <1>1, <1>2

\* Type correctness, for every number of parts, sends and attempts and all
\* circumstances: the part that is made next always exists.
THEOREM TypeCorrect == Spec => []TypeOK
<1>1. Init => TypeOK /\ WaitOK
  BY InitType DEF Init, WaitOK
<1>2. TypeOK /\ WaitOK /\ [Next]_vars => (TypeOK /\ WaitOK)'
  BY TypeStep
<1> QED BY <1>1, <1>2, PTL DEF Spec

-----------------------------------------------------------------------------
(* No two transactions on their way spend the same account *)

LEMMA InitCourse == Init => Course
<1> SUFFICES ASSUME Init PROVE Course
  OBVIOUS
<1> USE DEF Init, P
<1>1. OneAtATime /\ Unsent
  BY DEF OneAtATime, Unsent, Active
<1>2. Order /\ Hashed
  BY DEF Order, Hashed
<1>3. Settled /\ Syncing /\ Gate
  BY DEF Settled, Syncing, Gate
<1> QED BY <1>1, <1>2, <1>3 DEF Course

\* A job that moves is the one of the part whose turn it is, and nothing is being
\* built then.
LEMMA JobStep ==
  ASSUME TxInv, NEW k \in P,
         Accept(k) \/ Reject(k) \/ Resend(k) \/ Revert(k) \/ Complete(k)
  PROVE  Course'
<1>1. Active(k)
  BY DEF Accept, Reject, Resend, Revert, Complete, Active
<1>2. k = Turn /\ base[k] = version /\ \A j \in P \ {k} : ~Active(j)
  BY <1>1 DEF TxInv, Course, OneAtATime
<1>3. ~NothingActive
  BY <1>1 DEF NothingActive
<1>4. pc \notin {"idle", "sync", "create", "prove"}
  BY <1>1, <1>2 DEF TxInv, Course, Unsent, Turn, Active
<1>5. /\ UNCHANGED <<pc, part, tries, base, joined, account, sync, seen, fresh, result, info>>
  BY DEF Accept, Reject, Resend, Revert, Complete, state, transfer, monitors
<1>6. /\ \A j \in P \ {k} : job'[j] = job[j] /\ sends'[j] = sends[j]
      /\ job'[k] \in {"waiting", "failed", "sent", "reverted", "completed"}
      /\ sends'[k] \in Nat /\ sends[k] \in Nat /\ sends'[k] >= sends[k]
      /\ job'[k] \in {"sent", "reverted", "completed"} => sends'[k] > 0
  BY DEF Accept, Reject, Resend, Revert, Complete, Move, TxInv, TypeOK, JobsOK, Course, Hashed
<1>7. /\ UNCHANGED <<pc, part, tries, base, joined, account, sync, seen, fresh, result, info>>
      /\ Turn' = Turn
  <2>1. part \in P /\ job[k] # "none" /\ job'[k] # "none"
    BY <1>1, <1>6 DEF Active, TxInv, TypeOK, TransferOK
  <2>2. job'[part] = "none" <=> job[part] = "none"
    BY <1>6, <2>1
  <2> QED BY <1>5, <2>2 DEF Turn
<1>8. job'[k] \in {"waiting", "sent"} => version' = version
  BY DEF Accept, Reject, Resend, Revert, Complete, Move, TxInv, TypeOK, JobsOK
<1>9. OneAtATime'
  <2> SUFFICES ASSUME NEW j \in P
                PROVE  /\ j > Turn => job'[j] = "none"
                       /\ job'[j] \in {"waiting", "sent"} => j = Turn /\ base[j] = version'
    BY <1>7 DEF OneAtATime, Active
  <2>1. CASE j = k
    <3>1. ~(k > Turn)
      BY <1>2, <1>1 DEF OneAtATime, TxInv, Course, Active
    <3> QED BY <2>1, <3>1, <1>2, <1>8
  <2>2. CASE j # k
    BY <2>2, <1>2, <1>6 DEF OneAtATime, TxInv, Course, Active
  <2> QED BY <2>1, <2>2
<1>10. Unsent' /\ Settled'
  BY <1>4, <1>7 DEF Unsent, Settled
<1>11. Order'
  BY <1>4, <1>7, <1>6 DEF Order, TxInv, Course
<1>12. Hashed'
  <2>1. \A j \in P : sends'[j] >= sends[j] /\ sends[j] \in Nat /\ sends'[j] \in Nat
    BY <1>6 DEF TxInv, TypeOK, JobsOK
  <2>2. pc \in {"gate", "pause"} => part - 1 \in P
    BY DEF TxInv, Course, Order, TypeOK, TransferOK, P
  <2> QED BY <1>7, <1>6, <2>1, <2>2 DEF Hashed, TxInv, Course
<1>13. Syncing'
  BY <1>7 DEF Syncing, TxInv, Course
<1>14. Gate'
  BY <1>3, <1>7 DEF Gate, TxInv, Course
<1> QED BY <1>9, <1>10, <1>11, <1>12, <1>13, <1>14 DEF Course

\* What the monitors know of a part that was sent is true of it.
LEMMA MonitorStep ==
  ASSUME TxInv, NEW k \in P, Poll(k) \/ ReasonArrives(k) \/ PollFails(k) \/ UserWaits(k)
  PROVE  Course'
<1>1. UNCHANGED <<job, sends, version, account, sync, seen, fresh, result, pc, part, tries, joined, base>>
  BY MonitorFrame DEF sequencer, state, transfer
<1>2. \A j \in P : info'[j] = info[j] \/ info'[j] = job[j] \/ info'[j] = "unnamed"
  BY MonitorFrame DEF TxInv, TypeOK, MonitorsOK
<1>3. Hashed'
  BY <1>1, <1>2 DEF Hashed, TxInv, Course
<1>4. OneAtATime' /\ Unsent' /\ Order'
  BY <1>1 DEF OneAtATime, Unsent, Order, Active, Turn, TxInv, Course
<1>5. Settled' /\ Syncing' /\ Gate'
  BY <1>1 DEF Settled, Syncing, Gate, NothingActive, Active, TxInv, Course
<1> QED BY <1>3, <1>4, <1>5 DEF Course

\* Before a transfer has sent its first part the pool's account is the first.
LEMMA Beginning ==
  ASSUME TxInv, pc \in {"idle", "sync"}
  PROVE  NothingActive /\ version = 0
<1>1. part = 1 /\ Turn = 1 /\ job[1] = "none"
  BY DEF TxInv, Course, Order, Unsent, Turn
<1>2. ASSUME NEW k \in P PROVE job[k] = "none"
  <2>1. CASE k = 1
    BY <1>1, <2>1
  <2>2. CASE k > 1
    BY <1>1, <2>2 DEF TxInv, Course, OneAtATime
  <2> QED BY <2>1, <2>2 DEF P
<1>3. NothingActive
  BY <1>2 DEF NothingActive, Active
<1>4. version = 0
  BY <1>2 DEF TxInv, Course, Order
<1> QED BY <1>3, <1>4

\* At the gate only the part before can be on its way, and it is pending or waits to
\* be sent again then.
LEMMA NothingPending ==
  ASSUME TxInv, pc \in {"gate", "pause"}, \A k \in P : ~Pending(k) /\ ~Resent(k)
  PROVE  NothingActive
<1> SUFFICES ASSUME NEW k \in P, Active(k) PROVE FALSE
  BY DEF NothingActive
<1>1. k = part - 1
  BY DEF TxInv, Course, OneAtATime, Turn
<1>2. sends[k] > 0
  BY <1>1 DEF TxInv, Course, Hashed
<1>3. Pending(k) \/ Resent(k)
  BY <1>2 DEF Pending, Resent, Active
<1> QED BY <1>3

\* Where the transfer is does not matter to a state in which nothing is on its way
\* and no part after the turn's has been sent.
LEMMA NothingSent ==
  ASSUME TxInv, NothingActive, UNCHANGED <<job, sends, version>>,
         Turn' \in Int, Turn \in Int, Turn' >= Turn
  PROVE  OneAtATime'
<1> SUFFICES ASSUME NEW k \in P PROVE (k > Turn' => job[k] = "none") /\ ~(job[k] \in {"waiting", "sent"})
  BY DEF OneAtATime, Active
<1>1. ~(job[k] \in {"waiting", "sent"})
  BY DEF NothingActive, Active
<1>2. k > Turn' => k > Turn
  BY DEF P
<1> QED BY <1>1, <1>2 DEF TxInv, Course, OneAtATime

\* A sync reads the pool's version, and is ready when nothing is on its way.
LEMMA SyncReadsStep ==
  ASSUME TxInv, Orderly, SyncReads
  PROVE  Course'
<1>1. UNCHANGED <<job, sends, version, account, fresh, result, pc, part, tries, joined, base, info>>
  BY DEF SyncReads, sequencer, transfer, monitors
<1>2. sync = "started" /\ sync' = "seen" /\ seen'.version = version
      /\ (seen'.ready <=> \A k \in P : ~Pending(k)) /\ (pc = "gate" => \A k \in P : ~Resent(k))
  BY DEF Orderly, SyncReads
<1>3. OneAtATime' /\ Unsent' /\ Settled'
  BY <1>1 DEF OneAtATime, Unsent, Settled, NothingActive, Active, Turn, TxInv, Course
<1>4. Hashed'
  BY <1>1 DEF Hashed, TxInv, Course
<1>5. Order'
  BY <1>1, <1>2, Beginning DEF Order, TxInv, Course
<1>6. Syncing'
  BY <1>1, <1>2 DEF Syncing, TxInv, Course
<1>7. NothingActive => \A k \in P : ~Pending(k)
  <2>1. \A k \in P : Pending(k) => Active(k)
    BY DEF Pending, Active
  <2> QED BY <2>1 DEF NothingActive
<1>8. NothingActive' <=> NothingActive
  BY <1>1 DEF NothingActive, Active
<1>9. Gate'
  BY <1>1, <1>2, <1>7, <1>8, NothingPending DEF Gate, TxInv, Course
<1> QED BY <1>3, <1>4, <1>5, <1>6, <1>9 DEF Course

\* The user interface syncs when no transfer runs, a sync ends its interval, and a
\* transfer starts when none runs.
LEMMA UiStep ==
  ASSUME TxInv, Orderly, UiSync \/ FreshExpires \/ Transfer
  PROVE  Course'
<1>1. UNCHANGED <<job, sends, version, account, seen, result, part, tries, joined, base, info>>
  BY DEF Orderly, UiSync, FreshExpires, Transfer, sequencer, state, transfer, monitors
<1>2. pc' = pc \/ (pc = "idle" /\ pc' = "sync" /\ sync = "idle" /\ sync' = "idle")
  BY DEF Orderly, UiSync, FreshExpires, Transfer, transfer, state
<1>3. sync' = sync \/ (sync' = "started" /\ pc \in {"idle", "done", "failed"} /\ pc' = pc)
  BY DEF Orderly, UiSync, FreshExpires, Transfer, transfer, state, StartSync
<1>4. fresh' = fresh \/ ~fresh'
  BY DEF Orderly, UiSync, FreshExpires, Transfer, state
<1>5. Turn' = Turn
  BY <1>1, <1>2 DEF Turn
<1>6. OneAtATime' /\ Unsent'
  BY <1>1, <1>2, <1>5 DEF OneAtATime, Unsent, Active, TxInv, Course
<1>7. Order' /\ Hashed' /\ Settled'
  BY <1>1, <1>2 DEF Order, Hashed, Settled, NothingActive, Active, TxInv, Course
<1>8. Syncing'
  BY <1>1, <1>2, <1>3, <1>4 DEF Syncing, TxInv, Course
<1>9. Gate'
  BY <1>1, <1>2, <1>3, <1>4 DEF Gate, NothingActive, Active, TxInv, Course
<1> QED BY <1>6, <1>7, <1>8, <1>9 DEF Course

\* The gate is tried again, within the attempts or when nothing is on its way.
LEMMA PauseStep ==
  ASSUME TxInv, Orderly, Pause
  PROVE  Course'
<1>1. /\ UNCHANGED <<job, sends, version, account, sync, seen, fresh, result, part, tries, joined, base, info>>
      /\ pc = "pause" /\ pc' = "gate" /\ ~fresh
  BY DEF Pause, sequencer, state, monitors
<1>2. sync = "idle"
  BY <1>1 DEF TxInv, Course, Syncing
<1>3. tries = MaxAttempts => NothingActive
  BY <1>1 DEF Orderly, Pause, NothingActive
<1>4. Turn' = Turn /\ (NothingActive' <=> NothingActive)
  BY <1>1 DEF Turn, NothingActive, Active
<1>5. OneAtATime' /\ Unsent'
  BY <1>1, <1>4 DEF OneAtATime, Unsent, Active, TxInv, Course
<1>6. Order' /\ Hashed' /\ Settled' /\ Syncing'
  BY <1>1, <1>2 DEF Order, Hashed, Settled, Syncing, TxInv, Course
<1>7. Gate'
  BY <1>1, <1>2, <1>3, <1>4 DEF Gate
<1> QED BY <1>5, <1>6, <1>7 DEF Course

\* The transfer goes on when nothing is on its way and the account is the pool's,
\* or waits for another attempt.
LEMMA ContinueStep ==
  ASSUME TxInv, NEW ready \in BOOLEAN, Continue(ready), pc \in {"sync", "gate"},
         UNCHANGED <<job, sends, version, part, base, info>>,
         pc' = "create" => NothingActive /\ account' = version,
         pc' = "pause" => ~result' \/ ~fresh',
         ~joined', sync' = "idle"
  PROVE  Course'
<1>1. \/ pc' = "create" /\ tries' = 0
      \/ pc = "gate" /\ pc' = "pause"
  BY DEF Continue
<1>2. part \in Nat /\ Turn \in Int /\ Turn' \in Int
  BY DEF Turn, TxInv, TypeOK, TransferOK, P
<1>3. NothingActive' <=> NothingActive
  BY DEF NothingActive, Active
<1>4. OneAtATime'
  <2>1. CASE pc' = "create"
    <3>1. Turn' >= Turn
      BY <1>2, <2>1 DEF Turn
    <3> QED BY <2>1, <3>1, <1>2, NothingSent
  <2>2. CASE pc = "gate" /\ pc' = "pause"
    <3>1. Turn' = Turn
      BY <2>2 DEF Turn
    <3> QED BY <3>1 DEF OneAtATime, Active, TxInv, Course
  <2> QED BY <1>1, <2>1, <2>2
<1>5. Unsent'
  <2>1. CASE pc = "sync"
    BY <2>1 DEF Unsent, TxInv, Course
  <2>2. CASE pc = "gate"
    <3>1. part > Turn /\ part \in P
      BY <2>2 DEF Turn, TxInv, TypeOK, TransferOK, P
    <3> QED BY <3>1 DEF Unsent, OneAtATime, TxInv, Course
  <2> QED BY <2>1, <2>2
<1>6. Order' /\ Hashed'
  BY <1>1 DEF Order, Hashed, TxInv, Course
<1>7. Settled'
  BY <1>1, <1>3 DEF Settled
<1>8. Syncing' /\ Gate'
  BY <1>1 DEF Syncing, Gate
<1> QED BY <1>4, <1>5, <1>6, <1>7, <1>8 DEF Course

\* A sync that ends brings what it has seen: for a transfer that waits at the gate,
\* the pool's account if nothing is on its way.
LEMMA SyncEndsStep ==
  ASSUME TxInv, SyncEnds
  PROVE  Course'
<1>1. /\ UNCHANGED <<job, sends, version, part, base, seen, info>>
      /\ sync = "seen" /\ sync' = "idle" /\ account' = seen.version /\ ~joined'
      /\ result' = seen.ready /\ fresh'
  BY DEF SyncEnds, sequencer, monitors
<1>2. seen.ready \in BOOLEAN
  BY DEF TxInv, TypeOK, FlagsOK
<1>3. CASE joined
  <2>1. Continue(seen.ready) /\ pc \in {"sync", "gate"}
    BY <1>3 DEF SyncEnds, TxInv, Course, Syncing
  <2>2. pc' = "create" => NothingActive /\ account' = version
    <3>1. CASE pc = "sync"
      <4>1. NothingActive /\ version = 0 /\ seen.version = 0
        BY <3>1, Beginning DEF TxInv, Course, Order
      <4> QED BY <1>1, <4>1
    <3>2. CASE pc = "gate"
      <4>1. pc' = "create" => seen.ready \/ tries = MaxAttempts
        BY <2>1, <3>2 DEF Continue
      <4>2. tries = MaxAttempts => seen.ready
        BY <1>1, <3>2 DEF Gate, TxInv, Course
      <4>3. seen.ready => NothingActive /\ seen.version = version
        BY <1>1, <3>2 DEF Gate, TxInv, Course
      <4> QED BY <1>1, <4>1, <4>2, <4>3
    <3> QED BY <2>1, <3>1, <3>2
  <2>3. pc' = "pause" => ~result'
    BY <1>1, <2>1 DEF Continue
  <2> QED BY <1>1, <1>2, <2>1, <2>2, <2>3, ContinueStep
<1>4. CASE ~joined
  <2>1. pc \in {"idle", "done", "failed"}
    BY <1>1, <1>4 DEF TxInv, Course, Syncing
  <2>2. UNCHANGED <<pc, tries>>
    BY <1>4 DEF SyncEnds
  <2>3. OneAtATime' /\ Unsent'
    BY <1>1, <2>2 DEF OneAtATime, Unsent, Active, Turn, TxInv, Course
  <2>4. Order' /\ Hashed'
    BY <1>1, <2>1, <2>2 DEF Order, Hashed, TxInv, Course
  <2>5. Settled' /\ Syncing' /\ Gate'
    BY <1>1, <2>1, <2>2 DEF Settled, Syncing, Gate
  <2> QED BY <2>3, <2>4, <2>5 DEF Course
<1> QED BY <1>3, <1>4

\* A sync that throws takes the transfer that waits for it along.
LEMMA SyncFailsStep ==
  ASSUME TxInv, SyncFails
  PROVE  Course'
<1>1. /\ UNCHANGED <<job, sends, version, account, seen, fresh, result, part, tries, base, info>>
      /\ sync' = "idle" /\ ~joined' /\ pc' = (IF joined THEN "failed" ELSE pc) /\ sync # "idle"
  BY DEF SyncFails, sequencer, monitors
<1>2. pc' = "failed" \/ (pc' = pc /\ pc \in {"idle", "done", "failed"})
  BY <1>1 DEF Syncing, TxInv, Course
<1>3. OneAtATime'
  <2>1. CASE pc' = pc
    BY <1>1, <2>1 DEF OneAtATime, Active, Turn, TxInv, Course
  <2>2. CASE pc = "gate" /\ pc' = "failed"
    <3>1. part \in P /\ part > Turn
      BY <2>2 DEF Turn, TxInv, TypeOK, TransferOK, P
    <3>2. job[part] = "none"
      BY <3>1 DEF OneAtATime, TxInv, Course
    <3>3. Turn' = Turn
      BY <1>1, <2>2, <3>2 DEF Turn
    <3> QED BY <1>1, <3>3 DEF OneAtATime, Active, TxInv, Course
  <2>3. CASE pc = "sync" /\ pc' = "failed"
    <3>1. NothingActive /\ part = 1 /\ job[part] = "none"
      BY <2>3, Beginning DEF Unsent, Order, TxInv, Course
    <3>2. Turn = 1 /\ Turn' = 0
      BY <1>1, <2>3, <3>1 DEF Turn
    <3>3. \A k \in P : k = 1 \/ k > 1
      BY DEF P
    <3> QED BY <1>1, <3>1, <3>2, <3>3 DEF OneAtATime, NothingActive, Active, TxInv, Course
  <2>4. joined => pc \in {"sync", "gate"}
    BY DEF Syncing, TxInv, Course
  <2> QED BY <1>1, <2>1, <2>2, <2>3, <2>4
<1>4. Unsent' /\ Order' /\ Hashed'
  BY <1>1, <1>2 DEF Unsent, Order, Hashed, TxInv, Course
<1>5. Settled' /\ Syncing' /\ Gate'
  BY <1>1, <1>2 DEF Settled, Syncing, Gate
<1> QED BY <1>3, <1>4, <1>5 DEF Course

\* A call of updateState that joins a running sync or starts one.
LEMMA JoinStep ==
  ASSUME TxInv, joined', pc \in {"sync", "gate"}, sync' # "idle",
         sync' = sync \/ (sync' = "started" /\ ~fresh),
         UNCHANGED <<job, sends, version, account, seen, fresh, result, pc, part, tries, base, info>>
  PROVE  Course'
<1>1. OneAtATime' /\ Unsent'
  BY DEF OneAtATime, Unsent, Active, Turn, TxInv, Course
<1>2. Order' /\ Hashed'
  BY DEF Order, Hashed, TxInv, Course
<1>3. NothingActive' <=> NothingActive
  BY DEF NothingActive, Active
<1>4. Settled' /\ Syncing'
  BY DEF Settled, Syncing, TxInv, Course
<1>5. Gate'
  BY <1>3 DEF Gate, TxInv, Course
<1> QED BY <1>1, <1>2, <1>4, <1>5 DEF Course

\* The transfer's call of updateState: it joins a sync, starts one, or goes on with
\* the result of the last one.
LEMMA SyncStep ==
  ASSUME TxInv, Sync
  PROVE  Course'
<1>1. /\ UNCHANGED <<job, sends, version, account, seen, fresh, result, part, base, info>>
      /\ pc \in {"sync", "gate"} /\ ~joined
  BY DEF Sync, sequencer, monitors
<1>2. CASE sync # "idle"
  <2>1. joined' /\ UNCHANGED <<sync, pc, tries>>
    BY <1>2 DEF Sync
  <2> QED BY <1>1, <1>2, <2>1, JoinStep
<1>3. CASE sync = "idle" /\ fresh
  <2>1. Continue(result) /\ UNCHANGED <<sync, joined>>
    BY <1>3 DEF Sync
  <2>2. result \in BOOLEAN
    BY DEF TxInv, TypeOK, FlagsOK
  <2>3. pc' = "create" => NothingActive /\ account' = version
    <3>1. CASE pc = "sync"
      <4>1. NothingActive /\ version = 0 /\ account = 0
        BY <3>1, Beginning DEF TxInv, Course, Order
      <4> QED BY <1>1, <4>1
    <3>2. CASE pc = "gate"
      <4>1. pc' = "create" => result \/ tries = MaxAttempts
        BY <2>1, <3>2 DEF Continue
      <4>2. tries # MaxAttempts /\ (result => NothingActive /\ account = version)
        BY <1>3, <3>2 DEF Gate, TxInv, Course
      <4> QED BY <1>1, <4>1, <4>2
    <3> QED BY <1>1, <3>1, <3>2
  <2>4. pc' = "pause" => ~result'
    BY <1>1, <2>1 DEF Continue
  <2> QED BY <1>1, <1>3, <2>1, <2>2, <2>3, <2>4, ContinueStep
<1>4. CASE sync = "idle" /\ ~fresh
  <2>1. joined' /\ sync' = "started" /\ UNCHANGED <<pc, tries>>
    BY <1>4 DEF Sync, StartSync
  <2> QED BY <1>1, <1>4, <2>1, JoinStep
<1> QED BY <1>2, <1>3, <1>4

\* A part that is made: built on the local account, sent, kept.
LEMMA PartStep ==
  ASSUME TxInv, Orderly, Create \/ Send \/ Keep
  PROVE  Course'
<1>1. UNCHANGED <<sends, version, account, sync, seen, fresh, result, part, tries, joined, info>>
  BY DEF Create, Send, Keep, sequencer, state, monitors
<1>2. part \in P /\ Turn = part
  BY DEF Create, Send, Keep, Turn, TxInv, TypeOK, TransferOK
<1>3. Turn' = part
  BY <1>1 DEF Create, Send, Keep, Turn
<1>4. CASE Create
  <2>1. pc = "create" /\ pc' = "prove" /\ base'[part] = account /\ job' = job
    BY <1>2, <1>4 DEF Create, TxInv, TypeOK, TransferOK, sequencer
  <2>2. NothingActive /\ account = version
    BY <2>1 DEF Settled, TxInv, Course
  <2>3. OneAtATime'
    BY <1>1, <1>2, <1>3, <2>1, <2>2 DEF OneAtATime, NothingActive, Active, TxInv, Course
  <2>4. Unsent' /\ Order' /\ Hashed'
    BY <1>1, <2>1 DEF Unsent, Order, Hashed, TxInv, Course
  <2>5. Settled'
    BY <1>1, <2>1, <2>2 DEF Settled, NothingActive, Active
  <2>6. Syncing' /\ Gate'
    BY <1>1, <2>1 DEF Syncing, Gate, TxInv, Course
  <2> QED BY <2>3, <2>4, <2>5, <2>6 DEF Course
<1>5. CASE Send
  <2>1. pc = "prove" /\ pc' = "keep" /\ ~fresh /\ base' = base /\ job' = [job EXCEPT ![part] = "waiting"]
    BY <1>5 DEF Orderly, Send, Move
  <2>2. NothingActive /\ base[part] = version
    BY <2>1 DEF Settled, TxInv, Course
  <2>3. job \in [P -> JobState]
    BY DEF TxInv, TypeOK, JobsOK
  <2>4. OneAtATime'
    <3> SUFFICES ASSUME NEW j \in P
                  PROVE  /\ j > part => job'[j] = "none"
                         /\ job'[j] \in {"waiting", "sent"} => j = part /\ base[j] = version
      BY <1>1, <1>3, <2>1 DEF OneAtATime, Active
    <3>1. CASE j = part
      BY <1>2, <2>2, <3>1 DEF P
    <3>2. CASE j # part
      BY <1>2, <2>1, <2>2, <2>3, <3>2 DEF OneAtATime, NothingActive, Active, TxInv, Course
    <3> QED BY <3>1, <3>2
  <2>5. Hashed'
    BY <1>1, <2>1, <2>3 DEF Hashed, TxInv, Course
  <2>6. Order'
    BY <1>1, <1>2, <2>1, <2>3 DEF Order, TxInv, Course
  <2>7. Unsent' /\ Settled' /\ Gate'
    BY <2>1 DEF Unsent, Settled, Gate
  <2>8. Syncing'
    BY <1>1, <2>1 DEF Syncing, TxInv, Course
  <2> QED BY <2>4, <2>5, <2>6, <2>7, <2>8 DEF Course
<1>6. CASE Keep
  <2>1. pc = "keep" /\ pc' \in {"wait", "done"} /\ UNCHANGED <<job, base>>
    BY <1>6 DEF Keep, sequencer
  <2>2. OneAtATime'
    BY <1>1, <1>2, <1>3, <2>1 DEF OneAtATime, Active, TxInv, Course
  <2>3. Unsent' /\ Order' /\ Hashed'
    BY <1>1, <2>1 DEF Unsent, Order, Hashed, TxInv, Course
  <2>4. Settled' /\ Syncing' /\ Gate'
    BY <1>1, <2>1 DEF Settled, Syncing, Gate, TxInv, Course
  <2> QED BY <2>2, <2>3, <2>4 DEF Course
<1> QED BY <1>4, <1>5, <1>6

\* A part that has its hash, and a transfer that gives up.
LEMMA TurnStep ==
  ASSUME TxInv, Wait \/ Abort
  PROVE  Course'
<1>1. UNCHANGED <<job, sends, version, account, sync, seen, fresh, result, tries, joined, base, info>>
  BY DEF Wait, Abort, sequencer, state, monitors
<1>2. part \in P /\ Turn = part
  BY DEF Wait, Abort, Turn, TxInv, TypeOK, TransferOK
<1>3. CASE pc = "wait" /\ pc' = "gate" /\ part' = part + 1 /\ info[part] \in {"sent", "completed"}
  <2>1. Turn' = part
    BY <1>2, <1>3 DEF Turn, P
  <2>2. sends[part] > 0
    BY <1>2, <1>3 DEF Hashed, TxInv, Course
  <2>3. ~fresh /\ ~joined /\ sync = "idle" /\ tries = 0
    BY <1>3 DEF Syncing, Order, TxInv, Course
  <2>4. OneAtATime'
    BY <1>1, <1>2, <2>1 DEF OneAtATime, Active, TxInv, Course
  <2>5. Unsent' /\ Settled'
    BY <1>3 DEF Unsent, Settled
  <2>6. Order'
    BY <1>1, <1>2, <1>3 DEF Order, P, TxInv, Course
  <2>7. Hashed'
    BY <1>1, <1>2, <1>3, <2>2 DEF Hashed, P, TxInv, Course
  <2>8. Syncing' /\ Gate'
    BY <1>1, <1>3, <2>3 DEF Syncing, Gate
  <2> QED BY <2>4, <2>5, <2>6, <2>7, <2>8 DEF Course
<1>4. CASE pc \in {"create", "prove", "wait"} /\ pc' = "failed" /\ part' = part
  <2>1. Turn' = (IF job[part] = "none" THEN part - 1 ELSE part)
    BY <1>1, <1>4 DEF Turn
  <2>2. OneAtATime'
    <3>1. \A k \in P : k > part - 1 => k = part \/ k > part
      BY <1>2 DEF P
    <3> QED BY <1>1, <1>2, <2>1, <3>1 DEF OneAtATime, Active, TxInv, Course
  <2>3. Unsent' /\ Order' /\ Hashed'
    BY <1>1, <1>4 DEF Unsent, Order, Hashed, TxInv, Course
  <2>4. Settled' /\ Syncing' /\ Gate'
    BY <1>1, <1>4 DEF Settled, Syncing, Gate, TxInv, Course
  <2> QED BY <2>2, <2>3, <2>4 DEF Course
<1> QED BY <1>3, <1>4 DEF Wait, Abort, HasHash

\* TxInv is inductive in orderly use.
LEMMA CourseStep ==
  ASSUME Orderly, TxInv, [Next]_vars
  PROVE  Course'
<1>1. CASE UNCHANGED vars
  BY <1>1 DEF vars, sequencer, state, transfer, monitors, TxInv, Course, OneAtATime, Unsent, Order, Hashed, Settled, Syncing, Gate, NothingActive, Active, Turn
<1>2. CASE Next
  BY <1>2, JobStep, MonitorStep, SyncReadsStep, UiStep, PauseStep, SyncEndsStep, SyncFailsStep, SyncStep, PartStep, TurnStep DEF Next
<1> QED BY <1>1, <1>2

\* In orderly use (none of "ui", "fast", "slow", "resent") no two transactions on their
\* way spend the same account, and none spends one that is already spent: for every
\* number of parts, whatever fails, and however often the sequencer resends them as
\* long as the gate's sync does not read the optimistic state while a part is out of
\* it, waiting to be sent again ("resent").
THEOREM NoConflictHolds ==
  ASSUME Orderly PROVE Spec => []NoConflict
<1>1. Init => TxInv
  BY InitType, InitCourse DEF TxInv, Init, WaitOK
<1>2. TxInv /\ [Next]_vars => TxInv'
  BY TypeStep, CourseStep DEF TxInv
<1>3. TxInv => NoConflict
  BY DEF TxInv, Course, OneAtATime, Active, NoConflict
<1> QED BY <1>1, <1>2, <1>3, PTL DEF Spec

-----------------------------------------------------------------------------
(* The transfer implements OneByOne *)

\* The parts before the current one have reached the pool; a part that was refused
\* never has.
Passed ==
    \A k \in P : /\ k < part => sends[k] > 0
                 /\ job[k] \in {"none", "failed"} => sends[k] = 0

StageMap == [k \in P |-> Stage(k)]
SpentMap == [k \in P |-> IF job[k] = "none" THEN 0 ELSE base[k]]

\* A part is passed when it has a hash, and a job that was sent does not fail.
LEMMA PassedStep ==
  ASSUME TxInv, Passed, [Next]_vars
  PROVE  Passed'
<1> USE DEF Passed
<1>1. \A k \in P : sends[k] \in Nat
  BY DEF TxInv, TypeOK, JobsOK
<1>2. CASE UNCHANGED <<job, sends, part>>
  BY <1>2
<1>3. ASSUME NEW k \in P, Accept(k) \/ Reject(k) \/ Resend(k) \/ Revert(k) \/ Complete(k)
      PROVE  Passed'
  <2>1. part' = part /\ \A j \in P \ {k} : job'[j] = job[j] /\ sends'[j] = sends[j]
    BY <1>3 DEF Accept, Reject, Resend, Revert, Complete, Move, transfer, TxInv, TypeOK, JobsOK
  <2>2. sends'[k] >= sends[k] /\ (job'[k] \in {"none", "failed"} => sends'[k] = 0)
    BY <1>1, <1>3 DEF Accept, Reject, Resend, Revert, Complete, Move, TxInv, TypeOK, JobsOK
  <2>3. sends'[k] \in Nat
    BY <1>1, <1>3 DEF Accept, Reject, Resend, Revert, Complete, TxInv, TypeOK, JobsOK
  <2> QED BY <1>1, <2>1, <2>2, <2>3
<1>4. CASE Send
  BY <1>4 DEF Send, Move, TxInv, TypeOK, JobsOK
<1>5. CASE Wait
  <2>1. UNCHANGED <<job, sends>> /\ part \in P
    BY <1>5 DEF Wait, sequencer, TxInv, TypeOK, TransferOK
  <2>2. part' = part \/ (part' = part + 1 /\ sends[part] > 0)
    BY <1>5, <2>1 DEF Wait, HasHash, TxInv, Course, Hashed
  <2>3. \A k \in P : k < part' => k < part \/ (k = part /\ part' = part + 1)
    BY <2>1, <2>2 DEF P
  <2> QED BY <2>1, <2>2, <2>3
<1>6. CASE Monitoring
  BY <1>2, <1>6, MonitorFrame DEF Monitoring, sequencer, transfer
<1> QED
  BY <1>2, <1>3, <1>4, <1>5, <1>6
  DEF Next, Monitoring, vars, UiSync, SyncReads, SyncEnds, SyncFails, FreshExpires, Sync, Pause, Transfer, Create, Abort, Keep, sequencer, state, transfer, monitors

\* Before a part is sent all earlier ones are settled in the pool.
LEMMA EarlierSettled ==
  ASSUME TxInv, Passed, pc = "prove"
  PROVE  \A j \in 1 .. (part - 1) : Stage(j) \in Abstract!Settled
<1> SUFFICES ASSUME NEW j \in 1 .. (part - 1) PROVE Stage(j) \in Abstract!Settled
  OBVIOUS
<1>1. j \in P /\ j < part
  BY DEF TxInv, TypeOK, TransferOK, P
<1>2. job[j] \in JobState /\ sends[j] > 0 /\ sends[j] \in Nat
  BY <1>1 DEF TxInv, TypeOK, JobsOK, Passed
<1>3. job[j] \notin {"none", "failed", "waiting", "sent"}
  BY <1>1, <1>2 DEF Passed, TxInv, Course, Settled, NothingActive, Active
<1> QED BY <1>2, <1>3 DEF Stage, JobState, Abstract!Settled

\* What the sequencer and the pool do to a job is a step of OneByOne or none.
LEMMA JobRefines ==
  ASSUME TxInv, NEW k \in P,
         Accept(k) \/ Reject(k) \/ Resend(k) \/ Revert(k) \/ Complete(k)
  PROVE  Abstract!Next \/ UNCHANGED Abstract!vars
<1>1. /\ base' = base /\ \A j \in P \ {k} : job'[j] = job[j]
      /\ job[k] \in {"waiting", "sent"} /\ job'[k] # "none"
  BY DEF Accept, Reject, Resend, Revert, Complete, Move, transfer, TxInv, TypeOK, JobsOK
<1>2. UNCHANGED SpentMap
  BY <1>1 DEF SpentMap
<1>3. StageMap' = [StageMap EXCEPT ![k] = Stage(k)']
  <2>1. \A j \in P \ {k} : Stage(j)' = Stage(j)
    BY <1>1 DEF Stage
  <2> QED BY <2>1 DEF StageMap
<1>4. StageMap[k] = "sent" /\ SpentMap[k] = base[k]
  BY <1>1 DEF StageMap, SpentMap, Stage
<1>5. CASE Accept(k) \/ Resend(k)
  <2>1. Stage(k)' = "sent" /\ version' = version
    BY <1>5 DEF Accept, Resend, Move, Stage, TxInv, TypeOK, JobsOK
  <2>2. UNCHANGED StageMap
    BY <1>3, <1>4, <2>1 DEF StageMap
  <2> QED BY <1>2, <2>1, <2>2 DEF Abstract!vars, StageMap, SpentMap
<1>6. CASE Reject(k) \/ Revert(k)
  <2>1. Stage(k)' \in {"reverted", "refused"} /\ version' = version
    BY <1>6 DEF Reject, Revert, Move, Stage, TxInv, TypeOK, JobsOK
  <2>2. Abstract!Drop(k)
    BY <1>2, <1>3, <1>4, <2>1 DEF Abstract!Drop, StageMap, SpentMap
  <2> QED BY <2>2 DEF Abstract!Next, Abstract!P, P
<1>7. CASE Complete(k)
  <2>1. Stage(k)' = "mined" /\ base[k] = version /\ version' = version + 1
    BY <1>7 DEF Complete, Move, Stage, TxInv, TypeOK, JobsOK
  <2>2. Abstract!Mine(k)
    BY <1>2, <1>3, <1>4, <2>1 DEF Abstract!Mine, StageMap, SpentMap
  <2> QED BY <2>2 DEF Abstract!Next, Abstract!P, P
<1> QED BY <1>5, <1>6, <1>7

\* The part that is sent is built on the account of the pool, after all others.
LEMMA SendRefines ==
  ASSUME TxInv, Passed, Send
  PROVE  Abstract!Next
<1>1. /\ pc = "prove" /\ part \in P /\ base' = base /\ version' = version
      /\ job' = [job EXCEPT ![part] = "waiting"] /\ job \in [P -> JobState]
  BY DEF Send, Move, TxInv, TypeOK, JobsOK, TransferOK
<1>2. job[part] = "none" /\ base[part] = version
  BY <1>1 DEF TxInv, Course, Unsent, Settled
<1>3. StageMap[part] = "unsent"
  BY <1>1, <1>2 DEF StageMap, Stage
<1>4. StageMap' = [StageMap EXCEPT ![part] = "sent"]
  <2>1. \A j \in P : Stage(j)' = IF j = part THEN "sent" ELSE Stage(j)
    <3> TAKE j \in P
    <3>1. job'[j] = IF j = part THEN "waiting" ELSE job[j]
      BY <1>1
    <3>2. CASE j = part
      BY <3>1, <3>2 DEF Stage
    <3>3. CASE j # part
      <4>1. job'[j] = job[j]
        BY <3>1, <3>3
      <4>2. Stage(j)' = Stage(j)
        BY <4>1 DEF Stage
      <4> QED BY <3>3, <4>2
    <3> QED BY <3>2, <3>3
  <2> QED BY <2>1 DEF StageMap
<1>5. SpentMap' = [SpentMap EXCEPT ![part] = version]
  BY <1>1, <1>2 DEF SpentMap
<1>6. \A j \in 1 .. (part - 1) : StageMap[j] \in Abstract!Settled
  <2>1. 1 .. (part - 1) \subseteq P
    BY <1>1 DEF P
  <2> QED BY <1>1, <2>1, EarlierSettled DEF StageMap
<1>7. PICK k \in P : k = part
  BY <1>1
<1>8. Abstract!Send(k)
  BY <1>1, <1>3, <1>4, <1>5, <1>6, <1>7 DEF Abstract!Send, StageMap, SpentMap
<1> QED BY <1>8 DEF Abstract!Next, Abstract!P, P

\* Everything else is hidden: a part that is being built has not been sent.
LEMMA HiddenStep ==
  ASSUME TxInv, UNCHANGED <<job, version>>, base' = base \/ Create
  PROVE  UNCHANGED Abstract!vars
<1>1. UNCHANGED StageMap
  BY DEF StageMap, Stage
<1>2. UNCHANGED SpentMap
  <2>1. CASE base' = base
    BY <2>1 DEF SpentMap
  <2>2. CASE Create
    <3>1. job[part] = "none" /\ base' = [base EXCEPT ![part] = account]
      BY <2>2 DEF Create, TxInv, Course, Unsent
    <3>2. \A k \in P \ {part} : base'[k] = base[k]
      BY <3>1 DEF TxInv, TypeOK, TransferOK
    <3> QED BY <3>1, <3>2 DEF SpentMap
  <2> QED BY <2>1, <2>2
<1> QED BY <1>1, <1>2 DEF Abstract!vars, StageMap, SpentMap

\* In orderly use (none of "ui", "fast", "slow", "resent") the transfer implements
\* OneByOne, for every number of parts: they reach the sequencer one at a time, in
\* order, each on the account that the last mined one left, and nothing follows a
\* part that is refused.
THEOREM TransferImplements ==
  ASSUME Orderly PROVE Spec => SentOneByOne
<1>1. Init => TxInv /\ Passed /\ Abstract!Init
  <2> SUFFICES ASSUME Init PROVE TxInv /\ Passed /\ Abstract!Init
    OBVIOUS
  <2>1. TxInv
    BY InitType, InitCourse DEF TxInv, Init, WaitOK
  <2>2. Passed
    BY DEF Passed, Init, P
  <2>3. Abstract!Init
    BY DEF Abstract!Init, Abstract!P, Init, Stage, P
  <2> QED BY <2>1, <2>2, <2>3
<1>2. TxInv /\ Passed /\ [Next]_vars => TxInv' /\ Passed'
  BY TypeStep, CourseStep, PassedStep DEF TxInv
<1>3. TxInv /\ Passed /\ [Next]_vars => [Abstract!Next]_(Abstract!vars)
  <2> SUFFICES ASSUME TxInv, Passed, [Next]_vars
               PROVE  Abstract!Next \/ UNCHANGED Abstract!vars
    OBVIOUS
  <2>1. CASE Send
    BY <2>1, SendRefines
  <2>2. CASE \E k \in P : Accept(k) \/ Reject(k) \/ Resend(k) \/ Revert(k) \/ Complete(k)
    BY <2>2, JobRefines
  <2>3. CASE UNCHANGED <<job, version>> /\ (base' = base \/ Create)
    BY <2>3, HiddenStep
  <2>4. CASE Monitoring
    BY <2>3, <2>4, MonitorFrame DEF Monitoring, sequencer, transfer
  <2> QED
    BY <2>1, <2>2, <2>3, <2>4
    DEF Next, Monitoring, vars, UiSync, SyncReads, SyncEnds, SyncFails, FreshExpires, Sync, Pause, Transfer, Create, Abort, Keep, Wait, sequencer, state, transfer, monitors
<1> QED BY <1>1, <1>2, <1>3, PTL DEF Spec, Abstract!Spec, SentOneByOne

=============================================================================
