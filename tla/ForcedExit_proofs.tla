--------------------------- MODULE ForcedExit_proofs ---------------------------
(***************************************************************************)
(* What the calls of a forced exit report was true during the call, for    *)
(* every length of the delay and the slot and every number of calls        *)
(* (ForcedExit).                                                           *)
(*                                                                         *)
(* Each read of a call says something that was true when it was made; the  *)
(* contract changes between the reads, but each change either leaves what  *)
(* was read true, or is one that the observer has seen and the property    *)
(* admits: a later transaction, or the execution of the exit.              *)
(***************************************************************************)
EXTENDS ForcedExit, TLAPS

-----------------------------------------------------------------------------
(* The invariant *)

\* The contract: an exit that is committed is the last event of its nullifier, and a
\* nullifier without one has no event, was cancelled last, or was executed.
ContractOK ==
    \A n \in Versions :
        /\ commits[n] # 0 => log[n] # <<>> /\ Last(log[n]) = commits[n]
        /\ commits[n] = 0 => log[n] = <<>> \/ Last(log[n]) = 0 \/ dead
        /\ n > version => commits[n] = 0

\* The nullifiers that the library knows are not ahead of the contract.
Behind ==
    /\ nul <= local /\ anul <= local /\ local <= version
    /\ pc \in {"reads", "decide"} => nul <= anul

\* The steps of a call and what it does them for.
Control ==
    /\ pc = "value" => op # "request"
    /\ pc = "hash" => op \in {"state", "execute", "cancel"}
    /\ pc \in {"create", "send"} => op = "request"
    /\ pc = "resync" => op = "transact"
    /\ pc = "poll" => tx \in Tx /\ tx.kind = op /\ (op = "request" => tx.n = nul)
    /\ pc \in {"active", "reads", "decide"} =>
        /\ stage = "state" => op \in {"state", "execute", "cancel"}
        /\ stage = "act" => op \in {"execute", "cancel"}
        /\ stage = "lock" => op = "transact"
        /\ stage = "result" => /\ op = "request" /\ tx \in Tx /\ tx.n = nul
                               /\ tx.kind = "request" /\ tx.state = "ok"

Happened(t) ==
    CASE t.kind = "request" -> log[t.n] # <<>>
      [] t.kind = "execute" -> dead
      [] t.kind = "cancel" -> \E i \in 2 .. Len(log[t.n]) : log[t.n][i] = 0 /\ log[t.n][i - 1] = t.exit

\* The transactions: those that took effect left their trace.
Sent ==
    /\ \A t \in late : t.n <= version
    /\ tx \in Tx =>
        /\ tx.n <= local
        /\ tx.state = "pending" => pc = "poll"
        /\ tx.state = "ok" => Happened(tx)

\* What is reported of a transaction is reported of one that was sent.
Reported == pc = "idle" /\ told \in {"cancelled", "committed", "reverted"} => tx \in Tx

\* The observer has seen the state of the moment.
Seen == pc # "idle" => Truth \subseteq seen

\* That no exit is active was true, or does not matter any more.
NoneSeen == ({"NotStarted", "Free"} \subseteq seen) \/ "Completed" \in seen \/ anul < version
Gone(n) == dead \/ version > n \/ 0 \in ToSet(log[n])
NoneActive == NoneSeen /\ (stage = "result" => Gone(tx.n))

\* The exit was the active one, and what became of it since has been seen.
ExitSeen ==
    \/ commits[anul] = exit \/ "Completed" \in seen \/ anul < version
    \/ clock > exit + Window /\ {"Outdated", "Free"} \subseteq seen

\* What the reads of getActiveForcedExit say was true when they were made.
ReadsTrue ==
    /\ pc = "reads" =>
        /\ "dead" \notin todo /\ ~alive => dead
        /\ "hash" \notin todo /\ ~hashed => NoneActive
    /\ pc = "decide" =>
        /\ exit = 0 => NoneActive
        /\ exit # 0 => exit \in ToSet(log[anul]) /\ ExitSeen

ExitInv ==
    /\ TypeOK /\ ContractOK /\ Behind /\ Control /\ Sent /\ Reported /\ Seen /\ ReadsTrue
    /\ StateSound /\ TransactAllowed /\ OutcomeTrue

-----------------------------------------------------------------------------
(* Sequences, numbers and transactions *)

\* The log of a nullifier grows at its end.
LEMMA Appended ==
    ASSUME NEW S, NEW s \in Seq(S), NEW x \in S
    PROVE  /\ Append(s, x) \in Seq(S) /\ Append(s, x) # <<>>
           /\ Len(Append(s, x)) = Len(s) + 1 /\ Len(s) \in Nat
           /\ \A i \in 1 .. Len(s) : Append(s, x)[i] = s[i]
           /\ Append(s, x)[Len(s) + 1] = x /\ Last(Append(s, x)) = x
  BY DEF Last

\* The events of a log, by their positions.
LEMMA Logged ==
    ASSUME NEW S, NEW s \in Seq(S)
    PROVE  /\ \A x : x \in ToSet(s) <=> \E i \in 1 .. Len(s) : s[i] = x
           /\ s # <<>> => Last(s) = s[Len(s)] /\ Len(s) \in 1 .. Len(s) /\ Last(s) \in ToSet(s)
  <1>1. \A x : x \in ToSet(s) <=> \E i \in 1 .. Len(s) : s[i] = x
    BY DEF ToSet
  <1>2. s # <<>> => Last(s) = s[Len(s)] /\ Len(s) \in 1 .. Len(s)
    BY DEF Last
  <1> QED
    BY <1>1, <1>2

\* Versions, times and exits are integers.
LEMMA Numbers ==
    /\ MaxVersion \in Nat /\ MaxTime \in Nat /\ Delay \in Nat \ {0} /\ Window \in Nat
    /\ Versions \subseteq Nat /\ Exits \subseteq Nat \ {0}
    /\ Versions \subseteq Int
  BY ForcedExitAssumption DEF Versions, Exits

\* The fields of a transaction.
LEMMA TxType ==
    ASSUME NEW t \in Tx
    PROVE  /\ t # NoTx /\ t.n \in Versions /\ t.state \in {"pending", "ok", "failed"}
           /\ t.kind \in {"request", "execute", "cancel"}
           /\ t.kind # "request" => t.exit \in Exits
  BY DEF Tx, NoTx

\* A transaction that is mined keeps its kind, nullifier and exit.
LEMMA TxEnd ==
    ASSUME NEW t \in Tx, NEW s \in {"ok", "failed"}, NEW u, u = [t EXCEPT !.state = s]
    PROVE  u \in Tx /\ u.kind = t.kind /\ u.n = t.n /\ u.exit = t.exit /\ u.state = s
  BY DEF Tx

\* The effect of a transaction is its kind's.
LEMMA EffectIs ==
    ASSUME NEW t \in Tx, Effect(t)
    PROVE  \/ t.kind = "request" /\ Commit(t.n)
           \/ t.kind = "execute" /\ Execute(t.n, t.exit)
           \/ t.kind = "cancel" /\ Cancel(t.n, t.exit)
  BY TxType DEF Effect

-----------------------------------------------------------------------------
(* The contract *)

ContractType ==
    /\ clock \in 0 .. MaxTime /\ version \in Versions /\ dead \in BOOLEAN
    /\ commits \in [Versions -> Exits \cup {0}] /\ log \in [Versions -> Seq(Exits \cup {0})]

\* A step of the contract never goes back, and drops a committed exit only when it
\* is executed or, after its slot, cancelled.
Grows ==
    /\ version <= version' /\ (dead => dead') /\ clock <= clock'
    /\ \A n \in Versions, e \in Exits : commits[n] = e =>
        commits'[n] = e \/ dead' \/ (n = version /\ ~dead /\ clock > e + Window)
    /\ \A n \in Versions :
        Len(log[n]) <= Len(log'[n]) /\ \A i \in 1 .. Len(log[n]) : log'[n][i] = log[n][i]

\* A commit is logged.
LEMMA CommitStep ==
    ASSUME ExitInv, NEW n \in Versions, n <= version, Commit(n), clock' = clock
    PROVE  ContractType' /\ ContractOK' /\ Grows /\ log'[n] # <<>>
  <1>1. /\ version' = version /\ dead' = dead /\ n = version /\ ~dead /\ commits[n] = 0
        /\ commits' = [commits EXCEPT ![n] = clock + Delay]
        /\ log' = [log EXCEPT ![n] = Append(@, clock + Delay)]
    BY Numbers DEF Commit, Value, ExitInv, TypeOK
  <1>2. clock + Delay \in Exits
    BY Numbers DEF Exits, ExitInv, TypeOK
  <1>3. /\ commits'[n] = clock + Delay /\ log'[n] = Append(log[n], clock + Delay)
        /\ \A m \in Versions \ {n} : commits'[m] = commits[m] /\ log'[m] = log[m]
    BY <1>1 DEF ExitInv, TypeOK
  <1>4. \A m \in Versions : log[m] \in Seq(Exits \cup {0}) /\ Len(log[m]) \in Nat
    BY DEF ExitInv, TypeOK
  <1>5. /\ log'[n] \in Seq(Exits \cup {0}) /\ log'[n] # <<>> /\ Last(log'[n]) = clock + Delay
        /\ Len(log'[n]) = Len(log[n]) + 1
        /\ \A i \in 1 .. Len(log[n]) : log'[n][i] = log[n][i]
    BY <1>2, <1>3, <1>4, Appended
  <1>6. ContractType'
    BY <1>1, <1>2, <1>3, <1>5 DEF ExitInv, TypeOK, ContractType
  <1>7. ContractOK'
    BY <1>1, <1>3, <1>5, Numbers DEF ExitInv, ContractOK
  <1>8. Grows
    BY <1>1, <1>3, <1>4, <1>5, Numbers, SMTT(30) DEF ExitInv, TypeOK, Grows
  <1> QED
    BY <1>5, <1>6, <1>7, <1>8

\* An execution kills the account and is not logged.
LEMMA ExecuteStep ==
    ASSUME ExitInv, NEW n \in Versions, n <= version, NEW e, Execute(n, e), clock' = clock
    PROVE  ContractType' /\ ContractOK' /\ Grows /\ dead'
  <1>1. /\ version' = version /\ dead' = TRUE /\ log' = log
        /\ commits' = commits \/ commits' = [commits EXCEPT ![n] = 0]
    BY DEF Execute
  <1>2. commits' \in [Versions -> Exits \cup {0}]
    BY <1>1 DEF ExitInv, TypeOK
  <1>3. ContractType'
    BY <1>1, <1>2 DEF ExitInv, TypeOK, ContractType
  <1>4. \A m \in Versions : commits'[m] = commits[m] \/ commits'[m] = 0
    BY <1>1 DEF ExitInv, TypeOK
  <1>5. ContractOK'
    BY <1>1, <1>4 DEF ExitInv, ContractOK
  <1>6. \A m \in Versions : Len(log[m]) \in Nat
    BY DEF ExitInv, TypeOK
  <1>7. Grows
    BY <1>1, <1>6, Numbers DEF ExitInv, TypeOK, Grows
  <1> QED
    BY <1>1, <1>3, <1>5, <1>7

\* A cancellation is logged right after the exit that it cancels.
LEMMA CancelStep ==
    ASSUME ExitInv, NEW n \in Versions, n <= version, NEW e \in Exits, Cancel(n, e), clock' = clock
    PROVE  /\ ContractType' /\ ContractOK' /\ Grows
           /\ \E i \in 2 .. Len(log'[n]) : log'[n][i] = 0 /\ log'[n][i - 1] = e
  <1>1. /\ version' = version /\ dead' = dead /\ n = version /\ ~dead /\ commits[n] = e
        /\ clock > e + Window
        /\ commits' = [commits EXCEPT ![n] = 0] /\ log' = [log EXCEPT ![n] = Append(@, 0)]
    BY Numbers DEF Cancel, Phase, Value, ExitInv, TypeOK
  <1>2. /\ commits'[n] = 0 /\ log'[n] = Append(log[n], 0)
        /\ \A m \in Versions \ {n} : commits'[m] = commits[m] /\ log'[m] = log[m]
    BY <1>1 DEF ExitInv, TypeOK
  <1>3. \A m \in Versions : log[m] \in Seq(Exits \cup {0}) /\ Len(log[m]) \in Nat
    BY DEF ExitInv, TypeOK
  <1>4. /\ log'[n] \in Seq(Exits \cup {0}) /\ Last(log'[n]) = 0
        /\ Len(log'[n]) = Len(log[n]) + 1 /\ log'[n][Len(log[n]) + 1] = 0
        /\ \A i \in 1 .. Len(log[n]) : log'[n][i] = log[n][i]
    BY <1>2, <1>3, Appended
  <1>5. ContractType'
    BY <1>1, <1>2, <1>4 DEF ExitInv, TypeOK, ContractType
  <1>6. ContractOK'
    BY <1>1, <1>2, <1>4 DEF ExitInv, ContractOK
  <1>7. Grows
    BY <1>1, <1>2, <1>3, <1>4, Numbers, SMTT(30) DEF ExitInv, TypeOK, Grows
  <1>8. log[n] # <<>> /\ Last(log[n]) = e
    BY <1>1, Numbers DEF ExitInv, ContractOK
  <1>9. log[n][Len(log[n])] = e /\ Len(log[n]) \in 1 .. Len(log[n])
    BY <1>3, <1>8, Logged
  <1>10. /\ Len(log[n]) + 1 \in 2 .. Len(log'[n])
         /\ log'[n][Len(log[n]) + 1] = 0 /\ log'[n][(Len(log[n]) + 1) - 1] = e
    BY <1>3, <1>4, <1>9
  <1> QED
    BY <1>5, <1>6, <1>7, <1>10

\* A transaction leaves its nullifier's exit behind.
LEMMA TransactStep ==
    ASSUME ExitInv, Transact, clock' = clock
    PROVE  ContractType' /\ ContractOK' /\ Grows
  <1>1. /\ version' = version + 1 /\ version < MaxVersion /\ dead' = dead
        /\ commits' = commits /\ log' = log
    BY DEF Transact
  <1>2. \A m \in Versions : Len(log[m]) \in Nat
    BY DEF ExitInv, TypeOK
  <1>3. ContractType'
    BY <1>1, Numbers DEF ExitInv, TypeOK, ContractType, Versions
  <1>4. ContractOK'
    BY <1>1, Numbers DEF ExitInv, TypeOK, ContractOK, Versions
  <1>5. Grows
    BY <1>1, <1>2, Numbers DEF ExitInv, TypeOK, Grows, Versions
  <1> QED
    BY <1>3, <1>4, <1>5

\* Time passes.
LEMMA TickStep ==
    ASSUME ExitInv, Tick
    PROVE  ContractType' /\ ContractOK' /\ Grows
  <1>1. clock' = clock + 1 /\ clock < MaxTime /\ UNCHANGED <<version, dead, commits, log>>
    BY DEF Tick
  <1>2. \A m \in Versions : Len(log[m]) \in Nat
    BY DEF ExitInv, TypeOK
  <1>3. ContractType'
    BY <1>1, Numbers DEF ExitInv, TypeOK, ContractType
  <1>4. ContractOK'
    BY <1>1 DEF ExitInv, ContractOK
  <1>5. Grows
    BY <1>1, <1>2, Numbers DEF ExitInv, TypeOK, Grows, Versions
  <1> QED
    BY <1>3, <1>4, <1>5

\* What a transaction of the library does when the contract accepts it.
LEMMA EffectStep ==
    ASSUME ExitInv, NEW t \in Tx, t.n <= version, Effect(t), clock' = clock
    PROVE  ContractType' /\ ContractOK' /\ Grows /\ Happened(t)'
  <1>1. /\ t.n \in Versions
        /\ t.kind \in {"execute", "cancel"} => t.exit \in Exits
    BY TxType
  <1>2. CASE t.kind = "request" /\ Commit(t.n)
    <2>1. ContractType' /\ ContractOK' /\ Grows /\ log'[t.n] # <<>>
      BY <1>1, <1>2, CommitStep
    <2> QED
      BY <1>2, <2>1 DEF Happened
  <1>3. CASE t.kind = "execute" /\ Execute(t.n, t.exit)
    <2>1. ContractType' /\ ContractOK' /\ Grows /\ dead'
      BY <1>1, <1>3, ExecuteStep
    <2> QED
      BY <1>3, <2>1 DEF Happened
  <1>4. CASE t.kind = "cancel" /\ Cancel(t.n, t.exit)
    <2>1. /\ ContractType' /\ ContractOK' /\ Grows
          /\ \E i \in 2 .. Len(log'[t.n]) : log'[t.n][i] = 0 /\ log'[t.n][i - 1] = t.exit
      BY <1>1, <1>4, CancelStep
    <2> QED
      BY <1>4, <2>1 DEF Happened
  <1> QED
    BY <1>2, <1>3, <1>4, EffectIs

-----------------------------------------------------------------------------
(* What steps of the contract leave true *)

\* What a call has read stays true, or what has become of it is seen.
LEMMA TruthSeen ==
    ASSUME pc # "idle", Seen, seen' = seen \cup Truth'
    PROVE  /\ Truth \subseteq seen' /\ Truth' \subseteq seen' /\ seen \subseteq seen'
           /\ (dead => "Completed" \in seen) /\ (dead' => "Completed" \in seen')
  <1>1. (dead => "Completed" \in Truth) /\ (dead' => "Completed" \in Truth')
    BY DEF Truth, TrueState
  <1> QED
    BY <1>1 DEF Seen

\* What has happened to a nullifier stays in its log.
LEMMA TraceKept ==
    ASSUME ExitInv, ContractType', Grows, NEW n \in Versions
    PROVE  /\ ToSet(log[n]) \subseteq ToSet(log'[n])
           /\ log[n] # <<>> => log'[n] # <<>>
           /\ \A e : (\E i \in 2 .. Len(log[n]) : log[n][i] = 0 /\ log[n][i - 1] = e)
                     => (\E i \in 2 .. Len(log'[n]) : log'[n][i] = 0 /\ log'[n][i - 1] = e)
           /\ Gone(n) => Gone(n)'
  <1>1. log[n] \in Seq(Exits \cup {0}) /\ log'[n] \in Seq(Exits \cup {0})
    BY DEF ExitInv, TypeOK, ContractType
  <1>2. Len(log[n]) \in Nat /\ Len(log'[n]) \in Nat /\ Len(log[n]) <= Len(log'[n])
    BY <1>1 DEF Grows
  <1>3. \A i \in 1 .. Len(log[n]) : i \in 1 .. Len(log'[n]) /\ log'[n][i] = log[n][i]
    BY <1>2 DEF Grows
  <1>4. ToSet(log[n]) \subseteq ToSet(log'[n])
    BY <1>1, <1>3, Logged
  <1>5. log[n] # <<>> => log'[n] # <<>>
    BY <1>1, <1>3, Logged
  <1>6. ASSUME NEW e, NEW i \in 2 .. Len(log[n]), log[n][i] = 0, log[n][i - 1] = e
        PROVE  i \in 2 .. Len(log'[n]) /\ log'[n][i] = 0 /\ log'[n][i - 1] = e
    <2>1. i \in 1 .. Len(log[n]) /\ i - 1 \in 1 .. Len(log[n])
      BY <1>2
    <2> QED
      BY <1>2, <1>3, <1>6, <2>1
  <1>7. Gone(n) => Gone(n)'
    BY <1>4, Numbers DEF Gone, Grows, ContractType, ExitInv, TypeOK
  <1> QED
    BY <1>4, <1>5, <1>6, <1>7

\* A transaction that took effect has done so for good.
LEMMA HappenedKept ==
    ASSUME ExitInv, ContractType', Grows, NEW t \in Tx, Happened(t)
    PROVE  Happened(t)'
  <1>1. t.n \in Versions /\ t.kind \in {"request", "execute", "cancel"}
    BY TxType
  <1> QED
    BY <1>1, TraceKept, ZenonT(30) DEF Happened, Grows

\* What a running call has read stays true, or what became of it has been seen.
LEMMA ReadsKept ==
    ASSUME ExitInv, ContractType', Grows, UNCHANGED <<local, reads, call>>, tx' = tx \/ pc = "poll",
           seen' = seen \cup Truth', pc # "idle"
    PROVE  ReadsTrue'
  <1>1. /\ Truth \subseteq seen' /\ Truth' \subseteq seen' /\ seen \subseteq seen'
        /\ (dead' => "Completed" \in seen')
    BY TruthSeen DEF ExitInv
  <1>2. UNCHANGED <<nul, anul, todo, alive, hashed, exit, pc, stage>>
    BY DEF reads, call
  <1>3. anul < version => anul < version'
    BY Numbers DEF ExitInv, TypeOK, ContractType, Grows
  <1>4. ASSUME pc \in {"reads", "decide"}, NoneActive PROVE NoneActive'
    <2>1. NoneSeen'
      BY <1>1, <1>2, <1>3, <1>4 DEF NoneActive, NoneSeen
    <2>2. ASSUME stage = "result" PROVE Gone(tx.n)'
      <3>1. tx \in Tx /\ tx' = tx
        BY <1>4, <2>2 DEF ExitInv, Control
      <3>2. tx.n \in Versions /\ Gone(tx.n)
        BY <1>4, <2>2, <3>1, TxType DEF NoneActive
      <3>3. \A n \in Versions : Gone(n) => Gone(n)'
        BY TraceKept
      <3> QED
        BY <3>1, <3>2, <3>3 DEF Gone
    <2> QED
      BY <1>2, <2>1, <2>2 DEF NoneActive
  <1>5. ASSUME pc = "decide", exit # 0, ExitSeen PROVE ExitSeen'
    <2>1. exit \in Exits /\ anul \in Versions /\ anul <= version
      BY <1>5, Numbers DEF ExitInv, TypeOK, Behind
    <2>2. CASE commits[anul] = exit
      <3>1. commits'[anul] = exit \/ dead' \/ (anul = version /\ ~dead /\ clock > exit + Window)
        BY <2>1, <2>2 DEF Grows
      <3>2. ASSUME anul = version, ~dead, clock > exit + Window
            PROVE  {"Outdated", "Free"} \subseteq Truth /\ clock' > exit + Window
        <4>1. TrueState = "Outdated" /\ Free
          BY <2>1, <2>2, <3>2, <1>5, Numbers DEF TrueState, Phase, Free, ExitInv, TypeOK
        <4>2. clock' > exit + Window
          BY <2>1, <3>2, Numbers, SMTT(30) DEF Grows, ExitInv, TypeOK, ContractType
        <4> QED
          BY <3>2, <4>1, <4>2 DEF Truth
      <3> QED
        BY <1>1, <1>2, <3>1, <3>2 DEF ExitSeen
    <2>3. CASE "Completed" \in seen \/ anul < version
      BY <1>1, <1>2, <1>3, <2>3 DEF ExitSeen
    <2>4. CASE clock > exit + Window /\ {"Outdated", "Free"} \subseteq seen
      <3>1. clock' > exit + Window
        BY <2>1, <2>4, Numbers DEF Grows, ExitInv, TypeOK, ContractType
      <3> QED
        BY <1>1, <1>2, <2>4, <3>1 DEF ExitSeen
    <2> QED
      BY <1>5, <2>2, <2>3, <2>4 DEF ExitSeen
  <1>6. ToSet(log[anul]) \subseteq ToSet(log'[anul])
    BY TraceKept DEF ExitInv, TypeOK
  <1> QED
    BY <1>2, <1>4, <1>5, <1>6 DEF ExitInv, ReadsTrue, Grows

\* What a call has reported stays true.
LEMMA ReportsKept ==
    ASSUME ExitInv, ContractType', Grows, UNCHANGED <<local, reads, call, tx>>, seen' = seen,
           pc = "idle"
    PROVE  StateSound' /\ TransactAllowed' /\ OutcomeTrue'
  <1>1. UNCHANGED <<nul, anul, exit, op, pc, told>>
    BY DEF reads, call
  <1>2. (nul < version => nul < version') /\ (anul < version => anul < version')
    BY Numbers, SMTT(30) DEF ExitInv, TypeOK, ContractType, Grows
  <1>3. StateSound' /\ TransactAllowed'
    BY <1>1, <1>2 DEF ExitInv, StateSound, TransactAllowed
  <1>4. told = "executed" => dead'
    BY DEF ExitInv, OutcomeTrue, Grows
  <1>5. ASSUME told \in {"cancelled", "committed", "reverted"}
        PROVE  /\ tx.n \in Versions /\ (version > tx.n => version' > tx.n)
               /\ Gone(tx.n) => Gone(tx.n)'
    <2>1. tx \in Tx
      BY <1>5 DEF ExitInv, Reported
    <2>2. tx.n \in Versions
      BY <2>1, TxType
    <2>3. \A n \in Versions : Gone(n) => Gone(n)'
      BY TraceKept
    <2>4. tx.n \in Int /\ version \in Int /\ version' \in Int /\ version <= version'
      BY <2>2, Numbers, Zenon DEF ExitInv, TypeOK, ContractType, Grows
    <2>5. version > tx.n => version' > tx.n
      BY <2>4
    <2> QED
      BY <2>2, <2>3, <2>5 DEF Gone
  <1>6. told = "cancelled" => \E i \in 2 .. Len(log'[tx.n]) :
            log'[tx.n][i] = 0 /\ log'[tx.n][i - 1] = tx.exit
    BY <1>5, TraceKept DEF ExitInv, OutcomeTrue
  <1>7. told = "committed" => exit \in ToSet(log'[anul]) /\ (anul = tx.n \/ version' > tx.n)
    BY <1>5, TraceKept DEF ExitInv, TypeOK, OutcomeTrue
  <1>8. told = "reverted" /\ tx.state = "ok" =>
            op = "request" /\ (dead' \/ version' > tx.n \/ 0 \in ToSet(log'[tx.n]))
    BY <1>5 DEF ExitInv, OutcomeTrue, Gone
  <1>9. OutcomeTrue'
    BY <1>1, <1>4, <1>6, <1>7, <1>8 DEF OutcomeTrue
  <1> QED
    BY <1>3, <1>9

\* A step of the contract keeps the invariant when no transaction of the library ends in it.
LEMMA ContractSteps ==
    ASSUME ExitInv, ContractType', ContractOK', Grows, UNCHANGED <<local, reads, call, tx>>,
           late' \subseteq late, Observe
    PROVE  ExitInv'
  <1>1. UNCHANGED <<nul, anul, todo, alive, hashed, exit, op, pc, stage, told, calls, local, tx>>
    BY DEF reads, call
  <1>2. TypeOK'
    BY <1>1 DEF ExitInv, TypeOK, ContractType, Observe, Truth, TrueState, Phase, States
  <1>3. Behind' /\ Control' /\ Reported'
    BY <1>1, Numbers DEF ExitInv, TypeOK, ContractType, Grows, Behind, Control, Reported
  <1>4. Sent'
    <2>1. ASSUME NEW t \in late' PROVE t.n <= version'
      <3>1. t \in Tx /\ t.n <= version
        BY DEF ExitInv, TypeOK, Sent
      <3>2. t.n \in Int /\ version \in Int /\ version' \in Int /\ version <= version'
        BY <3>1, TxType, Numbers, Zenon DEF ExitInv, TypeOK, ContractType, Grows
      <3> QED
        BY <3>1, <3>2
    <2>2. tx \in Tx /\ Happened(tx) => Happened(tx)'
      <3>1. \A t \in Tx : Happened(t) => Happened(t)'
        BY HappenedKept
      <3> QED
        BY <1>1, <3>1 DEF Happened
    <2> QED
      BY <1>1, <2>1, <2>2 DEF ExitInv, Sent
  <1>5. CASE pc = "idle"
    <2>1. seen' = seen
      BY <1>5 DEF Observe
    <2>2. Seen' /\ ReadsTrue'
      BY <1>1, <1>5 DEF Seen, ReadsTrue
    <2> QED
      BY <1>2, <1>3, <1>4, <1>5, <2>1, <2>2, ReportsKept DEF ExitInv
  <1>6. CASE pc # "idle"
    <2>1. seen' = seen \cup Truth'
      BY <1>6 DEF Observe
    <2>2. Seen'
      BY <2>1 DEF Seen
    <2>3. ReadsTrue'
      BY <1>6, <2>1, ReadsKept
    <2>4. StateSound' /\ TransactAllowed' /\ OutcomeTrue'
      BY <1>1, <1>6 DEF StateSound, TransactAllowed, OutcomeTrue
    <2> QED
      BY <1>2, <1>3, <1>4, <2>2, <2>3, <2>4 DEF ExitInv
  <1> QED
    BY <1>5, <1>6

\* Other devices and the executor act.
LEMMA OthersInv == ASSUME ExitInv, Others PROVE ExitInv'
  <1>1. UNCHANGED <<clock, late, local, reads, call, tx>> /\ Observe
    BY DEF Others
  <1>2. version \in Versions /\ version <= version
    BY Numbers DEF ExitInv, TypeOK
  <1>3. ContractType' /\ ContractOK' /\ Grows
    <2>1. CASE Commit(version)
      BY <1>1, <1>2, <2>1, CommitStep
    <2>2. CASE Execute(version, commits[version])
      BY <1>1, <1>2, <2>2, ExecuteStep
    <2>3. CASE Cancel(version, commits[version])
      <3>1. commits[version] \in Exits
        BY <2>3 DEF Cancel, ExitInv, TypeOK
      <3> QED
        BY <1>1, <1>2, <2>3, <3>1, CancelStep
    <2>4. CASE Transact
      BY <1>1, <2>4, TransactStep
    <2> QED
      BY <2>1, <2>2, <2>3, <2>4 DEF Others
  <1> QED
    BY <1>1, <1>3, ContractSteps

\* Time passes during a call or between two.
LEMMA TickInv == ASSUME ExitInv, Tick PROVE ExitInv'
  <1>1. UNCHANGED <<late, local, reads, call, tx>> /\ Observe
    BY DEF Tick
  <1> QED
    BY <1>1, TickStep, ContractSteps

\* A transaction is mined for which the library does not wait any more.
LEMMA MineLateInv == ASSUME ExitInv, NEW t \in late, MineLate(t) PROVE ExitInv'
  <1>1. /\ UNCHANGED <<clock, local, reads, call, tx>> /\ Observe /\ late' \subseteq late
        /\ Effect(t)
    BY DEF MineLate
  <1>2. t \in Tx /\ t.n <= version
    BY DEF ExitInv, TypeOK, Sent
  <1>3. ContractType' /\ ContractOK' /\ Grows
    BY <1>1, <1>2, EffectStep
  <1> QED
    BY <1>1, <1>3, ContractSteps

\* The transaction that the call polls is mined.
LEMMA MineInv == ASSUME ExitInv, Mine PROVE ExitInv'
  <1>1. /\ UNCHANGED <<clock, late, local, reads, call>> /\ Observe
        /\ tx # NoTx /\ tx.state = "pending"
    BY DEF Mine
  <1>2. tx \in Tx /\ pc = "poll" /\ tx.n <= local
    BY <1>1 DEF ExitInv, TypeOK, Sent
  <1>3. PICK t \in Tx : t = tx
    BY <1>2
  <1>4. t.n \in Versions /\ t.n <= version
    <2>1. t.n \in Versions /\ t.n <= local /\ local <= version
      BY <1>2, <1>3, TxType DEF ExitInv, Behind
    <2>2. t.n \in Int /\ local \in Int /\ version \in Int
      BY <2>1, Numbers, Zenon DEF ExitInv, TypeOK
    <2> QED
      BY <2>1, <2>2
  <1>5. UNCHANGED <<nul, anul, todo, alive, hashed, exit, op, pc, stage, told, calls, local, late>>
    BY <1>1 DEF reads, call
  <1>6. \E s \in {"ok", "failed"} : /\ tx' = [t EXCEPT !.state = s]
                                    /\ s = "ok" => Effect(t)
                                    /\ s = "failed" => UNCHANGED <<version, dead, commits, log>>
    BY <1>3 DEF Mine
  <1>7. /\ tx' \in Tx /\ tx'.kind = t.kind /\ tx'.n = t.n /\ tx'.exit = t.exit
        /\ tx'.state \in {"ok", "failed"}
        /\ tx'.state = "ok" => Effect(t)
        /\ tx'.state = "failed" => UNCHANGED <<version, dead, commits, log>>
    <2>1. PICK s \in {"ok", "failed"} : /\ tx' = [t EXCEPT !.state = s]
                                        /\ s = "ok" => Effect(t)
                                        /\ s = "failed" => UNCHANGED <<version, dead, commits, log>>
      BY <1>6, Zenon
    <2>2. PICK u : u = tx'
      OBVIOUS
    <2>3. u \in Tx /\ u.kind = t.kind /\ u.n = t.n /\ u.exit = t.exit /\ u.state = s
      BY <2>1, <2>2, TxEnd
    <2> QED
      BY <2>1, <2>2, <2>3
  <1>8. ContractType' /\ ContractOK' /\ Grows /\ (tx'.state = "ok" => Happened(tx)')
    <2>1. CASE tx'.state = "ok"
      <3>1. ContractType' /\ ContractOK' /\ Grows /\ Happened(t)'
        BY <1>1, <1>4, <1>7, <2>1, EffectStep
      <3> QED
        BY <1>7, <3>1 DEF Happened
    <2>2. CASE tx'.state = "failed"
      <3>1. UNCHANGED <<clock, version, dead, commits, log>>
        BY <1>1, <1>7, <2>2
      <3>2. \A m \in Versions : Len(log[m]) \in Nat
        BY DEF ExitInv, TypeOK
      <3>3. Grows
        BY <3>1, <3>2, Numbers DEF ExitInv, TypeOK, Grows
      <3> QED
        BY <2>2, <3>1, <3>3 DEF ExitInv, TypeOK, ContractType, ContractOK
    <2> QED
      BY <1>7, <2>1, <2>2
  <1>9. TypeOK'
    BY <1>1, <1>5, <1>7, <1>8 DEF ExitInv, TypeOK, ContractType, Observe, Truth, TrueState, Phase, States
  <1>10. Behind' /\ Reported'
    BY <1>2, <1>5, <1>8, Numbers DEF ExitInv, TypeOK, ContractType, Grows, Behind, Reported
  <1>11. Control'
    BY <1>2, <1>3, <1>5, <1>7 DEF ExitInv, Control
  <1>12. Sent'
    <2>1. ASSUME NEW u \in late' PROVE u.n <= version'
      <3>1. u \in Tx /\ u.n <= version
        BY <1>5 DEF ExitInv, TypeOK, Sent
      <3>2. u.n \in Int /\ version \in Int /\ version' \in Int /\ version <= version'
        BY <1>8, <3>1, TxType, Numbers, Zenon DEF ExitInv, TypeOK, ContractType, Grows
      <3> QED
        BY <3>1, <3>2
    <2>2. tx'.n <= local'
      BY <1>2, <1>3, <1>5, <1>7
    <2> QED
      BY <1>7, <1>8, <2>1, <2>2 DEF Sent
  <1>13. Seen' /\ ReadsTrue'
    <2>1. seen' = seen \cup Truth'
      BY <1>1, <1>2 DEF Observe
    <2>2. ReadsTrue'
      BY <1>1, <1>2, <1>8, <2>1, ReadsKept
    <2> QED
      BY <2>1, <2>2 DEF Seen
  <1>14. StateSound' /\ TransactAllowed' /\ OutcomeTrue'
    BY <1>2, <1>5 DEF StateSound, TransactAllowed, OutcomeTrue
  <1> QED
    BY <1>8, <1>9, <1>10, <1>11, <1>12, <1>13, <1>14 DEF ExitInv

-----------------------------------------------------------------------------
(* What the steps of a call leave alone *)

\* A step that does not end the call.
LEMMA Goes ==
    ASSUME ExitInv, pc # "idle", pc' # "idle", UNCHANGED <<contract, seen>>
    PROVE  /\ ContractOK' /\ Reported' /\ Seen' /\ StateSound' /\ TransactAllowed' /\ OutcomeTrue'
           /\ UNCHANGED <<clock, version, dead, commits, log>>
  <1>1. UNCHANGED <<clock, version, dead, commits, log>>
    BY DEF contract
  <1>2. Truth' = Truth
    BY <1>1 DEF Truth, TrueState, Phase, Free
  <1>3. ContractOK' /\ Seen'
    BY <1>1, <1>2 DEF ExitInv, ContractOK, Seen
  <1>4. Reported' /\ StateSound' /\ TransactAllowed' /\ OutcomeTrue'
    BY DEF Reported, StateSound, TransactAllowed, OutcomeTrue
  <1> QED
    BY <1>1, <1>3, <1>4

\* A transaction that is not waited for is no longer pending.
LEMMA SentKept ==
    ASSUME ExitInv, UNCHANGED <<late, tx, version, log, dead>>, local' = local \/ local' = version,
           tx \in Tx => (tx.state = "pending" => pc' = "poll")
    PROVE  Sent'
  <1>1. tx \in Tx => tx.n <= local'
    <2>1. ASSUME tx \in Tx PROVE tx.n <= local'
      <3>1. tx.n <= local /\ local <= version /\ tx.n \in Int
        BY <2>1, TxType, Numbers, Zenon DEF ExitInv, Sent, Behind
      <3>2. local \in Int /\ version \in Int
        BY Numbers, Zenon DEF ExitInv, TypeOK
      <3> QED
        BY <3>1, <3>2
    <2> QED
      BY <2>1
  <1>2. tx \in Tx /\ Happened(tx) => Happened(tx)'
    BY DEF Happened
  <1> QED
    BY <1>1, <1>2 DEF ExitInv, Sent

\* The end of a call.
LEMMA Returns ==
    ASSUME ExitInv, pc # "idle", NEW result \in Results, Return(result),
           UNCHANGED <<contract, late, local, seen, anul, todo, alive, hashed, exit, tx>>,
           nul' \in Versions, nul' <= local,
           tx \in Tx => tx.state # "pending",
           result \in {"cancelled", "committed", "reverted"} => tx \in Tx
    PROVE  /\ TypeOK' /\ ContractOK' /\ Behind' /\ Control' /\ Sent' /\ Reported' /\ Seen' /\ ReadsTrue'
           /\ result \notin States => StateSound'
           /\ result # "allowed" => TransactAllowed'
           /\ result \notin {"executed", "cancelled", "committed", "reverted"} => OutcomeTrue'
  <1>1. /\ UNCHANGED <<clock, version, dead, commits, log, op, stage, calls>>
        /\ pc' = "idle" /\ told' = result
    BY DEF Return, contract
  <1>2. TypeOK'
    BY <1>1 DEF ExitInv, TypeOK
  <1>3. ContractOK' /\ Behind' /\ Control' /\ Reported' /\ Seen' /\ ReadsTrue'
    BY <1>1 DEF ExitInv, ContractOK, Behind, Control, Reported, Seen, ReadsTrue
  <1>4. Sent'
    BY <1>1, SentKept
  <1>5. /\ result \notin States => StateSound'
        /\ result # "allowed" => TransactAllowed'
        /\ result \notin {"executed", "cancelled", "committed", "reverted"} => OutcomeTrue'
    BY <1>1 DEF StateSound, TransactAllowed, OutcomeTrue
  <1> QED
    BY <1>2, <1>3, <1>4, <1>5

\* forcedExitState has found out a state.
LEMMA ReachedInv ==
    ASSUME ExitInv, pc \in {"value", "hash", "decide"}, NEW state \in States, Reached(state),
           UNCHANGED <<contract, late, local, seen, anul, todo, alive, hashed, exit, tx>>,
           nul' \in Versions, nul' <= local,
           op = "state" => state \in seen \/ "Completed" \in seen \/ nul' < version
    PROVE  ExitInv'
  <1>1. tx \in Tx => tx.state # "pending"
    BY TxType DEF ExitInv, Sent
  <1>2. \/ op = "state" /\ Return(state)
        \/ op \in {"execute", "cancel"} /\ GetActive("act")
        \/ Return("error")
    BY DEF Reached
  <1>3. CASE op = "state" /\ Return(state)
    <2>1. /\ state \in Results
          /\ state \notin {"allowed", "executed", "cancelled", "committed", "reverted"}
      BY DEF States, Results
    <2>2. StateSound'
      BY <1>3 DEF StateSound, Return, contract
    <2> QED
      BY <1>1, <1>3, <2>1, <2>2, Returns DEF ExitInv
  <1>4. CASE op \in {"execute", "cancel"} /\ GetActive("act")
    <2>1. pc' = "active" /\ stage' = "act" /\ UNCHANGED <<op, told, calls>>
      BY <1>4 DEF GetActive
    <2>2. /\ ContractOK' /\ Reported' /\ Seen' /\ StateSound' /\ TransactAllowed' /\ OutcomeTrue'
          /\ UNCHANGED <<clock, version, dead, commits, log>>
      BY <2>1, Goes
    <2>3. TypeOK'
      BY <2>1, <2>2 DEF ExitInv, TypeOK
    <2>4. Behind' /\ Control' /\ ReadsTrue'
      BY <1>4, <2>1, <2>2 DEF ExitInv, Behind, Control, ReadsTrue
    <2>5. Sent'
      BY <1>1, <2>2, SentKept
    <2> QED
      BY <2>2, <2>3, <2>4, <2>5 DEF ExitInv
  <1>5. CASE Return("error")
    <2>1. "error" \in Results /\ "error" \notin States
      BY DEF States, Results
    <2> QED
      BY <1>1, <1>5, <2>1, Returns DEF ExitInv
  <1> QED
    BY <1>2, <1>3, <1>4, <1>5

-----------------------------------------------------------------------------
(* The steps of a call, one by one *)

\* A call begins: the observer sees the state of the moment.
LEMMA BeginInv == ASSUME ExitInv, NEW o \in Ops, Begin(o) PROVE ExitInv'
  <1>1. /\ UNCHANGED <<clock, version, dead, commits, log, late, local, stage, todo, alive, hashed>>
        /\ op' = o /\ pc' = "sync" /\ told' = "none" /\ tx' = NoTx
        /\ nul' = 0 /\ anul' = 0 /\ exit' = 0 /\ seen' = Truth
        /\ calls < MaxCalls /\ calls' = calls + 1
    BY DEF Begin, contract
  <1>2. 0 \in Versions /\ NoTx \notin Tx
    BY TxType, ForcedExitAssumption DEF Versions
  <1>3. Truth \subseteq States \cup {"Free"}
    BY DEF Truth, TrueState, Phase, States
  <1>4. TypeOK'
    <2>1. calls' \in 0 .. MaxCalls
      BY <1>1, ForcedExitAssumption DEF ExitInv, TypeOK
    <2> QED
      BY <1>1, <1>2, <1>3, <2>1 DEF ExitInv, TypeOK, Results
  <1>5. ContractOK' /\ Control' /\ Reported' /\ ReadsTrue'
    BY <1>1, <1>2 DEF ExitInv, ContractOK, Control, Reported, ReadsTrue
  <1>6. Behind'
    BY <1>1, Numbers DEF ExitInv, TypeOK, Behind
  <1>7. Sent'
    BY <1>1, <1>2 DEF ExitInv, Sent
  <1>8. Seen'
    BY <1>1 DEF Seen, Truth, TrueState, Phase, Free
  <1>9. StateSound' /\ TransactAllowed' /\ OutcomeTrue'
    BY <1>1 DEF StateSound, TransactAllowed, OutcomeTrue
  <1> QED
    BY <1>4, <1>5, <1>6, <1>7, <1>8, <1>9 DEF ExitInv

\* A sync brings the local nullifier up to the contract's, or leaves it.
LEMMA SyncInv == ASSUME ExitInv, Sync \/ OtherSync PROVE ExitInv'
  <1>1. /\ UNCHANGED <<contract, seen, late, reads, tx, op, told, calls>> /\ local' \in {local, version}
        /\ pc # "idle" /\ pc' # "idle"
    BY DEF Sync, OtherSync, Goto, GetActive, call
  <1>2. /\ ContractOK' /\ Reported' /\ Seen' /\ StateSound' /\ TransactAllowed' /\ OutcomeTrue'
        /\ UNCHANGED <<clock, version, dead, commits, log>>
    BY <1>1, Goes
  <1>3. UNCHANGED <<nul, anul, todo, alive, hashed, exit>>
    BY <1>1 DEF reads
  <1>4. \/ pc = "sync" /\ pc' = (IF op = "request" THEN "create" ELSE "value") /\ stage' = stage
        \/ pc = "resync" /\ pc' = "active" /\ stage' = "lock"
        \/ pc' = pc /\ stage' = stage
    BY DEF Sync, OtherSync, Goto, GetActive, call
  <1>5. TypeOK'
    BY <1>1, <1>2, <1>3, <1>4 DEF ExitInv, TypeOK
  <1>6. Behind'
    BY <1>1, <1>2, <1>3, <1>4, Numbers DEF ExitInv, TypeOK, Behind
  <1>7. Control'
    BY <1>1, <1>3, <1>4 DEF ExitInv, Control
  <1>8. Sent'
    <2>1. tx \in Tx => (tx.state = "pending" => pc' = "poll")
      BY <1>4 DEF ExitInv, Sent
    <2> QED
      BY <1>1, <1>2, <2>1, SentKept
  <1>9. ReadsTrue'
    BY <1>1, <1>2, <1>3, <1>4 DEF ExitInv, ReadsTrue, NoneActive, NoneSeen, Gone, ExitSeen
  <1> QED
    BY <1>2, <1>5, <1>6, <1>7, <1>8, <1>9 DEF ExitInv

\* The value of a nullifier: dead only if the exit was executed.
LEMMA ValueIs ==
    ASSUME ExitInv, NEW n \in Versions, n <= version
    PROVE  /\ Value(n) = "dead" => dead /\ n = version
           /\ Value(n) = "zero" => ~dead /\ n = version
           /\ Value(n) \in {"dead", "zero", "used"}
  BY Numbers DEF Value, ExitInv, TypeOK

\* The first read of forcedExitState, and of a transaction (isAccountDead).
LEMMA ReadValueInv == ASSUME ExitInv, ReadValue PROVE ExitInv'
  <1>1. /\ UNCHANGED <<contract, late, local, seen, anul, todo, alive, hashed, exit, tx>>
        /\ pc = "value" /\ nul' = local
    BY DEF ReadValue
  <1>2. /\ local \in Versions /\ local <= version /\ nul' \in Versions /\ nul' <= local
        /\ op \in Ops /\ op # "request"
    BY <1>1, Numbers DEF ExitInv, TypeOK, Behind, Control
  <1>3. tx \in Tx => tx.state # "pending"
    BY <1>1 DEF ExitInv, Sent
  <1>4. \/ op = "transact" /\ Return("dead")
        \/ op = "transact" /\ Goto("resync")
        \/ op # "transact" /\ Goto("hash")
        \/ Value(local) = "dead" /\ Reached("Completed")
        \/ Return("error")
    BY <1>2, ValueIs DEF ReadValue
  <1>5. ASSUME NEW result \in {"dead", "error"}, Return(result) PROVE ExitInv'
    <2>1. /\ result \in Results /\ result \notin States
          /\ result \notin {"allowed", "executed", "cancelled", "committed", "reverted"}
      BY DEF States, Results
    <2> QED
      BY <1>1, <1>2, <1>3, <1>5, <2>1, Returns DEF ExitInv
  <1>6. ASSUME NEW step, Goto(step),
               (op = "transact" /\ step = "resync") \/ (op # "transact" /\ step = "hash")
        PROVE  ExitInv'
    <2>1. pc' = step /\ step \in {"resync", "hash"} /\ UNCHANGED <<op, stage, told, calls>>
      BY <1>6 DEF Goto
    <2>2. /\ ContractOK' /\ Reported' /\ Seen' /\ StateSound' /\ TransactAllowed' /\ OutcomeTrue'
          /\ UNCHANGED <<clock, version, dead, commits, log>>
      BY <1>1, <2>1, Goes
    <2>3. TypeOK'
      BY <1>1, <1>2, <2>1, <2>2 DEF ExitInv, TypeOK
    <2>4. Behind' /\ ReadsTrue'
      BY <1>1, <1>2, <2>1, <2>2 DEF ExitInv, Behind, ReadsTrue
    <2>5. Control'
      BY <1>2, <1>6, <2>1 DEF Control, Ops
    <2>6. Sent'
      BY <1>1, <1>3, <2>2, SentKept
    <2> QED
      BY <2>2, <2>3, <2>4, <2>5, <2>6 DEF ExitInv
  <1>7. ASSUME Value(local) = "dead", Reached("Completed") PROVE ExitInv'
    <2>1. dead
      BY <1>2, <1>7, ValueIs
    <2>2. "Completed" \in seen
      BY <1>1, <2>1 DEF ExitInv, Seen, Truth, TrueState
    <2>3. "Completed" \in States
      BY DEF States
    <2> QED
      BY <1>1, <1>2, <1>7, <2>2, <2>3, ReachedInv
  <1> QED
    BY <1>4, <1>5, <1>6, <1>7

\* An account without a committed exit was without one at a moment of the call.
LEMMA NoExit ==
    ASSUME ExitInv, pc \in {"reads", "decide"}, dead \/ commits[anul] = 0 \/ Committed(anul) = 0
    PROVE  NoneActive
  <1>1. /\ anul \in Versions /\ anul <= version /\ nul \in Versions /\ nul <= anul
        /\ version \in Versions /\ Truth \subseteq seen
        /\ version \in Int /\ anul \in Int /\ nul \in Int
    BY Numbers DEF ExitInv, TypeOK, Behind, Seen
  <1>2. log[anul] \in Seq(Exits \cup {0}) /\ commits[anul] \in Exits \cup {0}
    BY <1>1 DEF ExitInv, TypeOK
  <1>3. CASE dead
    BY <1>1, <1>3 DEF NoneActive, NoneSeen, Gone, Truth, TrueState
  <1>4. CASE ~dead
    <2>1. commits[anul] = 0
      BY <1>1, <1>4 DEF Committed, ExitInv, ContractOK
    <2>2. log[anul] # <<>> => 0 \in ToSet(log[anul])
      BY <1>1, <1>2, <1>4, <2>1, Logged DEF ExitInv, ContractOK
    <2>3. NoneSeen
      <3>1. anul = version => {"NotStarted", "Free"} \subseteq Truth
        BY <1>4, <2>1 DEF Truth, TrueState, Free
      <3> QED
        BY <1>1, <3>1 DEF NoneSeen
    <2>4. ASSUME stage = "result" PROVE Gone(tx.n)
      <3>1. tx \in Tx /\ tx.n = nul /\ tx.kind = "request" /\ tx.state = "ok"
        BY <2>4 DEF ExitInv, Control
      <3>2. log[nul] # <<>>
        BY <3>1 DEF ExitInv, Sent, Happened
      <3>3. CASE nul = anul
        BY <2>2, <3>1, <3>2, <3>3 DEF Gone
      <3>4. CASE nul # anul
        BY <1>1, <3>1, <3>4 DEF Gone
      <3> QED
        BY <3>3, <3>4
    <2> QED
      BY <2>3, <2>4 DEF NoneActive
  <1> QED
    BY <1>3, <1>4

\* The second read of forcedExitState.
LEMMA ReadHashInv == ASSUME ExitInv, ReadHash PROVE ExitInv'
  <1>1. /\ UNCHANGED <<contract, late, local, seen, nul, anul, todo, alive, hashed, exit, tx>>
        /\ pc = "hash" /\ op \in {"state", "execute", "cancel"}
    BY DEF ReadHash, reads, ExitInv, Control
  <1>2. nul \in Versions /\ nul <= local /\ local <= version /\ nul <= version
    <2>1. nul \in Versions /\ nul <= local /\ local <= version
      BY DEF ExitInv, TypeOK, Behind
    <2>2. nul \in Int /\ local \in Int /\ version \in Int
      BY Numbers, Zenon DEF ExitInv, TypeOK
    <2> QED
      BY <2>1, <2>2
  <1>3. CASE commits[nul] = 0
    <2>1. Reached("NotStarted") /\ "NotStarted" \in States
      BY <1>3 DEF ReadHash, States
    <2>2. "NotStarted" \in seen \/ "Completed" \in seen \/ nul < version
      <3>1. nul = version => TrueState \in {"NotStarted", "Completed"}
        BY <1>3 DEF TrueState
      <3>2. TrueState \in seen
        BY <1>1 DEF ExitInv, Seen, Truth
      <3>3. nul \in Int /\ version \in Int
        BY Numbers, Zenon DEF ExitInv, TypeOK
      <3> QED
        BY <1>2, <3>1, <3>2, <3>3
    <2> QED
      BY <1>1, <1>2, <2>1, <2>2, ReachedInv
  <1>4. CASE commits[nul] # 0
    <2>1. pc' = "active" /\ stage' = "state" /\ UNCHANGED <<op, told, calls>>
      BY <1>4 DEF ReadHash, GetActive
    <2>2. /\ ContractOK' /\ Reported' /\ Seen' /\ StateSound' /\ TransactAllowed' /\ OutcomeTrue'
          /\ UNCHANGED <<clock, version, dead, commits, log>>
      BY <1>1, <2>1, Goes
    <2>3. TypeOK'
      BY <1>1, <2>1, <2>2 DEF ExitInv, TypeOK
    <2>4. Behind' /\ Control' /\ ReadsTrue'
      BY <1>1, <2>1, <2>2 DEF ExitInv, Behind, Control, ReadsTrue
    <2>5. Sent'
      BY <1>1, <2>2, SentKept DEF ExitInv, Sent
    <2> QED
      BY <2>2, <2>3, <2>4, <2>5 DEF ExitInv
  <1> QED
    BY <1>3, <1>4

\* The steps of getActiveForcedExit.
LEMMA ActiveInv ==
    ASSUME ExitInv, Active \/ ReadDead \/ ReadCommitted \/ ReadLog
    PROVE  ExitInv'
  <1>1. /\ UNCHANGED <<contract, late, local, nul, tx, seen, op, stage, told, calls>>
        /\ pc \in {"active", "reads"} /\ pc' \in {"reads", "decide"}
    BY DEF Active, ReadDead, ReadCommitted, ReadLog, Goto, call
  <1>2. /\ ContractOK' /\ Reported' /\ Seen' /\ StateSound' /\ TransactAllowed' /\ OutcomeTrue'
        /\ UNCHANGED <<clock, version, dead, commits, log>>
    BY <1>1, Goes
  <1>3. Sent' /\ (tx \in Tx => tx.state # "pending")
    BY <1>1, <1>2, SentKept DEF ExitInv, Sent
  <1>4. Control'
    BY <1>1 DEF ExitInv, Control
  <1>5. CASE Active
    <2>1. pc' = "reads" /\ anul' = local /\ todo' = {"dead", "hash"} /\ UNCHANGED <<alive, hashed, exit>>
      BY <1>5 DEF Active, Goto
    <2>2. TypeOK'
      BY <1>1, <1>2, <2>1 DEF ExitInv, TypeOK
    <2>3. Behind'
      BY <1>1, <1>2, <2>1, Numbers DEF ExitInv, TypeOK, Behind
    <2>4. ReadsTrue'
      BY <2>1 DEF ReadsTrue
    <2> QED
      BY <1>2, <1>3, <1>4, <2>2, <2>3, <2>4 DEF ExitInv
  <1>6. CASE ReadDead \/ ReadCommitted \/ ReadLog
    <2>1. pc = "reads" /\ anul' = anul
      BY <1>6 DEF ReadDead, ReadCommitted, ReadLog
    <2>2. Behind'
      BY <1>1, <1>2, <2>1 DEF ExitInv, Behind
    <2>3. NoneActive => NoneActive'
      BY <1>1, <1>2, <2>1 DEF NoneActive, NoneSeen, Gone
    <2>4. CASE ReadDead
      <3>1. /\ pc' = "reads" /\ todo' = todo \ {"dead"} /\ alive' = (Value(local) # "dead")
            /\ UNCHANGED <<hashed, exit>>
        BY <2>4 DEF ReadDead, call
      <3>2. TypeOK'
        BY <1>1, <1>2, <2>1, <3>1 DEF ExitInv, TypeOK
      <3>3. ~alive' => dead
        BY <3>1, ValueIs DEF ExitInv, TypeOK, Behind
      <3>4. ReadsTrue'
        BY <1>2, <2>1, <2>3, <3>1, <3>3 DEF ExitInv, ReadsTrue
      <3> QED
        BY <1>2, <1>3, <1>4, <2>2, <3>2, <3>4 DEF ExitInv
    <2>5. CASE ReadCommitted
      <3>1. /\ pc' = "reads" /\ todo' = todo \ {"hash"} /\ hashed' = (commits[anul] # 0)
            /\ UNCHANGED <<alive, exit>>
        BY <2>5 DEF ReadCommitted, call
      <3>2. TypeOK'
        BY <1>1, <1>2, <2>1, <3>1 DEF ExitInv, TypeOK
      <3>3. ~hashed' => NoneActive
        BY <2>1, <3>1, NoExit
      <3>4. ReadsTrue'
        BY <1>2, <2>1, <2>3, <3>1, <3>3 DEF ExitInv, ReadsTrue
      <3> QED
        BY <1>2, <1>3, <1>4, <2>2, <3>2, <3>4 DEF ExitInv
    <2>6. CASE ReadLog
      <3>1. /\ pc' = "decide" /\ todo = {} /\ UNCHANGED todo
            /\ alive' = TRUE /\ hashed' = FALSE
            /\ alive /\ hashed => exit' = Committed(anul)
            /\ ~(alive /\ hashed) => exit' = 0
        BY <2>6 DEF ReadLog, Goto
      <3>2. anul \in Versions /\ log[anul] \in Seq(Exits \cup {0}) /\ anul <= version
        BY Numbers DEF ExitInv, TypeOK, Behind
      <3>3. /\ Committed(anul) \in Exits \cup {0}
            /\ Committed(anul) # 0 => Committed(anul) \in ToSet(log[anul])
        <4>1. \A x \in ToSet(log[anul]) : x \in Exits \cup {0}
          BY <3>2, Logged
        <4> QED
          BY <3>2, <4>1, Logged DEF Committed
      <3>4. TypeOK'
        BY <1>1, <1>2, <2>1, <3>1, <3>3 DEF ExitInv, TypeOK
      <3>5. exit' = 0 => NoneActive
        BY <2>1, <3>1, NoExit DEF ExitInv, ReadsTrue
      <3>6. ASSUME exit' # 0 PROVE exit' \in ToSet(log[anul]) /\ ExitSeen'
        <4>1. exit' = Committed(anul)
          BY <3>1, <3>6
        <4>2. dead => "Completed" \in seen
          BY <2>1 DEF ExitInv, Seen, Truth, TrueState
        <4>3. ~dead => commits[anul] = Committed(anul)
          BY <3>2, <3>6, <4>1 DEF Committed, ExitInv, ContractOK
        <4> QED
          BY <1>1, <1>2, <2>1, <3>3, <3>6, <4>1, <4>2, <4>3 DEF ExitSeen
      <3>7. ReadsTrue'
        BY <1>2, <2>1, <2>3, <3>1, <3>5, <3>6 DEF ReadsTrue
      <3> QED
        BY <1>2, <1>3, <1>4, <2>2, <3>4, <3>7 DEF ExitInv
    <2> QED
      BY <1>6, <2>4, <2>5, <2>6
  <1> QED
    BY <1>5, <1>6 DEF Active, ReadDead, ReadCommitted, ReadLog

\* The phase that is reported was the true one at a moment of the call.
LEMMA DecideStateInv == ASSUME ExitInv, DecideState PROVE ExitInv'
  <1>1. /\ UNCHANGED <<contract, late, local, seen, nul, anul, todo, alive, hashed, exit, tx>>
        /\ pc = "decide" /\ stage = "state"
    BY DEF DecideState, reads
  <1>2. PICK s : s = IF exit = 0 THEN "NotStarted" ELSE Phase(exit)
    OBVIOUS
  <1>3. s \in States /\ Reached(s)
    BY <1>2 DEF DecideState, Phase, States
  <1>4. /\ nul \in Versions /\ nul <= local /\ nul <= anul /\ anul <= version /\ anul \in Versions
        /\ nul \in Int /\ anul \in Int /\ version \in Int /\ Truth \subseteq seen
    BY <1>1, Numbers DEF ExitInv, TypeOK, Behind, Seen
  <1>5. s \in seen \/ "Completed" \in seen \/ nul < version
    <2>1. CASE exit = 0
      BY <1>1, <1>2, <1>4, <2>1 DEF ExitInv, ReadsTrue, NoneActive, NoneSeen
    <2>2. CASE exit # 0
      <3>1. ExitSeen
        BY <1>1, <2>2 DEF ExitInv, ReadsTrue
      <3>2. CASE commits[anul] = exit /\ anul = version
        <4>1. TrueState \in {"Completed", Phase(exit)}
          BY <2>2, <3>2 DEF TrueState
        <4>2. TrueState \in seen
          BY <1>4 DEF Truth
        <4> QED
          BY <1>2, <2>2, <4>1, <4>2
      <3>3. CASE clock > exit + Window /\ {"Outdated", "Free"} \subseteq seen
        <4>1. Phase(exit) = "Outdated"
          BY <2>2, <3>3, Numbers DEF Phase, ExitInv, TypeOK
        <4> QED
          BY <1>2, <2>2, <3>3, <4>1
      <3> QED
        BY <1>4, <3>1, <3>2, <3>3 DEF ExitSeen
    <2> QED
      BY <2>1, <2>2
  <1> QED
    BY <1>1, <1>3, <1>4, <1>5, ReachedInv

\* executeActiveForcedExit: the transaction is for the exit that was found.
LEMMA ActInv == ASSUME ExitInv, Act PROVE ExitInv'
  <1>1. /\ UNCHANGED <<contract, late, local, seen, nul, anul, todo, alive, hashed, exit>>
        /\ pc = "decide" /\ op \in {"execute", "cancel"}
    BY DEF Act, reads, ExitInv, Control
  <1>2. CASE exit = 0
    <2>1. Return("error") /\ UNCHANGED tx
      BY <1>2 DEF Act
    <2>2. "error" \in Results /\ "error" \notin States
      BY DEF Results, States
    <2>3. nul \in Versions /\ nul <= local /\ (tx \in Tx => tx.state # "pending")
      BY <1>1 DEF ExitInv, TypeOK, Behind, Sent
    <2> QED
      BY <1>1, <2>1, <2>2, <2>3, Returns DEF ExitInv
  <1>3. CASE exit # 0
    <2>1. /\ tx' = [kind |-> op, n |-> anul, exit |-> exit, state |-> "pending"]
          /\ pc' = "poll" /\ UNCHANGED <<op, stage, told, calls>>
      BY <1>3 DEF Act, Post, Goto
    <2>2. /\ ContractOK' /\ Reported' /\ Seen' /\ StateSound' /\ TransactAllowed' /\ OutcomeTrue'
          /\ UNCHANGED <<clock, version, dead, commits, log>>
      BY <1>1, <2>1, Goes
    <2>3. tx' \in Tx /\ tx'.kind = op /\ tx'.n = anul /\ tx'.state = "pending"
      BY <1>1, <1>3, <2>1 DEF Tx, ExitInv, TypeOK
    <2>4. TypeOK'
      BY <1>1, <2>1, <2>2, <2>3 DEF ExitInv, TypeOK
    <2>5. Behind' /\ Control' /\ ReadsTrue'
      BY <1>1, <2>1, <2>2, <2>3 DEF ExitInv, Behind, Control, ReadsTrue
    <2>6. Sent'
      BY <1>1, <2>1, <2>2, <2>3 DEF ExitInv, Behind, Sent
    <2> QED
      BY <2>2, <2>4, <2>5, <2>6 DEF ExitInv
  <1> QED
    BY <1>2, <1>3

\* An account that may transact was not locked at a moment of the check.
LEMMA AssertCanTransactInv == ASSUME ExitInv, AssertCanTransact PROVE ExitInv'
  <1>1. /\ UNCHANGED <<contract, late, local, seen, nul, anul, todo, alive, hashed, exit, tx>>
        /\ pc = "decide" /\ stage = "lock" /\ op = "transact"
    BY DEF AssertCanTransact, reads, ExitInv, Control
  <1>2. nul \in Versions /\ nul <= local /\ (tx \in Tx => tx.state # "pending")
    BY <1>1 DEF ExitInv, TypeOK, Behind, Sent
  <1>3. /\ "locked" \in Results /\ "allowed" \in Results
        /\ "locked" \notin States /\ "allowed" \notin States
    BY DEF Results, States
  <1>4. CASE Locked
    <2>1. Return("locked")
      BY <1>4 DEF AssertCanTransact
    <2> QED
      BY <1>1, <1>2, <1>3, <2>1, Returns DEF ExitInv
  <1>5. CASE ~Locked
    <2>1. Return("allowed")
      BY <1>5 DEF AssertCanTransact
    <2>2. "Free" \in seen \/ "Completed" \in seen \/ anul < version
      <3>1. CASE exit = 0
        BY <1>1, <3>1 DEF ExitInv, ReadsTrue, NoneActive, NoneSeen
      <3>2. CASE exit # 0
        <4>1. ExitSeen
          BY <1>1, <3>2 DEF ExitInv, ReadsTrue
        <4>2. exit + Window <= clock
          BY <1>5, <3>2, Numbers DEF Locked, ExitInv, TypeOK
        <4>3. Truth \subseteq seen /\ (dead => "Completed" \in Truth)
          BY <1>1 DEF ExitInv, Seen, Truth, TrueState
        <4>4. ASSUME commits[anul] = exit, anul = version, ~dead PROVE "Free" \in Truth
          BY <4>2, <4>4 DEF Truth, Free
        <4>5. anul \in Int /\ version \in Int /\ anul <= version
          <5>1. anul \in Versions /\ version \in Versions /\ anul <= local /\ local <= version /\ local \in Versions
            BY DEF ExitInv, TypeOK, Behind
          <5> QED
            BY <5>1, Numbers DEF Versions
        <4> QED
          BY <4>1, <4>3, <4>4, <4>5 DEF ExitSeen
      <3> QED
        BY <3>1, <3>2
    <2>3. TransactAllowed'
      BY <1>1, <2>2 DEF TransactAllowed, contract
    <2> QED
      BY <1>1, <1>2, <1>3, <2>1, <2>3, Returns DEF ExitInv
  <1> QED
    BY <1>4, <1>5

\* requestForcedExit tells what has become of the commit.
LEMMA ConfirmInv == ASSUME ExitInv, Confirm PROVE ExitInv'
  <1>1. /\ UNCHANGED <<contract, late, local, seen, nul, anul, todo, alive, hashed, exit, tx>>
        /\ pc = "decide" /\ stage = "result" /\ op = "request"
        /\ tx \in Tx /\ tx.n = nul /\ tx.state = "ok"
    BY DEF Confirm, reads, ExitInv, Control
  <1>2. /\ nul \in Versions /\ nul <= local /\ nul <= anul /\ anul <= version
        /\ nul \in Int /\ anul \in Int /\ version \in Int
    BY <1>1, Numbers DEF ExitInv, TypeOK, Behind
  <1>3. /\ "committed" \in Results /\ "reverted" \in Results
        /\ "committed" \notin States /\ "reverted" \notin States
    BY DEF Results, States
  <1>4. UNCHANGED <<version, dead, log>> /\ Return(IF exit # 0 THEN "committed" ELSE "reverted")
    BY <1>1 DEF contract, Confirm
  <1>5. CASE exit # 0
    <2>1. Return("committed")
      BY <1>4, <1>5
    <2>2. exit \in ToSet(log[anul]) /\ (anul = nul \/ version > nul)
      BY <1>1, <1>2, <1>5 DEF ExitInv, ReadsTrue
    <2>3. OutcomeTrue'
      BY <1>1, <1>4, <2>1, <2>2 DEF OutcomeTrue, Return
    <2> QED
      BY <1>1, <1>2, <1>3, <2>1, <2>3, Returns DEF ExitInv
  <1>6. CASE exit = 0
    <2>1. Return("reverted") /\ UNCHANGED op
      BY <1>4, <1>6 DEF Return
    <2>2. Gone(tx.n)
      BY <1>1, <1>6 DEF ExitInv, ReadsTrue, NoneActive
    <2>3. OutcomeTrue'
      BY <1>1, <1>4, <2>1, <2>2 DEF OutcomeTrue, Return, Gone
    <2> QED
      BY <1>1, <1>2, <1>3, <2>1, <2>3, Returns DEF ExitInv
  <1> QED
    BY <1>5, <1>6

\* requestForcedExit builds the withdrawal on the local account.
LEMMA CreateInv == ASSUME ExitInv, Create PROVE ExitInv'
  <1>1. /\ UNCHANGED <<contract, late, local, seen, anul, todo, alive, hashed, exit, tx>>
        /\ pc = "create" /\ pc' = "send" /\ nul' = local /\ UNCHANGED <<op, stage, told, calls>>
    BY DEF Create, Goto
  <1>2. /\ ContractOK' /\ Reported' /\ Seen' /\ StateSound' /\ TransactAllowed' /\ OutcomeTrue'
        /\ UNCHANGED <<clock, version, dead, commits, log>>
    BY <1>1, Goes
  <1>3. TypeOK'
    BY <1>1, <1>2 DEF ExitInv, TypeOK
  <1>4. Behind' /\ Control' /\ ReadsTrue'
    BY <1>1, <1>2, Numbers DEF ExitInv, TypeOK, Behind, Control, ReadsTrue
  <1>5. Sent'
    BY <1>1, <1>2, SentKept DEF ExitInv, Sent
  <1> QED
    BY <1>2, <1>3, <1>4, <1>5 DEF ExitInv

\* requestForcedExit posts the commit.
LEMMA SendInv == ASSUME ExitInv, Send PROVE ExitInv'
  <1>1. /\ UNCHANGED <<contract, late, local, seen, nul, anul, todo, alive, hashed, exit>>
        /\ pc = "send" /\ op = "request"
        /\ tx' = [kind |-> "request", n |-> nul, exit |-> 0, state |-> "pending"]
        /\ pc' = "poll" /\ UNCHANGED <<op, stage, told, calls>>
    BY DEF Send, Post, Goto, reads, ExitInv, Control
  <1>2. /\ ContractOK' /\ Reported' /\ Seen' /\ StateSound' /\ TransactAllowed' /\ OutcomeTrue'
        /\ UNCHANGED <<clock, version, dead, commits, log>>
    BY <1>1, Goes
  <1>3. tx' \in Tx /\ tx'.kind = op /\ tx'.n = nul /\ tx'.state = "pending"
    BY <1>1 DEF Tx, ExitInv, TypeOK
  <1>4. TypeOK'
    BY <1>1, <1>2, <1>3 DEF ExitInv, TypeOK
  <1>5. Behind' /\ Control' /\ ReadsTrue'
    BY <1>1, <1>2, <1>3 DEF ExitInv, Behind, Control, ReadsTrue
  <1>6. Sent'
    BY <1>1, <1>2, <1>3 DEF ExitInv, Behind, Sent
  <1> QED
    BY <1>2, <1>4, <1>5, <1>6 DEF ExitInv

\* Success is reported only of a transaction that took effect.
LEMMA PollInv == ASSUME ExitInv, Poll PROVE ExitInv'
  <1>1. /\ UNCHANGED <<contract, late, local, seen, nul, anul, todo, alive, hashed, exit, tx>>
        /\ pc = "poll" /\ tx \in Tx /\ tx.kind = op /\ (op = "request" => tx.n = nul)
        /\ tx.state # "pending"
    BY DEF Poll, reads, ExitInv, Control
  <1>2. /\ nul \in Versions /\ nul <= local
        /\ tx.state \in {"ok", "failed"} /\ op \in {"request", "execute", "cancel"}
        /\ tx.state = "ok" => Happened(tx)
    BY <1>1, TxType DEF ExitInv, TypeOK, Behind, Sent
  <1>3. /\ {"reverted", "executed", "cancelled"} \subseteq Results
        /\ \A r \in {"reverted", "executed", "cancelled"} : r \notin States
    BY DEF Results, States
  <1>4. UNCHANGED <<version, dead, log>>
    BY <1>1 DEF contract
  <1>5. CASE tx.state = "failed"
    <2>1. Return("reverted")
      BY <1>5 DEF Poll
    <2>2. OutcomeTrue'
      BY <1>1, <1>5, <2>1 DEF OutcomeTrue, Return
    <2> QED
      BY <1>1, <1>2, <1>3, <2>1, <2>2, Returns DEF ExitInv
  <1>6. CASE tx.state = "ok" /\ op = "request"
    <2>1. pc' = "active" /\ stage' = "result" /\ UNCHANGED <<op, told, calls>>
      BY <1>6 DEF Poll, GetActive
    <2>2. /\ ContractOK' /\ Reported' /\ Seen' /\ StateSound' /\ TransactAllowed' /\ OutcomeTrue'
          /\ UNCHANGED <<clock, version, dead, commits, log>>
      BY <1>1, <2>1, Goes
    <2>3. TypeOK'
      BY <1>1, <2>1, <2>2 DEF ExitInv, TypeOK
    <2>4. Behind' /\ Control' /\ ReadsTrue'
      BY <1>1, <1>6, <2>1, <2>2 DEF ExitInv, Behind, Control, ReadsTrue
    <2>5. Sent'
      BY <1>1, <2>2, SentKept
    <2> QED
      BY <2>2, <2>3, <2>4, <2>5 DEF ExitInv
  <1>7. CASE tx.state = "ok" /\ op = "execute"
    <2>1. Return("executed")
      BY <1>7 DEF Poll
    <2>2. OutcomeTrue'
      BY <1>1, <1>2, <1>4, <1>7, <2>1 DEF OutcomeTrue, Return, Happened
    <2> QED
      BY <1>1, <1>2, <1>3, <2>1, <2>2, Returns DEF ExitInv
  <1>8. CASE tx.state = "ok" /\ op = "cancel"
    <2>1. Return("cancelled")
      BY <1>8 DEF Poll
    <2>2. OutcomeTrue'
      BY <1>1, <1>2, <1>4, <1>8, <2>1 DEF OutcomeTrue, Return, Happened
    <2> QED
      BY <1>1, <1>2, <1>3, <2>1, <2>2, Returns DEF ExitInv
  <1> QED
    BY <1>2, <1>5, <1>6, <1>7, <1>8

\* The order of the numbers is transitive.
LEMMA AtMost ==
    ASSUME NEW a \in Int, NEW b \in Int, NEW c \in Int, a <= b, b <= c
    PROVE  a <= c
  OBVIOUS

\* A call that gives up on its transaction, or throws, leaves it to be mined late.
LEMMA GivesUp ==
    ASSUME ExitInv, pc # "idle", NEW result \in {"not found", "error"}, Return(result), tx' = NoTx,
           UNCHANGED <<contract, local, reads, seen>>,
           late' = late \/ (tx \in Tx /\ late' = late \cup {tx})
    PROVE  ExitInv'
  <1>1. /\ UNCHANGED <<contract, local, seen, nul, anul, todo, alive, hashed, exit, op, stage, calls>>
        /\ pc' = "idle" /\ told' = result /\ tx' = NoTx
        /\ tx \in Tx => tx.n <= local
    BY DEF Return, reads, ExitInv, Sent
  <1>2. UNCHANGED <<clock, version, dead, commits, log>>
    BY <1>1 DEF contract
  <1>3. NoTx \notin Tx
    BY TxType
  <1>4. TypeOK'
    BY <1>1, <1>2 DEF ExitInv, TypeOK, Results
  <1>5. ContractOK' /\ Behind' /\ Control' /\ Reported' /\ Seen' /\ ReadsTrue'
    BY <1>1, <1>2 DEF ExitInv, ContractOK, Behind, Control, Reported, Seen, ReadsTrue
  <1>6. Sent'
    <2>1. tx \in Tx => tx.n <= version
      <3> SUFFICES ASSUME tx \in Tx PROVE tx.n <= version
        OBVIOUS
      <3>1. tx.n \in Versions /\ local \in Versions /\ version \in Versions /\ local <= version
        BY <1>1, TxType DEF ExitInv, TypeOK, Behind
      <3>2. tx.n \in Int /\ local \in Int /\ version \in Int
        BY <3>1, Numbers, Zenon
      <3>3. tx.n <= local
        BY <1>1
      <3> QED
        BY <3>1, <3>2, <3>3, AtMost, Zenon
    <2> QED
      BY <1>1, <1>2, <1>3, <2>1 DEF ExitInv, Sent
  <1>7. StateSound' /\ TransactAllowed' /\ OutcomeTrue'
    BY <1>1 DEF StateSound, TransactAllowed, OutcomeTrue, States
  <1> QED
    BY <1>4, <1>5, <1>6, <1>7 DEF ExitInv

\* A transaction that is not found in time may still be mined.
LEMMA TimeoutInv == ASSUME ExitInv, Timeout PROVE ExitInv'
  <1>1. pc = "poll" /\ tx \in Tx
    BY DEF Timeout, ExitInv, Control
  <1> QED
    BY <1>1, GivesUp DEF Timeout

\* So may one whose call throws.
LEMMA ThrowsInv == ASSUME ExitInv, Throws PROVE ExitInv'
  <1>1. tx = NoTx \/ tx \in Tx
    BY DEF ExitInv, TypeOK
  <1> QED
    BY <1>1, GivesUp DEF Throws

-----------------------------------------------------------------------------
(* The theorems *)

\* Nothing has happened in the beginning.
LEMMA InitInv == Init => ExitInv
  <1> SUFFICES ASSUME Init PROVE ExitInv
    OBVIOUS
  <1>1. 0 \in Versions /\ 0 \in 0 .. MaxTime /\ 0 \in 0 .. MaxCalls
    BY ForcedExitAssumption DEF Versions
  <1>2. TypeOK
    BY <1>1 DEF Init, TypeOK, Ops, Results
  <1>3. NoTx \notin Tx
    BY TxType
  <1>4. ContractOK /\ Behind /\ Control /\ Sent /\ Reported /\ Seen /\ ReadsTrue
    BY <1>1, <1>3 DEF Init, ContractOK, Behind, Control, Sent, Reported, Seen, ReadsTrue
  <1>5. StateSound /\ TransactAllowed /\ OutcomeTrue
    BY DEF Init, StateSound, TransactAllowed, OutcomeTrue, States
  <1> QED
    BY <1>2, <1>4, <1>5 DEF ExitInv

\* Every step of the contract, of other devices and of a call keeps the invariant.
LEMMA NextInv == ExitInv /\ [Next]_vars => ExitInv'
  <1> SUFFICES ASSUME ExitInv, [Next]_vars PROVE ExitInv'
    OBVIOUS
  <1>1. CASE Others
    BY <1>1, OthersInv
  <1>2. CASE Tick
    BY <1>2, TickInv
  <1>3. CASE Mine
    BY <1>3, MineInv
  <1>4. ASSUME NEW t \in late, MineLate(t) PROVE ExitInv'
    BY <1>4, MineLateInv
  <1>5. ASSUME NEW o \in Ops, Begin(o) PROVE ExitInv'
    BY <1>5, BeginInv
  <1>6. CASE Sync \/ OtherSync
    BY <1>6, SyncInv
  <1>7. CASE ReadValue \/ ReadHash
    BY <1>7, ReadValueInv, ReadHashInv
  <1>8. CASE Active \/ ReadDead \/ ReadCommitted \/ ReadLog
    BY <1>8, ActiveInv
  <1>9. CASE DecideState \/ Act \/ AssertCanTransact \/ Confirm
    BY <1>9, DecideStateInv, ActInv, AssertCanTransactInv, ConfirmInv
  <1>10. CASE Create \/ Send \/ Poll \/ Timeout
    BY <1>10, CreateInv, SendInv, PollInv, TimeoutInv
  <1>12. CASE Throws
    BY <1>12, ThrowsInv
  <1>11. CASE UNCHANGED vars
    <2>1. UNCHANGED <<clock, version, dead, commits, log, late, local, nul, anul, todo, alive,
                      hashed, exit, op, pc, stage, told, calls, tx, seen>>
      BY <1>11 DEF vars, contract, reads, call
    <2>2. TypeOK' /\ ContractOK' /\ Behind' /\ Control' /\ Reported'
      BY <2>1 DEF ExitInv, TypeOK, ContractOK, Behind, Control, Reported
    <2>5. Sent'
      <3>1. Happened(tx) => Happened(tx)'
        BY <2>1 DEF Happened
      <3> QED
        BY <2>1, <3>1 DEF ExitInv, Sent
    <2>3. Seen' /\ ReadsTrue'
      BY <2>1 DEF ExitInv, Seen, Truth, TrueState, Phase, Free, ReadsTrue, NoneActive, NoneSeen,
                  Gone, ExitSeen
    <2>4. StateSound' /\ TransactAllowed' /\ OutcomeTrue'
      BY <2>1 DEF ExitInv, StateSound, TransactAllowed, OutcomeTrue
    <2> QED
      BY <2>2, <2>5, <2>3, <2>4 DEF ExitInv
  <1> QED
    BY <1>1, <1>2, <1>3, <1>4, <1>5, <1>6, <1>7, <1>8, <1>9, <1>10, <1>11, <1>12 DEF Next, Step

\* The contract, the call and its transactions keep their types.
THEOREM TypeCorrect == Spec => []TypeOK
  <1>1. ExitInv => TypeOK
    BY DEF ExitInv
  <1> QED
    BY <1>1, InitInv, NextInv, PTL DEF Spec

\* The state that forcedExitState puts together from its reads was the account's at a
\* moment of the call, unless the exit was executed or the nullifier used meanwhile.
THEOREM StateSoundHolds == Spec => []StateSound
  <1>1. ExitInv => StateSound
    BY DEF ExitInv
  <1> QED
    BY <1>1, InitInv, NextInv, PTL DEF Spec

\* assertAccountCanTransact lets a transaction pass only if the account was not locked
\* at a moment of the check, unless the exit was executed or the local state is behind.
THEOREM TransactAllowedHolds == Spec => []TransactAllowed
  <1>1. ExitInv => TransactAllowed
    BY DEF ExitInv
  <1> QED
    BY <1>1, InitInv, NextInv, PTL DEF Spec

\* What requestForcedExit, executeActiveForcedExit and its cancelling twin report of
\* their transaction has happened on the contract.
THEOREM OutcomeTrueHolds == Spec => []OutcomeTrue
  <1>1. ExitInv => OutcomeTrue
    BY DEF ExitInv
  <1> QED
    BY <1>1, InitInv, NextInv, PTL DEF Spec
=============================================================================
