------------------------------- MODULE RpcManager -------------------------------
(***************************************************************************)
(* The endpoints of a chain (src/src/networks/rpcman.ts, class             *)
(* MultiRpcManager): calls that are retried, the errors that make the      *)
(* manager leave an endpoint, the marks of those it left, and the search   *)
(* for the endpoint with the latest block.                                 *)
(*                                                                         *)
(* All callers share one current endpoint, one counter of issues and one   *)
(* count of switches; a call gives up when the manager has switched once   *)
(* per endpoint since it began, whoever caused it.                         *)
(***************************************************************************)
EXTENDS Integers, FiniteSets

CONSTANTS
    N,         \* endpoints, numbered from 0
    Callers,   \* who calls
    Retries,   \* ATTEMPT_RETRIES_CNT
    Threshold, \* RPC_ISSUES_THRESHOLD
    Untimely   \* circumstances admitted beyond the orderly use:
               \* "marked": an endpoint marked bad works again
               \* "probe":  an endpoint does not tell its block number when the
               \*           best one is looked for
               \* "best":   the best endpoint is looked for during a call
               \* "refused": every endpoint answers a request with an error
               \* "bound":  a retry goes to the endpoint of the first attempt
               \*           (the contract objects of TronNetwork)

ASSUME RpcAssumption ==
    /\ N \in Nat \ {0} /\ Retries \in Nat \ {0}
    /\ IsFiniteSet(Callers) /\ Threshold \in Nat
    /\ Untimely \subseteq {"marked", "probe", "best", "refused", "bound"}

VARIABLES
    \* the manager
    curRpcIdx, issues, badRpcs,
    \* the calls
    pc, at,    \* where each call is, and the endpoint that it asked
    cnt,       \* its attempts in the inner loop
    switches,  \* switchingAttempts since its beginning, up to N
    \* switchToTheBestRPC: the endpoints still asked, and those that answered
    probing, asked, answered,
    \* the endpoints, and what was true of them
    up,        \* those that answer
    steady,    \* per call: those that have answered ever since it began
    earned     \* has the current one failed since it became current?

manager == <<curRpcIdx, issues, badRpcs>>
calls == <<pc, at, cnt, switches>>
best == <<probing, asked, answered>>
world == <<up, steady, earned>>
vars == <<manager, calls, best, world>>

E == 0 .. (N - 1)

TypeOK ==
    /\ curRpcIdx \in E /\ issues \in 0 .. Threshold /\ badRpcs \subseteq E
    /\ pc \in [Callers -> {"idle", "asked", "delay", "failed"}]
    /\ at \in [Callers -> E] /\ cnt \in [Callers -> 0 .. Retries]
    /\ switches \in [Callers -> 0 .. N]
    /\ probing \in BOOLEAN /\ asked \subseteq E /\ answered \subseteq E
    /\ up \subseteq E /\ steady \in [Callers -> SUBSET E] /\ earned \in BOOLEAN

Init ==
    /\ curRpcIdx = 0 /\ issues = 0 /\ badRpcs = {}
    /\ pc = [c \in Callers |-> "idle"] /\ at = [c \in Callers |-> 0]
    /\ cnt = [c \in Callers |-> 0] /\ switches = [c \in Callers |-> 0]
    /\ probing = FALSE /\ asked = {} /\ answered = {}
    /\ up = E /\ steady = [c \in Callers |-> {}] /\ earned = FALSE

-----------------------------------------------------------------------------
(* Switching *)

\* Mistake: when all others are marked the current endpoint is kept.
NextRpcKeep(marked) ==
    LET step(i) == (curRpcIdx + i) % N
        fine == {i \in 1 .. (N - 1) : step(i) \notin marked}
    IN  IF fine = {} THEN curRpcIdx ELSE step(CHOOSE i \in fine : \A j \in fine : i <= j)

\* The next endpoint of the round robin that is not marked; when all others are,
\* the next one whatever its mark.
NextRpc(marked) ==
    LET step(i) == (curRpcIdx + i) % N
        fine == {i \in 1 .. (N - 1) : step(i) \notin marked}
    IN  IF fine = {} THEN step(1) ELSE step(CHOOSE i \in fine : \A j \in fine : i <= j)

Running(c) == pc[c] \in {"asked", "delay"}

\* Mistake: the issues of the endpoint that is left are charged to the next one.
SwitchToKeeping(next, otherwise) ==
    /\ curRpcIdx' = next
    /\ issues' = otherwise
    /\ switches' = [c \in Callers |->
        IF Running(c) /\ switches[c] < N THEN switches[c] + 1 ELSE switches[c]]
    /\ earned' = IF next # curRpcIdx THEN next \notin up ELSE earned

\* switchRPC: every call sees the attempt, and only a change resets the issues.
SwitchTo(next, otherwise) ==
    /\ curRpcIdx' = next
    /\ issues' = IF next # curRpcIdx THEN 0 ELSE otherwise
    /\ switches' = [c \in Callers |->
        IF Running(c) /\ switches[c] < N THEN switches[c] + 1 ELSE switches[c]]
    /\ earned' = IF next # curRpcIdx THEN next \notin up ELSE earned

\* registerRpcIssue (the counter of a single endpoint stays at the threshold).
RegisterIssue ==
    IF issues + 1 >= Threshold
    THEN /\ badRpcs' = badRpcs \cup {curRpcIdx}
         /\ SwitchTo(NextRpc(badRpcs'), Threshold)
    ELSE /\ issues' = issues + 1
         /\ UNCHANGED <<curRpcIdx, badRpcs, switches, earned>>

-----------------------------------------------------------------------------
(* commonRpcRetry *)

Ask(c) == at' = [at EXCEPT ![c] = curRpcIdx]

Begin(c) ==
    /\ ~Running(c) /\ (~probing \/ "best" \in Untimely)
    /\ pc' = [pc EXCEPT ![c] = "asked"] /\ Ask(c)
    /\ cnt' = [cnt EXCEPT ![c] = 0] /\ switches' = [switches EXCEPT ![c] = 0]
    /\ steady' = [steady EXCEPT ![c] = IF "marked" \in Untimely THEN up ELSE up \ badRpcs]
    /\ UNCHANGED <<manager, best, up, earned>>

Answer(c) ==
    /\ pc[c] = "asked" /\ at[c] \in up
    /\ pc' = [pc EXCEPT ![c] = "idle"]
    /\ at' = [at EXCEPT ![c] = 0] /\ cnt' = [cnt EXCEPT ![c] = 0]
    /\ switches' = [switches EXCEPT ![c] = 0] /\ steady' = [steady EXCEPT ![c] = {}]
    /\ UNCHANGED <<manager, best, up, earned>>

\* The error is charged to the endpoint that is current now.
Fail(c) ==
    /\ pc[c] = "asked" /\ (at[c] \notin up \/ "refused" \in Untimely)
    /\ pc' = [pc EXCEPT ![c] = "delay"] /\ RegisterIssue
    /\ UNCHANGED <<at, cnt, best, up, steady>>

\* Mistake: what the manager has switched is counted anew in every round.
RetryAnew(c) ==
    /\ pc[c] = "delay"
    /\ IF cnt[c] + 1 < Retries
       THEN cnt' = [cnt EXCEPT ![c] = @ + 1] /\ UNCHANGED switches
       ELSE cnt' = [cnt EXCEPT ![c] = 0] /\ switches' = [switches EXCEPT ![c] = 0]
    /\ IF cnt[c] + 1 < Retries \/ switches[c] < N
       THEN /\ pc' = [pc EXCEPT ![c] = "asked"] /\ Ask(c)
       ELSE /\ pc' = [pc EXCEPT ![c] = "failed"] /\ UNCHANGED at
    /\ UNCHANGED <<manager, best, world>>

\* Mistake: a call gives up one switch too early.
RetryShort(c) ==
    /\ pc[c] = "delay"
    /\ cnt' = [cnt EXCEPT ![c] = IF @ + 1 < Retries THEN @ + 1 ELSE 0]
    /\ IF cnt[c] + 1 < Retries \/ switches[c] < N - 1
       THEN /\ pc' = [pc EXCEPT ![c] = "asked"] /\ Ask(c)
       ELSE /\ pc' = [pc EXCEPT ![c] = "failed"] /\ UNCHANGED at
    /\ UNCHANGED <<manager, switches, best, world>>

\* After the delay: another attempt, another round, or "all RPCs are unavailable".
Retry(c) ==
    /\ pc[c] = "delay"
    /\ cnt' = [cnt EXCEPT ![c] = IF @ + 1 < Retries THEN @ + 1 ELSE 0]
    /\ IF cnt[c] + 1 < Retries \/ switches[c] < N
       THEN /\ pc' = [pc EXCEPT ![c] = "asked"]
            /\ IF "bound" \in Untimely THEN UNCHANGED at ELSE Ask(c)
       ELSE /\ pc' = [pc EXCEPT ![c] = "failed"] /\ UNCHANGED at
    /\ UNCHANGED <<manager, switches, best, world>>

-----------------------------------------------------------------------------
(* switchToTheBestRPC *)

BeginBest ==
    /\ ~probing /\ N - Cardinality(badRpcs) > 1
    /\ (\A c \in Callers : ~Running(c)) \/ "best" \in Untimely
    /\ E \ badRpcs \subseteq up \/ "probe" \in Untimely
    /\ probing' = TRUE /\ asked' = E \ badRpcs /\ answered' = {}
    /\ UNCHANGED <<manager, calls, world>>

\* getBlockNumberFrom has no retries, and its error is charged to the current endpoint.
Probe(e) ==
    /\ e \in asked /\ asked' = asked \ {e}
    /\ IF e \in up
       THEN answered' = answered \cup {e} /\ UNCHANGED <<manager, switches, earned>>
       ELSE RegisterIssue /\ UNCHANGED answered
    /\ UNCHANGED <<pc, at, cnt, probing, up, steady>>

\* Only a later block than the current endpoint's is a reason to switch.
EndBest ==
    /\ probing /\ asked = {} /\ probing' = FALSE /\ answered' = {}
    /\ \/ \E e \in answered \ {curRpcIdx} : SwitchTo(e, issues)
       \/ UNCHANGED <<curRpcIdx, issues, switches, earned>>
    /\ UNCHANGED <<badRpcs, pc, at, cnt, asked, up, steady>>

-----------------------------------------------------------------------------
(* The endpoints come and go *)

Outage(e) ==
    /\ e \in up /\ (e \in asked => "probe" \in Untimely)
    /\ up' = up \ {e}
    /\ steady' = [c \in Callers |-> steady[c] \ {e}]
    /\ earned' = (earned \/ e = curRpcIdx)
    /\ UNCHANGED <<manager, calls, best>>

Recover(e) ==
    /\ e \notin up /\ up' = up \cup {e}
    /\ UNCHANGED <<manager, calls, best, steady, earned>>

Next ==
    \/ \E c \in Callers : Begin(c) \/ Answer(c) \/ Fail(c) \/ Retry(c)
    \/ BeginBest \/ (\E e \in E : Probe(e)) \/ EndBest
    \/ \E e \in E : Outage(e) \/ Recover(e)

Spec == Init /\ [][Next]_vars

Fairness ==
    /\ \A c \in Callers : WF_vars(Answer(c) \/ Fail(c)) /\ WF_vars(Retry(c))
    /\ \A e \in E : WF_vars(Probe(e)) /\ WF_vars(EndBest)

FairSpec == Spec /\ Fairness

-----------------------------------------------------------------------------
(* Properties *)

\* Fewer callers at one time than the issues that an endpoint is left for.  The
\* code does not see to it, syncHistory converts every waiting memo side by side:
\* it is a premise on how many there are, and an endpoint that answers is left and
\* marked when as many stale errors come in.
FewCallers == Cardinality(Callers) < Threshold

\* "all RPCs are unavailable": a call that gives up has met no endpoint that was
\* there all the time, although all callers share the count of switches.
GaveUpSound == \A c \in Callers : pc[c] = "failed" => steady[c] = {}

\* An endpoint is marked bad for its own errors only: not when it has answered
\* everything since it became current.
BadEarned == [][badRpcs' # badRpcs => earned]_vars

\* A call ends, in an answer or in an error, whatever the endpoints do.
CallEnds == \A c \in Callers : Running(c) ~> pc[c] \in {"idle", "failed"}

\* When an endpoint stays up, the calls that give up come to an end.
EventuallyServed ==
    \A e \in E : <>[](e \in up) =>
        <>[][\A c \in Callers : pc'[c] = "failed" => pc[c] = "failed"]_vars
=============================================================================
