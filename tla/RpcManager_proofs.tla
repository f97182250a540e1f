---------------------------- MODULE RpcManager_proofs ----------------------------
(***************************************************************************)
(* An endpoint is marked bad for its own errors only, and a call gives up  *)
(* only when no endpoint was there all the time, whatever the number of    *)
(* endpoints, while there are fewer callers than the issues that are       *)
(* needed to leave an endpoint (FewCallers; RpcManager).                   *)
(*                                                                         *)
(* Since the current endpoint became current, only callers that had asked  *)
(* another one can fail while it answers, each of them once: after the     *)
(* delay it asks the current one.  Where FewCallers holds they are too few *)
(* to have it left.                                                        *)
(*                                                                         *)
(* Every switch brings the current endpoint nearer, in the order of the    *)
(* round robin, to each one that has answered since a call began, and does *)
(* not pass it: the call sees at most N - 1 switches before it is reached, *)
(* and it is not left again while it answers.                              *)
(***************************************************************************)
EXTENDS RpcManager, FiniteSetTheorems, WellFoundedInduction, TLAPS

\* The calls whose error will be charged to an endpoint that they have not asked.
Strays == {c \in Callers : pc[c] = "asked" /\ at[c] # curRpcIdx}

CallsOK ==
    /\ pc \in [Callers -> {"idle", "asked", "delay", "failed"}]
    /\ DOMAIN at = Callers /\ issues \in Nat

\* In orderly use the endpoints that are asked for their block number answer.
ProbesAnswered == asked \subseteq up

Charged ==
    ~earned => curRpcIdx \in up /\ issues + Cardinality(Strays) <= Cardinality(Callers)

MarkInv == CallsOK /\ ProbesAnswered /\ Charged

-----------------------------------------------------------------------------
(* What the bound on the issues rests on *)

\* The stray calls are some of the callers (the calls of commonRpcRetry that run).
LEMMA StraysFinite ==
    /\ IsFiniteSet(Callers) /\ Cardinality(Callers) \in Nat
    /\ IsFiniteSet(Strays) /\ Cardinality(Strays) \in Nat
    /\ Cardinality(Strays) <= Cardinality(Callers)
  <1>1. IsFiniteSet(Callers)
    BY RpcAssumption
  <1>2. Strays \subseteq Callers
    BY DEF Strays
  <1> QED
    BY <1>1, <1>2, FS_Subset, FS_CardinalityType

\* The same of the stray calls after a step.
LEMMA StraysFiniteNext ==
    /\ IsFiniteSet(Strays') /\ Cardinality(Strays') \in Nat
    /\ Cardinality(Strays') <= Cardinality(Callers)
  <1>1. IsFiniteSet(Callers)
    BY RpcAssumption
  <1>2. Strays' \subseteq Callers
    BY DEF Strays
  <1> QED
    BY <1>1, <1>2, FS_Subset, FS_CardinalityType

\* Fewer stray calls at an endpoint that stays current and charges no new issue.
LEMMA ChargedKept ==
    ASSUME MarkInv, UNCHANGED <<curRpcIdx, issues>>, Strays' \subseteq Strays,
           earned' = earned, curRpcIdx \in up => curRpcIdx \in up'
    PROVE  Charged'
  <1>1. Cardinality(Strays') <= Cardinality(Strays)
    BY StraysFinite, FS_Subset
  <1> QED
    BY <1>1, StraysFinite, StraysFiniteNext DEF MarkInv, CallsOK, Charged

\* An endpoint that has just become current has no issues (switchRPC).
LEMMA ChargedAnew ==
    ASSUME MarkInv, NEW next, NEW otherwise \in Nat, SwitchTo(next, otherwise), up' = up,
           next = curRpcIdx => earned
    PROVE  Charged' /\ issues' \in Nat
  <1>1. CASE next = curRpcIdx
    BY <1>1 DEF SwitchTo, Charged
  <1>2. CASE next # curRpcIdx
    <2>1. issues' = 0 /\ curRpcIdx' = next /\ (~earned' => next \in up)
      BY <1>2 DEF SwitchTo
    <2> QED
      BY <2>1, StraysFinite, StraysFiniteNext DEF Charged
  <1> QED
    BY <1>1, <1>2

-----------------------------------------------------------------------------
(* The error of a call *)

\* While the current endpoint has answered everything, a call that fails is a stray
\* one, and the issues stay below the threshold (registerRpcIssue).
LEMMA BelowThreshold ==
    ASSUME MarkInv, FewCallers, Untimely = {}, NEW c \in Callers, Fail(c), ~earned
    PROVE  c \in Strays /\ issues + 1 < Threshold
  <1>1. c \in Strays
    BY DEF MarkInv, Charged, Fail, Strays
  <1>2. Cardinality(Strays) >= 1
    <2>1. Cardinality(Strays) # 0
      BY <1>1, StraysFinite, FS_EmptySet
    <2> QED
      BY <2>1, StraysFinite
  <1>3. issues + Cardinality(Strays) <= Cardinality(Callers)
    BY DEF MarkInv, Charged
  <1>4. Cardinality(Callers) < Threshold /\ Threshold \in Nat
    BY RpcAssumption DEF FewCallers
  <1> QED
    BY <1>1, <1>2, <1>3, <1>4, StraysFinite DEF MarkInv, CallsOK

\* An error charges an issue and makes its call a stray one no more.
LEMMA FailInv ==
    ASSUME MarkInv, FewCallers, Untimely = {}, NEW c \in Callers, Fail(c)
    PROVE  MarkInv'
  <1>1. ProbesAnswered'
    BY DEF MarkInv, ProbesAnswered, Fail, best
  <1>2. pc' \in [Callers -> {"idle", "asked", "delay", "failed"}] /\ DOMAIN at' = Callers
    BY DEF MarkInv, CallsOK, Fail
  <1>3. CASE issues + 1 >= Threshold
    <2>1. earned
      BY <1>3, BelowThreshold, RpcAssumption DEF MarkInv, CallsOK
    <2>2. SwitchTo(NextRpc(badRpcs'), Threshold)
      BY <1>3 DEF Fail, RegisterIssue
    <2>3. Charged' /\ issues' \in Nat
      BY <2>1, <2>2, ChargedAnew, RpcAssumption DEF Fail
    <2> QED
      BY <1>1, <1>2, <2>3 DEF MarkInv, CallsOK
  <1>4. CASE ~(issues + 1 >= Threshold)
    <2>1. issues' = issues + 1 /\ UNCHANGED <<curRpcIdx, earned>>
      BY <1>4 DEF Fail, RegisterIssue
    <2>2. issues' \in Nat
      BY <2>1 DEF MarkInv, CallsOK
    <2>3. Charged'
      <3>1. SUFFICES ASSUME ~earned
                     PROVE  Charged'
        BY <2>1 DEF Charged
      <3>2. c \in Strays
        BY <3>1, BelowThreshold
      <3>3. Strays' \subseteq Strays \ {c}
        BY <2>1 DEF Strays, Fail, MarkInv, CallsOK
      <3>4. Cardinality(Strays') <= Cardinality(Strays) - 1
        <4>1. Cardinality(Strays \ {c}) = Cardinality(Strays) - 1 /\ IsFiniteSet(Strays \ {c})
          BY <3>2, StraysFinite, FS_RemoveElement
        <4> QED
          BY <3>3, <4>1, FS_Subset
      <3>5. curRpcIdx' \in up'
        BY <2>1, <3>1 DEF MarkInv, Charged, Fail
      <3> QED
        BY <2>1, <3>1, <3>4, <3>5, StraysFinite, StraysFiniteNext DEF MarkInv, CallsOK, Charged
    <2> QED
      BY <1>1, <1>2, <2>2, <2>3 DEF MarkInv, CallsOK
  <1> QED
    BY <1>3, <1>4

-----------------------------------------------------------------------------
(* The invariant *)

\* No call runs in the beginning.
LEMMA InitMark == Init => MarkInv
  <1> SUFFICES ASSUME Init PROVE MarkInv
    OBVIOUS
  <1>1. Strays = {}
    BY DEF Init, Strays
  <1>2. Cardinality(Strays) = 0
    BY <1>1, FS_EmptySet
  <1>3. 0 \in E
    BY RpcAssumption DEF E
  <1> QED
    BY <1>2, <1>3, StraysFinite DEF Init, MarkInv, CallsOK, ProbesAnswered, Charged

\* A call that begins, returns or asks again is no stray one.
LEMMA CallInv ==
    ASSUME MarkInv, Untimely = {}, NEW c \in Callers, Begin(c) \/ Answer(c) \/ Retry(c)
    PROVE  MarkInv'
  <1>1. UNCHANGED <<curRpcIdx, issues, earned, up, asked>>
    BY DEF Begin, Answer, Retry, manager, best, world
  <1>2. pc' \in [Callers -> {"idle", "asked", "delay", "failed"}] /\ DOMAIN at' = Callers
    BY DEF MarkInv, CallsOK, Begin, Answer, Retry, Ask
  <1>3. Strays' \subseteq Strays
    BY <1>1 DEF Strays, Begin, Answer, Retry, Ask, MarkInv, CallsOK
  <1>4. Charged'
    BY <1>1, <1>3, ChargedKept
  <1> QED
    BY <1>1, <1>2, <1>4 DEF MarkInv, CallsOK, ProbesAnswered

\* Endpoints that are asked for their block number answer, so that looking for the
\* best one charges nothing; switching to it starts at no issues.
LEMMA BestInv ==
    ASSUME MarkInv, Untimely = {}, BeginBest \/ (\E e \in E : Probe(e)) \/ EndBest
    PROVE  MarkInv'
  <1>1. CASE BeginBest
    <2>1. UNCHANGED <<curRpcIdx, issues, earned, up, pc, at>> /\ asked' \subseteq up
      BY <1>1 DEF BeginBest, manager, calls, world
    <2>2. Strays' \subseteq Strays
      BY <2>1 DEF Strays
    <2> QED
      BY <2>1, <2>2, ChargedKept DEF MarkInv, CallsOK, ProbesAnswered
  <1>2. ASSUME NEW e \in E, Probe(e) PROVE MarkInv'
    <2>1. UNCHANGED <<curRpcIdx, issues, earned, up, pc, at>> /\ asked' \subseteq asked
      BY <1>2 DEF Probe, MarkInv, ProbesAnswered, manager
    <2>2. Strays' \subseteq Strays
      BY <2>1 DEF Strays
    <2> QED
      BY <2>1, <2>2, ChargedKept DEF MarkInv, CallsOK, ProbesAnswered
  <1>3. CASE EndBest
    <2>1. UNCHANGED <<up, pc, at, asked>>
      BY <1>3 DEF EndBest
    <2>2. Charged' /\ issues' \in Nat
      <3>1. ASSUME NEW e \in answered \ {curRpcIdx}, SwitchTo(e, issues)
            PROVE  Charged' /\ issues' \in Nat
        BY <2>1, <3>1, ChargedAnew DEF MarkInv, CallsOK
      <3>2. ASSUME UNCHANGED <<curRpcIdx, issues, switches, earned>>
            PROVE  Charged' /\ issues' \in Nat
        <4>1. Strays' \subseteq Strays
          BY <2>1, <3>2 DEF Strays
        <4> QED
          BY <2>1, <3>2, <4>1, ChargedKept DEF MarkInv, CallsOK
      <3> QED
        BY <1>3, <3>1, <3>2 DEF EndBest
    <2> QED
      BY <2>1, <2>2 DEF MarkInv, CallsOK, ProbesAnswered
  <1> QED
    BY <1>1, <1>2, <1>3

\* An endpoint that fails while it is current has earned its mark.
LEMMA WorldInv ==
    ASSUME MarkInv, Untimely = {}, NEW e \in E, Outage(e) \/ Recover(e)
    PROVE  MarkInv'
  <1>1. UNCHANGED <<curRpcIdx, issues, pc, at, asked>>
    BY DEF Outage, Recover, manager, calls, best
  <1>2. Strays' \subseteq Strays
    BY <1>1 DEF Strays
  <1>3. asked \subseteq up'
    BY DEF Outage, Recover, MarkInv, ProbesAnswered
  <1>4. Charged'
    <2>1. CASE earned'
      BY <2>1 DEF Charged
    <2>2. CASE ~earned'
      <3>1. ~earned /\ (curRpcIdx \in up => curRpcIdx \in up')
        <4>1. CASE Outage(e)
          BY <2>2, <4>1 DEF Outage
        <4>2. CASE Recover(e)
          BY <2>2, <4>2 DEF Recover
        <4> QED
          BY <4>1, <4>2
      <3>2. curRpcIdx \in up /\ issues + Cardinality(Strays) <= Cardinality(Callers)
        BY <3>1 DEF MarkInv, Charged
      <3>3. Cardinality(Strays') <= Cardinality(Strays)
        BY <1>2, StraysFinite, FS_Subset
      <3> QED
        BY <1>1, <3>1, <3>2, <3>3, StraysFinite, StraysFiniteNext DEF Charged, MarkInv, CallsOK
    <2> QED
      BY <2>1, <2>2
  <1> QED
    BY <1>1, <1>3, <1>4 DEF MarkInv, CallsOK, ProbesAnswered

\* Every step keeps what BadEarned rests on.
LEMMA NextMark ==
    ASSUME MarkInv, FewCallers, Untimely = {}, [Next]_vars
    PROVE  MarkInv'
  <1>1. ASSUME NEW c \in Callers, Fail(c) PROVE MarkInv'
    BY <1>1, FailInv
  <1>2. ASSUME NEW c \in Callers, Begin(c) \/ Answer(c) \/ Retry(c) PROVE MarkInv'
    BY <1>2, CallInv
  <1>3. CASE BeginBest \/ (\E e \in E : Probe(e)) \/ EndBest
    BY <1>3, BestInv
  <1>4. ASSUME NEW e \in E, Outage(e) \/ Recover(e) PROVE MarkInv'
    BY <1>4, WorldInv
  <1>5. CASE UNCHANGED vars
    <2>1. UNCHANGED <<curRpcIdx, issues, earned, up, pc, at, asked>>
      BY <1>5 DEF vars, manager, calls, best, world
    <2>2. Strays' = Strays
      BY <2>1 DEF Strays
    <2> QED
      BY <2>1, <2>2 DEF MarkInv, CallsOK, ProbesAnswered, Charged
  <1> QED
    BY <1>1, <1>2, <1>3, <1>4, <1>5 DEF Next

-----------------------------------------------------------------------------
(* The marks *)

\* Only registerRpcIssue marks an endpoint.
LEMMA MarkStep ==
    ASSUME MarkInv, FewCallers, Untimely = {}, [Next]_vars, badRpcs' # badRpcs
    PROVE  earned
  <1>1. ASSUME NEW c \in Callers, Fail(c) PROVE earned
    <2>1. issues + 1 >= Threshold
      BY <1>1 DEF Fail, RegisterIssue
    <2> QED
      BY <1>1, <2>1, BelowThreshold, RpcAssumption DEF MarkInv, CallsOK
  <1>2. ASSUME NEW e \in E, Probe(e) PROVE FALSE
    BY <1>2 DEF Probe, MarkInv, ProbesAnswered, manager
  <1>3. CASE UNCHANGED badRpcs
    BY <1>3
  <1>4. ASSUME NEW c \in Callers, Begin(c) \/ Answer(c) \/ Retry(c) PROVE UNCHANGED badRpcs
    BY <1>4 DEF Begin, Answer, Retry, manager
  <1>5. BeginBest \/ EndBest \/ UNCHANGED vars => UNCHANGED badRpcs
    BY DEF BeginBest, EndBest, vars, manager
  <1>6. ASSUME NEW e \in E, Outage(e) \/ Recover(e) PROVE UNCHANGED badRpcs
    BY <1>6 DEF Outage, Recover, manager
  <1> QED
    BY <1>1, <1>2, <1>3, <1>4, <1>5, <1>6 DEF Next

\* In orderly use, and with fewer callers than the threshold, no endpoint is ever
\* marked bad that has answered everything since it became current
\* (MultiRpcManager.registerRpcIssue, switchRPC).
THEOREM BadEarnedHolds == ASSUME FewCallers, Untimely = {} PROVE Spec => BadEarned
  <1>1. Init => MarkInv
    BY InitMark
  <1>2. MarkInv /\ [Next]_vars => MarkInv'
    BY NextMark
  <1>3. MarkInv /\ [Next]_vars => [badRpcs' # badRpcs => earned]_vars
    BY MarkStep
  <1> QED
    BY <1>1, <1>2, <1>3, PTL DEF Spec, BadEarned

-----------------------------------------------------------------------------
(* The round robin *)

\* A set of naturals has a least element, as the CHOOSE of NextRpc supposes.
LEMMA NatLeast ==
    ASSUME NEW S, S \subseteq Nat, S # {}
    PROVE  \E m \in S : \A k \in S : m <= k
<1>1. IsWellFoundedOn(OpToRel(<, Nat), Nat)
  BY NatLessThanWellFounded, Zenon
<1>2. PICK m \in S : \A k \in S : <<k, m>> \notin OpToRel(<, Nat)
  BY <1>1, WFMin, Zenon
<1>3. \A k \in S : ~ (k < m)
  BY <1>2, Zenon DEF OpToRel
<1>4. QED BY <1>3, SMT

\* The modulo of the round robin, of less than two turns.
LEMMA Wrap ==
    ASSUME NEW a \in Nat, a < 2 * N
    PROVE  /\ a < N => a % N = a
           /\ a >= N => a % N = a - N
           /\ a % N \in E
  BY RpcAssumption DEF E

\* How many places the endpoint e comes after a.
Dist(a, e) == IF a <= e THEN e - a ELSE e - a + N

\* Less than a turn.
LEMMA DistIs ==
    ASSUME NEW a \in E, NEW e \in E
    PROVE  /\ Dist(a, e) \in 0 .. (N - 1) /\ (a # e => Dist(a, e) \in 1 .. (N - 1))
           /\ a + Dist(a, e) < N => a + Dist(a, e) = e
           /\ a + Dist(a, e) >= N => a + Dist(a, e) - N = e
  BY RpcAssumption DEF E, Dist

\* The endpoint i places after the current one.
Place(i) == (curRpcIdx + i) % N

\* Places do not leave the endpoints.
LEMMA PlaceIs ==
    ASSUME curRpcIdx \in E, NEW i \in 0 .. N
    PROVE  /\ Place(i) \in E
           /\ curRpcIdx + i < N => Place(i) = curRpcIdx + i
           /\ curRpcIdx + i >= N => Place(i) = curRpcIdx + i - N
  <1> DEFINE a == curRpcIdx + i
  <1>1. a \in Nat /\ a < 2 * N /\ Place(i) = a % N
    BY RpcAssumption DEF E, Place
  <1> HIDE DEF a
  <1>2. /\ a < N => Place(i) = a
        /\ a >= N => Place(i) = a - N
        /\ Place(i) \in E
    BY <1>1, Wrap
  <1> QED
    BY <1>2, RpcAssumption DEF a, E

\* Every other endpoint is at its distance.
LEMMA PlaceOf ==
    ASSUME curRpcIdx \in E, NEW e \in E, e # curRpcIdx
    PROVE  Dist(curRpcIdx, e) \in 1 .. (N - 1) /\ Place(Dist(curRpcIdx, e)) = e
  <1> DEFINE d == Dist(curRpcIdx, e)
  <1>1. /\ d \in 1 .. (N - 1) /\ d \in 0 .. N
        /\ curRpcIdx + d < N => curRpcIdx + d = e
        /\ curRpcIdx + d >= N => curRpcIdx + d - N = e
    BY DistIs, RpcAssumption
  <1>2. Place(d) = e
    BY <1>1, PlaceIs, RpcAssumption DEF E
  <1> QED
    BY <1>1, <1>2

\* A place that does not pass an endpoint is nearer to it.
LEMMA Nearer ==
    ASSUME curRpcIdx \in E, NEW e \in E, NEW n \in 1 .. (N - 1), n <= Dist(curRpcIdx, e)
    PROVE  Place(n) # curRpcIdx /\ Dist(Place(n), e) < Dist(curRpcIdx, e)
  <1>1. n \in 0 .. N
    BY RpcAssumption
  <1> QED
    BY <1>1, PlaceIs, RpcAssumption DEF E, Dist

\* The next endpoint does not pass one that is not marked (switchRPC's loop over the
\* endpoints).
LEMMA RoundRobin ==
    ASSUME curRpcIdx \in E, NEW marked
    PROVE  /\ NextRpc(marked) \in E
           /\ \A e \in E \ marked : e # curRpcIdx =>
                  /\ NextRpc(marked) # curRpcIdx
                  /\ Dist(NextRpc(marked), e) < Dist(curRpcIdx, e)
  <1> DEFINE fine == {i \in 1 .. (N - 1) : Place(i) \notin marked}
  <1>1. NextRpc(marked) = IF fine = {} THEN Place(1)
                          ELSE Place(CHOOSE i \in fine : \A j \in fine : i <= j)
    BY DEF NextRpc, Place
  <1>2. fine \subseteq 1 .. (N - 1) /\ \A i \in 1 .. (N - 1) : Place(i) \notin marked => i \in fine
    OBVIOUS
  <1> HIDE DEF fine
  <1>3. ASSUME NEW e \in E \ marked, e # curRpcIdx
        PROVE  Dist(curRpcIdx, e) \in fine
    BY <1>2, <1>3, PlaceOf
  <1>4. CASE fine = {}
    <2>1. Place(1) \in E
      BY PlaceIs, RpcAssumption
    <2> QED
      BY <1>1, <1>3, <1>4, <2>1
  <1>5. CASE fine # {}
    <2>1. \E m \in fine : \A j \in fine : m <= j
      <3>1. fine \subseteq Nat
        BY <1>2
      <3> QED
        BY <1>5, <3>1, NatLeast
    <2>2. PICK n \in fine : Place(n) = NextRpc(marked) /\ \A j \in fine : n <= j
      BY <1>1, <1>5, <2>1
    <2>3. n \in 1 .. (N - 1) /\ n \in 0 .. N
      BY <1>2, RpcAssumption
    <2>4. Place(n) \in E
      BY <2>3, PlaceIs
    <2>5. ASSUME NEW e \in E \ marked, e # curRpcIdx
          PROVE  Place(n) # curRpcIdx /\ Dist(Place(n), e) < Dist(curRpcIdx, e)
      <3>1. n <= Dist(curRpcIdx, e)
        BY <1>3, <2>2, <2>5
      <3> QED
        BY <2>3, <3>1, Nearer
    <2> QED
      BY <2>2, <2>4, <2>5
  <1> QED
    BY <1>4, <1>5

-----------------------------------------------------------------------------
(* Types *)

\* switchRPC keeps the types.
LEMMA SwitchType ==
    ASSUME TypeOK, NEW next \in E, NEW otherwise \in 0 .. Threshold, SwitchTo(next, otherwise)
    PROVE  /\ curRpcIdx' \in E /\ issues' \in 0 .. Threshold
           /\ switches' \in [Callers -> 0 .. N] /\ earned' \in BOOLEAN
  <1>1. curRpcIdx' \in E /\ issues' \in 0 .. Threshold
    BY RpcAssumption DEF SwitchTo
  <1>2. switches' \in [Callers -> 0 .. N]
    <2>1. \A c \in Callers : switches[c] \in 0 .. N
      BY DEF TypeOK
    <2>2. \A c \in Callers : switches[c] < N => switches[c] + 1 \in 0 .. N
      BY <2>1, RpcAssumption
    <2> QED
      BY <2>1, <2>2 DEF SwitchTo
  <1>3. earned' \in BOOLEAN
    BY DEF SwitchTo, TypeOK
  <1> QED
    BY <1>1, <1>2, <1>3

\* So does registerRpcIssue.
LEMMA IssueType ==
    ASSUME TypeOK, RegisterIssue
    PROVE  /\ curRpcIdx' \in E /\ issues' \in 0 .. Threshold /\ badRpcs' \subseteq E
           /\ switches' \in [Callers -> 0 .. N] /\ earned' \in BOOLEAN
  <1>1. CASE issues + 1 >= Threshold
    <2>1. badRpcs' \subseteq E /\ SwitchTo(NextRpc(badRpcs'), Threshold)
      BY <1>1 DEF RegisterIssue, TypeOK
    <2>2. NextRpc(badRpcs') \in E
      BY RoundRobin DEF TypeOK
    <2>3. Threshold \in 0 .. Threshold
      BY RpcAssumption
    <2> QED
      BY <2>1, <2>2, <2>3, SwitchType
  <1>2. CASE ~(issues + 1 >= Threshold)
    <2>1. issues' = issues + 1 /\ UNCHANGED <<curRpcIdx, badRpcs, switches, earned>>
      BY <1>2 DEF RegisterIssue
    <2>2. issues' \in 0 .. Threshold
      BY <1>2, <2>1, RpcAssumption DEF TypeOK
    <2> QED
      BY <2>1, <2>2 DEF TypeOK
  <1> QED
    BY <1>1, <1>2

\* So do the steps of a call that charge nothing (commonRpcRetry).
LEMMA CallType ==
    ASSUME TypeOK, NEW c \in Callers, Begin(c) \/ Answer(c) \/ Retry(c)
    PROVE  TypeOK'
  <1>1. UNCHANGED <<curRpcIdx, issues, badRpcs, probing, asked, answered, up, earned>>
    BY DEF Begin, Answer, Retry, manager, best, world
  <1>2. 0 \in E /\ 0 \in 0 .. N /\ 0 \in 0 .. Retries
    BY RpcAssumption DEF E
  <1>3. pc' \in [Callers -> {"idle", "asked", "delay", "failed"}]
    BY DEF TypeOK, Begin, Answer, Retry
  <1>4. at' \in [Callers -> E]
    BY <1>2 DEF TypeOK, Begin, Answer, Retry, Ask
  <1>5. cnt' \in [Callers -> 0 .. Retries]
    <2>1. CASE Begin(c) \/ Answer(c)
      BY <1>2, <2>1 DEF TypeOK, Begin, Answer
    <2>2. CASE Retry(c)
      <3>1. cnt[c] \in 0 .. Retries
        BY DEF TypeOK
      <3>2. cnt[c] + 1 < Retries => cnt[c] + 1 \in 0 .. Retries
        BY <3>1, RpcAssumption
      <3> QED
        BY <1>2, <2>2, <3>2 DEF TypeOK, Retry
    <2> QED
      BY <2>1, <2>2
  <1>6. switches' \in [Callers -> 0 .. N]
    BY <1>2 DEF TypeOK, Begin, Answer, Retry
  <1>7. steady' \in [Callers -> SUBSET E]
    BY DEF TypeOK, Begin, Answer, Retry, world
  <1> QED
    BY <1>1, <1>3, <1>4, <1>5, <1>6, <1>7 DEF TypeOK

\* So does an error of a call.
LEMMA FailType ==
    ASSUME TypeOK, NEW c \in Callers, Fail(c)
    PROVE  TypeOK'
  <1>1. UNCHANGED <<at, cnt, probing, asked, answered, up, steady>> /\ RegisterIssue
    BY DEF Fail, best
  <1>2. pc' \in [Callers -> {"idle", "asked", "delay", "failed"}]
    BY DEF TypeOK, Fail
  <1> QED
    BY <1>1, <1>2, IssueType DEF TypeOK

\* So does the search for the best endpoint (switchToTheBestRPC).
LEMMA BestType ==
    ASSUME TypeOK, BeginBest \/ (\E e \in E : Probe(e)) \/ EndBest
    PROVE  TypeOK'
  <1>1. CASE BeginBest
    BY <1>1 DEF BeginBest, TypeOK, manager, calls, world
  <1>2. ASSUME NEW e \in E, Probe(e) PROVE TypeOK'
    <2>1. asked' \subseteq E /\ UNCHANGED <<pc, at, cnt, probing, up, steady>>
      BY <1>2 DEF Probe, TypeOK
    <2>2. CASE e \in up
      <3>1. UNCHANGED <<curRpcIdx, issues, badRpcs, switches, earned>> /\ answered' \subseteq E
        BY <1>2, <2>2 DEF Probe, TypeOK, manager
      <3> QED
        BY <2>1, <3>1 DEF TypeOK
    <2>3. CASE e \notin up
      <3>1. RegisterIssue /\ UNCHANGED answered
        BY <1>2, <2>3 DEF Probe
      <3> QED
        BY <2>1, <3>1, IssueType DEF TypeOK
    <2> QED
      BY <2>2, <2>3
  <1>3. CASE EndBest
    <2>1. /\ probing' = FALSE /\ answered' = {}
          /\ UNCHANGED <<badRpcs, pc, at, cnt, asked, up, steady>>
      BY <1>3 DEF EndBest
    <2>2. /\ curRpcIdx' \in E /\ issues' \in 0 .. Threshold
          /\ switches' \in [Callers -> 0 .. N] /\ earned' \in BOOLEAN
      <3>1. ASSUME NEW e \in answered, SwitchTo(e, issues)
            PROVE  /\ curRpcIdx' \in E /\ issues' \in 0 .. Threshold
                   /\ switches' \in [Callers -> 0 .. N] /\ earned' \in BOOLEAN
        BY <3>1, SwitchType DEF TypeOK
      <3> QED
        BY <1>3, <3>1 DEF EndBest, TypeOK
    <2> QED
      BY <2>1, <2>2 DEF TypeOK
  <1> QED
    BY <1>1, <1>2, <1>3

\* So does what becomes of the endpoints.
LEMMA WorldType ==
    ASSUME TypeOK, NEW e \in E, Outage(e) \/ Recover(e)
    PROVE  TypeOK'
  <1>1. UNCHANGED <<curRpcIdx, issues, badRpcs, pc, at, cnt, switches, probing, asked, answered>>
    BY DEF Outage, Recover, manager, calls, best
  <1>2. up' \subseteq E /\ steady' \in [Callers -> SUBSET E]
    BY DEF TypeOK, Outage, Recover
  <1>3. earned' \in BOOLEAN
    BY DEF TypeOK, Outage, Recover
  <1> QED
    BY <1>1, <1>2, <1>3 DEF TypeOK

\* The manager, its calls and the endpoints keep their types, whatever is admitted.
THEOREM TypeCorrect == Spec => []TypeOK
  <1>1. Init => TypeOK
    <2>1. 0 \in E /\ 0 \in 0 .. N /\ 0 \in 0 .. Retries /\ 0 \in 0 .. Threshold
      BY RpcAssumption DEF E
    <2> QED
      BY <2>1 DEF Init, TypeOK
  <1>2. TypeOK /\ [Next]_vars => TypeOK'
    <2> SUFFICES ASSUME TypeOK, [Next]_vars PROVE TypeOK'
      OBVIOUS
    <2>1. ASSUME NEW c \in Callers, Begin(c) \/ Answer(c) \/ Retry(c) PROVE TypeOK'
      BY <2>1, CallType
    <2>2. ASSUME NEW c \in Callers, Fail(c) PROVE TypeOK'
      BY <2>2, FailType
    <2>3. CASE BeginBest \/ (\E e \in E : Probe(e)) \/ EndBest
      BY <2>3, BestType
    <2>4. ASSUME NEW e \in E, Outage(e) \/ Recover(e) PROVE TypeOK'
      BY <2>4, WorldType
    <2>5. CASE UNCHANGED vars
      BY <2>5 DEF vars, manager, calls, best, world, TypeOK
    <2> QED
      BY <2>1, <2>2, <2>3, <2>4, <2>5 DEF Next
  <1> QED
    BY <1>1, <1>2, PTL DEF Spec

-----------------------------------------------------------------------------
(* A call that gives up *)

\* The best endpoint is looked for while no call runs.
Quiet == probing => \A c \in Callers : ~Running(c)

Steady == \A c \in Callers : steady[c] \subseteq up /\ (~Running(c) => steady[c] = {})

\* An endpoint that has answered since the call began is being asked by the call,
\* or the switches that the call may still see are enough to reach it.
Ahead ==
    \A c \in Callers : \A e \in steady[c] :
        \/ pc[c] = "asked" /\ at[c] = e
        \/ /\ e \notin badRpcs /\ (curRpcIdx = e => ~earned)
           /\ switches[c] + Dist(curRpcIdx, e) < N

ServeInv == TypeOK /\ MarkInv /\ Quiet /\ Steady /\ Ahead

\* The same of one call and one endpoint, in the two cases.
Reaches(c, e) ==
    /\ e \notin badRpcs /\ (curRpcIdx = e => ~earned)
    /\ switches[c] + Dist(curRpcIdx, e) < N

\* Ahead, said with Reaches.
LEMMA AheadIs == Ahead <=> \A c \in Callers : \A e \in steady[c] :
                               (pc[c] = "asked" /\ at[c] = e) \/ Reaches(c, e)
  BY DEF Ahead, Reaches

\* An endpoint that is left has earned it, and the next one is nearer to any other
\* that is not marked (registerRpcIssue, switchRPC).
LEMMA IssueReaches ==
    ASSUME ServeInv, RegisterIssue, up' = up, NEW d \in Callers, NEW e \in steady[d], Reaches(d, e),
           issues + 1 >= Threshold => earned
    PROVE  Reaches(d, e)'
  <1>1. e \in E /\ e \in up /\ curRpcIdx \in E /\ switches[d] \in 0 .. N
    BY DEF ServeInv, TypeOK, Steady
  <1>2. CASE issues + 1 >= Threshold
    <2>1. badRpcs' = badRpcs \cup {curRpcIdx} /\ SwitchTo(NextRpc(badRpcs'), Threshold)
      BY <1>2 DEF RegisterIssue
    <2>2. e # curRpcIdx /\ e \notin badRpcs'
      BY <1>2, <2>1 DEF Reaches
    <2>3. /\ NextRpc(badRpcs') # curRpcIdx
          /\ Dist(NextRpc(badRpcs'), e) < Dist(curRpcIdx, e)
          /\ NextRpc(badRpcs') \in E
      BY <1>1, <2>2, RoundRobin
    <2>4. curRpcIdx' = NextRpc(badRpcs') /\ (curRpcIdx' = e => ~earned')
      BY <1>1, <2>1, <2>3 DEF SwitchTo
    <2>5. switches'[d] \in {switches[d], switches[d] + 1}
      BY <2>1 DEF SwitchTo
    <2>6. Dist(curRpcIdx, e) \in 0 .. (N - 1) /\ Dist(curRpcIdx', e) \in 0 .. (N - 1)
      BY <1>1, <2>3, <2>4, DistIs
    <2>7. switches'[d] + Dist(curRpcIdx', e) < N
      BY <1>1, <2>3, <2>4, <2>5, <2>6, RpcAssumption DEF Reaches
    <2> QED
      BY <2>2, <2>4, <2>7 DEF Reaches
  <1>3. CASE ~(issues + 1 >= Threshold)
    BY <1>3 DEF RegisterIssue, Reaches
  <1> QED
    BY <1>2, <1>3

\* The call that fails asked an endpoint that does not answer; what the others may
\* see is as before.
LEMMA FailServe ==
    ASSUME ServeInv, FewCallers, Untimely = {}, NEW c \in Callers, Fail(c)
    PROVE  Quiet' /\ Steady' /\ Ahead'
  <1>1. UNCHANGED <<at, cnt, probing, asked, answered, up, steady>> /\ RegisterIssue
    BY DEF Fail, best
  <1>2. pc[c] = "asked" /\ at[c] \notin up /\ pc' = [pc EXCEPT ![c] = "delay"]
    BY DEF Fail
  <1>3. \A d \in Callers : Running(d)' <=> Running(d)
    BY <1>2 DEF Running, ServeInv, TypeOK
  <1>4. Quiet' /\ Steady'
    BY <1>1, <1>3 DEF ServeInv, Quiet, Steady
  <1>5. issues + 1 >= Threshold => earned
    BY BelowThreshold, RpcAssumption DEF ServeInv, MarkInv, CallsOK
  <1>6. ASSUME NEW d \in Callers, NEW e \in steady[d]
        PROVE  (pc'[d] = "asked" /\ at'[d] = e) \/ Reaches(d, e)'
    <2>1. CASE Reaches(d, e)
      BY <1>1, <1>5, <2>1, IssueReaches
    <2>2. CASE pc[d] = "asked" /\ at[d] = e
      <3>1. d # c
        BY <1>2, <2>2 DEF ServeInv, Steady
      <3> QED
        BY <1>1, <1>2, <2>2, <3>1 DEF ServeInv, TypeOK
    <2> QED
      BY <2>1, <2>2, AheadIs DEF ServeInv
  <1>7. Ahead'
    BY <1>1, <1>6 DEF Ahead, Reaches
  <1> QED
    BY <1>4, <1>7

\* A call begins with no switch seen and asks the current endpoint.
LEMMA BeginServe ==
    ASSUME ServeInv, Untimely = {}, NEW c \in Callers, Begin(c)
    PROVE  Quiet' /\ Steady' /\ Ahead'
  <1>1. /\ UNCHANGED <<curRpcIdx, badRpcs, probing, up, earned>> /\ ~probing
        /\ pc' = [pc EXCEPT ![c] = "asked"] /\ at' = [at EXCEPT ![c] = curRpcIdx]
        /\ switches' = [switches EXCEPT ![c] = 0]
        /\ steady' = [steady EXCEPT ![c] = up \ badRpcs]
    BY DEF Begin, Ask, manager, best
  <1>2. /\ pc'[c] = "asked" /\ at'[c] = curRpcIdx /\ switches'[c] = 0
        /\ steady'[c] = up \ badRpcs
        /\ \A d \in Callers \ {c} : /\ pc'[d] = pc[d] /\ at'[d] = at[d]
                                     /\ switches'[d] = switches[d] /\ steady'[d] = steady[d]
    BY <1>1 DEF ServeInv, TypeOK
  <1>3. Quiet' /\ Steady'
    BY <1>1, <1>2 DEF ServeInv, Quiet, Steady, Running
  <1>4. ASSUME NEW e \in steady'[c]
        PROVE  (pc'[c] = "asked" /\ at'[c] = e) \/ Reaches(c, e)'
    <2>1. e \in E /\ curRpcIdx \in E /\ e \notin badRpcs
      BY <1>2, <1>4 DEF ServeInv, TypeOK
    <2>2. Dist(curRpcIdx, e) \in 0 .. (N - 1)
      BY <2>1, DistIs
    <2>3. 0 + Dist(curRpcIdx, e) < N
      BY <2>2, RpcAssumption
    <2> QED
      BY <1>1, <1>2, <2>1, <2>3 DEF Reaches
  <1>5. ASSUME NEW d \in Callers \ {c}, NEW e \in steady'[d]
        PROVE  (pc'[d] = "asked" /\ at'[d] = e) \/ Reaches(d, e)'
    BY <1>1, <1>2, <1>5, AheadIs DEF ServeInv, Reaches
  <1>6. Ahead'
    BY <1>4, <1>5 DEF Ahead, Reaches
  <1> QED
    BY <1>3, <1>6

\* A call that is answered waits for no endpoint.
LEMMA AnswerServe ==
    ASSUME ServeInv, Untimely = {}, NEW c \in Callers, Answer(c)
    PROVE  Quiet' /\ Steady' /\ Ahead'
  <1>1. UNCHANGED <<curRpcIdx, badRpcs, probing, up, earned>>
    BY DEF Answer, manager, best
  <1>2. /\ pc'[c] = "idle" /\ steady'[c] = {}
        /\ \A d \in Callers \ {c} : /\ pc'[d] = pc[d] /\ at'[d] = at[d]
                                     /\ switches'[d] = switches[d] /\ steady'[d] = steady[d]
    BY DEF Answer, ServeInv, TypeOK
  <1>3. Quiet' /\ Steady'
    BY <1>1, <1>2 DEF ServeInv, Quiet, Steady, Running
  <1>4. Ahead'
    BY <1>1, <1>2, AheadIs DEF ServeInv, Ahead
  <1> QED
    BY <1>3, <1>4

\* A call that gives up has seen as many switches as there are endpoints.
LEMMA RetryServe ==
    ASSUME ServeInv, Untimely = {}, NEW c \in Callers, Retry(c)
    PROVE  Quiet' /\ Steady' /\ Ahead'
  <1>1. /\ UNCHANGED <<curRpcIdx, badRpcs, probing, up, earned, switches, steady>>
        /\ pc[c] = "delay"
    BY DEF Retry, manager, best, world
  <1>2. /\ \A d \in Callers \ {c} : pc'[d] = pc[d] /\ at'[d] = at[d]
        /\ pc'[c] \in {"asked", "failed"}
    BY DEF Retry, Ask, ServeInv, TypeOK
  <1>3. \A e \in steady[c] : Reaches(c, e)
    BY <1>1, AheadIs DEF ServeInv
  <1>4. pc'[c] = "failed" => steady[c] = {}
    <2> SUFFICES ASSUME pc'[c] = "failed", NEW e \in steady[c] PROVE FALSE
      OBVIOUS
    <2>1. ~(switches[c] < N)
      BY DEF Retry, ServeInv, TypeOK
    <2>2. switches[c] \in 0 .. N /\ curRpcIdx \in E /\ e \in E
      BY DEF ServeInv, TypeOK
    <2>3. Dist(curRpcIdx, e) \in 0 .. (N - 1)
      BY <2>2, DistIs
    <2> QED
      BY <1>3, <2>1, <2>2, <2>3, RpcAssumption DEF Reaches
  <1>5. Quiet' /\ Steady'
    BY <1>1, <1>2, <1>4 DEF ServeInv, Quiet, Steady, Running
  <1>6. \A d \in Callers : \A e \in steady[d] : Reaches(d, e) => Reaches(d, e)'
    BY <1>1 DEF Reaches
  <1>7. Ahead'
    BY <1>1, <1>2, <1>3, <1>6, AheadIs DEF ServeInv, Ahead, Reaches
  <1> QED
    BY <1>5, <1>7

\* No call runs while the best endpoint is looked for, which charges nothing.
LEMMA BestServe ==
    ASSUME ServeInv, Untimely = {}, BeginBest \/ (\E e \in E : Probe(e)) \/ EndBest
    PROVE  Quiet' /\ Steady' /\ Ahead'
  <1>1. UNCHANGED <<pc, at, up, steady>>
    BY DEF BeginBest, Probe, EndBest, calls, world
  <1>2. Steady'
    BY <1>1 DEF ServeInv, Steady, Running
  <1>3. CASE BeginBest \/ \E e \in E : Probe(e)
    <2>1. UNCHANGED <<curRpcIdx, badRpcs, switches, earned>>
      BY <1>3 DEF BeginBest, Probe, ServeInv, MarkInv, ProbesAnswered, manager, calls, world
    <2>2. Ahead'
      BY <1>1, <2>1 DEF ServeInv, Ahead
    <2>3. Quiet'
      BY <1>1, <1>3 DEF BeginBest, Probe, ServeInv, Quiet, Running
    <2> QED
      BY <1>2, <2>2, <2>3
  <1>4. CASE EndBest
    <2>1. \A c \in Callers : steady[c] = {}
      BY <1>4 DEF EndBest, ServeInv, Quiet, Steady
    <2>2. Ahead'
      BY <1>1, <2>1 DEF Ahead
    <2>3. Quiet'
      BY <1>4 DEF EndBest, Quiet
    <2> QED
      BY <1>2, <2>2, <2>3
  <1> QED
    BY <1>3, <1>4

\* An endpoint that fails has not answered all the time, and one that is back began late.
LEMMA WorldServe ==
    ASSUME ServeInv, Untimely = {}, NEW e \in E, Outage(e) \/ Recover(e)
    PROVE  Quiet' /\ Steady' /\ Ahead'
  <1>1. UNCHANGED <<curRpcIdx, badRpcs, pc, at, switches, probing>>
    BY DEF Outage, Recover, manager, calls, best
  <1>2. Quiet'
    BY <1>1 DEF ServeInv, Quiet, Running
  <1>3. CASE Outage(e)
    <2>1. /\ up' = up \ {e} /\ \A c \in Callers : steady'[c] = steady[c] \ {e}
          /\ (earned' => earned \/ e = curRpcIdx)
      BY <1>3 DEF Outage
    <2>2. Steady'
      BY <1>1, <2>1 DEF ServeInv, Steady, Running
    <2>3. Ahead'
      BY <1>1, <2>1 DEF ServeInv, Ahead
    <2> QED
      BY <1>2, <2>2, <2>3
  <1>4. CASE Recover(e)
    <2>1. up' = up \cup {e} /\ UNCHANGED <<steady, earned>>
      BY <1>4 DEF Recover
    <2>2. Steady'
      BY <1>1, <2>1 DEF ServeInv, Steady, Running
    <2>3. Ahead'
      BY <1>1, <2>1 DEF ServeInv, Ahead
    <2> QED
      BY <1>2, <2>2, <2>3
  <1> QED
    BY <1>3, <1>4

\* Every step keeps what GaveUpSound rests on.
LEMMA NextServe ==
    ASSUME ServeInv, FewCallers, Untimely = {}, [Next]_vars
    PROVE  Quiet' /\ Steady' /\ Ahead'
  <1>1. ASSUME NEW c \in Callers, Fail(c) PROVE Quiet' /\ Steady' /\ Ahead'
    BY <1>1, FailServe
  <1>2. ASSUME NEW c \in Callers, Begin(c) \/ Answer(c) \/ Retry(c)
        PROVE  Quiet' /\ Steady' /\ Ahead'
    BY <1>2, BeginServe, AnswerServe, RetryServe
  <1>3. CASE BeginBest \/ (\E e \in E : Probe(e)) \/ EndBest
    BY <1>3, BestServe
  <1>4. ASSUME NEW e \in E, Outage(e) \/ Recover(e) PROVE Quiet' /\ Steady' /\ Ahead'
    BY <1>4, WorldServe
  <1>5. CASE UNCHANGED vars
    BY <1>5 DEF vars, manager, calls, best, world, ServeInv, Quiet, Steady, Ahead, Running
  <1> QED
    BY <1>1, <1>2, <1>3, <1>4, <1>5 DEF Next

\* In orderly use a call reports "all RPCs are unavailable" only when no endpoint
\* has answered all the time since it began, for any number of endpoints, retries
\* and callers below the threshold (MultiRpcManager.commonRpcRetry).
THEOREM GaveUpSoundHolds == ASSUME FewCallers, Untimely = {} PROVE Spec => []GaveUpSound
  <1>1. Init => MarkInv /\ Quiet /\ Steady /\ Ahead
    <2>1. Init => Quiet /\ Steady /\ Ahead
      BY DEF Init, Quiet, Steady, Ahead, Running
    <2> QED
      BY <2>1, InitMark
  <1>2. MarkInv /\ [Next]_vars => MarkInv'
    BY NextMark
  <1>3. TypeOK /\ MarkInv /\ Quiet /\ Steady /\ Ahead /\ [Next]_vars => Quiet' /\ Steady' /\ Ahead'
    BY NextServe DEF ServeInv
  <1>4. Steady => GaveUpSound
    BY DEF Steady, GaveUpSound, Running
  <1> QED
    BY <1>1, <1>2, <1>3, <1>4, TypeCorrect, PTL DEF Spec
=============================================================================
