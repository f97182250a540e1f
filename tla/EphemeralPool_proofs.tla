-------------------------- MODULE EphemeralPool_proofs --------------------------
(***************************************************************************)
(* The scan for an unused address finds the first one and the listing      *)
(* misses no address with tokens, for every number of addresses and of     *)
(* endpoints (EphemeralPool), and the pool uses the chain as RpcManager    *)
(* describes it.                                                           *)
(*                                                                         *)
(* Addresses are used in order.  Every index that the pool keeps is at or  *)
(* before the first unused address, so that the first address that reads   *)
(* as unused is that one.                                                  *)
(***************************************************************************)
EXTENDS EphemeralPool, RpcManager_proofs

-----------------------------------------------------------------------------
(* The invariant *)

\* The addresses below k were used, and no other.
Used(k) == k \in 0 .. MaxIndex /\ \A i \in Index : (i < k) <=> (addr[i] # "unused")

\* Neither the next index to scan nor the one that was given out nor the one that a
\* listing has come to lies behind the first unused address; what a scan or a listing
\* reads is the address that its index says.
Behind ==
    \E k \in 0 .. MaxIndex :
        /\ Used(k) /\ startScanIndex <= k /\ given <= k /\ listAt <= k

\* A scan and a listing take turns, and nonces can be read.
Orderly ==
    /\ ~(scanning /\ listing) /\ (scanning => scanAt = startScanIndex)
    /\ supportsNonce \in {"unknown", "yes"}

PoolInv == PoolTypeOK /\ Behind /\ Orderly

\* In orderly use an address reads as unused only if it is.
LEMMA ReadsTrue ==
    ASSUME Mishaps = {}, Orderly, Supported, NEW known \in BOOLEAN, NonceRead(known)
    PROVE  supportsNonce' = "yes" /\ known
  <1>1. supportsNonce' = "yes"
    BY DEF Orderly, Supported
  <1> QED
    BY <1>1 DEF NonceRead

\* The first address that is not used is where every index ends.
LEMMA AtTheEnd ==
    ASSUME PoolTypeOK, NEW k \in 0 .. MaxIndex, Used(k), NEW i \in Index, i <= k
    PROVE  /\ addr[i] = "unused" => i = k
           /\ addr[i] # "unused" => i < k /\ i + 1 <= k /\ i + 1 \in Index
  <1>1. k \in Int /\ i \in Int /\ MaxIndex \in Nat
    BY EphemeralAssumption DEF Index
  <1>2. (i < k) <=> (addr[i] # "unused")
    BY DEF Used
  <1> QED
    BY <1>1, <1>2 DEF Index

-----------------------------------------------------------------------------
(* Types *)

\* A new pool has its types.
LEMMA PoolInitType == PoolInit => PoolTypeOK
  <1> SUFFICES ASSUME PoolInit PROVE PoolTypeOK
    OBVIOUS
  <1>1. 0 \in Index
    BY EphemeralAssumption DEF Index
  <1>2. addr \in [Index -> {"unused", "funded", "moved"}]
    BY DEF PoolInit
  <1> QED
    BY <1>1, <1>2 DEF PoolInit, PoolTypeOK

\* The pool keeps its types, whatever is admitted.
LEMMA PoolTypeStep ==
    ASSUME PoolTypeOK, [PoolNext]_scanVars
    PROVE  PoolTypeOK'
  <1>1. MaxIndex \in Nat /\ 0 \in Index
    BY EphemeralAssumption DEF Index
  <1>2. supportsNonce \in {"unknown", "yes", "no"} /\ Supported => supportsNonce' \in {"unknown", "yes", "no"}
    BY DEF Supported
  <1>3. CASE StartScan \/ ScanThrows \/ StartList \/ ListThrows
    BY <1>1, <1>3 DEF StartScan, ScanThrows, StartList, ListThrows, PoolTypeOK
  <1>4. CASE ScanReads
    <2>1. supportsNonce' \in {"unknown", "yes", "no"} /\ UNCHANGED <<addr, listing, listAt>>
      BY <1>2, <1>4 DEF ScanReads, PoolTypeOK
    <2>2. \/ scanning' = FALSE /\ scanAt' = 0 /\ given' = startScanIndex /\ UNCHANGED startScanIndex
          \/ /\ startScanIndex < MaxIndex + 1 /\ startScanIndex' = startScanIndex + 1
             /\ scanAt' = startScanIndex' /\ UNCHANGED <<scanning, given>>
      BY <1>4 DEF ScanReads
    <2>3. startScanIndex \in Index /\ (startScanIndex < MaxIndex + 1 => startScanIndex + 1 \in Index)
      BY <1>1 DEF PoolTypeOK, Index
    <2> QED
      BY <1>1, <2>1, <2>2, <2>3 DEF PoolTypeOK
  <1>5. CASE ListReads
    <2>1. supportsNonce' \in {"unknown", "yes", "no"} /\ UNCHANGED <<addr, scanning, scanAt, given>>
      BY <1>2, <1>5 DEF ListReads, PoolTypeOK
    <2>2. \/ /\ listing' = FALSE /\ listAt' = 0
             /\ startScanIndex' = IF listAt > startScanIndex THEN listAt ELSE startScanIndex
          \/ listAt < MaxIndex + 1 /\ listAt' = listAt + 1 /\ UNCHANGED <<listing, startScanIndex>>
      BY <1>5 DEF ListReads
    <2>3. listAt \in Index /\ (listAt < MaxIndex + 1 => listAt + 1 \in Index)
      BY <1>1 DEF PoolTypeOK, Index
    <2> QED
      BY <1>1, <2>1, <2>2, <2>3 DEF PoolTypeOK
  <1>6. ASSUME NEW i \in Index, Fund(i) \/ Move(i) PROVE PoolTypeOK'
    BY <1>6 DEF Fund, Move, PoolTypeOK
  <1>7. CASE UNCHANGED ephemeral
    BY <1>7 DEF ephemeral, PoolTypeOK
  <1>8. ScanAsks \/ ListAsks \/ Chain \/ UNCHANGED scanVars => UNCHANGED ephemeral
    BY DEF ScanAsks, ListAsks, Chain, scanVars
  <1> QED
    BY <1>3, <1>4, <1>5, <1>6, <1>7, <1>8 DEF PoolNext

\* The addresses and the indices of the pool keep their types.
THEOREM PoolTypeCorrect == PoolSpec => []PoolTypeOK
  <1>1. PoolInit => PoolTypeOK
    BY PoolInitType
  <1>2. PoolTypeOK /\ [PoolNext]_scanVars => PoolTypeOK'
    BY PoolTypeStep
  <1> QED
    BY <1>1, <1>2, PTL DEF PoolSpec

-----------------------------------------------------------------------------
(* The invariant is one *)

\* A new pool scans from the start.
LEMMA PoolInitInv == PoolInit => PoolInv
  <1> SUFFICES ASSUME PoolInit PROVE PoolInv
    OBVIOUS
  <1>1. PoolTypeOK
    BY PoolInitType
  <1>2. PICK k \in 0 .. MaxIndex : \A i \in Index : (i < k) <=> (addr[i] # "unused")
    BY DEF PoolInit
  <1>3. Used(k) /\ 0 <= k
    BY <1>2 DEF Used
  <1>4. Behind
    BY <1>3 DEF PoolInit, Behind
  <1> QED
    BY <1>1, <1>4 DEF PoolInit, Orderly, PoolInv

\* The scan steps over used addresses only, and returns the first that is not.
LEMMA ScanReadsInv ==
    ASSUME PoolInv, Mishaps = {}, ScanReads
    PROVE  Behind' /\ Orderly'
  <1>1. PICK k \in 0 .. MaxIndex :
            Used(k) /\ startScanIndex <= k /\ given <= k /\ listAt <= k
    BY DEF PoolInv, Behind
  <1>2. /\ scanning /\ ~listing /\ scanAt = startScanIndex /\ startScanIndex \in Index
        /\ UNCHANGED <<addr, listing, listAt>> /\ supportsNonce' = "yes"
    BY ReadsTrue DEF ScanReads, PoolInv, PoolTypeOK, Orderly
  <1>3. PICK known \in BOOLEAN : /\ NonceRead(known)
        /\ \/ /\ Nonused(scanAt, known) /\ scanning' = FALSE /\ given' = startScanIndex
              /\ UNCHANGED startScanIndex
           \/ /\ ~Nonused(scanAt, known) /\ startScanIndex' = startScanIndex + 1
              /\ scanAt' = startScanIndex' /\ UNCHANGED <<scanning, given>>
    BY DEF ScanReads
  <1>4. Nonused(scanAt, known) <=> addr[startScanIndex] = "unused"
    BY <1>2, <1>3, ReadsTrue DEF Nonused, ScanReads, PoolInv
  <1>5. Used(k)'
    BY <1>1, <1>2 DEF Used
  <1>6. startScanIndex' <= k /\ given' <= k /\ listAt' <= k
    BY <1>1, <1>2, <1>3, <1>4, AtTheEnd DEF PoolInv
  <1>7. Orderly'
    BY <1>2, <1>3 DEF Orderly
  <1> QED
    BY <1>5, <1>6, <1>7 DEF Behind

\* So does the listing.
LEMMA ListReadsInv ==
    ASSUME PoolInv, Mishaps = {}, ListReads
    PROVE  Behind' /\ Orderly'
  <1>1. PICK k \in 0 .. MaxIndex :
            Used(k) /\ startScanIndex <= k /\ given <= k /\ listAt <= k
    BY DEF PoolInv, Behind
  <1>2. /\ listing /\ ~scanning /\ listAt \in Index /\ startScanIndex \in Index
        /\ UNCHANGED <<addr, scanning, scanAt, given>> /\ supportsNonce' = "yes"
    BY ReadsTrue DEF ListReads, PoolInv, PoolTypeOK, Orderly
  <1>3. PICK known \in BOOLEAN : /\ NonceRead(known)
        /\ \/ /\ Nonused(listAt, known) /\ listAt' = 0
              /\ startScanIndex' \in {listAt, startScanIndex}
           \/ /\ ~Nonused(listAt, known) /\ listAt' = listAt + 1
              /\ UNCHANGED startScanIndex
    BY DEF ListReads
  <1>4. Nonused(listAt, known) <=> addr[listAt] = "unused"
    BY <1>2, <1>3, ReadsTrue DEF Nonused, ListReads, PoolInv
  <1>5. Used(k)'
    BY <1>1, <1>2 DEF Used
  <1>6. startScanIndex' <= k /\ given' <= k /\ listAt' <= k
    BY <1>1, <1>2, <1>3, <1>4, AtTheEnd DEF PoolInv
  <1>7. Orderly'
    BY <1>2 DEF Orderly
  <1> QED
    BY <1>5, <1>6, <1>7 DEF Behind

\* Tokens arrive at an address that was used before or is the first unused one.
LEMMA FundInv ==
    ASSUME PoolInv, NEW i \in Index, Fund(i) \/ Move(i)
    PROVE  Behind' /\ Orderly'
  <1>1. PICK k \in 0 .. MaxIndex :
            Used(k) /\ startScanIndex <= k /\ given <= k /\ listAt <= k
    BY DEF PoolInv, Behind
  <1>2. UNCHANGED <<supportsNonce, startScanIndex, scanning, scanAt, listing, listAt, given>>
    BY DEF Fund, Move
  <1>3. /\ startScanIndex \in Int /\ given \in Int /\ listAt \in Int /\ k \in Int /\ MaxIndex \in Nat
        /\ i \in Int
    BY EphemeralAssumption DEF PoolInv, PoolTypeOK, Index
  <1>4. addr'[i] # "unused" /\ \A j \in Index \ {i} : addr'[j] = addr[j]
    BY DEF Fund, Move, PoolInv, PoolTypeOK
  <1>5. (i <= k /\ i < MaxIndex) \/ i < k
    BY <1>1, <1>3 DEF Fund, Move, Used
  <1>6. CASE i < k
    <2>1. Used(k)'
      BY <1>1, <1>4, <1>6 DEF Used
    <2> QED
      BY <1>1, <1>2, <2>1 DEF Behind, PoolInv, Orderly
  <1>7. CASE i = k /\ i < MaxIndex
    <2>1. k + 1 \in 0 .. MaxIndex
      BY <1>3, <1>7
    <2>2. \A j \in Index : j \in Int
      BY DEF Index
    <2>3. \A j \in Index : (j < k + 1) <=> (addr'[j] # "unused")
      BY <1>1, <1>3, <1>4, <1>7, <2>2 DEF Used
    <2>4. Used(k + 1)'
      BY <2>1, <2>3 DEF Used
    <2>5. startScanIndex <= k + 1 /\ given <= k + 1 /\ listAt <= k + 1
      BY <1>1, <1>3
    <2> QED
      BY <1>2, <2>1, <2>4, <2>5 DEF Behind, PoolInv, Orderly
  <1> QED
    BY <1>3, <1>5, <1>6, <1>7

\* Scans and listings begin and fail in turns.
LEMMA StartInv ==
    ASSUME PoolInv, Mishaps = {}, StartScan \/ ScanThrows \/ StartList \/ ListThrows
    PROVE  Behind' /\ Orderly'
  <1>1. /\ UNCHANGED <<addr, supportsNonce, startScanIndex, given>>
        /\ listAt' \in {listAt, 0}
        /\ ~(scanning' /\ listing') /\ (scanning' => scanAt' = startScanIndex)
    BY DEF StartScan, ScanThrows, StartList, ListThrows, PoolInv, Orderly
  <1>2. PICK k \in 0 .. MaxIndex :
            Used(k) /\ startScanIndex <= k /\ given <= k /\ listAt <= k
    BY DEF PoolInv, Behind
  <1>3. Used(k)' /\ 0 <= k
    BY <1>1, <1>2 DEF Used
  <1> QED
    BY <1>1, <1>2, <1>3 DEF Behind, PoolInv, Orderly

\* Every step of the pool keeps the invariant.
LEMMA PoolNextInv ==
    ASSUME PoolInv, Mishaps = {}, [PoolNext]_scanVars
    PROVE  PoolInv'
  <1>1. CASE StartScan \/ ScanThrows \/ StartList \/ ListThrows
    BY <1>1, StartInv, PoolTypeStep DEF PoolInv
  <1>2. CASE ScanReads
    BY <1>2, ScanReadsInv, PoolTypeStep DEF PoolInv
  <1>3. CASE ListReads
    BY <1>3, ListReadsInv, PoolTypeStep DEF PoolInv
  <1>4. ASSUME NEW i \in Index, Fund(i) \/ Move(i) PROVE PoolInv'
    BY <1>4, FundInv, PoolTypeStep DEF PoolInv
  <1>5. CASE UNCHANGED ephemeral
    BY <1>5, PoolTypeStep DEF ephemeral, PoolInv, Behind, Used, Orderly
  <1>6. ScanAsks \/ ListAsks \/ Chain \/ UNCHANGED scanVars => UNCHANGED ephemeral
    BY DEF ScanAsks, ListAsks, Chain, scanVars
  <1> QED
    BY <1>1, <1>2, <1>3, <1>4, <1>5, <1>6 DEF PoolNext

-----------------------------------------------------------------------------
(* The scan and the listing *)

\* The index of an unused address that the scan returns is the first one.
LEMMA ScanEndStep ==
    ASSUME PoolInv, Mishaps = {}, [PoolNext]_scanVars, scanning, ~scanning', pc'["scan"] = "idle"
    PROVE  /\ addr[startScanIndex'] = "unused"
           /\ \A i \in 0 .. (startScanIndex' - 1) : addr[i] # "unused"
  <1>1. ScanReads
    <2>1. ScanAsks \/ ListAsks \/ Chain \/ UNCHANGED scanVars => UNCHANGED scanning
      BY DEF ScanAsks, ListAsks, Chain, scanVars, ephemeral
    <2>2. StartScan \/ ScanThrows \/ StartList \/ ListReads \/ ListThrows =>
              UNCHANGED scanning \/ scanning' = TRUE \/ pc'["scan"] = "failed"
      BY DEF StartScan, ScanThrows, StartList, ListReads, ListThrows
    <2>3. \A i \in Index : Fund(i) \/ Move(i) => UNCHANGED scanning
      BY DEF Fund, Move
    <2> QED
      BY <2>1, <2>2, <2>3 DEF PoolNext
  <1>2. PICK k \in 0 .. MaxIndex : Used(k) /\ startScanIndex <= k
    BY DEF PoolInv, Behind
  <1>3. startScanIndex' = startScanIndex /\ addr[startScanIndex] = "unused" /\ startScanIndex \in Index
    <2>1. PICK known \in BOOLEAN :
              NonceRead(known) /\ Nonused(scanAt, known) /\ UNCHANGED startScanIndex
      BY <1>1 DEF ScanReads
    <2>2. known
      BY <1>1, <2>1, ReadsTrue DEF ScanReads, PoolInv
    <2> QED
      BY <1>1, <2>1, <2>2 DEF Nonused, PoolInv, Orderly, PoolTypeOK
  <1>4. startScanIndex = k
    BY <1>2, <1>3, AtTheEnd DEF PoolInv
  <1>5. \A i \in 0 .. (k - 1) : i \in Index /\ i < k
    BY EphemeralAssumption DEF Index
  <1> QED
    BY <1>2, <1>3, <1>4, <1>5 DEF Used

\* A listing ends at the first unused address.
LEMMA ListEndStep ==
    ASSUME PoolInv, Mishaps = {}, [PoolNext]_scanVars, listing, ~listing', pc'["list"] = "idle"
    PROVE  \A i \in Index : addr[i] = "funded" => i < listAt
  <1>1. ListReads
    <2>1. ScanAsks \/ ListAsks \/ Chain \/ UNCHANGED scanVars => UNCHANGED listing
      BY DEF ScanAsks, ListAsks, Chain, scanVars, ephemeral
    <2>2. StartScan \/ ScanReads \/ ScanThrows \/ StartList \/ ListThrows =>
              UNCHANGED listing \/ listing' = TRUE \/ pc'["list"] = "failed"
      BY DEF StartScan, ScanReads, ScanThrows, StartList, ListThrows
    <2>3. \A i \in Index : Fund(i) \/ Move(i) => UNCHANGED listing
      BY DEF Fund, Move
    <2> QED
      BY <2>1, <2>2, <2>3 DEF PoolNext
  <1>2. PICK k \in 0 .. MaxIndex : Used(k) /\ listAt <= k
    BY DEF PoolInv, Behind
  <1>3. addr[listAt] = "unused" /\ listAt \in Index
    <2>1. PICK known \in BOOLEAN : NonceRead(known) /\ Nonused(listAt, known)
      BY <1>1 DEF ListReads
    <2>2. known
      BY <1>1, <2>1, ReadsTrue DEF ListReads, PoolInv
    <2> QED
      BY <2>1, <2>2 DEF Nonused, PoolInv, PoolTypeOK
  <1>4. listAt = k
    BY <1>2, <1>3, AtTheEnd DEF PoolInv
  <1> QED
    BY <1>2, <1>4 DEF Used

\* In orderly use the index that getNonusedEphemeralIndex returns is the first unused
\* one, wherever earlier scans and listings have left startScanIndex.
THEOREM FirstUnusedHolds == ASSUME Mishaps = {} PROVE PoolSpec => FirstUnused
  <1>1. PoolInit => PoolInv
    BY PoolInitInv
  <1>2. PoolInv /\ [PoolNext]_scanVars => PoolInv'
    BY PoolNextInv
  <1>3. PoolInv /\ [PoolNext]_scanVars =>
            [scanning /\ ~scanning' /\ pc'["scan"] = "idle" =>
                /\ addr[startScanIndex'] = "unused"
                /\ \A i \in 0 .. (startScanIndex' - 1) : addr[i] # "unused"]_scanVars
    BY ScanEndStep
  <1> QED
    BY <1>1, <1>2, <1>3, PTL DEF PoolSpec, FirstUnused

\* In orderly use no address with tokens lies behind the end of a listing
\* (getUsedEphemeralAddresses).
THEOREM FundsListedHolds == ASSUME Mishaps = {} PROVE PoolSpec => FundsListed
  <1>1. PoolInit => PoolInv
    BY PoolInitInv
  <1>2. PoolInv /\ [PoolNext]_scanVars => PoolInv'
    BY PoolNextInv
  <1>3. PoolInv /\ [PoolNext]_scanVars =>
            [listing /\ ~listing' /\ pc'["list"] = "idle" =>
                \A i \in Index : addr[i] = "funded" => i < listAt]_scanVars
    BY ListEndStep
  <1> QED
    BY <1>1, <1>2, <1>3, PTL DEF PoolSpec, FundsListed

-----------------------------------------------------------------------------
(* The pool and the endpoints *)

\* What the pool does on the chain are steps of RpcManager: its calls are calls of
\* commonRpcRetry (EphemeralPool's requests go through the network backend).
THEOREM PoolUsesRpc == PoolSpec => Spec
  <1>1. PoolInit => Init
    BY DEF PoolInit
  <1>2. [PoolNext]_scanVars => [Next]_vars
    <2> SUFFICES ASSUME [PoolNext]_scanVars PROVE [Next]_vars
      OBVIOUS
    <2>1. "scan" \in Callers /\ "list" \in Callers
      BY EphemeralAssumption
    <2>2. CASE StartScan \/ ScanAsks \/ ScanReads \/ ScanThrows
      BY <2>1, <2>2 DEF StartScan, ScanAsks, ScanReads, ScanThrows, Next
    <2>3. CASE StartList \/ ListAsks \/ ListReads \/ ListThrows
      BY <2>1, <2>3 DEF StartList, ListAsks, ListReads, ListThrows, Next
    <2>4. ASSUME NEW i \in Index, Fund(i) \/ Move(i) PROVE UNCHANGED vars
      BY <2>4 DEF Fund, Move
    <2>5. CASE Chain
      BY <2>1, <2>5 DEF Chain, Attempt, OtherEnds, Next
    <2>6. CASE UNCHANGED scanVars
      BY <2>6 DEF scanVars
    <2> QED
      BY <2>2, <2>3, <2>4, <2>5, <2>6 DEF PoolNext
  <1> QED
    BY <1>1, <1>2, PTL DEF PoolSpec, Spec

\* So a scan or a listing that fails has met no endpoint that was there all the time,
\* where the manager leaves one for more than two issues.
THEOREM PoolGaveUpSound == ASSUME FewCallers, Untimely = {} PROVE PoolSpec => []GaveUpSound
  BY PoolUsesRpc, GaveUpSoundHolds, PTL
=============================================================================
