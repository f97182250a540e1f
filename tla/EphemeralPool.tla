------------------------------ MODULE EphemeralPool ------------------------------
(***************************************************************************)
(* The one-time addresses of a user (src/src/ephemeral.ts, class           *)
(* EphemeralPool) and the calls of the chain through which their state is  *)
(* read (RpcManager): the scan for the first unused address, the listing   *)
(* of the used ones, and what an address looks like whose tokens were      *)
(* taken by permit.                                                        *)
(*                                                                         *)
(* The four requests of updateAddressInfo run side by side; they are one   *)
(* call here, answered for all of them, and only the permit nonce may be   *)
(* missing from the answer.                                                *)
(***************************************************************************)
EXTENDS RpcManager

CONSTANTS
    MaxIndex, \* bound: addresses that receive tokens are below it
    Mishaps   \* circumstances admitted beyond the orderly use:
              \* "overlap": addresses are listed while a scan runs
              \* "nonce":   the permit nonce cannot be read
              \* "support": the question whether the token has nonces fails

ASSUME EphemeralAssumption ==
    /\ MaxIndex \in Nat /\ Callers = {"scan", "list"}
    /\ Mishaps \subseteq {"overlap", "nonce", "support"}

VARIABLES
    addr,           \* "unused"; "funded": holds tokens; "moved": only its nonce tells
    supportsNonce,  \* supportedMethods' entry: "unknown", "yes" or "no"
    startScanIndex,
    scanning, scanAt,  \* scanPromise, and the address the scan reads
    listing, listAt,
    given           \* the index that the last scan has returned

ephemeral == <<addr, supportsNonce, startScanIndex, scanning, scanAt, listing, listAt, given>>
scanVars == <<vars, ephemeral>>

Index == 0 .. (MaxIndex + 1)

PoolTypeOK ==
    /\ addr \in [Index -> {"unused", "funded", "moved"}]
    /\ supportsNonce \in {"unknown", "yes", "no"}
    /\ startScanIndex \in Index /\ scanning \in BOOLEAN /\ scanAt \in Index
    /\ listing \in BOOLEAN /\ listAt \in Index /\ given \in Index

\* Addresses were used in order, by earlier sessions of the user.
PoolInit ==
    /\ Init
    /\ addr \in {a \in [Index -> {"unused", "funded", "moved"}] :
            \E k \in 0 .. MaxIndex : \A i \in Index : (i < k) <=> (a[i] # "unused")}
    /\ supportsNonce = "unknown" /\ startScanIndex = 0
    /\ scanning = FALSE /\ scanAt = 0 /\ listing = FALSE /\ listAt = 0 /\ given = 0

-----------------------------------------------------------------------------
(* Reading an address *)

\* isSupportNonce asks the token once, without retries, and keeps the answer.
Supported ==
    supportsNonce' \in
        IF supportsNonce # "unknown" THEN {supportsNonce}
        ELSE IF "support" \in Mishaps THEN {"yes", "no"} ELSE {"yes"}

\* Is the nonce known? "getTokenNonce(...).catch(() => 0)"
NonceRead(known) ==
    known \in IF supportsNonce' = "no" THEN {FALSE}
              ELSE IF "nonce" \in Mishaps THEN BOOLEAN ELSE {TRUE}

\* Mistake: an address is unused when it holds no tokens.
NonusedEmpty(i, known) == addr[i] # "funded"

\* isAddressNonused, as far as the answers tell.
Nonused(i, known) == addr[i] = "unused" \/ (addr[i] = "moved" /\ ~known)

-----------------------------------------------------------------------------
(* getNonusedEphemeralIndex: a call that finds a scan running shares it *)

StartScan ==
    /\ ~scanning /\ (~listing \/ "overlap" \in Mishaps)
    /\ scanning' = TRUE /\ scanAt' = startScanIndex /\ Begin("scan")
    /\ UNCHANGED <<addr, supportsNonce, startScanIndex, listing, listAt, given>>

ScanAsks ==
    /\ scanning /\ pc["scan"] = "idle" /\ Begin("scan") /\ UNCHANGED ephemeral

\* Mistake: the scan passes over one address more.
ScanReadsNext ==
    /\ scanning /\ Answer("scan") /\ Supported
    /\ \E known \in BOOLEAN :
        /\ NonceRead(known)
        /\ IF Nonused(scanAt, known)
           THEN /\ scanning' = FALSE /\ scanAt' = 0 /\ given' = startScanIndex
                /\ UNCHANGED startScanIndex
           ELSE /\ startScanIndex < MaxIndex
                /\ startScanIndex' = startScanIndex + 2 /\ scanAt' = startScanIndex'
                /\ UNCHANGED <<scanning, given>>
    /\ UNCHANGED <<addr, listing, listAt>>

\* The index is read again after the answer: it is returned, or incremented.
ScanReads ==
    /\ scanning /\ Answer("scan") /\ Supported
    /\ \E known \in BOOLEAN :
        /\ NonceRead(known)
        /\ IF Nonused(scanAt, known)
           THEN /\ scanning' = FALSE /\ scanAt' = 0 /\ given' = startScanIndex
                /\ UNCHANGED startScanIndex
           ELSE /\ startScanIndex < MaxIndex + 1
                /\ startScanIndex' = startScanIndex + 1 /\ scanAt' = startScanIndex'
                /\ UNCHANGED <<scanning, given>>
    /\ UNCHANGED <<addr, listing, listAt>>

ScanThrows ==
    /\ scanning /\ Retry("scan") /\ pc'["scan"] = "failed"
    /\ scanning' = FALSE /\ scanAt' = 0
    /\ UNCHANGED <<addr, supportsNonce, startScanIndex, listing, listAt, given>>

-----------------------------------------------------------------------------
(* getUsedEphemeralAddresses *)

StartList ==
    /\ ~listing /\ (~scanning \/ "overlap" \in Mishaps)
    /\ listing' = TRUE /\ listAt' = 0 /\ Begin("list")
    /\ UNCHANGED <<addr, supportsNonce, startScanIndex, scanning, scanAt, given>>

ListAsks ==
    /\ listing /\ pc["list"] = "idle" /\ Begin("list") /\ UNCHANGED ephemeral

\* Mistake: the listing ends at the first address without tokens.
ListReadsEmpty ==
    /\ listing /\ Answer("list") /\ Supported
    /\ IF addr[listAt] # "funded"
       THEN /\ listing' = FALSE /\ listAt' = 0
            /\ startScanIndex' = IF listAt > startScanIndex THEN listAt ELSE startScanIndex
       ELSE /\ listAt < MaxIndex + 1 /\ listAt' = listAt + 1
            /\ UNCHANGED <<listing, startScanIndex>>
    /\ UNCHANGED <<addr, scanning, scanAt, given>>

\* The listing ends at the first unused address, and moves the scan's start there.
ListReads ==
    /\ listing /\ Answer("list") /\ Supported
    /\ \E known \in BOOLEAN :
        /\ NonceRead(known)
        /\ IF Nonused(listAt, known)
           THEN /\ listing' = FALSE /\ listAt' = 0
                /\ startScanIndex' = IF listAt > startScanIndex THEN listAt ELSE startScanIndex
           ELSE /\ listAt < MaxIndex + 1 /\ listAt' = listAt + 1
                /\ UNCHANGED <<listing, startScanIndex>>
    /\ UNCHANGED <<addr, scanning, scanAt, given>>

ListThrows ==
    /\ listing /\ Retry("list") /\ pc'["list"] = "failed"
    /\ listing' = FALSE /\ listAt' = 0
    /\ UNCHANGED <<addr, supportsNonce, startScanIndex, scanning, scanAt, given>>

-----------------------------------------------------------------------------
(* Tokens arrive at an address that was given out, or used before, and are
   deposited by permit *)

Fund(i) ==
    /\ i < MaxIndex /\ (i = given \/ addr[i] = "moved") /\ addr[i] # "funded"
    /\ addr' = [addr EXCEPT ![i] = "funded"]
    /\ UNCHANGED <<vars, supportsNonce, startScanIndex, scanning, scanAt, listing, listAt, given>>

Move(i) ==
    /\ addr[i] = "funded" /\ addr' = [addr EXCEPT ![i] = "moved"]
    /\ UNCHANGED <<vars, supportsNonce, startScanIndex, scanning, scanAt, listing, listAt, given>>

-----------------------------------------------------------------------------
(* All other use of the chain but the search for the best endpoint: calls that
   are no part of a listing *)

Attempt(c) == Fail(c) \/ (Retry(c) /\ pc'[c] # "failed")
OtherEnds == ~listing /\ (Answer("list") \/ (Retry("list") /\ pc'["list"] = "failed"))

Chain ==
    /\ \/ \E c \in Callers : Attempt(c)
       \/ OtherEnds \/ (~listing /\ Begin("list"))
       \/ \E e \in E : Outage(e) \/ Recover(e)
    /\ UNCHANGED ephemeral

PoolNext ==
    \/ StartScan \/ ScanAsks \/ ScanReads \/ ScanThrows
    \/ StartList \/ ListAsks \/ ListReads \/ ListThrows
    \/ \E i \in Index : Fund(i) \/ Move(i)
    \/ Chain

PoolSpec == PoolInit /\ [][PoolNext]_scanVars

\* Requests are answered or fail, and what waits for them goes on.
PoolFairness ==
    /\ WF_scanVars(ScanAsks) /\ WF_scanVars(ScanThrows)
    /\ WF_scanVars(ListAsks) /\ WF_scanVars(ListThrows)
    /\ WF_scanVars(ScanReads \/ (Attempt("scan") /\ UNCHANGED ephemeral))
    /\ WF_scanVars(ListReads \/ ((Attempt("list") \/ OtherEnds) /\ UNCHANGED ephemeral))

FairPoolSpec == PoolSpec /\ PoolFairness

-----------------------------------------------------------------------------
(* Properties *)

\* "Find first unused account": the index that a scan returns is unused, and none
\* below it is, wherever earlier scans and listings have left startScanIndex.
FirstUnused ==
    [][scanning /\ ~scanning' /\ pc'["scan"] = "idle" =>
        /\ addr[startScanIndex'] = "unused"
        /\ \A i \in 0 .. (startScanIndex' - 1) : addr[i] # "unused"]_scanVars

\* "return all non-empty accounts (scan will stop on first empty address)": no
\* address that holds tokens lies behind the end of a listing.
FundsListed ==
    [][listing /\ ~listing' /\ pc'["list"] = "idle" =>
        \A i \in Index : addr[i] = "funded" => i < listAt]_scanVars

\* A scan ends, with an index or an error, whatever the endpoints do meanwhile.
ScanEnds == scanning ~> ~scanning
=============================================================================
