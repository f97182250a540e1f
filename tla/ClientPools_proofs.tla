---------------------------- MODULE ClientPools_proofs ----------------------------
(***************************************************************************)
(* In orderly use, whatever the number of pools, users and calls: the      *)
(* account is attached to its state, no account of the worker leaks, no    *)
(* two syncs share one, and caches hold their own pool's parameters        *)
(* (ClientPools).                                                          *)
(***************************************************************************)
EXTENDS ClientPools, TLAPS

\* At most one call of login or switchToPool runs, and not beside one for a gift card.
OneCall ==
    /\ \A c, d \in Calls : pc[c] # "idle" /\ pc[d] # "idle" => c = d
    /\ \A g, h \in Cards : card[g] # "idle" /\ card[h] # "idle" => g = h
    /\ CardBusy => ~Busy

\* The state that the client has in the current pool, from Created on
Holds == account # NoUser /\ (Busy => \E c \in Calls : pc[c] = "prover")

\* ... and its account in the worker, from Create on
Lives == account # NoUser /\ (Busy => \E c \in Calls : pc[c] \in {"create", "prover"})

\* A switch is about the current pool and account; what runs when it begins is
\* dropped, and what a call of updateState may still come to is another account's.
Underway ==
    \A c \in Calls : pc[c] # "idle" =>
        /\ target[c] = curPool /\ (syncing # {} => pc[c] = "prover") /\ ~listing
        /\ <<curPool, account>> \notin dropped
        /\ begun /\ curPool \in freeing => zpStates[curPool] # <<curPool, account>>
        /\ pc[c] = "monitors" => fetched[c][1] = curPool /\ account # NoUser
        /\ pc[c] \in {"create", "prover"} => fetched[c] = <<curPool, account>> /\ account # NoUser

\* Whatever is held is the current pool's, or is being freed.
Held ==
    /\ Holds => curPool \notin freeing /\ zpStates[curPool] = <<curPool, account>>
    /\ ~Holds => curPool \in freeing \/ zpStates[curPool] = NoState
    /\ \A p \in Pools \ {curPool} : p \in freeing \/ zpStates[p] = NoState

\* The worker's accounts, exactly
Living ==
    accounts = (IF Lives THEN {<<curPool, account>>} ELSE {})
               \cup (IF cardState # NoUser /\ "card" \notin freeing THEN {CardAccount} ELSE {})

Syncing ==
    /\ syncing \subseteq {curPool} /\ (syncing # {} => Holds) /\ (listing => Holds /\ ~Busy)
    /\ dropped \cap accounts = {}

\* A card's state that is being freed is not replaced.
CardHeld ==
    /\ "card" \in freeing => cardState # NoUser /\ \A g \in Cards : card[g] \notin {"create", "prove"}
    /\ \A g \in Cards :
        /\ card[g] = "create" => cardState = NoUser
        /\ card[g] = "prove" => cardState # NoUser /\ account # NoUser

ModeTold ==
    ~Busy => IF account = NoUser THEN mode = "accountless"
             ELSE begun \/ syncing # {} \/ listing \/ mode = "full"

Cached == CacheTrue /\ reading \in {Nowhere, curPool}

Life == OneCall /\ Underway /\ Held /\ Living /\ Syncing /\ CardHeld /\ ModeTold /\ Cached
LifeInv == TypeOK /\ Life

-----------------------------------------------------------------------------
(* Types *)

LEMMA InitType == Init => TypeOK
  <1> SUFFICES ASSUME Init PROVE TypeOK
    OBVIOUS
  <1>1. NoState \in Account
    BY DEF NoState, Account
  <1>2. /\ account \in Users \cup {NoUser} /\ curPool \in Pools /\ mode = "accountless"
        /\ zpStates \in [Pools -> Account] /\ freeing = {} /\ accounts = {}
    BY <1>1, ClientAssumption DEF Init
  <1>3. /\ cached \in [Pools -> Pools \cup {Nowhere}]
        /\ target \in [Calls -> Pools] /\ fetched \in [Calls -> Account]
    BY <1>1, ClientAssumption DEF Init
  <1>4. pc \in [Calls -> {"idle", "fetch", "hit", "monitors", "create", "prover"}]
    BY DEF Init
  <1>5. begun = FALSE /\ syncing = {} /\ dropped = {} /\ listing = FALSE
    BY DEF Init
  <1>6. /\ card \in [Cards -> {"idle", "create", "sync", "prove"}]
        /\ cardState = NoUser /\ cardUses \in [Cards -> Cards \cup {NoUser}]
    BY DEF Init
  <1>7. monitor = FALSE /\ info = FALSE /\ waiting = FALSE /\ reading = Nowhere
    BY DEF Init
  <1> QED
    BY <1>2, <1>3, <1>4, <1>5, <1>6, <1>7 DEF TypeOK

LEMMA BeginType ==
    ASSUME TypeOK, NEW c \in Calls, NEW p \in Pools, account' \in Users \cup {NoUser}, Begin(c, p)
    PROVE  TypeOK'
  <1>1. UNCHANGED <<zpStates, cached, fetched, begun, listing, card, cardState, cardUses,
                    monitor, info, waiting, reading>>
    BY DEF Begin, gift, jobs
  <1>2. mode' \in {"switching", "attaching"}
    BY DEF Begin
  <1>3. curPool' \in Pools /\ target' \in [Calls -> Pools]
    BY DEF Begin, TypeOK
  <1>4. pc' \in [Calls -> {"idle", "fetch", "hit", "monitors", "create", "prover"}]
    BY DEF Begin, TypeOK
  <1>5. /\ freeing' \subseteq Pools \cup {"card"} /\ accounts' \subseteq accounts
        /\ syncing' \subseteq Pools /\ dropped' \subseteq Account
    BY DEF Begin, Release, TypeOK
  <1> QED
    BY <1>1, <1>2, <1>3, <1>4, <1>5 DEF TypeOK

LEMMA SwitchType ==
    ASSUME TypeOK, NEW c \in Calls, CallStep(c)
    PROVE  TypeOK'
  <1>1. CASE Fetched(c)
    <2>1. UNCHANGED <<account, curPool, zpStates, freeing, accounts, target, syncing, dropped,
                      begun, listing, card, cardState, cardUses, monitor, waiting, reading>>
      BY <1>1 DEF Fetched, states, syncs, gift
    <2>2. cached' \in [Pools -> Pools \cup {Nowhere}]
      BY <1>1 DEF Fetched, Store, TypeOK
    <2>3. fetched' \in [Calls -> Account]
      BY <1>1 DEF Fetched, TypeOK, Account
    <2>4. pc' \in [Calls -> {"idle", "fetch", "hit", "monitors", "create", "prover"}]
      BY <1>1 DEF Fetched, TypeOK
    <2>5. mode' \in {mode, "accountless"} /\ info' \in BOOLEAN
      BY <1>1 DEF Fetched, TypeOK
    <2> QED
      BY <2>1, <2>2, <2>3, <2>4, <2>5 DEF TypeOK
  <1>2. CASE Create(c)
    <2>1. fetched[c][1] \in Pools \cup {Nowhere}
      BY DEF TypeOK, Account
    <2>2. <<fetched[c][1], account>> \in Account
      BY <2>1 DEF TypeOK, Account
    <2>3. UNCHANGED <<account, curPool, mode, zpStates, freeing, cached, target, syncing, dropped,
                      begun, listing, card, cardState, cardUses, monitor, info, waiting, reading>>
      BY <1>2 DEF Create, client, syncs, gift, jobs
    <2>4. /\ fetched' \in [Calls -> Account]
          /\ accounts' \subseteq Account \cup {CardAccount}
          /\ pc' \in [Calls -> {"idle", "fetch", "hit", "monitors", "create", "prover"}]
      BY <1>2, <2>2 DEF Create, TypeOK
    <2> QED
      BY <2>3, <2>4 DEF TypeOK
  <1>3. CASE Created(c)
    <2>1. UNCHANGED <<account, curPool, mode, freeing, accounts, cached, target, fetched, syncing,
                      dropped, begun, listing, card, cardState, cardUses, monitor, info, waiting, reading>>
      BY <1>3 DEF Created, client, syncs, gift, jobs
    <2>2. zpStates' \in [Pools -> Account]
      BY <1>3 DEF Created, TypeOK
    <2>3. pc' \in [Calls -> {"idle", "fetch", "hit", "monitors", "create", "prover"}]
      BY <1>3 DEF Created, TypeOK
    <2> QED
      BY <2>1, <2>2, <2>3 DEF TypeOK
  <1>4. CASE Attached(c)
    BY <1>4 DEF Attached, TypeOK, states, syncs, gift, jobs
  <1> QED
    BY <1>1, <1>2, <1>3, <1>4 DEF CallStep

LEMMA DropType ==
    ASSUME TypeOK, Logout \/ (\E p \in Pools : Freed(p)) \/ CardFreed
    PROVE  TypeOK'
  <1>1. CASE Logout
    <2>1. UNCHANGED <<curPool, zpStates, cached, pc, target, fetched, begun, listing, card, cardState,
                      cardUses, monitor, info, waiting, reading>>
      BY <1>1 DEF Logout, switch, gift, jobs
    <2>2. account' = NoUser /\ mode' = "accountless"
      BY <1>1 DEF Logout
    <2>3. /\ freeing' \subseteq Pools \cup {"card"} /\ accounts' \subseteq accounts
          /\ syncing' \subseteq Pools /\ dropped' \subseteq Account
      BY <1>1 DEF Logout, TypeOK
    <2> QED
      BY <2>1, <2>2, <2>3 DEF TypeOK
  <1>2. ASSUME NEW p \in Pools, Freed(p) PROVE TypeOK'
    <2>1. UNCHANGED <<account, curPool, mode, accounts, cached, pc, target, fetched, begun, listing, card,
                      cardState, cardUses, monitor, info, waiting, reading>>
      BY <1>2 DEF Freed, client, switch, gift, jobs
    <2>2. NoState \in Account
      BY DEF NoState, Account
    <2>3. zpStates' \in [Pools -> Account]
      BY <1>2, <2>2 DEF Freed, TypeOK
    <2>4. freeing' \subseteq Pools \cup {"card"} /\ syncing' \subseteq Pools /\ dropped' \subseteq Account
      BY <1>2 DEF Freed, TypeOK
    <2> QED
      BY <2>1, <2>3, <2>4 DEF TypeOK
  <1>3. CASE CardFreed
    BY <1>3 DEF CardFreed, TypeOK, client, switch, syncs, jobs
  <1> QED
    BY <1>1, <1>2, <1>3

LEMMA SyncType ==
    ASSUME TypeOK,
           \/ UpdateState \/ SyncBegins \/ (\E p \in Pools : SyncEnds(p))
           \/ (\E s \in dropped : DroppedSyncEnds(s)) \/ ListHistory \/ HistoryListed
    PROVE  TypeOK'
  <1>1. UNCHANGED <<account, curPool, zpStates, freeing, accounts, cached, pc, target, fetched, card,
                    cardState, cardUses, monitor, info, waiting, reading>>
    BY DEF UpdateState, SyncBegins, SyncEnds, DroppedSyncEnds, ListHistory, HistoryListed, states,
           switch, gift, jobs, client
  <1>2. /\ syncing' \subseteq Pools /\ dropped' \subseteq Account
        /\ begun' \in BOOLEAN /\ listing' \in BOOLEAN
    BY DEF UpdateState, SyncBegins, SyncEnds, DroppedSyncEnds, ListHistory, HistoryListed, TypeOK
  <1>3. mode' \in {mode, "full", "updating", "history"}
    BY DEF UpdateState, SyncBegins, SyncEnds, DroppedSyncEnds, ListHistory, HistoryListed, FullModeIf,
           client
  <1> QED
    BY <1>1, <1>2, <1>3 DEF TypeOK

LEMMA CardType ==
    ASSUME TypeOK, NEW g \in Cards, StartCard(g) \/ CardStep(g)
    PROVE  TypeOK'
  <1>1. UNCHANGED <<account, curPool, mode, zpStates, freeing, cached, pc, target, fetched, syncing,
                    dropped, begun, listing, waiting, reading>>
    <2>1. CASE StartCard(g)
      BY <2>1 DEF StartCard, client, states, switch, syncs, jobs
    <2>2. CASE CardCreated(g)
      BY <2>2 DEF CardCreated, client, switch, syncs, jobs
    <2>3. CASE CardSynced(g)
      BY <2>3 DEF CardSynced, client, states, switch, syncs, jobs
    <2>4. CASE Redeemed(g)
      BY <2>4 DEF Redeemed, client, switch, syncs
    <2> QED
      BY <2>1, <2>2, <2>3, <2>4 DEF CardStep
  <1>2. card' \in [Cards -> {"idle", "create", "sync", "prove"}]
    BY DEF StartCard, CardStep, CardCreated, CardSynced, Redeemed, TypeOK
  <1>3. cardState' \in Cards \cup {NoUser} /\ cardUses' \in [Cards -> Cards \cup {NoUser}]
    BY DEF StartCard, CardStep, CardCreated, CardSynced, Redeemed, TypeOK
  <1>4. accounts' \subseteq Account \cup {CardAccount}
    BY DEF StartCard, CardStep, CardCreated, CardSynced, Redeemed, TypeOK, states
  <1>5. monitor' \in BOOLEAN /\ info' \in BOOLEAN
    BY DEF StartCard, CardStep, CardCreated, CardSynced, Redeemed, TypeOK, jobs
  <1> QED
    BY <1>1, <1>2, <1>3, <1>4, <1>5 DEF TypeOK

LEMMA OtherType ==
    ASSUME TypeOK,
           StartJob \/ StartWait \/ JobEnds \/ WaitPolls \/ StartRead \/ ReadDone
    PROVE  TypeOK'
  <1>1. CASE StartJob \/ StartWait \/ WaitPolls
    BY <1>1 DEF StartJob, StartWait, WaitPolls, TypeOK, client, states, switch, syncs, gift
  <1>2. CASE JobEnds
    <2>1. UNCHANGED <<account, curPool, mode, zpStates, freeing, accounts, cached, target, fetched,
                      syncing, dropped, begun, listing, card, cardState, cardUses, waiting, reading>>
      BY <1>2 DEF JobEnds, client, states, syncs, gift
    <2>2. monitor' \in BOOLEAN /\ info' \in BOOLEAN
      BY <1>2 DEF JobEnds, TypeOK, Outcomes
    <2>3. pc' \in [Calls -> {"idle", "fetch", "hit", "monitors", "create", "prover"}]
      BY <1>2 DEF JobEnds, TypeOK
    <2> QED
      BY <2>1, <2>2, <2>3 DEF TypeOK
  <1>3. CASE StartRead
    BY <1>3 DEF StartRead, TypeOK, client, states, switch, syncs, gift, jobs
  <1>4. CASE ReadDone
    BY <1>4 DEF ReadDone, Store, TypeOK, client, states, switch, syncs, gift, jobs
  <1> QED
    BY <1>1, <1>2, <1>3, <1>4

LEMMA NextType == TypeOK /\ [Next]_vars => TypeOK'
  <1> SUFFICES ASSUME TypeOK, [Next]_vars PROVE TypeOK'
    OBVIOUS
  <1>1. ASSUME NEW c \in Calls, NEW p \in Pools,
               SwitchPool(c, p) \/ \E u \in Users : Login(c, u, p)
        PROVE  TypeOK'
    <2>1. account' \in Users \cup {NoUser} /\ Begin(c, p)
      BY <1>1 DEF SwitchPool, Login, TypeOK
    <2> QED
      BY <2>1, BeginType
  <1>2. ASSUME NEW c \in Calls, CallStep(c) PROVE TypeOK'
    BY <1>2, SwitchType
  <1>3. CASE Logout \/ (\E p \in Pools : Freed(p)) \/ CardFreed
    BY <1>3, DropType
  <1>4. CASE \/ UpdateState \/ SyncBegins \/ (\E p \in Pools : SyncEnds(p))
             \/ (\E s \in dropped : DroppedSyncEnds(s)) \/ ListHistory \/ HistoryListed
    BY <1>4, SyncType
  <1>5. ASSUME NEW g \in Cards, StartCard(g) \/ CardStep(g) PROVE TypeOK'
    BY <1>5, CardType
  <1>6. CASE StartJob \/ StartWait \/ JobEnds \/ WaitPolls \/ StartRead \/ ReadDone
    BY <1>6, OtherType
  <1>7. CASE UNCHANGED vars
    BY <1>7 DEF vars, client, states, switch, syncs, gift, jobs, TypeOK
  <1> QED
    BY <1>1, <1>2, <1>3, <1>4, <1>5, <1>6, <1>7 DEF Next, CallStep, CardStep

\* The state of the client stays well formed under all circumstances.
THEOREM TypeCorrect == Spec => []TypeOK
  BY InitType, NextType, PTL DEF Spec

-----------------------------------------------------------------------------
(* The invariant of orderly use *)

LEMMA Answered == ASSUME Untimely = {} PROVE \A x : Outcomes(x) = {TRUE}
  BY DEF Outcomes

\* The client's states are the pools' own, and differ from the gift card's.
LEMMA Apart ==
    ASSUME TypeOK
    PROVE  /\ curPool # Nowhere /\ <<curPool, account>> # NoState /\ CardAccount # NoState
           /\ <<curPool, account>> # CardAccount
           /\ CardAccount \notin Account /\ CardAccount \notin dropped /\ "card" \notin Pools
  BY ClientAssumption DEF TypeOK, NoState, CardAccount, Account

LEMMA LifeInit == Init => Life
  <1> SUFFICES ASSUME Init PROVE Life
    OBVIOUS
  <1>1. ~Busy /\ ~CardBusy /\ ~Holds /\ ~Lives
    BY DEF Init, Busy, CardBusy, Holds, Lives
  <1>2. OneCall /\ Underway /\ Syncing /\ CardHeld /\ ModeTold
    BY <1>1 DEF Init, OneCall, Underway, Syncing, CardHeld, ModeTold, Busy, CardBusy
  <1>3. \A p \in Pools : zpStates[p] = NoState /\ cached[p] = Nowhere
    BY DEF Init
  <1>4. curPool \in Pools /\ accounts = {} /\ cardState = NoUser /\ reading = Nowhere
    BY ClientAssumption DEF Init
  <1>5. Held /\ Living /\ Cached
    BY <1>1, <1>3, <1>4 DEF Held, Living, Cached, CacheTrue
  <1> QED
    BY <1>2, <1>5 DEF Life

\* Nothing runs, nothing of the old state is left, and the new pool has none.
LEMMA BeginLife ==
    ASSUME Untimely = {}, LifeInv, NEW c \in Calls, NEW p \in Pools, Begin(c, p),
           account' = account \/ account = NoUser
    PROVE  Life'
  <1>1. UNCHANGED <<zpStates, cached, fetched, begun, listing, card, cardState, cardUses, monitor, info,
                    waiting, reading>>
    BY DEF Begin, gift, jobs
  <1>2. ~Busy /\ ~CardBusy /\ ~listing /\ reading = Nowhere /\ TypeOK
    BY DEF Begin, Orderly, LifeInv
  <1>3. Outcomes("unknown") = {TRUE}
    BY Answered
  <1>4. curPool' = p /\ target' = [target EXCEPT ![c] = p]
    BY <1>3 DEF Begin
  <1>5. pc' = [pc EXCEPT ![c] = "fetch"] \/ pc' = [pc EXCEPT ![c] = "hit"]
    BY <1>3 DEF Begin
  <1>6. /\ pc'[c] \in {"fetch", "hit"} /\ \A d \in Calls \ {c} : pc'[d] = "idle"
        /\ target'[c] = curPool'
    BY <1>2, <1>4, <1>5 DEF Busy, TypeOK
  <1>7. Busy' /\ ~Holds' /\ ~Lives' /\ ~CardBusy'
    BY <1>1, <1>2, <1>6 DEF Busy, Holds, Lives, CardBusy
  <1>8. <<p, account'>> \notin dropped' /\ (begun => zpStates[p] # <<p, account'>>)
    BY DEF Begin
  <1>9. syncing' = {}
    BY <1>2, Apart DEF Begin, Release, LifeInv, Life, Syncing, Held
  <1>10. accounts' = IF cardState # NoUser /\ "card" \notin freeing THEN {CardAccount} ELSE {}
    <2>1. CASE account = NoUser
      <3>1. accounts = IF cardState # NoUser /\ "card" \notin freeing THEN {CardAccount} ELSE {}
        BY <2>1 DEF LifeInv, Life, Living, Lives
      <3>2. zpStates[curPool] # CardAccount
        BY <1>2, Apart DEF TypeOK
      <3> QED
        BY <3>1, <3>2 DEF Begin, Release
    <2>2. CASE account # NoUser
      <3>1. Lives /\ zpStates[curPool] = <<curPool, account>>
        BY <1>2, <2>2 DEF LifeInv, Life, Held, Lives, Holds
      <3> QED
        BY <1>2, <2>2, <3>1, Apart DEF Begin, Release, LifeInv, Life, Living
    <2> QED
      BY <2>1, <2>2
  <1>11. \A q \in Pools : q \in freeing' \/ zpStates[q] = NoState
    BY <1>2 DEF Begin, Release, LifeInv, Life, Held, TypeOK
  <1>12. "card" \in freeing' <=> "card" \in freeing
    BY <1>2, Apart DEF Begin, Release, TypeOK
  <1>13. dropped' \cap accounts' = {}
    <2>1. CardAccount \notin dropped'
      BY <1>2, Apart DEF Begin, Release, LifeInv, Life, Syncing, Held
    <2> QED
      BY <1>10, <2>1
  <1>14. OneCall'
    BY <1>1, <1>2, <1>6, <1>7 DEF OneCall, CardBusy
  <1>15. Underway'
    BY <1>1, <1>2, <1>4, <1>6, <1>8, <1>9 DEF Underway
  <1>16. Held'
    BY <1>1, <1>4, <1>7, <1>11 DEF Held
  <1>17. Living'
    BY <1>1, <1>7, <1>10, <1>12 DEF Living, CardAccount
  <1>18. Syncing'
    BY <1>1, <1>2, <1>9, <1>13 DEF Syncing
  <1>19. CardHeld'
    BY <1>1, <1>2, <1>12 DEF CardHeld, CardBusy, LifeInv, Life
  <1>20. ModeTold' /\ Cached'
    BY <1>1, <1>2, <1>7 DEF ModeTold, Cached, CacheTrue, LifeInv, Life
  <1> QED
    BY <1>14, <1>15, <1>16, <1>17, <1>18, <1>19, <1>20 DEF Life

LEMMA FetchedLife ==
    ASSUME Untimely = {}, LifeInv, NEW c \in Calls, Fetched(c)
    PROVE  Life'
  <1>1. UNCHANGED <<account, curPool, zpStates, freeing, accounts, target, syncing, dropped,
                    begun, listing, card, cardState, cardUses, monitor, waiting, reading>>
    BY DEF Fetched, states, syncs, gift
  <1>2. /\ TypeOK /\ pc[c] \in {"fetch", "hit"} /\ \A d \in Calls \ {c} : pc[d] = "idle"
        /\ Busy /\ ~Holds /\ ~Lives /\ ~CardBusy
    BY DEF Fetched, LifeInv, Life, OneCall, Busy, Holds, Lives
  <1>3. /\ target[c] = curPool /\ syncing = {} /\ ~listing /\ <<curPool, account>> \notin dropped
        /\ begun /\ curPool \in freeing => zpStates[curPool] # <<curPool, account>>
    BY <1>2 DEF LifeInv, Life, Underway
  <1>4. Outcomes("denom") = {TRUE} /\ Outcomes("poolid") = {TRUE}
    BY Answered
  <1>5. IF account = NoUser THEN pc' = [pc EXCEPT ![c] = "idle"] /\ mode' = "accountless"
        ELSE pc' = [pc EXCEPT ![c] = "monitors"]
    BY <1>4 DEF Fetched
  <1>6. /\ \A d \in Calls \ {c} : pc'[d] = "idle"
        /\ account = NoUser => pc'[c] = "idle" /\ mode' = "accountless"
        /\ account # NoUser => pc'[c] = "monitors"
    BY <1>2, <1>5 DEF TypeOK
  <1>7. fetched' = [fetched EXCEPT ![c] = <<curPool, NoUser>>]
    BY <1>4 DEF Fetched
  <1>8. fetched'[c][1] = curPool
    BY <1>2, <1>7 DEF TypeOK
  <1>9. Cached'
    BY <1>1, <1>2, <1>3, Answered DEF Fetched, Store, Cached, CacheTrue, LifeInv, Life, TypeOK
  <1>10. ~Holds' /\ ~Lives' /\ ~CardBusy'
    <2>1. CASE account = NoUser
      BY <1>1, <1>2, <2>1 DEF Holds, Lives, CardBusy
    <2>2. CASE account # NoUser
      <3>1. Busy' /\ \A d \in Calls : pc'[d] \notin {"create", "prover"}
        BY <1>6, <2>2 DEF Busy
      <3> QED
        BY <1>1, <1>2, <3>1 DEF Holds, Lives, CardBusy
    <2> QED
      BY <2>1, <2>2
  <1>11. OneCall' /\ Underway'
    <2>1. OneCall'
      BY <1>1, <1>2, <1>6, <1>10 DEF OneCall, CardBusy
    <2>2. Underway'
      BY <1>1, <1>3, <1>6, <1>8 DEF Underway
    <2> QED
      BY <2>1, <2>2
  <1>12. Held'
    BY <1>1, <1>2, <1>10 DEF Held, LifeInv, Life
  <1>13. Living'
    BY <1>1, <1>2, <1>10 DEF Living, LifeInv, Life, CardAccount
  <1>14. Syncing' /\ CardHeld'
    BY <1>1, <1>3 DEF Syncing, CardHeld, LifeInv, Life
  <1>15. ModeTold'
    BY <1>1, <1>6 DEF ModeTold, Busy
  <1> QED
    BY <1>9, <1>11, <1>12, <1>13, <1>14, <1>15 DEF Life

LEMMA CreateLife ==
    ASSUME Untimely = {}, LifeInv, NEW c \in Calls, Create(c)
    PROVE  Life'
  <1>1. UNCHANGED <<account, curPool, mode, zpStates, freeing, cached, target, syncing, dropped,
                    begun, listing, card, cardState, cardUses, monitor, info, waiting, reading>>
    BY DEF Create, client, syncs, gift, jobs
  <1>2. /\ TypeOK /\ pc[c] = "monitors" /\ \A d \in Calls \ {c} : pc[d] = "idle"
        /\ Busy /\ ~Holds /\ ~Lives /\ ~CardBusy
    BY DEF Create, LifeInv, Life, OneCall, Busy, Holds, Lives
  <1>3. /\ target[c] = curPool /\ syncing = {} /\ ~listing /\ <<curPool, account>> \notin dropped
        /\ begun /\ curPool \in freeing => zpStates[curPool] # <<curPool, account>>
        /\ fetched[c][1] = curPool /\ account # NoUser
    BY <1>2 DEF LifeInv, Life, Underway
  <1>4. /\ \A d \in Calls \ {c} : pc'[d] = "idle"
        /\ pc'[c] = "create" /\ fetched'[c] = <<curPool, account>>
        /\ accounts' = accounts \cup {<<curPool, account>>}
    BY <1>2, <1>3 DEF Create, TypeOK
  <1>5. ~Holds' /\ Lives' /\ ~CardBusy' /\ Busy'
    BY <1>1, <1>2, <1>3, <1>4 DEF Busy, Holds, Lives, CardBusy
  <1>6. OneCall' /\ Underway'
    BY <1>1, <1>2, <1>3, <1>4, <1>5 DEF OneCall, Underway, LifeInv, Life, CardBusy
  <1>7. Held'
    BY <1>1, <1>2, <1>5 DEF Held, LifeInv, Life
  <1>8. Living'
    BY <1>1, <1>2, <1>4, <1>5 DEF Living, LifeInv, Life, CardAccount
  <1>9. Syncing'
    BY <1>1, <1>3, <1>4 DEF Syncing, LifeInv, Life
  <1>10. CardHeld' /\ ModeTold' /\ Cached'
    BY <1>1, <1>5 DEF CardHeld, ModeTold, Cached, CacheTrue, LifeInv, Life
  <1> QED
    BY <1>6, <1>7, <1>8, <1>9, <1>10 DEF Life

LEMMA CreatedLife ==
    ASSUME Untimely = {}, LifeInv, NEW c \in Calls, Created(c)
    PROVE  Life'
  <1>1. UNCHANGED <<account, curPool, mode, freeing, accounts, cached, target, fetched, syncing,
                    dropped, begun, listing, card, cardState, cardUses, monitor, info, waiting, reading>>
    BY DEF Created, client, syncs, gift, jobs
  <1>2. /\ TypeOK /\ pc[c] = "create" /\ \A d \in Calls \ {c} : pc[d] = "idle"
        /\ Busy /\ ~Holds /\ Lives /\ ~CardBusy
    BY DEF Created, LifeInv, Life, OneCall, Underway, Busy, Holds, Lives
  <1>3. /\ target[c] = curPool /\ syncing = {} /\ ~listing /\ <<curPool, account>> \notin dropped
        /\ begun /\ curPool \in freeing => zpStates[curPool] # <<curPool, account>>
        /\ fetched[c] = <<curPool, account>> /\ account # NoUser
    BY <1>2 DEF LifeInv, Life, Underway
  <1>4. /\ \A d \in Calls \ {c} : pc'[d] = "idle"
        /\ pc'[c] = "prover" /\ curPool \notin freeing
        /\ zpStates' = [zpStates EXCEPT ![curPool] = <<curPool, account>>]
    BY <1>2, <1>3 DEF Created, TypeOK
  <1>5. Holds' /\ Lives' /\ ~CardBusy' /\ Busy'
    BY <1>1, <1>2, <1>3, <1>4 DEF Busy, Holds, Lives, CardBusy
  <1>6. OneCall' /\ Underway'
    BY <1>1, <1>2, <1>3, <1>4, <1>5 DEF OneCall, Underway, LifeInv, Life, CardBusy
  <1>7. Held'
    BY <1>1, <1>2, <1>4, <1>5 DEF Held, LifeInv, Life, TypeOK
  <1>8. Living'
    BY <1>1, <1>2, <1>5 DEF Living, LifeInv, Life, CardAccount
  <1>9. Syncing' /\ CardHeld' /\ ModeTold' /\ Cached'
    BY <1>1, <1>3, <1>5 DEF Syncing, CardHeld, ModeTold, Cached, CacheTrue, LifeInv, Life
  <1> QED
    BY <1>6, <1>7, <1>8, <1>9 DEF Life

LEMMA AttachedLife ==
    ASSUME Untimely = {}, LifeInv, NEW c \in Calls, Attached(c)
    PROVE  Life'
  <1>1. UNCHANGED <<account, curPool, zpStates, freeing, accounts, cached, target, fetched, syncing,
                    dropped, begun, listing, card, cardState, cardUses, monitor, info, waiting, reading>>
    BY DEF Attached, states, syncs, gift, jobs
  <1>2. /\ TypeOK /\ pc[c] = "prover" /\ \A d \in Calls \ {c} : pc[d] = "idle"
        /\ Busy /\ Holds /\ Lives /\ ~CardBusy
    BY DEF Attached, LifeInv, Life, OneCall, Underway, Busy, Holds, Lives
  <1>3. ~listing /\ account # NoUser
    BY <1>2 DEF LifeInv, Life, Underway
  <1>4. (\A d \in Calls : pc'[d] = "idle") /\ mode' = "full"
    BY <1>2, <1>3 DEF Attached, TypeOK
  <1>5. Holds' /\ Lives' /\ ~CardBusy' /\ ~Busy'
    BY <1>1, <1>2, <1>3, <1>4 DEF Busy, Holds, Lives, CardBusy
  <1>6. OneCall' /\ Underway'
    BY <1>4, <1>5 DEF OneCall, Underway, CardBusy
  <1>7. Held'
    BY <1>1, <1>2, <1>5 DEF Held, LifeInv, Life
  <1>8. Living'
    BY <1>1, <1>2, <1>5 DEF Living, LifeInv, Life, CardAccount
  <1>9. Syncing' /\ CardHeld' /\ ModeTold' /\ Cached'
    BY <1>1, <1>3, <1>4, <1>5 DEF Syncing, CardHeld, ModeTold, Cached, CacheTrue, LifeInv, Life
  <1> QED
    BY <1>6, <1>7, <1>8, <1>9 DEF Life

LEMMA LogoutLife ==
    ASSUME Untimely = {}, LifeInv, Logout
    PROVE  Life'
  <1>1. UNCHANGED <<curPool, zpStates, cached, pc, target, fetched, begun, listing, card, cardState,
                    cardUses, monitor, info, waiting, reading>>
    BY DEF Logout, switch, gift, jobs
  <1>2. /\ TypeOK /\ account # NoUser /\ account' = NoUser /\ mode' = "accountless"
        /\ ~Busy /\ ~CardBusy /\ ~listing
    BY DEF Logout, Orderly, LifeInv
  <1>3. Holds /\ Lives /\ zpStates[curPool] = <<curPool, account>>
    BY <1>2 DEF Holds, Lives, LifeInv, Life, Held
  <1>4. ~Busy' /\ ~Holds' /\ ~Lives' /\ ~CardBusy'
    BY <1>1, <1>2 DEF Busy, Holds, Lives, CardBusy
  <1>5. syncing' = {}
    <2>1. curPool \in {p \in Pools : zpStates[p] # NoState}
      BY <1>2, <1>3, Apart DEF TypeOK
    <2>2. syncing \subseteq {curPool}
      BY DEF LifeInv, Life, Syncing
    <2> QED
      BY <2>1, <2>2 DEF Logout
  <1>6. accounts' = {}
    BY <1>2, <1>3, Apart DEF Logout, LifeInv, Life, Living, TypeOK
  <1>7. \A p \in Pools : p \in freeing' \/ zpStates[p] = NoState
    BY DEF Logout
  <1>8. "card" \in freeing' <=> cardState # NoUser
    <2>1. "card" \in freeing => cardState # NoUser
      BY DEF LifeInv, Life, CardHeld
    <2> QED
      BY <1>2, <2>1, Apart DEF Logout
  <1>9. OneCall' /\ Underway'
    BY <1>4 DEF OneCall, Underway, Busy, CardBusy
  <1>10. Held'
    BY <1>1, <1>2, <1>4, <1>7 DEF Held, TypeOK
  <1>11. Living'
    BY <1>1, <1>4, <1>6, <1>8 DEF Living
  <1>12. Syncing' /\ CardHeld'
    BY <1>1, <1>2, <1>4, <1>5, <1>6, <1>8 DEF Syncing, CardHeld, CardBusy
  <1>13. ModeTold' /\ Cached'
    BY <1>1, <1>2 DEF ModeTold, Cached, CacheTrue, LifeInv, Life
  <1> QED
    BY <1>9, <1>10, <1>11, <1>12, <1>13 DEF Life

\* The state that is forgotten is not the one the client has by now.
LEMMA FreedLife ==
    ASSUME LifeInv, NEW p \in Pools, Freed(p)
    PROVE  Life'
  <1>1. UNCHANGED <<account, curPool, mode, accounts, cached, pc, target, fetched, begun, listing, card,
                    cardState, cardUses, monitor, info, waiting, reading>>
    BY DEF Freed, client, switch, gift, jobs
  <1>2. /\ TypeOK /\ (Holds => p # curPool) /\ p \notin syncing
        /\ freeing' = freeing \ {p} /\ p # "card"
    BY Apart DEF Freed, LifeInv, Life, Held, Syncing
  <1>3. syncing' = syncing /\ dropped' = dropped
    BY <1>2 DEF Freed
  <1>4. zpStates' = [zpStates EXCEPT ![p] = NoState]
    BY DEF Freed
  <1>5. /\ Busy' <=> Busy
        /\ Holds' <=> Holds
        /\ Lives' <=> Lives
        /\ CardBusy' <=> CardBusy
    BY <1>1 DEF Busy, Holds, Lives, CardBusy
  <1>6. OneCall' /\ Underway'
    <2>1. curPool \in freeing' => curPool \in freeing /\ zpStates'[curPool] = zpStates[curPool]
      BY <1>2, <1>4 DEF TypeOK
    <2> QED
      BY <1>1, <1>3, <1>5, <2>1 DEF OneCall, Underway, LifeInv, Life
  <1>7. Held'
    BY <1>1, <1>2, <1>4, <1>5 DEF Held, LifeInv, Life, TypeOK
  <1>8. Living' /\ Syncing'
    BY <1>1, <1>2, <1>3, <1>5 DEF Living, Syncing, LifeInv, Life, CardAccount
  <1>9. CardHeld' /\ ModeTold' /\ Cached'
    BY <1>1, <1>2, <1>3, <1>5 DEF CardHeld, ModeTold, Cached, CacheTrue, LifeInv, Life
  <1> QED
    BY <1>6, <1>7, <1>8, <1>9 DEF Life

LEMMA CardFreedLife ==
    ASSUME LifeInv, CardFreed
    PROVE  Life'
  <1>1. UNCHANGED <<account, curPool, mode, zpStates, accounts, cached, pc, target, fetched,
                    syncing, dropped, begun, listing, card, cardUses, monitor, info, waiting, reading>>
    BY DEF CardFreed, client, switch, syncs, jobs
  <1>2. /\ "card" \in freeing /\ freeing' = freeing \ {"card"} /\ cardState' = NoUser
        /\ "card" \notin Pools /\ TypeOK
    BY Apart DEF CardFreed, LifeInv
  <1>3. /\ Busy' <=> Busy
        /\ Holds' <=> Holds
        /\ Lives' <=> Lives
        /\ CardBusy' <=> CardBusy
    BY <1>1 DEF Busy, Holds, Lives, CardBusy
  <1>4. OneCall' /\ Underway' /\ Syncing'
    BY <1>1, <1>2, <1>3 DEF OneCall, Underway, Syncing, LifeInv, Life
  <1>5. Held'
    BY <1>1, <1>2, <1>3 DEF Held, LifeInv, Life, TypeOK
  <1>6. Living'
    BY <1>1, <1>2, <1>3 DEF Living, LifeInv, Life
  <1>7. CardHeld' /\ ModeTold' /\ Cached'
    BY <1>1, <1>2, <1>3 DEF CardHeld, ModeTold, Cached, CacheTrue, LifeInv, Life
  <1> QED
    BY <1>4, <1>5, <1>6, <1>7 DEF Life

\* A sync that completes is the attached state's; one whose state was dropped throws.
LEMMA SyncLife ==
    ASSUME Untimely = {}, LifeInv,
           \/ UpdateState \/ SyncBegins \/ (\E p \in Pools : SyncEnds(p))
           \/ (\E s \in dropped : DroppedSyncEnds(s)) \/ ListHistory \/ HistoryListed
    PROVE  Life'
  <1>1. UNCHANGED <<account, curPool, zpStates, freeing, accounts, cached, pc, target, fetched, card,
                    cardState, cardUses, monitor, info, waiting, reading>>
    BY DEF UpdateState, SyncBegins, SyncEnds, DroppedSyncEnds, ListHistory, HistoryListed, states,
           switch, gift, jobs, client
  <1>2. /\ Busy' <=> Busy
        /\ Holds' <=> Holds
        /\ Lives' <=> Lives
        /\ CardBusy' <=> CardBusy
    BY <1>1 DEF Busy, Holds, Lives, CardBusy
  <1>3. OneCall' /\ Held' /\ Living' /\ CardHeld' /\ Cached'
    <2>1. OneCall' /\ Held'
      BY <1>1, <1>2 DEF OneCall, Held, LifeInv, Life
    <2>2. Living' /\ CardHeld' /\ Cached'
      BY <1>1, <1>2 DEF Living, CardHeld, Cached, CacheTrue, LifeInv, Life, CardAccount
    <2> QED
      BY <2>1, <2>2
  <1>4. Outcomes("fail") = {TRUE} /\ Outcomes("late") = {TRUE}
    BY Answered
  <1>5. ASSUME Attachment PROVE account # NoUser /\ ~Busy /\ Holds
    BY <1>5 DEF Attachment, Holds
  <1>6. CASE UpdateState
    <2>1. Attachment /\ begun' /\ UNCHANGED <<syncing, dropped, listing>>
      BY <1>6 DEF UpdateState
    <2> QED
      BY <1>1, <1>2, <1>3, <1>5, <2>1 DEF Life, LifeInv, Underway, Busy, Syncing, ModeTold
  <1>7. CASE SyncBegins
    <2>1. begun /\ begun' = FALSE /\ UNCHANGED <<mode, listing>>
      BY <1>7 DEF SyncBegins, client
    <2>2. curPool \in Pools /\ zpStates[curPool] \in Account
      BY DEF LifeInv, TypeOK
    <2>3. CASE zpStates[curPool] = NoState
      <3>1. syncing' = syncing /\ dropped' = dropped
        BY <1>7, <2>3 DEF SyncBegins
      <3>2. ~Holds
        BY <2>3, Apart DEF LifeInv, Life, Held
      <3> QED
        BY <1>1, <1>2, <1>3, <2>1, <3>1, <3>2 DEF Life, LifeInv, Underway, Busy, Syncing, ModeTold, Holds
    <2>4. CASE zpStates[curPool] # NoState /\ curPool \notin freeing
      <3>1. syncing' = syncing \cup {curPool} /\ dropped' = dropped /\ Holds
        BY <1>7, <2>2, <2>4 DEF SyncBegins, LifeInv, Life, Held
      <3>2. ASSUME NEW c \in Calls, pc[c] # "idle" PROVE pc[c] = "prover"
        BY <3>1, <3>2 DEF Holds, Busy, LifeInv, Life, OneCall
      <3>3. Underway'
        BY <1>1, <2>1, <3>1, <3>2 DEF LifeInv, Life, Underway
      <3>4. Syncing' /\ ModeTold'
        BY <1>1, <1>2, <2>1, <3>1 DEF LifeInv, Life, Syncing, ModeTold, Holds
      <3> QED
        BY <1>3, <3>3, <3>4 DEF Life
    <2>5. CASE zpStates[curPool] # NoState /\ curPool \in freeing
      <3>1. syncing' = syncing /\ dropped' = dropped \cup {zpStates[curPool]} /\ ~Holds
        BY <1>7, <2>2, <2>5 DEF SyncBegins, LifeInv, Life, Held
      <3>2. Underway'
        BY <1>1, <2>1, <2>5, <3>1 DEF LifeInv, Life, Underway
      <3>3. zpStates[curPool] \notin accounts
        <4>1. zpStates[curPool] # CardAccount
          BY <2>2, Apart DEF LifeInv
        <4>2. ASSUME Lives PROVE zpStates[curPool] # <<curPool, account>>
          <5>1. PICK c \in Calls : pc[c] # "idle"
            BY <3>1, <4>2 DEF Lives, Holds, Busy
          <5> QED
            BY <2>1, <2>5, <5>1 DEF LifeInv, Life, Underway
        <4> QED
          BY <4>1, <4>2 DEF LifeInv, Life, Living
      <3>4. Syncing' /\ ModeTold'
        BY <1>1, <1>2, <2>1, <3>1, <3>3 DEF LifeInv, Life, Syncing, ModeTold, Holds
      <3> QED
        BY <1>3, <3>2, <3>4 DEF Life
    <2> QED
      BY <2>3, <2>4, <2>5
  <1>8. ASSUME NEW p \in Pools, SyncEnds(p) PROVE Life'
    <2>1. p = curPool /\ Holds /\ account # NoUser
      BY <1>8 DEF SyncEnds, LifeInv, Life, Syncing, Holds
    <2>2. zpStates[p] \in accounts /\ zpStates[p] # NoState
      BY <2>1, Apart DEF LifeInv, Life, Held, Living, Lives, Holds
    <2>3. mode' = "full"
      BY <1>4, <1>8, <2>1, <2>2 DEF SyncEnds, FullModeIf
    <2>4. syncing' = syncing \ {p} /\ UNCHANGED <<begun, dropped, listing>>
      BY <1>8 DEF SyncEnds
    <2> QED
      BY <1>1, <1>2, <1>3, <2>1, <2>3, <2>4 DEF Life, LifeInv, Underway, Busy, Syncing, ModeTold
  <1>9. ASSUME NEW s \in dropped, DroppedSyncEnds(s) PROVE Life'
    <2>1. s \notin accounts
      BY DEF LifeInv, Life, Syncing
    <2>2. mode' = mode
      BY <1>4, <1>9, <2>1 DEF DroppedSyncEnds, FullModeIf
    <2>3. dropped' = dropped \ {s} /\ UNCHANGED <<begun, syncing, listing>>
      BY <1>9 DEF DroppedSyncEnds
    <2>4. Underway' /\ Syncing' /\ ModeTold'
      BY <1>1, <1>2, <2>2, <2>3 DEF Life, LifeInv, Underway, Syncing, ModeTold
    <2> QED
      BY <1>3, <2>4 DEF Life
  <1>10. CASE ListHistory
    <2>1. Attachment /\ UNCHANGED <<begun, syncing, dropped>> /\ listing'
      BY <1>10 DEF ListHistory
    <2> QED
      BY <1>1, <1>2, <1>3, <1>5, <2>1 DEF Life, LifeInv, Underway, Busy, Syncing, ModeTold
  <1>11. CASE HistoryListed
    <2>1. /\ listing /\ ~listing' /\ mode' = "full" /\ UNCHANGED <<begun, syncing, dropped>>
          /\ ~Busy /\ account # NoUser
      BY <1>11 DEF HistoryListed, LifeInv, Life, Syncing, Holds
    <2> QED
      BY <1>1, <1>2, <1>3, <2>1 DEF Life, LifeInv, Underway, Busy, Syncing, ModeTold
  <1> QED
    BY <1>6, <1>7, <1>8, <1>9, <1>10, <1>11

-----------------------------------------------------------------------------
(* Gift cards, jobs and other calls *)

LEMMA CardLife ==
    ASSUME Untimely = {}, LifeInv, NEW g \in Cards, StartCard(g) \/ CardStep(g)
    PROVE  Life'
  <1>1. /\ UNCHANGED <<account, curPool, mode, zpStates, freeing, cached, pc, target, fetched,
                       syncing, dropped, begun, listing, waiting, reading>>
        /\ TypeOK
    <2>1. CASE StartCard(g)
      BY <2>1 DEF StartCard, client, states, switch, syncs, jobs, LifeInv
    <2>2. CASE CardCreated(g)
      BY <2>2 DEF CardCreated, client, switch, syncs, jobs, LifeInv
    <2>3. CASE CardSynced(g)
      BY <2>3 DEF CardSynced, client, states, switch, syncs, jobs, LifeInv
    <2>4. CASE Redeemed(g)
      BY <2>4 DEF Redeemed, client, switch, syncs, LifeInv
    <2> QED
      BY <2>1, <2>2, <2>3, <2>4 DEF CardStep
  <1>2. /\ Busy' <=> Busy
        /\ Holds' <=> Holds
        /\ Lives' <=> Lives
    BY <1>1 DEF Busy, Holds, Lives
  <1>3. Underway' /\ Held' /\ ModeTold' /\ Cached'
    <2>1. Underway' /\ ModeTold' /\ Cached'
      BY <1>1, <1>2 DEF Underway, ModeTold, Cached, CacheTrue, LifeInv, Life
    <2>2. Held'
      BY <1>1, <1>2 DEF Held, LifeInv, Life
    <2> QED
      BY <2>1, <2>2
  <1>4. /\ ~Busy
        /\ \A h \in Cards \ {g} : card[h] = "idle" /\ card'[h] = "idle"
    <2>1. CASE StartCard(g)
      BY <1>1, <2>1 DEF StartCard, CardBusy, TypeOK
    <2>2. CASE CardStep(g)
      <3>1. card[g] # "idle"
        BY <2>2 DEF CardStep, CardCreated, CardSynced, Redeemed
      <3>2. card' = [card EXCEPT ![g] = card'[g]]
        BY <1>1, <2>2 DEF CardStep, CardCreated, CardSynced, Redeemed, TypeOK
      <3> QED
        BY <1>1, <3>1, <3>2 DEF LifeInv, Life, OneCall, CardBusy, TypeOK
    <2> QED
      BY <2>1, <2>2
  <1>5. OneCall'
    BY <1>1, <1>2, <1>4 DEF OneCall, LifeInv, Life
  <1>6. CASE StartCard(g)
    <2>1. accounts' = accounts /\ cardState' = cardState
      BY <1>6 DEF StartCard, states
    <2>2. card'[g] = IF cardState = NoUser THEN "create" ELSE "sync"
      BY <1>1, <1>6 DEF StartCard, TypeOK
    <2>3. Living' /\ Syncing'
      BY <1>1, <1>2, <2>1 DEF Living, Syncing, LifeInv, Life, CardAccount
    <2>4. CardHeld'
      BY <1>1, <1>4, <2>1, <2>2 DEF CardHeld, LifeInv, Life
    <2> QED
      BY <1>3, <1>5, <2>3, <2>4 DEF Life
  <1>7. CASE CardCreated(g)
    <2>1. /\ card[g] = "create" /\ card'[g] = "sync" /\ cardState' = g /\ g # NoUser
          /\ accounts' = accounts \cup {CardAccount}
      BY <1>1, <1>7, ClientAssumption DEF CardCreated, TypeOK
    <2>2. "card" \notin freeing /\ cardState = NoUser
      BY <2>1 DEF LifeInv, Life, CardHeld
    <2>3. Living'
      BY <1>1, <1>2, <2>1, <2>2 DEF Living, LifeInv, Life, CardAccount
    <2>4. Syncing'
      BY <1>1, <1>2, <2>1, Apart DEF Syncing, LifeInv, Life
    <2>5. CardHeld'
      BY <1>1, <1>4, <2>1, <2>2 DEF CardHeld
    <2> QED
      BY <1>3, <1>5, <2>3, <2>4, <2>5 DEF Life
  <1>8. CASE CardSynced(g)
    <2>0. accounts' = accounts /\ cardState' = cardState
      BY <1>8 DEF CardSynced, states
    <2>1. \/ card'[g] = "idle"
          \/ card'[g] = "prove" /\ CardAccount \in accounts /\ account # NoUser
      BY <1>1, <1>8 DEF CardSynced, TypeOK
    <2>2. CardAccount \in accounts => cardState # NoUser /\ "card" \notin freeing
      BY <1>1, Apart DEF Living, LifeInv, Life
    <2>3. Living' /\ Syncing'
      BY <1>1, <1>2, <2>0 DEF Living, Syncing, LifeInv, Life, CardAccount
    <2>4. CardHeld'
      BY <1>1, <1>4, <2>0, <2>1, <2>2 DEF CardHeld, LifeInv, Life
    <2> QED
      BY <1>3, <1>5, <2>3, <2>4 DEF Life
  <1>9. CASE Redeemed(g)
    <2>1. card[g] = "prove" /\ card'[g] = "idle"
      BY <1>1, <1>9 DEF Redeemed, TypeOK
    <2>2. cardState # NoUser /\ account # NoUser /\ "card" \notin freeing
      BY <2>1 DEF LifeInv, Life, CardHeld
    <2>3. zpStates[curPool] # NoState
      BY <1>1, <1>4, <2>2, Apart DEF LifeInv, Life, Held, Holds
    <2>4. accounts' = accounts \ {CardAccount} /\ cardState' = NoUser
      BY <1>9, <2>2, <2>3 DEF Redeemed
    <2>5. Living'
      BY <1>1, <1>2, <2>4, Apart DEF Living, LifeInv, Life, CardAccount
    <2>6. Syncing'
      BY <1>1, <1>2, <2>4 DEF Syncing, LifeInv, Life
    <2>7. CardHeld'
      BY <1>1, <1>4, <2>1, <2>2, <2>4 DEF CardHeld
    <2> QED
      BY <1>3, <1>5, <2>5, <2>6, <2>7 DEF Life
  <1> QED
    BY <1>6, <1>7, <1>8, <1>9 DEF CardStep

LEMMA OtherLife ==
    ASSUME Untimely = {}, LifeInv,
           StartJob \/ StartWait \/ JobEnds \/ WaitPolls \/ StartRead \/ ReadDone
    PROVE  Life'
  <1>1. /\ UNCHANGED <<account, curPool, mode, zpStates, freeing, accounts, target, fetched, syncing,
                       dropped, begun, listing, card, cardState, cardUses>>
        /\ TypeOK
    BY DEF StartJob, StartWait, JobEnds, WaitPolls, StartRead, ReadDone, client, states, switch,
           syncs, gift, LifeInv
  <1>2. pc' = pc
    <2>1. CASE JobEnds
      <3>1. Outcomes("monitor") = {TRUE}
        BY Answered
      <3>2. pc' = [c \in Calls |-> pc[c]]
        BY <2>1, <3>1 DEF JobEnds
      <3> QED
        BY <1>1, <3>2 DEF TypeOK
    <2> QED
      BY <2>1 DEF StartJob, StartWait, WaitPolls, StartRead, ReadDone, switch
  <1>3. /\ Busy' <=> Busy
        /\ Holds' <=> Holds
        /\ Lives' <=> Lives
        /\ CardBusy' <=> CardBusy
    BY <1>1, <1>2 DEF Busy, Holds, Lives, CardBusy
  <1>4. OneCall' /\ Underway' /\ Held'
    BY <1>1, <1>2, <1>3 DEF OneCall, Underway, Held, LifeInv, Life
  <1>5. Living' /\ Syncing'
    BY <1>1, <1>2, <1>3 DEF Living, Syncing, LifeInv, Life, CardAccount
  <1>6. CardHeld' /\ ModeTold'
    BY <1>1, <1>2, <1>3 DEF CardHeld, ModeTold, LifeInv, Life
  <1>7. Cached'
    <2>1. CASE ReadDone
      BY <1>1, <2>1 DEF ReadDone, Store, Cached, CacheTrue, LifeInv, Life, TypeOK
    <2>2. CASE StartRead
      BY <1>1, <2>2 DEF StartRead, Cached, CacheTrue, LifeInv, Life
    <2>3. CASE StartJob \/ StartWait \/ JobEnds \/ WaitPolls
      BY <1>1, <2>3 DEF StartJob, StartWait, JobEnds, WaitPolls, Cached, CacheTrue, LifeInv, Life
    <2> QED
      BY <2>1, <2>2, <2>3
  <1> QED
    BY <1>4, <1>5, <1>6, <1>7 DEF Life

LEMMA StutterLife ==
    ASSUME LifeInv, UNCHANGED vars
    PROVE  Life'
  BY DEF vars, client, states, switch, syncs, gift, jobs, LifeInv, Life, OneCall, Underway, Held,
         Living, Syncing, CardHeld, ModeTold, Cached, CacheTrue, Busy, CardBusy, Holds, Lives, CardAccount

LEMMA NextLife == Untimely = {} /\ LifeInv /\ [Next]_vars => LifeInv'
  <1> SUFFICES ASSUME Untimely = {}, LifeInv, [Next]_vars PROVE Life'
    BY NextType DEF LifeInv
  <1>1. ASSUME NEW c \in Calls, NEW p \in Pools,
               SwitchPool(c, p) \/ \E u \in Users : Login(c, u, p)
        PROVE  Life'
    <2>1. Begin(c, p) /\ (account' = account \/ account = NoUser)
      BY <1>1 DEF SwitchPool, Login
    <2> QED
      BY <2>1, BeginLife
  <1>2. ASSUME NEW c \in Calls, CallStep(c) PROVE Life'
    BY <1>2, FetchedLife, CreateLife, CreatedLife, AttachedLife DEF CallStep
  <1>3. CASE Logout \/ (\E p \in Pools : Freed(p)) \/ CardFreed
    BY <1>3, LogoutLife, FreedLife, CardFreedLife
  <1>4. CASE \/ UpdateState \/ SyncBegins \/ (\E p \in Pools : SyncEnds(p))
             \/ (\E s \in dropped : DroppedSyncEnds(s)) \/ ListHistory \/ HistoryListed
    BY <1>4, SyncLife
  <1>5. ASSUME NEW g \in Cards, StartCard(g) \/ CardStep(g) PROVE Life'
    BY <1>5, CardLife
  <1>6. CASE StartJob \/ StartWait \/ JobEnds \/ WaitPolls \/ StartRead \/ ReadDone
    BY <1>6, OtherLife
  <1> QED
    BY <1>1, <1>2, <1>3, <1>4, <1>5, <1>6, StutterLife DEF Next, CallStep, CardStep

LEMMA LifeHolds == ASSUME Untimely = {} PROVE Spec => []LifeInv
  <1>1. Init => LifeInv
    BY InitType, LifeInit DEF LifeInv
  <1>2. LifeInv /\ [Next]_vars => LifeInv'
    BY NextLife
  <1> QED
    BY <1>1, <1>2, PTL DEF Spec

-----------------------------------------------------------------------------
(* What orderly use guarantees *)

\* Between login, logout and switchToPool the mode is the account's, and the account
\* has its state in the current pool (client.ts, zpState()).
THEOREM AccountAttachedHolds == ASSUME Untimely = {} PROVE Spec => []AccountAttached
  <1>1. LifeInv => AccountAttached
    BY DEF LifeInv, Life, ModeTold, Held, Holds, AccountAttached, Quiet
  <1> QED
    BY <1>1, LifeHolds, PTL

\* logout and switchToPool leave nothing in the worker (freePoolState).
THEOREM NoLeakHolds == ASSUME Untimely = {} PROVE Spec => []NoLeak
  <1>1. ASSUME LifeInv, Quiet
        PROVE  /\ \A p \in Pools : p # curPool => zpStates[p] = NoState
               /\ accounts = ({zpStates[p] : p \in Pools} \ {NoState})
                             \cup (IF cardState = NoUser THEN {} ELSE {CardAccount})
    <2>1. \A p \in Pools : p # curPool => zpStates[p] = NoState
      BY <1>1 DEF LifeInv, Life, Held, Quiet
    <2>2. accounts = (IF account # NoUser THEN {<<curPool, account>>} ELSE {})
                     \cup (IF cardState = NoUser THEN {} ELSE {CardAccount})
      BY <1>1 DEF LifeInv, Life, Living, Lives, Quiet
    <2>3. {zpStates[p] : p \in Pools} \ {NoState}
            = IF account # NoUser THEN {<<curPool, account>>} ELSE {}
      <3>1. zpStates[curPool] = IF account # NoUser THEN <<curPool, account>> ELSE NoState
        BY <1>1 DEF LifeInv, Life, Held, Holds, Quiet
      <3> QED
        BY <1>1, <2>1, <3>1, Apart DEF LifeInv, TypeOK
    <2> QED
      BY <2>1, <2>2, <2>3
  <1>2. LifeInv => NoLeak
    BY <1>1 DEF NoLeak
  <1> QED
    BY <1>2, LifeHolds, PTL

\* No account is synced by two states at a time: what a dropped state still does is
\* done to an account the worker has freed.
THEOREM OneSyncHolds == ASSUME Untimely = {} PROVE Spec => []OneSyncPerAccount
  <1>1. LifeInv => OneSyncPerAccount
    BY DEF LifeInv, Life, Syncing, OneCall, OneSyncPerAccount
  <1> QED
    BY <1>1, LifeHolds, PTL

\* A pool's parameters are never another pool's (client-provider.ts).
THEOREM CacheTrueHolds == ASSUME Untimely = {} PROVE Spec => []CacheTrue
  <1>1. LifeInv => CacheTrue
    BY DEF LifeInv, Life, Cached
  <1> QED
    BY <1>1, LifeHolds, PTL
=============================================================================
