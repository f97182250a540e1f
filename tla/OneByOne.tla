-------------------------------- MODULE OneByOne --------------------------------
(***************************************************************************)
(* What a transfer of several parts promises, without saying how it waits: *)
(* the parts reach the sequencer one at a time, in order, each made on the *)
(* account that the last mined transaction left.  A part that is sent is   *)
(* mined, is reverted by the pool, or is refused; nothing follows one that *)
(* is refused.  The transfer may stop after any part.                      *)
(***************************************************************************)
EXTENDS Integers

CONSTANT Parts

VARIABLES
    stage,   \* of each part
    spent,   \* the version of the account that a part spends
    version  \* the account's version in the pool

vars == <<stage, spent, version>>

P == 1 .. Parts
Settled == {"mined", "reverted"}

Init ==
    /\ stage = [k \in P |-> "unsent"] /\ spent = [k \in P |-> 0]
    /\ version = 0

Send(k) ==
    /\ stage[k] = "unsent" /\ \A j \in 1 .. (k - 1) : stage[j] \in Settled
    /\ stage' = [stage EXCEPT ![k] = "sent"]
    /\ spent' = [spent EXCEPT ![k] = version]
    /\ UNCHANGED version

Mine(k) ==
    /\ stage[k] = "sent" /\ spent[k] = version
    /\ stage' = [stage EXCEPT ![k] = "mined"] /\ version' = version + 1
    /\ UNCHANGED spent

Drop(k) ==
    /\ stage[k] = "sent"
    /\ \E how \in {"reverted", "refused"} : stage' = [stage EXCEPT ![k] = how]
    /\ UNCHANGED <<spent, version>>

Next == \E k \in P : Send(k) \/ Mine(k) \/ Drop(k)

Spec == Init /\ [][Next]_vars
=============================================================================
