---------------------------- MODULE TransactionParts ----------------------------
(***************************************************************************)
(* How a transfer or a withdrawal is split into transactions               *)
(* (src/src/client.ts: getTransactionParts, tryToPrepareTransfers,         *)
(* getGroupedNotes, and the estimations calcMaxAvailableTransfer and       *)
(* feeEstimateInternal).  A transaction spends the account and at most IN  *)
(* notes and creates at most OUT notes.  When the notes of the last        *)
(* transactions are not enough, aggregation transactions that create no    *)
(* note come first; each costs a fee.                                      *)
(* A fee is a base fee and a price per created note (the calldata length); *)
(* amounts are small integers.                                             *)
(***************************************************************************)
EXTENDS Integers, Sequences, FiniteSetsExt, SequencesExt

CONSTANTS
    In, Out,        \* CONSTANTS.IN, CONSTANTS.OUT
    BaseFee,        \* the fee of a transfer without outputs
    NoteFee,        \* and what each created note adds
    WithdrawFee,    \* the fee of a withdrawal, the swap's conversion included
    Types,          \* the transaction types asked for
    Balances,       \* bound: the account's balances
    NoteValues,     \* bound: the values of notes
    Amounts,        \* bound: the requested amounts
    MaxNotes,       \* bound: usable notes
    MaxRequests     \* bound: transfers in one request

ASSUME PartsAssumption ==
    /\ In \in Nat \ {0} /\ Out \in Nat \ {0}
    /\ BaseFee \in Nat /\ NoteFee \in Nat /\ WithdrawFee \in Nat
    /\ Types \subseteq {"transfer", "withdraw"}
    /\ Balances \subseteq Nat /\ NoteValues \subseteq Nat /\ Amounts \subseteq Nat \ {0}
    /\ MaxNotes \in Nat /\ MaxRequests \in Nat

VARIABLES
    type, balance, notes, requests,  \* the input
    i,           \* index of the first group of notes not aggregated yet
    account,     \* accountBalance
    aggregation, \* aggregationParts
    parts,       \* what is returned: allowPartial when pc = "failed"
    pc

vars == <<type, balance, notes, requests, i, account, aggregation, parts, pc>>
input == <<type, balance, notes, requests>>

\* What start becomes with the first k of the changes, for each k.
Running(start, changes) ==
    LET after[k \in 0 .. Len(changes)] == IF k = 0 THEN start ELSE after[k - 1] + changes[k]
    IN  after

Total(s) == Running(0, s)[Len(s)]
Chunks(s, n) == [k \in 1 .. ((Len(s) + n - 1) \div n) |->
                    SubSeq(s, (k - 1) * n + 1, IF k * n < Len(s) THEN k * n ELSE Len(s))]

\* getGroupedNotes
groups == [k \in DOMAIN Chunks(notes, In) |-> Total(Chunks(notes, In)[k])]
transfers == Chunks(requests, Out)
GroupAt(k) == IF k \in DOMAIN groups THEN groups[k] ELSE 0

\* singleTxFeeInternal; a withdrawal creates no note.
Fee(t, outputs) == IF t = "transfer" THEN BaseFee + outputs * NoteFee ELSE WithdrawFee
AggregationFee == Fee("transfer", 0)
FinalFee(k) == Fee(type, Len(transfers[k]))

Part(in, out, fee) == [in |-> in, out |-> out, fee |-> fee]

\* The balance after the first k of the transfers, when the j-th spends the group
\* that follows the first `from` ones.
After(start, from) ==
    Running(start, [k \in 1 .. Len(transfers) |->
                       GroupAt(from + k) - Total(transfers[k]) - FinalFee(k)])

\* Mistake: only the balance at the end has to be covered.
PreparedAtEnd(start, from) ==
    LET enough == {k \in 0 .. Len(transfers) : After(start, from)[k] >= 0} \cup {0}
    IN  [k \in 1 .. Max(enough) |-> Part(GroupAt(from + k), transfers[k], FinalFee(k))]

\* tryToPrepareTransfers: as many transfers, in order, as the funds allow.
Prepared(start, from) ==
    LET enough == {k \in 0 .. Len(transfers) : \A j \in 1 .. k : After(start, from)[j] >= 0}
    IN  [k \in 1 .. Max(enough) |-> Part(GroupAt(from + k), transfers[k], FinalFee(k))]

Inputs(S, n) == UNION {[1 .. k -> S] : k \in 0 .. n}

Init ==
    /\ type \in Types /\ balance \in Balances
    /\ notes \in Inputs(NoteValues, MaxNotes)
    /\ requests \in Inputs(Amounts, IF type = "transfer" THEN MaxRequests ELSE 1) \ {<<>>}
    /\ i = 0 /\ account = balance /\ aggregation = <<>> /\ parts = <<>> /\ pc = "try"

TypeOK ==
    /\ type \in Types /\ balance \in Balances
    /\ i \in 0 .. Len(groups) /\ account >= 0 /\ Len(aggregation) = i
    /\ Len(parts) <= Len(groups) + Len(transfers)
    /\ pc \in {"try", "done", "failed"}

\* One round of the loop of getTransactionParts: every transfer fits...
Fit ==
    /\ pc = "try" /\ Len(Prepared(account, i)) = Len(transfers)
    /\ parts' = aggregation \o Prepared(account, i) /\ pc' = "done"
    /\ UNCHANGED <<input, i, account, aggregation>>

CanAggregate == groups # <<>> /\ account + GroupAt(i + 1) >= AggregationFee

\* Mistake: the loop stops before the last group.
AggregateTooFew ==
    /\ pc = "try" /\ Len(Prepared(account, i)) < Len(transfers) /\ CanAggregate
    /\ aggregation' = Append(aggregation, Part(GroupAt(i + 1), <<>>, AggregationFee))
    /\ account' = account + GroupAt(i + 1) - AggregationFee
    /\ i' = i + 1
    /\ IF i' + 1 < Len(groups) THEN UNCHANGED <<parts, pc>>
       ELSE parts' = aggregation' \o Prepared(account, i) /\ pc' = "failed"
    /\ UNCHANGED input

Aggregate ==
    /\ pc = "try" /\ Len(Prepared(account, i)) < Len(transfers) /\ CanAggregate
    /\ aggregation' = Append(aggregation, Part(GroupAt(i + 1), <<>>, AggregationFee))
    /\ account' = account + GroupAt(i + 1) - AggregationFee
    /\ i' = i + 1
    /\ IF i' < Len(groups) THEN UNCHANGED <<parts, pc>>
       ELSE parts' = aggregation' \o Prepared(account, i) /\ pc' = "failed"
    /\ UNCHANGED input

\* ... or it cannot be paid, and the request is given up.
GiveUp ==
    /\ pc = "try" /\ Len(Prepared(account, i)) < Len(transfers) /\ ~CanAggregate
    /\ parts' = aggregation \o Prepared(account, i) /\ pc' = "failed"
    /\ UNCHANGED <<input, i, account, aggregation>>

Next == Fit \/ Aggregate \/ GiveUp
Spec == Init /\ [][Next]_vars

-----------------------------------------------------------------------------
(* The estimations *)

\* Mistake: the last transaction is taken for an aggregation as well.
MaxOfAggregations ==
    LET after == Running(balance, [k \in 1 .. Len(groups) |-> groups[k] - AggregationFee])
        reached == {k \in 1 .. Len(groups) : \A j \in 1 .. k : after[j] >= 0}
    IN  Max({0, balance - AggregationFee} \cup {after[k] : k \in reached})

\* calcMaxAvailableTransfer, for one transfer; the loop stops at the first group
\* whose fee it cannot pay.
MaxAvailable ==
    LET final == IF type = "transfer" THEN Fee(type, 1) ELSE WithdrawFee
        fee(k) == IF k = Len(groups) THEN final ELSE AggregationFee
        after == Running(balance, [k \in 1 .. Len(groups) |-> groups[k] - fee(k)])
        reached == {k \in 1 .. Len(groups) : \A j \in 1 .. k : after[j] >= 0}
    IN  Max({0, balance - final} \cup {after[k] : k \in reached})

\* Mistake: only the balance is compared, not what the parts deliver.
InsufficientBalance ==
    Total(requests) + Total([k \in DOMAIN parts |-> parts[k].fee]) > balance + Total(notes)

\* insufficientFunds of feeEstimateInternal
Insufficient ==
    LET sent == Total([k \in DOMAIN parts |-> Total(parts[k].out)])
        fees == IF parts = <<>> THEN Fee(type, 1)
                ELSE Total([k \in DOMAIN parts |-> parts[k].fee])
    IN  sent < Total(requests) \/ sent + fees > balance + Total(notes)

-----------------------------------------------------------------------------
(* Properties *)

\* Executing a plan: the k-th transaction spends the account and the next In
\* notes, whatever the plan says of them.
Executes(plan) ==
    LET spent(k) == Total(SubSeq(notes, (k - 1) * In + 1, IF k * In < Len(notes) THEN k * In ELSE Len(notes)))
        after == Running(balance, [k \in 1 .. Len(plan) |-> spent(k) - Total(plan[k].out) - plan[k].fee])
    IN  \A k \in DOMAIN plan : after[k] >= 0 /\ plan[k].in = spent(k)

\* The reference: m aggregations, then the transfers.
Plan(m) == [k \in 1 .. (m + Len(transfers)) |->
               IF k <= m THEN Part(GroupAt(k), <<>>, AggregationFee)
               ELSE Part(GroupAt(k), transfers[k - m], FinalFee(k - m))]

\* A returned plan can be executed transaction by transaction, delivers exactly
\* the requested transfers in their order, and no shorter plan does.
PlanExecutes ==
    pc = "done" =>
        /\ Executes(parts) /\ parts = Plan(i)
        /\ FlattenSeq([k \in DOMAIN parts |-> parts[k].out]) = requests
        /\ \A m \in 0 .. (i - 1) : ~Executes(Plan(m))

\* A request is given up only if no number of aggregations makes it possible.
PlanFound == pc = "failed" => \A m \in 0 .. Len(groups) : ~Executes(Plan(m))

\* The fee estimation, made from the partial plan, says "insufficient" exactly
\* when the transaction itself is refused.
EstimateAgrees == pc # "try" => (Insufficient <=> pc = "failed")

\* Every group of notes is worth the price of a final transaction, and that is no
\* less than the price of an aggregation.
NoDust == /\ Fee(type, 1) >= AggregationFee
          /\ \A k \in DOMAIN groups : groups[k] >= Fee(type, 1)

\* The maximum shown to the user is exact: that much can be sent in one request,
\* and no more.
MaxExact == Len(requests) = 1 /\ pc # "try" => (pc = "done" <=> requests[1] <= MaxAvailable)

\* The same as long as no group of notes is worth less than a fee: then the loop
\* of calcMaxAvailableTransfer and the one of getTransactionParts agree.
MaxExactNoDust == NoDust => MaxExact
=============================================================================
