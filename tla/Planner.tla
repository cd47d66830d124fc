------------------------------ MODULE Planner ------------------------------
(***************************************************************************)
(* Planning a Bitcoin transaction (frameworks/tw_utxo: tx_planner.rs,      *)
(* exact_selector.rs, max_selector.rs): which of the offered inputs it     *)
(* spends, what fee it pays, and what is left as change.                   *)
(*                                                                         *)
(* An input is a position in the request's list; two positions may offer   *)
(* the same coin.  Sizes are those of the estimated transaction, in which  *)
(* every input carries the longest signature it may get.                   *)
(***************************************************************************)
EXTENDS Totals, Sequences

CONSTANTS
    Coins,      \* unspent outputs, by outpoint
    Amount,     \* Amount[c]: the value of coin c
    Base,       \* Base[c]: bytes of the input that spends c, without witness
    Witness,    \* Witness[c]: bytes of its witness, 0 for a legacy input
    OutBytes,   \* bytes of an output
    Overhead,   \* bytes of the rest of a transaction
    MaxWeight,  \* MAX_TRANSACTION_WEIGHT
    MaxCount,   \* MAX_INPUT_OUTPUT_COUNT
    Requests    \* what the planner may be asked

\* data: an OP_RETURN output.
Output == [value : Nat, data : BOOLEAN]

\* selector "Max" is RequestType::SendMax, the others are SendExact's.
Request == [inputs : Seq(Coins), outputs : Seq(Output), change : BOOLEAN,
            selector : {"UseAll", "InOrder", "Ascending", "Descending", "Max"},
            feePerVb : Nat, dust : Nat]

ASSUME PlannerAssumption ==
    /\ Amount \in [Coins -> Nat]
    /\ Base \in [Coins -> Nat] /\ Witness \in [Coins -> Nat]
    /\ OutBytes \in Nat /\ Overhead \in Nat
    /\ MaxWeight \in Nat /\ MaxCount \in Nat
    /\ Requests \subseteq Request

VARIABLES
    request,   \* the PlanRequest
    pc,
    taken,     \* selected_utxos
    totalIn,   \* total_in
    fee,       \* tx_fee
    covered,   \* total_covered
    outputs    \* outputs of the planned transaction

planVars == <<request, pc, taken, totalIn, fee, covered, outputs>>

NoRequest == [inputs |-> <<>>, outputs |-> <<>>, change |-> FALSE,
              selector |-> "UseAll", feePerVb |-> 0, dust |-> 0]

Init ==
    /\ request = NoRequest
    /\ pc = "idle"
    /\ taken = {}
    /\ totalIn = 0
    /\ fee = 0
    /\ covered = FALSE
    /\ outputs = <<>>
-----------------------------------------------------------------------------
(***************************************************************************)
(* Amounts and sizes.                                                      *)
(***************************************************************************)
Value(q, k) == Amount[q.inputs[k]]
Values(q) == [k \in DOMAIN q.inputs |-> Value(q, k)]
TotalInput(q, S) == Total(S, Values(q))
TotalOutput(outs) == Total(DOMAIN outs, [i \in DOMAIN outs |-> outs[i].value])

\* An input without witness still has the number 0 of its items, if any
\* other input has one.
WitnessBytes(q, k) == IF Witness[q.inputs[k]] = 0 THEN 1 ELSE Witness[q.inputs[k]]

\* The transaction that spends S into n outputs, without witnesses, and the
\* marker, flag and witnesses.
BaseSize(q, S, n) ==
    Overhead + Total(S, [k \in DOMAIN q.inputs |-> Base[q.inputs[k]]]) + n * OutBytes
WitnessSize(q, S) ==
    IF \E k \in S : Witness[q.inputs[k]] # 0
    THEN 2 + Total(S, [k \in DOMAIN q.inputs |-> WitnessBytes(q, k)])
    ELSE 0

Weight(q, S, n) == 4 * BaseSize(q, S, n) + WitnessSize(q, S)
VSize(q, S, n) == (Weight(q, S, n) + 3) \div 4
EstimatedFee(q, S, n) == q.feePerVb * VSize(q, S, n)

IsDust(q, out) == ~out.data /\ out.value < q.dust

\* DustFilter::filter_inputs.
Kept(q) == {k \in DOMAIN q.inputs : Value(q, k) >= q.dust}

\* The order in which inputs are taken; the sorts are stable.
Before(q, j, k) ==
    CASE q.selector = "Ascending" ->
            Value(q, j) < Value(q, k) \/ (Value(q, j) = Value(q, k) /\ j < k)
      [] q.selector \in {"Descending", "Max"} ->
            Value(q, j) > Value(q, k) \/ (Value(q, j) = Value(q, k) /\ j < k)
      [] OTHER -> j < k

\* Without the change output.
EstimatedOutputsBug(q) == Len(q.outputs)
\* Outputs of the estimated transaction: the change output counts.
EstimatedOutputs(q) == Len(q.outputs) + IF q.change THEN 1 ELSE 0
-----------------------------------------------------------------------------
\* StandardSigningRequestBuilder::build and UnsignedTransaction::new accept it.
Buildable(q) ==
    /\ Len(q.inputs) \in 1 .. MaxCount
    /\ Len(q.outputs) > 0 /\ EstimatedOutputs(q) <= MaxCount
    /\ q.selector = "Max" => Len(q.outputs) = 1 /\ ~q.change

Refuse(q) ==
    /\ pc = "idle"
    /\ ~Buildable(q) \/ Kept(q) = {}
    /\ request' = q
    /\ pc' = "failed"
    /\ UNCHANGED <<taken, totalIn, fee, covered, outputs>>

BeginExact(q) ==
    /\ pc = "idle"
    /\ Buildable(q) /\ Kept(q) # {}
    /\ q.selector # "Max"
    /\ request' = q
    /\ pc' = "take"
    /\ UNCHANGED <<taken, totalIn, fee, covered, outputs>>

BeginMax(q) ==
    /\ pc = "idle"
    /\ Buildable(q) /\ Kept(q) # {}
    /\ q.selector = "Max"
    /\ request' = q
    /\ pc' = "drop"
    /\ taken' = Kept(q)
    /\ totalIn' = TotalInput(q, Kept(q))
    /\ UNCHANGED <<fee, covered, outputs>>
-----------------------------------------------------------------------------
(***************************************************************************)
(* ExactInputSelector: one turn of the loop, and what follows it.          *)
(***************************************************************************)
Left == Kept(request) \ taken
IsNext(k) == k \in Left /\ \A j \in Left \ {k} : Before(request, k, j)

TakeTooBig(k) ==
    /\ pc = "take" /\ IsNext(k)
    /\ Weight(request, taken \union {k}, EstimatedOutputs(request)) > MaxWeight
    /\ taken' = taken \union {k}
    /\ totalIn' = totalIn + Value(request, k)
    /\ pc' = "failed"
    /\ UNCHANGED <<request, fee, covered, outputs>>

Enough(in, cost) == in >= TotalOutput(request.outputs) + cost

\* The loop goes on when the inputs are enough.
AfterTakeBug(k, enough) ==
    IF Left # {k} THEN "take" ELSE IF covered \/ enough THEN "settle" ELSE "failed"
\* Stopping is not considered while every input is to be used.
AfterTake(k, enough) ==
    IF enough /\ request.selector # "UseAll" THEN "settle"
    ELSE IF Left # {k} THEN "take"
    ELSE IF covered \/ enough THEN "settle" ELSE "failed"

Take(k) ==
    LET S == taken \union {k}
        in == totalIn + Value(request, k)
        cost == EstimatedFee(request, S, EstimatedOutputs(request))
    IN  /\ pc = "take" /\ IsNext(k)
        /\ Weight(request, S, EstimatedOutputs(request)) <= MaxWeight
        /\ taken' = S
        /\ totalIn' = in
        /\ fee' = cost
        /\ covered' = (covered \/ Enough(in, cost))
        /\ pc' = AfterTake(k, Enough(in, cost))
        /\ UNCHANGED <<request, outputs>>

\* DustFilter::check_outputs.
CheckOutputsBug(q, outs) == TRUE
CheckOutputs(q, outs) == \A i \in DOMAIN outs : ~IsDust(q, outs[i])

\* The change becomes an output unless it is dust, or negative.
Settle ==
    LET change == totalIn - TotalOutput(request.outputs) - fee
        outs == IF request.change /\ change >= request.dust
                THEN Append(request.outputs, [value |-> change, data |-> FALSE])
                ELSE request.outputs
    IN  /\ pc = "settle"
        /\ outputs' = outs
        /\ pc' = IF CheckOutputs(request, outs) THEN "planned" ELSE "failed"
        /\ UNCHANGED <<request, taken, totalIn, fee, covered>>
-----------------------------------------------------------------------------
(***************************************************************************)
(* MaxInputSelector: it drops the least input while the weight is too much.*)
(***************************************************************************)
Fits(S) == Weight(request, S, 1) <= MaxWeight

\* The total still has the input dropped.
DropKeepsTotal(k) ==
    /\ pc = "drop"
    /\ ~Fits(taken)
    /\ k \in taken /\ \A j \in taken \ {k} : Before(request, j, k)
    /\ taken' = taken \ {k}
    /\ UNCHANGED <<request, pc, totalIn, fee, covered, outputs>>

\* The greatest input is dropped.
DropGreatest(k) ==
    /\ pc = "drop"
    /\ ~Fits(taken)
    /\ k \in taken /\ \A j \in taken \ {k} : Before(request, k, j)
    /\ taken' = taken \ {k}
    /\ totalIn' = totalIn - Value(request, k)
    /\ UNCHANGED <<request, pc, fee, covered, outputs>>

Drop(k) ==
    /\ pc = "drop"
    /\ ~Fits(taken)
    /\ k \in taken /\ \A j \in taken \ {k} : Before(request, j, k)
    /\ taken' = taken \ {k}
    /\ totalIn' = totalIn - Value(request, k)
    /\ UNCHANGED <<request, pc, fee, covered, outputs>>

\* UnsignedTransaction::set_inputs refuses an empty list.
NoneFits ==
    /\ pc = "drop" /\ taken = {}
    /\ pc' = "failed"
    /\ UNCHANGED <<request, taken, totalIn, fee, covered, outputs>>

SettleMax ==
    LET cost == EstimatedFee(request, taken, 1)
        outs == [request.outputs EXCEPT ![1].value = totalIn - cost]
        enough == totalIn >= cost + request.dust
    IN  /\ pc = "drop" /\ taken # {} /\ Fits(taken)
        /\ fee' = cost
        /\ outputs' = IF enough THEN outs ELSE outputs
        /\ pc' = IF enough /\ CheckOutputs(request, outs) THEN "planned" ELSE "failed"
        /\ UNCHANGED <<request, taken, totalIn, covered>>
-----------------------------------------------------------------------------
\* The caller has its result; the planner keeps nothing.
Return ==
    /\ pc \in {"planned", "failed"}
    /\ request' = NoRequest
    /\ pc' = "idle"
    /\ taken' = {} /\ totalIn' = 0 /\ fee' = 0 /\ covered' = FALSE
    /\ outputs' = <<>>

Begin(q) == Refuse(q) \/ BeginExact(q) \/ BeginMax(q)

Plan ==
    \/ \E k \in DOMAIN request.inputs : TakeTooBig(k) \/ Take(k) \/ Drop(k)
    \/ Settle \/ NoneFits \/ SettleMax

Next == Return \/ Plan \/ \E q \in Requests : Begin(q)

PlannerSpec == Init /\ [][Next]_planVars
-----------------------------------------------------------------------------
(***************************************************************************)
(* Properties.                                                             *)
(***************************************************************************)
\* plan.fee_estimate: what the transaction really pays.
Paid == totalIn - TotalOutput(outputs)

\* Of the inputs taken, those up to k.
Upto(k) == {j \in taken : j = k \/ Before(request, j, k)}

\* k adds more to the estimated fee than it brings.
Uneconomic(k) ==
    LET n == EstimatedOutputs(request)
    IN  Value(request, k) < EstimatedFee(request, Upto(k), n)
                            - EstimatedFee(request, Upto(k) \ {k}, n)

TypeOK ==
    /\ request \in Request
    /\ pc \in {"idle", "take", "settle", "drop", "planned", "failed"}
    /\ taken \subseteq DOMAIN request.inputs
    /\ totalIn \in Nat /\ fee \in Nat /\ covered \in BOOLEAN
    /\ outputs \in Seq(Output)

\* total_in, which both selectors carry along (exact_selector.rs:90,
\* max_selector.rs:74), stays the value of the inputs selected, and a planned
\* transaction spends no more than it.
Conserved ==
    /\ totalIn = TotalInput(request, taken)
    /\ pc = "planned" => totalIn >= TotalOutput(outputs)

\* A planned transaction pays for its own size at the rate asked for, although
\* its fee was estimated before the change output was kept or left out.  Only
\* UseAll may pay less, after an input that costs more than it brings.
FeePaysSize ==
    pc = "planned" =>
        \/ Paid >= EstimatedFee(request, taken, Len(outputs))
        \/ request.selector = "UseAll" /\ \E k \in taken : Uneconomic(k)

\* Neither an output of a planned transaction is dust, the change and the
\* maximum written after the selection included, nor an input it spends.
NothingDust ==
    pc = "planned" =>
        /\ \A i \in DOMAIN outputs : ~IsDust(request, outputs[i])
        /\ \A k \in taken : Value(request, k) >= request.dust

\* Nothing is taken beyond the need: without its last input, a transaction
\* that was not to use all would not have covered its outputs and its fee, or
\* would have had no input.
NeedsAll ==
    \A k \in taken :
        taken # {k} /\ (\A j \in taken \ {k} : Before(request, j, k)) =>
            TotalInput(request, taken \ {k})
                < TotalOutput(request.outputs)
                  + EstimatedFee(request, taken \ {k}, EstimatedOutputs(request))

NoNeedlessInput ==
    pc = "planned" /\ request.selector \notin {"UseAll", "Max"} => NeedsAll

\* Sending the maximum leaves an input out only if those of greater value make
\* a transaction with it too heavy; that a light one might fit after a heavy
\* one is gone is not considered (max_selector.rs:59).
LeavesTooHeavy ==
    \A k \in Kept(request) \ taken :
        Weight(request, {j \in Kept(request) : j = k \/ Before(request, j, k)}, 1) > MaxWeight

MaxSpendsAll == pc = "planned" /\ request.selector = "Max" => LeavesTooHeavy

\* exact_selector.rs:127, "All amounts must be checked already": when the
\* change is computed, the inputs cover the outputs and the fee.
AmountsChecked ==
    pc = "settle" => totalIn >= TotalOutput(request.outputs) + fee
-----------------------------------------------------------------------------
(***************************************************************************)
(* The inductive invariant.                                                *)
(***************************************************************************)
\* Before a call, and what the two selectors are called for.
Selecting ==
    /\ pc = "idle" => taken = {} /\ totalIn = 0 /\ ~covered
    /\ pc \in {"take", "settle"} => request.selector # "Max"
    /\ pc = "drop" => /\ request.selector = "Max"
                      /\ Len(request.outputs) = 1 /\ ~request.change

\* An initial part of the order of the inputs kept, which what is taken is.
Initial(q, S) ==
    /\ S \subseteq Kept(q)
    /\ \A j \in S, k \in Kept(q) \ S : Before(q, j, k)

InOrder == Initial(request, taken)

\* The inputs pay for the outputs asked for, and for the fee.
Covers(q, S) ==
    TotalInput(q, S) >= TotalOutput(q.outputs) + EstimatedFee(q, S, EstimatedOutputs(q))

\* The selectors stop as soon as they can: no shorter part of the order would have
\* been enough, and none that is longer would have been light enough.
Shortest(q, S) ==
    \A T \in SUBSET S : Initial(q, T) /\ T \notin {{}, S} => ~Covers(q, T)
Longest(q, S) ==
    \A T \in SUBSET Kept(q) :
        Initial(q, T) /\ S \subseteq T /\ T # S => Weight(q, T, 1) > MaxWeight

\* What a request selects, whatever the selectors do to find it ...
Chosen(q, S) ==
    /\ S # {} /\ Initial(q, S)
    /\ q.selector = "UseAll" => S = Kept(q)
    /\ q.selector = "Max" => Weight(q, S, 1) <= MaxWeight /\ Longest(q, S)
    /\ q.selector \notin {"UseAll", "Max"} => Covers(q, S) /\ Shortest(q, S)

\* ... and what the transaction that spends it pays.
Payments(q, S) ==
    LET change == TotalInput(q, S) - TotalOutput(q.outputs)
                                   - EstimatedFee(q, S, EstimatedOutputs(q))
    IN  CASE q.selector = "Max" ->
                [q.outputs EXCEPT ![1].value = TotalInput(q, S) - EstimatedFee(q, S, 1)]
          [] q.selector # "Max" /\ q.change /\ change >= q.dust ->
                Append(q.outputs, [value |-> change, data |-> FALSE])
          [] OTHER -> q.outputs

\* What is planned depends on the request only, and on the way there what is taken
\* is still right.
Selects ==
    /\ pc \in {"take", "settle"} /\ request.selector # "UseAll" => Shortest(request, taken)
    /\ pc = "settle" /\ request.selector = "UseAll" => taken = Kept(request)
    /\ pc = "drop" => Longest(request, taken)
    /\ pc = "planned" => Chosen(request, taken) /\ outputs = Payments(request, taken)

\* total_covered: the inputs once were enough, and are still, unless all are to
\* be used and one of them was not worth its fee.
CoverSoFar ==
    LET out == TotalOutput(request.outputs)
        cost == EstimatedFee(request, taken, EstimatedOutputs(request))
    IN  pc \in {"take", "settle"} =>
            /\ covered => /\ taken # {}
                          /\ totalIn >= out
                          /\ \/ totalIn >= out + cost
                             \/ request.selector = "UseAll" /\ \E k \in taken : Uneconomic(k)
            /\ pc = "settle" => covered /\ fee = cost
            /\ pc = "take" /\ request.selector # "UseAll" /\ taken # {} => totalIn < out + cost

PlannerInv ==
    /\ TypeOK
    /\ Selecting
    /\ InOrder
    /\ CoverSoFar
    /\ Selects
    /\ Conserved
    /\ FeePaysSize
    /\ NothingDust
    /\ pc \in {"settle", "planned"} /\ request.selector \notin {"UseAll", "Max"} => NeedsAll
    /\ pc \in {"drop", "planned"} /\ request.selector = "Max" => LeavesTooHeavy
=============================================================================
