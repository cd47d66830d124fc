--------------------------- MODULE BitcoinProofs ---------------------------
(***************************************************************************)
(* Theorems about the planning and signing of Bitcoin transactions: for any*)
(* coins, amounts, sizes, fees and limits, whatever the planner is asked   *)
(* and in whatever order the client signs and compiles.                    *)
(***************************************************************************)
EXTENDS Signing, TotalsTheorems, SequenceTheorems

USE PlannerAssumption

\* The inputs of a request are finitely many, and have a value and a size.
LEMMA InputType ==
    ASSUME NEW q \in Request
    PROVE  /\ IsFiniteSet(DOMAIN q.inputs)
           /\ \A k \in DOMAIN q.inputs :
                 /\ q.inputs[k] \in Coins
                 /\ Value(q, k) \in Nat
                 /\ Base[q.inputs[k]] \in Nat
                 /\ WitnessBytes(q, k) \in Nat
<1>1. q.inputs \in Seq(Coins)
  BY DEF Request
<1>2. DOMAIN q.inputs = 1 .. Len(q.inputs) /\ Len(q.inputs) \in Nat
  BY <1>1
<1>3. \A k \in DOMAIN q.inputs : q.inputs[k] \in Coins
  BY <1>1, <1>2
<1>4. IsFiniteSet(1 .. Len(q.inputs))
  BY <1>2, FS_Interval
<1>5. \A x \in Coins : Amount[x] \in Nat /\ Base[x] \in Nat /\ Witness[x] \in Nat
  OBVIOUS
<1>6. \A k \in DOMAIN q.inputs :
         Value(q, k) \in Nat /\ Base[q.inputs[k]] \in Nat /\ WitnessBytes(q, k) \in Nat
  BY <1>3, <1>5 DEF Value, WitnessBytes
<1> QED
  BY <1>2, <1>3, <1>4, <1>6

\* The value of some of a request's inputs.
LEMMA TotalInputType ==
    ASSUME NEW q \in Request, NEW S \in SUBSET (DOMAIN q.inputs)
    PROVE  /\ IsFiniteSet(S)
           /\ TotalInput(q, S) \in Nat
           /\ TotalInput(q, {}) = 0
<1>1. IsFiniteSet(S)
  BY InputType, FS_Subset
<1>2. \A k \in S : Values(q)[k] \in Nat
  BY InputType DEF Values
<1>3. TotalInput(q, S) \in Nat
  BY <1>1, <1>2, TotalType DEF TotalInput
<1>4. Units({}, Values(q)) = {}
  BY DEF Units
<1>5. TotalInput(q, {}) = 0
  BY <1>4, FS_EmptySet DEF TotalInput, Total
<1> QED
  BY <1>1, <1>3, <1>5

\* One input more.
LEMMA TotalInputAdd ==
    ASSUME NEW q \in Request, NEW S \in SUBSET (DOMAIN q.inputs),
           NEW k \in DOMAIN q.inputs, k \notin S
    PROVE  TotalInput(q, S \union {k}) = TotalInput(q, S) + Value(q, k)
<1>1. IsFiniteSet(S)
  BY TotalInputType
<1>2. \A j \in S \union {k} : Values(q)[j] \in Nat
  BY InputType DEF Values
<1>3. Values(q)[k] = Value(q, k)
  BY DEF Values
<1>4. Total(S \union {k}, Values(q)) = Total(S, Values(q)) + Values(q)[k]
  BY <1>1, <1>2, TotalAdd
<1> QED
  BY <1>3, <1>4 DEF TotalInput

\* One input less.
LEMMA TotalInputDrop ==
    ASSUME NEW q \in Request, NEW S \in SUBSET (DOMAIN q.inputs), NEW k \in S
    PROVE  /\ TotalInput(q, S) = TotalInput(q, S \ {k}) + Value(q, k)
           /\ TotalInput(q, S) - Value(q, k) = TotalInput(q, S \ {k})
<1>1. S \ {k} \in SUBSET (DOMAIN q.inputs) /\ k \notin S \ {k} /\ k \in DOMAIN q.inputs
  OBVIOUS
<1>2. (S \ {k}) \union {k} = S
  OBVIOUS
<1>3. TotalInput(q, (S \ {k}) \union {k}) = TotalInput(q, S \ {k}) + Value(q, k)
  BY <1>1, TotalInputAdd
<1>4. TotalInput(q, S \ {k}) \in Nat /\ Value(q, k) \in Nat
  BY <1>1, TotalInputType, InputType
<1> QED
  BY <1>2, <1>3, <1>4

\* The fee of a transaction is a natural number, and one with more outputs does
\* not cost less.
LEMMA FeeType ==
    ASSUME NEW q \in Request, NEW S \in SUBSET (DOMAIN q.inputs), NEW n \in Nat
    PROVE  /\ Weight(q, S, n) \in Nat
           /\ EstimatedFee(q, S, n) \in Nat
           /\ EstimatedFee(q, S, n) <= EstimatedFee(q, S, n + 1)
<1> DEFINE bases == [k \in DOMAIN q.inputs |-> Base[q.inputs[k]]]
           witnesses == [k \in DOMAIN q.inputs |-> WitnessBytes(q, k)]
<1>1. IsFiniteSet(S)
  BY TotalInputType
<1>2. Total(S, bases) \in Nat
  <2>1. \A k \in S : bases[k] \in Nat
    BY InputType
  <2> QED
    BY <1>1, <2>1, TotalType
<1>3. Total(S, witnesses) \in Nat
  <2>1. \A k \in S : witnesses[k] \in Nat
    BY InputType
  <2> QED
    BY <1>1, <2>1, TotalType
<1>4. WitnessSize(q, S) \in Nat
  BY <1>3 DEF WitnessSize
<1>5. n * OutBytes \in Nat /\ (n + 1) * OutBytes = n * OutBytes + OutBytes
  OBVIOUS
<1>6. BaseSize(q, S, n) \in Nat /\ BaseSize(q, S, n + 1) = BaseSize(q, S, n) + OutBytes
  BY <1>2, <1>5 DEF BaseSize
<1>7. Weight(q, S, n) \in Nat /\ Weight(q, S, n + 1) = Weight(q, S, n) + 4 * OutBytes
  BY <1>4, <1>6 DEF Weight
<1>8. VSize(q, S, n) \in Nat /\ VSize(q, S, n + 1) = VSize(q, S, n) + OutBytes
  BY <1>7 DEF VSize
<1>9. q.feePerVb \in Nat
  BY DEF Request
<1>10. ASSUME NEW r \in Nat, NEW v \in Nat, NEW o \in Nat
       PROVE  r * v \in Nat /\ r * v <= r * (v + o)
  <2>1. r * (v + o) = r * v + r * o
    OBVIOUS
  <2>2. r * v \in Nat /\ r * o \in Nat
    OBVIOUS
  <2> QED
    BY <2>1, <2>2
<1> QED
  BY <1>7, <1>8, <1>9, <1>10 DEF EstimatedFee

\* Outputs are numbered, and have a value.
LEMMA OutputsType ==
    ASSUME NEW outs \in Seq(Output)
    PROVE  /\ Len(outs) \in Nat /\ DOMAIN outs = 1 .. Len(outs)
           /\ \A i \in DOMAIN outs : outs[i] \in Output /\ outs[i].value \in Nat
<1>1. \A i \in 1 .. Len(outs) : outs[i] \in Output
  OBVIOUS
<1>2. \A o \in Output : o.value \in Nat
  BY DEF Output
<1> QED
  BY <1>1, <1>2

\* What some outputs pay is a natural number.
LEMMA TotalOutputType ==
    ASSUME NEW outs \in Seq(Output)
    PROVE  TotalOutput(outs) \in Nat
<1>1. Len(outs) \in Nat /\ DOMAIN outs = 1 .. Len(outs)
  BY OutputsType
<1>2. \A i \in DOMAIN outs : outs[i].value \in Nat
  BY OutputsType
<1>3. IsFiniteSet(DOMAIN outs)
  BY <1>1, FS_Interval
<1> DEFINE f == [i \in DOMAIN outs |-> outs[i].value]
<1>4. \A i \in DOMAIN outs : f[i] \in Nat
  BY <1>2
<1> HIDE DEF f
<1>5. Total(DOMAIN outs, f) \in Nat
  BY <1>3, <1>4, TotalType
<1> QED
  BY <1>5 DEF TotalOutput, f

\* One output more.
LEMMA TotalOutputAppend ==
    ASSUME NEW outs \in Seq(Output), NEW o \in Output
    PROVE  TotalOutput(Append(outs, o)) = TotalOutput(outs) + o.value
<1> DEFINE more == Append(outs, o)
           f == [i \in DOMAIN outs |-> outs[i].value]
           g == [i \in DOMAIN more |-> more[i].value]
           n == Len(outs) + 1
<1>1. /\ DOMAIN outs = 1 .. Len(outs) /\ Len(outs) \in Nat
      /\ DOMAIN more = 1 .. n /\ more[n] = o
      /\ \A i \in DOMAIN outs : more[i] = outs[i]
  OBVIOUS
<1>2. more \in Seq(Output)
  OBVIOUS
<1>3. DOMAIN more = DOMAIN outs \union {n} /\ n \notin DOMAIN outs
  BY <1>1
<1>4. \A i \in DOMAIN outs \union {n} : g[i] \in Nat
  BY <1>2, <1>3, OutputsType
<1>5. IsFiniteSet(DOMAIN outs)
  BY <1>1, FS_Interval
<1> HIDE DEF more, g, n
<1>6. Total(DOMAIN outs \union {n}, g) = Total(DOMAIN outs, g) + g[n]
  BY <1>3, <1>4, <1>5, TotalAdd
<1>7. Total(DOMAIN outs, g) = Total(DOMAIN outs, f)
  <2>1. \A i \in DOMAIN outs : g[i] = f[i]
    BY <1>1, <1>3 DEF g
  <2> QED
    BY <2>1, TotalSame
<1>8. g[n] = o.value
  BY <1>1, <1>3 DEF g
<1>9. TotalOutput(more) = Total(DOMAIN more, g)
  BY DEF TotalOutput, g
<1> QED
  BY <1>3, <1>6, <1>7, <1>8, <1>9 DEF TotalOutput, more

\* The only output.
LEMMA TotalOutputOne ==
    ASSUME NEW outs \in Seq(Output), Len(outs) = 1
    PROVE  TotalOutput(outs) = outs[1].value
<1> DEFINE T == DOMAIN outs
           f == [i \in T |-> outs[i].value]
<1>1. T = {1} /\ \A i \in T : outs[i].value \in Nat
  BY OutputsType
<1>2. IsFiniteSet(T) /\ 1 \in T /\ \A i \in T : f[i] \in Nat
  BY <1>1, FS_Singleton
<1>3. f[1] = outs[1].value /\ T \ {1} = {}
  BY <1>1
<1> HIDE DEF f, T
<1>4. Total(T, f) = Total(T \ {1}, f) + f[1]
  BY <1>2, TotalSplit
<1>5. Total({}, f) = 0
  BY FS_EmptySet DEF Total, Units
<1>6. Total(T, f) = f[1]
  <2>1. f[1] \in Nat
    BY <1>2
  <2>2. Total(T, f) = 0 + f[1]
    BY <1>3, <1>4, <1>5
  <2> QED
    BY <2>1, <2>2
<1> QED
  BY <1>3, <1>6 DEF TotalOutput, f, T
-----------------------------------------------------------------------------
\* What the planner computes with, in a state of the right types.
LEMMA PlanFacts ==
    ASSUME TypeOK
    PROVE  /\ request \in Request
           /\ request.outputs \in Seq(Output)
           /\ Len(request.outputs) \in Nat /\ EstimatedOutputs(request) \in Nat
           /\ TotalOutput(request.outputs) \in Nat
           /\ Kept(request) \subseteq DOMAIN request.inputs
           /\ request.dust \in Nat /\ request.change \in BOOLEAN
           /\ taken \in SUBSET (DOMAIN request.inputs)
           /\ TotalInput(request, taken) \in Nat
           /\ EstimatedFee(request, taken, EstimatedOutputs(request)) \in Nat
<1>1. request \in Request /\ taken \in SUBSET (DOMAIN request.inputs)
  BY DEF TypeOK
<1>2. /\ request.outputs \in Seq(Output)
      /\ request.dust \in Nat /\ request.change \in BOOLEAN
  BY <1>1 DEF Request
<1>3. Len(request.outputs) \in Nat /\ EstimatedOutputs(request) \in Nat
  <2>1. Len(request.outputs) \in Nat
    BY <1>2
  <2>2. EstimatedOutputs(request) \in {Len(request.outputs) + 1, Len(request.outputs) + 0}
    BY DEF EstimatedOutputs
  <2> QED
    BY <2>1, <2>2
<1>4. TotalOutput(request.outputs) \in Nat
  BY <1>2, TotalOutputType
<1>5. TotalInput(request, taken) \in Nat
  BY <1>1, TotalInputType
<1>6. EstimatedFee(request, taken, EstimatedOutputs(request)) \in Nat
  BY <1>1, <1>3, FeeType
<1> QED
  BY <1>1, <1>2, <1>3, <1>4, <1>5, <1>6 DEF Kept

\* The order of the inputs is strict.
LEMMA BeforeStrict ==
    ASSUME NEW q \in Request, NEW j \in DOMAIN q.inputs, NEW k \in DOMAIN q.inputs
    PROVE  ~(Before(q, j, k) /\ Before(q, k, j))
<1>1. Value(q, j) \in Nat /\ Value(q, k) \in Nat
  BY InputType
<1>2. j \in Nat /\ k \in Nat
  BY DEF Request
<1> QED
  BY <1>1, <1>2 DEF Before

\* The next input of the order extends what is taken.
LEMMA TakeInOrder ==
    ASSUME PlannerInv, NEW k, IsNext(k), request' = request,
           taken' = taken \union {k}, totalIn' = totalIn + Value(request, k)
    PROVE  /\ k \in Kept(request) /\ k \in DOMAIN request.inputs /\ k \notin taken
           /\ taken' \in SUBSET (DOMAIN request'.inputs)
           /\ InOrder'
           /\ totalIn' = TotalInput(request', taken')
           /\ totalIn' \in Nat
<1>1. TypeOK /\ InOrder /\ totalIn = TotalInput(request, taken)
  BY DEF PlannerInv, Conserved
<1>2. k \in Kept(request) /\ k \in DOMAIN request.inputs /\ k \notin taken
  BY <1>1, PlanFacts DEF IsNext, Left
<1>3. taken' \in SUBSET (DOMAIN request'.inputs)
  BY <1>1, <1>2 DEF TypeOK
<1>4. InOrder'
  BY <1>1, <1>2 DEF InOrder, Initial, IsNext, Left
<1>5. totalIn' = TotalInput(request, taken \union {k})
  BY <1>1, <1>2, PlanFacts, TotalInputAdd
<1>6. totalIn' \in Nat
  BY <1>1, <1>2, <1>5, PlanFacts, TotalInputType
<1> QED
  BY <1>2, <1>3, <1>4, <1>5, <1>6

\* A request that is refused, and one that is not.
LEMMA PlanBeginStep ==
    ASSUME PlannerInv, NEW q \in Requests, Begin(q)
    PROVE  PlannerInv'
<1>1. q \in Request /\ request' = q /\ pc = "idle" /\ TypeOK
  BY DEF Begin, Refuse, BeginExact, BeginMax, PlannerInv
<1>2. taken = {} /\ totalIn = 0 /\ ~covered
  BY <1>1 DEF PlannerInv, Selecting
<1>3. Kept(q) \in SUBSET (DOMAIN q.inputs) /\ {} \in SUBSET (DOMAIN q.inputs)
  BY DEF Kept
<1>4. TotalInput(q, {}) = 0 /\ TotalInput(q, Kept(q)) \in Nat
  BY <1>1, <1>3, TotalInputType
<1>5. CASE pc' # "drop"
  <2>1. /\ pc' \in {"failed", "take"} /\ taken' = {} /\ totalIn' = 0 /\ ~covered'
        /\ UNCHANGED <<fee, covered, outputs>>
        /\ pc' = "take" => q.selector # "Max"
    BY <1>2, <1>5 DEF Begin, Refuse, BeginExact, BeginMax
  <2>2. TypeOK'
    BY <1>1, <2>1 DEF TypeOK
  <2>3. Selecting' /\ InOrder' /\ Conserved'
    BY <1>1, <1>4, <2>1 DEF Selecting, InOrder, Initial, Conserved
  <2>4. CoverSoFar' /\ Selects'
    BY <2>1 DEF CoverSoFar, Selects, Shortest
  <2> QED
    BY <2>1, <2>2, <2>3, <2>4 DEF PlannerInv, FeePaysSize, NothingDust
<1>6. CASE pc' = "drop"
  <2>1. /\ taken' = Kept(q) /\ totalIn' = TotalInput(q, Kept(q))
        /\ UNCHANGED <<fee, covered, outputs>>
        /\ q.selector = "Max" /\ Len(q.outputs) = 1 /\ ~q.change
    BY <1>6 DEF Begin, Refuse, BeginExact, BeginMax, Buildable
  <2>2. TypeOK'
    BY <1>1, <1>3, <1>4, <1>6, <2>1 DEF TypeOK
  <2>3. Selecting' /\ InOrder' /\ Conserved'
    BY <1>1, <1>6, <2>1 DEF Selecting, InOrder, Initial, Conserved
  <2>4. CoverSoFar' /\ LeavesTooHeavy' /\ Selects'
    BY <1>1, <1>6, <2>1 DEF CoverSoFar, LeavesTooHeavy, Selects, Longest
  <2> QED
    BY <1>6, <2>2, <2>3, <2>4 DEF PlannerInv, FeePaysSize, NothingDust
<1> QED
  BY <1>5, <1>6

\* An empty request.
LEMMA NoRequestType == NoRequest \in Request /\ TotalInput(NoRequest, {}) = 0
<1>1. <<>> \in Seq(Coins) /\ <<>> \in Seq(Output)
  OBVIOUS
<1>2. NoRequest \in Request
  BY <1>1 DEF NoRequest, Request
<1>3. {} \in SUBSET (DOMAIN NoRequest.inputs)
  OBVIOUS
<1> QED
  BY <1>2, <1>3, TotalInputType

\* Before the first request.
LEMMA InvariantInit == Init => PlannerInv
<1> SUFFICES ASSUME Init PROVE PlannerInv
  OBVIOUS
<1> USE DEF Init
<1>1. outputs \in Seq(Output)
  OBVIOUS
<1>2. TypeOK
  BY <1>1, NoRequestType DEF TypeOK
<1>3. Selecting /\ InOrder /\ CoverSoFar /\ Selects /\ Conserved /\ FeePaysSize /\ NothingDust
  BY NoRequestType DEF Selecting, InOrder, Initial, CoverSoFar, Selects, Conserved,
     FeePaysSize, NothingDust
<1> QED
  BY <1>2, <1>3 DEF PlannerInv

\* Between two requests nothing is kept.
LEMMA ReturnStep == Return => PlannerInv'
<1> SUFFICES ASSUME Return PROVE PlannerInv'
  OBVIOUS
<1> USE DEF Return
<1>1. outputs' \in Seq(Output)
  OBVIOUS
<1>2. TypeOK'
  BY <1>1, NoRequestType DEF TypeOK
<1>3. Selecting' /\ InOrder' /\ CoverSoFar' /\ Selects' /\ Conserved' /\ FeePaysSize' /\ NothingDust'
  BY NoRequestType DEF Selecting, InOrder, Initial, CoverSoFar, Selects, Conserved,
     FeePaysSize, NothingDust
<1> QED
  BY <1>2, <1>3 DEF PlannerInv

\* The next input is too heavy.
LEMMA TooBigStep ==
    ASSUME PlannerInv, NEW k \in DOMAIN request.inputs, TakeTooBig(k)
    PROVE  PlannerInv'
<1> USE DEF TakeTooBig
<1>1. /\ taken' \in SUBSET (DOMAIN request'.inputs) /\ InOrder'
      /\ totalIn' = TotalInput(request', taken') /\ totalIn' \in Nat
  BY TakeInOrder
<1>2. TypeOK'
  BY <1>1 DEF TypeOK, PlannerInv
<1>3. Selecting' /\ CoverSoFar' /\ Selects' /\ Conserved' /\ FeePaysSize' /\ NothingDust'
  BY <1>1 DEF Selecting, CoverSoFar, Selects, Conserved, FeePaysSize, NothingDust
<1> QED
  BY <1>1, <1>2, <1>3 DEF PlannerInv

\* No input is left.
LEMMA NoneFitsStep == PlannerInv /\ NoneFits => PlannerInv'
<1> SUFFICES ASSUME PlannerInv, NoneFits PROVE PlannerInv'
  OBVIOUS
<1> USE DEF NoneFits
<1>1. TypeOK' /\ InOrder'
  BY DEF TypeOK, InOrder, Initial, PlannerInv
<1>2. Selecting' /\ CoverSoFar' /\ Selects' /\ Conserved' /\ FeePaysSize' /\ NothingDust'
  BY DEF Selecting, CoverSoFar, Selects, Conserved, FeePaysSize, NothingDust, PlannerInv
<1> QED
  BY <1>1, <1>2 DEF PlannerInv

\* The loop goes on only while the inputs are not enough, and ends well only once
\* they were.
LEMMA AfterTakeMeans ==
    ASSUME NEW k, NEW e \in BOOLEAN
    PROVE  /\ AfterTake(k, e) \in {"take", "settle", "failed"}
           /\ AfterTake(k, e) = "take" /\ request.selector # "UseAll" => ~e
           /\ AfterTake(k, e) = "settle" => covered \/ e
           /\ AfterTake(k, e) = "settle" /\ request.selector = "UseAll" => Left = {k}
BY DEF AfterTake

\* An input is taken: it is the last of the order so far, so that what follows
\* from it alone is whether the inputs are now enough, and it was needed.
LEMMA TakeStep ==
    ASSUME PlannerInv, NEW k \in DOMAIN request.inputs, Take(k)
    PROVE  PlannerInv'
<1> DEFINE S == taken \union {k}
           n == EstimatedOutputs(request)
           out == TotalOutput(request.outputs)
           old == EstimatedFee(request, taken, n)
           cost == EstimatedFee(request, S, n)
           in == totalIn + Value(request, k)
<1>1. /\ TypeOK /\ Selecting /\ InOrder /\ CoverSoFar /\ Selects
      /\ totalIn = TotalInput(request, taken)
  BY DEF PlannerInv, Conserved
<1>2. /\ pc = "take" /\ IsNext(k) /\ request' = request /\ outputs' = outputs
      /\ taken' = S /\ totalIn' = in /\ fee' = cost
      /\ covered' = (covered \/ in >= out + cost)
      /\ pc' = AfterTake(k, in >= out + cost)
  BY DEF Take, Enough
<1>3. /\ k \in Kept(request) /\ k \notin taken
      /\ S \in SUBSET (DOMAIN request.inputs) /\ InOrder'
      /\ totalIn' = TotalInput(request', taken') /\ in \in Nat
  BY <1>2, TakeInOrder
<1>4. /\ out \in Nat /\ n \in Nat /\ old \in Nat /\ cost \in Nat
      /\ totalIn \in Nat /\ Value(request, k) \in Nat
      /\ request \in Request /\ taken \in SUBSET (DOMAIN request.inputs)
  BY <1>1, <1>3, PlanFacts, FeeType, InputType
<1>5. pc' \in {"take", "settle", "failed"} /\ request.selector # "Max"
  BY <1>1, <1>2 DEF AfterTake, Selecting
<1>6. \A j \in taken : Before(request, j, k) /\ ~Before(request, k, j)
  BY <1>1, <1>3, <1>4, BeforeStrict DEF InOrder, Initial
<1> DEFINE enough == in >= out + cost
<1>a. /\ covered' => covered \/ enough
      /\ covered \/ enough => covered'
      /\ pc' = AfterTake(k, enough)
  BY <1>2
<1>b. enough \in BOOLEAN /\ (~enough => in < out + cost)
  BY <1>3, <1>4
<1>c. /\ pc' = "take" /\ request.selector # "UseAll" => ~enough
      /\ pc' = "settle" => covered'
      /\ pc' = "settle" /\ request.selector = "UseAll" => Left = {k}
  BY <1>a, <1>b, AfterTakeMeans
<1> HIDE DEF out, n, old, cost, in
<1>7. TypeOK'
  BY <1>1, <1>2, <1>3, <1>4, <1>5 DEF TypeOK
<1>8. Selecting'
  BY <1>2, <1>5 DEF Selecting
<1>9. CoverSoFar'
  <2>1. /\ covered => /\ taken # {}
                      /\ totalIn >= out
                      /\ \/ totalIn >= out + old
                         \/ request.selector = "UseAll" /\ \E j \in taken : Uneconomic(j)
        /\ request.selector # "UseAll" /\ taken # {} => totalIn < out + old
    BY <1>1, <1>2 DEF CoverSoFar, out, old, n
  <2>2. covered' => totalIn' >= out
    <3>1. in >= totalIn
      BY <1>4 DEF in
    <3>2. in >= out + cost => in >= out
      BY <1>3, <1>4
    <3>3. covered => in >= out
      BY <1>3, <1>4, <2>1, <3>1
    <3> QED
      BY <1>2, <1>a, <3>2, <3>3
  <2>3. ASSUME covered', ~(in >= out + cost)
        PROVE  request.selector = "UseAll" /\ \E j \in S : Uneconomic(j)'
    <3>1. covered /\ request.selector = "UseAll"
      <4>1. covered
        BY <1>a, <2>3
      <4>2. taken # {} /\ (totalIn >= out + old \/ request.selector = "UseAll")
        BY <2>1, <4>1
      <4>3. ~(totalIn >= out + old /\ totalIn < out + old)
        BY <1>4
      <4> QED
        BY <2>1, <4>1, <4>2, <4>3
    <3>2. CASE totalIn >= out + old
      <4>1. Upto(k)' = S /\ S \ {k} = taken
        BY <1>2, <1>3, <1>6 DEF Upto
      <4>2. Value(request, k) < cost - old
        BY <1>4, <2>3, <3>2 DEF in
      <4>3. Uneconomic(k)'
        BY <1>2, <4>1, <4>2 DEF Uneconomic, cost, old, n
      <4> QED
        BY <3>1, <4>3
    <3>3. ASSUME NEW j \in taken, Uneconomic(j) PROVE Uneconomic(j)'
      <4>1. Upto(j)' = Upto(j)
        BY <1>2, <1>3, <1>6 DEF Upto
      <4> QED
        BY <1>2, <3>3, <4>1 DEF Uneconomic
    <3> QED
      BY <2>1, <3>1, <3>2, <3>3
  <2>4. pc' = "settle" => covered'
    BY <1>c
  <2>5. pc' = "take" /\ request.selector # "UseAll" => in < out + cost
    BY <1>b, <1>c
  <2> QED
    BY <1>2, <2>2, <2>3, <2>4, <2>5 DEF CoverSoFar, out, cost, n
<1>10. request.selector # "UseAll" => NeedsAll'
  <2> SUFFICES ASSUME request.selector # "UseAll", NEW j \in S, S # {j},
                      \A i \in S \ {j} : Before(request, i, j)
               PROVE  TotalInput(request, S \ {j}) < out + EstimatedFee(request, S \ {j}, n)
    BY <1>2 DEF NeedsAll, out, n
  <2>1. j = k
    BY <1>6
  <2>2. S \ {j} = taken /\ taken # {}
    BY <1>3, <2>1
  <2>3. totalIn < out + old
    BY <1>1, <1>2, <2>2 DEF CoverSoFar, out, old, n
  <2> QED
    BY <1>1, <2>2, <2>3 DEF old
<1>12. request.selector # "UseAll" => Shortest(request, S)
  <2> SUFFICES ASSUME request.selector # "UseAll", NEW T \in SUBSET S,
                      Initial(request, T), T # {}, T # S
               PROVE  ~Covers(request, T)
    BY DEF Shortest
  <2>1. k \notin T
    <3> SUFFICES ASSUME k \in T PROVE taken \subseteq T
      OBVIOUS
    <3>1. ASSUME NEW j \in taken, j \notin T PROVE FALSE
      <4>1. j \in Kept(request)
        BY <1>1 DEF InOrder, Initial
      <4> QED
        BY <1>6, <3>1, <4>1 DEF Initial
    <3> QED
      BY <3>1
  <2>2. T \in SUBSET taken
    BY <2>1
  <2>3. CASE T = taken
    <3>1. totalIn < out + old
      BY <1>1, <1>2, <2>3 DEF CoverSoFar, out, old, n
    <3>2. ~(totalIn >= out + old)
      BY <1>4, <3>1
    <3> QED
      BY <1>1, <2>3, <3>2 DEF Covers, out, old, n
  <2>4. CASE T # taken
    BY <1>1, <1>2, <2>2, <2>4 DEF Selects, Shortest
  <2> QED
    BY <2>3, <2>4
<1>13. Selects'
  <2>1. pc' = "settle" /\ request.selector = "UseAll" => S = Kept(request)
    BY <1>1, <1>3, <1>c DEF Left, InOrder, Initial
  <2> QED
    BY <1>2, <1>5, <1>12, <2>1 DEF Selects
<1>11. Conserved' /\ FeePaysSize' /\ NothingDust'
  BY <1>3, <1>5 DEF Conserved, FeePaysSize, NothingDust
<1> QED
  BY <1>2, <1>3, <1>5, <1>7, <1>8, <1>9, <1>10, <1>11, <1>13 DEF PlannerInv

\* The change is computed: what the transaction pays is its fee exactly, or what
\* the change would have been comes on top of a fee that counted its output.
LEMMA SettleStep == PlannerInv /\ Settle => PlannerInv'
<1> SUFFICES ASSUME PlannerInv, Settle PROVE PlannerInv'
  OBVIOUS
<1> DEFINE n == EstimatedOutputs(request)
           out == TotalOutput(request.outputs)
           change == totalIn - out - fee
           last == [value |-> change, data |-> FALSE]
           append == request.change /\ change >= request.dust
<1>1. /\ TypeOK /\ Selecting /\ InOrder /\ CoverSoFar /\ Selects
      /\ totalIn = TotalInput(request, taken)
  BY DEF PlannerInv, Conserved
<1>2. /\ pc = "settle" /\ UNCHANGED <<request, taken, totalIn, fee, covered>>
      /\ append => outputs' = Append(request.outputs, last)
      /\ ~append => outputs' = request.outputs
      /\ pc' \in {"planned", "failed"}
      /\ pc' = "planned" => CheckOutputs(request, outputs')
  BY DEF Settle
<1>3. /\ request \in Request /\ request.outputs \in Seq(Output) /\ Len(request.outputs) \in Nat
      /\ n \in Nat /\ out \in Nat /\ request.dust \in Nat /\ totalIn \in Nat /\ fee \in Nat
      /\ taken \in SUBSET (DOMAIN request.inputs)
  BY <1>1, PlanFacts DEF TypeOK
<1>4. /\ totalIn >= out
      /\ fee = EstimatedFee(request, taken, n)
      /\ \/ totalIn >= out + fee
         \/ request.selector = "UseAll" /\ \E k \in taken : Uneconomic(k)
  <2>1. covered /\ fee = EstimatedFee(request, taken, n)
    BY <1>1, <1>2 DEF CoverSoFar
  <2>2. /\ totalIn >= out
        /\ \/ totalIn >= out + EstimatedFee(request, taken, n)
           \/ request.selector = "UseAll" /\ \E k \in taken : Uneconomic(k)
    BY <1>1, <1>2, <2>1 DEF CoverSoFar
  <2>3. totalIn >= out + EstimatedFee(request, taken, n) => totalIn >= out + fee
    BY <2>1
  <2> QED
    BY <2>1, <2>2, <2>3
<1>5. append => last \in Output /\ change \in Nat
  BY <1>3 DEF Output
<1>6. outputs' \in Seq(Output)
  <2>1. append => Append(request.outputs, last) \in Seq(Output)
    BY <1>3, <1>5
  <2> QED
    BY <1>2, <1>3, <2>1
<1>7. append => /\ TotalOutput(outputs') = out + change
                /\ Len(outputs') = n
  <2> SUFFICES ASSUME append PROVE TotalOutput(outputs') = out + change /\ Len(outputs') = n
    OBVIOUS
  <2>1. outputs' = Append(request.outputs, last) /\ last \in Output
    BY <1>2, <1>5
  <2>2. TotalOutput(outputs') = out + last.value
    BY <1>3, <2>1, TotalOutputAppend
  <2>3. Len(outputs') = Len(request.outputs) + 1
    BY <1>3, <2>1
  <2> QED
    BY <2>2, <2>3 DEF EstimatedOutputs
<1> HIDE DEF n, out, last, append
<1>8. TypeOK'
  BY <1>1, <1>2, <1>6 DEF TypeOK
<1>9. Selecting' /\ InOrder' /\ CoverSoFar'
  BY <1>1, <1>2 DEF Selecting, InOrder, Initial, CoverSoFar
<1>10. totalIn >= TotalOutput(outputs')
  BY <1>2, <1>3, <1>4, <1>5, <1>7 DEF out
<1>11. \/ Paid' >= EstimatedFee(request, taken, Len(outputs'))
       \/ request.selector = "UseAll" /\ \E k \in taken : Uneconomic(k)
  <2>1. CASE append
    <3>1. totalIn - TotalOutput(outputs') = fee
      BY <1>3, <1>5, <1>7, <2>1
    <3> QED
      BY <1>2, <1>3, <1>4, <1>7, <2>1, <3>1 DEF Paid
  <2>2. CASE ~append /\ totalIn >= out + fee
    <3>1. totalIn - TotalOutput(outputs') >= fee
      BY <1>2, <1>3, <2>2 DEF out
    <3>2. n \in {Len(request.outputs) + 0, Len(request.outputs) + 1}
      BY DEF n, EstimatedOutputs
    <3>3. /\ EstimatedFee(request, taken, Len(request.outputs)) \in Nat
          /\ EstimatedFee(request, taken, Len(request.outputs)) <= fee
      <4>1. /\ EstimatedFee(request, taken, Len(request.outputs)) \in Nat
            /\ EstimatedFee(request, taken, Len(request.outputs))
                  <= EstimatedFee(request, taken, Len(request.outputs) + 1)
        BY <1>3, FeeType
      <4>2. n = Len(request.outputs) \/ n = Len(request.outputs) + 1
        BY <1>3, <3>2
      <4> QED
        BY <1>3, <1>4, <4>1, <4>2
    <3>4. TotalOutput(outputs') \in Nat
      BY <1>6, TotalOutputType
    <3> QED
      BY <1>2, <1>3, <2>2, <3>1, <3>3, <3>4 DEF Paid
  <2> QED
    BY <1>4, <2>1, <2>2
<1>12. Conserved'
  BY <1>1, <1>2, <1>10 DEF Conserved
<1>13. FeePaysSize'
  <2>1. ASSUME NEW k \in taken, Uneconomic(k) PROVE Uneconomic(k)'
    BY <1>2, <2>1 DEF Uneconomic, Upto
  <2> QED
    BY <1>2, <1>11, <2>1 DEF FeePaysSize
<1>14. NothingDust'
  BY <1>1, <1>2, PlanFacts DEF NothingDust, CheckOutputs, InOrder, Initial, Kept
<1>15. request.selector \notin {"UseAll", "Max"} => NeedsAll'
  BY <1>2 DEF PlannerInv, NeedsAll
<1>16. request.selector # "Max"
  BY <1>1, <1>2 DEF Selecting
<1>17. Selects'
  <2>1. taken # {}
    BY <1>1, <1>2 DEF CoverSoFar
  <2>2. request.selector = "UseAll" => taken = Kept(request)
    BY <1>1, <1>2 DEF Selects
  <2>3. request.selector # "UseAll" => Covers(request, taken) /\ Shortest(request, taken)
    BY <1>1, <1>2, <1>4 DEF Selects, Covers, out, n
  <2>4. Chosen(request, taken)
    BY <1>1, <1>16, <2>1, <2>2, <2>3 DEF Chosen, InOrder
  <2>5. outputs' = Payments(request, taken)
    BY <1>1, <1>2, <1>4, <1>16 DEF Payments, append, last, out, n
  <2> QED
    BY <1>2, <2>4, <2>5 DEF Selects
<1> QED
  BY <1>2, <1>8, <1>9, <1>12, <1>13, <1>14, <1>15, <1>16, <1>17 DEF PlannerInv

\* The input of least value is dropped: it is the last of the order, so that all
\* up to it were too heavy together.
LEMMA DropStep ==
    ASSUME PlannerInv, NEW k \in DOMAIN request.inputs, Drop(k)
    PROVE  PlannerInv'
<1>1. /\ TypeOK /\ Selecting /\ InOrder
      /\ totalIn = TotalInput(request, taken)
  BY DEF PlannerInv, Conserved
<1>2. /\ pc = "drop" /\ UNCHANGED <<request, pc, fee, covered, outputs>>
      /\ k \in taken /\ taken' = taken \ {k}
      /\ \A j \in taken \ {k} : Before(request, j, k)
      /\ totalIn' = totalIn - Value(request, k)
      /\ ~(Weight(request, taken, 1) <= MaxWeight)
  BY DEF Drop, Fits
<1>3. request \in Request /\ taken \in SUBSET (DOMAIN request.inputs) /\ taken \subseteq Kept(request)
      /\ Kept(request) \subseteq DOMAIN request.inputs
  BY <1>1, PlanFacts DEF InOrder, Initial
<1>4. /\ taken' \in SUBSET (DOMAIN request'.inputs)
      /\ totalIn' = TotalInput(request', taken') /\ totalIn' \in Nat
  <2>1. taken \ {k} \in SUBSET (DOMAIN request.inputs)
    BY <1>3
  <2>2. TotalInput(request, taken \ {k}) \in Nat
    BY <1>3, <2>1, TotalInputType
  <2>3. totalIn - Value(request, k) = TotalInput(request, taken \ {k})
    BY <1>1, <1>2, <1>3, TotalInputDrop
  <2> QED
    BY <1>2, <2>1, <2>2, <2>3
<1>5. TypeOK' /\ Selecting'
  BY <1>1, <1>2, <1>4 DEF TypeOK, Selecting
<1>6. InOrder'
  BY <1>1, <1>2 DEF InOrder, Initial
<1>7. LeavesTooHeavy'
  <2> SUFFICES ASSUME NEW i \in Kept(request) \ taken'
               PROVE  Weight(request, {j \in Kept(request) : j = i \/ Before(request, j, i)}, 1)
                         > MaxWeight
    BY <1>2 DEF LeavesTooHeavy
  <2>1. CASE i = k
    <3>1. {j \in Kept(request) : j = i \/ Before(request, j, i)} = taken
      <4>1. ASSUME NEW j \in Kept(request) \ taken PROVE ~Before(request, j, k)
        BY <1>1, <1>2, <1>3, BeforeStrict DEF InOrder, Initial
      <4> QED
        BY <1>2, <1>3, <2>1, <4>1
    <3>2. Weight(request, taken, 1) \in Nat
      BY <1>3, FeeType
    <3>3. Weight(request, taken, 1) > MaxWeight
      BY <1>2, <3>2
    <3> QED
      BY <3>1, <3>3
  <2>2. CASE i # k
    BY <1>2, <1>1, <2>2 DEF PlannerInv, LeavesTooHeavy, Selecting
  <2> QED
    BY <2>1, <2>2
<1>8. CoverSoFar' /\ Conserved' /\ FeePaysSize' /\ NothingDust'
  BY <1>2, <1>4 DEF CoverSoFar, Conserved, FeePaysSize, NothingDust
<1>9. request.selector = "Max"
  BY <1>1, <1>2 DEF Selecting
<1>10. Selects'
  <2> SUFFICES ASSUME NEW T \in SUBSET Kept(request), Initial(request, T),
                      taken \ {k} \subseteq T, T # taken \ {k}
               PROVE  Weight(request, T, 1) > MaxWeight
    BY <1>2 DEF Selects, Longest
  <2>1. k \in T
    <3> SUFFICES ASSUME k \notin T PROVE FALSE
      OBVIOUS
    <3>1. PICK j \in T : j \notin taken
      BY <1>2
    <3>2. Before(request, k, j) /\ Before(request, j, k)
      BY <1>1, <1>2, <1>3, <3>1 DEF InOrder, Initial
    <3> QED
      BY <1>2, <1>3, <3>1, <3>2, BeforeStrict
  <2>2. taken \subseteq T
    BY <2>1
  <2>3. CASE T = taken
    <3>1. Weight(request, taken, 1) \in Nat
      BY <1>3, FeeType
    <3> QED
      BY <1>2, <2>3, <3>1
  <2>4. CASE T # taken
    BY <1>2, <2>2, <2>4 DEF PlannerInv, Selects, Longest
  <2> QED
    BY <2>3, <2>4
<1> QED
  BY <1>2, <1>5, <1>6, <1>7, <1>8, <1>9, <1>10 DEF PlannerInv

\* The maximum is written into the only output: it pays the fee exactly.
LEMMA SettleMaxStep == PlannerInv /\ SettleMax => PlannerInv'
<1> SUFFICES ASSUME PlannerInv, SettleMax PROVE PlannerInv'
  OBVIOUS
<1> DEFINE cost == EstimatedFee(request, taken, 1)
           enough == totalIn >= cost + request.dust
           outs == [request.outputs EXCEPT ![1].value = totalIn - cost]
<1>1. /\ TypeOK /\ Selecting /\ InOrder
      /\ totalIn = TotalInput(request, taken)
  BY DEF PlannerInv, Conserved
<1>2. /\ pc = "drop" /\ UNCHANGED <<request, taken, totalIn, covered>>
      /\ fee' = cost
      /\ enough => outputs' = outs
      /\ ~enough => outputs' = outputs
      /\ pc' \in {"planned", "failed"}
      /\ pc' = "planned" => enough /\ CheckOutputs(request, outs)
  BY DEF SettleMax
<1>3. /\ request \in Request /\ request.outputs \in Seq(Output)
      /\ request.dust \in Nat /\ totalIn \in Nat
      /\ taken \in SUBSET (DOMAIN request.inputs)
  BY <1>1, PlanFacts DEF TypeOK
<1>4. cost \in Nat
  BY <1>3, FeeType
<1>5. request.selector = "Max" /\ Len(request.outputs) = 1
  BY <1>1, <1>2 DEF Selecting
<1>6. ASSUME enough
      PROVE  outs \in Seq(Output) /\ Len(outs) = 1 /\ outs[1].value = totalIn - cost
  <2>1. totalIn - cost \in Nat
    BY <1>3, <1>4, <1>6
  <2>2. /\ DOMAIN request.outputs = 1 .. 1
        /\ request.outputs[1] \in Output
    BY <1>3, <1>5, OutputsType
  <2>3. /\ [request.outputs[1] EXCEPT !.value = totalIn - cost] \in Output
        /\ [request.outputs[1] EXCEPT !.value = totalIn - cost].value = totalIn - cost
    BY <2>1, <2>2 DEF Output
  <2>4. /\ outs \in Seq(Output) /\ Len(outs) = 1
        /\ outs[1] = [request.outputs[1] EXCEPT !.value = totalIn - cost]
    BY <1>3, <1>5, <2>2, <2>3, ExceptSeq
  <2> QED
    BY <2>3, <2>4
<1>12. Selects'
  <2>1. Weight(request, taken, 1) <= MaxWeight /\ taken # {} /\ Longest(request, taken)
    BY <1>2 DEF SettleMax, Fits, PlannerInv, Selects
  <2>2. Chosen(request, taken)
    BY <1>1, <1>5, <2>1 DEF Chosen, InOrder
  <2>3. outs = Payments(request, taken)
    BY <1>1, <1>5 DEF Payments
  <2> QED
    BY <1>2, <2>2, <2>3 DEF Selects
<1> HIDE DEF cost, outs
<1>7. TypeOK'
  BY <1>1, <1>2, <1>4, <1>6 DEF TypeOK
<1>8. Selecting' /\ InOrder' /\ CoverSoFar' /\ LeavesTooHeavy'
  BY <1>1, <1>2, <1>5 DEF Selecting, InOrder, Initial, CoverSoFar, PlannerInv, LeavesTooHeavy
<1>9. ASSUME pc' = "planned"
      PROVE  TotalOutput(outputs') = totalIn - cost /\ Len(outputs') = 1
  BY <1>2, <1>6, <1>9, TotalOutputOne
<1>10. Conserved' /\ FeePaysSize'
  <2>1. pc' = "planned" => /\ totalIn >= TotalOutput(outputs')
                           /\ totalIn - TotalOutput(outputs') = cost
    BY <1>2, <1>3, <1>4, <1>9
  <2>2. pc' = "planned" => Paid' >= EstimatedFee(request, taken, Len(outputs'))
    <3>1. cost >= cost
      BY <1>4
    <3>2. pc' = "planned" => Paid' = cost /\ EstimatedFee(request, taken, Len(outputs')) = cost
      BY <1>2, <1>9, <2>1 DEF Paid, cost
    <3> QED
      BY <3>1, <3>2
  <2> QED
    BY <1>1, <1>2, <2>1, <2>2 DEF Conserved, FeePaysSize
<1>11. NothingDust'
  BY <1>1, <1>2, PlanFacts DEF NothingDust, CheckOutputs, InOrder, Initial, Kept
<1> QED
  BY <1>2, <1>5, <1>7, <1>8, <1>10, <1>11, <1>12 DEF PlannerInv

LEMMA InvariantStep == PlannerInv /\ [Next]_planVars => PlannerInv'
<1> SUFFICES ASSUME PlannerInv, [Next]_planVars PROVE PlannerInv'
  OBVIOUS
<1>1. CASE UNCHANGED planVars
  BY <1>1 DEF planVars, PlannerInv, TypeOK, Selecting, InOrder, Initial, CoverSoFar, Selects,
     Conserved, FeePaysSize, NothingDust, NeedsAll, LeavesTooHeavy, Uneconomic, Upto, Paid
<1>2. CASE Next
  BY <1>2, PlanBeginStep, ReturnStep, TooBigStep, TakeStep, DropStep, SettleStep, NoneFitsStep,
     SettleMaxStep DEF Next, Plan
<1> QED
  BY <1>1, <1>2

\* The inductive invariant of the planner (tx_planner.rs:57).
THEOREM Invariant == PlannerSpec => []PlannerInv
BY InvariantInit, InvariantStep, PTL DEF PlannerSpec

\* total_in is the value of what is selected, and pays for the outputs.
THEOREM NothingFromNothing == PlannerSpec => []Conserved
<1>1. PlannerInv => Conserved
  BY DEF PlannerInv
<1> QED
  BY <1>1, Invariant, PTL

\* A planned transaction pays for its size at the rate asked for, unless all
\* inputs were to be used and one of them is not worth its fee.
THEOREM PaysForItself == PlannerSpec => []FeePaysSize
<1>1. PlannerInv => FeePaysSize
  BY DEF PlannerInv
<1> QED
  BY <1>1, Invariant, PTL

\* No planned transaction has an output that is dust, or spends dust.
THEOREM NoDust == PlannerSpec => []NothingDust
<1>1. PlannerInv => NothingDust
  BY DEF PlannerInv
<1> QED
  BY <1>1, Invariant, PTL

\* ExactInputSelector takes no input beyond the need.
THEOREM NothingNeedless == PlannerSpec => []NoNeedlessInput
<1>1. PlannerInv => NoNeedlessInput
  BY DEF PlannerInv, NoNeedlessInput
<1> QED
  BY <1>1, Invariant, PTL

\* MaxInputSelector leaves an input out only if those of greater value are too
\* heavy with it.
THEOREM SpendsMaximum == PlannerSpec => []MaxSpendsAll
<1>1. PlannerInv => MaxSpendsAll
  BY DEF PlannerInv, MaxSpendsAll
<1> QED
  BY <1>1, Invariant, PTL

\* A plan is what the selector's rule says of the request and nothing else: which
\* inputs, and how much to whom (input_selector, MaxInputSelector).
THEOREM PlansAsChosen ==
    PlannerSpec =>
        [](pc = "planned" => Chosen(request, taken) /\ outputs = Payments(request, taken))
<1>1. PlannerInv => (pc = "planned" => Chosen(request, taken) /\ outputs = Payments(request, taken))
  BY DEF PlannerInv, Selects
<1> QED
  BY <1>1, Invariant, PTL
-----------------------------------------------------------------------------
\* Of two initial parts of the order, one holds the other.
LEMMA InitialsNested ==
    ASSUME NEW q \in Request, NEW S, NEW T, Initial(q, S), Initial(q, T)
    PROVE  S \subseteq T \/ T \subseteq S
<1>1. SUFFICES ASSUME NEW j \in S \ T, NEW k \in T \ S PROVE FALSE
  OBVIOUS
<1>2. j \in DOMAIN q.inputs /\ k \in DOMAIN q.inputs
  BY DEF Initial, Kept
<1>3. Before(q, j, k) /\ Before(q, k, j)
  BY DEF Initial
<1> QED
  BY <1>2, <1>3, BeforeStrict

\* Neither selector has a choice: a request selects its inputs in one way.
LEMMA ChosenOnce ==
    ASSUME NEW q \in Request, NEW S, NEW T, Chosen(q, S), Chosen(q, T)
    PROVE  S = T
<1>1. ASSUME NEW U, NEW V, Chosen(q, U), Chosen(q, V), U \subseteq V, U # V
      PROVE  FALSE
  <2>1. /\ Initial(q, U) /\ Initial(q, V) /\ U # {}
        /\ U \in SUBSET V /\ V \in SUBSET Kept(q)
    BY <1>1 DEF Chosen, Initial
  <2>2. CASE q.selector = "UseAll"
    BY <1>1, <2>2 DEF Chosen
  <2>3. CASE q.selector = "Max"
    <3>1. Weight(q, V, 1) <= MaxWeight /\ Weight(q, V, 1) > MaxWeight
      BY <1>1, <2>1, <2>3 DEF Chosen, Longest
    <3>2. Weight(q, V, 1) \in Nat
      BY <2>1, FeeType DEF Kept
    <3> QED
      BY <3>1, <3>2
  <2>4. CASE q.selector \notin {"UseAll", "Max"}
    BY <1>1, <2>1, <2>4 DEF Chosen, Shortest
  <2> QED
    BY <2>2, <2>3, <2>4
<1> QED
  BY <1>1, InitialsNested DEF Chosen

\* The empty request selects nothing.
LEMMA NothingChosen == ASSUME NEW S PROVE ~Chosen(NoRequest, S)
BY DEF Chosen, Initial, Kept, NoRequest

\* The order in which inputs are taken is strict and total.
LEMMA TakenInOrder ==
    ASSUME NEW q \in Request, NEW S \in SUBSET (DOMAIN q.inputs)
    PROVE  Orders(OrderOf(q), S)
<1>1. \A j \in S : j \in Nat /\ Value(q, j) \in Nat
  BY InputType DEF Request
<1>2. \A j, k \in S : <<j, k>> \in OrderOf(q) <=> Before(q, j, k)
  BY DEF OrderOf
<1>3. \A j \in S : ~Before(q, j, j)
  BY <1>1 DEF Before
<1>4. ASSUME NEW j \in S, NEW k \in S, NEW l \in S, Before(q, j, k), Before(q, k, l)
      PROVE  Before(q, j, l)
  BY <1>1, <1>4 DEF Before
<1>5. ASSUME NEW j \in S, NEW k \in S, j # k
      PROVE  Before(q, j, k) \/ Before(q, k, j)
  BY <1>1, <1>5 DEF Before
<1> QED
  BY <1>2, <1>3, <1>4, <1>5 DEF Orders

\* The inputs of a transaction are the inputs taken, each of them once.
LEMMA SelectedOnce ==
    ASSUME NEW q \in Request, NEW S \in SUBSET (DOMAIN q.inputs)
    PROVE  \E place \in Bijection(DOMAIN Selected(q, S), S) :
              \A i \in DOMAIN Selected(q, S) :
                  /\ Selected(q, S)[i] = q.inputs[place[i]]
                  /\ Selected(q, S)[i] \in Coins
<1>1. Listed(S, OrderOf(q)) \in Bijection(1 .. Cardinality(S), S)
  BY TotalInputType, TakenInOrder, ListedOnce
<1>2. DOMAIN Selected(q, S) = 1 .. Cardinality(S)
  BY DEF Selected
<1>3. \A i \in 1 .. Cardinality(S) : Listed(S, OrderOf(q))[i] \in S
  <2> DEFINE N == Cardinality(S)
             L == Listed(S, OrderOf(q))
  <2>1. L \in Bijection(1 .. N, S)
    BY <1>1
  <2> HIDE DEF L, N
  <2>2. L \in [1 .. N -> S]
    BY <2>1, Fun_BijectionProperties
  <2>3. \A i \in 1 .. N : L[i] \in S
    BY <2>2
  <2> QED
    BY <2>3 DEF L, N
<1>4. \A i \in 1 .. Cardinality(S) :
         /\ Selected(q, S)[i] = q.inputs[Listed(S, OrderOf(q))[i]]
         /\ Selected(q, S)[i] \in Coins
  BY <1>3, InputType DEF Selected
<1> QED
  BY <1>1, <1>2, <1>4

-----------------------------------------------------------------------------
\* A hash is of the inputs and outputs only.
LEMMA SighashSame ==
    ASSUME NEW t, NEW u, t.ins = u.ins, t.outs = u.outs, NEW i
    PROVE  Sighash(t, i) = Sighash(u, i)
BY DEF Sighash, HashedInputs, HashedOutputs

\* A hash that commits to all inputs and outputs is of one transaction only.
LEMMA SighashCommits ==
    ASSUME NEW t, NEW u, NEW i, NEW j, Sighash(t, i) = Sighash(u, j),
           Scope[t.ins[i]] = "all", ~AnyoneCanPay[t.ins[i]]
    PROVE  t.ins = u.ins /\ t.outs = u.outs
<1>1. /\ Scope[u.ins[j]] = "all" /\ ~AnyoneCanPay[u.ins[j]]
      /\ HashedInputs(t, i) = HashedInputs(u, j)
      /\ HashedOutputs(t, i) = HashedOutputs(u, j)
  BY DEF Sighash
<1>2. HashedInputs(t, i)[1] = t.ins /\ HashedInputs(u, j)[1] = u.ins
  BY <1>1 DEF HashedInputs
<1>3. HashedOutputs(t, i) = t.outs /\ HashedOutputs(u, j) = u.outs
  BY <1>1 DEF HashedOutputs
<1> QED
  BY <1>1, <1>2, <1>3

\* Nothing is signed before the first call.
LEMMA SigningInitInv == SigningInit => SigningInv
<1> SUFFICES ASSUME SigningInit PROVE SigningInv
  OBVIOUS
<1> USE DEF SigningInit
<1>1. PlannerInv
  BY InvariantInit
<1>2. hashes = Sighashes(hashed.tx)
  BY DEF Sighashes, NoTx
<1>4. \A t \in approved \union {hashed.tx} : t = [ins |-> t.ins, outs |-> t.outs]
  BY DEF NoTx
<1>3. SignaturesApproved /\ EveryInputClaimed /\ NothingChangedSinceSigned
  BY DEF SignaturesApproved, EveryInputClaimed, NothingChangedSinceSigned, NoClaims
<1>5. HashedIsPlan
  BY DEF HashedIsPlan
<1> QED
  BY <1>1, <1>2, <1>3, <1>4, <1>5 DEF SigningInv

\* A call plans as the planner does.
LEMMA CallsPlan == PlannerInv /\ [SigningNext]_vars => PlannerInv'
<1> SUFFICES ASSUME PlannerInv, [SigningNext]_vars PROVE [Next]_planVars
  BY InvariantStep
<1>1. ASSUME NEW q \in ToSign, Begin(q) PROVE Next
  BY <1>1, SigningAssumption DEF Next
<1> QED
  BY <1>1 DEF SigningNext, vars, Call, PlanStep, Next, Failed, ReturnPlan, ReturnHashes,
     ClientSigns, ReturnSigned, ReturnCompiled

\* What a call returns that signs, or compiles the client's signatures.
LEMMA ReturnedStep ==
    ASSUME SigningInv,
           \/ \E keys \in SUBSET Keys : ReturnSigned(keys)
           \/ \E s \in Offers : ReturnCompiled(s)
    PROVE  EveryInputClaimed' /\ NothingChangedSinceSigned'
<1>1. CASE tx' = NoClaims
  BY <1>1 DEF EveryInputClaimed, NothingChangedSinceSigned, NoClaims
<1> DEFINE t == Planned
<1>2. ASSUME NEW keys \in SUBSET Keys, ReturnSigned(keys), tx' # NoClaims
      PROVE  EveryInputClaimed' /\ NothingChangedSinceSigned'
  <2>1. /\ tx'.ins = t.ins /\ tx'.outs = t.outs
        /\ tx'.claims = [i \in DOMAIN t.ins |-> SignedBy(Owner[t.ins[i]], Sighashes(t)[i])]
        /\ approved' = approved \union {t}
    BY <1>2 DEF ReturnSigned
  <2>2. ASSUME NEW i \in DOMAIN tx'.ins
        PROVE  tx'.claims[i] = SignedBy(Owner[tx'.ins[i]], Sighash(tx', i))
    <3>1. Sighash(tx', i) = Sighash(t, i)
      BY <2>1, SighashSame
    <3> QED
      BY <2>1, <2>2, <3>1 DEF Sighashes
  <2>3. [ins |-> tx'.ins, outs |-> tx'.outs] \in approved'
    BY <2>1 DEF Planned
  <2> QED
    BY <2>2, <2>3 DEF EveryInputClaimed, NothingChangedSinceSigned
<1>3. ASSUME NEW s \in Offers, ReturnCompiled(s), tx' # NoClaims
      PROVE  EveryInputClaimed' /\ NothingChangedSinceSigned'
  <2>1. /\ tx'.ins = t.ins /\ tx'.outs = t.outs /\ tx'.claims = s
        /\ Verified(t, s) /\ approved' = approved
    BY <1>3 DEF ReturnCompiled
  <2>2. ASSUME NEW i \in DOMAIN tx'.ins
        PROVE  /\ i \in DOMAIN s
               /\ s[i] = SignedBy(Owner[tx'.ins[i]], Sighash(tx', i))
    <3>1. Sighash(tx', i) = Sighash(t, i)
      BY <2>1, SighashSame
    <3> QED
      BY <2>1, <2>2, <3>1 DEF Verified
  <2>3. ASSUME NEW i \in DOMAIN tx'.ins, Scope[tx'.ins[i]] = "all", ~AnyoneCanPay[tx'.ins[i]]
        PROVE  [ins |-> tx'.ins, outs |-> tx'.outs] \in approved
    <3>1. s[i] \in sigs
      <4>1. PICK n \in 0 .. Len(request.inputs) : s \in [1 .. n -> sigs]
        BY DEF Offers
      <4> QED
        BY <2>2, <4>1
    <3>2. PICK u \in approved : \E k \in DOMAIN u.ins :
             s[i] = SignedBy(Owner[u.ins[k]], Sighash(u, k))
      BY <3>1 DEF SigningInv, SignaturesApproved
    <3>5. PICK j \in DOMAIN u.ins : s[i] = SignedBy(Owner[u.ins[j]], Sighash(u, j))
      BY <3>2
    <3>3. Sighash(tx', i) = Sighash(u, j)
      BY <2>2, <3>5 DEF SignedBy
    <3>4. tx'.ins = u.ins /\ tx'.outs = u.outs
      BY <2>3, <3>3, SighashCommits
    <3> QED
      BY <3>4 DEF SigningInv
  <2> QED
    BY <2>1, <2>2, <2>3 DEF EveryInputClaimed, NothingChangedSinceSigned
<1> QED
  BY <1>1, <1>2, <1>3

\* Steps that give out no hashes and return no signed transaction.
LEMMA QuietStep ==
    ASSUME SigningInv, UNCHANGED <<hashes, hashed, sigs, approved>>, tx' = tx \/ tx' = NoClaims
    PROVE  /\ hashes' = Sighashes(hashed'.tx)
           /\ \A t \in approved' \union {hashed'.tx} : t = [ins |-> t.ins, outs |-> t.outs]
           /\ SignaturesApproved'
           /\ EveryInputClaimed'
           /\ NothingChangedSinceSigned'
<1>1. /\ hashes' = Sighashes(hashed'.tx)
      /\ \A t \in approved' \union {hashed'.tx} : t = [ins |-> t.ins, outs |-> t.outs]
      /\ SignaturesApproved'
  BY DEF SigningInv, SignaturesApproved
<1>2. CASE tx' = tx
  BY <1>1, <1>2 DEF SigningInv, EveryInputClaimed, NothingChangedSinceSigned
<1>3. CASE tx' = NoClaims
  BY <1>1, <1>3 DEF EveryInputClaimed, NothingChangedSinceSigned, NoClaims
<1> QED
  BY <1>1, <1>2, <1>3

\* The hashes given out are those of the transaction planned.
LEMMA HashesStep ==
    ASSUME SigningInv, ReturnHashes
    PROVE  /\ hashes' = Sighashes(hashed'.tx)
           /\ \A t \in approved' \union {hashed'.tx} : t = [ins |-> t.ins, outs |-> t.outs]
           /\ SignaturesApproved'
           /\ EveryInputClaimed'
           /\ NothingChangedSinceSigned'
<1>1. /\ hashes' = Sighashes(Planned) /\ hashed'.tx = Planned
      /\ UNCHANGED <<sigs, approved, tx>>
  BY DEF ReturnHashes
<1>2. Planned = [ins |-> Planned.ins, outs |-> Planned.outs]
  BY DEF Planned
<1>3. \A t \in approved : t = [ins |-> t.ins, outs |-> t.outs]
  BY DEF SigningInv
<1>4. SignaturesApproved' /\ EveryInputClaimed' /\ NothingChangedSinceSigned'
  BY <1>1 DEF SigningInv, SignaturesApproved, EveryInputClaimed, NothingChangedSinceSigned
<1> QED
  BY <1>1, <1>2, <1>3, <1>4

\* The client approves the transaction whose hash it signs.
LEMMA ClientStep ==
    ASSUME SigningInv, NEW i \in DOMAIN hashes, ClientSigns(i)
    PROVE  /\ hashes' = Sighashes(hashed'.tx)
           /\ \A t \in approved' \union {hashed'.tx} : t = [ins |-> t.ins, outs |-> t.outs]
           /\ SignaturesApproved'
           /\ EveryInputClaimed'
           /\ NothingChangedSinceSigned'
<1>1. /\ UNCHANGED <<hashes, hashed, tx>>
      /\ sigs' = sigs \union {SignedBy(Owner[hashed.tx.ins[i]], hashes[i])}
      /\ approved' = approved \union {hashed.tx}
  BY DEF ClientSigns
<1>2. i \in DOMAIN hashed.tx.ins /\ hashes[i] = Sighash(hashed.tx, i)
  BY DEF SigningInv, Sighashes
<1>3. ASSUME NEW s \in sigs'
      PROVE  \E t \in approved' : \E k \in DOMAIN t.ins :
                s = SignedBy(Owner[t.ins[k]], Sighash(t, k))
  <2>1. CASE s \in sigs
    BY <1>1, <2>1 DEF SigningInv, SignaturesApproved
  <2>2. CASE s = SignedBy(Owner[hashed.tx.ins[i]], hashes[i])
    BY <1>1, <1>2, <2>2
  <2> QED
    BY <1>1, <1>3, <2>1, <2>2
<1>4. SignaturesApproved'
  BY <1>3 DEF SignaturesApproved
<1>5. EveryInputClaimed' /\ NothingChangedSinceSigned'
  BY <1>1 DEF SigningInv, EveryInputClaimed, NothingChangedSinceSigned
<1> QED
  BY <1>1, <1>4, <1>5 DEF SigningInv

\* A returned transaction is approved by the keys that sign it, or carries
\* signatures of what its owners approved.
LEMMA ReturnsStep ==
    ASSUME SigningInv,
           \/ \E keys \in SUBSET Keys : ReturnSigned(keys)
           \/ \E s \in Offers : ReturnCompiled(s)
    PROVE  /\ hashes' = Sighashes(hashed'.tx)
           /\ \A t \in approved' \union {hashed'.tx} : t = [ins |-> t.ins, outs |-> t.outs]
           /\ SignaturesApproved'
           /\ EveryInputClaimed'
           /\ NothingChangedSinceSigned'
<1>1. /\ UNCHANGED <<hashes, hashed, sigs>>
      /\ approved' = approved \/ approved' = approved \union {Planned}
  BY DEF ReturnSigned, ReturnCompiled
<1>2. Planned = [ins |-> Planned.ins, outs |-> Planned.outs]
  BY DEF Planned
<1>3. \A t \in approved' \union {hashed'.tx} : t = [ins |-> t.ins, outs |-> t.outs]
  BY <1>1, <1>2 DEF SigningInv
<1>4. SignaturesApproved'
  BY <1>1 DEF SigningInv, SignaturesApproved
<1> QED
  BY <1>1, <1>3, <1>4, ReturnedStep DEF SigningInv

\* Hashes are given out of what is planned for the request.
LEMMA HashedStep == SigningInv /\ [SigningNext]_vars => HashedIsPlan'
<1> SUFFICES ASSUME SigningInv, [SigningNext]_vars PROVE HashedIsPlan'
  OBVIOUS
<1>1. CASE hashed' = hashed
  BY <1>1 DEF SigningInv, HashedIsPlan
<1>2. CASE ReturnHashes
  <2>1. pc = "planned" /\ hashed' = [request |-> request, tx |-> Planned]
    BY <1>2 DEF ReturnHashes
  <2>2. /\ request \in Request /\ taken \in SUBSET (DOMAIN request.inputs)
        /\ Chosen(request, taken) /\ outputs = Payments(request, taken)
    BY <2>1 DEF SigningInv, PlannerInv, TypeOK, Selects
  <2> QED
    BY <2>1, <2>2 DEF HashedIsPlan, Planned
<1> QED
  BY <1>1, <1>2 DEF SigningNext, vars, signingVars, Call, PlanStep, Failed, ReturnPlan,
     ClientSigns, ReturnSigned, ReturnCompiled

\* No step of a call or of the client breaks the invariant.
LEMMA SigningStep == SigningInv /\ [SigningNext]_vars => SigningInv'
<1> SUFFICES ASSUME SigningInv, [SigningNext]_vars PROVE SigningInv'
  OBVIOUS
<1>1. PlannerInv'
  BY CallsPlan DEF SigningInv
<1> DEFINE Quiet == UNCHANGED <<hashes, hashed, sigs, approved>> /\ (tx' = tx \/ tx' = NoClaims)
<1>2. \/ Quiet
      \/ ReturnHashes
      \/ \E i \in DOMAIN hashes : ClientSigns(i)
      \/ \E keys \in SUBSET Keys : ReturnSigned(keys)
      \/ \E s \in Offers : ReturnCompiled(s)
  <2>1. UNCHANGED vars => Quiet
    BY DEF vars, signingVars
  <2>2. ASSUME NEW o, NEW q, Call(o, q) PROVE Quiet
    BY <2>2 DEF Call
  <2>3. ASSUME PlanStep \/ Failed \/ ReturnPlan PROVE Quiet
    BY <2>3 DEF PlanStep, Failed, ReturnPlan, signingVars
  <2> QED
    BY <2>1, <2>2, <2>3 DEF SigningNext
<1>3. /\ hashes' = Sighashes(hashed'.tx)
      /\ \A t \in approved' \union {hashed'.tx} : t = [ins |-> t.ins, outs |-> t.outs]
      /\ SignaturesApproved'
      /\ EveryInputClaimed'
      /\ NothingChangedSinceSigned'
  BY <1>2, QuietStep, HashesStep, ClientStep, ReturnsStep
<1> QED
  BY <1>1, <1>3, HashedStep DEF SigningInv

\* The inductive invariant of the calls: the client's signatures are of hashes
\* of transactions it approved (tw_bitcoin compiler.rs, tx_signer.rs).
THEOREM SigningInvariant == SigningSpec => []SigningInv
BY SigningInitInv, SigningStep, PTL DEF SigningSpec

\* A returned transaction carries for each of its inputs a signature by the
\* owner of that input, over this transaction.
THEOREM InputsClaimed == SigningSpec => []EveryInputClaimed
<1>1. SigningInv => EveryInputClaimed
  BY DEF SigningInv
<1> QED
  BY <1>1, SigningInvariant, PTL

\* What is compiled is what was signed, if one input commits to all of it.
THEOREM CompiledAsSigned == SigningSpec => []NothingChangedSinceSigned
<1>1. SigningInv => NothingChangedSinceSigned
  BY DEF SigningInv
<1> QED
  BY <1>1, SigningInvariant, PTL

\* The planner keeps its promises whatever calls the client makes.
THEOREM PlansHold ==
    SigningSpec => [](Conserved /\ FeePaysSize /\ NothingDust /\ NoNeedlessInput /\ MaxSpendsAll)
<1>1. SigningInv => Conserved /\ FeePaysSize /\ NothingDust /\ NoNeedlessInput /\ MaxSpendsAll
  BY DEF SigningInv, PlannerInv, NoNeedlessInput, MaxSpendsAll
<1> QED
  BY <1>1, SigningInvariant, PTL
\* The coins of what was hashed.
LEMMA HashedCoins ==
    ASSUME HashedIsPlan
    PROVE  \A i \in DOMAIN hashed.tx.ins : hashed.tx.ins[i] \in Coins
<1>1. CASE hashed.tx = NoTx
  BY <1>1 DEF NoTx
<1>2. ASSUME hashed.request \in Request, NEW S \in SUBSET (DOMAIN hashed.request.inputs),
             hashed.tx.ins = Selected(hashed.request, S)
      PROVE  \A i \in DOMAIN hashed.tx.ins : hashed.tx.ins[i] \in Coins
  BY <1>2, SelectedOnce
<1>3. CASE hashed.tx # NoTx
  <2>1. hashed.request \in Request
    BY <1>3 DEF HashedIsPlan
  <2>2. PICK S \in SUBSET (DOMAIN hashed.request.inputs) :
            hashed.tx = [ins |-> Selected(hashed.request, S),
                         outs |-> Payments(hashed.request, S)]
    BY <1>3 DEF HashedIsPlan
  <2> QED
    BY <1>2, <2>1, <2>2
<1> QED
  BY <1>1, <1>3

\* Types are kept: the client's signatures are by keys of coins.
LEMMA SigningTypeStep == SigningInv /\ SigningTypeOK /\ [SigningNext]_vars => SigningTypeOK'
<1> SUFFICES ASSUME SigningInv, SigningTypeOK, [SigningNext]_vars PROVE SigningTypeOK'
  OBVIOUS
<1>1. SigningInv'
  BY SigningStep
<1>2. TypeOK' /\ DOMAIN hashes' = DOMAIN hashed'.tx.ins
  BY <1>1 DEF SigningInv, PlannerInv, Sighashes
<1>3. op' \in Calls \union {"none"}
  BY DEF SigningTypeOK, SigningNext, vars, signingVars, Call, PlanStep, Failed, ReturnPlan,
     ReturnHashes, ClientSigns, ReturnSigned, ReturnCompiled, Calls
<1>4. \A s \in sigs' : s[1] \in Keys
  <2>1. CASE sigs' = sigs
    BY <2>1 DEF SigningTypeOK
  <2>2. ASSUME NEW i \in DOMAIN hashes, ClientSigns(i)
        PROVE  \A s \in sigs' : s[1] \in Keys
    <3>1. hashed.tx.ins[i] \in Coins
      BY HashedCoins DEF SigningInv, SigningTypeOK
    <3>2. SignedBy(Owner[hashed.tx.ins[i]], hashes[i])[1] \in Keys
      BY <3>1 DEF SignedBy, Keys
    <3> QED
      BY <2>2, <3>2 DEF ClientSigns, SigningTypeOK
  <2> QED
    BY <2>1, <2>2 DEF SigningNext, vars, signingVars, Call, PlanStep, Failed, ReturnPlan,
       ReturnHashes, ReturnSigned, ReturnCompiled
<1>5. DOMAIN tx'.claims = DOMAIN tx'.ins
  <2>1. CASE tx' = tx
    BY <2>1 DEF SigningTypeOK
  <2>2. CASE tx' = NoClaims
    BY <2>2 DEF NoClaims
  <2>3. ASSUME NEW keys, ReturnSigned(keys), tx' # NoClaims
        PROVE  DOMAIN tx'.claims = DOMAIN tx'.ins
    BY <2>3 DEF ReturnSigned
  <2>4. ASSUME NEW s, ReturnCompiled(s), tx' # NoClaims
        PROVE  DOMAIN tx'.claims = DOMAIN tx'.ins
    BY <2>4 DEF ReturnCompiled, Verified
  <2> QED
    BY <2>1, <2>2, <2>3, <2>4 DEF SigningNext, vars, signingVars, Call, PlanStep, Failed,
       ReturnPlan, ReturnHashes, ClientSigns
<1> QED
  BY <1>2, <1>3, <1>4, <1>5 DEF SigningTypeOK

\* Nothing is called yet.
LEMMA SigningTypeInit == SigningInit => SigningTypeOK
<1> SUFFICES ASSUME SigningInit PROVE SigningTypeOK
  OBVIOUS
<1>1. TypeOK
  BY InvariantInit DEF SigningInit, PlannerInv
<1> QED
  BY <1>1 DEF SigningInit, SigningTypeOK, NoTx, NoClaims

\* The types of the calls.
THEOREM SigningTypes == SigningSpec => []SigningTypeOK
BY SigningInvariant, SigningTypeInit, SigningTypeStep, PTL DEF SigningSpec

\* plan, preimage_hashes and compile plan a request in one and the same way, so the
\* signatures of all hashes given out compile into the transaction that was hashed
\* (compiler.rs:113, which plans again).
THEOREM HashesCompile == SigningSpec => SignedHashesCompile
<1>1. ASSUME SigningInv, NEW s \in Offers, ReturnCompiled(s), request = hashed.request,
             s = [i \in DOMAIN hashes |-> SignedBy(Owner[hashed.tx.ins[i]], hashes[i])]
      PROVE  tx'.ins = hashed.tx.ins /\ tx'.outs = hashed.tx.outs
  <2>1. /\ request \in Request /\ Chosen(request, taken)
        /\ outputs = Payments(request, taken)
    BY <1>1 DEF ReturnCompiled, SigningInv, PlannerInv, TypeOK, Selects
  <2>2. request # NoRequest
    BY <2>1, NothingChosen
  <2>3. PICK S \in SUBSET (DOMAIN request.inputs) :
            /\ Chosen(request, S)
            /\ hashed.tx = [ins |-> Selected(request, S), outs |-> Payments(request, S)]
    BY <1>1, <2>2 DEF SigningInv, HashedIsPlan
  <2>4. Planned = hashed.tx
    BY <2>1, <2>3, ChosenOnce DEF Planned
  <2>5. Verified(Planned, s)
    BY <1>1, <2>4 DEF SigningInv, Sighashes, Verified
  <2> QED
    BY <1>1, <2>4, <2>5 DEF ReturnCompiled
<1>2. SigningInv /\ [SigningNext]_vars =>
        [\A s \in Offers :
            /\ ReturnCompiled(s)
            /\ request = hashed.request
            /\ s = [i \in DOMAIN hashes |-> SignedBy(Owner[hashed.tx.ins[i]], hashes[i])]
            => tx'.ins = hashed.tx.ins /\ tx'.outs = hashed.tx.outs]_vars
  BY <1>1
<1> QED
  BY <1>2, SigningInvariant, PTL DEF SigningSpec, SignedHashesCompile
=============================================================================
