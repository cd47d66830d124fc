------------------------------ MODULE Signing ------------------------------
(***************************************************************************)
(* Signing a Bitcoin transaction (chains/tw_bitcoin: planner, compiler,    *)
(* signer; frameworks/tw_utxo: sighash_*.rs, tx_signer.rs, tx_compiler.rs).*)
(*                                                                         *)
(* The library keeps nothing between calls: plan, preimage_hashes, sign    *)
(* and compile each plan the transaction again from their input.  Between  *)
(* preimage_hashes and compile the client may change that input, and it    *)
(* hands in signatures in whatever order.                                  *)
(***************************************************************************)
EXTENDS Planner, Listing, SequencesExt

CONSTANTS
    Owner,         \* Owner[c]: the key that spends coin c
    Scope,         \* Scope[c]: the base of its sighash type
    AnyoneCanPay,  \* AnyoneCanPay[c]: whether that type carries the flag
    ToSign         \* those of the requests that the client may have signed

Keys == {Owner[c] : c \in Coins}
Calls == {"plan", "preimage", "sign", "compile"}

ASSUME SigningAssumption ==
    /\ DOMAIN Owner = Coins
    /\ Scope \in [Coins -> {"all", "none", "single"}]
    /\ AnyoneCanPay \in [Coins -> BOOLEAN]
    /\ ToSign \subseteq Requests

VARIABLES
    op,         \* the call under way
    hashes,     \* the last sighashes given out, in order
    hashed,     \* history: the request and the transaction they are for
    sigs,       \* the signatures the client's keys have made of them
    approved,   \* history: the transactions it signed hashes of
    shown,      \* the plan returned, until the next call
    tx          \* the transaction returned, until the next call

signingVars == <<op, hashes, hashed, sigs, approved, shown, tx>>
vars == <<planVars, signingVars>>

NoTx == [ins |-> <<>>, outs |-> <<>>]
NoClaims == [ins |-> <<>>, outs |-> <<>>, claims |-> <<>>]

SigningInit ==
    /\ Init
    /\ op = "none"
    /\ hashes = <<>> /\ hashed = [request |-> NoRequest, tx |-> NoTx]
    /\ sigs = {} /\ approved = {}
    /\ shown = NoTx /\ tx = NoClaims
-----------------------------------------------------------------------------
\* The planned transaction: its inputs in the order in which they were taken.
OrderOf(q) == {x \in (DOMAIN q.inputs) \X (DOMAIN q.inputs) : Before(q, x[1], x[2])}
Selected(q, S) ==
    [i \in 1 .. Cardinality(S) |-> q.inputs[Listed(S, OrderOf(q))[i]]]
Planned == [ins |-> Selected(request, taken), outs |-> outputs]

Legacy(c) == Witness[c] = 0

\* Which inputs the hash of input i commits to.  The legacy hash has the
\* script at the place of the input signed, so it commits to that place too.
HashedInputs(t, i) ==
    LET coin == t.ins[i]
    IN  IF AnyoneCanPay[coin] THEN <<coin>>
        ELSE IF Legacy(coin) THEN <<t.ins, i>> ELSE <<t.ins, coin>>

\* Without the case of a base that is not "all".
HashedOutputsBug(t, i) == <<>>

\* And which outputs.  With "single" and no output at i, the legacy hash still
\* counts the outputs there are.
HashedOutputs(t, i) ==
    LET coin == t.ins[i]
    IN  CASE Scope[coin] = "all" -> t.outs
          [] Scope[coin] = "single" /\ Legacy(coin) ->
                [j \in 1 .. (IF i < Len(t.outs) THEN i ELSE Len(t.outs)) |->
                    IF j = i THEN t.outs[i] ELSE "blank"]
          [] Scope[coin] = "single" /\ ~Legacy(coin) /\ i <= Len(t.outs) -> <<t.outs[i]>>
          [] OTHER -> <<>>

Sighash(t, i) ==
    [type |-> <<Scope[t.ins[i]], AnyoneCanPay[t.ins[i]]>>,
     ins |-> HashedInputs(t, i), outs |-> HashedOutputs(t, i)]

SignedBy(key, hash) == <<key, hash>>

\* In the order of the request's inputs, not of the transaction's.
SighashesBug(t) ==
    [i \in DOMAIN t.ins |-> Sighash(t, Len(t.ins) + 1 - i)]
\* SighashComputer::preimage_tx: one for every input, in order.
Sighashes(t) == [i \in DOMAIN t.ins |-> Sighash(t, i)]

\* Every signature verifies against some input.
VerifiedBug(t, s) ==
    /\ DOMAIN s = DOMAIN t.ins
    /\ \A i \in DOMAIN s : \E j \in DOMAIN t.ins :
            s[i] = SignedBy(Owner[t.ins[j]], Sighash(t, j))
\* SighashVerifier::verify_signatures: one for every input, each against its own.
Verified(t, s) ==
    /\ DOMAIN s = DOMAIN t.ins
    /\ \A i \in DOMAIN s : s[i] = SignedBy(Owner[t.ins[i]], Sighash(t, i))
-----------------------------------------------------------------------------
Call(o, q) ==
    /\ Begin(q)
    /\ op' = o
    /\ shown' = NoTx /\ tx' = NoClaims
    /\ UNCHANGED <<hashes, hashed, sigs, approved>>

\* A bound: a request that the client only plans is its first.
Fresh == hashes = <<>> /\ shown = NoTx /\ tx = NoClaims

PlanStep == Plan /\ UNCHANGED signingVars

\* The planning failed, and so does the call.
Failed ==
    /\ pc = "failed"
    /\ Return
    /\ op' = "none"
    /\ UNCHANGED <<hashes, hashed, sigs, approved, shown, tx>>

\* Two of the inputs offered have the same outpoint.
Duplicates(q) == ~IsInjective(q.inputs)

\* plan: a request with duplicates is refused once it is planned.
ReturnPlan ==
    /\ pc = "planned" /\ op = "plan"
    /\ Return
    /\ op' = "none"
    /\ shown' = IF Duplicates(request) THEN NoTx ELSE Planned
    /\ UNCHANGED <<hashes, hashed, sigs, approved, tx>>

ReturnHashes ==
    /\ pc = "planned" /\ op = "preimage"
    /\ Return
    /\ op' = "none"
    /\ hashes' = Sighashes(Planned)
    /\ hashed' = [request |-> request, tx |-> Planned]
    /\ UNCHANGED <<sigs, approved, shown, tx>>

\* The client signs one of the hashes with the key it belongs to.
ClientSigns(i) ==
    /\ op = "none" /\ i \in DOMAIN hashes
    /\ sigs' = sigs \union {SignedBy(Owner[hashed.tx.ins[i]], hashes[i])}
    /\ approved' = approved \union {hashed.tx}
    /\ UNCHANGED <<planVars, op, hashes, hashed, shown, tx>>

\* sign: a missing key fails the call.
ReturnSigned(keys) ==
    LET t == Planned
        claims == [i \in DOMAIN t.ins |-> SignedBy(Owner[t.ins[i]], Sighashes(t)[i])]
    IN  /\ pc = "planned" /\ op = "sign"
        /\ Return
        /\ op' = "none"
        /\ tx' = IF \A i \in DOMAIN t.ins : Owner[t.ins[i]] \in keys
                 THEN [ins |-> t.ins, outs |-> t.outs, claims |-> claims]
                 ELSE NoClaims
        /\ approved' = IF tx' = NoClaims THEN approved ELSE approved \union {t}
        /\ UNCHANGED <<hashes, hashed, sigs, shown>>

\* compile: the signatures are verified against the transaction planned now.
ReturnCompiled(s) ==
    LET t == Planned
    IN  /\ pc = "planned" /\ op = "compile"
        /\ Return
        /\ op' = "none"
        /\ tx' = IF Verified(t, s)
                 THEN [ins |-> t.ins, outs |-> t.outs, claims |-> s]
                 ELSE NoClaims
        /\ UNCHANGED <<hashes, hashed, sigs, approved, shown>>

\* What the client may hand in: any of its signatures, in any order.
Offers == UNION {[1 .. n -> sigs] : n \in 0 .. Len(request.inputs)}

SigningNext ==
    \/ Fresh /\ \E q \in Requests : Call("plan", q)
    \/ \E o \in Calls, q \in ToSign : Call(o, q)
    \/ PlanStep
    \/ Failed
    \/ ReturnPlan
    \/ ReturnHashes
    \/ \E i \in DOMAIN hashes : ClientSigns(i)
    \/ \E keys \in SUBSET Keys : ReturnSigned(keys)
    \/ \E s \in Offers : ReturnCompiled(s)

SigningSpec == SigningInit /\ [][SigningNext]_vars
-----------------------------------------------------------------------------
(***************************************************************************)
(* Properties.                                                             *)
(***************************************************************************)
SigningTypeOK ==
    /\ TypeOK
    /\ op \in Calls \union {"none"}
    /\ DOMAIN hashes = DOMAIN hashed.tx.ins
    /\ \A s \in sigs : s[1] \in Keys
    /\ DOMAIN tx.claims = DOMAIN tx.ins

\* A returned transaction carries for each of its inputs a signature by the
\* owner of that very input, over this transaction: signatures in another
\* order or of an earlier plan never get into it.
EveryInputClaimed ==
    \A i \in DOMAIN tx.ins :
        tx.claims[i] = SignedBy(Owner[tx.ins[i]], Sighash(tx, i))

\* If one of its inputs commits to all inputs and outputs, a returned
\* transaction is one whose hashes the client signed, whatever it did to the
\* request between preimage_hashes and compile.
NothingChangedSinceSigned ==
    (\E i \in DOMAIN tx.ins : Scope[tx.ins[i]] = "all" /\ ~AnyoneCanPay[tx.ins[i]])
        => [ins |-> tx.ins, outs |-> tx.outs] \in approved

\* Signatures of all hashes, handed in as they came, compile as long as the
\* request is the same.
SignedHashesCompile ==
    [][\A s \in Offers :
        /\ ReturnCompiled(s)
        /\ request = hashed.request
        /\ s = [i \in DOMAIN hashes |-> SignedBy(Owner[hashed.tx.ins[i]], hashes[i])]
        => tx'.ins = hashed.tx.ins /\ tx'.outs = hashed.tx.outs]_vars
-----------------------------------------------------------------------------
(***************************************************************************)
(* The inductive invariant.                                                *)
(***************************************************************************)
\* The client has a signature only of a hash of a transaction it approved.
SignaturesApproved ==
    \A s \in sigs : \E t \in approved : \E i \in DOMAIN t.ins :
        s = SignedBy(Owner[t.ins[i]], Sighash(t, i))

\* The hashes last given out are of what was planned for the request.
HashedIsPlan ==
    \/ hashed.request = NoRequest /\ hashed.tx = NoTx
    \/ /\ hashed.request \in Request
       /\ \E S \in SUBSET (DOMAIN hashed.request.inputs) :
            /\ Chosen(hashed.request, S)
            /\ hashed.tx = [ins |-> Selected(hashed.request, S),
                            outs |-> Payments(hashed.request, S)]

SigningInv ==
    /\ PlannerInv
    /\ HashedIsPlan
    /\ hashes = Sighashes(hashed.tx)
    /\ \A t \in approved \union {hashed.tx} : t = [ins |-> t.ins, outs |-> t.outs]
    /\ SignaturesApproved
    /\ EveryInputClaimed
    /\ NothingChangedSinceSigned
=============================================================================
