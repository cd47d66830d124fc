--------------------------- MODULE SolanaEditing ---------------------------
(***************************************************************************)
(* A Solana transaction in a client's hands (chains/tw_solana: modules/    *)
(* utils.rs, insert_instruction.rs, tx_signer.rs, and signer.rs,           *)
(* compiler.rs).  The client gets it from a builder or from elsewhere, then*)
(* changes it, signs it again or adds a signature by calls that decode it, *)
(* change the copy and give the copy back.  A call that fails gives nothing*)
(* back.                                                                   *)
(*                                                                         *)
(* insert_instruction adds the accounts of the new instruction one by one; *)
(* the loop is modelled turn by turn.                                      *)
(***************************************************************************)
EXTENDS SolanaMessage

CONSTANTS
    Built,           \* [message, asked, held, absent]: what a client may start from
    Inserts,         \* instructions a client inserts
    NewPayers,       \* fee payers a client sets
    Blockhashes,
    BudgetValues,           \* compute unit prices and limits
    MaxInstructions  \* bound: instructions of a transaction

ASSUME SolanaAssumption ==
    /\ {System, Budget} \subseteq Addresses /\ Advance \in Data
    /\ \A u \in BudgetValues : {<<"price", u>>, <<"limit", u>>} \subseteq Data
    /\ Inserts \subseteq Instruction
    /\ NewPayers \subseteq Addresses
    /\ Blockhashes \subseteq Nat

VARIABLES
    message,   \* the message of the transaction
    slots,     \* its signatures, one slot for every signer
    asked,     \* what each of its instructions was asked to be
    at,        \* where an instruction is being inserted, or 0
    inserting, \* that instruction
    work,      \* the copy being changed
    collected, \* the indices found so far for its accounts
    overtaken  \* an account was put before one of them

solanaVars == <<message, slots, asked, at, inserting, work, collected, overtaken>>
insertVars == <<at, inserting, work, collected, overtaken>>

NoInstruction == [program |-> System, accounts |-> <<>>, data |-> Advance]
Zero == [by |-> "nobody", over |-> NoMessage]
Zeros(m) == [i \in 1 .. m.signers |-> Zero]

SolanaInit ==
    /\ message = NoMessage
    /\ slots = <<>> /\ asked = <<>>
    /\ at = 0 /\ inserting = NoInstruction
    /\ work = NoMessage /\ collected = <<>> /\ overtaken = FALSE

Have == message # NoMessage
Idle == Have /\ at = 0
-----------------------------------------------------------------------------
SignerKeys(m) == {m.keys[i] : i \in 1 .. m.signers}

\* In the opposite order.
SignedBug(m, held) ==
    [i \in 1 .. m.signers |->
        IF m.keys[i] \in held
        THEN [by |-> m.keys[m.signers + 1 - i], over |-> m] ELSE Zero]
\* TxSigner::compile_versioned puts a signature where its key is in the list; a
\* key that is not among the signers is an error.
Signed(m, held) ==
    [i \in 1 .. m.signers |->
        IF m.keys[i] \in held THEN [by |-> m.keys[i], over |-> m] ELSE Zero]

Obtain ==
    /\ ~Have
    /\ \E b \in Built :
        /\ b.held \subseteq SignerKeys(b.message)
        /\ message' = b.message
        /\ asked' = b.asked
        /\ slots' = Signed(b.message, b.held)
    /\ UNCHANGED insertVars

\* update_blockhash_and_sign; with no key the slots are zeroed.
Resign(hash, held) ==
    /\ Idle
    /\ held \subseteq SignerKeys(message)
    /\ LET m == [message EXCEPT !.hash = hash]
       IN  /\ message' = m
           /\ slots' = Signed(m, held)
    /\ UNCHANGED <<asked, insertVars>>

\* SolanaTransactionDecoder gives back the message and its signatures, and
\* sign_impl or compile_impl of that raw message keeps them, however old, and puts
\* one more in its slot; compile_impl also takes zeroes for a signature.
Cosign(k, signature) ==
    /\ Idle
    /\ k \in SignerKeys(message)
    /\ slots' = [slots EXCEPT ![Position(message.keys, k)] = signature]
    /\ UNCHANGED <<message, asked, insertVars>>

\* MessageDecompiler: every program must be in the list of keys.
Decompiles(m) == \A i \in DOMAIN m.ixs : m.ixs[i].program <= Len(m.keys)

\* The budget instructions of one kind, "price" or "limit".
Budgets(m, kind) ==
    {i \in DOMAIN m.ixs : m.keys[m.ixs[i].program] = Budget /\ m.ixs[i].data[1] = kind}

AdvancesNonce(m) ==
    /\ m.ixs # <<>>
    /\ m.keys[m.ixs[1].program] = System
    /\ m.ixs[1].data = Advance

\* set_compute_unit_price and set_compute_unit_limit: the first instruction of
\* the kind gets the new data, or one is inserted.  The signatures stay.
SetBudget(kind, units, where) ==
    /\ Idle
    /\ Decompiles(message)
    /\ LET found == Budgets(message, kind)
           data == <<kind, units>>
       IN  IF found # {}
           THEN /\ message' = [message EXCEPT !.ixs[Min(found)].data = data]
                /\ asked' = [asked EXCEPT ![Min(found)].data = data]
           ELSE /\ Len(message.ixs) < MaxInstructions
                /\ message' = WithInstruction(message, where, Budget, <<>>, data)
                /\ asked' = InsertAt(asked, where,
                        [program |-> Budget, accounts |-> <<>>, data |-> data,
                         overtaken |-> FALSE])
    /\ UNCHANGED <<slots, insertVars>>

SetPrice(units) == SetBudget("price", units, Len(message.ixs) + 1)

LimitPlaceBug(m) == 1
\* The limit comes first, but never before an advance of the nonce.
LimitPlace(m) == IF AdvancesNonce(m) THEN 2 ELSE 1
SetLimit(units) == SetBudget("limit", units, LimitPlace(message))

SetFeePayer(k) ==
    /\ Idle
    /\ ~Known(message, k)
    /\ message' = WithPayer(message, k)
    /\ slots' = Zeros(WithPayer(message, k))
    /\ UNCHANGED <<asked, insertVars>>
-----------------------------------------------------------------------------
\* insert_instruction and insert_transfer_instruction.
BeginInsert(ix, i) ==
    /\ Idle
    /\ Len(message.ixs) < MaxInstructions
    /\ i \in 1 .. Len(message.ixs) + 1
    /\ at' = i /\ inserting' = ix
    /\ work' = message /\ collected' = <<>> /\ overtaken' = FALSE
    /\ UNCHANGED <<message, slots, asked>>

Next1 == inserting.accounts[Len(collected) + 1]

\* push_account finds the account, or adds it and moves the indices of the
\* instructions that are there.
PushAccount ==
    /\ at > 0
    /\ Len(collected) < Len(inserting.accounts)
    /\ ~Refused(work, Next1)
    /\ IF Known(work, Next1.key)
       THEN /\ collected' = Append(collected, Position(work.keys, Next1.key))
            /\ UNCHANGED <<work, overtaken>>
       ELSE /\ work' = WithAccount(work, Next1)
            /\ collected' = Append(collected, Place(work, Next1))
            /\ overtaken' = \/ overtaken
                            \/ \E n \in DOMAIN collected : collected[n] >= Place(work, Next1)
    /\ UNCHANGED <<message, slots, asked, at, inserting>>

Reset ==
    /\ at' = 0 /\ inserting' = NoInstruction
    /\ work' = NoMessage /\ collected' = <<>> /\ overtaken' = FALSE

RefuseAccount ==
    /\ at > 0
    /\ Len(collected) < Len(inserting.accounts)
    /\ Refused(work, Next1)
    /\ Reset
    /\ UNCHANGED <<message, slots, asked>>

FinishInsert ==
    /\ at > 0
    /\ Len(collected) = Len(inserting.accounts)
    /\ message' = WithInstruction(work, at, inserting.program, collected, inserting.data)
    /\ asked' = InsertAt(asked, at,
            [program |-> inserting.program, accounts |-> inserting.accounts,
             data |-> inserting.data, overtaken |-> overtaken])
    /\ slots' = Zeros(message')
    /\ Reset

SolanaNext ==
    \/ Obtain
    \/ \E hash \in Blockhashes, held \in SUBSET SignerKeys(message) : Resign(hash, held)
    \/ \E k \in SignerKeys(message) :
        Cosign(k, [by |-> k, over |-> message]) \/ Cosign(k, Zero)
    \/ \E units \in BudgetValues : SetPrice(units) \/ SetLimit(units)
    \/ \E k \in NewPayers : SetFeePayer(k)
    \/ \E ix \in Inserts, i \in 1 .. MaxInstructions : BeginInsert(ix, i)
    \/ PushAccount
    \/ RefuseAccount
    \/ FinishInsert

SolanaSpec == SolanaInit /\ [][SolanaNext]_solanaVars
-----------------------------------------------------------------------------
(***************************************************************************)
(* Properties.                                                             *)
(***************************************************************************)

\* The header describes the list of keys, keys are distinct, the first pays the
\* fee, and every index points into the list.
Sound(m) ==
    /\ m.roSigners < m.signers
    /\ m.signers + m.roOthers <= Len(m.keys)
    /\ \A i, j \in DOMAIN m.keys : m.keys[i] = m.keys[j] => i = j
    /\ \A i \in DOMAIN m.ixs :
        /\ m.ixs[i].program \in 1 .. Len(m.keys)
        /\ \A n \in DOMAIN m.ixs[i].accounts :
            m.ixs[i].accounts[n] \in 1 .. Len(m.keys) + Len(m.loaded)

Asked == [program : Addresses, accounts : Seq(AccountMeta), data : Data,
          overtaken : BOOLEAN]

SolanaTypeOK ==
    /\ message \in Message /\ work \in Message
    /\ Have => Sound(message)
    /\ at > 0 => Sound(work)
    /\ slots \in Seq([by : Addresses \union {"nobody"}, over : Message])
    /\ asked \in Seq(Asked) /\ Len(asked) = Len(message.ixs)
    /\ at \in 0 .. Len(message.ixs) + 1
    /\ inserting \in Instruction
    /\ collected \in Seq(Nat) /\ Len(collected) <= Len(inserting.accounts)
    /\ overtaken \in BOOLEAN

\* The instruction an entry of asked names, without privileges.
Plain(e) ==
    [program |-> e.program,
     accounts |-> [j \in DOMAIN e.accounts |-> e.accounts[j].key],
     data |-> e.data]

\* What the instructions of a message were asked to be is what they are.
MeansAsked(m, list) ==
    \A i \in DOMAIN m.ixs :
        LET meaning == Meaning(m, m.ixs[i])
        IN  /\ meaning.program = list[i].program
            /\ meaning.data = list[i].data
            /\ ~list[i].overtaken => meaning = Plain(list[i])

\* Through every edit an instruction names the program and the accounts it was
\* asked to name, although their indices move; only an instruction one of whose
\* accounts was put before one found earlier may name others, never another
\* program.
MeansAsAsked == MeansAsked(message, asked)

\* insert_instruction.rs:115, "Returns the index of the account in the account
\* list.": an inserted instruction names the accounts it was given.
NewMeansAsked ==
    \A i \in DOMAIN message.ixs :
        Meaning(message, message.ixs[i]) = Plain(asked[i])

\* An account has at least the privileges that are asked for, or comes from a
\* lookup table.
Granted(m, a) ==
    \/ \E i \in DOMAIN m.keys :
        /\ m.keys[i] = a.key
        /\ a.signer => IsSigner(m, i)
        /\ a.writable => IsWritable(m, i)
    \/ \E i \in DOMAIN m.loaded : m.loaded[i] = a.key
AllGranted(m, list) ==
    \A i \in DOMAIN list : \A n \in DOMAIN list[i].accounts :
        Granted(m, list[i].accounts[n])

\* Every account an instruction was given has at least the privileges it was
\* given with, unless it comes from a lookup table.
PrivilegesEnough == AllGranted(message, asked)

\* An edit gives no account of a message more or fewer privileges, and makes no
\* account that is there the one that pays.
SamePrivileges(m, w) ==
    /\ \A i \in DOMAIN m.keys : \E j \in DOMAIN w.keys :
        /\ w.keys[j] = m.keys[i]
        /\ IsSigner(w, j) <=> IsSigner(m, i)
        /\ IsWritable(w, j) <=> IsWritable(m, i)
    /\ Known(m, w.keys[1]) => w.keys[1] = m.keys[1]
PrivilegesKept == [][Have => SamePrivileges(message, message')]_solanaVars

\* The instructions that are not compute budget, in their order, and what they mean.
Lasting(m) == {i \in DOMAIN m.ixs : AddressAt(m, m.ixs[i].program) # Budget}
Rising(S) == {x \in S \X S : x[1] < x[2]}
Core(m) ==
    LET places == Listed(Lasting(m), Rising(Lasting(m)))
    IN  [n \in 1 .. Cardinality(Lasting(m)) |-> Meaning(m, m.ixs[places[n]])]

\* There is a slot for every signer and its signature is that signer's; one
\* that an edit left in place covers the message but for its compute budget.
SignaturesFit ==
    /\ Len(slots) = message.signers
    /\ \A i \in DOMAIN slots :
        slots[i] # Zero =>
            /\ slots[i].by = message.keys[i]
            /\ Core(slots[i].over) = Core(message)
            /\ slots[i].over.hash = message.hash

\* A signed transaction lacks only the signatures that are to come from others.
OthersSign ==
    [][~Have /\ Have' => \E b \in Built :
            /\ b.message = message'
            /\ \A i \in DOMAIN slots' :
                slots'[i] = Zero <=> message'.keys[i] \in b.absent]_solanaVars

\* utils.rs:152, "`SystemInstruction::AdvanceNonceAccount` must be the first
\* instruction": a transaction with a nonce starts with its advance, unless the
\* builder put a token transfer to the fee payer before it, and setting the
\* compute budget or the payer leaves it first; only the client's own
\* instruction may come before it.
NonceStaysFirst ==
    [][IF Have
       THEN AdvancesNonce(message) /\ at # 1 => AdvancesNonce(message')
       ELSE Have' /\ (\E i \in DOMAIN message'.ixs : message'.ixs[i].data = Advance) =>
                AdvancesNonce(message') \/ asked'[1].data[1] = "transferChecked"]_solanaVars
-----------------------------------------------------------------------------
(***************************************************************************)
(* The inductive invariant.                                                *)
(***************************************************************************)
\* What the client starts from, built by MessageBuilder or received, is a
\* message whose indices are right.
Startable(b) ==
    /\ b.message \in Message /\ b.message # NoMessage /\ Sound(b.message)
    /\ b.asked \in Seq(Asked) /\ Len(b.asked) = Len(b.message.ixs)
    /\ MeansAsked(b.message, b.asked) /\ AllGranted(b.message, b.asked)

ASSUME BuiltAssumption == \A b \in Built : Startable(b)

\* What was received: the signatures of all others are still to come, and a nonce is
\* advanced first if at all.
Elsewhere(b) ==
    /\ b.absent = SignerKeys(b.message) \ b.held
    /\ (\E i \in DOMAIN b.message.ixs : b.message.ixs[i].data = Advance) =>
            AdvancesNonce(b.message)

\* The copy still says what the message says, and the accounts found so far are
\* those asked for, unless one was overtaken.
Copied ==
    /\ Len(work.ixs) = Len(asked) /\ Len(work.keys) >= Len(message.keys)
    /\ SamePrivileges(message, work)
    /\ MeansAsked(work, asked) /\ AllGranted(work, asked)
    /\ \A n \in DOMAIN collected :
        /\ collected[n] \in 1 .. Len(work.keys)
        /\ ~overtaken => work.keys[collected[n]] = inserting.accounts[n].key
        /\ Granted(work, inserting.accounts[n])

SolanaInv ==
    /\ SolanaTypeOK
    /\ MeansAsAsked
    /\ PrivilegesEnough
    /\ SignaturesFit
    /\ at > 0 => Have /\ Copied
=============================================================================
