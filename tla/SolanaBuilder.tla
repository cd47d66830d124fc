--------------------------- MODULE SolanaBuilder ---------------------------
(***************************************************************************)
(* How a Solana message is built from a signing input (chains/tw_solana:   *)
(* modules/message_builder.rs, modules/instruction_builder, modules/       *)
(* compiled_keys.rs, modules/compiled_instructions.rs).  Amounts are not   *)
(* modelled.  The addresses that a key or a seed determines are data.      *)
(***************************************************************************)
EXTENDS SolanaMessage

\* What the builders name themselves, and the accounts that a key or a seed determines.
NamedAddresses ==
    {System, Budget, "memo", "stake", "token", "associated",
     "blockhashes", "rent", "clock", "history", "config",
     "to", "sponsor", "nonce", "newNonce", "validator", "stake1", "stake2",
     "mint", "token1", "toToken", "feeFrom", "feeMint", "feeTo"}
InstructionNames ==
    {"memo", "transfer", "advance", "withdrawNonce", "create", "initNonce",
     "createSeeded", "initStake", "delegate", "deactivate", "withdraw",
     "createToken", "transferChecked"}

ASSUME BuilderAssumption ==
    /\ NamedAddresses \subseteq Addresses
    /\ InstructionNames \X {0} \subseteq Data

Signs(k) == [key |-> k, signer |-> TRUE, writable |-> TRUE]
SignsOnly(k) == [key |-> k, signer |-> TRUE, writable |-> FALSE]
Writes(k) == [key |-> k, signer |-> FALSE, writable |-> TRUE]
Reads(k) == [key |-> k, signer |-> FALSE, writable |-> FALSE]

Ix(program, accounts, name) ==
    [program |-> program, accounts |-> accounts, data |-> <<name, 0>>]

\* SystemInstructionBuilder, StakeInstructionBuilder, TokenInstructionBuilder
\* and ComputeBudgetInstructionBuilder.
Memo == Ix("memo", <<>>, "memo")
Transfer(from, to, references) ==
    Ix(System, <<Signs(from), Writes(to)>> \o references, "transfer")
AdvanceNonce(nonce, authority) ==
    Ix(System, <<Writes(nonce), Reads("blockhashes"), SignsOnly(authority)>>, "advance")
WithdrawNonce(nonce, authority, to) ==
    Ix(System, <<Writes(nonce), Writes(to), Reads("blockhashes"), Reads("rent"),
                    SignsOnly(authority)>>, "withdrawNonce")
CreateNonce(signer, nonce) ==
    <<Ix(System, <<Signs(signer), Signs(nonce)>>, "create"),
      Ix(System, <<Writes(nonce), Reads("blockhashes"), Reads("rent")>>, "initNonce")>>
DepositStake(signer, validator, stake) ==
    <<Ix(System, <<Signs(signer), Writes(stake), SignsOnly(signer)>>, "createSeeded"),
      Ix("stake", <<Writes(stake), Reads("rent")>>, "initStake"),
      Ix("stake", <<Writes(stake), Reads(validator), Reads("clock"), Reads("history"),
                       Reads("config"), SignsOnly(signer)>>, "delegate")>>
Deactivate(stake, signer) ==
    Ix("stake", <<Writes(stake), Reads("clock"), Signs(signer)>>, "deactivate")
WithdrawStake(stake, signer) ==
    Ix("stake", <<Writes(stake), Writes(signer), Reads("clock"), Reads("history"),
                     SignsOnly(signer)>>, "withdraw")
CreateTokenAccount(funder, owner, mint, account) ==
    Ix("associated", <<Signs(funder), Writes(account), Reads(owner), Reads(mint),
                          Reads(System), Reads("token"), Reads("rent")>>, "createToken")
TransferChecked(from, mint, to, signer, references) ==
    Ix("token", <<Writes(from), Reads(mint), Writes(to), Signs(signer)>> \o references,
          "transferChecked")
SetUnits(kind, units) == [program |-> Budget, accounts |-> <<>>, data |-> <<kind, units>>]
-----------------------------------------------------------------------------
(***************************************************************************)
(* A signing input.  signer is the address of its private key, payer the   *)
(* fee payer or "none", payerSigns whether its key is given too; an option *)
(* that is not set is "none", 0 or FALSE.                                  *)
(***************************************************************************)
StakeKinds == {"delegate", "deactivate", "deactivateAll", "withdraw", "withdrawAll"}
TokenKinds == {"createToken", "tokenTransfer", "createAndTransfer"}
NonceKinds == {"createNonce", "withdrawNonce", "advanceNonce"}
Kinds == {"transfer"} \union StakeKinds \union TokenKinds \union NonceKinds

BudgetUnits(kind) == {u \in Nat : u = 0 \/ <<kind, u>> \in Data}
SigningInput == {q \in
    [kind : Kinds, signer : Addresses, payer : Addresses \union {"none"},
     payerSigns : BOOLEAN, nonce : Addresses \union {"none"},
     price : BudgetUnits("price"), limit : BudgetUnits("limit"), memo : BOOLEAN,
     reference : Addresses \union {"none"}, tokenToPayer : BOOLEAN, toPayer : BOOLEAN] :
    q.kind = "advanceNonce" => q.nonce # "none"}

FeePayer(q) == IF q.payer = "none" THEN q.signer ELSE q.payer

Maybe(condition, ix) == IF condition THEN <<ix>> ELSE <<>>
References(q) == IF q.reference = "none" THEN <<>> ELSE <<Reads(q.reference)>>

\* What every kind of transaction begins with.
Beginning(q) ==
    Maybe(q.tokenToPayer, TransferChecked("feeFrom", "feeMint", "feeTo", q.signer, <<>>))
    \o Maybe(q.nonce # "none", AdvanceNonce(q.nonce, q.signer))
    \o Maybe(q.price > 0, SetUnits("price", q.price))
    \o Maybe(q.limit > 0, SetUnits("limit", q.limit))

\* The *_from_proto functions.
TransferBody(q) ==
    Maybe(q.memo, Memo) \o <<Transfer(q.signer, "to", References(q))>>
StakeBody(q) ==
    CASE q.kind = "delegate" -> DepositStake(q.signer, "validator", "stake1")
      [] q.kind = "deactivate" -> <<Deactivate("stake1", q.signer)>>
      [] q.kind = "deactivateAll" ->
            <<Deactivate("stake1", q.signer), Deactivate("stake2", q.signer)>>
      [] q.kind = "withdraw" -> <<WithdrawStake("stake1", q.signer)>>
      [] q.kind = "withdrawAll" ->
            <<WithdrawStake("stake1", q.signer), WithdrawStake("stake2", q.signer)>>
TokenBody(q) ==
    LET transfer == Maybe(q.memo, Memo)
            \o <<TransferChecked("token1", "mint", "toToken", q.signer, References(q))>>
    IN  CASE q.kind = "createToken" ->
                <<CreateTokenAccount(q.signer, "to", "mint", "toToken")>>
          [] q.kind = "tokenTransfer" -> transfer
          [] q.kind = "createAndTransfer" ->
                <<CreateTokenAccount(FeePayer(q), "to", "mint", "toToken")>> \o transfer
NonceBody(q) ==
    CASE q.kind = "createNonce" -> CreateNonce(q.signer, "newNonce")
      [] q.kind = "withdrawNonce" -> <<WithdrawNonce("nonce", q.signer, "to")>>
      [] q.kind = "advanceNonce" -> <<>>

\* MessageBuilder::build_instructions.
Body(q) ==
    CASE q.kind = "transfer" -> TransferBody(q)
      [] q.kind \in StakeKinds -> StakeBody(q)
      [] q.kind \in TokenKinds -> TokenBody(q)
      [] q.kind \in NonceKinds -> NonceBody(q)

ToPayer(q) == Maybe(q.toPayer, Transfer(q.signer, "sponsor", References(q)))

Instructions(q) == Beginning(q) \o Body(q) \o ToPayer(q)

\* The key of a new nonce account is forgotten.
SigningKeysBug(q) ==
    {q.signer} \union (IF q.payerSigns THEN {FeePayer(q)} ELSE {})
\* MessageBuilder::signing_keys.
SigningKeys(q) ==
    {q.signer}
    \union (IF q.payerSigns THEN {FeePayer(q)} ELSE {})
    \union (IF q.kind = "createNonce" THEN {"newNonce"} ELSE {})
-----------------------------------------------------------------------------
\* CompiledKeys: the keys in the order they are first mentioned, the payer
\* first and the programs last, then in the four groups of the header.
Mentioned(payer, ixs) ==
    {payer}
    \union {ixs[i].program : i \in DOMAIN ixs}
    \union UNION {{a.key : a \in Range(ixs[i].accounts)} : i \in DOMAIN ixs}

\* The first mention: as the payer, as the n-th account of the i-th instruction,
\* or as the program of the i-th.
Uses(ix, k) == {n \in DOMAIN ix.accounts : ix.accounts[n].key = k}
FirstMention(payer, ixs, k) ==
    LET users == {i \in DOMAIN ixs : Uses(ixs[i], k) # {}}
        callers == {i \in DOMAIN ixs : ixs[i].program = k}
    IN  CASE k = payer -> <<0, 0, 0>>
          [] k # payer /\ users # {} -> <<1, Min(users), Min(Uses(ixs[Min(users)], k))>>
          [] OTHER -> <<2, Min(callers), 0>>

Sooner(s, t) ==
    \/ s[1] < t[1]
    \/ s[1] = t[1] /\ s[2] < t[2]
    \/ s[1] = t[1] /\ s[2] = t[2] /\ s[3] < t[3]
MentionOrder(payer, ixs) ==
    {x \in Mentioned(payer, ixs) \X Mentioned(payer, ixs) :
        Sooner(FirstMention(payer, ixs, x[1]), FirstMention(payer, ixs, x[2]))}

\* What is asked of a key; it gets the privileges of all that is.
Metas(ixs, k) ==
    {a \in UNION {Range(ixs[i].accounts) : i \in DOMAIN ixs} : a.key = k}
AskedToSign(payer, ixs, k) == k = payer \/ \E a \in Metas(ixs, k) : a.signer
AskedToWrite(payer, ixs, k) == k = payer \/ \E a \in Metas(ixs, k) : a.writable

Members(payer, ixs, signer, writable) ==
    {k \in Mentioned(payer, ixs) :
        /\ AskedToSign(payer, ixs, k) <=> signer
        /\ AskedToWrite(payer, ixs, k) <=> writable}
Group(payer, ixs, signer, writable) ==
    Listed(Members(payer, ixs, signer, writable), MentionOrder(payer, ixs))

Compile(keys, ix) ==
    [program |-> Position(keys, ix.program),
     accounts |-> [n \in DOMAIN ix.accounts |-> Position(keys, ix.accounts[n].key)],
     data |-> ix.data]

\* MessageBuilder::build.
Build(payer, ixs, hash) ==
    LET writers == Group(payer, ixs, TRUE, TRUE)
        readers == Group(payer, ixs, TRUE, FALSE)
        others == Group(payer, ixs, FALSE, FALSE)
        keys == writers \o readers \o Group(payer, ixs, FALSE, TRUE) \o others
    IN  [keys |-> keys, loaded |-> <<>>, hash |-> hash,
         signers |-> Len(writers) + Len(readers),
         roSigners |-> Len(readers), roOthers |-> Len(others),
         ixs |-> [i \in DOMAIN ixs |-> Compile(keys, ixs[i])]]

AskedBy(ixs) ==
    [i \in DOMAIN ixs |->
        [program |-> ixs[i].program, accounts |-> ixs[i].accounts,
         data |-> ixs[i].data, overtaken |-> FALSE]]

\* What the client has after signing the input: the signature of a payer whose
\* key it does not have is to come from the payer.
FromInput(q, hash) ==
    [message |-> Build(FeePayer(q), Instructions(q), hash),
     asked |-> AskedBy(Instructions(q)),
     held |-> SigningKeys(q),
     absent |-> {FeePayer(q)} \ SigningKeys(q)]
=============================================================================
