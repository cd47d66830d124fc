------------------------------ MODULE MCSolana ------------------------------
EXTENDS SolanaEditing, SolanaBuilder

Input(kind, nonce, price, limit, payer, payerSigns, sponsored) ==
    [kind |-> kind, signer |-> "me", payer |-> payer, payerSigns |-> payerSigns,
     nonce |-> IF kind = "advanceNonce" THEN "nonce" ELSE nonce,
     price |-> price, limit |-> limit, memo |-> sponsored,
     reference |-> IF sponsored THEN "ref" ELSE "none",
     tokenToPayer |-> sponsored, toPayer |-> sponsored]

\* All kinds, with a payer that signs, that signs elsewhere, or is the signer.
Inputs ==
    {Input(kind, nonce, 0, 0, payer, payerSigns, FALSE) :
        kind \in Kinds, nonce \in {"none", "nonce"}, payer \in {"payer"}, payerSigns \in BOOLEAN}
    \union {Input(kind, nonce, price, limit, "none", FALSE, FALSE) :
        kind \in {"transfer", "tokenTransfer"}, nonce \in {"none", "nonce"},
        price \in {0, 1}, limit \in {0, 1}}
    \union {Input(kind, nonce, 1, 0, "payer", FALSE, TRUE) :
        kind \in Kinds, nonce \in {"none", "nonce"}}

\* A transaction from elsewhere, with an account from a lookup table, that two
\* keys are to sign of which the client holds one.
Received ==
    [message |->
        [keys |-> <<"you", "me", "token1", "token">>, loaded |-> <<"pool">>, hash |-> 1,
         signers |-> 2, roSigners |-> 1, roOthers |-> 1,
         ixs |-> <<[program |-> 4, accounts |-> <<3, 5, 2>>, data |-> <<"swap", 0>>]>>],
     asked |->
        <<[program |-> "token",
           accounts |-> <<Writes("token1"), Writes("pool"), SignsOnly("me")>>,
           data |-> <<"swap", 0>>, overtaken |-> FALSE]>>,
     held |-> {"me"}, absent |-> {"you"}]

ASSUME InputsAssumption == Inputs \subseteq SigningInput /\ Elsewhere(Received)

MCBuilt == {FromInput(q, 1) : q \in Inputs} \union {Received}

MCInserts ==
    {Transfer("me", "to", <<>>), Transfer("you", "sponsor", <<>>),
     TransferChecked("token1", "mint", "toToken", "me", <<>>),
     Ix("swap", <<Reads("pool"), SignsOnly("third"), Signs("fourth")>>, "swap"),
     Memo}

MCAddresses ==
    {"me", "you", "payer", "to", "sponsor", "ref", "nonce", "newNonce", "stake1", "stake2",
     "validator", "mint", "token1", "toToken", "feeFrom", "feeMint", "feeTo", "pool",
     "third", "fourth", "swap",
     "system", "budget", "stake", "token", "associated", "memo",
     "blockhashes", "rent", "clock", "history", "config"}
MCData ==
    {"memo", "transfer", "advance", "withdrawNonce", "create", "initNonce", "createSeeded",
     "initStake", "delegate", "deactivate", "withdraw", "createToken", "transferChecked",
     "swap", "price", "limit"} \X {0, 1, 2}
=============================================================================
