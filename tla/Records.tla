------------------------------ MODULE Records ------------------------------
(***************************************************************************)
(* What a user submits (identity checks, support tickets, deposits), the   *)
(* company wallet a deposit is sent to, and the transaction that deletes   *)
(* the user under all of it (modules/kyc, modules/support,                 *)
(* modules/payments, modules/admin, lib/ensure-company-wallets.ts,         *)
(* lib/delete-user.ts).                                                    *)
(*                                                                         *)
(* One user and one pair of asset and network: no statement here touches   *)
(* the rows of two.  The deletion is a transaction of one statement per    *)
(* table at READ COMMITTED: each sees what is committed when it runs, the  *)
(* others see nothing of it before it commits, and an update of a row it   *)
(* has deleted waits for it.                                               *)
(***************************************************************************)
EXTENDS Naturals, Sequences, FiniteSets

CONSTANTS
    Rows,         \* ids of rows
    Requests,     \* requests the process can have in flight
    Addresses,    \* addresses an administrator may type
    Placeholder,  \* "PENDING_ADMIN_CONFIGURATION"
    Generated,    \* any address of the crypto provider
    None

ASSUME RecordsAssumption ==
    /\ Placeholder # None /\ Generated # None /\ Placeholder # Generated
    /\ Addresses \intersect {Placeholder, Generated, None} = {}
    /\ None \notin Rows

VARIABLES
    user,       \* "live" or "gone"
    rows,       \* tables Deposit, KycCheck, SupportTicket with their audit entry
    wallet,     \* the row of CompanyWalletAddress
    deletion,   \* the deletion's transaction
    requests,   \* the handlers' local variables
    ensuring,   \* a starting process is about to create the wallet
    overtaken   \* history: requests whose premise another has changed

vars == <<user, rows, wallet, deletion, requests, ensuring, overtaken>>

\* log: the audit entry about the row, by the user or with its actor set null.
Row == [kind : {"none", "deposit", "kyc", "ticket"},
        status : {"none", "PENDING", "APPROVED", "REJECTED", "OPEN", "ANSWERED"},
        address : Addresses \union {Placeholder, Generated, None},
        log : {"none", "user", "anonymous"}]
NoRow == [kind |-> "none", status |-> "none", address |-> None, log |-> "none"]

\* typed, as history: an administrator has entered the address.
Wallet == [exists : BOOLEAN, address : Addresses \union {Placeholder, None},
           isActive : BOOLEAN, typed : BOOLEAN]
NoWallet == [exists |-> FALSE, address |-> None, isActive |-> FALSE, typed |-> FALSE]

\* deleteMany by deleteMany; the user's own row comes last.
Tables == <<"deposit", "ticket", "kyc", "log">>
UserRow == Len(Tables) + 1
Deletion == [step : 0 .. UserRow, rows : SUBSET Rows, logs : SUBSET Rows]
NoDeletion == [step |-> 0, rows |-> {}, logs |-> {}]

Request == [op : {"idle", "submit", "manual", "deposit", "decide"},
            pc : {"idle", "wallet", "create", "log", "decide"},
            row : Rows \union {None},
            address : Addresses \union {Placeholder, Generated, None}]
Idle == [op |-> "idle", pc |-> "idle", row |-> None, address |-> None]

TypeOK ==
    /\ user \in {"live", "gone"}
    /\ rows \in [Rows -> Row]
    /\ wallet \in Wallet
    /\ deletion \in Deletion
    /\ requests \in [Requests -> Request]
    /\ ensuring \in BOOLEAN
    /\ overtaken \subseteq Requests

Init ==
    /\ user = "live"
    /\ rows = [x \in Rows |-> NoRow]
    /\ wallet = NoWallet
    /\ deletion = NoDeletion
    /\ requests = [r \in Requests |-> Idle]
    /\ ensuring = FALSE
    /\ overtaken = {}
-----------------------------------------------------------------------------
RowsOf(kind) == {x \in Rows : rows[x].kind = kind}
Pending == {x \in RowsOf("kyc") : rows[x].status = "PENDING"}

\* The address a deposit is to be sent to now.
Offer == IF wallet.exists /\ wallet.isActive THEN wallet.address ELSE Generated

At(r, pc) == requests[r].pc = pc
Become(r, x) == requests' = [requests EXCEPT ![r] = x]

\* What the row a request is about to create was decided on.
Premise(r) ==
    CASE requests[r].op = "submit" /\ requests[r].pc = "create" -> Pending
      [] requests[r].op = "deposit" -> Offer
      [] OTHER -> None

Track == overtaken' = {r \in Requests :
            /\ requests'[r].pc \in {"wallet", "create"}
            /\ \/ r \in overtaken
               \/ requests'[r] = requests[r] /\ Premise(r)' # Premise(r)}

\* Every row refers to the user's, which must be there.
InsertBug(x, row) == rows[x].kind = "none" /\ rows' = [rows EXCEPT ![x] = row]
Insert(x, row) ==
    /\ user = "live"
    /\ rows[x].kind = "none"
    /\ rows' = [rows EXCEPT ![x] = row]

\* Nobody has deleted the row, committed or not.
Settled(x) == x \notin deletion.rows
-----------------------------------------------------------------------------
(***************************************************************************)
(* Identity checks and tickets.                                            *)
(***************************************************************************)
\* Looking for a check in another status.
NothingPendingBug == \A x \in RowsOf("kyc") : rows[x].status # "REJECTED"
NothingPending == Pending = {}

\* POST /kyc/submit: no check of the user is pending.
BeginSubmit(r) ==
    /\ At(r, "idle") /\ user = "live"
    /\ NothingPending
    /\ Become(r, [Idle EXCEPT !.op = "submit", !.pc = "create"])
    /\ UNCHANGED <<user, rows, wallet, deletion, ensuring>>
    /\ Track

\* POST /kyc/manual looks at nothing.
BeginManual(r) ==
    /\ At(r, "idle") /\ user = "live"
    /\ Become(r, [Idle EXCEPT !.op = "manual", !.pc = "create"])
    /\ UNCHANGED <<user, rows, wallet, deletion, ensuring>>
    /\ Track

CreateCheck(r, x) ==
    /\ At(r, "create") /\ requests[r].op \in {"submit", "manual"}
    /\ Insert(x, [NoRow EXCEPT !.kind = "kyc", !.status = "PENDING"])
    /\ Become(r, IF requests[r].op = "submit"
                 THEN [requests[r] EXCEPT !.pc = "log", !.row = x] ELSE Idle)
    /\ UNCHANGED <<user, wallet, deletion, ensuring>>
    /\ Track

\* The profile, the notification, and the audit entry.
LogCheck(r) ==
    /\ At(r, "log") /\ user = "live"
    /\ rows' = [rows EXCEPT ![requests[r].row].log = "user"]
    /\ Become(r, Idle)
    /\ UNCHANGED <<user, wallet, deletion, ensuring>>
    /\ Track

\* PATCH /admin/kyc/:id/decision finds the check ...
BeginDecide(r, x) ==
    /\ At(r, "idle")
    /\ rows[x].kind = "kyc"
    /\ Become(r, [Idle EXCEPT !.op = "decide", !.pc = "decide", !.row = x])
    /\ UNCHANGED <<user, rows, wallet, deletion, ensuring>>
    /\ Track

\* ... and writes any status over the one it has.
Decide(r, status) ==
    LET x == requests[r].row IN
    /\ At(r, "decide")
    /\ rows[x].kind = "kyc" /\ Settled(x)
    /\ rows' = [rows EXCEPT ![x].status = status]
    /\ Become(r, Idle)
    /\ UNCHANGED <<user, wallet, deletion, ensuring>>
    /\ Track

\* POST /support/tickets.
CreateTicket(x) ==
    /\ Insert(x, [NoRow EXCEPT !.kind = "ticket", !.status = "OPEN", !.log = "user"])
    /\ UNCHANGED <<user, wallet, deletion, requests, ensuring>>
    /\ Track

\* PATCH /admin/support/tickets/:id.
AnswerTicket(x) ==
    /\ rows[x].kind = "ticket" /\ Settled(x)
    /\ rows' = [rows EXCEPT ![x].status = "ANSWERED"]
    /\ UNCHANGED <<user, wallet, deletion, requests, ensuring>>
    /\ Track
-----------------------------------------------------------------------------
(***************************************************************************)
(* Company wallets and deposits.                                           *)
(***************************************************************************)
\* ensureCompanyWallets, when a process starts: the wallet is not there ...
FindNoWallet ==
    /\ ~wallet.exists /\ ~ensuring
    /\ ensuring' = TRUE
    /\ UNCHANGED <<user, rows, wallet, deletion, requests>>
    /\ Track

\* ... and is created, unless another process or an administrator was faster.
PlaceholderSavedBug == TRUE
PlaceholderSaved == ~wallet.exists

CreatePlaceholder ==
    /\ ensuring
    /\ ensuring' = FALSE
    /\ wallet' = IF PlaceholderSaved
                 THEN [exists |-> TRUE, address |-> Placeholder, isActive |-> TRUE,
                       typed |-> FALSE]
                 ELSE wallet
    /\ UNCHANGED <<user, rows, deletion, requests>>
    /\ Track

\* POST /admin/company-wallets, an upsert; isActive may be left out.
SaveWallet(a, isActive) ==
    /\ wallet' = [exists |-> TRUE, address |-> a, typed |-> TRUE,
                  isActive |-> IF isActive # None THEN isActive
                               ELSE wallet.exists => wallet.isActive]
    /\ UNCHANGED <<user, rows, deletion, requests, ensuring>>
    /\ Track

\* PATCH /admin/company-wallets/:id: each field may be left out.
PatchWallet(a, isActive) ==
    /\ wallet.exists
    /\ wallet' = [wallet EXCEPT !.address = IF a # None THEN a ELSE @,
                                !.typed = @ \/ a # None,
                                !.isActive = IF isActive # None THEN isActive ELSE @]
    /\ UNCHANGED <<user, rows, deletion, requests, ensuring>>
    /\ Track

\* POST /payments/deposits/manual: the active wallet, else the provider's
\* address; the wallet is then looked up again by its id.
FoundBug == wallet.exists
Found == wallet.exists /\ wallet.isActive

BeginDeposit(r) ==
    /\ At(r, "idle") /\ user = "live"
    /\ Become(r, [Idle EXCEPT !.op = "deposit",
                  !.pc = IF Found THEN "wallet" ELSE "create",
                  !.address = IF Found THEN wallet.address ELSE Generated])
    /\ UNCHANGED <<user, rows, wallet, deletion, ensuring>>
    /\ Track

CheckWallet(r) ==
    /\ At(r, "wallet")
    /\ wallet.exists
    /\ Become(r, [requests[r] EXCEPT !.pc = "create"])
    /\ UNCHANGED <<user, rows, wallet, deletion, ensuring>>
    /\ Track

CreateDeposit(r, x) ==
    /\ At(r, "create") /\ requests[r].op = "deposit"
    /\ Insert(x, [kind |-> "deposit", status |-> "PENDING",
                  address |-> requests[r].address, log |-> "user"])
    /\ Become(r, Idle)
    /\ UNCHANGED <<user, wallet, deletion, ensuring>>
    /\ Track
-----------------------------------------------------------------------------
(***************************************************************************)
(* Deleting the user.                                                      *)
(***************************************************************************)
BeginDeletion ==
    /\ user = "live" /\ deletion.step = 0
    /\ deletion' = [deletion EXCEPT !.step = 1]
    /\ UNCHANGED <<user, rows, wallet, requests, ensuring>>
    /\ Track

\* deleteMany on the next table.
DeleteTable ==
    /\ deletion.step \in DOMAIN Tables
    /\ LET t == Tables[deletion.step] IN
       deletion' = [step |-> deletion.step + 1,
                    rows |-> deletion.rows \union RowsOf(t),
                    logs |-> deletion.logs \union
                             IF t = "log" THEN {x \in Rows : rows[x].log = "user"} ELSE {}]
    /\ UNCHANGED <<user, rows, wallet, requests, ensuring>>
    /\ Track

\* onDelete: Restrict.  A deposit committed after its table was cleared.
RestrictedBug == {}
Restricted == RowsOf("deposit") \ deletion.rows

\* onDelete: SetNull.
LogAfter(x) ==
    IF rows[x].log = "none" \/ x \in deletion.logs THEN "none" ELSE "anonymous"

\* user.delete and COMMIT: the rows of the other tables go with the user.
DeleteUserRow ==
    /\ deletion.step = UserRow
    /\ Restricted = {}
    /\ user' = "gone"
    /\ rows' = [x \in Rows |-> [NoRow EXCEPT !.log = LogAfter(x)]]
    /\ deletion' = NoDeletion
    /\ UNCHANGED <<wallet, requests, ensuring>>
    /\ Track

\* user.delete is refused, or a statement fails: ROLLBACK.
DeletionFails ==
    /\ deletion.step # 0
    /\ deletion' = NoDeletion
    /\ UNCHANGED <<user, rows, wallet, requests, ensuring>>
    /\ Track
-----------------------------------------------------------------------------
\* A statement fails (the row or the user is gone, the provider throws, the
\* database): the handler ends.
RequestFails(r) ==
    /\ ~At(r, "idle")
    /\ Become(r, Idle)
    /\ UNCHANGED <<user, rows, wallet, deletion, ensuring>>
    /\ Track

\* The process dies; its transactions are rolled back.
Crash ==
    /\ requests' = [r \in Requests |-> Idle]
    /\ deletion' = NoDeletion
    /\ ensuring' = FALSE
    /\ UNCHANGED <<user, rows, wallet>>
    /\ Track

Next ==
    \/ \E r \in Requests :
          \/ BeginSubmit(r) \/ BeginManual(r) \/ BeginDeposit(r)
          \/ \E x \in Rows : CreateCheck(r, x) \/ BeginDecide(r, x) \/ CreateDeposit(r, x)
          \/ \E s \in {"APPROVED", "REJECTED", "PENDING"} : Decide(r, s)
          \/ LogCheck(r) \/ CheckWallet(r) \/ RequestFails(r)
    \/ \E x \in Rows : CreateTicket(x) \/ AnswerTicket(x)
    \/ FindNoWallet \/ CreatePlaceholder
    \/ \E a \in Addresses, b \in BOOLEAN \union {None} : SaveWallet(a, b)
    \/ \E a \in Addresses \union {None}, b \in BOOLEAN \union {None} : PatchWallet(a, b)
    \/ BeginDeletion \/ DeleteTable \/ DeleteUserRow \/ DeletionFails
    \/ Crash

Spec == Init /\ [][Next]_vars
-----------------------------------------------------------------------------
(***************************************************************************)
(* Properties.                                                             *)
(***************************************************************************)
\* POST /kyc/submit makes the only pending check, unless another check came,
\* or was put back to PENDING, since it looked (kyc.routes.ts:73, :97).
OnePendingCheck ==
    [][\A r \in Requests :
         At(r, "create") /\ requests'[r].pc = "log" /\ r \notin overtaken =>
            Cardinality(Pending') = 1]_vars

\* A deposit names the address on offer when it is recorded, unless an
\* administrator, or a starting process, changed the offer since the handler
\* read it (payment.routes.ts:116, :171).
DepositAsOffered ==
    [][\A r \in Requests, x \in Rows :
         /\ At(r, "create") /\ requests[r].op = "deposit" /\ r \notin overtaken
         /\ requests'[r] # requests[r] /\ rows'[x] # rows[x]
         => rows'[x].address = Offer]_vars

\* A deletion takes no deposit that was recorded behind its back, after it had
\* cleared the table (delete-user.ts:14, :23; schema.prisma:158).
DepositsSeen ==
    [][\A x \in RowsOf("deposit") :
         rows'[x].kind # "deposit" => x \in deletion.rows]_vars

\* A process that starts does not put its placeholder over an address that an
\* administrator has entered meanwhile (ensure-company-wallets.ts:47, :57).
TypedAddressKept == [][wallet.typed => wallet'.typed]_vars

\* Of a deleted user no row is left, and no audit entry with his name, whatever
\* handlers were still writing for him (delete-user.ts:12).
NothingLeft ==
    user = "gone" => \A x \in Rows : rows[x].kind = "none" /\ rows[x].log # "user"

\* "Look up admin-configured wallet first, then fall back to crypto-provider"
\* (payment.routes.ts:115): what a deposit names is one or the other.
DepositAddressIsReal ==
    \A x \in RowsOf("deposit") : rows[x].address \in Addresses \union {Generated}
-----------------------------------------------------------------------------
(***************************************************************************)
(* The inductive invariant.                                                *)
(***************************************************************************)
Grounded(r) ==
    /\ requests[r].pc = "wallet" => requests[r].op = "deposit"
    /\ requests[r].op = "deposit" => requests[r].pc \in {"wallet", "create"}
    /\ requests[r].pc = "log" =>
          /\ requests[r].row \in Rows
          /\ user = "live" => rows[requests[r].row].kind = "kyc"
    /\ requests[r].pc = "decide" => requests[r].row \in Rows
    /\ requests[r].pc = "create" /\ requests[r].op = "submit" =>
          r \in overtaken \/ Pending = {}
    /\ requests[r].op = "deposit" =>
          r \in overtaken \/ requests[r].address = Offer

RequestConsistent == \A r \in Requests : Grounded(r)

\* The wallet that a handler has read is still there: none is ever deleted.
WalletConsistent ==
    /\ wallet.exists <=> wallet.address # None
    /\ wallet.typed => wallet.address \in Addresses
    /\ \A r \in Requests : requests[r].pc = "wallet" => wallet.exists

DeletionConsistent ==
    /\ deletion.step # 0 => user = "live"
    /\ deletion.step = 0 => deletion = NoDeletion

IndInv ==
    /\ TypeOK
    /\ RequestConsistent
    /\ WalletConsistent
    /\ DeletionConsistent
    /\ NothingLeft
=============================================================================
