--------------------------- MODULE RecordsProofs ---------------------------
(***************************************************************************)
(* Theorems about the rows of a user: for any number of rows, requests and *)
(* addresses.                                                              *)
(***************************************************************************)
EXTENDS Records, FiniteSetTheorems, TLAPS

USE RecordsAssumption

\* The deletion has a statement per table, and then the user's own row.
LEMMA Steps == UserRow = 5 /\ DOMAIN Tables = 1 .. 4
BY DEF UserRow, Tables

\* What the statements write are rows.
LEMMA RowType ==
    /\ NoRow \in Row
    /\ [NoRow EXCEPT !.kind = "kyc", !.status = "PENDING"] \in Row
    /\ [NoRow EXCEPT !.kind = "ticket", !.status = "OPEN", !.log = "user"] \in Row
    /\ \A l \in {"none", "user", "anonymous"} : [NoRow EXCEPT !.log = l] \in Row
    /\ \A x \in Row : [x EXCEPT !.log = "user"] \in Row
    /\ \A x \in Row, s \in {"APPROVED", "REJECTED", "PENDING", "ANSWERED"} :
          [x EXCEPT !.status = s] \in Row
BY DEF Row, NoRow

\* What the handlers keep are requests.
LEMMA RequestType ==
    /\ Idle \in Request
    /\ [Idle EXCEPT !.op = "submit", !.pc = "create"] \in Request
    /\ [Idle EXCEPT !.op = "manual", !.pc = "create"] \in Request
    /\ \A x \in Rows : [Idle EXCEPT !.op = "decide", !.pc = "decide", !.row = x] \in Request
    /\ \A q \in Request : [q EXCEPT !.pc = "create"] \in Request
    /\ \A q \in Request, x \in Rows : [q EXCEPT !.pc = "log", !.row = x] \in Request
    /\ \A p \in {"wallet", "create"}, a \in Addresses \union {Placeholder, Generated, None} :
          [Idle EXCEPT !.op = "deposit", !.pc = p, !.address = a] \in Request
BY DEF Request, Idle

\* Every step keeps the types.
LEMMA TypeStep == TypeOK /\ [Next]_vars => TypeOK'
<1> SUFFICES ASSUME TypeOK, [Next]_vars PROVE TypeOK'
  OBVIOUS
<1> USE DEF TypeOK, Become, Track, At
<1>1. CASE UNCHANGED vars
  BY <1>1 DEF vars
<1>2. ASSUME NEW r \in Requests, BeginSubmit(r) PROVE TypeOK'
  BY <1>2, RequestType DEF BeginSubmit
<1>3. ASSUME NEW r \in Requests, BeginManual(r) PROVE TypeOK'
  BY <1>3, RequestType DEF BeginManual
<1>4. ASSUME NEW r \in Requests, BeginDeposit(r) PROVE TypeOK'
  <2>1. wallet.address \in Addresses \union {Placeholder, Generated, None}
    BY DEF Wallet
  <2> QED
    BY <1>4, <2>1, RequestType DEF BeginDeposit
<1>5. ASSUME NEW r \in Requests, NEW x \in Rows, CreateCheck(r, x) PROVE TypeOK'
  BY <1>5, RequestType, RowType DEF CreateCheck, Insert
<1>6. ASSUME NEW r \in Requests, NEW x \in Rows, BeginDecide(r, x) PROVE TypeOK'
  BY <1>6, RequestType DEF BeginDecide
<1>7. ASSUME NEW r \in Requests, NEW x \in Rows, CreateDeposit(r, x) PROVE TypeOK'
  <2>1. requests[r].address \in Addresses \union {Placeholder, Generated, None}
    BY DEF Request
  <2>2. [kind |-> "deposit", status |-> "PENDING",
         address |-> requests[r].address, log |-> "user"] \in Row
    BY <2>1 DEF Row
  <2> QED
    BY <1>7, <2>2, RequestType DEF CreateDeposit, Insert
<1>8. ASSUME NEW r \in Requests, NEW s \in {"APPROVED", "REJECTED", "PENDING"}, Decide(r, s)
      PROVE  TypeOK'
  <2>1. \A x \in Rows : [rows[x] EXCEPT !.status = s] \in Row
    BY RowType
  <2> QED
    BY <1>8, <2>1, RequestType DEF Decide
<1>9. ASSUME NEW r \in Requests, LogCheck(r) PROVE TypeOK'
  <2>1. \A x \in Rows : [rows[x] EXCEPT !.log = "user"] \in Row
    BY RowType
  <2> QED
    BY <1>9, <2>1, RequestType DEF LogCheck
<1>10. ASSUME NEW r \in Requests, CheckWallet(r) PROVE TypeOK'
  BY <1>10, RequestType DEF CheckWallet
<1>11. ASSUME NEW r \in Requests, RequestFails(r) PROVE TypeOK'
  BY <1>11, RequestType DEF RequestFails
<1>12. ASSUME NEW x \in Rows, CreateTicket(x) PROVE TypeOK'
  BY <1>12, RowType DEF CreateTicket, Insert
<1>13. ASSUME NEW x \in Rows, AnswerTicket(x) PROVE TypeOK'
  BY <1>13, RowType DEF AnswerTicket
<1>14. CASE FindNoWallet
  BY <1>14 DEF FindNoWallet
<1>15. CASE CreatePlaceholder
  BY <1>15 DEF CreatePlaceholder, Wallet
<1>16. ASSUME NEW a \in Addresses, NEW b \in BOOLEAN \union {None}, SaveWallet(a, b)
       PROVE  TypeOK'
  <2>1. (IF b # None THEN b ELSE wallet.exists => wallet.isActive) \in BOOLEAN
    BY DEF Wallet
  <2> QED
    BY <1>16, <2>1 DEF SaveWallet, Wallet
<1>17. ASSUME NEW a \in Addresses \union {None}, NEW b \in BOOLEAN \union {None},
              PatchWallet(a, b)
       PROVE  TypeOK'
  <2>1. (IF b # None THEN b ELSE wallet.isActive) \in BOOLEAN
    BY DEF Wallet
  <2>2. (IF a # None THEN a ELSE wallet.address) \in Addresses \union {Placeholder, None}
    BY DEF Wallet
  <2>3. (wallet.typed \/ a # None) \in BOOLEAN
    OBVIOUS
  <2>4. \A w \in Wallet, p \in Addresses \union {Placeholder, None}, t, v \in BOOLEAN :
           [w EXCEPT !.address = p, !.typed = t, !.isActive = v] \in Wallet
    BY DEF Wallet
  <2>5. wallet' \in Wallet
    BY <1>17, <2>1, <2>2, <2>3, <2>4 DEF PatchWallet
  <2> QED
    BY <1>17, <2>5 DEF PatchWallet
<1>18. CASE BeginDeletion
  <2>1. [deletion EXCEPT !.step = 1] \in Deletion
    BY Steps DEF Deletion
  <2> QED
    BY <1>18, <2>1 DEF BeginDeletion
<1>19. CASE DeleteTable
  <2>1. deletion.step + 1 \in 0 .. UserRow
    BY <1>19, Steps DEF DeleteTable
  <2>2. deletion.rows \subseteq Rows /\ deletion.logs \subseteq Rows
    BY DEF Deletion
  <2> QED
    BY <1>19, <2>1, <2>2 DEF DeleteTable, Deletion, RowsOf
<1>20. CASE DeleteUserRow
  <2>1. NoDeletion \in Deletion
    BY Steps DEF NoDeletion, Deletion
  <2>2. \A x \in Rows : LogAfter(x) \in {"none", "user", "anonymous"}
    BY DEF LogAfter
  <2> QED
    BY <1>20, <2>1, <2>2, RowType DEF DeleteUserRow
<1>21. CASE DeletionFails
  <2>1. NoDeletion \in Deletion
    BY Steps DEF NoDeletion, Deletion
  <2> QED
    BY <1>21, <2>1 DEF DeletionFails
<1>22. CASE Crash
  <2>1. NoDeletion \in Deletion
    BY Steps DEF NoDeletion, Deletion
  <2> QED
    BY <1>22, <2>1, RequestType DEF Crash
<1> QED
  BY <1>1, <1>2, <1>3, <1>4, <1>5, <1>6, <1>7, <1>8, <1>9, <1>10, <1>11, <1>12, <1>13,
     <1>14, <1>15, <1>16, <1>17, <1>18, <1>19, <1>20, <1>21, <1>22 DEF Next

\* The statements that change a row: none turns one kind into another, except
\* the deletion, which takes the user with them.
LEMMA KindStays ==
    ASSUME TypeOK, [Next]_vars, ~DeleteUserRow
    PROVE  /\ user' = user
           /\ \A x \in Rows : rows[x].kind # "none" => rows'[x].kind = rows[x].kind
<1> USE DEF TypeOK
<1>1. ASSUME NEW x \in Rows, NEW y, Insert(x, y)
      PROVE  \A z \in Rows : rows[z].kind # "none" => rows'[z].kind = rows[z].kind
  BY <1>1 DEF Insert
<1>2. ASSUME NEW x, NEW s, rows' = [rows EXCEPT ![x].status = s]
      PROVE  \A z \in Rows : rows[z].kind # "none" => rows'[z].kind = rows[z].kind
  <2>1. \A z \in Rows : rows'[z] = IF z = x THEN [rows[z] EXCEPT !.status = s] ELSE rows[z]
    BY <1>2
  <2> QED
    BY <2>1 DEF Row
<1>3. ASSUME NEW x, NEW l, rows' = [rows EXCEPT ![x].log = l]
      PROVE  \A z \in Rows : rows[z].kind # "none" => rows'[z].kind = rows[z].kind
  <2>1. \A z \in Rows : rows'[z] = IF z = x THEN [rows[z] EXCEPT !.log = l] ELSE rows[z]
    BY <1>3
  <2> QED
    BY <2>1 DEF Row
<1>4. user' = user
  BY DEF Next, vars, BeginSubmit, BeginManual, BeginDeposit, CreateCheck, BeginDecide,
     CreateDeposit, Decide, LogCheck, CheckWallet, RequestFails, CreateTicket,
     AnswerTicket, FindNoWallet, CreatePlaceholder, SaveWallet, PatchWallet,
     BeginDeletion, DeleteTable, DeletionFails, Crash
<1>5. ASSUME NEW r \in Requests, NEW x \in Rows, CreateCheck(r, x) \/ CreateDeposit(r, x)
      PROVE  \A z \in Rows : rows[z].kind # "none" => rows'[z].kind = rows[z].kind
  BY <1>5, <1>1 DEF CreateCheck, CreateDeposit
<1>6. ASSUME NEW r \in Requests, NEW s, Decide(r, s)
      PROVE  \A z \in Rows : rows[z].kind # "none" => rows'[z].kind = rows[z].kind
  BY <1>6, <1>2 DEF Decide
<1>7. ASSUME NEW r \in Requests, LogCheck(r)
      PROVE  \A z \in Rows : rows[z].kind # "none" => rows'[z].kind = rows[z].kind
  BY <1>7, <1>3 DEF LogCheck
<1>8. ASSUME NEW x \in Rows, CreateTicket(x) \/ AnswerTicket(x)
      PROVE  \A z \in Rows : rows[z].kind # "none" => rows'[z].kind = rows[z].kind
  BY <1>8, <1>1, <1>2 DEF CreateTicket, AnswerTicket
<1>9. CASE UNCHANGED rows
  BY <1>4, <1>9
<1> QED
  BY <1>4, <1>5, <1>6, <1>7, <1>8, <1>9 DEF Next, vars, BeginSubmit, BeginManual,
     BeginDeposit, BeginDecide, CheckWallet, RequestFails, FindNoWallet,
     CreatePlaceholder, SaveWallet, PatchWallet, BeginDeletion, DeleteTable,
     DeletionFails, Crash

\* What a step may make of a handler.
LEMMA RequestMoves ==
    ASSUME TypeOK, [Next]_vars, NEW r \in Requests
    PROVE  \/ requests'[r] = requests[r]
           \/ requests'[r] = Idle
           \/ requests'[r] = [Idle EXCEPT !.op = "submit", !.pc = "create"]
              /\ Pending = {} /\ rows' = rows
           \/ requests'[r] = [Idle EXCEPT !.op = "manual", !.pc = "create"]
           \/ \E x \in Rows :
                 requests'[r] = [Idle EXCEPT !.op = "decide", !.pc = "decide", !.row = x]
           \/ requests'[r] = [Idle EXCEPT !.op = "deposit",
                                !.pc = IF Found THEN "wallet" ELSE "create",
                                !.address = IF Found THEN wallet.address ELSE Generated]
              /\ wallet' = wallet
           \/ requests'[r] = [requests[r] EXCEPT !.pc = "create"]
              /\ requests[r].pc = "wallet" /\ wallet' = wallet
           \/ \E x \in Rows :
                 /\ requests'[r] = [requests[r] EXCEPT !.pc = "log", !.row = x]
                 /\ requests[r].pc = "create" /\ requests[r].op = "submit"
                 /\ CreateCheck(r, x)
<1> DEFINE Goal ==
           \/ requests'[r] = requests[r]
           \/ requests'[r] = Idle
           \/ requests'[r] = [Idle EXCEPT !.op = "submit", !.pc = "create"]
              /\ Pending = {} /\ rows' = rows
           \/ requests'[r] = [Idle EXCEPT !.op = "manual", !.pc = "create"]
           \/ \E x \in Rows :
                 requests'[r] = [Idle EXCEPT !.op = "decide", !.pc = "decide", !.row = x]
           \/ requests'[r] = [Idle EXCEPT !.op = "deposit",
                                !.pc = IF Found THEN "wallet" ELSE "create",
                                !.address = IF Found THEN wallet.address ELSE Generated]
              /\ wallet' = wallet
           \/ requests'[r] = [requests[r] EXCEPT !.pc = "create"]
              /\ requests[r].pc = "wallet" /\ wallet' = wallet
           \/ \E x \in Rows :
                 /\ requests'[r] = [requests[r] EXCEPT !.pc = "log", !.row = x]
                 /\ requests[r].pc = "create" /\ requests[r].op = "submit"
                 /\ CreateCheck(r, x)
<1> SUFFICES Goal
  OBVIOUS
<1>0. ASSUME NEW q \in Requests, NEW y, Become(q, y)
      PROVE  requests'[r] = IF r = q THEN y ELSE requests[r]
  BY <1>0 DEF Become, TypeOK
<1>1. ASSUME NEW q \in Requests, BeginSubmit(q) PROVE Goal
  BY <1>1, <1>0 DEF BeginSubmit, NothingPending
<1>2. ASSUME NEW q \in Requests, BeginManual(q) PROVE Goal
  BY <1>2, <1>0 DEF BeginManual
<1>3. ASSUME NEW q \in Requests, BeginDeposit(q) PROVE Goal
  BY <1>3, <1>0 DEF BeginDeposit
<1>4. ASSUME NEW q \in Requests, NEW x \in Rows, CreateCheck(q, x) PROVE Goal
  <2>1. CASE requests[q].op = "submit"
    <3>1. Become(q, [requests[q] EXCEPT !.pc = "log", !.row = x])
      BY <1>4, <2>1 DEF CreateCheck
    <3>2. requests'[r] = IF r = q THEN [requests[q] EXCEPT !.pc = "log", !.row = x]
                         ELSE requests[r]
      BY <3>1, <1>0
    <3>3. requests[q].pc = "create"
      BY <1>4 DEF CreateCheck, At
    <3> QED
      BY <1>4, <2>1, <3>2, <3>3
  <2>2. CASE requests[q].op # "submit"
    <3>1. Become(q, Idle)
      BY <1>4, <2>2 DEF CreateCheck
    <3> QED
      BY <3>1, <1>0
  <2> QED
    BY <2>1, <2>2
<1>5. ASSUME NEW q \in Requests, NEW x \in Rows, BeginDecide(q, x) PROVE Goal
  BY <1>5, <1>0 DEF BeginDecide
<1>6. ASSUME NEW q \in Requests,
             \/ \E x \in Rows : CreateDeposit(q, x)
             \/ \E s \in {"APPROVED", "REJECTED", "PENDING"} : Decide(q, s)
             \/ LogCheck(q) \/ RequestFails(q)
      PROVE  Goal
  <2>1. Become(q, Idle)
    BY <1>6 DEF CreateDeposit, Decide, LogCheck, RequestFails
  <2> QED
    BY <2>1, <1>0
<1>7. ASSUME NEW q \in Requests, CheckWallet(q) PROVE Goal
  BY <1>7, <1>0 DEF CheckWallet, At
<1>8. CASE UNCHANGED requests
  BY <1>8
<1>9. CASE Crash
  BY <1>9 DEF Crash
<1> HIDE DEF Goal
<1>10. ASSUME NEW x \in Rows, CreateTicket(x) \/ AnswerTicket(x) PROVE Goal
  BY <1>10, <1>8 DEF CreateTicket, AnswerTicket
<1>11. ASSUME NEW a \in Addresses \union {None}, NEW b \in BOOLEAN \union {None},
              SaveWallet(a, b) \/ PatchWallet(a, b)
       PROVE  Goal
  BY <1>11, <1>8 DEF SaveWallet, PatchWallet
<1>12. CASE \/ UNCHANGED vars \/ FindNoWallet \/ CreatePlaceholder
            \/ BeginDeletion \/ DeleteTable \/ DeleteUserRow \/ DeletionFails
  BY <1>12, <1>8 DEF vars, FindNoWallet, CreatePlaceholder, BeginDeletion, DeleteTable,
     DeleteUserRow, DeletionFails
<1> QED
  BY <1>1, <1>2, <1>3, <1>4, <1>5, <1>6, <1>7, <1>9, <1>10, <1>11, <1>12 DEF Next

\* Every step notes which handlers it has overtaken.
LEMMA EveryStepTracks == Next => Track
BY DEF Next, BeginSubmit, BeginManual, BeginDeposit, CreateCheck, BeginDecide,
     CreateDeposit, Decide, LogCheck, CheckWallet, RequestFails, CreateTicket,
     AnswerTicket, FindNoWallet, CreatePlaceholder, SaveWallet, PatchWallet,
     BeginDeletion, DeleteTable, DeleteUserRow, DeletionFails, Crash

\* The address on offer when a handler has read it.
LEMMA OfferRead == Offer = IF Found THEN wallet.address ELSE Generated
BY DEF Offer, Found
\* A step leaves the address on offer alone, or the wallet is edited.
LEMMA OfferStays == UNCHANGED wallet => Offer' = Offer
BY DEF Offer

\* A handler that a step leaves alone is overtaken if its premise changes.
LEMMA LeftBehind ==
    ASSUME TypeOK, Track, NEW r \in Requests, requests'[r] = requests[r],
           requests[r].pc \in {"wallet", "create"}
    PROVE  /\ r \in overtaken => r \in overtaken'
           /\ requests[r].pc = "create" /\ requests[r].op = "submit" =>
                 r \in overtaken' \/ Pending' = Pending
           /\ requests[r].op = "deposit" => r \in overtaken' \/ Offer' = Offer
BY DEF Track, Premise

\* Every step keeps what the handlers have read and written.
LEMMA RequestStep == IndInv /\ [Next]_vars => RequestConsistent'
<1> SUFFICES ASSUME IndInv, [Next]_vars, NEW r \in Requests PROVE Grounded(r)'
  BY DEF RequestConsistent
<1>1. TypeOK /\ Grounded(r) /\ requests[r] \in Request
  BY DEF IndInv, TypeOK, RequestConsistent
<1>2. CASE UNCHANGED vars
  BY <1>1, <1>2 DEF vars, Grounded, Pending, RowsOf, Offer
<1>3. ASSUME Next, requests'[r] = requests[r] PROVE Grounded(r)'
  <2>1. Track
    BY <1>3, EveryStepTracks
  <2>2. requests[r].pc = "log" =>
           (user' = "live" => user = "live" /\ rows'[requests[r].row].kind = "kyc")
    <3>1. CASE DeleteUserRow
      BY <3>1 DEF DeleteUserRow
    <3>2. CASE ~DeleteUserRow
      BY <1>1, <3>2, KindStays DEF Grounded
    <3> QED
      BY <3>1, <3>2
  <2>3. requests[r].pc = "create" /\ requests[r].op = "submit" =>
           r \in overtaken' \/ Pending' = {}
    BY <1>1, <1>3, <2>1, LeftBehind DEF Grounded
  <2>4. requests[r].op = "deposit" => r \in overtaken' \/ requests[r].address = Offer'
    BY <1>1, <1>3, <2>1, LeftBehind DEF Grounded
  <2> QED
    BY <1>1, <1>3, <2>2, <2>3, <2>4 DEF Grounded
<1>4. CASE requests'[r] = Idle
  BY <1>4 DEF Idle, Grounded
<1>5. CASE /\ requests'[r] = [Idle EXCEPT !.op = "submit", !.pc = "create"]
           /\ Pending = {} /\ rows' = rows
  <2>1. requests'[r].op = "submit" /\ requests'[r].pc = "create"
    BY <1>5 DEF Idle
  <2>2. Pending' = {}
    BY <1>5 DEF Pending, RowsOf
  <2> QED
    BY <2>1, <2>2 DEF Grounded
<1>6. CASE requests'[r] = [Idle EXCEPT !.op = "manual", !.pc = "create"]
  <2>1. requests'[r].op = "manual" /\ requests'[r].pc = "create"
    BY <1>6 DEF Idle
  <2> QED
    BY <2>1 DEF Grounded
<1>7. ASSUME NEW x \in Rows,
             requests'[r] = [Idle EXCEPT !.op = "decide", !.pc = "decide", !.row = x]
      PROVE  Grounded(r)'
  <2>1. requests'[r].op = "decide" /\ requests'[r].pc = "decide" /\ requests'[r].row = x
    BY <1>7 DEF Idle
  <2> QED
    BY <2>1 DEF Grounded
<1>8. CASE /\ requests'[r] = [Idle EXCEPT !.op = "deposit",
                                !.pc = IF Found THEN "wallet" ELSE "create",
                                !.address = IF Found THEN wallet.address ELSE Generated]
           /\ wallet' = wallet
  <2>1. /\ requests'[r].op = "deposit"
        /\ requests'[r].pc \in {"wallet", "create"}
        /\ requests'[r].address = Offer
    BY <1>8, OfferRead DEF Idle
  <2>2. Offer' = Offer
    BY <1>8, OfferStays
  <2> QED
    BY <2>1, <2>2 DEF Grounded
<1>9. ASSUME requests'[r] = [requests[r] EXCEPT !.pc = "create"],
             requests[r].pc = "wallet", wallet' = wallet, Next
      PROVE  Grounded(r)'
  <2>1. /\ requests'[r].pc = "create"
        /\ requests'[r].op = requests[r].op
        /\ requests'[r].address = requests[r].address
    BY <1>1, <1>9 DEF Request
  <2>2. requests[r].op = "deposit"
    BY <1>1, <1>9 DEF Grounded
  <2>3. Offer' = Offer
    BY <1>9, OfferStays
  <2>4. r \in overtaken => r \in overtaken'
    BY <1>9, <2>1, EveryStepTracks DEF Track
  <2> QED
    BY <1>1, <2>1, <2>2, <2>3, <2>4 DEF Grounded
<1>10. ASSUME NEW x \in Rows,
              requests'[r] = [requests[r] EXCEPT !.pc = "log", !.row = x],
              requests[r].op = "submit", CreateCheck(r, x)
       PROVE  Grounded(r)'
  <2>1. /\ requests'[r].pc = "log" /\ requests'[r].op = "submit"
        /\ requests'[r].row = x
    BY <1>1, <1>10 DEF Request
  <2>2. rows'[x].kind = "kyc"
    BY <1>1, <1>10 DEF CreateCheck, Insert, TypeOK, NoRow
  <2> QED
    BY <2>1, <2>2 DEF Grounded
<1> QED
  BY <1>1, <1>2, <1>3, <1>4, <1>5, <1>6, <1>7, <1>8, <1>9, <1>10, RequestMoves
\* Every step keeps what the company wallet is: no handler deletes it.
LEMMA WalletStep == IndInv /\ [Next]_vars => WalletConsistent'
<1> SUFFICES ASSUME IndInv, [Next]_vars PROVE WalletConsistent'
  OBVIOUS
<1>0. TypeOK /\ WalletConsistent
  BY DEF IndInv
<1> USE DEF WalletConsistent
<1>1. \/ wallet' = wallet
      \/ CreatePlaceholder
      \/ \E a \in Addresses, b \in BOOLEAN \union {None} : SaveWallet(a, b)
      \/ \E a \in Addresses \union {None}, b \in BOOLEAN \union {None} : PatchWallet(a, b)
  BY DEF Next, vars, BeginSubmit, BeginManual, BeginDeposit, CreateCheck, BeginDecide,
     CreateDeposit, Decide, LogCheck, CheckWallet, RequestFails, CreateTicket,
     AnswerTicket, FindNoWallet, BeginDeletion, DeleteTable, DeleteUserRow,
     DeletionFails, Crash
<1>2. ASSUME NEW r \in Requests, requests'[r].pc = "wallet"
      PROVE  requests[r].pc = "wallet" \/ wallet.exists
  <2>1. CASE requests'[r] = [Idle EXCEPT !.op = "deposit",
                                !.pc = IF Found THEN "wallet" ELSE "create",
                                !.address = IF Found THEN wallet.address ELSE Generated]
    <3>1. requests'[r].pc = IF Found THEN "wallet" ELSE "create"
      BY <2>1 DEF Idle
    <3> QED
      BY <1>2, <3>1 DEF Found
  <2>2. /\ \A x : [requests[r] EXCEPT !.pc = "log", !.row = x].pc = "log"
        /\ \A x : [Idle EXCEPT !.op = "decide", !.pc = "decide", !.row = x].pc = "decide"
        /\ [requests[r] EXCEPT !.pc = "create"].pc = "create"
        /\ [Idle EXCEPT !.op = "submit", !.pc = "create"].pc = "create"
        /\ [Idle EXCEPT !.op = "manual", !.pc = "create"].pc = "create"
        /\ Idle.pc = "idle"
    BY <1>0 DEF Idle, Request, TypeOK
  <2> QED
    BY <1>0, <1>2, <2>1, <2>2, RequestMoves
<1>3. /\ wallet.exists => wallet'.exists
      /\ wallet'.exists <=> wallet'.address # None
      /\ wallet'.typed => wallet'.address \in Addresses
  <2>1. CASE wallet' = wallet
    BY <1>0, <2>1
  <2>2. CASE CreatePlaceholder
    BY <1>0, <2>2 DEF CreatePlaceholder
  <2>3. ASSUME NEW a \in Addresses, NEW b \in BOOLEAN \union {None}, SaveWallet(a, b)
        PROVE  wallet'.exists /\ wallet'.address = a
    BY <2>3 DEF SaveWallet
  <2>4. ASSUME NEW a \in Addresses \union {None}, NEW b \in BOOLEAN \union {None},
               PatchWallet(a, b)
        PROVE  /\ wallet.exists /\ wallet'.exists
               /\ wallet'.address = IF a # None THEN a ELSE wallet.address
               /\ wallet'.typed = (wallet.typed \/ a # None)
    BY <1>0, <2>4 DEF PatchWallet, TypeOK, Wallet
  <2> QED
    BY <1>0, <1>1, <2>1, <2>2, <2>3, <2>4
<1> QED
  BY <1>0, <1>2, <1>3
\* Every step keeps that only a user who is there is being deleted.
LEMMA DeletionStep == IndInv /\ [Next]_vars => DeletionConsistent'
<1> SUFFICES ASSUME IndInv, [Next]_vars PROVE DeletionConsistent'
  OBVIOUS
<1>0. TypeOK /\ DeletionConsistent
  BY DEF IndInv
<1> USE DEF DeletionConsistent
<1>1. CASE BeginDeletion
  BY <1>0, <1>1 DEF BeginDeletion, TypeOK, Deletion
<1>2. CASE DeleteTable
  <2>1. deletion.step \in 1 .. 4 /\ deletion'.step = deletion.step + 1
    BY <1>2, Steps DEF DeleteTable
  <2> QED
    BY <1>0, <1>2, <2>1 DEF DeleteTable
<1>3. CASE DeleteUserRow \/ DeletionFails \/ Crash
  BY <1>3 DEF DeleteUserRow, DeletionFails, Crash, NoDeletion
<1>4. CASE UNCHANGED <<user, deletion>>
  BY <1>0, <1>4
<1> QED
  BY <1>1, <1>2, <1>3, <1>4 DEF Next, vars, BeginSubmit, BeginManual, BeginDeposit,
     CreateCheck, BeginDecide, CreateDeposit, Decide, LogCheck, CheckWallet,
     RequestFails, CreateTicket, AnswerTicket, FindNoWallet, CreatePlaceholder,
     SaveWallet, PatchWallet

\* Every step leaves nothing of a deleted user: what the deletion has not
\* cleared goes with the user's row, and no handler adds to it afterwards.
LEMMA LeftStep == IndInv /\ [Next]_vars => NothingLeft'
<1> SUFFICES ASSUME IndInv, [Next]_vars PROVE NothingLeft'
  OBVIOUS
<1>0. TypeOK /\ NothingLeft
  BY DEF IndInv
<1>1. CASE DeleteUserRow
  <2>1. \A x \in Rows : rows'[x] = [NoRow EXCEPT !.log = LogAfter(x)]
    BY <1>1 DEF DeleteUserRow
  <2>2. \A x \in Rows : rows'[x].kind = "none" /\ rows'[x].log = LogAfter(x)
    BY <2>1 DEF NoRow
  <2>3. \A x \in Rows : LogAfter(x) # "user"
    BY DEF LogAfter
  <2> QED
    BY <2>2, <2>3 DEF NothingLeft
<1>2. CASE ~DeleteUserRow
  <2>1. user' = user
    BY <1>0, <1>2, KindStays
  <2>2. ASSUME user = "gone" PROVE rows' = rows
    <3>1. \A x \in Rows : rows[x].kind = "none"
      BY <1>0, <2>2 DEF NothingLeft
    <3> QED
      <4>1. ASSUME NEW r \in Requests, NEW s, Decide(r, s) PROVE FALSE
        <5>1. requests[r].row \in Rows
          BY <4>1 DEF IndInv, RequestConsistent, Grounded, Decide, At
        <5> QED
          BY <3>1, <4>1, <5>1 DEF Decide
      <4> QED
        BY <1>2, <2>2, <3>1, <4>1 DEF Next, vars, BeginSubmit, BeginManual, BeginDeposit,
           CreateCheck, BeginDecide, CreateDeposit, LogCheck, CheckWallet, RequestFails,
           CreateTicket, AnswerTicket, FindNoWallet, CreatePlaceholder, SaveWallet,
           PatchWallet, BeginDeletion, DeleteTable, DeletionFails, Crash, Insert
  <2> QED
    BY <1>0, <2>1, <2>2 DEF NothingLeft
<1> QED
  BY <1>1, <1>2

LEMMA InvariantStep == IndInv /\ [Next]_vars => IndInv'
BY TypeStep, RequestStep, WalletStep, DeletionStep, LeftStep DEF IndInv

LEMMA InvariantInit == Init => IndInv
<1> SUFFICES ASSUME Init PROVE IndInv
  OBVIOUS
<1> USE DEF Init
<1>1. TypeOK
  <2>1. wallet \in Wallet
    BY DEF NoWallet, Wallet
  <2>2. deletion \in Deletion
    BY Steps DEF NoDeletion, Deletion
  <2> QED
    BY <2>1, <2>2, RowType, RequestType DEF TypeOK
<1>2. RequestConsistent
  BY DEF RequestConsistent, Grounded, Idle
<1>3. WalletConsistent
  BY DEF WalletConsistent, NoWallet, Idle
<1>4. DeletionConsistent /\ NothingLeft
  BY DEF DeletionConsistent, NothingLeft, NoDeletion
<1> QED
  BY <1>1, <1>2, <1>3, <1>4 DEF IndInv

\* The inductive invariant of the user's rows.
THEOREM Invariant == Spec => []IndInv
BY InvariantInit, InvariantStep, PTL DEF Spec

\* A deleted user leaves no row, and no audit entry in his name, whatever
\* handlers and deletions overlap (deleteUserCascade, lib/delete-user.ts:12).
THEOREM NothingStays == Spec => []NothingLeft
<1>1. IndInv => NothingLeft
  BY DEF IndInv
<1> QED
  BY <1>1, Invariant, PTL
\* A submission that nothing has overtaken makes the only pending check
\* (POST /kyc/submit, kyc.routes.ts:73, :97).
THEOREM OnlyCheck == Spec => OnePendingCheck
<1> DEFINE Goal == \A r \in Requests :
              At(r, "create") /\ requests'[r].pc = "log" /\ r \notin overtaken =>
                 Cardinality(Pending') = 1
<1>1. IndInv /\ [Next]_vars => Goal
  <2> SUFFICES ASSUME IndInv, [Next]_vars, NEW r \in Requests,
                      At(r, "create"), requests'[r].pc = "log", r \notin overtaken
               PROVE  Cardinality(Pending') = 1
    OBVIOUS
  <2>1. TypeOK /\ Grounded(r) /\ requests[r].pc = "create"
    BY DEF IndInv, RequestConsistent, At
  <2>2. PICK x \in Rows : requests[r].op = "submit" /\ CreateCheck(r, x)
    <3>1. /\ \A x : [Idle EXCEPT !.op = "decide", !.pc = "decide", !.row = x].pc = "decide"
          /\ [Idle EXCEPT !.op = "submit", !.pc = "create"].pc = "create"
          /\ [Idle EXCEPT !.op = "manual", !.pc = "create"].pc = "create"
          /\ [Idle EXCEPT !.op = "deposit",
                !.pc = IF Found THEN "wallet" ELSE "create",
                !.address = IF Found THEN wallet.address ELSE Generated].pc # "log"
          /\ Idle.pc = "idle"
      BY DEF Idle
    <3> QED
      BY <2>1, <3>1, RequestMoves
  <2>3. Pending = {}
    BY <2>1, <2>2 DEF Grounded
  <2>4. \A y \in Rows : rows'[y] =
           IF y = x THEN [NoRow EXCEPT !.kind = "kyc", !.status = "PENDING"] ELSE rows[y]
    BY <2>1, <2>2 DEF CreateCheck, Insert, TypeOK
  <2>5. Pending' = {x}
    BY <2>3, <2>4 DEF Pending, RowsOf, NoRow
  <2> QED
    BY <2>5, FS_Singleton
<1> QED
  BY <1>1, Invariant, PTL DEF Spec, OnePendingCheck

\* A deposit is recorded with the address on offer, unless the offer has
\* changed since it was read (POST /payments/deposits/manual,
\* payment.routes.ts:116, :171).
THEOREM AddressOffered == Spec => DepositAsOffered
<1>1. IndInv /\ [Next]_vars =>
         \A r \in Requests, x \in Rows :
            /\ At(r, "create") /\ requests[r].op = "deposit" /\ r \notin overtaken
            /\ requests'[r] # requests[r] /\ rows'[x] # rows[x]
            => rows'[x].address = Offer
  <2> SUFFICES ASSUME IndInv, [Next]_vars, NEW r \in Requests, NEW x \in Rows,
                      requests[r].pc = "create", requests[r].op = "deposit",
                      r \notin overtaken, requests'[r] # requests[r], rows'[x] # rows[x]
               PROVE  rows'[x].address = Offer
    BY DEF At
  <2>1. TypeOK /\ requests[r].address = Offer
    BY DEF IndInv, RequestConsistent, Grounded
  <2>2. ASSUME NEW q \in Requests, NEW y, Become(q, y)
        PROVE  q = r
    BY <2>1, <2>2 DEF Become, TypeOK
  <2>3. ASSUME NEW q \in Requests, NEW z \in Rows, CreateDeposit(q, z)
        PROVE  rows'[x].address = Offer
    <3>1. q = r
      BY <2>2, <2>3 DEF CreateDeposit
    <3>2. rows'[x] = [kind |-> "deposit", status |-> "PENDING",
                      address |-> requests[r].address, log |-> "user"]
      BY <2>1, <2>3, <3>1 DEF CreateDeposit, Insert, TypeOK
    <3> QED
      BY <2>1, <3>2
  <2>4. ASSUME NEW q \in Requests, NEW z \in Rows, CreateCheck(q, z) PROVE FALSE
    BY <2>2, <2>4 DEF CreateCheck
  <2>5. ASSUME NEW q \in Requests, NEW s, Decide(q, s) PROVE FALSE
    BY <2>2, <2>5 DEF Decide, At
  <2>6. ASSUME NEW q \in Requests, LogCheck(q) PROVE FALSE
    BY <2>2, <2>6 DEF LogCheck, At
  <2> QED
    BY <2>3, <2>4, <2>5, <2>6 DEF Next, vars, BeginSubmit, BeginManual, BeginDeposit,
       BeginDecide, CheckWallet, RequestFails, CreateTicket, AnswerTicket, FindNoWallet,
       CreatePlaceholder, SaveWallet, PatchWallet, BeginDeletion, DeleteTable,
       DeleteUserRow, DeletionFails, Crash
<1> QED
  BY <1>1, Invariant, PTL DEF Spec, DepositAsOffered

\* No deletion takes a deposit that came after it had cleared the deposits
\* (deleteUserCascade, lib/delete-user.ts:14, :23).
THEOREM NoDepositLost == Spec => DepositsSeen
<1>1. IndInv /\ [Next]_vars =>
         \A x \in RowsOf("deposit") : rows'[x].kind # "deposit" => x \in deletion.rows
  <2> SUFFICES ASSUME IndInv, [Next]_vars, NEW x \in Rows, rows[x].kind = "deposit",
                      rows'[x].kind # "deposit"
               PROVE  x \in deletion.rows
    BY DEF RowsOf
  <2>1. DeleteUserRow
    BY KindStays DEF IndInv
  <2> QED
    BY <2>1 DEF DeleteUserRow, Restricted, RowsOf
<1> QED
  BY <1>1, Invariant, PTL DEF Spec, DepositsSeen

\* A process that starts keeps the address an administrator has entered
\* (ensureCompanyWallets, lib/ensure-company-wallets.ts:47, :57).
THEOREM TypedKept == Spec => TypedAddressKept
<1>1. IndInv /\ [Next]_vars => (wallet.typed => wallet'.typed)
  <2> SUFFICES ASSUME IndInv, [Next]_vars, wallet.typed PROVE wallet'.typed
    OBVIOUS
  <2>1. wallet.exists /\ wallet \in Wallet
    BY DEF IndInv, TypeOK, WalletConsistent
  <2>2. CASE CreatePlaceholder
    BY <2>1, <2>2 DEF CreatePlaceholder, PlaceholderSaved
  <2>3. ASSUME NEW a, NEW b, SaveWallet(a, b) PROVE wallet'.typed
    BY <2>3 DEF SaveWallet
  <2>4. ASSUME NEW a, NEW b, PatchWallet(a, b) PROVE wallet'.typed
    BY <2>1, <2>4 DEF PatchWallet, Wallet
  <2> QED
    BY <2>2, <2>3, <2>4 DEF Next, vars, BeginSubmit, BeginManual, BeginDeposit, CreateCheck,
       BeginDecide, CreateDeposit, Decide, LogCheck, CheckWallet, RequestFails,
       CreateTicket, AnswerTicket, FindNoWallet, BeginDeletion, DeleteTable,
       DeleteUserRow, DeletionFails, Crash
<1> QED
  BY <1>1, Invariant, PTL DEF Spec, TypedAddressKept
=============================================================================
