--------------------------- MODULE AccountsProofs ---------------------------
(***************************************************************************)
(* Theorems about accounts, codes and sessions: for any number of requests *)
(* in flight, of sessions, and of accounts that follow each other under    *)
(* one e-mail address.                                                     *)
(***************************************************************************)
EXTENDS Accounts, SequenceTheorems, FiniteSetTheorems, TLAPS

USE AccountsAssumption

\* A table of codes written row by row is a table of codes.
LEMMA CodesType ==
    ASSUME TypeOK, NEW t, t \in [DOMAIN codes -> CodeRow]
    PROVE  t \in Seq(CodeRow) /\ Len(t) = Len(codes) /\ DOMAIN t = DOMAIN codes
<1>1. DOMAIN codes = 1 .. Len(codes) /\ Len(codes) \in Nat
  BY DEF TypeOK
<1>2. t \in Seq(CodeRow)
  BY <1>1, SeqDef
<1> QED
  BY <1>1, <1>2

\* What is read from the tables has its type.
LEMMA ReadType ==
    ASSUME TypeOK
    PROVE  /\ \A u \in Users : users[u] \in UserRow
           /\ \A c \in DOMAIN codes : codes[c] \in CodeRow /\ c \in 0 .. MaxCodes /\ c \in Nat
           /\ \A s \in Sessions : sessions[s] \in SessionRow
           /\ \A r \in Requests : requests[r] \in Request
BY DEF TypeOK

\* The requests that wait for nothing.
LEMMA IdleType == Idle \in Request /\ Idle.pc = "idle"
BY DEF Idle, Request

\* Steps that only read: what they leave in the handler is a handler.
LEMMA ReadStepType ==
    ASSUME TypeOK, RequestConsistent, SessionConsistent, NEW r \in Requests,
           \/ \E p \in Passwords : BeginSignup(r, p)
           \/ \E u \in Users : BeginResend(r, u) \/ BeginLogin(r, u)
           \/ \E u \in Users, p \in Passwords : BeginChange(r, u, p)
           \/ \E u \in Users, c \in DOMAIN codes, p \in Passwords \union {None},
                 op \in {"verify", "reset/verify", "reset"} : SubmitCode(r, op, u, c, p)
           \/ \E s \in Sessions : BeginRefresh(r, s)
           \/ MailSent(r) \/ CodeFails(r) \/ RequestFails(r)
    PROVE  requests' \in [Requests -> Request]
<1> USE IdleType, ReadType
<1>0. ASSUME NEW x \in Request, Become(r, x) PROVE requests' \in [Requests -> Request]
  BY <1>0 DEF Become, TypeOK
<1>1. ASSUME NEW p \in Passwords, BeginSignup(r, p) PROVE \E x \in Request : Become(r, x)
  <2>1. [Idle EXCEPT !.op = "signup", !.pc = "create", !.chosen = p] \in Request
    BY DEF Request
  <2> QED
    BY <1>1, <2>1 DEF BeginSignup
<1>2. ASSUME NEW u \in Users, BeginResend(r, u) PROVE \E x \in Request : Become(r, x)
  <2>1. /\ [Idle EXCEPT !.op = "forgot", !.pc = "retire", !.user = u] \in Request
        /\ [Idle EXCEPT !.op = "resend", !.pc = "retire", !.user = u] \in Request
    BY DEF Request
  <2> QED
    BY <1>2, <2>1 DEF BeginResend
<1>3. ASSUME NEW u \in Users, BeginLogin(r, u) PROVE \E x \in Request : Become(r, x)
  <2>1. [Idle EXCEPT !.op = "login", !.pc = "open", !.user = u,
                     !.given = users[u].password] \in Request
    BY DEF UserRow, Request
  <2> QED
    BY <1>3, <2>1 DEF BeginLogin
<1>4. ASSUME NEW u \in Users, NEW p \in Passwords, BeginChange(r, u, p)
      PROVE  \E x \in Request : Become(r, x)
  <2>1. [Idle EXCEPT !.op = "change", !.pc = "change", !.user = u,
                     !.given = users[u].password, !.chosen = p] \in Request
    BY DEF UserRow, Request
  <2> QED
    BY <1>4, <2>1 DEF BeginChange
<1>5. ASSUME NEW u \in Users, NEW c \in DOMAIN codes, NEW p \in Passwords \union {None},
             NEW op \in {"verify", "reset/verify", "reset"}, SubmitCode(r, op, u, c, p)
      PROVE  \E x \in Request : Become(r, x)
  <2>1. c \in 0 .. MaxCodes
    OBVIOUS
  <2>2. [Idle EXCEPT !.op = op, !.pc = "consume", !.user = u, !.code = c,
                     !.chosen = p] \in Request
    BY <2>1 DEF Request
  <2> QED
    BY <1>5, <2>2 DEF SubmitCode
<1>6. ASSUME NEW s \in Sessions, BeginRefresh(r, s) PROVE \E x \in Request : Become(r, x)
  <2>1. sessions[s].user \in Users
    BY <1>6 DEF BeginRefresh, SessionConsistent
  <2>2. [Idle EXCEPT !.op = "refresh", !.pc = "refresh", !.user = sessions[s].user,
                     !.session = s] \in Request
    BY <2>1 DEF Request
  <2> QED
    BY <1>6, <2>2 DEF BeginRefresh
<1>7. ASSUME MailSent(r) \/ CodeFails(r) \/ RequestFails(r)
      PROVE  \E x \in Request : Become(r, x)
  <2>1. [requests[r] EXCEPT !.pc = "rollback"] \in Request
    BY DEF Request
  <2> QED
    BY <1>7, <2>1 DEF MailSent, CodeFails, RequestFails
<1> QED
  BY <1>0, <1>1, <1>2, <1>3, <1>4, <1>5, <1>6, <1>7

\* A code after a step is a code.
LEMMA CodeRowType ==
    ASSUME NEW x \in CodeRow
    PROVE  /\ [x EXCEPT !.state = "consumed"] \in CodeRow
           /\ [x EXCEPT !.state = "expired"] \in CodeRow
           /\ [x EXCEPT !.mailed = TRUE] \in CodeRow
           /\ [x EXCEPT !.state = "consumed", !.uses = @ + 1] \in CodeRow
<1>1. /\ [x EXCEPT !.state = "consumed"] \in CodeRow
      /\ [x EXCEPT !.state = "expired"] \in CodeRow
      /\ [x EXCEPT !.mailed = TRUE] \in CodeRow
  BY DEF CodeRow
<1>2. [x EXCEPT !.state = "consumed", !.uses = @ + 1] \in CodeRow
  <2>1. x.uses \in Nat /\ x.uses + 1 \in Nat
    BY DEF CodeRow
  <2>2. \A n \in Nat : [x EXCEPT !.state = "consumed", !.uses = n] \in CodeRow
    BY DEF CodeRow
  <2> QED
    BY <2>1, <2>2
<1> QED
  BY <1>1, <1>2

\* Using a code changes its row alone.
LEMMA ConsumeEffect ==
    ASSUME TypeOK, NEW c \in DOMAIN codes, Consume(c)
    PROVE  /\ codes' \in [DOMAIN codes -> CodeRow]
           /\ \A d \in DOMAIN codes :
                 codes'[d] = IF d = c THEN [codes[c] EXCEPT !.state = "consumed", !.uses = @ + 1]
                                      ELSE codes[d]
<1>1. codes' = [codes EXCEPT ![c] = [codes[c] EXCEPT !.state = "consumed", !.uses = @ + 1]]
  BY DEF Consume
<1>2. codes \in [DOMAIN codes -> CodeRow]
  BY DEF TypeOK
<1> QED
  BY <1>1, <1>2, ReadType, CodeRowType

\* A new code comes after the others.
LEMMA IssueEffect ==
    ASSUME TypeOK, NEW r \in Requests, requests[r].user \in Users, IssueCode(r)
    PROVE  LET new == [user |-> requests[r].user, purpose |-> Purpose(requests[r].op),
                       state |-> "live", mailed |-> FALSE, uses |-> 0]
           IN  /\ new \in CodeRow
               /\ codes' = Append(codes, new)
               /\ codes' \in Seq(CodeRow) /\ Len(codes') = Len(codes) + 1
               /\ Len(codes') <= MaxCodes
               /\ \A d \in DOMAIN codes : codes'[d] = codes[d]
               /\ codes'[Len(codes) + 1] = new
<1> DEFINE new == [user |-> requests[r].user, purpose |-> Purpose(requests[r].op),
                   state |-> "live", mailed |-> FALSE, uses |-> 0]
<1>1. new \in CodeRow
  BY DEF CodeRow, Purpose
<1>2. codes' = Append(codes, new) /\ Len(codes) < MaxCodes
  BY DEF IssueCode
<1>3. codes \in Seq(CodeRow) /\ Len(codes) \in Nat
  BY DEF TypeOK
<1> HIDE DEF new
<1>4. codes' \in Seq(CodeRow) /\ Len(codes') = Len(codes) + 1
  BY <1>1, <1>2, <1>3
<1>5. (\A d \in DOMAIN codes : codes'[d] = codes[d]) /\ codes'[Len(codes) + 1] = new
  BY <1>1, <1>2, <1>3
<1> QED
  BY <1>1, <1>2, <1>3, <1>4, <1>5 DEF new

\* Retiring codes changes their state alone.
LEMMA RetireEffect ==
    ASSUME TypeOK, NEW r \in Requests, RetireCodes(r)
    PROVE  /\ codes' \in [DOMAIN codes -> CodeRow]
           /\ \A d \in DOMAIN codes :
                 codes'[d] = IF d \in Retired(requests[r].user, Purpose(requests[r].op))
                             THEN [codes[d] EXCEPT !.state = "consumed"] ELSE codes[d]
BY ReadType, CodeRowType DEF RetireCodes

\* A session after a step is a session.
LEMMA SessionRowType ==
    ASSUME NEW x \in SessionRow
    PROVE  /\ [x EXCEPT !.state = "gone"] \in SessionRow
           /\ [x EXCEPT !.state = "open"] \in SessionRow
           /\ [x EXCEPT !.revoked = TRUE] \in SessionRow
           /\ [x EXCEPT !.expired = FALSE] \in SessionRow
           /\ [x EXCEPT !.expired = TRUE] \in SessionRow
           /\ [x EXCEPT !.outlives = TRUE] \in SessionRow
BY DEF SessionRow

\* An account after a step is an account.
LEMMA UserRowType ==
    ASSUME NEW x \in UserRow, NEW p \in Passwords \union {None}
    PROVE  /\ [x EXCEPT !.state = "gone"] \in UserRow
           /\ [x EXCEPT !.verified = TRUE] \in UserRow
           /\ [x EXCEPT !.password = p] \in UserRow
           /\ [state |-> "live", verified |-> FALSE, password |-> p] \in UserRow
BY DEF UserRow
-----------------------------------------------------------------------------
(***************************************************************************)
(* What a step may do to what handlers build on.                           *)
(***************************************************************************)
CodesKept ==
    /\ DOMAIN codes \subseteq DOMAIN codes'
    /\ \A c \in DOMAIN codes :
          /\ codes'[c].user = codes[c].user
          /\ codes'[c].purpose = codes[c].purpose
          /\ codes[c].mailed => codes'[c].mailed
          /\ codes'[c].uses \in Nat /\ codes[c].uses <= codes'[c].uses

Kept ==
    /\ CodesKept
    /\ \A u \in Users :
          /\ users[u].state # "none" => users'[u].state # "none"
          /\ users[u].verified => users'[u].verified
    /\ \A s \in Sessions :
          sessions[s].user \in Users => sessions'[s].user = sessions[s].user

\* A handler that a step leaves alone has its premise still, or is overtaken.
LEMMA OthersGrounded ==
    ASSUME IndInv, Kept, Track, NEW r \in Requests, requests'[r] = requests[r]
    PROVE  Grounded(r)'
<1>1. Grounded(r)
  BY DEF IndInv, RequestConsistent
<1>2. r \in overtaken' \/ (r \notin overtaken /\ Premise(r)' = Premise(r))
  BY DEF Track
<1>3. r \in overtaken => r \in overtaken'
  BY DEF Track
<1>4. requests[r].pc \notin {"idle", "create"} =>
          requests[r].user \in Users /\ users'[requests[r].user].state # "none"
  BY <1>1 DEF Grounded, Kept
<1>5. requests[r].pc = "issue" =>
          \/ r \in overtaken'
          \/ (Usable(requests[r].user, Purpose(requests[r].op)) = {})'
  <2>1. CASE requests[r].pc = "issue" /\ r \notin overtaken'
    <3>1. Premise(r) = Usable(requests[r].user, Purpose(requests[r].op))
      BY <2>1 DEF Premise
    <3>2. Premise(r)' = Usable(requests[r].user, Purpose(requests[r].op))'
      BY <2>1 DEF Premise
    <3> QED
      BY <1>1, <1>2, <1>3, <2>1, <3>1, <3>2 DEF Grounded
  <2> QED
    BY <2>1
<1>6. requests[r].pc = "consume" =>
          /\ (requests[r].code \in CodesOf(requests[r].user, Purpose(requests[r].op)))'
          /\ codes'[requests[r].code].mailed
          /\ r \in overtaken' \/ codes'[requests[r].code].state = "live"
  <2>1. CASE requests[r].pc = "consume"
    <3>1. /\ (requests[r].code \in CodesOf(requests[r].user, Purpose(requests[r].op)))'
          /\ codes'[requests[r].code].mailed
      BY <1>1, <2>1 DEF Grounded, Kept, CodesKept, CodesOf
    <3>2. /\ Premise(r) = codes[requests[r].code].state
          /\ Premise(r)' = codes'[requests[r].code].state
      BY <2>1 DEF Premise
    <3> QED
      BY <1>1, <1>2, <1>3, <2>1, <3>1, <3>2 DEF Grounded
  <2> QED
    BY <2>1
<1>7. requests[r].pc \in {"open", "hash", "refresh"} => users'[requests[r].user].verified
  BY <1>1 DEF Grounded, Kept
<1>8. requests[r].pc = "open" =>
          \/ r \in overtaken'
          \/ requests[r].given = users'[requests[r].user].password
  <2>1. CASE requests[r].pc = "open"
    <3>1. /\ Premise(r) = users[requests[r].user].password
          /\ Premise(r)' = users'[requests[r].user].password
      BY <2>1 DEF Premise
    <3> QED
      BY <1>1, <1>2, <1>3, <2>1, <3>1 DEF Grounded
  <2> QED
    BY <2>1
<1>9. requests[r].pc \in {"hash", "refresh"} =>
          /\ requests[r].session \in Sessions
          /\ sessions'[requests[r].session].user = requests[r].user
  BY <1>1, <1>4 DEF Grounded, Kept
<1> QED
  BY <1>4, <1>5, <1>6, <1>7, <1>8, <1>9 DEF Grounded

\* All handlers have their premise, if the one that made the step has.
LEMMA AllGrounded ==
    ASSUME IndInv, Kept, Track, NEW r \in Requests, NEW x, Become(r, x), Grounded(r)'
    PROVE  RequestConsistent'
<1>1. ASSUME NEW q \in Requests, q # r PROVE requests'[q] = requests[q]
  BY <1>1 DEF IndInv, TypeOK, Become
<1> QED
  BY <1>1, OthersGrounded DEF RequestConsistent

\* A handler that waits for nothing builds on nothing.
LEMMA IdleGrounded ==
    ASSUME IndInv, NEW r \in Requests, Become(r, Idle)
    PROVE  Grounded(r)'
<1>1. requests'[r].pc = "idle"
  BY DEF IndInv, TypeOK, Become, Idle
<1> QED
  BY <1>1 DEF Grounded

\* Nothing changes for who builds on the tables when they stay.
LEMMA SameTablesKept == IndInv /\ UNCHANGED tables => Kept
<1> SUFFICES ASSUME IndInv, UNCHANGED tables PROVE Kept
  OBVIOUS
<1>1. \A c \in DOMAIN codes : codes[c].uses \in Nat
  BY ReadType DEF IndInv, CodeRow
<1> QED
  BY <1>1 DEF tables, Kept, CodesKept

\* What the tables say of each other.
TablesConsistent ==
    /\ OneAccount
    /\ UserConsistent
    /\ CodeConsistent
    /\ SessionConsistent
    /\ VerifiedByMail
    /\ ClosedByReset
    /\ OpenedWithPassword

\* ... is about the tables, and about access tokens that do not appear.
LEMMA SameTables ==
    ASSUME IndInv, UNCHANGED <<tables, reset>>, access' \subseteq access
    PROVE  TablesConsistent'
<1> USE DEF IndInv, tables
<1>1. OneAccount' /\ UserConsistent' /\ CodeConsistent'
  BY DEF OneAccount, UserConsistent, CodeConsistent, Live
<1>2. SessionConsistent' /\ ClosedByReset' /\ OpenedWithPassword'
  BY DEF SessionConsistent, ClosedByReset, OpenedWithPassword, Live
<1>3. VerifiedByMail'
  BY DEF VerifiedByMail, CodesOf
<1> QED
  BY <1>1, <1>2, <1>3 DEF TablesConsistent

\* The mail that verified an account is remembered.
LEMMA MailRemembered ==
    ASSUME IndInv, CodesKept, \A u \in Users : users'[u].verified => users[u].verified
    PROVE  VerifiedByMail'
<1> SUFFICES ASSUME NEW u \in Users, users[u].verified
             PROVE  \E c \in CodesOf(u, "signup")' : codes'[c].mailed /\ codes'[c].uses > 0
  BY DEF VerifiedByMail
<1>1. PICK c \in CodesOf(u, "signup") : codes[c].mailed /\ codes[c].uses > 0
  BY DEF IndInv, VerifiedByMail
<1>2. codes[c].uses \in Nat
  BY <1>1, ReadType DEF IndInv, CodeRow, CodesOf
<1> QED
  BY <1>1, <1>2 DEF CodesKept, CodesOf

\* A step on the codes only.
LEMMA CodesStep ==
    ASSUME IndInv, UNCHANGED <<users, sessions, access, reset>>, CodesKept, CodeConsistent'
    PROVE  TablesConsistent'
<1> USE DEF IndInv
<1>1. OneAccount' /\ UserConsistent'
  BY DEF OneAccount, UserConsistent, Live
<1>2. SessionConsistent' /\ ClosedByReset' /\ OpenedWithPassword'
  BY DEF SessionConsistent, ClosedByReset, OpenedWithPassword, Live
<1>3. VerifiedByMail'
  BY MailRemembered
<1> QED
  BY <1>1, <1>2, <1>3 DEF TablesConsistent

\* A step on one session: the row it becomes belongs to a live, verified account,
\* is as closed as it was, and has the account's password or may outlive it.
LEMMA SessionStep ==
    ASSUME IndInv, UNCHANGED <<users, codes, reset>>,
           \A u \in access' : u \in access \/ (u \in Users /\ users[u].verified),
           NEW s \in Sessions, NEW x \in SessionRow, sessions' = [sessions EXCEPT ![s] = x],
           x.user \in Users, x.state \in {"pending", "open"}, Live(x.user),
           users[x.user].verified,
           s \in reset => x.revoked,
           ~x.revoked => x.password = users[x.user].password \/ x.outlives
    PROVE  TablesConsistent'
<1> USE DEF IndInv, TypeOK
<1>0. \A t \in Sessions : sessions'[t] = IF t = s THEN x ELSE sessions[t]
  OBVIOUS
<1>1. OneAccount' /\ UserConsistent' /\ CodeConsistent'
  BY DEF OneAccount, UserConsistent, CodeConsistent, Live
<1>2. SessionConsistent'
  BY <1>0 DEF SessionConsistent, Live
<1>3. ClosedByReset' /\ OpenedWithPassword'
  BY <1>0 DEF ClosedByReset, OpenedWithPassword
<1>4. VerifiedByMail'
  BY DEF VerifiedByMail, CodesOf
<1> QED
  BY <1>1, <1>2, <1>3, <1>4 DEF TablesConsistent
-----------------------------------------------------------------------------
(***************************************************************************)
(* The steps, by the tables they write.                                    *)
(***************************************************************************)
\* Steps that only read.
LEMMA ReadStep ==
    ASSUME IndInv, NEW r \in Requests,
           \/ \E p \in Passwords : BeginSignup(r, p)
           \/ \E u \in Users : BeginResend(r, u) \/ BeginLogin(r, u)
           \/ \E u \in Users, p \in Passwords : BeginChange(r, u, p)
           \/ \E u \in Users, c \in DOMAIN codes, p \in Passwords \union {None},
                 op \in {"verify", "reset/verify", "reset"} : SubmitCode(r, op, u, c, p)
           \/ \E s \in Sessions : BeginRefresh(r, s)
           \/ MailSent(r) \/ CodeFails(r) \/ RequestFails(r)
    PROVE  IndInv'
<1>1. UNCHANGED <<tables, access, reset>> /\ Track
  BY DEF BeginSignup, BeginResend, BeginLogin, BeginChange, SubmitCode, BeginRefresh,
         MailSent, CodeFails, RequestFails
<1>2. requests' \in [Requests -> Request]
  BY ReadStepType DEF IndInv
<1>3. TypeOK'
  BY <1>1, <1>2 DEF IndInv, TypeOK, tables, Track
<1>4. Kept
  BY <1>1, SameTablesKept
<1>5. TablesConsistent'
  BY <1>1, SameTables
<1> USE DEF Become, IndInv, TypeOK
<1>6. ASSUME NEW p \in Passwords, BeginSignup(r, p)
      PROVE  Grounded(r)' /\ \E x : Become(r, x)
  BY <1>6 DEF BeginSignup, Idle, Grounded
<1>7. ASSUME NEW u \in Users, BeginResend(r, u)
      PROVE  Grounded(r)' /\ \E x : Become(r, x)
  BY <1>1, <1>7 DEF BeginResend, Idle, Grounded, Live, tables
<1>8. ASSUME NEW u \in Users, BeginLogin(r, u)
      PROVE  Grounded(r)' /\ \E x : Become(r, x)
  BY <1>1, <1>8 DEF BeginLogin, Idle, Grounded, Live, tables
<1>9. ASSUME NEW u \in Users, NEW p \in Passwords, BeginChange(r, u, p)
      PROVE  Grounded(r)' /\ \E x : Become(r, x)
  BY <1>1, <1>9 DEF BeginChange, Idle, Grounded, Live, tables
<1>10. ASSUME NEW u \in Users, NEW c \in DOMAIN codes, NEW p \in Passwords \union {None},
              NEW op \in {"verify", "reset/verify", "reset"}, SubmitCode(r, op, u, c, p)
       PROVE  Grounded(r)' /\ \E x : Become(r, x)
  <2>1. /\ requests'[r].op = op /\ requests'[r].pc = "consume"
        /\ requests'[r].user = u /\ requests'[r].code = c
    BY <1>10 DEF SubmitCode, Idle
  <2>2. c \in CodesOf(u, Purpose(op)) /\ codes[c].mailed /\ codes[c].state = "live"
    BY <1>10 DEF SubmitCode, IsNewest, Usable
  <2>3. (c \in CodesOf(u, Purpose(op)))'
    BY <1>1, <2>2 DEF CodesOf, tables
  <2> QED
    BY <1>1, <1>10, <2>1, <2>2, <2>3 DEF Grounded, SubmitCode, Live, tables
<1>11. ASSUME NEW s \in Sessions, BeginRefresh(r, s)
       PROVE  Grounded(r)' /\ \E x : Become(r, x)
  <2>1. sessions[s].user \in Users /\ users[sessions[s].user].state # "none"
    BY <1>11 DEF BeginRefresh, SessionConsistent, Live
  <2> QED
    BY <1>1, <1>11, <2>1 DEF BeginRefresh, Idle, Grounded, tables
<1>12. ASSUME CodeFails(r) PROVE Grounded(r)' /\ \E x : Become(r, x)
  <2>1. requests[r].pc \in {"issue", "mail"} /\ Grounded(r)
    BY <1>12 DEF CodeFails, CanRollBack, RequestConsistent
  <2>2. requests[r].user \in Users /\ users[requests[r].user].state # "none"
    BY <2>1 DEF Grounded
  <2>3. requests'[r].pc = "rollback" /\ requests'[r].user = requests[r].user
    BY <1>12 DEF CodeFails, Request
  <2> QED
    BY <1>1, <1>12, <2>2, <2>3 DEF Grounded, tables, CodeFails
<1>13. ASSUME MailSent(r) \/ RequestFails(r) PROVE Grounded(r)' /\ \E x : Become(r, x)
  BY <1>13, IdleGrounded DEF MailSent, RequestFails
<1>14. RequestConsistent'
  BY <1>1, <1>4, <1>6, <1>7, <1>8, <1>9, <1>10, <1>11, <1>12, <1>13, AllGrounded
<1> QED
  BY <1>3, <1>5, <1>14 DEF TablesConsistent

\* The process dies, or an access token runs out.
LEMMA QuietStep ==
    ASSUME IndInv, Crash \/ \E u \in Users : ExpireAccess(u)
    PROVE  IndInv'
<1>1. UNCHANGED <<tables, reset>> /\ Track /\ access' \subseteq access
  BY DEF Crash, ExpireAccess
<1>2. requests' \in [Requests -> Request]
  BY IdleType DEF IndInv, TypeOK, Crash, ExpireAccess
<1>3. TypeOK'
  BY <1>1, <1>2 DEF IndInv, TypeOK, tables, Track
<1>4. Kept
  BY <1>1, SameTablesKept
<1>5. TablesConsistent'
  BY <1>1, SameTables
<1>6. ASSUME NEW r \in Requests PROVE Grounded(r)'
  <2>1. CASE Crash
    BY <2>1 DEF Crash, Idle, Grounded
  <2>2. CASE \E u \in Users : ExpireAccess(u)
    BY <1>1, <1>4, <2>2, OthersGrounded DEF ExpireAccess
  <2> QED
    BY <2>1, <2>2
<1> QED
  BY <1>3, <1>5, <1>6 DEF IndInv, RequestConsistent, TablesConsistent

\* Codes that are retired.
LEMMA RetireStep ==
    ASSUME IndInv, NEW r \in Requests, RetireCodes(r)
    PROVE  IndInv'
<1> DEFINE x == [requests[r] EXCEPT !.pc = "issue"]
           old == Retired(requests[r].user, Purpose(requests[r].op))
<1>1. /\ UNCHANGED <<users, sessions, access, reset>> /\ Track /\ Become(r, x)
      /\ requests[r].pc = "retire"
  BY DEF RetireCodes, At
<1>2. /\ codes' \in [DOMAIN codes -> CodeRow]
      /\ \A d \in DOMAIN codes :
            codes'[d] = IF d \in old THEN [codes[d] EXCEPT !.state = "consumed"] ELSE codes[d]
  BY RetireEffect DEF IndInv
<1>3. codes' \in Seq(CodeRow) /\ Len(codes') = Len(codes) /\ DOMAIN codes' = DOMAIN codes
  BY <1>2, CodesType DEF IndInv
<1>4. x \in Request /\ x.pc = "issue" /\ x.user = requests[r].user /\ x.op = requests[r].op
  BY DEF IndInv, TypeOK, Request
<1>5. TypeOK'
  BY <1>1, <1>3, <1>4 DEF IndInv, TypeOK, Track, Become
<1>6. \A d \in DOMAIN codes :
         /\ codes'[d].user = codes[d].user /\ codes'[d].purpose = codes[d].purpose
         /\ codes'[d].mailed = codes[d].mailed /\ codes'[d].uses = codes[d].uses
         /\ codes'[d].uses \in Nat
         /\ codes'[d].state = IF d \in old THEN "consumed" ELSE codes[d].state
  BY <1>2, ReadType DEF IndInv, CodeRow
<1>7. Kept
  BY <1>1, <1>3, <1>6 DEF Kept, CodesKept
<1>8. CodeConsistent'
  BY <1>1, <1>3, <1>6 DEF IndInv, CodeConsistent
<1>9. TablesConsistent'
  BY <1>1, <1>7, <1>8, CodesStep DEF Kept
<1>10. Grounded(r)'
  <2>1. requests'[r] = x
    BY <1>1 DEF IndInv, TypeOK, Become
  <2>2. requests[r].user \in Users /\ users'[requests[r].user].state # "none"
    BY <1>1 DEF IndInv, RequestConsistent, Grounded
  <2>3. (Usable(requests[r].user, Purpose(requests[r].op)) = {})'
    BY <1>3, <1>4, <1>6, <2>1 DEF Usable, CodesOf, Retired
  <2> QED
    BY <1>4, <2>1, <2>2, <2>3 DEF Grounded
<1> QED
  BY <1>1, <1>5, <1>7, <1>9, <1>10, AllGrounded DEF IndInv, TablesConsistent

\* A new code.
LEMMA IssueStep ==
    ASSUME IndInv, NEW r \in Requests, IssueCode(r)
    PROVE  IndInv'
<1> DEFINE x == [requests[r] EXCEPT !.pc = "mail"]
           new == [user |-> requests[r].user, purpose |-> Purpose(requests[r].op),
                   state |-> "live", mailed |-> FALSE, uses |-> 0]
<1>1. /\ UNCHANGED <<users, sessions, access, reset>> /\ Track /\ Become(r, x)
      /\ requests[r].pc = "issue"
  BY DEF IssueCode, At
<1>2. requests[r].user \in Users /\ users[requests[r].user].state # "none"
  BY <1>1 DEF IndInv, RequestConsistent, Grounded
<1>3. /\ codes' \in Seq(CodeRow) /\ Len(codes') = Len(codes) + 1
      /\ Len(codes') <= MaxCodes
      /\ \A d \in DOMAIN codes : codes'[d] = codes[d]
      /\ codes'[Len(codes) + 1] = new
  BY <1>2, IssueEffect DEF IndInv
<1>4. x \in Request /\ x.pc = "mail" /\ x.user = requests[r].user
  BY DEF IndInv, TypeOK, Request
<1>5. TypeOK'
  BY <1>1, <1>3, <1>4 DEF IndInv, TypeOK, Track, Become
<1>6. DOMAIN codes' = DOMAIN codes \union {Len(codes) + 1} /\ Len(codes) + 1 \notin DOMAIN codes
  BY <1>3 DEF IndInv, TypeOK
<1>7. Kept
  BY <1>1, <1>3, <1>6, ReadType DEF IndInv, Kept, CodesKept, CodeRow
<1>8. CodeConsistent'
  BY <1>1, <1>2, <1>3, <1>6 DEF IndInv, CodeConsistent
<1>9. TablesConsistent'
  BY <1>1, <1>7, <1>8, CodesStep DEF Kept
<1>10. Grounded(r)'
  BY <1>1, <1>2, <1>4 DEF IndInv, TypeOK, Become, Grounded
<1> QED
  BY <1>1, <1>5, <1>7, <1>9, <1>10, AllGrounded DEF IndInv, TablesConsistent

\* A mail arrives, or a code runs out.
LEMMA CodeAgesStep ==
    ASSUME IndInv, NEW c \in DOMAIN codes, MailArrives(c) \/ ExpireCode(c)
    PROVE  IndInv'
<1>1. UNCHANGED <<users, sessions, access, requests, reset>> /\ Track
  BY DEF MailArrives, ExpireCode
<1>2. /\ codes' \in [DOMAIN codes -> CodeRow]
      /\ \A d \in DOMAIN codes :
            /\ codes'[d].user = codes[d].user /\ codes'[d].purpose = codes[d].purpose
            /\ codes'[d].uses = codes[d].uses /\ codes'[d].uses \in Nat
            /\ codes[d].mailed => codes'[d].mailed
            /\ codes'[d].state = "live" => codes[d].state = "live"
  <2>1. codes \in [DOMAIN codes -> CodeRow]
    BY DEF IndInv, TypeOK
  <2>2. CASE MailArrives(c)
    <3> DEFINE y == [codes[c] EXCEPT !.mailed = TRUE]
    <3>1. codes' = [codes EXCEPT ![c] = y]
      BY <2>2 DEF MailArrives
    <3>2. codes[c] \in CodeRow /\ y \in CodeRow
      BY <2>1, CodeRowType
    <3>3. /\ y.user = codes[c].user /\ y.purpose = codes[c].purpose /\ y.uses = codes[c].uses
          /\ codes[c].mailed => y.mailed
          /\ y.state = "live" => codes[c].state = "live"
      BY <3>2 DEF CodeRow
    <3>4. \A d \in DOMAIN codes : codes'[d] = IF d = c THEN y ELSE codes[d]
      BY <2>1, <3>1
    <3> HIDE DEF y
    <3>5. \A d \in DOMAIN codes : codes[d].uses \in Nat
      BY <2>1 DEF CodeRow
    <3> QED
      BY <2>1, <3>1, <3>2, <3>3, <3>4, <3>5
  <2>3. CASE ExpireCode(c)
    <3> DEFINE y == [codes[c] EXCEPT !.state = "expired"]
    <3>1. codes' = [codes EXCEPT ![c] = y]
      BY <2>3 DEF ExpireCode
    <3>2. codes[c] \in CodeRow /\ y \in CodeRow
      BY <2>1, CodeRowType
    <3>3. /\ y.user = codes[c].user /\ y.purpose = codes[c].purpose /\ y.uses = codes[c].uses
          /\ codes[c].mailed => y.mailed
          /\ y.state = "live" => codes[c].state = "live"
      BY <3>2 DEF CodeRow
    <3>4. \A d \in DOMAIN codes : codes'[d] = IF d = c THEN y ELSE codes[d]
      BY <2>1, <3>1
    <3> HIDE DEF y
    <3>5. \A d \in DOMAIN codes : codes[d].uses \in Nat
      BY <2>1 DEF CodeRow
    <3> QED
      BY <2>1, <3>1, <3>2, <3>3, <3>4, <3>5
  <2> QED
    BY <2>2, <2>3
<1>3. codes' \in Seq(CodeRow) /\ Len(codes') = Len(codes) /\ DOMAIN codes' = DOMAIN codes
  BY <1>2, CodesType DEF IndInv
<1>4. TypeOK'
  BY <1>1, <1>3 DEF IndInv, TypeOK, Track
<1>5. Kept
  BY <1>1, <1>2, <1>3 DEF Kept, CodesKept
<1>6. CodeConsistent'
  BY <1>1, <1>2, <1>3 DEF IndInv, CodeConsistent
<1>7. TablesConsistent'
  BY <1>1, <1>5, <1>6, CodesStep DEF Kept
<1>8. RequestConsistent'
  BY <1>1, <1>5, OthersGrounded DEF RequestConsistent
<1> QED
  BY <1>4, <1>7, <1>8 DEF IndInv, TablesConsistent

\* What using a code leaves in the table.
LEMMA ConsumeFacts ==
    ASSUME IndInv, NEW r \in Requests, requests[r].pc = "consume", Consume(requests[r].code)
    PROVE  LET c == requests[r].code IN
           /\ c \in DOMAIN codes
           /\ codes' \in Seq(CodeRow) /\ Len(codes') = Len(codes) /\ DOMAIN codes' = DOMAIN codes
           /\ CodesKept
           /\ \A d \in DOMAIN codes : codes'[d].state = "live" =>
                 codes[d].state = "live" /\ codes'[d].uses = codes[d].uses
           /\ \A d \in DOMAIN codes : d # c => codes'[d] = codes[d]
           /\ codes'[c].uses = codes[c].uses + 1 /\ codes'[c].uses > 0
           /\ codes'[c].mailed
           /\ (c \in CodesOf(requests[r].user, Purpose(requests[r].op)))
           /\ codes'[c].user = requests[r].user
           /\ codes'[c].purpose = Purpose(requests[r].op)
<1> DEFINE c == requests[r].code
           y == [codes[c] EXCEPT !.state = "consumed", !.uses = @ + 1]
<1>1. c \in CodesOf(requests[r].user, Purpose(requests[r].op)) /\ codes[c].mailed
  BY DEF IndInv, RequestConsistent, Grounded
<1>2. c \in DOMAIN codes /\ codes[c].user = requests[r].user
      /\ codes[c].purpose = Purpose(requests[r].op)
  BY <1>1 DEF CodesOf
<1>3. /\ codes' \in [DOMAIN codes -> CodeRow]
      /\ \A d \in DOMAIN codes : codes'[d] = IF d = c THEN y ELSE codes[d]
  BY <1>2, ConsumeEffect DEF IndInv
<1>4. codes' \in Seq(CodeRow) /\ Len(codes') = Len(codes) /\ DOMAIN codes' = DOMAIN codes
  BY <1>3, CodesType DEF IndInv
<1>5. codes[c] \in CodeRow /\ codes[c].uses \in Nat
  BY <1>2, ReadType DEF IndInv, CodeRow
<1>6. /\ y.user = codes[c].user /\ y.purpose = codes[c].purpose /\ y.mailed = codes[c].mailed
      /\ y.state = "consumed" /\ y.uses = codes[c].uses + 1
  BY <1>5 DEF CodeRow
<1>7. \A d \in DOMAIN codes : codes[d].uses \in Nat
  BY ReadType DEF IndInv, CodeRow
<1> HIDE DEF y
<1>8. CodesKept
  BY <1>3, <1>4, <1>5, <1>6, <1>7 DEF CodesKept
<1>9. \A d \in DOMAIN codes : codes'[d].state = "live" =>
         codes[d].state = "live" /\ codes'[d].uses = codes[d].uses
  BY <1>3, <1>6
<1>10. \A d \in DOMAIN codes : d # c => codes'[d] = codes[d]
  BY <1>3
<1>11. /\ codes'[c].uses = codes[c].uses + 1 /\ codes'[c].uses > 0 /\ codes'[c].mailed
       /\ codes'[c].user = requests[r].user
       /\ codes'[c].purpose = Purpose(requests[r].op)
  <2>1. codes'[c] = y
    BY <1>2, <1>3
  <2>2. y.uses > 0
    BY <1>5, <1>6
  <2> QED
    BY <1>1, <1>2, <1>6, <2>1, <2>2
<1> HIDE DEF c
<1> QED
  BY <1>1, <1>2, <1>4, <1>8, <1>9, <1>10, <1>11 DEF c

\* A code is used for the password, alone.
LEMMA ConsumeStep ==
    ASSUME IndInv, NEW r \in Requests, VerifyReset(r) \/ ConsumeReset(r)
    PROVE  IndInv'
<1> DEFINE x == [requests[r] EXCEPT !.pc = "password"]
           c == requests[r].code
<1>1. /\ UNCHANGED <<users, sessions, access, reset>> /\ Track
      /\ Become(r, Idle) \/ Become(r, x)
      /\ requests[r].pc = "consume" /\ Consume(c)
  BY DEF VerifyReset, ConsumeReset, At
<1>2. /\ codes' \in Seq(CodeRow) /\ Len(codes') = Len(codes) /\ DOMAIN codes' = DOMAIN codes
      /\ CodesKept
      /\ \A d \in DOMAIN codes : codes'[d].state = "live" =>
            codes[d].state = "live" /\ codes'[d].uses = codes[d].uses
  BY <1>1, ConsumeFacts
<1>3. x \in Request /\ x.pc = "password" /\ x.user = requests[r].user
  BY DEF IndInv, TypeOK, Request
<1>4. TypeOK'
  BY <1>1, <1>2, <1>3, IdleType DEF IndInv, TypeOK, Track, Become
<1>5. Kept
  BY <1>1, <1>2 DEF Kept
<1>6. CodeConsistent'
  <2>1. ASSUME NEW d \in DOMAIN codes', codes'[d].state = "live" PROVE codes'[d].uses = 0
    BY <1>2, <2>1 DEF IndInv, CodeConsistent
  <2>2. ASSUME NEW d \in DOMAIN codes' PROVE users'[codes'[d].user].state # "none"
    BY <1>1, <1>2, <2>2 DEF IndInv, CodeConsistent, CodesKept
  <2> QED
    BY <2>1, <2>2 DEF CodeConsistent
<1>7. TablesConsistent'
  BY <1>1, <1>2, <1>6, CodesStep
<1>8. Grounded(r)'
  <2>1. CASE Become(r, Idle)
    BY <2>1, IdleGrounded
  <2>2. CASE Become(r, x)
    <3>1. requests[r].user \in Users /\ users[requests[r].user].state # "none"
      BY <1>1 DEF IndInv, RequestConsistent, Grounded
    <3>2. requests'[r] = x
      BY <2>2 DEF IndInv, TypeOK, Become
    <3> QED
      BY <1>1, <1>3, <3>1, <3>2 DEF Grounded
  <2> QED
    BY <1>1, <2>1, <2>2
<1> QED
  BY <1>1, <1>4, <1>5, <1>7, <1>8, AllGrounded DEF IndInv, TablesConsistent

\* A code is used for the address, which is verified.
LEMMA VerifyStep ==
    ASSUME IndInv, NEW r \in Requests, VerifyAddress(r)
    PROVE  IndInv'
<1> DEFINE u == requests[r].user
           c == requests[r].code
           y == [users[u] EXCEPT !.verified = TRUE]
<1>1. /\ UNCHANGED <<sessions, access, reset>> /\ Track /\ Become(r, Idle)
      /\ requests[r].pc = "consume" /\ requests[r].op = "verify"
      /\ Consume(c) /\ Live(u) /\ users' = [users EXCEPT ![u] = y]
  BY DEF VerifyAddress, At
<1>2. /\ c \in DOMAIN codes
      /\ codes' \in Seq(CodeRow) /\ Len(codes') = Len(codes) /\ DOMAIN codes' = DOMAIN codes
      /\ CodesKept
      /\ \A d \in DOMAIN codes : codes'[d].state = "live" =>
            codes[d].state = "live" /\ codes'[d].uses = codes[d].uses
      /\ codes'[c].uses > 0 /\ codes'[c].mailed
      /\ codes'[c].user = u /\ codes'[c].purpose = "signup"
  BY <1>1, ConsumeFacts DEF Purpose
<1>3. u \in Users /\ users[u] \in UserRow
  BY <1>1, ReadType DEF IndInv, RequestConsistent, Grounded
<1>4. y \in UserRow /\ y.verified /\ y.state = users[u].state /\ y.password = users[u].password
  BY <1>3 DEF UserRow
<1>5. \A v \in Users : users'[v] = IF v = u THEN y ELSE users[v]
  BY <1>1 DEF IndInv, TypeOK
<1> HIDE DEF y
<1>6. TypeOK'
  BY <1>1, <1>2, <1>3, <1>4, <1>5, IdleType DEF IndInv, TypeOK, Track, Become
<1>7. Kept
  BY <1>1, <1>2, <1>4, <1>5 DEF Kept
<1>8. OneAccount' /\ UserConsistent'
  BY <1>1, <1>4, <1>5 DEF IndInv, OneAccount, UserConsistent, Live
<1>9. CodeConsistent'
  <2>1. ASSUME NEW d \in DOMAIN codes', codes'[d].state = "live" PROVE codes'[d].uses = 0
    BY <1>2, <2>1 DEF IndInv, CodeConsistent
  <2>2. ASSUME NEW d \in DOMAIN codes' PROVE users'[codes'[d].user].state # "none"
    <3>1. codes[d].user \in Users /\ codes'[d].user = codes[d].user
      BY <1>2, <2>2, ReadType DEF IndInv, CodesKept, CodeRow
    <3>2. users[codes[d].user].state # "none"
      BY <1>2, <2>2 DEF IndInv, CodeConsistent
    <3> QED
      BY <1>4, <1>5, <3>1, <3>2
  <2> QED
    BY <2>1, <2>2 DEF CodeConsistent
<1>10. SessionConsistent' /\ ClosedByReset' /\ OpenedWithPassword'
  BY <1>1, <1>4, <1>5
     DEF IndInv, SessionConsistent, ClosedByReset, OpenedWithPassword, Live
<1>11. VerifiedByMail'
  <2>1. ASSUME NEW v \in Users, users'[v].verified
        PROVE  \E d \in CodesOf(v, "signup")' : codes'[d].mailed /\ codes'[d].uses > 0
    <3>1. CASE v = u
      BY <1>2, <3>1 DEF CodesOf
    <3>2. CASE v # u
      <4>1. PICK d \in CodesOf(v, "signup") : codes[d].mailed /\ codes[d].uses > 0
        BY <1>5, <2>1, <3>2 DEF IndInv, VerifiedByMail
      <4>2. codes[d].uses \in Nat
        BY <4>1, ReadType DEF IndInv, CodeRow, CodesOf
      <4> QED
        BY <1>2, <4>1, <4>2 DEF CodesKept, CodesOf
    <3> QED
      BY <3>1, <3>2
  <2> QED
    BY <2>1 DEF VerifiedByMail
<1>12. RequestConsistent'
  BY <1>1, <1>7, IdleGrounded, AllGrounded
<1> QED
  BY <1>6, <1>8, <1>9, <1>10, <1>11, <1>12 DEF IndInv

\* Who builds on a session finds its account there after the step as well.
LEMMA SessionKept ==
    ASSUME IndInv, UNCHANGED <<users, codes>>, NEW s \in Sessions, NEW x,
           sessions' = [sessions EXCEPT ![s] = x],
           sessions[s].user \in Users => x.user = sessions[s].user
    PROVE  Kept
<1>1. \A c \in DOMAIN codes : codes[c].uses \in Nat
  BY ReadType DEF IndInv, CodeRow
<1>2. \A t \in Sessions : sessions'[t] = IF t = s THEN x ELSE sessions[t]
  BY DEF IndInv, TypeOK
<1> QED
  BY <1>1, <1>2 DEF Kept, CodesKept

\* A login inserts its session.
LEMMA OpenStep ==
    ASSUME IndInv, NEW r \in Requests, NEW s \in Sessions, OpenSession(r, s)
    PROVE  IndInv'
<1> DEFINE u == requests[r].user
           row == [state |-> "pending", user |-> u, revoked |-> FALSE, expired |-> FALSE,
                   password |-> requests[r].given, outlives |-> r \in overtaken]
           x == [requests[r] EXCEPT !.pc = "hash", !.session = s]
<1>1. /\ UNCHANGED <<users, codes, access, reset>> /\ Track /\ Become(r, x)
      /\ requests[r].pc = "open" /\ sessions' = [sessions EXCEPT ![s] = row]
      /\ Live(u) /\ sessions[s].state = "none"
  BY DEF OpenSession, At
<1>2. /\ u \in Users /\ users[u].verified
      /\ r \in overtaken \/ requests[r].given = users[u].password
  BY <1>1 DEF IndInv, RequestConsistent, Grounded
<1>3. row \in SessionRow
  BY <1>2, ReadType DEF IndInv, SessionRow, Request
<1>4. /\ row.user = u /\ row.state = "pending" /\ ~row.revoked
      /\ row.password = requests[r].given /\ row.outlives = (r \in overtaken)
  OBVIOUS
<1>5. /\ x \in Request /\ x.pc = "hash" /\ x.user = u /\ x.session = s
  BY DEF IndInv, TypeOK, Request
<1> HIDE DEF row, x
<1>6. TypeOK'
  BY <1>1, <1>3, <1>5 DEF IndInv, TypeOK, Track, Become
<1>7. s \notin reset /\ sessions[s].user = None
  BY <1>1 DEF IndInv, SessionConsistent, ClosedByReset
<1>8. TablesConsistent'
  BY <1>1, <1>2, <1>3, <1>4, <1>7, SessionStep
<1>9. Kept
  BY <1>1, <1>7, SessionKept
<1>10. Grounded(r)'
  <2>1. requests'[r] = x /\ sessions'[s] = row
    BY <1>1 DEF IndInv, TypeOK, Become
  <2> QED
    BY <1>1, <1>2, <1>4, <1>5, <2>1 DEF Grounded, Live
<1> QED
  BY <1>1, <1>6, <1>8, <1>9, <1>10, AllGrounded DEF IndInv, TablesConsistent

\* The other steps on one session: it stays of its account, with its password.
LEMMA SessionAgesStep ==
    ASSUME IndInv,
           \/ \E r \in Requests : HashSession(r) \/ WriteRefresh(r)
           \/ \E s \in Sessions : Logout(s) \/ ExpireSession(s)
    PROVE  IndInv'
<1>1. ASSUME NEW s \in Sessions, NEW x \in SessionRow,
             sessions' = [sessions EXCEPT ![s] = x], sessions[s].state \in {"pending", "open"},
             x.state \in {"pending", "open"}, x.user = sessions[s].user,
             x.password = sessions[s].password, x.outlives = sessions[s].outlives,
             sessions[s].revoked => x.revoked,
             UNCHANGED <<users, codes, reset>>, Track,
             \A u \in access' : u \in access \/ (u \in Users /\ users[u].verified)
      PROVE  TablesConsistent' /\ Kept
  <2>1. /\ x.user \in Users /\ Live(x.user) /\ users[x.user].verified
        /\ s \in reset => x.revoked
        /\ ~x.revoked => x.password = users[x.user].password \/ x.outlives
    BY <1>1 DEF IndInv, SessionConsistent, ClosedByReset, OpenedWithPassword
  <2>2. TablesConsistent'
    BY <1>1, <2>1, SessionStep
  <2>3. Kept
    BY <1>1, SessionKept
  <2> QED
    BY <2>2, <2>3
<1>2. ASSUME NEW r \in Requests, HashSession(r) \/ WriteRefresh(r) PROVE IndInv'
  <2> DEFINE s == requests[r].session
             x == IF HashSession(r) THEN [sessions[s] EXCEPT !.state = "open"]
                                    ELSE [sessions[s] EXCEPT !.expired = FALSE]
  <2>1. /\ UNCHANGED <<users, codes, reset>> /\ Track /\ Become(r, Idle)
        /\ access' = access \union {requests[r].user}
        /\ requests[r].pc \in {"hash", "refresh"}
        /\ sessions[s].state \in {"pending", "open"}
    BY <1>2 DEF HashSession, WriteRefresh, At
  <2>2. /\ requests[r].user \in Users /\ users[requests[r].user].verified /\ s \in Sessions
    BY <2>1 DEF IndInv, RequestConsistent, Grounded
  <2>3. sessions' = [sessions EXCEPT ![s] = x]
    BY <1>2 DEF HashSession, WriteRefresh, Refreshed
  <2>4. /\ x \in SessionRow /\ x.user = sessions[s].user
        /\ x.password = sessions[s].password /\ x.outlives = sessions[s].outlives
        /\ x.revoked = sessions[s].revoked
        /\ x.state \in {"pending", "open"}
    <3>1. sessions[s] \in SessionRow
      BY <2>2, ReadType DEF IndInv
    <3>2. CASE HashSession(r)
      BY <2>1, <3>1, <3>2 DEF SessionRow
    <3>3. CASE ~HashSession(r)
      BY <2>1, <3>1, <3>3 DEF SessionRow
    <3> QED
      BY <3>2, <3>3
  <2> HIDE DEF x, s
  <2>5. TypeOK'
    BY <2>1, <2>2, <2>3, <2>4, IdleType DEF IndInv, TypeOK, Track, Become
  <2>6. TablesConsistent' /\ Kept
    BY <1>1, <2>1, <2>2, <2>3, <2>4
  <2>7. RequestConsistent'
    BY <2>1, <2>6, IdleGrounded, AllGrounded
  <2> QED
    BY <2>5, <2>6, <2>7 DEF IndInv, TablesConsistent
<1>3. ASSUME NEW s \in Sessions, Logout(s) \/ ExpireSession(s) PROVE IndInv'
  <2> DEFINE x == IF Logout(s) THEN [sessions[s] EXCEPT !.revoked = TRUE]
                               ELSE [sessions[s] EXCEPT !.expired = TRUE]
  <2>1. /\ UNCHANGED <<users, codes, access, requests, reset>> /\ Track
        /\ sessions[s].state \in {"pending", "open"}
    BY <1>3 DEF Logout, ExpireSession
  <2>2. sessions' = [sessions EXCEPT ![s] = x]
    BY <1>3 DEF Logout, ExpireSession
  <2>3. /\ x \in SessionRow /\ x.user = sessions[s].user /\ x.state = sessions[s].state
        /\ x.password = sessions[s].password /\ x.outlives = sessions[s].outlives
        /\ sessions[s].revoked => x.revoked
    BY ReadType DEF IndInv, SessionRow
  <2> HIDE DEF x
  <2>4. TypeOK'
    BY <2>1, <2>2, <2>3 DEF IndInv, TypeOK, Track
  <2>5. TablesConsistent' /\ Kept
    BY <1>1, <2>1, <2>2, <2>3
  <2>6. RequestConsistent'
    BY <2>1, <2>5, OthersGrounded DEF RequestConsistent
  <2> QED
    BY <2>4, <2>5, <2>6 DEF IndInv, TablesConsistent
<1> QED
  BY <1>2, <1>3

\* An account is created: nothing refers to it yet.
LEMMA CreateStep ==
    ASSUME IndInv, NEW r \in Requests, NEW u \in Users, CreateUser(r, u)
    PROVE  IndInv'
<1> DEFINE row == [state |-> "live", verified |-> FALSE, password |-> requests[r].chosen]
           x == [requests[r] EXCEPT !.pc = "issue", !.user = u]
<1>1. /\ UNCHANGED <<codes, sessions, access, reset>> /\ Track /\ Become(r, x)
      /\ users[u].state = "none" /\ \A v \in Users : ~Live(v)
      /\ users' = [users EXCEPT ![u] = row]
  BY DEF CreateUser
<1>2. row \in UserRow /\ row.state = "live" /\ ~row.verified
  BY ReadType, UserRowType DEF IndInv, Request
<1>3. x \in Request /\ x.pc = "issue" /\ x.user = u /\ x.op = requests[r].op
  BY DEF IndInv, TypeOK, Request
<1> HIDE DEF row, x
<1>4. \A v \in Users : users'[v] = IF v = u THEN row ELSE users[v]
  BY <1>1 DEF IndInv, TypeOK
<1>5. TypeOK'
  BY <1>1, <1>2, <1>3 DEF IndInv, TypeOK, Track, Become
<1>6. ~users[u].verified /\ \A c \in DOMAIN codes : codes[c].user # u
  BY <1>1 DEF IndInv, UserConsistent, CodeConsistent
<1>7. \A s \in Sessions : sessions[s].state # "none" => sessions[s].user # u
  BY <1>6 DEF IndInv, SessionConsistent
<1>8. Kept
  <2>1. \A c \in DOMAIN codes : codes[c].uses \in Nat
    BY ReadType DEF IndInv, CodeRow
  <2> QED
    BY <1>1, <1>2, <1>4, <1>6, <2>1 DEF Kept, CodesKept
<1>9. OneAccount' /\ UserConsistent'
  BY <1>1, <1>2, <1>4, <1>6 DEF IndInv, TypeOK, OneAccount, UserConsistent, Live
<1>10. CodeConsistent'
  <2>1. \A c \in DOMAIN codes : codes[c].user \in Users
    BY ReadType DEF IndInv, CodeRow
  <2> QED
    BY <1>1, <1>4, <1>6, <2>1 DEF IndInv, CodeConsistent
<1>11. SessionConsistent' /\ ClosedByReset' /\ OpenedWithPassword'
  BY <1>1, <1>4, <1>7
     DEF IndInv, SessionConsistent, ClosedByReset, OpenedWithPassword, Live
<1>12. VerifiedByMail'
  BY <1>2, <1>4, <1>8, MailRemembered DEF Kept
<1>13. Grounded(r)'
  <2>1. requests'[r] = x /\ users'[u].state # "none"
    BY <1>1, <1>2, <1>4 DEF IndInv, TypeOK, Become
  <2>2. (Usable(requests[r].user, Purpose(requests[r].op)) = {})'
    BY <1>1, <1>3, <1>6, <2>1 DEF Usable, CodesOf
  <2> QED
    BY <1>3, <2>1, <2>2 DEF Grounded
<1>14. RequestConsistent'
  BY <1>1, <1>8, <1>13, AllGrounded
<1> QED
  BY <1>5, <1>9, <1>10, <1>11, <1>12, <1>14 DEF IndInv

\* The password of an account changes, and with it some of its sessions: each is
\* revoked, or may outlive the password.
LEMMA PasswordStep ==
    ASSUME IndInv, NEW r \in Requests, ResetPassword(r) \/ WriteChange(r)
    PROVE  IndInv'
<1> DEFINE u == requests[r].user
           row == [users[u] EXCEPT !.password = requests[r].chosen]
<1>1. /\ UNCHANGED <<codes, access>> /\ Track /\ Become(r, Idle)
      /\ requests[r].pc \in {"password", "change"} /\ Live(u)
      /\ users' = [users EXCEPT ![u] = row]
  BY DEF ResetPassword, WriteChange, At
<1>2. u \in Users
  BY <1>1 DEF IndInv, RequestConsistent, Grounded
<1>3. /\ row \in UserRow /\ row.state = users[u].state /\ row.verified = users[u].verified
  <2>1. users[u] \in UserRow /\ requests[r].chosen \in Passwords \union {None}
    BY <1>2, ReadType DEF IndInv, Request
  <2>2. row \in UserRow
    BY <2>1, UserRowType
  <2>3. row.state = users[u].state /\ row.verified = users[u].verified
    BY <2>1 DEF UserRow
  <2> QED
    BY <2>2, <2>3
<1> HIDE DEF row
<1>4. \A v \in Users : users'[v] = IF v = u THEN row ELSE users[v]
  BY <1>1 DEF IndInv, TypeOK
<1>5. /\ sessions' \in [Sessions -> SessionRow]
      /\ \A s \in Sessions :
            /\ sessions'[s].state = sessions[s].state /\ sessions'[s].user = sessions[s].user
            /\ sessions'[s].password = sessions[s].password
            /\ sessions[s].revoked => sessions'[s].revoked
            /\ sessions[s].outlives => sessions'[s].outlives
            /\ sessions[s].state = "none" => sessions'[s] = sessions[s]
            /\ s \in SessionsOf(u) => sessions'[s].revoked \/ sessions'[s].outlives
            /\ s \in reset' => s \in reset \/ sessions'[s].revoked
  <2>1. \A s \in Sessions :
          /\ sessions[s] \in SessionRow
          /\ [sessions[s] EXCEPT !.revoked = TRUE] \in SessionRow
          /\ [sessions[s] EXCEPT !.outlives = TRUE] \in SessionRow
    BY ReadType, SessionRowType DEF IndInv
  <2>2. CASE ResetPassword(r)
    <3>1. /\ sessions' = [s \in Sessions |-> IF s \in ToRevoke(u)
                                             THEN [sessions[s] EXCEPT !.revoked = TRUE]
                                             ELSE sessions[s]]
          /\ reset' = reset \union SessionsOf(u)
      BY <2>2 DEF ResetPassword
    <3>2. \A s \in Sessions : s \in SessionsOf(u) => s \in ToRevoke(u) \/ sessions[s].revoked
      BY DEF ToRevoke
    <3>3. \A s \in Sessions : s \in ToRevoke(u) => s \in SessionsOf(u) /\ sessions[s].state # "none"
      BY DEF ToRevoke, SessionsOf
    <3> QED
      BY <2>1, <3>1, <3>2, <3>3 DEF SessionRow
  <2>3. CASE WriteChange(r)
    <3>1. /\ sessions' = [s \in Sessions |-> IF s \in SessionsOf(u)
                                             THEN [sessions[s] EXCEPT !.outlives = TRUE]
                                             ELSE sessions[s]]
          /\ reset' = reset
      BY <2>3 DEF WriteChange
    <3>2. \A s \in Sessions : s \in SessionsOf(u) => sessions[s].state # "none"
      BY DEF SessionsOf
    <3> QED
      BY <2>1, <3>1, <3>2 DEF SessionRow
  <2> QED
    BY <2>2, <2>3
<1>6. reset' \subseteq Sessions
  BY DEF IndInv, TypeOK, ResetPassword, WriteChange, SessionsOf
<1>7. TypeOK'
  BY <1>1, <1>2, <1>3, <1>5, <1>6, IdleType DEF IndInv, TypeOK, Track, Become
<1>8. Kept
  <2>1. \A c \in DOMAIN codes : codes[c].uses \in Nat
    BY ReadType DEF IndInv, CodeRow
  <2> QED
    BY <1>1, <1>3, <1>4, <1>5, <2>1 DEF Kept, CodesKept
<1>9. OneAccount' /\ UserConsistent'
  BY <1>1, <1>3, <1>4 DEF IndInv, TypeOK, OneAccount, UserConsistent, Live
<1>10. CodeConsistent'
  <2>1. \A c \in DOMAIN codes : codes[c].user \in Users
    BY ReadType DEF IndInv, CodeRow
  <2> QED
    BY <1>1, <1>3, <1>4, <2>1 DEF IndInv, CodeConsistent
<1>11. SessionConsistent'
  BY <1>3, <1>4, <1>5 DEF IndInv, SessionConsistent, Live
<1>12. ClosedByReset'
  BY <1>5, <1>6 DEF IndInv, TypeOK, ClosedByReset
<1>13. OpenedWithPassword'
  <2>1. ASSUME NEW s \in Sessions, sessions'[s].state \in {"pending", "open"},
               ~sessions'[s].revoked
        PROVE  sessions'[s].password = users'[sessions'[s].user].password
               \/ sessions'[s].outlives
    <3>1. CASE sessions[s].user = u
      BY <1>5, <2>1, <3>1 DEF SessionsOf
    <3>2. CASE sessions[s].user # u
      <4>1. sessions[s].user \in Users
        BY <1>5, <2>1 DEF IndInv, SessionConsistent
      <4> QED
        BY <1>4, <1>5, <2>1, <3>2, <4>1 DEF IndInv, OpenedWithPassword
    <3> QED
      BY <3>1, <3>2
  <2> QED
    BY <2>1 DEF OpenedWithPassword
<1>14. VerifiedByMail'
  BY <1>3, <1>4, <1>8, MailRemembered DEF Kept
<1>15. RequestConsistent'
  BY <1>1, <1>8, IdleGrounded, AllGrounded
<1> QED
  BY <1>7, <1>9, <1>10, <1>11, <1>12, <1>13, <1>14, <1>15 DEF IndInv

\* An account goes, and its sessions with it.
LEMMA GoneStep ==
    ASSUME IndInv, NEW u \in Users, Live(u), Gone(u), UNCHANGED <<codes, access, reset>>,
           Track, UNCHANGED requests \/ \E r \in Requests : Become(r, Idle)
    PROVE  IndInv'
<1> DEFINE row == [users[u] EXCEPT !.state = "gone"]
<1>1. /\ row \in UserRow /\ row.state = "gone" /\ row.verified = users[u].verified
      /\ row.password = users[u].password
  BY ReadType, UserRowType DEF IndInv, UserRow
<1>2. \A v \in Users : users'[v] = IF v = u THEN row ELSE users[v]
  BY DEF IndInv, TypeOK, Gone
<1>3. users' \in [Users -> UserRow]
  BY <1>1 DEF IndInv, TypeOK, Gone
<1> HIDE DEF row
<1>4. /\ sessions' \in [Sessions -> SessionRow]
      /\ \A s \in Sessions :
            /\ sessions'[s].state = IF sessions[s].user = u THEN "gone" ELSE sessions[s].state
            /\ sessions'[s].user = sessions[s].user
            /\ sessions'[s].revoked = sessions[s].revoked
            /\ sessions'[s].password = sessions[s].password
            /\ sessions'[s].outlives = sessions[s].outlives
  BY ReadType, SessionRowType DEF IndInv, Gone, SessionRow
<1>5. requests' \in [Requests -> Request]
  BY IdleType DEF IndInv, TypeOK, Become
<1>6. TypeOK'
  BY <1>3, <1>4, <1>5 DEF IndInv, TypeOK, Track
<1>7. Kept
  <2>1. \A c \in DOMAIN codes : codes[c].uses \in Nat
    BY ReadType DEF IndInv, CodeRow
  <2> QED
    BY <1>1, <1>2, <1>4, <2>1 DEF Kept, CodesKept
<1>8. OneAccount' /\ UserConsistent'
  BY <1>1, <1>2 DEF IndInv, TypeOK, OneAccount, UserConsistent, Live
<1>9. CodeConsistent'
  <2>1. \A c \in DOMAIN codes : codes[c].user \in Users
    BY ReadType DEF IndInv, CodeRow
  <2> QED
    BY <1>1, <1>2, <2>1 DEF IndInv, CodeConsistent
<1>10. SessionConsistent'
  BY <1>1, <1>2, <1>4 DEF IndInv, SessionConsistent, Live
<1>11. ClosedByReset' /\ OpenedWithPassword'
  BY <1>1, <1>2, <1>4
     DEF IndInv, TypeOK, SessionConsistent, ClosedByReset, OpenedWithPassword
<1>12. VerifiedByMail'
  BY <1>1, <1>2, <1>7, MailRemembered DEF Kept
<1>13. RequestConsistent'
  BY <1>7, IdleGrounded, AllGrounded, OthersGrounded DEF RequestConsistent
<1> QED
  BY <1>6, <1>8, <1>9, <1>10, <1>11, <1>12, <1>13 DEF IndInv
-----------------------------------------------------------------------------
(***************************************************************************)
(* The inductive invariant, and what follows from it.                      *)
(***************************************************************************)
LEMMA InvariantStep == IndInv /\ [Next]_vars => IndInv'
<1> SUFFICES ASSUME IndInv, [Next]_vars PROVE IndInv'
  OBVIOUS
<1>1. CASE UNCHANGED vars
  <2>1. TypeOK' /\ TablesConsistent'
    BY <1>1, SameTables DEF vars, tables, IndInv, TypeOK
  <2>2. RequestConsistent'
    BY <1>1 DEF vars, tables, IndInv, RequestConsistent, Grounded, Usable, CodesOf
  <2> QED
    BY <2>1, <2>2 DEF IndInv, TablesConsistent
<1>2. ASSUME NEW r \in Requests, Rollback(r) PROVE IndInv'
  <2>1. requests[r].user \in Users
    BY <1>2 DEF Rollback, At, IndInv, RequestConsistent, Grounded
  <2> QED
    BY <1>2, <2>1, GoneStep DEF Rollback
<1>3. ASSUME NEW u \in Users, DeleteUser(u) PROVE IndInv'
  BY <1>3, GoneStep DEF DeleteUser
<1>4. ASSUME NEW r \in Requests,
             \/ \E p \in Passwords : BeginSignup(r, p)
             \/ \E u \in Users : BeginResend(r, u) \/ BeginLogin(r, u)
             \/ \E u \in Users, p \in Passwords : BeginChange(r, u, p)
             \/ \E u \in Users, c \in DOMAIN codes, p \in Passwords \union {None},
                   op \in {"verify", "reset/verify", "reset"} : SubmitCode(r, op, u, c, p)
             \/ \E s \in Sessions : BeginRefresh(r, s)
             \/ MailSent(r) \/ CodeFails(r) \/ RequestFails(r)
      PROVE  IndInv'
  BY <1>4, ReadStep
<1>5. ASSUME NEW r \in Requests,
             \/ \E u \in Users : CreateUser(r, u)
             \/ \E s \in Sessions : OpenSession(r, s)
             \/ RetireCodes(r) \/ IssueCode(r) \/ VerifyAddress(r) \/ VerifyReset(r)
             \/ ConsumeReset(r) \/ ResetPassword(r) \/ WriteChange(r)
      PROVE  IndInv'
  BY <1>5, CreateStep, OpenStep, RetireStep, IssueStep, VerifyStep, ConsumeStep, PasswordStep
<1>6. CASE \/ \E r \in Requests : HashSession(r) \/ WriteRefresh(r)
           \/ \E s \in Sessions : Logout(s) \/ ExpireSession(s)
  BY <1>6, SessionAgesStep
<1>7. CASE \E c \in DOMAIN codes : MailArrives(c) \/ ExpireCode(c)
  BY <1>7, CodeAgesStep
<1>8. CASE Crash \/ \E u \in Users : ExpireAccess(u)
  BY <1>8, QuietStep
<1> QED
  BY <1>1, <1>2, <1>3, <1>4, <1>5, <1>6, <1>7, <1>8 DEF Next

\* The inductive invariant of signing in (auth.routes.ts:47, otp.ts:51).
THEOREM Invariant == Spec => []IndInv
<1>1. Init => IndInv
  <2> SUFFICES ASSUME Init PROVE IndInv
    OBVIOUS
  <2>1. NoUser \in UserRow /\ NoUser.state = "none" /\ ~NoUser.verified
    BY DEF NoUser, UserRow
  <2>2. NoSession \in SessionRow /\ NoSession.state = "none" /\ NoSession.user = None
        /\ ~NoSession.revoked
    BY DEF NoSession, SessionRow
  <2>3. codes \in Seq(CodeRow) /\ Len(codes) = 0 /\ DOMAIN codes = {}
    BY DEF Init
  <2>4. TypeOK
    BY <2>1, <2>2, <2>3, IdleType DEF Init, TypeOK
  <2>5. OneAccount /\ UserConsistent /\ CodeConsistent /\ VerifiedByMail
    BY <2>1, <2>3 DEF Init, OneAccount, UserConsistent, CodeConsistent, VerifiedByMail, Live
  <2>6. SessionConsistent /\ ClosedByReset /\ OpenedWithPassword
    BY <2>2 DEF Init, SessionConsistent, ClosedByReset, OpenedWithPassword
  <2>7. RequestConsistent
    BY IdleType DEF Init, RequestConsistent, Grounded
  <2> QED
    BY <2>4, <2>5, <2>6, <2>7 DEF IndInv
<1> QED
  BY <1>1, InvariantStep, PTL DEF Spec

\* An account is verified only by a signup code of its own that was mailed.
THEOREM AddressProven == Spec => []VerifiedByMail
<1>1. IndInv => VerifiedByMail
  BY DEF IndInv
<1> QED
  BY <1>1, Invariant, PTL

\* A session that a password reset found stays closed.
THEOREM ResetCloses == Spec => []ClosedByReset
<1>1. IndInv => ClosedByReset
  BY DEF IndInv
<1> QED
  BY <1>1, Invariant, PTL

\* A session that can be refreshed has the password of now, or was let outlive it.
THEOREM PasswordOpens == Spec => []OpenedWithPassword
<1>1. IndInv => OpenedWithPassword
  BY DEF IndInv
<1> QED
  BY <1>1, Invariant, PTL

\* Only a handler that had compared a code uses it.
LEMMA UserOfCode ==
    ASSUME IndInv, [Next]_vars, NEW c \in DOMAIN codes, codes'[c].uses > codes[c].uses
    PROVE  \E r \in Requests : /\ requests[r].pc = "consume" /\ requests[r].code = c
                               /\ requests'[r].pc # "consume"
<1>0. codes[c] \in CodeRow /\ codes[c].uses \in Nat /\ ~(codes[c].uses > codes[c].uses)
  BY ReadType DEF IndInv, CodeRow
<1>1. codes' # codes
  BY <1>0
<1>2. ASSUME NEW r \in Requests, VerifyAddress(r) \/ VerifyReset(r) \/ ConsumeReset(r)
      PROVE  requests[r].pc = "consume" /\ requests[r].code = c /\ requests'[r].pc # "consume"
  <2>1. requests[r].pc = "consume" /\ Consume(requests[r].code)
    BY <1>2 DEF VerifyAddress, VerifyReset, ConsumeReset, At
  <2>2. requests[r].code = c
    BY <1>0, <2>1, ConsumeFacts
  <2>3. requests'[r].pc \in {"idle", "password"}
    BY <1>2 DEF VerifyAddress, VerifyReset, ConsumeReset, Become, IndInv, TypeOK, Idle, Request
  <2> QED
    BY <2>1, <2>2, <2>3
<1>3. ASSUME NEW r \in Requests, RetireCodes(r) PROVE FALSE
  <2>1. \/ codes'[c] = codes[c]
        \/ codes'[c] = [codes[c] EXCEPT !.state = "consumed"]
    BY <1>3, RetireEffect DEF IndInv
  <2>2. codes'[c].uses = codes[c].uses
    BY <1>0, <2>1 DEF CodeRow
  <2> QED
    BY <1>0, <2>2
<1>4. ASSUME NEW r \in Requests, IssueCode(r) PROVE FALSE
  <2>1. requests[r].user \in Users
    BY <1>4 DEF IssueCode, At, IndInv, RequestConsistent, Grounded
  <2>2. codes'[c] = codes[c]
    BY <1>4, <2>1, IssueEffect DEF IndInv
  <2> QED
    BY <1>0, <2>2
<1>5. ASSUME NEW d \in DOMAIN codes, MailArrives(d) \/ ExpireCode(d) PROVE FALSE
  <2>1. \/ codes'[c] = codes[c]
        \/ codes'[c] = [codes[c] EXCEPT !.mailed = TRUE]
        \/ codes'[c] = [codes[c] EXCEPT !.state = "expired"]
    BY <1>5 DEF MailArrives, ExpireCode, IndInv, TypeOK
  <2>2. codes'[c].uses = codes[c].uses
    BY <1>0, <2>1 DEF CodeRow
  <2> QED
    BY <1>0, <2>2
<1> QED
  BY <1>1, <1>2, <1>3, <1>4, <1>5 DEF Next, vars, tables, BeginSignup, CreateUser,
     BeginResend, BeginLogin, BeginChange, SubmitCode, OpenSession, BeginRefresh,
     MailSent, CodeFails, Rollback, ResetPassword, HashSession, WriteRefresh, WriteChange,
     RequestFails, Logout, ExpireSession, ExpireAccess, DeleteUser, Crash

\* A code is used again only by a handler that was overtaken by its first use.
THEOREM UsedOnce == Spec => CodeUsedOnce
<1>1. ASSUME IndInv, [Next]_vars, NEW c \in DOMAIN codes,
             codes[c].uses > 0, codes'[c].uses > codes[c].uses
      PROVE  \E r \in overtaken : At(r, "consume") /\ requests[r].code = c
                                  /\ requests'[r] # requests[r]
  <2>1. PICK r \in Requests : /\ requests[r].pc = "consume" /\ requests[r].code = c
                              /\ requests'[r].pc # "consume"
    BY <1>1, UserOfCode
  <2>2. codes[c].state # "live"
    BY <1>1 DEF IndInv, CodeConsistent
  <2>3. r \in overtaken
    BY <1>1, <2>1, <2>2 DEF IndInv, RequestConsistent, Grounded
  <2> QED
    BY <2>1, <2>3 DEF At
<1>2. IndInv /\ [Next]_vars =>
        [\A c \in DOMAIN codes : codes[c].uses > 0 /\ codes'[c].uses > codes[c].uses =>
            \E r \in overtaken : At(r, "consume") /\ requests[r].code = c
                                /\ requests'[r] # requests[r]]_vars
  BY <1>1
<1> QED
  BY <1>2, Invariant, PTL DEF Spec, CodeUsedOnce

\* Only the statement that creates a code takes a handler on to its mail.
LEMMA IssuerOfCode ==
    ASSUME IndInv, [Next]_vars, NEW r \in Requests,
           requests[r].pc = "issue", requests'[r].pc = "mail"
    PROVE  IssueCode(r)
<1> USE DEF IndInv, TypeOK, Become, At, Start
<1>0. requests' # requests
  OBVIOUS
<1>1. ASSUME NEW q \in Requests, NEW x, Become(q, x) PROVE q = r /\ x.pc = "mail"
  BY <1>1
<1>2. ASSUME NEW q \in Requests, requests[q].pc # "issue", NEW x, Become(q, x) PROVE FALSE
  BY <1>1, <1>2
<1>3. ~Become(r, Idle) /\ ~Become(r, [requests[r] EXCEPT !.pc = "rollback"])
  BY DEF Idle, Request
<1> USE <1>0, <1>2
<1>4. ASSUME NEW q \in Requests,
             \/ \E p \in Passwords : BeginSignup(q, p)
             \/ \E u \in Users : BeginResend(q, u) \/ BeginLogin(q, u) \/ CreateUser(q, u)
             \/ \E u \in Users, p \in Passwords : BeginChange(q, u, p)
             \/ \E s \in Sessions : BeginRefresh(q, s)
      PROVE  FALSE
  BY <1>4 DEF BeginSignup, BeginResend, BeginLogin, CreateUser, BeginChange, BeginRefresh
<1>5. ASSUME NEW q \in Requests,
             \/ \E u \in Users, c \in DOMAIN codes, p \in Passwords \union {None},
                   op \in {"verify", "reset/verify", "reset"} : SubmitCode(q, op, u, c, p)
             \/ \E s \in Sessions : OpenSession(q, s)
             \/ RetireCodes(q) \/ MailSent(q) \/ Rollback(q)
      PROVE  FALSE
  BY <1>5 DEF SubmitCode, OpenSession, RetireCodes, MailSent, Rollback
<1>6. ASSUME NEW q \in Requests,
             \/ VerifyAddress(q) \/ VerifyReset(q) \/ ConsumeReset(q) \/ ResetPassword(q)
             \/ HashSession(q) \/ WriteRefresh(q) \/ WriteChange(q)
      PROVE  FALSE
  BY <1>6 DEF VerifyAddress, VerifyReset, ConsumeReset, ResetPassword, HashSession,
              WriteRefresh, WriteChange
<1>7. ASSUME NEW q \in Requests, RequestFails(q) \/ CodeFails(q) PROVE FALSE
  BY <1>1, <1>3, <1>7 DEF RequestFails, CodeFails
<1>8. ~Crash
  BY DEF Crash, Idle
<1>9. ASSUME NEW q \in Requests, IssueCode(q) PROVE IssueCode(r)
  BY <1>1, <1>9 DEF IssueCode
<1> QED
  BY <1>4, <1>5, <1>6, <1>7, <1>8, <1>9 DEF Next, vars, MailArrives, ExpireCode, Logout,
     ExpireSession, ExpireAccess, DeleteUser

\* A new code is the only one that works, unless its request was overtaken.
THEOREM OnlyTheNewest == Spec => OnlyLiveCode
<1>1. ASSUME IndInv, [Next]_vars, NEW r \in Requests, At(r, "issue"),
             requests'[r].pc = "mail", r \notin overtaken
      PROVE  Cardinality(Usable(requests[r].user, Purpose(requests[r].op))') = 1
  <2>1. IssueCode(r) /\ requests[r].pc = "issue"
    BY <1>1, IssuerOfCode DEF At
  <2>2. /\ requests[r].user \in Users
        /\ Usable(requests[r].user, Purpose(requests[r].op)) = {}
    BY <1>1, <2>1 DEF IndInv, RequestConsistent, Grounded
  <2>3. requests'[r].user = requests[r].user /\ requests'[r].op = requests[r].op
    BY <1>1, <2>1 DEF IssueCode, Become, IndInv, TypeOK, Request
  <2>4. /\ DOMAIN codes' = DOMAIN codes \union {Len(codes) + 1}
        /\ \A d \in DOMAIN codes : codes'[d] = codes[d]
        /\ codes'[Len(codes) + 1].user = requests[r].user
        /\ codes'[Len(codes) + 1].purpose = Purpose(requests[r].op)
        /\ codes'[Len(codes) + 1].state = "live"
    <3>1. /\ codes' \in Seq(CodeRow) /\ Len(codes') = Len(codes) + 1 /\ Len(codes) \in Nat
          /\ \A d \in DOMAIN codes : codes'[d] = codes[d]
          /\ codes'[Len(codes) + 1] =
               [user |-> requests[r].user, purpose |-> Purpose(requests[r].op),
                state |-> "live", mailed |-> FALSE, uses |-> 0]
      BY <1>1, <2>1, <2>2, IssueEffect DEF IndInv, TypeOK
    <3>2. DOMAIN codes = 1 .. Len(codes) /\ DOMAIN codes' = 1 .. Len(codes) + 1
      BY <1>1, <3>1 DEF IndInv, TypeOK
    <3> QED
      BY <3>1, <3>2
  <2>5. Usable(requests[r].user, Purpose(requests[r].op))' = {Len(codes) + 1}
    BY <2>2, <2>3, <2>4 DEF Usable, CodesOf, Purpose
  <2> QED
    BY <2>5, FS_Singleton
<1>2. IndInv /\ [Next]_vars =>
        [\A r \in Requests :
           At(r, "issue") /\ requests'[r].pc = "mail" /\ r \notin overtaken =>
              Cardinality(Usable(requests[r].user, Purpose(requests[r].op))') = 1]_vars
  BY <1>1
<1> QED
  BY <1>2, Invariant, PTL DEF Spec, OnlyLiveCode
-----------------------------------------------------------------------------
(***************************************************************************)
(* Accounts implements Access.                                             *)
(***************************************************************************)
accessNow == <<AccountsNow, OpenNow, ClosedNow>>

\* Accounts that keep their state and their verification are the same to Access.
LEMMA SameAccounts ==
    ASSUME \A u \in Users : /\ users'[u].state = users[u].state
                            /\ users'[u].verified = users[u].verified
    PROVE  AccountsNow' = AccountsNow
<1>1. \A u \in Users : AccountOf(u)' = AccountOf(u)
  BY DEF AccountOf
<1> QED
  BY <1>1 DEF AccountsNow

\* So are sessions that keep their account and stay open, or closed.
LEMMA SameSessions ==
    ASSUME \A s \in Sessions :
              /\ sessions'[s].user = sessions[s].user
              /\ sessions'[s].revoked = sessions[s].revoked
              /\ sessions'[s].state \in {"pending", "open"} <=> sessions[s].state \in {"pending", "open"}
              /\ sessions'[s].state = "gone" <=> sessions[s].state = "gone"
    PROVE  UNCHANGED <<OpenNow, ClosedNow>>
<1>1. \A u \in Users : {s \in SessionsOf(u) : ~sessions[s].revoked}'
                         = {s \in SessionsOf(u) : ~sessions[s].revoked}
  BY DEF SessionsOf
<1> QED
  BY <1>1 DEF OpenNow, ClosedNow

\* What the sessions of an account are.
LEMMA OpenOf ==
    ASSUME NEW u \in Users, NEW s \in Sessions
    PROVE  s \in OpenNow[u] <=> /\ sessions[s].user = u /\ ~sessions[s].revoked
                               /\ sessions[s].state \in {"pending", "open"}
BY DEF OpenNow, SessionsOf

\* Closing sessions of one account.
LEMMA CloseMaps ==
    ASSUME IndInv, NEW u \in Users, NEW S \in SUBSET Sessions, AccountsNow' = AccountsNow,
           \A s \in S : /\ sessions[s].user = u /\ ~sessions[s].revoked
                        /\ sessions[s].state \in {"pending", "open"}
                        /\ sessions'[s].revoked,
           \A s \in Sessions : /\ sessions'[s].user = sessions[s].user
                               /\ sessions'[s].state = sessions[s].state
                               /\ s \notin S => sessions'[s].revoked = sessions[s].revoked
    PROVE  A!Next \/ UNCHANGED accessNow
<1>1. OpenNow' = [OpenNow EXCEPT ![u] = @ \ S]
  <2>1. ASSUME NEW v \in Users
        PROVE  {s \in SessionsOf(v) : ~sessions[s].revoked}'
                 = IF v = u THEN {s \in SessionsOf(v) : ~sessions[s].revoked} \ S
                            ELSE {s \in SessionsOf(v) : ~sessions[s].revoked}
    BY DEF SessionsOf
  <2> QED
    BY <2>1 DEF OpenNow
<1>2. ClosedNow' = ClosedNow \union S
  BY DEF ClosedNow
<1>3. S \subseteq OpenNow[u]
  BY OpenOf
<1>4. CASE S = {}
  <2>1. OpenNow[u] \ S = OpenNow[u] /\ ClosedNow \union S = ClosedNow
    BY <1>4
  <2>2. OpenNow' = OpenNow
    BY <1>1, <2>1 DEF OpenNow
  <2> QED
    BY <1>2, <2>1, <2>2 DEF accessNow
<1>5. CASE S # {}
  BY <1>1, <1>2, <1>3, <1>5 DEF A!Next, A!Close
<1> QED
  BY <1>4, <1>5

\* Removing an account.
LEMMA RemoveMaps ==
    ASSUME IndInv, NEW u \in Users, Live(u), Gone(u)
    PROVE  A!Next
<1>1. AccountsNow' = [AccountsNow EXCEPT ![u] = "removed"]
  <2>1. \A v \in Users : users'[v] = IF v = u THEN [users[u] EXCEPT !.state = "gone"]
                                              ELSE users[v]
    BY DEF IndInv, TypeOK, Gone
  <2>2. [users[u] EXCEPT !.state = "gone"].state = "gone"
    BY ReadType DEF IndInv, UserRow
  <2>3. \A v \in Users : AccountOf(v)' = IF v = u THEN "removed" ELSE AccountOf(v)
    BY <2>1, <2>2 DEF AccountOf
  <2> QED
    BY <2>3 DEF AccountsNow
<1>2. A!Exists(u)
  BY DEF A!Exists, AccountsNow, AccountOf, Live
<1>3. \A s \in Sessions :
         /\ sessions'[s].state = IF sessions[s].user = u THEN "gone" ELSE sessions[s].state
         /\ sessions'[s].user = sessions[s].user
         /\ sessions'[s].revoked = sessions[s].revoked
  BY ReadType DEF IndInv, Gone, SessionRow
<1>4. OpenNow' = [OpenNow EXCEPT ![u] = {}]
  <2>1. ASSUME NEW v \in Users
        PROVE  {s \in SessionsOf(v) : ~sessions[s].revoked}'
                 = IF v = u THEN {} ELSE {s \in SessionsOf(v) : ~sessions[s].revoked}
    BY <1>3 DEF SessionsOf
  <2> QED
    BY <2>1 DEF OpenNow
<1>5. ClosedNow' = ClosedNow \union OpenNow[u]
  <2>1. ASSUME NEW s \in Sessions
        PROVE  s \in ClosedNow' <=> s \in ClosedNow \/ s \in OpenNow[u]
    <3>1. sessions[s].state \in {"none", "pending", "open", "gone"}
      BY ReadType DEF IndInv, SessionRow
    <3>2. sessions[s].state = "none" => sessions[s].user # u
      BY DEF IndInv, SessionConsistent
    <3> QED
      BY <1>3, <3>1, <3>2, OpenOf DEF ClosedNow
  <2> QED
    BY <2>1 DEF ClosedNow, OpenNow, SessionsOf
<1> QED
  BY <1>1, <1>2, <1>4, <1>5 DEF A!Next, A!Remove

\* Every step is a step of Access, or leaves its variables alone.
LEMMA StepMaps ==
    ASSUME IndInv, [Next]_vars
    PROVE  A!Next \/ UNCHANGED accessNow
<1>1. CASE UNCHANGED <<users, sessions>>
  BY <1>1, SameAccounts, SameSessions DEF accessNow
<1>2. ASSUME NEW r \in Requests, NEW u \in Users, CreateUser(r, u)
      PROVE  A!Next
  <2> DEFINE row == [state |-> "live", verified |-> FALSE, password |-> requests[r].chosen]
  <2>1. UNCHANGED sessions /\ users[u].state = "none" /\ (\A v \in Users : ~Live(v))
        /\ users' = [users EXCEPT ![u] = row]
    BY <1>2 DEF CreateUser
  <2>2. \A v \in Users : users'[v] = IF v = u THEN row ELSE users[v]
    BY <2>1 DEF IndInv, TypeOK
  <2>3. \A v \in Users : AccountOf(v)' = IF v = u THEN "registered" ELSE AccountOf(v)
    BY <2>2 DEF AccountOf
  <2>4. AccountsNow' = [AccountsNow EXCEPT ![u] = "registered"]
    BY <2>3 DEF AccountsNow
  <2>5. AccountsNow[u] = "none" /\ \A v \in Users : ~A!Exists(v)
    <3>1. \A v \in Users : AccountsNow[v] \in {"none", "removed"}
      <4>1. \A v \in Users : users[v].state \in {"none", "gone"}
        BY <2>1, ReadType DEF IndInv, UserRow, Live
      <4> QED
        BY <4>1 DEF AccountsNow, AccountOf
    <3> QED
      BY <2>1, <3>1 DEF AccountsNow, AccountOf, A!Exists
  <2>6. UNCHANGED <<OpenNow, ClosedNow>>
    BY <2>1, SameSessions
  <2> QED
    BY <2>4, <2>5, <2>6 DEF A!Next, A!Register
<1>3. ASSUME NEW r \in Requests, VerifyAddress(r) PROVE A!Next \/ UNCHANGED accessNow
  <2> DEFINE u == requests[r].user
             row == [users[u] EXCEPT !.verified = TRUE]
  <2>1. /\ UNCHANGED sessions /\ users' = [users EXCEPT ![u] = row] /\ Live(u)
        /\ requests[r].pc = "consume"
    BY <1>3 DEF VerifyAddress, At
  <2>2. u \in Users
    BY <2>1 DEF IndInv, RequestConsistent, Grounded
  <2>3. row.state = "live" /\ row.verified = TRUE /\ users[u].verified \in BOOLEAN
    BY <2>1, <2>2, ReadType DEF IndInv, UserRow, Live
  <2>4. \A v \in Users : users'[v] = IF v = u THEN row ELSE users[v]
    BY <2>1 DEF IndInv, TypeOK
  <2> HIDE DEF row, u
  <2>5. UNCHANGED <<OpenNow, ClosedNow>>
    BY <2>1, SameSessions
  <2>6. CASE users[u].verified
    <3>1. AccountsNow' = AccountsNow
      BY <2>1, <2>3, <2>4, <2>6, SameAccounts DEF Live
    <3> QED
      BY <2>5, <3>1 DEF accessNow
  <2>7. CASE ~users[u].verified
    <3>1. \A v \in Users : AccountOf(v)' = IF v = u THEN "verified" ELSE AccountOf(v)
      BY <2>3, <2>4 DEF AccountOf
    <3>2. AccountsNow' = [AccountsNow EXCEPT ![u] = "verified"] /\ AccountsNow[u] = "registered"
      BY <2>1, <2>2, <2>7, <3>1 DEF AccountsNow, AccountOf, Live
    <3> QED
      BY <2>2, <2>5, <3>2 DEF A!Next, A!Verify
  <2> QED
    BY <2>6, <2>7
<1>4. ASSUME NEW r \in Requests, NEW s \in Sessions, OpenSession(r, s) PROVE A!Next
  <2> DEFINE u == requests[r].user
             row == [state |-> "pending", user |-> u, revoked |-> FALSE, expired |-> FALSE,
                     password |-> requests[r].given, outlives |-> r \in overtaken]
  <2>1. /\ UNCHANGED users /\ Live(u) /\ sessions[s].state = "none"
        /\ sessions' = [sessions EXCEPT ![s] = row] /\ requests[r].pc = "open"
    BY <1>4 DEF OpenSession, At
  <2>2. u \in Users /\ users[u].verified
    BY <2>1 DEF IndInv, RequestConsistent, Grounded
  <2>3. sessions[s].user = None /\ ~sessions[s].revoked
    BY <2>1 DEF IndInv, SessionConsistent
  <2>4. row.user = u /\ row.state = "pending" /\ ~row.revoked
    OBVIOUS
  <2>5. \A t \in Sessions : sessions'[t] = IF t = s THEN row ELSE sessions[t]
    BY <2>1 DEF IndInv, TypeOK
  <2> HIDE DEF row, u
  <2>6. AccountsNow' = AccountsNow /\ AccountsNow[u] = "verified"
    BY <2>1, <2>2, SameAccounts DEF AccountsNow, AccountOf, Live
  <2>7. OpenNow' = [OpenNow EXCEPT ![u] = @ \union {s}]
    <3>1. ASSUME NEW v \in Users
          PROVE  {t \in SessionsOf(v) : ~sessions[t].revoked}'
                   = IF v = u THEN {t \in SessionsOf(v) : ~sessions[t].revoked} \union {s}
                              ELSE {t \in SessionsOf(v) : ~sessions[t].revoked}
      BY <2>1, <2>3, <2>4, <2>5 DEF SessionsOf
    <3> QED
      BY <3>1 DEF OpenNow
  <2>8. ClosedNow' = ClosedNow /\ s \notin ClosedNow
    BY <2>1, <2>3, <2>4, <2>5 DEF ClosedNow
  <2>9. \A v \in Users : s \notin OpenNow[v]
    BY <2>1, OpenOf
  <2> QED
    BY <2>2, <2>6, <2>7, <2>8, <2>9 DEF A!Next, A!Open
<1>5. ASSUME NEW r \in Requests, ResetPassword(r) PROVE A!Next \/ UNCHANGED accessNow
  <2> DEFINE u == requests[r].user
  <2>1. /\ users' = [users EXCEPT ![u].password = requests[r].chosen]
        /\ sessions' = [s \in Sessions |-> IF s \in ToRevoke(u)
                                           THEN [sessions[s] EXCEPT !.revoked = TRUE]
                                           ELSE sessions[s]]
        /\ requests[r].pc = "password"
    BY <1>5 DEF ResetPassword, At
  <2>2. u \in Users
    BY <2>1 DEF IndInv, RequestConsistent, Grounded
  <2>3. AccountsNow' = AccountsNow
    <3>1. \A v \in Users : users[v] \in UserRow
      BY ReadType DEF IndInv
    <3>2. \A v \in Users : /\ users'[v].state = users[v].state
                           /\ users'[v].verified = users[v].verified
      BY <2>1, <3>1 DEF IndInv, TypeOK, UserRow
    <3> QED
      BY <3>2, SameAccounts
  <2>4. \A s \in Sessions : /\ sessions'[s].user = sessions[s].user
                            /\ sessions'[s].state = sessions[s].state
                            /\ s \notin ToRevoke(u) => sessions'[s].revoked = sessions[s].revoked
                            /\ s \in ToRevoke(u) => sessions'[s].revoked
    <3>1. \A s \in Sessions : sessions[s] \in SessionRow
      BY ReadType DEF IndInv
    <3> QED
      BY <2>1, <3>1 DEF SessionRow
  <2>5. ToRevoke(u) \in SUBSET Sessions
    BY DEF ToRevoke, SessionsOf
  <2>6. \A s \in ToRevoke(u) : /\ sessions[s].user = u /\ ~sessions[s].revoked
                               /\ sessions[s].state \in {"pending", "open"}
                               /\ sessions'[s].revoked
    BY <2>4 DEF ToRevoke, SessionsOf
  <2>7. \A s \in Sessions : /\ sessions'[s].user = sessions[s].user
                            /\ sessions'[s].state = sessions[s].state
                            /\ s \notin ToRevoke(u) => sessions'[s].revoked = sessions[s].revoked
    BY <2>4
  <2> HIDE DEF u
  <2> QED
    BY <2>2, <2>3, <2>5, <2>6, <2>7, CloseMaps
<1>6. ASSUME NEW s \in Sessions, Logout(s) PROVE A!Next \/ UNCHANGED accessNow
  <2> DEFINE row == [sessions[s] EXCEPT !.revoked = TRUE]
  <2>1. /\ UNCHANGED users /\ sessions[s].state = "open" /\ ~sessions[s].revoked
        /\ sessions' = [sessions EXCEPT ![s] = row]
    BY <1>6 DEF Logout
  <2>2. row.user = sessions[s].user /\ row.state = sessions[s].state /\ row.revoked
    BY ReadType DEF IndInv, SessionRow
  <2>3. \A t \in Sessions : sessions'[t] = IF t = s THEN row ELSE sessions[t]
    BY <2>1 DEF IndInv, TypeOK
  <2> HIDE DEF row
  <2>4. sessions[s].user \in Users /\ AccountsNow' = AccountsNow
    BY <2>1, SameAccounts DEF IndInv, SessionConsistent
  <2>5. \A t \in {s} : /\ sessions[t].user = sessions[s].user /\ ~sessions[t].revoked
                       /\ sessions[t].state \in {"pending", "open"}
                       /\ sessions'[t].revoked
    BY <2>1, <2>2, <2>3
  <2>6. \A t \in Sessions : /\ sessions'[t].user = sessions[t].user
                            /\ sessions'[t].state = sessions[t].state
                            /\ t \notin {s} => sessions'[t].revoked = sessions[t].revoked
    BY <2>2, <2>3
  <2>7. {s} \in SUBSET Sessions
    OBVIOUS
  <2> QED
    BY <2>4, <2>5, <2>6, <2>7, CloseMaps
<1>7. ASSUME NEW r \in Requests, Rollback(r) PROVE A!Next
  <2>1. requests[r].user \in Users
    BY <1>7 DEF Rollback, At, IndInv, RequestConsistent, Grounded
  <2> QED
    BY <1>7, <2>1, RemoveMaps DEF Rollback
<1>8. ASSUME NEW u \in Users, DeleteUser(u) PROVE A!Next
  BY <1>8, RemoveMaps DEF DeleteUser
<1>9. ASSUME \A s \in Sessions : /\ sessions'[s].user = sessions[s].user
                                 /\ sessions'[s].revoked = sessions[s].revoked
                                 /\ sessions'[s].state \in {"pending", "open"} <=>
                                       sessions[s].state \in {"pending", "open"}
                                 /\ sessions'[s].state = "gone" <=> sessions[s].state = "gone",
             \A u \in Users : /\ users'[u].state = users[u].state
                              /\ users'[u].verified = users[u].verified
      PROVE  UNCHANGED accessNow
  BY <1>9, SameAccounts, SameSessions DEF accessNow
<1>10. ASSUME \/ \E r \in Requests : HashSession(r) \/ WriteRefresh(r)
              \/ \E s \in Sessions : ExpireSession(s)
       PROVE  UNCHANGED accessNow
  <2>1. UNCHANGED users
    BY <1>10 DEF HashSession, WriteRefresh, ExpireSession
  <2>2. \A s \in Sessions : sessions[s] \in SessionRow
    BY ReadType DEF IndInv
  <2>3. \E s \in Sessions :
          /\ sessions[s].state \in {"pending", "open"}
          /\ \/ sessions' = [sessions EXCEPT ![s].state = "open"]
             \/ sessions' = [sessions EXCEPT ![s] = [sessions[s] EXCEPT !.expired = FALSE]]
             \/ sessions' = [sessions EXCEPT ![s].expired = TRUE]
    BY <1>10 DEF HashSession, WriteRefresh, Refreshed, ExpireSession, At, IndInv,
                 RequestConsistent, Grounded
  <2>4. \A s \in Sessions : /\ sessions'[s].user = sessions[s].user
                            /\ sessions'[s].revoked = sessions[s].revoked
                            /\ sessions'[s].state \in {"pending", "open"} <=>
                                  sessions[s].state \in {"pending", "open"}
                            /\ sessions'[s].state = "gone" <=> sessions[s].state = "gone"
    BY <2>2, <2>3 DEF IndInv, TypeOK, SessionRow
  <2> QED
    BY <1>9, <2>1, <2>4
<1>11. ASSUME NEW r \in Requests, WriteChange(r) PROVE UNCHANGED accessNow
  <2>1. \A s \in Sessions : sessions[s] \in SessionRow
    BY ReadType DEF IndInv
  <2>2. \A s \in Sessions : /\ sessions'[s].user = sessions[s].user
                            /\ sessions'[s].revoked = sessions[s].revoked
                            /\ sessions'[s].state = sessions[s].state
    BY <1>11, <2>1 DEF WriteChange, SessionRow
  <2>3. \A v \in Users : users[v] \in UserRow
    BY ReadType DEF IndInv
  <2>4. \A v \in Users : /\ users'[v].state = users[v].state
                         /\ users'[v].verified = users[v].verified
    BY <1>11, <2>3 DEF WriteChange, IndInv, TypeOK, UserRow
  <2> QED
    BY <1>9, <2>2, <2>4
<1> QED
  BY <1>1, <1>2, <1>3, <1>4, <1>5, <1>6, <1>7, <1>8, <1>10, <1>11
     DEF Next, vars, tables, BeginSignup, BeginResend, BeginLogin, BeginChange,
         SubmitCode, BeginRefresh, RetireCodes, IssueCode, MailSent, CodeFails, VerifyReset,
         ConsumeReset, RequestFails, MailArrives, ExpireCode, ExpireAccess, Crash

\* The accounts and sessions of the code keep the promise of Access.
THEOREM KeepsAccess == Spec => AccessKept
<1>1. Init => A!Init
  <2> SUFFICES ASSUME Init PROVE A!Init
    OBVIOUS
  <2>1. \A u \in Users : users[u].state = "none"
    BY DEF Init, NoUser
  <2>2. \A s \in Sessions : sessions[s].state = "none" /\ ~sessions[s].revoked
    BY DEF Init, NoSession
  <2>3. AccountsNow = [u \in Users |-> "none"]
    BY <2>1 DEF AccountsNow, AccountOf
  <2>4. OpenNow = [u \in Users |-> {}] /\ ClosedNow = {}
    BY <2>2 DEF OpenNow, ClosedNow, SessionsOf
  <2> QED
    BY <2>3, <2>4 DEF A!Init
<1>2. IndInv /\ [Next]_vars => [A!Next]_(A!accessVars)
  BY StepMaps DEF accessNow, A!accessVars
<1> QED
  BY <1>1, <1>2, Invariant, PTL DEF Spec, AccessKept, A!Spec
=============================================================================
