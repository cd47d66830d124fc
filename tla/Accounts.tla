------------------------------ MODULE Accounts ------------------------------
(***************************************************************************)
(* Signing up, one-time codes, sessions and passwords                      *)
(* (modules/auth/auth.routes.ts, lib/otp.ts).                              *)
(*                                                                         *)
(* The module follows one e-mail address.  Handlers find the account by    *)
(* its unique address and everything else by the account's id, so that     *)
(* addresses share no row.  An account that was deleted may be followed by *)
(* another one of the same address, with another id.                       *)
(*                                                                         *)
(* A handler makes one round trip to the database after another; an action *)
(* is one of them, with what the handler computes up to the next.  Two     *)
(* round trips are one action where the second reads nothing that another  *)
(* handler can have changed to a different effect (the account of an       *)
(* address, then the newest code of that account; a session, then its      *)
(* account).  Every statement may fail, and the process may die.           *)
(***************************************************************************)
EXTENDS Naturals, Sequences, FiniteSets

CONSTANTS
    Users,       \* ids of the accounts the address may have had
    Sessions,    \* ids of session rows
    Requests,    \* requests the process can have in flight
    Passwords,
    MaxCodes,    \* bound on the code rows ever created
    None

ASSUME AccountsAssumption ==
    /\ None \notin Users \union Sessions \union Passwords
    /\ MaxCodes \in Nat

VARIABLES
    users,       \* table User
    codes,       \* table OtpCode, by createdAt
    sessions,    \* table Session
    access,      \* accounts a client holds a valid access token for
    requests,    \* the handlers' local variables
    overtaken,   \* history: requests whose premise another handler changed
    reset        \* history: sessions that a password reset found

tables == <<users, codes, sessions>>
vars == <<users, codes, sessions, access, requests, overtaken, reset>>

UserRow == [state : {"none", "live", "gone"}, password : Passwords \union {None},
            verified : BOOLEAN]

\* mailed: the mail with the code has arrived; uses counts, as history, the
\* handlers that have used the code.
CodeRow == [user : Users, purpose : {"signup", "reset"},
            state : {"live", "consumed", "expired"},
            mailed : BOOLEAN, uses : Nat]

\* "pending": the row is there, its token hash is not.  History: the password
\* it was opened with, and whether it may outlive that password.
SessionRow == [state : {"none", "pending", "open", "gone"}, user : Users \union {None},
               revoked : BOOLEAN, expired : BOOLEAN,
               password : Passwords \union {None}, outlives : BOOLEAN]

Request == [op : {"idle", "signup", "resend", "forgot", "verify", "reset/verify",
                  "reset", "login", "refresh", "change"},
            pc : {"idle", "create", "retire", "issue", "mail", "rollback", "consume",
                  "password", "open", "hash", "refresh", "change"},
            user : Users \union {None},
            code : 0 .. MaxCodes,
            session : Sessions \union {None},
            given : Passwords \union {None},   \* compared with the account's
            chosen : Passwords \union {None}]  \* to become the account's

NoUser == [state |-> "none", password |-> None, verified |-> FALSE]
NoSession == [state |-> "none", user |-> None, revoked |-> FALSE, expired |-> FALSE,
              password |-> None, outlives |-> FALSE]
Idle == [op |-> "idle", pc |-> "idle", user |-> None, code |-> 0, session |-> None,
         given |-> None, chosen |-> None]

TypeOK ==
    /\ users \in [Users -> UserRow]
    /\ codes \in Seq(CodeRow) /\ Len(codes) <= MaxCodes
    /\ sessions \in [Sessions -> SessionRow]
    /\ access \subseteq Users
    /\ requests \in [Requests -> Request]
    /\ overtaken \subseteq Requests
    /\ reset \subseteq Sessions

Init ==
    /\ users = [u \in Users |-> NoUser]
    /\ codes = <<>>
    /\ sessions = [s \in Sessions |-> NoSession]
    /\ access = {}
    /\ requests = [r \in Requests |-> Idle]
    /\ overtaken = {}
    /\ reset = {}
-----------------------------------------------------------------------------
Live(u) == users[u].state = "live"
Purpose(op) == IF op \in {"signup", "resend", "verify"} THEN "signup" ELSE "reset"

CodesOf(u, p) == {c \in DOMAIN codes : codes[c].user = u /\ codes[c].purpose = p}
Usable(u, p) == {c \in CodesOf(u, p) : codes[c].state = "live"}

\* By address instead of account: also a code of an account that is gone.
IsNewestBug(c, u, p) == c \in UNION {Usable(v, p) : v \in Users}

\* findFirst, newest first, not consumed, not expired.
IsNewest(c, u, p) == c \in Usable(u, p) /\ \A d \in Usable(u, p) : d <= c

Become(r, x) == requests' = [requests EXCEPT ![r] = x]
At(r, pc) == requests[r].pc = pc
Start(r) == At(r, "idle")

\* What a request has read, or left behind, and builds its next write on.
Premise(r) ==
    CASE requests[r].pc \in {"open", "change"} -> users[requests[r].user].password
      [] requests[r].pc = "consume" -> codes[requests[r].code].state
      [] requests[r].pc = "issue" ->
            Usable(requests[r].user, Purpose(requests[r].op))
      [] OTHER -> None

\* A request is overtaken when a step of another changes its premise.
Track == overtaken' = {r \in Requests :
            /\ requests'[r] = requests[r]
            /\ r \in overtaken \/ Premise(r)' # Premise(r)}
-----------------------------------------------------------------------------
(***************************************************************************)
(* Signing up, and asking for another code.                                *)
(***************************************************************************)
\* POST /signup: no account of the address exists.
BeginSignup(r, p) ==
    /\ Start(r)
    /\ \A u \in Users : ~Live(u)
    /\ Become(r, [Idle EXCEPT !.op = "signup", !.pc = "create", !.chosen = p])
    /\ UNCHANGED <<tables, access, reset>>
    /\ Track

\* user.create with all that belongs to it; the address is unique.
CreateUser(r, u) ==
    /\ At(r, "create")
    /\ users[u].state = "none"
    /\ \A v \in Users : ~Live(v)
    /\ users' = [users EXCEPT ![u] = [state |-> "live", verified |-> FALSE,
                                     password |-> requests[r].chosen]]
    /\ Become(r, [requests[r] EXCEPT !.pc = "issue", !.user = u])
    /\ UNCHANGED <<codes, sessions, access, reset>>
    /\ Track

\* POST /otp/resend for an unverified account, POST /password/forgot for a
\* verified one.
BeginResend(r, u) ==
    /\ Start(r) /\ Live(u)
    /\ LET op == IF users[u].verified THEN "forgot" ELSE "resend"
       IN  Become(r, [Idle EXCEPT !.op = op, !.pc = "retire", !.user = u])
    /\ UNCHANGED <<tables, access, reset>>
    /\ Track

\* updateMany: the codes sent before are used up.
RetiredBug(u, p) == {}
Retired(u, p) == {c \in CodesOf(u, p) : codes[c].state # "consumed"}

RetireCodes(r) ==
    /\ At(r, "retire")
    /\ LET retired == Retired(requests[r].user, Purpose(requests[r].op))
       IN  codes' = [c \in DOMAIN codes |->
                       IF c \in retired THEN [codes[c] EXCEPT !.state = "consumed"]
                                       ELSE codes[c]]
    /\ Become(r, [requests[r] EXCEPT !.pc = "issue"])
    /\ UNCHANGED <<users, sessions, access, reset>>
    /\ Track

\* otpCode.create; then the mail is on its way.
IssueCode(r) ==
    /\ At(r, "issue")
    /\ Live(requests[r].user)
    /\ Len(codes) < MaxCodes
    /\ codes' = Append(codes, [user |-> requests[r].user,
                              purpose |-> Purpose(requests[r].op), state |-> "live",
                              mailed |-> FALSE, uses |-> 0])
    /\ Become(r, [requests[r] EXCEPT !.pc = "mail"])
    /\ UNCHANGED <<users, sessions, access, reset>>
    /\ Track

\* The mail arrives: while the handler waits for the provider, after it has
\* given up or died, or never.
MailArrives(c) ==
    /\ ~codes[c].mailed
    /\ codes' = [codes EXCEPT ![c].mailed = TRUE]
    /\ UNCHANGED <<users, sessions, access, requests, reset>>
    /\ Track

\* The provider accepts the mail.
MailSent(r) ==
    /\ At(r, "mail")
    /\ Become(r, Idle)
    /\ UNCHANGED <<tables, access, reset>>
    /\ Track

\* A signup whose code could not be created or sent deletes its account,
\* with everything that refers to it; the other handlers leave what is there.
CanRollBack(r) == requests[r].op = "signup" /\ requests[r].pc \in {"issue", "mail"}

CodeFails(r) ==
    /\ CanRollBack(r)
    /\ Become(r, [requests[r] EXCEPT !.pc = "rollback"])
    /\ UNCHANGED <<tables, access, reset>>
    /\ Track

Gone(u) ==
    /\ users' = [users EXCEPT ![u].state = "gone"]
    /\ sessions' = [s \in Sessions |-> IF sessions[s].user = u
                                      THEN [sessions[s] EXCEPT !.state = "gone"]
                                      ELSE sessions[s]]

Rollback(r) ==
    /\ At(r, "rollback")
    /\ Live(requests[r].user)
    /\ Gone(requests[r].user)
    /\ Become(r, Idle)
    /\ UNCHANGED <<codes, access, reset>>
    /\ Track
-----------------------------------------------------------------------------
(***************************************************************************)
(* Using a code.                                                           *)
(***************************************************************************)
\* POST /otp/verify, /password/reset/verify and /password/reset, up to the
\* comparison: the code the client has is the newest that can be used.
SubmitCode(r, op, u, c, p) ==
    /\ Start(r) /\ Live(u)
    /\ codes[c].mailed
    /\ IsNewest(c, u, Purpose(op))
    /\ op = "reset" <=> p # None
    /\ Become(r, [Idle EXCEPT !.op = op, !.pc = "consume", !.user = u, !.code = c,
                             !.chosen = p])
    /\ UNCHANGED <<tables, access, reset>>
    /\ Track

\* Without consumedAt.
ConsumeBug(c) == codes' = [codes EXCEPT ![c].uses = @ + 1]
Consume(c) == codes' = [codes EXCEPT ![c].state = "consumed", ![c].uses = @ + 1]

\* The address is verified in the transaction that consumes its code.
VerifyAddress(r) ==
    /\ At(r, "consume") /\ requests[r].op = "verify"
    /\ Live(requests[r].user)
    /\ Consume(requests[r].code)
    /\ users' = [users EXCEPT ![requests[r].user].verified = TRUE]
    /\ Become(r, Idle)
    /\ UNCHANGED <<sessions, access, reset>>
    /\ Track

\* "Reset code verified. You can now set a new password."
VerifyReset(r) ==
    /\ At(r, "consume") /\ requests[r].op = "reset/verify"
    /\ Live(requests[r].user)
    /\ Consume(requests[r].code)
    /\ Become(r, Idle)
    /\ UNCHANGED <<users, sessions, access, reset>>
    /\ Track

\* POST /password/reset consumes the code in a statement of its own ...
ConsumeReset(r) ==
    /\ At(r, "consume") /\ requests[r].op = "reset"
    /\ Live(requests[r].user)
    /\ Consume(requests[r].code)
    /\ Become(r, [requests[r] EXCEPT !.pc = "password"])
    /\ UNCHANGED <<users, sessions, access, reset>>
    /\ Track

\* ... and sets the password, and closes every session, in a transaction.
SessionsOf(u) ==
    {s \in Sessions : sessions[s].user = u /\ sessions[s].state \in {"pending", "open"}}

ToRevokeBug(u) == {s \in SessionsOf(u) : sessions[s].state = "open"}
ToRevoke(u) == {s \in SessionsOf(u) : ~sessions[s].revoked}

ResetPassword(r) ==
    LET u == requests[r].user IN
    /\ At(r, "password")
    /\ Live(u)
    /\ users' = [users EXCEPT ![u].password = requests[r].chosen]
    /\ sessions' = [s \in Sessions |-> IF s \in ToRevoke(u)
                                      THEN [sessions[s] EXCEPT !.revoked = TRUE]
                                      ELSE sessions[s]]
    /\ reset' = reset \union SessionsOf(u)
    /\ Become(r, Idle)
    /\ UNCHANGED <<codes, access>>
    /\ Track
-----------------------------------------------------------------------------
(***************************************************************************)
(* Sessions and passwords.                                                 *)
(***************************************************************************)
\* POST /login: the password given is the one read, the address is verified.
BeginLogin(r, u) ==
    /\ Start(r) /\ Live(u)
    /\ users[u].verified
    /\ Become(r, [Idle EXCEPT !.op = "login", !.pc = "open", !.user = u,
                             !.given = users[u].password])
    /\ UNCHANGED <<tables, access, reset>>
    /\ Track

\* createSession, its insert.
OpenSession(r, s) ==
    /\ At(r, "open")
    /\ Live(requests[r].user)
    /\ sessions[s].state = "none"
    /\ sessions' = [sessions EXCEPT ![s] =
          [state |-> "pending", user |-> requests[r].user,
           revoked |-> FALSE, expired |-> FALSE,
           password |-> requests[r].given, outlives |-> r \in overtaken]]
    /\ Become(r, [requests[r] EXCEPT !.pc = "hash", !.session = s])
    /\ UNCHANGED <<users, codes, access, reset>>
    /\ Track

\* createSession, its update; the client has its tokens.
HashSession(r) ==
    LET s == requests[r].session IN
    /\ At(r, "hash")
    /\ sessions[s].state = "pending"
    /\ sessions' = [sessions EXCEPT ![s].state = "open"]
    /\ access' = access \union {requests[r].user}
    /\ Become(r, Idle)
    /\ UNCHANGED <<users, codes, reset>>
    /\ Track

\* POST /refresh, its checks.  Every refresh token of the session compares
\* equal: bcrypt reads 72 bytes, and the tokens of an account differ later.
BeginRefresh(r, s) ==
    /\ Start(r)
    /\ sessions[s].state = "open" /\ ~sessions[s].revoked /\ ~sessions[s].expired
    /\ users[sessions[s].user].verified
    /\ Become(r, [Idle EXCEPT !.op = "refresh", !.pc = "refresh",
                             !.user = sessions[s].user, !.session = s])
    /\ UNCHANGED <<tables, access, reset>>
    /\ Track

\* Writing the row as it was when it was read.
RefreshedBug(row) == [row EXCEPT !.expired = FALSE, !.revoked = FALSE]
\* The columns the update names: the hash and the expiry, 30 days from now.
Refreshed(row) == [row EXCEPT !.expired = FALSE]

WriteRefresh(r) ==
    LET s == requests[r].session IN
    /\ At(r, "refresh")
    /\ sessions[s].state = "open"
    /\ sessions' = [sessions EXCEPT ![s] = Refreshed(@)]
    /\ access' = access \union {requests[r].user}
    /\ Become(r, Idle)
    /\ UNCHANGED <<users, codes, reset>>
    /\ Track

\* POST /logout: one statement, for a token that has not expired.
Logout(s) ==
    /\ sessions[s].state = "open" /\ ~sessions[s].revoked /\ ~sessions[s].expired
    /\ sessions' = [sessions EXCEPT ![s].revoked = TRUE]
    /\ UNCHANGED <<users, codes, access, requests, reset>>
    /\ Track

\* POST /password/change, up to the comparison with the current password.
BeginChange(r, u, p) ==
    /\ Start(r) /\ Live(u)
    /\ u \in access
    /\ Become(r, [Idle EXCEPT !.op = "change", !.pc = "change", !.user = u,
                             !.given = users[u].password, !.chosen = p])
    /\ UNCHANGED <<tables, access, reset>>
    /\ Track

\* Its transaction; the sessions stay open.
WriteChange(r) ==
    /\ At(r, "change")
    /\ Live(requests[r].user)
    /\ users' = [users EXCEPT ![requests[r].user].password = requests[r].chosen]
    /\ sessions' = [s \in Sessions |->
          IF s \in SessionsOf(requests[r].user)
          THEN [sessions[s] EXCEPT !.outlives = TRUE] ELSE sessions[s]]
    /\ Become(r, Idle)
    /\ UNCHANGED <<codes, access, reset>>
    /\ Track
-----------------------------------------------------------------------------
(***************************************************************************)
(* Time, faults, and the script that deletes an account.                   *)
(***************************************************************************)
ExpireCode(c) ==
    /\ codes[c].state = "live"
    /\ codes' = [codes EXCEPT ![c].state = "expired"]
    /\ UNCHANGED <<users, sessions, access, requests, reset>>
    /\ Track

ExpireSession(s) ==
    /\ sessions[s].state \in {"pending", "open"} /\ ~sessions[s].expired
    /\ sessions' = [sessions EXCEPT ![s].expired = TRUE]
    /\ UNCHANGED <<users, codes, access, requests, reset>>
    /\ Track

ExpireAccess(u) ==
    /\ access' = access \ {u}
    /\ access' # access
    /\ UNCHANGED <<tables, requests, reset>>
    /\ Track

\* A statement fails, whatever it was to write (a row that is gone, an address
\* taken meanwhile, the database): the handler answers 500 or 409.
RequestFails(r) ==
    /\ ~Start(r) /\ ~CanRollBack(r)
    /\ Become(r, Idle)
    /\ UNCHANGED <<tables, access, reset>>
    /\ Track

\* The process dies with all its handlers.
Crash ==
    /\ \E r \in Requests : ~Start(r)
    /\ requests' = [r \in Requests |-> Idle]
    /\ UNCHANGED <<tables, access, reset>>
    /\ Track

\* deleteUserByEmail.
DeleteUser(u) ==
    /\ Live(u)
    /\ Gone(u)
    /\ UNCHANGED <<codes, access, requests, reset>>
    /\ Track

Next ==
    \/ \E r \in Requests :
          \/ \E p \in Passwords : BeginSignup(r, p)
          \/ \E u \in Users : CreateUser(r, u) \/ BeginResend(r, u) \/ BeginLogin(r, u)
          \/ \E u \in Users, p \in Passwords : BeginChange(r, u, p)
          \/ \E u \in Users, c \in DOMAIN codes, p \in Passwords \union {None},
                op \in {"verify", "reset/verify", "reset"} : SubmitCode(r, op, u, c, p)
          \/ \E s \in Sessions : OpenSession(r, s) \/ BeginRefresh(r, s)
          \/ RetireCodes(r) \/ IssueCode(r) \/ MailSent(r) \/ CodeFails(r) \/ Rollback(r)
          \/ VerifyAddress(r) \/ VerifyReset(r) \/ ConsumeReset(r) \/ ResetPassword(r)
          \/ HashSession(r) \/ WriteRefresh(r) \/ WriteChange(r)
          \/ RequestFails(r)
    \/ \E c \in DOMAIN codes : MailArrives(c) \/ ExpireCode(c)
    \/ \E s \in Sessions : Logout(s) \/ ExpireSession(s)
    \/ \E u \in Users : ExpireAccess(u) \/ DeleteUser(u)
    \/ Crash

Spec == Init /\ [][Next]_vars
-----------------------------------------------------------------------------
(***************************************************************************)
(* Properties.                                                             *)
(***************************************************************************)
\* A verified account has used a signup code of its own, one that was mailed
\* to the address: not a code of a deleted account of the same address, nor
\* a code for another purpose (otp.ts:51, :77).
VerifiedByMail ==
    \A u \in Users : users[u].verified =>
        \E c \in CodesOf(u, "signup") : codes[c].mailed /\ codes[c].uses > 0

\* A session that existed when the password was reset is closed for good: no
\* refresh that had read it before, and no login that had not yet written
\* its token hash, opens it again (auth.routes.ts:594, :318, :61).
ClosedByReset ==
    \A s \in reset : sessions[s].revoked \/ sessions[s].state = "gone"

\* A session that can still be refreshed was opened with the password of now,
\* unless POST /password/change kept it, or its login had compared the password
\* before it was changed and inserted the session after (auth.routes.ts:212,
\* :223, :466, :593).
OpenedWithPassword ==
    \A s \in Sessions :
        sessions[s].state \in {"pending", "open"} /\ ~sessions[s].revoked =>
            \/ sessions[s].password = users[sessions[s].user].password
            \/ sessions[s].outlives

\* A code is used a second time only by a handler that had compared it before
\* it was used the first time (otp.ts:75, :139).
CodeUsedOnce ==
    [][\A c \in DOMAIN codes :
         codes[c].uses > 0 /\ codes'[c].uses > codes[c].uses =>
            \E r \in overtaken : At(r, "consume") /\ requests[r].code = c
                                /\ requests'[r] # requests[r]]_vars

\* A new code is the only one that works, unless another request for a code
\* was served at the same time (auth.routes.ts:174, :523).
OnlyLiveCode ==
    [][\A r \in Requests :
         At(r, "issue") /\ requests'[r].pc = "mail" /\ r \notin overtaken =>
            Cardinality(Usable(requests[r].user, Purpose(requests[r].op))') = 1]_vars

\* "Reset code verified. You can now set a new password." (auth.routes.ts:562):
\* the code that POST /password/reset/verify has accepted can still be used.
VerifiedCodeResets ==
    [][\A r \in Requests :
         LET c == requests[r].code IN
         /\ At(r, "consume") /\ requests[r].op = "reset/verify"
         /\ codes'[c].uses > codes[c].uses
         => codes'[c].state = "live"]_vars

\* The accounts and sessions keep the promise of Access.
AccountOf(u) ==
    CASE users[u].state = "none" -> "none"
      [] users[u].state = "gone" -> "removed"
      [] OTHER -> IF users[u].verified THEN "verified" ELSE "registered"

AccountsNow == [u \in Users |-> AccountOf(u)]
OpenNow == [u \in Users |-> {s \in SessionsOf(u) : ~sessions[s].revoked}]
ClosedNow == {s \in Sessions : sessions[s].revoked \/ sessions[s].state = "gone"}

A == INSTANCE Access WITH account <- AccountsNow, open <- OpenNow, closed <- ClosedNow

\* Signing in, refreshing and resetting in any interleaving implement Access:
\* sessions are opened for verified accounts only and stay closed
\* (auth.routes.ts:47, :223, :318, :349).
AccessKept == A!Spec
-----------------------------------------------------------------------------
(***************************************************************************)
(* The inductive invariant.                                                *)
(***************************************************************************)
OneAccount == \A u, v \in Users : Live(u) /\ Live(v) => u = v

UserConsistent ==
    /\ \A u \in Users : users[u].state = "none" => ~users[u].verified
    /\ \A u \in access : users[u].verified

\* A code that was used or retired is not live; the accounts it was for existed.
CodeConsistent ==
    \A c \in DOMAIN codes :
        /\ codes[c].state = "live" => codes[c].uses = 0
        /\ users[codes[c].user].state # "none"

\* What a handler builds on is still so, or it was overtaken.
Grounded(r) ==
    /\ requests[r].pc \notin {"idle", "create"} =>
          requests[r].user \in Users /\ users[requests[r].user].state # "none"
    /\ requests[r].pc = "issue" =>
          \/ r \in overtaken
          \/ Usable(requests[r].user, Purpose(requests[r].op)) = {}
    /\ requests[r].pc = "consume" =>
          /\ requests[r].code \in CodesOf(requests[r].user, Purpose(requests[r].op))
          /\ codes[requests[r].code].mailed
          /\ r \in overtaken \/ codes[requests[r].code].state = "live"
    /\ requests[r].pc \in {"open", "hash", "refresh"} =>
          users[requests[r].user].verified
    /\ requests[r].pc = "open" =>
          \/ r \in overtaken
          \/ requests[r].given = users[requests[r].user].password
    /\ requests[r].pc \in {"hash", "refresh"} =>
          /\ requests[r].session \in Sessions
          /\ sessions[requests[r].session].user = requests[r].user

RequestConsistent == \A r \in Requests : Grounded(r)

SessionConsistent ==
    \A s \in Sessions :
        /\ sessions[s].state = "none" => sessions[s].user = None /\ ~sessions[s].revoked
        /\ sessions[s].state # "none" =>
              sessions[s].user \in Users /\ users[sessions[s].user].verified
        /\ sessions[s].state \in {"pending", "open"} => Live(sessions[s].user)

IndInv ==
    /\ TypeOK
    /\ OneAccount
    /\ UserConsistent
    /\ CodeConsistent
    /\ RequestConsistent
    /\ SessionConsistent
    /\ VerifiedByMail
    /\ ClosedByReset
    /\ OpenedWithPassword
=============================================================================
