------------------------------- MODULE Access -------------------------------
(***************************************************************************)
(* What the sign-in machinery promises about the accounts of one e-mail    *)
(* address and their sessions, whatever requests do it with:               *)
(*   - an account is registered, perhaps verified, and perhaps removed,    *)
(*     never the other way round, and at most one exists at a time;        *)
(*   - a session is opened for a verified account only, and once closed it *)
(*     stays closed;                                                       *)
(*   - when an account is removed, its sessions go with it.                *)
(***************************************************************************)
CONSTANTS Users, Sessions

VARIABLES
    account,   \* [Users -> {"none", "registered", "verified", "removed"}]
    open,      \* open[u]: the sessions open for account u
    closed     \* the sessions that have been closed

accessVars == <<account, open, closed>>

Exists(u) == account[u] \in {"registered", "verified"}

Init ==
    /\ account = [u \in Users |-> "none"]
    /\ open = [u \in Users |-> {}]
    /\ closed = {}

Register(u) ==
    /\ account[u] = "none"
    /\ \A v \in Users : ~Exists(v)
    /\ account' = [account EXCEPT ![u] = "registered"]
    /\ UNCHANGED <<open, closed>>

Verify(u) ==
    /\ account[u] = "registered"
    /\ account' = [account EXCEPT ![u] = "verified"]
    /\ UNCHANGED <<open, closed>>

Open(u, s) ==
    /\ account[u] = "verified"
    /\ \A v \in Users : s \notin open[v]
    /\ s \notin closed
    /\ open' = [open EXCEPT ![u] = @ \union {s}]
    /\ UNCHANGED <<account, closed>>

Close(u, S) ==
    /\ S # {} /\ S \subseteq open[u]
    /\ open' = [open EXCEPT ![u] = @ \ S]
    /\ closed' = closed \union S
    /\ UNCHANGED account

Remove(u) ==
    /\ Exists(u)
    /\ account' = [account EXCEPT ![u] = "removed"]
    /\ open' = [open EXCEPT ![u] = {}]
    /\ closed' = closed \union open[u]

Next ==
    \E u \in Users :
        \/ Register(u)
        \/ Verify(u)
        \/ \E s \in Sessions : Open(u, s)
        \/ \E S \in SUBSET Sessions : Close(u, S)
        \/ Remove(u)

Spec == Init /\ [][Next]_accessVars
=============================================================================
