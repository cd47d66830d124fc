------------------------------ MODULE Maturity ------------------------------
(***************************************************************************)
(* What an investment promises its owner, whatever job completes it and    *)
(* however often: it runs until it has matured, it is completed once and   *)
(* for all, and its maturity is never moved.  Ledger and Accruals both     *)
(* implement this specification; Ledger completes an investment in one     *)
(* step, Accruals in the steps runDailyAccruals takes.                     *)
(***************************************************************************)
EXTENDS Naturals

CONSTANT Investments

VARIABLES
    status,   \* Investments -> "none", "ACTIVE" or "COMPLETED"
    matures,  \* Investments -> the time the investment matures
    clock     \* the time

Init ==
    /\ status = [i \in Investments |-> "none"]
    /\ matures \in [Investments -> Nat]
    /\ clock = 0

\* POST /investments.
Begin(i) ==
    /\ status[i] = "none"
    /\ status' = [status EXCEPT ![i] = "ACTIVE"]
    /\ matures'[i] > clock
    /\ matures' = [matures EXCEPT ![i] = matures'[i]]
    /\ UNCHANGED clock

\* The daily accruals.
Complete(i) ==
    /\ status[i] = "ACTIVE"
    /\ matures[i] <= clock
    /\ status' = [status EXCEPT ![i] = "COMPLETED"]
    /\ UNCHANGED <<matures, clock>>

\* Its plan or its owner is deleted.
Remove ==
    /\ \A i \in Investments : status'[i] \in {status[i], "none"}
    /\ \A i \in Investments : status'[i] # "none" => matures'[i] = matures[i]
    /\ UNCHANGED clock

Tick ==
    /\ clock' \in Nat /\ clock' > clock
    /\ UNCHANGED <<status, matures>>

Next ==
    \/ \E i \in Investments : Begin(i) \/ Complete(i)
    \/ Remove
    \/ Tick

Spec == Init /\ [][Next]_<<status, matures, clock>>
=============================================================================
