------------------------------ MODULE Requests ------------------------------
(***************************************************************************)
(* What the runner's protocol promises whoever makes a request            *)
(* (_smolbsd_runner.py:13-17, and runner.sh:6-12): the guest carries a     *)
(* request out at most once and only after it was made; one that returns   *)
(* an answer returns that of its own run; one that was given up is never   *)
(* answered, though the guest may still carry it out.                      *)
(***************************************************************************)
CONSTANTS
    Reqs,      \* the requests that may be made
    Outcomes,  \* what the guest can answer
    None       \* no outcome yet

VARIABLES
    status,    \* where the host is with a request
    outcome,   \* what came of it in the guest
    reply      \* what the host was told

requestVars == <<status, outcome, reply>>

Init ==
    /\ status = [r \in Reqs |-> "new"]
    /\ outcome = [r \in Reqs |-> None]
    /\ reply = [r \in Reqs |-> None]

Make(r) ==
    /\ status[r] = "new"
    /\ status' = [status EXCEPT ![r] = "made"]
    /\ UNCHANGED <<outcome, reply>>

CarryOut(r) ==
    /\ status[r] # "new"
    /\ outcome[r] = None
    /\ \E o \in Outcomes : outcome' = [outcome EXCEPT ![r] = o]
    /\ UNCHANGED <<status, reply>>

Return(r) ==
    /\ status[r] = "made"
    /\ outcome[r] # None
    /\ status' = [status EXCEPT ![r] = "returned"]
    /\ reply' = [reply EXCEPT ![r] = outcome[r]]
    /\ UNCHANGED outcome

\* A time-out, a lost connection, or the process that asked them is gone.
GiveUp(rs) ==
    /\ \A r \in rs : status[r] = "made"
    /\ status' = [r \in Reqs |-> IF r \in rs THEN "failed" ELSE status[r]]
    /\ UNCHANGED <<outcome, reply>>

Next ==
    \/ \E r \in Reqs : Make(r) \/ CarryOut(r) \/ Return(r)
    \/ \E rs \in SUBSET Reqs : GiveUp(rs)

Spec == Init /\ [][Next]_requestVars
=============================================================================
