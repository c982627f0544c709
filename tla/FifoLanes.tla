----------------------------- MODULE FifoLanes ------------------------------
(***************************************************************************)
(* What the gateway's queue promises, with no lease, process or handler:   *)
(* rows arrive in an order, and each is settled once, as done or blocked,  *)
(* in the order of arrival within its lane.                                *)
(***************************************************************************)
EXTENDS Naturals

CONSTANTS Rows, Lane

VARIABLES
    arrived,   \* the arrival number of a row
    outcome    \* absent, open, done or blocked

fifoVars == <<arrived, outcome>>

Init == /\ arrived = [r \in Rows |-> 0]
        /\ outcome = [r \in Rows |-> "absent"]

Here(r) == outcome[r] # "absent"

\* The rows S arrive behind every row that is here, in some order among themselves.
Arrive(S) ==
    /\ S # {}
    /\ \A r \in S : ~Here(r)
    /\ outcome' = [r \in Rows |-> IF r \in S THEN "open" ELSE outcome[r]]
    /\ arrived' \in [Rows -> Nat]
    /\ \A r \in Rows \ S : arrived'[r] = arrived[r]
    /\ \A r \in S : \A s \in Rows : Here(s) => arrived[s] < arrived'[r]
    /\ \A r, s \in S : r # s => arrived'[r] # arrived'[s]

\* An open row with nothing open ahead of it in its lane is settled.
Settle(r, result) ==
    /\ outcome[r] = "open"
    /\ \A s \in Rows : /\ Lane[s] = Lane[r]
                       /\ Here(s)
                       /\ arrived[s] < arrived[r]
                       => outcome[s] # "open"
    /\ outcome' = [outcome EXCEPT ![r] = result]
    /\ arrived' = arrived

Next == \/ \E S \in SUBSET Rows : Arrive(S)
        \/ \E r \in Rows, result \in {"done", "blocked"} : Settle(r, result)

Spec == Init /\ [][Next]_fifoVars
=============================================================================
