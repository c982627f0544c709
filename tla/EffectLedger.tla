---------------------------- MODULE EffectLedger ----------------------------
(***************************************************************************)
(* What the lanes' action ledger promises, with no lease, worker or lost   *)
(* answer: an external mutation takes effect at most once, and is recorded *)
(* only after it did.                                                      *)
(***************************************************************************)
EXTENDS Naturals

CONSTANT Requests

VARIABLES
    effects,    \* how often a request took effect at Conductor or the Git host
    recorded    \* the requests recorded as done

ledgerVars == <<effects, recorded>>

Init == effects = [x \in Requests |-> 0] /\ recorded = {}

Happen(x) == /\ effects[x] = 0
             /\ effects' = [effects EXCEPT ![x] = 1]
             /\ recorded' = recorded

Record(x) == /\ effects[x] = 1
             /\ recorded' = recorded \cup {x}
             /\ effects' = effects

Next == \E x \in Requests : Happen(x) \/ Record(x)

Spec == Init /\ [][Next]_ledgerVars
=============================================================================
