--------------------------- MODULE EscrowPromise ---------------------------
(***************************************************************************)
(* What either escrow contract promises about a publisher's budget, with   *)
(* nothing said of agents, bonds, stakes, yields, disputes or committees.  *)
(* A budget is pledged once, is backed by the contract's tokens as long as *)
(* it is pledged, and is released once, to the agents' side or back to the *)
(* publisher.  Other tokens may come and go at any time as long as what is *)
(* pledged stays backed.                                                   *)
(***************************************************************************)
EXTENDS Naturals

CONSTANTS
    Tasks,
    Total(_)    \* the sum of a function's amounts

VARIABLES
    stage,      \* how far each budget has come
    pledged,    \* the budget of each task
    pool        \* the tokens the contract holds

promiseVars == <<stage, pledged, pool>>

Released == {"agents", "publisher"}

Backing(st, budgets) ==
    Total([t \in Tasks |-> IF st[t] = "pledged" THEN budgets[t] ELSE 0])

Init ==
    /\ stage = [t \in Tasks |-> "none"]
    /\ pledged = [t \in Tasks |-> 0]
    /\ pool = 0

Pledge(t) ==
    /\ stage[t] = "none"
    /\ stage' = [stage EXCEPT ![t] = "pledged"]
    /\ pledged'[t] \in Nat \ {0}
    /\ pledged' = [pledged EXCEPT ![t] = pledged'[t]]
    /\ pool' = pool + pledged'[t]

Release(t, side) ==
    /\ stage[t] = "pledged"
    /\ stage' = [stage EXCEPT ![t] = side]
    /\ pool' \in Nat
    /\ pool' >= Backing(stage', pledged)
    /\ UNCHANGED pledged

\* Bonds, stakes and rewards enter and leave.
MoveOtherTokens ==
    /\ pool' \in Nat
    /\ pool' >= Backing(stage, pledged)
    /\ UNCHANGED <<stage, pledged>>

Next ==
    \/ \E t \in Tasks : Pledge(t)
    \/ \E t \in Tasks, side \in Released : Release(t, side)
    \/ MoveOtherTokens

Spec == Init /\ [][Next]_promiseVars
=============================================================================
