---------------------------- MODULE CaseLedger ----------------------------
(***************************************************************************)
(* What the long-term case memory promises to its users, whatever          *)
(* transactions run at the same time: a report is counted once per run, a  *)
(* verdict is changed by a user only, and each of the operations of        *)
(* app/memory/runtime.py is atomic.                                        *)
(***************************************************************************)
CONSTANTS Cases, Runs

VARIABLES verdict,       \* status of each case; "absent" when there is no row
          contributors   \* runs whose reports the case stands for

vars == <<verdict, contributors>>

Verdicts == {"confirmed", "rejected"}

Init ==
    /\ verdict = [k \in Cases |-> "absent"]
    /\ contributors = [k \in Cases |-> {}]

\* stage: a report founds a pending case or joins one, whose verdict stays.
Stage(k, r) ==
    /\ verdict' = [verdict EXCEPT ![k] = IF @ = "absent" THEN "pending" ELSE @]
    /\ contributors' = [contributors EXCEPT ![k] = @ \cup {r}]

\* decide: the user confirms or rejects, as often as he likes.
Decide(k, v) ==
    /\ verdict[k] # "absent"
    /\ verdict' = [verdict EXCEPT ![k] = v]
    /\ UNCHANGED contributors

\* delete: the case and its evidence links go together.
Delete(k) ==
    /\ verdict[k] # "absent"
    /\ verdict' = [verdict EXCEPT ![k] = "absent"]
    /\ contributors' = [contributors EXCEPT ![k] = {}]

Next ==
    \E k \in Cases :
        \/ \E r \in Runs : Stage(k, r)
        \/ \E v \in Verdicts : Decide(k, v)
        \/ Delete(k)

Spec == Init /\ [][Next]_vars
=============================================================================
