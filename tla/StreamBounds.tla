---------------------------- MODULE StreamBounds ----------------------------
(***************************************************************************)
(* The bounds that the run stream and the page that follows it share.      *)
(***************************************************************************)
EXTENDS Integers

CONSTANTS MaxRuns,     \* bound: runs of the session
          MaxEvents,   \* bound: public events of a run
          MaxBreaks    \* bound: connections the network drops

ASSUME BoundsAssumption ==
    MaxRuns \in Nat /\ MaxEvents \in Nat \ {0} /\ MaxBreaks \in Nat

\* The runs of the session, in the order they are submitted.
RunIds == 1..MaxRuns
=============================================================================
