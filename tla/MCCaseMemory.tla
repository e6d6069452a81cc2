--------------------------- MODULE MCCaseMemory ---------------------------
(* Small instances of CaseMemory for TLC.                                  *)
EXTENDS CaseMemory, TLC

\* All cases are about the same components.
OneScope == [k \in Cases |-> {}]

Symmetry == Permutations(Cases) \cup Permutations(Clients)
            \cup Permutations(Runs) \cup Permutations(Facts)
=============================================================================
