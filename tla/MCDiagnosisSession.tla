------------------------- MODULE MCDiagnosisSession -------------------------
(* Small instances of DiagnosisSession for TLC.                            *)
EXTENDS DiagnosisSession, TLC

CONSTANTS a, b, q1, q2, c1, c2

QueryOfEach == [q \in {q1, q2} |-> IF q = q1 THEN a ELSE b]
OneObjection == {Issue("unsupported_claim", "similar_cases", {1})}
PlainThenBroad == {[components |-> {a}, history |-> FALSE],
                   [components |-> {a, b}, history |-> TRUE]}
CauseSymmetry == Permutations({c1, c2})
=============================================================================
