--------------------------- MODULE MCApiService ---------------------------
(* An instance of ApiService for TLC: settings that start a full service, a  *)
(* bare one and two that must be refused, three identities in a table of two,*)
(* two requests a window of three ticks and two ticks to a second.           *)
EXTENDS ApiService, TLC

CONSTANTS c1, c2, i1, i2, i3

MCCallers == {c1, c2}
MCIdentities == {i1, i2, i3}

Setting(mode, token, database, model, reranker, lasts) ==
    [mode |-> mode, token |-> token, database |-> database,
     model |-> model, reranker |-> reranker, lasts |-> lasts]

MCConfigurations ==
    {Setting("bearer", "strong", TRUE, TRUE, TRUE, 2),
     Setting("disabled", "absent", FALSE, FALSE, FALSE, 7),
     Setting("bearer", "weak", TRUE, TRUE, FALSE, 0),
     Setting("disabled", "strong", TRUE, FALSE, FALSE, 0)}

Symmetry == Permutations(MCCallers) \cup Permutations(MCIdentities)

=============================================================================
