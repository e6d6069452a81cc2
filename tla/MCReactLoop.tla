---------------------------- MODULE MCReactLoop ----------------------------
(* Small instances of ReactLoop for TLC.                                   *)
EXTENDS ReactLoop

CONSTANTS r0, r1, q1, q2, h1, c1

\* A session that begins, one whose checkpoint holds a run that found something
\* with q1, was told nothing by q2 and rests a hypothesis on the first, and the
\* same session once the observation has left the window of the checkpoint.
FreshPrior == [hypotheses |-> <<>>, evidence |-> <<>>, tools |-> <<>>]
LaterPrior ==
    [hypotheses |-> <<[id |-> h1, cause |-> c1, status |-> "supported",
                       supporting |-> {<<r0, q1>>}, contradicting |-> {}]>>,
     evidence |-> << <<r0, q1>> >>,
     tools |-> <<[run |-> r0, query |-> q1, attempts |-> 1],
                 [run |-> r0, query |-> q2, attempts |-> 1]>>]
ForgetfulPrior == [LaterPrior EXCEPT !.evidence = <<>>]
MCPriors == {FreshPrior, LaterPrior, ForgetfulPrior}
=============================================================================
