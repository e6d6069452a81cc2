----------------------------- MODULE Selections -----------------------------
(***************************************************************************)
(* The items of a sequence one keeps: what the comprehensions of the code, *)
(* [x for x in list if ...], leave of a list.  The places are a set, so    *)
(* that facts about them can be stated and proved once (SelectionProofs).  *)
(***************************************************************************)
EXTENDS Integers, Sequences

\* The items of seq at the places in I, in their order.
Selected(seq, I) ==
    LET upTo[n \in 0..Len(seq)] ==
            IF n = 0 THEN <<>>
            ELSE IF n \in I THEN Append(upTo[n - 1], seq[n]) ELSE upTo[n - 1]
    IN  upTo[Len(seq)]
=============================================================================
