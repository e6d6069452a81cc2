-------------------------- MODULE TraceCollector --------------------------
(***************************************************************************)
(* The collector of one run's spans, app/observability/tracing.py, as a    *)
(* value: numbers are given when a span starts, spans are recorded when    *)
(* they end, and what is exported is renumbered.  Times and attributes are *)
(* left out.  A span identity is a digest of the run and the number of the *)
(* span: it is that number here, and 0 is an absent one.                   *)
(***************************************************************************)
EXTENDS Selections, FiniteSets, SequencesExt

SpanStatuses == {"ok", "error", "cancelled"}

\* A handle that records nothing, which spans beyond the limit are given.
Inert == 0

\* completed maps numbers to spans; label is whatever tells spans apart.
NewCollector(limit) == [next |-> 1, completed |-> <<>>, dropped |-> 0, limit |-> limit]

\* _reserve_sequence: the number a span that starts now is given, and what the
\* collector is then.
Number(c) == IF c.next > c.limit THEN Inert ELSE c.next
Reserved(c) == IF c.next > c.limit THEN [c EXCEPT !.dropped = @ + 1]
                                   ELSE [c EXCEPT !.next = @ + 1]

\* A span without a parent belongs to the first span, unless it is the first.
EffectiveParent(number, parent) == IF parent = 0 /\ number # 1 THEN 1 ELSE parent

\* _finish
Finished(c, number, parent, status, label) ==
    LET span == [parent |-> EffectiveParent(number, parent), status |-> status, label |-> label]
    IN  IF number = Inert THEN c
        ELSE [c EXCEPT !.completed = [n \in DOMAIN @ \cup {number} |->
                                         IF n = number THEN span ELSE @[n]]]

\* record_span: a span known only when it is over.
SpanRecorded(c, parent, status, label) ==
    Finished(Reserved(c), Number(c), parent, status, label)

\* snapshot: recorded spans in the order they started, renumbered; the parent
\* of a span that never ended becomes the first span.
RemappedParentStale(i, parent, earlier) ==
    CASE i = 1 \/ parent = 0 -> 0
      [] i > 1 /\ earlier # {} -> CHOOSE j \in earlier : TRUE
      [] OTHER -> parent
RemappedParent(i, parent, earlier) ==
    CASE i = 1 \/ parent = 0 -> 0
      [] i > 1 /\ earlier # {} -> CHOOSE j \in earlier : TRUE
      [] OTHER -> 1
Snapshot(c) ==
    LET ordered == Selected([n \in 1..(c.next - 1) |-> n], DOMAIN c.completed)
        spans == [i \in DOMAIN ordered |-> c.completed[ordered[i]]]
    IN  [i \in DOMAIN spans |->
            [spans[i] EXCEPT !.parent =
                RemappedParent(i, @, {j \in 1..(i - 1) : ordered[j] = spans[i].parent})]]

\* RunTrace.validate_structure and TraceSpan.validate_consistency; that the
\* numbers are consecutive is the trace being a sequence.
IsRunTrace(spans) ==
    /\ \A i \in DOMAIN spans : spans[i].parent \in 0..(i - 1)
    /\ spans # <<>> =>
           \E root \in DOMAIN spans : {i \in DOMAIN spans : spans[i].parent = 0} = {root}
=============================================================================
