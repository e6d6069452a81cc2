----------------------- MODULE DiagnosisSessionProofs -----------------------
(***************************************************************************)
(* What holds of the turns of a session for every number of turns, every   *)
(* window and everything the runs may find.                                *)
(***************************************************************************)
EXTENDS DiagnosisSession, SelectionProofs

\* Items of former turns, while a run goes on.
Former(entries) ==
    \A i \in DOMAIN entries :
        entries[i][1] <= turn /\ (stage # "idle" => entries[i][1] < turn)

\* What a run holds is what it was given, and then what it added itself.
Continues(entries, past, S) ==
    \E own \in Seq(S) :
        entries = past \o own /\ \A i \in DOMAIN own : own[i][1] = turn

HistoryOK ==
    /\ checkpoint = None => log.evidence = <<>> /\ log.events = <<>>
    /\ WindowIsRecent
    /\ stage # "idle" => turn \in 1..Turns
    /\ Former(log.evidence) /\ Former(log.events)

RunContinues ==
    stage # "idle" =>
        /\ Continues(state.evidence, TailOf(log.evidence, WindowEvidence), Observation)
        /\ Continues(state.events, TailOf(log.events, WindowEvents), Event)

StagesFit ==
    /\ stage # "refused"
    /\ stage \notin {"idle", "recall"} => (~request.history => recalled = <<>>)
    /\ stage \in {"report", "stage", "save"} => matches = Explain(recalled, state)
    /\ stage \in {"stage", "save"} => report.outcome \in {"accepted", "degraded"}
    /\ stage = "save" => (report.outcome = "degraded") = (memory = "not_accepted")

SessionInv == TypeOK /\ HistoryOK /\ RunContinues /\ StagesFit /\ ComparisonsFitReport

-----------------------------------------------------------------------------
(* Windows.                                                                *)

\* Where the items of a concatenation come from.
LEMMA Joined ==
    ASSUME NEW S, NEW s \in Seq(S), NEW t \in Seq(S)
    PROVE  /\ s \o t \in Seq(S) /\ Len(s \o t) = Len(s) + Len(t)
           /\ DOMAIN s = 1..Len(s) /\ DOMAIN t = 1..Len(t)
           /\ DOMAIN (s \o t) = 1..(Len(s) + Len(t))
           /\ Len(s) \in Nat /\ Len(t) \in Nat
           /\ \A i \in 1..(Len(s) + Len(t)) :
                 (s \o t)[i] = IF i <= Len(s) THEN s[i] ELSE t[i - Len(s)]
BY ConcatProperties, LenProperties

\* The window over a sequence holds its last items.
LEMMA TailOfItems ==
    ASSUME NEW S, NEW s \in Seq(S), NEW n \in Nat \ {0}
    PROVE  /\ TailOf(s, n) \in Seq(S)
           /\ Len(s) \in Nat
           /\ Len(TailOf(s, n)) = IF Len(s) <= n THEN Len(s) ELSE n
           /\ DOMAIN TailOf(s, n) = 1..Len(TailOf(s, n))
           /\ \A i \in 1..Len(TailOf(s, n)) :
                 /\ Len(s) - Len(TailOf(s, n)) + i \in DOMAIN s
                 /\ TailOf(s, n)[i] = s[Len(s) - Len(TailOf(s, n)) + i]
<1>1. Len(s) \in Nat /\ DOMAIN s = 1..Len(s) /\ \A i \in 1..Len(s) : s[i] \in S
  BY LenProperties, ElementOfSeq
<1>2. CASE Len(s) <= n
  BY <1>1, <1>2 DEF TailOf
<1>3. CASE ~(Len(s) <= n)
  <2> DEFINE m == Len(s) - n + 1
             t == SubSeq(s, m, Len(s))
  <2>1. TailOf(s, n) = t
    BY <1>3 DEF TailOf
  <2>2. m \in 1..Len(s) /\ Len(s) - m + 1 = n
    BY <1>1, <1>3
  <2>3. t \in Seq(S) /\ Len(t) = n /\ \A i \in 1..n : t[i] = s[m + i - 1]
    <3> HIDE DEF m
    <3>1. \A i \in m..Len(s) : s[i] \in S
      BY <1>1, <2>2
    <3> QED BY <1>1, <2>2, <3>1, SubSeqProperties
  <2> HIDE DEF t
  <2>4. DOMAIN t = 1..n
    BY <2>3, LenProperties
  <2>5. ASSUME NEW i \in 1..n
        PROVE  Len(s) - n + i \in DOMAIN s /\ t[i] = s[Len(s) - n + i]
    <3>1. m + i - 1 = Len(s) - n + i /\ Len(s) - n + i \in 1..Len(s)
      BY <1>1, <1>3
    <3> QED BY <1>1, <2>3, <3>1
  <2> QED BY <1>1, <1>3, <2>1, <2>3, <2>4, <2>5
<1> QED BY <1>2, <1>3

\* The place of an item counted from the end of two lists with the same end.
LEMMA SamePlace ==
    ASSUME NEW ls \in Nat, NEW lw \in Nat, NEW lt \in Nat, NEW la \in Nat, NEW i \in 1..la,
           la <= ls + lt, la <= lw + lt
    PROVE  /\ (ls + lt) - la + i \in 1..(ls + lt)
           /\ (lw + lt) - la + i \in 1..(lw + lt)
           /\ ((ls + lt) - la + i) - ls = ((lw + lt) - la + i) - lw
           /\ ((ls + lt) - la + i <= ls) <=> ((lw + lt) - la + i <= lw)
OBVIOUS

\* A window cut from a window and what came since is the window cut from all.
LEMMA TailOfConcat ==
    ASSUME NEW S, NEW s \in Seq(S), NEW t \in Seq(S), NEW n \in Nat \ {0}
    PROVE  TailOf(TailOf(s, n) \o t, n) = TailOf(s \o t, n)
<1> DEFINE w == TailOf(s, n)
           all == s \o t
           cut == w \o t
           a == TailOf(all, n)
           c == TailOf(cut, n)
<1>1. /\ w \in Seq(S) /\ Len(w) = IF Len(s) <= n THEN Len(s) ELSE n
      /\ Len(s) \in Nat /\ Len(t) \in Nat /\ Len(w) \in Nat
      /\ \A i \in 1..Len(w) : w[i] = s[Len(s) - Len(w) + i]
  BY TailOfItems, LenProperties
<1> HIDE DEF w
<1>2. /\ all \in Seq(S) /\ Len(all) = Len(s) + Len(t)
      /\ \A i \in 1..(Len(s) + Len(t)) :
            all[i] = IF i <= Len(s) THEN s[i] ELSE t[i - Len(s)]
  BY Joined
<1>3. /\ cut \in Seq(S) /\ Len(cut) = Len(w) + Len(t)
      /\ \A i \in 1..(Len(w) + Len(t)) :
            cut[i] = IF i <= Len(w) THEN w[i] ELSE t[i - Len(w)]
  BY <1>1, Joined
<1> HIDE DEF all, cut
<1>4. /\ a \in Seq(S) /\ Len(a) = IF Len(all) <= n THEN Len(all) ELSE n
      /\ \A i \in 1..Len(a) : a[i] = all[Len(all) - Len(a) + i]
  BY <1>2, TailOfItems
<1>5. /\ c \in Seq(S) /\ Len(c) = IF Len(cut) <= n THEN Len(cut) ELSE n
      /\ \A i \in 1..Len(c) : c[i] = cut[Len(cut) - Len(c) + i]
  BY <1>3, TailOfItems
<1> HIDE DEF a, c
<1>6. Len(a) = Len(c)
  BY <1>1, <1>2, <1>3, <1>4, <1>5
<1>7. ASSUME NEW i \in 1..Len(a) PROVE a[i] = c[i]
  <2> DEFINE j == Len(all) - Len(a) + i
             k == Len(cut) - Len(c) + i
  <2>1. a[i] = all[j] /\ c[i] = cut[k]
    BY <1>4, <1>5, <1>6
  <2>2. /\ j \in 1..(Len(s) + Len(t)) /\ k \in 1..(Len(w) + Len(t))
        /\ j - Len(s) = k - Len(w)
        /\ (j <= Len(s)) <=> (k <= Len(w))
    <3>1. Len(all) = Len(s) + Len(t) /\ Len(cut) = Len(w) + Len(t)
      BY <1>2, <1>3
    <3>2. /\ Len(a) \in Nat /\ Len(a) <= Len(all) /\ Len(a) <= Len(cut)
          /\ Len(c) = Len(a)
      BY <1>1, <1>4, <1>5, <1>6, <3>1
    <3>3. /\ j = (Len(s) + Len(t)) - Len(a) + i
          /\ k = (Len(w) + Len(t)) - Len(a) + i
      BY <3>1, <3>2
    <3>4. /\ Len(s) \in Nat /\ Len(w) \in Nat /\ Len(t) \in Nat /\ Len(a) \in Nat
          /\ Len(a) <= Len(s) + Len(t) /\ Len(a) <= Len(w) + Len(t)
      BY <1>1, <3>1, <3>2
    <3>5. /\ (Len(s) + Len(t)) - Len(a) + i \in 1..(Len(s) + Len(t))
          /\ (Len(w) + Len(t)) - Len(a) + i \in 1..(Len(w) + Len(t))
          /\ ((Len(s) + Len(t)) - Len(a) + i) - Len(s) = ((Len(w) + Len(t)) - Len(a) + i) - Len(w)
          /\ ((Len(s) + Len(t)) - Len(a) + i <= Len(s))
                <=> ((Len(w) + Len(t)) - Len(a) + i <= Len(w))
      BY <3>4, SamePlace
    <3> HIDE DEF j, k
    <3> QED BY <3>3, <3>5
  <2> HIDE DEF j, k
  <2>3. CASE j <= Len(s)
    <3>1. all[j] = s[j] /\ cut[k] = w[k] /\ k \in 1..Len(w)
      BY <1>2, <1>3, <2>2, <2>3
    <3>2. Len(s) - Len(w) + k = j
      BY <1>1, <2>2
    <3> QED BY <1>1, <2>1, <3>1, <3>2
  <2>4. CASE ~(j <= Len(s))
    BY <1>2, <1>3, <2>1, <2>2, <2>4
  <2> QED BY <2>3, <2>4
<1>8. a = c
  BY <1>4, <1>5, <1>6, <1>7, SeqEqual
<1> QED BY <1>8 DEF a, c, all, cut, w

\* What a run added to what it was given is what it did itself.
LEMMA OwnIsOfThisTurn ==
    ASSUME NEW S, NEW past \in Seq(S), NEW own \in Seq(S),
           \A i \in DOMAIN past : past[i][1] # turn,
           \A i \in DOMAIN own : own[i][1] = turn
    PROVE  OfThisTurn(past \o own) = own
<1> DEFINE all == past \o own
           I == {i \in DOMAIN all : all[i][1] = turn}
<1>1. /\ all \in Seq(S) /\ Len(all) = Len(past) + Len(own)
      /\ DOMAIN past = 1..Len(past) /\ DOMAIN own = 1..Len(own)
      /\ DOMAIN all = 1..(Len(past) + Len(own))
      /\ Len(past) \in Nat /\ Len(own) \in Nat
      /\ \A i \in 1..(Len(past) + Len(own)) :
            all[i] = IF i <= Len(past) THEN past[i] ELSE own[i - Len(past)]
  BY Joined
<1>2. \A i \in 1..Len(all) : i \in I <=> i > Len(past)
  <2> HIDE DEF all
  <2> TAKE i \in 1..Len(all)
  <2>1. CASE i <= Len(past)
    <3>1. all[i] = past[i] /\ i \in DOMAIN past
      BY <1>1, <2>1
    <3> QED BY <1>1, <2>1, <3>1
  <2>2. CASE i > Len(past)
    <3>1. all[i] = own[i - Len(past)] /\ i - Len(past) \in DOMAIN own
      BY <1>1, <2>2
    <3> QED BY <1>1, <2>2, <3>1
  <2> QED BY <1>1, <2>1, <2>2
<1>3. OfThisTurn(all) = Selected(all, I)
  BY DEF OfThisTurn
<1> HIDE DEF I
<1>4. Selected(all, I) = SubSeq(all, Len(past) + 1, Len(all))
  <2> HIDE DEF all
  <2>1. Len(past) \in 0..Len(all)
    BY <1>1
  <2> QED BY <1>1, <1>2, <2>1, SelectedSuffix
<1> DEFINE b == SubSeq(all, Len(past) + 1, Len(all))
<1>5. b = own
  <2>1. /\ b \in Seq(S) /\ Len(b) = Len(own)
        /\ \A i \in 1..Len(own) : b[i] = all[Len(past) + i]
    <3>1. \A i \in (Len(past) + 1)..Len(all) : all[i] \in S
      <4> HIDE DEF all
      <4> QED BY <1>1, ElementOfSeq
    <3> HIDE DEF all
    <3>2. /\ SubSeq(all, Len(past) + 1, Len(all)) \in Seq(S)
          /\ Len(b) = IF Len(past) + 1 <= Len(all) THEN Len(all) - (Len(past) + 1) + 1 ELSE 0
          /\ \A i \in 1..(Len(all) - (Len(past) + 1) + 1) : b[i] = all[(Len(past) + 1) + i - 1]
      BY <1>1, <3>1, SubSeqProperties
    <3> HIDE DEF b
    <3>3. Len(b) = Len(own) /\ Len(all) - (Len(past) + 1) + 1 = Len(own)
      BY <1>1, <3>2
    <3>4. \A i \in 1..Len(own) : (Len(past) + 1) + i - 1 = Len(past) + i
      BY <1>1
    <3> QED BY <3>2, <3>3, <3>4 DEF b
  <2> HIDE DEF b, all
  <2>2. \A i \in 1..Len(own) : b[i] = own[i]
    <3> TAKE i \in 1..Len(own)
    <3>1. Len(past) + i \in 1..(Len(past) + Len(own)) /\ ~(Len(past) + i <= Len(past))
          /\ (Len(past) + i) - Len(past) = i
      BY <1>1
    <3> QED BY <1>1, <2>1, <3>1
  <2> QED BY <2>1, <2>2, SeqEqual
<1> QED BY <1>3, <1>4, <1>5

-----------------------------------------------------------------------------
(* The hypotheses.                                                         *)

LEMMA KindsOfReferences ==
    Observation \subseteq References /\ UNION Bundles \subseteq References
      /\ Causes \subseteq References
BY DEF References

\* What a run may cite is an observation, retrieved evidence or a past case.
LEMMA CitesReferences ==
    ASSUME TypeOK
    PROVE  ValidRefs(Context(state, bundle, recalled)) \subseteq References
<1> DEFINE ctx == Context(state, bundle, recalled)
<1>1. /\ ctx.evidence = ToSet(state.evidence) /\ ctx.nodes = bundle /\ ctx.paths = <<>>
      /\ ctx.solutions = <<>> /\ ctx.cases = recalled
  BY DEF Context
<1> HIDE DEF ctx
<1>2. ToSet(state.evidence) \subseteq Observation
  BY LenProperties, ElementOfSeq DEF TypeOK, AgentState, ToSet
<1>3. ToSet(recalled) \subseteq Causes
  BY LenProperties, ElementOfSeq DEF TypeOK, ToSet
<1>4. bundle \subseteq UNION Bundles
  BY DEF TypeOK
<1>5. ToSet(<<>>) = {} /\ RefsOf(<<>>) = {}
  BY DEF ToSet, RefsOf
<1>6. ValidRefs(ctx) = ToSet(state.evidence) \cup bundle \cup ToSet(recalled)
  BY <1>1, <1>5 DEF ValidRefs
<1>7. ValidRefs(ctx) \subseteq References
  BY <1>2, <1>3, <1>4, <1>6, KindsOfReferences
<1> QED BY <1>7 DEF ctx

LEMMA UpdatedTyped ==
    ASSUME NEW h \in Hypothesis, NEW u, NEW observed,
           u.cause \in Causes, u.refs \subseteq References
    PROVE  Updated(h, u, observed) \in Hypothesis
<1> DEFINE against == u.status \in {"weakened", "rejected"}
           supporting == h.supporting \cup (IF against THEN {} ELSE u.refs)
           contradicting == h.contradicting \cup (IF against THEN u.refs ELSE {})
           cause == IF u.cause = None THEN h.cause ELSE u.cause
           status == ProjectedStatus(u.status, supporting, observed)
<1>1. /\ h.cause \in Causes /\ h.supporting \subseteq References
      /\ h.contradicting \subseteq References
  BY DEF Hypothesis
<1>2. supporting \subseteq References /\ contradicting \subseteq References /\ cause \in Causes
  BY <1>1
<1>3. status \in {"candidate", "supported", "rejected"}
  <2> HIDE DEF supporting
  <2> QED BY DEF ProjectedStatus
<1>4. Updated(h, u, observed) = [h EXCEPT !.cause = cause, !.supporting = supporting,
                                          !.contradicting = contradicting, !.status = status]
  BY DEF Updated
<1> HIDE DEF against, supporting, contradicting, cause, status
<1> QED BY <1>2, <1>3, <1>4 DEF Hypothesis

LEMMA OpenedTyped ==
    ASSUME NEW hs \in Seq(Hypothesis), NEW u, u.id \in Hypotheses, u.cause \in Causes
    PROVE  Opened(hs, u) \in Seq(Hypothesis)
<1> DEFINE opened == [id |-> u.id, cause |-> u.cause, status |-> "candidate",
                      supporting |-> {}, contradicting |-> {}]
<1>1. opened \in Hypothesis
  BY DEF Hypothesis
<1>2. Opened(hs, u) = Append(hs, opened) \/ Opened(hs, u) = hs
  BY DEF Opened
<1> HIDE DEF opened
<1> QED BY <1>1, <1>2, AppendProperties

LEMMA ProjectedTyped ==
    ASSUME NEW hs \in Seq(Hypothesis), NEW u, NEW observed,
           u.id \in Hypotheses, u.cause \in Causes, u.refs \subseteq References
    PROVE  Projected(hs, u, observed) \in Seq(Hypothesis)
<1> DEFINE o == Opened(hs, u)
           p == Projected(hs, u, observed)
<1>1. o \in Seq(Hypothesis)
  BY OpenedTyped
<1>2. p = [i \in DOMAIN o |-> IF o[i].id = u.id THEN Updated(o[i], u, observed) ELSE o[i]]
  BY DEF Projected
<1> HIDE DEF o, p
<1>3. DOMAIN o = 1..Len(o) /\ Len(o) \in Nat /\ \A i \in 1..Len(o) : o[i] \in Hypothesis
  BY <1>1, LenProperties, ElementOfSeq
<1>4. \A i \in 1..Len(o) : p[i] \in Hypothesis
  BY <1>2, <1>3, UpdatedTyped
<1>5. p \in Seq(Hypothesis)
  BY <1>2, <1>3, <1>4
<1> QED BY <1>5 DEF p

\* One update is one round of the projection.
LEMMA OneUpdate ==
    ASSUME NEW hs, NEW u, NEW observed
    PROVE  ProjectUpdates(hs, <<u>>, observed) = Projected(hs, u, observed)
<1> DEFINE Projects(f) ==
               f = [n \in 0..1 |-> IF n = 0 THEN hs ELSE Projected(f[n - 1], <<u>>[n], observed)]
           g == [n \in 0..1 |-> IF n = 0 THEN hs ELSE Projected(hs, u, observed)]
           f == CHOOSE f : Projects(f)
<1>1. \A n \in 0..1 :
         g[n] = IF n = 0 THEN hs ELSE Projected(g[n - 1], <<u>>[n], observed)
  <2> TAKE n \in 0..1
  <2>1. n = 0 \/ (n = 1 /\ n - 1 = 0)
    OBVIOUS
  <2>2. g[0] = hs /\ g[1] = Projected(hs, u, observed) /\ <<u>>[1] = u
    OBVIOUS
  <2> HIDE DEF g
  <2> QED BY <2>1, <2>2
<1>2. Projects(g)
  BY <1>1
<1>3. Projects(f)
  <2> HIDE DEF Projects, g
  <2> QED BY <1>2
<1>4. ProjectUpdates(hs, <<u>>, observed) = f[1]
  <2>1. Len(<<u>>) = 1
    OBVIOUS
  <2> QED BY <2>1 DEF ProjectUpdates
<1> HIDE DEF f
<1>5. f[0] = hs /\ f[1] = Projected(f[0], <<u>>[1], observed)
  BY <1>3
<1>6. <<u>>[1] = u
  OBVIOUS
<1> QED BY <1>4, <1>5, <1>6

\* A decision changes the hypotheses and nothing else of the state.
LEMMA DecidedTyped ==
    ASSUME TypeOK, NEW final \in Decided
    PROVE  /\ final \in AgentState
           /\ final.evidence = state.evidence /\ final.events = state.events
<1>1. state \in AgentState
  BY DEF TypeOK
<1>2. CASE final = state
  BY <1>1, <1>2
<1>3. ASSUME NEW u \in Update,
             final = [state EXCEPT !.hypotheses =
                        ProjectUpdates(@, <<u>>, ToSet(state.evidence))]
      PROVE  /\ final \in AgentState
             /\ final.evidence = state.evidence /\ final.events = state.events
  <2>1. u.id \in Hypotheses /\ u.cause \in Causes /\ u.refs \subseteq References
    BY CitesReferences DEF Update
  <2> DEFINE hs == ProjectUpdates(state.hypotheses, <<u>>, ToSet(state.evidence))
  <2>2. hs \in Seq(Hypothesis)
    BY <1>1, <2>1, OneUpdate, ProjectedTyped DEF AgentState
  <2>3. final = [state EXCEPT !.hypotheses = hs]
    BY <1>3
  <2> HIDE DEF hs
  <2> QED BY <1>1, <2>2, <2>3 DEF AgentState
<1> QED BY <1>2, <1>3 DEF Decided

-----------------------------------------------------------------------------
(* The comparison with past cases, and the report.                         *)

LEMMA HeadOfItems ==
    ASSUME NEW S, NEW s \in Seq(S), NEW n \in Nat
    PROVE  ToSet(HeadOf(s, n)) \subseteq S
<1> DEFINE m == IF Len(s) < n THEN Len(s) ELSE n
<1>1. Len(s) \in Nat /\ m \in Nat /\ m <= Len(s)
  BY LenProperties
<1>2. HeadOf(s, n) = SubSeq(s, 1, m)
  BY DEF HeadOf
<1> HIDE DEF m
<1>3. \A i \in 1..m : s[i] \in S
  BY <1>1, ElementOfSeq
<1>4. SubSeq(s, 1, m) \in Seq(S)
  BY <1>1, <1>3, SubSeqProperties
<1> QED BY <1>2, <1>4, LenProperties, ElementOfSeq DEF ToSet

\* A comparison says of every case whether it conflicts, and what it rests on.
LEMMA Explained ==
    ASSUME NEW list \in Seq(Causes), NEW st \in AgentState
    PROVE  /\ Explain(list, st) \in Seq(CaseMatch)
           /\ DOMAIN Explain(list, st) = DOMAIN list
           /\ \A i \in DOMAIN list :
                 /\ Explain(list, st)[i].case = list[i]
                 /\ Explain(list, st)[i].conflict = Conflicts(list[i], st.hypotheses)
                 /\ Explain(list, st)[i].refs \ {list[i]}
                       = ToSet(HeadOf(st.evidence, CitedObservations))
<1> DEFINE cited == ToSet(HeadOf(st.evidence, CitedObservations))
           Match(i) == [case |-> list[i], conflict |-> Conflicts(list[i], st.hypotheses),
                        refs |-> {list[i]} \cup cited]
<1>1. DOMAIN list = 1..Len(list) /\ Len(list) \in Nat /\ \A i \in 1..Len(list) : list[i] \in Causes
  BY LenProperties, ElementOfSeq
<1>2. cited \subseteq Observation
  BY HeadOfItems, SessionAssumption DEF AgentState
<1>3. Explain(list, st) = [i \in DOMAIN list |-> Match(i)]
  BY DEF Explain
<1> HIDE DEF cited
<1>4. ASSUME NEW i \in 1..Len(list)
      PROVE  Match(i) \in CaseMatch /\ ({list[i]} \cup cited) \ {list[i]} = cited
  <2>1. list[i] \in Causes /\ list[i] \notin cited
    BY <1>1, <1>2, IdentityAssumption
  <2>2. Conflicts(list[i], st.hypotheses) \in BOOLEAN
    BY DEF Conflicts
  <2>3. {list[i]} \cup cited \subseteq References
    BY <1>2, <2>1, KindsOfReferences
  <2> DEFINE conflict == Conflicts(list[i], st.hypotheses)
             refs == {list[i]} \cup cited
  <2>4. [case |-> list[i], conflict |-> conflict, refs |-> refs] \in CaseMatch
    <3> HIDE DEF conflict, refs
    <3>1. conflict \in BOOLEAN /\ refs \in SUBSET References
      BY <2>2, <2>3 DEF conflict, refs
    <3> QED BY <2>1, <3>1 DEF CaseMatch
  <2> QED BY <2>1, <2>4
<1>5. Explain(list, st) \in Seq(CaseMatch)
  <2> HIDE DEF Match
  <2> QED BY <1>1, <1>3, <1>4
<1> QED BY <1>1, <1>3, <1>4, <1>5 DEF cited

\* A root cause whose hypothesis still stands.
StandingCause(hyps) == {c \in RootCause : c.cause \in Live(hyps)}

LEMMA SupportedAreLive ==
    ASSUME NEW ctx, ctx.hypotheses \in Seq(Hypothesis)
    PROVE  /\ Reported(ctx) \in Seq(Hypothesis)
           /\ \A i \in DOMAIN Reported(ctx) : Reported(ctx)[i].cause \in Live(ctx.hypotheses)
<1> DEFINE hyps == ctx.hypotheses
           I == {i \in DOMAIN hyps : hyps[i].status = "supported"}
           sup == Selected(hyps, I)
           J == {i \in DOMAIN sup : Reportable(ctx, sup[i])}
           rep == Selected(sup, J)
<1>1. Reported(ctx) = rep
  BY DEF Reported, Supported
<1>2. hyps \in Seq(Hypothesis)
  OBVIOUS
<1>3. \A i \in I : i \in DOMAIN hyps /\ hyps[i].status = "supported"
  OBVIOUS
<1> HIDE DEF hyps, I
<1>4. /\ sup \in Seq(Hypothesis)
      /\ \A k \in DOMAIN sup : \E i \in I : sup[k] = hyps[i]
  BY <1>2, SelectedItems
<1> HIDE DEF sup, J
<1>5. /\ rep \in Seq(Hypothesis)
      /\ \A k \in DOMAIN rep : \E i \in DOMAIN sup : rep[k] = sup[i]
  BY <1>4, SelectedItems
<1> HIDE DEF rep
<1>6. ASSUME NEW k \in DOMAIN rep PROVE rep[k].cause \in Live(hyps)
  <2>1. PICK i \in I : rep[k] = hyps[i]
    BY <1>4, <1>5
  <2> QED BY <2>1, <1>3 DEF Live
<1> QED BY <1>1, <1>5, <1>6 DEF hyps

LEMMA DraftCauses ==
    ASSUME NEW ctx, ctx.hypotheses \in Seq(Hypothesis)
    PROVE  Build(ctx).causes \in Seq(StandingCause(ctx.hypotheses))
<1> DEFINE rep == Reported(ctx)
           Cause(i) == [cause |-> rep[i].cause, refs |-> rep[i].supporting \cap ValidRefs(ctx)]
<1>1. Build(ctx).causes = [i \in DOMAIN rep |-> Cause(i)]
  BY DEF Build, Report
<1>2. rep \in Seq(Hypothesis) /\ \A i \in DOMAIN rep : rep[i].cause \in Live(ctx.hypotheses)
  BY SupportedAreLive
<1> HIDE DEF rep
<1>3. DOMAIN rep = 1..Len(rep) /\ Len(rep) \in Nat /\ \A i \in 1..Len(rep) : rep[i] \in Hypothesis
  BY <1>2, LenProperties, ElementOfSeq
<1>4. \A i \in 1..Len(rep) : Cause(i) \in StandingCause(ctx.hypotheses)
  BY <1>2, <1>3 DEF Hypothesis, RootCause, StandingCause
<1> HIDE DEF Cause
<1> QED BY <1>1, <1>3, <1>4

\* Trimming and removing claims leaves causes whose hypotheses stand.
LEMMA RevisedCauses ==
    ASSUME NEW ctx, NEW r, NEW issues, NEW hyps, r.causes \in Seq(StandingCause(hyps))
    PROVE  Revise(ctx, r, issues).causes \in Seq(StandingCause(hyps))
<1> DEFINE C == StandingCause(hyps)
           list == r.causes
           trimmed == [i \in DOMAIN list |-> [list[i] EXCEPT !.refs = @ \cap ValidRefs(ctx)]]
           I == DOMAIN list \ Targets(issues, "root_causes", Len(list))
           sur == Selected(trimmed, I)
           J == {i \in DOMAIN sur : sur[i].refs # {}}
<1>1. Revise(ctx, r, issues).causes = Selected(sur, J)
  BY DEF Revise, Report, Survivors, Grounded
<1>2. trimmed \in Seq(C)
  <2>1. list \in Seq(C)
    OBVIOUS
  <2> HIDE DEF list, C
  <2>2. DOMAIN list = 1..Len(list) /\ Len(list) \in Nat /\ \A i \in 1..Len(list) : list[i] \in C
    BY <2>1, LenProperties, ElementOfSeq
  <2>3. \A i \in 1..Len(list) : [list[i] EXCEPT !.refs = @ \cap ValidRefs(ctx)] \in C
    BY <2>2 DEF C, StandingCause, RootCause
  <2> QED BY <2>2, <2>3
<1> HIDE DEF trimmed, I
<1>3. sur \in Seq(C)
  <2> HIDE DEF C
  <2> QED BY <1>2, SelectedItems
<1> HIDE DEF sur, J
<1>4. Selected(sur, J) \in Seq(C)
  <2> HIDE DEF C
  <2> QED BY <1>3, SelectedItems
<1> QED BY <1>1, <1>4

\* What a run keeps of a report fits the comparison made with its final state.
LEMMA KeptFits ==
    ASSUME TypeOK, matches = Explain(recalled, state), NEW r,
           r.causes \in Seq(StandingCause(state.hypotheses)),
           NEW outcome \in {"accepted", "degraded"}
    PROVE  /\ Kept(outcome, r) \in Outcome /\ Kept(outcome, r).outcome = outcome
           /\ \A i \in DOMAIN Kept(outcome, r).similar :
                LET m == Kept(outcome, r).similar[i]
                IN  /\ m.conflict = Conflicts(m.case, state.hypotheses)
                    /\ m.conflict => \A j \in DOMAIN Kept(outcome, r).causes :
                                        Kept(outcome, r).causes[j].cause # m.case
                    /\ m.refs \ {m.case} = ToSet(HeadOf(state.evidence, CitedObservations))
<1> DEFINE I == {k \in DOMAIN matches :
                    \E i \in DOMAIN r.similar : r.similar[i].case = matches[k].case}
           sim == Selected(matches, I)
           causes == r.causes
<1>1. Kept(outcome, r) = [outcome |-> outcome, causes |-> causes, similar |-> sim,
                          refs |-> RefsOf(causes) \cup RefsOf(sim)]
  BY DEF Kept
<1>2. causes \in Seq(StandingCause(state.hypotheses))
  OBVIOUS
<1> HIDE DEF I, causes
<1>3. /\ sim \in Seq(CaseMatch)
      /\ \A k \in DOMAIN sim : \E i \in DOMAIN matches : sim[k] = matches[i]
  BY SelectedItems DEF TypeOK
<1> HIDE DEF sim
<1>4. /\ DOMAIN causes = 1..Len(causes)
      /\ \A j \in DOMAIN causes : causes[j] \in RootCause /\ causes[j].cause \in Live(state.hypotheses)
  BY <1>2, LenProperties, ElementOfSeq DEF StandingCause
<1>5. causes \in Seq(RootCause)
  <2>1. StandingCause(state.hypotheses) \subseteq RootCause
    BY DEF StandingCause
  <2> QED BY <1>2, <2>1, SeqMonotonic
<1>6. \A k \in DOMAIN sim : sim[k] \in CaseMatch
  BY <1>3, LenProperties, ElementOfSeq
<1>7. RefsOf(causes) \cup RefsOf(sim) \subseteq References
  BY <1>4, <1>6 DEF RefsOf, RootCause, CaseMatch
<1>8. Kept(outcome, r) \in Outcome /\ Kept(outcome, r).outcome = outcome
  <2> DEFINE refs == RefsOf(causes) \cup RefsOf(sim)
  <2>1. refs \in SUBSET References
    BY <1>7
  <2> HIDE DEF refs
  <2>2. [outcome |-> outcome, causes |-> causes, similar |-> sim, refs |-> refs] \in Outcome
    BY <1>3, <1>5, <2>1 DEF Outcome
  <2> QED BY <1>1, <2>2 DEF refs
<1>9. ASSUME NEW k \in DOMAIN sim
      PROVE  /\ sim[k].conflict = Conflicts(sim[k].case, state.hypotheses)
             /\ sim[k].refs \ {sim[k].case} = ToSet(HeadOf(state.evidence, CitedObservations))
  <2>1. PICK i \in DOMAIN matches : sim[k] = matches[i]
    BY <1>3
  <2>2. recalled \in Seq(Causes) /\ state \in AgentState
    BY DEF TypeOK
  <2>3. /\ i \in DOMAIN recalled /\ sim[k].case = recalled[i]
        /\ sim[k].conflict = Conflicts(recalled[i], state.hypotheses)
        /\ sim[k].refs \ {recalled[i]} = ToSet(HeadOf(state.evidence, CitedObservations))
    BY <2>1, <2>2, Explained
  <2> QED BY <2>3
<1>10. ASSUME NEW k \in DOMAIN sim, sim[k].conflict, NEW j \in DOMAIN causes
       PROVE  causes[j].cause # sim[k].case
  <2>1. Conflicts(sim[k].case, state.hypotheses)
    BY <1>9, <1>10
  <2> QED BY <1>4, <2>1 DEF Conflicts
<1>11. Kept(outcome, r).similar = sim /\ Kept(outcome, r).causes = causes
  BY <1>1
<1> QED BY <1>8, <1>9, <1>10, <1>11

-----------------------------------------------------------------------------
(* Histories.                                                              *)

\* A run that adds to what it holds still continues what it was given.
LEMMA ContinuesMore ==
    ASSUME NEW S, NEW past \in Seq(S), NEW entries, Continues(entries, past, S),
           NEW new \in Seq(S), \A i \in DOMAIN new : new[i][1] = turn
    PROVE  Continues(entries \o new, past, S)
<1>1. PICK own \in Seq(S) :
         entries = past \o own /\ \A i \in DOMAIN own : own[i][1] = turn
  BY DEF Continues
<1> DEFINE all == own \o new
<1>2. entries \o new = past \o all
  BY <1>1, ConcatAssociative
<1>3. /\ all \in Seq(S) /\ DOMAIN own = 1..Len(own) /\ DOMAIN new = 1..Len(new)
      /\ DOMAIN all = 1..(Len(own) + Len(new)) /\ Len(own) \in Nat /\ Len(new) \in Nat
      /\ \A i \in 1..(Len(own) + Len(new)) :
            all[i] = IF i <= Len(own) THEN own[i] ELSE new[i - Len(own)]
  BY Joined
<1> HIDE DEF all
<1>4. ASSUME NEW i \in DOMAIN all PROVE all[i][1] = turn
  <2>1. CASE i <= Len(own)
    <3>1. i \in DOMAIN own /\ all[i] = own[i]
      BY <1>3, <2>1
    <3> QED BY <1>1, <3>1
  <2>2. CASE ~(i <= Len(own))
    <3>1. i - Len(own) \in DOMAIN new /\ all[i] = new[i - Len(own)]
      BY <1>3, <2>2
    <3> QED BY <3>1
  <2> QED BY <2>1, <2>2
<1> QED BY <1>2, <1>3, <1>4 DEF Continues

\* The window over what a run holds is the window over the whole history with
\* what the run added itself.
LEMMA SavedWindow ==
    ASSUME NEW S, NEW past \in Seq(S), NEW n \in Nat \ {0}, NEW entries,
           Continues(entries, TailOf(past, n), S),
           \A i \in DOMAIN past : past[i][1] # turn
    PROVE  /\ past \o OfThisTurn(entries) \in Seq(S)
           /\ TailOf(entries, n) = TailOf(past \o OfThisTurn(entries), n)
           /\ \A i \in DOMAIN (past \o OfThisTurn(entries)) :
                 \/ (past \o OfThisTurn(entries))[i][1] = turn
                 \/ i \in DOMAIN past /\ (past \o OfThisTurn(entries))[i] = past[i]
<1> DEFINE w == TailOf(past, n)
<1>1. PICK own \in Seq(S) :
         entries = w \o own /\ \A i \in DOMAIN own : own[i][1] = turn
  BY DEF Continues
<1>2. w \in Seq(S) /\ \A i \in DOMAIN w : \E j \in DOMAIN past : w[i] = past[j]
  <2>1. /\ w \in Seq(S) /\ DOMAIN w = 1..Len(w)
        /\ \A i \in 1..Len(w) : /\ Len(past) - Len(w) + i \in DOMAIN past
                                /\ w[i] = past[Len(past) - Len(w) + i]
    BY TailOfItems
  <2> HIDE DEF w
  <2> QED BY <2>1
<1>3. TailOf(w \o own, n) = TailOf(past \o own, n)
  BY TailOfConcat
<1> HIDE DEF w
<1>4. OfThisTurn(entries) = own
  <2>1. \A i \in DOMAIN w : w[i][1] # turn
    BY <1>2
  <2>2. OfThisTurn(w \o own) = own
    BY <1>1, <1>2, <2>1, OwnIsOfThisTurn
  <2> QED BY <1>1, <2>2
<1> DEFINE all == past \o own
<1>5. /\ all \in Seq(S) /\ DOMAIN own = 1..Len(own) /\ DOMAIN past = 1..Len(past)
      /\ DOMAIN all = 1..(Len(past) + Len(own)) /\ Len(own) \in Nat /\ Len(past) \in Nat
      /\ \A i \in 1..(Len(past) + Len(own)) :
            all[i] = IF i <= Len(past) THEN past[i] ELSE own[i - Len(past)]
  BY Joined
<1> HIDE DEF all
<1>6. ASSUME NEW i \in DOMAIN all
      PROVE  all[i][1] = turn \/ (i \in DOMAIN past /\ all[i] = past[i])
  <2>1. CASE i <= Len(past)
    BY <1>5, <2>1
  <2>2. CASE ~(i <= Len(past))
    <3>1. i - Len(past) \in DOMAIN own /\ all[i] = own[i - Len(past)]
      BY <1>5, <2>2
    <3> QED BY <1>1, <3>1
  <2> QED BY <2>1, <2>2
<1>7. TailOf(entries, n) = TailOf(all, n)
  BY <1>1, <1>3 DEF all
<1>8. past \o OfThisTurn(entries) = all
  BY <1>4 DEF all
<1> QED BY <1>5, <1>6, <1>7, <1>8

-----------------------------------------------------------------------------
(* The steps.                                                              *)

LEMMA NothingTyped ==
    /\ NoState \in AgentState /\ NoOutcome \in Outcome
    /\ NoState.evidence = <<>> /\ NoState.events = <<>>
<1>1. NoState \in AgentState
  <2>1. \A S : <<>> \in Seq(S)
    OBVIOUS
  <2> QED BY <2>1 DEF NoState, AgentState
<1>2. NoOutcome \in Outcome
  BY DEF NoOutcome, Outcome
<1> QED BY <1>1, <1>2 DEF NoState

LEMMA SessionInit == Init => SessionInv
<1> SUFFICES ASSUME Init PROVE SessionInv
  OBVIOUS
<1>1. TypeOK
  <2>1. cases \in [Causes -> Statuses]
    BY DEF Init, Statuses
  <2>2. turn \in 0..Turns
    BY SessionAssumption DEF Init
  <2>3. log \in [evidence : Seq(Observation), events : Seq(Event)]
    BY DEF Init
  <2> QED BY <2>1, <2>2, <2>3, NothingTyped DEF Init, TypeOK
<1>2. HistoryOK
  BY DEF Init, HistoryOK, WindowIsRecent, Former
<1>3. RunContinues /\ StagesFit /\ ComparisonsFitReport
  BY DEF Init, RunContinues, StagesFit, ComparisonsFitReport
<1> QED BY <1>1, <1>2, <1>3 DEF SessionInv

\* A step within a run leaves the history of the session alone.
LEMMA HistoryKept ==
    ASSUME SessionInv, UNCHANGED <<checkpoint, turn, log>>, stage # "idle" \/ stage' = "idle"
    PROVE  HistoryOK'
BY DEF SessionInv, HistoryOK, WindowIsRecent, Former

LEMMA StateKept ==
    ASSUME SessionInv, UNCHANGED <<turn, state, log>>, stage # "idle" \/ stage' = "idle"
    PROVE  RunContinues'
BY DEF SessionInv, RunContinues, Continues

\* The run that is over holds nothing.
LEMMA Cleared ==
    ASSUME TypeOK, Clear, UNCHANGED <<cases, turn>>,
           checkpoint' \in SessionCheckpoint \cup {None},
           log' \in [evidence : Seq(Observation), events : Seq(Event)]
    PROVE  TypeOK' /\ RunContinues' /\ StagesFit' /\ ComparisonsFitReport'
<1>1. TypeOK'
  <2>1. recalled' \in Seq(Causes) /\ matches' \in Seq(CaseMatch)
    BY DEF Clear
  <2> QED BY <2>1, NothingTyped DEF Clear, TypeOK
<1>2. RunContinues' /\ StagesFit' /\ ComparisonsFitReport'
  BY DEF Clear, RunContinues, StagesFit, ComparisonsFitReport
<1> QED BY <1>1, <1>2

LEMMA EmptyTail == ASSUME NEW n \in Nat PROVE TailOf(<<>>, n) = <<>>
BY DEF TailOf

LEMMA BeginStep == ASSUME SessionInv, Begin PROVE SessionInv'
<1>1. /\ stage = "idle" /\ stage' = "recall" /\ turn' = turn + 1 /\ turn < Turns
      /\ state' = Restore(checkpoint)
      /\ UNCHANGED <<cases, checkpoint, recalled, matches, report, memory, log>>
  BY DEF Begin
<1>2. turn \in 0..Turns /\ turn' \in 1..Turns
  BY <1>1, SessionAssumption DEF SessionInv, TypeOK
<1>3. /\ state' \in AgentState
      /\ state'.evidence = TailOf(log.evidence, WindowEvidence)
      /\ state'.events = TailOf(log.events, WindowEvents)
  <2>1. CASE checkpoint = None
    <3>1. log.evidence = <<>> /\ log.events = <<>>
      BY <2>1 DEF SessionInv, HistoryOK
    <3>2. /\ TailOf(log.evidence, WindowEvidence) = <<>>
          /\ TailOf(log.events, WindowEvents) = <<>>
      BY <3>1, EmptyTail, SessionAssumption
    <3> QED BY <2>1, <1>1, <3>2, NothingTyped DEF Restore
  <2>2. CASE checkpoint # None
    <3>1. checkpoint \in SessionCheckpoint
      BY <2>2 DEF SessionInv, TypeOK
    <3>2. /\ checkpoint.hypotheses \in Seq(Hypothesis)
          /\ checkpoint.evidence \in Seq(Observation) /\ checkpoint.events \in Seq(Event)
      BY <3>1 DEF SessionCheckpoint
    <3>3. state' = [hypotheses |-> checkpoint.hypotheses, evidence |-> checkpoint.evidence,
                    events |-> checkpoint.events]
      BY <1>1, <2>2 DEF Restore
    <3>4. /\ checkpoint.evidence = TailOf(log.evidence, WindowEvidence)
          /\ checkpoint.events = TailOf(log.events, WindowEvents)
      BY <2>2 DEF SessionInv, HistoryOK, WindowIsRecent
    <3> QED BY <3>2, <3>3, <3>4 DEF AgentState
  <2> QED BY <2>1, <2>2
<1>4. TypeOK'
  <2>1. request' \in Request /\ bundle' \in Bundles
    BY RequestAssumption DEF Begin
  <2>2. turn' \in 0..Turns
    BY <1>2
  <2> QED BY <1>1, <1>3, <2>1, <2>2 DEF SessionInv, TypeOK
<1>5. HistoryOK'
  <2>1. Former(log.evidence)'
    <3>1. ASSUME NEW i \in DOMAIN log.evidence
          PROVE  log.evidence[i][1] <= turn' /\ log.evidence[i][1] < turn'
      <4>1. log.evidence[i][1] <= turn
        BY DEF SessionInv, HistoryOK, Former
      <4>2. log.evidence[i] \in Observation
        BY LenProperties, ElementOfSeq DEF SessionInv, TypeOK
      <4>3. log.evidence[i][1] \in 1..Turns
        BY <4>2 DEF Observation
      <4> QED BY <1>1, <1>2, <4>1, <4>3
    <3> QED BY <3>1, <1>1 DEF Former
  <2>2. Former(log.events)'
    <3>1. ASSUME NEW i \in DOMAIN log.events
          PROVE  log.events[i][1] <= turn' /\ log.events[i][1] < turn'
      <4>1. log.events[i][1] <= turn
        BY DEF SessionInv, HistoryOK, Former
      <4>2. log.events[i] \in Event
        BY LenProperties, ElementOfSeq DEF SessionInv, TypeOK
      <4>3. log.events[i][1] \in 1..Turns
        BY <4>2 DEF Event
      <4> QED BY <1>1, <1>2, <4>1, <4>3
    <3> QED BY <3>1, <1>1 DEF Former
  <2> QED BY <1>1, <1>2, <2>1, <2>2 DEF SessionInv, HistoryOK, WindowIsRecent
<1>6. RunContinues'
  <2>1. /\ log.evidence \in Seq(Observation) /\ log.events \in Seq(Event)
        /\ log' = log
    BY <1>1 DEF SessionInv, TypeOK
  <2>2. /\ state'.evidence \in Seq(Observation) /\ state'.evidence \o <<>> = state'.evidence
        /\ state'.events \in Seq(Event) /\ state'.events \o <<>> = state'.events
    BY <1>3, ConcatEmptySeq DEF AgentState
  <2>3. <<>> \in Seq(Observation) /\ <<>> \in Seq(Event) /\ DOMAIN <<>> = {}
    OBVIOUS
  <2> QED BY <1>3, <2>1, <2>2, <2>3 DEF RunContinues, Continues
<1>7. StagesFit' /\ ComparisonsFitReport'
  BY <1>1 DEF StagesFit, ComparisonsFitReport
<1> QED BY <1>4, <1>5, <1>6, <1>7 DEF SessionInv

LEMMA RecallStep == ASSUME SessionInv, Recall PROVE SessionInv'
<1>1. /\ stage = "recall" /\ stage' = "react" /\ matches' = Explain(recalled', state)
      /\ UNCHANGED <<cases, checkpoint, turn, request, bundle, state, report, memory, log>>
      /\ recalled' \in Answers \cup {<<>>}
      /\ ~request.history => recalled' = <<>>
  BY DEF Recall
<1>2. recalled' \in Seq(Causes)
  <2>1. CASE recalled' \in Answers
    <3>1. PICK m \in 0..RecallLimit : recalled' \in [1..m -> Confirmed]
      BY <2>1 DEF Answers, BoundedSeq, SeqOf
    <3>2. m \in Nat /\ Confirmed \subseteq Causes
      BY SessionAssumption DEF Confirmed
    <3>3. recalled' \in [1..m -> Causes]
      BY <3>1, <3>2
    <3> QED BY <3>2, <3>3
  <2>2. CASE recalled' = <<>>
    BY <2>2
  <2> QED BY <1>1, <2>1, <2>2
<1>3. matches' \in Seq(CaseMatch)
  BY <1>1, <1>2, Explained DEF SessionInv, TypeOK
<1>4. TypeOK'
  BY <1>1, <1>2, <1>3 DEF SessionInv, TypeOK
<1>5. HistoryOK' /\ RunContinues'
  BY <1>1, HistoryKept, StateKept
<1>6. StagesFit' /\ ComparisonsFitReport'
  BY <1>1 DEF StagesFit, ComparisonsFitReport
<1> QED BY <1>4, <1>5, <1>6 DEF SessionInv

\* What a call adds is of this turn.
LEMMA NewEntries ==
    ASSUME TypeOK, turn \in 1..Turns, NEW q \in Queries,
           NEW attempts \in 1..MaxAttempts, NEW items \in 0..MaxItems
    PROVE  /\ [i \in 1..items |-> <<turn, q, i>>] \in Seq(Observation)
           /\ [i \in 1..attempts |-> <<turn, q, i>>] \in Seq(Event)
<1>1. items \in Nat /\ attempts \in Nat
  BY SessionAssumption
<1>2. \A i \in 1..items : <<turn, q, i>> \in Observation
  <2> TAKE i \in 1..items
  <2>1. i \in 1..MaxItems
    BY <1>1, SessionAssumption
  <2> QED BY <2>1 DEF Observation
<1>3. \A i \in 1..attempts : <<turn, q, i>> \in Event
  <2> TAKE i \in 1..attempts
  <2>1. i \in 1..MaxAttempts
    BY <1>1, SessionAssumption
  <2> QED BY <2>1 DEF Event
<1> QED BY <1>1, <1>2, <1>3

LEMMA CallStep ==
    ASSUME SessionInv, NEW q \in Queries, NEW attempts \in 1..MaxAttempts,
           NEW items \in 0..MaxItems, Call(q, attempts, items)
    PROVE  SessionInv'
<1> DEFINE found == [i \in 1..items |-> <<turn, q, i>>]
           tried == [i \in 1..attempts |-> <<turn, q, i>>]
<1>1. /\ stage = "react" /\ stage' = "react"
      /\ state' = [state EXCEPT !.evidence = @ \o found, !.events = @ \o tried]
      /\ UNCHANGED <<cases, checkpoint, turn, request, bundle, recalled, matches, report,
                     memory, log>>
  BY DEF Call
<1>2. turn \in 1..Turns
  BY <1>1 DEF SessionInv, HistoryOK
<1>3. /\ found \in Seq(Observation) /\ tried \in Seq(Event)
      /\ \A i \in DOMAIN found : found[i][1] = turn
      /\ \A i \in DOMAIN tried : tried[i][1] = turn
  BY <1>2, NewEntries DEF SessionInv
<1> HIDE DEF found, tried
<1>4. state \in AgentState /\ state.evidence \in Seq(Observation) /\ state.events \in Seq(Event)
  BY DEF SessionInv, TypeOK, AgentState
<1>5. state.evidence \o found \in Seq(Observation) /\ state.events \o tried \in Seq(Event)
  BY <1>3, <1>4, ConcatProperties
<1> DEFINE evidence == state.evidence \o found
           events == state.events \o tried
<1>6. state' \in AgentState /\ state'.evidence = evidence /\ state'.events = events
  <2>1. evidence \in Seq(Observation) /\ events \in Seq(Event)
        /\ state' = [state EXCEPT !.evidence = evidence, !.events = events]
    BY <1>1, <1>5
  <2> HIDE DEF evidence, events
  <2> QED BY <1>4, <2>1 DEF AgentState
<1>7. TypeOK'
  BY <1>1, <1>6 DEF SessionInv, TypeOK
<1>8. HistoryOK'
  BY <1>1, HistoryKept
<1>9. RunContinues'
  <2>1. log.evidence \in Seq(Observation) /\ log.events \in Seq(Event)
    BY DEF SessionInv, TypeOK
  <2>2. /\ TailOf(log.evidence, WindowEvidence) \in Seq(Observation)
        /\ TailOf(log.events, WindowEvents) \in Seq(Event)
    BY <2>1, TailOfItems, SessionAssumption
  <2>3. Continues(evidence, TailOf(log.evidence, WindowEvidence), Observation)
    BY <1>1, <1>3, <2>2, ContinuesMore DEF SessionInv, RunContinues
  <2>4. Continues(events, TailOf(log.events, WindowEvents), Event)
    BY <1>1, <1>3, <2>2, ContinuesMore DEF SessionInv, RunContinues
  <2> HIDE DEF evidence, events
  <2> QED BY <1>1, <1>6, <2>3, <2>4 DEF RunContinues, Continues
<1>10. StagesFit' /\ ComparisonsFitReport'
  BY <1>1 DEF SessionInv, StagesFit, ComparisonsFitReport
<1> QED BY <1>7, <1>8, <1>9, <1>10 DEF SessionInv

LEMMA StopStep == ASSUME SessionInv, NEW final \in Decided, Stop(final) PROVE SessionInv'
<1>1. /\ stage = "react" /\ stage' = "report" /\ state' = final
      /\ matches' = Explain(recalled, final)
      /\ UNCHANGED <<cases, checkpoint, turn, request, bundle, recalled, report, memory, log>>
  BY DEF Stop, Compare
<1>2. final \in AgentState /\ final.evidence = state.evidence /\ final.events = state.events
  BY DecidedTyped DEF SessionInv
<1>3. matches' \in Seq(CaseMatch)
  BY <1>1, <1>2, Explained DEF SessionInv, TypeOK
<1>4. TypeOK'
  BY <1>1, <1>2, <1>3 DEF SessionInv, TypeOK
<1>5. HistoryOK'
  BY <1>1, HistoryKept
<1>6. RunContinues'
  BY <1>1, <1>2 DEF SessionInv, RunContinues, Continues
<1>7. StagesFit' /\ ComparisonsFitReport'
  BY <1>1 DEF SessionInv, StagesFit, ComparisonsFitReport
<1> QED BY <1>4, <1>5, <1>6, <1>7 DEF SessionInv

LEMMA ReportStep == ASSUME SessionInv, WriteReport PROVE SessionInv'
<1> DEFINE ctx == Context(state, bundle, recalled)
           draft == Build(ctx)
<1>1. /\ stage = "report" /\ stage' = "stage"
      /\ UNCHANGED <<cases, checkpoint, turn, request, bundle, state, recalled, matches,
                     memory, log>>
  BY DEF WriteReport
<1>2. ctx.hypotheses = state.hypotheses /\ state.hypotheses \in Seq(Hypothesis)
  BY DEF Context, SessionInv, TypeOK, AgentState
<1> DEFINE C == StandingCause(state.hypotheses)
<1>3. draft.causes \in Seq(C)
  <2> HIDE DEF ctx
  <2> QED BY <1>2, DraftCauses
<1>4. \E r, outcome : /\ r.causes \in Seq(C) /\ outcome \in {"accepted", "degraded"}
                      /\ report' = Kept(outcome, r)
  <2>1. CASE \E issue \in Objections : report' = Kept("accepted", Revise(ctx, draft, {issue}))
    <3>1. PICK issue \in Objections : report' = Kept("accepted", Revise(ctx, draft, {issue}))
      BY <2>1
    <3> HIDE DEF ctx, draft
    <3>2. Revise(ctx, draft, {issue}).causes \in Seq(C)
      BY <1>3, RevisedCauses
    <3> QED BY <3>1, <3>2
  <2>2. CASE report' = Kept("accepted", draft)
    BY <2>2, <1>3
  <2>3. CASE report' = Kept("degraded", Degrade(ctx, draft, Objections))
    <3>1. Degrade(ctx, draft, Objections).causes = <<>>
      BY DEF Degrade
    <3>2. <<>> \in Seq(C)
      OBVIOUS
    <3> QED BY <2>3, <3>1, <3>2
  <2> QED BY <2>1, <2>2, <2>3 DEF WriteReport
<1> HIDE DEF ctx, draft, C
<1>5. PICK r, outcome : /\ r.causes \in Seq(C) /\ outcome \in {"accepted", "degraded"}
                        /\ report' = Kept(outcome, r)
  BY <1>4
<1>6. TypeOK /\ matches = Explain(recalled, state)
  BY <1>1 DEF SessionInv, StagesFit
<1> DEFINE kept == Kept(outcome, r)
<1>7. /\ kept \in Outcome /\ kept.outcome = outcome
      /\ \A i \in DOMAIN kept.similar :
            LET m == kept.similar[i]
            IN  /\ m.conflict = Conflicts(m.case, state.hypotheses)
                /\ m.conflict => \A j \in DOMAIN kept.causes : kept.causes[j].cause # m.case
                /\ m.refs \ {m.case} = ToSet(HeadOf(state.evidence, CitedObservations))
  BY <1>5, <1>6, KeptFits DEF C
<1>8. report' = kept
  BY <1>5
<1> HIDE DEF kept
<1>9. TypeOK'
  BY <1>1, <1>6, <1>7, <1>8 DEF TypeOK
<1>10. HistoryOK' /\ RunContinues'
  BY <1>1, HistoryKept, StateKept
<1>11. ComparisonsFitReport'
  BY <1>1, <1>7, <1>8 DEF ComparisonsFitReport
<1>12. StagesFit'
  BY <1>1, <1>5, <1>7, <1>8 DEF SessionInv, StagesFit
<1> QED BY <1>9, <1>10, <1>11, <1>12 DEF SessionInv

LEMMA StageStep == ASSUME SessionInv, StageMemory PROVE SessionInv'
<1>1. /\ stage = "stage" /\ stage' = "save"
      /\ UNCHANGED <<checkpoint, turn, request, bundle, state, recalled, matches, report, log>>
  BY DEF StageMemory
<1>2. TypeOK /\ cases \in [Causes -> Statuses] /\ report.outcome \in {"accepted", "degraded"}
  BY <1>1 DEF SessionInv, TypeOK, StagesFit
<1>3. /\ cases' \in [Causes -> Statuses]
      /\ memory' \in {"not_accepted", "no_root_cause", "merged", "staged"}
      /\ (report.outcome = "degraded") = (memory' = "not_accepted")
  <2>1. CASE report.outcome # "accepted"
    <3>1. memory' = "not_accepted" /\ cases' = cases
      BY <2>1 DEF StageMemory
    <3>2. report.outcome = "degraded"
      BY <1>2, <2>1
    <3> QED BY <1>2, <3>1, <3>2
  <2>2. CASE report.outcome = "accepted"
    <3>1. memory' \in {"no_root_cause", "merged", "staged"}
      BY <2>2 DEF StageMemory
    <3>2. \/ cases' = cases
          \/ \E c \in Causes : cases' = [cases EXCEPT ![c] = "open"]
      <4>1. ASSUME NEW i \in DOMAIN report.causes PROVE report.causes[i].cause \in Causes
        <5>1. report.causes \in Seq(RootCause)
          BY <1>2 DEF TypeOK, Outcome
        <5>2. report.causes[i] \in RootCause
          BY <5>1, LenProperties, ElementOfSeq
        <5> QED BY <5>2 DEF RootCause
      <4> QED BY <2>2, <4>1 DEF StageMemory
    <3>3. cases' \in [Causes -> Statuses]
      BY <1>2, <3>2 DEF Statuses
    <3>4. memory' # "not_accepted" /\ report.outcome # "degraded"
      BY <2>2, <3>1
    <3> QED BY <3>1, <3>3, <3>4
  <2> QED BY <2>1, <2>2
<1>4. TypeOK'
  BY <1>1, <1>2, <1>3 DEF TypeOK
<1>5. HistoryOK' /\ RunContinues'
  BY <1>1, HistoryKept, StateKept
<1>6. StagesFit'
  BY <1>1, <1>2, <1>3 DEF SessionInv, StagesFit
<1>7. ComparisonsFitReport'
  BY <1>1 DEF SessionInv, ComparisonsFitReport
<1> QED BY <1>4, <1>5, <1>6, <1>7 DEF SessionInv

\* The checks between the stages let every run pass that has got to them.
LEMMA StagesDoAgree == ASSUME SessionInv, stage = "save" PROVE StagesAgree
<1>1. /\ matches = Explain(recalled, state) /\ recalled \in Seq(Causes)
      /\ state \in AgentState
      /\ (report.outcome = "degraded") = (memory = "not_accepted")
  BY DEF SessionInv, TypeOK, StagesFit
<1>2. ~request.history => recalled = <<>>
  BY DEF SessionInv, StagesFit
<1>3. /\ DOMAIN matches = DOMAIN recalled
      /\ \A i \in DOMAIN recalled : matches[i].case = recalled[i]
  BY <1>1, Explained
<1>4. [i \in DOMAIN matches |-> matches[i].case] = recalled
  <2>1. recalled = [i \in DOMAIN recalled |-> recalled[i]]
    BY <1>1
  <2> QED BY <1>3, <2>1
<1>5. recalled = <<>> => matches = <<>>
  <2> HAVE recalled = <<>>
  <2>1. matches \in Seq(CaseMatch) /\ DOMAIN matches = {}
    BY <1>3 DEF SessionInv, TypeOK
  <2>2. Len(matches) = 0
    BY <2>1, LenProperties
  <2> QED BY <2>1, <2>2, EmptySeq
<1> QED BY <1>1, <1>2, <1>4, <1>5 DEF StagesAgree

LEMMA SaveStep == ASSUME SessionInv, Save PROVE SessionInv'
<1> DEFINE evidence == log.evidence \o OfThisTurn(state.evidence)
           events == log.events \o OfThisTurn(state.events)
           version == IF checkpoint = None THEN 1 ELSE checkpoint.version + 1
<1>1. /\ stage = "save" /\ Clear /\ UNCHANGED <<cases, turn>>
      /\ checkpoint' = Checkpoint(version, state, report)
      /\ log' = [evidence |-> evidence, events |-> events]
  BY StagesDoAgree DEF Save
<1>2. /\ log.evidence \in Seq(Observation) /\ log.events \in Seq(Event)
      /\ state \in AgentState /\ report \in Outcome /\ turn \in 1..Turns
      /\ checkpoint \in SessionCheckpoint \cup {None}
  BY <1>1 DEF SessionInv, TypeOK, HistoryOK
<1>3. /\ \A i \in DOMAIN log.evidence :
            log.evidence[i][1] \in 1..Turns /\ log.evidence[i][1] < turn
      /\ \A i \in DOMAIN log.events : log.events[i][1] \in 1..Turns /\ log.events[i][1] < turn
  <2>1. /\ \A i \in DOMAIN log.evidence : log.evidence[i] \in Observation
        /\ \A i \in DOMAIN log.events : log.events[i] \in Event
    BY <1>2, LenProperties, ElementOfSeq
  <2>2. Former(log.evidence) /\ Former(log.events)
    BY DEF SessionInv, HistoryOK
  <2> QED BY <1>1, <2>1, <2>2 DEF Observation, Event, Former
<1>4. /\ evidence \in Seq(Observation)
      /\ TailOf(state.evidence, WindowEvidence) = TailOf(evidence, WindowEvidence)
      /\ \A i \in DOMAIN evidence :
            evidence[i][1] = turn \/ (i \in DOMAIN log.evidence /\ evidence[i] = log.evidence[i])
  <2> DEFINE past == log.evidence
             held == state.evidence
  <2>1. Continues(held, TailOf(past, WindowEvidence), Observation)
    BY <1>1 DEF SessionInv, RunContinues
  <2>2. \A i \in DOMAIN past : past[i][1] # turn
    BY <1>2, <1>3
  <2>3. WindowEvidence \in Nat \ {0} /\ past \in Seq(Observation)
    BY <1>2, SessionAssumption
  <2>4. evidence = past \o OfThisTurn(held)
    OBVIOUS
  <2> HIDE DEF past, held, evidence
  <2>5. /\ past \o OfThisTurn(held) \in Seq(Observation)
        /\ TailOf(held, WindowEvidence) = TailOf(past \o OfThisTurn(held), WindowEvidence)
        /\ \A i \in DOMAIN (past \o OfThisTurn(held)) :
              \/ (past \o OfThisTurn(held))[i][1] = turn
              \/ i \in DOMAIN past /\ (past \o OfThisTurn(held))[i] = past[i]
    BY <2>1, <2>2, <2>3, SavedWindow
  <2> QED BY <2>4, <2>5 DEF past, held
<1>5. /\ events \in Seq(Event)
      /\ TailOf(state.events, WindowEvents) = TailOf(events, WindowEvents)
      /\ \A i \in DOMAIN events :
            events[i][1] = turn \/ (i \in DOMAIN log.events /\ events[i] = log.events[i])
  <2> DEFINE past == log.events
             held == state.events
  <2>1. Continues(held, TailOf(past, WindowEvents), Event)
    BY <1>1 DEF SessionInv, RunContinues
  <2>2. \A i \in DOMAIN past : past[i][1] # turn
    BY <1>2, <1>3
  <2>3. WindowEvents \in Nat \ {0} /\ past \in Seq(Event)
    BY <1>2, SessionAssumption
  <2>4. events = past \o OfThisTurn(held)
    OBVIOUS
  <2> HIDE DEF past, held, events
  <2>5. /\ past \o OfThisTurn(held) \in Seq(Event)
        /\ TailOf(held, WindowEvents) = TailOf(past \o OfThisTurn(held), WindowEvents)
        /\ \A i \in DOMAIN (past \o OfThisTurn(held)) :
              \/ (past \o OfThisTurn(held))[i][1] = turn
              \/ i \in DOMAIN past /\ (past \o OfThisTurn(held))[i] = past[i]
    BY <2>1, <2>2, <2>3, SavedWindow
  <2> QED BY <2>4, <2>5 DEF past, held
<1>6. version \in Nat
  BY <1>2 DEF SessionCheckpoint
<1> HIDE DEF evidence, events, version
<1>7. /\ checkpoint' \in SessionCheckpoint
      /\ checkpoint'.evidence = TailOf(evidence, WindowEvidence)
      /\ checkpoint'.events = TailOf(events, WindowEvents)
  <2>1. /\ state.hypotheses \in Seq(Hypothesis) /\ state.evidence \in Seq(Observation)
        /\ state.events \in Seq(Event)
    BY <1>2 DEF AgentState
  <2>2. /\ TailOf(state.hypotheses, WindowHypotheses) \in Seq(Hypothesis)
        /\ TailOf(state.evidence, WindowEvidence) \in Seq(Observation)
        /\ TailOf(state.events, WindowEvents) \in Seq(Event)
    BY <2>1, TailOfItems, SessionAssumption
  <2>3. checkpoint' = [version |-> version,
                       hypotheses |-> TailOf(state.hypotheses, WindowHypotheses),
                       evidence |-> TailOf(state.evidence, WindowEvidence),
                       events |-> TailOf(state.events, WindowEvents), report |-> report]
    BY <1>1 DEF Checkpoint
  <2>4. checkpoint' \in SessionCheckpoint
    BY <1>2, <1>6, <2>2, <2>3 DEF SessionCheckpoint
  <2> QED BY <1>4, <1>5, <2>3, <2>4
<1>8. log' \in [evidence : Seq(Observation), events : Seq(Event)]
  BY <1>1, <1>4, <1>5
<1>9. TypeOK' /\ RunContinues' /\ StagesFit' /\ ComparisonsFitReport'
  BY <1>1, <1>7, <1>8, Cleared DEF SessionInv
<1>10. HistoryOK'
  <2>1. log'.evidence = evidence /\ log'.events = events /\ stage' = "idle" /\ turn' = turn
    BY <1>1 DEF Clear
  <2>2. checkpoint' # None /\ WindowIsRecent'
    BY <1>7, <2>1, NoneAssumption DEF WindowIsRecent
  <2>3. Former(log.evidence)' /\ Former(log.events)'
    <3>1. \A i \in DOMAIN evidence : evidence[i][1] <= turn
      BY <1>2, <1>3, <1>4
    <3>2. \A i \in DOMAIN events : events[i][1] <= turn
      BY <1>2, <1>3, <1>5
    <3> QED BY <2>1, <3>1, <3>2 DEF Former
  <2> QED BY <2>1, <2>2, <2>3 DEF HistoryOK
<1> QED BY <1>9, <1>10 DEF SessionInv

LEMMA FailStep == ASSUME SessionInv, Fail PROVE SessionInv'
<1>1. Clear /\ stage' = "idle" /\ UNCHANGED <<cases, checkpoint, turn, log>>
  BY DEF Fail, Clear
<1>2. TypeOK' /\ RunContinues' /\ StagesFit' /\ ComparisonsFitReport'
  BY <1>1, Cleared DEF SessionInv, TypeOK
<1>3. HistoryOK'
  BY <1>1, HistoryKept
<1> QED BY <1>2, <1>3 DEF SessionInv

LEMMA DecideStep ==
    ASSUME SessionInv, NEW c \in Causes, NEW status \in Statuses, Decide(c, status)
    PROVE  SessionInv'
<1>1. /\ cases' = [cases EXCEPT ![c] = status]
      /\ UNCHANGED <<checkpoint, turn, stage, request, bundle, state, recalled, matches,
                     report, memory, log>>
  BY DEF Decide, run
<1>2. TypeOK'
  BY <1>1 DEF SessionInv, TypeOK
<1>3. HistoryOK' /\ RunContinues' /\ StagesFit' /\ ComparisonsFitReport'
  BY <1>1 DEF SessionInv, HistoryOK, WindowIsRecent, Former, RunContinues, Continues,
     StagesFit, ComparisonsFitReport
<1> QED BY <1>2, <1>3 DEF SessionInv

LEMMA SessionStep == SessionInv /\ [Next]_vars => SessionInv'
<1> SUFFICES ASSUME SessionInv, [Next]_vars PROVE SessionInv'
  OBVIOUS
<1>1. CASE UNCHANGED vars
  <2>1. UNCHANGED <<cases, checkpoint, turn, stage, request, bundle, state, recalled, matches,
                    report, memory, log>>
    BY <1>1 DEF vars, run
  <2>2. TypeOK'
    BY <2>1 DEF SessionInv, TypeOK
  <2>3. HistoryOK' /\ RunContinues'
    BY <2>1, HistoryKept, StateKept
  <2>4. StagesFit' /\ ComparisonsFitReport'
    BY <2>1 DEF SessionInv, StagesFit, ComparisonsFitReport
  <2> QED BY <2>2, <2>3, <2>4 DEF SessionInv
<1>2. CASE Begin
  BY <1>2, BeginStep
<1>3. CASE Recall
  BY <1>3, RecallStep
<1>4. ASSUME NEW q \in Queries, NEW attempts \in 1..MaxAttempts, NEW items \in 0..MaxItems,
             Call(q, attempts, items)
      PROVE  SessionInv'
  BY <1>4, CallStep
<1>5. ASSUME NEW decided \in Decided, Stop(decided) PROVE SessionInv'
  BY <1>5, StopStep
<1>6. CASE WriteReport
  BY <1>6, ReportStep
<1>7. CASE StageMemory
  BY <1>7, StageStep
<1>8. CASE Save
  BY <1>8, SaveStep
<1>9. CASE Fail
  BY <1>9, FailStep
<1>10. ASSUME NEW c \in Causes, NEW status \in Statuses, Decide(c, status) PROVE SessionInv'
  BY <1>10, DecideStep
<1> QED BY <1>1, <1>2, <1>3, <1>4, <1>5, <1>6, <1>7, <1>8, <1>9, <1>10 DEF Next, DecideSome

\* The invariant: every field holds what it may hold, the history is that of
\* former turns, and a run continues what it was given.
THEOREM SessionSound == Spec => []SessionInv
<1> QED BY SessionInit, SessionStep, PTL DEF Spec

\* A checkpoint, a state and a report hold what their fields are declared to.
THEOREM SessionTyped == Spec => []TypeOK
<1>1. SessionInv => TypeOK
  BY DEF SessionInv
<1> QED BY <1>1, SessionSound, PTL

\* A checkpoint holds the end of what the completed runs of the session did,
\* for every number of turns and every size of the windows.
THEOREM CheckpointIsRecent == Spec => []WindowIsRecent
<1>1. SessionInv => WindowIsRecent
  BY DEF SessionInv, HistoryOK
<1> QED BY <1>1, SessionSound, PTL

\* What a report says of a past case fits what the run found in the end.
THEOREM ComparisonsFit == Spec => []ComparisonsFitReport
<1>1. SessionInv => ComparisonsFitReport
  BY DEF SessionInv
<1> QED BY <1>1, SessionSound, PTL

\* The consistency checks at the end of a run never refuse it.
THEOREM StagesAgreeAlways == Spec => []NoStageRefusesAnother
<1>1. SessionInv => NoStageRefusesAnother
  BY DEF SessionInv, StagesFit, NoStageRefusesAnother
<1> QED BY <1>1, SessionSound, PTL

-----------------------------------------------------------------------------
(* What a follow-up asks.                                                  *)

\* The fingerprints of what was given to the run are among those it holds.
LEMMA GivenFingerprints ==
    ASSUME NEW S, NEW past \in Seq(S), NEW entries, Continues(entries, past, S)
    PROVE  Fingerprints(past) \subseteq Fingerprints(entries)
<1>1. PICK own \in Seq(S) : entries = past \o own
  BY DEF Continues
<1>2. /\ DOMAIN past = 1..Len(past) /\ Len(past) \in Nat /\ Len(own) \in Nat
      /\ DOMAIN entries = 1..(Len(past) + Len(own))
      /\ \A i \in 1..(Len(past) + Len(own)) :
            entries[i] = IF i <= Len(past) THEN past[i] ELSE own[i - Len(past)]
  BY <1>1, Joined
<1>3. \A i \in DOMAIN past : i \in DOMAIN entries /\ entries[i] = past[i]
  BY <1>2
<1> QED BY <1>3 DEF Fingerprints

LEMMA NothingAdded ==
    ASSUME NEW s, NEW n \in Nat, NEW m \in Nat, m <= n
    PROVE  Fingerprints(SubSeq(s, n + 1, m)) = {}
<1>1. SubSeq(s, n + 1, m) = <<>>
  BY SubSeqEmpty
<1> QED BY <1>1 DEF Fingerprints

\* What a call adds to the events has the fingerprint of the call.
LEMMA AddedFingerprints ==
    ASSUME SessionInv, NEW q \in Queries, NEW attempts \in 1..MaxAttempts,
           NEW items \in 0..MaxItems, Call(q, attempts, items)
    PROVE  Fingerprints(SubSeq(state'.events, Len(state.events) + 1, Len(state'.events)))
              \subseteq {q}
<1> DEFINE tried == [i \in 1..attempts |-> <<turn, q, i>>]
           old == state.events
           new == old \o tried
           added == SubSeq(new, Len(old) + 1, Len(new))
<1>1. state \in AgentState /\ turn \in 1..Turns
  BY DEF SessionInv, TypeOK, HistoryOK, Call
<1>2. old \in Seq(Event) /\ tried \in Seq(Event) /\ \A i \in DOMAIN tried : tried[i][2] = q
  BY <1>1, NewEntries DEF SessionInv, AgentState
<1>3. state'.events = new
  BY <1>1 DEF Call, AgentState
<1> HIDE DEF old, tried
<1>4. /\ new \in Seq(Event) /\ Len(new) = Len(old) + Len(tried)
      /\ Len(old) \in Nat /\ Len(tried) \in Nat /\ DOMAIN tried = 1..Len(tried)
      /\ \A i \in 1..(Len(old) + Len(tried)) :
            new[i] = IF i <= Len(old) THEN old[i] ELSE tried[i - Len(old)]
  BY <1>2, Joined
<1> HIDE DEF new
<1>5. /\ added \in Seq(Event)
      /\ \A i \in DOMAIN added : i \in 1..Len(tried) /\ added[i] = new[(Len(old) + 1) + i - 1]
  <2>1. \A i \in (Len(old) + 1)..Len(new) : new[i] \in Event
    BY <1>4, ElementOfSeq
  <2>2. /\ added \in Seq(Event)
        /\ Len(added) = IF Len(old) + 1 <= Len(new) THEN Len(new) - (Len(old) + 1) + 1 ELSE 0
        /\ \A i \in 1..(Len(new) - (Len(old) + 1) + 1) : added[i] = new[(Len(old) + 1) + i - 1]
    BY <1>4, <2>1, SubSeqProperties
  <2> HIDE DEF added
  <2>3. DOMAIN added = 1..Len(tried) /\ Len(new) - (Len(old) + 1) + 1 = Len(tried)
    BY <1>4, <2>2, LenProperties
  <2> QED BY <2>2, <2>3
<1> HIDE DEF added
<1>6. ASSUME NEW i \in DOMAIN added PROVE added[i][2] = q
  <2>1. (Len(old) + 1) + i - 1 = Len(old) + i /\ i \in 1..Len(tried)
    BY <1>4, <1>5
  <2>2. Len(old) + i \in 1..(Len(old) + Len(tried)) /\ ~(Len(old) + i <= Len(old))
        /\ (Len(old) + i) - Len(old) = i
    BY <1>4, <2>1
  <2>3. added[i] = tried[i]
    BY <1>4, <1>5, <2>1, <2>2
  <2> QED BY <1>2, <1>4, <2>1, <2>3
<1>7. Fingerprints(added) \subseteq {q}
  BY <1>6 DEF Fingerprints
<1> QED BY <1>3, <1>7 DEF added, old

\* No follow-up asks again what the window still shows to have been asked.
THEOREM AsksNothingTwice == Spec => RepeatedOnlyWhenForgotten
<1> DEFINE Added == Fingerprints(SubSeq(state'.events, Len(state.events) + 1,
                                        Len(state'.events)))
           Shown == Fingerprints(TailOf(log.events, WindowEvents))
<1>1. ASSUME SessionInv, [Next]_vars, stage = "react" PROVE Added \cap Shown = {}
  <2>1. state.events \in Seq(Event) /\ log.events \in Seq(Event)
    BY <1>1 DEF SessionInv, TypeOK, AgentState
  <2>2. Len(state.events) \in Nat
    BY <2>1, LenProperties
  <2>3. ASSUME state'.events = state.events \/ state'.events = <<>> PROVE Added = {}
    <3>1. Len(state'.events) \in Nat /\ Len(state'.events) <= Len(state.events)
      BY <2>2, <2>3, EmptySeq
    <3> QED BY <2>2, <3>1, NothingAdded
  <2>4. ASSUME NEW q \in Queries, NEW attempts \in 1..MaxAttempts, NEW items \in 0..MaxItems,
               Call(q, attempts, items)
        PROVE  Added \cap Shown = {}
    <3>1. Added \subseteq {q}
      BY <1>1, <2>4, AddedFingerprints
    <3>2. q \notin Fingerprints(state.events)
      BY <2>4 DEF Call
    <3>3. TailOf(log.events, WindowEvents) \in Seq(Event)
      BY <2>1, TailOfItems, SessionAssumption
    <3>4. Continues(state.events, TailOf(log.events, WindowEvents), Event)
      BY <1>1 DEF SessionInv, RunContinues
    <3>5. Shown \subseteq Fingerprints(state.events)
      BY <3>3, <3>4, GivenFingerprints
    <3> QED BY <3>1, <3>2, <3>5
  <2>5. ASSUME NEW decided \in Decided, Stop(decided) PROVE state'.events = state.events
    BY <1>1, <2>5, DecidedTyped DEF SessionInv, Stop
  <2>6. CASE Fail
    BY <2>3, <2>6, NothingTyped DEF Fail, Clear
  <2>7. CASE DecideSome \/ UNCHANGED vars
    BY <2>3, <2>7 DEF DecideSome, Decide, vars, run
  <2>8. ~Begin /\ ~Recall /\ ~WriteReport /\ ~StageMemory /\ ~Save
    BY <1>1 DEF Begin, Recall, WriteReport, StageMemory, Save
  <2> HIDE DEF Added, Shown
  <2> QED BY <1>1, <2>3, <2>4, <2>5, <2>6, <2>7, <2>8 DEF Next
<1>2. SessionInv /\ [Next]_vars => [stage = "react" => Added \cap Shown = {}]_vars
  BY <1>1
<1> QED BY <1>2, SessionSound, PTL DEF Spec, RepeatedOnlyWhenForgotten
=============================================================================
