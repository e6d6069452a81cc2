------------------------ MODULE ReportWorkflowProofs ------------------------
(* What leaves the report workflow, for any context and any auditor: the    *)
(* lists of a draft, what a revision of it keeps, and the invariant.        *)
EXTENDS ReportWorkflow, SelectionProofs

-----------------------------------------------------------------------------
(* The draft and its revision.                                             *)

\* The parts of a report, but for its steps.
Cause == [cause : Texts, refs : SUBSET References]
Claim == [refs : SUBSET References]
Similar == [case : References, refs : SUBSET References]

\* What the draft claims of a root cause is typed and can be looked up.
LEMMA SupportedHypotheses ==
    ASSUME NEW ctx \in Context
    PROVE  /\ Supported(ctx) \in Seq(Hypothesis)
           /\ Reported(ctx) \in Seq(Hypothesis)
           /\ \A i \in DOMAIN Reported(ctx) : Reportable(ctx, Reported(ctx)[i])
<1>1. ctx.hypotheses \in Seq(Hypothesis)
  BY DEF Context
<1>2. Supported(ctx) \in Seq(Hypothesis)
  BY <1>1, SelectedItems DEF Supported
<1> DEFINE kept == {i \in DOMAIN Supported(ctx) : Reportable(ctx, Supported(ctx)[i])}
<1>3. Reported(ctx) = Selected(Supported(ctx), kept)
  BY DEF Reported
<1>4. \A i \in kept : Reportable(ctx, Supported(ctx)[i])
  OBVIOUS
<1> HIDE DEF kept
<1>5. /\ Selected(Supported(ctx), kept) \in Seq(Hypothesis)
      /\ \A k \in DOMAIN Selected(Supported(ctx), kept) :
            \E i \in kept : Selected(Supported(ctx), kept)[k] = Supported(ctx)[i]
  BY <1>2, SelectedItems
<1> QED BY <1>2, <1>3, <1>4, <1>5

\* Every cause of a draft cites something, and only what can be looked up.
LEMMA BuildCauses ==
    ASSUME NEW ctx \in Context
    PROVE  /\ Build(ctx).causes \in Seq(Cause)
           /\ \A i \in DOMAIN Build(ctx).causes :
                Build(ctx).causes[i].refs \subseteq ValidRefs(ctx)
                  /\ Build(ctx).causes[i].refs # {}
<1> DEFINE rep == Reported(ctx)
<1>1. rep \in Seq(Hypothesis) /\ \A i \in DOMAIN rep : Reportable(ctx, rep[i])
  BY SupportedHypotheses
<1>2. Build(ctx).causes = [i \in DOMAIN rep |->
         [cause |-> rep[i].cause, refs |-> rep[i].supporting \cap ValidRefs(ctx)]]
  BY DEF Build, Report
<1> HIDE DEF rep
<1>3. DOMAIN rep = 1..Len(rep) /\ Len(rep) \in Nat
  BY <1>1, LenProperties
<1>4. \A i \in DOMAIN rep : rep[i] \in Hypothesis
  BY <1>1, <1>3, ElementOfSeq
<1>5. \A i \in 1..Len(rep) :
         [cause |-> rep[i].cause, refs |-> rep[i].supporting \cap ValidRefs(ctx)] \in Cause
  BY <1>3, <1>4 DEF Hypothesis, Cause
<1>6. Build(ctx).causes \in Seq(Cause)
  BY <1>2, <1>3, <1>5
<1>7. \A i \in DOMAIN rep : rep[i].supporting \cap ValidRefs(ctx) # {}
  BY <1>1 DEF Reportable
<1> QED BY <1>2, <1>6, <1>7

\* So does every link of its fault chain.
LEMMA BuildChain ==
    ASSUME NEW ctx \in Context
    PROVE  /\ Build(ctx).chain \in Seq(Claim)
           /\ \A i \in DOMAIN Build(ctx).chain :
                Build(ctx).chain[i].refs \subseteq ValidRefs(ctx)
                  /\ Build(ctx).chain[i].refs # {}
<1>1. Build(ctx).chain = [i \in DOMAIN ctx.paths |-> [refs |-> {ctx.paths[i]}]]
  BY DEF Build, Report
<1>2. ctx.paths \in Seq(References)
  BY DEF Context
<1>3. DOMAIN ctx.paths = 1..Len(ctx.paths) /\ Len(ctx.paths) \in Nat
  BY <1>2, LenProperties
<1>4. \A i \in 1..Len(ctx.paths) : [refs |-> {ctx.paths[i]}] \in Claim
  BY <1>2, ElementOfSeq DEF Claim
<1>5. Build(ctx).chain \in Seq(Claim)
  BY <1>1, <1>3, <1>4
<1>6. \A i \in DOMAIN ctx.paths : ctx.paths[i] \in ValidRefs(ctx)
  BY DEF ValidRefs, ToSet
<1>7. /\ DOMAIN Build(ctx).chain = DOMAIN ctx.paths
      /\ \A i \in DOMAIN ctx.paths : Build(ctx).chain[i].refs = {ctx.paths[i]}
  BY <1>1
<1>8. ASSUME NEW i \in DOMAIN Build(ctx).chain
      PROVE  Build(ctx).chain[i].refs \subseteq ValidRefs(ctx) /\ Build(ctx).chain[i].refs # {}
  BY <1>6, <1>7
<1> QED BY <1>5, <1>8

\* Its steps cite what can be looked up, but need not cite anything.
LEMMA BuildSteps ==
    ASSUME NEW ctx \in Context
    PROVE  /\ Build(ctx).steps \in Seq(Step)
           /\ \A i \in DOMAIN Build(ctx).steps :
                Build(ctx).steps[i].refs \subseteq ValidRefs(ctx)
<1>1. Build(ctx).steps = IF ctx.solutions = <<>> THEN <<ReadOnlyStep>> ELSE ctx.solutions
  BY DEF Build, Report, RemediationSteps
<1>2. ctx.solutions \in Seq(Step)
  BY DEF Context
<1>3. ReadOnlyStep \in Step /\ ReadOnlyStep.refs = {}
  BY DEF ReadOnlyStep, Step
<1>4. /\ <<ReadOnlyStep>> \in Seq(Step)
      /\ \A i \in DOMAIN <<ReadOnlyStep>> : <<ReadOnlyStep>>[i].refs = {}
  BY <1>3
<1>5. \A i \in DOMAIN ctx.solutions : ctx.solutions[i].refs \subseteq ValidRefs(ctx)
  BY DEF ValidRefs, RefsOf
<1> QED BY <1>1, <1>2, <1>4, <1>5

\* Its cases are known ones, each explained as the policy expects.
LEMMA BuildSimilar ==
    ASSUME NEW ctx \in Context
    PROVE  /\ Build(ctx).similar \in Seq(Similar)
           /\ \A i \in DOMAIN Build(ctx).similar :
                /\ Build(ctx).similar[i].refs \subseteq ValidRefs(ctx)
                /\ Build(ctx).similar[i].case \in ToSet(ctx.cases)
                /\ Build(ctx).similar[i] = Expected(ctx, Build(ctx).similar[i].case)
<1>1. Build(ctx).similar = [i \in DOMAIN ctx.cases |-> Expected(ctx, ctx.cases[i])]
  BY DEF Build, Report
<1>2. ctx.cases \in Seq(References) /\ ctx.evidence \subseteq References
  BY DEF Context
<1>3. DOMAIN ctx.cases = 1..Len(ctx.cases) /\ Len(ctx.cases) \in Nat
  BY <1>2, LenProperties
<1>4. \A i \in 1..Len(ctx.cases) : ctx.cases[i] \in References
  BY <1>2, ElementOfSeq
<1>5. \A i \in 1..Len(ctx.cases) : Expected(ctx, ctx.cases[i]) \in Similar
  BY <1>2, <1>4 DEF Expected, Similar
<1>6. Build(ctx).similar \in Seq(Similar)
  BY <1>1, <1>3, <1>5
<1>7. \A i \in DOMAIN ctx.cases :
         /\ Expected(ctx, ctx.cases[i]).refs \subseteq ValidRefs(ctx)
         /\ Expected(ctx, ctx.cases[i]).case = ctx.cases[i]
         /\ ctx.cases[i] \in ToSet(ctx.cases)
  BY DEF Expected, ValidRefs, ToSet
<1> QED BY <1>1, <1>6, <1>7

\* A report lists exactly what its parts cite.
LEMMA ReportCites ==
    ASSUME NEW lists, NEW notes
    PROVE  Report(lists, notes).refs = ClaimedRefs(Report(lists, notes))
BY DEF Report, ClaimedRefs

\* And so does the draft.
LEMMA BuildCites ==
    ASSUME NEW ctx PROVE Build(ctx).refs = ClaimedRefs(Build(ctx))
<1>1. \E lists, notes : Build(ctx) = Report(lists, notes)
  BY DEF Build
<1> QED BY <1>1, ReportCites

\* Trimming the references of a claim that can be looked up leaves it as it was.
LEMMA TrimmingKeeps ==
    ASSUME NEW V
    PROVE  /\ \A x \in Cause : x.refs \subseteq V => [x EXCEPT !.refs = x.refs \cap V] = x
           /\ \A x \in Claim : x.refs \subseteq V => [x EXCEPT !.refs = x.refs \cap V] = x
           /\ \A x \in Step : x.refs \subseteq V => [x EXCEPT !.refs = x.refs \cap V] = x
           /\ \A x \in Similar : x.refs \subseteq V => [x EXCEPT !.refs = x.refs \cap V] = x
<1>1. ASSUME NEW x, x.refs \subseteq V PROVE x.refs \cap V = x.refs
  BY <1>1
<1>2. ASSUME NEW x \in Cause PROVE [x EXCEPT !.refs = x.refs] = x
  BY DEF Cause
<1>3. ASSUME NEW x \in Claim PROVE [x EXCEPT !.refs = x.refs] = x
  BY DEF Claim
<1>4. ASSUME NEW x \in Step PROVE [x EXCEPT !.refs = x.refs] = x
  BY DEF Step
<1>5. ASSUME NEW x \in Similar PROVE [x EXCEPT !.refs = x.refs] = x
  BY DEF Similar
<1> QED BY <1>1, <1>2, <1>3, <1>4, <1>5

\* Of claims that can all be looked up the survivors are left as they were.
LEMMA SurvivorsAre ==
    ASSUME NEW ctx, NEW issues, NEW field, NEW S, NEW list \in Seq(S),
           \A i \in DOMAIN list :
              [list[i] EXCEPT !.refs = list[i].refs \cap ValidRefs(ctx)] = list[i]
    PROVE  Survivors(ctx, issues, list, field)
              = Selected(list, DOMAIN list \ Targets(issues, field, Len(list)))
<1>1. [i \in DOMAIN list |-> [list[i] EXCEPT !.refs = list[i].refs \cap ValidRefs(ctx)]]
        = [i \in DOMAIN list |-> list[i]]
  OBVIOUS
<1>2. [i \in DOMAIN list |-> list[i]] = list
  OBVIOUS
<1> QED BY <1>1, <1>2 DEF Survivors

\* How many items a revision can remove.
LEMMA TargetsAreItems ==
    ASSUME NEW issues, NEW field, NEW n \in Nat
    PROVE  /\ Targets(issues, field, n) \subseteq 1..n
           /\ Cardinality(Targets(issues, field, n)) \in 0..n
<1>1. Targets(issues, field, n) \subseteq 1..n
  BY DEF Targets
<1>2. IsFiniteSet(1..n) /\ Cardinality(1..n) = n
  BY FS_Interval
<1> QED BY <1>1, <1>2, FS_Subset, FS_CardinalityType

\* Grounded drops nothing of a part of a list whose claims all cite something.
LEMMA GroundedAlready ==
    ASSUME NEW S, NEW list \in Seq(S), NEW I, \A i \in DOMAIN list : list[i].refs # {}
    PROVE  Grounded(Selected(list, I)) = Selected(list, I)
<1> DEFINE s == Selected(list, I)
<1>1. s \in Seq(S) /\ \A k \in DOMAIN s : \E i \in DOMAIN list : s[k] = list[i]
  BY SelectedItems
<1> HIDE DEF s
<1>2. DOMAIN s = 1..Len(s) /\ \A k \in DOMAIN s : s[k].refs # {}
  BY <1>1, LenProperties
<1>3. 1..Len(s) \subseteq {k \in DOMAIN s : s[k].refs # {}}
  BY <1>2
<1>4. Grounded(s) = s
  BY <1>1, <1>3, SelectedAll DEF Grounded
<1> QED BY <1>4 DEF s

\* There is always a step, and none of high risk that cites nothing.
LEMMA AllowableSteps ==
    ASSUME NEW list \in Seq(Step)
    PROVE  /\ Allowable(list) \in Seq(Step) /\ Allowable(list) # <<>>
           /\ \A k \in DOMAIN Allowable(list) :
                /\ Allowable(list)[k].risk = "high" => Allowable(list)[k].refs # {}
                /\ \/ Allowable(list)[k] = ReadOnlyStep
                   \/ \E i \in DOMAIN list : Allowable(list)[k] = list[i]
<1> DEFINE I == {i \in DOMAIN list : list[i].risk # "high" \/ list[i].refs # {}}
           s == Selected(list, I)
<1>1. s \in Seq(Step) /\ \A k \in DOMAIN s : \E i \in I \cap DOMAIN list : s[k] = list[i]
  <2> HIDE DEF I
  <2> QED BY SelectedItems
<1>2. \A i \in I : list[i].risk = "high" => list[i].refs # {}
  OBVIOUS
<1>3. ReadOnlyStep \in Step /\ ReadOnlyStep.risk # "high"
  BY DEF ReadOnlyStep, Step
<1>4. Allowable(list) = IF s = <<>> THEN <<ReadOnlyStep>> ELSE s
  BY DEF Allowable
<1> HIDE DEF I, s
<1>5. CASE s = <<>>
  BY <1>3, <1>4, <1>5
<1>6. CASE s # <<>>
  BY <1>1, <1>2, <1>4, <1>6
<1> QED BY <1>5, <1>6

\* What a revision of the draft holds.
LEMMA RevisedLists ==
    ASSUME NEW ctx \in Context, NEW issues
    PROVE  LET b == Build(ctx)
               d == Revise(ctx, b, issues)
               Rest(list, field) ==
                   Selected(list, DOMAIN list \ Targets(issues, field, Len(list)))
           IN  /\ d.causes = Rest(b.causes, "root_causes")
               /\ d.chain = Rest(b.chain, "fault_chain")
               /\ d.steps = Allowable(Rest(b.steps, "remediation_steps"))
               /\ d.similar = Rest(b.similar, "similar_cases")
<1> DEFINE b == Build(ctx)
           Rest(list, field) == Selected(list, DOMAIN list \ Targets(issues, field, Len(list)))
           Surv(list, field) == Survivors(ctx, issues, list, field)
<1>1. /\ Revise(ctx, b, issues).causes = Grounded(Surv(b.causes, "root_causes"))
      /\ Revise(ctx, b, issues).chain = Grounded(Surv(b.chain, "fault_chain"))
      /\ Revise(ctx, b, issues).steps = Allowable(Surv(b.steps, "remediation_steps"))
      /\ Revise(ctx, b, issues).similar = Surv(b.similar, "similar_cases")
  BY DEF Revise, Report
<1> HIDE DEF b
<1>2. Surv(b.causes, "root_causes") = Rest(b.causes, "root_causes")
  <2> DEFINE list == b.causes
  <2>1. list \in Seq(Cause) /\ \A i \in DOMAIN list : list[i].refs \subseteq ValidRefs(ctx)
    BY BuildCauses DEF b
  <2> HIDE DEF list
  <2>2. \A i \in DOMAIN list : list[i] \in Cause
    BY <2>1, LenProperties, ElementOfSeq
  <2>3. \A i \in DOMAIN list :
          [list[i] EXCEPT !.refs = list[i].refs \cap ValidRefs(ctx)] = list[i]
    BY <2>1, <2>2, TrimmingKeeps
  <2>4. Surv(list, "root_causes") = Rest(list, "root_causes")
    BY <2>1, <2>3, SurvivorsAre
  <2> QED BY <2>4 DEF list
<1>3. Surv(b.chain, "fault_chain") = Rest(b.chain, "fault_chain")
  <2> DEFINE list == b.chain
  <2>1. list \in Seq(Claim) /\ \A i \in DOMAIN list : list[i].refs \subseteq ValidRefs(ctx)
    BY BuildChain DEF b
  <2> HIDE DEF list
  <2>2. \A i \in DOMAIN list : list[i] \in Claim
    BY <2>1, LenProperties, ElementOfSeq
  <2>3. \A i \in DOMAIN list :
          [list[i] EXCEPT !.refs = list[i].refs \cap ValidRefs(ctx)] = list[i]
    BY <2>1, <2>2, TrimmingKeeps
  <2>4. Surv(list, "fault_chain") = Rest(list, "fault_chain")
    BY <2>1, <2>3, SurvivorsAre
  <2> QED BY <2>4 DEF list
<1>4. Surv(b.steps, "remediation_steps") = Rest(b.steps, "remediation_steps")
  <2> DEFINE list == b.steps
  <2>1. list \in Seq(Step) /\ \A i \in DOMAIN list : list[i].refs \subseteq ValidRefs(ctx)
    BY BuildSteps DEF b
  <2> HIDE DEF list
  <2>2. \A i \in DOMAIN list : list[i] \in Step
    BY <2>1, LenProperties, ElementOfSeq
  <2>3. \A i \in DOMAIN list :
          [list[i] EXCEPT !.refs = list[i].refs \cap ValidRefs(ctx)] = list[i]
    BY <2>1, <2>2, TrimmingKeeps
  <2>4. Surv(list, "remediation_steps") = Rest(list, "remediation_steps")
    BY <2>1, <2>3, SurvivorsAre
  <2> QED BY <2>4 DEF list
<1>5. Surv(b.similar, "similar_cases") = Rest(b.similar, "similar_cases")
  <2> DEFINE list == b.similar
  <2>1. list \in Seq(Similar) /\ \A i \in DOMAIN list : list[i].refs \subseteq ValidRefs(ctx)
    BY BuildSimilar DEF b
  <2> HIDE DEF list
  <2>2. \A i \in DOMAIN list : list[i] \in Similar
    BY <2>1, LenProperties, ElementOfSeq
  <2>3. \A i \in DOMAIN list :
          [list[i] EXCEPT !.refs = list[i].refs \cap ValidRefs(ctx)] = list[i]
    BY <2>1, <2>2, TrimmingKeeps
  <2>4. Surv(list, "similar_cases") = Rest(list, "similar_cases")
    BY <2>1, <2>3, SurvivorsAre
  <2> QED BY <2>4 DEF list
<1>6. Grounded(Rest(b.causes, "root_causes")) = Rest(b.causes, "root_causes")
  BY BuildCauses, GroundedAlready DEF b
<1>7. Grounded(Rest(b.chain, "fault_chain")) = Rest(b.chain, "fault_chain")
  BY BuildChain, GroundedAlready DEF b
<1> HIDE DEF Rest, Surv
<1>8. LET d == Revise(ctx, b, issues)
      IN  /\ d.causes = Rest(b.causes, "root_causes")
          /\ d.chain = Rest(b.chain, "fault_chain")
          /\ d.steps = Allowable(Rest(b.steps, "remediation_steps"))
          /\ d.similar = Rest(b.similar, "similar_cases")
  BY <1>1, <1>2, <1>3, <1>4, <1>5, <1>6, <1>7
<1> QED BY <1>8 DEF b, Rest

\* The remarks of a draft are counted.
LEMMA BuildNotes ==
    ASSUME NEW ctx \in Context
    PROVE  Build(ctx).notes \in Nat
<1>1. /\ Len(Supported(ctx)) \in Nat /\ Len(Reported(ctx)) \in Nat
      /\ Len(Reported(ctx)) <= Len(Supported(ctx))
  BY SupportedHypotheses, SelectedItems, LenProperties DEF Reported
<1> DEFINE remarks == Len(Supported(ctx)) - Len(Reported(ctx))
                        + (IF Reported(ctx) = <<>> THEN 1 ELSE 0)
                        + (IF ctx.truncated THEN 1 ELSE 0)
                        + (IF ctx.cases # <<>> THEN 1 ELSE 0)
<1>2. remarks \in Nat
  <2>1. ASSUME NEW m \in Nat, NEW n \in Nat, n <= m,
               NEW x \in 0..1, NEW y \in 0..1, NEW z \in 0..1
        PROVE  m - n + x + y + z \in Nat
    BY <2>1
  <2>2. \A P : (IF P THEN 1 ELSE 0) \in 0..1
    OBVIOUS
  <2> QED BY <1>1, <2>1, <2>2
<1> HIDE DEF remarks
<1>3. \E lists : Build(ctx) = Report(lists, remarks)
  BY DEF Build, remarks
<1>4. \A lists : Report(lists, remarks).notes = remarks
  BY DEF Report
<1> QED BY <1>2, <1>3, <1>4

\* A revision always leaves a remark.
LEMMA RevisedNotes ==
    ASSUME NEW ctx, NEW r, NEW issues, r.notes \in Nat
    PROVE  /\ Revise(ctx, r, issues).notes \in Nat \ {0}
           /\ Revise(ctx, r, issues).refs = ClaimedRefs(Revise(ctx, r, issues))
<1>1. Cardinality(Targets(issues, "uncertainties", r.notes)) \in 0..r.notes
  BY TargetsAreItems
<1>2. \A lists, notes : /\ Report(lists, notes).notes = notes
                       /\ Report(lists, notes).refs = ClaimedRefs(Report(lists, notes))
  BY DEF Report, ClaimedRefs
<1> DEFINE left == r.notes - Cardinality(Targets(issues, "uncertainties", r.notes))
<1>3. \A narrowed : (IF narrowed \/ left = 0 THEN left + 1 ELSE left) \in Nat \ {0}
  BY <1>1
<1> HIDE DEF left
<1>4. \E lists, narrowed : Revise(ctx, r, issues) =
         Report(lists, IF narrowed \/ left = 0 THEN left + 1 ELSE left)
  BY DEF Revise, left
<1> QED BY <1>2, <1>3, <1>4

\* An item that an issue names is a target of the revision.
LEMMA NamedIsTarget ==
    ASSUME NEW issues, NEW issue \in issues, issue.code \in ClaimRemovingCodes,
           NEW n \in Nat, NEW i \in 1..n, i \in issue.items
    PROVE  i \in Targets(issues, issue.field, n)
<1>1. issue \in {named \in Removing(issues) : named.field = issue.field}
  BY DEF Removing
<1> QED BY <1>1 DEF Targets

\* A revision holds items of the draft, none of its causes one it aimed at, and
\* no step of high risk that cites nothing.
LEMMA RevisedItems ==
    ASSUME NEW ctx \in Context, NEW issues
    PROVE  LET b == Build(ctx)
               d == Revise(ctx, b, issues)
           IN  /\ \A k \in DOMAIN d.causes :
                    \E i \in DOMAIN b.causes :
                      /\ i \notin Targets(issues, "root_causes", Len(b.causes))
                      /\ d.causes[k] = b.causes[i]
               /\ \A k \in DOMAIN d.chain : \E i \in DOMAIN b.chain : d.chain[k] = b.chain[i]
               /\ \A k \in DOMAIN d.similar :
                    \E i \in DOMAIN b.similar : d.similar[k] = b.similar[i]
               /\ \A k \in DOMAIN d.steps :
                    /\ d.steps[k].risk = "high" => d.steps[k].refs # {}
                    /\ \/ d.steps[k] = ReadOnlyStep
                       \/ \E i \in DOMAIN b.steps : d.steps[k] = b.steps[i]
<1> DEFINE b == Build(ctx)
           d == Revise(ctx, b, issues)
           Aimed(field, n) == Targets(issues, field, n)
           Rest(list, field) == Selected(list, DOMAIN list \ Aimed(field, Len(list)))
<1>1. /\ d.causes = Rest(b.causes, "root_causes")
      /\ d.chain = Rest(b.chain, "fault_chain")
      /\ d.steps = Allowable(Rest(b.steps, "remediation_steps"))
      /\ d.similar = Rest(b.similar, "similar_cases")
  BY RevisedLists
<1>2. /\ b.causes \in Seq(Cause) /\ b.chain \in Seq(Claim) /\ b.steps \in Seq(Step)
      /\ b.similar \in Seq(Similar) /\ b.notes \in Nat
  BY BuildCauses, BuildChain, BuildSteps, BuildSimilar, BuildNotes
<1> HIDE DEF d, Aimed
<1>3. \A k \in DOMAIN d.causes :
         \E i \in DOMAIN b.causes \ Aimed("root_causes", Len(b.causes)) :
            d.causes[k] = b.causes[i]
  <2> DEFINE list == b.causes
             I == DOMAIN list \ Aimed("root_causes", Len(list))
  <2>1. list \in Seq(Cause) /\ d.causes = Selected(list, I)
    BY <1>1, <1>2
  <2> HIDE DEF I, list
  <2>2. \A k \in DOMAIN d.causes : \E i \in I : d.causes[k] = list[i]
    BY <2>1, SelectedItems
  <2> QED BY <2>2 DEF list, I
<1>4. \A k \in DOMAIN d.chain : \E i \in DOMAIN b.chain : d.chain[k] = b.chain[i]
  <2> DEFINE list == b.chain
             I == DOMAIN list \ Aimed("fault_chain", Len(list))
  <2>1. list \in Seq(Claim) /\ d.chain = Selected(list, I)
    BY <1>1, <1>2
  <2> HIDE DEF I, list
  <2>2. \A k \in DOMAIN d.chain : \E i \in I : d.chain[k] = list[i]
    BY <2>1, SelectedItems
  <2> QED BY <2>2 DEF list, I
<1>5. \A k \in DOMAIN d.similar : \E i \in DOMAIN b.similar : d.similar[k] = b.similar[i]
  <2> DEFINE list == b.similar
             I == DOMAIN list \ Aimed("similar_cases", Len(list))
  <2>1. list \in Seq(Similar) /\ d.similar = Selected(list, I)
    BY <1>1, <1>2
  <2> HIDE DEF I, list
  <2>2. \A k \in DOMAIN d.similar : \E i \in I : d.similar[k] = list[i]
    BY <2>1, SelectedItems
  <2> QED BY <2>2 DEF list, I
<1>6. \A k \in DOMAIN d.steps :
         /\ d.steps[k].risk = "high" => d.steps[k].refs # {}
         /\ d.steps[k] = ReadOnlyStep \/ \E i \in DOMAIN b.steps : d.steps[k] = b.steps[i]
  <2> DEFINE rest == Rest(b.steps, "remediation_steps")
  <2>1. /\ rest \in Seq(Step)
        /\ \A k \in DOMAIN rest : \E i \in DOMAIN b.steps : rest[k] = b.steps[i]
    <3> DEFINE list == b.steps
               I == DOMAIN list \ Aimed("remediation_steps", Len(list))
    <3>1. list \in Seq(Step) /\ rest = Selected(list, I) /\ I \subseteq DOMAIN list
      BY <1>2
    <3> HIDE DEF I, list, rest
    <3>2. rest \in Seq(Step) /\ \A k \in DOMAIN rest : \E i \in I : rest[k] = list[i]
      BY <3>1, SelectedItems
    <3> QED BY <3>1, <3>2 DEF list
  <2> HIDE DEF rest
  <2>2. \A k \in DOMAIN Allowable(rest) :
          /\ Allowable(rest)[k].risk = "high" => Allowable(rest)[k].refs # {}
          /\ \/ Allowable(rest)[k] = ReadOnlyStep
             \/ \E i \in DOMAIN rest : Allowable(rest)[k] = rest[i]
    BY <2>1, AllowableSteps
  <2>3. d.steps = Allowable(rest)
    BY <1>1 DEF rest
  <2> QED BY <2>1, <2>2, <2>3
<1> QED BY <1>3, <1>4, <1>5, <1>6 DEF d, Aimed

\* What the policy finds in a draft, a revision that is asked to mend it mends:
\* the policy finds nothing in the revised draft, whatever else was asked.
LEMMA RevisionMends ==
    ASSUME NEW ctx \in Context, NEW issues, Validate(ctx, Build(ctx)) \subseteq issues
    PROVE  Validate(ctx, Revise(ctx, Build(ctx), issues)) = {}
<1> DEFINE b == Build(ctx)
           d == Revise(ctx, b, issues)
           Aimed(field, n) == Targets(issues, field, n)
<1>1. d.notes \in Nat \ {0} /\ d.refs = ClaimedRefs(d)
  BY BuildNotes, RevisedNotes
<1>2. \A k \in DOMAIN d.causes :
         \E i \in DOMAIN b.causes \ Aimed("root_causes", Len(b.causes)) :
            d.causes[k] = b.causes[i]
  BY RevisedItems
<1>3. \A k \in DOMAIN d.chain : \E i \in DOMAIN b.chain : d.chain[k] = b.chain[i]
  BY RevisedItems
<1>4. \A k \in DOMAIN d.similar : \E i \in DOMAIN b.similar : d.similar[k] = b.similar[i]
  BY RevisedItems
<1>5. \A k \in DOMAIN d.steps :
         /\ d.steps[k].risk = "high" => d.steps[k].refs # {}
         /\ d.steps[k] = ReadOnlyStep \/ \E i \in DOMAIN b.steps : d.steps[k] = b.steps[i]
  BY RevisedItems
<1> HIDE DEF d, Aimed
<1>6. InvalidReferences(ctx, d) = {}
  <2>1. \A k \in DOMAIN d.causes : d.causes[k].refs \subseteq ValidRefs(ctx)
    BY <1>2, BuildCauses
  <2>2. \A k \in DOMAIN d.chain : d.chain[k].refs \subseteq ValidRefs(ctx)
    BY <1>3, BuildChain
  <2>3. \A k \in DOMAIN d.steps : d.steps[k].refs \subseteq ValidRefs(ctx)
    <3>1. ReadOnlyStep.refs = {}
      BY DEF ReadOnlyStep
    <3> QED BY <1>5, <3>1, BuildSteps
  <2>4. \A k \in DOMAIN d.similar : d.similar[k].refs \subseteq ValidRefs(ctx)
    BY <1>4, BuildSimilar
  <2>5. d.refs \subseteq ValidRefs(ctx)
    BY <1>1, <2>1, <2>2, <2>3, <2>4 DEF ClaimedRefs, RefsOf
  <2> QED BY <1>1, <2>1, <2>2, <2>3, <2>4, <2>5 DEF InvalidReferences
<1>7. RootCauseIssues(ctx, d) = {}
  <2> DEFINE Owner(r, i) == HypothesisFor(ctx, r.causes[i].cause)
             Unsupported(r, i) ==
                \/ Owner(r, i) = None
                \/ Owner(r, i).supporting \cap ValidRefs(ctx) \cap r.causes[i].refs = {}
             Contradicted(r, i) ==
                Owner(r, i) # None /\ Owner(r, i).contradicting \cap ValidRefs(ctx) # {}
  <2>1. \A r : RootCauseIssues(ctx, r) =
            {Issue("unsupported_claim", "root_causes", {i}) :
                i \in {j \in DOMAIN r.causes : Unsupported(r, j)}}
              \cup {Issue("evidence_conflict", "root_causes", {i}) :
                i \in {j \in DOMAIN r.causes : Contradicted(r, j)}}
    BY DEF RootCauseIssues
  <2>2. \A k, i : d.causes[k] = b.causes[i] =>
            /\ Unsupported(d, k) <=> Unsupported(b, i)
            /\ Contradicted(d, k) <=> Contradicted(b, i)
    OBVIOUS
  <2> HIDE DEF Owner, Unsupported, Contradicted
  <2>3. ASSUME NEW i \in DOMAIN b.causes, Unsupported(b, i) \/ Contradicted(b, i)
        PROVE  i \in Aimed("root_causes", Len(b.causes))
    <3>1. \E code \in ClaimRemovingCodes : Issue(code, "root_causes", {i}) \in issues
      <4>1. RootCauseIssues(ctx, b) \subseteq issues
        BY DEF Validate
      <4>2. {"unsupported_claim", "evidence_conflict"} \subseteq ClaimRemovingCodes
        BY DEF ClaimRemovingCodes
      <4>3. \E code \in {"unsupported_claim", "evidence_conflict"} :
               Issue(code, "root_causes", {i}) \in RootCauseIssues(ctx, b)
        <5> HIDE DEF b
        <5> QED BY <2>1, <2>3
      <4> HIDE DEF b
      <4> QED BY <4>1, <4>2, <4>3
    <3>2. PICK code \in ClaimRemovingCodes : Issue(code, "root_causes", {i}) \in issues
      BY <3>1
    <3>3. /\ Issue(code, "root_causes", {i}).code = code
          /\ Issue(code, "root_causes", {i}).field = "root_causes"
          /\ i \in Issue(code, "root_causes", {i}).items
      BY DEF Issue
    <3>4. i \in 1..Len(b.causes) /\ Len(b.causes) \in Nat
      <4> HIDE DEF b
      <4> QED BY BuildCauses, LenProperties DEF b
    <3> HIDE DEF b
    <3> QED BY <3>2, <3>3, <3>4, NamedIsTarget DEF Aimed
  <2>4. \A k \in DOMAIN d.causes : ~Unsupported(d, k) /\ ~Contradicted(d, k)
    <3> HIDE DEF b
    <3> QED BY <1>2, <2>2, <2>3
  <2> HIDE DEF b
  <2> QED BY <2>1, <2>4
<1>8. RiskControlIssues(d) = {}
  BY <1>5 DEF RiskControlIssues
<1>9. CaseIssues(ctx, d) = {}
  <2>1. \A k \in DOMAIN d.similar : d.similar[k].case \in ToSet(ctx.cases)
                                    /\ d.similar[k] = Expected(ctx, d.similar[k].case)
    BY <1>4, BuildSimilar
  <2> HIDE DEF b
  <2> QED BY <2>1 DEF CaseIssues
<1>10. CompletenessIssues(d) = {}
  BY <1>1 DEF CompletenessIssues
<1> QED BY <1>6, <1>7, <1>8, <1>9, <1>10 DEF Validate, d

-----------------------------------------------------------------------------
(* The invariant.                                                          *)

\* What an audit holds names codes and fields that are known.
Coded == \A issue \in audit : issue.code \in IssueCodes /\ issue.field \in Fields

\* Until it is revised the draft is the one the services built.
DraftIsBuilt ==
    node \in {"audit_report", "revise_report"} /\ retry = 0 => draft = Build(context)

\* A revision is only begun with an audit that holds all the policy found.
AuditHoldsPolicy ==
    node = "revise_report" => Validate(context, draft) \subseteq audit

\* Only a graph that has ended has an outcome; the one revision that is
\* possible starts from what was built, and is asked for all the policy found.
ReportInv ==
    /\ context \in Contexts
    /\ outcome \in {"none", "accepted", "degraded"}
    /\ outcome # "none" => node = "completed"
    /\ retry \in 0..MaxRevisions
    /\ node = "draft_report" => retry = 0
    /\ node = "revise_report" => retry < MaxRevisions
    /\ Coded
    /\ DraftIsBuilt
    /\ AuditHoldsPolicy
    /\ AcceptedIsEndorsed
    /\ DegradedClaimsNothing
    /\ RevisedIsClean

\* Every issue the policy finds has one of the codes of AuditIssueCode and
\* names a field.
LEMMA PolicyCodes ==
    ASSUME NEW ctx, NEW r
    PROVE  \A issue \in Validate(ctx, r) : issue.code \in IssueCodes /\ issue.field \in Fields
<1> USE DEF Issue, IssueCodes, ClaimRemovingCodes, Fields, ListFields, DerivedFields
<1>1. \A issue \in InvalidReferences(ctx, r) :
         issue.code \in IssueCodes /\ issue.field \in Fields
  BY DEF InvalidReferences
<1>2. \A issue \in RootCauseIssues(ctx, r) :
         issue.code \in IssueCodes /\ issue.field \in Fields
  BY DEF RootCauseIssues
<1>3. \A issue \in RiskControlIssues(r) :
         issue.code \in IssueCodes /\ issue.field \in Fields
  BY DEF RiskControlIssues
<1>4. \A issue \in CaseIssues(ctx, r) :
         issue.code \in IssueCodes /\ issue.field \in Fields
  BY DEF CaseIssues
<1>5. \A issue \in CompletenessIssues(r) :
         issue.code \in IssueCodes /\ issue.field \in Fields
  BY DEF CompletenessIssues
<1> QED BY <1>1, <1>2, <1>3, <1>4, <1>5 DEF Validate

\* What the model says and what the policy finds are issues of known codes.
LEMMA MergedCodes ==
    ASSUME NEW said,
           said = {} \/ \E demand \in Demands : said = ToSet(demand)
    PROVE  \A issue \in Merged(said, Validate(context, draft)) :
              issue.code \in IssueCodes /\ issue.field \in Fields
<1>1. \A issue \in said : issue.code \in IssueCodes /\ issue.field \in Fields
  <2>1. CASE said = {}
    BY <2>1
  <2>2. CASE \E demand \in Demands : said = ToSet(demand)
    <3> PICK demand \in Demands : said = ToSet(demand)
      BY <2>2
    <3>1. \A issue \in said : issue \in Objections
      BY DEF Demands, ToSet
    <3> QED BY <3>1, WorkflowAssumption
  <2> QED BY <2>1, <2>2
<1> QED BY <1>1, PolicyCodes DEF Merged

\* A degraded report counts its remarks: there is one at least.
LEMMA DegradedIsEmpty ==
    ASSUME NEW ctx, NEW r, NEW issues, \A issue \in issues : issue.code \in IssueCodes
    PROVE  LET d == Degrade(ctx, r, issues)
           IN  /\ d.causes = <<>> /\ d.chain = <<>> /\ d.similar = <<>>
               /\ d.steps = <<ReadOnlyStep>>
               /\ d.refs \subseteq ValidRefs(ctx)
               /\ d.notes > 0
<1> DEFINE codes == {issue.code : issue \in issues}
<1>1. IsFiniteSet(IssueCodes)
  <2>1. IsFiniteSet({"unsupported_claim"} \cup {"evidence_conflict"})
    BY FS_Singleton, FS_AddElement
  <2>2. IsFiniteSet({"unconfirmed_case"} \cup {"missing_risk_control"})
    BY FS_Singleton, FS_AddElement
  <2>3. IsFiniteSet({"invalid_evidence_ref"} \cup {"report_incomplete"})
    BY FS_Singleton, FS_AddElement
  <2>4. IsFiniteSet(({"unsupported_claim"} \cup {"evidence_conflict"})
                      \cup ({"unconfirmed_case"} \cup {"missing_risk_control"}))
    BY <2>1, <2>2, FS_Union
  <2>5. IsFiniteSet(({"invalid_evidence_ref"} \cup {"report_incomplete"})
                      \cup {"auditor_unavailable"})
    BY <2>3, FS_AddElement
  <2>6. IssueCodes = (({"unsupported_claim"} \cup {"evidence_conflict"})
                        \cup ({"unconfirmed_case"} \cup {"missing_risk_control"}))
                     \cup (({"invalid_evidence_ref"} \cup {"report_incomplete"})
                        \cup {"auditor_unavailable"})
    BY DEF IssueCodes, ClaimRemovingCodes
  <2> QED BY <2>4, <2>5, <2>6, FS_Union
<1>2. Cardinality(codes) \in Nat
  BY <1>1, FS_Subset, FS_CardinalityType
<1> QED BY <1>2 DEF Degrade

LEMMA ReportStep == ReportInv /\ [Next]_vars => ReportInv'
<1> SUFFICES ASSUME ReportInv, [Next]_vars PROVE ReportInv'
  OBVIOUS
<1> USE WorkflowAssumption DEF DraftIsBuilt, AuditHoldsPolicy, RevisedIsClean
<1>1. CASE DraftReport
  BY <1>1 DEF DraftReport, ReportInv, Coded, AcceptedIsEndorsed, DegradedClaimsNothing
<1>2. ASSUME NEW said, said = {} \/ \E demand \in Demands : said = ToSet(demand),
             AuditorAnswers(said, Validate(context, draft))
      PROVE  ReportInv'
  <2> DEFINE issues == Merged(said, Validate(context, draft))
  <2>1. \A issue \in issues : issue.code \in IssueCodes /\ issue.field \in Fields
    BY <1>2, MergedCodes
  <2>2. audit' = issues /\ node = "audit_report" /\ UNCHANGED <<context, draft, retry>>
    BY <1>2 DEF AuditorAnswers
  <2>3. outcome = "none" /\ Validate(context, draft) \subseteq issues
    BY <2>2 DEF ReportInv, Merged
  <2>4. CASE issues = {}
    <3>1. said = {} /\ Validate(context, draft) = {}
      BY <2>4 DEF Merged
    <3>2. node' = "completed" /\ outcome' = "accepted" /\ draft \in endorsed'
      BY <1>2, <2>4, <3>1 DEF AuditorAnswers
    <3>3. AcceptedIsEndorsed'
      BY <2>2, <3>1, <3>2 DEF AcceptedIsEndorsed
    <3> QED BY <2>1, <2>2, <3>2, <3>3 DEF ReportInv, Coded, DegradedClaimsNothing
  <2>5. CASE issues # {}
    <3>1. node' = Route /\ outcome' = "none"
      BY <1>2, <2>3, <2>5 DEF AuditorAnswers
    <3>2. node' \in {"revise_report", "degrade_report"}
          /\ (node' = "revise_report" => retry < MaxRevisions)
      BY <3>1 DEF Route
    <3>3. AuditHoldsPolicy'
      BY <2>2, <2>3
    <3>4. DraftIsBuilt' /\ RevisedIsClean'
      BY <2>2, <3>2 DEF ReportInv
    <3> HIDE DEF issues, DraftIsBuilt, AuditHoldsPolicy, RevisedIsClean
    <3> QED BY <2>1, <2>2, <3>1, <3>2, <3>3, <3>4
               DEF ReportInv, Coded, AcceptedIsEndorsed, DegradedClaimsNothing
  <2> QED BY <2>4, <2>5
<1>3. CASE AuditorFails
  <2> DEFINE issues == {Issue("auditor_unavailable", "unknown", {})}
  <2>1. \A issue \in issues : issue.code \in IssueCodes /\ issue.field \in Fields
    BY DEF Issue, IssueCodes, Fields
  <2>2. /\ draft' = Degrade(context, draft, issues) /\ audit' = issues
        /\ node' = "completed" /\ outcome' = "degraded"
        /\ UNCHANGED <<context, retry>>
    BY <1>3 DEF AuditorFails
  <2>3. DegradedClaimsNothing'
    BY <2>1, <2>2, DegradedIsEmpty DEF DegradedClaimsNothing
  <2> QED BY <2>1, <2>2, <2>3 DEF ReportInv, Coded, AcceptedIsEndorsed
<1>4. CASE AuditRaises
  BY <1>4 DEF AuditRaises, ReportInv, Coded, AcceptedIsEndorsed, DegradedClaimsNothing
<1>5. CASE ReviseReport
  <2>1. /\ node = "revise_report" /\ node' = "audit_report" /\ audit' = {}
        /\ retry' = retry + 1 /\ UNCHANGED <<context, outcome, endorsed>>
        /\ draft' = Revise(context, draft, audit)
    BY <1>5 DEF ReviseReport
  <2>2. /\ retry = 0 /\ draft = Build(context) /\ outcome = "none"
        /\ context \in Context /\ Validate(context, draft) \subseteq audit
    BY <2>1, ContextsAssumption DEF ReportInv
  <2>3. Validate(context, draft') = {}
    BY <2>1, <2>2, RevisionMends
  <2>4. retry' = 1 /\ retry' \in 0..MaxRevisions
    BY <2>1, <2>2 DEF ReportInv
  <2> QED BY <2>1, <2>2, <2>3, <2>4
             DEF ReportInv, Coded, AcceptedIsEndorsed, DegradedClaimsNothing
<1>6. CASE DegradeReport
  <2>1. /\ draft' = Degrade(context, draft, audit) /\ node' = "completed"
        /\ outcome' = "degraded" /\ UNCHANGED <<context, audit, retry>>
    BY <1>6 DEF DegradeReport
  <2>2. DegradedClaimsNothing'
    BY <2>1, DegradedIsEmpty DEF DegradedClaimsNothing, ReportInv, Coded
  <2> QED BY <2>1, <2>2 DEF ReportInv, Coded, AcceptedIsEndorsed
<1>7. CASE UNCHANGED vars
  BY <1>7 DEF vars, ReportInv, Coded, AcceptedIsEndorsed, DegradedClaimsNothing
<1> QED BY <1>1, <1>2, <1>3, <1>4, <1>5, <1>6, <1>7 DEF Next

\* What a revision begins with.
LEMMA RevisionStarts ==
    ASSUME ReportInv, node = "revise_report"
    PROVE  /\ context \in Context /\ draft = Build(context)
           /\ \A issue \in audit : issue.field \in Fields
BY WorkflowAssumption, ContextsAssumption DEF ReportInv, DraftIsBuilt, Coded

-----------------------------------------------------------------------------
(* What a step may not do to a report.                                     *)

\* A revision of the draft holds parts of it, and cites no more than it.
LEMMA RevisionNarrows ==
    ASSUME NEW ctx \in Context, NEW issues
    PROVE  LET b == Build(ctx)
               d == Revise(ctx, b, issues)
           IN  /\ d.refs \subseteq b.refs
               /\ ToSet(d.causes) \subseteq ToSet(b.causes)
               /\ ToSet(d.similar) \subseteq ToSet(b.similar)
               /\ ToSet(d.steps) \subseteq ToSet(b.steps) \cup {ReadOnlyStep}
<1> DEFINE b == Build(ctx)
           d == Revise(ctx, b, issues)
<1>1. /\ \A k \in DOMAIN d.causes : \E i \in DOMAIN b.causes : d.causes[k] = b.causes[i]
      /\ \A k \in DOMAIN d.chain : \E i \in DOMAIN b.chain : d.chain[k] = b.chain[i]
      /\ \A k \in DOMAIN d.similar : \E i \in DOMAIN b.similar : d.similar[k] = b.similar[i]
      /\ \A k \in DOMAIN d.steps :
            d.steps[k] = ReadOnlyStep \/ \E i \in DOMAIN b.steps : d.steps[k] = b.steps[i]
  BY RevisedItems
<1>2. d.refs = ClaimedRefs(d) /\ b.refs = ClaimedRefs(b)
  BY BuildNotes, RevisedNotes, BuildCites
<1>3. ReadOnlyStep.refs = {}
  BY DEF ReadOnlyStep
<1> HIDE DEF b, d
<1>4. /\ RefsOf(d.causes) \subseteq RefsOf(b.causes) /\ RefsOf(d.chain) \subseteq RefsOf(b.chain)
      /\ RefsOf(d.similar) \subseteq RefsOf(b.similar)
  BY <1>1 DEF RefsOf
<1>5. RefsOf(d.steps) \subseteq RefsOf(b.steps)
  BY <1>1, <1>3 DEF RefsOf
<1>6. d.refs \subseteq b.refs
  BY <1>2, <1>4, <1>5 DEF ClaimedRefs
<1>7. /\ ToSet(d.causes) \subseteq ToSet(b.causes) /\ ToSet(d.similar) \subseteq ToSet(b.similar)
      /\ ToSet(d.steps) \subseteq ToSet(b.steps) \cup {ReadOnlyStep}
  BY <1>1 DEF ToSet
<1> QED BY <1>6, <1>7 DEF b, d

\* The root causes a revision aims at are those an issue blames.
LEMMA BlamedAreTargets ==
    ASSUME NEW issues, \A issue \in issues : issue.field \in Fields,
           NEW n \in Nat, NEW i \in 1..n
    PROVE  i \in Targets(issues, "root_causes", n)
              <=> \E issue \in issues :
                    /\ issue.code \in ClaimRemovingCodes
                    /\ \/ issue.field = "unknown"
                       \/ issue.field = "root_causes" /\ issue.items = {}
                       \/ issue.field = "root_causes" /\ i \in issue.items
<1>1. Wholesale(issues) <=> \E issue \in issues :
         issue.code \in ClaimRemovingCodes /\ issue.field = "unknown"
  BY DEF Wholesale, Removing, Fields, DerivedFields, ListFields
<1> DEFINE named == {issue \in Removing(issues) : issue.field = "root_causes"}
<1>2. \A issue : issue \in named <=> issue \in issues /\ issue.code \in ClaimRemovingCodes
                                       /\ issue.field = "root_causes"
  BY DEF Removing
<1>3. Targets(issues, "root_causes", n) =
         IF (\E issue \in named : issue.items = {}) \/ Wholesale(issues) THEN 1..n
         ELSE {j \in 1..n : \E issue \in named : j \in issue.items}
  BY DEF Targets
<1> HIDE DEF named
<1>4. CASE (\E issue \in named : issue.items = {}) \/ Wholesale(issues)
  BY <1>1, <1>2, <1>3, <1>4
<1>5. CASE ~((\E issue \in named : issue.items = {}) \/ Wholesale(issues))
  BY <1>1, <1>2, <1>3, <1>5
<1> QED BY <1>4, <1>5

\* OnlyNarrows, of one step.
LEMMA StepNarrows ==
    ASSUME ReportInv, [Next]_vars, node # "draft_report"
    PROVE  /\ draft'.refs \subseteq draft.refs
           /\ \A i \in DOMAIN draft'.causes : \E j \in DOMAIN draft.causes :
                 /\ draft'.causes[i].cause = draft.causes[j].cause
                 /\ draft'.causes[i].refs \subseteq draft.causes[j].refs
           /\ ToSet(draft'.similar) \subseteq ToSet(draft.similar)
           /\ ToSet(draft'.steps) \subseteq ToSet(draft.steps) \cup {ReadOnlyStep}
<1>1. CASE draft' = draft
  BY <1>1
<1>2. CASE \E issues : draft' = Degrade(context, draft, issues)
  <2> PICK issues : draft' = Degrade(context, draft, issues)
    BY <1>2
  <2>1. /\ draft'.refs \subseteq draft.refs /\ draft'.causes = <<>> /\ draft'.similar = <<>>
        /\ draft'.steps = <<ReadOnlyStep>>
    BY DEF Degrade
  <2> QED BY <2>1 DEF ToSet
<1>3. CASE ReviseReport
  <2>1. context \in Context /\ draft = Build(context) /\ draft' = Revise(context, draft, audit)
    BY <1>3, RevisionStarts DEF ReviseReport
  <2>2. /\ draft'.refs \subseteq draft.refs
        /\ ToSet(draft'.causes) \subseteq ToSet(draft.causes)
        /\ ToSet(draft'.similar) \subseteq ToSet(draft.similar)
        /\ ToSet(draft'.steps) \subseteq ToSet(draft.steps) \cup {ReadOnlyStep}
    BY <2>1, RevisionNarrows
  <2>3. \A i \in DOMAIN draft'.causes : \E j \in DOMAIN draft.causes :
           draft'.causes[i] = draft.causes[j]
    BY <2>2 DEF ToSet
  <2> QED BY <2>2, <2>3
<1>4. draft' = draft \/ (\E issues : draft' = Degrade(context, draft, issues)) \/ ReviseReport
  BY DEF Next, vars, DraftReport, AuditorAnswers, AuditorFails, AuditRaises, DegradeReport
<1> QED BY <1>1, <1>2, <1>3, <1>4

\* RemovalIsPrecise, of one step.
LEMMA StepIsPrecise ==
    ASSUME ReportInv, [Next]_vars, ~UNCHANGED vars, node = "revise_report"
    PROVE  LET Blamed(i) == \E issue \in audit :
                /\ issue.code \in ClaimRemovingCodes
                /\ \/ issue.field = "unknown"
                   \/ issue.field = "root_causes" /\ issue.items = {}
                   \/ issue.field = "root_causes" /\ i \in issue.items
           IN  draft'.causes =
                  Selected(draft.causes, {i \in DOMAIN draft.causes : ~Blamed(i)})
<1> DEFINE Blamed(i) == \E issue \in audit :
                /\ issue.code \in ClaimRemovingCodes
                /\ \/ issue.field = "unknown"
                   \/ issue.field = "root_causes" /\ issue.items = {}
                   \/ issue.field = "root_causes" /\ i \in issue.items
           aimed == Targets(audit, "root_causes", Len(draft.causes))
<1>1. draft' = Revise(context, draft, audit)
  BY DEF Next, DraftReport, AuditorAnswers, AuditorFails, AuditRaises, ReviseReport,
         DegradeReport
<1>2. context \in Context /\ draft = Build(context) /\ \A issue \in audit : issue.field \in Fields
  BY RevisionStarts
<1>3. draft'.causes = Selected(draft.causes, DOMAIN draft.causes \ aimed)
  BY <1>1, <1>2, RevisedLists
<1>4. DOMAIN draft.causes = 1..Len(draft.causes) /\ Len(draft.causes) \in Nat
  BY <1>2, BuildCauses, LenProperties
<1>5. \A i \in 1..Len(draft.causes) : i \in aimed <=> Blamed(i)
  BY <1>2, <1>4, BlamedAreTargets
<1> HIDE DEF Blamed, aimed
<1>6. DOMAIN draft.causes \ aimed = {i \in DOMAIN draft.causes : ~Blamed(i)}
  BY <1>4, <1>5
<1>7. draft'.causes = Selected(draft.causes, {i \in DOMAIN draft.causes : ~Blamed(i)})
  BY <1>3, <1>6
<1> QED BY <1>7 DEF Blamed

-----------------------------------------------------------------------------
(* The theorems.                                                           *)

\* Only an ended graph has an outcome, and each outcome is what it says; the
\* one revision starts from what was built and is asked for all the policy found.
THEOREM ReportSound == Spec => []ReportInv
<1>1. Init => ReportInv
  BY WorkflowAssumption DEF Init, ReportInv, Coded, DraftIsBuilt, AuditHoldsPolicy,
     RevisedIsClean, AcceptedIsEndorsed, DegradedClaimsNothing
<1> QED BY <1>1, ReportStep, PTL DEF Spec

\* A report leaves as accepted only when the auditor accepted this report and
\* the policy finds nothing in it, whatever was demanded of earlier ones.
THEOREM AcceptanceSound == Spec => []AcceptedIsEndorsed
<1>1. ReportInv => AcceptedIsEndorsed
  BY DEF ReportInv
<1> QED BY <1>1, ReportSound, PTL

\* Every other report that leaves claims nothing.
THEOREM DegradationSafe == Spec => []DegradedClaimsNothing
<1>1. ReportInv => DegradedClaimsNothing
  BY DEF ReportInv
<1> QED BY <1>1, ReportSound, PTL

\* One revision mends all the policy objects to, in any context and whatever the
\* model demands besides.
THEOREM OneRevisionMends == Spec => []RevisedIsClean
<1>1. ReportInv => RevisedIsClean
  BY DEF ReportInv
<1> QED BY <1>1, ReportSound, PTL

\* After the first draft a report only shrinks.
THEOREM ReportNarrows == Spec => OnlyNarrows
<1>1. ReportInv /\ [Next]_vars =>
        [node # "draft_report" =>
          /\ draft'.refs \subseteq draft.refs
          /\ \A i \in DOMAIN draft'.causes : \E j \in DOMAIN draft.causes :
                /\ draft'.causes[i].cause = draft.causes[j].cause
                /\ draft'.causes[i].refs \subseteq draft.causes[j].refs
          /\ ToSet(draft'.similar) \subseteq ToSet(draft.similar)
          /\ ToSet(draft'.steps) \subseteq ToSet(draft.steps) \cup {ReadOnlyStep}]_vars
  BY StepNarrows
<1> QED BY <1>1, ReportSound, PTL DEF Spec, OnlyNarrows

\* A revision removes the causes that an issue blames and no other.
THEOREM RemovalPrecise == Spec => RemovalIsPrecise
<1>1. ReportInv /\ [Next]_vars =>
        [node = "revise_report" =>
          LET Blamed(i) == \E issue \in audit :
                /\ issue.code \in ClaimRemovingCodes
                /\ \/ issue.field = "unknown"
                   \/ issue.field = "root_causes" /\ issue.items = {}
                   \/ issue.field = "root_causes" /\ i \in issue.items
          IN  draft'.causes =
                Selected(draft.causes, {i \in DOMAIN draft.causes : ~Blamed(i)})]_vars
  BY StepIsPrecise
<1> QED BY <1>1, ReportSound, PTL DEF Spec, RemovalIsPrecise
=============================================================================
