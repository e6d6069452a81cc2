-------------------------- MODULE SelectionProofs --------------------------
(* Induction over the numbers of a set, and what a selection keeps.        *)
EXTENDS Selections, FiniteSetTheorems, SequenceTheorems, WellFoundedInduction, TLAPS

-----------------------------------------------------------------------------
(* Induction.  The induction theorems of the library are about operators;  *)
(* these are about sets, so that they can be applied by citing them.       *)

\* A set of natural numbers has a least one: initial segments of the numbers
\* are finite sets, of which strict inclusion is well-founded.
LEMMA LeastNumber ==
    ASSUME NEW N, N \subseteq Nat, N # {}
    PROVE  \E m \in N : \A k \in N : m <= k
<1> DEFINE T == {1..n : n \in N}
<1>1. T \subseteq FiniteSubsetsOf(Nat) /\ T # {}
  <2>1. ASSUME NEW n \in Nat PROVE IsFiniteSet(1..n) /\ 1..n \subseteq Nat
    BY FS_Interval
  <2> QED BY <2>1 DEF FiniteSubsetsOf
<1>2. IsWellFoundedOn(StrictSubsetOrdering(Nat), FiniteSubsetsOf(Nat))
  BY FS_StrictSubsetOrderingWellFounded
<1>3. PICK x \in T : \A y \in T : <<y, x>> \notin StrictSubsetOrdering(Nat)
  <2> HIDE DEF T
  <2> QED BY <1>1, <1>2, WFMin
<1>4. PICK m \in N : x = 1..m
  OBVIOUS
<1>5. ASSUME NEW k \in N, k < m PROVE FALSE
  <2>1. 1..k \in T /\ 1..k \subseteq 1..m /\ 1..k # 1..m /\ 1..m \subseteq Nat
    <3>1. m \in 1..m /\ m \notin 1..k
      BY <1>5
    <3> QED BY <1>5, <3>1
  <2> QED BY <2>1, <1>3, <1>4 DEF StrictSubsetOrdering
<1> QED BY <1>5

\* What holds of 0, and of k + 1 whenever it holds of k, holds of 0 to n.
LEMMA InductionUpTo ==
    ASSUME NEW n \in Nat, NEW S, 0 \in S,
           \A k \in 0..(n - 1) : k \in S => k + 1 \in S
    PROVE  \A k \in 0..n : k \in S
<1> SUFFICES ASSUME NEW k \in 0..n, k \notin S PROVE FALSE
  OBVIOUS
<1> DEFINE N == {j \in 0..n : j \notin S}
<1>1. N \subseteq Nat /\ k \in N
  OBVIOUS
<1> HIDE DEF N
<1>2. PICK m \in N : \A j \in N : m <= j
  BY <1>1, LeastNumber
<1>3. m # 0 /\ m \in 0..n /\ m \notin S
  BY DEF N
<1>4. m - 1 \notin N
  BY <1>2, <1>3
<1>5. m - 1 \in S
  BY <1>3, <1>4 DEF N
<1> QED BY <1>3, <1>5

-----------------------------------------------------------------------------
(* Selections.                                                             *)

\* f[k] is what is kept of the first k items.
Selects(f, seq, I, n) ==
    f = [k \in 0..n |-> IF k = 0 THEN <<>>
                        ELSE IF k \in I THEN Append(f[k - 1], seq[k]) ELSE f[k - 1]]

LEMMA SelectionExists ==
    ASSUME NEW seq, NEW I, NEW n \in Nat
    PROVE  \E f : Selects(f, seq, I, n)
<1> DEFINE S == {k \in 0..n : \E f : Selects(f, seq, I, k)}
<1>1. 0 \in S
  <2>1. Selects([k \in 0..0 |-> <<>>], seq, I, 0)
    BY DEF Selects
  <2> QED BY <2>1
<1>2. ASSUME NEW k \in 0..(n - 1), k \in S PROVE k + 1 \in S
  <2>1. PICK f : Selects(f, seq, I, k)
    BY <1>2
  <2> DEFINE g == [i \in 0..(k + 1) |->
                     IF i = k + 1
                     THEN IF k + 1 \in I THEN Append(f[k], seq[k + 1]) ELSE f[k]
                     ELSE f[i]]
  <2>2. \A i \in 0..(k + 1) :
          g[i] = IF i = 0 THEN <<>>
                 ELSE IF i \in I THEN Append(g[i - 1], seq[i]) ELSE g[i - 1]
    <3> TAKE i \in 0..(k + 1)
    <3>1. CASE i = k + 1
      <4>1. g[i - 1] = f[k] /\ i - 1 = k
        BY <3>1
      <4> QED BY <3>1, <4>1
    <3>2. CASE i # k + 1
      <4>1. i \in 0..k
        BY <3>2
      <4>2. f[i] = IF i = 0 THEN <<>>
                   ELSE IF i \in I THEN Append(f[i - 1], seq[i]) ELSE f[i - 1]
        BY <2>1, <4>1 DEF Selects
      <4>3. g[i] = f[i] /\ (i # 0 => g[i - 1] = f[i - 1])
        BY <3>2, <4>1
      <4> QED BY <4>2, <4>3
    <3> QED BY <3>1, <3>2
  <2>3. Selects(g, seq, I, k + 1)
    BY <2>2 DEF Selects
  <2> QED BY <2>3
<1> HIDE DEF S
<1>3. n \in S
  BY <1>1, <1>2, InductionUpTo
<1> QED BY <1>3 DEF S

LEMMA SelectedIsLast ==
    ASSUME NEW seq, NEW I, Len(seq) \in Nat
    PROVE  \E f : Selects(f, seq, I, Len(seq)) /\ Selected(seq, I) = f[Len(seq)]
<1> DEFINE f == CHOOSE f : Selects(f, seq, I, Len(seq))
<1>1. Selects(f, seq, I, Len(seq))
  BY SelectionExists
<1>2. Selected(seq, I) = f[Len(seq)]
  BY DEF Selected, Selects
<1> QED BY <1>1, <1>2

\* s holds the items of the first n places of seq that are in I, each once and
\* in their order: p tells from which place an item came.
Places(p, s, seq, I, n) ==
    /\ p \in [1..Len(s) -> I \cap 1..n]
    /\ \A k \in 1..Len(s) : s[k] = seq[p[k]]
    /\ \A j, k \in 1..Len(s) : j < k => p[j] < p[k]
    /\ \A i \in I \cap 1..n : \E k \in 1..Len(s) : p[k] = i

Keeps(s, seq, I, n) ==
    /\ s \in Seq({seq[i] : i \in I \cap 1..n})
    /\ Len(s) <= n
    /\ \E p : Places(p, s, seq, I, n)

\* One more place: its item is appended if the place is in I.
LEMMA KeepsNext ==
    ASSUME NEW s, NEW seq, NEW I, NEW k \in Nat, Keeps(s, seq, I, k)
    PROVE  Keeps(IF k + 1 \in I THEN Append(s, seq[k + 1]) ELSE s, seq, I, k + 1)
<1> DEFINE Items(n) == {seq[i] : i \in I \cap 1..n}
<1>1. PICK p : Places(p, s, seq, I, k)
  BY DEF Keeps
<1>2. s \in Seq(Items(k)) /\ Items(k) \subseteq Items(k + 1)
  BY DEF Keeps
<1>3. s \in Seq(Items(k + 1)) /\ Len(s) \in Nat /\ Len(s) <= k
  BY <1>2, SeqMonotonic DEF Keeps
<1>4. CASE k + 1 \notin I
  <2>1. I \cap 1..(k + 1) = I \cap 1..k
    BY <1>4
  <2>2. Places(p, s, seq, I, k + 1)
    BY <1>1, <2>1 DEF Places
  <2> QED BY <1>3, <1>4, <2>2 DEF Keeps
<1>5. CASE k + 1 \in I
  <2> DEFINE t == Append(s, seq[k + 1])
             q == [j \in 1..Len(t) |-> IF j = Len(t) THEN k + 1 ELSE p[j]]
  <2>1. seq[k + 1] \in Items(k + 1)
    BY <1>5
  <2>2. /\ t \in Seq(Items(k + 1)) /\ Len(t) = Len(s) + 1
        /\ \A j \in 1..Len(s) : t[j] = s[j]
        /\ t[Len(s) + 1] = seq[k + 1]
    <3> HIDE DEF Items
    <3> QED BY <1>3, <2>1, AppendProperties
  <2> HIDE DEF t, Items
  <2>3. \A j \in 1..Len(t) : q[j] = IF j = Len(t) THEN k + 1 ELSE p[j]
    OBVIOUS
  <2>4. \A j \in 1..Len(s) : q[j] = p[j] /\ p[j] \in I \cap 1..k
    BY <1>1, <1>3, <2>2 DEF Places
  <2>5. q[Len(t)] = k + 1
    BY <1>3, <2>2
  <2>6. q \in [1..Len(t) -> I \cap 1..(k + 1)]
    <3>1. ASSUME NEW j \in 1..Len(t) PROVE q[j] \in I \cap 1..(k + 1)
      <4> HIDE DEF q
      <4>1. CASE j = Len(t)
        BY <4>1, <1>5, <2>3
      <4>2. CASE j \in 1..Len(s)
        <5>1. q[j] \in I /\ q[j] \in 1..k
          BY <4>2, <2>4
        <5> QED BY <5>1
      <4> QED BY <4>1, <4>2, <1>3, <2>2
    <3> QED BY <3>1
  <2> HIDE DEF q
  <2>7. \A j \in 1..Len(t) : t[j] = seq[q[j]]
    <3> TAKE j \in 1..Len(t)
    <3>1. CASE j = Len(t)
      BY <3>1, <2>2, <2>5
    <3>2. CASE j \in 1..Len(s)
      BY <3>2, <1>1, <2>2, <2>4 DEF Places
    <3> QED BY <1>3, <2>2, <3>1, <3>2
  <2>8. \A i, j \in 1..Len(t) : i < j => q[i] < q[j]
    <3> TAKE i, j \in 1..Len(t)
    <3> HAVE i < j
    <3>1. i \in 1..Len(s)
      BY <1>3, <2>2
    <3>2. CASE j = Len(t)
      BY <3>1, <3>2, <2>4, <2>5
    <3>3. CASE j \in 1..Len(s)
      BY <3>1, <3>3, <1>1, <2>4 DEF Places
    <3> QED BY <1>3, <2>2, <3>2, <3>3
  <2>9. \A i \in I \cap 1..(k + 1) : \E j \in 1..Len(t) : q[j] = i
    <3> TAKE i \in I \cap 1..(k + 1)
    <3>1. CASE i = k + 1
      BY <3>1, <1>3, <2>2, <2>5
    <3>2. CASE i \in 1..k
      <4>1. PICK j \in 1..Len(s) : p[j] = i
        BY <3>2, <1>1 DEF Places
      <4>2. j \in 1..Len(t) /\ q[j] = i
        BY <4>1, <1>3, <2>2, <2>4
      <4> QED BY <4>2
    <3> QED BY <3>1, <3>2
  <2>10. Places(q, t, seq, I, k + 1)
    BY <2>6, <2>7, <2>8, <2>9 DEF Places
  <2>11. Keeps(t, seq, I, k + 1)
    BY <1>3, <2>2, <2>10 DEF Keeps, Items
  <2> QED BY <1>5, <2>11 DEF t
<1> QED BY <1>4, <1>5

LEMMA SelectedKeeps ==
    ASSUME NEW seq, NEW I, Len(seq) \in Nat
    PROVE  Keeps(Selected(seq, I), seq, I, Len(seq))
<1>1. PICK n \in Nat : n = Len(seq)
  OBVIOUS
<1>2. PICK f : Selects(f, seq, I, n) /\ Selected(seq, I) = f[n]
  BY <1>1, SelectedIsLast
<1> DEFINE S == {k \in 0..n : Keeps(f[k], seq, I, k)}
<1>3. 0 \in S
  <2>1. f[0] = <<>>
    BY <1>2 DEF Selects
  <2>2. Places(<<>>, <<>>, seq, I, 0)
    BY DEF Places
  <2>3. Keeps(<<>>, seq, I, 0)
    <3>1. <<>> \in Seq({seq[i] : i \in I \cap 1..0}) /\ Len(<<>>) = 0
      BY EmptySeq
    <3> QED BY <2>2, <3>1 DEF Keeps
  <2> QED BY <2>1, <2>3
<1>4. ASSUME NEW k \in 0..(n - 1), k \in S PROVE k + 1 \in S
  <2>1. f[k + 1] = IF k + 1 \in I THEN Append(f[k], seq[k + 1]) ELSE f[k]
    <3>1. k + 1 \in 0..n /\ (k + 1) - 1 = k /\ k + 1 # 0
      BY <1>4
    <3> QED BY <1>2, <3>1 DEF Selects
  <2>2. Keeps(f[k], seq, I, k)
    BY <1>4
  <2>3. Keeps(f[k + 1], seq, I, k + 1)
    BY <2>1, <2>2, KeepsNext
  <2> QED BY <2>3
<1> HIDE DEF S
<1>5. \A k \in 0..n : k \in S
  BY <1>3, <1>4, InductionUpTo
<1>6. n \in S
  BY <1>5
<1> QED BY <1>1, <1>2, <1>6 DEF S

\* What is kept is what there was at the places in I, and nothing else.
LEMMA SelectedItems ==
    ASSUME NEW S, NEW seq \in Seq(S), NEW I
    PROVE  /\ Selected(seq, I) \in Seq(S)
           /\ Len(Selected(seq, I)) \in Nat /\ Len(Selected(seq, I)) <= Len(seq)
           /\ DOMAIN Selected(seq, I) = 1..Len(Selected(seq, I))
           /\ \A k \in DOMAIN Selected(seq, I) :
                \E i \in I \cap DOMAIN seq : Selected(seq, I)[k] = seq[i]
           /\ \A i \in I \cap DOMAIN seq :
                \E k \in DOMAIN Selected(seq, I) : Selected(seq, I)[k] = seq[i]
<1> DEFINE s == Selected(seq, I)
<1>1. Len(seq) \in Nat /\ DOMAIN seq = 1..Len(seq)
  BY LenProperties
<1>2. Keeps(s, seq, I, Len(seq))
  BY <1>1, SelectedKeeps
<1>3. {seq[i] : i \in I \cap 1..Len(seq)} \subseteq S
  BY <1>1, ElementOfSeq
<1> HIDE DEF s
<1>4. s \in Seq(S) /\ Len(s) <= Len(seq)
  BY <1>2, <1>3, SeqMonotonic DEF Keeps
<1>5. Len(s) \in Nat /\ DOMAIN s = 1..Len(s)
  BY <1>4, LenProperties
<1>6. PICK p : Places(p, s, seq, I, Len(seq))
  BY <1>2 DEF Keeps
<1>7. \A k \in DOMAIN s : \E i \in I \cap DOMAIN seq : s[k] = seq[i]
  BY <1>1, <1>5, <1>6 DEF Places
<1>8. \A i \in I \cap DOMAIN seq : \E k \in DOMAIN s : s[k] = seq[i]
  BY <1>1, <1>5, <1>6 DEF Places
<1> QED BY <1>4, <1>5, <1>7, <1>8 DEF s

\* A selection of distinct items has distinct items.
LEMMA SelectedDistinct ==
    ASSUME NEW S, NEW seq \in Seq(S), NEW I,
           \A i, j \in 1..Len(seq) : seq[i] = seq[j] => i = j
    PROVE  \A j, k \in 1..Len(Selected(seq, I)) :
              Selected(seq, I)[j] = Selected(seq, I)[k] => j = k
<1> DEFINE s == Selected(seq, I)
<1>1. Len(seq) \in Nat
  BY LenProperties
<1>2. Keeps(s, seq, I, Len(seq))
  BY <1>1, SelectedKeeps
<1> HIDE DEF s
<1>3. PICK p : Places(p, s, seq, I, Len(seq))
  BY <1>2 DEF Keeps
<1>4. ASSUME NEW j \in 1..Len(s), NEW k \in 1..Len(s), s[j] = s[k] PROVE j = k
  <2>1. p[j] \in 1..Len(seq) /\ p[k] \in 1..Len(seq) /\ s[j] = seq[p[j]] /\ s[k] = seq[p[k]]
    BY <1>3 DEF Places
  <2>2. p[j] = p[k]
    BY <1>4, <2>1
  <2>3. Len(s) \in Nat
    BY <1>2, LenProperties DEF Keeps
  <2>4. ~(j < k) /\ ~(k < j)
    BY <1>1, <1>3, <2>1, <2>2 DEF Places
  <2> QED BY <2>3, <2>4
<1> QED BY <1>4 DEF s

\* Whatever comes after place m is kept as it is.
LEMMA SelectedSuffix ==
    ASSUME NEW S, NEW seq \in Seq(S), NEW I, NEW m \in 0..Len(seq),
           \A i \in 1..Len(seq) : i \in I <=> i > m
    PROVE  Selected(seq, I) = SubSeq(seq, m + 1, Len(seq))
<1>1. PICK n \in Nat : n = Len(seq)
  BY LenProperties
<1>2. PICK f : Selects(f, seq, I, n) /\ Selected(seq, I) = f[n]
  BY <1>1, SelectedIsLast
<1> DEFINE P(k) == f[k] = SubSeq(seq, m + 1, k)
           K == {k \in 0..n : P(k)}
<1>3. P(0)
  <2>1. f[0] = <<>>
    BY <1>2 DEF Selects
  <2>2. SubSeq(seq, m + 1, 0) = <<>>
    BY SubSeqEmpty
  <2> QED BY <2>1, <2>2
<1>4. ASSUME NEW k \in 0..(n - 1), P(k) PROVE P(k + 1)
  <2>1. f[k + 1] = IF k + 1 \in I THEN Append(f[k], seq[k + 1]) ELSE f[k]
    <3>1. k + 1 \in 0..n /\ (k + 1) - 1 = k /\ k + 1 # 0
      BY <1>4
    <3> QED BY <1>2, <3>1 DEF Selects
  <2>2. f[k] = SubSeq(seq, m + 1, k)
    BY <1>4
  <2>3. CASE k + 1 <= m
    <3>1. f[k + 1] = f[k] /\ SubSeq(seq, m + 1, k) = <<>> /\ SubSeq(seq, m + 1, k + 1) = <<>>
      BY <1>1, <1>4, <2>1, <2>3, SubSeqEmpty
    <3> QED BY <2>2, <3>1
  <2>4. CASE k + 1 > m
    <3>1. f[k + 1] = Append(SubSeq(seq, m + 1, k), seq[k + 1])
      BY <1>1, <2>1, <2>2, <2>4
    <3>2. k + 1 \in 1..Len(seq) /\ m + 1 \in 1..Len(seq) /\ m + 1 <= k + 1
      BY <1>1, <1>4, <2>4
    <3>3. SubSeq(seq, m + 1, k + 1) = SubSeq(seq, m + 1, k) \o <<seq[k + 1]>>
      BY <3>2, SubSeqRecursiveSecond
    <3>4. SubSeq(seq, m + 1, k) \in Seq(S) /\ seq[k + 1] \in S
      <4>1. \A i \in (m + 1)..k : seq[i] \in S
        BY <3>2, ElementOfSeq
      <4> QED BY <3>2, <4>1, SubSeqProperties, ElementOfSeq
    <3> QED BY <3>1, <3>3, <3>4, AppendIsConcat
  <2> QED BY <2>3, <2>4
<1>5. \A k \in 0..n : k \in K
  <2> HIDE DEF P
  <2>1. 0 \in K /\ \A k \in 0..(n - 1) : k \in K => k + 1 \in K
    BY <1>3, <1>4
  <2> HIDE DEF K
  <2> QED BY <2>1, InductionUpTo
<1>6. P(n)
  BY <1>5
<1> QED BY <1>1, <1>2, <1>6

LEMMA SelectedAll ==
    ASSUME NEW S, NEW seq \in Seq(S), NEW I, 1..Len(seq) \subseteq I
    PROVE  Selected(seq, I) = seq
<1>1. 0 \in 0..Len(seq) /\ \A i \in 1..Len(seq) : i \in I <=> i > 0
  BY LenProperties
<1>2. Selected(seq, I) = SubSeq(seq, 0 + 1, Len(seq))
  BY <1>1, SelectedSuffix
<1> QED BY <1>2, SubSeqFull

LEMMA SelectedNone ==
    ASSUME NEW S, NEW seq \in Seq(S), NEW I, I \cap 1..Len(seq) = {}
    PROVE  Selected(seq, I) = <<>>
<1>1. Len(seq) \in 0..Len(seq) /\ \A i \in 1..Len(seq) : i \in I <=> i > Len(seq)
  BY LenProperties
<1>2. Selected(seq, I) = SubSeq(seq, Len(seq) + 1, Len(seq))
  BY <1>1, SelectedSuffix
<1> QED BY <1>1, <1>2, LenProperties, SubSeqEmpty
=============================================================================
