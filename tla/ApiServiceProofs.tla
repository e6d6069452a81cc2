------------------------- MODULE ApiServiceProofs -------------------------
(***************************************************************************)
(* Five facts of a process of the API (ApiService), for every number of    *)
(* identities, quota, window and size of the limiter's table, and for all  *)
(* settings a process may be started with.                                 *)
(*                                                                         *)
(* The quota: the deque of an identity is the end of the history of its    *)
(* admissions, and everything in that history before it has left the       *)
(* window; an admission finds the deque short, so the admission MaxRequests*)
(* before it has left the window.                                          *)
(*                                                                         *)
(* The table: it holds every identity once, from the coldest to the last,  *)
(* and a refusal only moves an identity, so it is full at most.            *)
(*                                                                         *)
(* The Retry-After: while a promise is open the deque is full and does not *)
(* change, and the moment promised is that of its oldest entry leaving the *)
(* window, rounded up to a second.                                         *)
(*                                                                         *)
(* The end of the process: the worker and its execution are over before    *)
(* the lifespan closes anything, and what it has not closed when it ends   *)
(* it lost to a constructor or a close that raised.                        *)
(*                                                                         *)
(* The counts: a change made after a decision under way was counted is     *)
(* excused, so what that decision publishes misses no other.               *)
(***************************************************************************)
EXTENDS ApiService, SelectionProofs

\* The deque w of an identity and the history g of its admissions at time now.
WindowOK(w, g, now) ==
    /\ w \in Seq(Nat) /\ g \in Seq(Nat)
    /\ Len(w) <= MaxRequests /\ Len(w) <= Len(g) /\ Len(g) <= MaxRequests + 1
    /\ \A j, k \in 1..Len(w) : j <= k => w[j] <= w[k]
    /\ \A k \in 1..Len(w) : w[k] <= now /\ w[k] = g[Len(g) - Len(w) + k]
    /\ \A k \in 1..(Len(g) - Len(w)) : g[k] <= now - Window
    /\ Len(g) = MaxRequests + 1 => g[Len(g)] - g[1] >= Window

WindowOf(i) == IF i \in DOMAIN hits THEN hits[i] ELSE <<>>

QuotaInv ==
    /\ clock \in Nat
    /\ granted \in [Identities -> Seq(Nat)]
    /\ \A i \in Identities : WindowOK(WindowOf(i), granted[i], clock)

\* What the loop of check pops is a prefix of the deque, and has expired.
LEMMA ExpiredIsPrefix ==
    ASSUME NEW w \in Seq(Nat), NEW b \in Int,
           \A j, k \in 1..Len(w) : j <= k => w[j] <= w[k]
    PROVE  /\ Expired(w, b) \in 0..Len(w)
           /\ \A j \in 1..Expired(w, b) : w[j] <= b
<1> DEFINE S == {k \in 1..Len(w) : w[k] <= b}
<1>1. Len(w) \in Nat
  OBVIOUS
<1>2. IsFiniteSet(1..Len(w)) /\ Cardinality(1..Len(w)) = Len(w)
  <2>1. Len(w) \in Int /\ 1 \in Int
    BY <1>1
  <2>2. IsFiniteSet(1..Len(w)) /\ Cardinality(1..Len(w)) = IF 1 <= Len(w) THEN Len(w) - 1 + 1 ELSE 0
    BY <2>1, FS_Interval
  <2> QED
    BY <1>1, <2>2
<1>3. IsFiniteSet(S) /\ Cardinality(S) \in Nat /\ Cardinality(S) <= Len(w)
  BY <1>2, FS_Subset, FS_CardinalityType, S \subseteq 1..Len(w)
<1>4. ASSUME NEW j \in 1..Cardinality(S)
      PROVE  w[j] <= b
  <2>1. j \in 1..Len(w)
    BY <1>1, <1>3
  <2>2. SUFFICES ASSUME ~ (w[j] <= b) PROVE FALSE
    OBVIOUS
  <2>3. S \subseteq 1..(j - 1)
    BY <1>1, <2>1, <2>2
  <2>4. IsFiniteSet(1..(j - 1)) /\ Cardinality(1..(j - 1)) = j - 1
    <3>1. j - 1 \in Nat /\ j - 1 \in Int /\ 1 \in Int
      BY <1>3
    <3>2. /\ IsFiniteSet(1..(j - 1))
          /\ Cardinality(1..(j - 1)) = IF 1 <= j - 1 THEN (j - 1) - 1 + 1 ELSE 0
      BY <3>1, FS_Interval
    <3> QED
      BY <3>1, <3>2
  <2>5. Cardinality(S) <= j - 1
    BY <2>3, <2>4, FS_Subset
  <2> QED
    BY <1>3, <2>5
<1> QED
  BY <1>1, <1>3, <1>4 DEF Expired

\* Popping what has expired leaves a deque that is still the end of the history.
LEMMA Dropping ==
    ASSUME NEW w, NEW g, NEW now \in Nat, WindowOK(w, g, now)
    PROVE  WindowOK(SubSeq(w, Expired(w, now - Window) + 1, Len(w)), g, now)
<1> DEFINE n == Expired(w, now - Window)
           v == SubSeq(w, n + 1, Len(w))
<1>1. w \in Seq(Nat) /\ g \in Seq(Nat) /\ Len(w) \in Nat /\ Len(g) \in Nat
  BY DEF WindowOK
<1>2. Window \in Nat /\ MaxRequests \in Nat /\ now - Window \in Int
  BY LimiterAssumption
<1>3. n \in 0..Len(w) /\ \A j \in 1..n : w[j] <= now - Window
  BY <1>1, <1>2, ExpiredIsPrefix DEF WindowOK
<1> HIDE DEF n
<1>4. /\ v \in Seq(Nat) /\ Len(v) = Len(w) - n
      /\ \A k \in 1..Len(v) : v[k] = w[n + k]
  BY <1>1, <1>3
<1> HIDE DEF v
<1>5. \A k \in 1..(Len(g) - Len(v)) : g[k] <= now - Window
  <2>1. SUFFICES ASSUME NEW k \in 1..(Len(g) - Len(v)), k > Len(g) - Len(w)
                 PROVE  g[k] <= now - Window
    BY <1>1, <1>2, <1>3, <1>4 DEF WindowOK
  <2>2. k - (Len(g) - Len(w)) \in 1..n /\ k - (Len(g) - Len(w)) \in 1..Len(w)
    BY <1>1, <1>3, <1>4, <2>1
  <2>3. w[k - (Len(g) - Len(w))] = g[Len(g) - Len(w) + (k - (Len(g) - Len(w)))]
    BY <2>2 DEF WindowOK
  <2>4. Len(g) - Len(w) + (k - (Len(g) - Len(w))) = k
    BY <1>1, <2>1
  <2> QED
    BY <1>3, <2>2, <2>3, <2>4
<1>6. \A k \in 1..Len(v) : v[k] <= now /\ v[k] = g[Len(g) - Len(v) + k]
  <2> TAKE k \in 1..Len(v)
  <2>1. n + k \in 1..Len(w) /\ v[k] = w[n + k]
    BY <1>1, <1>3, <1>4
  <2>2. w[n + k] <= now /\ w[n + k] = g[Len(g) - Len(w) + (n + k)]
    BY <2>1 DEF WindowOK
  <2>3. Len(g) - Len(w) + (n + k) = Len(g) - Len(v) + k
    BY <1>1, <1>3, <1>4
  <2> QED
    BY <2>1, <2>2, <2>3
<1>7. \A j, k \in 1..Len(v) : j <= k => v[j] <= v[k]
  <2> TAKE j, k \in 1..Len(v)
  <2>1. n + j \in 1..Len(w) /\ n + k \in 1..Len(w) /\ v[j] = w[n + j] /\ v[k] = w[n + k]
    BY <1>1, <1>3, <1>4
  <2>2. n + j <= n + k => w[n + j] <= w[n + k]
    BY <2>1 DEF WindowOK
  <2> QED
    BY <1>3, <2>1, <2>2
<1>8. WindowOK(v, g, now)
  BY <1>1, <1>2, <1>3, <1>4, <1>5, <1>6, <1>7 DEF WindowOK
<1> QED
  BY <1>8 DEF v, n

\* An admission into a deque that is not full keeps the quota.
LEMMA Adding ==
    ASSUME NEW w, NEW g, NEW now \in Nat, WindowOK(w, g, now), ~ Full(w)
    PROVE  WindowOK(Append(w, now), LastOf(Append(g, now), MaxRequests + 1), now)
<1> DEFINE v == Append(w, now)
           a == Append(g, now)
           h == LastOf(a, MaxRequests + 1)
<1>1. /\ w \in Seq(Nat) /\ g \in Seq(Nat) /\ Len(w) \in Nat /\ Len(g) \in Nat
      /\ Window \in Nat /\ MaxRequests \in Nat /\ MaxRequests >= 1
      /\ Len(w) <= MaxRequests - 1 /\ Len(w) <= Len(g) /\ Len(g) <= MaxRequests + 1
  BY LimiterAssumption DEF WindowOK, Full
<1>2. /\ v \in Seq(Nat) /\ Len(v) = Len(w) + 1
      /\ \A k \in 1..Len(w) : v[k] = w[k]
      /\ v[Len(w) + 1] = now
  BY <1>1
<1>3. /\ a \in Seq(Nat) /\ Len(a) = Len(g) + 1
      /\ \A k \in 1..Len(g) : a[k] = g[k]
      /\ a[Len(g) + 1] = now
  BY <1>1
<1> HIDE DEF v, a
<1> DEFINE d == IF Len(g) = MaxRequests + 1 THEN 1 ELSE 0
<1>4. /\ d \in Nat /\ d <= 1 /\ (d = 1 <=> Len(g) = MaxRequests + 1)
      /\ h \in Seq(Nat) /\ Len(h) = Len(a) - d
      /\ \A k \in 1..Len(h) : h[k] = a[k + d]
  <2>1. d \in Nat /\ d <= 1 /\ (d = 1 <=> Len(g) = MaxRequests + 1)
    OBVIOUS
  <2>2. h = SubSeq(a, d + 1, Len(a))
    <3>1. Len(a) \in Nat /\ (Len(a) > MaxRequests + 1 <=> d = 1)
      BY <1>1, <1>3
    <3>2. d = 1 => Len(a) - (MaxRequests + 1) = 1
      BY <1>1, <1>3
    <3> QED
      BY <2>1, <3>1, <3>2 DEF LastOf
  <2> HIDE DEF d, h
  <2>3. d + 1 \in Nat /\ d + 1 >= 1 /\ Len(a) \in Nat /\ d + 1 <= Len(a)
    BY <1>1, <1>3, <2>1
  <2>4. h \in Seq(Nat) /\ Len(h) = Len(a) - d
    BY <1>3, <2>1, <2>2, <2>3
  <2>5. \A k \in 1..Len(h) : h[k] = a[k + d]
    BY <1>3, <2>1, <2>2, <2>3, <2>4
  <2> QED
    BY <2>1, <2>4, <2>5
<1> HIDE DEF d
<1> HIDE DEF h
<1>sizes. /\ d \in Nat /\ Len(v) \in Nat /\ Len(h) \in Nat /\ Len(w) \in Nat /\ Len(g) \in Nat
      /\ MaxRequests \in Nat /\ Len(v) = Len(w) + 1 /\ Len(h) + d = Len(g) + 1
      /\ Len(w) <= Len(g) /\ Len(w) + 1 <= MaxRequests
      /\ \/ d = 1 /\ Len(g) = MaxRequests + 1
         \/ d = 0 /\ Len(g) <= MaxRequests
  <2>1. Len(a) = Len(g) + 1 /\ Len(h) = Len(a) - d /\ Len(v) = Len(w) + 1
    BY <1>2, <1>3, <1>4
  <2>2. \/ d = 1 /\ Len(g) = MaxRequests + 1
        \/ d = 0 /\ Len(g) <= MaxRequests
    BY <1>1, <1>4
  <2> QED
    BY <1>1, <1>4, <2>1, <2>2
<1>5. Len(h) \in Nat /\ Len(v) <= Len(h) /\ Len(h) <= MaxRequests + 1 /\ Len(v) <= MaxRequests
  BY <1>sizes
<1>6. \A k \in 1..Len(v) : v[k] <= now /\ v[k] = h[Len(h) - Len(v) + k]
  <2> TAKE k \in 1..Len(v)
  <2>1. /\ Len(h) - Len(v) + k \in 1..Len(h)
        /\ Len(h) - Len(v) + k + d = Len(g) - Len(w) + k
    BY <1>sizes, <1>5
  <2>2. h[Len(h) - Len(v) + k] = a[Len(g) - Len(w) + k]
    BY <1>4, <2>1
  <2>3. CASE k = Len(w) + 1
    BY <1>1, <1>2, <1>3, <2>2, <2>3
  <2>4. CASE k # Len(w) + 1
    <3>1. k \in 1..Len(w) /\ Len(g) - Len(w) + k \in 1..Len(g)
      BY <1>1, <1>2, <2>4
    <3>2. w[k] <= now /\ w[k] = g[Len(g) - Len(w) + k]
      BY <3>1 DEF WindowOK
    <3> QED
      BY <1>2, <1>3, <2>2, <3>1, <3>2
  <2> QED
    BY <2>3, <2>4
<1>7. \A k \in 1..(Len(h) - Len(v)) : h[k] <= now - Window
  <2> TAKE k \in 1..(Len(h) - Len(v))
  <2>1. k \in 1..Len(h) /\ k + d \in 1..(Len(g) - Len(w)) /\ k + d \in 1..Len(g)
    BY <1>sizes, <1>5
  <2>2. g[k + d] <= now - Window
    <3>1. \A j \in 1..(Len(g) - Len(w)) : g[j] <= now - Window
      BY DEF WindowOK
    <3> QED
      BY <2>1, <3>1
  <2> QED
    BY <1>3, <1>4, <2>1, <2>2
<1>8. \A j, k \in 1..Len(v) : j <= k => v[j] <= v[k]
  <2> TAKE j, k \in 1..Len(v)
  <2>1. CASE k = Len(w) + 1
    BY <1>2, <1>6, <2>1
  <2>2. CASE k # Len(w) + 1
    <3>1. k \in 1..Len(w) /\ (j <= k => j \in 1..Len(w))
      BY <1>1, <1>2, <2>2
    <3> QED
      BY <1>2, <3>1 DEF WindowOK
  <2> QED
    BY <2>1, <2>2
<1>9. Len(h) = MaxRequests + 1 => h[Len(h)] - h[1] >= Window
  <2> SUFFICES ASSUME Len(h) = MaxRequests + 1 PROVE h[Len(h)] - h[1] >= Window
    OBVIOUS
  <2>1. /\ Len(h) \in 1..Len(h) /\ 1 \in 1..Len(h) /\ Len(h) + d = Len(g) + 1
        /\ 1 + d \in 1..(Len(g) - Len(w)) /\ 1 + d \in 1..Len(g)
    BY <1>sizes, <1>5
  <2>2. h[Len(h)] = now /\ h[1] = g[1 + d]
    BY <1>3, <1>4, <2>1
  <2>3. g[1 + d] <= now - Window
    <3>1. \A k \in 1..(Len(g) - Len(w)) : g[k] <= now - Window
      BY DEF WindowOK
    <3> QED
      BY <2>1, <3>1
  <2>4. g[1 + d] \in Nat
    BY <1>1, <2>1
  <2> QED
    BY <1>1, <2>2, <2>3, <2>4
<1>10. WindowOK(v, h, now)
  BY <1>2, <1>4, <1>5, <1>6, <1>7, <1>8, <1>9 DEF WindowOK
<1> QED
  BY <1>10 DEF v, h, a

LEMMA Fresh == ASSUME NEW now \in Nat PROVE WindowOK(<<>>, <<>>, now)
BY LimiterAssumption DEF WindowOK

LEMMA Later ==
    ASSUME NEW w, NEW g, NEW now \in Nat, WindowOK(w, g, now)
    PROVE  WindowOK(w, g, now + 1)
<1>1. w \in Seq(Nat) /\ g \in Seq(Nat) /\ Window \in Nat
  BY LimiterAssumption DEF WindowOK
<1>2. ASSUME NEW k \in 1..Len(w)
      PROVE  w[k] <= now + 1 /\ w[k] = g[Len(g) - Len(w) + k]
  <2>1. w[k] \in Nat /\ w[k] <= now /\ w[k] = g[Len(g) - Len(w) + k]
    BY <1>1 DEF WindowOK
  <2> QED
    BY <2>1
<1>3. ASSUME NEW k \in 1..(Len(g) - Len(w))
      PROVE  g[k] <= (now + 1) - Window
  <2>1. k \in 1..Len(g) /\ g[k] <= now - Window
    BY <1>1 DEF WindowOK
  <2>2. g[k] \in Nat
    BY <1>1, <2>1
  <2> QED
    BY <1>1, <2>1, <2>2
<1> QED
  BY <1>2, <1>3 DEF WindowOK

-----------------------------------------------------------------------------
LEMMA InitQuota == Init => QuotaInv
<1> SUFFICES ASSUME Init PROVE QuotaInv
  OBVIOUS
<1>1. clock = 0 /\ hits = [i \in {} |-> <<>>] /\ granted = [i \in Identities |-> <<>>]
  BY DEF Init, LimiterInit
<1>2. granted \in [Identities -> Seq(Nat)] /\ clock \in Nat
  BY <1>1
<1>3. \A i \in Identities : WindowOf(i) = <<>> /\ granted[i] = <<>>
  BY <1>1 DEF WindowOf
<1> QED
  BY <1>2, <1>3, Fresh DEF QuotaInv

\* A refused request only pops what has expired.
LEMMA RefuseKeepsQuota ==
    ASSUME QuotaInv, NEW i \in Identities, Refuse(i)
    PROVE  QuotaInv'
<1>1. /\ clock' = clock /\ granted' = granted /\ clock \in Nat
      /\ hits' = With(hits, i, Live(hits, i, clock))
  BY DEF Refuse, QuotaInv
<1>2. WindowOK(Live(hits, i, clock), granted[i], clock)
  BY Dropping DEF QuotaInv, Live, WindowOf
<1>3. ASSUME NEW j \in Identities
      PROVE  WindowOK(WindowOf(j)', granted[j]', clock')
  <2>1. CASE j = i
    <3>1. WindowOf(j)' = Live(hits, i, clock)
      BY <1>1, <2>1 DEF WindowOf, With
    <3> QED
      BY <1>1, <1>2, <2>1, <3>1
  <2>2. CASE j # i
    <3>1. WindowOf(j)' = WindowOf(j)
      BY <1>1, <2>2 DEF WindowOf, With
    <3> QED
      BY <1>1, <3>1 DEF QuotaInv
  <2> QED
    BY <2>1, <2>2
<1> QED
  BY <1>1, <1>3 DEF QuotaInv

\* An admission records the request; whom the table forgets starts a new history.
LEMMA AdmitKeepsQuota ==
    ASSUME QuotaInv, NEW i \in Identities, Admit(i)
    PROVE  QuotaInv'
<1> DEFINE w == Live(hits, i, clock)
           h == With(hits, i, Append(w, clock))
           K == DOMAIN h \cap Tracked(Warm(Touched(i)))
<1>1. /\ clock' = clock /\ clock \in Nat /\ ~ Full(w)
      /\ hits' = [j \in K |-> h[j]]
      /\ granted' = [j \in Identities |->
            IF j \notin K THEN <<>>
            ELSE IF j = i THEN LastOf(Append(granted[i], clock), MaxRequests + 1)
            ELSE granted[j]]
  BY DEF Admit, QuotaInv
<1>2. WindowOK(w, granted[i], clock)
  BY Dropping DEF QuotaInv, Live, WindowOf
<1>3. WindowOK(Append(w, clock), LastOf(Append(granted[i], clock), MaxRequests + 1), clock)
  BY <1>1, <1>2, Adding
<1>4. h = [j \in DOMAIN hits \cup {i} |-> IF j = i THEN Append(w, clock) ELSE hits[j]]
  BY DEF With
<1> HIDE DEF w, h, K
<1>5. K \subseteq DOMAIN hits \cup {i}
  BY <1>4 DEF K
<1>6. ASSUME NEW j \in Identities
      PROVE  WindowOK(WindowOf(j)', granted'[j], clock)
  <2>1. CASE j \notin K
    <3>1. WindowOf(j)' = <<>> /\ granted'[j] = <<>>
      BY <1>1, <2>1 DEF WindowOf
    <3> QED
      BY <1>1, <3>1, Fresh
  <2>2. CASE j \in K /\ j = i
    <3>1. WindowOf(j)' = Append(w, clock)
      BY <1>1, <1>4, <2>2 DEF WindowOf
    <3>2. granted'[j] = LastOf(Append(granted[i], clock), MaxRequests + 1)
      BY <1>1, <2>2
    <3> QED
      BY <1>3, <3>1, <3>2
  <2>3. CASE j \in K /\ j # i
    <3>1. WindowOf(j)' = WindowOf(j)
      BY <1>1, <1>4, <1>5, <2>3 DEF WindowOf
    <3>2. granted'[j] = granted[j]
      BY <1>1, <2>3
    <3> QED
      BY <3>1, <3>2 DEF QuotaInv
  <2> QED
    BY <2>1, <2>2, <2>3
<1>7. granted' \in [Identities -> Seq(Nat)]
  <2>1. DOMAIN granted' = Identities /\ granted' = [j \in Identities |-> granted'[j]]
    BY <1>1
  <2>2. \A j \in Identities : granted'[j] \in Seq(Nat)
    BY <1>6 DEF WindowOK
  <2> QED
    BY <2>1, <2>2
<1> QED
  BY <1>1, <1>6, <1>7 DEF QuotaInv

LEMMA TickKeepsQuota == QuotaInv /\ Tick => QuotaInv'
<1> SUFFICES ASSUME QuotaInv, Tick PROVE QuotaInv'
  OBVIOUS
<1>1. clock' = clock + 1 /\ hits' = hits /\ granted' = granted /\ clock \in Nat
  BY DEF Tick, QuotaInv
<1>2. \A i \in Identities : WindowOf(i)' = WindowOf(i)
  BY <1>1 DEF WindowOf
<1>3. \A i \in Identities : WindowOK(WindowOf(i), granted[i], clock + 1)
  BY <1>1, Later DEF QuotaInv
<1> QED
  BY <1>1, <1>2, <1>3 DEF QuotaInv

LEMMA StutterKeepsQuota == QuotaInv /\ UNCHANGED limiter => QuotaInv'
<1> SUFFICES ASSUME QuotaInv, UNCHANGED limiter PROVE QuotaInv'
  OBVIOUS
<1>1. clock' = clock /\ hits' = hits /\ granted' = granted
  BY DEF limiter
<1>2. \A i \in Identities : WindowOf(i)' = WindowOf(i)
  BY <1>1 DEF WindowOf
<1> QED
  BY <1>1, <1>2 DEF QuotaInv

\* Everything but a request and the clock leaves the limiter alone.
LEMMA LimiterSteps ==
    [Next]_vars => \/ \E i \in Identities : Refuse(i) \/ Admit(i)
                   \/ Tick
                   \/ UNCHANGED limiter
<1> SUFFICES ASSUME [Next]_vars
             PROVE  \/ \E i \in Identities : Refuse(i) \/ Admit(i)
                    \/ Tick
                    \/ UNCHANGED limiter
  OBVIOUS
<1>1. CASE \/ Check \/ Providers \/ Discover \/ Database \/ Agents \/ Publish
           \/ Claim \/ RenewalRaises \/ OrphanEnds \/ Shutdown \/ StopWorker \/ Close
           \/ Finish
  BY <1>1 DEF Check, Providers, Discover, Database, Agents, Publish, Claim, RenewalRaises,
              OrphanEnds, Shutdown, StopWorker, Close, Finish
<1>2. CASE \E c \in Callers : Count(c) \/ Refresh(c) \/ CountFails(c)
  BY <1>2 DEF Count, Refresh, CountFails
<1>3. CASE \E i \in Identities : PlainRequest(i)
  BY <1>3 DEF PlainRequest, Guarded
<1>4. CASE \E c \in Callers, i \in Identities, authorized \in BOOLEAN : Decide(c, i, authorized)
  BY <1>4 DEF Decide, Guarded
<1>5. CASE UNCHANGED vars
  BY <1>5 DEF vars
<1> QED
  BY <1>1, <1>2, <1>3, <1>4, <1>5 DEF Next

LEMMA NextKeepsQuota == QuotaInv /\ [Next]_vars => QuotaInv'
BY LimiterSteps, RefuseKeepsQuota, AdmitKeepsQuota, TickKeepsQuota, StutterKeepsQuota

\* In no stretch of Window, wherever it begins, is an identity the table remembers
\* admitted more than MaxRequests times (SlidingWindowRateLimiter.check).
THEOREM QuotaIsKept == Spec => []QuotaHolds
<1>1. Init => QuotaInv
  BY InitQuota
<1>2. QuotaInv /\ [Next]_vars => QuotaInv'
  BY NextKeepsQuota
<1>3. QuotaInv => QuotaHolds
  BY DEF QuotaInv, WindowOK, QuotaHolds
<1> QED
  BY <1>1, <1>2, <1>3, PTL DEF Spec

-----------------------------------------------------------------------------
\* The table of the limiter holds every identity once.
TableInv ==
    /\ order \in Seq(Identities)
    /\ \A j, k \in 1..Len(order) : order[j] = order[k] => j = k
    /\ DOMAIN hits = Tracked(order)
    /\ Len(order) <= MaxTracked

\* A sequence of distinct items has as many places as items.
LEMMA DistinctItems ==
    ASSUME NEW S, NEW o \in Seq(S), \A j, k \in 1..Len(o) : o[j] = o[k] => j = k
    PROVE  IsFiniteSet(Tracked(o)) /\ Cardinality(Tracked(o)) = Len(o)
<1> DEFINE T == Tracked(o)
<1>1. Len(o) \in Nat /\ o \in [1..Len(o) -> S] /\ DOMAIN o = 1..Len(o)
  BY LenProperties
<1>2. o \in [1..Len(o) -> T] /\ \A t \in T : \E k \in 1..Len(o) : o[k] = t
  BY <1>1 DEF Tracked
<1> HIDE DEF T
<1>3. o \in Bijection(1..Len(o), T)
  BY <1>2 DEF Bijection, Injection, Surjection, IsInjective
<1>4. ExistsBijection(1..Len(o), T)
  BY <1>3 DEF ExistsBijection
<1>5. IsFiniteSet(T) /\ Cardinality(T) = Len(o)
  BY <1>1, <1>4, FS_NatBijection, FS_CountingElements
<1> QED BY <1>5 DEF T

\* Touching an identity puts it last and leaves the others.
LEMMA TouchedOrder ==
    ASSUME TableInv, NEW i \in Identities
    PROVE  /\ Touched(i) \in Seq(Identities)
           /\ \A j, k \in 1..Len(Touched(i)) : Touched(i)[j] = Touched(i)[k] => j = k
           /\ Tracked(Touched(i)) = Tracked(order) \cup {i}
<1> DEFINE I == {k \in 1..Len(order) : order[k] # i}
           s == Selected(order, I)
           t == Append(s, i)
<1>1. order \in Seq(Identities) /\ DOMAIN order = 1..Len(order) /\ Len(order) \in Nat
  BY LenProperties DEF TableInv
<1>2. /\ \A k \in I : k \in DOMAIN order /\ order[k] # i
      /\ \A k \in 1..Len(order) : order[k] # i => k \in I
  BY <1>1
<1>3. Touched(i) = t
  BY DEF Touched
<1> HIDE DEF I
<1>4. /\ s \in Seq(Identities) /\ Len(s) \in Nat /\ DOMAIN s = 1..Len(s)
      /\ \A k \in DOMAIN s : \E j \in I \cap DOMAIN order : s[k] = order[j]
      /\ \A j \in I \cap DOMAIN order : \E k \in DOMAIN s : s[k] = order[j]
  <2>1. PICK list \in Seq(Identities) : list = order
    BY <1>1
  <2>2. /\ Selected(list, I) \in Seq(Identities)
        /\ Len(Selected(list, I)) \in Nat /\ Len(Selected(list, I)) <= Len(list)
        /\ DOMAIN Selected(list, I) = 1..Len(Selected(list, I))
        /\ \A k \in DOMAIN Selected(list, I) :
              \E j \in I \cap DOMAIN list : Selected(list, I)[k] = list[j]
        /\ \A j \in I \cap DOMAIN list :
              \E k \in DOMAIN Selected(list, I) : Selected(list, I)[k] = list[j]
    BY SelectedItems
  <2> QED BY <2>1, <2>2
<1>5. \A j, k \in 1..Len(s) : s[j] = s[k] => j = k
  BY <1>1, SelectedDistinct DEF TableInv
<1> HIDE DEF s
<1>6. \A k \in 1..Len(s) : s[k] # i
  BY <1>2, <1>4
<1>7. /\ t \in Seq(Identities) /\ Len(t) = Len(s) + 1
      /\ \A k \in 1..Len(s) : t[k] = s[k]
      /\ t[Len(s) + 1] = i
  BY <1>4, AppendProperties
<1> HIDE DEF t
<1>8. ASSUME NEW j \in 1..Len(t), NEW k \in 1..Len(t), t[j] = t[k] PROVE j = k
  BY <1>4, <1>5, <1>6, <1>7, <1>8
<1>9. Tracked(t) = Tracked(order) \cup {i}
  <2>1. ASSUME NEW x \in Tracked(t) PROVE x \in Tracked(order) \cup {i}
    <3>1. PICK k \in 1..Len(t) : x = t[k]
      BY DEF Tracked
    <3>2. CASE k = Len(s) + 1
      BY <1>7, <3>1, <3>2
    <3>3. CASE k \in 1..Len(s)
      <4>1. PICK j \in DOMAIN order : s[k] = order[j]
        BY <1>4, <3>3
      <4> QED BY <1>1, <1>7, <3>1, <3>3, <4>1 DEF Tracked
    <3> QED BY <1>4, <1>7, <3>2, <3>3
  <2>2. ASSUME NEW x \in Tracked(order), x # i PROVE x \in Tracked(t)
    <3>1. PICK j \in 1..Len(order) : x = order[j]
      BY DEF Tracked
    <3>2. PICK k \in 1..Len(s) : s[k] = order[j]
      BY <1>1, <1>2, <1>4, <2>2, <3>1
    <3>3. k \in 1..Len(t) /\ t[k] = x
      BY <1>4, <1>7, <3>1, <3>2
    <3> QED BY <3>3 DEF Tracked
  <2>3. i \in Tracked(t)
    <3>1. Len(s) + 1 \in 1..Len(t)
      BY <1>4, <1>7
    <3> QED BY <1>7, <3>1 DEF Tracked
  <2> QED BY <2>1, <2>2, <2>3
<1> QED BY <1>3, <1>7, <1>8, <1>9

\* What stays of an order is its end.
LEMMA WarmOrder ==
    ASSUME NEW o \in Seq(Identities), \A j, k \in 1..Len(o) : o[j] = o[k] => j = k
    PROVE  /\ Warm(o) \in Seq(Identities) /\ Len(Warm(o)) <= MaxTracked
           /\ \A j, k \in 1..Len(Warm(o)) : Warm(o)[j] = Warm(o)[k] => j = k
           /\ Tracked(Warm(o)) \subseteq Tracked(o)
<1> DEFINE n == IF Len(o) > MaxTracked THEN Len(o) - MaxTracked ELSE 0
           w == SubSeq(o, n + 1, Len(o))
<1>1. Len(o) \in Nat /\ MaxTracked \in Nat /\ \A k \in 1..Len(o) : o[k] \in Identities
  BY LimiterAssumption, LenProperties, ElementOfSeq
<1>2. n \in 0..Len(o) /\ Len(o) - n <= MaxTracked
  BY <1>1
<1>3. Warm(o) = w
  BY DEF Warm
<1> HIDE DEF n
<1>4. /\ w \in Seq(Identities) /\ Len(w) = Len(o) - n
      /\ \A k \in 1..(Len(o) - n) : w[k] = o[n + k]
  <2>1. \A k \in (n + 1)..Len(o) : o[k] \in Identities
    BY <1>1, <1>2
  <2>2. /\ w \in Seq(Identities)
        /\ Len(w) = IF n + 1 <= Len(o) THEN Len(o) - (n + 1) + 1 ELSE 0
        /\ \A k \in 1..(Len(o) - (n + 1) + 1) : w[k] = o[(n + 1) + k - 1]
    BY <1>1, <1>2, <2>1, SubSeqProperties
  <2> HIDE DEF w
  <2>3. Len(o) - (n + 1) + 1 = Len(o) - n /\ Len(w) = Len(o) - n
    BY <1>1, <1>2, <2>2
  <2>4. \A k \in 1..(Len(o) - n) : (n + 1) + k - 1 = n + k
    BY <1>1, <1>2
  <2> QED BY <2>2, <2>3, <2>4
<1> HIDE DEF w
<1>5. \A k \in 1..Len(w) : n + k \in 1..Len(o) /\ w[k] = o[n + k]
  BY <1>1, <1>2, <1>4
<1>6. ASSUME NEW j \in 1..Len(w), NEW k \in 1..Len(w), w[j] = w[k] PROVE j = k
  <2>1. n + j = n + k
    BY <1>5, <1>6
  <2> QED BY <1>2, <2>1
<1>7. Tracked(w) \subseteq Tracked(o)
  BY <1>5 DEF Tracked
<1> QED BY <1>2, <1>3, <1>4, <1>6, <1>7

LEMMA InitTable == Init => TableInv
<1> SUFFICES ASSUME Init PROVE TableInv
  OBVIOUS
<1>1. hits = [i \in {} |-> <<>>] /\ order = <<>>
  BY DEF Init, LimiterInit
<1>2. Len(order) = 0 /\ 1..0 = {} /\ order \in Seq(Identities)
  BY <1>1
<1> QED BY <1>1, <1>2, LimiterAssumption DEF TableInv, Tracked

\* Who is refused was in the table already, and the table does not grow.
LEMMA RefuseKeepsTable ==
    ASSUME TableInv, NEW i \in Identities, Refuse(i)
    PROVE  TableInv'
<1> DEFINE t == Touched(i)
<1>1. /\ t \in Seq(Identities)
      /\ \A j, k \in 1..Len(t) : t[j] = t[k] => j = k
      /\ Tracked(t) = Tracked(order) \cup {i}
  BY TouchedOrder
<1>2. order' = t /\ hits' = With(hits, i, Live(hits, i, clock)) /\ Full(Live(hits, i, clock))
  BY DEF Refuse
<1> HIDE DEF t
<1>3. i \in DOMAIN hits
  <2> SUFFICES ASSUME i \notin DOMAIN hits PROVE FALSE
    OBVIOUS
  <2>1. Live(hits, i, clock) = SubSeq(<<>>, Expired(<<>>, clock - Window) + 1, Len(<<>>))
    BY DEF Live
  <2>2. Expired(<<>>, clock - Window) = 0
    <3>1. {k \in 1..Len(<<>>) : <<>>[k] <= clock - Window} = {}
      BY EmptySeq
    <3> QED BY <3>1, FS_EmptySet DEF Expired
  <2>3. Live(hits, i, clock) = <<>>
    BY <2>1, <2>2, SubSeqEmpty
  <2> QED BY <1>2, <2>3, LimiterAssumption DEF Full
<1>4. Tracked(t) = Tracked(order)
  BY <1>1, <1>3 DEF TableInv
<1>5. Len(t) = Len(order)
  BY <1>1, <1>4, DistinctItems DEF TableInv
<1>6. DOMAIN hits' = DOMAIN hits
  BY <1>2, <1>3 DEF With
<1> QED BY <1>1, <1>2, <1>4, <1>5, <1>6 DEF TableInv

\* Who is admitted is added, and the coldest identity makes room.
LEMMA AdmitKeepsTable ==
    ASSUME TableInv, NEW i \in Identities, Admit(i)
    PROVE  TableInv'
<1> DEFINE t == Touched(i)
           o == Warm(t)
           h == With(hits, i, Append(Live(hits, i, clock), clock))
<1>1. /\ t \in Seq(Identities)
      /\ \A j, k \in 1..Len(t) : t[j] = t[k] => j = k
      /\ Tracked(t) = Tracked(order) \cup {i}
  BY TouchedOrder
<1>2. order' = o /\ hits' = [j \in DOMAIN h \cap Tracked(o) |-> h[j]]
  BY DEF Admit
<1>3. DOMAIN h = DOMAIN hits \cup {i}
  BY DEF With
<1> HIDE DEF t, h
<1>4. /\ o \in Seq(Identities) /\ Len(o) <= MaxTracked
      /\ \A j, k \in 1..Len(o) : o[j] = o[k] => j = k
      /\ Tracked(o) \subseteq Tracked(t)
  BY <1>1, WarmOrder
<1> HIDE DEF o
<1>5. DOMAIN hits' = Tracked(o)
  BY <1>1, <1>2, <1>3, <1>4 DEF TableInv
<1> QED BY <1>2, <1>4, <1>5 DEF TableInv

LEMMA NextKeepsTable == TableInv /\ [Next]_vars => TableInv'
<1> SUFFICES ASSUME TableInv, [Next]_vars PROVE TableInv'
  OBVIOUS
<1>1. CASE Tick \/ UNCHANGED limiter
  <2>1. hits' = hits /\ order' = order
    BY <1>1 DEF Tick, limiter
  <2> QED BY <2>1 DEF TableInv, Tracked
<1> QED BY <1>1, LimiterSteps, RefuseKeepsTable, AdmitKeepsTable

\* What the limiter remembers is bounded, however many identities there are: at most
\* MaxTracked of them, at most MaxRequests entries each, and the table and its order
\* never part (SlidingWindowRateLimiter.check, _evict_cold_identities).
THEOREM TableStaysBounded == Spec => []TableIsBounded
<1>1. Init => QuotaInv /\ TableInv
  BY InitQuota, InitTable
<1>2. QuotaInv /\ TableInv /\ [Next]_vars => (QuotaInv /\ TableInv)'
  BY NextKeepsQuota, NextKeepsTable
<1>3. QuotaInv /\ TableInv => TableIsBounded
  <2> SUFFICES ASSUME QuotaInv, TableInv PROVE TableIsBounded
    OBVIOUS
  <2>1. Len(order) = Cardinality(DOMAIN hits)
    BY DistinctItems DEF TableInv
  <2>2. ASSUME NEW i \in DOMAIN hits PROVE Len(hits[i]) <= MaxRequests
    <3>1. i \in Identities
      BY ElementOfSeq DEF TableInv, Tracked
    <3>2. WindowOK(hits[i], granted[i], clock)
      BY <3>1 DEF QuotaInv, WindowOf
    <3> QED BY <3>2 DEF WindowOK
  <2> QED BY <2>1, <2>2 DEF TableInv, TableIsBounded
<1> QED BY <1>1, <1>2, <1>3, PTL DEF Spec

-----------------------------------------------------------------------------
\* What a Retry-After rests on: the deque is full, nothing has entered it since, and
\* its oldest entry leaves the window within the second before the moment promised.
PromiseOK(w, p) ==
    /\ w \in Seq(Nat) /\ Len(w) = MaxRequests
    /\ p[2] \in Int /\ w[1] + Window <= p[2] /\ p[2] - Second < w[1] + Window

PromiseInv ==
    /\ DOMAIN promised = Identities
    /\ \A i \in Identities : promised[i] # None => i \in DOMAIN hits /\ PromiseOK(hits[i], promised[i])

\* Of a deque in order, nothing has expired exactly when its oldest entry has not.
LEMMA OldestFirst ==
    ASSUME NEW w \in Seq(Nat), NEW b \in Int, Len(w) >= 1,
           \A j, k \in 1..Len(w) : j <= k => w[j] <= w[k]
    PROVE  Expired(w, b) = 0 <=> w[1] > b
<1> DEFINE S == {k \in 1..Len(w) : w[k] <= b}
<1>1. Len(w) \in Nat /\ 1 \in 1..Len(w) /\ \A k \in 1..Len(w) : w[k] \in Nat
  OBVIOUS
<1>2. Expired(w, b) \in 0..Len(w) /\ \A j \in 1..Expired(w, b) : w[j] <= b
  BY ExpiredIsPrefix
<1>3. CASE w[1] > b
  <2>1. ~ (1 \in 1..Expired(w, b))
    BY <1>1, <1>2, <1>3
  <2> QED
    BY <1>2, <1>3, <2>1
<1>4. CASE ~ (w[1] > b)
  <2>1. 1 \in S
    BY <1>1, <1>4
  <2>2. IsFiniteSet(S)
    <3>1. IsFiniteSet(1..Len(w))
      BY <1>1, FS_Interval
    <3> QED
      BY <3>1, FS_Subset
  <2>3. Cardinality(S) # 0
    BY <2>1, <2>2, FS_EmptySet
  <2> QED
    BY <1>4, <2>3 DEF Expired
<1> QED
  BY <1>3, <1>4

\* A full deque is still full exactly while its oldest entry is in the window.
LEMMA FullWhileOldestLives ==
    ASSUME NEW w \in Seq(Nat), NEW b \in Int, Len(w) = MaxRequests,
           \A j, k \in 1..Len(w) : j <= k => w[j] <= w[k]
    PROVE  Full(SubSeq(w, Expired(w, b) + 1, Len(w))) <=> w[1] > b
<1> DEFINE n == Expired(w, b)
<1>1. Len(w) \in Nat /\ Len(w) >= 1 /\ MaxRequests \in Nat
  BY LimiterAssumption
<1>2. n \in 0..Len(w)
  BY ExpiredIsPrefix
<1>3. n = 0 <=> w[1] > b
  BY <1>1, OldestFirst
<1> HIDE DEF n
<1>4. Len(SubSeq(w, n + 1, Len(w))) = Len(w) - n
  BY <1>1, <1>2
<1>5. Len(w) - n >= MaxRequests <=> n = 0
  BY <1>1, <1>2
<1> QED
  BY <1>3, <1>4, <1>5 DEF Full, n

\* Whole seconds cover the ticks, and not by a second.
LEMMA RoundedUp ==
    ASSUME NEW t \in Nat, t >= 1
    PROVE  LET q == (t + Second - 1) \div Second
           IN  q \in Int /\ q >= 1 /\ t <= q * Second /\ q * Second - Second < t
<1>1. Second \in Nat /\ Second >= 1
  BY LimiterAssumption
<1> DEFINE q == (t + Second - 1) \div Second
<1>2. q \in Int /\ q * Second <= t + Second - 1 /\ t + Second - 1 < q * Second + Second /\ q >= 1
  BY <1>1
<1>3. q * Second \in Int
  BY <1>1, <1>2
<1> HIDE DEF q
<1>4. t <= q * Second /\ q * Second - Second < t
  BY <1>1, <1>2, <1>3
<1> QED
  BY <1>2, <1>4 DEF q

\* A refusal leaves the full deque as it is: its first Retry-After counts from the
\* oldest entry, and those after it change nothing.
LEMMA RefuseKeepsPromise ==
    ASSUME QuotaInv, PromiseInv, NEW i \in Identities, Refuse(i)
    PROVE  PromiseInv'
<1> DEFINE v == WindowOf(i)
           w == Live(hits, i, clock)
<1>1. /\ clock \in Nat /\ v \in Seq(Nat) /\ Len(v) \in Nat /\ Len(v) <= MaxRequests
      /\ \A j, k \in 1..Len(v) : j <= k => v[j] <= v[k]
      /\ \A k \in 1..Len(v) : v[k] <= clock
      /\ MaxRequests \in Nat /\ MaxRequests >= 1 /\ Window \in Nat
  BY LimiterAssumption DEF QuotaInv, WindowOK
<1>2. /\ Full(w) /\ hits' = With(hits, i, w)
      /\ promised' = [promised EXCEPT ![i] =
            IF @ = None THEN <<clock, clock + RetryAfter(w, clock) * Second>> ELSE @]
  BY DEF Refuse
<1>3. w = SubSeq(v, Expired(v, clock - Window) + 1, Len(v))
  BY DEF Live, WindowOf
<1>4. Expired(v, clock - Window) \in 0..Len(v)
  BY <1>1, ExpiredIsPrefix
<1> HIDE DEF v, w
<1>5. Len(v) = MaxRequests /\ Expired(v, clock - Window) = 0 /\ w = v
  <2>1. Len(w) = Len(v) - Expired(v, clock - Window)
    BY <1>1, <1>3, <1>4
  <2>2. Len(w) >= MaxRequests
    BY <1>2 DEF Full
  <2>3. Len(v) = MaxRequests /\ Expired(v, clock - Window) = 0
    BY <1>1, <1>4, <2>1, <2>2
  <2> QED
    BY <1>1, <1>3, <2>3
<1>6. v[1] > clock - Window /\ v[1] <= clock /\ v[1] \in Nat
  BY <1>1, <1>5, OldestFirst
<1>7. PromiseOK(v, <<clock, clock + RetryAfter(v, clock) * Second>>)
  <2> DEFINE t == Window - (clock - v[1])
             q == (t + Second - 1) \div Second
  <2>1. t \in Nat /\ t >= 1 /\ clock + t = v[1] + Window
    BY <1>1, <1>6
  <2>2. q \in Int /\ q >= 1 /\ t <= q * Second /\ q * Second - Second < t
    BY <2>1, RoundedUp
  <2>3. RetryAfter(v, clock) = q
    <3>1. Head(v) = v[1]
      BY <1>1, <1>5
    <3>2. RetryAfter(v, clock) = IF q < 1 THEN 1 ELSE q
      BY <3>1 DEF RetryAfter
    <3> QED
      BY <2>2, <3>2
  <2> HIDE DEF t, q
  <2> DEFINE e == q * Second
  <2>4. e \in Int /\ Second \in Nat
    BY <2>2, LimiterAssumption
  <2>5. t <= e /\ e - Second < t
    BY <2>2
  <2> HIDE DEF e
  <2>6. clock + e \in Int /\ v[1] + Window <= clock + e /\ (clock + e) - Second < v[1] + Window
    BY <1>1, <1>6, <2>1, <2>4, <2>5
  <2>7. RetryAfter(v, clock) * Second = e
    BY <2>3 DEF e
  <2> QED
    BY <1>1, <1>5, <2>6, <2>7 DEF PromiseOK
<1>8. ASSUME NEW j \in Identities, promised'[j] # None
      PROVE  j \in DOMAIN hits' /\ PromiseOK(hits'[j], promised'[j])
  <2>1. CASE j = i
    <3>1. j \in DOMAIN hits' /\ hits'[j] = v
      BY <1>2, <1>5, <2>1 DEF With
    <3>2. CASE promised[i] = None
      <4>1. promised'[j] = <<clock, clock + RetryAfter(v, clock) * Second>>
        BY <1>2, <1>5, <2>1, <3>2 DEF PromiseInv
      <4> QED
        BY <1>7, <3>1, <4>1
    <3>3. CASE promised[i] # None
      <4>1. promised'[j] = promised[i] /\ v = hits[i] /\ PromiseOK(hits[i], promised[i])
        BY <1>2, <2>1, <3>3 DEF PromiseInv, v, WindowOf
      <4> QED
        BY <3>1, <4>1
    <3> QED
      BY <3>2, <3>3
  <2>2. CASE j # i
    <3>1. promised'[j] = promised[j] /\ j \in DOMAIN hits /\ PromiseOK(hits[j], promised[j])
      BY <1>2, <1>8, <2>2 DEF PromiseInv
    <3>2. j \in DOMAIN hits' /\ hits'[j] = hits[j]
      BY <1>2, <2>2, <3>1 DEF With
    <3> QED
      BY <3>1, <3>2
  <2> QED
    BY <2>1, <2>2
<1>9. DOMAIN promised' = Identities
  BY <1>2 DEF PromiseInv
<1> QED
  BY <1>8, <1>9 DEF PromiseInv

\* An admission ends the promise made to the identity and leaves the others'.
LEMMA AdmitKeepsPromise ==
    ASSUME PromiseInv, NEW i \in Identities, Admit(i)
    PROVE  PromiseInv'
<1> DEFINE h == With(hits, i, Append(Live(hits, i, clock), clock))
           K == DOMAIN h \cap Tracked(Warm(Touched(i)))
<1>1. /\ hits' = [j \in K |-> h[j]]
      /\ promised' = [j \in Identities |-> IF j = i \/ j \notin K THEN None ELSE promised[j]]
  BY DEF Admit
<1>2. \A j \in DOMAIN h : j # i => j \in DOMAIN hits /\ h[j] = hits[j]
  BY DEF With
<1>3. K \subseteq DOMAIN h
  OBVIOUS
<1> HIDE DEF h, K
<1>4. ASSUME NEW j \in Identities, promised'[j] # None
      PROVE  j \in DOMAIN hits' /\ PromiseOK(hits'[j], promised'[j])
  <2>1. j # i /\ j \in K /\ promised'[j] = promised[j]
    BY <1>1, <1>4
  <2>2. j \in DOMAIN hits' /\ hits'[j] = hits[j]
    BY <1>1, <1>2, <1>3, <2>1
  <2> QED
    BY <1>4, <2>1, <2>2 DEF PromiseInv
<1> QED
  BY <1>1, <1>4 DEF PromiseInv

LEMMA InitPromise == Init => PromiseInv
BY DEF Init, LimiterInit, PromiseInv

LEMMA NextKeepsPromise == QuotaInv /\ PromiseInv /\ [Next]_vars => PromiseInv'
<1> SUFFICES ASSUME QuotaInv, PromiseInv, [Next]_vars PROVE PromiseInv'
  OBVIOUS
<1>1. CASE Tick \/ UNCHANGED limiter
  <2>1. hits' = hits /\ promised' = promised
    BY <1>1 DEF Tick, limiter
  <2> QED
    BY <2>1 DEF PromiseInv
<1> QED
  BY <1>1, LimiterSteps, RefuseKeepsPromise, AdmitKeepsPromise

\* Until the moment of a Retry-After, but for the second it is rounded up by, the
\* identity is refused, and from then on it is admitted, however often it retries
\* (SlidingWindowRateLimiter.check).
THEOREM RetryAfterIsKept == Spec => []RetryAfterIsExact
<1>1. Init => QuotaInv /\ PromiseInv
  BY InitQuota, InitPromise
<1>2. QuotaInv /\ PromiseInv /\ [Next]_vars => (QuotaInv /\ PromiseInv)'
  BY NextKeepsQuota, NextKeepsPromise
<1>3. QuotaInv /\ PromiseInv => RetryAfterIsExact
  <2> SUFFICES ASSUME QuotaInv, PromiseInv, NEW i \in Identities, promised[i] # None
               PROVE  /\ clock >= promised[i][2] => ~ Full(Live(hits, i, clock))
                      /\ clock <= promised[i][2] - Second => Full(Live(hits, i, clock))
    BY DEF RetryAfterIsExact
  <2> DEFINE w == hits[i]
             end == promised[i][2]
  <2>1. /\ i \in DOMAIN hits /\ w \in Seq(Nat) /\ Len(w) = MaxRequests
        /\ end \in Int /\ w[1] + Window <= end /\ end - Second < w[1] + Window
    BY DEF PromiseInv, PromiseOK
  <2>2. clock \in Nat /\ \A j, k \in 1..Len(w) : j <= k => w[j] <= w[k]
    BY <2>1 DEF QuotaInv, WindowOK, WindowOf
  <2>3. Live(hits, i, clock) = SubSeq(w, Expired(w, clock - Window) + 1, Len(w))
    BY <2>1 DEF Live
  <2> HIDE DEF w, end
  <2>4. clock - Window \in Int /\ Window \in Nat /\ Second \in Nat /\ w[1] \in Nat
    BY <2>1, <2>2, LimiterAssumption
  <2>5. Full(Live(hits, i, clock)) <=> w[1] > clock - Window
    BY <2>1, <2>2, <2>3, <2>4, FullWhileOldestLives
  <2>6. clock >= end => ~ (w[1] > clock - Window)
    BY <2>1, <2>2, <2>4
  <2>7. clock <= end - Second => w[1] > clock - Window
    BY <2>1, <2>2, <2>4
  <2> QED
    BY <2>5, <2>6, <2>7 DEF end
<1> QED
  BY <1>1, <1>2, <1>3, PTL DEF Spec

-----------------------------------------------------------------------------
Starting == {"checks", "providers", "discovery", "database", "agents", "publish"}

LifespanInv ==
    /\ phase \in Starting \cup {"serving", "stopping", "closing", "ended"}
    /\ worker \in {"none", "polling", "cancelling", "stopped"}
    /\ phase \in Starting => worker = "none" /\ ~ running
    /\ phase = "serving" => worker \in {"none", "polling"}
    /\ running => worker \in {"polling", "cancelling"} /\ phase \in {"serving", "stopping"}
    /\ phase = "stopping" => worker # "stopped"
    /\ phase \in {"closing", "ended"} => worker \in {"none", "stopped"}
    /\ created # held => phase \in {"closing", "ended"}
    /\ phase \in {"checks", "providers"} => created = {} /\ held = {}
    /\ phase = "ended" /\ ~ leaky => held = {}

LEMMA InitLifespan == Init => LifespanInv
BY DEF Init, LifespanInv, Starting

\* The start: nothing is closed and no worker runs before everything is published.
LEMMA StartKeepsLifespan ==
    LifespanInv /\ (Check \/ Providers \/ Discover \/ Database \/ Agents \/ Publish)
        => LifespanInv'
<1> SUFFICES ASSUME LifespanInv,
                    Check \/ Providers \/ Discover \/ Database \/ Agents \/ Publish
             PROVE  LifespanInv'
  OBVIOUS
<1>1. CASE Check
  BY <1>1 DEF Check, LifespanInv, Starting
<1>2. CASE Providers
  <2>1. /\ phase = "providers" /\ worker' = worker /\ running' = running
        /\ held' = created'
        /\ \/ phase' = "discovery"
           \/ phase' = "ended" /\ leaky' = TRUE
    <3> DEFINE wanted == <<"embedding">> \o (IF settings.reranker THEN <<"reranker">> ELSE <<>>)
                                        \o <<"mcp">>
    <3>1. Len(wanted) \in Nat
      OBVIOUS
    <3> HIDE DEF wanted
    <3>2. PICK n \in 0..Len(wanted) :
            /\ created' = {wanted[k] : k \in 1..n} /\ held' = created'
            /\ phase' = IF n = Len(wanted) THEN "discovery" ELSE "ended"
            /\ leaky' = (n < Len(wanted))
      BY <1>2 DEF Providers, wanted
    <3>3. n = Len(wanted) \/ n < Len(wanted)
      BY <3>1
    <3> QED
      BY <1>2, <3>2, <3>3 DEF Providers
  <2> QED
    BY <2>1 DEF LifespanInv, Starting
<1>3. CASE Discover
  BY <1>3 DEF Discover, Stop, LifespanInv, Starting
<1>4. CASE Database
  BY <1>4 DEF Database, LifespanInv, Starting
<1>5. CASE Agents
  BY <1>5 DEF Agents, LifespanInv, Starting
<1>6. CASE Publish
  BY <1>6 DEF Publish, LifespanInv, Starting
<1> QED
  BY <1>1, <1>2, <1>3, <1>4, <1>5, <1>6

\* The worker, and the end: the execution is awaited before the first close.
LEMMA EndKeepsLifespan ==
    LifespanInv /\ (\/ Claim \/ RenewalRaises \/ OrphanEnds \/ Shutdown \/ StopWorker \/ Close
                   \/ Finish)
        => LifespanInv'
<1> SUFFICES ASSUME LifespanInv,
                    \/ Claim \/ RenewalRaises \/ OrphanEnds \/ Shutdown \/ StopWorker \/ Close
                    \/ Finish
             PROVE  LifespanInv'
  OBVIOUS
<1>1. CASE Claim
  BY <1>1 DEF Claim, LifespanInv, Starting
<1>2. CASE RenewalRaises
  BY <1>2 DEF RenewalRaises, LifespanInv, Starting
<1>3. CASE OrphanEnds
  BY <1>3 DEF OrphanEnds, LifespanInv, Starting
<1>4. CASE Shutdown
  BY <1>4 DEF Shutdown, Stop, LifespanInv, Starting
<1>5. CASE StopWorker
  BY <1>5 DEF StopWorker, LifespanInv, Starting
<1>6. CASE Close
  BY <1>6 DEF Close, LifespanInv, Starting
<1>7. CASE Finish
  BY <1>7 DEF Finish, LifespanInv, Starting
<1> QED
  BY <1>1, <1>2, <1>3, <1>4, <1>5, <1>6, <1>7

LEMMA NextKeepsLifespan == LifespanInv /\ [Next]_vars => LifespanInv'
<1> SUFFICES ASSUME LifespanInv, [Next]_vars PROVE LifespanInv'
  OBVIOUS
<1>1. CASE UNCHANGED service
  BY <1>1 DEF service, LifespanInv
<1>2. CASE \E i \in Identities : PlainRequest(i)
  BY <1>1, <1>2 DEF PlainRequest
<1>3. CASE \E c \in Callers, i \in Identities, authorized \in BOOLEAN : Decide(c, i, authorized)
  BY <1>1, <1>3 DEF Decide
<1>4. CASE \E c \in Callers : Count(c) \/ Refresh(c) \/ CountFails(c)
  BY <1>1, <1>4 DEF Count, Refresh, CountFails
<1>5. CASE UNCHANGED vars
  BY <1>1, <1>5 DEF vars
<1> QED
  BY <1>1, <1>2, <1>3, <1>4, <1>5, StartKeepsLifespan, EndKeepsLifespan DEF Next

\* No execution but one the worker itself had left behind outlives the resources it
\* uses, and a process that ends has closed all of them unless a constructor before
\* the try or a close raised (lifespan of app/api/main.py, DiagnosisRunWorker.stop).
THEOREM ProcessEndsInOrder == Spec => []ClosedInOrder
<1>1. Init => LifespanInv
  BY InitLifespan
<1>2. LifespanInv /\ [Next]_vars => LifespanInv'
  BY NextKeepsLifespan
<1>3. LifespanInv => ClosedInOrder
  BY DEF LifespanInv, ClosedInOrder, Starting
<1> QED
  BY <1>1, <1>2, <1>3, PTL DEF Spec
-----------------------------------------------------------------------------
\* A counted request lacks only excused changes; what is not published is excused or a
\* decision under way made it.
CountedWell(c) ==
    /\ request[c].change \in Nat /\ request[c].seen \in Nat
    /\ request[c].stage = "decided" => request[c].change # 0
    /\ request[c].stage = "counted" =>
          /\ request[c].change <= request[c].seen
          /\ \A n \in (request[c].seen + 1)..memory : n \in excused

Made(n) == \E c \in Callers : request[c].change = n

CountsInv ==
    /\ request \in [Callers -> [stage : {"idle", "decided", "counted"}, change : Nat, seen : Nat]]
    /\ memory \in Nat /\ counts \in Nat
    /\ \A c \in Callers : request[c].change <= memory /\ CountedWell(c)
    /\ \A n \in (counts + 1)..memory : n \in excused \/ Made(n)

LEMMA InitCounts == Init => CountsInv
<1> SUFFICES ASSUME Init PROVE CountsInv
  OBVIOUS
<1>1. /\ request = [c \in Callers |-> [stage |-> "idle", change |-> 0, seen |-> 0]]
      /\ memory = 0 /\ counts = 0
  BY DEF Init, Idle
<1>2. \A c \in Callers : request[c].change <= memory /\ CountedWell(c)
  BY <1>1 DEF CountedWell
<1>3. (counts + 1)..memory = {}
  BY <1>1
<1> QED
  BY <1>1, <1>2, <1>3 DEF CountsInv

\* One request changes, the rest with the memory stay: nothing that is excused is lost.
LEMMA RequestChanges ==
    ASSUME CountsInv, NEW c \in Callers,
           NEW r \in [stage : {"idle", "decided", "counted"}, change : Nat, seen : Nat],
           request' = [request EXCEPT ![c] = r], memory' = memory,
           excused \subseteq excused', CountedWell(c)', r.change <= memory
    PROVE  /\ request' \in [Callers -> [stage : {"idle", "decided", "counted"},
                                        change : Nat, seen : Nat]]
           /\ \A d \in Callers : request'[d].change <= memory' /\ CountedWell(d)'
           /\ \A d \in Callers \ {c} : request'[d] = request[d]
           /\ request'[c] = r
<1>1. /\ request \in [Callers -> [stage : {"idle", "decided", "counted"}, change : Nat, seen : Nat]]
      /\ \A d \in Callers : request[d].change <= memory /\ CountedWell(d)
  BY DEF CountsInv
<1>2. request'[c] = r /\ \A d \in Callers \ {c} : request'[d] = request[d]
  BY <1>1
<1>3. ASSUME NEW d \in Callers PROVE request'[d].change <= memory' /\ CountedWell(d)'
  <2>1. CASE d = c
    BY <1>2, <2>1
  <2>2. CASE d # c
    BY <1>1, <1>2, <2>2 DEF CountedWell
  <2> QED
    BY <2>1, <2>2
<1> QED
  BY <1>1, <1>2, <1>3

\* The commit of a decision: a request counted before lacks the new change, which is then
\* excused, as that request is still under way.
LEMMA DecideKeepsCounts ==
    ASSUME CountsInv, NEW c \in Callers, NEW i \in Identities, NEW authorized \in BOOLEAN,
           Decide(c, i, authorized)
    PROVE  CountsInv'
<1> DEFINE r == [stage |-> "decided", change |-> memory', seen |-> 0]
<1>1. /\ request \in [Callers -> [stage : {"idle", "decided", "counted"}, change : Nat, seen : Nat]]
      /\ memory \in Nat /\ counts \in Nat
      /\ \A d \in Callers : request[d].change <= memory /\ CountedWell(d)
      /\ \A n \in (counts + 1)..memory : n \in excused \/ Made(n)
  BY DEF CountsInv
<1>2. /\ request[c] = Idle /\ memory' = memory + 1 /\ counts' = counts
      /\ request' = [request EXCEPT ![c] = r]
      /\ excused' = IF UnderWay THEN excused \cup {memory'} ELSE excused
  BY DEF Decide
<1>3. memory' \in Nat /\ memory' # 0
  BY <1>1, <1>2
<1>4. r \in [stage : {"idle", "decided", "counted"}, change : Nat, seen : Nat]
  BY <1>3
<1>5. /\ request' \in [Callers -> [stage : {"idle", "decided", "counted"}, change : Nat, seen : Nat]]
      /\ request'[c] = r /\ \A d \in Callers \ {c} : request'[d] = request[d]
  BY <1>1, <1>2, <1>4
<1>6. ASSUME NEW d \in Callers PROVE request'[d].change <= memory' /\ CountedWell(d)'
  <2>1. CASE d = c
    BY <1>3, <1>5, <2>1 DEF CountedWell
  <2>2. CASE d # c
    <3>1. /\ request'[d] = request[d] /\ request[d].change <= memory /\ CountedWell(d)
          /\ request[d].change \in Nat /\ request[d].seen \in Nat
      BY <1>1, <1>5, <2>2 DEF CountedWell
    <3>2. request'[d].change <= memory'
      BY <1>1, <1>2, <3>1
    <3>3. ASSUME request[d].stage = "counted", NEW n \in (request[d].seen + 1)..memory'
          PROVE  n \in excused'
      <4>1. UnderWay
        BY <3>3 DEF UnderWay, Idle
      <4>2. n \in (request[d].seen + 1)..memory \/ n = memory'
        BY <1>1, <1>2, <3>1
      <4> QED
        BY <1>2, <3>1, <3>3, <4>1, <4>2 DEF CountedWell
    <3> QED
      BY <3>1, <3>2, <3>3 DEF CountedWell
  <2> QED
    BY <2>1, <2>2
<1>7. ASSUME NEW n \in (counts' + 1)..memory' PROVE n \in excused' \/ Made(n)'
  <2>1. CASE n = memory'
    BY <1>5, <2>1 DEF Made
  <2>2. CASE n # memory'
    <3>1. n \in (counts + 1)..memory /\ n # 0
      BY <1>1, <1>2, <2>2
    <3>2. CASE n \in excused
      BY <1>2, <3>2
    <3>3. CASE Made(n)
      <4>1. PICK d \in Callers : request[d].change = n
        BY <3>3 DEF Made
      <4>2. d # c
        BY <1>2, <3>1, <4>1 DEF Idle
      <4> QED
        BY <1>5, <4>1, <4>2 DEF Made
    <3> QED
      BY <1>1, <3>1, <3>2, <3>3
  <2> QED
    BY <2>1, <2>2
<1> QED
  BY <1>1, <1>2, <1>3, <1>5, <1>6, <1>7 DEF CountsInv

\* What was counted is as new as the own change of the decision, or newer.
LEMMA CountKeepsCounts ==
    ASSUME CountsInv, NEW c \in Callers, Count(c)
    PROVE  CountsInv'
<1> DEFINE r == [stage |-> "counted", change |-> request[c].change, seen |-> memory]
<1>1. /\ request \in [Callers -> [stage : {"idle", "decided", "counted"}, change : Nat, seen : Nat]]
      /\ memory \in Nat /\ counts \in Nat /\ request[c].change <= memory
      /\ \A n \in (counts + 1)..memory : n \in excused \/ Made(n)
  BY DEF CountsInv
<1>2. /\ memory' = memory /\ counts' = counts /\ excused' = excused
      /\ request' = [request EXCEPT ![c] = r]
  BY DEF Count
<1>3. r \in [stage : {"idle", "decided", "counted"}, change : Nat, seen : Nat]
  BY <1>1
<1>4. CountedWell(c)'
  <2>1. request'[c] = r /\ (memory + 1)..memory = {}
    BY <1>1, <1>2
  <2> QED
    BY <1>1, <1>2, <2>1 DEF CountedWell
<1>5. /\ request' \in [Callers -> [stage : {"idle", "decided", "counted"}, change : Nat, seen : Nat]]
      /\ \A d \in Callers : request'[d].change <= memory' /\ CountedWell(d)'
      /\ \A d \in Callers \ {c} : request'[d] = request[d]
      /\ request'[c] = r
  BY <1>1, <1>2, <1>3, <1>4, RequestChanges
<1>6. \A d \in Callers : request'[d].change = request[d].change
  BY <1>5
<1>7. ASSUME NEW n \in (counts' + 1)..memory' PROVE n \in excused' \/ Made(n)'
  BY <1>1, <1>2, <1>6 DEF Made
<1> QED
  BY <1>1, <1>2, <1>5, <1>7 DEF CountsInv

\* What is published lacks only excused changes, whatever was published before.
LEMMA RefreshKeepsCounts ==
    ASSUME CountsInv, NEW c \in Callers, Refresh(c)
    PROVE  CountsInv'
<1>1. /\ request \in [Callers -> [stage : {"idle", "decided", "counted"}, change : Nat, seen : Nat]]
      /\ memory \in Nat /\ CountedWell(c) /\ request[c].stage = "counted"
  BY DEF CountsInv, Refresh
<1>2. /\ memory' = memory /\ counts' = request[c].seen /\ excused' = excused
      /\ request' = [request EXCEPT ![c] = Idle]
  BY DEF Refresh
<1>3. /\ Idle \in [stage : {"idle", "decided", "counted"}, change : Nat, seen : Nat]
      /\ Idle.change <= memory
  BY <1>1 DEF Idle
<1>4. CountedWell(c)'
  BY <1>1, <1>2 DEF CountedWell, Idle
<1>5. /\ request' \in [Callers -> [stage : {"idle", "decided", "counted"}, change : Nat, seen : Nat]]
      /\ \A d \in Callers : request'[d].change <= memory' /\ CountedWell(d)'
  BY <1>1, <1>2, <1>3, <1>4, RequestChanges
<1>6. counts' \in Nat /\ \A n \in (counts' + 1)..memory' : n \in excused'
  BY <1>1, <1>2 DEF CountedWell
<1> QED
  BY <1>1, <1>2, <1>5, <1>6 DEF CountsInv

\* A decision whose count fails leaves its change to the next one.
LEMMA FailureKeepsCounts ==
    ASSUME CountsInv, NEW c \in Callers, CountFails(c)
    PROVE  CountsInv'
<1>1. /\ request \in [Callers -> [stage : {"idle", "decided", "counted"}, change : Nat, seen : Nat]]
      /\ memory \in Nat /\ counts \in Nat
      /\ \A n \in (counts + 1)..memory : n \in excused \/ Made(n)
  BY DEF CountsInv
<1>2. /\ memory' = memory /\ counts' = counts /\ excused' = excused \cup {request[c].change}
      /\ request' = [request EXCEPT ![c] = Idle]
  BY DEF CountFails
<1>3. /\ Idle \in [stage : {"idle", "decided", "counted"}, change : Nat, seen : Nat]
      /\ Idle.change <= memory
  BY <1>1 DEF Idle
<1>4. CountedWell(c)'
  BY <1>1, <1>2 DEF CountedWell, Idle
<1>5. /\ request' \in [Callers -> [stage : {"idle", "decided", "counted"}, change : Nat, seen : Nat]]
      /\ \A d \in Callers : request'[d].change <= memory' /\ CountedWell(d)'
      /\ \A d \in Callers \ {c} : request'[d] = request[d]
  BY <1>1, <1>2, <1>3, <1>4, RequestChanges
<1>6. ASSUME NEW n \in (counts' + 1)..memory' PROVE n \in excused' \/ Made(n)'
  BY <1>1, <1>2, <1>5 DEF Made
<1> QED
  BY <1>1, <1>2, <1>5, <1>6 DEF CountsInv

\* A run that stages a case excuses the change; one that stages none changes nothing.
LEMMA StagingKeepsCounts ==
    ASSUME CountsInv, MayStage
    PROVE  CountsInv'
<1>1. CASE UNCHANGED memories
  BY <1>1 DEF memories, CountsInv, CountedWell, Made
<1>2. CASE Stages
  <2>1. /\ memory' = memory + 1 /\ excused' = excused \cup {memory'}
        /\ request' = request /\ counts' = counts
    BY <1>2 DEF Stages
  <2>2. memory \in Nat /\ counts \in Nat /\ memory' \in Nat
    BY <2>1 DEF CountsInv
  <2>3. ASSUME NEW c \in Callers PROVE request'[c].change <= memory' /\ CountedWell(c)'
    <3>1. /\ request[c].change \in Nat /\ request[c].seen \in Nat
          /\ request[c].change <= memory /\ CountedWell(c)
      BY DEF CountsInv, CountedWell
    <3>2. \A n \in (request[c].seen + 1)..memory' :
             n \in (request[c].seen + 1)..memory \/ n = memory'
      BY <2>1, <2>2, <3>1
    <3>3. request'[c].change <= memory'
      BY <2>1, <2>2, <3>1
    <3> QED
      BY <2>1, <3>1, <3>2, <3>3 DEF CountedWell
  <2>4. \A n \in (counts' + 1)..memory' : n \in (counts + 1)..memory \/ n = memory'
    BY <2>1, <2>2
  <2>5. \A n \in (counts' + 1)..memory' : n \in excused' \/ Made(n)'
    BY <2>1, <2>4 DEF CountsInv, Made
  <2> QED
    BY <2>1, <2>2, <2>3, <2>5 DEF CountsInv
<1> QED
  BY <1>1, <1>2 DEF MayStage

\* All other steps leave the memories alone, or read the counts anew.
LEMMA NextKeepsCounts == CountsInv /\ [Next]_vars => CountsInv'
<1> SUFFICES ASSUME CountsInv, [Next]_vars PROVE CountsInv'
  OBVIOUS
<1>1. CASE UNCHANGED memories
  BY <1>1, StagingKeepsCounts DEF MayStage
<1>2. CASE Database
  <2>1. /\ request' = request /\ memory' = memory /\ excused' = excused
        /\ counts' = memory \/ counts' = counts
    BY <1>2 DEF Database
  <2>2. CASE counts' = counts
    BY <1>1, <2>1, <2>2 DEF memories
  <2>3. CASE counts' = memory
    <3>1. memory \in Nat /\ (counts' + 1)..memory' = {}
      BY <2>1, <2>3 DEF CountsInv
    <3> QED
      BY <2>1, <2>3, <3>1 DEF CountsInv, CountedWell
  <2> QED
    BY <2>1, <2>2, <2>3
<1>3. CASE Finish \/ OrphanEnds
  BY <1>3, StagingKeepsCounts DEF Finish, OrphanEnds
<1>4. CASE \E c \in Callers, i \in Identities, authorized \in BOOLEAN : Decide(c, i, authorized)
  BY <1>4, DecideKeepsCounts
<1>5. CASE \E c \in Callers : Count(c) \/ Refresh(c) \/ CountFails(c)
  BY <1>5, CountKeepsCounts, RefreshKeepsCounts, FailureKeepsCounts
<1>6. CASE \/ Check \/ Providers \/ Discover \/ Agents \/ Publish
           \/ Claim \/ RenewalRaises \/ Shutdown \/ StopWorker \/ Close
  BY <1>1, <1>6 DEF Check, Providers, Discover, Agents, Publish, Claim, RenewalRaises,
                    Shutdown, StopWorker, Close
<1>7. CASE \E i \in Identities : PlainRequest(i)
  BY <1>1, <1>7 DEF PlainRequest
<1>8. CASE UNCHANGED vars
  BY <1>1, <1>8 DEF vars
<1> QED
  BY <1>1, <1>2, <1>3, <1>4, <1>5, <1>6, <1>7, <1>8 DEF Next

\* Every change the counts of /health do not show was made by a decision still to be
\* answered, staged by a run, lost its count, or overlapped an earlier decision
\* (decide_memory of app/api/main.py).
THEOREM CountsAreCurrent == Spec => []StaleCountsHaveCause
<1>1. Init => CountsInv
  BY InitCounts
<1>2. CountsInv /\ [Next]_vars => CountsInv'
  BY NextKeepsCounts
<1>3. CountsInv => StaleCountsHaveCause
  BY DEF CountsInv, Made, StaleCountsHaveCause
<1> QED
  BY <1>1, <1>2, <1>3, PTL DEF Spec
=============================================================================
