--------------------------- MODULE RateLimiter ---------------------------
(***************************************************************************)
(* SlidingWindowRateLimiter of app/api/security.py: the requests each      *)
(* identity made in the last Window, in a table of at most MaxTracked      *)
(* identities ordered from the one heard from longest ago (coldest) to the *)
(* last (OrderedDict).  Time is the monotonic clock in ticks; a Retry-After*)
(* is a whole number of seconds of Second ticks each.                      *)
(*                                                                         *)
(* granted and promised are history: the last MaxRequests + 1 admissions of*)
(* an identity since the table last forgot it, and the first Retry-After it*)
(* was given since its last admission.                                     *)
(***************************************************************************)
EXTENDS Integers, Sequences, FiniteSets, Selections

CONSTANTS Identities, MaxRequests, Window, MaxTracked, Second,
          None        \* no promise is open

ASSUME LimiterAssumption ==
    /\ MaxRequests \in Nat \ {0} /\ Window \in Nat \ {0}
    /\ MaxTracked \in Nat \ {0} /\ Second \in Nat \ {0}
    /\ None \notin Nat \X Nat

VARIABLES clock, hits, order, granted, promised

limiter == <<clock, hits, order, granted, promised>>

LimiterInit ==
    /\ clock = 0
    /\ hits = [i \in {} |-> <<>>]
    /\ order = <<>>
    /\ granted = [i \in Identities |-> <<>>]
    /\ promised = [i \in Identities |-> None]

\* Mutant of Expired: an entry leaves the window a tick early.
ExpiredEarly(w, boundary) == Cardinality({k \in 1..Len(w) : w[k] <= boundary + 1})

\* How many entries the boundary has passed: a deque is in the order of time, so
\* they are the ones at its left end, which the loop pops.
Expired(w, boundary) == Cardinality({k \in 1..Len(w) : w[k] <= boundary})

\* The entries of an identity's deque the loop of check leaves in it.
Live(h, i, now) ==
    LET w == IF i \in DOMAIN h THEN h[i] ELSE <<>>
    IN  SubSeq(w, Expired(w, now - Window) + 1, Len(w))

Full(w) == Len(w) >= MaxRequests

\* max(1, ceil(seconds until the oldest entry leaves the window)).
RetryAfter(w, now) ==
    LET ticks   == Window - (now - Head(w))
        seconds == (ticks + Second - 1) \div Second
    IN  IF seconds < 1 THEN 1 ELSE seconds

\* setdefault followed by move_to_end.
Touched(i) == Append(Selected(order, {k \in 1..Len(order) : order[k] # i}), i)

\* Mutant of Warm: one identity too many stays.
WarmAndOneMore(o) ==
    SubSeq(o, (IF Len(o) > MaxTracked + 1 THEN Len(o) - MaxTracked - 1 ELSE 0) + 1, Len(o))

\* _evict_cold_identities: what popitem(last=False) leaves of the table.
Warm(o) == SubSeq(o, (IF Len(o) > MaxTracked THEN Len(o) - MaxTracked ELSE 0) + 1, Len(o))

Tracked(o) == {o[k] : k \in 1..Len(o)}

With(h, i, w) == [j \in DOMAIN h \cup {i} |-> IF j = i THEN w ELSE h[j]]

\* The last n entries of a sequence, for the history.
LastOf(s, n) == SubSeq(s, (IF Len(s) > n THEN Len(s) - n ELSE 0) + 1, Len(s))

\* Mutant of Refuse: a refused request is recorded too.
RefuseAndRecord(i) ==
    LET w == Live(hits, i, clock)
    IN  /\ Full(w)
        /\ hits' = With(hits, i, Append(w, clock))
        /\ order' = Touched(i)
        /\ promised' = [promised EXCEPT ![i] =
                IF @ = None THEN <<clock, clock + RetryAfter(w, clock) * Second>> ELSE @]
        /\ UNCHANGED <<clock, granted>>

\* check() finds the window full: nothing is appended and nobody is evicted.
Refuse(i) ==
    LET w == Live(hits, i, clock)
    IN  /\ Full(w)
        /\ hits' = With(hits, i, w)
        /\ order' = Touched(i)
        /\ promised' = [promised EXCEPT ![i] =
                IF @ = None THEN <<clock, clock + RetryAfter(w, clock) * Second>> ELSE @]
        /\ UNCHANGED <<clock, granted>>

\* check() admits: the request is recorded, then cold identities are dropped.
Admit(i) ==
    LET w == Live(hits, i, clock)
        o == Warm(Touched(i))
        h == With(hits, i, Append(w, clock))
        kept == [j \in DOMAIN h \cap Tracked(o) |-> h[j]]
    IN  /\ ~ Full(w)
        /\ hits' = kept
        /\ order' = o
        /\ granted' = [j \in Identities |->
                IF j \notin DOMAIN kept THEN <<>>
                ELSE IF j = i THEN LastOf(Append(granted[i], clock), MaxRequests + 1)
                ELSE granted[j]]
        /\ promised' = [j \in Identities |->
                IF j = i \/ j \notin DOMAIN kept THEN None ELSE promised[j]]
        /\ UNCHANGED clock

Tick == clock' = clock + 1 /\ UNCHANGED <<hits, order, granted, promised>>

-----------------------------------------------------------------------------
\* The table and its order name the same identities, at most MaxTracked of
\* them, and no deque holds more than MaxRequests entries, all of the past and
\* in order: what an identity costs in memory is bounded.
TableIsBounded ==
    /\ DOMAIN hits = Tracked(order) /\ Len(order) = Cardinality(DOMAIN hits)
    /\ Len(order) <= MaxTracked
    /\ \A i \in DOMAIN hits : Len(hits[i]) <= MaxRequests

\* No identity the table still remembers was admitted more than MaxRequests
\* times within any stretch of Window, wherever that stretch begins: the first
\* and the last of MaxRequests + 1 consecutive admissions are Window apart.
QuotaHolds ==
    \A i \in Identities :
        LET g == granted[i]
        IN  Len(g) = MaxRequests + 1 => g[Len(g)] - g[1] >= Window

\* A Retry-After is neither short nor long: from the moment it names on the
\* identity would be admitted, however often it retried in vain before, and a
\* second or more before that moment it would still be refused -- unless it was
\* admitted, or forgotten, in between.
RetryAfterIsExact ==
    \A i \in Identities : promised[i] # None =>
        /\ clock >= promised[i][2] => ~ Full(Live(hits, i, clock))
        /\ clock <= promised[i][2] - Second => Full(Live(hits, i, clock))
=============================================================================
