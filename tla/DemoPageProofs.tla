--------------------------- MODULE DemoPageProofs ---------------------------
(***************************************************************************)
(* Theorems about the stream of a run and about the page that follows it:  *)
(* whatever connections drop, the events arrive once, in order, and all of *)
(* them before the frame that says the run has ended; and the timeline the *)
(* page shows of them, which refreshes replace while the stream appends to *)
(* it, shows none twice.  The first half is about Stream!Spec alone; the   *)
(* second shows that the page uses the stream as Stream!Spec allows.       *)
(***************************************************************************)
EXTENDS DemoPage, SequenceTheorems, TLAPS

(***************************************************************************)
(* Frames in a row: an event frame is one further than the position before *)
(* it, every other frame is where the position before it is.               *)
(***************************************************************************)
Advance(f) == IF f.kind = "run_event" THEN 1 ELSE 0
Position(w, base, i) == IF i = 0 THEN base ELSE w[i].cursor
Chained(w, base) ==
    \A i \in 1..Len(w) : w[i].cursor = Position(w, base, i - 1) + Advance(w[i])
Top(w, base) == Position(w, base, Len(w))

\* Events are written with the end of a run.
RowsOK == \A r \in Stream!RunIds : ~Stream!Terminal(row[r].status) => row[r].count = 0

\* Only an open EventSource has a connection, and it is one to its run; the id it
\* would reconnect with is the number of events it has delivered.
SourceOK ==
    /\ source.state # "open" => wire = <<>> /\ conn = Stream!Off
    /\ source.state # "none" =>
          /\ source.run \in Stream!RunIds
          /\ Stream!ResolveCursor(source.lastId) = Len(received)
          /\ Len(received) <= row[source.run].count
    /\ source.state = "none" => source.run = 0
    /\ conn.at # "off" => conn.run = source.run

\* What is on its way follows what was delivered, and no further than the run.
WireOK ==
    /\ Chained(wire, Len(received))
    /\ conn.at # "off" => conn.cursor = Top(wire, Len(received))
    /\ \A i \in 1..Len(wire) : wire[i].cursor <= row[source.run].count

\* A status read as terminal is the status of the run.
ReadOK ==
    (conn.at = "get_events" /\ Stream!Terminal(conn.read)) => row[conn.run].status = conn.read

\* The frame that ends a stream is the last, and says what the row says.
EndsOK ==
    \A i \in 1..Len(wire) : wire[i].kind = "stream_end" =>
        /\ i = Len(wire)
        /\ conn = Stream!Off
        /\ wire[i].reason # "stream_timeout" =>
              /\ row[source.run].status = wire[i].status /\ Stream!Terminal(wire[i].status)
              /\ wire[i].cursor = row[source.run].count

Numbered == \A i \in DOMAIN received : received[i] = i

StreamInv ==
    /\ Stream!TypeOK /\ RowsOK /\ SourceOK /\ WireOK /\ ReadOK /\ EndsOK /\ Numbered

(***************************************************************************)
(* Lemmas about sequences of frames                                        *)
(***************************************************************************)
\* What Append does, element by element.
LEMMA AppendedItem ==
    ASSUME NEW S, NEW s \in Seq(S), NEW e \in S
    PROVE  /\ Append(s, e) \in Seq(S)
           /\ Len(Append(s, e)) = Len(s) + 1
           /\ \A i \in 1..Len(s) : Append(s, e)[i] = s[i]
           /\ Append(s, e)[Len(s) + 1] = e
    BY AppendProperties

\* What a concatenation is, element by element.
LEMMA Joined ==
    ASSUME NEW S, NEW s \in Seq(S), NEW t \in Seq(S)
    PROVE  /\ s \o t \in Seq(S)
           /\ Len(s \o t) = Len(s) + Len(t)
           /\ \A i \in 1..Len(s) : (s \o t)[i] = s[i]
           /\ \A i \in 1..Len(t) : (s \o t)[Len(s) + i] = t[i]
<1>1. s \o t \in Seq(S) /\ Len(s \o t) = Len(s) + Len(t)
    BY ConcatProperties
<1>2. \A i \in 1..Len(s) + Len(t) :
          (s \o t)[i] = IF i <= Len(s) THEN s[i] ELSE t[i - Len(s)]
    BY ConcatProperties
<1>3. Len(s) \in Nat /\ Len(t) \in Nat
    BY LenProperties
<1> QED BY <1>1, <1>2, <1>3

\* What Tail leaves, element by element.
LEMMA Shifted ==
    ASSUME NEW S, NEW s \in Seq(S), s # <<>>
    PROVE  /\ Tail(s) \in Seq(S)
           /\ Len(Tail(s)) = Len(s) - 1
           /\ \A i \in 1..Len(s) - 1 : Tail(s)[i] = s[i + 1]
           /\ Head(s) = s[1] /\ Head(s) \in S /\ Len(s) \in Nat \ {0}
    BY HeadTailProperties, EmptySeq, LenProperties

\* A frame at the right position extends a chain.
LEMMA ChainAppend ==
    ASSUME NEW s \in Seq(Stream!Frames), NEW base \in Nat, NEW e \in Stream!Frames,
           Chained(s, base), e.cursor = Top(s, base) + Advance(e)
    PROVE  /\ Chained(Append(s, e), base)
           /\ Top(Append(s, e), base) = e.cursor
<1> DEFINE t == Append(s, e)
<1>1. /\ Len(t) = Len(s) + 1 /\ Len(s) \in Nat
      /\ \A i \in 1..Len(s) : t[i] = s[i]
      /\ t[Len(s) + 1] = e
    BY AppendedItem, LenProperties
<1>2. ASSUME NEW i \in 1..Len(t)
      PROVE  t[i].cursor = Position(t, base, i - 1) + Advance(t[i])
    <2>1. CASE i \in 1..Len(s)
        <3>1. t[i] = s[i] /\ Position(t, base, i - 1) = Position(s, base, i - 1)
            BY <1>1, <2>1 DEF Position
        <3> QED BY <2>1, <3>1 DEF Chained
    <2>2. CASE i = Len(s) + 1
        <3>1. t[i] = e /\ Position(t, base, i - 1) = Top(s, base)
            BY <1>1, <2>2 DEF Position, Top
        <3> QED BY <3>1
    <2> QED BY <1>1, <2>1, <2>2
<1>3. Top(t, base) = e.cursor
    BY <1>1 DEF Top, Position
<1> HIDE DEF t
<1>4. Chained(t, base)
    BY <1>2 DEF Chained
<1> QED BY <1>3, <1>4 DEF t

\* The events after the top of a chain extend it to the last of them.
LEMMA ChainEvents ==
    ASSUME NEW s \in Seq(Stream!Frames), NEW base \in Nat, NEW c \in Nat, NEW n \in Nat,
           Stream!NewEvents(c, n) \in Seq(Stream!Frames),
           Chained(s, base), c = Top(s, base)
    PROVE  /\ Chained(s \o Stream!NewEvents(c, n), base)
           /\ Top(s \o Stream!NewEvents(c, n), base) = Stream!Reached(c, n)
           /\ Len(s \o Stream!NewEvents(c, n)) \in Nat
           /\ \A i \in 1..Len(s) : (s \o Stream!NewEvents(c, n))[i] = s[i]
           /\ \A i \in 1..Len(s \o Stream!NewEvents(c, n)) :
                 \/ i \in 1..Len(s)
                 \/ /\ (s \o Stream!NewEvents(c, n))[i].kind = "run_event"
                    /\ (s \o Stream!NewEvents(c, n))[i].cursor <= n
<1> DEFINE e == Stream!NewEvents(c, n)
           t == s \o e
           k == IF n > c THEN n - c ELSE 0
<1>1. k \in Nat /\ Len(e) = k
    BY DEF Stream!NewEvents
<1>2. \A i \in 1..k : e[i] = Stream!Event(c + i, conn.read)
    BY DEF Stream!NewEvents
<1>3. /\ Len(t) = Len(s) + k /\ Len(s) \in Nat
      /\ \A i \in 1..Len(s) : t[i] = s[i]
      /\ \A i \in 1..k : t[Len(s) + i] = e[i]
    BY <1>1, Joined, LenProperties
<1> HIDE DEF t, e
<1>4. \A i \in 1..k : t[Len(s) + i].cursor = c + i /\ t[Len(s) + i].kind = "run_event"
    <2>1. ASSUME NEW i \in 1..k
          PROVE  t[Len(s) + i].cursor = c + i /\ t[Len(s) + i].kind = "run_event"
        <3>1. t[Len(s) + i] = e[i] /\ e[i] = Stream!Event(c + i, conn.read)
            BY <1>2, <1>3
        <3> QED BY <3>1 DEF Stream!Event
    <2> QED BY <2>1
<1>5. \A i \in 0..k : Position(t, base, Len(s) + i) = c + i
    <2>1. ASSUME NEW i \in 0..k PROVE Position(t, base, Len(s) + i) = c + i
        <3>1. CASE i = 0
            <4>1. Len(s) + i = Len(s) /\ (Len(s) # 0 => t[Len(s)] = s[Len(s)])
                BY <1>3, <3>1
            <4>2. Position(t, base, Len(s)) = Position(s, base, Len(s))
                BY <4>1 DEF Position
            <4> QED BY <3>1, <4>1, <4>2 DEF Top
        <3>2. CASE i \in 1..k
            BY <1>3, <1>4, <3>2 DEF Position
        <3> QED BY <1>1, <3>1, <3>2
    <2> QED BY <2>1
<1>6. ASSUME NEW i \in 1..Len(t)
      PROVE  t[i].cursor = Position(t, base, i - 1) + Advance(t[i])
    <2>1. CASE i \in 1..Len(s)
        <3>1. t[i] = s[i]
            BY <1>3, <2>1
        <3>2. i - 1 # 0 => i - 1 \in 1..Len(s)
            BY <1>3, <2>1
        <3>3. Position(t, base, i - 1) = Position(s, base, i - 1)
            BY <1>3, <3>2 DEF Position
        <3> QED BY <2>1, <3>1, <3>3 DEF Chained
    <2>2. CASE i \notin 1..Len(s)
        <3>1. PICK j \in 1..k : i = Len(s) + j
            <4>1. i - Len(s) \in 1..k /\ i = Len(s) + (i - Len(s))
                BY <1>1, <1>3, <2>2
            <4> QED BY <4>1
        <3>2. j - 1 \in 0..k /\ i - 1 = Len(s) + (j - 1)
            BY <1>1, <1>3, <3>1
        <3>3. Position(t, base, i - 1) = c + (j - 1)
            BY <1>5, <3>2
        <3>4. t[i].cursor = c + j /\ Advance(t[i]) = 1
            BY <1>4, <3>1 DEF Advance
        <3> QED BY <3>1, <3>3, <3>4
    <2> QED BY <2>1, <2>2
<1>7. Chained(t, base)
    BY <1>6 DEF Chained
<1>8. Top(t, base) = Stream!Reached(c, n)
    <2>1. Top(t, base) = c + k
        BY <1>1, <1>3, <1>5 DEF Top
    <2> QED BY <2>1 DEF Stream!Reached
<1>9. ASSUME NEW i \in 1..Len(t), i \notin 1..Len(s)
      PROVE  t[i].kind = "run_event" /\ t[i].cursor <= n
    <2>1. i - Len(s) \in 1..k /\ i = Len(s) + (i - Len(s))
        BY <1>1, <1>3, <1>9
    <2>2. t[i].kind = "run_event" /\ t[i].cursor = c + (i - Len(s))
        BY <1>4, <2>1
    <2> QED BY <2>1, <2>2, <1>3
<1>10. Len(t) \in Nat
    BY <1>1, <1>3
<1> QED BY <1>3, <1>7, <1>8, <1>9, <1>10 DEF t, e

(***************************************************************************)
(* The steps                                                               *)
(***************************************************************************)
\* The inductive invariant holds of the initial state.
LEMMA InitSound == ASSUME BoundsAssumption, Stream!Init PROVE StreamInv
<1>1. Stream!TypeOK
    BY DEF BoundsAssumption, Stream!Init, Stream!TypeOK, Stream!Off, Stream!NoSource,
           Stream!Statuses, Stream!RunIds, Stream!NoHeader
<1>2. RowsOK /\ SourceOK /\ Numbered
    BY DEF Stream!Init, RowsOK, SourceOK, Numbered, Stream!Off, Stream!NoSource
<1>3. Len(wire) = 0
    BY DEF Stream!Init
<1>4. WireOK /\ ReadOK /\ EndsOK
    BY <1>3 DEF Stream!Init, WireOK, ReadOK, EndsOK, Chained, Stream!Off
<1> QED BY <1>1, <1>2, <1>4 DEF StreamInv

\* What the types say of the parts.
LEMMA Typed ==
    ASSUME BoundsAssumption, StreamInv
    PROVE  /\ wire \in Seq(Stream!Frames) /\ Len(wire) \in Nat
           /\ \A i \in 1..Len(wire) : wire[i] \in Stream!Frames /\ wire[i].cursor \in Nat
           /\ received \in Seq(1..MaxEvents) /\ Len(received) \in Nat
           /\ \A r \in Stream!RunIds : /\ row[r].count \in 0..MaxEvents /\ row[r].count \in Nat
                               /\ row[r].status \in Stream!Statuses
           /\ conn.cursor \in 0..MaxEvents /\ conn.cursor \in Nat
           /\ conn.read \in Stream!Statuses
<1> USE DEF BoundsAssumption
<1>1. wire \in Seq(Stream!Frames) /\ received \in Seq(1..MaxEvents)
    BY DEF StreamInv, Stream!TypeOK
<1>2. Len(wire) \in Nat /\ Len(received) \in Nat
    BY <1>1, LenProperties
<1>3. \A i \in 1..Len(wire) : wire[i] \in Stream!Frames
    BY <1>1, ElementOfSeq
<1>4. \A f \in Stream!Frames : f.cursor \in Nat
    BY DEF Stream!Frames
<1>5. \A r \in Stream!RunIds : row[r] \in [status : Stream!Statuses, count : 0..MaxEvents]
    BY DEF StreamInv, Stream!TypeOK
<1>6. \A r \in Stream!RunIds : /\ row[r].count \in 0..MaxEvents /\ row[r].count \in Nat
                        /\ row[r].status \in Stream!Statuses
    BY <1>5
<1>7. conn \in [at : {"off", "get_run", "get_events"}, run : Stream!RunIds \cup {0},
                cursor : 0..MaxEvents, read : Stream!Statuses]
    BY DEF StreamInv, Stream!TypeOK
<1>8. conn.cursor \in 0..MaxEvents /\ conn.cursor \in Nat /\ conn.read \in Stream!Statuses
    BY <1>7
<1> QED BY <1>1, <1>2, <1>3, <1>4, <1>6, <1>8

\* The worker only lets counts grow, and leaves what has ended alone.
LEMMA RowGrows ==
    ASSUME BoundsAssumption, StreamInv, Stream!Worker
    PROVE  /\ row' \in [Stream!RunIds -> [status : Stream!Statuses, count : 0..MaxEvents]]
           /\ RowsOK'
           /\ \A r \in Stream!RunIds :
                 /\ row[r].count <= row'[r].count
                 /\ Stream!Terminal(row[r].status) => row'[r] = row[r]
<1> USE DEF BoundsAssumption
<1>1. /\ row \in [Stream!RunIds -> [status : Stream!Statuses, count : 0..MaxEvents]]
      /\ \A r \in Stream!RunIds : ~Stream!Terminal(row[r].status) => row[r].count = 0
    BY DEF StreamInv, Stream!TypeOK, RowsOK
<1>2. PICK r \in Stream!RunIds :
          \/ Stream!Create(r) \/ Stream!Start(r)
          \/ \E s \in Stream!TerminalStatuses, n \in 1..MaxEvents : Stream!End(r, s, n)
    BY DEF Stream!Worker
<1>3. PICK s \in Stream!Statuses, n \in 0..MaxEvents :
          /\ row' = [row EXCEPT ![r] = [status |-> s, count |-> n]]
          /\ ~Stream!Terminal(row[r].status)
          /\ ~Stream!Terminal(s) => n = 0
    <2>1. CASE Stream!Create(r)
        <3>1. "queued" \in Stream!Statuses /\ 0 \in 0..MaxEvents
            BY DEF Stream!Statuses
        <3> QED BY <2>1, <3>1 DEF Stream!Create, Stream!Terminal, Stream!TerminalStatuses
    <2>2. CASE Stream!Start(r)
        <3>1. "running" \in Stream!Statuses /\ 0 \in 0..MaxEvents
            BY DEF Stream!Statuses
        <3> QED BY <2>2, <3>1 DEF Stream!Start, Stream!Terminal, Stream!TerminalStatuses
    <2>3. ASSUME NEW s \in Stream!TerminalStatuses, NEW n \in 1..MaxEvents, Stream!End(r, s, n)
          PROVE  \E q \in Stream!Statuses, m \in 0..MaxEvents :
                    /\ row' = [row EXCEPT ![r] = [status |-> q, count |-> m]]
                    /\ ~Stream!Terminal(row[r].status)
                    /\ ~Stream!Terminal(q) => m = 0
        <3>1. s \in Stream!Statuses /\ n \in 0..MaxEvents /\ Stream!Terminal(s)
            BY DEF Stream!Statuses, Stream!Terminal
        <3>2. ~Stream!Terminal(row[r].status)
            BY <2>3 DEF Stream!End, Stream!Terminal, Stream!TerminalStatuses
        <3> QED BY <2>3, <3>1, <3>2 DEF Stream!End
    <2> QED BY <1>2, <2>1, <2>2, <2>3
<1>4. row' \in [Stream!RunIds -> [status : Stream!Statuses, count : 0..MaxEvents]]
    BY <1>1, <1>3
<1>5. ASSUME NEW q \in Stream!RunIds
      PROVE  /\ row[q].count <= row'[q].count
             /\ Stream!Terminal(row[q].status) => row'[q] = row[q]
             /\ ~Stream!Terminal(row'[q].status) => row'[q].count = 0
    <2>1. CASE q = r
        <3>1. row'[q] = [status |-> s, count |-> n] /\ row[q].count = 0
            BY <1>1, <1>3, <2>1
        <3> QED BY <1>3, <2>1, <3>1
    <2>2. CASE q # r
        <3>1. row'[q] = row[q]
            BY <1>1, <1>3, <2>2
        <3>2. row[q].count \in 0..MaxEvents
            BY <1>1
        <3> QED BY <1>1, <3>1, <3>2
    <2> QED BY <2>1, <2>2
<1> QED BY <1>4, <1>5 DEF RowsOK

\* A commit of the worker cannot take back what the stream said.
LEMMA WorkerSound ==
    ASSUME BoundsAssumption, StreamInv, Stream!Worker, UNCHANGED Stream!channel
    PROVE  StreamInv'
<1> USE DEF BoundsAssumption
<1>1. /\ row' \in [Stream!RunIds -> [status : Stream!Statuses, count : 0..MaxEvents]]
      /\ RowsOK'
      /\ \A r \in Stream!RunIds :
            /\ row[r].count <= row'[r].count
            /\ Stream!Terminal(row[r].status) => row'[r] = row[r]
    BY RowGrows
<1>2. UNCHANGED <<conn, wire, source, received, breaks>>
    BY DEF Stream!channel
<1>3. Stream!TypeOK'
    BY <1>1, <1>2 DEF StreamInv, Stream!TypeOK
<1>4. \A r \in Stream!RunIds : row[r].count \in Nat /\ row'[r].count \in Nat
    BY <1>1 DEF StreamInv, Stream!TypeOK
<1>5. Len(received) \in Nat /\ Len(wire) \in Nat
    BY LenProperties DEF StreamInv, Stream!TypeOK
<1>6. SourceOK'
    BY <1>1, <1>2, <1>4, <1>5 DEF StreamInv, SourceOK
<1>7. Len(wire) # 0 \/ conn.at # "off" => source.run \in Stream!RunIds
    BY DEF StreamInv, SourceOK, Stream!Off
<1>8. \A i \in 1..Len(wire) : wire[i].cursor \in Nat
    BY Typed
<1>9. ASSUME NEW i \in 1..Len(wire) PROVE wire[i].cursor <= row'[source.run].count
    <2>1. source.run \in Stream!RunIds
        BY <1>5, <1>7
    <2>2. wire[i].cursor <= row[source.run].count
        BY DEF StreamInv, WireOK
    <2> QED BY <1>1, <1>4, <1>8, <2>1, <2>2
<1>10. WireOK'
    BY <1>2, <1>9 DEF StreamInv, WireOK
<1>11. ReadOK'
    <2>1. SUFFICES ASSUME conn.at = "get_events", Stream!Terminal(conn.read)
                   PROVE  row'[conn.run].status = conn.read
        BY <1>2 DEF ReadOK
    <2>2. row[conn.run].status = conn.read /\ conn.run \in Stream!RunIds
        BY <1>7, <2>1 DEF StreamInv, ReadOK, SourceOK
    <2> QED BY <1>1, <2>1, <2>2
<1>12. EndsOK'
    <2>1. ASSUME NEW i \in 1..Len(wire), wire[i].kind = "stream_end"
          PROVE  /\ i = Len(wire)
                 /\ conn = Stream!Off
                 /\ wire[i].reason # "stream_timeout" =>
                       /\ row'[source.run].status = wire[i].status
                       /\ Stream!Terminal(wire[i].status)
                       /\ wire[i].cursor = row'[source.run].count
        <3>1. i = Len(wire) /\ conn = Stream!Off /\ source.run \in Stream!RunIds
            BY <1>5, <1>7, <2>1 DEF StreamInv, EndsOK
        <3>2. ASSUME wire[i].reason # "stream_timeout"
              PROVE  row'[source.run] = row[source.run]
            BY <1>1, <2>1, <3>1, <3>2 DEF StreamInv, EndsOK
        <3> QED BY <2>1, <3>1, <3>2 DEF StreamInv, EndsOK
    <2> QED BY <1>2, <2>1 DEF EndsOK
<1>13. Numbered'
    BY <1>2 DEF StreamInv, Numbered
<1> QED BY <1>1, <1>3, <1>6, <1>10, <1>11, <1>12, <1>13 DEF StreamInv

\* An EventSource that has just been opened, or closed, holds nothing.
LEMMA FreshSound ==
    ASSUME BoundsAssumption, StreamInv, Stream!Worker \/ UNCHANGED row, UNCHANGED breaks,
           conn' = Stream!Off, wire' = <<>>, received' = <<>>,
           \/ source' = Stream!NoSource
           \/ \E r \in Stream!RunIds :
                 source' = [state |-> "connecting", run |-> r, lastId |-> Stream!NoHeader]
    PROVE  StreamInv'
<1> USE DEF BoundsAssumption
<1>1. Len(wire') = 0 /\ Len(received') = 0
    OBVIOUS
<1>0. /\ row' \in [Stream!RunIds -> [status : Stream!Statuses, count : 0..MaxEvents]]
      /\ RowsOK'
    <2>1. CASE Stream!Worker
        BY <2>1, RowGrows
    <2>2. CASE UNCHANGED row
        BY <2>2 DEF StreamInv, Stream!TypeOK, RowsOK
    <2> QED BY <2>1, <2>2
<1>2. Stream!TypeOK'
    <2>1. <<>> \in Seq(Stream!Frames) /\ <<>> \in Seq(1..MaxEvents)
        BY EmptySeq
    <2>2. Stream!Off \in [at : {"off", "get_run", "get_events"}, run : Stream!RunIds \cup {0},
                  cursor : 0..MaxEvents, read : Stream!Statuses]
        BY DEF Stream!Off, Stream!Statuses
    <2>3. source' \in [state : {"none", "connecting", "open", "closed"},
                      run : Stream!RunIds \cup {0}, lastId : {Stream!NoHeader} \cup 0..MaxEvents]
        BY DEF Stream!NoSource
    <2> QED BY <1>0, <2>1, <2>2, <2>3 DEF StreamInv, Stream!TypeOK
<1>3. SourceOK'
    <2>1. CASE source' = Stream!NoSource
        BY <2>1 DEF SourceOK, Stream!NoSource, Stream!Off
    <2>2. ASSUME NEW r \in Stream!RunIds,
                 source' = [state |-> "connecting", run |-> r, lastId |-> Stream!NoHeader]
          PROVE  SourceOK'
        <3>1. Stream!ResolveCursor(Stream!NoHeader) = 0
            BY DEF Stream!ResolveCursor, Stream!NoHeader
        <3>2. 0 <= row'[r].count
            BY <1>0
        <3> QED BY <1>1, <2>2, <3>1, <3>2 DEF SourceOK, Stream!Off
    <2> QED BY <2>1, <2>2
<1>4. WireOK' /\ ReadOK' /\ EndsOK' /\ Numbered'
    BY <1>1 DEF WireOK, ReadOK, EndsOK, Numbered, Chained, Stream!Off
<1> QED BY <1>0, <1>2, <1>3, <1>4 DEF StreamInv

\* A connection, or the loss of one, starts where the last delivery ended.
LEMMA ConnectionSound ==
    ASSUME BoundsAssumption, StreamInv,
           Stream!Connect \/ ((Stream!Refuse \/ Stream!Break) /\ UNCHANGED row)
    PROVE  StreamInv'
<1> USE DEF BoundsAssumption
<1>1. source.state \in {"connecting", "open"} /\ UNCHANGED <<row, received>>
    BY DEF Stream!Connect, Stream!Refuse, Stream!Break
<1>2. /\ source \in [state : {"none", "connecting", "open", "closed"},
                    run : Stream!RunIds \cup {0}, lastId : {Stream!NoHeader} \cup 0..MaxEvents]
      /\ source.run \in Stream!RunIds /\ Stream!ResolveCursor(source.lastId) = Len(received)
      /\ Len(received) <= row[source.run].count
    BY <1>1 DEF StreamInv, SourceOK, Stream!TypeOK
<1>3. /\ wire' = <<>>
      /\ \/ conn' = Stream!Off
         \/ /\ Stream!Connect
            /\ conn' = [at |-> "get_run", run |-> source.run,
                        cursor |-> Len(received), read |-> "absent"]
    <2>1. CASE Stream!Connect
        <3>1. wire = <<>>
            BY <2>1 DEF StreamInv, SourceOK, Stream!Connect
        <3> QED BY <1>2, <2>1, <3>1 DEF Stream!Connect
    <2>2. CASE Stream!Refuse
        BY <2>2 DEF StreamInv, SourceOK, Stream!Refuse
    <2>3. CASE Stream!Break
        BY <2>3 DEF Stream!Break
    <2> QED BY <2>1, <2>2, <2>3
<1>4. /\ source' \in [state : {"none", "connecting", "open", "closed"},
                     run : Stream!RunIds \cup {0}, lastId : {Stream!NoHeader} \cup 0..MaxEvents]
      /\ source'.run = source.run /\ source'.lastId = source.lastId
      /\ source'.state # "none"
      /\ Stream!Connect => source'.state = "open"
    BY <1>2 DEF Stream!Connect, Stream!Refuse, Stream!Break
<1>5. /\ Len(wire') = 0
      /\ Len(received) \in 0..MaxEvents
    <2>1. Len(received) \in Nat /\ row[source.run].count \in 0..MaxEvents
        BY <1>2, Typed
    <2> QED BY <1>2, <1>3, <2>1
<1>6. Stream!TypeOK'
    <2>1. <<>> \in Seq(Stream!Frames)
        BY EmptySeq
    <2>2. conn' \in [at : {"off", "get_run", "get_events"}, run : Stream!RunIds \cup {0},
                    cursor : 0..MaxEvents, read : Stream!Statuses]
        BY <1>2, <1>3, <1>5 DEF Stream!Off, Stream!Statuses
    <2>3. breaks' \in 0..MaxBreaks
        BY DEF StreamInv, Stream!TypeOK, Stream!Connect, Stream!Refuse, Stream!Break
    <2> QED BY <1>1, <1>3, <1>4, <2>1, <2>2, <2>3 DEF StreamInv, Stream!TypeOK
<1>7. SourceOK'
    BY <1>1, <1>2, <1>3, <1>4 DEF SourceOK, Stream!Off
<1>8. WireOK'
    BY <1>1, <1>3, <1>5 DEF WireOK, Chained, Top, Position, Stream!Off
<1>9. ReadOK' /\ EndsOK'
    BY <1>3, <1>5 DEF ReadOK, EndsOK, Stream!Off
<1> QED BY <1>1, <1>6, <1>7, <1>8, <1>9 DEF StreamInv, RowsOK, Numbered

\* A connection is to a run, by an EventSource that is open, and what is on its
\* way is not the end of the stream.
LEMMA Connected ==
    ASSUME BoundsAssumption, StreamInv, conn.at # "off"
    PROVE  /\ source.state = "open" /\ source.run \in Stream!RunIds /\ conn.run = source.run
           /\ conn.cursor = Top(wire, Len(received))
           /\ Len(received) <= row[source.run].count
           /\ conn.cursor <= row[source.run].count
           /\ \A i \in 1..Len(wire) : wire[i].kind # "stream_end"
<1>1. source.state = "open" /\ source.run \in Stream!RunIds /\ conn.run = source.run
    BY DEF StreamInv, SourceOK, Stream!Off
<1>2. conn.cursor = Top(wire, Len(received)) /\ Len(received) <= row[source.run].count
    BY <1>1 DEF StreamInv, SourceOK, WireOK
<1>3. conn.cursor <= row[source.run].count
    <2>1. CASE Len(wire) = 0
        BY <1>2, <2>1 DEF Top, Position
    <2>2. CASE Len(wire) # 0
        <3>1. Len(wire) \in 1..Len(wire)
            BY <2>2, Typed
        <3> QED BY <1>2, <2>2, <3>1 DEF Top, Position, StreamInv, WireOK
    <2> QED BY <2>1, <2>2
<1>4. \A i \in 1..Len(wire) : wire[i].kind # "stream_end"
    BY DEF StreamInv, EndsOK, Stream!Off
<1> QED BY <1>1, <1>2, <1>3, <1>4

\* Reading the run sends at most a snapshot, at the position reached.
LEMMA GetRunSound == ASSUME BoundsAssumption, StreamInv, Stream!GetRun PROVE StreamInv'
<1> USE DEF BoundsAssumption
<1> DEFINE s == row[conn.run].status
           f == Stream!Snapshot(conn.cursor, s)
<1>1. /\ conn.at = "get_run"
      /\ wire' = IF s = conn.read THEN wire ELSE Append(wire, f)
      /\ conn' = [conn EXCEPT !.at = "get_events", !.read = s]
      /\ UNCHANGED <<row, source, received, breaks>>
    BY DEF Stream!GetRun
<1>2. /\ source.state = "open" /\ source.run \in Stream!RunIds /\ conn.run = source.run
      /\ conn.cursor = Top(wire, Len(received))
      /\ Len(received) <= row[source.run].count
      /\ conn.cursor <= row[source.run].count
      /\ \A i \in 1..Len(wire) : wire[i].kind # "stream_end"
    BY <1>1, Connected
<1>3. /\ wire \in Seq(Stream!Frames) /\ Len(wire) \in Nat /\ Len(received) \in Nat
      /\ conn.cursor \in 0..MaxEvents /\ conn.cursor \in Nat
      /\ s \in Stream!Statuses
    BY <1>2, Typed
<1>4. f \in Stream!Frames /\ f.cursor = conn.cursor /\ f.kind = "run_snapshot" /\ Advance(f) = 0
    BY <1>3 DEF Stream!Snapshot, Stream!Frames, Advance
<1>5. conn' = [at |-> "get_events", run |-> conn.run, cursor |-> conn.cursor, read |-> s]
    BY <1>1 DEF StreamInv, Stream!TypeOK
<1> HIDE DEF s, f
<1>6. /\ wire' \in Seq(Stream!Frames) /\ Len(wire') \in Nat
      /\ Chained(wire', Len(received))
      /\ Top(wire', Len(received)) = conn.cursor
      /\ \A i \in 1..Len(wire') :
            wire'[i].cursor <= row[source.run].count /\ wire'[i].kind # "stream_end"
    <2>1. CASE wire' = wire
        BY <1>2, <1>3, <2>1 DEF StreamInv, WireOK
    <2>2. CASE wire' = Append(wire, f)
        <3>1. /\ wire' \in Seq(Stream!Frames) /\ Len(wire') = Len(wire) + 1
              /\ \A i \in 1..Len(wire) : wire'[i] = wire[i]
              /\ wire'[Len(wire) + 1] = f
            BY <1>3, <1>4, <2>2, AppendedItem
        <3>2. Chained(wire, Len(received)) /\ f.cursor = Top(wire, Len(received)) + Advance(f)
            BY <1>2, <1>3, <1>4 DEF StreamInv, WireOK
        <3>3. Chained(wire', Len(received)) /\ Top(wire', Len(received)) = f.cursor
            BY <1>3, <1>4, <2>2, <3>2, ChainAppend
        <3>4. ASSUME NEW i \in 1..Len(wire')
              PROVE  wire'[i].cursor <= row[source.run].count /\ wire'[i].kind # "stream_end"
            <4>1. i \in 1..Len(wire) \/ i = Len(wire) + 1
                BY <1>3, <3>1
            <4> QED BY <1>2, <1>4, <3>1, <4>1 DEF StreamInv, WireOK
        <3> QED BY <1>3, <1>4, <3>1, <3>3, <3>4
    <2> QED BY <1>1, <2>1, <2>2
<1>7. Stream!TypeOK'
    <2>1. conn' \in [at : {"off", "get_run", "get_events"}, run : Stream!RunIds \cup {0},
                    cursor : 0..MaxEvents, read : Stream!Statuses]
        BY <1>2, <1>3, <1>5
    <2> QED BY <1>1, <1>6, <2>1 DEF StreamInv, Stream!TypeOK
<1>8. SourceOK'
    BY <1>1, <1>2, <1>5 DEF StreamInv, SourceOK
<1>9. WireOK'
    BY <1>1, <1>5, <1>6 DEF WireOK
<1>10. ReadOK'
    BY <1>1, <1>5 DEF ReadOK, s
<1>11. EndsOK'
    BY <1>1, <1>6 DEF EndsOK
<1> QED BY <1>1, <1>7, <1>8, <1>9, <1>10, <1>11 DEF StreamInv, RowsOK, Numbered

\* Reading the events sends those after the cursor, and then, if the status read
\* before was terminal or the time is up, the end.
LEMMA GetEventsSound == ASSUME BoundsAssumption, StreamInv, Stream!GetEvents PROVE StreamInv'
<1> USE DEF BoundsAssumption
<1> DEFINE n == row[conn.run].count
           cursor == Stream!Reached(conn.cursor, n)
           sent == wire \o Stream!NewEvents(conn.cursor, n)
<1>1. conn.at = "get_events" /\ UNCHANGED <<row, source, received, breaks>>
    BY DEF Stream!GetEvents
<1>2. /\ source.state = "open" /\ source.run \in Stream!RunIds /\ conn.run = source.run
      /\ conn.cursor = Top(wire, Len(received))
      /\ Len(received) <= row[source.run].count
      /\ conn.cursor <= row[source.run].count
      /\ \A i \in 1..Len(wire) : wire[i].kind # "stream_end"
    BY <1>1, Connected
<1>3. /\ wire \in Seq(Stream!Frames) /\ Len(wire) \in Nat /\ Len(received) \in Nat
      /\ conn.cursor \in 0..MaxEvents /\ conn.cursor \in Nat
      /\ n \in 0..MaxEvents /\ n \in Nat /\ n = row[source.run].count
      /\ conn.read \in Stream!Statuses
    BY <1>2, Typed
<1>4. cursor = n
    BY <1>2, <1>3 DEF Stream!Reached
<1>5. Stream!NewEvents(conn.cursor, n) \in Seq(Stream!Frames)
    <2>1. ASSUME NEW i \in 1..(IF n > conn.cursor THEN n - conn.cursor ELSE 0)
          PROVE  Stream!Event(conn.cursor + i, conn.read) \in Stream!Frames
        <3>1. conn.cursor + i \in 0..MaxEvents
            BY <1>3
        <3> QED BY <1>3, <3>1 DEF Stream!Event, Stream!Frames
    <2>2. (IF n > conn.cursor THEN n - conn.cursor ELSE 0) \in Nat
        BY <1>3
    <2> QED BY <2>1, <2>2, IsASeq DEF Stream!NewEvents
<1>6. sent \in Seq(Stream!Frames)
    BY <1>3, <1>5, Joined
<1>7. /\ Chained(sent, Len(received))
      /\ Top(sent, Len(received)) = n
      /\ Len(sent) \in Nat
      /\ \A i \in 1..Len(wire) : sent[i] = wire[i]
      /\ \A i \in 1..Len(sent) :
            \/ i \in 1..Len(wire)
            \/ sent[i].kind = "run_event" /\ sent[i].cursor <= n
    <2>1. Chained(wire, Len(received))
        BY DEF StreamInv, WireOK
    <2>2. Stream!Reached(conn.cursor, n) = n
        BY <1>4
    <2>3. /\ Stream!NewEvents(conn.cursor, n) \in Seq(Stream!Frames) /\ wire \in Seq(Stream!Frames)
          /\ n \in Nat /\ conn.cursor \in Nat /\ Len(received) \in Nat
          /\ conn.cursor = Top(wire, Len(received))
        BY <1>2, <1>3, <1>5
    <2> HIDE DEF n
    <2>4. /\ Chained(sent, Len(received))
          /\ Top(sent, Len(received)) = Stream!Reached(conn.cursor, n)
          /\ Len(sent) \in Nat
        BY <1>2, <1>3, <2>1, <2>3, ChainEvents
    <2>5. \A i \in 1..Len(wire) : sent[i] = wire[i]
        BY <1>2, <1>3, <2>1, <2>3, ChainEvents
    <2>6. \A i \in 1..Len(sent) :
             \/ i \in 1..Len(wire)
             \/ /\ sent[i].kind = "run_event"
                /\ sent[i].cursor <= n
        BY <2>1, <2>3, ChainEvents, Zenon
    <2> QED BY <2>2, <2>4, <2>5, <2>6
<1>8. \/ /\ Stream!Terminal(conn.read)
         /\ wire' = Append(sent, Stream!EndFrame(n, conn.read, conn.read))
         /\ conn' = Stream!Off
      \/ /\ ~Stream!Terminal(conn.read)
         /\ wire' = Append(sent, Stream!EndFrame(n, conn.read, "stream_timeout"))
         /\ conn' = Stream!Off
      \/ /\ ~Stream!Terminal(conn.read)
         /\ wire' = sent
         /\ conn' = [conn EXCEPT !.at = "get_run", !.cursor = n]
    BY <1>4 DEF Stream!GetEvents
<1> HIDE DEF sent, cursor, n
<1>9. \A i \in 1..Len(sent) : sent[i].cursor <= n /\ sent[i].kind # "stream_end"
    BY <1>2, <1>3, <1>7 DEF StreamInv, WireOK
<1>10. ASSUME NEW f \in Stream!Frames, wire' = Append(sent, f), conn' = Stream!Off,
              f.kind = "stream_end", f.cursor = n,
              f.reason # "stream_timeout" =>
                 Stream!Terminal(f.status) /\ row[source.run].status = f.status
       PROVE  StreamInv'
    <2>1. /\ wire' \in Seq(Stream!Frames) /\ Len(wire') = Len(sent) + 1
          /\ \A i \in 1..Len(sent) : wire'[i] = sent[i]
          /\ wire'[Len(sent) + 1] = f
        BY <1>6, <1>10, AppendedItem
    <2>2. f.cursor = Top(sent, Len(received)) + Advance(f)
        BY <1>3, <1>7, <1>10 DEF Advance
    <2>3. Chained(wire', Len(received))
        BY <1>3, <1>6, <1>7, <1>10, <2>2, ChainAppend
    <2>4. ASSUME NEW i \in 1..Len(wire')
          PROVE  /\ wire'[i].cursor <= row[source.run].count
                 /\ wire'[i].kind = "stream_end" => i = Len(wire') /\ wire'[i] = f
        <3>1. i \in 1..Len(sent) \/ i = Len(sent) + 1
            BY <1>7, <2>1
        <3> QED BY <1>3, <1>9, <1>10, <2>1, <3>1
    <2>5. Stream!Off \in [at : {"off", "get_run", "get_events"}, run : Stream!RunIds \cup {0},
                  cursor : 0..MaxEvents, read : Stream!Statuses]
        BY DEF Stream!Off, Stream!Statuses
    <2>6. Stream!TypeOK'
        BY <1>1, <1>10, <2>1, <2>5 DEF StreamInv, Stream!TypeOK
    <2>7. SourceOK'
        BY <1>1, <1>2, <1>10 DEF StreamInv, SourceOK, Stream!Off
    <2>8. WireOK' /\ ReadOK'
        BY <1>1, <1>10, <2>3, <2>4 DEF WireOK, ReadOK, Stream!Off
    <2>9. EndsOK'
        BY <1>1, <1>3, <1>10, <2>4 DEF EndsOK
    <2> QED BY <1>1, <2>6, <2>7, <2>8, <2>9 DEF StreamInv, RowsOK, Numbered
<1>11. CASE /\ Stream!Terminal(conn.read)
            /\ wire' = Append(sent, Stream!EndFrame(n, conn.read, conn.read))
            /\ conn' = Stream!Off
    <2>1. row[source.run].status = conn.read
        BY <1>1, <1>2, <1>11 DEF StreamInv, ReadOK
    <2>2. Stream!EndFrame(n, conn.read, conn.read) \in Stream!Frames
        BY <1>3, <1>11 DEF Stream!EndFrame, Stream!Frames, Stream!EndReasons, Stream!Terminal
    <2> QED BY <1>10, <1>11, <2>1, <2>2 DEF Stream!EndFrame
<1>12. CASE /\ wire' = Append(sent, Stream!EndFrame(n, conn.read, "stream_timeout"))
            /\ conn' = Stream!Off
    <2>1. Stream!EndFrame(n, conn.read, "stream_timeout") \in Stream!Frames
        BY <1>3 DEF Stream!EndFrame, Stream!Frames, Stream!EndReasons
    <2> QED BY <1>10, <1>12, <2>1 DEF Stream!EndFrame
<1>13. CASE wire' = sent /\ conn' = [conn EXCEPT !.at = "get_run", !.cursor = n]
    <2>1. conn' = [at |-> "get_run", run |-> conn.run, cursor |-> n, read |-> conn.read]
        BY <1>13 DEF StreamInv, Stream!TypeOK
    <2>2. conn' \in [at : {"off", "get_run", "get_events"}, run : Stream!RunIds \cup {0},
                    cursor : 0..MaxEvents, read : Stream!Statuses]
        BY <1>2, <1>3, <2>1
    <2>3. Stream!TypeOK'
        BY <1>1, <1>6, <1>13, <2>2 DEF StreamInv, Stream!TypeOK
    <2>4. SourceOK'
        BY <1>1, <1>2, <2>1 DEF StreamInv, SourceOK
    <2>5. WireOK'
        BY <1>1, <1>3, <1>7, <1>9, <1>13, <2>1 DEF WireOK
    <2>6. ReadOK' /\ EndsOK'
        BY <1>9, <1>13, <2>1 DEF ReadOK, EndsOK
    <2> QED BY <1>1, <2>3, <2>4, <2>5, <2>6 DEF StreamInv, RowsOK, Numbered
<1> QED BY <1>8, <1>11, <1>12, <1>13

\* A handler that takes a frame moves the position by what it took.
LEMMA TakeSound ==
    ASSUME BoundsAssumption, StreamInv, UNCHANGED row,
           Stream!Take("run_snapshot") \/ Stream!Take("run_event")
    PROVE  StreamInv'
<1> USE DEF BoundsAssumption
<1> DEFINE f == Head(wire)
           r == source.run
<1>1. /\ source.state = "open" /\ wire # <<>>
      /\ f.kind \in {"run_snapshot", "run_event"}
      /\ wire' = Tail(wire)
      /\ source' = [source EXCEPT !.lastId = f.cursor]
      /\ received' = IF f.kind = "run_event" THEN Append(received, f.cursor) ELSE received
      /\ UNCHANGED <<row, conn, breaks>>
    BY DEF Stream!Take
<1>2. /\ r \in Stream!RunIds /\ Len(received) <= row[r].count
      /\ source \in [state : {"none", "connecting", "open", "closed"},
                    run : Stream!RunIds \cup {0}, lastId : {Stream!NoHeader} \cup 0..MaxEvents]
    BY <1>1 DEF StreamInv, SourceOK, Stream!TypeOK
<1>3. /\ wire \in Seq(Stream!Frames) /\ Len(wire) \in Nat
      /\ received \in Seq(1..MaxEvents) /\ Len(received) \in Nat
      /\ row[r].count \in 0..MaxEvents
      /\ \A i \in 1..Len(wire) : wire[i].cursor \in Nat
    BY <1>2, Typed
<1>4. /\ Tail(wire) \in Seq(Stream!Frames)
      /\ Len(Tail(wire)) = Len(wire) - 1
      /\ \A i \in 1..Len(wire) - 1 : Tail(wire)[i] = wire[i + 1]
      /\ f = wire[1] /\ f \in Stream!Frames /\ 1 \in 1..Len(wire)
    BY <1>1, <1>3, Shifted
<1>5. /\ f.cursor = Len(received) + Advance(f)
      /\ f.cursor <= row[r].count
    <2>1. f.cursor = Position(wire, Len(received), 0) + Advance(f)
        BY <1>4 DEF StreamInv, WireOK, Chained
    <2> QED BY <1>4, <2>1 DEF Position, StreamInv, WireOK
<1>6. f.cursor \in 0..MaxEvents
    BY <1>3, <1>4, <1>5
<1> HIDE DEF f, r
<1>7. /\ received' \in Seq(1..MaxEvents)
      /\ Len(received') = f.cursor
      /\ Numbered'
    <2>1. CASE f.kind = "run_event"
        <3>1. f.cursor = Len(received) + 1 /\ f.cursor \in 1..MaxEvents
            BY <1>3, <1>5, <1>6, <2>1 DEF Advance
        <3>2. /\ received' \in Seq(1..MaxEvents)
              /\ Len(received') = Len(received) + 1
              /\ \A i \in 1..Len(received) : received'[i] = received[i]
              /\ received'[Len(received) + 1] = f.cursor
            BY <1>1, <1>3, <2>1, <3>1, AppendedItem
        <3>3. DOMAIN received' = 1..Len(received) + 1 /\ DOMAIN received = 1..Len(received)
            BY <1>3, <3>2
        <3>4. ASSUME NEW i \in DOMAIN received' PROVE received'[i] = i
            <4>1. i \in 1..Len(received) \/ i = Len(received) + 1
                BY <1>3, <3>3
            <4> QED BY <3>1, <3>2, <3>3, <4>1 DEF StreamInv, Numbered
        <3> QED BY <3>1, <3>2, <3>4 DEF Numbered
    <2>2. CASE f.kind # "run_event"
        BY <1>1, <1>3, <1>5, <2>2 DEF Advance, StreamInv, Numbered
    <2> QED BY <2>1, <2>2
<1>8. /\ source'.state = "open" /\ source'.run = r /\ source'.lastId = f.cursor
      /\ source' \in [state : {"none", "connecting", "open", "closed"},
                     run : Stream!RunIds \cup {0}, lastId : {Stream!NoHeader} \cup 0..MaxEvents]
    BY <1>1, <1>2, <1>6 DEF r
<1>9. Stream!TypeOK'
    BY <1>1, <1>4, <1>7, <1>8 DEF StreamInv, Stream!TypeOK
<1>10. SourceOK'
    <2>1. Stream!ResolveCursor(f.cursor) = f.cursor
        BY <1>6 DEF Stream!ResolveCursor
    <2>2. conn.at # "off" => conn.run = r
        BY DEF StreamInv, SourceOK, r
    <2> QED BY <1>1, <1>2, <1>5, <1>7, <1>8, <2>1, <2>2 DEF SourceOK
<1>11. /\ Chained(wire', f.cursor)
       /\ Top(wire', f.cursor) = Top(wire, Len(received))
    <2>1. ASSUME NEW i \in 1..Len(Tail(wire))
          PROVE  Tail(wire)[i].cursor =
                    Position(Tail(wire), f.cursor, i - 1) + Advance(Tail(wire)[i])
        <3>1. i + 1 \in 1..Len(wire) /\ Tail(wire)[i] = wire[i + 1]
            BY <1>3, <1>4
        <3>2. wire[i + 1].cursor = Position(wire, Len(received), i) + Advance(wire[i + 1])
            <4>1. wire[i + 1].cursor
                    = Position(wire, Len(received), (i + 1) - 1) + Advance(wire[i + 1])
                BY <3>1 DEF StreamInv, WireOK, Chained
            <4>2. (i + 1) - 1 = i
                OBVIOUS
            <4> QED BY <4>1, <4>2
        <3>3. Position(Tail(wire), f.cursor, i - 1) = Position(wire, Len(received), i)
            <4>1. CASE i = 1
                BY <1>4, <4>1 DEF Position
            <4>2. CASE i # 1
                <5>1. i - 1 \in 1..Len(wire) - 1 /\ (i - 1) + 1 = i
                    BY <1>3, <1>4, <4>2
                <5>2. Tail(wire)[i - 1] = wire[i]
                    BY <1>4, <5>1
                <5> QED BY <4>2, <5>1, <5>2 DEF Position
            <4> QED BY <4>1, <4>2
        <3> QED BY <3>1, <3>2, <3>3
    <2>2. Top(Tail(wire), f.cursor) = Top(wire, Len(received))
        <3>1. CASE Len(wire) = 1
            BY <1>4, <3>1 DEF Top, Position
        <3>2. CASE Len(wire) # 1
            <4>1. Len(wire) - 1 \in 1..Len(wire) - 1 /\ (Len(wire) - 1) + 1 = Len(wire)
                BY <1>3, <1>4, <3>2
            <4>2. Tail(wire)[Len(wire) - 1] = wire[Len(wire)]
                BY <1>4, <4>1
            <4> QED BY <1>3, <1>4, <4>1, <4>2 DEF Top, Position
        <3> QED BY <3>1, <3>2
    <2> QED BY <1>1, <2>1, <2>2 DEF Chained
<1>12. \A i \in 1..Len(wire') : i + 1 \in 1..Len(wire) /\ wire'[i] = wire[i + 1]
    BY <1>1, <1>3, <1>4
<1>13. WireOK'
    <2>1. \A i \in 1..Len(wire') : wire'[i].cursor <= row[r].count
        BY <1>12 DEF StreamInv, WireOK, r
    <2>2. conn.at # "off" => conn.cursor = Top(wire, Len(received))
        BY DEF StreamInv, WireOK
    <2> QED BY <1>1, <1>7, <1>8, <1>11, <2>1, <2>2 DEF WireOK
<1>14. ReadOK'
    BY <1>1 DEF StreamInv, ReadOK
<1>15. EndsOK'
    <2>1. ASSUME NEW i \in 1..Len(wire'), wire'[i].kind = "stream_end"
          PROVE  /\ i = Len(wire')
                 /\ conn = Stream!Off
                 /\ wire'[i].reason # "stream_timeout" =>
                       /\ row[r].status = wire'[i].status
                       /\ Stream!Terminal(wire'[i].status)
                       /\ wire'[i].cursor = row[r].count
        <3>1. i + 1 \in 1..Len(wire) /\ wire'[i] = wire[i + 1]
            BY <1>12
        <3>2. /\ i + 1 = Len(wire) /\ conn = Stream!Off
              /\ wire[i + 1].reason # "stream_timeout" =>
                    /\ row[r].status = wire[i + 1].status
                    /\ Stream!Terminal(wire[i + 1].status)
                    /\ wire[i + 1].cursor = row[r].count
            BY <2>1, <3>1 DEF StreamInv, EndsOK, r
        <3> QED BY <1>1, <1>3, <1>4, <3>1, <3>2
    <2> QED BY <1>1, <1>8, <2>1 DEF EndsOK
<1> QED BY <1>1, <1>7, <1>9, <1>10, <1>13, <1>14, <1>15 DEF StreamInv, RowsOK

\* Every step of the specification preserves the invariant.
LEMMA StepSound == ASSUME BoundsAssumption, StreamInv, [Stream!Next]_Stream!vars PROVE StreamInv'
<1>1. CASE Stream!Worker /\ UNCHANGED Stream!channel
    BY <1>1, WorkerSound
<1>2. CASE Stream!Client /\ UNCHANGED row
    <2>1. ASSUME NEW r \in Stream!RunIds, Stream!Open(r) PROVE StreamInv'
        BY <1>2, <2>1, FreshSound DEF Stream!Open
    <2>2. CASE Stream!Close \/ Stream!TakeEnd
        BY <1>2, <2>2, FreshSound DEF Stream!Close, Stream!TakeEnd
    <2>3. CASE Stream!Refuse \/ Stream!Break
        BY <1>2, <2>3, ConnectionSound
    <2>4. CASE Stream!Take("run_snapshot") \/ Stream!Take("run_event")
        BY <1>2, <2>4, TakeSound
    <2> QED BY <1>2, <2>1, <2>2, <2>3, <2>4 DEF Stream!Client
<1>3. CASE Stream!Connect
    BY <1>3, ConnectionSound
<1>4. CASE Stream!GetRun
    BY <1>4, GetRunSound
<1>5. CASE Stream!GetEvents
    BY <1>5, GetEventsSound
<1>6. CASE Stream!Submit
    <2>1. PICK r \in Stream!RunIds : Stream!Create(r) /\ Stream!Open(r)
        BY <1>6 DEF Stream!Submit
    <2>2. Stream!Worker
        BY <2>1 DEF Stream!Worker
    <2> QED BY <2>1, <2>2, FreshSound DEF Stream!Open
<1>7. CASE UNCHANGED Stream!vars
    BY <1>7 DEF Stream!vars, StreamInv, Stream!TypeOK, RowsOK, SourceOK, WireOK, ReadOK, EndsOK,
                Numbered,
                Chained, Top, Position
<1> QED BY <1>1, <1>2, <1>3, <1>4, <1>5, <1>6, <1>7 DEF Stream!Next

(***************************************************************************)
(* Theorems                                                                *)
(***************************************************************************)
\* The stream keeps its invariant, for any number of runs, events and drops.
THEOREM StreamSound == Stream!Spec => []StreamInv
<1>1. Stream!Init => StreamInv
    BY InitSound, BoundsAssumption
<1>2. StreamInv /\ [Stream!Next]_Stream!vars => StreamInv'
    BY StepSound, BoundsAssumption
<1> QED BY <1>1, <1>2, PTL DEF Stream!Spec

\* Rows, connection, frames and EventSource keep their types.
THEOREM StreamTypeCorrect == Stream!Spec => []Stream!TypeOK
<1>1. StreamInv => Stream!TypeOK
    BY DEF StreamInv
<1> QED BY <1>1, StreamSound, PTL

\* The events of a run are delivered from the first, in order and once each.
THEOREM DeliveredOnceInOrder == Stream!Spec => []Stream!OnceInOrder
<1>1. StreamInv => Stream!OnceInOrder
    <2>1. SUFFICES ASSUME StreamInv, source.run # 0
                   PROVE  Len(received) <= row[source.run].count
        BY DEF StreamInv, Numbered, Stream!OnceInOrder
    <2>2. source.state # "none"
        BY <2>1 DEF StreamInv, SourceOK
    <2> QED BY <2>1, <2>2 DEF StreamInv, SourceOK
<1> QED BY <1>1, StreamSound, PTL

\* When the page learns that the run has ended, it has the whole timeline.
THEOREM EndComesLast == Stream!Spec => []Stream!EndIsComplete
<1>1. StreamInv => Stream!EndIsComplete
    <2>1. SUFFICES ASSUME StreamInv, source.state = "open", wire # <<>>,
                          Head(wire).kind = "stream_end",
                          Head(wire).reason # "stream_timeout"
                   PROVE  /\ row[source.run].status = Head(wire).status
                          /\ Len(received) = row[source.run].count
        BY DEF Stream!EndIsComplete
    <2>2. Head(wire) = wire[1] /\ 1 \in 1..Len(wire)
        BY <2>1, BoundsAssumption, Typed, Shifted
    <2>3. row[source.run].status = Head(wire).status /\ Head(wire).cursor = row[source.run].count
        BY <2>1, <2>2 DEF StreamInv, EndsOK
    <2>4. Head(wire).cursor = Position(wire, Len(received), 1 - 1) + Advance(Head(wire))
        BY <2>1, <2>2 DEF StreamInv, WireOK, Chained
    <2>5. Head(wire).cursor = Len(received)
        BY <2>1, <2>4, BoundsAssumption, Typed DEF Position, Advance
    <2> QED BY <2>3, <2>5
<1> QED BY <1>1, StreamSound, PTL

(***************************************************************************)
(* The page: what it shows, compared with what its EventSource delivered.  *)
(***************************************************************************)
Numbers == {shown[i][2] : i \in DOMAIN shown}

\* From number a on, the timeline leaves out none before its last.
GaplessFrom(a) == \A n \in Numbers : \A c \in a..n : c \in Numbers

\* A cancelled run has the one event that says so.
CancelledOnce == \A r \in RunIds : row[r].status = "cancelled" => row[r].count = 1

\* The page streams no run but its current one.
SourceIsCurrent == source.run \in {0, runId}

\* An event that comes next is on display already, or follows all that is.
Continues == source.run # 0 => GaplessFrom(Len(received) + 1)

\* A timeline can only have a gap when its run has more than one event: such a run
\* cannot be resumed, and only a resumed run starts with a timeline.
GapsNeedEvents == (runId # 0 /\ row[runId].count < 2) => GaplessFrom(1)

PageInv ==
    /\ StreamInv /\ TypeOK
    /\ NoRepeat /\ CancelledOnce /\ SourceIsCurrent /\ Continues /\ GapsNeedEvents

PageTypes ==
    /\ runId \in RunIds \cup {0}
    /\ badge \in [run : RunIds \cup {0}, status : Stream!Statuses]
    /\ shown \in Seq(RunIds \X (1..MaxEvents))
    /\ live \in BOOLEAN
    /\ timers \subseteq RunIds
    /\ pollTimer \in RunIds \cup {0}
    /\ calls \in [CallIds -> Calls]
    /\ failed \in BOOLEAN

\* The rows of the page and of the stream are numbered alike.
LEMMA SameRuns == Stream!RunIds = RunIds
    BY DEF Stream!RunIds, RunIds

\* What the page does to rows and channel is a step of the stream, or none.
LEMMA PageStep ==
    ASSUME BoundsAssumption, OutcomesAssumption, runId \in RunIds \cup {0}, [Next]_vars
    PROVE  [Stream!Next]_Stream!vars
<1> USE SameRuns
<1>1. CASE Worker
    <2>1. UNCHANGED Stream!channel
        BY <1>1 DEF Worker, channel, Stream!channel
    <2>2. PICK r \in RunIds :
              \/ Stream!Start(r)
              \/ \E s \in Outcomes :
                    Stream!End(r, s, IF s = "completed" THEN MaxEvents ELSE 1)
        BY <1>1 DEF Worker
    <2>3. CASE Stream!Start(r)
        BY <2>1, <2>3 DEF Stream!Worker, Stream!Next
    <2>4. ASSUME NEW s \in Outcomes,
                 Stream!End(r, s, IF s = "completed" THEN MaxEvents ELSE 1)
          PROVE  Stream!Next
        <3>1. s \in Stream!TerminalStatuses
            BY DEF OutcomesAssumption, Stream!TerminalStatuses
        <3>2. (IF s = "completed" THEN MaxEvents ELSE 1) \in 1..MaxEvents
            BY DEF BoundsAssumption
        <3> QED BY <2>1, <2>4, <3>1, <3>2 DEF Stream!Worker, Stream!Next
    <2> QED BY <2>2, <2>3, <2>4
<1>2. CASE Server
    BY <1>2 DEF Server, Stream!Next
<1>3. ASSUME NEW r \in RunIds, SubmitMessage(r) \/ ResumeRun(r)
      PROVE  Stream!Next
    <2>1. Stream!Create(r) /\ Stream!Open(r)
        BY <1>3 DEF SubmitMessage, ResumeRun, StartRunStream
    <2> QED BY <2>1 DEF Stream!Submit, Stream!Next
<1>4. CASE CancelRun
    <2>1. runId \in RunIds /\ Stream!End(runId, "cancelled", 1) /\ UNCHANGED Stream!channel
        BY <1>4 DEF CancelRun, channel, Stream!channel
    <2>2. "cancelled" \in Stream!TerminalStatuses /\ 1 \in 1..MaxEvents
        BY DEF Stream!TerminalStatuses, BoundsAssumption
    <2> QED BY <2>1, <2>2 DEF Stream!Worker, Stream!Next
<1>5. CASE OnRunSnapshot
    BY <1>5 DEF OnRunSnapshot, Stream!Client, Stream!Next
<1>6. CASE OnRunEvent
    BY <1>6 DEF OnRunEvent, Stream!Client, Stream!Next
<1>7. CASE OnStreamEnd
    BY <1>7 DEF OnStreamEnd, Stream!Client, Stream!Next
<1>8. CASE OnErrorBeforeFrames
    BY <1>8 DEF OnErrorBeforeFrames, Stream!Client, Stream!Next
<1>9. CASE OnErrorAfterFrames
    BY <1>9 DEF OnErrorAfterFrames, Stream!Client, Stream!Next
<1>10. CASE RefreshEvents
    BY <1>10 DEF RefreshEvents, channel, Stream!vars
<1>11. ASSUME NEW r \in RunIds, PollRun(r) PROVE UNCHANGED Stream!vars
    BY <1>11 DEF PollRun, channel, Stream!vars
<1>12. ASSUME NEW i \in CallIds, Refreshing(i) \/ Rejected(i) PROVE UNCHANGED Stream!vars
    BY <1>12 DEF Refreshing, Rejected, ReadRun, ReadEvents, Render, channel, Stream!vars
<1>13. CASE UNCHANGED vars
    BY <1>13 DEF vars, channel, Stream!vars
<1> QED BY <1>1, <1>2, <1>3, <1>4, <1>5, <1>6, <1>7, <1>8, <1>9, <1>10, <1>11, <1>12, <1>13
        DEF Next, Handler

\* Rows only grow, and a run is cancelled with one event.
LEMMA RowStep ==
    ASSUME BoundsAssumption, StreamInv, CancelledOnce, [Stream!Next]_Stream!vars
    PROVE  /\ \A r \in RunIds : /\ row[r].count \in Nat /\ row'[r].count \in Nat
                                /\ row[r].count <= row'[r].count
           /\ CancelledOnce'
<1> USE SameRuns
<1>1. Stream!Worker \/ UNCHANGED row
    BY DEF Stream!Next, Stream!vars, Stream!Submit, Stream!Worker, Stream!Connect,
           Stream!GetRun, Stream!GetEvents
<1>2. row \in [RunIds -> [status : Stream!Statuses, count : 0..MaxEvents]]
    BY DEF StreamInv, Stream!TypeOK
<1>3. CASE UNCHANGED row
    BY <1>2, <1>3 DEF CancelledOnce, BoundsAssumption
<1>4. CASE Stream!Worker
    <2>1. /\ row' \in [RunIds -> [status : Stream!Statuses, count : 0..MaxEvents]]
          /\ \A r \in RunIds : row[r].count <= row'[r].count
        BY <1>4, RowGrows
    <2>2. PICK r \in RunIds :
              \/ Stream!Create(r) \/ Stream!Start(r)
              \/ \E s \in Stream!TerminalStatuses, n \in 1..MaxEvents : Stream!End(r, s, n)
        BY <1>4 DEF Stream!Worker
    <2>3. PICK s, n : /\ row' = [row EXCEPT ![r] = [status |-> s, count |-> n]]
                      /\ s = "cancelled" => n = 1
        BY <2>2 DEF Stream!Create, Stream!Start, Stream!End
    <2>4. ASSUME NEW q \in RunIds, row'[q].status = "cancelled" PROVE row'[q].count = 1
        <3>1. CASE q = r
            BY <1>2, <2>3, <2>4, <3>1
        <3>2. CASE q # r
            BY <1>2, <2>3, <2>4, <3>2 DEF CancelledOnce
        <3> QED BY <3>1, <3>2
    <2> QED BY <1>2, <2>1, <2>4 DEF CancelledOnce, BoundsAssumption
<1> QED BY <1>1, <1>3, <1>4

\* The inductive invariant holds of the page before its first submission.
LEMMA PageInit == ASSUME BoundsAssumption, Init PROVE PageInv
<1>1. StreamInv
    BY InitSound DEF Init
<1>2. shown = <<>> /\ runId = 0 /\ source.run = 0
    BY DEF Init, Stream!Init, Stream!NoSource
<1>3. DOMAIN shown = {}
    BY <1>2
<1>4. PageTypes
    <2>1. NoCall \in Calls
        BY DEF NoCall, Calls, Stream!Statuses, BoundsAssumption
    <2>2. <<>> \in Seq(RunIds \X (1..MaxEvents))
        BY EmptySeq
    <2> QED BY <2>1, <2>2 DEF Init, PageTypes, Stream!Statuses
<1>5. CancelledOnce
    BY SameRuns DEF Init, Stream!Init, CancelledOnce
<1> QED BY <1>1, <1>2, <1>3, <1>4, <1>5
        DEF PageInv, TypeOK, StreamInv, PageTypes, NoRepeat, SourceIsCurrent, Continues,
            GapsNeedEvents

\* A new refresh is a refresh.
LEMMA CallTyped ==
    ASSUME BoundsAssumption, calls \in [CallIds -> Calls],
           NEW poll \in BOOLEAN, NEW r \in RunIds \cup {0}, Call(poll, r)
    PROVE  calls' \in [CallIds -> Calls]
<1>1. Refresh(poll, r) \in Calls
    BY DEF Refresh, Calls, Stream!Statuses, BoundsAssumption
<1> QED BY <1>1 DEF Call

\* The run of an EventSource that is not closed for good is a run of the session.
LEMMA StreamedRun ==
    ASSUME StreamInv, source.state # "none"
    PROVE  source.run \in RunIds
    BY SameRuns DEF StreamInv, SourceOK

\* A frame to be taken is a frame; an event frame is the event after the last.
LEMMA NextFrame ==
    ASSUME BoundsAssumption, StreamInv, source.state = "open", wire # <<>>
    PROVE  /\ Head(wire).status \in Stream!Statuses
           /\ Head(wire).kind = "run_event" =>
                 /\ Head(wire).cursor = Len(received) + 1
                 /\ Head(wire).cursor \in 1..MaxEvents
                 /\ Head(wire).cursor <= row[source.run].count
<1>1. wire \in Seq(Stream!Frames) /\ Len(received) \in Nat /\ Len(wire) \in Nat
    BY Typed
<1>2. Head(wire) = wire[1] /\ wire[1] \in Stream!Frames /\ 1 \in 1..Len(wire)
    BY <1>1, Shifted
<1>3. wire[1].status \in Stream!Statuses /\ wire[1].cursor \in 0..MaxEvents
    BY <1>2 DEF Stream!Frames
<1>4. wire[1].cursor = Position(wire, Len(received), 1 - 1) + Advance(wire[1])
    BY <1>2 DEF StreamInv, WireOK, Chained
<1>5. wire[1].cursor <= row[source.run].count
    BY <1>2 DEF StreamInv, WireOK
<1>6. wire[1].kind = "run_event" => wire[1].cursor = Len(received) + 1
    BY <1>1, <1>4 DEF Position, Advance
<1> QED BY <1>1, <1>2, <1>3, <1>5, <1>6 DEF BoundsAssumption

\* Every step keeps the types of what the page holds.
LEMMA PageTyped ==
    ASSUME BoundsAssumption, PageInv, [Next]_vars
    PROVE  PageTypes'
<1> USE BoundsAssumption
<1>0. StreamInv /\ PageTypes /\ row \in [RunIds -> [status : Stream!Statuses, count : 0..MaxEvents]]
    BY SameRuns DEF PageInv, TypeOK, PageTypes, StreamInv, Stream!TypeOK
<1>1. calls \in [CallIds -> Calls] /\ runId \in RunIds \cup {0}
    BY <1>0 DEF PageTypes
<1>2. CASE Worker \/ Server \/ OnErrorAfterFrames \/ UNCHANGED vars
    BY <1>0, <1>2 DEF Worker, Server, OnErrorAfterFrames, vars, page, PageTypes
<1>3. ASSUME NEW r \in RunIds, SubmitMessage(r) \/ ResumeRun(r) PROVE PageTypes'
    <2>1. <<>> \in Seq(RunIds \X (1..MaxEvents)) /\ "queued" \in Stream!Statuses
        BY EmptySeq DEF Stream!Statuses
    <2>2. /\ live' = FALSE /\ timers' = TimersCleared /\ runId' = r
          /\ badge' = [run |-> r, status |-> "queued"]
          /\ UNCHANGED <<pollTimer, calls, failed>>
          /\ shown' = <<>> \/ UNCHANGED shown
        BY <1>3 DEF SubmitMessage, ResumeRun, StartRunStream
    <2> QED BY <1>0, <2>1, <2>2 DEF PageTypes, TimersCleared
<1>4. ASSUME NEW r \in RunIds, PollRun(r) PROVE PageTypes'
    <2>1. calls' \in [CallIds -> Calls]
        BY <1>1, <1>4, CallTyped DEF PollRun
    <2> QED BY <1>0, <1>4, <2>1 DEF PollRun, PageTypes, TimersCleared
<1>5. CASE CancelRun \/ RefreshEvents
    <2>1. calls' \in [CallIds -> Calls]
        BY <1>1, <1>5, CallTyped DEF CancelRun, RefreshEvents
    <2>2. "cancelled" \in Stream!Statuses
        BY DEF Stream!Statuses, Stream!TerminalStatuses
    <2>3. badge' \in [run : RunIds \cup {0}, status : Stream!Statuses]
        <3>1. CASE CancelRun
            BY <1>0, <2>2, <3>1 DEF CancelRun, PageTypes
        <3>2. CASE RefreshEvents
            BY <1>0, <3>2 DEF RefreshEvents, PageTypes
        <3> QED BY <1>5, <3>1, <3>2
    <2>4. UNCHANGED <<runId, shown, live, timers, pollTimer, failed>>
        BY <1>5 DEF CancelRun, RefreshEvents
    <2> QED BY <1>0, <2>1, <2>3, <2>4 DEF PageTypes
<1>6. CASE OnRunSnapshot
    <2>1. source.state = "open" /\ wire # <<>>
        BY <1>6 DEF OnRunSnapshot, Stream!Take
    <2>2. source.run \in RunIds /\ Head(wire).status \in Stream!Statuses
        BY <1>0, <2>1, StreamedRun, NextFrame
    <2>3. calls' \in [CallIds -> Calls]
        BY <1>1, <1>6, <2>2, CallTyped DEF OnRunSnapshot
    <2> QED BY <1>0, <1>6, <2>2, <2>3 DEF OnRunSnapshot, PageTypes
<1>7. CASE OnRunEvent
    <2>1. source.state = "open" /\ wire # <<>> /\ Head(wire).kind = "run_event"
        BY <1>7 DEF OnRunEvent, Stream!Take
    <2>2. source.run \in RunIds /\ Head(wire).cursor \in 1..MaxEvents
        BY <1>0, <2>1, StreamedRun, NextFrame
    <2>3. /\ shown \in Seq(RunIds \X (1..MaxEvents))
          /\ <<source.run, Head(wire).cursor>> \in RunIds \X (1..MaxEvents)
        BY <1>0, <2>2 DEF PageTypes
    <2>4. Append(shown, <<source.run, Head(wire).cursor>>) \in Seq(RunIds \X (1..MaxEvents))
        BY <2>3, AppendedItem
    <2>5. shown' \in Seq(RunIds \X (1..MaxEvents))
        BY <1>7, <2>3, <2>4 DEF OnRunEvent, Appended
    <2> QED BY <1>0, <1>7, <2>5 DEF OnRunEvent, PageTypes
<1>8. CASE OnStreamEnd \/ OnErrorBeforeFrames
    <2>1. source.state # "none"
        BY <1>8 DEF OnStreamEnd, OnErrorBeforeFrames, Stream!TakeEnd
    <2>2. source.run \in RunIds
        BY <1>0, <2>1, StreamedRun
    <2>3. \E poll \in BOOLEAN : Call(poll, source.run)
        BY <1>8 DEF OnStreamEnd, OnErrorBeforeFrames, FallbackToPolling
    <2>4. calls' \in [CallIds -> Calls]
        BY <1>1, <2>2, <2>3, CallTyped
    <2>5. timers' \subseteq timers /\ (live' = FALSE \/ UNCHANGED live)
          /\ UNCHANGED <<runId, badge, shown, pollTimer, failed>>
        BY <1>8 DEF OnStreamEnd, OnErrorBeforeFrames, FallbackToPolling, TimersCleared
    <2> QED BY <1>0, <2>4, <2>5 DEF PageTypes
<1>9. ASSUME NEW i \in CallIds, ReadRun(i) \/ ReadEvents(i) PROVE PageTypes'
    <2>1. calls[i] \in Calls /\ calls[i].run \in RunIds
        BY <1>1, <1>9 DEF Calls, ReadRun, ReadEvents
    <2>2. row[calls[i].run].status \in Stream!Statuses /\ row[calls[i].run].count \in -1..MaxEvents
        BY <1>0, <2>1 DEF BoundsAssumption
    <2>3. calls' \in [CallIds -> Calls]
        BY <1>1, <1>9, <2>1, <2>2 DEF Calls, ReadRun, ReadEvents
    <2> QED BY <1>0, <1>9, <2>3 DEF ReadRun, ReadEvents, PageTypes
<1>10. ASSUME NEW i \in CallIds, Render(i) PROVE PageTypes'
    <2>1. calls[i] \in Calls /\ calls[i].run \in RunIds
        BY <1>1, <1>10 DEF Calls, Render
    <2>2. NoCall \in Calls
        BY DEF NoCall, Calls, Stream!Statuses, BoundsAssumption
    <2>3. /\ calls[i].upto \in 0..MaxEvents
          /\ [run |-> calls[i].run, status |-> calls[i].status]
                \in [run : RunIds \cup {0}, status : Stream!Statuses]
        BY <1>10, <2>1 DEF Calls, Render, BoundsAssumption
    <2>4. \A k \in 1..calls[i].upto : <<calls[i].run, k>> \in RunIds \X (1..MaxEvents)
        BY <2>1, <2>3 DEF BoundsAssumption
    <2>5. [k \in 1..calls[i].upto |-> <<calls[i].run, k>>] \in Seq(RunIds \X (1..MaxEvents))
        BY <2>3, <2>4, IsASeq
    <2>6. timers' \subseteq RunIds /\ pollTimer' \in RunIds \cup {0}
        BY <1>0, <1>10, <2>1 DEF Render, PageTypes
    <2>7. calls' \in [CallIds -> Calls]
        BY <1>1, <1>10, <2>2 DEF Render
    <2> QED BY <1>0, <1>10, <2>3, <2>5, <2>6, <2>7 DEF Render, PageTypes
<1>11. ASSUME NEW i \in CallIds, Rejected(i) PROVE PageTypes'
    <2>1. NoCall \in Calls
        BY DEF NoCall, Calls, Stream!Statuses, BoundsAssumption
    <2> QED BY <1>0, <1>11, <2>1 DEF Rejected, PageTypes
<1> QED BY <1>2, <1>3, <1>4, <1>5, <1>6, <1>7, <1>8, <1>9, <1>10, <1>11
        DEF Next, Handler, Refreshing

(***************************************************************************)
(* The timeline                                                            *)
(***************************************************************************)
TimelineInv == NoRepeat /\ SourceIsCurrent /\ Continues /\ GapsNeedEvents

\* What leaves the timeline alone, and the stream at the run and the event it is at,
\* or without a run, disturbs nothing.
LEMMA TimelineKept ==
    ASSUME BoundsAssumption, PageInv, UNCHANGED <<shown, runId>>,
           \A r \in RunIds : /\ row[r].count \in Nat /\ row'[r].count \in Nat
                             /\ row[r].count <= row'[r].count,
           source'.run = 0 \/ (source'.run = source.run /\ UNCHANGED received)
    PROVE  TimelineInv'
<1>1. runId # 0 => runId \in RunIds
    BY DEF PageInv, TypeOK
<1> QED BY <1>1 DEF PageInv, TimelineInv, NoRepeat, SourceIsCurrent, Continues, GapsNeedEvents,
                    GaplessFrom, Numbers

\* A timeline that counts from one has no gap and no repetition.
LEMMA TimelineCounted ==
    ASSUME NEW n \in Nat, NEW r, shown' = [k \in 1..n |-> <<r, k>>],
           UNCHANGED <<runId, source, received>>, SourceIsCurrent, Len(received) \in Nat
    PROVE  TimelineInv'
<1>1. DOMAIN shown' = 1..n /\ \A k \in 1..n : shown'[k][2] = k
    OBVIOUS
<1>2. NoRepeat'
    BY <1>1 DEF NoRepeat
<1>3. Numbers' = 1..n
    BY <1>1 DEF Numbers
<1>4. GaplessFrom(1)' /\ GaplessFrom(Len(received) + 1)'
    BY <1>3 DEF GaplessFrom
<1> QED BY <1>2, <1>4 DEF TimelineInv, SourceIsCurrent, Continues, GapsNeedEvents

\* A step of the page that opens no stream, takes no event and renders no refresh
\* leaves the timeline alone.
LEMMA QuietStep ==
    ASSUME PageInv, [Next]_vars,
           ~\E r \in RunIds : SubmitMessage(r) \/ ResumeRun(r),
           ~OnRunEvent, ~\E i \in CallIds : Render(i)
    PROVE  /\ UNCHANGED <<shown, runId>>
           /\ source'.run = 0 \/ (source'.run = source.run /\ UNCHANGED received)
<1>1. source \in [state : {"none", "connecting", "open", "closed"},
                  run : Stream!RunIds \cup {0}, lastId : {Stream!NoHeader} \cup 0..MaxEvents]
    BY DEF PageInv, StreamInv, Stream!TypeOK
<1>2. CASE Worker
    BY <1>2 DEF Worker, page, channel
<1>3. CASE Server
    BY <1>1, <1>3 DEF Server, page, Stream!Connect, Stream!GetRun, Stream!GetEvents
<1>4. CASE CancelRun \/ RefreshEvents
    BY <1>4 DEF CancelRun, RefreshEvents, channel
<1>5. CASE OnRunSnapshot
    BY <1>1, <1>5 DEF OnRunSnapshot, Stream!Take
<1>6. CASE OnStreamEnd \/ OnErrorBeforeFrames
    <2>1. Stream!Close /\ UNCHANGED <<shown, runId>>
        BY <1>6 DEF OnStreamEnd, OnErrorBeforeFrames, Stream!TakeEnd
    <2> QED BY <2>1 DEF Stream!Close, Stream!NoSource
<1>7. CASE OnErrorAfterFrames
    BY <1>1, <1>7 DEF OnErrorAfterFrames, page, Stream!Break, Stream!Refuse
<1>8. ASSUME NEW r \in RunIds, PollRun(r) PROVE UNCHANGED <<shown, runId, source, received>>
    BY <1>8 DEF PollRun, channel
<1>9. ASSUME NEW i \in CallIds, ReadRun(i) \/ ReadEvents(i) \/ Rejected(i)
      PROVE  UNCHANGED <<shown, runId, source, received>>
    BY <1>9 DEF ReadRun, ReadEvents, Rejected, channel
<1>10. CASE UNCHANGED vars
    BY <1>10 DEF vars, page, channel
<1> QED BY <1>2, <1>3, <1>4, <1>5, <1>6, <1>7, <1>8, <1>9, <1>10 DEF Next, Handler, Refreshing

\* A run submitted starts with an empty timeline; a run resumed with that of the
\* cancelled one, which has no gap.
LEMMA OpenKeeps ==
    ASSUME BoundsAssumption, PageInv, NEW r \in RunIds, SubmitMessage(r) \/ ResumeRun(r)
    PROVE  TimelineInv'
<1>1. source'.run = r /\ received' = <<>> /\ runId' = r
    BY DEF SubmitMessage, ResumeRun, StartRunStream, Stream!Open
<1>2. Len(received') + 1 = 1
    BY <1>1
<1>3. CASE SubmitMessage(r)
    <2>1. DOMAIN shown' = {}
        BY <1>3 DEF SubmitMessage
    <2> QED BY <1>1, <2>1 DEF TimelineInv, NoRepeat, SourceIsCurrent, Continues, GapsNeedEvents,
                              GaplessFrom, Numbers
<1>4. CASE ResumeRun(r)
    <2>1. runId \in RunIds /\ row[runId].status = "cancelled" /\ UNCHANGED shown
        BY <1>4 DEF ResumeRun, PageInv, TypeOK
    <2>2. row[runId].count = 1
        BY <2>1 DEF PageInv, CancelledOnce
    <2>3. GaplessFrom(1)
        BY <2>1, <2>2, <1>4 DEF ResumeRun, PageInv, GapsNeedEvents
    <2>4. GaplessFrom(1)'
        BY <2>1, <2>3 DEF GaplessFrom, Numbers
    <2> QED BY <1>1, <1>2, <2>1, <2>4
            DEF PageInv, TimelineInv, NoRepeat, SourceIsCurrent, Continues, GapsNeedEvents
<1> QED BY <1>3, <1>4

\* An event is left out if its number is on display; otherwise it is the next after
\* all of them.
LEMMA EventKeeps ==
    ASSUME BoundsAssumption, PageInv, OnRunEvent
    PROVE  TimelineInv'
<1>0. PICK c, r : c = Len(received) + 1 /\ r = source.run
    OBVIOUS
<1>1. /\ source.state = "open" /\ wire # <<>> /\ Head(wire).kind = "run_event"
      /\ received' = Append(received, Head(wire).cursor)
      /\ source'.run = r
      /\ shown' = Appended(r, Head(wire).cursor)
      /\ UNCHANGED <<row, runId>>
    <2>1. source \in [state : {"none", "connecting", "open", "closed"},
                     run : Stream!RunIds \cup {0}, lastId : {Stream!NoHeader} \cup 0..MaxEvents]
        BY DEF PageInv, StreamInv, Stream!TypeOK
    <2> QED BY <1>0, <2>1 DEF OnRunEvent, Stream!Take
<1>2. /\ Head(wire).cursor = c /\ c \in 1..MaxEvents /\ c <= row[r].count
      /\ r \in RunIds /\ Len(received) \in Nat
    BY <1>0, <1>1, NextFrame, StreamedRun, Typed DEF PageInv
<1>3. Len(received') = c
    <2>1. received \in Seq(1..MaxEvents)
        BY DEF PageInv, StreamInv, Stream!TypeOK
    <2> QED BY <1>0, <1>1, <1>2, <2>1, AppendedItem
<1>4. r = runId /\ runId # 0
    <2>1. 0 \notin RunIds
        BY DEF RunIds
    <2> QED BY <1>0, <1>2, <2>1 DEF PageInv, SourceIsCurrent
<1>5. GaplessFrom(c) /\ (row[runId].count < 2 => GaplessFrom(1)) /\ NoRepeat
    BY <1>0, <1>2, <1>4 DEF PageInv, Continues, GapsNeedEvents
<1>6. row[runId].count \in Nat /\ (row[runId].count < 2 => c = 1)
    <2>1. row \in [RunIds -> [status : Stream!Statuses, count : 0..MaxEvents]]
        BY SameRuns DEF PageInv, StreamInv, Stream!TypeOK
    <2>2. row[runId].count \in Nat
        BY <1>2, <1>4, <2>1
    <2> QED BY <1>2, <1>4, <2>2
<1>7. shown \in Seq(RunIds \X (1..MaxEvents)) /\ Len(shown) \in Nat
      /\ \A n \in Numbers : n \in Nat
    <2>1. shown \in Seq(RunIds \X (1..MaxEvents))
        BY DEF PageInv, TypeOK
    <2>2. \A i \in DOMAIN shown : shown[i] \in RunIds \X (1..MaxEvents)
        BY <2>1, ElementOfSeq
    <2> QED BY <2>1, <2>2, LenProperties DEF Numbers
<1>8. CASE c \in Numbers
    <2>1. shown' = shown
        BY <1>1, <1>2, <1>8 DEF Appended, Numbers
    <2>2. Numbers' = Numbers
        BY <2>1 DEF Numbers
    <2>3. \A n \in Numbers' : \A k \in c + 1..n : k \in Numbers'
        BY <1>2, <1>5, <1>7, <2>2 DEF GaplessFrom
    <2>4. row[runId].count < 2 => GaplessFrom(1)'
        BY <1>5, <2>2 DEF GaplessFrom
    <2>5. NoRepeat'
        BY <1>5, <2>1 DEF NoRepeat
    <2>6. Continues'
        BY <1>3, <2>3 DEF Continues, GaplessFrom
    <2> QED BY <1>1, <1>4, <2>4, <2>5, <2>6
            DEF TimelineInv, SourceIsCurrent, GapsNeedEvents
<1>9. CASE c \notin Numbers
    <2>1. shown' = Append(shown, <<r, c>>)
        BY <1>1, <1>2, <1>9 DEF Appended, Numbers
    <2>2. /\ Len(shown') = Len(shown) + 1 /\ DOMAIN shown' = 1..Len(shown) + 1
          /\ DOMAIN shown = 1..Len(shown)
          /\ \A i \in 1..Len(shown) : shown'[i] = shown[i]
          /\ shown'[Len(shown) + 1] = <<r, c>>
        <3>1. <<r, c>> \in RunIds \X (1..MaxEvents)
            BY <1>2
        <3> QED BY <1>7, <2>1, <3>1, AppendedItem
    <2>3. \A n \in Numbers : n < c
        BY <1>2, <1>5, <1>7, <1>9 DEF GaplessFrom
    <2>4. NoRepeat'
        <3>1. \A i \in 1..Len(shown) : shown'[i][2] < c
            BY <2>2, <2>3 DEF Numbers
        <3>2. ASSUME NEW i \in DOMAIN shown', NEW j \in DOMAIN shown', i < j
              PROVE  shown'[i][2] < shown'[j][2]
            <4>1. i \in 1..Len(shown)
                BY <1>7, <2>2, <3>2
            <4>2. CASE j = Len(shown) + 1
                BY <2>2, <3>1, <4>1, <4>2
            <4>3. CASE j \in 1..Len(shown)
                BY <1>5, <2>2, <3>2, <4>1, <4>3 DEF NoRepeat
            <4> QED BY <1>7, <2>2, <4>2, <4>3
        <3> QED BY <3>2 DEF NoRepeat
    <2>5. Numbers' = Numbers \cup {c}
        <3>1. \A i \in 1..Len(shown) : shown'[i][2] = shown[i][2]
            BY <2>2
        <3>2. shown'[Len(shown) + 1][2] = c
            BY <2>2
        <3>3. DOMAIN shown' = DOMAIN shown \cup {Len(shown) + 1}
            BY <1>7, <2>2
        <3> QED BY <2>2, <3>1, <3>2, <3>3 DEF Numbers
    <2>6. \A n \in Numbers' : \A k \in c + 1..n : k \in Numbers'
        BY <1>2, <1>7, <2>3, <2>5
    <2>7. row[runId].count < 2 => GaplessFrom(1)'
        <3>1. SUFFICES ASSUME c = 1 PROVE GaplessFrom(1)'
            BY <1>6
        <3>2. \A n \in Numbers' : \A k \in 1..n : k = c
            BY <1>2, <1>7, <2>3, <2>5, <3>1
        <3> QED BY <2>5, <3>2 DEF GaplessFrom
    <2>8. Continues'
        BY <1>3, <2>6 DEF Continues, GaplessFrom
    <2> QED BY <1>1, <1>4, <2>4, <2>7, <2>8
            DEF TimelineInv, SourceIsCurrent, GapsNeedEvents
<1> QED BY <1>8, <1>9

\* Every step of the page preserves the invariant.
LEMMA PageKeeps ==
    ASSUME BoundsAssumption, OutcomesAssumption, PageInv, [Next]_vars
    PROVE  PageInv'
<1>1. StreamInv /\ CancelledOnce /\ runId \in RunIds \cup {0}
    BY DEF PageInv, TypeOK
<1>2. [Stream!Next]_Stream!vars
    BY <1>1, PageStep
<1>3. StreamInv'
    BY <1>1, <1>2, StepSound
<1>4. /\ \A r \in RunIds : /\ row[r].count \in Nat /\ row'[r].count \in Nat
                           /\ row[r].count <= row'[r].count
      /\ CancelledOnce'
    BY <1>1, <1>2, RowStep
<1>5. TypeOK'
    BY <1>3, PageTyped DEF PageTypes, TypeOK, StreamInv
<1>6. ASSUME NEW r \in RunIds, SubmitMessage(r) \/ ResumeRun(r) PROVE TimelineInv'
    BY <1>6, OpenKeeps
<1>7. ASSUME OnRunEvent PROVE TimelineInv'
    BY <1>7, EventKeeps
<1>8. ASSUME NEW i \in CallIds, Render(i) PROVE TimelineInv'
    <2>1. calls[i] \in Calls
        BY DEF PageInv, TypeOK
    <2>2. calls[i].upto \in Nat
        BY <1>8, <2>1 DEF Calls, Render, BoundsAssumption
    <2>3. Len(received) \in Nat /\ SourceIsCurrent
        BY Typed DEF PageInv
    <2>4. /\ shown' = [k \in 1..calls[i].upto |-> <<calls[i].run, k>>]
          /\ UNCHANGED <<runId, source, received>>
        BY <1>8 DEF Render, channel
    <2> QED BY <2>2, <2>3, <2>4, TimelineCounted
<1>9. ASSUME ~\E r \in RunIds : SubmitMessage(r) \/ ResumeRun(r),
             ~OnRunEvent,
             ~\E i \in CallIds : Render(i)
      PROVE  TimelineInv'
    BY <1>4, <1>9, QuietStep, TimelineKept
<1>10. TimelineInv'
    BY <1>6, <1>7, <1>8, <1>9
<1> QED BY <1>3, <1>4, <1>5, <1>10 DEF PageInv, TimelineInv

\* The page keeps its invariant, for any number of runs, events, drops and refreshes.
THEOREM PageSound == Spec => []PageInv
<1>1. Init => PageInv
    BY PageInit, BoundsAssumption
<1>2. PageInv /\ [Next]_vars => PageInv'
    BY PageKeeps, BoundsAssumption, OutcomesAssumption
<1> QED BY <1>1, <1>2, PTL DEF Spec

\* The page uses the stream as RunStream says: its buttons, handlers and polls do
\* nothing else to rows, connections and frames.
THEOREM PageUsesStream == Spec => Stream!Spec
<1>1. Init => Stream!Init
    BY DEF Init
<1>2. PageInv /\ [Next]_vars => [Stream!Next]_Stream!vars
    BY PageStep, BoundsAssumption, OutcomesAssumption DEF PageInv, TypeOK
<1> QED BY <1>1, <1>2, PageSound, PTL DEF Spec, Stream!Spec

\* What the page shows is what happened: every event once and in order, all of them
\* before the end, and a timeline that repeats none.
THEOREM ShowsFaithfully == Spec => []ShownFaithfully
<1>1. PageInv => NoRepeat
    BY DEF PageInv
<1>2. Spec => []Stream!OnceInOrder /\ []Stream!EndIsComplete
    BY PageUsesStream, DeliveredOnceInOrder, EndComesLast, PTL
<1>3. NoRepeat /\ Stream!OnceInOrder /\ Stream!EndIsComplete => ShownFaithfully
    BY DEF ShownFaithfully, OnceInOrder, EndIsComplete
<1> QED BY <1>1, <1>2, <1>3, PageSound, PTL
=============================================================================
