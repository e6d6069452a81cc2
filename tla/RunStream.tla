----------------------------- MODULE RunStream -----------------------------
(***************************************************************************)
(* run-stream:v1, the stream of one diagnosis run over Server-Sent Events. *)
(* The server reads the row of the run and then its new events, in two     *)
(* transactions, and sends what changed; the worker commits between any    *)
(* two reads.  The browser's EventSource takes the frames one by one,      *)
(* reconnects by itself with the id of the last one it took, and gives up  *)
(* when the server answers a connection with an HTTP error.                *)
(***************************************************************************)
EXTENDS StreamBounds, Sequences

VARIABLES row,        \* run -> its status and the number of its events
          conn,       \* the server's generator: where it stands, what it read
          wire,       \* frames sent and not taken yet, in order
          source,     \* the browser's EventSource
          received,   \* the events this EventSource has delivered, in order
          breaks      \* connections dropped so far

vars == <<row, conn, wire, source, received, breaks>>
channel == <<conn, wire, source, received, breaks>>

TerminalStatuses == {"completed", "failed", "cancelled"}
Statuses == {"absent", "queued", "running"} \cup TerminalStatuses
EndReasons == TerminalStatuses \cup {"stream_timeout"}

NoHeader == -1
Frames == [kind : {"run_snapshot", "run_event", "stream_end"},
           cursor : 0..MaxEvents, status : Statuses,
           reason : EndReasons \cup {"none"}]

Snapshot(c, s) == [kind |-> "run_snapshot", cursor |-> c, status |-> s, reason |-> "none"]
Event(c, s) == [kind |-> "run_event", cursor |-> c, status |-> s, reason |-> "none"]
EndFrame(c, s, why) == [kind |-> "stream_end", cursor |-> c, status |-> s, reason |-> why]

Off == [at |-> "off", run |-> 0, cursor |-> 0, read |-> "absent"]
NoSource == [state |-> "none", run |-> 0, lastId |-> NoHeader]

Terminal(s) == s \in TerminalStatuses

TypeOK ==
    /\ row \in [RunIds -> [status : Statuses, count : 0..MaxEvents]]
    /\ conn \in [at : {"off", "get_run", "get_events"}, run : RunIds \cup {0},
                 cursor : 0..MaxEvents, read : Statuses]
    /\ wire \in Seq(Frames)
    /\ source \in [state : {"none", "connecting", "open", "closed"},
                   run : RunIds \cup {0}, lastId : {NoHeader} \cup 0..MaxEvents]
    /\ received \in Seq(1..MaxEvents)
    /\ breaks \in 0..MaxBreaks

Init ==
    /\ row = [r \in RunIds |-> [status |-> "absent", count |-> 0]]
    /\ conn = Off
    /\ wire = <<>>
    /\ source = NoSource
    /\ received = <<>>
    /\ breaks = 0

(***************************************************************************)
(* The row, as the queue and the workers commit it.                        *)
(***************************************************************************)
\* A session takes its next run when it has none active.
Create(r) ==
    /\ row[r].status = "absent"
    /\ \A q \in RunIds : q < r => Terminal(row[q].status)
    /\ row' = [row EXCEPT ![r] = [status |-> "queued", count |-> 0]]

Start(r) ==
    /\ row[r].status = "queued"
    /\ row' = [row EXCEPT ![r] = [status |-> "running", count |-> 0]]

\* The terminal status and the whole timeline are one transaction; a run that
\* fails or is cancelled has the one event that says so.
End(r, s, n) ==
    /\ row[r].status \in (IF s = "cancelled" THEN {"queued", "running"} ELSE {"running"})
    /\ s # "completed" => n = 1
    /\ row' = [row EXCEPT ![r] = [status |-> s, count |-> n]]

(***************************************************************************)
(* The EventSource and its connections.                                    *)
(***************************************************************************)
\* The page opens an EventSource for run r, having closed the one it had.
Open(r) ==
    /\ source' = [state |-> "connecting", run |-> r, lastId |-> NoHeader]
    /\ conn' = Off
    /\ wire' = <<>>
    /\ received' = <<>>
    /\ UNCHANGED breaks

Close ==
    /\ source' = NoSource
    /\ conn' = Off
    /\ wire' = <<>>
    /\ received' = <<>>
    /\ UNCHANGED breaks

\* The header of a reconnection wins over the query parameter, which the page
\* never sends.
ResolveCursorParameter(lastId) == 0
ResolveCursor(lastId) == IF lastId >= 0 THEN lastId ELSE 0

Connect ==
    /\ source.state = "connecting"
    /\ row[source.run].status # "absent"
    /\ source' = [source EXCEPT !.state = "open"]
    /\ conn' = [at |-> "get_run", run |-> source.run,
                cursor |-> ResolveCursor(source.lastId), read |-> "absent"]
    /\ UNCHANGED <<row, wire, received, breaks>>

\* An HTTP error answers the connection: the EventSource never tries again.
Refuse ==
    /\ source.state = "connecting"
    /\ source' = [source EXCEPT !.state = "closed"]
    /\ UNCHANGED <<conn, wire, received, breaks>>

\* The connection drops with what is on its way, and is tried again.
Break ==
    /\ source.state = "open"
    /\ breaks < MaxBreaks
    /\ breaks' = breaks + 1
    /\ source' = [source EXCEPT !.state = "connecting"]
    /\ conn' = Off
    /\ wire' = <<>>
    /\ UNCHANGED received

(***************************************************************************)
(* The server's generator: the row first, then the events after the        *)
(* cursor; whether the run has ended is the answer of the first read.      *)
(***************************************************************************)

GetRun ==
    /\ conn.at = "get_run"
    /\ LET s == row[conn.run].status
       IN  /\ wire' = IF s = conn.read THEN wire ELSE Append(wire, Snapshot(conn.cursor, s))
           /\ conn' = [conn EXCEPT !.at = "get_events", !.read = s]
    /\ UNCHANGED <<row, source, received, breaks>>

\* The frames of the events after cursor c, when the run has n.
NewEvents(c, n) ==
    [i \in 1..(IF n > c THEN n - c ELSE 0) |-> Event(c + i, conn.read)]

Reached(c, n) == IF n > c THEN n ELSE c

GetEvents ==
    /\ conn.at = "get_events"
    /\ LET n == row[conn.run].count
           cursor == Reached(conn.cursor, n)
           sent == wire \o NewEvents(conn.cursor, n)
       IN  \/ /\ Terminal(conn.read)
              /\ wire' = Append(sent, EndFrame(cursor, conn.read, conn.read))
              /\ conn' = Off
           \/ /\ ~Terminal(conn.read)          \* the connection's time is up
              /\ wire' = Append(sent, EndFrame(cursor, conn.read, "stream_timeout"))
              /\ conn' = Off
           \/ /\ ~Terminal(conn.read)
              /\ wire' = sent
              /\ conn' = [conn EXCEPT !.at = "get_run", !.cursor = cursor]
    /\ UNCHANGED <<row, source, received, breaks>>

\* The EventSource hands the next frame, of one kind, to the page's handler.
Take(kind) ==
    /\ source.state = "open"
    /\ wire # <<>>
    /\ Head(wire).kind = kind
    /\ wire' = Tail(wire)
    /\ source' = [source EXCEPT !.lastId = Head(wire).cursor]
    /\ received' = IF kind = "run_event" THEN Append(received, Head(wire).cursor) ELSE received
    /\ UNCHANGED <<conn, breaks>>

\* The page closes the EventSource on the frame that ends the stream.
TakeEnd ==
    /\ source.state = "open"
    /\ wire # <<>>
    /\ Head(wire).kind = "stream_end"
    /\ Close

Worker ==
    \E r \in RunIds :
        \/ Create(r) \/ Start(r)
        \/ \E s \in TerminalStatuses, n \in 1..MaxEvents : End(r, s, n)

Client ==
    \/ \E r \in RunIds : row[r].status # "absent" /\ Open(r)
    \/ Close \/ Refuse \/ Break
    \/ Take("run_snapshot") \/ Take("run_event") \/ TakeEnd

\* The page that submits a run opens its stream with the answer.
Submit == \E r \in RunIds : Create(r) /\ Open(r)

Next ==
    \/ Worker /\ UNCHANGED channel
    \/ Client /\ UNCHANGED row
    \/ Submit
    \/ Connect \/ GetRun \/ GetEvents

Spec == Init /\ [][Next]_vars

(***************************************************************************)
(* Properties                                                              *)
(***************************************************************************)
\* The EventSource delivers the events of its run from the first, in order and
\* each once, however often the connection dropped (streaming.py 173-282).
OnceInOrder ==
    /\ \A i \in DOMAIN received : received[i] = i
    /\ source.run # 0 => Len(received) <= row[source.run].count

\* When the frame that ends the stream with the run's own end is taken next,
\* the whole timeline was delivered before it (README.md 48).
EndIsComplete ==
    (source.state = "open" /\ wire # <<>>) =>
        LET f == Head(wire)
        IN  (f.kind = "stream_end" /\ f.reason # "stream_timeout") =>
                /\ row[source.run].status = f.status
                /\ Len(received) = row[source.run].count
=============================================================================
