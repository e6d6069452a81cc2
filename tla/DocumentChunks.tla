--------------------------- MODULE DocumentChunks ---------------------------
(***************************************************************************)
(* How a Markdown document becomes chunks (retrieval/chunking.py).         *)
(*                                                                         *)
(* A line is <<"heading", level>>, <<"text", length>> or <<"blank", 0>>;   *)
(* its content is its place in the document.  A piece of text is           *)
(* <<line, part>>; a unit is what packing never divides.                   *)
(***************************************************************************)
EXTENDS Integers, Sequences, SequencesExt

CONSTANT MaxChars   \* MAX_CHUNK_CHARS
ASSUME MaxCharsAssumption == MaxChars \in Nat \ {0}

Line == {<<"blank", 0>>} \cup ({"heading"} \X (1..6)) \cup ({"text"} \X (Nat \ {0}))

TotalLength(lengths) ==
    LET upTo[n \in 0..Len(lengths)] == IF n = 0 THEN 0 ELSE upTo[n - 1] + lengths[n]
    IN  upTo[Len(lengths)]

-----------------------------------------------------------------------------
(* Sections and paragraphs.                                                *)

\* A heading cuts the stack by its level, whatever levels the stack holds.
StackWith(stack, line) ==
    Append(SubSeq(stack, 1, IF line[2] - 1 < Len(stack) THEN line[2] - 1 ELSE Len(stack)), line)

\* The headings above what follows line i.
HeadingsAfter(doc, i) ==
    LET after[n \in 0..i] ==
            IF n = 0 THEN <<>>
            ELSE IF doc[n][1] = "heading" THEN StackWith(after[n - 1], doc[n]) ELSE after[n - 1]
    IN  after[i]

\* The lines collected before line i; blank lines alone are not kept.
Flushed(doc, s, i) ==
    IF \E j \in s.from..(i - 1) : doc[j][1] = "text"
    THEN Append(s.runs, [from |-> s.from, to |-> i - 1])
    ELSE s.runs

ReadLine(doc, kind, s, i) ==
    IF doc[i][1] = kind THEN [runs |-> Flushed(doc, s, i), from |-> i + 1] ELSE s

\* The lines from..to in runs, between those of this kind.
RunsOf(doc, kind, from, to) ==
    LET read[n \in 0..(to - from + 1)] ==
            IF n = 0 THEN [runs |-> <<>>, from |-> from]
            ELSE ReadLine(doc, kind, read[n - 1], from + n - 1)
    IN  Flushed(doc, read[to - from + 1], to + 1)

Sections(doc) == RunsOf(doc, "heading", 1, Len(doc))
Paragraphs(doc, section) == RunsOf(doc, "blank", section.from, section.to)

-----------------------------------------------------------------------------
(* Units and chunks.                                                       *)

\* A line longer than a chunk is cut every MaxChars characters.
Parts(length) == (length + MaxChars - 1) \div MaxChars
PartLength(length, p) == IF p < Parts(length) THEN MaxChars ELSE length - (p - 1) * MaxChars
Pieces(doc, i) ==
    [p \in 1..Parts(doc[i][2]) |->
        [text |-> << <<i, p>> >>, length |-> PartLength(doc[i][2], p)]]

\* What a unit makes of the box it is put into, the separator included; and the
\* same with the separator forgotten.
ProjectedTight(box, unit, gap) == box.length + unit.length
Projected(box, unit, gap) == box.length + gap + unit.length

\* A unit goes into the last box, or into a new one when it does not fit.
Put(boxes, unit, gap) ==
    IF boxes # <<>> /\ Projected(boxes[Len(boxes)], unit, gap) <= MaxChars
    THEN [boxes EXCEPT ![Len(boxes)] =
            [text |-> @.text \o unit.text, length |-> Projected(@, unit, gap)]]
    ELSE Append(boxes, unit)

Packed(units, gap) ==
    LET upTo[n \in 0..Len(units)] == IF n = 0 THEN <<>> ELSE Put(upTo[n - 1], units[n], gap)
    IN  upTo[Len(units)]

\* A paragraph that fits is one unit; another is cut at its lines.
Units(doc, paragraph) ==
    LET n == paragraph.to - paragraph.from + 1
        line(k) == paragraph.from + k - 1
        whole == [text |-> [k \in 1..n |-> <<line(k), 1>>],
                  length |-> TotalLength([k \in 1..n |->
                                doc[line(k)][2] + (IF k = 1 THEN 0 ELSE 1)])]
    IN  IF whole.length <= MaxChars THEN <<whole>>
        ELSE Packed(FlattenSeq([k \in 1..n |-> Pieces(doc, line(k))]), 1)

SectionChunks(doc, section) ==
    LET ps == Paragraphs(doc, section)
        boxes == Packed(FlattenSeq([k \in DOMAIN ps |-> Units(doc, ps[k])]), 2)
    IN  [k \in DOMAIN boxes |-> [path |-> HeadingsAfter(doc, section.to),
                                 text |-> boxes[k].text, length |-> boxes[k].length]]

\* chunk_markdown_document: the ordinal of a chunk is its place.
Chunks(doc) ==
    LET sections == Sections(doc)
    IN  FlattenSeq([k \in DOMAIN sections |-> SectionChunks(doc, sections[k])])

-----------------------------------------------------------------------------
(* What the chunks of a document have to be.                               *)

\* The pieces of the document's text, and their order.
AllPieces(doc) ==
    UNION {{i} \X (1..Parts(doc[i][2])) : i \in {j \in DOMAIN doc : doc[j][1] = "text"}}
Precedes(x, y) == x[1] < y[1] \/ (x[1] = y[1] /\ x[2] < y[2])

\* Characters between a piece and the next: a blank line takes two.
Apart(doc, x, y) == IF \E i \in x[1]..y[1] : doc[i][1] = "blank" THEN 2 ELSE 1
SizeOf(doc, text) ==
    TotalLength([i \in DOMAIN text |->
                    PartLength(doc[text[i][1]][2], text[i][2])
                      + (IF i = 1 THEN 0 ELSE Apart(doc, text[i - 1], text[i]))])
SameSection(doc, x, y) == ~\E i \in x[1]..y[1] : doc[i][1] = "heading"

\* No chunk is longer than a chunk may be, the separators its parts are joined with
\* included; no two neighbours of one section would have made one chunk; and the chunks
\* hold the document's text, all of it and in order.
AreTheDocument(doc, chunks) ==
    LET text == FlattenSeq([i \in DOMAIN chunks |-> chunks[i].text])
    IN  /\ \A i \in DOMAIN chunks :
            LET chunk == chunks[i].text
            IN  /\ SizeOf(doc, chunk) = chunks[i].length /\ chunks[i].length <= MaxChars
                /\ SameSection(doc, chunk[1], chunk[Len(chunk)])
                /\ i < Len(chunks) /\ SameSection(doc, chunk[1], chunks[i + 1].text[1])
                    => SizeOf(doc, chunk \o chunks[i + 1].text) > MaxChars
        /\ \A i \in {j \in DOMAIN doc : doc[j][1] = "text"} :
              TotalLength([p \in 1..Parts(doc[i][2]) |-> PartLength(doc[i][2], p)]) = doc[i][2]
        /\ {text[i] : i \in DOMAIN text} = AllPieces(doc)
        /\ \A i \in 1..(Len(text) - 1) : Precedes(text[i], text[i + 1])
=============================================================================
