------------------------------ MODULE Splitter ------------------------------
(***************************************************************************)
(* The chunk splitter (chunking/splitter.py): a text is cut into chunks at *)
(* blank lines, merged up to MaxChars, and cut again at sentence ends,     *)
(* line ends or spaces where one part is longer.                           *)
(*                                                                         *)
(* A text is a function from 0 .. n - 1 to what the splitter tells apart:  *)
(* a word character, a space, a newline, the end of a sentence (the full   *)
(* stop of an abbreviation or a number is a word character), and, at the   *)
(* start of a line, its mark: "head" is a section label, "title" another   *)
(* heading, "numbered" one that is also a list item.                       *)
(* A span is <<start, end>>, its end excluded.  The limits are those the   *)
(* program uses, the defaults.                                             *)
(***************************************************************************)
EXTENDS Integers, Sequences, FiniteSets, SequencesExt

CONSTANTS MaxChars, MinChars, Overlap, TargetChars

White == {"space", "newline"}
Headings == {"head", "title", "numbered"}
Items == {"item", "numbered"}
Marks == Headings \cup Items \cup {"question", "row"}
Structured == {"list", "table", "faq", "clause"}

Length(span) == span[2] - span[1]

\* The numbers of a finite set, in order.
Ascending(S) ==
    [k \in 1..Cardinality(S) |-> CHOOSE a \in S : Cardinality({b \in S : b < a}) = k - 1]

\* The maximal intervals of a set of positions, in order.
EndOf(S, a) == CHOOSE b \in {p + 1 : p \in S} : b > a /\ b \notin S /\ a..b - 1 \subseteq S

Stretches(S) ==
    LET starts == Ascending({p \in S : p - 1 \notin S})
    IN  [k \in DOMAIN starts |-> <<starts[k], EndOf(S, starts[k])>>]

Trim(text, s, e) ==
    LET inked == {p \in s..e - 1 : text[p] \notin White}
    IN  IF inked = {} THEN <<e, e>> ELSE <<Min(inked), Max(inked) + 1>>

-----------------------------------------------------------------------------
(* Units *)

\* Between two newlines of one white run, these included.
Blank(text) ==
    LET newlines == {p \in DOMAIN text : text[p] = "newline"}
        ends == {i \in newlines \X newlines :
                    i[1] < i[2] /\ \A p \in i[1]..i[2] : text[p] \in White}
    IN  UNION {i[1]..i[2] : i \in ends}

Blocks(text) == Stretches((DOMAIN text) \ Blank(text))

\* The lines that are not blank.
Lines(text, block) ==
    LET positions == block[1]..block[2] - 1
        SameLine(p, q) == \A r \in (p..q) \cup (q..p) : text[r] # "newline"
    IN  Stretches({p \in positions : \E q \in positions : text[q] \notin White /\ SameLine(p, q)})

LineKind(text, line) ==
    LET t == Trim(text, line[1], line[2])
        mark == text[t[1]]
        notHeading == [head |-> "label", title |-> "prose", numbered |-> "item"]
    IN  IF mark \in Headings /\ text[t[2] - 1] = "stop" THEN notHeading[mark]
        ELSE IF mark \in Marks THEN mark ELSE "prose"

Classify(kinds) ==
    CASE \E i \in DOMAIN kinds : kinds[i] = "row" -> "table"
      [] \A i \in DOMAIN kinds : kinds[i] \in Items -> "list"
      [] kinds = <<"question">> -> "faq"
      [] Len(kinds) = 1 /\ kinds[1] \in Headings -> "heading"
      [] Len(kinds) > 1 /\ kinds[1] \in {"head", "label"} -> "clause"
      [] OTHER -> "prose"

Unit(span, kind) == [start |-> span[1], end |-> span[2], kind |-> kind, paired |-> FALSE]

\* A heading on the first of several lines, not all list items, is a unit of its own.
UnitsOfBlock(text, block) ==
    LET lines == Lines(text, block)
        kinds == [i \in DOMAIN lines |-> LineKind(text, lines[i])]
        titled == kinds[1] \in Headings /\ \E i \in DOMAIN kinds : kinds[i] \notin Items
        whole == Trim(text, block[1], block[2])
    IN  IF lines = <<>> THEN <<>>
        ELSE IF Len(lines) >= 2 /\ titled
        THEN <<Unit(Trim(text, lines[1][1], lines[1][2]), "heading"),
               Unit(Trim(text, lines[2][1], whole[2]), Classify(Tail(kinds)))>>
        ELSE <<Unit(whole, Classify(kinds))>>

ParagraphUnits(text) ==
    LET blocks == Blocks(text)
    IN  FlattenSeq([i \in DOMAIN blocks |-> UnitsOfBlock(text, blocks[i])])

\* Lists and tables that follow each other are one unit; so are a question and its answer.
AddUnit(us, u) ==
    LET last == us[Len(us)]
        sameKind == u.kind \in {"list", "table"} /\ last.kind = u.kind
        answers == /\ last.kind = "faq" /\ ~ last.paired
                   /\ u.kind \in {"prose", "clause", "list", "table"}
                   /\ u.end - last.start <= MaxChars + TargetChars
    IN  IF us # <<>> /\ (sameKind \/ answers)
        THEN [us EXCEPT ![Len(us)] = [start |-> last.start, end |-> u.end, kind |-> last.kind,
                                      paired |-> ~ sameKind]]
        ELSE Append(us, u)

Coalesce(units) ==
    LET joined[i \in 0..Len(units)] ==
            IF i = 0 THEN <<>> ELSE AddUnit(joined[i - 1], units[i])
    IN  joined[Len(units)]

-----------------------------------------------------------------------------
(* Spans *)

\* After the end of a sentence, the spaces and the newline behind it; and after a newline.
BreakOffsets(text, s, e) ==
    LET Ends == {p \in s..e - 1 : text[p] = "stop"
                                   /\ (p + 1 = e \/ text[p + 1] \in White)}
        PastSpaces(p) == CHOOSE q \in p + 1..e :
                            /\ \A r \in p + 1..q - 1 : text[r] = "space"
                            /\ q = e \/ text[q] # "space"
        After(p) == LET q == PastSpaces(p)
                    IN  IF q < e /\ text[q] = "newline" THEN q + 1 ELSE q
    IN  {After(p) : p \in Ends} \cup {p + 1 : p \in {p \in s..e - 1 : text[p] = "newline"}}

\* Mutant: the window is not limited by the end of the chunk.
ChooseBreak_PastHard(breaks, s, floor, hard) ==
    IF \E b \in breaks : floor <= b THEN Max({b \in breaks : floor <= b}) ELSE s

\* The last break of the window, or else the last break before it.
ChooseBreak(breaks, s, floor, hard) ==
    LET inWindow == {b \in breaks : floor <= b /\ b <= hard}
        earlier == {b \in breaks : s < b /\ b <= hard}
    IN  IF inWindow # {} THEN Max(inWindow) ELSE IF earlier # {} THEN Max(earlier) ELSE s

\* A space of the window, or else a newline or a space behind the cursor.
SoftBreak(text, cursor, floor, hard) ==
    LET At(class, from) == {p + 1 : p \in {p \in from..hard - 1 : text[p] = class /\ p > cursor}}
        soft == IF At("space", floor) # {} THEN At("space", floor)
                ELSE IF At("newline", cursor + 1) # {} THEN At("newline", cursor + 1)
                ELSE At("space", cursor + 1)
    IN  IF soft = {} THEN hard ELSE Max(soft)

NextCursor(cursor, breakAt) == Max({breakAt - Overlap, cursor + 1})

BreakAt(text, breaks, s, cursor, preferList) ==
    LET hard == cursor + MaxChars
        floor == cursor + (MaxChars * (IF preferList THEN 5 ELSE 7)) \div 10
        chosen == ChooseBreak(breaks, s, floor, hard)
    IN  IF chosen > cursor THEN chosen ELSE SoftBreak(text, cursor, floor, hard)

SplitSpan(text, s, e, preferList) ==
    LET breaks == BreakOffsets(text, s, e)
        parts[cursor \in s..e] ==
            LET breakAt == BreakAt(text, breaks, s, cursor, preferList)
            IN  IF cursor + MaxChars >= e THEN <<<<cursor, e>>>>
                ELSE <<<<cursor, breakAt>>>> \o parts[NextCursor(cursor, breakAt)]
    IN  IF e - s <= MaxChars THEN <<<<s, e>>>> ELSE parts[s]

Flush(text, buffer) ==
    IF buffer.start >= buffer.end THEN buffer
    ELSE [spans |-> buffer.spans \o SplitSpan(text, buffer.start, buffer.end, buffer.structured),
          start |-> buffer.end, end |-> buffer.end, structured |-> FALSE]

MergeUnit(text, buffer, unit) ==
    LET atCapacity == unit.end - buffer.start > MaxChars
        softBoundary ==
            /\ buffer.end - buffer.start >= TargetChars
            /\ unit.kind \in Structured \cup {"heading"}
            /\ unit.end - unit.start >= MinChars
        fresh == [spans |-> Flush(text, buffer).spans, start |-> unit.start, end |-> unit.end,
                  structured |-> unit.kind \in Structured]
    IN  IF atCapacity \/ softBoundary
        THEN IF unit.end - unit.start > MaxChars THEN Flush(text, fresh) ELSE fresh
        ELSE [spans |-> buffer.spans, start |-> buffer.start, end |-> unit.end,
              structured |-> buffer.structured \/ unit.kind \in Structured]

\* A last span that is too short joins the one before it, if there is room.
JoinShortTail(spans) ==
    LET n == Len(spans)
    IN  IF /\ n >= 2 /\ Length(spans[n]) < MinChars
           /\ spans[n][2] - spans[n - 1][1] <= MaxChars
        THEN Append(SubSeq(spans, 1, n - 2), <<spans[n - 1][1], spans[n][2]>>)
        ELSE spans

MergeUnits(text, units) ==
    LET first == [spans |-> <<>>, start |-> units[1].start, end |-> units[1].end,
                  structured |-> units[1].kind \in Structured]
        merged[i \in 1..Len(units)] ==
            IF i = 1 THEN first ELSE MergeUnit(text, merged[i - 1], units[i])
    IN  IF units = <<>> THEN <<>> ELSE JoinShortTail(Flush(text, merged[Len(units)]).spans)

\* The heading within a chunk, or else the last one before it.
HeadingCovering(units, s, e) ==
    LET within == {u \in ToSet(units) : u.kind = "heading" /\ u.start < e /\ u.end > s}
        before == {u \in ToSet(units) : u.kind = "heading" /\ u.end <= s}
    IN  IF within # {} THEN Min({u.start : u \in within})
        ELSE IF before # {} THEN Max({u.start : u \in before}) ELSE -1

\* What is left of a span without the white space around it, if anything is.
ChunkOf(text, units, span) ==
    LET t == Trim(text, span[1], span[2])
    IN  IF t[1] >= t[2] THEN <<>>
        ELSE <<[start |-> t[1], end |-> t[2], heading |-> HeadingCovering(units, t[1], t[2])]>>

\* split_persian_document: the chunks of a text, each with its heading.
Split(text) ==
    LET units == Coalesce(ParagraphUnits(text))
        spans == MergeUnits(text, units)
    IN  FlattenSeq([i \in DOMAIN spans |-> ChunkOf(text, units, spans[i])])

-----------------------------------------------------------------------------
(* Properties of Split *)

\* No word of the text is lost, no chunk is longer than MaxChars, and no chunk begins or ends
\* with white space.
ChunksCover(text, chunks) ==
    /\ {p \in DOMAIN text : text[p] \notin White}
         \subseteq UNION {c.start..c.end - 1 : c \in ToSet(chunks)}
    /\ \A c \in ToSet(chunks) :
          /\ 0 < c.end - c.start /\ c.end - c.start <= MaxChars
          /\ <<c.start, c.end>> = Trim(text, c.start, c.end)

\* specs/003-chunking, CH-05: the order of the chunks is the order of their starts.
ChunkOrder(chunks) ==
    \A i \in 1..Len(chunks) - 1 : chunks[i].start < chunks[i + 1].start
=============================================================================
