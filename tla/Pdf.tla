-------------------------------- MODULE Pdf --------------------------------
(***************************************************************************)
(* How the text of a Persian PDF is put together from what is printed on   *)
(* its pages (processing/parsers/pdf.py): runs of glyphs into rows, rows   *)
(* into blocks, blocks in reading order into paragraphs, and the headers   *)
(* and footers that pages share taken away.                                *)
(*                                                                         *)
(* Boxes have corners (x0, y0) and (x1, y1), y growing downward.  A line   *)
(* of a block says whether it begins with a bullet and whether it ends     *)
(* with a question mark, another mark that ends a sentence, or neither.    *)
(* Spaces between runs, and repairs within a line, are left out; no two    *)
(* boxes begin at one place.                                               *)
(***************************************************************************)
EXTENDS Integers, Sequences, FiniteSets, SequencesExt

CONSTANTS
    PageWidth,
    MarginLines     \* of a page, at the top and at the bottom (code: 2)

ByPlace(a, b) == a.y0 < b.y0 \/ (a.y0 = b.y0 /\ a.x0 < b.x0)
InOrder(boxes) == SortSeq(boxes, ByPlace)

\* Twice the median of numbers.
DoubleMedian(numbers) ==
    LET s == SortSeq(numbers, LAMBDA a, b : a <= b)
    IN  s[(Len(s) + 1) \div 2] + s[Len(s) \div 2 + 1]

Heights(boxes) == [i \in DOMAIN boxes |-> boxes[i].y1 - boxes[i].y0]

-----------------------------------------------------------------------------
(* A block *)

\* _cluster_text_runs: a row goes on while a run starts near the start of the row.
ClusterRuns(runs) ==
    LET Near(row, run) == 4 * (run.y0 - row[1].y0) <= DoubleMedian(Heights(runs))
        Add(rows, run) ==
            IF rows # <<>> /\ Near(Last(rows), run)
            THEN Append(Front(rows), Append(Last(rows), run))
            ELSE Append(rows, <<run>>)
    IN  FoldLeft(Add, <<>>, InOrder(runs))

\* _join_row_runs: a Persian row is read from the right.
JoinRow(row, arabic) ==
    SortSeq(row, LAMBDA a, b : IF arabic THEN a.x0 > b.x0 ELSE a.x0 < b.x0)

BlockRows(runs, arabic) ==
    LET rows == ClusterRuns(runs) IN [i \in DOMAIN rows |-> JoinRow(rows[i], arabic)]

MustKeepLineBreak(previous, current) ==
    previous.end # "none" \/ previous.bullet \/ current.bullet \/ current.end = "question"

\* What a paragraph of lines begins and ends like.
AsLine(lines) == [bullet |-> lines[1].bullet, end |-> Last(lines).end]

\* _reflow_block: the paragraphs of the lines of a block.
Reflow(lines) ==
    LET Add(paragraphs, line) ==
            IF paragraphs = <<>> \/ MustKeepLineBreak(AsLine(Last(paragraphs)), line)
            THEN Append(paragraphs, <<line>>)
            ELSE Append(Front(paragraphs), Append(Last(paragraphs), line))
    IN  FoldLeft(Add, <<>>, lines)

-----------------------------------------------------------------------------
(* The order of blocks *)

Top(blocks) == Min({blocks[i].y0 : i \in DOMAIN blocks})
Bottom(blocks) == Max({blocks[i].y1 : i \in DOMAIN blocks})

VerticalRangesOverlap(left, right) ==
    LET overlap == Max({0, Min({Bottom(left), Bottom(right)}) - Max({Top(left), Top(right)})})
        shortest == Min({Bottom(left) - Top(left), Bottom(right) - Top(right)})
    IN  shortest > 0 /\ 2 * overlap >= shortest

IsNarrow(block) == 100 * (block.x1 - block.x0) <= 62 * PageWidth
IsLeft(block) == IsNarrow(block) /\ 100 * block.x1 <= 58 * PageWidth
IsRight(block) == IsNarrow(block) /\ 100 * block.x0 >= 42 * PageWidth

Columns(blocks) ==
    LET left == SelectSeq(blocks, IsLeft)
        right == SelectSeq(blocks, IsRight)
    IN  Len(blocks) >= 4 /\ Len(left) >= 2 /\ Len(right) >= 2 /\ VerticalRangesOverlap(left, right)

MostlyArabic(blocks) == 2 * Len(SelectSeq(blocks, LAMBDA b : b.arabic)) >= Len(blocks)

\* Mutant: what is as wide as the page comes before the columns or after them.
OrderBlocks_NoMiddle(blocks) ==
    LET left == SelectSeq(blocks, IsLeft)
        right == SelectSeq(blocks, IsRight)
        Full(b) == ~IsLeft(b) /\ ~IsRight(b)
        before == SelectSeq(blocks, LAMBDA b : Full(b) /\ b.y1 <= Top(left \o right))
        after == SelectSeq(blocks, LAMBDA b : Full(b) /\ b.y0 >= Bottom(left \o right))
        columns == IF MostlyArabic(left \o right) THEN InOrder(right) \o InOrder(left)
                   ELSE InOrder(left) \o InOrder(right)
    IN  IF Columns(blocks) THEN InOrder(before) \o columns \o InOrder(after) ELSE InOrder(blocks)

\* _order_text_blocks: a block in the middle of a page with two columns comes after both.
OrderBlocks(blocks) ==
    LET left == SelectSeq(blocks, IsLeft)
        right == SelectSeq(blocks, IsRight)
        Full(b) == ~IsLeft(b) /\ ~IsRight(b)
        IsBefore(b) == b.y1 <= Top(left \o right)
        IsAfter(b) == b.y0 >= Bottom(left \o right)
        before == SelectSeq(blocks, LAMBDA b : Full(b) /\ IsBefore(b))
        middle == SelectSeq(blocks, LAMBDA b : Full(b) /\ ~IsBefore(b) /\ ~IsAfter(b))
        after == SelectSeq(blocks, LAMBDA b : Full(b) /\ IsAfter(b))
        columns == IF MostlyArabic(left \o right) THEN InOrder(right) \o InOrder(left)
                   ELSE InOrder(left) \o InOrder(right)
    IN  IF Columns(blocks)
        THEN InOrder(before) \o columns \o InOrder(middle) \o InOrder(after)
        ELSE InOrder(blocks)

-----------------------------------------------------------------------------
(* Paragraphs *)

\* _blocks_form_wrapped_line: the gap is small, and at least half of the shorter is shared.
FormWrappedLine(previous, current, doubleHeight) ==
    LET gap == current.y0 - previous.y1
        overlap == Max({0, Min({previous.x1, current.x1}) - Max({previous.x0, current.x0})})
        shortest == Min({previous.x1 - previous.x0, current.x1 - current.x0})
    IN  /\ previous.arabic = current.arabic
        /\ ~MustKeepLineBreak(AsLine(previous.lines), AsLine(current.lines))
        /\ 8 * gap >= -doubleHeight /\ 40 * gap <= 11 * doubleHeight
        /\ shortest > 0 /\ 2 * overlap >= shortest

\* _join_wrapped_blocks
JoinWrapped(blocks) ==
    LET height == DoubleMedian(Heights(blocks))
        Add(paragraphs, block) ==
            IF paragraphs # <<>> /\ FormWrappedLine(Last(Last(paragraphs)), block, height)
            THEN Append(Front(paragraphs), Append(Last(paragraphs), block))
            ELSE Append(paragraphs, <<block>>)
    IN  FoldLeft(Add, <<>>, blocks)

PageText(blocks) == IF blocks = <<>> THEN <<>> ELSE JoinWrapped(OrderBlocks(blocks))

\* The lines that are read, each of one or more that are printed: the first line of a
\* block that was joined to another goes on with the last line of that.
LinesRead(blocks) ==
    LET Add(lines, block) ==
            LET own == Reflow(block.lines)
            IN  IF lines = <<>> THEN own
                ELSE Front(lines) \o <<Last(lines) \o own[1]>> \o Tail(own)
        paragraphs == PageText(blocks)
    IN  FlattenSeq([i \in DOMAIN paragraphs |-> FoldLeft(Add, <<>>, paragraphs[i])])

-----------------------------------------------------------------------------
(* Headers and footers: a line of a page has a key and a length *)

InMargin(page, i) == i <= MarginLines \/ i > Len(page) - MarginLines

\* A line that is too short or too long makes no key repeated, but may have one.
MarginKeys(page) ==
    {page[i].key : i \in {i \in DOMAIN page : InMargin(page, i) /\ page[i].length \in 2..120}}

\* Three pages in five, rounded up, and two at least.
Threshold(pages) == Max({2, (3 * Len(pages) + 4) \div 5})

Repeated(pages) ==
    {key \in UNION {MarginKeys(pages[i]) : i \in DOMAIN pages} :
        Cardinality({i \in DOMAIN pages : key \in MarginKeys(pages[i])}) >= Threshold(pages)}

\* remove_repeated_marginal_lines
RemoveMargins(pages) ==
    LET repeated == Repeated(pages)
        Kept(page) ==
            LET kept == SelectSeq([i \in DOMAIN page |-> i],
                                  LAMBDA i : ~(InMargin(page, i) /\ page[i].key \in repeated))
            IN  [k \in DOMAIN kept |-> page[kept[k]]]
    IN  IF Len(pages) < 2 THEN pages ELSE [i \in DOMAIN pages |-> Kept(pages[i])]

-----------------------------------------------------------------------------
(* Properties *)

\* Every run is read once, and, of runs of one height, one wholly above another before it.
RunsKept(runs, arabic) ==
    LET rows == BlockRows(runs, arabic)
        flat == FlattenSeq(rows)
    IN  /\ Len(flat) = Len(runs) /\ ToSet(flat) = ToSet(runs)
        /\ \A i, j \in DOMAIN flat : flat[i].y1 <= flat[j].y0 => i < j

\* Every block is read, one column wholly before the other, and the rest from top to
\* bottom around them.
BlocksKept(blocks) ==
    LET order == OrderBlocks(blocks)
        Side(b) == IF IsLeft(b) = IsRight(b) THEN "none" ELSE IF IsLeft(b) THEN "left" ELSE "right"
        InColumn(b) == Columns(blocks) /\ (IsLeft(b) \/ IsRight(b))
    IN  /\ ToSet(order) = ToSet(blocks)
        /\ Columns(blocks) =>
            \A i, j, k \in DOMAIN order :
                i < j /\ j < k /\ Side(order[i]) = Side(order[k]) /\ Side(order[i]) # "none" =>
                    Side(order[j]) \in {"none", Side(order[i])}
        /\ \A i, j \in DOMAIN order :
            i < j /\ ~InColumn(order[i]) => order[i].y0 <= order[j].y0 \/ InColumn(order[j])

\* Joining lines and blocks loses and moves no printed line, and joins none to a question
\* or to a sentence that has ended before it: an answer never goes on in its question's line.
AnswersApart(blocks) ==
    LET order == OrderBlocks(blocks)
        lines == LinesRead(blocks)
    IN  /\ FlattenSeq(lines) = FlattenSeq([i \in DOMAIN order |-> order[i].lines])
        /\ \A line \in ToSet(lines) : \A i \in 1..Len(line) - 1 : line[i].end = "none"

\* What has a key of one page only, and all between the margins, stays, in its order.
BodyKept(pages) ==
    LET cleaned == RemoveMargins(pages)
        Own(line) == \E i \in DOMAIN pages :
                        \A j \in DOMAIN pages : i = j <=> \E l \in ToSet(pages[j]) : l.key = line.key
    IN  \A i \in DOMAIN pages :
            LET body == SubSeq(pages[i], MarginLines + 1, Len(pages[i]) - MarginLines)
            IN  /\ SelectSeq(cleaned[i], Own) = SelectSeq(pages[i], Own)
                /\ \E k \in 1..Len(cleaned[i]) + 1 :
                    SubSeq(cleaned[i], k, k + Len(body) - 1) = body

\* "Join visual wraps while preserving FAQ" (parsers/pdf.py:428): a question is a line of
\* its own.  One that begins a block of several lines is not, after a block that ends
\* in the middle of a sentence.
QuestionsApart(blocks) ==
    \A line \in ToSet(LinesRead(blocks)) :
        Len(line) > 1 => \A i \in DOMAIN line : line[i].end # "question"

\* No block is read twice.
BlocksOnce(blocks) == Len(OrderBlocks(blocks)) = Len(blocks)
=============================================================================
