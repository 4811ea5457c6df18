-------------------------------- MODULE Wrap --------------------------------
(***************************************************************************)
(* View lines as the lines of a terminal (crates/ui/src/view): wrapping,   *)
(* the padding of the shorter side, the folding of what is unchanged, and  *)
(* the search for a saved line.                                            *)
(*                                                                         *)
(* A terminal line is a span of bytes of a source line; its number does    *)
(* not say of which version.                                               *)
(***************************************************************************)
EXTENDS Align

Source(line, from, to) == [line |-> line, from |-> from, to |-> to]
FillerLine == Source(Filler, 0, 0)
IsSource(terminalLine) == terminalLine # FillerLine

\* Only the first fragment of a line has its number.
GutterNumber(terminalLine) == IF terminalLine.from = 0 THEN terminalLine.line ELSE Filler

-----------------------------------------------------------------------------
(* Where a line breaks *)

BreakPosition(c) ==
    CASE c = "open" -> "before"
      [] c \in {"space", "tab", "comma"} -> "after"
      [] c = "ideo" -> "ideographic"
      [] OTHER -> "none"

IsLineBreakAllowedBefore(previous, current) ==
    LET p == BreakPosition(previous[1])
        c == BreakPosition(current[1])
    IN  /\ current[1] # "space"
        /\ \/ p = "after" /\ c # "after"
           \/ p # "before" /\ c = "before"
           \/ p = "ideographic" /\ c # "after"
           \/ c = "ideographic" /\ p # "before"

IsIndent(cluster) == cluster[1] \in {"space", "tab"}

\* The first cluster that is not of the indentation.
LeadingEnd(line) ==
    LET end == SelectInSeq(line, LAMBDA g : ~IsIndent(g))
    IN  IF end = 0 THEN Len(line) + 1 ELSE end

\* Cells used once clusters i to j are put behind `used` cells.
Used(line, i, j, used) ==
    FoldLeft(LAMBDA cells, g : cells + WidthAt(g, cells), used, SubSeq(line, i, j))

WrappedIndent(line, width) ==
    LET indent == Used(line, 1, LeadingEnd(line) - 1, 0)
    IN  IF indent + 1 > width THEN 0 ELSE indent

\* Where the fragment that begins with cluster `start` ends: behind the last
\* place to break before what is too wide, or else before it.
BreakBefore(line, start, at) ==
    LET breaks == {b \in start + 1 .. at :
                      /\ IsLineBreakAllowedBefore(line[b - 1], line[b])
                      /\ ~(start = 1 /\ b = LeadingEnd(line))}
    IN  IF breaks # {} THEN Max(breaks) ELSE Greatest(at, start + 1)
EndBehind(line, start, wide) ==
    IF wide = {} THEN Len(line) + 1 ELSE BreakBefore(line, start, Min(wide))
FragmentEnd(line, start, width, indent) ==
    EndBehind(line, start,
              {at \in start .. Len(line) :
                  Used(line, start, at, IF start > 1 THEN indent ELSE 0) > width})

\* The clusters at which fragments begin, and the one behind the last.
FragmentStarts(line, width, indent) ==
    LET After[start \in 1 .. Len(line) + 1] ==
            IF start > Len(line) THEN <<start>>
            ELSE <<start>> \o After[FragmentEnd(line, start, width, indent)]
    IN  After[1]
Fragments(starts, stops) ==
    [i \in 1 .. Len(starts) - 1 |-> <<stops[starts[i]].byte, stops[starts[i + 1]].byte>>]
WrapRanges(line, paneWidth) ==
    LET width == Greatest(paneWidth, 1)
    IN  IF line = <<>> THEN <<<<0, 0>>>>
        ELSE Fragments(FragmentStarts(line, width, WrappedIndent(line, width)), Stops(line))

-----------------------------------------------------------------------------
(* Rows: pairs of terminal lines *)

SourcesOf(number, ranges) ==
    [i \in DOMAIN ranges |-> Source(number, ranges[i][1], ranges[i][2])]
WrapSourceLine(number, text, width) ==
    IF number = Filler THEN <<>> ELSE SourcesOf(number, WrapRanges(text[number], width))

UnwrappedSourceLine(number, text) ==
    IF number = Filler THEN <<>> ELSE <<Source(number, 0, ByteLen(text[number]))>>

FromContent(number, text) ==
    IF number = Filler THEN FillerLine ELSE UnwrappedSourceLine(number, text)[1]

Resize(lines, height) ==
    [i \in 1 .. height |-> IF i <= Len(lines) THEN lines[i] ELSE FillerLine]

\* A mutant: the height of the original side only.
ZippedShort(original, modified) ==
    LET height == Greatest(Len(original), 1)
    IN  [i \in 1 .. height |-> [original |-> Resize(original, height)[i],
                                modified |-> Resize(modified, height)[i]]]

Zipped(original, modified) ==
    LET height == Greatest(Greatest(Len(original), Len(modified)), 1)
        o == Resize(original, height)
        m == Resize(modified, height)
    IN  [i \in 1 .. height |-> [original |-> o[i], modified |-> m[i]]]

\* Inline, an unchanged line is drawn from its modified side only: the other
\* one is there for its number and is not wrapped.
WrapViewLine(l, texts, widths, layout) ==
    LET Wraps(v) == layout # "inline" \/ (v = "modified" <=> l.modified # Filler)
        Side(v) == IF Wraps(v) THEN WrapSourceLine(l[v], texts[v], widths[v])
                   ELSE UnwrappedSourceLine(l[v], texts[v])
    IN  Zipped(Side("original"), Side("modified"))

FromViewLine(l, texts) == <<[v \in Versions |-> FromContent(l[v], texts[v])]>>

\* terminal_view_lines, with the rows of all view lines in one sequence.
TerminalRows(viewLines, texts, widths, layout, wrap) ==
    FlattenSeq([i \in DOMAIN viewLines |->
                   IF wrap THEN WrapViewLine(viewLines[i], texts, widths, layout)
                   ELSE FromViewLine(viewLines[i], texts)])

Selected(row) == IF IsSource(row.modified) THEN row.modified ELSE row.original

\* The same fragment, or else the one that holds where it began.
FindRow(rows, target) ==
    LET exact == SelectInSeq(rows, LAMBDA r : IsSource(Selected(r)) /\ Selected(r) = target)
        Holds(r) ==
            LET found == Selected(r) IN
            /\ IsSource(found) /\ found.line = target.line
            /\ found.from <= target.from
            /\ IF target.from = target.to THEN target.from <= found.to
               ELSE target.from < found.to
    IN  IF exact # 0 THEN exact ELSE SelectInSeq(rows, Holds)

-----------------------------------------------------------------------------
(* Compact view *)

CompactContext == 3

\* The lines of a version around its hunks.
CompactLines(a, v) ==
    UNION {LET range == h[v]
               end == IF IsEmptyRange(range) THEN range.start + 1 ELSE range.end
           IN  Greatest(Monus(range.start, CompactContext), 1)
                  .. Least(end + CompactContext, Len(a[v]) + 1) - 1 : h \in ToSet(Hunks(a))}

FoldMarker == Unchanged_(Filler, Filler)

\* A fold stands for the hidden lines before a visible one; none is put
\* behind the last.
CompactViewLines(a, lines) ==
    LET near == [v \in Versions |-> CompactLines(a, v)]
        Visible(l) == l.kind # "unchanged" \/ \E v \in Versions : l[v] \in near[v]
        FoldBefore(i) == IF i > 1 /\ ~Visible(lines[i - 1]) THEN <<FoldMarker>> ELSE <<>>
    IN  IF a.changes = <<>> THEN lines
        ELSE FlattenSeq([i \in DOMAIN lines |->
                            IF Visible(lines[i]) THEN FoldBefore(i) \o <<lines[i]>> ELSE <<>>])

ViewLines(a, layout, compact) ==
    LET lines == AlignedLines(a, layout)
    IN  IF compact THEN CompactViewLines(a, lines) ELSE lines

-----------------------------------------------------------------------------
(* One line of code on the cells of a canvas (components/code_text.rs): the  *)
(* part of the diff and the syntax that falls on a fragment, and the symbol  *)
(* and style of each cell.  Every view passes 0 for `first_cell`, so the     *)
(* canvas begins with the fragment.                                          *)

LongestLineCells(text) == Max({CellWidth(text[i]) : i \in DOMAIN text} \cup {0})
HorizontalScrollExtent(longest, viewport) == Monus(longest, viewport)

GutterWidth(lineCount) ==
    LET digits == CHOOSE d \in 1 .. 10 : /\ Greatest(lineCount, 1) < 10 ^ d
                                         /\ Greatest(lineCount, 1) >= 10 ^ (d - 1)
    IN  Greatest(digits, 3) + 1

\* The part of a span of bytes on a fragment, counted from its start.
LocalRange(range, fragment) ==
    LET from == Greatest(range[1], fragment.from)
        to == Least(range[2], fragment.to)
    IN  IF from < to THEN {<<from - fragment.from, to - fragment.from>>} ELSE {}

NoFill == -1
LocalFill(from, fragment) ==
    IF from = NoFill \/ from >= Greatest(fragment.to, fragment.from + 1) THEN NoFill
    ELSE Monus(from, fragment.from)

\* What is drawn of a fragment.  A marker at the end of one that is not the
\* line's last belongs to the next.
PrepareInputs(line, fragment, diff, fill, markers, syntax) ==
    [text |-> LET stops == Stops(line)
                  first == Cardinality({i \in DOMAIN line : stops[i].byte < fragment.from}) + 1
                  last == Cardinality({i \in DOMAIN line : stops[i].byte < fragment.to})
              IN  SubSeq(line, first, last),
     diff |-> UNION {LocalRange(r, fragment) : r \in diff},
     fill |-> LocalFill(fill, fragment),
     markers |-> {m - fragment.from : m \in {m \in markers :
                     /\ m >= fragment.from
                     /\ m < fragment.to \/ (m = fragment.to /\ m = ByteLen(line))}},
     syntax |-> UNION {{[bytes |-> b, pen |-> s.pen] : b \in LocalRange(s.bytes, fragment)} :
                       s \in syntax}]

PrepareFromDecorations(line, fragment, decorations, syntax) ==
    LET fills == {c.bytes[1] : c \in {c \in decorations.characters : c.fill}}
    IN  PrepareInputs(line, fragment, {c.bytes : c \in decorations.characters},
                      IF fills = {} THEN NoFill ELSE Min(fills),
                      decorations.markers, syntax)

NoPen == 0
PenAt(syntax, byte) ==
    LET spans == {s \in syntax : s.bytes[1] <= byte /\ byte < s.bytes[2]}
    IN  IF spans = {} THEN NoPen ELSE (CHOOSE s \in spans : TRUE).pen

Blank == <<"space">>
Covered == <<>>

\* The cells of a canvas without clusters are filled behind the fill's first.
Symbol(g, cell, width) ==
    IF g.cell + g.width > width \/ g.text = <<"tab">> THEN Blank
    ELSE IF cell = g.cell THEN Sanitize(g.text) ELSE Covered
EmphasisOf(g, inputs) == \/ \E r \in inputs.diff : r[1] <= g.byte /\ g.byte < r[2]
                         \/ inputs.fill # NoFill /\ g.byte >= inputs.fill
PaintCell(inputs, width, cell, here, filled, marked) ==
    IF here = <<>>
    THEN [symbol |-> Blank, changed |-> cell >= filled, pen |-> NoPen, marked |-> cell \in marked]
    ELSE [symbol |-> Symbol(Last(here), cell, width), changed |-> EmphasisOf(Last(here), inputs),
          pen |-> PenAt(inputs.syntax, Last(here).byte), marked |-> cell \in marked]
PaintClusters(inputs, width, shown, filled, marked) ==
    LET On(g, cell) == g.cell <= cell /\ cell < Greatest(g.cell + g.width, g.cell + 1)
    IN  [cell \in 0 .. width - 1 |->
            PaintCell(inputs, width, cell, SelectSeq(shown, LAMBDA g : On(g, cell)),
                      filled, marked)]

\* A canvas of a width: the base style, the fill, the clusters in order, and
\* the markers.  A tab, and a cluster past the right edge, are blanks.
PaintCodeLine(inputs, width) ==
    PaintClusters(inputs, width, GraphemesInCells(inputs.text, 0, width),
                  IF inputs.fill = NoFill THEN width
                  ELSE Least(ByteToCell(inputs.text, inputs.fill), width),
                  {ByteToCell(inputs.text, b) : b \in inputs.markers})
==============================================================================
