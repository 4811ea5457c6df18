-------------------------------- MODULE Align --------------------------------
(***************************************************************************)
(* How a diff and its two texts become the lines of a view (crates/align): *)
(* what the alignment accepts and normalises, the pairing of lines and     *)
(* fillers side by side and inline, hunks, blocks and decorations.         *)
(*                                                                         *)
(* Lines are numbered from 1, ranges end before their `end`, and columns   *)
(* are UTF-16 units from 1, as the engine has them.  A change is a record  *)
(* of two line ranges and the pairs of character ranges in it; an          *)
(* alignment is the two texts and the changes.                             *)
(***************************************************************************)
EXTENDS LineIndex

Versions == {"original", "modified"}
Filler == 0

IsEmptyRange(range) == range.start >= range.end
Length(range) == Monus(range.end, range.start)
Contains_(range, line) == range.start <= line /\ line < range.end

-----------------------------------------------------------------------------
(* Normalisation *)

NormaliseText(lines) == IF lines = <<>> THEN <<<<>>>> ELSE lines

EndsAtLineEnd(range, lines) ==
    LET at == Greatest(range.endLine, 1)
    IN  at <= Len(lines) /\ range.endCol = Utf16Len(lines[at]) + 1

ShouldExtend(inner, texts) ==
    /\ \A v \in Versions : inner[v].startCol = 1
    /\ \E v \in Versions : inner[v].endCol # 1
    /\ \A v \in Versions : /\ EndsAtLineEnd(inner[v], texts[v])
                           /\ inner[v].endLine < Len(texts[v])

Extend(range) == [range EXCEPT !.endLine = @ + 1, !.endCol = 1]

NormaliseMapping(inner, texts) ==
    IF ShouldExtend(inner, texts) THEN [v \in Versions |-> Extend(inner[v])] ELSE inner

NormaliseDiff(changes, texts) ==
    [i \in DOMAIN changes |->
        [changes[i] EXCEPT !.inner =
            [j \in DOMAIN @ |-> NormaliseMapping(@[j], texts)]]]

\* Where the change before the i-th ends, and the text's end behind the last.
EndBefore(changes, i, v) == IF i = 1 THEN 1 ELSE changes[i - 1][v].end

IsWellFormed(changes, texts) ==
    /\ \A i \in DOMAIN changes :
          /\ \A v \in Versions : /\ changes[i][v].start >= EndBefore(changes, i, v)
                                 /\ changes[i][v].end >= changes[i][v].start
                                 /\ changes[i][v].end <= Len(texts[v]) + 1
          /\ changes[i].original.start - EndBefore(changes, i, "original")
                = changes[i].modified.start - EndBefore(changes, i, "modified")
    /\ Len(texts.original) - EndBefore(changes, Len(changes) + 1, "original")
          = Len(texts.modified) - EndBefore(changes, Len(changes) + 1, "modified")

Malformed == [malformed |-> TRUE]

TryWithOptions(changes, original, modified) ==
    LET texts == [original |-> NormaliseText(original),
                  modified |-> NormaliseText(modified)]
        normal == NormaliseDiff(changes, texts)
    IN  IF IsWellFormed(normal, texts)
        THEN [original |-> texts.original, modified |-> texts.modified, changes |-> normal]
        ELSE Malformed

-----------------------------------------------------------------------------
(* View lines: what each side shows, a line's number or a filler *)

Kind(original, modified) ==
    IF original # Filler /\ modified = Filler THEN "deleted"
    ELSE IF original = Filler /\ modified # Filler THEN "inserted"
    ELSE "modified"

Paired(original, modified) ==
    [original |-> original, modified |-> modified, kind |-> Kind(original, modified)]
Unchanged_(original, modified) ==
    [original |-> original, modified |-> modified, kind |-> "unchanged"]

ContentAt(start, len, i) == IF i < len THEN start + i ELSE Filler
ContentFromEnd(start, len, i, tall) ==
    IF i >= tall - len THEN start + i - (tall - len) ELSE Filler

EndsWithinItsLine(line, endCol, text) ==
    line \in DOMAIN text /\ endCol <= Utf16Len(text[line])

\* emit_alignment: the state is the cuts so far, with the last one first.
Emit(cuts, next, force) ==
    LET last == Last(cuts.at)
    IN  IF next[1] < last[1] \/ next[2] < last[2] THEN cuts
        ELSE IF /\ ~cuts.first /\ ~force
                /\ next[1] = last[1] \/ next[2] = last[2] THEN cuts
        ELSE [first |-> FALSE, at |-> IF next = last THEN cuts.at ELSE Append(cuts.at, next)]

\* Where the two sides are on a level again: line ends, behind the start.
Offer(cuts, o, m, text) ==
    LET begun == IF o.startCol > 1 /\ m.startCol > 1
                 THEN Emit(cuts, <<o.startLine, m.startLine>>, FALSE) ELSE cuts
    IN  IF EndsWithinItsLine(o.endLine, o.endCol, text)
        THEN Emit(begun, <<o.endLine, m.endLine>>, FALSE) ELSE begun
Cuts(change, text) ==
    LET upTo[n \in 0 .. Len(change.inner)] ==
            IF n = 0 THEN [first |-> TRUE,
                           at |-> <<<<change.original.start, change.modified.start>>>>]
            ELSE Offer(upTo[n - 1], change.inner[n].original, change.inner[n].modified, text)
    IN  Emit(upTo[Len(change.inner)], <<change.original.end, change.modified.end>>, TRUE).at

Tall(from, to) == Greatest(to[1] - from[1], to[2] - from[2])

Piece(from, to) ==
    [i \in 1 .. Tall(from, to) |-> Paired(ContentAt(from[1], to[1] - from[1], i - 1),
                                         ContentAt(from[2], to[2] - from[2], i - 1))]
PiecesOf(cuts) ==
    FlattenSeq([k \in 1 .. Len(cuts) - 1 |-> Piece(cuts[k], cuts[k + 1])])

LinesForChange(change, text) ==
    LET olen == Length(change.original)  mlen == Length(change.modified)
        tall == Greatest(olen, mlen)
    IN  IF change.inner # <<>> THEN PiecesOf(Cuts(change, text))
        ELSE [i \in 1 .. tall |->
                 Paired(ContentFromEnd(change.original.start, olen, i - 1, tall),
                        ContentFromEnd(change.modified.start, mlen, i - 1, tall))]

InlineLines(change) ==
    [i \in 1 .. Length(change.original) + Length(change.modified) |->
        IF i <= Length(change.original)
        THEN Paired(change.original.start + i - 1, Filler)
        ELSE Paired(Filler, change.modified.start + i - 1 - Length(change.original))]

HeightOf(cuts) == Sum_([k \in 1 .. Len(cuts) - 1 |-> Tall(cuts[k], cuts[k + 1])])
Height(change, text) ==
    IF change.inner = <<>>
    THEN Greatest(Length(change.original), Length(change.modified))
    ELSE HeightOf(Cuts(change, text))

\* The unchanged lines and the heights of the changes; nothing is laid out.
InlineCount(a) ==
    Monus(Len(a.original), Sum_([i \in DOMAIN a.changes |-> Length(a.changes[i].original)]))
    + Sum_([i \in DOMAIN a.changes |->
               Length(a.changes[i].original) + Length(a.changes[i].modified)])
SideBySideCount(a) ==
    Monus(Len(a.original), Sum_([i \in DOMAIN a.changes |-> Length(a.changes[i].original)]))
    + Sum_([i \in DOMAIN a.changes |-> Height(a.changes[i], a.original)])
ViewLineCount(a, layout) ==
    IF layout = "inline" THEN InlineCount(a) ELSE SideBySideCount(a)

\* The unchanged lines up to an end on either side, line by line.
UnchangedRun(original, modified, count) ==
    [i \in 1 .. count |-> Unchanged_(original + i - 1, modified + i - 1)]

\* The unchanged lines before each change, the lines made of the change, and
\* then unchanged lines while both sides have any.
LinesAround(a, changed) ==
    LET changes == a.changes
        From(i, v) == EndBefore(changes, i, v)
        UpTo(i, end) == UnchangedRun(From(i, "original"), From(i, "modified"),
                                     Monus(end, From(i, "original")))
        n == Len(changes) + 1
    IN  FlattenSeq([i \in DOMAIN changes |-> UpTo(i, changes[i].original.start) \o changed[i]])
        \o UpTo(n, Least(Len(a.original) + 1,
                         From(n, "original") + Monus(Len(a.modified) + 1, From(n, "modified"))))

InlineViewLines(a) ==
    LinesAround(a, [i \in DOMAIN a.changes |-> InlineLines(a.changes[i])])
SideBySideViewLines(a) ==
    LinesAround(a, [i \in DOMAIN a.changes |-> LinesForChange(a.changes[i], a.original)])
AlignedLines(a, layout) ==
    IF layout = "inline" THEN InlineViewLines(a) ELSE SideBySideViewLines(a)

\* The version and line a view line shows, the modified side first.
LineShown(lines, at) ==
    IF lines[at].modified # Filler THEN <<"modified", lines[at].modified>>
    ELSE <<"original", lines[at].original>>
LineAt(a, layout, at) == LineShown(AlignedLines(a, layout), at)

Position(lines, v, line) == SelectInSeq(lines, LAMBDA l : l[v] = line)
ViewLineAt(a, layout, v, line) == Position(AlignedLines(a, layout), v, line)

\* Runs of adjacent changed view lines.
Runs(lines) ==
    LET changed == {i \in DOMAIN lines : lines[i].kind # "unchanged"}
    IN  {r \in [start : changed, end : 2 .. Len(lines) + 1] :
            /\ r.start < r.end /\ r.start .. r.end - 1 \subseteq changed
            /\ r.start - 1 \notin changed /\ r.end \notin changed}
Blocks(a, layout) == Runs(AlignedLines(a, layout))

-----------------------------------------------------------------------------
(* Hunks *)

DefaultContext == 3

Gap(previous, next) == Monus(next.original.start, previous.original.end)

\* Two changes further apart than the context are read as separate edits.
HunkGroups(changes) ==
    LET Opens(i) == i = 1 \/ Gap(changes[i - 1], changes[i]) > DefaultContext
        starts == SetToSortSeq({i \in DOMAIN changes : Opens(i)}, <)
    IN  [k \in DOMAIN starts |->
            <<starts[k], IF k = Len(starts) THEN Len(changes) ELSE starts[k + 1] - 1>>]

Hunk(changes, group) ==
    [v \in Versions |-> [start |-> changes[group[1]][v].start, end |-> changes[group[2]][v].end]]

Hunks(a) == [k \in DOMAIN HunkGroups(a.changes) |-> Hunk(a.changes, HunkGroups(a.changes)[k])]

\* The lines that a hash is made of; two texts with equal hashes are left out.
EditOf(a, hunk) == [v \in Versions |-> SubSeq(a[v], hunk[v].start, hunk[v].end - 1)]

\* The identity of a hunk: its lines, and how many hunks before it have them.
Identity(a, k) ==
    LET Edit(i) == EditOf(a, Hunks(a)[i])
    IN  <<Edit(k), Cardinality({i \in 1 .. k - 1 : Edit(i) = Edit(k)})>>

\* The first hunk with a line of a version, 0 if it is in none.
HunkAt(a, v, line) == SelectInSeq(Hunks(a), LAMBDA hunk : Contains_(hunk[v], line))

-----------------------------------------------------------------------------
(* Decorations of one line *)

\* The columns, from 0, of a character range on one of its lines.
ColumnsOn(range, line, text) ==
    <<IF line = range.startLine THEN Utf16FromEngine(range.startCol) ELSE 0,
      IF line = range.endLine THEN Utf16FromEngine(range.endCol) ELSE Utf16Len(text)>>

\* The bytes that differ in a line, for those who ask for no decoration.
SpanOn(range, line, lines) ==
    IF line < range.startLine \/ line > range.endLine \/ line > Len(lines) THEN {}
    ELSE LET cols == ColumnsOn(range, line, lines[line])
             bytes == Utf16RangeToBytes(lines[line], cols[1], cols[2])
         IN  IF bytes[1] < bytes[2] THEN {bytes} ELSE {}

Spans(a, v, line) ==
    LET here == {c \in ToSet(a.changes) : Contains_(c[v], line)}
    IN  UNION {SpanOn(r, line, a[v]) : r \in UNION {{i[v] : i \in ToSet(c.inner)} : c \in here}}

\* The changed characters of a range on one line: none, or one decoration.
CharacterAt(range, line, lines, cols, bytes) ==
    LET some == bytes[1] < bytes[2]
        fill == \/ line < range.endLine
                \/ /\ some /\ cols[2] >= Utf16Len(lines[line])
                   /\ range.startCol = 1 \/ line = Len(lines)
    IN  IF some \/ fill THEN {[bytes |-> bytes, fill |-> fill]} ELSE {}
CharacterIn(range, line, lines, cols) ==
    CharacterAt(range, line, lines, cols, Utf16RangeToBytes(lines[line], cols[1], cols[2]))
CharacterOn(range, line, lines) ==
    IF line < range.startLine \/ line > range.endLine THEN {}
    ELSE CharacterIn(range, line, lines, ColumnsOn(range, line, lines[line]))

IsEmptyChar(range) == range.startLine = range.endLine /\ range.startCol = range.endCol

\* A mutant: every range of a change is drawn.
AllRanges(change, v) == {i[v] : i \in ToSet(change.inner)}

\* A range that begins outside the change's lines, at the break before them, is
\* not drawn, neither as a marker nor where it goes on in them.
RangesDrawn(change, v) ==
    {r \in {i[v] : i \in ToSet(change.inner)} : Contains_(change[v], r.startLine)}

\* The code keeps lists in order; what is drawn depends on the sets only.
Decorations(a, v, line) ==
    LET changes == ToSet(a.changes)
        here == {c \in changes : Contains_(c[v], line)}
        OneSided(c) == IsEmptyRange(c.original) \/ IsEmptyRange(c.modified)
        inners == UNION {RangesDrawn(c, v) : c \in {c \in changes : ~OneSided(c)}}
        empty == {r \in inners : IsEmptyChar(r)}
    IN  [background |-> here # {},
         characters |->
            {[bytes |-> <<0, ByteLen(a[v][line])>>, fill |-> TRUE] : c \in {c \in here : OneSided(c)}}
            \cup UNION {CharacterOn(r, line, a[v]) : r \in inners \ empty},
         markers |-> {Utf16ToByte(a[v][line], Utf16FromEngine(r.startCol)) :
                         r \in {r \in empty : r.startLine = line}}]
==============================================================================
