------------------------------ MODULE LineIndex ------------------------------
(***************************************************************************)
(* Positions in one line of text: bytes, UTF-16 units and terminal cells   *)
(* (crates/line-index).                                                    *)
(*                                                                         *)
(* A line is a sequence of grapheme clusters and a cluster a sequence of   *)
(* characters.  Which characters join in a cluster and how wide one is are *)
(* facts of Unicode: Characters has one member for each kind that the code *)
(* treats differently.                                                     *)
(***************************************************************************)
EXTENDS Numbers, Sequences, FiniteSets, SequencesExt

\* What Unicode says of a character: its length in UTF-8 and in UTF-16, its
\* cells, and whether it is printable ASCII.
Characters ==
    [word    |-> [utf8 |-> 1, utf16 |-> 1, cells |-> 1, ascii |-> TRUE],
     space   |-> [utf8 |-> 1, utf16 |-> 1, cells |-> 1, ascii |-> TRUE],
     open    |-> [utf8 |-> 1, utf16 |-> 1, cells |-> 1, ascii |-> TRUE],
     comma   |-> [utf8 |-> 1, utf16 |-> 1, cells |-> 1, ascii |-> TRUE],
     tab     |-> [utf8 |-> 1, utf16 |-> 1, cells |-> 0, ascii |-> FALSE],
     control |-> [utf8 |-> 1, utf16 |-> 1, cells |-> 0, ascii |-> FALSE],
     nul     |-> [utf8 |-> 1, utf16 |-> 1, cells |-> 0, ascii |-> FALSE],
     bidi    |-> [utf8 |-> 3, utf16 |-> 1, cells |-> 0, ascii |-> FALSE],
     accent  |-> [utf8 |-> 2, utf16 |-> 1, cells |-> 0, ascii |-> FALSE],
     ideo    |-> [utf8 |-> 3, utf16 |-> 1, cells |-> 2, ascii |-> FALSE],
     emoji   |-> [utf8 |-> 4, utf16 |-> 2, cells |-> 2, ascii |-> FALSE]]

TabWidth == 4

Sum_(numbers) ==
    LET upTo[n \in 0 .. Len(numbers)] == IF n = 0 THEN 0 ELSE upTo[n - 1] + numbers[n]
    IN  upTo[Len(numbers)]

Bytes(cluster) == Sum_([i \in DOMAIN cluster |-> Characters[cluster[i]].utf8])
Units(cluster) == Sum_([i \in DOMAIN cluster |-> Characters[cluster[i]].utf16])

TabAdvance(cell) == TabWidth - (cell % TabWidth)

\* A cluster without cells still takes one, unless it begins with a mark that
\* combines; so does one that begins with a control of direction.
GraphemeWidth(cluster) ==
    LET cells == Sum_([i \in DOMAIN cluster |-> Characters[cluster[i]].cells])
    IN  IF cluster[1] = "bidi" \/ (cells = 0 /\ cluster[1] # "accent")
        THEN 1 ELSE cells

WidthAt(cluster, cell) ==
    IF cluster = <<"tab">> THEN TabAdvance(cell) ELSE GraphemeWidth(cluster)

IsTrivial(line) ==
    \A i \in DOMAIN line : \A j \in DOMAIN line[i] : Characters[line[i][j]].ascii

\* One stop for each cluster and one at the end.
StopBehind(at, g) == [byte  |-> at.byte + Bytes(g),
                      utf16 |-> at.utf16 + Units(g),
                      cell  |-> at.cell + WidthAt(g, at.cell)]
AddStop(stops, g) == Append(stops, StopBehind(stops[Len(stops)], g))
Stops(line) ==
    LET upTo[n \in 0 .. Len(line)] ==
            IF n = 0 THEN <<[byte |-> 0, utf16 |-> 0, cell |-> 0]>>
            ELSE AddStop(upTo[n - 1], line[n])
    IN  upTo[Len(line)]

LastStop(line) == Last(Stops(line))
ByteLen(line) == LastStop(line).byte
Utf16Len(line) == LastStop(line).utf16
CellWidth(line) == LastStop(line).cell

\* partition: the last stop that satisfies a predicate true of a prefix; the
\* first one if none does.
LastWhere(stops, P(_)) ==
    LET n == Cardinality({i \in DOMAIN stops : P(stops[i])})
    IN  stops[Greatest(n, 1)]

\* The characters behind a stop are passed while Fits allows the position
\* behind the next one.
Pass(at, next, fits) ==
    IF at.stuck \/ ~fits THEN [at EXCEPT !.stuck = TRUE]
    ELSE [byte |-> next.byte, utf16 |-> next.utf16, stuck |-> FALSE]
Behind(at, c) == [byte |-> at.byte + Characters[c].utf8, utf16 |-> at.utf16 + Characters[c].utf16]
WalkOver(text, stop, Fits(_)) ==
    FoldLeft(LAMBDA at, c : Pass(at, Behind(at, c), Fits(Behind(at, c))),
             [byte |-> stop.byte, utf16 |-> stop.utf16, stuck |-> FALSE], text)
Walk(line, stop, Fits(_)) ==
    WalkOver(FlattenSeq(SubSeq(line, SelectInSeq(Stops(line), LAMBDA s : s = stop), Len(line))),
             stop, Fits)

Utf16FromStop(line, col, stop) ==
    IF stop.utf16 = col THEN stop.byte ELSE Walk(line, stop, LAMBDA p : p.utf16 <= col).byte
Utf16ToByte(line, col) ==
    IF IsTrivial(line) THEN Least(col, Len(line))
    ELSE Utf16FromStop(line, col, LastWhere(Stops(line), LAMBDA s : s.utf16 <= col))

ByteToUtf16(line, byte) ==
    IF IsTrivial(line) THEN Least(byte, Len(line))
    ELSE Walk(line, LastWhere(Stops(line), LAMBDA s : s.byte <= byte),
              LAMBDA p : p.byte <= byte).utf16

\* The end of the character that begins at a byte, if one does.
NextCharacter(line, byte) ==
    LET text == FlattenSeq(line)
        ends == {Bytes(SubSeq(text, 1, i)) : i \in 1 .. Len(text)}
        behind == {b \in ends : b > byte}
    IN  IF behind = {} THEN byte ELSE Min(behind)

CeilOf(line, col, floor) ==
    IF ByteToUtf16(line, floor) >= col THEN floor ELSE NextCharacter(line, floor)
Utf16ToByteCeil(line, col) == CeilOf(line, col, Utf16ToByte(line, col))

\* A span of bytes is a pair: where it starts and where it ends.
SpanFrom(line, start, from, to) ==
    IF from >= to THEN <<start, start>>
    ELSE <<start, Greatest(start, Utf16ToByteCeil(line, to))>>
Utf16RangeToBytes(line, from, to) == SpanFrom(line, Utf16ToByte(line, from), from, to)

ByteToCell(line, byte) ==
    IF IsTrivial(line) THEN Least(byte, Len(line))
    ELSE LastWhere(Stops(line), LAMBDA s : s.byte <= byte).cell

\* The first stop at the last cell that is not behind this one.
StopAtCell(stops, cell) ==
    LET found == LastWhere(stops, LAMBDA s : s.cell <= cell).cell
    IN  SelectSeq(stops, LAMBDA s : s.cell >= found)[1]
CellToByte(line, cell) ==
    IF IsTrivial(line) THEN Least(cell, Len(line))
    ELSE IF cell > CellWidth(line) THEN ByteLen(line)
    ELSE StopAtCell(Stops(line), cell).byte

\* The clusters with their positions.
GraphemesAt(line, stops) ==
    [i \in 1 .. Len(line) |->
        [text |-> line[i], byte |-> stops[i].byte, cell |-> stops[i].cell,
         width |-> stops[i + 1].cell - stops[i].cell]]
Graphemes(line) == GraphemesAt(line, Stops(line))

\* graphemes_in_cells begins at a stop before the first cell, skips what ends
\* before it and takes what begins before the last.
Begin(line, from) ==
    IF IsTrivial(line) THEN Least(from, Len(line)) + 1
    ELSE Greatest(Len(SelectSeq(Stops(line), LAMBDA s : s.cell < from)), 1)
Taken(gs, skipped, to) ==
    LET past == SelectInSubSeq(gs, Greatest(skipped, 1), Len(gs), LAMBDA g : g.cell >= to)
    IN  IF skipped = 0 THEN <<>>
        ELSE SubSeq(gs, skipped, IF past = 0 THEN Len(gs) ELSE past - 1)
TakenFrom(gs, begin, from, to) ==
    Taken(gs, SelectInSubSeq(gs, begin, Len(gs), LAMBDA g : g.cell + g.width > from), to)
GraphemesInCells(line, from, to) == TakenFrom(Graphemes(line), Begin(line, from), from, to)

\* What a terminal must not be sent, and what is drawn instead.
IsDangerous(c) == c \in {"tab", "control", "nul", "bidi"}
Sanitize(cluster) ==
    [i \in DOMAIN cluster |-> IF IsDangerous(cluster[i]) THEN "picture" ELSE cluster[i]]

Utf16FromEngine(column) == Monus(column, 1)
==============================================================================
