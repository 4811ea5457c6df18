------------------------------- MODULE MCViewer -------------------------------
(* Files as they are read: two with two versions, one of them with changes   *)
(* far apart, one with a side that is gone, one that has one version; and    *)
(* those of which nothing can be shown.                                      *)
EXTENDS Viewer, Frame

Word(n) == [i \in 1 .. n |-> <<"word">>]
Text(cs) == [i \in DOMAIN cs |-> <<cs[i]>>]

Lines(from, to) == [start |-> from, end |-> to]
Chars(l1, c1, l2, c2) == [startLine |-> l1, startCol |-> c1, endLine |-> l2, endCol |-> c2]
Pair_(o, m) == [original |-> o, modified |-> m]

\* Lines inserted in front, and behind the end of the line before one that is
\* changed in the middle, with an accent, wide characters and a tab in it; and the
\* same line deleted in two places.
FarOriginal ==
    <<Word(2), Text(<<"word", "ideo", "space", "word", "comma", "word">>), Word(1), Word(1),
      Word(1), Word(1), Word(3), Word(1), Word(1), Word(1), Word(1), Word(3), Word(1)>>
FarModified ==
    <<Text(<<"emoji", "word">>), Word(2), Word(1),
      <<<<"word">>, <<"ideo">>, <<"space">>, <<"word", "accent">>, <<"tab">>, <<"word">>>>,
      Word(1), Word(1), Word(1), Word(1), Word(1), Word(1), Word(1), Word(1), Word(1)>>
FarChanges ==
    <<[original |-> Lines(1, 1), modified |-> Lines(1, 2), inner |-> <<>>],
      [original |-> Lines(2, 3), modified |-> Lines(3, 5),
       inner |-> <<Pair_(Chars(1, 3, 1, 3), Chars(2, 3, 3, 2)),
                   Pair_(Chars(2, 4, 2, 6), Chars(4, 4, 4, 7))>>],
      [original |-> Lines(7, 8), modified |-> Lines(9, 9), inner |-> <<>>],
      [original |-> Lines(12, 13), modified |-> Lines(13, 13), inner |-> <<>>]>>

\* Two lines for three, the first ones with an equal beginning.
NearOriginal == <<Word(5), Text(<<"word", "word", "bidi">>), Text(<<"word", "space">>)>>
NearModified == <<Text(<<"word", "space", "open", "word">>), Word(2), Word(4), Word(1)>>
NearChanges ==
    <<[original |-> Lines(1, 3), modified |-> Lines(1, 4),
       inner |-> <<Pair_(Chars(1, 2, 1, 6), Chars(1, 2, 2, 3)),
                   Pair_(Chars(2, 3, 2, 3), Chars(3, 3, 3, 4)),
                   Pair_(Chars(2, 3, 3, 1), Chars(3, 5, 4, 1))>>]>>

\* The text with these lines: one CR LF, then each end in turn.
Joined(lines) ==
    LET End(n) == CASE n % 3 = 1 -> <<Cr, Lf>> [] n % 3 = 2 -> <<Lf>> [] OTHER -> <<Cr>>
    IN  TextContent(FlattenSeq([n \in DOMAIN lines |->
            lines[n] \o IF n = Len(lines) THEN <<>> ELSE End(n)]))

Both(name) == Renamed(<<name>>, <<name>>, Revs(Index, Worktree))
ReadOf(file, original, modified, answer) ==
    [file |-> file, original |-> original, modified |-> modified,
     exact |-> OutOfMemory, trimmed |-> answer]

WithNul == <<Word(1), Text(<<"nul", "word">>)>>
Insertion(n) == Answer(<<[original |-> Lines(1, 1), modified |-> Lines(1, n), inner |-> <<>>]>>)

MCReads ==
    [far |-> ReadOf(Both("a"), Joined(FarOriginal), Joined(FarModified), Answer(FarChanges)),
     near |-> ReadOf(Both("b"), Joined(NearOriginal), Joined(NearModified), Answer(NearChanges)),
     gone |-> ReadOf(Both("b"), Joined(<<Word(2), Word(1)>>), NoText(Absent),
                     Answer(<<[original |-> Lines(1, 3), modified |-> Lines(1, 2), inner |-> <<>>]>>)),
     one |-> ReadOf(Added(<<"c">>, Revs(Index, Worktree)), NoText(Absent),
                    Joined(<<Text(<<"tab", "nul", "ideo">>), Word(12), Word(1), Word(1)>>),
                    OutOfMemory),
     nul |-> ReadOf(Both("a"), Joined(<<Word(1)>>), Joined(WithNul), Insertion(2)),
     binary |-> ReadOf(Both("a"), NoText(Binary), Joined(<<Word(1)>>), OutOfMemory),
     memory |-> ReadOf(Both("a"), Joined(<<>>), Joined(<<Word(1)>>), OutOfMemory),
     others |-> ReadOf(Both("a"), Joined(<<Word(1)>>), Joined(<<Word(1)>>), Insertion(2))]

\* The application never folds; the gallery of components does.
MCStarts == {<<"sideBySide", FALSE, FALSE, Size(14, 3)>>,
             <<"inline", TRUE, TRUE, Size(17, 2)>>}

MCMoves == {<<0, 2>>, <<0, -1>>, <<1, 0>>}

MCAreas == {Size(14, 3), Size(17, 2)}

-----------------------------------------------------------------------------
(* The viewer on the screen: the tree of hosts that is drawn of its state,   *)
(* laid out, against the rows and cells that were asked for.                 *)

\* The widths the layouts wrap for are those the flex pass gives to the panes,
\* and the rows rendered are those that are seen: each row from the one asked
\* for is on a line of the screen, with every part of it in its place and the
\* code moved by the cell asked for, as far as the pane scrolls.
PartsOf(l) ==
    CASE l.kind = "sideBySide" -> <<"gutter1", "code1", "divider", "gutter2", "code2">>
      [] l.kind = "inline" -> <<"gutter1", "gutter2", "code1">>
      [] l.kind = "single" -> <<"gutter1", "code1">>
      [] OTHER -> <<>>
PartWidths(l) ==
    CASE l.kind = "sideBySide" -> <<l.gutters[1], l.panes[1], 1, l.gutters[2], l.panes[2]>>
      [] l.kind = "inline" -> <<l.gutters[1], l.gutters[2], l.panes[1]>>
      [] l.kind = "single" -> <<l.gutters[1], l.panes[1]>>
      [] OTHER -> <<>>
ScrolledCells(part, l) ==
    CASE part = "code1" -> Least(st.offset.x, l.extents[1])
      [] part = "code2" -> Least(st.offset.x, l.extents[2])
      [] OTHER -> 0

Expected(l) ==
    LET top == Least(st.offset.y, Monus(RowCount(l), st.size.height))
        widths == PartWidths(l)
        X(i) == SumOver(widths, 1 .. i - 1)
        at == {p \in (DOMAIN widths) \X (0 .. st.size.height - 1) :
                 widths[p[1]] > 0 /\ top + p[2] < RowCount(l)}
    IN  {[id |-> <<PartsOf(l)[p[1]], top + p[2] + 1>>,
          clip |-> Rect(X(p[1]), p[2], widths[p[1]], 1),
          from |-> X(p[1]) - ScrolledCells(PartsOf(l)[p[1]], l)] : p \in at}

Inked(hosts) ==
    {[id |-> hosts[i].id, clip |-> PaintClip(hosts[i]), from |-> hosts[i].origin.x] :
        i \in {i \in DOMAIN hosts : /\ hosts[i].ink # NoInk
                                    /\ PaintClip(hosts[i]).width > 0
                                    /\ PaintClip(hosts[i]).height > 0}}
OnTheScreen ==
    Inked(PlacedHosts(Container(st, memo.layout, range), area.width, area.height))

ScreenShowsTheRows ==
    Settled => /\ memo.layout = MadeFrom(st)
               /\ OnTheScreen = Expected(memo.layout)
==============================================================================
