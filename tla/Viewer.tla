-------------------------------- MODULE Viewer --------------------------------
(***************************************************************************)
(* The diff viewer (ui/src/components: diff_viewer, diff_viewer_container, *)
(* side_by_side, inline, single_file): the layouts of the selected file,   *)
(* the scroll position they share, the positions saved for each file, and  *)
(* the rounds in which loom draws until nothing changes any more.          *)
(*                                                                         *)
(* `st` is what the hooks hold in this drawing and `next` what was written *)
(* for the next round.  A content is the address of an Rc and the name of  *)
(* what it holds; an address is free again once neither refers to it.      *)
(***************************************************************************)
EXTENDS Pipeline, Wrap, Hosts

CONSTANTS
    Areas,      \* the sizes the viewer may be given
    Starts,     \* what the viewer may be mounted with: layout, wrap, compact, size
    Moves,      \* the cells, across and down, that a key or the wheel moves by
    MaxEvents   \* bound on the events of a behaviour, behind the first answer

ViewerAssumption ==
    /\ Areas \subseteq [width : Nat, height : Nat]
    /\ Starts \subseteq {"inline", "sideBySide"} \X BOOLEAN \X BOOLEAN \X Areas
    /\ Moves \subseteq Int \X Int
    /\ MaxEvents \in Nat
ASSUME ViewerAssumption

VARIABLES
    st,         \* the committed values of the hooks
    next,       \* their pending values
    dirty,      \* a write or a layout asks for another round
    rounds,     \* the round of the drawing, 0 between drawings
    area,       \* the size of the viewer's node
    metrics,    \* what the last layout wrote about the scrolled content
    memo,       \* the layout kept, and the dependencies it was made from
    restored,   \* the dependencies of the restoring effect
    active,     \* the view state: the first line and cell on the screen
    key,        \* the file it is of, if that has two versions
    history,    \* the view states saved for files
    range,      \* the rows rendered
    left,       \* the state each file was left with (the model's own)
    wanted,     \* what this drawing set out to restore (the model's own)
    events      \* how many events there were (the model's own)

vars == <<st, next, dirty, rounds, area, metrics, memo, restored, active, key,
          history, range, left, wanted, events>>

Nothing == [at |-> 0, name |-> None]
TwoRounds == 2
MaxRounds == 4
Addresses == 1 .. 3
FilesOf ==
    {PathOf(Contents[c].file) : c \in {c \in DOMAIN Contents : Contents[c].kind = "diff"}}

Size(width, height) == [width |-> width, height |-> height]
Offset(x, y) == [x |-> x, y |-> y]
Origin == Offset(0, 0)
NoState == [line |-> FillerLine, x |-> 0]

IsDiff(content) == content.at # 0 /\ Contents[content.name].kind = "diff"

-----------------------------------------------------------------------------
(* Layouts *)

EmptyLayout == [kind |-> "empty", rows |-> <<>>, gutters |-> <<>>, panes |-> <<>>,
                extents |-> <<0>>]

Gutters(a) == <<GutterWidth(Len(a.original)), GutterWidth(Len(a.modified))>>
Panes(width, gutters) ==
    LET text == Monus(Monus(Monus(width, 1), gutters[1]), gutters[2])
    IN  [original |-> (text + 1) \div 2, modified |-> text \div 2]
LayoutPanes(a, gutters, panes, wrap, compact) ==
    LET Longest(v) == IF wrap \/ compact THEN panes[v] ELSE LongestLineCells(a[v])
        extents == [v \in Versions |-> HorizontalScrollExtent(Longest(v), panes[v])]
    IN  [kind |-> "sideBySide",
         rows |-> TerminalRows(ViewLines(a, "sideBySide", compact),
                               [v \in Versions |-> a[v]], panes, "sideBySide", wrap),
         gutters |-> gutters,
         panes |-> <<panes.original, panes.modified>>,
         extents |-> <<extents.original, extents.modified>>]
LayoutSideBySide(a, width, wrap, compact) ==
    LayoutPanes(a, Gutters(a), Panes(width, Gutters(a)), wrap, compact)

LayoutPane(a, gutters, code, wrap, compact) ==
    LET longest == IF wrap \/ compact THEN code
                   ELSE Greatest(LongestLineCells(a.original), LongestLineCells(a.modified))
    IN  [kind |-> "inline",
         rows |-> TerminalRows(ViewLines(a, "inline", compact),
                               [v \in Versions |-> a[v]],
                               [v \in Versions |-> code], "inline", wrap),
         gutters |-> gutters, panes |-> <<code>>,
         extents |-> <<HorizontalScrollExtent(longest, code)>>]
LayoutInline(a, width, wrap, compact) ==
    LET gutters == Gutters(a)
    IN  LayoutPane(a, gutters, Monus(Monus(width, gutters[1]), gutters[2]), wrap, compact)

\* The one side is put beside fillers and wrapped as if side by side.
LayoutSingleFile(single, width, wrap) ==
    LET gutter == GutterWidth(Len(single.lines))
        code == Monus(width, gutter)
        longest == IF wrap THEN code ELSE LongestLineCells(single.lines)
        lines == [i \in DOMAIN single.lines |->
                     IF single.side = "original" THEN Paired(i, Filler) ELSE Paired(Filler, i)]
    IN  [kind |-> "single",
         rows |-> TerminalRows(lines, [v \in Versions |-> single.lines],
                               [v \in Versions |-> code], "sideBySide", wrap),
         gutters |-> <<gutter>>, panes |-> <<code>>,
         extents |-> <<HorizontalScrollExtent(longest, code)>>]

LayoutOf(name, layout, wrap, compact, width) ==
    IF name = None THEN EmptyLayout
    ELSE LET content == Contents[name] IN
         IF content.kind = "single" THEN LayoutSingleFile(content, width, wrap)
         ELSE IF layout = "inline" THEN LayoutInline(content.alignment, width, wrap, compact)
         ELSE LayoutSideBySide(content.alignment, width, wrap, compact)

DepsOf(s) == [content |-> s.content.at, layout |-> s.layout, wrap |-> s.wrap,
              compact |-> s.compact, width |-> s.size.width]
NoDeps == [content |-> -1, layout |-> None, wrap |-> FALSE, compact |-> FALSE, width |-> 0]

\* What the layout of these hooks is.
MadeFrom(s) == LayoutOf(s.content.name, s.layout, s.wrap, s.compact, s.size.width)

RowCount(layout) == Len(layout.rows)
Extent(layout) == Max(ToSet(layout.extents))

TerminalLineAt(layout, y) ==
    IF y < RowCount(layout) THEN Selected(layout.rows[y + 1]) ELSE FillerLine

IndexFor(layout, line) ==
    IF IsSource(line) THEN Monus(FindRow(layout.rows, line), 1) ELSE 0

-----------------------------------------------------------------------------
(* The tree of hosts *)

Fixed(n) == [DefaultLayout EXCEPT !.basis = LengthOf(n), !.shrink = 0]
Growing == [DefaultLayout EXCEPT !.grow = 1]

\* A row of a gutter, of the divider or of code, one line high.
Strip(part, row, canvas) == Row(None, Fixed(1), <<Canvas(<<part, row>>, canvas, part)>>)
CodeLayout(n) == [Fixed(Clamp(n, 1, MaxU16)) EXCEPT !.grow = 1]

\* The cells of a fragment; a filler and a fold have one.
CellsOf(fragment, lines) ==
    IF fragment.line = Filler THEN 1
    ELSE CellWidth(PrepareInputs(lines[fragment.line], fragment, {}, NoFill, {}, {}).text)

GutterColumn(part, width, rows) ==
    Column(None, Fixed(width), [i \in DOMAIN rows |-> Strip(part, rows[i], Fixed(width))])

\* A pane scrolls across only, with the shared offset, and keeps its metrics
\* to itself; `cells` are those of each row.
Pane(part, x, contentWidth, rows, cells) ==
    Scroll(None, [Growing EXCEPT !.shrink = 0],
           [requested |-> Offset(x, 0), horizontal |-> TRUE, vertical |-> FALSE,
            contentWidth |-> contentWidth, contentHeight |-> NoSize,
            contentOffset |-> Origin, areaWidth |-> NoSize],
           <<Column(None, Growing, [i \in DOMAIN rows |->
                 Strip(part, rows[i], CodeLayout(cells[i]))])>>)

\* What the renderers make of the rows.  Single files have no row without a
\* line of their side, and inline only a fold has no line at all.
Wide(l, pane) == l.extents[pane] + l.panes[pane]

SideBySide(a, l, rows, x) ==
    LET Cells(v) == [i \in DOMAIN rows |-> CellsOf(l.rows[rows[i]][v], a[v])]
    IN  <<GutterColumn("gutter1", l.gutters[1], rows),
          Pane("code1", x, Wide(l, 1), rows, Cells("original")),
          GutterColumn("divider", 1, rows),
          GutterColumn("gutter2", l.gutters[2], rows),
          Pane("code2", x, Wide(l, 2), rows, Cells("modified"))>>

Inline(a, l, rows, x) ==
    LET Of(row) == IF IsSource(row.modified) THEN "modified" ELSE "original"
        Cells(row) == CellsOf(row[Of(row)], a[Of(row)])
    IN  <<GutterColumn("gutter1", l.gutters[1], rows),
          GutterColumn("gutter2", l.gutters[2], rows),
          Pane("code1", x, Wide(l, 1), rows,
               [i \in DOMAIN rows |-> Cells(l.rows[rows[i]])])>>

SingleFile(single, l, rows, x) ==
    <<GutterColumn("gutter1", l.gutters[1], rows),
      Pane("code1", x, Wide(l, 1), rows,
           [i \in DOMAIN rows |-> CellsOf(l.rows[rows[i]][single.side], single.lines)])>>

View(content, l, shown, x) ==
    LET rows == [i \in 1 .. shown.last - shown.first |-> shown.first + i]
        parts == CASE l.kind = "sideBySide" -> SideBySide(content.alignment, l, rows, x)
                   [] l.kind = "inline" -> Inline(content.alignment, l, rows, x)
                   [] l.kind = "single" -> SingleFile(content, l, rows, x)
    IN  [Column(None, Growing, <<Row(None, Growing, parts)>>)
            EXCEPT !.focusable = TRUE, !.autoFocus = TRUE]

Welcome == Column("welcome", DefaultLayout, <<>>)

\* The viewport scrolls down only; the rows begin at the first one rendered, and
\* both sizes of the content are given.
ViewOf(s, l, shown) ==
    [requested |-> Offset(0, s.offset.y), horizontal |-> TRUE, vertical |-> TRUE,
     contentWidth |-> Extent(l) + s.size.width, contentHeight |-> RowCount(l),
     contentOffset |-> Offset(0, shown.first), areaWidth |-> s.size.width]
Viewport(s, l, shown, children) ==
    Scroll("viewport", Growing, ViewOf(s, l, shown), children)

Container(s, l, shown) ==
    Column("container", Growing,
           <<Viewport(s, l, shown,
                <<IF s.content.at = 0 THEN Welcome
                  ELSE View(Contents[s.content.name], l, shown, s.offset.x)>>)>>)

-----------------------------------------------------------------------------
(* Drawing *)

KeyOf(content) == IF IsDiff(content) THEN PathOf(Contents[content.name].file) ELSE NoPath

\* A mutant: the state is put away for the file that comes.
SavedForNew(k) ==
    IF key # k /\ k # NoPath THEN [history EXCEPT ![k] = active] ELSE history

\* sync_active_view_state: another file's state is put away, and what was
\* saved for this one is taken out.
SavedHistory(k) ==
    IF key # k /\ key # NoPath THEN [history EXCEPT ![key] = active] ELSE history
ActiveState(k) ==
    IF key = k THEN active ELSE IF k = NoPath THEN NoState ELSE SavedHistory(k)[k]

\* What use_memo answers.
MemoFor(s) ==
    IF memo.deps = DepsOf(s) THEN memo
    ELSE [deps |-> DepsOf(s), layout |-> MadeFrom(s)]

\* The rows rendered: from where the last metrics let the view begin, and a
\* few more than fit.
Shown(s, l) ==
    LET first == Least(ClampOffset(s.offset, metrics).y, RowCount(l))
    IN  [first |-> first, last |-> Least(first + s.size.height + 4, RowCount(l))]

\* The view state after a render: the line the offset asks for in the layout
\* of this render.
ViewStateAfter(s, l, old) ==
    IF s.size.width = 0 \/ s.size.height = 0 THEN old
    ELSE [line |-> IF s.offset.y > 0 THEN TerminalLineAt(l, s.offset.y) ELSE FillerLine,
          x |-> s.offset.x]

\* What the effects write: the size measured and, when what the layout depends
\* on has changed, the position to restore.
Written(s, old, layout, restores) ==
    [s EXCEPT !.size = area,
              !.offset = IF restores THEN Offset(old.x, IndexFor(layout, old.line)) ELSE @]

\* The end of a round, and of the drawing if nothing asks for another one.
EndRound(s, k, layout, written, measured, again) ==
    LET last == ~again \/ rounds + 1 = MaxRounds
    IN  /\ next' = written
        /\ metrics' = measured
        /\ left' = IF last /\ k # NoPath THEN [left EXCEPT ![k] = active'] ELSE left
        /\ dirty' = again
        /\ rounds' = IF last THEN 0 ELSE rounds + 1
RenderLayout(s, k, old, layout, written, measured) ==
    LET before == IF k # NoPath THEN left[k] ELSE IF key = NoPath THEN active ELSE NoState
    IN  /\ range' = Shown(s, layout)
        /\ active' = ViewStateAfter(s, layout, old)
        /\ wanted' = IF rounds > 0 THEN wanted
                     ELSE [line |-> before.line, x |-> before.x, size |-> s.size,
                           restores |-> restored # DepsOf(s)]
        /\ EndRound(s, k, layout, written, measured, measured # metrics \/ written # s)
RenderMemo(s, k, old, kept) ==
    /\ memo' = kept
    /\ RenderLayout(s, k, old, kept.layout,
                    Written(s, old, kept.layout, restored # DepsOf(s)),
                    MetricsFor(ViewOf(s, kept.layout, Shown(s, kept.layout)), 0, 0,
                               Rect(0, 0, area.width, area.height)))

\* One round: the pending values are committed, and the viewer is rendered and
\* laid out.
Round ==
    LET k == KeyOf(next.content)
    IN  /\ rounds > 0 \/ dirty
        /\ st' = next
        /\ history' = SavedHistory(k)
        /\ key' = k
        /\ restored' = DepsOf(next)
        /\ RenderMemo(next, k, ActiveState(k), MemoFor(next))
        /\ UNCHANGED <<area, events>>

-----------------------------------------------------------------------------
(* What happens between drawings *)

Happens == rounds = 0 /\ events < MaxEvents /\ events' = events + 1
Drawn == restored # NoDeps

\* A write: the next value of the hooks, marked if it is not the one drawn.
Write(new) ==
    /\ next' = new
    /\ dirty' = (dirty \/ new # st)
    /\ UNCHANGED <<st, rounds, area, metrics, memo, restored, active, key, history,
                   range, left, wanted>>

MoveBy(value, delta, most) ==
    IF delta < 0 THEN Monus(value, -delta) ELSE Least(value + delta, most)

\* ScrollHandle::scroll_by, with the metrics the last layout wrote.
ScrollBy(dx, dy) ==
    LET at == ClampOffset(next.offset, metrics)
    IN  Write([next EXCEPT !.offset = Offset(MoveBy(at.x, dx, MaxX(metrics)),
                                             MoveBy(at.y, dy, MaxY(metrics)))])

\* The keys of the four directions, and the wheel, three cells at a time.
Move == Happens /\ Drawn /\ \E m \in Moves : ScrollBy(m[1], m[2])

\* scroll_x_to_start and scroll_x_to_end.
EdgeKey ==
    /\ Happens /\ Drawn
    /\ \E x \in {0, MaxX(metrics)} :
          Write([next EXCEPT !.offset = Offset(x, Least(@.y, MaxY(metrics)))])

\* The listener knows the content of the last render.
ToggleLayout ==
    /\ Happens /\ Drawn /\ IsDiff(st.content)
    /\ Write([next EXCEPT !.layout = IF @ = "inline" THEN "sideBySide" ELSE "inline"])

ToggleWrap == Happens /\ Drawn /\ Write([next EXCEPT !.wrap = ~@])

\* A response, or none: the content it replaces is still held by the hook
\* while the new one is allocated, and no two responses are equal.  An error
\* shows nothing, as no file does.
Shows(name) == name # None /\ Contents[name].kind # "failed"
Deliver ==
    /\ IF st = next /\ st.content = Nothing THEN rounds = 0 /\ UNCHANGED events ELSE Happens
    /\ Drawn
    /\ \E name \in DOMAIN Contents \cup {None} :
       \E at \in IF Shows(name) THEN {Min(Addresses \ {st.content.at, next.content.at})} ELSE {0} :
          Write([next EXCEPT !.content = IF at = 0 THEN Nothing ELSE [at |-> at, name |-> name]])

\* The terminal has another size: everything is drawn again.
ResizeArea ==
    /\ Happens
    /\ \E a \in Areas \ {area} : area' = a
    /\ dirty' = TRUE
    /\ UNCHANGED <<st, next, rounds, metrics, memo, restored, active, key, history,
                   range, left, wanted>>

-----------------------------------------------------------------------------
(* The specification *)

NoMetrics == [contentWidth |-> 0, contentHeight |-> 0, viewportWidth |-> 0,
              viewportHeight |-> 0]

Init ==
    /\ \E start \in Starts :
          /\ st = [content |-> Nothing, layout |-> start[1], wrap |-> start[2],
                   compact |-> start[3], size |-> Size(0, 0), offset |-> Origin]
          /\ area = start[4]
    /\ next = st /\ dirty = TRUE /\ rounds = 0
    /\ metrics = NoMetrics
    /\ memo = [deps |-> NoDeps, layout |-> EmptyLayout]
    /\ restored = NoDeps
    /\ active = NoState /\ key = NoPath
    /\ history = [f \in FilesOf |-> NoState] /\ left = history
    /\ range = [first |-> 0, last |-> 0]
    /\ wanted = [line |-> FillerLine, x |-> 0, size |-> Size(0, 0), restores |-> FALSE]
    /\ events = 0

Next == \/ Round \/ Move \/ EdgeKey \/ ToggleLayout \/ ToggleWrap
        \/ Deliver \/ ResizeArea

Spec == Init /\ [][Next]_vars
-----------------------------------------------------------------------------
(* Properties *)

\* Every variable has a value of its kind.
TypeOK ==
    /\ \A s \in {st, next} :
          /\ s.content = Nothing \/ (s.content.at \in Addresses /\ s.content.name \in DOMAIN Contents)
          /\ s.layout \in {"inline", "sideBySide"} /\ s.wrap \in BOOLEAN
          /\ s.compact \in BOOLEAN
          /\ s.size \in Areas \cup {Size(0, 0)} /\ s.offset.x \in Nat /\ s.offset.y \in Nat
    /\ area \in Areas /\ rounds \in 0 .. MaxRounds - 1 /\ dirty \in BOOLEAN
    /\ key \in FilesOf \cup {NoPath} /\ DOMAIN history = FilesOf
    /\ range.first <= range.last /\ range.last <= RowCount(memo.layout)
    /\ events \in 0 .. MaxEvents

\* Between drawings, and the last one left nothing to do.
Settled == rounds = 0 /\ ~dirty /\ Drawn

\* frame.rs draws again while a layout effect or a layout asks for it, but at
\* most four rounds: those are enough, whatever happened between the drawings,
\* so that no frame shows a position or size that is about to change.
DrawingSettles == [][rounds > 0 /\ rounds' = 0 => ~dirty']_vars

\* The lines of a text by the places of its terminators: CR LF, CR and LF, each
\* with its last character; every other character is in the line that follows
\* those before it.
EndsLine(text, i) == text[i] = Lf \/ (text[i] = Cr /\ ~(i < Len(text) /\ text[i + 1] = Lf))
LinesOf(text) ==
    LET ends == {0, Len(text) + 1} \cup {i \in DOMAIN text : EndsLine(text, i)}
        After(i) == Min({j \in ends : j > i})
        starts == SelectSeq([i \in 1 .. Len(text) + 1 |-> i - 1], LAMBDA i : i \in ends)
    IN  [n \in DOMAIN starts |->
            SelectSeq(SubSeq(text, starts[n] + 1, After(starts[n]) - 1), LAMBDA c : c \notin {Cr, Lf})]

\* The text of a version as it was read, and what is drawn of it.  A version
\* that is gone is one empty line beside the other one.
Texts ==
    [name \in DOMAIN Reads |->
        [v \in Versions |->
            IF Reads[name][v].kind = "text" THEN LinesOf(Reads[name][v].text)
            ELSE IF Contents[name].kind = "diff" THEN <<<<>>>> ELSE <<>>]]
DrawnLines(content, v) ==
    IF content.kind = "diff" THEN content.alignment[v]
    ELSE IF v = content.side THEN content.lines ELSE <<>>
ChangesOf(content) ==
    IF content.kind = "single" THEN {} ELSE ToSet(content.alignment.changes)

\* What comparing ignores of a line, if it is asked to.
Trimmed(line) ==
    LET kept == {i \in DOMAIN line : line[i] # <<"space">>}
    IN  IF kept = {} THEN <<>> ELSE SubSeq(line, Min(kept), Max(kept))
Equivalent(line, other) ==
    line = other \/ (IgnoreTrimWhitespace /\ Trimmed(line) = Trimmed(other))

Changed(content, v, line) == \E c \in ChangesOf(content) : Contains_(c[v], line)

\* Fragments come one behind the other: of one line, or of two.
Precedes(s, t) ==
    s.line < t.line \/ (s.line = t.line /\ s.to <= t.from /\ s.from < t.from)

\* Rows read some lines of a version: each of them, and no other, from its first
\* byte to its last, in order.
RowsRead(rows, v, text, lines) ==
    /\ \A i \in 1 .. Len(rows) : rows[i][v].line # Filler =>
          rows[i][v].line \in lines /\ rows[i][v].to <= ByteLen(text[rows[i][v].line])
    /\ \A i, j \in 1 .. Len(rows) :
          i < j /\ rows[i][v].line # Filler /\ rows[j][v].line # Filler
          => Precedes(rows[i][v], rows[j][v])
    /\ \A n \in lines :
          /\ \E i \in 1 .. Len(rows) : rows[i][v].line = n /\ rows[i][v].from = 0
          /\ \A byte \in 0 .. ByteLen(text[n]) - 1 :
                \E i \in 1 .. Len(rows) :
                   rows[i][v].line = n /\ rows[i][v].from <= byte /\ byte < rows[i][v].to

\* Whatever is drawn, in the middle of a drawing too, its rows are those of the
\* hooks of this round and not of a layout that was kept for too long: they have
\* each byte of either version once, in order, each line's number once, and no
\* row is empty but that of an empty line.  Only a compact view hides lines, and
\* none that changed.
ReadsItsLines(content, v, rows) ==
    LET text == DrawnLines(content, v)
        shown == {rows[i][v].line : i \in 1 .. Len(rows)} \ {Filler}
    IN  /\ shown \subseteq 1 .. Len(text) /\ RowsRead(rows, v, text, shown)
        /\ \A n \in (1 .. Len(text)) \ shown : st.compact /\ ~Changed(content, v, n)
        /\ \A i \in 1 .. Len(rows) : rows[i][v].line # Filler =>
              rows[i][v].from < rows[i][v].to \/ ByteLen(text[rows[i][v].line]) = 0
        /\ \A i, j \in 1 .. Len(rows) :
              GutterNumber(rows[i][v]) = GutterNumber(rows[j][v]) /\ i # j
              => GutterNumber(rows[i][v]) = Filler
TextIsShownOnce ==
    st.content # Nothing =>
        \A v \in Versions : ReadsItsLines(Contents[st.content.name], v, memo.layout.rows)

\* A line of a text is put in front of both, and every range moves down by one.
Below(lines) == [lines EXCEPT !.start = @ + 1, !.end = @ + 1]
OneDown(a) ==
    [original |-> <<<<>>>> \o a.original, modified |-> <<<<>>>> \o a.modified,
     changes |-> [i \in DOMAIN a.changes |->
                     [v \in Versions |-> Below(a.changes[i][v])] @@ [inner |-> <<>>]]]

\* Every changed line is in one hunk, and no block is of two; a hunk is told
\* from all the others by what it changes, wherever in the file that is.
HunksAreEdits(a, lines, blocks) ==
    LET hunks == Hunks(a)
        ids == [k \in DOMAIN hunks |-> Identity(a, k)]
        HunksAt(i) == {k \in DOMAIN hunks : \E v \in Versions : Contains_(hunks[k][v], lines[i][v])}
    IN  /\ \A b \in blocks : Cardinality(UNION {HunksAt(i) : i \in b.start .. b.end - 1}) = 1
        /\ \A v \in Versions : \A n \in DOMAIN a[v] :
              (\E c \in ToSet(a.changes) : Contains_(c[v], n)) => HunkAt(a, v, n) # 0
        /\ Cardinality(ToSet(ids)) = Len(hunks)
        /\ ids = [k \in DOMAIN hunks |-> Identity(OneDown(a), k)]

BothChange(a, v, line) ==
    \E c \in ToSet(a.changes) : Contains_(c[v], line) /\ c.inner # <<>>

\* The changes of a line have no range from the break before them.
BeginInside(a, v, line) ==
    \A c \in ToSet(a.changes) : Contains_(c[v], line) =>
        \A i \in ToSet(c.inner) : Contains_(c[v], i[v].startLine)

\* What an alignment answers without its lines is what they say: how many there
\* are, where a line of a file is and which one is where, in which hunk it is
\* and which of its bytes differ, those of ranges that are not drawn too.
QueriesAgree ==
    IsDiff(st.content) =>
        LET a == Contents[st.content.name].alignment
            layout == st.layout
            lines == AlignedLines(a, layout)
            blocks == Blocks(a, layout)
        IN  /\ ViewLineCount(a, layout) = Len(lines)
            /\ \A v \in Versions : \A n \in DOMAIN a[v] :
                  LET at == ViewLineAt(a, layout, v, n)
                      colours == Decorations(a, v, n).characters
                  IN  /\ at # 0
                      /\ \/ LineAt(a, layout, at) = <<v, n>>
                         \/ lines[at].kind \in {"unchanged", "modified"}
                      /\ BothChange(a, v, n) =>
                           LET drawn == {c.bytes : c \in {c \in colours : c.bytes[1] < c.bytes[2]}}
                           IN  drawn \subseteq Spans(a, v, n)
                               /\ (BeginInside(a, v, n) => drawn = Spans(a, v, n))
            /\ HunksAreEdits(a, lines, blocks)
            /\ \A i \in DOMAIN lines :
                  lines[i].kind # "unchanged" => \E b \in blocks : Contains_(b, i)

\* What the rows read is the text as Git or the disk has it; lines beside each
\* other outside of the changes are what comparing takes for equal; and what an
\* alignment answers without its lines agrees.
RowsMatchTheFiles ==
    /\ TypeOK
    /\ Settled /\ st.content # Nothing =>
           LET content == Contents[st.content.name]
               text == Texts[st.content.name]
               rows == memo.layout.rows
           IN  /\ \A v \in Versions : DrawnLines(content, v) = text[v]
               /\ \A i \in DOMAIN rows :
                     LET o == rows[i].original  m == rows[i].modified IN
                     IsSource(o) /\ IsSource(m) /\ ~Changed(content, "original", o.line)
                        /\ ~Changed(content, "modified", m.line)
                     => Equivalent(text.original[o.line], text.modified[m.line])
               /\ QueriesAgree

\* A layout or content that changes keeps the line it had at the top, or the
\* one the file was left with, through all the rounds of the drawing, though
\* the first of them writes over the view state.  A change of size in the same
\* drawing is left out: it restores again, from what the first time left.
PlaceIsRestored ==
    rounds = 0 /\ wanted.restores /\ wanted.size = st.size =>
        LET rows == memo.layout.rows
            shown == Selected(rows[st.offset.y + 1])
        IN  /\ st.offset.x = wanted.x
            /\ IF FindRow(rows, wanted.line) = 0 THEN st.offset.y = 0
               ELSE /\ shown.line = wanted.line.line
                    /\ shown.from <= wanted.line.from
                    /\ wanted.line.from < shown.to \/ wanted.line.from = shown.from

\* What the diff engine says of a cluster: that a change has its first unit,
\* in a change of both sides or with the whole line of one that has one side.
\* What a change has from the break before its lines on is not counted
\* (decorations.rs:207: a marker from outside of its mapping is hidden).
EngineChanged(a, v, line, unit) ==
    \E c \in ToSet(a.changes) :
        IF IsEmptyRange(c.original) \/ IsEmptyRange(c.modified) THEN Contains_(c[v], line)
        ELSE \E i \in ToSet(c.inner) :
                LET r == i[v]
                    from == IF r.startLine = line THEN r.startCol ELSE 1
                IN  /\ c[v].start <= r.startLine /\ r.startLine < c[v].end
                    /\ r.startLine <= line /\ line <= r.endLine
                    /\ from <= unit + 1
                    /\ r.endLine > line \/ unit + 1 < r.endCol

\* From the engine's columns of UTF-16 units to the cells of a canvas, through
\* bytes, fragments and clusters: every cluster of a fragment rendered is
\* emphasised exactly when the engine has changed it, and has the colour that
\* the syntax gave to its bytes.
ClusterInk(a, v, n, first, stops, drawn, cells) ==
    \A i \in DOMAIN drawn : drawn[i].width > 0 =>
        LET cell == cells[drawn[i].cell] IN
        /\ cell.pen = first + i
        /\ cell.changed = EngineChanged(a, v, n, stops[first + i].utf16)
FragmentInk(a, v, fragment, stops, inputs) ==
    ClusterInk(a, v, fragment.line,
               Len(SelectSeq(stops, LAMBDA s : s.byte < fragment.from)), stops,
               Graphemes(inputs.text), PaintCodeLine(inputs, CellWidth(inputs.text)))

\* Each cluster is given a colour of its own.
LineInk(a, v, fragment, line, stops) ==
    FragmentInk(a, v, fragment, stops,
        PrepareFromDecorations(line, fragment, Decorations(a, v, fragment.line),
            {[bytes |-> <<stops[i].byte, stops[i + 1].byte>>, pen |-> i] : i \in DOMAIN line}))
RightInk(a, v, fragment) ==
    LET line == a[v][fragment.line] IN LineInk(a, v, fragment, line, Stops(line))

\* The text that is drawn is the text of the files, and what changed in it is what
\* is emphasised.
InkFollowsTheDiff ==
    /\ RowsMatchTheFiles
    /\ Settled /\ IsDiff(st.content) =>
           LET a == Contents[st.content.name].alignment
               rows == SubSeq(memo.layout.rows, range.first + 1, range.last)
           IN  \A i \in DOMAIN rows : \A v \in Versions :
                   IsSource(rows[i][v]) => RightInk(a, v, rows[i][v])
==============================================================================
