--------------------------------- MODULE App ---------------------------------
(***************************************************************************)
(* The application on its screen (ui/src/components: app, border, context, *)
(* explorer): the list with its cursor, the pane of the diff, which of the *)
(* two has the focus, and the drawings between which events are handled.   *)
(*                                                                         *)
(* Every event that is queued is handled before the next drawing, by the   *)
(* listeners of the last render.  `hooks` is what the last render read,    *)
(* `pending` what was written since.  A list of files and a content are    *)
(* kept behind an Rc: `fresh` says that it is another Rc than the one that *)
(* was rendered.  A list equal to the present one never is, for it is      *)
(* dropped when the states are committed; a content always is, for no two  *)
(* are equal, the same read twice neither.                                 *)
(*                                                                         *)
(* The rows of a diff are module Viewer's; no key that moves them matters  *)
(* here.  What staging does is module Git's: a list arrives in the end.    *)
(***************************************************************************)
EXTENDS Explorer, Frame

CONSTANTS
    Lists,          \* what the files worker may answer
    Texts,          \* what may be read of a file
    Screens,        \* the sizes of the terminal
    ExplorerWidth,  \* a preference: the cells of the list
    TreeFirst,      \* a preference: whether the list begins as a tree
    Keys,           \* the keys that are pressed, by what they are bound to
    Points,         \* the places of the pointer
    MaxEvents,      \* bound on the events of a behaviour, behind the first list
    MaxBatch        \* bound on the events between two drawings

VARIABLES
    hooks, pending,
    marked,     \* a write or a layout asks for another round
    shown,      \* the last render: its lines and what its listeners captured
    metrics,    \* what the last layout wrote about the list
    anchor,     \* the identity of the item under the cursor
    placed, focused, screen,
    laid,       \* the view and the screen that `placed` is the layout of
    wanted,     \* the file whose diff was asked for
    exited,
    batch,      \* the events since the last drawing (the model's own)
    events      \* how many events there were (the model's own)

vars == <<hooks, pending, marked, shown, metrics, anchor, placed, focused, screen,
          laid, wanted, exited, batch, events>>

ScrollOff == 3
WheelStep == 3
ExtraRows == 4
MaxRounds == 4
ExtraDrawings == 4

NoContent == [of |-> NoFile, text |-> None, fresh |-> FALSE]
FirstHooks ==
    [files |-> [list |-> <<>>, fresh |-> FALSE], line |-> 0, folded |-> {},
     tree |-> TreeFirst, offset |-> 0, height |-> 0, file |-> NoFile, content |-> NoContent,
     layout |-> "sideBySide", bright |-> [left |-> FALSE, right |-> FALSE]]

IsDiff(content) == content.text # None /\ ~OneSided(content.of)

-----------------------------------------------------------------------------
(* The hosts *)

Growing == [DefaultLayout EXCEPT !.grow = 1]
Padded == [Growing EXCEPT !.pad = [top |-> 1, right |-> 1, bottom |-> 1, left |-> 1]]
Hearing_(host, listens) == [host EXCEPT !.listens = listens]
Focusable(host, auto) == [host EXCEPT !.focusable = TRUE, !.autoFocus = auto]

\* A box: its line is drawn under what it holds.
Border(id, layout, child) ==
    LET basis == layout.basis
        outer == [layout EXCEPT
                     !.basis = IF basis.kind = "length" THEN LengthOf(basis.n + 4) ELSE basis,
                     !.minWidth = Greatest(@, 3), !.minHeight = Greatest(@, 3)]
    IN  Hearing_(Stack(id, outer, <<Canvas(None, Growing, None),
                                    Column(None, Padded, <<child>>)>>),
                 {"focus", "blur"})

\* The list: only the lines around the view are rendered.
ListView(offset, count, start) ==
    [requested |-> [x |-> 0, y |-> offset], horizontal |-> FALSE, vertical |-> TRUE,
     contentWidth |-> NoSize, contentHeight |-> count, areaWidth |-> NoSize,
     contentOffset |-> [x |-> 0, y |-> start]]
ListHost(r) ==
    Hearing_(Scroll("list", Growing, ListView(r.offset, Len(r.nodes), r.start), <<>>), {"wheel"})
ExplorerHost(r) ==
    Focusable(Hearing_(Column("explorer", [Growing EXCEPT !.minWidth = 8], <<ListHost(r)>>),
                       {"key", "mouse"}), TRUE)

\* The pane of the diff, known by what it shows; the welcome page does not ask
\* for the focus.
ViewHost(r) == Focusable(Column(r.view, Growing, <<>>), r.view # "welcome")
ViewerHost(r) ==
    Hearing_(Column("viewer", Growing,
        <<Hearing_(Column("container", Growing, <<ViewHost(r)>>), {"key", "wheel"})>>), {"key"})

Root(r) ==
    Hearing_(Column("root", Growing,
        <<Row(None, Growing,
              <<Border("left", [DefaultLayout EXCEPT !.basis = LengthOf(ExplorerWidth)],
                       ExplorerHost(r)),
                Border("right", Growing, ViewerHost(r))>>)>>), {"key"})

-----------------------------------------------------------------------------
(* Drawing.  d is everything that a drawing changes. *)

Nodes(h) == IF h.tree THEN GroupedTree(h.files.list, h.folded) ELSE GroupedList(h.files.list)
NodeAt(nodes, line) == IF line < Len(nodes) THEN <<nodes[line + 1]>> ELSE <<>>

ViewOf(h) == IF h.content.text = None THEN "welcome"
             ELSE IF OneSided(h.content.of) THEN "single" ELSE h.layout

\* A write to a hook: the component is marked if the value is another one.
Write(d, new) == [d EXCEPT !.pending = new, !.marked = @ \/ new # d.hooks]

\* What is rendered of the list.
RenderedNodes(h, nodes, start) ==
    [nodes |-> nodes, line |-> h.line, offset |-> h.offset, start |-> start,
     rows |-> Least(h.height + ExtraRows, Len(nodes) - start),
     isDiff |-> IsDiff(h.content), view |-> ViewOf(h)]
RenderedFrom(h, m, nodes) ==
    RenderedNodes(h, nodes, Least(Least(h.offset, MaxY(m)), Monus(Len(nodes), 1)))
Rendered(h, m) == RenderedFrom(h, m, Nodes(h))

\* A mutant: the new item under the cursor is remembered whatever the list is.
AnchorOfTheLine(d, r) ==
    [d EXCEPT !.anchor = IF NodeAt(r.nodes, r.line) = <<>> THEN NoIdentity
                         ELSE Identity(r.nodes[r.line + 1])]

\* When the list is another one the cursor goes to the item it was on, if
\* there still is one; otherwise the item is remembered.
FollowItem(d, r) ==
    LET at == FindByIdentity(d.anchor, r.nodes)
        here == NodeAt(r.nodes, r.line)
    IN  IF d.hooks.files.fresh
        THEN IF d.anchor = NoIdentity \/ at = -1 THEN d
             ELSE Write(d, [d.pending EXCEPT !.line = at])
        ELSE [d EXCEPT !.anchor = IF here = <<>> THEN NoIdentity ELSE Identity(here[1])]

\* A mutant: a view that is gone keeps the focus.
KeepFocus(d, r) == d.focused

\* A view that is gone takes the focus with it and tells nobody.
FocusAfter(d, r) ==
    IF d.focused = d.shown.view /\ (r.view # d.shown.view \/ d.hooks.content.fresh)
    THEN None ELSE d.focused

\* Every component runs again: none of them compares its properties.
Seen(h) == [h EXCEPT !.files.fresh = FALSE, !.content.fresh = FALSE]
RenderAs(d, r) ==
    [FollowItem(d, r) EXCEPT !.shown = r, !.focused = FocusAfter(d, r),
                             !.hooks = Seen(@), !.pending = Seen(@)]
Render(d) == RenderAs(d, Rendered(d.hooks, d.metrics))

\* The boxes around the host that loses and around the one that gains the
\* focus are told, and the root is marked.
MoveFocus(d, to) ==
    LET Told(hearing, box) == \E i \in DOMAIN hearing : hearing[i] = box
        bright == [b \in {"left", "right"} |->
                      \/ Told(Focused(d.placed, to), b)
                      \/ d.pending.bright[b] /\ ~Told(Blurred(d.placed, d.focused), b)]
        moved == Write(d, [d.pending EXCEPT !.bright = bright])
    IN  IF to = d.focused THEN d ELSE [moved EXCEPT !.focused = to, !.marked = TRUE]

\* Where the hosts are depends on the view and the screen alone: those of the
\* last layout are taken again where these are the same (the model's economy).
HostsOf(d, area) ==
    IF d.laid = <<d.shown.view, area>> THEN d.placed
    ELSE PlacedHosts(Root(d.shown), area.width, area.height)

\* The sizes of the list, where it is placed.
MetricsIn(d, hosts) ==
    IF IsPlaced(hosts, "list") THEN Metrics(ListHost(d.shown), ContentOf(hosts, "list"))
    ELSE d.metrics

\* A mutant: no round follows from the sizes that a layout finds.
LaidOutOnce(d, area, hosts, found) ==
    [d EXCEPT !.placed = hosts, !.laid = <<d.shown.view, area>>, !.metrics = found]

\* The hosts are placed, and the sizes of the list are written where the
\* listeners find them; another round follows if they have changed.
LaidOut(d, area, hosts, found) ==
    [d EXCEPT !.placed = hosts, !.laid = <<d.shown.view, area>>,
              !.metrics = found, !.marked = @ \/ found # d.metrics]
Measuring(d, area, hosts) == LaidOut(d, area, hosts, MetricsIn(d, hosts))
LayOutHosts(d, area) == Measuring(d, area, HostsOf(d, area))

\* use_measure: the list's height, known to the next render.
Measured(d) ==
    Write(d, [d.pending EXCEPT !.height = AreaOf(d.placed, "explorer").height])

\* A host that asks for the focus gets it if nothing has it.
Focus(d) == MoveFocus(d, AutoFocus(d.placed, d.focused))

\* What was written becomes what is read; an equal list is not another one.
Committed(d) ==
    LET next == [d.pending EXCEPT !.files.fresh = d.pending.files.list # d.hooks.files.list]
    IN  [d EXCEPT !.hooks = next, !.pending = next, !.marked = FALSE]
Round(d, area) ==
    IF d.marked THEN Measured(Focus(LayOutHosts(Render(Committed(d)), area))) ELSE Committed(d)

\* use_diff_content: another file is asked for when the frame is done.
AskForDiff(d) ==
    IF d.hooks.file = d.wanted THEN d
    ELSE LET asked == [d EXCEPT !.wanted = d.hooks.file]
         IN  IF d.hooks.file # NoFile THEN asked
             ELSE Write(asked, [asked.pending EXCEPT !.content = NoContent])

Frame(d, area) ==
    AskForDiff(FoldLeft(LAMBDA s, n : IF n = 1 \/ s.marked THEN Round(s, area) ELSE s,
                        d, [n \in 1 .. MaxRounds |-> n]))

Drawing(d, area) ==
    FoldLeft(LAMBDA s, n : IF n = 1 \/ s.marked THEN Frame(s, area) ELSE s,
             d, [n \in 1 .. 1 + ExtraDrawings |-> n])

State == [hooks |-> hooks, pending |-> pending, marked |-> marked, shown |-> shown,
          metrics |-> metrics, anchor |-> anchor, placed |-> placed, focused |-> focused,
          laid |-> laid, wanted |-> wanted]
Become(d) ==
    /\ hooks' = d.hooks /\ pending' = d.pending /\ marked' = d.marked
    /\ shown' = d.shown /\ metrics' = d.metrics /\ anchor' = d.anchor
    /\ placed' = d.placed /\ focused' = d.focused /\ laid' = d.laid
    /\ wanted' = d.wanted

Draw ==
    /\ batch # <<>> /\ ~exited
    /\ Become(Drawing(State, screen))
    /\ batch' = <<>>
    /\ UNCHANGED <<screen, exited, events>>

-----------------------------------------------------------------------------
(* Scrolling the list *)

\* keep_y_visible: as little as shows the line and a margin, by the sizes of
\* the last layout.
KeepVisible(offset, line, margin) ==
    LET height == metrics.viewportHeight
        most == MaxY(metrics)
        at == Least(line, metrics.contentHeight - 1)
        room == Least(margin, (height - 1) \div 2)
        top == Least(offset, most)
        above == IF at < top + room THEN Monus(at, room) ELSE top
        below == IF at + room >= above + height THEN Monus(at + room + 1, height) ELSE above
    IN  IF height = 0 \/ metrics.contentHeight = 0 THEN offset ELSE Least(below, most)

ScrollBy(offset, delta) ==
    LET at == Least(offset, MaxY(metrics))
    IN  IF delta < 0 THEN Monus(at, -delta) ELSE Least(at + delta, MaxY(metrics))

-----------------------------------------------------------------------------
(* The explorer's listeners *)

\* The lines and the cursor are those of the last render.
Count == Len(shown.nodes)
ItemAt(line) == NodeAt(shown.nodes, line)

Opened(h, node) == [h EXCEPT !.file = node.file]
Activated(h, node) ==
    LET key == DirectoryKey(node.path, node.revs)
    IN  CASE node.kind = "heading" -> h
          [] node.kind = "directory" ->
                [h EXCEPT !.folded = IF key \in @ THEN @ \ {key} ELSE @ \cup {key}]
          [] node.kind = "file" -> Opened(h, node)

\* The cursor goes from where it has been moved to, the view follows, and a
\* file is opened on the way.
CursorMoved(h, by) ==
    LET next == IF by > 0 THEN Least(h.line + 1, Monus(Count, 1)) ELSE Monus(h.line, 1)
        item == ItemAt(next)
        moved == [h EXCEPT !.line = next, !.offset = KeepVisible(@, next, ScrollOff)]
    IN  IF item # <<>> /\ item[1].kind = "file" THEN Opened(moved, item[1]) ELSE moved

Pressed(h, k) ==
    CASE k = "down" -> CursorMoved(h, 1)
      [] k = "up" -> CursorMoved(h, -1)
      [] k = "open" -> IF ItemAt(shown.line) = <<>> THEN h
                       ELSE Activated(h, ItemAt(shown.line)[1])
      [] k = "mode" -> [h EXCEPT !.tree = ~@]
      [] OTHER -> h

\* A directory is folded by the second click on it.
Clicked(h, row) ==
    LET line == Least(Least(shown.offset, MaxY(metrics)) + row, Monus(Count, 1))
        item == ItemAt(line)
        activates == /\ item # <<>>
                     /\ \/ item[1].kind = "file"
                        \/ item[1].kind = "directory" /\ line = shown.line
        at == [h EXCEPT !.line = line]
    IN  IF activates THEN Activated(at, item[1]) ELSE at

-----------------------------------------------------------------------------
(* Events *)

\* What is queued while the application waits or draws.
Happens(event) ==
    /\ ~exited /\ placed # <<>>
    /\ Len(batch) < MaxBatch /\ events < MaxEvents
    /\ batch' = Append(batch, event)
    /\ events' = events + 1

\* The keys a host answers; a diff's pane answers those that scroll, too.
Answers(host) ==
    CASE host = "explorer" -> {"down", "up", "open", "mode", "quit", "next"}
      [] host = "container" -> {"down", "up", "previous"}
      [] host = "viewer" -> IF shown.isDiff THEN {"layout"} ELSE {}
      [] OTHER -> {"quit"}

\* The first host on the way up that answers a key stops it.
Key ==
    \E k \in Keys :
       LET hearing == SelectSeq(KeyHearing(placed, focused), LAMBDA h : k \in Answers(h))
           host == IF hearing = <<>> THEN None ELSE hearing[1]
       IN  /\ Happens(k)
           /\ Become(CASE k = "next" /\ host # None ->
                             MoveFocus(State, StepFocus(placed, focused, 1))
                       [] k = "previous" /\ host # None ->
                             MoveFocus(State, StepFocus(placed, focused, -1))
                       [] host = "explorer" /\ k \notin {"next", "previous"} ->
                             Write(State, Pressed(pending, k))
                       [] host = "viewer" ->
                             Write(State, [pending EXCEPT !.layout =
                                             IF @ = "inline" THEN "sideBySide" ELSE "inline"])
                       [] OTHER -> State)
           /\ exited' = (k = "quit" /\ host # None)
           /\ UNCHANGED screen

\* The hosts under the pointer, from the deepest upward; none beside the screen.
HostsUnder(at) ==
    LET under == Under(placed, at[1], at[2])
    IN  IF under = {} THEN <<>> ELSE Upward(placed, LastOf(under))

\* The button goes down: focus first, then the list under the pointer.
Click ==
    \E at \in Points :
       LET hosts == HostsUnder(at)
           moved == IF hosts = <<>> THEN State ELSE MoveFocus(State, FocusOf(hosts))
           row == at[2] - AreaOf(placed, "explorer").y
       IN  /\ Happens("click")
           /\ Become(IF Listening(hosts, "mouse") = <<>> THEN moved
                     ELSE Write(moved, Clicked(moved.pending, row)))
           /\ UNCHANGED <<screen, exited>>

Wheel ==
    \E at \in Points, by \in {-1, 1} :
       /\ Happens("wheel")
       /\ Listening(HostsUnder(at), "wheel") = <<"list">>
       /\ Become(Write(State, [pending EXCEPT !.offset = ScrollBy(@, by * WheelStep)]))
       /\ UNCHANGED <<screen, exited>>

\* A list arrives: the selected file is looked for in it.
DeliverFiles ==
    \E name \in DOMAIN Lists :
       /\ IF hooks.files.list = <<>> /\ batch = <<>> /\ events = 0
          THEN placed # <<>> /\ batch' = <<"files">> /\ UNCHANGED events
          ELSE Happens("files")
       /\ ~exited
       /\ Become(Write(State,
             [pending EXCEPT !.file = MatchingSelectedFile(@, Lists[name]),
                             !.files.list = Lists[name]]))
       /\ UNCHANGED <<screen, exited>>

\* The diff of the file that was asked for, or that it cannot be made.
DeliverDiff ==
    /\ wanted # NoFile
    /\ Happens("diff")
    /\ \E text \in Texts \cup {None} :
          Become(Write(State, [pending EXCEPT !.content =
                    IF text = None THEN NoContent
                    ELSE [of |-> wanted, text |-> text, fresh |-> TRUE]]))
    /\ UNCHANGED <<screen, exited>>

\* Another size: everything is drawn again.
Resize ==
    \E s \in Screens \ {screen} :
       /\ Happens("resize")
       /\ screen' = s
       /\ Become([State EXCEPT !.marked = TRUE])
       /\ UNCHANGED exited

Init ==
    /\ hooks = FirstHooks /\ pending = FirstHooks
    /\ marked = TRUE
    /\ shown = [nodes |-> <<>>, line |-> 0, offset |-> 0, start |-> 0, rows |-> 0,
                isDiff |-> FALSE, view |-> "welcome"]
    /\ metrics = [contentWidth |-> 0, contentHeight |-> 0, viewportWidth |-> 0,
                  viewportHeight |-> 0]
    /\ anchor = NoIdentity
    /\ placed = <<>> /\ focused = None
    /\ screen \in Screens
    /\ laid = <<"none", screen>>
    /\ wanted = NoFile
    /\ exited = FALSE
    /\ batch = <<"start">> /\ events = 0

Next == Draw \/ Key \/ Click \/ Wheel \/ DeliverFiles \/ DeliverDiff \/ Resize

Spec == Init /\ [][Next]_vars

-----------------------------------------------------------------------------
(* Properties *)

\* Between drawings, with nothing to be handled.
Settled == batch = <<>> /\ ~exited
Drawn == batch # <<>> /\ batch' = <<>>
ListIsPlaced == IsPlaced(placed, "list")
Top == Least(shown.offset, MaxY(metrics))

\* The lines of a section behind its heading.
Headings(nodes) == {i \in DOMAIN nodes : nodes[i].kind = "heading"}
Depth(node) == Len(node.indent)
SectionOf(nodes, i) == CHOOSE h \in Headings(nodes) : h <= i /\ \A k \in Headings(nodes) : k <= i => k <= h
Section(nodes, h) == {i \in DOMAIN nodes \ Headings(nodes) : SectionOf(nodes, i) = h}

\* What an item stands under, by the depths alone: the nearest line above it
\* that is less deep, if that is not the heading.
ParentOf(nodes, i) ==
    LET above == {j \in 1 .. i - 1 : Depth(nodes[j]) = Depth(nodes[i]) - 1}
    IN  CHOOSE j \in above : \A k \in above : k <= j
FullPath(node) == IF node.kind = "file" THEN PathOf(node.file) ELSE node.path
HasLaterSibling(nodes, i, depth) ==
    \E j \in i + 1 .. Len(nodes) : /\ nodes[j].kind # "heading" /\ Depth(nodes[j]) = depth
                                   /\ \A k \in i + 1 .. j : Depth(nodes[k]) >= depth

\* The names on the way to an item make its path, and the lines before it go
\* on exactly as far as there is something to come.
TreeJoins(nodes, i) ==
    LET node == nodes[i]
        depth == Depth(node)
    IN  /\ IF depth = 1 THEN FullPath(node) = node.name
           ELSE /\ nodes[ParentOf(nodes, i)].kind = "directory"
                /\ nodes[ParentOf(nodes, i)].open
                /\ FullPath(node) = nodes[ParentOf(nodes, i)].path \o node.name
        /\ \A d \in 1 .. depth :
              (node.indent[d] \in {"bar", "tee"}) <=> HasLaterSibling(nodes, i, d)
        /\ \A d \in 1 .. depth : (node.indent[d] \in {"tee", "end"}) <=> d = depth

\* What stands under a directory that is folded.
FoldedUnder(nodes, h, file) ==
    \E i \in Section(nodes, h) : /\ nodes[i].kind = "directory" /\ ~nodes[i].open
                                 /\ IsStrictPrefix(nodes[i].path, PathOf(file))

\* The explorer shows every file of the last list once under the heading of
\* its comparison, unless a directory on the way is folded; in the tree the
\* names and the lines that join them tell its path, and no directory stands
\* alone in another one (build.rs).
ListShowsTheFiles ==
    Settled =>
    LET nodes == shown.nodes
        files == ToSet(hooks.files.list)
    IN  /\ {nodes[h].revs : h \in Headings(nodes)} = {RevsOf(f) : f \in files}
        /\ Cardinality(Headings(nodes)) = Cardinality({RevsOf(f) : f \in files})
        /\ \A f \in files : \E h \in Headings(nodes) :
              /\ nodes[h].revs = RevsOf(f)
              /\ Cardinality({i \in Section(nodes, h) : nodes[i].kind = "file" /\ nodes[i].file = f})
                 = IF hooks.tree /\ FoldedUnder(nodes, h, f) THEN 0 ELSE 1
        /\ \A i \in DOMAIN nodes \ Headings(nodes) :
              IF hooks.tree
              THEN /\ TreeJoins(nodes, i)
                   /\ nodes[i].kind = "directory" /\ nodes[i].open =>
                        Cardinality({j \in DOMAIN nodes :
                            /\ j > i /\ SectionOf(nodes, j) = SectionOf(nodes, i)
                            /\ IsStrictPrefix(nodes[i].path, FullPath(nodes[j]))}) # 1
                        \/ nodes[i + 1].kind = "file"
                   /\ nodes[i].kind = "file" => Len(nodes[i].name) = 1
              ELSE nodes[i].kind = "file" /\ nodes[i].name = PathOf(nodes[i].file)

\* On a line that has room for what must not be cut, a name ends before the
\* counts and the change letter begin, with a cell between, and so does what
\* follows the name; nothing goes beyond the line (entry.rs).
EntriesKeepApart ==
    LET width == AreaOf(placed, "list").width
    IN  \A i \in 1 .. Count :
            LET e == Entry(shown.nodes[i], width)
                gap == IF e.status[1] = e.status[2] THEN 0 ELSE 1
            IN  e.fits => /\ e.name[2] + gap <= e.status[1]
                          /\ e.suffix[2] + gap <= e.status[1]
                          /\ e.status[2] <= width - 2

\* When a drawing ends there is nothing left to draw, and every line of the
\* present list that the view has room for is drawn, although only the lines
\* around the offset known before the layout are rendered (mod.rs:84); and the
\* parts of each line keep apart.
EveryRowIsDrawn ==
    Settled /\ ListIsPlaced =>
    /\ ~marked
    /\ shown.nodes = Nodes(hooks)
    /\ EntriesKeepApart
    /\ \A y \in 0 .. metrics.viewportHeight - 1 :
          Top + y < Count => Top + y \in shown.start .. shown.start + shown.rows - 1

\* After nothing but moves of the cursor, however many were queued, the cursor's
\* line is on the screen (keep_y_visible, mod.rs:118); and a list that arrives
\* alone leaves the cursor on the item it was on, if the item is in it once and
\* has not been lost before (mod.rs:90).
CursorKeepsItsItem ==
    [][LET nodes == shown.nodes'
           same == {i \in DOMAIN nodes : Identity(nodes[i]) = anchor}
       IN  /\ /\ Drawn /\ ListIsPlaced /\ focused = "explorer"
              /\ ToSet(batch) \subseteq {"down", "up"}
              => (Count = 0 \/ hooks.line \in Top .. Top + metrics.viewportHeight - 1)'
           /\ /\ Drawn /\ batch = <<"files">>
              /\ shown.line < Count /\ anchor = Identity(shown.nodes[shown.line + 1])
              /\ Cardinality(same) = 1
              => hooks'.line + 1 \in same]_vars

\* While the panes fit the screen, a key reaches one of them and in the end
\* the root, which quits, and the box of that pane is bright, though a view that
\* is read again takes the focus with it and a click on a border takes it from
\* everybody (route.rs, border.rs).  The other box may be bright as well: nobody
\* is told of a focus that is unmounted (runtime.rs:145), though docs/archive/plan/
\* loom-spec.md:1812 has it that `on_blur` fires on the scope that loses it.
KeysHaveATarget ==
    Settled /\ IsPlaced(placed, "explorer") =>
    LET hearing == KeyHearing(placed, focused)
    IN  /\ focused \in {"explorer", shown.view}
        /\ hearing # <<>> /\ hearing[Len(hearing)] = "root"
        /\ hooks.bright[IF focused = "explorer" THEN "left" ELSE "right"]
==============================================================================
