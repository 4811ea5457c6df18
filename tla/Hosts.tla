-------------------------------- MODULE Hosts --------------------------------
(***************************************************************************)
(* The hosts of a tree that is drawn (loom/src/node.rs, geometry.rs), the  *)
(* flex pass that gives them their rectangles (loom/src/layout), and what  *)
(* a host that scrolls makes of an offset.                                 *)
(*                                                                         *)
(* A host is a record.  Its `id` stands for its scope and number in it and *)
(* `ink` for its painter, if it has one.                                   *)
(***************************************************************************)
EXTENDS Numbers, Sequences, FiniteSets, SequencesExt

NoMax == 65535
NoPad == [top |-> 0, right |-> 0, bottom |-> 0, left |-> 0]
AutoBasis == [kind |-> "auto", n |-> 0]
LengthOf(n) == [kind |-> "length", n |-> n]
Percent(n) == [kind |-> "percent", n |-> n]

DefaultLayout ==
    [basis |-> AutoBasis, grow |-> 0, shrink |-> 1, minWidth |-> 0, minHeight |-> 0,
     maxWidth |-> NoMax, maxHeight |-> NoMax, gap |-> 0, pad |-> NoPad,
     clip |-> FALSE, hidden |-> FALSE]

PadAcross(pad) == pad.left + pad.right
PadDown(pad) == pad.top + pad.bottom

Rect(x, y, width, height) == [x |-> x, y |-> y, width |-> width, height |-> height]
ZeroRect == Rect(0, 0, 0, 0)

MaxU16 == 65535
NoScroll == [requested |-> [x |-> 0, y |-> 0], horizontal |-> FALSE, vertical |-> FALSE]
None == "none"
NoInk == "none"

Host == [id |-> None, axis |-> "across", layout |-> DefaultLayout, children |-> <<>>,
         scroll |-> NoScroll, tooSmall |-> <<>>, text |-> 0, focusable |-> FALSE,
         autoFocus |-> FALSE, listens |-> {}, ink |-> NoInk]

Row(id, layout, children) ==
    [Host EXCEPT !.id = id, !.layout = layout, !.children = children]
Column(id, layout, children) == [Row(id, layout, children) EXCEPT !.axis = "down"]
Stack(id, layout, children) == [Row(id, layout, children) EXCEPT !.axis = "over"]
Canvas(id, layout, ink) ==
    [Host EXCEPT !.id = id, !.layout = [layout EXCEPT !.clip = TRUE], !.ink = ink]

\* The content's sizes and place, when a producer of rows gives them.
NoSize == -1
Scroll(id, layout, view, children) ==
    [Column(id, [layout EXCEPT !.clip = TRUE], children) EXCEPT !.scroll = view]
IsScroll(node) == node.scroll.horizontal \/ node.scroll.vertical

-----------------------------------------------------------------------------
(* Rectangles *)

Right(r) == r.x + r.width
Bottom(r) == r.y + r.height
Inside(r, x, y) == r.x <= x /\ x < Right(r) /\ r.y <= y /\ y < Bottom(r)

Intersection(a, b) ==
    LET x == Greatest(a.x, b.x)  right == Least(Right(a), Right(b))
        y == Greatest(a.y, b.y)  bottom == Least(Bottom(a), Bottom(b))
    IN  Rect(x, y, Monus(right, x), Monus(bottom, y))

Inset(area, pad) ==
    Rect(area.x + pad.left, area.y + pad.top,
         Monus(area.width, PadAcross(pad)), Monus(area.height, PadDown(pad)))

OnScreen(n) == Least(Greatest(n, 0), MaxU16)

\* What of a rectangle in content coordinates is on the screen.
Translate(area, t) ==
    LET left == OnScreen(area.x + t.x)  right == OnScreen(Right(area) + t.x)
        top == OnScreen(area.y + t.y)   bottom == OnScreen(Bottom(area) + t.y)
    IN  IF right <= left \/ bottom <= top THEN ZeroRect
        ELSE Rect(left, top, right - left, bottom - top)

-----------------------------------------------------------------------------
(* Scrolling *)

MaxX(metrics) == Monus(metrics.contentWidth, metrics.viewportWidth)
MaxY(metrics) == Monus(metrics.contentHeight, metrics.viewportHeight)
ClampOffset(offset, metrics) == [x |-> Least(offset.x, MaxX(metrics)),
                                 y |-> Least(offset.y, MaxY(metrics))]

\* The axes a scroll host does not own have no more content than room.  A size
\* that the producer of the rows does not give is the natural one.
Given(size, natural) == IF size = NoSize THEN natural ELSE size
MetricsFor(view, naturalWidth, naturalHeight, inner) ==
    [contentWidth |-> IF view.horizontal
                      THEN Greatest(Given(view.contentWidth, naturalWidth), inner.width)
                      ELSE inner.width,
     contentHeight |-> IF view.vertical
                       THEN Greatest(Given(view.contentHeight, naturalHeight), inner.height)
                       ELSE inner.height,
     viewportWidth |-> inner.width, viewportHeight |-> inner.height]

\* The content's own rectangle, and what moves it on the screen.
ContentArea(node, inner, metrics) ==
    Rect(inner.x, inner.y,
         Least(IF node.scroll.areaWidth = NoSize THEN metrics.contentWidth
               ELSE node.scroll.areaWidth, MaxU16),
         Least(metrics.contentHeight, MaxU16))

\* A mutant: the content is taken to begin with its first row.
MovedFromStart(node, metrics, t) ==
    LET offset == ClampOffset(node.scroll.requested, metrics)
    IN  [x |-> t.x - offset.x, y |-> t.y - offset.y]

Moved(node, metrics, t) ==
    LET offset == ClampOffset(node.scroll.requested, metrics)
    IN  [x |-> t.x - offset.x + node.scroll.contentOffset.x,
         y |-> t.y - offset.y + node.scroll.contentOffset.y]

-----------------------------------------------------------------------------
(* The flex pass: what each child of a container asks for, the growing and   *)
(* shrinking of the free space, and the rectangles.  An item is a child's    *)
(* layout and what it measures on the main axis.                             *)

MinOn(layout, axis) == IF axis = "across" THEN layout.minWidth ELSE layout.minHeight
MaxOn(layout, axis) == IF axis = "across" THEN layout.maxWidth ELSE layout.maxHeight
Clamp(n, least, most) == Least(Greatest(n, least), Greatest(most, least))
ClampOn(layout, axis, n) == Clamp(n, MinOn(layout, axis), MaxOn(layout, axis))

SumOver(f, S) == FoldFunctionOnSet(+, 0, f, S)

Hypothetical(item, axis, room) ==
    LET basis == item.layout.basis
    IN  ClampOn(item.layout, axis,
                CASE basis.kind = "auto" -> item.measured
                  [] basis.kind = "length" -> basis.n
                  [] basis.kind = "percent" -> (room * basis.n) \div 100)

\* Of so many cells each share has its part in proportion; those left over go
\* to the largest remainders, the first on ties.
Portions(whole, rest, cells) ==
    LET left == cells - SumOver(whole, DOMAIN whole)
        Before(j, i) == rest[j] > rest[i] \/ (rest[j] = rest[i] /\ j < i)
    IN  [i \in DOMAIN whole |->
            whole[i] + IF Cardinality({j \in DOMAIN rest : Before(j, i)}) < left THEN 1 ELSE 0]
Divide(cells, share, total) ==
    Portions([i \in DOMAIN share |-> (cells * share[i]) \div total],
            [i \in DOMAIN share |-> (cells * share[i]) % total], cells)

\* What hits a bound is frozen, and there is another round if anything did.
Bounded(s, axis, items, loose) ==
    LET bounded == [i \in DOMAIN loose |-> ClampOn(items[i].layout, axis, loose[i])]
        hit == {i \in DOMAIN loose : bounded[i] # loose[i]}
    IN  [size |-> bounded @@ s.size, frozen |-> s.frozen \cup hit, done |-> hit = {}]

\* The free space goes to what may move: cells gained or, below none, lost.
Share(s, axis, items, free, share) ==
    LET total == SumOver(share, DOMAIN share)
        Resized(part) == [i \in DOMAIN part |-> IF free > 0 THEN s.size[i] + part[i]
                                               ELSE Monus(s.size[i], part[i])]
    IN  IF s.done \/ free = 0 \/ total = 0 THEN [s EXCEPT !.done = TRUE]
        ELSE Bounded(s, axis, items,
                     Resized(Divide(IF free > 0 THEN free ELSE -free, share, total)))

\* One round: an item takes by its grow factor and gives by its shrink factor
\* and its size.
Factor(layout, free) == IF free > 0 THEN layout.grow ELSE layout.shrink
Movable(s, items, free, shown) ==
    {i \in shown \ s.frozen : Factor(items[i].layout, free) > 0}
SharesOf(s, items, free, movable) ==
    [i \in movable |-> Factor(items[i].layout, free) * IF free > 0 THEN 1 ELSE s.size[i]]
RoundOver(s, axis, items, free, shown) ==
    Share(s, axis, items, free, SharesOf(s, items, free, Movable(s, items, free, shown)))
FlexRound(s, axis, room, items, shown) ==
    RoundOver(s, axis, items, room - SumOver(s.size, shown), shown)

\* At most one round more than there are children.
Resolve(axis, room, items, shown) ==
    LET start == [size |-> [i \in DOMAIN items |->
                               IF i \in shown THEN Hypothetical(items[i], axis, room) ELSE 0],
                  frozen |-> {}, done |-> FALSE]
    IN  FoldLeft(LAMBDA s, n : FlexRound(s, axis, room, items, shown), start,
                 [n \in 1 .. Cardinality(shown) + 1 |-> n]).size

\* Every child of a stack has all of the room.
Over(inner, items) ==
    [areas |-> [i \in DOMAIN items |-> IF items[i].layout.hidden THEN ZeroRect ELSE inner],
     tooSmall |-> \E i \in DOMAIN items :
                     /\ ~items[i].layout.hidden
                     /\ \/ inner.width < items[i].layout.minWidth
                        \/ inner.height < items[i].layout.minHeight]

\* The children one behind the other, each cut to what is left of the room.
AreaOnAxis(axis, inner, layout, at, length) ==
    IF axis = "across"
    THEN Rect(at, inner.y, length, ClampOn(layout, "down", inner.height))
    ELSE Rect(inner.x, at, ClampOn(layout, "across", inner.width), length)
Put(out, area, layout, length, gap) ==
    [areas |-> Append(out.areas, area),
     tooSmall |-> \/ out.tooSmall
                  \/ area.width < layout.minWidth \/ area.height < layout.minHeight,
     at |-> out.at + length + gap,
     left |-> Monus(Monus(out.left, length), gap)]
PutInRow(axis, inner, out, layout, length, gap) ==
    Put(out, AreaOnAxis(axis, inner, layout, out.at, length), layout, length, gap)
FlowSized(axis, inner, gap, items, size) ==
    FoldLeft(LAMBDA out, i :
                LET layout == items[i].layout
                IN  IF layout.hidden THEN [out EXCEPT !.areas = Append(@, ZeroRect)]
                    ELSE PutInRow(axis, inner, out, layout, Least(size[i], out.left), gap),
             [areas |-> <<>>, tooSmall |-> FALSE,
              at |-> IF axis = "across" THEN inner.x ELSE inner.y,
              left |-> IF axis = "across" THEN inner.width ELSE inner.height],
             [i \in DOMAIN items |-> i])
Flow(axis, inner, gap, items) ==
    LET shown == {i \in DOMAIN items : ~items[i].layout.hidden}
        main == IF axis = "across" THEN inner.width ELSE inner.height
    IN  FlowSized(axis, inner, gap, items,
                  Resolve(axis, Monus(main, gap * Monus(Cardinality(shown), 1)), items, shown))

Assign(axis, inner, gap, items) ==
    IF axis = "over" THEN Over(inner, items) ELSE Flow(axis, inner, gap, items)
==============================================================================
