-------------------------------- MODULE Frame --------------------------------
(***************************************************************************)
(* Laying a tree of hosts out on the screen (loom/src/frame.rs, paint):    *)
(* measuring, the placing of children, scrolled content, clipping, and     *)
(* what of a painter's ink reaches the cells; and where an event goes on   *)
(* that screen (loom/src/event).                                           *)
(***************************************************************************)
EXTENDS Hosts

-----------------------------------------------------------------------------
(* Measuring *)

Along(axis, pad) == IF axis = "down" THEN PadDown(pad) ELSE PadAcross(pad)

RECURSIVE Measure(_, _, _)
Measure(node, axis, parentAxis) ==
    LET basis == node.layout.basis
        own == parentAxis = axis
        Of(c) == Measure(c, axis, node.axis)
        sizes == [i \in DOMAIN node.children |-> Of(node.children[i])]
        along == Along(axis, node.layout.pad)
    IN  IF IsScroll(node) THEN IF own /\ basis.kind = "length" THEN basis.n ELSE 0
        ELSE IF own /\ basis.kind = "length" THEN basis.n
        ELSE IF own /\ basis.kind = "percent" THEN 0
        ELSE IF node.text > 0 THEN IF axis = "down" THEN 1 ELSE node.text
        ELSE IF node.children = <<>> THEN 0
        ELSE IF node.axis = axis
             THEN SumOver(sizes, DOMAIN sizes)
                  + node.layout.gap * Monus(Len(node.children), 1) + along
        ELSE Max(Range(sizes)) + along

Items(children, axis, parentAxis) ==
    [i \in DOMAIN children |-> [layout |-> children[i].layout,
                                measured |-> Measure(children[i], axis, parentAxis)]]

\* What a scroll host measures of its content.
Metrics(node, inner) ==
    LET across == Items(node.children, "across", node.axis)
        down == Items(node.children, "down", node.axis)
    IN  MetricsFor(node.scroll,
                   Max({across[i].measured : i \in DOMAIN across} \cup {0}),
                   SumOver([i \in DOMAIN down |-> down[i].measured], DOMAIN down)
                       + node.layout.gap * Monus(Len(down), 1),
                   inner)

-----------------------------------------------------------------------------
(* Placing *)

Placed(node, area, clip, path, t) ==
    [id |-> node.id, path |-> path, area |-> Translate(area, t),
     clip |-> Intersection(clip, Translate(area, t)), content |-> area,
     origin |-> [x |-> area.x + t.x, y |-> area.y + t.y],
     focusable |-> node.focusable, autoFocus |-> node.autoFocus,
     listens |-> node.listens, ink |-> node.ink, short |-> FALSE]

\* lay_out: the hosts of a subtree, its root first.  A host whose children do
\* not fit shows its message instead, or is short itself and shows nothing.
RECURSIVE LayOut(_, _, _, _, _)

\* Children in their areas, each clipped to its own and to the parent.
LayOutAll(children, areas, clip, path, t) ==
    FoldLeft(LAMBDA out, i : out \o LayOut(children[i], areas[i],
                                 Intersection(clip, Translate(areas[i], t)),
                                 Append(path, i), t),
             <<>>, [i \in DOMAIN children |-> i])

LayOutContent(node, inner, clip, path, t, metrics) ==
    LayOutAll(node.children,
              Assign("down", ContentArea(node, inner, metrics), node.layout.gap,
                     Items(node.children, "down", node.axis)).areas,
              clip, path, Moved(node, metrics, t))
LayOutScroll(node, inner, clip, path, t) ==
    LayOutContent(node, inner, clip, path, t, Metrics(node, inner))

\* What a host shows: all of its children, its message, or nothing.
Fitted(node, self, inner, clip, path, t, tooSmall, below) ==
    IF ~tooSmall /\ \A i \in DOMAIN below : ~below[i].short THEN <<self>> \o below
    ELSE IF node.tooSmall = <<>> THEN <<[self EXCEPT !.short = TRUE]>>
    ELSE <<self>> \o LayOut(node.tooSmall[1], inner, clip, Append(path, 1), t)
LayOutInto(node, self, inner, clip, path, t, out) ==
    Fitted(node, self, inner, clip, path, t, out.tooSmall,
           LayOutAll(node.children, [i \in DOMAIN out.areas |-> Intersection(out.areas[i], inner)],
                     clip, path, t))
LayOutBelow(node, self, inner, path, t) ==
    IF IsScroll(node) THEN <<self>> \o LayOutScroll(node, inner, self.clip, path, t)
    ELSE LayOutInto(node, self, inner,
                    IF node.layout.clip THEN Intersection(self.clip, Translate(inner, t))
                    ELSE self.clip,
                    path, t,
                    Assign(node.axis, inner, node.layout.gap,
                           Items(node.children, node.axis, node.axis)))

LayOut(node, area, clip, path, t) ==
    IF node.layout.hidden THEN <<>>
    ELSE LayOutBelow(node, Placed(node, area, clip, path, t), Inset(area, node.layout.pad),
                     path, t)

Screen(width, height) == Rect(0, 0, width, height)
PlacedHosts(root, width, height) ==
    LET screen == Screen(width, height)
    IN  LayOut(root, screen, screen, <<>>, [x |-> 0, y |-> 0])

-----------------------------------------------------------------------------
(* Painting *)

PaintClip(host) == Intersection(host.area, host.clip)

-----------------------------------------------------------------------------
(* Where an event goes: what is under a point, the hosts that hear of it,    *)
(* the nearest first, and the moves of focus.  Hosts are known by their ids. *)
(* `placed` is what the last layout placed, in the order of painting.        *)

Indices(placed, P(_)) == {i \in DOMAIN placed : P(placed[i])}
LastOf(S) == CHOOSE i \in S : \A j \in S : j <= i
FirstOf(S) == CHOOSE i \in S : \A j \in S : i <= j

IsPlaced(placed, id) == \E i \in DOMAIN placed : placed[i].id = id
AreaOf(placed, id) ==
    IF IsPlaced(placed, id) THEN placed[FirstOf(Indices(placed, LAMBDA h : h.id = id))].area
    ELSE ZeroRect

ContentOf(placed, id) == placed[FirstOf(Indices(placed, LAMBDA h : h.id = id))].content

\* Where the hosts under a point of the screen are, the deepest last.
Under(placed, x, y) ==
    Indices(placed, LAMBDA h : Inside(h.area, x, y) /\ Inside(h.clip, x, y))

IsAbove(a, b) == Len(a.path) <= Len(b.path) /\ \A i \in DOMAIN a.path : a.path[i] = b.path[i]

\* The host at an index of what is placed, and those above it, nearest first.
Upward(placed, i) == Reverse(SelectSeq(placed, LAMBDA h : IsAbove(h, placed[i])))

\* The same of a host; nothing for one that is not placed.
Ancestry(placed, id) ==
    IF IsPlaced(placed, id) THEN Upward(placed, FirstOf(Indices(placed, LAMBDA h : h.id = id)))
    ELSE <<>>

\* A key goes to the focused host, wherever that is; without one to the
\* deepest host that listens, or to the root.
KeyStart(placed, focused) ==
    LET listening == Indices(placed, LAMBDA h : "key" \in h.listens)
    IN  IF focused # None THEN focused
        ELSE IF listening # {} THEN placed[LastOf(listening)].id
        ELSE IF placed # <<>> THEN placed[1].id ELSE None

\* Who hears of an event, in the order in which they may stop it.
Listening(hosts, event) ==
    LET heard == SelectSeq(hosts, LAMBDA h : event \in h.listens)
    IN  [i \in DOMAIN heard |-> heard[i].id]
Hearing(placed, start, event) == Listening(Ancestry(placed, start), event)
KeyHearing(placed, focused) == Hearing(placed, KeyStart(placed, focused), "key")

\* The button going down focuses the nearest host that can be focused, and takes
\* the focus away where there is none.
FocusOf(hosts) ==
    LET focusable == SelectSeq(hosts, LAMBDA h : h.focusable)
    IN  IF focusable = <<>> THEN None ELSE focusable[1].id

\* The next host that can be focused, or the previous one, around the screen.
StepFocus(placed, focused, by) ==
    LET order == SelectSeq(placed, LAMBDA h : h.focusable)
        at == SelectInSeq(order, LAMBDA h : h.id = focused)
    IN  IF order = <<>> THEN focused
        ELSE IF at = 0 THEN order[IF by >= 0 THEN 1 ELSE Len(order)].id
        ELSE order[((at - 1 + by) % Len(order)) + 1].id

\* Those that are told of a move of focus: before it and after it.
Blurred(placed, from) == Hearing(placed, from, "blur")
Focused(placed, to) == Hearing(placed, to, "focus")

\* A drawing that finds no focus gives it to the first host that asks for it.
AutoFocus(placed, focused) ==
    LET asking == SelectSeq(placed, LAMBDA h : h.autoFocus /\ h.focusable)
    IN  IF focused # None \/ asking = <<>> THEN focused ELSE asking[1].id
==============================================================================
