--------------------------------- MODULE Loom ---------------------------------
(***************************************************************************)
(* The runtime of the user interface: a tree of components, their hook     *)
(* slots, and the loop that draws.  A drawing is a few rounds of           *)
(* committing state, running the components that are marked and laying     *)
(* out, then one of running effects.  Everything happens on one thread;    *)
(* what makes it hard is the order in which writes, effects, unmountings   *)
(* and late answers meet.                                                  *)
(*                                                                         *)
(* A component has at most one state, one effect and one layout effect.    *)
(* Its effect clears its state, opens an address and asks; the answers,    *)
(* any number of them, write the state.  Its layout effect may write its   *)
(* state.  Queued effects run in any order.  What a component's hosts look *)
(* like is abstracted to what it was rendered with.  No component writes   *)
(* state while it renders, and no cleanup does.                            *)
(***************************************************************************)
EXTENDS Naturals, SequencesExt

CONSTANTS
    Types,          \* the components
    Root,           \* the one the tree is made of
    Parts,          \* per component and value of its state, those it produces, in order
    Keyed,          \* those whose key is their parent's value
    Given,          \* those whose props are that value
    Memo,           \* those that are memoised
    Offering,       \* those that provide their state as the context
    Reading,        \* those that read the context
    Asking,         \* those with an effect
    Measuring,      \* those with a layout effect
    Writable,       \* those with a listener that writes their state
    Values,         \* the values of a state that is written by listeners
    Start,          \* per component, its state's first value
    Rounds,         \* frame.rs: ROUNDS
    Extra,          \* run.rs: further drawings before the next event
    MaxWrites,      \* bound: writes by listeners and layout effects, and resizes
    None

ScopeId == [index: Nat \ {0}, generation: Nat]

\* The two effects of a component, by when they run.
Kinds == {"layout", "effect"}

ASSUME LoomAssumption ==
    /\ Root \in Types
    /\ Parts \in [Types -> [Values \cup {None} -> Seq(Types)]]
    /\ Keyed \cup Given \cup Memo \cup Offering \cup Reading \cup Asking
        \cup Measuring \cup Writable \subseteq Types
    /\ Offering \cap Reading = {}
    /\ Asking \cap (Writable \cup Measuring) = {}
    /\ \A t \in Types: IF t \in Asking THEN Start[t] = None ELSE Start[t] \in Values
    /\ Rounds \in Nat \ {0} /\ Extra \in Nat /\ MaxWrites \in Nat
    /\ None \notin ScopeId

VARIABLES
    scopes,         \* the live cells of the slab: ScopeId -> Mounted
    generations,    \* per cell of the slab
    states,         \* ScopeId -> its state slot
    slots,          \* ScopeId -> its effect slots
    offers,         \* ScopeId -> the context value it offers
    marked,         \* Runtime.dirty
    queued,         \* Runtime.layout_effects and Runtime.effects
    at,             \* where the loop is
    stack,          \* the components being expanded, innermost last
    entering,       \* the component about to run
    queue,          \* the effects being run
    rounds,         \* of this drawing
    extra,          \* drawings since the last event
    asked,          \* the addresses out with workers
    running,        \* history: the effects that ran and were not cleaned up
    writes          \* counter for the bound

treeVars == <<scopes, generations, states, slots, offers, marked>>
effectVars == <<queued, queue, asked, running>>
loopVars == <<at, stack, entering, rounds, extra, writes>>
vars == <<treeVars, effectVars, loopVars>>

Live == DOMAIN scopes
root == [index |-> 1, generation |-> 0]

\* What an effect depends on: a layout effect on its component's state, the
\* other on the props and the context it was rendered with.
Deps(k) ==
    IF k = "effect" THEN [props: Values \cup {None}, seen: SUBSET Values] ELSE Values

EffectRun(k) == [scope: ScopeId, slot: {k}, generation: Nat, deps: Deps(k)]

\* A component before its first render.  It keeps its parent for life, and with
\* it all that are above it.
NewMounted(part, parent, above) ==
    [type |-> part.type, key |-> part.key, props |-> part.props,
     parent |-> parent, above |-> above, children |-> <<>>, dirty |-> TRUE,
     rendered |-> FALSE, produced |-> [props |-> None, value |-> None, seen |-> {}]]

NewState(type) == [value |-> Start[type], pending |-> {}]

NewSlots == [k \in Kinds |-> [deps |-> None, generation |-> 0, cleanup |-> {}]]

Part(t, value) ==
    [type |-> t, key |-> IF t \in Keyed THEN value ELSE None,
     props |-> IF t \in Given THEN value ELSE None]

\* A map with one more entry, or another value for it.
Extend(f, x, y) == [z \in DOMAIN f \cup {x} |-> IF z = x THEN y ELSE f[z]]

\* What a component produces from its state; what an answer holds shapes nothing.
PartsOf(t, value) ==
    LET shape == IF t \in Asking THEN None ELSE value
    IN  [n \in DOMAIN Parts[t][shape] |-> Part(Parts[t][shape][n], shape)]

------------------------------------------------------------------------------
(* The tree and its marks. *)

Above(id) == scopes[id].above

Below(id) == {x \in Live: id \in Above(x)}

\* Mutant: marks the parent and nothing above it.
MarkPathShort(dirty, id) == {id} \cup ({scopes[id].parent} \cap Live)

\* mark: a scope and its ancestors, up to the first that is dirty already.
MarkPath(dirty, id) ==
    {id} \cup {a \in Above(id): \A b \in Above(id): b = a \/ a \in Above(b) => b \notin dirty}

Dirty == {id \in Live: scopes[id].dirty}

Flagged(mounted, ids) ==
    [x \in DOMAIN mounted |-> [mounted[x] EXCEPT !.dirty = @ \/ x \in ids]]

\* mark, for each of a set of live scopes.
Mark(ids) ==
    /\ scopes' = Flagged(scopes, UNION {MarkPath(Dirty, id): id \in ids})
    /\ marked' = marked \cup ids

\* The value of the nearest offer at or above a scope, if there is one.
Context(id) ==
    LET offering == (Above(id) \cup {id}) \cap DOMAIN offers
    IN  {offers[p]: p \in {p \in offering: offering \ {p} \subseteq Above(p)}}

\* mark_readers: below a provider, those that read, down to a nearer provider.
Readers(from) ==
    {id \in Below(from): /\ scopes[id].type \in Reading
                         /\ scopes[id].rendered
                         /\ Above(id) \cap Below(from) \cap DOMAIN offers = {}}

\* Mutant: any run of the effect will do.
CurrentScope(run) == run.scope \in DOMAIN slots

\* Whether the effect slot a run or an address belongs to is still at that run.
Current(run) ==
    run.scope \in DOMAIN slots /\ slots[run.scope][run.slot].generation = run.generation

\* write_slot: the pending value moves, and a change marks.
WriteSlot(id, value) ==
    /\ states' = [states EXCEPT ![id].pending = {value}]
    /\ Mark(IF value # states[id].value THEN {id} ELSE {})

------------------------------------------------------------------------------
(* A round: frame.rs draw, reconcile.rs run and expand. *)

\* Tree::new, and the loop's first drawing.
Init ==
    /\ scopes = [id \in {root} |-> NewMounted(Part(Root, None), None, {})]
    /\ generations = <<0>>
    /\ states = [id \in {root} |-> NewState(Root)]
    /\ slots = [id \in {root} |-> NewSlots]
    /\ offers = <<>>
    /\ marked = {root}
    /\ queued = [k \in Kinds |-> {}]
    /\ at = "handling"
    /\ stack = <<>> /\ entering = None /\ queue = {}
    /\ rounds = 0 /\ extra = 0 /\ writes = 0
    /\ asked = {} /\ running = {}

\* commit_state for every slot, dirty.clear(), and down from the root.
StartRound(round, drawing) ==
    /\ states' = [id \in DOMAIN states |->
            [value |-> IF states[id].pending = {} THEN states[id].value
                       ELSE CHOOSE v \in states[id].pending: TRUE,
             pending |-> {}]]
    /\ marked' = {}
    /\ at' = "frame"
    /\ entering' = root
    /\ rounds' = round /\ extra' = drawing
    /\ UNCHANGED <<scopes, generations, slots, offers, effectVars, stack, writes>>

\* run, of a scope that is clean: what it produced last time.
Reuse ==
    /\ at = "frame" /\ entering # None /\ entering \notin Dirty
    /\ entering' = None
    /\ UNCHANGED <<treeVars, effectVars, at, stack, rounds, extra, writes>>

Seen(id) == IF scopes[id].type \in Reading THEN Context(id) ELSE {}

\* The dependencies of the effects a component has.
Dependencies(id) ==
    [k \in {k \in Kinds: scopes[id].type \in IF k = "effect" THEN Asking ELSE Measuring} |->
        IF k = "effect" THEN [props |-> scopes[id].props, seen |-> Seen(id)]
        ELSE states[id].value]

\* Mutant: does not run again for a new context.
ChangedProps(id) ==
    {k \in DOMAIN Dependencies(id):
        \/ slots[id][k].generation = 0
        \/ IF k = "effect" THEN slots[id][k].deps.props # Dependencies(id)[k].props
           ELSE slots[id][k].deps # Dependencies(id)[k]}

\* use_effect and use_layout_effect: the slots whose dependencies have changed.
Changed(id) ==
    {k \in DOMAIN Dependencies(id):
        slots[id][k].generation = 0 \/ slots[id][k].deps # Dependencies(id)[k]}

\* They go on to their next generation, whose run is queued.
NextSlots(id) ==
    [k \in Kinds |->
        IF k \in Changed(id)
        THEN [deps |-> Dependencies(id)[k], generation |-> slots[id][k].generation + 1,
              cleanup |-> slots[id][k].cleanup]
        ELSE slots[id][k]]

NextRuns(id) ==
    {[scope |-> id, slot |-> k, deps |-> Dependencies(id)[k],
      generation |-> slots[id][k].generation + 1]: k \in Changed(id)}

\* Cursor::new; the old children that are left are those still to be compared.
Cursor(id, parts) ==
    [scope |-> id, parts |-> parts, next |-> <<>>,
     old |-> scopes[id].children, left |-> DOMAIN scopes[id].children]

\* run, of a scope that is dirty: its function, which provides and reads the
\* context and queues effects.
Render ==
    /\ at = "frame" /\ entering \in Dirty
    /\ LET id == entering
           value == states[id].value
           now == [scopes EXCEPT ![id].dirty = FALSE, ![id].rendered = TRUE,
                                 ![id].produced = [props |-> scopes[id].props, value |-> value,
                                                   seen |-> Seen(id)]]
           readers == IF id \in DOMAIN offers /\ offers[id] # value THEN Readers(id) ELSE {}
       IN  /\ scopes' = Flagged(now, UNION {MarkPath(Dirty \ {id}, r): r \in readers})
           /\ marked' = marked \cup readers
           /\ offers' = IF scopes[id].type \in Offering THEN Extend(offers, id, value) ELSE offers
           /\ slots' = [slots EXCEPT ![id] = NextSlots(id)]
           /\ queued' = [k \in Kinds |-> queued[k] \cup {run \in NextRuns(id): run.slot = k}]
           /\ stack' = Append(stack, Cursor(id, PartsOf(scopes[id].type, value)))
    /\ entering' = None
    /\ UNCHANGED <<generations, states, queue, asked, running, at, rounds, extra, writes>>

\* The first of some positions.
First(positions) == {n \in positions: \A m \in positions: n <= m}

\* Cursor::keyed and Cursor::positional: the old child that is compared, by its
\* position: the next one of the part's key and type, or without a key the next
\* one without.
Compared(cursor, part) ==
    First({n \in cursor.left:
              /\ scopes[cursor.old[n]].key = part.key
              /\ part.key # None => scopes[cursor.old[n]].type = part.type})

\* Mutant: takes any old child of the type.
MatchType(cursor, part) ==
    {cursor.old[n]: n \in First({n \in cursor.left: scopes[cursor.old[n]].type = part.type})}

\* The old child a part goes on with, if there is one.
Match(cursor, part) ==
    {cursor.old[n]: n \in {n \in Compared(cursor, part):
                               scopes[cursor.old[n]].type = part.type}}

\* expand goes on with the next part, whose scope runs first.
Claim(cursor, id) ==
    /\ stack' = Append(Front(stack),
           [cursor EXCEPT !.parts = Tail(@),
                          !.next = Append(@, id),
                          !.left = @ \ Compared(cursor, Head(cursor.parts))])
    /\ entering' = id

\* expand, of a part that goes on with an old child.
Keep ==
    /\ at = "frame" /\ entering = None /\ stack # <<>>
    /\ LET cursor == Last(stack)
           part == Head(cursor.parts)
       IN  /\ cursor.parts # <<>>
           /\ \E id \in Match(cursor, part):
                  /\ scopes' = [scopes EXCEPT
                         ![id].props = part.props,
                         ![id].dirty = @ \/ part.type \notin Memo
                                         \/ scopes[id].props # part.props]
                  /\ Claim(cursor, id)
    /\ UNCHANGED <<generations, states, slots, offers, marked, effectVars, at, rounds, extra, writes>>

\* Scopes::insert: any free cell, or a new one if there is none.
FreshIds ==
    LET free == DOMAIN generations \ {id.index: id \in Live}
    IN  IF free = {} THEN {[index |-> Len(generations) + 1, generation |-> 0]}
        ELSE {[index |-> n, generation |-> generations[n]]: n \in free}

\* expand, of a part that matches no old child: mount.
Mount ==
    /\ at = "frame" /\ entering = None /\ stack # <<>>
    /\ LET cursor == Last(stack)
           part == Head(cursor.parts)
       IN  /\ cursor.parts # <<>>
           /\ Match(cursor, part) = {}
           /\ \E id \in FreshIds:
                  /\ scopes' = Extend([scopes EXCEPT ![cursor.scope].children = Append(@, id)],
                                      id, NewMounted(part, cursor.scope,
                                                     {cursor.scope} \cup Above(cursor.scope)))
                  /\ states' = Extend(states, id, NewState(part.type))
                  /\ slots' = Extend(slots, id, NewSlots)
                  /\ generations' = IF id.index \in DOMAIN generations THEN generations
                                    ELSE Append(generations, 0)
                  /\ Claim(cursor, id)
    /\ UNCHANGED <<offers, marked, effectVars, at, rounds, extra, writes>>

\* Mutant: the cell keeps its generation.
FreedInPlace(gone) == generations

\* Scopes::remove: a handle to a removed scope is no longer alive.
Freed(gone) ==
    [n \in DOMAIN generations |->
        generations[n] + IF \E id \in gone: id.index = n THEN 1 ELSE 0]

\* The children not claimed, and everything below them.
Detached(cursor) ==
    LET unclaimed == (Range(scopes[cursor.scope].children) \ Range(cursor.next)) \cap Live
    IN  unclaimed \cup UNION {Below(c): c \in unclaimed}

\* run, after expand: unmount_children_except, with every cleanup.
Finish ==
    /\ at = "frame" /\ entering = None /\ stack # <<>>
    /\ LET cursor == Last(stack)
           gone == Detached(cursor)
       IN  /\ cursor.parts = <<>>
           /\ scopes' = Restrict([scopes EXCEPT ![cursor.scope].children = cursor.next],
                                Live \ gone)
           /\ states' = Restrict(states, Live \ gone)
           /\ slots' = Restrict(slots, Live \ gone)
           /\ offers' = Restrict(offers, DOMAIN offers \ gone)
           /\ generations' = Freed(gone)
           /\ marked' = marked \ gone
           /\ queued' = [k \in Kinds |-> {run \in queued[k]: run.scope \notin gone}]
           /\ running' = running \
                  UNION {slots[id][k].cleanup: id \in gone, k \in Kinds}
    /\ stack' = Front(stack)
    /\ UNCHANGED <<queue, asked, at, entering, rounds, extra, writes>>

\* lay_out: scroll metrics that differ mark the root; then take the layout effects.
LayOut ==
    /\ at = "frame" /\ entering = None /\ stack = <<>>
    /\ \/ Mark({}) /\ UNCHANGED writes
       \/ writes < MaxWrites /\ writes' = writes + 1 /\ Mark({root})
    /\ at' = "layout"
    /\ queue' = queued["layout"]
    /\ queued' = [queued EXCEPT !["layout"] = {}]
    /\ UNCHANGED <<generations, states, slots, offers, asked, running, stack, entering, rounds, extra>>

------------------------------------------------------------------------------
(* Effects: frame.rs run_effects. *)

Took(run) == at = run.slot /\ queue' = queue \ {run}

\* A run its slot has gone past.
SkipEffect(run) ==
    /\ Took(run)
    /\ ~Current(run)
    /\ UNCHANGED <<treeVars, queued, asked, running, loopVars>>

\* The old run's cleanup, then the body; its cleanup is kept.
RunEffect(run) ==
    /\ Took(run)
    /\ run.slot = "effect"
    /\ Current(run)
    /\ running' = (running \ slots[run.scope]["effect"].cleanup) \cup {run}
    /\ asked' = asked \cup {run}
    /\ slots' = [slots EXCEPT ![run.scope]["effect"].cleanup = {run}]
    /\ WriteSlot(run.scope, None)
    /\ UNCHANGED <<generations, offers, queued, loopVars>>

\* A layout effect has measured; it may write what it found.
RunLayoutEffect(run) ==
    /\ Took(run)
    /\ run.slot = "layout"
    /\ Current(run)
    /\ \/ UNCHANGED <<states, scopes, marked, writes>>
       \/ /\ writes < MaxWrites /\ writes' = writes + 1
          /\ \E v \in Values: WriteSlot(run.scope, v)
    /\ UNCHANGED <<generations, slots, offers, queued, asked, running, at, stack, entering, rounds, extra>>

\* A write before the paint asks for another round.
AnotherRound ==
    /\ at = "layout" /\ queue = {}
    /\ marked # {} /\ rounds < Rounds
    /\ StartRound(rounds + 1, extra)

\* Paint, and take the effects.
PaintAll ==
    /\ at = "layout" /\ queue = {}
    /\ marked = {} \/ rounds = Rounds
    /\ at' = "effect"
    /\ queue' = queued["effect"]
    /\ queued' = [queued EXCEPT !["effect"] = {}]
    /\ UNCHANGED <<treeVars, asked, running, stack, entering, rounds, extra, writes>>

------------------------------------------------------------------------------
(* The loop, and what happens between drawings. *)

\* run: some more drawings for what the effects wrote.
DrawAgain ==
    /\ at = "effect" /\ queue = {}
    /\ marked # {} /\ extra < Extra
    /\ StartRound(1, extra + 1)

\* run: recv
Wait ==
    /\ at = "effect" /\ queue = {}
    /\ marked = {} \/ extra = Extra
    /\ at' = "wait"
    /\ UNCHANGED <<treeVars, effectVars, stack, entering, rounds, extra, writes>>

\* run: no further event; the next drawing.
DrawNext ==
    /\ at = "handling"
    /\ StartRound(1, 0)

Responding ==
    /\ at \in {"wait", "handling"}
    /\ at' = "handling"
    /\ UNCHANGED <<generations, slots, offers, queued, queue, running, stack, entering, rounds, extra>>

\* A listener writes the state of its component.
Listen(id, v) ==
    /\ Responding
    /\ scopes[id].type \in Writable
    /\ writes < MaxWrites /\ writes' = writes + 1
    /\ WriteSlot(id, v)
    /\ UNCHANGED asked

\* redraw_all
Resize ==
    /\ Responding
    /\ writes < MaxWrites /\ writes' = writes + 1
    /\ Mark(Live)
    /\ UNCHANGED <<states, asked>>

\* Observer::next, of an address whose effect is still at that run.  This is the
\* last piece or not.
Answer(run) ==
    /\ Responding
    /\ asked' \in {asked, asked \ {run}}
    /\ Current(run)
    /\ WriteSlot(run.scope, run.deps)
    /\ UNCHANGED writes

\* The same, of any other.
Refuse(run) ==
    /\ Responding
    /\ asked' \in {asked, asked \ {run}}
    /\ ~Current(run)
    /\ UNCHANGED <<scopes, states, marked, writes>>

Next ==
    \/ Reuse \/ Render \/ Keep \/ Mount \/ Finish \/ LayOut
    \/ \E run \in queue: SkipEffect(run) \/ RunEffect(run) \/ RunLayoutEffect(run)
    \/ AnotherRound \/ PaintAll \/ DrawAgain \/ Wait \/ DrawNext \/ Resize
    \/ \E id \in Live, v \in Values: Listen(id, v)
    \/ \E run \in asked: Answer(run) \/ Refuse(run)

Spec == Init /\ [][Next]_vars

------------------------------------------------------------------------------
(* Properties *)

Value(t) == IF t \in Asking THEN Deps("effect") \cup {None} ELSE Values

Mounted(t) ==
    [type: {t}, key: Values \cup {None}, props: Values \cup {None},
     parent: Live \cup {None}, above: SUBSET Live, children: Seq(Live), dirty: BOOLEAN,
     rendered: BOOLEAN,
     produced: [props: Values \cup {None}, seen: SUBSET Values, value: Value(t) \cup {None}]]

EffectSlot(k) ==
    [deps: Deps(k) \cup {None}, generation: Nat, cleanup: SUBSET EffectRun("effect")]

\* The types of the variables; hooks are kept for the live scopes and for no
\* other, and a scope's state is of its component's type.
TypeOK ==
    /\ Live \subseteq ScopeId
    /\ \A id \in Live: scopes[id].type \in Types /\ scopes[id] \in Mounted(scopes[id].type)
    /\ generations \in Seq(Nat)
    /\ DOMAIN states = Live /\ DOMAIN slots = Live
    /\ \A id \in Live:
          /\ states[id].value \in Value(scopes[id].type)
          /\ states[id].pending \subseteq Value(scopes[id].type)
          /\ \A k \in Kinds: slots[id][k] \in EffectSlot(k)
    /\ DOMAIN offers \subseteq Live /\ \A id \in DOMAIN offers: offers[id] \in Values
    /\ marked \subseteq Live
    /\ \A k \in Kinds: queued[k] \subseteq EffectRun(k)
    /\ at \in {"frame", "wait", "handling"} \cup Kinds
    /\ IF at \in Kinds THEN queue \subseteq EffectRun(at) ELSE queue = {}
    /\ entering \in Live \cup {None}
    /\ \A n \in DOMAIN stack: stack[n].scope \in Live
    /\ rounds \in 0..Rounds /\ extra \in 0..Extra /\ writes \in 0..MaxWrites
    /\ asked \cup running \subseteq EffectRun("effect")

\* Between the frames, the tree is one: children and parents agree, every cell
\* of the slab holds at most one scope, whose handle has the cell's generation,
\* and each component has the children that its state asked for when it last
\* ran, in order.
TreeSound ==
    at # "frame" /\ rounds > 0 =>
        /\ \A id \in Live:
              /\ id.generation = generations[id.index]
              /\ id = root \/ root \in Above(id)
              /\ Range(scopes[id].children) = {x \in Live: scopes[x].parent = id}
              /\ [n \in DOMAIN scopes[id].children |->
                     LET c == scopes[scopes[id].children[n]] IN <<c.type, c.key>>]
                 = [n \in DOMAIN PartsOf(scopes[id].type, scopes[id].produced.value) |->
                     LET p == PartsOf(scopes[id].type, scopes[id].produced.value)[n]
                     IN  <<p.type, p.key>>]
        /\ \A x, y \in Live: x.index = y.index => x = y

\* A scope that does not show what it should: its state has moved on, its
\* props, or the context it read.
Stale(id) ==
    \/ ~scopes[id].rendered
    \/ ~(states[id].pending \subseteq {scopes[id].produced.value})
    \/ states[id].value # scopes[id].produced.value
    \/ scopes[id].props # scopes[id].produced.props
    \/ scopes[id].produced.seen # Seen(id)

\* Nothing that changes is lost: outside a frame a stale scope is marked, the
\* next round finds its way down to it through dirty ancestors, and the loop
\* knows there is something to draw.  Memoised scopes and the loop's limits
\* on rounds and drawings included.
NothingLost ==
    at # "frame" =>
        \A id \in Live: Stale(id) => marked # {} /\ Above(id) \cup {id} \subseteq Dirty

\* After a drawing exactly one effect is running for each live component that
\* has one, with the dependencies it was last rendered with, however many
\* rounds the drawing took; those of removed components were cleaned up.
EffectsMatch ==
    at \in {"wait", "handling"} /\ rounds > 0 =>
        running = {[scope |-> id, slot |-> "effect", deps |-> [props |-> scopes[id].produced.props,
                                                              seen |-> scopes[id].produced.seen],
                    generation |-> slots[id]["effect"].generation]:
                   id \in {id \in Live: scopes[id].type \in Asking}}

\* An answer is taken only by the effect that asked for it and is running
\* still: not after its component was removed, not by another one in the same
\* cell of the slab, and not by a later run of the effect.
AnswersFit ==
    [][\A run \in asked: Answer(run) => run \in running]_vars

\* When nothing is left to draw, a component shows the answer for what it was
\* asked with last, or nothing while it waits for one: never an older one.
ShowsItsAnswer ==
    at = "wait" /\ marked = {} =>
        \A id \in Live: scopes[id].type \in Asking =>
            LET deps == [props |-> scopes[id].props, seen |-> Seen(id)]
                waits == \E run \in asked: run.scope = id /\ run.deps = deps /\ Current(run)
            IN  scopes[id].produced.value \in {deps} \cup (IF waits THEN {None} ELSE {})
==============================================================================
