------------------------------ MODULE LoomProofs ------------------------------
(***************************************************************************)
(* For every tree of components, whatever is written, removed and mounted  *)
(* meanwhile, and in whatever order effects run and answers come:          *)
(*  - no answer reaches an effect that did not ask for it (AnswersFit);    *)
(*  - at rest, the effects that run are those of the tree (EffectsMatch);  *)
(*  - after a frame the tree is one, and each component has the children   *)
(*    that its state asked for (TreeSound);                                *)
(*  - a component that shows something else than it should is found by the *)
(*    next round (NothingLost);                                            *)
(*  - at rest a component shows the answer for what it was asked with last *)
(*    (ShowsItsAnswer).                                                    *)
(* Each part below adds what it needs to the invariants of those before.   *)
(*                                                                         *)
(* AnswersFit rests on two ways of telling old from new.  The generation   *)
(* of a slab's cell tells a removed scope from the one that lives in its   *)
(* cell now (Known); the generation of an effect slot tells its runs apart *)
(* (RunsInv).  Then an address that is still current is that of the run    *)
(* whose cleanup its slot holds (AskedInv), as a run that has yet to start *)
(* shares its generation with no other (PendingInv).                       *)
(***************************************************************************)
EXTENDS Loom, TLAPS

\* The runs of effects that have been queued and not been started.
Pending == queued["effect"] \cup {run \in queue: run.slot = "effect"}

\* Every live scope is the one of its cell's generation.
SlabInv ==
    /\ generations \in Seq(Nat)
    /\ Live \subseteq ScopeId
    /\ \A id \in Live: id.index \in DOMAIN generations /\ id.generation = generations[id.index]

\* Each effect slot holds the cleanup of runs of its own.
SlotsInv ==
    /\ DOMAIN slots = Live
    /\ \A id \in Live: DOMAIN slots[id] = Kinds
    /\ \A id \in Live, k \in Kinds:
          /\ DOMAIN slots[id][k] = {"deps", "generation", "cleanup"}
          /\ slots[id][k].generation \in Nat
          /\ \A run \in slots[id][k].cleanup: run.scope = id /\ run.slot = k /\ run \in running

\* A handle is that of a live scope or of one removed from its cell before.
Known(id) ==
    /\ id \in ScopeId
    /\ id.index \in DOMAIN generations
    /\ id \in Live \/ id.generation < generations[id.index]

\* No run is ahead of its slot.
RunsInv ==
    \A run \in asked \cup Pending:
        /\ run.slot = "effect"
        /\ run.generation \in Nat
        /\ Known(run.scope)
        /\ run.scope \in Live => run.generation <= slots[run.scope]["effect"].generation

SameRun(r, s) == r.scope = s.scope /\ r.generation = s.generation

\* A run that has yet to start is told from all others.
PendingInv ==
    \A p \in Pending:
        /\ \A a \in asked: ~SameRun(p, a)
        /\ \A q \in Pending: SameRun(p, q) => p = q

\* An address that is current is that of the run its slot would clean up.
AskedInv == \A a \in asked: Current(a) => a \in slots[a.scope]["effect"].cleanup

\* Which effects wait, and which are being run.
QueueInv ==
    /\ queued = [k \in Kinds |-> queued[k]]
    /\ \A k \in Kinds: \A run \in queued[k]: run.slot = k
    /\ \A run \in queue: run.slot = at /\ at \in Kinds
    /\ at = "effect" => queued["effect"] = {}

HandlesInv == SlabInv /\ SlotsInv /\ RunsInv /\ PendingInv /\ AskedInv

IInv == HandlesInv /\ QueueInv

------------------------------------------------------------------------------
(* Steps that start no effect and change no scope's handle. *)

\* Handles stay sound through a step that starts, queues and removes nothing.
LEMMA QuietStep ==
    ASSUME HandlesInv, Live' = Live, Pending' \subseteq Pending, asked' \subseteq asked,
           UNCHANGED <<generations, slots, running>>
    PROVE  HandlesInv'
  BY DEF HandlesInv, SlabInv, SlotsInv, RunsInv, PendingInv, AskedInv, Known, SameRun, Current

\* Marking removes no scope,
LEMMA MarkKeepsLive == ASSUME NEW ids, Mark(ids) PROVE Live' = Live
  BY DEF Mark, Flagged, Live

\* and neither does a write.
LEMMA WriteKeepsLive == ASSUME NEW id, NEW v, WriteSlot(id, v) PROVE Live' = Live
  BY MarkKeepsLive DEF WriteSlot

\* A round starts with the handles it found.
LEMMA StartRoundIInv ==
    ASSUME IInv, NEW round, NEW drawing, StartRound(round, drawing), queue = {}
    PROVE  IInv'
  <1>1. Live' = Live /\ Pending' = Pending
    BY DEF StartRound, effectVars, Live, Pending
  <1>2. HandlesInv'
    BY <1>1, QuietStep DEF IInv, StartRound, effectVars
  <1>3. QueueInv'
    BY DEF IInv, QueueInv, StartRound, effectVars, Kinds
  <1> QED BY <1>2, <1>3 DEF IInv

\* A clean scope is gone past.
LEMMA ReuseIInv == ASSUME IInv, Reuse PROVE IInv'
  <1>1. Live' = Live /\ Pending' = Pending
    BY DEF Reuse, treeVars, effectVars, Live, Pending
  <1>2. HandlesInv'
    BY <1>1, QuietStep DEF IInv, Reuse, treeVars, effectVars
  <1>3. QueueInv'
    BY DEF IInv, QueueInv, Reuse, effectVars, treeVars
  <1> QED BY <1>2, <1>3 DEF IInv

\* A child that is kept keeps its handle and its slots.
LEMMA KeepIInv == ASSUME IInv, Keep PROVE IInv'
  <1>1. Live' = Live
    BY DEF Keep, Live
  <1>2. Pending' = Pending
    BY DEF Keep, effectVars, Pending
  <1>3. HandlesInv'
    BY <1>1, <1>2, QuietStep DEF IInv, Keep, effectVars
  <1>4. QueueInv'
    BY DEF IInv, QueueInv, Keep, effectVars
  <1> QED BY <1>3, <1>4 DEF IInv

\* Queued layout effects become the queue,
LEMMA LayOutIInv == ASSUME IInv, LayOut PROVE IInv'
  <1>1. Live' = Live
    BY MarkKeepsLive DEF LayOut
  <1>2. Pending' \subseteq Pending
    BY DEF LayOut, Pending, IInv, QueueInv, Kinds
  <1>3. HandlesInv'
    BY <1>1, <1>2, QuietStep DEF IInv, LayOut
  <1>4. QueueInv'
    BY DEF IInv, QueueInv, LayOut, Kinds
  <1> QED BY <1>3, <1>4 DEF IInv

\* and later the other effects do.
LEMMA PaintAllIInv == ASSUME IInv, PaintAll PROVE IInv'
  <1>1. Live' = Live
    BY DEF PaintAll, treeVars, Live
  <1>2. Pending' \subseteq Pending
    BY DEF PaintAll, Pending, IInv, QueueInv, Kinds
  <1>3. HandlesInv'
    BY <1>1, <1>2, QuietStep DEF IInv, PaintAll, treeVars
  <1>4. QueueInv'
    BY DEF IInv, QueueInv, PaintAll, Kinds
  <1> QED BY <1>3, <1>4 DEF IInv

\* A run that is skipped is pending no more.
LEMMA SkipEffectIInv == ASSUME IInv, NEW run \in queue, SkipEffect(run) PROVE IInv'
  <1>1. Live' = Live
    BY DEF SkipEffect, treeVars, Live
  <1>2. Pending' \subseteq Pending
    BY DEF SkipEffect, Took, Pending
  <1>3. HandlesInv'
    BY <1>1, <1>2, QuietStep DEF IInv, SkipEffect, treeVars
  <1>4. QueueInv'
    BY DEF IInv, QueueInv, SkipEffect, Took, loopVars
  <1> QED BY <1>3, <1>4 DEF IInv

\* A layout effect asks for nothing.
LEMMA RunLayoutEffectIInv == ASSUME IInv, NEW run \in queue, RunLayoutEffect(run) PROVE IInv'
  <1>1. Live' = Live
    BY WriteKeepsLive DEF RunLayoutEffect, Live
  <1>2. Pending' \subseteq Pending
    BY DEF RunLayoutEffect, Took, Pending
  <1>3. HandlesInv'
    BY <1>1, <1>2, QuietStep DEF IInv, RunLayoutEffect
  <1>4. QueueInv'
    BY DEF IInv, QueueInv, RunLayoutEffect, Took
  <1> QED BY <1>3, <1>4 DEF IInv

\* What happens between drawings: at most an address fewer.
LEMMA RespondingIInv ==
    ASSUME IInv, Responding, Live' = Live, asked' \subseteq asked
    PROVE  IInv'
  <1>1. Pending' = Pending
    BY DEF Responding, Pending
  <1>2. HandlesInv'
    BY <1>1, QuietStep DEF IInv, Responding
  <1>3. QueueInv'
    BY DEF IInv, QueueInv, Responding, Kinds
  <1> QED BY <1>2, <1>3 DEF IInv
------------------------------------------------------------------------------
(* Steps that run an effect or change the tree. *)

\* The run of an effect takes its slot's cleanup over, and asks.
LEMMA RunEffectIInv == ASSUME IInv, NEW run \in queue, RunEffect(run) PROVE IInv'
  <1> DEFINE me == run.scope
  <1>1. Live' = Live
    BY WriteKeepsLive DEF RunEffect
  <1>2. /\ run \in Pending
        /\ Pending' = Pending \ {run}
    BY DEF RunEffect, Took, Pending, IInv, QueueInv
  <1>3. me \in Live /\ slots[me]["effect"].generation = run.generation
    BY DEF RunEffect, Current, IInv, HandlesInv, SlotsInv
  <1>4. /\ slots'[me]["effect"].cleanup = {run}
        /\ \A id \in Live, k \in Kinds:
              /\ slots'[id][k].generation = slots[id][k].generation
              /\ id # me \/ k # "effect" => slots'[id][k] = slots[id][k]
              /\ id # me => slots'[id] = slots[id]
        /\ DOMAIN slots' = Live
        /\ DOMAIN slots'[me] = Kinds
        /\ DOMAIN slots'[me]["effect"] = {"deps", "generation", "cleanup"}
    <2>1. DOMAIN slots = Live
      BY DEF IInv, HandlesInv, SlotsInv
    <2>2. slots' = [slots EXCEPT ![me] = [slots[me] EXCEPT !["effect"] =
                       [slots[me]["effect"] EXCEPT !.cleanup = {run}]]]
      BY DEF RunEffect
    <2>3. slots'[me] = [slots[me] EXCEPT !["effect"] =
                           [slots[me]["effect"] EXCEPT !.cleanup = {run}]]
      BY <2>1, <2>2, <1>3
    <2>4. \A id \in Live: id # me => slots'[id] = slots[id]
      BY <2>1, <2>2
    <2>5. DOMAIN slots[me] = Kinds
      BY <1>3 DEF IInv, HandlesInv, SlotsInv
    <2>6. /\ slots'[me]["effect"] = [slots[me]["effect"] EXCEPT !.cleanup = {run}]
          /\ \A k \in Kinds: k # "effect" => slots'[me][k] = slots[me][k]
      BY <2>3, <2>5 DEF Kinds
    <2>7. DOMAIN slots[me]["effect"] = {"deps", "generation", "cleanup"}
      BY <1>3 DEF IInv, HandlesInv, SlotsInv, Kinds
    <2>8. /\ slots'[me]["effect"].cleanup = {run}
          /\ slots'[me]["effect"].generation = slots[me]["effect"].generation
          /\ DOMAIN slots'[me]["effect"] = {"deps", "generation", "cleanup"}
      BY <2>6, <2>7
    <2>9. DOMAIN slots' = Live /\ DOMAIN slots'[me] = Kinds
      BY <2>1, <2>2, <2>3, <2>5
    <2> QED BY <2>4, <2>6, <2>8, <2>9 DEF Kinds
  <1>5. SlabInv'
    BY <1>1 DEF RunEffect, IInv, HandlesInv, SlabInv
  <1>6. SlotsInv'
    <2>1. /\ run \in running' /\ run.slot = "effect"
          /\ \A r \in running: r.scope # me \/ r.slot # "effect" => r \in running'
      BY <1>3 DEF RunEffect, IInv, HandlesInv, SlotsInv, Kinds
    <2>2. ASSUME NEW k \in Kinds
          PROVE  /\ DOMAIN slots'[me][k] = {"deps", "generation", "cleanup"}
                 /\ slots'[me][k].generation \in Nat
                 /\ \A r \in slots'[me][k].cleanup: r.scope = me /\ r.slot = k /\ r \in running'
      <3>1. CASE k = "effect"
        BY <3>1, <2>1, <1>3, <1>4 DEF IInv, HandlesInv, SlotsInv
      <3>2. CASE k # "effect"
        <4>1. slots'[me][k] = slots[me][k]
          BY <3>2, <1>3, <1>4
        <4> QED BY <3>2, <4>1, <2>1, <1>3 DEF IInv, HandlesInv, SlotsInv
      <3> QED BY <3>1, <3>2
    <2>3. ASSUME NEW id \in Live, id # me, NEW k \in Kinds
          PROVE  /\ slots'[id] = slots[id]
                 /\ \A r \in slots'[id][k].cleanup: r.scope = id /\ r.slot = k /\ r \in running'
      BY <2>1, <2>3, <1>4 DEF IInv, HandlesInv, SlotsInv
    <2>4. ASSUME NEW id \in Live
          PROVE  /\ DOMAIN slots'[id] = Kinds
                 /\ \A k \in Kinds:
                       /\ DOMAIN slots'[id][k] = {"deps", "generation", "cleanup"}
                       /\ slots'[id][k].generation \in Nat
                       /\ \A r \in slots'[id][k].cleanup:
                             r.scope = id /\ r.slot = k /\ r \in running'
      <3>1. CASE id = me
        BY <3>1, <2>2, <1>4
      <3>2. CASE id # me
        <4>1. slots'[id] = slots[id]
          BY <3>2, <1>4 DEF Kinds
        <4>2. DOMAIN slots[id] = Kinds
          BY DEF IInv, HandlesInv, SlotsInv
        <4>3. \A k \in Kinds: DOMAIN slots[id][k] = {"deps", "generation", "cleanup"}
                               /\ slots[id][k].generation \in Nat
          BY DEF IInv, HandlesInv, SlotsInv
        <4> QED BY <3>2, <4>1, <4>2, <4>3, <2>3
      <3> QED BY <3>1, <3>2
    <2> QED BY <1>1, <1>4, <2>4 DEF SlotsInv
  <1>7. RunsInv'
    BY <1>1, <1>2, <1>4 DEF RunEffect, IInv, HandlesInv, RunsInv, Known, Kinds
  <1>8. PendingInv'
    BY <1>2 DEF RunEffect, IInv, HandlesInv, PendingInv, SameRun
  <1>9. AskedInv'
    <2> SUFFICES ASSUME NEW a \in asked', Current(a)'
                 PROVE  a \in slots'[a.scope]["effect"].cleanup
      BY DEF AskedInv
    <2>1. CASE a = run
      BY <2>1, <1>4
    <2>2. CASE a # run
      <3>1. a \in asked /\ a.slot = "effect" /\ a.scope \in Live
        BY <2>2, <1>1, <1>6 DEF RunEffect, IInv, HandlesInv, RunsInv, Current, SlotsInv
      <3>2. a.scope # me
        BY <3>1, <1>2, <1>3, <1>4 DEF IInv, HandlesInv, PendingInv, SameRun, Current, Kinds
      <3>3. Current(a)
        BY <3>1, <1>4, <1>6 DEF Current, IInv, HandlesInv, SlotsInv, Kinds
      <3> QED BY <3>1, <3>2, <3>3, <1>4 DEF IInv, HandlesInv, AskedInv, Kinds
    <2> QED BY <2>1, <2>2
  <1>10. QueueInv'
    BY DEF IInv, QueueInv, RunEffect, Took, loopVars
  <1> QED BY <1>5, <1>6, <1>7, <1>8, <1>9, <1>10 DEF IInv, HandlesInv

\* A fresh handle is no live one, and none that any run is of.
LEMMA FreshUnknown ==
    ASSUME HandlesInv, NEW id \in FreshIds
    PROVE  /\ id \in ScopeId
           /\ ~Known(id)
           /\ IF id.index \in DOMAIN generations
              THEN id.generation = generations[id.index]
                   /\ \A x \in Live: x.index # id.index
              ELSE id.index = Len(generations) + 1 /\ id.generation = 0
  BY DEF HandlesInv, SlabInv, FreshIds, Known, ScopeId

\* A mounted scope has a handle that was never out, or is of a later generation.
LEMMA MountIInv == ASSUME IInv, Mount PROVE IInv'
  <1>1. PICK id \in FreshIds:
          /\ Live' = Live \cup {id}
          /\ slots' = Extend(slots, id, NewSlots)
          /\ generations' = IF id.index \in DOMAIN generations THEN generations
                            ELSE Append(generations, 0)
    BY DEF Mount, Live, Extend
  <1>2. /\ at = "frame" /\ at' = at
        /\ UNCHANGED <<queued, queue, asked, running>>
    BY DEF Mount, IInv, QueueInv, effectVars
  <1>3. Live' = Live \cup {id}
    BY <1>1
  <1>4. id \in ScopeId /\ id \notin Live /\ ~Known(id)
    BY FreshUnknown DEF IInv, HandlesInv, Known, SlabInv
  <1>5. /\ \A x \in Live: slots'[x] = slots[x]
        /\ slots'[id] = NewSlots
        /\ DOMAIN slots' = Live'
    BY <1>1, <1>3, <1>4 DEF Extend, IInv, HandlesInv, SlotsInv
  <1>6. /\ generations' \in Seq(Nat)
        /\ id.index \in DOMAIN generations' /\ generations'[id.index] = id.generation
        /\ \A n \in DOMAIN generations: n \in DOMAIN generations' /\ generations'[n] = generations[n]
    BY <1>1, FreshUnknown DEF IInv, HandlesInv, SlabInv
  <1>7. SlabInv'
    BY <1>3, <1>4, <1>6 DEF IInv, HandlesInv, SlabInv
  <1>8. SlotsInv'
    BY <1>2, <1>3, <1>4, <1>5 DEF IInv, HandlesInv, SlotsInv, NewSlots, Kinds
  <1>9. Pending' = Pending
    BY <1>2 DEF Pending
  <1>10. RunsInv'
    BY <1>2, <1>3, <1>4, <1>5, <1>6, <1>9 DEF IInv, HandlesInv, RunsInv, Known
  <1>11. PendingInv'
    BY <1>2, <1>9 DEF IInv, HandlesInv, PendingInv, SameRun
  <1>12. AskedInv'
    <2> SUFFICES ASSUME NEW a \in asked, Current(a)'
                 PROVE  a \in slots'[a.scope]["effect"].cleanup
      BY <1>2 DEF AskedInv
    <2>1. a.scope \in Live' /\ a.scope # id
      BY <1>4, <1>5 DEF Current, IInv, HandlesInv, RunsInv
    <2>2. a.scope \in Live /\ slots'[a.scope] = slots[a.scope]
      BY <2>1, <1>3, <1>5
    <2>3. Current(a)
      BY <2>2 DEF Current, IInv, HandlesInv, SlotsInv
    <2> QED BY <2>2, <2>3 DEF IInv, HandlesInv, AskedInv
  <1>13. QueueInv'
    BY <1>2 DEF IInv, QueueInv
  <1> QED BY <1>7, <1>8, <1>10, <1>11, <1>12, <1>13 DEF IInv, HandlesInv

\* Removed scopes leave no handle that could be taken for a live one.
LEMMA FinishIInv == ASSUME IInv, Finish PROVE IInv'
  <1> DEFINE gone == Detached(Last(stack))
  <1>1. /\ gone \subseteq Live
        /\ Live' = Live \ gone
        /\ slots' = [id \in Live \ gone |-> slots[id]]
        /\ generations' = Freed(gone)
    BY DEF Finish, Detached, Below, Restrict, Live
  <1>2. /\ at = "frame" /\ at' = at /\ UNCHANGED <<queue, asked>>
        /\ queued' = [k \in Kinds |-> {run \in queued[k]: run.scope \notin gone}]
        /\ running' = running \ UNION {slots[id][k].cleanup: id \in gone, k \in Kinds}
    BY DEF Finish, IInv, QueueInv
  <1>3. /\ generations' \in Seq(Nat)
        /\ DOMAIN generations' = DOMAIN generations
        /\ \A n \in DOMAIN generations: generations'[n] =
              IF \E id \in gone: id.index = n THEN generations[n] + 1 ELSE generations[n]
    <2> HIDE DEF gone
    <2>1. generations \in Seq(Nat)
      BY DEF IInv, HandlesInv, SlabInv
    <2>2. DOMAIN generations = 1..Len(generations) /\ Len(generations) \in Nat
      BY <2>1
    <2>3. /\ DOMAIN generations' = DOMAIN generations
          /\ \A n \in DOMAIN generations: generations'[n] =
                generations[n] + IF \E id \in gone: id.index = n THEN 1 ELSE 0
      BY <1>1 DEF Freed
    <2>4. \A n \in DOMAIN generations: generations[n] \in Nat
      BY <2>1
    <2>5. \A n \in DOMAIN generations: /\ generations'[n] \in Nat
            /\ generations'[n] =
                  IF \E id \in gone: id.index = n THEN generations[n] + 1 ELSE generations[n]
      BY <2>3, <2>4
    <2>6. generations' = [n \in 1..Len(generations) |-> generations'[n]]
      BY <1>1, <2>2 DEF Freed
    <2>7. generations' \in [1..Len(generations) -> Nat]
      BY <2>2, <2>5, <2>6
    <2> QED BY <2>2, <2>3, <2>5, <2>7
  <1>4. \A x \in Live, y \in Live: x.index = y.index => x = y
    BY DEF IInv, HandlesInv, SlabInv, ScopeId
  <1>5. SlabInv'
    <2>1. ASSUME NEW id \in Live \ gone
          PROVE  generations'[id.index] = id.generation
      <3>1. ~\E x \in gone: x.index = id.index
        BY <1>1, <1>4
      <3> QED BY <3>1, <1>3 DEF IInv, HandlesInv, SlabInv
    <2> QED BY <2>1, <1>1, <1>3 DEF IInv, HandlesInv, SlabInv
  <1>6. ASSUME NEW id \in Live \ gone, NEW k \in Kinds, NEW run \in slots[id][k].cleanup
        PROVE  run \in running'
    <2>1. run.scope = id /\ run \in running
      BY DEF IInv, HandlesInv, SlotsInv
    <2>2. \A x \in gone, j \in Kinds: run \notin slots[x][j].cleanup
      BY <2>1, <1>1 DEF IInv, HandlesInv, SlotsInv
    <2> QED BY <2>1, <2>2, <1>2
  <1>7. SlotsInv'
    BY <1>1, <1>6 DEF IInv, HandlesInv, SlotsInv
  <1>8. Pending' \subseteq Pending
    BY <1>2 DEF Pending, Kinds
  <1>9. \A id: Known(id) => Known(id)'
    <2> SUFFICES ASSUME NEW id, Known(id)
                 PROVE  id \in Live' \/ id.generation < generations'[id.index]
      BY <1>3 DEF Known
    <2>1. id.generation \in Nat /\ id.index \in DOMAIN generations /\ generations[id.index] \in Nat
      BY DEF Known, IInv, HandlesInv, SlabInv, ScopeId
    <2>2. CASE id \in gone
      <3>1. id \in Live /\ id.generation = generations[id.index]
        BY <2>2, <1>1 DEF IInv, HandlesInv, SlabInv
      <3>2. generations'[id.index] = generations[id.index] + 1
        BY <2>1, <2>2, <1>3
      <3> QED BY <2>1, <3>1, <3>2
    <2>3. CASE id \in Live \ gone
      BY <2>3, <1>1
    <2>4. CASE id \notin Live
      BY <2>1, <2>4, <1>3 DEF Known
    <2> QED BY <2>2, <2>3, <2>4
  <1>10. RunsInv'
    BY <1>1, <1>2, <1>8, <1>9 DEF IInv, HandlesInv, RunsInv
  <1>11. PendingInv'
    BY <1>2, <1>8 DEF IInv, HandlesInv, PendingInv, SameRun
  <1>12. AskedInv'
    BY <1>1, <1>2 DEF IInv, HandlesInv, AskedInv, Current, SlotsInv
  <1>13. QueueInv'
    BY <1>2 DEF IInv, QueueInv, Kinds, Finish
  <1> QED BY <1>5, <1>7, <1>10, <1>11, <1>12, <1>13 DEF IInv, HandlesInv
\* A render: the slots whose dependencies have changed go on to their next run,
\* which is queued.
LEMMA RenderIInv == ASSUME IInv, Render PROVE IInv'
  <1> DEFINE me == entering
             Gen(k) == slots[me][k].generation
  <1>1. /\ slots' = [slots EXCEPT ![me] = NextSlots(me)]
        /\ queued' = [k \in Kinds |-> queued[k] \cup {run \in NextRuns(me): run.slot = k}]
        /\ at = "frame" /\ UNCHANGED <<generations, queue, asked, running, at>>
    BY DEF Render
  <1>2. me \in Live /\ Live' = Live
    BY DEF Render, Dirty, Flagged, Live
  <1>3. /\ DOMAIN slots' = Live
        /\ slots'[me] = NextSlots(me)
        /\ \A id \in Live: id # me => slots'[id] = slots[id]
    BY <1>1, <1>2 DEF IInv, HandlesInv, SlotsInv
  <1>4. \A k \in Kinds:
          /\ Gen(k) \in Nat
          /\ DOMAIN slots'[me][k] = {"deps", "generation", "cleanup"}
          /\ slots'[me][k].cleanup = slots[me][k].cleanup
          /\ slots'[me][k].generation = IF k \in Changed(me) THEN Gen(k) + 1 ELSE Gen(k)
    BY <1>2, <1>3 DEF NextSlots, IInv, HandlesInv, SlotsInv
  <1>5. Pending' = Pending \cup {run \in NextRuns(me): run.slot = "effect"}
    BY <1>1 DEF Pending, IInv, QueueInv, Kinds
  <1>6. \A run \in NextRuns(me): run.slot = "effect" =>
          /\ run.scope = me
          /\ run.generation = Gen("effect") + 1
          /\ slots'[me]["effect"].generation = Gen("effect") + 1
          /\ \A r \in NextRuns(me): r.slot = "effect" => r = run
    BY <1>4 DEF NextRuns, Changed, Dependencies, Kinds
  <1>7. SlabInv'
    BY <1>1, <1>2 DEF IInv, HandlesInv, SlabInv
  <1>8. SlotsInv'
    <2>1. ASSUME NEW id \in Live, NEW k \in Kinds
          PROVE  /\ DOMAIN slots'[id] = Kinds
                 /\ DOMAIN slots'[id][k] = {"deps", "generation", "cleanup"}
                 /\ slots'[id][k].generation \in Nat
                 /\ slots'[id][k].cleanup = slots[id][k].cleanup
      <3>1. CASE id = me
        BY <3>1, <1>3, <1>4 DEF NextSlots
      <3>2. CASE id # me
        BY <3>2, <1>3 DEF IInv, HandlesInv, SlotsInv
      <3> QED BY <3>1, <3>2
    <2> QED BY <2>1, <1>1, <1>2, <1>3 DEF IInv, HandlesInv, SlotsInv, Kinds
  <1>9. RunsInv'
    <2> SUFFICES ASSUME NEW run \in asked \cup Pending'
                 PROVE  /\ run.slot = "effect"
                        /\ run.generation \in Nat
                        /\ Known(run.scope)'
                        /\ run.scope \in Live' =>
                              run.generation <= slots'[run.scope]["effect"].generation
      BY <1>1 DEF RunsInv
    <2>1. CASE run \in asked \cup Pending
      <3>1. /\ run.slot = "effect" /\ run.generation \in Nat /\ Known(run.scope)
            /\ run.scope \in Live => run.generation <= slots[run.scope]["effect"].generation
        BY <2>1 DEF IInv, HandlesInv, RunsInv
      <3>2. run.scope \in Live => run.generation <= slots'[run.scope]["effect"].generation
        BY <3>1, <1>2, <1>3, <1>4 DEF Kinds
      <3> QED BY <3>1, <3>2, <1>1, <1>2 DEF Known
    <2>2. CASE run \in NextRuns(me) /\ run.slot = "effect"
      <3>1. me \in ScopeId /\ me.index \in DOMAIN generations
        BY <1>2 DEF IInv, HandlesInv, SlabInv
      <3> QED BY <2>2, <3>1, <1>1, <1>2, <1>4, <1>6 DEF Known, Kinds
    <2> QED BY <2>1, <2>2, <1>5
  <1>10. PendingInv'
    <2>1. ASSUME NEW run \in NextRuns(me), run.slot = "effect"
          PROVE  \A r \in asked \cup Pending: ~SameRun(run, r) /\ ~SameRun(r, run)
      BY <2>1, <1>2, <1>4, <1>6 DEF IInv, HandlesInv, RunsInv, SameRun, Kinds
    <2> QED BY <2>1, <1>1, <1>5, <1>6 DEF IInv, HandlesInv, PendingInv
  <1>11. AskedInv'
    <2> SUFFICES ASSUME NEW a \in asked, Current(a)'
                 PROVE  a \in slots'[a.scope]["effect"].cleanup
      BY <1>1 DEF AskedInv
    <2>1. a.slot = "effect" /\ a.scope \in Live
      BY <1>3 DEF IInv, HandlesInv, RunsInv, Current
    <2>2. CASE a.scope = me
      <3>1. a.generation <= Gen("effect") /\ a.generation \in Nat
        BY <2>1, <2>2 DEF IInv, HandlesInv, RunsInv
      <3>2. a.generation = slots'[me]["effect"].generation
        BY <2>1, <2>2 DEF Current
      <3>3. Current(a)
        BY <2>1, <2>2, <3>1, <3>2, <1>4 DEF Current, Kinds, IInv, HandlesInv, SlotsInv
      <3> QED BY <3>3, <2>2, <1>4 DEF IInv, HandlesInv, AskedInv, Kinds
    <2>3. CASE a.scope # me
      <3>1. slots'[a.scope] = slots[a.scope]
        BY <2>1, <2>3, <1>3
      <3>2. Current(a)
        BY <2>1, <3>1 DEF Current, IInv, HandlesInv, SlotsInv
      <3> QED BY <3>1, <3>2 DEF IInv, HandlesInv, AskedInv
    <2> QED BY <2>2, <2>3
  <1>12. QueueInv'
    BY <1>1 DEF IInv, QueueInv, NextRuns, Kinds
  <1> QED BY <1>7, <1>8, <1>9, <1>10, <1>11, <1>12 DEF IInv, HandlesInv

------------------------------------------------------------------------------

\* No handle is out at first but the root's.
LEMMA InitIInv == ASSUME Init PROVE IInv
  <1>1. Live = {root} /\ root \in ScopeId /\ DOMAIN slots = {root}
    BY DEF Init, Live, root, ScopeId
  <1>2. SlabInv
    BY <1>1 DEF Init, SlabInv, root
  <1>3. SlotsInv
    BY <1>1 DEF Init, SlotsInv, NewSlots, Kinds
  <1>4. RunsInv /\ PendingInv /\ AskedInv /\ QueueInv
    BY DEF Init, RunsInv, PendingInv, AskedInv, QueueInv, Pending, Kinds
  <1> QED BY <1>2, <1>3, <1>4 DEF IInv, HandlesInv

\* Every step keeps the handles sound.
LEMMA NextIInv == ASSUME IInv, [Next]_vars PROVE IInv'
  <1>1. CASE UNCHANGED vars
    <2>1. Live' = Live /\ Pending' = Pending
      BY <1>1 DEF vars, treeVars, effectVars, Live, Pending
    <2>2. HandlesInv'
      BY <2>1, <1>1, QuietStep DEF IInv, vars, treeVars, effectVars
    <2>3. QueueInv'
      BY <1>1 DEF IInv, QueueInv, vars, effectVars, loopVars
    <2> QED BY <2>2, <2>3 DEF IInv
  <1>2. CASE AnotherRound
    BY <1>2, StartRoundIInv DEF AnotherRound
  <1>3. CASE DrawAgain
    BY <1>3, StartRoundIInv DEF DrawAgain
  <1>4. CASE DrawNext
    <2>1. queue = {}
      BY <1>4 DEF DrawNext, IInv, QueueInv, Kinds
    <2> QED BY <1>4, <2>1, StartRoundIInv DEF DrawNext
  <1>5. CASE Wait
    <2>1. Live' = Live /\ Pending' = Pending
      BY <1>5 DEF Wait, treeVars, effectVars, Live, Pending
    <2>2. HandlesInv'
      BY <2>1, <1>5, QuietStep DEF IInv, Wait, treeVars, effectVars
    <2>3. QueueInv'
      BY <1>5 DEF IInv, QueueInv, Wait, effectVars
    <2> QED BY <2>2, <2>3 DEF IInv
  <1>6. CASE Resize
    <2>1. Live' = Live
      BY <1>6, MarkKeepsLive DEF Resize
    <2> QED BY <1>6, <2>1, RespondingIInv DEF Resize
  <1>7. ASSUME NEW id \in Live, NEW v \in Values, Listen(id, v)
        PROVE  IInv'
    <2>1. Live' = Live
      BY <1>7, WriteKeepsLive DEF Listen
    <2> QED BY <1>7, <2>1, RespondingIInv DEF Listen
  <1>8. ASSUME NEW run \in asked, Answer(run)
        PROVE  IInv'
    <2>1. Live' = Live
      BY <1>8, WriteKeepsLive DEF Answer
    <2> QED BY <1>8, <2>1, RespondingIInv DEF Answer
  <1>9. ASSUME NEW run \in asked, Refuse(run)
        PROVE  IInv'
    <2>1. Live' = Live
      BY <1>9 DEF Refuse, Live
    <2> QED BY <1>9, <2>1, RespondingIInv DEF Refuse
  <1> QED
    BY <1>1, <1>2, <1>3, <1>4, <1>5, <1>6, <1>7, <1>8, <1>9, ReuseIInv, RenderIInv, KeepIInv,
       MountIInv, FinishIInv, LayOutIInv, PaintAllIInv, SkipEffectIInv, RunEffectIInv,
       RunLayoutEffectIInv
    DEF Next

\* The handles of scopes and of effect runs are never mixed up.
THEOREM Inductive == Spec => []IInv
  <1> QED BY InitIInv, NextIInv, PTL DEF Spec

\* AnswersFit: whatever is written, removed or mounted while a worker is at it,
\* its answer is taken only by the effect that asked and that has neither been
\* cleaned up nor run again.
THEOREM AnswersReachTheirEffect == Spec => AnswersFit
  <1>1. ASSUME IInv, NEW run \in asked, Answer(run)
        PROVE  run \in running
    <2>1. run \in slots[run.scope]["effect"].cleanup /\ run.scope \in Live
      BY <1>1 DEF Answer, Current, IInv, HandlesInv, AskedInv, SlotsInv
    <2> QED BY <1>1, <2>1 DEF IInv, HandlesInv, SlotsInv, Kinds
  <1>2. IInv => [\A run \in asked: Answer(run) => run \in running]_vars
    BY <1>1
  <1> QED BY <1>2, Inductive, PTL DEF AnswersFit
------------------------------------------------------------------------------
(* Which effects run.                                                      *)
(*                                                                         *)
(* EffectsMatch speaks of a loop at rest, after any number of rounds.  In  *)
(* between, the run that a slot last queued either waits still or is the   *)
(* one whose cleanup the slot holds (DueInv), and nothing else is running  *)
(* (RunningInv).  Only a component that is about to run for the first time *)
(* has queued none (FirstInv).                                             *)

Fields ==
    {"type", "key", "props", "parent", "above", "children", "dirty", "rendered", "produced"}

\* The last run of the effect of a component.
LastRun(id) ==
    [scope |-> id, slot |-> "effect", deps |-> slots[id]["effect"].deps,
     generation |-> slots[id]["effect"].generation]

\* The components whose effect has not been queued are dirty, and next.
FirstInv ==
    /\ \A id \in Live: DOMAIN scopes[id] = Fields
    /\ at # "frame" => entering = None
    /\ \A id \in Live:
          scopes[id].type \in Asking /\ slots[id]["effect"].generation = 0 =>
              scopes[id].dirty /\ (id = entering \/ (id = root /\ rounds = 0))

\* The last run has the dependencies of the last render, and waits or runs.
DueInv ==
    /\ \A id \in Live:
          IF slots[id]["effect"].generation = 0 THEN slots[id]["effect"].cleanup = {}
          ELSE /\ scopes[id].type \in Asking
               /\ slots[id]["effect"].deps = [props |-> scopes[id].produced.props,
                                              seen |-> scopes[id].produced.seen]
               /\ LastRun(id) \in Pending \/ slots[id]["effect"].cleanup = {LastRun(id)}
    /\ \A run \in Pending: Current(run) => run.generation > 0 /\ run = LastRun(run.scope)
    /\ at \in {"effect", "wait", "handling"} => queued["effect"] = {}

\* What runs are the runs that some slot would clean up.
RunningInv ==
    /\ \A id \in Live: slots[id]["layout"].cleanup = {}
    /\ \A run \in running: run.scope \in Live /\ run \in slots[run.scope]["effect"].cleanup

\* The slots and the runs are those of what was rendered.
EffectsInv == FirstInv /\ DueInv /\ RunningInv

\* A step after which the scopes are those there were, rendered as they were.
SameRenders ==
    /\ Live' = Live
    /\ \A id \in Live:
          /\ DOMAIN scopes'[id] = Fields
          /\ scopes'[id].type = scopes[id].type
          /\ scopes'[id].produced = scopes[id].produced
          /\ scopes[id].dirty => scopes'[id].dirty

\* Marking changes nothing but the marks.
LEMMA FlaggedRenders ==
    ASSUME NEW mounted, NEW ids, NEW id \in DOMAIN mounted, DOMAIN mounted[id] = Fields
    PROVE  /\ DOMAIN Flagged(mounted, ids)[id] = Fields
           /\ \A field \in Fields \ {"dirty"}:
                 Flagged(mounted, ids)[id][field] = mounted[id][field]
           /\ Flagged(mounted, ids)[id].dirty = (mounted[id].dirty \/ id \in ids)
  <1>1. Flagged(mounted, ids)[id] = [mounted[id] EXCEPT !.dirty = @ \/ id \in ids]
    BY DEF Flagged
  <1> QED BY <1>1 DEF Fields

\* Marking changes nothing of what was rendered.
LEMMA MarkRenders == ASSUME FirstInv, NEW ids, Mark(ids) PROVE SameRenders
  <1> DEFINE to == UNION {MarkPath(Dirty, id): id \in ids}
  <1>1. scopes' = Flagged(scopes, to) /\ Live' = Live
    BY MarkKeepsLive DEF Mark
  <1> HIDE DEF to
  <1> SUFFICES ASSUME NEW id \in Live
               PROVE  /\ DOMAIN scopes'[id] = Fields
                      /\ scopes'[id].type = scopes[id].type
                      /\ scopes'[id].produced = scopes[id].produced
                      /\ scopes[id].dirty => scopes'[id].dirty
    BY <1>1 DEF SameRenders
  <1>2. id \in DOMAIN scopes /\ DOMAIN scopes[id] = Fields
    BY DEF FirstInv, Live
  <1>3. /\ DOMAIN Flagged(scopes, to)[id] = Fields
        /\ \A field \in Fields \ {"dirty"}: Flagged(scopes, to)[id][field] = scopes[id][field]
        /\ Flagged(scopes, to)[id].dirty = (scopes[id].dirty \/ id \in to)
    BY <1>2, FlaggedRenders
  <1> QED BY <1>1, <1>3 DEF Fields

\* Where the tree stays, so does what was rendered.
LEMMA StillRenders == ASSUME FirstInv, UNCHANGED scopes PROVE SameRenders
  BY DEF FirstInv, SameRenders, Live

\* A step that renders nothing and starts no effect, and that drops no run but
\* those their slots have gone past.
LEMMA QuietEffects ==
    ASSUME HandlesInv, EffectsInv, SameRenders, UNCHANGED <<slots, running, entering, rounds>>,
           Pending' \subseteq Pending,
           \A run \in Pending: Current(run) => run \in Pending',
           at' # "frame" => entering' = None,
           at' \in {"effect", "wait", "handling"} => queued'["effect"] = {}
    PROVE  EffectsInv'
  <1>1. DOMAIN slots = Live /\ Live' = Live
    BY DEF HandlesInv, SlotsInv, SameRenders
  <1>2. FirstInv'
    BY <1>1 DEF EffectsInv, FirstInv, SameRenders
  <1>3. \A id: LastRun(id)' = LastRun(id)
    BY DEF LastRun
  <1>4. \A id \in Live: Current(LastRun(id))
    BY <1>1 DEF LastRun, Current
  <1>5. \A run: Current(run)' = Current(run)
    BY DEF Current
  <1>6. DueInv'
    BY <1>1, <1>3, <1>4, <1>5 DEF EffectsInv, DueInv, SameRenders
  <1>7. RunningInv'
    BY <1>1 DEF EffectsInv, RunningInv
  <1> QED BY <1>2, <1>6, <1>7 DEF EffectsInv

\* A round starts with the root, before any other component was made.
LEMMA StartRoundEffects ==
    ASSUME IInv, EffectsInv, at # "frame", NEW round, NEW drawing, StartRound(round, drawing),
           queue = {}
    PROVE  EffectsInv'
  <1>1. Live' = Live /\ Pending' = Pending /\ UNCHANGED <<scopes, slots, running, queued>>
    BY DEF StartRound, effectVars, Live, Pending
  <1>2. entering' = root /\ at' = "frame"
    BY DEF StartRound
  <1>3. entering = None /\ None \notin Live
    BY LoomAssumption DEF EffectsInv, FirstInv, IInv, HandlesInv, SlabInv
  <1>4. FirstInv'
    BY <1>1, <1>2, <1>3 DEF EffectsInv, FirstInv
  <1>5. DueInv' /\ RunningInv'
    BY <1>1, <1>2 DEF EffectsInv, DueInv, RunningInv, LastRun, Current
  <1> QED BY <1>4, <1>5 DEF EffectsInv

\* A clean scope has run before, so its effects are those of its last render.
LEMMA ReuseEffects == ASSUME IInv, EffectsInv, Reuse PROVE EffectsInv'
  <1>1. /\ Pending' = Pending /\ Live' = Live
        /\ UNCHANGED <<scopes, slots, running, queued, at>> /\ entering \notin Dirty
        /\ at = "frame" /\ entering' = None /\ UNCHANGED rounds
    BY DEF Reuse, treeVars, effectVars, Live, Pending
  <1>2. FirstInv'
    BY <1>1 DEF EffectsInv, FirstInv, Dirty
  <1>3. DueInv' /\ RunningInv'
    BY <1>1 DEF EffectsInv, DueInv, RunningInv, LastRun, Current
  <1> QED BY <1>2, <1>3 DEF EffectsInv

\* What the last cursor of a nonempty stack does to the child it goes on with.
LEMMA KeepEffects == ASSUME IInv, EffectsInv, Keep PROVE EffectsInv'
  <1>1. PICK part, old, again:
          /\ scopes' = [scopes EXCEPT ![old].props = part.props, ![old].dirty = @ \/ again]
          /\ again \in BOOLEAN
          /\ Live' = Live /\ Pending' = Pending
          /\ UNCHANGED <<slots, queued, running, at, rounds>>
          /\ at = "frame" /\ entering = None
    <2>1. PICK old:
            scopes' = [scopes EXCEPT
                ![old].props = Head(Last(stack).parts).props,
                ![old].dirty = @ \/ Head(Last(stack).parts).type \notin Memo
                                \/ scopes[old].props # Head(Last(stack).parts).props]
      BY DEF Keep
    <2>2. /\ Live' = Live /\ Pending' = Pending
          /\ UNCHANGED <<slots, queued, running, at, rounds>>
          /\ at = "frame" /\ entering = None
      BY DEF Keep, Live, effectVars, Pending
    <2> QED BY <2>1, <2>2
  <1>2. ASSUME NEW id \in Live
        PROVE  /\ DOMAIN scopes'[id] = Fields
               /\ scopes'[id].type = scopes[id].type
               /\ scopes'[id].produced = scopes[id].produced
               /\ scopes[id].dirty => scopes'[id].dirty
    <2>1. DOMAIN scopes[id] = Fields /\ id \in DOMAIN scopes
      BY DEF EffectsInv, FirstInv, Live
    <2>2. CASE id = old
      <3>1. scopes'[id] = [[scopes[id] EXCEPT !.props = part.props] EXCEPT !.dirty = @ \/ again]
        BY <1>1, <2>1, <2>2
      <3> QED BY <2>1, <2>2, <3>1 DEF Fields
    <2>3. CASE id # old
      <3>1. scopes'[id] = scopes[id]
        BY <1>1, <2>1, <2>3
      <3> QED BY <2>1, <3>1
    <2> QED BY <2>2, <2>3
  <1>3. None \notin Live
    BY LoomAssumption DEF IInv, HandlesInv, SlabInv
  <1>4. FirstInv'
    BY <1>1, <1>2, <1>3 DEF EffectsInv, FirstInv
  <1>5. DueInv' /\ RunningInv'
    BY <1>1, <1>2 DEF EffectsInv, DueInv, RunningInv, LastRun, Current
  <1> QED BY <1>4, <1>5 DEF EffectsInv

\* A component that starts fresh is the next to run.
LEMMA MountEffects == ASSUME IInv, EffectsInv, Mount PROVE EffectsInv'
  <1> DEFINE cursor == Last(stack)
  <1>1. PICK id \in FreshIds:
          /\ scopes' = Extend([scopes EXCEPT ![cursor.scope].children = Append(@, id)],
                             id, NewMounted(Head(cursor.parts), cursor.scope,
                                            {cursor.scope} \cup Above(cursor.scope)))
          /\ slots' = Extend(slots, id, NewSlots)
          /\ entering' = id
    BY DEF Mount, Claim
  <1> HIDE DEF cursor
  <1>2. /\ at = "frame" /\ at' = at /\ entering = None /\ Pending' = Pending
        /\ UNCHANGED <<queued, running, rounds>>
    BY DEF Mount, effectVars, Pending
  <1>3. id \notin Live /\ ~Known(id)
    BY FreshUnknown DEF IInv, HandlesInv, Known, SlabInv
  <1>4. /\ Live' = Live \cup {id} /\ DOMAIN slots = Live /\ DOMAIN slots' = Live'
        /\ scopes'[id] = NewMounted(Head(cursor.parts), cursor.scope,
                                    {cursor.scope} \cup Above(cursor.scope))
        /\ slots'[id] = NewSlots /\ \A x \in Live: slots'[x] = slots[x]
    BY <1>1, <1>3 DEF Extend, Live, IInv, HandlesInv, SlotsInv
  <1>5. ASSUME NEW x \in Live
        PROVE  /\ DOMAIN scopes'[x] = Fields
               /\ scopes'[x].type = scopes[x].type
               /\ scopes'[x].produced = scopes[x].produced
               /\ scopes'[x].dirty = scopes[x].dirty
    <2>1. DOMAIN scopes[x] = Fields /\ x \in DOMAIN scopes
      BY DEF EffectsInv, FirstInv, Live
    <2>2. scopes'[x] = [scopes EXCEPT ![cursor.scope].children = Append(@, id)][x]
      BY <2>1, <1>1, <1>3 DEF Extend
    <2> QED BY <2>1, <2>2 DEF Fields
  <1>6. None \notin Live
    BY LoomAssumption DEF IInv, HandlesInv, SlabInv
  <1>7. FirstInv'
    <2>1. DOMAIN scopes'[id] = Fields /\ scopes'[id].dirty
      BY <1>4 DEF NewMounted, Fields
    <2>2. ASSUME NEW x \in Live, scopes'[x].type \in Asking, slots'[x]["effect"].generation = 0
          PROVE  scopes'[x].dirty /\ x = root /\ rounds = 0
      BY <2>2, <1>2, <1>4, <1>5, <1>6 DEF EffectsInv, FirstInv
    <2> QED BY <2>1, <2>2, <1>1, <1>2, <1>4, <1>5 DEF FirstInv
  <1>8. /\ slots'[id]["effect"].generation = 0
        /\ \A k \in Kinds: slots'[id][k].cleanup = {}
    BY <1>4 DEF NewSlots, Kinds
  <1>9. /\ \A x \in Live: LastRun(x)' = LastRun(x)
        /\ \A run \in Pending: run.scope # id
    BY <1>3, <1>4 DEF LastRun, IInv, HandlesInv, RunsInv
  <1>10. \A run \in Pending: Current(run)' => Current(run)
    BY <1>4, <1>9 DEF Current, IInv, HandlesInv, RunsInv, SlotsInv
  <1>11. DueInv'
    <2>1. ASSUME NEW x \in Live'
          PROVE  IF slots'[x]["effect"].generation = 0 THEN slots'[x]["effect"].cleanup = {}
                 ELSE /\ scopes'[x].type \in Asking
                      /\ slots'[x]["effect"].deps = [props |-> scopes'[x].produced.props,
                                                     seen |-> scopes'[x].produced.seen]
                      /\ LastRun(x)' \in Pending' \/ slots'[x]["effect"].cleanup = {LastRun(x)'}
      <3>1. CASE x = id
        BY <3>1, <1>8 DEF Kinds
      <3>2. CASE x \in Live
        BY <3>2, <1>2, <1>4, <1>5, <1>9 DEF EffectsInv, DueInv
      <3> QED BY <3>1, <3>2, <1>4
    <2>2. \A run \in Pending': Current(run)' => run.generation > 0 /\ run = LastRun(run.scope)'
      <3> SUFFICES ASSUME NEW run \in Pending, Current(run)'
                   PROVE  run.generation > 0 /\ run = LastRun(run.scope)'
        BY <1>2
      <3>1. Current(run) /\ run.scope \in Live
        BY <1>4, <1>10 DEF Current
      <3> QED BY <3>1, <1>9 DEF EffectsInv, DueInv
    <2> QED BY <2>1, <2>2, <1>2 DEF EffectsInv, DueInv
  <1>12. RunningInv'
    BY <1>2, <1>4, <1>8 DEF EffectsInv, RunningInv, Kinds
  <1> QED BY <1>7, <1>11, <1>12 DEF EffectsInv

\* The components that are removed take their runs with them, and stop theirs.
LEMMA FinishEffects == ASSUME IInv, EffectsInv, Finish PROVE EffectsInv'
  <1> DEFINE gone == Detached(Last(stack))
  <1>1. /\ gone \subseteq Live
        /\ Live' = Live \ gone /\ DOMAIN slots = Live
        /\ slots' = [id \in Live \ gone |-> slots[id]]
        /\ scopes' = Restrict([scopes EXCEPT ![Last(stack).scope].children = Last(stack).next],
                             Live \ gone)
    <2>1. gone \subseteq Live
      BY DEF Detached, Below
    <2>2. DOMAIN slots = Live
      BY DEF IInv, HandlesInv, SlotsInv
    <2>3. /\ slots' = Restrict(slots, Live \ gone)
          /\ scopes' = Restrict([scopes EXCEPT ![Last(stack).scope].children = Last(stack).next],
                               Live \ gone)
      BY DEF Finish
    <2> HIDE DEF gone
    <2>4. Live' = Live \ gone
      BY <2>3 DEF Restrict, Live
    <2>5. slots' = [id \in Live \ gone |-> slots[id]]
      BY <2>3 DEF Restrict
    <2> QED BY <2>1, <2>2, <2>3, <2>4, <2>5
  <1>2. /\ at = "frame" /\ at' = at /\ entering = None /\ UNCHANGED <<queue, entering, rounds>>
        /\ queued' = [k \in Kinds |-> {run \in queued[k]: run.scope \notin gone}]
        /\ running' = running \ UNION {slots[id][k].cleanup: id \in gone, k \in Kinds}
    BY DEF Finish
  <1> HIDE DEF gone
  <1>3. ASSUME NEW x \in Live'
        PROVE  /\ x \in Live /\ slots'[x] = slots[x]
               /\ DOMAIN scopes'[x] = Fields
               /\ scopes'[x].type = scopes[x].type
               /\ scopes'[x].produced = scopes[x].produced
               /\ scopes'[x].dirty = scopes[x].dirty
    <2>1. DOMAIN scopes[x] = Fields /\ x \in DOMAIN scopes /\ x \in Live \ gone
      BY <1>1 DEF EffectsInv, FirstInv, Live
    <2>2. scopes'[x] = [scopes EXCEPT ![Last(stack).scope].children = Last(stack).next][x]
      BY <2>1, <1>1 DEF Restrict
    <2>3. /\ DOMAIN scopes'[x] = Fields
          /\ scopes'[x].type = scopes[x].type
          /\ scopes'[x].produced = scopes[x].produced
          /\ scopes'[x].dirty = scopes[x].dirty
      BY <2>1, <2>2 DEF Fields
    <2> QED BY <2>1, <2>3, <1>1
  <1>4. FirstInv'
    BY <1>1, <1>2, <1>3 DEF EffectsInv, FirstInv
  <1>5. /\ Pending' \subseteq Pending
        /\ \A run \in Pending: run.scope \in Live' => run \in Pending'
    <2>1. queue = {}
      BY <1>2 DEF IInv, QueueInv, Kinds
    <2> QED BY <2>1, <1>1, <1>2 DEF Pending, Kinds
  <1>6. \A x \in Live': LastRun(x)' = LastRun(x) /\ LastRun(x).scope = x
    BY <1>3 DEF LastRun
  <1>7. \A run: Current(run)' => Current(run) /\ run.scope \in Live'
    BY <1>1, <1>3 DEF Current
  <1>8. DueInv'
    <2>1. ASSUME NEW x \in Live'
          PROVE  IF slots'[x]["effect"].generation = 0 THEN slots'[x]["effect"].cleanup = {}
                 ELSE /\ scopes'[x].type \in Asking
                      /\ slots'[x]["effect"].deps = [props |-> scopes'[x].produced.props,
                                                     seen |-> scopes'[x].produced.seen]
                      /\ LastRun(x)' \in Pending' \/ slots'[x]["effect"].cleanup = {LastRun(x)'}
      BY <1>3, <1>5, <1>6 DEF EffectsInv, DueInv
    <2>2. \A run \in Pending': Current(run)' => run.generation > 0 /\ run = LastRun(run.scope)'
      BY <1>5, <1>6, <1>7 DEF EffectsInv, DueInv
    <2> QED BY <2>1, <2>2, <1>2 DEF DueInv
  <1>9. RunningInv'
    <2>1. ASSUME NEW run \in running'
          PROVE  run.scope \in Live' /\ run \in slots'[run.scope]["effect"].cleanup
      <3>1. run \in running /\ run.scope \in Live /\ run \in slots[run.scope]["effect"].cleanup
        BY <1>2 DEF EffectsInv, RunningInv
      <3>2. run.scope \notin gone
        BY <3>1, <1>2 DEF Kinds
      <3> QED BY <3>1, <3>2, <1>1
    <2> QED BY <2>1, <1>3 DEF EffectsInv, RunningInv
  <1> QED BY <1>4, <1>8, <1>9 DEF EffectsInv

\* The effect of a component that is about to run for other props or another
\* context than before, or for the first time.
Reasks(id) ==
    /\ scopes[id].type \in Asking
    /\ \/ slots[id]["effect"].generation = 0
       \/ slots[id]["effect"].deps # [props |-> scopes[id].props, seen |-> Seen(id)]

\* A render moves such an effect on to its next run, and leaves any other.
LEMMA RenderRuns ==
    ASSUME IInv, EffectsInv, Render, NEW me, me = entering
    PROVE  /\ me \in Live /\ DOMAIN slots' = Live
           /\ \A x \in Live: x # me => slots'[x] = slots[x] /\ LastRun(x)' = LastRun(x)
           /\ \A k \in Kinds: slots'[me][k].cleanup = slots[me][k].cleanup
           /\ slots'[me]["effect"].generation
                = slots[me]["effect"].generation + IF Reasks(me) THEN 1 ELSE 0
           /\ slots'[me]["effect"].deps
                = IF Reasks(me) THEN [props |-> scopes[me].props, seen |-> Seen(me)]
                  ELSE slots[me]["effect"].deps
           /\ Pending' = Pending \cup (IF Reasks(me) THEN {LastRun(me)'} ELSE {})
           /\ ~Reasks(me) => LastRun(me)' = LastRun(me)
  <1> DEFINE slot == slots[me]["effect"]
             asks == scopes[me].type \in Asking
             deps == [props |-> scopes[me].props, seen |-> Seen(me)]
             changed == asks /\ (slot.generation = 0 \/ slot.deps # deps)
  <1>2. /\ slots' = [slots EXCEPT ![me] = NextSlots(me)]
        /\ queued' = [k \in Kinds |-> queued[k] \cup {run \in NextRuns(me): run.slot = k}]
        /\ UNCHANGED queue
    BY DEF Render
  <1>3. me \in Live /\ DOMAIN slots = Live /\ DOMAIN slots[me] = Kinds
    BY DEF Render, Dirty, IInv, HandlesInv, SlotsInv
  <1>6. /\ DOMAIN slots' = Live /\ \A x \in Live: x # me => slots'[x] = slots[x]
        /\ \A k \in Kinds: slots'[me][k].cleanup = slots[me][k].cleanup
        /\ slots'[me]["effect"].generation = slot.generation + IF changed THEN 1 ELSE 0
        /\ slots'[me]["effect"].deps = IF changed THEN deps ELSE slot.deps
    <2>1. "effect" \in Changed(me) <=> changed
      BY DEF Changed, Dependencies, Kinds
    <2>2. changed => Dependencies(me)["effect"] = deps
      BY DEF Dependencies, Kinds
    <2>3. slot.generation \in Nat
      BY <1>3 DEF IInv, HandlesInv, SlotsInv, Kinds
    <2>4. slots'[me] = NextSlots(me)
      BY <1>2, <1>3
    <2>5. \A k \in Kinds: slots'[me][k].cleanup = slots[me][k].cleanup
      BY <2>4 DEF NextSlots
    <2>6. /\ slots'[me]["effect"].generation = slot.generation + IF changed THEN 1 ELSE 0
          /\ slots'[me]["effect"].deps = IF changed THEN deps ELSE slot.deps
      BY <2>1, <2>2, <2>3, <2>4 DEF NextSlots, Kinds
    <2>7. DOMAIN slots' = Live /\ \A x \in Live: x # me => slots'[x] = slots[x]
      BY <1>2, <1>3
    <2> QED BY <2>5, <2>6, <2>7
  <1>7. Pending' = Pending \cup (IF changed THEN {LastRun(me)'} ELSE {})
    <2>1. queued'["effect"] = queued["effect"] \cup {run \in NextRuns(me): run.slot = "effect"}
      BY <1>2 DEF Kinds
    <2>2. {run \in NextRuns(me): run.slot = "effect"} = IF changed THEN {LastRun(me)'} ELSE {}
      <3>1. "effect" \in Changed(me) <=> changed
        BY DEF Changed, Dependencies, Kinds
      <3>2. changed => Dependencies(me)["effect"] = deps
        BY DEF Dependencies, Kinds
      <3>3. changed => LastRun(me)' = [scope |-> me, slot |-> "effect", deps |-> deps,
                                       generation |-> slot.generation + 1]
        BY <1>2, <1>6 DEF LastRun
      <3> QED BY <3>1, <3>2, <3>3 DEF NextRuns
    <2> QED BY <2>1, <2>2, <1>2 DEF Pending
  <1>9. slot.generation \in Nat
    BY <1>3 DEF IInv, HandlesInv, SlotsInv, Kinds
  <1>11. \A x \in Live: x # me => LastRun(x)' = LastRun(x)
    BY <1>6 DEF LastRun
  <1>12. ~changed => LastRun(me)' = LastRun(me)
    BY <1>6, <1>9 DEF LastRun
  <1>13. changed <=> Reasks(me)
    BY DEF Reasks
  <1> HIDE DEF changed
  <1> QED BY <1>3, <1>6, <1>7, <1>11, <1>12, <1>13

\* A render queues a run for what it was rendered with, unless the last one
\* was for that.
LEMMA RenderEffects == ASSUME IInv, EffectsInv, Render PROVE EffectsInv'
  <1>0. PICK me: me = entering
    OBVIOUS
  <1> DEFINE slot == slots[me]["effect"]
             new == [props |-> scopes[me].props, value |-> states[me].value, seen |-> Seen(me)]
             now == [scopes EXCEPT ![me].dirty = FALSE, ![me].rendered = TRUE,
                                   ![me].produced = new]
             asks == scopes[me].type \in Asking
             deps == [props |-> scopes[me].props, seen |-> Seen(me)]
             changed == asks /\ (slot.generation = 0 \/ slot.deps # deps)
  <1>1. PICK to: scopes' = Flagged(now, to)
    BY <1>0 DEF Render
  <1>2. /\ slots' = [slots EXCEPT ![me] = NextSlots(me)]
        /\ queued' = [k \in Kinds |-> queued[k] \cup {run \in NextRuns(me): run.slot = k}]
        /\ at = "frame" /\ entering' = None /\ UNCHANGED <<queue, running, at, rounds>>
    BY <1>0 DEF Render
  <1>3. /\ me \in Live /\ DOMAIN slots = Live /\ DOMAIN slots[me] = Kinds
        /\ DOMAIN scopes[me] = Fields
    BY <1>0 DEF Render, Dirty, IInv, HandlesInv, SlotsInv, EffectsInv, FirstInv
  <1>4. ASSUME NEW x \in Live
        PROVE  /\ DOMAIN scopes'[x] = Fields
               /\ scopes'[x].type = scopes[x].type
               /\ x # me => /\ scopes'[x].produced = scopes[x].produced
                            /\ scopes[x].dirty => scopes'[x].dirty
               /\ x = me => scopes'[x].produced = new
    <2>1. DOMAIN scopes[x] = Fields /\ x \in DOMAIN scopes
      BY DEF EffectsInv, FirstInv, Live
    <2>2. /\ x \in DOMAIN now /\ DOMAIN now[x] = Fields
          /\ x # me => now[x] = scopes[x]
          /\ x = me => now[x].produced = new /\ now[x].type = scopes[x].type
      <3>1. CASE x = me
        <4>1. now[x] = [[[scopes[x] EXCEPT !.dirty = FALSE] EXCEPT !.rendered = TRUE]
                           EXCEPT !.produced = new]
          BY <3>1, <2>1
        <4> QED BY <3>1, <4>1, <2>1 DEF Fields
      <3>2. CASE x # me
        BY <3>2, <2>1
      <3> QED BY <3>1, <3>2
    <2> HIDE DEF now, new
    <2>3. /\ DOMAIN Flagged(now, to)[x] = Fields
          /\ \A field \in Fields \ {"dirty"}: Flagged(now, to)[x][field] = now[x][field]
          /\ Flagged(now, to)[x].dirty = (now[x].dirty \/ x \in to)
      BY <2>2, FlaggedRenders
    <2> QED BY <2>2, <2>3, <1>1 DEF Fields
  <1>5. Live' = Live
    BY <1>1 DEF Flagged, Live
  <1>6. /\ DOMAIN slots' = Live /\ \A x \in Live: x # me => slots'[x] = slots[x]
        /\ \A k \in Kinds: slots'[me][k].cleanup = slots[me][k].cleanup
        /\ slots'[me]["effect"].generation = slot.generation + IF changed THEN 1 ELSE 0
        /\ slots'[me]["effect"].deps = IF changed THEN deps ELSE slot.deps
    BY <1>0, RenderRuns DEF Reasks
  <1>7. Pending' = Pending \cup (IF changed THEN {LastRun(me)'} ELSE {})
    BY <1>0, RenderRuns DEF Reasks
  <1>8. None \notin Live
    BY LoomAssumption DEF IInv, HandlesInv, SlabInv
  <1>9. slot.generation \in Nat
    BY <1>3 DEF IInv, HandlesInv, SlotsInv, Kinds
  <1> HIDE DEF new, now
  <1>10. FirstInv'
    BY <1>0, <1>2, <1>3, <1>4, <1>5, <1>6, <1>8, <1>9 DEF EffectsInv, FirstInv
  <1>11. \A x \in Live: x # me => LastRun(x)' = LastRun(x)
    BY <1>0, RenderRuns
  <1>12. ~changed => LastRun(me)' = LastRun(me)
    BY <1>0, RenderRuns DEF Reasks
  <1>13. DueInv'
    <2>1. ASSUME NEW x \in Live
          PROVE  IF slots'[x]["effect"].generation = 0 THEN slots'[x]["effect"].cleanup = {}
                 ELSE /\ scopes'[x].type \in Asking
                      /\ slots'[x]["effect"].deps = [props |-> scopes'[x].produced.props,
                                                     seen |-> scopes'[x].produced.seen]
                      /\ LastRun(x)' \in Pending' \/ slots'[x]["effect"].cleanup = {LastRun(x)'}
      <3>1. CASE x # me
        BY <3>1, <1>4, <1>6, <1>7, <1>11 DEF EffectsInv, DueInv
      <3>2. CASE x = me /\ changed
        BY <3>2, <1>4, <1>6, <1>7, <1>9 DEF new
      <3>3. CASE x = me /\ ~changed
        <4>1. /\ slots'[me]["effect"].generation = slot.generation
              /\ slots'[me]["effect"].deps = slot.deps
              /\ slots'[me]["effect"].cleanup = slot.cleanup
          BY <3>3, <1>6, <1>9 DEF Kinds
        <4>2. IF slot.generation = 0 THEN slot.cleanup = {}
              ELSE asks /\ (LastRun(me) \in Pending \/ slot.cleanup = {LastRun(me)})
          BY <1>3 DEF EffectsInv, DueInv
        <4>3. slot.generation # 0 => slot.deps = deps
          BY <4>2, <3>3
        <4>4. scopes'[me].produced.props = scopes[me].props /\ scopes'[me].produced.seen = Seen(me)
          BY <1>3, <1>4 DEF new
        <4>5. scopes'[me].type = scopes[me].type
          BY <1>3, <1>4
        <4> QED BY <4>1, <4>2, <4>3, <4>4, <4>5, <3>3, <1>7, <1>12
      <3> QED BY <3>1, <3>2, <3>3
    <2>2. ASSUME NEW run \in Pending', Current(run)'
          PROVE  run.generation > 0 /\ run = LastRun(run.scope)'
      <3>1. CASE changed /\ run = LastRun(me)'
        <4>1. run.scope = me /\ run.generation = slot.generation + 1
          BY <3>1, <1>2, <1>6, <1>9 DEF LastRun
        <4> QED BY <3>1, <4>1, <1>9
      <3>2. CASE run \in Pending /\ run.scope = me
        <4>1. run.slot = "effect" /\ run.generation <= slot.generation /\ run.generation \in Nat
          BY <3>2, <1>3 DEF IInv, HandlesInv, RunsInv
        <4>2. run.generation = slots'[me]["effect"].generation
          BY <2>2, <3>2, <4>1 DEF Current
        <4>3. ~changed /\ run.generation = slot.generation
          BY <4>1, <4>2, <1>6, <1>9
        <4>4. Current(run)
          BY <4>1, <4>3, <3>2, <1>3 DEF Current
        <4> QED BY <4>3, <4>4, <3>2, <1>12 DEF EffectsInv, DueInv
      <3>3. CASE run \in Pending /\ run.scope # me
        <4>1. run.slot = "effect" /\ run.scope \in Live
          BY <3>3, <2>2, <1>6 DEF Current, IInv, HandlesInv, RunsInv
        <4>2. Current(run)
          BY <4>1, <3>3, <2>2, <1>3, <1>6 DEF Current
        <4> QED BY <4>1, <4>2, <3>3, <1>11 DEF EffectsInv, DueInv
      <3> QED BY <3>1, <3>2, <3>3, <1>7
    <2> QED BY <2>1, <2>2, <1>2, <1>5 DEF DueInv
  <1>14. RunningInv'
    BY <1>2, <1>3, <1>5, <1>6 DEF EffectsInv, RunningInv, Kinds
  <1> QED BY <1>10, <1>13, <1>14 DEF EffectsInv

\* An effect that runs is its slot's last, and replaces the one before.
LEMMA RunEffectEffects ==
    ASSUME IInv, EffectsInv, NEW run \in queue, RunEffect(run), IInv'
    PROVE  EffectsInv'
  <1> DEFINE me == run.scope
  <1>1. Live' = Live /\ SameRenders /\ DOMAIN slots = Live
    BY MarkRenders, WriteKeepsLive
    DEF RunEffect, WriteSlot, EffectsInv, IInv, HandlesInv, SlotsInv
  <1>2. /\ run \in Pending /\ Pending' = Pending \ {run}
        /\ run = LastRun(me) /\ run.generation > 0 /\ me \in Live
    BY DEF RunEffect, Took, Pending, IInv, QueueInv, EffectsInv, DueInv, Current,
           HandlesInv, SlotsInv
  <1>3. /\ slots' = [slots EXCEPT ![me]["effect"].cleanup = {run}]
        /\ running' = (running \ slots[me]["effect"].cleanup) \cup {run}
        /\ at = "effect" /\ UNCHANGED <<at, queued, entering, rounds>>
    BY DEF RunEffect, loopVars, Took
  <1>4. /\ DOMAIN slots' = Live
        /\ \A x \in Live: x # me => slots'[x] = slots[x]
        /\ slots'[me]["layout"] = slots[me]["layout"]
        /\ slots'[me]["effect"].generation = slots[me]["effect"].generation
        /\ slots'[me]["effect"].deps = slots[me]["effect"].deps
        /\ slots'[me]["effect"].cleanup = {run}
    <2>1. /\ DOMAIN slots[me] = Kinds
          /\ DOMAIN slots[me]["effect"] = {"deps", "generation", "cleanup"}
      BY <1>2 DEF IInv, HandlesInv, SlotsInv, Kinds
    <2>2. slots'[me] = [slots[me] EXCEPT !["effect"] =
                           [slots[me]["effect"] EXCEPT !.cleanup = {run}]]
      BY <1>1, <1>2, <1>3
    <2>3. slots'[me]["effect"] = [slots[me]["effect"] EXCEPT !.cleanup = {run}]
      BY <2>1, <2>2 DEF Kinds
    <2>4. slots'[me]["layout"] = slots[me]["layout"]
      BY <2>1, <2>2 DEF Kinds
    <2>5. DOMAIN slots' = Live /\ \A x \in Live: x # me => slots'[x] = slots[x]
      BY <1>1, <1>3
    <2> QED BY <2>1, <2>3, <2>4, <2>5
  <1>5. \A x \in Live: LastRun(x)' = LastRun(x) /\ LastRun(x).scope = x
    BY <1>4 DEF LastRun
  <1>6. \A x \in Live: slots'[x]["effect"].generation = slots[x]["effect"].generation
    BY <1>4
  <1>7. FirstInv'
    BY <1>1, <1>3, <1>6 DEF EffectsInv, FirstInv, SameRenders
  <1>8. DueInv'
    <2>1. ASSUME NEW x \in Live
          PROVE  IF slots'[x]["effect"].generation = 0 THEN slots'[x]["effect"].cleanup = {}
                 ELSE /\ scopes'[x].type \in Asking
                      /\ slots'[x]["effect"].deps = [props |-> scopes'[x].produced.props,
                                                     seen |-> scopes'[x].produced.seen]
                      /\ LastRun(x)' \in Pending' \/ slots'[x]["effect"].cleanup = {LastRun(x)'}
      <3>1. CASE x = me
        <4>1. slots[me]["effect"].generation # 0
          BY <1>2 DEF LastRun
        <4> QED BY <3>1, <4>1, <1>1, <1>2, <1>4, <1>5 DEF EffectsInv, DueInv, SameRenders
      <3>2. CASE x # me
        <4>1. slots'[x] = slots[x] /\ LastRun(x)' = LastRun(x) /\ LastRun(x) # run
          BY <3>2, <1>4, <1>5
        <4> QED BY <4>1, <1>1, <1>2 DEF EffectsInv, DueInv, SameRenders
      <3> QED BY <3>1, <3>2
    <2>2. ASSUME NEW r \in Pending', Current(r)'
          PROVE  r.generation > 0 /\ r = LastRun(r.scope)'
      <3>1. r \in Pending /\ r.slot = "effect" /\ r.scope \in Live
        BY <2>2, <1>2, <1>4 DEF Current, IInv, HandlesInv, RunsInv
      <3>2. Current(r)
        BY <2>2, <3>1, <1>1, <1>6 DEF Current
      <3> QED BY <3>1, <3>2, <1>5 DEF EffectsInv, DueInv
    <2> QED BY <2>1, <2>2, <1>1, <1>3 DEF EffectsInv, DueInv
  <1>9. RunningInv'
    <2>1. ASSUME NEW x \in Live
          PROVE  slots'[x]["layout"].cleanup = {}
      BY <1>4 DEF EffectsInv, RunningInv
    <2>2. ASSUME NEW r \in running'
          PROVE  r.scope \in Live /\ r \in slots'[r.scope]["effect"].cleanup
      <3>1. CASE r = run
        BY <3>1, <1>2, <1>4
      <3>2. CASE r # run
        <4>1. r \in running /\ r \notin slots[me]["effect"].cleanup
          BY <2>2, <3>2, <1>3
        <4>2. r.scope \in Live /\ r \in slots[r.scope]["effect"].cleanup
          BY <4>1 DEF EffectsInv, RunningInv
        <4>3. r.scope # me
          BY <4>1, <4>2
        <4> QED BY <4>2, <4>3, <1>4
      <3> QED BY <3>1, <3>2
    <2> QED BY <2>1, <2>2, <1>1 DEF RunningInv
  <1> QED BY <1>7, <1>8, <1>9 DEF EffectsInv

\* What happens between drawings queues no effect and starts none.
LEMMA RespondingEffects ==
    ASSUME IInv, EffectsInv, Responding, SameRenders
    PROVE  EffectsInv'
  <1>1. /\ UNCHANGED <<slots, queued, queue, running, entering, rounds>>
        /\ at \in {"wait", "handling"} /\ at' = "handling"
    BY DEF Responding
  <1>2. Pending' = Pending
    BY <1>1 DEF Pending
  <1> QED BY <1>1, <1>2, QuietEffects DEF IInv, EffectsInv, FirstInv, DueInv

\* Nothing has run at first.
LEMMA InitEffects == ASSUME Init PROVE EffectsInv
  <1>1. Live = {root} /\ Pending = {}
    BY DEF Init, Live, Pending, Kinds
  <1>2. /\ scopes[root] = NewMounted(Part(Root, None), None, {})
        /\ slots[root] = NewSlots
    BY DEF Init
  <1>3. FirstInv
    BY <1>1, <1>2 DEF Init, FirstInv, NewMounted, Fields
  <1>4. DueInv /\ RunningInv
    BY <1>1, <1>2 DEF Init, DueInv, RunningInv, NewSlots, Kinds
  <1> QED BY <1>3, <1>4 DEF EffectsInv

\* Every step keeps the slots and their runs at what was rendered.
LEMMA NextEffects == ASSUME IInv, EffectsInv, [Next]_vars, IInv' PROVE EffectsInv'
  <1> DEFINE Quiet ==
        /\ SameRenders /\ UNCHANGED <<slots, running, entering, rounds>>
        /\ Pending' \subseteq Pending
        /\ \A run \in Pending: Current(run) => run \in Pending'
        /\ at' # "frame" => entering' = None
        /\ at' \in {"effect", "wait", "handling"} => queued'["effect"] = {}
  <1>1. Quiet => EffectsInv'
    BY QuietEffects DEF IInv
  <1>2. UNCHANGED scopes => SameRenders
    BY StillRenders DEF EffectsInv
  <1>3. \A ids: Mark(ids) => SameRenders
    BY MarkRenders DEF EffectsInv
  <1>4. \A id, v: WriteSlot(id, v) => SameRenders
    BY <1>3 DEF WriteSlot
  <1>5. /\ at # "frame" => entering = None
        /\ at \in {"effect", "wait", "handling"} => queued["effect"] = {}
    BY DEF EffectsInv, FirstInv, DueInv
  <1>6. CASE UNCHANGED vars
    BY <1>1, <1>2, <1>5, <1>6 DEF vars, treeVars, effectVars, loopVars, Pending
  <1>7. CASE LayOut
    <2>1. /\ SameRenders /\ UNCHANGED <<slots, running, entering, rounds>>
          /\ at' = "layout" /\ entering = None
      BY <1>3, <1>7 DEF LayOut
    <2>2. Pending' = Pending
      BY <1>7 DEF LayOut, Pending, IInv, QueueInv, Kinds
    <2> QED BY <1>1, <2>1, <2>2
  <1>8. CASE PaintAll
    <2>1. /\ SameRenders /\ UNCHANGED <<slots, running, entering, rounds>>
          /\ at' = "effect" /\ entering = None /\ queued'["effect"] = {}
      BY <1>2, <1>5, <1>8 DEF PaintAll, treeVars, Kinds, IInv, QueueInv
    <2>2. Pending' = Pending
      BY <1>8 DEF PaintAll, Pending, IInv, QueueInv, Kinds
    <2> QED BY <1>1, <2>1, <2>2
  <1>9. ASSUME NEW run \in queue, SkipEffect(run)
        PROVE  EffectsInv'
    <2>1. /\ SameRenders /\ UNCHANGED <<slots, running, entering, rounds, at, queued>>
      BY <1>2, <1>9 DEF SkipEffect, treeVars, loopVars
    <2>2. Pending' \subseteq Pending /\ \A r \in Pending: Current(r) => r \in Pending'
      BY <1>9, <2>1 DEF SkipEffect, Took, Pending
    <2> QED BY <1>1, <1>5, <2>1, <2>2
  <1>10. ASSUME NEW run \in queue, RunLayoutEffect(run)
         PROVE  EffectsInv'
    <2>1. /\ SameRenders /\ UNCHANGED <<slots, running, entering, rounds, at, queued>>
      BY <1>2, <1>4, <1>10 DEF RunLayoutEffect
    <2>2. Pending' = Pending
      BY <1>10, <2>1 DEF RunLayoutEffect, Took, Pending
    <2> QED BY <1>1, <1>5, <2>1, <2>2
  <1>11. CASE Wait
    <2>1. /\ SameRenders /\ UNCHANGED <<slots, running, entering, rounds, queue, queued>>
          /\ at = "effect" /\ at' = "wait"
      BY <1>2, <1>11 DEF Wait, treeVars, effectVars
    <2>2. Pending' = Pending
      BY <2>1 DEF Pending
    <2> QED BY <1>1, <1>5, <2>1, <2>2
  <1>12. CASE AnotherRound
    BY <1>12, StartRoundEffects DEF AnotherRound
  <1>13. CASE DrawAgain
    BY <1>13, StartRoundEffects DEF DrawAgain
  <1>14. CASE DrawNext
    <2>1. queue = {} /\ at # "frame"
      BY <1>14 DEF DrawNext, IInv, QueueInv, Kinds
    <2> QED BY <1>14, <2>1, StartRoundEffects DEF DrawNext
  <1>15. ASSUME NEW run \in queue, RunEffect(run)
         PROVE  EffectsInv'
    BY <1>15, RunEffectEffects
  <1>16. CASE Resize
    BY <1>3, <1>16, RespondingEffects DEF Resize
  <1>17. ASSUME NEW id \in Live, NEW v \in Values, Listen(id, v)
         PROVE  EffectsInv'
    BY <1>4, <1>17, RespondingEffects DEF Listen
  <1>18. ASSUME NEW run \in asked, Answer(run)
         PROVE  EffectsInv'
    BY <1>4, <1>18, RespondingEffects DEF Answer
  <1>19. ASSUME NEW run \in asked, Refuse(run)
         PROVE  EffectsInv'
    BY <1>2, <1>19, RespondingEffects DEF Refuse
  <1> QED
    BY <1>6, <1>7, <1>8, <1>9, <1>10, <1>11, <1>12, <1>13, <1>14, <1>15, <1>16, <1>17, <1>18,
       <1>19, ReuseEffects, RenderEffects, KeepEffects, MountEffects, FinishEffects
    DEF Next

\* EffectsMatch: however many rounds a drawing takes, whatever is mounted and
\* removed in them, and in whatever order the effects run, at rest exactly the
\* last run of each live component's effect is running.
THEOREM EffectsAreThoseOfTheTree == Spec => []EffectsMatch
  <1>1. ASSUME IInv, EffectsInv
        PROVE  EffectsMatch
    <2> SUFFICES ASSUME at \in {"wait", "handling"}, rounds > 0
                 PROVE  running =
                   {[scope |-> id, slot |-> "effect",
                     deps |-> [props |-> scopes[id].produced.props,
                               seen |-> scopes[id].produced.seen],
                     generation |-> slots[id]["effect"].generation]:
                    id \in {id \in Live: scopes[id].type \in Asking}}
      BY DEF EffectsMatch
    <2>1. Pending = {}
      BY <1>1 DEF IInv, QueueInv, EffectsInv, DueInv, Pending, Kinds
    <2>2. None \notin Live /\ entering = None
      BY <1>1, LoomAssumption DEF IInv, HandlesInv, SlabInv, EffectsInv, FirstInv
    <2>3. ASSUME NEW id \in Live, scopes[id].type \in Asking
          PROVE  /\ slots[id]["effect"].cleanup = {LastRun(id)}
                 /\ slots[id]["effect"].deps = [props |-> scopes[id].produced.props,
                                                seen |-> scopes[id].produced.seen]
      <3>1. slots[id]["effect"].generation # 0
        BY <1>1, <2>2, <2>3 DEF EffectsInv, FirstInv
      <3> QED BY <1>1, <2>1, <3>1 DEF EffectsInv, DueInv
    <2>4. ASSUME NEW id \in Live, scopes[id].type \notin Asking
          PROVE  slots[id]["effect"].cleanup = {}
      BY <1>1, <2>4 DEF EffectsInv, DueInv
    <2>5. running = {LastRun(id): id \in {id \in Live: scopes[id].type \in Asking}}
      <3>1. ASSUME NEW run \in running
            PROVE  \E id \in Live: scopes[id].type \in Asking /\ run = LastRun(id)
        <4>1. run.scope \in Live /\ run \in slots[run.scope]["effect"].cleanup
          BY <1>1, <3>1 DEF EffectsInv, RunningInv
        <4>2. scopes[run.scope].type \in Asking
          BY <2>4, <4>1
        <4>3. slots[run.scope]["effect"].cleanup = {LastRun(run.scope)}
          BY <2>3, <4>1, <4>2
        <4>4. run = LastRun(run.scope)
          BY <4>1, <4>3
        <4> QED BY <4>1, <4>2, <4>4
      <3>2. ASSUME NEW id \in Live, scopes[id].type \in Asking
            PROVE  LastRun(id) \in running
        BY <1>1, <2>3, <3>2 DEF IInv, HandlesInv, SlotsInv, Kinds
      <3> QED BY <3>1, <3>2
    <2>6. \A id \in {id \in Live: scopes[id].type \in Asking}:
             LastRun(id) = [scope |-> id, slot |-> "effect",
                            deps |-> [props |-> scopes[id].produced.props,
                                      seen |-> scopes[id].produced.seen],
                            generation |-> slots[id]["effect"].generation]
      BY <2>3 DEF LastRun
    <2> QED BY <2>5, <2>6, Zenon
  <1>2. Init => IInv /\ EffectsInv
    BY InitIInv, InitEffects
  <1>3. IInv /\ EffectsInv /\ [Next]_vars => IInv' /\ EffectsInv'
    BY NextIInv, NextEffects
  <1> QED BY <1>1, <1>2, <1>3, PTL DEF Spec

------------------------------------------------------------------------------
(* The tree, and what is drawn of it.                                      *)
(*                                                                         *)
(* A drawing walks down the tree, and while it is at it the tree is only   *)
(* half of what it will be: what holds in between is said of the scopes    *)
(* being expanded (StackInv), of the children they have gone on with       *)
(* (CursorInv) and of those that are done with (DoneInv).                  *)

\* The scopes whose children are being gone through, and those below a scope.
Expanding == {stack[n].scope: n \in DOMAIN stack}

Children(id) == {x \in Live: scopes[x].parent = id}

\* What is above a scope is its parent and what is above that, up to the root,
\* one below the other.
TreeInv ==
    /\ root \in Live /\ scopes[root].parent = None /\ None \notin Live /\ Above(root) = {}
    /\ \A id \in Live \ {root}:
          /\ scopes[id].parent \in Live
          /\ Above(id) = {scopes[id].parent} \cup Above(scopes[id].parent)
          /\ root \in Above(id)
    /\ \A id \in Live: id \notin Above(id) /\ Above(id) \subseteq Live
    /\ \A id \in Live: \A a \in Above(id): Above(a) \subseteq Above(id)
    /\ \A id \in Live: \A a, b \in Above(id): a = b \/ a \in Above(b) \/ b \in Above(a)
    /\ \A id \in Live: \A a \in Above(id): \E c \in Above(id) \cup {id}: scopes[c].parent = a

\* The types of what a component produces, and of how far the walk has come.
PartSet == [type: Types, key: Values \cup {None}, props: Values \cup {None}]

CursorSet ==
    [scope: ScopeId, parts: Seq(PartSet), next: Seq(ScopeId), old: Seq(ScopeId), left: SUBSET Nat]

\* The scopes being expanded are those above the one that is next.
StackInv ==
    /\ stack \in Seq(CursorSet)
    /\ Expanding \subseteq Live
    /\ \A n \in DOMAIN stack:
          /\ Above(stack[n].scope) = {stack[m].scope: m \in 1..(n - 1)}
          /\ n > 1 => scopes[stack[n].scope].parent = stack[n - 1].scope
    /\ stack # <<>> => stack[1].scope = root
    /\ entering # None =>
          /\ entering \in Live
          /\ IF stack = <<>> THEN entering = root
             ELSE scopes[entering].parent = stack[Len(stack)].scope
    /\ at # "frame" => stack = <<>> /\ entering = None

\* The children of a scope have it as their parent, and no others.
ChildrenInv ==
    \A id \in Live:
        /\ scopes[id].children \in Seq(ScopeId)
        /\ Range(scopes[id].children) = Children(id)

\* The first parts of a list are those of some children.
Follows(ids, parts) ==
    /\ Len(ids) <= Len(parts)
    /\ \A n \in 1..Len(ids): scopes[ids[n]].type = parts[n].type /\ scopes[ids[n]].key = parts[n].key

\* The parts of a component, when it last ran.
Produced(id) == PartsOf(scopes[id].type, scopes[id].produced.value)

\* A scope being expanded has gone on with a child for each part so far.
CursorInv ==
    \A n \in DOMAIN stack:
        LET cursor == stack[n]
        IN  /\ scopes[cursor.scope].rendered
            /\ Range(cursor.old) \cup Range(cursor.next) \subseteq Children(cursor.scope)
            /\ cursor.left \subseteq DOMAIN cursor.old
            /\ Follows(cursor.next, Produced(cursor.scope))
            /\ Len(cursor.next) + Len(cursor.parts) = Len(Produced(cursor.scope))
            /\ \A m \in 1..Len(cursor.parts):
                  cursor.parts[m] = Produced(cursor.scope)[Len(cursor.next) + m]

\* A scope that has not run is about to; any other has the children that its
\* state asked for when it last ran.
ShapeInv ==
    \A id \in Live:
        /\ scopes[id].type \in Types
        /\ ~scopes[id].rendered =>
              /\ scopes[id].dirty /\ scopes[id].children = <<>>
              /\ id = entering \/ (id = root /\ rounds = 0)
        /\ scopes[id].rendered /\ id \notin Expanding =>
              /\ Len(scopes[id].children) = Len(Produced(id))
              /\ Follows(scopes[id].children, Produced(id))

\* The state of a component that does not ask is one of the values; a round
\* has taken up all that were pending.
StatesInv ==
    /\ DOMAIN states = Live
    /\ \A id \in Live:
          /\ scopes[id].type \notin Asking =>
                /\ states[id].value \in Values /\ states[id].pending \subseteq Values
                /\ scopes[id].rendered => scopes[id].produced.value \in Values
          /\ at = "frame" => states[id].pending = {}
          /\ states[id].pending # {} => \E v \in states[id].pending: states[id].pending = {v}

\* Those that provide have done so since they ran.
OffersInv ==
    /\ DOMAIN offers \subseteq {id \in Live: scopes[id].type \in Offering}
    /\ \A id \in Live: scopes[id].type \in Offering /\ scopes[id].rendered => id \in DOMAIN offers

\* What is marked can be found from the root; and a scope to run again is marked.
MarksInv ==
    /\ \A id \in Dirty: Above(id) \subseteq Dirty \cup Expanding
    /\ \A id \in Dirty \cap Expanding: Above(id) \subseteq Dirty
    /\ \A id \in Live: Stale(id) => id \in Dirty \ Expanding
    /\ at # "frame" => \A id \in Live: Stale(id) => marked # {}

\* A scope with all below it that shows what it should.
Done(id) ==
    \A x \in Below(id) \cup {id}: ~Stale(x) /\ (x \in Dirty => Above(x) \subseteq Dirty)

\* The children that were gone on with are done, and in the end the root is.
DoneInv ==
    /\ \A n \in DOMAIN stack: \A c \in Range(stack[n].next):
          c # entering /\ c \notin Expanding => Done(c)
    /\ at = "frame" /\ entering = None /\ stack = <<>> => Done(root)

\* The tree, and how far the walk through it has come.
WalkInv == TreeInv /\ StackInv /\ ChildrenInv /\ CursorInv /\ ShapeInv /\ StatesInv

\* The innermost of the components being expanded.
Top == stack[Len(stack)]

------------------------------------------------------------------------------
(* What is above what. *)

\* No two scopes are above each other.
LEMMA Apart ==
    ASSUME TreeInv, NEW x \in Live, NEW y \in Above(x)
    PROVE  y \in Live /\ y # x /\ x \notin Above(y)
  BY DEF TreeInv

\* Above a child of a scope being expanded are that scope and those above it.
LEMMA ExpandingBelow ==
    ASSUME TreeInv, StackInv, NEW n \in DOMAIN stack, NEW c \in Children(stack[n].scope)
    PROVE  /\ c \in Live /\ c # root
           /\ Above(c) = {stack[m].scope: m \in 1..n}
           /\ Above(c) \subseteq Expanding
  <1>1. n \in Nat /\ n > 0 /\ n <= Len(stack) /\ DOMAIN stack = 1..Len(stack) /\ Len(stack) \in Nat
    BY DEF StackInv
  <1>2. /\ stack[n].scope \in Live
        /\ Above(stack[n].scope) = {stack[m].scope: m \in 1..(n - 1)}
    BY DEF StackInv, Expanding
  <1>3. c \in Live /\ scopes[c].parent = stack[n].scope
    BY DEF Children
  <1>4. c # root
    BY <1>2, <1>3 DEF TreeInv
  <1>5. Above(c) = {stack[n].scope} \cup {stack[m].scope: m \in 1..(n - 1)}
    <2>1. Above(c) = {scopes[c].parent} \cup Above(scopes[c].parent)
      BY <1>3, <1>4 DEF TreeInv
    <2>2. Above(scopes[c].parent) = {stack[m].scope: m \in 1..(n - 1)}
      BY <1>2, <1>3
    <2> QED BY <2>1, <2>2, <1>3
  <1>6. {stack[n].scope} \cup {stack[m].scope: m \in 1..(n - 1)} = {stack[m].scope: m \in 1..n}
    BY <1>1
  <1>7. {stack[m].scope: m \in 1..n} \subseteq Expanding
    BY <1>1 DEF Expanding
  <1> QED BY <1>3, <1>4, <1>5, <1>6, <1>7

\* What is above the scope that is next is what is being expanded.
LEMMA AboveNext ==
    ASSUME TreeInv, StackInv, NEW id \in Live,
           IF stack = <<>> THEN id = root ELSE id \in Children(Top.scope)
    PROVE  Above(id) = Expanding /\ id \notin Expanding
  <1>1. CASE stack = <<>>
    BY <1>1 DEF TreeInv, Expanding
  <1>2. CASE stack # <<>>
    <2>1. Len(stack) \in DOMAIN stack /\ DOMAIN stack = 1..Len(stack)
      BY <1>2 DEF StackInv
    <2>2. Above(id) = {stack[m].scope: m \in 1..Len(stack)}
      BY <1>2, <2>1, ExpandingBelow DEF Top
    <2>3. Above(id) = Expanding
      BY <2>1, <2>2 DEF Expanding
    <2> QED BY <2>3 DEF TreeInv
  <1> QED BY <1>1, <1>2

\* Most steps change nothing in the tree.
LEMMA TreeKept ==
    ASSUME TreeInv, Live' = Live,
           \A x \in Live: scopes'[x].parent = scopes[x].parent /\ scopes'[x].above = scopes[x].above
    PROVE  /\ TreeInv'
           /\ \A x \in Live: Above(x)' = Above(x)
           /\ \A x: Children(x)' = Children(x)
           /\ \A x \in Live: Below(x)' = Below(x)
  <1>1. \A x \in Live: Above(x)' = Above(x)
    BY DEF Above
  <1>2. \A x: Children(x)' = Children(x)
    BY DEF Children
  <1>3. \A x \in Live: Below(x)' = Below(x)
    BY <1>1 DEF Below
  <1>4. TreeInv'
    BY <1>1 DEF TreeInv
  <1> QED BY <1>1, <1>2, <1>3, <1>4

------------------------------------------------------------------------------
(* What the steps of a drawing do, field by field. *)

\* The readers that a render marks, and the scopes it makes dirty by that.
RenderReaders(id) ==
    IF id \in DOMAIN offers /\ offers[id] # states[id].value THEN Readers(id) ELSE {}

RenderMarks(id) == UNION {MarkPath(Dirty \ {id}, r): r \in RenderReaders(id)}

\* What a render leaves of the tree, field by field.
LEMMA RenderFacts ==
    ASSUME EffectsInv, Render, NEW me, me = entering
    PROVE  /\ me \in Live /\ Live' = Live /\ me \in Dirty
           /\ \A x \in Live: \A field \in Fields \ {"dirty", "rendered", "produced"}:
                 scopes'[x][field] = scopes[x][field]
           /\ \A x \in Live \ {me}: /\ scopes'[x].rendered = scopes[x].rendered
                                    /\ scopes'[x].produced = scopes[x].produced
           /\ scopes'[me].rendered = TRUE
           /\ scopes'[me].produced = [props |-> scopes[me].props, value |-> states[me].value,
                                      seen |-> Seen(me)]
           /\ Dirty' = (Dirty \ {me}) \cup (RenderMarks(me) \cap Live)
  <1> DEFINE new == [props |-> scopes[me].props, value |-> states[me].value, seen |-> Seen(me)]
             now == [scopes EXCEPT ![me].dirty = FALSE, ![me].rendered = TRUE,
                                   ![me].produced = new]
             to == RenderMarks(me)
  <1>1. me \in Live /\ me \in Dirty /\ scopes' = Flagged(now, to)
    BY DEF Render, RenderMarks, RenderReaders, Dirty
  <1>2. Live' = Live
    BY <1>1 DEF Flagged, Live
  <1>3. ASSUME NEW x \in Live
        PROVE  /\ DOMAIN now[x] = Fields /\ x \in DOMAIN now
               /\ \A field \in Fields \ {"dirty", "rendered", "produced"}:
                     now[x][field] = scopes[x][field]
               /\ x # me => now[x] = scopes[x]
               /\ x = me => ~now[x].dirty /\ now[x].rendered = TRUE /\ now[x].produced = new
    <2>1. DOMAIN scopes[x] = Fields /\ x \in DOMAIN scopes
      BY DEF EffectsInv, FirstInv, Live
    <2>2. CASE x = me
      <3>1. now[x] = [[[scopes[x] EXCEPT !.dirty = FALSE] EXCEPT !.rendered = TRUE]
                         EXCEPT !.produced = new]
        BY <2>2, <2>1
      <3> QED BY <2>2, <3>1, <2>1 DEF Fields
    <2>3. CASE x # me
      BY <2>3, <2>1
    <2> QED BY <2>2, <2>3
  <1> HIDE DEF now, to, new
  <1>4. ASSUME NEW x \in Live
        PROVE  /\ DOMAIN scopes'[x] = Fields
               /\ \A field \in Fields \ {"dirty"}: scopes'[x][field] = now[x][field]
               /\ scopes'[x].dirty = (now[x].dirty \/ x \in to)
    <2>1. x \in DOMAIN now /\ DOMAIN now[x] = Fields
      BY <1>3
    <2>2. /\ DOMAIN Flagged(now, to)[x] = Fields
          /\ \A field \in Fields \ {"dirty"}: Flagged(now, to)[x][field] = now[x][field]
          /\ Flagged(now, to)[x].dirty = (now[x].dirty \/ x \in to)
      BY <2>1, FlaggedRenders
    <2> QED BY <1>1, <2>2
  <1>5. ASSUME NEW x \in Live, NEW field \in Fields \ {"dirty", "rendered", "produced"}
        PROVE  scopes'[x][field] = scopes[x][field]
    <2>1. now[x][field] = scopes[x][field]
      BY <1>3
    <2>2. scopes'[x][field] = now[x][field]
      BY <1>4
    <2> QED BY <2>1, <2>2
  <1>6. ASSUME NEW x \in Live
        PROVE  /\ x # me => /\ scopes'[x].rendered = scopes[x].rendered
                            /\ scopes'[x].produced = scopes[x].produced
               /\ x = me => scopes'[x].rendered = TRUE /\ scopes'[x].produced = new
    <2>1. "rendered" \in Fields \ {"dirty"} /\ "produced" \in Fields \ {"dirty"}
      BY DEF Fields
    <2>2. scopes'[x].rendered = now[x].rendered /\ scopes'[x].produced = now[x].produced
      BY <2>1, <1>4
    <2>3. /\ x # me => now[x] = scopes[x]
          /\ x = me => now[x].rendered = TRUE /\ now[x].produced = new
      BY <1>3
    <2> QED BY <2>2, <2>3
  <1>7. ASSUME NEW x \in Live
        PROVE  scopes'[x].dirty <=> (x # me /\ scopes[x].dirty) \/ x \in to
    BY <1>3, <1>4
  <1>8. Dirty' = (Dirty \ {me}) \cup (to \cap Live)
    BY <1>2, <1>7 DEF Dirty
  <1> QED BY <1>1, <1>2, <1>5, <1>6, <1>8 DEF to, new

\* What appending makes of a sequence.
LEMMA Appended ==
    ASSUME NEW S, NEW s \in Seq(S), NEW e \in S
    PROVE  /\ Append(s, e) \in Seq(S) /\ Len(Append(s, e)) = Len(s) + 1
           /\ DOMAIN Append(s, e) = 1..(Len(s) + 1)
           /\ \A n \in 1..Len(s): Append(s, e)[n] = s[n]
           /\ Append(s, e)[Len(s) + 1] = e
  OBVIOUS

\* The innermost cursor, and what it is made of.
LEMMA TopOf ==
    ASSUME StackInv, stack # <<>>
    PROVE  /\ Len(stack) \in DOMAIN stack /\ DOMAIN stack = 1..Len(stack) /\ Len(stack) \in Nat
           /\ Last(stack) = Top /\ Top \in CursorSet /\ Top.scope \in Live
           /\ Top.parts \in Seq(PartSet) /\ Top.next \in Seq(ScopeId) /\ Top.old \in Seq(ScopeId)
           /\ Top.left \subseteq Nat
           /\ Top.parts # <<>> => Head(Top.parts) = Top.parts[1]
  <1>1. Len(stack) \in DOMAIN stack /\ DOMAIN stack = 1..Len(stack) /\ Len(stack) \in Nat
    BY DEF StackInv
  <1>2. Last(stack) = Top
    BY DEF Last, Top
  <1>3. Top \in CursorSet /\ Top.scope \in Live
    BY <1>1 DEF StackInv, Top, Expanding
  <1>4. /\ Top.parts \in Seq(PartSet) /\ Top.next \in Seq(ScopeId) /\ Top.old \in Seq(ScopeId)
        /\ Top.left \subseteq Nat
    BY <1>3 DEF CursorSet
  <1>5. Top.parts # <<>> => Head(Top.parts) = Top.parts[1]
    BY <1>4
  <1> QED BY <1>1, <1>2, <1>3, <1>4, <1>5

\* The innermost component goes on with a scope for its next part.
LEMMA ClaimFacts ==
    ASSUME StackInv, stack # <<>>, Last(stack).parts # <<>>, NEW id \in ScopeId,
           Claim(Last(stack), id)
    PROVE  /\ Len(stack) \in DOMAIN stack /\ DOMAIN stack = 1..Len(stack)
           /\ stack' \in Seq(CursorSet) /\ DOMAIN stack' = DOMAIN stack /\ Len(stack') = Len(stack)
           /\ \A n \in 1..(Len(stack) - 1): stack'[n] = stack[n]
           /\ stack'[Len(stack)].scope = Top.scope
           /\ stack'[Len(stack)].parts = Tail(Top.parts)
           /\ stack'[Len(stack)].next = Append(Top.next, id)
           /\ stack'[Len(stack)].old = Top.old
           /\ stack'[Len(stack)].left \subseteq Top.left
           /\ \A n \in DOMAIN stack: stack'[n].scope = stack[n].scope
           /\ entering' = id
           /\ Expanding' = Expanding
  <1> DEFINE k == Len(stack)
             left == Top.left \ Compared(Top, Head(Top.parts))
             new == [[[Top EXCEPT !.parts = Tail(@)] EXCEPT !.next = Append(@, id)]
                        EXCEPT !.left = left]
  <1>1. k \in Nat /\ k > 0 /\ DOMAIN stack = 1..k /\ Last(stack) = Top /\ Top \in CursorSet
    BY TopOf
  <1>2. entering' = id /\ stack' = Append(Front(stack), new)
    BY <1>1 DEF Claim
  <1>3. /\ Top.parts \in Seq(PartSet) /\ Top.parts # <<>> /\ Top.next \in Seq(ScopeId)
        /\ Top.left \subseteq Nat
    BY <1>1 DEF CursorSet
  <1>4. left \subseteq Top.left
    OBVIOUS
  <1> HIDE DEF left
  <1>5. /\ new.scope = Top.scope /\ new.parts = Tail(Top.parts) /\ new.next = Append(Top.next, id)
        /\ new.old = Top.old /\ new.left = left
    BY <1>1 DEF CursorSet
  <1>6. Tail(Top.parts) \in Seq(PartSet) /\ Append(Top.next, id) \in Seq(ScopeId)
    BY <1>3
  <1>7. new \in CursorSet
    BY <1>1, <1>3, <1>4, <1>6 DEF CursorSet
  <1> HIDE DEF new
  <1>8. /\ Front(stack) \in Seq(CursorSet) /\ Len(Front(stack)) = k - 1
        /\ \A n \in 1..(k - 1): Front(stack)[n] = stack[n]
    BY <1>1 DEF Front, StackInv
  <1>9. /\ stack' \in Seq(CursorSet) /\ Len(stack') = k /\ DOMAIN stack' = 1..k
        /\ \A n \in 1..(k - 1): stack'[n] = stack[n]
        /\ stack'[k] = new
    <2>1. k = (k - 1) + 1
      BY <1>1
    <2>2. /\ stack' \in Seq(CursorSet) /\ Len(stack') = Len(Front(stack)) + 1
          /\ DOMAIN stack' = 1..(Len(Front(stack)) + 1)
          /\ \A n \in 1..Len(Front(stack)): stack'[n] = Front(stack)[n]
          /\ stack'[Len(Front(stack)) + 1] = new
      BY <1>2, <1>7, <1>8, Appended
    <2> QED BY <2>1, <2>2, <1>1, <1>8
  <1>10. \A n \in 1..k: stack'[n].scope = stack[n].scope
    BY <1>1, <1>5, <1>9 DEF Top
  <1>11. Expanding' = Expanding
    BY <1>1, <1>9, <1>10 DEF Expanding
  <1>12. k \in DOMAIN stack
    BY <1>1
  <1> QED BY <1>1, <1>2, <1>4, <1>5, <1>9, <1>10, <1>11, <1>12

\* An old child that a part goes on with is one, and of its key and type.
LEMMA KeepFacts ==
    ASSUME IInv, EffectsInv, WalkInv, Keep
    PROVE  \E id \in Live:
              /\ stack # <<>> /\ Last(stack).parts # <<>> /\ at = "frame" /\ entering = None
              /\ id \in Children(Top.scope)
              /\ scopes[id].type = Top.parts[1].type /\ scopes[id].key = Top.parts[1].key
              /\ Live' = Live
              /\ \A x \in Live: \A field \in Fields \ {"dirty", "props"}:
                    scopes'[x][field] = scopes[x][field]
              /\ \A x \in Live \ {id}: scopes'[x] = scopes[x]
              /\ scopes[id].dirty => scopes'[id].dirty
              /\ scopes'[id].props # scopes[id].props => scopes'[id].dirty
              /\ Claim(Last(stack), id)
              /\ UNCHANGED <<states, slots, offers, marked, asked, at, rounds>>
  <1> DEFINE part == Head(Last(stack).parts)
  <1>1. PICK id \in Match(Last(stack), part):
          /\ scopes' = [scopes EXCEPT
                 ![id].props = part.props,
                 ![id].dirty = @ \/ part.type \notin Memo \/ scopes[id].props # part.props]
          /\ Claim(Last(stack), id)
    BY DEF Keep
  <1>2. /\ stack # <<>> /\ Last(stack).parts # <<>> /\ at = "frame" /\ entering = None
        /\ UNCHANGED <<states, slots, offers, marked, asked, at, rounds>>
    BY DEF Keep, effectVars
  <1>3. /\ Last(stack) = Top /\ Top \in CursorSet /\ Len(stack) \in DOMAIN stack
        /\ part = Top.parts[1]
    BY <1>2, TopOf DEF WalkInv
  <1>4. PICK n \in Top.left: /\ id = Top.old[n] /\ scopes[id].key = part.key
                             /\ scopes[id].type = part.type
    BY <1>1, <1>3 DEF Match, Compared, First
  <1>5. id \in Children(Top.scope)
    <2>1. Top.left \subseteq DOMAIN Top.old /\ Range(Top.old) \subseteq Children(Top.scope)
      BY <1>3 DEF WalkInv, CursorInv, Top
    <2> QED BY <1>4, <2>1 DEF Range
  <1>6. id \in Live /\ Live' = Live
    BY <1>1, <1>5 DEF Children, Live
  <1>7. \A x \in Live: x \in DOMAIN scopes /\ DOMAIN scopes[x] = Fields
    BY DEF EffectsInv, FirstInv, Live
  <1> HIDE DEF part
  <1>8. \A x \in Live \ {id}: scopes'[x] = scopes[x]
    BY <1>1, <1>7
  <1> DEFINE again == part.type \notin Memo \/ scopes[id].props # part.props
  <1>10. scopes'[id] = [[scopes[id] EXCEPT !.props = part.props] EXCEPT !.dirty = @ \/ again]
    BY <1>1, <1>6, <1>7
  <1>11. /\ \A field \in Fields \ {"dirty", "props"}: scopes'[id][field] = scopes[id][field]
         /\ scopes'[id].dirty = (scopes[id].dirty \/ again)
         /\ scopes'[id].props = part.props
    BY <1>6, <1>7, <1>10 DEF Fields
  <1>12. ASSUME NEW x \in Live, NEW field \in Fields \ {"dirty", "props"}
         PROVE  scopes'[x][field] = scopes[x][field]
    BY <1>8, <1>11
  <1>13. /\ scopes[id].dirty => scopes'[id].dirty
         /\ scopes'[id].props # scopes[id].props => scopes'[id].dirty
    BY <1>11
  <1>14. scopes[id].type = Top.parts[1].type /\ scopes[id].key = Top.parts[1].key
    BY <1>3, <1>4
  <1> QED BY <1>1, <1>2, <1>5, <1>6, <1>8, <1>12, <1>13, <1>14

\* A part that goes on with no old child gets a new scope.
LEMMA MountFacts ==
    ASSUME IInv, EffectsInv, WalkInv, Mount
    PROVE  \E id \in ScopeId \ Live:
              /\ stack # <<>> /\ Last(stack).parts # <<>> /\ at = "frame" /\ entering = None
              /\ Live' = Live \cup {id} /\ Top.scope \in Live
              /\ \A x \in Live: \A field \in Fields \ {"children"}:
                    scopes'[x][field] = scopes[x][field]
              /\ \A x \in Live \ {Top.scope}: scopes'[x].children = scopes[x].children
              /\ scopes'[Top.scope].children = Append(scopes[Top.scope].children, id)
              /\ scopes'[id] = NewMounted(Top.parts[1], Top.scope,
                                          {Top.scope} \cup Above(Top.scope))
              /\ \A x \in Live: states'[x] = states[x] /\ slots'[x] = slots[x]
              /\ DOMAIN states' = DOMAIN states \cup {id}
              /\ states'[id] = NewState(Top.parts[1].type) /\ slots'[id] = NewSlots
              /\ Claim(Last(stack), id)
              /\ UNCHANGED <<offers, marked, asked, at, rounds>>
  <1>1. /\ stack # <<>> /\ Last(stack).parts # <<>> /\ at = "frame" /\ entering = None
        /\ UNCHANGED <<offers, marked, asked, at, rounds>>
    BY DEF Mount, effectVars
  <1>2. /\ Last(stack) = Top /\ Top \in CursorSet /\ Len(stack) \in DOMAIN stack
        /\ Head(Top.parts) = Top.parts[1] /\ Top.scope \in Live
    BY <1>1, TopOf DEF WalkInv
  <1>3. PICK id \in FreshIds:
          /\ scopes' = Extend([scopes EXCEPT ![Top.scope].children = Append(@, id)],
                             id, NewMounted(Top.parts[1], Top.scope,
                                            {Top.scope} \cup Above(Top.scope)))
          /\ states' = Extend(states, id, NewState(Top.parts[1].type))
          /\ slots' = Extend(slots, id, NewSlots)
          /\ Claim(Last(stack), id)
    BY <1>2 DEF Mount
  <1>4. id \in ScopeId \ Live
    BY FreshUnknown DEF IInv, HandlesInv, Known, SlabInv
  <1>5. /\ Live' = Live \cup {id}
        /\ scopes'[id] = NewMounted(Top.parts[1], Top.scope, {Top.scope} \cup Above(Top.scope))
        /\ DOMAIN states' = DOMAIN states \cup {id}
        /\ states'[id] = NewState(Top.parts[1].type) /\ slots'[id] = NewSlots
        /\ \A x \in Live: states'[x] = states[x] /\ slots'[x] = slots[x]
    BY <1>3, <1>4 DEF Extend, Live, WalkInv, StatesInv, IInv, HandlesInv, SlotsInv
  <1>6. ASSUME NEW x \in Live
        PROVE  /\ \A field \in Fields \ {"children"}: scopes'[x][field] = scopes[x][field]
               /\ x # Top.scope => scopes'[x].children = scopes[x].children
               /\ x = Top.scope => scopes'[x].children = Append(scopes[x].children, id)
    <2>1. DOMAIN scopes[x] = Fields /\ x \in DOMAIN scopes
      BY DEF EffectsInv, FirstInv, Live
    <2>2. scopes'[x] = [scopes EXCEPT ![Top.scope].children = Append(@, id)][x]
      BY <2>1, <1>3, <1>4 DEF Extend
    <2> QED BY <2>1, <2>2 DEF Fields
  <1> QED BY <1>1, <1>2, <1>3, <1>4, <1>5, <1>6

\* What the end of an expansion removes.
Gone == Detached(Top)

\* What is removed is some children with all below them, and nothing that is
\* being expanded.
LEMMA GoneFacts ==
    ASSUME WalkInv, stack # <<>>
    PROVE  /\ Gone \subseteq Live
           /\ \A x \in Live \ Gone: Above(x) \cap Gone = {}
           /\ Expanding \cap Gone = {}
           /\ \A id \in Live \ Gone: id # Top.scope => Children(id) \cap Gone = {}
           /\ Children(Top.scope) \ Gone = Range(Top.next)
  <1> DEFINE kept == Range(Top.next)
             unclaimed == (Range(scopes[Top.scope].children) \ kept) \cap Live
  <1>1. /\ Top.scope \in Live /\ Len(stack) \in DOMAIN stack
        /\ kept \subseteq Children(Top.scope)
        /\ Range(scopes[Top.scope].children) = Children(Top.scope)
    BY TopOf DEF WalkInv, CursorInv, ChildrenInv, Top
  <1>2. unclaimed = Children(Top.scope) \ kept
    BY <1>1 DEF Children
  <1>3. ASSUME NEW x
        PROVE  x \in Gone <=> x \in Live /\ \E c \in unclaimed: x = c \/ c \in Above(x)
    BY DEF Gone, Detached, Below
  <1> HIDE DEF kept, unclaimed
  <1>4. ASSUME NEW c \in Children(Top.scope)
        PROVE  Above(c) = Expanding /\ c \notin Expanding /\ c \in Live
    BY <1>4, AboveNext DEF WalkInv, Children
  <1>5. ASSUME NEW x \in Live \ Gone, NEW a \in Above(x), a \in Gone
        PROVE  FALSE
    <2>1. PICK c \in unclaimed: a = c \/ c \in Above(a)
      BY <1>3, <1>5
    <2>2. c \in Above(x)
      BY <2>1 DEF WalkInv, TreeInv
    <2> QED BY <2>1, <2>2, <1>3
  <1>6. ASSUME NEW e \in Expanding, e \in Gone
        PROVE  FALSE
    <2>1. PICK c \in unclaimed: e = c \/ c \in Above(e)
      BY <1>3, <1>6
    <2>2. c \in Live /\ e \in Above(c) /\ c # e
      BY <2>1, <1>2, <1>4
    <2> QED BY <2>1, <2>2, Apart DEF WalkInv
  <1>7. ASSUME NEW id \in Live \ Gone, id # Top.scope, NEW y \in Children(id), y \in Gone
        PROVE  FALSE
    <2>1. PICK c \in unclaimed: y = c \/ c \in Above(y)
      BY <1>3, <1>7
    <2>2. y # c
      BY <1>2, <1>7 DEF Children
    <2>3. y \in Live \ {root} /\ scopes[y].parent = id
      BY DEF Children, WalkInv, TreeInv
    <2>4. c = id \/ c \in Above(id)
      BY <2>1, <2>2, <2>3 DEF WalkInv, TreeInv
    <2> QED BY <2>1, <2>4, <1>3
  <1>8. ASSUME NEW y \in kept
        PROVE  y \notin Gone
    <2> SUFFICES ASSUME NEW c \in unclaimed, y = c \/ c \in Above(y)
                 PROVE  FALSE
      BY <1>3
    <2>1. y # c /\ c \in Children(Top.scope) /\ y \in Children(Top.scope)
      BY <1>1, <1>2
    <2> QED BY <2>1, <1>4
  <1>9. ASSUME NEW y \in Children(Top.scope), y \notin kept
        PROVE  y \in Gone
    BY <1>2, <1>3, <1>9 DEF Children
  <1>10. Gone \subseteq Live
    BY <1>3
  <1>11. Children(Top.scope) \ Gone = kept
    BY <1>1, <1>8, <1>9
  <1> QED BY <1>5, <1>6, <1>7, <1>10, <1>11 DEF kept

\* What the end of an expansion leaves of the tree, field by field.
LEMMA FinishFacts ==
    ASSUME EffectsInv, WalkInv, Finish
    PROVE  /\ stack # <<>> /\ Top.parts = <<>> /\ at = "frame" /\ entering = None
           /\ Live' = Live \ Gone
           /\ \A x \in Live': \A field \in Fields \ {"children"}:
                 scopes'[x][field] = scopes[x][field]
           /\ \A x \in Live' \ {Top.scope}: scopes'[x].children = scopes[x].children
           /\ scopes'[Top.scope].children = Top.next
           /\ DOMAIN states' = Live' /\ \A x \in Live': states'[x] = states[x]
           /\ DOMAIN offers' = DOMAIN offers \ Gone
           /\ \A x \in DOMAIN offers \ Gone: offers'[x] = offers[x]
           /\ stack' \in Seq(CursorSet) /\ Len(stack') = Len(stack) - 1
           /\ DOMAIN stack' = 1..(Len(stack) - 1)
           /\ \A n \in 1..(Len(stack) - 1): stack'[n] = stack[n]
           /\ Expanding' = Above(Top.scope) /\ Expanding = Above(Top.scope) \cup {Top.scope}
           /\ UNCHANGED <<at, entering, rounds, asked>>
  <1>1. /\ stack # <<>> /\ at = "frame" /\ entering = None
        /\ UNCHANGED <<at, entering, rounds, asked>> /\ stack' = Front(stack)
    BY DEF Finish
  <1>2. Last(stack) = Top
    BY <1>1, TopOf DEF WalkInv
  <1>3. /\ Top.parts = <<>>
        /\ scopes' = Restrict([scopes EXCEPT ![Top.scope].children = Top.next], Live \ Gone)
        /\ states' = Restrict(states, Live \ Gone)
        /\ offers' = Restrict(offers, DOMAIN offers \ Gone)
    BY <1>2 DEF Finish, Gone
  <1>4. Live' = Live \ Gone /\ DOMAIN states' = Live' /\ \A x \in Live': states'[x] = states[x]
    BY <1>3 DEF Restrict, Live
  <1>5. /\ DOMAIN offers' = DOMAIN offers \ Gone
        /\ \A x \in DOMAIN offers \ Gone: offers'[x] = offers[x]
    BY <1>3 DEF Restrict
  <1>6. Top.scope \in Live' /\ Len(stack) \in DOMAIN stack
    BY <1>1, <1>4, TopOf, GoneFacts DEF WalkInv, Expanding, Top
  <1>7. ASSUME NEW x \in Live'
        PROVE  /\ \A field \in Fields \ {"children"}: scopes'[x][field] = scopes[x][field]
               /\ x # Top.scope => scopes'[x].children = scopes[x].children
               /\ x = Top.scope => scopes'[x].children = Top.next
    <2>1. DOMAIN scopes[x] = Fields /\ x \in DOMAIN scopes /\ x \in Live \ Gone
      BY <1>4 DEF EffectsInv, FirstInv, Live
    <2>2. scopes'[x] = [scopes EXCEPT ![Top.scope].children = Top.next][x]
      BY <2>1, <1>3 DEF Restrict
    <2> QED BY <2>1, <2>2 DEF Fields
  <1>8. /\ Len(stack) \in Nat /\ Len(stack) > 0 /\ DOMAIN stack = 1..Len(stack)
        /\ stack \in Seq(CursorSet)
    BY <1>1 DEF WalkInv, StackInv
  <1>9. /\ stack' \in Seq(CursorSet) /\ Len(stack') = Len(stack) - 1
        /\ DOMAIN stack' = 1..(Len(stack) - 1)
        /\ \A n \in 1..(Len(stack) - 1): stack'[n] = stack[n]
    BY <1>1, <1>8 DEF Front
  <1>10. Above(Top.scope) = {stack[m].scope: m \in 1..(Len(stack) - 1)}
    <2>1. \A n \in DOMAIN stack: Above(stack[n].scope) = {stack[m].scope: m \in 1..(n - 1)}
      BY DEF WalkInv, StackInv
    <2> QED BY <2>1, <1>6 DEF Top
  <1>11. Expanding' = {stack[m].scope: m \in 1..(Len(stack) - 1)}
    BY <1>9 DEF Expanding
  <1>12. Expanding = {stack[m].scope: m \in 1..(Len(stack) - 1)} \cup {Top.scope}
    BY <1>8 DEF Expanding, Top
  <1>13. scopes'[Top.scope].children = Top.next
    BY <1>6, <1>7
  <1> QED BY <1>1, <1>3, <1>4, <1>5, <1>7, <1>9, <1>10, <1>11, <1>12, <1>13

------------------------------------------------------------------------------
(* The walk keeps the tree, and gives it its shape. *)

\* Appending adds one element.
LEMMA RangeOfAppend ==
    ASSUME NEW S, NEW s \in Seq(S), NEW e \in S
    PROVE  Range(Append(s, e)) = Range(s) \cup {e}
  <1>1. \A n \in 1..Len(s): Append(s, e)[n] = s[n]
    OBVIOUS
  <1>2. Append(s, e)[Len(s) + 1] = e /\ DOMAIN Append(s, e) = 1..(Len(s) + 1)
    OBVIOUS
  <1>3. DOMAIN s = 1..Len(s) /\ Len(s) \in Nat
    OBVIOUS
  <1>4. ASSUME NEW n \in 1..(Len(s) + 1)
        PROVE  n \in 1..Len(s) \/ n = Len(s) + 1
    BY <1>3
  <1>5. Len(s) + 1 \in 1..(Len(s) + 1) /\ \A n \in 1..Len(s): n \in 1..(Len(s) + 1)
    BY <1>3
  <1> QED BY <1>1, <1>2, <1>3, <1>4, <1>5 DEF Range

\* The stack after a part was gone on with.
LEMMA ClaimStack ==
    ASSUME TreeInv, StackInv, stack # <<>>, Last(stack).parts # <<>>, NEW id \in ScopeId,
           Claim(Last(stack), id), at' = "frame", Live \subseteq Live', id \in Live',
           scopes'[id].parent = Top.scope,
           \A x \in Live: scopes'[x].parent = scopes[x].parent /\ scopes'[x].above = scopes[x].above
    PROVE  StackInv'
  <1>1. /\ DOMAIN stack = 1..Len(stack) /\ Len(stack) \in DOMAIN stack
        /\ stack' \in Seq(CursorSet) /\ DOMAIN stack' = DOMAIN stack /\ Len(stack') = Len(stack)
        /\ \A n \in DOMAIN stack: stack'[n].scope = stack[n].scope
        /\ entering' = id /\ Expanding' = Expanding
    BY ClaimFacts
  <1>2. \A n \in DOMAIN stack: stack[n].scope \in Live
    BY DEF StackInv, Expanding
  <1>3. ASSUME NEW n \in DOMAIN stack
        PROVE  /\ scopes'[stack'[n].scope].above = {stack'[m].scope: m \in 1..(n - 1)}
               /\ n > 1 => scopes'[stack'[n].scope].parent = stack'[n - 1].scope
    <2>1. \A m \in 1..(n - 1): m \in DOMAIN stack
      BY <1>1
    <2>2. {stack'[m].scope: m \in 1..(n - 1)} = {stack[m].scope: m \in 1..(n - 1)}
      BY <2>1, <1>1
    <2>3. scopes[stack[n].scope].above = {stack[m].scope: m \in 1..(n - 1)}
      BY DEF StackInv, Above
    <2>4. n > 1 => scopes[stack[n].scope].parent = stack[n - 1].scope /\ n - 1 \in DOMAIN stack
      BY <1>1 DEF StackInv
    <2> QED BY <2>2, <2>3, <2>4, <1>1, <1>2
  <1>4. stack' # <<>> /\ stack'[1].scope = root
    <2>1. 1 \in DOMAIN stack
      BY <1>1
    <2> QED BY <2>1, <1>1 DEF StackInv
  <1>5. scopes'[entering'].parent = stack'[Len(stack')].scope
    BY <1>1 DEF Top
  <1>6. Expanding' \subseteq Live'
    BY <1>1 DEF StackInv
  <1> QED BY <1>1, <1>3, <1>4, <1>5, <1>6 DEF StackInv, Above

\* The cursors after a part was gone on with.
LEMMA ClaimCursors ==
    ASSUME TreeInv, StackInv, CursorInv, stack # <<>>, Last(stack).parts # <<>>,
           NEW id \in ScopeId, Claim(Last(stack), id), Live \subseteq Live', id \in Live',
           scopes'[id].parent = Top.scope,
           scopes'[id].type = Top.parts[1].type, scopes'[id].key = Top.parts[1].key,
           \A x \in Live: /\ scopes'[x].parent = scopes[x].parent
                          /\ scopes'[x].type = scopes[x].type
                          /\ scopes'[x].key = scopes[x].key
                          /\ scopes'[x].rendered = scopes[x].rendered
                          /\ scopes'[x].produced = scopes[x].produced
    PROVE  CursorInv'
  <1> DEFINE k == Len(stack)
             Good(c, shown) ==
               /\ scopes'[c.scope].rendered
               /\ \A x \in Range(c.old) \cup Range(c.next):
                     x \in Live' /\ scopes'[x].parent = c.scope
               /\ c.left \subseteq DOMAIN c.old
               /\ Len(c.next) <= Len(shown)
               /\ \A m \in 1..Len(c.next): /\ scopes'[c.next[m]].type = shown[m].type
                                            /\ scopes'[c.next[m]].key = shown[m].key
               /\ Len(c.next) + Len(c.parts) = Len(shown)
               /\ \A m \in 1..Len(c.parts): c.parts[m] = shown[Len(c.next) + m]
             Was(c, shown) ==
               /\ scopes[c.scope].rendered
               /\ \A x \in Range(c.old) \cup Range(c.next): x \in Live /\ scopes[x].parent = c.scope
               /\ c.left \subseteq DOMAIN c.old
               /\ Len(c.next) <= Len(shown)
               /\ \A m \in 1..Len(c.next): /\ scopes[c.next[m]].type = shown[m].type
                                            /\ scopes[c.next[m]].key = shown[m].key
               /\ Len(c.next) + Len(c.parts) = Len(shown)
               /\ \A m \in 1..Len(c.parts): c.parts[m] = shown[Len(c.next) + m]
             Goal(n) == Good(stack'[n], Produced(stack[n].scope))
  <1>1. /\ DOMAIN stack = 1..k /\ k \in DOMAIN stack
        /\ DOMAIN stack' = DOMAIN stack
        /\ \A n \in 1..(k - 1): stack'[n] = stack[n]
        /\ \A n \in DOMAIN stack: stack'[n].scope = stack[n].scope
        /\ stack'[k].parts = Tail(Top.parts) /\ stack'[k].next = Append(Top.next, id)
        /\ stack'[k].old = Top.old /\ stack'[k].left \subseteq Top.left
    BY ClaimFacts
  <1>2. \A n \in DOMAIN stack: stack[n].scope \in Live /\ stack[n] \in CursorSet
    BY DEF StackInv, Expanding
  <1>3. \A x \in Live: Produced(x)' = Produced(x)
    BY DEF Produced, PartsOf
  <1>4. ASSUME NEW n \in DOMAIN stack
        PROVE  Was(stack[n], Produced(stack[n].scope))
    BY DEF CursorInv, Follows, Children
  <1>5. ASSUME NEW n \in 1..(k - 1)
        PROVE  Goal(n)
    <2>1. n \in DOMAIN stack /\ stack'[n] = stack[n]
      BY <1>1
    <2>2. PICK c, shown: c = stack[n] /\ c = stack'[n] /\ shown = Produced(stack[n].scope)
      BY <2>1
    <2>3. Was(c, shown)
      <3> HIDE DEF Was
      <3> QED BY <1>4, <2>1, <2>2
    <2>4. c.scope \in Live /\ c.next \in Seq(ScopeId)
      BY <1>2, <2>1, <2>2 DEF CursorSet
    <2>5. \A m \in 1..Len(c.next): c.next[m] \in Range(c.next)
      BY <2>4 DEF Range
    <2>6. \A m \in 1..Len(c.next): /\ scopes'[c.next[m]].type = shown[m].type
                                   /\ scopes'[c.next[m]].key = shown[m].key
      BY <2>3, <2>5
    <2>7. /\ scopes'[c.scope].rendered
          /\ \A x \in Range(c.old) \cup Range(c.next): x \in Live' /\ scopes'[x].parent = c.scope
      BY <2>3, <2>4
    <2>8. Good(c, shown)
      BY <2>3, <2>6, <2>7
    <2> HIDE DEF Good
    <2> QED BY <2>2, <2>8
  <1>6. Goal(k)
    <2> DEFINE shown == Produced(Top.scope)
               m0 == Len(Top.next)
    <2>1. /\ Top.next \in Seq(ScopeId) /\ Top.parts \in Seq(PartSet) /\ Top.parts # <<>>
          /\ Top.scope \in Live /\ Top = stack[k]
      BY TopOf DEF Top
    <2>2. /\ scopes[Top.scope].rendered
          /\ \A x \in Range(Top.old) \cup Range(Top.next):
                x \in Live /\ scopes[x].parent = Top.scope
          /\ Top.left \subseteq DOMAIN Top.old
          /\ \A m \in 1..m0: /\ scopes[Top.next[m]].type = shown[m].type
                             /\ scopes[Top.next[m]].key = shown[m].key
          /\ m0 + Len(Top.parts) = Len(shown)
          /\ \A m \in 1..Len(Top.parts): Top.parts[m] = shown[m0 + m]
      BY <1>1, <1>4, <2>1
    <2> HIDE DEF shown
    <2>3. /\ Len(stack'[k].next) = m0 + 1 /\ stack'[k].next[m0 + 1] = id
          /\ \A m \in 1..m0: stack'[k].next[m] = Top.next[m] /\ Top.next[m] \in Range(Top.next)
      BY <1>1, <2>1, Appended DEF Range
    <2>4. /\ Len(stack'[k].parts) = Len(Top.parts) - 1
          /\ \A m \in 1..(Len(Top.parts) - 1): stack'[k].parts[m] = Top.parts[m + 1]
      BY <1>1, <2>1
    <2>5. Range(stack'[k].next) = Range(Top.next) \cup {id}
      BY <1>1, <2>1, RangeOfAppend
    <2>6. m0 \in Nat /\ Len(Top.parts) \in Nat \ {0}
      BY <2>1
    <2>7. m0 + Len(Top.parts) = Len(shown)
      BY <2>2
    <2> HIDE DEF m0, k, Goal
    <2>8. Top.parts[1] = shown[m0 + 1]
      <3>1. 1 \in 1..Len(Top.parts)
        BY <2>6
      <3> QED BY <3>1, <2>2
    <2>9. ASSUME NEW m \in 1..(m0 + 1)
          PROVE  /\ scopes'[stack'[k].next[m]].type = shown[m].type
                 /\ scopes'[stack'[k].next[m]].key = shown[m].key
      <3>1. CASE m = m0 + 1
        BY <3>1, <2>3, <2>8
      <3>2. CASE m \in 1..m0
        <4>1. stack'[k].next[m] = Top.next[m] /\ Top.next[m] \in Live
          BY <3>2, <2>2, <2>3
        <4>2. scopes[Top.next[m]].type = shown[m].type /\ scopes[Top.next[m]].key = shown[m].key
          BY <3>2, <2>2
        <4> QED BY <4>1, <4>2
      <3> QED BY <3>1, <3>2, <2>6
    <2>10. ASSUME NEW m \in 1..Len(stack'[k].parts)
           PROVE  stack'[k].parts[m] = shown[m0 + 1 + m]
      <3>1. m + 1 \in 1..Len(Top.parts) /\ m \in 1..(Len(Top.parts) - 1)
        BY <2>4, <2>6
      <3>2. Top.parts[m + 1] = shown[m0 + (m + 1)]
        BY <3>1, <2>2
      <3>3. m0 + (m + 1) = m0 + 1 + m
        BY <3>1, <2>6
      <3> QED BY <3>1, <3>2, <3>3, <2>4
    <2>11. /\ Len(stack'[k].next) + Len(stack'[k].parts) = Len(shown)
           /\ Len(stack'[k].next) <= Len(shown)
      BY <2>3, <2>4, <2>6, <2>7
    <2>12. \A x \in Range(stack'[k].old) \cup Range(stack'[k].next):
              x \in Live' /\ scopes'[x].parent = stack'[k].scope
      BY <1>1, <2>1, <2>2, <2>5
    <2>13. /\ scopes'[stack'[k].scope].rendered
           /\ stack'[k].left \subseteq DOMAIN stack'[k].old
           /\ shown = Produced(stack[k].scope)
      BY <1>1, <2>1, <2>2 DEF shown
    <2>14. \A m \in 1..Len(stack'[k].next):
              /\ scopes'[stack'[k].next[m]].type = Produced(stack[k].scope)[m].type
              /\ scopes'[stack'[k].next[m]].key = Produced(stack[k].scope)[m].key
      BY <2>3, <2>9, <2>13
    <2>15. \A m \in 1..Len(stack'[k].parts):
              stack'[k].parts[m] = Produced(stack[k].scope)[Len(stack'[k].next) + m]
      BY <2>3, <2>10, <2>13
    <2> QED BY <2>11, <2>12, <2>13, <2>14, <2>15 DEF Goal, Good
  <1> HIDE DEF Goal
  <1>7. ASSUME NEW n \in DOMAIN stack
        PROVE  Goal(n)
    <2>1. n \in 1..(k - 1) \/ n = k
      BY <1>1
    <2> QED BY <2>1, <1>5, <1>6
  <1>8. \A n \in DOMAIN stack': Produced(stack[n].scope) = PartsOf(
            scopes'[stack'[n].scope].type, scopes'[stack'[n].scope].produced.value)
    BY <1>1, <1>2 DEF Produced
  <1> HIDE DEF Good
  <1>9. ASSUME NEW n \in DOMAIN stack'
        PROVE  LET cursor == stack'[n]
                   shown == PartsOf(scopes'[cursor.scope].type, scopes'[cursor.scope].produced.value)
               IN  /\ scopes'[cursor.scope].rendered
                   /\ Range(cursor.old) \cup Range(cursor.next)
                         \subseteq {x \in Live': scopes'[x].parent = cursor.scope}
                   /\ cursor.left \subseteq DOMAIN cursor.old
                   /\ Len(cursor.next) <= Len(shown)
                   /\ \A m \in 1..Len(cursor.next):
                         /\ scopes'[cursor.next[m]].type = shown[m].type
                         /\ scopes'[cursor.next[m]].key = shown[m].key
                   /\ Len(cursor.next) + Len(cursor.parts) = Len(shown)
                   /\ \A m \in 1..Len(cursor.parts):
                         cursor.parts[m] = shown[Len(cursor.next) + m]
    <2>1. Goal(n)
      BY <1>1, <1>7
    <2> QED BY <2>1, <1>8 DEF Goal, Good
  <1> QED BY <1>9 DEF CursorInv, Follows, Produced, Children

\* A scope that keeps its children has the shape it had.
LEMMA FollowsKept ==
    ASSUME NEW x, scopes[x].children \in Seq(ScopeId),
           Range(scopes[x].children) = Children(x),
           scopes'[x].children = scopes[x].children, scopes'[x].type = scopes[x].type,
           scopes'[x].produced = scopes[x].produced,
           \A y \in Children(x): scopes'[y].type = scopes[y].type /\ scopes'[y].key = scopes[y].key,
           Len(scopes[x].children) = Len(Produced(x)), Follows(scopes[x].children, Produced(x))
    PROVE  /\ Len(scopes'[x].children) = Len(Produced(x)')
           /\ Follows(scopes[x].children, Produced(x))'
  <1>1. Produced(x)' = Produced(x)
    BY DEF Produced, PartsOf
  <1>2. \A n \in 1..Len(scopes[x].children): scopes[x].children[n] \in Children(x)
    BY DEF Range
  <1>3. ASSUME NEW n \in 1..Len(scopes[x].children)
        PROVE  /\ scopes'[scopes[x].children[n]].type = Produced(x)[n].type
               /\ scopes'[scopes[x].children[n]].key = Produced(x)[n].key
    <2>1. /\ scopes[scopes[x].children[n]].type = Produced(x)[n].type
          /\ scopes[scopes[x].children[n]].key = Produced(x)[n].key
      BY DEF Follows
    <2>2. scopes[x].children[n] \in Children(x)
      BY <1>2
    <2> QED BY <2>1, <2>2
  <1>4. Len(scopes[x].children) <= Len(Produced(x))
    BY DEF Follows
  <1> HIDE DEF Produced
  <1> QED BY <1>1, <1>3, <1>4 DEF Follows

\* A step that makes and removes no scope, runs none, and changes no children.
SameTree ==
    /\ Live' = Live
    /\ \A x \in Live: /\ \A field \in Fields \ {"dirty", "props"}:
                            scopes'[x][field] = scopes[x][field]
                      /\ scopes[x].dirty => scopes'[x].dirty

\* Such a step keeps the tree and its shape.
LEMMA TreeStep ==
    ASSUME WalkInv, SameTree, StackInv', CursorInv', StatesInv', Expanding' = Expanding,
           \A x \in Live: ~scopes[x].rendered => x = entering' \/ (x = root /\ rounds' = 0)
    PROVE  WalkInv'
  <1>1. \A x \in Live: /\ scopes'[x].type = scopes[x].type /\ scopes'[x].key = scopes[x].key
                       /\ scopes'[x].parent = scopes[x].parent
                       /\ scopes'[x].above = scopes[x].above
                       /\ scopes'[x].children = scopes[x].children
                       /\ scopes'[x].rendered = scopes[x].rendered
                       /\ scopes'[x].produced = scopes[x].produced
                       /\ scopes[x].dirty => scopes'[x].dirty
    BY DEF SameTree, Fields
  <1>2. Live' = Live
    BY DEF SameTree
  <1>3. TreeInv' /\ \A x: Children(x)' = Children(x)
    BY <1>1, <1>2, TreeKept DEF WalkInv
  <1>4. ChildrenInv'
    BY <1>1, <1>2, <1>3 DEF WalkInv, ChildrenInv
  <1>5. ShapeInv'
    <2>1. ASSUME NEW x \in Live, scopes[x].rendered, x \notin Expanding
          PROVE  /\ Len(scopes'[x].children) = Len(Produced(x)')
                 /\ Follows(scopes[x].children, Produced(x))'
      <3>1. /\ scopes[x].children \in Seq(ScopeId) /\ Range(scopes[x].children) = Children(x)
            /\ Len(scopes[x].children) = Len(Produced(x))
            /\ Follows(scopes[x].children, Produced(x))
        BY <2>1 DEF WalkInv, ChildrenInv, ShapeInv
      <3>2. \A y \in Children(x): scopes'[y].type = scopes[y].type /\ scopes'[y].key = scopes[y].key
        BY <1>1 DEF Children
      <3> QED BY <3>1, <3>2, <1>1, FollowsKept
    <2>2. \A x \in Live: scopes[x].type \in Types /\
             (~scopes[x].rendered => scopes[x].dirty /\ scopes[x].children = <<>>)
      BY DEF WalkInv, ShapeInv
    <2> QED BY <2>1, <2>2, <1>1, <1>2 DEF ShapeInv
  <1> QED BY <1>3, <1>4, <1>5 DEF WalkInv

\* The cursors are as they were when no part was gone on with.
LEMMA CursorsKept ==
    ASSUME WalkInv, SameTree, UNCHANGED stack
    PROVE  CursorInv' /\ Expanding' = Expanding
  <1>1. \A x \in Live: /\ scopes'[x].type = scopes[x].type /\ scopes'[x].key = scopes[x].key
                       /\ scopes'[x].parent = scopes[x].parent
                       /\ scopes'[x].rendered = scopes[x].rendered
                       /\ scopes'[x].produced = scopes[x].produced
    BY DEF SameTree, Fields
  <1>2. Live' = Live /\ Expanding' = Expanding
    BY DEF SameTree, Expanding
  <1>3. \A x: Children(x)' = Children(x)
    BY <1>1, <1>2 DEF Children
  <1>4. \A x \in Live: Produced(x)' = Produced(x)
    BY <1>1 DEF Produced, PartsOf
  <1>5. ASSUME NEW n \in DOMAIN stack
        PROVE  /\ stack[n].scope \in Live /\ stack[n].next \in Seq(ScopeId)
               /\ \A m \in 1..Len(stack[n].next): stack[n].next[m] \in Live
    <2>1. stack[n].scope \in Live /\ stack[n] \in CursorSet
      BY DEF WalkInv, StackInv, Expanding
    <2>2. stack[n].next \in Seq(ScopeId)
      BY <2>1 DEF CursorSet
    <2>3. \A m \in 1..Len(stack[n].next): stack[n].next[m] \in Range(stack[n].next)
      BY <2>2 DEF Range
    <2>4. Range(stack[n].next) \subseteq Live
      BY DEF WalkInv, CursorInv, Children
    <2> QED BY <2>1, <2>2, <2>3, <2>4
  <1>6. ASSUME NEW n \in DOMAIN stack
        PROVE  Follows(stack[n].next, Produced(stack[n].scope))'
    <2>1. Follows(stack[n].next, Produced(stack[n].scope))
      BY DEF WalkInv, CursorInv
    <2>2. \A m \in 1..Len(stack[n].next):
             /\ scopes'[stack[n].next[m]].type = scopes[stack[n].next[m]].type
             /\ scopes'[stack[n].next[m]].key = scopes[stack[n].next[m]].key
      BY <1>1, <1>5
    <2>3. Produced(stack[n].scope)' = Produced(stack[n].scope)
      BY <1>4, <1>5
    <2> QED BY <2>1, <2>2, <2>3 DEF Follows
  <1>7. CursorInv'
    <2> SUFFICES ASSUME NEW n \in DOMAIN stack
                 PROVE  /\ scopes'[stack[n].scope].rendered
                        /\ Range(stack[n].old) \cup Range(stack[n].next)
                              \subseteq Children(stack[n].scope)'
                        /\ stack[n].left \subseteq DOMAIN stack[n].old
                        /\ Follows(stack[n].next, Produced(stack[n].scope))'
                        /\ Len(stack[n].next) + Len(stack[n].parts) = Len(Produced(stack[n].scope)')
                        /\ \A m \in 1..Len(stack[n].parts):
                              stack[n].parts[m] = Produced(stack[n].scope)'[Len(stack[n].next) + m]
      BY DEF CursorInv
    <2>1. /\ scopes[stack[n].scope].rendered
          /\ Range(stack[n].old) \cup Range(stack[n].next) \subseteq Children(stack[n].scope)
          /\ stack[n].left \subseteq DOMAIN stack[n].old
          /\ Len(stack[n].next) + Len(stack[n].parts) = Len(Produced(stack[n].scope))
          /\ \A m \in 1..Len(stack[n].parts):
                stack[n].parts[m] = Produced(stack[n].scope)[Len(stack[n].next) + m]
      BY DEF WalkInv, CursorInv
    <2>2. Produced(stack[n].scope)' = Produced(stack[n].scope) /\ stack[n].scope \in Live
      BY <1>4, <1>5
    <2>3. Children(stack[n].scope)' = Children(stack[n].scope)
      BY <1>3
    <2>4. scopes'[stack[n].scope].rendered
      BY <2>1, <2>2, <1>1
    <2> QED BY <2>1, <2>2, <2>3, <2>4, <1>6
  <1> QED BY <1>2, <1>7

\* A step that goes on with no part.
LEMMA QuietWalk ==
    ASSUME WalkInv, SameTree, StatesInv', UNCHANGED stack,
           entering' # None => entering' \in {entering, root} \cap Live,
           entering' = root /\ entering' # entering => stack = <<>>,
           at' # "frame" => stack = <<>> /\ entering' = None,
           \A x \in Live: ~scopes[x].rendered => x = entering' \/ (x = root /\ rounds' = 0)
    PROVE  WalkInv'
  <1>1. CursorInv' /\ Expanding' = Expanding
    BY CursorsKept
  <1>2. \A x \in Live: /\ scopes'[x].parent = scopes[x].parent
                       /\ scopes'[x].above = scopes[x].above
    BY DEF SameTree, Fields
  <1>3. Live' = Live
    BY DEF SameTree
  <1>4. StackInv'
    <2>1. \A n \in DOMAIN stack: stack[n].scope \in Live
      BY DEF WalkInv, StackInv, Expanding
    <2>2. ASSUME NEW n \in DOMAIN stack
          PROVE  /\ scopes'[stack[n].scope].above = {stack[m].scope: m \in 1..(n - 1)}
                 /\ n > 1 => scopes'[stack[n].scope].parent = stack[n - 1].scope
      BY <1>2, <2>1 DEF WalkInv, StackInv, Above
    <2>3. entering' # None =>
            /\ entering' \in Live
            /\ IF stack = <<>> THEN entering' = root
               ELSE scopes'[entering'].parent = stack[Len(stack)].scope
      BY <1>2 DEF WalkInv, StackInv
    <2>4. stack \in Seq(CursorSet) /\ Expanding \subseteq Live
          /\ (stack # <<>> => stack[1].scope = root)
      BY DEF WalkInv, StackInv
    <2>5. stack' = stack /\ Expanding' \subseteq Live'
      BY <1>1, <1>3, <2>4
    <2>6. \A n \in DOMAIN stack: Above(stack[n].scope)' = {stack[m].scope: m \in 1..(n - 1)}
      BY <2>2, <2>5 DEF Above
    <2>7. \A n \in DOMAIN stack': /\ Above(stack[n].scope)' = {stack'[m].scope: m \in 1..(n - 1)}
                                  /\ n > 1 => scopes'[stack'[n].scope].parent = stack'[n - 1].scope
      BY <2>2, <2>5, <2>6
    <2>8. entering' # None =>
            /\ entering' \in Live'
            /\ IF stack' = <<>> THEN entering' = root
               ELSE scopes'[entering'].parent = stack'[Len(stack')].scope
      BY <2>3, <2>5, <1>3
    <2> QED BY <2>4, <2>5, <2>7, <2>8 DEF StackInv
  <1> QED BY <1>1, <1>4, TreeStep

\* States that are not written are what they were.
LEMMA StatesKept ==
    ASSUME WalkInv, SameTree, UNCHANGED states, at' = "frame" => at = "frame"
    PROVE  StatesInv'
  BY DEF WalkInv, SameTree, StatesInv, Fields

\* A component that does not ask writes one of the values.
LEMMA StatesWritten ==
    ASSUME WalkInv, SameTree, at' # "frame", NEW id \in Live, NEW v,
           states' = [states EXCEPT ![id].pending = {v}],
           scopes[id].type \in Asking \/ v \in Values
    PROVE  StatesInv'
  <1>1. \A x \in Live: /\ states'[x].value = states[x].value
                       /\ x # id => states'[x].pending = states[x].pending
                       /\ x = id => states'[x].pending = {v} \/ states'[x].pending = states[x].pending
    BY DEF WalkInv, StatesInv
  <1>2. DOMAIN states' = Live /\ Live' = Live
    BY DEF WalkInv, StatesInv, SameTree
  <1>3. \A x \in Live: /\ scopes'[x].type = scopes[x].type
                       /\ scopes'[x].rendered = scopes[x].rendered
                       /\ scopes'[x].produced = scopes[x].produced
    BY DEF SameTree, Fields
  <1>4. ASSUME NEW x \in Live
        PROVE  /\ scopes'[x].type \notin Asking =>
                     /\ states'[x].value \in Values /\ states'[x].pending \subseteq Values
                     /\ scopes'[x].rendered => scopes'[x].produced.value \in Values
               /\ states'[x].pending # {} => \E w \in states'[x].pending: states'[x].pending = {w}
    <2>1. /\ scopes[x].type \notin Asking =>
                /\ states[x].value \in Values /\ states[x].pending \subseteq Values
                /\ scopes[x].rendered => scopes[x].produced.value \in Values
          /\ states[x].pending # {} => \E w \in states[x].pending: states[x].pending = {w}
      BY DEF WalkInv, StatesInv
    <2>2. CASE x # id
      BY <2>1, <2>2, <1>1, <1>3
    <2>3. CASE x = id
      BY <2>1, <2>3, <1>1, <1>3
    <2> QED BY <2>2, <2>3
  <1> QED BY <1>2, <1>4 DEF StatesInv

\* Marking keeps the tree.
LEMMA MarkTree == ASSUME FirstInv, NEW ids, Mark(ids) PROVE SameTree
  <1> DEFINE to == UNION {MarkPath(Dirty, id): id \in ids}
  <1>1. scopes' = Flagged(scopes, to) /\ Live' = Live
    BY MarkKeepsLive DEF Mark
  <1> HIDE DEF to
  <1>2. ASSUME NEW id \in Live
        PROVE  /\ \A field \in Fields \ {"dirty"}: scopes'[id][field] = scopes[id][field]
               /\ scopes'[id].dirty = (scopes[id].dirty \/ id \in to)
    <2>1. id \in DOMAIN scopes /\ DOMAIN scopes[id] = Fields
      BY DEF FirstInv, Live
    <2>2. /\ \A field \in Fields \ {"dirty"}: Flagged(scopes, to)[id][field] = scopes[id][field]
          /\ Flagged(scopes, to)[id].dirty = (scopes[id].dirty \/ id \in to)
      BY <2>1, FlaggedRenders
    <2> QED BY <1>1, <2>2
  <1> QED BY <1>1, <1>2 DEF SameTree

\* So does leaving the scopes alone.
LEMMA StillTree == ASSUME UNCHANGED scopes PROVE SameTree
  BY DEF SameTree, Live

\* Going on with an old child.
LEMMA KeepWalk == ASSUME IInv, EffectsInv, WalkInv, Keep PROVE WalkInv'
  <1>1. PICK id \in Live:
              /\ stack # <<>> /\ Last(stack).parts # <<>> /\ at = "frame" /\ entering = None
              /\ id \in Children(Top.scope)
              /\ scopes[id].type = Top.parts[1].type /\ scopes[id].key = Top.parts[1].key
              /\ Live' = Live
              /\ \A x \in Live: \A field \in Fields \ {"dirty", "props"}:
                    scopes'[x][field] = scopes[x][field]
              /\ \A x \in Live \ {id}: scopes'[x] = scopes[x]
              /\ scopes[id].dirty => scopes'[id].dirty
              /\ Claim(Last(stack), id)
              /\ UNCHANGED <<states, at, rounds>>
    BY KeepFacts
  <1>2. SameTree
    BY <1>1 DEF SameTree
  <1>3. \A x \in Live: /\ scopes'[x].parent = scopes[x].parent
                       /\ scopes'[x].above = scopes[x].above
                       /\ scopes'[x].type = scopes[x].type
                       /\ scopes'[x].key = scopes[x].key
                       /\ scopes'[x].rendered = scopes[x].rendered
                       /\ scopes'[x].produced = scopes[x].produced
    BY <1>2 DEF SameTree, Fields
  <1>4. id \in ScopeId /\ scopes[id].parent = Top.scope
    BY <1>1 DEF IInv, HandlesInv, SlabInv, Children
  <1>5. StackInv'
    BY <1>1, <1>3, <1>4, ClaimStack DEF WalkInv
  <1>6. CursorInv'
    BY <1>1, <1>3, <1>4, ClaimCursors DEF WalkInv
  <1>7. Expanding' = Expanding
    BY <1>1, <1>4, ClaimFacts DEF WalkInv
  <1>8. StatesInv'
    BY <1>1, <1>2, StatesKept
  <1>9. \A x \in Live: ~scopes[x].rendered => x = entering' \/ (x = root /\ rounds' = 0)
    BY <1>1 DEF WalkInv, ShapeInv, TreeInv
  <1> QED BY <1>2, <1>5, <1>6, <1>7, <1>8, <1>9, TreeStep

\* A scope that is clean has run before.
LEMMA ReuseWalk == ASSUME WalkInv, Reuse PROVE WalkInv'
  <1>1. /\ UNCHANGED <<scopes, states, stack, at, rounds>> /\ at = "frame"
        /\ entering' = None /\ entering \notin Dirty
    BY DEF Reuse, treeVars
  <1>2. SameTree
    BY <1>1, StillTree
  <1>3. StatesInv'
    BY <1>1, <1>2, StatesKept
  <1>4. None # root
    BY DEF WalkInv, TreeInv
  <1>5. \A x \in Live: ~scopes[x].rendered => x = entering' \/ (x = root /\ rounds' = 0)
    BY <1>1 DEF WalkInv, ShapeInv, Dirty
  <1> QED BY <1>1, <1>2, <1>3, <1>4, <1>5, QuietWalk

\* A round takes up what is pending and enters the root.
LEMMA StartRoundWalk ==
    ASSUME WalkInv, at # "frame", NEW round, NEW drawing, StartRound(round, drawing)
    PROVE  WalkInv'
  <1>1. /\ UNCHANGED <<scopes, stack>> /\ at' = "frame" /\ entering' = root
        /\ stack = <<>> /\ entering = None
    BY DEF StartRound, WalkInv, StackInv
  <1>2. SameTree
    BY <1>1, StillTree
  <1>3. ASSUME NEW x \in Live
        PROVE  /\ states'[x].pending = {}
               /\ states[x].pending = {} => states'[x].value = states[x].value
               /\ states[x].pending # {} => states'[x].value \in states[x].pending
    <2>1. states'[x] = [value |-> IF states[x].pending = {} THEN states[x].value
                                  ELSE CHOOSE v \in states[x].pending: TRUE,
                        pending |-> {}]
      BY DEF StartRound, WalkInv, StatesInv
    <2>2. states[x].pending # {} => (CHOOSE v \in states[x].pending: TRUE) \in states[x].pending
      OBVIOUS
    <2> QED BY <2>1, <2>2
  <1>4. StatesInv'
    <2>1. DOMAIN states' = Live' /\ Live' = Live
      BY <1>2 DEF StartRound, WalkInv, StatesInv, SameTree
    <2> QED BY <1>1, <1>3, <2>1 DEF WalkInv, StatesInv
  <1>5. \A x \in Live: ~scopes[x].rendered => x = entering' \/ (x = root /\ rounds' = 0)
    BY <1>1 DEF WalkInv, ShapeInv, TreeInv
  <1>6. root \in Live
    BY DEF WalkInv, TreeInv
  <1> QED BY <1>1, <1>2, <1>4, <1>5, <1>6, QuietWalk

\* A scope more, below one that is being expanded and above no other.
LEMMA MountTree ==
    ASSUME TreeInv, ChildrenInv, NEW id \in ScopeId \ Live, NEW s \in Live, Live' = Live \cup {id},
           \A x \in Live: scopes'[x].parent = scopes[x].parent /\ scopes'[x].above = scopes[x].above,
           \A x \in Live \ {s}: scopes'[x].children = scopes[x].children,
           scopes'[s].children = Append(scopes[s].children, id),
           scopes'[id].parent = s, scopes'[id].above = {s} \cup Above(s),
           scopes'[id].children = <<>>
    PROVE  TreeInv' /\ ChildrenInv'
  <1>1. None # id
    BY LoomAssumption
  <1>2. (\A x \in Live: Above(x)' = Above(x)) /\ Above(id)' = {s} \cup Above(s)
    BY DEF Above
  <1>3. TreeInv'
    <2>1. /\ root \in Live' /\ scopes'[root].parent = None /\ None \notin Live' /\ Above(root)' = {}
      BY <1>1, <1>2 DEF TreeInv
    <2>2. ASSUME NEW x \in Live \ {root}
          PROVE  /\ scopes'[x].parent \in Live'
                 /\ Above(x)' = {scopes'[x].parent} \cup Above(scopes[x].parent)'
                 /\ root \in Above(x)'
      <3>1. /\ scopes[x].parent \in Live
            /\ Above(x) = {scopes[x].parent} \cup Above(scopes[x].parent)
            /\ root \in Above(x)
        BY DEF TreeInv
      <3>2. scopes'[x].parent = scopes[x].parent
        OBVIOUS
      <3>3. /\ Above(x)' = Above(x)
            /\ scopes'[scopes'[x].parent].above = Above(scopes[x].parent)
        BY <3>1, <3>2, <1>2 DEF Above
      <3> QED BY <3>1, <3>2, <3>3 DEF Above
    <2>3. /\ scopes'[id].parent \in Live'
          /\ Above(id)' = {scopes'[id].parent} \cup Above(scopes[id].parent)'
          /\ root \in Above(id)'
      <3>1. root \in {s} \cup Above(s)
        BY DEF TreeInv
      <3>2. scopes'[s].above = Above(s)
        BY <1>2 DEF Above
      <3> QED BY <3>1, <3>2, <1>2 DEF Above
    <2>4. \A x \in Live': x \notin Above(x)' /\ Above(x)' \subseteq Live'
      BY <1>2 DEF TreeInv
    <2>5. \A x \in Live': \A a \in Above(x)': Above(a)' \subseteq Above(x)'
      BY <1>2 DEF TreeInv
    <2>6. \A x \in Live': \A a, b \in Above(x)': a = b \/ a \in Above(b)' \/ b \in Above(a)'
      BY <1>2 DEF TreeInv
    <2>7. ASSUME NEW x \in Live', NEW a \in Above(x)'
          PROVE  \E c \in Above(x)' \cup {x}: scopes'[c].parent = a
      <3>1. CASE x \in Live
        <4>1. PICK c \in Above(x) \cup {x}: scopes[c].parent = a
          BY <3>1, <1>2 DEF TreeInv
        <4>2. c \in Live
          BY <3>1, <4>1 DEF TreeInv
        <4> QED BY <3>1, <4>1, <4>2, <1>2
      <3>2. CASE x = id /\ a = s
        BY <3>2
      <3>3. CASE x = id /\ a \in Above(s)
        <4>1. PICK c \in Above(s) \cup {s}: scopes[c].parent = a
          BY <3>3 DEF TreeInv
        <4>2. c \in Live
          BY <4>1 DEF TreeInv
        <4> QED BY <3>3, <4>1, <4>2, <1>2
      <3> QED BY <3>1, <3>2, <3>3, <1>2
    <2> QED BY <2>1, <2>2, <2>3, <2>4, <2>5, <2>6, <2>7 DEF TreeInv
  <1>4. ASSUME NEW x \in Live, x # s
        PROVE  Children(x)' = Children(x)
    BY <1>4 DEF Children
  <1>5. Children(s)' = Children(s) \cup {id}
    BY DEF Children
  <1>6. Children(id)' = {}
    <2>1. \A y \in Live: scopes[y].parent # id
      BY <1>1 DEF TreeInv
    <2> QED BY <2>1 DEF Children
  <1>7. ChildrenInv'
    <2>1. ASSUME NEW x \in Live, x # s
          PROVE  /\ scopes'[x].children \in Seq(ScopeId)
                 /\ Range(scopes'[x].children) = Children(x)'
      BY <2>1, <1>4 DEF ChildrenInv
    <2>2. /\ scopes'[s].children \in Seq(ScopeId)
          /\ Range(scopes'[s].children) = Children(s)'
      <3>1. scopes[s].children \in Seq(ScopeId) /\ Range(scopes[s].children) = Children(s)
        BY DEF ChildrenInv
      <3> QED BY <3>1, <1>5, RangeOfAppend
    <2>3. /\ scopes'[id].children \in Seq(ScopeId)
          /\ Range(scopes'[id].children) = Children(id)'
      BY <1>6 DEF Range
    <2> QED BY <2>1, <2>2, <2>3 DEF ChildrenInv
  <1> QED BY <1>3, <1>7

\* A new scope is the next to run.
LEMMA MountWalk == ASSUME IInv, EffectsInv, WalkInv, Mount PROVE WalkInv'
  <1>1. PICK id \in ScopeId \ Live:
              /\ stack # <<>> /\ Last(stack).parts # <<>> /\ at = "frame" /\ entering = None
              /\ Live' = Live \cup {id} /\ Top.scope \in Live
              /\ \A x \in Live: \A field \in Fields \ {"children"}:
                    scopes'[x][field] = scopes[x][field]
              /\ \A x \in Live \ {Top.scope}: scopes'[x].children = scopes[x].children
              /\ scopes'[Top.scope].children = Append(scopes[Top.scope].children, id)
              /\ scopes'[id] = NewMounted(Top.parts[1], Top.scope,
                                          {Top.scope} \cup Above(Top.scope))
              /\ \A x \in Live: states'[x] = states[x]
              /\ DOMAIN states' = DOMAIN states \cup {id}
              /\ states'[id] = NewState(Top.parts[1].type)
              /\ Claim(Last(stack), id)
              /\ UNCHANGED <<at, rounds>>
    BY MountFacts
  <1>2. \A x \in Live: /\ scopes'[x].parent = scopes[x].parent
                       /\ scopes'[x].above = scopes[x].above
                       /\ scopes'[x].type = scopes[x].type
                       /\ scopes'[x].key = scopes[x].key
                       /\ scopes'[x].dirty = scopes[x].dirty
                       /\ scopes'[x].rendered = scopes[x].rendered
                       /\ scopes'[x].produced = scopes[x].produced
    BY <1>1 DEF Fields
  <1>3. PICK s \in Live: s = Top.scope
    BY <1>1
  <1>4. /\ scopes'[id].parent = s /\ scopes'[id].above = {s} \cup Above(s)
        /\ scopes'[id].children = <<>> /\ scopes'[id].dirty /\ ~scopes'[id].rendered
        /\ scopes'[id].type = Top.parts[1].type /\ scopes'[id].key = Top.parts[1].key
    BY <1>1, <1>3 DEF NewMounted
  <1>5. scopes'[id].type \in Types
    <2>1. Top.parts \in Seq(PartSet) /\ Top.parts # <<>>
      BY <1>1, TopOf DEF WalkInv
    <2>2. Top.parts[1] \in PartSet
      BY <2>1
    <2> QED BY <2>2, <1>4 DEF PartSet
  <1>6. TreeInv' /\ ChildrenInv'
    <2>1. /\ \A x \in Live: scopes'[x].parent = scopes[x].parent
                           /\ scopes'[x].above = scopes[x].above
          /\ \A x \in Live \ {s}: scopes'[x].children = scopes[x].children
          /\ scopes'[s].children = Append(scopes[s].children, id)
      BY <1>1, <1>2, <1>3
    <2>2. TreeInv /\ ChildrenInv /\ Live' = Live \cup {id}
      BY <1>1 DEF WalkInv
    <2> QED BY <2>1, <2>2, <1>4, MountTree
  <1>7. StackInv'
    BY <1>1, <1>2, <1>3, <1>4, ClaimStack DEF WalkInv
  <1>8. CursorInv'
    BY <1>1, <1>2, <1>3, <1>4, ClaimCursors DEF WalkInv
  <1>9. Expanding' = Expanding /\ entering' = id
    BY <1>1, ClaimFacts DEF WalkInv
  <1>10. s \in Expanding /\ scopes[s].rendered
    BY <1>1, <1>3, TopOf DEF WalkInv, CursorInv, Expanding, Top
  <1>11. ShapeInv'
    <2>1. ASSUME NEW x \in Live, ~scopes[x].rendered
          PROVE  scopes'[x].dirty /\ scopes'[x].children = <<>> /\ x = root /\ rounds' = 0
      BY <2>1, <1>1, <1>2, <1>3, <1>10 DEF WalkInv, ShapeInv, TreeInv
    <2>2. ASSUME NEW x \in Live, scopes[x].rendered, x \notin Expanding
          PROVE  /\ Len(scopes'[x].children) = Len(Produced(x)')
                 /\ Follows(scopes[x].children, Produced(x))'
      <3>1. /\ scopes[x].children \in Seq(ScopeId) /\ Range(scopes[x].children) = Children(x)
            /\ Len(scopes[x].children) = Len(Produced(x))
            /\ Follows(scopes[x].children, Produced(x))
        BY <2>2 DEF WalkInv, ChildrenInv, ShapeInv
      <3>2. \A y \in Children(x): scopes'[y].type = scopes[y].type /\ scopes'[y].key = scopes[y].key
        BY <1>2 DEF Children
      <3>3. scopes'[x].children = scopes[x].children
        BY <2>2, <1>1, <1>3, <1>10
      <3> QED BY <3>1, <3>2, <3>3, <1>2, FollowsKept
    <2>3. \A x \in Live: scopes'[x].type \in Types
      BY <1>2 DEF WalkInv, ShapeInv
    <2> QED BY <2>1, <2>2, <2>3, <1>1, <1>2, <1>4, <1>5, <1>9 DEF ShapeInv
  <1>12. StatesInv'
    <2>1. scopes'[id].type \notin Asking => states'[id].value \in Values
      BY <1>1, <1>4, <1>5, LoomAssumption DEF NewState
    <2>2. states'[id].pending = {}
      BY <1>1 DEF NewState
    <2>3. DOMAIN states' = Live'
      BY <1>1 DEF WalkInv, StatesInv
    <2> QED BY <2>1, <2>2, <2>3, <1>1, <1>2, <1>4 DEF WalkInv, StatesInv
  <1> QED BY <1>6, <1>7, <1>8, <1>11, <1>12 DEF WalkInv

\* What a component produces is parts.
LEMMA PartsOfType ==
    ASSUME NEW t \in Types, NEW v, t \in Asking \/ v \in Values
    PROVE  PartsOf(t, v) \in Seq(PartSet)
  <1> DEFINE shape == IF t \in Asking THEN None ELSE v
  <1>1. shape \in Values \cup {None}
    OBVIOUS
  <1> HIDE DEF shape
  <1>2. Parts[t][shape] \in Seq(Types)
    BY <1>1, LoomAssumption
  <1>3. ASSUME NEW n \in DOMAIN Parts[t][shape]
        PROVE  Part(Parts[t][shape][n], shape) \in PartSet
    <2>1. Parts[t][shape][n] \in Types
      BY <1>2
    <2> QED BY <2>1, <1>1 DEF Part, PartSet
  <1>4. PartsOf(t, v) = [n \in DOMAIN Parts[t][shape] |-> Part(Parts[t][shape][n], shape)]
    BY DEF PartsOf, shape
  <1>5. DOMAIN Parts[t][shape] = 1..Len(Parts[t][shape]) /\ Len(Parts[t][shape]) \in Nat
    BY <1>2
  <1> QED BY <1>3, <1>4, <1>5

\* The component that runs is the innermost of those being expanded.
LEMMA RenderStack ==
    ASSUME WalkInv, NEW me \in Live, me = entering, NEW new \in CursorSet, new.scope = me,
           stack' = Append(stack, new), entering' = None, at' = "frame", Live' = Live,
           \A x \in Live: scopes'[x].parent = scopes[x].parent /\ scopes'[x].above = scopes[x].above
    PROVE  /\ StackInv' /\ Expanding' = Expanding \cup {me} /\ me \notin Expanding
           /\ Above(me) = Expanding
           /\ DOMAIN stack' = 1..(Len(stack) + 1) /\ stack'[Len(stack) + 1] = new
           /\ \A n \in DOMAIN stack: stack'[n] = stack[n]
           /\ DOMAIN stack = 1..Len(stack) /\ Len(stack) \in Nat
  <1> DEFINE k == Len(stack)
  <1>1. /\ stack \in Seq(CursorSet) /\ DOMAIN stack = 1..k /\ k \in Nat
    BY DEF WalkInv, StackInv
  <1>2. me # None
    BY DEF WalkInv, TreeInv
  <1>3. IF stack = <<>> THEN me = root ELSE me \in Children(Top.scope)
    BY <1>2 DEF WalkInv, StackInv, Children, Top
  <1>4. Above(me) = Expanding /\ me \notin Expanding
    BY <1>3, AboveNext DEF WalkInv
  <1>5. /\ stack' \in Seq(CursorSet) /\ DOMAIN stack' = 1..(k + 1) /\ stack'[k + 1] = new
        /\ \A n \in 1..k: stack'[n] = stack[n]
        /\ Len(stack') = k + 1
    BY <1>1, Appended
  <1>6. Expanding' = Expanding \cup {me}
    <2>1. Expanding = {stack[n].scope: n \in 1..k}
      BY <1>1 DEF Expanding
    <2>2. Expanding' = {stack'[n].scope: n \in 1..(k + 1)}
      BY <1>5 DEF Expanding
    <2>3. \A n \in 1..(k + 1): n \in 1..k \/ n = k + 1
      BY <1>1
    <2>4. k + 1 \in 1..(k + 1) /\ \A n \in 1..k: n \in 1..(k + 1)
      BY <1>1
    <2> HIDE DEF k
    <2>5. ASSUME NEW n \in 1..(k + 1)
          PROVE  stack'[n].scope \in {stack[m].scope: m \in 1..k} \cup {me}
      BY <2>3, <1>5
    <2>6. ASSUME NEW n \in 1..k
          PROVE  stack[n].scope \in {stack'[m].scope: m \in 1..(k + 1)}
      BY <2>4, <1>5
    <2>7. me \in {stack'[m].scope: m \in 1..(k + 1)}
      BY <2>4, <1>5
    <2>8. Expanding' \subseteq Expanding \cup {me}
      BY <2>1, <2>2, <2>5
    <2>9. Expanding \cup {me} \subseteq Expanding'
      <3>1. me \in Expanding'
        BY <2>2, <2>7
      <3>2. ASSUME NEW x \in Expanding
            PROVE  x \in Expanding'
        <4>1. PICK n \in 1..k: x = stack[n].scope
          BY <2>1
        <4> QED BY <4>1, <2>2, <2>6
      <3> QED BY <3>1, <3>2
    <2> QED BY <2>8, <2>9
  <1>7. ASSUME NEW n \in 1..(k + 1)
        PROVE  /\ scopes'[stack'[n].scope].above = {stack'[m].scope: m \in 1..(n - 1)}
               /\ n > 1 => scopes'[stack'[n].scope].parent = stack'[n - 1].scope
    <2>1. \A m \in 1..(n - 1): m \in 1..k
      BY <1>1
    <2>2. {stack'[m].scope: m \in 1..(n - 1)} = {stack[m].scope: m \in 1..(n - 1)}
      BY <2>1, <1>5
    <2>3. CASE n \in 1..k
      <3>1. /\ Above(stack[n].scope) = {stack[m].scope: m \in 1..(n - 1)}
            /\ n > 1 => scopes[stack[n].scope].parent = stack[n - 1].scope
            /\ stack[n].scope \in Live
        BY <2>3, <1>1 DEF WalkInv, StackInv, Expanding
      <3>2. n > 1 => n - 1 \in 1..k
        BY <2>3, <1>1
      <3> QED BY <2>2, <2>3, <3>1, <3>2, <1>5 DEF Above
    <2>4. CASE n = k + 1
      <3>1. scopes'[me].above = {stack[m].scope: m \in 1..k}
        BY <1>1, <1>4 DEF Above, Expanding
      <3>2. n - 1 = k /\ stack'[n].scope = me
        BY <2>4, <1>1, <1>5
      <3>3. n > 1 => k \in 1..k /\ scopes'[me].parent = stack'[k].scope
        <4> SUFFICES ASSUME n > 1
                     PROVE  k \in 1..k /\ scopes'[me].parent = stack'[k].scope
          OBVIOUS
        <4>1. k \in 1..k /\ stack # <<>>
          BY <2>4, <1>1
        <4>2. scopes[me].parent = stack[k].scope
          BY <4>1, <1>2 DEF WalkInv, StackInv
        <4> QED BY <4>1, <4>2, <1>5
      <3> QED BY <2>2, <3>1, <3>2, <3>3
    <2>5. n \in 1..k \/ n = k + 1
      BY <1>1
    <2> QED BY <2>3, <2>4, <2>5
  <1>8. stack' # <<>> /\ stack'[1].scope = root
    <2>1. CASE stack = <<>>
      BY <2>1, <1>3, <1>5
    <2>2. CASE stack # <<>>
      BY <2>2, <1>1, <1>5 DEF WalkInv, StackInv
    <2> QED BY <2>1, <2>2
  <1>9. Expanding' \subseteq Live'
    BY <1>6 DEF WalkInv, StackInv
  <1>10. StackInv'
    BY <1>5, <1>7, <1>8, <1>9 DEF StackInv, Above
  <1> QED BY <1>1, <1>4, <1>5, <1>6, <1>10

\* A component runs, and starts to go on with its parts.
LEMMA RenderWalk == ASSUME EffectsInv, WalkInv, Render PROVE WalkInv'
  <1> DEFINE k == Len(stack)
  <1>1. PICK me: me = entering
    OBVIOUS
  <1>2. /\ me \in Live /\ Live' = Live /\ me \in Dirty
        /\ \A x \in Live: \A field \in Fields \ {"dirty", "rendered", "produced"}:
              scopes'[x][field] = scopes[x][field]
        /\ \A x \in Live \ {me}: /\ scopes'[x].rendered = scopes[x].rendered
                                 /\ scopes'[x].produced = scopes[x].produced
        /\ scopes'[me].rendered = TRUE
        /\ scopes'[me].produced = [props |-> scopes[me].props, value |-> states[me].value,
                                   seen |-> Seen(me)]
        /\ Dirty' = (Dirty \ {me}) \cup (RenderMarks(me) \cap Live)
    BY <1>1, RenderFacts
  <1>3. \A x \in Live: /\ scopes'[x].parent = scopes[x].parent
                       /\ scopes'[x].above = scopes[x].above
                       /\ scopes'[x].type = scopes[x].type
                       /\ scopes'[x].key = scopes[x].key
                       /\ scopes'[x].children = scopes[x].children
    BY <1>2 DEF Fields
  <1>4. scopes'[me].produced.value = states[me].value
    BY <1>2
  <1>5. PICK parts: parts = PartsOf(scopes[me].type, states[me].value)
    OBVIOUS
  <1>6. parts \in Seq(PartSet)
    <2>1. scopes[me].type \in Types /\ (scopes[me].type \in Asking \/ states[me].value \in Values)
      BY <1>2 DEF WalkInv, ShapeInv, StatesInv
    <2> QED BY <2>1, <1>5, PartsOfType
  <1>7. PICK new: new = Cursor(me, parts)
    OBVIOUS
  <1>8. scopes[me].children \in Seq(ScopeId) /\ Range(scopes[me].children) = Children(me)
    BY <1>2 DEF WalkInv, ChildrenInv
  <1>9. /\ new.scope = me /\ new.parts = parts /\ new.next = <<>>
        /\ new.old = scopes[me].children /\ new.left = DOMAIN scopes[me].children
    BY <1>7 DEF Cursor
  <1>10. new \in CursorSet
    <2>1. me \in ScopeId
      <3>1. CASE stack = <<>>
        BY <3>1, <1>1, <1>2 DEF WalkInv, StackInv, ScopeId, root, TreeInv
      <3>2. CASE stack # <<>>
        <4>1. me \in Children(Top.scope) /\ Top.scope \in Live
          BY <3>2, <1>1, <1>2, TopOf DEF WalkInv, StackInv, TreeInv, Children, Top
        <4>2. me \in Range(scopes[Top.scope].children)
          BY <4>1 DEF WalkInv, ChildrenInv
        <4>3. scopes[Top.scope].children \in Seq(ScopeId)
          BY <4>1 DEF WalkInv, ChildrenInv
        <4> QED BY <4>2, <4>3 DEF Range
      <3> QED BY <3>1, <3>2
    <2>2. DOMAIN scopes[me].children \subseteq Nat /\ <<>> \in Seq(ScopeId)
      BY <1>8
    <2> QED BY <2>1, <2>2, <1>6, <1>7, <1>8 DEF Cursor, CursorSet
  <1>11. /\ stack' = Append(stack, new) /\ entering' = None /\ at' = "frame"
         /\ UNCHANGED <<states, rounds>>
    BY <1>1, <1>5, <1>7 DEF Render
  <1>12. /\ StackInv' /\ Expanding' = Expanding \cup {me} /\ me \notin Expanding
         /\ DOMAIN stack' = 1..(k + 1) /\ stack'[k + 1] = new
         /\ \A n \in DOMAIN stack: stack'[n] = stack[n]
         /\ DOMAIN stack = 1..k /\ k \in Nat
    BY <1>1, <1>2, <1>3, <1>9, <1>10, <1>11, RenderStack
  <1>13. TreeInv' /\ \A x: Children(x)' = Children(x)
    BY <1>2, <1>3, TreeKept DEF WalkInv
  <1>14. ChildrenInv'
    BY <1>2, <1>3, <1>13 DEF WalkInv, ChildrenInv
  <1>15. ShapeInv'
    <2>1. ASSUME NEW x \in Live, x # me
          PROVE  ~scopes'[x].rendered => scopes'[x].dirty /\ scopes'[x].children = <<>>
                                         /\ x = root /\ rounds' = 0
      <3>1. ~scopes[x].rendered => x \in Dirty /\ scopes[x].children = <<>> /\ x = root /\ rounds = 0
        BY <2>1, <1>1 DEF WalkInv, ShapeInv, Dirty
      <3>2. x \in Dirty => x \in Dirty'
        BY <2>1, <1>2
      <3> QED BY <2>1, <3>1, <3>2, <1>2, <1>3, <1>11 DEF Dirty
    <2>2. ASSUME NEW x \in Live, x # me, scopes[x].rendered, x \notin Expanding
          PROVE  /\ Len(scopes'[x].children) = Len(Produced(x)')
                 /\ Follows(scopes[x].children, Produced(x))'
      <3>1. /\ scopes[x].children \in Seq(ScopeId) /\ Range(scopes[x].children) = Children(x)
            /\ Len(scopes[x].children) = Len(Produced(x))
            /\ Follows(scopes[x].children, Produced(x))
        BY <2>2 DEF WalkInv, ChildrenInv, ShapeInv
      <3>2. \A y \in Children(x): scopes'[y].type = scopes[y].type /\ scopes'[y].key = scopes[y].key
        BY <1>3 DEF Children
      <3>3. scopes'[x].children = scopes[x].children /\ scopes'[x].produced = scopes[x].produced
        BY <2>2, <1>2, <1>3
      <3> QED BY <3>1, <3>2, <3>3, <1>3, FollowsKept
    <2>3. \A x \in Live: scopes'[x].type \in Types
      BY <1>3 DEF WalkInv, ShapeInv
    <2> QED BY <2>1, <2>2, <2>3, <1>2, <1>12 DEF ShapeInv
  <1>16. StatesInv'
    <2>1. at = "frame" /\ \A x \in Live: states'[x] = states[x]
      BY <1>11 DEF Render
    <2>2. ASSUME NEW x \in Live, scopes[x].type \notin Asking, scopes'[x].rendered
          PROVE  scopes'[x].produced.value \in Values
      BY <2>2, <1>2, <1>4 DEF WalkInv, StatesInv
    <2> QED BY <2>1, <2>2, <1>2, <1>3, <1>11 DEF WalkInv, StatesInv
  <1>17. CursorInv'
    <2>1. \A x \in Live \ {me}: Produced(x)' = Produced(x)
      BY <1>2, <1>3 DEF Produced, PartsOf
    <2>2. Produced(me)' = parts
      BY <1>2, <1>3, <1>4, <1>5 DEF Produced, PartsOf
    <2>3. ASSUME NEW n \in DOMAIN stack
          PROVE  /\ scopes'[stack'[n].scope].rendered
                 /\ Range(stack'[n].old) \cup Range(stack'[n].next)
                       \subseteq Children(stack[n].scope)
                 /\ stack'[n].left \subseteq DOMAIN stack'[n].old
                 /\ Follows(stack[n].next, Produced(stack[n].scope))'
                 /\ Len(stack'[n].next) + Len(stack'[n].parts) = Len(Produced(stack[n].scope))
                 /\ \A m \in 1..Len(stack'[n].parts):
                       stack'[n].parts[m] = Produced(stack[n].scope)[Len(stack'[n].next) + m]
                 /\ Produced(stack[n].scope)' = Produced(stack[n].scope)
                 /\ Children(stack[n].scope)' = Children(stack[n].scope)
      <3>1. /\ scopes[stack[n].scope].rendered
            /\ Range(stack[n].old) \cup Range(stack[n].next) \subseteq Children(stack[n].scope)
            /\ stack[n].left \subseteq DOMAIN stack[n].old
            /\ Follows(stack[n].next, Produced(stack[n].scope))
            /\ Len(stack[n].next) + Len(stack[n].parts) = Len(Produced(stack[n].scope))
            /\ \A m \in 1..Len(stack[n].parts):
                  stack[n].parts[m] = Produced(stack[n].scope)[Len(stack[n].next) + m]
        BY DEF WalkInv, CursorInv
      <3>2. stack'[n] = stack[n] /\ stack[n].scope \in Live /\ stack[n].scope # me
            /\ stack[n] \in CursorSet
        BY <1>12 DEF WalkInv, StackInv, Expanding
      <3>3. Produced(stack[n].scope)' = Produced(stack[n].scope)
        <4>1. PICK x \in Live \ {me}: x = stack[n].scope /\ x = stack'[n].scope
          BY <3>2
        <4>2. Produced(x)' = Produced(x)
          BY <2>1
        <4> QED BY <4>1, <4>2 DEF Produced
      <3>4. Follows(stack[n].next, Produced(stack[n].scope))'
        <4>1. \A m \in 1..Len(stack[n].next): stack[n].next[m] \in Live
          <5>1. stack[n].next \in Seq(ScopeId)
            BY <3>2 DEF CursorSet
          <5>2. \A m \in 1..Len(stack[n].next): stack[n].next[m] \in Range(stack[n].next)
            BY <5>1 DEF Range
          <5> QED BY <5>2, <3>1 DEF Children
        <4>2. \A m \in 1..Len(stack[n].next):
                 /\ scopes'[stack[n].next[m]].type = scopes[stack[n].next[m]].type
                 /\ scopes'[stack[n].next[m]].key = scopes[stack[n].next[m]].key
          BY <4>1, <1>3
        <4>3. stack'[n].next = stack[n].next
          BY <3>2
        <4> HIDE DEF k
        <4> QED BY <4>2, <4>3, <3>1, <3>3 DEF Follows
      <3>5. Children(stack[n].scope)' = Children(stack[n].scope)
        <4>1. PICK x: x = stack[n].scope /\ x = stack'[n].scope
          BY <3>2
        <4> QED BY <4>1, <1>13 DEF Children
      <3>6. scopes'[stack'[n].scope].rendered
        BY <3>1, <3>2, <1>2
      <3> QED BY <3>1, <3>2, <3>3, <3>4, <3>5, <3>6
    <2>4. PICK n0: n0 = k + 1 /\ n0 \in Nat
      BY <1>12
    <2>5. /\ scopes'[stack'[n0].scope].rendered
          /\ Range(stack'[n0].old) \cup Range(stack'[n0].next) \subseteq Children(me)
          /\ stack'[n0].left \subseteq DOMAIN stack'[n0].old
          /\ Len(stack'[n0].next) + Len(stack'[n0].parts) = Len(parts)
          /\ \A m \in 1..Len(stack'[n0].parts):
                stack'[n0].parts[m] = parts[Len(stack'[n0].next) + m]
          /\ Len(stack'[n0].next) = 0 /\ Len(parts) \in Nat
          /\ stack'[n0].scope = me
      <3>1. stack'[n0] = new
        BY <2>4, <1>12
      <3>2. Range(new.next) = {} /\ Len(new.next) = 0
        BY <1>9 DEF Range
      <3> QED BY <3>1, <3>2, <1>2, <1>6, <1>8, <1>9
    <2>6. ASSUME NEW n \in DOMAIN stack'
          PROVE  n \in DOMAIN stack \/ n = n0
      BY <2>4, <1>12
    <2>7. Children(me)' = Children(me)
      BY <1>13
    <2>8. ASSUME NEW n \in DOMAIN stack'
          PROVE  LET cursor == stack'[n]
                     shown == PartsOf(scopes'[cursor.scope].type,
                                      scopes'[cursor.scope].produced.value)
                 IN  /\ scopes'[cursor.scope].rendered
                     /\ Range(cursor.old) \cup Range(cursor.next)
                           \subseteq {x \in Live': scopes'[x].parent = cursor.scope}
                     /\ cursor.left \subseteq DOMAIN cursor.old
                     /\ Len(cursor.next) <= Len(shown)
                     /\ \A m \in 1..Len(cursor.next):
                           /\ scopes'[cursor.next[m]].type = shown[m].type
                           /\ scopes'[cursor.next[m]].key = shown[m].key
                     /\ Len(cursor.next) + Len(cursor.parts) = Len(shown)
                     /\ \A m \in 1..Len(cursor.parts):
                           cursor.parts[m] = shown[Len(cursor.next) + m]
      <3>1. CASE n \in DOMAIN stack
        <4>1. stack'[n] = stack[n]
          BY <3>1, <1>12
        <4>2. PICK shown: shown = Produced(stack[n].scope)
          OBVIOUS
        <4>3. /\ scopes'[stack'[n].scope].rendered
              /\ Range(stack'[n].old) \cup Range(stack'[n].next) \subseteq Children(stack[n].scope)
              /\ stack'[n].left \subseteq DOMAIN stack'[n].old
              /\ Len(stack'[n].next) + Len(stack'[n].parts) = Len(shown)
              /\ \A m \in 1..Len(stack'[n].parts):
                    stack'[n].parts[m] = shown[Len(stack'[n].next) + m]
          BY <3>1, <4>2, <2>3
        <4>4. shown = PartsOf(scopes'[stack'[n].scope].type,
                              scopes'[stack'[n].scope].produced.value)
          BY <3>1, <4>2, <2>3 DEF Produced
        <4>5. Children(stack[n].scope) = {x \in Live': scopes'[x].parent = stack'[n].scope}
          BY <3>1, <2>3 DEF Children
        <4>6. Follows(stack[n].next, Produced(stack[n].scope))'
          BY <3>1, <2>3
        <4>7. /\ Len(stack'[n].next) <= Len(shown)
              /\ \A m \in 1..Len(stack'[n].next):
                    /\ scopes'[stack'[n].next[m]].type = shown[m].type
                    /\ scopes'[stack'[n].next[m]].key = shown[m].key
          BY <4>4, <4>6 DEF Follows, Produced
        <4> QED BY <4>3, <4>4, <4>5, <4>7
      <3>2. CASE n = n0
        <4>1. PartsOf(scopes'[me].type, scopes'[me].produced.value) = parts
          BY <2>2 DEF Produced
        <4>2. Children(me) = {x \in Live': scopes'[x].parent = me}
          BY <2>7 DEF Children
        <4>3. stack'[n] = stack'[n0]
          BY <3>2
        <4> QED BY <4>1, <4>2, <4>3, <2>5
      <3> QED BY <3>1, <3>2, <2>6
    <2> QED BY <2>8 DEF CursorInv, Follows, Produced, Children
  <1> QED BY <1>12, <1>13, <1>14, <1>15, <1>16, <1>17 DEF WalkInv

\* A component is done with its parts: what it did not go on with is removed.
LEMMA FinishWalk == ASSUME EffectsInv, WalkInv, Finish PROVE WalkInv'
  <1>1. /\ stack # <<>> /\ Top.parts = <<>> /\ at = "frame" /\ entering = None
        /\ Live' = Live \ Gone
        /\ \A x \in Live': \A field \in Fields \ {"children"}:
              scopes'[x][field] = scopes[x][field]
        /\ \A x \in Live' \ {Top.scope}: scopes'[x].children = scopes[x].children
        /\ scopes'[Top.scope].children = Top.next
        /\ DOMAIN states' = Live' /\ \A x \in Live': states'[x] = states[x]
        /\ stack' \in Seq(CursorSet) /\ Len(stack') = Len(stack) - 1
        /\ DOMAIN stack' = 1..(Len(stack) - 1)
        /\ \A n \in 1..(Len(stack) - 1): stack'[n] = stack[n]
        /\ Expanding' = Above(Top.scope) /\ Expanding = Above(Top.scope) \cup {Top.scope}
        /\ UNCHANGED <<at, entering, rounds>>
    BY FinishFacts
  <1>2. PICK top: top = Top
    OBVIOUS
  <1>3. PICK gone: gone = Gone
    OBVIOUS
  <1>4. /\ gone \subseteq Live /\ Live' = Live \ gone
        /\ \A x \in Live \ gone: Above(x) \cap gone = {}
        /\ Expanding \cap gone = {}
        /\ \A id \in Live \ gone: id # top.scope => Children(id) \cap gone = {}
        /\ Children(top.scope) \ gone = Range(top.next)
    BY <1>1, <1>2, <1>3, GoneFacts
  <1>5. /\ \A x \in Live': /\ scopes'[x].parent = scopes[x].parent
                           /\ scopes'[x].above = scopes[x].above
                           /\ scopes'[x].type = scopes[x].type
                           /\ scopes'[x].key = scopes[x].key
                           /\ scopes'[x].dirty = scopes[x].dirty
                           /\ scopes'[x].rendered = scopes[x].rendered
                           /\ scopes'[x].produced = scopes[x].produced
        /\ \A x \in Live': x # top.scope => scopes'[x].children = scopes[x].children
        /\ scopes'[top.scope].children = top.next
    BY <1>1, <1>2 DEF Fields
  <1>6. /\ top.scope \in Live /\ top.next \in Seq(ScopeId) /\ top.parts = <<>>
        /\ Len(stack) \in DOMAIN stack /\ DOMAIN stack = 1..Len(stack) /\ Len(stack) \in Nat
        /\ top = stack[Len(stack)]
    BY <1>1, <1>2, TopOf DEF WalkInv, Top
  <1>7. /\ top.scope \in Live' /\ top.scope \in Expanding /\ Expanding' \subseteq Live'
        /\ Expanding' \subseteq Expanding /\ top.scope \notin Expanding'
        /\ Expanding = Expanding' \cup {top.scope} /\ Expanding \subseteq Live
    BY <1>1, <1>2, <1>4, <1>6 DEF WalkInv, StackInv, TreeInv
  <1>8. root \in Live'
    <2>1. root \in Expanding
      BY <1>1, <1>6 DEF WalkInv, StackInv, Expanding
    <2> QED BY <2>1, <1>4, <1>7
  <1>9. \A x \in Live': Above(x)' = Above(x) /\ Above(x) \subseteq Live'
    BY <1>4, <1>5 DEF Above, WalkInv, TreeInv
  <1>10. TreeInv'
    <2>1. scopes'[root].parent = None /\ None \notin Live' /\ Above(root)' = {}
      BY <1>4, <1>5, <1>8, <1>9 DEF WalkInv, TreeInv
    <2>2. ASSUME NEW x \in Live' \ {root}
          PROVE  /\ scopes'[x].parent \in Live'
                 /\ Above(x)' = {scopes'[x].parent} \cup scopes'[scopes'[x].parent].above
                 /\ root \in Above(x)'
      <3>1. /\ Above(x) = {scopes[x].parent} \cup Above(scopes[x].parent)
            /\ root \in Above(x)
        BY <1>4 DEF WalkInv, TreeInv
      <3>2. scopes[x].parent \in Live'
        BY <3>1, <1>9
      <3>3. scopes'[scopes[x].parent].above = Above(scopes[x].parent)
        BY <3>2, <1>5 DEF Above
      <3> QED BY <3>1, <3>2, <3>3, <1>5, <1>9
    <2>3. \A x \in Live': x \notin Above(x)' /\ Above(x)' \subseteq Live'
      BY <1>4, <1>9 DEF WalkInv, TreeInv
    <2>4. \A x \in Live': \A a \in Above(x)': Above(a)' \subseteq Above(x)'
      BY <1>4, <1>9 DEF WalkInv, TreeInv
    <2>5. ASSUME NEW x \in Live'
          PROVE  \A a, b \in Above(x)': a = b \/ a \in Above(b)' \/ b \in Above(a)'
      <3>1. \A a, b \in Above(x): a = b \/ a \in Above(b) \/ b \in Above(a)
        BY <1>4 DEF WalkInv, TreeInv
      <3> QED BY <3>1, <1>9
    <2>6. ASSUME NEW x \in Live', NEW a \in Above(x)'
          PROVE  \E c \in Above(x)' \cup {x}: scopes'[c].parent = a
      <3>1. PICK c \in Above(x) \cup {x}: scopes[c].parent = a
        BY <1>4, <1>9 DEF WalkInv, TreeInv
      <3>2. c \in Live'
        BY <3>1, <1>9
      <3> QED BY <3>1, <3>2, <1>5, <1>9
    <2> QED BY <1>8, <2>1, <2>2, <2>3, <2>4, <2>5, <2>6 DEF TreeInv, Above
  <1>11. \A x \in Live': Children(x)' = Children(x) \ gone
    BY <1>4, <1>5 DEF Children
  <1>12. ChildrenInv'
    <2>1. ASSUME NEW x \in Live', x # top.scope
          PROVE  /\ scopes'[x].children \in Seq(ScopeId)
                 /\ Range(scopes'[x].children) = Children(x)'
      <3>1. Children(x)' = Children(x)
        BY <2>1, <1>4, <1>11
      <3>2. scopes[x].children \in Seq(ScopeId) /\ Range(scopes[x].children) = Children(x)
        BY <1>4 DEF WalkInv, ChildrenInv
      <3> QED BY <2>1, <3>1, <3>2, <1>5
    <2>2. Range(scopes'[top.scope].children) = Children(top.scope)'
      BY <1>4, <1>5, <1>7, <1>11
    <2> QED BY <2>1, <2>2, <1>5, <1>6 DEF ChildrenInv
  <1>13. StackInv'
    <2>1. ASSUME NEW n \in 1..(Len(stack) - 1)
          PROVE  /\ stack'[n] = stack[n] /\ n \in DOMAIN stack /\ stack[n].scope \in Live'
                 /\ scopes'[stack'[n].scope].above = {stack'[m].scope: m \in 1..(n - 1)}
                 /\ n > 1 => scopes'[stack'[n].scope].parent = stack'[n - 1].scope
      <3>1. stack'[n] = stack[n] /\ n \in DOMAIN stack
        BY <1>1, <1>6
      <3>2. stack[n].scope \in Live'
        BY <3>1, <1>4, <1>7 DEF Expanding
      <3>3. /\ scopes[stack[n].scope].above = {stack[m].scope: m \in 1..(n - 1)}
            /\ n > 1 => scopes[stack[n].scope].parent = stack[n - 1].scope
        BY <3>1 DEF WalkInv, StackInv, Above
      <3>4. \A m \in 1..(n - 1): m \in 1..(Len(stack) - 1)
        BY <1>6
      <3>5. {stack'[m].scope: m \in 1..(n - 1)} = {stack[m].scope: m \in 1..(n - 1)}
        <4>1. \A m \in 1..(n - 1): stack'[m] = stack[m]
          BY <3>4, <1>1
        <4> QED BY <4>1
      <3>6. n > 1 => stack'[n - 1] = stack[n - 1]
        <4>1. n > 1 => n - 1 \in 1..(Len(stack) - 1)
          BY <1>6
        <4> QED BY <4>1, <1>1
      <3>7. PICK x \in Live': x = stack[n].scope /\ x = stack'[n].scope
        BY <3>1, <3>2
      <3>8. scopes'[x].above = scopes[x].above /\ scopes'[x].parent = scopes[x].parent
        BY <1>5
      <3> QED BY <3>1, <3>2, <3>3, <3>5, <3>6, <3>7, <3>8
    <2>2. stack' # <<>> => stack'[1].scope = root
      <3> SUFFICES ASSUME stack' # <<>>
                   PROVE  stack'[1].scope = root
        OBVIOUS
      <3>1. 1 \in 1..(Len(stack) - 1)
        BY <1>1, <1>6
      <3> QED BY <3>1, <1>1 DEF WalkInv, StackInv
    <2> QED BY <2>1, <2>2, <1>1, <1>7 DEF StackInv, Above
  <1>14. \A x \in Live': Produced(x)' = Produced(x)
    BY <1>5 DEF Produced, PartsOf
  <1>15. ASSUME NEW ids \in Seq(ScopeId), NEW x \in Live', Range(ids) \subseteq Live',
                Follows(ids, Produced(x))
         PROVE  /\ Len(ids) <= Len(PartsOf(scopes'[x].type, scopes'[x].produced.value))
                /\ \A m \in 1..Len(ids):
                      LET part == PartsOf(scopes'[x].type, scopes'[x].produced.value)[m]
                      IN  scopes'[ids[m]].type = part.type /\ scopes'[ids[m]].key = part.key
    <2>1. PICK shown: shown = Produced(x)
      OBVIOUS
    <2>2. shown = PartsOf(scopes'[x].type, scopes'[x].produced.value)
      BY <2>1, <1>14 DEF Produced
    <2>3. \A m \in 1..Len(ids): ids[m] \in Live'
      BY <1>15 DEF Range
    <2>4. /\ Len(ids) <= Len(shown)
          /\ \A m \in 1..Len(ids): /\ scopes[ids[m]].type = shown[m].type
                                   /\ scopes[ids[m]].key = shown[m].key
      BY <1>15, <2>1 DEF Follows
    <2> QED BY <2>2, <2>3, <2>4, <1>5
  <1>16. CursorInv'
    <2> DEFINE Good(cursor) ==
          LET was == PartsOf(scopes'[cursor.scope].type, scopes'[cursor.scope].produced.value)
          IN  /\ scopes'[cursor.scope].rendered
              /\ Range(cursor.old) \cup Range(cursor.next)
                    \subseteq {x \in Live': scopes'[x].parent = cursor.scope}
              /\ cursor.left \subseteq DOMAIN cursor.old
              /\ Len(cursor.next) <= Len(was)
              /\ \A m \in 1..Len(cursor.next): /\ scopes'[cursor.next[m]].type = was[m].type
                                                /\ scopes'[cursor.next[m]].key = was[m].key
              /\ Len(cursor.next) + Len(cursor.parts) = Len(was)
              /\ \A m \in 1..Len(cursor.parts): cursor.parts[m] = was[Len(cursor.next) + m]
    <2>1. ASSUME NEW n \in DOMAIN stack'
          PROVE  Good(stack'[n])
      <3>1. PICK c: c = stack[n] /\ c = stack'[n]
        BY <1>1
      <3>2. n \in DOMAIN stack /\ c.scope \in Expanding'
        BY <3>1, <1>1, <1>6 DEF Expanding
      <3>3. c.scope \in Live' /\ c.scope # top.scope /\ c \in CursorSet /\ c.next \in Seq(ScopeId)
        <4>1. c \in CursorSet
          <5>1. stack \in Seq(CursorSet)
            BY DEF WalkInv, StackInv
          <5>2. stack[n] \in CursorSet
            BY <5>1, <3>2
          <5> QED BY <5>2, <3>1
        <4>2. c.next \in Seq(ScopeId)
          BY <4>1 DEF CursorSet
        <4> QED BY <4>1, <4>2, <3>2, <1>7
      <3>4. /\ scopes[c.scope].rendered
            /\ Range(c.old) \cup Range(c.next) \subseteq Children(c.scope)
            /\ c.left \subseteq DOMAIN c.old
            /\ Follows(c.next, Produced(c.scope))
            /\ Len(c.next) + Len(c.parts) = Len(Produced(c.scope))
            /\ \A m \in 1..Len(c.parts): c.parts[m] = Produced(c.scope)[Len(c.next) + m]
        BY <3>1, <3>2 DEF WalkInv, CursorInv
      <3>5. Children(c.scope) \subseteq {x \in Live': scopes'[x].parent = c.scope}
        <4>1. Children(c.scope) \cap gone = {}
          BY <3>3, <1>4
        <4> QED BY <4>1, <1>4, <1>5 DEF Children
      <3>6. PICK shown: shown = Produced(c.scope)
        OBVIOUS
      <3>7. shown = PartsOf(scopes'[c.scope].type, scopes'[c.scope].produced.value)
        BY <3>3, <3>6, <1>5 DEF Produced
      <3>8. /\ Len(c.next) <= Len(shown)
            /\ \A m \in 1..Len(c.next): /\ scopes'[c.next[m]].type = shown[m].type
                                        /\ scopes'[c.next[m]].key = shown[m].key
        <4>1. Range(c.next) \subseteq Live'
          BY <3>4, <3>5
        <4> QED BY <4>1, <3>3, <3>4, <3>7, <1>15
      <3>9. scopes'[c.scope].rendered
        BY <3>3, <3>4, <1>5
      <3>10. /\ Range(c.old) \cup Range(c.next) \subseteq {x \in Live': scopes'[x].parent = c.scope}
             /\ c.left \subseteq DOMAIN c.old
             /\ Len(c.next) + Len(c.parts) = Len(shown)
             /\ \A m \in 1..Len(c.parts): c.parts[m] = shown[Len(c.next) + m]
        BY <3>4, <3>5, <3>6
      <3>11. Good(c)
        BY <3>7, <3>8, <3>9, <3>10
      <3> HIDE DEF Good
      <3> QED BY <3>1, <3>11
    <2> QED BY <2>1 DEF CursorInv, Follows, Produced, Children
  <1>17. ShapeInv'
    <2>1. ASSUME NEW x \in Live'
          PROVE  /\ scopes'[x].type \in Types
                 /\ ~scopes'[x].rendered => /\ scopes'[x].dirty /\ scopes'[x].children = <<>>
                                            /\ x = root /\ rounds' = 0
      <3>1. scopes[top.scope].rendered
        BY <1>6 DEF WalkInv, CursorInv
      <3>2. x \in Live /\ x # None
        BY <1>4 DEF WalkInv, TreeInv
      <3> QED BY <3>1, <3>2, <1>1, <1>5 DEF WalkInv, ShapeInv
    <2>2. ASSUME NEW x \in Live', scopes'[x].rendered, x \notin Expanding'
          PROVE  /\ Len(scopes'[x].children) = Len(Produced(x)')
                 /\ Follows(scopes[x].children, Produced(x))'
      <3>1. CASE x = top.scope
        <4>1. /\ Follows(top.next, Produced(top.scope))
              /\ Len(top.next) + Len(top.parts) = Len(Produced(top.scope))
              /\ Range(top.next) \subseteq Live'
          BY <1>4, <1>6 DEF WalkInv, CursorInv, Children
        <4>2. Len(top.parts) = 0 /\ Len(top.next) \in Nat
          BY <1>6
        <4>3. PICK shown: shown = Produced(top.scope)
          OBVIOUS
        <4>4. shown = PartsOf(scopes'[x].type, scopes'[x].produced.value)
          BY <3>1, <4>3, <1>5, <1>7 DEF Produced
        <4>5. scopes'[x].children = top.next
          BY <3>1, <1>5
        <4>6. /\ Len(top.next) <= Len(shown)
              /\ \A m \in 1..Len(top.next): /\ scopes'[top.next[m]].type = shown[m].type
                                            /\ scopes'[top.next[m]].key = shown[m].key
          <5>1. top.next \in Seq(ScopeId) /\ top.scope \in Live'
            BY <1>6, <1>7
          <5>2. /\ Len(top.next) <= Len(PartsOf(scopes'[x].type, scopes'[x].produced.value))
                /\ \A m \in 1..Len(top.next):
                      LET part == PartsOf(scopes'[x].type, scopes'[x].produced.value)[m]
                      IN  /\ scopes'[top.next[m]].type = part.type
                          /\ scopes'[top.next[m]].key = part.key
            BY <3>1, <4>1, <5>1, <1>15
          <5> QED BY <5>2, <4>4
        <4>7. Len(top.next) = Len(shown)
          BY <4>1, <4>2, <4>3
        <4> QED BY <4>4, <4>5, <4>6, <4>7 DEF Follows, Produced
      <3>2. CASE x # top.scope
        <4>1. /\ scopes[x].children \in Seq(ScopeId) /\ Range(scopes[x].children) = Children(x)
              /\ Len(scopes[x].children) = Len(Produced(x))
              /\ Follows(scopes[x].children, Produced(x))
          BY <2>2, <3>2, <1>4, <1>5, <1>7 DEF WalkInv, ChildrenInv, ShapeInv
        <4>2. \A y \in Children(x): y \in Live'
          BY <3>2, <1>4 DEF Children
        <4>3. \A y \in Children(x): scopes'[y].type = scopes[y].type /\ scopes'[y].key = scopes[y].key
          BY <4>2, <1>5
        <4> QED BY <3>2, <4>1, <4>3, <1>5, FollowsKept
      <3> QED BY <3>1, <3>2
    <2> QED BY <2>1, <2>2 DEF ShapeInv
  <1>18. StatesInv'
    BY <1>1, <1>4, <1>5 DEF WalkInv, StatesInv
  <1> QED BY <1>10, <1>12, <1>13, <1>16, <1>17, <1>18 DEF WalkInv

\* An effect slot that a run or an address is current for is that of a
\* component with an effect.
LEMMA CurrentAsks ==
    ASSUME IInv, EffectsInv, NEW run, Current(run), run \in asked \/ run \in Pending
    PROVE  run.scope \in Live /\ scopes[run.scope].type \in Asking
  <1>1. run.slot = "effect" /\ run.scope \in Live
    BY DEF IInv, HandlesInv, RunsInv, Current, SlotsInv
  <1>2. slots[run.scope]["effect"].generation # 0
    <2>1. CASE run \in asked
      BY <1>1, <2>1 DEF IInv, HandlesInv, AskedInv, EffectsInv, DueInv
    <2>2. CASE run \in Pending
      BY <1>1, <2>2 DEF Current, EffectsInv, DueInv
    <2> QED BY <2>1, <2>2
  <1> QED BY <1>1, <1>2 DEF EffectsInv, DueInv

\* The tree is its root at first, and no walk is under way.
LEMMA InitWalk == ASSUME Init PROVE WalkInv
  <1>1. Live = {root} /\ scopes[root] = NewMounted(Part(Root, None), None, {})
    BY DEF Init, Live
  <1>2. /\ scopes[root].type = Root /\ scopes[root].parent = None /\ scopes[root].above = {}
        /\ scopes[root].children = <<>> /\ scopes[root].dirty /\ ~scopes[root].rendered
    BY <1>1 DEF NewMounted, Part
  <1>3. root \in ScopeId /\ None # root
    BY LoomAssumption DEF root, ScopeId
  <1>4. /\ stack = <<>> /\ entering = None /\ at = "handling" /\ rounds = 0
        /\ DOMAIN states = {root} /\ states[root] = NewState(Root)
    BY DEF Init
  <1>5. TreeInv
    BY <1>1, <1>2, <1>3 DEF TreeInv, Above
  <1>6. Expanding = {} /\ DOMAIN stack = {}
    BY <1>4 DEF Expanding
  <1>7. StackInv
    BY <1>4, <1>6 DEF StackInv
  <1>8. ChildrenInv
    <2>1. Children(root) = {} /\ Range(scopes[root].children) = {}
      BY <1>1, <1>2, <1>3 DEF Children, Range
    <2>2. scopes[root].children \in Seq(ScopeId)
      BY <1>2
    <2> QED BY <1>1, <2>1, <2>2 DEF ChildrenInv
  <1>9. CursorInv
    BY <1>6 DEF CursorInv
  <1>10. ShapeInv
    BY <1>1, <1>2, <1>4, LoomAssumption DEF ShapeInv
  <1>11. StatesInv
    BY <1>1, <1>2, <1>4, LoomAssumption DEF StatesInv, NewState
  <1> QED BY <1>5, <1>7, <1>8, <1>9, <1>10, <1>11 DEF WalkInv

\* Every step keeps the tree and the walk through it.
LEMMA NextWalk == ASSUME IInv, EffectsInv, WalkInv, [Next]_vars PROVE WalkInv'
  <1> DEFINE Still == /\ UNCHANGED <<stack, entering, rounds>>
                      /\ at' # "frame" => stack = <<>> /\ entering = None
  <1>1. ASSUME SameTree, StatesInv', Still
        PROVE  WalkInv'
    <2>1. entering' # None => entering' \in {entering, root} \cap Live
      BY <1>1 DEF WalkInv, StackInv
    <2>2. \A x \in Live: ~scopes[x].rendered => x = entering' \/ (x = root /\ rounds' = 0)
      BY <1>1 DEF WalkInv, ShapeInv
    <2> QED BY <1>1, <2>1, <2>2, QuietWalk
  <1>2. at # "frame" => stack = <<>> /\ entering = None
    BY DEF WalkInv, StackInv
  <1>3. \A ids: Mark(ids) => SameTree
    BY MarkTree DEF EffectsInv
  <1>4. \A id, v: WriteSlot(id, v) => SameTree /\ states' = [states EXCEPT ![id].pending = {v}]
    BY <1>3 DEF WriteSlot
  <1>5. CASE UNCHANGED vars
    <2>1. SameTree /\ Still /\ UNCHANGED <<states, at>>
      BY <1>2, <1>5, StillTree DEF vars, treeVars, loopVars
    <2> QED BY <1>1, <2>1, StatesKept
  <1>6. CASE LayOut
    <2>1. SameTree /\ Still /\ UNCHANGED states /\ at' = "layout"
      BY <1>3, <1>6 DEF LayOut
    <2> QED BY <1>1, <2>1, StatesKept
  <1>7. CASE PaintAll
    <2>1. SameTree /\ Still /\ UNCHANGED states /\ at' = "effect"
      BY <1>2, <1>7, StillTree DEF PaintAll, treeVars
    <2> QED BY <1>1, <2>1, StatesKept
  <1>8. CASE Wait
    <2>1. SameTree /\ Still /\ UNCHANGED states /\ at' = "wait"
      BY <1>2, <1>8, StillTree DEF Wait, treeVars
    <2> QED BY <1>1, <2>1, StatesKept
  <1>9. ASSUME NEW run \in queue, SkipEffect(run)
        PROVE  WalkInv'
    <2>1. SameTree /\ Still /\ UNCHANGED <<states, at>>
      BY <1>2, <1>9, StillTree DEF SkipEffect, treeVars, loopVars
    <2> QED BY <1>1, <2>1, StatesKept
  <1>10. ASSUME NEW run \in queue, RunEffect(run)
         PROVE  WalkInv'
    <2>1. at # "frame" /\ Still /\ UNCHANGED at
      BY <1>2, <1>10 DEF RunEffect, Took, loopVars
    <2>2. /\ SameTree /\ states' = [states EXCEPT ![run.scope].pending = {None}]
      BY <1>4, <1>10 DEF RunEffect
    <2>3. run.scope \in Live /\ scopes[run.scope].type \in Asking
      BY <1>10, CurrentAsks DEF RunEffect, Pending
    <2> QED BY <1>1, <2>1, <2>2, <2>3, StatesWritten
  <1>11. ASSUME NEW run \in queue, RunLayoutEffect(run)
         PROVE  WalkInv'
    <2>1. at # "frame" /\ Still /\ UNCHANGED at
      BY <1>2, <1>11 DEF RunLayoutEffect, Took
    <2>2. CASE UNCHANGED <<states, scopes>>
      BY <1>1, <2>1, <2>2, StatesKept, StillTree
    <2>3. CASE \E v \in Values: WriteSlot(run.scope, v)
      <3>1. PICK v \in Values: SameTree /\ states' = [states EXCEPT ![run.scope].pending = {v}]
        BY <1>4, <2>3
      <3>2. run.scope \in Live
        BY <1>11 DEF RunLayoutEffect, Current, IInv, HandlesInv, SlotsInv
      <3> QED BY <1>1, <2>1, <3>1, <3>2, StatesWritten
    <2> QED BY <1>11, <2>2, <2>3 DEF RunLayoutEffect
  <1>12. Responding => Still /\ at' = "handling"
    BY <1>2 DEF Responding
  <1>16. CASE Resize
    BY <1>1, <1>3, <1>12, <1>16, StatesKept DEF Resize
  <1>17. ASSUME NEW id \in Live, NEW v \in Values, Listen(id, v)
         PROVE  WalkInv'
    BY <1>1, <1>4, <1>12, <1>17, StatesWritten DEF Listen
  <1>18. ASSUME NEW run \in asked, Answer(run)
         PROVE  WalkInv'
    <2>1. SameTree /\ states' = [states EXCEPT ![run.scope].pending = {run.deps}]
      BY <1>4, <1>18 DEF Answer
    <2>2. run.scope \in Live /\ scopes[run.scope].type \in Asking
      BY <1>18, CurrentAsks DEF Answer
    <2> QED BY <1>1, <1>12, <1>18, <2>1, <2>2, StatesWritten DEF Answer
  <1>19. ASSUME NEW run \in asked, Refuse(run)
         PROVE  WalkInv'
    BY <1>1, <1>12, <1>19, StatesKept, StillTree DEF Refuse
  <1>13. CASE AnotherRound
    BY <1>13, StartRoundWalk DEF AnotherRound
  <1>14. CASE DrawAgain
    BY <1>14, StartRoundWalk DEF DrawAgain
  <1>15. CASE DrawNext
    BY <1>15, StartRoundWalk DEF DrawNext
  <1> QED
    BY <1>5, <1>6, <1>7, <1>8, <1>9, <1>10, <1>11, <1>13, <1>14, <1>15, <1>16, <1>17,
       <1>18, <1>19, ReuseWalk, RenderWalk, KeepWalk, MountWalk, FinishWalk
    DEF Next

\* TreeSound: whatever is mounted, kept and removed, and in whatever order, the
\* tree between the frames is one, and of the shape that the states ask for.
THEOREM TreeIsSound == Spec => []TreeSound
  <1>1. ASSUME IInv, WalkInv, at # "frame", rounds > 0, NEW id \in Live
        PROVE  /\ id.generation = generations[id.index]
               /\ id = root \/ root \in Above(id)
               /\ Range(scopes[id].children) = {x \in Live: scopes[x].parent = id}
               /\ [n \in DOMAIN scopes[id].children |->
                      LET c == scopes[scopes[id].children[n]] IN <<c.type, c.key>>]
                  = [n \in DOMAIN PartsOf(scopes[id].type, scopes[id].produced.value) |->
                      LET p == PartsOf(scopes[id].type, scopes[id].produced.value)[n]
                      IN  <<p.type, p.key>>]
    <2>1. id.generation = generations[id.index]
      BY <1>1 DEF IInv, HandlesInv, SlabInv
    <2>2. /\ id = root \/ root \in Above(id)
          /\ Range(scopes[id].children) = {x \in Live: scopes[x].parent = id}
          /\ scopes[id].children \in Seq(ScopeId)
      BY <1>1 DEF WalkInv, TreeInv, ChildrenInv, Children
    <2>3. Expanding = {} /\ id # None
      BY <1>1 DEF WalkInv, StackInv, TreeInv, Expanding
    <2>4. /\ scopes[id].rendered /\ scopes[id].type \in Types
          /\ scopes[id].type \in Asking \/ scopes[id].produced.value \in Values
      BY <1>1, <2>3 DEF WalkInv, ShapeInv, StatesInv, StackInv
    <2>5. PICK shown: shown = PartsOf(scopes[id].type, scopes[id].produced.value)
      OBVIOUS
    <2>6. shown \in Seq(PartSet)
      BY <2>4, <2>5, PartsOfType
    <2>7. /\ Len(scopes[id].children) = Len(shown)
          /\ \A n \in 1..Len(scopes[id].children):
                /\ scopes[scopes[id].children[n]].type = shown[n].type
                /\ scopes[scopes[id].children[n]].key = shown[n].key
      BY <1>1, <2>3, <2>4, <2>5 DEF WalkInv, ShapeInv, Follows, Produced
    <2>8. DOMAIN scopes[id].children = DOMAIN shown
          /\ DOMAIN shown = 1..Len(scopes[id].children)
      BY <2>2, <2>6, <2>7
    <2>9. [n \in DOMAIN scopes[id].children |->
              LET c == scopes[scopes[id].children[n]] IN <<c.type, c.key>>]
          = [n \in DOMAIN shown |-> LET p == shown[n] IN <<p.type, p.key>>]
      BY <2>7, <2>8
    <2> QED BY <2>1, <2>2, <2>5, <2>9
  <1>2. ASSUME IInv, NEW x \in Live, NEW y \in Live, x.index = y.index
        PROVE  x = y
    BY <1>2 DEF IInv, HandlesInv, SlabInv, ScopeId
  <1>3. IInv /\ EffectsInv /\ WalkInv => TreeSound
    BY <1>1, <1>2 DEF TreeSound
  <1>4. Init => IInv /\ EffectsInv /\ WalkInv
    BY InitIInv, InitEffects, InitWalk
  <1>5. IInv /\ EffectsInv /\ WalkInv /\ [Next]_vars => IInv' /\ EffectsInv' /\ WalkInv'
    BY NextIInv, NextEffects, NextWalk
  <1> QED BY <1>3, <1>4, <1>5, PTL DEF Spec

------------------------------------------------------------------------------
(* What is marked, and what is done. *)

\* What a component sees is what is offered at and above it.
LEMMA SeenKept ==
    ASSUME NEW x, scopes'[x].type = scopes[x].type,
           \A p \in Above(x) \cup {x}: Above(p)' = Above(p),
           \A p \in Above(x) \cup {x}: p \in DOMAIN offers' <=> p \in DOMAIN offers,
           \A p \in (Above(x) \cup {x}) \cap DOMAIN offers: offers'[p] = offers[p]
    PROVE  Seen(x)' = Seen(x)
  <1> DEFINE offering == (Above(x) \cup {x}) \cap DOMAIN offers
  <1>1. Above(x)' = Above(x) /\ offering' = offering
    OBVIOUS
  <1>2. {p \in offering': offering' \ {p} \subseteq Above(p)'}
        = {p \in offering: offering \ {p} \subseteq Above(p)}
    <2>1. \A p \in offering: Above(p)' = Above(p)
      OBVIOUS
    <2> HIDE DEF offering
    <2> QED BY <2>1, <1>1
  <1>3. \A p \in {p \in offering: offering \ {p} \subseteq Above(p)}: offers'[p] = offers[p]
    OBVIOUS
  <1>4. Context(x)' = {offers'[p]: p \in {p \in offering': offering' \ {p} \subseteq Above(p)'}}
    BY DEF Context
  <1>5. Context(x) = {offers[p]: p \in {p \in offering: offering \ {p} \subseteq Above(p)}}
    BY DEF Context
  <1> HIDE DEF offering
  <1>6. Context(x)' = Context(x)
    BY <1>2, <1>3, <1>4, <1>5
  <1> QED BY <1>6 DEF Seen

\* A step that changes nothing of what the components show.
SameShown ==
    /\ Live' = Live
    /\ \A x \in Live: \A field \in Fields \ {"dirty"}: scopes'[x][field] = scopes[x][field]
    /\ UNCHANGED offers

\* After it a scope is stale for its state or not at all.
LEMMA StaleKept ==
    ASSUME TreeInv, SameShown, NEW x \in Live,
           states'[x].value = states[x].value, states'[x].pending = states[x].pending
    PROVE  Stale(x)' <=> Stale(x)
  <1>1. \A y \in Live: /\ scopes'[y].type = scopes[y].type
                       /\ scopes'[y].above = scopes[y].above
                       /\ scopes'[y].props = scopes[y].props
                       /\ scopes'[y].rendered = scopes[y].rendered
                       /\ scopes'[y].produced = scopes[y].produced
    BY DEF SameShown, Fields
  <1>2. \A p \in Above(x) \cup {x}: Above(p)' = Above(p)
    BY <1>1 DEF Above, TreeInv
  <1>3. Seen(x)' = Seen(x)
    BY <1>1, <1>2, SeenKept DEF SameShown
  <1> QED BY <1>1, <1>3 DEF Stale

\* All that marking some scopes marks.
Paths(ids) == UNION {MarkPath(Dirty, id): id \in ids}

\* Marking, field by field.
LEMMA MarkFacts ==
    ASSUME FirstInv, NEW ids, Mark(ids)
    PROVE  /\ Live' = Live /\ marked' = marked \cup ids
           /\ \A x \in Live: \A field \in Fields \ {"dirty"}: scopes'[x][field] = scopes[x][field]
           /\ Dirty' = Dirty \cup (Paths(ids) \cap Live)
  <1>1. PICK to: to = Paths(ids)
    OBVIOUS
  <1>4. scopes' = Flagged(scopes, to) /\ Live' = Live /\ marked' = marked \cup ids
    BY <1>1, MarkKeepsLive DEF Mark, Paths
  <1>2. ASSUME NEW x \in Live
        PROVE  /\ \A field \in Fields \ {"dirty"}: scopes'[x][field] = scopes[x][field]
               /\ scopes'[x].dirty = (scopes[x].dirty \/ x \in to)
    <2>1. x \in DOMAIN scopes /\ DOMAIN scopes[x] = Fields
      BY DEF FirstInv, Live
    <2>2. /\ \A field \in Fields \ {"dirty"}: Flagged(scopes, to)[x][field] = scopes[x][field]
          /\ Flagged(scopes, to)[x].dirty = (scopes[x].dirty \/ x \in to)
      BY <2>1, FlaggedRenders
    <2> QED BY <1>4, <2>2
  <1>3. Dirty' = Dirty \cup (to \cap Live)
    BY <1>2, <1>4 DEF Dirty
  <1> QED BY <1>1, <1>2, <1>3, <1>4

\* A marked scope's path leads up to what is dirty already.
LEMMA PathLeadsUp ==
    ASSUME TreeInv, NEW dirty, NEW r \in Live, NEW id \in MarkPath(dirty, r), NEW b \in Above(id)
    PROVE  /\ id = r \/ id \in Above(r)
           /\ b \in Above(r)
           /\ b \in MarkPath(dirty, r) \/ \E c \in Above(r) \cap dirty: c = b \/ b \in Above(c)
           /\ \A c \in Above(r) \cap dirty: id # r => c # id /\ id \notin Above(c)
  <1>1. id = r \/ id \in Above(r)
    BY DEF MarkPath
  <1>2. b \in Above(r)
    BY <1>1 DEF TreeInv
  <1>3. b \in MarkPath(dirty, r) \/ \E c \in Above(r) \cap dirty: c = b \/ b \in Above(c)
    BY <1>2 DEF MarkPath
  <1>4. \A c \in Above(r) \cap dirty: id # r => c # id /\ id \notin Above(c)
    BY DEF MarkPath
  <1> QED BY <1>1, <1>2, <1>3, <1>4

\* Outside a frame marking keeps what is dirty reachable.
LEMMA MarkMarks ==
    ASSUME FirstInv, WalkInv, MarksInv, stack = <<>>, UNCHANGED stack,
           NEW ids \in SUBSET Live, Mark(ids),
           \A x \in Live: Stale(x)' => x \in ids \/ (Stale(x) /\ marked # {})
    PROVE  MarksInv'
  <1>1. /\ Live' = Live /\ marked' = marked \cup ids
        /\ \A x \in Live: \A field \in Fields \ {"dirty"}: scopes'[x][field] = scopes[x][field]
        /\ Dirty' = Dirty \cup (Paths(ids) \cap Live)
    BY MarkFacts
  <1>2. \A x \in Live: Above(x)' = Above(x)
    BY <1>1 DEF Above, Fields
  <1>3. Expanding = {} /\ Expanding' = {}
    BY DEF Expanding
  <1>4. \A x: x \in Paths(ids) <=> \E r \in ids: x \in MarkPath(Dirty, r)
    BY DEF Paths
  <1>5. ASSUME NEW id \in Dirty', NEW b \in Above(id)
        PROVE  b \in Dirty'
    <2>1. CASE id \in Dirty
      BY <2>1, <1>1, <1>3 DEF MarksInv
    <2>2. ASSUME NEW r \in ids, id \in MarkPath(Dirty, r)
          PROVE  b \in Dirty'
      <3>1. b \in MarkPath(Dirty, r) \/ \E c \in Above(r) \cap Dirty: c = b \/ b \in Above(c)
        BY <2>2, PathLeadsUp DEF WalkInv
      <3>2. b \in Live
        BY <1>1 DEF WalkInv, TreeInv, Dirty
      <3>3. ASSUME NEW c \in Above(r) \cap Dirty, c = b \/ b \in Above(c)
            PROVE  b \in Dirty
        BY <3>3, <1>3 DEF MarksInv
      <3> QED BY <3>1, <3>2, <3>3, <1>1, <1>4
    <2> QED BY <2>1, <2>2, <1>1, <1>4
  <1>6. ASSUME NEW x \in Live, Stale(x)'
        PROVE  x \in Dirty' /\ marked' # {}
    <2>1. CASE Stale(x) /\ marked # {}
      BY <2>1, <1>1 DEF MarksInv
    <2>2. CASE x \in ids
      <3>1. x \in MarkPath(Dirty, x)
        BY DEF MarkPath
      <3> QED BY <2>2, <3>1, <1>1, <1>4
    <2> QED BY <2>1, <2>2, <1>6
  <1>7. Dirty' \subseteq Live
    BY <1>1 DEF Dirty
  <1> QED BY <1>1, <1>2, <1>3, <1>5, <1>6, <1>7 DEF MarksInv

\* So does leaving the marks alone.
LEMMA StillMarks ==
    ASSUME MarksInv, UNCHANGED <<scopes, marked, stack>>, at' # "frame" => at # "frame",
           \A x \in Live: Stale(x)' => Stale(x)
    PROVE  MarksInv'
  <1>1. Live' = Live /\ Dirty' = Dirty /\ Expanding' = Expanding /\ \A x: Above(x)' = Above(x)
    BY DEF Live, Dirty, Expanding, Above
  <1> QED BY <1>1 DEF MarksInv

\* What is stale can be found, now and by the time the walk is over.
DrawnInv == OffersInv /\ MarksInv /\ DoneInv

\* The scope that is next has what is being expanded above it.
LEMMA Entering ==
    ASSUME WalkInv, entering # None
    PROVE  entering \in Live /\ Above(entering) = Expanding /\ entering \notin Expanding
  <1>1. /\ entering \in Live
        /\ IF stack = <<>> THEN entering = root ELSE entering \in Children(Top.scope)
    BY DEF WalkInv, StackInv, Children, Top
  <1> QED BY <1>1, AboveNext DEF WalkInv

\* Below a scope that is clean and not being expanded nothing is left to do.
LEMMA CleanDone ==
    ASSUME WalkInv, MarksInv, NEW c \in Live, c \notin Dirty, c \notin Expanding
    PROVE  Done(c)
  <1>1. ASSUME NEW x \in Below(c) \cup {c}
        PROVE  x \notin Dirty /\ x \in Live
    BY DEF Below, MarksInv
  <1>2. \A x \in Live: Stale(x) => x \in Dirty
    BY DEF MarksInv
  <1> QED BY <1>1, <1>2 DEF Done

\* When the root is done, so is everything.
LEMMA RootDone ==
    ASSUME TreeInv, Done(root), NEW x \in Live
    PROVE  ~Stale(x)
  <1>1. x \in Below(root) \cup {root}
    BY DEF TreeInv, Below
  <1> QED BY <1>1 DEF Done

\* Outside the frames nothing is being expanded.
LEMMA QuietDrawn ==
    ASSUME WalkInv, DrawnInv, SameShown, MarksInv', at' # "frame", stack = <<>>, UNCHANGED stack
    PROVE  DrawnInv'
  <1>1. \A x \in Live: scopes'[x].type = scopes[x].type /\ scopes'[x].rendered = scopes[x].rendered
    BY DEF SameShown, Fields
  <1>2. OffersInv'
    BY <1>1 DEF DrawnInv, OffersInv, SameShown
  <1>3. DoneInv'
    BY DEF DoneInv
  <1> QED BY <1>2, <1>3 DEF DrawnInv

\* A scope that is clean is done.
LEMMA ReuseDrawn == ASSUME WalkInv, DrawnInv, Reuse PROVE DrawnInv'
  <1>1. /\ UNCHANGED <<scopes, offers, states, stack, marked, at>> /\ at = "frame"
        /\ entering' = None /\ entering \notin Dirty /\ entering # None
    BY DEF Reuse, treeVars
  <1>2. SameShown
    BY <1>1 DEF SameShown, Live
  <1>3. \A x \in Live: Stale(x)' <=> Stale(x)
    BY <1>1, <1>2, StaleKept DEF WalkInv
  <1>4. MarksInv'
    BY <1>1, <1>3, StillMarks DEF DrawnInv
  <1>5. OffersInv'
    BY <1>1 DEF DrawnInv, OffersInv, Live
  <1>6. /\ Live' = Live /\ Dirty' = Dirty /\ Expanding' = Expanding
        /\ \A x: Above(x)' = Above(x) /\ Below(x)' = Below(x)
    BY <1>1 DEF Live, Dirty, Expanding, Above, Below
  <1>7. ASSUME NEW c \in Live, Done(c)
        PROVE  Done(c)'
    BY <1>3, <1>6, <1>7 DEF Done, Below
  <1>8. entering \in Live /\ Done(entering)
    BY <1>1, Entering, CleanDone DEF DrawnInv
  <1>9. ASSUME NEW n \in DOMAIN stack, NEW c \in Range(stack[n].next), c \notin Expanding
        PROVE  Done(c)'
    <2>1. c \in Live
      BY DEF WalkInv, CursorInv, Children
    <2>2. Done(c)
      BY <1>8, <1>9 DEF DrawnInv, DoneInv
    <2> QED BY <2>1, <2>2, <1>7
  <1>10. stack = <<>> => Done(root)'
    <2>1. stack = <<>> => entering = root
      BY <1>1 DEF WalkInv, StackInv
    <2> QED BY <2>1, <1>7, <1>8
  <1>11. DoneInv'
    BY <1>1, <1>6, <1>9, <1>10 DEF DoneInv
  <1> QED BY <1>4, <1>5, <1>11 DEF DrawnInv

\* Committing a state makes no scope stale that was not.
LEMMA StartRoundDrawn ==
    ASSUME WalkInv, DrawnInv, at # "frame", NEW round, NEW drawing, StartRound(round, drawing)
    PROVE  DrawnInv'
  <1>1. /\ UNCHANGED <<scopes, offers, stack>> /\ at' = "frame" /\ entering' = root
        /\ stack = <<>>
    BY DEF StartRound, WalkInv, StackInv
  <1>2. ASSUME NEW x \in Live
        PROVE  /\ states'[x].pending = {}
               /\ states[x].pending = {} => states'[x].value = states[x].value
               /\ states[x].pending # {} => states'[x].value \in states[x].pending
    <2>1. states'[x] = [value |-> IF states[x].pending = {} THEN states[x].value
                                  ELSE CHOOSE v \in states[x].pending: TRUE,
                        pending |-> {}]
      BY DEF StartRound, WalkInv, StatesInv
    <2>2. states[x].pending # {} => (CHOOSE v \in states[x].pending: TRUE) \in states[x].pending
      OBVIOUS
    <2> QED BY <2>1, <2>2
  <1>3. \A x: Seen(x)' = Seen(x)
    BY <1>1 DEF Seen, Context, Above
  <1>4. \A x \in Live: Stale(x)' => Stale(x)
    BY <1>1, <1>2, <1>3 DEF Stale
  <1>5. Live' = Live /\ Dirty' = Dirty /\ Expanding' = Expanding /\ \A x: Above(x)' = Above(x)
    BY <1>1 DEF Live, Dirty, Expanding, Above
  <1>6. MarksInv'
    BY <1>1, <1>4, <1>5 DEF DrawnInv, MarksInv
  <1>7. OffersInv'
    BY <1>1 DEF DrawnInv, OffersInv, Live
  <1>8. DoneInv'
    <2>1. entering' # None
      BY <1>1 DEF WalkInv, TreeInv
    <2> QED BY <1>1, <2>1 DEF DoneInv
  <1> QED BY <1>6, <1>7, <1>8 DEF DrawnInv

\* The children gone on with are those there were and one more.
LEMMA ClaimNext ==
    ASSUME StackInv, stack # <<>>, Last(stack).parts # <<>>, NEW id \in ScopeId,
           Claim(Last(stack), id), NEW n \in DOMAIN stack', NEW c \in Range(stack'[n].next)
    PROVE  n \in DOMAIN stack /\ (c = id \/ c \in Range(stack[n].next))
  <1>1. /\ DOMAIN stack = 1..Len(stack) /\ Len(stack) \in Nat /\ Top.next \in Seq(ScopeId)
        /\ Top = stack[Len(stack)]
    BY TopOf DEF Top
  <1>2. /\ DOMAIN stack' = DOMAIN stack
        /\ \A m \in 1..(Len(stack) - 1): stack'[m] = stack[m]
        /\ stack'[Len(stack)].next = Append(Top.next, id)
    BY ClaimFacts
  <1>3. CASE n = Len(stack)
    <2>1. Range(Append(Top.next, id)) = Range(Top.next) \cup {id}
      BY <1>1, RangeOfAppend
    <2> QED BY <1>1, <1>2, <1>3, <2>1
  <1>4. CASE n # Len(stack)
    <2>1. n \in 1..(Len(stack) - 1)
      BY <1>1, <1>2, <1>4
    <2> QED BY <1>2, <2>1
  <1> QED BY <1>3, <1>4

\* A child that is gone on with is stale only if it is dirty.
LEMMA KeepDrawn == ASSUME IInv, EffectsInv, WalkInv, DrawnInv, Keep PROVE DrawnInv'
  <1>1. PICK id \in Live:
              /\ stack # <<>> /\ Last(stack).parts # <<>> /\ at = "frame" /\ entering = None
              /\ id \in Children(Top.scope)
              /\ Live' = Live
              /\ \A x \in Live: \A field \in Fields \ {"dirty", "props"}:
                    scopes'[x][field] = scopes[x][field]
              /\ \A x \in Live \ {id}: scopes'[x] = scopes[x]
              /\ scopes[id].dirty => scopes'[id].dirty
              /\ scopes'[id].props # scopes[id].props => scopes'[id].dirty
              /\ Claim(Last(stack), id)
              /\ UNCHANGED <<states, offers, marked, at>>
    BY KeepFacts
  <1>2. id \in ScopeId /\ Above(id) = Expanding /\ id \notin Expanding /\ id # None
    BY <1>1, AboveNext DEF WalkInv, IInv, HandlesInv, SlabInv, TreeInv
  <1>3. \A x \in Live: /\ scopes'[x].above = scopes[x].above
                       /\ scopes'[x].type = scopes[x].type
                       /\ scopes'[x].rendered = scopes[x].rendered
                       /\ scopes'[x].produced = scopes[x].produced
    BY <1>1 DEF Fields
  <1>4. \A x \in Live: Above(x)' = Above(x)
    BY <1>3 DEF Above
  <1>5. ASSUME NEW x \in Live
        PROVE  Seen(x)' = Seen(x)
    <2>1. \A p \in Above(x) \cup {x}: Above(p)' = Above(p)
      BY <1>4 DEF WalkInv, TreeInv
    <2> QED BY <2>1, <1>1, <1>3, SeenKept
  <1>6. \A x \in Live \ {id}: Stale(x)' <=> Stale(x)
    BY <1>1, <1>5 DEF Stale
  <1>7. /\ Dirty' \subseteq Dirty \cup {id} /\ Dirty \subseteq Dirty'
        /\ Dirty \cap Expanding = Dirty' \cap Expanding
    BY <1>1, <1>2 DEF Dirty
  <1>8. Stale(id)' => id \in Dirty'
    <2>1. Stale(id) => id \in Dirty
      BY DEF DrawnInv, MarksInv
    <2>2. CASE scopes'[id].props # scopes[id].props
      BY <2>2, <1>1 DEF Dirty
    <2>3. CASE scopes'[id].props = scopes[id].props
      <3>1. Stale(id)' => Stale(id)
        BY <2>3, <1>1, <1>3, <1>5 DEF Stale
      <3> QED BY <2>1, <3>1, <1>7
    <2> QED BY <2>2, <2>3
  <1>9. Expanding' = Expanding /\ entering' = id
    BY <1>1, <1>2, ClaimFacts DEF WalkInv
  <1>10. MarksInv'
    <2>1. ASSUME NEW x \in Dirty'
          PROVE  Above(x)' \subseteq Dirty' \cup Expanding
      <3>1. CASE x = id
        BY <3>1, <1>2, <1>4
      <3>2. CASE x \in Dirty
        <4>1. Above(x) \subseteq Dirty \cup Expanding /\ x \in Live
          BY <3>2 DEF DrawnInv, MarksInv, Dirty
        <4> QED BY <4>1, <1>4, <1>7
      <3> QED BY <3>1, <3>2, <1>7
    <2>2. ASSUME NEW x \in Dirty' \cap Expanding
          PROVE  Above(x)' \subseteq Dirty'
      <3>1. Above(x) \subseteq Dirty /\ x \in Live
        BY <1>7 DEF DrawnInv, MarksInv, Dirty
      <3> QED BY <3>1, <1>4, <1>7
    <2>3. ASSUME NEW x \in Live, Stale(x)'
          PROVE  x \in Dirty' \ Expanding
      <3>1. CASE x = id
        BY <2>3, <3>1, <1>2, <1>8
      <3>2. CASE x # id
        BY <2>3, <3>2, <1>6, <1>7 DEF DrawnInv, MarksInv
      <3> QED BY <3>1, <3>2
    <2> QED BY <2>1, <2>2, <2>3, <1>1, <1>9 DEF MarksInv
  <1>11. OffersInv'
    BY <1>1, <1>3 DEF DrawnInv, OffersInv
  <1>12. ASSUME NEW c \in Live, c # id, c \notin Expanding, Done(c)
         PROVE  Done(c)'
    <2>1. \A x: x \in Below(c)' <=> x \in Below(c)
      BY <1>1, <1>4 DEF Below
    <2>2. ASSUME NEW x \in Below(c) \cup {c}
          PROVE  ~Stale(x)' /\ (x \in Dirty' => Above(x)' \subseteq Dirty')
      <3>1. x \in Live /\ x # id
        BY <1>2, <1>12 DEF Below
      <3>2. ~Stale(x) /\ (x \in Dirty => Above(x) \subseteq Dirty)
        BY <1>12 DEF Done
      <3> QED BY <3>1, <3>2, <1>4, <1>6, <1>7
    <2> QED BY <2>1, <2>2 DEF Done
  <1>13. DoneInv'
    <2>1. ASSUME NEW n \in DOMAIN stack', NEW c \in Range(stack'[n].next), c # id,
                 c \notin Expanding
          PROVE  Done(c)'
      <3>1. n \in DOMAIN stack /\ c \in Range(stack[n].next)
        BY <2>1, <1>1, <1>2, ClaimNext DEF WalkInv
      <3>2. c \in Live
        BY <3>1 DEF WalkInv, CursorInv, Children
      <3>3. Done(c)
        BY <2>1, <3>1, <3>2, <1>1 DEF DrawnInv, DoneInv, WalkInv, TreeInv
      <3> QED BY <2>1, <3>2, <3>3, <1>12
    <2> QED BY <2>1, <1>2, <1>9 DEF DoneInv
  <1> QED BY <1>10, <1>11, <1>13 DEF DrawnInv

\* A new scope is dirty, and below all that is being expanded.
LEMMA MountDrawn == ASSUME IInv, EffectsInv, WalkInv, DrawnInv, Mount PROVE DrawnInv'
  <1>1. PICK id \in ScopeId \ Live:
              /\ stack # <<>> /\ Last(stack).parts # <<>> /\ at = "frame" /\ entering = None
              /\ Live' = Live \cup {id} /\ Top.scope \in Live
              /\ \A x \in Live: \A field \in Fields \ {"children"}:
                    scopes'[x][field] = scopes[x][field]
              /\ scopes'[id] = NewMounted(Top.parts[1], Top.scope,
                                          {Top.scope} \cup Above(Top.scope))
              /\ \A x \in Live: states'[x] = states[x]
              /\ Claim(Last(stack), id)
              /\ UNCHANGED <<offers, marked, at>>
    BY MountFacts
  <1>2. /\ \A x \in Live: /\ scopes'[x].above = scopes[x].above
                          /\ scopes'[x].type = scopes[x].type
                          /\ scopes'[x].dirty = scopes[x].dirty
                          /\ scopes'[x].props = scopes[x].props
                          /\ scopes'[x].rendered = scopes[x].rendered
                          /\ scopes'[x].produced = scopes[x].produced
        /\ scopes'[id].above = {Top.scope} \cup Above(Top.scope)
        /\ scopes'[id].dirty /\ ~scopes'[id].rendered
    BY <1>1 DEF Fields, NewMounted
  <1>3. Expanding' = Expanding /\ entering' = id /\ id # None
    BY <1>1, ClaimFacts, LoomAssumption DEF WalkInv
  <1>4. Above(id)' = Expanding /\ Expanding \subseteq Live
    <2>1. Expanding = Above(Top.scope) \cup {Top.scope}
      <3>1. /\ Len(stack) \in DOMAIN stack /\ DOMAIN stack = 1..Len(stack) /\ Len(stack) \in Nat
        BY <1>1, TopOf DEF WalkInv
      <3>2. Above(Top.scope) = {stack[m].scope: m \in 1..(Len(stack) - 1)}
        BY <3>1 DEF WalkInv, StackInv, Top
      <3> QED BY <3>1, <3>2 DEF Expanding, Top
    <2> QED BY <2>1, <1>2 DEF Above, WalkInv, StackInv
  <1>5. \A x \in Live: Above(x)' = Above(x)
    BY <1>2 DEF Above
  <1>6. ASSUME NEW x \in Live
        PROVE  Stale(x)' <=> Stale(x)
    <2>1. \A p \in Above(x) \cup {x}: Above(p)' = Above(p)
      BY <1>5 DEF WalkInv, TreeInv
    <2>2. Seen(x)' = Seen(x)
      BY <2>1, <1>1, <1>2, SeenKept
    <2> QED BY <2>2, <1>1, <1>2 DEF Stale
  <1>7. Dirty' = Dirty \cup {id}
    BY <1>1, <1>2 DEF Dirty
  <1>8. id \notin Expanding
    BY <1>1, <1>4
  <1>9. MarksInv'
    <2>1. ASSUME NEW x \in Dirty'
          PROVE  Above(x)' \subseteq Dirty' \cup Expanding
      <3>1. CASE x = id
        BY <3>1, <1>4
      <3>2. CASE x \in Dirty
        <4>1. Above(x) \subseteq Dirty \cup Expanding /\ x \in Live
          BY <3>2 DEF DrawnInv, MarksInv, Dirty
        <4> QED BY <4>1, <1>5, <1>7
      <3> QED BY <3>1, <3>2, <1>7
    <2>2. ASSUME NEW x \in Dirty' \cap Expanding
          PROVE  Above(x)' \subseteq Dirty'
      <3>1. Above(x) \subseteq Dirty /\ x \in Live
        BY <1>7, <1>8 DEF DrawnInv, MarksInv, Dirty
      <3> QED BY <3>1, <1>5, <1>7
    <2>3. ASSUME NEW x \in Live', Stale(x)'
          PROVE  x \in Dirty' \ Expanding
      BY <2>3, <1>1, <1>6, <1>7, <1>8 DEF DrawnInv, MarksInv
    <2> QED BY <2>1, <2>2, <2>3, <1>1, <1>3 DEF MarksInv
  <1>10. OffersInv'
    BY <1>1, <1>2 DEF DrawnInv, OffersInv
  <1>11. ASSUME NEW c \in Live, c \notin Expanding, Done(c)
         PROVE  Done(c)'
    <2>1. \A x: x \in Below(c)' => x \in Below(c)
      BY <1>1, <1>4, <1>5, <1>11 DEF Below
    <2>2. ASSUME NEW x \in Below(c) \cup {c}
          PROVE  ~Stale(x)' /\ (x \in Dirty' => Above(x)' \subseteq Dirty')
      <3>1. x \in Live /\ x # id
        BY <1>1 DEF Below
      <3>2. ~Stale(x) /\ (x \in Dirty => Above(x) \subseteq Dirty)
        BY <1>11 DEF Done
      <3> QED BY <3>1, <3>2, <1>5, <1>6, <1>7
    <2> QED BY <2>1, <2>2 DEF Done
  <1>12. DoneInv'
    <2>1. ASSUME NEW n \in DOMAIN stack', NEW c \in Range(stack'[n].next), c # id,
                 c \notin Expanding
          PROVE  Done(c)'
      <3>1. n \in DOMAIN stack /\ c \in Range(stack[n].next)
        BY <2>1, <1>1, ClaimNext DEF WalkInv
      <3>2. c \in Live
        BY <3>1 DEF WalkInv, CursorInv, Children
      <3>3. Done(c)
        BY <2>1, <3>1, <3>2, <1>1 DEF DrawnInv, DoneInv, WalkInv, TreeInv
      <3> QED BY <2>1, <3>2, <3>3, <1>11
    <2> QED BY <2>1, <1>3 DEF DoneInv
  <1> QED BY <1>9, <1>10, <1>12 DEF DrawnInv

\* When a component is done with its parts, it is done.
LEMMA FinishDrawn == ASSUME EffectsInv, WalkInv, DrawnInv, Finish PROVE DrawnInv'
  <1>1. /\ stack # <<>> /\ Top.parts = <<>> /\ at = "frame" /\ entering = None
        /\ Live' = Live \ Gone
        /\ \A x \in Live': \A field \in Fields \ {"children"}:
              scopes'[x][field] = scopes[x][field]
        /\ \A x \in Live': states'[x] = states[x]
        /\ DOMAIN offers' = DOMAIN offers \ Gone
        /\ \A x \in DOMAIN offers \ Gone: offers'[x] = offers[x]
        /\ DOMAIN stack' = 1..(Len(stack) - 1)
        /\ \A n \in 1..(Len(stack) - 1): stack'[n] = stack[n]
        /\ Expanding' = Above(Top.scope) /\ Expanding = Above(Top.scope) \cup {Top.scope}
        /\ UNCHANGED <<at, entering, rounds>>
    BY FinishFacts
  <1>2. PICK s \in Live: s = Top.scope
    BY <1>1, TopOf DEF WalkInv
  <1>3. PICK gone: gone = Gone
    OBVIOUS
  <1>4. /\ gone \subseteq Live /\ Live' = Live \ gone
        /\ \A x \in Live \ gone: Above(x) \cap gone = {}
        /\ Expanding \cap gone = {}
        /\ Children(s) \ gone = Range(Top.next)
        /\ Expanding' = Above(s) /\ Expanding = Above(s) \cup {s} /\ s \in Live'
    BY <1>1, <1>2, <1>3, GoneFacts DEF WalkInv
  <1>5. \A x \in Live': /\ scopes'[x].above = scopes[x].above
                        /\ scopes'[x].type = scopes[x].type
                        /\ scopes'[x].dirty = scopes[x].dirty
                        /\ scopes'[x].props = scopes[x].props
                        /\ scopes'[x].rendered = scopes[x].rendered
                        /\ scopes'[x].produced = scopes[x].produced
    BY <1>1 DEF Fields
  <1>6. \A x \in Live': Above(x)' = Above(x) /\ Above(x) \subseteq Live'
    BY <1>4, <1>5 DEF Above, WalkInv, TreeInv
  <1>7. ASSUME NEW x \in Live'
        PROVE  Stale(x)' <=> Stale(x)
    <2>1. \A p \in Above(x) \cup {x}: p \in Live' /\ Above(p)' = Above(p)
      BY <1>6
    <2>2. \A p \in Above(x) \cup {x}: p \in DOMAIN offers' <=> p \in DOMAIN offers
      BY <2>1, <1>1, <1>3, <1>4
    <2>3. \A p \in (Above(x) \cup {x}) \cap DOMAIN offers: offers'[p] = offers[p]
      BY <2>1, <1>1, <1>3, <1>4
    <2>4. Seen(x)' = Seen(x)
      BY <2>1, <2>2, <2>3, <1>5, SeenKept
    <2> QED BY <2>4, <1>1, <1>5 DEF Stale
  <1>8. Dirty' = Dirty \cap Live'
    BY <1>4, <1>5 DEF Dirty
  <1>9. ASSUME NEW c \in Range(Top.next)
        PROVE  Done(c) /\ c \in Live
    <2>1. c \in Children(s) /\ c \in Live /\ Len(stack) \in DOMAIN stack
      BY <1>1, <1>4, TopOf DEF Children, WalkInv
    <2>2. c \notin Expanding
      BY <1>1, <1>2, <2>1, AboveNext DEF WalkInv
    <2> QED BY <1>1, <2>1, <2>2 DEF DrawnInv, DoneInv, Top, WalkInv, TreeInv
  <1>10. ASSUME NEW x \in Live', s \in Above(x)
         PROVE  ~Stale(x) /\ (x \in Dirty => Above(x) \subseteq Dirty)
    <2>1. x \in Live
      BY <1>4
    <2>2. PICK c \in Above(x) \cup {x}: scopes[c].parent = s
      BY <2>1, <1>10 DEF WalkInv, TreeInv
    <2>3. c \in Live'
      BY <2>2, <1>6
    <2>4. c \in Range(Top.next)
      BY <2>2, <2>3, <1>4 DEF Children
    <2>5. x \in Below(c) \cup {c}
      BY <2>1, <2>2 DEF Below
    <2> QED BY <2>4, <2>5, <1>9 DEF Done
  <1>11. MarksInv'
    <2>1. ASSUME NEW x \in Dirty', NEW a \in Above(x), a \notin Expanding'
          PROVE  a \in Dirty'
      <3>1. x \in Dirty /\ x \in Live' /\ a \in Live'
        BY <2>1, <1>6, <1>8
      <3>2. CASE a \in Expanding
        <4>1. a = s
          BY <2>1, <3>2, <1>4
        <4> QED BY <3>1, <4>1, <1>8, <1>10
      <3>3. CASE a \notin Expanding
        BY <3>1, <3>3, <1>8 DEF DrawnInv, MarksInv
      <3> QED BY <3>2, <3>3
    <2>2. ASSUME NEW x \in Dirty' \cap Expanding'
          PROVE  Above(x)' \subseteq Dirty'
      <3>1. x \in Dirty \cap Expanding /\ x \in Live'
        BY <1>4, <1>8
      <3>2. Above(x) \subseteq Dirty
        BY <3>1 DEF DrawnInv, MarksInv
      <3> QED BY <3>1, <3>2, <1>6, <1>8
    <2>3. ASSUME NEW x \in Live', Stale(x)'
          PROVE  x \in Dirty' \ Expanding'
      <3>1. x \in Dirty \ Expanding
        BY <2>3, <1>4, <1>7 DEF DrawnInv, MarksInv
      <3> QED BY <3>1, <1>4, <1>8
    <2>4. \A x \in Dirty': Above(x)' = Above(x)
      BY <1>6, <1>8
    <2> QED BY <2>1, <2>2, <2>3, <2>4, <1>1 DEF MarksInv
  <1>12. OffersInv'
    BY <1>1, <1>3, <1>4, <1>5 DEF DrawnInv, OffersInv
  <1>13. ASSUME NEW c \in Live', Done(c)
         PROVE  Done(c)'
    <2>1. \A x: x \in Below(c)' <=> x \in Below(c) /\ x \in Live'
      BY <1>4, <1>6 DEF Below
    <2>2. ASSUME NEW x \in Below(c) \cup {c}, x \in Live'
          PROVE  ~Stale(x)' /\ (x \in Dirty' => Above(x)' \subseteq Dirty')
      <3>1. ~Stale(x) /\ (x \in Dirty => Above(x) \subseteq Dirty)
        BY <1>13 DEF Done
      <3> QED BY <2>2, <3>1, <1>6, <1>7, <1>8
    <2> QED BY <2>1, <2>2 DEF Done
  <1>14. Done(s)'
    <2>1. s \in Expanding
      BY <1>4
    <2>2. ~Stale(s)' /\ (s \in Dirty' => Above(s)' \subseteq Dirty')
      <3>1. ~Stale(s) /\ (s \in Dirty => Above(s) \subseteq Dirty)
        BY <2>1 DEF DrawnInv, MarksInv
      <3> QED BY <3>1, <1>4, <1>6, <1>7, <1>8
    <2>3. ASSUME NEW x \in Below(s)'
          PROVE  ~Stale(x)' /\ (x \in Dirty' => Above(x)' \subseteq Dirty')
      <3>1. x \in Live' /\ s \in Above(x)
        BY <1>6 DEF Below
      <3>2. ~Stale(x) /\ (x \in Dirty => Above(x) \subseteq Dirty)
        BY <3>1, <1>10
      <3> QED BY <3>1, <3>2, <1>6, <1>7, <1>8
    <2> QED BY <2>2, <2>3 DEF Done
  <1>15. DoneInv'
    <2>1. ASSUME NEW n \in DOMAIN stack', NEW c \in Range(stack'[n].next), c \notin Expanding'
          PROVE  Done(c)'
      <3>1. n \in DOMAIN stack /\ stack'[n] = stack[n] /\ n # Len(stack)
        BY <1>1, TopOf DEF WalkInv
      <3>2. c \in Children(stack[n].scope) /\ stack[n].scope \in Expanding'
        <4>1. c \in Children(stack[n].scope)
          BY <3>1 DEF WalkInv, CursorInv
        <4>2. Expanding' = {stack'[m].scope: m \in DOMAIN stack'}
          BY DEF Expanding
        <4> QED BY <3>1, <4>1, <4>2
      <3>3. c \in Live'
        <4>1. stack[n].scope \in Live \ gone /\ stack[n].scope # s
          BY <3>2, <1>4, <1>6 DEF WalkInv, TreeInv
        <4>2. Children(stack[n].scope) \cap gone = {}
          BY <4>1, <1>1, <1>2, <1>3, GoneFacts
        <4> QED BY <3>2, <4>2, <1>4 DEF Children
      <3>4. CASE c = s
        BY <3>4, <1>14
      <3>5. CASE c # s
        <4>1. c \notin Expanding
          BY <2>1, <3>5, <1>4
        <4>2. Done(c)
          BY <2>1, <3>1, <3>3, <4>1, <1>1, <1>4 DEF DrawnInv, DoneInv, WalkInv, TreeInv
        <4> QED BY <3>3, <4>2, <1>13
      <3> QED BY <3>4, <3>5
    <2>2. stack' = <<>> => s = root
      <3>1. Len(stack) \in Nat /\ Len(stack') = Len(stack) - 1
        BY <1>1, TopOf, FinishFacts DEF WalkInv
      <3>2. Len(stack') = 0 => Len(stack) = 1
        BY <3>1
      <3>3. Len(stack) = 1 => s = root
        BY <1>1, <1>2 DEF WalkInv, StackInv, Top
      <3>4. stack' = <<>> => Len(stack') = 0
        OBVIOUS
      <3> QED BY <3>2, <3>3, <3>4
    <2> QED BY <2>1, <2>2, <1>14 DEF DoneInv
  <1> QED BY <1>11, <1>12, <1>15 DEF DrawnInv

\* What else a component does when it runs.
LEMMA RenderMore ==
    ASSUME EffectsInv, WalkInv, Render, NEW me, me = entering
    PROVE  /\ at = "frame" /\ at' = "frame" /\ entering # None /\ entering' = None
           /\ Above(me) = Expanding /\ me \notin Expanding /\ Expanding' = Expanding \cup {me}
           /\ UNCHANGED states
           /\ DOMAIN offers' = DOMAIN offers \cup ({me} \cap {x \in Live: scopes[x].type \in Offering})
           /\ \A p \in DOMAIN offers': IF p = me /\ scopes[me].type \in Offering
                                       THEN offers'[p] = states[me].value
                                       ELSE offers'[p] = offers[p]
           /\ stack' # <<>>
           /\ \A n \in DOMAIN stack': \A c \in Range(stack'[n].next):
                 n \in DOMAIN stack /\ c \in Range(stack[n].next)
  <1>1. /\ me \in Live /\ Live' = Live
        /\ \A x \in Live: \A field \in Fields \ {"dirty", "rendered", "produced"}:
              scopes'[x][field] = scopes[x][field]
    BY RenderFacts
  <1>2. /\ at = "frame" /\ at' = "frame" /\ entering' = None /\ UNCHANGED states
        /\ offers' = IF scopes[me].type \in Offering THEN Extend(offers, me, states[me].value)
                     ELSE offers
    BY DEF Render
  <1>3. me # None
    BY <1>1 DEF WalkInv, TreeInv
  <1>4. Above(me) = Expanding /\ me \notin Expanding
    BY <1>3, Entering
  <1>5. /\ DOMAIN offers' = DOMAIN offers \cup ({me} \cap {x \in Live: scopes[x].type \in Offering})
        /\ \A p \in DOMAIN offers': IF p = me /\ scopes[me].type \in Offering
                                    THEN offers'[p] = states[me].value
                                    ELSE offers'[p] = offers[p]
    BY <1>1, <1>2 DEF Extend
  <1>6. PICK new: /\ stack' = Append(stack, new)
                  /\ new = Cursor(me, PartsOf(scopes[me].type, states[me].value))
    BY DEF Render
  <1>7. new.next = <<>> /\ new.scope = me
    BY <1>6 DEF Cursor
  <1>8. /\ DOMAIN stack = 1..Len(stack) /\ Len(stack) \in Nat /\ stack \in Seq(CursorSet)
    BY DEF WalkInv, StackInv
  <1>9. /\ DOMAIN stack' = 1..(Len(stack) + 1) /\ stack'[Len(stack) + 1] = new
        /\ \A n \in 1..Len(stack): stack'[n] = stack[n]
    BY <1>6, <1>8
  <1>10. Expanding' = Expanding \cup {me}
    <2>1. \A n: n \in DOMAIN stack' <=> n \in DOMAIN stack \/ n = Len(stack) + 1
      BY <1>8, <1>9
    <2>2. \A n \in DOMAIN stack: stack'[n] = stack[n]
      BY <1>8, <1>9
    <2>3. \A x: x \in Expanding' <=> \E n \in DOMAIN stack': x = stack'[n].scope
      BY DEF Expanding
    <2>4. \A x: x \in Expanding <=> \E n \in DOMAIN stack: x = stack[n].scope
      BY DEF Expanding
    <2> QED BY <2>1, <2>2, <2>3, <2>4, <1>7, <1>9
  <1>11. ASSUME NEW n \in DOMAIN stack', NEW c \in Range(stack'[n].next)
         PROVE  n \in DOMAIN stack /\ c \in Range(stack[n].next)
    <2>1. n = Len(stack) + 1 => Range(stack'[n].next) = {}
      BY <1>7, <1>9 DEF Range
    <2>2. n \in 1..Len(stack)
      BY <2>1, <1>8, <1>9, <1>11
    <2> QED BY <2>2, <1>8, <1>9, <1>11
  <1>12. stack' # <<>>
    BY <1>8, <1>9
  <1> QED BY <1>2, <1>3, <1>4, <1>5, <1>10, <1>11, <1>12

\* A component that has run shows what it should.
LEMMA RenderShown ==
    ASSUME EffectsInv, WalkInv, Render, NEW me, me = entering
    PROVE  ~Stale(me)'
  <1>1. /\ me \in Live /\ Live' = Live
        /\ \A y \in Live: \A field \in Fields \ {"dirty", "rendered", "produced"}:
              scopes'[y][field] = scopes[y][field]
        /\ scopes'[me].rendered = TRUE
        /\ scopes'[me].produced = [props |-> scopes[me].props, value |-> states[me].value,
                                   seen |-> Seen(me)]
    BY RenderFacts
  <1>2. /\ at = "frame" /\ UNCHANGED states
        /\ DOMAIN offers' = DOMAIN offers \cup ({me} \cap {y \in Live: scopes[y].type \in Offering})
        /\ \A p \in DOMAIN offers': IF p = me /\ scopes[me].type \in Offering
                                    THEN offers'[p] = states[me].value
                                    ELSE offers'[p] = offers[p]
    BY RenderMore
  <1>3. \A y \in Live: /\ scopes'[y].above = scopes[y].above
                       /\ scopes'[y].type = scopes[y].type
                       /\ scopes'[y].props = scopes[y].props
    BY <1>1 DEF Fields
  <1>4. Seen(me)' = Seen(me)
    <2>1. CASE scopes[me].type \in Offering
      <3>1. scopes[me].type \notin Reading /\ scopes'[me].type \notin Reading
        BY <2>1, <1>1, <1>3, LoomAssumption
      <3> QED BY <3>1 DEF Seen
    <2>2. CASE scopes[me].type \notin Offering
      <3>1. \A p \in Above(me) \cup {me}: Above(p)' = Above(p)
        BY <1>1, <1>3 DEF Above, WalkInv, TreeInv
      <3>2. DOMAIN offers' = DOMAIN offers /\ \A p \in DOMAIN offers: offers'[p] = offers[p]
        BY <2>2, <1>2
      <3> QED BY <3>1, <3>2, <1>1, <1>3, SeenKept
    <2> QED BY <2>1, <2>2
  <1>5. /\ scopes'[me].produced.value = states[me].value
        /\ scopes'[me].produced.props = scopes[me].props
        /\ scopes'[me].produced.seen = Seen(me)
    BY <1>1
  <1>6. states[me].pending = {}
    BY <1>1, <1>2 DEF WalkInv, StatesInv
  <1> QED BY <1>1, <1>2, <1>3, <1>4, <1>5, <1>6 DEF Stale

\* A scope that no longer sees what it read is one of those the new value marks.
LEMMA RenderStale ==
    ASSUME EffectsInv, WalkInv, OffersInv, Render, NEW me, me = entering,
           NEW x \in Live, Stale(x)', ~Stale(x)
    PROVE  x \in RenderReaders(me) /\ me \in Above(x)
  <1>1. /\ me \in Live /\ Live' = Live
        /\ \A y \in Live: \A field \in Fields \ {"dirty", "rendered", "produced"}:
              scopes'[y][field] = scopes[y][field]
        /\ \A y \in Live \ {me}: /\ scopes'[y].rendered = scopes[y].rendered
                                 /\ scopes'[y].produced = scopes[y].produced
        /\ scopes'[me].rendered = TRUE
        /\ scopes'[me].produced = [props |-> scopes[me].props, value |-> states[me].value,
                                   seen |-> Seen(me)]
    BY RenderFacts
  <1>2. /\ at = "frame" /\ UNCHANGED states
        /\ DOMAIN offers' = DOMAIN offers \cup ({me} \cap {y \in Live: scopes[y].type \in Offering})
        /\ \A p \in DOMAIN offers': IF p = me /\ scopes[me].type \in Offering
                                    THEN offers'[p] = states[me].value
                                    ELSE offers'[p] = offers[p]
    BY RenderMore
  <1>3. \A y \in Live: /\ scopes'[y].above = scopes[y].above
                       /\ scopes'[y].type = scopes[y].type
                       /\ scopes'[y].props = scopes[y].props
    BY <1>1 DEF Fields
  <1>4. \A y \in Live: Above(y)' = Above(y) /\ Above(y) \subseteq Live
    BY <1>3 DEF Above, WalkInv, TreeInv
  <1>5. \A p \in DOMAIN offers: p # me => offers'[p] = offers[p] /\ p \in DOMAIN offers'
    BY <1>2
  <1>6. ASSUME NEW y \in Live, me \notin Above(y) \cup {y} \/ scopes[me].type \notin Offering
        PROVE  Seen(y)' = Seen(y)
    <2>1. \A p \in Above(y) \cup {y}: Above(p)' = Above(p)
      BY <1>4
    <2>2. \A p \in Above(y) \cup {y}: p \in DOMAIN offers' <=> p \in DOMAIN offers
      BY <1>2, <1>6
    <2>3. \A p \in (Above(y) \cup {y}) \cap DOMAIN offers: offers'[p] = offers[p]
      BY <1>2, <1>6
    <2> QED BY <2>1, <2>2, <2>3, <1>3, SeenKept
  <1>7. x # me
    BY RenderShown
  <1>8. Seen(x)' # Seen(x) /\ scopes[x].rendered
    BY <1>1, <1>2, <1>3, <1>7 DEF Stale
  <1>9. me \in Above(x) /\ scopes[me].type \in Offering
    BY <1>6, <1>7, <1>8
  <1>10. me \in DOMAIN offers
    <2> SUFFICES ASSUME me \notin DOMAIN offers
                 PROVE  FALSE
      OBVIOUS
    <2>1. ~scopes[me].rendered
      BY <1>1, <1>9 DEF OffersInv
    <2>2. Range(scopes[me].children) = {}
      BY <2>1, <1>1 DEF WalkInv, ShapeInv, Range
    <2>3. PICK c \in Above(x) \cup {x}: scopes[c].parent = me
      BY <1>9 DEF WalkInv, TreeInv
    <2>4. c \in Children(me)
      BY <2>3, <1>4 DEF Children
    <2> QED BY <2>2, <2>4, <1>1 DEF WalkInv, ChildrenInv
  <1>11. DOMAIN offers' = DOMAIN offers
    BY <1>2, <1>10
  <1>12. offers[me] # states[me].value
    <2> SUFFICES ASSUME offers[me] = states[me].value
                 PROVE  FALSE
      OBVIOUS
    <2>1. \A p \in DOMAIN offers: offers'[p] = offers[p]
      BY <1>2, <1>10
    <2>2. \A p \in Above(x) \cup {x}: Above(p)' = Above(p)
      BY <1>4
    <2>3. Seen(x)' = Seen(x)
      BY <2>1, <2>2, <1>3, <1>11, SeenKept
    <2> QED BY <2>3, <1>8
  <1>13. scopes[x].type \in Reading
    BY <1>3, <1>8 DEF Seen
  <1>14. Above(x) \cap Below(me) \cap DOMAIN offers = {}
    <2> SUFFICES ASSUME NEW p \in Above(x) \cap Below(me) \cap DOMAIN offers
                 PROVE  FALSE
      OBVIOUS
    <2> DEFINE offering == (Above(x) \cup {x}) \cap DOMAIN offers
               near == {q \in offering: offering \ {q} \subseteq Above(q)}
    <2>1. me \notin near
      <3>1. p \in offering \ {me} /\ p \notin Above(me)
        BY Apart, <1>4 DEF Below, WalkInv
      <3> QED BY <3>1
    <2>2. offering' = offering
      BY <1>4, <1>11
    <2>3. \A q \in offering: Above(q)' = Above(q)
      BY <1>4
    <2> HIDE DEF offering
    <2>4. near' = near
      BY <2>2, <2>3
    <2>5. \A q \in near: offers'[q] = offers[q]
      BY <2>1, <1>5 DEF offering
    <2>6. Context(x)' = {offers'[q]: q \in near'}
      BY DEF Context, offering
    <2>7. Context(x) = {offers[q]: q \in near}
      BY DEF Context, offering
    <2> HIDE DEF near
    <2>8. Context(x)' = Context(x)
      BY <2>4, <2>5, <2>6, <2>7
    <2> QED BY <2>8, <1>3, <1>8 DEF Seen
  <1>15. x \in Readers(me)
    BY <1>8, <1>9, <1>13, <1>14 DEF Readers, Below
  <1> QED BY <1>9, <1>10, <1>12, <1>15 DEF RenderReaders

\* Running a component marks those that read what it provides, and leads the
\* way to them.
LEMMA RenderDrawn == ASSUME EffectsInv, WalkInv, DrawnInv, Render PROVE DrawnInv'
  <1>1. PICK me: me = entering
    OBVIOUS
  <1>2. /\ me \in Live /\ Live' = Live /\ me \in Dirty
        /\ \A y \in Live: \A field \in Fields \ {"dirty", "rendered", "produced"}:
              scopes'[y][field] = scopes[y][field]
        /\ \A y \in Live \ {me}: scopes'[y].rendered = scopes[y].rendered
        /\ Dirty' = (Dirty \ {me}) \cup (RenderMarks(me) \cap Live)
    BY <1>1, RenderFacts
  <1>3. /\ at = "frame" /\ at' = "frame" /\ entering # None /\ entering' = None
        /\ Above(me) = Expanding /\ me \notin Expanding /\ Expanding' = Expanding \cup {me}
        /\ DOMAIN offers' = DOMAIN offers \cup ({me} \cap {y \in Live: scopes[y].type \in Offering})
        /\ stack' # <<>>
        /\ \A n \in DOMAIN stack': \A c \in Range(stack'[n].next):
              n \in DOMAIN stack /\ c \in Range(stack[n].next)
    BY <1>1, RenderMore
  <1>4. \A y \in Live: /\ scopes'[y].above = scopes[y].above
                       /\ scopes'[y].type = scopes[y].type
    BY <1>2 DEF Fields
  <1>5. \A y \in Live: Above(y)' = Above(y) /\ Above(y) \subseteq Live
    BY <1>4 DEF Above, WalkInv, TreeInv
  <1>6. PICK dirty: dirty = Dirty \ {me}
    OBVIOUS
  <1>7. ASSUME NEW id
        PROVE  id \in RenderMarks(me) <=> \E r \in RenderReaders(me): id \in MarkPath(dirty, r)
    BY <1>6 DEF RenderMarks
  <1>8. RenderReaders(me) \subseteq Below(me)
    BY DEF RenderReaders, Readers
  <1>9. /\ \A y \in Dirty: Above(y) \subseteq Dirty \cup Expanding
        /\ \A y \in Dirty \cap Expanding: Above(y) \subseteq Dirty
        /\ \A y \in Live: Stale(y) => y \in Dirty \ Expanding
    BY DEF DrawnInv, MarksInv
  <1>10. dirty \subseteq Dirty' /\ Dirty' \subseteq Live /\ dirty \subseteq Live
    BY <1>2, <1>6 DEF Dirty
  <1>11. ASSUME NEW id \in Dirty'
         PROVE  /\ id \in Live
                /\ id \in dirty \/ \E r \in RenderReaders(me): id \in MarkPath(dirty, r)
    BY <1>2, <1>6, <1>7, <1>10
  <1>12. ASSUME NEW r \in RenderReaders(me), NEW id \in MarkPath(dirty, r), id \in Live
         PROVE  id \in Dirty'
    BY <1>2, <1>7, <1>12
  <1>13. ASSUME NEW id \in Dirty', NEW b \in Above(id)
         PROVE  b \in Dirty' \cup Expanding'
    <2>1. CASE id \in dirty
      BY <2>1, <1>3, <1>6, <1>9, <1>10
    <2>2. ASSUME NEW r \in RenderReaders(me), id \in MarkPath(dirty, r)
          PROVE  b \in Dirty' \cup Expanding'
      <3>1. r \in Live
        BY <1>8 DEF Below
      <3>2. b \in Live /\ (b \in MarkPath(dirty, r) \/ \E c \in Above(r) \cap dirty: c = b \/ b \in Above(c))
        BY <2>2, <3>1, <1>5, <1>11, PathLeadsUp DEF WalkInv
      <3>3. ASSUME NEW c \in Above(r) \cap dirty, b \in Above(c)
            PROVE  b \in Dirty' \cup Expanding'
        BY <3>3, <1>3, <1>6, <1>9, <1>10
      <3> QED BY <3>2, <3>3, <1>10, <1>12
    <2> QED BY <2>1, <2>2, <1>11
  <1>14. ASSUME NEW id \in Dirty' \cap Expanding', NEW b \in Above(id)
         PROVE  b \in Dirty'
    <2>1. ASSUME NEW y \in dirty \cap Expanding
          PROVE  Above(y) \subseteq dirty
      <3>1. Above(y) \subseteq Dirty /\ y \in Above(me)
        BY <1>3, <1>6, <1>9
      <3>2. me \notin Above(y)
        BY <3>1, <1>2, Apart DEF WalkInv
      <3> QED BY <3>1, <3>2, <1>6
    <2>2. CASE id \in dirty
      <3>1. id \in Expanding
        BY <2>2, <1>3, <1>6
      <3> QED BY <2>1, <2>2, <3>1, <1>10
    <2>3. ASSUME NEW r \in RenderReaders(me), id \in MarkPath(dirty, r)
          PROVE  b \in Dirty'
      <3>1. r \in Live /\ me \in Above(r)
        BY <1>8 DEF Below
      <3>2. r \notin Expanding' /\ id # r
        BY <3>1, <1>2, <1>3, Apart DEF WalkInv
      <3>3. /\ id \in Above(r) /\ b \in Live
            /\ b \in MarkPath(dirty, r) \/ \E c \in Above(r) \cap dirty: c = b \/ b \in Above(c)
            /\ \A c \in Above(r) \cap dirty: c # id /\ id \notin Above(c)
        BY <2>3, <3>1, <3>2, <1>5, <1>11, PathLeadsUp DEF WalkInv
      <3>4. ASSUME NEW c \in Above(r) \cap dirty, b \in Above(c)
            PROVE  b \in Dirty'
        <4>1. c \in Above(id)
          BY <3>1, <3>3 DEF WalkInv, TreeInv
        <4>2. Above(id) \subseteq Expanding
          <5>1. CASE id = me
            BY <5>1, <1>3
          <5>2. CASE id \in Expanding
            BY <5>2, <1>2, <1>3 DEF WalkInv, TreeInv
          <5> QED BY <5>1, <5>2, <1>3
        <4> QED BY <4>1, <4>2, <3>4, <2>1, <1>10
      <3> QED BY <3>3, <3>4, <1>10, <1>12
    <2> QED BY <2>2, <2>3, <1>11
  <1>15. ASSUME NEW x \in Live, Stale(x)', ~Stale(x)
         PROVE  x \in Dirty' /\ me \in Above(x)
    <2>1. x \in RenderReaders(me) /\ me \in Above(x)
      BY <1>1, <1>15, RenderStale DEF DrawnInv
    <2>2. x \in MarkPath(dirty, x)
      BY DEF MarkPath
    <2> QED BY <2>1, <2>2, <1>12
  <1>16. ASSUME NEW x \in Live, Stale(x)'
         PROVE  x \in Dirty' \ Expanding'
    <2>1. CASE Stale(x)
      <3>1. x # me
        <4>1. ~Stale(me)'
          BY <1>1, RenderShown DEF DrawnInv
        <4> QED BY <4>1, <1>16
      <3> QED BY <2>1, <3>1, <1>3, <1>6, <1>9, <1>10
    <2>2. CASE ~Stale(x)
      <3>1. x \in Dirty' /\ me \in Above(x)
        BY <2>2, <1>15, <1>16
      <3>2. x # me /\ x \notin Above(me)
        BY <3>1, <1>2, Apart DEF WalkInv
      <3> QED BY <3>1, <3>2, <1>3
    <2> QED BY <2>1, <2>2
  <1>17. MarksInv'
    <2>1. \A x \in Dirty': Above(x)' = Above(x)
      BY <1>5, <1>10
    <2> QED BY <2>1, <1>2, <1>3, <1>13, <1>14, <1>16 DEF MarksInv
  <1>18. OffersInv'
    <2>1. scopes[me].type \in Offering => me \in DOMAIN offers'
      BY <1>2, <1>3
    <2> QED BY <2>1, <1>2, <1>3, <1>4 DEF DrawnInv, OffersInv
  <1>19. ASSUME NEW n \in DOMAIN stack, NEW c \in Range(stack[n].next), c \notin Expanding', Done(c)
         PROVE  Done(c)'
    <2>1. c \in Live /\ Above(c) \subseteq Expanding /\ c # me /\ c \notin Expanding
      <3>1. c \in Children(stack[n].scope)
        BY DEF WalkInv, CursorInv
      <3> QED BY <3>1, <1>3, <1>19, ExpandingBelow DEF WalkInv
    <2>2. ASSUME NEW x \in Below(c) \cup {c}
          PROVE  x \in Live /\ x # me /\ me \notin Above(x) /\ x \notin Expanding
      <3>1. x \in Live /\ (x = c \/ c \in Above(x))
        BY <2>1 DEF Below
      <3>2. x \notin Above(me) /\ x # me
        BY <3>1, <2>1, <1>2, <1>3 DEF WalkInv, TreeInv
      <3>3. ASSUME me \in Above(x)
            PROVE  FALSE
        <4>1. x # c
          BY <3>3, <2>1, <1>3
        <4>2. me \in Above(c) \/ c \in Above(me)
          BY <3>1, <3>3, <4>1, <2>1 DEF WalkInv, TreeInv
        <4> QED BY <4>2, <2>1, <1>3
      <3> QED BY <3>1, <3>2, <3>3, <1>3
    <2>3. ASSUME NEW x \in Below(c) \cup {c}
          PROVE  ~Stale(x)' /\ (x \in Dirty' => Above(x)' \subseteq Dirty')
      <3>1. ~Stale(x) /\ (x \in Dirty => Above(x) \subseteq Dirty)
        BY <1>19 DEF Done
      <3>2. ~Stale(x)'
        BY <3>1, <2>2, <1>15
      <3>3. ASSUME x \in Dirty'
            PROVE  x \in dirty
        <4> SUFFICES ASSUME NEW r \in RenderReaders(me), x \in MarkPath(dirty, r)
                     PROVE  FALSE
          BY <3>3, <1>11
        <4>1. r \in Live /\ me \in Above(r)
          BY <1>8 DEF Below
        <4>2. x = r \/ x \in Above(r)
          BY DEF MarkPath
        <4>3. me \in Above(x) \/ x \in Above(me) \/ x = me
          BY <4>1, <4>2 DEF WalkInv, TreeInv
        <4> QED BY <4>3, <2>2, <1>3
      <3>4. x \in dirty => Above(x) \subseteq Dirty'
        BY <3>1, <2>2, <1>6, <1>10
      <3> QED BY <3>2, <3>3, <3>4, <2>2, <1>5
    <2>4. Below(c)' = Below(c)
      BY <1>2, <1>5 DEF Below
    <2> QED BY <2>3, <2>4 DEF Done
  <1>20. DoneInv'
    <2>1. ASSUME NEW n \in DOMAIN stack', NEW c \in Range(stack'[n].next), c \notin Expanding'
          PROVE  Done(c)'
      <3>1. n \in DOMAIN stack /\ c \in Range(stack[n].next)
        BY <1>3
      <3>2. Done(c)
        BY <2>1, <3>1, <1>1, <1>3 DEF DrawnInv, DoneInv
      <3> QED BY <2>1, <3>1, <3>2, <1>19
    <2> QED BY <2>1, <1>3 DEF DoneInv
  <1> QED BY <1>17, <1>18, <1>20 DEF DrawnInv

\* At first everything there is, the root, is marked.
LEMMA InitDrawn == ASSUME Init PROVE DrawnInv
  <1>1. /\ Live = {root} /\ Expanding = {} /\ DOMAIN offers = {} /\ stack = <<>> /\ at # "frame"
        /\ marked = {root}
    BY DEF Init, Live, Expanding
  <1>2. ~scopes[root].rendered /\ scopes[root].dirty /\ Above(root) = {}
    BY DEF Init, NewMounted, Above
  <1>3. Dirty = {root}
    BY <1>1, <1>2 DEF Dirty
  <1>4. OffersInv /\ MarksInv /\ DoneInv
    BY <1>1, <1>2, <1>3 DEF OffersInv, MarksInv, DoneInv
  <1> QED BY <1>4 DEF DrawnInv

\* A write marks its component, unless it changes nothing.
LEMMA WriteDrawn ==
    ASSUME EffectsInv, WalkInv, DrawnInv, at # "frame", at' # "frame", UNCHANGED <<stack, offers>>,
           NEW id \in Live, NEW v, WriteSlot(id, v)
    PROVE  DrawnInv'
  <1>1. PICK ids: /\ ids = (IF v # states[id].value THEN {id} ELSE {})
                  /\ Mark(ids)
    BY DEF WriteSlot
  <1>2. /\ Live' = Live /\ marked' = marked \cup ids
        /\ \A x \in Live: \A field \in Fields \ {"dirty"}: scopes'[x][field] = scopes[x][field]
    BY <1>1, MarkFacts DEF EffectsInv
  <1>3. SameShown /\ stack = <<>>
    BY <1>2 DEF SameShown, WalkInv, StackInv
  <1>4. \A x \in Live: /\ states'[x].value = states[x].value
                       /\ x # id => states'[x].pending = states[x].pending
                       /\ x = id => states'[x].pending = {v} \/ states'[x].pending = states[x].pending
    BY DEF WriteSlot, WalkInv, StatesInv
  <1>5. ASSUME NEW x \in Live, Stale(x)'
        PROVE  x \in ids \/ (Stale(x) /\ marked # {})
    <2>1. Stale(x) => marked # {}
      BY DEF DrawnInv, MarksInv
    <2>2. CASE states'[x].pending = states[x].pending
      BY <2>1, <2>2, <1>3, <1>4, <1>5, StaleKept DEF WalkInv
    <2>3. CASE x = id /\ states'[x].pending = {v} /\ v = states[id].value
      <3>1. \A y \in Live: /\ scopes'[y].type = scopes[y].type
                           /\ scopes'[y].above = scopes[y].above
                           /\ scopes'[y].props = scopes[y].props
                           /\ scopes'[y].rendered = scopes[y].rendered
                           /\ scopes'[y].produced = scopes[y].produced
        BY <1>2 DEF Fields
      <3>2. \A p \in Above(x) \cup {x}: Above(p)' = Above(p)
        BY <3>1 DEF Above, WalkInv, TreeInv
      <3>3. Seen(x)' = Seen(x)
        BY <3>1, <3>2, SeenKept
      <3>4. Stale(x)
        BY <2>3, <3>1, <3>3, <1>4, <1>5 DEF Stale
      <3> QED BY <3>4, <2>1
    <2>4. CASE x = id /\ v # states[id].value
      BY <2>4, <1>1
    <2> QED BY <2>2, <2>3, <2>4, <1>4
  <1>6. ids \in SUBSET Live
    BY <1>1
  <1>7. MarksInv'
    BY <1>1, <1>3, <1>5, <1>6, MarkMarks DEF EffectsInv, DrawnInv
  <1> QED BY <1>3, <1>7, QuietDrawn

\* Marking keeps what is drawn, when nothing is left to do or nothing changes.
LEMMA MarkDrawn ==
    ASSUME EffectsInv, WalkInv, DrawnInv, at' # "frame", stack = <<>>,
           UNCHANGED <<stack, offers, states>>, NEW ids \in SUBSET Live, Mark(ids),
           at = "frame" => Done(root)
    PROVE  DrawnInv'
  <1>1. /\ Live' = Live
        /\ \A x \in Live: \A field \in Fields \ {"dirty"}: scopes'[x][field] = scopes[x][field]
    BY MarkFacts DEF EffectsInv
  <1>2. SameShown
    BY <1>1 DEF SameShown
  <1>3. ASSUME NEW x \in Live, Stale(x)'
        PROVE  Stale(x) /\ marked # {}
    <2>1. Stale(x)
      BY <1>2, <1>3, StaleKept DEF WalkInv
    <2>2. at # "frame"
      BY <2>1, RootDone DEF WalkInv
    <2> QED BY <2>1, <2>2 DEF DrawnInv, MarksInv
  <1>4. MarksInv'
    BY <1>3, MarkMarks DEF EffectsInv, DrawnInv
  <1> QED BY <1>2, <1>4, QuietDrawn

\* Nor does leaving all that is shown as it is.
LEMMA StillDrawn ==
    ASSUME WalkInv, DrawnInv, UNCHANGED <<scopes, offers, states, marked, stack, entering>>,
           at' = at \/ (at # "frame" /\ at' # "frame")
    PROVE  DrawnInv'
  <1>1. SameShown
    BY DEF SameShown, Live
  <1>2. \A x \in Live: Stale(x)' <=> Stale(x)
    BY <1>1, StaleKept DEF WalkInv
  <1>3. MarksInv'
    BY <1>2, StillMarks DEF DrawnInv
  <1>4. CASE at' # "frame"
    BY <1>1, <1>3, <1>4, QuietDrawn DEF WalkInv, StackInv
  <1>5. CASE at = "frame" /\ at' = "frame"
    <2>1. /\ Live' = Live /\ Dirty' = Dirty /\ Expanding' = Expanding
          /\ \A x: Above(x)' = Above(x) /\ Below(x)' = Below(x)
      BY DEF Live, Dirty, Expanding, Above, Below
    <2>2. ASSUME NEW c \in Live
          PROVE  Done(c) => Done(c)'
      BY <2>1, <1>2 DEF Done, Below
    <2>3. \A n \in DOMAIN stack: Range(stack[n].next) \subseteq Live
      BY DEF WalkInv, CursorInv, Children
    <2>4. root \in Live
      BY DEF WalkInv, TreeInv
    <2>5. DoneInv'
      BY <2>1, <2>2, <2>3, <2>4, <1>5 DEF DrawnInv, DoneInv
    <2>6. OffersInv'
      BY DEF DrawnInv, OffersInv, Live
    <2> QED BY <2>5, <2>6, <1>3 DEF DrawnInv
  <1> QED BY <1>4, <1>5

\* Every step keeps what is stale within reach of the next round.
LEMMA NextDrawn == ASSUME IInv, EffectsInv, WalkInv, DrawnInv, [Next]_vars PROVE DrawnInv'
  <1>1. CASE UNCHANGED vars
    BY <1>1, StillDrawn DEF vars, treeVars, loopVars
  <1>2. CASE LayOut
    <2>1. /\ at' # "frame" /\ stack = <<>> /\ UNCHANGED <<stack, offers, states>>
          /\ at = "frame" /\ entering = None
          /\ Mark({}) \/ Mark({root})
      BY <1>2 DEF LayOut
    <2>2. Done(root)
      BY <2>1 DEF DrawnInv, DoneInv
    <2>3. {root} \in SUBSET Live /\ {} \in SUBSET Live
      BY DEF WalkInv, TreeInv
    <2> QED BY <2>1, <2>2, <2>3, MarkDrawn
  <1>3. CASE PaintAll
    BY <1>3, StillDrawn DEF PaintAll, treeVars
  <1>4. CASE Wait
    BY <1>4, StillDrawn DEF Wait, treeVars
  <1>5. ASSUME NEW run \in queue, SkipEffect(run)
        PROVE  DrawnInv'
    BY <1>5, StillDrawn DEF SkipEffect, treeVars, loopVars
  <1>6. ASSUME NEW run \in queue, RunEffect(run)
        PROVE  DrawnInv'
    <2>1. run.scope \in Live
      BY <1>6, CurrentAsks DEF RunEffect, Pending
    <2>2. /\ at # "frame" /\ at' # "frame" /\ UNCHANGED <<stack, offers>>
          /\ WriteSlot(run.scope, None)
      BY <1>6 DEF RunEffect, Took, loopVars
    <2> QED BY <2>1, <2>2, WriteDrawn
  <1>7. ASSUME NEW run \in queue, RunLayoutEffect(run)
        PROVE  DrawnInv'
    <2>1. run.scope \in Live
      BY <1>7 DEF RunLayoutEffect, Current, IInv, HandlesInv, SlotsInv
    <2>2. /\ at # "frame" /\ at' # "frame" /\ UNCHANGED <<stack, offers, entering, at>>
      BY <1>7 DEF RunLayoutEffect, Took
    <2>3. CASE UNCHANGED <<states, scopes, marked>>
      BY <2>2, <2>3, StillDrawn
    <2>4. CASE \E v \in Values: WriteSlot(run.scope, v)
      BY <2>1, <2>2, <2>4, WriteDrawn
    <2> QED BY <1>7, <2>3, <2>4 DEF RunLayoutEffect
  <1>8. Responding => /\ at # "frame" /\ at' # "frame" /\ stack = <<>>
                      /\ UNCHANGED <<stack, offers, entering>>
    BY DEF Responding, WalkInv, StackInv
  <1>9. CASE Resize
    <2>1. Mark(Live) /\ UNCHANGED states
      BY <1>9 DEF Resize
    <2> QED BY <1>8, <1>9, <2>1, MarkDrawn DEF Resize
  <1>10. ASSUME NEW id \in Live, NEW v \in Values, Listen(id, v)
         PROVE  DrawnInv'
    BY <1>8, <1>10, WriteDrawn DEF Listen
  <1>11. ASSUME NEW run \in asked, Answer(run)
         PROVE  DrawnInv'
    <2>1. run.scope \in Live /\ WriteSlot(run.scope, run.deps)
      BY <1>11, CurrentAsks DEF Answer
    <2> QED BY <1>8, <1>11, <2>1, WriteDrawn DEF Answer
  <1>12. ASSUME NEW run \in asked, Refuse(run)
         PROVE  DrawnInv'
    BY <1>8, <1>12, StillDrawn DEF Refuse
  <1>13. CASE AnotherRound
    BY <1>13, StartRoundDrawn DEF AnotherRound
  <1>14. CASE DrawAgain
    BY <1>14, StartRoundDrawn DEF DrawAgain
  <1>15. CASE DrawNext
    BY <1>15, StartRoundDrawn DEF DrawNext
  <1> QED
    BY <1>1, <1>2, <1>3, <1>4, <1>5, <1>6, <1>7, <1>9, <1>10, <1>11, <1>12, <1>13, <1>14,
       <1>15, ReuseDrawn, RenderDrawn, KeepDrawn, MountDrawn, FinishDrawn
    DEF Next

\* NothingLost: whatever is written, provided and drawn, and in whatever order
\* the effects run, a scope that shows something else than it should is found by
\* the next round.
THEOREM NothingIsLost == Spec => []NothingLost
  <1>1. ASSUME WalkInv, DrawnInv
        PROVE  NothingLost
    <2>1. at # "frame" => Expanding = {}
      BY <1>1 DEF WalkInv, StackInv, Expanding
    <2> QED BY <1>1, <2>1 DEF DrawnInv, MarksInv, NothingLost
  <1>2. Init => IInv /\ EffectsInv /\ WalkInv /\ DrawnInv
    BY InitIInv, InitEffects, InitWalk, InitDrawn
  <1>3. IInv /\ EffectsInv /\ WalkInv /\ DrawnInv /\ [Next]_vars
            => IInv' /\ EffectsInv' /\ WalkInv' /\ DrawnInv'
    BY NextIInv, NextEffects, NextWalk, NextDrawn
  <1> QED BY <1>1, <1>2, <1>3, PTL DEF Spec
------------------------------------------------------------------------------
(* What a component shows that has asked.                                  *)
(*                                                                         *)
(* Once the last run of an effect has started, its component's state holds *)
(* the answer to that run, or nothing while the run may still get one      *)
(* (AnswersInv): the run has cleared the state, every answer that comes    *)
(* later is its own, and nobody else writes there, listeners and layout    *)
(* effects being those of other components (LayoutInv).                    *)

\* What a state will be after the next commit.
Latest(id) == IF states[id].pending = {} THEN {states[id].value} ELSE states[id].pending

\* It is the answer to the last run, or that is still awaited.
Answered(id) ==
    \/ Latest(id) = {LastRun(id).deps}
    \/ Latest(id) = {None} /\ LastRun(id) \in asked

\* Layout effects are those of components that have one.
LayoutInv ==
    /\ \A id \in Live: slots[id]["layout"].generation # 0 => scopes[id].type \in Measuring
    /\ \A run \in queued["layout"] \cup queue: run.slot = "layout" => run.generation # 0

\* Every state can be written.
SlotStatesInv == \A id \in Live: "pending" \in DOMAIN states[id]

AnswersInv ==
    /\ at # "handling" => rounds > 0
    /\ rounds \in Nat
    /\ LayoutInv
    /\ SlotStatesInv
    /\ \A id \in Live:
          slots[id]["effect"].generation # 0 /\ LastRun(id) \notin Pending => Answered(id)

\* A step that leaves a scope's effect and state alone, and loses neither its
\* last run nor the address of that.
SameAnswer(id) ==
    /\ slots'[id]["effect"].generation = slots[id]["effect"].generation
    /\ slots'[id]["effect"].deps = slots[id]["effect"].deps
    /\ Latest(id)' = Latest(id)
    /\ LastRun(id) \in Pending => LastRun(id) \in Pending'
    /\ LastRun(id) \in asked => LastRun(id) \in asked'

\* Such a step changes nothing of what the scope shows.
LEMMA SameAnswered ==
    ASSUME AnswersInv, NEW id \in Live, SameAnswer(id)
    PROVE  slots'[id]["effect"].generation # 0 /\ LastRun(id)' \notin Pending' => Answered(id)'
  <1>1. LastRun(id)' = LastRun(id)
    BY DEF SameAnswer, LastRun
  <1> QED BY <1>1 DEF SameAnswer, AnswersInv, Answered

\* A step that leaves all effects and states alone.
LEMMA QuietAnswers ==
    ASSUME IInv, AnswersInv, SlotStatesInv', Live' = Live, UNCHANGED <<slots, rounds>>,
           \A id \in Live: scopes'[id].type = scopes[id].type,
           \A id \in Live: scopes[id].type \in Asking => Latest(id)' = Latest(id),
           \A id \in Live: slots[id]["effect"].generation # 0 => scopes[id].type \in Asking,
           \A run \in Pending: Current(run) => run \in Pending',
           \A run \in asked: Current(run) => run \in asked',
           \A run \in queued'["layout"] \cup queue': run.slot = "layout"
              => run \in queued["layout"] \cup queue,
           at' # "handling" => rounds > 0
    PROVE  AnswersInv'
  <1>1. \A id \in Live: Current(LastRun(id)) /\ id \in DOMAIN slots
    BY DEF LastRun, Current, IInv, HandlesInv, SlotsInv
  <1>2. ASSUME NEW id \in Live, slots[id]["effect"].generation # 0
        PROVE  SameAnswer(id)
    BY <1>1, <1>2 DEF SameAnswer
  <1>3. LayoutInv'
    BY DEF AnswersInv, LayoutInv
  <1>4. ASSUME NEW id \in Live, slots'[id]["effect"].generation # 0, LastRun(id)' \notin Pending'
        PROVE  Answered(id)'
    BY <1>2, <1>4, SameAnswered
  <1> QED BY <1>3, <1>4 DEF AnswersInv

\* An effect that has ever been queued is that of a component that asks.
LEMMA QueuedAsks ==
    ASSUME EffectsInv, NEW id \in Live, slots[id]["effect"].generation # 0
    PROVE  scopes[id].type \in Asking
  BY DEF EffectsInv, DueInv

\* A write changes the state of one scope.
LEMMA WriteLatest ==
    ASSUME EffectsInv, WalkInv, SlotStatesInv, NEW me \in Live, NEW v, WriteSlot(me, v)
    PROVE  /\ Live' = Live /\ SameRenders /\ SlotStatesInv'
           /\ Latest(me)' = {v}
           /\ \A x \in Live: x # me => Latest(x)' = Latest(x)
  <1>1. states' = [states EXCEPT ![me].pending = {v}] /\ DOMAIN states = Live
    BY DEF WriteSlot, WalkInv, StatesInv
  <1>2. \A x \in Live: x # me => states'[x] = states[x]
    BY <1>1
  <1>3. states'[me] = [states[me] EXCEPT !.pending = {v}]
    BY <1>1
  <1>4. Latest(me)' = {v} /\ "pending" \in DOMAIN states'[me]
    BY <1>3 DEF Latest, SlotStatesInv
  <1>5. Live' = Live /\ SameRenders
    BY WriteKeepsLive, MarkRenders DEF WriteSlot, EffectsInv
  <1>6. SlotStatesInv'
    BY <1>2, <1>4, <1>5 DEF SlotStatesInv
  <1> QED BY <1>2, <1>4, <1>5, <1>6 DEF Latest

\* So it is for the answers if the scope has no effect.
LEMMA WriteAnswers ==
    ASSUME IInv, EffectsInv, WalkInv, AnswersInv, UNCHANGED <<slots, rounds, asked>>,
           NEW me \in Live, NEW v, WriteSlot(me, v), scopes[me].type \notin Asking,
           \A run \in Pending: run \in Pending',
           queued'["layout"] \cup queue' \subseteq queued["layout"] \cup queue,
           at' # "handling" => rounds > 0
    PROVE  AnswersInv'
  <1>1. /\ Live' = Live /\ SlotStatesInv'
        /\ \A x \in Live: x # me => Latest(x)' = Latest(x)
        /\ \A x \in Live: scopes'[x].type = scopes[x].type
    BY WriteLatest DEF AnswersInv, SameRenders
  <1>2. \A x \in Live: scopes[x].type \in Asking => Latest(x)' = Latest(x)
    BY <1>1
  <1> QED BY <1>1, <1>2, QueuedAsks, QuietAnswers

\* A round takes up what was written.
LEMMA StartRoundAnswers ==
    ASSUME IInv, EffectsInv, WalkInv, AnswersInv, NEW round \in Nat, round > 0, NEW drawing,
           StartRound(round, drawing)
    PROVE  AnswersInv'
  <1>1. /\ UNCHANGED <<scopes, slots, asked, queued, queue>> /\ rounds' = round
        /\ at' = "frame" /\ Live' = Live /\ Pending' = Pending
    BY DEF StartRound, effectVars, Live, Pending
  <1>2. ASSUME NEW x \in Live
        PROVE  Latest(x)' = Latest(x) /\ "pending" \in DOMAIN states'[x]
    <2>1. /\ x \in DOMAIN states
          /\ states[x].pending # {} => \E v \in states[x].pending: states[x].pending = {v}
      BY DEF WalkInv, StatesInv
    <2>2. /\ states'[x].pending = {}
          /\ states'[x].value = IF states[x].pending = {} THEN states[x].value
                               ELSE CHOOSE v \in states[x].pending: TRUE
          /\ "pending" \in DOMAIN states'[x]
      BY <2>1 DEF StartRound
    <2>3. CASE states[x].pending = {}
      BY <2>2, <2>3 DEF Latest
    <2>4. CASE states[x].pending # {}
      <3>1. PICK v \in states[x].pending: states[x].pending = {v}
        BY <2>1, <2>4
      <3>2. (CHOOSE w \in states[x].pending: TRUE) = v
        BY <3>1
      <3> QED BY <2>2, <2>4, <3>1, <3>2 DEF Latest
    <2> QED BY <2>2, <2>3, <2>4
  <1>3. \A x \in Live: SameAnswer(x)
    BY <1>1, <1>2 DEF SameAnswer
  <1>4. SlotStatesInv' /\ LayoutInv'
    BY <1>1, <1>2 DEF SlotStatesInv, AnswersInv, LayoutInv
  <1>5. \A x \in Live: slots'[x]["effect"].generation # 0 /\ LastRun(x)' \notin Pending'
                         => Answered(x)'
    BY <1>3, SameAnswered
  <1> QED BY <1>1, <1>4, <1>5 DEF AnswersInv

\* An effect that starts clears its state, and awaits its answer.
LEMMA RunEffectAnswers ==
    ASSUME IInv, EffectsInv, WalkInv, AnswersInv, NEW run \in queue, RunEffect(run)
    PROVE  AnswersInv'
  <1> DEFINE me == run.scope
  <1>1. /\ run \in Pending /\ Pending' = Pending \ {run}
        /\ run = LastRun(me) /\ me \in Live /\ run.slot = "effect"
    BY DEF RunEffect, Took, Pending, IInv, QueueInv, EffectsInv, DueInv, Current,
           HandlesInv, SlotsInv
  <1>2. /\ slots' = [slots EXCEPT ![me]["effect"].cleanup = {run}]
        /\ asked' = asked \cup {run} /\ WriteSlot(me, None)
        /\ at = "effect" /\ UNCHANGED <<at, queued, rounds>> /\ queue' = queue \ {run}
    BY DEF RunEffect, loopVars, Took
  <1>3. /\ Live' = Live /\ SlotStatesInv' /\ Latest(me)' = {None}
        /\ \A x \in Live: x # me => Latest(x)' = Latest(x)
        /\ \A x \in Live: scopes'[x].type = scopes[x].type
    BY <1>1, <1>2, WriteLatest DEF AnswersInv, SameRenders
  <1>4. ASSUME NEW x \in Live
        PROVE  /\ slots'[x]["effect"].generation = slots[x]["effect"].generation
               /\ slots'[x]["effect"].deps = slots[x]["effect"].deps
               /\ slots'[x]["layout"] = slots[x]["layout"]
    <2>1. /\ DOMAIN slots = Live /\ DOMAIN slots[me] = Kinds
          /\ DOMAIN slots[me]["effect"] = {"deps", "generation", "cleanup"}
      BY <1>1 DEF IInv, HandlesInv, SlotsInv, Kinds
    <2>2. CASE x = me
      <3>1. slots'[me] = [slots[me] EXCEPT !["effect"] =
                             [slots[me]["effect"] EXCEPT !.cleanup = {run}]]
        BY <1>1, <1>2, <2>1
      <3>2. slots'[me]["effect"] = [slots[me]["effect"] EXCEPT !.cleanup = {run}]
        BY <2>1, <3>1 DEF Kinds
      <3>3. slots'[me]["layout"] = slots[me]["layout"]
        BY <2>1, <3>1 DEF Kinds
      <3> QED BY <2>1, <2>2, <3>2, <3>3
    <2>3. CASE x # me
      <3>1. slots'[x] = slots[x]
        BY <1>2, <2>1, <2>3
      <3> QED BY <3>1
    <2> QED BY <2>2, <2>3
  <1>5. \A x \in Live: LastRun(x)' = LastRun(x) /\ LastRun(x).scope = x
    BY <1>4 DEF LastRun
  <1>6. Answered(me)'
    BY <1>1, <1>2, <1>3, <1>5 DEF Answered
  <1>7. ASSUME NEW x \in Live, x # me
        PROVE  SameAnswer(x)
    <2>1. LastRun(x) # run
      BY <1>5, <1>7
    <2> QED BY <2>1, <1>1, <1>2, <1>3, <1>4, <1>7 DEF SameAnswer
  <1>8. \A x \in Live: slots'[x]["effect"].generation # 0 /\ LastRun(x)' \notin Pending'
                         => Answered(x)'
    BY <1>6, <1>7, SameAnswered
  <1>9. LayoutInv'
    BY <1>2, <1>3, <1>4 DEF AnswersInv, LayoutInv
  <1> QED BY <1>2, <1>3, <1>8, <1>9 DEF AnswersInv

\* An answer that is taken is that of the last run, which has started.
LEMMA AnswerAnswers ==
    ASSUME IInv, EffectsInv, WalkInv, AnswersInv, NEW run \in asked, Answer(run)
    PROVE  AnswersInv'
  <1> DEFINE me == run.scope
  <1>1. /\ me \in Live /\ run.slot = "effect" /\ run \in slots[me]["effect"].cleanup
    BY DEF Answer, Current, IInv, HandlesInv, AskedInv, SlotsInv, RunsInv
  <1>2. /\ UNCHANGED <<slots, queued, queue, rounds>> /\ Pending' = Pending
        /\ at' = "handling" /\ WriteSlot(me, run.deps)
        /\ asked' = asked \/ asked' = asked \ {run}
    BY DEF Answer, Responding, Pending
  <1>3. /\ Live' = Live /\ SlotStatesInv' /\ Latest(me)' = {run.deps}
        /\ \A x \in Live: x # me => Latest(x)' = Latest(x)
        /\ \A x \in Live: scopes'[x].type = scopes[x].type
    BY <1>1, <1>2, WriteLatest DEF AnswersInv, SameRenders
  <1>4. \A x \in Live: LastRun(x)' = LastRun(x) /\ LastRun(x).scope = x
    BY <1>2 DEF LastRun
  <1>5. ASSUME slots'[me]["effect"].generation # 0, LastRun(me)' \notin Pending'
        PROVE  Answered(me)'
    <2>1. slots[me]["effect"].cleanup = {LastRun(me)}
      BY <1>1, <1>2, <1>4, <1>5 DEF EffectsInv, DueInv
    <2>2. run = LastRun(me)'
      BY <1>1, <1>4, <2>1
    <2> QED BY <1>3, <2>2 DEF Answered
  <1>6. ASSUME NEW x \in Live, x # me
        PROVE  SameAnswer(x)
    <2>1. LastRun(x) # run
      BY <1>4, <1>6
    <2> QED BY <2>1, <1>2, <1>3, <1>6 DEF SameAnswer
  <1>7. \A x \in Live: slots'[x]["effect"].generation # 0 /\ LastRun(x)' \notin Pending'
                         => Answered(x)'
    BY <1>5, <1>6, SameAnswered
  <1>8. LayoutInv'
    BY <1>2, <1>3 DEF AnswersInv, LayoutInv
  <1> QED BY <1>2, <1>3, <1>7, <1>8 DEF AnswersInv

\* The run that a render queues is pending; its answer is not due yet.
LEMMA RenderAnswers ==
    ASSUME IInv, EffectsInv, WalkInv, AnswersInv, Render
    PROVE  AnswersInv'
  <1>0. PICK me: me = entering
    OBVIOUS
  <1>1. /\ me \in Live /\ DOMAIN slots' = Live
        /\ \A x \in Live: x # me => slots'[x] = slots[x] /\ LastRun(x)' = LastRun(x)
        /\ slots'[me]["effect"].generation
             = slots[me]["effect"].generation + IF Reasks(me) THEN 1 ELSE 0
        /\ slots'[me]["effect"].deps
             = IF Reasks(me) THEN [props |-> scopes[me].props, seen |-> Seen(me)]
               ELSE slots[me]["effect"].deps
        /\ Pending' = Pending \cup (IF Reasks(me) THEN {LastRun(me)'} ELSE {})
    BY <1>0, RenderRuns
  <1>2. /\ UNCHANGED <<states, asked, queue, at, rounds>> /\ at = "frame"
        /\ slots' = [slots EXCEPT ![me] = NextSlots(me)]
        /\ queued' = [k \in Kinds |-> queued[k] \cup {run \in NextRuns(me): run.slot = k}]
    BY <1>0 DEF Render
  <1>3. /\ Live' = Live
        /\ \A x \in Live: scopes'[x].type = scopes[x].type
    <2>1. "type" \in Fields \ {"dirty", "rendered", "produced"}
      BY DEF Fields
    <2>2. \A x \in Live: \A field \in Fields \ {"dirty", "rendered", "produced"}:
             scopes'[x][field] = scopes[x][field]
      BY <1>0, RenderFacts
    <2>3. Live' = Live
      BY <1>0, RenderFacts
    <2> QED BY <2>1, <2>2, <2>3
  <1>4. \A x \in Live: Latest(x)' = Latest(x)
    BY <1>2 DEF Latest
  <1>5. ASSUME NEW x \in Live, slots'[x]["effect"].generation # 0, LastRun(x)' \notin Pending'
        PROVE  Answered(x)'
    <2>1. CASE x # me
      <3>1. slots'[x] = slots[x]
        BY <1>1, <2>1
      <3>2. SameAnswer(x)
        BY <3>1, <1>1, <1>2, <1>4 DEF SameAnswer
      <3> QED BY <1>5, <3>2, SameAnswered
    <2>2. CASE x = me
      <3>1. ~Reasks(me)
        BY <1>1, <1>5, <2>2
      <3>2. slots[me]["effect"].generation \in Nat
        BY <1>1 DEF IInv, HandlesInv, SlotsInv, Kinds
      <3>3. SameAnswer(me)
        BY <1>1, <1>2, <1>4, <3>1, <3>2 DEF SameAnswer
      <3> QED BY <1>1, <1>5, <2>2, <3>3, SameAnswered
    <2> QED BY <2>1, <2>2
  <1>6. LayoutInv'
    <2>1. ASSUME NEW x \in Live, slots'[x]["layout"].generation # 0
          PROVE  scopes[x].type \in Measuring
      <3>1. CASE x # me
        BY <1>1, <2>1, <3>1 DEF AnswersInv, LayoutInv
      <3>2. CASE x = me
        <4>1. slots'[me] = NextSlots(me)
          BY <1>1, <1>2 DEF IInv, HandlesInv, SlotsInv
        <4>2. CASE "layout" \in Changed(me)
          BY <3>2, <4>2 DEF Changed, Dependencies
        <4>3. CASE "layout" \notin Changed(me)
          <5>1. slots'[me]["layout"] = slots[me]["layout"]
            BY <4>1, <4>3 DEF NextSlots, Kinds
          <5> QED BY <1>1, <2>1, <3>2, <5>1 DEF AnswersInv, LayoutInv
        <4> QED BY <4>2, <4>3
      <3> QED BY <3>1, <3>2
    <2>2. ASSUME NEW run \in queued'["layout"] \cup queue', run.slot = "layout"
          PROVE  run.generation # 0
      <3>1. CASE run \in queued["layout"] \cup queue
        BY <2>2, <3>1 DEF AnswersInv, LayoutInv
      <3>2. CASE run \in NextRuns(me)
        <4>1. PICK k \in Changed(me): run.generation = slots[me][k].generation + 1
          BY <3>2 DEF NextRuns
        <4>2. k \in Kinds
          BY DEF Changed, Dependencies
        <4>3. slots[me][k].generation \in Nat
          BY <1>1, <4>2 DEF IInv, HandlesInv, SlotsInv
        <4> QED BY <4>1, <4>3
      <3>3. queued'["layout"] = queued["layout"] \cup {r \in NextRuns(me): r.slot = "layout"}
        BY <1>2 DEF Kinds
      <3> QED BY <2>2, <3>1, <3>2, <3>3, <1>2
    <2> QED BY <2>1, <2>2, <1>3 DEF LayoutInv
  <1>7. SlotStatesInv'
    BY <1>2, <1>3 DEF AnswersInv, SlotStatesInv
  <1> QED BY <1>2, <1>3, <1>5, <1>6, <1>7 DEF AnswersInv

\* A new scope has queued no effect.
LEMMA MountAnswers ==
    ASSUME IInv, EffectsInv, WalkInv, AnswersInv, Mount
    PROVE  AnswersInv'
  <1>1. PICK id \in ScopeId \ Live:
          /\ Live' = Live \cup {id} /\ at = "frame"
          /\ \A x \in Live: \A field \in Fields \ {"children"}:
                scopes'[x][field] = scopes[x][field]
          /\ \A x \in Live: states'[x] = states[x] /\ slots'[x] = slots[x]
          /\ states'[id] = NewState(Top.parts[1].type) /\ slots'[id] = NewSlots
          /\ UNCHANGED <<asked, at, rounds>>
    BY MountFacts
  <1>2. UNCHANGED <<queued, queue>> /\ Pending' = Pending
    BY DEF Mount, effectVars, Pending
  <1>3. \A k \in Kinds: slots'[id][k].generation = 0
    BY <1>1 DEF NewSlots
  <1>4. \A x \in Live: scopes'[x].type = scopes[x].type
    BY <1>1 DEF Fields
  <1>5. \A x \in Live: SameAnswer(x)
    BY <1>1, <1>2 DEF SameAnswer, Latest
  <1>6. \A x \in Live': slots'[x]["effect"].generation # 0 /\ LastRun(x)' \notin Pending'
                          => Answered(x)'
    BY <1>1, <1>3, <1>5, SameAnswered DEF Kinds
  <1>7. LayoutInv'
    BY <1>1, <1>2, <1>3, <1>4 DEF AnswersInv, LayoutInv, Kinds
  <1>8. SlotStatesInv'
    BY <1>1 DEF AnswersInv, SlotStatesInv, NewState
  <1> QED BY <1>1, <1>6, <1>7, <1>8 DEF AnswersInv

\* Those that stay keep their effects, and what is queued of them.
LEMMA FinishAnswers ==
    ASSUME IInv, EffectsInv, WalkInv, AnswersInv, Finish
    PROVE  AnswersInv'
  <1>1. /\ Live' = Live \ Gone /\ at = "frame" /\ Last(stack) = Top
        /\ \A x \in Live': \A field \in Fields \ {"children"}:
              scopes'[x][field] = scopes[x][field]
        /\ \A x \in Live': states'[x] = states[x]
        /\ UNCHANGED <<at, rounds, asked>>
    BY FinishFacts, TopOf DEF WalkInv
  <1>2. /\ slots' = Restrict(slots, Live \ Gone)
        /\ queued' = [k \in Kinds |-> {run \in queued[k]: run.scope \notin Gone}]
        /\ UNCHANGED queue
    BY <1>1 DEF Finish, Gone
  <1>3. \A x \in Live': slots'[x] = slots[x] /\ scopes'[x].type = scopes[x].type
    BY <1>1, <1>2 DEF Restrict, Fields
  <1>4. \A run \in Pending: run.scope \notin Gone => run \in Pending'
    BY <1>2 DEF Pending, Kinds
  <1>5. \A x \in Live': x \in Live /\ SameAnswer(x)
    BY <1>1, <1>3, <1>4 DEF SameAnswer, Latest, LastRun
  <1>6. \A x \in Live': slots'[x]["effect"].generation # 0 /\ LastRun(x)' \notin Pending'
                          => Answered(x)'
    BY <1>5, SameAnswered
  <1>7. LayoutInv'
    BY <1>1, <1>2, <1>3, <1>5 DEF AnswersInv, LayoutInv, Kinds
  <1>8. SlotStatesInv'
    BY <1>1 DEF AnswersInv, SlotStatesInv
  <1> QED BY <1>1, <1>6, <1>7, <1>8 DEF AnswersInv

\* Nothing has been asked at first.
LEMMA InitAnswers == ASSUME Init PROVE AnswersInv
  <1>1. Live = {root} /\ slots[root] = NewSlots /\ states[root] = NewState(Root)
    BY DEF Init, Live
  <1>2. \A k \in Kinds: slots[root][k].generation = 0
    BY <1>1 DEF NewSlots
  <1>3. LayoutInv
    BY <1>1, <1>2 DEF Init, LayoutInv, Kinds
  <1>4. SlotStatesInv
    BY <1>1 DEF SlotStatesInv, NewState
  <1> QED BY <1>1, <1>2, <1>3, <1>4 DEF Init, AnswersInv, Kinds

\* Every step keeps each state at the answer to what was asked last.
LEMMA NextAnswers ==
    ASSUME IInv, EffectsInv, WalkInv, AnswersInv, [Next]_vars PROVE AnswersInv'
  <1> DEFINE Quiet ==
        /\ SlotStatesInv' /\ Live' = Live /\ UNCHANGED <<slots, rounds>>
        /\ \A id \in Live: scopes'[id].type = scopes[id].type
        /\ \A id \in Live: Latest(id)' = Latest(id)
        /\ \A run \in Pending: Current(run) => run \in Pending'
        /\ \A run \in asked: Current(run) => run \in asked'
        /\ \A run \in queued'["layout"] \cup queue': run.slot = "layout"
              => run \in queued["layout"] \cup queue
        /\ at' # "handling" => rounds > 0
  <1>1. Quiet => AnswersInv'
    BY QuietAnswers, QueuedAsks
  <1>2. /\ at # "handling" => rounds > 0
        /\ rounds \in Nat
        /\ SlotStatesInv
    BY DEF AnswersInv
  <1>3. UNCHANGED <<scopes, states>> =>
          /\ SlotStatesInv' /\ Live' = Live
          /\ \A id \in Live: scopes'[id].type = scopes[id].type /\ Latest(id)' = Latest(id)
    BY <1>2 DEF SlotStatesInv, Latest, Live
  <1>4. \A ids: Mark(ids) /\ UNCHANGED states =>
          /\ SlotStatesInv' /\ Live' = Live
          /\ \A id \in Live: scopes'[id].type = scopes[id].type /\ Latest(id)' = Latest(id)
    BY <1>2, MarkRenders DEF EffectsInv, SameRenders, SlotStatesInv, Latest
  <1>5. CASE UNCHANGED vars
    BY <1>1, <1>2, <1>3, <1>5 DEF vars, treeVars, effectVars, loopVars, Pending
  <1>6. CASE Reuse
    BY <1>1, <1>2, <1>3, <1>6 DEF Reuse, treeVars, effectVars, Pending
  <1>7. CASE Keep
    <2>1. /\ Live' = Live /\ \A x \in Live: scopes'[x].type = scopes[x].type
      BY <1>7, KeepFacts DEF Fields
    <2>2. UNCHANGED <<states, slots, rounds, at>> /\ UNCHANGED <<queued, queue, asked>>
      BY <1>7 DEF Keep, effectVars
    <2> QED BY <1>1, <1>2, <2>1, <2>2 DEF Latest, SlotStatesInv, Pending
  <1>8. CASE LayOut
    <2>1. /\ UNCHANGED <<states, slots, rounds, asked>> /\ at = "frame"
          /\ \E ids: Mark(ids)
          /\ queue' = queued["layout"] /\ queued' = [queued EXCEPT !["layout"] = {}]
      BY <1>8 DEF LayOut
    <2>2. Pending' = Pending
      BY <1>8 DEF LayOut, Pending, IInv, QueueInv, Kinds
    <2>3. queued'["layout"] = {}
      BY <2>1 DEF IInv, QueueInv, Kinds
    <2> QED BY <1>1, <1>2, <1>4, <2>1, <2>2, <2>3
  <1>9. CASE PaintAll
    <2>1. /\ UNCHANGED <<states, scopes, slots, rounds, asked>> /\ at = "layout"
          /\ queue' = queued["effect"] /\ queued' = [queued EXCEPT !["effect"] = {}]
      BY <1>9 DEF PaintAll, treeVars
    <2>2. Pending' = Pending
      BY <1>9 DEF PaintAll, Pending, IInv, QueueInv, Kinds
    <2>3. queued'["layout"] = queued["layout"] /\ \A run \in queue': run.slot = "effect"
      BY <2>1 DEF IInv, QueueInv, Kinds
    <2> QED BY <1>1, <1>2, <1>3, <2>1, <2>2, <2>3
  <1>10. CASE Wait
    BY <1>1, <1>2, <1>3, <1>10 DEF Wait, treeVars, effectVars, Pending
  <1>11. ASSUME NEW run \in queue, SkipEffect(run)
         PROVE  AnswersInv'
    <2>1. /\ UNCHANGED <<states, scopes, slots, rounds, asked, at, queued>>
          /\ queue' = queue \ {run} /\ ~Current(run)
      BY <1>11 DEF SkipEffect, treeVars, loopVars, Took
    <2>2. \A r \in Pending: Current(r) => r \in Pending'
      BY <2>1 DEF Pending
    <2> QED BY <1>1, <1>2, <1>3, <2>1, <2>2
  <1>12. ASSUME NEW run \in queue, RunLayoutEffect(run)
         PROVE  AnswersInv'
    <2>1. /\ UNCHANGED <<slots, rounds, asked, at, queued>>
          /\ queue' = queue \ {run} /\ run.slot = "layout" /\ Current(run)
          /\ UNCHANGED <<scopes, states>> \/ \E v: WriteSlot(run.scope, v)
      BY <1>12 DEF RunLayoutEffect, Took
    <2>2. Pending' = Pending
      BY <2>1 DEF Pending
    <2>3. run.scope \in Live /\ scopes[run.scope].type \notin Asking
      <3>1. run.scope \in Live /\ slots[run.scope]["layout"].generation # 0
        BY <1>12, <2>1 DEF Current, IInv, HandlesInv, SlotsInv, AnswersInv, LayoutInv
      <3> QED BY <3>1, LoomAssumption DEF AnswersInv, LayoutInv
    <2>4. CASE UNCHANGED <<scopes, states>>
      BY <1>1, <1>2, <1>3, <2>1, <2>2, <2>4
    <2>5. CASE \E v: WriteSlot(run.scope, v)
      BY <1>2, <2>1, <2>2, <2>3, <2>5, WriteAnswers
    <2> QED BY <2>1, <2>4, <2>5
  <1>13. Responding => /\ UNCHANGED <<slots, rounds, queued, queue>> /\ Pending' = Pending
                       /\ at' = "handling"
    BY DEF Responding, Pending
  <1>14. CASE Resize
    BY <1>1, <1>4, <1>13, <1>14 DEF Resize
  <1>15. ASSUME NEW id \in Live, NEW v \in Values, Listen(id, v)
         PROVE  AnswersInv'
    <2>1. scopes[id].type \notin Asking
      BY <1>15, LoomAssumption DEF Listen
    <2> QED BY <1>13, <1>15, <2>1, WriteAnswers DEF Listen
  <1>16. ASSUME NEW run \in asked, Answer(run)
         PROVE  AnswersInv'
    BY <1>16, AnswerAnswers
  <1>17. ASSUME NEW run \in asked, Refuse(run)
         PROVE  AnswersInv'
    <2>1. \A r \in asked: Current(r) => r \in asked'
      BY <1>17 DEF Refuse
    <2> QED BY <1>1, <1>3, <1>13, <1>17, <2>1 DEF Refuse
  <1>18. CASE AnotherRound
    <2>1. rounds + 1 \in Nat /\ rounds + 1 > 0
      BY <1>2
    <2> QED BY <1>18, <2>1, StartRoundAnswers DEF AnotherRound
  <1>19. CASE DrawAgain
    BY <1>19, StartRoundAnswers DEF DrawAgain
  <1>20. CASE DrawNext
    BY <1>20, StartRoundAnswers DEF DrawNext
  <1>21. ASSUME NEW run \in queue, RunEffect(run)
         PROVE  AnswersInv'
    BY <1>21, RunEffectAnswers
  <1> QED
    BY <1>5, <1>6, <1>7, <1>8, <1>9, <1>10, <1>11, <1>12, <1>14, <1>15, <1>16, <1>17, <1>18,
       <1>19, <1>20, <1>21, RenderAnswers, MountAnswers, FinishAnswers
    DEF Next

\* ShowsItsAnswer: whatever components are asked with, one after the other, and
\* in whatever order and however often the answers come, a component at rest
\* shows the answer for its props and the context now, or nothing while that one
\* is out.
THEOREM LastAnswerIsShown == Spec => []ShowsItsAnswer
  <1>1. ASSUME IInv, EffectsInv, WalkInv, DrawnInv, AnswersInv
        PROVE  ShowsItsAnswer
    <2> SUFFICES ASSUME at = "wait", marked = {}, NEW id \in Live, scopes[id].type \in Asking
                 PROVE  LET deps == [props |-> scopes[id].props, seen |-> Seen(id)]
                            waits == \E run \in asked:
                                        run.scope = id /\ run.deps = deps /\ Current(run)
                        IN  scopes[id].produced.value
                              \in {deps} \cup (IF waits THEN {None} ELSE {})
      BY DEF ShowsItsAnswer
    <2> DEFINE deps == [props |-> scopes[id].props, seen |-> Seen(id)]
               shown == scopes[id].produced.value
    <2>1. ~Stale(id)
      BY <1>1 DEF DrawnInv, MarksInv
    <2>2. /\ states[id].pending \subseteq {shown} /\ states[id].value = shown
          /\ scopes[id].produced.props = scopes[id].props
          /\ scopes[id].produced.seen = Seen(id)
      BY <2>1 DEF Stale
    <2>3. Latest(id) = {shown}
      BY <2>2 DEF Latest
    <2>4. Pending = {}
      BY <1>1 DEF IInv, QueueInv, EffectsInv, DueInv, Pending, Kinds
    <2>5. slots[id]["effect"].generation # 0
      <3>1. None \notin Live /\ entering = None /\ rounds > 0 /\ rounds \in Nat
        BY <1>1, LoomAssumption DEF IInv, HandlesInv, SlabInv, EffectsInv, FirstInv, AnswersInv
      <3> QED BY <1>1, <3>1 DEF EffectsInv, FirstInv
    <2>6. LastRun(id).deps = deps /\ LastRun(id).scope = id /\ Current(LastRun(id))
      <3>1. slots[id]["effect"].deps = [props |-> scopes[id].produced.props,
                                        seen |-> scopes[id].produced.seen]
        BY <1>1, <2>5 DEF EffectsInv, DueInv
      <3>2. id \in DOMAIN slots
        BY <1>1 DEF IInv, HandlesInv, SlotsInv
      <3> QED BY <2>2, <3>1, <3>2 DEF LastRun, Current
    <2>7. Answered(id)
      BY <1>1, <2>4, <2>5 DEF AnswersInv
    <2>8. {shown} = {deps} \/ ({shown} = {None} /\ LastRun(id) \in asked)
      BY <2>3, <2>6, <2>7 DEF Answered
    <2> QED BY <2>6, <2>8
  <1>2. Init => IInv /\ EffectsInv /\ WalkInv /\ DrawnInv /\ AnswersInv
    BY InitIInv, InitEffects, InitWalk, InitDrawn, InitAnswers
  <1>3. IInv /\ EffectsInv /\ WalkInv /\ DrawnInv /\ AnswersInv /\ [Next]_vars
            => IInv' /\ EffectsInv' /\ WalkInv' /\ DrawnInv' /\ AnswersInv'
    BY NextIInv, NextEffects, NextWalk, NextDrawn, NextAnswers
  <1> QED BY <1>1, <1>2, <1>3, PTL DEF Spec
===============================================================================
