----------------------------- MODULE WatcherProofs -----------------------------
(***************************************************************************)
(* For any directories, ignore rules and queue capacities, no change that  *)
(* a watch saw is lost on its way to a refresh, and at rest the rules and  *)
(* the watches are those of the disk, unless a rule file has changed where *)
(* no watch was.                                                           *)
(*                                                                         *)
(* Neither is inductive.  An edit is carried only while the loaded rules   *)
(* let it through, and the loaded rules differ from those on disk only     *)
(* while something that will reload them is on its way: RulesFollow.  That *)
(* something is an event in the queues, the batch that is being collected, *)
(* or an overflow that is remembered.                                      *)
(***************************************************************************)
EXTENDS Watcher, TLAPS

Elements(s) == {s[i] : i \in DOMAIN s}

Reloads(e) == e.kind \in {"rules", "rescan"}

\* The rules will be read again, and the scope computed with them.
Pending ==
    \/ \E e \in InFlight: Reloads(e)
    \/ worker = "collect" /\ batch.reload
    \/ dropped

Running == subscribed /\ worker # "stopped"

\* None of these directories is ignored by the rules on disk.
Clear(ds) == \A d \in ds: ~Ignored(d, Hidden)

\* inotify's queue is over its capacity only by the rescan request that stands
\* for what it did not take.
KernelRemembers == Len(kernel) > KernelCapacity => kernel[Len(kernel)].kind = "rescan"

BatchSound ==
    /\ worker \in Starting \cup {"recv"} => batch = NoBatch
    /\ worker \in Starting => untold = {}
    /\ batch.reload => batch.recompute /\ "worktree" \in batch.refresh

RulesFollow ==
    Running /\ ~Pending /\ ~unseen =>
        /\ worker \notin Starting => matcher = BuildMatcher
        /\ worker \in {"install", "update"} => Clear(walked)
        /\ worker \notin {"install", "walk", "update"} => Clear(live)

IInv ==
    /\ TypeOK
    /\ KernelRemembers
    /\ BatchSound
    /\ live \subseteq paths
    /\ RulesFollow
    /\ Carried

--------------------------------------------------------------------------------
(* Sequences of events, and what an event adds to a batch. *)

\* An appended element is added to what a sequence has.
LEMMA AppendedElements ==
  ASSUME NEW S, NEW s \in Seq(S), NEW e \in S
  PROVE  /\ Append(s, e) \in Seq(S)
         /\ Len(Append(s, e)) = Len(s) + 1
         /\ Append(s, e)[Len(s) + 1] = e
         /\ Elements(Append(s, e)) = Elements(s) \cup {e}
  <1>1. \A i \in 1..Len(s): Append(s, e)[i] = s[i]
    OBVIOUS
  <1>2. DOMAIN Append(s, e) = 1..(Len(s) + 1) /\ DOMAIN s = 1..Len(s) /\ Len(s) \in Nat
    OBVIOUS
  <1>3. Append(s, e)[Len(s) + 1] = e
    OBVIOUS
  <1>4. Elements(Append(s, e)) = Elements(s) \cup {e}
    BY <1>1, <1>2, <1>3 DEF Elements
  <1> QED BY <1>3, <1>4

\* A taken element is the head, and the rest is the tail.
LEMMA TakenElements ==
  ASSUME NEW S, NEW s \in Seq(S), s # <<>>
  PROVE  /\ Head(s) \in S
         /\ Tail(s) \in Seq(S)
         /\ Len(Tail(s)) = Len(s) - 1
         /\ Elements(s) = {Head(s)} \cup Elements(Tail(s))
  <1>1. Len(s) \in Nat /\ Len(s) > 0 /\ DOMAIN s = 1..Len(s) /\ DOMAIN Tail(s) = 1..(Len(s) - 1)
    OBVIOUS
  <1>2. Head(s) = s[1] /\ \A i \in 1..(Len(s) - 1): Tail(s)[i] = s[i + 1]
    OBVIOUS
  <1>3. Head(s) \in S /\ Tail(s) \in Seq(S) /\ Len(Tail(s)) = Len(s) - 1
    OBVIOUS
  <1>4. \A i \in 1..Len(s): s[i] \in {Head(s)} \cup Elements(Tail(s))
    <2> TAKE i \in 1..Len(s)
    <2>1. CASE i = 1
      BY <1>2, <2>1
    <2>2. CASE i # 1
      <3>1. i - 1 \in 1..(Len(s) - 1) /\ Tail(s)[i - 1] = s[i]
        BY <1>1, <1>2, <2>2
      <3> QED BY <1>1, <3>1 DEF Elements
    <2> QED BY <2>1, <2>2
  <1>5. \A i \in 1..(Len(s) - 1): Tail(s)[i] \in Elements(s)
    BY <1>1, <1>2 DEF Elements
  <1>6. Head(s) \in Elements(s)
    BY <1>1, <1>2 DEF Elements
  <1> QED BY <1>1, <1>3, <1>4, <1>5, <1>6 DEF Elements

\* A refresh has no other bits than those there are.
LEMMA RefreshType == ASSUME NEW e \in Events PROVE RefreshOf(e) \subseteq Bits
  BY DEF Events, RefreshOf, Bits

\* An event that reloads the rules says that the worktree has changed.
LEMMA ReloadTellsWorktree == ASSUME NEW e \in Events, Reloads(e) PROVE "worktree" \in RefreshOf(e)
  BY DEF Events, Reloads, RefreshOf, Bits

\* A batch keeps what it had and takes what the event tells.
LEMMA AddedEvent ==
  ASSUME NEW b \in [refresh: SUBSET Bits, reload: BOOLEAN, recompute: BOOLEAN],
         b.reload => b.recompute /\ "worktree" \in b.refresh,
         NEW e \in Events
  PROVE  /\ AddEvent(b, e) \in [refresh: SUBSET Bits, reload: BOOLEAN, recompute: BOOLEAN]
         /\ b.refresh \cup RefreshOf(e) \subseteq AddEvent(b, e).refresh
         /\ b.reload \/ Reloads(e) => AddEvent(b, e).reload
         /\ AddEvent(b, e).reload =>
              AddEvent(b, e).recompute /\ "worktree" \in AddEvent(b, e).refresh
  <1>1. RefreshOf(e) \subseteq Bits /\ "worktree" \in Bits
    BY RefreshType DEF Bits
  <1>2. CASE e.kind = "rescan"
    BY <1>1, <1>2 DEF AddEvent, InvalidateAll
  <1>3. CASE e.kind # "rescan"
    <2>1. AddEvent(b, e) =
            [refresh |-> b.refresh \cup RefreshOf(e),
             reload |-> b.reload \/ RequiresReload(e),
             recompute |-> b.recompute \/ RequiresReload(e) \/ DirectoryTreeChanged(e)]
      BY <1>3 DEF AddEvent
    <2>2. RequiresReload(e) <=> Reloads(e)
      BY <1>3 DEF RequiresReload, Reloads
    <2>3. RequiresReload(e) \in BOOLEAN /\ DirectoryTreeChanged(e) \in BOOLEAN
      BY DEF RequiresReload, DirectoryTreeChanged
    <2>4. Reloads(e) => "worktree" \in RefreshOf(e)
      BY ReloadTellsWorktree
    <2> QED BY <1>1, <2>1, <2>2, <2>3, <2>4
  <1> QED BY <1>2, <1>3

--------------------------------------------------------------------------------
(* Changes of the files. *)

\* What the rules come to depends on the files alone.
LEMMA SameRules ==
  ASSUME UNCHANGED <<dirs, rules>>
  PROVE  Hidden' = Hidden /\ Desired' = Desired /\ BuildMatcher' = BuildMatcher
  BY DEF Hidden, NamedBy, Desired, Ignored, BuildMatcher

\* A matcher names directories.
LEMMA MatcherType == ASSUME TypeOK PROVE BuildMatcher \subseteq Dirs /\ Desired \subseteq dirs
  <1>1. \A p \in Places: NamedBy(p, Root) \subseteq Dirs
    BY WatcherAssumption DEF TypeOK, NamedBy, Places
  <1>2. Desired \subseteq dirs /\ Desired \cup {Root} \subseteq Places
    BY DEF Desired, TypeOK, Places
  <1> QED BY <1>1, <1>2 DEF BuildMatcher

\* inotify keeps what it has, and what it was told of is in its queue, or a
\* rescan request is.
LEMMA NoticeKeeps ==
  ASSUME TypeOK, KernelRemembers, NEW e \in Events, NEW seen \in BOOLEAN, Notice(e, seen)
  PROVE  /\ kernel' \in Seq(Events) /\ Len(kernel') <= KernelCapacity + 1
         /\ KernelRemembers'
         /\ Elements(kernel) \subseteq Elements(kernel')
         /\ seen => \E x \in Elements(kernel'): x = e \/ x.kind = "rescan"
  <1> DEFINE rescan == [kind |-> "rescan"]
  <1>1. rescan \in Events
    BY DEF Events
  <1>2. /\ kernel \in Seq(Events) /\ Len(kernel) \in Nat
        /\ Len(kernel) <= KernelCapacity + 1 /\ KernelCapacity \in Nat
    BY WatcherAssumption DEF TypeOK
  <1>3. CASE ~seen
    BY <1>2, <1>3 DEF Notice, KernelRemembers
  <1>4. CASE seen /\ Len(kernel) < KernelCapacity
    <2>1. kernel' = Append(kernel, e)
      BY <1>4 DEF Notice
    <2>2. /\ kernel' \in Seq(Events) /\ Len(kernel') = Len(kernel) + 1
          /\ Elements(kernel') = Elements(kernel) \cup {e}
      BY <1>2, <2>1, AppendedElements
    <2> QED BY <1>2, <1>4, <2>2 DEF KernelRemembers
  <1>5. CASE seen /\ Len(kernel) = KernelCapacity
    <2>1. kernel' = Append(kernel, rescan)
      BY <1>2, <1>5 DEF Notice
    <2>2. /\ kernel' \in Seq(Events) /\ Len(kernel') = Len(kernel) + 1
          /\ kernel'[Len(kernel) + 1] = rescan
          /\ Elements(kernel') = Elements(kernel) \cup {rescan}
      BY <1>1, <1>2, <2>1, AppendedElements
    <2> QED BY <1>2, <1>5, <2>2 DEF KernelRemembers
  <1>6. CASE seen /\ Len(kernel) > KernelCapacity
    <2>1. kernel' = kernel
      BY <1>2, <1>6 DEF Notice
    <2>2. kernel[Len(kernel)].kind = "rescan"
      BY <1>6 DEF KernelRemembers
    <2>3. Len(kernel) \in DOMAIN kernel
      BY <1>2, <1>6
    <2>4. kernel[Len(kernel)] \in Elements(kernel)
      BY <2>3 DEF Elements
    <2> QED BY <1>2, <2>1, <2>2, <2>4 DEF KernelRemembers
  <1> QED BY <1>2, <1>3, <1>4, <1>5, <1>6

\* The loaded rules are known to be out of date.
Outdated == ~unseen /\ matcher # BuildMatcher /\ worker \notin Starting

\* A change of the files keeps IInv when what it owes is in its event, or is
\* the worktree's bit while the loaded rules are out of date, and when new rules
\* are noticed or their being overlooked is.
LEMMA ChangeIInv ==
  ASSUME IInv, TypeOK', Running,
         NEW e \in Events, NEW seen \in BOOLEAN, Notice(e, seen),
         UNCHANGED <<callback, queue, overflow, dropped, workerVars, subscribed>>,
         live' \subseteq live,
         (unseen => unseen'),
         \/ Hidden' = Hidden /\ BuildMatcher' = BuildMatcher
         \/ seen /\ e.kind = "rules"
         \/ unseen',
         (worker \in Starting => untold' = untold),
         NEW bits \in SUBSET Bits, untold' \subseteq untold \cup bits,
         bits # {} => seen,
         bits \subseteq RefreshOf(e) \/ (bits = {"worktree"} /\ Outdated)
  PROVE  IInv'
  <1>1. /\ KernelRemembers'
        /\ Elements(kernel) \subseteq Elements(kernel')
        /\ seen => \E x \in Elements(kernel'): x = e \/ x.kind = "rescan"
    BY NoticeKeeps DEF IInv
  <1>2. InFlight \subseteq InFlight' /\ Elements(kernel') \subseteq InFlight'
    <2>1. InFlight = Elements(kernel) \cup Elements(queue)
      BY DEF InFlight, Elements
    <2>2. InFlight' = Elements(kernel') \cup Elements(queue')
      BY DEF InFlight, Elements
    <2> QED BY <1>1, <2>1, <2>2
  <1>3. BatchSound' /\ live' \subseteq paths'
    BY DEF IInv, BatchSound, workerVars
  <1>4. Pending => Pending'
    BY <1>2 DEF Pending, workerVars
  <1>5. RulesFollow'
    <2>1. CASE Hidden' = Hidden /\ BuildMatcher' = BuildMatcher
      <3>1. Running' => Running
        BY DEF Running, workerVars
      <3> QED BY <1>4, <2>1, <3>1 DEF IInv, RulesFollow, Clear, Ignored, workerVars
    <2>3. CASE unseen'
      BY <2>3 DEF RulesFollow
    <2>2. CASE seen /\ e.kind = "rules"
      <3>1. Pending'
        BY <1>1, <1>2, <2>2 DEF Pending, Reloads
      <3> QED BY <3>1 DEF RulesFollow
    <2> QED BY <2>1, <2>2, <2>3
  <1>6. \A x: RefreshOf(x)' = RefreshOf(x)
    BY DEF RefreshOf, Ignored, workerVars
  <1>7. ASSUME NEW bit \in untold', ~dropped'
        PROVE  (\E x \in InFlight': bit \in RefreshOf(x)') \/ bit \in batch'.refresh
    <2>1. ~dropped /\ batch' = batch
      BY <1>7 DEF workerVars
    <2>2. CASE bit \in untold
      BY <1>2, <1>6, <2>1, <2>2 DEF IInv, Carried, Running
    <2>3. CASE bit \notin untold
      <3>1. bit \in bits /\ seen
        BY <1>7, <2>3
      <3>2. CASE bits \subseteq RefreshOf(e)
        <4>1. PICK x \in Elements(kernel'): x = e \/ x.kind = "rescan"
          BY <1>1, <3>1
        <4>2. bit \in RefreshOf(x)
          BY <3>1, <3>2, <4>1 DEF RefreshOf
        <4> QED BY <1>2, <1>6, <4>2
      <3>3. CASE bits = {"worktree"} /\ Outdated
        <4>1. Pending
          BY <3>3 DEF IInv, RulesFollow, Outdated
        <4>2. bit = "worktree"
          BY <3>1, <3>3
        <4>3. CASE \E x \in InFlight: Reloads(x)
          <5>1. PICK x \in InFlight: Reloads(x)
            BY <4>3
          <5>2. x \in Events
            BY <5>1 DEF InFlight, IInv, TypeOK, Elements
          <5> QED BY <1>2, <1>6, <4>2, <5>1, <5>2, ReloadTellsWorktree
        <4>4. CASE batch.reload
          BY <2>1, <4>2, <4>4 DEF IInv, BatchSound
        <4> QED BY <2>1, <4>1, <4>3, <4>4 DEF Pending
      <3> QED BY <3>2, <3>3
    <2> QED BY <2>2, <2>3
  <1>8. Carried'
    BY <1>7 DEF Carried
  <1> QED BY <1>1, <1>3, <1>5, <1>8 DEF IInv

\* The step of the files that are changed keeps IInv.
LEMMA FileSystemIInv == ASSUME IInv, FileSystem PROVE IInv'
  <1>1. TypeOK /\ KernelRemembers /\ Running
    BY DEF IInv, FileSystem, Running
  <1>2. ASSUME NEW d \in Dirs, EditFile(d)
        PROVE  IInv'
    <2> DEFINE e == [kind |-> "edit", dir |-> d]
               seen == d \in Watched
               bits == IF seen /\ LetThrough(d) /\ worker \notin Starting THEN {"worktree"} ELSE {}
    <2>1. e \in Events /\ seen \in BOOLEAN /\ bits \in SUBSET Bits
      BY DEF Events, Bits
    <2>2. Notice(e, seen)
      BY <1>2 DEF EditFile
    <2>6. /\ UNCHANGED <<callback, queue, overflow, dropped, workerVars, subscribed>>
          /\ live' = live /\ dirs' = dirs /\ rules' = rules /\ unseen' = unseen
      BY <1>2 DEF EditFile, fsVars
    <2>4. untold' \subseteq untold \cup bits /\ (worker \in Starting => untold' = untold)
      BY <1>2 DEF EditFile, Owes
    <2>3. TypeOK'
      <3>1. kernel' \in Seq(Events) /\ Len(kernel') <= KernelCapacity + 1
        BY <1>1, <2>1, <2>2, NoticeKeeps
      <3>2. untold' \in SUBSET Bits
        BY <1>1, <2>1, <2>4 DEF TypeOK
      <3> QED BY <1>1, <2>6, <3>1, <3>2 DEF TypeOK, workerVars
    <2>5. bits \subseteq RefreshOf(e) \/ (bits = {"worktree"} /\ Outdated)
      <3>1. CASE d # Info /\ ~Ignored(d, matcher)
        <4>1. RefreshOf(e) = {"worktree"}
          BY <3>1 DEF RefreshOf
        <4> QED BY <4>1
      <3>2. CASE ~unseen /\ ~Ignored(d, BuildMatcher) /\ Ignored(d, matcher)
        <4>1. matcher # BuildMatcher
          BY <3>2
        <4> QED BY <3>2, <4>1 DEF Outdated
      <3>3. CASE ~LetThrough(d)
        BY <3>3
      <3> QED BY <3>1, <3>2, <3>3 DEF LetThrough
    <2>7. Hidden' = Hidden /\ BuildMatcher' = BuildMatcher
      BY <2>6, SameRules
    <2>8. bits # {} => seen
      OBVIOUS
    <2> HIDE DEF e, bits, seen
    <2> QED BY <1>1, <2>1, <2>2, <2>3, <2>4, <2>5, <2>6, <2>7, <2>8, ChangeIInv
  <1>3. ASSUME NEW d \in Dirs, NEW seen \in BOOLEAN, Notice([kind |-> "tree", dir |-> d], seen),
               NEW file \in RuleFiles(d), MakeDir(d, file) \/ RemoveDir(d)
        PROVE  IInv'
    <2> DEFINE e == [kind |-> "tree", dir |-> d]
    <2>1. e \in Events
      BY DEF Events
    <2>2. Notice(e, seen)
      BY <1>3
    <2>3. /\ UNCHANGED <<callback, queue, overflow, dropped, workerVars, subscribed>>
          /\ live' \subseteq live /\ untold' = untold
          /\ unseen' = (unseen \/ (Hidden' # Hidden \/ BuildMatcher' # BuildMatcher))
      BY <1>3 DEF MakeDir, RemoveDir, Overlooks
    <2>4. TypeOK'
      <3>1. kernel' \in Seq(Events) /\ Len(kernel') <= KernelCapacity + 1
        BY <1>1, <2>1, <2>2, NoticeKeeps
      <3>2. dirs' \subseteq Dirs /\ live' \subseteq dirs'
        BY <1>1, <1>3 DEF TypeOK, MakeDir, RemoveDir
      <3>3. \A c \in dirs': ParentOf[c] \in dirs' \cup {Root}
        BY <1>1, <1>3 DEF TypeOK, MakeDir, RemoveDir
      <3>4. rules' \in [Places -> SUBSET Rules] /\ \A p \in Dirs: rules'[p] # {} => p \in dirs'
        <4>1. file \subseteq Rules
          BY DEF RuleFiles
        <4>2. d \in Places /\ rules \in [Places -> SUBSET Rules]
          BY <1>1 DEF TypeOK, Places
        <4> QED BY <1>1, <1>3, <4>1, <4>2 DEF TypeOK, MakeDir, RemoveDir, Places
      <3>5. unseen' \in BOOLEAN
        BY <1>1, <2>3 DEF TypeOK
      <3> QED BY <1>1, <2>3, <3>1, <3>2, <3>3, <3>4, <3>5 DEF TypeOK, workerVars
    <2> HIDE DEF e
    <2>5. {} \in SUBSET Bits /\ untold' \subseteq untold \cup {} /\ {} \subseteq RefreshOf(e)
      BY <2>3
    <2>6. (unseen => unseen') /\ ((Hidden' = Hidden /\ BuildMatcher' = BuildMatcher) \/ unseen')
      BY <2>3
    <2> QED BY <1>1, <2>1, <2>2, <2>3, <2>4, <2>5, <2>6, ChangeIInv
  <1>4. ASSUME NEW p \in RulePlaces, NEW file \in RuleFiles(p), EditRules(p, file)
        PROVE  IInv'
    <2> DEFINE e == [kind |-> "rules"]
               seen == p \in Watched
               bits == IF seen /\ worker \notin Starting THEN {"worktree"} ELSE {}
    <2>1. e \in Events /\ bits \in SUBSET Bits /\ seen \in BOOLEAN
      BY DEF Events, Bits
    <2>2. Notice(e, seen)
      BY <1>4 DEF EditRules
    <2>3. /\ UNCHANGED <<callback, queue, overflow, dropped, workerVars, subscribed>>
          /\ dirs' = dirs /\ live' = live /\ rules' = [rules EXCEPT ![p] = file]
          /\ untold' \subseteq untold \cup bits
          /\ worker \in Starting => untold' = untold
          /\ unseen' = (unseen \/ (~seen /\ (Hidden' # Hidden \/ BuildMatcher' # BuildMatcher)))
      BY <1>4 DEF EditRules, Owes, Overlooks
    <2>4. TypeOK'
      <3>1. kernel' \in Seq(Events) /\ Len(kernel') <= KernelCapacity + 1
        BY <1>1, <2>1, <2>2, NoticeKeeps
      <3>2. untold' \subseteq Bits
        BY <1>1, <2>1, <2>3 DEF TypeOK
      <3>3. rules' \in [Places -> SUBSET Rules] /\ \A q \in Dirs: rules'[q] # {} => q \in dirs'
        <4>1. file \subseteq Rules /\ p \in Places /\ p \in dirs \cup {Root} /\ Root \notin Dirs
          BY <1>4, WatcherAssumption DEF RuleFiles, Places, EditRules
        <4> QED BY <1>1, <2>3, <4>1 DEF TypeOK, Places
      <3>4. unseen' \in BOOLEAN
        BY <1>1, <2>3 DEF TypeOK
      <3> QED BY <1>1, <2>3, <3>1, <3>2, <3>3, <3>4 DEF TypeOK, workerVars
    <2>5. bits \subseteq RefreshOf(e) /\ e.kind = "rules"
      BY DEF RefreshOf
    <2>6. /\ unseen => unseen'
          /\ \/ Hidden' = Hidden /\ BuildMatcher' = BuildMatcher
             \/ seen /\ e.kind = "rules"
             \/ unseen'
      BY <2>3, <2>5
    <2>7. (bits # {} => seen) /\ live' \subseteq live
      BY <2>3
    <2> HIDE DEF e, bits, seen
    <2> QED BY <1>1, <2>1, <2>2, <2>3, <2>4, <2>5, <2>6, <2>7, ChangeIInv
  <1>5. ASSUME NEW bit \in RootBits, RootChange(bit)
        PROVE  IInv'
    <2> DEFINE e == [kind |-> "root", bit |-> bit]
               seen == Root \in Watched
               bits == IF seen /\ worker \notin Starting THEN {bit} ELSE {}
    <2>1. e \in Events /\ bits \in SUBSET Bits /\ seen \in BOOLEAN
      BY DEF Events, Bits
    <2>2. Notice(e, seen)
      BY <1>5 DEF RootChange
    <2>3. /\ UNCHANGED <<callback, queue, overflow, dropped, workerVars, subscribed>>
          /\ live' = live /\ dirs' = dirs /\ rules' = rules /\ unseen' = unseen
          /\ untold' \subseteq untold \cup bits
          /\ worker \in Starting => untold' = untold
      BY <1>5 DEF RootChange, Owes, fsVars
    <2>4. TypeOK'
      <3>1. kernel' \in Seq(Events) /\ Len(kernel') <= KernelCapacity + 1
        BY <1>1, <2>1, <2>2, NoticeKeeps
      <3>2. untold' \subseteq Bits
        BY <1>1, <2>1, <2>3 DEF TypeOK
      <3> QED BY <1>1, <2>3, <3>1, <3>2 DEF TypeOK, workerVars
    <2>5. bits \subseteq RefreshOf(e) /\ (bits # {} => seen) /\ live' \subseteq live
      BY <2>3 DEF RefreshOf
    <2>6. Hidden' = Hidden /\ BuildMatcher' = BuildMatcher
      BY <2>3, SameRules
    <2> HIDE DEF e, bits, seen
    <2> QED BY <1>1, <2>1, <2>2, <2>3, <2>4, <2>5, <2>6, ChangeIInv
  <1>6. ASSUME NEW d \in Dirs, NEW file \in RuleFiles(d), MakeDir(d, file)
        PROVE  IInv'
    <2>1. (ParentOf[d] \in Watched) \in BOOLEAN
      OBVIOUS
    <2>2. Notice([kind |-> "tree", dir |-> d], ParentOf[d] \in Watched)
      BY <1>6 DEF MakeDir
    <2> QED BY <1>3, <1>6, <2>1, <2>2
  <1>7. ASSUME NEW d \in Dirs, RemoveDir(d)
        PROVE  IInv'
    <2>1. {} \in RuleFiles(d)
      BY DEF RuleFiles
    <2>2. Notice([kind |-> "tree", dir |-> d], {d, ParentOf[d]} \cap Watched # {})
      BY <1>7 DEF RemoveDir
    <2> QED BY <1>3, <1>7, <2>1, <2>2
  <1> QED BY <1>2, <1>4, <1>5, <1>6, <1>7 DEF FileSystem

--------------------------------------------------------------------------------
(* The callback. *)

\* A queued event changes queues, or an overflow is on record.
LEMMA CallbackIInv == ASSUME IInv, QueueEvent \/ StoreOverflow PROVE IInv'
  <1> USE DEF IInv
  <1>1. CASE StoreOverflow
    <2>1. /\ UNCHANGED <<dirs, rules, live, kernel, queue, dropped, workerVars, subscribed, untold,
                         unseen>>
          /\ overflow' = TRUE /\ callback' = "idle"
      BY <1>1 DEF StoreOverflow, fsVars
    <2>2. InFlight' = InFlight /\ (\A x: RefreshOf(x)' = RefreshOf(x))
      BY <2>1 DEF InFlight, RefreshOf, Ignored, workerVars
    <2>3. TypeOK'
      BY <2>1 DEF TypeOK, workerVars
    <2>4. RulesFollow'
      BY <2>1, <2>2, SameRules DEF RulesFollow, Running, Pending, Clear, Ignored, workerVars
    <2>5. Carried'
      BY <2>1, <2>2 DEF Carried, workerVars
    <2> QED BY <2>1, <2>3, <2>4, <2>5 DEF KernelRemembers, BatchSound, workerVars
  <1>2. CASE QueueEvent
    <2>1. /\ UNCHANGED <<dirs, rules, live, overflow, workerVars, subscribed, untold, unseen>>
          /\ kernel # <<>> /\ kernel' = Tail(kernel)
      BY <1>2 DEF QueueEvent, fsVars
    <2>2. /\ kernel \in Seq(Events) /\ Len(kernel) \in Nat /\ Len(kernel) <= KernelCapacity + 1
          /\ KernelCapacity \in Nat
      BY WatcherAssumption DEF TypeOK
    <2>3. /\ Head(kernel) \in Events /\ kernel' \in Seq(Events) /\ Len(kernel') = Len(kernel) - 1
          /\ Elements(kernel) = {Head(kernel)} \cup Elements(kernel')
      BY <2>1, <2>2, TakenElements
    <2>4. Len(kernel') <= KernelCapacity + 1 /\ KernelRemembers'
      BY <2>2, <2>3 DEF KernelRemembers
    <2>5. \A x: RefreshOf(x)' = RefreshOf(x)
      BY <2>1 DEF RefreshOf, Ignored, workerVars
    <2>6. /\ InFlight = Elements(kernel) \cup Elements(queue)
          /\ InFlight' = Elements(kernel') \cup Elements(queue')
      BY DEF InFlight, Elements
    <2>7. CASE queue' = Append(queue, Head(kernel)) /\ UNCHANGED <<callback, dropped>>
               /\ Len(queue) < QueueCapacity
      <3>1. queue \in Seq(Events) /\ Len(queue) \in Nat /\ QueueCapacity \in Nat
        BY WatcherAssumption DEF TypeOK
      <3>2. /\ queue' \in Seq(Events) /\ Len(queue') = Len(queue) + 1
            /\ Elements(queue') = Elements(queue) \cup {Head(kernel)}
        BY <2>3, <2>7, <3>1, AppendedElements
      <3>3. InFlight' = InFlight
        BY <2>3, <2>6, <3>2
      <3>4. TypeOK'
        BY <2>1, <2>3, <2>4, <2>7, <3>1, <3>2 DEF TypeOK, workerVars
      <3>5. RulesFollow'
        BY <2>1, <2>7, <3>3, SameRules DEF RulesFollow, Running, Pending, Clear, Ignored, workerVars
      <3>6. Carried'
        BY <2>1, <2>5, <2>7, <3>3 DEF Carried, workerVars
      <3> QED BY <2>1, <2>4, <3>4, <3>5, <3>6 DEF BatchSound, workerVars
    <2>8. CASE queue' = queue /\ callback' \in {"idle", "full"} /\ dropped' = TRUE
      <3>1. TypeOK'
        BY <2>1, <2>3, <2>4, <2>8 DEF TypeOK, workerVars
      <3> QED BY <2>1, <2>4, <2>8, <3>1 DEF RulesFollow, Pending, Carried, BatchSound, workerVars
    <2>9. CASE worker = "stopped" /\ UNCHANGED <<queue, callback, dropped>>
      <3>1. TypeOK'
        BY <2>1, <2>3, <2>4, <2>9 DEF TypeOK, workerVars
      <3> QED BY <2>1, <2>4, <2>9, <3>1 DEF RulesFollow, Running, Carried, BatchSound, workerVars
    <2> QED BY <1>2, <2>7, <2>8, <2>9 DEF QueueEvent
  <1> QED BY <1>1, <1>2

\* Without a subscription nothing is owed.
LEMMA UnsubscribeIInv == ASSUME IInv, Unsubscribe PROVE IInv'
  <1>1. /\ UNCHANGED <<dirs, rules, live, callback, queue, overflow, dropped, workerVars, unseen>>
        /\ untold' = {} /\ subscribed' = FALSE
    BY DEF Unsubscribe, fsVars
  <1>2. kernel' \in Seq(Events) /\ Len(kernel') = 0
    BY DEF Unsubscribe
  <1>3. KernelCapacity \in Nat
    BY WatcherAssumption
  <1>4. Len(kernel') <= KernelCapacity + 1 /\ KernelRemembers'
    BY <1>2, <1>3 DEF KernelRemembers
  <1>5. TypeOK'
    BY <1>1, <1>2, <1>4 DEF IInv, TypeOK, workerVars
  <1> QED BY <1>1, <1>4, <1>5 DEF IInv, RulesFollow, Running, Carried, BatchSound, workerVars

--------------------------------------------------------------------------------
(* The worker. *)

\* An event goes from the queue into the batch, and what it tells with it.
LEMMA TakenIInv ==
  ASSUME IInv, NEW b \in {NoBatch, batch}, worker = "recv" => b = NoBatch,
         worker = "collect" => b = batch, worker \in {"recv", "collect"},
         queue # <<>>, queue' = Tail(queue), batch' = AddEvent(b, Head(queue)),
         worker' = "collect", timer' \in 0..MaxBatch,
         UNCHANGED <<fsVars, live, kernel, callback, overflow, dropped, walked, paths, matcher,
                     subscribed, untold, unseen>>
  PROVE  IInv'
  <1> DEFINE e == Head(queue)
             Batches == [refresh: SUBSET Bits, reload: BOOLEAN, recompute: BOOLEAN]
  <1>1. queue \in Seq(Events) /\ Len(queue) \in Nat /\ Len(queue) <= QueueCapacity
    BY DEF IInv, TypeOK
  <1>2. /\ e \in Events /\ queue' \in Seq(Events) /\ Len(queue') = Len(queue) - 1
        /\ Elements(queue) = {e} \cup Elements(queue')
    BY <1>1, TakenElements
  <1>3. b = batch /\ batch \in Batches
    BY DEF IInv, TypeOK, BatchSound
  <1>4. /\ batch' \in Batches
        /\ batch.refresh \cup RefreshOf(e) \subseteq batch'.refresh
        /\ batch.reload \/ Reloads(e) => batch'.reload
        /\ batch'.reload => batch'.recompute /\ "worktree" \in batch'.refresh
    <2> HIDE DEF e
    <2>1. batch' = AddEvent(batch, e)
      BY <1>3 DEF e
    <2>2. batch.reload => batch.recompute /\ "worktree" \in batch.refresh
      BY DEF IInv, BatchSound
    <2> QED BY <1>2, <1>3, <2>1, <2>2, AddedEvent
  <1> HIDE DEF e
  <1>5. /\ InFlight = Elements(kernel) \cup Elements(queue)
        /\ InFlight' = Elements(kernel) \cup Elements(queue')
    BY DEF InFlight, Elements
  <1>6. InFlight = {e} \cup InFlight'
    BY <1>2, <1>5
  <1>7. TypeOK'
    <2>1. QueueCapacity \in Nat /\ Len(queue') <= QueueCapacity
      BY <1>1, <1>2, WatcherAssumption
    <2> QED BY <1>2, <1>4, <2>1 DEF IInv, TypeOK, fsVars, WorkerAt
  <1>8. RulesFollow'
    <2>1. Pending => Pending'
      BY <1>4, <1>6 DEF Pending, IInv, BatchSound, NoBatch
    <2>2. dirs' = dirs /\ rules' = rules
      BY DEF fsVars
    <2> QED BY <2>1, <2>2, SameRules DEF IInv, RulesFollow, Running, Clear, Ignored, Starting
  <1>9. \A x: RefreshOf(x)' = RefreshOf(x)
    BY DEF RefreshOf, Ignored
  <1>10. Carried'
    BY <1>4, <1>6, <1>9 DEF IInv, Carried
  <1>11. KernelRemembers' /\ BatchSound' /\ live' \subseteq paths'
    BY <1>4 DEF IInv, KernelRemembers, BatchSound, Starting
  <1> QED BY <1>7, <1>8, <1>10, <1>11 DEF IInv

\* The worker takes an event, or ends with its queue.
LEMMA ReceiveIInv == ASSUME IInv, ReceiveFirst \/ CollectEvent PROVE IInv'
  <1>1. MaxBatch \in Nat /\ MaxBatch \in 0..MaxBatch
    BY WatcherAssumption
  <1>2. CASE CollectEvent
    BY <1>2, TakenIInv DEF CollectEvent, IInv, TypeOK
  <1>3. CASE ReceiveFirst /\ worker' = "collect"
    BY <1>1, <1>3, TakenIInv DEF ReceiveFirst, BeginBatch
  <1>4. CASE ReceiveFirst /\ worker' # "collect"
    <2>1. /\ UNCHANGED <<dirs, rules, live, kernel, callback, overflow, dropped, walked, paths,
                         matcher, subscribed, untold, unseen, batch, queue, timer>>
          /\ worker' = "stopped"
      BY <1>4 DEF ReceiveFirst, fsVars
    <2>2. TypeOK'
      BY <2>1 DEF IInv, TypeOK, WorkerAt
    <2> QED BY <2>1, <2>2 DEF IInv, KernelRemembers, RulesFollow, Running, Carried, BatchSound, Starting, NoBatch
  <1> QED BY <1>2, <1>3, <1>4

\* A closed batch either reads the rules again, and then walks, or leaves them:
\* then none of the changes that wait was let through by rules now gone.
LEMMA CloseIInv == ASSUME IInv, CloseBatch PROVE IInv'
  <1> DEFINE closed == IF overflow THEN InvalidateAll ELSE batch
             Batches == [refresh: SUBSET Bits, reload: BOOLEAN, recompute: BOOLEAN]
  <1>1. /\ worker = "collect" /\ batch' = closed
        /\ matcher' = IF closed.reload THEN BuildMatcher ELSE matcher
        /\ worker' = IF closed.recompute THEN "walk" ELSE "emit"
        /\ timer' = 0 /\ overflow' = FALSE
        /\ dropped' = IF overflow THEN callback = "full" ELSE dropped
        /\ unseen' = (unseen /\ ~closed.reload)
        /\ UNCHANGED <<dirs, rules, live, kernel, callback, queue, walked, paths, subscribed, untold>>
    BY DEF CloseBatch, fsVars
  <1>2. /\ InvalidateAll \in Batches /\ InvalidateAll.refresh = Bits
        /\ InvalidateAll.reload /\ InvalidateAll.recompute /\ "worktree" \in Bits
    BY DEF InvalidateAll, Bits
  <1>3. closed \in Batches /\ (closed.reload => closed.recompute /\ "worktree" \in closed.refresh)
    BY <1>2 DEF IInv, TypeOK, BatchSound
  <1>4. overflow => closed.reload /\ closed.refresh = Bits
    BY <1>2
  <1>5. ~overflow => closed = batch
    OBVIOUS
  <1> HIDE DEF closed
  <1>6. TypeOK'
    <2>1. timer' \in 0..MaxBatch
      BY <1>1, WatcherAssumption
    <2>2. worker' \in WorkerAt /\ overflow' \in BOOLEAN /\ dropped' \in BOOLEAN
      BY <1>1 DEF IInv, TypeOK, WorkerAt
    <2>3. matcher' \subseteq Dirs /\ batch' \in Batches /\ unseen' \in BOOLEAN
      BY <1>1, <1>3, MatcherType DEF IInv, TypeOK
    <2> QED BY <1>1, <2>1, <2>2, <2>3 DEF IInv, TypeOK
  <1>7. InFlight' = InFlight
    BY <1>1 DEF InFlight
  <1>8. RulesFollow'
    <2>1. CASE closed.reload
      <3>1. worker' = "walk" /\ matcher' = BuildMatcher'
        BY <1>1, <1>3, <2>1, SameRules
      <3> QED BY <3>1 DEF RulesFollow
    <2>2. CASE ~closed.reload
      <3>1. ~overflow /\ closed = batch
        BY <1>4, <1>5, <2>2
      <3>2. Pending => Pending'
        BY <1>1, <1>7, <2>2, <3>1 DEF Pending
      <3>3. Running' => Running /\ worker = "collect"
        BY <1>1 DEF Running
      <3> QED BY <1>1, <2>2, <3>2, <3>3, SameRules DEF IInv, RulesFollow, Running, Clear, Ignored, Starting
    <2> QED BY <2>1, <2>2
  <1>9. Carried'
    <2>1. ASSUME NEW bit \in untold', subscribed'
          PROVE  (\E x \in InFlight': bit \in RefreshOf(x)') \/ bit \in batch'.refresh \/ dropped'
      <3>1. bit \in Bits
        BY <1>1, <2>1 DEF IInv, TypeOK
      <3>2. CASE overflow
        BY <1>1, <1>4, <3>1, <3>2
      <3>3. CASE ~overflow
        <4>1. closed = batch /\ dropped' = dropped
          BY <1>1, <1>5, <3>3
        <4>2. CASE bit \in batch.refresh \/ dropped
          BY <1>1, <4>1, <4>2
        <4>3. CASE ~(bit \in batch.refresh \/ dropped)
          <5>1. PICK x \in InFlight: bit \in RefreshOf(x)
            BY <1>1, <2>1, <4>3 DEF IInv, Carried
          <5>2. CASE matcher' = matcher
            BY <1>7, <5>1, <5>2 DEF RefreshOf, Ignored
          <5>3. CASE matcher' # matcher
            <6>1. bit # "worktree"
              BY <1>1, <1>3, <4>1, <4>3, <5>3
            <6>2. bit \in RefreshOf(x)'
              BY <5>1, <6>1 DEF RefreshOf
            <6> QED BY <1>7, <6>2
          <5> QED BY <5>2, <5>3
        <4> QED BY <4>2, <4>3
      <3> QED BY <3>2, <3>3
    <2> QED BY <2>1 DEF Carried
  <1>10. KernelRemembers' /\ BatchSound' /\ live' \subseteq paths'
    BY <1>1, <1>3 DEF IInv, KernelRemembers, BatchSound, Starting
  <1> QED BY <1>6, <1>8, <1>9, <1>10 DEF IInv

\* The deadline comes nearer.
LEMMA TickIInv == ASSUME IInv, Tick PROVE IInv'
  <1>1. /\ UNCHANGED <<dirs, rules, live, kernel, callback, queue, overflow, dropped, worker, batch,
                       walked, paths, matcher, subscribed, untold, unseen>>
        /\ timer > 0 /\ timer' = timer - 1
    BY DEF Tick, fsVars, queueVars
  <1>2. timer' \in 0..MaxBatch
    BY <1>1, WatcherAssumption DEF IInv, TypeOK
  <1>3. TypeOK'
    BY <1>1, <1>2 DEF IInv, TypeOK
  <1>4. InFlight' = InFlight /\ (\A x: RefreshOf(x)' = RefreshOf(x))
    BY <1>1 DEF InFlight, RefreshOf, Ignored
  <1>5. RulesFollow'
    BY <1>1, <1>4, SameRules DEF IInv, RulesFollow, Running, Pending, Clear, Ignored
  <1>6. Carried'
    BY <1>1, <1>4 DEF IInv, Carried
  <1> QED BY <1>1, <1>3, <1>5, <1>6 DEF IInv, KernelRemembers, BatchSound

\* The walk finds no ignored directory, and the update watches none but what it
\* found.
LEMMA ScopeIInv == ASSUME IInv, WalkTree \/ UpdateScope PROVE IInv'
  <1>1. /\ UNCHANGED <<dirs, rules, kernel, callback, queue, overflow, dropped, batch, timer, matcher,
                       subscribed, untold, unseen>>
        /\ Hidden' = Hidden /\ Desired' = Desired /\ BuildMatcher' = BuildMatcher
    <2>1. /\ UNCHANGED <<dirs, rules, kernel, callback, queue, overflow, dropped, batch, timer, matcher,
                         subscribed, untold, unseen>>
      BY DEF WalkTree, UpdateScope, fsVars, queueVars
    <2> QED BY <2>1, SameRules
  <1>2. InFlight' = InFlight /\ (\A x: RefreshOf(x)' = RefreshOf(x))
    BY <1>1 DEF InFlight, RefreshOf, Ignored
  <1>3. worker \in {"walk", "update"} /\ worker' \in {"update", "emit", "stopped"}
    BY DEF WalkTree, UpdateScope
  <1>4. (Pending => Pending') /\ (Running' => Running)
    BY <1>1, <1>2, <1>3 DEF Pending, Running
  <1>5. CASE WalkTree
    <2>1. walked' = Desired /\ worker' = "update" /\ UNCHANGED <<live, paths>>
      BY <1>5 DEF WalkTree
    <2>2. Clear(walked)' /\ Desired \subseteq Dirs
      BY <1>1, <2>1 DEF Clear, Desired, Ignored, IInv, TypeOK
    <2>3. TypeOK'
      BY <1>1, <2>1, <2>2 DEF IInv, TypeOK, WorkerAt
    <2> QED BY <1>1, <1>2, <1>3, <1>4, <2>1, <2>2, <2>3
            DEF IInv, KernelRemembers, BatchSound, RulesFollow, Running, Carried, Starting
  <1>6. CASE UpdateScope
    <2> DEFINE added == (walked \ paths) \cap dirs
    <2>1. CASE subscribed
      <3>1. /\ paths' = (paths \cap walked) \cup added
            /\ live' = (live \ (paths \ walked)) \cup added
            /\ worker' = "emit" /\ walked' = {}
        BY <1>6, <2>1 DEF UpdateScope
      <3>2. live' \subseteq walked /\ live' \subseteq paths'
        BY <3>1 DEF IInv
      <3>3. TypeOK'
        BY <1>1, <3>1 DEF IInv, TypeOK, WorkerAt
      <3>4. RulesFollow'
        <4>1. ASSUME Running', ~Pending', ~unseen'
              PROVE  matcher' = BuildMatcher' /\ Clear(live)'
          <5>1. Running /\ ~Pending /\ worker = "update"
            BY <1>4, <1>6, <4>1 DEF UpdateScope
          <5>2. matcher = BuildMatcher /\ Clear(walked)
            BY <1>1, <4>1, <5>1 DEF IInv, RulesFollow, Starting
          <5> QED BY <1>1, <3>2, <5>2 DEF Clear, Ignored
        <4> QED BY <3>1, <4>1 DEF RulesFollow
      <3> QED BY <1>1, <1>2, <1>3, <3>1, <3>2, <3>3, <3>4
              DEF IInv, KernelRemembers, BatchSound, Running, Carried, Starting
    <2>2. CASE ~subscribed
      <3>1. worker' = "stopped" /\ walked' = {} /\ UNCHANGED <<paths, live>>
        BY <1>6, <2>2 DEF UpdateScope
      <3>2. TypeOK'
        BY <1>1, <3>1 DEF IInv, TypeOK, WorkerAt
      <3> QED BY <1>1, <3>1, <3>2
              DEF IInv, KernelRemembers, BatchSound, RulesFollow, Running, Carried, Starting
    <2> QED BY <2>1, <2>2
  <1> QED BY <1>5, <1>6

\* What the batch has told is not owed any more; the empty batch carries none.
LEMMA EmitIInv == ASSUME IInv, Emit PROVE IInv'
  <1>1. /\ UNCHANGED <<dirs, rules, live, kernel, callback, queue, overflow, dropped, timer, walked,
                       paths, matcher, subscribed, unseen>>
        /\ worker = "emit" /\ worker' \in {"recv", "stopped"} /\ batch' = NoBatch
        /\ untold' \subseteq untold
        /\ worker' = "recv" => untold' = untold \ batch.refresh
    BY DEF Emit, fsVars, queueVars
  <1>2. /\ NoBatch \in [refresh: SUBSET Bits, reload: BOOLEAN, recompute: BOOLEAN]
        /\ ~NoBatch.reload /\ NoBatch.refresh = {}
    BY DEF NoBatch
  <1>3. TypeOK'
    BY <1>1, <1>2 DEF IInv, TypeOK, WorkerAt
  <1>4. InFlight' = InFlight /\ (\A x: RefreshOf(x)' = RefreshOf(x))
    BY <1>1 DEF InFlight, RefreshOf, Ignored
  <1>5. RulesFollow'
    <2>1. (Running' => Running) /\ (Pending => Pending')
      BY <1>1, <1>4 DEF Running, Pending
    <2> QED BY <1>1, <2>1, SameRules DEF IInv, RulesFollow, Clear, Ignored, Starting
  <1>6. Carried'
    BY <1>1, <1>2, <1>4 DEF IInv, Carried
  <1>7. BatchSound'
    BY <1>1, <1>2 DEF BatchSound, Starting
  <1> QED BY <1>1, <1>3, <1>5, <1>6, <1>7 DEF IInv, KernelRemembers

--------------------------------------------------------------------------------
(* The theorems. *)

\* The walk before the first watches finds no ignored directory.
LEMMA InitIInv == Init => IInv
  <1> SUFFICES ASSUME Init PROVE IInv
    OBVIOUS
  <1>1. /\ kernel = <<>> /\ queue = <<>> /\ worker = "install" /\ batch = NoBatch /\ timer = 0
        /\ walked = Desired /\ untold = {} /\ matcher = {} /\ live = {} /\ paths = {}
        /\ overflow = FALSE /\ subscribed = TRUE /\ dropped = FALSE /\ callback = "idle"
        /\ unseen = FALSE
    BY DEF Init
  <1>2. /\ kernel \in Seq(Events) /\ Len(kernel) = 0
        /\ queue \in Seq(Events) /\ Len(queue) = 0
    BY <1>1
  <1>3. /\ NoBatch \in [refresh: SUBSET Bits, reload: BOOLEAN, recompute: BOOLEAN]
        /\ ~NoBatch.reload
    BY DEF NoBatch
  <1>4. Desired \subseteq dirs /\ Clear(Desired)
    BY DEF Desired, Clear
  <1>5. TypeOK
    <2>1. timer \in 0..MaxBatch /\ Len(kernel) <= KernelCapacity + 1 /\ Len(queue) <= QueueCapacity
      BY <1>1, <1>2, WatcherAssumption
    <2>2. dirs \subseteq Dirs /\ (\A d \in dirs: ParentOf[d] \in dirs \cup {Root})
      BY DEF Init
    <2>3. rules \in [Places -> SUBSET Rules] /\ \A p \in Dirs: rules[p] # {} => p \in dirs
      <3>1. \A p \in Places: rules[p] \in IF p \in dirs \cup {Root} THEN RuleFiles(p) ELSE {{}}
        BY DEF Init
      <3>2. Root \notin Dirs /\ Dirs \subseteq Places
        BY WatcherAssumption DEF Places
      <3> QED BY <3>1, <3>2 DEF Init
    <2>4. worker \in WorkerAt /\ callback \in {"idle", "full"} /\ walked \subseteq Dirs
      BY <1>1, <1>4, <2>2 DEF WorkerAt, Starting
    <2> QED BY <1>1, <1>2, <1>3, <2>1, <2>2, <2>3, <2>4 DEF TypeOK
  <1>6. KernelRemembers
    BY <1>2, WatcherAssumption DEF KernelRemembers
  <1> QED BY <1>1, <1>3, <1>4, <1>5, <1>6 DEF IInv, BatchSound, RulesFollow, Carried, Starting

\* The first watches are those of the walk, and the first matcher is built with
\* them in place: a later change of the rules is an event, or was overlooked.
LEMMA SubscribeIInv == ASSUME IInv, Subscribe PROVE IInv'
  <1>1. /\ UNCHANGED <<dirs, rules, kernel, callback, queue, overflow, dropped, batch, timer,
                       untold, unseen>>
        /\ Hidden' = Hidden /\ BuildMatcher' = BuildMatcher
    <2>1. UNCHANGED <<dirs, rules, kernel, callback, queue, overflow, dropped, batch, timer, untold,
                      unseen>>
      BY DEF Subscribe, Install, LoadRules, fsVars, queueVars
    <2> QED BY <2>1, SameRules
  <1>2. InFlight' = InFlight
    BY <1>1 DEF InFlight
  <1>3. untold = {} /\ batch = NoBatch /\ ~batch.reload
    BY DEF IInv, BatchSound, Subscribe, Install, LoadRules, Starting, NoBatch
  <1>4. Pending => Pending'
    BY <1>1, <1>2, <1>3 DEF Pending
  <1>5. CASE Install /\ walked \subseteq dirs
    <2>1. /\ live' = walked /\ paths' = walked /\ worker' = "load" /\ walked' = {}
          /\ matcher' = matcher /\ subscribed' = subscribed /\ worker = "install"
      BY <1>5 DEF Install
    <2>2. TypeOK'
      BY <1>1, <1>5, <2>1 DEF IInv, TypeOK, WorkerAt, Starting
    <2>3. RulesFollow'
      BY <1>1, <1>4, <2>1 DEF IInv, RulesFollow, Running, Clear, Ignored, Starting
    <2> QED BY <1>1, <1>3, <2>1, <2>2, <2>3 DEF IInv, KernelRemembers, BatchSound, Carried
  <1>6. CASE Install /\ ~(walked \subseteq dirs)
    <2>1. /\ live' = live /\ paths' = paths /\ worker' = "stopped" /\ walked' = {}
          /\ matcher' = matcher /\ subscribed' = FALSE
      BY <1>6 DEF Install
    <2>2. TypeOK'
      BY <1>1, <2>1 DEF IInv, TypeOK, WorkerAt
    <2> QED BY <1>1, <1>3, <2>1, <2>2
            DEF IInv, KernelRemembers, BatchSound, RulesFollow, Running, Carried
  <1>7. CASE LoadRules
    <2>1. /\ live' = live /\ paths' = paths /\ worker = "load" /\ worker' = "recv"
          /\ walked' = walked /\ matcher' = BuildMatcher /\ subscribed' = subscribed
      BY <1>7 DEF LoadRules
    <2>2. TypeOK'
      BY <1>1, <2>1, MatcherType DEF IInv, TypeOK, WorkerAt
    <2>3. RulesFollow'
      BY <1>1, <1>4, <2>1 DEF IInv, RulesFollow, Running, Clear, Ignored, Starting
    <2> QED BY <1>1, <1>3, <2>1, <2>2, <2>3 DEF IInv, KernelRemembers, BatchSound, Carried
  <1> QED BY <1>5, <1>6, <1>7 DEF Subscribe, Install

\* Every step keeps the invariant.
LEMMA NextIInv == ASSUME IInv, [Next]_vars PROVE IInv'
  <1>1. CASE FileSystem
    BY <1>1, FileSystemIInv
  <1>2. CASE QueueEvent \/ StoreOverflow
    BY <1>2, CallbackIInv
  <1>3. CASE ReceiveFirst \/ CollectEvent
    BY <1>3, ReceiveIInv
  <1>4. CASE CloseBatch
    BY <1>4, CloseIInv
  <1>5. CASE WalkTree \/ UpdateScope
    BY <1>5, ScopeIInv
  <1>6. CASE Emit
    BY <1>6, EmitIInv
  <1>7. CASE Tick
    BY <1>7, TickIInv
  <1>8. CASE Unsubscribe
    BY <1>8, UnsubscribeIInv
  <1>10. CASE Subscribe
    BY <1>10, SubscribeIInv
  <1>9. CASE UNCHANGED vars
    <2>1. UNCHANGED <<dirs, rules, live, kernel, callback, queue, overflow, dropped, worker, batch,
                      timer, walked, paths, matcher, subscribed, untold, unseen>>
      BY <1>9 DEF vars, fsVars, queueVars, workerVars
    <2>2. InFlight' = InFlight /\ (\A x: RefreshOf(x)' = RefreshOf(x))
      BY <2>1 DEF InFlight, RefreshOf, Ignored
    <2>3. TypeOK'
      BY <2>1 DEF IInv, TypeOK
    <2>4. RulesFollow'
      BY <2>1, <2>2, SameRules DEF IInv, RulesFollow, Running, Pending, Clear, Ignored
    <2>5. Carried'
      BY <2>1, <2>2 DEF IInv, Carried
    <2> QED BY <2>1, <2>3, <2>4, <2>5 DEF IInv, KernelRemembers, BatchSound
  <1> QED BY <1>1, <1>2, <1>3, <1>4, <1>5, <1>6, <1>7, <1>8, <1>9, <1>10 DEF Next, WorkerStep

\* The invariant holds in every run of the watcher.
LEMMA Inductive == Spec => []IInv
  <1>1. IInv /\ [Next]_vars => IInv'
    BY NextIInv
  <1> QED BY InitIInv, <1>1, PTL DEF Spec

\* No change that a watch saw is lost between the callback, the queue, the batch
\* and the flag of an overflow (watcher.rs, batch.rs).
THEOREM ChangesCarried == Spec => []Carried
  <1>1. IInv => Carried
    BY DEF IInv
  <1> QED BY Inductive, <1>1, PTL

\* At rest the rules and the watches are those of the disk, as the worker reads
\* them (ignore_rules.rs, scope.rs): who changed the rules while they were being
\* read has left an event behind, or did so where no watch was.
THEOREM ScopeStaysCurrent == Spec => []ScopeIsCurrent
  <1>1. IInv => ScopeIsCurrent
    <2> SUFFICES ASSUME IInv, Quiet, ~dropped, ~unseen
                 PROVE  matcher = BuildMatcher /\ live \subseteq Desired \cap paths
      BY DEF IInv, ScopeIsCurrent
    <2>1. Running /\ worker = "recv"
      BY DEF Quiet, Running
    <2>2. ~Pending
      BY <2>1 DEF Quiet, Pending, InFlight
    <2>3. matcher = BuildMatcher /\ Clear(live)
      BY <2>1, <2>2 DEF IInv, RulesFollow, Starting
    <2> QED BY <2>3 DEF IInv, TypeOK, Clear, Desired
  <1> QED BY Inductive, <1>1, PTL
================================================================================
