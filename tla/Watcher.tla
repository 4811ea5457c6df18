------------------------------- MODULE Watcher -------------------------------
(***************************************************************************)
(* The repository watcher of crates/watcher on Linux: the notify callback  *)
(* puts filesystem events into a bounded queue, one worker thread collects *)
(* them into batches, keeps the ignore rules and the watches up to date    *)
(* and emits one Refresh per batch.                                        *)
(*                                                                         *)
(* External to the code: the file system (directories, ignore rules and    *)
(* file contents change at any time), inotify (a watch sees changes in its *)
(* own directory, dies with it, and reports an overflow of the kernel's    *)
(* queue as a rescan request) and the clock (Tick).                        *)
(*                                                                         *)
(* A path is abstracted to the directory it lies in; what the filter tells *)
(* apart is the event's kind, the directory, and the Git file touched.     *)
(* A rule is one line of a rule file, without the negated ones: Matches    *)
(* says which directories it names when it is read as standing in a place. *)
(***************************************************************************)
EXTENDS Naturals, Sequences, FiniteSets

CONSTANTS
    Dirs,           \* the directories that come and go
    Info,           \* the one of them that is .git/info, if it is modelled
    ParentOf,       \* each one's parent: another of Dirs, or Root
    Root,           \* the repository root with its .git, always there
    RootBits,       \* what a change in the root or a Git directory refreshes
    Rules,          \* the lines a rule file may have
    RulePlaces,     \* where one may be: .gitignore in a directory, exclude in Info
    Matches,        \* what a rule names when it stands in a place
    Excluded,       \* what core.excludesFile or a parent's .gitignore names
    QueueCapacity,  \* EVENT_QUEUE_CAPACITY
    KernelCapacity, \* inotify's own queue
    MaxBatch        \* MAX_BATCH_DURATION, in ticks

ASSUME WatcherAssumption ==
    /\ Root \notin Dirs
    /\ ParentOf \in [Dirs -> Dirs \cup {Root}]
    /\ RulePlaces \subseteq Dirs \cup {Root}
    /\ Matches \in [Rules -> [Dirs \cup {Root} -> SUBSET (Dirs \ {Info})]]
    /\ \A r \in Rules: Info \in Dirs => Matches[r][Info] = Matches[r][Root]
    /\ Excluded \subseteq Dirs \ {Info}
    /\ QueueCapacity \in Nat \ {0}
    /\ KernelCapacity \in Nat \ {0}
    /\ MaxBatch \in Nat \ {0}

Places == Dirs \cup {Root}
Bits == RootBits \cup {"worktree"}

VARIABLES
    dirs,       \* the directories that exist
    rules,      \* the lines of the rule file in each place
    live,       \* the directories inotify has a watch on, beside Root
    kernel,     \* events inotify has not handed to the callback yet
    callback,   \* the notify thread: idle, or about to store the overflow flag
    queue,      \* event_receiver
    overflow,   \* queue_overflow_flag
    worker,     \* where the worker thread is
    batch,      \* the batch being collected or handled
    timer,      \* ticks left to the batch's hard deadline
    walked,     \* next_scope: the directories the last walk found
    paths,      \* watch_scope.paths
    matcher,    \* filter_context.ignorer: the directories it names
    subscribed, \* the Subscription is being made, or has not been dropped
    untold,     \* history: changes a watch saw that no refresh has covered yet
    dropped,    \* history: an event was dropped and no batch has heard of it
    unseen      \* history: the rules changed where no watch was, since they were last read

fsVars == <<dirs, rules>>
queueVars == <<kernel, callback, queue, overflow, dropped>>
workerVars == <<worker, batch, timer, walked, paths, matcher>>
vars == <<fsVars, live, queueVars, workerVars, subscribed, untold, unseen>>

Events ==
    [kind: {"edit", "tree"}, dir: Dirs]
        \cup [kind: {"root"}, bit: RootBits]
        \cup [kind: {"rules", "rescan"}]

\* A Batch's fields; the event count and events_lost are only logged.
NoBatch == [refresh |-> {}, reload |-> FALSE, recompute |-> FALSE]

\* In the first two subscribe has not returned, and no thread runs yet.
Starting == {"install", "load"}
WorkerAt == Starting \cup {"recv", "collect", "walk", "update", "emit", "stopped"}

TypeOK ==
    /\ dirs \subseteq Dirs
    /\ \A d \in dirs: ParentOf[d] \in dirs \cup {Root}
    /\ rules \in [Places -> SUBSET Rules]
    /\ \A p \in Dirs: rules[p] # {} => p \in dirs
    /\ live \subseteq dirs
    /\ kernel \in Seq(Events) /\ Len(kernel) <= KernelCapacity + 1
    /\ callback \in {"idle", "full"}
    /\ queue \in Seq(Events) /\ Len(queue) <= QueueCapacity
    /\ overflow \in BOOLEAN
    /\ worker \in WorkerAt
    /\ batch \in [refresh: SUBSET Bits, reload: BOOLEAN, recompute: BOOLEAN]
    /\ timer \in 0..MaxBatch
    /\ walked \subseteq Dirs
    /\ paths \subseteq Dirs
    /\ matcher \subseteq Dirs
    /\ subscribed \in BOOLEAN
    /\ untold \subseteq Bits
    /\ dropped \in BOOLEAN
    /\ unseen \in BOOLEAN

------------------------------------------------------------------------------
(* Ignore rules and the scope. *)

\* A directory and the directories above it, up to the root.
Ancestors[d \in Dirs \cup {Root}] ==
    IF d = Root THEN {} ELSE {d} \cup Ancestors[ParentOf[d]]

\* A directory is ignored when it or a directory above it matches.
Ignored(d, ignored) == Ancestors[d] \cap ignored # {}

\* What the rule file of p names, read as standing in `at`.
NamedBy(p, at) == UNION {Matches[r][at] : r \in rules[p]}

\* A walk reads every rule file where it stands, as Git does.
Hidden == Excluded \cup UNION {NamedBy(p, p) : p \in Places}

\* scope::compute: every directory such a walk reaches, and .git/info.
Desired == {d \in dirs: ~Ignored(d, Hidden)}

\* filter::refresh_for_event, by the rules the worker has loaded.
RefreshOf(e) ==
    IF e.kind = "rescan" THEN Bits
    ELSE IF e.kind = "root" THEN {e.bit}
    ELSE IF e.kind \in {"edit", "tree"} /\ (e.dir = Info \/ Ignored(e.dir, matcher)) THEN {}
    ELSE {"worktree"}

\* Batch::invalidate_all
InvalidateAll == [refresh |-> Bits, reload |-> TRUE, recompute |-> TRUE]

\* ignore_rules::requires_reload
RequiresReload(e) == e.kind = "rules"

\* WatchScope::directory_tree_changed: a directory comes or goes, under its own
\* name or by being renamed.
DirectoryTreeChanged(e) == e.kind = "tree"

\* ignore_rules::build_matcher: the rule files a walk reaches, and info/exclude,
\* but each as if it stood in the repository's root; it reads no others.
BuildMatcher == UNION {NamedBy(p, Root) : p \in Desired \cup {Root}}

\* Mutant: each event overwrites what the batch has collected.
AddEventAlone(b, e) ==
    IF e.kind = "rescan"
    THEN InvalidateAll
    ELSE [b EXCEPT !.refresh = RefreshOf(e),
                   !.reload = @ \/ RequiresReload(e),
                   !.recompute = @ \/ RequiresReload(e) \/ DirectoryTreeChanged(e)]

\* Batch::add_event
AddEvent(b, e) ==
    IF e.kind = "rescan"
    THEN InvalidateAll
    ELSE [b EXCEPT !.refresh = @ \cup RefreshOf(e),
                   !.reload = @ \/ RequiresReload(e),
                   !.recompute = @ \/ RequiresReload(e) \/ DirectoryTreeChanged(e)]

------------------------------------------------------------------------------
(* The file system and inotify. *)

\* inotify queues an event for a change one of its watches saw; when its
\* queue is full it keeps one rescan request instead.
Notice(e, seen) ==
    kernel' = IF ~seen THEN kernel
              ELSE IF Len(kernel) < KernelCapacity THEN Append(kernel, e)
              ELSE IF Len(kernel) = KernelCapacity THEN Append(kernel, [kind |-> "rescan"])
              ELSE kernel

\* Root is watched as soon as any directory is.
Watched == live \cup IF worker = "install" THEN {} ELSE {Root}

\* A change that a watch saw has to be told, once subscribe has returned.
Owes(bits, seen) ==
    untold' = IF seen /\ worker \notin Starting THEN untold \cup bits ELSE untold

\* What the rules come to has changed, and no event says so.
Overlooks(seen) ==
    unseen' = (unseen \/ (~seen /\ (Hidden' # Hidden \/ BuildMatcher' # BuildMatcher)))

\* The rules loaded let a change through; or those on disk do, as the matcher
\* would read them, and every change of theirs has been seen.
LetThrough(d) ==
    /\ d # Info
    /\ \/ ~Ignored(d, matcher)
       \/ ~unseen /\ ~Ignored(d, BuildMatcher)

EditFile(d) ==
    /\ d \in dirs
    /\ Notice([kind |-> "edit", dir |-> d], d \in Watched)
    /\ Owes(IF LetThrough(d) THEN {"worktree"} ELSE {}, d \in Watched)
    /\ UNCHANGED <<fsVars, live, callback, queue, overflow, dropped, workerVars, subscribed, unseen>>

\* With a rule file or without: it is renamed here with all it has, or the file
\* is written before anybody watches the directory.
MakeDir(d, file) ==
    /\ d \notin dirs
    /\ ParentOf[d] \in dirs \cup {Root}
    /\ dirs' = dirs \cup {d}
    /\ rules' = [rules EXCEPT ![d] = file]
    /\ Notice([kind |-> "tree", dir |-> d], ParentOf[d] \in Watched)
    /\ Overlooks(FALSE)
    /\ UNCHANGED <<live, callback, queue, overflow, dropped, workerVars, subscribed, untold>>

\* A directory goes when no other is in it, and its watch and its rule file go
\* with it.
RemoveDir(d) ==
    /\ d \in dirs
    /\ \A c \in dirs: ParentOf[c] # d
    /\ dirs' = dirs \ {d}
    /\ live' = live \ {d}
    /\ rules' = [rules EXCEPT ![d] = {}]
    /\ Notice([kind |-> "tree", dir |-> d], {d, ParentOf[d]} \cap Watched # {})
    /\ Overlooks(FALSE)
    /\ UNCHANGED <<callback, queue, overflow, dropped, workerVars, subscribed, untold>>

EditRules(p, file) ==
    /\ p \in dirs \cup {Root}
    /\ file # rules[p]
    /\ rules' = [rules EXCEPT ![p] = file]
    /\ Notice([kind |-> "rules"], p \in Watched)
    /\ Owes({"worktree"}, p \in Watched)
    /\ UNCHANGED <<dirs, live, callback, queue, overflow, dropped, workerVars, subscribed>>
    /\ Overlooks(p \in Watched)

\* A file that lies in the root, of which no rule speaks, or one of Git's own.
RootChange(bit) ==
    /\ Notice([kind |-> "root", bit |-> bit], Root \in Watched)
    /\ Owes({bit}, Root \in Watched)
    /\ UNCHANGED <<fsVars, live, callback, queue, overflow, dropped, workerVars, subscribed, unseen>>

------------------------------------------------------------------------------
(* The notify callback: try_queue_event. *)

QueueEvent ==
    /\ subscribed
    /\ callback = "idle"
    /\ kernel # <<>>
    /\ kernel' = Tail(kernel)
    /\ \/ /\ worker # "stopped"
          /\ Len(queue) < QueueCapacity
          /\ queue' = Append(queue, Head(kernel))
          /\ UNCHANGED <<callback, dropped>>
       \/ /\ worker # "stopped"
          /\ Len(queue) = QueueCapacity
          /\ callback' = "full"
          /\ dropped' = TRUE
          /\ UNCHANGED queue
       \/ /\ worker = "stopped"
          /\ UNCHANGED <<queue, callback, dropped>>
    /\ UNCHANGED <<fsVars, live, overflow, workerVars, subscribed, untold, unseen>>

\* The flag is stored after try_send has found the queue full, not with it.
StoreOverflow ==
    /\ callback = "full"
    /\ overflow' = TRUE
    /\ callback' = "idle"
    /\ UNCHANGED <<fsVars, live, kernel, queue, dropped, workerVars, subscribed, untold, unseen>>

------------------------------------------------------------------------------
(* The worker thread. *)

\* The callback and its sender are gone: what is queued is all there is.
Disconnected == ~subscribed /\ callback = "idle"

\* collect_batch, up to its loop.
BeginBatch(e) ==
    /\ batch' = AddEvent(NoBatch, e)
    /\ timer' = MaxBatch

\* Mutant: the worker takes a disconnected queue for an empty one.
ReceiveForever ==
    /\ worker = "recv"
    /\ queue # <<>>
    /\ BeginBatch(Head(queue))
    /\ queue' = Tail(queue)
    /\ worker' = "collect"
    /\ UNCHANGED <<fsVars, live, kernel, callback, overflow, dropped, walked, paths, matcher,
                   subscribed, untold, unseen>>

ReceiveFirst ==
    /\ worker = "recv"
    /\ \/ /\ queue # <<>>
          /\ BeginBatch(Head(queue))
          /\ queue' = Tail(queue)
          /\ worker' = "collect"
       \/ /\ queue = <<>>
          /\ Disconnected
          /\ worker' = "stopped"
          /\ UNCHANGED <<batch, queue, timer>>
    /\ UNCHANGED <<fsVars, live, kernel, callback, overflow, dropped, walked, paths, matcher,
                   subscribed, untold, unseen>>

\* Mutant: every event puts the deadline off, without a cap.
CollectWithoutCap ==
    /\ worker = "collect"
    /\ queue # <<>>
    /\ batch' = AddEvent(batch, Head(queue))
    /\ queue' = Tail(queue)
    /\ UNCHANGED <<fsVars, live, kernel, callback, overflow, dropped, worker, timer, walked, paths,
                   matcher, subscribed, untold, unseen>>

CollectEvent ==
    /\ worker = "collect"
    /\ timer > 0
    /\ queue # <<>>
    /\ batch' = AddEvent(batch, Head(queue))
    /\ queue' = Tail(queue)
    /\ UNCHANGED <<fsVars, live, kernel, callback, overflow, dropped, worker, timer, walked, paths,
                   matcher, subscribed, untold, unseen>>

\* Time passes for the worker only while it waits with a deadline.
Tick ==
    /\ worker = "collect"
    /\ timer > 0
    /\ timer' = timer - 1
    /\ UNCHANGED <<fsVars, live, queueVars, worker, batch, walked, paths, matcher, subscribed,
                   untold, unseen>>

\* The hard deadline closes a batch at the latest, the quiet period sooner: it
\* may run out whenever no event has been taken for a while, and a
\* disconnected queue ends it at once.  The flag is swapped and the rules are
\* read again in the same step: what other threads do between the three either
\* leaves the swap alone or leaves the rules alone, so it may as well come
\* before or after.
CloseBatch ==
    /\ worker = "collect"
    /\ timer' = 0
    /\ LET closed == IF overflow THEN InvalidateAll ELSE batch
       IN /\ batch' = closed
          /\ matcher' = IF closed.reload THEN BuildMatcher ELSE matcher
          /\ worker' = IF closed.recompute THEN "walk" ELSE "emit"
    /\ overflow' = FALSE
    /\ dropped' = IF overflow THEN callback = "full" ELSE dropped
    /\ unseen' = (unseen /\ ~batch'.reload)
    /\ UNCHANGED <<fsVars, live, kernel, callback, queue, walked, paths, subscribed, untold>>

WalkTree ==
    /\ worker = "walk"
    /\ walked' = Desired
    /\ worker' = "update"
    /\ UNCHANGED <<fsVars, live, queueVars, batch, timer, paths, matcher, subscribed, untold, unseen>>

\* Mutant: directories are added to the scope and never taken out.
UpdateByAdding ==
    /\ worker = "update"
    /\ IF subscribed
       THEN LET added == (walked \ paths) \cap dirs
            IN /\ paths' = paths \cup added
               /\ live' = live \cup added
               /\ worker' = "emit"
       ELSE worker' = "stopped" /\ UNCHANGED <<paths, live>>
    /\ walked' = {}
    /\ UNCHANGED <<fsVars, queueVars, batch, timer, matcher, subscribed, untold, unseen>>

\* WatchScope::update: a path already in `paths` is not watched again, a
\* directory that is gone cannot be watched, a stale path is unwatched.
\* Without a Subscription the weak reference does not upgrade and it stops.
UpdateScope ==
    /\ worker = "update"
    /\ IF subscribed
       THEN LET added == (walked \ paths) \cap dirs
            IN /\ paths' = (paths \cap walked) \cup added
               /\ live' = (live \ (paths \ walked)) \cup added
               /\ worker' = "emit"
       ELSE worker' = "stopped" /\ UNCHANGED <<paths, live>>
    /\ walked' = {}
    /\ UNCHANGED <<fsVars, queueVars, batch, timer, matcher, subscribed, untold, unseen>>

\* A non-empty refresh is sent, or the receiver is gone and the worker stops.
Emit ==
    /\ worker = "emit"
    /\ \/ /\ worker' = "recv"
          /\ untold' = untold \ batch.refresh
       \/ /\ batch.refresh # {}
          /\ worker' = "stopped"
          /\ UNCHANGED untold
    /\ batch' = NoBatch
    /\ UNCHANGED <<fsVars, live, queueVars, timer, walked, paths, matcher, subscribed, unseen>>

------------------------------------------------------------------------------
(* The beginning and the end of the subscription. *)

\* WatchScope::install: every watch, or an error and no subscription.
Install ==
    /\ worker = "install"
    /\ \/ /\ walked \subseteq dirs
          /\ live' = walked
          /\ paths' = walked
          /\ worker' = "load"
          /\ UNCHANGED subscribed
       \/ /\ ~(walked \subseteq dirs)
          /\ worker' = "stopped"
          /\ subscribed' = FALSE
          /\ UNCHANGED <<live, paths>>
    /\ walked' = {}
    /\ UNCHANGED <<fsVars, queueVars, batch, timer, matcher, untold, unseen>>

\* The first matcher is built when the watches are there, and the worker starts.
LoadRules ==
    /\ worker = "load"
    /\ matcher' = BuildMatcher
    /\ worker' = "recv"
    /\ UNCHANGED <<fsVars, live, queueVars, batch, timer, walked, paths, subscribed, untold, unseen>>

\* Dropping the Subscription stops inotify: no callback starts after it.
Unsubscribe ==
    /\ subscribed
    /\ worker \notin Starting
    /\ subscribed' = FALSE
    /\ kernel' = <<>>
    /\ untold' = {}
    /\ UNCHANGED <<fsVars, live, callback, queue, overflow, dropped, workerVars, unseen>>

\* The rule files a place may have.
RuleFiles(p) == IF p \in RulePlaces THEN SUBSET Rules ELSE {{}}

\* subscribe, when it has walked the tree and watches nothing yet.
Init ==
    /\ dirs \in SUBSET Dirs
    /\ \A d \in dirs: ParentOf[d] \in dirs \cup {Root}
    /\ rules \in [Places -> SUBSET Rules]
    /\ \A p \in Places: rules[p] \in IF p \in dirs \cup {Root} THEN RuleFiles(p) ELSE {{}}
    /\ worker = "install"
    /\ walked = Desired
    /\ live = {}
    /\ paths = {}
    /\ matcher = {}
    /\ kernel = <<>>
    /\ callback = "idle"
    /\ queue = <<>>
    /\ overflow = FALSE
    /\ batch = NoBatch
    /\ timer = 0
    /\ subscribed = TRUE
    /\ untold = {}
    /\ dropped = FALSE
    /\ unseen = FALSE

\* Once nobody subscribes or the worker has stopped, nothing follows from what
\* becomes of the files.
FileSystem ==
    /\ subscribed
    /\ worker # "stopped"
    /\ \/ \E d \in Dirs: EditFile(d) \/ RemoveDir(d)
       \/ \E d \in Dirs: \E file \in RuleFiles(d): MakeDir(d, file)
       \/ \E p \in RulePlaces: \E file \in RuleFiles(p): EditRules(p, file)
       \/ \E bit \in RootBits: RootChange(bit)

WorkerStep ==
    \/ ReceiveFirst \/ CollectEvent \/ CloseBatch
    \/ WalkTree \/ UpdateScope \/ Emit

Subscribe == Install \/ LoadRules

Next ==
    FileSystem \/ QueueEvent \/ StoreOverflow \/ Subscribe \/ WorkerStep \/ Tick \/ Unsubscribe

Spec == Init /\ [][Next]_vars

\* Both threads run, inotify hands over what it has, and time passes.  Nobody
\* is obliged to change a file or to unsubscribe.
FairSpec ==
    /\ Spec
    /\ WF_vars(QueueEvent \/ StoreOverflow)
    /\ WF_vars(Subscribe \/ WorkerStep)
    /\ WF_vars(Tick)

------------------------------------------------------------------------------
(* Properties. *)

InFlight == {kernel[i] : i \in DOMAIN kernel} \cup {queue[i] : i \in DOMAIN queue}

\* No change is lost on its way: whatever a watch saw and no refresh has told
\* is still in a queued event that the rules now loaded will let through, in
\* the batch, or in an overflow that somebody remembers.
Carried ==
    subscribed /\ worker # "stopped" =>
        \A bit \in untold:
            \/ \E e \in InFlight: bit \in RefreshOf(e)
            \/ bit \in batch.refresh
            \/ dropped

\* Nothing is in flight and the worker waits for the next event.
Quiet ==
    subscribed /\ callback = "idle" /\ kernel = <<>> /\ queue = <<>> /\ worker = "recv"

\* At rest, if no overflow is outstanding and no change of a rule file has gone
\* unseen, the worker has the rules on disk loaded, as it reads them, though
\* they may change while it reloads; and, "so target/ is never watched", no
\* watch is left on a directory that has become ignored, nor one that WatchScope
\* does not know about.  No variable ever leaves its type.  What it does not
\* say, as the code does not do it: that a rule which comes with its directory
\* is loaded (`unseen`: watch.rs:64 only recomputes the scope), and that the
\* matcher hides what Git ignores and no more (ignore_rules.rs:45 reads each
\* file as if it stood in the root, see BuildMatcher).
ScopeIsCurrent ==
    /\ TypeOK
    /\ Quiet /\ ~dropped /\ ~unseen => matcher = BuildMatcher /\ live \subseteq Desired \cap paths

\* "capped at 250 ms during continuous activity": a change is told however
\* many events keep coming, unless the queue overflows or an end goes away.
ToldUnderLoad ==
    \A bit \in Bits:
        []<>(bit \notin untold \/ dropped \/ ~subscribed \/ worker = "stopped")

\* Dropping the Subscription ends the worker thread, from wherever it is.
UnsubscribeStops == []<>(subscribed \/ worker = "stopped")

\* The test of a removed directory that comes back: "recreating a removed path
\* must install a fresh watch".  Both within one batch, and `paths` still holds
\* the directory whose watch has died.
RecreatedIsWatched == Quiet /\ ~dropped => paths \cap dirs \subseteq live
==============================================================================
