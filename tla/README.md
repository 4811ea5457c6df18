# A TLA+ model of codediff

codediff is a terminal reviewer of Git changes. Its user interface runs on one
thread; everything slow (Git, diffs, syntax colouring, the file system) runs on
worker threads that are asked through slots and channels and answer through one
event channel. Much of what can go wrong in it goes wrong *between* these
threads: an answer that is out of date, a wakeup that is lost, a refresh nobody
hears of. The rest goes wrong on the long way from what Git prints and the diff
engine finds to the cells of the terminal: numbers of lines, columns, bytes and
cells that are off by one, a cursor that loses its item, a row painted twice.
These modules are about both.

Contents: [the system](#the-system), [modules](#modules), [runs](#runs),
[disagreements](#disagreements-with-the-documentation), [proofs](#proofs),
[hazards](#hazards), [what is not modelled](#what-is-not-modelled),
[plan](#plan).

## The system

Paths are relative to `src/crates`.

| component | state | operations | interacts with | what is hard |
|---|---|---|---|---|
| `channel` (`slot.rs`) | one waiting value, a busy flag, a condition variable | `put`, `is_busy`, the worker loop, drop | used by the file-list and diff workers | lost wakeups, stale requests, a flag under another mutex, the end of the loop |
| `watcher` | event queue and overflow flag, batch and deadlines, ignore rules, watched directories | notify callback, collect, reload, recompute, emit, drop | told by inotify; tells the event channel | dropped events, endless bursts, rules and directories that change meanwhile |
| `pipeline` workers | the running job | list files, read and compare both sides | asked through `Slot`, read the repository through `vcs`, answer through `Emitter` | reads that are not atomic, errors, answers out of date |
| `syntax` worker and store | requests, unfinished readings (memos), entries with versions, LRU order, line budget | request, answer in pieces, resume, install, evict | asked by `use_syntax` and `SyntaxService`, answers through the event channel | versions, pieces, resumption, eviction while answers are in flight |
| `ui` services, Explorer, DiffViewer | file list, selection, content, subscriptions | handle an event, open a file, stage, draw, effects | everything above | lists and selections that change behind the screen |
| `loom` | component tree, hook slots, dirty scopes, effects and their generations, focus, scroll | render, commit state, lay out, run effects, route input | runs the UI | re-rendering rounds, stale listeners and answers after an unmount |
| `vcs` | none (a batch `git cat-file` per repository) | list, compare, read a side, stage, unstage | runs Git | several commands are not one snapshot; one status record is two entries; the index lock |
| `file-types` | none | the constructors of a `File`, its versions, its content | everything that names a file | which side has a path and a revision |
| `config` | preferences in memory and on disk | open, reload, update with an atomic save | the file system | crashes and errors between the steps of a save |
| `align`, `line-index` | none | normalise, pair lines, hunks, decorations; bytes, UTF-16 units and cells | pipeline and ui | boundaries, empty ranges, wide characters |
| `ui/view`, `ui/components` | layout, wrap and scroll settings, the place of every file | wrap, fold, lay out, paint, scroll | drawn by `loom` | layouts that depend on measures that depend on layouts |
| `syntax` engines | a parser's state between two pieces | find a grammar, colour lines | the syntax worker | pieces, nested and overlapping scopes |
| the session: `main`, `ui::main`, `run`, `screen` | the terminal's modes, threads, handlers | start, draw, answer, end | the machine | errors, panics and signals at every step |
| `libvscode-diff`, `vscode-diff(-sys)` | none | the diff algorithm in C, its bindings | pipeline | - |

A change of the repository travels like this: inotify → the callback's queue →
one batch → `Refresh` in the event channel → Explorer asks the file-list slot and
DiffViewer the diff slot → the workers run Git → their answers come back through
the event channel → the list, the selection and the content are written → the
next drawing reads them, and its effects ask for what has become visible.

What makes each component correct:

- **slot**: a request put is run or replaced by a newer one; the worker takes
  only the newest; the loop ends when it should.
- **watcher**: every change that a watch saw is told, or an overflow is; rules
  and watches are those of the disk once things are quiet; a dropped subscription
  ends the thread.
- **syntax**: no entry mixes texts; pieces fit; the budget's bookkeeping is
  exact; what is asked for arrives and every key is released.
- **review loop**: when everything has been answered, list and view show the
  repository as it is; the loop does come to rest.
- **vcs**: the list is what comparing the trees by hand would give, each entry
  has the sides it says it has, and Space moves what it was pressed on.
- **explorer and application**: every file is in the list once; the cursor keeps
  its item and stays on the screen; every key has somebody to answer it.
- **align, line-index, views**: every line of both texts is shown once, beside
  its partner, where the layout puts it and with the marks the engine asked for;
  the place of a file comes back; drawing comes to rest.
- **syntax engines**: a file read in pieces looks as if read at once.
- **session**: the terminal is given back however the program ends, a request to
  end is answered, and what runs is what the preferences say.
- **config**: a save leaves the old preferences or the new ones, whatever fails;
  what a successful update has saved stays.
- **loom**: what changes is drawn; each component's effect runs once for what it
  depends on; an answer reaches the run of the effect that asked and no other.

## Modules

| module | models | shape |
|---|---|---|
| `Mailbox` | the contract of a latest-value slot | three variables, `Put`, `Take`, `Finish`, `Leave` |
| `Slot` | `channel/src/slot.rs` | one step per critical section of caller and worker |
| `Watcher`, `MCWatcher` | `watcher/src` on Linux, with inotify and the file system as its environment | callback, worker and file system as actors |
| `Syntax`, `MCSyntax` | `syntax/src/worker`, `SyntaxService`, `use_syntax` | UI thread and worker thread, channels as sequences |
| `SyntaxProofs` | theorems about `Syntax`, and about `Highlight`, its engine | inductive invariants over requests, job, answers, entries and memos, and over the store; induction along a file's lines |
| `WatcherProofs` | theorems about `Watcher` | inductive invariant over events, batch and rules |
| `SafeFile` | the contract of the preference file | two variables, `Replace`, `Settle`, `LosePower` |
| `ConfigStore` | `config/src/store.rs`, with the file system as its environment | one step per call of a save, in several processes, with errors and crashes |
| `ConfigStoreProofs` | theorems about `ConfigStore` | inductive invariant, refinement of `SafeFile` |
| `Files` | `file-types/src`: revisions, paths, stats, content | operators, used by `Git` and `Explorer` |
| `Git`, `MCGit` | `vcs/src`: listings, comparisons, reads, staging; Git's answers as its environment | the repository's trees, a list, commands in threads |
| `GitProofs` | theorems about `Git` | inductive invariant over list and commands, induction along the listing |
| `Numbers` | `min`, `max`, `saturating_sub` | operators |
| `LineIndex` | `line-index/src` | operators over clusters of characters |
| `Align` | `align/src`, and how `pipeline` calls it | operators over two texts and a list of changes |
| `Pipeline` | `pipeline/src/diff` and the engine's binding in `vscode-diff`: from what was read to what the viewer gets | operators, on `Align` and `Files` |
| `Wrap` | `ui/src/view` and `ui/src/components/code_text.rs` | operators from view lines to terminal lines, and from these to cells |
| `Hosts` | `loom/src/layout`, `node.rs`, `geometry.rs`, `scroll.rs`: hosts, rectangles, the flex pass, what a scroll makes of an offset | operators over a host's children |
| `Frame` | `loom/src/frame.rs`: measuring, placing, clipping, painting; `loom/src/event`, focus | recursive operators over a tree of hosts, operators over the hosts placed |
| `Viewer` | the diff viewer and its three renderers, on `Pipeline`, `Wrap` and `Hosts` | one step per round of a drawing and per event |
| `MCViewer` | what of it is on the screen, on `Frame` | a property |
| `ViewerProofs` | theorems about `Viewer` and `Wrap` | inductive invariant over hooks, rows and places; induction along a line, a text, an alignment |
| `Explorer` | `ui/src/components/explorer`: the tree, its rows, identity | recursive operators, on `Files` and `LineIndex` |
| `App`, `MCApp` | `app.rs`, `border.rs`, the Explorer's hooks and listeners, on `Explorer` and `Frame` | one step per drawing and per event |
| `Highlight`, `MCHighlight` | `syntax/src` without its worker: detection, both engines, resumed readings | one step per request for a line |
| `Settings` | what preferences mean: path, defaults, checks, keys, theme | operators |
| `GitDirs` | `watcher/src/git_dirs.rs`, the Git part of `filter.rs` and `scope.rs`, `vcs`'s `find_repo` | operators over a tree of files |
| `Session`, `MCSession` | a run of the program from `main` to its exit code, on `Settings` and `GitDirs` | main thread, input thread, signal thread, workers |
| `SessionProofs` | theorems about `Session` | inductive invariants over what `main` holds and has read |
| `Review`, `MCReview` | the review loop: repository, watcher at its word, two `Mailbox` instances, the event channel, Explorer and DiffViewer | composition |
| `ReviewProofs` | theorems about `Review`, and about `Slot`, which feeds its workers | inductive invariants over what is owed and what is on its way, and over the slot's two mutexes; refinement of `Mailbox` |
| `Loom`, `MCLoom` | the runtime of `loom/src`: scopes, marks, rounds, hooks, effects, addresses | one step per component entered and per effect run |
| `LoomProofs` | theorems about `Loom` | inductive invariant over handles, effects, the tree and the walk through it, marks, answers |

### Slot and Mailbox

(`Slot` names its specification `SlotSpec`, and `Highlight` its own `ReadingSpec`, as
both are proved about beside another one.) `put` is three critical sections (`PutValue`, `PutBusy`, `PutNotify`), as the
value and the flag have a mutex each and the notification none. The worker's
location says where in the loop it is; in the locations of `HoldsLock` it holds
the value's mutex, and only `Condvar::wait` (`Sleep`) gives it up before the
value is taken. The flag's mutex is held for single reads and writes only, so it
needs no location. A spurious wakeup is an action without fairness. `newest` is a
history variable: the last value put.

`Mailbox` has the same promise without locks or flags. `ImplementsMailbox` says
every step of the slot is a mailbox step or a stutter, under the mapping
`waiting <- value`, `working <- item`, `open <- worker \notin {"fail", "done"}`.
`Review` uses mailboxes for the two workers.

### Watcher

Actors: the file system (`EditFile`, `MakeDir`, `RemoveDir`, `EditRules`,
`RootChange`, all external), the notify thread (`QueueEvent`, `StoreOverflow`),
the caller of `subscribe` (`Install`, `LoadRules`; `Init` is behind its walk), the
worker thread (`ReceiveFirst` .. `Emit`), the clock (`Tick`) and the owner of the
subscription. A path is abstracted to its directory. `Notice` is inotify's own
bounded queue: only a change below a live watch is seen, and an overflow of it
becomes one rescan event. A watch dies with its directory (`live`), which the
code's `paths` does not notice.

Rules are lines of rule files, one file in each directory that may have one, and
`exclude` in `.git/info`, which comes and goes like any other (`Info`). `Matches` says
which directories a line names when it is read as standing in a place. The walk
(`Desired`) reads every file where it stands, as Git does, and those Git knows besides
(`Excluded`); the matcher of the filter (`BuildMatcher`) reads the files that a walk
reaches, each as if it stood in the root, and no others. So the two differ, in the model
as in the code. A rule file may be written where nothing is watched, come with a
directory that is made or renamed in, or go with one; then no event speaks of it.
Negated rules are left out, and so is a matcher that cannot be built
(`ignore_rules.rs:53`).

`untold`, `dropped` and `unseen` are history variables: changes that were seen and not
told yet, a drop no batch has heard of, and a change of what the rules come to that no
event speaks of, since they were last read. A change is owed (`LetThrough`) when the
matcher that is loaded lets it through, or the one that would be built now does and
nothing went unseen.

The overflow flag's swap and the reload of the rules are one step
(`CloseBatch`); the comment there says why nothing is lost by it. A walk and the
watches that follow from it are two steps, also in `subscribe`, so that directories come
and go between them: the first watches then fail, or miss a directory that nothing
reports until another one comes or goes.

### Syntax

Texts are numbered by the content they came with; a coloured line is the number
of the text it was coloured from. What a request carries, what a memo holds and
what a response claims are kept apart from each other, so that a mix is visible.
The UI thread handles an event or an effect at a time; a new content runs both
effects of `use_syntax` in one turn, as a drawing does. The parser of a piece is
nondeterministic: it reads to the end of the chunk, to the end of the file (a
parser without ranges), or nothing; a file without a grammar is answered at once.

### ConfigStore and SafeFile

`update` is a chain of calls into the file system, one action each: make the
folder, remove a leftover temporary file, create, write and sync a new one, rename
it, sync the folder; each may fail, and all but the first failure go through
`Cleanup`. A file is a text and whether it was synced. The preference file's name
is an entry of the folder, and `durable` holds every file it may lead to after a
loss of power; syncing the folder leaves one. `PowerLoss` picks one of them, tears
its text if it was not synced, and leaves temporary files at will; a folder just
made may be gone. A killed process may come back under the same number, which is
the worst case for the name of its temporary file. What a reader can observe is
two things, the text now and the texts after a loss of power; `SafeFile` says how
they may change, and `ImplementsSafeFile` maps every step of a save to `Replace`
(the rename), `Settle` (syncing the folder) or nothing. `later` and `pledged` are
history variables: the texts put in place since a process's rename, and those that
successful updates leave possible.

### Review

The repository has an index, a working tree and a list of commits, changed at
any time by anybody, the Explorer's stage and unstage included. A listing reads
line counts, status and HEAD in three steps and the diff job its two sides in
two, with changes in between; both may fail, which is answered too. The UI thread
handles the events of the channel one by one (`HandleRefresh`, `HandleFiles`,
`HandleDiff`) and draws when the channel is empty. State written by a handler
(`files`, `selected`) is what the next drawing shows (`listed`, `opened`); keys
and clicks act on `listed`. `failed` remembers which worker's last job failed:
nothing asks again after an error, so the freshness of the list is claimed only
after a listing that did not fail, and that of the diff only after a diff that did
not, whatever the other worker does.
`behind` is a history variable: the file was opened by a key from a list that had been
replaced and was not drawn again yet, so it may be no entry of the new one.
`Counts` gives the `Stats` of two texts; `MCReview` makes all different texts
count alike, so that a changed file may have an unchanged entry.

### Loom

A drawing is cut where the code calls out: a component is entered and found clean
(`Reuse`) or run (`Render`); its parts are matched one by one (`Keep`, `Mount`),
each being entered before the next; then the children nobody claimed are unmounted
(`Finish`). `stack` holds one `Cursor` for each component being expanded, as the
recursion of `run` and `expand` does; a cursor has the old children and the
positions of those still to be compared, the next of a key and type or the next
without a key (`Compared`). `LayOut`, the layout effects and
`AnotherRound` make a round; `PaintAll` and the effects end the drawing; `DrawAgain`
and `Wait` are the loop of `run.rs`.

A `ScopeId` is a cell of the slab and its generation, so a cell used again and a
handle to its last tenant are two different things, as in `scope.rs`. Any free cell
may be taken (the code takes the one freed last), and queued effects run in any
order (the code runs them in the order of the queue): the properties hold without
either. The dirty flags of `Mounted` and the list `Runtime.dirty` (`marked`) are
separate, as they are in the code.

A scope keeps its parent for life, so it carries all that are `above` it, and what
the code looks for by climbing from parent to parent (the ancestors to mark, the
nearest provider) is a set. `None` is none of the handles (`LoomAssumption`).

Components are data: `Parts`, `Keyed`, `Given` say what each produces at each value
of its state (the answers of one that asks shape nothing), `Memo`, `Offering`, `Reading`, `Asking`, `Measuring`,
`Writable` which hooks it has. Each has at most one state, effect and layout effect.
An effect clears its component's state and opens an observable, whose answers name
what was asked with; a promise is an observable that answers once. What a component
looks like is what it was rendered with (`produced`). The model assumes that no
component writes state while it renders and no cleanup does, and generations do not
wrap (the code's are 32 and 64 bits). `running` is a history variable.

### Files and Git

A repository is what Git keeps of each path: HEAD (and HEAD~, once somebody
commits), the index, the stages of an unfinished merge, the working tree.
`StatusFields`, the numstats and `NameStatus` are what Git prints of them, external
and cut down to the fields the code reads; everything behind them (`Parse`,
`UnstagedView`, `StatusChange`, `StatusEntryToFile`, `ApplyStats`) is translated.
`ListIsFaithful` compares the list with `ChangedFiles`, which never looks at a
record. `DiffTypeOf` is the command line of `debug list`; `Ends` resolves its
names, and `ComparisonsAreFaithful` asks the same of every pair of trees that can
be named. `Toggle` starts a thread, `CommandLocks`, `CommandEnds` and
`CommandFails` are its way through Git's index lock. In `Review` the same listing
is taken apart into commands between which the repository changes; there paths
have no renames and conflicts, here a listing is one step. The passes over the
records (`Parse`, `ParseNumstat`, the renames that Git finds) are recursive
functions of a number, one record or path a turn (`EntryAt`, `LastOf`,
`WithRename`), so that `GitProofs` can reason about them. `GitAssumption` is what
they rest on: Git's order names a path once and none is empty, no text is one of
the answers that stand for no text, and a text against itself counts no line.

### LineIndex, Align, Wrap

A line is a sequence of clusters, a cluster a sequence of characters, a character
a kind with a width in bytes, UTF-16 units and cells: two-cell ideographs, a
combining accent, an emoji of four bytes, tabs, controls, and plain words. `Align`
takes the changes as the engine has them, normalises or refuses them, cuts a change
where its inner ranges realign, and makes the lines of both layouts; fillers, hunks
with their identities, blocks and decorations follow. `Wrap` breaks lines into
fragments by cells with the indent of the line, pads the shorter side and folds
what is unchanged, and turns a fragment with its decorations and colours into cells. A
range that begins outside the lines of its change, at the break before them, is not
drawn (`RangesDrawn`). None of them has a state; `Viewer` is where they are checked.

`Pipeline` is what the diff worker does for one file: the lines of both texts,
whose terminators are CR LF, CR or LF; the engine's options, its refusal of a NUL
and of an answer there was no memory for, its signed numbers made unsigned; the
alignment, or one side alone. What is read of a file and what the engine answers
are inputs (`Reads`); a side may be binary, unreadable or, as it is read later than
it was listed, absent. `Contents` is what the viewer may be given.

### Hosts, Frame and Viewer

`Hosts` has the hosts themselves, the flex pass (bases, growing and shrinking round by
round until no child meets a bound, the largest remainders, and the rectangles) and what
a scroll makes of its content's size (`MetricsFor`) and of an offset (`ClampOffset`,
`Moved`). `Frame` measures and places a tree of hosts with
both and says which cells a painter reaches. A `Viewer` state is what its hooks hold; a `Round` renders, lays
out, runs the layout effects (which measure, restore the place of a file and
write) and decides whether another round is needed, four at most. Between drawings
the user scrolls, jumps, changes layout and wrapping, contents are delivered, and
the terminal gets another size. Rc pointers are addresses that may be used again,
as `Rc::ptr_eq` decides what is remembered. `left` and `wanted` are the model's
own: the place each file was left at and the one this drawing set out to restore.

What a `Round` needs of the layout is what the scrolled content measures, and both
sizes of it are given by the viewer (`ViewOf`). So `Viewer` uses `Hosts`, and only
`ScreenShowsTheRows`, in `MCViewer`, lays the whole tree out with the recursive
operators of `Frame`. `ViewerAssumption` is that sizes and moves are numbers,
`ReadsAssumption` what is read and what the engine answers: texts of clusters and
terminators, and changes whose characters end in the lines of the change.

### Explorer and App

`Explorer` builds the tree from the list, flattens chains of directories, sorts,
folds, and lays out a row in its cells. `Frame` also routes events: the deepest host under
a point, the hosts that hear of it, the moves of focus. `App` has the hooks' values
of the last render, what has been written since, the hosts placed by the last
layout with their captured listeners, and the focus. A `Drawing` is a function of
these (`Frame`: commit, render, lay out, measure, again while needed, focus); the
events between two drawings act on what the last one left. A list equal to the one that
is shown never becomes another `Rc` (`Committed`); a diff always does, as its comparison
says that it differs (`runner.rs:18`). A click may fall on a border or beside a row, where
no host can be focused: then nobody has the focus until the next drawing gives it to the
list.

### Highlight

The grammars are external: small languages of strings over any number of lines,
keywords, one name that is defined and used, and a byte at which they fail, enough for
nested scopes, states carried over lines and overlapping captures. Translated are the
choice of the grammar, the scope stack and the pens that stand for groups, the merging of
spans, the joining of a language's queries (`Config`), the spreading of Tree-sitter's
events over lines, and `Reading`, which is resumed at the line it
reached. A pass over the lines of a file is a recursive function of the line it has come to
(`ReadTextMate`). The reference reads the file at once, and takes the groups from brackets.
What tree-sitter-highlight does with a configuration is external and modelled as far as
the palette shows: a node has the last capture of its last pattern; a capture's dotted
name is recognised as the longest name of the table whose words it has (`Recognised`); a
name that is used has the style of its definition where there is a locals query; and the
text of a string may be in another language, asked for by its name (`ConfigNamed`), of
which the keywords and names are coloured. A query that does not compile, of the three,
leaves its language without colours, and a string that asks for it without its text's.
The tables (`SCOPES`, `NAMES`, `LANGUAGES`) are constants whose rows have the shapes
of the source (`ScopeRows`, `NameRows`, `LanguageRows`), and `HighlightAssumption` says
what the code relies on: no two rows for one selector or name, fewer rows than pens,
and extensions in lower case; and that a file is lines of characters (`HaveLines`).

### Settings, GitDirs and Session

`Session` walks through `main`, `ui::main` and `loom::run` step by step, each of
which may fail where the code has a `?`. Signals, keys, answers of workers and the
input thread's end happen beside it at any time; a panic may happen in any thread
and runs the hook. `terminal` is the set of modes switched on. What `main` reads
is a `Machine`: the option, the variables, the files, and a tree of directories
with the pointers Git keeps in it; which file is used, what a document means, which
keys it binds, which theme it names and which directories are watched are operators
of `Settings` and `GitDirs`. A machine's `git` names the directories of its worktree;
`LayoutAssumption` ties them to the tree, as Git lays worktrees out: a `.git` that is
the directory, or a file that points to it; the own directory of a linked worktree
in the `worktrees` of the common one, with a `commondir` that leads back; nothing
called `.git` in between that leads elsewhere.

## Runs

| run | checks | bounds | states |
|---|---|---|---|
| `slot` | `NoLostWakeup`, `NewestServed`, `DropStopsBusyWorker`, `ImplementsMailbox` | two requests, no bound on how often | 540 |
| `watcher` | `Carried`, `ScopeIsCurrent`, `ToldUnderLoad`, `UnsubscribeStops` | one directory, one rule, in its file and the root's, changes in the root, both queues of one event, deadline of one tick | 455 000 |
| `watcher_scope` | `RecreatedIsWatched` (violated) | one directory, one rule in the root, one Git bit, queues of two events | |
| `syntax` | `StoreConsistent`, `AnswersContinue`, `KeysReleased`, `AskedLinesArrive` | three file sides, two contents, two lines, chunks of one line, two memos, a budget of two lines | 16 000 |
| `config` | `SavedSurvives`, `LeftoversExplained`, `ImplementsSafeFile` | two processes, two preferences, one of them the defaults; no bound on saves or crashes | 1 210 000 |
| `review` | `ListFresh`, `ViewFresh`, `Settles` | one path under both headings, two texts, two changes, two opened files | 1 120 000 |
| `loom` | `TreeSound`, `NothingLost`, `EffectsMatch`, `ShowsItsAnswer`, `AnswersFit` | four components, three values, five writes, two rounds, one further drawing | 845 000 |
| `viewer` | `TextIsShownOnce`, `ScreenShowsTheRows`, `PlaceIsRestored`, `InkFollowsTheDiff`, `DrawingSettles` | two diffs, one with a side that is gone and a file of one version, four that cannot be shown, two sizes and two starts, three moves, three events | 15 300 |
| `git` | `ListIsFaithful`, `EntriesShowTheirSides`, `ToggleMovesTheEntry` | two paths in a directory, two texts and a binary, every content of HEAD, index and working tree, all conflicts, two changes | 818 000 |
| `app` | `ListShowsTheFiles`, `EveryRowIsDrawn`, `KeysHaveATarget`, `CursorKeepsItsItem` | three lists, two texts, two sizes, eight keys, five points, three events, at most two between drawings | 17 800 |
| `highlight` | `ReadingIsWhole`, `SpansFollowTheScopes` | files of up to three lines of eleven kinds, six names, three languages | 40 200 |
| `session` | `TerminalIsGivenBack`, `StartFollowsTheMachine`, `RequestsEnd` | seven machines, two keys, two signals, three events | 68 500 |

The type invariants are parts of the proofs (`Slot`, `ConfigStore`, `Git`, `Viewer`) or of a property
of their run; no run checks one on its own.

Why the bounds are enough. Two requests tell the newest from an older one, and
the slot has no counters. With queues of one event every second event overflows;
one directory comes, goes, returns and is ignored by the root's rule file, and comes
with one of its own or without (`.git/info` is another place of which this holds, and is
left to the proofs, as are several bits). Two sides and a second file
compete for two memos and a budget that two entries exceed; a chunk that ends
after every line makes every answer one of several pieces. Two processes race for
the preference file; a save is told from the one before it by its text, so two
texts and what was there at first suffice. One path has two
entries in the list, so the wrong one can be opened, and two changes let one
happen before and one after any step of a job. Paths are independent of each
other in `Review` except for the two slots, which the two entries of one path
already compete for.
In `loom` the tree has a provider, a memoised component between it and a memoised
reader that asks, and a keyed sibling: enough for a view to be removed and its cell
taken by another one while an answer is out, for a context to change behind clean
components, and for runs to be queued twice in one drawing. The code's four rounds
and four further drawings are two and one, so that both limits are reached within
five writes.
The diffs of `viewer` are made to meet the edges: lines inserted before the first
one, a change in the middle of a line with an accent, wide characters and a tab, an
equal deletion in two places, two lines against three with an empty range, changes
far enough apart to fold what is between; the narrower size cuts wide
characters; lines end in each of the three ways, and whitespace around them is
ignored, so that lines beside each other may differ. A third content comes back to the first, which is
what restoring is about. In `git` two paths are what a rename takes, and a shared
directory is what Space on a directory takes; two changes let a command race with
another one or with somebody's edit. In `app` one list is longer than the screen,
one has a path under both headings and one is shorter than the cursor's line; two
events between drawings are what a stale listener needs. In `highlight` strings
open in one line and close in another, and every split of three lines is read; one
language embeds the second, the second one that does not compile. The
machines of `session` are one for each source of the path and each use of a file.

Fairness. The threads run: each worker's steps, the notify thread, the UI thread's
handling and drawing are weakly fair, as an operating system schedules runnable
threads and no lock is held across a blocking call. Time passes. Nothing is
assumed of users, of the file system, of spurious wakeups, nor of callers, who
need not put, drop, open or change anything. In `session` the main thread and the
signal thread run; keys, signals, panics and errors need not come.

Deadlock is checked where a system must go on; `CHECK_DEADLOCK FALSE` is set where
it may stop (a slot whose worker has ended, a repository nobody changes).

Every property of a passing run has a mutant in `PROJECT.json`: an operator such as
`PutSilently`, `EnsureCacheUncounted` or `AnchorOfTheLine`, a plausible slip in that
code, with which the property fails.

## Disagreements with the documentation

One run shows the code to do something else than its own documentation and tests
say; the finding in `PROJECT.json` quotes both.

- `watcher_scope`: a directory removed and made again within one batch has no
  watch any more.

Others were met while modelling. No run repeats them; where a property would
otherwise fail, its comment names them as an exception.

- `channel/src/slot.rs:22` says the loop stops when the slot is dropped; a worker
  asleep at that moment is never woken. (In codediff the slots live as long as the
  process.) `slot.rs:60` raises the busy flag outside the value's mutex, and the flag
  can stay up without work; nothing in production reads it.
- `watcher/README.md:7`: an overflow sets all bits. The flag may be stored after the
  worker has swapped it (`watch.rs:144`), and is then seen with the next event.
- `ui/src/services/syntax.rs:56`: new content of a file with a request outstanding
  keeps the old version in its entry and is painted with the old colours.
- `explorer/mod.rs:106`: a key handled behind a new list and before it is drawn
  opens an entry of the old list, which no refresh replaces; `mod.rs:308`: a path
  that stands under both headings is found again under the first.
- `watcher/src/watch.rs:64` against `watcher/tests/watch_scope.rs:44`, "a nested rule
  added after startup must suppress later events": the event of a directory recomputes
  the scope and does not load rules, so a rule file that comes with its directory, or is
  written before the directory is watched, takes no effect until some other rule changes
  (`unseen`).
- `watcher/src/ignore_rules.rs:45` against `watcher/README.md:5`, "Worktree directories
  respect Git ignore rules": the filter reads every rule file as if it stood in the root
  (`BuildMatcher`), so that changes in directories which Git does not ignore, and which
  are watched, are not told.
- `watcher/src/watch.rs:169`: a directory made between the first walk and the watches
  that follow from it is not watched until another one comes or goes, though
  `watch.rs:156` says that every initial watch is ready.
- `loom/src/frame.rs:574` against `docs/archive/plan/loom-spec.md:1820`: a diff that
  is read again is another view, so the focus goes to the list.
- `loom/src/runtime.rs:145` against `loom-spec.md:1812`, "`on_blur` fires on the scope
  losing focus": a focused view that is unmounted, as happens whenever a diff is read
  again, loses the focus without a blur, and the box around it stays bright beside that
  of the list.
- `diff_viewer.rs:82`: a file of one version has no key, so its place is not kept.
  A wide character cut by the edge of a pane leaves its half blank.
- `vcs`, `README.md:16`: four of the seven kinds of conflict (both deleted, added by
  them, deleted by them, both added) are not marked as conflicts, as
  `unstaged_view` takes away the letter that says so; a staged modification of a
  file deleted from the working tree is listed as a deletion.
- `syntax/src/engine/syntect.rs:107`: after a TextMate line too long to be coloured the
  parser has read it and the highlighter's stack has not (`syntect.rs:126`), so
  colours behind it may be wrong.
- `syntax/src/engine/treesitter/mod.rs:113` against `syntax/tests/nasty.rs:70`, "the long
  line is not coloured": the limit on the length of a line holds for TextMate alone; a
  long line that Tree-sitter reads is coloured. (The test's line is one identifier, which
  has no colour.) `limits.rs:9` and the archived README say what the test says.
- `loom/src/screen.rs:23`: a terminal that refuses half-way through `take` stays in
  raw mode; a panic of another thread gives the terminal back under the running
  program (`screen.rs:95`); SIGINT is not caught (`ui/src/lib.rs:160`); the input
  thread ends at its first error and nobody is told (`run.rs:92`).
- `config/src/lib.rs:186`: a key bound to two actions is accepted, and a quit key
  may do something else.
- `ui/src/theme`: the comment says 7 and 15 are light backgrounds, the code takes
  7 to 15.

## Proofs

`ConfigStoreProofs` proves for any processes and preferences, assuming only that
the defaults are valid and that the constants differ (`ConfigAssumption`):

- `TypeCorrect`: `[]TypeOK`;
- `AlwaysWhole`: `[]WholeOrUntouched`;
- `UpdatesLast`: `[]SavedSurvives`;
- `LeftoversAccounted`: `[]LeftoversExplained`;
- `MemoryFollowsDisk`: `[]MemoryWasOnDisk`;
- `StoreImplementsSafeFile`: `ImplementsSafeFile`, the refinement.

Its `IInv` has a part for the disk (`DiskInv`) and one for each process
(`ProcessInv`). A rename is safe because `Staged` knows what the temporary file
holds at every location, and a promise is kept because a process about to sync the
folder accounts for the file in place (`Settling`). There is a lemma per group of
actions; `FailIInv` serves every error path and `OthersKept` the processes that
stand still. The refinement needs that every file that may survive was synced
(`DurableSynced`), so that what survives are just the texts of `durable`.

`LoomProofs` proves for any components, values and bounds that `LoomAssumption`
allows, from `Spec` alone, every property of the run:

- `AnswersReachTheirEffect`: `AnswersFit`;
- `EffectsAreThoseOfTheTree`: `[]EffectsMatch`;
- `TreeIsSound`: `[]TreeSound`;
- `NothingIsLost`: `[]NothingLost`;
- `LastAnswerIsShown`: `[]ShowsItsAnswer`.

Each rests on the invariants of those before and one more.

`AnswersFit` speaks of single answers; its invariant has to tell old handles from
new ones. `SlabInv` and `Known` do it for scopes: a handle that is not of a live
scope is behind its cell's generation, so a scope mounted in that cell is none that
was ever asked for (`FreshUnknown`). `RunsInv` and `PendingInv` do it for the runs
of one effect: none is ahead of its slot, and one that has yet to start shares its
generation with no address. `AskedInv` then says that an address that is still
current is the run whose cleanup its slot holds, which is what is running. The steps
that disturb this are `Render` (a new generation), `RunEffect` (a new address),
`Mount` and `Finish`; the others are `QuietStep`.

`EffectsMatch` holds at rest only. Before, the last run of a slot waits or is the
one whose cleanup the slot holds (`DueInv`), nothing else runs (`RunningInv`), and a
component whose effect was never queued is dirty and the next to run (`FirstInv`);
at rest nothing waits.

`TreeSound` holds between frames only; within one, half of the tree is old. `WalkInv`
says where the walk is: the scopes being expanded are those above the next one
(`StackInv`), each has gone on with a child of the right type and key for every part
so far (`CursorInv`), and any other that has run has the children of its state
(`ShapeInv`). When a `Finish` removes a subtree, no scope of the stack is in it.

`NothingLost` is false in the middle of a frame, where a scope being expanded is
clean and those below it may not be. `DrawnInv` says instead: a stale scope is dirty
and not being expanded; what is above a dirty scope is dirty or being expanded, and
all of it is dirty if the scope itself is being expanded (`MarksInv`); the children
gone on with, and all below them, are done with (`DoneInv`). That a mark stops at the
first dirty ancestor is sound because of the second part.

For `ShowsItsAnswer`, `AnswersInv` says that once the last run of an effect has
started, its component's state will be the answer to that run, or nothing while that
run still has an address out.

`ReviewProofs` proves for any repository, texts and bounds that `ReviewAssumption`
allows:

- `ListIsFresh`: `[]ListFresh`;
- `ViewIsFresh`: `[]ViewFresh`.

Both are claims about rest, where no step is under way that one could reason from.
The invariant says what holds before: as long as news of a change is owed, in the
event channel or in a worker's slot (`ListBehind`, `ViewBehind`), nothing is claimed;
once it is not, a job under way has read what is there now (`ListingCurrent`,
`ReadingCurrent`), and the last answer in the channel, or the screen if there is
none, has what one would get now (`ListArrives`, `ViewArrives`). A change makes
everything stale and news owed in one step. For the diff this needs that what waits
or is being read is the file that is open (`AskedForIt`), and that the bits of a
change that is news for the file are those that could change its sides; that the file is
an entry of the list unless it was opened from an older one (`SelectedIsListed`) follows
the selection through every list that arrives.

Of the slot, it proves for every set `Requests` with `Empty \notin Requests`
(`SlotAssumption`), from `SlotSpec`, without fairness:

- `TypeCorrect`: `[]SlotTypeOK`;
- `WakeupNotLost`: `[]NoLostWakeup`;
- `BusyDuringWork`: `[]BusyWhileWork`;
- `NewestWins`: `TakesNewest`;
- `SlotImplementsMailbox`: `ImplementsMailbox`, the refinement, with the mailboxes that
  `Review` is built from.

They rest on one inductive invariant, `SlotInv`. `NoLostWakeup` alone is not
inductive: a worker about to sleep could already have a value in its slot. What
rules it out is that the worker holds the value's mutex from its check to its
sleep, so the slot is still as it was found (`LockKeepsValue`); likewise a worker
about to take must have found a value. `CallerKeepsInv` and `WorkerKeepsInv` prove the
steps of each thread, one named step per action; the last step of each theorem
is by temporal logic.

`SyntaxProofs` proves for any files and contents, and any chunk, budget and number
of memos that `SyntaxAssumption` allows:

- `AnswersAlwaysContinue`: `[]AnswersContinue`;
- `StoreStaysConsistent`: `[]StoreConsistent`.

Where an answer begins was settled long before it arrives. `IInv` follows a key
through the request, the job, the answers in the channel and the entry, each of
which continues the one before (`Streams`), and says that the worker still has the
memo that a request behind the first line needs (`Kept`). The worker forgets its
oldest memo when it has too many. That one is not needed: memos are in the order of
their versions (`Ordered`), only the present version is asked for, it has at most two
sides (`Sided`), and the worker keeps two memos at least, which the assumption has
from the code.

That the store is consistent is a claim about one data structure, but what is
installed comes from far: `SInv` adds to `IInv` that requests, the job, memos and
answers carry the text of their version (`Asked`, `Carried`), so that a piece whose
version is an entry's is a piece of its text. Within a step, the count is followed
by `Held`, the pairs of a key and a line that the store has. Taking keys out takes
exactly their pairs out (`HeldApart`, `HeldCount`), and a change to one entry changes
the count by that entry's lines (`HeldChanges`); `EnsureCacheKeeps`, `InstallKeeps`
and `EvictKeeps` are the three operations. For `evict`, which removes entries by
their place in the order, `EvictOrder` shows that what its turns leave of the order
is the entries they leave.

It also proves, of `Highlight`, from `ReadingSpec`:

- `PiecesMakeTheWhole`: `[]ReadingIsWhole`, for any tables, grammars and limits and any
  files of lines (`HaveLines`).

That is what `Syntax` takes for granted when it resumes a reading at its memo. Where
TextMate is behind a line, its stack and its state, depends on the lines before that one
and not on the pieces they came in: a reading asked to go on reaches the line asked for
and adds to its spans those of the lines between (`FileReads`, `PieceReads`), by induction
over the lines (`ReadsUpExists`), for every grammar that the file's language leads to
(`GrammarsFound`). Tree-sitter reads the whole file at once and cuts from it (`CutSeq`).

`WatcherProofs` proves for any directories, rule files, readings of the rules and bounds
that `WatcherAssumption` allows, rules changing unseen included:

- `ChangesCarried`: `[]Carried`;
- `ScopeStaysCurrent`: `[]ScopeIsCurrent`.

`Carried` alone is not inductive: an edit is carried as long as the rules loaded
let it through when the worker comes to it, so a stale set of rules could drop it.
`RulesFollow` says where the news of changed rules is when the matcher is not the one
that would be built now, or a directory is watched that the walk would not reach: in an
event in flight, in a batch that is going to reload, or in an overflow remembered, unless
a change went unseen (`unseen`). It holds from the walk of `subscribe` on, whatever
becomes of rules and directories before its watches are there. `KernelRemembers` says that an overflow of the kernel's queue is
followed by its rescan event, `BatchSound` what the batch being collected may hold.
Each actor's steps have a lemma (`FileSystemIInv`, `CallbackIInv`,
`ReceiveIInv`, `CloseIInv`, `ScopeIInv`, `SubscribeIInv`, ...).

`SessionProofs` proves:

- `TerminalGivenBack`: `[]TerminalIsGivenBack`, without any assumption on the
  constants;
- `SettingsAreTheFiles`: `[]SettingsFollowTheFile`, the first half of
  `StartFollowsTheMachine`, for any machines whose files are of the four kinds that
  `Load` tells apart and whose documents bind keys to lists (`SessionAssumption`:
  `serde` calls everything else malformed);
- `StartFollows`: `[]StartFollowsTheMachine`, both halves, for worktrees that are also
  laid out as Git does it (`LayoutAssumption`).

An error, a panic or a signal may come at any place of `main`, so its invariant
says at each place what of the terminal has been taken and that both ways of giving
it back, the guard's and the hook's, were in place before it was taken. For the
settings it says by which place each of them is read (`Settled`); the rest is what
`Load` makes of a file: `EveryActionBound` has a name for every action from the
check of the keys and from the defaults, `PathIsOfASource` the order of the sources.

For `GitIsHeard`, the other half, `Watching` says by which place of `main` the
directories found are watched. What is found is followed from a folder upwards: past
those whose `.git` leads nowhere (`NowhereIsPassed`) to the root of the worktree, to its
own directory (`OwnIsFound`) and from there to the common one (`CommonIsFound`). Back
from there, each path that Git writes is seen by a watch and placed by the directory it
lies in (`PlacedBehind`); that the common directory of a linked worktree holds the own
one does not make a shared ref one of its own (`SharedIsNotOwn`).

`GitProofs` proves for any paths, texts and counts that `GitAssumption` allows, for any
repository of them and any number of changes:

- `Invariant`: `[]IInv`, the types and the invariant below;
- `TogglesMove`: `[]ToggleMovesTheEntry`;
- `SidesAreShown`: `[]EntriesShowTheirSides`;
- `ListIsRight`: `[]ListIsFaithful`, with `ComparisonsAreFaithful`.

Its `IInv` is short: until something changes, the list is what a listing would find now
(`ListInv`) and what the last command did is still so (`DoneInv`); a command does what
its heading says (`CommandsInv`), and a path with a conflict has no text in the index
(`ConflictsInv`). Nothing of this says what a listing finds. That is a chain of lemmas,
one for each pass over the data:

1. the renames that Git finds give each new path at most one old path, of its text, and
   no old path to two (`RenamesSound`);
2. the fields of a status are those of the tracked, the unmerged and the untracked paths,
   in a row, a rename's old path behind its record (`StatusFieldsRead`), and the parser
   makes one entry of each record and none of such a path (`ParseLists`);
3. each entry is split into the half that is unstaged and the half that is staged, and
   each half becomes a file of its own with its two revisions (`UnstagedEntries`,
   `StagedEntries`, `FilesHaveHalves`, `ListedFiles`);
4. the counts of a file are those of the last record with its path in an output, which is
   a row of parts, one for each path (`LastOfPart`, `CountsOfParts`); they are those of its
   two texts (`StatsOfUnstaged`, `StatsOfStaged`);
5. so a file of the list is a change between the trees and there is one for each change
   (`FilesListedOnce`, `ChangesAreListed`, `StagedChangesAreListed`), and the same for the
   records of two trees (`ComparisonsAreFound`), whose ends are named (`TreesOfEnds`).

Each pass is a recursive function of a number, and what it computes is shown by
induction. The library's induction theorems have an operator as a parameter, which the
provers cannot instantiate; `Induction` states the principle for a set instead, proved
from the well-foundedness of the naturals, and a pass is shown right on the set of the
numbers it is right for. That there is a function with the equations of its definition
has to be shown first, in the same way (`CountsUpExists`, `PairsUpExists`,
`JoinsUpExists`, `ListingExists`).

`ViewerProofs` proves for any files that `ReadsAssumption` allows, any sizes, starts and
moves that `ViewerAssumption` allows, and any number of events:

- `Invariant`: `[]IInv`, the invariant below;
- `FourRoundsAreEnough`: `DrawingSettles`;
- `ThePlaceIsKept`: `[]PlaceIsRestored`;
- `EachByteIsInOneRow`: `[]TextIsShownOnce`;
- of any alignment that is accepted, `EveryLineOnce` (each line of either version is on
  one view line, in order, and marked if it changed) and `EveryChangeIsShown` (folding
  hides none that changed);
- of a line that is wrapped, `FragmentsTileTheLine` (the fragments adjoin each other from
  the first byte to the last) and `FragmentsFit` (each is as wide as there is room for,
  or one cluster).

Why four rounds are enough: in the first the measuring effect may write the size, in the
second the layout of that size may be restored into, in the third what was restored is
drawn, and nothing is written. What makes this an invariant is that between two rounds
the pending values differ from those drawn in the size and the offset only, the size
being that of the node, and that from the second round on the size is right and the
metrics are those of the layout kept (`DrawingInv`): a round can only ask for another one
by writing the offset, which depends on a layout that is new, or by measuring, which it
does once.

That the place comes back needs, before a drawing, that what the model has put away as
the place a file was left at is what the hooks hold, in `history` or, for the file that
is shown, in `active` (`LeftInv`); in a drawing, that the offset written leads to the
place wanted (`PlaceInv`); and at its end that a row found for a place shows it
(`RowFound`). The last is a claim about what is laid out, and goes down through
every pass (`RowsInv`):

1. what is accepted as an alignment has changes in order, within both texts
   (`AcceptedIsAlignment`);
2. a view line is a line of one text, of both, or a fold (`ViewLinesAreOfTexts`), for
   both layouts, folded or not;
3. a line wraps into fragments that adjoin (`FragmentsTileTheLine`, from the stops of the
   line, which only grow), and the rows of a layout are those of its lines, each with the
   range of bytes it shows (`RowsOfLayouts`).

That the text is shown once is a claim about the order in which these passes put the
lines, so each has a second lemma, about which lines its result shows (`ShowsLines`):

1. a change shows its lines of both versions, side by side in pieces between its cuts
   (`PieceShown`, `PiecesShow`) or one version below the other (`ChangeShown`), and with
   the unchanged lines around the changes these are all lines (`AroundShows`);
2. of the lines that a fold takes out none is of a change (`HiddenLines`);
3. a wrapped line's fragments have its bytes, each once (`WrappedTiles`), the padding of
   the shorter side adds none (`SideRead`, `ZippedReads`), and so the rows of any lines
   read what these show (`RowsReadTheLines`).

`LayoutReads` is the result for a layout. That the layout on the screen is the one of the
content that is shown needs another invariant (`KeptInv`). The layout is kept by the
address of the content, which is free again once the content is gone: it is sound because
a content that comes is put where the one drawn last is not, and every drawing replaces
what is kept for another address.

These are recursive functions along a text, a line or a list of changes, reasoned about
as in `GitProofs` (`Induction`, `InductionUpTo`).

Only model-checked:

- `ScreenShowsTheRows` and `InkFollowsTheDiff` of `Viewer`: the first reaches the
  recursive operators of `Frame`, which cost the prover its main backend; the second has
  references of its own for the lines of a text and for every query of an alignment
  (`RowsMatchTheFiles`), types that hold for texts of less than 10^10 lines
  (`GutterWidth`), takes from the engine that lines outside of its changes are equal, and
  is about the cells that `Wrap` paints, by folds over spans;
- the properties of `App` (`ListShowsTheFiles`, `EveryRowIsDrawn`, `KeysHaveATarget`,
  `CursorKeepsItsItem`): its modules reach `RECURSIVE` operators over trees of hosts and
  directories (`Frame`, `Explorer`);
- `SpansFollowTheScopes` of `Highlight`: it is a claim about the passes over one line, which
  are folds, one within the other, over its events and scopes, and holds by what the tables
  of the instance are (their selectors, weights and nesting);
- all liveness (`NewestServed`, `DropStopsBusyWorker`, `KeysReleased`, `AskedLinesArrive`,
  `Settles`, `RequestsEnd`, `ToldUnderLoad`, `UnsubscribeStops`): fairness
  and `ENABLED` are outside the prover's reach;
- what the modules of pure algorithms (`Align`, `Wrap`, `Hosts`, `Frame`, `Explorer`) compute, apart from what a theorem or a property of the runs above says
  of it.

## Hazards

`PROJECT.json` lists what is hard to test in this code, each with its line and the
properties that would catch it; a note says what a property leaves out. One has no
property: the request dropped in `syntax.rs:56`, which is a disagreement above.
Not listed there: the layout is remembered by the address of a content that may be gone
(`diff_viewer_container.rs:107`), which `TextIsShownOnce` covers. Nor are an update of
the preferences that edits what its process has loaded (`store.rs:94`), a new folder
that is not synced into its parent (`store.rs:162`), state written while components
render (`frame.rs:94`), and a writer faster than the handlers (`run.rs:52`); nothing in
codediff does any of these.

## What is not modelled

- The diff engine (C): what it may answer is an input of `Pipeline`, which takes what
  its binding and `Align` accept and refuses the rest.
- Grammars, parsers and query files; Git itself; inotify: external, represented by
  what this code may observe of them.
- macOS and Windows watching: one recursive watch, no scope to maintain.
- Of `loom`: refs, memo slots, external stores, pointer capture and moves of the
  mouse (codediff uses neither), `set_props`, suspension, the panics on misused
  hooks; glyph tables and the mixing of colours. `Review` and `Syntax` do not use
  `Loom`'s steps but their outcome: a write is read by the next drawing
  (`NothingLost`), an effect runs at its end (`EffectsMatch`), and an answer reaches
  only the effect that is current (`AnswersFit`).
- Static tables: colours of themes, icons, wording; the output of the debug
  commands and the doctor; `loom-macros`, `xtask`, fixtures; vendored code.
- An update edits what its process has loaded: the code promises nothing against
  two processes undoing each other's edits. A loss of power before the folder itself
  was synced into its parent: `SavedSurvives` makes no promise then.
- Names that are not UTF-8; several repositories in one run.

## Plan

1. Proofs: of `InkFollowsTheDiff` the queries of an alignment, from what `ViewerProofs`
   knows of its lines; `KeysHaveATarget` and `CursorKeepsItsItem`, once what they need of
   `Explorer` is apart from its recursive operators.
2. The sequence diff at the core of the diff engine against a reference over small
   inputs, and from it the ranges that `Align` is given.
3. `Loom` with external stores and memo slots.
4. Space in `App` composed with the threads of `Git` and the refresh of `Review`.
