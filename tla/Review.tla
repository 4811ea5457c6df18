-------------------------------- MODULE Review --------------------------------
(***************************************************************************)
(* The review loop of the application: a change of the repository becomes  *)
(* a Refresh, the UI thread asks the file-list and diff workers again,     *)
(* their answers come back through the one event channel, and the Explorer *)
(* and the DiffViewer show them.                                           *)
(*                                                                         *)
(* The watcher is taken at its word (module Watcher): every change is told *)
(* some time after it.  The two workers are Mailboxes, which Slot          *)
(* implements.  The UI thread handles the events in the channel one by one *)
(* and draws when the channel is empty; what a handler wrote into a state  *)
(* is read by the next drawing, whose effects run at its end.              *)
(*                                                                         *)
(* A text is abstracted to a number, the lines gained and lost between two *)
(* texts to Counts.  One repository, listed against its worktree, without  *)
(* conflicts, renames or files that exist on one side only.                *)
(***************************************************************************)
EXTENDS Naturals, SequencesExt

CONSTANTS
    Paths,          \* the files of the repository
    Texts,          \* their texts
    Committed,      \* the text of every file in the first commit
    Counts,         \* the Stats of a pair of texts
    MaxChanges,     \* bound: how often the repository changes
    MaxOpens,       \* bound: how often the user opens a file
    None            \* nothing selected, no content, no request

Headings == {"Changes", "Staged Changes"}
Bits == {"worktree", "index", "refs"}

\* A File: its path and revisions (the index and the worktree for a change,
\* a commit and the index for a staged one) and its stats.
File == [path: Paths, heading: Headings, commit: 0..(MaxChanges + 1), stats: Nat]

\* The repository's file list is always the same request.
Listing == "listing"

\* Both sides of a file, as one reading found them.
Content == [file: File, before: Texts, after: Texts]

ASSUME ReviewAssumption ==
    /\ Committed \in Texts
    /\ Counts \in [Texts \X Texts -> Nat]
    /\ \A t \in Texts: Counts[<<t, t>>] = 0
    /\ MaxChanges \in Nat
    /\ MaxOpens \in Nat
    /\ None \notin {Listing} \cup Texts \cup File
    /\ None \notin [Paths -> [Headings -> Nat]]

VARIABLES
    commits,        \* the texts of each commit so far, HEAD last
    index,          \* the staged texts
    work,           \* the texts in the working tree
    owed,           \* Refresh bits the watcher has yet to send
    events,         \* the application's event channel
    filesWaiting,   \* the file-list worker's slot and job
    filesWorking,
    counted,        \* the line counts its job has read
    statuses,       \* the status its job has read
    diffWaiting,    \* the diff worker's slot and job
    diffWorking,
    original,       \* the original side its job has read
    failed,         \* history: the workers whose last job failed
    files,          \* Explorer's files, as last written
    listed,         \* the files on the screen, which keys and clicks act on
    selected,       \* Context.file, as last written
    opened,         \* Context.file of the last drawing: what is asked and watched for
    content,        \* the DiffViewer's content, as last written
    behind,         \* history: the file was opened from a list already replaced
    changes, opens  \* counters for the bounds

repoVars == <<commits, index, work, changes>>
filesVars == <<filesWaiting, filesWorking, counted, statuses>>
diffVars == <<diffWaiting, diffWorking, original>>
uiVars == <<files, listed, selected, opened, content, behind, opens>>
vars == <<repoVars, owed, events, filesVars, diffVars, failed, uiVars>>

\* FilesWorker
FilesBox == INSTANCE Mailbox WITH
    Requests <- {Listing}, waiting <- filesWaiting, working <- filesWorking, open <- TRUE

\* DiffWorker
DiffBox == INSTANCE Mailbox WITH
    Requests <- File, waiting <- diffWaiting, working <- diffWorking, open <- TRUE

\* What the two workers and the watcher put into the event channel.
RefreshEvent(bits) == [kind |-> "refresh", bits |-> bits]
FilesResponse(list) == [kind |-> "files", files |-> list]
DiffResponse(f, c) == [kind |-> "diff", file |-> f, content |-> c]

\* What the diff worker produces for one file.
DiffContent(f, before, after) == [file |-> f, before |-> before, after |-> after]

------------------------------------------------------------------------------
(* The repository, and what Git says of it. *)

Before(f) == IF f.heading = "Changes" THEN index[f.path] ELSE commits[f.commit][f.path]
After(f) == IF f.heading = "Changes" THEN work[f.path] ELSE index[f.path]

\* numstat of both comparisons.
CountLines ==
    [p \in Paths |-> [h \in Headings |->
        IF h = "Changes" THEN Counts[<<index[p], work[p]>>]
        ELSE Counts[<<Last(commits)[p], index[p]>>]]]

\* A path can occur under both headings.
Status ==
    {<<p, "Changes">> : p \in {q \in Paths: index[q] # work[q]}}
        \cup {<<p, "Staged Changes">> : p \in {q \in Paths: Last(commits)[q] # index[q]}}

\* status_entries_to_files and apply_stats_to_file, given the number of HEAD.
Entries(counts, status, head) ==
    {[path |-> s[1], heading |-> s[2], commit |-> IF s[2] = "Changes" THEN 0 ELSE head,
      stats |-> counts[s[1]][s[2]]] : s \in status}

Change(bit) ==
    /\ changes < MaxChanges
    /\ changes' = changes + 1
    /\ owed' = owed \cup {bit}
    /\ UNCHANGED <<events, filesVars, diffVars, failed, uiVars>>

Edit(p, t) ==
    /\ t # work[p]
    /\ work' = [work EXCEPT ![p] = t]
    /\ Change("worktree")
    /\ UNCHANGED <<commits, index>>

\* git add and git reset, from VersionControlService or from outside.
Stage(p) ==
    /\ index[p] # work[p]
    /\ index' = [index EXCEPT ![p] = work[p]]
    /\ Change("index")
    /\ UNCHANGED <<commits, work>>

Unstage(p) ==
    /\ index[p] # Last(commits)[p]
    /\ index' = [index EXCEPT ![p] = Last(commits)[p]]
    /\ Change("index")
    /\ UNCHANGED <<commits, work>>

Commit ==
    /\ Last(commits) # index
    /\ commits' = Append(commits, index)
    /\ Change("refs")
    /\ UNCHANGED <<index, work>>

\* The watcher sends what has changed so far.
SendRefresh ==
    /\ owed # {}
    /\ events' = Append(events, RefreshEvent(owed))
    /\ owed' = {}
    /\ UNCHANGED <<repoVars, filesVars, diffVars, failed, uiVars>>

------------------------------------------------------------------------------
(* The workers. *)

\* get_changed_files runs one Git command after another: the line counts, the
\* status, and HEAD.
StartListing ==
    /\ FilesBox!Take
    /\ counted' = CountLines
    /\ UNCHANGED <<repoVars, owed, events, statuses, diffVars, failed, uiVars>>

ReadStatus ==
    /\ counted # None
    /\ statuses = None
    /\ statuses' = Status
    /\ UNCHANGED <<repoVars, owed, events, filesWaiting, filesWorking, counted, diffVars, failed,
                   uiVars>>

\* Mutant: without --no-optional-locks, git status writes the index it reads.
FinishListingLocked ==
    /\ statuses # None
    /\ FilesBox!Finish
    /\ counted' = None
    /\ statuses' = None
    /\ events' = Append(events, FilesResponse(Entries(counted, statuses, Len(commits))))
    /\ owed' = owed \cup {"index"}
    /\ UNCHANGED <<repoVars, diffVars, failed, uiVars>>

\* An error of Git, in any of the commands, is answered with an empty list.
FinishListing ==
    /\ statuses # None
    /\ FilesBox!Finish
    /\ counted' = None
    /\ statuses' = None
    /\ \/ /\ events' = Append(events, FilesResponse(Entries(counted, statuses, Len(commits))))
          /\ failed' = failed \ {"files"}
       \/ /\ events' = Append(events, FilesResponse({}))
          /\ failed' = failed \cup {"files"}
    /\ UNCHANGED <<repoVars, owed, diffVars, uiVars>>

\* contents::read reads the original side first, then the modified one.
StartDiff ==
    /\ DiffBox!Take
    /\ original' = Before(diffWaiting)
    /\ UNCHANGED <<repoVars, owed, events, filesVars, failed, uiVars>>

\* An error is answered too, with no content.
FinishDiff ==
    /\ DiffBox!Finish
    /\ original' = None
    /\ LET f == diffWorking
       IN \/ /\ events' = Append(events,
                    DiffResponse(f, DiffContent(f, original, After(f))))
             /\ failed' = failed \ {"diff"}
          \/ /\ events' = Append(events, DiffResponse(f, None))
             /\ failed' = failed \cup {"diff"}
    /\ UNCHANGED <<repoVars, owed, filesVars, uiVars>>

------------------------------------------------------------------------------
(* The UI thread. *)

\* FilesService::get and refresh, DiffService::get and refresh.
AskForFiles == FilesBox!Put(Listing)
AskForDiff(f) == DiffBox!Put(f)

\* Mutant: a change is asked for again only when the worktree has changed.
AffectsWorktree(bits, f) == f.heading = "Changes" /\ "worktree" \in bits

\* refresh_affects_file
Affects(bits, f) ==
    IF f.heading = "Changes" THEN bits \cap {"index", "worktree"} # {} ELSE "index" \in bits

\* Mutant: no new listing is asked for while one is under way.
HandleRefreshIfIdle ==
    /\ events # <<>>
    /\ Head(events).kind = "refresh"
    /\ events' = Tail(events)
    /\ IF filesWorking = None
       THEN AskForFiles
       ELSE UNCHANGED <<filesWaiting, filesWorking>>
    /\ IF opened # None /\ Affects(Head(events).bits, opened)
       THEN AskForDiff(opened)
       ELSE UNCHANGED <<diffWaiting, diffWorking>>
    /\ UNCHANGED <<repoVars, owed, counted, statuses, original, failed, uiVars>>

\* WatcherService::deliver: Explorer lists again whatever has changed, the
\* DiffViewer asks again for the file of its last effect if a side of it may
\* have changed.
HandleRefresh ==
    /\ events # <<>>
    /\ Head(events).kind = "refresh"
    /\ events' = Tail(events)
    /\ AskForFiles
    /\ IF opened # None /\ Affects(Head(events).bits, opened)
       THEN AskForDiff(opened)
       ELSE UNCHANGED <<diffWaiting, diffWorking>>
    /\ UNCHANGED <<repoVars, owed, counted, statuses, original, failed, uiVars>>

\* matching_selected_file: the entry of the same path and heading, or none.
Matching(f, list) ==
    LET same == IF f = None THEN {}
                ELSE {g \in list: g.path = f.path /\ g.heading = f.heading}
    IN IF same = {} THEN None ELSE CHOOSE g \in same: TRUE

\* FilesService::deliver, in the Explorer's subscription.
HandleFiles ==
    /\ events # <<>>
    /\ Head(events).kind = "files"
    /\ events' = Tail(events)
    /\ files' = Head(events).files
    /\ selected' = Matching(selected, Head(events).files)
    /\ behind' = FALSE
    /\ UNCHANGED <<repoVars, owed, filesVars, diffVars, failed, listed, opened, content, opens>>

\* DiffService::deliver: an answer for another file than the one asked for
\* last is ignored.
HandleDiff ==
    /\ events # <<>>
    /\ Head(events).kind = "diff"
    /\ events' = Tail(events)
    /\ content' = IF Head(events).file = opened THEN Head(events).content ELSE content
    /\ UNCHANGED <<repoVars, owed, filesVars, diffVars, failed, files, listed, selected, opened,
                   behind, opens>>

\* A key or a click on an entry of the list as it was last drawn.
OpenFile(f) ==
    /\ opens < MaxOpens
    /\ opens' = opens + 1
    /\ selected' = f
    /\ behind' = (listed # files)
    /\ UNCHANGED <<repoVars, owed, events, filesVars, diffVars, failed, files, listed, opened,
                   content>>

\* The drawing, and its effect if the selected file is another one: it asks
\* for the file, or clears the content if there is none.
Draw ==
    /\ events = <<>>
    /\ <<listed, opened>> # <<files, selected>>
    /\ listed' = files
    /\ opened' = selected
    /\ IF selected # None /\ selected # opened
       THEN AskForDiff(selected)
       ELSE UNCHANGED <<diffWaiting, diffWorking>>
    /\ content' = IF selected = None THEN None ELSE content
    /\ UNCHANGED <<repoVars, owed, events, filesVars, original, failed, files, selected, behind,
                   opens>>

------------------------------------------------------------------------------
\* The first drawing has run: Explorer's effect has asked for the list.
Init ==
    /\ commits = <<[p \in Paths |-> Committed]>>
    /\ index \in [Paths -> Texts]
    /\ work \in [Paths -> Texts]
    /\ changes = 0
    /\ owed = {}
    /\ events = <<>>
    /\ filesWaiting = Listing
    /\ filesWorking = None
    /\ counted = None
    /\ statuses = None
    /\ diffWaiting = None
    /\ diffWorking = None
    /\ original = None
    /\ failed = {}
    /\ files = {}
    /\ listed = {}
    /\ selected = None
    /\ opened = None
    /\ content = None
    /\ behind = FALSE
    /\ opens = 0

Repository ==
    \/ \E p \in Paths: (\E t \in Texts: Edit(p, t)) \/ Stage(p) \/ Unstage(p)
    \/ Commit

Handle == HandleRefresh \/ HandleFiles \/ HandleDiff

Next ==
    \/ Repository
    \/ SendRefresh
    \/ StartListing \/ ReadStatus \/ FinishListing
    \/ StartDiff \/ FinishDiff
    \/ Handle \/ Draw
    \/ \E f \in listed: OpenFile(f)

Spec == Init /\ [][Next]_vars

\* The watcher, the two workers and the UI thread run; nobody has to change
\* the repository or to press a key.
FairSpec ==
    /\ Spec
    /\ WF_vars(SendRefresh)
    /\ WF_vars(StartListing \/ ReadStatus \/ FinishListing)
    /\ WF_vars(StartDiff \/ FinishDiff)
    /\ WF_vars(Handle \/ Draw)

------------------------------------------------------------------------------
(* Properties. *)

TypeOK ==
    /\ commits \in Seq([Paths -> Texts])
    /\ index \in [Paths -> Texts] /\ work \in [Paths -> Texts]
    /\ owed \subseteq Bits
    /\ \A i \in DOMAIN events: events[i].kind \in {"refresh", "files", "diff"}
    /\ filesWaiting \in {Listing, None} /\ filesWorking \in {Listing, None}
    /\ diffWaiting \in File \cup {None} /\ diffWorking \in File \cup {None}
    /\ filesWorking = None <=> counted = None
    /\ statuses # None => counted # None /\ statuses \subseteq Paths \X Headings
    /\ diffWorking = None <=> original = None
    /\ failed \subseteq {"files", "diff"}
    /\ files \subseteq File /\ listed \subseteq File
    /\ selected \in File \cup {None} /\ opened \in File \cup {None}
    /\ content \in Content \cup {None}
    /\ behind \in BOOLEAN

\* Every change has been told, asked about, answered and drawn.
AtRest ==
    /\ owed = {}
    /\ events = <<>>
    /\ filesWaiting = None /\ filesWorking = None
    /\ diffWaiting = None /\ diffWorking = None
    /\ listed = files
    /\ opened = selected

\* At rest the explorer lists what Git would list now, though the job reads
\* counts, status and HEAD at different times, and changes, jobs and answers
\* overlap; and no variable ever leaves its type.
ListFresh ==
    /\ TypeOK
    /\ AtRest /\ "files" \notin failed => files = Entries(CountLines, Status, Len(commits))

\* At rest the selected file is an entry of the list that is shown, commit and
\* stats included, and the viewer shows it, both sides as they are now: no other
\* file's answer, no answer from before the last change, and no request lost in
\* the slot to another one.  A file that was opened by a key between a new list
\* and its drawing is the exception: keys act on the entries drawn (mod.rs:106),
\* so it may be no entry any more, and what is shown is what it names.
ViewFresh ==
    AtRest =>
        /\ selected \in files \cup {None} \/ behind
        /\ selected = None => content = None
        /\ selected # None /\ "diff" \notin failed =>
            content = DiffContent(selected, Before(selected), After(selected))

\* The loop settles: the repository changes and files are opened only as often
\* as the bounds allow, and after that it comes to rest for good; its own
\* asking and reading keep nothing going.
Settles == <>[]AtRest
==============================================================================
