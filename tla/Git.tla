-------------------------------- MODULE Git ---------------------------------
(***************************************************************************)
(* The git backend (crate vcs): how the changed files of a repository are  *)
(* listed from git's status records and line counts, how the two sides of  *)
(* a listed file are read, and how Space stages and unstages.              *)
(*                                                                         *)
(* The repository is what git keeps of every path: its text in HEAD, in    *)
(* the index and in the working tree, and the stages an unfinished merge   *)
(* left of it (a path with stages has no text of its own in the index, and *)
(* its stage "ours" is the text of HEAD).  Git's own output is external;   *)
(* what is modelled of it is what a record says of those.  A listing is    *)
(* one step here; Review takes it apart and lets the repository change     *)
(* between the commands it runs.                                           *)
(***************************************************************************)
EXTENDS Files, FiniteSets, Functions

CONSTANTS
    PathOrder,      \* the paths of the repository, in the order git sorts them
    Texts,          \* what a file can hold
    Binaries,       \* those texts that git and the program call binary
    Counts,         \* numstat of two texts (or Absent)
    MaxChanges      \* bound: how often Space is pressed or somebody else
                    \* changes the repository

Failed == "failed"

\* A path is named once and has a name in it; nothing a file holds is one of the
\* answers that stand for no text, and it takes no line to make a text of itself.
ASSUME GitAssumption ==
    /\ PathOrder \in Seq(Seq(STRING) \ {NoPath})
    /\ IsInjective(PathOrder)
    /\ Texts \cap {Absent, Binary, Failed} = {}
    /\ Binaries \subseteq Texts
    /\ \A text \in Texts \cup {Absent} : Counts[<<text, text>>] = NoStats

VARIABLES
    head, parent,                   \* the trees of HEAD and, if there is one, of HEAD~
    index, stages, work,            \* the rest of the repository
    list,           \* the files of the last listing
    commit,         \* the tree that the listing's commit names
    fresh,          \* nothing changed the repository since that listing
    commands,       \* threads of toggle_stage that have not run their command
    locked,         \* the command that holds git's index lock, or NoCommand
    done,           \* the last command that ended, if nothing changed since
    changes

repository == <<head, parent, index, stages, work>>
vars == <<head, parent, index, stages, work, list, commit, fresh, commands, locked, done, changes>>

Paths == Range(PathOrder)
Stages == {"base", "ours", "theirs"}
NoCommand == [kind |-> "none", path |-> NoPath, from |-> ""]

\* The members of I up to m, from the least on.
Ascending(I, m) ==
    LET upTo[n \in 0..m] == IF n = 0 THEN <<>>
                            ELSE IF n \in I THEN Append(upTo[n - 1], n) ELSE upTo[n - 1]
    IN  upTo[m]

\* What a sequence has at the places of I, in its order.
Picked(s, I) == LET at == Ascending(I, Len(s)) IN [k \in DOMAIN at |-> s[at[k]]]

Sorted(S) == Picked(PathOrder, {i \in DOMAIN PathOrder : PathOrder[i] \in S})
Under(path) == {p \in Paths : IsPrefix(path, p)}

-----------------------------------------------------------------------------
(* What git reports *)

\* Exact renames from one tree to another: a new path takes the first old path
\* of its text that no new path before it took.
WithRename(pairs, before, after, p) ==
    LET from == Sorted({o \in Paths : /\ before[o] # Absent /\ after[o] = Absent
                                      /\ before[o] = after[p]
                                      /\ \A q \in DOMAIN pairs : pairs[q] # o})
    IN  IF before[p] # Absent \/ after[p] = Absent \/ from = <<>> THEN pairs
        ELSE [q \in DOMAIN pairs \cup {p} |-> IF q = p THEN Head(from) ELSE pairs[q]]

RenamesBetween(before, after) ==
    LET upTo[n \in 0..Len(PathOrder)] ==
            IF n = 0 THEN [q \in {} |-> NoPath]
            ELSE WithRename(upTo[n - 1], before, after, PathOrder[n])
    IN  upTo[Len(PathOrder)]

\* A path with stages is neither old nor new.
Renames ==
    RenamesBetween([p \in Paths |-> IF stages[p] = {} THEN head[p] ELSE Absent], index)

Letter(before, after) ==
    IF before = after THEN "."
    ELSE IF before = Absent THEN "A" ELSE IF after = Absent THEN "D" ELSE "M"

UnmergedXy(s) == CASE s = {"base"} -> <<"D", "D">>
                   [] s = {"ours"} -> <<"A", "U">>
                   [] s = {"theirs"} -> <<"U", "A">>
                   [] s = {"base", "ours"} -> <<"U", "D">>
                   [] s = {"base", "theirs"} -> <<"D", "U">>
                   [] s = {"ours", "theirs"} -> <<"A", "A">>
                   [] OTHER -> <<"U", "U">>

Field(kind, xy, path) == [kind |-> kind, xy |-> xy, path |-> path]

WorktreeLetter(p) == IF index[p] = Absent THEN "." ELSE Letter(index[p], work[p])

\* What has a record of each kind; the old path of a rename has none.
Tracked(renames) ==
    {p \in Paths : /\ stages[p] = {}
                   /\ head[p] # index[p] \/ WorktreeLetter(p) # "."
                   /\ \A q \in DOMAIN renames : renames[q] # p}
Conflicts == {p \in Paths : stages[p] # {}}
Untracked == {p \in Paths : stages[p] = {} /\ index[p] = Absent /\ work[p] # Absent}

\* A rename is followed by its old path.
TrackedFields(renames, p) ==
    IF p \in DOMAIN renames
    THEN << Field("2", <<"R", WorktreeLetter(p)>>, p), Field("path", <<>>, renames[p]) >>
    ELSE << Field("1", <<Letter(head[p], index[p]), WorktreeLetter(p)>>, p) >>

\* The fields that `git status --porcelain=v2 -z` prints: changed paths, then
\* conflicts, then untracked files.
FieldsOf(renames, changed, conflicts, untracked) ==
    FlattenSeq([i \in DOMAIN changed |-> TrackedFields(renames, changed[i])])
    \o [i \in DOMAIN conflicts |-> Field("u", UnmergedXy(stages[conflicts[i]]), conflicts[i])]
    \o [i \in DOMAIN untracked |-> Field("?", <<>>, untracked[i])]
StatusFields ==
    LET renames == Renames
    IN  FieldsOf(renames, Sorted(Tracked(renames)), Sorted(Conflicts), Sorted(Untracked))

\* The records of `git diff --numstat`: of a conflict two, of a binary file "-".
Numstat(before, after, key) ==
    IF before \in Binaries \/ after \in Binaries THEN <<>>
    ELSE << [path |-> key, stats |-> Counts[<<before, after>>]] >>

UnstagedNumstat ==
    FlattenSeq([i \in DOMAIN PathOrder |->
        LET p == PathOrder[i] IN
        IF stages[p] # {}
        THEN << [path |-> p, stats |-> NoStats] >>
             \o IF "ours" \in stages[p] /\ head[p] # work[p]
                THEN Numstat(head[p], work[p], p) ELSE <<>>
        ELSE IF index[p] \in {Absent, work[p]} THEN <<>> ELSE Numstat(index[p], work[p], p)])

StagedNumstat ==
    LET renames == Renames IN
    FlattenSeq([i \in DOMAIN PathOrder |->
        LET p == PathOrder[i] IN
        IF stages[p] # {} THEN << [path |-> p, stats |-> NoStats] >>
        ELSE IF p \in DOMAIN renames THEN Numstat(head[renames[p]], index[p], p)
        ELSE IF head[p] = index[p] \/ (\E q \in DOMAIN renames : renames[q] = p) THEN <<>>
        ELSE Numstat(head[p], index[p], p)])

\* `git diff --name-status` and `--numstat` of two trees without stages.
NameStatus(before, after) ==
    LET renames == RenamesBetween(before, after)
        changed == {p \in Paths : before[p] # after[p] /\ \A q \in DOMAIN renames : renames[q] # p}
    IN [i \in DOMAIN Sorted(changed) |->
           LET p == Sorted(changed)[i] IN
           IF p \in DOMAIN renames THEN [letter |-> "R", path |-> p, original |-> renames[p]]
           ELSE [letter |-> Letter(before[p], after[p]), path |-> p, original |-> NoPath]]

DiffNumstat(records, before, after) ==
    FlattenSeq([i \in DOMAIN records |->
        LET r == records[i] IN
        Numstat(before[IF r.original = NoPath THEN r.path ELSE r.original], after[r.path], r.path)])

-----------------------------------------------------------------------------
(* Reading it *)

Entry(xy, path, original) ==
    [index |-> xy[1], worktree |-> xy[2], path |-> path, original |-> original]

\* A record per field, except that a rename takes the next field as well.  (A
\* name that is not UTF-8 fails the whole listing, which is then empty; names
\* are UTF-8 here.)
EntryAt(fields, i) ==
    LET f == fields[i] IN
    CASE f.kind = "2" -> Entry(f.xy, f.path, fields[i + 1].path)
      [] f.kind \in {"?", "!"} -> Entry(<<".", f.kind>>, f.path, NoPath)
      [] OTHER -> Entry(f.xy, f.path, NoPath)
Parse(fields) ==
    LET records == Ascending({i \in DOMAIN fields : fields[i].kind # "path"}, Len(fields))
    IN  [k \in DOMAIN records |-> EntryAt(fields, records[k])]

\* A later record of the same path replaces the earlier one.
LastOf(records, path) ==
    CHOOSE i \in DOMAIN records :
        /\ records[i].path = path
        /\ \A j \in DOMAIN records : records[j].path = path => j <= i
ParseNumstat(records) ==
    [p \in {records[i].path : i \in DOMAIN records} |-> records[LastOf(records, p)].stats]

\* A mutant: both comparisons have the counts of both, whichever came last.
GitLineStatsShared ==
    [rev \in {Worktree, Index} |-> ParseNumstat(UnstagedNumstat \o StagedNumstat)]

CountsOf(rev) == ParseNumstat(IF rev = Worktree THEN UnstagedNumstat ELSE StagedNumstat)

\* Line counts by the revision that the comparison ends in.
GitLineStats == [rev \in {Worktree, Index} |-> CountsOf(rev)]

IsConflicted(e) == e.index = "U" \/ e.worktree = "U"
IsStaged(e) == e.index \notin {".", "?", "!"} /\ ~IsConflicted(e)
IsUnstaged(e) == e.worktree # "." \/ IsConflicted(e)
UnstagedBefore(e) == IF IsConflicted(e) THEN Ours ELSE Index
\* A mutant: the unstaged half of a staged rename keeps the old path.
UnstagedViewOfRename(e) ==
    IF e.worktree \in {"?", "!"} THEN e ELSE [e EXCEPT !.index = "."]

UnstagedView(e) ==
    IF e.worktree \in {"?", "!"} THEN e ELSE [e EXCEPT !.index = ".", !.original = NoPath]

StatusChange(e) ==
    IF IsConflicted(e) THEN "conflicted"
    ELSE IF e.worktree \in {"?", "!"} THEN "untracked"
    ELSE IF e.index \in {"R", "C"} THEN "moved"
    ELSE IF e.index = "A" THEN "added"
    ELSE IF (e.index = "D" /\ e.worktree = ".") \/ e.worktree = "D" THEN "deleted"
    ELSE "modified"

StatusEntryToFile(e, revs) ==
    LET change == StatusChange(e)
        file == IF change \in {"added", "untracked"} THEN Added(e.path, revs)
                ELSE IF change = "deleted" THEN Deleted(e.path, revs)
                ELSE IF e.original # NoPath THEN Renamed(e.original, e.path, revs)
                ELSE UnchangedPath(e.path, revs)
    IN IF NeedsBackend(change) THEN SetChange(file, change) ELSE file

StatusEntriesToFiles(entries) ==
    LET unstaged == Picked(entries, {i \in DOMAIN entries : IsUnstaged(entries[i])})
        staged == Picked(entries, {i \in DOMAIN entries : IsStaged(entries[i])})
    IN [i \in DOMAIN unstaged |-> StatusEntryToFile(UnstagedView(unstaged[i]),
                                      Revs(UnstagedBefore(unstaged[i]), Worktree))]
       \o [i \in DOMAIN staged |-> StatusEntryToFile(staged[i], Revs(Commit, Index))]

CountUntrackedLines(file) ==
    LET text == work[PathOf(file)] IN
    IF text \in Binaries THEN NoStats ELSE Counts[<<Absent, text>>]

ApplyStats(file, stats) ==
    LET counted == stats[RevOf(file, "modified")] IN
    IF PathOf(file) \in DOMAIN counted THEN SetStats(file, counted[PathOf(file)])
    ELSE IF ChangeOf(file) = "untracked" THEN SetStats(file, CountUntrackedLines(file))
    ELSE file

GetChangedFiles ==
    LET stats == GitLineStats
        files == StatusEntriesToFiles(Parse(StatusFields))
    IN [i \in DOMAIN files |-> ApplyStats(files[i], stats)]

-----------------------------------------------------------------------------
(* Other comparisons, of `codediff debug list` and of the crate's users *)

Parent == "parent"      \* the id of the commit that HEAD~ names
Names == {<<"HEAD">>, <<"HEAD~">>}

\* What is typed where a revision is expected: a name, or `a...b`.
Arguments == Names \cup {base \o target : base \in Names, target \in Names}

\* --staged takes one revision and ignores a second; `a...b` is a range only
\* where it stands alone, and elsewhere a name that git does not know.
DiffTypeOf(revs, staged) ==
    CASE staged -> [type |-> "staged", name |-> IF revs = <<>> THEN <<"HEAD">> ELSE revs[1]]
      [] ~staged /\ revs = <<>> -> [type |-> "worktree"]
      [] ~staged /\ Len(revs) = 2 -> [type |-> "between", name |-> revs[1], other |-> revs[2]]
      [] ~staged /\ Len(revs) = 1 ->
             IF Len(revs[1]) = 1 THEN [type |-> "against", name |-> revs[1]]
             ELSE [type |-> "mergeBase", name |-> <<revs[1][1]>>, other |-> <<revs[1][2]>>]

Comparisons ==
    {DiffTypeOf(revs, staged) : revs \in UNION {[1..n -> Arguments] : n \in 0..2},
                                staged \in BOOLEAN} \ {[type |-> "worktree"]}

EmptyTree == [p \in Paths |-> Absent]
Unborn == parent = <<>> /\ head = EmptyTree

\* rev-parse --verify.
Resolve(name) ==
    CASE name = <<"HEAD">> /\ ~Unborn -> Commit
      [] name = <<"HEAD~">> /\ parent # <<>> -> Parent
      [] OTHER -> Failed

Tree(rev) == CASE rev = Commit -> head
               [] rev = Parent -> parent[1]
               [] rev = Index -> index
               [] OTHER -> [p \in Paths |-> IF index[p] = Absent THEN Absent ELSE work[p]]

\* Where two of the names part: one is the other's child.
MergeBase(base, target) ==
    CASE Failed \in {Resolve(base), Resolve(target)} -> Failed
      [] base = target -> Resolve(base)
      [] OTHER -> Parent

\* A mutant: `a...b` is compared with a itself.
EndsOfFirst(comparison) ==
    CASE comparison.type = "against" -> Revs(Resolve(comparison.name), Worktree)
      [] comparison.type = "staged" -> Revs(Resolve(comparison.name), Index)
      [] OTHER -> Revs(Resolve(comparison.name), Resolve(comparison.other))

\* The ids of the two ends.  The command that lists the files is given the names
\* again: here nothing moves between the two.
Ends(comparison) ==
    CASE comparison.type = "against" -> Revs(Resolve(comparison.name), Worktree)
      [] comparison.type = "staged" -> Revs(Resolve(comparison.name), Index)
      [] comparison.type = "between" ->
             Revs(Resolve(comparison.name), Resolve(comparison.other))
      [] OTHER -> Revs(MergeBase(comparison.name, comparison.other), Resolve(comparison.other))

DiffEntryToFile(change, revs) ==
    LET file == CASE change.letter = "A" -> Added(change.path, revs)
                  [] change.letter = "D" -> Deleted(change.path, revs)
                  [] change.letter = "R" -> Renamed(change.original, change.path, revs)
                  [] OTHER -> UnchangedPath(change.path, revs)
    IN IF change.letter = "U" THEN SetChange(file, "conflicted") ELSE file

DiffLineStats(records, before, after, rev) ==
    [ending \in {rev} |-> ParseNumstat(DiffNumstat(records, before, after))]

FilesOfDiff(records, before, after, revs) ==
    LET stats == DiffLineStats(records, before, after, revs.after) IN
    [i \in DOMAIN records |-> ApplyStats(DiffEntryToFile(records[i], revs), stats)]

FilesBetween(before, after, revs) == FilesOfDiff(NameStatus(before, after), before, after, revs)

\* Given the two ends, none of which failed.
GetComparedFiles(revs) == FilesBetween(Tree(revs.before), Tree(revs.after), revs)

-----------------------------------------------------------------------------
(* Reading a file *)

\* `rev:path`.  What git says of a path that it knows at other stages only is
\* none of the messages that is_missing knows.
Blob(rev, p) ==
    CASE rev = Commit -> commit[p]
      [] rev = Parent -> parent[1][p]
      [] rev = Index -> IF stages[p] # {} THEN Failed ELSE index[p]
      [] OTHER -> IF "ours" \in stages[p] THEN head[p]
                  ELSE IF stages[p] # {} \/ index[p] # Absent THEN Failed ELSE Absent

\* The batch says "missing" of everything it cannot find.
BatchRead(rev, p) == IF Blob(rev, p) = Failed THEN Absent ELSE Blob(rev, p)

\* The stored side of a comparison with the working tree goes through the
\* checkout filters, a command of its own; others through the batch.
Read(file, version) ==
    LET p == PathOfVersion(file, version)
        rev == RevOf(file, version)
        other == RevOf(file, IF version = "original" THEN "modified" ELSE "original")
        bytes == IF p = NoPath THEN Absent
                 ELSE IF rev = Worktree THEN work[p]
                 ELSE IF other = Worktree THEN Blob(rev, p) ELSE BatchRead(rev, p)
    IN IF bytes = Failed THEN Failed ELSE FromBytes(bytes, bytes \notin Binaries)

-----------------------------------------------------------------------------
(* The machine *)

Contents == Texts \cup {Absent}

\* Any repository with nothing unmerged.
Init ==
    /\ head \in [Paths -> Contents]
    /\ parent = <<>>
    /\ index \in [Paths -> Contents]
    /\ work \in [Paths -> Contents]
    /\ stages = [p \in Paths |-> {}]
    /\ list = <<>>
    /\ commit = head
    /\ fresh = FALSE
    /\ commands = {}
    /\ locked = NoCommand
    /\ done = NoCommand
    /\ changes = 0

\* The file watcher asks for a listing after every change (Review).
List ==
    /\ list' = GetChangedFiles
    /\ commit' = IF Resolve(<<"HEAD">>) = Failed THEN EmptyTree ELSE head
    /\ fresh' = TRUE
    /\ UNCHANGED <<repository, commands, locked, done, changes>>

\* A mutant: what is compared from the index on is taken for what is in it.
ToggleByTheOtherSide ==
    /\ changes < MaxChanges
    /\ changes' = changes + 1
    /\ \E i \in DOMAIN list : \E n \in 1..Len(PathOf(list[i])) :
          commands' = commands \cup
               {[kind |-> IF list[i].before = Index THEN "unstage" ELSE "stage",
                 path |-> SubSeq(PathOf(list[i]), 1, n), from |-> Heading(RevsOf(list[i]))]}
    /\ UNCHANGED <<repository, list, commit, fresh, locked, done>>

\* Space on a file, or on a directory above it: a thread for the command.
Toggle ==
    /\ changes < MaxChanges
    /\ changes' = changes + 1
    /\ \E i \in DOMAIN list : \E n \in 1..Len(PathOf(list[i])) :
          commands' = commands \cup
               {[kind |-> IF list[i].after = Index THEN "unstage" ELSE "stage",
                 path |-> SubSeq(PathOf(list[i]), 1, n), from |-> Heading(RevsOf(list[i]))]}
    /\ UNCHANGED <<repository, list, commit, fresh, locked, done>>

\* The command fails, and its error is dropped: another one holds the lock.
CommandFails ==
    \E c \in commands :
        /\ locked # NoCommand
        /\ commands' = commands \ {c}
        /\ UNCHANGED <<repository, list, commit, fresh, locked, done, changes>>

CommandLocks ==
    /\ locked = NoCommand
    /\ locked' \in commands
    /\ commands' = commands \ {locked'}
    /\ UNCHANGED <<repository, list, commit, fresh, done, changes>>

\* `git add -- path`: the index takes what the working tree holds, deletions
\* as well, and what it adds is no conflict any more.  A path that neither of
\* them knows is an error.
GitAdd(path) ==
    /\ index' = [p \in Paths |-> IF p \in Under(path) THEN work[p] ELSE index[p]]
    /\ stages' = [p \in Paths |-> IF p \in Under(path) THEN {} ELSE stages[p]]

\* `git reset HEAD -- path`, of an unborn HEAD as well.
GitReset(path) ==
    /\ index' = [p \in Paths |-> IF p \in Under(path) THEN head[p] ELSE index[p]]
    /\ stages' = [p \in Paths |-> IF p \in Under(path) THEN {} ELSE stages[p]]

CommandEnds ==
    /\ locked # NoCommand
    /\ IF locked.kind = "stage" THEN GitAdd(locked.path) ELSE GitReset(locked.path)
    /\ locked' = NoCommand
    /\ done' = locked
    /\ fresh' = FALSE
    /\ UNCHANGED <<head, parent, work, list, commit, commands, changes>>

\* Somebody else edits, stages, commits or merges.
Elsewhere ==
    /\ changes < MaxChanges
    /\ locked = NoCommand
    /\ changes' = changes + 1
    /\ fresh' = FALSE
    /\ done' = NoCommand
    /\ UNCHANGED <<list, commit, commands, locked>>

Edit(p, t) ==
    /\ Elsewhere
    /\ t # work[p]
    /\ work' = [work EXCEPT ![p] = t]
    /\ UNCHANGED <<head, parent, index, stages>>

AddAll ==
    /\ Elsewhere
    /\ GitAdd(NoPath)
    /\ UNCHANGED <<head, parent, work>>

CommitIndex ==
    /\ Elsewhere
    /\ \A p \in Paths : stages[p] = {}
    /\ head' = index
    /\ parent' = IF Unborn THEN <<>> ELSE <<head>>
    /\ UNCHANGED <<index, stages, work>>

\* A merge stops at p, which nobody had touched; what it leaves in the working
\* tree is some text, or nothing if both sides deleted it.
Conflict(p, s, t) ==
    /\ Elsewhere
    /\ stages[p] = {} /\ head[p] = index[p] /\ index[p] = work[p]
    /\ s # {} /\ ("ours" \in s <=> head[p] # Absent)
    /\ t = Absent <=> s = {"base"}
    /\ stages' = [stages EXCEPT ![p] = s]
    /\ index' = [index EXCEPT ![p] = Absent]
    /\ work' = [work EXCEPT ![p] = t]
    /\ UNCHANGED <<head, parent>>

Next ==
    \/ List
    \/ Toggle
    \/ CommandFails
    \/ CommandLocks
    \/ CommandEnds
    \/ AddAll
    \/ CommitIndex
    \/ \E p \in Paths, t \in Contents : Edit(p, t)
    \/ \E p \in Paths, s \in SUBSET Stages, t \in Contents : Conflict(p, s, t)

Spec == Init /\ [][Next]_vars

-----------------------------------------------------------------------------
(* Properties *)

\* The conflicts whose second letter is no U: unstaged_view takes the first one
\* away before the kind is decided.
Unmarked(p) == stages[p] \in {{"base"}, {"theirs"}, {"base", "ours"}, {"ours", "theirs"}}

Lines1(a, b) == IF {a, b} \cap Binaries # {} THEN NoStats ELSE Counts[<<a, b>>]
Kind(a, b) == CASE a = Absent -> "added" [] b = Absent -> "deleted" [] OTHER -> "modified"

\* What somebody finds who compares two trees path by path.
ChangedPaths(before, after) ==
    LET renames == RenamesBetween(before, after) IN
    {IF p \in DOMAIN renames
     THEN [path |-> p, change |-> "moved", stats |-> Lines1(after[p], after[p])]
     ELSE [path |-> p, change |-> Kind(before[p], after[p]), stats |-> Lines1(before[p], after[p])]
     : p \in {q \in Paths : before[q] # after[q] /\ \A r \in DOMAIN renames : renames[r] # q}}

\* What he finds under a heading.
ChangedFiles(heading) ==
    IF heading = "Changes"
    THEN {IF stages[p] # {}
          THEN [path |-> p, change |-> "conflicted",
                stats |-> IF "ours" \in stages[p] THEN Lines1(head[p], work[p]) ELSE NoStats]
          ELSE [path |-> p, stats |-> Lines1(index[p], work[p]),
                change |-> IF index[p] = Absent THEN "untracked" ELSE Kind(index[p], work[p])]
          : p \in {q \in Paths : stages[q] # {} \/ index[q] # work[q]}}
    ELSE ChangedPaths([p \in Paths |-> IF stages[p] = {} THEN head[p] ELSE Absent], index)

Shown(file) == [path |-> PathOf(file), change |-> ChangeOf(file), stats |-> file.stats]

\* Any two trees that can be named, where nothing is unmerged: each path that is
\* not the same in both is listed once, with its kind and its counts, and has the
\* two sides its entry says; and a branch with no commit of its own since the
\* other left it has changed nothing (diff_type.rs: "Where a branch left another,
\* against that branch").  It depends on the trees alone, so it is asked for when
\* no command is under way.
ComparisonsAreFaithful ==
    fresh /\ commands = {} /\ locked = NoCommand /\ (\A p \in Paths : stages[p] = {}) =>
        /\ \A revs \in {Ends(c) : c \in Comparisons} :
              Failed \notin {revs.before, revs.after} =>
                  LET files == GetComparedFiles(revs) IN
                  /\ IsInjective(files)
                  /\ {Shown(f) : f \in Range(files)} = ChangedPaths(Tree(revs.before), Tree(revs.after))
                  /\ \A i \in DOMAIN files :
                        /\ Read(files[i], "original") = Absent <=> files[i].original = NoPath
                        /\ Read(files[i], "modified") = Absent <=> files[i].modified = NoPath
        /\ parent # <<>> =>
              GetComparedFiles(Ends(DiffTypeOf(<< <<"HEAD", "HEAD~">> >>, FALSE))) = <<>>

\* README: "lists unstaged, staged, untracked, deleted, renamed, and conflicted
\* files".  As long as the repository stays as it was listed, the list is the
\* one that comparing HEAD, the index, the stages and the working tree path by
\* path gives, each file once per heading with its kind and its counts, the
\* unstaged ones first; and so are other comparisons.  Two exceptions: a conflict whose second letter is no U
\* is not marked as one, and a staged modification of a file that has been
\* deleted from the working tree is listed as a deletion.
ListIsFaithful ==
    fresh =>
        /\ \A h \in {"Changes", "Staged Changes"} :
              LET mine == {i \in DOMAIN list : /\ Heading(RevsOf(list[i])) = h
                                               /\ ~Unmarked(PathOf(list[i]))}
                  Adjust(e) == IF h = "Staged Changes" /\ e.change = "modified"
                                  /\ work[e.path] = Absent
                               THEN [e EXCEPT !.change = "deleted"] ELSE e
              IN /\ \A i, j \in mine : list[i] = list[j] => i = j
                 /\ {Shown(list[i]) : i \in mine}
                        = {Adjust(e) : e \in {c \in ChangedFiles(h) : ~Unmarked(c.path)}}
        /\ \A i, j \in DOMAIN list : i < j /\ list[i].after = Index => list[j].after = Index
        /\ ComparisonsAreFaithful

\* README: "shows added, deleted, and untracked files as one-sided text".  While
\* the repository stays as it was listed, opening a file that no merge left
\* unresolved finds a text exactly on the sides its entry says it has, and the
\* two sides of an entry differ unless the file only moved.
EntriesShowTheirSides ==
    fresh =>
        \A i \in DOMAIN list :
            LET f == list[i]
                original == Read(f, "original")
                modified == Read(f, "modified")
            IN stages[PathOf(f)] = {} /\ ~(f.after = Index /\ work[PathOf(f)] = Absent) =>
                  /\ original = Absent <=> f.original = NoPath
                  /\ modified = Absent <=> f.modified = NoPath
                  /\ original = modified => ChangeOf(f) = "moved" \/ modified = Binary

\* README: "Space stages or unstages the selected file or directory".  When its
\* command has run, the next listing has nothing at or below that path under
\* the heading Space was pressed under, whatever the repository had become
\* before the command got to run: renames, deletions and conflicts too.
ToggleMovesTheEntry ==
    fresh /\ done # NoCommand =>
        \A i \in DOMAIN list :
            IsPrefix(done.path, PathOf(list[i])) => Heading(RevsOf(list[i])) # done.from
==============================================================================
