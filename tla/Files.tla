------------------------------- MODULE Files --------------------------------
(***************************************************************************)
(* What the crates tell each other of a file under review (file-types):    *)
(* its paths and revisions on both sides, what happened between them, the  *)
(* lines gained and lost, and its content.                                 *)
(*                                                                         *)
(* A path is the sequence of the names that slashes separate.  Ours is     *)
(* the stage of a conflict that is shown, Commit the one commit reviewed.  *)
(***************************************************************************)
EXTENDS Integers, Sequences, SequencesExt

NoPath == <<>>
Worktree == "worktree"
Index == "index"
Ours == "ours"
Commit == "commit"

Revs(before, after) == [before |-> before, after |-> after]

\* The heading of a comparison.
Heading(revs) == IF revs.after = Index THEN "Staged Changes" ELSE "Changes"

NoStats == [added |-> 0, removed |-> 0]
Stats(added, removed) == [added |-> added, removed |-> removed]
IsEmptyStats(s) == s.added = 0 /\ s.removed = 0
Total(s, t) == Stats(s.added + t.added, s.removed + t.removed)

-----------------------------------------------------------------------------
(* Files *)

\* What only the backend knows of a change: untracked or conflicted.
FromPaths == "from paths"
NeedsBackend(change) == change \in {"untracked", "conflicted"}

File(original, modified, revs) ==
    [original |-> original, modified |-> modified, before |-> revs.before,
     after |-> revs.after, stored |-> FromPaths, stats |-> NoStats]
UnchangedPath(path, revs) == File(path, path, revs)
Renamed(original, modified, revs) == File(original, modified, revs)
Added(path, revs) == File(NoPath, path, revs)
Deleted(path, revs) == File(path, NoPath, revs)

PathOfVersion(file, version) == IF version = "original" THEN file.original ELSE file.modified
RevOf(file, version) == IF version = "original" THEN file.before ELSE file.after
RevsOf(file) == Revs(file.before, file.after)

\* The current path, or the previous one of a deletion.
PathOf(file) == IF file.modified # NoPath THEN file.modified ELSE file.original

OneSided(file) == file.original = NoPath \/ file.modified = NoPath
PreviousPath(file) ==
    IF OneSided(file) \/ file.original = file.modified THEN NoPath ELSE file.original

ChangeOfPaths(file) ==
    CASE file.original = NoPath -> "added"
      [] file.modified = NoPath -> "deleted"
      [] PreviousPath(file) # NoPath -> "moved"
      [] OTHER -> "modified"
ChangeOf(file) == IF file.stored = FromPaths THEN ChangeOfPaths(file) ELSE file.stored

SetChange(file, change) == [file EXCEPT !.stored = change]
SetStats(file, stats) == [file EXCEPT !.stats = stats]

-----------------------------------------------------------------------------
(* Content *)

Absent == "absent"
Binary == "binary"

\* A NUL near the beginning or bytes that are not UTF-8 make a file binary.
FromBytes(bytes, isText) == IF bytes = Absent THEN Absent
                            ELSE IF isText THEN bytes ELSE Binary
==============================================================================
