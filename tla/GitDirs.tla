------------------------------- MODULE GitDirs -------------------------------
(***************************************************************************)
(* Where a repository keeps its state, and what of it is watched: vcs's    *)
(* find_repo, and git_dirs.rs, scope.rs and filter.rs of crates/watcher.   *)
(*                                                                         *)
(* A tree is a function from absolute paths, sequences of names, to what   *)
(* is there; the text of a pointer file is the path it names, which begins *)
(* with "/" if it is absolute.  Links and unreadable files are left out.   *)
(***************************************************************************)
EXTENDS Naturals, Sequences, FiniteSets, SequencesExt

KindAt(tree, path) == IF path \in DOMAIN tree THEN tree[path].kind ELSE "missing"
IsDir(tree, path) == KindAt(tree, path) = "dir"
IsFile(tree, path) == KindAt(tree, path) = "file"

Found(dir) == [ok |-> TRUE, dir |-> dir]
NotFound == [ok |-> FALSE, dir |-> <<>>]

\* canonicalize: every ".." leaves the directory before it.
Canonical(path) ==
    FoldLeft(LAMBDA at, name : IF name = ".." THEN Front(at) ELSE Append(at, name), <<>>, path)

-----------------------------------------------------------------------------
(* The directories *)

DirectoryAt(tree, path) == IF IsDir(tree, path) THEN Found(path) ELSE NotFound
CanonicalDirectory(tree, path) == DirectoryAt(tree, Canonical(path))

ResolveAgainst(base, text) == IF Head(text) = "/" THEN Tail(text) ELSE base \o text

WithHead(tree, gitDir) ==
    IF gitDir.ok /\ IsFile(tree, Append(gitDir.dir, "HEAD")) THEN gitDir ELSE NotFound
ValidateWorktreeGitDir(tree, path) == WithHead(tree, CanonicalDirectory(tree, path))

\* The lines of a file that begin with "gitdir: ".
Pointers(entry) == SelectSeq(entry.lines, LAMBDA line : line.gitdir)

\* The one of this worktree alone, which has its index and its HEAD: .git, or
\* what the first pointer of a file of that name says.
PointedDir(tree, root, pointers) ==
    IF pointers = <<>> THEN NotFound
    ELSE IF Head(pointers).path = <<>> THEN NotFound
    ELSE ValidateWorktreeGitDir(tree, ResolveAgainst(root, Head(pointers).path))
WorktreeGitDir(tree, root) ==
    LET dotGit == Append(root, ".git")
    IN  CASE IsDir(tree, dotGit) -> ValidateWorktreeGitDir(tree, dotGit)
          [] IsFile(tree, dotGit) -> PointedDir(tree, root, Pointers(tree[dotGit]))
          [] OTHER -> NotFound

\* Mutant: a linked worktree is taken to have everything in its own.
CommonIsOwn(tree, worktreeGitDir) == Found(worktreeGitDir)

NamedDir(tree, base, path) ==
    IF path = <<>> THEN NotFound ELSE CanonicalDirectory(tree, ResolveAgainst(base, path))
\* The one shared with every other worktree, which has the refs.
CommonGitDir(tree, worktreeGitDir) ==
    LET commondir == Append(worktreeGitDir, "commondir")
    IN  CASE KindAt(tree, commondir) = "missing" -> Found(worktreeGitDir)
          [] IsDir(tree, commondir) -> NotFound
          [] OTHER -> NamedDir(tree, worktreeGitDir, tree[commondir].lines[1].path)

\* git rev-parse --show-toplevel: the nearest folder with a .git that is one.  A
\* directory that is none is passed by, a file that is none is an error.
Nearest(folder, gitDirs, files) ==
    LET found == {n \in DOMAIN gitDirs : gitDirs[n].ok}
        last == {n \in found : \A k \in found \cup files : k <= n}
    IN  IF last = {} THEN NotFound ELSE Found(SubSeq(folder, 1, CHOOSE n \in last : TRUE))
TopLevel(tree, folder) ==
    Nearest(folder,
            [n \in 0..Len(folder) |-> WorktreeGitDir(tree, SubSeq(folder, 1, n))],
            {n \in 0..Len(folder) : IsFile(tree, Append(SubSeq(folder, 1, n), ".git"))})

\* A file is looked for from the folder it lies in.
FindRepo(tree, path) ==
    LET start == IF IsDir(tree, path) THEN path ELSE Front(path)
    IN  IF IsDir(tree, start) THEN TopLevel(tree, start) ELSE NotFound

\* What subscribe needs before it watches anything: the one is found from the other.
Together(root, own, common) ==
    [ok |-> common.ok, root |-> root.dir, own |-> own.dir, common |-> common.dir]
FromOwn(tree, root, own) ==
    Together(root, own, IF own.ok THEN CommonGitDir(tree, own.dir) ELSE NotFound)
FromRoot(tree, root) ==
    FromOwn(tree, root, IF root.ok THEN WorktreeGitDir(tree, root.dir) ELSE NotFound)
Directories(tree, path) == FromRoot(tree, FindRepo(tree, path))

-----------------------------------------------------------------------------
(* What is watched of them, and what a change in them refreshes *)

Flat(path) == [path |-> path, recursive |-> FALSE]
Deep(path) == [path |-> path, recursive |-> TRUE]

\* scope::compute: what it adds to the directories of the worktree.
GitScope(tree, at) ==
    LET info == Append(at.common, "info")
        refs == Append(at.common, "refs")
    IN  {Flat(at.own), Flat(at.common)}
            \cup {Flat(path) : path \in {path \in {info} : IsDir(tree, path)}}
            \cup {Deep(path) : path \in {path \in {refs} : IsDir(tree, path)}}

\* Whether a change at a path is seen by one of these watches.
IsSeen(watches, path) ==
    \E watch \in watches :
        \/ watch.path = Front(path)
        \/ watch.recursive /\ IsStrictPrefix(watch.path, path)

Internals == {"objects", "logs", "hooks", "lfs", "fsmonitor--daemon", "info"}
OperationHeads == {"MERGE_HEAD", "CHERRY_PICK_HEAD", "REVERT_HEAD", "FETCH_HEAD"}
Rebases == {"rebase-merge", "rebase-apply"}
LockFiles == {"index.lock", "HEAD.lock", "main.lock"}

RefreshForGitPath(rel) ==
    IF rel = <<>> THEN {}
    ELSE IF rel = <<"info", "exclude">> THEN {"worktree"}
    ELSE IF Head(rel) \in Internals THEN {}
    ELSE IF rel = <<"index">> THEN {"index"}
    ELSE IF rel = <<"HEAD">> THEN {"head"}
    ELSE IF Head(rel) = "refs" \/ rel = <<"packed-refs">> THEN {"refs"}
    ELSE IF Last(rel) \in OperationHeads \/ Head(rel) \in Rebases THEN {"index"}
    ELSE {}

From(path, dir) == SubSeq(path, Len(dir) + 1, Len(path))

\* refresh_for_path, of a path in a Git directory: a linked worktree's own lies
\* in the common one, so that it is asked first.
RefreshForPath(at, path) ==
    IF Last(path) \in LockFiles THEN {}
    ELSE IF IsPrefix(at.own, path) THEN RefreshForGitPath(From(path, at.own))
    ELSE IF IsPrefix(at.common, path) THEN RefreshForGitPath(From(path, at.common))
    ELSE {}
=============================================================================
