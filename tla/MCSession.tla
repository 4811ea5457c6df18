------------------------------ MODULE MCSession ------------------------------
(* Machines on which each source of the path, and each use of a file, occurs. *)
EXTENDS Session

MCKeyOf == [name \in {"q", "Q", "j", "down", "k", "up", "enter", "t", "w", "i", "space", "right",
                      "left", "h", "l", "0", "$"} |-> IF name = "Q" THEN "q" ELSE name]

Json(document) == [kind |-> "json", document |-> document]

OnTerminal(colours, of) == [name \in DOMAIN of \cup {"COLORTERM", "COLORFGBG"} |->
    CASE name = "COLORTERM" -> "truecolor" [] name = "COLORFGBG" -> colours [] OTHER -> of[name]]

Own == <<"/home", ".config">>

Dir == [kind |-> "dir"]
File == [kind |-> "file", lines |-> <<>>]
Pointing(gitdir, path) == [kind |-> "file", lines |-> <<[gitdir |-> gitdir, path |-> path]>>]

\* A repository of its own, with a folder in it that has a .git without a HEAD.
Plain == [path \in {<<"r">>, <<"r", "s">>, <<"r", "s", ".git">>, <<"r", ".git">>,
                    <<"r", ".git", "refs">>, <<"r", ".git", "info">>} |-> Dir]
         @@ [path \in {<<"r", ".git", "HEAD">>, <<"r", "s", "f">>} |-> File]
PlainGit == {[own |-> <<"r", ".git">>, common |-> <<"r", ".git">>]}

\* It and a worktree linked to it, which lies beside it.
WorktreeDir == <<"r", ".git", "worktrees", "w">>
Linked(gitdir, commondir) ==
    Plain @@ [path \in {<<"w">>, <<"r", ".git", "worktrees">>, WorktreeDir} |-> Dir]
    @@ [path \in {Append(WorktreeDir, "HEAD")} |-> File]
    @@ [path \in {<<"w", ".git">>} |-> Pointing(TRUE, gitdir)]
    @@ [path \in {Append(WorktreeDir, "commondir")} |-> Pointing(FALSE, commondir)]
LinkedGit == {[own |-> WorktreeDir, common |-> <<"r", ".git">>]}

On(tree, folder, git) == [tree |-> tree, folder |-> folder, git |-> git]

MCMachines == {
    \* The option wins; the quit key is one of the list's as well, or not.
    [option |-> <<"a">>, environment |-> [CODEDIFF_CONFIG |-> "b"],
     files |-> [path \in {<<"a">>, <<"b">>} |->
        IF path = <<"a">> THEN Json([quit |-> <<"j", "Q">>, theme |-> "basic-light"])
        ELSE [kind |-> "malformed"]]]
    @@ On(Linked(<<"/">> \o WorktreeDir, <<"..", "..">>), <<"w">>, LinkedGit),
    \* Variables that are set to nothing; a key too narrow a list, a blank key.
    [option |-> <<>>, environment |-> OnTerminal(<<0, 15>>, [CODEDIFF_CONFIG |-> "", HOME |-> "/home"]),
     files |-> [path \in {Own} |-> Json([explorer_width |-> 7, theme |-> "basic-dark"])]]
    @@ On(Linked(<<"..", "r", ".git", "worktrees", "w">>, <<"/", "r", ".git">>), <<"w">>, LinkedGit),
    [option |-> <<>>, environment |-> [XDG_CONFIG_HOME |-> "x", HOME |-> "/home"],
     files |-> [path \in {<<"x">>, Own} |->
        IF path = <<"x">> THEN Json([quit |-> <<>>, wrap |-> FALSE]) ELSE [kind |-> "missing"]]]
    @@ On(Plain, <<"r", "s", "f">>, PlainGit),
    \* A name that is no key: refused, before the terminal is taken.
    [option |-> <<>>, environment |-> [CODEDIFF_CONFIG |-> "b"],
     files |-> [path \in {<<"b">>} |-> Json([open |-> <<"entre">>])]]
    @@ On(Plain, <<"r">>, PlainGit),
    \* Nowhere to look, and nothing or nothing readable there.
    [option |-> <<>>, environment |-> [COLORFGBG |-> <<15, 0>>], files |-> [path \in {} |-> 0]]
    @@ On(Plain, <<"r">>, PlainGit),
    [option |-> <<"a">>, environment |-> [COLORFGBG |-> <<>>], files |-> [path \in {} |-> 0]]
    @@ On(Linked(<<"..", "r", ".git", "worktrees", "gone">>, <<"..", "..">>), <<"w">>, {}),
    [option |-> <<"a">>, environment |-> [HOME |-> ""],
     files |-> [path \in {<<"a">>} |-> [kind |-> "unreadable"]]]
    @@ On(Plain, <<"x">>, {})}
=============================================================================
