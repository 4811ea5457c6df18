--------------------------------- MODULE MCApp ---------------------------------
(* A list that the view has no room for, one with a path under both headings  *)
(* and one with fewer lines; a terminal of usual shape and a tiny one.        *)
EXTENDS App

MCLowerRank == [crates |-> 1, lib |-> 2, Lib |-> 2, src |-> 3, a |-> 4, b |-> 5, z |-> 6]
MCByteRank == [Lib |-> 1, crates |-> 2, lib |-> 3, src |-> 4, a |-> 5, b |-> 6, z |-> 7]
MCTextOf ==
    [crates |-> <<<<"word">>, <<"word">>, <<"word">>>>, lib |-> <<<<"word">>, <<"ideo">>>>,
     Lib |-> <<<<"word">>>>, src |-> <<<<"word">>, <<"word">>>>,
     a |-> <<<<"word">>, <<"ideo">>, <<"ideo">>>>, b |-> <<<<"word">>, <<"word">>>>,
     z |-> <<<<"ideo">>>>]

Unstaged == Revs(Index, Worktree)
Staged == Revs(Commit, Index)
A == <<"src", "lib", "a">>
B == <<"src", "lib", "b">>
Long == SetStats(UnchangedPath(A, Unstaged), Stats(12, 3))

MCLists ==
    [long |-> <<UnchangedPath(B, Unstaged), Long, Added(<<"z">>, Unstaged),
                Deleted(<<"crates", "b">>, Unstaged), UnchangedPath(<<"crates", "Lib", "a">>, Unstaged)>>,
     both |-> <<UnchangedPath(A, Staged), Renamed(<<"b">>, B, Staged),
                SetStats(UnchangedPath(A, Unstaged), Stats(0, 1)), Added(<<"z">>, Unstaged)>>,
     short |-> <<UnchangedPath(B, Unstaged), Added(<<"z">>, Unstaged)>>]

MCScreens == {[width |-> 30, height |-> 6], [width |-> 12, height |-> 4]}
MCKeys == {"down", "up", "open", "mode", "next", "previous", "layout", "quit"}
MCPoints == {<<3, 1>>, <<3, 4>>, <<20, 2>>, <<14, 0>>}
==============================================================================
