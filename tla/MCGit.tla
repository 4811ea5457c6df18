------------------------------- MODULE MCGit --------------------------------
(* Two files in a directory, of two texts and a binary content. *)
EXTENDS Git, TLC

MCPathOrder == << <<"src", "a">>, <<"src", "b">> >>
Symmetry == Permutations(Texts \ Binaries)
MCCounts == [pair \in (Texts \cup {Absent}) \X (Texts \cup {Absent}) |->
                IF pair[1] = pair[2] THEN NoStats
                ELSE Stats(IF pair[2] = Absent THEN 0 ELSE 2, IF pair[1] = Absent THEN 0 ELSE 1)]
=============================================================================
