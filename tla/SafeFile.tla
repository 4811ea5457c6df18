------------------------------ MODULE SafeFile -------------------------------
(***************************************************************************)
(* What crates/config promises of the preference file ("atomic             *)
(* persistence", docs/README.md): a reader finds preferences as they were  *)
(* saved or what stood there first, never part of a save, and a power loss *)
(* leaves one of the contents the file has had since it was last settled.  *)
(***************************************************************************)
CONSTANTS Prefs,        \* preferences as saved
          Others        \* what may stand there before the first save

VARIABLES contents,     \* what a reader finds
          survivors     \* what a reader may find after a loss of power

fileVars == <<contents, survivors>>

FileInit ==
    /\ contents \in Prefs \cup Others
    /\ survivors = {contents}

Replace(v) ==
    /\ contents' = v
    /\ survivors' = survivors \cup {v}

Settle ==
    /\ contents \in survivors'
    /\ survivors' \subseteq survivors
    /\ UNCHANGED contents

LosePower ==
    /\ contents' \in survivors
    /\ survivors' = {contents'}

FileNext == Settle \/ LosePower \/ \E v \in Prefs : Replace(v)

FileSpec == FileInit /\ [][FileNext]_fileVars
==============================================================================
