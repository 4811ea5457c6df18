----------------------------- MODULE ConfigStore -----------------------------
(***************************************************************************)
(* The preference file of crates/config/src/store.rs: several processes    *)
(* open, reload and update it, any step of a save may fail, a process may  *)
(* be killed and the machine may lose power at any time.  One step per     *)
(* call into the file system, as on Unix (elsewhere the folder is not      *)
(* synced).                                                                *)
(*                                                                         *)
(* A file is a text and whether it has been synced: the text of one that   *)
(* has not may be torn by a loss of power.  The name of the preference     *)
(* file is an entry of its folder: until the folder is synced, a loss of   *)
(* power may leave any of the entries in durable.                          *)
(*                                                                         *)
(* Preferences are valid ones: an edit that Config::validate rejects       *)
(* returns before anything is done.                                        *)
(***************************************************************************)
EXTENDS FiniteSets, TLC

CONSTANTS Processes,    \* processes, each with its own temporary file name
          Prefs,        \* valid preferences
          Default,      \* Config::default()
          Malformed,    \* a text that does not parse or does not validate
          Torn,         \* part of a text
          None          \* no file, nothing to save

ASSUME ConfigAssumption ==
    /\ Default \in Prefs
    /\ Malformed \notin Prefs
    /\ Torn \notin Prefs \cup {Malformed}
    /\ None \notin Prefs \cup {Malformed, Torn}
    /\ None \notin [text : Prefs \cup {Malformed, Torn}, synced : BOOLEAN]

\* The processes are alike: TLC takes states that differ in their names for one.
ProcessSymmetry == Permutations(Processes)

VARIABLES folder,       \* the folder of the preference file
          file,         \* the preference file
          durable,      \* the files its name may denote after a loss of power
          temp,         \* each process's temporary file
          at,           \* where each process is
          next,         \* what it is saving
          store,        \* its ConfigStore: config and warning
          original,     \* history: the preference file at first
          held,         \* history: every text the preference file had
          later,        \* history: texts put in place since the process's rename
          pledged,      \* history: what a successful update promises, {} if none
          stray         \* history: why a temporary file may lie about

disk == <<folder, file, durable, original>>
history == <<held, later, pledged>>
vars == <<disk, temp, at, next, store, history, stray>>

Texts == Prefs \cup {Malformed, Torn}
Files == [text : Texts, synced : BOOLEAN]
Locations == {"down", "idle", "folder", "clear", "create", "write", "flush",
              "rename", "settle", "cleanup"}

TypeOK ==
    /\ folder \in {"missing", "made", "kept"}
    /\ file \in Files \cup {None}
    /\ durable \subseteq Files \cup {None}
    /\ temp \in [Processes -> Files \cup {None}]
    /\ at \in [Processes -> Locations]
    /\ next \in [Processes -> Prefs \cup {None}]
    /\ store \in [Processes -> [config : Prefs, warning : BOOLEAN]]
    /\ original \in Files \cup {None}
    /\ held \subseteq Texts
    /\ later \in [Processes -> SUBSET Prefs]
    /\ pledged \subseteq Prefs
    /\ stray \in [Processes -> {"no", "crash", "refused"}]
    /\ \A p \in Processes : at[p] \notin {"down", "idle", "cleanup"} <=> next[p] # None

------------------------------------------------------------------------------
(* Loading *)

\* A missing file means the defaults, a malformed one the defaults and a warning.
Load ==
    IF file = None THEN [config |-> Default, warning |-> FALSE]
    ELSE IF file.text \in Prefs THEN [config |-> file.text, warning |-> FALSE]
    ELSE [config |-> Default, warning |-> TRUE]

Open(p) ==
    /\ at[p] = "down"
    /\ at' = [at EXCEPT ![p] = "idle"]
    /\ store' = [store EXCEPT ![p] = Load]
    /\ UNCHANGED <<disk, temp, next, history, stray>>

\* A file that cannot be read leaves the store as it is.
Reload(p) ==
    /\ at[p] = "idle"
    /\ store' = [store EXCEPT ![p] = Load]
    /\ UNCHANGED <<disk, temp, at, next, history, stray>>

------------------------------------------------------------------------------
(* Saving: each step may fail *)

Goto(p, place) == at' = [at EXCEPT ![p] = place]

\* The save has failed: what is left to do is to remove the temporary file.
Fail(p) ==
    /\ Goto(p, "cleanup")
    /\ next' = [next EXCEPT ![p] = None]

BeginUpdate(p, v) ==
    /\ at[p] = "idle"
    /\ Goto(p, "folder")
    /\ next' = [next EXCEPT ![p] = v]
    /\ UNCHANGED <<disk, temp, store, history, stray>>

\* create_dir_all, whose failure returns at once.  The new folder's own entry
\* is never synced.
MakeFolder(p) ==
    /\ at[p] = "folder"
    /\ \/ /\ Goto(p, "clear")
          /\ folder' = IF folder = "missing" THEN "made" ELSE folder
          /\ UNCHANGED next
       \/ /\ Goto(p, "idle")
          /\ next' = [next EXCEPT ![p] = None]
          /\ UNCHANGED folder
    /\ UNCHANGED <<file, durable, original, temp, store, history, stray>>

\* Mutant: what an earlier process of that number left is not removed.
ClearTempNever(p) ==
    /\ at[p] = "clear"
    /\ Goto(p, "create")
    /\ UNCHANGED <<disk, temp, next, store, history, stray>>

\* remove_file: nobody looks at the result.
Remove(p) ==
    \/ /\ temp' = [temp EXCEPT ![p] = None]
       /\ stray' = [stray EXCEPT ![p] = "no"]
    \/ /\ temp[p] # None
       /\ stray' = [stray EXCEPT ![p] = "refused"]
       /\ UNCHANGED temp

ClearTemp(p) ==
    /\ at[p] = "clear"
    /\ Goto(p, "create")
    /\ Remove(p)
    /\ UNCHANGED <<disk, next, store, history>>

\* create_new: the file must not exist.
CreateTemp(p) ==
    /\ at[p] = "create"
    /\ \/ /\ temp[p] = None
          /\ temp' = [temp EXCEPT ![p] = [text |-> Torn, synced |-> FALSE]]
          /\ Goto(p, "write")
          /\ UNCHANGED next
       \/ /\ Fail(p)
          /\ UNCHANGED temp
    /\ UNCHANGED <<disk, store, history, stray>>

WriteTemp(p) ==
    /\ at[p] = "write"
    /\ \/ /\ temp' = [temp EXCEPT ![p].text = next[p]]
          /\ Goto(p, "flush")
          /\ UNCHANGED next
       \/ /\ Fail(p)
          /\ UNCHANGED temp
    /\ UNCHANGED <<disk, store, history, stray>>

\* Mutant: the temporary file is not synced.
FlushTempNever(p) ==
    /\ at[p] = "flush"
    /\ Goto(p, "rename")
    /\ UNCHANGED <<disk, temp, next, store, history, stray>>

FlushTemp(p) ==
    /\ at[p] = "flush"
    /\ \/ /\ temp' = [temp EXCEPT ![p].synced = TRUE]
          /\ Goto(p, "rename")
          /\ UNCHANGED next
       \/ /\ Fail(p)
          /\ UNCHANGED temp
    /\ UNCHANGED <<disk, store, history, stray>>

\* The temporary file takes the place of the preference file.
Rename(p) ==
    /\ at[p] = "rename"
    /\ \/ /\ file' = temp[p]
          /\ durable' = durable \cup {temp[p]}
          /\ temp' = [temp EXCEPT ![p] = None]
          /\ Goto(p, "settle")
          /\ held' = held \cup {temp[p].text}
          /\ later' = [q \in Processes |->
                         IF q = p THEN {next[p]}
                         ELSE IF at[q] = "settle" THEN later[q] \cup {next[p]} ELSE {}]
          /\ pledged' = IF pledged = {} THEN {} ELSE pledged \cup {next[p]}
          /\ UNCHANGED next
       \/ /\ Fail(p)
          /\ UNCHANGED <<file, durable, temp, history>>
    /\ UNCHANGED <<folder, original, store, stray>>

\* Mutant: the folder is not synced.
SyncFolderNever(p) ==
    /\ at[p] = "settle"
    /\ Goto(p, "idle")
    /\ store' = [store EXCEPT ![p] = [config |-> next[p], warning |-> FALSE]]
    /\ pledged' = IF folder # "kept" THEN pledged
                  ELSE IF pledged = {} THEN later[p]
                  ELSE pledged \cap later[p]
    /\ next' = [next EXCEPT ![p] = None]
    /\ later' = [later EXCEPT ![p] = {}]
    /\ UNCHANGED <<disk, temp, held, stray>>

\* sync_parent, with which the update has succeeded.  What it promises: of all
\* the texts the file has had, only those since its own rename are possible.
\* There is no promise while the folder itself may vanish.
SyncFolder(p) ==
    /\ at[p] = "settle"
    /\ \/ /\ durable' = {file}
          /\ Goto(p, "idle")
          /\ store' = [store EXCEPT ![p] = [config |-> next[p], warning |-> FALSE]]
          /\ pledged' = IF folder # "kept" THEN pledged
                        ELSE IF pledged = {} THEN later[p]
                        ELSE pledged \cap later[p]
          /\ next' = [next EXCEPT ![p] = None]
       \/ /\ Fail(p)
          /\ UNCHANGED <<durable, store, pledged>>
    /\ later' = [later EXCEPT ![p] = {}]
    /\ UNCHANGED <<folder, file, original, temp, held, stray>>

Cleanup(p) ==
    /\ at[p] = "cleanup"
    /\ Goto(p, "idle")
    /\ Remove(p)
    /\ UNCHANGED <<disk, next, store, history>>

------------------------------------------------------------------------------
(* Crashes *)

Kill(p) ==
    /\ at[p] # "down"
    /\ Goto(p, "down")
    /\ next' = [next EXCEPT ![p] = None]
    /\ store' = [store EXCEPT ![p] = [config |-> Default, warning |-> FALSE]]
    /\ later' = [later EXCEPT ![p] = {}]
    /\ stray' = [stray EXCEPT ![p] = IF temp[p] = None THEN "no" ELSE "crash"]
    /\ UNCHANGED <<disk, temp, held, pledged>>

\* The file that a name still leads to, as it is found after a loss of power.
Recovered(f) ==
    IF f = None THEN {None}
    ELSE [text : IF f.synced THEN {f.text} ELSE {f.text, Torn}, synced : {TRUE}]

\* Every process ends.  One of the files the name may denote remains, or the
\* whole folder is gone; temporary files may be there or not.
PowerLoss ==
    /\ \/ /\ \E f \in durable : file' \in Recovered(f)
          /\ folder' = IF folder = "made" THEN "kept" ELSE folder
          /\ \E left \in SUBSET (IF folder = "missing" THEN {} ELSE Processes) :
               temp' = [p \in Processes |->
                          IF p \in left THEN [text |-> Torn, synced |-> TRUE] ELSE None]
       \/ /\ folder = "made"
          /\ folder' = "missing"
          /\ file' = None
          /\ temp' = [p \in Processes |-> None]
    /\ durable' = {file'}
    /\ at' = [p \in Processes |-> "down"]
    /\ next' = [p \in Processes |-> None]
    /\ store' = [p \in Processes |-> [config |-> Default, warning |-> FALSE]]
    /\ later' = [p \in Processes |-> {}]
    /\ stray' = [p \in Processes |-> IF temp'[p] = None THEN "no" ELSE "crash"]
    /\ UNCHANGED <<original, held, pledged>>

------------------------------------------------------------------------------
Init ==
    /\ folder \in {"missing", "kept"}
    /\ file \in {[text |-> t, synced |-> TRUE] : t \in Prefs \cup {Malformed}} \cup {None}
    /\ folder = "missing" => file = None
    /\ durable = {file}
    /\ temp = [p \in Processes |-> None]
    /\ at = [p \in Processes |-> "down"]
    /\ next = [p \in Processes |-> None]
    /\ store = [p \in Processes |-> [config |-> Default, warning |-> FALSE]]
    /\ original = file
    /\ held = IF file = None THEN {} ELSE {file.text}
    /\ later = [p \in Processes |-> {}]
    /\ pledged = {}
    /\ stray = [p \in Processes |-> "no"]

Save(p) ==
    \/ \E v \in Prefs : BeginUpdate(p, v)
    \/ MakeFolder(p) \/ ClearTemp(p) \/ CreateTemp(p) \/ WriteTemp(p)
    \/ FlushTemp(p) \/ Rename(p) \/ SyncFolder(p) \/ Cleanup(p)

Next ==
    \/ PowerLoss
    \/ \E p \in Processes : Open(p) \/ Reload(p) \/ Save(p) \/ Kill(p)

Spec == Init /\ [][Next]_vars

------------------------------------------------------------------------------
(* Safety *)

\* Whatever happens to a save, the name leads to preferences as somebody saved
\* them, or to what was there at first, now and after a loss of power: save()
\* writes and syncs a file of its own before it renames it.
WholeOrUntouched ==
    \A f \in durable \cup {file} :
        f = original \/ (f # None /\ f.text \in Prefs /\ f.synced)

\* A successful update is not lost: until somebody saves again, a reader finds
\* its preferences, and would after a loss of power.  save() syncs the folder
\* after the rename, before update() returns.
SavedSurvives ==
    pledged # {} => \A f \in durable \cup {file} : f # None /\ f.text \in pledged

\* A temporary file does not outlive its save without a cause: a crash, or a
\* removal that failed.  The next save finds none unless the removal failed, so
\* a crash does not make create_new fail for good (save() removes it first, and
\* once more after an error).
LeftoversExplained ==
    \A p \in Processes : temp[p] # None =>
        /\ at[p] = "idle" => stray[p] # "no"
        /\ at[p] = "create" => stray[p] = "refused"

\* update() "persists it before changing the in-memory value" (store.rs): a
\* store never holds preferences, save the defaults, that were never on disk.
MemoryWasOnDisk ==
    \A p \in Processes : store[p].config \in held \cup {Default}

\* What a reader finds, and may find after a loss of power.
TextOf(f) == IF f = None THEN None ELSE f.text

Survivors ==
    {TextOf(f) : f \in UNION {Recovered(g) : g \in durable}}
        \cup (IF folder = "made" THEN {None} ELSE {})

Promise == INSTANCE SafeFile WITH
    Others <- {Malformed, None}, contents <- TextOf(file), survivors <- Survivors

\* The whole procedure behaves as a file that is replaced in one step: a rename
\* is Replace, syncing the folder is Settle, and no other step can be told from
\* outside.
ImplementsSafeFile == Promise!FileSpec
==============================================================================
