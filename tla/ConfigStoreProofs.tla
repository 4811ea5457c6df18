-------------------------- MODULE ConfigStoreProofs --------------------------
(***************************************************************************)
(* What holds of the preference file for every set of processes and        *)
(* preferences, whatever fails, is killed or loses power.                  *)
(*                                                                         *)
(* WholeOrUntouched is not inductive: that a rename puts a whole file in   *)
(* place needs that the temporary file was written and synced by then,     *)
(* which is Staged.  SavedSurvives needs that a file about to be settled   *)
(* is one of those put in place since the process's own rename (Settling). *)
(***************************************************************************)
EXTENDS ConfigStore, TLAPS

\* A temporary file is what its process has made of it so far.
Staged(p) ==
    /\ at[p] = "write" => temp[p] = [text |-> Torn, synced |-> FALSE]
    /\ at[p] = "flush" => temp[p] = [text |-> next[p], synced |-> FALSE]
    /\ at[p] = "rename" => temp[p] = [text |-> next[p], synced |-> TRUE]
    /\ at[p] = "settle" => temp[p] = None

\* From its rename on, a process accounts for every text put in place.
Settling(p) ==
    at[p] = "settle" =>
        /\ file # None
        /\ file.text \in later[p]
        /\ next[p] \in held

\* Why there is a temporary file, wherever the process is.
StrayKnown(p) ==
    temp[p] # None =>
        /\ at[p] \in {"down", "idle", "folder", "clear"} => stray[p] # "no"
        /\ at[p] = "create" => stray[p] = "refused"

\* Only before it has made sure of the folder can it do without.
FolderMade(p) == at[p] \notin {"down", "idle", "folder", "cleanup"} => folder # "missing"

ProcessInv(p) == Staged(p) /\ Settling(p) /\ StrayKnown(p) /\ FolderMade(p)

\* What was there at first is no part of a save.
OriginalWhole ==
    original # None => original.synced /\ original.text # Torn

\* A folder that may vanish had no file at first and carries no promise.
FolderKnown ==
    /\ folder # "kept" => original = None /\ pledged = {}
    /\ folder = "missing" => durable = {None}

\* A reader finds one of the files that may survive, and all of them were seen.
FileKnown ==
    /\ file \in durable
    /\ \A f \in durable : f # None => f.text \in held

DiskInv == OriginalWhole /\ FolderKnown /\ FileKnown /\ WholeOrUntouched /\ SavedSurvives

IInv ==
    /\ TypeOK
    /\ DiskInv
    /\ MemoryWasOnDisk
    /\ \A p \in Processes : ProcessInv(p)

------------------------------------------------------------------------------
\* The program starts with whatever preference file there is, and no process.
LEMMA InitIInv == Init => IInv
  <1> SUFFICES ASSUME Init PROVE IInv
    OBVIOUS
  <1>1. ASSUME file # None
        PROVE  file \in Files /\ file.synced = TRUE /\ file.text \in Prefs \cup {Malformed}
    <2>1. PICK t \in Prefs \cup {Malformed} : file = [text |-> t, synced |-> TRUE]
      BY <1>1 DEF Init
    <2>2. QED
      BY <2>1 DEF Files, Texts
  <1>2. TypeOK
    BY <1>1, ConfigAssumption DEF Init, TypeOK, Files, Texts, Locations
  <1>3. \A p \in Processes : ProcessInv(p)
    BY DEF Init, ProcessInv, Staged, Settling, StrayKnown, FolderMade
  <1>4. OriginalWhole /\ FileKnown
    BY <1>1, ConfigAssumption DEF Init, OriginalWhole, FileKnown
  <1>5. FolderKnown
    BY DEF Init, FolderKnown
  <1>6. WholeOrUntouched /\ SavedSurvives /\ MemoryWasOnDisk
    BY DEF Init, WholeOrUntouched, SavedSurvives, MemoryWasOnDisk
  <1>7. QED
    BY <1>2, <1>3, <1>4, <1>5, <1>6 DEF IInv, DiskInv

\* What IInv says of the disk stays true while the disk and what is remembered
\* of it do.
LEMMA DiskKept ==
  ASSUME IInv, UNCHANGED <<disk, held, pledged>>
  PROVE  DiskInv'
  BY DEF IInv, DiskInv, OriginalWhole, FolderKnown, FileKnown, WholeOrUntouched,
     SavedSurvives, disk

\* A process that stands still keeps its part of IInv while the file and the
\* folder stay where they are.
LEMMA OthersKept ==
  ASSUME IInv, NEW p \in Processes, NEW q \in Processes, p # q,
         UNCHANGED <<folder, file, held, at[q], temp[q], next[q], later[q], stray[q]>>
  PROVE  ProcessInv(q)'
  BY DEF IInv, ProcessInv, Staged, Settling, StrayKnown, FolderMade

\* The steps that load the file only change a store, and Load is sound: what it
\* finds that is valid has been on disk.
LEMMA LoadIInv ==
  ASSUME IInv, NEW p \in Processes, Open(p) \/ Reload(p)
  PROVE  IInv'
  <1>1. Load \in [config : Prefs, warning : BOOLEAN] /\ Load.config \in held \cup {Default}
    BY ConfigAssumption DEF IInv, DiskInv, TypeOK, Files, FileKnown, Load
  <1>2. store' = [store EXCEPT ![p] = Load] /\ UNCHANGED <<disk, temp, next, history, stray>>
    BY DEF Open, Reload
  <1>3. at' = at \/ (at[p] = "down" /\ at' = [at EXCEPT ![p] = "idle"])
    BY DEF Open, Reload
  <1>4. TypeOK'
    BY <1>1, <1>2, <1>3 DEF IInv, TypeOK, Locations, disk, history
  <1>5. MemoryWasOnDisk'
    BY <1>1, <1>2 DEF IInv, TypeOK, MemoryWasOnDisk, history
  <1>6. DiskInv'
    BY <1>2, DiskKept DEF history
  <1>7. ASSUME NEW q \in Processes
        PROVE  ProcessInv(q)'
    BY <1>2, <1>3
    DEF IInv, TypeOK, ProcessInv, Staged, Settling, StrayKnown, FolderMade, disk, history
  <1>8. QED
    BY <1>4, <1>5, <1>6, <1>7 DEF IInv

\* The beginning of a save: only MakeFolder changes the disk, and what it makes
\* is a folder without a file.
LEMMA BeginIInv ==
  ASSUME IInv, NEW p \in Processes, MakeFolder(p) \/ \E v \in Prefs : BeginUpdate(p, v)
  PROVE  IInv'
  <1>1. ASSUME NEW v \in Prefs, BeginUpdate(p, v)
        PROVE  IInv'
    <2> USE <1>1 DEF BeginUpdate, Goto
    <2>1. DiskInv'
      BY DiskKept DEF history
    <2>2. TypeOK' /\ MemoryWasOnDisk'
      BY ConfigAssumption DEF IInv, TypeOK, Locations, MemoryWasOnDisk, disk, history
    <2>3. ASSUME NEW q \in Processes
          PROVE  ProcessInv(q)'
      BY DEF IInv, TypeOK, ProcessInv, Staged, Settling, StrayKnown, FolderMade, disk, history
    <2>4. QED
      BY <2>1, <2>2, <2>3 DEF IInv
  <1>2. CASE MakeFolder(p)
    <2> USE <1>2 DEF MakeFolder, Goto
    <2>1. DiskInv'
      BY DEF IInv, DiskInv, TypeOK, OriginalWhole, FolderKnown, FileKnown, WholeOrUntouched,
         SavedSurvives, history
    <2>2. TypeOK' /\ MemoryWasOnDisk'
      BY DEF IInv, TypeOK, Locations, MemoryWasOnDisk, history
    <2>3. ASSUME NEW q \in Processes
          PROVE  ProcessInv(q)'
      BY DEF IInv, TypeOK, ProcessInv, Staged, Settling, StrayKnown, FolderMade, history
    <2>4. QED
      BY <2>1, <2>2, <2>3 DEF IInv
  <1>3. QED
    BY <1>1, <1>2

\* Removing the temporary file, before a save and after one that failed: it is
\* gone, or known to have been refused.
LEMMA RemoveIInv ==
  ASSUME IInv, NEW p \in Processes, ClearTemp(p) \/ Cleanup(p)
  PROVE  IInv'
  <1>1. UNCHANGED <<disk, next, store, history>> /\ Remove(p)
    BY DEF ClearTemp, Cleanup
  <1>2. \/ at[p] = "clear" /\ at' = [at EXCEPT ![p] = "create"]
        \/ at[p] = "cleanup" /\ at' = [at EXCEPT ![p] = "idle"]
    BY DEF ClearTemp, Cleanup, Goto
  <1>3. DiskInv'
    BY <1>1, DiskKept DEF history
  <1>4. TypeOK' /\ MemoryWasOnDisk'
    BY <1>1, <1>2 DEF IInv, TypeOK, Locations, MemoryWasOnDisk, Remove, disk, history
  <1>5. ASSUME NEW q \in Processes, q # p
        PROVE  ProcessInv(q)'
    BY <1>1, <1>2, <1>5, OthersKept DEF IInv, TypeOK, Remove, disk, history
  <1>6. ProcessInv(p)'
    <2>1. at'[p] \in {"create", "idle"} /\ (temp'[p] # None => stray'[p] = "refused")
      BY <1>1, <1>2 DEF IInv, TypeOK, Remove
    <2>2. at'[p] = "create" => folder # "missing"
      BY <1>2 DEF IInv, TypeOK, ProcessInv, FolderMade
    <2>3. QED
      BY <1>1, <2>1, <2>2 DEF ProcessInv, Staged, Settling, StrayKnown, FolderMade, disk
  <1>7. QED
    BY <1>3, <1>4, <1>5, <1>6 DEF IInv

\* Any step that fails leaves the rest to Cleanup.
LEMMA FailIInv ==
  ASSUME IInv, NEW p \in Processes, Fail(p), at[p] # "down",
         UNCHANGED <<disk, temp, store, held, pledged, stray>>,
         later' = later \/ later' = [later EXCEPT ![p] = {}]
  PROVE  IInv'
  <1> USE DEF Fail, Goto
  <1>1. DiskInv'
    BY DiskKept
  <1>2. TypeOK' /\ MemoryWasOnDisk'
    BY DEF IInv, TypeOK, Locations, MemoryWasOnDisk, disk
  <1>3. ASSUME NEW q \in Processes, q # p
        PROVE  ProcessInv(q)'
    BY <1>3, OthersKept DEF IInv, TypeOK, disk
  <1>4. ProcessInv(p)'
    <2>1. at'[p] = "cleanup"
      BY DEF IInv, TypeOK
    <2>2. QED
      BY <2>1 DEF ProcessInv, Staged, Settling, StrayKnown, FolderMade
  <1>5. QED
    BY <1>1, <1>2, <1>3, <1>4 DEF IInv

\* The temporary file becomes what Staged says for the place its process goes to.
LEMMA AdvanceIInv ==
  ASSUME IInv, NEW p \in Processes, NEW place \in {"write", "flush", "rename"}, NEW f \in Files,
         at[p] \in {"create", "write", "flush"}, Goto(p, place),
         temp' = [temp EXCEPT ![p] = f],
         place = "write" => f = [text |-> Torn, synced |-> FALSE],
         place = "flush" => f = [text |-> next[p], synced |-> FALSE],
         place = "rename" => f = [text |-> next[p], synced |-> TRUE],
         UNCHANGED <<disk, next, store, history, stray>>
  PROVE  IInv'
  <1> USE DEF Goto
  <1>1. DiskInv'
    BY DiskKept DEF history
  <1>2. TypeOK' /\ MemoryWasOnDisk'
    BY DEF IInv, TypeOK, Locations, MemoryWasOnDisk, disk, history
  <1>3. ASSUME NEW q \in Processes, q # p
        PROVE  ProcessInv(q)'
    BY <1>3, OthersKept DEF IInv, TypeOK, disk, history
  <1>4. ProcessInv(p)'
    <2>1. at'[p] = place /\ temp'[p] = f /\ folder # "missing"
      BY DEF IInv, TypeOK, ProcessInv, FolderMade
    <2>2. QED
      BY <2>1 DEF ProcessInv, Staged, Settling, StrayKnown, FolderMade, disk
  <1>5. QED
    BY <1>1, <1>2, <1>3, <1>4 DEF IInv

\* The temporary file comes to be, is written and is synced; each step may fail.
LEMMA WriteIInv ==
  ASSUME IInv, NEW p \in Processes, CreateTemp(p) \/ WriteTemp(p) \/ FlushTemp(p)
  PROVE  IInv'
  <1>1. UNCHANGED <<disk, store, history, stray>> /\ at[p] \in {"create", "write", "flush"}
    BY DEF CreateTemp, WriteTemp, FlushTemp
  <1>2. CASE Fail(p) /\ UNCHANGED temp
    BY <1>1, <1>2, FailIInv DEF history
  <1>3. CASE CreateTemp(p) /\ UNCHANGED next
    <2>1. [text |-> Torn, synced |-> FALSE] \in Files
      BY DEF Files, Texts
    <2>2. CASE Fail(p) /\ UNCHANGED temp
      BY <2>2, <1>2
    <2>3. CASE ~(Fail(p) /\ UNCHANGED temp)
      BY <1>1, <1>3, <2>1, <2>3, AdvanceIInv DEF CreateTemp
    <2>4. QED
      BY <2>2, <2>3
  <1>4. CASE WriteTemp(p) /\ ~(Fail(p) /\ UNCHANGED temp)
    <2>1. [text |-> next[p], synced |-> FALSE] \in Files
      BY <1>4 DEF IInv, TypeOK, Files, Texts, WriteTemp
    <2>2. temp' = [temp EXCEPT ![p] = [text |-> next[p], synced |-> FALSE]]
      BY <1>4 DEF IInv, TypeOK, ProcessInv, Staged, WriteTemp
    <2>3. QED
      BY <1>1, <1>4, <2>1, <2>2, AdvanceIInv DEF WriteTemp
  <1>5. CASE FlushTemp(p) /\ ~(Fail(p) /\ UNCHANGED temp)
    <2>1. [text |-> next[p], synced |-> TRUE] \in Files
      BY <1>5 DEF IInv, TypeOK, Files, Texts, FlushTemp
    <2>2. temp' = [temp EXCEPT ![p] = [text |-> next[p], synced |-> TRUE]]
      BY <1>5 DEF IInv, TypeOK, ProcessInv, Staged, FlushTemp
    <2>3. QED
      BY <1>1, <1>5, <2>1, <2>2, AdvanceIInv DEF FlushTemp
  <1>6. QED
    BY <1>2, <1>3, <1>4, <1>5 DEF CreateTemp

\* The rename puts a file in place that is whole and synced.
LEMMA RenameIInv ==
  ASSUME IInv, NEW p \in Processes, Rename(p)
  PROVE  IInv'
  <1>1. CASE Fail(p) /\ UNCHANGED <<file, durable, temp, history>>
    BY <1>1, FailIInv DEF Rename, disk, history
  <1>2. CASE ~(Fail(p) /\ UNCHANGED <<file, durable, temp, history>>)
    <2>1. /\ temp[p] = [text |-> next[p], synced |-> TRUE]
          /\ temp[p] \in Files /\ temp[p] # None
          /\ next[p] \in Prefs
          /\ folder # "missing"
      <3>1. at[p] = "rename" /\ next[p] \in Prefs
        BY DEF Rename, IInv, TypeOK
      <3>2. temp[p] = [text |-> next[p], synced |-> TRUE] /\ folder # "missing"
        BY <3>1 DEF IInv, ProcessInv, Staged, FolderMade
      <3>3. temp[p] \in Files
        BY <3>1, <3>2 DEF Files, Texts
      <3>4. QED
        BY <3>1, <3>2, <3>3, ConfigAssumption DEF Files, Texts
    <2>2. /\ file' = temp[p] /\ durable' = durable \cup {temp[p]}
          /\ temp' = [temp EXCEPT ![p] = None]
          /\ at' = [at EXCEPT ![p] = "settle"]
          /\ held' = held \cup {next[p]}
          /\ later' = [q \in Processes |->
                         IF q = p THEN {next[p]}
                         ELSE IF at[q] = "settle" THEN later[q] \cup {next[p]} ELSE {}]
          /\ pledged' = IF pledged = {} THEN {} ELSE pledged \cup {next[p]}
          /\ UNCHANGED <<next, folder, original, store, stray>>
      BY <1>2, <2>1 DEF Rename, Goto
    <2>3. TypeOK'
      <3>1. later' \in [Processes -> SUBSET Prefs]
        BY <2>1, <2>2 DEF IInv, TypeOK
      <3>2. at' \in [Processes -> Locations] /\ temp' \in [Processes -> Files \cup {None}]
        BY <2>1, <2>2 DEF IInv, TypeOK, Locations
      <3>3. held' \subseteq Texts /\ pledged' \subseteq Prefs /\ durable' \subseteq Files \cup {None}
        BY <2>1, <2>2 DEF IInv, TypeOK, Texts
      <3>4. \A q \in Processes : at'[q] \notin {"down", "idle", "cleanup"} <=> next'[q] # None
        BY <2>1, <2>2, ConfigAssumption DEF IInv, TypeOK
      <3>5. QED
        BY <2>1, <2>2, <3>1, <3>2, <3>3, <3>4 DEF IInv, TypeOK
    <2>4. MemoryWasOnDisk'
      BY <2>2 DEF IInv, MemoryWasOnDisk
    <2>5. DiskInv'
      <3>1. OriginalWhole' /\ FolderKnown' /\ FileKnown'
        BY <2>1, <2>2 DEF IInv, DiskInv, OriginalWhole, FolderKnown, FileKnown
      <3>2. WholeOrUntouched'
        BY <2>1, <2>2 DEF IInv, DiskInv, WholeOrUntouched
      <3>3. SavedSurvives'
        BY <2>1, <2>2 DEF IInv, DiskInv, SavedSurvives
      <3>4. QED
        BY <3>1, <3>2, <3>3 DEF DiskInv
    <2>6. ASSUME NEW q \in Processes
          PROVE  ProcessInv(q)'
      <3>1. Staged(q)' /\ FolderMade(q)' /\ StrayKnown(q)'
        BY <2>1, <2>2 DEF IInv, TypeOK, ProcessInv, Staged, FolderMade, StrayKnown
      <3>2. Settling(q)'
        BY <2>1, <2>2 DEF IInv, TypeOK, ProcessInv, Settling
      <3>3. QED
        BY <3>1, <3>2 DEF ProcessInv
    <2>7. QED
      BY <2>3, <2>4, <2>5, <2>6 DEF IInv
  <1>3. QED
    BY <1>1, <1>2

\* Syncing the folder leaves one file, which is among those that the process
\* accounts for; only now does its store change.
LEMMA SyncFolderIInv ==
  ASSUME IInv, NEW p \in Processes, SyncFolder(p)
  PROVE  IInv'
  <1>1. CASE Fail(p) /\ UNCHANGED <<durable, store, pledged>>
    BY <1>1, FailIInv DEF SyncFolder, disk
  <1>2. CASE ~(Fail(p) /\ UNCHANGED <<durable, store, pledged>>)
    <2>1. /\ at[p] = "settle" /\ at' = [at EXCEPT ![p] = "idle"]
          /\ durable' = {file}
          /\ store' = [store EXCEPT ![p] = [config |-> next[p], warning |-> FALSE]]
          /\ pledged' = IF folder # "kept" THEN pledged
                        ELSE IF pledged = {} THEN later[p]
                        ELSE pledged \cap later[p]
          /\ next' = [next EXCEPT ![p] = None]
          /\ later' = [later EXCEPT ![p] = {}]
          /\ UNCHANGED <<folder, file, original, temp, held, stray>>
      BY <1>2 DEF SyncFolder, Goto
    <2>2. /\ next[p] \in Prefs /\ next[p] \in held
          /\ file # None /\ file.text \in later[p]
          /\ temp[p] = None /\ folder # "missing"
      BY <2>1 DEF IInv, TypeOK, ProcessInv, Staged, Settling, FolderMade
    <2>3. TypeOK'
      <3>1. at' \in [Processes -> Locations] /\ later' \in [Processes -> SUBSET Prefs]
        BY <2>1 DEF IInv, TypeOK, Locations
      <3>2. store' \in [Processes -> [config : Prefs, warning : BOOLEAN]]
        BY <2>1, <2>2 DEF IInv, TypeOK
      <3>3. pledged' \subseteq Prefs /\ durable' \subseteq Files \cup {None}
        BY <2>1 DEF IInv, TypeOK
      <3>4. /\ next' \in [Processes -> Prefs \cup {None}]
            /\ \A q \in Processes : at'[q] \notin {"down", "idle", "cleanup"} <=> next'[q] # None
        BY <2>1 DEF IInv, TypeOK
      <3>5. QED
        BY <2>1, <3>1, <3>2, <3>3, <3>4 DEF IInv, TypeOK
    <2>4. MemoryWasOnDisk'
      BY <2>1, <2>2 DEF IInv, TypeOK, MemoryWasOnDisk
    <2>5. DiskInv'
      <3>1. OriginalWhole' /\ FolderKnown' /\ FileKnown'
        BY <2>1, <2>2 DEF IInv, DiskInv, OriginalWhole, FolderKnown, FileKnown
      <3>2. WholeOrUntouched'
        BY <2>1 DEF IInv, DiskInv, WholeOrUntouched
      <3>3. SavedSurvives'
        BY <2>1, <2>2 DEF IInv, DiskInv, SavedSurvives
      <3>4. QED
        BY <3>1, <3>2, <3>3 DEF DiskInv
    <2>6. ASSUME NEW q \in Processes
          PROVE  ProcessInv(q)'
      BY <2>1, <2>2
      DEF IInv, TypeOK, ProcessInv, Staged, Settling, FolderMade, StrayKnown
    <2>7. QED
      BY <2>3, <2>4, <2>5, <2>6 DEF IInv
  <1>3. QED
    BY <1>1, <1>2

\* A killed process leaves its temporary file, for a reason that is known.
LEMMA KillIInv ==
  ASSUME IInv, NEW p \in Processes, Kill(p)
  PROVE  IInv'
  <1> USE DEF Kill, Goto
  <1>1. DiskInv'
    BY DiskKept
  <1>2. TypeOK'
    BY ConfigAssumption DEF IInv, TypeOK, Locations, disk
  <1>3. MemoryWasOnDisk'
    BY DEF IInv, TypeOK, MemoryWasOnDisk
  <1>4. ASSUME NEW q \in Processes, q # p
        PROVE  ProcessInv(q)'
    BY <1>4, OthersKept DEF IInv, TypeOK, disk
  <1>5. ProcessInv(p)'
    <2>1. at'[p] = "down" /\ (temp'[p] # None => stray'[p] = "crash")
      BY DEF IInv, TypeOK
    <2>2. QED
      BY <2>1 DEF ProcessInv, Staged, Settling, StrayKnown, FolderMade
  <1>6. QED
    BY <1>1, <1>2, <1>3, <1>4, <1>5 DEF IInv

\* A file that was synced is found as it was.
SyncedFile(f) == f = None \/ (f \in Files /\ f.synced = TRUE)

LEMMA SyncedIsRecovered ==
  ASSUME NEW f, SyncedFile(f)
  PROVE  Recovered(f) = {f}
  <1>1. CASE f = None
    BY <1>1 DEF Recovered
  <1>2. CASE f # None
    <2>1. f \in Files /\ f.synced = TRUE
      BY <1>2 DEF SyncedFile
    <2>2. f = [text |-> f.text, synced |-> TRUE]
      BY <2>1 DEF Files
    <2>3. Recovered(f) = [text : {f.text}, synced : {TRUE}]
      BY <1>2, <2>1 DEF Recovered
    <2>4. ASSUME NEW g \in [text : {f.text}, synced : {TRUE}]
          PROVE  g = f
      <3>1. g.text = f.text /\ g.synced = TRUE
        OBVIOUS
      <3>2. g = [text |-> g.text, synced |-> g.synced]
        OBVIOUS
      <3>3. QED
        BY <3>1, <3>2, <2>2
    <2>5. f \in [text : {f.text}, synced : {TRUE}]
      <3>1. [text |-> f.text, synced |-> TRUE] \in [text : {f.text}, synced : {TRUE}]
        OBVIOUS
      <3>2. QED
        BY <2>2, <3>1, Zenon
    <2>6. f \in Recovered(f) /\ \A g \in Recovered(f) : g = f
      BY <2>3, <2>4, <2>5, Zenon
    <2>7. QED
      BY <2>6
  <1>3. QED
    BY <1>1, <1>2

LEMMA DurableSynced == IInv => \A f \in durable : SyncedFile(f)
  BY DEF IInv, DiskInv, TypeOK, WholeOrUntouched, OriginalWhole, SyncedFile

LEMMA RecoveredWhole ==
  ASSUME IInv, NEW f \in durable
  PROVE  Recovered(f) = {f}
  BY DurableSynced, SyncedIsRecovered

\* A loss of power leaves one of the files that could survive, or takes away a
\* folder that promised nothing.
LEMMA PowerLossIInv ==
  ASSUME IInv, PowerLoss
  PROVE  IInv'
  <1>1. \/ file' \in durable /\ folder' = IF folder = "made" THEN "kept" ELSE folder
        \/ folder = "made" /\ folder' = "missing" /\ file' = None
    BY RecoveredWhole DEF PowerLoss
  <1>2. durable' = {file'} /\ UNCHANGED <<original, held, pledged>>
    BY DEF PowerLoss
  <1>3. temp' \in [Processes -> Files \cup {None}]
    <2>1. [text |-> Torn, synced |-> TRUE] \in Files
      BY DEF Files, Texts
    <2>2. QED
      BY <2>1 DEF PowerLoss
  <1>4. /\ at' = [p \in Processes |-> "down"] /\ next' = [p \in Processes |-> None]
        /\ store' = [p \in Processes |-> [config |-> Default, warning |-> FALSE]]
        /\ later' = [p \in Processes |-> {}]
        /\ stray' = [p \in Processes |-> IF temp'[p] = None THEN "no" ELSE "crash"]
    BY DEF PowerLoss
  <1>5. TypeOK'
    BY <1>1, <1>2, <1>3, <1>4, ConfigAssumption DEF IInv, TypeOK, Locations
  <1>6. MemoryWasOnDisk'
    BY <1>4 DEF MemoryWasOnDisk
  <1>7. DiskInv'
    <2>1. OriginalWhole' /\ FolderKnown' /\ FileKnown'
      BY <1>1, <1>2 DEF IInv, DiskInv, TypeOK, OriginalWhole, FolderKnown, FileKnown
    <2>2. WholeOrUntouched'
      BY <1>1, <1>2 DEF IInv, DiskInv, FolderKnown, WholeOrUntouched
    <2>3. SavedSurvives'
      BY <1>1, <1>2 DEF IInv, DiskInv, FolderKnown, SavedSurvives
    <2>4. QED
      BY <2>1, <2>2, <2>3 DEF DiskInv
  <1>8. \A p \in Processes : ProcessInv(p)'
    BY <1>4 DEF ProcessInv, Staged, Settling, StrayKnown, FolderMade
  <1>9. QED
    BY <1>5, <1>6, <1>7, <1>8 DEF IInv

\* Every step keeps IInv.
LEMMA NextIInv == ASSUME IInv, [Next]_vars PROVE IInv'
  <1>1. CASE PowerLoss
    BY <1>1, PowerLossIInv
  <1>2. ASSUME NEW p \in Processes, Open(p) \/ Reload(p) \/ Save(p) \/ Kill(p)
        PROVE  IInv'
    BY <1>2, LoadIInv, BeginIInv, RemoveIInv, WriteIInv, RenameIInv, SyncFolderIInv, KillIInv
    DEF Save
  <1>3. CASE UNCHANGED vars
    <2>1. DiskInv'
      BY <1>3, DiskKept DEF vars, history
    <2>2. TypeOK' /\ MemoryWasOnDisk'
      BY <1>3 DEF IInv, TypeOK, MemoryWasOnDisk, vars, disk, history
    <2>3. \A p \in Processes : ProcessInv(p)'
      BY <1>3
      DEF IInv, ProcessInv, Staged, Settling, StrayKnown, FolderMade, vars, disk, history
    <2>4. QED
      BY <2>1, <2>2, <2>3 DEF IInv
  <1>4. QED
    BY <1>1, <1>2, <1>3 DEF Next

\* IInv holds throughout, whichever steps fail and whoever crashes.
THEOREM Inductive == Spec => []IInv
  BY InitIInv, NextIInv, PTL DEF Spec

------------------------------------------------------------------------------
\* Every variable keeps its type; a store holds valid preferences whatever the
\* file holds.
THEOREM TypeCorrect == Spec => []TypeOK
  <1>1. IInv => TypeOK
    BY DEF IInv
  <1>2. QED
    BY <1>1, Inductive, PTL

\* No reader ever meets part of a save, not even after a loss of power.
THEOREM AlwaysWhole == Spec => []WholeOrUntouched
  <1>1. IInv => WholeOrUntouched
    BY DEF IInv, DiskInv
  <1>2. QED
    BY <1>1, Inductive, PTL

\* What a successful update has saved outlives crashes until the next save.
THEOREM UpdatesLast == Spec => []SavedSurvives
  <1>1. IInv => SavedSurvives
    BY DEF IInv, DiskInv
  <1>2. QED
    BY <1>1, Inductive, PTL

\* Only a crash or a refused removal leaves a temporary file behind, and only
\* the latter leaves one in the way of the next save.
THEOREM LeftoversAccounted == Spec => []LeftoversExplained
  <1>1. IInv => LeftoversExplained
    BY DEF IInv, ProcessInv, StrayKnown, LeftoversExplained
  <1>2. QED
    BY <1>1, Inductive, PTL

\* A store never shows preferences that were never on disk.
THEOREM MemoryFollowsDisk == Spec => []MemoryWasOnDisk
  <1>1. IInv => MemoryWasOnDisk
    BY DEF IInv
  <1>2. QED
    BY <1>1, Inductive, PTL

------------------------------------------------------------------------------
\* As every file that may survive was synced, what survives are their texts.
TextsOf(files) == {TextOf(f) : f \in files}

LEMMA TextsRecovered ==
  ASSUME NEW files, \A f \in files : SyncedFile(f)
  PROVE  {TextOf(f) : f \in UNION {Recovered(g) : g \in files}} = TextsOf(files)
  <1>1. \A f \in files : Recovered(f) = {f}
    BY SyncedIsRecovered
  <1>2. UNION {Recovered(g) : g \in files} = files
    BY <1>1
  <1>3. QED
    BY <1>2 DEF TextsOf

LEMMA SurvivorsAreTexts ==
  ASSUME IInv
  PROVE  Survivors = TextsOf(durable) \cup (IF folder = "made" THEN {None} ELSE {})
  BY DurableSynced, TextsRecovered DEF Survivors

\* The same of the state after a step.
LEMMA SurvivorsAreTextsAfter ==
  ASSUME IInv'
  PROVE  Survivors' = TextsOf(durable') \cup (IF folder' = "made" THEN {None} ELSE {})
  <1>1. \A f \in durable' : SyncedFile(f)
    BY DEF IInv, DiskInv, TypeOK, WholeOrUntouched, OriginalWhole, SyncedFile
  <1>2. QED
    BY <1>1, TextsRecovered DEF Survivors

\* A step that leaves folder, file and durable alone cannot be told from outside.
LEMMA InvisibleSteps ==
  ASSUME UNCHANGED <<folder, file, durable>>
  PROVE  UNCHANGED Promise!fileVars
  BY DEF Promise!fileVars, TextOf, Survivors, Recovered

\* A rename puts preferences in place of what a reader found before, and adds
\* them to what may survive.
LEMMA RenameReplaces ==
  ASSUME IInv, IInv', NEW p \in Processes, Rename(p), ~UNCHANGED <<folder, file, durable>>
  PROVE  Promise!Replace(next[p]) /\ next[p] \in Prefs
  <1>1. /\ at[p] = "rename" /\ file' = temp[p] /\ durable' = durable \cup {temp[p]}
        /\ UNCHANGED folder
    BY DEF Rename
  <1>2. next[p] \in Prefs /\ temp[p].text = next[p] /\ temp[p] # None
    <2>1. at[p] = "rename" /\ temp[p] = [text |-> next[p], synced |-> TRUE]
      BY <1>1 DEF IInv, ProcessInv, Staged
    <2>2. next[p] \in Prefs
      BY <1>1 DEF IInv, TypeOK
    <2>3. temp[p] \in Files
      BY <2>1, <2>2 DEF Files, Texts
    <2>4. None \notin Files
      BY ConfigAssumption DEF Files, Texts
    <2>5. temp[p] # None
      BY <2>3, <2>4
    <2>6. temp[p].text = next[p]
      BY <2>1
    <2>7. QED
      BY <2>2, <2>5, <2>6
  <1>3. TextOf(file)' = next[p] /\ TextOf(temp[p]) = next[p]
    BY <1>1, <1>2 DEF TextOf
  <1>4. TextsOf(durable') = TextsOf(durable) \cup {next[p]}
    BY <1>1, <1>3 DEF TextsOf
  <1>5. Survivors' = Survivors \cup {next[p]}
    BY <1>1, <1>4, SurvivorsAreTexts, SurvivorsAreTextsAfter
  <1>6. QED
    BY <1>2, <1>3, <1>5 DEF Promise!Replace

\* Once the folder is synced, nothing survives but what a reader finds.
LEMMA SyncSettles ==
  ASSUME IInv, IInv', NEW p \in Processes, SyncFolder(p), ~UNCHANGED <<folder, file, durable>>
  PROVE  Promise!Settle
  <1>1. durable' = {file} /\ UNCHANGED <<folder, file>>
    BY DEF SyncFolder
  <1>2. file \in durable
    BY DEF IInv, DiskInv, FileKnown
  <1>3. TextsOf(durable') = {TextOf(file)} /\ TextOf(file) \in TextsOf(durable)
    BY <1>1, <1>2 DEF TextsOf, TextOf
  <1>4. TextOf(file)' = TextOf(file)
    BY <1>1 DEF TextOf
  <1>5. QED
    BY <1>1, <1>3, <1>4, SurvivorsAreTexts, SurvivorsAreTextsAfter DEF Promise!Settle

\* A loss of power leaves one of the texts that may survive.
LEMMA PowerLossLoses ==
  ASSUME IInv, IInv', PowerLoss
  PROVE  Promise!LosePower
  <1>1. /\ durable' = {file'} /\ folder' # "made"
        /\ \/ file' \in durable
           \/ folder = "made" /\ file' = None
    BY RecoveredWhole DEF PowerLoss, IInv, TypeOK
  <1>2. TextsOf(durable') = {TextOf(file)'}
    BY <1>1 DEF TextsOf
  <1>3. Survivors' = {TextOf(file)'}
    BY <1>1, <1>2, SurvivorsAreTexts, SurvivorsAreTextsAfter
  <1>4. TextOf(file)' \in Survivors
    <2>1. CASE file' \in durable
      BY <2>1, SurvivorsAreTexts DEF TextsOf, TextOf
    <2>2. CASE folder = "made" /\ file' = None
      BY <2>2, SurvivorsAreTexts DEF TextOf
    <2>3. QED
      BY <1>1, <2>1, <2>2
  <1>5. QED
    BY <1>3, <1>4 DEF Promise!LosePower

\* A new folder holds nothing yet, so that it may vanish changes nothing.
LEMMA FolderInvisible ==
  ASSUME IInv, IInv', NEW p \in Processes, MakeFolder(p)
  PROVE  UNCHANGED Promise!fileVars
  <1>1. UNCHANGED <<file, durable>> /\ (folder' = folder \/ (folder = "missing" /\ folder' = "made"))
    BY DEF MakeFolder
  <1>2. CASE folder = "missing" /\ folder' = "made"
    <2>1. durable = {None}
      BY <1>2 DEF IInv, DiskInv, FolderKnown
    <2>2. TextsOf(durable) = {None} /\ TextsOf(durable') = {None}
      BY <1>1, <2>1 DEF TextsOf, TextOf
    <2>3. Survivors' = Survivors
      BY <1>2, <2>2, SurvivorsAreTexts, SurvivorsAreTextsAfter
    <2>4. QED
      BY <1>1, <2>3 DEF Promise!fileVars, TextOf
  <1>3. QED
    BY <1>1, <1>2, InvisibleSteps

\* The save of store.rs, its errors and every crash behave as a file that is
\* replaced in one step.
THEOREM StoreImplementsSafeFile == Spec => ImplementsSafeFile
  <1>1. Init => Promise!FileInit
    <2> SUFFICES ASSUME Init PROVE Promise!FileInit
      OBVIOUS
    <2>1. IInv /\ durable = {file} /\ folder # "made"
      BY InitIInv DEF Init
    <2>2. Survivors = {TextOf(file)}
      BY <2>1, SurvivorsAreTexts DEF TextsOf
    <2>3. TextOf(file) \in Prefs \cup {Malformed, None}
      BY DEF Init, TextOf
    <2>4. QED
      BY <2>2, <2>3 DEF Promise!FileInit
  <1>2. ASSUME IInv, [Next]_vars
        PROVE  [Promise!FileNext]_(Promise!fileVars)
    <2>1. IInv'
      BY <1>2, NextIInv
    <2>2. CASE PowerLoss
      BY <1>2, <2>1, <2>2, PowerLossLoses DEF Promise!FileNext
    <2>3. ASSUME NEW p \in Processes, Open(p) \/ Reload(p) \/ Save(p) \/ Kill(p)
          PROVE  [Promise!FileNext]_(Promise!fileVars)
      <3>1. CASE UNCHANGED <<folder, file, durable>>
        BY <3>1, InvisibleSteps
      <3>2. CASE ~UNCHANGED <<folder, file, durable>>
        <4>1. Rename(p) \/ SyncFolder(p) \/ MakeFolder(p)
          BY <2>3, <3>2
          DEF Open, Reload, Save, Kill, BeginUpdate, ClearTemp, CreateTemp, WriteTemp, FlushTemp,
              Cleanup, disk
        <4>2. CASE Rename(p)
          BY <1>2, <2>1, <3>2, <4>2, RenameReplaces DEF Promise!FileNext
        <4>3. CASE SyncFolder(p)
          BY <1>2, <2>1, <3>2, <4>3, SyncSettles DEF Promise!FileNext
        <4>4. CASE MakeFolder(p)
          BY <1>2, <2>1, <4>4, FolderInvisible
        <4>5. QED
          BY <4>1, <4>2, <4>3, <4>4
      <3>3. QED
        BY <3>1, <3>2
    <2>4. CASE UNCHANGED vars
      BY <2>4, InvisibleSteps DEF vars, disk
    <2>5. QED
      BY <1>2, <2>2, <2>3, <2>4 DEF Next
  <1>3. QED
    BY <1>1, <1>2, Inductive, PTL DEF Spec, ImplementsSafeFile, Promise!FileSpec
==============================================================================
