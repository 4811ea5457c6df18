------------------------------ MODULE MCWatcher ------------------------------
(***************************************************************************)
(* Directories below the root that come and go, one rule that names `a`    *)
(* wherever it stands above it, in rule files that come, change and go,    *)
(* and queues of one event, so that every second event meets a full queue. *)
(***************************************************************************)
EXTENDS Watcher

CONSTANT a

\* Every directory lies in the root.
Flat == [d \in Dirs |-> Root]

\* The rule is the name of `a`, which is below the root and below no directory;
\* info/exclude is read as standing in the root.
NameOfA == [r \in Rules |-> [p \in Places |-> IF p \in {Root, Info} THEN {a} ELSE {}]]
==============================================================================
