------------------------------- MODULE Session -------------------------------
(***************************************************************************)
(* One run of the program (codediff/src/main.rs, ui/src/lib.rs and loom's  *)
(* run.rs and screen.rs): the preferences are read, the workers and the    *)
(* watcher are started, the signals are caught, the terminal is taken, and *)
(* one loop draws and answers what its queue holds until something ends    *)
(* it.  The input thread, the signal thread and the workers run beside it; *)
(* a panic of any of them runs the hook.                                   *)
(*                                                                         *)
(* What an event does to the components is module App's; here a key press  *)
(* counts only if it is bound to quitting.  The debug build's F5, the flag *)
(* that panics on purpose and Flow::Suspend, which nobody returns, are     *)
(* left out.                                                               *)
(***************************************************************************)
EXTENDS Settings, GitDirs

CONSTANTS
    Machines,   \* what a run may find: the option, the environment, the files of
                \* preferences, a folder of a tree, and where Git keeps what in it
    Presses,    \* the keys that may be pressed
    Signals,    \* the numbers of SIGTERM, SIGHUP and SIGQUIT
    MaxEvents   \* bound on the events of a run

\* A file that can be read has a document or not; where a document binds an
\* action, it gives a list of names (serde refuses anything else: malformed).
ASSUME SessionAssumption ==
    \A m \in Machines : \A path \in DOMAIN m.files : LET file == m.files[path] IN
        /\ file.kind \in {"missing", "unreadable", "malformed", "json"}
        /\ file.kind = "json" =>
              \A action \in Actions \cap DOMAIN file.document : file.document[action] \in Seq(STRING)

(* How Git lays a worktree out.  Its own directory holds a HEAD, the common one *)
(* the refs; they are one, or the own one of a linked worktree lies in the      *)
(* common one and pointer files lead from the root to it and from it back.      *)

\* What a path names once its ".." are resolved is a directory of Git's.
HoldsHead(tree, path) ==
    IsDir(tree, Canonical(path)) /\ IsFile(tree, Append(Canonical(path), "HEAD"))

\* A pointer names a directory, from the folder it is read against.
PointsTo(base, path, dir) == path # <<>> /\ Canonical(ResolveAgainst(base, path)) = dir

\* The root's .git is the own directory, or points to it: of a linked worktree and
\* of a submodule.
LeadsTo(tree, root, own) ==
    LET dotGit == Append(root, ".git")
        pointers == Pointers(tree[dotGit])
    IN  \/ IsDir(tree, dotGit) /\ Canonical(dotGit) = own
        \/ IsFile(tree, dotGit) /\ pointers # <<>> /\ PointsTo(root, Head(pointers).path, own)

LiesIn(own, common) ==
    Len(own) = Len(common) + 2 /\ IsPrefix(Append(common, "worktrees"), own)

Shares(tree, own, common) ==
    LET commondir == Append(own, "commondir")
    IN  \/ common = own /\ KindAt(tree, commondir) = "missing"
        \/ /\ LiesIn(own, common)
           /\ IsFile(tree, commondir)
           /\ PointsTo(own, tree[commondir].lines[1].path, common)

IsWorktree(tree, root, git) ==
    /\ git.own \in Seq(STRING) /\ git.common \in Seq(STRING)
    /\ IsDir(tree, git.own) /\ IsFile(tree, Append(git.own, "HEAD"))
    /\ IsDir(tree, git.common) /\ IsDir(tree, Append(git.common, "refs"))
    /\ LeadsTo(tree, root, git.own)
    /\ Shares(tree, git.own, git.common)

\* What is called .git here leads to no directory of Git's.
LeadsNowhere(tree, folder) ==
    LET dotGit == Append(folder, ".git")
        pointers == Pointers(tree[dotGit])
    IN  /\ IsDir(tree, dotGit) => ~HoldsHead(tree, dotGit)
        /\ IsFile(tree, dotGit) /\ pointers # <<>> /\ Head(pointers).path # <<>>
               => ~HoldsHead(tree, ResolveAgainst(folder, Head(pointers).path))

\* A folder lies in the worktree of the nearest folder above it that has one, with
\* no file called .git between them, or in none.
LaidOut(tree, folder, gits) ==
    \/ gits = {} /\ \A n \in 0..Len(folder) : LeadsNowhere(tree, SubSeq(folder, 1, n))
    \/ \E n \in 0..Len(folder) :
          /\ \E git \in gits : gits = {git} /\ IsWorktree(tree, SubSeq(folder, 1, n), git)
          /\ \A k \in (n + 1)..Len(folder) :
                /\ LeadsNowhere(tree, SubSeq(folder, 1, k))
                /\ ~IsFile(tree, Append(SubSeq(folder, 1, k), ".git"))

ASSUME LayoutAssumption ==
    \A m \in Machines :
       /\ m.folder \in Seq(STRING)
       /\ IF IsDir(m.tree, m.folder) THEN LaidOut(m.tree, m.folder, m.git)
          ELSE IF IsDir(m.tree, Front(m.folder)) THEN LaidOut(m.tree, Front(m.folder), m.git)
          ELSE m.git = {}

VARIABLES
    machine, at,
    preferences, warned,    \* the ConfigStore's config, and whether it warns
    keymap,
    watched,    \* the directories of Git, and the watches on them
    theme,      \* of the mounted provider
    extra,      \* further drawings behind the last event
    terminal,   \* what is switched on in it
    hook,       \* whether the panic hook is installed
    handlers,   \* whether the signals are caught
    queue,      \* the channel of the events
    raised,     \* the signals that are caught and not yet sent
    input,      \* whether the input thread reads
    workers,    \* whether all of the workers and the watcher are alive
    events,     \* how many events there were (the model's own)
    ending,     \* history: how the run ended
    code        \* the exit code

setup == <<machine, preferences, warned, keymap, watched>>
drawn == <<theme, extra>>
caught == <<hook, handlers>>
threads == <<raised, input, workers, events>>
vars == <<setup, drawn, caught, threads, at, terminal, queue, ending, code>>

ExtraDrawings == 4

Modes == {"raw", "alternate", "mouse", "hidden", "synced"}
Free == [mode \in Modes |-> FALSE]

\* A mutant: a synchronized update that was begun is not ended.
RestoredButSynced(modes) ==
    [modes EXCEPT !["hidden"] = FALSE, !["mouse"] = FALSE, !["alternate"] = FALSE, !["raw"] = FALSE]

\* Errors are ignored: what fails keeps none of the others from being ended.
Restored(modes) ==
    [modes EXCEPT !["synced"] = FALSE, !["hidden"] = FALSE, !["mouse"] = FALSE,
                  !["alternate"] = FALSE, !["raw"] = FALSE]

Desynced(modes) == [modes EXCEPT !["synced"] = FALSE]

FileAt(path) ==
    IF path \in DOMAIN machine.files THEN machine.files[path] ELSE [kind |-> "missing"]

TypeOK ==
    /\ machine \in Machines
    /\ at \in {"config", "keys", "workers", "repository", "signals", "hook", "raw", "alternate",
               "mouse", "hidden", "open", "input", "draw", "drawing", "receive", "respond",
               "leave", "ended"}
    /\ DOMAIN preferences = DOMAIN DefaultConfig
    /\ {warned, hook, handlers, input, workers} \subseteq BOOLEAN
    /\ DOMAIN keymap = Actions
    /\ watched.at.ok \in BOOLEAN
    /\ theme \in ThemeNames \cup {""}
    /\ extra \in 0..ExtraDrawings
    /\ terminal \in [Modes -> BOOLEAN]
    /\ raised \subseteq Signals
    /\ events \in 0..MaxEvents
    /\ ending \in {"", "quit", "error", "refused", "signal", "panic", "interrupted"}
    /\ code \in 0..255

-----------------------------------------------------------------------------
(* The end *)

Ends(how, number) ==
    /\ at' = "ended"
    /\ ending' = how
    /\ code' = number
    /\ UNCHANGED <<setup, drawn, caught, threads, queue>>

\* An error before there is a Screen: nothing gives back what may be taken.
Fail(how) == Ends(how, 1) /\ UNCHANGED terminal

\* loom::restore, by the Screen that is dropped or for a signal.
Leave(how, number, modes) == Ends(how, number) /\ terminal' = Restored(modes)

GoTo(next) == at' = next /\ UNCHANGED <<ending, code>>

-----------------------------------------------------------------------------
(* Starting *)

OpenConfig ==
    /\ at = "config"
    /\ LET path == Resolve(machine.option, machine.environment)
           loaded == Load(FileAt(path))
       IN  \/ (path = <<>> \/ loaded.fails) /\ Fail("error")
           \/ /\ path # <<>> /\ ~loaded.fails
              /\ preferences' = loaded.config
              /\ warned' = loaded.warned
              /\ GoTo("keys")
              /\ UNCHANGED <<machine, keymap, watched, drawn, caught, threads, terminal, queue>>

ParseKeys ==
    /\ at = "keys"
    /\ \/ ~Accepted(preferences) /\ Fail("error")
       \/ /\ Accepted(preferences)
          /\ keymap' = KeyMap(preferences)
          /\ GoTo("workers")
          /\ UNCHANGED <<machine, preferences, warned, watched, drawn, caught, threads, terminal, queue>>

StartWorkers ==
    /\ at = "workers"
    /\ workers' = TRUE
    /\ GoTo("repository")
    /\ UNCHANGED <<setup, drawn, caught, raised, input, events, terminal, queue>>

\* Whatever happens to the tree later, it is asked once.
DirectoriesOf == [from \in Machines |-> Directories(from.tree, from.folder)]

NotWatched == [at |-> [ok |-> FALSE], watches |-> {}]

\* The folder may lie in no repository, its pointers may be broken, and a watch
\* may be refused: then the program ends before it has the terminal.
Watch ==
    /\ at = "repository"
    /\ \E directories \in {DirectoriesOf[machine]} :
           \/ Fail("error")
           \/ /\ directories.ok
              /\ watched' = [at |-> directories, watches |-> GitScope(machine.tree, directories)]
              /\ GoTo("signals")
              /\ UNCHANGED <<machine, preferences, warned, keymap, drawn, caught, threads, terminal,
                             queue>>

SpawnSignals ==
    /\ at = "signals"
    /\ handlers' = TRUE
    /\ GoTo("hook")
    /\ UNCHANGED <<setup, drawn, hook, threads, terminal, queue>>

InstallPanicHook ==
    /\ at = "hook"
    /\ hook' = TRUE
    /\ GoTo("raw")
    /\ UNCHANGED <<setup, drawn, handlers, threads, terminal, queue>>

\* Each switch may fail: its error is returned and the ones before it stay on.
Take(mode, next) ==
    /\ at = mode
    /\ \/ Fail("refused")
       \/ /\ terminal' = [terminal EXCEPT ![mode] = TRUE]
          /\ GoTo(next)
          /\ UNCHANGED <<setup, drawn, caught, threads, queue>>

\* Terminal::new asks for the size; there is no Screen yet that could be dropped.
OpenScreen ==
    /\ at = "open"
    /\ \/ Fail("refused")
       \/ GoTo("input") /\ UNCHANGED <<setup, drawn, caught, threads, terminal, queue>>

SpawnInput ==
    /\ at = "input"
    /\ input' = TRUE
    /\ GoTo("draw")
    /\ UNCHANGED <<setup, drawn, caught, raised, workers, events, terminal, queue>>

Start ==
    \/ OpenConfig \/ ParseKeys \/ StartWorkers \/ Watch \/ SpawnSignals \/ InstallPanicHook
    \/ Take("raw", "alternate") \/ Take("alternate", "mouse") \/ Take("mouse", "hidden")
    \/ Take("hidden", "open") \/ OpenScreen \/ SpawnInput

-----------------------------------------------------------------------------
(* The loop *)

BeginDrawing ==
    /\ at = "draw"
    /\ \/ Leave("error", 1, terminal)
       \/ /\ terminal' = [terminal EXCEPT !["synced"] = TRUE]
          /\ GoTo("drawing")
          /\ UNCHANGED <<setup, drawn, caught, threads, queue>>

\* The provider chooses the theme when the first drawing mounts it.
Themed ==
    IF theme = "" THEN ConfiguredTheme(preferences.theme, machine.environment) ELSE theme

EndDrawing ==
    /\ at = "drawing"
    /\ \/ Leave("error", 1, Desynced(terminal))
       \/ /\ theme' = Themed
          /\ terminal' = Desynced(terminal)
          /\ \/ extra < ExtraDrawings /\ extra' = extra + 1 /\ GoTo("draw")
             \/ extra' = 0 /\ GoTo("receive")
          /\ UNCHANGED <<setup, caught, threads, queue>>

\* It waits for an event; the loop holds a sender, so the channel is never closed.
Receive ==
    /\ at = "receive"
    /\ queue # <<>>
    /\ GoTo("respond")
    /\ UNCHANGED <<setup, drawn, caught, threads, terminal, queue>>

Quits(event) == event.kind = "press" /\ Matches(keymap, "quit", event.key)

\* A component on the way to the root may be bound to the same key and stop it.
MayStop(key) == \E action \in Actions \ {"quit"} : Matches(keymap, action, key)

\* A mutant: what is queued is taken for one event.
RestAfterNewest(queued) == <<>>

Rest(queued) == Tail(queued)

\* What is queued is answered before the next drawing.
Respond ==
    /\ at = "respond"
    /\ \/ /\ Head(queue).kind = "signal"
          /\ Leave("signal", 128 + Head(queue).signal, terminal)
       \/ /\ Quits(Head(queue))
          /\ queue' = Rest(queue)
          /\ GoTo("leave")
          /\ UNCHANGED <<setup, drawn, caught, threads, terminal>>
       \/ /\ Head(queue).kind # "signal"
          /\ Quits(Head(queue)) => MayStop(Head(queue).key)
          /\ queue' = Rest(queue)
          /\ GoTo(IF Rest(queue) = <<>> THEN "draw" ELSE "respond")
          /\ UNCHANGED <<setup, drawn, caught, threads, terminal>>

Return == at = "leave" /\ Leave("quit", 0, terminal)

Loop == BeginDrawing \/ EndDrawing \/ Receive \/ Respond \/ Return

Main == Start \/ Loop

\* Anything that main calls may panic: the hook, then the Screen, restore the terminal.
MainPanics ==
    /\ at \notin {"config", "ended"}
    /\ Ends("panic", 101)
    /\ terminal' = IF hook THEN Restored(terminal) ELSE terminal

-----------------------------------------------------------------------------
(* The threads beside it *)

Send(event) == queue' = Append(queue, event)

Happen == at # "ended" /\ events < MaxEvents /\ events' = events + 1

\* A key, or anything else the terminal reports.
Input ==
    /\ Happen /\ input
    /\ \/ \E key \in Presses : Send([kind |-> "press", key |-> key])
       \/ Send([kind |-> "other"])
    /\ UNCHANGED <<setup, drawn, caught, raised, input, workers, at, terminal, ending, code>>

\* The thread ends with the first error, and nobody is told.
InputFails ==
    /\ Happen /\ input /\ input' = FALSE
    /\ UNCHANGED <<setup, drawn, caught, raised, workers, at, terminal, queue, ending, code>>

\* A worker or the watcher answers.
WorkerSends ==
    /\ Happen /\ workers /\ Send([kind |-> "other"])
    /\ UNCHANGED <<setup, drawn, caught, raised, input, workers, at, terminal, ending, code>>

\* The hook knows nothing of threads: the terminal is given back, the loop goes on.
WorkerPanics ==
    /\ Happen /\ workers /\ workers' = FALSE
    /\ terminal' = IF hook THEN Restored(terminal) ELSE terminal
    /\ UNCHANGED <<setup, drawn, caught, raised, input, at, queue, ending, code>>

\* A signal that is not caught ends the program where it is.
Signal(signal) ==
    \/ /\ Happen /\ handlers
       /\ raised' = raised \cup {signal}
       /\ UNCHANGED <<setup, drawn, caught, input, workers, at, terminal, queue, ending, code>>
    \/ /\ at # "ended" /\ ~handlers
       /\ Ends("signal", 128 + signal)
       /\ UNCHANGED terminal

SignalThread ==
    /\ at # "ended"
    /\ \E signal \in raised :
          /\ raised' = raised \ {signal}
          /\ Send([kind |-> "signal", signal |-> signal])
    /\ UNCHANGED <<setup, drawn, caught, input, workers, events, at, terminal, ending, code>>

\* SIGINT is nobody's: in raw mode the key does not send it, another process may.
Interrupt ==
    /\ at # "ended"
    /\ Ends("interrupted", 130)
    /\ UNCHANGED terminal

Outside ==
    \/ Input \/ InputFails \/ WorkerSends \/ WorkerPanics \/ SignalThread \/ Interrupt
    \/ \E signal \in Signals : Signal(signal)

Init ==
    /\ machine \in Machines
    /\ at = "config"
    /\ preferences = DefaultConfig
    /\ warned = FALSE
    /\ keymap = [action \in Actions |-> {}]
    /\ watched = NotWatched
    /\ theme = ""
    /\ extra = 0
    /\ terminal = Free
    /\ hook = FALSE
    /\ handlers = FALSE
    /\ queue = <<>>
    /\ raised = {}
    /\ input = FALSE
    /\ workers = FALSE
    /\ events = 0
    /\ ending = ""
    /\ code = 0

Next == Main \/ MainPanics \/ Outside

Spec == Init /\ [][Next]_vars

\* The loop runs whenever it can, and so does the thread that passes signals on.
FairSpec == Spec /\ WF_vars(Main) /\ WF_vars(SignalThread)

-----------------------------------------------------------------------------
(* Properties *)

\* However the program ends, by quitting, by an error in the loop, by a panic in
\* the middle of a drawing or by a signal it catches, every mode it switched on in
\* the terminal is off again; and it touches the terminal only behind the hook and
\* the handlers that make this so.  Two endings are left out: a terminal that
\* refuses half-way (screen.rs, take), and SIGINT, which is not caught.
TerminalIsGivenBack ==
    /\ at = "ended" /\ ending \notin {"refused", "interrupted"} => terminal = Free
    /\ terminal # Free => hook /\ handlers

\* A signal that was raised ends the program, and so does a pressed key that is
\* bound to quitting and to nothing else, however many events are queued in front
\* of it and however often a drawing asks for another one.
RequestsEnd ==
    /\ \A signal \in Signals : signal \in raised ~> at = "ended"
    /\ (\E i \in DOMAIN queue : Quits(queue[i]) /\ ~MayStop(queue[i].key)) ~> at = "ended"

\* The sources of the path, the first that is given wins.
Sources == <<machine.option,
             IF Given(machine.environment, "CODEDIFF_CONFIG")
             THEN <<machine.environment["CODEDIFF_CONFIG"]>> ELSE <<>>,
             DefaultPath(machine.environment)>>

\* A session that has the terminal was started with the file the first given source
\* names: each field is the file's or its default, or, if the file cannot be used
\* as a whole, all are defaults and the user was warned; never a mixture.  By then
\* every action has a key, so the program can be left, and what is drawn has a
\* theme, the one asked for if it exists.
SettingsFollowTheFile ==
    terminal # Free =>
        /\ \E i \in DOMAIN Sources :
              /\ Sources[i] # <<>>
              /\ \A j \in 1..(i - 1) : Sources[j] = <<>>
              /\ LET file == FileAt(Sources[i]) IN
                 IF warned
                 THEN file.kind # "missing" /\ preferences = DefaultConfig
                 ELSE \A field \in DOMAIN preferences :
                         preferences[field] = IF file.kind = "json" /\ field \in DOMAIN file.document
                                              THEN file.document[field]
                                              ELSE DefaultConfig[field]
        /\ \A action \in Actions : keymap[action] # {}
        /\ theme # "" /\ preferences.theme \in ThemeNames => theme = preferences.theme

\* What Git writes as the user works, and what of the review is then stale.
WritesOf(git) ==
    {<<git.own \o <<"index">>, "index">>, <<git.own \o <<"HEAD">>, "head">>,
     <<git.own \o <<"MERGE_HEAD">>, "index">>,
     <<git.common \o <<"refs", "heads", "main">>, "refs">>,
     <<git.common \o <<"packed-refs">>, "refs">>}

\* A session that has the terminal hears of everything Git writes for this very
\* worktree, wherever a linked one keeps its own HEAD and index and the refs that
\* it shares, and of no lock that Git takes for it.
GitIsHeard ==
    terminal # Free =>
        /\ machine.git # {}
        /\ \A git \in machine.git :
              /\ \A write \in WritesOf(git) :
                    /\ IsSeen(watched.watches, write[1])
                    /\ RefreshForPath(watched.at, write[1]) = {write[2]}
              /\ RefreshForPath(watched.at, git.own \o <<"index.lock">>) = {}

\* What is started is what the machine asks for.
StartFollowsTheMachine == SettingsFollowTheFile /\ GitIsHeard

=============================================================================
