----------------------------- MODULE SessionProofs -----------------------------
(***************************************************************************)
(* For every machine, key and signal, and for any number of events, the    *)
(* program gives the terminal back however it ends, and a session that has *)
(* the terminal has the settings of the file that the machine names and    *)
(* hears of what Git writes for its worktree.                              *)
(*                                                                         *)
(* TerminalIsGivenBack is not inductive: an error, a panic or a signal may *)
(* come at any step, and what it leaves depends on where the program is.   *)
(* So the invariant says of each place how far the start has come: nothing *)
(* of the terminal is switched on where an error leaves without a Screen   *)
(* (TakenBehindBoth), and the hook and the handlers are there at every     *)
(* place behind those that make them.                                      *)
(*                                                                         *)
(* SettingsFollowTheFile needs to know by which place of main each setting *)
(* is there, and that the terminal and the theme come behind them          *)
(* (Settled).                                                              *)
(*                                                                         *)
(* GitIsHeard says what directories are found, and what the watches on     *)
(* them see, for worktrees that are laid out as Git does it                *)
(* (LayoutAssumption).  Watching says where main is by when they are       *)
(* watched; the rest is the way from a folder to its worktree              *)
(* (FolderFinds, DirectoriesAreGits) and from a path that Git writes back  *)
(* to what it makes stale (WritesAreHeard).                                *)
(***************************************************************************)
EXTENDS Session, TLAPS

\* Where main is before it has caught signals and panics.
Unprotected == {"config", "keys", "workers", "repository"}

\* Where main is with a terminal that it has begun to take, or has given back.
Protected == {"raw", "alternate", "mouse", "hidden", "open", "input", "draw", "drawing",
              "receive", "respond", "leave"}

TakenBehindBoth ==
    /\ at \in Unprotected \cup Protected \cup {"signals", "hook", "ended"}
    /\ at = "hook" => handlers
    /\ at \in Protected => hook /\ handlers
    /\ at \in Unprotected \cup {"signals", "hook"} => terminal = Free

IInv ==
    /\ terminal \in [Modes -> BOOLEAN]
    /\ TakenBehindBoth
    /\ TerminalIsGivenBack

--------------------------------------------------------------------------------
\* restore switches everything off, whatever was on.
LEMMA RestoredIsFree == ASSUME NEW modes \in [Modes -> BOOLEAN] PROVE Restored(modes) = Free
  BY DEF Restored, Free, Modes

\* To switch one mode on or off gives a function of the modes again.
LEMMA SwitchedModes ==
  ASSUME NEW modes \in [Modes -> BOOLEAN], NEW mode, NEW on \in BOOLEAN
  PROVE [modes EXCEPT ![mode] = on] \in [Modes -> BOOLEAN]
  OBVIOUS

\* A way out at which the terminal is free keeps IInv.
LEMMA EndsFree ==
  ASSUME IInv, NEW how, NEW number, Ends(how, number), terminal' = Free
  PROVE IInv'
  BY DEF IInv, Ends, caught, TakenBehindBoth, TerminalIsGivenBack, Protected, Unprotected, Free

\* main's error before the terminal is touched, or in the middle of taking it.
LEMMA FailIInv ==
  ASSUME IInv, NEW how, Fail(how), at \in Unprotected \/ how = "refused"
  PROVE IInv'
  BY DEF IInv, Fail, Ends, caught, TakenBehindBoth, TerminalIsGivenBack, Protected, Unprotected

\* loom::restore on the way out, from a terminal in any state.
LEMMA LeaveIInv ==
  ASSUME IInv, NEW how, NEW number, NEW modes \in [Modes -> BOOLEAN], Leave(how, number, modes)
  PROVE IInv'
  BY RestoredIsFree, EndsFree DEF Leave

\* The program starts with the terminal as it was.
LEMMA InitIInv == Init => IInv
  BY DEF Init, IInv, TakenBehindBoth, TerminalIsGivenBack, Protected, Unprotected, Free

\* The steps up to the loop: each place is reached from the one before it only,
\* and the terminal is taken behind the handlers and the hook.
LEMMA StartIInv == ASSUME IInv, Start PROVE IInv'
  <1> USE DEF IInv, TakenBehindBoth, TerminalIsGivenBack, Protected, Unprotected, GoTo, setup,
              drawn, caught, threads
  <1>1. CASE OpenConfig
    <2>1. CASE Fail("error")
      BY <1>1, <2>1, FailIInv DEF OpenConfig
    <2>2. CASE ~Fail("error")
      BY <1>1, <2>2 DEF OpenConfig
    <2> QED BY <2>1, <2>2
  <1>2. CASE ParseKeys
    <2>1. CASE Fail("error")
      BY <1>2, <2>1, FailIInv DEF ParseKeys
    <2>2. CASE ~Fail("error")
      BY <1>2, <2>2 DEF ParseKeys
    <2> QED BY <2>1, <2>2
  <1>3. CASE StartWorkers
    BY <1>3 DEF StartWorkers
  <1>4. CASE Watch
    <2>1. CASE Fail("error")
      BY <1>4, <2>1, FailIInv DEF Watch
    <2>2. CASE ~Fail("error")
      BY <1>4, <2>2 DEF Watch
    <2> QED BY <2>1, <2>2
  <1>5. CASE SpawnSignals
    BY <1>5 DEF SpawnSignals
  <1>6. CASE InstallPanicHook
    BY <1>6 DEF InstallPanicHook
  <1>7. ASSUME NEW mode, NEW next, Take(mode, next),
               mode \in {"raw", "alternate", "mouse", "hidden"},
               next \in {"alternate", "mouse", "hidden", "open"}
        PROVE IInv'
    <2>1. CASE Fail("refused")
      BY <2>1, FailIInv
    <2>2. CASE ~Fail("refused")
      <3>1. at = mode /\ terminal' = [terminal EXCEPT ![mode] = TRUE] /\ at' = next
            /\ UNCHANGED <<hook, handlers>>
        BY <1>7, <2>2 DEF Take
      <3>2. terminal' \in [Modes -> BOOLEAN]
        BY <3>1, SwitchedModes
      <3> QED BY <1>7, <3>1, <3>2
    <2> QED BY <2>1, <2>2
  <1>8. CASE OpenScreen
    <2>1. CASE Fail("refused")
      BY <2>1, FailIInv
    <2>2. CASE ~Fail("refused")
      BY <1>8, <2>2 DEF OpenScreen
    <2> QED BY <2>1, <2>2
  <1>9. CASE SpawnInput
    BY <1>9 DEF SpawnInput
  <1> QED
    BY <1>1, <1>2, <1>3, <1>4, <1>5, <1>6, <1>7, <1>8, <1>9 DEF Start

\* The loop: a drawing begins and ends a synchronized update, and every way out
\* goes through restore.
LEMMA LoopIInv == ASSUME IInv, Loop PROVE IInv'
  <1> USE DEF IInv, TakenBehindBoth, TerminalIsGivenBack, Protected, Unprotected, GoTo, setup,
              drawn, caught, threads
  <1>1. Desynced(terminal) \in [Modes -> BOOLEAN]
    BY SwitchedModes DEF Desynced
  <1>2. CASE BeginDrawing
    <2>1. CASE Leave("error", 1, terminal)
      BY <2>1, LeaveIInv
    <2>2. CASE ~Leave("error", 1, terminal)
      BY <1>2, <2>2, SwitchedModes DEF BeginDrawing
    <2> QED BY <2>1, <2>2
  <1>3. CASE EndDrawing
    <2>1. CASE Leave("error", 1, Desynced(terminal))
      BY <1>1, <2>1, LeaveIInv
    <2>2. CASE ~Leave("error", 1, Desynced(terminal))
      BY <1>1, <1>3, <2>2 DEF EndDrawing
    <2> QED BY <2>1, <2>2
  <1>4. CASE Receive
    BY <1>4 DEF Receive
  <1>5. CASE Respond
    <2>1. CASE Leave("signal", 128 + Head(queue).signal, terminal)
      BY <2>1, LeaveIInv
    <2>2. CASE ~Leave("signal", 128 + Head(queue).signal, terminal)
      <3>1. at = "respond" /\ at' \in {"leave", "draw", "respond"}
            /\ UNCHANGED <<hook, handlers, terminal>>
        BY <1>5, <2>2 DEF Respond
      <3> QED BY <3>1
    <2> QED BY <2>1, <2>2
  <1>6. CASE Return
    BY <1>6, LeaveIInv DEF Return
  <1> QED
    BY <1>2, <1>3, <1>4, <1>5, <1>6 DEF Loop

\* A panic anywhere in main: behind the hook it restores, before it there is
\* nothing to restore.
LEMMA PanicIInv == ASSUME IInv, MainPanics PROVE IInv'
  <1>1. terminal' = Free
    BY RestoredIsFree DEF MainPanics, IInv, TerminalIsGivenBack
  <1> QED
    BY <1>1, EndsFree DEF MainPanics

\* What happens beside main: only a panic and a signal that nobody catches touch
\* the terminal or end the program, and SIGINT.
LEMMA OutsideIInv == ASSUME IInv, Outside PROVE IInv'
  <1> USE DEF IInv, TakenBehindBoth, TerminalIsGivenBack, Protected, Unprotected, setup, drawn,
              caught, threads, Happen
  <1>1. CASE Input \/ InputFails \/ WorkerSends \/ SignalThread
    BY <1>1 DEF Input, InputFails, WorkerSends, SignalThread
  <1>2. CASE WorkerPanics
    <2>1. terminal' = Free
      BY <1>2, RestoredIsFree DEF WorkerPanics
    <2> QED
      BY <1>2, <2>1 DEF WorkerPanics, Free
  <1>3. CASE Interrupt
    BY <1>3 DEF Interrupt, Ends
  <1>4. ASSUME NEW signal \in Signals, Signal(signal) PROVE IInv'
    <2>1. CASE handlers
      BY <1>4, <2>1 DEF Signal
    <2>2. CASE ~handlers
      <3>1. terminal' = Free /\ Ends("signal", 128 + signal)
        BY <1>4, <2>2 DEF Signal
      <3> QED BY <3>1, EndsFree
    <2> QED BY <2>1, <2>2
  <1> QED
    BY <1>1, <1>2, <1>3, <1>4 DEF Outside

\* IInv holds throughout, for any constants whatever.
LEMMA Inductive == Spec => []IInv
  <1>1. ASSUME IInv, [Next]_vars PROVE IInv'
    <2>1. CASE UNCHANGED vars
      BY <1>1, <2>1 DEF vars, setup, drawn, caught, threads, IInv, TakenBehindBoth,
         TerminalIsGivenBack
    <2> QED
      BY <1>1, <2>1, StartIInv, LoopIInv, PanicIInv, OutsideIInv DEF Next, Main
  <1> QED
    BY <1>1, InitIInv, PTL DEF Spec

\* However the program ends, by quitting, an error in the loop, a panic at any
\* step or a signal it catches, every mode it had switched on is off again, and
\* it touches the terminal only behind the panic hook and the signal handlers
\* (main.rs, lib.rs, run.rs, screen.rs).
THEOREM TerminalGivenBack == Spec => []TerminalIsGivenBack
  BY Inductive, PTL DEF IInv

--------------------------------------------------------------------------------
(* The settings *)

\* The file of the preferences that a machine names.
Path(m) == Resolve(m.option, m.environment)
FileOf(m) == IF Path(m) \in DOMAIN m.files THEN m.files[Path(m)] ELSE [kind |-> "missing"]

\* The preferences p, and whether the user is warned, are those of the machine m.
Read(m, p, w) ==
    /\ m \in Machines
    /\ Path(m) # <<>>
    /\ ~Load(FileOf(m)).fails
    /\ p = Load(FileOf(m)).config
    /\ w = Load(FileOf(m)).warned

\* And the keys k are those that they bind.
Parsed(m, p, w, k) == Read(m, p, w) /\ Accepted(p) /\ k = KeyMap(p)

\* Behind the places where they are read and where they are parsed nothing changes
\* them any more, and the terminal and the theme are taken only there.
Settled ==
    /\ machine \in Machines
    /\ at \notin {"config", "ended"} => Read(machine, preferences, warned)
    /\ at \notin {"config", "keys", "ended"} \/ terminal # Free \/ theme # ""
           => Parsed(machine, preferences, warned, keymap)
    /\ at \in {"config", "keys"} => theme = ""
    /\ theme # "" => theme = ConfiguredTheme(preferences.theme, machine.environment)

LInv == IInv /\ Settled

\* What is filled has the document's fields and, besides, those of the defaults.
LEMMA FilledFields ==
  \A d, e: /\ DOMAIN Filled(d, e) = DOMAIN d \cup DOMAIN e
           /\ \A field: /\ field \in DOMAIN d => Filled(d, e)[field] = d[field]
                        /\ field \in DOMAIN e /\ field \notin DOMAIN d =>
                                Filled(d, e)[field] = e[field]
  BY DEF Filled

\* By default every action has a name.
LEMMA DefaultLists ==
  ASSUME NEW action \in Actions
  PROVE  /\ action \in DOMAIN DefaultConfig
         /\ 1 \in DOMAIN DefaultConfig[action]
  <1>1. /\ action \in DOMAIN DefaultKeys
        /\ 1 \in DOMAIN DefaultKeys[action]
    <2>2. Actions = {"quit", "move_down", "move_up", "open", "toggle_layout", "toggle_wrap",
                     "toggle_explorer_mode", "stage", "focus_next", "focus_previous", "move_left",
                     "move_right", "start", "end"}
      BY DEF Actions, DefaultKeys
    <2>3. DefaultKeys[action] \in {<<"q">>, <<"j", "down">>, <<"k", "up">>, <<"enter">>, <<"t">>,
                                  <<"w">>, <<"i">>, <<"space">>, <<"right">>, <<"left">>, <<"h">>,
                                  <<"l">>, <<"0">>, <<"$">>}
      BY <2>2 DEF DefaultKeys
    <2>4. action \in DOMAIN DefaultKeys
      BY DEF Actions
    <2> QED BY <2>3, <2>4
  <1>2. action \notin DOMAIN DefaultInterface \cup DOMAIN DefaultComparison \cup {"version"}
    BY DEF Actions, DefaultKeys, DefaultInterface, DefaultComparison
  <1>3. DOMAIN [version |-> CurrentVersion] = {"version"}
    OBVIOUS
  <1> DEFINE rest == Filled(DefaultComparison, DefaultKeys)
             all == Filled(DefaultInterface, rest)
  <1>4. action \in DOMAIN rest /\ rest[action] = DefaultKeys[action]
    BY <1>1, <1>2 DEF Filled
  <1>5. action \in DOMAIN all /\ all[action] = DefaultKeys[action]
    <2> HIDE DEF rest
    <2> QED BY <1>2, <1>4 DEF Filled
  <1>6. DefaultConfig = Filled([version |-> CurrentVersion], all)
    BY DEF DefaultConfig
  <1> HIDE DEF all
  <1>7. action \in DOMAIN DefaultConfig /\ DefaultConfig[action] = DefaultKeys[action]
    BY <1>2, <1>3, <1>5, <1>6 DEF Filled
  <1> QED BY <1>1, <1>7

\* The preferences of a machine's file bind every action, to no empty list.
LEMMA EveryActionBound ==
  ASSUME NEW m, NEW p, NEW w, Read(m, p, w), NEW action \in Actions
  PROVE  1 \in DOMAIN p[action]
  <1>1. CASE p = DefaultConfig
    BY <1>1, DefaultLists
  <1>2. CASE p # DefaultConfig
    <2> DEFINE file == FileOf(m)
    <2>1. /\ file.kind = "json" /\ p = Filled(file.document, DefaultConfig)
          /\ Valid(p)
      <3>1. file.kind \in {"missing", "unreadable", "malformed", "json"}
        BY SessionAssumption DEF Read, FileOf
      <3>2. p = Load(file).config
        BY DEF Read
      <3> HIDE DEF file
      <3> QED BY <1>2, <3>1, <3>2 DEF Load, Decoded
    <2>2. Path(m) \in DOMAIN m.files /\ file = m.files[Path(m)]
      BY <2>1 DEF FileOf
    <2>3. action \in DOMAIN file.document => file.document[action] \in Seq(STRING)
      BY <2>1, <2>2, SessionAssumption DEF Read
    <2>4. p[action] # <<>>
      BY <2>1 DEF Valid, ValidKeys, UsableKeys
    <2> HIDE DEF file
    <2>5. CASE action \in DOMAIN file.document
      <3>1. p[action] = file.document[action]
        BY <2>1, <2>5 DEF Filled
      <3>2. p[action] \in Seq(STRING)
        BY <2>3, <2>5, <3>1
      <3>3. \A S, names: names \in Seq(S) /\ names # <<>> => 1 \in DOMAIN names
        OBVIOUS
      <3> QED BY <2>4, <3>2, <3>3
    <2>6. CASE action \notin DOMAIN file.document
      <3>1. p[action] = DefaultConfig[action]
        BY <2>1, <2>6, DefaultLists DEF Filled
      <3> QED BY <3>1, DefaultLists
    <2> QED BY <2>5, <2>6
  <1> QED BY <1>1, <1>2

\* The path is that of the first source that is given.
LEMMA PathIsOfASource ==
  ASSUME Path(machine) # <<>>
  PROVE  \E i \in DOMAIN Sources : /\ Sources[i] # <<>> /\ Sources[i] = Path(machine)
                                   /\ \A j \in 1..(i - 1) : Sources[j] = <<>>
  <1>1. /\ DOMAIN Sources = 1..3
        /\ Sources[1] = machine.option
        /\ Sources[2] = IF Given(machine.environment, "CODEDIFF_CONFIG")
                        THEN <<machine.environment["CODEDIFF_CONFIG"]>> ELSE <<>>
        /\ Sources[3] = DefaultPath(machine.environment)
    BY DEF Sources
  <1>2. CASE machine.option # <<>>
    BY <1>1, <1>2 DEF Path, Resolve
  <1>3. CASE machine.option = <<>> /\ Given(machine.environment, "CODEDIFF_CONFIG")
    <2>1. Path(machine) = <<machine.environment["CODEDIFF_CONFIG"]>>
      BY <1>3 DEF Path, Resolve
    <2>2. Sources[2] = Path(machine) /\ Sources[1] = <<>>
      BY <1>1, <1>3, <2>1
    <2> QED BY <1>1, <2>2
  <1>4. CASE machine.option = <<>> /\ ~Given(machine.environment, "CODEDIFF_CONFIG")
    <2>1. Sources[3] = Path(machine) /\ Sources[1] = <<>> /\ Sources[2] = <<>>
      BY <1>1, <1>4 DEF Path, Resolve
    <2> QED BY <1>1, <2>1
  <1> QED BY <1>2, <1>3, <1>4

\* What the invariant says is what the property asks for.
LEMMA SettledFollows == LInv => SettingsFollowTheFile
  <1> SUFFICES ASSUME LInv, terminal # Free PROVE SettingsFollowTheFile
    BY DEF SettingsFollowTheFile
  <1>1. Read(machine, preferences, warned) /\ keymap = KeyMap(preferences)
    BY DEF LInv, Settled, Parsed
  <1>2. PICK i \in DOMAIN Sources : /\ Sources[i] # <<>> /\ Sources[i] = Path(machine)
                                    /\ \A j \in 1..(i - 1) : Sources[j] = <<>>
    BY <1>1, PathIsOfASource DEF Read
  <1> DEFINE file == FileAt(Sources[i])
  <1>3. file = FileOf(machine)
    BY <1>2 DEF FileAt, FileOf
  <1>4. /\ warned => file.kind # "missing" /\ preferences = DefaultConfig
        /\ ~warned => \A field \in DOMAIN preferences :
                         preferences[field] = IF file.kind = "json" /\ field \in DOMAIN file.document
                                              THEN file.document[field]
                                              ELSE DefaultConfig[field]
    <2>1. /\ ~Load(file).fails /\ preferences = Load(file).config /\ warned = Load(file).warned
      BY <1>1, <1>3 DEF Read
    <2>2. file.kind \in {"missing", "unreadable", "malformed", "json"}
      BY <1>1, <1>3, SessionAssumption DEF Read, FileOf
    <2> HIDE DEF file
    <2> QED BY <2>1, <2>2 DEF Load, Decoded, Filled
  <1>5. \A action \in Actions : keymap[action] # {}
    <2> TAKE action \in Actions
    <2>1. 1 \in DOMAIN preferences[action]
      BY <1>1, EveryActionBound
    <2> QED BY <1>1, <2>1 DEF KeyMap, ParsedKeys
  <1>6. theme # "" /\ preferences.theme \in ThemeNames => theme = preferences.theme
    <2>1. "auto" \notin ThemeNames
      BY DEF ThemeNames
    <2> QED BY <2>1 DEF LInv, Settled, ConfiguredTheme
  <1> QED BY <1>2, <1>4, <1>5, <1>6 DEF SettingsFollowTheFile

\* Nothing is read yet when the program starts.
LEMMA InitSettled == Init => Settled
  BY DEF Init, Settled

\* A step that leaves the settings alone, goes on from a place behind them or ends,
\* and takes nothing of the terminal before them.
LEMMA KeptSettled ==
  ASSUME LInv, UNCHANGED <<machine, preferences, warned, keymap, theme>>,
         at' \in {at, "ended"} \/ (at \notin {"config", "keys", "ended"}
                                   /\ at' \notin {"config", "keys"}),
         terminal' \in {terminal, Free} \/ at \notin {"config", "keys", "ended"}
  PROVE  Settled'
  BY DEF LInv, Settled

\* To read the preferences, or to end.
LEMMA OpenConfigSettled == ASSUME LInv, OpenConfig PROVE Settled'
  <1>1. CASE Fail("error")
    BY <1>1, KeptSettled DEF Fail, Ends, setup, drawn
  <1>2. CASE ~Fail("error")
    <2>1. /\ at = "config" /\ at' = "keys" /\ UNCHANGED <<machine, keymap, theme, terminal>>
          /\ Path(machine) # <<>>
          /\ ~Load(FileOf(machine)).fails
          /\ preferences' = Load(FileOf(machine)).config
          /\ warned' = Load(FileOf(machine)).warned
      BY <1>2 DEF OpenConfig, Path, FileOf, FileAt, GoTo, drawn
    <2>2. terminal = Free /\ theme = "" /\ machine \in Machines
      BY <2>1 DEF LInv, IInv, TakenBehindBoth, Unprotected, Settled
    <2>3. Read(machine, preferences', warned')
      BY <2>1, <2>2 DEF Read
    <2>4. Read(machine', preferences', warned')
      BY <2>1, <2>3
    <2> QED BY <2>1, <2>2, <2>4 DEF Settled
  <1> QED BY <1>1, <1>2

\* To accept the keys, or to end.
LEMMA ParseKeysSettled == ASSUME LInv, ParseKeys PROVE Settled'
  <1>1. CASE Fail("error")
    BY <1>1, KeptSettled DEF Fail, Ends, setup, drawn
  <1>2. CASE ~Fail("error")
    <2>1. /\ at = "keys" /\ at' = "workers"
          /\ UNCHANGED <<machine, preferences, warned, theme, terminal>>
          /\ Accepted(preferences) /\ keymap' = KeyMap(preferences)
      BY <1>2 DEF ParseKeys, GoTo, drawn
    <2>2. Read(machine, preferences, warned) /\ machine \in Machines /\ theme = ""
      BY <2>1 DEF LInv, Settled
    <2>3. Parsed(machine, preferences, warned, keymap')
      BY <2>1, <2>2 DEF Parsed
    <2>4. Parsed(machine', preferences', warned', keymap') /\ Read(machine', preferences', warned')
      BY <2>1, <2>2, <2>3
    <2> QED BY <2>1, <2>2, <2>4 DEF Settled
  <1> QED BY <1>1, <1>2

\* The first drawing chooses the theme, by settings that are settled.
LEMMA EndDrawingSettled == ASSUME LInv, EndDrawing PROVE Settled'
  <1>1. CASE Leave("error", 1, Desynced(terminal))
    BY <1>1, KeptSettled DEF EndDrawing, Leave, Ends, setup, drawn
  <1>2. CASE ~Leave("error", 1, Desynced(terminal))
    <2>1. /\ at = "drawing" /\ at' \in {"draw", "receive"} /\ theme' = Themed
          /\ UNCHANGED <<machine, preferences, warned, keymap>>
      BY <1>2 DEF EndDrawing, GoTo, setup
    <2>2. /\ Parsed(machine, preferences, warned, keymap)
          /\ Read(machine, preferences, warned) /\ machine \in Machines
      BY <2>1 DEF LInv, Settled
    <2>3. Parsed(machine', preferences', warned', keymap') /\ Read(machine', preferences', warned')
      BY <2>1, <2>2
    <2>4. theme' = ConfiguredTheme(preferences.theme, machine.environment)
      BY <2>1 DEF LInv, Settled, Themed
    <2>5. theme' = ConfiguredTheme(preferences'.theme, machine'.environment)
      BY <2>1, <2>4
    <2> QED BY <2>1, <2>2, <2>3, <2>5 DEF Settled
  <1> QED BY <1>1, <1>2

\* The other steps of main are no way back to the places before.
LEMMA MainSettled == ASSUME LInv, Main PROVE Settled'
  <1> USE DEF setup, drawn, Fail, Leave, Ends, GoTo
  <1>1. CASE StartWorkers \/ SpawnSignals \/ InstallPanicHook \/ OpenScreen \/ SpawnInput
    BY <1>1, KeptSettled DEF StartWorkers, SpawnSignals, InstallPanicHook, OpenScreen, SpawnInput
  <1>2. CASE Watch
    BY <1>2, KeptSettled DEF Watch
  <1>3. ASSUME NEW mode, NEW next, Take(mode, next),
               mode \in {"raw", "alternate", "mouse", "hidden"},
               next \in {"alternate", "mouse", "hidden", "open"}
        PROVE  Settled'
    BY <1>3, KeptSettled DEF Take
  <1>4. CASE Start
    BY <1>1, <1>2, <1>3, <1>4, OpenConfigSettled, ParseKeysSettled DEF Start
  <1>5. CASE BeginDrawing \/ Receive \/ Respond \/ Return
    BY <1>5, KeptSettled DEF BeginDrawing, Receive, Respond, Return
  <1>6. CASE Loop
    BY <1>5, <1>6, EndDrawingSettled DEF Loop
  <1> QED BY <1>4, <1>6 DEF Main

\* Nor does anything beside it touch the settings.
LEMMA OutsideSettled == ASSUME LInv, Outside PROVE Settled'
  <1> USE DEF setup, drawn, Ends, Happen
  <1>1. CASE Input \/ InputFails \/ WorkerSends \/ SignalThread \/ Interrupt
    BY <1>1, KeptSettled DEF Input, InputFails, WorkerSends, SignalThread, Interrupt
  <1>2. CASE WorkerPanics
    <2>1. terminal' \in {terminal, Free}
      BY <1>2, RestoredIsFree DEF WorkerPanics, LInv, IInv
    <2> QED BY <1>2, <2>1, KeptSettled DEF WorkerPanics
  <1>3. ASSUME NEW signal \in Signals, Signal(signal) PROVE Settled'
    BY <1>3, KeptSettled DEF Signal
  <1> QED BY <1>1, <1>2, <1>3 DEF Outside

\* A session that has the terminal was started with the settings of the file that
\* the first given source names, each field the file's or its default and never a
\* mixture of a file and the defaults that replace one that cannot be used; with a
\* key for every action; and with the theme that is asked for, if there is one
\* (config's path.rs, lib.rs and store.rs; keybindings.rs; context.rs).
THEOREM SettingsAreTheFiles == Spec => []SettingsFollowTheFile
  <1>1. ASSUME LInv, [Next]_vars PROVE Settled'
    <2>1. CASE UNCHANGED vars
      BY <1>1, <2>1, KeptSettled DEF vars, setup, drawn
    <2>2. CASE MainPanics
      <3>1. terminal' \in {terminal, Free}
        BY <2>2, RestoredIsFree, <1>1 DEF MainPanics, LInv, IInv
      <3> QED BY <1>1, <2>2, <3>1, KeptSettled DEF MainPanics, Ends, setup, drawn
    <2> QED BY <1>1, <2>1, <2>2, MainSettled, OutsideSettled DEF Next
  <1>2. LInv => SettingsFollowTheFile
    BY SettledFollows
  <1>3. IInv /\ Settled /\ [Next]_vars => Settled'
    BY <1>1 DEF LInv
  <1>4. IInv /\ Settled => SettingsFollowTheFile
    BY <1>2 DEF LInv
  <1> QED BY <1>3, <1>4, Inductive, InitSettled, PTL DEF Spec

--------------------------------------------------------------------------------
(* The directories of Git *)

\* The names on paths, those that Git itself gives among them.
GivenNames == {"index", "HEAD", "MERGE_HEAD", "packed-refs", "refs", "heads", "main", "index.lock"}
PathNames == STRING \cup GivenNames

\* A path of the tree is a sequence of such names.
LEMMA PathsOfNames == Seq(STRING) \subseteq Seq(PathNames)
  <1>1. STRING \subseteq PathNames
    BY DEF PathNames
  <1>2. ASSUME NEW S, NEW T, S \subseteq T PROVE Seq(S) \subseteq Seq(T)
    BY <1>2
  <1> QED BY <1>1, <1>2

\* Short paths.
LEMMA OneName ==
  ASSUME NEW S, NEW a \in S
  PROVE  <<a>> \in Seq(S) /\ <<a>> # <<>> /\ Len(<<a>>) = 1 /\ <<a>>[1] = a
  OBVIOUS

\* Of two names.
LEMMA TwoNames ==
  ASSUME NEW S, NEW a \in S, NEW b \in S
  PROVE  <<a, b>> \in Seq(S) /\ <<a, b>> # <<>> /\ Len(<<a, b>>) = 2
  OBVIOUS

\* Of three.
LEMMA ThreeNames ==
  ASSUME NEW S, NEW a \in S, NEW b \in S, NEW c \in S
  PROVE  /\ <<a, b, c>> \in Seq(S) /\ <<a, b, c>> # <<>> /\ Len(<<a, b, c>>) = 3
         /\ <<a, b, c>>[1] = a /\ <<a, b, c>>[3] = c
  OBVIOUS

\* A path is none of those it lies below.
LEMMA NamesApart ==
  ASSUME NEW S, NEW s \in Seq(S), NEW a \in S, NEW b \in S, NEW c \in S
  PROVE  Append(s, a) \o <<b, c>> # Append(s, a)
  <1>2. \A t \in Seq(S) : Len(t \o <<b, c>>) = Len(t) + 2 /\ Len(t) \in Nat
    OBVIOUS
  <1>3. Append(s, a) \in Seq(S)
    OBVIOUS
  <1>4. Len(Append(s, a) \o <<b, c>>) = Len(Append(s, a)) + 2 /\ Len(Append(s, a)) \in Nat
    BY <1>2, <1>3
  <1>5. Append(s, a) \o <<b, c>> # Append(s, a)
    <2> DEFINE t == Append(s, a)
               u == t \o <<b, c>>
    <2>1. Len(u) = Len(t) + 2 /\ Len(t) \in Nat
      BY <1>4
    <2> HIDE DEF t, u
    <2>2. u # t
      BY <2>1
    <2> QED BY <2>2 DEF t, u
  <1> QED BY <1>5

\* What a sequence of names ends with, behind those it begins with.
LEMMA NamesBehind ==
  ASSUME NEW S, NEW dir \in Seq(S), NEW rest \in Seq(S), rest # <<>>
  PROVE  /\ IsPrefix(dir, dir \o rest)
         /\ From(dir \o rest, dir) = rest
         /\ Last(dir \o rest) = rest[Len(rest)]
         /\ Len(rest) = 1 => Front(dir \o rest) = dir
  <1>1. dir \o rest \in Seq(S) /\ Len(dir \o rest) = Len(dir) + Len(rest)
    OBVIOUS
  <1>2. /\ \A i \in 1..Len(dir) : (dir \o rest)[i] = dir[i]
        /\ \A i \in 1..Len(rest) : (dir \o rest)[Len(dir) + i] = rest[i]
    OBVIOUS
  <1>3. Len(rest) > 0
    OBVIOUS
  <1>4. SubSeq(dir \o rest, 1, Len(dir)) = dir
    BY <1>1, <1>2
  <1>5. SubSeq(dir, 1, Len(dir)) = dir
    OBVIOUS
  <1>6. From(dir \o rest, dir) = rest
    BY <1>1, <1>2, <1>3 DEF From
  <1>7. Last(dir \o rest) = rest[Len(rest)]
    BY <1>1, <1>2, <1>3 DEF Last
  <1> QED BY <1>1, <1>3, <1>4, <1>5, <1>6, <1>7 DEF IsPrefix, Front

\* The own directory of a worktree is found from its root.
LEMMA OwnIsFound ==
  ASSUME NEW tree, NEW root, NEW git, IsWorktree(tree, root, git)
  PROVE  WorktreeGitDir(tree, root) = Found(git.own)
  <1> DEFINE dotGit == Append(root, ".git")
  <1>1. \A path : Canonical(path) = git.own => ValidateWorktreeGitDir(tree, path) = Found(git.own)
    BY DEF IsWorktree, ValidateWorktreeGitDir, WithHead, CanonicalDirectory, DirectoryAt, Found
  <1>2. CASE IsDir(tree, dotGit) /\ Canonical(dotGit) = git.own
    BY <1>1, <1>2 DEF WorktreeGitDir, IsDir, IsFile
  <1> DEFINE pointers == Pointers(tree[dotGit])
  <1>3. CASE /\ IsFile(tree, dotGit) /\ pointers # <<>>
             /\ PointsTo(root, Head(pointers).path, git.own)
    <2>1. PointedDir(tree, root, pointers) = Found(git.own)
      BY <1>1, <1>3 DEF PointedDir, PointsTo
    <2>2. ~IsDir(tree, dotGit)
      BY <1>3 DEF IsDir, IsFile
    <2> QED BY <1>3, <2>1, <2>2 DEF WorktreeGitDir
  <1> QED BY <1>2, <1>3 DEF IsWorktree, LeadsTo

\* And the common one from the own one.
LEMMA CommonIsFound ==
  ASSUME NEW tree, NEW root, NEW git, IsWorktree(tree, root, git)
  PROVE  CommonGitDir(tree, git.own) = Found(git.common)
  <1> DEFINE commondir == Append(git.own, "commondir")
  <1>1. CASE git.common = git.own /\ KindAt(tree, commondir) = "missing"
    BY <1>1 DEF CommonGitDir, IsDir
  <1>2. CASE /\ IsFile(tree, commondir)
             /\ PointsTo(git.own, tree[commondir].lines[1].path, git.common)
    <2>1. NamedDir(tree, git.own, tree[commondir].lines[1].path) = Found(git.common)
      BY <1>2 DEF NamedDir, CanonicalDirectory, DirectoryAt, PointsTo, IsWorktree
    <2>2. KindAt(tree, commondir) # "missing" /\ ~IsDir(tree, commondir)
      BY <1>2 DEF IsDir, IsFile
    <2> QED BY <2>1, <2>2 DEF CommonGitDir
  <1> QED BY <1>1, <1>2 DEF IsWorktree, Shares

\* A folder whose .git leads nowhere is passed by.
LEMMA NowhereIsPassed ==
  ASSUME NEW tree, NEW folder, LeadsNowhere(tree, folder)
  PROVE  ~WorktreeGitDir(tree, folder).ok
  <1> DEFINE dotGit == Append(folder, ".git")
             pointers == Pointers(tree[dotGit])
  <1>1. ~NotFound.ok
    BY DEF NotFound
  <1>2. \A path : ~HoldsHead(tree, path) => ~ValidateWorktreeGitDir(tree, path).ok
    BY <1>1 DEF HoldsHead, ValidateWorktreeGitDir, WithHead, CanonicalDirectory, DirectoryAt, Found
  <1>3. CASE IsDir(tree, dotGit)
    BY <1>2, <1>3 DEF LeadsNowhere, WorktreeGitDir, IsDir, IsFile
  <1>4. CASE IsFile(tree, dotGit)
    <2>1. ~PointedDir(tree, folder, pointers).ok
      BY <1>1, <1>2, <1>4 DEF LeadsNowhere, PointedDir
    <2> QED BY <1>4, <2>1 DEF WorktreeGitDir, IsDir, IsFile
  <1>5. CASE ~IsDir(tree, dotGit) /\ ~IsFile(tree, dotGit)
    BY <1>1, <1>5 DEF WorktreeGitDir
  <1> QED BY <1>3, <1>4, <1>5

\* The directories that are found from a folder are those of the worktree it lies in.
LEMMA FolderFinds ==
  ASSUME NEW tree, NEW folder \in Seq(STRING), NEW gits, LaidOut(tree, folder, gits),
         FromRoot(tree, TopLevel(tree, folder)).ok
  PROVE  \E git \in gits : \E root :
            /\ gits = {git} /\ IsWorktree(tree, root, git)
            /\ FromRoot(tree, TopLevel(tree, folder)).own = git.own
            /\ FromRoot(tree, TopLevel(tree, folder)).common = git.common
  <1> DEFINE At(n) == SubSeq(folder, 1, n)
             gitDirs == [n \in 0..Len(folder) |-> WorktreeGitDir(tree, At(n))]
             files == {n \in 0..Len(folder) : IsFile(tree, Append(At(n), ".git"))}
             found == {n \in DOMAIN gitDirs : gitDirs[n].ok}
             last == {n \in found : \A k \in found \cup files : k <= n}
  <1>1. TopLevel(tree, folder)
           = IF last = {} THEN NotFound ELSE Found(SubSeq(folder, 1, CHOOSE n \in last : TRUE))
    BY DEF TopLevel, Nearest
  <1>2. CASE \A n \in 0..Len(folder) : LeadsNowhere(tree, At(n))
    <2>1. last = {}
      BY <1>2, NowhereIsPassed
    <2>2. ~TopLevel(tree, folder).ok
      BY <1>1, <2>1 DEF NotFound
    <2> QED BY <2>2 DEF FromRoot, FromOwn, Together, NotFound
  <1>3. CASE \E n \in 0..Len(folder) :
                /\ \E git \in gits : gits = {git} /\ IsWorktree(tree, At(n), git)
                /\ \A k \in (n + 1)..Len(folder) :
                      LeadsNowhere(tree, At(k)) /\ ~IsFile(tree, Append(At(k), ".git"))
    <2>1. PICK n \in 0..Len(folder) :
             /\ \E git \in gits : gits = {git} /\ IsWorktree(tree, At(n), git)
             /\ \A k \in (n + 1)..Len(folder) :
                   LeadsNowhere(tree, At(k)) /\ ~IsFile(tree, Append(At(k), ".git"))
      BY <1>3
    <2>2. PICK git \in gits : gits = {git} /\ IsWorktree(tree, At(n), git)
      BY <2>1
    <2>3. gitDirs[n] = Found(git.own)
      BY <2>2, OwnIsFound
    <2>4. \A k \in (n + 1)..Len(folder) : k \notin found /\ k \notin files
      BY <2>1, NowhereIsPassed
    <2>5. n \in found
      BY <2>3 DEF Found
    <2>6. found \subseteq 0..Len(folder) /\ files \subseteq 0..Len(folder)
      OBVIOUS
    <2> HIDE DEF found, files, At, gitDirs
    <2>7. last = {n}
      <3>1. \A k \in found \cup files : k \in 0..Len(folder) /\ k <= n
        BY <2>4, <2>6
      <3>2. \A k \in last : k = n
        <4> TAKE k \in last
        <4>1. k \in Nat /\ n \in Nat
          BY <3>1
        <4>2. k <= n /\ n <= k
          BY <2>5, <3>1
        <4> QED BY <4>1, <4>2
      <3>3. n \in last
        BY <2>5, <3>1
      <3> HIDE DEF last
      <3> QED BY <3>2, <3>3
    <2>8. TopLevel(tree, folder) = Found(At(n))
      BY <1>1, <2>7 DEF At
    <2>9. FromRoot(tree, TopLevel(tree, folder))
             = Together(Found(At(n)), Found(git.own), Found(git.common))
      <3>1. WorktreeGitDir(tree, At(n)) = Found(git.own) /\ CommonGitDir(tree, git.own) = Found(git.common)
        BY <2>2, OwnIsFound, CommonIsFound
      <3>2. \A dir : Found(dir).ok /\ Found(dir).dir = dir
        BY DEF Found
      <3> HIDE DEF Found, TopLevel
      <3>3. FromOwn(tree, Found(At(n)), Found(git.own))
               = Together(Found(At(n)), Found(git.own), Found(git.common))
        BY <3>1, <3>2 DEF FromOwn
      <3> QED BY <2>8, <3>1, <3>2, <3>3 DEF FromRoot
    <2> QED BY <2>2, <2>9 DEF Together, Found
  <1> QED BY <1>2, <1>3 DEF LaidOut

\* What is found for a machine is what Git has there.
LEMMA DirectoriesAreGits ==
  ASSUME NEW m \in Machines, DirectoriesOf[m].ok
  PROVE  \E git \in m.git : \E root :
            /\ m.git = {git} /\ IsWorktree(m.tree, root, git)
            /\ DirectoriesOf[m].own = git.own /\ DirectoriesOf[m].common = git.common
  <1>1. DirectoriesOf[m] = FromRoot(m.tree, FindRepo(m.tree, m.folder))
    BY DEF DirectoriesOf, Directories
  <1>2. m.folder \in Seq(STRING) /\ Front(m.folder) \in Seq(STRING)
    <2>1. m.folder \in Seq(STRING)
      BY LayoutAssumption
    <2> QED BY <2>1 DEF Front
  <1>3. CASE IsDir(m.tree, m.folder)
    <2>1. LaidOut(m.tree, m.folder, m.git)
      BY <1>3, LayoutAssumption
    <2>2. FindRepo(m.tree, m.folder) = TopLevel(m.tree, m.folder)
      BY <1>3 DEF FindRepo
    <2> QED BY <1>1, <1>2, <2>1, <2>2, FolderFinds
  <1>4. CASE ~IsDir(m.tree, m.folder) /\ IsDir(m.tree, Front(m.folder))
    <2>1. LaidOut(m.tree, Front(m.folder), m.git)
      BY <1>4, LayoutAssumption
    <2>2. FindRepo(m.tree, m.folder) = TopLevel(m.tree, Front(m.folder))
      BY <1>4 DEF FindRepo
    <2> QED BY <1>1, <1>2, <2>1, <2>2, FolderFinds
  <1>5. CASE ~IsDir(m.tree, m.folder) /\ ~IsDir(m.tree, Front(m.folder))
    <2>1. ~FindRepo(m.tree, m.folder).ok
      BY <1>5 DEF FindRepo, NotFound
    <2>2. ~FromRoot(m.tree, FindRepo(m.tree, m.folder)).ok
      BY <2>1 DEF FromRoot, FromOwn, Together, NotFound
    <2> QED BY <1>1, <2>2
  <1> QED BY <1>3, <1>4, <1>5

\* What lies in the common directory of a linked worktree, but not among its
\* worktrees, does not lie in the own one.
LEMMA SharedIsNotOwn ==
  ASSUME NEW git, LiesIn(git.own, git.common), NEW S, NEW rest \in Seq(S), git.own \in Seq(S), git.common \in Seq(S), rest # <<>>, rest[1] # "worktrees"
  PROVE  ~IsPrefix(git.own, git.common \o rest)
  <1> DEFINE n == Len(git.common)
  <1>1. Len(git.own) = n + 2 /\ n \in Nat
    BY DEF LiesIn
  <1>2. SubSeq(Append(git.common, "worktrees"), 1, n + 1) = SubSeq(git.own, 1, n + 1)
    BY <1>1 DEF LiesIn, IsPrefix
  <1>3. git.own[n + 1] = "worktrees"
    BY <1>1, <1>2
  <1>4. (git.common \o rest)[n + 1] = rest[1]
    BY <1>1
  <1> SUFFICES ASSUME IsPrefix(git.own, git.common \o rest) PROVE FALSE
    OBVIOUS
  <1>5. SubSeq(git.own, 1, n + 2) = SubSeq(git.common \o rest, 1, n + 2)
        /\ n + 2 <= Len(git.common \o rest)
    BY <1>1 DEF IsPrefix
  <1>6. \A names \in Seq(S), k \in Nat :
           k \in 1..(n + 2) /\ n + 2 <= Len(names) => SubSeq(names, 1, n + 2)[k] = names[k]
    BY <1>1
  <1>7. git.common \o rest \in Seq(S) /\ n + 1 \in 1..(n + 2) /\ n + 1 \in Nat
    BY <1>1
  <1>8. git.own[n + 1] = (git.common \o rest)[n + 1]
    <2>1. SubSeq(git.own, 1, n + 2)[n + 1] = git.own[n + 1]
      BY <1>1, <1>6, <1>7
    <2>2. SubSeq(git.common \o rest, 1, n + 2)[n + 1] = (git.common \o rest)[n + 1]
      BY <1>5, <1>6, <1>7
    <2> QED BY <1>5, <2>1, <2>2
  <1> QED BY <1>3, <1>4, <1>8

\* Where a path in a directory of Git's is placed, which is not a lock.
LEMMA PlacedBehind ==
  ASSUME NEW at_, NEW S, NEW rest \in Seq(S), rest # <<>>, rest[Len(rest)] \notin LockFiles,
         at_.own \in Seq(S), at_.common \in Seq(S)
  PROVE  /\ RefreshForPath(at_, at_.own \o rest) = RefreshForGitPath(rest)
         /\ ~IsPrefix(at_.own, at_.common \o rest) \/ at_.own = at_.common
               => RefreshForPath(at_, at_.common \o rest) = RefreshForGitPath(rest)
  BY NamesBehind DEF RefreshForPath

\* The five writes, each with what of the review it makes stale.
LEMMA WritesAre ==
  ASSUME NEW git, NEW write \in WritesOf(git)
  PROVE  \/ write[1] = git.own \o <<"index">> /\ write[2] = "index"
         \/ write[1] = git.own \o <<"HEAD">> /\ write[2] = "head"
         \/ write[1] = git.own \o <<"MERGE_HEAD">> /\ write[2] = "index"
         \/ write[1] = git.common \o <<"refs", "heads", "main">> /\ write[2] = "refs"
         \/ write[1] = git.common \o <<"packed-refs">> /\ write[2] = "refs"
  BY DEF WritesOf

\* Every write of Git's is seen by one of the watches, and refreshes what it is of.
LEMMA WritesAreHeard ==
  ASSUME NEW tree, NEW root, NEW git, IsWorktree(tree, root, git), NEW at_,
         at_.own = git.own, at_.common = git.common
  PROVE  /\ \A write \in WritesOf(git) :
               /\ IsSeen(GitScope(tree, at_), write[1])
               /\ RefreshForPath(at_, write[1]) = {write[2]}
         /\ RefreshForPath(at_, git.own \o <<"index.lock">>) = {}
  <1> DEFINE watches == GitScope(tree, at_)
  <1>1. git.own \in Seq(PathNames) /\ git.common \in Seq(PathNames)
    BY PathsOfNames DEF IsWorktree
  <1>0. GivenNames \subseteq PathNames
    BY DEF PathNames
  <1>2. /\ Flat(git.own) \in watches /\ Flat(git.common) \in watches
        /\ Deep(Append(git.common, "refs")) \in watches
    BY DEF GitScope, IsWorktree
  <1>3. \A dir \in Seq(PathNames), name \in PathNames : Flat(dir) \in watches => IsSeen(watches, dir \o <<name>>)
    <2> TAKE dir \in Seq(PathNames), name \in PathNames
    <2>1. Front(dir \o <<name>>) = dir
      BY OneName, NamesBehind
    <2> QED BY <2>1 DEF IsSeen, Flat
  <1>4. IsSeen(watches, git.common \o <<"refs", "heads", "main">>)
    <2> DEFINE refs == Append(git.common, "refs")
               rest == <<"heads", "main">>
    <2>0. "refs" \in PathNames /\ "heads" \in PathNames /\ "main" \in PathNames
      BY <1>0 DEF GivenNames
    <2>1. refs \in Seq(PathNames) /\ rest \in Seq(PathNames) /\ rest # <<>> /\ Len(rest) = 2
      BY <1>1, <2>0, TwoNames
    <2>2. refs \o rest = git.common \o <<"refs", "heads", "main">>
      <3> DEFINE dir == git.common
                 a == "refs"
                 b == "heads"
                 c == "main"
      <3>1. dir \in Seq(PathNames) /\ a \in PathNames /\ b \in PathNames /\ c \in PathNames
        BY <1>1, <2>0
      <3> HIDE DEF dir, a, b, c
      <3>2. Append(dir, a) \o <<b, c>> = dir \o <<a, b, c>>
        BY <3>1
      <3> QED BY <3>2 DEF dir, a, b, c
    <2>3. IsPrefix(refs, refs \o rest)
      BY <2>1, NamesBehind
    <2>4. refs # refs \o rest
      BY <1>1, <2>0, NamesApart
    <2>5. IsStrictPrefix(refs, refs \o rest)
      BY <2>3, <2>4 DEF IsStrictPrefix
    <2> HIDE DEF rest
    <2> QED BY <1>2, <2>2, <2>5 DEF IsSeen, Deep
  <1>5. \A write \in WritesOf(git) : IsSeen(watches, write[1])
    <2> HIDE DEF watches
    <2>1. \A name \in GivenNames : /\ IsSeen(watches, git.own \o <<name>>)
                                   /\ IsSeen(watches, git.common \o <<name>>)
      BY <1>0, <1>1, <1>2, <1>3
    <2>2. {"index", "HEAD", "MERGE_HEAD", "packed-refs"} \subseteq GivenNames
      BY DEF GivenNames
    <2> QED BY <1>4, <2>1, <2>2, WritesAre
  <1>6. \A rest \in Seq(PathNames) :
           rest # <<>> /\ rest[1] # "worktrees" /\ rest[Len(rest)] \notin LockFiles
              => /\ RefreshForPath(at_, git.own \o rest) = RefreshForGitPath(rest)
                 /\ RefreshForPath(at_, git.common \o rest) = RefreshForGitPath(rest)
    <2> TAKE rest \in Seq(PathNames)
    <2> HAVE rest # <<>> /\ rest[1] # "worktrees" /\ rest[Len(rest)] \notin LockFiles
    <2>1. ~IsPrefix(git.own, git.common \o rest) \/ git.own = git.common
      BY <1>1, SharedIsNotOwn DEF IsWorktree, Shares
    <2> QED BY <1>1, <2>1, PlacedBehind
  <1>7. /\ RefreshForGitPath(<<"index">>) = {"index"}
        /\ RefreshForGitPath(<<"HEAD">>) = {"head"}
        /\ RefreshForGitPath(<<"MERGE_HEAD">>) = {"index"}
        /\ RefreshForGitPath(<<"refs", "heads", "main">>) = {"refs"}
        /\ RefreshForGitPath(<<"packed-refs">>) = {"refs"}
    BY DEF RefreshForGitPath, Internals, OperationHeads, Rebases, Last
  <1>8. \A write \in WritesOf(git) : RefreshForPath(at_, write[1]) = {write[2]}
    <2>1. \A name \in {"index", "HEAD", "MERGE_HEAD", "packed-refs"} :
             /\ RefreshForPath(at_, git.own \o <<name>>) = RefreshForGitPath(<<name>>)
             /\ RefreshForPath(at_, git.common \o <<name>>) = RefreshForGitPath(<<name>>)
      <3> TAKE name \in {"index", "HEAD", "MERGE_HEAD", "packed-refs"}
      <3>1. name \in GivenNames /\ name # "worktrees" /\ name \notin LockFiles
        BY DEF LockFiles, GivenNames
      <3>2. <<name>> \in Seq(PathNames) /\ <<name>> # <<>> /\ Len(<<name>>) = 1 /\ <<name>>[1] = name
        BY <1>0, <3>1, OneName
      <3> QED BY <1>6, <3>1, <3>2
    <2>2. RefreshForPath(at_, git.common \o <<"refs", "heads", "main">>)
             = RefreshForGitPath(<<"refs", "heads", "main">>)
      <3> DEFINE rest == <<"refs", "heads", "main">>
      <3>1. "refs" # "worktrees" /\ "main" \notin LockFiles
        BY DEF LockFiles
      <3>2. "refs" \in PathNames /\ "heads" \in PathNames /\ "main" \in PathNames
        BY <1>0 DEF GivenNames
      <3>3. /\ rest \in Seq(PathNames) /\ rest # <<>> /\ Len(rest) = 3
            /\ rest[1] = "refs" /\ rest[3] = "main"
        BY <3>2, ThreeNames
      <3> HIDE DEF rest
      <3>4. RefreshForPath(at_, git.common \o rest) = RefreshForGitPath(rest)
        BY <1>6, <3>1, <3>3
      <3> QED BY <3>4 DEF rest
    <2> QED BY <1>7, <2>1, <2>2, WritesAre
  <1>9. RefreshForPath(at_, git.own \o <<"index.lock">>) = {}
    <2>1. Last(git.own \o <<"index.lock">>) = "index.lock"
      <3>1. "index.lock" \in PathNames
        BY <1>0 DEF GivenNames
      <3> DEFINE rest == <<"index.lock">>
      <3>2. rest \in Seq(PathNames) /\ rest # <<>> /\ rest[Len(rest)] = "index.lock"
        BY <3>1, OneName
      <3> HIDE DEF rest
      <3>3. Last(git.own \o rest) = "index.lock"
        BY <1>1, <3>2, NamesBehind
      <3> QED BY <3>3 DEF rest
    <2> QED BY <2>1 DEF RefreshForPath, LockFiles
  <1> QED BY <1>5, <1>8, <1>9

\* What is watched for a machine.
WatchedFor(m, w) ==
    /\ m \in Machines
    /\ DirectoriesOf[m].ok
    /\ w = [at |-> DirectoriesOf[m], watches |-> GitScope(m.tree, DirectoriesOf[m])]

\* Behind the place where the watcher is started, it watches what was found.
Watching ==
    /\ machine \in Machines
    /\ at \notin Unprotected \cup {"ended"} \/ terminal # Free => WatchedFor(machine, watched)

\* What is watched makes Git heard.
LEMMA WatchingHears == ASSUME Watching PROVE GitIsHeard
  <1> SUFFICES ASSUME terminal # Free
      PROVE  /\ machine.git # {}
             /\ \A git \in machine.git :
                   /\ \A write \in WritesOf(git) :
                         /\ IsSeen(watched.watches, write[1])
                         /\ RefreshForPath(watched.at, write[1]) = {write[2]}
                   /\ RefreshForPath(watched.at, git.own \o <<"index.lock">>) = {}
    BY DEF GitIsHeard
  <1>1. WatchedFor(machine, watched)
    BY DEF Watching
  <1>2. PICK git \in machine.git : \E root :
           /\ machine.git = {git} /\ IsWorktree(machine.tree, root, git)
           /\ DirectoriesOf[machine].own = git.own /\ DirectoriesOf[machine].common = git.common
    BY <1>1, DirectoriesAreGits DEF WatchedFor
  <1>3. /\ watched.at = DirectoriesOf[machine]
        /\ watched.watches = GitScope(machine.tree, DirectoriesOf[machine])
    BY <1>1 DEF WatchedFor
  <1>4. /\ \A write \in WritesOf(git) :
              /\ IsSeen(GitScope(machine.tree, watched.at), write[1])
              /\ RefreshForPath(watched.at, write[1]) = {write[2]}
        /\ RefreshForPath(watched.at, git.own \o <<"index.lock">>) = {}
    BY <1>2, <1>3, WritesAreHeard
  <1> QED BY <1>2, <1>3, <1>4

\* A step that leaves the watches alone, and takes nothing of the terminal before them.
LEMMA KeptWatching ==
  ASSUME IInv, Watching, UNCHANGED <<machine, watched>>,
         at' \in {at, "ended"} \cup Unprotected \/ at \notin Unprotected \cup {"ended"},
         terminal' \in {terminal, Free} \/ at \notin Unprotected \cup {"ended"}
  PROVE  Watching'
  <1>1. WatchedFor(machine, watched) => WatchedFor(machine', watched')
    BY DEF WatchedFor
  <1> QED BY <1>1 DEF Watching

\* The steps of the start keep it, and one makes it so.
LEMMA StartWatching == ASSUME IInv, Watching, Start PROVE Watching'
  <1> USE DEF setup, drawn, Fail, Leave, Ends, GoTo
  <1>1. CASE OpenConfig \/ ParseKeys \/ StartWorkers
    BY <1>1, KeptWatching DEF OpenConfig, ParseKeys, StartWorkers, Unprotected
  <1>2. CASE SpawnSignals \/ InstallPanicHook \/ OpenScreen \/ SpawnInput
    BY <1>2, KeptWatching DEF SpawnSignals, InstallPanicHook, OpenScreen, SpawnInput, Unprotected
  <1>3. ASSUME NEW mode, NEW next, Take(mode, next),
               mode \in {"raw", "alternate", "mouse", "hidden"}
        PROVE  Watching'
    BY <1>3, KeptWatching DEF Take, Unprotected
  <1>4. CASE Watch
    <2>1. CASE Fail("error")
      BY <2>1, KeptWatching
    <2>2. CASE ~Fail("error")
      <3>1. /\ DirectoriesOf[machine].ok
            /\ watched' = [at |-> DirectoriesOf[machine],
                           watches |-> GitScope(machine.tree, DirectoriesOf[machine])]
            /\ UNCHANGED machine
        BY <1>4, <2>2 DEF Watch
      <3>2. WatchedFor(machine, watched')
        BY <3>1 DEF WatchedFor, Watching
      <3>3. WatchedFor(machine', watched')
        BY <3>1, <3>2
      <3> QED BY <3>1, <3>3 DEF Watching
    <2> QED BY <2>1, <2>2
  <1> QED BY <1>1, <1>2, <1>3, <1>4 DEF Start

\* So do those of the loop, and of everything beside it.
LEMMA NextWatching == ASSUME IInv, Watching, [Next]_vars PROVE Watching'
  <1> USE DEF setup, drawn, Leave, Ends, GoTo
  <1>1. CASE Start
    BY <1>1, StartWatching
  <1>2. CASE Loop
    BY <1>2, KeptWatching DEF Loop, BeginDrawing, EndDrawing, Receive, Respond, Return, Unprotected
  <1>3. CASE MainPanics
    <2>1. terminal' \in {terminal, Free}
      BY <1>3, RestoredIsFree DEF MainPanics, IInv
    <2> QED BY <1>3, <2>1, KeptWatching DEF MainPanics
  <1>4. CASE Outside
    <2> USE DEF Happen
    <2>1. CASE Input \/ InputFails \/ WorkerSends \/ SignalThread \/ Interrupt
      BY <2>1, KeptWatching DEF Input, InputFails, WorkerSends, SignalThread, Interrupt
    <2>2. CASE WorkerPanics
      <3>1. terminal' \in {terminal, Free}
        BY <2>2, RestoredIsFree DEF WorkerPanics, IInv
      <3> QED BY <2>2, <3>1, KeptWatching DEF WorkerPanics
    <2>3. ASSUME NEW signal \in Signals, Signal(signal) PROVE Watching'
      BY <2>3, KeptWatching DEF Signal
    <2> QED BY <1>4, <2>1, <2>2, <2>3 DEF Outside
  <1>5. CASE UNCHANGED vars
    BY <1>5, KeptWatching DEF vars
  <1> QED BY <1>1, <1>2, <1>3, <1>4, <1>5 DEF Next, Main

\* A session that has the terminal hears of everything that Git writes for its own
\* worktree, whether that is the main one or linked to another, as what it makes
\* stale, and of no lock (vcs's repository/mod.rs; watcher's git_dirs.rs, scope.rs
\* and filter.rs); and it has the settings of its file.
THEOREM StartFollows == Spec => []StartFollowsTheMachine
  <1>1. Init => Watching
    BY DEF Init, Watching, Unprotected
  <1>2. IInv /\ Watching /\ [Next]_vars => Watching'
    BY NextWatching
  <1>3. Watching => GitIsHeard
    BY WatchingHears
  <1>4. SettingsFollowTheFile /\ GitIsHeard => StartFollowsTheMachine
    BY DEF StartFollowsTheMachine
  <1> QED BY <1>1, <1>2, <1>3, <1>4, Inductive, SettingsAreTheFiles, PTL DEF Spec

================================================================================
