------------------------------- MODULE Settings -------------------------------
(***************************************************************************)
(* What a session is started with (crates/config: lib, path, store's load; *)
(* ui/src/keybindings.rs; the choice of a theme in ui/src/theme): which    *)
(* file is read, what a document means, which documents are refused, which *)
(* keys it binds and which theme it names.                                 *)
(*                                                                         *)
(* A document is a function from the fields it has to their values, its    *)
(* sections taken together.  The environment is a function from the        *)
(* variables that are set.  What a save does is module ConfigStore's.      *)
(***************************************************************************)
EXTENDS Integers, Sequences

CONSTANTS
    KeyOf,      \* crokey::parse: the key combinations of the names that have one
    BlankNames  \* the key names that are nothing but white space

(* The file that is read *)

\* A variable that is set to nothing counts as one that is not set.
Given(environment, name) ==
    name \in DOMAIN environment /\ environment[name] # ""

\* HOME alone may be empty: the path is then one below the current directory.
DefaultPath(environment) ==
    IF Given(environment, "XDG_CONFIG_HOME") THEN <<environment["XDG_CONFIG_HOME"]>>
    ELSE IF "HOME" \in DOMAIN environment THEN <<environment["HOME"], ".config">>
    ELSE <<>>

\* The path of the preferences, <<>> if there is none.
Resolve(explicit, environment) ==
    IF explicit # <<>> THEN explicit
    ELSE IF Given(environment, "CODEDIFF_CONFIG") THEN <<environment["CODEDIFF_CONFIG"]>>
    ELSE DefaultPath(environment)

-----------------------------------------------------------------------------
(* What a document means *)

CurrentVersion == 1

\* serde's `default` attributes: a field that is missing has its default.
Filled(document, defaults) ==
    [field \in DOMAIN document \cup DOMAIN defaults |->
        IF field \in DOMAIN document THEN document[field] ELSE defaults[field]]

DefaultKeys ==
    [quit |-> <<"q">>, move_down |-> <<"j", "down">>, move_up |-> <<"k", "up">>,
     open |-> <<"enter">>, toggle_layout |-> <<"t">>, toggle_wrap |-> <<"w">>,
     toggle_explorer_mode |-> <<"i">>, stage |-> <<"space">>, focus_next |-> <<"right">>,
     focus_previous |-> <<"left">>, move_left |-> <<"h">>, move_right |-> <<"l">>,
     start |-> <<"0">>, end |-> <<"$">>]

Actions == DOMAIN DefaultKeys

DefaultInterface ==
    [layout |-> "side-by-side", wrap |-> TRUE, theme |-> "auto", explorer_width |-> 40,
     explorer_mode |-> "tree"]

DefaultComparison == [ignore_trim_whitespace |-> FALSE]

DefaultConfig ==
    Filled([version |-> CurrentVersion],
           Filled(DefaultInterface, Filled(DefaultComparison, DefaultKeys)))

Decoded(document) == Filled(document, DefaultConfig)

UsableKeys(names) == names # <<>> /\ \A i \in DOMAIN names : names[i] \notin BlankNames

ValidKeys(config) == \A action \in Actions : UsableKeys(config[action])

\* A mutant: the keys are not checked.
ValidWithAnyKeys(config) == config.version = CurrentVersion /\ config.explorer_width >= 8

Valid(config) ==
    /\ config.version = CurrentVersion
    /\ config.explorer_width >= 8
    /\ ValidKeys(config)

\* A file is missing, unreadable, malformed, or json with its document.
Load(file) ==
    CASE file.kind = "unreadable" -> [fails |-> TRUE, warned |-> FALSE, config |-> DefaultConfig]
      [] file.kind = "missing" -> [fails |-> FALSE, warned |-> FALSE, config |-> DefaultConfig]
      [] file.kind = "malformed" -> [fails |-> FALSE, warned |-> TRUE, config |-> DefaultConfig]
      [] OTHER -> IF Valid(Decoded(file.document))
                  THEN [fails |-> FALSE, warned |-> FALSE, config |-> Decoded(file.document)]
                  ELSE [fails |-> FALSE, warned |-> TRUE, config |-> DefaultConfig]

-----------------------------------------------------------------------------
(* Keys *)

Parses(names) == \A i \in DOMAIN names : names[i] \in DOMAIN KeyOf

ParsedKeys(names) == {KeyOf[names[i]] : i \in DOMAIN names}

\* Refused as a whole if any name of any action is not a key.
Accepted(config) == \A action \in Actions : Parses(config[action])

KeyMap(config) == [action \in Actions |-> ParsedKeys(config[action])]

Matches(keymap, action, key) == key \in keymap[action]

-----------------------------------------------------------------------------
(* The theme *)

ThemeNames == {"catppuccin-mocha", "catppuccin-macchiato", "catppuccin-frappe",
               "catppuccin-latte", "basic-dark", "basic-light"}

\* The last field of COLORFGBG, here a sequence of numbers.
PrefersLight(environment) ==
    /\ "COLORFGBG" \in DOMAIN environment
    /\ environment["COLORFGBG"] # <<>>
    /\ environment["COLORFGBG"][Len(environment["COLORFGBG"])] \in 7..15

Detect(environment) ==
    LET truecolor == "COLORTERM" \in DOMAIN environment
                     /\ environment["COLORTERM"] \in {"truecolor", "24bit"}
    IN  CASE truecolor /\ ~PrefersLight(environment) -> "catppuccin-mocha"
          [] truecolor /\ PrefersLight(environment) -> "catppuccin-latte"
          [] ~truecolor /\ ~PrefersLight(environment) -> "basic-dark"
          [] OTHER -> "basic-light"

ConfiguredTheme(name, environment) ==
    IF name = "auto" THEN Detect(environment)
    ELSE IF name \in ThemeNames THEN name
    ELSE Detect(environment)
=============================================================================
