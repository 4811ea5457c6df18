------------------------------- MODULE Pipeline -------------------------------
(***************************************************************************)
(* One request of the diff worker (pipeline/src/diff) and the binding of   *)
(* the diff engine (vscode-diff): from the two contents that were read of  *)
(* a file to what the viewer is given.                                     *)
(*                                                                         *)
(* A text is a sequence of grapheme clusters, with the terminators of its  *)
(* lines among them.  What is read of a file is an input, and so is what   *)
(* the engine, which is C, answers about it: with all whitespace compared, *)
(* and with that around a line ignored.                                    *)
(***************************************************************************)
EXTENDS Align, Files

CONSTANTS
    Reads,                  \* by name, what is read of a file and answered about it
    IgnoreTrimWhitespace    \* the preference

Cr == <<"cr">>
Lf == <<"lf">>

\* A side that the list has may be absent by the time it is read.
TextContent(text) == [kind |-> "text", text |-> text]
NoText(kind) == [kind |-> kind]

\* A text has clusters of characters between its terminators.
IsCluster(c) == c \in Seq(DOMAIN Characters) /\ c # <<>>
IsText(text) ==
    /\ text \in Seq(Seq(DOMAIN Characters \cup {"cr", "lf"}))
    /\ \A i \in DOMAIN text : text[i] \in {Cr, Lf} \/ IsCluster(text[i])

\* The engine makes the lines of a change from its characters: the last line of
\* these is one of them, unless both sides end where that line begins.
LineRanges == [start : Int, end : Int]
CharRanges == [startLine : Int, startCol : Int, endLine : Int, endCol : Int]
Mappings == [original : LineRanges, modified : LineRanges,
             inner : Seq([original : CharRanges, modified : CharRanges])]
EndsInside(inner, change) ==
    /\ \A v \in Versions : inner[v].startLine <= inner[v].endLine
    /\ \/ \A v \in Versions : inner[v].endLine < change[v].end
       \/ \A v \in Versions : inner[v].endLine <= change[v].end /\ inner[v].endCol = 1
IsAnswer(raw) ==
    \/ raw.isNull
    \/ /\ raw.changes \in Seq(Mappings)
       /\ \A i \in DOMAIN raw.changes : \A j \in DOMAIN raw.changes[i].inner :
             EndsInside(raw.changes[i].inner[j], raw.changes[i])

ReadsAssumption ==
    /\ IsFiniteSet(DOMAIN Reads)
    /\ \A name \in DOMAIN Reads : \A v \in Versions :
          /\ Reads[name][v].kind \in {"text", Binary, Absent, "error"}
          /\ Reads[name][v].kind = "text" => IsText(Reads[name][v].text)
    /\ \A name \in DOMAIN Reads : IsAnswer(Reads[name].exact) /\ IsAnswer(Reads[name].trimmed)
    /\ IgnoreTrimWhitespace \in BOOLEAN
ASSUME ReadsAssumption

-----------------------------------------------------------------------------
(* Lines of a text *)

\* The line that is open is the last one; an LF behind a CR belongs to it.
PutCluster(s, c) ==
    IF c = Lf /\ s.cr THEN [lines |-> s.lines, cr |-> FALSE]
    ELSE IF c \in {Cr, Lf} THEN [lines |-> Append(s.lines, <<>>), cr |-> c = Cr]
    ELSE [lines |-> [s.lines EXCEPT ![Len(s.lines)] = Append(@, c)], cr |-> FALSE]
EditorLines(text) ==
    LET upTo[n \in 0 .. Len(text)] ==
            IF n = 0 THEN [lines |-> <<<<>>>>, cr |-> FALSE] ELSE PutCluster(upTo[n - 1], text[n])
    IN  upTo[Len(text)].lines

\* Contents::version: a version without a text has no lines.
VersionLines(read, v) ==
    IF read[v].kind = "text" THEN EditorLines(read[v].text) ELSE <<>>

-----------------------------------------------------------------------------
(* The engine and its binding *)

Answer(changes) == [isNull |-> FALSE, changes |-> changes]
OutOfMemory == [isNull |-> TRUE]
Failed == [kind |-> "failed"]

DefaultOptions ==
    [ignoreTrimWhitespace |-> FALSE, maxComputationTimeMs |-> 5000,
     computeMoves |-> FALSE, extendToSubwords |-> FALSE]

\* The preference is the only one of the options that the program sets.
EngineOptions == [DefaultOptions EXCEPT !.ignoreTrimWhitespace = IgnoreTrimWhitespace]

EngineAnswer(read, options) ==
    IF options.ignoreTrimWhitespace THEN read.trimmed ELSE read.exact

\* What the engine is given: at least one line, and no NUL in any.
Marshalled(lines) == IF lines = <<>> THEN <<<<>>>> ELSE lines
InteriorNul(lines) == \E i \in DOMAIN lines : "nul" \in ToSet(FlattenSeq(lines[i]))

NonNegative(value) == Greatest(value, 0)
LineRange_(range) == [start |-> NonNegative(range.start), end |-> NonNegative(range.end)]
CharRange_(range) ==
    [startLine |-> NonNegative(range.startLine), startCol |-> NonNegative(range.startCol),
     endLine |-> NonNegative(range.endLine), endCol |-> NonNegative(range.endCol)]
InnerChanges(inner) ==
    [j \in DOMAIN inner |-> [v \in Versions |-> CharRange_(inner[j][v])]]

\* What is kept of the answer; moves are not asked for, and whether the time
\* was up changes nothing that is shown.
TakeDiff(raw) ==
    [i \in DOMAIN raw.changes |->
        LET change == raw.changes[i] IN
        [original |-> LineRange_(change.original), modified |-> LineRange_(change.modified),
         inner |-> InnerChanges(change.inner)]]

Refused(texts, raw) ==
    raw.isNull \/ \E v \in Versions : InteriorNul(Marshalled(texts[v]))

-----------------------------------------------------------------------------
(* The stages *)

SideOf(file) ==
    IF file.original = NoPath THEN "modified"
    ELSE IF file.modified = NoPath THEN "original" ELSE "both"

SingleContent(read, v) ==
    [kind |-> "single", file |-> read.file, side |-> v, lines |-> VersionLines(read, v)]

DiffContent(read, alignment) ==
    IF alignment = Malformed THEN Failed
    ELSE [kind |-> "diff", file |-> read.file, alignment |-> alignment]

ComputedDiff(read, texts, raw) ==
    IF Refused(texts, raw) THEN Failed
    ELSE DiffContent(read, TryWithOptions(TakeDiff(raw), texts.original, texts.modified))

ComputeDiff(read) ==
    IF SideOf(read.file) # "both" THEN SingleContent(read, SideOf(read.file))
    ELSE ComputedDiff(read, [v \in Versions |-> VersionLines(read, v)],
                      EngineAnswer(read, EngineOptions))

\* A file that cannot be read, or of which a side is binary, is not compared.
Compare(read) ==
    IF \E v \in Versions : read[v].kind \in {"error", Binary} THEN Failed
    ELSE ComputeDiff(read)

\* What a request for each file is answered with, one file after the other so
\* that each is computed once.
Answered(name, known) ==
    [n \in DOMAIN known \cup {name} |-> IF n = name THEN Compare(Reads[name]) ELSE known[n]]
Contents == FoldSet(Answered, <<>>, DOMAIN Reads)
=============================================================================
