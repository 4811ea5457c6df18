------------------------------ MODULE Highlight ------------------------------
(***************************************************************************)
(* One file is coloured in pieces (crates/syntax, without its worker): the *)
(* clues that choose a grammar, the two engines, TextMate line by line and *)
(* Tree-sitter for the whole file, and the reading that is resumed.        *)
(*                                                                         *)
(* A line is a sequence of tokens of one byte.  The grammars are external; *)
(* the ones here know strings, which "(" opens and ")" closes, over any    *)
(* number of lines, keywords "k", the one name there is, where it is       *)
(* defined, "d", and where it is used, "w", and "!", where they fail.      *)
(* What is in a string may be text of another language, of which only      *)
(* keywords and names are known there.  Bytes are counted from 0.          *)
(***************************************************************************)
EXTENDS Naturals, FiniteSets, SequencesExt

CONSTANTS
    Scopes,      \* scopes.rs: a sequence of [selector, group, emphasis]
    Names,       \* captures.rs: a sequence of [name, group]
    Languages,   \* languages.rs: a sequence of Tree-sitter languages
    Syntaxes,    \* a sequence of TextMate grammars
    WellKnown,   \* detect.rs: file names, in lower case, and their syntaxes
    Lower,       \* to_ascii_lowercase of the words used
    MaxBytes, MaxLines, MaxLineChars,
    Files        \* the files to colour

VARIABLES
    file,      \* the file that is coloured
    grammar,   \* the grammar found for it
    reading,   \* how far it has been read, and what is needed to go on
    spans,     \* what has been returned so far, line by line
    asked      \* the lines asked for so far
readingVars == <<file, grammar, reading, spans, asked>>

Uncoloured == "none"
Least(a, b) == IF a <= b THEN a ELSE b

-----------------------------------------------------------------------------
(* Clues.  A path is a sequence of names, a name the parts between its      *)
(* dots, and so is every other word; a shebang is the words behind the mark.*)

Nothing == <<>>

FileName(f) == Last(f.path)

Extension(f) ==
    LET name == FileName(f)
        stem == IF Len(name) > 1 /\ name[1] = "" THEN Tail(name) ELSE name
    IN  IF Len(stem) > 1 THEN <<Last(stem)>> ELSE Nothing

LowerName(name) == [i \in DOMAIN name |-> Lower[name[i]]]
WellKnownSyntax(f) ==
    LET name == LowerName(FileName(f))
    IN  IF name \in DOMAIN WellKnown THEN WellKnown[name] ELSE Nothing

\* The command, or the first word behind env that assigns nothing.
Shebang(f) ==
    IF f.shebang = <<>> THEN Nothing
    ELSE IF f.shebang[1].command # <<"env">> THEN f.shebang[1].command
    ELSE LET words == SelectSeq(Tail(f.shebang), LAMBDA w : ~w.assigns)
         IN  IF words = <<>> THEN Nothing ELSE words[1].command

\* The first language that knows any of the clues.
LanguageOf(name, extension, shebang) ==
    SelectInSeq(Languages, LAMBDA p : \/ name \in p.fileNames
                                     \/ extension \in p.extensions
                                     \/ shebang \in p.shebangs)
FindTree(f) == LanguageOf(FileName(f), LowerName(Extension(f)), Shebang(f))

SyntaxNamed(name) == SelectInSeq(Syntaxes, LAMBDA s : s.name = name)
SyntaxWithExtension(word) == SelectInSeq(Syntaxes, LAMBDA s : word \in s.extensions)
SyntaxOfToken(word) == SelectInSeq(Syntaxes, LAMBDA s : word \in s.extensions \cup {s.name})

\* The first clue that names a syntax.
FirstFound(found) ==
    LET at == SelectInSeq(found, LAMBDA n : n # 0) IN IF at = 0 THEN 0 ELSE found[at]
FindTextMate(f) ==
    FirstFound(<<SyntaxNamed(WellKnownSyntax(f)), SyntaxWithExtension(Extension(f)),
                 SyntaxWithExtension(FileName(f)), SyntaxOfToken(Shebang(f))>>)

Preferred(tree, textMate) ==
    IF tree # 0 THEN [kind |-> "tree", at |-> tree]
    ELSE IF textMate # 0 THEN [kind |-> "textMate", at |-> textMate]
    ELSE [kind |-> Uncoloured, at |-> 0]
Find(f) == Preferred(FindTree(f), FindTextMate(f))

WorthHighlighting(bytes, lines) == bytes <= MaxBytes /\ lines <= MaxLines
WorthColouring(line) == Len(line) <= MaxLineChars

-----------------------------------------------------------------------------
(* Styles and spans *)

NoPen == 65536
Plain == [pen |-> NoPen, emphasis |-> {}]
WithPen(pen) == [Plain EXCEPT !.pen = pen]
Span(from, to, style) == [from |-> from, to |-> to, style |-> style]

(* The tables.  A scope's selector and a capture's name are the words       *)
(* between their dots; a language's queries name the captures of each kind  *)
(* of node, the language that a kind of node holds the text of, and whether *)
(* a name that is used is looked up.                                        *)
Groups ==
    {"comment", "string", "character", "escape", "regexp", "constant", "keyword", "operator",
     "preprocessor", "type", "function", "library", "variable", "builtin", "parameter",
     "property", "namespace", "label", "punctuation", "tag", "attribute", "invalid", "heading",
     "link", "reference", "raw", "list", "quote", "emphasis", "inserted", "deleted"}

ScopeRows ==
    [selector : Seq(STRING), group : Groups, emphasis : SUBSET {"bold", "italic", "underline"}]

NameRows == [name : Seq(STRING), group : Groups]

\* A query that fails to compile, of the three, leaves its language without colours.
LanguageRows ==
    [name : STRING, compiles : BOOLEAN,
     highlights : Seq(Seq([node : STRING, captures : Seq(Seq(STRING))])),
     injections : Seq([node : STRING, language : STRING]), locals : BOOLEAN,
     fileNames : SUBSET Seq(STRING), extensions : SUBSET Seq(STRING),
     shebangs : SUBSET Seq(STRING)]

\* What is coloured is lines.
HaveLines == \A f \in Files : f.lines \in Seq(Seq(STRING))

\* What the tables keep, two of their tests among it: no row is unreachable behind another.
ASSUME HighlightAssumption ==
    /\ HaveLines
    /\ Scopes \in Seq(ScopeRows)
    /\ \A m, n \in DOMAIN Scopes : Scopes[m].selector = Scopes[n].selector => m = n
    /\ Names \in Seq(NameRows)
    /\ \A m, n \in DOMAIN Names : Names[m].name = Names[n].name => m = n
    /\ Len(Scopes) + Len(Names) < NoPen
    /\ Languages \in Seq(LanguageRows)
    /\ \A n \in DOMAIN Languages : \A e \in Languages[n].extensions : LowerName(e) = e

\* Pens number the TextMate rules from 0, and the captures behind them.
Rules == [n \in DOMAIN Scopes |->
            [selector |-> Scopes[n].selector,
             style |-> [pen |-> n - 1, emphasis |-> Scopes[n].emphasis]]]
Captures == [n \in DOMAIN Names |->
               [name |-> Names[n].name, style |-> WithPen(Len(Scopes) + n - 1)]]
Group(pen) ==
    IF pen < Len(Scopes) THEN Scopes[pen + 1].group ELSE Names[pen - Len(Scopes) + 1].group

\* A mutant: what lies between two spans of a style is taken in.
CoalesceOverGaps(list) ==
    FoldLeft(LAMBDA out, s :
                IF s.from >= s.to \/ s.style = Plain THEN out
                ELSE IF out # <<>> /\ Last(out).style = s.style
                THEN [out EXCEPT ![Len(out)].to = s.to]
                ELSE Append(out, s), <<>>, list)

Coalesce(list) ==
    FoldLeft(LAMBDA out, s :
                IF s.from >= s.to \/ s.style = Plain THEN out
                ELSE IF out # <<>> /\ Last(out).style = s.style /\ Last(out).to = s.from
                THEN [out EXCEPT ![Len(out)].to = s.to]
                ELSE Append(out, s), <<>>, list)

-----------------------------------------------------------------------------
(* TextMate.  A colour is its red, green, blue and opacity.                 *)

Encode(pen) == <<pen \div 256, pen % 256, 0, 255>>
Unclaimed == <<0, 0, 0, 0>>
Decode(colour) == IF colour[4] = 0 THEN NoPen ELSE colour[1] * 256 + colour[2]

Theme == [n \in DOMAIN Rules |->
            [selector |-> Rules[n].selector, foreground |-> Encode(Rules[n].style.pen),
             fontStyle |-> Rules[n].style.emphasis]]
Convert(style) == [pen |-> Decode(style.foreground), emphasis |-> style.fontStyle]

\* The rule for the innermost scope any rule knows, the longest if several do.
Weight(selector, stack) ==
    LET known == {d \in DOMAIN stack : IsPrefix(selector, stack[d])}
    IN  IF known = {} THEN 0 ELSE Max(known) * 10 + Len(selector)
Styled(theme, weights) ==
    LET best == CHOOSE n \in DOMAIN theme : \A m \in DOMAIN theme : weights[m] <= weights[n]
    IN  IF weights[best] = 0 THEN [foreground |-> Unclaimed, fontStyle |-> {}]
        ELSE [foreground |-> theme[best].foreground, fontStyle |-> theme[best].fontStyle]
StyleFor(theme, stack) ==
    Styled(theme, [n \in DOMAIN theme |-> Weight(theme[n].selector, stack)])

Push(at, scope) == [at |-> at, push |-> scope]
Pop(at) == [at |-> at, push |-> Nothing]

\* One token: what it does to the scopes, and where.
ParseToken(g, s, token) ==
    LET inString == Last(s.stack) = g.string
        step == [s EXCEPT !.at = @ + 1]
    IN  IF s.failed THEN s
        ELSE IF token = "!" THEN [s EXCEPT !.failed = TRUE]
        ELSE IF token = "(" /\ ~inString
        THEN [step EXCEPT !.stack = Append(@, g.string), !.ops = Append(@, Push(s.at, g.string))]
        ELSE IF token = ")" /\ inString
        THEN [step EXCEPT !.stack = Front(@), !.ops = Append(@, Pop(s.at + 1))]
        ELSE IF token = "k" /\ ~inString
        THEN [step EXCEPT !.ops = @ \o <<Push(s.at, g.keyword), Pop(s.at + 1)>>]
        ELSE step

\* A line's operations.  The first line begins with the scope of the file.
ParseLine(g, stack, line) ==
    FoldLeft(LAMBDA s, token : ParseToken(g, s, token),
             [failed |-> FALSE, at |-> 0,
              stack |-> IF stack = <<>> THEN <<g.source>> ELSE stack,
              ops |-> IF stack = <<>> THEN <<Push(0, g.source)>> ELSE <<>>],
             line)

Applied(stack, op) ==
    IF op.push # Nothing THEN Append(stack, op.push)
    ELSE IF stack = <<>> THEN stack ELSE Front(stack)
AllApplied(stack, ops) == FoldLeft(Applied, stack, ops)

\* The regions between the operations, the last of them with the newline.
Regions(theme, stack, ops, length) ==
    FoldLeft(LAMBDA s, op :
                [stack |-> Applied(s.stack, op), at |-> op.at,
                 out |-> Append(s.out, Span(s.at, op.at, Convert(StyleFor(theme, s.stack))))],
             [stack |-> stack, at |-> 0, out |-> <<>>], Append(ops, Pop(length + 1))).out

\* The newline is not part of the line.
SpansOf(regions, length) ==
    Coalesce([i \in DOMAIN regions |-> [regions[i] EXCEPT !.to = Least(@, length)]])

\* A line that is too long, or fails, moves the parser and not the scopes that
\* colours are taken from.
ReadParsed(s, line, parsed) ==
    IF parsed.failed \/ ~WorthColouring(line)
    THEN [s EXCEPT !.parse = parsed.stack, !.out = Append(@, <<>>)]
    ELSE [parse |-> parsed.stack, highlight |-> AllApplied(s.highlight, parsed.ops),
          out |-> Append(s.out, SpansOf(Regions(Theme, s.highlight, parsed.ops, Len(line)),
                                        Len(line)))]
ReadLine(g, s, line) == ReadParsed(s, line, ParseLine(g, s.parse, line))

ReadTextMate(state, lines) ==
    LET upTo[n \in 0 .. Len(lines)] ==
            IF n = 0 THEN [parse |-> state.parse, highlight |-> state.highlight, out |-> <<>>]
            ELSE ReadLine(Syntaxes[state.at], upTo[n - 1], lines[n])
    IN  upTo[Len(lines)]

-----------------------------------------------------------------------------
(* Tree-sitter.  A query is its patterns, each a node and its captures.     *)

Ignored == {<<"spell">>, <<"nospell">>, <<"conceal">>, <<"none">>}

WithoutMetadata(query) ==
    [i \in DOMAIN query |->
        [query[i] EXCEPT !.captures = SelectSeq(@, LAMBDA c : c \notin Ignored)]]

\* The highlight queries joined, with the other two.
Config(p) ==
    [highlights |-> WithoutMetadata(FlattenSeq(p.highlights)),
     injections |-> p.injections, locals |-> p.locals]

\* The configuration an injection names: of the first language of that name, if
\* that compiles.
ConfigNamed(name) ==
    LET at == SelectInSeq(Languages, LAMBDA p : p.name = name)
    IN  IF at = 0 THEN <<>>
        ELSE IF Languages[at].compiles THEN <<Config(Languages[at])>> ELSE <<>>

\* configure: the recognised name of the most words, all of them the capture's.
Recognised(capture) ==
    FoldLeft(LAMBDA best, n :
                IF ToSet(Captures[n].name) \subseteq ToSet(capture)
                   /\ (best = 0 \/ Len(Captures[n].name) > Len(Captures[best].name))
                THEN n ELSE best,
             0, [n \in DOMAIN Captures |-> n])
StyleOfCapture(capture) ==
    LET at == Recognised(capture) IN IF at = 0 THEN <<>> ELSE <<Captures[at].style>>

\* The style of a node: its last pattern's last capture, if that is recognised.
PatternsOf(config, node) ==
    SelectSeq(config.highlights, LAMBDA q : q.node = node /\ q.captures # <<>>)
StyleOfPatterns(patterns) ==
    IF patterns = <<>> THEN <<>> ELSE StyleOfCapture(Last(Last(patterns).captures))

Nodes == {"string", "keyword", "definition", "word"}
Unstyled == [node \in Nodes |-> <<>>]
StylesOf(config) == [node \in Nodes |-> StyleOfPatterns(PatternsOf(config, node))]

\* The language of the text in a kind of node.
Injected(config, node) ==
    LET named == SelectSeq(config.injections, LAMBDA i : i.node = node)
    IN  IF named = <<>> THEN <<>> ELSE ConfigNamed(named[1].language)
StylesWithin(injected) == IF injected = <<>> THEN Unstyled ELSE StylesOf(injected[1])

\* A name is looked up where it is used, and only where a pattern captures it.
AllStyles(config) ==
    [outside |-> StylesOf(config), within |-> StylesWithin(Injected(config, "string")),
     follow |-> config.locals /\ PatternsOf(config, "word") # <<>>]

Event(kind, from, to, style) == [kind |-> kind, from |-> from, to |-> to, style |-> style]

\* What lies behind the last event, up to a byte.
Flushed(s, to) ==
    IF s.from = to THEN s
    ELSE [s EXCEPT !.events = Append(@, Event("source", s.from, to, <<>>)), !.from = to]
Marked(s, kind, at, style) ==
    IF style = <<>> THEN s ELSE [s EXCEPT !.events = Append(@, Event(kind, at, at, style))]
Opened(s, at, style) == Marked(Flushed(s, at), "start", at, style)
Closed(s, at, style) == Marked(Flushed(s, at), "end", at, style)

NodeOf == [token \in {"k", "d", "w"} |->
             CASE token = "k" -> "keyword" [] token = "d" -> "definition" [] OTHER -> "word"]

\* The style of a token: a name that is looked up has that of its definition.
TokenStyle(styles, s, token) ==
    IF s.inString THEN styles.within[NodeOf[token]]
    ELSE IF token = "w" /\ styles.follow /\ s.defined # <<>> THEN s.defined
    ELSE styles.outside[NodeOf[token]]
Defined(styles, s, token) ==
    IF token = "d" /\ ~s.inString THEN [s EXCEPT !.defined = styles.outside.definition] ELSE s

TreeToken(styles, s, token) ==
    LET step == [s EXCEPT !.at = @ + 1]
    IN  IF s.failed THEN s
        ELSE IF token = "!"
        THEN [Flushed(s, s.at) EXCEPT !.failed = TRUE,
                                      !.events = Append(@, Event("error", s.at, s.at, <<>>))]
        ELSE IF token = "(" /\ ~s.inString
        THEN Opened([step EXCEPT !.inString = TRUE], s.at, styles.outside.string)
        ELSE IF token = ")" /\ s.inString
        THEN Closed([step EXCEPT !.inString = FALSE], s.at + 1, styles.outside.string)
        ELSE IF token \in DOMAIN NodeOf
        THEN LET style == TokenStyle(styles, s, token)
             IN  Closed(Opened(Defined(styles, step, token), s.at, style), s.at + 1, style)
        ELSE step

\* The events of a source; a string that nothing closes ends with it.
Ended(styles, s, end) ==
    IF s.failed THEN s.events
    ELSE IF s.inString THEN Closed(s, end, styles.outside.string).events
    ELSE Flushed(s, end).events
EventsOf(styles, source) ==
    Ended(styles, FoldLeft(LAMBDA s, token : TreeToken(styles, s, token),
                           [failed |-> FALSE, at |-> 0, from |-> 0, inString |-> FALSE,
                            defined |-> <<>>, events |-> <<>>], source), Len(source))
Events(config, source) == EventsOf(AllStyles(config), source)

Source(lines) == FlattenSeq([i \in DOMAIN lines |-> Append(lines[i], "newline")])
Starts(lines) == [i \in DOMAIN lines |-> Len(Source(SubSeq(lines, 1, i - 1)))]

\* The part of a source's range that is on the n-th line.
Part(from, to, style) == IF from < to THEN <<Span(from, to, style)>> ELSE <<>>
Monus(a, b) == IF a > b THEN a - b ELSE 0
PartOn(e, start, length, style) ==
    Part(Monus(e.from, start), Monus(Least(e.to, start + length), start), style)

\* From the last line that starts at or before the range, to its end.
Spread(out, e, style, starts, lines) ==
    LET begun == Cardinality({n \in DOMAIN starts : starts[n] <= e.from})
        first == IF begun = 0 THEN 1 ELSE begun
    IN  [n \in DOMAIN out |->
            IF n >= first /\ starts[n] < e.to
            THEN out[n] \o PartOn(e, starts[n], Len(lines[n]), style) ELSE out[n]]

\* The innermost capture open gives the style.  An error ends the walk, with
\* the spans as they are.
Painted(s, e, starts, lines) ==
    IF s.failed THEN s
    ELSE CASE e.kind = "start" -> [s EXCEPT !.open = Append(@, e.style[1])]
           [] e.kind = "end" -> [s EXCEPT !.open = Front(@)]
           [] e.kind = "error" -> [s EXCEPT !.failed = TRUE]
           [] OTHER -> IF s.open = <<>> THEN s
                       ELSE [s EXCEPT !.out = Spread(@, e, Last(s.open), starts, lines)]

Merged(s, lines) ==
    [n \in DOMAIN lines |-> IF s.failed THEN s.out[n] ELSE Coalesce(s.out[n])]
AllPainted(config, starts, lines) ==
    FoldLeft(LAMBDA s, e : Painted(s, e, starts, lines),
             [open |-> <<>>, failed |-> FALSE, out |-> [n \in DOMAIN lines |-> <<>>]],
             Events(config, Source(lines)))
Paint(config, starts, lines) == Merged(AllPainted(config, starts, lines), lines)

\* A language whose query does not compile leaves its lines plain.
ColourTree(p, lines) ==
    IF ~p.compiles THEN [n \in DOMAIN lines |-> <<>>]
    ELSE Paint(Config(p), Starts(lines), lines)

-----------------------------------------------------------------------------
(* The reading *)

Finished == [kind |-> Uncoloured]

StartEngine(g) ==
    IF g.kind = "tree" THEN [kind |-> "tree", at |-> g.at]
    ELSE [kind |-> "textMate", at |-> g.at, parse |-> <<>>, highlight |-> <<>>]

NewReading(g, lines) ==
    [coloured |-> 0,
     state |-> IF g.kind # Uncoloured /\ WorthHighlighting(Len(Source(lines)), Len(lines))
               THEN StartEngine(g) ELSE Finished]

\* A mutant: every piece is read by a parser that starts with it.
AfterForgetting(state, read) == [state |-> state, out |-> read.out]

\* Engine::colour: the new state and the spans.
AfterTextMate(state, read) ==
    [state |-> [state EXCEPT !.parse = read.parse, !.highlight = read.highlight],
     out |-> read.out]
Colour(state, lines, from, to) ==
    IF state.kind = "tree"
    THEN [state |-> state, out |-> ColourTree(Languages[state.at], lines)]
    ELSE AfterTextMate(state, ReadTextMate(state, SubSeq(lines, from + 1, to)))

\* Highlighted::read_to, with what it appends.
After(coloured, total, read) ==
    [reading |-> [coloured |-> coloured + Len(read.out),
                  state |-> IF coloured + Len(read.out) >= total THEN Finished ELSE read.state],
     out |-> read.out]
ReadTo(r, lines, target) ==
    IF r.coloured >= target \/ r.state = Finished THEN [reading |-> r, out |-> <<>>]
    ELSE After(r.coloured, Len(lines), Colour(r.state, lines, r.coloured, target))

ReadingInit ==
    /\ file \in Files
    /\ grammar = Find(file)
    /\ reading = NewReading(grammar, file.lines)
    /\ spans = <<>>
    /\ asked = 0

Appended(read) == reading' = read.reading /\ spans' = spans \o read.out
ReadColoursToLine(line) ==
    /\ Appended(ReadTo(reading, file.lines, Least(line + 1, Len(file.lines))))
    /\ asked' = IF line + 1 > asked THEN line + 1 ELSE asked
    /\ UNCHANGED <<file, grammar>>

ReadingNext == \E line \in 0 .. Len(file.lines) : ReadColoursToLine(line)

ReadingSpec == ReadingInit /\ [][ReadingNext]_readingVars

-----------------------------------------------------------------------------
(* Properties *)

\* A file read in pieces, in whatever order it is asked for, gets the colours
\* of a file read at once, a list for every line; and every request ends in
\* one of the ways the worker counts on: at the line asked for, at the end of
\* the file, or at once for a file that is not coloured (highlighted.rs).
ReadingIsWhole ==
    LET n == Len(file.lines)
        begun == NewReading(grammar, file.lines)
    IN  /\ spans = SubSeq(ReadTo(begun, file.lines, n).out, 1, reading.coloured)
        /\ \/ reading.coloured = Least(asked, n)
           \/ asked > 0 /\ reading.coloured = n
           \/ reading.coloured = 0 /\ begun.state = Finished
        /\ reading.state = Finished <=>
              begun.state = Finished \/ (n > 0 /\ reading.coloured = n)

\* What a byte is: in a string or not, by the last bracket before it, and what
\* its token is.
BytesBefore(lines, n, i) == Source(SubSeq(lines, 1, n - 1)) \o SubSeq(lines[n], 1, i - 1)
InString(before) ==
    LET brackets == {j \in DOMAIN before : before[j] \in {"(", ")"}}
    IN  brackets # {} /\ before[Max(brackets)] = "("
KindOf(token) ==
    CASE token = "k" -> "keyword" [] token = "d" -> "definition" [] token = "w" -> "word"
      [] OTHER -> "other"

\* The group a language gives to a node: that of its last capture which is no
\* metadata, by the first of the longest names whose words the capture has.
GroupOfCapture(capture) ==
    LET fitting == {n \in DOMAIN Names : ToSet(Names[n].name) \subseteq ToSet(capture)}
        longest == {n \in fitting : \A m \in fitting : Len(Names[m].name) <= Len(Names[n].name)}
    IN  IF fitting = {} THEN Uncoloured
        ELSE Names[CHOOSE n \in longest : \A m \in longest : n <= m].group
GroupOfNode(p, node) ==
    LET query == FlattenSeq(p.highlights)
        captured == UNION {{<<i, j>> : j \in {k \in DOMAIN query[i].captures :
                                                 query[i].captures[k] \notin Ignored}} :
                           i \in {k \in DOMAIN query : query[k].node = node}}
        last == CHOOSE c \in captured :
                   \A d \in captured : d[1] < c[1] \/ (d[1] = c[1] /\ d[2] <= c[2])
    IN  IF captured = {} THEN Uncoloured ELSE GroupOfCapture(query[last[1]].captures[last[2]])

\* The language of a string's text, where there is one that compiles.
LanguageWithin(p) ==
    {q \in ToSet(Languages) :
        q.compiles /\ [node |-> "string", language |-> q.name] \in ToSet(p.injections)}

\* The innermost: what a string's text is coloured as, or the string; what a name
\* was defined as, if there is such a colour, or the name.
TreeGroup(p, before, token) ==
    LET inString == InString(before)
        within == {GroupOfNode(q, KindOf(token)) : q \in LanguageWithin(p)} \ {Uncoloured}
        defined == \E j \in DOMAIN before : before[j] = "d" /\ ~InString(SubSeq(before, 1, j - 1))
        known == p.locals /\ defined /\ GroupOfNode(p, "definition") # Uncoloured
                 /\ \E q \in ToSet(FlattenSeq(p.highlights)) : q.node = "word"
    IN  CASE ~p.compiles -> Uncoloured
          [] inString /\ token # ")" /\ within # {} -> CHOOSE group \in within : TRUE
          [] inString \/ token = "(" -> GroupOfNode(p, "string")
          [] ~inString /\ token = "w" /\ known -> GroupOfNode(p, "definition")
          [] OTHER -> GroupOfNode(p, KindOf(token))

\* The group the scopes give: that of the longest selector of the innermost.
TextMateGroup(s, before, token) ==
    LET scope == IF InString(before) \/ token = "(" THEN s.string
                 ELSE IF token = "k" THEN s.keyword ELSE <<>>
        known == {r \in ToSet(Scopes) : IsPrefix(r.selector, scope)}
    IN  IF known = {} THEN Uncoloured
        ELSE (CHOOSE r \in known : \A t \in known : Len(t.selector) <= Len(r.selector)).group

GroupOf(g, lines, n, i) ==
    LET before == BytesBefore(lines, n, i) IN
    IF g.kind = "tree" THEN TreeGroup(Languages[g.at], before, lines[n][i])
    ELSE TextMateGroup(Syntaxes[g.at], before, lines[n][i])

\* Spans in order and apart, no two where one would do, that give each byte of
\* the line its group.
RightSpans(n) ==
    LET line == file.lines[n]
        mine == spans[n]
        Covering(i) == {j \in DOMAIN mine : mine[j].from < i /\ i <= mine[j].to}
    IN  /\ \A j \in DOMAIN mine : mine[j].from < mine[j].to /\ mine[j].to <= Len(line)
        /\ \A j \in 1 .. Len(mine) - 1 :
              \/ mine[j].to < mine[j + 1].from
              \/ mine[j].to = mine[j + 1].from /\ mine[j].style # mine[j + 1].style
        /\ \A i \in DOMAIN line :
              LET group == GroupOf(grammar, file.lines, n, i) IN
              IF group = Uncoloured THEN Covering(i) = {}
              ELSE \E j \in Covering(i) : Group(mine[j].style.pen) = group

Fails(f) == \E n \in DOMAIN f.lines : "!" \in ToSet(f.lines[n])
Long(f) == {n \in DOMAIN f.lines : ~WorthColouring(f.lines[n])}

\* A line's spans are the groups of its scopes or captures, through pens,
\* colours and byte ranges, though strings go over many lines, pieces end within
\* them, one language is embedded in another, and a name is coloured as what
\* defined it.  Left out are files that a grammar fails on; lines over the colour
\* limit, which the code does not colour in a file of TextMate and does in one of
\* Tree-sitter, though tests/nasty.rs:70 has it that "the long line is not
\* coloured"; and what is behind such a line in a file of TextMate: the parser
\* reads it, the stack that gives the colours does not (syntect.rs:126).
SpansFollowTheScopes ==
    \A n \in DOMAIN spans \ Long(file) :
        ~Fails(file) /\ (grammar.kind = "textMate" => \A l \in Long(file) : n < l)
        => RightSpans(n)
==============================================================================
