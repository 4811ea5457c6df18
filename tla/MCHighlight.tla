----------------------------- MODULE MCHighlight -----------------------------
(* Files of three lines in six kinds: two for Tree-sitter, the first with   *)
(* strings that hold the second's text, the second with a language in its   *)
(* strings that does not compile and with names that are looked up, one of  *)
(* that language, one for TextMate, and two that nobody knows.              *)
EXTENDS Highlight

Scope(selector, group, emphasis) ==
    [selector |-> selector, group |-> group, emphasis |-> emphasis]
MCScopes == <<Scope(<<"string">>, "string", {}), Scope(<<"keyword">>, "keyword", {"bold"}),
              Scope(<<"string", "quoted">>, "character", {"italic"})>>
Name(words, group) == [name |-> words, group |-> group]
MCNames ==
    <<Name(<<"string">>, "string"), Name(<<"string", "special", "key">>, "property"),
      Name(<<"keyword">>, "keyword"), Name(<<"keyword", "import">>, "namespace"),
      Name(<<"variable">>, "variable"), Name(<<"variable", "parameter">>, "parameter"),
      Name(<<"comment">>, "comment")>>

Pattern(node, captures) == [node |-> node, captures |-> captures]
Text(node, language) == [node |-> node, language |-> language]
Language(name, compiles, highlights, injections, locals, clues) ==
    [name |-> name, compiles |-> compiles, highlights |-> highlights,
     injections |-> injections, locals |-> locals, fileNames |-> clues.fileNames,
     extensions |-> clues.extensions, shebangs |-> clues.shebangs]
Clues(fileNames, extensions, shebangs) ==
    [fileNames |-> fileNames, extensions |-> extensions, shebangs |-> shebangs]
MCLanguages ==
    <<Language("rust", TRUE,
               <<<<Pattern("string", <<<<"comment">>, <<"string", "special">>, <<"spell">>>>),
                   Pattern("word", <<<<"spell">>>>)>>,
                 <<Pattern("keyword", <<<<"keyword">>>>)>>>>,
               <<Text("string", "script")>>, FALSE, Clues({}, {<<"rs">>}, {})),
      Language("script", TRUE,
               <<<<Pattern("keyword", <<<<"keyword">>>>),
                   Pattern("word", <<<<"variable">>>>), Pattern("string", <<<<"string">>>>),
                   Pattern("definition", <<<<"variable", "local", "parameter">>>>)>>,
                 <<Pattern("keyword", <<<<"keyword", "control", "import">>>>)>>>>,
               <<Text("string", "python")>>, TRUE, Clues({}, {<<"js">>}, {})),
      Language("python", FALSE,
               <<<<Pattern("string", <<<<"string">>>>), Pattern("keyword", <<<<"keyword">>>>)>>>>,
               <<>>, FALSE, Clues({<<"BUILD">>}, {<<"py">>}, {<<"python">>}))>>
MCSyntaxes ==
    <<[name |-> <<"Makefile">>, extensions |-> {<<"mk">>}, source |-> <<"source", "make">>,
       string |-> <<"string", "quoted", "double">>, keyword |-> <<"keyword">>]>>
MCWellKnown == [name \in {<<"makefile">>} |-> <<"Makefile">>]
MCLower == [w \in {"a", "rs", "RS", "js", "py", "mk", "Makefile", "run", "", "txt"} |->
              CASE w = "RS" -> "rs" [] w = "Makefile" -> "makefile" [] OTHER -> w]

Word(command, assigns) == [command |-> <<command>>, assigns |-> assigns]
Env == <<Word("env", FALSE), Word("LANG", TRUE), Word("python", FALSE)>>
Kinds == {[path |-> <<<<"a", "js">>>>, shebang |-> <<>>],
          [path |-> <<<<"src">>, <<"", "a", "RS">>>>, shebang |-> <<>>],
          [path |-> <<<<"run">>>>, shebang |-> Env],
          [path |-> <<<<"Makefile">>>>, shebang |-> <<>>],
          [path |-> <<<<"a", "mk">>>>, shebang |-> <<>>],
          [path |-> <<<<"", "txt">>>>, shebang |-> <<Word("env", FALSE)>>]}
Lines == {<<>>, <<"k", "k">>, <<"k", "w", "k">>, <<"w", "(", "k">>, <<"d", "w">>,
          <<"(", "d", "w">>, <<"k", ")", "k">>, <<"(", ")">>, <<"w", "(", "k", ")", "w">>,
          <<"(", "k", "w", "k", "w">>, <<"k", "k", "!", "k">>}
MCFiles == {[path |-> k.path, shebang |-> k.shebang, lines |-> lines] :
              k \in Kinds, lines \in {<<<<>>, <<>>, <<>>, <<>>>>} \cup UNION {[1 .. n -> Lines] : n \in {0, 1, 3}}}
==============================================================================
