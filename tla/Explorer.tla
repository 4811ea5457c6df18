------------------------------- MODULE Explorer -------------------------------
(***************************************************************************)
(* The list of changed files (ui/src/components/explorer): the tree or the *)
(* plain list that is made of the files, how an item is found again, and   *)
(* what of an item fits on its line.                                       *)
(*                                                                         *)
(* No name is the beginning of another one, so that joined names compare   *)
(* like the sequences of their names.                                      *)
(***************************************************************************)
EXTENDS Files, LineIndex

CONSTANTS
    LowerRank,  \* the order of the names in lower case
    ByteRank,   \* the order of their bytes
    TextOf      \* the text of a name, as a line of LineIndex

NoFile == File(NoPath, NoPath, Revs(Index, Worktree))

-----------------------------------------------------------------------------
(* Items: a tree of directories and files *)

FileItem(name, file) == [dir |-> FALSE, name |-> <<name>>, file |-> file, children |-> <<>>]
Directory(name, children) ==
    [dir |-> TRUE, name |-> name, file |-> NoFile, children |-> children]

RECURSIVE FirstFile(_)
FirstFile(item) == IF item.dir THEN FirstFile(item.children[1]) ELSE item.file

\* The directories on the way are those of an earlier file, if there are any.
RECURSIVE Insert(_, _, _)
Insert(items, path, file) ==
    LET at == SelectInSeq(items, LAMBDA i : i.dir /\ i.name = <<path[1]>>)
        rest == Tail(path)
    IN  IF rest = <<>> THEN Append(items, FileItem(path[1], file))
        ELSE IF at = 0 THEN Append(items, Directory(<<path[1]>>, Insert(<<>>, rest, file)))
        ELSE [items EXCEPT ![at].children = Insert(items[at].children, rest, file)]

\* A mutant: the joined directory has the name of the inner one.
RECURSIVE FlattenToInner(_)
FlattenToInner(items) ==
    [i \in DOMAIN items |->
        LET children == FlattenToInner(items[i].children)
        IN  IF Len(children) = 1 /\ children[1].dir THEN children[1]
            ELSE [items[i] EXCEPT !.children = children]]

\* A directory whose only child is a directory is one with it.
RECURSIVE Flatten(_)
Flatten(items) ==
    [i \in DOMAIN items |->
        LET children == Flatten(items[i].children)
        IN  IF Len(children) = 1 /\ children[1].dir
            THEN [items[i] EXCEPT !.name = @ \o children[1].name,
                                  !.children = children[1].children]
            ELSE [items[i] EXCEPT !.children = children]]

Ranks(name, rank) == [i \in DOMAIN name |-> rank[name[i]]]
Precedes(a, b) ==
    \/ \E n \in DOMAIN a \cap DOMAIN b : a[n] < b[n] /\ \A k \in 1 .. n - 1 : a[k] = b[k]
    \/ Len(a) < Len(b) /\ \A k \in DOMAIN a : a[k] = b[k]

\* The elements in an order, equal ones as they came.
StableSort(s, Less(_, _)) ==
    LET Before(i, j) == Less(s[i], s[j]) \/ (~Less(s[j], s[i]) /\ i < j)
        place == [j \in DOMAIN s |-> Cardinality({i \in DOMAIN s : Before(i, j)}) + 1]
    IN  [k \in DOMAIN s |-> s[CHOOSE j \in DOMAIN s : place[j] = k]]

\* Directories first, then by name, whatever its case.
ItemLess(a, b) ==
    \/ a.dir /\ ~b.dir
    \/ a.dir = b.dir /\ Precedes(Ranks(a.name, LowerRank), Ranks(b.name, LowerRank))

RECURSIVE Sort(_)
Sort(items) ==
    LET sorted == StableSort(items, ItemLess)
    IN  [i \in DOMAIN sorted |-> [sorted[i] EXCEPT !.children = Sort(sorted[i].children)]]

-----------------------------------------------------------------------------
(* Nodes: what the lines of the list show *)

Node == [kind |-> "heading", indent |-> <<>>, name |-> <<>>, path |-> NoPath,
         revs |-> Revs(Index, Worktree), open |-> FALSE, file |-> NoFile,
         count |-> 0, stats |-> NoStats]
DirectoryNode(indent, name, path, revs, open) ==
    [Node EXCEPT !.kind = "directory", !.indent = indent, !.name = name, !.path = path,
                 !.revs = revs, !.open = open]
FileNode(indent, name, file) ==
    [Node EXCEPT !.kind = "file", !.indent = indent, !.name = name, !.file = file]

DirectoryKey(path, revs) == <<Heading(revs)>> \o path

\* What is drawn before a name, two cells for each level: whether an ancestor
\* was the last of its siblings, and whether the node is.
Markers(ancestors, isLast) ==
    Append([i \in DOMAIN ancestors |-> IF ancestors[i] THEN "blank" ELSE "bar"],
           IF isLast THEN "end" ELSE "tee")

RECURSIVE BuildNodes(_, _, _, _)
BuildNodes(items, ancestors, prefix, folded) ==
    LET NodesOf(i) ==
            LET item == items[i]
                isLast == i = Len(items)
                indent == Markers(ancestors, isLast)
                path == prefix \o item.name
                revs == RevsOf(FirstFile(item))
                open == DirectoryKey(path, revs) \notin folded
            IN  IF ~item.dir THEN <<FileNode(indent, item.name, item.file)>>
                ELSE <<DirectoryNode(indent, item.name, path, revs, open)>>
                     \o IF open THEN BuildNodes(item.children, Append(ancestors, isLast),
                                                path, folded)
                        ELSE <<>>
    IN  FoldLeft(LAMBDA nodes, i : nodes \o NodesOf(i), <<>>, [i \in DOMAIN items |-> i])

HeadingNode(revs, files) ==
    [Node EXCEPT !.name = <<Heading(revs)>>, !.revs = revs, !.count = Len(files),
                 !.stats = FoldLeft(LAMBDA sum, f : Total(sum, f.stats), NoStats, files)]

\* The files of each pair of revisions, in the order in which the first came.
Group(files) ==
    FoldLeft(LAMBDA groups, f :
                LET at == SelectInSeq(groups, LAMBDA g : g.revs = RevsOf(f))
                IN  IF at = 0 THEN Append(groups, [revs |-> RevsOf(f), files |-> <<f>>])
                    ELSE [groups EXCEPT ![at].files = Append(@, f)],
             <<>>, files)

Tree(files, folded) ==
    LET items == FoldLeft(LAMBDA root, f : Insert(root, PathOf(f), f), <<>>, files)
    IN  BuildNodes(Sort(Flatten(items)), <<>>, NoPath, folded)

GroupedTree(files, folded) ==
    FoldLeft(LAMBDA nodes, g : nodes \o <<HeadingNode(g.revs, g.files)>> \o Tree(g.files, folded),
             <<>>, Group(files))

PathLess(f, g) == Precedes(Ranks(PathOf(f), ByteRank), Ranks(PathOf(g), ByteRank))

GroupedList(files) ==
    LET Listed(g) == LET sorted == StableSort(g.files, PathLess)
                     IN  [i \in DOMAIN sorted |->
                             FileNode(<<"blank">>, PathOf(sorted[i]), sorted[i])]
    IN  FoldLeft(LAMBDA nodes, g : nodes \o <<HeadingNode(g.revs, g.files)>> \o Listed(g),
                 <<>>, Group(files))

-----------------------------------------------------------------------------
(* Finding an item again *)

\* A heading is known by its name, a directory by its key, a file by its path.
Identity(node) ==
    CASE node.kind = "heading" -> node.name
      [] node.kind = "directory" -> DirectoryKey(node.path, node.revs)
      [] node.kind = "file" -> PathOf(node.file)
NoIdentity == NoPath

\* The first line that shows it, from 0; -1 if none does.
FindByIdentity(saved, nodes) == SelectInSeq(nodes, LAMBDA n : Identity(n) = saved) - 1

SameFileEntry(a, b) == PathOf(a) = PathOf(b) /\ Heading(RevsOf(a)) = Heading(RevsOf(b))

\* What the new list says of the selected file.
MatchingSelectedFile(selected, files) ==
    LET at == SelectInSeq(files, LAMBDA f : SameFileEntry(f, selected))
    IN  IF selected = NoFile \/ at = 0 THEN NoFile ELSE files[at]

-----------------------------------------------------------------------------
(* One line of the list *)

RECURSIVE Digits(_)
Digits(n) == IF n < 10 THEN 1 ELSE 1 + Digits(n \div 10)

Slash == <<<<"word">>>>
TextOfName(name) ==
    FoldLeft(LAMBDA text, n : IF text = <<>> THEN TextOf[n] ELSE text \o Slash \o TextOf[n],
             <<>>, name)

\* The cells of as much of a text as fits, with a mark of what was cut off.
Truncate(text, cells) ==
    IF CellWidth(text) <= cells THEN CellWidth(text)
    ELSE IF cells = 0 THEN 0
    ELSE ByteToCell(text, CellToByte(text, cells - 1)) + 1

\* A gain, a loss and what parts them from each other and from the symbol.
CountsWidth(stats) ==
    (IF stats.added > 0 THEN 1 + Digits(stats.added) ELSE 0)
    + (IF stats.added > 0 /\ stats.removed > 0 THEN 1 ELSE 0)
    + (IF stats.removed > 0 THEN 1 + Digits(stats.removed) ELSE 0)
StatusWidth(node) ==
    IF node.kind # "file" THEN 0
    ELSE 1 + CountsWidth(node.file.stats) + IF IsEmptyStats(node.file.stats) THEN 0 ELSE 1

Parenthesized(n, stats) ==
    Digits(n) + 3 + IF IsEmptyStats(stats) THEN 0 ELSE 3 + CountsWidth(stats)
SuffixWidth(node) ==
    IF node.kind = "heading" THEN Parenthesized(node.count, node.stats)
    ELSE IF node.kind = "file" /\ PreviousPath(node.file) # NoPath
         THEN 3 + CellWidth(TextOfName(PreviousPath(node.file)))
         ELSE 0

IconWidth(node) == IF node.kind = "heading" THEN 0 ELSE 2

\* Where the parts of an item are drawn: the first cell and the one behind the
\* last.  The name is cut; what follows it is drawn only as a whole.
HeadingText(node) == [i \in 1 .. (IF node.name[1] = "Changes" THEN 7 ELSE 14) |-> <<"word">>]
Laid(node, width, from, name, whole, end, status, gap) ==
    [name |-> <<from, from + name>>,
     suffix |-> <<from + name, from + name + IF whole THEN SuffixWidth(node) ELSE 0>>,
     status |-> <<end, end + status>>,
     fits |-> from + gap + status <= width]
LaidText(node, text, width, from, status, gap) ==
    LET budget == Monus(Monus(Monus(width, from), status), gap)
    IN  Laid(node, width, from, Truncate(text, budget),
             CellWidth(text) + SuffixWidth(node) <= budget,
             Monus(width, status), status, gap)
Entry(node, lineWidth) ==
    LET status == StatusWidth(node)
    IN  LaidText(node,
                 IF node.kind = "heading" THEN HeadingText(node) ELSE TextOfName(node.name),
                 Monus(lineWidth, 2), 2 * Len(node.indent) + IconWidth(node),
                 status, IF status > 0 THEN 1 ELSE 0)
==============================================================================
