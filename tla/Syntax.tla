-------------------------------- MODULE Syntax --------------------------------
(***************************************************************************)
(* Colouring on demand: the hook use_syntax and the SyntaxService on the   *)
(* UI thread, the store of spans they fill, and the syntax worker thread   *)
(* with the readings it can resume.                                        *)
(*                                                                         *)
(* A text is abstracted to the number of the content it came with, and a   *)
(* coloured line to the text it was coloured from: the question is always  *)
(* whether a line's colours belong to the text on the screen.  The UI      *)
(* thread handles one event at a time and runs the effects of a render in  *)
(* the same turn.  A diff shows two sides, a single file one: both are     *)
(* asked for with the version of the one content.                          *)
(***************************************************************************)
EXTENDS Integers, SequencesExt, FiniteSetsExt

CONSTANTS
    Keys,           \* file sides, as File::name tells them apart
    Contents,       \* what may be shown: sequences of one or two keys
    Lines,          \* lines of every text
    Chunk,          \* CHUNK
    Memos,          \* MEMOS
    Budget,         \* BUDGET
    MaxTexts,       \* bound: how many contents are shown in a behaviour
    None            \* no entry, no job

Texts == 0..MaxTexts
LineNumbers == 0..(Lines - 1)

Painting == UNION {[1..n -> Texts] : n \in 0..Lines}
Colours == [version: Texts, lines: Painting]
Request == [key: Keys, version: Texts, text: Texts, have: 0..Lines, last: LineNumbers]
Memo == [key: Keys, version: Texts, text: Texts, reached: 0..Lines]
Job == [key: Keys, version: Texts, text: Texts, reached: 0..Lines, last: LineNumbers,
        answered: BOOLEAN]
Response == [key: Keys, version: Texts, text: Texts, from: 0..Lines, count: 0..Lines,
             more: BOOLEAN]

ASSUME SyntaxAssumption ==
    /\ \A content \in Contents: content \in Seq(Keys) /\ Len(content) \in 1..2
    /\ Lines \in Nat \ {0}
    /\ Chunk \in Nat
    /\ Memos \in Nat \ {0, 1}     \* one for each side of a diff: MEMOS is 4
    /\ Budget \in Nat
    /\ MaxTexts \in Nat \ {0}
    /\ None \notin Job \cup Colours

VARIABLES
    shown,          \* the file sides on the screen
    text,           \* the number of their content
    visible,        \* the last visible line of each, from 0
    painted,        \* the colours the last snapshot gives their lines
    version,        \* SyntaxService.version
    entries,        \* Store.entries
    order,          \* Store.order, most recently used last
    cachedLines,    \* Store.cached_lines
    outstanding,    \* Syntax.outstanding
    requests,       \* the channel to the worker
    job,            \* the request the worker is answering, with its reading
    memos,          \* the unfinished readings it retains, oldest first
    responses       \* answers on their way to the UI

screenVars == <<shown, text, visible, painted>>
storeVars == <<entries, order, cachedLines>>
workerVars == <<job, memos>>
vars == <<screenVars, version, storeVars, outstanding, requests, workerVars, responses>>

TypeOK ==
    /\ shown \in Contents \cup {<<>>}
    /\ text \in Texts
    /\ visible \in [ToSet(shown) -> LineNumbers]
    /\ painted \in [ToSet(shown) -> Painting]
    /\ version \in Texts
    /\ entries \in [Keys -> Colours \cup {None}]
    /\ order \in Seq(Keys) /\ IsInjective(order)
    /\ cachedLines \in Nat
    /\ outstanding \subseteq Keys
    /\ requests \in Seq(Request)
    /\ job \in Job \cup {None}
    /\ memos \in Seq(Memo) /\ Len(memos) <= Memos
    /\ \A i, j \in DOMAIN memos: memos[i].key = memos[j].key => i = j
    /\ responses \in Seq(Response)

------------------------------------------------------------------------------
(* The store as a value: what its methods return. *)

Store == [entries |-> entries, order |-> order, cached |-> cachedLines]

SetStore(s) ==
    /\ entries' = s.entries
    /\ order' = s.order
    /\ cachedLines' = s.cached

\* Store::get_colours and the lines that are there: what the screen paints, and
\* what a request need not ask for.
LinesOf(s, k) == IF s.entries[k] = None THEN <<>> ELSE s.entries[k].lines

\* The lines that these keys have in the store.
Held(s, keys) == UNION {{k} \X DOMAIN LinesOf(s, k): k \in keys}

\* Store::mark_used
MarkUsed(used, k) == Append(RemoveFirst(used, k), k)

\* A mutant: the lines of the old version are not taken off the count.
EnsureCacheUncounted(s, k, v) ==
    [entries |-> IF s.entries[k] # None /\ s.entries[k].version = v THEN s.entries
                 ELSE [s.entries EXCEPT ![k] = [version |-> v, lines |-> <<>>]],
     order |-> MarkUsed(s.order, k),
     cached |-> s.cached]

\* Store::ensure_cache: an entry of another version starts over.
EnsureCache(s, k, v) ==
    LET old == s.entries[k]
        current == old # None /\ old.version = v
    IN [entries |-> IF current THEN s.entries
                    ELSE [s.entries EXCEPT ![k] = [version |-> v, lines |-> <<>>]],
        order |-> MarkUsed(s.order, k),
        cached |-> IF old = None \/ current THEN s.cached ELSE s.cached - Len(old.lines)]

\* Colours::install accepts the next piece of the entry's own version.
Accepts(s, r) ==
    /\ s.entries[r.key] # None
    /\ s.entries[r.key].version = r.version
    /\ r.from = Len(s.entries[r.key].lines)

\* Store::install, which then evicts if it took the piece.
Install(s, r) ==
    IF ~Accepts(s, r) THEN s
    ELSE LET piece == [i \in 1..r.count |-> r.text]
         IN [s EXCEPT !.entries[r.key].lines = @ \o piece, !.cached = @ + r.count]

\* The n least recently used entries, but never the one being installed.
Oldest(s, keeping, n) == ToSet(SubSeq(RemoveFirst(s.order, keeping), 1, n)) \ {keeping}

\* The loop of Store::evict takes another turn as long as those before it have
\* left more lines than the budget allows.
Turns(s, keeping) ==
    Cardinality({n \in DOMAIN RemoveFirst(s.order, keeping):
        s.cached - Cardinality(Held(s, Oldest(s, keeping, n - 1))) > Budget})

\* Store::evict after n turns: each takes the first of the order or, if that is
\* the one being installed, the second.
Evict(s, keeping, n) ==
    LET gone == Oldest(s, keeping, n)
    IN [entries |-> [k \in Keys |-> IF k \in gone THEN None ELSE s.entries[k]],
        order |-> IF Contains(SubSeq(s.order, 1, n), keeping)
                  THEN Cons(keeping, SubSeq(s.order, n + 2, Len(s.order)))
                  ELSE SubSeq(s.order, n + 1, Len(s.order)),
        cached |-> s.cached - Cardinality(Held(s, gone))]

------------------------------------------------------------------------------
(* The UI thread. *)

UI == [store |-> Store, outstanding |-> outstanding, requests |-> requests]

\* Syntax::send: one request of a key at a time.
Send(ui, r) ==
    IF r.key \in ui.outstanding THEN ui
    ELSE [ui EXCEPT !.outstanding = @ \cup {r.key}, !.requests = Append(@, r)]

\* Syntax::received and finish: the key is free again after the last piece.
Received(waited, r) == IF r.more THEN waited ELSE waited \ {r.key}

\* SyntaxService::request: nothing happens while the key is outstanding, and
\* nothing is sent for lines already there.
Ask(ui, k, t, v, last) ==
    LET s == EnsureCache(ui.store, k, v)
        have == Len(LinesOf(s, k))
        wanted == [key |-> k, version |-> v, text |-> t, have |-> have, last |-> last]
    IN IF k \in ui.outstanding THEN ui
       ELSE IF have > last THEN [ui EXCEPT !.store = s]
       ELSE Send([ui EXCEPT !.store = s], wanted)

\* The second effect of use_syntax: each side asks for its visible lines, the
\* original one first.
AskSide(ui, content, i, t, v, lasts) ==
    IF i > Len(content) THEN ui ELSE Ask(ui, content[i], t, v, lasts[content[i]])
AskAll(content, t, v, lasts) ==
    \E one \in {AskSide(UI, content, 1, t, v, lasts)}:
    \E ui \in {AskSide(one, content, 2, t, v, lasts)}:
        /\ SetStore(ui.store)
        /\ outstanding' = ui.outstanding
        /\ requests' = ui.requests

\* New content on the screen, of the same file or of another one.  The first
\* effect forgets the old colours, bumps the version and subscribes.
ShowContent(content, lasts) ==
    /\ text < MaxTexts
    /\ text' = text + 1
    /\ shown' = content
    /\ visible' = lasts
    /\ painted' = [k \in ToSet(content) |-> <<>>]
    /\ version' = version + 1
    /\ AskAll(content, text + 1, version + 1, lasts)
    /\ UNCHANGED <<workerVars, responses>>

\* The visible lines change and the second effect runs again.
Scroll(lasts) ==
    /\ lasts # visible
    /\ visible' = lasts
    /\ AskAll(shown, text, version, lasts)
    /\ UNCHANGED <<shown, text, painted, version, workerVars, responses>>

\* A mutant of Deliver: the key is released only by a piece the store takes.
DeliverIfTaken ==
    /\ responses # <<>>
    /\ LET r == Head(responses)
       IN \E new \in {Install(Store, r)}:
          \E turns \in {IF Accepts(Store, r) THEN Turns(new, r.key) ELSE 0}:
          \E s \in {Evict(new, r.key, turns)}:
          /\ outstanding' = IF Accepts(Store, r) THEN Received(outstanding, r) ELSE outstanding
          /\ SetStore(s)
          /\ painted' = IF ~Accepts(Store, r) THEN painted
                        ELSE [k \in ToSet(shown) |-> LinesOf(s, k)]
    /\ responses' = Tail(responses)
    /\ UNCHANGED <<shown, text, visible, version, requests, workerVars>>

\* SyntaxService::deliver: a snapshot goes to the screen if the store took the
\* piece.
Deliver ==
    /\ responses # <<>>
    /\ LET r == Head(responses)
       IN \E new \in {Install(Store, r)}:
          \E turns \in {IF Accepts(Store, r) THEN Turns(new, r.key) ELSE 0}:
          \E s \in {Evict(new, r.key, turns)}:
          /\ outstanding' = Received(outstanding, r)
          /\ SetStore(s)
          /\ painted' = IF ~Accepts(Store, r) THEN painted
                        ELSE [k \in ToSet(shown) |-> LinesOf(s, k)]
    /\ responses' = Tail(responses)
    /\ UNCHANGED <<shown, text, visible, version, requests, workerVars>>

------------------------------------------------------------------------------
(* The worker thread. *)

Answer(from, count, more, j) ==
    responses' = Append(responses, [key |-> j.key, version |-> j.version, text |-> j.text,
                                    from |-> from, count |-> count, more |-> more])

\* No grammar: the rest of the file is answered at once, without colours.
AnswerPlain(r) == Answer(r.have, Lines - r.have, FALSE, r)

\* The memo a request can go on from: same file, same version, same place.
Resumable(m, r) == m.key = r.key /\ m.version = r.version /\ m.reached = r.have

Reading(r, m) ==
    [key |-> r.key, version |-> r.version, text |-> m.text, reached |-> m.reached,
     last |-> r.last, answered |-> FALSE]

\* Engine::find: a reading from the top, if there is a grammar for the path, the
\* first line and the length.
FromTheTop(r) == Reading(r, [text |-> r.text, reached |-> 0])

\* resume: the memo of the file is taken out, to go on from or to be forgotten.
\* A file has one at most (TypeOK).
MemoOf(k) == {i \in DOMAIN memos: memos[i].key = k}
WithoutMemo(k) == IF MemoOf(k) = {} THEN memos ELSE RemoveAt(memos, CHOOSE i \in MemoOf(k): TRUE)

\* recv and resume: without a matching memo the file starts from the top, or is
\* answered without colours.
Receive ==
    /\ job = None
    /\ requests # <<>>
    /\ requests' = Tail(requests)
    /\ memos' = WithoutMemo(Head(requests).key)
    /\ LET r == Head(requests)
           matching == {i \in MemoOf(r.key): Resumable(memos[i], r)}
       IN \/ /\ \E i \in matching: job' = Reading(r, memos[i])
             /\ UNCHANGED responses
          \/ /\ matching = {}
             /\ job' = FromTheTop(r)
             /\ UNCHANGED responses
          \/ /\ matching = {}
             /\ AnswerPlain(r)
             /\ UNCHANGED job
    /\ UNCHANGED <<screenVars, version, storeVars, outstanding>>

\* A mutant of Satisfied: the last line itself is not waited for.
SatisfiedEarly(j) == j.reached >= j.last

\* The condition that ends the loop, for a target clamped to the last line.
Satisfied(j) == j.reached > j.last \/ j.reached = Lines

\* read_colours_to_line: the engine reads to the end of the chunk, or to the end
\* of the file if it parses whole files, or not at all.
Got(j) == {Min({j.reached + Chunk, j.last}) + 1, Lines, j.reached}

\* One turn of the loop.
SendPiece ==
    /\ job # None
    /\ ~Satisfied(job)
    /\ \E got \in Got(job):
        IF got = job.reached
        THEN /\ Answer(got, Lines - got, FALSE, job)
             /\ job' = None
        ELSE /\ Answer(job.reached, got - job.reached, got <= job.last /\ got < Lines, job)
             /\ job' = [job EXCEPT !.reached = got, !.answered = TRUE]
    /\ UNCHANGED <<screenVars, version, storeVars, outstanding, requests, memos>>

\* A mutant of Remember: one reading fewer than MEMOS is retained.
RememberFewer(j) ==
    IF j.reached = Lines THEN memos
    ELSE LET kept == Append(memos, [key |-> j.key, version |-> j.version, text |-> j.text,
                                    reached |-> j.reached])
         IN IF Len(kept) >= Memos THEN Tail(kept) ELSE kept

\* remember: an unfinished reading is retained, at the cost of the oldest.
Remember(j) ==
    IF j.reached = Lines THEN memos
    ELSE LET kept == Append(memos, [key |-> j.key, version |-> j.version, text |-> j.text,
                                    reached |-> j.reached])
         IN IF Len(kept) > Memos THEN Tail(kept) ELSE kept

\* The loop ends; a request that needed nothing is answered with nothing.
FinishJob ==
    /\ job # None
    /\ Satisfied(job)
    /\ IF job.answered THEN UNCHANGED responses ELSE Answer(job.reached, 0, FALSE, job)
    /\ memos' = Remember(job)
    /\ job' = None
    /\ UNCHANGED <<screenVars, version, storeVars, outstanding, requests>>

------------------------------------------------------------------------------
Init ==
    /\ shown = <<>>
    /\ text = 0
    /\ visible = [k \in {} |-> 0]
    /\ painted = [k \in {} |-> <<>>]
    /\ version = 0
    /\ entries = [k \in Keys |-> None]
    /\ order = <<>>
    /\ cachedLines = 0
    /\ outstanding = {}
    /\ requests = <<>>
    /\ job = None
    /\ memos = <<>>
    /\ responses = <<>>

WorkerStep == Receive \/ SendPiece \/ FinishJob

Next ==
    \/ \E content \in Contents: \E lasts \in [ToSet(content) -> LineNumbers]:
            ShowContent(content, lasts)
    \/ \E lasts \in [ToSet(shown) -> LineNumbers]: Scroll(lasts)
    \/ Deliver
    \/ WorkerStep

Spec == Init /\ [][Next]_vars

\* The worker runs and the UI thread handles the answers in its event queue.
FairSpec == Spec /\ WF_vars(WorkerStep) /\ WF_vars(Deliver)

------------------------------------------------------------------------------
(* Properties. *)

\* The store holds what it says it holds: the count of its lines is exact, so
\* that its subtractions never wrap; eviction can reach every entry; and an
\* entry's lines are all coloured from one text, however its pieces, resumed
\* readings and version bumps interleave.
StoreConsistent ==
    /\ TypeOK
    /\ cachedLines = Cardinality(Held(Store, Keys))
    /\ ToSet(order) = {k \in Keys: entries[k] # None}
    /\ \A k \in Keys: entries[k] # None =>
            \A i, j \in DOMAIN entries[k].lines: entries[k].lines[i] = entries[k].lines[j]

\* The worker never answers with the wrong piece: an answer that arrives for
\* the version its entry still has continues that entry exactly.  Otherwise it
\* would be refused, asked for again and refused again.
AnswersContinue ==
    responses # <<>> =>
        LET r == Head(responses)
            e == entries[r.key]
        IN e # None /\ e.version = r.version => r.from = Len(e.lines)

\* A key that is waited for is released again: a lost or missing last piece
\* would leave the file uncoloured for the rest of the session.
KeysReleased == \A k \in Keys: k \in outstanding ~> k \notin outstanding

\* What was asked for arrives: a request for the shown content ends with all of
\* its lines in the store, unless the entry is evicted or the content changes
\* meanwhile.  (Lines scrolled to while the key is outstanding are no part of a
\* request, and nothing asks for them before the next scroll.)
AskedLinesArrive ==
    \A k \in Keys, last \in LineNumbers:
        (\E i \in DOMAIN requests:
            requests[i].key = k /\ requests[i].version = version /\ requests[i].last = last)
        ~> \/ entries[k] = None
           \/ entries[k].version # version
           \/ Len(entries[k].lines) > last
==============================================================================
