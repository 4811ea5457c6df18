------------------------------ MODULE SyntaxProofs -----------------------------
(***************************************************************************)
(* For every number of files, contents shown, lines and retained readings, *)
(* an answer that arrives for the version its entry still has continues    *)
(* that entry exactly, and the store has the entries and the lines that    *)
(* its order and its count say it has.                                     *)
(*                                                                         *)
(* AnswersContinue is not inductive: it looks at the next answer only, and *)
(* where that one begins was settled when its request was sent and when    *)
(* the worker took the request up.  IInv follows one key through both: its *)
(* request, the job, the answers under way and its entry continue each     *)
(* other (Streams), and where a request begins behind the first line the   *)
(* worker still has the reading that ends there (Kept).  The worker drops  *)
(* its oldest reading to retain a new one.  That one is never needed any   *)
(* more, because readings are retained in the order of the versions        *)
(* (Ordered), a version has no more than two sides (Sided) and the worker  *)
(* retains at least two readings (SyntaxAssumption).                       *)
(*                                                                         *)
(* StoreConsistent also needs to know what is on its way to the store, in  *)
(* SInv: that a request, a reading and an answer of a version carry that   *)
(* version's text, and that no answer goes beyond the last line.  Within   *)
(* a step, Held counts the lines of some keys apart from those of the      *)
(* others (HeldCount): so what ensure_cache and evict take off the count   *)
(* is there to be taken off.                                               *)
(*                                                                         *)
(* Both take a reading that is resumed for one that was never broken off.  *)
(* That it is one is proved of module Highlight, for every grammar and any *)
(* lines: where TextMate is behind a line depends on the lines before and  *)
(* not on the pieces they were read in (PieceReads, by induction along the *)
(* piece), and Tree-sitter reads a file at once.                           *)
(***************************************************************************)
EXTENDS Syntax, Highlight, SequenceTheorems, FiniteSetTheorems, WellFoundedInduction, TLAPS

Entry == [version: Texts, lines: Seq(Texts)]

\* The job still has pieces to send.
Reads == job # None /\ ~Satisfied(job)
Live(k) == Reads /\ job.key = k

\* The entry of k, unless it is evicted, has v's first n lines.
EntryAt(e, k, v, n) == e[k] = None \/ (e[k].version = v /\ Len(e[k].lines) = n)

\* The line an answer ends before.
End(r) == r.from + r.count

\* Where an answer of the sequence s stands among those of its key.
Same(s, i, j) == s[i].key = s[j].key
Foremost(s, i) == \A m \in DOMAIN s: m < i => ~Same(s, m, i)
Hindmost(s, i) == \A m \in DOMAIN s: m > i => ~Same(s, m, i)
Adjoining(s, i, j) ==
    /\ i < j /\ Same(s, i, j)
    /\ \A m \in DOMAIN s: i < m /\ m < j => ~Same(s, m, i)

\* The worker has a reading of version v of k that ends before line n, or is
\* about to retain it.
HasMemo(k, v, n) ==
    \/ \E i \in DOMAIN memos: memos[i].key = k /\ memos[i].version = v /\ memos[i].reached = n
    \/ job # None /\ Satisfied(job) /\ job.key = k /\ job.version = v /\ job.reached = n

\* k is read in version v, or is going to be.
ReadIn(q, k, v) ==
    \/ \E i \in DOMAIN memos: memos[i].key = k /\ memos[i].version = v
    \/ job # None /\ job.key = k /\ job.version = v
    \/ \E i \in DOMAIN q: q[i].key = k /\ q[i].version = v

\* What follows is said of the entries e, the keys waited for w, the requests q
\* and the content c of version v, so that it can be said of the middle of a
\* step, in which two sides are asked for one after the other.

Types(e, w, q, v, c) ==
    /\ v \in Texts
    /\ c \in Contents \cup {<<>>}
    /\ e \in [Keys -> Entry \cup {None}]
    /\ w \subseteq Keys
    /\ q \in Seq(Request)
    /\ job \in Job \cup {None}
    /\ memos \in Seq(Memo)
    /\ responses \in Seq(Response)
    /\ \A i \in DOMAIN q: q[i].have <= q[i].last
    /\ job # None /\ ~job.answered => Reads

\* A key waited for has one request, or the job, or answers that end with a last
\* one.
Waited(w, q) ==
    /\ \A i \in DOMAIN q: q[i].key \in w
    /\ \A i, j \in DOMAIN q: q[i].key = q[j].key => i = j
    /\ \A i \in DOMAIN q: ~Live(q[i].key)
    /\ \A i \in DOMAIN q, m \in DOMAIN responses: responses[m].key # q[i].key
    /\ Reads => job.key \in w
    /\ \A i \in DOMAIN responses: responses[i].key \in w
    /\ \A i, j \in DOMAIN responses: i < j /\ Same(responses, i, j) => responses[i].more
    /\ \A i \in DOMAIN responses: Hindmost(responses, i) => (responses[i].more <=> Live(responses[i].key))

\* The entry, the answers, the job and the request of a key continue each other.
Streams(e, q) ==
    /\ \A i \in DOMAIN q: EntryAt(e, q[i].key, q[i].version, q[i].have)
    /\ Reads /\ (\A i \in DOMAIN responses: responses[i].key # job.key)
            => EntryAt(e, job.key, job.version, job.reached)
    /\ \A i \in DOMAIN responses: Foremost(responses, i) =>
            EntryAt(e, responses[i].key, responses[i].version, responses[i].from)
    /\ \A i, j \in DOMAIN responses: Adjoining(responses, i, j) =>
            responses[j].from = End(responses[i]) /\ responses[j].version = responses[i].version
    /\ \A i \in DOMAIN responses: Hindmost(responses, i) /\ Live(responses[i].key) =>
            job.reached = End(responses[i]) /\ job.version = responses[i].version

\* Readings are asked for, taken up and retained in the order of the versions.
Ordered(e, q, v) ==
    /\ \A i, j \in DOMAIN memos: i < j => memos[i].version <= memos[j].version
    /\ \A i \in DOMAIN memos: job # None => memos[i].version <= job.version
    /\ \A i \in DOMAIN memos, j \in DOMAIN q: memos[i].version <= q[j].version
    /\ \A i \in DOMAIN memos: memos[i].version <= v
    /\ \A j \in DOMAIN q: job # None => job.version <= q[j].version
    /\ job # None => job.version <= v
    /\ \A i, j \in DOMAIN q: i < j => q[i].version <= q[j].version
    /\ \A j \in DOMAIN q: q[j].version <= v
    /\ \A i \in DOMAIN responses: responses[i].version <= v
    /\ \A k \in Keys: e[k] # None => e[k].version <= v

\* A version is read for the sides of one content.
Sided(q, v, c) ==
    \A u \in Texts: \E sides \in Contents \cup {<<>>}:
        /\ u = v => sides = c
        /\ \A k \in Keys: ReadIn(q, k, u) => k \in ToSet(sides)

\* A file has one reading.
OneReading ==
    /\ \A i, j \in DOMAIN memos: memos[i].key = memos[j].key => i = j
    /\ job # None => \A i \in DOMAIN memos: memos[i].key # job.key

\* The readings that are needed are there: for a request that begins behind the
\* first line, and for the next request of an entry that is not complete.
Kept(e, w, q, v) ==
    /\ \A i \in DOMAIN q: q[i].have > 0 => HasMemo(q[i].key, q[i].version, q[i].have)
    /\ \A i \in DOMAIN responses:
            Hindmost(responses, i) /\ ~responses[i].more /\ responses[i].version = v
                /\ 0 < End(responses[i]) /\ End(responses[i]) < Lines => HasMemo(responses[i].key, v, End(responses[i]))
    /\ \A k \in Keys \ w:
            e[k] # None /\ e[k].version = v /\ 0 < Len(e[k].lines) /\ Len(e[k].lines) < Lines
                => HasMemo(k, v, Len(e[k].lines))

Holds(e, w, q, v, c) ==
    /\ Types(e, w, q, v, c)
    /\ Waited(w, q)
    /\ Streams(e, q)
    /\ Ordered(e, q, v)
    /\ Sided(q, v, c)
    /\ OneReading
    /\ Kept(e, w, q, v)

IInv == version = text /\ Holds(entries, outstanding, requests, version, shown)

--------------------------------------------------------------------------------
\* What the sets of requests, readings and answers say of their members.
LEMMA FieldTypes ==
  /\ Texts \subseteq Nat /\ LineNumbers \subseteq Nat /\ Lines \in Nat \ {0}
  /\ \A r \in Request: /\ r.key \in Keys /\ r.version \in Texts /\ r.text \in Texts
                       /\ r.have \in Nat /\ r.have <= Lines /\ r.last \in LineNumbers
  /\ \A m \in Memo: /\ m.key \in Keys /\ m.version \in Texts /\ m.text \in Texts
                    /\ m.reached \in Nat /\ m.reached <= Lines
  /\ \A j \in Job: /\ j.key \in Keys /\ j.version \in Texts /\ j.text \in Texts
                   /\ j.reached \in Nat /\ j.reached <= Lines /\ j.last \in LineNumbers
                   /\ j.answered \in BOOLEAN
  /\ \A r \in Response: /\ r.key \in Keys /\ r.version \in Texts /\ r.text \in Texts
                        /\ r.from \in Nat /\ r.count \in Nat /\ r.more \in BOOLEAN
  /\ \A x \in Entry: x.version \in Texts /\ x.lines \in Seq(Texts)
  <1>1. Texts \subseteq Nat /\ LineNumbers \subseteq Nat /\ Lines \in Nat \ {0}
    BY SyntaxAssumption DEF Texts, LineNumbers
  <1>2. \A n \in 0..Lines: n \in Nat /\ n <= Lines
    BY <1>1
  <1>3. \A r \in Request: /\ r.key \in Keys /\ r.version \in Texts /\ r.text \in Texts
                          /\ r.have \in 0..Lines /\ r.last \in LineNumbers
    BY DEF Request
  <1>4. \A m \in Memo: /\ m.key \in Keys /\ m.version \in Texts /\ m.text \in Texts
                       /\ m.reached \in 0..Lines
    BY DEF Memo
  <1>5. \A j \in Job: /\ j.key \in Keys /\ j.version \in Texts /\ j.text \in Texts
                      /\ j.reached \in 0..Lines /\ j.last \in LineNumbers
                      /\ j.answered \in BOOLEAN
    BY DEF Job
  <1>6. \A r \in Response: /\ r.key \in Keys /\ r.version \in Texts /\ r.text \in Texts
                           /\ r.from \in 0..Lines /\ r.count \in 0..Lines
                           /\ r.more \in BOOLEAN
    BY DEF Response
  <1>7. \A x \in Entry: x.version \in Texts /\ x.lines \in Seq(Texts)
    BY DEF Entry
  <1> QED BY <1>1, <1>2, <1>3, <1>4, <1>5, <1>6, <1>7

\* A new content has nothing under way in its version.
LEMMA BumpHolds ==
  ASSUME NEW e, NEW w, NEW q, NEW v, NEW c, Holds(e, w, q, v, c),
         NEW content \in Contents, v < MaxTexts
  PROVE  Holds(e, w, q, v + 1, content)
  <1> USE DEF Texts
  <1>1. v \in Nat /\ v + 1 \in Texts
    BY SyntaxAssumption DEF Holds, Types
  <1>2. Types(e, w, q, v + 1, content) /\ Waited(w, q) /\ Streams(e, q) /\ OneReading
    BY <1>1 DEF Holds, Types
  <1>3. /\ \A i \in DOMAIN memos: memos[i].version \in Texts
        /\ job # None => job.version \in Texts
        /\ \A i \in DOMAIN q: q[i].version \in Texts
        /\ \A i \in DOMAIN responses: responses[i].version \in Texts
        /\ \A k \in Keys: e[k] # None => e[k].version \in Texts
    BY FieldTypes DEF Holds, Types
  <1>4. Ordered(e, q, v + 1)
    BY <1>1, <1>3 DEF Holds, Ordered
  <1>5. Sided(q, v + 1, content)
    <2> SUFFICES ASSUME NEW u \in Texts
                 PROVE  \E sides \in Contents \cup {<<>>}:
                            /\ u = v + 1 => sides = content
                            /\ \A k \in Keys: ReadIn(q, k, u) => k \in ToSet(sides)
      BY DEF Sided
    <2>1. CASE u = v + 1
      <3>1. \A k \in Keys: ~ReadIn(q, k, u)
        BY <1>1, <1>3, <2>1 DEF Holds, Ordered, ReadIn
      <3> QED BY <2>1, <3>1
    <2>2. CASE u # v + 1
      BY <2>2 DEF Holds, Sided
    <2> QED BY <2>1, <2>2
  <1>6. Kept(e, w, q, v + 1)
    <2>1. \A i \in DOMAIN responses: responses[i].version # v + 1
      BY <1>1, <1>3 DEF Holds, Ordered
    <2>2. \A k \in Keys: e[k] # None => e[k].version # v + 1
      BY <1>1, <1>3 DEF Holds, Ordered
    <2> QED BY <2>1, <2>2 DEF Holds, Kept
  <1> QED BY <1>2, <1>4, <1>5, <1>6 DEF Holds

\* The entry of a key that is not waited for may start over.
LEMMA RestartHolds ==
  ASSUME NEW e, NEW w, NEW q, NEW v, NEW c, Holds(e, w, q, v, c), NEW k \in Keys \ w
  PROVE  Holds([e EXCEPT ![k] = [version |-> v, lines |-> <<>>]], w, q, v, c)
  <1> DEFINE fresh == [version |-> v, lines |-> <<>>]
             f == [e EXCEPT ![k] = fresh]
  <1>1. fresh \in Entry /\ fresh.version = v /\ Len(fresh.lines) = 0
    BY DEF Holds, Types, Entry
  <1>2. e \in [Keys -> Entry \cup {None}]
    BY DEF Holds, Types
  <1>3. f \in [Keys -> Entry \cup {None}] /\ f[k] = fresh /\ \A o \in Keys \ {k}: f[o] = e[o]
    BY <1>1, <1>2
  <1> HIDE DEF f, fresh
  <1>4. Types(f, w, q, v, c) /\ Waited(w, q) /\ Sided(q, v, c) /\ OneReading
    BY <1>3 DEF Holds, Types
  <1>5. /\ \A i \in DOMAIN q: q[i].key \in Keys \ {k}
        /\ Reads => job.key \in Keys \ {k}
        /\ \A i \in DOMAIN responses: responses[i].key \in Keys \ {k}
    BY DEF Holds, Types, Waited
  <1>6. Streams(f, q)
    BY <1>3, <1>5 DEF Holds, Streams, EntryAt
  <1>7. Ordered(f, q, v)
    <2>1. v <= v
      BY DEF Holds, Types, Texts
    <2>2. \A o \in Keys: f[o] # None => f[o].version <= v
      BY <1>1, <1>3, <2>1 DEF Holds, Ordered
    <2> QED BY <2>2 DEF Holds, Ordered
  <1>8. Kept(f, w, q, v)
    BY <1>1, <1>3 DEF Holds, Kept
  <1> QED BY <1>4, <1>6, <1>7, <1>8 DEF Holds, f, fresh

\* A request for lines that are not there, of a key that is not waited for.
LEMMA SendHolds ==
  ASSUME NEW e, NEW w, NEW q, NEW v, NEW c, Holds(e, w, q, v, c),
         NEW k \in Keys \ w, k \in ToSet(c), NEW t \in Texts, NEW last \in LineNumbers,
         e[k] # None => e[k].version = v,
         NEW have, have = IF e[k] = None THEN 0 ELSE Len(e[k].lines),
         have <= last
  PROVE  Holds(e, w \cup {k},
               Append(q, [key |-> k, version |-> v, text |-> t, have |-> have, last |-> last]),
               v, c)
  <1> DEFINE r == [key |-> k, version |-> v, text |-> t, have |-> have, last |-> last]
             p == Append(q, r)
             x == w \cup {k}
  <1>1. /\ r.key = k /\ r.version = v /\ r.have = have /\ r.last = last
        /\ r \in Request /\ have \in Nat /\ have < Lines
    <2>1. have \in Nat
      BY FieldTypes DEF Holds, Types
    <2>2. have \in 0..Lines /\ have < Lines
      BY <2>1, SyntaxAssumption DEF LineNumbers
    <2>3. v \in Texts
      BY DEF Holds, Types
    <2> QED BY <2>1, <2>2, <2>3 DEF Request
  <1>2. q \in Seq(Request)
    BY DEF Holds, Types
  <1>3. /\ p \in Seq(Request) /\ DOMAIN p = 1..(Len(q) + 1) /\ DOMAIN q = 1..Len(q)
        /\ Len(q) \in Nat
        /\ p[Len(q) + 1] = r /\ \A i \in DOMAIN q: p[i] = q[i]
    BY <1>1, <1>2
  <1> HIDE DEF p, r
  <1>4. \A i \in DOMAIN p: i = Len(q) + 1 \/ i \in DOMAIN q
    BY <1>3
  <1>5. Types(e, x, p, v, c)
    BY <1>1, <1>3, <1>4 DEF Holds, Types
  <1>6. Waited(x, p)
    <2>1. ~Live(k)
      BY DEF Holds, Waited, Live
    <2>2. \A m \in DOMAIN responses: responses[m].key # k
      BY DEF Holds, Waited
    <2>3. \A i \in DOMAIN q: q[i].key # k
      BY DEF Holds, Waited
    <2>4. \A i, j \in DOMAIN p: p[i].key = p[j].key => i = j
      BY <1>1, <1>3, <1>4, <2>3 DEF Holds, Waited
    <2> QED BY <1>1, <1>3, <1>4, <2>1, <2>2, <2>4 DEF Holds, Waited
  <1>7. Streams(e, p)
    <2>1. EntryAt(e, k, v, have)
      BY DEF EntryAt
    <2> QED BY <1>1, <1>3, <1>4, <2>1 DEF Holds, Streams
  <1>8. Ordered(e, p, v)
    <2>1. v \in Nat
      BY FieldTypes DEF Holds, Types
    <2>2. \A i, j \in DOMAIN p: i < j => p[i].version <= p[j].version
      BY <1>1, <1>3, <1>4, <2>1 DEF Holds, Ordered
    <2>3. \A j \in DOMAIN p: p[j].version <= v
      BY <1>1, <1>3, <1>4, <2>1 DEF Holds, Ordered
    <2>4. \A i \in DOMAIN memos, j \in DOMAIN p: memos[i].version <= p[j].version
      BY <1>1, <1>3, <1>4, <2>1 DEF Holds, Ordered
    <2>5. \A j \in DOMAIN p: job # None => job.version <= p[j].version
      BY <1>1, <1>3, <1>4, <2>1 DEF Holds, Ordered
    <2> QED BY <2>2, <2>3, <2>4, <2>5 DEF Holds, Ordered
  <1>9. Sided(p, v, c)
    <2> SUFFICES ASSUME NEW u \in Texts
                 PROVE  \E sides \in Contents \cup {<<>>}:
                            /\ u = v => sides = c
                            /\ \A o \in Keys: ReadIn(p, o, u) => o \in ToSet(sides)
      BY DEF Sided
    <2>1. PICK sides \in Contents \cup {<<>>}:
                /\ u = v => sides = c
                /\ \A o \in Keys: ReadIn(q, o, u) => o \in ToSet(sides)
      BY DEF Holds, Sided
    <2>2. \A o \in Keys: ReadIn(p, o, u) => ReadIn(q, o, u) \/ (o = k /\ u = v)
      BY <1>1, <1>3, <1>4 DEF ReadIn
    <2> QED BY <2>1, <2>2
  <1>10. Kept(e, x, p, v)
    <2>1. have > 0 => HasMemo(k, v, have)
      BY <1>1 DEF Holds, Kept
    <2> QED BY <1>1, <1>3, <1>4, <2>1 DEF Holds, Kept
  <1> QED BY <1>5, <1>6, <1>7, <1>8, <1>9, <1>10 DEF Holds, p, r

--------------------------------------------------------------------------------
\* The state of the UI thread in the middle of a step.
UIHolds(ui, v, c) ==
    /\ ui = [store |-> [entries |-> ui.store.entries, order |-> ui.store.order,
                        cached |-> ui.store.cached],
             outstanding |-> ui.outstanding,
             requests |-> ui.requests]
    /\ Holds(ui.store.entries, ui.outstanding, ui.requests, v, c)

\* SyntaxService::request of a side that is shown.
LEMMA AskHolds ==
  ASSUME NEW ui, NEW v, NEW c, UIHolds(ui, v, c), NEW k \in Keys, k \in ToSet(c),
         NEW t \in Texts, NEW last \in LineNumbers
  PROVE  UIHolds(Ask(ui, k, t, v, last), v, c)
  <1> DEFINE e == ui.store.entries
             s == EnsureCache(ui.store, k, v)
             f == s.entries
             have == Len(LinesOf(s, k))
             r == [key |-> k, version |-> v, text |-> t, have |-> have, last |-> last]
             after == [ui EXCEPT !.store = s]
  <1>1. CASE k \in ui.outstanding
    BY <1>1 DEF Ask
  <1>2. CASE k \notin ui.outstanding
    <2>1. /\ s = [entries |-> s.entries, order |-> s.order, cached |-> s.cached]
          /\ f = IF e[k] # None /\ e[k].version = v THEN e
                 ELSE [e EXCEPT ![k] = [version |-> v, lines |-> <<>>]]
      BY DEF EnsureCache
    <2>2. e \in [Keys -> Entry \cup {None}] /\ ui.outstanding \subseteq Keys
      BY DEF UIHolds, Holds, Types
    <2>3. Holds(f, ui.outstanding, ui.requests, v, c)
      BY <1>2, <2>1, RestartHolds DEF UIHolds
    <2>4. f[k] # None => f[k].version = v
      BY <2>1, <2>2
    <2>5. have = IF f[k] = None THEN 0 ELSE Len(f[k].lines)
      BY DEF LinesOf
    <2>6. have \in Nat
      <3>1. f \in [Keys -> Entry \cup {None}]
        BY <2>3 DEF Holds, Types
      <3> QED BY <2>5, <3>1, FieldTypes
    <2>7. /\ after = [store |-> s, outstanding |-> ui.outstanding, requests |-> ui.requests]
          /\ UIHolds(after, v, c)
      <3>1. after = [store |-> s, outstanding |-> ui.outstanding, requests |-> ui.requests]
        BY DEF UIHolds
      <3> QED BY <2>1, <2>3, <3>1 DEF UIHolds
    <2> HIDE DEF s
    <2>8. CASE have > last
      BY <1>2, <2>7, <2>8 DEF Ask, s
    <2>9. CASE ~(have > last)
      <3>1. have <= last
        BY <2>6, <2>9, FieldTypes
      <3>2. Holds(f, ui.outstanding \cup {k}, Append(ui.requests, r), v, c)
        BY <1>2, <2>3, <2>4, <2>5, <3>1, SendHolds
      <3>3. Ask(ui, k, t, v, last) = Send(after, r)
        BY <1>2, <2>9 DEF Ask, s
      <3>4. Send(after, r) = [store |-> s, outstanding |-> ui.outstanding \cup {k},
                              requests |-> Append(ui.requests, r)]
        BY <1>2, <2>7 DEF Send
      <3> HIDE DEF r, after
      <3>5. UIHolds([store |-> s, outstanding |-> ui.outstanding \cup {k},
                     requests |-> Append(ui.requests, r)], v, c)
        BY <2>1, <3>2 DEF UIHolds, r
      <3> QED BY <3>3, <3>4, <3>5
    <2> QED BY <2>8, <2>9
  <1> QED BY <1>1, <1>2

\* One side of what is shown, if it has that side.
LEMMA AskSideHolds ==
  ASSUME NEW ui, NEW v, NEW c \in Contents \cup {<<>>}, UIHolds(ui, v, c), NEW i \in {1, 2},
         NEW t \in Texts, NEW lasts \in [ToSet(c) -> LineNumbers]
  PROVE  UIHolds(AskSide(ui, c, i, t, v, lasts), v, c)
  <1>1. c \in Seq(Keys)
    <2>1. <<>> \in Seq(Keys)
      OBVIOUS
    <2> QED BY <2>1, SyntaxAssumption
  <1>2. CASE i > Len(c)
    BY <1>2 DEF AskSide
  <1>3. CASE ~(i > Len(c))
    <2>1. i \in DOMAIN c /\ c[i] \in Keys /\ c[i] \in ToSet(c)
      BY <1>1, <1>3 DEF ToSet
    <2>2. lasts[c[i]] \in LineNumbers
      BY <2>1
    <2> QED BY <1>3, <2>1, <2>2, AskHolds DEF AskSide
  <1> QED BY <1>2, <1>3

\* The second effect of use_syntax, which asks for both sides.
LEMMA AskAllHolds ==
  ASSUME NEW v, NEW c \in Contents \cup {<<>>}, NEW t \in Texts,
         NEW lasts \in [ToSet(c) -> LineNumbers],
         Holds(entries, outstanding, requests, v, c), AskAll(c, t, v, lasts)
  PROVE  Holds(entries', outstanding', requests', v, c)
  <1>1. UIHolds(UI, v, c)
    BY DEF UIHolds, UI, Store
  <1> DEFINE one == AskSide(UI, c, 1, t, v, lasts)
             two == AskSide(one, c, 2, t, v, lasts)
  <1>2. UIHolds(one, v, c)
    BY <1>1, AskSideHolds
  <1>3. UIHolds(two, v, c)
    <2> HIDE DEF one
    <2> QED BY <1>2, AskSideHolds
  <1>4. entries' = two.store.entries /\ outstanding' = two.outstanding /\ requests' = two.requests
    BY DEF AskAll, SetStore
  <1> QED BY <1>3, <1>4 DEF UIHolds

\* A handler of the UI thread that leaves the worker and the answers alone.
LEMMA SameWorker ==
  ASSUME UNCHANGED <<workerVars, responses>>,
         Holds(entries', outstanding', requests', version', shown')
  PROVE  Holds(entries, outstanding, requests, version, shown)'
  BY DEF workerVars, Holds, Types, Waited, Streams, Ordered, Sided, OneReading, Kept, HasMemo,
         ReadIn, Live, Reads, Satisfied, EntryAt, End, Same, Foremost, Hindmost, Adjoining

\* New content: nothing of its version is under way when its sides are asked for.
LEMMA ShowContentIInv ==
  ASSUME IInv, NEW content \in Contents, NEW lasts \in [ToSet(content) -> LineNumbers],
         ShowContent(content, lasts)
  PROVE  IInv'
  <1>1. version = text /\ text < MaxTexts /\ text \in Texts
    BY DEF IInv, ShowContent, Holds, Types
  <1>2. text + 1 \in Texts
    BY <1>1, SyntaxAssumption DEF Texts
  <1>3. Holds(entries, outstanding, requests, version + 1, content)
    BY <1>1, BumpHolds DEF IInv
  <1>4. AskAll(content, text + 1, version + 1, lasts)
    BY DEF ShowContent
  <1>5. Holds(entries', outstanding', requests', version + 1, content)
    BY <1>2, <1>3, <1>4, AskAllHolds
  <1>6. version' = version + 1 /\ text' = text + 1 /\ shown' = content
    BY DEF ShowContent
  <1>7. Holds(entries', outstanding', requests', version', shown')
    BY <1>5, <1>6
  <1>8. UNCHANGED <<workerVars, responses>>
    BY DEF ShowContent
  <1> QED BY <1>1, <1>6, <1>7, <1>8, SameWorker DEF IInv

\* Scrolling asks again for the version that is shown.
LEMMA ScrollIInv ==
  ASSUME IInv, NEW lasts \in [ToSet(shown) -> LineNumbers], Scroll(lasts)
  PROVE  IInv'
  <1>1. version = text /\ text \in Texts /\ shown \in Contents \cup {<<>>}
    BY DEF IInv, Holds, Types
  <1>2. AskAll(shown, text, version, lasts)
    BY DEF Scroll
  <1>3. Holds(entries', outstanding', requests', version, shown)
    BY <1>1, <1>2, AskAllHolds DEF IInv
  <1>4. version' = version /\ text' = text /\ shown' = shown
    BY DEF Scroll
  <1>5. Holds(entries', outstanding', requests', version', shown')
    BY <1>3, <1>4
  <1>6. UNCHANGED <<workerVars, responses>>
    BY DEF Scroll
  <1> QED BY <1>1, <1>4, <1>5, <1>6, SameWorker DEF IInv

--------------------------------------------------------------------------------
\* Lines added to an entry.
LEMMA GrownEntry ==
  ASSUME NEW x \in Entry, NEW piece \in Seq(Texts)
  PROVE  LET grown == [x EXCEPT !.lines = @ \o piece]
         IN /\ grown \in Entry /\ grown.version = x.version
            /\ Len(grown.lines) = Len(x.lines) + Len(piece)
  <1> DEFINE lines == x.lines \o piece
             grown == [x EXCEPT !.lines = lines]
  <1>1. x.version \in Texts /\ x.lines \in Seq(Texts)
    BY FieldTypes
  <1>2. lines \in Seq(Texts) /\ Len(lines) = Len(x.lines) + Len(piece)
    BY <1>1
  <1> HIDE DEF lines
  <1>3. grown \in Entry /\ grown.version = x.version /\ grown.lines = lines
    BY <1>2 DEF Entry
  <1> QED BY <1>2, <1>3 DEF lines

\* Store::install of the answer r: the entry of r grows by r's lines if it takes
\* them, and every other entry is as before or evicted.
LEMMA InstallEntries ==
  ASSUME entries \in [Keys -> Entry \cup {None}], NEW r \in Response, NEW n
  PROVE  LET e == Evict(Install(Store, r), r.key, n).entries
         IN /\ e \in [Keys -> Entry \cup {None}]
            /\ \A k \in Keys \ {r.key}: e[k] = entries[k] \/ e[k] = None
            /\ ~Accepts(Store, r) => e[r.key] = entries[r.key]
            /\ Accepts(Store, r) => /\ e[r.key].version = entries[r.key].version
                                    /\ Len(e[r.key].lines) = Len(entries[r.key].lines) + r.count
  <1> DEFINE piece == [i \in 1..r.count |-> r.text]
             grown == [entries[r.key] EXCEPT !.lines = @ \o piece]
             s == Install(Store, r)
             gone == Oldest(s, r.key, n)
             e == [k \in Keys |-> IF k \in gone THEN None ELSE s.entries[k]]
  <1>1. Store.entries = entries /\ r.key \in Keys
    BY FieldTypes DEF Store
  <1>2. r.key \notin gone
    BY DEF Oldest
  <1>3. Evict(Install(Store, r), r.key, n).entries = e
    BY DEF Evict
  <1>4. CASE ~Accepts(Store, r)
    <2>1. s.entries = entries
      BY <1>1, <1>4 DEF Install
    <2> HIDE DEF s, gone
    <2>2. /\ e \in [Keys -> Entry \cup {None}] /\ e[r.key] = entries[r.key]
          /\ \A k \in Keys \ {r.key}: e[k] = entries[k] \/ e[k] = None
      BY <1>1, <1>2, <2>1
    <2> HIDE DEF e
    <2> QED BY <1>3, <1>4, <2>2
  <1>5. CASE Accepts(Store, r)
    <2>1. r.text \in Texts /\ r.count \in Nat
      BY FieldTypes
    <2>2. piece \in Seq(Texts) /\ Len(piece) = r.count
      BY <2>1
    <2>3. s.entries = [entries EXCEPT ![r.key] = grown]
      BY <1>5 DEF Install, Store
    <2> HIDE DEF piece, grown, s, gone
    <2>4. entries[r.key] \in Entry /\ entries[r.key].lines \in Seq(Texts)
      BY <1>1, <1>5, FieldTypes DEF Accepts
    <2>5. /\ grown \in Entry /\ grown.version = entries[r.key].version
          /\ Len(grown.lines) = Len(entries[r.key].lines) + r.count
      BY <2>2, <2>4, GrownEntry DEF grown
    <2>6. /\ s.entries \in [Keys -> Entry \cup {None}] /\ s.entries[r.key] = grown
          /\ \A k \in Keys \ {r.key}: s.entries[k] = entries[k]
      BY <1>1, <2>3, <2>5
    <2>7. /\ e \in [Keys -> Entry \cup {None}] /\ e[r.key] = grown
          /\ \A k \in Keys \ {r.key}: e[k] = entries[k] \/ e[k] = None
      BY <1>1, <1>2, <2>6
    <2> HIDE DEF e
    <2> QED BY <1>3, <1>5, <2>5, <2>7
  <1> QED BY <1>4, <1>5

\* What follows the head of a sequence.
LEMMA TailMembers ==
  ASSUME NEW S, NEW s \in Seq(S), s # <<>>, NEW t, t = Tail(s)
  PROVE  /\ \A i \in DOMAIN t: i \in Nat /\ i + 1 \in DOMAIN s /\ i + 1 > 1 /\ t[i] = s[i + 1]
         /\ \A m \in DOMAIN s: m = 1 \/ \E i \in DOMAIN t: m = i + 1
  <1>1. /\ Len(s) \in Nat /\ DOMAIN s = 1..Len(s) /\ DOMAIN t = 1..(Len(s) - 1)
        /\ \A j \in DOMAIN t: t[j] = s[j + 1]
    OBVIOUS
  <1>2. ASSUME NEW m \in DOMAIN s, m # 1 PROVE \E i \in DOMAIN t: m = i + 1
    <2>1. m - 1 \in DOMAIN t /\ m = (m - 1) + 1
      BY <1>1, <1>2
    <2> QED BY <2>1
  <1> QED BY <1>1, <1>2

\* The answers behind the head keep their places but for the head's.
LEMMA TailPlaces ==
  ASSUME NEW s \in Seq(Response), s # <<>>, NEW t, t = Tail(s), NEW i \in DOMAIN t
  PROVE  /\ Hindmost(t, i) => Hindmost(s, i + 1)
         /\ Foremost(t, i) => Foremost(s, i + 1) \/ Adjoining(s, 1, i + 1)
         /\ \A j \in DOMAIN t:
                /\ i < j /\ Same(t, i, j) => i + 1 < j + 1 /\ Same(s, i + 1, j + 1)
                /\ Adjoining(t, i, j) => Adjoining(s, i + 1, j + 1)
  <1>1. /\ Len(s) \in Nat /\ DOMAIN s = 1..Len(s) /\ DOMAIN t = 1..(Len(s) - 1)
        /\ \A j \in DOMAIN t: t[j] = s[j + 1]
    OBVIOUS
  <1>2. \A m \in DOMAIN s: m > 1 => m - 1 \in DOMAIN t /\ s[m] = t[m - 1]
    BY <1>1
  <1>3. ASSUME Hindmost(t, i), NEW m \in DOMAIN s, m > i + 1
        PROVE  ~Same(s, m, i + 1)
    <2>1. m - 1 \in DOMAIN t /\ m - 1 > i /\ s[m] = t[m - 1]
      BY <1>1, <1>2, <1>3
    <2> QED BY <1>1, <1>3, <2>1 DEF Hindmost, Same
  <1>4. ASSUME Foremost(t, i), NEW m \in DOMAIN s, m > 1, m < i + 1
        PROVE  ~Same(s, m, i + 1)
    <2>1. m - 1 \in DOMAIN t /\ m - 1 < i /\ s[m] = t[m - 1]
      BY <1>1, <1>2, <1>4
    <2> QED BY <1>1, <1>4, <2>1 DEF Foremost, Same
  <1>5. ASSUME Foremost(t, i) PROVE Foremost(s, i + 1) \/ Adjoining(s, 1, i + 1)
    <2>1. CASE Same(s, 1, i + 1)
      BY <1>1, <1>4, <1>5, <2>1 DEF Adjoining, Same
    <2>2. CASE ~Same(s, 1, i + 1)
      BY <1>1, <1>4, <1>5, <2>2 DEF Foremost
    <2> QED BY <2>1, <2>2
  <1>6. ASSUME NEW j \in DOMAIN t, Adjoining(t, i, j) PROVE Adjoining(s, i + 1, j + 1)
    <2>1. i + 1 < j + 1 /\ Same(s, i + 1, j + 1)
      BY <1>1, <1>6 DEF Adjoining, Same
    <2>2. ASSUME NEW m \in DOMAIN s, i + 1 < m, m < j + 1 PROVE ~Same(s, m, i + 1)
      <3>1. m - 1 \in DOMAIN t /\ i < m - 1 /\ m - 1 < j /\ s[m] = t[m - 1]
        BY <1>1, <1>2, <2>2
      <3> QED BY <1>1, <1>6, <3>1 DEF Adjoining, Same
    <2> QED BY <2>1, <2>2 DEF Adjoining
  <1>7. \A j \in DOMAIN t: i < j /\ Same(t, i, j) => i + 1 < j + 1 /\ Same(s, i + 1, j + 1)
    BY <1>1 DEF Same
  <1> QED BY <1>3, <1>5, <1>6, <1>7 DEF Hindmost

\* Deliver: the entry continues with the answer behind the one delivered, or
\* with the job, or its key is free.
LEMMA DeliverIInv == ASSUME IInv, Deliver PROVE IInv'
  <1> DEFINE r == responses[1]
             v == version
  <1>1. /\ Types(entries, outstanding, requests, v, shown) /\ Waited(outstanding, requests)
        /\ Streams(entries, requests) /\ Ordered(entries, requests, v)
        /\ Sided(requests, v, shown) /\ OneReading
        /\ Kept(entries, outstanding, requests, v)
    BY DEF IInv, Holds
  <1>2. /\ responses # <<>> /\ responses' = Tail(responses)
        /\ \E n: entries' = Evict(Install(Store, r), r.key, n).entries
        /\ outstanding' = IF r.more THEN outstanding ELSE outstanding \ {r.key}
        /\ UNCHANGED <<shown, text, version, requests, job, memos>>
    <2>1. responses # <<>> /\ Head(responses) = r
      BY <1>1 DEF Deliver, Types
    <2> QED BY <2>1 DEF Deliver, SetStore, Received, workerVars
  <1>3. /\ 1 \in DOMAIN responses /\ r \in Response /\ r.key \in Keys /\ r.more \in BOOLEAN
        /\ r.from \in Nat /\ r.count \in Nat
        /\ responses' \in Seq(Response) /\ responses \in Seq(Response)
    <2>1. responses \in Seq(Response)
      BY <1>1 DEF Types
    <2>2. 1 \in DOMAIN responses /\ r \in Response
      BY <1>2, <2>1
    <2>3. r.key \in Keys /\ r.more \in BOOLEAN /\ r.from \in Nat /\ r.count \in Nat
      BY <2>2, FieldTypes
    <2> QED BY <1>2, <2>1, <2>2, <2>3
  <1>9. /\ \A i \in DOMAIN responses': i + 1 \in DOMAIN responses /\ i + 1 > 1 /\ responses'[i] = responses[i + 1]
        /\ \A m \in DOMAIN responses: m = 1 \/ \E i \in DOMAIN responses': m = i + 1
    <2>1. ASSUME NEW t, t = Tail(responses)
          PROVE  /\ \A i \in DOMAIN t: /\ i \in Nat /\ i + 1 \in DOMAIN responses /\ i + 1 > 1
                                        /\ t[i] = responses[i + 1]
                 /\ \A m \in DOMAIN responses: m = 1 \/ \E i \in DOMAIN t: m = i + 1
      <3>1. responses \in Seq(Response) /\ responses # <<>>
        BY <1>2, <1>3
      <3>2. PICK s: s = responses
        OBVIOUS
      <3>3. s \in Seq(Response) /\ s # <<>> /\ t = Tail(s)
        BY <2>1, <3>1, <3>2
      <3>4. /\ \A i \in DOMAIN t: i \in Nat /\ i + 1 \in DOMAIN s /\ i + 1 > 1 /\ t[i] = s[i + 1]
            /\ \A m \in DOMAIN s: m = 1 \/ \E i \in DOMAIN t: m = i + 1
        BY <3>3, TailMembers
      <3> QED BY <3>2, <3>4
    <2> QED BY <1>2, <2>1
  \* The entry of the key is evicted, or takes the answer.
  <1>4. EntryAt(entries, r.key, r.version, r.from)
    BY <1>1, <1>3 DEF Streams, Foremost
  <1>5. /\ entries' \in [Keys -> Entry \cup {None}]
        /\ \A k \in Keys \ {r.key}: entries'[k] = entries[k] \/ entries'[k] = None
        /\ EntryAt(entries', r.key, r.version, End(r))
    <2>1. entries \in [Keys -> Entry \cup {None}]
      BY <1>1 DEF Types
    <2>2. Accepts(Store, r) <=> entries[r.key] # None
      BY <1>4 DEF Accepts, Store, EntryAt
    <2> QED BY <1>2, <1>3, <1>4, <2>1, <2>2, InstallEntries DEF EntryAt, End
  <1>6. \A k \in Keys \ {r.key}: \A u, n: EntryAt(entries, k, u, n) => EntryAt(entries', k, u, n)
    BY <1>5 DEF EntryAt
  <1>7. (Reads' <=> Reads) /\ (\A k: Live(k)' <=> Live(k)) /\ (\A k, u, n: HasMemo(k, u, n)' <=> HasMemo(k, u, n))
    BY <1>2 DEF Reads, Live, Satisfied, HasMemo
  <1>8. \A i \in DOMAIN responses':
            /\ Hindmost(responses', i) => Hindmost(responses, i + 1)
            /\ Foremost(responses', i) => Foremost(responses, i + 1) \/ Adjoining(responses, 1, i + 1)
            /\ \A j \in DOMAIN responses':
                    /\ i < j /\ Same(responses', i, j) => i + 1 < j + 1 /\ Same(responses, i + 1, j + 1)
                    /\ Adjoining(responses', i, j) => Adjoining(responses, i + 1, j + 1)
    BY <1>2, <1>3, TailPlaces
  <1>11. Types(entries, outstanding, requests, version, shown)'
    BY <1>1, <1>2, <1>3, <1>5, <1>7 DEF Types
  <1>12. ~r.more => /\ Hindmost(responses, 1) /\ ~Live(r.key)
                    /\ \A i \in DOMAIN responses': responses'[i].key # r.key
    BY <1>1, <1>3, <1>9 DEF Waited, Hindmost, Same
  <1>13. Waited(outstanding, requests)'
    <2>1. \A i \in DOMAIN requests: requests[i].key # r.key
      BY <1>1, <1>3, <1>9 DEF Waited
    <2>2. \A i \in DOMAIN responses': responses'[i].key \in outstanding'
      BY <1>1, <1>2, <1>3, <1>9, <1>12 DEF Waited
    <2>3. Reads => job.key \in outstanding'
      BY <1>1, <1>2, <1>12 DEF Waited, Live
    <2>4. \A i, j \in DOMAIN responses': i < j /\ Same(responses', i, j) => responses'[i].more
      BY <1>1, <1>3, <1>8, <1>9 DEF Waited
    <2>5. \A i \in DOMAIN responses': Hindmost(responses', i) => (responses'[i].more <=> Live(responses'[i].key))
      BY <1>1, <1>3, <1>8, <1>9 DEF Waited
    <2>6. \A i \in DOMAIN requests, m \in DOMAIN responses': responses'[m].key # requests[i].key
      BY <1>1, <1>3, <1>9 DEF Waited
    <2>7. \A i \in DOMAIN requests: requests[i].key \in outstanding'
      BY <1>1, <1>2, <2>1 DEF Waited
    <2> QED BY <1>1, <1>2, <1>7, <2>2, <2>3, <2>4, <2>5, <2>6, <2>7 DEF Waited
  <1>14. Streams(entries, requests)'
    <2>1. \A i \in DOMAIN requests: EntryAt(entries', requests[i].key, requests[i].version, requests[i].have)
      <3>1. \A i \in DOMAIN requests: requests[i].key \in Keys \ {r.key}
        BY <1>1, <1>3, FieldTypes DEF Waited, Types
      <3> QED BY <1>1, <1>6, <3>1 DEF Streams
    <2>2. ASSUME Reads, \A i \in DOMAIN responses': responses'[i].key # job.key
          PROVE  EntryAt(entries', job.key, job.version, job.reached)
      <3>1. CASE job.key = r.key
        <4>1. \A m \in DOMAIN responses: m = 1 \/ responses[m].key # r.key
          BY <1>9, <2>2, <3>1
        <4>2. Hindmost(responses, 1)
          BY <1>3, <4>1 DEF Hindmost, Same
        <4>3. Live(r.key)
          BY <2>2, <3>1 DEF Live
        <4> QED BY <1>1, <1>3, <1>5, <3>1, <4>2, <4>3 DEF Streams
      <3>2. CASE job.key # r.key
        <4>1. \A i \in DOMAIN responses: responses[i].key # job.key
          BY <1>3, <1>9, <2>2, <3>2
        <4>2. job.key \in Keys
          BY <1>1, <2>2, FieldTypes DEF Types, Reads
        <4> QED BY <1>1, <1>6, <2>2, <3>2, <4>1, <4>2 DEF Streams
      <3> QED BY <3>1, <3>2
    <2>3. ASSUME NEW i \in DOMAIN responses', Foremost(responses', i)
          PROVE  EntryAt(entries', responses'[i].key, responses'[i].version, responses'[i].from)
      <3>1. CASE Adjoining(responses, 1, i + 1)
        BY <1>1, <1>3, <1>5, <1>9, <3>1 DEF Streams, Adjoining, Same
      <3>2. CASE Foremost(responses, i + 1)
        <4>1. responses[i + 1].key # r.key
          BY <1>3, <1>9, <3>2 DEF Foremost, Same
        <4>2. responses[i + 1].key \in Keys
          BY <1>3, <1>9, FieldTypes
        <4> QED BY <1>1, <1>3, <1>6, <1>9, <3>2, <4>1, <4>2 DEF Streams
      <3> QED BY <1>8, <2>3, <3>1, <3>2
    <2>4. \A i, j \in DOMAIN responses': Adjoining(responses', i, j) =>
                responses'[j].from = End(responses'[i]) /\ responses'[j].version = responses'[i].version
      BY <1>1, <1>3, <1>8, <1>9 DEF Streams
    <2>5. \A i \in DOMAIN responses': Hindmost(responses', i) /\ Live(responses'[i].key) =>
                job.reached = End(responses'[i]) /\ job.version = responses'[i].version
      BY <1>1, <1>3, <1>8, <1>9 DEF Streams
    <2> QED BY <1>2, <1>7, <2>1, <2>2, <2>3, <2>4, <2>5 DEF Streams
  <1>15. Ordered(entries, requests, version)'
    <2>1. \A k \in Keys: entries'[k] # None => entries'[k].version <= version
      BY <1>1, <1>3, <1>5 DEF Ordered, EntryAt
    <2>2. \A i \in DOMAIN responses': responses'[i].version <= version
      BY <1>1, <1>3, <1>9 DEF Ordered
    <2> QED BY <1>1, <1>2, <2>1, <2>2 DEF Ordered
  <1>16. Sided(requests, version, shown)' /\ OneReading'
    BY <1>1, <1>2 DEF Sided, ReadIn, OneReading
  <1>17. Kept(entries, outstanding, requests, version)'
    <2>1. \A i \in DOMAIN responses':
            Hindmost(responses', i) /\ ~responses'[i].more /\ responses'[i].version = version
                /\ 0 < End(responses'[i]) /\ End(responses'[i]) < Lines => HasMemo(responses'[i].key, version, End(responses'[i]))
      BY <1>1, <1>3, <1>8, <1>9 DEF Kept
    <2>2. ASSUME NEW k \in Keys \ outstanding', entries'[k] # None, entries'[k].version = version,
                 0 < Len(entries'[k].lines), Len(entries'[k].lines) < Lines
          PROVE  HasMemo(k, version, Len(entries'[k].lines))
      <3>1. CASE k # r.key
        <4>1. entries'[k] = entries[k] /\ k \notin outstanding
          BY <1>2, <1>5, <2>2, <3>1
        <4> QED BY <1>1, <2>2, <4>1 DEF Kept
      <3>2. CASE k = r.key
        <4>1. ~r.more
          BY <1>1, <1>2, <1>3, <2>2, <3>2 DEF Waited
        <4>2. r.version = version /\ Len(entries'[k].lines) = End(r)
          BY <1>5, <2>2, <3>2 DEF EntryAt
        <4> QED BY <1>1, <1>3, <1>12, <2>2, <3>2, <4>1, <4>2 DEF Kept
      <3> QED BY <3>1, <3>2
    <2> QED BY <1>1, <1>2, <1>7, <2>1, <2>2 DEF Kept
  <1> QED BY <1>2, <1>11, <1>13, <1>14, <1>15, <1>16, <1>17 DEF IInv, Holds

--------------------------------------------------------------------------------
\* An answer behind the others.
LEMMA AppendMembers ==
  ASSUME NEW s \in Seq(Response), NEW a \in Response, NEW t, t = Append(s, a),
         NEW n, n = Len(s) + 1
  PROVE  /\ t \in Seq(Response) /\ n \in DOMAIN t /\ t[n] = a
         /\ \A i \in DOMAIN s: i \in DOMAIN t /\ t[i] = s[i] /\ i < n
         /\ \A i \in DOMAIN t: i = n \/ i \in DOMAIN s
         /\ \A j \in DOMAIN t: ~(n < j)
  OBVIOUS

\* It is the last of its key and moves none of them.
LEMMA AppendPlaces ==
  ASSUME NEW s \in Seq(Response), NEW a \in Response, NEW t, t = Append(s, a),
         NEW i \in DOMAIN s
  PROVE  /\ Hindmost(t, i) => Hindmost(s, i) /\ s[i].key # a.key
         /\ Foremost(t, i) => Foremost(s, i)
         /\ Foremost(t, Len(s) + 1) => s[i].key # a.key
         /\ \A j \in DOMAIN s: Adjoining(t, i, j) => Adjoining(s, i, j)
         /\ Adjoining(t, i, Len(s) + 1) => Hindmost(s, i) /\ s[i].key = a.key
  <1> DEFINE n == Len(s) + 1
  <1>1. /\ t \in Seq(Response) /\ n \in DOMAIN t /\ t[n] = a
        /\ \A m \in DOMAIN s: m \in DOMAIN t /\ t[m] = s[m] /\ m < n
        /\ \A m \in DOMAIN t: m = n \/ m \in DOMAIN s
    BY AppendMembers
  <1> HIDE DEF n
  <1>2. Hindmost(t, i) => Hindmost(s, i) /\ s[i].key # a.key
    BY <1>1 DEF Hindmost, Same
  <1>3. Foremost(t, i) => Foremost(s, i)
    BY <1>1 DEF Foremost, Same
  <1>4. Foremost(t, n) => s[i].key # a.key
    BY <1>1 DEF Foremost, Same
  <1>5. \A j \in DOMAIN s: Adjoining(t, i, j) => Adjoining(s, i, j)
    BY <1>1 DEF Adjoining, Same
  <1>6. Adjoining(t, i, n) => Hindmost(s, i) /\ s[i].key = a.key
    BY <1>1 DEF Adjoining, Hindmost, Same
  <1> QED BY <1>2, <1>3, <1>4, <1>5, <1>6 DEF n

\* The job sends the answer a: it goes on where the job was, and the job goes on
\* behind it, or is over, or is done and about to be retained.
LEMMA PieceIInv ==
  ASSUME IInv, Reads, NEW a \in Response, responses' = Append(responses, a),
         a.key = job.key, a.version = job.version, a.from = job.reached,
         \/ job' = None
         \/ /\ job' \in Job /\ job' # None /\ job'.answered
            /\ job'.key = job.key /\ job'.version = job.version /\ job'.reached = End(a),
         a.more <=> Reads',
         a.more \/ End(a) = Lines \/ job' # None,
         UNCHANGED <<shown, text, version, entries, outstanding, requests, memos>>
  PROVE  IInv'
  <1> DEFINE n == Len(responses) + 1
  <1>1. /\ Types(entries, outstanding, requests, version, shown) /\ Waited(outstanding, requests)
        /\ Streams(entries, requests) /\ Ordered(entries, requests, version)
        /\ Sided(requests, version, shown) /\ OneReading
        /\ Kept(entries, outstanding, requests, version)
    BY DEF IInv, Holds
  <1>2. responses \in Seq(Response) /\ job \in Job /\ job # None /\ ~Satisfied(job)
    BY <1>1 DEF Types, Reads
  <1>0. responses \in Seq(Response) /\ n = Len(responses) + 1
    BY <1>2
  <1> HIDE DEF n
  <1>3. /\ responses' \in Seq(Response) /\ n \in DOMAIN responses' /\ responses'[n] = a
        /\ \A i \in DOMAIN responses: /\ i \in DOMAIN responses' /\ responses'[i] = responses[i]
                                      /\ i < n
        /\ \A i \in DOMAIN responses': i = n \/ i \in DOMAIN responses
        /\ \A j \in DOMAIN responses': ~(n < j)
    BY <1>0, AppendMembers
  <1>4. /\ \A i \in DOMAIN responses: Hindmost(responses', i) =>
                Hindmost(responses, i) /\ responses[i].key # a.key
        /\ \A i \in DOMAIN responses: Foremost(responses', i) => Foremost(responses, i)
        /\ Foremost(responses', n) => \A i \in DOMAIN responses: responses[i].key # a.key
        /\ \A i, j \in DOMAIN responses: Adjoining(responses', i, j) => Adjoining(responses, i, j)
        /\ \A i \in DOMAIN responses: Adjoining(responses', i, n) =>
                Hindmost(responses, i) /\ responses[i].key = a.key
    <2>1. PICK t: t = responses' /\ t = Append(responses, a)
      OBVIOUS
    <2>2. ASSUME NEW i \in DOMAIN responses
          PROVE  /\ Hindmost(t, i) => Hindmost(responses, i) /\ responses[i].key # a.key
                 /\ Foremost(t, i) => Foremost(responses, i)
                 /\ Foremost(t, n) => responses[i].key # a.key
                 /\ \A j \in DOMAIN responses: Adjoining(t, i, j) => Adjoining(responses, i, j)
                 /\ Adjoining(t, i, n) => Hindmost(responses, i) /\ responses[i].key = a.key
      BY <1>0, <2>1, <2>2, AppendPlaces
    <2> QED BY <2>1, <2>2
  <1>6. /\ \A k: Live(k)' <=> Reads' /\ k = job.key
        /\ \A k: Live(k) <=> k = job.key
    BY DEF Live, Reads
  <1>7. /\ job' # None => job'.key = job.key /\ job'.version = job.version /\ job'.reached = End(a)
        /\ Reads' => job' # None
    BY DEF Reads
  <1>8. \A k, u, m: HasMemo(k, u, m) => HasMemo(k, u, m)'
    BY <1>2 DEF HasMemo
  <1>9. Types(entries, outstanding, requests, version, shown)'
    <2>1. job' \in Job \cup {None} /\ (job' # None => job'.answered)
      OBVIOUS
    <2> QED BY <1>1, <1>3, <2>1 DEF Types
  <1>10. Waited(outstanding, requests)'
    <2>1. job.key \in outstanding /\ Live(job.key)
      BY <1>1, <1>6 DEF Waited
    <2>2. \A i \in DOMAIN requests: requests[i].key # job.key
      BY <1>1, <2>1 DEF Waited
    <2>3. \A i \in DOMAIN requests, m \in DOMAIN responses': responses'[m].key # requests[i].key
      BY <1>1, <1>3, <2>2 DEF Waited
    <2>4. \A i \in DOMAIN responses': responses'[i].key \in outstanding
      BY <1>1, <1>3, <2>1 DEF Waited
    <2>5. \A i \in DOMAIN responses: responses[i].key = job.key => responses[i].more
      BY <1>1, <2>1 DEF Waited, Hindmost, Same
    <2>6. \A i, j \in DOMAIN responses': i < j /\ Same(responses', i, j) => responses'[i].more
      BY <1>1, <1>3, <2>5 DEF Waited, Same
    <2>7. \A i \in DOMAIN responses': Hindmost(responses', i) =>
                (responses'[i].more <=> Live(responses[i].key)')
      BY <1>1, <1>3, <1>4, <1>6 DEF Waited
    <2> QED BY <1>1, <1>6, <1>7, <2>1, <2>2, <2>3, <2>4, <2>6, <2>7 DEF Waited
  <1>11. Streams(entries, requests)'
    <2>1. Reads' => \E i \in DOMAIN responses': responses'[i].key = job'.key
      BY <1>3, <1>7
    <2>2. \A i \in DOMAIN responses': Foremost(responses', i) =>
                EntryAt(entries, responses'[i].key, responses'[i].version, responses'[i].from)
      BY <1>1, <1>3, <1>4 DEF Streams
    <2>3. \A i, j \in DOMAIN responses': Adjoining(responses', i, j) =>
                responses'[j].from = End(responses'[i]) /\ responses'[j].version = responses'[i].version
      <3>1. \A i \in DOMAIN responses: Adjoining(responses', i, n) =>
                a.from = End(responses[i]) /\ a.version = responses[i].version
        BY <1>1, <1>4, <1>6 DEF Streams
      <3>2. \A i, j \in DOMAIN responses': Adjoining(responses', i, j) => i \in DOMAIN responses
        BY <1>3 DEF Adjoining
      <3> QED BY <1>1, <1>3, <1>4, <3>1, <3>2 DEF Streams
    <2>4. \A i \in DOMAIN responses': Hindmost(responses', i) /\ Live(responses[i].key)' =>
                job'.reached = End(responses'[i]) /\ job'.version = responses'[i].version
      BY <1>3, <1>4, <1>6, <1>7
    <2> QED BY <1>1, <2>1, <2>2, <2>3, <2>4 DEF Streams
  <1>12. Ordered(entries, requests, version)'
    <2>1. \A i \in DOMAIN responses': responses'[i].version <= version
      BY <1>1, <1>2, <1>3 DEF Ordered
    <2> QED BY <1>1, <1>2, <1>7, <2>1 DEF Ordered
  <1>13. Sided(requests, version, shown)'
    <2>1. \A k, u: ReadIn(requests, k, u)' => ReadIn(requests, k, u)
      BY <1>2, <1>7 DEF ReadIn
    <2> QED BY <1>1, <2>1 DEF Sided
  <1>14. OneReading'
    BY <1>1, <1>2, <1>7 DEF OneReading
  <1>15. Kept(entries, outstanding, requests, version)'
    <2>1. ~a.more /\ End(a) < Lines => HasMemo(a.key, a.version, End(a))'
      <3>1. Lines \in Nat
        BY FieldTypes
      <3> QED BY <1>7, <3>1 DEF HasMemo, Reads
    <2>2. \A i \in DOMAIN responses': Hindmost(responses', i) /\ ~responses'[i].more
                /\ responses'[i].version = version /\ 0 < End(responses'[i])
                /\ End(responses'[i]) < Lines
                    => HasMemo(responses[i].key, version, End(responses[i]))'
      BY <1>1, <1>3, <1>4, <1>8, <2>1 DEF Kept
    <2> QED BY <1>1, <1>8, <2>2 DEF Kept
  <1> QED BY <1>9, <1>10, <1>11, <1>12, <1>13, <1>14, <1>15 DEF IInv, Holds

\* The smaller one of two numbers.
LEMMA MinOfTwo ==
  ASSUME NEW x \in Nat, NEW y \in Nat
  PROVE  /\ Min({x, y}) \in {x, y}
         /\ Min({x, y}) <= x /\ Min({x, y}) <= y
  <1>1. \E m \in {x, y}: \A o \in {x, y}: m <= o
    <2>1. CASE x <= y
      BY <2>1
    <2>2. CASE ~(x <= y)
      BY <2>2
    <2> QED BY <2>1, <2>2
  <1>2. Min({x, y}) \in {x, y} /\ \A o \in {x, y}: Min({x, y}) <= o
    BY <1>1 DEF Min
  <1> QED BY <1>2

\* One turn of the worker's loop: a piece, or the whole rest without colours.
LEMMA SendPieceIInv == ASSUME IInv, SendPiece PROVE IInv'
  <1>1. job \in Job /\ job # None /\ ~Satisfied(job) /\ Reads
    BY DEF IInv, Holds, Types, SendPiece, Reads
  <1>2. /\ job.key \in Keys /\ job.version \in Texts /\ job.text \in Texts
        /\ job.reached \in Nat /\ job.last \in Nat /\ Lines \in Nat
        /\ job.reached <= job.last /\ job.last < Lines /\ Chunk \in Nat
    <2>1. job.reached \in Nat /\ job.last \in LineNumbers /\ Lines \in Nat
      BY <1>1, FieldTypes
    <2>2. ~(job.reached > job.last)
      BY <1>1 DEF Satisfied
    <2> QED BY <1>1, <2>1, <2>2, FieldTypes, SyntaxAssumption DEF LineNumbers
  <1>3. UNCHANGED <<shown, text, version, entries, outstanding, requests, memos>>
    BY DEF SendPiece, screenVars, storeVars
  <1>4. PICK got \in Got(job):
            IF got = job.reached
            THEN /\ Answer(got, Lines - got, FALSE, job)
                 /\ job' = None
            ELSE /\ Answer(job.reached, got - job.reached, got <= job.last /\ got < Lines, job)
                 /\ job' = [job EXCEPT !.reached = got, !.answered = TRUE]
    BY DEF SendPiece
  <1>5. got \in Nat /\ job.reached <= got /\ got <= Lines
    <2> DEFINE m == Min({job.reached + Chunk, job.last})
    <2>1. m \in Nat /\ job.reached <= m /\ m <= job.last
      BY <1>2, MinOfTwo
    <2>2. got \in {m + 1, Lines, job.reached}
      BY <1>4 DEF Got
    <2> HIDE DEF m
    <2> QED BY <1>2, <2>1, <2>2
  <1>6. CASE got = job.reached
    <2> DEFINE a == [key |-> job.key, version |-> job.version, text |-> job.text,
                     from |-> got, count |-> Lines - got, more |-> FALSE]
    <2>1. responses' = Append(responses, a) /\ job' = None
      BY <1>4, <1>6 DEF Answer
    <2>2. a \in Response /\ End(a) = Lines
      BY <1>2, <1>5 DEF Response, End
    <2>3. ~Reads'
      BY <2>1 DEF Reads
    <2>4. a.key = job.key /\ a.version = job.version /\ a.from = job.reached /\ ~a.more
      BY <1>6
    <2> HIDE DEF a
    <2> QED BY <1>1, <1>3, <2>1, <2>2, <2>3, <2>4, PieceIInv
  <1>7. CASE got # job.reached
    <2> DEFINE a == [key |-> job.key, version |-> job.version, text |-> job.text,
                     from |-> job.reached, count |-> got - job.reached,
                     more |-> got <= job.last /\ got < Lines]
    <2>1. responses' = Append(responses, a) /\ job' = [job EXCEPT !.reached = got, !.answered = TRUE]
      BY <1>4, <1>7 DEF Answer
    <2>2. a \in Response /\ End(a) = got
      BY <1>2, <1>5 DEF Response, End
    <2>3. /\ job' \in Job /\ job'.answered /\ job'.reached = got /\ job'.last = job.last
          /\ job'.key = job.key /\ job'.version = job.version
      <3>1. job = [key |-> job.key, version |-> job.version, text |-> job.text,
                   reached |-> job.reached, last |-> job.last, answered |-> job.answered]
        BY <1>1 DEF Job
      <3>2. job' = [key |-> job.key, version |-> job.version, text |-> job.text,
                    reached |-> got, last |-> job.last, answered |-> TRUE]
        BY <2>1, <3>1
      <3>3. got \in 0..Lines /\ job.last \in LineNumbers
        BY <1>1, <1>2, <1>5, FieldTypes
      <3> QED BY <1>2, <3>2, <3>3 DEF Job
    <2>4. job' # None
      BY <2>3, SyntaxAssumption
    <2>5. Reads' <=> got <= job.last /\ got < Lines
      BY <1>2, <1>5, <2>3, <2>4 DEF Reads, Satisfied
    <2>6. /\ a.key = job.key /\ a.version = job.version /\ a.from = job.reached
          /\ a.more <=> Reads'
      BY <2>5
    <2> HIDE DEF a
    <2> QED BY <1>1, <1>3, <2>1, <2>2, <2>3, <2>4, <2>6, PieceIInv
  <1> QED BY <1>6, <1>7

\* The first p elements of a sequence, and those behind them.
LEMMA FirstPart ==
  ASSUME NEW S, NEW s \in Seq(S), NEW p \in 0..Len(s), NEW a, a = SubSeq(s, 1, p)
  PROVE  a \in Seq(S) /\ Len(a) = p /\ \A i \in 1..p: a[i] = s[i]
  <1>1. Len(s) \in Nat /\ p \in Int /\ \A i \in 1..p: s[i] \in S
    OBVIOUS
  <1> QED BY <1>1, SubSeqProperties

\* And its last elements.
LEMMA LastPart ==
  ASSUME NEW S, NEW s \in Seq(S), NEW p \in 0..Len(s), NEW b, b = SubSeq(s, p + 1, Len(s))
  PROVE  b \in Seq(S) /\ Len(b) = Len(s) - p /\ \A i \in 1..(Len(s) - p): b[i] = s[p + i]
  <1> DEFINE n == Len(s)
  <1>1. n \in Int /\ p \in Int /\ p + 1 \in Int /\ p <= n /\ \A i \in (p + 1)..n: s[i] \in S
    OBVIOUS
  <1> HIDE DEF n
  <1>2. /\ b \in Seq(S) /\ Len(b) = IF p + 1 <= n THEN n - (p + 1) + 1 ELSE 0
        /\ \A i \in 1..(n - (p + 1) + 1): b[i] = s[(p + 1) + i - 1]
    BY <1>1, SubSeqProperties DEF n
  <1>3. n - (p + 1) + 1 = n - p /\ \A i \in 1..(n - p): (p + 1) + i - 1 = p + i
    BY <1>1
  <1>4. ASSUME NEW i \in 1..(n - p) PROVE b[i] = s[p + i]
    <2>1. (p + 1) + i - 1 = p + i /\ i \in 1..(n - (p + 1) + 1)
      BY <1>3
    <2> QED BY <1>2, <2>1
  <1>5. Len(b) = n - p
    <2>1. CASE p + 1 <= n
      BY <1>2, <1>3, <2>1
    <2>2. CASE ~(p + 1 <= n)
      <3>1. p = n /\ n - p = 0
        BY <1>1, <2>2
      <3> QED BY <1>2, <2>2, <3>1
    <2> QED BY <2>1, <2>2
  <1> QED BY <1>2, <1>4, <1>5 DEF n

\* A sequence without the element at one of its places.
LEMMA RemoveAtMembers ==
  ASSUME NEW S, NEW s \in Seq(S), NEW p \in 1..Len(s), NEW m, m = RemoveAt(s, p)
  PROVE  /\ m \in Seq(S) /\ Len(m) = Len(s) - 1
         /\ \A i \in 1..(Len(s) - 1): m[i] = IF i < p THEN s[i] ELSE s[i + 1]
  <1> DEFINE n == Len(s)
             a == SubSeq(s, 1, p - 1)
             b == SubSeq(s, p + 1, n)
  <1>1. n \in Nat /\ p \in 1..n /\ p \in 0..n /\ p - 1 \in 0..n
    OBVIOUS
  <1>2. a \in Seq(S) /\ Len(a) = p - 1 /\ \A i \in 1..(p - 1): a[i] = s[i]
    BY <1>1, FirstPart
  <1>3. b \in Seq(S) /\ Len(b) = n - p /\ \A i \in 1..(n - p): b[i] = s[p + i]
    BY <1>1, LastPart
  <1>4. m = a \o b
    BY DEF RemoveAt
  <1> HIDE DEF a, b, n
  <1>5. Len(a) + Len(b) = n - 1
    BY <1>1, <1>2, <1>3
  <1>6. /\ m \in Seq(S) /\ Len(m) = n - 1
        /\ \A i \in 1..(n - 1): m[i] = IF i <= p - 1 THEN a[i] ELSE b[i - (p - 1)]
    <2>1. /\ a \o b \in Seq(S) /\ Len(a \o b) = Len(a) + Len(b)
          /\ \A i \in 1..(Len(a) + Len(b)): (a \o b)[i] = IF i <= Len(a) THEN a[i]
                                                        ELSE b[i - Len(a)]
      BY <1>2, <1>3, ConcatProperties
    <2> QED BY <1>2, <1>4, <1>5, <2>1
  <1> QED BY <1>1, <1>2, <1>3, <1>6 DEF n

\* The memo of a file is taken out, and the others stay in their order.
LEMMA WithoutMemoKeeps ==
  ASSUME memos \in Seq(Memo), OneReading, NEW k, NEW m, m = WithoutMemo(k)
  PROVE  /\ m \in Seq(Memo)
         /\ \A i \in DOMAIN m: m[i].key # k /\ \E x \in DOMAIN memos: m[i] = memos[x]
         /\ \A i, j \in DOMAIN m: i < j =>
                \E x, y \in DOMAIN memos: x < y /\ m[i] = memos[x] /\ m[j] = memos[y]
         /\ \A x \in DOMAIN memos: memos[x].key = k \/ \E i \in DOMAIN m: m[i] = memos[x]
  <1>1. CASE MemoOf(k) = {}
    <2>1. m = memos /\ \A x \in DOMAIN memos: memos[x].key # k
      BY <1>1 DEF WithoutMemo, MemoOf
    <2> QED BY <2>1
  <1>2. CASE MemoOf(k) # {}
    <2> DEFINE p == CHOOSE i \in MemoOf(k): TRUE
               n == Len(memos)
    <2>1. p \in DOMAIN memos /\ memos[p].key = k
      BY <1>2 DEF MemoOf
    <2>2. m = RemoveAt(memos, p)
      BY <1>2 DEF WithoutMemo
    <2> HIDE DEF p
    <2>3. n \in Nat /\ p \in 1..n /\ DOMAIN memos = 1..n
      BY <2>1
    <2>4. /\ m \in Seq(Memo) /\ DOMAIN m = 1..(n - 1)
          /\ \A i \in 1..(n - 1): m[i] = IF i < p THEN memos[i] ELSE memos[i + 1]
      <3>1. /\ m \in Seq(Memo) /\ Len(m) = n - 1
            /\ \A i \in 1..(n - 1): m[i] = IF i < p THEN memos[i] ELSE memos[i + 1]
        <4>1. memos \in Seq(Memo) /\ p \in 1..Len(memos)
          BY <2>3
        <4>2. /\ m \in Seq(Memo) /\ Len(m) = Len(memos) - 1
              /\ \A i \in 1..(Len(memos) - 1): m[i] = IF i < p THEN memos[i] ELSE memos[i + 1]
          <5> HIDE DEF n
          <5> QED BY ONLY <2>2, <4>1, RemoveAtMembers
        <4> QED BY <4>2
      <3> QED BY <3>1
    <2> HIDE DEF n
    <2>5. \A x \in DOMAIN memos: x # p => memos[x].key # k
      BY <2>1 DEF OneReading
    <2>6. ASSUME NEW x \in DOMAIN memos, x # p PROVE \E i \in DOMAIN m: m[i] = memos[x]
      <3>1. CASE x < p
        BY <2>3, <2>4, <3>1
      <3>2. CASE x > p
        <4>1. x - 1 \in DOMAIN m /\ ~(x - 1 < p) /\ (x - 1) + 1 = x
          BY <2>3, <2>4, <3>2
        <4> QED BY <2>4, <4>1
      <3> QED BY <2>3, <2>6, <3>1, <3>2
    <2>7. \A i \in DOMAIN m: \E x \in DOMAIN memos: x # p /\ m[i] = memos[x]
      BY <2>3, <2>4
    <2>8. \A i, j \in DOMAIN m: i < j =>
                \E x, y \in DOMAIN memos: x < y /\ m[i] = memos[x] /\ m[j] = memos[y]
      <3> DEFINE at(i) == IF i < p THEN i ELSE i + 1
      <3>1. \A i \in DOMAIN m: at(i) \in DOMAIN memos /\ m[i] = memos[at(i)]
        BY <2>3, <2>4
      <3>2. \A i, j \in DOMAIN m: i < j => at(i) < at(j)
        BY <2>3, <2>4
      <3> HIDE DEF at
      <3> QED BY <3>1, <3>2
    <2>9. \A x \in DOMAIN memos: memos[x].key = k \/ \E i \in DOMAIN m: m[i] = memos[x]
      BY <2>1, <2>6
    <2>10. \A i \in DOMAIN m: m[i].key # k /\ \E x \in DOMAIN memos: m[i] = memos[x]
      BY <2>5, <2>7
    <2>11. m \in Seq(Memo)
      BY <2>4
    <2> QED BY <2>8, <2>9, <2>10, <2>11
  <1> QED BY <1>1, <1>2

\* The worker takes up the next request.  A request that begins behind the first
\* line has its memo, so whatever the worker starts from is where the entry ends.
LEMMA ReceiveIInv == ASSUME IInv, Receive PROVE IInv'
  <1> DEFINE r == requests[1]
             k == r.key
             matching == {i \in MemoOf(k): Resumable(memos[i], r)}
  <1>1. /\ Types(entries, outstanding, requests, version, shown) /\ Waited(outstanding, requests)
        /\ Streams(entries, requests) /\ Ordered(entries, requests, version)
        /\ Sided(requests, version, shown) /\ OneReading
        /\ Kept(entries, outstanding, requests, version)
    BY DEF IInv, Holds
  <1>2. /\ requests \in Seq(Request) /\ responses \in Seq(Response) /\ memos \in Seq(Memo)
        /\ outstanding \subseteq Keys
    BY <1>1 DEF Types
  <1>3. /\ requests # <<>> /\ Head(requests) = r /\ 1 \in DOMAIN requests /\ r \in Request
    BY <1>2 DEF Receive
  <1>4. /\ job = None /\ requests' = Tail(requests) /\ memos' = WithoutMemo(k)
        /\ UNCHANGED <<shown, text, version, entries, outstanding>>
        /\ \/ /\ \E i \in matching: job' = Reading(r, memos[i])
              /\ UNCHANGED responses
           \/ /\ matching = {}
              /\ job' = FromTheTop(r)
              /\ UNCHANGED responses
           \/ /\ matching = {}
              /\ AnswerPlain(r)
              /\ UNCHANGED job
    BY <1>3 DEF Receive, screenVars, storeVars
  <1>5. /\ k \in Keys /\ r.version \in Texts /\ r.text \in Texts
        /\ r.have \in Nat /\ r.last \in LineNumbers /\ r.last \in Nat
        /\ Lines \in Nat /\ r.have <= r.last /\ r.last < Lines
    <2>1. /\ k \in Keys /\ r.version \in Texts /\ r.text \in Texts
          /\ r.have \in Nat /\ r.last \in LineNumbers /\ Lines \in Nat
      BY <1>3, FieldTypes
    <2>2. r.have <= r.last
      BY <1>1, <1>3 DEF Types
    <2> QED BY <2>1, <2>2 DEF LineNumbers
  <1>6. /\ requests' \in Seq(Request)
        /\ \A i \in DOMAIN requests': /\ i \in Nat /\ i + 1 \in DOMAIN requests /\ i + 1 > 1
                                      /\ requests'[i] = requests[i + 1]
    BY <1>2, <1>3, <1>4, TailMembers
  <1>7. /\ memos' \in Seq(Memo)
        /\ \A i \in DOMAIN memos': memos'[i].key # k /\ \E x \in DOMAIN memos: memos'[i] = memos[x]
        /\ \A i, j \in DOMAIN memos': i < j =>
                \E x, y \in DOMAIN memos: x < y /\ memos'[i] = memos[x] /\ memos'[j] = memos[y]
        /\ \A x \in DOMAIN memos: memos[x].key = k \/ \E i \in DOMAIN memos': memos'[i] = memos[x]
    BY <1>1, <1>2, <1>4, WithoutMemoKeeps
  <1>8. \A o, u, n: HasMemo(o, u, n) /\ o # k => HasMemo(o, u, n)'
    BY <1>4, <1>7 DEF HasMemo
  <1>9. matching = {} => r.have = 0
    <2>1. r.have > 0 => HasMemo(k, r.version, r.have)
      BY <1>1, <1>3 DEF Kept
    <2>2. HasMemo(k, r.version, r.have) => matching # {}
      BY <1>4 DEF HasMemo, MemoOf, Resumable
    <2> QED BY <1>5, <2>1, <2>2
  <1>10. /\ ~Reads /\ \A o: ~Live(o)
    BY <1>4 DEF Reads, Live
  <1>11. /\ k \in outstanding
         /\ \A i \in DOMAIN requests': requests'[i].key # k
         /\ \A m \in DOMAIN responses: responses[m].key # k
         /\ EntryAt(entries, k, r.version, r.have)
    BY <1>1, <1>3, <1>6 DEF Waited, Streams
  \* What holds however the request is taken up.
  <1>12. /\ \A i \in DOMAIN requests': requests'[i].key \in outstanding
         /\ \A i, j \in DOMAIN requests': requests'[i].key = requests'[j].key => i = j
         /\ \A i \in DOMAIN requests': requests'[i].have <= requests'[i].last
         /\ \A i \in DOMAIN requests':
                EntryAt(entries, requests'[i].key, requests'[i].version, requests'[i].have)
    <2>1. \A i, j \in DOMAIN requests': i + 1 = j + 1 => i = j
      BY <1>6
    <2> QED BY <1>1, <1>6, <2>1 DEF Waited, Streams, Types
  <1>13. /\ \A i, j \in DOMAIN memos': i < j => memos'[i].version <= memos'[j].version
         /\ \A i \in DOMAIN memos', j \in DOMAIN requests': memos'[i].version <= requests'[j].version
         /\ \A i \in DOMAIN memos': memos'[i].version <= version
    BY <1>1, <1>6, <1>7 DEF Ordered
  <1>14. \A i \in DOMAIN memos': memos'[i].version <= r.version
    BY <1>1, <1>3, <1>7 DEF Ordered
  <1>15. /\ \A i, j \in DOMAIN requests': i < j => requests'[i].version <= requests'[j].version
         /\ \A j \in DOMAIN requests': requests'[j].version <= version
         /\ \A j \in DOMAIN requests': r.version <= requests'[j].version
         /\ r.version <= version
    <2>1. \A i, j \in DOMAIN requests': i < j => i + 1 < j + 1
      BY <1>6
    <2> QED BY <1>1, <1>3, <1>6, <2>1 DEF Ordered
  <1>16. \A i, j \in DOMAIN memos': memos'[i].key = memos'[j].key => i = j
    <2>1. \A i, j \in DOMAIN memos': i < j => memos'[i].key # memos'[j].key
      <3>1. \A x, y \in DOMAIN memos: x < y => memos[x].key # memos[y].key
        BY <1>1, <1>2 DEF OneReading
      <3> QED BY <1>7, <3>1
    <2>2. \A i, j \in DOMAIN memos': i # j => i < j \/ j < i
      BY <1>7
    <2> QED BY <2>1, <2>2
  <1>17. \A i \in DOMAIN requests': requests'[i].have > 0 =>
                HasMemo(requests[i].key, requests[i].version, requests[i].have)'
    BY <1>1, <1>6, <1>8, <1>11 DEF Kept
  <1>18. \A i \in DOMAIN responses: Hindmost(responses, i) /\ ~responses[i].more
                /\ responses[i].version = version /\ 0 < End(responses[i])
                /\ End(responses[i]) < Lines
            => \A o, m: o = responses[i].key /\ m = End(responses[i]) => HasMemo(o, version, m)'
    BY <1>1, <1>4, <1>8, <1>11 DEF Kept
  <1>19. \A o \in Keys \ outstanding: entries[o] # None /\ entries[o].version = version
                /\ 0 < Len(entries[o].lines) /\ Len(entries[o].lines) < Lines
            => HasMemo(o, version, Len(entries[o].lines))'
    BY <1>1, <1>4, <1>8, <1>11 DEF Kept
  <1>20. CASE /\ job' \in Job /\ job'.key = k /\ job'.version = r.version
              /\ job'.reached = r.have /\ job'.last = r.last
              /\ UNCHANGED responses
    <2>1. /\ Reads' /\ job' # None /\ job' \in Job
          /\ job'.key = k /\ job'.version = r.version /\ job'.reached = r.have
      BY <1>5, <1>20, SyntaxAssumption DEF Reads, Satisfied
    <2>2. /\ \A o: Live(o)' <=> o = k
          /\ UNCHANGED responses
      BY <1>20, <2>1 DEF Live
    <2>3. Types(entries, outstanding, requests, version, shown)'
      BY <1>1, <1>2, <1>4, <1>6, <1>7, <1>12, <2>1, <2>2 DEF Types
    <2>4. Waited(outstanding, requests)'
      <3>1. \A i \in DOMAIN requests', m \in DOMAIN responses: responses[m].key # requests'[i].key
        BY <1>1, <1>6 DEF Waited
      <3>2. \A i \in DOMAIN requests': ~Live(requests[i].key)'
        BY <1>11, <2>2
      <3>3. \A i \in DOMAIN responses: Hindmost(responses, i) => ~responses[i].more
        BY <1>1, <1>10 DEF Waited
      <3>4. \A i \in DOMAIN responses: ~Live(responses[i].key)'
        BY <1>11, <2>2
      <3> QED BY <1>1, <1>4, <1>11, <1>12, <2>1, <2>2, <3>1, <3>2, <3>3, <3>4 DEF Waited
    <2>5. Streams(entries, requests)'
      <3>1. \A i \in DOMAIN responses: ~Live(responses[i].key)'
        BY <1>11, <2>2
      <3> QED BY <1>1, <1>4, <1>11, <1>12, <2>1, <2>2, <3>1 DEF Streams
    <2>6. Ordered(entries, requests, version)'
      BY <1>1, <1>4, <1>13, <1>14, <1>15, <2>1, <2>2 DEF Ordered
    <2>7. Sided(requests, version, shown)'
      <3>1. \A o, u: ReadIn(requests, o, u)' => ReadIn(requests, o, u)
        BY <1>3, <1>6, <1>7, <2>1 DEF ReadIn
      <3> QED BY <1>1, <1>4, <3>1 DEF Sided
    <2>8. OneReading'
      BY <1>7, <1>16, <2>1 DEF OneReading
    <2>9. Kept(entries, outstanding, requests, version)'
      BY <1>4, <1>17, <1>18, <1>19, <2>2 DEF Kept
    <2> QED BY <1>4, <2>3, <2>4, <2>5, <2>6, <2>7, <2>8, <2>9 DEF IInv, Holds
  <1>21. CASE matching = {} /\ AnswerPlain(r) /\ UNCHANGED job
    <2> DEFINE a == [key |-> k, version |-> r.version, text |-> r.text, from |-> r.have,
                     count |-> Lines - r.have, more |-> FALSE]
               n == Len(responses) + 1
    <2>1. responses' = Append(responses, a) /\ job' = None
      BY <1>4, <1>21 DEF AnswerPlain, Answer
    <2>2. a \in Response /\ End(a) = Lines
      BY <1>5 DEF Response, End
    <2>3. a.key = k /\ a.version = r.version /\ a.from = r.have /\ ~a.more
      OBVIOUS
    <2>4. n = Len(responses) + 1
      OBVIOUS
    <2> HIDE DEF a, n
    <2>5. /\ responses' \in Seq(Response) /\ n \in DOMAIN responses' /\ responses'[n] = a
          /\ \A i \in DOMAIN responses: /\ i \in DOMAIN responses' /\ responses'[i] = responses[i]
                                        /\ i < n
          /\ \A i \in DOMAIN responses': i = n \/ i \in DOMAIN responses
          /\ \A j \in DOMAIN responses': ~(n < j)
      BY <1>2, <2>1, <2>2, <2>4, AppendMembers
    <2>6. /\ \A i \in DOMAIN responses: Hindmost(responses', i) => Hindmost(responses, i)
          /\ \A i \in DOMAIN responses: Foremost(responses', i) => Foremost(responses, i)
          /\ \A i, j \in DOMAIN responses: Adjoining(responses', i, j) => Adjoining(responses, i, j)
      BY <1>2, <2>1, <2>2, AppendPlaces
    <2>7. ~Reads' /\ \A o: ~Live(o)'
      BY <2>1 DEF Reads, Live
    <2>8. Types(entries, outstanding, requests, version, shown)'
      BY <1>1, <1>4, <1>6, <1>7, <1>12, <2>1, <2>5 DEF Types
    <2>9. Waited(outstanding, requests)'
      <3>1. \A i \in DOMAIN requests', m \in DOMAIN responses': responses'[m].key # requests'[i].key
        BY <1>1, <1>6, <1>11, <2>3, <2>5 DEF Waited
      <3>2. \A i \in DOMAIN responses': Hindmost(responses', i) => ~responses'[i].more
        BY <1>1, <1>10, <2>3, <2>5, <2>6 DEF Waited
      <3>3. \A i \in DOMAIN responses': responses'[i].key \in outstanding
        BY <1>1, <1>11, <2>3, <2>5 DEF Waited
      <3>4. \A i, j \in DOMAIN responses': i < j /\ Same(responses', i, j) => responses'[i].more
        BY <1>1, <1>11, <2>3, <2>5 DEF Waited, Same
      <3> QED BY <1>4, <1>12, <2>7, <3>1, <3>2, <3>3, <3>4 DEF Waited
    <2>10. Streams(entries, requests)'
      <3>1. \A i \in DOMAIN responses': Foremost(responses', i) =>
                EntryAt(entries, responses'[i].key, responses'[i].version, responses'[i].from)
        BY <1>1, <1>11, <2>3, <2>5, <2>6 DEF Streams
      <3>2. \A i, j \in DOMAIN responses': Adjoining(responses', i, j) =>
                responses'[j].from = End(responses'[i]) /\ responses'[j].version = responses'[i].version
        <4>1. \A i, j \in DOMAIN responses': Adjoining(responses', i, j) =>
                    i \in DOMAIN responses /\ j \in DOMAIN responses
          BY <1>11, <2>3, <2>5 DEF Adjoining, Same
        <4> QED BY <1>1, <2>5, <2>6, <4>1 DEF Streams
      <3> QED BY <1>4, <1>12, <2>7, <3>1, <3>2 DEF Streams
    <2>11. Ordered(entries, requests, version)'
      <3>1. \A i \in DOMAIN responses': responses'[i].version <= version
        BY <1>1, <1>15, <2>3, <2>5 DEF Ordered
      <3> QED BY <1>1, <1>4, <1>13, <1>15, <2>1, <3>1 DEF Ordered
    <2>12. Sided(requests, version, shown)'
      <3>1. \A o, u: ReadIn(requests, o, u)' => ReadIn(requests, o, u)
        BY <1>6, <1>7, <2>1 DEF ReadIn
      <3> QED BY <1>1, <1>4, <3>1 DEF Sided
    <2>13. OneReading'
      BY <1>7, <1>16, <2>1 DEF OneReading
    <2>14. Kept(entries, outstanding, requests, version)'
      <3>1. Lines \in Nat /\ ~(Lines < Lines)
        BY <1>5
      <3>2. \A i \in DOMAIN responses': Hindmost(responses', i) /\ ~responses'[i].more
                /\ responses'[i].version = version /\ 0 < End(responses'[i])
                /\ End(responses'[i]) < Lines => HasMemo(responses[i].key, version, End(responses[i]))'
        BY <1>18, <2>2, <2>5, <2>6, <3>1 DEF End
      <3> QED BY <1>4, <1>17, <1>19, <3>2 DEF Kept
    <2> QED BY <1>4, <2>8, <2>9, <2>10, <2>11, <2>12, <2>13, <2>14 DEF IInv, Holds
  <1>22. CASE /\ UNCHANGED responses
              /\ \/ \E i \in matching: job' = Reading(r, memos[i])
                 \/ matching = {} /\ job' = FromTheTop(r)
    <2>1. PICK t, n: /\ t \in Texts /\ n = r.have
                     /\ job' = [key |-> k, version |-> r.version, text |-> t, reached |-> n,
                                last |-> r.last, answered |-> FALSE]
      <3>1. ASSUME NEW i \in matching, job' = Reading(r, memos[i])
            PROVE  /\ memos[i].text \in Texts /\ memos[i].reached = r.have
                   /\ job' = [key |-> k, version |-> r.version, text |-> memos[i].text,
                              reached |-> memos[i].reached, last |-> r.last, answered |-> FALSE]
        <4>1. memos[i] \in Memo
          BY <1>2, <3>1 DEF MemoOf
        <4> QED BY <3>1, <4>1, FieldTypes DEF Reading, Resumable
      <3>2. CASE matching = {} /\ job' = FromTheTop(r)
        BY <1>5, <1>9, <3>2 DEF FromTheTop, Reading
      <3> QED BY <1>22, <3>1, <3>2
    <2>2. r.have \in 0..Lines
      BY <1>5
    <2>3. /\ job' \in Job /\ job'.key = k /\ job'.version = r.version
          /\ job'.reached = r.have /\ job'.last = r.last
      BY <1>5, <2>1, <2>2 DEF Job
    <2> QED BY <1>20, <1>22, <2>3
  <1> HIDE DEF r, matching
  <1> QED BY <1>4, <1>21, <1>22

\* The oldest memo is forgotten only if it is of an older version than the job:
\* of the job's own version there are two readings at most.
LEMMA OldestIsOlder ==
  ASSUME IInv, job # None, Len(memos) + 1 > Memos
  PROVE  memos # <<>> /\ memos[1].version < job.version
  <1> DEFINE u == job.version
  <1>1. /\ memos \in Seq(Memo) /\ job \in Job /\ job # None
        /\ OneReading /\ Ordered(entries, requests, version) /\ Sided(requests, version, shown)
    BY DEF IInv, Holds, Types
  <1>2. /\ 1 \in DOMAIN memos /\ 2 \in DOMAIN memos /\ 1 < 2 /\ memos # <<>>
    BY <1>1, SyntaxAssumption
  <1>3. /\ memos[1] \in Memo /\ memos[2] \in Memo /\ u \in Texts
        /\ memos[1].version \in Nat /\ memos[2].version \in Nat /\ u \in Nat
        /\ memos[1].key \in Keys /\ memos[2].key \in Keys /\ job.key \in Keys
    <2>1. memos[1] \in Memo /\ memos[2] \in Memo
      BY <1>1, <1>2
    <2> QED BY <1>1, <2>1, FieldTypes
  <1>4. memos[1].version <= memos[2].version /\ memos[2].version <= u
    BY <1>1, <1>2 DEF Ordered
  <1>5. ASSUME memos[1].version = u PROVE FALSE
    <2>1. memos[2].version = u
      BY <1>3, <1>4, <1>5
    <2>2. PICK sides \in Contents \cup {<<>>}:
                \A k \in Keys: ReadIn(requests, k, u) => k \in ToSet(sides)
      BY <1>1, <1>3 DEF Sided
    <2>3. /\ memos[1].key \in ToSet(sides) /\ memos[2].key \in ToSet(sides)
          /\ job.key \in ToSet(sides)
      BY <1>1, <1>2, <1>3, <1>5, <2>1, <2>2 DEF ReadIn
    <2>4. \A k \in ToSet(sides): k = sides[1] \/ k = sides[2]
      <3>1. CASE sides \in Contents
        BY <3>1, SyntaxAssumption DEF ToSet
      <3>2. CASE sides = <<>>
        BY <3>2 DEF ToSet
      <3> QED BY <3>1, <3>2
    <2>5. memos[1].key # memos[2].key /\ memos[1].key # job.key /\ memos[2].key # job.key
      BY <1>1, <1>2 DEF OneReading
    <2> QED BY <2>3, <2>4, <2>5
  <1> QED BY <1>2, <1>3, <1>4, <1>5

\* What is retained: the job's reading, unless it is complete, behind the memos,
\* unless the oldest is forgotten for it.
LEMMA RememberKeeps ==
  ASSUME IInv, job # None, NEW m, m = Remember(job)
  PROVE  /\ m \in Seq(Memo)
         /\ \A i \in DOMAIN m: \/ \E x \in DOMAIN memos: m[i] = memos[x]
                               \/ m[i].key = job.key /\ m[i].version = job.version
         /\ \A i, j \in DOMAIN m: i < j =>
                /\ \E x \in DOMAIN memos: m[i] = memos[x]
                /\ \/ \E x, y \in DOMAIN memos: x < y /\ m[i] = memos[x] /\ m[j] = memos[y]
                   \/ m[j].key = job.key /\ m[j].version = job.version
         /\ \A x \in DOMAIN memos: \/ memos[x].version < job.version
                                   \/ \E i \in DOMAIN m: m[i] = memos[x]
         /\ job.reached # Lines =>
                \E i \in DOMAIN m: m[i].key = job.key /\ m[i].version = job.version
                                   /\ m[i].reached = job.reached
  <1> DEFINE own == [key |-> job.key, version |-> job.version, text |-> job.text,
                     reached |-> job.reached]
             kept == Append(memos, own)
             n == Len(memos)
  <1>1. memos \in Seq(Memo) /\ job \in Job
    BY DEF IInv, Holds, Types
  <1>2. /\ own \in Memo /\ own.key = job.key /\ own.version = job.version
        /\ own.reached = job.reached
    BY <1>1 DEF Job, Memo
  <1>3. n \in Nat /\ DOMAIN memos = 1..n
    BY <1>1
  <1>4. CASE job.reached = Lines
    BY <1>1, <1>4 DEF Remember
  <1>5. CASE job.reached # Lines /\ Len(kept) <= Memos
    <2> HIDE DEF own
    <2>1. m = kept
      <3>1. ~(Len(kept) > Memos)
        BY <1>1, <1>2, <1>5, SyntaxAssumption
      <3> QED BY <1>5, <3>1 DEF Remember, own
    <2>2. /\ m \in Seq(Memo) /\ DOMAIN m = 1..(n + 1) /\ m[n + 1] = own
          /\ \A i \in 1..n: m[i] = memos[i]
      BY <1>1, <1>2, <2>1
    <2> HIDE DEF n
    <2> QED BY <1>2, <1>3, <2>2
  <1>6. CASE job.reached # Lines /\ Len(kept) > Memos
    <2> HIDE DEF own
    <2>1. m = Tail(kept)
      BY <1>6 DEF Remember, own
    <2>2. Len(kept) = n + 1
      BY <1>1, <1>2
    <2>3. memos[1].version < job.version /\ n > 0
      BY <1>1, <1>6, <2>2, OldestIsOlder
    <2>4. /\ m \in Seq(Memo) /\ DOMAIN m = 1..n /\ m[n] = own
          /\ \A i \in 1..(n - 1): m[i] = memos[i + 1]
      BY <1>1, <1>2, <1>3, <2>1, <2>3
    <2> HIDE DEF n
    <2>5. \A i \in DOMAIN m: i = n \/ (i \in 1..(n - 1) /\ i + 1 \in DOMAIN memos)
      BY <1>3, <2>3, <2>4
    <2>6. \A x \in DOMAIN memos: x = 1 \/ (x - 1 \in DOMAIN m /\ m[x - 1] = memos[x])
      BY <1>3, <2>3, <2>4
    <2>7. \A i, j \in DOMAIN m: i < j => i # n /\ i + 1 < j + 1
      BY <1>3, <2>4
    <2>8. n \in DOMAIN m
      BY <1>3, <2>3, <2>4
    <2> QED BY <1>2, <2>3, <2>4, <2>5, <2>6, <2>7, <2>8
  <1> QED BY <1>1, <1>2, <1>4, <1>5, <1>6, SyntaxAssumption

\* The job is done: its reading is retained, so that what has been answered can
\* be continued.
LEMMA FinishJobIInv == ASSUME IInv, FinishJob PROVE IInv'
  <1>1. /\ Types(entries, outstanding, requests, version, shown) /\ Waited(outstanding, requests)
        /\ Streams(entries, requests) /\ Ordered(entries, requests, version)
        /\ Sided(requests, version, shown) /\ OneReading
        /\ Kept(entries, outstanding, requests, version)
    BY DEF IInv, Holds
  <1>2. /\ job # None /\ Satisfied(job) /\ job \in Job /\ job.answered
        /\ memos' = Remember(job) /\ job' = None
        /\ UNCHANGED <<shown, text, version, entries, outstanding, requests, responses>>
    <2>1. job # None /\ Satisfied(job) /\ job.answered
      BY <1>1 DEF FinishJob, Types, Reads
    <2> QED BY <1>1, <2>1 DEF FinishJob, Types, screenVars, storeVars
  <1>3. /\ ~Reads /\ ~Reads' /\ \A o: ~Live(o) /\ ~Live(o)'
    BY <1>2 DEF Reads, Live
  <1>4. /\ memos' \in Seq(Memo)
        /\ \A i \in DOMAIN memos': \/ \E x \in DOMAIN memos: memos'[i] = memos[x]
                                   \/ memos'[i].key = job.key /\ memos'[i].version = job.version
        /\ \A i, j \in DOMAIN memos': i < j =>
                /\ \E x \in DOMAIN memos: memos'[i] = memos[x]
                /\ \/ \E x, y \in DOMAIN memos: x < y /\ memos'[i] = memos[x] /\ memos'[j] = memos[y]
                   \/ memos'[j].key = job.key /\ memos'[j].version = job.version
    BY <1>2, RememberKeeps
  <1>5. /\ \A x \in DOMAIN memos: \/ memos[x].version < job.version
                                  \/ \E i \in DOMAIN memos': memos'[i] = memos[x]
        /\ job.reached # Lines =>
                \E i \in DOMAIN memos': memos'[i].key = job.key /\ memos'[i].version = job.version
                                        /\ memos'[i].reached = job.reached
    BY <1>2, RememberKeeps
  <1>6. Lines \in Nat /\ job.version \in Nat
    BY <1>2, FieldTypes
  <1>7. ASSUME NEW k, NEW u, NEW n, HasMemo(k, u, n), u \in Nat, job.version <= u, n # Lines
        PROVE  HasMemo(k, u, n)'
    <2>1. ~(u < job.version)
      BY <1>6, <1>7
    <2> QED BY <1>2, <1>5, <1>7, <2>1 DEF HasMemo
  <1>8. Types(entries, outstanding, requests, version, shown)'
    BY <1>1, <1>2, <1>4 DEF Types
  <1>9. Waited(outstanding, requests)' /\ Streams(entries, requests)'
    BY <1>1, <1>2, <1>3 DEF Waited, Streams
  <1>10. Ordered(entries, requests, version)'
    BY <1>1, <1>2, <1>4 DEF Ordered
  <1>11. Sided(requests, version, shown)'
    <2>1. \A k, u: ReadIn(requests, k, u)' => ReadIn(requests, k, u)
      BY <1>2, <1>4 DEF ReadIn
    <2> QED BY <1>1, <1>2, <2>1 DEF Sided
  <1>12. OneReading'
    <2>1. \A x, y \in DOMAIN memos: x < y => memos[x].key # memos[y].key
      BY <1>1 DEF OneReading, Types
    <2>2. \A i, j \in DOMAIN memos': i < j => memos'[i].key # memos'[j].key
      BY <1>1, <1>2, <1>4, <2>1 DEF OneReading
    <2>3. \A i, j \in DOMAIN memos': i # j => i < j \/ j < i
      BY <1>4
    <2> QED BY <1>2, <2>2, <2>3 DEF OneReading
  <1>13. Kept(entries, outstanding, requests, version)'
    <2>1. version \in Nat /\ job.version <= version
      BY <1>1, <1>2, FieldTypes DEF Ordered, Types
    <2>2. \A i \in DOMAIN requests: requests[i].have > 0 =>
                HasMemo(requests[i].key, requests[i].version, requests[i].have)'
      <3> SUFFICES ASSUME NEW i \in DOMAIN requests, requests[i].have > 0
                   PROVE  HasMemo(requests[i].key, requests[i].version, requests[i].have)'
        OBVIOUS
      <3>1. requests[i] \in Request /\ requests[i].have <= requests[i].last
        BY <1>1 DEF Types
      <3>2. requests[i].version \in Nat /\ requests[i].have # Lines
        <4>1. /\ requests[i].version \in Nat /\ requests[i].have \in Nat
              /\ requests[i].last \in LineNumbers
          BY <3>1, FieldTypes
        <4> QED BY <1>6, <3>1, <4>1 DEF LineNumbers
      <3>3. job.version <= requests[i].version
        BY <1>1, <1>2 DEF Ordered
      <3>4. HasMemo(requests[i].key, requests[i].version, requests[i].have)
        BY <1>1 DEF Kept
      <3> QED BY <1>2, <1>7, <3>2, <3>3, <3>4
    <2>3. ~(Lines < Lines)
      BY <1>6
    <2>4. \A i \in DOMAIN responses: Hindmost(responses, i) /\ ~responses[i].more
                /\ responses[i].version = version /\ 0 < End(responses[i])
                /\ End(responses[i]) < Lines => HasMemo(responses[i].key, version, End(responses[i]))'
      BY <1>1, <1>2, <1>7, <2>1, <2>3 DEF Kept
    <2>5. \A k \in Keys \ outstanding: entries[k] # None /\ entries[k].version = version
                /\ 0 < Len(entries[k].lines) /\ Len(entries[k].lines) < Lines
            => HasMemo(k, version, Len(entries[k].lines))'
      BY <1>1, <1>2, <1>7, <2>1, <2>3 DEF Kept
    <2> QED BY <1>2, <2>2, <2>4, <2>5 DEF Kept
  <1> QED BY <1>2, <1>8, <1>9, <1>10, <1>11, <1>12, <1>13 DEF IInv, Holds

--------------------------------------------------------------------------------
\* Nothing is asked for, read or retained at the start.
LEMMA InitIInv == Init => IInv
  <1> SUFFICES ASSUME Init PROVE IInv
    OBVIOUS
  <1>1. /\ version = 0 /\ text = 0 /\ 0 \in Texts /\ shown = <<>> /\ requests = <<>>
        /\ job = None /\ memos = <<>> /\ responses = <<>> /\ outstanding = {}
        /\ entries = [k \in Keys |-> None]
    BY SyntaxAssumption DEF Init, Texts
  <1>2. Types(entries, outstanding, requests, version, shown)
    <2>1. <<>> \in Seq(Request) /\ <<>> \in Seq(Memo) /\ <<>> \in Seq(Response)
      OBVIOUS
    <2>2. entries \in [Keys -> Entry \cup {None}]
      BY <1>1
    <2> QED BY <1>1, <2>1, <2>2 DEF Types
  <1>3. DOMAIN requests = {} /\ DOMAIN memos = {} /\ DOMAIN responses = {} /\ ~Reads
    BY <1>1 DEF Reads
  <1>4. Waited(outstanding, requests) /\ Streams(entries, requests)
    BY <1>3 DEF Waited, Streams, Live
  <1>5. Ordered(entries, requests, version) /\ OneReading /\ Kept(entries, outstanding, requests, version)
    BY <1>1, <1>3 DEF Ordered, OneReading, Kept
  <1>6. Sided(requests, version, shown)
    <2>1. \A k, u: ~ReadIn(requests, k, u)
      BY <1>1, <1>3 DEF ReadIn
    <2> QED BY <1>1, <2>1 DEF Sided
  <1> QED BY <1>1, <1>2, <1>4, <1>5, <1>6 DEF IInv, Holds

\* Every handler and every turn of the worker keeps IInv.
LEMMA NextIInv == IInv /\ [Next]_vars => IInv'
  <1> SUFFICES ASSUME IInv, [Next]_vars PROVE IInv'
    OBVIOUS
  <1>1. ASSUME NEW content \in Contents, NEW lasts \in [ToSet(content) -> LineNumbers],
               ShowContent(content, lasts)
        PROVE  IInv'
    BY <1>1, ShowContentIInv
  <1>2. ASSUME NEW lasts \in [ToSet(shown) -> LineNumbers], Scroll(lasts)
        PROVE  IInv'
    BY <1>2, ScrollIInv
  <1>3. CASE Deliver
    BY <1>3, DeliverIInv
  <1>4. CASE WorkerStep
    BY <1>4, ReceiveIInv, SendPieceIInv, FinishJobIInv DEF WorkerStep
  <1>5. CASE UNCHANGED vars
    <2>1. /\ UNCHANGED <<workerVars, responses>>
          /\ UNCHANGED <<text, version, shown, entries, outstanding, requests>>
      BY <1>5 DEF vars, screenVars, storeVars, workerVars
    <2>2. Holds(entries', outstanding', requests', version', shown')
      BY <2>1 DEF IInv
    <2> QED BY <2>1, <2>2, SameWorker DEF IInv
  <1> QED BY <1>1, <1>2, <1>3, <1>4, <1>5 DEF Next

\* The worker never answers with the wrong piece: whatever is shown, scrolled,
\* evicted and forgotten meanwhile, an answer that arrives for the version its
\* entry still has begins where the entry ends, in Syntax::deliver.
THEOREM AnswersAlwaysContinue == Spec => []AnswersContinue
  <1>1. IInv => AnswersContinue
    <2> SUFFICES ASSUME IInv, responses # <<>>
                 PROVE  LET r == Head(responses)
                            e == entries[r.key]
                        IN e # None /\ e.version = r.version => r.from = Len(e.lines)
      BY DEF AnswersContinue
    <2>1. responses \in Seq(Response)
      BY DEF IInv, Holds, Types
    <2>2. 1 \in DOMAIN responses /\ Head(responses) = responses[1]
      BY <2>1
    <2>3. Foremost(responses, 1)
      BY <2>1 DEF Foremost
    <2> QED BY <2>2, <2>3 DEF IInv, Holds, Streams, EntryAt
  <1> QED BY <1>1, InitIInv, NextIInv, PTL DEF Spec

--------------------------------------------------------------------------------
(* The store. *)

\* The lines of some keys and those of the others are apart.
LEMMA HeldApart ==
  ASSUME NEW s, NEW K, NEW G \in SUBSET K
  PROVE  /\ Held(s, K) = Held(s, G) \cup Held(s, K \ G)
         /\ Held(s, G) \cap Held(s, K \ G) = {}
  <1>1. \A x, H: x \in Held(s, H) <=> \E k \in H: x \in {k} \X DOMAIN LinesOf(s, k)
    BY Zenon DEF Held
  <1>2. \A x: \A k, o: x \in {k} \X DOMAIN LinesOf(s, k) /\ x \in {o} \X DOMAIN LinesOf(s, o) => k = o
    OBVIOUS
  <1>3. \A k: k \in K <=> k \in G \/ k \in K \ G
    OBVIOUS
  <1>4. \A x: x \in Held(s, K) <=> x \in Held(s, G) \/ x \in Held(s, K \ G)
    BY <1>1, <1>3
  <1>5. \A x: ~(x \in Held(s, G) /\ x \in Held(s, K \ G))
    BY <1>1, <1>2
  <1> QED BY <1>4, <1>5

\* They are counted apart.
LEMMA HeldCount ==
  ASSUME NEW s, NEW K, NEW G \in SUBSET K, IsFiniteSet(Held(s, K))
  PROVE  /\ IsFiniteSet(Held(s, G)) /\ Cardinality(Held(s, G)) \in Nat
         /\ IsFiniteSet(Held(s, K \ G)) /\ Cardinality(Held(s, K \ G)) \in Nat
         /\ Cardinality(Held(s, K)) = Cardinality(Held(s, G)) + Cardinality(Held(s, K \ G))
  <1>1. /\ Held(s, K) = Held(s, G) \cup Held(s, K \ G)
        /\ Held(s, G) \cap Held(s, K \ G) = {}
    BY HeldApart
  <1>2. Held(s, G) \in SUBSET Held(s, K) /\ Held(s, K \ G) \in SUBSET Held(s, K)
    BY <1>1
  <1>3. IsFiniteSet(Held(s, G)) /\ IsFiniteSet(Held(s, K \ G))
    BY <1>2, FS_Subset
  <1>4. /\ Cardinality(Held(s, G)) \in Nat /\ Cardinality(Held(s, K \ G)) \in Nat
        /\ Cardinality({}) = 0
    BY <1>3, FS_CardinalityType, FS_EmptySet
  <1>5. Cardinality(Held(s, G) \cup Held(s, K \ G))
            = Cardinality(Held(s, G)) + Cardinality(Held(s, K \ G)) - Cardinality({})
    BY <1>1, <1>3, FS_Union
  <1> QED BY <1>1, <1>3, <1>4, <1>5

\* A key with n lines counts n.
LEMMA RowCount ==
  ASSUME NEW k, NEW n \in Nat
  PROVE  IsFiniteSet({k} \X (1..n)) /\ Cardinality({k} \X (1..n)) = n
  <1>1. IsFiniteSet(1..n) /\ Cardinality(1..n) = n
    BY FS_Interval
  <1>2. IsFiniteSet({k}) /\ Cardinality({k}) = 1
    BY FS_Singleton
  <1>3. IsFiniteSet({k} \X (1..n)) /\ Cardinality({k} \X (1..n)) = Cardinality({k}) * Cardinality(1..n)
    BY <1>1, <1>2, FS_Product
  <1> QED BY <1>1, <1>2, <1>3

\* Of one key there are as many as its entry has.
LEMMA HeldOfOne ==
  ASSUME NEW s, NEW k, LinesOf(s, k) \in Seq(Texts)
  PROVE  /\ IsFiniteSet(Held(s, {k})) /\ Cardinality(Held(s, {k})) = Len(LinesOf(s, k))
  <1> DEFINE n == Len(LinesOf(s, k))
  <1>1. n \in Nat /\ DOMAIN LinesOf(s, k) = 1..n
    OBVIOUS
  <1>2. Held(s, {k}) = {k} \X (1..n)
    <2>1. Held(s, {k}) = {k} \X DOMAIN LinesOf(s, k)
      <3>1. {{o} \X DOMAIN LinesOf(s, o): o \in {k}} = {{k} \X DOMAIN LinesOf(s, k)}
        OBVIOUS
      <3> QED BY <3>1 DEF Held
    <2> QED BY <1>1, <2>1
  <1> HIDE DEF n
  <1>3. IsFiniteSet({k} \X (1..n)) /\ Cardinality({k} \X (1..n)) = n
    BY <1>1, RowCount
  <1>4. IsFiniteSet(Held(s, {k})) /\ Cardinality(Held(s, {k})) = n
    BY <1>2, <1>3
  <1> QED BY <1>4 DEF n

\* Keys with the same lines count the same.
LEMMA HeldSame ==
  ASSUME NEW s, NEW t, NEW K, \A k \in K: LinesOf(t, k) = LinesOf(s, k)
  PROVE  Held(t, K) = Held(s, K)
  <1>1. {{k} \X DOMAIN LinesOf(t, k): k \in K} = {{k} \X DOMAIN LinesOf(s, k): k \in K}
    BY Zenon
  <1> QED BY <1>1 DEF Held

\* One key and the others.
LEMMA HeldBesides ==
  \A s: IsFiniteSet(Held(s, Keys)) =>
    \A k \in Keys:
        /\ IsFiniteSet(Held(s, Keys \ {k})) /\ Cardinality(Held(s, Keys \ {k})) \in Nat
        /\ Cardinality(Held(s, Keys)) = Cardinality(Held(s, {k})) + Cardinality(Held(s, Keys \ {k}))
  <1>1. \A k \in Keys: {k} \in SUBSET Keys
    OBVIOUS
  <1> QED BY <1>1, HeldCount

\* When one entry changes, the count changes by what it loses and gains.
LEMMA HeldChanges ==
  ASSUME NEW s, NEW t, NEW k \in Keys, IsFiniteSet(Held(s, Keys)),
         LinesOf(s, k) \in Seq(Texts), LinesOf(t, k) \in Seq(Texts),
         \A o \in Keys \ {k}: LinesOf(t, o) = LinesOf(s, o)
  PROVE  /\ IsFiniteSet(Held(t, Keys))
         /\ Cardinality(Held(t, Keys))
                = Cardinality(Held(s, Keys)) - Len(LinesOf(s, k)) + Len(LinesOf(t, k))
  <1>1. {k} \in SUBSET Keys
    OBVIOUS
  <1>2. /\ IsFiniteSet(Held(s, Keys \ {k})) /\ Cardinality(Held(s, Keys \ {k})) \in Nat
        /\ Cardinality(Held(s, Keys)) = Cardinality(Held(s, {k})) + Cardinality(Held(s, Keys \ {k}))
    BY HeldBesides
  <1>3. Held(t, Keys \ {k}) = Held(s, Keys \ {k})
    BY HeldSame
  <1>4. /\ IsFiniteSet(Held(t, {k})) /\ Cardinality(Held(t, {k})) = Len(LinesOf(t, k))
        /\ Cardinality(Held(s, {k})) = Len(LinesOf(s, k))
        /\ Len(LinesOf(t, k)) \in Nat /\ Len(LinesOf(s, k)) \in Nat
    BY HeldOfOne
  <1>5. Held(t, Keys) = Held(t, {k}) \cup Held(s, Keys \ {k})
    BY <1>1, <1>3, HeldApart
  <1>6. IsFiniteSet(Held(t, Keys))
    BY <1>2, <1>4, <1>5, FS_Union
  <1>7. Cardinality(Held(t, Keys)) = Cardinality(Held(t, {k})) + Cardinality(Held(t, Keys \ {k}))
    BY <1>6, HeldBesides
  <1> QED BY <1>2, <1>3, <1>4, <1>6, <1>7

\* What StoreConsistent says of the store, as a value.
StoreInv(s) ==
    /\ s = [entries |-> s.entries, order |-> s.order, cached |-> s.cached]
    /\ s.entries \in [Keys -> Colours \cup {None}]
    /\ s.order \in Seq(Keys) /\ IsInjective(s.order)
    /\ ToSet(s.order) = {k \in Keys: s.entries[k] # None}
    /\ IsFiniteSet(Held(s, Keys)) /\ s.cached = Cardinality(Held(s, Keys))
    /\ \A k \in Keys: s.entries[k] # None =>
            \A i \in DOMAIN s.entries[k].lines: s.entries[k].lines[i] = s.entries[k].version

\* A painting has a text for each of at most Lines lines.
LEMMA PaintingIs ==
  \A x: x \in Painting <=> x \in Seq(Texts) /\ Len(x) <= Lines
  <1>1. Lines \in Nat
    BY SyntaxAssumption
  <1>2. ASSUME NEW x \in Painting PROVE x \in Seq(Texts) /\ Len(x) <= Lines
    <2>1. PICK n \in 0..Lines: x \in [1..n -> Texts]
      BY <1>2 DEF Painting
    <2>2. n \in Nat /\ n <= Lines
      BY <1>1
    <2>3. x \in Seq(Texts) /\ Len(x) = n
      BY <2>1, <2>2
    <2> QED BY <2>2, <2>3
  <1>3. ASSUME NEW x \in Seq(Texts), Len(x) <= Lines PROVE x \in Painting
    <2>1. Len(x) \in 0..Lines /\ x \in [1..Len(x) -> Texts]
      BY <1>1, <1>3
    <2> QED BY <2>1 DEF Painting
  <1> QED BY <1>2, <1>3

\* The entries of the store, and what the screen gets of them.
LEMMA ColoursAre ==
  /\ \A x \in Colours: x \in Entry /\ x.version \in Texts /\ x.lines \in Seq(Texts) /\ Len(x.lines) <= Lines
  /\ \A v \in Texts, x \in Seq(Texts): Len(x) <= Lines => [version |-> v, lines |-> x] \in Colours
  BY PaintingIs DEF Colours, Entry

\* The lines of an entry, or of none.
LEMMA LinesAre ==
  ASSUME NEW s, s.entries \in [Keys -> Colours \cup {None}], NEW k \in Keys
  PROVE  LinesOf(s, k) \in Seq(Texts) /\ LinesOf(s, k) \in Painting
  <1>1. CASE s.entries[k] = None
    <2>1. LinesOf(s, k) = <<>> /\ <<>> \in Seq(Texts) /\ Len(<<>>) <= Lines
      BY <1>1, SyntaxAssumption DEF LinesOf
    <2> QED BY <2>1, PaintingIs
  <1>2. CASE s.entries[k] # None
    <2>1. s.entries[k] \in Colours /\ LinesOf(s, k) = s.entries[k].lines
      BY <1>2 DEF LinesOf
    <2> QED BY <2>1, ColoursAre, PaintingIs
  <1> QED BY <1>1, <1>2

\* An element of an order is where it is: without it the others move up, and
\* the order is as it was if it is not there.
LEMMA RemoveFirstKeeps ==
  ASSUME NEW o \in Seq(Keys), IsInjective(o), NEW k, NEW t, t = RemoveFirst(o, k)
  PROVE  \E p \in 1..(Len(o) + 1):
            /\ \A i \in 1..Len(o): o[i] = k <=> i = p
            /\ t \in Seq(Keys)
            /\ Len(t) = IF p <= Len(o) THEN Len(o) - 1 ELSE Len(o)
            /\ \A i \in 1..Len(t): t[i] = IF i < p THEN o[i] ELSE o[i + 1]
  <1> DEFINE n == Len(o)
  <1>1. n \in Nat /\ DOMAIN o = 1..n
    OBVIOUS
  <1>2. CASE ~(\E i \in 1..n: o[i] = k)
    <2>1. t = o /\ n + 1 \in 1..(n + 1) /\ ~(n + 1 <= n) /\ \A i \in 1..n: i < n + 1 /\ i # n + 1
      BY <1>1, <1>2 DEF RemoveFirst
    <2> QED BY <1>1, <1>2, <2>1
  <1>3. CASE \E i \in 1..n: o[i] = k
    <2>1. PICK p \in 1..n: o[p] = k
      BY <1>3
    <2>2. \A i \in 1..n: o[i] = k <=> i = p
      BY <1>1, <2>1 DEF IsInjective
    <2>3. {i \in 1..n: o[i] = k} = {p}
      BY <2>2
    <2>4. Min({p}) = p
      BY <1>1 DEF Min
    <2>5. t = RemoveAt(o, p)
      BY <1>3, <2>3, <2>4 DEF RemoveFirst, SelectInSeq
    <2>6. /\ t \in Seq(Keys) /\ Len(t) = n - 1
          /\ \A i \in 1..(n - 1): t[i] = IF i < p THEN o[i] ELSE o[i + 1]
      <3>1. p \in 1..Len(o) /\ o \in Seq(Keys)
        BY <2>1
      <3>2. /\ t \in Seq(Keys) /\ Len(t) = Len(o) - 1
            /\ \A i \in 1..(Len(o) - 1): t[i] = IF i < p THEN o[i] ELSE o[i + 1]
        <4> HIDE DEF n
        <4> QED BY ONLY <2>5, <3>1, RemoveAtMembers, SMTT(20)
      <3> QED BY <3>2
    <2>7. p \in 1..(n + 1) /\ p <= n
      BY <1>1
    <2> HIDE DEF n
    <2>8. /\ \A i \in 1..n: o[i] = k <=> i = p
          /\ t \in Seq(Keys) /\ Len(t) = IF p <= n THEN n - 1 ELSE n
          /\ \A i \in 1..Len(t): t[i] = IF i < p THEN o[i] ELSE o[i + 1]
      BY <2>2, <2>6, <2>7
    <2> QED BY <2>7, <2>8 DEF n
  <1> QED BY <1>2, <1>3

\* The members of an order, without one of them.
LEMMA RemoveFirstMembers ==
  ASSUME NEW o \in Seq(Keys), IsInjective(o), NEW k, NEW t, t = RemoveFirst(o, k)
  PROVE  /\ t \in Seq(Keys) /\ IsInjective(t)
         /\ \A i \in 1..Len(t): t[i] # k
         /\ \A j \in 1..Len(o): o[j] = k \/ \E i \in 1..Len(t): t[i] = o[j]
         /\ \A i \in 1..Len(t): \E j \in 1..Len(o): t[i] = o[j]
  <1> DEFINE n == Len(o)
             l == Len(t)
  <1>1. PICK p \in 1..(n + 1):
            /\ \A i \in 1..n: o[i] = k <=> i = p
            /\ t \in Seq(Keys)
            /\ l = IF p <= n THEN n - 1 ELSE n
            /\ \A i \in 1..l: t[i] = IF i < p THEN o[i] ELSE o[i + 1]
    BY RemoveFirstKeeps
  <1>2. n \in Nat /\ p \in Nat /\ l \in Nat /\ DOMAIN o = 1..n /\ DOMAIN t = 1..l
    BY <1>1
  <1> DEFINE at(i) == IF i < p THEN i ELSE i + 1
  <1> HIDE DEF n, l
  <1>3. \A i \in 1..l: at(i) \in 1..n /\ at(i) # p
    BY <1>1, <1>2
  <1>4. \A i, j \in 1..l: at(i) = at(j) => i = j
    BY <1>2
  <1>5. ASSUME NEW j \in 1..n, j # p PROVE \E i \in 1..l: at(i) = j
    <2>1. CASE j < p
      <3>1. j \in 1..l /\ at(j) = j
        BY <1>1, <1>2, <2>1
      <3> QED BY <3>1
    <2>2. CASE j > p
      <3>1. j - 1 \in 1..l /\ at(j - 1) = j
        BY <1>1, <1>2, <2>2
      <3> QED BY <3>1
    <2> QED BY <1>2, <1>5, <2>1, <2>2
  <1>6. \A i \in 1..l: t[i] = o[at(i)]
    BY <1>1
  <1> HIDE DEF at
  <1>7. IsInjective(t)
    BY <1>2, <1>3, <1>4, <1>6 DEF IsInjective
  <1>8. \A i \in 1..l: t[i] # k
    BY <1>1, <1>3, <1>6
  <1>9. \A j \in 1..n: o[j] = k \/ \E i \in 1..l: t[i] = o[j]
    BY <1>1, <1>5, <1>6
  <1>10. \A i \in 1..l: \E j \in 1..n: t[i] = o[j]
    BY <1>3, <1>6
  <1> QED BY <1>1, <1>7, <1>8, <1>9, <1>10 DEF n, l

\* The key used last is the last of the order.
LEMMA MarkUsedKeeps ==
  ASSUME NEW o \in Seq(Keys), IsInjective(o), NEW k \in Keys, NEW m, m = MarkUsed(o, k)
  PROVE  m \in Seq(Keys) /\ IsInjective(m) /\ ToSet(m) = ToSet(o) \cup {k}
  <1> DEFINE t == RemoveFirst(o, k)
             l == Len(t)
  <1>1. /\ t \in Seq(Keys) /\ IsInjective(t)
        /\ \A i \in 1..l: t[i] # k
        /\ \A j \in 1..Len(o): o[j] = k \/ \E i \in 1..l: t[i] = o[j]
        /\ \A i \in 1..l: \E j \in 1..Len(o): t[i] = o[j]
    BY RemoveFirstMembers
  <1>2. m = Append(t, k)
    BY DEF MarkUsed
  <1> HIDE DEF t
  <1>3. /\ m \in Seq(Keys) /\ DOMAIN m = 1..(l + 1) /\ l \in Nat /\ DOMAIN t = 1..l
        /\ m[l + 1] = k /\ \A i \in 1..l: m[i] = t[i]
    BY <1>1, <1>2
  <1> HIDE DEF l
  <1>4. \A i \in 1..(l + 1): i = l + 1 \/ i \in 1..l
    BY <1>3
  <1>5. IsInjective(m)
    <2>1. \A i, j \in 1..l: t[i] = t[j] => i = j
      BY <1>1, <1>3 DEF IsInjective
    <2>2. \A i, j \in 1..(l + 1): m[i] = m[j] => i = j
      BY <1>1, <1>3, <1>4, <2>1
    <2> QED BY <1>3, <2>2 DEF IsInjective
  <1>6. \A x: x \in ToSet(m) <=> x \in ToSet(o) \/ x = k
    <2>1. \A x: x \in ToSet(m) <=> \E i \in 1..(l + 1): x = m[i]
      BY <1>3 DEF ToSet
    <2>2. \A x: x \in ToSet(o) <=> \E i \in 1..Len(o): x = o[i]
      BY DEF ToSet
    <2>3. l + 1 \in 1..(l + 1) /\ \A i \in 1..l: i \in 1..(l + 1)
      BY <1>3
    <2> QED BY <1>1, <1>3, <1>4, <2>1, <2>2, <2>3
  <1> QED BY <1>3, <1>5, <1>6

\* Store::ensure_cache keeps the store.
LEMMA EnsureCacheKeeps ==
  ASSUME NEW s, StoreInv(s), NEW k \in Keys, NEW v \in Texts
  PROVE  StoreInv(EnsureCache(s, k, v))
  <1> DEFINE fresh == [version |-> v, lines |-> <<>>]
             current == s.entries[k] # None /\ s.entries[k].version = v
             t == EnsureCache(s, k, v)
  <1>1. /\ s.entries \in [Keys -> Colours \cup {None}] /\ s.order \in Seq(Keys)
        /\ IsInjective(s.order) /\ ToSet(s.order) = {o \in Keys: s.entries[o] # None}
        /\ IsFiniteSet(Held(s, Keys)) /\ s.cached = Cardinality(Held(s, Keys))
    BY DEF StoreInv
  <1>2. fresh \in Colours /\ fresh # None /\ fresh.lines = <<>>
    <2>1. <<>> \in Seq(Texts) /\ Len(<<>>) <= Lines
      BY SyntaxAssumption
    <2> QED BY <2>1, ColoursAre, SyntaxAssumption
  <1>3. /\ t = [entries |-> t.entries, order |-> t.order, cached |-> t.cached]
        /\ t.entries = IF current THEN s.entries ELSE [s.entries EXCEPT ![k] = fresh]
        /\ t.order = MarkUsed(s.order, k)
        /\ t.cached = IF s.entries[k] = None \/ current THEN s.cached
                      ELSE s.cached - Len(s.entries[k].lines)
    BY DEF EnsureCache
  <1> HIDE DEF t, fresh
  <1>4. /\ t.entries \in [Keys -> Colours \cup {None}]
        /\ t.entries[k] = IF current THEN s.entries[k] ELSE fresh
        /\ \A o \in Keys \ {k}: t.entries[o] = s.entries[o]
    BY <1>1, <1>2, <1>3
  <1>5. /\ t.order \in Seq(Keys) /\ IsInjective(t.order)
        /\ ToSet(t.order) = {o \in Keys: t.entries[o] # None}
    <2>1. t.order \in Seq(Keys) /\ IsInjective(t.order) /\ ToSet(t.order) = ToSet(s.order) \cup {k}
      BY <1>1, <1>3, MarkUsedKeeps
    <2>2. \A o \in Keys: t.entries[o] # None <=> s.entries[o] # None \/ o = k
      BY <1>2, <1>4
    <2>3. {o \in Keys: t.entries[o] # None} = {o \in Keys: s.entries[o] # None} \cup {k}
      BY <2>2
    <2> QED BY <1>1, <2>1, <2>3
  <1>6. IsFiniteSet(Held(t, Keys)) /\ t.cached = Cardinality(Held(t, Keys))
    <2>1. /\ LinesOf(s, k) \in Seq(Texts) /\ LinesOf(t, k) \in Seq(Texts)
          /\ Len(LinesOf(s, k)) \in Nat
      <3>1. LinesOf(s, k) \in Seq(Texts)
        BY <1>1, LinesAre
      <3>2. LinesOf(t, k) \in Seq(Texts)
        BY <1>4, LinesAre
      <3> QED BY <3>1, <3>2
    <2>2. \A o \in Keys \ {k}: LinesOf(t, o) = LinesOf(s, o)
      BY <1>4 DEF LinesOf
    <2>3. /\ IsFiniteSet(Held(t, Keys))
          /\ Cardinality(Held(t, Keys))
                 = Cardinality(Held(s, Keys)) - Len(LinesOf(s, k)) + Len(LinesOf(t, k))
      BY <1>1, <2>1, <2>2, HeldChanges
    <2>4. s.cached \in Nat
      BY <1>1, FS_CardinalityType
    <2>5. CASE current
      <3>1. t.cached = s.cached /\ LinesOf(t, k) = LinesOf(s, k)
        BY <1>3, <1>4, <2>5 DEF LinesOf
      <3> HIDE DEF current
      <3> QED BY <1>1, <2>1, <2>3, <2>4, <3>1
    <2>6. CASE ~current
      <3>1. Len(LinesOf(t, k)) = 0
        BY <1>2, <1>4, <2>6 DEF LinesOf
      <3>2. t.cached = s.cached - Len(LinesOf(s, k))
        BY <1>3, <2>4, <2>6 DEF LinesOf
      <3> HIDE DEF current
      <3> QED BY <1>1, <2>1, <2>3, <2>4, <3>1, <3>2
    <2> QED BY <2>5, <2>6
  <1>7. \A o \in Keys: t.entries[o] # None =>
            \A i \in DOMAIN t.entries[o].lines: t.entries[o].lines[i] = t.entries[o].version
    <2>1. ASSUME NEW o \in Keys, t.entries[o] # None,
                 NEW i \in DOMAIN t.entries[o].lines
          PROVE  t.entries[o].lines[i] = t.entries[o].version
      <3>1. CASE t.entries[o] = s.entries[o]
        BY <2>1, <3>1 DEF StoreInv
      <3>2. CASE t.entries[o] # s.entries[o]
        BY <1>2, <1>4, <2>1, <3>2
      <3> QED BY <3>1, <3>2
    <2> QED BY <2>1
  <1>8. StoreInv(t)
    BY <1>3, <1>4, <1>5, <1>6, <1>7 DEF StoreInv
  <1> QED BY <1>8 DEF t

\* Store::install of an answer whose lines the file has.
LEMMA InstallKeeps ==
  ASSUME NEW s, StoreInv(s), NEW r \in Response, r.text = r.version, End(r) <= Lines
  PROVE  StoreInv(Install(s, r))
  <1> DEFINE k == r.key
             x == s.entries[k]
             piece == [i \in 1..r.count |-> r.text]
             lines == x.lines \o piece
             grown == [version |-> x.version, lines |-> lines]
             t == Install(s, r)
  <1>1. /\ s.entries \in [Keys -> Colours \cup {None}] /\ s.order \in Seq(Keys)
        /\ IsInjective(s.order) /\ ToSet(s.order) = {o \in Keys: s.entries[o] # None}
        /\ IsFiniteSet(Held(s, Keys)) /\ s.cached = Cardinality(Held(s, Keys))
        /\ s = [entries |-> s.entries, order |-> s.order, cached |-> s.cached]
    BY DEF StoreInv
  <1>2. /\ k \in Keys /\ r.text \in Texts /\ r.from \in Nat /\ r.count \in Nat /\ Lines \in Nat
    BY FieldTypes
  <1>3. CASE ~Accepts(s, r)
    BY <1>3 DEF Install
  <1>4. CASE Accepts(s, r)
    <2>1. /\ x \in Colours /\ x # None /\ x.version = r.version /\ r.from = Len(x.lines)
          /\ x.lines \in Seq(Texts) /\ x.version \in Texts
          /\ x = [version |-> x.version, lines |-> x.lines]
      <3>1. x \in Colours /\ x # None /\ x.version = r.version /\ r.from = Len(x.lines)
        BY <1>1, <1>2, <1>4 DEF Accepts
      <3> QED BY <3>1, ColoursAre DEF Colours
    <2>2. piece \in Seq(Texts) /\ Len(piece) = r.count /\ \A i \in 1..r.count: piece[i] = r.text
      BY <1>2
    <2>3. /\ lines \in Seq(Texts) /\ Len(lines) = Len(x.lines) + r.count
          /\ \A i \in 1..Len(lines): lines[i] = IF i <= Len(x.lines) THEN x.lines[i]
                                                ELSE piece[i - Len(x.lines)]
      <3> HIDE DEF x, piece
      <3>1. x.lines \in Seq(Texts) /\ piece \in Seq(Texts)
        BY <2>1, <2>2
      <3>2. /\ x.lines \o piece \in Seq(Texts)
            /\ Len(x.lines \o piece) = Len(x.lines) + Len(piece)
            /\ \A i \in 1..(Len(x.lines) + Len(piece)):
                    (x.lines \o piece)[i] = IF i <= Len(x.lines) THEN x.lines[i]
                                            ELSE piece[i - Len(x.lines)]
        BY <3>1, ConcatProperties
      <3> QED BY <2>2, <3>2
    <2>4. t = [entries |-> [s.entries EXCEPT ![k] = grown], order |-> s.order,
               cached |-> s.cached + r.count]
      <3>1. t = [s EXCEPT !.entries[k].lines = lines, !.cached = @ + r.count]
        BY <1>4 DEF Install
      <3>2. t = [entries |-> [s.entries EXCEPT ![k] = [x EXCEPT !.lines = lines]],
                 order |-> s.order, cached |-> s.cached + r.count]
        <4> HIDE DEF lines, k, t
        <4> QED BY <1>1, <3>1
      <3>3. [x EXCEPT !.lines = lines] = grown
        <4> HIDE DEF lines, x
        <4> QED BY <2>1
      <3> QED BY <3>2, <3>3
    <2>5. Len(lines) <= Lines
      <3> HIDE DEF lines, x
      <3> QED BY <1>2, <2>1, <2>3 DEF End
    <2>6. grown \in Colours /\ grown # None /\ grown.lines = lines /\ grown.version = r.version
      <3> HIDE DEF lines, x
      <3> QED BY <2>1, <2>3, <2>5, ColoursAre, SyntaxAssumption
    <2> HIDE DEF t, grown
    <2>7. /\ t.entries \in [Keys -> Colours \cup {None}]
          /\ t.entries[k] = grown
          /\ \A o \in Keys \ {k}: t.entries[o] = s.entries[o]
          /\ t.order = s.order /\ t.cached = s.cached + r.count
          /\ t = [entries |-> t.entries, order |-> t.order, cached |-> t.cached]
      BY <1>1, <1>2, <2>4, <2>6
    <2>8. {o \in Keys: t.entries[o] # None} = {o \in Keys: s.entries[o] # None}
      BY <2>1, <2>6, <2>7
    <2>9. IsFiniteSet(Held(t, Keys)) /\ t.cached = Cardinality(Held(t, Keys))
      <3>1. /\ LinesOf(s, k) = x.lines /\ LinesOf(t, k) = lines
            /\ \A o \in Keys \ {k}: LinesOf(t, o) = LinesOf(s, o)
        BY <2>1, <2>6, <2>7 DEF LinesOf
      <3> HIDE DEF lines, x
      <3>2. /\ IsFiniteSet(Held(t, Keys))
            /\ Cardinality(Held(t, Keys)) = Cardinality(Held(s, Keys)) - Len(x.lines) + Len(lines)
        BY <1>1, <1>2, <2>1, <2>3, <3>1, HeldChanges
      <3>3. s.cached \in Nat
        BY <1>1, FS_CardinalityType
      <3> QED BY <1>1, <1>2, <2>1, <2>3, <2>7, <3>2, <3>3
    <2>10. ASSUME NEW o \in Keys, t.entries[o] # None, NEW i \in DOMAIN t.entries[o].lines
           PROVE  t.entries[o].lines[i] = t.entries[o].version
      <3>1. CASE o # k
        BY <2>7, <2>10, <3>1 DEF StoreInv
      <3>2. CASE o = k
        <4>1. i \in 1..Len(lines) /\ t.entries[o].lines[i] = lines[i]
          <5>1. t.entries[o].lines = lines
            BY <2>6, <2>7, <3>2
          <5> HIDE DEF lines
          <5>2. DOMAIN lines = 1..Len(lines)
            BY <2>3
          <5> QED BY <2>10, <5>1, <5>2
        <4>2. \A j \in DOMAIN x.lines: x.lines[j] = r.version
          BY <1>2, <2>1 DEF StoreInv
        <4> HIDE DEF lines, x, piece
        <4>3. CASE i <= Len(x.lines)
          <5>1. i \in DOMAIN x.lines
            BY <2>1, <2>3, <4>1, <4>3
          <5> QED BY <2>3, <2>6, <2>7, <3>2, <4>1, <4>2, <4>3, <5>1
        <4>4. CASE ~(i <= Len(x.lines))
          <5>1. i - Len(x.lines) \in 1..r.count
            BY <1>2, <2>1, <2>3, <4>1, <4>4
          <5> QED BY <2>2, <2>3, <2>6, <2>7, <3>2, <4>1, <4>4, <5>1
        <4> QED BY <4>3, <4>4
      <3> QED BY <3>1, <3>2
    <2>11. StoreInv(t)
      BY <1>1, <2>7, <2>8, <2>9, <2>10 DEF StoreInv
    <2> QED BY <2>11 DEF t
  <1> QED BY <1>3, <1>4

\* There are n keys in the order besides k.
MayTake(o, k, n) == n \in 0..Len(RemoveFirst(o, k))

\* The loop of Store::evict takes no more turns than there are other entries.
LEMMA TurnsBound ==
  ASSUME NEW s, s.order \in Seq(Keys), IsInjective(s.order), NEW k
  PROVE  MayTake(s.order, k, Turns(s, k))
  <1> DEFINE t == RemoveFirst(s.order, k)
             taken == {n \in DOMAIN t: s.cached - Cardinality(Held(s, Oldest(s, k, n - 1))) > Budget}
  <1>1. t \in Seq(Keys)
    BY RemoveFirstMembers
  <1>2. Turns(s, k) = Cardinality(taken)
    BY DEF Turns
  <1>3. taken \in SUBSET DOMAIN t
    OBVIOUS
  <1> HIDE DEF taken, t
  <1>4. DOMAIN t = 1..Len(t) /\ Len(t) \in Nat
    BY <1>1
  <1>5. IsFiniteSet(1..Len(t)) /\ Cardinality(1..Len(t)) = Len(t)
    <2>1. /\ IsFiniteSet(1..Len(t))
          /\ Cardinality(1..Len(t)) = IF 1 > Len(t) THEN 0 ELSE Len(t) - 1 + 1
      <3>1. 1 \in Int /\ Len(t) \in Int
        BY <1>4
      <3> QED BY <3>1, FS_Interval
    <2> QED BY <1>4, <2>1
  <1>6. IsFiniteSet(taken) /\ Cardinality(taken) <= Len(t)
    BY <1>3, <1>4, <1>5, FS_Subset
  <1>7. Cardinality(taken) \in Nat
    BY <1>6, FS_CardinalityType
  <1>8. Turns(s, k) \in 0..Len(t)
    BY <1>2, <1>4, <1>6, <1>7
  <1> QED BY <1>8 DEF t, MayTake

\* An element in front of others.
LEMMA ConsKeeps ==
  ASSUME NEW k \in Keys, NEW rest \in Seq(Keys), IsInjective(rest), k \notin ToSet(rest),
         NEW left, left = Cons(k, rest)
  PROVE  left \in Seq(Keys) /\ IsInjective(left) /\ ToSet(left) = {k} \cup ToSet(rest)
  <1> DEFINE m == Len(rest)
  <1>1. m \in Nat /\ DOMAIN rest = 1..m
    OBVIOUS
  <1>2. left = <<k>> \o rest
    BY DEF Cons
  <1> HIDE DEF m
  <1>3. <<k>> \in Seq(Keys) /\ Len(<<k>>) = 1 /\ <<k>>[1] = k
    OBVIOUS
  <1>4. /\ left \in Seq(Keys) /\ Len(left) = 1 + m
        /\ \A i \in 1..(1 + m): left[i] = IF i <= 1 THEN <<k>>[i] ELSE rest[i - 1]
    <2>1. /\ <<k>> \o rest \in Seq(Keys) /\ Len(<<k>> \o rest) = Len(<<k>>) + Len(rest)
          /\ \A i \in 1..(Len(<<k>>) + Len(rest)):
                  (<<k>> \o rest)[i] = IF i <= Len(<<k>>) THEN <<k>>[i] ELSE rest[i - Len(<<k>>)]
      BY <1>3, ConcatProperties
    <2>2. Len(rest) = m
      BY DEF m
    <2> QED BY <1>2, <1>3, <2>1, <2>2
  <1>5. DOMAIN left = 1..(1 + m) /\ left[1] = k /\ 1 \in 1..(1 + m)
    <2>1. 1 \in 1..(1 + m) /\ 1 <= 1
      BY <1>1
    <2> QED BY <1>1, <1>3, <1>4, <2>1
  <1>6. \A i \in 1..m: i + 1 \in 1..(1 + m) /\ left[i + 1] = rest[i]
    <2>1. \A i \in 1..m: i + 1 \in 1..(1 + m) /\ ~(i + 1 <= 1) /\ (i + 1) - 1 = i
      BY <1>1
    <2> QED BY <1>4, <2>1
  <1>7. \A i \in 1..(1 + m): i = 1 \/ (i - 1 \in 1..m /\ left[i] = rest[i - 1])
    <2>1. \A i \in 1..(1 + m): i = 1 \/ (i - 1 \in 1..m /\ ~(i <= 1))
      BY <1>1
    <2> QED BY <1>4, <2>1
  <1>8. \A x: x \in ToSet(rest) <=> \E i \in 1..m: x = rest[i]
    BY <1>1 DEF ToSet
  <1>9. \A x: x \in ToSet(left) <=> \E i \in 1..(1 + m): x = left[i]
    BY <1>5 DEF ToSet
  <1>10. \A x: x \in ToSet(left) <=> x = k \/ x \in ToSet(rest)
    BY <1>5, <1>6, <1>7, <1>8, <1>9
  <1>11. \A i, j \in 1..(1 + m): left[i] = left[j] => i = j
    <2>1. \A i, j \in 1..m: rest[i] = rest[j] => i = j
      BY <1>1 DEF IsInjective
    <2>2. \A i \in 1..m: rest[i] # k
      BY <1>8
    <2>3. ASSUME NEW i \in 1..(1 + m), NEW j \in 1..(1 + m), left[i] = left[j] PROVE i = j
      <3>1. CASE i = 1 \/ j = 1
        BY <1>5, <1>7, <2>2, <2>3, <3>1
      <3>2. CASE i # 1 /\ j # 1
        <4>1. i - 1 = j - 1
          BY <1>7, <2>1, <2>3, <3>2
        <4> QED BY <1>1, <4>1
      <3> QED BY <3>1, <3>2
    <2> QED BY <2>3
  <1> QED BY <1>4, <1>5, <1>10, <1>11 DEF IsInjective

\* The order behind its first n keys.
LEMMA BehindKeeps ==
  ASSUME NEW o \in Seq(Keys), IsInjective(o), NEW n \in 0..Len(o)
  PROVE  LET left == SubSeq(o, n + 1, Len(o))
         IN /\ left \in Seq(Keys) /\ IsInjective(left)
            /\ \A x: x \in ToSet(left) <=> \E j \in (n + 1)..Len(o): x = o[j]
  <1> DEFINE l == Len(o)
             m == l - n
             left == SubSeq(o, n + 1, Len(o))
  <1>1. left \in Seq(Keys) /\ Len(left) = m /\ \A i \in 1..m: left[i] = o[n + i]
    BY LastPart
  <1> HIDE DEF left
  <1>2. l \in Nat /\ n \in Nat /\ n <= l /\ m \in Nat /\ DOMAIN left = 1..m
    BY <1>1
  <1>3. \A i, j \in 1..l: o[i] = o[j] => i = j
    BY DEF IsInjective
  <1> HIDE DEF l
  <1>4. \A i \in 1..m: n + i \in (n + 1)..l /\ n + i \in 1..l
    BY <1>2
  <1>5. \A j \in (n + 1)..l: j - n \in 1..m /\ n + (j - n) = j
    BY <1>2
  <1>6. \A i, j \in 1..m: n + i = n + j => i = j
    BY <1>2
  <1> HIDE DEF m
  <1>7. \A i, j \in 1..m: left[i] = left[j] => i = j
    BY <1>1, <1>3, <1>4, <1>6
  <1>8. \A x: x \in ToSet(left) <=> \E i \in 1..m: x = left[i]
    BY <1>2 DEF ToSet
  <1>9. ASSUME NEW x, x \in ToSet(left) PROVE \E j \in (n + 1)..l: x = o[j]
    BY <1>1, <1>4, <1>8, <1>9
  <1>10. ASSUME NEW j \in (n + 1)..l PROVE o[j] \in ToSet(left)
    BY <1>1, <1>5, <1>8, <1>10
  <1>11. left \in Seq(Keys) /\ IsInjective(left)
    BY <1>1, <1>2, <1>7 DEF IsInjective
  <1>12. \A x: x \in ToSet(left) <=> \E j \in (n + 1)..l: x = o[j]
    BY <1>9, <1>10
  <1> QED BY <1>11, <1>12 DEF l, left

\* What n turns of the loop take off the order o, of which t is left without k:
\* the first n keys, or n of the first n + 1 if k is one of them.
LEMMA CutOff ==
  ASSUME NEW o, Len(o) \in Nat, NEW t \in Seq(Keys), NEW p \in 1..(Len(o) + 1),
         Len(t) = IF p <= Len(o) THEN Len(o) - 1 ELSE Len(o),
         \A i \in 1..Len(t): t[i] = IF i < p THEN o[i] ELSE o[i + 1],
         NEW n \in 0..Len(t)
  PROVE  /\ n \in 0..Len(o)
         /\ p <= n => p <= Len(o) /\ n + 1 \in 0..Len(o)
         /\ \A x: x \in ToSet(SubSeq(t, 1, n)) <=>
                    IF p <= n THEN \E j \in 1..(n + 1): j # p /\ x = o[j]
                    ELSE \E j \in 1..n: x = o[j]
  <1> DEFINE l == Len(o)
             cut == SubSeq(t, 1, n)
  <1>1. cut \in Seq(Keys) /\ Len(cut) = n /\ \A i \in 1..n: cut[i] = t[i]
    BY FirstPart
  <1> HIDE DEF l, cut
  <1>2. l \in Nat /\ p \in 1..(l + 1) /\ n \in 0..Len(t) /\ Len(t) \in Nat
    BY DEF l
  <1>3. /\ n \in 0..l /\ p \in Nat /\ n \in Nat /\ n <= Len(t)
        /\ p <= n => p <= l /\ n + 1 \in 0..l
    BY <1>2 DEF l
  <1>4. \A x: x \in ToSet(cut) <=> \E i \in 1..n: x = cut[i]
    <2>1. DOMAIN cut = 1..n
      BY <1>1
    <2> QED BY <2>1 DEF ToSet
  <1>5. \A i \in 1..n: cut[i] = IF i < p THEN o[i] ELSE o[i + 1]
    <2>1. \A i \in 1..n: i \in 1..Len(t)
      BY <1>2, <1>3
    <2> QED BY <1>1, <2>1
  <1>6. CASE p <= n
    <2>1. ASSUME NEW i \in 1..n PROVE \E j \in 1..(n + 1): j # p /\ cut[i] = o[j]
      <3>1. CASE i < p
        <4>1. i \in 1..(n + 1) /\ i # p /\ cut[i] = o[i]
          BY <1>3, <1>5, <3>1
        <4> QED BY <4>1
      <3>2. CASE ~(i < p)
        <4>1. i + 1 \in 1..(n + 1) /\ i + 1 # p /\ cut[i] = o[i + 1]
          BY <1>3, <1>5, <3>2
        <4> QED BY <4>1
      <3> QED BY <3>1, <3>2
    <2>2. ASSUME NEW j \in 1..(n + 1), j # p PROVE o[j] \in ToSet(cut)
      <3>1. CASE j < p
        <4>1. j \in 1..n /\ cut[j] = o[j]
          BY <1>3, <1>5, <1>6, <3>1
        <4> QED BY <1>4, <4>1
      <3>2. CASE j > p
        <4>1. j - 1 \in 1..n /\ ~(j - 1 < p) /\ (j - 1) + 1 = j
          BY <1>2, <1>3, <3>2
        <4>2. cut[j - 1] = o[j]
          BY <1>5, <4>1
        <4> QED BY <1>4, <4>1, <4>2
      <3> QED BY <1>3, <2>2, <3>1, <3>2
    <2>3. ASSUME NEW x, x \in ToSet(cut) PROVE \E j \in 1..(n + 1): j # p /\ x = o[j]
      BY <1>4, <2>1, <2>3
    <2>4. \A x: x \in ToSet(cut) <=> \E j \in 1..(n + 1): j # p /\ x = o[j]
      BY <2>2, <2>3
    <2> QED BY <1>3, <1>6, <2>4 DEF l, cut
  <1>7. CASE ~(p <= n)
    <2>1. \A i \in 1..n: cut[i] = o[i]
      <3>1. \A i \in 1..n: i < p
        BY <1>3, <1>7
      <3> QED BY <1>5, <3>1
    <2>2. \A x: x \in ToSet(cut) <=> \E j \in 1..n: x = o[j]
      BY <1>4, <2>1
    <2> QED BY <1>3, <1>7, <2>2 DEF l, cut
  <1> QED BY <1>6, <1>7

\* What is left of the order is what is not taken off it.
LEMMA EvictOrder ==
  ASSUME NEW o \in Seq(Keys), IsInjective(o), NEW k, NEW n, MayTake(o, k, n)
  PROVE  LET gone == ToSet(SubSeq(RemoveFirst(o, k), 1, n)) \ {k}
             left == IF Contains(SubSeq(o, 1, n), k) THEN Cons(k, SubSeq(o, n + 2, Len(o)))
                     ELSE SubSeq(o, n + 1, Len(o))
         IN /\ left \in Seq(Keys) /\ IsInjective(left)
            /\ gone \in SUBSET ToSet(o) /\ ToSet(left) = ToSet(o) \ gone
  <1> DEFINE l == Len(o)
             t == RemoveFirst(o, k)
             cut == SubSeq(t, 1, n)
             gone == ToSet(cut) \ {k}
             left == IF Contains(SubSeq(o, 1, n), k) THEN Cons(k, SubSeq(o, n + 2, Len(o)))
                     ELSE SubSeq(o, n + 1, Len(o))
  <1> HIDE DEF t, cut, gone, left
  <1> SUFFICES /\ left \in Seq(Keys) /\ IsInjective(left)
               /\ gone \in SUBSET ToSet(o) /\ ToSet(left) = ToSet(o) \ gone
    BY DEF t, cut, gone, left
  <1>0. PICK p \in 1..(l + 1):
            /\ \A i \in 1..l: o[i] = k <=> i = p
            /\ t \in Seq(Keys)
            /\ Len(t) = IF p <= l THEN l - 1 ELSE l
            /\ \A i \in 1..Len(t): t[i] = IF i < p THEN o[i] ELSE o[i + 1]
    <2>1. t = RemoveFirst(o, k)
      BY DEF t
    <2> QED BY <2>1, RemoveFirstKeeps
  <1>1. /\ \A i \in 1..l: o[i] = k <=> i = p
        /\ n \in 0..l
        /\ p <= n => p <= l /\ n + 1 \in 0..l
        /\ \A x: x \in gone <=> IF p <= n THEN \E j \in 1..(n + 1): j # p /\ x = o[j]
                                ELSE \E j \in 1..n: x = o[j]
    <2>1. n \in 0..Len(t) /\ l \in Nat
      BY DEF MayTake, t
    <2>2. /\ n \in 0..l
          /\ p <= n => p <= l /\ n + 1 \in 0..l
          /\ \A x: x \in ToSet(cut) <=> IF p <= n THEN \E j \in 1..(n + 1): j # p /\ x = o[j]
                                         ELSE \E j \in 1..n: x = o[j]
      <3>1. /\ t \in Seq(Keys) /\ p \in 1..(Len(o) + 1) /\ Len(o) \in Nat
            /\ Len(t) = IF p <= Len(o) THEN Len(o) - 1 ELSE Len(o)
            /\ \A i \in 1..Len(t): t[i] = IF i < p THEN o[i] ELSE o[i + 1]
        BY <1>0, <2>1
      <3> HIDE DEF l
      <3>2. /\ n \in 0..Len(o)
            /\ p <= n => p <= Len(o) /\ n + 1 \in 0..Len(o)
            /\ \A x: x \in ToSet(SubSeq(t, 1, n)) <=>
                        IF p <= n THEN \E j \in 1..(n + 1): j # p /\ x = o[j]
                        ELSE \E j \in 1..n: x = o[j]
        BY <2>1, <3>1, CutOff
      <3> QED BY <3>2 DEF cut, l
    <2>3. \A i \in 1..Len(t): t[i] # k
      BY RemoveFirstMembers DEF t
    <2>4. k \notin ToSet(cut)
      <3>1. Len(cut) = n /\ \A i \in 1..n: cut[i] = t[i]
        BY <1>0, <2>1, FirstPart DEF cut
      <3>2. \A i \in 1..n: i \in 1..Len(t)
        BY <2>1
      <3> QED BY <2>3, <3>1, <3>2 DEF ToSet
    <2> QED BY <1>0, <2>2, <2>4 DEF gone
  <1>2. /\ p \in 1..(l + 1) /\ p \in Nat /\ p >= 1 /\ l \in Nat /\ n \in Nat /\ n <= l
    BY <1>1
  <1>3. /\ \A i, j \in 1..l: o[i] = o[j] => i = j
        /\ \A x: x \in ToSet(o) <=> \E j \in 1..l: x = o[j]
    <2>1. DOMAIN o = 1..l
      OBVIOUS
    <2> QED BY <2>1 DEF IsInjective, ToSet
  <1>4. Contains(SubSeq(o, 1, n), k) <=> p <= n
    <2> DEFINE head == SubSeq(o, 1, n)
    <2>1. Len(head) = n /\ \A i \in 1..n: head[i] = o[i]
      BY <1>1, FirstPart
    <2> HIDE DEF head
    <2>2. Contains(head, k) <=> \E i \in 1..n: o[i] = k
      BY <2>1 DEF Contains
    <2> HIDE DEF l
    <2>3. \A i \in 1..n: i \in 1..l /\ (i = p => p <= n)
      BY <1>2
    <2>4. p <= n => p \in 1..n
      BY <1>2
    <2>5. (\E i \in 1..n: o[i] = k) <=> p <= n
      BY <1>1, <2>3, <2>4
    <2> QED BY <2>2, <2>5 DEF head
  <1>5. CASE p <= n
    <2> DEFINE m == n + 1
               rest == SubSeq(o, m + 1, l)
    <2>1. p \in 1..l /\ p <= m /\ k = o[p] /\ k \in Keys /\ m \in 0..l /\ m \in Nat
      <3>1. p \in 1..l /\ p <= n + 1 /\ n + 1 \in Nat
        <4> HIDE DEF l
        <4> QED BY <1>1, <1>2, <1>5
      <3>2. k = o[p] /\ o[p] \in Keys
        BY <1>1, <3>1
      <3> QED BY <1>1, <1>5, <3>1, <3>2
    <2>2. left = Cons(k, rest)
      <3>1. m + 1 = n + 2
        BY <1>2
      <3> QED BY <1>4, <1>5, <3>1 DEF left
    <2>3. /\ rest \in Seq(Keys) /\ IsInjective(rest)
          /\ \A x: x \in ToSet(rest) <=> \E j \in (m + 1)..l: x = o[j]
      <3> HIDE DEF m
      <3> QED BY <2>1, BehindKeeps
    <2> HIDE DEF rest, m, l
    <2>4. \A j \in (m + 1)..l: j \in 1..l /\ j # p /\ ~(j \in 1..m)
      BY <1>2, <2>1
    <2>5. \A j \in 1..m: j \in 1..l
      BY <1>2, <2>1
    <2>6. \A j \in 1..l: j \in 1..m \/ j \in (m + 1)..l
      BY <1>2, <2>1
    <2>7. k \notin ToSet(rest)
      BY <1>3, <2>1, <2>3, <2>4
    <2>8. left \in Seq(Keys) /\ IsInjective(left) /\ ToSet(left) = {k} \cup ToSet(rest)
      BY <2>1, <2>2, <2>3, <2>7, ConsKeeps
    <2>9. \A x: x \in gone <=> \E j \in 1..m: j # p /\ x = o[j]
      BY <1>1, <1>5 DEF m
    <2>10. \A x: x \in ToSet(left) <=> x = o[p] \/ \E j \in (m + 1)..l: x = o[j]
      BY <2>1, <2>3, <2>8
    <2>11. ASSUME NEW x, x \in ToSet(left) PROVE x \in ToSet(o) /\ x \notin gone
      BY <1>3, <2>1, <2>4, <2>5, <2>9, <2>10, <2>11
    <2>12. ASSUME NEW x, x \in ToSet(o), x \notin gone PROVE x \in ToSet(left)
      BY <1>3, <2>6, <2>9, <2>10, <2>12
    <2>13. ASSUME NEW x, x \in gone PROVE x \in ToSet(o)
      BY <1>3, <2>5, <2>9, <2>13
    <2> QED BY <2>8, <2>11, <2>12, <2>13
  <1>6. CASE ~(p <= n)
    <2>1. left = SubSeq(o, n + 1, l)
      BY <1>4, <1>6 DEF left
    <2>2. /\ left \in Seq(Keys) /\ IsInjective(left)
          /\ \A x: x \in ToSet(left) <=> \E j \in (n + 1)..l: x = o[j]
      BY <1>1, <2>1, BehindKeeps
    <2> HIDE DEF l
    <2>3. /\ \A j \in (n + 1)..l: j \in 1..l /\ ~(j \in 1..n)
          /\ \A j \in 1..n: j \in 1..l
          /\ \A j \in 1..l: j \in 1..n \/ j \in (n + 1)..l
      BY <1>2
    <2>4. \A x: x \in gone <=> \E j \in 1..n: x = o[j]
      BY <1>1, <1>6
    <2>5. ASSUME NEW x, x \in ToSet(left) PROVE x \in ToSet(o) /\ x \notin gone
      BY <1>3, <2>2, <2>3, <2>4, <2>5
    <2>6. ASSUME NEW x, x \in ToSet(o), x \notin gone PROVE x \in ToSet(left)
      BY <1>3, <2>2, <2>3, <2>4, <2>6
    <2>7. ASSUME NEW x, x \in gone PROVE x \in ToSet(o)
      BY <1>3, <2>3, <2>4, <2>7
    <2> QED BY <2>2, <2>5, <2>6, <2>7
  <1> QED BY <1>5, <1>6

\* Store::evict keeps the store, for as many turns as there are other entries.
LEMMA EvictKeeps ==
  ASSUME NEW s, StoreInv(s), NEW k, NEW n, MayTake(s.order, k, n)
  PROVE  StoreInv(Evict(s, k, n))
  <1> DEFINE gone == Oldest(s, k, n)
             t == Evict(s, k, n)
  <1>1. /\ s.entries \in [Keys -> Colours \cup {None}] /\ s.order \in Seq(Keys)
        /\ IsInjective(s.order) /\ ToSet(s.order) = {o \in Keys: s.entries[o] # None}
        /\ IsFiniteSet(Held(s, Keys)) /\ s.cached = Cardinality(Held(s, Keys))
    BY DEF StoreInv
  <1>2. /\ t = [entries |-> t.entries, order |-> t.order, cached |-> t.cached]
        /\ t.entries = [o \in Keys |-> IF o \in gone THEN None ELSE s.entries[o]]
        /\ t.order = IF Contains(SubSeq(s.order, 1, n), k)
                     THEN Cons(k, SubSeq(s.order, n + 2, Len(s.order)))
                     ELSE SubSeq(s.order, n + 1, Len(s.order))
        /\ t.cached = s.cached - Cardinality(Held(s, gone))
    BY DEF Evict
  <1>3. gone = ToSet(SubSeq(RemoveFirst(s.order, k), 1, n)) \ {k}
    BY DEF Oldest
  <1> HIDE DEF t, gone
  <1>4. /\ t.order \in Seq(Keys) /\ IsInjective(t.order)
        /\ gone \in SUBSET ToSet(s.order) /\ ToSet(t.order) = ToSet(s.order) \ gone
    <2>1. s.order \in Seq(Keys) /\ IsInjective(s.order)
      BY <1>1
    <2>2. t.order = IF Contains(SubSeq(s.order, 1, n), k)
                    THEN Cons(k, SubSeq(s.order, n + 2, Len(s.order)))
                    ELSE SubSeq(s.order, n + 1, Len(s.order))
      BY <1>2
    <2>3. LET g == ToSet(SubSeq(RemoveFirst(s.order, k), 1, n)) \ {k}
              left == IF Contains(SubSeq(s.order, 1, n), k)
                      THEN Cons(k, SubSeq(s.order, n + 2, Len(s.order)))
                      ELSE SubSeq(s.order, n + 1, Len(s.order))
          IN /\ left \in Seq(Keys) /\ IsInjective(left)
             /\ g \in SUBSET ToSet(s.order) /\ ToSet(left) = ToSet(s.order) \ g
      BY Zenon, <2>1, EvictOrder
    <2> QED BY Zenon, <1>3, <2>2, <2>3
  <1>5. gone \in SUBSET Keys
    BY <1>1, <1>4
  <1>6. /\ t.entries \in [Keys -> Colours \cup {None}]
        /\ \A o \in Keys: o \in gone => t.entries[o] = None
        /\ \A o \in Keys: o \notin gone => t.entries[o] = s.entries[o]
    BY <1>1, <1>2
  <1>7. ToSet(t.order) = {o \in Keys: t.entries[o] # None}
    BY <1>1, <1>4, <1>6
  <1>8. IsFiniteSet(Held(t, Keys)) /\ t.cached = Cardinality(Held(t, Keys))
    <2>1. /\ Held(t, Keys) = Held(t, gone) \cup Held(t, Keys \ gone)
          /\ IsFiniteSet(Held(s, gone)) /\ Cardinality(Held(s, gone)) \in Nat
          /\ IsFiniteSet(Held(s, Keys \ gone)) /\ Cardinality(Held(s, Keys \ gone)) \in Nat
          /\ Cardinality(Held(s, Keys)) = Cardinality(Held(s, gone)) + Cardinality(Held(s, Keys \ gone))
      <3>1. Held(t, Keys) = Held(t, gone) \cup Held(t, Keys \ gone)
        BY <1>5, HeldApart
      <3>2. IsFiniteSet(Held(s, Keys))
        BY <1>1
      <3>3. /\ IsFiniteSet(Held(s, gone)) /\ Cardinality(Held(s, gone)) \in Nat
            /\ IsFiniteSet(Held(s, Keys \ gone)) /\ Cardinality(Held(s, Keys \ gone)) \in Nat
            /\ Cardinality(Held(s, Keys)) = Cardinality(Held(s, gone)) + Cardinality(Held(s, Keys \ gone))
        <4>1. \A G \in SUBSET Keys:
                 /\ IsFiniteSet(Held(s, G)) /\ Cardinality(Held(s, G)) \in Nat
                 /\ IsFiniteSet(Held(s, Keys \ G)) /\ Cardinality(Held(s, Keys \ G)) \in Nat
                 /\ Cardinality(Held(s, Keys)) = Cardinality(Held(s, G)) + Cardinality(Held(s, Keys \ G))
          BY <3>2, HeldCount
        <4> QED BY <1>5, <4>1
      <3> QED BY <3>1, <3>3
    <2>2. Held(t, Keys \ gone) = Held(s, Keys \ gone)
      <3>1. \A o \in Keys \ gone: LinesOf(t, o) = LinesOf(s, o)
        BY <1>6 DEF LinesOf
      <3> QED BY <3>1, HeldSame
    <2>3. Held(t, gone) = {}
      <3>1. \A o \in gone: LinesOf(t, o) = <<>>
        BY <1>5, <1>6 DEF LinesOf
      <3>2. DOMAIN <<>> = {}
        OBVIOUS
      <3>3. \A o \in gone: {o} \X DOMAIN LinesOf(t, o) = {}
        BY <3>1, <3>2
      <3> QED BY <3>3 DEF Held
    <2> QED BY <1>1, <1>2, <2>1, <2>2, <2>3
  <1>9. ASSUME NEW o \in Keys, t.entries[o] # None, NEW i \in DOMAIN t.entries[o].lines
        PROVE  t.entries[o].lines[i] = t.entries[o].version
    BY <1>6, <1>9 DEF StoreInv
  <1>10. StoreInv(t)
    BY <1>2, <1>4, <1>6, <1>7, <1>8, <1>9 DEF StoreInv
  <1> QED BY <1>10 DEF t

--------------------------------------------------------------------------------
\* A request carries the text of the version it names.
Asked(q) == \A i \in DOMAIN q: q[i].text = q[i].version

\* So do the readings and the answers, and no answer goes beyond the last line.
Carried ==
    /\ job # None => job.text = job.version
    /\ \A i \in DOMAIN memos: memos[i].text = memos[i].version
    /\ \A i \in DOMAIN responses:
            responses[i].text = responses[i].version /\ End(responses[i]) <= Lines

Screen ==
    /\ visible \in [ToSet(shown) -> LineNumbers]
    /\ painted \in [ToSet(shown) -> Painting]
    /\ Len(memos) <= Memos

Rest == StoreInv(Store) /\ Asked(requests) /\ Carried /\ Screen

SInv == IInv /\ Rest

\* The store and the requests in the middle of a step of the UI thread.
UIKeeps(ui, v, c) == UIHolds(ui, v, c) /\ StoreInv(ui.store) /\ Asked(ui.requests)

\* SyntaxService::request keeps the store and asks for the text of the version.
LEMMA AskKeeps ==
  ASSUME NEW ui, NEW v \in Texts, NEW c, UIKeeps(ui, v, c), NEW k \in Keys, k \in ToSet(c),
         NEW last \in LineNumbers
  PROVE  UIKeeps(Ask(ui, k, v, v, last), v, c)
  <1> DEFINE s == EnsureCache(ui.store, k, v)
             have == Len(LinesOf(s, k))
             r == [key |-> k, version |-> v, text |-> v, have |-> have, last |-> last]
             stored == [ui EXCEPT !.store = s]
             after == Ask(ui, k, v, v, last)
  <1>1. UIHolds(after, v, c)
    BY AskHolds DEF UIKeeps
  <1>2. ui = [store |-> ui.store, outstanding |-> ui.outstanding, requests |-> ui.requests]
    BY DEF UIKeeps, UIHolds
  <1>3. StoreInv(s) /\ StoreInv(ui.store) /\ Asked(ui.requests) /\ ui.requests \in Seq(Request)
    BY EnsureCacheKeeps DEF UIKeeps, UIHolds, Holds, Types
  <1>4. stored = [store |-> s, outstanding |-> ui.outstanding, requests |-> ui.requests]
    <2> HIDE DEF s
    <2> QED BY <1>2
  <1>5. after = IF k \in ui.outstanding THEN ui
                ELSE IF have > last THEN stored ELSE Send(stored, r)
    BY DEF Ask
  <1>6. ASSUME k \notin ui.outstanding
        PROVE  Send(stored, r) = [store |-> s, outstanding |-> ui.outstanding \cup {k},
                                 requests |-> Append(ui.requests, r)]
    <2>1. r.key = k
      OBVIOUS
    <2> HIDE DEF s, have, stored, r
    <2>2. Send(stored, r) = [stored EXCEPT !.outstanding = @ \cup {k}, !.requests = Append(@, r)]
      BY <1>4, <1>6, <2>1 DEF Send
    <2> QED BY <1>4, <2>2
  <1>7. Asked(Append(ui.requests, r))
    <2> HIDE DEF have
    <2> QED BY <1>3 DEF Asked
  <1> HIDE DEF s, have, r, stored, after
  <1>8. StoreInv(after.store) /\ Asked(after.requests)
    <2>1. CASE k \in ui.outstanding
      BY <1>3, <1>5, <2>1
    <2>2. CASE k \notin ui.outstanding
      <3>1. after.store = s /\ after.requests \in {ui.requests, Append(ui.requests, r)}
        BY <1>4, <1>5, <1>6, <2>2
      <3> QED BY <1>3, <1>7, <3>1
    <2> QED BY <2>1, <2>2
  <1> QED BY <1>1, <1>8 DEF UIKeeps, after

\* One side of what is shown, if it has that side.
LEMMA AskSideKeeps ==
  ASSUME NEW ui, NEW v \in Texts, NEW c \in Contents \cup {<<>>}, UIKeeps(ui, v, c),
         NEW i \in {1, 2}, NEW lasts \in [ToSet(c) -> LineNumbers]
  PROVE  UIKeeps(AskSide(ui, c, i, v, v, lasts), v, c)
  <1>1. c \in Seq(Keys)
    <2>1. <<>> \in Seq(Keys)
      OBVIOUS
    <2> QED BY <2>1, SyntaxAssumption
  <1>2. CASE i > Len(c)
    BY <1>2 DEF AskSide
  <1>3. CASE ~(i > Len(c))
    <2>1. i \in DOMAIN c /\ c[i] \in Keys /\ c[i] \in ToSet(c)
      BY <1>1, <1>3 DEF ToSet
    <2>2. lasts[c[i]] \in LineNumbers
      BY <2>1
    <2> QED BY <1>3, <2>1, <2>2, AskKeeps DEF AskSide
  <1> QED BY <1>2, <1>3

\* The second effect of use_syntax, which asks for both sides.
LEMMA AskAllKeeps ==
  ASSUME NEW v \in Texts, NEW c \in Contents \cup {<<>>}, NEW lasts \in [ToSet(c) -> LineNumbers],
         Holds(entries, outstanding, requests, v, c), StoreInv(Store), Asked(requests),
         AskAll(c, v, v, lasts)
  PROVE  StoreInv(Store') /\ Asked(requests')
  <1>1. UIKeeps(UI, v, c)
    BY DEF UIKeeps, UIHolds, UI, Store
  <1> DEFINE one == AskSide(UI, c, 1, v, v, lasts)
             two == AskSide(one, c, 2, v, v, lasts)
  <1>2. UIKeeps(one, v, c)
    BY <1>1, AskSideKeeps
  <1>3. UIKeeps(two, v, c)
    <2> HIDE DEF one
    <2> QED BY <1>2, AskSideKeeps
  <1>4. /\ entries' = two.store.entries /\ order' = two.store.order
        /\ cachedLines' = two.store.cached /\ requests' = two.requests
    BY DEF AskAll, SetStore
  <1> HIDE DEF two
  <1>5. two.store = [entries |-> two.store.entries, order |-> two.store.order,
                     cached |-> two.store.cached]
    BY <1>3 DEF UIKeeps, StoreInv
  <1>6. Store' = two.store
    BY <1>4, <1>5 DEF Store
  <1> QED BY <1>3, <1>4, <1>6 DEF UIKeeps

\* New content is asked for with the number of its version.
LEMMA ShowContentRest ==
  ASSUME SInv, NEW content \in Contents, NEW lasts \in [ToSet(content) -> LineNumbers],
         ShowContent(content, lasts)
  PROVE  Rest'
  <1>1. version = text /\ text < MaxTexts /\ text \in Texts
    BY DEF SInv, IInv, ShowContent, Holds, Types
  <1>2. text + 1 \in Texts
    BY <1>1, SyntaxAssumption DEF Texts
  <1>3. Holds(entries, outstanding, requests, version + 1, content)
    BY <1>1, BumpHolds DEF SInv, IInv
  <1>4. AskAll(content, version + 1, version + 1, lasts)
    BY <1>1 DEF ShowContent
  <1>5. StoreInv(Store') /\ Asked(requests')
    BY <1>1, <1>2, <1>3, <1>4, AskAllKeeps DEF SInv, Rest
  <1>6. /\ shown' = content /\ visible' = lasts /\ painted' = [k \in ToSet(content) |-> <<>>]
        /\ UNCHANGED <<job, memos, responses>>
    BY DEF ShowContent, workerVars
  <1>7. Carried'
    BY <1>6 DEF SInv, Rest, Carried, End
  <1>8. Screen'
    <2>1. <<>> \in Painting
      <3>1. <<>> \in Seq(Texts) /\ Len(<<>>) <= Lines
        BY SyntaxAssumption
      <3> QED BY <3>1, PaintingIs
    <2> QED BY <1>6, <2>1 DEF SInv, Rest, Screen
  <1> QED BY <1>5, <1>7, <1>8 DEF Rest

\* Scrolling asks again for the version that is shown.
LEMMA ScrollRest ==
  ASSUME SInv, NEW lasts \in [ToSet(shown) -> LineNumbers], Scroll(lasts)
  PROVE  Rest'
  <1>1. version = text /\ text \in Texts /\ shown \in Contents \cup {<<>>}
    BY DEF SInv, IInv, Holds, Types
  <1>2. AskAll(shown, version, version, lasts)
    BY <1>1 DEF Scroll
  <1>3. StoreInv(Store') /\ Asked(requests')
    BY <1>1, <1>2, AskAllKeeps DEF SInv, IInv, Rest
  <1>4. visible' = lasts /\ UNCHANGED <<shown, painted, job, memos, responses>>
    BY DEF Scroll, workerVars
  <1>5. Carried'
    BY <1>4 DEF SInv, Rest, Carried, End
  <1>6. Screen'
    BY <1>4 DEF SInv, Rest, Screen
  <1> QED BY <1>3, <1>5, <1>6 DEF Rest

\* The answer delivered goes into the store, whatever is evicted for it, and
\* from there to the screen.
LEMMA DeliverRest == ASSUME SInv, Deliver PROVE Rest'
  <1> DEFINE r == responses[1]
  <1>1. /\ responses \in Seq(Response) /\ responses # <<>> /\ Head(responses) = r
        /\ 1 \in DOMAIN responses /\ r \in Response
        /\ shown \in Contents \cup {<<>>}
    <2>1. responses \in Seq(Response) /\ responses # <<>> /\ shown \in Contents \cup {<<>>}
      BY DEF SInv, IInv, Holds, Types, Deliver
    <2> QED BY <2>1
  <1>2. PICK n, s: /\ n = IF Accepts(Store, r) THEN Turns(Install(Store, r), r.key) ELSE 0
                   /\ s = Evict(Install(Store, r), r.key, n)
                   /\ SetStore(s)
                   /\ painted' = IF ~Accepts(Store, r) THEN painted
                                 ELSE [k \in ToSet(shown) |-> LinesOf(s, k)]
    BY <1>1 DEF Deliver
  <1>3. /\ responses' = Tail(responses)
        /\ UNCHANGED <<shown, text, visible, version, requests, job, memos>>
    BY DEF Deliver, workerVars
  <1>4. StoreInv(s)
    <2>1. r.text = r.version /\ End(r) <= Lines
      BY <1>1 DEF SInv, Rest, Carried
    <2>2. StoreInv(Install(Store, r))
      BY <1>1, <2>1, InstallKeeps DEF SInv, Rest
    <2> DEFINE new == Install(Store, r)
    <2> HIDE DEF new
    <2>3. new.order \in Seq(Keys) /\ IsInjective(new.order)
      BY <2>2 DEF StoreInv, new
    <2>4. MayTake(new.order, r.key, n)
      <3>1. MayTake(new.order, r.key, Turns(new, r.key))
        BY <2>3, TurnsBound
      <3>2. MayTake(new.order, r.key, 0)
        <4>1. RemoveFirst(new.order, r.key) \in Seq(Keys)
          BY <2>3, RemoveFirstMembers
        <4> QED BY <4>1 DEF MayTake
      <3> QED BY <1>2, <3>1, <3>2 DEF new
    <2> QED BY <1>2, <2>2, <2>4, EvictKeeps DEF new
  <1>5. Store' = s
    BY <1>2, <1>4 DEF SetStore, Store, StoreInv
  <1>6. Asked(requests')
    BY <1>3 DEF SInv, Rest
  <1>7. Carried'
    <2>1. \A i \in DOMAIN responses': \E j \in DOMAIN responses: responses'[i] = responses[j]
      BY <1>1, <1>3, TailMembers
    <2>2. \A i \in DOMAIN responses':
            responses'[i].text = responses'[i].version /\ End(responses'[i]) <= Lines
      BY <2>1 DEF SInv, Rest, Carried
    <2> QED BY <1>3, <2>2 DEF SInv, Rest, Carried, End
  <1>8. Screen'
    <2>1. \A k \in ToSet(shown): k \in Keys
      <3>1. shown \in Seq(Keys)
        <4>1. <<>> \in Seq(Keys)
          OBVIOUS
        <4> QED BY <1>1, <4>1, SyntaxAssumption
      <3> QED BY <3>1 DEF ToSet
    <2>2. \A k \in ToSet(shown): LinesOf(s, k) \in Painting
      BY <1>4, <2>1, LinesAre DEF StoreInv
    <2>3. painted' \in [ToSet(shown) -> Painting]
      BY <1>2, <2>2 DEF SInv, Rest, Screen
    <2> QED BY <1>3, <2>3 DEF SInv, Rest, Screen
  <1> QED BY <1>4, <1>5, <1>6, <1>7, <1>8 DEF Rest

\* A turn of the worker leaves the store and what is shown alone.
LEMMA WorkerRest ==
  ASSUME SInv, UNCHANGED <<screenVars, storeVars>>, Asked(requests'), Carried', Len(memos') <= Memos
  PROVE  Rest'
  <1>1. Store' = Store
    BY DEF Store, storeVars
  <1>2. Screen'
    BY DEF SInv, Rest, Screen, screenVars
  <1> QED BY <1>1, <1>2 DEF SInv, Rest

\* The worker reads the text the request carries or the memo has, which is of the
\* same version.
LEMMA ReceiveRest == ASSUME SInv, Receive PROVE Rest'
  <1> DEFINE r == requests[1]
             k == r.key
  <1>1. /\ requests \in Seq(Request) /\ responses \in Seq(Response) /\ memos \in Seq(Memo)
        /\ OneReading
    BY DEF SInv, IInv, Holds, Types
  <1>2. /\ requests # <<>> /\ Head(requests) = r /\ 1 \in DOMAIN requests /\ r \in Request
    BY <1>1 DEF Receive
  <1>3. r.text = r.version /\ r.have \in Nat /\ r.have <= Lines /\ Lines \in Nat
    BY <1>2, FieldTypes DEF SInv, Rest, Asked
  <1>4. /\ job = None /\ requests' = Tail(requests) /\ memos' = WithoutMemo(k)
        /\ UNCHANGED <<screenVars, storeVars>>
        /\ \/ /\ \E i \in MemoOf(k): Resumable(memos[i], r) /\ job' = Reading(r, memos[i])
              /\ UNCHANGED responses
           \/ /\ job' = FromTheTop(r)
              /\ UNCHANGED responses
           \/ /\ AnswerPlain(r)
              /\ UNCHANGED job
    BY <1>2 DEF Receive
  <1>5. Asked(requests')
    <2>1. \A i \in DOMAIN requests': \E j \in DOMAIN requests: requests'[i] = requests[j]
      BY <1>1, <1>2, <1>4, TailMembers
    <2> QED BY <2>1 DEF SInv, Rest, Asked
  <1>6. /\ \A i \in DOMAIN memos': \E x \in DOMAIN memos: memos'[i] = memos[x]
        /\ Len(memos') <= Len(memos)
    <2>1. \A i \in DOMAIN memos': \E x \in DOMAIN memos: memos'[i] = memos[x]
      BY <1>1, <1>4, WithoutMemoKeeps
    <2>2. Len(memos') <= Len(memos)
      <3>1. CASE MemoOf(k) = {}
        BY <1>1, <1>4, <3>1 DEF WithoutMemo
      <3>2. CASE MemoOf(k) # {}
        <4> DEFINE p == CHOOSE i \in MemoOf(k): TRUE
        <4>1. p \in 1..Len(memos) /\ memos' = RemoveAt(memos, p)
          BY <1>1, <1>4, <3>2 DEF WithoutMemo, MemoOf
        <4> HIDE DEF p
        <4>2. Len(memos') = Len(memos) - 1
          BY <1>1, <4>1, RemoveAtMembers
        <4> QED BY <1>1, <4>2
      <3> QED BY <3>1, <3>2
    <2> QED BY <2>1, <2>2
  <1>7. /\ \A i \in DOMAIN memos': memos'[i].text = memos'[i].version
        /\ Len(memos') <= Memos
    <2>1. Len(memos) \in Nat /\ Len(memos) <= Memos /\ Memos \in Nat /\ Len(memos') \in Nat
      <3>1. memos' \in Seq(Memo)
        BY <1>1, <1>4, WithoutMemoKeeps
      <3> QED BY <1>1, <3>1, SyntaxAssumption DEF SInv, Rest, Screen
    <2> QED BY <1>6, <2>1 DEF SInv, Rest, Carried
  <1>8. /\ job' # None => job'.text = job'.version
        /\ \A i \in DOMAIN responses':
                responses'[i].text = responses'[i].version /\ End(responses'[i]) <= Lines
    <2>1. ASSUME NEW i \in MemoOf(k), Resumable(memos[i], r), job' = Reading(r, memos[i])
          PROVE  job'.text = job'.version
      <3>1. memos[i].text = memos[i].version /\ memos[i].version = r.version
        BY <2>1 DEF MemoOf, Resumable, SInv, Rest, Carried
      <3> QED BY <2>1, <3>1 DEF Reading
    <2>2. ASSUME job' = FromTheTop(r) PROVE job'.text = job'.version
      BY <1>3, <2>2 DEF FromTheTop, Reading
    <2>3. CASE AnswerPlain(r) /\ UNCHANGED job
      <3> DEFINE a == [key |-> k, version |-> r.version, text |-> r.text, from |-> r.have,
                       count |-> Lines - r.have, more |-> FALSE]
      <3>1. responses' = Append(responses, a)
        BY <2>3 DEF AnswerPlain, Answer
      <3>2. a.text = a.version /\ End(a) <= Lines
        BY <1>3 DEF End
      <3> HIDE DEF a
      <3>3. \A i \in DOMAIN responses': responses'[i] = a \/ \E j \in DOMAIN responses: responses'[i] = responses[j]
        BY <1>1, <3>1
      <3> QED BY <1>4, <2>3, <3>2, <3>3 DEF SInv, Rest, Carried
    <2>4. UNCHANGED responses => \A i \in DOMAIN responses':
                responses'[i].text = responses'[i].version /\ End(responses'[i]) <= Lines
      BY DEF SInv, Rest, Carried
    <2> QED BY <1>4, <2>1, <2>2, <2>3, <2>4
  <1>9. Carried'
    BY <1>7, <1>8 DEF Carried, End
  <1> QED BY <1>4, <1>5, <1>7, <1>9, WorkerRest

\* A piece is of the text that is read.
LEMMA SendPieceRest == ASSUME SInv, SendPiece PROVE Rest'
  <1>1. job \in Job /\ job # None /\ ~Satisfied(job) /\ responses \in Seq(Response)
    BY DEF SInv, IInv, Holds, Types, SendPiece
  <1>2. /\ job.reached \in Nat /\ job.last \in Nat /\ Lines \in Nat /\ Chunk \in Nat
        /\ job.reached <= job.last /\ job.last < Lines /\ job.text = job.version
    <2>1. job.reached \in Nat /\ job.last \in LineNumbers /\ Lines \in Nat
      BY <1>1, FieldTypes
    <2>2. ~(job.reached > job.last) /\ job.text = job.version
      BY <1>1 DEF Satisfied, SInv, Rest, Carried
    <2> QED BY <1>1, <2>1, <2>2, SyntaxAssumption DEF LineNumbers
  <1>3. UNCHANGED <<screenVars, storeVars, requests, memos>>
    BY DEF SendPiece
  <1>4. PICK got \in Got(job):
            IF got = job.reached
            THEN /\ Answer(got, Lines - got, FALSE, job)
                 /\ job' = None
            ELSE /\ Answer(job.reached, got - job.reached, got <= job.last /\ got < Lines, job)
                 /\ job' = [job EXCEPT !.reached = got, !.answered = TRUE]
    BY DEF SendPiece
  <1>5. got \in Nat /\ job.reached <= got /\ got <= Lines
    <2> DEFINE m == Min({job.reached + Chunk, job.last})
    <2>1. m \in Nat /\ job.reached <= m /\ m <= job.last
      BY <1>2, MinOfTwo
    <2>2. got \in {m + 1, Lines, job.reached}
      BY <1>4 DEF Got
    <2> HIDE DEF m
    <2> QED BY <1>2, <2>1, <2>2
  <1>6. /\ job' # None => job'.text = job'.version
        /\ \E a: /\ responses' = Append(responses, a)
                 /\ a.text = a.version /\ a.from + a.count <= Lines
    <2>1. CASE got = job.reached
      <3> DEFINE a == [key |-> job.key, version |-> job.version, text |-> job.text,
                       from |-> got, count |-> Lines - got, more |-> FALSE]
      <3>1. responses' = Append(responses, a) /\ job' = None
        BY <1>4, <2>1 DEF Answer
      <3>2. a.text = a.version /\ a.from + a.count <= Lines
        BY <1>2, <1>5
      <3> QED BY <3>1, <3>2
    <2>2. CASE got # job.reached
      <3> DEFINE a == [key |-> job.key, version |-> job.version, text |-> job.text,
                       from |-> job.reached, count |-> got - job.reached,
                       more |-> got <= job.last /\ got < Lines]
      <3>1. /\ responses' = Append(responses, a)
            /\ job' = [job EXCEPT !.reached = got, !.answered = TRUE]
        BY <1>4, <2>2 DEF Answer
      <3>2. a.text = a.version /\ a.from + a.count <= Lines
        BY <1>2, <1>5
      <3>3. job'.text = job.text /\ job'.version = job.version
        BY <1>1, <3>1 DEF Job
      <3> QED BY <1>2, <3>1, <3>2, <3>3
    <2> QED BY <2>1, <2>2
  <1>7. Carried'
    <2>1. PICK a: /\ responses' = Append(responses, a)
                  /\ a.text = a.version /\ a.from + a.count <= Lines
      BY <1>6
    <2>2. \A i \in DOMAIN responses': responses'[i] = a \/ \E j \in DOMAIN responses: responses'[i] = responses[j]
      BY <1>1, <2>1
    <2>3. \A i \in DOMAIN responses':
            responses'[i].text = responses'[i].version /\ End(responses'[i]) <= Lines
      BY <2>1, <2>2 DEF SInv, Rest, Carried, End
    <2> QED BY <1>3, <1>6, <2>3 DEF SInv, Rest, Carried, End
  <1>8. Asked(requests') /\ Len(memos') <= Memos
    BY <1>3 DEF SInv, Rest, Screen
  <1> QED BY <1>3, <1>7, <1>8, WorkerRest

\* What is retained is the reading of the job, and there is room for it.
LEMMA FinishJobRest == ASSUME SInv, FinishJob PROVE Rest'
  <1> DEFINE own == [key |-> job.key, version |-> job.version, text |-> job.text,
                     reached |-> job.reached]
             kept == Append(memos, own)
  <1>1. /\ job # None /\ job \in Job /\ job.answered /\ memos \in Seq(Memo)
        /\ memos' = Remember(job) /\ job' = None
        /\ UNCHANGED <<screenVars, storeVars, requests, responses>>
    <2>1. job # None /\ Satisfied(job) /\ job \in Job /\ job.answered /\ memos \in Seq(Memo)
      BY DEF FinishJob, SInv, IInv, Holds, Types, Reads
    <2> QED BY <2>1 DEF FinishJob
  <1>2. own \in Memo /\ own.text = own.version
    <2>1. job.text = job.version
      BY <1>1 DEF SInv, Rest, Carried
    <2> QED BY <1>1, <2>1 DEF Job, Memo
  <1>3. Len(memos) \in Nat /\ Len(memos) <= Memos /\ Memos \in Nat \ {0, 1}
    BY <1>1, SyntaxAssumption DEF SInv, Rest, Screen
  <1>4. /\ Len(memos') <= Memos
        /\ \A i \in DOMAIN memos': memos'[i] = own \/ \E x \in DOMAIN memos: memos'[i] = memos[x]
    <2>1. CASE job.reached = Lines
      BY <1>1, <1>3, <2>1 DEF Remember
    <2>2. CASE job.reached # Lines
      <3>1. memos' = IF Len(kept) > Memos THEN Tail(kept) ELSE kept
        BY <1>1, <2>2 DEF Remember
      <3> HIDE DEF own
      <3>2. /\ kept \in Seq(Memo) /\ Len(kept) = Len(memos) + 1
            /\ \A i \in DOMAIN kept: kept[i] = own \/ \E x \in DOMAIN memos: kept[i] = memos[x]
        BY <1>1, <1>2
      <3> HIDE DEF kept
      <3>3. CASE Len(kept) > Memos
        <4>1. kept # <<>> /\ memos' = Tail(kept)
          BY <1>3, <3>1, <3>2, <3>3
        <4>2. \A i \in DOMAIN memos': \E j \in DOMAIN kept: memos'[i] = kept[j]
          BY <3>2, <4>1, TailMembers
        <4>3. Len(memos') = Len(kept) - 1
          BY <3>2, <4>1
        <4> QED BY <1>3, <3>2, <4>2, <4>3
      <3>4. CASE ~(Len(kept) > Memos)
        BY <1>3, <3>1, <3>2, <3>4
      <3> QED BY <3>3, <3>4
    <2> QED BY <2>1, <2>2
  <1> HIDE DEF own
  <1>5. Carried'
    <2>1. \A i \in DOMAIN memos': memos'[i].text = memos'[i].version
      BY <1>2, <1>4 DEF SInv, Rest, Carried
    <2> QED BY <1>1, <2>1 DEF SInv, Rest, Carried, End
  <1>6. Asked(requests')
    BY <1>1 DEF SInv, Rest
  <1> QED BY <1>1, <1>4, <1>5, <1>6, WorkerRest

\* The store is empty at the start, and nothing is shown.
LEMMA InitRest == Init => Rest
  <1> SUFFICES ASSUME Init PROVE Rest
    OBVIOUS
  <1>1. /\ Store = [entries |-> [k \in Keys |-> None], order |-> <<>>, cached |-> 0]
        /\ requests = <<>> /\ job = None /\ memos = <<>> /\ responses = <<>>
        /\ shown = <<>> /\ visible = [k \in {} |-> 0] /\ painted = [k \in {} |-> <<>>]
    BY DEF Init, Store
  <1>2. StoreInv(Store)
    <2> DEFINE s == Store
    <2>1. /\ s.entries = [k \in Keys |-> None] /\ s.order = <<>> /\ s.cached = 0
          /\ s = [entries |-> s.entries, order |-> s.order, cached |-> s.cached]
      BY <1>1
    <2> HIDE DEF s
    <2>2. /\ s.entries \in [Keys -> Colours \cup {None}] /\ \A k \in Keys: s.entries[k] = None
          /\ s.order \in Seq(Keys) /\ DOMAIN s.order = {}
      BY <2>1
    <2>3. IsInjective(s.order) /\ ToSet(s.order) = {k \in Keys: s.entries[k] # None}
      BY <2>2 DEF IsInjective, ToSet
    <2>4. Held(s, Keys) = {}
      <3>1. \A k \in Keys: LinesOf(s, k) = <<>>
        BY <2>2 DEF LinesOf
      <3>2. DOMAIN <<>> = {}
        OBVIOUS
      <3>3. \A k \in Keys: {k} \X DOMAIN LinesOf(s, k) = {}
        BY <3>1, <3>2
      <3> QED BY <3>3 DEF Held
    <2>5. IsFiniteSet(Held(s, Keys)) /\ s.cached = Cardinality(Held(s, Keys))
      BY <2>1, <2>4, FS_EmptySet
    <2>6. StoreInv(s)
      BY <2>1, <2>2, <2>3, <2>5 DEF StoreInv
    <2> QED BY <2>6 DEF s
  <1>3. Asked(requests) /\ Carried
    BY <1>1 DEF Asked, Carried
  <1>4. Screen
    <2>1. ToSet(shown) = {}
      BY <1>1 DEF ToSet
    <2>2. Len(memos) = 0 /\ Memos \in Nat
      BY <1>1, SyntaxAssumption
    <2> QED BY <1>1, <2>1, <2>2 DEF Screen
  <1> QED BY <1>2, <1>3, <1>4 DEF Rest

\* Every handler and every turn of the worker keeps SInv.
LEMMA NextRest == SInv /\ [Next]_vars => SInv'
  <1> SUFFICES ASSUME SInv, [Next]_vars PROVE Rest'
    BY NextIInv DEF SInv
  <1>1. ASSUME NEW content \in Contents, NEW lasts \in [ToSet(content) -> LineNumbers],
               ShowContent(content, lasts)
        PROVE  Rest'
    BY <1>1, ShowContentRest
  <1>2. ASSUME NEW lasts \in [ToSet(shown) -> LineNumbers], Scroll(lasts)
        PROVE  Rest'
    BY <1>2, ScrollRest
  <1>3. CASE Deliver
    BY <1>3, DeliverRest
  <1>4. CASE WorkerStep
    BY <1>4, ReceiveRest, SendPieceRest, FinishJobRest DEF WorkerStep
  <1>5. CASE UNCHANGED vars
    <2>1. UNCHANGED <<screenVars, storeVars, requests, job, memos, responses>>
      BY <1>5 DEF vars, workerVars
    <2>2. Carried' /\ Asked(requests') /\ Len(memos') <= Memos
      BY <2>1 DEF SInv, Rest, Carried, Screen, End
    <2> QED BY <2>1, <2>2, WorkerRest
  <1> QED BY <1>1, <1>2, <1>3, <1>4, <1>5 DEF Next

\* The store holds what it says it holds: the count of its lines is exact, so
\* that the subtractions of Store::ensure_cache and Store::evict never wrap,
\* the order has every entry once, and an entry's lines are coloured from the
\* text of its version.
THEOREM StoreStaysConsistent == Spec => []StoreConsistent
  <1>1. SInv => StoreConsistent
    <2> SUFFICES ASSUME SInv PROVE StoreConsistent
      OBVIOUS
    <2>1. /\ Types(entries, outstanding, requests, version, shown) /\ version = text /\ OneReading
          /\ StoreInv(Store) /\ Screen
      BY DEF SInv, IInv, Holds, Rest
    <2>2. Store.entries = entries /\ Store.order = order /\ Store.cached = cachedLines
      BY DEF Store
    <2>3. /\ entries \in [Keys -> Colours \cup {None}]
          /\ order \in Seq(Keys) /\ IsInjective(order)
          /\ ToSet(order) = {k \in Keys: entries[k] # None}
          /\ cachedLines = Cardinality(Held(Store, Keys)) /\ IsFiniteSet(Held(Store, Keys))
          /\ \A k \in Keys: entries[k] # None =>
                \A i \in DOMAIN entries[k].lines: entries[k].lines[i] = entries[k].version
      BY <2>1, <2>2 DEF StoreInv
    <2>4. cachedLines \in Nat
      BY <2>3, FS_CardinalityType
    <2>5. TypeOK
      BY <2>1, <2>3, <2>4 DEF TypeOK, Types, Screen, OneReading
    <2> QED BY <2>3, <2>5 DEF StoreConsistent
  <1>2. Init => SInv
    BY InitIInv, InitRest DEF SInv
  <1> QED BY <1>1, <1>2, NextRest, PTL DEF Spec

--------------------------------------------------------------------------------
(* The engines.  What the worker reads a file with is module Highlight.         *)

\* Induction over the natural numbers, for a set that is given: {n \in Nat : ...}.
LEMMA Induction ==
    ASSUME NEW S, 0 \in S, \A n \in Nat : n \in S => n + 1 \in S
    PROVE  Nat \subseteq S
  <1>1. SUFFICES ASSUME Nat \ S # {} PROVE FALSE
    OBVIOUS
  <1>2. PICK x \in Nat \ S : \A y \in Nat \ S : ~(y < x)
    <2> DEFINE T == Nat \ S
               R == {ss \in Nat \X Nat : ss[1] < ss[2]}
    <2>1. T \subseteq Nat /\ T # {}
      BY <1>1
    <2>2. R = OpToRel(<, Nat)
      BY DEF OpToRel
    <2>3. IsWellFoundedOn(R, Nat)
      BY <2>2, NatLessThanWellFounded
    <2>4. \A x, y \in Nat : <<y, x>> \in R <=> y < x
      OBVIOUS
    <2> HIDE DEF T, R
    <2>5. \E x \in T : \A y \in T : ~(<<y, x>> \in R)
      BY <2>1, <2>3, WFMin
    <2>6. \E x \in T : \A y \in T : ~(y < x)
      BY <2>1, <2>4, <2>5
    <2> QED BY <2>6 DEF T
  <1>3. x # 0 /\ x - 1 \in Nat
    BY <1>2
  <1>4. x - 1 \in S
    BY <1>2, <1>3
  <1> QED BY <1>2, <1>3, <1>4

\* Where TextMate is before a line, and the spans it gives to a line from there.
At(parse, highlight, out) == [parse |-> parse, highlight |-> highlight, out |-> out]
Behind(g, parse, highlight, line) == ReadLine(g, At(parse, highlight, <<>>), line)

SpansOn(g, parse, highlight, line) ==
    LET parsed == ParseLine(g, parse, line) IN
    IF parsed.failed \/ ~WorthColouring(line) THEN <<>>
    ELSE SpansOf(Regions(Theme, highlight, parsed.ops, Len(line)), Len(line))

\* A line adds its spans to those before, and they depend on the scopes only.
LEMMA LineReads ==
    ASSUME NEW g, NEW parse, NEW highlight, NEW out, NEW line
    PROVE  ReadLine(g, At(parse, highlight, out), line)
              = At(Behind(g, parse, highlight, line).parse,
                   Behind(g, parse, highlight, line).highlight,
                   Append(out, SpansOn(g, parse, highlight, line)))
  <1> DEFINE parsed == ParseLine(g, parse, line)
  <1>1. CASE parsed.failed \/ ~WorthColouring(line)
    <2>1. \A o : ReadParsed(At(parse, highlight, o), line, parsed)
                   = At(parsed.stack, highlight, Append(o, <<>>))
      BY <1>1 DEF ReadParsed, At
    <2>2. \A o : ReadLine(g, At(parse, highlight, o), line)
                   = ReadParsed(At(parse, highlight, o), line, parsed)
      BY DEF ReadLine, At
    <2>3. SpansOn(g, parse, highlight, line) = <<>>
      BY <1>1 DEF SpansOn
    <2> HIDE DEF parsed
    <2>4. /\ Behind(g, parse, highlight, line).parse = parsed.stack
          /\ Behind(g, parse, highlight, line).highlight = highlight
      <3>1. Behind(g, parse, highlight, line) = At(parsed.stack, highlight, Append(<<>>, <<>>))
        BY <2>1, <2>2 DEF Behind
      <3> QED BY <3>1 DEF At
    <2> QED BY <2>1, <2>2, <2>3, <2>4
  <1>2. CASE ~(parsed.failed \/ ~WorthColouring(line))
    <2>1. \A o : ReadParsed(At(parse, highlight, o), line, parsed)
                   = At(parsed.stack, AllApplied(highlight, parsed.ops),
                        Append(o, SpansOf(Regions(Theme, highlight, parsed.ops,
                                                                Len(line)),
                                                 Len(line))))
      BY <1>2 DEF ReadParsed, At
    <2>2. \A o : ReadLine(g, At(parse, highlight, o), line)
                   = ReadParsed(At(parse, highlight, o), line, parsed)
      BY DEF ReadLine, At
    <2>3. SpansOn(g, parse, highlight, line)
             = SpansOf(Regions(Theme, highlight, parsed.ops, Len(line)), Len(line))
      BY <1>2 DEF SpansOn
    <2> HIDE DEF parsed
    <2>4. /\ Behind(g, parse, highlight, line).parse = parsed.stack
          /\ Behind(g, parse, highlight, line).highlight = AllApplied(highlight, parsed.ops)
      <3>1. Behind(g, parse, highlight, line) =
               At(parsed.stack, AllApplied(highlight, parsed.ops),
                  Append(<<>>, SpansOf(Regions(Theme, highlight, parsed.ops,
                                                             Len(line)), Len(line))))
        BY <2>1, <2>2 DEF Behind
      <3> QED BY <3>1 DEF At
    <2> QED BY <2>1, <2>2, <2>3, <2>4
  <1> QED BY <1>1, <1>2

\* What ReadTextMate counts up, as a function.
ReadsUp(f, g, start, lines, m) ==
    f = [n \in 0..m |-> IF n = 0 THEN start ELSE ReadLine(g, f[n - 1], lines[n])]

\* There is such a function.
LEMMA ReadsUpExists ==
    ASSUME NEW g, NEW start, NEW lines, NEW m \in Nat
    PROVE  \E f : ReadsUp(f, g, start, lines, m)
  <1> DEFINE S == {k \in Nat : \E f : ReadsUp(f, g, start, lines, k)}
  <1>1. 0 \in S
    <2>1. ReadsUp([n \in 0..0 |-> start], g, start, lines, 0)
      BY DEF ReadsUp
    <2> QED BY <2>1
  <1>2. ASSUME NEW k \in Nat, k \in S PROVE k + 1 \in S
    <2>1. PICK f : ReadsUp(f, g, start, lines, k)
      BY <1>2
    <2> DEFINE h == [n \in 0..(k + 1) |-> IF n \in 0..k THEN f[n]
                                          ELSE ReadLine(g, f[n - 1], lines[n])]
    <2>2. \A n \in 0..k : f[n] = IF n = 0 THEN start ELSE ReadLine(g, f[n - 1], lines[n])
      BY <2>1 DEF ReadsUp
    <2>3. ReadsUp(h, g, start, lines, k + 1)
      BY <2>2 DEF ReadsUp
    <2> QED BY <2>3
  <1>3. Nat \subseteq S
    <2> HIDE DEF S
    <2> QED BY <1>1, <1>2, Induction
  <1> QED BY <1>3

\* ReadTextMate is the end of it.
LEMMA ReadTextMateReadsUp ==
    ASSUME NEW state, NEW lines, Len(lines) \in Nat
    PROVE  \E f : /\ ReadsUp(f, Syntaxes[state.at], At(state.parse, state.highlight, <<>>),
                             lines, Len(lines))
                  /\ ReadTextMate(state, lines) = f[Len(lines)]
  <1> DEFINE f == CHOOSE f : ReadsUp(f, Syntaxes[state.at], At(state.parse, state.highlight, <<>>),
                                     lines, Len(lines))
  <1>1. ReadsUp(f, Syntaxes[state.at], At(state.parse, state.highlight, <<>>), lines, Len(lines))
    BY ReadsUpExists
  <1>2. ReadTextMate(state, lines) = f[Len(lines)]
    BY DEF ReadTextMate, ReadsUp, At
  <1> QED BY <1>1, <1>2

\* A file read at once by g: where it is behind each line (at), and the spans.
ReadsFile(at, given, g, lines) ==
    /\ at[0] = At(<<>>, <<>>, <<>>)
    /\ \A n \in 1..Len(lines) :
          at[n] = At(Behind(g, at[n - 1].parse, at[n - 1].highlight, lines[n]).parse,
                     Behind(g, at[n - 1].parse, at[n - 1].highlight, lines[n]).highlight, <<>>)
    /\ given \in Seq(Range(given)) /\ Len(given) = Len(lines)
    /\ \A n \in 1..Len(lines) :
          given[n] = SpansOn(g, at[n - 1].parse, at[n - 1].highlight, lines[n])

\* Every file can be read so.
LEMMA FileReads ==
    ASSUME NEW g, NEW lines, Len(lines) \in Nat
    PROVE  \E at, given : ReadsFile(at, given, g, lines)
  <1> DEFINE start == At(<<>>, <<>>, <<>>)
  <1>1. PICK f : ReadsUp(f, g, start, lines, Len(lines))
    BY ReadsUpExists
  <1> DEFINE at == [n \in 0..Len(lines) |-> At(f[n].parse, f[n].highlight, <<>>)]
             given == [n \in 1..Len(lines) |-> SpansOn(g, at[n - 1].parse, at[n - 1].highlight, lines[n])]
  <1>2. f[0] = start /\ \A n \in 1..Len(lines) : f[n] = ReadLine(g, f[n - 1], lines[n])
    BY <1>1 DEF ReadsUp
  <1>3. \A n \in 0..Len(lines) : f[n] = At(f[n].parse, f[n].highlight, f[n].out)
    <2> SUFFICES ASSUME NEW n \in 0..Len(lines)
                 PROVE  f[n] = At(f[n].parse, f[n].highlight, f[n].out)
      OBVIOUS
    <2> DEFINE S == {k \in Nat : k <= Len(lines) => f[k] = At(f[k].parse, f[k].highlight, f[k].out)}
    <2>1. 0 \in S
      BY <1>2 DEF At
    <2>2. ASSUME NEW k \in Nat, k \in S PROVE k + 1 \in S
      <3>1. SUFFICES ASSUME k + 1 <= Len(lines)
                     PROVE  f[k + 1] = At(f[k + 1].parse, f[k + 1].highlight, f[k + 1].out)
        OBVIOUS
      <3>2. f[k] = At(f[k].parse, f[k].highlight, f[k].out)
        BY <2>2, <3>1
      <3>3. f[k + 1] = ReadLine(g, f[k], lines[k + 1])
        BY <1>2, <3>1
      <3>4. \E p, h, o : f[k + 1] = At(p, h, o)
        BY <3>2, <3>3, LineReads
      <3> QED BY <3>4 DEF At
    <2>3. Nat \subseteq S
      <3> HIDE DEF S
      <3> QED BY <2>1, <2>2, Induction
    <2> QED BY <2>3
  <1>4. at[0] = start
    BY <1>2 DEF At
  <1>5. ASSUME NEW n \in 1..Len(lines)
        PROVE  at[n] = At(Behind(g, at[n - 1].parse, at[n - 1].highlight, lines[n]).parse,
                          Behind(g, at[n - 1].parse, at[n - 1].highlight, lines[n]).highlight, <<>>)
    <2>1. n - 1 \in 0..Len(lines) /\ n \in 0..Len(lines)
      OBVIOUS
    <2>2. f[n] = At(Behind(g, f[n - 1].parse, f[n - 1].highlight, lines[n]).parse,
                    Behind(g, f[n - 1].parse, f[n - 1].highlight, lines[n]).highlight,
                    Append(f[n - 1].out, SpansOn(g, f[n - 1].parse, f[n - 1].highlight, lines[n])))
      BY <1>2, <1>3, <2>1, LineReads
    <2>3. /\ at[n] = At(f[n].parse, f[n].highlight, <<>>)
          /\ at[n - 1].parse = f[n - 1].parse /\ at[n - 1].highlight = f[n - 1].highlight
      BY <2>1 DEF At
    <2>4. /\ f[n].parse = Behind(g, f[n - 1].parse, f[n - 1].highlight, lines[n]).parse
          /\ f[n].highlight = Behind(g, f[n - 1].parse, f[n - 1].highlight, lines[n]).highlight
      BY <2>2 DEF At
    <2> QED BY <2>3, <2>4
  <1>6. given \in Seq(Range(given)) /\ Len(given) = Len(lines)
    <2> DEFINE Y == Range(given)
    <2>1. \A n \in 1..Len(lines) : given[n] \in Y
      BY DEF Range
    <2>2. DOMAIN given = 1..Len(lines) /\ given = [n \in 1..Len(lines) |-> given[n]]
      OBVIOUS
    <2> HIDE DEF given, Y
    <2>3. given \in [1..Len(lines) -> Y]
      BY <2>1, <2>2
    <2>4. given \in Seq(Y) /\ Len(given) = Len(lines)
      BY <2>3
    <2> QED BY <2>4 DEF Y
  <1> HIDE DEF at
  <1>7. \A n \in 1..Len(lines) :
           given[n] = SpansOn(g, at[n - 1].parse, at[n - 1].highlight, lines[n])
    OBVIOUS
  <1> HIDE DEF given
  <1> QED BY <1>4, <1>5, <1>6, <1>7 DEF ReadsFile

\* A piece read from where the file is behind line c gives the lines from there
\* on their spans, and is then where the file is.
LEMMA PieceReads ==
    ASSUME NEW lines, NEW X, lines \in Seq(X), NEW g, NEW at, NEW given,
           ReadsFile(at, given, g, lines), NEW state, g = Syntaxes[state.at],
           NEW c \in Nat, NEW t \in Nat, c <= t, t <= Len(lines),
           state.parse = at[c].parse, state.highlight = at[c].highlight
    PROVE  ReadTextMate(state, SubSeq(lines, c + 1, t))
              = At(at[t].parse, at[t].highlight, SubSeq(given, c + 1, t))
  <1> DEFINE piece == SubSeq(lines, c + 1, t)
             Y == Range(given)
  <1>1. Len(lines) \in Nat /\ Len(piece) = t - c /\ \A i \in 1..(t - c) : piece[i] = lines[c + i]
    OBVIOUS
  <1>2. PICK f : /\ ReadsUp(f, g, At(state.parse, state.highlight, <<>>), piece, t - c)
                 /\ ReadTextMate(state, piece) = f[t - c]
    <2> HIDE DEF piece
    <2>1. Len(piece) \in Nat /\ Len(piece) = t - c
      BY <1>1
    <2> QED BY <2>1, ReadTextMateReadsUp
  <1> HIDE DEF piece
  <1>3. /\ f[0] = At(at[c].parse, at[c].highlight, <<>>)
        /\ \A i \in 1..(t - c) : f[i] = ReadLine(g, f[i - 1], lines[c + i])
    BY <1>1, <1>2 DEF ReadsUp
  <1>4. given \in Seq(Y) /\ Len(given) = Len(lines)
    BY DEF ReadsFile
  <1> HIDE DEF Y
  <1> DEFINE S == {i \in Nat : i <= t - c =>
                      f[i] = At(at[c + i].parse, at[c + i].highlight, SubSeq(given, c + 1, c + i))}
  <1>5. 0 \in S
    <2>1. SubSeq(given, c + 1, c + 0) = <<>>
      BY <1>4
    <2>2. c + 0 = c
      OBVIOUS
    <2>3. f[0] = At(at[c + 0].parse, at[c + 0].highlight, SubSeq(given, c + 1, c + 0))
      BY <1>3, <2>1, <2>2
    <2> QED BY <2>3
  <1>6. ASSUME NEW i \in Nat, i \in S PROVE i + 1 \in S
    <2>1. SUFFICES ASSUME i + 1 <= t - c
                   PROVE  f[i + 1] = At(at[c + (i + 1)].parse, at[c + (i + 1)].highlight,
                                        SubSeq(given, c + 1, c + (i + 1)))
      OBVIOUS
    <2> DEFINE n == c + (i + 1)
    <2>2. n \in 1..Len(lines) /\ n - 1 = c + i /\ c + i \in Nat
      BY <2>1, <1>1
    <2>3. f[i] = At(at[c + i].parse, at[c + i].highlight, SubSeq(given, c + 1, c + i))
      BY <1>6, <2>1
    <2>4. f[i + 1] = ReadLine(g, f[i], lines[n])
      BY <1>3, <2>1
    <2>5. f[i + 1] = At(Behind(g, at[c + i].parse, at[c + i].highlight, lines[n]).parse,
                        Behind(g, at[c + i].parse, at[c + i].highlight, lines[n]).highlight,
                        Append(SubSeq(given, c + 1, c + i),
                               SpansOn(g, at[c + i].parse, at[c + i].highlight, lines[n])))
      BY <2>3, <2>4, LineReads
    <2>6. /\ at[n] = At(Behind(g, at[c + i].parse, at[c + i].highlight, lines[n]).parse,
                        Behind(g, at[c + i].parse, at[c + i].highlight, lines[n]).highlight, <<>>)
          /\ given[n] = SpansOn(g, at[c + i].parse, at[c + i].highlight, lines[n])
      BY <2>2 DEF ReadsFile
    <2>7. Append(SubSeq(given, c + 1, c + i), given[n]) = SubSeq(given, c + 1, n)
      BY <1>4, <2>2
    <2>8. /\ at[n].parse = Behind(g, at[c + i].parse, at[c + i].highlight, lines[n]).parse
          /\ at[n].highlight = Behind(g, at[c + i].parse, at[c + i].highlight, lines[n]).highlight
      BY <2>6 DEF At
    <2> QED BY <2>5, <2>6, <2>7, <2>8
  <1>7. Nat \subseteq S
    <2> HIDE DEF S
    <2> QED BY <1>5, <1>6, Induction
  <1>8. t - c \in S /\ c + (t - c) = t /\ t - c <= t - c
    BY <1>7
  <1>9. f[t - c] = At(at[t].parse, at[t].highlight, SubSeq(given, c + 1, t))
    BY <1>8
  <1> QED BY <1>2, <1>9 DEF piece

\* What a grammar is that has been found.
LEMMA GrammarsFound ==
    ASSUME NEW f
    PROVE  Find(f).kind \in {"tree", "textMate", Uncoloured}
  BY DEF Find, Preferred


\* How TextMate would read the file at once: where it is behind each line, and the
\* spans it gives.
Way == CHOOSE w : ReadsFile(w.at, w.given, Syntaxes[grammar.at], file.lines)
Behinds == Way.at

\* A reading that has just begun, and all that can be read of the file.
Begun == NewReading(grammar, file.lines)
AtOnce == ReadTo(Begun, file.lines, Len(file.lines)).out

\* The engine behind the first k lines.
StateBehind(k) ==
    IF grammar.kind = "tree" THEN StartEngine(grammar)
    ELSE [kind |-> "textMate", at |-> grammar.at,
          parse |-> Behinds[k].parse, highlight |-> Behinds[k].highlight]

(* The invariant: how far the reading has come, that the engine is where it would *)
(* be behind these lines if the file were read at once, and that the spans are    *)
(* those that it would have given them.                                           *)
IsFileOf == file \in Files /\ grammar = Find(file)
IsCounted ==
    /\ asked \in Nat /\ reading.coloured \in 0..Len(file.lines)
    /\ reading = [coloured |-> reading.coloured, state |-> reading.state]
EndsAsAsked ==
    \/ reading.coloured = Least(asked, Len(file.lines))
    \/ asked > 0 /\ reading.coloured = Len(file.lines)
    \/ reading.coloured = 0 /\ Begun.state = Finished
TreeAtOnce == grammar.kind = "tree" => reading.coloured \in {0, Len(file.lines)}
StateFollows ==
    reading.state = IF \/ Begun.state = Finished
                       \/ Len(file.lines) > 0 /\ reading.coloured = Len(file.lines)
                    THEN Finished ELSE StateBehind(reading.coloured)
NothingUnread == Begun.state = Finished => reading.coloured = 0
SpansFollow == spans = SubSeq(AtOnce, 1, reading.coloured)

EngineInv ==
    /\ IsFileOf
    /\ IsCounted
    /\ EndsAsAsked
    /\ TreeAtOnce
    /\ StateFollows
    /\ NothingUnread
    /\ SpansFollow

\* The way is one, and the file is lines.
LEMMA WayReads ==
    ASSUME HaveLines, IsFileOf
    PROVE  /\ ReadsFile(Way.at, Way.given, Syntaxes[grammar.at], file.lines)
           /\ Len(file.lines) \in Nat /\ file.lines \in Seq(Seq(STRING))
  <1>1. file.lines \in Seq(Seq(STRING)) /\ Len(file.lines) \in Nat
    BY DEF HaveLines, IsFileOf
  <1>2. PICK at, given : ReadsFile(at, given, Syntaxes[grammar.at], file.lines)
    BY <1>1, FileReads
  <1> DEFINE w == [at |-> at, given |-> given]
  <1>3. ReadsFile(w.at, w.given, Syntaxes[grammar.at], file.lines)
    BY <1>2
  <1> HIDE DEF w
  <1> QED BY <1>1, <1>3 DEF Way

\* Any piece of the file, read by TextMate from where it is then.
LEMMA WayOfPiece ==
    ASSUME HaveLines, IsFileOf, NEW state, state.at = grammar.at,
           NEW c \in Nat, NEW t \in Nat, c <= t, t <= Len(file.lines),
           state.parse = Way.at[c].parse, state.highlight = Way.at[c].highlight
    PROVE  ReadTextMate(state, SubSeq(file.lines, c + 1, t))
              = At(Way.at[t].parse, Way.at[t].highlight, SubSeq(Way.given, c + 1, t))
  <1> DEFINE at == Way.at
             given == Way.given
             lines == file.lines
             X == Seq(STRING)
             g == Syntaxes[grammar.at]
  <1>1. ReadsFile(at, given, g, lines) /\ lines \in Seq(X) /\ t <= Len(lines) /\ g = Syntaxes[state.at]
    BY WayReads
  <1>2. state.parse = at[c].parse /\ state.highlight = at[c].highlight
    OBVIOUS
  <1> HIDE DEF at, given, lines, X, g
  <1>3. ReadTextMate(state, SubSeq(lines, c + 1, t))
           = At(at[t].parse, at[t].highlight, SubSeq(given, c + 1, t))
    BY <1>1, <1>2, PieceReads
  <1> QED BY <1>3 DEF at, given, lines

\* What is left of a sequence where it is cut.
LEMMA CutSeq ==
    ASSUME NEW X, NEW s \in Seq(X), NEW c \in Nat, NEW k \in Nat, c <= k, k <= Len(s)
    PROVE  /\ SubSeq(s, 1, c) \o SubSeq(s, c + 1, k) = SubSeq(s, 1, k)
           /\ SubSeq(s, 1, c) \o <<>> = SubSeq(s, 1, c)
           /\ Len(SubSeq(s, c + 1, k)) = k - c
  OBVIOUS

\* The engine that a file begins with.
LEMMA BegunIs ==
    ASSUME HaveLines, IsFileOf
    PROVE  /\ Begun = [coloured |-> 0, state |-> Begun.state]
           /\ Begun.state = Finished \/ Begun.state = StateBehind(0)
           /\ Begun.state # Finished => grammar.kind \in {"tree", "textMate"}
           /\ \A k : StateBehind(k) # Finished
  <1>1. grammar.kind \in {"tree", "textMate", Uncoloured}
    BY GrammarsFound DEF IsFileOf
  <1>2. Way.at[0] = At(<<>>, <<>>, <<>>)
    BY WayReads DEF ReadsFile
  <1>3. Begun = [coloured |-> 0, state |-> Begun.state]
    BY DEF Begun, NewReading
  <1>4. Begun.state = Finished \/ (Begun.state = StartEngine(grammar) /\ grammar.kind # Uncoloured)
    BY DEF Begun, NewReading
  <1>5. ASSUME grammar.kind # Uncoloured PROVE StartEngine(grammar) = StateBehind(0)
    BY <1>1, <1>2, <1>5 DEF StartEngine, StateBehind, Behinds, At
  <1>6. \A k : StateBehind(k) # Finished
    BY DEF StateBehind, StartEngine, Finished, Uncoloured
  <1> QED BY <1>1, <1>3, <1>4, <1>5, <1>6

\* Tree-sitter colours every line at once.
LEMMA TreeColoursAll ==
    ASSUME NEW p, NEW lines, Len(lines) \in Nat, DOMAIN lines = 1..Len(lines)
    PROVE  \E X : ColourTree(p, lines) \in Seq(X) /\ Len(ColourTree(p, lines)) = Len(lines)
  <1> DEFINE c == ColourTree(p, lines)
             X == {c[n] : n \in 1..Len(lines)}
  <1>1. c = [n \in 1..Len(lines) |-> c[n]]
    <2>1. CASE p.compiles
      <3>1. c = Merged(AllPainted(Config(p), Starts(lines), lines), lines)
        BY <2>1 DEF ColourTree, Paint
      <3> DEFINE s == AllPainted(Config(p), Starts(lines), lines)
      <3>2. c = [n \in 1..Len(lines) |-> IF s.failed THEN s.out[n] ELSE Coalesce(s.out[n])]
        BY <3>1 DEF Merged
      <3> HIDE DEF c, s
      <3> QED BY <3>2
    <2>2. CASE ~p.compiles
      <3>1. c = [n \in 1..Len(lines) |-> <<>>]
        BY <2>2 DEF ColourTree
      <3> HIDE DEF c
      <3> QED BY <3>1
    <2> QED BY <2>1, <2>2
  <1>2. \A n \in 1..Len(lines) : c[n] \in X
    OBVIOUS
  <1> HIDE DEF c, X
  <1>3. c \in [1..Len(lines) -> X]
    BY <1>1, <1>2
  <1>4. c \in Seq(X) /\ Len(c) = Len(lines)
    BY <1>3
  <1> QED BY <1>4 DEF c

\* What can be read of a file, by its grammar.
LEMMA AtOnceIs ==
    ASSUME HaveLines, IsFileOf, NEW n, n = Len(file.lines)
    PROVE  /\ Begun.state = Finished \/ n = 0 => AtOnce = <<>>
           /\ ~(Begun.state = Finished \/ n = 0) => Len(AtOnce) = n
           /\ ~(Begun.state = Finished \/ n = 0) /\ grammar.kind = "tree" =>
                 AtOnce = ColourTree(Languages[grammar.at], file.lines)
           /\ ~(Begun.state = Finished \/ n = 0) /\ grammar.kind = "textMate" =>
                 AtOnce = Way.given
           /\ \E X : AtOnce \in Seq(X)
  <1> DEFINE L == file.lines
  <1>0. n \in Nat /\ L \in Seq(Seq(STRING)) /\ DOMAIN L = 1..n
    BY WayReads
  <1>1. CASE Begun.state = Finished \/ n = 0
    <2>1. ReadTo(Begun, L, n) = [reading |-> Begun, out |-> <<>>]
      BY <1>0, <1>1, BegunIs DEF ReadTo
    <2>2. AtOnce = <<>>
      BY <2>1 DEF AtOnce
    <2>3. <<>> \in Seq({})
      OBVIOUS
    <2> QED BY <1>1, <2>2, <2>3
  <1>2. CASE ~(Begun.state = Finished \/ n = 0)
    <2>1. ReadTo(Begun, L, n) = After(0, n, Colour(StateBehind(0), L, 0, n))
      BY <1>0, <1>2, BegunIs DEF ReadTo
    <2>2. AtOnce = Colour(StateBehind(0), L, 0, n).out
      BY <2>1 DEF AtOnce, After
    <2>3. CASE grammar.kind = "tree"
      <3>1. StateBehind(0).kind = "tree" /\ StateBehind(0).at = grammar.at
        BY <2>3 DEF StateBehind, StartEngine
      <3>2. AtOnce = ColourTree(Languages[grammar.at], L)
        BY <2>2, <3>1 DEF Colour
      <3>3. \E X : AtOnce \in Seq(X) /\ Len(AtOnce) = n
        BY <3>2, <1>0, TreeColoursAll
      <3> QED BY <1>2, <2>3, <3>2, <3>3
    <2>4. CASE grammar.kind = "textMate"
      <3>1. /\ StateBehind(0).kind = "textMate" /\ StateBehind(0).at = grammar.at
            /\ StateBehind(0).parse = Way.at[0].parse /\ StateBehind(0).highlight = Way.at[0].highlight
        BY <2>4 DEF StateBehind, Behinds
      <3>2. ReadTextMate(StateBehind(0), SubSeq(L, 0 + 1, n))
               = At(Way.at[n].parse, Way.at[n].highlight, SubSeq(Way.given, 0 + 1, n))
        BY <3>1, <1>0, WayOfPiece
      <3>3. AtOnce = SubSeq(Way.given, 0 + 1, n)
        BY <2>2, <3>1, <3>2 DEF Colour, AfterTextMate, At
      <3>4. Way.given \in Seq(Range(Way.given)) /\ Len(Way.given) = n
        BY WayReads DEF ReadsFile
      <3>5. AtOnce = Way.given
        BY <3>3, <3>4, <1>0
      <3> QED BY <1>2, <2>4, <3>4, <3>5
    <2> QED BY <1>2, <2>3, <2>4, BegunIs
  <1> QED BY <1>1, <1>2

\* A reading that goes on: how far it comes, the engine it has then, and the spans.
LEMMA PieceIs ==
    ASSUME HaveLines, IsFileOf, IsCounted, TreeAtOnce, StateFollows,
           NEW t \in 0..Len(file.lines), reading.coloured < t, reading.state # Finished
    PROVE  \E k \in {t, Len(file.lines)} :
              /\ reading.coloured < k
              /\ grammar.kind = "tree" => k = Len(file.lines)
              /\ ReadTo(reading, file.lines, t)
                    = [reading |-> [coloured |-> k,
                                    state |-> IF k >= Len(file.lines) THEN Finished
                                              ELSE StateBehind(k)],
                       out |-> SubSeq(AtOnce, reading.coloured + 1, k)]
  <1> DEFINE L == file.lines
             n == Len(file.lines)
             c == reading.coloured
  <1>0. n \in Nat /\ L \in Seq(Seq(STRING)) /\ DOMAIN L = 1..n /\ c \in Nat /\ t \in Nat /\ t <= n /\ c < n /\ c < t
    BY WayReads DEF IsCounted
  <1>1. /\ Begun.state # Finished /\ n # 0
        /\ reading.state = StateBehind(c)
        /\ grammar.kind \in {"tree", "textMate"}
    BY <1>0, BegunIs DEF StateFollows
  <1>2. ReadTo(reading, L, t) = After(c, n, Colour(StateBehind(c), L, c, t))
    BY <1>0, <1>1 DEF ReadTo
  <1>3. CASE grammar.kind = "tree"
    <2>1. c = 0
      BY <1>0, <1>3 DEF TreeAtOnce
    <2>2. StateBehind(c).kind = "tree" /\ StateBehind(c).at = grammar.at
      BY <1>3 DEF StateBehind, StartEngine
    <2>3. Colour(StateBehind(c), L, c, t) = [state |-> StateBehind(c), out |-> AtOnce]
      BY <2>2, <1>1, <1>3, AtOnceIs DEF Colour
    <2>4. Len(AtOnce) = n /\ \E X : AtOnce \in Seq(X)
      BY <1>1, AtOnceIs
    <2>5. SubSeq(AtOnce, 0 + 1, n) = AtOnce
      BY <1>0, <2>4
    <2>6. After(0, n, [state |-> StateBehind(c), out |-> AtOnce])
             = [reading |-> [coloured |-> n, state |-> Finished], out |-> AtOnce]
      BY <2>4, <1>0 DEF After
    <2> QED BY <1>0, <1>2, <2>1, <2>3, <2>5, <2>6
  <1>4. CASE grammar.kind = "textMate"
    <2>1. StateBehind(c) = [kind |-> "textMate", at |-> grammar.at,
                            parse |-> Way.at[c].parse, highlight |-> Way.at[c].highlight]
      BY <1>4 DEF StateBehind, Behinds
    <2>2. ReadTextMate(StateBehind(c), SubSeq(L, c + 1, t))
             = At(Way.at[t].parse, Way.at[t].highlight, SubSeq(Way.given, c + 1, t))
      <3>1. /\ StateBehind(c).at = grammar.at /\ StateBehind(c).parse = Way.at[c].parse
            /\ StateBehind(c).highlight = Way.at[c].highlight
        BY <2>1
      <3> HIDE DEF c
      <3> QED BY <3>1, <1>0, WayOfPiece
    <2>3. Way.given = AtOnce /\ Len(AtOnce) = n
      BY <1>1, <1>4, AtOnceIs
    <2>4. Len(SubSeq(AtOnce, c + 1, t)) = t - c
      <3>1. PICK X : AtOnce \in Seq(X)
        BY AtOnceIs
      <3> HIDE DEF c, n
      <3> QED BY <3>1, <2>3, <1>0, CutSeq, SMTT(20)
    <2>5. Colour(StateBehind(c), L, c, t)
             = [state |-> StateBehind(t), out |-> SubSeq(AtOnce, c + 1, t)]
      <3>1. StateBehind(t) = [kind |-> "textMate", at |-> grammar.at,
                              parse |-> Way.at[t].parse, highlight |-> Way.at[t].highlight]
        BY <1>4 DEF StateBehind, Behinds
      <3>2. Colour(StateBehind(c), L, c, t)
               = AfterTextMate(StateBehind(c), At(Way.at[t].parse, Way.at[t].highlight,
                                                  SubSeq(AtOnce, c + 1, t)))
        BY <2>1, <2>2, <2>3 DEF Colour
      <3>3. ASSUME NEW out
            PROVE  AfterTextMate(StateBehind(c), At(Way.at[t].parse, Way.at[t].highlight, out))
                      = [state |-> StateBehind(t), out |-> out]
        <4> DEFINE s == StateBehind(c)
                   p == Way.at[t].parse
                   h == Way.at[t].highlight
        <4>1. \E p0, h0 : s = [kind |-> "textMate", at |-> grammar.at, parse |-> p0, highlight |-> h0]
          BY <2>1
        <4> HIDE DEF s, p, h
        <4>2. [s EXCEPT !.parse = p, !.highlight = h]
                 = [kind |-> "textMate", at |-> grammar.at, parse |-> p, highlight |-> h]
          <5>1. PICK p0, h0 : s = [kind |-> "textMate", at |-> grammar.at, parse |-> p0, highlight |-> h0]
            BY <4>1
          <5> DEFINE r == [s EXCEPT !.parse = p, !.highlight = h]
          <5>2. /\ DOMAIN s = {"kind", "at", "parse", "highlight"}
                /\ s.kind = "textMate" /\ s.at = grammar.at
            BY <5>1
          <5>3. r = [f \in {"kind", "at", "parse", "highlight"} |->
                       IF f = "parse" THEN p ELSE IF f = "highlight" THEN h ELSE s[f]]
            BY <5>2
          <5> QED BY <5>2, <5>3
        <4>3. AfterTextMate(s, At(p, h, out))
                 = [state |-> [s EXCEPT !.parse = p, !.highlight = h], out |-> out]
          BY DEF AfterTextMate, At
        <4> QED BY <3>1, <4>2, <4>3 DEF s, p, h
      <3> QED BY <3>2, <3>3
    <2>6. c + (t - c) = t
      BY <1>0
    <2>7. After(c, n, [state |-> StateBehind(t), out |-> SubSeq(AtOnce, c + 1, t)])
             = [reading |-> [coloured |-> t, state |-> IF t >= n THEN Finished ELSE StateBehind(t)],
                out |-> SubSeq(AtOnce, c + 1, t)]
      BY <2>4, <2>6 DEF After
    <2> QED BY <1>2, <1>4, <2>5, <2>7
  <1> QED BY <1>1, <1>3, <1>4

\* A reading that has just begun.
LEMMA EngineBegins == HaveLines /\ ReadingInit => EngineInv
  <1> SUFFICES ASSUME HaveLines, ReadingInit PROVE EngineInv
    OBVIOUS
  <1>1. IsFileOf
    BY DEF ReadingInit, IsFileOf
  <1>2. Len(file.lines) \in Nat /\ reading = Begun /\ asked = 0 /\ spans = <<>>
    BY <1>1, WayReads DEF ReadingInit, Begun
  <1>3. reading.coloured = 0
    BY <1>1, <1>2, BegunIs
  <1>4. IsCounted /\ EndsAsAsked /\ TreeAtOnce /\ NothingUnread
    BY <1>1, <1>2, <1>3, BegunIs DEF IsCounted, EndsAsAsked, TreeAtOnce, NothingUnread, Least
  <1>5. StateFollows
    BY <1>1, <1>2, <1>3, BegunIs DEF StateFollows
  <1>6. SpansFollow
    <2>1. \E X : AtOnce \in Seq(X)
      BY <1>1, AtOnceIs
    <2>2. SubSeq(AtOnce, 1, 0) = <<>>
      BY <2>1
    <2> QED BY <1>2, <1>3, <2>2 DEF SpansFollow
  <1> QED BY <1>1, <1>4, <1>5, <1>6 DEF EngineInv

\* A request that has been read already changes nothing; another one goes on by a
\* piece.
LEMMA EngineGoesOn == HaveLines /\ EngineInv /\ [ReadingNext]_readingVars => EngineInv'
  <1> SUFFICES ASSUME HaveLines, EngineInv, [ReadingNext]_readingVars PROVE EngineInv'
    OBVIOUS
  <1> USE DEF EngineInv
  <1>1. UNCHANGED <<file, grammar>>
    BY DEF ReadingNext, ReadColoursToLine, readingVars
  <1>2. /\ IsFileOf' /\ Begun' = Begun /\ AtOnce' = AtOnce
        /\ \A k : StateBehind(k)' = StateBehind(k)
    <2>1. Way' = Way
      BY <1>1 DEF Way
    <2>2. Begun' = Begun
      BY <1>1 DEF Begun
    <2> QED BY <1>1, <2>1, <2>2 DEF IsFileOf, AtOnce, StateBehind, Behinds
  <1> DEFINE n == Len(file.lines)
             c == reading.coloured
  <1>3. n \in Nat /\ c \in 0..n /\ asked \in Nat
    BY WayReads DEF IsCounted
  <1>4. CASE UNCHANGED readingVars
    BY <1>1, <1>2, <1>4
    DEF readingVars, IsCounted, EndsAsAsked, TreeAtOnce, StateFollows, NothingUnread, SpansFollow
  <1>5. ASSUME NEW line \in 0..n, ReadColoursToLine(line) PROVE EngineInv'
    <2> DEFINE t == Least(line + 1, n)
               read == ReadTo(reading, file.lines, t)
    <2>1. t \in 0..n /\ (t = line + 1 \/ t = n) /\ t <= line + 1
      BY <1>3 DEF Least
    <2>2. reading' = read.reading /\ spans' = spans \o read.out
      BY <1>5 DEF ReadColoursToLine, Appended
    <2>3. asked' = IF line + 1 > asked THEN line + 1 ELSE asked
      BY <1>5 DEF ReadColoursToLine
    <2>4. asked' \in Nat /\ asked' > 0 /\ asked' >= asked
      BY <1>3, <2>3
    <2>5. PICK X : AtOnce \in Seq(X)
      BY AtOnceIs
    <2>6. CASE c >= t \/ reading.state = Finished
      <3>1. read = [reading |-> reading, out |-> <<>>]
        BY <2>6 DEF ReadTo
      <3>2. spans \o <<>> = spans
        <4>1. c <= Len(AtOnce)
          BY <1>3, AtOnceIs DEF NothingUnread
        <4> QED BY <1>3, <2>5, <4>1, CutSeq DEF SpansFollow
      <3> HIDE DEF read
      <3>3. reading' = reading /\ spans' = spans
        BY <2>2, <3>1, <3>2
      <3>4. EndsAsAsked'
        <4>1. CASE c >= t
          BY <1>1, <1>2, <1>3, <2>1, <2>3, <2>4, <3>3, <4>1 DEF EndsAsAsked, Least
        <4>2. CASE reading.state = Finished
          <5>1. Begun.state = Finished \/ c = n
            BY <4>2, BegunIs DEF StateFollows
          <5> QED BY <1>1, <1>2, <2>4, <3>3, <5>1 DEF EndsAsAsked, NothingUnread
        <4> QED BY <2>6, <4>1, <4>2
      <3> QED BY <1>1, <1>2, <2>4, <3>3, <3>4
          DEF IsCounted, TreeAtOnce, StateFollows, NothingUnread, SpansFollow
    <2>7. CASE c < t /\ reading.state # Finished
      <3>1. PICK k \in {t, n} :
               /\ c < k
               /\ grammar.kind = "tree" => k = n
               /\ read = [reading |-> [coloured |-> k,
                                     state |-> IF k >= n THEN Finished ELSE StateBehind(k)],
                          out |-> SubSeq(AtOnce, c + 1, k)]
        BY <2>1, <2>7, PieceIs
      <3>2. k \in 0..n /\ k \in Nat /\ k > 0
        BY <1>3, <2>1, <3>1
      <3> HIDE DEF read
      <3>3. /\ reading' = [coloured |-> k, state |-> IF k >= n THEN Finished ELSE StateBehind(k)]
            /\ spans' = spans \o SubSeq(AtOnce, c + 1, k)
        BY <2>2, <3>1
      <3>4. IsCounted' /\ TreeAtOnce'
        BY <1>1, <2>4, <3>1, <3>2, <3>3 DEF IsCounted, TreeAtOnce
      <3>5. Begun.state # Finished
        BY <2>7 DEF StateFollows
      <3>6. EndsAsAsked'
        <4>1. CASE k = n
          BY <1>1, <2>4, <3>3, <4>1 DEF EndsAsAsked
        <4>2. CASE k # n
          <5>1. k = line + 1 /\ k < n /\ c < n
            BY <1>3, <2>1, <3>1, <3>2, <4>2
          <5>2. c = Least(asked, n)
            BY <1>3, <3>5, <5>1 DEF EndsAsAsked
          <5>3. asked = c
            BY <1>3, <5>1, <5>2 DEF Least
          <5>4. asked' = k
            BY <1>3, <2>3, <3>1, <5>1, <5>3
          <5>5. reading'.coloured = Least(asked', Len(file.lines)')
            BY <1>1, <1>3, <3>3, <5>1, <5>4 DEF Least
          <5> QED BY <5>5 DEF EndsAsAsked
        <4> QED BY <4>1, <4>2
      <3>7. StateFollows'
        BY <1>1, <1>2, <1>3, <3>2, <3>3, <3>5 DEF StateFollows
      <3>8. NothingUnread'
        BY <1>2, <3>5 DEF NothingUnread
      <3>9. SpansFollow'
        <4>1. Len(AtOnce) = n
          BY <1>3, <3>1, <3>2, <3>5, AtOnceIs
        <4>2. SubSeq(AtOnce, 1, c) \o SubSeq(AtOnce, c + 1, k) = SubSeq(AtOnce, 1, k)
          <5> HIDE DEF c, n
          <5> QED BY <1>3, <2>5, <3>1, <3>2, <4>1, CutSeq
        <4> QED BY <1>2, <3>3, <4>2 DEF SpansFollow
      <3> QED BY <1>2, <3>4, <3>6, <3>7, <3>8, <3>9
    <2> QED BY <1>3, <2>1, <2>6, <2>7
  <1> QED BY <1>4, <1>5 DEF ReadingNext

\* A file read in pieces, as far as ever and however often, gets the spans of a file
\* that is read at once.
THEOREM PiecesMakeTheWhole == HaveLines => (ReadingSpec => []ReadingIsWhole)
  <1>1. ASSUME HaveLines, EngineInv PROVE ReadingIsWhole
    <2>1. Len(file.lines) \in Nat
      BY <1>1, WayReads DEF EngineInv
    <2>2. reading.state = Finished
             <=> Begun.state = Finished \/ (Len(file.lines) > 0 /\ reading.coloured = Len(file.lines))
      BY <1>1, BegunIs DEF EngineInv, StateFollows
    <2> QED BY <1>1, <2>1, <2>2 DEF EngineInv, ReadingIsWhole, SpansFollow, AtOnce, EndsAsAsked, Begun
  <1>2. HaveLines /\ ReadingInit => EngineInv
    BY EngineBegins
  <1>3. HaveLines /\ EngineInv /\ [ReadingNext]_readingVars => EngineInv'
    BY EngineGoesOn
  <1>4. HaveLines /\ EngineInv => ReadingIsWhole
    BY <1>1
  <1> SUFFICES ASSUME HaveLines PROVE ReadingSpec => []ReadingIsWhole
    OBVIOUS
  <1> QED BY <1>2, <1>3, <1>4, PTL DEF ReadingSpec

================================================================================
