----------------------------- MODULE ReviewProofs -----------------------------
(***************************************************************************)
(* For any repository, texts and line counts, and however often anything   *)
(* changes or is opened: when the review loop comes to rest, the list and  *)
(* the viewer show what is in the repository now.                          *)
(*                                                                         *)
(* Both are claims about rest, and what makes them true happens before it. *)
(* The invariant says for each of the two what is owed while news of a     *)
(* change is still on its way, and what holds once none is: a job under    *)
(* way has read what it would read now (ListingCurrent, ReadingCurrent),   *)
(* and when none is, the last answer in the event channel, or, if there is *)
(* none, what the screen holds, is what one would get now (ListArrives,    *)
(* ViewArrives).                                                           *)
(*                                                                         *)
(* At the end, of the slot that each of the two workers is fed through:    *)
(* that it never loses a request nor a wakeup, and is a mailbox.           *)
(***************************************************************************)
EXTENDS Review, Slot, TLAPS

\* A File of the repository: its commit is one there is.
Entry ==
    {f \in File: f.heading = "Staged Changes" => f.commit \in 1..Len(commits)}

Listed == Entries(CountLines, Status, Len(commits))

ContentOf(f) == DiffContent(f, Before(f), After(f))

------------------------------------------------------------------------------
(* The types, some more precise than TypeOK has them. *)

RepoTypes ==
    /\ commits \in Seq([Paths -> Texts]) /\ Len(commits) \in 1..(changes + 1)
    /\ index \in [Paths -> Texts] /\ work \in [Paths -> Texts]
    /\ changes \in 0..MaxChanges

Refreshes == [kind: {"refresh"}, bits: SUBSET Bits]
Listings == [kind: {"files"}, files: SUBSET File]
Answers(f) == [kind: {"diff"}, file: {f}, content: Content \cup {None}]
Event == Refreshes \cup Listings \cup UNION {Answers(f): f \in File}

EventsTypes ==
    /\ events \in Seq(Event)
    /\ \A i \in DOMAIN events:
          events[i] \in Listings => events[i].files \subseteq Entry

FilesTypes ==
    /\ filesWaiting \in {Listing, None} /\ filesWorking \in {Listing, None}
    /\ filesWorking = None <=> counted = None
    /\ counted # None => counted \in [Paths -> [Headings -> Nat]]
    /\ statuses # None => counted # None /\ statuses \subseteq Paths \X Headings

DiffTypes ==
    /\ diffWaiting \in Entry \cup {None} /\ diffWorking \in Entry \cup {None}
    /\ original \in Texts \cup {None}
    /\ diffWorking = None <=> original = None

ScreenTypes ==
    /\ files \subseteq Entry /\ listed \subseteq Entry
    /\ selected \in Entry \cup {None} /\ opened \in Entry \cup {None}
    /\ content \in Content \cup {None}
    /\ behind \in BOOLEAN

Types ==
    /\ RepoTypes
    /\ owed \subseteq Bits
    /\ EventsTypes
    /\ FilesTypes /\ DiffTypes
    /\ failed \subseteq {"files", "diff"}
    /\ ScreenTypes

\* There is no event of a kind in the channel, or this is the last of them.
Lacks(s, S) == \A i \in DOMAIN s: s[i] \notin S
Newest(s, S, i) == s[i] \in S /\ \A j \in DOMAIN s: j > i => s[j] \notin S

------------------------------------------------------------------------------
(* The list. *)

\* News of a change that the file-list worker has not been told.
ListBehind ==
    \/ owed # {}
    \/ ~Lacks(events, Refreshes)
    \/ filesWaiting # None

ListingCurrent ==
    filesWorking # None =>
        /\ counted = CountLines
        /\ statuses # None => statuses = Status

\* The last answer in the channel, or else the Explorer, has what is listed now.
ListArrives ==
    filesWorking = None /\ "files" \notin failed =>
        /\ Lacks(events, Listings) => files = Listed
        /\ \A i \in DOMAIN events: Newest(events, Listings, i) => events[i].files = Listed

ListInv == ~ListBehind => ListingCurrent /\ ListArrives

------------------------------------------------------------------------------
(* The viewer. *)

NewsOf(f) == {e \in Refreshes: Affects(e.bits, f)}

\* News of a change to the opened file that the diff worker has not been told.
ViewBehind ==
    \/ Affects(owed, opened)
    \/ ~Lacks(events, NewsOf(opened))
    \/ diffWaiting # None

\* What waits in the slot is the opened file, and so is what is being read when
\* nothing waits.
AskedForIt ==
    opened # None =>
        /\ diffWaiting \in {None, opened}
        /\ diffWaiting = None => diffWorking \in {None, opened}

ReadingCurrent == diffWorking # None => original = Before(opened)

\* The last answer for it in the channel, or else the viewer, has what one would
\* read now.
ViewArrives ==
    diffWorking = None /\ "diff" \notin failed =>
        /\ Lacks(events, Answers(opened)) => content = ContentOf(opened)
        /\ \A i \in DOMAIN events:
              Newest(events, Answers(opened), i) => events[i].content = ContentOf(opened)

ViewInv ==
    /\ opened = None => content = None
    /\ AskedForIt
    /\ opened # None /\ ~ViewBehind => ReadingCurrent /\ ViewArrives

\* The selected file is an entry of the list as last written, unless a key chose
\* it from the one before.
SelectedIsListed == selected \in files \cup {None} \/ behind

IInv == Types /\ ListInv /\ ViewInv /\ SelectedIsListed

------------------------------------------------------------------------------
(* The event channel: what a step takes from its head or appends. *)

\* What a channel without its head tells of events of a kind: the same, unless
\* the head was the last of them.
LEMMA TailNews ==
  ASSUME NEW E, NEW s \in Seq(E), s # <<>>, NEW S
  PROVE  /\ Tail(s) \in Seq(E) /\ Head(s) \in E
         /\ \A i \in DOMAIN Tail(s): i + 1 \in DOMAIN s /\ Tail(s)[i] = s[i + 1]
         /\ \A i \in DOMAIN Tail(s): Newest(Tail(s), S, i) => Newest(s, S, i + 1)
         /\ Lacks(Tail(s), S) => IF Head(s) \in S THEN Newest(s, S, 1) ELSE Lacks(s, S)
         /\ 1 \in DOMAIN s /\ s[1] = Head(s)
  <1> DEFINE t == Tail(s)
  <1>1. /\ Len(s) \in Nat /\ DOMAIN s = 1..Len(s) /\ DOMAIN t = 1..(Len(s) - 1)
        /\ \A j \in DOMAIN t: t[j] = s[j + 1]
        /\ 1 \in DOMAIN s /\ s[1] = Head(s) /\ t \in Seq(E) /\ Head(s) \in E
    OBVIOUS
  <1>2. \A m \in DOMAIN s: m > 1 => m - 1 \in DOMAIN t /\ s[m] = t[m - 1]
    BY <1>1
  <1>3. \A i \in DOMAIN t: i + 1 \in DOMAIN s
    BY <1>1
  <1>4. ASSUME NEW i \in DOMAIN t, Newest(t, S, i) PROVE Newest(s, S, i + 1)
    <2>1. ASSUME NEW m \in DOMAIN s, m > i + 1 PROVE s[m] \notin S
      <3>1. m - 1 \in DOMAIN t /\ s[m] = t[m - 1] /\ m - 1 > i
        BY <1>1, <1>2, <2>1
      <3> QED BY <3>1, <1>4 DEF Newest
    <2> QED BY <1>1, <1>4, <2>1 DEF Newest
  <1>5. ASSUME Lacks(t, S)
        PROVE  IF Head(s) \in S THEN Newest(s, S, 1) ELSE Lacks(s, S)
    <2>1. \A m \in DOMAIN s: m > 1 => s[m] \notin S
      BY <1>2, <1>5 DEF Lacks
    <2> QED BY <1>1, <2>1 DEF Lacks, Newest
  <1> QED BY <1>1, <1>3, <1>4, <1>5

\* An event appended is the last of its kind, and changes nothing for others.
LEMMA AppendNews ==
  ASSUME NEW E, NEW s \in Seq(E), NEW e \in E, NEW S
  PROVE  /\ Append(s, e) \in Seq(E)
         /\ \A i \in DOMAIN s: i \in DOMAIN Append(s, e) /\ Append(s, e)[i] = s[i]
         /\ Len(s) + 1 \in DOMAIN Append(s, e) /\ Append(s, e)[Len(s) + 1] = e
         /\ \A i \in DOMAIN Append(s, e): i = Len(s) + 1 \/ i \in DOMAIN s
         /\ \A i \in DOMAIN Append(s, e):
                Newest(Append(s, e), S, i) =>
                    IF e \in S THEN Append(s, e)[i] = e
                    ELSE i \in DOMAIN s /\ Newest(s, S, i)
         /\ Lacks(Append(s, e), S) => e \notin S /\ Lacks(s, S)
  <1> DEFINE t == Append(s, e)
             n == Len(s) + 1
  <1>1. /\ t \in Seq(E) /\ n \in DOMAIN t /\ t[n] = e
        /\ \A m \in DOMAIN s: m \in DOMAIN t /\ t[m] = s[m] /\ n > m
        /\ \A m \in DOMAIN t: m = n \/ m \in DOMAIN s
    OBVIOUS
  <1> HIDE DEF t, n
  <1>2. ASSUME NEW i \in DOMAIN t, Newest(t, S, i)
        PROVE  IF e \in S THEN t[i] = e ELSE i \in DOMAIN s /\ Newest(s, S, i)
    <2>1. CASE i = n
      BY <1>1, <1>2, <2>1 DEF Newest
    <2>2. CASE i \in DOMAIN s
      BY <1>1, <1>2, <2>2 DEF Newest
    <2> QED BY <1>1, <2>1, <2>2
  <1>3. Lacks(t, S) => e \notin S /\ Lacks(s, S)
    BY <1>1 DEF Lacks
  <1> QED BY <1>1, <1>2, <1>3 DEF t, n

------------------------------------------------------------------------------
(* The types. *)

\* The three kinds of events exclude each other.
LEMMA Kinds ==
  /\ \A e \in Refreshes: e \in Event /\ e.kind = "refresh" /\ e.bits \subseteq Bits
  /\ \A e \in Listings: e \in Event /\ e.kind = "files" /\ e.files \subseteq File
  /\ \A f \in File: \A e \in Answers(f):
        e \in Event /\ e.kind = "diff" /\ e.file = f /\ e.content \in Content \cup {None}
  /\ \A e \in Event: /\ e.kind = "refresh" => e \in Refreshes
                     /\ e.kind = "files" => e \in Listings
                     /\ e.kind = "diff" => e.file \in File /\ e \in Answers(e.file)
  /\ \A f: \A e \in Refreshes \cup Listings: e \notin Answers(f)
  /\ Refreshes \cap Listings = {}
  /\ \A f: Answers(f) \cap (Refreshes \cup Listings) = {}
  <1>1. \A e \in Refreshes: e \in Event /\ e.kind = "refresh" /\ e.bits \subseteq Bits
    BY DEF Event, Refreshes
  <1>2. \A e \in Listings: e \in Event /\ e.kind = "files" /\ e.files \subseteq File
    BY DEF Event, Listings
  <1>3. \A f: \A e \in Answers(f): e.kind = "diff" /\ e.file = f /\ e.content \in Content \cup {None}
    BY DEF Answers
  <1>4. \A f \in File: \A e \in Answers(f): e \in Event
    BY DEF Event
  <1>5. \A e \in Event: e \in Refreshes \/ e \in Listings \/ \E f \in File: e \in Answers(f)
    BY DEF Event
  <1> QED BY <1>1, <1>2, <1>3, <1>4, <1>5

\* What an action of the repository does to it keeps its types and its entries.
LEMMA RepoSteps ==
  ASSUME RepoTypes, Repository
  PROVE  RepoTypes' /\ Entry \subseteq Entry'
  <1> USE ReviewAssumption DEF RepoTypes
  <1>1. changes' \in 0..MaxChanges /\ changes' = changes + 1
    <2>1. changes < MaxChanges /\ changes' = changes + 1
      BY DEF Repository, Edit, Stage, Unstage, Commit, Change
    <2> QED BY <2>1
  <1>2. Last(commits) \in [Paths -> Texts]
    BY DEF Last
  <1>3. CASE Commit
    <2>1. commits' = Append(commits, index) /\ UNCHANGED <<index, work>>
      BY <1>3 DEF Commit
    <2>2. commits' \in Seq([Paths -> Texts]) /\ Len(commits') = Len(commits) + 1
      BY <2>1
    <2>3. 1..Len(commits) \subseteq 1..Len(commits')
      BY <2>2
    <2>4. Entry \subseteq Entry'
      BY <2>3 DEF Entry
    <2> QED BY <1>1, <2>1, <2>2, <2>4
  <1>4. CASE \E p \in Paths: (\E t \in Texts: Edit(p, t)) \/ Stage(p) \/ Unstage(p)
    <2>1. UNCHANGED commits
      BY <1>4 DEF Edit, Stage, Unstage
    <2>2. index' \in [Paths -> Texts] /\ work' \in [Paths -> Texts]
      BY <1>2, <1>4 DEF Edit, Stage, Unstage
    <2> QED BY <1>1, <2>1, <2>2 DEF Entry
  <1> QED BY <1>3, <1>4 DEF Repository

\* What Git says of the repository.
LEMMA GitTypes ==
  ASSUME RepoTypes
  PROVE  /\ CountLines \in [Paths -> [Headings -> Nat]]
         /\ Status \subseteq Paths \X Headings
         /\ Last(commits) \in [Paths -> Texts]
  <1> USE ReviewAssumption DEF RepoTypes
  <1>1. Last(commits) \in [Paths -> Texts]
    BY DEF Last
  <1>2. CountLines \in [Paths -> [Headings -> Nat]]
    <2>1. ASSUME NEW p \in Paths
          PROVE  /\ Counts[<<index[p], work[p]>>] \in Nat
                 /\ Counts[<<Last(commits)[p], index[p]>>] \in Nat
      BY <1>1
    <2> QED BY <2>1 DEF CountLines
  <1>3. Status \subseteq Paths \X Headings
    <2>1. \A p \in Paths: <<p, "Changes">> \in Paths \X Headings
                          /\ <<p, "Staged Changes">> \in Paths \X Headings
      BY DEF Headings
    <2> QED BY <2>1, Zenon DEF Status
  <1> QED BY <1>1, <1>2, <1>3

\* Both sides of an entry are texts.
LEMMA SideTypes ==
  ASSUME RepoTypes, NEW f \in Entry
  PROVE  Before(f) \in Texts /\ After(f) \in Texts
  <1>1. /\ f.path \in Paths /\ f.heading \in Headings
        /\ f.heading = "Staged Changes" => f.commit \in 1..Len(commits)
    BY DEF Entry, File
  <1>2. \A n \in 1..Len(commits): commits[n] \in [Paths -> Texts]
    BY DEF RepoTypes
  <1> QED BY <1>1, <1>2 DEF RepoTypes, Before, After, Headings

\* The entries a listing makes.
LEMMA EntriesTypes ==
  ASSUME RepoTypes, NEW counts \in [Paths -> [Headings -> Nat]],
         NEW status \in SUBSET (Paths \X Headings)
  PROVE  Entries(counts, status, Len(commits)) \subseteq Entry
  <1>1. /\ Len(commits) \in 0..(MaxChanges + 1) /\ Len(commits) \in 1..Len(commits)
        /\ 0 \in 0..(MaxChanges + 1)
    BY ReviewAssumption DEF RepoTypes
  <1>2. ASSUME NEW s \in status
        PROVE  [path |-> s[1], heading |-> s[2],
                commit |-> IF s[2] = "Changes" THEN 0 ELSE Len(commits),
                stats |-> counts[s[1]][s[2]]] \in Entry
    <2>1. /\ s[1] \in Paths /\ s[2] \in Headings /\ counts[s[1]][s[2]] \in Nat
      OBVIOUS
    <2> DEFINE c == IF s[2] = "Changes" THEN 0 ELSE Len(commits)
    <2>2. c \in 0..(MaxChanges + 1) /\ (s[2] = "Staged Changes" => c \in 1..Len(commits))
      <3>1. CASE s[2] = "Changes"
        BY <1>1, <3>1
      <3>2. CASE s[2] # "Changes"
        BY <1>1, <3>2
      <3> QED BY <3>1, <3>2
    <2> HIDE DEF c
    <2>3. [path |-> s[1], heading |-> s[2], commit |-> c, stats |-> counts[s[1]][s[2]]] \in File
      BY <2>1, <2>2 DEF File
    <2>4. [path |-> s[1], heading |-> s[2], commit |-> c, stats |-> counts[s[1]][s[2]]] \in Entry
      BY <2>2, <2>3 DEF Entry
    <2> QED BY <2>4 DEF c
  <1> QED BY <1>2, Zenon DEF Entries

\* Entries stay what they are while the repository does not change.
LEMMA SameRepo ==
  ASSUME UNCHANGED repoVars
  PROVE  /\ Entry' = Entry
         /\ CountLines' = CountLines /\ Status' = Status /\ Listed' = Listed
         /\ \A f: Before(f)' = Before(f) /\ After(f)' = After(f) /\ ContentOf(f)' = ContentOf(f)
         /\ RepoTypes' = RepoTypes
  BY DEF repoVars, Entry, CountLines, Status, Listed, Entries, Before, After, ContentOf,
     DiffContent, RepoTypes

\* An event appended to the channel.
LEMMA Sent ==
  ASSUME EventsTypes, Entry \subseteq Entry', NEW e \in Event, events' = Append(events, e),
         e \in Listings => e.files \subseteq Entry'
  PROVE  EventsTypes'
  <1>1. /\ events' \in Seq(Event)
        /\ \A i \in DOMAIN events': events'[i] = e \/ (i \in DOMAIN events /\ events'[i] = events[i])
    BY AppendNews DEF EventsTypes
  <1> QED BY <1>1 DEF EventsTypes

\* The event at the head, which the UI thread takes.
LEMMA Handled ==
  ASSUME EventsTypes, events # <<>>, events' = Tail(events), Entry' = Entry
  PROVE  /\ EventsTypes'
         /\ Head(events) \in Event
         /\ Head(events) \in Listings => Head(events).files \subseteq Entry
  <1>1. /\ events' \in Seq(Event) /\ Head(events) \in Event
        /\ \A i \in DOMAIN events': i + 1 \in DOMAIN events /\ events'[i] = events[i + 1]
        /\ 1 \in DOMAIN events /\ events[1] = Head(events)
    BY TailNews DEF EventsTypes
  <1> QED BY <1>1 DEF EventsTypes

\* The selected entry of a new list is one of it, or none.
LEMMA MatchingTypes ==
  ASSUME NEW f, NEW list
  PROVE  Matching(f, list) \in list \cup {None}
  BY DEF Matching

\* The answer to a diff: its content, or none.
LEMMA FinishDiffSends ==
  ASSUME RepoTypes, DiffTypes, FinishDiff
  PROVE  \E c \in Content \cup {None}:
            /\ events' = Append(events, DiffResponse(diffWorking, c))
            /\ DiffResponse(diffWorking, c) \in Answers(diffWorking) \cap Event
            /\ DiffResponse(diffWorking, c).content = c
            /\ "diff" \notin failed' => c = DiffContent(diffWorking, original, After(diffWorking))
  <1> DEFINE f == diffWorking
             good == DiffContent(f, original, After(f))
  <1>1. f \in Entry /\ original \in Texts /\ After(f) \in Texts
    BY SideTypes DEF FinishDiff, DiffBox!Finish, DiffTypes
  <1>2. f \in File /\ good \in Content
    BY <1>1 DEF DiffContent, Content, Entry
  <1>3. \A x \in Content \cup {None}: /\ DiffResponse(f, x) \in Answers(f)
                                     /\ DiffResponse(f, x).content = x
    BY DEF DiffResponse, Answers
  <1>4. \A x \in Content \cup {None}: DiffResponse(f, x) \in Event
    BY <1>2, <1>3, Kinds
  <1>5. CASE events' = Append(events, DiffResponse(f, good))
    BY <1>2, <1>3, <1>4, <1>5
  <1>6. CASE "diff" \in failed' /\ events' = Append(events, DiffResponse(f, None))
    BY <1>3, <1>4, <1>6
  <1> QED BY <1>5, <1>6 DEF FinishDiff

\* The workers' steps keep the types,
LEMMA WorkerTypes ==
  ASSUME Types, StartListing \/ ReadStatus \/ FinishListing \/ StartDiff \/ FinishDiff
  PROVE  Types'
  <1> USE DEF Types
  <1>0. UNCHANGED repoVars
    BY DEF StartListing, ReadStatus, FinishListing, StartDiff, FinishDiff
  <1>1. Entry' = Entry /\ RepoTypes'
    BY <1>0, SameRepo
  <1>2. CASE StartListing
    <2>1. CountLines # None
      BY GitTypes, ReviewAssumption
    <2>2. FilesTypes'
      BY <1>2, <2>1, GitTypes DEF StartListing, FilesBox!Take, FilesTypes
    <2> QED BY <1>1, <1>2, <2>2 DEF StartListing, EventsTypes, DiffTypes, ScreenTypes, diffVars,
            uiVars
  <1>3. CASE ReadStatus
    <2>1. FilesTypes'
      BY <1>3, GitTypes DEF ReadStatus, FilesTypes
    <2> QED BY <1>1, <1>3, <2>1 DEF ReadStatus, EventsTypes, DiffTypes, ScreenTypes, diffVars,
            uiVars
  <1>4. CASE FinishListing
    <2>1. /\ counted \in [Paths -> [Headings -> Nat]] /\ statuses \in SUBSET (Paths \X Headings)
          /\ FilesTypes'
      BY <1>4 DEF FinishListing, FilesBox!Finish, FilesTypes
    <2>2. Entries(counted, statuses, Len(commits)) \subseteq Entry
      BY <2>1, EntriesTypes
    <2>3. \A list \in SUBSET Entry: FilesResponse(list) \in Listings
                                  /\ FilesResponse(list).files = list
      BY DEF FilesResponse, Listings, Entry
    <2>4. \E list \in SUBSET Entry: events' = Append(events, FilesResponse(list))
      BY <1>4, <2>2 DEF FinishListing
    <2>5. EventsTypes'
      BY <1>1, <2>3, <2>4, Sent, Kinds
    <2>6. failed' \subseteq {"files", "diff"}
      BY <1>4 DEF FinishListing
    <2> QED BY <1>1, <1>4, <2>1, <2>5, <2>6 DEF FinishListing, DiffTypes, ScreenTypes, diffVars,
            uiVars
  <1>5. CASE StartDiff
    <2>1. diffWaiting \in Entry /\ Before(diffWaiting) \in Texts
      BY <1>5, SideTypes DEF StartDiff, DiffBox!Take, DiffTypes
    <2>2. Before(diffWaiting) # None
      BY <2>1, ReviewAssumption
    <2>3. DiffTypes'
      BY <1>1, <1>5, <2>1, <2>2 DEF StartDiff, DiffBox!Take, DiffTypes
    <2> QED BY <1>1, <1>5, <2>3 DEF StartDiff, EventsTypes, FilesTypes, ScreenTypes, filesVars,
            uiVars
  <1>6. CASE FinishDiff
    <2>5. EventsTypes'
      BY <1>1, <1>6, FinishDiffSends, Sent, Kinds
    <2>6. DiffTypes' /\ failed' \subseteq {"files", "diff"}
      BY <1>1, <1>6 DEF FinishDiff, DiffBox!Finish, DiffTypes
    <2> QED BY <1>1, <1>6, <2>5, <2>6 DEF FinishDiff, FilesTypes, ScreenTypes, filesVars, uiVars
  <1> QED BY <1>2, <1>3, <1>4, <1>5, <1>6

\* those of the screen do,
LEMMA UITypes ==
  ASSUME Types, Handle \/ Draw \/ \E f \in listed: OpenFile(f)
  PROVE  Types'
  <1> USE DEF Types
  <1>0. UNCHANGED repoVars
    BY DEF Handle, HandleRefresh, HandleFiles, HandleDiff, Draw, OpenFile
  <1>1. Entry' = Entry /\ RepoTypes'
    BY <1>0, SameRepo
  <1>2. CASE HandleRefresh
    <2>1. EventsTypes'
      BY <1>1, <1>2, Handled DEF HandleRefresh
    <2>2. FilesTypes'
      BY <1>2 DEF HandleRefresh, FilesTypes, AskForFiles, FilesBox!Put
    <2>3. DiffTypes'
      BY <1>1, <1>2 DEF HandleRefresh, DiffTypes, ScreenTypes, AskForDiff, DiffBox!Put
    <2> QED BY <1>1, <1>2, <2>1, <2>2, <2>3 DEF HandleRefresh, ScreenTypes, uiVars
  <1>3. CASE HandleFiles
    <2>1. EventsTypes' /\ Head(events) \in Event
          /\ (Head(events) \in Listings => Head(events).files \subseteq Entry)
      BY <1>1, <1>3, Handled DEF HandleFiles
    <2>2. Head(events).files \subseteq Entry
      BY <1>3, <2>1, Kinds DEF HandleFiles
    <2>3. ScreenTypes'
      BY <1>1, <1>3, <2>2, MatchingTypes DEF HandleFiles, ScreenTypes
    <2> QED BY <1>1, <1>3, <2>1, <2>3 DEF HandleFiles, FilesTypes, DiffTypes, filesVars, diffVars
  <1>4. CASE HandleDiff
    <2>1. EventsTypes' /\ Head(events) \in Event
      BY <1>1, <1>4, Handled DEF HandleDiff
    <2>2. Head(events).content \in Content \cup {None}
      BY <1>4, <2>1, Kinds DEF HandleDiff
    <2>3. ScreenTypes'
      BY <1>1, <1>4, <2>2 DEF HandleDiff, ScreenTypes
    <2> QED BY <1>1, <1>4, <2>1, <2>3 DEF HandleDiff, FilesTypes, DiffTypes, filesVars, diffVars
  <1>5. CASE Draw
    <2>1. DiffTypes' /\ ScreenTypes'
      BY <1>1, <1>5 DEF Draw, DiffTypes, ScreenTypes, AskForDiff, DiffBox!Put
    <2> QED BY <1>1, <1>5, <2>1 DEF Draw, EventsTypes, FilesTypes, filesVars
  <1>6. ASSUME NEW f \in listed, OpenFile(f) PROVE Types'
    <2>1. ScreenTypes'
      BY <1>1, <1>6 DEF OpenFile, ScreenTypes
    <2> QED BY <1>1, <1>6, <2>1 DEF OpenFile, EventsTypes, FilesTypes, DiffTypes, filesVars, diffVars
  <1> QED BY <1>2, <1>3, <1>4, <1>5, <1>6 DEF Handle

\* and so does every step.
LEMMA TypesStep ==
  ASSUME Types, [Next]_vars
  PROVE  Types'
  <1> USE DEF Types
  <1>1. CASE Repository
    <2>1. RepoTypes' /\ Entry \subseteq Entry'
      BY <1>1, RepoSteps
    <2>2. owed' \subseteq Bits /\ UNCHANGED <<events, filesVars, diffVars, failed, uiVars>>
      BY <1>1 DEF Repository, Edit, Stage, Unstage, Commit, Change, Bits
    <2> QED BY <2>1, <2>2 DEF EventsTypes, FilesTypes, DiffTypes, ScreenTypes, filesVars, diffVars,
            uiVars
  <1>2. CASE SendRefresh
    <2>1. RefreshEvent(owed) \in Refreshes
      BY DEF RefreshEvent, Refreshes
    <2>2. Entry' = Entry /\ RepoTypes'
      BY <1>2, SameRepo DEF SendRefresh
    <2>3. EventsTypes'
      BY <1>2, <2>1, <2>2, Kinds, Sent DEF SendRefresh
    <2> QED BY <1>2, <2>2, <2>3 DEF SendRefresh, FilesTypes, DiffTypes, ScreenTypes, filesVars,
            diffVars, uiVars
  <1>3. CASE UNCHANGED vars
    <2>1. Entry' = Entry /\ RepoTypes'
      BY <1>3, SameRepo DEF vars
    <2> QED BY <1>3, <2>1 DEF vars, EventsTypes, FilesTypes, DiffTypes, ScreenTypes, filesVars,
            diffVars, uiVars
  <1> QED BY <1>1, <1>2, <1>3, WorkerTypes, UITypes DEF Next

------------------------------------------------------------------------------
(* The list. *)

\* A step that brings the channel no news of the list, and takes none from it.
LEMMA ListKept ==
  ASSUME EventsTypes, ListInv, UNCHANGED <<repoVars, owed, filesVars, files>>,
         "files" \in failed' <=> "files" \in failed,
         \/ UNCHANGED events
         \/ /\ events # <<>> /\ events' = Tail(events)
            /\ Head(events) \notin Refreshes \cup Listings
         \/ \E e \in Event \ Listings: events' = Append(events, e)
  PROVE  ListInv'
  <1>1. CountLines' = CountLines /\ Status' = Status /\ Listed' = Listed
    BY SameRepo
  <1>2. /\ Lacks(events', Refreshes) => Lacks(events, Refreshes)
        /\ Lacks(events', Listings) => Lacks(events, Listings)
        /\ \A i \in DOMAIN events': Newest(events', Listings, i) =>
              \E j \in DOMAIN events: Newest(events, Listings, j) /\ events'[i] = events[j]
    <2>1. CASE UNCHANGED events
      BY <2>1
    <2>2. CASE events # <<>> /\ events' = Tail(events) /\ Head(events) \notin Refreshes \cup Listings
      BY <2>2, TailNews DEF EventsTypes
    <2>3. CASE \E e \in Event \ Listings: events' = Append(events, e)
      <3>1. PICK e \in Event \ Listings: events' = Append(events, e)
        BY <2>3
      <3> QED BY <3>1, AppendNews DEF EventsTypes
    <2> QED BY <2>1, <2>2, <2>3
  <1>3. ListBehind => ListBehind'
    BY <1>2 DEF ListBehind, filesVars
  <1>4. ListingCurrent => ListingCurrent'
    BY <1>1 DEF ListingCurrent, filesVars
  <1>5. ListArrives => ListArrives'
    BY <1>1, <1>2 DEF ListArrives, filesVars
  <1> QED BY <1>3, <1>4, <1>5 DEF ListInv

\* Every step keeps what the list is owed.
LEMMA ListStep ==
  ASSUME Types, ListInv, [Next]_vars
  PROVE  ListInv'
  <1> USE DEF Types
  <1>1. CASE Repository
    <2>1. owed' # {}
      BY <1>1 DEF Repository, Edit, Stage, Unstage, Commit, Change
    <2> QED BY <2>1 DEF ListInv, ListBehind
  <1>2. CASE SendRefresh
    <2>1. RefreshEvent(owed) \in Refreshes /\ RefreshEvent(owed) \in Event
      BY Kinds DEF RefreshEvent, Refreshes
    <2>2. ~Lacks(events', Refreshes)
      BY <1>2, <2>1, AppendNews DEF SendRefresh, EventsTypes
    <2> QED BY <2>2 DEF ListInv, ListBehind
  \* The job reads what there is now; the slot is empty then.
  <1>3. CASE StartListing
    <2>1. filesWorking' # None /\ counted' = CountLines /\ statuses' = None
      BY <1>3, ReviewAssumption DEF StartListing, FilesBox!Take, FilesTypes
    <2>2. CountLines' = CountLines
      BY <1>3, SameRepo DEF StartListing
    <2> QED BY <2>1, <2>2 DEF ListInv, ListingCurrent, ListArrives
  <1>4. CASE ReadStatus
    <2>1. CountLines' = CountLines /\ Status' = Status
      BY <1>4, SameRepo DEF ReadStatus
    <2>2. filesWorking' # None /\ counted' = counted /\ statuses' = Status
          /\ (ListBehind' <=> ListBehind)
      BY <1>4 DEF ReadStatus, FilesTypes, ListBehind
    <2> QED BY <2>1, <2>2, <1>4 DEF ListInv, ListingCurrent, ListArrives, ReadStatus
  <1>5. CASE FinishListing
    <2>1. Listed' = Listed
      BY <1>5, SameRepo DEF FinishListing
    <2>2. \A list \in SUBSET File: /\ FilesResponse(list) \in Listings
                                 /\ FilesResponse(list) \in Event
                                 /\ FilesResponse(list) \notin Refreshes
                                 /\ FilesResponse(list).files = list
      <3>1. \A list \in SUBSET File: /\ FilesResponse(list) \in Listings
                                   /\ FilesResponse(list).files = list
        BY DEF FilesResponse, Listings
      <3> QED BY <3>1, Kinds
    <2>3. PICK list \in SUBSET File:
              /\ events' = Append(events, FilesResponse(list))
              /\ "files" \notin failed' => list = Entries(counted, statuses, Len(commits))
      <3>1. Entries(counted, statuses, Len(commits)) \subseteq File
        BY <1>5, EntriesTypes DEF FinishListing, FilesBox!Finish, FilesTypes, Entry
      <3>2. CASE events' = Append(events, FilesResponse(Entries(counted, statuses, Len(commits))))
        BY <3>1, <3>2
      <3>3. CASE "files" \in failed' /\ events' = Append(events, FilesResponse({}))
        BY <3>3
      <3> QED BY <1>5, <3>2, <3>3 DEF FinishListing
    <2>4. /\ Lacks(events', Refreshes) => Lacks(events, Refreshes)
          /\ ~Lacks(events', Listings)
          /\ \A i \in DOMAIN events': Newest(events', Listings, i) => events'[i].files = list
      BY <2>2, <2>3, AppendNews DEF EventsTypes
    <2>5. ListBehind => ListBehind'
      BY <1>5, <2>4 DEF FinishListing, FilesBox!Finish, ListBehind
    <2>6. ASSUME ~ListBehind, "files" \notin failed' PROVE list = Listed
      BY <1>5, <2>3, <2>6 DEF FinishListing, FilesBox!Finish, ListInv, ListingCurrent, Listed
    <2>7. filesWorking' = None
      BY <1>5 DEF FinishListing, FilesBox!Finish
    <2> QED BY <2>1, <2>4, <2>5, <2>6, <2>7 DEF ListInv, ListingCurrent, ListArrives
  <1>6. CASE StartDiff
    BY <1>6, ListKept DEF StartDiff, filesVars, uiVars
  <1>7. CASE FinishDiff
    <2>1. \A x: DiffResponse(diffWorking, x) \notin Listings
      BY DEF DiffResponse, Listings
    <2>2. \E e \in Event: events' = Append(events, e) /\ e \notin Listings
      BY <1>7, <2>1, FinishDiffSends
    <2>3. "files" \in failed' <=> "files" \in failed
      BY <1>7 DEF FinishDiff
    <2> QED BY <1>7, <2>2, <2>3, ListKept DEF FinishDiff, filesVars, uiVars
  <1>8. CASE HandleRefresh
    BY <1>8, ReviewAssumption DEF HandleRefresh, AskForFiles, FilesBox!Put, ListInv, ListBehind
  <1>9. CASE HandleFiles
    <2>1. /\ Head(events) \in Listings /\ Head(events) \notin Refreshes
          /\ files' = Head(events).files /\ events' = Tail(events)
      <3>1. Head(events) \in Event
        BY <1>9, TailNews DEF HandleFiles, EventsTypes
      <3> QED BY <1>9, <3>1, Kinds DEF HandleFiles
    <2>2. Listed' = Listed /\ CountLines' = CountLines /\ Status' = Status
      BY <1>9, SameRepo DEF HandleFiles
    <2>3. /\ Lacks(events', Refreshes) => Lacks(events, Refreshes)
          /\ Lacks(events', Listings) => Newest(events, Listings, 1) /\ 1 \in DOMAIN events
                                         /\ events[1] = Head(events)
          /\ \A i \in DOMAIN events': Newest(events', Listings, i) =>
                \E j \in DOMAIN events: Newest(events, Listings, j) /\ events'[i] = events[j]
      BY <1>9, <2>1, TailNews DEF EventsTypes, HandleFiles
    <2>4. ListBehind => ListBehind'
      BY <1>9, <2>3 DEF ListBehind, HandleFiles, filesVars
    <2>5. ListingCurrent => ListingCurrent'
      BY <1>9, <2>2 DEF ListingCurrent, HandleFiles, filesVars
    <2>6. ListArrives => ListArrives'
      BY <1>9, <2>1, <2>2, <2>3 DEF ListArrives, HandleFiles, filesVars
    <2> QED BY <2>4, <2>5, <2>6 DEF ListInv
  <1>10. CASE HandleDiff
    <2>1. Head(events) \notin Refreshes \cup Listings
      BY <1>10, Kinds DEF HandleDiff
    <2> QED BY <1>10, <2>1, ListKept DEF HandleDiff
  <1>11. CASE Draw
    BY <1>11, ListKept DEF Draw
  <1>12. ASSUME NEW f \in listed, OpenFile(f) PROVE ListInv'
    BY <1>12, ListKept DEF OpenFile
  <1>13. CASE UNCHANGED vars
    BY <1>13, ListKept DEF vars, uiVars
  <1> QED BY <1>1, <1>2, <1>3, <1>4, <1>5, <1>6, <1>7, <1>8, <1>9, <1>10, <1>11, <1>12, <1>13
          DEF Next, Handle

------------------------------------------------------------------------------
(* The viewer. *)

\* A step that brings the channel no news of the opened file and no answer for
\* it, and takes none from it.
LEMMA ViewKept ==
  ASSUME EventsTypes, ViewInv, UNCHANGED <<repoVars, owed, diffVars, opened, content>>,
         "diff" \in failed' <=> "diff" \in failed,
         \/ UNCHANGED events
         \/ /\ events # <<>> /\ events' = Tail(events)
            /\ Head(events) \notin NewsOf(opened) \cup Answers(opened)
         \/ \E e \in Event \ Answers(opened): events' = Append(events, e)
  PROVE  ViewInv'
  <1>1. Before(opened)' = Before(opened) /\ ContentOf(opened)' = ContentOf(opened)
    BY SameRepo DEF ContentOf, Before, After, DiffContent, repoVars
  <1>2. NewsOf(opened)' = NewsOf(opened) /\ Answers(opened)' = Answers(opened)
    BY DEF NewsOf, Answers, Affects
  <1>3. /\ Lacks(events', NewsOf(opened)) => Lacks(events, NewsOf(opened))
        /\ Lacks(events', Answers(opened)) => Lacks(events, Answers(opened))
        /\ \A i \in DOMAIN events': Newest(events', Answers(opened), i) =>
              \E j \in DOMAIN events: Newest(events, Answers(opened), j) /\ events'[i] = events[j]
    <2>1. CASE UNCHANGED events
      BY <2>1
    <2>2. CASE /\ events # <<>> /\ events' = Tail(events)
               /\ Head(events) \notin NewsOf(opened) \cup Answers(opened)
      BY <2>2, TailNews DEF EventsTypes
    <2>3. CASE \E e \in Event \ Answers(opened): events' = Append(events, e)
      <3>1. PICK e \in Event \ Answers(opened): events' = Append(events, e)
        BY <2>3
      <3> QED BY <3>1, AppendNews DEF EventsTypes
    <2> QED BY <2>1, <2>2, <2>3
  <1>4. ViewBehind => ViewBehind'
    BY <1>2, <1>3 DEF ViewBehind, diffVars, Affects
  <1>5. ReadingCurrent => ReadingCurrent'
    BY <1>1 DEF ReadingCurrent, diffVars
  <1>6. ViewArrives => ViewArrives'
    BY <1>1, <1>2, <1>3 DEF ViewArrives, diffVars
  <1>7. AskedForIt => AskedForIt'
    BY DEF AskedForIt, diffVars
  <1> QED BY <1>4, <1>5, <1>6, <1>7 DEF ViewInv

\* A change of the repository: it affects the opened file, and then it is owed
\* news of it, or it leaves both of its sides alone.
LEMMA ViewChange ==
  ASSUME Types, ViewInv, Repository
  PROVE  ViewInv'
  <1>1. UNCHANGED <<events, diffVars, failed, opened, content>> /\ owed \subseteq owed'
    BY DEF Repository, Edit, Stage, Unstage, Commit, Change, uiVars
  <1>2. (opened = None => content = None)' /\ AskedForIt'
    BY <1>1 DEF ViewInv, AskedForIt, diffVars
  <1>3. ASSUME opened # None, ~ViewBehind' PROVE (ReadingCurrent /\ ViewArrives)'
    <2>1. /\ opened \in Entry /\ opened.path \in Paths /\ opened.heading \in Headings
          /\ ~Affects(owed', opened)
      BY <1>1, <1>3 DEF Types, ScreenTypes, Entry, File, ViewBehind, Affects
    <2>2. Before(opened)' = Before(opened) /\ After(opened)' = After(opened)
      <3>1. CASE Commit
        <4>1. commits' = Append(commits, index) /\ UNCHANGED <<index, work>>
          BY <3>1 DEF Commit
        <4>2. \A n \in 1..Len(commits): commits'[n] = commits[n]
          BY <4>1 DEF Types, RepoTypes
        <4> QED BY <1>1, <2>1, <4>1, <4>2 DEF Before, After, Entry, Headings
      <3>2. ASSUME NEW p \in Paths, NEW t \in Texts, Edit(p, t)
            PROVE  Before(opened)' = Before(opened) /\ After(opened)' = After(opened)
        <4>1. "worktree" \in owed' /\ UNCHANGED <<commits, index>>
          BY <3>2 DEF Edit, Change
        <4>2. opened.heading # "Changes"
          BY <2>1, <4>1 DEF Affects
        <4> QED BY <1>1, <4>1, <4>2 DEF Before, After
      <3>3. ASSUME NEW p \in Paths, Stage(p) \/ Unstage(p) PROVE FALSE
        <4>1. "index" \in owed'
          BY <3>3 DEF Stage, Unstage, Change
        <4> QED BY <2>1, <4>1 DEF Affects
      <3> QED BY <3>1, <3>2, <3>3 DEF Repository
    <2>3. ContentOf(opened)' = ContentOf(opened)
      BY <1>1, <2>2 DEF ContentOf, DiffContent, Before, After
    <2>4. ~ViewBehind
      BY <1>1, <1>3 DEF ViewBehind, Affects, NewsOf, diffVars
    <2>5. ReadingCurrent /\ ViewArrives
      BY <1>3, <2>4 DEF ViewInv
    <2> QED BY <1>1, <2>2, <2>3, <2>5 DEF ReadingCurrent, ViewArrives, diffVars, Answers
  <1> QED BY <1>1, <1>2, <1>3 DEF ViewInv

\* Every step keeps what the viewer is owed.
LEMMA ViewStep ==
  ASSUME Types, ViewInv, [Next]_vars
  PROVE  ViewInv'
  <1> USE DEF Types
  <1>1. CASE Repository
    BY <1>1, ViewChange
  \* What is owed is sent, and is on its way then.
  <1>2. CASE SendRefresh
    <2>1. /\ RefreshEvent(owed) \in Refreshes /\ RefreshEvent(owed) \in Event
          /\ RefreshEvent(owed).bits = owed /\ RefreshEvent(owed) \notin Answers(opened)
      <3>1. RefreshEvent(owed) \in Refreshes /\ RefreshEvent(owed).bits = owed
        BY DEF RefreshEvent, Refreshes
      <3> QED BY <3>1, Kinds
    <2>2. UNCHANGED <<repoVars, diffVars, opened, content, failed>>
          /\ events' = Append(events, RefreshEvent(owed))
      BY <1>2 DEF SendRefresh, uiVars
    <2>3. Before(opened)' = Before(opened) /\ ContentOf(opened)' = ContentOf(opened)
      BY <2>2, SameRepo DEF ContentOf, Before, After, DiffContent, repoVars
    <2>4. NewsOf(opened)' = NewsOf(opened) /\ Answers(opened)' = Answers(opened)
      BY <2>2 DEF NewsOf, Answers, Affects
    <2>5. Affects(owed, opened) => RefreshEvent(owed) \in NewsOf(opened)
      BY <2>1 DEF NewsOf
    <2>6. /\ Lacks(events', NewsOf(opened)) => Lacks(events, NewsOf(opened))
                                              /\ RefreshEvent(owed) \notin NewsOf(opened)
          /\ Lacks(events', Answers(opened)) => Lacks(events, Answers(opened))
          /\ \A i \in DOMAIN events': Newest(events', Answers(opened), i) =>
                \E j \in DOMAIN events: Newest(events, Answers(opened), j) /\ events'[i] = events[j]
      BY <2>1, <2>2, AppendNews DEF EventsTypes
    <2>7. ViewBehind => ViewBehind'
      BY <2>2, <2>4, <2>5, <2>6 DEF ViewBehind, diffVars
    <2>8. (ReadingCurrent => ReadingCurrent') /\ (AskedForIt => AskedForIt')
      BY <2>2, <2>3 DEF ReadingCurrent, AskedForIt, diffVars
    <2>9. ViewArrives => ViewArrives'
      BY <2>2, <2>3, <2>4, <2>6 DEF ViewArrives, diffVars
    <2> QED BY <2>2, <2>7, <2>8, <2>9 DEF ViewInv
  <1>3. CASE StartListing
    BY <1>3, ViewKept DEF StartListing, uiVars
  <1>4. CASE ReadStatus
    BY <1>4, ViewKept DEF ReadStatus, uiVars
  <1>5. CASE FinishListing
    <2>1. \A list: FilesResponse(list) \notin Answers(opened)
      BY DEF FilesResponse, Answers
    <2>2. Entries(counted, statuses, Len(commits)) \subseteq File
      BY <1>5, EntriesTypes DEF FinishListing, FilesBox!Finish, FilesTypes, Entry
    <2>3. \A list \in SUBSET File: FilesResponse(list) \in Event
      BY DEF FilesResponse, Listings, Event
    <2>4. \E e \in Event \ Answers(opened): events' = Append(events, e)
      BY <1>5, <2>1, <2>2, <2>3 DEF FinishListing
    <2>5. "diff" \in failed' <=> "diff" \in failed
      BY <1>5 DEF FinishListing
    <2> QED BY <1>5, <2>4, <2>5, ViewKept DEF FinishListing, uiVars
  \* The job reads the original side as it is now.
  <1>6. CASE StartDiff
    <2>1. /\ diffWorking' = diffWaiting /\ diffWaiting' = None /\ diffWaiting # None
          /\ original' = Before(diffWaiting)
          /\ UNCHANGED <<repoVars, opened, content>>
      BY <1>6 DEF StartDiff, DiffBox!Take, uiVars
    <2>2. opened # None => diffWorking' = opened
      BY <2>1 DEF ViewInv, AskedForIt
    <2>3. Before(opened)' = Before(opened)
      BY <2>1, SameRepo DEF Before, repoVars
    <2> QED BY <2>1, <2>2, <2>3 DEF ViewInv, AskedForIt, ReadingCurrent, ViewArrives
  <1>7. CASE FinishDiff
    <2>1. PICK c \in Content \cup {None}:
              /\ events' = Append(events, DiffResponse(diffWorking, c))
              /\ DiffResponse(diffWorking, c) \in Answers(diffWorking) \cap Event
              /\ DiffResponse(diffWorking, c).content = c
              /\ "diff" \notin failed' => c = DiffContent(diffWorking, original, After(diffWorking))
      BY <1>7, FinishDiffSends
    <2>2. /\ diffWorking # None /\ diffWorking' = None /\ diffWaiting' = diffWaiting
          /\ UNCHANGED <<repoVars, owed, opened, content>>
      BY <1>7 DEF FinishDiff, DiffBox!Finish, uiVars
    <2>3. NewsOf(opened)' = NewsOf(opened) /\ Answers(opened)' = Answers(opened)
          /\ ContentOf(opened)' = ContentOf(opened)
      BY <2>2, SameRepo DEF NewsOf, Answers, Affects, ContentOf, Before, After, DiffContent, repoVars
    <2>4. Lacks(events', NewsOf(opened)) => Lacks(events, NewsOf(opened))
      BY <2>1, AppendNews DEF EventsTypes
    <2>5. ViewBehind => ViewBehind'
      BY <2>2, <2>3, <2>4 DEF ViewBehind, Affects
    <2>6. ASSUME opened # None, ~ViewBehind' PROVE ViewArrives'
      <3>1. diffWorking = opened /\ original = Before(opened)
        BY <2>2, <2>5, <2>6 DEF ViewInv, AskedForIt, ReadingCurrent, ViewBehind
      <3>2. /\ ~Lacks(events', Answers(opened))
            /\ \A i \in DOMAIN events':
                  Newest(events', Answers(opened), i) => events'[i].content = c
        BY <2>1, <3>1, AppendNews DEF EventsTypes
      <3>3. "diff" \notin failed' => c = ContentOf(opened)
        BY <2>1, <3>1 DEF ContentOf
      <3> QED BY <2>2, <2>3, <3>2, <3>3 DEF ViewArrives
    <2>7. AskedForIt' /\ ReadingCurrent'
      BY <2>2 DEF ViewInv, AskedForIt, ReadingCurrent
    <2> QED BY <2>2, <2>6, <2>7 DEF ViewInv
  <1>8. CASE HandleRefresh
    <2>1. /\ Head(events) \in Refreshes /\ events # <<>> /\ events' = Tail(events)
          /\ Head(events) \notin Answers(opened)
      <3>1. Head(events) \in Event
        BY <1>8, TailNews DEF HandleRefresh, EventsTypes
      <3> QED BY <1>8, <3>1, Kinds DEF HandleRefresh
    <2>2. CASE opened # None /\ Affects(Head(events).bits, opened)
      <3>1. diffWaiting' = opened /\ diffWorking' = diffWorking /\ UNCHANGED <<opened, content>>
        BY <1>8, <2>2 DEF HandleRefresh, AskForDiff, DiffBox!Put, uiVars
      <3> QED BY <2>2, <3>1 DEF ViewInv, AskedForIt, ViewBehind
    <2>3. CASE opened # None /\ ~Affects(Head(events).bits, opened)
      <3>1. Head(events) \notin NewsOf(opened) \cup Answers(opened)
        BY <2>1, <2>3 DEF NewsOf
      <3> QED BY <1>8, <2>1, <2>3, <3>1, ViewKept DEF HandleRefresh, diffVars, uiVars
    <2>4. CASE opened = None
      BY <1>8, <2>4 DEF HandleRefresh, uiVars, ViewInv, AskedForIt
    <2> QED BY <2>2, <2>3, <2>4
  <1>9. CASE HandleFiles
    <2>1. Head(events) \in Listings
      <3>1. Head(events) \in Event
        BY <1>9, TailNews DEF HandleFiles, EventsTypes
      <3> QED BY <1>9, <3>1, Kinds DEF HandleFiles
    <2>2. Head(events) \notin NewsOf(opened) \cup Answers(opened)
      BY <2>1, Kinds DEF NewsOf
    <2> QED BY <1>9, <2>2, ViewKept DEF HandleFiles
  <1>10. CASE HandleDiff
    <2>1. /\ Head(events) \in Event /\ Head(events).file \in File
          /\ Head(events) \in Answers(Head(events).file) /\ Head(events) \notin Refreshes
          /\ events # <<>> /\ events' = Tail(events)
          /\ UNCHANGED <<repoVars, owed, diffVars, opened, failed>>
      <3>1. Head(events) \in Event
        BY <1>10, TailNews DEF HandleDiff, EventsTypes
      <3> QED BY <1>10, <3>1, Kinds DEF HandleDiff
    <2>2. CASE Head(events).file # opened
      <3>1. Head(events) \notin NewsOf(opened) \cup Answers(opened)
        BY <2>1, <2>2 DEF NewsOf, Answers
      <3>2. content' = content
        BY <1>10, <2>2 DEF HandleDiff
      <3> QED BY <2>1, <3>1, <3>2, ViewKept
    <2>3. CASE Head(events).file = opened
      <3>1. opened # None /\ content' = Head(events).content
        BY <1>10, <2>1, <2>3, ReviewAssumption DEF HandleDiff
      <3>2. NewsOf(opened)' = NewsOf(opened) /\ Answers(opened)' = Answers(opened)
            /\ ContentOf(opened)' = ContentOf(opened) /\ Before(opened)' = Before(opened)
        BY <2>1, SameRepo DEF NewsOf, Answers, Affects, ContentOf, Before, After, DiffContent, repoVars
      <3>3. Head(events) \notin NewsOf(opened)
        BY <2>1 DEF NewsOf
      <3>4. /\ Lacks(events', NewsOf(opened)) => Lacks(events, NewsOf(opened))
            /\ Lacks(events', Answers(opened)) =>
                  /\ Newest(events, Answers(opened), 1) /\ 1 \in DOMAIN events
                  /\ events[1] = Head(events)
            /\ \A i \in DOMAIN events': Newest(events', Answers(opened), i) =>
                  \E j \in DOMAIN events:
                      Newest(events, Answers(opened), j) /\ events'[i] = events[j]
        BY <2>1, <2>3, <3>3, TailNews DEF EventsTypes
      <3>5. ViewBehind => ViewBehind'
        BY <2>1, <3>2, <3>4 DEF ViewBehind, diffVars, Affects
      <3>6. (ReadingCurrent => ReadingCurrent') /\ (AskedForIt => AskedForIt')
        BY <2>1, <3>2 DEF ReadingCurrent, AskedForIt, diffVars
      <3>7. ViewArrives => ViewArrives'
        BY <2>1, <3>1, <3>2, <3>4 DEF ViewArrives, diffVars
      <3> QED BY <2>1, <3>1, <3>5, <3>6, <3>7 DEF ViewInv
    <2> QED BY <2>2, <2>3
  <1>11. CASE Draw
    <2>1. CASE selected # None /\ selected # opened
      <3>1. diffWaiting' = selected /\ opened' = selected /\ content' = content
        BY <1>11, <2>1 DEF Draw, AskForDiff, DiffBox!Put
      <3> QED BY <2>1, <3>1 DEF ViewInv, AskedForIt, ViewBehind
    <2>2. CASE selected = None
      BY <1>11, <2>2 DEF Draw, ViewInv, AskedForIt
    <2>3. CASE selected # None /\ selected = opened
      BY <1>11, <2>3, ViewKept DEF Draw, diffVars
    <2> QED BY <2>1, <2>2, <2>3
  <1>12. ASSUME NEW f \in listed, OpenFile(f) PROVE ViewInv'
    BY <1>12, ViewKept DEF OpenFile
  <1>13. CASE UNCHANGED vars
    BY <1>13, ViewKept DEF vars, uiVars
  <1> QED BY <1>1, <1>2, <1>3, <1>4, <1>5, <1>6, <1>7, <1>8, <1>9, <1>10, <1>11, <1>12, <1>13
          DEF Next, Handle

------------------------------------------------------------------------------

\* The first drawing has asked for the list, and nothing is opened.
\* A new list takes the selected file's entry from itself, and a key its file
\* from the list that is drawn.
LEMMA SelectionStep ==
  ASSUME SelectedIsListed, [Next]_vars
  PROVE  SelectedIsListed'
  <1>1. CASE HandleFiles
    BY <1>1, MatchingTypes DEF HandleFiles, SelectedIsListed
  <1>2. ASSUME NEW f \in listed, OpenFile(f) PROVE SelectedIsListed'
    BY <1>2 DEF OpenFile, SelectedIsListed
  <1>3. SUFFICES ASSUME ~HandleFiles, \A f \in listed: ~OpenFile(f)
                 PROVE  UNCHANGED <<files, selected, behind>>
    BY <1>1, <1>2 DEF SelectedIsListed
  <1>4. CASE Repository
    BY <1>4 DEF Repository, Edit, Stage, Unstage, Commit, Change, uiVars
  <1>5. CASE SendRefresh \/ StartListing \/ ReadStatus \/ FinishListing \/ StartDiff \/ FinishDiff
    BY <1>5 DEF SendRefresh, StartListing, ReadStatus, FinishListing, StartDiff, FinishDiff, uiVars
  <1>6. CASE HandleRefresh \/ HandleDiff \/ Draw
    BY <1>6 DEF HandleRefresh, HandleDiff, Draw, uiVars
  <1>7. CASE UNCHANGED vars
    BY <1>7 DEF vars, uiVars
  <1> QED BY <1>3, <1>4, <1>5, <1>6, <1>7 DEF Next, Handle

LEMMA InitIInv == Init => IInv
  <1> SUFFICES ASSUME Init PROVE IInv
    OBVIOUS
  <1> USE ReviewAssumption DEF Init
  <1>1. RepoTypes
    BY DEF RepoTypes
  <1>2. EventsTypes /\ FilesTypes /\ DiffTypes /\ ScreenTypes
    <2>1. EventsTypes
      BY DEF EventsTypes
    <2>2. FilesTypes /\ DiffTypes
      BY DEF FilesTypes, DiffTypes
    <2>3. ScreenTypes
      BY DEF ScreenTypes
    <2> QED BY <2>1, <2>2, <2>3
  <1>3. ListInv /\ ViewInv /\ SelectedIsListed
    BY DEF ListInv, ViewInv, ListBehind, AskedForIt, SelectedIsListed
  <1> QED BY <1>1, <1>2, <1>3 DEF IInv, Types

\* IInv holds throughout.
LEMMA Inductive == Spec => []IInv
  <1>1. IInv /\ [Next]_vars => IInv'
    BY TypesStep, ListStep, ViewStep, SelectionStep DEF IInv
  <1> QED BY <1>1, InitIInv, PTL DEF Spec

\* Whatever the bounds, texts and counts: once every change has been told,
\* asked about, answered and drawn, the explorer lists what Git would list now,
\* unless its last listing failed; and no variable leaves its type (list.rs,
\* files/worker.rs, explorer/mod.rs).
THEOREM ListIsFresh == Spec => []ListFresh
  <1>1. ASSUME IInv PROVE TypeOK
    <2>1. Entry \subseteq File
      BY DEF Entry
    <2>2. \A e \in Event: e.kind \in {"refresh", "files", "diff"}
      BY DEF Event, Refreshes, Listings, Answers
    <2>3. \A i \in DOMAIN events: events[i] \in Event
      BY <1>1 DEF IInv, Types, EventsTypes
    <2>4. commits \in Seq([Paths -> Texts]) /\ index \in [Paths -> Texts] /\ work \in [Paths -> Texts]
      BY <1>1 DEF IInv, Types, RepoTypes
    <2>5. /\ diffWaiting \in File \cup {None} /\ diffWorking \in File \cup {None}
          /\ diffWorking = None <=> original = None
      BY <1>1, <2>1 DEF IInv, Types, DiffTypes
    <2>6. /\ files \subseteq File /\ listed \subseteq File
          /\ selected \in File \cup {None} /\ opened \in File \cup {None}
          /\ content \in Content \cup {None}
          /\ behind \in BOOLEAN
      BY <1>1, <2>1 DEF IInv, Types, ScreenTypes
    <2> QED BY <1>1, <2>2, <2>3, <2>4, <2>5, <2>6 DEF IInv, Types, TypeOK, FilesTypes
  <1>2. ASSUME IInv, AtRest, "files" \notin failed
        PROVE  files = Entries(CountLines, Status, Len(commits))
    BY <1>2 DEF AtRest, IInv, ListInv, ListBehind, ListArrives, Listed, Lacks
  <1>3. IInv => ListFresh
    BY <1>1, <1>2 DEF ListFresh
  <1> QED BY <1>3, Inductive, PTL

\* And the selected file is an entry of that list, unless it was opened from the
\* list before it was drawn; the viewer shows both its sides as they are now,
\* unless its last reading failed, or nothing if none is selected
\* (explorer/mod.rs, diff_viewer.rs, diff/worker.rs, contents.rs).
THEOREM ViewIsFresh == Spec => []ViewFresh
  <1>1. ASSUME IInv, AtRest PROVE selected = None => content = None
    BY <1>1 DEF AtRest, IInv, ViewInv
  <1>2. ASSUME IInv, AtRest, selected # None, "diff" \notin failed
        PROVE  content = ContentOf(selected)
    <2>1. ~ViewBehind
      <3>1. /\ owed = {} /\ diffWaiting = None
            /\ \A i \in DOMAIN events: FALSE
        BY <1>2 DEF AtRest
      <3>2. ~Affects(owed, opened)
        BY <3>1 DEF Affects
      <3> QED BY <3>1, <3>2 DEF ViewBehind, Lacks
    <2> QED BY <1>2, <2>1 DEF AtRest, IInv, ViewInv, ViewArrives, Lacks
  <1>3. IInv => ViewFresh
    BY <1>1, <1>2 DEF ViewFresh, ContentOf, IInv, SelectedIsListed
  <1> QED BY <1>3, Inductive, PTL

------------------------------------------------------------------------------
(* The slot of each worker, for every set of requests: it never loses a     *)
(* wakeup, the busy flag never denies work in progress, the worker always   *)
(* takes the newest request, and the slot implements the mailbox.           *)
(*                                                                          *)
(* NoLostWakeup alone is not inductive: the step into the condition         *)
(* variable needs that the slot is still empty, which holds because the     *)
(* worker has kept the value mutex since it looked.  LockKeepsValue says    *)
(* so, and WaitingIsNewest ties the stored value to the history.            *)

\* What the worker saw under the value mutex stays true while it holds it.
LockKeepsValue ==
    /\ worker \in {"lower", "doze", "leave"} => value = Empty
    /\ worker = "take" => value # Empty

WaitingIsNewest == value # Empty => value = newest

SlotInv ==
    /\ SlotTypeOK
    /\ LockKeepsValue
    /\ WaitingIsNewest
    /\ NoLostWakeup
    /\ BusyWhileWork

------------------------------------------------------------------------------
\* The slot starts empty and idle, which satisfies every part of SlotInv.
LEMMA InitSlotInv == SlotInit => SlotInv
  BY SlotAssumption DEF SlotInit, SlotInv, SlotTypeOK, LockKeepsValue, WaitingIsNewest, NoLostWakeup,
     BusyWhileWork, CallerAt, WorkerAt

\* The caller's steps keep SlotInv: put stores its value only while the worker
\* does not hold the mutex, and stays responsible for a sleeping worker until
\* it has notified it.
LEMMA CallerKeepsInv == ASSUME SlotInv, CallerNext PROVE SlotInv'
  <1> USE SlotAssumption DEF SlotInv, SlotTypeOK, LockKeepsValue, WaitingIsNewest, NoLostWakeup,
                             BusyWhileWork, CallerAt, WorkerAt
  <1>1. ASSUME NEW r \in Requests, PutValue(r) PROVE SlotInv'
    BY <1>1 DEF PutValue, HoldsLock
  <1>2. CASE PutBusy
    BY <1>2 DEF PutBusy
  <1>3. CASE PutNotify
    BY <1>3 DEF PutNotify
  <1>4. CASE DropSlot
    BY <1>4 DEF DropSlot
  <1>5. QED
    BY <1>1, <1>2, <1>3, <1>4 DEF CallerNext

\* The worker's steps keep SlotInv.
LEMMA WorkerKeepsInv == ASSUME SlotInv, WorkerStep \/ WakeSpuriously \/ CloseReceiver PROVE SlotInv'
  <1> USE SlotAssumption DEF SlotInv, SlotTypeOK, LockKeepsValue, WaitingIsNewest, NoLostWakeup,
                             BusyWhileWork, CallerAt, WorkerAt
  <1>1. CASE Lock
    BY <1>1 DEF Lock
  <1>2. CASE Check
    BY <1>2 DEF Check
  <1>3. CASE Lower
    BY <1>3 DEF Lower
  <1>4. CASE Sleep
    BY <1>4 DEF Sleep
  <1>5. CASE TakeItem
    BY <1>5 DEF TakeItem
  <1>6. CASE RunJob
    BY <1>6 DEF RunJob
  <1>7. CASE Exit
    BY <1>7 DEF Exit
  <1>8. CASE WakeSpuriously
    BY <1>8 DEF WakeSpuriously
  <1>9. CASE CloseReceiver
    BY <1>9 DEF CloseReceiver
  <1>10. QED
    BY <1>1, <1>2, <1>3, <1>4, <1>5, <1>6, <1>7, <1>8, <1>9 DEF WorkerStep

\* Every step of either thread, and of the receiver going away, keeps SlotInv.
LEMMA StepKeepsInv == ASSUME SlotInv, [SlotNext]_slotVars PROVE SlotInv'
  <1>1. CASE SlotNext
    BY <1>1, CallerKeepsInv, WorkerKeepsInv DEF SlotNext
  <1>2. CASE UNCHANGED slotVars
    BY <1>2 DEF slotVars, SlotInv, SlotTypeOK, LockKeepsValue, WaitingIsNewest, NoLostWakeup,
       BusyWhileWork
  <1>3. QED
    BY <1>1, <1>2

\* SlotInv holds throughout: the two threads never meet a slot that the mutex
\* should have kept from them.
THEOREM SlotInvHolds == SlotSpec => []SlotInv
  BY InitSlotInv, StepKeepsInv, PTL DEF SlotSpec

------------------------------------------------------------------------------
\* Every variable keeps its type and the worker never runs an empty request:
\* `take().unwrap()` in slot.rs never panics.
THEOREM TypeCorrect == SlotSpec => []SlotTypeOK
  <1>1. SlotInv => SlotTypeOK
    BY DEF SlotInv
  <1>2. QED
    BY <1>1, SlotInvHolds, PTL

\* A worker asleep on a waiting request is about to be notified.
THEOREM WakeupNotLost == SlotSpec => []NoLostWakeup
  <1>1. SlotInv => NoLostWakeup
    BY DEF SlotInv
  <1>2. QED
    BY <1>1, SlotInvHolds, PTL

\* is_busy is up from the end of put to the end of the job.
THEOREM BusyDuringWork == SlotSpec => []BusyWhileWork
  <1>1. SlotInv => BusyWhileWork
    BY DEF SlotInv
  <1>2. QED
    BY <1>1, SlotInvHolds, PTL

\* Only the newest request is ever taken.
THEOREM NewestWins == SlotSpec => TakesNewest
  <1>1. ASSUME SlotInv, [SlotNext]_slotVars
        PROVE  [item' # item /\ item' # Empty => item' = newest]_slotVars
    <2>1. CASE TakeItem
      BY <1>1, <2>1 DEF TakeItem, SlotInv, LockKeepsValue, WaitingIsNewest
    <2>2. CASE RunJob
      BY <2>2 DEF RunJob
    <2>3. CASE UNCHANGED item
      BY <2>3
    <2>4. QED
      BY <1>1, <2>1, <2>2, <2>3
         DEF SlotNext, CallerNext, WorkerStep, CloseReceiver, WakeSpuriously, PutValue, PutBusy,
             PutNotify, DropSlot, Lock, Check, Lower, Sleep, Exit, slotVars
  <1>2. QED
    BY <1>1, SlotInvHolds, PTL DEF SlotSpec, TakesNewest

------------------------------------------------------------------------------
\* The slot implements the mailbox's safety: storing the value is Put, taking
\* it is Take, the end of the job is Finish, and a worker that finds itself
\* alone with an empty slot Leaves.  Every other step is invisible.
THEOREM SlotImplementsMailbox == SlotSpec => ImplementsMailbox
  <1>1. SlotInit => Abstract!MailboxInit
    BY DEF SlotInit, Abstract!MailboxInit
  <1>2. ASSUME SlotInv, [SlotNext]_slotVars
        PROVE  [Abstract!MailboxNext]_(Abstract!mailboxVars)
    <2> USE DEF Abstract!MailboxNext, Abstract!mailboxVars
    <2>1. ASSUME NEW r \in Requests, PutValue(r)
          PROVE  Abstract!MailboxNext
      BY <2>1 DEF PutValue, Abstract!Put
    <2>2. CASE TakeItem
      <3>1. item = Empty
        BY <1>2, <2>2 DEF SlotInv, SlotTypeOK, TakeItem
      <3>2. value # Empty
        BY <1>2, <2>2 DEF SlotInv, LockKeepsValue, TakeItem
      <3>3. Abstract!Take
        BY <2>2, <3>1, <3>2 DEF TakeItem, Abstract!Take
      <3>4. QED
        BY <3>3
    <2>3. CASE RunJob
      <3>1. item # Empty
        BY <1>2, <2>3 DEF SlotInv, SlotTypeOK, RunJob
      <3>2. Abstract!Finish
        BY <2>3, <3>1 DEF RunJob, Abstract!Finish
      <3>3. QED
        BY <3>2
    <2>4. CASE Exit
      <3>1. CASE worker = "leave"
        <4>1. item = Empty /\ value = Empty
          BY <1>2, <3>1 DEF SlotInv, SlotTypeOK, LockKeepsValue
        <4>2. Abstract!Leave
          BY <2>4, <3>1, <4>1 DEF Exit, Abstract!Leave
        <4>3. QED
          BY <4>2
      <3>2. CASE worker = "fail"
        BY <2>4, <3>2 DEF Exit
      <3>3. QED
        BY <2>4, <3>1, <3>2 DEF Exit
    <2>5. CASE PutBusy \/ DropSlot \/ CloseReceiver
      BY <2>5 DEF PutBusy, DropSlot, CloseReceiver
    <2>6. CASE PutNotify
      BY <2>6 DEF PutNotify
    <2>7. CASE Lock \/ Lower \/ Sleep \/ WakeSpuriously
      BY <2>7 DEF Lock, Lower, Sleep, WakeSpuriously
    <2>8. CASE Check
      BY <2>8 DEF Check
    <2>9. CASE UNCHANGED slotVars
      BY <2>9 DEF slotVars
    <2>10. QED
      BY <1>2, <2>1, <2>2, <2>3, <2>4, <2>5, <2>6, <2>7, <2>8, <2>9
         DEF SlotNext, CallerNext, WorkerStep
  <1>3. QED
    BY <1>1, <1>2, SlotInvHolds, PTL DEF SlotSpec, ImplementsMailbox, Abstract!MailboxSpec
===============================================================================
