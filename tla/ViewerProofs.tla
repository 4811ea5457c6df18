----------------------------- MODULE ViewerProofs -----------------------------
(***************************************************************************)
(* For any files, whatever is read of them, any sizes and any moves: every *)
(* drawing of the viewer comes to rest, a file is shown again where it was *)
(* left, and what is shown of it is all of its text, once.                 *)
(*                                                                         *)
(* The first is a claim about the round that ends a drawing.  It asks for  *)
(* no other one because of what DrawingInv says of those before it: what   *)
(* is written and not drawn yet is the size of the node, in the first      *)
(* round, and an offset, and the metrics are those of the layout from the  *)
(* second round on.  The second needs that what is saved for a file is     *)
(* where it was left (LeftInv), that the offset written leads to the place *)
(* wanted (PlaceInv), and that the row found for a place shows it, which   *)
(* is what the rows are made for: the lemmas in front follow them from the *)
(* text that is read over its lines, the changes between two texts, the    *)
(* lines of a layout and the fragments of a line (RowsOfLayouts).  Of the  *)
(* third they say that a layout reads each byte once (LayoutReads); that   *)
(* the layout kept is the one of the hooks is KeptInv.                     *)
(***************************************************************************)
EXTENDS Viewer, WellFoundedInduction, FiniteSetTheorems, SequenceTheorems, TLAPS

--------------------------------------------------------------------------------
(* Induction, sequences and least members *)

\* A set of natural numbers has a least member.
LEMMA LeastMember ==
    ASSUME NEW S \in SUBSET Nat, S # {}
    PROVE  \E x \in S : \A y \in S : ~(y < x)
<1> DEFINE R == {ss \in Nat \X Nat : ss[1] < ss[2]}
<1>1. R = OpToRel(<, Nat)
  BY DEF OpToRel
<1>2. IsWellFoundedOn(R, Nat)
  BY <1>1, NatLessThanWellFounded
<1>3. \A x, y \in Nat : <<y, x>> \in R <=> y < x
  OBVIOUS
<1> HIDE DEF R
<1>4. \E x \in S : \A y \in S : ~(<<y, x>> \in R)
  BY <1>2, WFMin
<1> QED BY <1>3, <1>4

\* Induction over the natural numbers, for a set that is given: {n \in Nat : ...}.
LEMMA Induction ==
    ASSUME NEW S, 0 \in S, \A n \in Nat : n \in S => n + 1 \in S
    PROVE  Nat \subseteq S
<1>1. SUFFICES ASSUME Nat \ S # {} PROVE FALSE
  OBVIOUS
<1>2. PICK x \in Nat \ S : \A y \in Nat \ S : ~(y < x)
  BY <1>1, LeastMember
<1>3. x # 0 /\ x - 1 \in Nat
  BY <1>2
<1>4. x - 1 \in S
  BY <1>2, <1>3
<1> QED BY <1>2, <1>3, <1>4

\* Up to some number.
LEMMA InductionUpTo ==
    ASSUME NEW N \in Nat, NEW S, 0 \in S, \A n \in 0 .. N - 1 : n \in S => n + 1 \in S
    PROVE  0 .. N \subseteq S
<1> DEFINE T == {n \in Nat : n <= N => n \in S}
<1>1. 0 \in T
  OBVIOUS
<1>2. \A n \in Nat : n \in T => n + 1 \in T
  <2> SUFFICES ASSUME NEW n \in Nat, n <= N => n \in S, n + 1 <= N PROVE n + 1 \in S
    OBVIOUS
  <2>1. n \in 0 .. N - 1 /\ n \in S
    OBVIOUS
  <2> QED BY <2>1
<1> HIDE DEF T
<1>3. Nat \subseteq T
  BY <1>1, <1>2, Induction
<1> QED BY <1>3 DEF T

LEMMA MinIsLeast ==
    ASSUME NEW S \in SUBSET Nat, S # {}
    PROVE  Min(S) \in S /\ \A y \in S : Min(S) <= y
<1>1. PICK x \in S : \A y \in S : ~(y < x)
  BY LeastMember
<1>2. \A y \in S : x <= y
  BY <1>1
<1> QED BY <1>2 DEF Min

LEMMA MaxIsGreatest ==
    ASSUME NEW N \in Nat, NEW S \in SUBSET (0 .. N), S # {}
    PROVE  Max(S) \in S /\ \A y \in S : y <= Max(S)
<1> DEFINE T == {N - y : y \in S}
<1>1. T \in SUBSET Nat /\ T # {}
  <2>1. PICK y \in S : TRUE
    OBVIOUS
  <2>2. N - y \in T
    OBVIOUS
  <2>3. \A t \in T : t \in Nat
    OBVIOUS
  <2> QED BY <2>2, <2>3
<1>2. PICK x \in T : \A y \in T : ~(y < x)
  BY <1>1, LeastMember
<1>3. PICK z \in S : x = N - z
  BY <1>2
<1>4. ASSUME NEW y \in S PROVE z >= y
  <2>1. N - y \in T
    OBVIOUS
  <2>2. ~(N - y < N - z)
    BY <1>2, <1>3, <2>1
  <2>3. y \in 0 .. N /\ z \in 0 .. N
    OBVIOUS
  <2> QED BY <2>2, <2>3
<1> QED BY <1>4 DEF Max

\* What FlattenSeq joins, as a function.
JoinsUp(f, seqs, m) ==
    f = [i \in 1 .. m |-> IF i = 1 THEN seqs[i] ELSE f[i - 1] \o seqs[i]]

LEMMA JoinsUpExists ==
    ASSUME NEW seqs, NEW m \in Nat
    PROVE  \E f : JoinsUp(f, seqs, m)
<1> DEFINE S == {k \in Nat : \E f : JoinsUp(f, seqs, k)}
<1>1. 0 \in S
  <2>1. JoinsUp([i \in 1 .. 0 |-> <<>>], seqs, 0)
    BY DEF JoinsUp
  <2> QED BY <2>1
<1>2. ASSUME NEW k \in Nat, k \in S PROVE k + 1 \in S
  <2>1. PICK f : JoinsUp(f, seqs, k)
    BY <1>2
  <2> DEFINE g == [i \in 1 .. (k + 1) |-> IF i \in 1 .. k THEN f[i]
                                          ELSE IF i = 1 THEN seqs[i] ELSE f[i - 1] \o seqs[i]]
  <2>2. \A i \in 1 .. k : f[i] = IF i = 1 THEN seqs[i] ELSE f[i - 1] \o seqs[i]
    BY <2>1 DEF JoinsUp
  <2>3. \A i \in 1 .. (k + 1) : i # 1 => i - 1 \in 1 .. k
    OBVIOUS
  <2>4. \A i \in 1 .. (k + 1) : g[i] = IF i = 1 THEN seqs[i] ELSE g[i - 1] \o seqs[i]
    BY <2>2, <2>3
  <2>5. g = [i \in 1 .. (k + 1) |-> g[i]]
    OBVIOUS
  <2> HIDE DEF g
  <2>6. JoinsUp(g, seqs, k + 1)
    BY <2>4, <2>5 DEF JoinsUp
  <2> QED BY <2>6
<1>3. Nat \subseteq S
  <2> HIDE DEF S
  <2> QED BY <1>1, <1>2, Induction
<1> QED BY <1>3

\* Induction over what FlattenSeq joins: <<n, s>> for the first n sequences.
LEMMA FlattenInduction ==
    ASSUME NEW T, NEW seqs \in Seq(Seq(T)), NEW P, <<0, <<>>>> \in P,
           \A n \in 0 .. Len(seqs) - 1 : \A s \in Seq(T) :
               <<n, s>> \in P => <<n + 1, s \o seqs[n + 1]>> \in P
    PROVE  FlattenSeq(seqs) \in Seq(T) /\ <<Len(seqs), FlattenSeq(seqs)>> \in P
<1>1. CASE seqs = <<>>
  <2>1. FlattenSeq(seqs) = <<>> /\ Len(seqs) = 0
    BY <1>1 DEF FlattenSeq
  <2> QED BY <2>1
<1>2. CASE seqs # <<>>
  <2> DEFINE m == Len(seqs)
             f == CHOOSE f : JoinsUp(f, seqs, m)
  <2>1. m \in Nat /\ m # 0
    BY <1>2
  <2>2. JoinsUp(f, seqs, m)
    BY <2>1, JoinsUpExists
  <2>3. FlattenSeq(seqs) = f[m]
    BY <2>1 DEF FlattenSeq, JoinsUp
  <2> HIDE DEF f
  <2>4. \A i \in 1 .. m : f[i] = IF i = 1 THEN seqs[i] ELSE f[i - 1] \o seqs[i]
    BY <2>2 DEF JoinsUp
  <2>5. \A i \in 1 .. m : seqs[i] \in Seq(T)
    OBVIOUS
  <2>6. \A n \in 0 .. m - 1 : \A s \in Seq(T) :
            <<n, s>> \in P => <<n + 1, s \o seqs[n + 1]>> \in P
    OBVIOUS
  <2> HIDE DEF m
  <2> DEFINE S == {n \in Nat : n # 0 => f[n] \in Seq(T) /\ <<n, f[n]>> \in P}
  <2>7. 0 \in S
    OBVIOUS
  <2>8. ASSUME NEW n \in 0 .. m - 1, n \in S PROVE n + 1 \in S
    <3> DEFINE before == IF n = 0 THEN <<>> ELSE f[n]
    <3>1. n + 1 \in 1 .. m /\ (n + 1) - 1 = n /\ n \in Nat
      BY <2>1
    <3>2. before \in Seq(T) /\ <<n, before>> \in P
      <4>1. CASE n = 0
        BY <4>1
      <4>2. CASE n # 0
        BY <2>8, <4>2
      <4> QED BY <4>1, <4>2
    <3>3. seqs[n + 1] \in Seq(T)
      BY <2>5, <3>1
    <3>4. f[n + 1] = before \o seqs[n + 1]
      <4>1. CASE n = 0
        <5>1. <<>> \o seqs[n + 1] = seqs[n + 1]
          BY <3>3
        <5> QED BY <2>4, <3>1, <4>1, <5>1
      <4>2. CASE n # 0
        <5>1. before = f[n] /\ n + 1 # 1
          BY <3>1, <4>2
        <5>2. f[n + 1] = IF n + 1 = 1 THEN seqs[n + 1] ELSE f[(n + 1) - 1] \o seqs[n + 1]
          BY <2>4, <3>1
        <5> HIDE DEF before
        <5> QED BY <3>1, <5>1, <5>2
      <4> QED BY <4>1, <4>2
    <3> HIDE DEF before
    <3>5. before \o seqs[n + 1] \in Seq(T)
      BY <3>2, <3>3
    <3>6. <<n + 1, before \o seqs[n + 1]>> \in P
      BY <2>6, <3>2
    <3>7. f[n + 1] \in Seq(T) /\ <<n + 1, f[n + 1]>> \in P
      BY <3>4, <3>5, <3>6
    <3>8. n + 1 \in Nat
      BY <3>1
    <3> HIDE DEF m, f
    <3> QED BY <3>7, <3>8
  <2> HIDE DEF S
  <2>9. 0 .. m \subseteq S
    BY <2>1, <2>7, <2>8, InductionUpTo
  <2>10. m \in S
    BY <2>1, <2>9
  <2>11. f[m] \in Seq(T) /\ <<m, f[m]>> \in P
    <3>1. m # 0 => f[m] \in Seq(T) /\ <<m, f[m]>> \in P
      BY <2>10 DEF S
    <3> QED BY <2>1, <3>1
  <2>12. m = Len(seqs)
    BY DEF m
  <2> QED BY ONLY <2>3, <2>11, <2>12
<1> QED BY <1>1, <1>2

LEMMA FlattenSeqIsSeq ==
    ASSUME NEW T, NEW seqs \in Seq(Seq(T))
    PROVE  FlattenSeq(seqs) \in Seq(T)
<1> DEFINE P == Nat \X Seq(T)
<1>1. <<0, <<>>>> \in P
  <2>1. 0 \in Nat /\ <<>> \in Seq(T)
    OBVIOUS
  <2> QED BY <2>1, Zenon
<1>2. ASSUME NEW n \in 0 .. Len(seqs) - 1, NEW s \in Seq(T)
      PROVE  <<n + 1, s \o seqs[n + 1]>> \in P
  <2>1. n + 1 \in 1 .. Len(seqs) /\ n + 1 \in Nat
    OBVIOUS
  <2>2. seqs[n + 1] \in Seq(T)
    BY <2>1
  <2>3. s \o seqs[n + 1] \in Seq(T)
    BY <2>2
  <2> QED BY <2>1, <2>3
<1> HIDE DEF P
<1> QED BY <1>1, <1>2, FlattenInduction

--------------------------------------------------------------------------------
(* Positions in a line *)

Clusters == {c \in Seq(DOMAIN Characters) : c # <<>>}
CodeLines == Seq(Clusters)
Positions == [byte : Nat, utf16 : Nat, cell : Nat]

\* What Sum_ adds up, as a function.
AddsUp(f, numbers, m) ==
    f = [n \in 0 .. m |-> IF n = 0 THEN 0 ELSE f[n - 1] + numbers[n]]

LEMMA AddsUpExists ==
    ASSUME NEW numbers, NEW m \in Nat
    PROVE  \E f : AddsUp(f, numbers, m)
<1> DEFINE S == {k \in Nat : \E f : AddsUp(f, numbers, k)}
<1>1. 0 \in S
  <2>1. AddsUp([n \in 0 .. 0 |-> 0], numbers, 0)
    BY DEF AddsUp
  <2> QED BY <2>1
<1>2. ASSUME NEW k \in Nat, k \in S PROVE k + 1 \in S
  <2>1. PICK f : AddsUp(f, numbers, k)
    BY <1>2
  <2> DEFINE g == [n \in 0 .. (k + 1) |-> IF n \in 0 .. k THEN f[n] ELSE f[n - 1] + numbers[n]]
  <2>2. \A n \in 0 .. k : f[n] = IF n = 0 THEN 0 ELSE f[n - 1] + numbers[n]
    BY <2>1 DEF AddsUp
  <2>3. \A n \in 0 .. (k + 1) : n # 0 => n - 1 \in 0 .. k
    OBVIOUS
  <2>4. \A n \in 0 .. (k + 1) : g[n] = IF n = 0 THEN 0 ELSE g[n - 1] + numbers[n]
    BY <2>2, <2>3
  <2>5. g = [n \in 0 .. (k + 1) |-> g[n]]
    OBVIOUS
  <2> HIDE DEF g
  <2>6. AddsUp(g, numbers, k + 1)
    BY <2>4, <2>5 DEF AddsUp
  <2> QED BY <2>6
<1>3. Nat \subseteq S
  <2> HIDE DEF S
  <2> QED BY <1>1, <1>2, Induction
<1> QED BY <1>3

\* A sum is no less than the last number that is added.
LEMMA SumIsNat ==
    ASSUME NEW numbers \in Seq(Nat)
    PROVE  /\ Sum_(numbers) \in Nat
           /\ numbers # <<>> => Sum_(numbers) >= numbers[Len(numbers)]
<1> DEFINE m == Len(numbers)
           f == CHOOSE f : AddsUp(f, numbers, m)
<1>1. m \in Nat /\ AddsUp(f, numbers, m)
  BY AddsUpExists
<1>2. Sum_(numbers) = f[m]
  BY DEF Sum_, AddsUp
<1> HIDE DEF f
<1>3. \A n \in 0 .. m : f[n] = IF n = 0 THEN 0 ELSE f[n - 1] + numbers[n]
  BY <1>1 DEF AddsUp
<1>4. \A n \in 1 .. m : numbers[n] \in Nat
  OBVIOUS
<1> HIDE DEF m
<1> DEFINE S == {n \in Nat : f[n] \in Nat}
<1>5. 0 \in S
  BY <1>1, <1>3
<1>6. ASSUME NEW n \in 0 .. m - 1, n \in S PROVE n + 1 \in S
  <2>1. n + 1 \in 1 .. m /\ (n + 1) - 1 = n /\ n + 1 # 0
    BY <1>1
  <2>2. f[n + 1] = f[n] + numbers[n + 1] /\ f[n] \in Nat /\ numbers[n + 1] \in Nat
    BY <1>3, <1>4, <1>6, <2>1
  <2> QED BY <2>2
<1> HIDE DEF S
<1>7. 0 .. m \subseteq S
  BY <1>1, <1>5, <1>6, InductionUpTo
<1>8. ASSUME numbers # <<>> PROVE f[m] >= numbers[m]
  <2>1. m \in 1 .. m /\ m - 1 \in 0 .. m
    BY <1>1, <1>8 DEF m
  <2>2. f[m] = f[m - 1] + numbers[m] /\ f[m - 1] \in Nat /\ numbers[m] \in Nat
    BY <1>3, <1>4, <1>7, <2>1 DEF S
  <2> QED BY <2>2
<1> QED BY <1>1, <1>2, <1>7, <1>8 DEF S, m

\* A cluster has bytes.
LEMMA BytesOfCluster ==
    ASSUME NEW c \in Clusters
    PROVE  Bytes(c) \in Nat \ {0} /\ Units(c) \in Nat /\ \A cell \in Nat : WidthAt(c, cell) \in Nat
<1>1. \A k \in DOMAIN Characters :
          Characters[k].utf8 \in Nat \ {0} /\ Characters[k].utf16 \in Nat /\ Characters[k].cells \in Nat
  BY DEF Characters
<1>2. c \in Seq(DOMAIN Characters) /\ c # <<>>
  BY DEF Clusters
<1>3. \A i \in DOMAIN c : c[i] \in DOMAIN Characters
  BY <1>2
<1> DEFINE u8 == [i \in DOMAIN c |-> Characters[c[i]].utf8]
           u16 == [i \in DOMAIN c |-> Characters[c[i]].utf16]
           cells == [i \in DOMAIN c |-> Characters[c[i]].cells]
<1>4. u8 \in Seq(Nat) /\ u16 \in Seq(Nat) /\ cells \in Seq(Nat) /\ Len(u8) = Len(c) /\ Len(c) # 0
  <2>1. DOMAIN c = 1 .. Len(c) /\ Len(c) \in Nat /\ Len(c) # 0
    BY <1>2
  <2>2. \A i \in 1 .. Len(c) : u8[i] \in Nat /\ u16[i] \in Nat /\ cells[i] \in Nat
    BY <1>1, <1>3, <2>1
  <2> QED BY <2>1, <2>2
<1>5. u8 # <<>> /\ u8[Len(u8)] \in Nat \ {0}
  BY <1>1, <1>2, <1>3, <1>4
<1>6. Bytes(c) \in Nat \ {0} /\ Units(c) \in Nat
  <2> HIDE DEF u8, u16
  <2>1. Sum_(u8) \in Nat \ {0} /\ Sum_(u16) \in Nat
    BY <1>4, <1>5, SumIsNat
  <2> QED BY <2>1 DEF Bytes, Units, u8, u16
<1>7. Sum_(cells) \in Nat
  <2> HIDE DEF cells
  <2> QED BY <1>4, SumIsNat
<1>8. GraphemeWidth(c) \in Nat
  BY <1>7 DEF GraphemeWidth
<1>9. ASSUME NEW cell \in Nat PROVE TabAdvance(cell) \in Nat
  <2>1. cell % 4 \in 0 .. 3
    OBVIOUS
  <2> QED BY <2>1 DEF TabAdvance, TabWidth
<1> QED BY <1>6, <1>8, <1>9 DEF WidthAt

\* Stops behind some clusters: each is further than the one before it.
AreStops(stops, n) ==
    /\ stops \in Seq(Positions) /\ Len(stops) = n + 1
    /\ stops[1].byte = 0
    /\ \A i \in 1 .. n : stops[i].byte < stops[i + 1].byte

LEMMA AddStopGoesOn ==
    ASSUME NEW n \in Nat, NEW stops, AreStops(stops, n), NEW c \in Clusters
    PROVE  AreStops(AddStop(stops, c), n + 1)
<1> DEFINE last == stops[Len(stops)]
           new == StopBehind(last, c)
<1>1. stops \in Seq(Positions) /\ Len(stops) = n + 1
  BY DEF AreStops
<1>2. last \in Positions
  BY <1>1
<1>3. new \in Positions /\ last.byte < new.byte
  <2>1. Bytes(c) \in Nat \ {0} /\ Units(c) \in Nat /\ WidthAt(c, last.cell) \in Nat
    BY <1>2, BytesOfCluster DEF Positions
  <2> QED BY <1>2, <2>1, SMTT(20) DEF StopBehind, Positions
<1> HIDE DEF new
<1>4. AddStop(stops, c) = Append(stops, new)
  BY DEF AddStop, new
<1>5. /\ Append(stops, new) \in Seq(Positions) /\ Len(Append(stops, new)) = n + 2
      /\ \A i \in 1 .. n + 1 : Append(stops, new)[i] = stops[i]
      /\ Append(stops, new)[n + 2] = new
  BY <1>1, <1>3
<1>6. ASSUME NEW i \in 1 .. n + 1
      PROVE  Append(stops, new)[i].byte < Append(stops, new)[i + 1].byte
  <2>1. CASE i \in 1 .. n
    BY <1>5, <2>1 DEF AreStops
  <2>2. CASE i = n + 1
    <3>1. Append(stops, new)[i] = last /\ Append(stops, new)[i + 1] = new
      BY <1>1, <1>5, <2>2
    <3> QED BY <1>3, <3>1
  <2>3. i \in 1 .. n \/ i = n + 1
    OBVIOUS
  <2> HIDE DEF last
  <2> QED BY <2>1, <2>2, <2>3
<1>7. Append(stops, new)[1] = stops[1]
  BY <1>5
<1> QED BY <1>4, <1>5, <1>6, <1>7 DEF AreStops

\* What Stops goes through, as a function.
StopsUpTo(f, line, m) ==
    f = [n \in 0 .. m |-> IF n = 0 THEN <<[byte |-> 0, utf16 |-> 0, cell |-> 0]>>
                          ELSE AddStop(f[n - 1], line[n])]

LEMMA StopsUpToExists ==
    ASSUME NEW line, NEW m \in Nat
    PROVE  \E f : StopsUpTo(f, line, m)
<1> DEFINE First == <<[byte |-> 0, utf16 |-> 0, cell |-> 0]>>
           S == {k \in Nat : \E f : StopsUpTo(f, line, k)}
<1>1. 0 \in S
  <2>1. StopsUpTo([n \in 0 .. 0 |-> First], line, 0)
    BY DEF StopsUpTo
  <2> QED BY <2>1
<1>2. ASSUME NEW k \in Nat, k \in S PROVE k + 1 \in S
  <2>1. PICK f : StopsUpTo(f, line, k)
    BY <1>2
  <2> DEFINE g == [n \in 0 .. (k + 1) |-> IF n \in 0 .. k THEN f[n] ELSE AddStop(f[n - 1], line[n])]
  <2>2. \A n \in 0 .. k : f[n] = IF n = 0 THEN First ELSE AddStop(f[n - 1], line[n])
    BY <2>1 DEF StopsUpTo
  <2>3. \A n \in 0 .. (k + 1) : n # 0 => n - 1 \in 0 .. k
    OBVIOUS
  <2>4. \A n \in 0 .. (k + 1) : g[n] = IF n = 0 THEN First ELSE AddStop(g[n - 1], line[n])
    BY <2>2, <2>3
  <2>5. g = [n \in 0 .. (k + 1) |-> g[n]]
    OBVIOUS
  <2> HIDE DEF g
  <2>6. StopsUpTo(g, line, k + 1)
    BY <2>4, <2>5 DEF StopsUpTo
  <2> QED BY <2>6
<1>3. Nat \subseteq S
  <2> HIDE DEF S
  <2> QED BY <1>1, <1>2, Induction
<1> QED BY <1>3

\* One stop for each cluster and one at the end, each further than the last.
LEMMA StopsGoOn ==
    ASSUME NEW line \in CodeLines
    PROVE  AreStops(Stops(line), Len(line))
<1> DEFINE m == Len(line)
           f == CHOOSE f : StopsUpTo(f, line, m)
<1>1. m \in Nat /\ StopsUpTo(f, line, m)
  BY StopsUpToExists DEF CodeLines
<1>2. Stops(line) = f[m]
  BY DEF Stops, StopsUpTo
<1> HIDE DEF f
<1> DEFINE First == <<[byte |-> 0, utf16 |-> 0, cell |-> 0]>>
<1>3. \A n \in 0 .. m : f[n] = IF n = 0 THEN First ELSE AddStop(f[n - 1], line[n])
  BY <1>1 DEF StopsUpTo
<1>4. \A n \in 1 .. m : line[n] \in Clusters
  BY DEF CodeLines
<1> HIDE DEF m
<1> DEFINE S == {n \in Nat : AreStops(f[n], n)}
<1>5. 0 \in S
  <2>1. AreStops(First, 0)
    BY DEF AreStops, Positions
  <2>2. f[0] = First
    BY <1>1, <1>3
  <2> QED BY <2>1, <2>2
<1>6. ASSUME NEW n \in 0 .. m - 1, n \in S PROVE n + 1 \in S
  <2>1. n + 1 \in 1 .. m /\ (n + 1) - 1 = n /\ n + 1 # 0
    BY <1>1
  <2>2. f[n + 1] = AddStop(f[n], line[n + 1]) /\ line[n + 1] \in Clusters
    BY <1>3, <1>4, <2>1
  <2>3. AreStops(f[n], n)
    BY <1>6
  <2>4. AreStops(AddStop(f[n], line[n + 1]), n + 1)
    BY <2>2, <2>3, AddStopGoesOn
  <2> QED BY <2>2, <2>4
<1> HIDE DEF S
<1>7. 0 .. m \subseteq S
  BY <1>1, <1>5, <1>6, InductionUpTo
<1> QED BY <1>1, <1>2, <1>7 DEF S, m

\* The places of any two clusters.
LEMMA StopsAscend ==
    ASSUME NEW n \in Nat, NEW stops, AreStops(stops, n)
    PROVE  \A i, j \in 1 .. n + 1 : i < j => stops[i].byte < stops[j].byte
<1>1. \A i \in 1 .. n + 1 : stops[i].byte \in Nat
  <2>1. \A i \in 1 .. n + 1 : stops[i] \in Positions
    BY DEF AreStops
  <2> QED BY <2>1 DEF Positions
<1> SUFFICES ASSUME NEW i \in 1 .. n + 1
             PROVE  \A j \in 1 .. n + 1 : i < j => stops[i].byte < stops[j].byte
  OBVIOUS
<1> DEFINE S == {d \in Nat : i + d + 1 <= n + 1 => stops[i].byte < stops[i + d + 1].byte}
<1>2. 0 \in S
  BY DEF AreStops
<1>3. ASSUME NEW d \in Nat, d \in S PROVE d + 1 \in S
  <2> SUFFICES ASSUME i + (d + 1) + 1 <= n + 1
               PROVE  stops[i].byte < stops[i + (d + 1) + 1].byte
    OBVIOUS
  <2>1. i + d + 1 \in 1 .. n /\ (i + d + 1) + 1 = i + (d + 1) + 1
    OBVIOUS
  <2>2. stops[i].byte < stops[i + d + 1].byte
    BY <1>3, <2>1
  <2>3. stops[i + d + 1].byte < stops[i + (d + 1) + 1].byte
    BY <2>1 DEF AreStops
  <2>4. i + (d + 1) + 1 \in 1 .. n + 1 /\ i + d + 1 \in 1 .. n + 1
    BY <2>1
  <2> QED BY <1>1, <2>2, <2>3, <2>4
<1> HIDE DEF S
<1>4. Nat \subseteq S
  BY <1>2, <1>3, Induction
<1> SUFFICES ASSUME NEW j \in 1 .. n + 1, i < j PROVE stops[i].byte < stops[j].byte
  OBVIOUS
<1>5. j - i - 1 \in Nat /\ i + (j - i - 1) + 1 = j
  OBVIOUS
<1>6. j - i - 1 \in S
  BY <1>4, <1>5
<1> QED BY <1>5, <1>6 DEF S

\* A line has bytes, unless it is empty.
LEMMA BytesOfLine ==
    ASSUME NEW line \in CodeLines
    PROVE  /\ ByteLen(line) \in Nat /\ ByteLen(line) = Stops(line)[Len(line) + 1].byte
           /\ line = <<>> => ByteLen(line) = 0
           /\ line # <<>> => ByteLen(line) > 0
<1> DEFINE stops == Stops(line)
<1>1. AreStops(stops, Len(line)) /\ Len(line) \in Nat
  BY StopsGoOn DEF CodeLines
<1> HIDE DEF stops
<1>2. stops \in Seq(Positions) /\ Len(stops) = Len(line) + 1 /\ stops[1].byte = 0
  BY <1>1 DEF AreStops
<1>3. Last(stops) = stops[Len(line) + 1] /\ Last(stops) \in Positions
  BY <1>1, <1>2 DEF Last
<1>4. line # <<>> => Len(line) > 0
  BY DEF CodeLines
<1>5. line # <<>> => stops[1].byte < stops[Len(line) + 1].byte
  BY <1>1, <1>4, StopsAscend
<1> QED BY <1>1, <1>2, <1>3, <1>5 DEF ByteLen, LastStop, stops, Positions

--------------------------------------------------------------------------------
(* Wrapping *)

LEMMA BreakIsBehind ==
    ASSUME NEW line \in CodeLines, NEW start \in 1 .. Len(line), NEW at \in start .. Len(line)
    PROVE  /\ BreakBefore(line, start, at) \in start + 1 .. Len(line) + 1
           /\ BreakBefore(line, start, at) <= at \/ BreakBefore(line, start, at) = start + 1
<1> DEFINE breaks == {b \in start + 1 .. at :
                         /\ IsLineBreakAllowedBefore(line[b - 1], line[b])
                         /\ ~(start = 1 /\ b = LeadingEnd(line))}
<1>1. Len(line) \in Nat
  BY DEF CodeLines
<1>2. BreakBefore(line, start, at) = IF breaks # {} THEN Max(breaks) ELSE Greatest(at, start + 1)
  BY DEF BreakBefore
<1>3. breaks \in SUBSET (0 .. Len(line)) /\ breaks \subseteq start + 1 .. at
  BY <1>1
<1> HIDE DEF breaks
<1>4. CASE breaks # {}
  <2>1. Max(breaks) \in breaks
    BY <1>1, <1>3, <1>4, MaxIsGreatest
  <2>2. Max(breaks) \in start + 1 .. at
    BY <1>3, <2>1
  <2> QED BY <1>1, <1>2, <1>4, <2>2
<1>5. CASE breaks = {}
  BY <1>1, <1>2, <1>5 DEF Greatest
<1> QED BY <1>4, <1>5

\* What one fragment takes: at least a cluster, and no more than has room if it
\* takes more than that one.
LEMMA FragmentTakes ==
    ASSUME NEW line \in CodeLines, NEW start \in 1 .. Len(line), NEW width, NEW indent
    PROVE  LET end == FragmentEnd(line, start, width, indent) IN
           /\ end \in start + 1 .. Len(line) + 1
           /\ \/ end = start + 1
              \/ ~(Used(line, start, end - 1, IF start > 1 THEN indent ELSE 0) > width)
<1> DEFINE wide == {at \in start .. Len(line) :
                       Used(line, start, at, IF start > 1 THEN indent ELSE 0) > width}
           end == EndBehind(line, start, wide)
<1>1. Len(line) \in Nat
  BY DEF CodeLines
<1>2. FragmentEnd(line, start, width, indent) = end
  BY DEF FragmentEnd
<1>3. end \in start + 1 .. Len(line) + 1 /\ (end = start + 1 \/ end - 1 \notin wide)
  <2>1. wide \in SUBSET Nat /\ wide \subseteq start .. Len(line)
    BY <1>1
  <2> HIDE DEF wide
  <2>2. CASE wide = {}
    BY <1>1, <2>2 DEF EndBehind
  <2>3. CASE wide # {}
    <3>1. Min(wide) \in wide /\ \A at \in wide : Min(wide) <= at
      BY <2>1, <2>3, MinIsLeast
    <3>2. Min(wide) \in start .. Len(line)
      BY <2>1, <3>1
    <3>3. end = BreakBefore(line, start, Min(wide))
      BY <2>3 DEF EndBehind
    <3>4. end \in start + 1 .. Len(line) + 1 /\ (end <= Min(wide) \/ end = start + 1)
      BY <3>2, <3>3, BreakIsBehind
    <3> QED BY <1>1, <3>1, <3>2, <3>4
  <2> QED BY <2>2, <2>3
<1>4. end - 1 \in start .. Len(line)
  BY <1>1, <1>3
<1> HIDE DEF end
<1>5. end = start + 1 \/ ~(Used(line, start, end - 1, IF start > 1 THEN indent ELSE 0) > width)
  BY <1>3, <1>4
<1> QED BY <1>2, <1>3, <1>5

\* The fragments' first clusters from each cluster on, as a function.
StartsFrom(f, line, width, indent, k) ==
    f = [start \in k .. Len(line) + 1 |->
            IF start > Len(line) THEN <<start>>
            ELSE <<start>> \o f[FragmentEnd(line, start, width, indent)]]

LEMMA StartsFromExists ==
    ASSUME NEW line \in CodeLines, NEW width, NEW indent
    PROVE  \E f : StartsFrom(f, line, width, indent, 1)
<1> DEFINE L == Len(line)
           End(start) == FragmentEnd(line, start, width, indent)
           S == {d \in Nat : d <= L => \E f : StartsFrom(f, line, width, indent, L + 1 - d)}
<1>1. L \in Nat
  BY DEF CodeLines
<1>2. 0 \in S
  <2> DEFINE f == [start \in L + 1 .. L + 1 |-> <<start>>]
  <2>1. f = [start \in L + 1 .. L + 1 |-> IF start > L THEN <<start>> ELSE <<start>> \o f[End(start)]]
    BY <1>1
  <2>2. StartsFrom(f, line, width, indent, L + 1)
    BY <2>1 DEF StartsFrom
  <2>3. L + 1 - 0 = L + 1
    BY <1>1
  <2> QED BY <2>2, <2>3
<1>3. ASSUME NEW d \in Nat, d \in S PROVE d + 1 \in S
  <2>1. SUFFICES ASSUME d + 1 <= L
                 PROVE  \E f : StartsFrom(f, line, width, indent, L + 1 - (d + 1))
    OBVIOUS
  <2> DEFINE k == L + 1 - d
  <2>2. k \in 2 .. L + 1 /\ L + 1 - (d + 1) = k - 1
    BY <1>1, <2>1
  <2>3. PICK f : StartsFrom(f, line, width, indent, k)
    BY <1>1, <1>3, <2>1
  <2> HIDE DEF k, S
  <2> DEFINE g == [start \in k - 1 .. L + 1 |-> IF start \in k .. L + 1 THEN f[start]
                                                ELSE <<start>> \o f[End(start)]]
  <2>4. \A start \in k .. L + 1 : f[start] = IF start > L THEN <<start>> ELSE <<start>> \o f[End(start)]
    BY <2>3 DEF StartsFrom
  <2>5. \A start \in k - 1 .. L : End(start) \in k .. L + 1
    <3> SUFFICES ASSUME NEW start \in k - 1 .. L PROVE End(start) \in k .. L + 1
      OBVIOUS
    <3>1. start \in 1 .. L
      BY <1>1, <2>2
    <3>2. End(start) \in start + 1 .. L + 1
      BY <3>1, FragmentTakes
    <3> QED BY <1>1, <2>2, <3>1, <3>2
  <2> HIDE DEF L, End
  <2>6. \A start \in k - 1 .. L + 1 :
            g[start] = IF start > L THEN <<start>> ELSE <<start>> \o g[End(start)]
    <3> SUFFICES ASSUME NEW start \in k - 1 .. L + 1
                 PROVE  g[start] = IF start > L THEN <<start>> ELSE <<start>> \o g[End(start)]
      OBVIOUS
    <3>1. \A s \in k .. L + 1 : s \in k - 1 .. L + 1 /\ g[s] = f[s]
      BY <1>1, <2>2
    <3>2. CASE start \in k .. L + 1 /\ start > L
      BY <2>4, <3>1, <3>2
    <3>3. CASE start \in k .. L + 1 /\ ~(start > L)
      <4>1. start \in k - 1 .. L
        BY <1>1, <2>2, <3>3
      <4>2. g[End(start)] = f[End(start)]
        BY <2>5, <3>1, <4>1
      <4> QED BY <2>4, <3>1, <3>3, <4>2
    <3>4. CASE start = k - 1
      <4>1. start \in k - 1 .. L /\ ~(start > L) /\ start \notin k .. L + 1
        BY <1>1, <2>2, <3>4
      <4>2. g[End(start)] = f[End(start)]
        BY <2>5, <3>1, <4>1
      <4> QED BY <4>1, <4>2
    <3>5. start \in k .. L + 1 \/ start = k - 1
      BY <1>1, <2>2
    <3> QED BY <3>2, <3>3, <3>4, <3>5
  <2>7. g = [start \in k - 1 .. L + 1 |-> g[start]]
    OBVIOUS
  <2> HIDE DEF g
  <2>8. StartsFrom(g, line, width, indent, k - 1)
    BY <2>6, <2>7 DEF StartsFrom, L, End
  <2> QED BY <2>2, <2>8 DEF L
<1> HIDE DEF S
<1>4. Nat \subseteq S
  BY <1>2, <1>3, Induction
<1>5. L \in S /\ L <= L /\ L + 1 - L = 1
  BY <1>1, <1>4
<1> HIDE DEF L
<1> QED BY <1>5 DEF S

\* The first clusters of a line's fragments from one of them on, and the end.
AreStarts(starts, first, line, width, indent) ==
    /\ starts \in Seq(1 .. Len(line) + 1) /\ starts # <<>>
    /\ starts[1] = first /\ starts[Len(starts)] = Len(line) + 1
    /\ \A i \in 1 .. Len(starts) - 1 :
          /\ starts[i] \in 1 .. Len(line)
          /\ starts[i + 1] = FragmentEnd(line, starts[i], width, indent)

LEMMA StartBefore ==
    ASSUME NEW line \in CodeLines, NEW width, NEW indent, NEW first \in 1 .. Len(line),
           NEW starts, AreStarts(starts, FragmentEnd(line, first, width, indent), line, width, indent)
    PROVE  AreStarts(<<first>> \o starts, first, line, width, indent)
<1> DEFINE L == Len(line)
           all == <<first>> \o starts
<1>1. L \in Nat
  BY DEF CodeLines
<1>2. starts \in Seq(1 .. L + 1) /\ Len(starts) \in Nat \ {0}
  BY DEF AreStarts
<1>3. /\ all \in Seq(1 .. L + 1) /\ Len(all) = Len(starts) + 1
      /\ all[1] = first /\ \A i \in 1 .. Len(starts) : all[i + 1] = starts[i]
  BY <1>1, <1>2
<1>4. all[Len(all)] = L + 1
  BY <1>2, <1>3 DEF AreStarts
<1>5. ASSUME NEW i \in 1 .. Len(all) - 1
      PROVE  all[i] \in 1 .. L /\ all[i + 1] = FragmentEnd(line, all[i], width, indent)
  <2>1. CASE i = 1
    <3>1. all[2] = starts[1]
      BY <1>2, <1>3
    <3> QED BY <1>3, <2>1, <3>1 DEF AreStarts
  <2>2. CASE i # 1
    <3>1. i - 1 \in 1 .. Len(starts) - 1 /\ i \in 1 .. Len(starts) /\ (i - 1) + 1 = i
      BY <1>2, <1>3, <2>2
    <3>2. all[i] = starts[i - 1] /\ all[i + 1] = starts[(i - 1) + 1]
      BY <1>3, <3>1
    <3>3. /\ starts[i - 1] \in 1 .. L
          /\ starts[(i - 1) + 1] = FragmentEnd(line, starts[i - 1], width, indent)
      BY <3>1 DEF AreStarts
    <3> QED BY <3>2, <3>3
  <2> QED BY <2>1, <2>2
<1>6. all # <<>>
  BY <1>2, <1>3
<1> QED BY <1>3, <1>4, <1>5, <1>6 DEF AreStarts

\* Where a line's fragments begin, and where the last one ends.
LEMMA StartsGoOn ==
    ASSUME NEW line \in CodeLines, NEW width, NEW indent
    PROVE  AreStarts(FragmentStarts(line, width, indent), 1, line, width, indent)
<1> DEFINE L == Len(line)
           End(start) == FragmentEnd(line, start, width, indent)
           f == CHOOSE f : StartsFrom(f, line, width, indent, 1)
<1>1. L \in Nat /\ StartsFrom(f, line, width, indent, 1)
  BY StartsFromExists DEF CodeLines
<1>2. FragmentStarts(line, width, indent) = f[1]
  BY DEF FragmentStarts, StartsFrom
<1> HIDE DEF f
<1>3. \A start \in 1 .. L + 1 :
          f[start] = IF start > L THEN <<start>> ELSE <<start>> \o f[End(start)]
  BY <1>1 DEF StartsFrom
<1> DEFINE Done(start) == AreStarts(f[start], start, line, width, indent)
           S == {d \in Nat : \A start \in 1 .. L + 1 : start >= L + 1 - d => Done(start)}
<1>4. 0 \in S
  <2>1. f[L + 1] = <<L + 1>>
    <3>1. L + 1 \in 1 .. L + 1 /\ L + 1 > L
      BY <1>1
    <3> HIDE DEF L, End
    <3> QED BY <1>3, <3>1
  <2>2. Done(L + 1)
    <3>1. <<L + 1>> \in Seq(1 .. L + 1) /\ Len(<<L + 1>>) = 1 /\ <<L + 1>> # <<>>
      BY <1>1
    <3> QED BY <1>1, <2>1, <3>1 DEF AreStarts
  <2> HIDE DEF Done
  <2> QED BY <1>1, <2>2
<1>5. ASSUME NEW d \in Nat, d \in S PROVE d + 1 \in S
  <2> SUFFICES ASSUME NEW start \in 1 .. L + 1, start >= L + 1 - (d + 1) PROVE Done(start)
    OBVIOUS
  <2>1. CASE start >= L + 1 - d
    BY <1>5, <2>1
  <2>2. CASE ~(start >= L + 1 - d)
    <3>1. start \in 1 .. L /\ start = L - d
      BY <1>1, <2>2
    <3>2. End(start) \in start + 1 .. L + 1
      BY <3>1, FragmentTakes
    <3>3. End(start) \in 1 .. L + 1 /\ End(start) >= L + 1 - d
      BY <1>1, <3>1, <3>2
    <3>4. Done(End(start))
      <4> HIDE DEF Done, End
      <4> QED BY <1>5, <3>3
    <3>5. f[start] = <<start>> \o f[End(start)]
      <4>1. start \in 1 .. L + 1 /\ ~(start > L)
        BY <1>1, <3>1
      <4> HIDE DEF L, End
      <4> QED BY <1>3, <4>1
    <3>6. AreStarts(<<start>> \o f[End(start)], start, line, width, indent)
      BY <3>1, <3>4, StartBefore
    <3> QED BY <3>5, <3>6
  <2> QED BY <2>1, <2>2
<1> HIDE DEF S
<1>6. Nat \subseteq S
  BY <1>4, <1>5, Induction
<1>7. L \in S /\ 1 \in 1 .. L + 1 /\ 1 >= L + 1 - L
  BY <1>1, <1>6
<1>8. Done(1)
  <2> HIDE DEF Done
  <2> QED BY <1>7 DEF S
<1> QED BY <1>2, <1>8

\* The spans of a line that are drawn one below the other tile it: the first one
\* begins with it, each begins where the one before it ends, and the last one ends
\* with it; none is without bytes but that of an empty line.
THEOREM FragmentsTileTheLine ==
    ASSUME NEW line \in CodeLines, NEW paneWidth
    PROVE  LET spans == WrapRanges(line, paneWidth) IN
           /\ spans \in Seq(Nat \X Nat) /\ spans # <<>>
           /\ spans[1][1] = 0 /\ spans[Len(spans)][2] = ByteLen(line)
           /\ \A i \in 1 .. Len(spans) - 1 : spans[i + 1][1] = spans[i][2]
           /\ line # <<>> => \A i \in 1 .. Len(spans) : spans[i][1] < spans[i][2]
           /\ line = <<>> => spans = <<<<0, 0>>>>
<1> DEFINE spans == WrapRanges(line, paneWidth)
           L == Len(line)
           stops == Stops(line)
<1>1. CASE line = <<>>
  <2>1. spans = <<<<0, 0>>>>
    BY <1>1 DEF WrapRanges
  <2>2. ByteLen(line) = 0
    BY <1>1, BytesOfLine
  <2> HIDE DEF spans
  <2>3. spans \in Seq(Nat \X Nat) /\ Len(spans) = 1 /\ spans # <<>>
    BY <2>1
  <2>4. spans[1][1] = 0 /\ spans[Len(spans)][2] = 0
    BY <2>1, <2>3
  <2>5. \A i \in 1 .. Len(spans) - 1 : FALSE
    BY <2>3
  <2> QED BY <1>1, <2>1, <2>2, <2>3, <2>4, <2>5 DEF spans
<1>2. CASE line # <<>>
  <2> DEFINE width == Greatest(paneWidth, 1)
             indent == WrappedIndent(line, width)
             starts == FragmentStarts(line, width, indent)
             n == Len(starts)
  <2>1. AreStarts(starts, 1, line, width, indent)
    BY StartsGoOn
  <2>2. spans = Fragments(starts, stops)
    BY <1>2 DEF WrapRanges
  <2>3. AreStops(stops, L) /\ L \in Nat
    BY StopsGoOn DEF CodeLines
  <2>4. ByteLen(line) = stops[L + 1].byte
    BY BytesOfLine
  <2> HIDE DEF starts, stops, spans, indent, width
  <2>5. \A i, j \in 1 .. L + 1 : i < j => stops[i].byte < stops[j].byte
    BY <2>3, StopsAscend
  <2>6. \A i \in 1 .. L + 1 : stops[i].byte \in Nat
    <3>1. \A i \in 1 .. L + 1 : stops[i] \in Positions
      BY <2>3 DEF AreStops
    <3> QED BY <3>1 DEF Positions
  <2>7. starts \in Seq(1 .. L + 1) /\ starts # <<>>
    BY <2>1 DEF AreStarts
  <2>8. \A i \in 1 .. n : starts[i] \in 1 .. L + 1
    BY <2>7
  <2>17. n \in Nat /\ n # 0
    BY <2>7
  <2> HIDE DEF n
  <2>9. ASSUME NEW i \in 1 .. n - 1
        PROVE  starts[i] < starts[i + 1] /\ starts[i] \in 1 .. L
    <3>1. starts[i] \in 1 .. L /\ starts[i + 1] = FragmentEnd(line, starts[i], width, indent)
      BY <2>1 DEF AreStarts, n
    <3>2. starts[i + 1] \in starts[i] + 1 .. L + 1
      BY <3>1, FragmentTakes
    <3> QED BY <3>1, <3>2
  <2>10. n >= 2
    <3>1. L # 0
      BY <1>2 DEF CodeLines
    <3>2. n # 1
      BY <2>1, <2>3, <3>1 DEF AreStarts, n
    <3> QED BY <2>17, <3>2
  <2>11. spans = [i \in 1 .. n - 1 |-> <<stops[starts[i]].byte, stops[starts[i + 1]].byte>>]
    BY <2>2 DEF Fragments, n
  <2>12. \A i \in 1 .. n - 1 :
            /\ spans[i] = <<stops[starts[i]].byte, stops[starts[i + 1]].byte>>
            /\ spans[i] \in Nat \X Nat /\ spans[i][1] < spans[i][2]
    <3> SUFFICES ASSUME NEW i \in 1 .. n - 1
                 PROVE  /\ spans[i] = <<stops[starts[i]].byte, stops[starts[i + 1]].byte>>
                        /\ spans[i] \in Nat \X Nat /\ spans[i][1] < spans[i][2]
      OBVIOUS
    <3>1. i \in 1 .. n /\ i + 1 \in 1 .. n
      BY <2>17
    <3>2. starts[i] \in 1 .. L + 1 /\ starts[i + 1] \in 1 .. L + 1 /\ starts[i] < starts[i + 1]
      BY <2>8, <2>9, <3>1
    <3>3. spans[i] = <<stops[starts[i]].byte, stops[starts[i + 1]].byte>>
      BY <2>11
    <3> QED BY <2>5, <2>6, <3>2, <3>3
  <2>13. spans \in Seq(Nat \X Nat) /\ Len(spans) = n - 1 /\ spans # <<>>
    <3>1. n - 1 \in Nat /\ n - 1 # 0
      BY <2>17, <2>10
    <3> DEFINE m == n - 1
    <3>2. m \in Nat /\ m # 0
      BY <3>1
    <3>3. spans = [i \in 1 .. m |-> spans[i]] /\ \A i \in 1 .. m : spans[i] \in Nat \X Nat
      BY <2>11, <2>12
    <3> HIDE DEF m
    <3>4. spans \in Seq(Nat \X Nat) /\ Len(spans) = m
      BY <3>2, <3>3
    <3> QED BY <3>2, <3>4 DEF m
  <2>14. spans[1][1] = 0
    <3>1. spans[1] = <<stops[starts[1]].byte, stops[starts[1 + 1]].byte>>
      BY <2>10, <2>17, <2>12
    <3> QED BY <2>1, <2>3, <3>1 DEF AreStarts, AreStops
  <2>15. spans[Len(spans)][2] = ByteLen(line)
    <3>1. n - 1 \in 1 .. n - 1 /\ (n - 1) + 1 = n
      BY <2>17, <2>10
    <3>2. spans[n - 1] = <<stops[starts[n - 1]].byte, stops[starts[n]].byte>>
      BY <2>12, <3>1
    <3>3. starts[n] = L + 1
      BY <2>1 DEF AreStarts, n
    <3> QED BY <2>4, <2>13, <3>2, <3>3
  <2>16. ASSUME NEW i \in 1 .. Len(spans) - 1 PROVE spans[i + 1][1] = spans[i][2]
    <3>1. i \in 1 .. n - 1 /\ i + 1 \in 1 .. n - 1
      BY <2>17, <2>13
    <3> QED BY <2>12, <3>1
  <2> QED BY <1>2, <2>12, <2>13, <2>14, <2>15, <2>16 DEF spans
<1> QED BY <1>1, <1>2

\* A fragment is as wide as there is room for, behind the indentation if it is not
\* the first one, or of one cluster; the line is used up to where the next begins.
THEOREM FragmentsFit ==
    ASSUME NEW line \in CodeLines, line # <<>>, NEW paneWidth \in Int
    PROVE  LET width == Greatest(paneWidth, 1)
               spans == WrapRanges(line, paneWidth)
               room == [i \in 1 .. Len(spans) |-> IF i = 1 THEN 0 ELSE WrappedIndent(line, width)]
           IN  \A i \in 1 .. Len(spans) : \E from \in 1 .. Len(line) : \E to \in from + 1 .. Len(line) + 1 :
                  /\ spans[i] = <<Stops(line)[from].byte, Stops(line)[to].byte>>
                  /\ to = from + 1 \/ ~(Used(line, from, to - 1, room[i]) > width)
<1> DEFINE width == Greatest(paneWidth, 1)
           spans == WrapRanges(line, paneWidth)
           indent == WrappedIndent(line, width)
           starts == FragmentStarts(line, width, indent)
           room == [i \in 1 .. Len(spans) |-> IF i = 1 THEN 0 ELSE indent]
           stops == Stops(line)
<1>1. AreStarts(starts, 1, line, width, indent)
  BY StartsGoOn
<1>2. spans = Fragments(starts, stops)
  BY DEF WrapRanges
<1>3. Len(starts) \in Nat \ {0} /\ \A i \in 1 .. Len(starts) : starts[i] \in Nat
  BY <1>1 DEF AreStarts
<1> HIDE DEF width, indent, starts, stops
<1>4. Len(spans) = Len(starts) - 1
  <2>1. Len(starts) - 1 \in Nat
    BY <1>3
  <2> QED BY <1>2, <2>1 DEF Fragments
<1> HIDE DEF spans
<1> SUFFICES ASSUME NEW i \in 1 .. Len(spans)
             PROVE  \E from \in 1 .. Len(line) : \E to \in from + 1 .. Len(line) + 1 :
                       /\ spans[i] = <<stops[from].byte, stops[to].byte>>
                       /\ to = from + 1 \/ ~(Used(line, from, to - 1, room[i]) > width)
  BY DEF spans, width, indent, stops
<1>5. i \in 1 .. Len(starts) - 1 /\ i \in 1 .. Len(starts)
  BY <1>3, <1>4
<1>6. starts[i] \in 1 .. Len(line) /\ starts[i + 1] = FragmentEnd(line, starts[i], width, indent)
  BY <1>1, <1>5 DEF AreStarts
<1>7. room[i] = IF starts[i] > 1 THEN indent ELSE 0
  <2>1. CASE i = 1
    BY <1>1, <2>1 DEF AreStarts
  <2>2. CASE i # 1
    <3>1. i - 1 \in 1 .. Len(starts) - 1 /\ (i - 1) + 1 = i
      BY <1>3, <1>5, <2>2
    <3>2. starts[i - 1] \in 1 .. Len(line) /\ starts[i] = FragmentEnd(line, starts[i - 1], width, indent)
      BY <1>1, <3>1 DEF AreStarts
    <3>3. starts[i] \in starts[i - 1] + 1 .. Len(line) + 1
      BY <3>2, FragmentTakes
    <3> QED BY <2>2, <3>2, <3>3
  <2> QED BY <2>1, <2>2
<1>8. spans[i] = <<stops[starts[i]].byte, stops[starts[i + 1]].byte>>
  BY <1>2, <1>5 DEF Fragments
<1> HIDE DEF room
<1>9. /\ starts[i + 1] \in starts[i] + 1 .. Len(line) + 1
      /\ starts[i + 1] = starts[i] + 1 \/ ~(Used(line, starts[i], starts[i + 1] - 1, room[i]) > width)
  BY <1>6, <1>7, FragmentTakes
<1> QED BY <1>6, <1>8, <1>9

--------------------------------------------------------------------------------
(* Rows *)

\* A terminal line: a span of bytes, which is empty in an empty line only.
TerminalLines ==
    {t \in [line : Nat, from : Nat, to : Nat] :
        IF t.line = Filler THEN t = FillerLine ELSE t.from < t.to \/ (t.from = 0 /\ t.to = 0)}
IsLine(t) == t \in TerminalLines

PairsOfLines == [Versions -> TerminalLines]
AreRows(rows) == rows \in Seq(PairsOfLines)

\* What is drawn of one line of a text.
CodeTexts == Seq(CodeLines)

LEMMA WrappedAreLines ==
    ASSUME NEW text \in CodeTexts, NEW number \in 0 .. Len(text), NEW width
    PROVE  WrapSourceLine(number, text, width) \in Seq(TerminalLines)
<1>1. CASE number = Filler
  BY <1>1 DEF WrapSourceLine
<1>2. CASE number # Filler
  <2> DEFINE spans == WrapRanges(text[number], width)
  <2>1. text[number] \in CodeLines /\ number \in Nat
    BY <1>2 DEF CodeTexts, Filler
  <2>2. /\ spans \in Seq(Nat \X Nat)
        /\ text[number] # <<>> => \A i \in 1 .. Len(spans) : spans[i][1] < spans[i][2]
        /\ text[number] = <<>> => spans = <<<<0, 0>>>>
    BY <2>1, FragmentsTileTheLine
  <2>3. WrapSourceLine(number, text, width) = SourcesOf(number, spans)
    BY <1>2 DEF WrapSourceLine
  <2> HIDE DEF spans
  <2>4. ASSUME NEW i \in 1 .. Len(spans)
        PROVE  Source(number, spans[i][1], spans[i][2]) \in TerminalLines
    <3>1. spans[i] \in Nat \X Nat
      BY <2>2
    <3>2. spans[i][1] < spans[i][2] \/ spans[i] = <<0, 0>>
      <4>1. CASE text[number] # <<>>
        BY <2>2, <4>1
      <4>2. CASE text[number] = <<>>
        <5>1. Len(spans) = 1 /\ spans[1] = <<0, 0>>
          BY <2>2, <4>2
        <5> QED BY <5>1
      <4> QED BY <4>1, <4>2
    <3> QED BY <1>2, <2>1, <3>1, <3>2 DEF TerminalLines, Source
  <2>5. DOMAIN spans = 1 .. Len(spans) /\ Len(spans) \in Nat
    BY <2>2
  <2>6. SourcesOf(number, spans) = [i \in 1 .. Len(spans) |-> Source(number, spans[i][1], spans[i][2])]
    BY <2>5 DEF SourcesOf
  <2> QED BY <2>3, <2>4, <2>5, <2>6
<1> QED BY <1>1, <1>2

LEMMA UnwrappedIsLine ==
    ASSUME NEW text \in CodeTexts, NEW number \in 0 .. Len(text)
    PROVE  /\ UnwrappedSourceLine(number, text) \in Seq(TerminalLines)
           /\ FromContent(number, text) \in TerminalLines
<1>1. FillerLine \in TerminalLines
  BY DEF TerminalLines, FillerLine, Source, Filler
<1>2. CASE number = Filler
  BY <1>1, <1>2 DEF UnwrappedSourceLine, FromContent
<1>3. CASE number # Filler
  <2>1. text[number] \in CodeLines /\ number \in Nat
    BY <1>3 DEF CodeTexts, Filler
  <2>2. ByteLen(text[number]) \in Nat
    BY <2>1, BytesOfLine
  <2> DEFINE whole == Source(number, 0, ByteLen(text[number]))
  <2>3. whole \in TerminalLines
    <3>1. 0 < ByteLen(text[number]) \/ 0 = ByteLen(text[number])
      BY <2>2
    <3> QED BY <1>3, <2>1, <2>2, <3>1 DEF TerminalLines, Source
  <2>4. UnwrappedSourceLine(number, text) = <<whole>>
    BY <1>3 DEF UnwrappedSourceLine
  <2>5. FromContent(number, text) = whole
    BY <1>3, <2>4 DEF FromContent
  <2> HIDE DEF whole
  <2> QED BY <2>3, <2>4, <2>5
<1> QED BY <1>2, <1>3

LEMMA ResizedAreLines ==
    ASSUME NEW lines \in Seq(TerminalLines), NEW height \in Nat
    PROVE  Resize(lines, height) \in [1 .. height -> TerminalLines]
<1>1. FillerLine \in TerminalLines
  BY DEF TerminalLines, FillerLine, Source, Filler
<1> QED BY <1>1 DEF Resize

LEMMA PairIsPair ==
    ASSUME NEW o \in TerminalLines, NEW m \in TerminalLines
    PROVE  [original |-> o, modified |-> m] \in PairsOfLines
<1>1. [original |-> o, modified |-> m] = [v \in Versions |-> IF v = "original" THEN o ELSE m]
  BY DEF Versions
<1> QED BY <1>1 DEF PairsOfLines

LEMMA ZippedAreRows ==
    ASSUME NEW o \in Seq(TerminalLines), NEW m \in Seq(TerminalLines)
    PROVE  Zipped(o, m) \in Seq(PairsOfLines)
<1> DEFINE height == Greatest(Greatest(Len(o), Len(m)), 1)
<1>1. height \in Nat
  BY DEF Greatest
<1>2. Zipped(o, m) = [i \in 1 .. height |-> [original |-> Resize(o, height)[i],
                                            modified |-> Resize(m, height)[i]]]
  BY DEF Zipped
<1> HIDE DEF height
<1>3. /\ Resize(o, height) \in [1 .. height -> TerminalLines]
      /\ Resize(m, height) \in [1 .. height -> TerminalLines]
  BY <1>1, ResizedAreLines
<1>4. \A i \in 1 .. height :
          [original |-> Resize(o, height)[i], modified |-> Resize(m, height)[i]] \in PairsOfLines
  BY <1>3, PairIsPair
<1> QED BY <1>1, <1>2, <1>4

\* Lines of a view: numbers of lines of the texts, and fillers.
Kinds == {"unchanged", "deleted", "inserted", "modified"}
ViewLinesOf(o, m) == [original : 0 .. Len(o), modified : 0 .. Len(m), kind : Kinds]
ChangedLinesOf(o, m) ==
    [original : 0 .. Len(o), modified : 0 .. Len(m), kind : Kinds \ {"unchanged"}]

LEMMA RowsOfViewLine ==
    ASSUME NEW texts, texts = [v \in Versions |-> texts[v]],
           NEW o, NEW m, texts.original = o, texts.modified = m,
           o \in CodeTexts, m \in CodeTexts,
           NEW l \in ViewLinesOf(o, m), NEW widths, NEW layout
    PROVE  /\ WrapViewLine(l, texts, widths, layout) \in Seq(PairsOfLines)
           /\ FromViewLine(l, texts) \in Seq(PairsOfLines)
<1>1. l.original \in 0 .. Len(o) /\ l.modified \in 0 .. Len(m)
  BY DEF ViewLinesOf
<1>2. WrapViewLine(l, texts, widths, layout) \in Seq(PairsOfLines)
  <2> DEFINE Wraps(v) == layout # "inline" \/ (v = "modified" <=> l.modified # Filler)
             Side(v) == IF Wraps(v) THEN WrapSourceLine(l[v], texts[v], widths[v])
                        ELSE UnwrappedSourceLine(l[v], texts[v])
  <2>1. Side("original") \in Seq(TerminalLines)
    BY <1>1, WrappedAreLines, UnwrappedIsLine
  <2>2. Side("modified") \in Seq(TerminalLines)
    BY <1>1, WrappedAreLines, UnwrappedIsLine
  <2>3. WrapViewLine(l, texts, widths, layout) = Zipped(Side("original"), Side("modified"))
    BY DEF WrapViewLine
  <2> HIDE DEF Side
  <2> QED BY <2>1, <2>2, <2>3, ZippedAreRows
<1>3. FromViewLine(l, texts) \in Seq(PairsOfLines)
  <2>1. /\ FromContent(l["original"], texts["original"]) \in TerminalLines
        /\ FromContent(l["modified"], texts["modified"]) \in TerminalLines
    BY <1>1, UnwrappedIsLine
  <2>2. [v \in Versions |-> FromContent(l[v], texts[v])] \in PairsOfLines
    BY <2>1 DEF PairsOfLines, Versions
  <2> QED BY <2>2 DEF FromViewLine
<1> QED BY <1>2, <1>3

LEMMA RowsOfViewLines ==
    ASSUME NEW texts, texts = [v \in Versions |-> texts[v]],
           NEW o \in CodeTexts, NEW m \in CodeTexts, texts.original = o, texts.modified = m,
           NEW lines \in Seq(ViewLinesOf(o, m)), NEW widths, NEW layout, NEW wrap
    PROVE  AreRows(TerminalRows(lines, texts, widths, layout, wrap))
<1> DEFINE Of(l) == IF wrap THEN WrapViewLine(l, texts, widths, layout) ELSE FromViewLine(l, texts)
           parts == [i \in DOMAIN lines |-> Of(lines[i])]
<1>1. DOMAIN lines = 1 .. Len(lines) /\ Len(lines) \in Nat
  OBVIOUS
<1>2. \A i \in 1 .. Len(lines) : lines[i] \in ViewLinesOf(o, m)
  OBVIOUS
<1>3. \A l \in ViewLinesOf(o, m) : Of(l) \in Seq(PairsOfLines)
  BY RowsOfViewLine
<1>4. TerminalRows(lines, texts, widths, layout, wrap) = FlattenSeq(parts)
  BY DEF TerminalRows
<1>5. parts \in Seq(Seq(PairsOfLines))
  <2> HIDE DEF Of
  <2>1. parts = [i \in 1 .. Len(lines) |-> Of(lines[i])]
    BY <1>1
  <2> HIDE DEF parts
  <2> QED BY <1>1, <1>2, <1>3, <2>1
<1> HIDE DEF parts
<1> QED BY <1>4, <1>5, FlattenSeqIsSeq DEF AreRows

--------------------------------------------------------------------------------
(* Lines of a view *)

\* What well-formedness leaves of a change: both its ranges are of lines of the
\* texts, and the pairs of characters in it end no further than these.
InText(r, text) == r.start \in 1 .. Len(text) + 1 /\ r.end \in r.start .. Len(text) + 1
InnerIn(r, end) ==
    /\ r.startLine \in Nat /\ r.endLine \in Nat
    /\ r.startLine <= r.endLine /\ r.endLine <= end
ChangeIn(c, o, m) ==
    /\ InText(c.original, o) /\ InText(c.modified, m)
    /\ Len(c.inner) \in Nat /\ DOMAIN c.inner = 1 .. Len(c.inner)
    /\ \A j \in 1 .. Len(c.inner) : /\ InnerIn(c.inner[j].original, c.original.end)
                                    /\ InnerIn(c.inner[j].modified, c.modified.end)

\* Cuts of a change: they ascend on both sides, from its start.
Points(o, m) == (1 .. Len(o) + 1) \X (1 .. Len(m) + 1)
Start(change) == <<change.original.start, change.modified.start>>
End(change) == <<change.original.end, change.modified.end>>
Within(change) == (change.original.start .. change.original.end)
                     \X (change.modified.start .. change.modified.end)
Ascends(from, to) == from[1] <= to[1] /\ from[2] <= to[2]
AreCuts(at, change) ==
    /\ at \in Seq(Within(change)) /\ at # <<>> /\ at[1] = Start(change)
    /\ \A k \in 1 .. Len(at) - 1 : Ascends(at[k], at[k + 1])

LEMMA RangeIsOfNumbers ==
    ASSUME NEW text \in CodeTexts, NEW r, InText(r, text)
    PROVE  r.start \in Nat \ {0} /\ r.end \in Nat /\ r.start <= r.end /\ r.end <= Len(text) + 1
BY DEF InText, CodeTexts

LEMMA WithinIsPoints ==
    ASSUME NEW o \in CodeTexts, NEW m \in CodeTexts, NEW change, ChangeIn(change, o, m)
    PROVE  /\ Within(change) \subseteq Points(o, m) /\ Within(change) \subseteq Nat \X Nat
           /\ Start(change) \in Within(change) /\ End(change) \in Within(change)
<1>1. /\ InText(change.original, o) /\ InText(change.modified, m)
      /\ Len(o) \in Nat /\ Len(m) \in Nat
  BY DEF ChangeIn, CodeTexts
<1> DEFINE os == change.original.start  oe == change.original.end
           ms == change.modified.start  me == change.modified.end
<1>2. /\ os \in Nat \ {0} /\ oe \in Nat /\ os <= oe /\ oe <= Len(o) + 1
      /\ ms \in Nat \ {0} /\ me \in Nat /\ ms <= me /\ me <= Len(m) + 1
  BY <1>1, RangeIsOfNumbers
<1>3. Within(change) = (os .. oe) \X (ms .. me) /\ Start(change) = <<os, ms>> /\ End(change) = <<oe, me>>
  BY DEF Within, Start, End
<1> HIDE DEF os, oe, ms, me
<1>4. os .. oe \subseteq 1 .. Len(o) + 1 /\ ms .. me \subseteq 1 .. Len(m) + 1
  BY <1>1, <1>2
<1>5. os .. oe \subseteq Nat /\ ms .. me \subseteq Nat
  BY <1>2
<1> QED BY <1>2, <1>3, <1>4, <1>5 DEF Points

LEMMA EmitStaysIn ==
    ASSUME NEW o \in CodeTexts, NEW m \in CodeTexts, NEW change, ChangeIn(change, o, m),
           NEW cuts, AreCuts(cuts.at, change),
           NEW next_ \in Nat \X Nat, Ascends(next_, End(change))
    PROVE  \A force : AreCuts(Emit(cuts, next_, force).at, change)
<1> DEFINE at == cuts.at
           n == Len(at)
           last == at[n]
           new(force) == Emit(cuts, next_, force).at
<1>1. at \in Seq(Within(change)) /\ at # <<>> /\ n \in Nat \ {0} /\ Last(at) = last
  BY DEF AreCuts, Last
<1>2. last \in Within(change)
  BY <1>1
<1>3. Within(change) \subseteq Nat \X Nat /\ End(change) \in Nat \X Nat
  BY WithinIsPoints
<1>4. /\ change.original.start \in Nat /\ change.original.end \in Nat
      /\ change.modified.start \in Nat /\ change.modified.end \in Nat
  BY RangeIsOfNumbers DEF ChangeIn
<1>5. \A force : new(force) =
            IF next_[1] < last[1] \/ next_[2] < last[2] THEN at
            ELSE IF ~cuts.first /\ ~force /\ (next_[1] = last[1] \/ next_[2] = last[2]) THEN at
            ELSE IF next_ = last THEN at ELSE Append(at, next_)
  BY <1>1 DEF Emit
<1> HIDE DEF new, n
<1>6. CASE ~Ascends(last, next_)
  <2>1. next_[1] < last[1] \/ next_[2] < last[2]
    BY <1>2, <1>3, <1>6 DEF Ascends
  <2>2. \A force : new(force) = at
    BY <1>5, <2>1
  <2> QED BY <2>2 DEF new
<1>7. CASE Ascends(last, next_)
  <2>1. next_ \in Within(change)
    BY <1>2, <1>3, <1>4, <1>7, SMTT(20) DEF Within, Ascends, End
  <2>2. AreCuts(Append(at, next_), change)
    <3> DEFINE longer == Append(at, next_)
    <3>1. /\ longer \in Seq(Within(change)) /\ longer # <<>> /\ Len(longer) = n + 1
          /\ \A i \in 1 .. n : longer[i] = at[i]
          /\ longer[n + 1] = next_
      BY <1>1, <2>1, AppendProperties DEF n
    <3> HIDE DEF longer
    <3>2. longer[1] = Start(change)
      BY <1>1, <3>1 DEF AreCuts
    <3>3. ASSUME NEW k \in 1 .. Len(longer) - 1 PROVE Ascends(longer[k], longer[k + 1])
      <4>1. CASE k = n
        BY <1>1, <1>7, <3>1, <4>1
      <4>2. CASE k # n
        <5>1. k \in 1 .. n - 1 /\ k \in 1 .. n /\ k + 1 \in 1 .. n
          BY <1>1, <3>1, <4>2
        <5>2. Ascends(at[k], at[k + 1])
          BY <5>1 DEF AreCuts, n
        <5> QED BY <3>1, <5>1, <5>2
      <4> QED BY <4>1, <4>2
    <3> QED BY <1>1, <3>1, <3>2, <3>3 DEF AreCuts, longer
  <2>3. ~(next_[1] < last[1] \/ next_[2] < last[2])
    BY <1>2, <1>3, <1>7 DEF Ascends
  <2> QED BY <1>1, <1>5, <2>2, <2>3 DEF new
<1> QED BY <1>6, <1>7

\* The one that is forced is made.
LEMMA LastCut ==
    ASSUME NEW o \in CodeTexts, NEW m \in CodeTexts, NEW change, ChangeIn(change, o, m),
           NEW cuts, AreCuts(cuts.at, change)
    PROVE  Last(Emit(cuts, End(change), TRUE).at) = End(change)
<1> DEFINE at == cuts.at
           last == at[Len(at)]
           end == End(change)
<1>1. at \in Seq(Within(change)) /\ at # <<>> /\ last \in Within(change)
  BY DEF AreCuts
<1>2. end \in Within(change) /\ Within(change) \subseteq Nat \X Nat
  BY WithinIsPoints
<1>3. /\ change.original.start \in Nat /\ change.original.end \in Nat
      /\ change.modified.start \in Nat /\ change.modified.end \in Nat
  BY RangeIsOfNumbers DEF ChangeIn
<1>4. ~(end[1] < last[1] \/ end[2] < last[2])
  <2> HIDE DEF last
  <2>1. last \in Within(change) /\ last \in Nat \X Nat
    BY <1>1, <1>2
  <2>2. last[1] <= change.original.end /\ last[2] <= change.modified.end
    BY <1>3, <2>1 DEF Within
  <2> QED BY <1>3, <2>1, <2>2 DEF End
<1>5. Emit(cuts, end, TRUE).at = IF end = last THEN at ELSE Append(at, end)
  BY <1>4 DEF Emit, Last
<1>6. Last(at) = last /\ Last(Append(at, end)) = end
  BY <1>1, <1>2 DEF Last
<1> HIDE DEF at, last, end
<1> QED BY <1>5, <1>6 DEF end

LEMMA OfferStaysIn ==
    ASSUME NEW o \in CodeTexts, NEW m \in CodeTexts, NEW change, ChangeIn(change, o, m),
           NEW cuts, AreCuts(cuts.at, change),
           NEW r, InnerIn(r, change.original.end), NEW q, InnerIn(q, change.modified.end), NEW text
    PROVE  AreCuts(Offer(cuts, r, q, text).at, change)
<1> DEFINE begun == IF r.startCol > 1 /\ q.startCol > 1
                    THEN Emit(cuts, <<r.startLine, q.startLine>>, FALSE) ELSE cuts
<1>1. /\ <<r.startLine, q.startLine>> \in Nat \X Nat /\ <<r.endLine, q.endLine>> \in Nat \X Nat
      /\ Ascends(<<r.startLine, q.startLine>>, End(change))
      /\ Ascends(<<r.endLine, q.endLine>>, End(change))
  <2>1. change.original.end \in Nat /\ change.modified.end \in Nat
    BY RangeIsOfNumbers DEF ChangeIn
  <2> QED BY <2>1 DEF InnerIn, Ascends, End
<1>2. AreCuts(Emit(cuts, <<r.startLine, q.startLine>>, FALSE).at, change)
  BY <1>1, EmitStaysIn
<1>3. AreCuts(begun.at, change)
  BY <1>2
<1>4. Offer(cuts, r, q, text) = IF EndsWithinItsLine(r.endLine, r.endCol, text)
                                THEN Emit(begun, <<r.endLine, q.endLine>>, FALSE) ELSE begun
  BY DEF Offer
<1> HIDE DEF begun
<1>5. AreCuts(Emit(begun, <<r.endLine, q.endLine>>, FALSE).at, change)
  BY <1>1, <1>3, EmitStaysIn
<1> QED BY <1>3, <1>4, <1>5

\* What Cuts goes through, as a function.
CutsUpTo(f, change, text, k) ==
    f = [n \in 0 .. k |->
            IF n = 0 THEN [first |-> TRUE, at |-> <<<<change.original.start, change.modified.start>>>>]
            ELSE Offer(f[n - 1], change.inner[n].original, change.inner[n].modified, text)]

LEMMA CutsUpToExists ==
    ASSUME NEW change, NEW text, NEW k \in Nat
    PROVE  \E f : CutsUpTo(f, change, text, k)
<1> DEFINE First == [first |-> TRUE, at |-> <<<<change.original.start, change.modified.start>>>>]
           Next_(cuts, n) == Offer(cuts, change.inner[n].original, change.inner[n].modified, text)
           S == {n \in Nat : \E f : CutsUpTo(f, change, text, n)}
<1>1. 0 \in S
  <2>1. CutsUpTo([n \in 0 .. 0 |-> First], change, text, 0)
    BY DEF CutsUpTo
  <2> QED BY <2>1
<1>2. ASSUME NEW j \in Nat, j \in S PROVE j + 1 \in S
  <2>1. PICK f : CutsUpTo(f, change, text, j)
    BY <1>2
  <2> DEFINE g == [n \in 0 .. (j + 1) |-> IF n \in 0 .. j THEN f[n] ELSE Next_(f[n - 1], n)]
  <2>2. \A n \in 0 .. j : f[n] = IF n = 0 THEN First ELSE Next_(f[n - 1], n)
    BY <2>1 DEF CutsUpTo
  <2>3. \A n \in 0 .. (j + 1) : n # 0 => n - 1 \in 0 .. j
    OBVIOUS
  <2> HIDE DEF First, Next_
  <2>4. \A n \in 0 .. (j + 1) : g[n] = IF n = 0 THEN First ELSE Next_(g[n - 1], n)
    BY <2>2, <2>3
  <2>5. g = [n \in 0 .. (j + 1) |-> g[n]]
    OBVIOUS
  <2> HIDE DEF g
  <2>6. CutsUpTo(g, change, text, j + 1)
    BY <2>4, <2>5 DEF CutsUpTo, First, Next_
  <2> QED BY <2>6
<1>3. Nat \subseteq S
  <2> HIDE DEF S
  <2> QED BY <1>1, <1>2, Induction
<1> QED BY <1>3

\* They go from the start of the change to its end.
LEMMA CutsStayIn ==
    ASSUME NEW o \in CodeTexts, NEW m \in CodeTexts, NEW change, ChangeIn(change, o, m), NEW text
    PROVE  AreCuts(Cuts(change, text), change) /\ Last(Cuts(change, text)) = End(change)
<1> DEFINE k == Len(change.inner)
           f == CHOOSE f : CutsUpTo(f, change, text, k)
           First == [first |-> TRUE, at |-> <<<<change.original.start, change.modified.start>>>>]
           Next_(cuts, n) == Offer(cuts, change.inner[n].original, change.inner[n].modified, text)
<1>1. k \in Nat /\ CutsUpTo(f, change, text, k)
  BY CutsUpToExists DEF ChangeIn
<1>2. Cuts(change, text) = Emit(f[k], End(change), TRUE).at
  BY DEF Cuts, CutsUpTo, End
<1> HIDE DEF f
<1>3. \A n \in 0 .. k : f[n] = IF n = 0 THEN First ELSE Next_(f[n - 1], n)
  BY <1>1 DEF CutsUpTo
<1>4. /\ Start(change) \in Within(change) /\ End(change) \in Nat \X Nat
      /\ Ascends(End(change), End(change))
  BY WithinIsPoints DEF Ascends
<1>5. \A n \in 1 .. k : /\ InnerIn(change.inner[n].original, change.original.end)
                        /\ InnerIn(change.inner[n].modified, change.modified.end)
  BY DEF ChangeIn
<1> HIDE DEF k
<1> DEFINE S == {n \in Nat : AreCuts(f[n].at, change)}
<1>6. 0 \in S
  <2>1. f[0].at = <<Start(change)>>
    BY <1>1, <1>3 DEF Start
  <2>2. AreCuts(<<Start(change)>>, change)
    BY <1>4 DEF AreCuts
  <2> QED BY <2>1, <2>2
<1>7. ASSUME NEW n \in 0 .. k - 1, n \in S PROVE n + 1 \in S
  <2>1. n + 1 \in 0 .. k /\ n + 1 \in 1 .. k /\ (n + 1) - 1 = n /\ n + 1 # 0
    BY <1>1
  <2>2. f[n + 1] = Next_(f[n], n + 1)
    <3> HIDE DEF Next_
    <3> QED BY <1>3, <2>1
  <2>3. AreCuts(f[n].at, change)
    BY <1>7
  <2>4. AreCuts(f[n + 1].at, change)
    BY <1>5, <2>1, <2>2, <2>3, OfferStaysIn
  <2> QED BY <2>4
<1> HIDE DEF S
<1>8. 0 .. k \subseteq S
  BY <1>1, <1>6, <1>7, InductionUpTo
<1>9. AreCuts(f[k].at, change)
  BY <1>1, <1>8 DEF S
<1> DEFINE made == f[k]
           new == Emit(made, End(change), TRUE).at
<1>10. AreCuts(made.at, change)
  BY <1>9
<1> HIDE DEF made
<1>11. AreCuts(new, change) /\ Last(new) = End(change)
  <2>1. AreCuts(new, change)
    BY <1>4, <1>10, EmitStaysIn
  <2> QED BY <1>10, <2>1, LastCut
<1>12. Cuts(change, text) = new
  BY <1>2 DEF made
<1> HIDE DEF new
<1> QED BY <1>11, <1>12

LEMMA PairedIsLine ==
    ASSUME NEW o, NEW m, NEW n \in 0 .. Len(o), NEW k \in 0 .. Len(m)
    PROVE  Paired(n, k) \in ChangedLinesOf(o, m) /\ Unchanged_(n, k) \in ViewLinesOf(o, m)
BY DEF Paired, Unchanged_, Kind, ChangedLinesOf, ViewLinesOf, Kinds

LEMMA ChangedIsLine ==
    ASSUME NEW o, NEW m
    PROVE  /\ ChangedLinesOf(o, m) \subseteq ViewLinesOf(o, m)
           /\ Seq(ChangedLinesOf(o, m)) \subseteq Seq(ViewLinesOf(o, m))
<1>1. ChangedLinesOf(o, m) \subseteq ViewLinesOf(o, m)
  BY DEF ChangedLinesOf, ViewLinesOf
<1> QED BY <1>1

\* The lines between two cuts.
LEMMA PieceIsOfLines ==
    ASSUME NEW o \in CodeTexts, NEW m \in CodeTexts,
           NEW from \in Points(o, m), NEW to \in Points(o, m)
    PROVE  Piece(from, to) \in Seq(ChangedLinesOf(o, m))
<1>1. /\ from[1] \in 1 .. Len(o) + 1 /\ to[1] \in 1 .. Len(o) + 1
      /\ from[2] \in 1 .. Len(m) + 1 /\ to[2] \in 1 .. Len(m) + 1
      /\ Len(o) \in Nat /\ Len(m) \in Nat
  BY DEF Points, CodeTexts
<1> DEFINE tall == Tall(from, to)
<1>2. tall \in Int
  <2>1. to[1] - from[1] \in Int /\ to[2] - from[2] \in Int
    BY <1>1
  <2>2. \A a, b \in Int : Greatest(a, b) \in Int
    BY DEF Greatest
  <2> QED BY <2>1, <2>2 DEF Tall
<1> HIDE DEF tall
<1>3. ASSUME NEW i \in 1 .. tall
      PROVE  Paired(ContentAt(from[1], to[1] - from[1], i - 1),
                    ContentAt(from[2], to[2] - from[2], i - 1)) \in ChangedLinesOf(o, m)
  <2>1. ContentAt(from[1], to[1] - from[1], i - 1) \in 0 .. Len(o)
    BY <1>1, <1>2 DEF ContentAt, Filler
  <2>2. ContentAt(from[2], to[2] - from[2], i - 1) \in 0 .. Len(m)
    BY <1>1, <1>2 DEF ContentAt, Filler
  <2> QED BY <2>1, <2>2, PairedIsLine
<1>4. Piece(from, to) = [i \in 1 .. tall |->
                            Paired(ContentAt(from[1], to[1] - from[1], i - 1),
                                   ContentAt(from[2], to[2] - from[2], i - 1))]
  BY DEF Piece, tall
<1> DEFINE n == IF tall < 0 THEN 0 ELSE tall
<1>5. n \in Nat /\ 1 .. n = 1 .. tall
  BY <1>2
<1> HIDE DEF n
<1> DEFINE Line(i) == Paired(ContentAt(from[1], to[1] - from[1], i - 1),
                             ContentAt(from[2], to[2] - from[2], i - 1))
<1>6. Piece(from, to) = [i \in 1 .. n |-> Line(i)]
  BY <1>4, <1>5
<1>7. \A i \in 1 .. n : Line(i) \in ChangedLinesOf(o, m)
  BY <1>3, <1>5
<1> HIDE DEF Line
<1> QED BY <1>5, <1>6, <1>7

LEMMA PiecesAreOfLines ==
    ASSUME NEW o \in CodeTexts, NEW m \in CodeTexts, NEW cuts \in Seq(Points(o, m)), cuts # <<>>
    PROVE  PiecesOf(cuts) \in Seq(ChangedLinesOf(o, m))
<1> DEFINE n == Len(cuts) - 1
           pieces == [k \in 1 .. n |-> Piece(cuts[k], cuts[k + 1])]
<1>1. n \in Nat
  OBVIOUS
<1>2. \A k \in 1 .. n : Piece(cuts[k], cuts[k + 1]) \in Seq(ChangedLinesOf(o, m))
  <2> SUFFICES ASSUME NEW k \in 1 .. n PROVE Piece(cuts[k], cuts[k + 1]) \in Seq(ChangedLinesOf(o, m))
    OBVIOUS
  <2>1. cuts[k] \in Points(o, m) /\ cuts[k + 1] \in Points(o, m)
    BY <1>1
  <2> QED BY <2>1, PieceIsOfLines
<1> HIDE DEF n
<1>3. pieces \in Seq(Seq(ChangedLinesOf(o, m)))
  BY <1>1, <1>2
<1>4. PiecesOf(cuts) = FlattenSeq(pieces)
  BY DEF PiecesOf, n
<1> HIDE DEF pieces
<1> QED BY <1>3, <1>4, FlattenSeqIsSeq

LEMMA LengthIsNat ==
    ASSUME NEW o \in CodeTexts, NEW r, InText(r, o)
    PROVE  Length(r) \in Nat /\ Length(r) = r.end - r.start /\ r.start \in Nat /\ r.end \in Nat
BY DEF InText, Length, Monus, Greatest, CodeTexts

\* The lines made of a change, beside each other and below each other.
LEMMA LinesOfChange ==
    ASSUME NEW o \in CodeTexts, NEW m \in CodeTexts, NEW change, ChangeIn(change, o, m), NEW text
    PROVE  /\ LinesForChange(change, text) \in Seq(ChangedLinesOf(o, m))
           /\ InlineLines(change) \in Seq(ChangedLinesOf(o, m))
<1> DEFINE os == change.original.start  oe == change.original.end
           ms == change.modified.start  me == change.modified.end
           olen == Length(change.original)  mlen == Length(change.modified)
<1>1. /\ os \in 1 .. Len(o) + 1 /\ oe \in os .. Len(o) + 1 /\ olen = oe - os /\ olen \in Nat
      /\ ms \in 1 .. Len(m) + 1 /\ me \in ms .. Len(m) + 1 /\ mlen = me - ms /\ mlen \in Nat
      /\ Len(o) \in Nat /\ Len(m) \in Nat
  BY LengthIsNat DEF ChangeIn, InText, CodeTexts
<1>2. LinesForChange(change, text) \in Seq(ChangedLinesOf(o, m))
  <2>1. CASE change.inner # <<>>
    <3>1. /\ Cuts(change, text) \in Seq(Within(change)) /\ Cuts(change, text) # <<>>
          /\ Within(change) \subseteq Points(o, m)
      BY CutsStayIn, WithinIsPoints DEF AreCuts
    <3> DEFINE cuts == Cuts(change, text)
    <3>2. LinesForChange(change, text) = PiecesOf(cuts)
      BY <2>1 DEF LinesForChange
    <3> HIDE DEF cuts
    <3>3. cuts \in Seq(Points(o, m)) /\ cuts # <<>>
      BY <3>1 DEF cuts
    <3> QED BY <3>2, <3>3, PiecesAreOfLines
  <2>2. CASE change.inner = <<>>
    <3> DEFINE tall == Greatest(olen, mlen)
               Line(i) == Paired(ContentFromEnd(os, olen, i - 1, tall),
                                 ContentFromEnd(ms, mlen, i - 1, tall))
    <3>1. LinesForChange(change, text) = [i \in 1 .. tall |-> Line(i)]
      BY <2>2 DEF LinesForChange
    <3> HIDE DEF os, oe, ms, me, olen, mlen
    <3>2. tall \in Nat /\ tall >= olen /\ tall >= mlen
      BY <1>1 DEF Greatest
    <3> HIDE DEF tall
    <3>3. ASSUME NEW i \in 1 .. tall PROVE Line(i) \in ChangedLinesOf(o, m)
      <4>1. ContentFromEnd(os, olen, i - 1, tall) \in 0 .. Len(o)
        BY <1>1, <3>2 DEF ContentFromEnd, Filler
      <4>2. ContentFromEnd(ms, mlen, i - 1, tall) \in 0 .. Len(m)
        BY <1>1, <3>2 DEF ContentFromEnd, Filler
      <4> QED BY <4>1, <4>2, PairedIsLine
    <3> HIDE DEF Line
    <3> QED BY <3>1, <3>2, <3>3
  <2> QED BY <2>1, <2>2
<1>3. InlineLines(change) \in Seq(ChangedLinesOf(o, m))
  <2> DEFINE Line(i) == IF i <= olen THEN Paired(os + i - 1, Filler)
                        ELSE Paired(Filler, ms + i - 1 - olen)
             n == olen + mlen
  <2>1. InlineLines(change) = [i \in 1 .. n |-> Line(i)]
    BY DEF InlineLines
  <2> HIDE DEF os, oe, ms, me, olen, mlen
  <2>2. n \in Nat
    BY <1>1
  <2>3. ASSUME NEW i \in 1 .. n PROVE Line(i) \in ChangedLinesOf(o, m)
    <3>1. CASE i <= olen
      <4>1. os + i - 1 \in 0 .. Len(o) /\ Filler \in 0 .. Len(m)
        BY <1>1, <3>1 DEF Filler
      <4> QED BY <3>1, <4>1, PairedIsLine
    <3>2. CASE ~(i <= olen)
      <4>1. ms + i - 1 - olen \in 0 .. Len(m) /\ Filler \in 0 .. Len(o)
        BY <1>1, <3>2 DEF Filler
      <4> QED BY <3>2, <4>1, PairedIsLine
    <3> QED BY <3>1, <3>2
  <2> HIDE DEF Line, n
  <2> QED BY <2>1, <2>2, <2>3
<1> QED BY <1>2, <1>3

LEMMA UnchangedLines ==
    ASSUME NEW o \in CodeTexts, NEW m \in CodeTexts, NEW from \in Nat \ {0}, NEW other \in Nat \ {0},
           NEW count \in Nat, from + count <= Len(o) + 1, other + count <= Len(m) + 1
    PROVE  UnchangedRun(from, other, count) \in Seq(ViewLinesOf(o, m))
<1>1. ASSUME NEW i \in 1 .. count PROVE Unchanged_(from + i - 1, other + i - 1) \in ViewLinesOf(o, m)
  <2>1. from + i - 1 \in 0 .. Len(o) /\ other + i - 1 \in 0 .. Len(m)
    BY DEF CodeTexts
  <2> QED BY <2>1, PairedIsLine
<1> QED BY <1>1 DEF UnchangedRun

\* An alignment: its changes are of its texts and come one behind the other, as
\* many lines further on one side as on the other, and so do the texts end.
Follows(changes, i) ==
    /\ EndBefore(changes, i, "original") <= changes[i].original.start
    /\ EndBefore(changes, i, "modified") <= changes[i].modified.start
    /\ changes[i].original.start - EndBefore(changes, i, "original")
          = changes[i].modified.start - EndBefore(changes, i, "modified")
AlignmentIn(a) ==
    /\ a.original \in CodeTexts /\ a.modified \in CodeTexts
    /\ Len(a.changes) \in Nat /\ DOMAIN a.changes = 1 .. Len(a.changes)
    /\ \A i \in 1 .. Len(a.changes) :
          ChangeIn(a.changes[i], a.original, a.modified) /\ Follows(a.changes, i)
    /\ Len(a.original) - EndBefore(a.changes, Len(a.changes) + 1, "original")
          = Len(a.modified) - EndBefore(a.changes, Len(a.changes) + 1, "modified")

LEMMA EndInText ==
    ASSUME NEW text, Len(text) \in Nat, NEW r, InText(r, text)
    PROVE  r.start \in 1 .. Len(text) + 1 /\ r.end \in 1 .. Len(text) + 1 /\ r.start <= r.end
BY DEF InText

LEMMA IsInText ==
    ASSUME NEW text, Len(text) \in Nat, NEW r, r.start \in Nat, r.end \in Nat,
           1 <= r.start, r.start <= r.end, r.end <= Len(text) + 1
    PROVE  InText(r, text)
BY DEF InText

LEMMA EndsBefore ==
    ASSUME NEW a, AlignmentIn(a), NEW i \in 1 .. Len(a.changes) + 1
    PROVE  /\ EndBefore(a.changes, i, "original") \in 1 .. Len(a.original) + 1
           /\ EndBefore(a.changes, i, "modified") \in 1 .. Len(a.modified) + 1
<1>1. Len(a.changes) \in Nat /\ Len(a.original) \in Nat /\ Len(a.modified) \in Nat
  BY DEF AlignmentIn, CodeTexts
<1>2. CASE i = 1
  BY <1>1, <1>2 DEF EndBefore
<1>3. CASE i # 1
  <2>1. i - 1 \in 1 .. Len(a.changes)
    BY <1>1, <1>3
  <2>2. /\ InText(a.changes[i - 1].original, a.original)
        /\ InText(a.changes[i - 1].modified, a.modified)
    BY <2>1 DEF AlignmentIn, ChangeIn
  <2>3. /\ a.changes[i - 1].original.end \in 1 .. Len(a.original) + 1
        /\ a.changes[i - 1].modified.end \in 1 .. Len(a.modified) + 1
    BY <1>1, <2>2, EndInText
  <2> QED BY <1>3, <2>3 DEF EndBefore
<1> QED BY <1>2, <1>3

\* The unchanged lines before a change, and behind the last one.
LEMMA LinesUpTo ==
    ASSUME NEW a, AlignmentIn(a), NEW i \in 1 .. Len(a.changes) + 1, NEW end \in Int,
           end <= Len(a.original) + 1,
           end - EndBefore(a.changes, i, "original") + EndBefore(a.changes, i, "modified")
              <= Len(a.modified) + 1
    PROVE  UnchangedRun(EndBefore(a.changes, i, "original"), EndBefore(a.changes, i, "modified"),
                        Monus(end, EndBefore(a.changes, i, "original")))
              \in Seq(ViewLinesOf(a.original, a.modified))
<1> DEFINE from == EndBefore(a.changes, i, "original")
           other == EndBefore(a.changes, i, "modified")
           count == Monus(end, from)
<1>1. from \in 1 .. Len(a.original) + 1 /\ other \in 1 .. Len(a.modified) + 1
  BY EndsBefore
<1>2. Len(a.original) \in Nat /\ Len(a.modified) \in Nat
  BY DEF AlignmentIn, CodeTexts
<1> HIDE DEF from, other
<1>3. count \in Nat /\ from + count <= Len(a.original) + 1 /\ other + count <= Len(a.modified) + 1
  BY <1>1, <1>2 DEF Monus, Greatest, from, other
<1>4. a.original \in CodeTexts /\ a.modified \in CodeTexts /\ from \in Nat \ {0} /\ other \in Nat \ {0}
  BY <1>1, <1>2 DEF AlignmentIn
<1> HIDE DEF count
<1>5. UnchangedRun(from, other, count) \in Seq(ViewLinesOf(a.original, a.modified))
  BY <1>3, <1>4, UnchangedLines
<1> QED BY <1>5 DEF from, other, count

LEMMA RunBefore ==
    ASSUME NEW a, AlignmentIn(a), NEW i \in 1 .. Len(a.changes)
    PROVE  UnchangedRun(EndBefore(a.changes, i, "original"), EndBefore(a.changes, i, "modified"),
                        Monus(a.changes[i].original.start, EndBefore(a.changes, i, "original")))
              \in Seq(ViewLinesOf(a.original, a.modified))
<1> DEFINE changes == a.changes
           From(v) == EndBefore(changes, i, v)
           start == changes[i].original.start
<1>1. Len(changes) \in Nat /\ Len(a.original) \in Nat /\ Len(a.modified) \in Nat
  BY DEF AlignmentIn, CodeTexts
<1>2. i \in 1 .. Len(changes) + 1
  BY <1>1
<1>3. ChangeIn(changes[i], a.original, a.modified) /\ Follows(changes, i)
  BY DEF AlignmentIn
<1>4. /\ start \in 1 .. Len(a.original) + 1
      /\ changes[i].modified.start \in 1 .. Len(a.modified) + 1
  BY <1>3 DEF ChangeIn, InText
<1>5. From("original") \in 1 .. Len(a.original) + 1 /\ From("modified") \in 1 .. Len(a.modified) + 1
  BY <1>2, EndsBefore
<1>6. start - From("original") + From("modified") <= Len(a.modified) + 1
  <2>1. start - From("original") = changes[i].modified.start - From("modified")
    BY <1>3 DEF Follows
  <2>2. \A s, f, g, t, top \in Int : s - f = t - g /\ t <= top => s - f + g <= top
    OBVIOUS
  <2>3. /\ start \in Int /\ changes[i].modified.start \in Int
        /\ From("original") \in Int /\ From("modified") \in Int
        /\ Len(a.modified) + 1 \in Int /\ changes[i].modified.start <= Len(a.modified) + 1
    <3> HIDE DEF From, start
    <3> QED BY <1>1, <1>4, <1>5
  <2> HIDE DEF From, start
  <2> QED BY ONLY <2>1, <2>2, <2>3
<1>7. start \in Int /\ start <= Len(a.original) + 1
  BY <1>1, <1>4
<1> HIDE DEF start
<1>8. UnchangedRun(From("original"), From("modified"), Monus(start, From("original")))
         \in Seq(ViewLinesOf(a.original, a.modified))
  BY <1>2, <1>6, <1>7, LinesUpTo
<1> QED BY <1>8 DEF start

LEMMA RunBehind ==
    ASSUME NEW a, AlignmentIn(a)
    PROVE  LET n == Len(a.changes) + 1
               From(v) == EndBefore(a.changes, n, v)
           IN  UnchangedRun(From("original"), From("modified"),
                            Monus(Least(Len(a.original) + 1,
                                        From("original") + Monus(Len(a.modified) + 1, From("modified"))),
                                  From("original")))
                  \in Seq(ViewLinesOf(a.original, a.modified))
<1> DEFINE n == Len(a.changes) + 1
           From(v) == EndBefore(a.changes, n, v)
           o == Len(a.original)  m == Len(a.modified)
           from == From("original")  other == From("modified")
           end == Least(o + 1, from + Monus(m + 1, other))
<1>1. Len(a.changes) \in Nat /\ o \in Nat /\ m \in Nat
  BY DEF AlignmentIn, CodeTexts
<1>2. n \in 1 .. Len(a.changes) + 1
  BY <1>1
<1>3. from \in 1 .. o + 1 /\ other \in 1 .. m + 1
  BY <1>2, EndsBefore
<1>4. end \in Int /\ end <= o + 1 /\ end - from + other <= m + 1
  <2> HIDE DEF o, m, from, other
  <2> QED BY <1>1, <1>3 DEF Least, Monus, Greatest
<1> HIDE DEF end, n
<1>5. UnchangedRun(from, other, Monus(end, from)) \in Seq(ViewLinesOf(a.original, a.modified))
  BY <1>2, <1>4, LinesUpTo
<1> QED BY <1>5 DEF end, n

LEMMA LinesAroundChanges ==
    ASSUME NEW a, AlignmentIn(a), NEW changed, DOMAIN changed = DOMAIN a.changes,
           \A i \in 1 .. Len(a.changes) : changed[i] \in Seq(ViewLinesOf(a.original, a.modified))
    PROVE  LinesAround(a, changed) \in Seq(ViewLinesOf(a.original, a.modified))
<1> DEFINE T == ViewLinesOf(a.original, a.modified)
           changes == a.changes
           From(i, v) == EndBefore(changes, i, v)
           UpTo(i, end) == UnchangedRun(From(i, "original"), From(i, "modified"),
                                        Monus(end, From(i, "original")))
           n == Len(changes) + 1
           parts == [i \in 1 .. Len(changes) |-> UpTo(i, changes[i].original.start) \o changed[i]]
           end == Least(Len(a.original) + 1,
                        From(n, "original") + Monus(Len(a.modified) + 1, From(n, "modified")))
<1>1. Len(changes) \in Nat /\ DOMAIN changes = 1 .. Len(changes)
  BY DEF AlignmentIn
<1>2. ASSUME NEW i \in 1 .. Len(changes)
      PROVE  UpTo(i, changes[i].original.start) \o changed[i] \in Seq(T)
  <2>1. UpTo(i, changes[i].original.start) \in Seq(T)
    BY RunBefore
  <2> HIDE DEF UpTo, T
  <2> QED BY <2>1 DEF T
<1>3. FlattenSeq(parts) \in Seq(T)
  <2> HIDE DEF UpTo, T
  <2>1. parts \in Seq(Seq(T))
    BY <1>1, <1>2
  <2> HIDE DEF parts
  <2> QED BY <2>1, FlattenSeqIsSeq
<1>4. UpTo(n, end) \in Seq(T)
  BY RunBehind
<1>5. LinesAround(a, changed) = FlattenSeq(parts) \o UpTo(n, end)
  BY <1>1 DEF LinesAround
<1> HIDE DEF parts, UpTo, n, end, T
<1>6. FlattenSeq(parts) \o UpTo(n, end) \in Seq(T)
  BY <1>3, <1>4
<1> QED BY <1>5, <1>6 DEF T

LEMMA AlignedLinesAreOfTexts ==
    ASSUME NEW a, AlignmentIn(a), NEW layout
    PROVE  AlignedLines(a, layout) \in Seq(ViewLinesOf(a.original, a.modified))
<1>1. /\ a.original \in CodeTexts /\ a.modified \in CodeTexts
      /\ DOMAIN a.changes = 1 .. Len(a.changes)
      /\ \A i \in 1 .. Len(a.changes) : ChangeIn(a.changes[i], a.original, a.modified)
  BY DEF AlignmentIn
<1> DEFINE below == [i \in DOMAIN a.changes |-> InlineLines(a.changes[i])]
           beside == [i \in DOMAIN a.changes |-> LinesForChange(a.changes[i], a.original)]
<1>2. /\ \A i \in 1 .. Len(a.changes) : below[i] \in Seq(ViewLinesOf(a.original, a.modified))
      /\ \A i \in 1 .. Len(a.changes) : beside[i] \in Seq(ViewLinesOf(a.original, a.modified))
  <2>1. Seq(ChangedLinesOf(a.original, a.modified)) \subseteq Seq(ViewLinesOf(a.original, a.modified))
    BY ChangedIsLine
  <2>2. \A i \in 1 .. Len(a.changes) :
           /\ below[i] \in Seq(ChangedLinesOf(a.original, a.modified))
           /\ beside[i] \in Seq(ChangedLinesOf(a.original, a.modified))
    BY <1>1, LinesOfChange
  <2> HIDE DEF below, beside
  <2> QED BY <2>1, <2>2
<1>3. DOMAIN below = DOMAIN a.changes /\ DOMAIN beside = DOMAIN a.changes
  OBVIOUS
<1> HIDE DEF below, beside
<1>4. /\ LinesAround(a, below) \in Seq(ViewLinesOf(a.original, a.modified))
      /\ LinesAround(a, beside) \in Seq(ViewLinesOf(a.original, a.modified))
  BY <1>2, <1>3, LinesAroundChanges
<1> QED BY <1>4 DEF AlignedLines, InlineViewLines, SideBySideViewLines, below, beside

LEMMA ViewLinesAreOfTexts ==
    ASSUME NEW a, AlignmentIn(a), NEW layout, NEW compact
    PROVE  ViewLines(a, layout, compact) \in Seq(ViewLinesOf(a.original, a.modified))
<1> DEFINE T == ViewLinesOf(a.original, a.modified)
           lines == AlignedLines(a, layout)
           near == [v \in Versions |-> CompactLines(a, v)]
           Visible(l) == l.kind # "unchanged" \/ \E v \in Versions : l[v] \in near[v]
           FoldBefore(i) == IF i > 1 /\ ~Visible(lines[i - 1]) THEN <<FoldMarker>> ELSE <<>>
           Part(i) == IF Visible(lines[i]) THEN FoldBefore(i) \o <<lines[i]>> ELSE <<>>
           parts == [i \in 1 .. Len(lines) |-> Part(i)]
<1>1. lines \in Seq(T)
  BY AlignedLinesAreOfTexts
<1>2. FoldMarker \in T
  <2>1. Len(a.original) \in Nat /\ Len(a.modified) \in Nat
    BY DEF AlignmentIn, CodeTexts
  <2>2. Filler \in 0 .. Len(a.original) /\ Filler \in 0 .. Len(a.modified)
    BY <2>1 DEF Filler
  <2> QED BY <2>2, PairedIsLine DEF FoldMarker
<1>3. CompactViewLines(a, lines) = IF a.changes = <<>> THEN lines ELSE FlattenSeq(parts)
  <2>1. DOMAIN lines = 1 .. Len(lines)
    BY <1>1
  <2> HIDE DEF lines
  <2> QED BY <2>1 DEF CompactViewLines
<1> HIDE DEF lines, T, Visible
<1>4. FlattenSeq(parts) \in Seq(T)
  <2>1. Len(lines) \in Nat /\ \A i \in 1 .. Len(lines) : lines[i] \in T
    BY <1>1
  <2>2. \A i \in 1 .. Len(lines) : Part(i) \in Seq(T)
    BY <1>2, <2>1
  <2> HIDE DEF Part
  <2>3. parts \in Seq(Seq(T))
    BY <2>1, <2>2
  <2> HIDE DEF parts
  <2> QED BY <2>3, FlattenSeqIsSeq
<1> HIDE DEF parts
<1>5. ViewLines(a, layout, compact) = IF compact THEN CompactViewLines(a, lines) ELSE lines
  BY DEF ViewLines, lines
<1>6. ViewLines(a, layout, compact) \in Seq(T)
  BY <1>1, <1>3, <1>4, <1>5
<1> QED BY <1>6 DEF T

--------------------------------------------------------------------------------
(* Every line once *)

\* The lines of a version that a view shows: in order, each of S and no other.
ShowsLines(lines, v, S) ==
    /\ \A i \in 1 .. Len(lines) : lines[i][v] # Filler => lines[i][v] \in S
    /\ \A i, j \in 1 .. Len(lines) :
          i < j /\ lines[i][v] # Filler /\ lines[j][v] # Filler => lines[i][v] < lines[j][v]
    /\ \A n \in S : \E i \in 1 .. Len(lines) : lines[i][v] = n

LEMMA ShowsJoined ==
    ASSUME NEW T, NEW s \in Seq(T), NEW t \in Seq(T), NEW v, NEW S, NEW U,
           ShowsLines(s, v, S), ShowsLines(t, v, U),
           \A n \in S : \A k \in U : n < k
    PROVE  ShowsLines(s \o t, v, S \cup U)
<1> DEFINE j == s \o t
           n == Len(s)
           m == Len(t)
<1>1. /\ n \in Nat /\ m \in Nat /\ Len(j) = n + m
      /\ \A i \in 1 .. n : j[i] = s[i]
      /\ \A i \in n + 1 .. n + m : j[i] = t[i - n] /\ i - n \in 1 .. m
      /\ \A i \in 1 .. n + m : i \in 1 .. n \/ i \in n + 1 .. n + m
  OBVIOUS
<1> HIDE DEF j
<1>2. ASSUME NEW i \in 1 .. n + m, j[i][v] # Filler PROVE j[i][v] \in S \cup U
  BY <1>1, <1>2 DEF ShowsLines
<1>3. ASSUME NEW i \in 1 .. n + m, NEW k \in 1 .. n + m, i < k, j[i][v] # Filler, j[k][v] # Filler
      PROVE  j[i][v] < j[k][v]
  <2>1. CASE i \in 1 .. n /\ k \in 1 .. n
    BY <1>1, <1>3, <2>1 DEF ShowsLines
  <2>2. CASE i \in n + 1 .. n + m /\ k \in n + 1 .. n + m
    <3>1. i - n < k - n /\ i - n \in 1 .. m /\ k - n \in 1 .. m
      BY <1>1, <1>3, <2>2
    <3>2. j[i] = t[i - n] /\ j[k] = t[k - n]
      BY <1>1, <2>2
    <3> QED BY <1>3, <3>1, <3>2 DEF ShowsLines
  <2>3. CASE i \in 1 .. n /\ k \in n + 1 .. n + m
    <3>1. j[i][v] \in S /\ j[k][v] \in U
      BY <1>1, <1>3, <2>3 DEF ShowsLines
    <3> QED BY <3>1
  <2> QED BY <1>1, <1>3, <2>1, <2>2, <2>3
<1>4. ASSUME NEW x \in S \cup U PROVE \E i \in 1 .. n + m : j[i][v] = x
  <2>1. CASE x \in S
    <3>1. PICK i \in 1 .. n : s[i][v] = x
      BY <2>1 DEF ShowsLines
    <3> QED BY <1>1, <3>1
  <2>2. CASE x \in U
    <3>1. PICK i \in 1 .. m : t[i][v] = x
      BY <2>2 DEF ShowsLines
    <3>2. n + i \in n + 1 .. n + m /\ (n + i) - n = i /\ n + i \in 1 .. n + m
      BY <1>1
    <3> QED BY <1>1, <3>1, <3>2
  <2> QED BY <2>1, <2>2
<1> QED BY <1>1, <1>2, <1>3, <1>4 DEF ShowsLines, j

\* Of both versions, from one pair of lines to another.
ShowsBoth(lines, from, to) ==
    /\ ShowsLines(lines, "original", from[1] .. to[1] - 1)
    /\ ShowsLines(lines, "modified", from[2] .. to[2] - 1)
Places == (Nat \ {0}) \X (Nat \ {0})

LEMMA BothJoined ==
    ASSUME NEW T, NEW s \in Seq(T), NEW t \in Seq(T),
           NEW from \in Places, NEW mid \in Places, NEW to \in Places,
           Ascends(from, mid), Ascends(mid, to), ShowsBoth(s, from, mid), ShowsBoth(t, mid, to)
    PROVE  ShowsBoth(s \o t, from, to)
<1>1. \A k \in {1, 2} : /\ from[k] \in Nat /\ mid[k] \in Nat /\ to[k] \in Nat
                        /\ from[k] <= mid[k] /\ mid[k] <= to[k]
  BY DEF Places, Ascends
<1>2. \A k \in {1, 2} : (from[k] .. mid[k] - 1) \cup (mid[k] .. to[k] - 1) = from[k] .. to[k] - 1
  <2>1. \A a, b, c \in Nat : a <= b /\ b <= c => (a .. b - 1) \cup (b .. c - 1) = a .. c - 1
    OBVIOUS
  <2> QED BY ONLY <1>1, <2>1
<1>3. ASSUME NEW k \in {1, 2}, NEW n \in from[k] .. mid[k] - 1, NEW i \in mid[k] .. to[k] - 1
      PROVE  n < i
  <2>1. from[k] \in Nat /\ mid[k] \in Nat /\ to[k] \in Nat
    BY <1>1
  <2> QED BY <2>1
<1>4. ShowsLines(s \o t, "original", (from[1] .. mid[1] - 1) \cup (mid[1] .. to[1] - 1))
  BY <1>3, ShowsJoined DEF ShowsBoth
<1>5. ShowsLines(s \o t, "modified", (from[2] .. mid[2] - 1) \cup (mid[2] .. to[2] - 1))
  BY <1>3, ShowsJoined DEF ShowsBoth
<1> QED BY <1>2, <1>4, <1>5 DEF ShowsBoth

LEMMA AscendsOn ==
    ASSUME NEW from \in Places, NEW mid \in Places, NEW to \in Places,
           Ascends(from, mid), Ascends(mid, to)
    PROVE  Ascends(from, to)
<1>1. \A k \in {1, 2} : from[k] \in Nat /\ mid[k] \in Nat /\ to[k] \in Nat
  BY DEF Places
<1> QED BY <1>1 DEF Ascends

LEMMA NothingShown ==
    ASSUME NEW at \in Places
    PROVE  ShowsBoth(<<>>, at, at)
<1>1. at[1] .. at[1] - 1 = {} /\ at[2] .. at[2] - 1 = {}
  BY DEF Places
<1> QED BY <1>1 DEF ShowsBoth, ShowsLines

\* Unchanged lines, and the lines between two cuts.
LEMMA UnchangedShown ==
    ASSUME NEW from \in Nat \ {0}, NEW other \in Nat \ {0}, NEW count \in Nat
    PROVE  ShowsBoth(UnchangedRun(from, other, count), <<from, other>>, <<from + count, other + count>>)
<1> DEFINE lines == UnchangedRun(from, other, count)
<1>1. Len(lines) = count
  BY DEF UnchangedRun
<1>2. \A i \in 1 .. count : /\ lines[i]["original"] = from + i - 1
                            /\ lines[i]["modified"] = other + i - 1
  BY DEF UnchangedRun, Unchanged_
<1> HIDE DEF lines
<1>3. ASSUME NEW v, NEW first \in Nat \ {0}, \A i \in 1 .. count : lines[i][v] = first + i - 1
      PROVE  ShowsLines(lines, v, first .. first + count - 1)
  <2>1. ASSUME NEW n \in first .. first + count - 1 PROVE \E i \in 1 .. count : lines[i][v] = n
    <3>1. n - first + 1 \in 1 .. count /\ first + (n - first + 1) - 1 = n
      OBVIOUS
    <3> QED BY <1>3, <3>1
  <2>2. \A i \in 1 .. count : lines[i][v] \in first .. first + count - 1
    BY <1>3
  <2>3. \A i, j \in 1 .. count : i < j => lines[i][v] < lines[j][v]
    BY <1>3
  <2> QED BY <1>1, <2>1, <2>2, <2>3 DEF ShowsLines
<1> QED BY <1>2, <1>3 DEF ShowsBoth, lines

LEMMA PieceShown ==
    ASSUME NEW from \in Places, NEW to \in Places, Ascends(from, to)
    PROVE  ShowsBoth(Piece(from, to), from, to)
<1> DEFINE tall == Tall(from, to)
           lines == Piece(from, to)
           At(k, i) == ContentAt(from[k], to[k] - from[k], i - 1)
<1>1. \A k \in {1, 2} : /\ from[k] \in Nat \ {0} /\ to[k] \in Nat \ {0} /\ from[k] <= to[k]
  BY DEF Places, Ascends
<1>2. tall \in Nat /\ \A k \in {1, 2} : to[k] - from[k] <= tall
  BY <1>1 DEF Tall, Greatest
<1>3. lines = [i \in 1 .. tall |-> Paired(At(1, i), At(2, i))]
  BY DEF Piece
<1> HIDE DEF tall, At, lines
<1>4. Len(lines) = tall
  BY <1>2, <1>3
<1>5. \A i \in 1 .. tall : lines[i]["original"] = At(1, i) /\ lines[i]["modified"] = At(2, i)
  BY <1>3 DEF Paired
<1>6. ASSUME NEW k \in {1, 2}, NEW v, \A i \in 1 .. tall : lines[i][v] = At(k, i)
      PROVE  ShowsLines(lines, v, from[k] .. to[k] - 1)
  <2> DEFINE a == from[k]
             b == to[k]
  <2>1. a \in Nat \ {0} /\ b \in Nat \ {0} /\ a <= b /\ b - a <= tall
    BY <1>1, <1>2
  <2>2. \A i \in 1 .. tall : lines[i][v] = IF i - 1 < b - a THEN a + (i - 1) ELSE 0
    BY <1>6 DEF At, ContentAt, Filler
  <2> HIDE DEF a, b
  <2>3. \A i \in 1 .. tall : lines[i][v] # Filler => i - 1 < b - a /\ lines[i][v] = a + (i - 1)
    BY <1>2, <2>1, <2>2 DEF Filler
  <2>4. ASSUME NEW n \in a .. b - 1 PROVE \E i \in 1 .. tall : lines[i][v] = n
    <3>1. n - a + 1 \in 1 .. tall /\ (n - a + 1) - 1 < b - a /\ a + ((n - a + 1) - 1) = n
      BY <1>2, <2>1
    <3> QED BY <2>2, <3>1
  <2>5. ShowsLines(lines, v, a .. b - 1)
    BY <1>2, <1>4, <2>1, <2>3, <2>4 DEF ShowsLines
  <2> QED BY <2>5 DEF a, b
<1> QED BY <1>5, <1>6 DEF ShowsBoth, lines

\* Both versions up to a cut, through what is joined.
Joined(T, at, n) ==
    {p \in (0 .. n) \X Seq(T) : Ascends(at[1], at[p[1] + 1]) /\ ShowsBoth(p[2], at[1], at[p[1] + 1])}

\* Pieces that go on from one pair of lines to the next show the lines between
\* the first and the last pair.
LEMMA PartsShow ==
    ASSUME NEW T, NEW n \in Nat, NEW at, \A i \in 1 .. n + 1 : at[i] \in Places,
           NEW parts \in Seq(Seq(T)), Len(parts) = n,
           \A i \in 1 .. n : Ascends(at[i], at[i + 1]) /\ ShowsBoth(parts[i], at[i], at[i + 1])
    PROVE  /\ FlattenSeq(parts) \in Seq(T)
           /\ Ascends(at[1], at[n + 1])
           /\ ShowsBoth(FlattenSeq(parts), at[1], at[n + 1])
<1> DEFINE P == Joined(T, at, n)
<1>1. <<0, <<>>>> \in P
  <2>1. at[1] \in Places /\ <<>> \in Seq(T) /\ 0 \in 0 .. n
    OBVIOUS
  <2>2. Ascends(at[1], at[1])
    BY <2>1 DEF Ascends, Places
  <2>3. ShowsBoth(<<>>, at[1], at[1])
    BY <2>1, NothingShown
  <2>4. at[0 + 1] = at[1]
    OBVIOUS
  <2> QED BY <2>1, <2>2, <2>3, <2>4, Zenon DEF Joined
<1>2. ASSUME NEW k \in 0 .. n - 1, NEW s \in Seq(T), <<k, s>> \in P
      PROVE  <<k + 1, s \o parts[k + 1]>> \in P
  <2>1. k + 1 \in 1 .. n /\ k + 1 \in 0 .. n /\ 1 \in 1 .. n + 1 /\ k + 1 \in 1 .. n + 1 /\ k + 2 \in 1 .. n + 1
        /\ (k + 1) + 1 = k + 2
    OBVIOUS
  <2>2. Ascends(at[1], at[k + 1]) /\ ShowsBoth(s, at[1], at[k + 1])
    BY <1>2 DEF Joined
  <2>3. Ascends(at[k + 1], at[k + 2]) /\ ShowsBoth(parts[k + 1], at[k + 1], at[k + 2])
    BY <2>1
  <2>4. at[1] \in Places /\ at[k + 1] \in Places /\ at[k + 2] \in Places
    BY <2>1
  <2>5. parts[k + 1] \in Seq(T)
    BY <2>1
  <2>6. Ascends(at[1], at[k + 2])
    BY <2>2, <2>3, <2>4, AscendsOn
  <2>7. ShowsBoth(s \o parts[k + 1], at[1], at[k + 2])
    BY <2>2, <2>3, <2>4, <2>5, BothJoined
  <2>8. s \o parts[k + 1] \in Seq(T)
    BY <2>5
  <2> QED BY <2>1, <2>6, <2>7, <2>8 DEF Joined
<1> HIDE DEF P
<1>3. FlattenSeq(parts) \in Seq(T) /\ <<n, FlattenSeq(parts)>> \in P
  BY <1>1, <1>2, FlattenInduction
<1> QED BY <1>3 DEF P, Joined

LEMMA PiecesShow ==
    ASSUME NEW o \in CodeTexts, NEW m \in CodeTexts, NEW cuts \in Seq(Points(o, m)), cuts # <<>>,
           \A k \in 1 .. Len(cuts) - 1 : Ascends(cuts[k], cuts[k + 1])
    PROVE  ShowsBoth(PiecesOf(cuts), cuts[1], Last(cuts))
<1> DEFINE n == Len(cuts) - 1
           T == ChangedLinesOf(o, m)
           pieces == [k \in 1 .. n |-> Piece(cuts[k], cuts[k + 1])]
<1>1. n \in Nat /\ n + 1 = Len(cuts) /\ Last(cuts) = cuts[n + 1]
  BY DEF Last
<1>2. Len(o) \in Nat /\ Len(m) \in Nat
  BY DEF CodeTexts
<1>3. Points(o, m) \subseteq Places
  BY <1>2 DEF Points, Places
<1>4. \A i \in 1 .. n + 1 : cuts[i] \in Points(o, m) /\ cuts[i] \in Places
  BY <1>1, <1>3
<1>5. PiecesOf(cuts) = FlattenSeq(pieces)
  BY DEF PiecesOf
<1>6. ASSUME NEW k \in 1 .. n
      PROVE  /\ pieces[k] \in Seq(T)
             /\ Ascends(cuts[k], cuts[k + 1]) /\ ShowsBoth(pieces[k], cuts[k], cuts[k + 1])
  <2>1. k \in 1 .. n + 1 /\ k + 1 \in 1 .. n + 1
    BY <1>1
  <2>2. Ascends(cuts[k], cuts[k + 1]) /\ pieces[k] = Piece(cuts[k], cuts[k + 1])
    OBVIOUS
  <2> HIDE DEF n, pieces
  <2>3. ShowsBoth(pieces[k], cuts[k], cuts[k + 1])
    BY <1>4, <2>1, <2>2, PieceShown
  <2>4. pieces[k] \in Seq(T)
    BY <1>4, <2>1, <2>2, PieceIsOfLines
  <2> QED BY <2>2, <2>3, <2>4
<1>7. DOMAIN pieces = 1 .. n /\ pieces = [k \in 1 .. n |-> pieces[k]]
  OBVIOUS
<1> HIDE DEF n, T, pieces
<1>8. pieces \in Seq(Seq(T)) /\ Len(pieces) = n
  BY <1>1, <1>6, <1>7
<1>9. ShowsBoth(FlattenSeq(pieces), cuts[1], cuts[n + 1])
  BY <1>1, <1>4, <1>6, <1>8, PartsShow
<1> QED BY <1>1, <1>5, <1>9

\* The lines made of a change show those of the change, beside each other or
\* below each other.
LEMMA ChangeShown ==
    ASSUME NEW o \in CodeTexts, NEW m \in CodeTexts, NEW change, ChangeIn(change, o, m), NEW text
    PROVE  /\ ShowsBoth(LinesForChange(change, text), Start(change), End(change))
           /\ ShowsBoth(InlineLines(change), Start(change), End(change))
<1> DEFINE os == change.original.start  oe == change.original.end
           ms == change.modified.start  me == change.modified.end
           olen == Length(change.original)  mlen == Length(change.modified)
<1>1. /\ os \in Nat \ {0} /\ oe \in Nat /\ os <= oe /\ olen = oe - os /\ olen \in Nat
      /\ ms \in Nat \ {0} /\ me \in Nat /\ ms <= me /\ mlen = me - ms /\ mlen \in Nat
  BY RangeIsOfNumbers, LengthIsNat DEF ChangeIn
<1>2. Start(change) = <<os, ms>> /\ End(change) = <<oe, me>>
  BY DEF Start, End
<1>3. ShowsBoth(LinesForChange(change, text), Start(change), End(change))
  <2>1. CASE change.inner # <<>>
    <3> DEFINE cuts == Cuts(change, text)
    <3>1. AreCuts(cuts, change) /\ Last(cuts) = End(change)
      BY CutsStayIn
    <3>2. LinesForChange(change, text) = PiecesOf(cuts)
      BY <2>1 DEF LinesForChange
    <3> HIDE DEF cuts
    <3>3. Within(change) \subseteq Points(o, m)
      BY WithinIsPoints
    <3>4. /\ cuts \in Seq(Points(o, m)) /\ cuts # <<>> /\ cuts[1] = Start(change)
          /\ \A k \in 1 .. Len(cuts) - 1 : Ascends(cuts[k], cuts[k + 1])
      BY <3>1, <3>3 DEF AreCuts
    <3>5. ShowsBoth(PiecesOf(cuts), cuts[1], Last(cuts))
      BY <3>4, PiecesShow
    <3> QED BY <3>1, <3>2, <3>4, <3>5
  <2>2. CASE change.inner = <<>>
    <3> DEFINE tall == Greatest(olen, mlen)
               lines == [i \in 1 .. tall |-> Paired(ContentFromEnd(os, olen, i - 1, tall),
                                                    ContentFromEnd(ms, mlen, i - 1, tall))]
    <3>1. LinesForChange(change, text) = lines
      BY <2>2 DEF LinesForChange
    <3> HIDE DEF os, oe, ms, me, olen, mlen
    <3>2. tall \in Nat /\ tall >= olen /\ tall >= mlen
      BY <1>1 DEF Greatest
    <3> HIDE DEF tall
    <3>3. Len(lines) = tall
      BY <3>2
    <3>4. \A i \in 1 .. tall : /\ lines[i]["original"] = ContentFromEnd(os, olen, i - 1, tall)
                               /\ lines[i]["modified"] = ContentFromEnd(ms, mlen, i - 1, tall)
      BY DEF Paired
    <3> HIDE DEF lines
    <3>5. ASSUME NEW v, NEW a \in Nat \ {0}, NEW b \in Nat, a <= b, b - a <= tall,
                 \A i \in 1 .. tall : lines[i][v] = ContentFromEnd(a, b - a, i - 1, tall)
          PROVE  ShowsLines(lines, v, a .. b - 1)
      <4>1. \A i \in 1 .. tall :
                lines[i][v] = IF i - 1 >= tall - (b - a) THEN a + (i - 1) - (tall - (b - a)) ELSE 0
        BY <3>5 DEF ContentFromEnd, Filler
      <4>2. \A i \in 1 .. tall : lines[i][v] # Filler =>
                i - 1 >= tall - (b - a) /\ lines[i][v] = a + (i - 1) - (tall - (b - a))
        BY <4>1 DEF Filler
      <4>3. ASSUME NEW n \in a .. b - 1 PROVE \E i \in 1 .. tall : lines[i][v] = n
        <5> DEFINE i == n - a + 1 + (tall - (b - a))
        <5>1. /\ i \in 1 .. tall /\ i - 1 >= tall - (b - a)
              /\ a + (i - 1) - (tall - (b - a)) = n
          BY <3>2, <3>5
        <5> HIDE DEF i
        <5> QED BY <4>1, <5>1
      <4>4. \A i \in 1 .. tall : lines[i][v] # Filler => lines[i][v] \in a .. b - 1
        BY <3>2, <3>5, <4>2
      <4>5. \A i, j \in 1 .. tall :
                i < j /\ lines[i][v] # Filler /\ lines[j][v] # Filler => lines[i][v] < lines[j][v]
        BY <3>2, <3>5, <4>2
      <4> QED BY <3>3, <4>3, <4>4, <4>5 DEF ShowsLines
    <3>6. ShowsLines(lines, "original", os .. oe - 1)
      BY <1>1, <3>2, <3>4, <3>5
    <3>7. ShowsLines(lines, "modified", ms .. me - 1)
      BY <1>1, <3>2, <3>4, <3>5
    <3> QED BY <1>2, <3>1, <3>6, <3>7 DEF ShowsBoth
  <2> QED BY <2>1, <2>2
<1>4. ShowsBoth(InlineLines(change), Start(change), End(change))
  <2> DEFINE lines == InlineLines(change)
             n == olen + mlen
  <2>1. lines = [i \in 1 .. n |-> IF i <= olen THEN Paired(os + i - 1, Filler)
                                  ELSE Paired(Filler, ms + i - 1 - olen)]
    BY DEF InlineLines
  <2> HIDE DEF lines, os, oe, ms, me, olen, mlen
  <2>2. n \in Nat
    BY <1>1
  <2>3. Len(lines) = n
    BY <2>1, <2>2
  <2>4. \A i \in 1 .. n :
            /\ lines[i]["original"] = IF i <= olen THEN os + i - 1 ELSE 0
            /\ lines[i]["modified"] = IF i <= olen THEN 0 ELSE ms + i - 1 - olen
    BY <2>1 DEF Paired, Filler
  <2>5. ShowsLines(lines, "original", os .. oe - 1)
    <3>1. \A i \in 1 .. n : lines[i]["original"] # 0 =>
              i <= olen /\ lines[i]["original"] = os + i - 1
      BY <2>4
    <3>2. ASSUME NEW x \in os .. oe - 1 PROVE \E i \in 1 .. n : lines[i]["original"] = x
      <4> DEFINE i == x - os + 1
      <4>1. i \in 1 .. n /\ i <= olen /\ os + i - 1 = x
        BY <1>1
      <4> HIDE DEF i, n
      <4> QED BY <2>4, <4>1
    <3>3. \A i \in 1 .. n : lines[i]["original"] # 0 => lines[i]["original"] \in os .. oe - 1
      BY <1>1, <3>1
    <3>4. \A i, j \in 1 .. n : i < j /\ lines[i]["original"] # 0 /\ lines[j]["original"] # 0
                               => lines[i]["original"] < lines[j]["original"]
      BY <1>1, <3>1
    <3> QED BY <2>3, <3>2, <3>3, <3>4 DEF ShowsLines, Filler
  <2>6. ShowsLines(lines, "modified", ms .. me - 1)
    <3>1. \A i \in 1 .. n : lines[i]["modified"] # 0 =>
              i > olen /\ lines[i]["modified"] = ms + i - 1 - olen
      BY <1>1, <2>4
    <3>2. ASSUME NEW x \in ms .. me - 1 PROVE \E i \in 1 .. n : lines[i]["modified"] = x
      <4> DEFINE i == x - ms + 1 + olen
      <4>1. i \in 1 .. n /\ ~(i <= olen) /\ ms + i - 1 - olen = x
        BY <1>1
      <4> HIDE DEF i, n
      <4> QED BY <2>4, <4>1
    <3>3. \A i \in 1 .. n : lines[i]["modified"] # 0 => lines[i]["modified"] \in ms .. me - 1
      BY <1>1, <3>1
    <3>4. \A i, j \in 1 .. n : i < j /\ lines[i]["modified"] # 0 /\ lines[j]["modified"] # 0
                               => lines[i]["modified"] < lines[j]["modified"]
      BY <1>1, <3>1
    <3> QED BY <2>3, <3>2, <3>3, <3>4 DEF ShowsLines, Filler
  <2> QED BY <1>2, <2>5, <2>6 DEF ShowsBoth, lines
<1> QED BY <1>3, <1>4

LEMMA AroundShows ==
    ASSUME NEW a, AlignmentIn(a), NEW changed, DOMAIN changed = DOMAIN a.changes,
           \A i \in 1 .. Len(a.changes) :
               /\ changed[i] \in Seq(ViewLinesOf(a.original, a.modified))
               /\ ShowsBoth(changed[i], Start(a.changes[i]), End(a.changes[i]))
    PROVE  ShowsBoth(LinesAround(a, changed), <<1, 1>>, <<Len(a.original) + 1, Len(a.modified) + 1>>)
<1> DEFINE T == ViewLinesOf(a.original, a.modified)
           changes == a.changes
           From(i, v) == EndBefore(changes, i, v)
           at(i) == <<From(i, "original"), From(i, "modified")>>
           UpTo(i, end) == UnchangedRun(From(i, "original"), From(i, "modified"),
                                        Monus(end, From(i, "original")))
           m == Len(changes)
           n == m + 1
           parts == [i \in 1 .. m |-> UpTo(i, changes[i].original.start) \o changed[i]]
           end == Least(Len(a.original) + 1,
                        From(n, "original") + Monus(Len(a.modified) + 1, From(n, "modified")))
           behind == <<Len(a.original) + 1, Len(a.modified) + 1>>
<1>1. /\ m \in Nat /\ DOMAIN changes = 1 .. m
      /\ Len(a.original) \in Nat /\ Len(a.modified) \in Nat
      /\ a.original \in CodeTexts /\ a.modified \in CodeTexts
  BY DEF AlignmentIn, CodeTexts
<1>2. ASSUME NEW i \in 1 .. n
      PROVE  /\ From(i, "original") \in Nat \ {0} /\ From(i, "original") <= Len(a.original) + 1
             /\ From(i, "modified") \in Nat \ {0} /\ From(i, "modified") <= Len(a.modified) + 1
             /\ at(i) \in Places
  <2>1. /\ From(i, "original") \in 1 .. Len(a.original) + 1
        /\ From(i, "modified") \in 1 .. Len(a.modified) + 1
    BY EndsBefore
  <2> HIDE DEF From
  <2> QED BY <1>1, <2>1 DEF Places
<1>3. ASSUME NEW i \in 1 .. m
      PROVE  /\ parts[i] \in Seq(T)
             /\ Ascends(at(i), at(i + 1)) /\ ShowsBoth(parts[i], at(i), at(i + 1))
  <2> DEFINE o == changes[i].original.start
             k == changes[i].modified.start
             run == UpTo(i, o)
  <2>1. i \in 1 .. n /\ i + 1 # 1 /\ (i + 1) - 1 = i
    BY <1>1
  <2>2. ChangeIn(changes[i], a.original, a.modified) /\ Follows(changes, i)
    BY DEF AlignmentIn
  <2>3. /\ o \in Nat \ {0} /\ o <= changes[i].original.end /\ changes[i].original.end \in Nat
        /\ k \in Nat \ {0} /\ k <= changes[i].modified.end /\ changes[i].modified.end \in Nat
        /\ changes[i].original.end <= Len(a.original) + 1
        /\ changes[i].modified.end <= Len(a.modified) + 1
    BY <1>1, <2>2, RangeIsOfNumbers DEF ChangeIn
  <2>4. /\ From(i, "original") <= o /\ From(i, "modified") <= k
        /\ o - From(i, "original") = k - From(i, "modified")
    BY <2>2 DEF Follows
  <2>5. at(i + 1) = End(changes[i])
    BY <2>1 DEF EndBefore, End
  <2> DEFINE count == Monus(o, From(i, "original"))
  <2>6. parts[i] = run \o changed[i]
    OBVIOUS
  <2>7. run = UnchangedRun(From(i, "original"), From(i, "modified"), count)
    OBVIOUS
  <2>8. at(i) \in Places /\ From(i, "original") \in Nat \ {0} /\ From(i, "modified") \in Nat \ {0}
    BY <1>2, <2>1
  <2>9. Start(changes[i]) = <<o, k>> /\ End(changes[i]) = <<changes[i].original.end, changes[i].modified.end>>
    BY DEF Start, End
  <2> DEFINE f == From(i, "original")
             g == From(i, "modified")
             oe == changes[i].original.end
             ke == changes[i].modified.end
  <2>10. run \in Seq(T)
    BY RunBefore
  <2>11. at(i) = <<f, g>>
    OBVIOUS
  <2> HIDE DEF parts, run, o, k, From, at, f, g, oe, ke, T
  <2>12. /\ f \in Nat \ {0} /\ g \in Nat \ {0} /\ o \in Nat \ {0} /\ k \in Nat \ {0}
         /\ oe \in Nat /\ ke \in Nat /\ o <= oe /\ k <= ke
         /\ f <= o /\ g <= k /\ o - f = k - g
    BY <2>3, <2>4, <2>8 DEF f, g, oe, ke
  <2>13. count \in Nat /\ f + count = o /\ g + count = k
    <3>1. count = Monus(o, f)
      BY DEF f
    <3> HIDE DEF count
    <3> QED BY <2>12, <3>1 DEF Monus, Greatest
  <2> HIDE DEF count
  <2>14. ShowsBoth(run, <<f, g>>, <<o, k>>)
    <3>1. run = UnchangedRun(f, g, count)
      BY <2>7 DEF f, g
    <3>2. ShowsBoth(UnchangedRun(f, g, count), <<f, g>>, <<f + count, g + count>>)
      BY <2>12, <2>13, UnchangedShown
    <3> QED BY <2>13, <3>1, <3>2
  <2>15. changed[i] \in Seq(T) /\ ShowsBoth(changed[i], <<o, k>>, <<oe, ke>>)
    BY <2>9 DEF T, oe, ke, o, k
  <2>16. /\ <<f, g>> \in Places /\ <<o, k>> \in Places /\ <<oe, ke>> \in Places
         /\ Ascends(<<f, g>>, <<o, k>>) /\ Ascends(<<o, k>>, <<oe, ke>>)
    BY <2>12 DEF Places, Ascends
  <2>17. ShowsBoth(run \o changed[i], <<f, g>>, <<oe, ke>>)
    BY <2>10, <2>14, <2>15, <2>16, BothJoined
  <2>18. Ascends(<<f, g>>, <<oe, ke>>)
    BY <2>16, AscendsOn
  <2>19. run \o changed[i] \in Seq(T)
    BY <2>10, <2>15
  <2>20. at(i + 1) = <<oe, ke>>
    BY <2>5, <2>9 DEF oe, ke
  <2> QED BY <2>6, <2>11, <2>17, <2>18, <2>19, <2>20
<1> DEFINE cuts == [i \in 1 .. n |-> at(i)]
<1>4. /\ FlattenSeq(parts) \in Seq(T)
      /\ Ascends(at(1), at(n)) /\ ShowsBoth(FlattenSeq(parts), at(1), at(n))
  <2>1. \A i \in 1 .. m + 1 : cuts[i] = at(i) /\ cuts[i] \in Places
    BY <1>2
  <2>2. \A i \in 1 .. m : i \in 1 .. m + 1 /\ i + 1 \in 1 .. m + 1
    BY <1>1
  <2>3. DOMAIN parts = 1 .. m /\ parts = [i \in 1 .. m |-> parts[i]]
    OBVIOUS
  <2>4. 1 \in 1 .. m + 1 /\ m + 1 \in 1 .. m + 1
    BY <1>1
  <2> HIDE DEF parts, cuts, at, T, m
  <2>5. parts \in Seq(Seq(T)) /\ Len(parts) = m
    BY <1>1, <1>3, <2>3
  <2>6. \A i \in 1 .. m : Ascends(cuts[i], cuts[i + 1]) /\ ShowsBoth(parts[i], cuts[i], cuts[i + 1])
    BY <1>3, <2>1, <2>2
  <2>7. /\ FlattenSeq(parts) \in Seq(T)
        /\ Ascends(cuts[1], cuts[m + 1])
        /\ ShowsBoth(FlattenSeq(parts), cuts[1], cuts[m + 1])
    BY <1>1, <2>1, <2>5, <2>6, PartsShow
  <2> QED BY <2>1, <2>4, <2>7
<1>5. /\ UpTo(n, end) \in Seq(T) /\ Ascends(at(n), behind)
      /\ behind \in Places /\ ShowsBoth(UpTo(n, end), at(n), behind)
  <2> DEFINE f == From(n, "original")
             g == From(n, "modified")
             ol == Len(a.original)
             ml == Len(a.modified)
             count == Monus(end, f)
  <2>1. n \in 1 .. n
    BY <1>1
  <2>2. /\ f \in Nat \ {0} /\ f <= ol + 1 /\ g \in Nat \ {0} /\ g <= ml + 1
        /\ ol \in Nat /\ ml \in Nat
    BY <1>1, <1>2, <2>1
  <2>3. ol - f = ml - g
    BY DEF AlignmentIn
  <2>4. end = Least(ol + 1, f + Monus(ml + 1, g))
    OBVIOUS
  <2>5. at(n) = <<f, g>> /\ behind = <<ol + 1, ml + 1>> /\ UpTo(n, end) = UnchangedRun(f, g, count)
    OBVIOUS
  <2>7. end = ol + 1
    <3> HIDE DEF f, g, ol, ml, end
    <3> QED BY <2>2, <2>3, <2>4 DEF Least, Monus, Greatest
  <2>8. UpTo(n, end) \in Seq(T)
    BY RunBehind
  <2> HIDE DEF f, g, ol, ml, end, at, behind, UpTo, T
  <2>9. count \in Nat /\ f + count = ol + 1 /\ g + count = ml + 1
    BY <2>2, <2>3, <2>7 DEF Monus, Greatest
  <2> HIDE DEF count
  <2>10. ShowsBoth(UnchangedRun(f, g, count), <<f, g>>, <<ol + 1, ml + 1>>)
    <3>1. ShowsBoth(UnchangedRun(f, g, count), <<f, g>>, <<f + count, g + count>>)
      BY <2>2, <2>9, UnchangedShown
    <3> QED BY <2>9, <3>1
  <2>11. <<ol + 1, ml + 1>> \in Places /\ Ascends(<<f, g>>, <<ol + 1, ml + 1>>)
    BY <2>2 DEF Places, Ascends
  <2> QED BY <2>5, <2>8, <2>10, <2>11
<1>6. LinesAround(a, changed) = FlattenSeq(parts) \o UpTo(n, end)
  BY <1>1 DEF LinesAround
<1>7. at(1) = <<1, 1>> /\ at(1) \in Places /\ at(n) \in Places
  <2>1. 1 \in 1 .. n /\ n \in 1 .. n
    BY <1>1
  <2>2. at(1) = <<1, 1>>
    BY DEF EndBefore
  <2> HIDE DEF at, n
  <2> QED BY <1>2, <2>1, <2>2
<1> HIDE DEF parts, UpTo, n, end, T, at, behind
<1>8. ShowsBoth(FlattenSeq(parts) \o UpTo(n, end), at(1), behind)
  BY <1>4, <1>5, <1>7, BothJoined
<1> QED BY <1>6, <1>7, <1>8 DEF behind

\* What FlattenSeq joins has the members of each part.
HasParts(T, seqs) ==
    {p \in (0 .. Len(seqs)) \X Seq(T) :
        \A k \in 1 .. p[1] : \A e \in 1 .. Len(seqs[k]) :
            \E i \in 1 .. Len(p[2]) : p[2][i] = seqs[k][e]}

LEMMA FlattenHasParts ==
    ASSUME NEW T, NEW seqs \in Seq(Seq(T)),
           NEW k \in 1 .. Len(seqs), NEW e \in 1 .. Len(seqs[k])
    PROVE  \E i \in 1 .. Len(FlattenSeq(seqs)) : FlattenSeq(seqs)[i] = seqs[k][e]
<1> DEFINE P == HasParts(T, seqs)
           N == Len(seqs)
<1>1. N \in Nat /\ \A n \in 1 .. N : seqs[n] \in Seq(T)
  OBVIOUS
<1>2. <<0, <<>>>> \in P
  <2>1. 0 \in 0 .. N /\ <<>> \in Seq(T) /\ 1 .. 0 = {}
    BY <1>1
  <2> QED BY <2>1 DEF HasParts
<1>3. ASSUME NEW n \in 0 .. N - 1, NEW s \in Seq(T), <<n, s>> \in P
      PROVE  <<n + 1, s \o seqs[n + 1]>> \in P
  <2> DEFINE t == seqs[n + 1]
             all == s \o t
  <2>1. n + 1 \in 1 .. N /\ n + 1 \in 0 .. N /\ n \in Nat
    BY <1>1
  <2>2. t \in Seq(T)
    BY <1>1, <2>1
  <2> HIDE DEF t
  <2>3. all \in Seq(T) /\ Len(all) = Len(s) + Len(t) /\ Len(s) \in Nat /\ Len(t) \in Nat
        /\ \A i \in 1 .. Len(s) : all[i] = s[i] /\ i \in 1 .. Len(all)
    <3>1. all \in Seq(T) /\ Len(all) = Len(s) + Len(t) /\ Len(s) \in Nat /\ Len(t) \in Nat
      BY <2>2
    <3>2. \A i \in 1 .. Len(s) : all[i] = s[i]
      BY <2>2
    <3> HIDE DEF all
    <3>3. \A i \in 1 .. Len(s) : i \in 1 .. Len(all)
      BY ONLY <3>1
    <3> QED BY <3>1, <3>2, <3>3
  <2>5. \A i \in 1 .. Len(t) : all[Len(s) + i] = t[i] /\ Len(s) + i \in 1 .. Len(all)
    BY <2>2
  <2> HIDE DEF all
  <2>4. ASSUME NEW m \in 1 .. n + 1, NEW d \in 1 .. Len(seqs[m])
        PROVE  \E i \in 1 .. Len(all) : all[i] = seqs[m][d]
    <3>1. CASE m \in 1 .. n
      <4>1. PICK i \in 1 .. Len(s) : s[i] = seqs[m][d]
        BY <1>3, <3>1 DEF HasParts
      <4> QED BY <2>3, <4>1
    <3>2. CASE m = n + 1
      <4>1. seqs[m] = t /\ d \in 1 .. Len(t)
        BY <3>2 DEF t
      <4>2. all[Len(s) + d] = t[d] /\ Len(s) + d \in 1 .. Len(all)
        BY <2>5, <4>1, Zenon
      <4> QED BY <4>1, <4>2
    <3> QED BY <2>1, <3>1, <3>2
  <2>6. <<n + 1, all>> \in (0 .. N) \X Seq(T)
    BY <2>1, <2>3
  <2>7. <<n + 1, all>> \in P
    <3> DEFINE q == <<n + 1, all>>
    <3>1. q[1] = n + 1 /\ q[2] = all /\ q \in (0 .. N) \X Seq(T)
      BY <2>6
    <3> HIDE DEF q
    <3>2. \A m \in 1 .. q[1] : \A d \in 1 .. Len(seqs[m]) :
             \E i \in 1 .. Len(q[2]) : q[2][i] = seqs[m][d]
      BY ONLY <2>4, <3>1
    <3> QED BY <3>1, <3>2 DEF HasParts, q
  <2> QED BY <2>7 DEF all, t
<1> HIDE DEF P
<1>4. <<N, FlattenSeq(seqs)>> \in P
  BY <1>2, <1>3, FlattenInduction
<1> QED BY <1>1, <1>4 DEF P, HasParts

\* A changed line is shown by a view line that says so.
Marks(lines, a, v) ==
    \A j \in 1 .. Len(a.changes) : \A n \in a.changes[j][v].start .. a.changes[j][v].end - 1 :
        \E i \in 1 .. Len(lines) : lines[i][v] = n /\ lines[i].kind # "unchanged"

LEMMA AroundMarks ==
    ASSUME NEW a, AlignmentIn(a), NEW changed, DOMAIN changed = DOMAIN a.changes,
           \A i \in 1 .. Len(a.changes) :
               /\ changed[i] \in Seq(ChangedLinesOf(a.original, a.modified))
               /\ ShowsBoth(changed[i], Start(a.changes[i]), End(a.changes[i])),
           NEW v \in Versions
    PROVE  Marks(LinesAround(a, changed), a, v)
<1> DEFINE T == ViewLinesOf(a.original, a.modified)
           C == ChangedLinesOf(a.original, a.modified)
           changes == a.changes
           m == Len(changes)
           From(i, w) == EndBefore(changes, i, w)
           UpTo(i, end) == UnchangedRun(From(i, "original"), From(i, "modified"),
                                        Monus(end, From(i, "original")))
           run(i) == UpTo(i, changes[i].original.start)
           parts == [i \in 1 .. m |-> run(i) \o changed[i]]
           tail == UpTo(m + 1, Least(Len(a.original) + 1,
                         From(m + 1, "original") + Monus(Len(a.modified) + 1, From(m + 1, "modified"))))
           lines == LinesAround(a, changed)
<1>1. m \in Nat /\ DOMAIN changes = 1 .. m
  BY DEF AlignmentIn
<1>2. lines = FlattenSeq(parts) \o tail
  BY <1>1 DEF LinesAround
<1>3. Seq(C) \subseteq Seq(T) /\ C \subseteq T
  BY ChangedIsLine
<1>4. \A i \in 1 .. m : run(i) \in Seq(T)
  <2> SUFFICES ASSUME NEW i \in 1 .. m PROVE run(i) \in Seq(T)
    OBVIOUS
  <2> QED BY RunBefore
<1>5. tail \in Seq(T)
  BY RunBehind
<1> SUFFICES ASSUME NEW j \in 1 .. m, NEW n \in changes[j][v].start .. changes[j][v].end - 1
             PROVE  \E i \in 1 .. Len(lines) : lines[i][v] = n /\ lines[i].kind # "unchanged"
  BY DEF Marks
<1> HIDE DEF lines, run, tail
<1>6. changed[j] \in Seq(C) /\ changed[j] \in Seq(T)
  BY <1>3
<1>7. PICK e \in 1 .. Len(changed[j]) : changed[j][e][v] = n
  <2>1. ShowsBoth(changed[j], Start(changes[j]), End(changes[j]))
    OBVIOUS
  <2> QED BY <2>1 DEF ShowsBoth, Start, End, ShowsLines, Versions
<1>8. changed[j][e].kind # "unchanged"
  <2>1. changed[j][e] \in C
    BY <1>6
  <2> QED BY <2>1 DEF ChangedLinesOf
<1>9. parts \in Seq(Seq(T)) /\ Len(parts) = m
  <2>1. \A i \in 1 .. m : run(i) \o changed[i] \in Seq(T)
    <3> SUFFICES ASSUME NEW i \in 1 .. m PROVE run(i) \o changed[i] \in Seq(T)
      OBVIOUS
    <3>1. changed[i] \in Seq(T)
      BY <1>3
    <3> HIDE DEF T
    <3> QED BY <1>4, <3>1
  <2> HIDE DEF T
  <2> QED BY <1>1, <2>1
<1> DEFINE d == Len(run(j)) + e
<1>10. d \in 1 .. Len(parts[j]) /\ parts[j][d] = changed[j][e]
  <2>1. run(j) \in Seq(T)
    BY <1>4
  <2>2. parts[j] = run(j) \o changed[j]
    OBVIOUS
  <2> DEFINE r == run(j)  c == changed[j]
  <2> HIDE DEF parts, T, r, c
  <2>3. Len(r \o c) = Len(r) + Len(c) /\ Len(r) \in Nat /\ Len(c) \in Nat
        /\ (r \o c)[Len(r) + e] = c[e]
    BY <1>6, <1>7, <2>1 DEF r, c
  <2>4. Len(r) + e \in 1 .. Len(r \o c)
    BY <1>7, <2>3 DEF c
  <2> QED BY <2>2, <2>3, <2>4 DEF r, c
<1> HIDE DEF d, parts, T, C
<1>11. PICK i \in 1 .. Len(FlattenSeq(parts)) : FlattenSeq(parts)[i] = parts[j][d]
  BY <1>9, <1>10, FlattenHasParts
<1>12. FlattenSeq(parts) \in Seq(T)
  BY <1>9, FlattenSeqIsSeq
<1>13. i \in 1 .. Len(lines) /\ lines[i] = FlattenSeq(parts)[i]
  BY <1>2, <1>5, <1>12
<1> QED BY <1>7, <1>8, <1>10, <1>11, <1>13

\* Side by side or inline, each line of either version is on one view line, in
\* order, and a line of a change is on one that is marked as changed (align).
THEOREM EveryLineOnce ==
    ASSUME NEW a, AlignmentIn(a), NEW layout
    PROVE  \A v \in Versions : /\ ShowsLines(AlignedLines(a, layout), v, 1 .. Len(a[v]))
                               /\ Marks(AlignedLines(a, layout), a, v)
<1>1. /\ a.original \in CodeTexts /\ a.modified \in CodeTexts
      /\ DOMAIN a.changes = 1 .. Len(a.changes)
      /\ \A i \in 1 .. Len(a.changes) : ChangeIn(a.changes[i], a.original, a.modified)
  BY DEF AlignmentIn
<1> DEFINE below == [i \in DOMAIN a.changes |-> InlineLines(a.changes[i])]
           beside == [i \in DOMAIN a.changes |-> LinesForChange(a.changes[i], a.original)]
           T == ViewLinesOf(a.original, a.modified)
           C == ChangedLinesOf(a.original, a.modified)
           behind == <<Len(a.original) + 1, Len(a.modified) + 1>>
<1>2. ASSUME NEW i \in 1 .. Len(a.changes)
      PROVE  /\ below[i] \in Seq(T) /\ ShowsBoth(below[i], Start(a.changes[i]), End(a.changes[i]))
             /\ beside[i] \in Seq(T) /\ ShowsBoth(beside[i], Start(a.changes[i]), End(a.changes[i]))
             /\ below[i] \in Seq(C) /\ beside[i] \in Seq(C)
  <2>1. ChangeIn(a.changes[i], a.original, a.modified)
    BY <1>1
  <2>2. below[i] = InlineLines(a.changes[i]) /\ beside[i] = LinesForChange(a.changes[i], a.original)
    BY <1>1
  <2>3. Seq(ChangedLinesOf(a.original, a.modified)) \subseteq Seq(T)
    BY ChangedIsLine
  <2>4. /\ below[i] \in Seq(ChangedLinesOf(a.original, a.modified))
        /\ beside[i] \in Seq(ChangedLinesOf(a.original, a.modified))
    BY <1>1, <2>1, <2>2, LinesOfChange
  <2>5. below[i] \in Seq(T) /\ beside[i] \in Seq(T)
    BY <2>3, <2>4
  <2> QED BY <1>1, <2>1, <2>2, <2>4, <2>5, ChangeShown
<1>3. DOMAIN below = DOMAIN a.changes /\ DOMAIN beside = DOMAIN a.changes
  OBVIOUS
<1> HIDE DEF below, beside, behind
<1>4. /\ ShowsBoth(LinesAround(a, below), <<1, 1>>, behind)
      /\ ShowsBoth(LinesAround(a, beside), <<1, 1>>, behind)
  BY <1>2, <1>3, AroundShows DEF behind
<1>5. ShowsBoth(AlignedLines(a, layout), <<1, 1>>, behind)
  BY <1>4 DEF AlignedLines, InlineViewLines, SideBySideViewLines, below, beside
<1>6. /\ Len(a.original) + 1 - 1 = Len(a.original) /\ Len(a.modified) + 1 - 1 = Len(a.modified)
  BY <1>1 DEF CodeTexts
<1>7. \A v \in Versions : Marks(AlignedLines(a, layout), a, v)
  <2>1. \A v \in Versions : Marks(LinesAround(a, below), a, v) /\ Marks(LinesAround(a, beside), a, v)
    BY <1>2, <1>3, AroundMarks
  <2> QED BY <2>1 DEF AlignedLines, InlineViewLines, SideBySideViewLines, below, beside
<1> QED BY <1>5, <1>6, <1>7 DEF ShowsBoth, behind, Versions

\* The lines of a version that the first view lines show.
ShownBy(lines, v, n) == {lines[i][v] : i \in 1 .. n} \ {Filler}
Only(number) == {number} \ {Filler}

\* What is left of view lines where some are hidden: those that are kept.
KeptBy(lines, keep, v, n) == ShownBy([i \in DOMAIN lines |-> IF keep[i] THEN lines[i] ELSE FoldMarker], v, n)
ShownUpTo(T, lines, keep, v) ==
    {p \in (0 .. Len(lines)) \X Seq(T) : ShowsLines(p[2], v, KeptBy(lines, keep, v, p[1]))}

LEMMA FoldShowsNothing ==
    ASSUME NEW v \in Versions
    PROVE  FoldMarker[v] = Filler
  BY DEF FoldMarker, Unchanged_, Versions

LEMMA HiddenLines ==
    ASSUME NEW T, NEW lines \in Seq(T), FoldMarker \in T, NEW keep,
           NEW v \in Versions, NEW S, Filler \notin S, ShowsLines(lines, v, S),
           NEW parts, parts = [i \in DOMAIN lines |-> parts[i]],
           \A i \in DOMAIN lines :
              parts[i] = IF ~keep[i] THEN <<>>
                         ELSE IF i > 1 /\ ~keep[i - 1] THEN <<FoldMarker, lines[i]>> ELSE <<lines[i]>>
    PROVE  ShowsLines(FlattenSeq(parts), v, KeptBy(lines, keep, v, Len(lines)))
<1> DEFINE N == Len(lines)
           P == ShownUpTo(T, lines, keep, v)
           Here(i) == IF keep[i] THEN Only(lines[i][v]) ELSE {}
<1>1. N \in Nat /\ DOMAIN lines = 1 .. N /\ \A i \in 1 .. N : lines[i] \in T
  OBVIOUS
<1>2. ASSUME NEW i \in 1 .. N
      PROVE  parts[i] \in Seq(T) /\ ShowsLines(parts[i], v, Here(i))
  <2> DEFINE l == lines[i]
  <2>1. l \in T /\ FoldMarker[v] = Filler
    BY <1>1, FoldShowsNothing
  <2>5. parts[i] = IF ~keep[i] THEN <<>>
                   ELSE IF i > 1 /\ ~keep[i - 1] THEN <<FoldMarker, l>> ELSE <<l>>
    BY <1>1
  <2>6. Here(i) = IF keep[i] THEN Only(l[v]) ELSE {}
    OBVIOUS
  <2> HIDE DEF l, Here
  <2>2. ShowsLines(<<>>, v, {}) /\ <<>> \in Seq(T)
    BY DEF ShowsLines
  <2>3. ShowsLines(<<l>>, v, Only(l[v])) /\ <<l>> \in Seq(T)
    <3>1. Len(<<l>>) = 1 /\ <<l>>[1] = l /\ <<l>> \in Seq(T) /\ 1 .. 1 = {1}
      BY <2>1
    <3>2. \A p, q \in {1} : ~(p < q)
      OBVIOUS
    <3> QED BY <3>1, <3>2 DEF ShowsLines, Only
  <2>4. ShowsLines(<<FoldMarker, l>>, v, Only(l[v])) /\ <<FoldMarker, l>> \in Seq(T)
    <3> DEFINE both == <<FoldMarker, l>>
    <3>1. Len(both) = 2 /\ both[1] = FoldMarker /\ both[2] = l /\ both \in Seq(T) /\ 1 .. 2 = {1, 2}
      BY <2>1
    <3> HIDE DEF both
    <3>2. \A p \in {1, 2} : both[p][v] # Filler => p = 2
      BY <2>1, <3>1
    <3>3. \A p, q \in {2} : ~(p < q)
      OBVIOUS
    <3>4. ShowsLines(both, v, Only(l[v]))
      BY <3>1, <3>2, <3>3 DEF ShowsLines, Only
    <3> QED BY <3>1, <3>4 DEF both
  <2>7. CASE ~keep[i]
    BY <2>2, <2>5, <2>6, <2>7
  <2>8. CASE keep[i] /\ i > 1 /\ ~keep[i - 1]
    BY <2>4, <2>5, <2>6, <2>8
  <2>9. CASE keep[i] /\ ~(i > 1 /\ ~keep[i - 1])
    BY <2>3, <2>5, <2>6, <2>9
  <2> QED BY <2>7, <2>8, <2>9
<1>3. parts \in Seq(Seq(T)) /\ Len(parts) = N
  <2> HIDE DEF N
  <2>1. parts = [i \in 1 .. N |-> parts[i]] /\ \A i \in 1 .. N : parts[i] \in Seq(T)
    BY <1>1, <1>2
  <2> QED BY ONLY <1>1, <2>1
<1>4. <<0, <<>>>> \in P
  <2>1. KeptBy(lines, keep, v, 0) = {}
    BY DEF KeptBy, ShownBy
  <2>2. ShowsLines(<<>>, v, {}) /\ <<>> \in Seq(T) /\ 0 \in 0 .. N
    BY <1>1 DEF ShowsLines
  <2> QED BY <2>1, <2>2 DEF ShownUpTo
<1>5. \A i \in 1 .. N : \A x \in Here(i) : x = lines[i][v] /\ x # Filler
  BY DEF Only
<1>6. \A n \in 1 .. N : KeptBy(lines, keep, v, n) = UNION {Here(i) : i \in 1 .. n}
  <2> SUFFICES ASSUME NEW n \in 1 .. N
               PROVE  KeptBy(lines, keep, v, n) = UNION {Here(i) : i \in 1 .. n}
    OBVIOUS
  <2> DEFINE of == [i \in DOMAIN lines |-> IF keep[i] THEN lines[i] ELSE FoldMarker]
  <2>1. 1 .. n \subseteq 1 .. N
    BY <1>1
  <2>2. \A i \in 1 .. n : Only(of[i][v]) = Here(i)
    BY <1>1, <2>1, FoldShowsNothing DEF Only
  <2>3. KeptBy(lines, keep, v, n) = UNION {Only(of[i][v]) : i \in 1 .. n}
    <3>1. KeptBy(lines, keep, v, n) = {of[i][v] : i \in 1 .. n} \ {Filler}
      BY DEF KeptBy, ShownBy
    <3> HIDE DEF of
    <3>2. UNION {Only(of[i][v]) : i \in 1 .. n} = {of[i][v] : i \in 1 .. n} \ {Filler}
      <4> DEFINE g(i) == of[i][v]
      <4>1. UNION {Only(g(i)) : i \in 1 .. n} = {g(i) : i \in 1 .. n} \ {Filler}
        <5> HIDE DEF g
        <5>1. ASSUME NEW x PROVE x \in UNION {Only(g(i)) : i \in 1 .. n} <=> x \in {g(i) : i \in 1 .. n} \ {Filler}
          <6>1. x \in UNION {Only(g(i)) : i \in 1 .. n} <=> \E i \in 1 .. n : x \in Only(g(i))
            OBVIOUS
          <6>2. x \in {g(i) : i \in 1 .. n} \ {Filler} <=> \E i \in 1 .. n : x = g(i) /\ x # Filler
            OBVIOUS
          <6>3. \A i \in 1 .. n : x \in Only(g(i)) <=> (x = g(i) /\ x # Filler)
            BY Zenon DEF Only
          <6> QED BY <6>1, <6>2, <6>3, Zenon
        <5> QED BY <5>1
      <4> QED BY <4>1
    <3> QED BY <3>1, <3>2
  <2> HIDE DEF of, Here
  <2> QED BY <2>2, <2>3
<1>7. ASSUME NEW n \in 0 .. N - 1, NEW s \in Seq(T), <<n, s>> \in P
      PROVE  <<n + 1, s \o parts[n + 1]>> \in P
  <2>1. n + 1 \in 1 .. N /\ n + 1 \in 0 .. N /\ n \in Nat /\ 1 .. n + 1 = (1 .. n) \cup {n + 1}
    BY <1>1
  <2>2. KeptBy(lines, keep, v, n) = UNION {Here(i) : i \in 1 .. n}
    <3>1. CASE n = 0
      BY <3>1 DEF KeptBy, ShownBy
    <3>2. CASE n # 0
      <4>1. n \in 1 .. N
        BY <1>1, <2>1, <3>2
      <4> QED BY <1>6, <4>1
    <3> QED BY <3>1, <3>2
  <2>3. KeptBy(lines, keep, v, n + 1) = KeptBy(lines, keep, v, n) \cup Here(n + 1)
    <3> HIDE DEF Here
    <3> QED BY <1>6, <2>1, <2>2
  <2>4. \A x \in KeptBy(lines, keep, v, n) : \A y \in Here(n + 1) : x < y
    <3> SUFFICES ASSUME NEW i \in 1 .. n, NEW x \in Here(i), NEW y \in Here(n + 1) PROVE x < y
      BY <2>2
    <3>1. i \in 1 .. N /\ i < n + 1
      BY <1>1, <2>1
    <3>2. x = lines[i][v] /\ x # Filler /\ y = lines[n + 1][v] /\ y # Filler
      BY <1>5, <2>1, <3>1
    <3> QED BY <2>1, <3>1, <3>2 DEF ShowsLines
  <2>5. ShowsLines(s, v, KeptBy(lines, keep, v, n))
    BY <1>7 DEF ShownUpTo
  <2>6. parts[n + 1] \in Seq(T) /\ ShowsLines(parts[n + 1], v, Here(n + 1))
    BY <1>2, <2>1
  <2> HIDE DEF Here
  <2>7. ShowsLines(s \o parts[n + 1], v, KeptBy(lines, keep, v, n + 1))
    BY <2>3, <2>4, <2>5, <2>6, ShowsJoined
  <2>8. s \o parts[n + 1] \in Seq(T)
    BY <2>6
  <2> QED BY <2>1, <2>7, <2>8 DEF ShownUpTo
<1> HIDE DEF P, N
<1>8. <<N, FlattenSeq(parts)>> \in P
  BY <1>3, <1>4, <1>7, FlattenInduction
<1> QED BY <1>8 DEF P, N, ShownUpTo

LEMMA OneAfterAnother ==
    ASSUME NEW x, NEW y
    PROVE  <<x>> \o <<y>> = <<x, y>> /\ <<>> \o <<y>> = <<y>>
<1>1. <<x>> \in Seq({x, y}) /\ <<y>> \in Seq({x, y}) /\ <<>> \in Seq({x, y})
      /\ Len(<<x>>) = 1 /\ Len(<<y>>) = 1
  OBVIOUS
<1>2. <<>> \o <<y>> = <<y>>
  BY <1>1, ConcatEmptySeq
<1>3. <<x>> \o <<y>> \in Seq({x, y}) /\ Len(<<x>> \o <<y>>) = 2
      /\ (<<x>> \o <<y>>)[1] = x /\ (<<x>> \o <<y>>)[2] = y
  BY <1>1, ConcatProperties
<1>4. <<x, y>> \in Seq({x, y}) /\ Len(<<x, y>>) = 2 /\ <<x, y>>[1] = x /\ <<x, y>>[2] = y
  OBVIOUS
<1> DEFINE s == <<x>> \o <<y>>
           t == <<x, y>>
<1> HIDE DEF s, t
<1>5. s = t
  <2>1. s \in Seq({x, y}) /\ Len(s) = 2 /\ s[1] = x /\ s[2] = y
    BY <1>3 DEF s
  <2>2. t \in Seq({x, y}) /\ Len(t) = 2 /\ t[1] = x /\ t[2] = y
    BY <1>4 DEF t
  <2> QED BY <2>1, <2>2, SeqEqual
<1> QED BY <1>2, <1>5 DEF s, t

\* The compact view leaves lines out, but none of a change (view/compact.rs).
THEOREM EveryChangeIsShown ==
    ASSUME NEW a, AlignmentIn(a), NEW layout, NEW compact, NEW v \in Versions
    PROVE  \E shown \in SUBSET (1 .. Len(a[v])) :
              /\ ShowsLines(ViewLines(a, layout, compact), v, shown)
              /\ \A n \in (1 .. Len(a[v])) \ shown :
                    compact /\ \A j \in 1 .. Len(a.changes) : ~Contains_(a.changes[j][v], n)
<1> DEFINE all == 1 .. Len(a[v])
           lines == AlignedLines(a, layout)
           T == ViewLinesOf(a.original, a.modified)
<1>1. ShowsLines(lines, v, all) /\ Marks(lines, a, v)
  BY EveryLineOnce
<1>2. lines \in Seq(T)
  BY AlignedLinesAreOfTexts
<1>3. Filler \notin all
  BY DEF Filler
<1>4. CASE ~compact \/ a.changes = <<>>
  <2>1. ViewLines(a, layout, compact) = lines
    BY <1>4 DEF ViewLines, CompactViewLines
  <2>2. all \in SUBSET all /\ all \ all = {}
    OBVIOUS
  <2> HIDE DEF all
  <2> QED BY <1>1, <2>1, <2>2 DEF all
<1>5. CASE compact /\ a.changes # <<>>
  <2> DEFINE near == [w \in Versions |-> CompactLines(a, w)]
             Visible(l) == l.kind # "unchanged" \/ \E w \in Versions : l[w] \in near[w]
             keep == [i \in DOMAIN lines |-> Visible(lines[i])]
             FoldBefore(i) == IF i > 1 /\ ~Visible(lines[i - 1]) THEN <<FoldMarker>> ELSE <<>>
             parts == [i \in DOMAIN lines |->
                          IF Visible(lines[i]) THEN FoldBefore(i) \o <<lines[i]>> ELSE <<>>]
             shown == KeptBy(lines, keep, v, Len(lines))
  <2>1. ViewLines(a, layout, compact) = FlattenSeq(parts)
    BY <1>5 DEF ViewLines, CompactViewLines
  <2> HIDE DEF lines, near
  <2>2. Len(lines) \in Nat /\ DOMAIN lines = 1 .. Len(lines)
    BY <1>2
  <2>3. \A i \in DOMAIN lines : lines[i].kind # "unchanged" => keep[i]
    OBVIOUS
  <2>4. \A i \in DOMAIN lines : keep[i] <=> Visible(lines[i])
    OBVIOUS
  <2> HIDE DEF Visible, keep
  <2>5. ASSUME NEW i \in DOMAIN lines
        PROVE  parts[i] = IF ~keep[i] THEN <<>>
                          ELSE IF i > 1 /\ ~keep[i - 1] THEN <<FoldMarker, lines[i]>> ELSE <<lines[i]>>
    <3>1. i > 1 => i - 1 \in DOMAIN lines
      BY <2>2
    <3>2. FoldBefore(i) = IF i > 1 /\ ~keep[i - 1] THEN <<FoldMarker>> ELSE <<>>
      BY <2>4, <3>1
    <3>3. parts[i] = IF keep[i] THEN FoldBefore(i) \o <<lines[i]>> ELSE <<>>
      BY <2>4
    <3>4. <<FoldMarker>> \o <<lines[i]>> = <<FoldMarker, lines[i]>> /\ <<>> \o <<lines[i]>> = <<lines[i]>>
      BY OneAfterAnother
    <3> HIDE DEF parts, FoldBefore
    <3> QED BY <3>2, <3>3, <3>4
  <2>6. parts = [i \in DOMAIN lines |-> parts[i]]
    OBVIOUS
  <2>7. FoldMarker \in T
    <3>1. 0 \in 0 .. Len(a.original) /\ 0 \in 0 .. Len(a.modified)
      BY DEF AlignmentIn, CodeTexts
    <3> QED BY <3>1, PairedIsLine DEF FoldMarker, Filler
  <2> HIDE DEF parts, T, all
  <2>8. ShowsLines(FlattenSeq(parts), v, shown)
    BY <1>1, <1>2, <1>3, <2>5, <2>6, <2>7, HiddenLines
  <2> DEFINE of == [i \in DOMAIN lines |-> IF keep[i] THEN lines[i] ELSE FoldMarker]
  <2>9. shown = {of[i][v] : i \in 1 .. Len(lines)} \ {Filler}
    BY DEF KeptBy, ShownBy
  <2>10. \A i \in 1 .. Len(lines) : of[i][v] # Filler => keep[i] /\ of[i][v] = lines[i][v]
    BY <2>2, FoldShowsNothing
  <2>11. \A i \in 1 .. Len(lines) : keep[i] => of[i] = lines[i]
    BY <2>2
  <2> HIDE DEF of, shown
  <2>12. shown \subseteq all
    BY <1>1, <2>9, <2>10 DEF ShowsLines
  <2>13. ASSUME NEW n \in all \ shown, NEW j \in 1 .. Len(a.changes), Contains_(a.changes[j][v], n)
         PROVE  FALSE
    <3>1. n \in a.changes[j][v].start .. a.changes[j][v].end - 1
      <4>1. InText(a.changes[j][v], a[v]) /\ a[v] \in CodeTexts
        BY DEF AlignmentIn, ChangeIn, Versions
      <4>2. a.changes[j][v].start \in Nat /\ a.changes[j][v].end \in Nat /\ n \in Nat
        BY <4>1, RangeIsOfNumbers DEF all
      <4> QED BY <2>13, <4>2 DEF Contains_
    <3>2. PICK i \in 1 .. Len(lines) : lines[i][v] = n /\ lines[i].kind # "unchanged"
      BY <1>1, <3>1 DEF Marks
    <3>3. of[i][v] = n /\ n # Filler
      BY <1>3, <2>2, <2>3, <2>11, <3>2
    <3>4. n \in shown
      BY <2>9, <3>3
    <3> QED BY <3>4
  <2> QED BY <1>5, <2>1, <2>8, <2>12, <2>13 DEF all
<1> QED BY <1>4, <1>5

\* Of one line that is wrapped.
Tiles(side, number, total) ==
    /\ \A i \in 1 .. Len(side) : side[i].line = number /\ side[i].to <= total
    /\ \A i, j \in 1 .. Len(side) : i < j => side[i].to <= side[j].from /\ side[i].from < side[j].from
    /\ \E i \in 1 .. Len(side) : side[i].from = 0
    /\ \A byte \in 0 .. total - 1 :
          \E i \in 1 .. Len(side) : side[i].from <= byte /\ byte < side[i].to

\* Spans that tile a line ascend, and each byte is in one of them.
LEMMA SpansAscend ==
    ASSUME NEW spans \in Seq(Nat \X Nat),
           \A i \in 1 .. Len(spans) - 1 : spans[i + 1][1] = spans[i][2],
           \A i \in 1 .. Len(spans) : spans[i][1] < spans[i][2]
    PROVE  \A i, j \in 1 .. Len(spans) : i < j => spans[i][2] <= spans[j][1] /\ spans[i][1] < spans[j][1]
<1> DEFINE n == Len(spans)
<1>1. n \in Nat /\ \A i \in 1 .. n : spans[i] \in Nat \X Nat
  OBVIOUS
<1>2. \A i \in 1 .. n : spans[i][1] \in Nat /\ spans[i][2] \in Nat
  BY <1>1
<1> HIDE DEF n
<1> SUFFICES ASSUME NEW i \in 1 .. n
             PROVE  \A j \in 1 .. n : i < j => spans[i][2] <= spans[j][1] /\ spans[i][1] < spans[j][1]
  BY DEF n
<1> DEFINE Good(k) == spans[i][2] <= spans[i + k + 1][1]
           S == {k \in Nat : Good(k)}
           N == n - i - 1
<1>3. CASE i = n
  BY <1>1, <1>3
<1>4. CASE i # n
  <2>1. N \in Nat /\ i \in 1 .. n - 1
    BY <1>1, <1>4
  <2>2. 0 \in S
    <3>1. spans[i + 0 + 1][1] = spans[i][2]
      BY <1>1, <2>1 DEF n
    <3> QED BY <1>2, <3>1
  <2>3. ASSUME NEW k \in 0 .. N - 1, k \in S PROVE k + 1 \in S
    <3>1. /\ i + k + 1 \in 1 .. n - 1 /\ i + k + 1 \in 1 .. n
          /\ i + (k + 1) + 1 = (i + k + 1) + 1 /\ (i + k + 1) + 1 \in 1 .. n
      BY <1>1, <2>1
    <3> DEFINE p == i + k + 1
    <3>2. spans[p + 1][1] = spans[p][2] /\ spans[p][1] < spans[p][2] /\ spans[i][2] <= spans[p][1]
      BY <2>3, <3>1 DEF n
    <3>3. spans[p][1] \in Nat /\ spans[p][2] \in Nat /\ spans[i][2] \in Nat
      BY <1>2, <3>1
    <3> HIDE DEF p
    <3>4. spans[i][2] <= spans[p + 1][1]
      <4>1. \A a, b, c \in Nat : a <= b /\ b < c => a <= c
        OBVIOUS
      <4> QED BY ONLY <3>2, <3>3, <4>1, Zenon
    <3>5. Good(k + 1)
      BY <3>1, <3>4 DEF p
    <3>6. k + 1 \in Nat
      BY <2>1
    <3> HIDE DEF Good
    <3> QED BY <3>5, <3>6
  <2> HIDE DEF S
  <2>4. 0 .. N \subseteq S
    BY <2>1, <2>2, <2>3, InductionUpTo
  <2>5. ASSUME NEW j \in 1 .. n, i < j
        PROVE  spans[i][2] <= spans[j][1] /\ spans[i][1] < spans[j][1]
    <3>1. j - i - 1 \in 0 .. N /\ i + (j - i - 1) + 1 = j
      BY <1>1, <2>5
    <3>2. Good(j - i - 1)
      <4> HIDE DEF Good
      <4> QED BY <2>4, <3>1 DEF S
    <3>3. spans[i][2] <= spans[j][1]
      BY <3>1, <3>2
    <3>4. spans[i][1] < spans[i][2]
      BY DEF n
    <3>5. spans[i][1] \in Nat /\ spans[i][2] \in Nat /\ spans[j][1] \in Nat
      BY <1>2
    <3> QED BY <3>3, <3>4, <3>5
  <2> QED BY <2>5
<1> QED BY <1>3, <1>4

LEMMA ByteInSpan ==
    ASSUME NEW spans \in Seq(Nat \X Nat), spans # <<>>, spans[1][1] = 0,
           \A i \in 1 .. Len(spans) - 1 : spans[i + 1][1] = spans[i][2],
           NEW byte \in Nat, byte < spans[Len(spans)][2]
    PROVE  \E i \in 1 .. Len(spans) : spans[i][1] <= byte /\ byte < spans[i][2]
<1> DEFINE n == Len(spans)
           S == {i \in 1 .. n : spans[i][1] <= byte}
<1>1. n \in Nat /\ 1 \in 1 .. n /\ \A i \in 1 .. n : spans[i] \in Nat \X Nat
  OBVIOUS
<1>2. \A i \in 1 .. n : spans[i][1] \in Nat /\ spans[i][2] \in Nat
  BY <1>1
<1> HIDE DEF n
<1>3. 1 \in S /\ S \in SUBSET (0 .. n)
  <2>1. 1 \in 1 .. n /\ 1 .. n \subseteq 0 .. n
    BY <1>1
  <2> QED BY <2>1
<1>4. Max(S) \in S /\ \A i \in S : i <= Max(S)
  BY <1>1, <1>3, MaxIsGreatest
<1> DEFINE i == Max(S)
<1>5. i \in 1 .. n /\ spans[i][1] <= byte
  BY <1>4
<1>7. i + 1 \in S => i + 1 <= i
  BY <1>4
<1> HIDE DEF i
<1>6. byte < spans[i][2]
  <2>1. CASE i = n
    BY <2>1 DEF n
  <2>2. CASE i # n
    <3>1. i \in Nat /\ i \in 1 .. n - 1 /\ i + 1 \in 1 .. n
      BY ONLY <1>1, <1>5, <2>2
    <3>2. i + 1 \notin S
      <4>1. ~(i + 1 <= i)
        BY ONLY <3>1
      <4> QED BY <1>7, <4>1
    <3>3. ~(spans[i + 1][1] <= byte)
      BY <3>1, <3>2
    <3>4. spans[i + 1][1] = spans[i][2]
      BY <3>1 DEF n
    <3> QED BY <1>2, <1>5, <3>3, <3>4
  <2> QED BY <2>1, <2>2
<1> QED BY <1>5, <1>6 DEF n

\* A line is read whole, wrapped or not.
LEMMA WrappedTiles ==
    ASSUME NEW text \in CodeTexts, NEW number \in 1 .. Len(text), NEW width
    PROVE  Tiles(WrapSourceLine(number, text, width), number, ByteLen(text[number]))
<1> DEFINE spans == WrapRanges(text[number], width)
           side == WrapSourceLine(number, text, width)
           total == ByteLen(text[number])
<1>1. text[number] \in CodeLines /\ number \in Nat /\ number # Filler
  BY DEF CodeTexts, Filler
<1>2. /\ spans \in Seq(Nat \X Nat) /\ spans # <<>>
      /\ spans[1][1] = 0 /\ spans[Len(spans)][2] = total
      /\ \A i \in 1 .. Len(spans) - 1 : spans[i + 1][1] = spans[i][2]
      /\ text[number] # <<>> => \A i \in 1 .. Len(spans) : spans[i][1] < spans[i][2]
      /\ text[number] = <<>> => spans = <<<<0, 0>>>>
  BY <1>1, FragmentsTileTheLine
<1>3. side = SourcesOf(number, spans)
  BY <1>1 DEF WrapSourceLine
<1> HIDE DEF spans, side
<1>4. total \in Nat
  BY <1>1, BytesOfLine
<1> HIDE DEF total
<1>5. /\ Len(spans) \in Nat /\ 1 \in 1 .. Len(spans) /\ Len(spans) \in 1 .. Len(spans)
      /\ DOMAIN spans = 1 .. Len(spans) /\ \A i \in 1 .. Len(spans) : spans[i] \in Nat \X Nat
  BY <1>2
<1>6. /\ Len(side) = Len(spans)
      /\ \A i \in 1 .. Len(spans) : /\ side[i].line = number
                                    /\ side[i].from = spans[i][1] /\ side[i].to = spans[i][2]
  BY <1>3, <1>5 DEF SourcesOf, Source
<1>7. \A i, j \in 1 .. Len(spans) : i < j => spans[i][2] <= spans[j][1] /\ spans[i][1] < spans[j][1]
  <2>1. CASE text[number] # <<>>
    BY <1>2, <2>1, SpansAscend
  <2>2. CASE text[number] = <<>>
    <3>1. Len(spans) = 1
      BY <1>2, <2>2
    <3> QED BY <3>1
  <2> QED BY <2>1, <2>2
<1>8. \A i \in 1 .. Len(spans) : spans[i][2] <= total
  <2> SUFFICES ASSUME NEW i \in 1 .. Len(spans) PROVE spans[i][2] <= total
    OBVIOUS
  <2>1. CASE i = Len(spans)
    BY <1>2, <1>4, <2>1
  <2>2. CASE i # Len(spans)
    <3> DEFINE last == Len(spans)
    <3>1. i < last /\ last \in 1 .. last
      BY <1>5, <2>2
    <3>2. spans[i][2] <= spans[last][1] /\ spans[i][2] \in Nat /\ spans[last][1] \in Nat
      BY <1>5, <1>7, <3>1
    <3>3. spans[last][1] <= spans[last][2]
      <4>1. text[number] # <<>>
        <5> SUFFICES ASSUME text[number] = <<>> PROVE FALSE
          OBVIOUS
        <5>1. Len(spans) = 1
          BY <1>2
        <5> QED BY <2>2, <5>1
      <4>2. spans[last][1] < spans[last][2]
        BY <1>2, <3>1, <4>1
      <4>3. spans[last][1] \in Nat /\ spans[last][2] \in Nat
        BY <1>5
      <4> QED BY <4>2, <4>3
    <3>4. spans[last][2] = total
      BY <1>2
    <3> HIDE DEF last
    <3> QED BY <1>4, <3>2, <3>3, <3>4
  <2> QED BY <2>1, <2>2
<1>9. ASSUME NEW byte \in 0 .. total - 1
      PROVE  \E i \in 1 .. Len(spans) : spans[i][1] <= byte /\ byte < spans[i][2]
  <2>1. byte \in Nat /\ byte < spans[Len(spans)][2]
    BY <1>2, <1>4
  <2> QED BY <1>2, <2>1, ByteInSpan
<1>10. \A i \in 1 .. Len(side) : side[i].line = number /\ side[i].to <= total
  BY <1>6, <1>8
<1>11. \A i, j \in 1 .. Len(side) : i < j => side[i].to <= side[j].from /\ side[i].from < side[j].from
  BY <1>6, <1>7
<1>12. \E i \in 1 .. Len(side) : side[i].from = 0
  <2>1. 1 \in 1 .. Len(spans) /\ Len(side) = Len(spans) /\ side[1].from = spans[1][1]
    BY <1>5, <1>6
  <2>2. spans[1][1] = 0
    BY <1>2
  <2> QED BY <2>1, <2>2
<1>13. \A byte \in 0 .. total - 1 :
          \E i \in 1 .. Len(side) : side[i].from <= byte /\ byte < side[i].to
  BY <1>6, <1>9
<1>14. Tiles(side, number, total)
  BY <1>10, <1>11, <1>12, <1>13 DEF Tiles
<1> QED BY <1>14 DEF side, total

LEMMA UnwrappedTiles ==
    ASSUME NEW text \in CodeTexts, NEW number \in 1 .. Len(text)
    PROVE  /\ Tiles(UnwrappedSourceLine(number, text), number, ByteLen(text[number]))
           /\ UnwrappedSourceLine(number, text) = <<FromContent(number, text)>>
<1> DEFINE total == ByteLen(text[number])
           whole == Source(number, 0, total)
<1>1. number # Filler /\ total \in Nat
  <2>1. text[number] \in CodeLines
    BY DEF CodeTexts
  <2> QED BY <2>1, BytesOfLine DEF Filler, CodeTexts
<1>2. UnwrappedSourceLine(number, text) = <<whole>> /\ FromContent(number, text) = whole
  BY <1>1 DEF UnwrappedSourceLine, FromContent
<1>3. whole.line = number /\ whole.from = 0 /\ whole.to = total
  BY DEF Source
<1> HIDE DEF whole, total
<1>4. Tiles(<<whole>>, number, total)
  <2>1. Len(<<whole>>) = 1 /\ <<whole>>[1] = whole /\ 1 .. 1 = {1}
    OBVIOUS
  <2>2. total <= total /\ \A byte \in 0 .. total - 1 : 0 <= byte /\ byte < total
    BY <1>1
  <2>3. \A i, j \in {1} : ~(i < j)
    OBVIOUS
  <2> QED BY <1>3, <2>1, <2>2, <2>3 DEF Tiles
<1> QED BY <1>2, <1>4 DEF total

\* So do the rows that have its fragments on one side, in the text's terms.
LEMMA SideRead ==
    ASSUME NEW text \in CodeTexts, NEW number \in 0 .. Len(text),
           NEW side, Len(side) \in Nat, number = Filler => side = <<>>,
           number # Filler => Tiles(side, number, ByteLen(text[number])),
           NEW rows, Len(rows) \in Nat, Len(side) <= Len(rows), NEW v,
           \A i \in 1 .. Len(rows) : rows[i][v] = IF i <= Len(side) THEN side[i] ELSE FillerLine
    PROVE  RowsRead(rows, v, text, Only(number))
<1> DEFINE n == Len(rows)  m == Len(side)
<1>1. n \in Nat /\ m \in Nat /\ m <= n /\ 1 .. m \subseteq 1 .. n
  OBVIOUS
<1>2. FillerLine.line = Filler
  BY DEF FillerLine, Source
<1>3. CASE number = Filler
  <2>1. m = 0
    BY <1>3
  <2>2. \A i \in 1 .. n : rows[i][v] = FillerLine
    <3> HIDE DEF n, m
    <3>1. \A i \in 1 .. n : ~(i <= m)
      BY <1>1, <2>1
    <3> QED BY <3>1 DEF n, m
  <2>3. Only(number) = {}
    BY <1>3 DEF Only
  <2> QED BY <1>2, <2>2, <2>3 DEF RowsRead
<1>4. CASE number # Filler
  <2> DEFINE total == ByteLen(text[number])
  <2>1. Tiles(side, number, total) /\ Only(number) = {number}
    BY <1>4 DEF Only
  <2>2. \A i \in 1 .. m : rows[i][v] = side[i] /\ i \in 1 .. n
    BY <1>1
  <2>3. \A i \in 1 .. n : rows[i][v].line # Filler => i \in 1 .. m /\ rows[i][v] = side[i]
    BY <1>1, <1>2
  <2> HIDE DEF n, m, total
  <2>4. \A i \in 1 .. m : side[i].line = number /\ side[i].to <= total
    BY <2>1 DEF Tiles, m
  <2>5. \A i, j \in 1 .. n :
            i < j /\ rows[i][v].line # Filler /\ rows[j][v].line # Filler
            => Precedes(rows[i][v], rows[j][v])
    <3> SUFFICES ASSUME NEW i \in 1 .. n, NEW j \in 1 .. n, i < j,
                        rows[i][v].line # Filler, rows[j][v].line # Filler
                 PROVE  Precedes(rows[i][v], rows[j][v])
      OBVIOUS
    <3>1. i \in 1 .. m /\ j \in 1 .. m /\ rows[i][v] = side[i] /\ rows[j][v] = side[j]
      BY <2>3
    <3>2. side[i].to <= side[j].from /\ side[i].from < side[j].from
      BY <2>1, <3>1 DEF Tiles, m
    <3> QED BY <2>4, <3>1, <3>2 DEF Precedes
  <2>6. \A i \in 1 .. n : rows[i][v].line # Filler =>
            rows[i][v].line = number /\ rows[i][v].to <= ByteLen(text[rows[i][v].line])
    BY <2>3, <2>4 DEF total
  <2>7. \E i \in 1 .. n : rows[i][v].line = number /\ rows[i][v].from = 0
    <3>1. PICK i \in 1 .. m : side[i].from = 0
      BY <2>1 DEF Tiles, m
    <3> QED BY <2>2, <2>4, <3>1
  <2>8. ASSUME NEW byte \in 0 .. total - 1
        PROVE  \E i \in 1 .. n : /\ rows[i][v].line = number
                                 /\ rows[i][v].from <= byte /\ byte < rows[i][v].to
    <3>1. PICK i \in 1 .. m : side[i].from <= byte /\ byte < side[i].to
      BY <2>1 DEF Tiles, m
    <3> QED BY <2>2, <2>4, <3>1
  <2> QED BY <2>1, <2>5, <2>6, <2>7, <2>8 DEF RowsRead, n, total
<1> QED BY <1>3, <1>4

LEMMA ZippedReads ==
    ASSUME NEW o \in Seq(TerminalLines), NEW m \in Seq(TerminalLines)
    PROVE  LET rows == Zipped(o, m) IN
           /\ Len(rows) \in Nat /\ Len(o) <= Len(rows) /\ Len(m) <= Len(rows)
           /\ \A i \in 1 .. Len(rows) :
                 /\ rows[i].original = IF i <= Len(o) THEN o[i] ELSE FillerLine
                 /\ rows[i].modified = IF i <= Len(m) THEN m[i] ELSE FillerLine
<1> DEFINE height == Greatest(Greatest(Len(o), Len(m)), 1)
           rows == Zipped(o, m)
<1>1. height \in Nat /\ Len(o) <= height /\ Len(m) <= height
  BY DEF Greatest
<1>2. rows = [i \in 1 .. height |-> [original |-> Resize(o, height)[i],
                                     modified |-> Resize(m, height)[i]]]
  BY DEF Zipped
<1> HIDE DEF height, rows
<1>3. Len(rows) = height
  BY <1>1, <1>2
<1>4. \A i \in 1 .. height : /\ rows[i].original = Resize(o, height)[i]
                             /\ rows[i].modified = Resize(m, height)[i]
  BY <1>2
<1> QED BY <1>1, <1>3, <1>4 DEF Resize, rows

\* The rows of a view line read its lines.
LEMMA ViewLineRead ==
    ASSUME NEW texts, texts = [v \in Versions |-> texts[v]],
           NEW o, NEW m, texts.original = o, texts.modified = m,
           o \in CodeTexts, m \in CodeTexts,
           NEW l \in ViewLinesOf(o, m), NEW widths, NEW layout, NEW v \in Versions
    PROVE  /\ RowsRead(WrapViewLine(l, texts, widths, layout), v, texts[v], Only(l[v]))
           /\ RowsRead(FromViewLine(l, texts), v, texts[v], Only(l[v]))
<1>1. /\ l.original \in 0 .. Len(o) /\ l.modified \in 0 .. Len(m)
      /\ texts[v] \in CodeTexts /\ l[v] \in 0 .. Len(texts[v])
      /\ texts["original"] = o /\ texts["modified"] = m
  BY DEF ViewLinesOf, Versions
<1>2. RowsRead(WrapViewLine(l, texts, widths, layout), v, texts[v], Only(l[v]))
  <2> DEFINE Wraps(w) == layout # "inline" \/ (w = "modified" <=> l.modified # Filler)
             Side(w) == IF Wraps(w) THEN WrapSourceLine(l[w], texts[w], widths[w])
                        ELSE UnwrappedSourceLine(l[w], texts[w])
             rows == WrapViewLine(l, texts, widths, layout)
  <2>1. Side("original") \in Seq(TerminalLines)
    BY <1>1, WrappedAreLines, UnwrappedIsLine
  <2>2. Side("modified") \in Seq(TerminalLines)
    BY <1>1, WrappedAreLines, UnwrappedIsLine
  <2>3. rows = Zipped(Side("original"), Side("modified"))
    BY DEF WrapViewLine
  <2>4. l[v] = Filler => Side(v) = <<>>
    BY DEF WrapSourceLine, UnwrappedSourceLine
  <2>5. l[v] # Filler => Tiles(Side(v), l[v], ByteLen(texts[v][l[v]]))
    <3> SUFFICES ASSUME l[v] # Filler PROVE Tiles(Side(v), l[v], ByteLen(texts[v][l[v]]))
      OBVIOUS
    <3>1. l[v] \in 1 .. Len(texts[v])
      BY <1>1 DEF Filler
    <3>2. Tiles(WrapSourceLine(l[v], texts[v], widths[v]), l[v], ByteLen(texts[v][l[v]]))
      BY <1>1, <3>1, WrappedTiles
    <3>3. Tiles(UnwrappedSourceLine(l[v], texts[v]), l[v], ByteLen(texts[v][l[v]]))
      BY <1>1, <3>1, UnwrappedTiles
    <3>4. Side(v) = WrapSourceLine(l[v], texts[v], widths[v]) \/ Side(v) = UnwrappedSourceLine(l[v], texts[v])
      OBVIOUS
    <3> HIDE DEF Side
    <3> QED BY <3>2, <3>3, <3>4
  <2> HIDE DEF Side, rows
  <2>6. /\ Len(rows) \in Nat /\ Len(Side(v)) \in Nat /\ Len(Side(v)) <= Len(rows)
        /\ \A i \in 1 .. Len(rows) : rows[i][v] = IF i <= Len(Side(v)) THEN Side(v)[i] ELSE FillerLine
    BY <2>1, <2>2, <2>3, ZippedReads DEF Versions
  <2>7. RowsRead(rows, v, texts[v], Only(l[v]))
    BY <1>1, <2>4, <2>5, <2>6, SideRead
  <2> QED BY <2>7 DEF rows
<1>3. RowsRead(FromViewLine(l, texts), v, texts[v], Only(l[v]))
  <2> DEFINE rows == FromViewLine(l, texts)
             side == UnwrappedSourceLine(l[v], texts[v])
             whole == FromContent(l[v], texts[v])
  <2>1. Len(rows) = 1 /\ \A i \in 1 .. 1 : rows[i][v] = whole
    BY DEF FromViewLine
  <2>2. CASE l[v] = Filler
    <3>1. side = <<>> /\ whole = FillerLine
      BY <2>2 DEF UnwrappedSourceLine, FromContent
    <3> HIDE DEF rows, side, whole
    <3>2. Len(side) = 0 /\ \A i \in 1 .. 1 : ~(i <= 0)
      BY <3>1
    <3>3. RowsRead(rows, v, texts[v], Only(l[v]))
      BY <1>1, <2>1, <2>2, <3>1, <3>2, SideRead
    <3> QED BY <3>3 DEF rows
  <2>3. CASE l[v] # Filler
    <3>1. l[v] \in 1 .. Len(texts[v])
      BY <1>1, <2>3 DEF Filler
    <3>2. side = <<whole>> /\ Tiles(side, l[v], ByteLen(texts[v][l[v]]))
      BY <1>1, <3>1, UnwrappedTiles
    <3> HIDE DEF rows, side, whole
    <3>3. Len(side) = 1 /\ \A i \in 1 .. 1 : i <= 1 /\ side[i] = whole
      BY <3>2
    <3>5. \A i \in 1 .. Len(rows) : rows[i][v] = IF i <= Len(side) THEN side[i] ELSE FillerLine
      BY <2>1, <3>3
    <3>6. Len(rows) \in Nat /\ Len(side) \in Nat /\ Len(side) <= Len(rows)
      BY <2>1, <3>3
    <3>4. RowsRead(rows, v, texts[v], Only(l[v]))
      BY <1>1, <2>3, <3>2, <3>5, <3>6, SideRead
    <3> QED BY <3>4 DEF rows
  <2> QED BY <2>2, <2>3
<1> QED BY <1>2, <1>3

LEMMA ReadJoined ==
    ASSUME NEW T, NEW s \in Seq(T), NEW t \in Seq(T), NEW v, NEW text, NEW S, NEW U,
           RowsRead(s, v, text, S), RowsRead(t, v, text, U),
           \A n \in S : \A k \in U : n < k
    PROVE  RowsRead(s \o t, v, text, S \cup U)
<1> DEFINE j == s \o t
           n == Len(s)
           m == Len(t)
<1>1. /\ n \in Nat /\ m \in Nat /\ Len(j) = n + m
      /\ \A i \in 1 .. n : j[i] = s[i]
      /\ \A i \in n + 1 .. n + m : j[i] = t[i - n] /\ i - n \in 1 .. m
      /\ \A i \in 1 .. n + m : i \in 1 .. n \/ i \in n + 1 .. n + m
  OBVIOUS
<1> HIDE DEF j
<1>2. ASSUME NEW i \in 1 .. n + m, j[i][v].line # Filler
      PROVE  j[i][v].line \in S \cup U /\ j[i][v].to <= ByteLen(text[j[i][v].line])
  <2>1. CASE i \in 1 .. n
    <3>1. j[i] = s[i]
      BY <1>1, <2>1
    <3> QED BY <1>2, <2>1, <3>1 DEF RowsRead
  <2>2. CASE i \in n + 1 .. n + m
    <3>1. j[i] = t[i - n] /\ i - n \in 1 .. m
      BY <1>1, <2>2
    <3> QED BY <1>2, <3>1 DEF RowsRead
  <2> QED BY <1>1, <2>1, <2>2
<1>3. ASSUME NEW i \in 1 .. n + m, NEW k \in 1 .. n + m, i < k,
             j[i][v].line # Filler, j[k][v].line # Filler
      PROVE  Precedes(j[i][v], j[k][v])
  <2>1. CASE i \in 1 .. n /\ k \in 1 .. n
    BY <1>1, <1>3, <2>1 DEF RowsRead
  <2>2. CASE i \in n + 1 .. n + m /\ k \in n + 1 .. n + m
    <3>1. i - n < k - n /\ i - n \in 1 .. m /\ k - n \in 1 .. m
      BY <1>1, <1>3, <2>2
    <3>2. j[i] = t[i - n] /\ j[k] = t[k - n]
      BY <1>1, <2>2
    <3> QED BY <1>3, <3>1, <3>2 DEF RowsRead
  <2>3. CASE i \in 1 .. n /\ k \in n + 1 .. n + m
    <3>1. j[i] = s[i] /\ j[k] = t[k - n] /\ k - n \in 1 .. m
      BY <1>1, <2>3
    <3>2. j[i][v].line \in S /\ j[k][v].line \in U
      BY <1>3, <2>3, <3>1 DEF RowsRead
    <3> QED BY <3>2 DEF Precedes
  <2> QED BY <1>1, <1>3, <2>1, <2>2, <2>3
<1>4. ASSUME NEW x \in S \cup U
      PROVE  /\ \E i \in 1 .. n + m : j[i][v].line = x /\ j[i][v].from = 0
             /\ \A byte \in 0 .. ByteLen(text[x]) - 1 :
                   \E i \in 1 .. n + m : j[i][v].line = x /\ j[i][v].from <= byte /\ byte < j[i][v].to
  <2> DEFINE Has(rows, i, byte) == /\ rows[i][v].line = x
                                   /\ rows[i][v].from <= byte /\ byte < rows[i][v].to
             Begins(rows, i) == rows[i][v].line = x /\ rows[i][v].from = 0
  <2>1. /\ \A i \in 1 .. n : i \in 1 .. n + m /\ j[i] = s[i]
        /\ \A i \in 1 .. m : n + i \in 1 .. n + m /\ j[n + i] = t[i]
    <3>1. \A i \in 1 .. m : n + i \in n + 1 .. n + m /\ (n + i) - n = i /\ n + i \in 1 .. n + m
      BY <1>1
    <3>2. \A i \in 1 .. n : i \in 1 .. n + m
      BY <1>1
    <3> QED BY <1>1, <3>1, <3>2
  <2> HIDE DEF j
  <2>2. CASE x \in S
    <3>1. PICK i \in 1 .. n : Begins(s, i)
      BY <2>2 DEF RowsRead
    <3>2. \A byte \in 0 .. ByteLen(text[x]) - 1 : \E p \in 1 .. n : Has(s, p, byte)
      BY <2>2 DEF RowsRead
    <3>3. i \in 1 .. n + m /\ j[i][v].line = x /\ j[i][v].from = 0
      BY <2>1, <3>1
    <3>4. ASSUME NEW byte \in 0 .. ByteLen(text[x]) - 1
          PROVE  \E p \in 1 .. n + m : j[p][v].line = x /\ j[p][v].from <= byte /\ byte < j[p][v].to
      <4>1. PICK p \in 1 .. n : Has(s, p, byte)
        BY <3>2
      <4>2. p \in 1 .. n + m /\ j[p] = s[p]
        BY <2>1
      <4> QED BY <4>1, <4>2
    <3> QED BY <3>3, <3>4
  <2>3. CASE x \in U
    <3>1. PICK i \in 1 .. m : Begins(t, i)
      BY <2>3 DEF RowsRead
    <3>2. \A byte \in 0 .. ByteLen(text[x]) - 1 : \E p \in 1 .. m : Has(t, p, byte)
      BY <2>3 DEF RowsRead
    <3>3. n + i \in 1 .. n + m /\ j[n + i][v].line = x /\ j[n + i][v].from = 0
      BY <2>1, <3>1
    <3>4. ASSUME NEW byte \in 0 .. ByteLen(text[x]) - 1
          PROVE  \E p \in 1 .. n + m : j[p][v].line = x /\ j[p][v].from <= byte /\ byte < j[p][v].to
      <4>1. PICK p \in 1 .. m : Has(t, p, byte)
        BY <3>2
      <4>2. n + p \in 1 .. n + m /\ j[n + p] = t[p]
        BY <2>1
      <4> QED BY <4>1, <4>2
    <3> QED BY <3>3, <3>4
  <2> QED BY <2>2, <2>3
<1> QED BY <1>1, <1>2, <1>3, <1>4 DEF RowsRead, j

ReadUpTo(T, lines, v, text) ==
    {p \in (0 .. Len(lines)) \X Seq(T) : RowsRead(p[2], v, text, ShownBy(lines, v, p[1]))}

\* The rows of view lines read what these show.
LEMMA RowsReadTheLines ==
    ASSUME NEW texts, texts = [v \in Versions |-> texts[v]],
           NEW o \in CodeTexts, NEW m \in CodeTexts, texts.original = o, texts.modified = m,
           NEW lines \in Seq(ViewLinesOf(o, m)), NEW widths, NEW layout, NEW wrap,
           NEW v \in Versions, NEW S, Filler \notin S, ShowsLines(lines, v, S)
    PROVE  RowsRead(TerminalRows(lines, texts, widths, layout, wrap), v, texts[v], S)
<1> DEFINE Of(l) == IF wrap THEN WrapViewLine(l, texts, widths, layout) ELSE FromViewLine(l, texts)
           parts == [i \in DOMAIN lines |-> Of(lines[i])]
           N == Len(lines)
           text == texts[v]
           P == ReadUpTo(PairsOfLines, lines, v, text)
<1>1. DOMAIN lines = 1 .. N /\ N \in Nat
  OBVIOUS
<1>2. \A i \in 1 .. N : lines[i] \in ViewLinesOf(o, m)
  OBVIOUS
<1>3. \A l \in ViewLinesOf(o, m) :
          Of(l) \in Seq(PairsOfLines) /\ RowsRead(Of(l), v, text, Only(l[v]))
  BY RowsOfViewLine, ViewLineRead
<1>4. TerminalRows(lines, texts, widths, layout, wrap) = FlattenSeq(parts)
  BY DEF TerminalRows
<1> HIDE DEF Of
<1>5. parts = [i \in 1 .. N |-> Of(lines[i])]
  BY <1>1
<1> HIDE DEF parts, text
<1>6. parts \in Seq(Seq(PairsOfLines)) /\ Len(parts) = N
  BY <1>1, <1>2, <1>3, <1>5
<1>7. <<0, <<>>>> \in P
  <2>1. ShownBy(lines, v, 0) = {}
    BY DEF ShownBy
  <2>2. RowsRead(<<>>, v, text, {})
    BY DEF RowsRead
  <2>3. 0 \in 0 .. N /\ <<>> \in Seq(PairsOfLines)
    BY <1>1
  <2> QED BY <2>1, <2>2, <2>3 DEF ReadUpTo
<1>8. ASSUME NEW n \in 0 .. N - 1, NEW rows \in Seq(PairsOfLines), <<n, rows>> \in P
      PROVE  <<n + 1, rows \o parts[n + 1]>> \in P
  <2> DEFINE l == lines[n + 1]
  <2>1. n + 1 \in 1 .. N /\ n + 1 \in 0 .. N /\ n \in Nat
    BY <1>1
  <2>2. RowsRead(rows, v, text, ShownBy(lines, v, n))
    BY <1>8 DEF ReadUpTo
  <2>3. /\ parts[n + 1] = Of(l) /\ Of(l) \in Seq(PairsOfLines)
        /\ RowsRead(Of(l), v, text, Only(l[v]))
    BY <1>2, <1>3, <1>5, <2>1
  <2>4. \A x \in ShownBy(lines, v, n) : \A y \in Only(l[v]) : x < y
    <3> SUFFICES ASSUME NEW i \in 1 .. n, lines[i][v] # Filler, l[v] # Filler
                 PROVE  lines[i][v] < l[v]
      BY DEF ShownBy, Only
    <3>1. i \in 1 .. N /\ i < n + 1
      BY <1>1, <2>1
    <3> QED BY <2>1, <3>1 DEF ShowsLines
  <2>5. ShownBy(lines, v, n + 1) = ShownBy(lines, v, n) \cup Only(l[v])
    <3>1. 1 .. n + 1 = (1 .. n) \cup {n + 1}
      BY <2>1
    <3> QED BY <3>1 DEF ShownBy, Only
  <2> HIDE DEF l
  <2>6. RowsRead(rows \o Of(l), v, text, ShownBy(lines, v, n) \cup Only(l[v]))
    BY <2>2, <2>3, <2>4, ReadJoined
  <2>7. rows \o Of(l) \in Seq(PairsOfLines)
    BY <2>3
  <2> QED BY <2>1, <2>3, <2>5, <2>6, <2>7 DEF ReadUpTo
<1> HIDE DEF P, N
<1>9. <<N, FlattenSeq(parts)>> \in P
  BY <1>6, <1>7, <1>8, FlattenInduction
<1>10. RowsRead(FlattenSeq(parts), v, text, ShownBy(lines, v, N))
  BY <1>9 DEF P, ReadUpTo
<1>11. ShownBy(lines, v, N) = S
  BY DEF ShownBy, ShowsLines, N
<1> QED BY <1>4, <1>10, <1>11 DEF text

--------------------------------------------------------------------------------
(* What the engine answers *)

\* Where the characters of a change end, after the cast and the normalisation: no
\* further than the change, whether they are taken to the next line or not.
LEMMA InnerStaysIn ==
    ASSUME NEW inner \in [original : CharRanges, modified : CharRanges],
           NEW change \in Mappings, EndsInside(inner, change),
           NEW texts, \A v \in Versions : /\ Len(texts[v]) \in Nat
                                          /\ NonNegative(change[v].end) \in 1 .. Len(texts[v]) + 1
    PROVE  LET r == NormaliseMapping([v \in Versions |-> CharRange_(inner[v])], texts) IN
           \A v \in Versions : InnerIn(r[v], NonNegative(change[v].end))
<1> DEFINE b == [v \in Versions |-> CharRange_(inner[v])]
           r == NormaliseMapping(b, texts)
<1>1. \A v \in Versions : inner[v] \in CharRanges /\ change[v] \in LineRanges
  BY DEF Versions, Mappings
<1>2. \A v \in Versions :
         /\ inner[v].startLine \in Int /\ inner[v].endLine \in Int
         /\ inner[v].endCol \in Int /\ change[v].end \in Int
  BY <1>1 DEF CharRanges, LineRanges
<1>3. \A v \in Versions : /\ b[v].startLine = NonNegative(inner[v].startLine)
                          /\ b[v].endLine = NonNegative(inner[v].endLine)
                          /\ b[v].endCol = NonNegative(inner[v].endCol)
  BY DEF CharRange_
<1>4. \A v \in Versions : /\ b[v].startLine \in Nat /\ b[v].endLine \in Nat
                          /\ b[v].startLine <= b[v].endLine
                          /\ change[v].end = NonNegative(change[v].end)
  <2> SUFFICES ASSUME NEW v \in Versions
               PROVE  /\ b[v].startLine \in Nat /\ b[v].endLine \in Nat
                      /\ b[v].startLine <= b[v].endLine
                      /\ change[v].end = NonNegative(change[v].end)
    OBVIOUS
  <2>1. inner[v].startLine <= inner[v].endLine
    BY DEF EndsInside
  <2> HIDE DEF b
  <2> QED BY <1>2, <1>3, <2>1 DEF NonNegative, Greatest
<1>5. CASE \A v \in Versions : inner[v].endLine < change[v].end
  <2>1. \A v \in Versions : b[v].endLine + 1 <= NonNegative(change[v].end)
    <3> SUFFICES ASSUME NEW v \in Versions PROVE b[v].endLine + 1 <= NonNegative(change[v].end)
      OBVIOUS
    <3>1. /\ change[v].end \in 1 .. Len(texts[v]) + 1 /\ inner[v].endLine < change[v].end
          /\ Len(texts[v]) \in Nat /\ inner[v].endLine \in Int
          /\ b[v].endLine = NonNegative(inner[v].endLine)
      BY <1>2, <1>3, <1>4, <1>5
    <3> HIDE DEF b
    <3> QED BY <3>1 DEF NonNegative, Greatest
  <2>2. ASSUME NEW v \in Versions
        PROVE  /\ InnerIn(b[v], NonNegative(change[v].end))
               /\ InnerIn(Extend(b[v]), NonNegative(change[v].end))
    <3>1. /\ b[v].startLine \in Nat /\ b[v].endLine \in Nat /\ b[v].startLine <= b[v].endLine
          /\ b[v].endLine + 1 <= NonNegative(change[v].end) /\ NonNegative(change[v].end) \in Nat
      BY <1>4, <2>1
    <3>2. /\ Extend(b[v]).startLine = b[v].startLine
          /\ Extend(b[v]).endLine = b[v].endLine + 1
      BY DEF Extend, CharRange_
    <3> HIDE DEF b
    <3> QED BY <3>1, <3>2 DEF InnerIn
  <2>3. r = b \/ r = [v \in Versions |-> Extend(b[v])]
    <3> HIDE DEF b
    <3> QED BY DEF NormaliseMapping
  <2> HIDE DEF b, r
  <2> QED BY <2>2, <2>3 DEF r, b
<1>6. CASE \A v \in Versions : inner[v].endLine <= change[v].end /\ inner[v].endCol = 1
  <2>1. \A v \in Versions : b[v].endCol = 1
    BY <1>3, <1>6 DEF NonNegative, Greatest
  <2>2. r = b
    <3> HIDE DEF b
    <3> QED BY <2>1 DEF NormaliseMapping, ShouldExtend
  <2>3. ASSUME NEW v \in Versions PROVE InnerIn(b[v], NonNegative(change[v].end))
    <3>1. /\ b[v].startLine \in Nat /\ b[v].endLine \in Nat /\ b[v].startLine <= b[v].endLine
          /\ b[v].endLine = NonNegative(inner[v].endLine) /\ inner[v].endLine \in Int
          /\ inner[v].endLine <= change[v].end /\ change[v].end \in 1 .. Len(texts[v]) + 1
          /\ Len(texts[v]) \in Nat
      BY <1>2, <1>3, <1>4, <1>6
    <3> HIDE DEF b
    <3> QED BY <3>1 DEF InnerIn, NonNegative, Greatest
  <2> HIDE DEF b, r
  <2> QED BY <2>2, <2>3 DEF r, b
<1>7. \/ \A v \in Versions : inner[v].endLine < change[v].end
      \/ \A v \in Versions : inner[v].endLine <= change[v].end /\ inner[v].endCol = 1
  BY DEF EndsInside
<1> QED BY <1>5, <1>6, <1>7

\* What is accepted of an answer is an alignment of the texts.
LEMMA AcceptedIsAlignment ==
    ASSUME NEW raw, IsAnswer(raw), ~raw.isNull,
           NEW original \in CodeTexts, NEW modified \in CodeTexts,
           TryWithOptions(TakeDiff(raw), original, modified) # Malformed
    PROVE  AlignmentIn(TryWithOptions(TakeDiff(raw), original, modified))
<1> DEFINE o == NormaliseText(original)  m == NormaliseText(modified)
           texts == [original |-> o, modified |-> m]
           k == Len(raw.changes)
           taken == TakeDiff(raw)
           changes == NormaliseDiff(taken, texts)
           a == TryWithOptions(taken, original, modified)
<1>1. o \in CodeTexts /\ m \in CodeTexts /\ Len(o) \in Nat /\ Len(m) \in Nat
  BY DEF NormaliseText, CodeTexts, CodeLines
<1>2. /\ IsWellFormed(changes, texts)
      /\ a = [original |-> o, modified |-> m, changes |-> changes]
  BY DEF TryWithOptions
<1>3. /\ raw.changes \in Seq(Mappings) /\ k \in Nat /\ DOMAIN raw.changes = 1 .. k
      /\ \A i \in 1 .. k : \A j \in DOMAIN raw.changes[i].inner :
            EndsInside(raw.changes[i].inner[j], raw.changes[i])
  BY DEF IsAnswer
<1>4. taken = [i \in 1 .. k |->
                  [original |-> LineRange_(raw.changes[i].original),
                   modified |-> LineRange_(raw.changes[i].modified),
                   inner |-> InnerChanges(raw.changes[i].inner)]]
  BY <1>3 DEF TakeDiff
<1> HIDE DEF taken, k
<1>5. /\ DOMAIN changes = 1 .. k
      /\ \A i \in 1 .. k :
            /\ changes[i].original = LineRange_(raw.changes[i].original)
            /\ changes[i].modified = LineRange_(raw.changes[i].modified)
            /\ changes[i].inner = [j \in DOMAIN InnerChanges(raw.changes[i].inner) |->
                                      NormaliseMapping(InnerChanges(raw.changes[i].inner)[j], texts)]
  BY <1>4 DEF NormaliseDiff
<1>6. changes = [i \in 1 .. k |-> changes[i]]
  BY <1>4 DEF NormaliseDiff
<1>7. /\ texts["original"] = o /\ texts["modified"] = m
      /\ texts.original = o /\ texts.modified = m
  OBVIOUS
<1> HIDE DEF changes, texts, o, m, a
<1>8. Len(changes) = k
  BY <1>3, <1>6
<1>9. \A i \in 1 .. k :
         /\ changes[i].original.start >= EndBefore(changes, i, "original")
         /\ changes[i].modified.start >= EndBefore(changes, i, "modified")
         /\ changes[i].original.end >= changes[i].original.start
         /\ changes[i].modified.end >= changes[i].modified.start
         /\ changes[i].original.end <= Len(o) + 1 /\ changes[i].modified.end <= Len(m) + 1
         /\ changes[i].original.start - EndBefore(changes, i, "original")
               = changes[i].modified.start - EndBefore(changes, i, "modified")
  BY <1>2, <1>5, <1>7 DEF IsWellFormed, Versions
<1>10. \A i \in 1 .. k : /\ raw.changes[i].original \in LineRanges
                         /\ raw.changes[i].modified \in LineRanges
                         /\ raw.changes[i] \in Mappings
                         /\ raw.changes[i].inner \in Seq([original : CharRanges, modified : CharRanges])
  <2>1. \A i \in 1 .. k : raw.changes[i] \in Mappings
    BY <1>3
  <2> QED BY <2>1 DEF Mappings
<1>11. \A i \in 1 .. k :
          /\ changes[i].original.start \in Nat /\ changes[i].original.end \in Nat
          /\ changes[i].modified.start \in Nat /\ changes[i].modified.end \in Nat
  <2> SUFFICES ASSUME NEW i \in 1 .. k
               PROVE  /\ changes[i].original.start \in Nat /\ changes[i].original.end \in Nat
                      /\ changes[i].modified.start \in Nat /\ changes[i].modified.end \in Nat
    OBVIOUS
  <2>1. \A range_ \in LineRanges : LineRange_(range_).start \in Nat /\ LineRange_(range_).end \in Nat
    BY DEF LineRanges, LineRange_, NonNegative, Greatest
  <2> QED BY <1>5, <1>10, <2>1
\* By induction, no change begins before the first line.
<1> DEFINE S == {n \in Nat : n # 0 => /\ changes[n].original.start >= 1
                                      /\ changes[n].modified.start >= 1}
<1>12. 0 .. k \subseteq S
  <2>1. 0 \in S
    OBVIOUS
  <2>2. ASSUME NEW n \in 0 .. k - 1, n \in S PROVE n + 1 \in S
    <3>1. n + 1 \in 1 .. k /\ (n + 1) - 1 = n
      BY <1>3
    <3>2. CASE n = 0
      <4>1. EndBefore(changes, n + 1, "original") = 1 /\ EndBefore(changes, n + 1, "modified") = 1
        BY <3>2 DEF EndBefore
      <4> QED BY <1>9, <3>1, <4>1
    <3>3. CASE n # 0
      <4>1. n \in 1 .. k /\ n + 1 # 1
        BY <3>1, <3>3, <1>3
      <4>2. /\ EndBefore(changes, n + 1, "original") = changes[n].original.end
            /\ EndBefore(changes, n + 1, "modified") = changes[n].modified.end
        BY <3>1, <4>1 DEF EndBefore
      <4>3. changes[n].original.start >= 1 /\ changes[n].modified.start >= 1
        BY <2>2, <3>3
      <4>4. changes[n].original.end >= 1 /\ changes[n].modified.end >= 1
        BY <1>9, <1>11, <4>1, <4>3
      <4>5. /\ changes[n + 1].original.start >= changes[n].original.end
            /\ changes[n + 1].modified.start >= changes[n].modified.end
        BY <1>9, <3>1, <4>2
      <4>6. changes[n + 1].original.start >= 1 /\ changes[n + 1].modified.start >= 1
        BY <1>11, <3>1, <4>1, <4>4, <4>5
      <4> QED BY <4>6
    <3> QED BY <3>2, <3>3
  <2> HIDE DEF S
  <2> QED BY <1>3, <2>1, <2>2, InductionUpTo
<1>13. ASSUME NEW i \in 1 .. k PROVE ChangeIn(changes[i], o, m)
  <2>1. changes[i].original.start >= 1 /\ changes[i].modified.start >= 1
    BY <1>3, <1>12
  <2>2. InText(changes[i].original, o) /\ InText(changes[i].modified, m)
    <3>1. /\ changes[i].original.start \in Nat /\ changes[i].original.end \in Nat
          /\ changes[i].modified.start \in Nat /\ changes[i].modified.end \in Nat
      BY <1>11
    <3>2. /\ changes[i].original.start <= changes[i].original.end
          /\ changes[i].modified.start <= changes[i].modified.end
          /\ changes[i].original.end <= Len(o) + 1 /\ changes[i].modified.end <= Len(m) + 1
          /\ 1 <= changes[i].original.start /\ 1 <= changes[i].modified.start
      BY <1>9, <2>1, <3>1
    <3> QED BY <1>1, <3>1, <3>2, IsInText
  <2> DEFINE inner == raw.changes[i].inner
             n == Len(inner)
  <2>3. n \in Nat /\ DOMAIN inner = 1 .. n
    BY <1>10
  <2>4. InnerChanges(inner) = [j \in 1 .. n |-> [v \in Versions |-> CharRange_(inner[j][v])]]
    BY <2>3 DEF InnerChanges
  <2> HIDE DEF n
  <2>5. changes[i].inner = [j \in 1 .. n |->
                               NormaliseMapping([v \in Versions |-> CharRange_(inner[j][v])], texts)]
    <3>1. changes[i].inner = [j \in DOMAIN InnerChanges(inner) |->
                                 NormaliseMapping(InnerChanges(inner)[j], texts)]
      BY <1>5
    <3> HIDE DEF inner
    <3>2. /\ DOMAIN InnerChanges(inner) = 1 .. n
          /\ \A j \in 1 .. n : InnerChanges(inner)[j] = [v \in Versions |-> CharRange_(inner[j][v])]
      BY <2>4
    <3> QED BY <3>1, <3>2
  <2>6. Len(changes[i].inner) = n /\ DOMAIN changes[i].inner = 1 .. n
    BY <2>3, <2>5
  <2>7. ASSUME NEW j \in 1 .. n
        PROVE  /\ InnerIn(changes[i].inner[j].original, changes[i].original.end)
               /\ InnerIn(changes[i].inner[j].modified, changes[i].modified.end)
    <3>1. inner[j] \in [original : CharRanges, modified : CharRanges] /\ raw.changes[i] \in Mappings
      <4> DEFINE Pairs_ == [original : CharRanges, modified : CharRanges]
      <4>1. inner \in Seq(Pairs_) /\ raw.changes[i] \in Mappings
        BY <1>10
      <4> HIDE DEF inner, Pairs_
      <4>2. \A t \in DOMAIN inner : inner[t] \in Pairs_
        BY <4>1
      <4>3. inner[j] \in Pairs_
        BY <2>3, <4>2
      <4> QED BY <4>1, <4>3 DEF Pairs_
    <3>2. EndsInside(inner[j], raw.changes[i])
      BY <1>3, <2>3
    <3>3. /\ NonNegative(raw.changes[i].original.end) = changes[i].original.end
          /\ NonNegative(raw.changes[i].modified.end) = changes[i].modified.end
      <4>1. /\ changes[i].original = LineRange_(raw.changes[i].original)
            /\ changes[i].modified = LineRange_(raw.changes[i].modified)
        BY <1>5
      <4> QED BY <4>1 DEF LineRange_
    <3>4. /\ changes[i].original.end \in 1 .. Len(o) + 1
          /\ changes[i].modified.end \in 1 .. Len(m) + 1
      BY <1>1, <2>2, EndInText
    <3>5. \A v \in Versions : /\ Len(texts[v]) \in Nat
                              /\ NonNegative(raw.changes[i][v].end) \in 1 .. Len(texts[v]) + 1
      BY <1>1, <1>7, <3>3, <3>4 DEF Versions
    <3> DEFINE r == NormaliseMapping([v \in Versions |-> CharRange_(inner[j][v])], texts)
    <3>6. \A v \in Versions : InnerIn(r[v], NonNegative(raw.changes[i][v].end))
      <4> HIDE DEF inner
      <4> QED BY <3>1, <3>2, <3>5, InnerStaysIn
    <3>7. changes[i].inner[j] = r
      BY <2>5
    <3> HIDE DEF r
    <3> QED BY <3>3, <3>6, <3>7 DEF Versions
  <2> HIDE DEF inner
  <2> QED BY <2>2, <2>3, <2>6, <2>7 DEF ChangeIn
<1>14. ASSUME NEW i \in 1 .. k PROVE Follows(changes, i)
  <2>1. changes[i].original.start \in Nat /\ changes[i].modified.start \in Nat
    BY <1>11
  <2>2. EndBefore(changes, i, "original") \in Nat /\ EndBefore(changes, i, "modified") \in Nat
    <3>1. i = 1 \/ i - 1 \in 1 .. k
      BY <1>3
    <3> QED BY <1>11, <3>1 DEF EndBefore
  <2> QED BY <1>9, <2>1, <2>2 DEF Follows
<1>15. a.original = o /\ a.modified = m /\ a.changes = changes
  BY <1>2
<1> HIDE DEF S
<1>16. Len(o) - EndBefore(changes, k + 1, "original") = Len(m) - EndBefore(changes, k + 1, "modified")
  BY <1>2, <1>7, <1>8 DEF IsWellFormed
<1>17. AlignmentIn(a)
  BY <1>1, <1>3, <1>5, <1>8, <1>13, <1>14, <1>15, <1>16 DEF AlignmentIn
<1> QED BY <1>17 DEF a, taken

\* What the fold over the files goes through, as a function.
AnyOf(s) == CHOOSE name \in s : TRUE
AnsweredFor(f) ==
    f = [s \in SUBSET DOMAIN Reads |->
            IF s = {} THEN <<>> ELSE Answered(AnyOf(s), f[s \ {AnyOf(s)}])]

\* Each file is answered as a request for it is.
LEMMA ContentsOfFiles == Contents = [name \in DOMAIN Reads |-> Compare(Reads[name])]
<1> DEFINE D == DOMAIN Reads
           Whole(s) == [name \in s |-> Compare(Reads[name])]
           f == CHOOSE f : AnsweredFor(f)
           g == [s \in SUBSET D |-> Whole(s)]
<1>1. \A s \in SUBSET D : s # {} => AnyOf(s) \in s /\ s \ {AnyOf(s)} \in SUBSET D
  BY DEF AnyOf
<1>2. \A s \in SUBSET D : s # {} => Answered(AnyOf(s), Whole(s \ {AnyOf(s)})) = Whole(s)
  <2> SUFFICES ASSUME NEW s \in SUBSET D, s # {}
               PROVE  Answered(AnyOf(s), Whole(s \ {AnyOf(s)})) = Whole(s)
    OBVIOUS
  <2> DEFINE x == AnyOf(s)
             known == Whole(s \ {x})
  <2>1. x \in s
    BY <1>1
  <2> HIDE DEF x
  <2>2. DOMAIN known = s \ {x} /\ \A n \in s \ {x} : known[n] = Compare(Reads[n])
    OBVIOUS
  <2>3. DOMAIN known \cup {x} = s
    BY <2>1, <2>2
  <2>4. Answered(x, known) = [n \in s |-> IF n = x THEN Compare(Reads[x]) ELSE known[n]]
    BY <2>3 DEF Answered
  <2>5. \A n \in s : (IF n = x THEN Compare(Reads[x]) ELSE known[n]) = Compare(Reads[n])
    BY <2>2
  <2> HIDE DEF known
  <2>6. Answered(x, known) = Whole(s)
    BY <2>4, <2>5
  <2> QED BY <2>6 DEF x, known
<1>3. <<>> = Whole({})
  OBVIOUS
<1>4. AnsweredFor(g)
  <2>1. ASSUME NEW s \in SUBSET D
        PROVE  g[s] = IF s = {} THEN <<>> ELSE Answered(AnyOf(s), g[s \ {AnyOf(s)}])
    <3> HIDE DEF Whole
    <3>1. CASE s = {}
      BY <1>3, <3>1
    <3>2. CASE s # {}
      <4>1. g[s \ {AnyOf(s)}] = Whole(s \ {AnyOf(s)}) /\ g[s] = Whole(s)
        BY <1>1, <3>2
      <4>2. Answered(AnyOf(s), Whole(s \ {AnyOf(s)})) = Whole(s)
        BY <1>2, <3>2
      <4> HIDE DEF g
      <4> QED BY <3>2, <4>1, <4>2
    <3> QED BY <3>1, <3>2
  <2>2. g = [s \in SUBSET D |-> g[s]]
    OBVIOUS
  <2> HIDE DEF g
  <2> QED BY <2>1, <2>2 DEF AnsweredFor
<1>5. AnsweredFor(f)
  <2> HIDE DEF g
  <2> QED BY <1>4
<1>6. Contents = f[D]
  BY DEF Contents, FoldSet, MapThenFoldSet, AnsweredFor, AnyOf
<1> HIDE DEF f
<1>7. \A s \in SUBSET D : f[s] = IF s = {} THEN <<>> ELSE Answered(AnyOf(s), f[s \ {AnyOf(s)}])
  BY <1>5 DEF AnsweredFor
<1>8. IsFiniteSet(D)
  BY ReadsAssumption DEF ReadsAssumption
<1> HIDE DEF D, Whole, g
<1> DEFINE S == {n \in Nat : \A s \in SUBSET D : Cardinality(s) = n => f[s] = Whole(s)}
<1>9. 0 \in S
  <2> SUFFICES ASSUME NEW s \in SUBSET D, Cardinality(s) = 0 PROVE f[s] = Whole(s)
    OBVIOUS
  <2>1. s = {}
    BY <1>8, FS_Subset, FS_EmptySet
  <2> QED BY <1>3, <1>7, <2>1
<1>10. ASSUME NEW n \in Nat, n \in S PROVE n + 1 \in S
  <2> SUFFICES ASSUME NEW s \in SUBSET D, Cardinality(s) = n + 1 PROVE f[s] = Whole(s)
    OBVIOUS
  <2>1. IsFiniteSet(s)
    BY <1>8, FS_Subset
  <2>2. s # {}
    BY FS_EmptySet
  <2>3. AnyOf(s) \in s /\ s \ {AnyOf(s)} \in SUBSET D
    BY <1>1, <2>2
  <2>4. Cardinality(s \ {AnyOf(s)}) = n
    BY <2>1, <2>3, FS_RemoveElement
  <2>5. f[s \ {AnyOf(s)}] = Whole(s \ {AnyOf(s)})
    BY <1>10, <2>3, <2>4
  <2> QED BY <1>2, <1>7, <2>2, <2>5
<1> HIDE DEF S
<1>11. Nat \subseteq S
  BY <1>9, <1>10, Induction
<1>12. Cardinality(D) \in S
  BY <1>8, <1>11, FS_CardinalityType
<1>13. f[D] = Whole(D)
  BY <1>12 DEF S
<1> QED BY <1>6, <1>13 DEF Whole, D

--------------------------------------------------------------------------------
(* What is read *)

\* What EditorLines goes through, as a function.
LinesUpTo_(f, text, m) ==
    f = [n \in 0 .. m |-> IF n = 0 THEN [lines |-> <<<<>>>>, cr |-> FALSE]
                          ELSE PutCluster(f[n - 1], text[n])]

LEMMA LinesUpToExists ==
    ASSUME NEW text, NEW m \in Nat
    PROVE  \E f : LinesUpTo_(f, text, m)
<1> DEFINE First == [lines |-> <<<<>>>>, cr |-> FALSE]
           S == {k \in Nat : \E f : LinesUpTo_(f, text, k)}
<1>1. 0 \in S
  <2>1. LinesUpTo_([n \in 0 .. 0 |-> First], text, 0)
    BY DEF LinesUpTo_
  <2> QED BY <2>1
<1>2. ASSUME NEW k \in Nat, k \in S PROVE k + 1 \in S
  <2>1. PICK f : LinesUpTo_(f, text, k)
    BY <1>2
  <2> DEFINE g == [n \in 0 .. (k + 1) |-> IF n \in 0 .. k THEN f[n] ELSE PutCluster(f[n - 1], text[n])]
  <2>2. \A n \in 0 .. k : f[n] = IF n = 0 THEN First ELSE PutCluster(f[n - 1], text[n])
    BY <2>1 DEF LinesUpTo_
  <2>3. \A n \in 0 .. (k + 1) : n # 0 => n - 1 \in 0 .. k
    OBVIOUS
  <2> HIDE DEF First
  <2>4. \A n \in 0 .. (k + 1) : g[n] = IF n = 0 THEN First ELSE PutCluster(g[n - 1], text[n])
    BY <2>2, <2>3
  <2>5. g = [n \in 0 .. (k + 1) |-> g[n]]
    OBVIOUS
  <2> HIDE DEF g
  <2>6. LinesUpTo_(g, text, k + 1)
    BY <2>4, <2>5 DEF LinesUpTo_, First
  <2> QED BY <2>6
<1>3. Nat \subseteq S
  <2> HIDE DEF S
  <2> QED BY <1>1, <1>2, Induction
<1> QED BY <1>3

IsReading(s) == s.lines \in CodeTexts /\ s.lines # <<>>

LEMMA PutClusterReads ==
    ASSUME NEW s, IsReading(s), NEW c, c \in {Cr, Lf} \/ c \in Clusters
    PROVE  IsReading(PutCluster(s, c))
<1> DEFINE at == Len(s.lines)
<1>1. s.lines \in Seq(CodeLines) /\ at \in 1 .. at /\ at \in Nat
  BY DEF IsReading, CodeTexts
<1>2. <<>> \in CodeLines
  BY DEF CodeLines
<1>3. CASE c = Lf /\ s.cr
  <2>1. PutCluster(s, c) = [lines |-> s.lines, cr |-> FALSE]
    BY <1>3 DEF PutCluster
  <2> QED BY <2>1 DEF IsReading
<1>4. CASE ~(c = Lf /\ s.cr) /\ c \in {Cr, Lf}
  <2>1. PutCluster(s, c) = [lines |-> Append(s.lines, <<>>), cr |-> c = Cr]
    BY <1>4 DEF PutCluster
  <2>2. Append(s.lines, <<>>) \in Seq(CodeLines) /\ Append(s.lines, <<>>) # <<>>
    BY <1>1, <1>2
  <2> QED BY <2>1, <2>2 DEF IsReading, CodeTexts
<1>5. CASE c \notin {Cr, Lf}
  <2> DEFINE open == Append(s.lines[at], c)
             lines == [s.lines EXCEPT ![at] = open]
  <2>1. PutCluster(s, c) = [lines |-> lines, cr |-> FALSE]
    BY <1>1, <1>5 DEF PutCluster
  <2>2. open \in CodeLines
    <3>1. s.lines[at] \in CodeLines /\ c \in Clusters
      BY <1>1, <1>5
    <3> QED BY <3>1 DEF CodeLines
  <2> HIDE DEF open
  <2>3. lines \in Seq(CodeLines) /\ Len(lines) = at
    BY <1>1, <2>2
  <2>4. lines # <<>>
    BY <1>1, <2>3
  <2> HIDE DEF lines
  <2> QED BY <2>1, <2>3, <2>4 DEF IsReading, CodeTexts
<1> QED BY <1>3, <1>4, <1>5

\* A text has lines of clusters.
LEMMA EditorLinesAreLines ==
    ASSUME NEW text, IsText(text)
    PROVE  EditorLines(text) \in CodeTexts
<1> DEFINE m == Len(text)
           f == CHOOSE f : LinesUpTo_(f, text, m)
           First == [lines |-> <<<<>>>>, cr |-> FALSE]
<1>1. m \in Nat /\ LinesUpTo_(f, text, m)
  BY LinesUpToExists DEF IsText
<1>2. EditorLines(text) = f[m].lines
  BY DEF EditorLines, LinesUpTo_
<1> HIDE DEF f
<1>3. \A n \in 0 .. m : f[n] = IF n = 0 THEN First ELSE PutCluster(f[n - 1], text[n])
  BY <1>1 DEF LinesUpTo_
<1>4. \A n \in 1 .. m : text[n] \in {Cr, Lf} \/ text[n] \in Clusters
  BY DEF IsText, IsCluster, Clusters
<1> HIDE DEF m
<1> DEFINE S == {n \in Nat : IsReading(f[n])}
<1>5. 0 \in S
  <2>1. IsReading(First)
    <3>1. <<<<>>>> \in Seq(CodeLines) /\ <<<<>>>> # <<>>
      BY DEF CodeLines
    <3> QED BY <3>1 DEF IsReading, CodeTexts
  <2>2. f[0] = First
    BY <1>1, <1>3
  <2> HIDE DEF First
  <2> QED BY <2>1, <2>2
<1>6. ASSUME NEW n \in 0 .. m - 1, n \in S PROVE n + 1 \in S
  <2>1. n + 1 \in 1 .. m /\ n + 1 \in 0 .. m /\ (n + 1) - 1 = n /\ n + 1 # 0
    BY <1>1
  <2>2. f[n + 1] = PutCluster(f[n], text[n + 1])
    BY <1>3, <2>1
  <2>3. IsReading(f[n])
    BY <1>6
  <2>4. IsReading(PutCluster(f[n], text[n + 1]))
    BY <1>4, <2>1, <2>3, PutClusterReads
  <2> QED BY <2>2, <2>4
<1> HIDE DEF S
<1>7. 0 .. m \subseteq S
  BY <1>1, <1>5, <1>6, InductionUpTo
<1>8. IsReading(f[m])
  BY <1>1, <1>7 DEF S
<1>9. f[m].lines \in CodeTexts
  BY <1>8 DEF IsReading
<1> QED BY <1>2, <1>9 DEF m

\* What a request is answered with.
ContentIn(content) ==
    \/ content.kind = "failed"
    \/ content.kind = "single" /\ content.lines \in CodeTexts /\ content.side \in Versions
    \/ content.kind = "diff" /\ AlignmentIn(content.alignment) /\ PathOf(content.file) # NoPath

LEMMA WhatIsAnswered ==
    ASSUME NEW name \in DOMAIN Contents
    PROVE  ContentIn(Contents[name])
<1> DEFINE read == Reads[name]
           file == read.file
           texts == [v \in Versions |-> VersionLines(read, v)]
           raw == EngineAnswer(read, EngineOptions)
<1>1. name \in DOMAIN Reads /\ Contents[name] = Compare(read)
  BY ContentsOfFiles
<1>2. \A v \in Versions : VersionLines(read, v) \in CodeTexts
  <2> SUFFICES ASSUME NEW v \in Versions PROVE VersionLines(read, v) \in CodeTexts
    OBVIOUS
  <2>1. read[v].kind = "text" => IsText(read[v].text)
    BY <1>1, ReadsAssumption DEF ReadsAssumption
  <2>2. <<>> \in CodeTexts
    BY DEF CodeTexts
  <2> HIDE DEF read
  <2> QED BY <2>1, <2>2, EditorLinesAreLines DEF VersionLines
<1>3. IsAnswer(raw)
  BY <1>1, ReadsAssumption DEF ReadsAssumption, EngineAnswer
<1>4. Failed.kind = "failed"
  BY DEF Failed
<1> HIDE DEF read
<1>5. CASE Compare(read) = Failed
  BY <1>1, <1>4, <1>5 DEF ContentIn
<1>6. CASE Compare(read) # Failed /\ SideOf(file) # "both"
  <2>1. Compare(read) = SingleContent(read, SideOf(file))
    BY <1>6 DEF Compare, ComputeDiff
  <2>2. SideOf(file) \in Versions
    BY <1>6 DEF SideOf, Versions
  <2> HIDE DEF file
  <2>3. /\ Compare(read).kind = "single"
        /\ Compare(read).lines = VersionLines(read, SideOf(file))
        /\ Compare(read).side = SideOf(file)
    BY <2>1 DEF SingleContent
  <2> QED BY <1>1, <1>2, <2>2, <2>3 DEF ContentIn
<1>7. CASE Compare(read) # Failed /\ SideOf(file) = "both"
  <2> DEFINE alignment == TryWithOptions(TakeDiff(raw), texts.original, texts.modified)
  <2>1. Compare(read) = ComputedDiff(read, texts, raw)
    BY <1>7 DEF Compare, ComputeDiff
  <2>2. ~raw.isNull
    BY <1>7, <2>1 DEF ComputedDiff, Refused
  <2>3. Compare(read) = DiffContent(read, alignment)
    BY <1>7, <2>1 DEF ComputedDiff
  <2>4. texts.original \in CodeTexts /\ texts.modified \in CodeTexts
    BY <1>2 DEF Versions
  <2> HIDE DEF texts, raw
  <2>5. alignment # Malformed
    BY <1>7, <2>3 DEF DiffContent
  <2>6. AlignmentIn(alignment)
    BY <1>3, <2>2, <2>4, <2>5, AcceptedIsAlignment
  <2> HIDE DEF alignment
  <2>7. Compare(read) = [kind |-> "diff", file |-> read.file, alignment |-> alignment]
    BY <2>3, <2>5 DEF DiffContent
  <2>8. PathOf(read.file) # NoPath
    BY <1>7 DEF SideOf, PathOf
  <2>9. /\ Compare(read).kind = "diff" /\ Compare(read).alignment = alignment
        /\ Compare(read).file = read.file
    BY <2>7
  <2> QED BY <1>1, <2>6, <2>8, <2>9 DEF ContentIn
<1> QED BY <1>5, <1>6, <1>7

\* What can be shown has one of two kinds; a file with two versions has a path.
LEMMA KindsOfContents ==
    ASSUME NEW name \in DOMAIN Contents
    PROVE  /\ Contents[name].kind \in {"single", "diff", "failed"}
           /\ Contents[name].kind = "diff" => PathOf(Contents[name].file) # NoPath
  BY WhatIsAnswered DEF ContentIn

\* What can be shown has rows.
LEMMA RowsOfLayouts ==
    ASSUME NEW name \in DOMAIN Contents, Contents[name].kind \in {"single", "diff"},
           NEW layout, NEW wrap, NEW compact, NEW width
    PROVE  AreRows(LayoutOf(name, layout, wrap, compact, width).rows)
<1> DEFINE content == Contents[name]
<1>1. ContentIn(content)
  BY WhatIsAnswered
<1> HIDE DEF content
<1>2. CASE name = None
  BY <1>2 DEF LayoutOf, EmptyLayout, AreRows
<1>3. CASE name # None /\ content.kind = "single"
  <2> DEFINE text == content.lines
             texts == [v \in Versions |-> text]
             lines == [i \in DOMAIN text |->
                          IF content.side = "original" THEN Paired(i, Filler) ELSE Paired(Filler, i)]
             code == Monus(width, GutterWidth(Len(text)))
  <2>1. LayoutOf(name, layout, wrap, compact, width) = LayoutSingleFile(content, width, wrap)
    BY <1>3 DEF LayoutOf, content
  <2>2. LayoutSingleFile(content, width, wrap).rows
           = TerminalRows(lines, texts, [v \in Versions |-> code], "sideBySide", wrap)
    BY DEF LayoutSingleFile
  <2>3. text \in CodeTexts
    BY <1>1, <1>3 DEF ContentIn
  <2>4. texts = [v \in Versions |-> texts[v]] /\ texts.original = text /\ texts.modified = text
    BY DEF Versions
  <2> HIDE DEF text, texts
  <2>5. lines \in Seq(ViewLinesOf(text, text))
    <3>1. Len(text) \in Nat /\ DOMAIN text = 1 .. Len(text)
      BY <2>3 DEF CodeTexts
    <3>2. Filler \in 0 .. Len(text) /\ \A i \in 1 .. Len(text) : i \in 0 .. Len(text)
      BY <3>1 DEF Filler
    <3>3. \A i \in 1 .. Len(text) : /\ Paired(i, Filler) \in ViewLinesOf(text, text)
                                    /\ Paired(Filler, i) \in ViewLinesOf(text, text)
      BY <3>2, PairedIsLine, ChangedIsLine
    <3> QED BY <3>1, <3>3
  <2> HIDE DEF lines
  <2>6. AreRows(TerminalRows(lines, texts, [v \in Versions |-> code], "sideBySide", wrap))
    BY <2>3, <2>4, <2>5, RowsOfViewLines
  <2> QED BY <2>1, <2>2, <2>6
<1>4. CASE name # None /\ content.kind = "diff"
  <2> DEFINE a == content.alignment
             texts == [v \in Versions |-> a[v]]
  <2>1. AlignmentIn(a)
    BY <1>1, <1>4 DEF ContentIn
  <2>2. LayoutOf(name, layout, wrap, compact, width)
           = IF layout = "inline" THEN LayoutInline(a, width, wrap, compact)
             ELSE LayoutSideBySide(a, width, wrap, compact)
    BY <1>4 DEF LayoutOf, content
  <2> HIDE DEF a
  <2>3. /\ texts = [v \in Versions |-> texts[v]]
        /\ texts.original = a.original /\ texts.modified = a.modified
        /\ a.original \in CodeTexts /\ a.modified \in CodeTexts
    BY <2>1 DEF Versions, AlignmentIn
  <2>4. \A l, widths : AreRows(TerminalRows(ViewLines(a, l, compact), texts, widths, l, wrap))
    BY <2>1, <2>3, ViewLinesAreOfTexts, RowsOfViewLines
  <2>5. AreRows(LayoutSideBySide(a, width, wrap, compact).rows)
    BY <2>4 DEF LayoutSideBySide, LayoutPanes
  <2>6. AreRows(LayoutInline(a, width, wrap, compact).rows)
    BY <2>4 DEF LayoutInline, LayoutPane
  <2> QED BY <2>2, <2>5, <2>6
<1> QED BY <1>2, <1>3, <1>4 DEF content

\* Each version of what can be shown is read by its rows, whatever the layout.
ReadsAllBut(rows, v, content, compact) ==
    \E lines \in SUBSET (1 .. Len(DrawnLines(content, v))) :
        /\ RowsRead(rows, v, DrawnLines(content, v), lines)
        /\ \A n \in (1 .. Len(DrawnLines(content, v))) \ lines : compact /\ ~Changed(content, v, n)

LEMMA SingleFileReads ==
    ASSUME NEW content, content.lines \in CodeTexts, content.kind = "single",
           content.side \in Versions, NEW wrap, NEW width, NEW compact \in BOOLEAN, NEW v \in Versions
    PROVE  ReadsAllBut(LayoutSingleFile(content, width, wrap).rows, v, content, compact)
<1> DEFINE text == content.lines
           texts == [w \in Versions |-> text]
           lines == [i \in DOMAIN text |->
                        IF content.side = "original" THEN Paired(i, Filler) ELSE Paired(Filler, i)]
           code == Monus(width, GutterWidth(Len(text)))
           widths == [w \in Versions |-> code]
           rows == TerminalRows(lines, texts, widths, "sideBySide", wrap)
           shown == IF v = content.side THEN 1 .. Len(text) ELSE {}
<1>1. LayoutSingleFile(content, width, wrap).rows = rows
  BY DEF LayoutSingleFile
<1>2. /\ texts = [w \in Versions |-> texts[w]] /\ texts.original = text /\ texts.modified = text
      /\ texts[v] = text
  BY DEF Versions
<1>3. Len(text) \in Nat /\ DOMAIN text = 1 .. Len(text)
  BY DEF CodeTexts
<1>4. \A i \in 1 .. Len(text) : /\ Paired(i, Filler) \in ViewLinesOf(text, text)
                                /\ Paired(Filler, i) \in ViewLinesOf(text, text)
                                /\ Paired(i, Filler).original = i /\ Paired(i, Filler).modified = Filler
                                /\ Paired(Filler, i).original = Filler /\ Paired(Filler, i).modified = i
  <2>1. Filler \in 0 .. Len(text) /\ \A i \in 1 .. Len(text) : i \in 0 .. Len(text)
    BY <1>3 DEF Filler
  <2> QED BY <2>1, PairedIsLine, ChangedIsLine DEF Paired
<1> HIDE DEF text, texts
<1>5. lines \in Seq(ViewLinesOf(text, text)) /\ Len(lines) = Len(text)
  BY <1>3, <1>4
<1>6. \A i \in 1 .. Len(text) : lines[i][v] = IF v = content.side THEN i ELSE Filler
  BY <1>3, <1>4 DEF Versions
<1>7. Filler \notin shown
  BY DEF Filler
<1> HIDE DEF lines
<1>8. ShowsLines(lines, v, shown)
  <2>1. CASE v = content.side
    BY <1>3, <1>5, <1>6, <2>1 DEF ShowsLines
  <2>2. CASE v # content.side
    BY <1>3, <1>5, <1>6, <2>2 DEF ShowsLines
  <2> QED BY <2>1, <2>2
<1>9. RowsRead(rows, v, text, shown)
  <2>1. text \in CodeTexts
    BY DEF text
  <2> HIDE DEF shown, widths
  <2>2. RowsRead(rows, v, texts[v], shown)
    BY <1>2, <1>5, <1>7, <1>8, <2>1, RowsReadTheLines
  <2> QED BY <1>2, <2>2
<1> HIDE DEF rows
<1>10. CASE v = content.side
  BY <1>1, <1>9, <1>10 DEF ReadsAllBut, DrawnLines, text
<1>11. CASE v # content.side
  <2>1. DrawnLines(content, v) = <<>> /\ Len(<<>>) = 0 /\ 1 .. 0 = {}
    BY <1>11 DEF DrawnLines
  <2>2. RowsRead(rows, v, <<>>, {})
    BY <1>9, <1>11 DEF RowsRead
  <2> QED BY <1>1, <2>1, <2>2 DEF ReadsAllBut
<1> QED BY <1>10, <1>11

LEMMA DiffReads ==
    ASSUME NEW content, content.kind = "diff", AlignmentIn(content.alignment),
           NEW layout, NEW wrap, NEW compact \in BOOLEAN, NEW widths, NEW v \in Versions
    PROVE  LET a == content.alignment
           IN  ReadsAllBut(TerminalRows(ViewLines(a, layout, compact), [w \in Versions |-> a[w]],
                                        widths, layout, wrap), v, content, compact)
<1> DEFINE a == content.alignment
           texts == [w \in Versions |-> a[w]]
           lines == ViewLines(a, layout, compact)
           rows == TerminalRows(lines, texts, widths, layout, wrap)
<1>1. DrawnLines(content, v) = a[v] /\ ChangesOf(content) = ToSet(a.changes)
  BY DEF DrawnLines, ChangesOf
<1> HIDE DEF a
<1>2. AlignmentIn(a)
  BY DEF a
<1>3. PICK shown \in SUBSET (1 .. Len(a[v])) :
          /\ ShowsLines(lines, v, shown)
          /\ \A n \in (1 .. Len(a[v])) \ shown :
                compact /\ \A j \in 1 .. Len(a.changes) : ~Contains_(a.changes[j][v], n)
  BY <1>2, EveryChangeIsShown
<1>4. /\ texts = [w \in Versions |-> texts[w]]
      /\ texts.original = a.original /\ texts.modified = a.modified
      /\ a.original \in CodeTexts /\ a.modified \in CodeTexts /\ texts[v] = a[v]
  BY <1>2 DEF Versions, AlignmentIn
<1>5. lines \in Seq(ViewLinesOf(a.original, a.modified))
  BY <1>2, ViewLinesAreOfTexts
<1>6. Filler \notin shown
  BY DEF Filler
<1> HIDE DEF lines, texts
<1>7. RowsRead(rows, v, texts[v], shown)
  BY <1>3, <1>4, <1>5, <1>6, RowsReadTheLines
<1>8. \A n \in (1 .. Len(a[v])) \ shown : compact /\ ~Changed(content, v, n)
  <2>1. \A c \in ToSet(a.changes) : \E j \in 1 .. Len(a.changes) : c = a.changes[j]
    BY <1>2 DEF AlignmentIn, ToSet
  <2> QED BY <1>1, <1>3, <2>1 DEF Changed
<1> HIDE DEF rows
<1>9. ReadsAllBut(rows, v, content, compact)
  BY <1>1, <1>3, <1>4, <1>7, <1>8 DEF ReadsAllBut
<1> QED BY <1>9 DEF rows, lines, texts, a

LEMMA LayoutReads ==
    ASSUME NEW name \in DOMAIN Contents, Contents[name].kind \in {"single", "diff"}, name # None,
           NEW layout, NEW wrap, NEW compact \in BOOLEAN, NEW width, NEW v \in Versions
    PROVE  ReadsAllBut(LayoutOf(name, layout, wrap, compact, width).rows, v, Contents[name], compact)
<1> DEFINE content == Contents[name]
<1>1. ContentIn(content)
  BY WhatIsAnswered
<1>2. LayoutOf(name, layout, wrap, compact, width)
         = IF content.kind = "single" THEN LayoutSingleFile(content, width, wrap)
           ELSE IF layout = "inline" THEN LayoutInline(content.alignment, width, wrap, compact)
           ELSE LayoutSideBySide(content.alignment, width, wrap, compact)
  BY DEF LayoutOf
<1> HIDE DEF content
<1>3. CASE content.kind = "single"
  BY <1>1, <1>2, <1>3, SingleFileReads DEF ContentIn, content
<1>4. CASE content.kind = "diff"
  <2> DEFINE a == content.alignment
  <2>1. AlignmentIn(a)
    BY <1>1, <1>4 DEF ContentIn
  <2>2. \A l, widths :
            ReadsAllBut(TerminalRows(ViewLines(a, l, compact), [w \in Versions |-> a[w]],
                                     widths, l, wrap), v, content, compact)
    BY <1>4, <2>1, DiffReads
  <2> HIDE DEF a
  <2>3. ReadsAllBut(LayoutSideBySide(a, width, wrap, compact).rows, v, content, compact)
    BY <2>2 DEF LayoutSideBySide, LayoutPanes
  <2>4. ReadsAllBut(LayoutInline(a, width, wrap, compact).rows, v, content, compact)
    BY <2>2 DEF LayoutInline, LayoutPane
  <2> QED BY <1>2, <1>4, <2>3, <2>4 DEF a, content
<1> QED BY <1>3, <1>4 DEF content

--------------------------------------------------------------------------------
(* What is found among rows *)

LEMMA SelectedIsLine ==
    ASSUME NEW rows, AreRows(rows), NEW i \in DOMAIN rows
    PROVE  IsLine(Selected(rows[i]))
<1>1. rows[i] \in PairsOfLines
  BY DEF AreRows
<1> QED BY <1>1 DEF PairsOfLines, Selected, Versions, IsLine

\* The line a search finds.
LEMMA RowFound ==
    ASSUME NEW rows, AreRows(rows), NEW target, IsLine(target)
    PROVE  LET at == FindRow(rows, target) IN
           /\ at \in Nat
           /\ target = FillerLine => at = 0
           /\ at # 0 => /\ at \in DOMAIN rows
                        /\ Selected(rows[at]).line = target.line
                        /\ Selected(rows[at]).from <= target.from
                        /\ \/ target.from < Selected(rows[at]).to
                           \/ target.from = Selected(rows[at]).from
<1> DEFINE Has(r) ==
               LET found == Selected(r) IN
               /\ IsSource(found) /\ found.line = target.line
               /\ found.from <= target.from
               /\ IF target.from = target.to THEN target.from <= found.to
                  ELSE target.from < found.to
           Same == {i \in 1 .. Len(rows) : IsSource(Selected(rows[i])) /\ Selected(rows[i]) = target}
           Holding == {i \in 1 .. Len(rows) : Has(rows[i])}
           at == FindRow(rows, target)
<1>1. \A i \in 1 .. Len(rows) : IsLine(Selected(rows[i]))
  BY SelectedIsLine DEF AreRows
<1>2. \A i \in Same : i # 0
  BY DEF AreRows
<1>3. at = IF Same # {} THEN Min(Same) ELSE IF Holding # {} THEN Min(Holding) ELSE 0
  <2>1. CASE Same # {}
    <3>1. Same \in SUBSET Nat
      OBVIOUS
    <3>2. Min(Same) \in Same
      BY <2>1, <3>1, MinIsLeast
    <3>3. Min(Same) # 0
      BY <1>2, <3>2
    <3> HIDE DEF Has
    <3> QED BY <2>1, <3>3 DEF FindRow, SelectInSeq
  <2>2. CASE Same = {}
    BY <2>2 DEF FindRow, SelectInSeq
  <2> QED BY <2>1, <2>2
<1> HIDE DEF at
<1>4. CASE Same # {}
  <2>1. Same \in SUBSET Nat
    OBVIOUS
  <2>2. at \in Same
    BY <1>3, <1>4, <2>1, MinIsLeast
  <2>3. at \in 1 .. Len(rows) /\ Selected(rows[at]) = target /\ IsSource(target)
    BY <2>2
  <2> QED BY <2>3 DEF AreRows, IsSource, IsLine, TerminalLines, at
<1>5. CASE Same = {} /\ Holding # {}
  <2>1. Holding \in SUBSET Nat
    OBVIOUS
  <2>2. at \in Holding
    BY <1>3, <1>5, <2>1, MinIsLeast
  <2> DEFINE found == Selected(rows[at])
  <2>3. at \in 1 .. Len(rows) /\ Has(rows[at])
    BY <2>2
  <2>4. found \in TerminalLines /\ IsSource(found) /\ found.line = target.line
    BY <1>1, <2>3 DEF IsLine
  <2>5. target.line # Filler /\ target \in TerminalLines
    BY <2>4 DEF IsLine, TerminalLines, IsSource
  <2>6. /\ found.from <= target.from
        /\ target.from < found.to \/ target.from = found.from
    BY <2>3, <2>4, <2>5 DEF TerminalLines, Filler
  <2>7. target # FillerLine
    BY <2>5 DEF FillerLine, Source
  <2> QED BY <2>3, <2>4, <2>6, <2>7 DEF AreRows, at
<1>6. CASE Same = {} /\ Holding = {}
  <2>1. at = 0
    BY <1>3, <1>6
  <2> QED BY <2>1 DEF at
<1> QED BY <1>4, <1>5, <1>6

--------------------------------------------------------------------------------
(* The invariant *)

Fields == {"content", "layout", "wrap", "compact", "size", "offset"}
IsContent(content) ==
    content = Nothing \/ (content.name \in DOMAIN Contents /\ Shows(content.name))
IsState(s) ==
    /\ s = [f \in Fields |-> s[f]]
    /\ IsContent(s.content)
    /\ s.offset.y \in Nat

StatesInv == IsState(st) /\ IsState(next)
MetricsInv == metrics.contentHeight \in Nat /\ metrics.viewportHeight \in Nat
AreaInv == area.height \in Nat /\ rounds \in 0..3
RowsInv == AreRows(memo.layout.rows)

\* What the model has put away for each file is what the hooks have.
LeftInv ==
    /\ key \in FilesOf \cup {NoPath}
    /\ DOMAIN history = FilesOf /\ left = [f \in FilesOf |-> left[f]]
    /\ history = [f \in FilesOf |-> history[f]]
    /\ \A f \in FilesOf : f # key => left[f] = history[f]
    /\ rounds = 0 /\ key # NoPath => left[key] = active

LinesInv ==
    /\ IsLine(active.line) /\ IsLine(wanted.line)
    /\ \A f \in FilesOf : IsLine(history[f].line) /\ IsLine(left[f].line)

\* In a drawing: what is written for the next round changes nothing but the size,
\* in the first round, and the offset.
MeasuredFor(layout) ==
    MetricsFor(ViewOf(st, layout, range), 0, 0, Rect(0, 0, area.width, area.height))
DrawingInv ==
    rounds > 0 =>
        /\ \A f \in Fields \ {"size", "offset"} : next[f] = st[f]
        /\ next.size = area
        /\ restored = DepsOf(st) /\ memo.deps = DepsOf(st)
        /\ key = KeyOf(next.content)
        /\ rounds = 1 => wanted.size = st.size
        /\ rounds > 1 => st.size = area /\ metrics = MeasuredFor(memo.layout)

\* The place that is wanted has been written, or is there.
IsPlaced_(s) ==
    s.offset.x = wanted.x /\ s.offset.y = IndexFor(memo.layout, wanted.line)
PlaceInv ==
    /\ rounds > 0 /\ wanted.restores /\ wanted.size = area => IsPlaced_(next)
    /\ rounds = 0 /\ wanted.restores /\ wanted.size = st.size => IsPlaced_(st)

IInv == /\ StatesInv /\ MetricsInv /\ AreaInv /\ RowsInv /\ LeftInv /\ LinesInv
        /\ DrawingInv /\ PlaceInv

LEMMA NoPathIsNoFile == NoPath \notin FilesOf
  BY KindsOfContents DEF FilesOf

--------------------------------------------------------------------------------
(* One round *)

LEMMA NothingNamed == Nothing.at = 0 /\ Nothing.name = None
  BY DEF Nothing

\* The layout that use_memo answers has rows.
LEMMA KeptRows ==
    ASSUME NEW s, IsState(s), RowsInv
    PROVE  AreRows(MemoFor(s).layout.rows)
<1>1. CASE memo.deps = DepsOf(s)
  BY <1>1 DEF MemoFor, RowsInv
<1>2. CASE memo.deps # DepsOf(s) /\ s.content = Nothing
  <2>1. MemoFor(s).layout = EmptyLayout
    BY <1>2, NothingNamed DEF MemoFor, MadeFrom, LayoutOf
  <2>2. EmptyLayout.rows = <<>>
    BY DEF EmptyLayout
  <2> QED BY <2>1, <2>2 DEF AreRows
<1>3. CASE memo.deps # DepsOf(s) /\ s.content # Nothing
  <2>1. /\ s.content.name \in DOMAIN Contents /\ s.content.name # None
        /\ Contents[s.content.name].kind # "failed"
    BY <1>3 DEF IsState, IsContent, Shows
  <2>2. Contents[s.content.name].kind \in {"single", "diff"}
    BY <2>1, KindsOfContents
  <2>3. MemoFor(s).layout = LayoutOf(s.content.name, s.layout, s.wrap, s.compact, s.size.width)
    BY <1>3 DEF MemoFor, MadeFrom
  <2> QED BY <2>1, <2>2, <2>3, RowsOfLayouts
<1> QED BY <1>1, <1>2, <1>3

LEMMA IndexIsNat ==
    ASSUME NEW layout, AreRows(layout.rows), NEW line, IsLine(line)
    PROVE  IndexFor(layout, line) \in Nat
<1>1. FindRow(layout.rows, line) \in Nat
  BY RowFound
<1> QED BY <1>1 DEF IndexFor, Monus, Greatest

LEMMA FillerIsLine == IsLine(FillerLine) /\ ~IsSource(FillerLine)
  BY DEF IsLine, TerminalLines, FillerLine, Source, IsSource, Filler

\* Names for what one round makes.
Coming == KeyOf(next.content)
Kept == MemoFor(next)
Puts == Written(next, ActiveState(Coming), Kept.layout, restored # DepsOf(next))
Measures ==
    MetricsFor(ViewOf(next, Kept.layout, Shown(next, Kept.layout)), 0, 0,
               Rect(0, 0, area.width, area.height))
Again == Measures # metrics \/ Puts # next
Before == IF Coming # NoPath THEN left[Coming] ELSE IF key = NoPath THEN active ELSE NoState
IsLast == ~Again \/ rounds + 1 = MaxRounds

LEMMA RoundMakes ==
    ASSUME Round
    PROVE  /\ st' = next /\ key' = Coming /\ restored' = DepsOf(next)
           /\ history' = SavedHistory(Coming)
           /\ memo' = Kept /\ next' = Puts /\ metrics' = Measures
           /\ range' = Shown(next, Kept.layout)
           /\ active' = ViewStateAfter(next, Kept.layout, ActiveState(Coming))
           /\ wanted' = IF rounds > 0 THEN wanted
                        ELSE [line |-> Before.line, x |-> Before.x, size |-> next.size,
                              restores |-> restored # DepsOf(next)]
           /\ left' = IF IsLast /\ Coming # NoPath THEN [left EXCEPT ![Coming] = active'] ELSE left
           /\ dirty' = Again
           /\ rounds' = IF IsLast THEN 0 ELSE rounds + 1
           /\ area' = area
  BY DEF Round, RenderMemo, RenderLayout, EndRound, Coming, Kept, Puts, Measures, Again,
         Before, IsLast

\* What is written for the next round.
LEMMA CommittedFields ==
    ASSUME IsState(next)
    PROVE  /\ Puts = [f \in Fields |-> Puts[f]]
           /\ \A f \in Fields \ {"size", "offset"} : Puts[f] = next[f]
           /\ Puts.size = area
           /\ Puts.offset = IF restored # DepsOf(next)
                            THEN Offset(ActiveState(Coming).x,
                                        IndexFor(Kept.layout, ActiveState(Coming).line))
                            ELSE next.offset
  BY DEF IsState, Written, Fields, Puts

LEMMA ActiveIsLine ==
    ASSUME LeftInv, LinesInv, NEW k \in FilesOf \cup {NoPath}
    PROVE  IsLine(ActiveState(k).line)
<1>1. CASE key = k
  BY <1>1 DEF ActiveState, LinesInv
<1>2. CASE key # k /\ k = NoPath
  BY <1>2, FillerIsLine DEF ActiveState, NoState
<1>3. CASE key # k /\ k # NoPath
  <2>1. SavedHistory(k)[k] = history[k]
    BY <1>3 DEF SavedHistory, LeftInv
  <2> QED BY <1>3, <2>1 DEF ActiveState, LinesInv
<1> QED BY <1>1, <1>2, <1>3

LEMMA ComingIsAFile ==
    ASSUME StatesInv
    PROVE  Coming \in FilesOf \cup {NoPath}
<1>1. CASE ~IsDiff(next.content)
  BY <1>1 DEF Coming, KeyOf
<1>2. CASE IsDiff(next.content)
  <2>1. next.content # Nothing
    BY <1>2, NothingNamed DEF IsDiff
  <2>2. next.content.name \in DOMAIN Contents
    BY <2>1 DEF StatesInv, IsState, IsContent
  <2> QED BY <1>2, <2>2 DEF Coming, KeyOf, IsDiff, FilesOf
<1> QED BY <1>1, <1>2

LEMMA RoundStates ==
    ASSUME IInv, Round
    PROVE  StatesInv' /\ MetricsInv' /\ AreaInv' /\ RowsInv'
<1> USE RoundMakes
<1>1. IsState(next)
  BY DEF IInv, StatesInv
<1>2. AreRows(Kept.layout.rows)
  BY <1>1, KeptRows DEF IInv, Kept
<1>3. IsLine(ActiveState(Coming).line)
  BY ActiveIsLine, ComingIsAFile DEF IInv
<1>4. IsState(Puts)
  <2>1. IndexFor(Kept.layout, ActiveState(Coming).line) \in Nat
    BY <1>2, <1>3, IndexIsNat
  <2>2. /\ Puts = [f \in Fields |-> Puts[f]] /\ Puts.content = next.content
        /\ Puts.offset = IF restored # DepsOf(next)
                         THEN Offset(ActiveState(Coming).x,
                                     IndexFor(Kept.layout, ActiveState(Coming).line))
                         ELSE next.offset
    BY <1>1, CommittedFields DEF Fields
  <2>3. Puts.offset.y \in Nat
    BY <1>1, <2>1, <2>2 DEF Offset, IsState
  <2> QED BY <1>1, <2>2, <2>3 DEF IsState
<1>5. StatesInv'
  BY <1>1, <1>4 DEF StatesInv, IsState, IsContent, Shows
<1>6. RowsInv'
  BY <1>2 DEF RowsInv
<1>7. MetricsInv'
  <2>1. RowCount(Kept.layout) \in Nat
    BY <1>2 DEF RowCount, AreRows
  <2>2. area.height \in Nat
    BY DEF IInv, AreaInv
  <2>3. /\ Measures.viewportHeight = area.height
        /\ Measures.contentHeight \in {RowCount(Kept.layout), 0, area.height}
    BY DEF Measures, MetricsFor, ViewOf, Rect, Given, Greatest
  <2> QED BY <2>1, <2>2, <2>3 DEF MetricsInv
<1>8. AreaInv'
  BY DEF IInv, AreaInv, IsLast, MaxRounds
<1> QED BY <1>5, <1>6, <1>7, <1>8

\* In the first round the state that is active is what the file was left with.
LEMMA BeforeIsActive ==
    ASSUME LeftInv, StatesInv, rounds = 0
    PROVE  ActiveState(Coming) = Before
<1>1. Coming \in FilesOf \cup {NoPath}
  BY ComingIsAFile
<1>2. CASE Coming = NoPath
  BY <1>2 DEF ActiveState, Before
<1>3. CASE Coming # NoPath /\ key = Coming
  BY <1>3 DEF ActiveState, Before, LeftInv
<1>4. CASE Coming # NoPath /\ key # Coming
  <2>1. SavedHistory(Coming)[Coming] = history[Coming]
    BY <1>1, <1>4 DEF SavedHistory, LeftInv
  <2>2. left[Coming] = history[Coming]
    BY <1>1, <1>4 DEF LeftInv
  <2> QED BY <1>4, <2>1, <2>2 DEF ActiveState, Before
<1> QED BY <1>2, <1>3, <1>4

\* In a later one the file is the same.
LEMMA SameFile ==
    ASSUME DrawingInv, rounds > 0
    PROVE  Coming = key
  BY DEF DrawingInv, Coming

LEMMA RoundLeft ==
    ASSUME IInv, Round
    PROVE  LeftInv'
<1> USE RoundMakes
<1>1. Coming \in FilesOf \cup {NoPath}
  BY ComingIsAFile DEF IInv
<1>2. SavedHistory(Coming) = [f \in FilesOf |-> SavedHistory(Coming)[f]]
  BY DEF IInv, LeftInv, SavedHistory
<1>3. ASSUME NEW f \in FilesOf, f # Coming
      PROVE  left[f] = SavedHistory(Coming)[f]
  <2>1. CASE f # key
    BY <1>3, <2>1 DEF IInv, LeftInv, SavedHistory
  <2>2. CASE f = key
    <3>1. key # NoPath \/ f = NoPath
      BY <2>2
    <3>2. rounds = 0
      <4>1. rounds \in Nat
        BY DEF IInv, AreaInv
      <4> QED BY <1>3, <2>2, <4>1, SameFile DEF IInv
    <3>3. CASE key # NoPath
      BY <1>3, <2>2, <3>2, <3>3 DEF IInv, LeftInv, SavedHistory
    <3>4. CASE f = NoPath
      BY <1>3, <2>2, <3>2, <3>4, NoPathIsNoFile
    <3> QED BY <3>1, <3>3, <3>4
  <2> QED BY <2>1, <2>2
<1>4. left' = [f \in FilesOf |-> left'[f]]
  BY DEF IInv, LeftInv
<1>5. \A f \in FilesOf : f # key' => left'[f] = history'[f]
  BY <1>3 DEF IInv, LeftInv
<1>6. rounds' = 0 /\ key' # NoPath => left'[key'] = active'
  <2>1. rounds + 1 # 0
    BY DEF IInv, AreaInv
  <2> QED BY <1>1, <2>1 DEF IInv, LeftInv
<1> QED BY <1>1, <1>2, <1>4, <1>5, <1>6 DEF LeftInv

LEMMA RoundLines ==
    ASSUME IInv, Round
    PROVE  LinesInv'
<1> USE RoundMakes
<1>1. Coming \in FilesOf \cup {NoPath}
  BY ComingIsAFile DEF IInv
<1>2. IsLine(ActiveState(Coming).line)
  BY <1>1, ActiveIsLine DEF IInv
<1>3. IsLine(active'.line)
  <2>1. AreRows(Kept.layout.rows)
    BY KeptRows DEF IInv, StatesInv, Kept
  <2>2. next.offset.y \in Nat
    BY DEF IInv, StatesInv, IsState
  <2>3. IsLine(TerminalLineAt(Kept.layout, next.offset.y))
    <3>1. CASE next.offset.y < RowCount(Kept.layout)
      <4>1. next.offset.y + 1 \in DOMAIN Kept.layout.rows
        BY <2>1, <2>2, <3>1 DEF AreRows, RowCount
      <4> QED BY <2>1, <3>1, <4>1, SelectedIsLine DEF TerminalLineAt
    <3>2. CASE ~(next.offset.y < RowCount(Kept.layout))
      BY <3>2, FillerIsLine DEF TerminalLineAt
    <3> QED BY <3>1, <3>2
  <2> QED BY <1>2, <2>3, FillerIsLine DEF ViewStateAfter
<1>4. IsLine(Before.line)
  <2>1. CASE Coming # NoPath
    BY <1>1, <2>1 DEF Before, IInv, LinesInv
  <2>2. CASE Coming = NoPath
    BY <2>2, FillerIsLine DEF Before, IInv, LinesInv, NoState
  <2> QED BY <2>1, <2>2
<1>5. IsLine(wanted'.line)
  BY <1>4 DEF IInv, LinesInv
<1>6. ASSUME NEW f \in FilesOf
      PROVE  IsLine(history'[f].line) /\ IsLine(left'[f].line)
  <2>1. IsLine(SavedHistory(Coming)[f].line)
    BY DEF IInv, LinesInv, LeftInv, SavedHistory
  <2>2. CASE left' = left
    BY <2>1, <2>2 DEF IInv, LinesInv
  <2>3. CASE left' = [left EXCEPT ![Coming] = active']
    BY <1>3, <2>1, <2>3 DEF IInv, LinesInv, LeftInv
  <2> QED BY <2>2, <2>3
<1> QED BY <1>3, <1>5, <1>6 DEF LinesInv, IsLine

\* In the second round and later, what the layout is made from is as before.
LEMMA SameDeps ==
    ASSUME IInv, rounds > 0, next.size = st.size
    PROVE  /\ DepsOf(next) = restored /\ Kept = memo
           /\ Puts.offset = next.offset
<1>1. DepsOf(next) = DepsOf(st)
  BY DEF IInv, DrawingInv, DepsOf, Fields
<1>2. DepsOf(next) = restored /\ Kept = memo
  BY <1>1 DEF IInv, DrawingInv, Kept, MemoFor
<1> QED BY <1>2, CommittedFields DEF IInv, StatesInv

LEMMA RoundDrawing ==
    ASSUME IInv, Round, rounds' > 0
    PROVE  DrawingInv'
<1> USE RoundMakes
<1>1. /\ \A f \in Fields \ {"size", "offset"} : Puts[f] = next[f]
      /\ Puts.size = area
  BY CommittedFields DEF IInv, StatesInv
<1>2. rounds \in Nat /\ rounds' = rounds + 1
  BY DEF IInv, AreaInv
<1>3. Kept.deps = DepsOf(next)
  BY DEF Kept, MemoFor
<1>4. Coming = KeyOf(Puts.content)
  BY <1>1 DEF Coming, Fields
<1>5. rounds' = 1 => wanted'.size = st'.size
  BY <1>2
<1>6. ASSUME rounds' > 1 PROVE next.size = area
  BY <1>2, <1>6 DEF IInv, DrawingInv
<1>7. MeasuredFor(memo.layout)' = Measures
  BY DEF MeasuredFor, Measures
<1>8. DepsOf(st)' = DepsOf(next) /\ KeyOf(next.content)' = KeyOf(Puts.content)
  BY DEF DepsOf, KeyOf, IsDiff
<1> QED BY <1>1, <1>2, <1>3, <1>4, <1>5, <1>6, <1>7, <1>8 DEF DrawingInv

\* The first round writes the place that is wanted; the later ones keep it.
LEMMA RoundPlace ==
    ASSUME IInv, Round
    PROVE  PlaceInv'
<1> USE RoundMakes
<1>1. rounds \in 0 .. 3
  BY DEF IInv, AreaInv
<1>2. StatesInv /\ LeftInv /\ DrawingInv /\ PlaceInv
  BY DEF IInv
<1>3. Puts.offset = IF restored # DepsOf(next)
                    THEN Offset(ActiveState(Coming).x,
                                IndexFor(Kept.layout, ActiveState(Coming).line))
                    ELSE next.offset
  BY <1>2, CommittedFields DEF StatesInv
<1>4. CASE rounds = 0 /\ restored # DepsOf(next)
  <2>1. ActiveState(Coming) = Before
    BY <1>2, <1>4, BeforeIsActive
  <2>2. wanted'.line = Before.line /\ wanted'.x = Before.x
    BY <1>4
  <2>3. IsPlaced_(next)'
    BY <1>3, <1>4, <2>1, <2>2 DEF IsPlaced_, Offset, IndexFor
  <2>4. rounds' = 0 => next' = st'
    BY <1>4 DEF IsLast, MaxRounds, Again
  <2> QED BY <2>3, <2>4 DEF PlaceInv, IsPlaced_, IndexFor
<1>5. CASE rounds > 0 /\ wanted.restores
  <2>1. next.size = area /\ (rounds = 1 => wanted.size = st.size) /\ (rounds > 1 => st.size = area)
    BY <1>2, <1>5 DEF DrawingInv
  <2>2. CASE wanted.size = area
    <3>1. next.size = st.size
      BY <1>1, <1>5, <2>1, <2>2
    <3>2. memo' = memo /\ Puts.offset = next.offset
      BY <1>5, <3>1, SameDeps
    <3>3. IsPlaced_(next)
      BY <1>2, <1>5, <2>2 DEF PlaceInv
    <3>4. IsPlaced_(next)' /\ IsPlaced_(st)'
      BY <1>5, <3>2, <3>3 DEF IsPlaced_, IndexFor
    <3> QED BY <3>4 DEF PlaceInv
  <2>3. CASE wanted.size # area
    BY <1>5, <2>1, <2>3 DEF PlaceInv
  <2> QED BY <2>2, <2>3
<1>6. CASE rounds > 0 /\ ~wanted.restores
  BY <1>6 DEF PlaceInv
<1>7. CASE rounds = 0 /\ restored = DepsOf(next)
  <2>1. wanted' = [line |-> Before.line, x |-> Before.x, size |-> next.size, restores |-> FALSE]
    <3>1. ~(rounds > 0) /\ (restored # DepsOf(next)) = FALSE
      BY <1>7
    <3> HIDE RoundMakes
    <3> QED BY <3>1, RoundMakes, Zenon
  <2> QED BY <2>1 DEF PlaceInv
<1> QED BY <1>1, <1>4, <1>5, <1>6, <1>7

\* The fourth round is the last one, and it changes nothing.
LEMMA LastRoundSettles ==
    ASSUME IInv, Round, rounds > 0, rounds' = 0
    PROVE  ~dirty'
<1> USE RoundMakes
<1>1. SUFFICES ASSUME Again PROVE FALSE
  OBVIOUS
<1>2. rounds = 3
  BY <1>1 DEF IInv, AreaInv, IsLast, MaxRounds
<1>3. /\ \A f \in Fields \ {"size", "offset"} : next[f] = st[f]
      /\ next.size = area /\ st.size = area /\ metrics = MeasuredFor(memo.layout)
  BY <1>2 DEF IInv, DrawingInv
<1>4. Kept = memo /\ Puts.offset = next.offset
  BY <1>3, SameDeps DEF IInv
<1>5. Measures = metrics
  BY <1>3, <1>4 DEF Measures, MeasuredFor, MetricsFor, ViewOf
<1>6. Puts = next
  <2>1. /\ Puts = [f \in Fields |-> Puts[f]] /\ next = [f \in Fields |-> next[f]]
        /\ \A f \in Fields \ {"size", "offset"} : Puts[f] = next[f]
        /\ Puts.size = area
    BY CommittedFields DEF IInv, StatesInv, IsState
  <2>2. \A f \in Fields : Puts[f] = next[f]
    BY <1>3, <1>4, <2>1
  <2> QED BY <2>1, <2>2
<1> QED BY <1>1, <1>5, <1>6 DEF Again

--------------------------------------------------------------------------------
(* Between drawings *)

\* A write in between leaves the place, and what was put away, as it was.
LEMMA WriteKeeps ==
    ASSUME IInv, rounds = 0, NEW new, Write(new), IsState(new)
    PROVE  IInv'
<1> USE DEF Write
<1>1. StatesInv' /\ MetricsInv' /\ AreaInv' /\ RowsInv'
  BY DEF IInv, StatesInv, IsState, IsContent, Shows, MetricsInv, AreaInv, RowsInv
<1>2. LeftInv' /\ LinesInv'
  BY DEF IInv, LeftInv, LinesInv, IsLine
<1>3. DrawingInv'
  BY DEF DrawingInv
<1>4. PlaceInv'
  BY DEF IInv, PlaceInv, IsPlaced_, IndexFor
<1> QED BY <1>1, <1>2, <1>3, <1>4 DEF IInv

LEMMA HeightsAreNat ==
    ASSUME MetricsInv
    PROVE  MaxY(metrics) \in Nat
  BY DEF MetricsInv, MaxY, Monus, Greatest

\* A state but for its offset.
LEMMA MovedState ==
    ASSUME NEW s, IsState(s), NEW x, NEW y \in Nat
    PROVE  IsState([s EXCEPT !.offset = Offset(x, y)])
  BY DEF IsState, IsContent, Offset, Fields

LEMMA MoveKeeps ==
    ASSUME IInv, Move
    PROVE  IInv'
<1>1. PICK m \in Moves : ScrollBy(m[1], m[2])
  BY DEF Move
<1>2. m[2] \in Int /\ rounds = 0
  BY ViewerAssumption DEF ViewerAssumption, Move, Happens
<1>3. MaxY(metrics) \in Nat /\ IsState(next)
  BY HeightsAreNat DEF IInv, StatesInv
<1> DEFINE at == ClampOffset(next.offset, metrics)
           x == MoveBy(at.x, m[1], MaxX(metrics))
           y == MoveBy(at.y, m[2], MaxY(metrics))
<1>4. at.y \in Nat
  BY <1>3 DEF ClampOffset, IsState, Least
<1>5. y \in Nat
  BY <1>2, <1>3, <1>4 DEF MoveBy, Monus, Greatest, Least
<1>6. Write([next EXCEPT !.offset = Offset(x, y)])
  BY <1>1 DEF ScrollBy
<1> HIDE DEF x, y
<1> QED BY <1>2, <1>3, <1>5, <1>6, MovedState, WriteKeeps

LEMMA EdgeKeyKeeps ==
    ASSUME IInv, EdgeKey
    PROVE  IInv'
<1>1. MaxY(metrics) \in Nat /\ IsState(next) /\ rounds = 0
  BY HeightsAreNat DEF IInv, StatesInv, EdgeKey, Happens
<1>2. PICK x \in {0, MaxX(metrics)} :
          Write([next EXCEPT !.offset = Offset(x, Least(@.y, MaxY(metrics)))])
  BY DEF EdgeKey
<1>3. Least(next.offset.y, MaxY(metrics)) \in Nat
  BY <1>1 DEF IsState, Least
<1> QED BY <1>1, <1>2, <1>3, MovedState, WriteKeeps

LEMMA TogglesKeep ==
    ASSUME IInv, ToggleLayout \/ ToggleWrap
    PROVE  IInv'
<1>1. rounds = 0 /\ IsState(next)
  BY DEF ToggleLayout, ToggleWrap, Happens, IInv, StatesInv
<1>2. ASSUME NEW v PROVE IsState([next EXCEPT !.layout = v])
  BY <1>1 DEF IsState, IsContent, Fields
<1>3. ASSUME NEW v PROVE IsState([next EXCEPT !.wrap = v])
  BY <1>1 DEF IsState, IsContent, Fields
<1>4. CASE ToggleLayout
  <2> DEFINE new == [next EXCEPT !.layout = IF @ = "inline" THEN "sideBySide" ELSE "inline"]
  <2>1. Write(new)
    BY <1>4 DEF ToggleLayout
  <2>2. IsState(new)
    BY <1>2
  <2> QED BY <1>1, <2>1, <2>2, WriteKeeps
<1>5. CASE ToggleWrap
  <2> DEFINE new == [next EXCEPT !.wrap = ~@]
  <2>1. Write(new)
    BY <1>5 DEF ToggleWrap
  <2>2. IsState(new)
    BY <1>1 DEF IsState, IsContent, Fields
  <2> QED BY <1>1, <2>1, <2>2, WriteKeeps
<1> QED BY <1>4, <1>5

LEMMA DeliverKeeps ==
    ASSUME IInv, Deliver
    PROVE  IInv'
<1>1. rounds = 0 /\ IsState(next)
  BY DEF Deliver, Happens, IInv, StatesInv
<1>2. PICK name \in DOMAIN Contents \cup {None} :
      \E at \in IF Shows(name) THEN {Min(Addresses \ {st.content.at, next.content.at})} ELSE {0} :
          Write([next EXCEPT !.content = IF at = 0 THEN Nothing ELSE [at |-> at, name |-> name]])
  BY DEF Deliver
<1>3. PICK at \in IF Shows(name) THEN {Min(Addresses \ {st.content.at, next.content.at})} ELSE {0} :
          Write([next EXCEPT !.content = IF at = 0 THEN Nothing ELSE [at |-> at, name |-> name]])
  BY <1>2
<1> DEFINE content == IF at = 0 THEN Nothing ELSE [at |-> at, name |-> name]
<1>4. IsContent(content)
  <2>1. CASE at = 0
    BY <2>1 DEF IsContent
  <2>2. CASE at # 0
    <3>1. Shows(name)
      BY <1>3, <2>2
    <3>2. name \in DOMAIN Contents
      BY <1>2, <3>1 DEF Shows
    <3> QED BY <2>2, <3>1, <3>2 DEF IsContent
  <2> QED BY <2>1, <2>2
<1>5. Write([next EXCEPT !.content = content])
  BY <1>3
<1> HIDE DEF content
<1>6. IsState([next EXCEPT !.content = content])
  BY <1>1, <1>4 DEF IsState, Fields
<1> QED BY <1>1, <1>5, <1>6, WriteKeeps

LEMMA ResizeKeeps ==
    ASSUME IInv, ResizeArea
    PROVE  IInv'
<1> USE DEF ResizeArea
<1>1. rounds = 0 /\ area' \in Areas
  BY DEF Happens
<1>2. AreaInv'
  BY <1>1, ViewerAssumption DEF IInv, AreaInv, ViewerAssumption
<1>3. StatesInv' /\ MetricsInv' /\ RowsInv'
  BY DEF IInv, StatesInv, IsState, IsContent, Shows, MetricsInv, RowsInv
<1>4. LeftInv' /\ LinesInv'
  BY DEF IInv, LeftInv, LinesInv, IsLine
<1>5. DrawingInv'
  BY <1>1 DEF DrawingInv
<1>6. PlaceInv'
  BY <1>1 DEF IInv, PlaceInv, IsPlaced_, IndexFor
<1> QED BY <1>2, <1>3, <1>4, <1>5, <1>6 DEF IInv

LEMMA StartHolds ==
    ASSUME Init
    PROVE  IInv
<1> USE DEF Init
<1>1. PICK start \in Starts :
          /\ st = [content |-> Nothing, layout |-> start[1], wrap |-> start[2],
                   compact |-> start[3], size |-> Size(0, 0), offset |-> Origin]
          /\ area = start[4]
  OBVIOUS
<1>2. StatesInv
  <2>1. IsState(st)
    BY <1>1 DEF IsState, Fields, IsContent, Origin, Offset
  <2> QED BY <2>1 DEF StatesInv
<1>3. MetricsInv
  BY DEF MetricsInv, NoMetrics
<1>4. AreaInv
  BY <1>1, ViewerAssumption DEF AreaInv, ViewerAssumption
<1>5. RowsInv
  <2>1. memo.layout.rows = <<>>
    BY DEF EmptyLayout
  <2>2. <<>> \in Seq(PairsOfLines)
    OBVIOUS
  <2> QED BY <2>1, <2>2 DEF RowsInv, AreRows
<1>6. LeftInv
  BY DEF LeftInv
<1>7. LinesInv
  BY FillerIsLine DEF LinesInv, NoState
<1>8. DrawingInv
  BY DEF DrawingInv
<1>9. PlaceInv
  BY DEF PlaceInv
<1> QED BY <1>2, <1>3, <1>4, <1>5, <1>6, <1>7, <1>8, <1>9 DEF IInv

LEMMA StepKeeps ==
    ASSUME IInv, [Next]_vars
    PROVE  IInv'
<1>1. CASE Round
  <2>1. StatesInv' /\ MetricsInv' /\ AreaInv' /\ RowsInv' /\ LeftInv' /\ LinesInv' /\ PlaceInv'
    BY <1>1, RoundStates, RoundLeft, RoundLines, RoundPlace
  <2>2. DrawingInv'
    BY <1>1, RoundDrawing DEF DrawingInv
  <2> QED BY <2>1, <2>2 DEF IInv
<1>2. CASE UNCHANGED vars
  <2> USE <1>2 DEF vars
  <2>1. StatesInv' /\ MetricsInv' /\ AreaInv' /\ RowsInv'
    BY DEF IInv, StatesInv, IsState, IsContent, Shows, MetricsInv, AreaInv, RowsInv
  <2>2. LeftInv' /\ LinesInv' /\ PlaceInv'
    BY DEF IInv, LeftInv, LinesInv, IsLine, PlaceInv, IsPlaced_, IndexFor
  <2>3. DrawingInv'
    BY DEF IInv, DrawingInv, DepsOf, KeyOf, IsDiff, MeasuredFor
  <2> QED BY <2>1, <2>2, <2>3 DEF IInv
<1> QED BY <1>1, <1>2, MoveKeeps, EdgeKeyKeeps, TogglesKeep, DeliverKeeps, ResizeKeeps DEF Next

--------------------------------------------------------------------------------
(* What the rows are of *)

\* A response that comes is at an address of its own while the one before it is
\* still held, so a layout that is kept is of the content that is there.
HooksInv ==
    /\ \A s \in {st, next} : s.content = Nothing \/ s.content.at \in Addresses
    /\ next.content.at = st.content.at => next.content = st.content
    /\ st.compact \in BOOLEAN /\ next.compact \in BOOLEAN
MemoInv ==
    \/ memo.deps = NoDeps /\ st.content = Nothing
    \/ memo.deps = DepsOf(st) /\ memo.layout = MadeFrom(st)
KeptInv == HooksInv /\ MemoInv

LEMMA HeldAddresses ==
    ASSUME HooksInv
    PROVE  /\ st.content.at \in 0 .. 3 /\ next.content.at \in 0 .. 3
           /\ st.content.at = 0 <=> st.content = Nothing
           /\ next.content.at = 0 <=> next.content = Nothing
  BY DEF HooksInv, Addresses, Nothing

LEMMA RoundIsKept ==
    ASSUME IInv, KeptInv, Round
    PROVE  KeptInv'
<1> USE RoundMakes
<1>1. Puts.content = next.content /\ Puts.compact = next.compact
  BY CommittedFields DEF IInv, StatesInv, Fields
<1>2. HooksInv'
  BY <1>1 DEF KeptInv, HooksInv
<1>3. Kept.deps = DepsOf(next) /\ Kept.layout = MadeFrom(next)
  <2>1. CASE memo.deps # DepsOf(next)
    BY <2>1 DEF Kept, MemoFor
  <2>2. CASE memo.deps = DepsOf(next)
    <3>1. Kept = memo
      BY <2>2 DEF Kept, MemoFor
    <3>2. memo.deps # NoDeps
      <4>1. next.content.at # -1
        BY HeldAddresses DEF KeptInv
      <4>2. DepsOf(next).content = next.content.at /\ NoDeps.content = -1
        BY DEF DepsOf, NoDeps
      <4> QED BY <2>2, <4>1, <4>2
    <3>3. memo.deps = DepsOf(st) /\ memo.layout = MadeFrom(st)
      BY <3>2 DEF KeptInv, MemoInv
    <3>4. DepsOf(next) = DepsOf(st)
      BY <2>2, <3>3
    <3>5. /\ next.content.at = st.content.at /\ next.layout = st.layout /\ next.wrap = st.wrap
          /\ next.compact = st.compact /\ next.size.width = st.size.width
      BY <3>4 DEF DepsOf
    <3>6. next.content = st.content
      BY <3>5 DEF KeptInv, HooksInv
    <3>7. MadeFrom(next) = MadeFrom(st)
      BY <3>5, <3>6, Zenon DEF MadeFrom
    <3> QED BY <2>2, <3>1, <3>3, <3>7
  <2> QED BY <2>1, <2>2
<1>4. MemoInv'
  <2>1. DepsOf(next) = DepsOf(st)' /\ MadeFrom(next) = MadeFrom(st)'
    BY DEF DepsOf, MadeFrom
  <2> QED BY <1>3, <2>1 DEF MemoInv
<1> QED BY <1>2, <1>4 DEF KeptInv

LEMMA WriteIsKept ==
    ASSUME KeptInv, NEW new, Write(new), new.compact = next.compact,
           new.content = next.content \/ new.content = Nothing
           \/ (new.content.at \in Addresses /\ new.content.at # st.content.at)
    PROVE  KeptInv'
<1> USE DEF Write
<1>1. HooksInv'
  <2>1. CASE new.content = next.content
    BY <2>1 DEF KeptInv, HooksInv
  <2>2. CASE new.content = Nothing
    BY <2>2, HeldAddresses, NothingNamed DEF KeptInv, HooksInv
  <2>3. CASE new.content.at \in Addresses /\ new.content.at # st.content.at
    BY <2>3 DEF KeptInv, HooksInv
  <2> QED BY <2>1, <2>2, <2>3
<1>2. MemoInv'
  BY DEF KeptInv, MemoInv, DepsOf, MadeFrom
<1> QED BY <1>1, <1>2 DEF KeptInv

LEMMA DeliverIsKept ==
    ASSUME IInv, KeptInv, Deliver
    PROVE  KeptInv'
<1> DEFINE free == Addresses \ {st.content.at, next.content.at}
<1>1. PICK name \in DOMAIN Contents \cup {None} :
      \E at \in IF Shows(name) THEN {Min(free)} ELSE {0} :
          Write([next EXCEPT !.content = IF at = 0 THEN Nothing ELSE [at |-> at, name |-> name]])
  BY DEF Deliver
<1>2. PICK at \in IF Shows(name) THEN {Min(free)} ELSE {0} :
          Write([next EXCEPT !.content = IF at = 0 THEN Nothing ELSE [at |-> at, name |-> name]])
  BY <1>1
<1>3. Min(free) \in free
  <2>1. free \in SUBSET Nat /\ free # {}
    <3>1. st.content.at \in 0 .. 3 /\ next.content.at \in 0 .. 3
      BY HeldAddresses DEF KeptInv
    <3> QED BY <3>1 DEF Addresses
  <2> HIDE DEF free
  <2> QED BY <2>1, MinIsLeast
<1> DEFINE content == IF at = 0 THEN Nothing ELSE [at |-> at, name |-> name]
           new == [next EXCEPT !.content = content]
<1>4. content = Nothing \/ (content.at \in Addresses /\ content.at # st.content.at)
  <2>1. CASE at = 0
    BY <2>1
  <2>2. CASE at # 0
    <3>1. at \in free
      BY <1>2, <1>3, <2>2
    <3> QED BY <2>2, <3>1
  <2> QED BY <2>1, <2>2
<1>5. Write(new)
  BY <1>2
<1> HIDE DEF content
<1>6. new.content = content /\ new.compact = next.compact
  BY DEF IInv, StatesInv, IsState, Fields
<1> HIDE DEF new
<1> QED BY <1>4, <1>5, <1>6, WriteIsKept

LEMMA StepIsKept ==
    ASSUME IInv, KeptInv, [Next]_vars
    PROVE  KeptInv'
<1>1. next = [f \in Fields |-> next[f]]
  BY DEF IInv, StatesInv, IsState
<1>2. ASSUME NEW o, Write([next EXCEPT !.offset = o]) PROVE KeptInv'
  BY <1>1, <1>2, WriteIsKept DEF Fields
<1>3. CASE Move
  BY <1>2, <1>3 DEF Move, ScrollBy
<1>4. CASE EdgeKey
  <2>1. PICK x \in {0, MaxX(metrics)} :
            Write([next EXCEPT !.offset = Offset(x, Least(@.y, MaxY(metrics)))])
    BY <1>4 DEF EdgeKey
  <2> QED BY <1>2, <2>1
<1>5. CASE ToggleLayout
  <2> DEFINE new == [next EXCEPT !.layout = IF @ = "inline" THEN "sideBySide" ELSE "inline"]
  <2>1. Write(new)
    BY <1>5 DEF ToggleLayout
  <2>2. new.content = next.content /\ new.compact = next.compact
    BY <1>1 DEF Fields
  <2> HIDE DEF new
  <2> QED BY <2>1, <2>2, WriteIsKept
<1>6. CASE ToggleWrap
  <2> DEFINE new == [next EXCEPT !.wrap = ~@]
  <2>1. Write(new)
    BY <1>6 DEF ToggleWrap
  <2>2. new.content = next.content /\ new.compact = next.compact
    BY <1>1 DEF Fields
  <2> HIDE DEF new
  <2> QED BY <2>1, <2>2, WriteIsKept
<1>7. CASE ResizeArea
  BY <1>7 DEF ResizeArea, KeptInv, HooksInv, MemoInv, DepsOf, MadeFrom
<1>8. CASE UNCHANGED vars
  BY <1>8 DEF vars, KeptInv, HooksInv, MemoInv, DepsOf, MadeFrom
<1> QED BY <1>3, <1>4, <1>5, <1>6, <1>7, <1>8, RoundIsKept, DeliverIsKept DEF Next

LEMMA StartIsKept ==
    ASSUME Init
    PROVE  KeptInv
<1>1. PICK start \in Starts :
          st = [content |-> Nothing, layout |-> start[1], wrap |-> start[2],
                compact |-> start[3], size |-> Size(0, 0), offset |-> Origin]
  BY DEF Init
<1>2. start[3] \in BOOLEAN
  BY ViewerAssumption DEF ViewerAssumption
<1>3. st.content = Nothing /\ st.compact \in BOOLEAN /\ next = st /\ memo.deps = NoDeps
  BY <1>1, <1>2 DEF Init
<1> QED BY <1>3 DEF KeptInv, HooksInv, MemoInv

\* Of two rows of a line the one in front has no number, and none is empty.
LEMMA NumbersOfRows ==
    ASSUME NEW rows, AreRows(rows), NEW v \in Versions, NEW text \in CodeTexts,
           NEW lines \in SUBSET (1 .. Len(text)), RowsRead(rows, v, text, lines)
    PROVE  /\ \A i \in 1 .. Len(rows) : rows[i][v].line # Filler =>
                 rows[i][v].from < rows[i][v].to \/ ByteLen(text[rows[i][v].line]) = 0
           /\ \A i, j \in 1 .. Len(rows) :
                 GutterNumber(rows[i][v]) = GutterNumber(rows[j][v]) /\ i # j
                 => GutterNumber(rows[i][v]) = Filler
           /\ lines = {rows[i][v].line : i \in 1 .. Len(rows)} \ {Filler}
<1>1. \A i \in 1 .. Len(rows) : rows[i][v] \in TerminalLines
  BY DEF AreRows, PairsOfLines
<1>2. \A i \in 1 .. Len(rows) :
          /\ rows[i][v].line \in Nat /\ rows[i][v].from \in Nat /\ rows[i][v].to \in Nat
          /\ rows[i][v].line # Filler =>
                rows[i][v].from < rows[i][v].to \/ (rows[i][v].from = 0 /\ rows[i][v].to = 0)
  BY <1>1 DEF TerminalLines
<1>3. Len(rows) \in Nat
  BY DEF AreRows
<1>4. \A i, j \in 1 .. Len(rows) :
          i # j /\ rows[i][v].line # Filler /\ rows[j][v].line = rows[i][v].line
          => rows[i][v].from # rows[j][v].from
  BY <1>2, <1>3 DEF RowsRead, Precedes
<1>5. ASSUME NEW i \in 1 .. Len(rows), rows[i][v].line # Filler
      PROVE  rows[i][v].from < rows[i][v].to \/ ByteLen(text[rows[i][v].line]) = 0
  <2> DEFINE n == rows[i][v].line
  <2>1. n \in lines
    BY <1>5 DEF RowsRead
  <2>2. text[n] \in CodeLines
    <3>1. n \in 1 .. Len(text) /\ text \in Seq(CodeLines)
      BY <2>1 DEF CodeTexts
    <3> HIDE DEF n
    <3> QED BY <3>1
  <2>3. ByteLen(text[n]) \in Nat
    BY <2>2, BytesOfLine
  <2>4. CASE 0 < ByteLen(text[n])
    <3>1. 0 \in 0 .. ByteLen(text[n]) - 1
      BY <2>3, <2>4
    <3>2. PICK j \in 1 .. Len(rows) : rows[j][v].line = n /\ rows[j][v].from <= 0 /\ 0 < rows[j][v].to
      BY <2>1, <3>1 DEF RowsRead
    <3>3. rows[j][v].from = 0
      BY <1>2, <3>2
    <3>4. rows[i][v].from = 0 /\ rows[i][v].to = 0 => i # j
      BY <3>2
    <3> QED BY <1>2, <1>4, <1>5, <3>2, <3>3, <3>4
  <2> QED BY <2>3, <2>4
<1>6. ASSUME NEW i \in 1 .. Len(rows), NEW j \in 1 .. Len(rows),
             GutterNumber(rows[i][v]) = GutterNumber(rows[j][v]), i # j
      PROVE  GutterNumber(rows[i][v]) = Filler
  BY <1>4, <1>6 DEF GutterNumber
<1>7. lines = {rows[i][v].line : i \in 1 .. Len(rows)} \ {Filler}
  <2>1. \A i \in 1 .. Len(rows) : rows[i][v].line # Filler => rows[i][v].line \in lines
    BY DEF RowsRead
  <2>2. \A n \in lines : n # Filler /\ \E i \in 1 .. Len(rows) : rows[i][v].line = n
    BY DEF RowsRead, Filler
  <2> QED BY <2>1, <2>2
<1> QED BY <1>5, <1>6, <1>7

LEMMA RowsOfContent ==
    ASSUME IInv, KeptInv, st.content # Nothing, NEW v \in Versions
    PROVE  ReadsItsLines(Contents[st.content.name], v, memo.layout.rows)
<1> DEFINE name == st.content.name
           content == Contents[name]
           rows == memo.layout.rows
           text == DrawnLines(content, v)
<1>1. name \in DOMAIN Contents /\ name # None /\ content.kind # "failed"
  BY DEF IInv, StatesInv, IsState, IsContent, Shows
<1>2. content.kind \in {"single", "diff"} /\ ContentIn(content)
  BY <1>1, KindsOfContents, WhatIsAnswered
<1>3. text \in CodeTexts
  <2>1. <<>> \in CodeTexts
    BY DEF CodeTexts
  <2>2. content.kind = "diff" => content.alignment[v] \in CodeTexts
    BY <1>2 DEF ContentIn, AlignmentIn, Versions
  <2>3. content.kind = "single" => content.lines \in CodeTexts
    BY <1>2 DEF ContentIn
  <2> QED BY <1>2, <2>1, <2>2, <2>3 DEF DrawnLines
<1>4. rows = LayoutOf(name, st.layout, st.wrap, st.compact, st.size.width).rows
  BY DEF KeptInv, MemoInv, MadeFrom
<1>5. ReadsAllBut(rows, v, content, st.compact)
  BY <1>1, <1>2, <1>4, LayoutReads DEF KeptInv, HooksInv
<1>6. AreRows(rows)
  BY DEF IInv, RowsInv
<1> HIDE DEF content, rows
<1>7. PICK lines \in SUBSET (1 .. Len(text)) :
          /\ RowsRead(rows, v, text, lines)
          /\ \A n \in (1 .. Len(text)) \ lines : st.compact /\ ~Changed(content, v, n)
  BY <1>5 DEF ReadsAllBut
<1> HIDE DEF text
<1>8. /\ \A i \in 1 .. Len(rows) : rows[i][v].line # Filler =>
            rows[i][v].from < rows[i][v].to \/ ByteLen(text[rows[i][v].line]) = 0
      /\ \A i, j \in 1 .. Len(rows) :
            GutterNumber(rows[i][v]) = GutterNumber(rows[j][v]) /\ i # j
            => GutterNumber(rows[i][v]) = Filler
      /\ lines = {rows[i][v].line : i \in 1 .. Len(rows)} \ {Filler}
  BY <1>3, <1>6, <1>7, NumbersOfRows
<1>9. ReadsItsLines(content, v, rows)
  BY <1>7, <1>8 DEF ReadsItsLines, text
<1> QED BY <1>9 DEF content, rows

--------------------------------------------------------------------------------
(* What holds in every behaviour *)

\* What a drawing leaves is what the invariant says of it.
THEOREM Invariant == Spec => []IInv
<1>1. Init => IInv
  BY StartHolds
<1>2. IInv /\ [Next]_vars => IInv'
  BY StepKeeps
<1> QED BY <1>1, <1>2, PTL DEF Spec

\* Four rounds are always enough: the one that ends a drawing asks for no other
\* one (frame.rs, MAX_LAYOUT_PASSES), whatever the files, the sizes and the moves.
THEOREM FourRoundsAreEnough == Spec => DrawingSettles
<1>1. IInv /\ [Next]_vars => [rounds > 0 /\ rounds' = 0 => ~dirty']_vars
  <2> SUFFICES ASSUME IInv, [Next]_vars, rounds > 0, rounds' = 0
               PROVE  ~dirty' \/ UNCHANGED vars
    OBVIOUS
  <2>1. CASE Round
    BY <2>1, LastRoundSettles
  <2>2. CASE ~Round
    BY <2>2 DEF Next, Move, EdgeKey, ToggleLayout, ToggleWrap, Deliver, ResizeArea, Happens
  <2> QED BY <2>1, <2>2
<1> QED BY <1>1, Invariant, PTL DEF Spec, DrawingSettles

\* After a new layout or content the first row on the screen holds the place
\* that the file had, or was left with, before the drawing began.
THEOREM ThePlaceIsKept == Spec => []PlaceIsRestored
<1>1. IInv => PlaceIsRestored
  <2> SUFFICES ASSUME IInv, rounds = 0, wanted.restores, wanted.size = st.size
               PROVE  LET rows == memo.layout.rows
                          shown == Selected(rows[st.offset.y + 1])
                      IN  /\ st.offset.x = wanted.x
                          /\ IF FindRow(rows, wanted.line) = 0 THEN st.offset.y = 0
                             ELSE /\ shown.line = wanted.line.line
                                  /\ shown.from <= wanted.line.from
                                  /\ wanted.line.from < shown.to \/ wanted.line.from = shown.from
    BY DEF PlaceIsRestored
  <2> DEFINE rows == memo.layout.rows
             at == FindRow(rows, wanted.line)
  <2>1. IsPlaced_(st)
    BY DEF IInv, PlaceInv
  <2>2. AreRows(rows) /\ IsLine(wanted.line)
    BY DEF IInv, RowsInv, LinesInv
  <2>3. /\ at \in Nat /\ (wanted.line = FillerLine => at = 0)
        /\ at # 0 => /\ Selected(rows[at]).line = wanted.line.line
                     /\ Selected(rows[at]).from <= wanted.line.from
                     /\ \/ wanted.line.from < Selected(rows[at]).to
                        \/ wanted.line.from = Selected(rows[at]).from
    BY <2>2, RowFound
  <2>4. CASE at = 0
    BY <2>1, <2>4 DEF IsPlaced_, IndexFor, Monus, Greatest
  <2>5. CASE at # 0
    <3>1. st.offset.y = at - 1
      BY <2>1, <2>3, <2>5 DEF IsPlaced_, IndexFor, IsSource, Monus, Greatest
    <3>2. st.offset.y + 1 = at
      BY <2>3, <3>1
    <3> HIDE DEF at, rows
    <3>3. Selected(rows[st.offset.y + 1]) = Selected(rows[at])
      BY <3>2
    <3> QED BY <2>1, <2>3, <2>5, <3>3 DEF IsPlaced_, rows, at
  <2> QED BY <2>4, <2>5
<1> QED BY <1>1, Invariant, PTL

\* Each byte of either version is in one row, in order, whatever the file, the
\* layout, wrapping and width, and only a compact view leaves out lines, none of
\* which changed (align, view/terminal_lines.rs); and the rows are never those of
\* another file at the address of one that is gone (the use_memo of the layout in
\* diff_viewer_container.rs).
THEOREM EachByteIsInOneRow == Spec => []TextIsShownOnce
<1>1. Init => IInv /\ KeptInv
  BY StartHolds, StartIsKept
<1>2. IInv /\ KeptInv /\ [Next]_vars => (IInv /\ KeptInv)'
  BY StepKeeps, StepIsKept
<1>3. IInv /\ KeptInv => TextIsShownOnce
  BY RowsOfContent DEF TextIsShownOnce
<1> QED BY <1>1, <1>2, <1>3, PTL DEF Spec
================================================================================
