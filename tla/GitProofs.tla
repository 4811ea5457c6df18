------------------------------ MODULE GitProofs ------------------------------
(***************************************************************************)
(* For every repository and whatever becomes of it, the list is the one    *)
(* that comparing its trees path by path gives, an entry's two sides are   *)
(* the ones it names, and what Space was pressed on has moved.             *)
(*                                                                         *)
(* The invariant is short: between two changes the list is what a listing  *)
(* would find now (ListInv), and what the last command did is still so     *)
(* (DoneInv).  The work is in the listing, whose steps are recursive:      *)
(*                                                                         *)
(*  - what a recursive definition computes is shown by Induction, on the   *)
(*    set of the numbers it is right for, and first that there is such a   *)
(*    function at all (CountsUpExists, PairsUpExists, JoinsUpExists);      *)
(*  - git's fields say what is so of each path (StatusFieldsRead), the     *)
(*    parser makes one entry of each record and skips the path behind a    *)
(*    rename (ParseLists), and each half of an entry is a file of its own  *)
(*    (FilesHaveHalves, ListedFiles);                                      *)
(*  - the counts of a file are those of the last record for its path, and  *)
(*    that is the record of its two texts (StatsOfUnstaged, StatsOfStaged, *)
(*    CountsBetween).                                                      *)
(***************************************************************************)
EXTENDS Git, WellFoundedInduction, TLAPS

-----------------------------------------------------------------------------
(* Recursive definitions *)

\* Induction over the natural numbers, for a set that is given: {n \in Nat : ...}.
LEMMA Induction ==
    ASSUME NEW S, 0 \in S, \A n \in Nat : n \in S => n + 1 \in S
    PROVE  Nat \subseteq S
<1>1. SUFFICES ASSUME Nat \ S # {} PROVE FALSE
  OBVIOUS
<1>2. PICK x \in Nat \ S : \A y \in Nat \ S : ~(y < x)
  <2> DEFINE T == Nat \ S
             R == {ss \in Nat \X Nat : ss[1] < ss[2]}
  <2>1. T \subseteq Nat /\ T # {}
    BY <1>1
  <2>2. R = OpToRel(<, Nat)
    BY DEF OpToRel
  <2>3. IsWellFoundedOn(R, Nat)
    BY <2>2, NatLessThanWellFounded
  <2>4. \A x, y \in Nat : <<y, x>> \in R <=> y < x
    OBVIOUS
  <2> HIDE DEF T, R
  <2>5. \E x \in T : \A y \in T : ~(<<y, x>> \in R)
    BY <2>1, <2>3, WFMin
  <2>6. \E x \in T : \A y \in T : ~(y < x)
    BY <2>1, <2>4, <2>5
  <2> QED BY <2>6 DEF T
<1>3. x # 0 /\ x - 1 \in Nat
  BY <1>2
<1>4. x - 1 \in S
  BY <1>2, <1>3
<1> QED BY <1>2, <1>3, <1>4

\* What Ascending counts up, as a function.
CountsUp(f, I, m) ==
    f = [n \in 0..m |-> IF n = 0 THEN <<>>
                        ELSE IF n \in I THEN Append(f[n - 1], n) ELSE f[n - 1]]

\* There is such a function.
LEMMA CountsUpExists ==
    ASSUME NEW I, NEW m \in Nat
    PROVE  \E f : CountsUp(f, I, m)
<1> DEFINE S == {k \in Nat : \E f : CountsUp(f, I, k)}
<1>1. 0 \in S
  <2>1. CountsUp([n \in 0..0 |-> <<>>], I, 0)
    BY DEF CountsUp
  <2> QED BY <2>1
<1>2. ASSUME NEW k \in Nat, k \in S PROVE k + 1 \in S
  <2>1. PICK f : CountsUp(f, I, k)
    BY <1>2
  <2> DEFINE g == [n \in 0..(k + 1) |-> IF n \in 0..k THEN f[n]
                                        ELSE IF n \in I THEN Append(f[n - 1], n) ELSE f[n - 1]]
  <2>2. \A n \in 0..k : f[n] = IF n = 0 THEN <<>>
                               ELSE IF n \in I THEN Append(f[n - 1], n) ELSE f[n - 1]
    BY <2>1 DEF CountsUp
  <2>3. CountsUp(g, I, k + 1)
    BY <2>2 DEF CountsUp
  <2> QED BY <2>3
<1>3. Nat \subseteq S
  <2> HIDE DEF S
  <2> QED BY <1>1, <1>2, Induction
<1> QED BY <1>3

\* Ascending is the end of it.
LEMMA AscendingCountsUp ==
    ASSUME NEW I, NEW m \in Nat
    PROVE  \E f : CountsUp(f, I, m) /\ Ascending(I, m) = f[m]
<1> DEFINE f == CHOOSE f : CountsUp(f, I, m)
<1>1. CountsUp(f, I, m)
  BY CountsUpExists
<1>2. Ascending(I, m) = f[m]
  BY DEF Ascending, CountsUp
<1> QED BY <1>1, <1>2

\* The members of a set of numbers from 1 to m, from the least on.
Ascends(a, I, m) ==
    /\ a \in Seq(Nat)
    /\ \A k \in 1..Len(a) : a[k] \in I /\ a[k] \in 1..m
    /\ \A k, l \in 1..Len(a) : k < l => a[k] < a[l]
    /\ \A i \in 1..m : i \in I => \E k \in 1..Len(a) : a[k] = i

\* Ascending counts them all, each once and in order.
LEMMA AscendingAscends ==
    ASSUME NEW I, NEW m \in Nat
    PROVE  Ascends(Ascending(I, m), I, m)
<1>1. PICK f : CountsUp(f, I, m) /\ Ascending(I, m) = f[m]
  BY AscendingCountsUp
<1> DEFINE S == {n \in Nat : n <= m => Ascends(f[n], I, n)}
<1>2. 0 \in S
  <2>1. f[0] = <<>>
    BY <1>1 DEF CountsUp
  <2>2. Ascends(<<>>, I, 0)
    BY DEF Ascends
  <2> QED BY <2>1, <2>2
<1>3. ASSUME NEW n \in Nat, n \in S PROVE n + 1 \in S
  <2>1. SUFFICES ASSUME n + 1 <= m PROVE Ascends(f[n + 1], I, n + 1)
    OBVIOUS
  <2>2. Ascends(f[n], I, n)
    BY <1>3, <2>1
  <2> HIDE DEF S
  <2>3. f[n + 1] = IF n + 1 \in I THEN Append(f[n], n + 1) ELSE f[n]
    <3>1. \A k \in 0..m : f[k] = IF k = 0 THEN <<>>
                                 ELSE IF k \in I THEN Append(f[k - 1], k) ELSE f[k - 1]
      BY <1>1 DEF CountsUp
    <3>2. n + 1 \in 0..m /\ n + 1 # 0 /\ (n + 1) - 1 = n
      BY <2>1
    <3> QED BY <3>1, <3>2
  <2> DEFINE a == f[n]
             b == f[n + 1]
  <2> HIDE DEF a, b
  <2>4. CASE n + 1 \notin I
    <3>1. b = a
      BY <2>3, <2>4 DEF a, b
    <3> QED BY <2>2, <2>4, <3>1 DEF a, b, Ascends
  <2>5. CASE n + 1 \in I
    <3>1. b = Append(a, n + 1)
      BY <2>3, <2>5 DEF a, b
    <3>2. Ascends(a, I, n)
      BY <2>2 DEF a
    <3>3. b \in Seq(Nat) /\ Len(b) = Len(a) + 1 /\ Len(a) \in Nat
      BY <3>1, <3>2 DEF Ascends
    <3>4. \A k \in 1..Len(a) : b[k] = a[k]
      BY <3>1, <3>2 DEF Ascends
    <3>5. b[Len(a) + 1] = n + 1
      BY <3>1, <3>2 DEF Ascends
    <3>10. \A k \in 1..Len(b) : k \in 1..Len(a) \/ k = Len(a) + 1
      BY <3>3
    <3>11. \A k \in 1..Len(a) : k \in 1..Len(b)
      BY <3>3
    <3>12. /\ \A k \in 1..Len(a) : a[k] \in I /\ a[k] \in 1..n
           /\ \A k, l \in 1..Len(a) : k < l => a[k] < a[l]
           /\ \A i \in 1..n : i \in I => \E k \in 1..Len(a) : a[k] = i
      BY <3>2 DEF Ascends
    <3>6. \A k \in 1..Len(b) : b[k] \in I /\ b[k] \in 1..(n + 1)
      BY <2>5, <3>4, <3>5, <3>10, <3>12
    <3>7. \A k, l \in 1..Len(b) : k < l => b[k] < b[l]
      <4>1. TAKE k, l \in 1..Len(b)
      <4>2. HAVE k < l
      <4>3. k \in 1..Len(a)
        BY <3>3, <4>2
      <4>4. CASE l \in 1..Len(a)
        BY <3>4, <3>12, <4>2, <4>3, <4>4
      <4>5. CASE l = Len(a) + 1
        <5>1. a[k] \in 1..n
          BY <3>12, <4>3
        <5> QED BY <3>4, <3>5, <4>3, <4>5, <5>1
      <4> QED BY <3>10, <4>4, <4>5
    <3>8. \A i \in 1..(n + 1) : i \in I => \E k \in 1..Len(b) : b[k] = i
      <4>1. TAKE i \in 1..(n + 1)
      <4>2. HAVE i \in I
      <4>3. CASE i \in 1..n
        BY <3>4, <3>11, <3>12, <4>2, <4>3
      <4>4. CASE i = n + 1
        <5>1. Len(a) + 1 \in 1..Len(b)
          BY <3>3
        <5> QED BY <3>5, <4>4, <5>1
      <4> QED BY <4>3, <4>4
    <3>9. Ascends(b, I, n + 1)
      BY <3>3, <3>6, <3>7, <3>8 DEF Ascends
    <3> QED BY <3>9 DEF b
  <2> QED BY <2>4, <2>5
<1>4. Nat \subseteq S
  <2> HIDE DEF S
  <2> QED BY <1>2, <1>3, Induction
<1> QED BY <1>1, <1>4

-----------------------------------------------------------------------------
(* What is picked of a sequence, and sequences in a row *)

\* What Picked has at each place.
LEMMA PickedAscends ==
    ASSUME NEW T, NEW s \in Seq(T), NEW I
    PROVE  \E a : /\ Ascends(a, I, Len(s))
                 /\ Picked(s, I) \in Seq(T)
                 /\ Len(Picked(s, I)) = Len(a)
                 /\ \A k \in 1..Len(a) : Picked(s, I)[k] = s[a[k]]
<1> DEFINE a == Ascending(I, Len(s))
<1>1. Ascends(a, I, Len(s))
  BY AscendingAscends
<1>2. Picked(s, I) = [k \in DOMAIN a |-> s[a[k]]]
  BY DEF Picked
<1> HIDE DEF a
<1>3. a \in Seq(Nat) /\ Len(a) \in Nat /\ DOMAIN a = 1..Len(a)
  BY <1>1 DEF Ascends
<1>4. \A k \in 1..Len(a) : s[a[k]] \in T
  BY <1>1 DEF Ascends
<1>5. Picked(s, I) = [k \in 1..Len(a) |-> s[a[k]]]
  BY <1>2, <1>3
<1>6. Picked(s, I) \in Seq(T) /\ Len(Picked(s, I)) = Len(a)
  BY <1>3, <1>4, <1>5
<1> QED BY <1>1, <1>3, <1>5, <1>6

\* A sequence that has each member of a set once.
Lists(s, S) ==
    /\ s \in Seq(S)
    /\ \A p \in S : \E k \in 1..Len(s) : s[k] = p
    /\ \A k, l \in 1..Len(s) : s[k] = s[l] => k = l

\* What is picked of a list by what is there.
LEMMA PickedLists ==
    ASSUME NEW S, NEW R, NEW s, Lists(s, S), NEW I,
           \A i \in 1..Len(s) : i \in I <=> s[i] \in R
    PROVE  Lists(Picked(s, I), S \cap R)
<1>1. /\ s \in Seq(S) /\ Len(s) \in Nat
      /\ \A p \in S : \E i \in 1..Len(s) : s[i] = p
      /\ \A i, j \in 1..Len(s) : s[i] = s[j] => i = j
  BY DEF Lists
<1> DEFINE t == Picked(s, I)
           m == Len(s)
<1>2. PICK a : /\ Ascends(a, I, m)
               /\ t \in Seq(S)
               /\ Len(t) = Len(a)
               /\ \A k \in 1..Len(a) : t[k] = s[a[k]]
  <2>1. \A T : s \in Seq(T) =>
          \E a : /\ Ascends(a, I, m)
                /\ t \in Seq(T)
                /\ Len(t) = Len(a)
                /\ \A k \in 1..Len(a) : t[k] = s[a[k]]
    BY PickedAscends
  <2> HIDE DEF t, m
  <2> QED BY <1>1, <2>1
<1> HIDE DEF t
<1>3. /\ Len(a) \in Nat
      /\ \A k \in 1..Len(a) : a[k] \in I /\ a[k] \in 1..Len(s)
      /\ \A k, l \in 1..Len(a) : k < l => a[k] < a[l]
      /\ \A i \in 1..Len(s) : i \in I => \E k \in 1..Len(a) : a[k] = i
  BY <1>2 DEF Ascends
<1>4. \A k, l \in 1..Len(a) : a[k] = a[l] => k = l
  BY <1>3
<1>5. /\ t \in Seq(S) /\ Len(t) = Len(a)
      /\ \A k \in 1..Len(a) : t[k] = s[a[k]]
  BY <1>2
<1>6. t \in Seq(S \cap R)
  <2>1. \A k \in 1..Len(t) : t[k] \in S \cap R
    <3>1. TAKE k \in 1..Len(t)
    <3>2. k \in 1..Len(a) /\ t[k] = s[a[k]] /\ t[k] \in S
      BY <1>5
    <3>3. a[k] \in 1..Len(s) /\ a[k] \in I
      BY <1>3, <3>2
    <3>4. s[a[k]] \in R
      BY <3>3
    <3> QED BY <3>2, <3>4
  <2> QED BY <1>5, <2>1
<1>7. \A p \in S \cap R : \E k \in 1..Len(t) : t[k] = p
  <2>1. TAKE p \in S \cap R
  <2>2. PICK i \in 1..Len(s) : s[i] = p
    BY <1>1
  <2>3. i \in I
    BY <2>2
  <2>4. PICK k \in 1..Len(a) : a[k] = i
    BY <1>3, <2>3
  <2>5. k \in 1..Len(t) /\ t[k] = p
    BY <1>5, <2>2, <2>4
  <2> QED BY <2>5
<1>8. \A k, l \in 1..Len(t) : t[k] = t[l] => k = l
  <2>1. TAKE k, l \in 1..Len(t)
  <2>2. HAVE t[k] = t[l]
  <2>3. k \in 1..Len(a) /\ l \in 1..Len(a) /\ t[k] = s[a[k]] /\ t[l] = s[a[l]]
    BY <1>5
  <2>4. a[k] \in 1..Len(s) /\ a[l] \in 1..Len(s)
    BY <1>3, <2>3
  <2>5. a[k] = a[l]
    <3>1. \A i, j \in 1..Len(s) : s[i] = s[j] => i = j
      BY <1>1
    <3> HIDE DEF m
    <3> QED BY <2>2, <2>3, <2>4, <3>1
  <2> QED BY <1>4, <2>3, <2>5
<1>9. Lists(t, S \cap R)
  BY <1>6, <1>7, <1>8 DEF Lists
<1> QED BY <1>9 DEF t

\* Sorted lists paths.
LEMMA SortedLists ==
    ASSUME NEW S, S \subseteq Paths
    PROVE  Lists(Sorted(S), S)
<1>1. Lists(PathOrder, Paths)
  BY GitAssumption DEF Lists, Paths, Range, IsInjective
<1> DEFINE I == {i \in DOMAIN PathOrder : PathOrder[i] \in S}
<1>2. \A i \in 1..Len(PathOrder) : i \in I <=> PathOrder[i] \in S
  BY GitAssumption
<1>3. Sorted(S) = Picked(PathOrder, I)
  BY DEF Sorted
<1> HIDE DEF I
<1>4. Lists(Picked(PathOrder, I), Paths \cap S)
  BY <1>1, <1>2, PickedLists
<1>5. Paths \cap S = S
  OBVIOUS
<1> QED BY <1>3, <1>4, <1>5

\* Each place of r is the place nth of the part of; all places of the first n parts
\* are in r, each once, and those of a part behind each other.
Joins(r, of, nth, seqs, n) ==
    /\ \A i \in 1..Len(r) : /\ of[i] \in 1..n
                            /\ nth[i] \in 1..Len(seqs[of[i]])
                            /\ r[i] = seqs[of[i]][nth[i]]
    /\ \A i \in 1..Len(r) : nth[i] < Len(seqs[of[i]]) =>
           /\ i + 1 \in 1..Len(r)
           /\ of[i + 1] = of[i]
           /\ nth[i + 1] = nth[i] + 1
    /\ \A i, j \in 1..Len(r) : of[i] = of[j] /\ nth[i] = nth[j] => i = j
    /\ \A k \in 1..n : \A l \in 1..Len(seqs[k]) :
           \E i \in 1..Len(r) : of[i] = k /\ nth[i] = l

\* One more part.
LEMMA JoinsMore ==
    ASSUME NEW T, NEW r \in Seq(T), NEW n \in Nat, NEW seqs, seqs[n + 1] \in Seq(T),
           NEW of, NEW nth, Joins(r, of, nth, seqs, n)
    PROVE  \E of2, nth2 : Joins(r \o seqs[n + 1], of2, nth2, seqs, n + 1)
<1> DEFINE t == seqs[n + 1]
           r2 == r \o t
           of2 == [i \in 1..Len(r2) |-> IF i \in 1..Len(r) THEN of[i] ELSE n + 1]
           nth2 == [i \in 1..Len(r2) |-> IF i \in 1..Len(r) THEN nth[i] ELSE i - Len(r)]
<1>1. /\ Len(r) \in Nat /\ Len(t) \in Nat /\ Len(r2) = Len(r) + Len(t)
      /\ \A i \in 1..Len(r2) : r2[i] = IF i \in 1..Len(r) THEN r[i] ELSE t[i - Len(r)]
  OBVIOUS
<1>2. /\ \A i \in 1..Len(r2) : of2[i] = IF i \in 1..Len(r) THEN of[i] ELSE n + 1
      /\ \A i \in 1..Len(r2) : nth2[i] = IF i \in 1..Len(r) THEN nth[i] ELSE i - Len(r)
  OBVIOUS
<1>3. /\ \A i \in 1..Len(r) : of[i] \in 1..n /\ nth[i] \in 1..Len(seqs[of[i]])
                               /\ r[i] = seqs[of[i]][nth[i]]
      /\ \A i \in 1..Len(r) : nth[i] < Len(seqs[of[i]]) =>
             i + 1 \in 1..Len(r) /\ of[i + 1] = of[i] /\ nth[i + 1] = nth[i] + 1
      /\ \A i, j \in 1..Len(r) : of[i] = of[j] /\ nth[i] = nth[j] => i = j
      /\ \A k \in 1..n : \A l \in 1..Len(seqs[k]) : \E i \in 1..Len(r) : of[i] = k /\ nth[i] = l
  BY DEF Joins
<1> HIDE DEF r2, of2, nth2
<1>4. \A i \in 1..Len(r2) : i \in 1..Len(r) \/ i - Len(r) \in 1..Len(t)
  BY <1>1
<1>5. \A i \in 1..Len(r) : i \in 1..Len(r2)
  BY <1>1
<1>6. \A i \in 1..Len(r2) : /\ of2[i] \in 1..(n + 1)
                            /\ nth2[i] \in 1..Len(seqs[of2[i]])
                            /\ r2[i] = seqs[of2[i]][nth2[i]]
  <2>1. TAKE i \in 1..Len(r2)
  <2>2. CASE i \in 1..Len(r)
    <3>1. of2[i] = of[i] /\ nth2[i] = nth[i] /\ r2[i] = r[i]
      BY <1>1, <1>2, <2>2
    <3>2. of[i] \in 1..n /\ nth[i] \in 1..Len(seqs[of[i]]) /\ r[i] = seqs[of[i]][nth[i]]
      BY <1>3, <2>2
    <3> QED BY <3>1, <3>2
  <2>3. CASE i \notin 1..Len(r)
    <3>1. of2[i] = n + 1 /\ nth2[i] = i - Len(r) /\ r2[i] = t[i - Len(r)]
      BY <1>1, <1>2, <2>3
    <3>2. i - Len(r) \in 1..Len(t)
      BY <1>4, <2>3
    <3> QED BY <3>1, <3>2
  <2> QED BY <2>2, <2>3
<1>7. \A i \in 1..Len(r2) : nth2[i] < Len(seqs[of2[i]]) =>
         i + 1 \in 1..Len(r2) /\ of2[i + 1] = of2[i] /\ nth2[i + 1] = nth2[i] + 1
  <2>1. TAKE i \in 1..Len(r2)
  <2>2. HAVE nth2[i] < Len(seqs[of2[i]])
  <2>3. CASE i \in 1..Len(r)
    BY <1>1, <1>2, <1>3, <1>5, <2>2, <2>3
  <2>4. CASE i \notin 1..Len(r)
    <3>1. of2[i] = n + 1 /\ nth2[i] = i - Len(r)
      BY <1>2, <2>4
    <3>2. i + 1 \in 1..Len(r2) /\ i + 1 \notin 1..Len(r)
      BY <1>1, <2>2, <2>4, <3>1
    <3>3. of2[i + 1] = n + 1 /\ nth2[i + 1] = (i + 1) - Len(r)
      BY <1>2, <3>2
    <3> QED BY <1>1, <3>1, <3>2, <3>3
  <2> QED BY <2>3, <2>4
<1>8. \A i, j \in 1..Len(r2) : of2[i] = of2[j] /\ nth2[i] = nth2[j] => i = j
  <2>1. TAKE i, j \in 1..Len(r2)
  <2>2. HAVE of2[i] = of2[j] /\ nth2[i] = nth2[j]
  <2>3. (i \in 1..Len(r)) <=> (j \in 1..Len(r))
    <3>1. \A k \in 1..Len(r) : of[k] # n + 1
      BY <1>3
    <3> QED BY <1>2, <2>2, <3>1
  <2>4. CASE i \in 1..Len(r)
    BY <1>2, <1>3, <2>2, <2>3, <2>4
  <2>5. CASE i \notin 1..Len(r)
    BY <1>1, <1>2, <2>2, <2>3, <2>5
  <2> QED BY <2>4, <2>5
<1>9. \A k \in 1..(n + 1) : \A l \in 1..Len(seqs[k]) :
         \E i \in 1..Len(r2) : of2[i] = k /\ nth2[i] = l
  <2>1. TAKE k \in 1..(n + 1)
  <2>2. TAKE l \in 1..Len(seqs[k])
  <2>3. CASE k \in 1..n
    <3>1. PICK i \in 1..Len(r) : of[i] = k /\ nth[i] = l
      BY <1>3, <2>3
    <3>2. of2[i] = k /\ nth2[i] = l
      BY <1>2, <1>5, <3>1
    <3> QED BY <1>5, <3>2
  <2>4. CASE k = n + 1
    <3>1. l \in 1..Len(t)
      BY <2>4
    <3>2. Len(r) + l \in 1..Len(r2) /\ Len(r) + l \notin 1..Len(r) /\ (Len(r) + l) - Len(r) = l
      BY <1>1, <3>1
    <3>3. of2[Len(r) + l] = k /\ nth2[Len(r) + l] = l
      BY <1>2, <2>4, <3>2
    <3> QED BY <3>2, <3>3
  <2> QED BY <2>3, <2>4
<1>10. Joins(r2, of2, nth2, seqs, n + 1)
  BY <1>6, <1>7, <1>8, <1>9 DEF Joins
<1> QED BY <1>10 DEF r2

\* What FlattenSeq joins, as a function.
JoinsUp(f, seqs, m) ==
    f = [i \in 1..m |-> IF i = 1 THEN seqs[i] ELSE f[i - 1] \o seqs[i]]

\* There is such a function.
LEMMA JoinsUpExists ==
    ASSUME NEW seqs, NEW m \in Nat
    PROVE  \E f : JoinsUp(f, seqs, m)
<1> DEFINE S == {k \in Nat : \E f : JoinsUp(f, seqs, k)}
<1>1. 0 \in S
  <2>1. JoinsUp([i \in 1..0 |-> <<>>], seqs, 0)
    BY DEF JoinsUp
  <2> QED BY <2>1
<1>2. ASSUME NEW k \in Nat, k \in S PROVE k + 1 \in S
  <2>1. PICK f : JoinsUp(f, seqs, k)
    BY <1>2
  <2> DEFINE g == [i \in 1..(k + 1) |-> IF i \in 1..k THEN f[i]
                                        ELSE IF i = 1 THEN seqs[i] ELSE f[i - 1] \o seqs[i]]
  <2>2. \A i \in 1..k : f[i] = IF i = 1 THEN seqs[i] ELSE f[i - 1] \o seqs[i]
    BY <2>1 DEF JoinsUp
  <2>3. \A i \in 1..(k + 1) : i # 1 => i - 1 \in 1..k
    OBVIOUS
  <2>4. \A i \in 1..(k + 1) : g[i] = IF i = 1 THEN seqs[i] ELSE g[i - 1] \o seqs[i]
    BY <2>2, <2>3
  <2>5. g = [i \in 1..(k + 1) |-> g[i]]
    OBVIOUS
  <2> HIDE DEF g
  <2>6. JoinsUp(g, seqs, k + 1)
    BY <2>4, <2>5 DEF JoinsUp
  <2> QED BY <2>6
<1>3. Nat \subseteq S
  <2> HIDE DEF S
  <2> QED BY <1>1, <1>2, Induction
<1> QED BY <1>3

\* FlattenSeq has all its parts in a row.
LEMMA FlattenSeqJoins ==
    ASSUME NEW T, NEW seqs \in Seq(Seq(T))
    PROVE  /\ FlattenSeq(seqs) \in Seq(T)
           /\ \E of, nth : Joins(FlattenSeq(seqs), of, nth, seqs, Len(seqs))
<1>1. CASE seqs = <<>>
  <2>1. FlattenSeq(seqs) = <<>>
    BY <1>1 DEF FlattenSeq
  <2>2. Joins(<<>>, <<>>, <<>>, seqs, 0)
    BY DEF Joins
  <2>3. Len(seqs) = 0 /\ <<>> \in Seq(T)
    BY <1>1
  <2> QED BY <2>1, <2>2, <2>3
<1>2. CASE seqs # <<>>
  <2> DEFINE m == Len(seqs)
             f == CHOOSE f : JoinsUp(f, seqs, m)
  <2>1. m \in Nat /\ m # 0
    BY <1>2
  <2>2. JoinsUp(f, seqs, m)
    BY <2>1, JoinsUpExists
  <2>3. FlattenSeq(seqs) = f[m]
    BY <2>1 DEF FlattenSeq, JoinsUp
  <2> HIDE DEF m, f
  <2>4. \A i \in 1..m : f[i] = IF i = 1 THEN seqs[i] ELSE f[i - 1] \o seqs[i]
    BY <2>2 DEF JoinsUp
  <2>5. \A i \in 1..m : seqs[i] \in Seq(T)
    BY DEF m
  <2>11. \A r \in Seq(T), n \in Nat : \A of, nth :
            seqs[n + 1] \in Seq(T) /\ Joins(r, of, nth, seqs, n) =>
                \E of2, nth2 : Joins(r \o seqs[n + 1], of2, nth2, seqs, n + 1)
    BY JoinsMore
  <2> DEFINE Good(n) == f[n] \in Seq(T) /\ \E of, nth : Joins(f[n], of, nth, seqs, n)
             S == {n \in Nat : n + 1 <= m => Good(n + 1)}
  <2>6. 0 \in S
    <3>1. f[1] = <<>> \o seqs[1] /\ seqs[1] \in Seq(T)
      BY <2>1, <2>4, <2>5
    <3>2. Joins(<<>>, <<>>, <<>>, seqs, 0)
      BY DEF Joins
    <3>3. \E of, nth : Joins(<<>> \o seqs[0 + 1], of, nth, seqs, 0 + 1)
      BY <2>11, <3>1, <3>2, 0 \in Nat, <<>> \in Seq(T), 0 + 1 = 1
    <3> QED BY <3>1, <3>3
  <2>7. ASSUME NEW n \in Nat, n \in S PROVE n + 1 \in S
    <3>1. SUFFICES ASSUME (n + 1) + 1 <= m PROVE Good((n + 1) + 1)
      OBVIOUS
    <3>2. Good(n + 1)
      BY <2>1, <2>7, <3>1
    <3>3. PICK of, nth : Joins(f[n + 1], of, nth, seqs, n + 1)
      BY <3>2
    <3> HIDE DEF S
    <3>4. f[(n + 1) + 1] = f[n + 1] \o seqs[(n + 1) + 1]
      <4>1. (n + 1) + 1 \in 1..m /\ (n + 1) + 1 # 1 /\ ((n + 1) + 1) - 1 = n + 1
        BY <2>1, <3>1
      <4> QED BY <2>4, <4>1
    <3>5. seqs[(n + 1) + 1] \in Seq(T) /\ f[n + 1] \in Seq(T)
      BY <2>1, <2>5, <3>1, <3>2
    <3>6. \E of2, nth2 : Joins(f[n + 1] \o seqs[(n + 1) + 1], of2, nth2, seqs, (n + 1) + 1)
      BY <2>11, <3>3, <3>5, n + 1 \in Nat
    <3> QED BY <3>4, <3>5, <3>6
  <2>8. Nat \subseteq S
    <3> HIDE DEF S
    <3> QED BY <2>6, <2>7, Induction
  <2>9. m - 1 \in Nat /\ (m - 1) + 1 = m
    BY <2>1
  <2>10. Good(m)
    BY <2>8, <2>9
  <2> QED BY <2>3, <2>10 DEF m
<1> QED BY <1>1, <1>2

-----------------------------------------------------------------------------
(* What git reports *)

\* Each new path of a rename is only in the second tree, its old one only in the
\* first, with the same text, and an old path is moved once.
AreRenames(pairs, before, after) ==
    /\ DOMAIN pairs \subseteq Paths
    /\ \A p \in DOMAIN pairs :
          /\ before[p] = Absent /\ after[p] # Absent
          /\ pairs[p] \in Paths
          /\ before[pairs[p]] # Absent /\ after[pairs[p]] = Absent
          /\ before[pairs[p]] = after[p]
    /\ \A p, q \in DOMAIN pairs : pairs[p] = pairs[q] => p = q

\* One more path keeps it so.
LEMMA WithRenameSound ==
    ASSUME NEW pairs, NEW before, NEW after, NEW p \in Paths, AreRenames(pairs, before, after)
    PROVE  AreRenames(WithRename(pairs, before, after, p), before, after)
<1> DEFINE S == {o \in Paths : /\ before[o] # Absent /\ after[o] = Absent
                               /\ before[o] = after[p]
                               /\ \A q \in DOMAIN pairs : pairs[q] # o}
           from == Sorted(S)
           more == [q \in DOMAIN pairs \cup {p} |-> IF q = p THEN Head(from) ELSE pairs[q]]
<1>1. WithRename(pairs, before, after, p)
        = IF before[p] # Absent \/ after[p] = Absent \/ from = <<>> THEN pairs ELSE more
  BY DEF WithRename
<1>2. Lists(from, S)
  <2>1. S \subseteq Paths
    OBVIOUS
  <2> HIDE DEF S
  <2> QED BY <2>1, SortedLists
<1>3. ASSUME before[p] = Absent, after[p] # Absent, from # <<>>
      PROVE  AreRenames(more, before, after)
  <2>1. Head(from) \in S
    <3> HIDE DEF S
    <3> HIDE DEF from
    <3>1. from \in Seq(S) /\ from # <<>>
      BY <1>2, <1>3 DEF Lists
    <3> QED BY <3>1
  <2> HIDE DEF from
  <2>2. /\ Head(from) \in Paths /\ before[Head(from)] # Absent /\ after[Head(from)] = Absent
        /\ before[Head(from)] = after[p]
        /\ \A q \in DOMAIN pairs : pairs[q] # Head(from)
    BY <2>1
  <2> HIDE DEF S
  <2>3. /\ DOMAIN more = DOMAIN pairs \cup {p}
        /\ \A q \in DOMAIN more : more[q] = IF q = p THEN Head(from) ELSE pairs[q]
    OBVIOUS
  <2> HIDE DEF more
  <2> QED BY <1>3, <2>2, <2>3 DEF AreRenames
<1> QED BY <1>1, <1>3

\* The renames up to each path, as a function.
PairsUp(f, before, after, m) ==
    f = [n \in 0..m |-> IF n = 0 THEN [q \in {} |-> NoPath]
                        ELSE WithRename(f[n - 1], before, after, PathOrder[n])]

\* There is such a function.
LEMMA PairsUpExists ==
    ASSUME NEW before, NEW after, NEW m \in Nat
    PROVE  \E f : PairsUp(f, before, after, m)
<1> DEFINE S == {k \in Nat : \E f : PairsUp(f, before, after, k)}
<1>1. 0 \in S
  <2>1. PairsUp([n \in 0..0 |-> [q \in {} |-> NoPath]], before, after, 0)
    BY DEF PairsUp
  <2> QED BY <2>1
<1>2. ASSUME NEW k \in Nat, k \in S PROVE k + 1 \in S
  <2>1. PICK f : PairsUp(f, before, after, k)
    BY <1>2
  <2> DEFINE g == [n \in 0..(k + 1) |-> IF n \in 0..k THEN f[n]
                                        ELSE WithRename(f[n - 1], before, after, PathOrder[n])]
  <2>2. \A n \in 0..k : f[n] = IF n = 0 THEN [q \in {} |-> NoPath]
                               ELSE WithRename(f[n - 1], before, after, PathOrder[n])
    BY <2>1 DEF PairsUp
  <2>3. \A n \in 0..(k + 1) : n # 0 => n - 1 \in 0..k
    OBVIOUS
  <2>4. \A n \in 0..(k + 1) : g[n] = IF n = 0 THEN [q \in {} |-> NoPath]
                                     ELSE WithRename(g[n - 1], before, after, PathOrder[n])
    <3>1. TAKE n \in 0..(k + 1)
    <3>2. CASE n \in 0..k
      BY <2>2, <2>3, <3>2
    <3>3. CASE n = k + 1
      BY <2>3, <3>3
    <3> QED BY <3>2, <3>3
  <2>5. g = [n \in 0..(k + 1) |-> g[n]]
    OBVIOUS
  <2> HIDE DEF g
  <2>6. PairsUp(g, before, after, k + 1)
    BY <2>4, <2>5 DEF PairsUp
  <2> QED BY <2>6
<1>3. Nat \subseteq S
  <2> HIDE DEF S
  <2> QED BY <1>1, <1>2, Induction
<1> QED BY <1>3

\* RenamesBetween pairs as it should.
LEMMA RenamesSound ==
    ASSUME NEW before, NEW after
    PROVE  AreRenames(RenamesBetween(before, after), before, after)
<1> DEFINE m == Len(PathOrder)
           f == CHOOSE f : PairsUp(f, before, after, m)
<1>1. m \in Nat /\ \A n \in 1..m : PathOrder[n] \in Paths
  BY GitAssumption DEF Paths, Range
<1>2. PairsUp(f, before, after, m)
  BY <1>1, PairsUpExists
<1>3. RenamesBetween(before, after) = f[m]
  BY DEF RenamesBetween, PairsUp
<1> HIDE DEF m, f
<1>4. \A n \in 0..m : f[n] = IF n = 0 THEN [q \in {} |-> NoPath]
                             ELSE WithRename(f[n - 1], before, after, PathOrder[n])
  BY <1>2 DEF PairsUp
<1> DEFINE S == {n \in Nat : n <= m => AreRenames(f[n], before, after)}
<1>5. 0 \in S
  <2>1. f[0] = [q \in {} |-> NoPath]
    BY <1>1, <1>4
  <2>2. AreRenames([q \in {} |-> NoPath], before, after)
    BY DEF AreRenames
  <2> QED BY <2>1, <2>2
<1>6. ASSUME NEW n \in Nat, n \in S PROVE n + 1 \in S
  <2>1. SUFFICES ASSUME n + 1 <= m PROVE AreRenames(f[n + 1], before, after)
    OBVIOUS
  <2>2. AreRenames(f[n], before, after)
    BY <1>1, <1>6, <2>1
  <2> HIDE DEF S
  <2>3. n + 1 \in 0..m /\ n + 1 # 0 /\ (n + 1) - 1 = n /\ n + 1 \in 1..m
    BY <1>1, <2>1
  <2>4. f[n + 1] = WithRename(f[n], before, after, PathOrder[n + 1])
    BY <1>4, <2>3
  <2>5. PathOrder[n + 1] \in Paths
    BY <1>1, <2>3
  <2> QED BY <2>2, <2>4, <2>5, WithRenameSound
<1>7. Nat \subseteq S
  <2> HIDE DEF S
  <2> QED BY <1>5, <1>6, Induction
<1> QED BY <1>1, <1>3, <1>7

\* The entries that the records of each kind are read as.
TrackedEntry(renames, p) ==
    IF p \in DOMAIN renames THEN Entry(<<"R", WorktreeLetter(p)>>, p, renames[p])
    ELSE Entry(<<Letter(head[p], index[p]), WorktreeLetter(p)>>, p, NoPath)
ConflictEntry(p) == Entry(UnmergedXy(stages[p]), p, NoPath)
UntrackedEntry(p) == Entry(<<".", "?">>, p, NoPath)

\* Where a record begins.
Begins(fields, x) == x \in 1..Len(fields) /\ fields[x].kind # "path"

\* The records among the fields are read as just these entries, each once.
Reads(fields, S) ==
    /\ \E T : fields \in Seq(T)
    /\ \A x \in 1..Len(fields) : Begins(fields, x) =>
          /\ fields[x].kind = "2" => x + 1 \in 1..Len(fields)
          /\ EntryAt(fields, x) \in S
    /\ \A e \in S : \E x : Begins(fields, x) /\ EntryAt(fields, x) = e
    /\ \A x, y : Begins(fields, x) /\ Begins(fields, y)
                 /\ EntryAt(fields, x) = EntryAt(fields, y) => x = y

TrackedEntries(renames) == {TrackedEntry(renames, p) : p \in Tracked(renames)}
ConflictEntries == {ConflictEntry(p) : p \in Conflicts}
UntrackedEntries == {UntrackedEntry(p) : p \in Untracked}

\* The fields of tracked paths are read as their entries.
LEMMA TrackedFieldsRead ==
    ASSUME NEW renames, NEW changed, Lists(changed, Tracked(renames)), NEW fields,
           fields = FlattenSeq([i \in DOMAIN changed |-> TrackedFields(renames, changed[i])])
    PROVE  Reads(fields, TrackedEntries(renames))
<1> DEFINE n == Len(changed)
           record(p) == TrackedFields(renames, p)
           seqs == [i \in DOMAIN changed |-> record(changed[i])]
           first(p) == IF p \in DOMAIN renames THEN Field("2", <<"R", WorktreeLetter(p)>>, p)
                       ELSE Field("1", <<Letter(head[p], index[p]), WorktreeLetter(p)>>, p)
           second(p) == Field("path", <<>>, renames[p])
           T == {first(p) : p \in Tracked(renames)} \cup {second(p) : p \in Tracked(renames)}
<1>1. /\ n \in Nat /\ DOMAIN changed = 1..n
      /\ \A k \in 1..n : changed[k] \in Tracked(renames)
      /\ \A p \in Tracked(renames) : \E k \in 1..n : changed[k] = p
      /\ \A k, l \in 1..n : changed[k] = changed[l] => k = l
  BY DEF Lists
<1>2. \A p : /\ p \in DOMAIN renames => record(p) = <<first(p), second(p)>>
             /\ p \notin DOMAIN renames => record(p) = <<first(p)>>
  BY DEF TrackedFields
<1>3. \A p : /\ first(p).kind # "path" /\ first(p).path = p
             /\ second(p).kind = "path" /\ second(p).path = renames[p]
             /\ first(p).kind = "2" <=> p \in DOMAIN renames
  BY DEF Field
<1>4. \A p \in Tracked(renames) : first(p) \in T /\ second(p) \in T
  OBVIOUS
<1>5. \A f, x, p : /\ f[x] = first(p)
                   /\ p \in DOMAIN renames => f[x + 1] = second(p)
                   => EntryAt(f, x) = TrackedEntry(renames, p)
  BY DEF EntryAt, TrackedEntry, Field, Entry
<1>6. \A p : TrackedEntry(renames, p).path = p
  BY DEF TrackedEntry, Entry
<1> HIDE DEF n, record, first, second, T
<1>7. \A p \in Tracked(renames) :
         /\ record(p) \in Seq(T) /\ Len(record(p)) \in 1..2
         /\ record(p)[1] = first(p)
         /\ Len(record(p)) = 2 => record(p)[2] = second(p)
         /\ p \in DOMAIN renames => Len(record(p)) = 2
  <2>1. TAKE p \in Tracked(renames)
  <2>2. first(p) \in T /\ second(p) \in T
    BY <1>4
  <2>3. \A a, b \in T : /\ <<a>> \in Seq(T) /\ Len(<<a>>) = 1 /\ <<a>>[1] = a
                       /\ <<a, b>> \in Seq(T) /\ Len(<<a, b>>) = 2
                       /\ <<a, b>>[1] = a /\ <<a, b>>[2] = b
    OBVIOUS
  <2>4. CASE p \in DOMAIN renames
    <3>1. record(p) = <<first(p), second(p)>>
      BY <1>2, <2>4
    <3> QED BY <2>2, <2>3, <3>1
  <2>5. CASE p \notin DOMAIN renames
    <3>1. record(p) = <<first(p)>>
      BY <1>2, <2>5
    <3>2. record(p) \in Seq(T) /\ Len(record(p)) = 1 /\ record(p)[1] = first(p)
      BY <2>2, <2>3, <3>1
    <3> QED BY <2>5, <3>2
  <2> QED BY <2>4, <2>5
<1>8. seqs \in Seq(Seq(T)) /\ Len(seqs) = n /\ \A k \in 1..n : seqs[k] = record(changed[k])
  BY <1>1, <1>7
<1>9. fields = FlattenSeq(seqs)
  BY DEF record
<1> HIDE DEF seqs
<1>10. fields \in Seq(T)
  BY <1>8, <1>9, FlattenSeqJoins
<1>11. PICK of, nth : Joins(fields, of, nth, seqs, n)
  <2>1. \E of, nth : Joins(fields, of, nth, seqs, Len(seqs))
    BY <1>8, <1>9, FlattenSeqJoins
  <2> QED BY <1>8, <2>1
<1>12. /\ \A i \in 1..Len(fields) : /\ of[i] \in 1..n
                                   /\ nth[i] \in 1..Len(seqs[of[i]])
                                   /\ fields[i] = seqs[of[i]][nth[i]]
       /\ \A i \in 1..Len(fields) : nth[i] < Len(seqs[of[i]]) =>
             /\ i + 1 \in 1..Len(fields)
             /\ of[i + 1] = of[i]
             /\ nth[i + 1] = nth[i] + 1
       /\ \A i, j \in 1..Len(fields) : of[i] = of[j] /\ nth[i] = nth[j] => i = j
       /\ \A k \in 1..n : \A l \in 1..Len(seqs[k]) :
             \E i \in 1..Len(fields) : of[i] = k /\ nth[i] = l
  BY <1>11 DEF Joins
<1>13. \A x \in 1..Len(fields) : Begins(fields, x) =>
          /\ nth[x] = 1
          /\ fields[x] = first(changed[of[x]])
          /\ changed[of[x]] \in DOMAIN renames => /\ x + 1 \in 1..Len(fields)
                                                  /\ fields[x + 1] = second(changed[of[x]])
  <2>1. TAKE x \in 1..Len(fields)
  <2>2. HAVE Begins(fields, x)
  <2> DEFINE p == changed[of[x]]
  <2>3. of[x] \in 1..n /\ p \in Tracked(renames) /\ seqs[of[x]] = record(p)
    BY <1>1, <1>8, <1>12
  <2>4. nth[x] \in 1..Len(record(p)) /\ fields[x] = record(p)[nth[x]]
    BY <1>12, <2>3
  <2>5. nth[x] = 1
    <3>1. nth[x] \in 1..2
      BY <1>7, <2>3, <2>4
    <3>2. nth[x] = 2 => fields[x] = second(p)
      BY <1>7, <2>3, <2>4
    <3> QED BY <1>3, <2>2, <3>1, <3>2 DEF Begins
  <2>6. ASSUME p \in DOMAIN renames
        PROVE  x + 1 \in 1..Len(fields) /\ fields[x + 1] = second(p)
    <3>1. Len(seqs[of[x]]) = 2 /\ record(p)[2] = second(p)
      BY <1>7, <2>3, <2>6
    <3>4. nth[x] < Len(seqs[of[x]])
      BY <2>5, <3>1
    <3>2. x + 1 \in 1..Len(fields) /\ of[x + 1] = of[x] /\ nth[x + 1] = 2
      <4>1. x + 1 \in 1..Len(fields) /\ of[x + 1] = of[x] /\ nth[x + 1] = nth[x] + 1
        BY <1>12, <3>4
      <4> QED BY <2>5, <4>1
    <3>3. fields[x + 1] = seqs[of[x]][2]
      BY <1>12, <3>2
    <3> QED BY <2>3, <3>1, <3>2, <3>3
  <2> QED BY <1>7, <2>3, <2>4, <2>5, <2>6
<1>14. \A x \in 1..Len(fields) : Begins(fields, x) =>
          /\ changed[of[x]] \in Tracked(renames)
          /\ EntryAt(fields, x) = TrackedEntry(renames, changed[of[x]])
  <2>1. TAKE x \in 1..Len(fields)
  <2>2. HAVE Begins(fields, x)
  <2>3. changed[of[x]] \in Tracked(renames)
    BY <1>1, <1>12
  <2>4. /\ fields[x] = first(changed[of[x]])
        /\ changed[of[x]] \in DOMAIN renames => fields[x + 1] = second(changed[of[x]])
    BY <1>13, <2>2
  <2> QED BY <1>5, <2>3, <2>4
<1>15. \A x \in 1..Len(fields) : Begins(fields, x) /\ fields[x].kind = "2" => x + 1 \in 1..Len(fields)
  BY <1>3, <1>13
<1>16. \A p \in Tracked(renames) :
          \E x : Begins(fields, x) /\ EntryAt(fields, x) = TrackedEntry(renames, p)
  <2>1. TAKE p \in Tracked(renames)
  <2>2. PICK k \in 1..n : changed[k] = p
    BY <1>1
  <2>6. seqs[k] = record(p)
    BY <1>8, <2>2
  <2>3. 1 \in 1..Len(seqs[k]) /\ seqs[k][1] = first(p)
    BY <1>7, <2>6
  <2>4. PICK x \in 1..Len(fields) : of[x] = k /\ nth[x] = 1
    BY <1>12, <2>3
  <2>5. Begins(fields, x)
    BY <1>3, <1>12, <2>3, <2>4 DEF Begins
  <2> QED BY <1>14, <2>2, <2>4, <2>5
<1>17. \A x, y : Begins(fields, x) /\ Begins(fields, y)
                 /\ EntryAt(fields, x) = EntryAt(fields, y) => x = y
  <2>1. TAKE x, y
  <2>2. HAVE Begins(fields, x) /\ Begins(fields, y) /\ EntryAt(fields, x) = EntryAt(fields, y)
  <2>3. x \in 1..Len(fields) /\ y \in 1..Len(fields)
    BY <2>2 DEF Begins
  <2>4. changed[of[x]] = changed[of[y]]
    BY <1>6, <1>14, <2>2, <2>3
  <2>5. of[x] = of[y] /\ nth[x] = nth[y]
    BY <1>1, <1>12, <1>13, <2>2, <2>3, <2>4
  <2> QED BY <1>12, <2>3, <2>5
<1>18. \A x \in 1..Len(fields) : Begins(fields, x) => EntryAt(fields, x) \in TrackedEntries(renames)
  BY <1>14 DEF TrackedEntries
<1>19. \A e \in TrackedEntries(renames) : \E x : Begins(fields, x) /\ EntryAt(fields, x) = e
  BY <1>16 DEF TrackedEntries
<1> QED BY <1>10, <1>15, <1>17, <1>18, <1>19 DEF Reads

\* An entry is read from its record alone.
LEMMA EntryAtAgrees ==
    ASSUME NEW f, NEW x, NEW g, NEW y, f[x] = g[y], f[x].kind = "2" => f[x + 1] = g[y + 1]
    PROVE  EntryAt(f, x) = EntryAt(g, y)
BY DEF EntryAt

\* Fields behind fields.
LEMMA ReadsBoth ==
    ASSUME NEW f, NEW g, NEW S, NEW R, Reads(f, S), Reads(g, R), S \cap R = {}
    PROVE  Reads(f \o g, S \cup R)
<1> DEFINE h == f \o g
<1>1. PICK T : f \in Seq(T) /\ g \in Seq(T)
  <2>1. PICK T1 : f \in Seq(T1)
    BY DEF Reads
  <2>2. PICK T2 : g \in Seq(T2)
    BY DEF Reads
  <2>3. f \in Seq(T1 \cup T2) /\ g \in Seq(T1 \cup T2)
    BY <2>1, <2>2
  <2> QED BY <2>3
<1>2. /\ h \in Seq(T) /\ Len(f) \in Nat /\ Len(g) \in Nat /\ Len(h) = Len(f) + Len(g)
      /\ \A x \in 1..Len(f) : h[x] = f[x]
      /\ \A x \in 1..Len(g) : h[Len(f) + x] = g[x]
  BY <1>1
<1> HIDE DEF h
<1>3. \A x \in 1..Len(h) : x \in 1..Len(f) \/ (x - Len(f) \in 1..Len(g) /\ Len(f) + (x - Len(f)) = x)
  BY <1>2
<1>4. \A x \in 1..Len(f) : x \in 1..Len(h) /\ x \in Int
  BY <1>2
<1>5. \A x \in 1..Len(g) : Len(f) + x \in 1..Len(h) /\ (Len(f) + x) + 1 = Len(f) + (x + 1)
  BY <1>2
<1>6. \A x : /\ Begins(f, x) <=> x \in 1..Len(f) /\ f[x].kind # "path"
             /\ Begins(g, x) <=> x \in 1..Len(g) /\ g[x].kind # "path"
             /\ Begins(h, x) <=> x \in 1..Len(h) /\ h[x].kind # "path"
  BY DEF Begins
<1>7. \A x \in 1..Len(f) : Begins(h, x) => /\ Begins(f, x)
                                           /\ h[x].kind = "2" => x + 1 \in 1..Len(h)
                                           /\ EntryAt(h, x) = EntryAt(f, x) /\ EntryAt(h, x) \in S
  <2>1. TAKE x \in 1..Len(f)
  <2>2. HAVE Begins(h, x)
  <2>3. Begins(f, x) /\ h[x] = f[x]
    BY <1>2, <1>6, <2>2
  <2>4. EntryAt(f, x) \in S /\ (f[x].kind = "2" => x + 1 \in 1..Len(f))
    BY <2>3 DEF Reads
  <2>5. h[x].kind = "2" => h[x + 1] = f[x + 1]
    BY <1>2, <2>3, <2>4
  <2>6. EntryAt(h, x) = EntryAt(f, x)
    BY <2>3, <2>5, EntryAtAgrees
  <2> QED BY <1>4, <2>3, <2>4, <2>6
<1>8. \A x \in 1..Len(g) : Begins(h, Len(f) + x) =>
          /\ Begins(g, x)
          /\ h[Len(f) + x].kind = "2" => (Len(f) + x) + 1 \in 1..Len(h)
          /\ EntryAt(h, Len(f) + x) = EntryAt(g, x) /\ EntryAt(h, Len(f) + x) \in R
  <2>1. TAKE x \in 1..Len(g)
  <2>2. HAVE Begins(h, Len(f) + x)
  <2>3. Begins(g, x) /\ h[Len(f) + x] = g[x]
    BY <1>2, <1>6, <2>2
  <2>4. EntryAt(g, x) \in R /\ (g[x].kind = "2" => x + 1 \in 1..Len(g))
    BY <2>3 DEF Reads
  <2>5. h[Len(f) + x].kind = "2" => h[(Len(f) + x) + 1] = g[x + 1]
    BY <1>2, <1>5, <2>3, <2>4
  <2>6. EntryAt(h, Len(f) + x) = EntryAt(g, x)
    BY <2>3, <2>5, EntryAtAgrees
  <2> QED BY <1>5, <2>3, <2>4, <2>6
<1>9. \A x \in 1..Len(f) : Begins(f, x) => Begins(h, x)
  BY <1>2, <1>4, <1>6
<1>10. \A x \in 1..Len(g) : Begins(g, x) => Begins(h, Len(f) + x)
  BY <1>2, <1>5, <1>6
<1>11. \A x \in 1..Len(h) : Begins(h, x) =>
          /\ h[x].kind = "2" => x + 1 \in 1..Len(h)
          /\ EntryAt(h, x) \in S \cup R
  <2>1. TAKE x \in 1..Len(h)
  <2>2. HAVE Begins(h, x)
  <2>3. CASE x \in 1..Len(f)
    BY <1>7, <2>2, <2>3
  <2>4. CASE \E y \in 1..Len(g) : x = Len(f) + y
    <3>1. PICK y \in 1..Len(g) : x = Len(f) + y
      BY <2>4
    <3> QED BY <1>8, <2>2, <3>1
  <2> QED BY <1>3, <2>3, <2>4
<1>12. \A e \in S \cup R : \E x : Begins(h, x) /\ EntryAt(h, x) = e
  <2>1. ASSUME NEW e \in S PROVE \E x : Begins(h, x) /\ EntryAt(h, x) = e
    <3>1. PICK x : Begins(f, x) /\ EntryAt(f, x) = e
      BY DEF Reads
    <3> QED BY <1>6, <1>7, <1>9, <3>1
  <2>2. ASSUME NEW e \in R PROVE \E x : Begins(h, x) /\ EntryAt(h, x) = e
    <3>1. PICK x : Begins(g, x) /\ EntryAt(g, x) = e
      BY DEF Reads
    <3> QED BY <1>6, <1>8, <1>10, <3>1
  <2> QED BY <2>1, <2>2
<1>13. \A x, y : Begins(h, x) /\ Begins(h, y) /\ EntryAt(h, x) = EntryAt(h, y) => x = y
  <2>1. TAKE x, y
  <2>2. HAVE Begins(h, x) /\ Begins(h, y) /\ EntryAt(h, x) = EntryAt(h, y)
  <2>3. x \in 1..Len(h) /\ y \in 1..Len(h)
    BY <1>6, <2>2
  <2>4. CASE x \in 1..Len(f) /\ y \in 1..Len(f)
    <3>1. Begins(f, x) /\ Begins(f, y) /\ EntryAt(f, x) = EntryAt(f, y)
      BY <1>7, <2>2, <2>4
    <3> QED BY <3>1 DEF Reads
  <2>5. CASE x \notin 1..Len(f) /\ y \notin 1..Len(f)
    <3>1. /\ x - Len(f) \in 1..Len(g) /\ Len(f) + (x - Len(f)) = x
          /\ y - Len(f) \in 1..Len(g) /\ Len(f) + (y - Len(f)) = y
      BY <1>3, <2>3, <2>5
    <3>2. /\ Begins(g, x - Len(f)) /\ Begins(g, y - Len(f))
          /\ EntryAt(g, x - Len(f)) = EntryAt(g, y - Len(f))
      BY <1>8, <2>2, <3>1
    <3>3. x - Len(f) = y - Len(f)
      BY <3>2 DEF Reads
    <3> QED BY <3>1, <3>3
  <2>6. \A z, w : ~(/\ Begins(h, z) /\ Begins(h, w) /\ z \in 1..Len(f) /\ w \notin 1..Len(f)
                    /\ EntryAt(h, z) = EntryAt(h, w))
    <3>1. SUFFICES ASSUME NEW z, NEW w, Begins(h, z), Begins(h, w), z \in 1..Len(f),
                          w \notin 1..Len(f), EntryAt(h, z) = EntryAt(h, w)
                   PROVE  FALSE
      OBVIOUS
    <3>2. EntryAt(h, z) \in S
      BY <1>7, <3>1
    <3>3. EntryAt(h, w) \in R
      BY <1>3, <1>6, <1>8, <3>1
    <3> QED BY <3>1, <3>2, <3>3
  <2> QED BY <2>2, <2>4, <2>5, <2>6
<1>14. Reads(h, S \cup R)
  BY <1>2, <1>11, <1>12, <1>13 DEF Reads
<1> QED BY <1>14 DEF h

\* Parse has just these entries.
LEMMA ParseLists ==
    ASSUME NEW fields, NEW S, Reads(fields, S)
    PROVE  Lists(Parse(fields), S)
<1> DEFINE I == {i \in DOMAIN fields : fields[i].kind # "path"}
           a == Ascending(I, Len(fields))
           entries == Parse(fields)
<1>1. Len(fields) \in Nat /\ DOMAIN fields = 1..Len(fields)
  BY DEF Reads
<1>2. Ascends(a, I, Len(fields))
  BY <1>1, AscendingAscends
<1>3. entries = [k \in DOMAIN a |-> EntryAt(fields, a[k])]
  BY DEF Parse
<1>4. \A i : i \in I <=> Begins(fields, i)
  BY <1>1 DEF Begins
<1> HIDE DEF I, a, entries
<1>5. /\ Len(a) \in Nat /\ DOMAIN a = 1..Len(a)
      /\ \A k \in 1..Len(a) : a[k] \in I /\ a[k] \in 1..Len(fields)
      /\ \A k, l \in 1..Len(a) : k < l => a[k] < a[l]
      /\ \A i \in 1..Len(fields) : i \in I => \E k \in 1..Len(a) : a[k] = i
  BY <1>2 DEF Ascends
<1>6. \A k, l \in 1..Len(a) : a[k] = a[l] => k = l
  BY <1>5
<1>7. \A k \in 1..Len(a) : EntryAt(fields, a[k]) \in S
  BY <1>4, <1>5 DEF Reads
<1>8. /\ entries \in Seq(S) /\ Len(entries) = Len(a)
      /\ \A k \in 1..Len(a) : entries[k] = EntryAt(fields, a[k])
  BY <1>3, <1>5, <1>7
<1>9. \A e \in S : \E k \in 1..Len(a) : entries[k] = e
  <2>1. TAKE e \in S
  <2>2. PICK x : Begins(fields, x) /\ EntryAt(fields, x) = e
    BY DEF Reads
  <2>3. x \in 1..Len(fields) /\ x \in I
    BY <1>4, <2>2 DEF Begins
  <2> QED BY <1>5, <1>8, <2>2, <2>3
<1>10. \A k, l \in 1..Len(a) : entries[k] = entries[l] => k = l
  <2>1. TAKE k, l \in 1..Len(a)
  <2>2. HAVE entries[k] = entries[l]
  <2>3. Begins(fields, a[k]) /\ Begins(fields, a[l])
    BY <1>4, <1>5
  <2>4. a[k] = a[l]
    BY <1>8, <2>2, <2>3 DEF Reads
  <2> QED BY <1>6, <2>4
<1>11. Lists(entries, S)
  BY <1>8, <1>9, <1>10 DEF Lists
<1> QED BY <1>11 DEF entries

\* Records that take one field each: one for each path of a list.
LEMMA PlainFieldsRead ==
    ASSUME NEW P, NEW paths, Lists(paths, P), NEW fields, NEW E,
           \E T : fields \in Seq(T),
           Len(fields) = Len(paths),
           \A i \in 1..Len(paths) : /\ fields[i].kind \notin {"path", "2"}
                                    /\ EntryAt(fields, i) \in E
                                    /\ EntryAt(fields, i).path = paths[i],
           \A e \in E : e.path \in P,
           \A e, g \in E : e.path = g.path => e = g
    PROVE  Reads(fields, E)
<1>1. /\ \A p \in P : \E i \in 1..Len(paths) : paths[i] = p
      /\ \A i, j \in 1..Len(paths) : paths[i] = paths[j] => i = j
  BY DEF Lists
<1>2. \A x : Begins(fields, x) <=> x \in 1..Len(paths)
  BY DEF Begins
<1>3. \A e \in E : \E x : Begins(fields, x) /\ EntryAt(fields, x) = e
  <2>1. TAKE e \in E
  <2>2. PICK i \in 1..Len(paths) : paths[i] = e.path
    BY <1>1
  <2>3. EntryAt(fields, i) \in E /\ EntryAt(fields, i).path = e.path
    BY <2>2
  <2>4. EntryAt(fields, i) = e
    BY <2>3
  <2> QED BY <1>2, <2>4
<1>4. \A x, y : Begins(fields, x) /\ Begins(fields, y)
                /\ EntryAt(fields, x) = EntryAt(fields, y) => x = y
  <2>1. TAKE x, y
  <2>2. HAVE Begins(fields, x) /\ Begins(fields, y) /\ EntryAt(fields, x) = EntryAt(fields, y)
  <2>3. x \in 1..Len(paths) /\ y \in 1..Len(paths)
    BY <1>2, <2>2
  <2>4. EntryAt(fields, x).path = paths[x] /\ EntryAt(fields, y).path = paths[y]
    BY <2>3
  <2>5. paths[x] = paths[y]
    BY <2>2, <2>4
  <2> QED BY <1>1, <2>3, <2>5
<1>5. \A x \in 1..Len(fields) : Begins(fields, x) =>
         /\ fields[x].kind = "2" => x + 1 \in 1..Len(fields)
         /\ EntryAt(fields, x) \in E
  OBVIOUS
<1> QED BY <1>3, <1>4, <1>5 DEF Reads

\* The fields of conflicts and of untracked files.
LEMMA ConflictFieldsRead ==
    ASSUME NEW paths, Lists(paths, Conflicts), NEW fields,
           fields = [i \in DOMAIN paths |-> Field("u", UnmergedXy(stages[paths[i]]), paths[i])]
    PROVE  Reads(fields, ConflictEntries)
<1>1. Len(paths) \in Nat /\ DOMAIN paths = 1..Len(paths)
      /\ \A i \in 1..Len(paths) : paths[i] \in Conflicts
  BY DEF Lists
<1>2. /\ \E T : fields \in Seq(T)
      /\ Len(fields) = Len(paths)
      /\ \A i \in 1..Len(paths) : fields[i] = Field("u", UnmergedXy(stages[paths[i]]), paths[i])
  <2> DEFINE T == {Field("u", UnmergedXy(stages[p]), p) : p \in Conflicts}
  <2>1. \A i \in 1..Len(paths) : Field("u", UnmergedXy(stages[paths[i]]), paths[i]) \in T
    BY <1>1
  <2> HIDE DEF T
  <2>2. fields \in Seq(T) /\ Len(fields) = Len(paths)
    BY <1>1, <2>1
  <2> QED BY <1>1, <2>2
<1>3. \A i \in 1..Len(paths) : /\ fields[i].kind = "u"
                               /\ EntryAt(fields, i) = ConflictEntry(paths[i])
  BY <1>2 DEF Field, EntryAt, ConflictEntry
<1>4. \A p : ConflictEntry(p).path = p
  BY DEF ConflictEntry, Entry
<1>5. /\ \A i \in 1..Len(paths) : ConflictEntry(paths[i]) \in ConflictEntries
      /\ \A e \in ConflictEntries : e.path \in Conflicts /\ e = ConflictEntry(e.path)
  BY <1>1, <1>4 DEF ConflictEntries
<1>6. \A i \in 1..Len(paths) : /\ fields[i].kind \notin {"path", "2"}
                               /\ EntryAt(fields, i) \in ConflictEntries
                               /\ EntryAt(fields, i).path = paths[i]
  BY <1>3, <1>4, <1>5
<1>7. \A e, g \in ConflictEntries : e.path = g.path => e = g
  BY <1>5
<1> QED BY <1>2, <1>5, <1>6, <1>7, PlainFieldsRead

\* The records of untracked files give one entry for each.
LEMMA UntrackedFieldsRead ==
    ASSUME NEW paths, Lists(paths, Untracked), NEW fields,
           fields = [i \in DOMAIN paths |-> Field("?", <<>>, paths[i])]
    PROVE  Reads(fields, UntrackedEntries)
<1>1. Len(paths) \in Nat /\ DOMAIN paths = 1..Len(paths)
      /\ \A i \in 1..Len(paths) : paths[i] \in Untracked
  BY DEF Lists
<1>2. /\ \E T : fields \in Seq(T)
      /\ Len(fields) = Len(paths)
      /\ \A i \in 1..Len(paths) : fields[i] = Field("?", <<>>, paths[i])
  <2> DEFINE T == {Field("?", <<>>, p) : p \in Untracked}
  <2>1. \A i \in 1..Len(paths) : Field("?", <<>>, paths[i]) \in T
    BY <1>1
  <2> HIDE DEF T
  <2>2. fields \in Seq(T) /\ Len(fields) = Len(paths)
    BY <1>1, <2>1
  <2> QED BY <1>1, <2>2
<1>3. \A i \in 1..Len(paths) : /\ fields[i].kind = "?"
                               /\ EntryAt(fields, i) = UntrackedEntry(paths[i])
  BY <1>2 DEF Field, EntryAt, UntrackedEntry
<1>4. \A p : UntrackedEntry(p).path = p
  BY DEF UntrackedEntry, Entry
<1>5. /\ \A i \in 1..Len(paths) : UntrackedEntry(paths[i]) \in UntrackedEntries
      /\ \A e \in UntrackedEntries : e.path \in Untracked /\ e = UntrackedEntry(e.path)
  BY <1>1, <1>4 DEF UntrackedEntries
<1>6. \A i \in 1..Len(paths) : /\ fields[i].kind \notin {"path", "2"}
                               /\ EntryAt(fields, i) \in UntrackedEntries
                               /\ EntryAt(fields, i).path = paths[i]
  BY <1>3, <1>4, <1>5
<1>7. \A e, g \in UntrackedEntries : e.path = g.path => e = g
  BY <1>5
<1> QED BY <1>2, <1>5, <1>6, <1>7, PlainFieldsRead

\* Everything that git status reports, read.
StatusEntries == (TrackedEntries(Renames) \cup ConflictEntries) \cup UntrackedEntries

\* All records of a listing give the entries of the paths that Git reports, one each.
LEMMA StatusFieldsRead ==
    Lists(Parse(StatusFields), StatusEntries)
<1> DEFINE r == Renames
           tracked == Sorted(Tracked(r))
           conflicts == Sorted(Conflicts)
           untracked == Sorted(Untracked)
           first == FlattenSeq([i \in DOMAIN tracked |-> TrackedFields(r, tracked[i])])
           second == [i \in DOMAIN conflicts |-> Field("u", UnmergedXy(stages[conflicts[i]]), conflicts[i])]
           third == [i \in DOMAIN untracked |-> Field("?", <<>>, untracked[i])]
<1>1. StatusFields = (first \o second) \o third
  BY DEF StatusFields, FieldsOf
<1>2. /\ Lists(tracked, Tracked(r))
      /\ Lists(conflicts, Conflicts)
      /\ Lists(untracked, Untracked)
  <2>1. Tracked(r) \subseteq Paths /\ Conflicts \subseteq Paths /\ Untracked \subseteq Paths
    BY DEF Tracked, Conflicts, Untracked
  <2> QED BY <2>1, SortedLists
<1>3. /\ Reads(first, TrackedEntries(r))
      /\ Reads(second, ConflictEntries)
      /\ Reads(third, UntrackedEntries)
  <2> HIDE DEF tracked, conflicts, untracked, r
  <2>1. Reads(first, TrackedEntries(r))
    BY <1>2, TrackedFieldsRead
  <2>2. Reads(second, ConflictEntries)
    BY <1>2, ConflictFieldsRead
  <2>3. Reads(third, UntrackedEntries)
    BY <1>2, UntrackedFieldsRead
  <2> QED BY <2>1, <2>2, <2>3
<1>4. TrackedEntries(r) \cap ConflictEntries = {}
  <2>1. \A p \in Tracked(r) : TrackedEntry(r, p).path = p /\ stages[p] = {}
    BY DEF Tracked, TrackedEntry, Entry
  <2>2. \A p \in Conflicts : ConflictEntry(p).path = p /\ stages[p] # {}
    BY DEF Conflicts, ConflictEntry, Entry
  <2> HIDE DEF r
  <2> QED BY <2>1, <2>2 DEF TrackedEntries, ConflictEntries
<1>5. (TrackedEntries(r) \cup ConflictEntries) \cap UntrackedEntries = {}
  <2>1. \A p : TrackedEntry(r, p).worktree = WorktreeLetter(p) /\ WorktreeLetter(p) # "?"
    BY DEF TrackedEntry, Entry, WorktreeLetter, Letter
  <2>2. \A p \in Conflicts : ConflictEntry(p).path = p /\ stages[p] # {}
    BY DEF Conflicts, ConflictEntry, Entry
  <2>3. \A p \in Untracked : /\ UntrackedEntry(p).path = p /\ stages[p] = {}
                             /\ UntrackedEntry(p).worktree = "?"
    BY DEF Untracked, UntrackedEntry, Entry
  <2> HIDE DEF r
  <2> QED BY <2>1, <2>2, <2>3 DEF TrackedEntries, ConflictEntries, UntrackedEntries
<1>6. Reads((first \o second) \o third, StatusEntries)
  <2> HIDE DEF first, second, third
  <2>1. Reads(first \o second, TrackedEntries(r) \cup ConflictEntries)
    BY <1>3, <1>4, ReadsBoth
  <2> QED BY <1>3, <1>5, <2>1, ReadsBoth DEF StatusEntries
<1> HIDE DEF first, second, third
<1> QED BY <1>1, <1>6, ParseLists

-----------------------------------------------------------------------------
(* The two halves of a listing *)

\* The paths that each half has a file of, and the entry it is made of.
UnstagedPaths == {p \in Paths : stages[p] # {} \/ index[p] # work[p]}
StagedPaths ==
    {p \in Paths : IF stages[p] = {}
                   THEN head[p] # index[p] /\ \A q \in DOMAIN Renames : Renames[q] # p
                   ELSE stages[p] \in {{"base"}, {"ours", "theirs"}}}
UnstagedEntry(p) ==
    IF stages[p] # {} THEN ConflictEntry(p)
    ELSE IF index[p] = Absent THEN UntrackedEntry(p) ELSE TrackedEntry(Renames, p)
StagedEntry(p) == IF stages[p] # {} THEN ConflictEntry(p) ELSE TrackedEntry(Renames, p)

\* The letters of a conflict, by its stages: two kinds have no U.
LEMMA LettersOfConflicts ==
    ASSUME NEW s \in SUBSET Stages, s # {}
    PROVE  LET xy == UnmergedXy(s) IN
           /\ xy[1] \notin {".", "?", "!"}
           /\ xy[2] \notin {".", "?", "!"}
           /\ xy[1] = "U" \/ xy[2] = "U" <=> s \notin {{"base"}, {"ours", "theirs"}}
<1>1. CASE s = {"base"}
  BY <1>1 DEF UnmergedXy
<1>2. CASE s = {"ours", "theirs"}
  BY <1>2 DEF UnmergedXy
<1>3. CASE s \notin {{"base"}, {"ours", "theirs"}}
  BY <1>3 DEF UnmergedXy
<1> QED BY <1>1, <1>2, <1>3

\* Which entries are unstaged, and which are staged.
LEMMA HalvesOfTracked ==
    \A p \in Tracked(Renames) :
        LET e == TrackedEntry(Renames, p) IN
        /\ e.path = p /\ stages[p] = {}
        /\ IsUnstaged(e) <=> index[p] # Absent /\ index[p] # work[p]
        /\ IsStaged(e) <=> head[p] # index[p]
<1>1. AreRenames(Renames, [p \in Paths |-> IF stages[p] = {} THEN head[p] ELSE Absent], index)
  BY RenamesSound DEF Renames
<1>2. \A p \in DOMAIN Renames : p \in Paths /\ (stages[p] = {} => head[p] # index[p])
  BY <1>1 DEF AreRenames
<1> DEFINE r == Renames
<1> HIDE DEF r
<1>3. \A p \in DOMAIN r : stages[p] = {} => head[p] # index[p]
  BY <1>2 DEF r
<1>4. ASSUME NEW p \in Tracked(r)
      PROVE  LET e == TrackedEntry(r, p) IN
             /\ e.path = p /\ stages[p] = {}
             /\ IsUnstaged(e) <=> index[p] # Absent /\ index[p] # work[p]
             /\ IsStaged(e) <=> head[p] # index[p]
  <2>1. stages[p] = {}
    BY DEF Tracked
  <2>2. /\ WorktreeLetter(p) \in {".", "A", "D", "M"}
        /\ WorktreeLetter(p) # "." <=> index[p] # Absent /\ index[p] # work[p]
    BY DEF WorktreeLetter, Letter
  <2>3. /\ Letter(head[p], index[p]) \in {".", "A", "D", "M"}
        /\ Letter(head[p], index[p]) # "." <=> head[p] # index[p]
    <3>1. \A a, b : /\ Letter(a, b) \in {".", "A", "D", "M"}
                    /\ Letter(a, b) # "." <=> a # b
      BY DEF Letter
    <3> QED BY <3>1
  <2>4. CASE p \in DOMAIN r
    <3>1. TrackedEntry(r, p) = Entry(<<"R", WorktreeLetter(p)>>, p, r[p])
      BY <2>4 DEF TrackedEntry
    <3> QED BY <1>3, <2>1, <2>2, <2>4, <3>1 DEF Entry, IsUnstaged, IsStaged, IsConflicted
  <2>5. CASE p \notin DOMAIN r
    <3>1. TrackedEntry(r, p) = Entry(<<Letter(head[p], index[p]), WorktreeLetter(p)>>, p, NoPath)
      BY <2>5 DEF TrackedEntry
    <3> QED BY <2>1, <2>2, <2>3, <3>1 DEF Entry, IsUnstaged, IsStaged, IsConflicted
  <2> QED BY <2>4, <2>5
<1> QED BY <1>4 DEF r

\* Every conflict is unstaged; some kinds count as staged besides.
LEMMA HalvesOfConflicts ==
    ASSUME stages \in [Paths -> SUBSET Stages]
    PROVE  \A p \in Conflicts :
               LET e == ConflictEntry(p) IN
               /\ e.path = p /\ stages[p] # {}
               /\ IsUnstaged(e)
               /\ IsStaged(e) <=> stages[p] \in {{"base"}, {"ours", "theirs"}}
<1> TAKE p \in Conflicts
<1>1. stages[p] \in SUBSET Stages /\ stages[p] # {}
  BY DEF Conflicts
<1>2. LET xy == UnmergedXy(stages[p]) IN
      /\ xy[1] \notin {".", "?", "!"}
      /\ xy[2] \notin {".", "?", "!"}
      /\ xy[1] = "U" \/ xy[2] = "U" <=> stages[p] \notin {{"base"}, {"ours", "theirs"}}
  BY <1>1, LettersOfConflicts
<1> QED BY <1>1, <1>2 DEF ConflictEntry, Entry, IsUnstaged, IsStaged, IsConflicted

\* An untracked file is unstaged only.
LEMMA HalvesOfUntracked ==
    \A p \in Untracked :
        LET e == UntrackedEntry(p) IN
        /\ e.path = p /\ stages[p] = {} /\ index[p] = Absent /\ work[p] # Absent
        /\ IsUnstaged(e)
        /\ ~IsStaged(e)
BY DEF Untracked, UntrackedEntry, Entry, IsUnstaged, IsStaged, IsConflicted

\* The unstaged entries are those of the unstaged paths, one each.
LEMMA UnstagedEntries ==
    ASSUME stages \in [Paths -> SUBSET Stages]
    PROVE  /\ \A e \in StatusEntries : IsUnstaged(e) =>
                  e.path \in UnstagedPaths /\ e = UnstagedEntry(e.path)
           /\ \A p \in UnstagedPaths : /\ UnstagedEntry(p) \in StatusEntries
                                       /\ IsUnstaged(UnstagedEntry(p))
                                       /\ UnstagedEntry(p).path = p
<1>1. /\ Tracked(Renames) \subseteq Paths /\ Conflicts \subseteq Paths /\ Untracked \subseteq Paths
  BY DEF Tracked, Conflicts, Untracked
<1>2. ASSUME NEW e \in StatusEntries, IsUnstaged(e)
      PROVE  e.path \in UnstagedPaths /\ e = UnstagedEntry(e.path)
  <2>1. CASE e \in TrackedEntries(Renames)
    <3>1. PICK p \in Tracked(Renames) : e = TrackedEntry(Renames, p)
      BY <2>1 DEF TrackedEntries
    <3>2. e.path = p /\ stages[p] = {} /\ index[p] # Absent /\ index[p] # work[p]
      BY <1>2, <3>1, HalvesOfTracked
    <3> QED BY <1>1, <3>1, <3>2 DEF UnstagedPaths, UnstagedEntry
  <2>2. CASE e \in ConflictEntries
    <3>1. PICK p \in Conflicts : e = ConflictEntry(p)
      BY <2>2 DEF ConflictEntries
    <3>2. e.path = p /\ stages[p] # {}
      BY <3>1, HalvesOfConflicts
    <3> QED BY <1>1, <3>1, <3>2 DEF UnstagedPaths, UnstagedEntry
  <2>3. CASE e \in UntrackedEntries
    <3>1. PICK p \in Untracked : e = UntrackedEntry(p)
      BY <2>3 DEF UntrackedEntries
    <3>2. e.path = p /\ stages[p] = {} /\ index[p] = Absent /\ work[p] # Absent
      BY <3>1, HalvesOfUntracked
    <3> QED BY <1>1, <3>1, <3>2 DEF UnstagedPaths, UnstagedEntry
  <2> QED BY <2>1, <2>2, <2>3 DEF StatusEntries
<1>3. ASSUME NEW p \in UnstagedPaths
      PROVE  /\ UnstagedEntry(p) \in StatusEntries
             /\ IsUnstaged(UnstagedEntry(p))
             /\ UnstagedEntry(p).path = p
  <2>1. CASE stages[p] # {}
    <3>1. p \in Conflicts /\ UnstagedEntry(p) = ConflictEntry(p)
      BY <2>1 DEF UnstagedPaths, Conflicts, UnstagedEntry
    <3> QED BY <3>1, HalvesOfConflicts DEF StatusEntries, ConflictEntries
  <2>2. CASE stages[p] = {} /\ index[p] = Absent
    <3>1. p \in Untracked /\ UnstagedEntry(p) = UntrackedEntry(p)
      BY <2>2 DEF UnstagedPaths, Untracked, UnstagedEntry
    <3> QED BY <3>1, HalvesOfUntracked DEF StatusEntries, UntrackedEntries
  <2>3. CASE stages[p] = {} /\ index[p] # Absent
    <3>1. AreRenames(Renames, [q \in Paths |-> IF stages[q] = {} THEN head[q] ELSE Absent], index)
      BY RenamesSound DEF Renames
    <3>8. \A q \in DOMAIN Renames : index[Renames[q]] = Absent
      BY <3>1 DEF AreRenames
    <3>2. \A q \in DOMAIN Renames : Renames[q] # p
      BY <2>3, <3>8
    <3>3. p \in Paths /\ index[p] # work[p]
      BY <2>3 DEF UnstagedPaths
    <3>4. WorktreeLetter(p) # "."
      BY <2>3, <3>3 DEF WorktreeLetter, Letter
    <3>5. p \in Tracked(Renames)
      BY <2>3, <3>2, <3>3, <3>4 DEF Tracked
    <3>6. UnstagedEntry(p) = TrackedEntry(Renames, p)
      BY <2>3 DEF UnstagedEntry
    <3>7. TrackedEntry(Renames, p) \in StatusEntries
      BY <3>5 DEF StatusEntries, TrackedEntries
    <3> QED BY <2>3, <3>3, <3>5, <3>6, <3>7, HalvesOfTracked
  <2> QED BY <2>1, <2>2, <2>3
<1> QED BY <1>2, <1>3

\* And the staged ones those of the staged paths.
LEMMA StagedEntries ==
    ASSUME stages \in [Paths -> SUBSET Stages]
    PROVE  /\ \A e \in StatusEntries : IsStaged(e) =>
                  e.path \in StagedPaths /\ e = StagedEntry(e.path)
           /\ \A p \in StagedPaths : /\ StagedEntry(p) \in StatusEntries
                                     /\ IsStaged(StagedEntry(p))
                                     /\ StagedEntry(p).path = p
<1>1. /\ Tracked(Renames) \subseteq Paths /\ Conflicts \subseteq Paths
      /\ \A p \in Tracked(Renames) : \A q \in DOMAIN Renames : Renames[q] # p
  BY DEF Tracked, Conflicts
<1>2. ASSUME NEW e \in StatusEntries, IsStaged(e)
      PROVE  e.path \in StagedPaths /\ e = StagedEntry(e.path)
  <2>1. CASE e \in TrackedEntries(Renames)
    <3>1. PICK p \in Tracked(Renames) : e = TrackedEntry(Renames, p)
      BY <2>1 DEF TrackedEntries
    <3>2. e.path = p /\ stages[p] = {} /\ head[p] # index[p]
      BY <1>2, <3>1, HalvesOfTracked
    <3> QED BY <1>1, <3>1, <3>2 DEF StagedPaths, StagedEntry
  <2>2. CASE e \in ConflictEntries
    <3>1. PICK p \in Conflicts : e = ConflictEntry(p)
      BY <2>2 DEF ConflictEntries
    <3>2. e.path = p /\ stages[p] # {} /\ stages[p] \in {{"base"}, {"ours", "theirs"}}
      BY <1>2, <3>1, HalvesOfConflicts
    <3> QED BY <1>1, <3>1, <3>2 DEF StagedPaths, StagedEntry
  <2>3. CASE e \in UntrackedEntries
    <3>1. PICK p \in Untracked : e = UntrackedEntry(p)
      BY <2>3 DEF UntrackedEntries
    <3> QED BY <1>2, <3>1, HalvesOfUntracked
  <2> QED BY <2>1, <2>2, <2>3 DEF StatusEntries
<1>3. ASSUME NEW p \in StagedPaths
      PROVE  /\ StagedEntry(p) \in StatusEntries
             /\ IsStaged(StagedEntry(p))
             /\ StagedEntry(p).path = p
  <2>1. CASE stages[p] # {}
    <3>1. /\ p \in Conflicts /\ StagedEntry(p) = ConflictEntry(p)
          /\ stages[p] \in {{"base"}, {"ours", "theirs"}}
      BY <2>1 DEF StagedPaths, Conflicts, StagedEntry
    <3> QED BY <3>1, HalvesOfConflicts DEF StatusEntries, ConflictEntries
  <2>2. CASE stages[p] = {}
    <3>1. head[p] # index[p] /\ p \in Tracked(Renames)
      BY <2>2 DEF StagedPaths, Tracked
    <3>2. StagedEntry(p) = TrackedEntry(Renames, p)
      BY <2>2 DEF StagedEntry
    <3>3. TrackedEntry(Renames, p) \in StatusEntries
      BY <3>1 DEF StatusEntries, TrackedEntries
    <3> QED BY <3>1, <3>2, <3>3, HalvesOfTracked
  <2> QED BY <2>1, <2>2
<1> QED BY <1>2, <1>3

\* A list of entries lists their paths.
ListsPaths(entries, P) ==
    \E paths : /\ Lists(paths, P)
               /\ Len(paths) = Len(entries)
               /\ \A k \in 1..Len(entries) : entries[k].path = paths[k]

\* Entries that have distinct paths list their paths once each.
LEMMA PathsAreListed ==
    ASSUME NEW S, NEW entries, Lists(entries, S), NEW P,
           \A e \in S : e.path \in P,
           \A p \in P : \E e \in S : e.path = p,
           \A e, g \in S : e.path = g.path => e = g
    PROVE  ListsPaths(entries, P)
<1> DEFINE paths == [k \in 1..Len(entries) |-> entries[k].path]
<1>1. /\ Len(entries) \in Nat
      /\ \A k \in 1..Len(entries) : entries[k] \in S
      /\ \A e \in S : \E k \in 1..Len(entries) : entries[k] = e
      /\ \A k, l \in 1..Len(entries) : entries[k] = entries[l] => k = l
  BY DEF Lists
<1>2. /\ paths \in Seq(P) /\ Len(paths) = Len(entries)
      /\ \A k \in 1..Len(entries) : paths[k] = entries[k].path
  BY <1>1
<1> HIDE DEF paths
<1>3. \A p \in P : \E k \in 1..Len(paths) : paths[k] = p
  <2>1. TAKE p \in P
  <2>2. PICK e \in S : e.path = p
    OBVIOUS
  <2>3. PICK k \in 1..Len(entries) : entries[k] = e
    BY <1>1
  <2> QED BY <1>2, <2>2, <2>3
<1>4. \A k, l \in 1..Len(paths) : paths[k] = paths[l] => k = l
  <2>1. TAKE k, l \in 1..Len(paths)
  <2>2. HAVE paths[k] = paths[l]
  <2>3. entries[k] \in S /\ entries[l] \in S /\ entries[k].path = entries[l].path
    BY <1>1, <1>2, <2>2
  <2>4. entries[k] = entries[l]
    BY <2>3
  <2> QED BY <1>1, <1>2, <2>4
<1>5. Lists(paths, P)
  BY <1>2, <1>3, <1>4 DEF Lists
<1> QED BY <1>2, <1>5 DEF ListsPaths

\* The file of each half that an entry becomes, before its lines are counted.
UnstagedFile(e) == StatusEntryToFile(UnstagedView(e), Revs(UnstagedBefore(e), Worktree))
StagedFile(e) == StatusEntryToFile(e, Revs(Commit, Index))

\* A path has a name in it.
LEMMA PathsHaveNames == \A p \in Paths : p # NoPath
BY GitAssumption DEF Paths, Range

\* The file of a conflict in the unstaged half: marked, unless its kind is one that is not.
LEMMA UnstagedConflictFile ==
    ASSUME stages \in [Paths -> SUBSET Stages], NEW p \in Paths, stages[p] # {}
    PROVE  LET f == UnstagedFile(ConflictEntry(p)) IN
           /\ PathOf(f) = p /\ f.after = Worktree /\ f.stats = NoStats
           /\ ~Unmarked(p) => f.stored = "conflicted"
<1>1. stages[p] \in SUBSET Stages /\ p # NoPath
  BY PathsHaveNames
<1> DEFINE xy == UnmergedXy(stages[p])
           v == UnstagedView(ConflictEntry(p))
<1>2. /\ v.index = "." /\ v.worktree = xy[2] /\ v.path = p /\ v.original = NoPath
  <2>1. xy[2] \notin {"?", "!"}
    BY <1>1, LettersOfConflicts
  <2> HIDE DEF xy
  <2> QED BY <2>1 DEF ConflictEntry, Entry, UnstagedView, xy
<1>3. xy[2] \in {"D", "U", "A"} /\ (~Unmarked(p) => xy[2] = "U")
  <2>1. CASE stages[p] \in {{"base"}, {"theirs"}, {"base", "ours"}, {"ours", "theirs"}}
    BY <2>1 DEF UnmergedXy, Unmarked
  <2>2. CASE stages[p] \notin {{"base"}, {"theirs"}, {"base", "ours"}, {"ours", "theirs"}}
    BY <2>2 DEF UnmergedXy, Unmarked
  <2> QED BY <2>1, <2>2
<1> HIDE DEF xy, v
<1>4. StatusChange(v) = IF xy[2] = "U" THEN "conflicted" ELSE IF xy[2] = "D" THEN "deleted" ELSE "modified"
  BY <1>2, <1>3 DEF StatusChange, IsConflicted
<1> DEFINE revs == Revs(UnstagedBefore(ConflictEntry(p)), Worktree)
           f == StatusEntryToFile(v, revs)
<1>5. revs.after = Worktree
  BY DEF Revs
<1> HIDE DEF revs
<1>6. CASE xy[2] = "U"
  <2>1. f = SetChange(UnchangedPath(p, revs), "conflicted")
    BY <1>2, <1>4, <1>6 DEF StatusEntryToFile, NeedsBackend
  <2>2. PathOf(f) = p /\ f.after = Worktree /\ f.stats = NoStats /\ f.stored = "conflicted"
    BY <1>1, <1>5, <2>1 DEF SetChange, UnchangedPath, File, PathOf
  <2> QED BY <2>2 DEF UnstagedFile, v, revs
<1>7. CASE xy[2] = "D"
  <2>1. f = Deleted(p, revs)
    BY <1>2, <1>4, <1>7 DEF StatusEntryToFile, NeedsBackend
  <2>2. PathOf(f) = p /\ f.after = Worktree /\ f.stats = NoStats
    BY <1>1, <1>5, <2>1 DEF Deleted, File, PathOf
  <2> QED BY <1>3, <1>7, <2>2 DEF UnstagedFile, v, revs
<1>8. CASE xy[2] = "A"
  <2>1. f = UnchangedPath(p, revs)
    BY <1>2, <1>4, <1>8 DEF StatusEntryToFile, NeedsBackend
  <2>2. PathOf(f) = p /\ f.after = Worktree /\ f.stats = NoStats
    BY <1>1, <1>5, <2>1 DEF UnchangedPath, File, PathOf
  <2> QED BY <1>3, <1>8, <2>2 DEF UnstagedFile, v, revs
<1> QED BY <1>3, <1>6, <1>7, <1>8

\* That of an untracked file.
LEMMA UntrackedFile ==
    ASSUME NEW p
    PROVE  UnstagedFile(UntrackedEntry(p)) = SetChange(Added(p, Revs(Index, Worktree)), "untracked")
<1> DEFINE e == UntrackedEntry(p)
<1>1. e.index = "." /\ e.worktree = "?" /\ e.path = p /\ e.original = NoPath
  BY DEF UntrackedEntry, Entry
<1>2. UnstagedView(e) = e /\ UnstagedBefore(e) = Index /\ StatusChange(e) = "untracked"
  <2> HIDE DEF e
  <2> QED BY <1>1 DEF UnstagedView, UnstagedBefore, StatusChange, IsConflicted
<1> HIDE DEF e
<1>3. UnstagedFile(e) = SetChange(Added(p, Revs(Index, Worktree)), "untracked")
  BY <1>1, <1>2 DEF UnstagedFile, StatusEntryToFile, NeedsBackend
<1> QED BY <1>3 DEF e

\* That of a tracked file that differs from the index: a deletion or a modification.
LEMMA UnstagedTrackedFile ==
    ASSUME NEW r, NEW p, index[p] # Absent, index[p] # work[p]
    PROVE  UnstagedFile(TrackedEntry(r, p))
              = IF work[p] = Absent THEN Deleted(p, Revs(Index, Worktree))
                ELSE UnchangedPath(p, Revs(Index, Worktree))
<1> DEFINE e == TrackedEntry(r, p)
           v == UnstagedView(e)
<1>1. WorktreeLetter(p) = IF work[p] = Absent THEN "D" ELSE "M"
  BY DEF WorktreeLetter, Letter
<1>2. /\ e.index \in {"R", ".", "A", "D", "M"} /\ e.worktree = WorktreeLetter(p) /\ e.path = p
      /\ v.index = "." /\ v.worktree = WorktreeLetter(p) /\ v.path = p /\ v.original = NoPath
  <2>1. \A a, b : Letter(a, b) \in {".", "A", "D", "M"}
    BY DEF Letter
  <2>2. CASE p \in DOMAIN r
    BY <1>1, <2>2 DEF TrackedEntry, Entry, UnstagedView
  <2>3. CASE p \notin DOMAIN r
    BY <1>1, <2>1, <2>3 DEF TrackedEntry, Entry, UnstagedView
  <2> QED BY <2>2, <2>3
<1> HIDE DEF e, v
<1>3. /\ UnstagedBefore(e) = Index
      /\ StatusChange(v) = IF work[p] = Absent THEN "deleted" ELSE "modified"
  BY <1>1, <1>2 DEF UnstagedBefore, StatusChange, IsConflicted
<1>4. StatusEntryToFile(v, Revs(Index, Worktree))
        = IF work[p] = Absent THEN Deleted(p, Revs(Index, Worktree))
          ELSE UnchangedPath(p, Revs(Index, Worktree))
  BY <1>2, <1>3 DEF StatusEntryToFile, NeedsBackend
<1> QED BY <1>3, <1>4 DEF UnstagedFile, e, v

\* The file of a conflict in the staged half, of the kinds that have one.
LEMMA StagedConflictFile ==
    ASSUME NEW p \in Paths, stages[p] \in {{"base"}, {"ours", "theirs"}}
    PROVE  LET f == StagedFile(ConflictEntry(p)) IN
           PathOf(f) = p /\ f.after = Index /\ f.stats = NoStats
<1> DEFINE e == ConflictEntry(p)
           f == StagedFile(e)
<1>1. p # NoPath
  BY PathsHaveNames
<1>2. CASE stages[p] = {"base"}
  <2>1. e.index = "D" /\ e.worktree = "D" /\ e.path = p /\ e.original = NoPath
    BY <1>2 DEF ConflictEntry, Entry, UnmergedXy
  <2> HIDE DEF e
  <2>3. StatusChange(e) = "deleted"
    BY <2>1 DEF StatusChange, IsConflicted
  <2>2. f = Deleted(p, Revs(Commit, Index))
    BY <2>1, <2>3 DEF StagedFile, StatusEntryToFile, NeedsBackend
  <2> QED BY <1>1, <2>2 DEF Deleted, File, PathOf, Revs, e
<1>3. CASE stages[p] = {"ours", "theirs"}
  <2>1. e.index = "A" /\ e.worktree = "A" /\ e.path = p /\ e.original = NoPath
    BY <1>3 DEF ConflictEntry, Entry, UnmergedXy
  <2> HIDE DEF e
  <2>3. StatusChange(e) = "added"
    BY <2>1 DEF StatusChange, IsConflicted
  <2>2. f = Added(p, Revs(Commit, Index))
    BY <2>1, <2>3 DEF StagedFile, StatusEntryToFile, NeedsBackend
  <2> QED BY <1>1, <2>2 DEF Added, File, PathOf, Revs, e
<1> QED BY <1>2, <1>3

\* That of a tracked file: renamed, added, deleted or modified since the commit.
\* What is deleted from the working tree only is listed as deleted here as well.
LEMMA StagedTrackedFile ==
    ASSUME NEW r, NEW p, head[p] # index[p], p \in DOMAIN r => r[p] # NoPath
    PROVE  StagedFile(TrackedEntry(r, p))
              = IF p \in DOMAIN r THEN Renamed(r[p], p, Revs(Commit, Index))
                ELSE IF head[p] = Absent THEN Added(p, Revs(Commit, Index))
                ELSE IF index[p] = Absent \/ work[p] = Absent THEN Deleted(p, Revs(Commit, Index))
                ELSE UnchangedPath(p, Revs(Commit, Index))
<1> DEFINE e == TrackedEntry(r, p)
<1>1. WorktreeLetter(p) = IF index[p] = Absent \/ index[p] = work[p] THEN "."
                          ELSE IF work[p] = Absent THEN "D" ELSE "M"
  BY DEF WorktreeLetter, Letter
<1>2. CASE p \in DOMAIN r
  <2>1. e.index = "R" /\ e.worktree = WorktreeLetter(p) /\ e.path = p /\ e.original = r[p]
    BY <1>2 DEF TrackedEntry, Entry
  <2> HIDE DEF e
  <2>2. StatusChange(e) = "moved"
    BY <1>1, <2>1 DEF StatusChange, IsConflicted
  <2>3. StagedFile(e) = Renamed(r[p], p, Revs(Commit, Index))
    BY <1>2, <2>1, <2>2 DEF StagedFile, StatusEntryToFile, NeedsBackend
  <2> QED BY <1>2, <2>3 DEF e
<1>3. CASE p \notin DOMAIN r
  <2>1. e.index = Letter(head[p], index[p]) /\ e.worktree = WorktreeLetter(p) /\ e.path = p
        /\ e.original = NoPath
    BY <1>3 DEF TrackedEntry, Entry
  <2>2. Letter(head[p], index[p]) = IF head[p] = Absent THEN "A" ELSE IF index[p] = Absent THEN "D" ELSE "M"
    BY DEF Letter
  <2> HIDE DEF e
  <2>3. StatusChange(e) = IF head[p] = Absent THEN "added"
                          ELSE IF index[p] = Absent \/ work[p] = Absent THEN "deleted" ELSE "modified"
    BY <1>1, <2>1, <2>2 DEF StatusChange, IsConflicted
  <2>4. StagedFile(e) = IF head[p] = Absent THEN Added(p, Revs(Commit, Index))
                        ELSE IF index[p] = Absent \/ work[p] = Absent THEN Deleted(p, Revs(Commit, Index))
                        ELSE UnchangedPath(p, Revs(Commit, Index))
    BY <2>1, <2>3 DEF StagedFile, StatusEntryToFile, NeedsBackend
  <2> QED BY <1>3, <2>4 DEF e
<1> QED BY <1>2, <1>3

\* Whatever is listed is unstaged or staged: the list has a file of each path of
\* each half, first of one, then of the other.
Halves(files, u, s) ==
    /\ Lists(u, UnstagedPaths) /\ Lists(s, StagedPaths)
    /\ DOMAIN files = 1..(Len(u) + Len(s))
    /\ \A i \in 1..Len(u) : files[i] = UnstagedFile(UnstagedEntry(u[i]))
    /\ \A i \in 1..Len(s) : files[Len(u) + i] = StagedFile(StagedEntry(s[i]))

\* The files of a listing: those of the unstaged half, then those of the staged one.
LEMMA FilesHaveHalves ==
    ASSUME stages \in [Paths -> SUBSET Stages]
    PROVE  \E u, s : Halves(StatusEntriesToFiles(Parse(StatusFields)), u, s)
<1> DEFINE entries == Parse(StatusFields)
           I == {i \in DOMAIN entries : IsUnstaged(entries[i])}
           J == {i \in DOMAIN entries : IsStaged(entries[i])}
           unstaged == Picked(entries, I)
           staged == Picked(entries, J)
           U == {e \in StatusEntries : IsUnstaged(e)}
           S == {e \in StatusEntries : IsStaged(e)}
           first == [i \in DOMAIN unstaged |-> UnstagedFile(unstaged[i])]
           second == [i \in DOMAIN staged |-> StagedFile(staged[i])]
<1>1. Lists(entries, StatusEntries)
  BY StatusFieldsRead
<1>2. StatusEntriesToFiles(entries) = first \o second
  BY DEF StatusEntriesToFiles, UnstagedFile, StagedFile
<1> HIDE DEF entries
<1>3. Len(entries) \in Nat /\ DOMAIN entries = 1..Len(entries)
      /\ \A i \in 1..Len(entries) : entries[i] \in StatusEntries
  BY <1>1 DEF Lists
<1>4. /\ \A i \in 1..Len(entries) : i \in I <=> entries[i] \in U
      /\ \A i \in 1..Len(entries) : i \in J <=> entries[i] \in S
      /\ StatusEntries \cap U = U /\ StatusEntries \cap S = S
  BY <1>3
<1>5. Lists(unstaged, U) /\ Lists(staged, S)
  <2> HIDE DEF I, J, U, S
  <2>1. Lists(unstaged, StatusEntries \cap U) /\ Lists(staged, StatusEntries \cap S)
    BY <1>1, <1>4, PickedLists
  <2> QED BY <1>4, <2>1
<1>6. /\ \A e \in U : e.path \in UnstagedPaths /\ e = UnstagedEntry(e.path)
      /\ \A p \in UnstagedPaths : UnstagedEntry(p) \in U /\ UnstagedEntry(p).path = p
  BY UnstagedEntries
<1>7. /\ \A e \in S : e.path \in StagedPaths /\ e = StagedEntry(e.path)
      /\ \A p \in StagedPaths : StagedEntry(p) \in S /\ StagedEntry(p).path = p
  BY StagedEntries
<1> HIDE DEF unstaged, staged, I, J, U, S
<1>8. PICK u : /\ Lists(u, UnstagedPaths) /\ Len(u) = Len(unstaged)
               /\ \A k \in 1..Len(unstaged) : unstaged[k].path = u[k]
  <2>1. \A e, g \in U : e.path = g.path => e = g
    BY <1>6
  <2>2. \A p \in UnstagedPaths : \E e \in U : e.path = p
    BY <1>6
  <2>3. \A e \in U : e.path \in UnstagedPaths
    BY <1>6
  <2>4. ListsPaths(unstaged, UnstagedPaths)
    BY <1>5, <2>1, <2>2, <2>3, PathsAreListed
  <2> QED BY <2>4 DEF ListsPaths
<1>9. PICK s : /\ Lists(s, StagedPaths) /\ Len(s) = Len(staged)
               /\ \A k \in 1..Len(staged) : staged[k].path = s[k]
  <2>1. \A e, g \in S : e.path = g.path => e = g
    BY <1>7
  <2>2. \A p \in StagedPaths : \E e \in S : e.path = p
    BY <1>7
  <2>3. \A e \in S : e.path \in StagedPaths
    BY <1>7
  <2>4. ListsPaths(staged, StagedPaths)
    BY <1>5, <2>1, <2>2, <2>3, PathsAreListed
  <2> QED BY <2>4 DEF ListsPaths
<1>10. /\ Len(unstaged) \in Nat /\ DOMAIN unstaged = 1..Len(unstaged)
       /\ \A k \in 1..Len(unstaged) : unstaged[k] \in U
       /\ Len(staged) \in Nat /\ DOMAIN staged = 1..Len(staged)
       /\ \A k \in 1..Len(staged) : staged[k] \in S
  BY <1>5 DEF Lists
<1>11. /\ DOMAIN (first \o second) = 1..(Len(unstaged) + Len(staged))
       /\ \A i \in 1..Len(unstaged) : (first \o second)[i] = UnstagedFile(unstaged[i])
       /\ \A i \in 1..Len(staged) : (first \o second)[Len(unstaged) + i] = StagedFile(staged[i])
  <2> DEFINE T == {UnstagedFile(unstaged[i]) : i \in 1..Len(unstaged)}
                  \cup {StagedFile(staged[i]) : i \in 1..Len(staged)}
  <2>1. /\ first \in Seq(T) /\ Len(first) = Len(unstaged)
        /\ \A i \in 1..Len(unstaged) : first[i] = UnstagedFile(unstaged[i])
    <3>1. \A i \in 1..Len(unstaged) : UnstagedFile(unstaged[i]) \in T
      OBVIOUS
    <3> HIDE DEF T
    <3> QED BY <1>10, <3>1
  <2>2. /\ second \in Seq(T) /\ Len(second) = Len(staged)
        /\ \A i \in 1..Len(staged) : second[i] = StagedFile(staged[i])
    <3>1. \A i \in 1..Len(staged) : StagedFile(staged[i]) \in T
      OBVIOUS
    <3> HIDE DEF T
    <3> QED BY <1>10, <3>1
  <2>3. \A a, b \in Seq(T) :
           /\ DOMAIN (a \o b) = 1..(Len(a) + Len(b))
           /\ \A i \in 1..Len(a) : (a \o b)[i] = a[i]
           /\ \A i \in 1..Len(b) : (a \o b)[Len(a) + i] = b[i]
    <3> HIDE DEF T
    <3> QED OBVIOUS
  <2> HIDE DEF first, second, T
  <2>4. /\ DOMAIN (first \o second) = 1..(Len(first) + Len(second))
        /\ \A i \in 1..Len(first) : (first \o second)[i] = first[i]
        /\ \A i \in 1..Len(second) : (first \o second)[Len(first) + i] = second[i]
    BY <2>1, <2>2, <2>3
  <2> QED BY <2>1, <2>2, <2>4
<1> DEFINE files == first \o second
<1> HIDE DEF first, second, files
<1>12. \A i \in 1..Len(u) : files[i] = UnstagedFile(UnstagedEntry(u[i]))
  <2>1. TAKE i \in 1..Len(u)
  <2>2. unstaged[i] = UnstagedEntry(u[i])
    BY <1>6, <1>8, <1>10
  <2> QED BY <1>8, <1>11, <2>2 DEF files
<1>13. \A i \in 1..Len(s) : files[Len(u) + i] = StagedFile(StagedEntry(s[i]))
  <2>1. TAKE i \in 1..Len(s)
  <2>2. staged[i] = StagedEntry(s[i])
    BY <1>7, <1>9, <1>10
  <2> QED BY <1>8, <1>9, <1>11, <2>2 DEF files
<1>14. Halves(files, u, s)
  BY <1>8, <1>9, <1>11, <1>12, <1>13 DEF Halves, files
<1>15. StatusEntriesToFiles(entries) = files
  BY <1>2 DEF files
<1> QED BY <1>14, <1>15 DEF entries

-----------------------------------------------------------------------------
(* The invariant *)

TypeOK ==
    /\ head \in [Paths -> Contents]
    /\ index \in [Paths -> Contents]
    /\ work \in [Paths -> Contents]
    /\ stages \in [Paths -> SUBSET Stages]
    /\ parent = <<>> \/ \E tree \in [Paths -> Contents] : parent = <<tree>>

\* A conflict has no text of its own in the index.
ConflictsInv == \A p \in Paths : stages[p] # {} => index[p] = Absent

\* What a command does is what the heading says that Space was pressed under.
IsCommand(c) ==
    \/ c.kind = "stage" /\ c.from = "Changes"
    \/ c.kind = "unstage" /\ c.from = "Staged Changes"
CommandsInv ==
    /\ \A c \in commands : IsCommand(c)
    /\ locked = NoCommand \/ IsCommand(locked)

\* What the last command did is still so.
DoneInv ==
    done = NoCommand \/
    /\ IsCommand(done)
    /\ \A p \in Under(done.path) :
          /\ stages[p] = {}
          /\ done.from = "Changes" => index[p] = work[p]
          /\ done.from = "Staged Changes" => index[p] = head[p]

\* What is listed is what a listing would find.
ListInv == fresh => list = GetChangedFiles /\ commit = head

IInv == TypeOK /\ ConflictsInv /\ CommandsInv /\ DoneInv /\ ListInv

\* A listing depends on the repository alone.
LEMMA ListingUnchanged ==
    ASSUME UNCHANGED repository
    PROVE  GetChangedFiles' = GetChangedFiles
<1>1. UNCHANGED <<head, parent, index, stages, work>>
  BY DEF repository
<1>2. Renames' = Renames
  BY <1>1 DEF Renames
<1>3. \A p : WorktreeLetter(p)' = WorktreeLetter(p)
  BY <1>1 DEF WorktreeLetter
<1>4. StatusFields' = StatusFields
  BY <1>1, <1>2, <1>3
  DEF StatusFields, FieldsOf, Tracked, TrackedFields, Conflicts, Untracked
<1>5. UnstagedNumstat' = UnstagedNumstat
  BY <1>1 DEF UnstagedNumstat
<1>6. StagedNumstat' = StagedNumstat
  BY <1>1, <1>2 DEF StagedNumstat
<1>7. GitLineStats' = GitLineStats
  BY <1>5, <1>6 DEF GitLineStats, CountsOf
<1>8. \A f, s : ApplyStats(f, s)' = ApplyStats(f, s)
  BY <1>1 DEF ApplyStats, CountUntrackedLines
<1> QED BY <1>4, <1>7, <1>8 DEF GetChangedFiles

\* Nothing is listed and no command runs at first.
LEMMA InitIInv == Init => IInv
BY DEF Init, IInv, TypeOK, ConflictsInv, CommandsInv, DoneInv, ListInv

\* Every step keeps the types.
LEMMA NextTypeOK == TypeOK /\ [Next]_vars => TypeOK'
<1> SUFFICES ASSUME TypeOK, [Next]_vars PROVE TypeOK'
  OBVIOUS
<1> USE DEF TypeOK
<1>1. CASE UNCHANGED repository
  BY <1>1 DEF repository
<1>2. ASSUME NEW path, GitAdd(path), UNCHANGED <<head, parent, work>> PROVE TypeOK'
  BY <1>2 DEF GitAdd
<1>3. ASSUME NEW path, GitReset(path), UNCHANGED <<head, parent, work>> PROVE TypeOK'
  BY <1>3 DEF GitReset
<1>4. CASE CommandEnds
  BY <1>2, <1>3, <1>4 DEF CommandEnds
<1>5. CASE AddAll
  BY <1>2, <1>5 DEF AddAll
<1>6. CASE CommitIndex
  BY <1>6 DEF CommitIndex
<1>7. ASSUME NEW p \in Paths, NEW t \in Contents, Edit(p, t) PROVE TypeOK'
  BY <1>7 DEF Edit
<1>8. ASSUME NEW p \in Paths, NEW s \in SUBSET Stages, NEW t \in Contents, Conflict(p, s, t)
      PROVE  TypeOK'
  BY <1>8 DEF Conflict, Contents
<1>9. List \/ Toggle \/ CommandFails \/ CommandLocks \/ UNCHANGED vars => UNCHANGED repository
  BY DEF List, Toggle, CommandFails, CommandLocks, vars, repository
<1> QED BY <1>1, <1>4, <1>5, <1>6, <1>7, <1>8, <1>9 DEF Next

\* What has stages has no entry in the index.
LEMMA NextConflictsInv == TypeOK /\ ConflictsInv /\ [Next]_vars => ConflictsInv'
<1> SUFFICES ASSUME TypeOK, ConflictsInv, [Next]_vars PROVE ConflictsInv'
  OBVIOUS
<1> USE DEF TypeOK, ConflictsInv
<1>1. CASE UNCHANGED repository
  BY <1>1 DEF repository
<1>2. ASSUME NEW path, GitAdd(path) PROVE ConflictsInv'
  BY <1>2 DEF GitAdd
<1>3. ASSUME NEW path, GitReset(path) PROVE ConflictsInv'
  BY <1>3 DEF GitReset
<1>4. CASE CommandEnds
  BY <1>2, <1>3, <1>4 DEF CommandEnds
<1>5. CASE AddAll
  BY <1>2, <1>5 DEF AddAll
<1>6. CASE CommitIndex
  BY <1>6 DEF CommitIndex
<1>7. ASSUME NEW p \in Paths, NEW t \in Contents, Edit(p, t) PROVE ConflictsInv'
  BY <1>7 DEF Edit
<1>8. ASSUME NEW p \in Paths, NEW s \in SUBSET Stages, NEW t \in Contents, Conflict(p, s, t)
      PROVE  ConflictsInv'
  BY <1>8 DEF Conflict
<1>9. List \/ Toggle \/ CommandFails \/ CommandLocks \/ UNCHANGED vars => UNCHANGED repository
  BY DEF List, Toggle, CommandFails, CommandLocks, vars, repository
<1> QED BY <1>1, <1>4, <1>5, <1>6, <1>7, <1>8, <1>9 DEF Next

\* A command that runs is one that a listed entry asked for.
LEMMA NextCommandsInv == CommandsInv /\ [Next]_vars => CommandsInv'
<1> SUFFICES ASSUME CommandsInv, [Next]_vars PROVE CommandsInv'
  OBVIOUS
<1> USE DEF CommandsInv
<1>1. CASE UNCHANGED <<commands, locked>>
  BY <1>1
<1>2. CASE Toggle
  <2>1. PICK i \in DOMAIN list : \E n \in 1..Len(PathOf(list[i])) :
           commands' = commands \cup
               {[kind |-> IF list[i].after = Index THEN "unstage" ELSE "stage",
                 path |-> SubSeq(PathOf(list[i]), 1, n), from |-> Heading(RevsOf(list[i]))]}
    BY <1>2 DEF Toggle
  <2> DEFINE c(n) == [kind |-> IF list[i].after = Index THEN "unstage" ELSE "stage",
                      path |-> SubSeq(PathOf(list[i]), 1, n), from |-> Heading(RevsOf(list[i]))]
  <2>2. \A n : IsCommand(c(n))
    BY DEF IsCommand, Heading, RevsOf, Revs
  <2>3. (\E n : commands' = commands \cup {c(n)}) /\ locked' = locked
    BY <1>2, <2>1 DEF Toggle
  <2> HIDE DEF c
  <2> QED BY <2>2, <2>3
<1>3. CASE CommandFails
  BY <1>3 DEF CommandFails
<1>4. CASE CommandLocks
  BY <1>4 DEF CommandLocks
<1>5. CASE CommandEnds
  BY <1>5 DEF CommandEnds
<1>6. /\ List \/ AddAll \/ CommitIndex \/ UNCHANGED vars => UNCHANGED <<commands, locked>>
      /\ \A p, t : Edit(p, t) => UNCHANGED <<commands, locked>>
      /\ \A p, s, t : Conflict(p, s, t) => UNCHANGED <<commands, locked>>
  BY DEF List, AddAll, CommitIndex, Edit, Conflict, Elsewhere, vars
<1> QED BY <1>1, <1>2, <1>3, <1>4, <1>5, <1>6 DEF Next

\* What the last command was asked for stands in the index, or nothing has been done.
LEMMA NextDoneInv == TypeOK /\ CommandsInv /\ DoneInv /\ [Next]_vars => DoneInv'
<1> SUFFICES ASSUME TypeOK, CommandsInv, DoneInv, [Next]_vars PROVE DoneInv'
  OBVIOUS
<1>1. CASE UNCHANGED <<head, parent, index, stages, work, done>>
  BY <1>1 DEF DoneInv
<1>2. CASE done' = NoCommand
  BY <1>2 DEF DoneInv
<1>3. CASE CommandEnds
  <2>1. IsCommand(locked) /\ done' = locked /\ UNCHANGED <<head, work>>
    BY <1>3 DEF CommandEnds, CommandsInv
  <2>2. \A p \in Under(locked.path) : p \in Paths
    BY DEF Under
  <2>3. CASE locked.kind = "stage"
    <3>1. GitAdd(locked.path) /\ locked.from = "Changes"
      BY <1>3, <2>1, <2>3 DEF CommandEnds, IsCommand
    <3>2. \A p \in Under(locked.path) : stages'[p] = {} /\ index'[p] = work[p]
      BY <2>2, <3>1 DEF GitAdd
    <3> QED BY <2>1, <3>1, <3>2 DEF DoneInv
  <2>4. CASE locked.kind # "stage"
    <3>1. GitReset(locked.path) /\ locked.from = "Staged Changes"
      BY <1>3, <2>1, <2>4 DEF CommandEnds, IsCommand
    <3>2. \A p \in Under(locked.path) : stages'[p] = {} /\ index'[p] = head[p]
      BY <2>2, <3>1 DEF GitReset
    <3> QED BY <2>1, <3>1, <3>2 DEF DoneInv
  <2> QED BY <2>3, <2>4
<1>4. List \/ Toggle \/ CommandFails \/ CommandLocks \/ UNCHANGED vars
        => UNCHANGED <<head, parent, index, stages, work, done>>
  BY DEF List, Toggle, CommandFails, CommandLocks, vars, repository
<1>5. /\ AddAll \/ CommitIndex => done' = NoCommand
      /\ \A p, t : Edit(p, t) => done' = NoCommand
      /\ \A p, s, t : Conflict(p, s, t) => done' = NoCommand
  BY DEF AddAll, CommitIndex, Edit, Conflict, Elsewhere
<1> QED BY <1>1, <1>2, <1>3, <1>4, <1>5 DEF Next

\* The list is that of the repository as it is, while it is fresh.
LEMMA NextListInv == ListInv /\ [Next]_vars => ListInv'
<1> SUFFICES ASSUME ListInv, [Next]_vars PROVE ListInv'
  OBVIOUS
<1>1. CASE UNCHANGED <<head, parent, index, stages, work, list, commit, fresh>>
  <2>1. GetChangedFiles' = GetChangedFiles
    BY <1>1, ListingUnchanged DEF repository
  <2> QED BY <1>1, <2>1 DEF ListInv
<1>2. CASE fresh' = FALSE
  BY <1>2 DEF ListInv
<1>3. CASE List
  <2>1. GetChangedFiles' = GetChangedFiles
    BY <1>3, ListingUnchanged DEF List
  <2>2. commit' = head /\ head' = head
    BY <1>3 DEF List, repository, Resolve, Unborn, Commit, Failed
  <2> QED BY <1>3, <2>1, <2>2 DEF ListInv, List
<1>4. Toggle \/ CommandFails \/ CommandLocks \/ UNCHANGED vars
        => UNCHANGED <<head, parent, index, stages, work, list, commit, fresh>>
  BY DEF Toggle, CommandFails, CommandLocks, vars, repository
<1>5. /\ CommandEnds \/ AddAll \/ CommitIndex => fresh' = FALSE
      /\ \A p, t : Edit(p, t) => fresh' = FALSE
      /\ \A p, s, t : Conflict(p, s, t) => fresh' = FALSE
  BY DEF CommandEnds, AddAll, CommitIndex, Edit, Conflict, Elsewhere
<1> QED BY <1>1, <1>2, <1>3, <1>4, <1>5 DEF Next

\* The invariant holds of every reachable state.
THEOREM Invariant == Spec => []IInv
<1>1. Init => IInv
  BY InitIInv
<1>2. IInv /\ [Next]_vars => IInv'
  BY NextTypeOK, NextConflictsInv, NextCommandsInv, NextDoneInv, NextListInv DEF IInv
<1> QED BY <1>1, <1>2, PTL DEF Spec

-----------------------------------------------------------------------------
(* What is listed *)

\* Counting lines changes nothing else of a file.
IsFile(f) ==
    f = [original |-> f.original, modified |-> f.modified, before |-> f.before,
         after |-> f.after, stored |-> f.stored, stats |-> f.stats]

\* Every entry becomes a file that exists on a side.
LEMMA EntriesBecomeFiles == \A e : IsFile(UnstagedFile(e)) /\ IsFile(StagedFile(e))
<1>1. ASSUME NEW e, NEW revs PROVE IsFile(StatusEntryToFile(e, revs))
  <2>1. \A o, m : IsFile(File(o, m, revs))
    BY DEF IsFile, File
  <2>2. \A f, c : IsFile(f) => IsFile(SetChange(f, c))
    BY DEF IsFile, SetChange
  <2> DEFINE change == StatusChange(e)
             file == IF change \in {"added", "untracked"} THEN Added(e.path, revs)
                     ELSE IF change = "deleted" THEN Deleted(e.path, revs)
                     ELSE IF e.original # NoPath THEN Renamed(e.original, e.path, revs)
                     ELSE UnchangedPath(e.path, revs)
  <2>3. IsFile(file)
    <3>1. /\ IsFile(Added(e.path, revs)) /\ IsFile(Deleted(e.path, revs))
          /\ IsFile(Renamed(e.original, e.path, revs)) /\ IsFile(UnchangedPath(e.path, revs))
      BY <2>1 DEF Added, Deleted, Renamed, UnchangedPath
    <3> HIDE DEF change
    <3> QED BY <3>1
  <2> HIDE DEF file
  <2>4. StatusEntryToFile(e, revs) = IF NeedsBackend(change) THEN SetChange(file, change) ELSE file
    BY DEF StatusEntryToFile, file
  <2> QED BY <2>2, <2>3, <2>4
<1> QED BY <1>1 DEF UnstagedFile, StagedFile

\* To count a file changes nothing else of it.
LEMMA SetStatsKeeps ==
    ASSUME NEW f, IsFile(f), NEW stats
    PROVE  LET g == SetStats(f, stats) IN
           /\ IsFile(g)
           /\ g.original = f.original /\ g.modified = f.modified /\ g.before = f.before
           /\ g.after = f.after /\ g.stored = f.stored /\ g.stats = stats
BY DEF IsFile, SetStats

\* Nor does the whole of apply_stats_to_file.
LEMMA ApplyStatsKeeps ==
    ASSUME NEW f, IsFile(f), NEW stats
    PROVE  LET g == ApplyStats(f, stats) IN
           /\ g.original = f.original /\ g.modified = f.modified
           /\ g.before = f.before /\ g.after = f.after /\ g.stored = f.stored
           /\ PathOf(g) = PathOf(f) /\ ChangeOf(g) = ChangeOf(f) /\ RevsOf(g) = RevsOf(f)
<1> DEFINE g == ApplyStats(f, stats)
<1>1. g = f \/ \E t : g = SetStats(f, t)
  BY DEF ApplyStats
<1>2. /\ g.original = f.original /\ g.modified = f.modified
      /\ g.before = f.before /\ g.after = f.after /\ g.stored = f.stored
  <2> HIDE DEF g
  <2> QED BY <1>1, SetStatsKeeps
<1> HIDE DEF g
<1>3. PathOf(g) = PathOf(f) /\ ChangeOf(g) = ChangeOf(f) /\ RevsOf(g) = RevsOf(f)
  BY <1>2 DEF PathOf, ChangeOf, ChangeOfPaths, PreviousPath, OneSided, RevsOf
<1> QED BY <1>2, <1>3 DEF g

\* The file of a path in each half.
UnstagedAt(p) == UnstagedFile(UnstagedEntry(p))
StagedAt(p) == StagedFile(StagedEntry(p))

\* The files of the two halves are those of their paths, with their lines counted.
Listing(u, s) ==
    /\ Lists(u, UnstagedPaths) /\ Lists(s, StagedPaths)
    /\ DOMAIN GetChangedFiles = 1..(Len(u) + Len(s))
    /\ \A i \in 1..Len(u) : GetChangedFiles[i] = ApplyStats(UnstagedAt(u[i]), GitLineStats)
    /\ \A i \in 1..Len(s) :
          GetChangedFiles[Len(u) + i] = ApplyStats(StagedAt(s[i]), GitLineStats)

\* Every listing has two halves, with the files of the entries in each.
LEMMA ListingExists ==
    ASSUME TypeOK
    PROVE  \E u, s : Listing(u, s)
<1> DEFINE files == StatusEntriesToFiles(Parse(StatusFields))
           stats == GitLineStats
<1>1. PICK u, s : Halves(files, u, s)
  BY FilesHaveHalves DEF TypeOK
<1>2. GetChangedFiles = [i \in DOMAIN files |-> ApplyStats(files[i], stats)]
  BY DEF GetChangedFiles
<1> HIDE DEF files, stats
<1>3. /\ Lists(u, UnstagedPaths) /\ Lists(s, StagedPaths)
      /\ DOMAIN files = 1..(Len(u) + Len(s))
      /\ \A i \in 1..Len(u) : files[i] = UnstagedAt(u[i])
      /\ \A i \in 1..Len(s) : files[Len(u) + i] = StagedAt(s[i])
  BY <1>1 DEF Halves, UnstagedAt, StagedAt
<1>4. Len(u) \in Nat /\ Len(s) \in Nat
  BY <1>3 DEF Lists
<1>5. /\ DOMAIN GetChangedFiles = 1..(Len(u) + Len(s))
      /\ \A i \in 1..(Len(u) + Len(s)) : GetChangedFiles[i] = ApplyStats(files[i], stats)
  BY <1>2, <1>3
<1>6. \A i \in 1..Len(u) : GetChangedFiles[i] = ApplyStats(UnstagedAt(u[i]), stats)
  BY <1>3, <1>4, <1>5
<1>7. \A i \in 1..Len(s) : GetChangedFiles[Len(u) + i] = ApplyStats(StagedAt(s[i]), stats)
  BY <1>3, <1>4, <1>5
<1> QED BY <1>3, <1>5, <1>6, <1>7 DEF Listing, stats

\* A file under "Changes" is of its path.
LEMMA UnstagedFiles ==
    ASSUME TypeOK, NEW p \in UnstagedPaths
    PROVE  /\ IsFile(UnstagedAt(p))
           /\ PathOf(UnstagedAt(p)) = p
           /\ UnstagedAt(p).after = Worktree
           /\ UnstagedAt(p).stats = NoStats
           /\ stages[p] # {} /\ ~Unmarked(p) => UnstagedAt(p).stored = "conflicted"
           /\ stages[p] = {} /\ index[p] = Absent =>
                 UnstagedAt(p) = SetChange(Added(p, Revs(Index, Worktree)), "untracked")
           /\ stages[p] = {} /\ index[p] # Absent =>
                 UnstagedAt(p) = IF work[p] = Absent THEN Deleted(p, Revs(Index, Worktree))
                                 ELSE UnchangedPath(p, Revs(Index, Worktree))
<1> DEFINE f == UnstagedAt(p)
<1>1. p \in Paths /\ p # NoPath /\ IsFile(f)
  BY PathsHaveNames, EntriesBecomeFiles DEF UnstagedPaths, UnstagedAt
<1>2. CASE stages[p] # {}
  <2>1. f = UnstagedFile(ConflictEntry(p))
    BY <1>2 DEF UnstagedAt, UnstagedEntry
  <2>2. stages \in [Paths -> SUBSET Stages]
    BY DEF TypeOK
  <2> HIDE DEF f
  <2>3. /\ PathOf(f) = p /\ f.after = Worktree /\ f.stats = NoStats
        /\ ~Unmarked(p) => f.stored = "conflicted"
    BY <1>1, <1>2, <2>1, <2>2, UnstagedConflictFile
  <2> QED BY <1>1, <1>2, <2>3 DEF f
<1>3. CASE stages[p] = {} /\ index[p] = Absent
  <2>1. f = UnstagedFile(UntrackedEntry(p))
    BY <1>3 DEF UnstagedAt, UnstagedEntry
  <2> HIDE DEF f
  <2>2. f = SetChange(Added(p, Revs(Index, Worktree)), "untracked")
    BY <2>1, UntrackedFile
  <2>3. PathOf(f) = p /\ f.after = Worktree /\ f.stats = NoStats
    BY <1>1, <2>2 DEF SetChange, Added, File, PathOf, Revs
  <2> QED BY <1>1, <1>3, <2>2, <2>3 DEF f
<1>4. CASE stages[p] = {} /\ index[p] # Absent
  <2>1. f = UnstagedFile(TrackedEntry(Renames, p))
    BY <1>4 DEF UnstagedAt, UnstagedEntry
  <2>2. index[p] # work[p]
    BY <1>4 DEF UnstagedPaths
  <2> HIDE DEF f
  <2>3. f = IF work[p] = Absent THEN Deleted(p, Revs(Index, Worktree))
            ELSE UnchangedPath(p, Revs(Index, Worktree))
    BY <1>4, <2>1, <2>2, UnstagedTrackedFile
  <2>4. PathOf(f) = p /\ f.after = Worktree /\ f.stats = NoStats
    BY <1>1, <2>3 DEF Deleted, UnchangedPath, File, PathOf, Revs
  <2> QED BY <1>1, <1>4, <2>3, <2>4 DEF f
<1> QED BY <1>2, <1>3, <1>4

\* What HEAD and the index are to the renames between them.
LEMMA RenamesOfIndex ==
    ASSUME TypeOK, NEW p \in DOMAIN Renames
    PROVE  /\ p \in Paths /\ Renames[p] \in Paths /\ Renames[p] # NoPath
           /\ index[p] # Absent /\ index[Renames[p]] = Absent
           /\ stages[Renames[p]] = {} /\ head[Renames[p]] = index[p]
           /\ stages[p] = {} => head[p] = Absent
<1> DEFINE before == [q \in Paths |-> IF stages[q] = {} THEN head[q] ELSE Absent]
<1>1. AreRenames(Renames, before, index)
  BY RenamesSound DEF Renames
<1>2. /\ p \in Paths /\ Renames[p] \in Paths
      /\ before[p] = Absent /\ index[p] # Absent
      /\ before[Renames[p]] # Absent /\ index[Renames[p]] = Absent
      /\ before[Renames[p]] = index[p]
  BY <1>1 DEF AreRenames
<1>3. \A q \in Paths : before[q] = IF stages[q] = {} THEN head[q] ELSE Absent
  OBVIOUS
<1> QED BY <1>2, <1>3, PathsHaveNames

\* A file under "Staged Changes" is of its path.
LEMMA StagedFiles ==
    ASSUME TypeOK, NEW p \in StagedPaths
    PROVE  /\ IsFile(StagedAt(p))
           /\ PathOf(StagedAt(p)) = p
           /\ StagedAt(p).after = Index
           /\ StagedAt(p).stats = NoStats
           /\ stages[p] = {} =>
                 StagedAt(p) = IF p \in DOMAIN Renames THEN Renamed(Renames[p], p, Revs(Commit, Index))
                               ELSE IF head[p] = Absent THEN Added(p, Revs(Commit, Index))
                               ELSE IF index[p] = Absent \/ work[p] = Absent
                                    THEN Deleted(p, Revs(Commit, Index))
                               ELSE UnchangedPath(p, Revs(Commit, Index))
<1> DEFINE f == StagedAt(p)
<1>1. p \in Paths /\ p # NoPath /\ IsFile(f)
  BY PathsHaveNames, EntriesBecomeFiles DEF StagedPaths, StagedAt
<1>2. CASE stages[p] # {}
  <2>1. f = StagedFile(ConflictEntry(p)) /\ stages[p] \in {{"base"}, {"ours", "theirs"}}
    BY <1>2 DEF StagedAt, StagedEntry, StagedPaths
  <2> HIDE DEF f
  <2>2. PathOf(f) = p /\ f.after = Index /\ f.stats = NoStats
    BY <1>1, <2>1, StagedConflictFile
  <2> QED BY <1>1, <1>2, <2>2 DEF f
<1>3. CASE stages[p] = {}
  <2>1. f = StagedFile(TrackedEntry(Renames, p)) /\ head[p] # index[p]
    BY <1>3 DEF StagedAt, StagedEntry, StagedPaths
  <2>2. p \in DOMAIN Renames => Renames[p] # NoPath
    BY RenamesOfIndex
  <2> HIDE DEF f
  <2>3. f = IF p \in DOMAIN Renames THEN Renamed(Renames[p], p, Revs(Commit, Index))
            ELSE IF head[p] = Absent THEN Added(p, Revs(Commit, Index))
            ELSE IF index[p] = Absent \/ work[p] = Absent THEN Deleted(p, Revs(Commit, Index))
            ELSE UnchangedPath(p, Revs(Commit, Index))
    BY <2>1, <2>2, StagedTrackedFile
  <2>4. PathOf(f) = p /\ f.after = Index /\ f.stats = NoStats
    BY <1>1, <2>3 DEF Renamed, Added, Deleted, UnchangedPath, File, PathOf, Revs
  <2> QED BY <1>1, <1>3, <2>3, <2>4 DEF f
<1> QED BY <1>2, <1>3

\* Where a listed file comes from.
LEMMA ListedFiles ==
    ASSUME IInv, fresh, NEW i \in DOMAIN list
    PROVE  \/ \E p \in UnstagedPaths : /\ list[i] = ApplyStats(UnstagedAt(p), GitLineStats)
                                       /\ PathOf(list[i]) = p
                                       /\ Heading(RevsOf(list[i])) = "Changes"
           \/ \E p \in StagedPaths : /\ list[i] = ApplyStats(StagedAt(p), GitLineStats)
                                     /\ PathOf(list[i]) = p
                                     /\ Heading(RevsOf(list[i])) = "Staged Changes"
<1> DEFINE stats == GitLineStats
<1>1. list = GetChangedFiles /\ TypeOK
  BY DEF IInv, ListInv
<1>2. PICK u, s : Listing(u, s)
  BY <1>1, ListingExists
<1>3. /\ Len(u) \in Nat /\ \A k \in 1..Len(u) : u[k] \in UnstagedPaths
      /\ Len(s) \in Nat /\ \A k \in 1..Len(s) : s[k] \in StagedPaths
      /\ i \in 1..(Len(u) + Len(s))
      /\ \A k \in 1..Len(u) : list[k] = ApplyStats(UnstagedAt(u[k]), stats)
      /\ \A k \in 1..Len(s) : list[Len(u) + k] = ApplyStats(StagedAt(s[k]), stats)
  BY <1>1, <1>2 DEF Listing, Lists
<1>4. Heading(RevsOf(list[i])) = IF list[i].after = Index THEN "Staged Changes" ELSE "Changes"
  BY DEF Heading, RevsOf, Revs
<1> HIDE DEF stats
<1>5. CASE i \in 1..Len(u)
  <2>1. u[i] \in UnstagedPaths /\ list[i] = ApplyStats(UnstagedAt(u[i]), stats)
    BY <1>3, <1>5
  <2>2. /\ IsFile(UnstagedAt(u[i])) /\ PathOf(UnstagedAt(u[i])) = u[i]
        /\ UnstagedAt(u[i]).after = Worktree
    BY <1>1, <2>1, UnstagedFiles
  <2>3. PathOf(list[i]) = u[i] /\ list[i].after = Worktree
    BY <2>1, <2>2, ApplyStatsKeeps
  <2> QED BY <1>4, <2>1, <2>3 DEF Worktree, Index, stats
<1>6. CASE i \notin 1..Len(u)
  <2> DEFINE k == i - Len(u)
  <2>1. k \in 1..Len(s) /\ Len(u) + k = i
    BY <1>3, <1>6
  <2> HIDE DEF k
  <2>2. s[k] \in StagedPaths /\ list[i] = ApplyStats(StagedAt(s[k]), stats)
    BY <1>3, <2>1
  <2>3. /\ IsFile(StagedAt(s[k])) /\ PathOf(StagedAt(s[k])) = s[k]
        /\ StagedAt(s[k]).after = Index
    BY <1>1, <2>2, StagedFiles
  <2>4. PathOf(list[i]) = s[k] /\ list[i].after = Index
    BY <2>2, <2>3, ApplyStatsKeeps
  <2> QED BY <1>4, <2>2, <2>4 DEF stats
<1> QED BY <1>5, <1>6

\* README: "Space stages or unstages the selected file or directory": what a
\* command moved is listed under the heading it left no more (toggle_stage).
THEOREM TogglesMove == Spec => []ToggleMovesTheEntry
<1>1. ASSUME IInv PROVE ToggleMovesTheEntry
  <2>1. SUFFICES ASSUME fresh, done # NoCommand, NEW i \in DOMAIN list,
                        IsPrefix(done.path, PathOf(list[i]))
                 PROVE  Heading(RevsOf(list[i])) # done.from
    BY DEF ToggleMovesTheEntry
  <2>2. /\ IsCommand(done)
        /\ \A p \in Under(done.path) :
              /\ stages[p] = {}
              /\ done.from = "Changes" => index[p] = work[p]
              /\ done.from = "Staged Changes" => index[p] = head[p]
    BY <1>1, <2>1 DEF IInv, DoneInv
  <2>3. CASE \E p \in UnstagedPaths : PathOf(list[i]) = p /\ Heading(RevsOf(list[i])) = "Changes"
    <3>1. PICK p \in UnstagedPaths : PathOf(list[i]) = p /\ Heading(RevsOf(list[i])) = "Changes"
      BY <2>3
    <3>2. p \in Under(done.path) /\ (stages[p] # {} \/ index[p] # work[p])
      BY <2>1, <3>1 DEF Under, UnstagedPaths
    <3> QED BY <2>2, <3>1, <3>2
  <2>4. CASE \E p \in StagedPaths : /\ PathOf(list[i]) = p
                                    /\ Heading(RevsOf(list[i])) = "Staged Changes"
    <3>1. PICK p \in StagedPaths : /\ PathOf(list[i]) = p
                                   /\ Heading(RevsOf(list[i])) = "Staged Changes"
      BY <2>4
    <3>2. p \in Under(done.path) /\ (stages[p] # {} \/ head[p] # index[p])
      BY <2>1, <3>1 DEF Under, StagedPaths
    <3> QED BY <2>2, <3>1, <3>2
  <2> QED BY <1>1, <2>1, <2>3, <2>4, ListedFiles
<1> QED BY <1>1, Invariant, PTL

-----------------------------------------------------------------------------
(* The two sides of a file *)

\* What is shown of what a file holds.
Text(bytes) == FromBytes(bytes, bytes \notin Binaries)

\* What is shown of a content: nothing of a missing one, and two that look the same are
\* the same, or binary.
LEMMA Texts2 ==
    /\ \A b \in Contents : b # Failed /\ (Text(b) = Absent <=> b = Absent)
    /\ \A a, b \in Contents : Text(a) = Text(b) => a = b \/ Text(b) = Binary
<1>1. Absent \notin Texts /\ Binary \notin Texts /\ Failed \notin Texts /\ Binaries \subseteq Texts
  BY GitAssumption
<1>2. Absent # Binary /\ Absent # Failed
  BY DEF Absent, Binary, Failed
<1>3. \A b : Text(b) = IF b = Absent THEN Absent ELSE IF b \notin Binaries THEN b ELSE Binary
  BY DEF Text, FromBytes
<1> QED BY <1>1, <1>2, <1>3 DEF Contents

\* A side that has no path, and the four kinds of sides that have one.
LEMMA ReadNothing ==
    ASSUME NEW f, NEW v, PathOfVersion(f, v) = NoPath
    PROVE  Read(f, v) = Absent
BY DEF Read, FromBytes, Absent, Failed

\* The modified side of an unstaged file is that of the working tree.
LEMMA ReadWorktree ==
    ASSUME TypeOK, NEW f, f.modified \in Paths, f.after = Worktree
    PROVE  Read(f, "modified") = Text(work[f.modified])
<1>1. f.modified # NoPath
  BY PathsHaveNames
<1>2. work[f.modified] \in Contents
  BY DEF TypeOK
<1>3. work[f.modified] # Failed
  BY <1>2, Texts2
<1> QED BY <1>1, <1>3 DEF Read, PathOfVersion, RevOf, Text

\* Its original side is that of the index.
LEMMA ReadIndexBefore ==
    ASSUME TypeOK, NEW f, f.original \in Paths, f.before = Index, f.after = Worktree,
           stages[f.original] = {}
    PROVE  Read(f, "original") = Text(index[f.original])
<1>1. f.original # NoPath
  BY PathsHaveNames
<1>2. index[f.original] \in Contents
  BY DEF TypeOK
<1>3. index[f.original] # Failed
  BY <1>2, Texts2
<1>4. Blob(Index, f.original) = index[f.original]
  BY DEF Blob, Commit, Parent, Index
<1> QED BY <1>1, <1>3, <1>4 DEF Read, PathOfVersion, RevOf, Text, Index, Worktree

\* The original side of a staged file is that of the commit.
LEMMA ReadCommit ==
    ASSUME TypeOK, commit = head, NEW f, f.original \in Paths, f.before = Commit, f.after = Index
    PROVE  Read(f, "original") = Text(head[f.original])
<1>1. f.original # NoPath
  BY PathsHaveNames
<1>2. head[f.original] \in Contents
  BY DEF TypeOK
<1>3. head[f.original] # Failed
  BY <1>2, Texts2
<1>4. BatchRead(Commit, f.original) = head[f.original]
  BY <1>3 DEF BatchRead, Blob, Commit, Parent, Index
<1> QED BY <1>1, <1>3, <1>4 DEF Read, PathOfVersion, RevOf, Text, Commit, Index, Worktree

\* Its modified side is that of the index.
LEMMA ReadIndexAfter ==
    ASSUME TypeOK, NEW f, f.modified \in Paths, f.before = Commit, f.after = Index,
           stages[f.modified] = {}
    PROVE  Read(f, "modified") = Text(index[f.modified])
<1>1. f.modified # NoPath
  BY PathsHaveNames
<1>2. index[f.modified] \in Contents
  BY DEF TypeOK
<1>3. index[f.modified] # Failed
  BY <1>2, Texts2
<1>4. BatchRead(Index, f.modified) = index[f.modified]
  BY <1>3 DEF BatchRead, Blob, Commit, Parent, Index
<1> QED BY <1>1, <1>3, <1>4 DEF Read, PathOfVersion, RevOf, Text, Commit, Index, Worktree

\* What an entry says of its sides.
ShowsItsSides(f) ==
    /\ Read(f, "original") = Absent <=> f.original = NoPath
    /\ Read(f, "modified") = Absent <=> f.modified = NoPath
    /\ Read(f, "original") = Read(f, "modified") =>
          ChangeOf(f) = "moved" \/ Read(f, "modified") = Binary

\* An unstaged entry shows two sides that differ, and says how.
LEMMA UnstagedShowsItsSides ==
    ASSUME TypeOK, NEW p \in UnstagedPaths, stages[p] = {}
    PROVE  ShowsItsSides(ApplyStats(UnstagedAt(p), GitLineStats))
<1> DEFINE f == ApplyStats(UnstagedAt(p), GitLineStats)
           g == UnstagedAt(p)
<1>1. /\ IsFile(g)
      /\ index[p] = Absent => g = SetChange(Added(p, Revs(Index, Worktree)), "untracked")
      /\ index[p] # Absent => g = IF work[p] = Absent THEN Deleted(p, Revs(Index, Worktree))
                                  ELSE UnchangedPath(p, Revs(Index, Worktree))
  BY UnstagedFiles
<1>2. /\ f.original = g.original /\ f.modified = g.modified
      /\ f.before = g.before /\ f.after = g.after
  BY <1>1, ApplyStatsKeeps
<1>3. p \in Paths /\ p # NoPath /\ index[p] # work[p] /\ index[p] \in Contents /\ work[p] \in Contents
  BY PathsHaveNames DEF UnstagedPaths, TypeOK
<1>4. /\ f.before = Index /\ f.after = Worktree
      /\ f.original = IF index[p] = Absent THEN NoPath ELSE p
      /\ f.modified = IF work[p] = Absent THEN NoPath ELSE p
  <2> HIDE DEF f, g
  <2>1. CASE index[p] = Absent
    BY <1>1, <1>2, <1>3, <2>1 DEF SetChange, Added, File, Revs
  <2>2. CASE index[p] # Absent
    BY <1>1, <1>2, <1>3, <2>2 DEF Deleted, UnchangedPath, File, Revs
  <2> QED BY <2>1, <2>2
<1> HIDE DEF f, g
<1>5. Read(f, "original") = Text(index[p])
  <2>1. CASE index[p] = Absent
    <3>1. PathOfVersion(f, "original") = NoPath
      BY <1>4, <2>1 DEF PathOfVersion
    <3>2. Read(f, "original") = Absent
      BY <3>1, ReadNothing
    <3> QED BY <1>3, <2>1, <3>2, Texts2
  <2>2. CASE index[p] # Absent
    BY <1>3, <1>4, <2>2, ReadIndexBefore
  <2> QED BY <2>1, <2>2
<1>6. Read(f, "modified") = Text(work[p])
  <2>1. CASE work[p] = Absent
    <3>1. PathOfVersion(f, "modified") = NoPath
      BY <1>4, <2>1 DEF PathOfVersion
    <3>2. Read(f, "modified") = Absent
      BY <3>1, ReadNothing
    <3> QED BY <1>3, <2>1, <3>2, Texts2
  <2>2. CASE work[p] # Absent
    BY <1>3, <1>4, <2>2, ReadWorktree
  <2> QED BY <2>1, <2>2
<1>7. ShowsItsSides(f)
  BY <1>3, <1>4, <1>5, <1>6, Texts2 DEF ShowsItsSides
<1> QED BY <1>7 DEF f

\* So does a staged one, of a file that the working tree still has.
LEMMA StagedShowsItsSides ==
    ASSUME TypeOK, commit = head, NEW p \in StagedPaths, stages[p] = {}, work[p] # Absent
    PROVE  ShowsItsSides(ApplyStats(StagedAt(p), GitLineStats))
<1> DEFINE f == ApplyStats(StagedAt(p), GitLineStats)
           g == StagedAt(p)
           r == Renames
<1>1. /\ IsFile(g)
      /\ g = IF p \in DOMAIN r THEN Renamed(r[p], p, Revs(Commit, Index))
             ELSE IF head[p] = Absent THEN Added(p, Revs(Commit, Index))
             ELSE IF index[p] = Absent \/ work[p] = Absent THEN Deleted(p, Revs(Commit, Index))
             ELSE UnchangedPath(p, Revs(Commit, Index))
  BY StagedFiles
<1>2. /\ f.original = g.original /\ f.modified = g.modified /\ ChangeOf(f) = ChangeOf(g)
      /\ f.before = g.before /\ f.after = g.after
  BY <1>1, ApplyStatsKeeps
<1>3. /\ p \in Paths /\ p # NoPath /\ head[p] # index[p]
      /\ head[p] \in Contents /\ index[p] \in Contents
  BY PathsHaveNames DEF StagedPaths, TypeOK
<1>4. ASSUME p \in DOMAIN r
      PROVE  /\ r[p] \in Paths /\ r[p] # NoPath /\ r[p] # p /\ index[p] # Absent
             /\ head[r[p]] = index[p]
  BY <1>4, RenamesOfIndex
<1>5. f.before = Commit /\ f.after = Index
  <2> HIDE DEF f, g, r
  <2> QED BY <1>1, <1>2 DEF Renamed, Added, Deleted, UnchangedPath, File, Revs
<1>6. CASE p \in DOMAIN r
  <2> HIDE DEF f, r
  <2>1. g = Renamed(r[p], p, Revs(Commit, Index))
    BY <1>1, <1>6
  <2> HIDE DEF g
  <2>2. f.original = r[p] /\ f.modified = p
    BY <1>2, <2>1 DEF Renamed, File
  <2>3. ChangeOf(g) = "moved"
    BY <1>3, <1>4, <1>6, <2>1 DEF Renamed, File, ChangeOf, ChangeOfPaths, OneSided, PreviousPath, NoPath
  <2>4. Read(f, "original") = Text(index[p]) /\ Read(f, "modified") = Text(index[p])
    BY <1>3, <1>4, <1>5, <1>6, <2>2, ReadCommit, ReadIndexAfter
  <2>5. ShowsItsSides(f)
    BY <1>2, <1>3, <1>4, <1>6, <2>2, <2>3, <2>4, Texts2 DEF ShowsItsSides
  <2> QED BY <2>5 DEF f
<1>7. CASE p \notin DOMAIN r
  <2>1. /\ f.original = IF head[p] = Absent THEN NoPath ELSE p
        /\ f.modified = IF index[p] = Absent THEN NoPath ELSE p
    <3> HIDE DEF f, r
    <3>1. g = IF head[p] = Absent THEN Added(p, Revs(Commit, Index))
              ELSE IF index[p] = Absent THEN Deleted(p, Revs(Commit, Index))
              ELSE UnchangedPath(p, Revs(Commit, Index))
      BY <1>1, <1>7
    <3> HIDE DEF g
    <3> QED BY <1>2, <1>3, <3>1 DEF Added, Deleted, UnchangedPath, File
  <2> HIDE DEF f, g, r
  <2>2. Read(f, "original") = Text(head[p])
    <3>1. CASE head[p] = Absent
      <4>1. PathOfVersion(f, "original") = NoPath
        BY <2>1, <3>1 DEF PathOfVersion
      <4>2. Read(f, "original") = Absent
        BY <4>1, ReadNothing
      <4> QED BY <1>3, <3>1, <4>2, Texts2
    <3>2. CASE head[p] # Absent
      BY <1>3, <1>5, <2>1, <3>2, ReadCommit
    <3> QED BY <3>1, <3>2
  <2>3. Read(f, "modified") = Text(index[p])
    <3>1. CASE index[p] = Absent
      <4>1. PathOfVersion(f, "modified") = NoPath
        BY <2>1, <3>1 DEF PathOfVersion
      <4>2. Read(f, "modified") = Absent
        BY <4>1, ReadNothing
      <4> QED BY <1>3, <3>1, <4>2, Texts2
    <3>2. CASE index[p] # Absent
      BY <1>3, <1>5, <2>1, <3>2, ReadIndexAfter
    <3> QED BY <3>1, <3>2
  <2>4. ShowsItsSides(f)
    BY <1>3, <2>1, <2>2, <2>3, Texts2 DEF ShowsItsSides
  <2> QED BY <2>4 DEF f
<1> QED BY <1>6, <1>7

\* README: "shows added, deleted, and untracked files as one-sided text": while
\* nothing changes the repository, opening a file finds a text exactly on the
\* sides that its entry says it has (get_changed_files, read_file).
THEOREM SidesAreShown == Spec => []EntriesShowTheirSides
<1>1. ASSUME IInv PROVE EntriesShowTheirSides
  <2>1. SUFFICES ASSUME fresh, NEW i \in DOMAIN list, stages[PathOf(list[i])] = {},
                        ~(list[i].after = Index /\ work[PathOf(list[i])] = Absent)
                 PROVE  ShowsItsSides(list[i])
    BY DEF EntriesShowTheirSides, ShowsItsSides
  <2>2. TypeOK /\ commit = head
    BY <1>1, <2>1 DEF IInv, ListInv
  <2>3. CASE \E p \in UnstagedPaths : /\ list[i] = ApplyStats(UnstagedAt(p), GitLineStats)
                                      /\ PathOf(list[i]) = p
    <3>1. PICK p \in UnstagedPaths : /\ list[i] = ApplyStats(UnstagedAt(p), GitLineStats)
                                     /\ PathOf(list[i]) = p
      BY <2>3
    <3> QED BY <2>1, <2>2, <3>1, UnstagedShowsItsSides
  <2>4. CASE \E p \in StagedPaths : /\ list[i] = ApplyStats(StagedAt(p), GitLineStats)
                                    /\ PathOf(list[i]) = p
                                    /\ Heading(RevsOf(list[i])) = "Staged Changes"
    <3>1. PICK p \in StagedPaths : /\ list[i] = ApplyStats(StagedAt(p), GitLineStats)
                                   /\ PathOf(list[i]) = p
                                   /\ Heading(RevsOf(list[i])) = "Staged Changes"
      BY <2>4
    <3>2. list[i].after = Index
      BY <3>1 DEF Heading, RevsOf, Revs
    <3>3. stages[p] = {} /\ work[p] # Absent
      BY <2>1, <3>1, <3>2
    <3> QED BY <2>2, <3>1, <3>3, StagedShowsItsSides
  <2> QED BY <1>1, <2>1, <2>3, <2>4, ListedFiles
<1> QED BY <1>1, Invariant, PTL

-----------------------------------------------------------------------------
(* The counts of lines *)

\* Records that come in parts, one part for each path.
InParts(seqs, keys) ==
    /\ \E T : seqs \in Seq(Seq(T))
    /\ \E K : keys \in Seq(K)
    /\ Len(seqs) = Len(keys)
    /\ \A i, j \in 1..Len(keys) : keys[i] = keys[j] => i = j
    /\ \A i \in 1..Len(keys) : /\ Len(seqs[i]) \in 0..2
                                /\ \A l \in 1..Len(seqs[i]) : seqs[i][l].path = keys[i]

\* The last of its part counts.
CountsLast(counted, seqs, keys) ==
    \A i \in 1..Len(keys) :
       /\ keys[i] \in DOMAIN counted <=> Len(seqs[i]) # 0
       /\ Len(seqs[i]) # 0 => counted[keys[i]] = seqs[i][Len(seqs[i])].stats

\* Counts that are read from parts without a path in common are those of the parts.
LEMMA LastOfPart ==
    ASSUME NEW seqs, NEW keys, InParts(seqs, keys)
    PROVE  CountsLast(ParseNumstat(FlattenSeq(seqs)), seqs, keys)
<1>0. SUFFICES ASSUME NEW i \in 1..Len(keys)
               PROVE  LET counted == ParseNumstat(FlattenSeq(seqs)) IN
                      /\ keys[i] \in DOMAIN counted <=> Len(seqs[i]) # 0
                      /\ Len(seqs[i]) # 0 => counted[keys[i]] = seqs[i][Len(seqs[i])].stats
  BY DEF CountsLast
<1> DEFINE r == FlattenSeq(seqs)
           n == Len(keys)
           counted == ParseNumstat(r)
<1>10. PICK T : seqs \in Seq(Seq(T))
  BY DEF InParts
<1>11. /\ Len(seqs) = n
       /\ \A k \in 1..n : Len(seqs[k]) \in 0..2 /\ \A l \in 1..Len(seqs[k]) : seqs[k][l].path = keys[k]
       /\ \A k, l \in 1..n : keys[k] = keys[l] => k = l
  BY DEF InParts
<1>1. r \in Seq(T) /\ \E of, nth : Joins(r, of, nth, seqs, Len(seqs))
  BY <1>10, FlattenSeqJoins
<1>2. PICK of, nth : Joins(r, of, nth, seqs, n)
  BY <1>1, <1>11
<1> HIDE DEF r
<1>3. /\ \A x \in 1..Len(r) : /\ of[x] \in 1..n
                              /\ nth[x] \in 1..Len(seqs[of[x]])
                              /\ r[x] = seqs[of[x]][nth[x]]
      /\ \A x \in 1..Len(r) : nth[x] < Len(seqs[of[x]]) =>
            /\ x + 1 \in 1..Len(r)
            /\ of[x + 1] = of[x]
            /\ nth[x + 1] = nth[x] + 1
      /\ \A x, y \in 1..Len(r) : of[x] = of[y] /\ nth[x] = nth[y] => x = y
      /\ \A k \in 1..n : \A l \in 1..Len(seqs[k]) :
            \E x \in 1..Len(r) : of[x] = k /\ nth[x] = l
  BY <1>2 DEF Joins
<1> DEFINE size(k) == Len(seqs[k])
<1>4. /\ \A x \in 1..Len(r) : of[x] \in 1..n /\ nth[x] \in 1..size(of[x])
                              /\ r[x] = seqs[of[x]][nth[x]]
      /\ \A x \in 1..Len(r) : nth[x] < size(of[x]) =>
             x + 1 \in 1..Len(r) /\ of[x + 1] = of[x] /\ nth[x + 1] = nth[x] + 1
      /\ \A x, y \in 1..Len(r) : of[x] = of[y] /\ nth[x] = nth[y] => x = y
      /\ \A k \in 1..n : \A l \in 1..size(k) : \E x \in 1..Len(r) : of[x] = k /\ nth[x] = l
      /\ \A k \in 1..n : size(k) \in 0..2 /\ \A l \in 1..size(k) : seqs[k][l].path = keys[k]
      /\ \A k, l \in 1..n : keys[k] = keys[l] => k = l
      /\ i \in 1..n
  BY <1>0, <1>3, <1>11
<1> HIDE DEF size, n
<1>5. \A x \in 1..Len(r) : r[x].path = keys[i] <=> of[x] = i
  <2>1. TAKE x \in 1..Len(r)
  <2>2. of[x] \in 1..n /\ nth[x] \in 1..size(of[x]) /\ r[x] = seqs[of[x]][nth[x]]
    BY <1>4
  <2>4. \A k \in 1..n : \A l \in 1..size(k) : seqs[k][l].path = keys[k]
    BY <1>4
  <2>5. seqs[of[x]][nth[x]].path = keys[of[x]]
    BY <2>2, <2>4
  <2>3. r[x].path = keys[of[x]]
    BY <2>2, <2>5
  <2> QED BY <1>4, <2>2, <2>3
<1>6. DOMAIN r = 1..Len(r) /\ Len(r) \in Nat
  BY <1>1
<1>7. /\ DOMAIN counted = {r[x].path : x \in 1..Len(r)}
      /\ \A p \in DOMAIN counted : counted[p] = r[LastOf(r, p)].stats
  BY <1>6 DEF ParseNumstat
<1> HIDE DEF counted
<1>8. ASSUME size(i) = 0 PROVE keys[i] \notin DOMAIN counted
  <2>1. \A x \in 1..Len(r) : of[x] # i
    <3>1. \A x \in 1..Len(r) : nth[x] \in 1..size(of[x])
      BY <1>4
    <3> QED BY <1>8, <3>1
  <2> QED BY <1>5, <1>7, <2>1
<1>9. ASSUME size(i) # 0
      PROVE  keys[i] \in DOMAIN counted /\ counted[keys[i]] = seqs[i][size(i)].stats
  <2>1. size(i) \in 1..2
    <3>1. size(i) \in 0..2
      BY <1>4
    <3> QED BY <1>9, <3>1
  <2>2. PICK y \in 1..Len(r) : of[y] = i /\ nth[y] = size(i)
    <3>1. size(i) \in 1..size(i)
      BY <2>1
    <3> QED BY <1>4, <3>1
  <2>3. \A x \in 1..Len(r) : of[x] = i => x <= y
    <3>1. TAKE x \in 1..Len(r)
    <3>2. HAVE of[x] = i
    <3>3. nth[x] \in 1..size(i)
      BY <1>4, <3>2
    <3>4. CASE nth[x] = size(i)
      <4>1. x = y
        BY <1>4, <2>2, <3>2, <3>4
      <4> QED BY <1>6, <4>1
    <3>5. CASE nth[x] # size(i)
      <4>1. nth[x] = 1 /\ size(i) = 2
        BY <2>1, <3>3, <3>5
      <4>2. nth[x] < size(of[x])
        BY <3>2, <4>1
      <4>3. x + 1 \in 1..Len(r) /\ of[x + 1] = i /\ nth[x + 1] = 2
        <5>1. x + 1 \in 1..Len(r) /\ of[x + 1] = of[x] /\ nth[x + 1] = nth[x] + 1
          BY <1>4, <4>2
        <5> QED BY <3>2, <4>1, <5>1
      <4>4. x + 1 = y
        BY <1>4, <2>2, <4>1, <4>3
      <4> QED BY <1>6, <4>4
    <3> QED BY <3>4, <3>5
  <2>4. r[y].path = keys[i]
    BY <1>5, <2>2
  <2>5. LastOf(r, keys[i]) = y
    <3> DEFINE Q(x) == /\ r[x].path = keys[i]
                       /\ \A z \in DOMAIN r : r[z].path = keys[i] => z <= x
    <3>1. y \in DOMAIN r /\ Q(y)
      BY <1>5, <1>6, <2>3, <2>4
    <3>2. \A x \in DOMAIN r : Q(x) => x = y
      <4>1. TAKE x \in DOMAIN r
      <4>2. HAVE Q(x)
      <4>3. x <= y /\ y <= x
        BY <3>1, <4>2
      <4> QED BY <1>6, <3>1, <4>3
    <3>3. LastOf(r, keys[i]) = CHOOSE x \in DOMAIN r : Q(x)
      BY DEF LastOf
    <3> HIDE DEF Q
    <3> QED BY <3>1, <3>2, <3>3
  <2>6. keys[i] \in DOMAIN counted
    BY <1>7, <2>2, <2>4
  <2>7. counted[keys[i]] = r[y].stats
    BY <1>7, <2>5, <2>6
  <2>8. r[y] = seqs[i][size(i)]
    BY <1>4, <2>2
  <2> QED BY <2>6, <2>7, <2>8
<1> QED BY <1>8, <1>9 DEF counted, r, size

\* The same of a part for each path, in the order of the paths.
LEMMA CountsOfParts ==
    ASSUME NEW T, NEW part \in [Paths -> Seq(T)],
           \A p \in Paths : /\ Len(part[p]) \in 0..2
                            /\ \A l \in 1..Len(part[p]) : part[p][l].path = p
    PROVE  LET counted == ParseNumstat(FlattenSeq([i \in DOMAIN PathOrder |-> part[PathOrder[i]]])) IN
           \A p \in Paths : /\ p \in DOMAIN counted <=> Len(part[p]) # 0
                            /\ Len(part[p]) # 0 => counted[p] = part[p][Len(part[p])].stats
<1> DEFINE n == Len(PathOrder)
           seqs == [i \in DOMAIN PathOrder |-> part[PathOrder[i]]]
           counted == ParseNumstat(FlattenSeq(seqs))
<1>1. /\ PathOrder \in Seq(Paths) /\ DOMAIN PathOrder = 1..n /\ n \in Nat
      /\ \A i, j \in 1..n : PathOrder[i] = PathOrder[j] => i = j
      /\ \A i \in 1..n : PathOrder[i] \in Paths
  BY GitAssumption DEF IsInjective, Paths, Range
<1>2. seqs \in Seq(Seq(T)) /\ Len(seqs) = n /\ \A i \in 1..n : seqs[i] = part[PathOrder[i]]
  BY <1>1
<1> HIDE DEF seqs
<1>3. InParts(seqs, PathOrder)
  <2>1. \A i \in 1..n : /\ Len(seqs[i]) \in 0..2
                        /\ \A l \in 1..Len(seqs[i]) : seqs[i][l].path = PathOrder[i]
    BY <1>1, <1>2
  <2> QED BY <1>1, <1>2, <2>1 DEF InParts
<1>6. CountsLast(counted, seqs, PathOrder)
  BY <1>3, LastOfPart
<1>4. \A i \in 1..n : /\ PathOrder[i] \in DOMAIN counted <=> Len(seqs[i]) # 0
                      /\ Len(seqs[i]) # 0 => counted[PathOrder[i]] = seqs[i][Len(seqs[i])].stats
  BY <1>6 DEF CountsLast
<1> HIDE DEF counted
<1>5. ASSUME NEW p \in Paths
      PROVE  /\ p \in DOMAIN counted <=> Len(part[p]) # 0
             /\ Len(part[p]) # 0 => counted[p] = part[p][Len(part[p])].stats
  <2>1. PICK i \in 1..n : PathOrder[i] = p
    BY <1>1 DEF Paths, Range
  <2>2. seqs[i] = part[p]
    BY <1>2, <2>1
  <2> QED BY <1>4, <2>1, <2>2
<1> QED BY <1>5 DEF counted, seqs

\* Sequences of one and of two.
LEMMA InARow ==
    ASSUME NEW T
    PROVE  /\ \A x \in T : /\ <<x>> \in Seq(T) /\ Len(<<x>>) = 1 /\ <<x>>[1] = x
                          /\ <<x>> \o <<>> = <<x>>
           /\ \A y, z \in Seq(T) : Len(y) = 1 /\ Len(z) = 1 =>
                 /\ y \o z \in Seq(T) /\ Len(y \o z) = 2
                 /\ (y \o z)[1] = y[1] /\ (y \o z)[2] = z[1]
<1>3. \A y, z \in Seq(T) : \A k \in 1..(Len(y) + Len(z)) :
         (y \o z)[k] = IF k <= Len(y) THEN y[k] ELSE z[k - Len(y)]
  OBVIOUS
<1>1. ASSUME NEW y \in Seq(T), NEW z \in Seq(T), Len(y) = 1, Len(z) = 1
      PROVE  /\ y \o z \in Seq(T) /\ Len(y \o z) = 2
             /\ (y \o z)[1] = y[1] /\ (y \o z)[2] = z[1]
  <2>1. y \o z \in Seq(T) /\ Len(y \o z) = 2
    <3>1. \A v, w \in Seq(T) : v \o w \in Seq(T) /\ Len(v \o w) = Len(v) + Len(w)
      OBVIOUS
    <3>2. y \o z \in Seq(T) /\ Len(y \o z) = Len(y) + Len(z)
      BY <1>1, <3>1, Zenon
    <3> QED BY <1>1, <3>2
  <2>2. \A k \in 1..2 : (y \o z)[k] = IF k <= 1 THEN y[k] ELSE z[k - 1]
    <3>1. \A k \in 1..(Len(y) + Len(z)) :
             (y \o z)[k] = IF k <= Len(y) THEN y[k] ELSE z[k - Len(y)]
      BY <1>3
    <3>2. Len(y) + Len(z) = 2
      BY <1>1
    <3> QED BY <1>1, <3>1, <3>2
  <2>3. 1 \in 1..2 /\ 2 \in 1..2 /\ 1 <= 1 /\ ~(2 <= 1) /\ 2 - 1 = 1
    OBVIOUS
  <2> QED BY <2>1, <2>2, <2>3
<1>2. ASSUME NEW x \in T
      PROVE  /\ <<x>> \in Seq(T) /\ Len(<<x>>) = 1 /\ <<x>>[1] = x
             /\ <<x>> \o <<>> = <<x>>
  OBVIOUS
<1> QED BY <1>1, <1>2

\* The counts of the comparison of the index with the working tree.
LEMMA UnstagedCounts ==
    ASSUME NEW p \in Paths
    PROVE  LET counted == CountsOf(Worktree) IN
           /\ p \in DOMAIN counted <=>
                 \/ stages[p] # {}
                 \/ /\ index[p] \notin {Absent, work[p]}
                    /\ index[p] \notin Binaries /\ work[p] \notin Binaries
           /\ stages[p] # {} =>
                 counted[p] = IF /\ "ours" \in stages[p] /\ head[p] # work[p]
                                 /\ head[p] \notin Binaries /\ work[p] \notin Binaries
                              THEN Counts[<<head[p], work[p]>>] ELSE NoStats
           /\ stages[p] = {} /\ p \in DOMAIN counted => counted[p] = Counts[<<index[p], work[p]>>]
<1> DEFINE conflict(q) == [path |-> q, stats |-> NoStats]
           ours(q) == [path |-> q, stats |-> Counts[<<head[q], work[q]>>]]
           changed(q) == [path |-> q, stats |-> Counts[<<index[q], work[q]>>]]
           T == {conflict(q) : q \in Paths} \cup {ours(q) : q \in Paths} \cup {changed(q) : q \in Paths}
           differs(q) == "ours" \in stages[q] /\ head[q] # work[q]
           part(q) == IF stages[q] # {}
                      THEN << conflict(q) >>
                           \o IF differs(q) THEN Numstat(head[q], work[q], q) ELSE <<>>
                      ELSE IF index[q] \in {Absent, work[q]} THEN <<>>
                           ELSE Numstat(index[q], work[q], q)
           parts == [q \in Paths |-> part(q)]
<1>4. \A q \in Paths : conflict(q) \in T /\ ours(q) \in T /\ changed(q) \in T
  OBVIOUS
<1>5. \A q : conflict(q).path = q /\ ours(q).path = q /\ changed(q).path = q
             /\ conflict(q).stats = NoStats /\ ours(q).stats = Counts[<<head[q], work[q]>>]
             /\ changed(q).stats = Counts[<<index[q], work[q]>>]
  OBVIOUS
<1>6. \A q : part(q) =
         IF stages[q] # {}
         THEN << conflict(q) >> \o IF differs(q) THEN Numstat(head[q], work[q], q) ELSE <<>>
         ELSE IF index[q] \in {Absent, work[q]} THEN <<>> ELSE Numstat(index[q], work[q], q)
  OBVIOUS
<1>7. \A q \in Paths :
         /\ LET a == Numstat(head[q], work[q], q) IN
            /\ a \in Seq(T)
            /\ Len(a) = IF head[q] \in Binaries \/ work[q] \in Binaries THEN 0 ELSE 1
            /\ \A l \in 1..Len(a) : a[l] = ours(q)
         /\ LET b == Numstat(index[q], work[q], q) IN
            /\ b \in Seq(T)
            /\ Len(b) = IF index[q] \in Binaries \/ work[q] \in Binaries THEN 0 ELSE 1
            /\ \A l \in 1..Len(b) : b[l] = changed(q)
  <2>1. TAKE q \in Paths
  <2>2. /\ Numstat(head[q], work[q], q)
              = IF head[q] \in Binaries \/ work[q] \in Binaries THEN <<>> ELSE <<ours(q)>>
        /\ Numstat(index[q], work[q], q)
              = IF index[q] \in Binaries \/ work[q] \in Binaries THEN <<>> ELSE <<changed(q)>>
    BY DEF Numstat
  <2>3. /\ <<ours(q)>> \in Seq(T) /\ Len(<<ours(q)>>) = 1 /\ <<ours(q)>>[1] = ours(q)
        /\ <<changed(q)>> \in Seq(T) /\ Len(<<changed(q)>>) = 1 /\ <<changed(q)>>[1] = changed(q)
    <3> HIDE DEF T, ours, changed
    <3> QED BY <1>4, <2>1, InARow
  <2>4. <<>> \in Seq(T) /\ Len(<<>>) = 0
    <3> HIDE DEF T
    <3> QED OBVIOUS
  <2> HIDE DEF T, ours, changed
  <2> QED BY <2>2, <2>3, <2>4
<1> HIDE DEF conflict, ours, changed, T, part
<1>8. \A q \in Paths :
         /\ part(q) \in Seq(T) /\ Len(part(q)) \in 0..2
         /\ \A l \in 1..Len(part(q)) : part(q)[l].path = q
         /\ stages[q] # {} =>
               /\ Len(part(q)) # 0
               /\ part(q)[Len(part(q))].stats =
                     IF differs(q) /\ head[q] \notin Binaries /\ work[q] \notin Binaries
                     THEN Counts[<<head[q], work[q]>>] ELSE NoStats
         /\ stages[q] = {} =>
               /\ Len(part(q)) # 0 <=> /\ index[q] \notin {Absent, work[q]}
                                       /\ index[q] \notin Binaries /\ work[q] \notin Binaries
               /\ Len(part(q)) # 0 => part(q)[Len(part(q))].stats = Counts[<<index[q], work[q]>>]
  <2>1. TAKE q \in Paths
  <2> DEFINE a == Numstat(head[q], work[q], q)
             b == Numstat(index[q], work[q], q)
  <2>2. /\ a \in Seq(T)
        /\ Len(a) = IF head[q] \in Binaries \/ work[q] \in Binaries THEN 0 ELSE 1
        /\ \A l \in 1..Len(a) : a[l] = ours(q)
        /\ b \in Seq(T)
        /\ Len(b) = IF index[q] \in Binaries \/ work[q] \in Binaries THEN 0 ELSE 1
        /\ \A l \in 1..Len(b) : b[l] = changed(q)
    BY <1>7
  <2>3. \A x \in T : /\ <<x>> \in Seq(T) /\ Len(<<x>>) = 1 /\ <<x>>[1] = x
                    /\ <<x>> \o <<>> = <<x>>
    BY InARow
  <2>9. \A x \in T, z \in Seq(T) : Len(z) = 1 =>
           /\ <<x>> \o z \in Seq(T) /\ Len(<<x>> \o z) = 2
           /\ (<<x>> \o z)[1] = x /\ (<<x>> \o z)[2] = z[1]
    <3>1. \A y, z \in Seq(T) : Len(y) = 1 /\ Len(z) = 1 =>
             /\ y \o z \in Seq(T) /\ Len(y \o z) = 2
             /\ (y \o z)[1] = y[1] /\ (y \o z)[2] = z[1]
      BY InARow
    <3> QED BY <2>3, <3>1
  <2>4. conflict(q) \in T /\ ours(q) \in T /\ changed(q) \in T
    BY <1>4
  <2>5. part(q) = IF stages[q] # {}
                  THEN << conflict(q) >> \o IF differs(q) THEN a ELSE <<>>
                  ELSE IF index[q] \in {Absent, work[q]} THEN <<>> ELSE b
    BY <1>6
  <2> HIDE DEF a, b
  <2>6. CASE stages[q] # {} /\ differs(q) /\ Len(a) = 1
    <3>1. part(q) = << conflict(q) >> \o a
      BY <2>5, <2>6
    <3>2. /\ part(q) \in Seq(T) /\ Len(part(q)) = 2
          /\ part(q)[1] = conflict(q) /\ part(q)[2] = ours(q)
      BY <2>2, <2>4, <2>6, <2>9, <3>1
    <3>3. \A l \in 1..2 : part(q)[l].path = q
      <4>1. \A l \in 1..2 : l = 1 \/ l = 2
        OBVIOUS
      <4> QED BY <1>5, <3>2, <4>1
    <3>4. part(q)[2].stats = Counts[<<head[q], work[q]>>]
      BY <1>5, <3>2
    <3>5. head[q] \notin Binaries /\ work[q] \notin Binaries
      BY <2>2, <2>6
    <3> QED BY <2>6, <3>2, <3>3, <3>4, <3>5
  <2>7. CASE stages[q] # {} /\ ~(differs(q) /\ Len(a) = 1)
    <3>1. differs(q) => a = <<>>
      BY <2>2, <2>7
    <3>2. part(q) = << conflict(q) >>
      BY <2>3, <2>4, <2>5, <2>7, <3>1
    <3>3. part(q) \in Seq(T) /\ Len(part(q)) = 1 /\ part(q)[1] = conflict(q)
      BY <2>3, <2>4, <3>2
    <3> QED BY <1>5, <2>2, <2>7, <3>3
  <2>8. CASE stages[q] = {}
    <3>1. CASE index[q] \in {Absent, work[q]}
      <4>1. part(q) = <<>>
        BY <2>5, <2>8, <3>1
      <4> QED BY <2>8, <3>1, <4>1
    <3>2. CASE index[q] \notin {Absent, work[q]}
      <4>1. part(q) = b
        BY <2>5, <2>8, <3>2
      <4> QED BY <1>5, <2>2, <2>8, <3>2, <4>1
    <3> QED BY <3>1, <3>2
  <2> QED BY <2>6, <2>7, <2>8
<1>9. parts \in [Paths -> Seq(T)] /\ \A q \in Paths : parts[q] = part(q)
  BY <1>8
<1>10. CountsOf(Worktree) = ParseNumstat(FlattenSeq([i \in DOMAIN PathOrder |-> parts[PathOrder[i]]]))
  <2>1. \A i \in DOMAIN PathOrder : PathOrder[i] \in Paths
    BY DEF Paths, Range
  <2>2. [i \in DOMAIN PathOrder |-> parts[PathOrder[i]]] = [i \in DOMAIN PathOrder |-> part(PathOrder[i])]
    BY <1>9, <2>1
  <2>3. UnstagedNumstat = FlattenSeq([i \in DOMAIN PathOrder |-> part(PathOrder[i])])
    BY DEF UnstagedNumstat, part, conflict, differs
  <2> QED BY <2>2, <2>3 DEF CountsOf
<1> HIDE DEF parts, differs
<1> DEFINE counted == CountsOf(Worktree)
<1>11. \A q \in Paths : /\ Len(parts[q]) \in 0..2
                        /\ \A l \in 1..Len(parts[q]) : parts[q][l].path = q
  <2>1. TAKE q \in Paths
  <2>2. parts[q] = part(q)
    BY <1>9
  <2>3. Len(part(q)) \in 0..2 /\ \A l \in 1..Len(part(q)) : part(q)[l].path = q
    BY <1>8
  <2> QED BY <2>2, <2>3
<1>12. \A q \in Paths : /\ q \in DOMAIN counted <=> Len(parts[q]) # 0
                        /\ Len(parts[q]) # 0 => counted[q] = parts[q][Len(parts[q])].stats
  BY <1>9, <1>10, <1>11, CountsOfParts
<1> HIDE DEF counted
<1>13. /\ p \in DOMAIN counted <=> Len(part(p)) # 0
       /\ Len(part(p)) # 0 => counted[p] = part(p)[Len(part(p))].stats
  BY <1>9, <1>12
<1>14. /\ p \in DOMAIN counted <=>
             \/ stages[p] # {}
             \/ /\ index[p] \notin {Absent, work[p]}
                /\ index[p] \notin Binaries /\ work[p] \notin Binaries
       /\ stages[p] # {} =>
             counted[p] = IF /\ "ours" \in stages[p] /\ head[p] # work[p]
                             /\ head[p] \notin Binaries /\ work[p] \notin Binaries
                          THEN Counts[<<head[p], work[p]>>] ELSE NoStats
       /\ stages[p] = {} /\ p \in DOMAIN counted => counted[p] = Counts[<<index[p], work[p]>>]
  BY <1>8, <1>13 DEF differs
<1> QED BY <1>14 DEF counted

\* Those of the comparison of HEAD with the index.
Original(renames, p) == IF p \in DOMAIN renames THEN renames[p] ELSE p

\* A staged path is counted unless one of its sides is binary.
LEMMA StagedCounts ==
    ASSUME NEW p \in StagedPaths, stages[p] = {}
    PROVE  LET counted == CountsOf(Index)
               before == head[Original(Renames, p)]
           IN  /\ p \in DOMAIN counted <=> before \notin Binaries /\ index[p] \notin Binaries
               /\ p \in DOMAIN counted => counted[p] = Counts[<<before, index[p]>>]
<1> DEFINE r == Renames
           before(q) == head[Original(r, q)]
           conflict(q) == [path |-> q, stats |-> NoStats]
           changed(q) == [path |-> q, stats |-> Counts[<<before(q), index[q]>>]]
           T == {conflict(q) : q \in Paths} \cup {changed(q) : q \in Paths}
           isOriginal(q) == \E o \in DOMAIN r : r[o] = q
           part(q) == IF stages[q] # {} THEN << conflict(q) >>
                      ELSE IF q \in DOMAIN r THEN Numstat(head[r[q]], index[q], q)
                      ELSE IF head[q] = index[q] \/ isOriginal(q) THEN <<>>
                      ELSE Numstat(head[q], index[q], q)
           parts == [q \in Paths |-> part(q)]
<1>1. \A q \in Paths : conflict(q) \in T /\ changed(q) \in T
  OBVIOUS
<1>2. \A q : conflict(q).path = q /\ changed(q).path = q
             /\ changed(q).stats = Counts[<<before(q), index[q]>>]
  OBVIOUS
<1>3. \A q : LET some == before(q) \in Binaries \/ index[q] \in Binaries IN
         part(q) = IF stages[q] # {} THEN << conflict(q) >>
                   ELSE IF q \notin DOMAIN r /\ (head[q] = index[q] \/ isOriginal(q)) THEN <<>>
                   ELSE IF some THEN <<>> ELSE << changed(q) >>
  BY DEF Numstat, Original
<1>4. StagedNumstat = FlattenSeq([i \in DOMAIN PathOrder |-> part(PathOrder[i])])
  BY DEF StagedNumstat, part, conflict, isOriginal
<1>5. p \in Paths /\ head[p] # index[p] /\ ~isOriginal(p)
  BY DEF StagedPaths
<1> HIDE DEF conflict, changed, T, part, isOriginal, r, before
<1>6. \A q \in Paths :
         /\ part(q) \in Seq(T) /\ Len(part(q)) \in 0..1
         /\ \A l \in 1..Len(part(q)) : part(q)[l].path = q
         /\ stages[q] = {} /\ Len(part(q)) # 0 =>
               part(q)[Len(part(q))].stats = Counts[<<before(q), index[q]>>]
  <2>1. TAKE q \in Paths
  <2>2. /\ <<conflict(q)>> \in Seq(T) /\ Len(<<conflict(q)>>) = 1 /\ <<conflict(q)>>[1] = conflict(q)
        /\ <<changed(q)>> \in Seq(T) /\ Len(<<changed(q)>>) = 1 /\ <<changed(q)>>[1] = changed(q)
    BY <1>1, InARow
  <2>3. <<>> \in Seq(T) /\ Len(<<>>) = 0
    OBVIOUS
  <2>4. \A l \in 1..1 : l = 1
    OBVIOUS
  <2>5. CASE part(q) = <<>>
    BY <2>3, <2>5
  <2>6. CASE stages[q] # {} /\ part(q) = <<conflict(q)>>
    BY <1>2, <2>2, <2>4, <2>6
  <2>7. CASE part(q) = <<changed(q)>>
    BY <1>2, <2>2, <2>4, <2>7
  <2> QED BY <1>3, <2>5, <2>6, <2>7
<1>7. parts \in [Paths -> Seq(T)] /\ \A q \in Paths : parts[q] = part(q)
  BY <1>6
<1>8. CountsOf(Index) = ParseNumstat(FlattenSeq([i \in DOMAIN PathOrder |-> parts[PathOrder[i]]]))
  <2>1. \A i \in DOMAIN PathOrder : PathOrder[i] \in Paths
    BY DEF Paths, Range
  <2>2. [i \in DOMAIN PathOrder |-> parts[PathOrder[i]]] = [i \in DOMAIN PathOrder |-> part(PathOrder[i])]
    BY <1>7, <2>1
  <2> QED BY <1>4, <2>2 DEF CountsOf, Index, Worktree
<1> HIDE DEF parts
<1> DEFINE counted == CountsOf(Index)
<1>9. \A q \in Paths : /\ Len(parts[q]) \in 0..2
                       /\ \A l \in 1..Len(parts[q]) : parts[q][l].path = q
  <2>1. TAKE q \in Paths
  <2>2. parts[q] = part(q)
    BY <1>7
  <2>3. Len(part(q)) \in 0..1 /\ \A l \in 1..Len(part(q)) : part(q)[l].path = q
    BY <1>6
  <2> QED BY <2>2, <2>3
<1>10. \A q \in Paths : /\ q \in DOMAIN counted <=> Len(parts[q]) # 0
                        /\ Len(parts[q]) # 0 => counted[q] = parts[q][Len(parts[q])].stats
  BY <1>7, <1>8, <1>9, CountsOfParts
<1> HIDE DEF counted
<1>11. /\ p \in DOMAIN counted <=> Len(part(p)) # 0
       /\ Len(part(p)) # 0 => counted[p] = part(p)[Len(part(p))].stats
  BY <1>5, <1>7, <1>10
<1>12. part(p) = IF before(p) \in Binaries \/ index[p] \in Binaries THEN <<>> ELSE << changed(p) >>
  BY <1>3, <1>5
<1>13. Len(part(p)) # 0 <=> before(p) \notin Binaries /\ index[p] \notin Binaries
  <2>1. Len(<<changed(p)>>) = 1 /\ Len(<<>>) = 0
    BY <1>1, <1>5, InARow
  <2> QED BY <1>12, <2>1
<1>14. /\ p \in DOMAIN counted <=> before(p) \notin Binaries /\ index[p] \notin Binaries
       /\ p \in DOMAIN counted => counted[p] = Counts[<<before(p), index[p]>>]
  BY <1>5, <1>6, <1>11, <1>13
<1> QED BY <1>14 DEF counted, before, r

\* So a listed file has the counts of its two sides.
LEMMA StatsOfUnstaged ==
    ASSUME TypeOK, NEW p \in UnstagedPaths, ~Unmarked(p)
    PROVE  ApplyStats(UnstagedAt(p), GitLineStats).stats
              = IF stages[p] # {}
                THEN IF "ours" \in stages[p] THEN Lines1(head[p], work[p]) ELSE NoStats
                ELSE Lines1(index[p], work[p])
<1> DEFINE f == UnstagedAt(p)
           g == ApplyStats(f, GitLineStats)
           counted == CountsOf(Worktree)
<1>1. p \in Paths /\ head[p] \in Contents /\ index[p] \in Contents /\ work[p] \in Contents
  BY DEF UnstagedPaths, TypeOK
<1>2. /\ p \in DOMAIN counted <=>
            \/ stages[p] # {}
            \/ /\ index[p] \notin {Absent, work[p]}
               /\ index[p] \notin Binaries /\ work[p] \notin Binaries
      /\ stages[p] # {} =>
            counted[p] = IF /\ "ours" \in stages[p] /\ head[p] # work[p]
                            /\ head[p] \notin Binaries /\ work[p] \notin Binaries
                         THEN Counts[<<head[p], work[p]>>] ELSE NoStats
      /\ stages[p] = {} /\ p \in DOMAIN counted => counted[p] = Counts[<<index[p], work[p]>>]
  BY <1>1, UnstagedCounts
<1>3. /\ IsFile(f) /\ PathOf(f) = p /\ f.after = Worktree /\ f.stats = NoStats
      /\ stages[p] = {} /\ index[p] = Absent =>
            f = SetChange(Added(p, Revs(Index, Worktree)), "untracked")
      /\ stages[p] = {} /\ index[p] # Absent =>
            f = IF work[p] = Absent THEN Deleted(p, Revs(Index, Worktree))
                ELSE UnchangedPath(p, Revs(Index, Worktree))
  BY UnstagedFiles
<1>4. \A a, b : Lines1(a, b) = IF a \in Binaries \/ b \in Binaries THEN NoStats ELSE Counts[<<a, b>>]
  BY DEF Lines1
<1>5. /\ \A a \in Contents : Counts[<<a, a>>] = NoStats
      /\ Absent \notin Binaries
  BY GitAssumption DEF Contents
<1>6. GitLineStats[RevOf(f, "modified")] = counted
  BY <1>3 DEF GitLineStats, RevOf
<1> HIDE DEF f, counted
<1>7. g = IF p \in DOMAIN counted THEN SetStats(f, counted[p])
          ELSE IF ChangeOf(f) = "untracked" THEN SetStats(f, CountUntrackedLines(f)) ELSE f
  BY <1>3, <1>6 DEF ApplyStats
<1> HIDE DEF g
<1>8. g.stats = IF p \in DOMAIN counted THEN counted[p]
                ELSE IF ChangeOf(f) = "untracked" THEN CountUntrackedLines(f) ELSE NoStats
  BY <1>3, <1>7, SetStatsKeeps
<1>9. CASE stages[p] # {}
  BY <1>1, <1>2, <1>4, <1>5, <1>8, <1>9 DEF g, f
<1>10. CASE stages[p] = {} /\ index[p] = Absent
  <2>1. ChangeOf(f) = "untracked"
    <3>1. f = SetChange(Added(p, Revs(Index, Worktree)), "untracked")
      BY <1>3, <1>10
    <3> QED BY <3>1 DEF SetChange, Added, File, ChangeOf, FromPaths
  <2>2. CountUntrackedLines(f) = IF work[p] \in Binaries THEN NoStats ELSE Counts[<<Absent, work[p]>>]
    BY <1>3 DEF CountUntrackedLines
  <2>3. p \notin DOMAIN counted
    BY <1>2, <1>10
  <2> QED BY <1>4, <1>5, <1>8, <1>10, <2>1, <2>2, <2>3 DEF g, f
<1>11. CASE stages[p] = {} /\ index[p] # Absent
  <2>1. index[p] # work[p]
    BY <1>11 DEF UnstagedPaths
  <2>2. ChangeOf(f) # "untracked"
    <3>1. f = IF work[p] = Absent THEN Deleted(p, Revs(Index, Worktree))
              ELSE UnchangedPath(p, Revs(Index, Worktree))
      BY <1>3, <1>11
    <3>2. f.stored = FromPaths
      BY <3>1 DEF Deleted, UnchangedPath, File
    <3> QED BY <3>2 DEF ChangeOf, ChangeOfPaths, FromPaths
  <2>3. p \in DOMAIN counted <=> index[p] \notin Binaries /\ work[p] \notin Binaries
    BY <1>2, <1>11, <2>1
  <2> QED BY <1>2, <1>4, <1>8, <1>11, <2>2, <2>3 DEF g, f
<1> QED BY <1>9, <1>10, <1>11

\* What a staged file is given are the counts of its sides.
LEMMA StatsOfStaged ==
    ASSUME TypeOK, NEW p \in StagedPaths, stages[p] = {}
    PROVE  ApplyStats(StagedAt(p), GitLineStats).stats
              = Lines1(head[Original(Renames, p)], index[p])
<1> DEFINE f == StagedAt(p)
           g == ApplyStats(f, GitLineStats)
           counted == CountsOf(Index)
           before == head[Original(Renames, p)]
<1>1. /\ p \in DOMAIN counted <=> before \notin Binaries /\ index[p] \notin Binaries
      /\ p \in DOMAIN counted => counted[p] = Counts[<<before, index[p]>>]
  BY StagedCounts
<1>2. /\ IsFile(f) /\ PathOf(f) = p /\ f.after = Index /\ f.stats = NoStats
      /\ f = IF p \in DOMAIN Renames THEN Renamed(Renames[p], p, Revs(Commit, Index))
             ELSE IF head[p] = Absent THEN Added(p, Revs(Commit, Index))
             ELSE IF index[p] = Absent \/ work[p] = Absent
                  THEN Deleted(p, Revs(Commit, Index))
             ELSE UnchangedPath(p, Revs(Commit, Index))
  BY StagedFiles
<1>3. GitLineStats[RevOf(f, "modified")] = counted
  BY <1>2 DEF GitLineStats, RevOf, Index, Worktree
<1> HIDE DEF f, counted, before
<1>4. ChangeOf(f) # "untracked"
  <2>1. f.stored = FromPaths
    BY <1>2 DEF Renamed, Added, Deleted, UnchangedPath, File
  <2> QED BY <2>1 DEF ChangeOf, ChangeOfPaths, FromPaths
<1>5. g = IF p \in DOMAIN counted THEN SetStats(f, counted[p]) ELSE f
  BY <1>2, <1>3, <1>4 DEF ApplyStats
<1> HIDE DEF g
<1>6. g.stats = IF p \in DOMAIN counted THEN counted[p] ELSE NoStats
  BY <1>2, <1>5, SetStatsKeeps
<1>7. g.stats = Lines1(before, index[p])
  BY <1>1, <1>6 DEF Lines1
<1> QED BY <1>7 DEF g, f, before

-----------------------------------------------------------------------------
(* The list against the repository *)

\* What somebody finds of a path under "Changes".
FoundChanged(p) ==
    IF stages[p] # {}
    THEN [path |-> p, change |-> "conflicted",
          stats |-> IF "ours" \in stages[p] THEN Lines1(head[p], work[p]) ELSE NoStats]
    ELSE [path |-> p, stats |-> Lines1(index[p], work[p]),
          change |-> IF index[p] = Absent THEN "untracked" ELSE Kind(index[p], work[p])]

\* An unstaged entry says what a comparison of index and working tree finds.
LEMMA UnstagedIsFound ==
    ASSUME TypeOK, NEW p \in UnstagedPaths, ~Unmarked(p)
    PROVE  Shown(ApplyStats(UnstagedAt(p), GitLineStats)) = FoundChanged(p)
<1> DEFINE f == UnstagedAt(p)
           g == ApplyStats(f, GitLineStats)
<1>1. /\ IsFile(f) /\ PathOf(f) = p
      /\ stages[p] # {} => f.stored = "conflicted"
      /\ stages[p] = {} /\ index[p] = Absent =>
            f = SetChange(Added(p, Revs(Index, Worktree)), "untracked")
      /\ stages[p] = {} /\ index[p] # Absent =>
            f = IF work[p] = Absent THEN Deleted(p, Revs(Index, Worktree))
                ELSE UnchangedPath(p, Revs(Index, Worktree))
  BY UnstagedFiles
<1>2. PathOf(g) = p /\ ChangeOf(g) = ChangeOf(f)
  BY <1>1, ApplyStatsKeeps
<1>3. g.stats = IF stages[p] # {}
                THEN IF "ours" \in stages[p] THEN Lines1(head[p], work[p]) ELSE NoStats
                ELSE Lines1(index[p], work[p])
  BY StatsOfUnstaged
<1>4. p # NoPath /\ (stages[p] = {} => index[p] # work[p])
  BY PathsHaveNames DEF UnstagedPaths
<1> HIDE DEF f, g
<1>5. ChangeOf(f) = IF stages[p] # {} THEN "conflicted"
                    ELSE IF index[p] = Absent THEN "untracked" ELSE Kind(index[p], work[p])
  <2>1. CASE stages[p] # {}
    BY <1>1, <2>1 DEF ChangeOf, FromPaths
  <2>2. CASE stages[p] = {} /\ index[p] = Absent
    <3>1. f = SetChange(Added(p, Revs(Index, Worktree)), "untracked")
      BY <1>1, <2>2
    <3> QED BY <2>2, <3>1 DEF ChangeOf, SetChange, Added, File, FromPaths
  <2>3. CASE stages[p] = {} /\ index[p] # Absent
    <3>1. f = IF work[p] = Absent THEN Deleted(p, Revs(Index, Worktree))
              ELSE UnchangedPath(p, Revs(Index, Worktree))
      BY <1>1, <2>3
    <3>2. ChangeOf(f) = IF work[p] = Absent THEN "deleted" ELSE "modified"
      BY <1>4, <3>1 DEF ChangeOf, ChangeOfPaths, OneSided, PreviousPath, Deleted, UnchangedPath, File,
                        FromPaths
    <3> QED BY <1>4, <2>3, <3>2 DEF Kind
  <2> QED BY <2>1, <2>2, <2>3
<1>6. Shown(g) = FoundChanged(p)
  BY <1>2, <1>3, <1>5 DEF Shown, FoundChanged
<1> QED BY <1>6 DEF f, g

\* And under "Staged Changes", where a modification of what the working tree has
\* no more is taken for a deletion.
FoundStaged(p) ==
    [path |-> p,
     change |-> IF p \in DOMAIN Renames THEN "moved"
                ELSE IF Kind(head[p], index[p]) = "modified" /\ work[p] = Absent THEN "deleted"
                ELSE Kind(head[p], index[p]),
     stats |-> Lines1(head[Original(Renames, p)], index[p])]

\* A staged entry says what a comparison of commit and index finds.
LEMMA StagedIsFound ==
    ASSUME TypeOK, NEW p \in StagedPaths, stages[p] = {}
    PROVE  Shown(ApplyStats(StagedAt(p), GitLineStats)) = FoundStaged(p)
<1> DEFINE f == StagedAt(p)
           g == ApplyStats(f, GitLineStats)
           r == Renames
<1>1. /\ IsFile(f) /\ PathOf(f) = p
      /\ f = IF p \in DOMAIN r THEN Renamed(r[p], p, Revs(Commit, Index))
             ELSE IF head[p] = Absent THEN Added(p, Revs(Commit, Index))
             ELSE IF index[p] = Absent \/ work[p] = Absent
                  THEN Deleted(p, Revs(Commit, Index))
             ELSE UnchangedPath(p, Revs(Commit, Index))
  BY StagedFiles
<1>2. PathOf(g) = p /\ ChangeOf(g) = ChangeOf(f)
  BY <1>1, ApplyStatsKeeps
<1>3. g.stats = Lines1(head[Original(r, p)], index[p])
  BY StatsOfStaged
<1>4. p # NoPath /\ head[p] # index[p]
  BY PathsHaveNames DEF StagedPaths
<1>5. p \in DOMAIN r => r[p] # NoPath /\ r[p] # p
  BY RenamesOfIndex
<1> HIDE DEF f, g, r
<1>6. ChangeOf(f) = IF p \in DOMAIN r THEN "moved"
                    ELSE IF Kind(head[p], index[p]) = "modified" /\ work[p] = Absent THEN "deleted"
                    ELSE Kind(head[p], index[p])
  <2>1. CASE p \in DOMAIN r
    <3>1. f = Renamed(r[p], p, Revs(Commit, Index))
      BY <1>1, <2>1
    <3> QED BY <1>4, <1>5, <2>1, <3>1 DEF ChangeOf, ChangeOfPaths, OneSided, PreviousPath, Renamed, File,
                                          FromPaths
  <2>2. CASE p \notin DOMAIN r
    <3>1. f = IF head[p] = Absent THEN Added(p, Revs(Commit, Index))
              ELSE IF index[p] = Absent \/ work[p] = Absent THEN Deleted(p, Revs(Commit, Index))
              ELSE UnchangedPath(p, Revs(Commit, Index))
      BY <1>1, <2>2
    <3>2. ChangeOf(f) = IF head[p] = Absent THEN "added"
                        ELSE IF index[p] = Absent \/ work[p] = Absent THEN "deleted" ELSE "modified"
      BY <1>4, <3>1 DEF ChangeOf, ChangeOfPaths, OneSided, PreviousPath, Added, Deleted, UnchangedPath,
                        File, FromPaths
    <3>3. Kind(head[p], index[p]) = IF head[p] = Absent THEN "added"
                                    ELSE IF index[p] = Absent THEN "deleted" ELSE "modified"
      BY <1>4 DEF Kind
    <3> QED BY <2>2, <3>2, <3>3
  <2> QED BY <2>1, <2>2
<1>7. Shown(g) = FoundStaged(p)
  BY <1>2, <1>3, <1>6 DEF Shown, FoundStaged, r
<1> QED BY <1>7 DEF f, g

\* Comparing path by path finds these.
LEMMA FoundUnderChanges ==
    ChangedFiles("Changes") = {FoundChanged(p) : p \in UnstagedPaths}
BY DEF ChangedFiles, FoundChanged, UnstagedPaths

\* What a comparison of commit and index finds: the staged paths that are no conflicts.
LEMMA FoundUnderStagedChanges ==
    ASSUME TypeOK, ConflictsInv
    PROVE  ChangedFiles("Staged Changes")
             = {[path |-> p,
                 change |-> IF p \in DOMAIN Renames THEN "moved" ELSE Kind(head[p], index[p]),
                 stats |-> Lines1(head[Original(Renames, p)], index[p])]
                : p \in {q \in StagedPaths : stages[q] = {}}}
<1> DEFINE before == [q \in Paths |-> IF stages[q] = {} THEN head[q] ELSE Absent]
           r == Renames
           P == {q \in Paths : before[q] # index[q] /\ \A o \in DOMAIN r : r[o] # q}
           Found(p) == IF p \in DOMAIN r
                       THEN [path |-> p, change |-> "moved", stats |-> Lines1(index[p], index[p])]
                       ELSE [path |-> p, change |-> Kind(before[p], index[p]),
                             stats |-> Lines1(before[p], index[p])]
           Q == {q \in StagedPaths : stages[q] = {}}
           Found2(p) == [path |-> p,
                         change |-> IF p \in DOMAIN r THEN "moved" ELSE Kind(head[p], index[p]),
                         stats |-> Lines1(head[Original(r, p)], index[p])]
<1>1. ChangedFiles("Staged Changes") = {Found(p) : p \in P}
  BY DEF ChangedFiles, ChangedPaths, Renames
<1>2. P = Q
  <2>1. \A q \in Paths : stages[q] # {} => before[q] = index[q]
    BY DEF ConflictsInv
  <2>2. \A q \in Paths : stages[q] = {} => before[q] = head[q]
    OBVIOUS
  <2>3. Q = {q \in Paths : stages[q] = {} /\ head[q] # index[q] /\ \A o \in DOMAIN r : r[o] # q}
    BY DEF StagedPaths
  <2> HIDE DEF before, r, Q
  <2> QED BY <2>1, <2>2, <2>3
<1>3. \A p \in Q : Found(p) = Found2(p)
  <2>1. TAKE p \in Q
  <2>2. p \in Paths /\ before[p] = head[p]
    BY DEF StagedPaths
  <2>3. p \in DOMAIN r => head[r[p]] = index[p]
    BY RenamesOfIndex
  <2> HIDE DEF before, r, Q
  <2> QED BY <2>2, <2>3 DEF Original
<1> HIDE DEF Found, Found2, P, Q
<1>4. ChangedFiles("Staged Changes") = {Found2(p) : p \in Q}
  BY <1>1, <1>2, <1>3
<1> QED BY <1>4 DEF Found2, Q, r

\* Each path is listed, once under each heading, and the staged ones last.
LEMMA FilesListedOnce ==
    ASSUME IInv, fresh
    PROVE  /\ \A p \in UnstagedPaths :
                 \E i \in DOMAIN list : list[i] = ApplyStats(UnstagedAt(p), GitLineStats)
           /\ \A p \in StagedPaths :
                 \E i \in DOMAIN list : list[i] = ApplyStats(StagedAt(p), GitLineStats)
           /\ \A i, j \in DOMAIN list : /\ PathOf(list[i]) = PathOf(list[j])
                                        /\ Heading(RevsOf(list[i])) = Heading(RevsOf(list[j]))
                                        => i = j
           /\ \A i, j \in DOMAIN list : i < j /\ list[i].after = Index => list[j].after = Index
<1> DEFINE stats == GitLineStats
<1>1. list = GetChangedFiles /\ TypeOK
  BY DEF IInv, ListInv
<1>2. PICK u, s : Listing(u, s)
  BY <1>1, ListingExists
<1>3. /\ Len(u) \in Nat /\ \A k \in 1..Len(u) : u[k] \in UnstagedPaths
      /\ Len(s) \in Nat /\ \A k \in 1..Len(s) : s[k] \in StagedPaths
      /\ \A p \in UnstagedPaths : \E k \in 1..Len(u) : u[k] = p
      /\ \A p \in StagedPaths : \E k \in 1..Len(s) : s[k] = p
      /\ \A k, l \in 1..Len(u) : u[k] = u[l] => k = l
      /\ \A k, l \in 1..Len(s) : s[k] = s[l] => k = l
      /\ DOMAIN list = 1..(Len(u) + Len(s))
      /\ \A k \in 1..Len(u) : list[k] = ApplyStats(UnstagedAt(u[k]), stats)
      /\ \A k \in 1..Len(s) : list[Len(u) + k] = ApplyStats(StagedAt(s[k]), stats)
  BY <1>1, <1>2 DEF Listing, Lists
<1>4. \A i : Heading(RevsOf(list[i])) = IF list[i].after = Index THEN "Staged Changes" ELSE "Changes"
  BY DEF Heading, RevsOf, Revs
<1>5. \A k \in 1..Len(u) : PathOf(list[k]) = u[k] /\ list[k].after = Worktree
  <2>1. TAKE k \in 1..Len(u)
  <2>2. u[k] \in UnstagedPaths /\ list[k] = ApplyStats(UnstagedAt(u[k]), stats)
    BY <1>3
  <2> HIDE DEF stats
  <2>3. /\ IsFile(UnstagedAt(u[k])) /\ PathOf(UnstagedAt(u[k])) = u[k]
        /\ UnstagedAt(u[k]).after = Worktree
    BY <1>1, <2>2, UnstagedFiles
  <2> QED BY <2>2, <2>3, ApplyStatsKeeps
<1>6. \A k \in 1..Len(s) : PathOf(list[Len(u) + k]) = s[k] /\ list[Len(u) + k].after = Index
  <2>1. TAKE k \in 1..Len(s)
  <2>2. s[k] \in StagedPaths /\ list[Len(u) + k] = ApplyStats(StagedAt(s[k]), stats)
    BY <1>3
  <2> HIDE DEF stats
  <2>3. /\ IsFile(StagedAt(s[k])) /\ PathOf(StagedAt(s[k])) = s[k]
        /\ StagedAt(s[k]).after = Index
    BY <1>1, <2>2, StagedFiles
  <2> QED BY <2>2, <2>3, ApplyStatsKeeps
<1> HIDE DEF stats
<1>7. \A i \in DOMAIN list : i \in 1..Len(u) \/ \E k \in 1..Len(s) : i = Len(u) + k
  <2>1. TAKE i \in DOMAIN list
  <2>2. \A m, n \in Nat : \A x \in 1..(m + n) :
           x \in 1..m \/ (x - m \in 1..n /\ x = m + (x - m))
    OBVIOUS
  <2>3. Len(u) \in Nat /\ Len(s) \in Nat /\ i \in 1..(Len(u) + Len(s))
    BY <1>3
  <2> QED BY <2>2, <2>3
<1>8. \A k \in 1..Len(s) : Len(u) + k \in DOMAIN list
  BY <1>3
<1>9. \A k \in 1..Len(u) : k \in DOMAIN list
  BY <1>3
<1>10. \A p \in UnstagedPaths : \E i \in DOMAIN list : list[i] = ApplyStats(UnstagedAt(p), stats)
  BY <1>3, <1>9
<1>11. \A p \in StagedPaths : \E i \in DOMAIN list : list[i] = ApplyStats(StagedAt(p), stats)
  <2>1. TAKE p \in StagedPaths
  <2>2. PICK k \in 1..Len(s) : s[k] = p
    BY <1>3
  <2>3. list[Len(u) + k] = ApplyStats(StagedAt(p), stats)
    BY <1>3, <2>2
  <2> QED BY <1>8, <2>3
<1>12. \A i, j \in DOMAIN list : /\ PathOf(list[i]) = PathOf(list[j])
                                 /\ Heading(RevsOf(list[i])) = Heading(RevsOf(list[j]))
                                 => i = j
  <2>1. TAKE i, j \in DOMAIN list
  <2>2. HAVE /\ PathOf(list[i]) = PathOf(list[j])
             /\ Heading(RevsOf(list[i])) = Heading(RevsOf(list[j]))
  <2>3. list[i].after = Index <=> list[j].after = Index
    BY <1>4, <2>2
  <2>4. Worktree # Index
    BY DEF Worktree, Index
  <2>5. CASE i \in 1..Len(u)
    <3>1. j \in 1..Len(u)
      BY <1>5, <1>6, <1>7, <2>3, <2>4, <2>5
    <3> QED BY <1>3, <1>5, <2>2, <2>5, <3>1
  <2>6. CASE \E k \in 1..Len(s) : i = Len(u) + k
    <3>1. PICK k \in 1..Len(s) : i = Len(u) + k
      BY <2>6
    <3>2. PICK l \in 1..Len(s) : j = Len(u) + l
      BY <1>5, <1>6, <1>7, <2>3, <2>4, <3>1
    <3>3. s[k] = s[l]
      BY <1>6, <2>2, <3>1, <3>2
    <3> QED BY <1>3, <3>1, <3>2, <3>3
  <2> QED BY <1>7, <2>5, <2>6
<1>13. \A i, j \in DOMAIN list : i < j /\ list[i].after = Index => list[j].after = Index
  <2>1. TAKE i, j \in DOMAIN list
  <2>2. HAVE i < j /\ list[i].after = Index
  <2>3. i \notin 1..Len(u)
    BY <1>5, <2>2 DEF Worktree, Index
  <2>4. j \notin 1..Len(u)
    BY <1>3, <2>2, <2>3
  <2> QED BY <1>6, <1>7, <2>4
<1> QED BY <1>10, <1>11, <1>12, <1>13 DEF stats

\* The unstaged half of the list is what somebody finds under "Changes".
LEMMA ChangesAreListed ==
    ASSUME IInv, fresh,
           NEW mine, mine = {i \in DOMAIN list : /\ Heading(RevsOf(list[i])) = "Changes"
                                                 /\ ~Unmarked(PathOf(list[i]))}
    PROVE  {Shown(list[i]) : i \in mine} = {c \in ChangedFiles("Changes") : ~Unmarked(c.path)}
<1> DEFINE stats == GitLineStats
           Listed(p) == ApplyStats(UnstagedAt(p), stats)
<1>1. TypeOK
  BY DEF IInv
<1>2. \A p \in UnstagedPaths : /\ PathOf(Listed(p)) = p
                               /\ Heading(RevsOf(Listed(p))) = "Changes"
                               /\ ~Unmarked(p) => Shown(Listed(p)) = FoundChanged(p)
  <2>1. TAKE p \in UnstagedPaths
  <2>2. IsFile(UnstagedAt(p)) /\ PathOf(UnstagedAt(p)) = p /\ UnstagedAt(p).after = Worktree
    BY <1>1, UnstagedFiles
  <2>3. /\ PathOf(Listed(p)) = PathOf(UnstagedAt(p))
        /\ RevsOf(Listed(p)) = RevsOf(UnstagedAt(p))
    BY <2>2, ApplyStatsKeeps
  <2>4. Heading(RevsOf(UnstagedAt(p))) = "Changes"
    BY <2>2 DEF Heading, RevsOf, Revs, Worktree, Index
  <2>5. ~Unmarked(p) => Shown(Listed(p)) = FoundChanged(p)
    BY <1>1, UnstagedIsFound
  <2> HIDE DEF Listed
  <2> QED BY <2>2, <2>3, <2>4, <2>5
<1>3. \A i \in DOMAIN list : Heading(RevsOf(list[i])) = "Changes" =>
          \E p \in UnstagedPaths : list[i] = Listed(p)
  <2>1. TAKE i \in DOMAIN list
  <2>2. HAVE Heading(RevsOf(list[i])) = "Changes"
  <2>3. \/ \E p \in UnstagedPaths : /\ list[i] = ApplyStats(UnstagedAt(p), GitLineStats)
                                     /\ PathOf(list[i]) = p
                                     /\ Heading(RevsOf(list[i])) = "Changes"
        \/ \E p \in StagedPaths : /\ list[i] = ApplyStats(StagedAt(p), GitLineStats)
                                   /\ PathOf(list[i]) = p
                                   /\ Heading(RevsOf(list[i])) = "Staged Changes"
    BY ListedFiles
  <2> QED BY <2>2, <2>3
<1>4. \A p \in UnstagedPaths : \E i \in DOMAIN list : list[i] = Listed(p)
  BY FilesListedOnce
<1>5. ChangedFiles("Changes") = {FoundChanged(p) : p \in UnstagedPaths}
  BY FoundUnderChanges
<1>6. \A p : FoundChanged(p).path = p
  BY DEF FoundChanged
<1> HIDE DEF Listed
<1>7. \A i \in mine : \E p \in UnstagedPaths : ~Unmarked(p) /\ Shown(list[i]) = FoundChanged(p)
  BY <1>2, <1>3
<1>8. \A p \in UnstagedPaths : ~Unmarked(p) => \E i \in mine : Shown(list[i]) = FoundChanged(p)
  BY <1>2, <1>4
<1>9. {c \in ChangedFiles("Changes") : ~Unmarked(c.path)}
        = {FoundChanged(p) : p \in {q \in UnstagedPaths : ~Unmarked(q)}}
  BY <1>5, <1>6
<1> QED BY <1>7, <1>8, <1>9

\* And the staged half is what he finds under "Staged Changes", but for files
\* that the working tree has no more.
Adjusted(e) == IF e.change = "modified" /\ work[e.path] = Absent
               THEN [e EXCEPT !.change = "deleted"] ELSE e

\* The staged half of a fresh list is what is found there, as it is listed.
LEMMA StagedChangesAreListed ==
    ASSUME IInv, fresh,
           NEW mine, mine = {i \in DOMAIN list : /\ Heading(RevsOf(list[i])) = "Staged Changes"
                                                 /\ ~Unmarked(PathOf(list[i]))}
    PROVE  {Shown(list[i]) : i \in mine}
             = {Adjusted(e) : e \in {c \in ChangedFiles("Staged Changes") : ~Unmarked(c.path)}}
<1> DEFINE stats == GitLineStats
           Listed(p) == ApplyStats(StagedAt(p), stats)
           Found(p) == [path |-> p,
                        change |-> IF p \in DOMAIN Renames THEN "moved" ELSE Kind(head[p], index[p]),
                        stats |-> Lines1(head[Original(Renames, p)], index[p])]
           Q == {q \in StagedPaths : stages[q] = {}}
<1>1. TypeOK /\ ConflictsInv
  BY DEF IInv
<1>2. \A p \in StagedPaths : /\ PathOf(Listed(p)) = p
                             /\ Heading(RevsOf(Listed(p))) = "Staged Changes"
                             /\ stages[p] = {} => Shown(Listed(p)) = FoundStaged(p)
  <2>1. TAKE p \in StagedPaths
  <2>2. IsFile(StagedAt(p)) /\ PathOf(StagedAt(p)) = p /\ StagedAt(p).after = Index
    BY <1>1, StagedFiles
  <2>3. /\ PathOf(Listed(p)) = PathOf(StagedAt(p))
        /\ RevsOf(Listed(p)) = RevsOf(StagedAt(p))
    BY <2>2, ApplyStatsKeeps
  <2>4. Heading(RevsOf(StagedAt(p))) = "Staged Changes"
    BY <2>2 DEF Heading, RevsOf, Revs, Index
  <2>5. stages[p] = {} => Shown(Listed(p)) = FoundStaged(p)
    BY <1>1, StagedIsFound
  <2> HIDE DEF Listed
  <2> QED BY <2>2, <2>3, <2>4, <2>5
<1>3. \A i \in DOMAIN list : Heading(RevsOf(list[i])) = "Staged Changes" =>
          \E p \in StagedPaths : list[i] = Listed(p)
  <2>1. TAKE i \in DOMAIN list
  <2>2. HAVE Heading(RevsOf(list[i])) = "Staged Changes"
  <2>3. \/ \E p \in UnstagedPaths : /\ list[i] = ApplyStats(UnstagedAt(p), GitLineStats)
                                     /\ PathOf(list[i]) = p
                                     /\ Heading(RevsOf(list[i])) = "Changes"
        \/ \E p \in StagedPaths : /\ list[i] = ApplyStats(StagedAt(p), GitLineStats)
                                   /\ PathOf(list[i]) = p
                                   /\ Heading(RevsOf(list[i])) = "Staged Changes"
    BY ListedFiles
  <2> QED BY <2>2, <2>3
<1>4. \A p \in StagedPaths : \E i \in DOMAIN list : list[i] = Listed(p)
  BY FilesListedOnce
<1>5. \A p \in StagedPaths : Unmarked(p) <=> stages[p] # {}
  BY DEF StagedPaths, Unmarked
<1>6. ChangedFiles("Staged Changes") = {Found(p) : p \in Q}
  BY <1>1, FoundUnderStagedChanges
<1>7. \A p : Found(p).path = p
  OBVIOUS
<1>8. \A p \in Q : Adjusted(Found(p)) = FoundStaged(p)
  <2>1. TAKE p \in Q
  <2> DEFINE e == Found(p)
  <2>2. Adjusted(e) = IF e.change = "modified" /\ work[e.path] = Absent
                    THEN [e EXCEPT !.change = "deleted"] ELSE e
    BY DEF Adjusted
  <2>3. CASE e.change = "modified" /\ work[p] = Absent
    <3>1. p \notin DOMAIN Renames /\ Kind(head[p], index[p]) = "modified"
      BY <2>3
    <3> QED BY <2>2, <2>3, <3>1 DEF FoundStaged
  <2>4. CASE ~(e.change = "modified" /\ work[p] = Absent)
    BY <2>2, <2>4 DEF FoundStaged
  <2> QED BY <2>3, <2>4
<1> HIDE DEF Listed, Found
<1>9. \A i \in mine : \E p \in Q : Shown(list[i]) = FoundStaged(p)
  <2>1. TAKE i \in mine
  <2>2. /\ i \in DOMAIN list /\ Heading(RevsOf(list[i])) = "Staged Changes"
        /\ ~Unmarked(PathOf(list[i]))
    OBVIOUS
  <2>3. PICK p \in StagedPaths : list[i] = Listed(p)
    BY <1>3, <2>2
  <2>4. p \in Q
    BY <1>2, <1>5, <2>2, <2>3
  <2>5. Shown(list[i]) = FoundStaged(p)
    BY <1>2, <2>3, <2>4
  <2> QED BY <2>4, <2>5
<1>10. \A p \in Q : \E i \in mine : Shown(list[i]) = FoundStaged(p)
  BY <1>2, <1>4, <1>5
<1>11. {c \in ChangedFiles("Staged Changes") : ~Unmarked(c.path)} = {Found(p) : p \in Q}
  BY <1>5, <1>6, <1>7
<1> HIDE DEF Q
<1>12. {Adjusted(e) : e \in {Found(p) : p \in Q}} = {FoundStaged(p) : p \in Q}
  BY <1>8
<1>13. {Shown(list[i]) : i \in mine} = {FoundStaged(p) : p \in Q}
  <2>1. \A M, P : (\A i \in M : \E p \in P : Shown(list[i]) = FoundStaged(p)) =>
            {Shown(list[i]) : i \in M} \subseteq {FoundStaged(p) : p \in P}
    OBVIOUS
  <2>2. \A M, P : (\A p \in P : \E i \in M : Shown(list[i]) = FoundStaged(p)) =>
            {FoundStaged(p) : p \in P} \subseteq {Shown(list[i]) : i \in M}
    OBVIOUS
  <2>3. {Shown(list[i]) : i \in mine} \subseteq {FoundStaged(p) : p \in Q}
    BY <1>9, <2>1
  <2>4. {FoundStaged(p) : p \in Q} \subseteq {Shown(list[i]) : i \in mine}
    BY <1>10, <2>2
  <2> QED BY <2>3, <2>4
<1> QED BY <1>11, <1>12, <1>13

-----------------------------------------------------------------------------
(* Comparisons of two trees *)

\* What git reports of two trees: the changed paths, in order.
ChangedBetween(before, after) ==
    LET renames == RenamesBetween(before, after) IN
    {p \in Paths : before[p] # after[p] /\ \A q \in DOMAIN renames : renames[q] # p}
ChangeRecord(before, after, p) ==
    LET renames == RenamesBetween(before, after) IN
    IF p \in DOMAIN renames THEN [letter |-> "R", path |-> p, original |-> renames[p]]
    ELSE [letter |-> Letter(before[p], after[p]), path |-> p, original |-> NoPath]
RecordsOf(records, before, after, keys) ==
    /\ Lists(keys, ChangedBetween(before, after))
    /\ DOMAIN records = 1..Len(keys)
    /\ \A k \in 1..Len(keys) : records[k] = ChangeRecord(before, after, keys[k])

\* The records of a comparison have a path each.
LEMMA RecordsOfTrees ==
    ASSUME NEW before, NEW after
    PROVE  \E keys : RecordsOf(NameStatus(before, after), before, after, keys)
<1> DEFINE C == ChangedBetween(before, after)
           keys == Sorted(C)
           records == NameStatus(before, after)
<1>1. C \subseteq Paths
  BY DEF ChangedBetween
<1>2. records = [i \in DOMAIN keys |-> ChangeRecord(before, after, keys[i])]
  BY DEF NameStatus, ChangedBetween, ChangeRecord
<1> HIDE DEF records, C
<1>3. Lists(keys, C)
  BY <1>1, SortedLists
<1> HIDE DEF keys
<1>4. DOMAIN keys = 1..Len(keys)
  BY <1>3 DEF Lists
<1>5. /\ DOMAIN records = 1..Len(keys)
      /\ \A k \in 1..Len(keys) : records[k] = ChangeRecord(before, after, keys[k])
  BY <1>2, <1>4
<1>6. RecordsOf(records, before, after, keys)
  BY <1>3, <1>5 DEF RecordsOf, C
<1> QED BY <1>6 DEF records

\* The two texts of a record.
LEMMA TextsOfRecord ==
    ASSUME NEW before, NEW after, NEW p \in ChangedBetween(before, after)
    PROVE  LET r == ChangeRecord(before, after, p)
               renames == RenamesBetween(before, after)
               old == IF r.original = NoPath THEN r.path ELSE r.original
           IN  /\ p \in Paths /\ p # NoPath /\ before[p] # after[p] /\ r.path = p
               /\ old = Original(renames, p)
               /\ p \in DOMAIN renames =>
                     /\ r.letter = "R" /\ r.original = renames[p]
                     /\ renames[p] \in Paths /\ renames[p] # NoPath /\ renames[p] # p
                     /\ before[renames[p]] = after[p] /\ after[p] # Absent
               /\ p \notin DOMAIN renames =>
                     /\ r.letter = IF before[p] = Absent THEN "A"
                                   ELSE IF after[p] = Absent THEN "D" ELSE "M"
                     /\ r.original = NoPath
<1> DEFINE renames == RenamesBetween(before, after)
           r == ChangeRecord(before, after, p)
<1>1. /\ p \in Paths /\ p # NoPath /\ before[p] # after[p]
      /\ \A q \in DOMAIN renames : renames[q] # p
  BY PathsHaveNames DEF ChangedBetween
<1>2. AreRenames(renames, before, after)
  BY RenamesSound
<1>3. r = IF p \in DOMAIN renames THEN [letter |-> "R", path |-> p, original |-> renames[p]]
          ELSE [letter |-> Letter(before[p], after[p]), path |-> p, original |-> NoPath]
  BY DEF ChangeRecord
<1> HIDE DEF renames, r
<1>4. p \in DOMAIN renames =>
         /\ renames[p] \in Paths /\ renames[p] # NoPath /\ renames[p] # p
         /\ before[renames[p]] = after[p] /\ after[p] # Absent
  BY <1>1, <1>2, PathsHaveNames DEF AreRenames
<1>5. Letter(before[p], after[p]) = IF before[p] = Absent THEN "A"
                                    ELSE IF after[p] = Absent THEN "D" ELSE "M"
  BY <1>1 DEF Letter
<1>6. CASE p \in DOMAIN renames
  <2>1. r.letter = "R" /\ r.path = p /\ r.original = renames[p]
    BY <1>3, <1>6
  <2> QED BY <1>1, <1>4, <1>6, <2>1 DEF renames, r, Original
<1>7. CASE p \notin DOMAIN renames
  <2>1. r.letter = Letter(before[p], after[p]) /\ r.path = p /\ r.original = NoPath
    BY <1>3, <1>7
  <2> QED BY <1>1, <1>5, <1>7, <2>1 DEF renames, r, Original
<1> QED BY <1>6, <1>7

\* The counts that a path of the comparison gets.
LEMMA CountsBetween ==
    ASSUME NEW before, NEW after, NEW records, NEW keys,
           RecordsOf(records, before, after, keys)
    PROVE  LET counted == ParseNumstat(DiffNumstat(records, before, after))
               renames == RenamesBetween(before, after)
           IN  \A p \in ChangedBetween(before, after) :
                  LET old == before[Original(renames, p)] IN
                  /\ p \in DOMAIN counted <=> old \notin Binaries /\ after[p] \notin Binaries
                  /\ p \in DOMAIN counted => counted[p] = Counts[<<old, after[p]>>]
<1> DEFINE C == ChangedBetween(before, after)
           renames == RenamesBetween(before, after)
           old(p) == before[Original(renames, p)]
           changed(p) == [path |-> p, stats |-> Counts[<<old(p), after[p]>>]]
           T == {changed(p) : p \in C}
           part(p) == IF old(p) \in Binaries \/ after[p] \in Binaries THEN <<>> ELSE << changed(p) >>
           seqs == [i \in DOMAIN records |->
                       LET r == records[i] IN
                       Numstat(before[IF r.original = NoPath THEN r.path ELSE r.original],
                               after[r.path], r.path)]
           counted == ParseNumstat(FlattenSeq(seqs))
           n == Len(keys)
<1>1. /\ keys \in Seq(C) /\ n \in Nat /\ DOMAIN records = 1..n
      /\ \A k \in 1..n : keys[k] \in C /\ records[k] = ChangeRecord(before, after, keys[k])
      /\ \A p \in C : \E k \in 1..n : keys[k] = p
      /\ \A k, l \in 1..n : keys[k] = keys[l] => k = l
  BY DEF RecordsOf, Lists
<1>2. \A k \in 1..n : seqs[k] = part(keys[k])
  <2>1. TAKE k \in 1..n
  <2> DEFINE p == keys[k]
             r == ChangeRecord(before, after, p)
  <2>2. p \in C /\ records[k] = r
    BY <1>1
  <2>3. /\ (IF r.original = NoPath THEN r.path ELSE r.original) = Original(renames, p)
        /\ r.path = p
    BY <2>2, TextsOfRecord
  <2>4. seqs[k] = Numstat(before[IF r.original = NoPath THEN r.path ELSE r.original],
                          after[r.path], r.path)
    BY <1>1, <2>2
  <2> HIDE DEF r, p, seqs
  <2>5. seqs[k] = Numstat(old(p), after[p], p)
    BY <2>3, <2>4
  <2> QED BY <2>5 DEF Numstat, p
<1>3. DOMAIN seqs = 1..n /\ seqs = [i \in 1..n |-> seqs[i]]
  BY <1>1
<1>4. \A p \in C : changed(p) \in T
  OBVIOUS
<1>5. \A p : changed(p).path = p /\ changed(p).stats = Counts[<<old(p), after[p]>>]
  OBVIOUS
<1> HIDE DEF seqs, T, changed
<1>6. \A p \in C : /\ part(p) \in Seq(T) /\ Len(part(p)) \in 0..1
                   /\ \A l \in 1..Len(part(p)) : part(p)[l] = changed(p)
                   /\ Len(part(p)) # 0 <=> old(p) \notin Binaries /\ after[p] \notin Binaries
  <2>1. TAKE p \in C
  <2>2. <<changed(p)>> \in Seq(T) /\ Len(<<changed(p)>>) = 1 /\ <<changed(p)>>[1] = changed(p)
    BY <1>4, InARow
  <2>3. <<>> \in Seq(T) /\ Len(<<>>) = 0
    OBVIOUS
  <2>4. \A l \in 1..1 : l = 1
    OBVIOUS
  <2>5. CASE old(p) \in Binaries \/ after[p] \in Binaries
    <3>1. part(p) = <<>>
      BY <2>5
    <3> HIDE DEF part
    <3> QED BY <2>3, <2>5, <3>1
  <2>6. CASE ~(old(p) \in Binaries \/ after[p] \in Binaries)
    <3>1. part(p) = << changed(p) >>
      BY <2>6
    <3> HIDE DEF part
    <3> QED BY <2>2, <2>4, <2>6, <3>1
  <2> QED BY <2>5, <2>6
<1> HIDE DEF part, old, C, n
<1>7. InParts(seqs, keys)
  <2>1. \A k \in 1..n : seqs[k] \in Seq(T)
    <3>1. TAKE k \in 1..n
    <3>2. keys[k] \in C /\ seqs[k] = part(keys[k])
      BY <1>1, <1>2
    <3> QED BY <1>6, <3>2
  <2>2. seqs \in Seq(Seq(T)) /\ Len(seqs) = n
    <3>1. \A D, s : /\ s = [i \in 1..n |-> s[i]]
                    /\ \A k \in 1..n : s[k] \in D
                    => s \in Seq(D) /\ Len(s) = n
      BY <1>1
    <3> QED BY <1>3, <2>1, <3>1
  <2>3. \A k \in 1..n : /\ Len(seqs[k]) \in 0..2
                        /\ \A l \in 1..Len(seqs[k]) : seqs[k][l].path = keys[k]
    <3>1. TAKE k \in 1..n
    <3>2. keys[k] \in C /\ seqs[k] = part(keys[k])
      BY <1>1, <1>2
    <3>3. /\ Len(part(keys[k])) \in 0..1
          /\ \A l \in 1..Len(part(keys[k])) : part(keys[k])[l] = changed(keys[k])
      BY <1>6, <3>2
    <3> QED BY <1>5, <3>2, <3>3
  <2> QED BY <1>1, <2>2, <2>3 DEF InParts, n
<1>8. CountsLast(counted, seqs, keys)
  BY <1>7, LastOfPart
<1> HIDE DEF counted
<1>9. \A p \in C : /\ p \in DOMAIN counted <=> old(p) \notin Binaries /\ after[p] \notin Binaries
                   /\ p \in DOMAIN counted => counted[p] = Counts[<<old(p), after[p]>>]
  <2>1. TAKE p \in C
  <2>2. PICK k \in 1..n : keys[k] = p
    BY <1>1
  <2>3. /\ p \in DOMAIN counted <=> Len(part(p)) # 0
        /\ Len(part(p)) # 0 => counted[p] = part(p)[Len(part(p))].stats
    BY <1>2, <1>8, <2>2 DEF CountsLast, n
  <2> QED BY <1>5, <1>6, <2>3
<1>10. ParseNumstat(DiffNumstat(records, before, after)) = counted
  BY DEF DiffNumstat, seqs, counted
<1> QED BY <1>9, <1>10 DEF old, C

\* What somebody finds of a path that two trees have differently.
FoundBetween(before, after, p) ==
    IF p \in DOMAIN RenamesBetween(before, after)
    THEN [path |-> p, change |-> "moved", stats |-> Lines1(after[p], after[p])]
    ELSE [path |-> p, change |-> Kind(before[p], after[p]), stats |-> Lines1(before[p], after[p])]

\* What differs between two trees, path by path.
LEMMA FoundByComparing ==
    ASSUME NEW before, NEW after
    PROVE  ChangedPaths(before, after)
             = {FoundBetween(before, after, p) : p \in ChangedBetween(before, after)}
BY DEF ChangedPaths, FoundBetween, ChangedBetween

\* The file that a record becomes, before its lines are counted.
LEMMA DiffFile ==
    ASSUME NEW before, NEW after, NEW revs, NEW p \in ChangedBetween(before, after)
    PROVE  LET f == DiffEntryToFile(ChangeRecord(before, after, p), revs)
               renames == RenamesBetween(before, after)
           IN  /\ IsFile(f) /\ f.before = revs.before /\ f.after = revs.after
               /\ f.stored = FromPaths /\ f.stats = NoStats /\ PathOf(f) = p
               /\ f.original = IF p \in DOMAIN renames THEN renames[p]
                               ELSE IF before[p] = Absent THEN NoPath ELSE p
               /\ f.modified = IF after[p] = Absent THEN NoPath ELSE p
               /\ ChangeOf(f) = IF p \in DOMAIN renames THEN "moved" ELSE Kind(before[p], after[p])
<1> DEFINE renames == RenamesBetween(before, after)
           r == ChangeRecord(before, after, p)
           f == DiffEntryToFile(r, revs)
<1>1. /\ p # NoPath /\ before[p] # after[p] /\ r.path = p
      /\ p \in DOMAIN renames => /\ r.letter = "R" /\ r.original = renames[p]
                                 /\ renames[p] # NoPath /\ renames[p] # p /\ after[p] # Absent
      /\ p \notin DOMAIN renames => r.letter = IF before[p] = Absent THEN "A"
                                               ELSE IF after[p] = Absent THEN "D" ELSE "M"
  BY TextsOfRecord
<1> HIDE DEF r, renames
<1>2. f = CASE r.letter = "A" -> Added(r.path, revs)
            [] r.letter = "D" -> Deleted(r.path, revs)
            [] r.letter = "R" -> Renamed(r.original, r.path, revs)
            [] OTHER -> UnchangedPath(r.path, revs)
  <2>1. r.letter # "U"
    BY <1>1
  <2> QED BY <2>1 DEF DiffEntryToFile
<1> HIDE DEF f
<1>3. CASE p \in DOMAIN renames
  <2>1. f = Renamed(renames[p], p, revs)
    BY <1>1, <1>2, <1>3
  <2> QED BY <1>1, <1>3, <2>1 DEF f, r, renames, IsFile, Renamed, File, PathOf, ChangeOf,
                                  ChangeOfPaths, PreviousPath, OneSided
<1>4. CASE p \notin DOMAIN renames /\ before[p] = Absent
  <2>1. f = Added(p, revs)
    BY <1>1, <1>2, <1>4
  <2> QED BY <1>1, <1>4, <2>1 DEF f, r, renames, IsFile, Added, File, PathOf, ChangeOf,
                                  ChangeOfPaths, PreviousPath, OneSided, Kind
<1>5. CASE p \notin DOMAIN renames /\ before[p] # Absent /\ after[p] = Absent
  <2>1. f = Deleted(p, revs)
    BY <1>1, <1>2, <1>5
  <2> QED BY <1>1, <1>5, <2>1 DEF f, r, renames, IsFile, Deleted, File, PathOf, ChangeOf,
                                  ChangeOfPaths, PreviousPath, OneSided, Kind
<1>6. CASE p \notin DOMAIN renames /\ before[p] # Absent /\ after[p] # Absent
  <2>1. f = UnchangedPath(p, revs)
    BY <1>1, <1>2, <1>6
  <2> QED BY <1>1, <1>6, <2>1 DEF f, r, renames, IsFile, UnchangedPath, File, PathOf, ChangeOf,
                                  ChangeOfPaths, PreviousPath, OneSided, Kind
<1> QED BY <1>3, <1>4, <1>5, <1>6

\* And with them: it is shown as somebody finds it.
LEMMA ComparedFile ==
    ASSUME NEW before, NEW after, NEW revs, NEW records, NEW keys,
           RecordsOf(records, before, after, keys), NEW p \in ChangedBetween(before, after)
    PROVE  LET f == ApplyStats(DiffEntryToFile(ChangeRecord(before, after, p), revs),
                               DiffLineStats(records, before, after, revs.after))
               renames == RenamesBetween(before, after)
           IN  /\ f.before = revs.before /\ f.after = revs.after
               /\ f.original = IF p \in DOMAIN renames THEN renames[p]
                               ELSE IF before[p] = Absent THEN NoPath ELSE p
               /\ f.modified = IF after[p] = Absent THEN NoPath ELSE p
               /\ Shown(f) = FoundBetween(before, after, p)
<1> DEFINE renames == RenamesBetween(before, after)
           counted == ParseNumstat(DiffNumstat(records, before, after))
           stats == DiffLineStats(records, before, after, revs.after)
           g == DiffEntryToFile(ChangeRecord(before, after, p), revs)
           f == ApplyStats(g, stats)
           old == before[Original(renames, p)]
<1>1. /\ IsFile(g) /\ g.before = revs.before /\ g.after = revs.after
      /\ g.stored = FromPaths /\ g.stats = NoStats /\ PathOf(g) = p
      /\ g.original = IF p \in DOMAIN renames THEN renames[p]
                      ELSE IF before[p] = Absent THEN NoPath ELSE p
      /\ g.modified = IF after[p] = Absent THEN NoPath ELSE p
      /\ ChangeOf(g) = IF p \in DOMAIN renames THEN "moved" ELSE Kind(before[p], after[p])
  BY DiffFile
<1>2. /\ p \in DOMAIN counted <=> old \notin Binaries /\ after[p] \notin Binaries
      /\ p \in DOMAIN counted => counted[p] = Counts[<<old, after[p]>>]
  BY CountsBetween
<1>3. stats = [ending \in {revs.after} |-> counted]
  BY DEF DiffLineStats
<1>4. old = IF p \in DOMAIN renames THEN after[p] ELSE before[p]
  BY TextsOfRecord DEF Original
<1> HIDE DEF g, stats, counted, renames, old
<1>5. stats[RevOf(g, "modified")] = counted
  BY <1>1, <1>3 DEF RevOf
<1>6. ChangeOf(g) # "untracked"
  BY <1>1 DEF ChangeOf, ChangeOfPaths, FromPaths
<1>7. f = IF p \in DOMAIN counted THEN SetStats(g, counted[p]) ELSE g
  BY <1>1, <1>5, <1>6 DEF ApplyStats
<1>8. /\ f.original = g.original /\ f.modified = g.modified
      /\ f.before = g.before /\ f.after = g.after
      /\ PathOf(f) = p /\ ChangeOf(f) = ChangeOf(g)
  BY <1>1, ApplyStatsKeeps
<1> HIDE DEF f
<1>9. f.stats = IF p \in DOMAIN counted THEN counted[p] ELSE NoStats
  BY <1>1, <1>7, SetStatsKeeps
<1>10. f.stats = Lines1(old, after[p])
  BY <1>2, <1>9 DEF Lines1
<1>11. Shown(f) = FoundBetween(before, after, p)
  BY <1>1, <1>4, <1>8, <1>10 DEF Shown, FoundBetween, renames
<1> QED BY <1>1, <1>8, <1>11 DEF f, g, stats, renames

\* The two ends of a comparison that can be made.
AreEnds(revs) ==
    /\ revs.before \in {Commit, Parent}
    /\ revs.after \in {Commit, Parent, Index, Worktree}
    /\ Parent \in {revs.before, revs.after} => parent # <<>>

\* A comparison that can be resolved ends at two revisions that name trees.
LEMMA EndsOfComparisons ==
    ASSUME NEW c, Failed \notin {Ends(c).before, Ends(c).after}
    PROVE  AreEnds(Ends(c))
<1> DEFINE Is(rev) == rev \in {Commit, Parent, Failed} /\ (rev = Parent => parent # <<>>)
<1>1. Commit # Parent /\ Commit # Failed /\ Parent # Failed /\ Index # Parent /\ Worktree # Parent
  BY DEF Commit, Parent, Failed, Index, Worktree
<1>2. \A name : /\ Is(Resolve(name))
                /\ Resolve(name) = Commit => name = <<"HEAD">>
                /\ Resolve(name) = Parent => name = <<"HEAD~">>
  BY <1>1 DEF Resolve
<1>3. \A name, other : Is(MergeBase(name, other))
  <2>1. TAKE name, other
  <2>2. CASE Failed \in {Resolve(name), Resolve(other)} /\ name # other
    BY <1>1, <2>2 DEF MergeBase
  <2>3. CASE name = other
    BY <1>1, <1>2, <2>3 DEF MergeBase
  <2>4. CASE Failed \notin {Resolve(name), Resolve(other)} /\ name # other
    <3>1. Parent \in {Resolve(name), Resolve(other)}
      BY <1>2, <2>4
    <3>2. parent # <<>>
      BY <1>2, <3>1
    <3>3. MergeBase(name, other) = Parent
      BY <2>4 DEF MergeBase
    <3> QED BY <3>2, <3>3
  <2> QED BY <2>2, <2>3, <2>4
<1>4. \A before, after : Revs(before, after).before = before /\ Revs(before, after).after = after
  BY DEF Revs
<1> DEFINE against == Revs(Resolve(c.name), Worktree)
           staged == Revs(Resolve(c.name), Index)
           between == Revs(Resolve(c.name), Resolve(c.other))
           mergeBase == Revs(MergeBase(c.name, c.other), Resolve(c.other))
<1>5. Ends(c) \in {against, staged, between, mergeBase}
  BY DEF Ends
<1> HIDE DEF Is
<1>6. \A revs \in {against, staged, between, mergeBase} :
         Is(revs.before) /\ (Is(revs.after) \/ revs.after \in {Index, Worktree})
  BY <1>2, <1>3, <1>4
<1> HIDE DEF against, staged, between, mergeBase
<1>7. Is(Ends(c).before) /\ (Is(Ends(c).after) \/ Ends(c).after \in {Index, Worktree})
  BY <1>5, <1>6
<1> QED BY <1>1, <1>7 DEF AreEnds, Is

\* What the trees have, and what is read of a side.
LEMMA TreesOfEnds ==
    ASSUME TypeOK, NEW revs, AreEnds(revs)
    PROVE  /\ \A p \in Paths : Tree(revs.before)[p] \in Contents
           /\ \A p \in Paths : Tree(revs.after)[p] \in Contents
<1>1. \A rev \in {Commit, Parent, Index, Worktree} : \A p \in Paths :
         (rev = Parent => parent # <<>>) => Tree(rev)[p] \in Contents
  <2>1. TAKE rev \in {Commit, Parent, Index, Worktree}
  <2>2. TAKE p \in Paths
  <2>3. HAVE rev = Parent => parent # <<>>
  <2>4. head[p] \in Contents /\ index[p] \in Contents /\ work[p] \in Contents
    BY DEF TypeOK
  <2>5. Absent \in Contents
    BY DEF Contents
  <2>6. CASE rev = Commit
    BY <2>4, <2>6 DEF Tree, Commit, Parent, Index
  <2>7. CASE rev = Parent
    <3>1. Tree(rev) = parent[1]
      BY <2>7 DEF Tree, Commit, Parent, Index
    <3>2. PICK tree \in [Paths -> Contents] : parent = <<tree>>
      BY <2>3, <2>7 DEF TypeOK
    <3> QED BY <3>1, <3>2
  <2>8. CASE rev = Index
    BY <2>4, <2>8 DEF Tree, Commit, Parent, Index
  <2>9. CASE rev = Worktree
    <3>1. Tree(rev) = [q \in Paths |-> IF index[q] = Absent THEN Absent ELSE work[q]]
      BY <2>9 DEF Tree, Commit, Parent, Index, Worktree
    <3> QED BY <2>4, <2>5, <3>1
  <2> QED BY <2>6, <2>7, <2>8, <2>9
<1> QED BY <1>1 DEF AreEnds

\* The original side of a compared file is that of the tree before.
LEMMA ReadBefore ==
    ASSUME TypeOK, commit = head, NEW f, f.original \in Paths, AreEnds(RevsOf(f))
    PROVE  Read(f, "original") = Text(Tree(f.before)[f.original])
<1> DEFINE p == f.original
           b == Tree(f.before)[p]
<1>1. RevsOf(f).before = f.before /\ RevsOf(f).after = f.after
  BY DEF RevsOf, Revs
<1>2. p # NoPath
  BY PathsHaveNames
<1>3. b \in Contents
  BY <1>1, TreesOfEnds
<1>4. b # Failed
  BY <1>3, Texts2
<1>5. f.before \in {Commit, Parent}
  BY <1>1 DEF AreEnds
<1>6. Blob(f.before, p) = b
  BY <1>5 DEF Blob, Tree, Commit, Parent, Index
<1>7. BatchRead(f.before, p) = b
  BY <1>4, <1>6 DEF BatchRead
<1>8. f.before # Worktree
  BY <1>5 DEF Commit, Parent, Worktree
<1> HIDE DEF b
<1>9. Read(f, "original") = FromBytes(b, b \notin Binaries)
  BY <1>2, <1>4, <1>6, <1>7, <1>8 DEF Read, PathOfVersion, RevOf
<1> QED BY <1>9 DEF b, Text

\* The modified side is that of the tree after.
LEMMA ReadAfter ==
    ASSUME TypeOK, commit = head, \A p \in Paths : stages[p] = {}, NEW f, f.modified \in Paths,
           AreEnds(RevsOf(f)), Tree(f.after)[f.modified] # Absent
    PROVE  Read(f, "modified") = Text(Tree(f.after)[f.modified])
<1> DEFINE p == f.modified
           b == Tree(f.after)[p]
<1>1. RevsOf(f).before = f.before /\ RevsOf(f).after = f.after
  BY DEF RevsOf, Revs
<1>2. p # NoPath /\ stages[p] = {}
  BY PathsHaveNames
<1>3. b \in Contents
  BY <1>1, TreesOfEnds
<1>4. b # Failed
  BY <1>3, Texts2
<1>5. f.before # Worktree
  BY <1>1 DEF AreEnds, Commit, Parent, Worktree
<1>6. CASE f.after = Worktree
  <2>1. Tree(f.after) = [q \in Paths |-> IF index[q] = Absent THEN Absent ELSE work[q]]
    BY <1>6 DEF Tree, Commit, Parent, Index, Worktree
  <2>2. b = work[p]
    BY <2>1
  <2> HIDE DEF b
  <2>3. Read(f, "modified") = FromBytes(b, b \notin Binaries)
    BY <1>2, <1>4, <1>6, <2>2 DEF Read, PathOfVersion, RevOf
  <2> QED BY <2>3 DEF b, Text
<1>7. CASE f.after # Worktree
  <2>1. f.after \in {Commit, Parent, Index}
    BY <1>1, <1>7 DEF AreEnds
  <2>2. Blob(f.after, p) = b
    BY <1>2, <2>1 DEF Blob, Tree, Commit, Parent, Index
  <2>3. BatchRead(f.after, p) = b
    BY <1>4, <2>2 DEF BatchRead
  <2> HIDE DEF b
  <2>4. Read(f, "modified") = FromBytes(b, b \notin Binaries)
    BY <1>2, <1>4, <1>5, <1>7, <2>2, <2>3 DEF Read, PathOfVersion, RevOf
  <2> QED BY <2>4 DEF b, Text
<1> QED BY <1>6, <1>7

\* Each path that two trees have differently is listed once, as it is found, and
\* has the two sides its entry says.
ShowsTheTrees(files, revs) ==
    /\ IsInjective(files)
    /\ {Shown(f) : f \in Range(files)} = ChangedPaths(Tree(revs.before), Tree(revs.after))
    /\ \A i \in DOMAIN files :
          /\ Read(files[i], "original") = Absent <=> files[i].original = NoPath
          /\ Read(files[i], "modified") = Absent <=> files[i].modified = NoPath

\* Each entry of a comparison shows its two trees, and the entries are all that differs.
LEMMA ComparisonShowsTheTrees ==
    ASSUME TypeOK, commit = head, \A p \in Paths : stages[p] = {}, NEW revs, AreEnds(revs)
    PROVE  ShowsTheTrees(GetComparedFiles(revs), revs)
<1> DEFINE before == Tree(revs.before)
           after == Tree(revs.after)
           records == NameStatus(before, after)
           stats == DiffLineStats(records, before, after, revs.after)
           renames == RenamesBetween(before, after)
           C == ChangedBetween(before, after)
           Compared(p) == ApplyStats(DiffEntryToFile(ChangeRecord(before, after, p), revs), stats)
           files == GetComparedFiles(revs)
<1>1. PICK keys : RecordsOf(records, before, after, keys)
  BY RecordsOfTrees
<1>2. files = [i \in DOMAIN records |-> ApplyStats(DiffEntryToFile(records[i], revs), stats)]
  BY DEF GetComparedFiles, FilesBetween, FilesOfDiff
<1>3. \A p \in C : LET f == Compared(p) IN
         /\ f.before = revs.before /\ f.after = revs.after
         /\ f.original = IF p \in DOMAIN renames THEN renames[p]
                         ELSE IF before[p] = Absent THEN NoPath ELSE p
         /\ f.modified = IF after[p] = Absent THEN NoPath ELSE p
         /\ Shown(f) = FoundBetween(before, after, p)
  BY <1>1, ComparedFile
<1>4. \A p \in C : /\ p \in Paths /\ p # NoPath
                   /\ p \in DOMAIN renames =>
                         /\ renames[p] \in Paths /\ renames[p] # NoPath
                         /\ before[renames[p]] = after[p] /\ after[p] # Absent
  BY TextsOfRecord
<1>5. \A p \in Paths : before[p] \in Contents /\ after[p] \in Contents
  BY TreesOfEnds
<1>6. ChangedPaths(before, after) = {FoundBetween(before, after, p) : p \in C}
  BY FoundByComparing
<1>7. \A p : FoundBetween(before, after, p).path = p
  BY DEF FoundBetween
<1> HIDE DEF records, stats, files, Compared
<1>8. /\ Len(keys) \in Nat /\ \A k \in 1..Len(keys) : keys[k] \in C
      /\ \A p \in C : \E k \in 1..Len(keys) : keys[k] = p
      /\ \A k, l \in 1..Len(keys) : keys[k] = keys[l] => k = l
      /\ DOMAIN records = 1..Len(keys)
      /\ \A k \in 1..Len(keys) : records[k] = ChangeRecord(before, after, keys[k])
  BY <1>1 DEF RecordsOf, Lists
<1>9. /\ DOMAIN files = 1..Len(keys)
      /\ \A k \in 1..Len(keys) : files[k] = Compared(keys[k])
  BY <1>2, <1>8 DEF Compared
<1> HIDE DEF C, renames
<1>10. IsInjective(files)
  <2>1. \A k, l \in 1..Len(keys) : files[k] = files[l] => k = l
    <3>1. TAKE k, l \in 1..Len(keys)
    <3>2. HAVE files[k] = files[l]
    <3>3. /\ Shown(files[k]) = FoundBetween(before, after, keys[k])
          /\ Shown(files[l]) = FoundBetween(before, after, keys[l])
      BY <1>3, <1>8, <1>9
    <3>4. keys[k] = keys[l]
      BY <1>7, <3>2, <3>3
    <3> QED BY <1>8, <3>4
  <2> QED BY <1>9, <2>1 DEF IsInjective
<1>11. {Shown(f) : f \in Range(files)} = {FoundBetween(before, after, p) : p \in C}
  <2>1. \A k \in 1..Len(keys) : /\ keys[k] \in C
                                /\ Shown(files[k]) = FoundBetween(before, after, keys[k])
    BY <1>3, <1>8, <1>9
  <2>2. Range(files) = {files[k] : k \in 1..Len(keys)}
    BY <1>9 DEF Range
  <2> HIDE DEF before, after
  <2>3. \A f \in Range(files) : \E p \in C : Shown(f) = FoundBetween(before, after, p)
    BY <2>1, <2>2
  <2>4. \A p \in C : \E f \in Range(files) : Shown(f) = FoundBetween(before, after, p)
    BY <1>8, <2>1, <2>2
  <2> QED BY <2>3, <2>4
<1>12. ASSUME NEW i \in DOMAIN files
       PROVE  /\ Read(files[i], "original") = Absent <=> files[i].original = NoPath
              /\ Read(files[i], "modified") = Absent <=> files[i].modified = NoPath
  <2> DEFINE p == keys[i]
             f == files[i]
  <2>1. p \in C /\ f = Compared(p)
    BY <1>8, <1>9
  <2>2. /\ f.before = revs.before /\ f.after = revs.after
        /\ f.original = IF p \in DOMAIN renames THEN renames[p]
                        ELSE IF before[p] = Absent THEN NoPath ELSE p
        /\ f.modified = IF after[p] = Absent THEN NoPath ELSE p
    BY <1>3, <2>1
  <2>3. /\ p \in Paths /\ p # NoPath
        /\ p \in DOMAIN renames => /\ renames[p] \in Paths /\ renames[p] # NoPath
                                   /\ before[renames[p]] = after[p] /\ after[p] # Absent
    BY <1>4, <2>1
  <2>4. AreEnds(RevsOf(f))
    BY <2>2 DEF AreEnds, RevsOf, Revs
  <2>5. Tree(f.before) = before /\ Tree(f.after) = after
    BY <2>2
  <2> HIDE DEF f, p, before, after
  <2>6. ASSUME f.original = NoPath PROVE Read(f, "original") = Absent
    <3>1. PathOfVersion(f, "original") = NoPath
      BY <2>6 DEF PathOfVersion
    <3> QED BY <3>1, ReadNothing
  <2>7. ASSUME f.original # NoPath PROVE Read(f, "original") # Absent
    <3>1. f.original \in Paths /\ before[f.original] # Absent
      BY <2>2, <2>3, <2>7
    <3>2. Read(f, "original") = Text(before[f.original])
      BY <2>4, <2>5, <3>1, ReadBefore
    <3>3. before[f.original] \in Contents
      BY <1>5, <3>1
    <3> QED BY <3>1, <3>2, <3>3, Texts2
  <2>8. ASSUME f.modified = NoPath PROVE Read(f, "modified") = Absent
    <3>1. PathOfVersion(f, "modified") = NoPath
      BY <2>8 DEF PathOfVersion
    <3> QED BY <3>1, ReadNothing
  <2>9. ASSUME f.modified # NoPath PROVE Read(f, "modified") # Absent
    <3>1. f.modified \in Paths /\ after[f.modified] # Absent
      BY <2>2, <2>3, <2>9
    <3>2. Read(f, "modified") = Text(after[f.modified])
      BY <2>4, <2>5, <3>1, ReadAfter
    <3>3. after[f.modified] \in Contents
      BY <1>5, <3>1
    <3> QED BY <3>1, <3>2, <3>3, Texts2
  <2> QED BY <2>6, <2>7, <2>8, <2>9 DEF f
<1> QED BY <1>6, <1>10, <1>11, <1>12 DEF ShowsTheTrees, files

\* A comparison of a branch with the commit it was left at shows nothing.
LEMMA NothingOfItsOwn ==
    ASSUME parent # <<>>
    PROVE  GetComparedFiles(Ends(DiffTypeOf(<< <<"HEAD", "HEAD~">> >>, FALSE))) = <<>>
<1> DEFINE c == DiffTypeOf(<< <<"HEAD", "HEAD~">> >>, FALSE)
           tree == Tree(Parent)
           records == NameStatus(tree, tree)
<1>1. c = [type |-> "mergeBase", name |-> <<"HEAD">>, other |-> <<"HEAD~">>]
  <2>1. << <<"HEAD", "HEAD~">> >> # <<>> /\ Len(<< <<"HEAD", "HEAD~">> >>) = 1
    OBVIOUS
  <2>2. << <<"HEAD", "HEAD~">> >>[1] = <<"HEAD", "HEAD~">>
    OBVIOUS
  <2>3. Len(<<"HEAD", "HEAD~">>) = 2 /\ <<"HEAD", "HEAD~">>[1] = "HEAD" /\ <<"HEAD", "HEAD~">>[2] = "HEAD~"
    OBVIOUS
  <2> QED BY <2>1, <2>2, <2>3 DEF DiffTypeOf
<1>2. <<"HEAD">> # <<"HEAD~">>
  OBVIOUS
<1>3. Resolve(<<"HEAD">>) = Commit /\ Resolve(<<"HEAD~">>) = Parent
  <2>1. ~Unborn
    BY DEF Unborn
  <2> QED BY <1>2, <2>1 DEF Resolve
<1>4. MergeBase(<<"HEAD">>, <<"HEAD~">>) = Parent
  BY <1>2, <1>3 DEF MergeBase, Commit, Parent, Failed
<1> HIDE DEF c
<1>5. Ends(c) = Revs(Parent, Parent)
  BY <1>1, <1>3, <1>4 DEF Ends
<1>6. PICK keys : RecordsOf(records, tree, tree, keys)
  BY RecordsOfTrees
<1>7. ChangedBetween(tree, tree) = {}
  BY DEF ChangedBetween
<1> HIDE DEF records
<1>8. Len(keys) \in Nat /\ \A k \in 1..Len(keys) : keys[k] \in {}
  BY <1>6, <1>7 DEF RecordsOf, Lists
<1>9. DOMAIN records = {}
  BY <1>6, <1>8 DEF RecordsOf
<1>10. GetComparedFiles(Revs(Parent, Parent)) = <<>>
  <2> DEFINE revs == Revs(Parent, Parent)
             stats == DiffLineStats(records, tree, tree, revs.after)
  <2>1. revs.before = Parent /\ revs.after = Parent
    BY DEF Revs
  <2>2. GetComparedFiles(revs) = [i \in DOMAIN records |-> ApplyStats(DiffEntryToFile(records[i], revs), stats)]
    BY <2>1 DEF GetComparedFiles, FilesBetween, FilesOfDiff, records
  <2> HIDE DEF revs, stats
  <2>3. [i \in {} |-> ApplyStats(DiffEntryToFile(records[i], revs), stats)] = <<>>
    OBVIOUS
  <2> QED BY <1>9, <2>2, <2>3 DEF revs
<1> QED BY <1>5, <1>10 DEF c

\* So every comparison that can be asked for is answered as it should be.
LEMMA ComparisonsAreFound ==
    ASSUME IInv
    PROVE  ComparisonsAreFaithful
<1>1. SUFFICES ASSUME fresh, \A p \in Paths : stages[p] = {}
               PROVE  /\ \A revs \in {Ends(c) : c \in Comparisons} :
                            Failed \notin {revs.before, revs.after} =>
                               ShowsTheTrees(GetComparedFiles(revs), revs)
                      /\ parent # <<>> =>
                            GetComparedFiles(Ends(DiffTypeOf(<< <<"HEAD", "HEAD~">> >>, FALSE))) = <<>>
  BY DEF ComparisonsAreFaithful, ShowsTheTrees
<1>2. TypeOK /\ commit = head
  BY <1>1 DEF IInv, ListInv
<1>3. ASSUME NEW revs \in {Ends(c) : c \in Comparisons}, Failed \notin {revs.before, revs.after}
      PROVE  ShowsTheTrees(GetComparedFiles(revs), revs)
  <2>1. AreEnds(revs)
    BY <1>3, EndsOfComparisons
  <2> QED BY <1>1, <1>2, <2>1, ComparisonShowsTheTrees
<1> QED BY <1>3, NothingOfItsOwn

\* README: "lists unstaged, staged, untracked, deleted, renamed, and conflicted
\* files": while nothing changes the repository, the list is what comparing it
\* path by path gives, and so is every other comparison (get_changed_files).
THEOREM ListIsRight == Spec => []ListIsFaithful
<1>1. ASSUME IInv PROVE ListIsFaithful
  <2>1. SUFFICES ASSUME fresh
                 PROVE  ListIsFaithful
    BY DEF ListIsFaithful
  <2> DEFINE Mine(h) == {i \in DOMAIN list : /\ Heading(RevsOf(list[i])) = h
                                             /\ ~Unmarked(PathOf(list[i]))}
             Adjust(h, e) == IF h = "Staged Changes" /\ e.change = "modified"
                                /\ work[e.path] = Absent
                             THEN [e EXCEPT !.change = "deleted"] ELSE e
  <2>2. ASSUME NEW h \in {"Changes", "Staged Changes"}
        PROVE  /\ \A i, j \in Mine(h) : list[i] = list[j] => i = j
               /\ {Shown(list[i]) : i \in Mine(h)}
                      = {Adjust(h, e) : e \in {c \in ChangedFiles(h) : ~Unmarked(c.path)}}
    <3>1. \A i, j \in Mine(h) : list[i] = list[j] => i = j
      BY <1>1, <2>1, FilesListedOnce
    <3>2. CASE h = "Changes"
      <4>1. {Shown(list[i]) : i \in Mine(h)} = {c \in ChangedFiles(h) : ~Unmarked(c.path)}
        BY <1>1, <2>1, <3>2, ChangesAreListed
      <4>2. \A e : Adjust(h, e) = e
        BY <3>2
      <4> QED BY <3>1, <4>1, <4>2
    <3>3. CASE h = "Staged Changes"
      <4>1. \A e : Adjust(h, e) = Adjusted(e)
        BY <3>3 DEF Adjusted
      <4>2. {Shown(list[i]) : i \in Mine(h)}
              = {Adjusted(e) : e \in {c \in ChangedFiles(h) : ~Unmarked(c.path)}}
        BY <1>1, <2>1, <3>3, StagedChangesAreListed
      <4> HIDE DEF Adjust, Mine
      <4> QED BY <3>1, <4>1, <4>2
    <3> QED BY <3>2, <3>3
  <2>3. \A i, j \in DOMAIN list : i < j /\ list[i].after = Index => list[j].after = Index
    BY <1>1, <2>1, FilesListedOnce
  <2>4. ComparisonsAreFaithful
    BY <1>1, ComparisonsAreFound
  <2> QED BY <2>2, <2>3, <2>4 DEF ListIsFaithful
<1> QED BY <1>1, Invariant, PTL

=============================================================================
