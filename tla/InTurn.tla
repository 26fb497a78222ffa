-------------------------------- MODULE InTurn --------------------------------
(* A loop over a sequence: what has become of b when the first n elements of a *)
(* sequence have been taken in turn.  Instantiated with the body of the loop.  *)
EXTENDS Naturals, Sequences, WellFoundedInduction, TLAPS

CONSTANT Step(_, _)  \* what there was and an element -> what there is then

After(b, s, n) ==
    LET upTo[i \in 0..n] == IF i = 0 THEN b ELSE Step(upTo[i - 1], s[i])
    IN upTo[n]

-------------------------------------------------------------------------------

Less == {ss \in Nat \X Nat : ss[1] < ss[2]}

LEMMA Smallest == ASSUME NEW T \in SUBSET Nat, T # {} PROVE \E n \in T : \A m \in T : n <= m
<1>1. IsWellFoundedOn(Less, Nat)
  BY NatLessThanWellFounded, Zenon DEF OpToRel, Less
<1>2. PICK n \in T : \A m \in T : <<m, n>> \notin Less
  BY <1>1, WFMin, Zenon
<1>3. ASSUME NEW m \in T PROVE n <= m
  <2>1. <<m, n>> \in Nat \X Nat /\ <<m, n>>[1] = m /\ <<m, n>>[2] = n
    OBVIOUS
  <2>2. ~(m < n)
    BY <1>2, <2>1, Zenon DEF Less
  <2> QED BY <2>2
<1> QED BY <1>3

\* A set of numbers with 0, and with i + 1 if with i, has all of them.
LEMMA Counting ==
  ASSUME NEW n \in Nat, NEW G, 0 \in G, \A i \in 0..(n - 1) : i \in G => i + 1 \in G
  PROVE  \A i \in 0..n : i \in G
<1> DEFINE Rest == {i \in 0..n : i \notin G}
<1>1. SUFFICES ASSUME Rest # {} PROVE FALSE
  OBVIOUS
<1>2. Rest \in SUBSET Nat
  OBVIOUS
<1>3. PICK k \in Rest : \A m \in Rest : k <= m
  <2> HIDE DEF Rest
  <2> QED BY <1>1, <1>2, Smallest
<1>4. k # 0 /\ k - 1 \in 0..(n - 1) /\ k - 1 \notin Rest
  BY <1>3
<1> QED BY <1>3, <1>4

\* The function the definition chooses exists.
LEMMA LoopEnds ==
  ASSUME NEW b, NEW s, NEW n \in Nat
  PROVE  \E g : /\ g = [i \in 0..n |-> IF i = 0 THEN b ELSE Step(g[i - 1], s[i])]
                /\ g[n] = After(b, s, n)
<1> DEFINE UpTo(g, k) == [i \in 0..k |-> IF i = 0 THEN b ELSE Step(g[i - 1], s[i])]
           Good == {k \in Nat : \E g : g = UpTo(g, k)}
           F == CHOOSE g : g = UpTo(g, n)
<1>1. After(b, s, n) = F[n]
  BY Zenon DEF After
<1>2. 0 \in Good
  <2> DEFINE g == [i \in 0..0 |-> b]
  <2>1. g = UpTo(g, 0)
    OBVIOUS
  <2> QED BY <2>1
<1>3. ASSUME NEW k \in 0..(n - 1), k \in Good PROVE k + 1 \in Good
  <2>1. PICK g : g = UpTo(g, k)
    BY <1>3
  <2> DEFINE h == [i \in 0..(k + 1) |-> IF i = 0 THEN b ELSE Step(g[i - 1], s[i])]
  <2>2. ASSUME NEW i \in 0..k PROVE h[i] = g[i]
    <3>1. g[i] = UpTo(g, k)[i]
      BY <2>1, Zenon
    <3>2. UpTo(g, k)[i] = IF i = 0 THEN b ELSE Step(g[i - 1], s[i])
      OBVIOUS
    <3>3. h[i] = IF i = 0 THEN b ELSE Step(g[i - 1], s[i])
      OBVIOUS
    <3> QED BY <3>1, <3>2, <3>3, Zenon
  <2>3. ASSUME NEW i \in 1..(k + 1) PROVE h[i - 1] = g[i - 1]
    <3>1. i - 1 \in 0..k
      OBVIOUS
    <3> HIDE DEF h
    <3> QED BY <2>2, <3>1
  <2>4. h = UpTo(h, k + 1)
    <3>1. ASSUME NEW i \in 0..(k + 1)
          PROVE  (IF i = 0 THEN b ELSE Step(g[i - 1], s[i])) = (IF i = 0 THEN b ELSE Step(h[i - 1], s[i]))
      <4> HIDE DEF h
      <4>1. CASE i = 0  BY <4>1, Zenon
      <4>2. CASE i # 0
        <5>1. i \in 1..(k + 1)
          BY <4>2
        <5>2. h[i - 1] = g[i - 1]
          BY <2>3, <5>1, Zenon
        <5> QED BY <5>2, Zenon
      <4> QED BY <4>1, <4>2
    <3> QED BY <3>1, Zenon
  <2>5. k + 1 \in Nat
    OBVIOUS
  <2> QED BY <2>4, <2>5, Zenon
<1>4. n \in Good
  <2>1. \A k \in 0..n : k \in Good
    <3> HIDE DEF Good
    <3> QED BY <1>2, <1>3, Counting
  <2>2. n \in 0..n
    OBVIOUS
  <2> QED BY <2>1, <2>2, Zenon
<1>5. F = UpTo(F, n)
  <2>1. \E g : g = UpTo(g, n)
    BY <1>4
  <2> QED BY <2>1, Zenon
<1> QED BY <1>1, <1>5, Zenon

\* Of a loop that goes on, the first turns are those of the shorter one.
LEMMA FirstTurns ==
  ASSUME NEW b, NEW s, NEW n \in Nat, NEW m \in 0..n,
         NEW g, g = [i \in 0..n |-> IF i = 0 THEN b ELSE Step(g[i - 1], s[i])]
  PROVE  g[m] = After(b, s, m)
<1>0. m \in Nat
  OBVIOUS
<1>1. PICK f : /\ f = [i \in 0..m |-> IF i = 0 THEN b ELSE Step(f[i - 1], s[i])]
               /\ f[m] = After(b, s, m)
  BY <1>0, LoopEnds, Zenon
<1> DEFINE Same == {i \in Nat : f[i] = g[i]}
<1>2. 0 \in Same
  <2>1. 0 \in 0..m /\ 0 \in 0..n /\ 0 \in Nat
    OBVIOUS
  <2>2. f[0] = b /\ g[0] = b
    BY <1>1, <2>1
  <2> QED BY <2>1, <2>2
<1>3. ASSUME NEW i \in 0..(m - 1), i \in Same PROVE i + 1 \in Same
  <2>1. i + 1 \in 0..m /\ i + 1 \in 0..n /\ i + 1 # 0 /\ (i + 1) - 1 = i /\ i + 1 \in Nat
    OBVIOUS
  <2>2. f[i + 1] = Step(f[i], s[i + 1])
    <3>1. f[i + 1] = IF i + 1 = 0 THEN b ELSE Step(f[(i + 1) - 1], s[i + 1])
      BY <1>1, <2>1, Zenon
    <3> QED BY <2>1, <3>1, Zenon
  <2>3. g[i + 1] = Step(g[i], s[i + 1])
    <3>1. g[i + 1] = IF i + 1 = 0 THEN b ELSE Step(g[(i + 1) - 1], s[i + 1])
      BY <2>1, Zenon
    <3> QED BY <2>1, <3>1, Zenon
  <2>4. f[i] = g[i]
    BY <1>3
  <2> QED BY <2>1, <2>2, <2>3, <2>4, Zenon
<1>4. \A i \in 0..m : i \in Same
  <2> HIDE DEF Same
  <2> QED BY <1>0, <1>2, <1>3, Counting
<1>5. m \in 0..m
  OBVIOUS
<1> QED BY <1>1, <1>4, <1>5, Zenon

\* Nothing has been taken.
LEMMA AtFirst == \A b, s : After(b, s, 0) = b
<1> TAKE b, s
<1>1. 0 \in Nat /\ 0 \in 0..0
  OBVIOUS
<1>2. PICK g : /\ g = [i \in 0..0 |-> IF i = 0 THEN b ELSE Step(g[i - 1], s[i])]
               /\ g[0] = After(b, s, 0)
  BY <1>1, LoopEnds, Zenon
<1>3. g[0] = b
  BY <1>1, <1>2, Zenon
<1> QED BY <1>2, <1>3, Zenon

\* One turn more.
LEMMA OneMore == \A b, s : \A n \in Nat : After(b, s, n + 1) = Step(After(b, s, n), s[n + 1])
<1> TAKE b, s
<1> TAKE n \in Nat
<1>1. n + 1 \in Nat /\ n + 1 \in 0..(n + 1) /\ n \in 0..(n + 1) /\ n + 1 # 0 /\ (n + 1) - 1 = n
  OBVIOUS
<1>2. PICK g : /\ g = [i \in 0..(n + 1) |-> IF i = 0 THEN b ELSE Step(g[i - 1], s[i])]
               /\ g[n + 1] = After(b, s, n + 1)
  BY <1>1, LoopEnds, Zenon
<1>3. g[n] = After(b, s, n)
  BY <1>1, <1>2, FirstTurns, Zenon
<1>4. g[n + 1] = Step(g[n], s[n + 1])
  <2>1. g[n + 1] = IF n + 1 = 0 THEN b ELSE Step(g[(n + 1) - 1], s[n + 1])
    BY <1>1, <1>2, Zenon
  <2> QED BY <1>1, <2>1, Zenon
<1> QED BY <1>2, <1>3, <1>4, Zenon

\* Only the elements taken count.
LEMMA OnlyTheFirst ==
  \A b, s, t : \A n \in Nat :
      (\A i \in 1..n : s[i] = t[i]) => After(b, s, n) = After(b, t, n)
<1> TAKE b, s, t
<1> TAKE n \in Nat
<1> HAVE \A i \in 1..n : s[i] = t[i]
<1> DEFINE Same == {i \in Nat : After(b, s, i) = After(b, t, i)}
<1>1. 0 \in Same
  BY AtFirst
<1>2. ASSUME NEW i \in 0..(n - 1), i \in Same PROVE i + 1 \in Same
  <2>1. i \in Nat /\ i + 1 \in Nat /\ i + 1 \in 1..n
    OBVIOUS
  <2>2. s[i + 1] = t[i + 1] /\ After(b, s, i) = After(b, t, i)
    BY <1>2, <2>1
  <2>3. After(b, s, i + 1) = After(b, t, i + 1)
    <3>1. \A r : After(b, r, i + 1) = Step(After(b, r, i), r[i + 1])
      BY <2>1, OneMore, Zenon
    <3> QED BY <2>2, <3>1, Zenon
  <2> QED BY <2>1, <2>3
<1>3. \A i \in 0..n : i \in Same
  <2> HIDE DEF Same
  <2> QED BY <1>1, <1>2, Counting
<1>4. n \in 0..n
  OBVIOUS
<1> QED BY <1>3, <1>4, Zenon
===============================================================================
