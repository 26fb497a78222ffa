---------------------------- MODULE Journal_proofs ----------------------------
(***************************************************************************)
(* What holds of JournalReplay and MftWindow for any tree, names, number   *)
(* of files and length of the journal.                                     *)
(*                                                                         *)
(* The tree and the paths of its links; how a stable path projection       *)
(* follows the tree record by record; the volume and its journal; the      *)
(* replay, with the invariant of the reader; and the first reading of the  *)
(* file table, with the invariant of its window.                           *)
(***************************************************************************)
EXTENDS JournalReplay, MftWindow, FiniteSetTheorems, TLAPS

--------------------------------------------------------------------------------
(* The tree *)

\* The fields and the parent of a link, and what a directory's link says of it.
LEMMA LinkFacts ==
  ASSUME NEW ls, IsTree(ls), NEW l \in ls
  PROVE  /\ l.ref \in Refs /\ l.parent \in Refs \cup {Root} /\ l.name \in Names /\ l.dir \in BOOLEAN
         /\ l = LinkTo(l.ref, l.parent, l.name, l.dir)
         /\ l.ref # Root
         /\ l.parent \in Directories(ls)
         /\ l.dir => l.ref \in Directories(ls) /\ \A k \in ls : k.ref = l.ref => k = l
         /\ \A k \in ls : k.parent = l.parent /\ Fold[k.name] = Fold[l.name] => k = l
<1>1. l \in Links /\ l.parent \in Directories(ls) /\ (l.dir => LinksOf(ls, l.ref) = {l})
      /\ NameFree(ls \ {l}, l.parent, l.name)
  BY DEF IsTree
<1>2. l.ref \in Refs /\ l.parent \in Refs \cup {Root} /\ l.name \in Names /\ l.dir \in BOOLEAN
      /\ l = LinkTo(l.ref, l.parent, l.name, l.dir)
  BY <1>1 DEF Links, LinkTo
<1>3. l.ref # Root
  BY <1>2, VolumeAssumption
<1>4. l.dir => l.ref \in Directories(ls) /\ \A k \in ls : k.ref = l.ref => k = l
  BY <1>1 DEF LinksOf, Directories
<1>5. ASSUME NEW k \in ls, k.parent = l.parent, Fold[k.name] = Fold[l.name] PROVE k = l
  BY <1>1, <1>5 DEF NameFree
<1> QED BY <1>1, <1>2, <1>3, <1>4, <1>5

\* A directory is the root or what a link is of.
LEMMA DirectoryCases ==
  ASSUME NEW ls, NEW d \in Directories(ls)
  PROVE  d = Root \/ \E k \in ls : k.dir /\ k.ref = d
  BY DEF Directories

\* The drive root is a directory of every tree.
LEMMA RootIsDirectory == \A ls : Root \in Directories(ls)
  BY DEF Directories

\* Induction from the root down.
LEMMA TreeInduction ==
  ASSUME NEW ls, IsTree(ls), NEW G, Root \in G,
         \A k \in ls : k.dir /\ k.parent \in G => k.ref \in G
  PROVE  Directories(ls) \subseteq G
<1> SUFFICES ASSUME NEW d \in Directories(ls), d \notin G PROVE FALSE
  OBVIOUS
<1> DEFINE D == Directories(ls) \ G
<1>1. D \in Upward(ls)
  <2>1. ASSUME NEW l \in ls, l.dir, l.ref \in D PROVE l.parent \in D
    BY <2>1, LinkFacts
  <2> QED BY <2>1 DEF Upward
<1>2. Root \in AtOrAbove(ls, d)
  BY DEF IsTree
<1> QED BY <1>1, <1>2 DEF AtOrAbove

\* The directories at or above one are closed under going up, and the fewest that are.
LEMMA AboveIsUpward ==
  ASSUME NEW ls, IsTree(ls), NEW d \in Directories(ls)
  PROVE  /\ AtOrAbove(ls, d) \in Upward(ls)
         /\ d \in AtOrAbove(ls, d)
         /\ AtOrAbove(ls, d) \subseteq Directories(ls)
         /\ Root \in AtOrAbove(ls, d)
<1>1. Root \in AtOrAbove(ls, d)
  BY DEF IsTree
<1>2. d \in AtOrAbove(ls, d) /\ AtOrAbove(ls, d) \subseteq Directories(ls)
  BY DEF AtOrAbove
<1>3. ASSUME NEW l \in ls, l.dir, l.ref \in AtOrAbove(ls, d) PROVE l.parent \in AtOrAbove(ls, d)
  <2>1. l.parent \in Directories(ls)
    BY LinkFacts
  <2>2. ASSUME NEW D \in Upward(ls), d \in D PROVE l.parent \in D
    BY <1>3, <2>2 DEF AtOrAbove, Upward
  <2> QED BY <2>1, <2>2 DEF AtOrAbove
<1> QED BY <1>1, <1>2, <1>3 DEF Upward

\* What is above a directory above another is above that one.
LEMMA AboveIsTransitive ==
  ASSUME NEW ls, IsTree(ls), NEW d \in Directories(ls), NEW e \in AtOrAbove(ls, d)
  PROVE  AtOrAbove(ls, e) \subseteq AtOrAbove(ls, d)
  BY AboveIsUpward DEF AtOrAbove

\* Only the root is at or above the root.
LEMMA AboveRoot == ASSUME NEW ls, IsTree(ls) PROVE AtOrAbove(ls, Root) = {Root}
<1>1. {Root} \in Upward(ls)
  BY LinkFacts, RootIsDirectory DEF Upward
<1> QED BY <1>1, AboveIsUpward, RootIsDirectory DEF AtOrAbove

\* What is at or above a directory is itself or at or above its parent.
LEMMA AboveDirectory ==
  ASSUME NEW ls, IsTree(ls), NEW k \in ls, k.dir
  PROVE  AtOrAbove(ls, k.ref) = AtOrAbove(ls, k.parent) \cup {k.ref}
<1> DEFINE U == AtOrAbove(ls, k.parent) \cup {k.ref}
<1>0. k.ref \in Directories(ls) /\ k.parent \in Directories(ls)
  BY LinkFacts
<1>1. U \in Upward(ls)
  <2>1. ASSUME NEW l \in ls, l.dir, l.ref \in U PROVE l.parent \in U
    <3>1. CASE l.ref = k.ref
      BY <3>1, <1>0, LinkFacts, AboveIsUpward
    <3>2. CASE l.ref \in AtOrAbove(ls, k.parent)
      BY <3>2, <2>1, <1>0, AboveIsUpward DEF Upward
    <3> QED BY <2>1, <3>1, <3>2
  <2>2. U \subseteq Directories(ls)
    BY <1>0, AboveIsUpward
  <2> QED BY <2>1, <2>2 DEF Upward
<1>2. AtOrAbove(ls, k.ref) \subseteq U
  BY <1>1 DEF AtOrAbove
<1>3. k.parent \in AtOrAbove(ls, k.ref)
  BY <1>0, AboveIsUpward DEF Upward
<1>4. U \subseteq AtOrAbove(ls, k.ref)
  BY <1>0, <1>3, AboveIsTransitive, AboveIsUpward
<1> QED BY <1>2, <1>4

\* No directory is above its parent.
LEMMA NoCircle ==
  ASSUME NEW ls, IsTree(ls), NEW k \in ls, k.dir
  PROVE  k.ref \notin AtOrAbove(ls, k.parent)
<1> SUFFICES ASSUME k.ref \in AtOrAbove(ls, k.parent) PROVE FALSE
  OBVIOUS
<1>0. k.ref \in Directories(ls) /\ k.ref # Root
  BY LinkFacts
<1> DEFINE C == {d \in AtOrAbove(ls, k.ref) : k.ref \in AtOrAbove(ls, d)}
<1>1. C \in Upward(ls)
  <2>1. ASSUME NEW m \in ls, m.dir, m.ref \in C PROVE m.parent \in C
    <3>1. m.parent \in AtOrAbove(ls, k.ref)
      BY <1>0, <2>1, AboveIsUpward DEF Upward
    <3>2. k.ref \in AtOrAbove(ls, m.parent) \cup {m.ref}
      BY <2>1, AboveDirectory
    <3>3. m.ref = k.ref => m = k
      BY <2>1, LinkFacts
    <3> QED BY <3>1, <3>2, <3>3
  <2> QED BY <1>0, <2>1, AboveIsUpward DEF Upward
<1>2. k.ref \in C
  BY <1>0, AboveIsUpward
<1>3. Root \in C
  BY <1>0, <1>1, <1>2, AboveIsUpward DEF AtOrAbove
<1> QED BY <1>0, <1>3, AboveRoot

\* A directory has finitely many above it.
LEMMA AboveIsFinite ==
  ASSUME NEW ls, IsTree(ls) PROVE \A d \in Directories(ls) : IsFiniteSet(AtOrAbove(ls, d))
<1> DEFINE G == {d \in Directories(ls) : IsFiniteSet(AtOrAbove(ls, d))}
<1>1. Root \in G
  <2>1. AtOrAbove(ls, Root) = {Root} /\ Root \in Directories(ls)
    BY AboveRoot, RootIsDirectory
  <2>2. IsFiniteSet({Root})
    BY FS_Singleton, Zenon
  <2> QED BY <2>1, <2>2
<1>2. ASSUME NEW k \in ls, k.dir, k.parent \in G PROVE k.ref \in G
  <2>1. AtOrAbove(ls, k.ref) = AtOrAbove(ls, k.parent) \cup {k.ref} /\ k.ref \in Directories(ls)
    BY <1>2, AboveDirectory, LinkFacts
  <2>2. IsFiniteSet(AtOrAbove(ls, k.parent) \cup {k.ref})
    BY <1>2, FS_AddElement
  <2> QED BY <2>1, <2>2
<1>3. Directories(ls) \subseteq G
  <2> HIDE DEF G
  <2> QED BY <1>1, <1>2, TreeInduction
<1> QED BY <1>3

\* The root has depth 0, and a directory is one deeper than its parent.
LEMMA DepthFacts ==
  ASSUME NEW ls, IsTree(ls)
  PROVE  /\ Depth(ls, Root) = 0
         /\ \A d \in Directories(ls) : Depth(ls, d) \in Nat
         /\ \A k \in ls : k.dir => Depth(ls, k.ref) = Depth(ls, k.parent) + 1
         /\ \A d \in Directories(ls) : Depth(ls, d) = 0 => d = Root
<1>1. Depth(ls, Root) = 0
  BY AboveRoot, FS_EmptySet DEF Depth
<1>2. \A d \in Directories(ls) : IsFiniteSet(AtOrAbove(ls, d) \ {Root})
  BY AboveIsFinite, FS_RemoveElement
<1>3. \A d \in Directories(ls) : Depth(ls, d) \in Nat
  BY <1>2, FS_CardinalityType DEF Depth
<1>4. ASSUME NEW k \in ls, k.dir PROVE Depth(ls, k.ref) = Depth(ls, k.parent) + 1
  <2>1. k.ref # Root /\ k.ref \notin AtOrAbove(ls, k.parent) /\ k.parent \in Directories(ls)
    BY <1>4, LinkFacts, NoCircle
  <2>2. AtOrAbove(ls, k.ref) \ {Root} = (AtOrAbove(ls, k.parent) \ {Root}) \cup {k.ref}
    BY <1>4, <2>1, AboveDirectory
  <2> QED BY <1>2, <2>1, <2>2, FS_AddElement DEF Depth
<1>5. ASSUME NEW d \in Directories(ls), Depth(ls, d) = 0 PROVE d = Root
  <2>1. AtOrAbove(ls, d) \ {Root} = {}
    BY <1>2, <1>5, FS_EmptySet DEF Depth
  <2> QED BY <2>1, AboveIsUpward
<1> QED BY <1>1, <1>3, <1>4, <1>5

\* Of the directories at or above one none is deeper, and only itself is as deep.
LEMMA DeeperIsBelow ==
  ASSUME NEW ls, IsTree(ls), NEW d \in Directories(ls), NEW e \in AtOrAbove(ls, d)
  PROVE  Depth(ls, e) <= Depth(ls, d) /\ (Depth(ls, e) = Depth(ls, d) => e = d)
<1> DEFINE G == {x \in Directories(ls) : \A y \in AtOrAbove(ls, x) :
                    Depth(ls, y) <= Depth(ls, x) /\ (Depth(ls, y) = Depth(ls, x) => y = x)}
<1>1. Root \in G
  BY AboveRoot, RootIsDirectory, DepthFacts
<1>2. ASSUME NEW k \in ls, k.dir, k.parent \in G PROVE k.ref \in G
  <2>1. k.ref \in Directories(ls) /\ k.parent \in Directories(ls)
    BY <1>2, LinkFacts
  <2>2. Depth(ls, k.ref) = Depth(ls, k.parent) + 1 /\ Depth(ls, k.parent) \in Nat
    BY <1>2, <2>1, DepthFacts
  <2>3. ASSUME NEW y \in AtOrAbove(ls, k.ref)
        PROVE  Depth(ls, y) <= Depth(ls, k.ref) /\ (Depth(ls, y) = Depth(ls, k.ref) => y = k.ref)
    <3>1. y = k.ref \/ (y \in AtOrAbove(ls, k.parent) /\ y \in Directories(ls))
      BY <1>2, <2>1, AboveDirectory, AboveIsUpward
    <3>2. y \in Directories(ls) => Depth(ls, y) \in Nat
      BY DepthFacts
    <3> QED BY <1>2, <2>2, <3>1, <3>2
  <2> QED BY <2>1, <2>3
<1>3. Directories(ls) \subseteq G
  <2> HIDE DEF G
  <2> QED BY <1>1, <1>2, TreeInduction
<1> QED BY <1>3

\* The path of a directory is that of its parent and its name.
LEMMA PathEquations ==
  ASSUME NEW ls, IsTree(ls)
  PROVE  /\ DirPath(ls, Root) = <<>>
         /\ \A k \in ls : k.dir => DirPath(ls, k.ref) = Append(DirPath(ls, k.parent), k.name)
<1>1. DirPath(ls, Root) = <<>>
  <2>1. DirPath(ls, Root) = [i \in 1..0 |-> NameOf(ls, Ancestor(ls, Root, i))]
    BY DepthFacts DEF DirPath
  <2> QED BY <2>1
<1>2. ASSUME NEW k \in ls, k.dir PROVE DirPath(ls, k.ref) = Append(DirPath(ls, k.parent), k.name)
  <2> DEFINE n == Depth(ls, k.parent)
             A(d, i) == {e \in AtOrAbove(ls, d) \ {Root} : Depth(ls, e) = i}
  <2>0. /\ k.ref \in Directories(ls) /\ k.parent \in Directories(ls) /\ k.ref # Root
        /\ n \in Nat /\ Depth(ls, k.ref) = n + 1
    BY <1>2, LinkFacts, DepthFacts
  <2>1. \A d, i : Ancestor(ls, d, i) = CHOOSE e : e \in A(d, i)
    BY Zenon DEF Ancestor
  <2>2. ASSUME NEW i \in 1..n PROVE A(k.ref, i) = A(k.parent, i)
    BY <1>2, <2>0, AboveDirectory
  <2>3. A(k.ref, n + 1) = {k.ref}
    <3>1. \A e \in AtOrAbove(ls, k.parent) : Depth(ls, e) <= n
      BY <2>0, DeeperIsBelow
    <3> QED BY <1>2, <2>0, <3>1, AboveDirectory
  <2> HIDE DEF A
  <2>4. \A i \in 1..n : Ancestor(ls, k.ref, i) = Ancestor(ls, k.parent, i)
    BY <2>1, <2>2, Zenon
  <2>5. Ancestor(ls, k.ref, n + 1) = k.ref
    BY <2>1, <2>3
  <2>6. NameOf(ls, k.ref) = k.name
    <3>1. \A l \in ls : l.ref = k.ref <=> l = k
      BY <1>2, LinkFacts
    <3> QED BY <3>1 DEF NameOf
  <2>7. DirPath(ls, k.ref) = [i \in 1..(n + 1) |-> NameOf(ls, Ancestor(ls, k.ref, i))]
    BY <2>0 DEF DirPath
  <2>8. DirPath(ls, k.parent) = [i \in 1..n |-> NameOf(ls, Ancestor(ls, k.parent, i))]
    BY DEF DirPath
  <2> DEFINE P == DirPath(ls, k.parent)
             Q == DirPath(ls, k.ref)
  <2>9. Len(P) = n
    BY <2>0, <2>8
  <2>10. Append(P, k.name) = [i \in 1..(n + 1) |-> IF i <= n THEN P[i] ELSE k.name]
    BY <2>0, <2>8, <2>9
  <2>11. ASSUME NEW i \in 1..(n + 1) PROVE Q[i] = IF i <= n THEN P[i] ELSE k.name
    <3>1. CASE i <= n
      <4>1. i \in 1..n
        BY <3>1, <2>0
      <4>2. Q[i] = NameOf(ls, Ancestor(ls, k.ref, i)) /\ P[i] = NameOf(ls, Ancestor(ls, k.parent, i))
        BY <4>1, <2>7, <2>8
      <4> QED BY <3>1, <4>1, <4>2, <2>4
    <3>2. CASE ~(i <= n)
      <4>1. i = n + 1
        BY <3>2, <2>0
      <4> QED BY <3>2, <4>1, <2>5, <2>6, <2>7
    <3> QED BY <3>1, <3>2
  <2> QED BY <2>7, <2>10, <2>11
<1> QED BY <1>1, <1>2

\* The path of a directory has as many names as the directory is deep.
LEMMA PathTypes ==
  ASSUME NEW ls, IsTree(ls)
  PROVE  \A d \in Directories(ls) : DirPath(ls, d) \in Seq(Names) /\ Len(DirPath(ls, d)) = Depth(ls, d)
<1> DEFINE G == {d \in Directories(ls) : DirPath(ls, d) \in Seq(Names)
                                         /\ Len(DirPath(ls, d)) = Depth(ls, d)}
<1>1. Root \in G
  <2>1. DirPath(ls, Root) = <<>> /\ Root \in Directories(ls) /\ Depth(ls, Root) = 0
    BY RootIsDirectory, PathEquations, DepthFacts
  <2>2. <<>> \in Seq(Names) /\ Len(<<>>) = 0
    OBVIOUS
  <2> QED BY <2>1, <2>2
<1>2. ASSUME NEW k \in ls, k.dir, k.parent \in G PROVE k.ref \in G
  <2>1. /\ DirPath(ls, k.ref) = Append(DirPath(ls, k.parent), k.name) /\ k.name \in Names
        /\ k.ref \in Directories(ls) /\ Depth(ls, k.ref) = Depth(ls, k.parent) + 1
    BY <1>2, LinkFacts, PathEquations, DepthFacts
  <2>2. \A P \in Seq(Names) : \A x \in Names :
           Append(P, x) \in Seq(Names) /\ Len(Append(P, x)) = Len(P) + 1
    OBVIOUS
  <2> QED BY <1>2, <2>1, <2>2
<1>3. Directories(ls) \subseteq G
  <2> HIDE DEF G
  <2> QED BY <1>1, <1>2, TreeInduction
<1> QED BY <1>3

\* Whatever obeys the equations is the path.
LEMMA OnePath ==
  ASSUME NEW ls, IsTree(ls), NEW F, F[Root] = <<>>,
         \A k \in ls : k.dir => F[k.ref] = Append(F[k.parent], k.name)
  PROVE  \A d \in Directories(ls) : F[d] = DirPath(ls, d)
<1> DEFINE G == {d \in Directories(ls) : F[d] = DirPath(ls, d)}
<1>1. Root \in G
  BY RootIsDirectory, PathEquations
<1>2. ASSUME NEW k \in ls, k.dir, k.parent \in G PROVE k.ref \in G
  <2>1. /\ DirPath(ls, k.ref) = Append(DirPath(ls, k.parent), k.name)
        /\ F[k.ref] = Append(F[k.parent], k.name) /\ k.ref \in Directories(ls)
    BY <1>2, LinkFacts, PathEquations
  <2> QED BY <1>2, <2>1
<1>3. Directories(ls) \subseteq G
  <2> HIDE DEF G
  <2> QED BY <1>1, <1>2, TreeInduction
<1> QED BY <1>3

--------------------------------------------------------------------------------
(* Changes of the tree *)

\* A link more: a new file or directory, or a further name of a file.
LEMMA LinkMore ==
  ASSUME NEW ls, IsTree(ls), NEW l \in Links, l.parent \in Directories(ls),
         NameFree(ls, l.parent, l.name),
         \A k \in ls : k.ref = l.ref => ~k.dir /\ ~l.dir
  PROVE  /\ IsTree(ls \cup {l})
         /\ \A d \in Directories(ls) : d \in Directories(ls \cup {l})
                                       /\ DirPath(ls \cup {l}, d) = DirPath(ls, d)
<1> DEFINE ls2 == ls \cup {l}
<1>1. Directories(ls) \subseteq Directories(ls2)
  BY DEF Directories
<1>2. ASSUME NEW d \in Directories(ls2), NEW D \in Upward(ls2), d \in D PROVE Root \in D
  <2> DEFINE E == D \cap Directories(ls)
  <2>1. E \in Upward(ls)
    <3>1. ASSUME NEW k \in ls, k.dir, k.ref \in E PROVE k.parent \in E
      BY <3>1, LinkFacts DEF Upward
    <3> QED BY <3>1 DEF Upward
  <2>2. \A e \in E : Root \in E
    BY <2>1 DEF IsTree, AtOrAbove
  <2>3. CASE d \in Directories(ls)
    BY <1>2, <2>2, <2>3
  <2>4. CASE d \notin Directories(ls)
    <3>1. l.dir /\ d = l.ref
      BY <2>4 DEF Directories
    <3>2. l.parent \in D
      BY <1>2, <3>1 DEF Upward
    <3> QED BY <2>2, <3>2
  <2> QED BY <2>3, <2>4
<1>3. \A d \in Directories(ls2) : Root \in AtOrAbove(ls2, d)
  BY <1>2, RootIsDirectory DEF AtOrAbove
<1>4. ASSUME NEW k \in ls2
      PROVE  /\ k.parent \in Directories(ls2)
             /\ k.dir => LinksOf(ls2, k.ref) = {k}
             /\ NameFree(ls2 \ {k}, k.parent, k.name)
  <2>1. k.parent \in Directories(ls2)
    BY <1>1, LinkFacts
  <2>2. k.dir => LinksOf(ls2, k.ref) = {k}
    BY LinkFacts DEF LinksOf
  <2>3. ASSUME NEW m \in ls2, m # k, m.parent = k.parent PROVE Fold[m.name] # Fold[k.name]
    BY <2>3, LinkFacts DEF NameFree
  <2> QED BY <2>1, <2>2, <2>3 DEF NameFree
<1>5. IsTree(ls2)
  <2>1. ls2 \subseteq Links /\ IsFiniteSet(ls2)
    BY FS_AddElement DEF IsTree
  <2> QED BY <1>3, <1>4, <2>1 DEF IsTree
<1>6. \A d \in Directories(ls) : DirPath(ls2, d) = DirPath(ls, d)
  <2> DEFINE F == [d \in Directories(ls) |-> DirPath(ls2, d)]
  <2>1. F[Root] = <<>>
    BY <1>5, RootIsDirectory, PathEquations
  <2>2. ASSUME NEW k \in ls, k.dir PROVE F[k.ref] = Append(F[k.parent], k.name)
    <3>1. k.ref \in Directories(ls) /\ k.parent \in Directories(ls)
      BY <2>2, LinkFacts
    <3>2. DirPath(ls2, k.ref) = Append(DirPath(ls2, k.parent), k.name)
      BY <1>5, <2>2, PathEquations
    <3> QED BY <3>1, <3>2
  <2>3. \A d \in Directories(ls) : F[d] = DirPath(ls, d)
    <3> HIDE DEF F
    <3> QED BY <2>1, <2>2, OnePath
  <2> QED BY <2>3
<1> QED BY <1>1, <1>5, <1>6

\* A link less: of a file, or of an empty directory.
LEMMA LinkLess ==
  ASSUME NEW ls, IsTree(ls), NEW l \in ls, l.dir => \A k \in ls : k.parent # l.ref
  PROVE  /\ IsTree(ls \ {l})
         /\ Directories(ls \ {l}) = IF l.dir THEN Directories(ls) \ {l.ref} ELSE Directories(ls)
         /\ \A d \in Directories(ls \ {l}) : DirPath(ls \ {l}, d) = DirPath(ls, d)
<1> DEFINE ls2 == ls \ {l}
<1>1. Directories(ls2) = IF l.dir THEN Directories(ls) \ {l.ref} ELSE Directories(ls)
  BY LinkFacts DEF Directories
<1>2. ASSUME NEW D \in Upward(ls2) PROVE D \in Upward(ls)
  BY <1>1, <1>2 DEF Upward
<1>3. \A d \in Directories(ls2) : Root \in AtOrAbove(ls2, d)
  <2>1. \A d \in Directories(ls2) : Root \in AtOrAbove(ls, d)
    BY <1>1 DEF IsTree
  <2> QED BY <1>2, <2>1, RootIsDirectory DEF AtOrAbove
<1>4. ASSUME NEW k \in ls2
      PROVE  /\ k.parent \in Directories(ls2)
             /\ k.dir => LinksOf(ls2, k.ref) = {k}
             /\ NameFree(ls2 \ {k}, k.parent, k.name)
  <2>1. k.parent \in Directories(ls2)
    BY <1>1, LinkFacts
  <2>2. k.dir => LinksOf(ls2, k.ref) = {k}
    BY LinkFacts DEF LinksOf
  <2>3. ASSUME NEW m \in ls2, m # k, m.parent = k.parent PROVE Fold[m.name] # Fold[k.name]
    BY <2>3, LinkFacts
  <2> QED BY <2>1, <2>2, <2>3 DEF NameFree
<1>5. IsTree(ls2)
  <2>1. ls2 \subseteq Links /\ IsFiniteSet(ls2)
    BY FS_RemoveElement DEF IsTree
  <2> QED BY <1>3, <1>4, <2>1 DEF IsTree
<1>6. \A d \in Directories(ls2) : DirPath(ls2, d) = DirPath(ls, d)
  <2> DEFINE F == [d \in Directories(ls2) |-> DirPath(ls, d)]
  <2>1. F[Root] = <<>>
    BY RootIsDirectory, PathEquations
  <2>2. ASSUME NEW k \in ls2, k.dir PROVE F[k.ref] = Append(F[k.parent], k.name)
    <3>1. k.ref \in Directories(ls2) /\ k.parent \in Directories(ls2)
      BY <1>5, <2>2, LinkFacts
    <3>2. DirPath(ls, k.ref) = Append(DirPath(ls, k.parent), k.name)
      BY <2>2, PathEquations
    <3> QED BY <3>1, <3>2
  <2>3. \A d \in Directories(ls2) : F[d] = DirPath(ls2, d)
    <3> HIDE DEF F, ls2
    <3> QED BY <1>5, <2>1, <2>2, OnePath
  <2> QED BY <2>3
<1> QED BY <1>1, <1>5, <1>6

\* What replaces the beginning of a path leaves its last name.
LEMMA RebasedAppend ==
  ASSUME NEW P \in Seq(Names), NEW x \in Names, NEW NP \in Seq(Names), NEW n \in Nat, n <= Len(P)
  PROVE  NP \o SubSeq(Append(P, x), n + 1, Len(Append(P, x))) = Append(NP \o SubSeq(P, n + 1, Len(P)), x)
<1>1. Len(Append(P, x)) = Len(P) + 1
  OBVIOUS
<1>2. SubSeq(Append(P, x), n + 1, Len(P) + 1) = Append(SubSeq(P, n + 1, Len(P)), x)
  <2> DEFINE m == Len(P) - n
             S == SubSeq(P, n + 1, Len(P))
  <2>1. S = [i \in 1..m |-> P[n + i]] /\ Len(S) = m /\ m \in Nat
    OBVIOUS
  <2>2. Append(S, x) = [i \in 1..(m + 1) |-> IF i <= m THEN P[n + i] ELSE x]
    <3>1. S \in Seq(Names)
      OBVIOUS
    <3> HIDE DEF S, m
    <3>2. Append(S, x) = [i \in 1..(m + 1) |-> IF i = m + 1 THEN x ELSE S[i]]
      BY <2>1, <3>1
    <3> QED BY <2>1, <3>2
  <2>3. SubSeq(Append(P, x), n + 1, Len(P) + 1) = [i \in 1..(m + 1) |-> Append(P, x)[n + i]]
    BY <1>1
  <2>4. \A i \in 1..(m + 1) : Append(P, x)[n + i] = IF i <= m THEN P[n + i] ELSE x
    OBVIOUS
  <2>5. [i \in 1..(m + 1) |-> Append(P, x)[n + i]]
        = [i \in 1..(m + 1) |-> IF i <= m THEN P[n + i] ELSE x]
    <3> HIDE DEF m
    <3> QED BY <2>4, Zenon
  <2> QED BY <2>2, <2>3, <2>5, Zenon
<1>3. SubSeq(P, n + 1, Len(P)) \in Seq(Names)
  OBVIOUS
<1>4. \A S \in Seq(Names) : NP \o Append(S, x) = Append(NP \o S, x)
  OBVIOUS
<1> QED BY <1>1, <1>2, <1>3, <1>4

\* The directories at or below one.
Under(ls, r) == {d \in Directories(ls) : r \in AtOrAbove(ls, d)}

Renamed(ls, l, p, n) == (ls \ {l}) \cup {LinkTo(l.ref, p, n, l.dir)}

\* A directory that moves takes what is below it along.
LEMMA DirectoryMoves ==
  ASSUME NEW ls, IsTree(ls), NEW l \in ls, l.dir, NEW p \in Directories(ls), NEW n \in Names,
         l.ref \notin AtOrAbove(ls, p), NameFree(ls \ {l}, p, n)
  PROVE  /\ IsTree(Renamed(ls, l, p, n))
         /\ Directories(Renamed(ls, l, p, n)) = Directories(ls)
         /\ \A d \in Under(ls, l.ref) :
               DirPath(Renamed(ls, l, p, n), d) =
                 Append(DirPath(ls, p), n)
                 \o SubSeq(DirPath(ls, d), Len(DirPath(ls, l.ref)) + 1, Len(DirPath(ls, d)))
         /\ \A d \in Directories(ls) \ Under(ls, l.ref) :
               DirPath(Renamed(ls, l, p, n), d) = DirPath(ls, d)
<1> DEFINE l2 == LinkTo(l.ref, p, n, l.dir)
           ls2 == Renamed(ls, l, p, n)
           NP == Append(DirPath(ls, p), n)
           top == Len(DirPath(ls, l.ref))
           B == Under(ls, l.ref)
           F == [d \in Directories(ls) |->
                    IF d \in B THEN NP \o SubSeq(DirPath(ls, d), top + 1, Len(DirPath(ls, d)))
                    ELSE DirPath(ls, d)]
<1>0. /\ l2.ref = l.ref /\ l2.parent = p /\ l2.name = n /\ l2.dir
      /\ ls2 = (ls \ {l}) \cup {l2}
  BY DEF LinkTo, Renamed
<1> HIDE DEF l2, ls2
<1>1. Directories(ls2) = Directories(ls)
  BY <1>0 DEF Directories
<1>2. l.ref \in B /\ p \notin B /\ Root \notin B /\ p \in Directories(ls) /\ l.ref \in Directories(ls)
  BY LinkFacts, AboveIsUpward, AboveRoot DEF Under
<1>3. ASSUME NEW k \in ls, k.dir, k # l PROVE k.ref \in B <=> k.parent \in B
  <2>1. k.ref # l.ref /\ k.ref \in Directories(ls) /\ k.parent \in Directories(ls)
    BY <1>3, LinkFacts
  <2> QED BY <1>3, <2>1, AboveDirectory DEF Under
<1> DEFINE Rooted(d) == \A D \in Upward(ls2) : d \in D => Root \in D
           G1 == B \cup {d \in Directories(ls) : Rooted(d)}
           G2 == {d \in Directories(ls) : Rooted(d)}
<1>4. ASSUME NEW k \in ls, k.dir, k # l, Rooted(k.parent) PROVE Rooted(k.ref)
  BY <1>0, <1>4 DEF Upward
<1>5. Root \in G2
  BY RootIsDirectory
<1>6. Rooted(p)
  <2>1. ASSUME NEW k \in ls, k.dir, k.parent \in G1 PROVE k.ref \in G1
    <3> HIDE DEF Rooted
    <3>1. CASE k = l BY <3>1, <1>2
    <3>2. CASE k # l BY <3>2, <2>1, <1>3, <1>4, LinkFacts
    <3> QED BY <3>1, <3>2
  <2>2. Directories(ls) \subseteq G1
    <3>1. Root \in G1
      BY <1>5
    <3> HIDE DEF G1
    <3> QED BY <3>1, <2>1, TreeInduction
  <2> HIDE DEF Rooted
  <2> QED BY <2>2, <1>2
<1>7. Directories(ls) \subseteq G2
  <2>1. ASSUME NEW k \in ls, k.dir, k.parent \in G2 PROVE k.ref \in G2
    <3>1. CASE k = l
      <4>1. Rooted(l.ref)
        BY <1>0, <1>6 DEF Upward
      <4> QED BY <4>1, <3>1, <1>2
    <3>2. CASE k # l
      <4> HIDE DEF Rooted
      <4> QED BY <3>2, <2>1, <1>4, LinkFacts
    <3> QED BY <3>1, <3>2
  <2> HIDE DEF G2
  <2> QED BY <1>5, <2>1, TreeInduction
<1>8. ASSUME NEW k \in ls2
      PROVE  /\ k.parent \in Directories(ls2)
             /\ k.dir => LinksOf(ls2, k.ref) = {k}
             /\ NameFree(ls2 \ {k}, k.parent, k.name)
  <2>1. k.parent \in Directories(ls2)
    BY <1>0, <1>1, <1>2, LinkFacts
  <2>2. ASSUME k.dir, NEW m \in ls2, m.ref = k.ref PROVE m = k
    <3>1. CASE k = l2 \/ m = l2
      <4>1. \A x \in ls : x.ref = l.ref => x = l
        BY LinkFacts
      <4> QED BY <1>0, <2>2, <3>1, <4>1
    <3>2. CASE k # l2 /\ m # l2
      BY <1>0, <2>2, <3>2, LinkFacts
    <3> QED BY <3>1, <3>2
  <2>3. ASSUME NEW m \in ls2, m # k, m.parent = k.parent PROVE Fold[m.name] # Fold[k.name]
    <3>1. CASE k = l2
      BY <1>0, <2>3, <3>1 DEF NameFree
    <3>2. CASE m = l2
      BY <1>0, <2>3, <3>2 DEF NameFree
    <3>3. CASE k # l2 /\ m # l2
      BY <1>0, <2>3, <3>3, LinkFacts
    <3> QED BY <3>1, <3>2, <3>3
  <2>4. k.dir => LinksOf(ls2, k.ref) = {k}
    BY <2>2 DEF LinksOf
  <2> QED BY <2>1, <2>3, <2>4 DEF NameFree
<1>9. IsTree(ls2)
  <2>1. l2 \in Links
    BY LinkFacts, <1>2 DEF l2, Links, LinkTo, Directories, IsTree
  <2>2. ls2 \subseteq Links
    BY <1>0, <2>1 DEF IsTree
  <2>3. IsFiniteSet(ls2)
    <3>1. IsFiniteSet(ls \ {l})
      BY FS_RemoveElement DEF IsTree
    <3> QED BY <1>0, <3>1, FS_AddElement
  <2>4. \A d \in Directories(ls2) : Root \in AtOrAbove(ls2, d)
    BY <1>1, <1>7, RootIsDirectory DEF AtOrAbove
  <2> QED BY <1>8, <2>2, <2>3, <2>4 DEF IsTree
<1>10. NP \in Seq(Names) /\ \A d \in Directories(ls) : DirPath(ls, d) \in Seq(Names)
  BY <1>2, PathTypes
<1>11. top \in Nat /\ \A d \in B : d \in Directories(ls) /\ top <= Len(DirPath(ls, d))
  BY <1>2, PathTypes, DepthFacts, DeeperIsBelow DEF Under
<1>12. F[Root] = <<>>
  BY <1>2, RootIsDirectory, PathEquations
<1>13. ASSUME NEW k \in ls2, k.dir PROVE F[k.ref] = Append(F[k.parent], k.name)
  <2>1. CASE k = l2
    <3>1. F[l.ref] = NP \o SubSeq(DirPath(ls, l.ref), top + 1, top)
      BY <1>2
    <3>2. SubSeq(DirPath(ls, l.ref), top + 1, top) = <<>>
      BY <1>10, <1>2, <1>11
    <3>3. NP \o <<>> = NP
      BY <1>10
    <3>4. F[p] = DirPath(ls, p)
      BY <1>2
    <3> QED BY <2>1, <1>0, <3>1, <3>2, <3>3, <3>4
  <2>2. CASE k # l2
    <3>1. k \in ls /\ k # l /\ k.ref \in Directories(ls) /\ k.parent \in Directories(ls) /\ k.name \in Names
      BY <1>0, <2>2, <1>13, LinkFacts
    <3>2. DirPath(ls, k.ref) = Append(DirPath(ls, k.parent), k.name)
      BY <3>1, <1>13, PathEquations
    <3>3. CASE k.parent \in B
      <4>1. k.ref \in B
        BY <3>1, <3>3, <1>13, <1>3
      <4>2. NP \o SubSeq(DirPath(ls, k.ref), top + 1, Len(DirPath(ls, k.ref)))
            = Append(NP \o SubSeq(DirPath(ls, k.parent), top + 1, Len(DirPath(ls, k.parent))), k.name)
        <5> HIDE DEF B
        <5>1. DirPath(ls, k.parent) \in Seq(Names) /\ top <= Len(DirPath(ls, k.parent))
          BY <3>1, <3>3, <1>10, <1>11
        <5>2. \A P : P \in Seq(Names) /\ top <= Len(P) =>
                 NP \o SubSeq(Append(P, k.name), top + 1, Len(Append(P, k.name)))
                 = Append(NP \o SubSeq(P, top + 1, Len(P)), k.name)
          BY <3>1, <1>10, <1>11, RebasedAppend
        <5> QED BY <5>1, <5>2, <3>2, Zenon
      <4> HIDE DEF B
      <4> QED BY <4>1, <4>2, <3>1, <3>3
    <3>4. CASE k.parent \notin B
      <4>1. k.ref \notin B
        BY <3>1, <3>4, <1>13, <1>3
      <4> HIDE DEF B
      <4> QED BY <4>1, <3>1, <3>2, <3>4
    <3> QED BY <3>3, <3>4
  <2> QED BY <2>1, <2>2
<1>14. \A d \in Directories(ls2) : F[d] = DirPath(ls2, d)
  <2>1. \A t, f : /\ IsTree(t) /\ f[Root] = <<>>
                  /\ \A k \in t : k.dir => f[k.ref] = Append(f[k.parent], k.name)
                  => \A d \in Directories(t) : f[d] = DirPath(t, d)
    BY OnePath
  <2> HIDE DEF F
  <2> QED BY <1>9, <1>12, <1>13, <2>1, Zenon
<1>15. \A d \in B : d \in Directories(ls)
  BY DEF Under
<1> QED BY <1>1, <1>9, <1>14, <1>15 DEF ls2

--------------------------------------------------------------------------------
(* Spellings *)

\* Paths have the same key when their names are the same but for the case.
LEMMA SameKey ==
  ASSUME NEW P \in Seq(Names), NEW Q \in Seq(Names)
  PROVE  PathKey(P) = PathKey(Q) <=> Len(P) = Len(Q) /\ \A i \in 1..Len(P) : Fold[P[i]] = Fold[Q[i]]
<1>1. DOMAIN P = 1..Len(P) /\ DOMAIN Q = 1..Len(Q) /\ Len(P) \in Nat /\ Len(Q) \in Nat
  OBVIOUS
<1>2. ASSUME PathKey(P) = PathKey(Q)
      PROVE  Len(P) = Len(Q) /\ \A i \in 1..Len(P) : Fold[P[i]] = Fold[Q[i]]
  <2>1. 1..Len(P) = 1..Len(Q)
    BY <1>1, <1>2, Zenon DEF PathKey
  <2>2. Len(P) = Len(Q)
    <3>1. \A a, b \in Nat : 1..a = 1..b => a <= b
      <4> TAKE a, b \in Nat
      <4> HAVE 1..a = 1..b
      <4>1. a = 0 \/ a \in 1..b
        OBVIOUS
      <4> QED BY <4>1
    <3>2. Len(P) <= Len(Q) /\ Len(Q) <= Len(P)
      BY <1>1, <2>1, <3>1, Zenon
    <3>3. \A a, b \in Nat : a <= b /\ b <= a => a = b
      OBVIOUS
    <3> QED BY <1>1, <3>2, <3>3, Zenon
  <2>3. ASSUME NEW i \in 1..Len(P) PROVE Fold[P[i]] = Fold[Q[i]]
    <3>1. PathKey(P)[i] = Fold[P[i]] /\ PathKey(Q)[i] = Fold[Q[i]]
      BY <1>1, <2>1, Zenon DEF PathKey
    <3> QED BY <1>2, <3>1
  <2> QED BY <2>2, <2>3
<1>3. ASSUME Len(P) = Len(Q), \A i \in 1..Len(P) : Fold[P[i]] = Fold[Q[i]]
      PROVE  PathKey(P) = PathKey(Q)
  BY <1>1, <1>3, Zenon DEF PathKey
<1> QED BY <1>2, <1>3

\* Two paths with the same key differ from their parents' in the same name.
LEMMA KeyAppend ==
  ASSUME NEW P \in Seq(Names), NEW Q \in Seq(Names), NEW x \in Names, NEW y \in Names
  PROVE  PathKey(Append(P, x)) = PathKey(Append(Q, y)) <=> PathKey(P) = PathKey(Q) /\ Fold[x] = Fold[y]
<1>1. /\ Append(P, x) \in Seq(Names) /\ Append(Q, y) \in Seq(Names)
      /\ Len(Append(P, x)) = Len(P) + 1 /\ Len(Append(Q, y)) = Len(Q) + 1
      /\ \A i \in 1..Len(P) : Append(P, x)[i] = P[i]
      /\ \A i \in 1..Len(Q) : Append(Q, y)[i] = Q[i]
      /\ Append(P, x)[Len(P) + 1] = x /\ Append(Q, y)[Len(Q) + 1] = y
      /\ Len(P) \in Nat /\ Len(Q) \in Nat
  OBVIOUS
<1>2. PathKey(Append(P, x)) = PathKey(Append(Q, y)) <=>
        Len(P) = Len(Q) /\ \A i \in 1..(Len(P) + 1) : Fold[Append(P, x)[i]] = Fold[Append(Q, y)[i]]
  <2> DEFINE A == Append(P, x)
             C == Append(Q, y)
  <2>1. A \in Seq(Names) /\ C \in Seq(Names) /\ Len(A) = Len(P) + 1 /\ Len(C) = Len(Q) + 1
    BY <1>1
  <2> HIDE DEF A, C
  <2>2. PathKey(A) = PathKey(C) <=> Len(A) = Len(C) /\ \A i \in 1..Len(A) : Fold[A[i]] = Fold[C[i]]
    BY <2>1, SameKey
  <2>3. Len(A) = Len(C) <=> Len(P) = Len(Q)
    BY <1>1, <2>1
  <2> QED BY <2>1, <2>2, <2>3 DEF A, C
<1>3. ASSUME Len(P) = Len(Q)
      PROVE (\A i \in 1..(Len(P) + 1) : Fold[Append(P, x)[i]] = Fold[Append(Q, y)[i]]) <=>
               (\A i \in 1..Len(P) : Fold[P[i]] = Fold[Q[i]]) /\ Fold[x] = Fold[y]
  <2>1. \A i : i \in 1..(Len(P) + 1) <=> i \in 1..Len(P) \/ i = Len(P) + 1
    BY <1>1
  <2> QED BY <1>1, <1>3, <2>1
<1> QED BY <1>2, <1>3, SameKey

\* A path is within a directory when its parent is or it is the directory itself.
LEMMA WithinAppend ==
  ASSUME NEW P \in Seq(Names), NEW x \in Names, NEW T \in Seq(Names)
  PROVE  Within(Append(P, x), T) <=> Within(P, T) \/ PathKey(Append(P, x)) = PathKey(T)
<1> DEFINE A == Append(P, x)
           a == Len(P)
           t == Len(T)
           Upto(n) == \A i \in 1..n : Fold[A[i]] = Fold[T[i]]
<1>1. A \in Seq(Names) /\ Len(A) = a + 1
  OBVIOUS
<1>2. \A i \in 1..a : A[i] = P[i]
  OBVIOUS
<1>3. a \in Nat /\ t \in Nat /\ DOMAIN T = 1..t
  OBVIOUS
<1>4. Within(A, T) <=> t <= a + 1 /\ Upto(t)
  BY <1>1, <1>3, Zenon DEF Within
<1>5. Within(P, T) <=> t <= a /\ Upto(t)
  <2>1. Within(P, T) <=> t <= a /\ \A i \in 1..t : Fold[P[i]] = Fold[T[i]]
    BY <1>3, Zenon DEF Within
  <2>2. ASSUME t <= a PROVE \A i \in 1..t : A[i] = P[i]
    <3> HIDE DEF A, a, t
    <3> QED BY <1>2, <1>3, <2>2
  <2> HIDE DEF A, a, t
  <2> QED BY <2>1, <2>2
<1>6. PathKey(A) = PathKey(T) <=> a + 1 = t /\ Upto(a + 1)
  BY <1>1, SameKey, Zenon
<1> HIDE DEF A, a, t, Upto
<1>7. t <= a + 1 <=> t <= a \/ a + 1 = t
  BY <1>3
<1>8. a + 1 = t => (Upto(t) <=> Upto(a + 1))
  OBVIOUS
<1>9. Within(A, T) <=> Within(P, T) \/ PathKey(A) = PathKey(T)
  BY <1>4, <1>5, <1>6, <1>7, <1>8, Zenon
<1> QED BY <1>9 DEF A

\* Only the root's path is empty, and it is within no other.
LEMMA EmptyPath ==
  ASSUME NEW P \in Seq(Names)
  PROVE  (PathKey(P) = PathKey(<<>>) <=> P = <<>>) /\ (Within(<<>>, P) <=> P = <<>>)
<1>1. <<>> \in Seq(Names) /\ Len(<<>>) = 0 /\ Len(P) \in Nat /\ (Len(P) = 0 <=> P = <<>>)
  OBVIOUS
<1>2. PathKey(P) = PathKey(<<>>) <=> P = <<>>
  BY <1>1, SameKey
<1>3. Within(<<>>, P) <=> P = <<>>
  BY <1>1 DEF Within
<1> QED BY <1>2, <1>3

--------------------------------------------------------------------------------
(* The paths of a tree *)

\* The path of a link is its directory's and its name.
LEMMA LinkPath ==
  ASSUME NEW ls, IsTree(ls), NEW l \in ls
  PROVE  /\ l.parent \in Directories(ls) /\ DirPath(ls, l.parent) \in Seq(Names) /\ l.name \in Names
         /\ PathOf(ls, l) = Append(DirPath(ls, l.parent), l.name)
         /\ PathOf(ls, l) \in Seq(Names) /\ PathOf(ls, l) # <<>>
         /\ l.dir => PathOf(ls, l) = DirPath(ls, l.ref)
<1>1. l.parent \in Directories(ls) /\ DirPath(ls, l.parent) \in Seq(Names) /\ l.name \in Names
  BY LinkFacts, PathTypes
<1>2. PathOf(ls, l) = Append(DirPath(ls, l.parent), l.name)
  BY DEF PathOf
<1>3. Append(DirPath(ls, l.parent), l.name) \in Seq(Names) /\ Append(DirPath(ls, l.parent), l.name) # <<>>
  BY <1>1
<1>4. l.dir => DirPath(ls, l.ref) = Append(DirPath(ls, l.parent), l.name)
  BY PathEquations
<1> QED BY <1>1, <1>2, <1>3, <1>4

\* No two directories have the same path, whatever the spelling.
LEMMA DirectoryKeys ==
  ASSUME NEW ls, IsTree(ls), NEW d \in Directories(ls), NEW e \in Directories(ls),
         PathKey(DirPath(ls, d)) = PathKey(DirPath(ls, e))
  PROVE  d = e
<1> DEFINE G == {x \in Directories(ls) : \A y \in Directories(ls) :
                    PathKey(DirPath(ls, x)) = PathKey(DirPath(ls, y)) => x = y}
<1>1. Root \in G
  <2>1. ASSUME NEW y \in Directories(ls), PathKey(DirPath(ls, Root)) = PathKey(DirPath(ls, y))
        PROVE  Root = y
    <3>1. DirPath(ls, y) = <<>>
      BY <2>1, EmptyPath, PathTypes, PathEquations
    <3>2. ASSUME NEW k \in ls, k.dir, k.ref = y PROVE FALSE
      BY <3>1, <3>2, LinkPath
    <3> QED BY <3>2, DirectoryCases
  <2> QED BY <2>1, RootIsDirectory
<1>2. ASSUME NEW k \in ls, k.dir, k.parent \in G PROVE k.ref \in G
  <2>1. ASSUME NEW y \in Directories(ls), PathKey(DirPath(ls, k.ref)) = PathKey(DirPath(ls, y))
        PROVE  k.ref = y
    <3>1. /\ DirPath(ls, k.ref) = Append(DirPath(ls, k.parent), k.name)
          /\ DirPath(ls, k.ref) \in Seq(Names) /\ DirPath(ls, k.ref) # <<>>
          /\ DirPath(ls, k.parent) \in Seq(Names) /\ k.name \in Names
      BY <1>2, LinkPath
    <3>2. y # Root
      BY <2>1, <3>1, EmptyPath, PathEquations
    <3>3. PICK m \in ls : m.dir /\ m.ref = y
      BY <3>2, DirectoryCases
    <3>4. /\ DirPath(ls, y) = Append(DirPath(ls, m.parent), m.name)
          /\ DirPath(ls, m.parent) \in Seq(Names) /\ m.name \in Names /\ m.parent \in Directories(ls)
      BY <3>3, LinkPath
    <3>5. PathKey(DirPath(ls, k.parent)) = PathKey(DirPath(ls, m.parent)) /\ Fold[k.name] = Fold[m.name]
      BY <2>1, <3>1, <3>4, KeyAppend
    <3>6. k.parent = m.parent
      BY <1>2, <3>4, <3>5
    <3> QED BY <3>3, <3>5, <3>6, LinkFacts
  <2> QED BY <1>2, <2>1, LinkFacts
<1>3. Directories(ls) \subseteq G
  <2> HIDE DEF G
  <2> QED BY <1>1, <1>2, TreeInduction
<1> QED BY <1>3

\* Nor two links.
LEMMA LinkKeys ==
  ASSUME NEW ls, IsTree(ls), NEW l \in ls, NEW k \in ls, PathKey(PathOf(ls, l)) = PathKey(PathOf(ls, k))
  PROVE  l = k
<1>1. PathKey(DirPath(ls, l.parent)) = PathKey(DirPath(ls, k.parent)) /\ Fold[l.name] = Fold[k.name]
  <2>1. \A m \in ls : /\ DirPath(ls, m.parent) \in Seq(Names) /\ m.name \in Names
                      /\ PathOf(ls, m) = Append(DirPath(ls, m.parent), m.name)
    BY LinkPath
  <2>2. PathKey(Append(DirPath(ls, l.parent), l.name)) = PathKey(Append(DirPath(ls, k.parent), k.name))
    BY <2>1, Zenon
  <2> QED BY <2>1, <2>2, KeyAppend
<1>2. l.parent = k.parent
  BY <1>1, LinkPath, DirectoryKeys
<1> QED BY <1>1, <1>2, LinkFacts

\* A directory's path is within those of the directories at or above it.
LEMMA WithinDirectory ==
  ASSUME NEW ls, IsTree(ls), NEW d \in Directories(ls), NEW e \in Directories(ls)
  PROVE  Within(DirPath(ls, d), DirPath(ls, e)) <=> e \in AtOrAbove(ls, d)
<1> DEFINE G == {x \in Directories(ls) : \A y \in Directories(ls) :
                    Within(DirPath(ls, x), DirPath(ls, y)) <=> y \in AtOrAbove(ls, x)}
<1>1. Root \in G
  <2>1. ASSUME NEW y \in Directories(ls)
        PROVE  Within(DirPath(ls, Root), DirPath(ls, y)) <=> y \in AtOrAbove(ls, Root)
    <3>1. Within(DirPath(ls, Root), DirPath(ls, y)) <=> DirPath(ls, y) = <<>>
      BY EmptyPath, PathTypes, PathEquations
    <3>2. DirPath(ls, y) = <<>> => y = Root
      BY DirectoryKeys, RootIsDirectory, PathEquations
    <3> QED BY <3>1, <3>2, AboveRoot, PathEquations
  <2> QED BY <2>1, RootIsDirectory
<1>2. ASSUME NEW k \in ls, k.dir, k.parent \in G PROVE k.ref \in G
  <2>1. ASSUME NEW y \in Directories(ls)
        PROVE  Within(DirPath(ls, k.ref), DirPath(ls, y)) <=> y \in AtOrAbove(ls, k.ref)
    <3>1. /\ DirPath(ls, k.ref) = Append(DirPath(ls, k.parent), k.name)
          /\ DirPath(ls, k.parent) \in Seq(Names) /\ k.name \in Names /\ k.ref \in Directories(ls)
      BY <1>2, LinkPath, LinkFacts
    <3>2. Within(DirPath(ls, k.ref), DirPath(ls, y)) <=>
             Within(DirPath(ls, k.parent), DirPath(ls, y)) \/ PathKey(DirPath(ls, k.ref)) = PathKey(DirPath(ls, y))
      BY <3>1, PathTypes, WithinAppend
    <3>3. PathKey(DirPath(ls, k.ref)) = PathKey(DirPath(ls, y)) <=> k.ref = y
      BY <3>1, DirectoryKeys
    <3> QED BY <1>2, <3>2, <3>3, AboveDirectory
  <2> QED BY <1>2, <2>1, LinkFacts
<1>3. Directories(ls) \subseteq G
  <2> HIDE DEF G
  <2> QED BY <1>1, <1>2, TreeInduction
<1> QED BY <1>3

\* Within a directory's path are its own link and the links below it, no others: the
\* prefix of a path decides what belongs to a renamed directory.
LEMMA WithinLink ==
  ASSUME NEW ls, IsTree(ls), NEW l \in ls, l.dir, NEW k \in ls
  PROVE  Within(PathOf(ls, k), PathOf(ls, l)) <=> k = l \/ k.parent \in Under(ls, l.ref)
<1>1. /\ PathOf(ls, k) = Append(DirPath(ls, k.parent), k.name)
      /\ DirPath(ls, k.parent) \in Seq(Names) /\ k.name \in Names
      /\ k.parent \in Directories(ls) /\ l.ref \in Directories(ls)
      /\ PathOf(ls, l) = DirPath(ls, l.ref) /\ PathOf(ls, l) \in Seq(Names)
  BY LinkPath, LinkFacts
<1>2. Within(PathOf(ls, k), PathOf(ls, l)) <=>
         Within(DirPath(ls, k.parent), PathOf(ls, l)) \/ PathKey(PathOf(ls, k)) = PathKey(PathOf(ls, l))
  BY <1>1, WithinAppend
<1>3. Within(DirPath(ls, k.parent), PathOf(ls, l)) <=> k.parent \in Under(ls, l.ref)
  BY <1>1, WithinDirectory DEF Under
<1> QED BY <1>2, <1>3, LinkKeys

\* The paths a rename of a directory gives.
RebasedPath(ls, l, p, n, path) ==
    Append(DirPath(ls, p), n) \o SubSeq(path, Len(PathOf(ls, l)) + 1, Len(path))

\* A directory that moves gives each link below it its path with the beginning
\* replaced, as apply_rename_new_delta does, and leaves the other paths alone.
LEMMA MovedPaths ==
  ASSUME NEW ls, IsTree(ls), NEW l \in ls, l.dir, NEW p \in Directories(ls), NEW n \in Names,
         l.ref \notin AtOrAbove(ls, p), NameFree(ls \ {l}, p, n)
  PROVE  /\ PathOf(Renamed(ls, l, p, n), LinkTo(l.ref, p, n, l.dir)) = RebasedPath(ls, l, p, n, PathOf(ls, l))
         /\ \A k \in ls \ {l} :
               PathOf(Renamed(ls, l, p, n), k) =
                 IF k.parent \in Under(ls, l.ref) THEN RebasedPath(ls, l, p, n, PathOf(ls, k)) ELSE PathOf(ls, k)
<1> DEFINE top == Len(PathOf(ls, l))
           l2 == LinkTo(l.ref, p, n, l.dir)
           ls2 == Renamed(ls, l, p, n)
           NP == Append(DirPath(ls, p), n)
           DP(d) == DirPath(ls, d)
           B == Under(ls, l.ref)
<1>1. /\ l.ref \in Directories(ls) /\ PathOf(ls, l) = DP(l.ref)
      /\ PathOf(ls, l) \in Seq(Names) /\ top \in Nat
      /\ NP \in Seq(Names)
  BY LinkPath, LinkFacts, PathTypes
<1>2. /\ \A d \in B : DirPath(ls2, d) = NP \o SubSeq(DP(d), top + 1, Len(DP(d)))
      /\ \A d \in Directories(ls) \ B : DirPath(ls2, d) = DP(d)
  <2> DEFINE m == Len(DirPath(ls, l.ref))
  <2>1. /\ \A d \in B : DirPath(ls2, d) = NP \o SubSeq(DP(d), m + 1, Len(DP(d)))
        /\ \A d \in Directories(ls) \ B : DirPath(ls2, d) = DP(d)
    BY DirectoryMoves, Zenon
  <2>2. top = m
    BY <1>1, Zenon
  <2> HIDE DEF top, m
  <2> QED BY <2>1, <2>2
<1>3. PathOf(ls2, l2) = NP \o SubSeq(PathOf(ls, l), top + 1, Len(PathOf(ls, l)))
  <2>1. p \notin B
    BY DEF Under
  <2>2. PathOf(ls2, l2) = NP
    BY <1>2, <2>1 DEF PathOf, LinkTo
  <2>3. SubSeq(PathOf(ls, l), top + 1, top) = <<>> /\ NP \o <<>> = NP
    BY <1>1
  <2> QED BY <2>2, <2>3
<1>4. ASSUME NEW k \in ls, k.parent \in B
      PROVE  PathOf(ls2, k) = NP \o SubSeq(PathOf(ls, k), top + 1, Len(PathOf(ls, k)))
  <2>0. DP(k.parent) \in Seq(Names) /\ k.name \in Names /\ PathOf(ls, k) = Append(DP(k.parent), k.name)
    BY LinkPath
  <2>1. top <= Len(DP(k.parent))
    BY <1>1, <1>4, PathTypes, DeeperIsBelow DEF Under
  <2>2. NP \o SubSeq(PathOf(ls, k), top + 1, Len(PathOf(ls, k)))
        = Append(NP \o SubSeq(DP(k.parent), top + 1, Len(DP(k.parent))), k.name)
    <3> HIDE DEF top, NP
    <3>1. \A P : P \in Seq(Names) /\ top <= Len(P) =>
                 NP \o SubSeq(Append(P, k.name), top + 1, Len(Append(P, k.name)))
                 = Append(NP \o SubSeq(P, top + 1, Len(P)), k.name)
      BY <1>1, <2>0, RebasedAppend
    <3> QED BY <2>0, <2>1, <3>1, Zenon
  <2>3. DirPath(ls2, k.parent) = NP \o SubSeq(DP(k.parent), top + 1, Len(DP(k.parent)))
    BY <1>2, <1>4
  <2> QED BY <2>2, <2>3 DEF PathOf
<1>5. \A k \in ls : k.parent \notin B => PathOf(ls2, k) = PathOf(ls, k)
  BY <1>2, LinkFacts DEF PathOf
<1> QED BY <1>3, <1>4, <1>5 DEF RebasedPath

--------------------------------------------------------------------------------
(* Stable paths *)

\* The fields of a stable path.
LEMMA StableFields ==
  \A l, path : LET p == Stable(l, path) IN
     p.ref = l.ref /\ p.parent = l.parent /\ p.name = l.name /\ p.dir = l.dir /\ p.path = path
  BY DEF Stable

\* The fields of the root's stable path.
LEMMA RootFields ==
  RootPath.ref = Root /\ RootPath.parent = Root /\ RootPath.dir /\ RootPath.path = <<>>
  BY DEF RootPath, Stable, LinkTo

\* The stable path of a link.
StableOf(ls, l) == Stable(l, PathOf(ls, l))

\* A link's stable path has the link's fields and its path.
LEMMA StableOfFields ==
  ASSUME NEW ls, NEW l
  PROVE  LET p == StableOf(ls, l) IN
         p.ref = l.ref /\ p.parent = l.parent /\ p.name = l.name /\ p.dir = l.dir /\ p.path = PathOf(ls, l)
  BY DEF StableOf, Stable

\* The stable paths of a tree are the root's and those of its links.
LEMMA StableMembers ==
  ASSUME NEW ls
  PROVE  /\ RootPath \in StablePaths(ls)
         /\ \A l \in ls : StableOf(ls, l) \in StablePaths(ls)
         /\ \A p \in StablePaths(ls) : p = RootPath \/ \E l \in ls : p = StableOf(ls, l)
  BY DEF StablePaths, StableOf

\* A stable path of another reference than the root's is of a link of that file.
LEMMA StableOfFile ==
  ASSUME NEW ls, NEW p \in StablePaths(ls), p.ref # Root
  PROVE  \E l \in ls : p = StableOf(ls, l) /\ l.ref = p.ref
  BY StableMembers, RootFields, StableOfFields

\* No two stable paths have the same path, whatever its spelling.
LEMMA StableKeys ==
  ASSUME NEW ls, IsTree(ls), NEW p \in StablePaths(ls), NEW q \in StablePaths(ls),
         PathKey(p.path) = PathKey(q.path)
  PROVE  p = q
<1>1. ASSUME NEW l \in ls PROVE PathKey(PathOf(ls, l)) # PathKey(<<>>)
  BY LinkPath, EmptyPath
<1>2. CASE p = RootPath
  <2>1. ASSUME NEW l \in ls, q = StableOf(ls, l) PROVE FALSE
    BY <1>1, <1>2, <2>1, RootFields, StableOfFields
  <2> QED BY <1>2, <2>1, StableMembers
<1>3. ASSUME NEW l \in ls, p = StableOf(ls, l) PROVE p = q
  <2>1. q # RootPath
    BY <1>1, <1>3, RootFields, StableOfFields
  <2>2. PICK k \in ls : q = StableOf(ls, k)
    BY <2>1, StableMembers
  <2>3. l = k
    BY <1>3, <2>2, StableOfFields, LinkKeys
  <2> QED BY <1>3, <2>2, <2>3
<1> QED BY <1>2, <1>3, StableMembers

\* The directory a reference names has the path of that directory.
LEMMA ParentIsDirectory ==
  ASSUME NEW ls, IsTree(ls), NEW r, NEW d \in ParentDirectory(StablePaths(ls), r)
  PROVE  r \in Directories(ls) /\ d.path = DirPath(ls, r)
<1>1. d \in StablePaths(ls) /\ d.ref = r /\ d.dir
  BY DEF ParentDirectory, Aliases
<1>2. CASE d = RootPath
  BY <1>1, <1>2, RootFields, RootIsDirectory, PathEquations
<1>3. ASSUME NEW l \in ls, d = StableOf(ls, l) PROVE r \in Directories(ls) /\ d.path = DirPath(ls, r)
  BY <1>1, <1>3, StableOfFields, LinkPath, LinkFacts
<1> QED BY <1>1, <1>2, <1>3, StableMembers

\* What a record of a link names is that link's stable path.
LEMMA NamedByLink ==
  ASSUME NEW ls, IsTree(ls), NEW l \in ls, NEW rec,
         rec.ref = l.ref, rec.parent = l.parent, rec.name = l.name,
         NEW p \in Named(StablePaths(ls), rec)
  PROVE  p = StableOf(ls, l)
<1>1. p \in StablePaths(ls) /\ p.ref = l.ref /\ p.parent = l.parent /\ Fold[p.name] = Fold[l.name]
  BY DEF Named, Exact, Aliases
<1>2. PICK k \in ls : p = StableOf(ls, k)
  BY <1>1, LinkFacts, StableOfFile
<1>3. k = l
  BY <1>1, <1>2, StableOfFields, LinkFacts
<1> QED BY <1>2, <1>3

\* A link is among the aliases of its file.
LEMMA AliasesOfFile ==
  ASSUME NEW ls, NEW l \in ls
  PROVE  StableOf(ls, l) \in Aliases(StablePaths(ls), l.ref)
  BY StableMembers, StableOfFields DEF Aliases

\* An empty directory has nothing below it.
LEMMA NothingUnder ==
  ASSUME NEW ls, IsTree(ls), NEW l \in ls, l.dir, \A k \in ls : k.parent # l.ref
  PROVE  Under(ls, l.ref) = {l.ref}
<1> DEFINE G == {d \in Directories(ls) : d \in Under(ls, l.ref) => d = l.ref}
<1>1. Root \in G
  BY RootIsDirectory, AboveRoot, LinkFacts DEF Under
<1>2. ASSUME NEW k \in ls, k.dir, k.parent \in G PROVE k.ref \in G
  <2>1. k.ref \in Under(ls, l.ref) => l.ref = k.ref \/ k.parent \in Under(ls, l.ref)
    BY <1>2, AboveDirectory, LinkFacts DEF Under
  <2> QED BY <1>2, <2>1, LinkFacts
<1>3. Directories(ls) \subseteq G
  <2> HIDE DEF G
  <2> QED BY <1>1, <1>2, TreeInduction
<1>4. l.ref \in Under(ls, l.ref)
  BY LinkFacts, AboveIsUpward DEF Under
<1> QED BY <1>3, <1>4 DEF Under

\* The subtree of a stable path.
LEMMA SubtreeOfLink ==
  ASSUME NEW ls, IsTree(ls), NEW l \in ls, NEW q
  PROVE  q \in Subtree(StablePaths(ls), StableOf(ls, l)) <=>
           \E k \in ls : q = StableOf(ls, k) /\ (k = l \/ (l.dir /\ k.parent \in Under(ls, l.ref)))
<1> DEFINE top == StableOf(ls, l)
<1>1. top.dir = l.dir /\ top.path = PathOf(ls, l) /\ top \in StablePaths(ls)
  BY StableOfFields, StableMembers
<1>2. CASE ~l.dir
  BY <1>1, <1>2 DEF Subtree
<1>3. CASE l.dir
  <2>1. q \in Subtree(StablePaths(ls), top) <=> q \in StablePaths(ls) /\ Within(q.path, PathOf(ls, l))
    <3> HIDE DEF top
    <3> QED BY <1>1, <1>3 DEF Subtree
  <2>2. ~Within(<<>>, PathOf(ls, l))
    BY LinkPath, EmptyPath
  <2>3. ASSUME NEW k \in ls
        PROVE  Within(StableOf(ls, k).path, PathOf(ls, l)) <=> k = l \/ k.parent \in Under(ls, l.ref)
    BY <1>3, StableOfFields, WithinLink
  <2>4. q # RootPath \/ ~Within(q.path, PathOf(ls, l))
    BY <2>2, RootFields
  <2> HIDE DEF top
  <2> QED BY <1>3, <2>1, <2>3, <2>4, StableMembers DEF top
<1> QED BY <1>2, <1>3, LinkFacts

--------------------------------------------------------------------------------
(* Records *)

StateFields == {"paths", "pending", "dead", "dirty"}

\* Marking paths changes nothing but the marks.
LEMMA MarkFacts ==
  ASSUME NEW s, DOMAIN s = StateFields, NEW ps
  PROVE  /\ DOMAIN Mark(s, ps) = StateFields
         /\ Mark(s, ps).paths = s.paths /\ Mark(s, ps).pending = s.pending /\ Mark(s, ps).dead = s.dead
         /\ Mark(s, ps).dirty = s.dirty \cup {p.path : p \in ps}
  BY DEF Mark, StateFields

\* A projection that has the stable paths of a tree, and as pending renames some
\* of the names given.
Tracking(s, ls, names) ==
    /\ DOMAIN s = StateFields
    /\ s.paths = StablePaths(ls)
    /\ s.pending \subseteq {StableOf(ls, l) : l \in names}

\* What an index has of files whose path is not marked is their content, unless
\* it was written since the file was last closed.
Current(entries, dirty, ls, st, rs) ==
    \A p \in StablePaths(ls) : ~p.dir /\ p.path \notin dirty =>
        \A e \in entries : e.path = p.path => e.stamp = st[p.ref] \/ "data" \in rs[p.ref]

Kinds == {"create", "data", "link", "new"}

Rec(l, why) == [ref |-> l.ref, parent |-> l.parent, name |-> l.name, dir |-> l.dir, why |-> why]

\* A record has the fields of its link and its reasons.
LEMMA RecFields ==
  \A l, why : /\ Rec(l, why).ref = l.ref /\ Rec(l, why).parent = l.parent
              /\ Rec(l, why).name = l.name /\ Rec(l, why).dir = l.dir /\ Rec(l, why).why = why
  BY DEF Rec

\* A record of two changes to the tree is not one the replay or the window takes.
LEMMA OneTopology ==
  ASSUME NEW rec, NEW x \in {"create", "delete", "old", "new"}, NEW y \in {"create", "delete", "old", "new"},
         x # y, x \in rec.why, y \in rec.why
  PROVE  ~(Cardinality(Topology(rec)) <= 1) /\ Cardinality(Topology(rec)) > 1
<1>1. Topology(rec) \subseteq {"create", "delete", "old", "new"} /\ x \in Topology(rec) /\ y \in Topology(rec)
  BY DEF Topology
<1>2. IsFiniteSet({"create", "delete", "old", "new"})
  <2>1. \A a, b : IsFiniteSet({a, b})
    <3> TAKE a, b
    <3>1. IsFiniteSet({a})
      BY FS_Singleton, Zenon
    <3>2. IsFiniteSet({a} \cup {b})
      BY <3>1, FS_AddElement, Zenon
    <3>3. {a} \cup {b} = {a, b}
      OBVIOUS
    <3> QED BY <3>2, <3>3
  <2>2. IsFiniteSet({"create", "delete"} \cup {"old", "new"})
    BY <2>1, FS_Union, Zenon
  <2>3. {"create", "delete"} \cup {"old", "new"} = {"create", "delete", "old", "new"}
    OBVIOUS
  <2> QED BY <2>2, <2>3
<1>3. IsFiniteSet(Topology(rec))
  BY <1>1, <1>2, FS_Subset
<1>4. Cardinality({x, y}) = 2
  <2>1. IsFiniteSet({x}) /\ Cardinality({x}) = 1
    BY FS_Singleton, Zenon
  <2>2. y \notin {x} /\ {x, y} = {x} \cup {y}
    OBVIOUS
  <2> QED BY <2>1, <2>2, FS_AddElement
<1>5. {x, y} \subseteq Topology(rec) /\ Cardinality(Topology(rec)) \in Nat
  BY <1>1, <1>3, FS_CardinalityType
<1>6. 2 <= Cardinality(Topology(rec))
  BY <1>3, <1>4, <1>5, FS_Subset
<1> QED BY <1>1, <1>5, <1>6

\* A rename of a file or a directory.
LEMMA RenamedTree ==
  ASSUME NEW ls, IsTree(ls), NEW l \in ls, NEW p \in Directories(ls), NEW n \in Names,
         l.dir => l.ref \notin AtOrAbove(ls, p), NameFree(ls \ {l}, p, n)
  PROVE  /\ IsTree(Renamed(ls, l, p, n))
         /\ PathOf(Renamed(ls, l, p, n), LinkTo(l.ref, p, n, l.dir)) = RebasedPath(ls, l, p, n, PathOf(ls, l))
         /\ \A k \in ls \ {l} :
               PathOf(Renamed(ls, l, p, n), k) =
                 IF l.dir /\ k.parent \in Under(ls, l.ref) THEN RebasedPath(ls, l, p, n, PathOf(ls, k))
                 ELSE PathOf(ls, k)
<1>1. CASE l.dir
  BY <1>1, DirectoryMoves, MovedPaths
<1>2. CASE ~l.dir
  <2> DEFINE l2 == LinkTo(l.ref, p, n, l.dir)
             ls1 == ls \ {l}
             ls2 == ls1 \cup {l2}
  <2>1. /\ IsTree(ls1) /\ Directories(ls1) = Directories(ls)
        /\ \A d \in Directories(ls) : DirPath(ls1, d) = DirPath(ls, d)
    BY <1>2, LinkLess
  <2>2. /\ l2 \in Links /\ l2.parent = p /\ l2.name = n /\ ~l2.dir /\ l2.ref = l.ref
    BY <1>2, LinkFacts DEF Links, LinkTo, Directories, IsTree
  <2>3. \A k \in ls1 : k.ref = l2.ref => ~k.dir
    BY <1>2, <2>2, LinkFacts
  <2> HIDE DEF l2, ls1
  <2>4. IsTree(ls2) /\ \A d \in Directories(ls1) : DirPath(ls2, d) = DirPath(ls1, d)
    <3>1. l2.parent \in Directories(ls1) /\ NameFree(ls1, l2.parent, l2.name)
      BY <2>1, <2>2 DEF ls1
    <3>2. \A k \in ls1 : k.ref = l2.ref => ~k.dir /\ ~l2.dir
      BY <2>2, <2>3
    <3> QED BY <2>1, <2>2, <3>1, <3>2, LinkMore
  <2>5. ls2 = Renamed(ls, l, p, n)
    BY DEF ls1, l2, Renamed
  <2> HIDE DEF ls2
  <2>6. \A d \in Directories(ls) : DirPath(ls2, d) = DirPath(ls, d)
    BY <2>1, <2>4
  <2>7. PathOf(ls2, l2) = Append(DirPath(ls, p), n)
    BY <2>2, <2>6 DEF PathOf
  <2>8. RebasedPath(ls, l, p, n, PathOf(ls, l)) = Append(DirPath(ls, p), n)
    <3> DEFINE NP == Append(DirPath(ls, p), n)
    <3>1. PathOf(ls, l) \in Seq(Names) /\ NP \in Seq(Names)
      BY LinkPath, PathTypes
    <3>2. RebasedPath(ls, l, p, n, PathOf(ls, l)) = NP \o SubSeq(PathOf(ls, l), Len(PathOf(ls, l)) + 1, Len(PathOf(ls, l)))
      BY Zenon DEF RebasedPath
    <3> HIDE DEF NP
    <3>3. SubSeq(PathOf(ls, l), Len(PathOf(ls, l)) + 1, Len(PathOf(ls, l))) = <<>> /\ NP \o <<>> = NP
      BY <3>1
    <3> QED BY <3>2, <3>3 DEF NP
  <2>9. \A k \in ls \ {l} : PathOf(ls2, k) = PathOf(ls, k)
    BY <2>6, LinkFacts DEF PathOf
  <2> QED BY <1>2, <2>4, <2>5, <2>7, <2>8, <2>9 DEF l2
<1> QED BY <1>1, <1>2

\* Rewriting the paths at or below the old name gives the tree after the rename.
LEMMA SubtreeMoves ==
  ASSUME NEW ls, IsTree(ls), NEW l \in ls, NEW p \in Directories(ls), NEW n \in Names,
         l.dir => l.ref \notin AtOrAbove(ls, p), NameFree(ls \ {l}, p, n),
         NEW rec, rec.ref = l.ref, rec.parent = p, rec.name = n
  PROVE  LET old == StableOf(ls, l)
             whole == Subtree(StablePaths(ls), old)
             moved == {Relocated(q, old, rec, Append(DirPath(ls, p), n)) : q \in whole}
         IN (StablePaths(ls) \ whole) \cup moved = StablePaths(Renamed(ls, l, p, n))
<1> DEFINE ls2 == Renamed(ls, l, p, n)
           l2 == LinkTo(l.ref, p, n, l.dir)
           old == StableOf(ls, l)
           whole == Subtree(StablePaths(ls), old)
           new == Append(DirPath(ls, p), n)
           moved == {Relocated(q, old, rec, new) : q \in whole}
           Below(k) == l.dir /\ k.parent \in Under(ls, l.ref)
<1>0. \A k : k \in ls2 <=> k = l2 \/ (k \in ls /\ k # l)
  BY DEF Renamed
<1>1. \A q : q \in whole <=> \E k \in ls : q = StableOf(ls, k) /\ (k = l \/ Below(k))
  BY SubtreeOfLink
<1>2. ASSUME NEW k \in ls
      PROVE  Rebased(StableOf(ls, k), old, new) = RebasedPath(ls, l, p, n, PathOf(ls, k))
  BY StableOfFields DEF Rebased, RebasedPath
<1>3. Relocated(old, old, rec, new) = StableOf(ls2, l2)
  <2>1. PathOf(ls2, l2) = RebasedPath(ls, l, p, n, PathOf(ls, l))
    BY RenamedTree
  <2>2. old.ref = l.ref /\ old.dir = l.dir
    BY StableOfFields
  <2>3. Relocated(old, old, rec, new) = Stable(LinkTo(l.ref, p, n, l.dir), Rebased(old, old, new))
    <3> HIDE DEF old, new
    <3> QED BY <2>2 DEF Relocated
  <2> QED BY <1>2, <2>1, <2>3 DEF StableOf
<1>4. ASSUME NEW k \in ls, k # l, Below(k) PROVE Relocated(StableOf(ls, k), old, rec, new) = StableOf(ls2, k)
  <2>1. PathOf(ls2, k) = RebasedPath(ls, l, p, n, PathOf(ls, k))
    BY <1>4, RenamedTree
  <2>2. k.ref # l.ref
    BY <1>4, LinkFacts
  <2>3. Relocated(StableOf(ls, k), old, rec, new) = Stable(StableOf(ls, k), Rebased(StableOf(ls, k), old, new))
    <3>1. StableOf(ls, k).ref = k.ref /\ old.ref = l.ref
      BY StableOfFields
    <3> HIDE DEF old, new
    <3> QED BY <2>2, <3>1 DEF Relocated
  <2>4. Stable(StableOf(ls, k), PathOf(ls2, k)) = Stable(k, PathOf(ls2, k))
    BY DEF Stable, StableOf
  <2> QED BY <1>2, <2>1, <2>3, <2>4 DEF StableOf
<1>5. ASSUME NEW k \in ls, k # l, ~Below(k) PROVE StableOf(ls2, k) = StableOf(ls, k)
  <2>1. PathOf(ls2, k) = PathOf(ls, k)
    BY <1>5, RenamedTree
  <2> QED BY <2>1 DEF StableOf
<1> HIDE DEF ls2, l2, old, new, Below, whole
<1>6. ASSUME NEW k \in ls, NEW m \in ls, StableOf(ls, k) = StableOf(ls, m) PROVE k = m
  <2>1. PathOf(ls, k) = PathOf(ls, m)
    BY <1>6, StableOfFields
  <2> QED BY <2>1, LinkKeys
<1>7. ASSUME NEW q \in (StablePaths(ls) \ whole) \cup moved PROVE q \in StablePaths(ls2)
  <2>1. CASE q \in moved
    <3>1. PICK r \in whole : q = Relocated(r, old, rec, new)
      BY <2>1
    <3>2. PICK k \in ls : r = StableOf(ls, k) /\ (k = l \/ Below(k))
      BY <1>1, <3>1
    <3>3. CASE k = l
      BY <1>0, <1>3, <3>1, <3>2, <3>3, StableMembers DEF old
    <3>4. CASE k # l
      BY <1>0, <1>4, <3>1, <3>2, <3>4, StableMembers
    <3> QED BY <3>3, <3>4
  <2>2. CASE q \notin moved
    <3>1. q \in StablePaths(ls) /\ q \notin whole
      BY <1>7, <2>2
    <3>2. CASE q = RootPath
      BY <3>2, StableMembers
    <3>3. ASSUME NEW k \in ls, q = StableOf(ls, k) PROVE q \in StablePaths(ls2)
      BY <1>0, <1>1, <1>5, <3>1, <3>3, StableMembers
    <3> QED BY <3>1, <3>2, <3>3, StableMembers
  <2> QED BY <2>1, <2>2
<1>8. ASSUME NEW q \in StablePaths(ls2) PROVE q \in (StablePaths(ls) \ whole) \cup moved
  <2>1. CASE q = RootPath
    <3>1. RootPath \notin whole
      <4>1. ASSUME NEW k \in ls PROVE RootPath # StableOf(ls, k)
        BY RootFields, StableOfFields, LinkPath
      <4> QED BY <1>1, <4>1
    <3> QED BY <2>1, <3>1, StableMembers
  <2>2. CASE q = StableOf(ls2, l2)
    <3>1. old \in whole
      BY <1>1 DEF old
    <3> QED BY <1>3, <2>2, <3>1
  <2>3. ASSUME NEW k \in ls, k # l, q = StableOf(ls2, k) PROVE q \in (StablePaths(ls) \ whole) \cup moved
    <3>1. CASE Below(k)
      <4>1. StableOf(ls, k) \in whole
        BY <1>1, <3>1
      <4> QED BY <1>4, <2>3, <3>1, <4>1
    <3>2. CASE ~Below(k)
      <4>1. q = StableOf(ls, k) /\ q \in StablePaths(ls)
        BY <1>5, <2>3, <3>2, StableMembers
      <4>2. q \notin whole
        BY <1>1, <1>6, <2>3, <3>2, <4>1
      <4> QED BY <4>1, <4>2
    <3> QED BY <3>1, <3>2
  <2> QED BY <1>0, <2>1, <2>2, <2>3, StableMembers
<1>9. (StablePaths(ls) \ whole) \cup moved = StablePaths(ls2)
  BY <1>7, <1>8
<1> QED BY <1>9 DEF ls2, old, new, whole

\* What a record that can be applied says of its reasons.
LEMMA Applied ==
  ASSUME NEW s, NEW rec, NEW t \in ApplyDelta(s, rec)
  PROVE  /\ "link" \notin rec.why
         /\ \A x, y \in Topology(rec) : x = y
         /\ (\E p \in s.pending : p.ref = rec.ref) => Topology(rec) = {"new"}
         /\ "create" \in rec.why => t \in ApplyCreate(s, rec)
         /\ "delete" \in rec.why => t \in ApplyDelete(s, rec)
         /\ "old" \in rec.why => t \in ApplyRenameOld(s, rec)
         /\ "new" \in rec.why => t \in ApplyRenameNew(s, rec)
         /\ Topology(rec) = {} => t \in ApplyMetadata(s, rec)
<1>1. Representable(s, rec)
  BY DEF ApplyDelta
<1>2. "link" \notin rec.why /\ Cardinality(Topology(rec)) <= 1
      /\ ((\E p \in s.pending : p.ref = rec.ref) => Topology(rec) = {"new"})
  BY <1>1 DEF Representable
<1>3. ASSUME NEW x \in Topology(rec), NEW y \in Topology(rec) PROVE x = y
  BY <1>2, OneTopology DEF Topology
<1>4. t \in CASE Topology(rec) = {}   -> ApplyMetadata(s, rec)
           [] "create" \in rec.why -> ApplyCreate(s, rec)
           [] "delete" \in rec.why -> ApplyDelete(s, rec)
           [] "old" \in rec.why    -> ApplyRenameOld(s, rec)
           [] "new" \in rec.why    -> ApplyRenameNew(s, rec)
  BY <1>1 DEF ApplyDelta
<1>5. \A x \in {"create", "delete", "old", "new"} : x \in rec.why <=> x \in Topology(rec)
  BY DEF Topology
<1> HIDE DEF Topology
<1>6. CASE Topology(rec) = {}
  BY <1>2, <1>4, <1>5, <1>6
<1>7. CASE "create" \in rec.why
  <2>1. Topology(rec) # {} /\ "delete" \notin rec.why /\ "old" \notin rec.why /\ "new" \notin rec.why
    BY <1>3, <1>5, <1>7
  <2> QED BY <1>2, <1>3, <1>4, <1>7, <2>1
<1>8. CASE "delete" \in rec.why
  <2>1. Topology(rec) # {} /\ "create" \notin rec.why /\ "old" \notin rec.why /\ "new" \notin rec.why
    BY <1>3, <1>5, <1>8
  <2> QED BY <1>2, <1>3, <1>4, <1>8, <2>1
<1>9. CASE "old" \in rec.why
  <2>1. Topology(rec) # {} /\ "create" \notin rec.why /\ "delete" \notin rec.why /\ "new" \notin rec.why
    BY <1>3, <1>5, <1>9
  <2> QED BY <1>2, <1>3, <1>4, <1>9, <2>1
<1>10. CASE "new" \in rec.why
  <2>1. Topology(rec) # {} /\ "create" \notin rec.why /\ "delete" \notin rec.why /\ "old" \notin rec.why
    BY <1>3, <1>5, <1>10
  <2> QED BY <1>2, <1>3, <1>4, <1>10, <2>1
<1>11. Topology(rec) # {} => "create" \in rec.why \/ "delete" \in rec.why \/ "old" \in rec.why \/ "new" \in rec.why
  BY DEF Topology
<1> QED BY <1>6, <1>7, <1>8, <1>9, <1>10, <1>11

\* A file or directory is created.
LEMMA OnCreate ==
  ASSUME NEW ls, IsTree(ls), NEW names \in SUBSET ls, NEW s, Tracking(s, ls, names),
         NEW l \in Links, l.parent \in Directories(ls), NameFree(ls, l.parent, l.name),
         \A k \in ls : k.ref # l.ref,
         NEW t \in ApplyDelta(s, Rec(l, {"create"}))
  PROVE  /\ Tracking(t, ls \cup {l}, names)
         /\ s.dirty \subseteq t.dirty /\ PathOf(ls \cup {l}, l) \in t.dirty
<1> DEFINE rec == Rec(l, {"create"})
           ls2 == ls \cup {l}
           added(d) == Stable(LinkTo(rec.ref, rec.parent, rec.name, rec.dir), Append(d.path, rec.name))
<1>0. rec.ref = l.ref /\ rec.parent = l.parent /\ rec.name = l.name /\ rec.dir = l.dir /\ rec.why = {"create"}
  BY RecFields
<1>1. t \in ApplyCreate(s, rec)
  BY <1>0, Applied
<1>2. PICK d \in ParentDirectory(s.paths, rec.parent) :
         t = Mark([s EXCEPT !.paths = @ \cup {added(d)}], {added(d)})
  BY <1>1, Zenon DEF ApplyCreate
<1>3. DOMAIN s = StateFields /\ s.paths = StablePaths(ls) /\ s.pending \subseteq {StableOf(ls, k) : k \in names}
  BY DEF Tracking
<1>4. d.path = DirPath(ls, l.parent)
  BY <1>0, <1>2, <1>3, ParentIsDirectory
<1>5. \A e \in Directories(ls) : DirPath(ls2, e) = DirPath(ls, e)
  <2>1. \A k \in ls : k.ref = l.ref => ~k.dir /\ ~l.dir
    OBVIOUS
  <2> QED BY <2>1, LinkMore
<1>6. added(d) = StableOf(ls2, l)
  <2>1. PathOf(ls2, l) = Append(DirPath(ls, l.parent), l.name)
    BY <1>5 DEF PathOf
  <2> QED BY <1>0, <1>4, <2>1 DEF StableOf, Stable, LinkTo
<1>7. \A k \in ls : StableOf(ls2, k) = StableOf(ls, k)
  BY <1>5, LinkFacts DEF StableOf, PathOf
<1>8. StablePaths(ls2) = StablePaths(ls) \cup {StableOf(ls2, l)}
  <2> HIDE DEF ls2
  <2>1. \A q : q \in StablePaths(ls2) <=> q = RootPath \/ \E k \in ls2 : q = StableOf(ls2, k)
    BY StableMembers
  <2>2. \A q : q \in StablePaths(ls) <=> q = RootPath \/ \E k \in ls : q = StableOf(ls, k)
    BY StableMembers
  <2>3. \A k : k \in ls2 <=> k \in ls \/ k = l
    BY DEF ls2
  <2> QED BY <1>7, <2>1, <2>2, <2>3
<1> HIDE DEF added, rec
<1> DEFINE u == [s EXCEPT !.paths = @ \cup {added(d)}]
<1>9. /\ DOMAIN u = StateFields /\ u.paths = s.paths \cup {added(d)}
      /\ u.pending = s.pending /\ u.dirty = s.dirty
  BY <1>3 DEF StateFields
<1> HIDE DEF u
<1>10. t = Mark(u, {added(d)})
  BY <1>2 DEF u
<1>11. /\ DOMAIN t = StateFields /\ t.paths = u.paths /\ t.pending = u.pending
       /\ t.dirty = u.dirty \cup {p.path : p \in {added(d)}}
  BY <1>9, <1>10, MarkFacts
<1>12. t.pending \subseteq {StableOf(ls2, k) : k \in names}
  BY <1>3, <1>7, <1>9, <1>11
<1>13. added(d).path = PathOf(ls2, l)
  BY <1>6, StableOfFields
<1>14. t.paths = StablePaths(ls2)
  BY <1>3, <1>6, <1>8, <1>9, <1>11
<1> QED BY <1>9, <1>11, <1>12, <1>13, <1>14 DEF Tracking

\* A record of a new name that completes the pending rename of a link.
Completes(ls, s, rec, t, l) ==
    /\ l.ref = rec.ref /\ l.dir = rec.dir
    /\ StableOf(ls, l) \in s.pending
    /\ rec.parent \in Directories(ls)
    /\ l.dir => l.ref \notin AtOrAbove(ls, rec.parent)
    /\ \A k \in ls : k.parent = rec.parent /\ Fold[k.name] = Fold[rec.name] =>
           k = l \/ (l.dir /\ k.parent \in Under(ls, l.ref))
    /\ NameFree(ls \ {l}, rec.parent, rec.name) =>
          /\ t.paths = StablePaths(Renamed(ls, l, rec.parent, rec.name))
          /\ PathOf(Renamed(ls, l, rec.parent, rec.name),
                    LinkTo(l.ref, rec.parent, rec.name, l.dir)) \in t.dirty
    /\ \A q \in t.paths : q \in s.paths \/ q.path \in t.dirty
    /\ DOMAIN t = StateFields /\ t.pending = s.pending \ {StableOf(ls, l)}
    /\ s.dirty \subseteq t.dirty

\* The record of a rename's new name: the old name is one of those pending, and
\* the paths are those of the tree after the rename.
LEMMA OnNewName ==
  ASSUME NEW ls, IsTree(ls), NEW names \in SUBSET ls, NEW s, Tracking(s, ls, names),
         NEW rec, rec.parent \in Refs \cup {Root}, rec.name \in Names,
         NEW t \in ApplyRenameNew(s, rec)
  PROVE  \E l \in names : Completes(ls, s, rec, t, l)
<1>1. DOMAIN s = StateFields /\ s.paths = StablePaths(ls) /\ s.pending \subseteq {StableOf(ls, k) : k \in names}
  BY DEF Tracking
<1> DEFINE Whole(c) == Subtree(s.paths, c[1])
           MovedBy(c) == {Relocated(q, c[1], rec, Append(c[2].path, rec.name)) : q \in Whole(c)}
<1>2. PICK c \in Completed(s, rec) :
         t = Mark([s EXCEPT !.paths = (@ \ Whole(c)) \cup MovedBy(c), !.pending = @ \ {c[1]}], MovedBy(c))
  BY Zenon DEF ApplyRenameNew
<1> DEFINE o == c[1]
           e == c[2]
           new == Append(e.path, rec.name)
<1>3. /\ o \in s.pending /\ e \in ParentDirectory(s.paths, rec.parent)
      /\ o.ref = rec.ref /\ o.dir = rec.dir
      /\ o.dir => ~Within(e.path, o.path)
      /\ Whole(c) # {}
      /\ \A q \in s.paths \ Whole(c) : \A w \in Whole(c) : PathKey(q.path) # PathKey(Rebased(w, o, new))
  BY Zenon DEF Completed
<1>4. PICK l \in names : o = StableOf(ls, l)
  BY <1>1, <1>3
<1>5. l \in ls /\ o.ref = l.ref /\ o.dir = l.dir /\ o.path = PathOf(ls, l)
  BY <1>4, StableOfFields
<1>6. rec.parent \in Directories(ls) /\ e.path = DirPath(ls, rec.parent)
  BY <1>1, <1>3, ParentIsDirectory
<1>7. l.dir => l.ref \notin AtOrAbove(ls, rec.parent)
  BY <1>3, <1>5, <1>6, LinkPath, LinkFacts, WithinDirectory
<1>8. o \in Whole(c)
  <2>1. \E k \in ls : o = StableOf(ls, k) /\ (k = l \/ (l.dir /\ k.parent \in Under(ls, l.ref)))
    BY <1>4, <1>5
  <2> QED BY <1>1, <1>4, <1>5, <2>1, SubtreeOfLink
<1>9. Rebased(o, o, new) = new
  <2>1. o.path \in Seq(Names) /\ new \in Seq(Names)
    BY <1>5, <1>6, LinkPath, PathTypes
  <2> HIDE DEF o, new
  <2>2. SubSeq(o.path, Len(o.path) + 1, Len(o.path)) = <<>> /\ new \o <<>> = new
    BY <2>1
  <2> QED BY <2>2 DEF Rebased
<1>10. ASSUME NEW k \in ls, k.parent = rec.parent, Fold[k.name] = Fold[rec.name]
       PROVE  k = l \/ (l.dir /\ k.parent \in Under(ls, l.ref))
  <2>1. PathKey(PathOf(ls, k)) = PathKey(new)
    <3>1. PathOf(ls, k) = Append(DirPath(ls, rec.parent), k.name) /\ new = Append(DirPath(ls, rec.parent), rec.name)
      BY <1>6, <1>10, LinkPath
    <3>2. DirPath(ls, rec.parent) \in Seq(Names) /\ k.name \in Names
      BY <1>6, PathTypes, LinkFacts
    <3> QED BY <1>10, <3>1, <3>2, KeyAppend
  <2>2. StableOf(ls, k) \in s.paths /\ StableOf(ls, k).path = PathOf(ls, k)
    BY <1>1, StableMembers, StableOfFields
  <2>3. StableOf(ls, k) \in Whole(c)
    BY <1>3, <1>8, <1>9, <2>1, <2>2
  <2>4. PICK m \in ls : StableOf(ls, k) = StableOf(ls, m) /\ (m = l \/ (l.dir /\ m.parent \in Under(ls, l.ref)))
    BY <1>1, <1>4, <1>5, <2>3, SubtreeOfLink
  <2>5. PathOf(ls, k) = PathOf(ls, m)
    BY <2>4, StableOfFields
  <2> QED BY <2>4, <2>5, LinkKeys
<1> DEFINE u == [s EXCEPT !.paths = (@ \ Whole(c)) \cup MovedBy(c), !.pending = @ \ {c[1]}]
<1>11. /\ DOMAIN u = StateFields /\ u.paths = (s.paths \ Whole(c)) \cup MovedBy(c)
       /\ u.pending = s.pending \ {o} /\ u.dirty = s.dirty
  <2> HIDE DEF Whole, MovedBy
  <2> QED BY <1>1 DEF StateFields
<1> HIDE DEF u
<1>12. /\ DOMAIN t = StateFields /\ t.paths = u.paths /\ t.pending = u.pending
       /\ t.dirty = u.dirty \cup {p.path : p \in MovedBy(c)}
  <2>1. t = Mark(u, MovedBy(c))
    BY <1>2 DEF u
  <2> HIDE DEF MovedBy
  <2> QED BY <1>11, <2>1, MarkFacts
<1>13. ASSUME NameFree(ls \ {l}, rec.parent, rec.name)
       PROVE  /\ t.paths = StablePaths(Renamed(ls, l, rec.parent, rec.name))
              /\ PathOf(Renamed(ls, l, rec.parent, rec.name),
                         LinkTo(l.ref, rec.parent, rec.name, l.dir)) \in t.dirty
  <2>1. t.paths = StablePaths(Renamed(ls, l, rec.parent, rec.name))
    <3>1. /\ Whole(c) = Subtree(StablePaths(ls), StableOf(ls, l))
          /\ MovedBy(c) = {Relocated(q, StableOf(ls, l), rec, Append(DirPath(ls, rec.parent), rec.name)) :
                             q \in Subtree(StablePaths(ls), StableOf(ls, l))}
      BY <1>1, <1>4, <1>6
    <3>2. (StablePaths(ls) \ Whole(c)) \cup MovedBy(c) = StablePaths(Renamed(ls, l, rec.parent, rec.name))
      <4>1. rec.ref = l.ref
        BY <1>3, <1>5
      <4>2. LET old == StableOf(ls, l)
                whole == Subtree(StablePaths(ls), old)
                moved == {Relocated(q, old, rec, Append(DirPath(ls, rec.parent), rec.name)) : q \in whole}
            IN (StablePaths(ls) \ whole) \cup moved = StablePaths(Renamed(ls, l, rec.parent, rec.name))
        <5> HIDE DEF Whole, MovedBy
        <5> QED BY <4>1, <1>5, <1>6, <1>7, <1>13, SubtreeMoves
      <4> HIDE DEF Whole, MovedBy
      <4> QED BY <3>1, <4>2, Zenon
    <3> HIDE DEF Whole, MovedBy
    <3> QED BY <1>1, <1>11, <1>12, <3>2
  <2>2. Relocated(o, o, rec, new).path = PathOf(Renamed(ls, l, rec.parent, rec.name),
                                            LinkTo(l.ref, rec.parent, rec.name, l.dir))
    <3>1. Relocated(o, o, rec, new).path = new
      BY <1>9, StableFields DEF Relocated
    <3>2. PathOf(Renamed(ls, l, rec.parent, rec.name), LinkTo(l.ref, rec.parent, rec.name, l.dir))
          = RebasedPath(ls, l, rec.parent, rec.name, PathOf(ls, l))
      BY <1>5, <1>6, <1>7, <1>13, RenamedTree
    <3>3. RebasedPath(ls, l, rec.parent, rec.name, PathOf(ls, l)) = Rebased(o, o, new)
      BY <1>5, <1>6 DEF RebasedPath, Rebased
    <3> QED BY <1>9, <3>1, <3>2, <3>3
  <2>3. Relocated(o, o, rec, new) \in MovedBy(c)
    BY <1>8
  <2> HIDE DEF MovedBy, o, new
  <2> QED BY <1>12, <2>1, <2>2, <2>3
<1>14. \A q \in t.paths : q \in s.paths \/ q.path \in t.dirty
  <2> HIDE DEF MovedBy, Whole
  <2> QED BY <1>11, <1>12
<1>15. s.dirty \subseteq t.dirty
  <2> HIDE DEF MovedBy
  <2> QED BY <1>11, <1>12
<1>16. /\ l.ref = rec.ref /\ l.dir = rec.dir /\ StableOf(ls, l) \in s.pending
       /\ rec.parent \in Directories(ls)
  BY <1>3, <1>4, <1>5, <1>6
<1>17. t.pending = s.pending \ {StableOf(ls, l)}
  BY <1>4, <1>11, <1>12
<1> HIDE DEF Whole, MovedBy
<1> QED BY <1>7, <1>10, <1>12, <1>13, <1>14, <1>15, <1>16, <1>17 DEF Completes

\* A record that changes no name.
LEMMA OnMetadata ==
  ASSUME NEW ls, IsTree(ls), NEW names \in SUBSET ls, NEW s, Tracking(s, ls, names),
         NEW l \in ls, NEW why, "delete" \notin why, "old" \notin why,
         NEW t \in ApplyDelta(s, Rec(l, why))
  PROVE  /\ Tracking(t, ls, names)
         /\ s.dirty \subseteq t.dirty
         /\ l \notin names => \A k \in ls : k.ref = l.ref => PathOf(ls, k) \in t.dirty
<1> DEFINE rec == Rec(l, why)
<1>0. rec.ref = l.ref /\ rec.parent = l.parent /\ rec.name = l.name /\ rec.dir = l.dir /\ rec.why = why
  BY RecFields
<1> HIDE DEF rec
<1>1. t \in ApplyDelta(s, rec)
  BY DEF rec
<1>2. DOMAIN s = StateFields /\ s.paths = StablePaths(ls) /\ s.pending \subseteq {StableOf(ls, k) : k \in names}
  BY DEF Tracking
<1>3. "create" \notin why
  <2> SUFFICES ASSUME "create" \in why PROVE FALSE
    OBVIOUS
  <2>1. t \in ApplyCreate(s, rec)
    BY <1>0, <1>1, Applied
  <2>2. Aliases(s.paths \cup s.dead, rec.ref) = {}
    BY <2>1 DEF ApplyCreate
  <2>3. StableOf(ls, l) \in Aliases(s.paths \cup s.dead, rec.ref)
    BY <1>0, <1>2, AliasesOfFile DEF Aliases
  <2> QED BY <2>2, <2>3
<1>4. CASE "new" \in why
  <2>1. t \in ApplyRenameNew(s, rec)
    BY <1>0, <1>1, <1>4, Applied
  <2>2. rec.parent \in Refs \cup {Root} /\ rec.name \in Names
    BY <1>0, LinkFacts
  <2>a. PICK m \in names : Completes(ls, s, rec, t, m)
    BY <2>1, <2>2, OnNewName
  <2>3. /\ m.ref = rec.ref
        /\ \A k \in ls : k.parent = rec.parent /\ Fold[k.name] = Fold[rec.name] =>
               k = m \/ (m.dir /\ k.parent \in Under(ls, m.ref))
        /\ NameFree(ls \ {m}, rec.parent, rec.name) =>
              t.paths = StablePaths(Renamed(ls, m, rec.parent, rec.name))
        /\ DOMAIN t = StateFields /\ t.pending = s.pending \ {StableOf(ls, m)}
        /\ s.dirty \subseteq t.dirty
    BY <2>a DEF Completes
  <2>4. m = l
    <3>1. m.dir => l = m
      BY <1>0, <2>3, LinkFacts
    <3> QED BY <1>0, <2>3, <3>1
  <2>5. Renamed(ls, l, rec.parent, rec.name) = ls
    BY <1>0, LinkFacts DEF Renamed
  <2>6. NameFree(ls \ {l}, rec.parent, rec.name)
    BY <1>0 DEF IsTree
  <2>7. t.paths = StablePaths(ls)
    BY <2>3, <2>4, <2>5, <2>6
  <2> QED BY <1>2, <2>3, <2>4, <2>7 DEF Tracking
<1>5. CASE "new" \notin why
  <2>1. Topology(rec) = {}
    BY <1>0, <1>3, <1>5 DEF Topology
  <2>2. t \in ApplyMetadata(s, rec)
    BY <1>1, <2>1, Applied
  <2>3. t = Mark(s, Aliases(s.paths, rec.ref))
    BY <2>2 DEF ApplyMetadata
  <2>4. /\ DOMAIN t = StateFields /\ t.paths = s.paths /\ t.pending = s.pending
        /\ t.dirty = s.dirty \cup {p.path : p \in Aliases(s.paths, rec.ref)}
    BY <1>2, <2>3, MarkFacts
  <2>5. ASSUME NEW k \in ls, k.ref = l.ref PROVE PathOf(ls, k) \in t.dirty
    <3>1. StableOf(ls, k) \in Aliases(s.paths, rec.ref) /\ StableOf(ls, k).path = PathOf(ls, k)
      BY <1>0, <1>2, <2>5, AliasesOfFile, StableOfFields
    <3> QED BY <2>4, <3>1
  <2>6. Tracking(t, ls, names)
    BY <1>2, <2>4 DEF Tracking
  <2> QED BY <2>4, <2>5, <2>6
<1> QED BY <1>4, <1>5

\* The first record of a deletion.
LEMMA OnDelete ==
  ASSUME NEW ls, IsTree(ls), NEW names \in SUBSET ls, NEW s, Tracking(s, ls, names),
         NEW l \in ls, LinksOf(ls, l.ref) = {l}, \A k \in ls : k.parent # l.ref, l \notin names,
         NEW why, "delete" \in why,
         NEW t \in ApplyDelta(s, Rec(l, why))
  PROVE  Tracking(t, ls \ {l}, names) /\ s.dirty \subseteq t.dirty
<1> DEFINE rec == Rec(l, why)
           ls2 == ls \ {l}
<1>0. rec.ref = l.ref /\ rec.parent = l.parent /\ rec.name = l.name /\ rec.dir = l.dir /\ rec.why = why
  BY RecFields
<1> HIDE DEF rec
<1>1. t \in ApplyDelete(s, rec)
  BY <1>0, Applied DEF rec
<1>2. DOMAIN s = StateFields /\ s.paths = StablePaths(ls) /\ s.pending \subseteq {StableOf(ls, k) : k \in names}
  BY DEF Tracking
<1>3. Aliases(s.paths, rec.ref) # {}
  BY <1>0, <1>2, AliasesOfFile
<1>4. PICK p \in Named(s.paths, rec) :
         t = Mark([s EXCEPT !.paths = @ \ Subtree(s.paths, p), !.dead = @ \cup Subtree(s.paths, p)],
                  Subtree(s.paths, p))
  BY <1>1, <1>3, Zenon DEF ApplyDelete
<1>5. p = StableOf(ls, l)
  BY <1>0, <1>2, <1>4, NamedByLink
<1>6. Subtree(s.paths, p) = {p}
  <2>1. \A k \in ls : k = l \/ ~(l.dir /\ k.parent \in Under(ls, l.ref))
    BY NothingUnder
  <2> QED BY <1>2, <1>5, <2>1, SubtreeOfLink
<1>7. \A e \in Directories(ls2) : DirPath(ls2, e) = DirPath(ls, e)
  BY LinkLess
<1>8. IsTree(ls2)
  BY LinkLess
<1>9. \A k \in ls2 : StableOf(ls2, k) = StableOf(ls, k)
  <2>1. \A k \in ls2 : k.parent \in Directories(ls2)
    BY <1>8 DEF IsTree
  <2> QED BY <1>7, <2>1 DEF StableOf, PathOf
<1>10. StablePaths(ls2) = StablePaths(ls) \ {p}
  <2> HIDE DEF ls2
  <2>1. \A q : q \in StablePaths(ls2) <=> q = RootPath \/ \E k \in ls2 : q = StableOf(ls2, k)
    BY StableMembers
  <2>2. \A q : q \in StablePaths(ls) <=> q = RootPath \/ \E k \in ls : q = StableOf(ls, k)
    BY StableMembers
  <2>3. \A k : k \in ls2 <=> k \in ls /\ k # l
    BY DEF ls2
  <2>4. p # RootPath
    BY <1>5, RootFields, StableOfFields, LinkFacts
  <2>5. \A k \in ls : StableOf(ls, k) = p => k = l
    <3> TAKE k \in ls
    <3> HAVE StableOf(ls, k) = p
    <3>1. PathOf(ls, k) = PathOf(ls, l)
      BY <1>5, StableOfFields
    <3> QED BY <3>1, LinkKeys
  <2> QED BY <1>5, <1>9, <2>1, <2>2, <2>3, <2>4, <2>5
<1> DEFINE u == [s EXCEPT !.paths = @ \ Subtree(s.paths, p), !.dead = @ \cup Subtree(s.paths, p)]
<1>11. /\ DOMAIN u = StateFields /\ u.paths = s.paths \ {p} /\ u.pending = s.pending /\ u.dirty = s.dirty
  BY <1>2, <1>6 DEF StateFields
<1> HIDE DEF u
<1>12. /\ DOMAIN t = StateFields /\ t.paths = u.paths /\ t.pending = u.pending
       /\ t.dirty = u.dirty \cup {q.path : q \in Subtree(s.paths, p)}
  <2>1. t = Mark(u, Subtree(s.paths, p))
    BY <1>4 DEF u
  <2> QED BY <1>11, <2>1, MarkFacts
<1>13. t.pending \subseteq {StableOf(ls2, k) : k \in names}
  <2>1. \A k \in names : StableOf(ls2, k) = StableOf(ls, k)
    BY <1>9
  <2> QED BY <1>2, <1>11, <1>12, <2>1
<1>14. t.paths = StablePaths(ls2)
  BY <1>2, <1>10, <1>11, <1>12
<1> QED BY <1>11, <1>12, <1>13, <1>14 DEF Tracking

\* The second record of a deletion.
LEMMA OnDeleteAgain ==
  ASSUME NEW ls, NEW names, NEW s, Tracking(s, ls, names),
         NEW l, l.ref # Root, \A k \in ls : k.ref # l.ref,
         NEW why, "delete" \in why,
         NEW t \in ApplyDelta(s, Rec(l, why))
  PROVE  Tracking(t, ls, names) /\ s.dirty \subseteq t.dirty
<1> DEFINE rec == Rec(l, why)
<1>0. rec.ref = l.ref /\ rec.why = why
  BY RecFields
<1> HIDE DEF rec
<1>1. t \in ApplyDelete(s, rec)
  BY <1>0, Applied DEF rec
<1>2. DOMAIN s = StateFields /\ s.paths = StablePaths(ls) /\ s.pending \subseteq {StableOf(ls, k) : k \in names}
  BY DEF Tracking
<1>3. Aliases(s.paths, rec.ref) = {}
  BY <1>0, <1>2, StableOfFile DEF Aliases
<1>4. PICK p : t = Mark([s EXCEPT !.dead = @ \ {p}], {p})
  BY <1>1, <1>3 DEF ApplyDelete
<1> DEFINE u == [s EXCEPT !.dead = @ \ {p}]
<1>5. DOMAIN u = StateFields /\ u.paths = s.paths /\ u.pending = s.pending /\ u.dirty = s.dirty
  BY <1>2 DEF StateFields
<1> HIDE DEF u
<1>6. /\ DOMAIN t = StateFields /\ t.paths = u.paths /\ t.pending = u.pending
      /\ t.dirty = u.dirty \cup {q.path : q \in {p}}
  <2>1. t = Mark(u, {p})
    BY <1>4 DEF u
  <2> QED BY <1>5, <2>1, MarkFacts
<1> QED BY <1>2, <1>5, <1>6 DEF Tracking

\* The record of a rename's old name.
LEMMA OnOldName ==
  ASSUME NEW ls, IsTree(ls), NEW names \in SUBSET ls, NEW s, Tracking(s, ls, names),
         NEW l \in ls, NEW why, "old" \in why,
         NEW t \in ApplyDelta(s, Rec(l, why))
  PROVE  Tracking(t, ls, names \cup {l}) /\ s.dirty \subseteq t.dirty
<1> DEFINE rec == Rec(l, why)
<1>0. rec.ref = l.ref /\ rec.parent = l.parent /\ rec.name = l.name /\ rec.why = why
  BY RecFields
<1> HIDE DEF rec
<1>1. t \in ApplyRenameOld(s, rec)
  BY <1>0, Applied DEF rec
<1>2. DOMAIN s = StateFields /\ s.paths = StablePaths(ls) /\ s.pending \subseteq {StableOf(ls, k) : k \in names}
  BY DEF Tracking
<1>3. PICK p \in Named(s.paths, rec) : t = Mark([s EXCEPT !.pending = @ \cup {p}], Subtree(s.paths, p))
  BY <1>1, Zenon DEF ApplyRenameOld
<1>4. p = StableOf(ls, l)
  BY <1>0, <1>2, <1>3, NamedByLink
<1> DEFINE u == [s EXCEPT !.pending = @ \cup {p}]
<1>5. DOMAIN u = StateFields /\ u.paths = s.paths /\ u.pending = s.pending \cup {p} /\ u.dirty = s.dirty
  BY <1>2 DEF StateFields
<1> HIDE DEF u
<1>6. /\ DOMAIN t = StateFields /\ t.paths = u.paths /\ t.pending = u.pending
      /\ t.dirty = u.dirty \cup {q.path : q \in Subtree(s.paths, p)}
  <2>1. t = Mark(u, Subtree(s.paths, p))
    BY <1>3 DEF u
  <2> QED BY <1>5, <2>1, MarkFacts
<1> QED BY <1>2, <1>4, <1>5, <1>6 DEF Tracking

--------------------------------------------------------------------------------
(* The volume *)

Whys == Kinds \cup {"delete", "old", "close"}

JournalRecords ==
    [ref : Refs, parent : Refs \cup {Root}, name : Names, dir : BOOLEAN, why : SUBSET Whys]

\* The names of files form a tree, reasons are those a file that exists can have,
\* and of each file one name is being changed at most.
VolumeInv ==
    /\ IsTree(links)
    /\ stamp \in [Refs -> Nat] /\ \A l \in links : stamp[l.ref] # 0
    /\ reasons \in [Refs -> SUBSET Kinds]
    /\ journal \in Seq(JournalRecords)
    /\ lowest \in Nat /\ journalId \in Nat
    /\ renaming \subseteq links
    /\ \A k, m \in renaming : k.ref = m.ref => k = m

\* The volume begins with a tree and an empty journal.
LEMMA VolumeStarts == ASSUME VolumeInit PROVE VolumeInv
<1>1. IsTree(links)
  BY TreesAssumption DEF VolumeInit
<1>2. stamp \in [Refs -> Nat] /\ \A l \in links : stamp[l.ref] # 0
  BY <1>1, LinkFacts DEF VolumeInit, LinksOf
<1>3. journal \in Seq(JournalRecords)
  BY DEF VolumeInit
<1> QED BY <1>1, <1>2, <1>3 DEF VolumeInit, VolumeInv

\* A record of a link is a journal record.
LEMMA RecType ==
  ASSUME NEW l \in Links, NEW why \in SUBSET Whys PROVE Rec(l, why) \in JournalRecords
  BY DEF Rec, JournalRecords, Links

\* What the journal is after one record, and after two.
LEMMA OneRecord ==
  ASSUME NEW l, NEW why, Write(Records(l, <<why>>)), NEW S, journal \in Seq(S), Rec(l, why) \in S
  PROVE  journal' = Append(journal, Rec(l, why))
<1>1. Records(l, <<why>>) = <<Rec(l, why)>>
  BY DEF Records, Rec
<1>2. journal' = journal \o <<Rec(l, why)>>
  BY <1>1 DEF Write
<1> QED BY <1>2

\* The records of two links.
LEMMA TwoRecords ==
  ASSUME NEW l, NEW why, NEW m, NEW how, Write(Records(l, <<why>>) \o Records(m, <<how>>)),
         NEW S, journal \in Seq(S), Rec(l, why) \in S, Rec(m, how) \in S
  PROVE  journal' = Append(Append(journal, Rec(l, why)), Rec(m, how))
<1>1. Records(l, <<why>>) = <<Rec(l, why)>> /\ Records(m, <<how>>) = <<Rec(m, how)>>
  BY DEF Records, Rec
<1>2. journal' = journal \o (<<Rec(l, why)>> \o <<Rec(m, how)>>)
  BY <1>1 DEF Write
<1> QED BY <1>2

\* Two records of one link.
LEMMA PairOfRecords ==
  ASSUME NEW l, NEW why, NEW how, Write(Records(l, <<why, how>>)),
         NEW S, journal \in Seq(S), Rec(l, why) \in S, Rec(l, how) \in S
  PROVE  journal' = Append(Append(journal, Rec(l, why)), Rec(l, how))
<1>1. Records(l, <<why, how>>) = <<Rec(l, why), Rec(l, how)>>
  BY DEF Records, Rec
<1>2. journal' = journal \o <<Rec(l, why), Rec(l, how)>>
  BY <1>1 DEF Write
<1>3. <<Rec(l, why), Rec(l, how)>> = <<Rec(l, why)>> \o <<Rec(l, how)>>
  OBVIOUS
<1> QED BY <1>2, <1>3

\* Creating a file adds a link and writes a record of it.
LEMMA OnCreateFile ==
  ASSUME VolumeInv, NEW r \in Refs, NEW p \in Refs \cup {Root}, NEW n \in Names, NEW d \in BOOLEAN,
         CreateFile(r, p, n, d)
  PROVE  LET l == LinkTo(r, p, n, d)
         IN /\ l \in Links /\ \A k \in links : k.ref # l.ref
            /\ p \in Directories(links) /\ NameFree(links, p, n)
            /\ links' = links \cup {l} /\ UNCHANGED renaming
            /\ \A x \in Refs : x # r => stamp'[x] = stamp[x] /\ reasons'[x] = reasons[x]
            /\ journal' = Append(journal, Rec(l, {"create"}))
            /\ VolumeInv'
<1> DEFINE l == LinkTo(r, p, n, d)
<1>1. l \in Links /\ l.ref = r /\ l.parent = p /\ l.name = n /\ l.dir = d
  BY DEF Links, LinkTo
<1>2. \A k \in links : k.ref # l.ref
  BY <1>1 DEF CreateFile, VolumeInv
<1>3. journal' = Append(journal, Rec(l, {"create"})) /\ journal' \in Seq(JournalRecords)
  <2>1. Rec(l, {"create"}) \in JournalRecords
    BY <1>1, RecType DEF Whys, Kinds
  <2> HIDE DEF l
  <2>2. Write(Records(l, <<{"create"}>>)) /\ journal \in Seq(JournalRecords)
    BY DEF l, CreateFile, VolumeInv
  <2>3. journal' = Append(journal, Rec(l, {"create"}))
    BY <2>1, <2>2, OneRecord
  <2> QED BY <2>1, <2>2, <2>3
<1>4. p \in Directories(links) /\ NameFree(links, p, n) /\ links' = links \cup {l}
  BY DEF CreateFile
<1> HIDE DEF l
<1>5. IsTree(links')
  <2>1. IsTree(links) /\ NameFree(links, l.parent, l.name) /\ l.parent \in Directories(links)
    BY <1>1, <1>4 DEF VolumeInv
  <2> QED BY <1>1, <1>2, <1>4, <2>1, LinkMore
<1>6. stamp' \in [Refs -> Nat] /\ \A k \in links' : stamp'[k.ref] # 0
  <2>1. stamp' = [stamp EXCEPT ![r] = 1] /\ stamp \in [Refs -> Nat] /\ \A k \in links : stamp[k.ref] # 0 /\ k.ref \in Refs
    BY LinkFacts DEF CreateFile, VolumeInv
  <2> QED BY <1>1, <1>4, <2>1
<1>7. reasons' \in [Refs -> SUBSET Kinds]
  BY DEF CreateFile, VolumeInv, Kinds
<1>8. renaming' \subseteq links' /\ \A k, m \in renaming' : k.ref = m.ref => k = m
  BY <1>4 DEF CreateFile, VolumeInv
<1>9. lowest' \in Nat /\ journalId' \in Nat
  BY DEF CreateFile, VolumeInv
<1>10. VolumeInv'
  BY <1>3, <1>5, <1>6, <1>7, <1>8, <1>9 DEF VolumeInv
<1>11. /\ UNCHANGED renaming
       /\ \A x \in Refs : x # r => stamp'[x] = stamp[x] /\ reasons'[x] = reasons[x]
  BY DEF CreateFile, VolumeInv
<1> QED BY <1>1, <1>2, <1>3, <1>4, <1>10, <1>11 DEF l

\* A write to a file leaves a record, or none while an earlier one stands.
LEMMA OnModify ==
  ASSUME VolumeInv, NEW l \in links, Modify(l)
  PROVE  /\ UNCHANGED <<links, renaming>>
         /\ \A r \in Refs : r # l.ref => stamp'[r] = stamp[r] /\ reasons'[r] = reasons[r]
         /\ "data" \in reasons'[l.ref]
         /\ \/ journal' = journal
            \/ \E why \in SUBSET Kinds : journal' = Append(journal, Rec(l, why))
         /\ VolumeInv'
<1>1. l \in Links /\ l.ref \in Refs /\ reasons[l.ref] \subseteq Kinds
  BY LinkFacts DEF VolumeInv, IsTree
<1>2. /\ stamp' = [stamp EXCEPT ![l.ref] = @ + 1]
      /\ reasons' = [reasons EXCEPT ![l.ref] = @ \cup {"data"}]
      /\ UNCHANGED <<links, journalId, lowest, renaming>>
  BY DEF Modify
<1>3. /\ stamp \in [Refs -> Nat] /\ reasons \in [Refs -> SUBSET Kinds] /\ journal \in Seq(JournalRecords)
  BY DEF VolumeInv
<1>4. /\ journal' \in Seq(JournalRecords)
      /\ \/ journal' = journal
         \/ \E why \in SUBSET Kinds : journal' = Append(journal, Rec(l, why))
  <2>1. CASE "data" \in reasons[l.ref]
    BY <1>3, <2>1 DEF Modify
  <2>2. CASE "data" \notin reasons[l.ref]
    <3> DEFINE why == reasons[l.ref] \cup {"data"}
    <3>1. why \in SUBSET Kinds /\ why \in SUBSET Whys
      BY <1>1 DEF Kinds, Whys
    <3>2. Write(Records(l, <<why>>))
      BY <2>2 DEF Modify
    <3> HIDE DEF why
    <3>3. Rec(l, why) \in JournalRecords
      BY <1>1, <3>1, RecType
    <3>4. journal' = Append(journal, Rec(l, why))
      BY <1>3, <3>2, <3>3, OneRecord
    <3> QED BY <1>3, <3>1, <3>3, <3>4
  <2> QED BY <2>1, <2>2
<1>5. /\ \A r \in Refs : r # l.ref => stamp'[r] = stamp[r] /\ reasons'[r] = reasons[r]
      /\ "data" \in reasons'[l.ref]
      /\ stamp' \in [Refs -> Nat] /\ \A r \in Refs : stamp[r] # 0 => stamp'[r] # 0
      /\ reasons' \in [Refs -> SUBSET Kinds]
  BY <1>1, <1>2, <1>3 DEF Kinds
<1>6. VolumeInv'
  <2>1. \A k \in links : k.ref \in Refs /\ stamp[k.ref] # 0
    BY LinkFacts DEF VolumeInv
  <2> QED BY <1>2, <1>4, <1>5, <2>1 DEF VolumeInv
<1> QED BY <1>2, <1>4, <1>5, <1>6

\* Closing a file writes every reason since its last close.
LEMMA OnCloseFile ==
  ASSUME VolumeInv, NEW l \in links, CloseFile(l)
  PROVE  /\ UNCHANGED <<links, stamp, renaming>> /\ l \notin renaming
         /\ \A r \in Refs : r # l.ref => reasons'[r] = reasons[r]
         /\ \E why \in SUBSET (Kinds \cup {"close"}) : journal' = Append(journal, Rec(l, why))
         /\ VolumeInv'
<1>1. l \in Links /\ l.ref \in Refs /\ reasons[l.ref] \subseteq Kinds
  BY LinkFacts DEF VolumeInv, IsTree
<1> DEFINE why == reasons[l.ref] \cup {"close"}
<1>2. Write(Records(l, <<why>>)) /\ reasons' = [reasons EXCEPT ![l.ref] = {}]
      /\ UNCHANGED <<links, stamp, journalId, lowest, renaming>> /\ l \notin renaming
  BY DEF CloseFile
<1>3. why \in SUBSET (Kinds \cup {"close"}) /\ why \in SUBSET Whys
  BY <1>1 DEF Whys
<1> HIDE DEF why
<1>4. Rec(l, why) \in JournalRecords /\ journal \in Seq(JournalRecords) /\ reasons \in [Refs -> SUBSET Kinds]
  BY <1>1, <1>3, RecType DEF VolumeInv
<1>5. journal' = Append(journal, Rec(l, why))
  BY <1>2, <1>4, OneRecord
<1>6. journal' \in Seq(JournalRecords) /\ reasons' \in [Refs -> SUBSET Kinds]
  <2>1. journal' \in Seq(JournalRecords)
    BY <1>4, <1>5
  <2>2. reasons' \in [Refs -> SUBSET Kinds]
    BY <1>2, <1>4
  <2> QED BY <2>1, <2>2
<1>7. VolumeInv'
  BY <1>2, <1>6 DEF VolumeInv
<1> QED BY <1>2, <1>3, <1>4, <1>5, <1>7

\* Deleting a file takes its link away and writes one record or two.
LEMMA OnDeleteFile ==
  ASSUME VolumeInv, NEW l \in links, DeleteFile(l)
  PROVE  /\ LinksOf(links, l.ref) = {l} /\ (\A k \in links : k.parent # l.ref) /\ l \notin renaming
         /\ links' = links \ {l} /\ UNCHANGED <<stamp, renaming>>
         /\ \A r \in Refs : r # l.ref => reasons'[r] = reasons[r]
         /\ \E why \in SUBSET Kinds :
               \/ journal' = Append(journal, Rec(l, why \cup {"delete", "close"}))
               \/ journal' = Append(Append(journal, Rec(l, why \cup {"delete"})),
                                    Rec(l, why \cup {"delete", "close"}))
         /\ VolumeInv'
<1>1. l \in Links /\ l.ref \in Refs /\ reasons[l.ref] \in SUBSET Kinds
  BY LinkFacts DEF VolumeInv, IsTree
<1> DEFINE why == reasons[l.ref]
           first == Rec(l, why \cup {"delete"})
           whole == Rec(l, why \cup {"delete", "close"})
<1>2. /\ LinksOf(links, l.ref) = {l} /\ (\A k \in links : k.parent # l.ref) /\ l \notin renaming
      /\ links' = links \ {l} /\ UNCHANGED <<stamp, journalId, lowest, renaming>>
      /\ reasons' = [reasons EXCEPT ![l.ref] = {}]
  BY DEF DeleteFile
<1>3. \/ Write(Records(l, <<why \cup {"delete", "close"}>>))
      \/ Write(Records(l, <<why \cup {"delete"}, why \cup {"delete", "close"}>>))
  BY DEF DeleteFile
<1>4. first \in JournalRecords /\ whole \in JournalRecords
  <2>1. why \cup {"delete"} \in SUBSET Whys /\ why \cup {"delete", "close"} \in SUBSET Whys
    BY <1>1 DEF Whys
  <2> HIDE DEF why
  <2> QED BY <1>1, <2>1, RecType
<1>5. journal \in Seq(JournalRecords) /\ reasons \in [Refs -> SUBSET Kinds] /\ IsTree(links)
  BY DEF VolumeInv
<1>6. journal' = Append(journal, whole) \/ journal' = Append(Append(journal, first), whole)
  <2>1. CASE Write(Records(l, <<why \cup {"delete", "close"}>>))
    <3> HIDE DEF why
    <3> QED BY <1>4, <1>5, <2>1, OneRecord
  <2>2. CASE Write(Records(l, <<why \cup {"delete"}, why \cup {"delete", "close"}>>))
    <3> HIDE DEF why
    <3> QED BY <1>4, <1>5, <2>2, PairOfRecords
  <2> QED BY <1>3, <2>1, <2>2
<1>7. journal' \in Seq(JournalRecords) /\ reasons' \in [Refs -> SUBSET Kinds]
  <2> HIDE DEF first, whole
  <2>1. \A J \in Seq(JournalRecords) : \A x \in JournalRecords : Append(J, x) \in Seq(JournalRecords)
    OBVIOUS
  <2>2. journal' \in Seq(JournalRecords)
    BY <1>4, <1>5, <1>6, <2>1
  <2>3. reasons' \in [Refs -> SUBSET Kinds]
    BY <1>2, <1>5
  <2> QED BY <2>2, <2>3
<1>8. IsTree(links')
  BY <1>2, <1>5, LinkLess
<1>9. VolumeInv'
  BY <1>2, <1>7, <1>8 DEF VolumeInv
<1> QED BY <1>1, <1>2, <1>5, <1>6, <1>9

\* A further name for a file leaves a record the readers refuse.
LEMMA OnAddLink ==
  ASSUME VolumeInv, NEW l \in links, NEW p \in Refs \cup {Root}, NEW n \in Names, AddLink(l, p, n)
  PROVE  /\ \E why \in SUBSET Kinds : "link" \in why /\ journal' = Append(journal, Rec(l, why))
         /\ VolumeInv'
<1>1. l \in Links /\ l.ref \in Refs /\ reasons[l.ref] \subseteq Kinds
  BY LinkFacts DEF VolumeInv, IsTree
<1> DEFINE why == reasons[l.ref] \cup {"link"}
           l2 == LinkTo(l.ref, p, n, FALSE)
<1>2. /\ ~l.dir /\ p \in Directories(links) /\ NameFree(links, p, n)
      /\ links' = links \cup {l2}
      /\ Write(Records(l, <<why>>)) /\ reasons' = [reasons EXCEPT ![l.ref] = @ \cup {"link"}]
      /\ UNCHANGED <<stamp, journalId, lowest, renaming>>
  BY DEF AddLink
<1>3. why \in SUBSET Kinds /\ why \in SUBSET Whys /\ "link" \in why
  BY <1>1 DEF Whys, Kinds
<1>4. l2 \in Links /\ l2.ref = l.ref /\ l2.parent = p /\ l2.name = n /\ ~l2.dir
  BY <1>1 DEF Links, LinkTo
<1> HIDE DEF why, l2
<1>5. Rec(l, why) \in JournalRecords /\ journal \in Seq(JournalRecords) /\ reasons \in [Refs -> SUBSET Kinds]
  BY <1>1, <1>3, RecType DEF VolumeInv
<1>6. journal' = Append(journal, Rec(l, why))
  BY <1>2, <1>5, OneRecord
<1>7. journal' \in Seq(JournalRecords) /\ reasons' \in [Refs -> SUBSET Kinds]
  <2>1. journal' \in Seq(JournalRecords)
    BY <1>5, <1>6
  <2>2. reasons' \in [Refs -> SUBSET Kinds]
    BY <1>2, <1>5 DEF Kinds
  <2> QED BY <2>1, <2>2
<1>8. IsTree(links')
  <2>1. \A k \in links : k.ref = l2.ref => ~k.dir /\ ~l2.dir
    BY <1>2, <1>4, LinkFacts DEF VolumeInv
  <2>2. IsTree(links)
    BY DEF VolumeInv
  <2> QED BY <1>2, <1>4, <2>1, <2>2, LinkMore
<1>9. VolumeInv'
  BY <1>2, <1>4, <1>7, <1>8 DEF VolumeInv
<1> QED BY <1>3, <1>6, <1>9

\* Dropping old records changes neither the tree nor the records kept.
LEMMA OnTrim ==
  ASSUME VolumeInv, TrimJournal
  PROVE  UNCHANGED <<links, stamp, reasons, journal, journalId, renaming>> /\ VolumeInv'
  BY DEF TrimJournal, VolumeInv

\* A journal made anew is another journal.
LEMMA OnRecreate ==
  ASSUME VolumeInv, RecreateJournal
  PROVE  journalId' = 2 /\ VolumeInv'
<1>1. journal' \in Seq(JournalRecords)
  BY DEF RecreateJournal
<1> QED BY <1>1 DEF RecreateJournal, VolumeInv

\* The first record of a rename changes no name yet.
LEMMA OnLogsOld ==
  ASSUME VolumeInv, NEW l \in links, RenameLogsOld(l)
  PROVE  /\ UNCHANGED <<links, stamp, reasons>> /\ renaming' = renaming \cup {l}
         /\ \E why \in SUBSET Whys : "old" \in why /\ journal' = Append(journal, Rec(l, why))
         /\ VolumeInv'
<1>1. l \in Links /\ l.ref \in Refs /\ reasons[l.ref] \subseteq Kinds
  BY LinkFacts DEF VolumeInv, IsTree
<1> DEFINE why == RenamedReasons(l.ref) \cup {"old"}
<1>2. /\ Write(Records(l, <<why>>)) /\ renaming' = renaming \cup {l} /\ \A k \in renaming : k.ref # l.ref
      /\ UNCHANGED <<links, stamp, reasons, journalId, lowest>>
  BY DEF RenameLogsOld
<1>3. why \in SUBSET Whys /\ "old" \in why
  BY <1>1 DEF Whys, RenamedReasons
<1> HIDE DEF why
<1>4. Rec(l, why) \in JournalRecords /\ journal \in Seq(JournalRecords)
  BY <1>1, <1>3, RecType DEF VolumeInv
<1>5. journal' = Append(journal, Rec(l, why))
  BY <1>2, <1>4, OneRecord
<1>6. journal' \in Seq(JournalRecords)
  BY <1>4, <1>5
<1>7. VolumeInv'
  BY <1>2, <1>6 DEF VolumeInv
<1> QED BY <1>2, <1>3, <1>5, <1>7

\* What a rename does to the tree.
LEMMA OnMove ==
  ASSUME VolumeInv, NEW l \in links, NEW p \in Refs \cup {Root}, NEW n \in Names, CanMove(l, p, n)
  PROVE  /\ p \in Directories(links) /\ NameFree(links \ {l}, p, n)
         /\ l.dir => l.ref \notin AtOrAbove(links, p)
         /\ LinkTo(l.ref, p, n, l.dir) \in Links
         /\ IsTree(Renamed(links, l, p, n))
         /\ \A k \in renaming \ {l} : PathOf(Renamed(links, l, p, n), k) = PathOf(links, k)
         /\ \A k \in Renamed(links, l, p, n) : stamp[k.ref] # 0
<1>1. IsTree(links) /\ renaming \subseteq links /\ \A k \in links : stamp[k.ref] # 0
  BY DEF VolumeInv
<1>2. p \in Directories(links) /\ NameFree(links \ {l}, p, n)
      /\ (l.dir => /\ l.ref \notin AtOrAbove(links, p)
                   /\ \A k \in renaming \ {l} : l.ref \notin AtOrAbove(links, k.parent))
  BY DEF CanMove
<1>3. LinkTo(l.ref, p, n, l.dir) \in Links
  BY <1>1, LinkFacts DEF Links, LinkTo
<1>4. IsTree(Renamed(links, l, p, n))
      /\ \A k \in links \ {l} :
            ~(l.dir /\ k.parent \in Under(links, l.ref)) => PathOf(Renamed(links, l, p, n), k) = PathOf(links, k)
  <2>1. l.dir => l.ref \notin AtOrAbove(links, p)
    BY <1>2
  <2>2. IsTree(Renamed(links, l, p, n))
    BY <1>1, <1>2, <2>1, RenamedTree
  <2>3. \A k \in links \ {l} :
           PathOf(Renamed(links, l, p, n), k) =
             IF l.dir /\ k.parent \in Under(links, l.ref) THEN RebasedPath(links, l, p, n, PathOf(links, k))
             ELSE PathOf(links, k)
    BY <1>1, <1>2, <2>1, RenamedTree, Zenon
  <2> QED BY <2>2, <2>3
<1>5. \A k \in renaming \ {l} : PathOf(Renamed(links, l, p, n), k) = PathOf(links, k)
  BY <1>1, <1>2, <1>4 DEF Under
<1>6. \A k \in Renamed(links, l, p, n) : stamp[k.ref] # 0
  BY <1>1 DEF Renamed, LinkTo
<1> QED BY <1>2, <1>3, <1>4, <1>5, <1>6

\* The second record of a rename comes with the change of the name.
LEMMA OnLogsNew ==
  ASSUME VolumeInv, NEW l \in renaming, NEW p \in Refs \cup {Root}, NEW n \in Names, RenameLogsNew(l, p, n)
  PROVE  /\ links' = Renamed(links, l, p, n) /\ renaming' = renaming \ {l} /\ UNCHANGED stamp
         /\ CanMove(l, p, n)
         /\ \A r \in Refs : "data" \in reasons[r] => "data" \in reasons'[r]
         /\ \E why \in SUBSET Whys : /\ "new" \in why
                                     /\ journal' = Append(journal, Rec(LinkTo(l.ref, p, n, l.dir), why))
         /\ VolumeInv'
<1>1. l \in links /\ l.ref \in Refs /\ reasons[l.ref] \subseteq Kinds
  BY LinkFacts DEF VolumeInv, IsTree
<1> DEFINE why == RenamedReasons(l.ref) \cup {"new"}
           l2 == LinkTo(l.ref, p, n, l.dir)
<1>2. /\ CanMove(l, p, n) /\ Write(Records(l2, <<why>>)) /\ renaming' = renaming \ {l}
      /\ links' = Renamed(links, l, p, n)
      /\ reasons' = [reasons EXCEPT ![l.ref] = why]
      /\ UNCHANGED <<stamp, journalId, lowest>>
  BY DEF RenameLogsNew, Renamed
<1>3. why \in SUBSET Whys /\ "new" \in why /\ why \in SUBSET Kinds /\ ("data" \in reasons[l.ref] => "data" \in why)
  BY <1>1 DEF Whys, Kinds, RenamedReasons
<1>4. l2 \in Links
  BY <1>1, <1>2, OnMove
<1> HIDE DEF why, l2
<1>5. Rec(l2, why) \in JournalRecords /\ journal \in Seq(JournalRecords) /\ reasons \in [Refs -> SUBSET Kinds]
  BY <1>3, <1>4, RecType DEF VolumeInv
<1>6. journal' = Append(journal, Rec(l2, why))
  BY <1>2, <1>5, OneRecord
<1>7. journal' \in Seq(JournalRecords)
  BY <1>5, <1>6
<1>8. /\ reasons' \in [Refs -> SUBSET Kinds]
      /\ \A r \in Refs : "data" \in reasons[r] => "data" \in reasons'[r]
  BY <1>1, <1>2, <1>3, <1>5
<1>9. IsTree(links') /\ \A k \in links' : stamp'[k.ref] # 0
  BY <1>1, <1>2, OnMove
<1>10. renaming' \subseteq links'
  BY <1>2 DEF Renamed, VolumeInv
<1>11. VolumeInv'
  BY <1>2, <1>7, <1>8, <1>9, <1>10 DEF VolumeInv
<1> QED BY <1>2, <1>3, <1>6, <1>8, <1>11 DEF l2

\* A rename in one piece writes both records.
LEMMA OnRenameFile ==
  ASSUME VolumeInv, renaming = {}, NEW l \in links, NEW p \in Refs \cup {Root}, NEW n \in Names,
         RenameFile(l, p, n)
  PROVE  /\ links' = Renamed(links, l, p, n) /\ UNCHANGED <<stamp, renaming>>
         /\ CanMove(l, p, n)
         /\ \E why \in SUBSET Whys, how \in SUBSET Whys :
               /\ "old" \in why /\ "new" \in how
               /\ journal' = Append(Append(journal, Rec(l, why)), Rec(LinkTo(l.ref, p, n, l.dir), how))
         /\ VolumeInv'
<1>1. l \in Links /\ l.ref \in Refs /\ reasons[l.ref] \subseteq Kinds
  BY LinkFacts DEF VolumeInv, IsTree
<1> DEFINE why == RenamedReasons(l.ref) \cup {"old"}
           how == RenamedReasons(l.ref) \cup {"new"}
           l2 == LinkTo(l.ref, p, n, l.dir)
<1>2. /\ CanMove(l, p, n) /\ Write(Records(l, <<why>>) \o Records(l2, <<how>>))
      /\ links' = Renamed(links, l, p, n)
      /\ reasons' = [reasons EXCEPT ![l.ref] = how]
      /\ UNCHANGED <<stamp, journalId, lowest, renaming>>
  BY DEF RenameFile, Renamed
<1>3. why \in SUBSET Whys /\ "old" \in why /\ how \in SUBSET Whys /\ "new" \in how /\ how \in SUBSET Kinds
  BY <1>1 DEF Whys, Kinds, RenamedReasons
<1>4. l2 \in Links
  BY <1>1, <1>2, OnMove
<1> HIDE DEF why, how, l2
<1>5. /\ Rec(l, why) \in JournalRecords /\ Rec(l2, how) \in JournalRecords
      /\ journal \in Seq(JournalRecords) /\ reasons \in [Refs -> SUBSET Kinds]
  BY <1>1, <1>3, <1>4, RecType DEF VolumeInv
<1>6. journal' = Append(Append(journal, Rec(l, why)), Rec(l2, how))
  BY <1>2, <1>5, TwoRecords
<1>7. journal' \in Seq(JournalRecords)
  <2>1. \A J \in Seq(JournalRecords) : \A x \in JournalRecords : Append(J, x) \in Seq(JournalRecords)
    OBVIOUS
  <2> QED BY <1>5, <1>6, <2>1
<1>8. reasons' \in [Refs -> SUBSET Kinds]
  BY <1>1, <1>2, <1>3, <1>5
<1>9. IsTree(links') /\ \A k \in links' : stamp'[k.ref] # 0
  BY <1>1, <1>2, OnMove
<1>10. VolumeInv'
  BY <1>2, <1>7, <1>8, <1>9 DEF VolumeInv
<1> QED BY <1>2, <1>3, <1>6, <1>10 DEF l2

--------------------------------------------------------------------------------
(* The replay *)

\* The projections a replay of a journal from a position on comes to.
ReplayOf(J, paths, from) ==
    Deltas!After({Projection(paths)}, SubSeq(J, from + 1, Len(J)), Len(J) - from)

\* A replay of no records is where it began.
LEMMA NothingReplayed ==
  ASSUME NEW S, NEW J \in Seq(S), NEW paths PROVE ReplayOf(J, paths, Len(J)) = {Projection(paths)}
<1>1. Len(J) - Len(J) = 0
  OBVIOUS
<1> QED BY <1>1, Deltas!AtFirst DEF ReplayOf

\* A replay of one record more applies it to where the shorter replay came.
LEMMA OneMoreReplayed ==
  ASSUME NEW S, NEW J \in Seq(S), NEW r \in S, NEW paths, NEW from \in 0..Len(J),
         NEW t \in ReplayOf(Append(J, r), paths, from)
  PROVE  \E s \in ReplayOf(J, paths, from) : t \in ApplyDelta(s, r)
<1> DEFINE J2 == Append(J, r)
           n == Len(J) - from
           b == {Projection(paths)}
           T1 == SubSeq(J, from + 1, Len(J))
           T2 == SubSeq(J2, from + 1, Len(J2))
<1>1. n \in Nat /\ Len(J2) = Len(J) + 1 /\ Len(J2) - from = n + 1 /\ Len(J) - from = n
  OBVIOUS
<1>2. T2[n + 1] = r /\ \A i \in 1..n : T2[i] = T1[i]
  OBVIOUS
<1> HIDE DEF J2, T1, T2, b, n
<1>3. Deltas!After(b, T2, n + 1) = ApplyToAll(Deltas!After(b, T2, n), T2[n + 1])
  BY <1>1, Deltas!OneMore, Zenon
<1>4. Deltas!After(b, T2, n) = Deltas!After(b, T1, n)
  BY <1>1, <1>2, Deltas!OnlyTheFirst, Zenon
<1>5. ReplayOf(J, paths, from) = Deltas!After(b, T1, n)
  BY <1>1 DEF ReplayOf, b, T1
<1>6. ReplayOf(Append(J, r), paths, from) = Deltas!After(b, T2, n + 1)
  BY <1>1 DEF ReplayOf, b, T2, J2
<1>7. t \in ApplyToAll(ReplayOf(J, paths, from), r)
  BY <1>2, <1>3, <1>4, <1>5, <1>6
<1> QED BY <1>7 DEF ApplyToAll

\* A projection that has the tree, with every path marked that the index is not
\* current for.
Good(s, entries, ls, names, st, rs) == Tracking(s, ls, names) /\ Current(entries, s.dirty, ls, st, rs)

ReplayGood ==
    \A s \in ReplayOf(journal, binding.paths, binding.next) : Good(s, index, links, renaming, stamp, reasons)

\* The stable path of a file is of one of its links.
LEMMA FilePaths ==
  ASSUME NEW ls, IsTree(ls), NEW p \in StablePaths(ls), ~p.dir
  PROVE  p.ref \in Refs /\ \E k \in ls : p = StableOf(ls, k) /\ k.ref = p.ref
<1>1. p # RootPath
  BY RootFields
<1>2. PICK k \in ls : p = StableOf(ls, k)
  BY <1>1, StableMembers
<1> QED BY <1>2, StableOfFields, LinkFacts

\* An index stays current for the paths that are not marked when what happened to
\* every other file was marked, or is being written to it.
LEMMA CurrentStays ==
  ASSUME NEW entries, NEW D, NEW ls, NEW st, NEW rs, Current(entries, D, ls, st, rs),
         NEW D2, NEW ls2, NEW st2, NEW rs2, D \subseteq D2,
         \A p \in StablePaths(ls2) : ~p.dir /\ p.path \notin D2 =>
            \/ "data" \in rs2[p.ref]
            \/ /\ p \in StablePaths(ls)
               /\ st2[p.ref] = st[p.ref] /\ ("data" \in rs[p.ref] => "data" \in rs2[p.ref])
  PROVE  Current(entries, D2, ls2, st2, rs2)
<1> SUFFICES ASSUME NEW p \in StablePaths(ls2), ~p.dir, p.path \notin D2,
                    NEW e \in entries, e.path = p.path
             PROVE  e.stamp = st2[p.ref] \/ "data" \in rs2[p.ref]
  BY DEF Current
<1>1. CASE "data" \in rs2[p.ref]
  BY <1>1
<1>2. CASE "data" \notin rs2[p.ref]
  <2>1. /\ p \in StablePaths(ls) /\ st2[p.ref] = st[p.ref] /\ ("data" \in rs[p.ref] => "data" \in rs2[p.ref])
        /\ p.path \notin D
    BY <1>2
  <2>2. e.stamp = st[p.ref] \/ "data" \in rs[p.ref]
    BY <2>1 DEF Current
  <2> QED BY <2>1, <2>2
<1> QED BY <1>1, <1>2

\* The reader does nothing, and the binding's position is one of the journal.
Reading == UNCHANGED <<binding, index>> /\ binding.next \in 0..Len(journal)

\* What a replay comes to after a step that writes one record.
LEMMA ReplayOneMore ==
  ASSUME VolumeInv, Reading, NEW r \in JournalRecords, journal' = Append(journal, r),
         NEW t \in ReplayOf(journal', binding'.paths, binding'.next)
  PROVE  \E s \in ReplayOf(journal, binding.paths, binding.next) : t \in ApplyDelta(s, r)
  BY OneMoreReplayed DEF VolumeInv, Reading

\* What a replay comes to after a step that writes two.
LEMMA ReplayTwoMore ==
  ASSUME VolumeInv, Reading, NEW r1 \in JournalRecords, NEW r2 \in JournalRecords,
         journal' = Append(Append(journal, r1), r2),
         NEW t \in ReplayOf(journal', binding'.paths, binding'.next)
  PROVE  \E s \in ReplayOf(journal, binding.paths, binding.next) :
            \E u \in ApplyDelta(s, r1) : t \in ApplyDelta(u, r2)
<1>1. /\ Append(journal, r1) \in Seq(JournalRecords) /\ Len(Append(journal, r1)) = Len(journal) + 1
      /\ binding.next \in 0..(Len(journal) + 1) /\ journal \in Seq(JournalRecords)
      /\ binding.next \in 0..Len(journal)
  BY DEF VolumeInv, Reading
<1>2. t \in ReplayOf(Append(Append(journal, r1), r2), binding.paths, binding.next)
  BY DEF Reading
<1>3. PICK u \in ReplayOf(Append(journal, r1), binding.paths, binding.next) : t \in ApplyDelta(u, r2)
  BY <1>1, <1>2, OneMoreReplayed
<1>4. PICK s \in ReplayOf(journal, binding.paths, binding.next) : u \in ApplyDelta(s, r1)
  BY <1>1, OneMoreReplayed
<1> QED BY <1>3, <1>4

\* The path of a created file is marked, all others stay as they are.
LEMMA CreateKeeps ==
  ASSUME VolumeInv, Reading, ReplayGood,
         NEW r \in Refs, NEW p \in Refs \cup {Root}, NEW n \in Names, NEW d \in BOOLEAN, CreateFile(r, p, n, d)
  PROVE  ReplayGood'
<1> DEFINE l == LinkTo(r, p, n, d)
<1>1. /\ l \in Links /\ \A k \in links : k.ref # l.ref
      /\ p \in Directories(links) /\ NameFree(links, p, n)
      /\ links' = links \cup {l} /\ UNCHANGED renaming
      /\ \A x \in Refs : x # r => stamp'[x] = stamp[x] /\ reasons'[x] = reasons[x]
      /\ journal' = Append(journal, Rec(l, {"create"}))
  BY OnCreateFile
<1>2. l.ref = r /\ l.parent = p /\ l.name = n
  BY DEF LinkTo
<1> HIDE DEF l
<1>3. IsTree(links) /\ renaming \in SUBSET links /\ Rec(l, {"create"}) \in JournalRecords
  BY <1>1, RecType DEF VolumeInv, Whys, Kinds
<1>4. \A k \in links : StableOf(links', k) = StableOf(links, k)
  <2>1. \A k \in links : k.ref = l.ref => ~k.dir /\ ~l.dir
    BY <1>1
  <2>2. \A x \in Directories(links) : DirPath(links', x) = DirPath(links, x)
    BY <1>1, <1>2, <1>3, <2>1, LinkMore
  <2> QED BY <1>3, <2>2, LinkFacts DEF StableOf, PathOf
<1>5. SUFFICES ASSUME NEW t \in ReplayOf(journal', binding'.paths, binding'.next)
               PROVE  Good(t, index', links', renaming', stamp', reasons')
  BY DEF ReplayGood
<1>6. PICK s \in ReplayOf(journal, binding.paths, binding.next) : t \in ApplyDelta(s, Rec(l, {"create"}))
  BY <1>1, <1>3, ReplayOneMore
<1>7. Tracking(s, links, renaming) /\ Current(index, s.dirty, links, stamp, reasons)
  BY DEF ReplayGood, Good
<1>8. Tracking(t, links', renaming') /\ s.dirty \subseteq t.dirty /\ PathOf(links', l) \in t.dirty
  BY <1>1, <1>2, <1>3, <1>6, <1>7, OnCreate
<1>9. ASSUME NEW q \in StablePaths(links'), ~q.dir, q.path \notin t.dirty
      PROVE  q \in StablePaths(links) /\ stamp'[q.ref] = stamp[q.ref] /\ reasons'[q.ref] = reasons[q.ref]
  <2>1. IsTree(links')
    BY OnCreateFile DEF VolumeInv
  <2>2. PICK k \in links' : q = StableOf(links', k) /\ k.ref = q.ref
    BY <1>9, <2>1, FilePaths
  <2>3. k # l
    BY <1>8, <1>9, <2>2, StableOfFields
  <2>4. k \in links /\ q = StableOf(links, k)
    BY <1>1, <1>4, <2>2, <2>3
  <2>5. k.ref \in Refs /\ k.ref # r
    BY <1>1, <1>2, <1>3, <2>4, LinkFacts
  <2> QED BY <1>1, <2>2, <2>4, <2>5, StableMembers
<1>10. Current(index', t.dirty, links', stamp', reasons')
  BY <1>7, <1>8, <1>9, CurrentStays DEF Reading
<1> QED BY <1>8, <1>10 DEF Good

\* A file that is being written need not be current.
LEMMA ModifyCurrent ==
  ASSUME VolumeInv, NEW l \in links, Modify(l), NEW entries, NEW D, NEW D2, D \subseteq D2,
         Current(entries, D, links, stamp, reasons)
  PROVE  Current(entries, D2, links', stamp', reasons')
<1>1. /\ links' = links
      /\ \A r \in Refs : r # l.ref => stamp'[r] = stamp[r] /\ reasons'[r] = reasons[r]
      /\ "data" \in reasons'[l.ref]
  BY OnModify
<1>2. IsTree(links)
  BY DEF VolumeInv
<1>3. ASSUME NEW q \in StablePaths(links'), ~q.dir, q.path \notin D2
      PROVE  \/ "data" \in reasons'[q.ref]
             \/ /\ q \in StablePaths(links)
                /\ stamp'[q.ref] = stamp[q.ref] /\ ("data" \in reasons[q.ref] => "data" \in reasons'[q.ref])
  <2>1. q.ref \in Refs /\ q \in StablePaths(links)
    BY <1>1, <1>2, <1>3, FilePaths
  <2> QED BY <1>1, <2>1
<1> QED BY <1>3, CurrentStays

\* A write leaves a replay with the tree and the marks it needs.
LEMMA ModifyKeeps ==
  ASSUME VolumeInv, Reading, ReplayGood, NEW l \in links, Modify(l) PROVE ReplayGood'
<1>1. UNCHANGED <<links, renaming>> /\ IsTree(links) /\ renaming \in SUBSET links
  BY OnModify DEF VolumeInv
<1>2. SUFFICES ASSUME NEW t \in ReplayOf(journal', binding'.paths, binding'.next)
               PROVE  Good(t, index', links', renaming', stamp', reasons')
  BY DEF ReplayGood
<1>3. CASE journal' = journal
  <2>1. Tracking(t, links, renaming) /\ Current(index, t.dirty, links, stamp, reasons)
    BY <1>3 DEF ReplayGood, Good, Reading
  <2>2. Current(index, t.dirty, links', stamp', reasons')
    BY <2>1, ModifyCurrent
  <2> QED BY <1>1, <2>1, <2>2 DEF Good, Reading
<1>4. ASSUME NEW why \in SUBSET Kinds, journal' = Append(journal, Rec(l, why))
      PROVE  Good(t, index', links', renaming', stamp', reasons')
  <2>1. Rec(l, why) \in JournalRecords /\ "delete" \notin why /\ "old" \notin why
    <3>1. l \in Links
      BY <1>1 DEF IsTree
    <3> QED BY <3>1, RecType DEF Whys, Kinds
  <2>2. PICK s \in ReplayOf(journal, binding.paths, binding.next) : t \in ApplyDelta(s, Rec(l, why))
    BY <1>4, <2>1, ReplayOneMore
  <2>3. Tracking(s, links, renaming) /\ Current(index, s.dirty, links, stamp, reasons)
    BY DEF ReplayGood, Good
  <2>4. Tracking(t, links, renaming) /\ s.dirty \subseteq t.dirty
    BY <1>1, <2>1, <2>2, <2>3, OnMetadata
  <2>5. Current(index, t.dirty, links', stamp', reasons')
    BY <2>3, <2>4, ModifyCurrent
  <2> QED BY <1>1, <2>4, <2>5 DEF Good, Reading
<1> QED BY <1>3, <1>4, OnModify

\* The record of a close marks every name of the file, so one is read again
\* that was written without a record of its own.
LEMMA CloseKeeps ==
  ASSUME VolumeInv, Reading, ReplayGood, NEW l \in links, CloseFile(l) PROVE ReplayGood'
<1>1. /\ UNCHANGED <<links, stamp, renaming>> /\ l \notin renaming
      /\ \A r \in Refs : r # l.ref => reasons'[r] = reasons[r]
      /\ IsTree(links) /\ renaming \in SUBSET links /\ l \in Links
  BY OnCloseFile DEF VolumeInv, IsTree
<1>2. SUFFICES ASSUME NEW t \in ReplayOf(journal', binding'.paths, binding'.next)
               PROVE  Good(t, index', links', renaming', stamp', reasons')
  BY DEF ReplayGood
<1>3. PICK why \in SUBSET (Kinds \cup {"close"}) : journal' = Append(journal, Rec(l, why))
  BY OnCloseFile
<1>4. Rec(l, why) \in JournalRecords /\ "delete" \notin why /\ "old" \notin why
  BY <1>1, RecType DEF Whys, Kinds
<1>5. PICK s \in ReplayOf(journal, binding.paths, binding.next) : t \in ApplyDelta(s, Rec(l, why))
  BY <1>3, <1>4, ReplayOneMore
<1>6. Tracking(s, links, renaming) /\ Current(index, s.dirty, links, stamp, reasons)
  BY DEF ReplayGood, Good
<1>7. /\ Tracking(t, links, renaming) /\ s.dirty \subseteq t.dirty
      /\ \A k \in links : k.ref = l.ref => PathOf(links, k) \in t.dirty
  BY <1>1, <1>4, <1>5, <1>6, OnMetadata
<1>8. ASSUME NEW q \in StablePaths(links'), ~q.dir, q.path \notin t.dirty
      PROVE  q \in StablePaths(links) /\ reasons'[q.ref] = reasons[q.ref]
  <2>1. q \in StablePaths(links) /\ q.ref \in Refs
    BY <1>1, <1>8, FilePaths
  <2>2. PICK k \in links : q = StableOf(links, k) /\ k.ref = q.ref
    BY <1>1, <1>8, <2>1, FilePaths
  <2>3. q.path = PathOf(links, k)
    BY <2>2, StableOfFields
  <2> QED BY <1>1, <1>7, <1>8, <2>1, <2>2, <2>3
<1>9. Current(index', t.dirty, links', stamp', reasons')
  <2>1. \A q \in StablePaths(links') : ~q.dir /\ q.path \notin t.dirty =>
           \/ "data" \in reasons'[q.ref]
           \/ /\ q \in StablePaths(links)
              /\ stamp'[q.ref] = stamp[q.ref] /\ ("data" \in reasons[q.ref] => "data" \in reasons'[q.ref])
    BY <1>1, <1>8
  <2>2. Current(index, t.dirty, links', stamp', reasons')
    BY <1>6, <1>7, <2>1, CurrentStays
  <2> QED BY <2>2 DEF Reading
<1> QED BY <1>1, <1>7, <1>9 DEF Good

\* A deletion leaves a replay with the smaller tree; its second record finds the
\* first one's work done.
LEMMA DeleteKeeps ==
  ASSUME VolumeInv, Reading, ReplayGood, NEW l \in links, DeleteFile(l) PROVE ReplayGood'
<1>1. /\ LinksOf(links, l.ref) = {l} /\ (\A k \in links : k.parent # l.ref) /\ l \notin renaming
      /\ links' = links \ {l} /\ UNCHANGED <<stamp, renaming>>
      /\ \A r \in Refs : r # l.ref => reasons'[r] = reasons[r]
      /\ IsTree(links) /\ renaming \in SUBSET links /\ l \in Links
  BY OnDeleteFile DEF VolumeInv, IsTree
<1>2. SUFFICES ASSUME NEW t \in ReplayOf(journal', binding'.paths, binding'.next)
               PROVE  Good(t, index', links', renaming', stamp', reasons')
  BY DEF ReplayGood
<1>3. PICK why \in SUBSET Kinds :
         \/ journal' = Append(journal, Rec(l, why \cup {"delete", "close"}))
         \/ journal' = Append(Append(journal, Rec(l, why \cup {"delete"})), Rec(l, why \cup {"delete", "close"}))
  BY OnDeleteFile
<1> DEFINE one == why \cup {"delete"}
           two == why \cup {"delete", "close"}
<1>4. "delete" \in one /\ "delete" \in two /\ Rec(l, one) \in JournalRecords /\ Rec(l, two) \in JournalRecords
  <2>1. one \in SUBSET Whys /\ two \in SUBSET Whys
    BY DEF Whys
  <2>2. "delete" \in one /\ "delete" \in two
    OBVIOUS
  <2> HIDE DEF one, two
  <2> QED BY <1>1, <2>1, <2>2, RecType
<1> HIDE DEF one, two
<1>5. (\A k \in links' : k.ref # l.ref) /\ l.ref # Root
  BY <1>1, LinkFacts DEF LinksOf
<1>6. PICK s \in ReplayOf(journal, binding.paths, binding.next) :
         Tracking(t, links', renaming') /\ s.dirty \subseteq t.dirty
  <2>1. ASSUME NEW s \in ReplayOf(journal, binding.paths, binding.next), NEW w, "delete" \in w,
               NEW u \in ApplyDelta(s, Rec(l, w))
        PROVE  Tracking(u, links', renaming') /\ s.dirty \subseteq u.dirty
    <3>1. Tracking(s, links, renaming)
      BY DEF ReplayGood, Good
    <3> QED BY <1>1, <2>1, <3>1, OnDelete
  <2>2. CASE journal' = Append(journal, Rec(l, two))
    <3>1. PICK s \in ReplayOf(journal, binding.paths, binding.next) : t \in ApplyDelta(s, Rec(l, two))
      BY <1>4, <2>2, ReplayOneMore
    <3> QED BY <1>4, <2>1, <3>1
  <2>3. CASE journal' = Append(Append(journal, Rec(l, one)), Rec(l, two))
    <3>1. PICK s \in ReplayOf(journal, binding.paths, binding.next) :
             \E u \in ApplyDelta(s, Rec(l, one)) : t \in ApplyDelta(u, Rec(l, two))
      BY <1>4, <2>3, ReplayTwoMore
    <3>2. PICK u \in ApplyDelta(s, Rec(l, one)) : t \in ApplyDelta(u, Rec(l, two))
      BY <3>1
    <3>3. Tracking(u, links', renaming') /\ s.dirty \subseteq u.dirty
      BY <1>4, <2>1, <3>2
    <3>4. Tracking(t, links', renaming') /\ u.dirty \subseteq t.dirty
      BY <1>4, <1>5, <3>2, <3>3, OnDeleteAgain
    <3> QED BY <3>3, <3>4
  <2> QED BY <1>3, <2>2, <2>3 DEF one, two
<1>7. Tracking(s, links, renaming) /\ Current(index, s.dirty, links, stamp, reasons)
  BY DEF ReplayGood, Good
<1>8. ASSUME NEW q \in StablePaths(links'), ~q.dir
      PROVE  q \in StablePaths(links) /\ reasons'[q.ref] = reasons[q.ref]
  <2>1. IsTree(links')
    BY OnDeleteFile DEF VolumeInv
  <2>2. PICK k \in links' : q = StableOf(links', k) /\ k.ref = q.ref
    BY <1>8, <2>1, FilePaths
  <2>3. k \in links /\ k.ref \in Refs /\ k.ref # l.ref /\ k.parent \in Directories(links')
    BY <1>1, <1>5, <2>1, LinkFacts
  <2>4. DirPath(links', k.parent) = DirPath(links, k.parent)
    BY <1>1, <2>3, LinkLess
  <2>5. q = StableOf(links, k)
    BY <2>2, <2>4 DEF StableOf, PathOf
  <2> QED BY <1>1, <2>2, <2>3, <2>5, StableMembers
<1>9. Current(index, t.dirty, links', stamp', reasons')
  <2>1. \A q \in StablePaths(links') : ~q.dir /\ q.path \notin t.dirty =>
           \/ "data" \in reasons'[q.ref]
           \/ /\ q \in StablePaths(links)
              /\ stamp'[q.ref] = stamp[q.ref] /\ ("data" \in reasons[q.ref] => "data" \in reasons'[q.ref])
    BY <1>1, <1>8
  <2> QED BY <1>6, <1>7, <2>1, CurrentStays
<1> QED BY <1>6, <1>9 DEF Good, Reading

\* A further name stops every replay: no projection can have it.
LEMMA AddLinkKeeps ==
  ASSUME VolumeInv, Reading, NEW l \in links, NEW p \in Refs \cup {Root}, NEW n \in Names, AddLink(l, p, n)
  PROVE  ReplayGood'
<1>1. SUFFICES ASSUME NEW t \in ReplayOf(journal', binding'.paths, binding'.next) PROVE FALSE
  BY DEF ReplayGood
<1>2. PICK why \in SUBSET Kinds : "link" \in why /\ journal' = Append(journal, Rec(l, why))
  BY OnAddLink
<1>3. Rec(l, why) \in JournalRecords
  <2>1. l \in Links /\ why \in SUBSET Whys
    BY DEF VolumeInv, IsTree, Whys
  <2> QED BY <2>1, RecType
<1>4. PICK s \in ReplayOf(journal, binding.paths, binding.next) : t \in ApplyDelta(s, Rec(l, why))
  BY <1>2, <1>3, ReplayOneMore
<1> QED BY <1>2, <1>4, Applied, RecFields

\* The first record of a rename leaves the tree and makes the rename pending.
LEMMA LogsOldKeeps ==
  ASSUME VolumeInv, Reading, ReplayGood, NEW l \in links, RenameLogsOld(l) PROVE ReplayGood'
<1>1. /\ UNCHANGED <<links, stamp, reasons>> /\ renaming' = renaming \cup {l}
      /\ IsTree(links) /\ renaming \in SUBSET links /\ l \in Links
  BY OnLogsOld DEF VolumeInv, IsTree
<1>2. SUFFICES ASSUME NEW t \in ReplayOf(journal', binding'.paths, binding'.next)
               PROVE  Good(t, index', links', renaming', stamp', reasons')
  BY DEF ReplayGood
<1>3. PICK why \in SUBSET Whys : "old" \in why /\ journal' = Append(journal, Rec(l, why))
  BY OnLogsOld
<1>4. Rec(l, why) \in JournalRecords
  BY <1>1, RecType
<1>5. PICK s \in ReplayOf(journal, binding.paths, binding.next) : t \in ApplyDelta(s, Rec(l, why))
  BY <1>3, <1>4, ReplayOneMore
<1>6. Tracking(s, links, renaming) /\ Current(index, s.dirty, links, stamp, reasons)
  BY DEF ReplayGood, Good
<1>7. Tracking(t, links, renaming') /\ s.dirty \subseteq t.dirty
  BY <1>1, <1>3, <1>5, <1>6, OnOldName
<1>8. Current(index, t.dirty, links, stamp, reasons)
  BY <1>6, <1>7, CurrentStays
<1> QED BY <1>1, <1>7, <1>8 DEF Good, Reading

\* The second record of a rename gives a replay the tree as it is then.
LEMMA LogsNewKeeps ==
  ASSUME VolumeInv, Reading, ReplayGood,
         NEW l \in renaming, NEW p \in Refs \cup {Root}, NEW n \in Names, RenameLogsNew(l, p, n)
  PROVE  ReplayGood'
<1> DEFINE l2 == LinkTo(l.ref, p, n, l.dir)
<1>1. /\ links' = Renamed(links, l, p, n) /\ renaming' = renaming \ {l} /\ UNCHANGED stamp
      /\ CanMove(l, p, n) /\ IsTree(links) /\ renaming \in SUBSET links /\ l \in links
      /\ \A r \in Refs : "data" \in reasons[r] => "data" \in reasons'[r]
      /\ \A k, m \in renaming : k.ref = m.ref => k = m
  BY OnLogsNew DEF VolumeInv
<1>2. /\ NameFree(links \ {l}, p, n)
      /\ l2 \in Links /\ \A k \in renaming \ {l} : PathOf(links', k) = PathOf(links, k)
  BY <1>1, OnMove
<1>3. SUFFICES ASSUME NEW t \in ReplayOf(journal', binding'.paths, binding'.next)
               PROVE  Good(t, index', links', renaming', stamp', reasons')
  BY DEF ReplayGood
<1>4. PICK why \in SUBSET Whys : "new" \in why /\ journal' = Append(journal, Rec(l2, why))
  BY OnLogsNew
<1> DEFINE rec == Rec(l2, why)
<1>5. /\ rec.ref = l.ref /\ rec.parent = p /\ rec.name = n /\ rec.dir = l.dir /\ rec.why = why
      /\ rec \in JournalRecords
  <2>1. l2.ref = l.ref /\ l2.parent = p /\ l2.name = n /\ l2.dir = l.dir
    BY DEF LinkTo
  <2> HIDE DEF l2
  <2> QED BY <1>2, <2>1, RecFields, RecType
<1> HIDE DEF rec
<1>6. PICK s \in ReplayOf(journal, binding.paths, binding.next) : t \in ApplyDelta(s, rec)
  BY <1>4, <1>5, ReplayOneMore DEF rec
<1>7. Tracking(s, links, renaming) /\ Current(index, s.dirty, links, stamp, reasons)
  BY DEF ReplayGood, Good
<1>8. t \in ApplyRenameNew(s, rec)
  BY <1>4, <1>5, <1>6, Applied
<1>9. PICK m \in renaming : Completes(links, s, rec, t, m)
  BY <1>1, <1>5, <1>7, <1>8, OnNewName
<1>10. m = l
  BY <1>1, <1>5, <1>9 DEF Completes
<1>11. /\ t.paths = StablePaths(links')
       /\ \A q \in t.paths : q \in s.paths \/ q.path \in t.dirty
       /\ DOMAIN t = StateFields /\ t.pending = s.pending \ {StableOf(links, l)}
       /\ s.dirty \subseteq t.dirty
  <2> HIDE DEF StateFields
  <2> QED BY <1>1, <1>2, <1>5, <1>9, <1>10 DEF Completes
<1>12. s.paths = StablePaths(links) /\ s.pending \subseteq {StableOf(links, k) : k \in renaming}
  BY <1>7 DEF Tracking
<1>13. t.pending \subseteq {StableOf(links', k) : k \in renaming'}
  <2>1. \A k \in renaming \ {l} : StableOf(links', k) = StableOf(links, k)
    BY <1>2 DEF StableOf
  <2> QED BY <1>1, <1>11, <1>12, <2>1
<1>14. Tracking(t, links', renaming')
  BY <1>11, <1>13 DEF Tracking
<1>15. ASSUME NEW q \in StablePaths(links'), ~q.dir, q.path \notin t.dirty
       PROVE  q \in StablePaths(links) /\ ("data" \in reasons[q.ref] => "data" \in reasons'[q.ref])
  <2>1. q \in StablePaths(links)
    BY <1>11, <1>12, <1>15
  <2> QED BY <1>1, <1>15, <2>1, FilePaths
<1>16. Current(index, t.dirty, links', stamp', reasons')
  <2>1. \A q \in StablePaths(links') : ~q.dir /\ q.path \notin t.dirty =>
           \/ "data" \in reasons'[q.ref]
           \/ /\ q \in StablePaths(links)
              /\ stamp'[q.ref] = stamp[q.ref] /\ ("data" \in reasons[q.ref] => "data" \in reasons'[q.ref])
    BY <1>1, <1>15
  <2> QED BY <1>7, <1>11, <2>1, CurrentStays
<1> QED BY <1>14, <1>16 DEF Good, Reading

\* What any step of the volume does, as far as the reader minds.
LEMMA VolumeSteps ==
  ASSUME VolumeInv, Touch \/ MoveInTwo
  PROVE  /\ VolumeInv'
         /\ \/ journalId' = 2
            \/ /\ journalId' = journalId
               /\ \/ /\ journal' = journal
                     /\ \/ \E l \in links : Modify(l)
                        \/ UNCHANGED <<links, stamp, reasons, renaming>>
                  \/ Len(journal) < Len(journal')
               /\ Reading /\ ReplayGood => ReplayGood'
<1> DEFINE Small == journalId' = journalId /\ Len(journal) < Len(journal')
<1>0. journal \in Seq(JournalRecords)
  BY DEF VolumeInv
<1>a. ASSUME NEW r \in JournalRecords PROVE Len(journal) < Len(Append(journal, r))
  BY <1>0
<1>b. ASSUME NEW r \in JournalRecords, NEW q \in JournalRecords
      PROVE  Len(journal) < Len(Append(Append(journal, r), q))
  BY <1>0
<1>c. \A l \in links : l \in Links
  BY DEF VolumeInv, IsTree
<1>1. ASSUME NEW r \in Refs, NEW p \in Refs \cup {Root}, NEW n \in Names, NEW d \in BOOLEAN,
             CreateFile(r, p, n, d)
      PROVE  VolumeInv' /\ Small /\ (Reading /\ ReplayGood => ReplayGood')
  <2>1. PICK l \in Links : journal' = Append(journal, Rec(l, {"create"}))
    BY <1>1, OnCreateFile
  <2>2. Rec(l, {"create"}) \in JournalRecords
    BY RecType DEF Whys, Kinds
  <2>3. Len(journal) < Len(journal') /\ journalId' = journalId
    BY <1>1, <1>a, <2>1, <2>2 DEF CreateFile
  <2>4. VolumeInv'
    BY <1>1, OnCreateFile
  <2>5. Reading /\ ReplayGood => ReplayGood'
    BY <1>1, CreateKeeps
  <2> QED BY <2>3, <2>4, <2>5
<1>2. ASSUME NEW l \in links, Modify(l)
      PROVE  /\ VolumeInv' /\ journalId' = journalId /\ (Reading /\ ReplayGood => ReplayGood')
             /\ journal' = journal \/ Len(journal) < Len(journal')
  <2>1. ASSUME NEW why \in SUBSET Kinds, journal' = Append(journal, Rec(l, why))
        PROVE  Len(journal) < Len(journal')
    <3>1. Rec(l, why) \in JournalRecords
      BY <1>c, RecType DEF Whys
    <3> QED BY <1>a, <2>1, <3>1
  <2>2. journalId' = journalId
    BY <1>2 DEF Modify
  <2> QED BY <1>2, <2>1, <2>2, OnModify, ModifyKeeps
<1>3. ASSUME NEW l \in links, CloseFile(l)
      PROVE  VolumeInv' /\ Small /\ (Reading /\ ReplayGood => ReplayGood')
  <2>1. PICK why \in SUBSET (Kinds \cup {"close"}) : journal' = Append(journal, Rec(l, why))
    BY <1>3, OnCloseFile
  <2>2. Rec(l, why) \in JournalRecords
    BY <1>c, RecType DEF Whys
  <2>3. Len(journal) < Len(journal') /\ journalId' = journalId
    BY <1>3, <1>a, <2>1, <2>2 DEF CloseFile
  <2> QED BY <1>3, <2>3, OnCloseFile, CloseKeeps
<1>4. ASSUME NEW l \in links, DeleteFile(l)
      PROVE  VolumeInv' /\ Small /\ (Reading /\ ReplayGood => ReplayGood')
  <2>1. PICK why \in SUBSET Kinds :
         \/ journal' = Append(journal, Rec(l, why \cup {"delete", "close"}))
         \/ journal' = Append(Append(journal, Rec(l, why \cup {"delete"})), Rec(l, why \cup {"delete", "close"}))
    BY <1>4, OnDeleteFile
  <2>2. Rec(l, why \cup {"delete", "close"}) \in JournalRecords /\ Rec(l, why \cup {"delete"}) \in JournalRecords
    <3>1. why \cup {"delete", "close"} \in SUBSET Whys /\ why \cup {"delete"} \in SUBSET Whys
      BY DEF Whys
    <3> QED BY <1>c, <3>1, RecType
  <2>3. Len(journal) < Len(journal') /\ journalId' = journalId
    BY <1>4, <1>a, <1>b, <2>1, <2>2 DEF DeleteFile
  <2> QED BY <1>4, <2>3, OnDeleteFile, DeleteKeeps
<1>5. ASSUME NEW l \in links, NEW p \in Refs \cup {Root}, NEW n \in Names, AddLink(l, p, n)
      PROVE  VolumeInv' /\ Small /\ (Reading /\ ReplayGood => ReplayGood')
  <2>1. PICK why \in SUBSET Kinds : journal' = Append(journal, Rec(l, why))
    BY <1>5, OnAddLink
  <2>2. Rec(l, why) \in JournalRecords
    BY <1>c, RecType DEF Whys
  <2>3. Len(journal) < Len(journal') /\ journalId' = journalId
    BY <1>5, <1>a, <2>1, <2>2 DEF AddLink
  <2> QED BY <1>5, <2>3, OnAddLink, AddLinkKeeps
<1>6. ASSUME NEW l \in links, RenameLogsOld(l)
      PROVE  VolumeInv' /\ Small /\ (Reading /\ ReplayGood => ReplayGood')
  <2>1. PICK why \in SUBSET Whys : journal' = Append(journal, Rec(l, why))
    BY <1>6, OnLogsOld
  <2>2. Rec(l, why) \in JournalRecords
    BY <1>c, RecType
  <2>3. Len(journal) < Len(journal') /\ journalId' = journalId
    BY <1>6, <1>a, <2>1, <2>2 DEF RenameLogsOld
  <2> QED BY <1>6, <2>3, OnLogsOld, LogsOldKeeps
<1>7. ASSUME NEW l \in renaming, NEW p \in Refs \cup {Root}, NEW n \in Names, RenameLogsNew(l, p, n)
      PROVE  VolumeInv' /\ Small /\ (Reading /\ ReplayGood => ReplayGood')
  <2> DEFINE l2 == LinkTo(l.ref, p, n, l.dir)
  <2>1. PICK why \in SUBSET Whys : journal' = Append(journal, Rec(l2, why))
    BY <1>7, OnLogsNew
  <2>2. Rec(l2, why) \in JournalRecords
    <3>1. l2 \in Links
      BY <1>7, OnMove DEF RenameLogsNew
    <3> QED BY <3>1, RecType
  <2> HIDE DEF l2
  <2>3. Len(journal) < Len(journal') /\ journalId' = journalId
    BY <1>7, <1>a, <2>1, <2>2 DEF RenameLogsNew
  <2> QED BY <1>7, <2>3, OnLogsNew, LogsNewKeeps
<1>8. ASSUME TrimJournal
      PROVE  /\ VolumeInv' /\ journal' = journal /\ journalId' = journalId
             /\ UNCHANGED <<links, stamp, reasons, renaming>>
             /\ Reading /\ ReplayGood => ReplayGood'
  <2>1. UNCHANGED <<links, stamp, reasons, journal, journalId, renaming>> /\ VolumeInv'
    BY <1>8, OnTrim
  <2>2. Reading /\ ReplayGood => ReplayGood'
    BY <2>1 DEF Reading, ReplayGood
  <2> QED BY <2>1, <2>2
<1>9. ASSUME RecreateJournal PROVE VolumeInv' /\ journalId' = 2
  BY <1>9, OnRecreate
<1> HIDE DEF Small
<1>10. CASE Touch
  BY <1>1, <1>2, <1>3, <1>4, <1>5, <1>8, <1>9, <1>10 DEF Touch, Small
<1>11. CASE MoveInTwo
  BY <1>6, <1>7, <1>11 DEF MoveInTwo, Small
<1> QED BY <1>10, <1>11

--------------------------------------------------------------------------------
(* The reader *)

\* The binding's journal lets the index be brought up to date, and what a replay
\* has read is current while the journal stands where the replay ended.
ReadInv ==
    /\ binding.id = 1 /\ binding.next \in Nat /\ cutoff \in Nat
    /\ Matches(index, binding.paths)
    /\ binding.id = journalId =>
        /\ binding.next <= Len(journal) /\ cutoff <= Len(journal)
        /\ ReplayGood
        /\ replay \in {"begun", "replayed", "read"} => binding.next <= cutoff
        /\ replay \in {"replayed", "read"} /\ cutoff = Len(journal) =>
              result \in ReplayOf(journal, binding.paths, binding.next) /\ result.pending = {}
        /\ replay = "read" /\ cutoff = Len(journal) =>
              Matches(fresh, result.paths) /\ Current(fresh, {}, links, stamp, reasons)

\* A projection begins with the paths, nothing pending and nothing marked.
LEMMA ProjectionFields ==
  \A paths : LET s == Projection(paths) IN
     DOMAIN s = StateFields /\ s.paths = paths /\ s.pending = {} /\ s.dirty = {}
  BY DEF Projection, StateFields

\* A projection of the stable paths of a tree has the tree.
LEMMA TrackingStart ==
  ASSUME NEW ls, NEW names PROVE Tracking(Projection(StablePaths(ls)), ls, names)
  BY ProjectionFields DEF Tracking

\* The binding saved last is of the volume as it was then.
LEMMA ReplayStarts == ASSUME ReplayInit PROVE VolumeInv /\ ReadInv
<1>1. VolumeInv
  BY VolumeStarts DEF ReplayInit
<1>2. /\ journal = <<>> /\ journalId = 1 /\ binding.id = 1 /\ binding.next = 0 /\ cutoff = 0
      /\ binding.paths = StablePaths(links) /\ index = Indexed(links) /\ replay = "idle"
      /\ journal \in Seq(JournalRecords) /\ IsTree(links)
  BY <1>1 DEF ReplayInit, VolumeInit, VolumeInv
<1>3. Matches(index, binding.paths)
  <2>1. \A p : Entry(p).path = p.path /\ Entry(p).name = p.name /\ Entry(p).dir = p.dir
    BY DEF Entry
  <2> DEFINE S == StablePaths(links)
             T == {Entry(p) : p \in S}
             of(e) == <<e.path, e.name, e.dir>>
  <2>2. \A p : of(Entry(p)) = of(p)
    BY <2>1
  <2>3. {of(e) : e \in T} = {of(p) : p \in S}
    <3> HIDE DEF of, S
    <3>1. ASSUME NEW x \in {of(e) : e \in T} PROVE x \in {of(p) : p \in S}
      <4>1. PICK p \in S : x = of(Entry(p))
        OBVIOUS
      <4> QED BY <2>2, <4>1
    <3>2. ASSUME NEW x \in {of(p) : p \in S} PROVE x \in {of(e) : e \in T}
      <4>1. PICK p \in S : x = of(p)
        OBVIOUS
      <4>2. x = of(Entry(p)) /\ Entry(p) \in T
        BY <2>2, <4>1
      <4> HIDE DEF T
      <4> QED BY <4>2
    <3> HIDE DEF T
    <3> QED BY <3>1, <3>2
  <2>4. index = T
    BY <1>2 DEF Indexed
  <2> QED BY <1>2, <2>3, <2>4, Zenon DEF Matches
<1>4. Current(index, {}, links, stamp, reasons)
  <2> SUFFICES ASSUME NEW p \in StablePaths(links), ~p.dir, NEW e \in index, e.path = p.path
               PROVE  e.stamp = stamp[p.ref]
    BY DEF Current
  <2>1. PICK q \in StablePaths(links) : e = Entry(q)
    BY <1>2 DEF Indexed
  <2>2. q.path = p.path
    BY <2>1 DEF Entry
  <2>3. q = p
    BY <1>2, <2>2, StableKeys
  <2> QED BY <2>1, <2>3 DEF Entry
<1>5. ReplayOf(journal, binding.paths, binding.next) = {Projection(StablePaths(links))}
  <2>1. Len(journal) = 0
    BY <1>2
  <2> QED BY <1>2, <2>1, NothingReplayed
<1>6. ReplayGood
  BY <1>4, <1>5, TrackingStart, ProjectionFields DEF ReplayGood, Good
<1>7. Len(journal) = 0
  BY <1>2
<1> QED BY <1>1, <1>2, <1>3, <1>6, <1>7 DEF ReadInv

\* Whatever is done to the volume while a replay runs, what the replay has is
\* right or its cutoff has been passed.
LEMMA VolumeStepReads ==
  ASSUME VolumeInv, ReadInv, Touch \/ MoveInTwo, UNCHANGED reader
  PROVE  VolumeInv' /\ ReadInv'
<1>1. VolumeInv' /\ journal \in Seq(JournalRecords) /\ journal' \in Seq(JournalRecords)
  BY VolumeSteps DEF VolumeInv
<1>2. UNCHANGED <<binding, index, replay, cutoff, result, fresh>>
  BY DEF reader
<1>3. CASE journalId' = 2
  BY <1>1, <1>2, <1>3 DEF ReadInv
<1>4. ASSUME journalId' = journalId, binding.id = journalId
      PROVE  ReadInv'
  <2>1. Reading /\ ReplayGood /\ Len(journal) \in Nat /\ Len(journal') \in Nat
    BY <1>1, <1>2, <1>4 DEF ReadInv, Reading
  <2>2. journalId' # 2
    BY <1>4 DEF ReadInv
  <2>3. ReplayGood' /\ (journal' = journal \/ Len(journal) < Len(journal'))
    BY <2>1, <2>2, VolumeSteps
  <2>4. CASE Len(journal) < Len(journal')
    <3>1. binding.next <= Len(journal') /\ cutoff < Len(journal') /\ cutoff # Len(journal')
      BY <1>4, <2>1, <2>4 DEF ReadInv
    <3> QED BY <1>2, <1>4, <2>3, <3>1 DEF ReadInv
  <2>5. CASE ~(Len(journal) < Len(journal'))
    <3>1. journal' = journal
      BY <2>3, <2>5
    <3>2. (\E l \in links : Modify(l)) \/ UNCHANGED <<links, stamp, reasons>>
      BY <2>2, <2>5, VolumeSteps
    <3>3. Current(fresh, {}, links, stamp, reasons) => Current(fresh, {}, links', stamp', reasons')
      BY <3>2, ModifyCurrent
    <3> QED BY <1>2, <1>4, <2>3, <3>1, <3>3 DEF ReadInv
  <2> QED BY <2>4, <2>5
<1>5. CASE journalId' = journalId /\ binding.id # journalId
  <2>1. binding'.id # journalId' /\ binding.id = 1 /\ binding.next \in Nat /\ cutoff \in Nat
        /\ Matches(index', binding'.paths)
    BY <1>2, <1>5 DEF ReadInv
  <2> QED BY <1>1, <1>2, <2>1, Zenon DEF ReadInv
<1>6. journalId' = 2 \/ journalId' = journalId
  BY VolumeSteps
<1> QED BY <1>1, <1>3, <1>4, <1>5, <1>6

\* A replay begins at the binding's position and notes the end of the journal.
LEMMA BeginReads == ASSUME VolumeInv, ReadInv, BeginReplay, UNCHANGED volume PROVE ReadInv'
<1>1. /\ UNCHANGED <<binding, index, result, fresh, journal, journalId, links, stamp, reasons, renaming>>
      /\ replay' = "begun" /\ cutoff' = Len(journal) /\ binding.next <= Len(journal)
  BY DEF BeginReplay, volume, WindowIsReadable
<1>2. Len(journal) \in Nat
  BY DEF VolumeInv
<1>3. ReplayGood => ReplayGood'
  BY <1>1 DEF ReplayGood
<1> QED BY <1>1, <1>2, <1>3 DEF ReadInv

\* The result is the replay to the cutoff, and the journal still ends there.
LEMMA ReplayReads == ASSUME VolumeInv, ReadInv, Replay, UNCHANGED volume PROVE ReadInv'
<1>1. /\ UNCHANGED <<binding, index, cutoff, fresh, journal, journalId, links, stamp, reasons, renaming>>
      /\ replay = "begun" /\ replay' = "replayed" /\ result' \in Results
  BY DEF Replay, volume
<1>2. /\ Len(journal) = cutoff /\ binding.id = journalId
      /\ result' \in Replayed(binding.paths, binding.next, cutoff) /\ result'.pending = {}
  BY <1>1 DEF Results, Unchanged
<1>3. result' \in ReplayOf(journal, binding.paths, binding.next)
  BY <1>2 DEF Replayed, ReplayOf
<1>4. ReplayGood => ReplayGood'
  BY <1>1 DEF ReplayGood
<1> QED BY <1>1, <1>2, <1>3, <1>4 DEF ReadInv

\* A replay that still stands has the paths of the volume as it is.
LEMMA ResultIsTree ==
  ASSUME VolumeInv, ReadInv, binding.id = journalId, replay \in {"replayed", "read"}, cutoff = Len(journal)
  PROVE  result.paths = StablePaths(links) /\ Current(index, result.dirty, links, stamp, reasons)
  BY DEF ReadInv, ReplayGood, Good, Tracking

\* Entries whose marked paths were read again are current for every path.
LEMMA ReconciledIsCurrent ==
  ASSUME IsTree(links), result.paths = StablePaths(links), Current(index, result.dirty, links, stamp, reasons)
  PROVE  Current(Reconciled, {}, links, stamp, reasons)
<1> SUFFICES ASSUME NEW p \in StablePaths(links), ~p.dir, NEW e \in Reconciled, e.path = p.path
             PROVE  e.stamp = stamp[p.ref] \/ "data" \in reasons[p.ref]
  BY DEF Current
<1>1. CASE e \in index /\ e.path \notin result.dirty
  BY <1>1 DEF Current
<1>2. ASSUME NEW q \in Again, e \in Reread(q) PROVE e.stamp = stamp[p.ref]
  <2>1. PICK o \in OnDisk(q) :
          e = [path |-> q.path, name |-> q.name, dir |-> q.dir, stamp |-> Entry(o).stamp]
    BY <1>2 DEF Reread
  <2>2. e.path = q.path /\ e.stamp = Entry(o).stamp
    BY <2>1
  <2>3. o \in StablePaths(links) /\ PathKey(o.path) = PathKey(p.path)
    BY <2>2 DEF OnDisk
  <2>4. o = p
    BY <2>3, StableKeys
  <2> QED BY <2>2, <2>4 DEF Entry
<1> QED BY <1>1, <1>2 DEF Reconciled

\* Reading the marked paths brings the entries to the volume's state, if the journal
\* has not moved.
LEMMA ReconcileReads == ASSUME VolumeInv, ReadInv, Reconcile, UNCHANGED volume PROVE ReadInv'
<1>1. /\ UNCHANGED <<binding, index, cutoff, result, journal, journalId, links, stamp, reasons, renaming>>
      /\ replay = "replayed" /\ replay' = "read" /\ fresh' = Reconciled
      /\ Matches(Reconciled, result.paths)
  BY DEF Reconcile, Reconciles, volume
<1>2. binding.id = journalId /\ cutoff = Len(journal) => Current(Reconciled, {}, links, stamp, reasons)
  <2>1. IsTree(links)
    BY DEF VolumeInv
  <2> QED BY <1>1, <2>1, ResultIsTree, ReconciledIsCurrent
<1>3. ReplayGood => ReplayGood'
  BY <1>1 DEF ReplayGood
<1> QED BY <1>1, <1>2, <1>3 DEF ReadInv

\* What is published with the cutoff as its position is the volume as it is.
LEMMA PublishReads == ASSUME VolumeInv, ReadInv, Publish, UNCHANGED volume PROVE ReadInv'
<1>1. /\ UNCHANGED <<cutoff, journal, journalId, links, stamp, reasons, renaming>>
      /\ replay = "read" /\ replay' = "idle" /\ index' = fresh
      /\ binding' = [id |-> binding.id, next |-> cutoff, paths |-> result.paths]
      /\ binding.id = journalId /\ Len(journal) = cutoff
  BY DEF Publish, volume, Unchanged
<1>2. binding'.id = binding.id /\ binding'.next = cutoff /\ binding'.paths = result.paths
  BY <1>1
<1>3. Matches(fresh, result.paths) /\ Current(fresh, {}, links, stamp, reasons)
  BY <1>1 DEF ReadInv
<1>4. result.paths = StablePaths(links)
  BY <1>1, ResultIsTree
<1>5. journal \in Seq(JournalRecords)
  BY DEF VolumeInv
<1>6. ReplayOf(journal', binding'.paths, binding'.next) = {Projection(StablePaths(links))}
  BY <1>1, <1>2, <1>4, <1>5, NothingReplayed
<1>7. Good(Projection(StablePaths(links)), index', links', renaming', stamp', reasons')
  BY <1>1, <1>3, TrackingStart, ProjectionFields DEF Good
<1>8. ReplayGood'
  BY <1>6, <1>7 DEF ReplayGood
<1>9. Matches(index', binding'.paths)
  BY <1>1, <1>2, <1>3
<1>10. Len(journal) \in Nat
  BY <1>5
<1> QED BY <1>1, <1>2, <1>8, <1>9, <1>10 DEF ReadInv

\* A replay that gives up leaves the binding and the index alone.
LEMMA DeclineReads == ASSUME VolumeInv, ReadInv, Decline, UNCHANGED volume PROVE ReadInv'
<1>1. /\ UNCHANGED <<binding, index, cutoff, journal, journalId, links, stamp, reasons, renaming>>
      /\ replay' = "declined"
  BY DEF Decline, volume
<1>2. ReplayGood => ReplayGood'
  BY <1>1 DEF ReplayGood
<1> QED BY <1>1, <1>2 DEF ReadInv

\* Every step keeps the invariant of the volume and that of the replay.
LEMMA ReplayKeeps ==
  ASSUME VolumeInv /\ ReadInv, [ReplayNext]_replayVars PROVE VolumeInv' /\ ReadInv'
<1>1. ASSUME UNCHANGED volume PROVE VolumeInv'
  BY <1>1 DEF VolumeInv, volume
<1>2. CASE WorthWatching /\ (Touch \/ MoveInTwo) /\ UNCHANGED reader
  BY <1>2, VolumeStepReads
<1>3. CASE (BeginReplay \/ Replay \/ Reconcile \/ Publish \/ Decline) /\ UNCHANGED volume
  BY <1>1, <1>3, BeginReads, ReplayReads, ReconcileReads, PublishReads, DeclineReads
<1>4. CASE UNCHANGED replayVars
  <2>1. UNCHANGED <<volume, binding, index, replay, cutoff, result, fresh>>
    BY <1>4 DEF replayVars, reader
  <2>2. UNCHANGED <<links, stamp, reasons, journal, journalId, renaming>>
    BY <2>1 DEF volume
  <2>3. ReplayGood => ReplayGood'
    BY <2>1, <2>2 DEF ReplayGood
  <2>4. ReadInv'
    BY <2>1, <2>2, <2>3 DEF ReadInv
  <2> QED BY <1>1, <2>1, <2>4
<1> QED BY <1>2, <1>3, <1>4 DEF ReplayNext

\* The volume stays a tree whose journal tells its history, and at every moment a
\* replay of the journal from the binding would give the tree as it is, with every
\* path marked that the index may be wrong about, or would be given up.
THEOREM JournalInvariant == ReplaySpec => [](VolumeInv /\ ReadInv)
<1>1. ReplayInit => VolumeInv /\ ReadInv
  BY ReplayStarts
<1>2. (VolumeInv /\ ReadInv) /\ [ReplayNext]_replayVars => (VolumeInv /\ ReadInv)'
  BY ReplayKeeps
<1> QED BY <1>1, <1>2, PTL DEF ReplaySpec

\* ResumeIsExact, for any tree, names and length of the journal: an index whose
\* binding stands at the end of the journal has every link under its path and no
\* closed file's older content, so the startup of ntfs_usn.rs that finds the journal
\* unmoved may show it without looking at the volume.
THEOREM ResumeExact == ReplaySpec => []ResumeIsExact
<1>1. VolumeInv /\ ReadInv => ResumeIsExact
  <2> SUFFICES ASSUME VolumeInv, ReadInv, binding.id = journalId, Len(journal) = binding.next
               PROVE  /\ binding.paths = StablePaths(links)
                      /\ Matches(index, binding.paths)
                      /\ \A p \in {q \in binding.paths : ~q.dir /\ reasons[q.ref] = {}} :
                            \A e \in index : e.path = p.path => e.stamp = stamp[p.ref]
    BY DEF ResumeIsExact
  <2>1. ReplayOf(journal, binding.paths, binding.next) = {Projection(binding.paths)}
    <3>1. journal \in Seq(JournalRecords)
      BY DEF VolumeInv
    <3> QED BY <3>1, NothingReplayed
  <2>2. Good(Projection(binding.paths), index, links, renaming, stamp, reasons)
    BY <2>1 DEF ReadInv, ReplayGood
  <2>3. binding.paths = StablePaths(links) /\ Current(index, {}, links, stamp, reasons)
    BY <2>2, ProjectionFields DEF Good, Tracking
  <2>4. Matches(index, binding.paths)
    BY DEF ReadInv
  <2>5. ASSUME NEW p \in binding.paths, ~p.dir, reasons[p.ref] = {}, NEW e \in index, e.path = p.path
        PROVE  e.stamp = stamp[p.ref]
    BY <2>3, <2>5 DEF Current
  <2> QED BY <2>3, <2>4, <2>5
<1> QED BY <1>1, JournalInvariant, PTL

--------------------------------------------------------------------------------
(* The paths of the file table *)

\* No directory is deeper than there are names.
LEMMA DepthIsBounded ==
  ASSUME NEW ls, IsTree(ls)
  PROVE  /\ Cardinality(ls) \in Nat
         /\ \A d \in Directories(ls) : Depth(ls, d) <= Cardinality(ls)
<1>1. IsFiniteSet(ls) /\ Cardinality(ls) \in Nat
  BY FS_CardinalityType DEF IsTree
<1>2. ASSUME NEW d \in Directories(ls) PROVE Depth(ls, d) <= Cardinality(ls)
  <2> DEFINE S == AtOrAbove(ls, d) \ {Root}
             f == [x \in S |-> CHOOSE l \in ls : l.ref = x]
  <2>1. ASSUME NEW x \in S PROVE f[x] \in ls /\ f[x].ref = x
    <3>1. x \in Directories(ls) /\ x # Root
      BY <1>2, AboveIsUpward
    <3>2. \E l \in ls : l.ref = x
      BY <3>1, DirectoryCases
    <3> QED BY <3>2
  <2>2. f \in [S -> ls] /\ \A x, y \in S : f[x] = f[y] => x = y
    <3>1. f \in [S -> ls]
      BY <2>1
    <3> QED BY <2>1, <3>1
  <2>3. f \in Injection(S, ls)
    <3> HIDE DEF f, S
    <3> QED BY <2>2 DEF Injection, IsInjective
  <2>4. Cardinality(S) <= Cardinality(ls)
    <3> HIDE DEF f, S
    <3> QED BY <1>1, <2>3, FS_Injection
  <2> QED BY <2>4 DEF Depth
<1> QED BY <1>1, <1>2

\* What the resolver may have of a reference: of a directory its path.
IsResolved(ls, x) ==
    /\ x = <<x[1], x[2]>>
    /\ x[1] \in Directories(ls) => x[2] = DirPath(ls, x[1])

\* The only link of a directory is the directory's.
LEMMA LinkOfDirectory ==
  ASSUME NEW ls, IsTree(ls), NEW l \in ls, l.ref \in Directories(ls)
  PROVE  l.dir
<1>1. l.ref # Root
  BY LinkFacts
<1>2. PICK k \in ls : k.dir /\ k.ref = l.ref
  BY <1>1, DirectoryCases
<1> QED BY <1>2, LinkFacts

\* One level deeper the resolver still gives each directory its path.
LEMMA DeeperIsResolved ==
  ASSUME NEW ls, IsTree(ls), NEW at, \A x \in at : IsResolved(ls, x), NEW z \in Deeper(at, ls)
  PROVE  IsResolved(ls, z)
<1>1. CASE z \in at
  BY <1>1
<1>2. ASSUME NEW l \in ls, NEW x \in at, l.parent = x[1], z = <<l.ref, Append(x[2], l.name)>>
      PROVE  IsResolved(ls, z)
  <2>1. x[2] = DirPath(ls, l.parent)
    BY <1>2, LinkFacts DEF IsResolved
  <2>2. z[1] = l.ref /\ z[2] = Append(DirPath(ls, l.parent), l.name)
    BY <1>2, <2>1
  <2>3. z[1] \in Directories(ls) => z[2] = DirPath(ls, z[1])
    BY <2>2, LinkOfDirectory, PathEquations
  <2>4. z = <<z[1], z[2]>>
    BY <1>2
  <2> QED BY <2>3, <2>4 DEF IsResolved
<1>3. z \in at \/ \E y \in {v \in ls \X at : v[1].parent = v[2][1]} :
                     z = <<y[1].ref, Append(y[2][2], y[1].name)>>
  BY DEF Deeper
<1>4. CASE \E y \in {v \in ls \X at : v[1].parent = v[2][1]} :
                     z = <<y[1].ref, Append(y[2][2], y[1].name)>>
  <2>1. PICK y \in ls \X at : y[1].parent = y[2][1] /\ z = <<y[1].ref, Append(y[2][2], y[1].name)>>
    BY <1>4
  <2>2. y[1] \in ls /\ y[2] \in at
    BY <2>1
  <2> QED BY <1>2, <2>1, <2>2
<1> QED BY <1>1, <1>3, <1>4

\* The levels reached: what is in them is right, and down to their depth they
\* have every directory.
LevelsGood(ls, i) ==
    LET level == Levels!After({<<Root, <<>>>>}, [j \in 1..Cardinality(ls) |-> ls], i)
    IN /\ \A x \in level : IsResolved(ls, x)
       /\ \A d \in Directories(ls) : Depth(ls, d) <= i => <<d, DirPath(ls, d)>> \in level

\* The root resolves to the empty path.
LEMMA FirstLevel == ASSUME NEW ls, IsTree(ls) PROVE LevelsGood(ls, 0)
<1>1. Levels!After({<<Root, <<>>>>}, [j \in 1..Cardinality(ls) |-> ls], 0) = {<<Root, <<>>>>}
  BY Levels!AtFirst
<1>2. IsResolved(ls, <<Root, <<>>>>)
  BY PathEquations DEF IsResolved
<1>3. \A d \in Directories(ls) : Depth(ls, d) <= 0 => d = Root
  BY DepthFacts
<1> QED BY <1>1, <1>2, <1>3, PathEquations DEF LevelsGood

\* Each turn resolves the directories one level deeper.
LEMMA NextLevel ==
  ASSUME NEW ls, IsTree(ls), NEW i \in 0..(Cardinality(ls) - 1), LevelsGood(ls, i)
  PROVE  LevelsGood(ls, i + 1)
<1> DEFINE n == Cardinality(ls)
           s == [j \in 1..n |-> ls]
           at == Levels!After({<<Root, <<>>>>}, s, i)
           next == Levels!After({<<Root, <<>>>>}, s, i + 1)
<1>1. i \in Nat /\ i + 1 \in 1..n
  BY DepthIsBounded
<1>2. next = Deeper(at, ls)
  <2>1. s[i + 1] = ls
    BY <1>1
  <2>2. next = Deeper(at, s[i + 1])
    BY <1>1, Levels!OneMore, Zenon
  <2> QED BY <2>1, <2>2
<1>3. /\ \A x \in at : IsResolved(ls, x)
      /\ \A d \in Directories(ls) : Depth(ls, d) <= i => <<d, DirPath(ls, d)>> \in at
  BY DEF LevelsGood
<1> HIDE DEF at, next
<1>4. \A x \in next : IsResolved(ls, x)
  BY <1>2, <1>3, DeeperIsResolved
<1>5. ASSUME NEW d \in Directories(ls), Depth(ls, d) <= i + 1 PROVE <<d, DirPath(ls, d)>> \in next
  <2>1. at \subseteq next
    BY <1>2 DEF Deeper
  <2>2. CASE d = Root
    <3>1. Depth(ls, d) <= i
      BY <1>1, <2>2, DepthFacts
    <3> QED BY <1>3, <2>1, <3>1
  <2>3. ASSUME NEW k \in ls, k.dir, k.ref = d PROVE <<d, DirPath(ls, d)>> \in next
    <3>1. /\ k.parent \in Directories(ls) /\ Depth(ls, d) = Depth(ls, k.parent) + 1
          /\ DirPath(ls, d) = Append(DirPath(ls, k.parent), k.name)
          /\ Depth(ls, k.parent) \in Nat
      BY <2>3, LinkFacts, DepthFacts, PathEquations
    <3>2. <<k.parent, DirPath(ls, k.parent)>> \in at
      BY <1>1, <1>3, <1>5, <3>1
    <3> DEFINE y == <<k, <<k.parent, DirPath(ls, k.parent)>>>>
    <3>3. y \in ls \X at /\ y[1] = k /\ y[2][1] = k.parent /\ y[2][2] = DirPath(ls, k.parent)
      BY <3>2
    <3> HIDE DEF y
    <3>4. <<y[1].ref, Append(y[2][2], y[1].name)>> \in next
      BY <1>2, <3>3 DEF Deeper
    <3> QED BY <2>3, <3>1, <3>3, <3>4
  <2> QED BY <2>2, <2>3, DirectoryCases
<1> QED BY <1>4, <1>5 DEF LevelsGood, next

\* The entries of a tree are its links under their paths.
LEMMA EntriesOfTree ==
  ASSUME NEW ls, IsTree(ls)
  PROVE  Entries(ls) = {[link |-> l, path |-> PathOf(ls, l)] : l \in ls}
<1> DEFINE n == Cardinality(ls)
           at == Resolved(ls)
<1>1. LevelsGood(ls, n)
  <2> DEFINE G == {i \in Nat : LevelsGood(ls, i)}
  <2>1. n \in Nat
    BY DepthIsBounded
  <2>2. 0 \in G
    BY FirstLevel
  <2>3. \A i \in 0..(n - 1) : i \in G => i + 1 \in G
    BY <2>1, NextLevel
  <2>4. \A i \in 0..n : i \in G
    <3> HIDE DEF G, n
    <3> QED BY <2>1, <2>2, <2>3, Levels!Counting
  <2> QED BY <2>1, <2>4
<1>2. /\ \A x \in at : IsResolved(ls, x)
      /\ \A d \in Directories(ls) : <<d, DirPath(ls, d)>> \in at
  BY <1>1, DepthIsBounded DEF LevelsGood, Resolved
<1> HIDE DEF at
<1>3. ASSUME NEW y \in ls \X at, y[1].parent = y[2][1]
      PROVE  y[1] \in ls /\ Append(y[2][2], y[1].name) = PathOf(ls, y[1])
  <2>1. y[1] \in ls /\ y[2] \in at
    OBVIOUS
  <2>2. y[2][2] = DirPath(ls, y[1].parent)
    BY <1>2, <1>3, <2>1, LinkFacts DEF IsResolved
  <2> QED BY <2>1, <2>2 DEF PathOf
<1>4. ASSUME NEW l \in ls
      PROVE  \E y \in ls \X at : y[1].parent = y[2][1] /\ y[1] = l
  <2> DEFINE y == <<l, <<l.parent, DirPath(ls, l.parent)>>>>
  <2>1. <<l.parent, DirPath(ls, l.parent)>> \in at
    BY <1>2, LinkFacts
  <2>2. y \in ls \X at /\ y[1].parent = y[2][1] /\ y[1] = l
    BY <2>1
  <2> QED BY <2>2
<1>5. Entries(ls) = {[link |-> x[1], path |-> Append(x[2][2], x[1].name)] :
                        x \in {y \in ls \X at : y[1].parent = y[2][1]}}
  BY DEF Entries, at
<1>6. ASSUME NEW e \in Entries(ls) PROVE \E l \in ls : e = [link |-> l, path |-> PathOf(ls, l)]
  <2>1. PICK x \in ls \X at : x[1].parent = x[2][1] /\ e = [link |-> x[1], path |-> Append(x[2][2], x[1].name)]
    BY <1>5, <1>6
  <2> QED BY <1>3, <2>1
<1>7. ASSUME NEW l \in ls PROVE [link |-> l, path |-> PathOf(ls, l)] \in Entries(ls)
  <2>1. PICK y \in ls \X at : y[1].parent = y[2][1] /\ y[1] = l
    BY <1>4
  <2>2. Append(y[2][2], y[1].name) = PathOf(ls, l)
    BY <1>3, <2>1
  <2>3. [link |-> y[1], path |-> Append(y[2][2], y[1].name)] \in Entries(ls)
    BY <1>5, <2>1
  <2> QED BY <2>1, <2>2, <2>3
<1> QED BY <1>6, <1>7

--------------------------------------------------------------------------------
(* Records applied to what was gathered *)

Ambiguous(rec) == "link" \in rec.why \/ Cardinality(WindowTopology(rec)) > 1

\* The link a record adds, and the link it takes away.
Adds(rec, k) ==
    rec.why \cap {"create", "new"} # {} /\ k = LinkTo(rec.ref, rec.parent, rec.name, rec.dir)

Cuts(rec, k) ==
    /\ WindowTopology(rec) # {} /\ rec.why \cap {"create", "new"} = {}
    /\ k.ref = rec.ref /\ k.parent = rec.parent /\ k.name = rec.name

Follows(ls, rec, ls2) == \A k : k \in ls2 <=> Adds(rec, k) \/ (k \in ls /\ ~Cuts(rec, k))

\* A record the window takes is not ambiguous, and adds or takes away its link.
LEMMA TableStep ==
  ASSUME NEW recs, NEW rec, NEW recs2 \in ApplyToTable(recs, rec)
  PROVE  ~Ambiguous(rec) /\ Follows(recs, rec, recs2)
<1> DEFINE l == LinkTo(rec.ref, rec.parent, rec.name, rec.dir)
<1>1. ~Ambiguous(rec)
  BY DEF ApplyToTable, Ambiguous
<1>2. CASE WindowTopology(rec) = {}
  <2>1. recs2 = recs
    BY <1>1, <1>2 DEF ApplyToTable, Ambiguous
  <2>2. rec.why \cap {"create", "new"} = {}
    BY <1>2 DEF WindowTopology
  <2> QED BY <1>1, <1>2, <2>1, <2>2 DEF Follows, Adds, Cuts
<1>3. CASE WindowTopology(rec) # {} /\ rec.why \cap {"create", "new"} = {}
  <2>1. recs2 = {k \in recs : k.ref # rec.ref \/ k.parent # rec.parent \/ k.name # rec.name}
    BY <1>1, <1>3 DEF ApplyToTable, Ambiguous
  <2> QED BY <1>1, <1>3, <2>1 DEF Follows, Adds, Cuts
<1>4. CASE WindowTopology(rec) # {} /\ rec.why \cap {"create", "new"} # {}
  <2>1. recs2 = recs \cup {l}
    BY <1>1, <1>4 DEF ApplyToTable, Ambiguous
  <2> QED BY <1>1, <1>4, <2>1 DEF Follows, Adds, Cuts
<1> QED BY <1>2, <1>3, <1>4

\* What records from a position to another leave of a link: it is there whatever
\* was gathered, or it is there if it was.
Made(J, at, to, k) ==
    \E i \in (at + 1)..to : Adds(J[i], k) /\ \A j \in (i + 1)..to : ~Cuts(J[j], k)

Kept(J, at, to, k) == \A j \in (at + 1)..to : ~Cuts(J[j], k)

Clear(J, at, to) == \A i \in (at + 1)..to : ~Ambiguous(J[i])

\* Before any record what was gathered is kept and nothing else is there.
LEMMA NoRecord ==
  ASSUME NEW J, NEW at \in Nat
  PROVE  /\ Clear(J, at, at)
         /\ \A k : Kept(J, at, at, k) /\ ~Made(J, at, at, k)
  BY DEF Clear, Kept, Made

\* One record more adds its link, or takes its link away.
LEMMA RecordMore ==
  ASSUME NEW J, NEW at \in Nat, NEW to \in Nat, at <= to
  PROVE  /\ Clear(J, at, to + 1) <=> Clear(J, at, to) /\ ~Ambiguous(J[to + 1])
         /\ \A k : Kept(J, at, to + 1, k) <=> Kept(J, at, to, k) /\ ~Cuts(J[to + 1], k)
         /\ \A k : Made(J, at, to + 1, k) <=>
                      Adds(J[to + 1], k) \/ (Made(J, at, to, k) /\ ~Cuts(J[to + 1], k))
<1>1. \A i \in (at + 1)..(to + 1) : i \in (at + 1)..to \/ i = to + 1
  OBVIOUS
<1>2. (\A i \in (at + 1)..to : i \in (at + 1)..(to + 1)) /\ to + 1 \in (at + 1)..(to + 1)
  OBVIOUS
<1>3. Clear(J, at, to + 1) <=> Clear(J, at, to) /\ ~Ambiguous(J[to + 1])
  BY <1>1, <1>2, Zenon DEF Clear
<1>4. ASSUME NEW k PROVE Kept(J, at, to + 1, k) <=> Kept(J, at, to, k) /\ ~Cuts(J[to + 1], k)
  BY <1>1, <1>2, Zenon DEF Kept
<1>5. ASSUME NEW k, Made(J, at, to + 1, k)
      PROVE  Adds(J[to + 1], k) \/ (Made(J, at, to, k) /\ ~Cuts(J[to + 1], k))
  <2>1. PICK i \in (at + 1)..(to + 1) :
           Adds(J[i], k) /\ \A j \in (i + 1)..(to + 1) : ~Cuts(J[j], k)
    BY <1>5 DEF Made
  <2>2. CASE i = to + 1
    BY <2>1, <2>2
  <2>3. CASE i \in (at + 1)..to
    <3>1. to + 1 \in (i + 1)..(to + 1) /\ \A j \in (i + 1)..to : j \in (i + 1)..(to + 1)
      BY <2>3
    <3> QED BY <2>1, <2>3, <3>1, Zenon DEF Made
  <2> QED BY <1>1, <2>2, <2>3
<1>6. ASSUME NEW k, Adds(J[to + 1], k) PROVE Made(J, at, to + 1, k)
  <2>1. \A j \in ((to + 1) + 1)..(to + 1) : FALSE
    OBVIOUS
  <2> QED BY <1>2, <1>6, <2>1, Zenon DEF Made
<1>7. ASSUME NEW k, Made(J, at, to, k), ~Cuts(J[to + 1], k) PROVE Made(J, at, to + 1, k)
  <2>1. PICK i \in (at + 1)..to : Adds(J[i], k) /\ \A j \in (i + 1)..to : ~Cuts(J[j], k)
    BY <1>7 DEF Made
  <2>2. \A j \in (i + 1)..(to + 1) : j \in (i + 1)..to \/ j = to + 1
    OBVIOUS
  <2> QED BY <1>2, <1>7, <2>1, <2>2, Zenon DEF Made
<1> QED BY <1>3, <1>4, <1>5, <1>6, <1>7

\* Records after those taken do not count.
LEMMA RecordsTaken ==
  ASSUME NEW J, NEW J2, NEW at \in Nat, NEW to \in Nat, \A i \in 1..to : J2[i] = J[i]
  PROVE  /\ Clear(J2, at, to) <=> Clear(J, at, to)
         /\ \A k : Kept(J2, at, to, k) <=> Kept(J, at, to, k)
         /\ \A k : Made(J2, at, to, k) <=> Made(J, at, to, k)
<1>1. \A i \in (at + 1)..to : J2[i] = J[i] /\ \A j \in (i + 1)..to : J2[j] = J[j]
  <2>1. \A i \in (at + 1)..to : i \in 1..to /\ \A j \in (i + 1)..to : j \in 1..to
    OBVIOUS
  <2> QED BY <2>1
<1>2. Clear(J2, at, to) <=> Clear(J, at, to)
  BY <1>1, Zenon DEF Clear
<1>3. ASSUME NEW k PROVE Kept(J2, at, to, k) <=> Kept(J, at, to, k)
  BY <1>1, Zenon DEF Kept
<1>4. ASSUME NEW k PROVE Made(J2, at, to, k) <=> Made(J, at, to, k)
  <2>1. ASSUME NEW i \in (at + 1)..to
        PROVE  (Adds(J2[i], k) /\ \A j \in (i + 1)..to : ~Cuts(J2[j], k)) <=>
               (Adds(J[i], k) /\ \A j \in (i + 1)..to : ~Cuts(J[j], k))
    BY <1>1, Zenon
  <2> QED BY <2>1, Zenon DEF Made
<1> QED BY <1>2, <1>3, <1>4

\* A table after the records from a position to another.
AppliedTo(recs, T, J, at, to) ==
    /\ Clear(J, at, to)
    /\ \A k : k \in recs <=> (k \in T /\ Kept(J, at, to, k)) \/ Made(J, at, to, k)

\* What the window makes of a table with the records since it was opened.
LEMMA TablesApplied ==
  ASSUME NEW S, NEW J \in Seq(S), NEW at \in 0..Len(J), NEW T,
         NEW recs \in Tables!After({T}, SubSeq(J, at + 1, Len(J)), Len(J) - at)
  PROVE  AppliedTo(recs, T, J, at, Len(J))
<1> DEFINE n == Len(J) - at
           s == SubSeq(J, at + 1, Len(J))
           Of(i) == Tables!After({T}, s, i)
           G == {i \in Nat : \A x \in Of(i) : AppliedTo(x, T, J, at, at + i)}
<1>1. n \in Nat /\ at \in Nat /\ at + n = Len(J)
  OBVIOUS
<1>2. \A i \in 1..n : s[i] = J[at + i]
  OBVIOUS
<1> HIDE DEF s, n
<1>3. 0 \in G
  <2>1. Of(0) = {T} /\ at + 0 = at
    BY <1>1, Tables!AtFirst
  <2>2. AppliedTo(T, T, J, at, at)
    BY <1>1, NoRecord DEF AppliedTo
  <2> QED BY <2>1, <2>2
<1>4. ASSUME NEW i \in 0..(n - 1), i \in G PROVE i + 1 \in G
  <2>1. i \in Nat /\ i + 1 \in 1..n /\ at + i \in Nat /\ at <= at + i /\ at + (i + 1) = (at + i) + 1
    BY <1>1
  <2>2. Of(i + 1) = ApplyToTables(Of(i), s[i + 1])
    BY <2>1, Tables!OneMore, Zenon
  <2>3. s[i + 1] = J[(at + i) + 1]
    BY <1>2, <2>1
  <2>4. ASSUME NEW x \in Of(i + 1) PROVE AppliedTo(x, T, J, at, at + (i + 1))
    <3>1. PICK y \in Of(i) : x \in ApplyToTable(y, J[(at + i) + 1])
      BY <2>2, <2>3 DEF ApplyToTables
    <3>2. AppliedTo(y, T, J, at, at + i)
      BY <1>4
    <3>3. ~Ambiguous(J[(at + i) + 1]) /\ Follows(y, J[(at + i) + 1], x)
      BY <3>1, TableStep
    <3>4. AppliedTo(x, T, J, at, (at + i) + 1)
      <4> DEFINE to == at + i
      <4>1. to \in Nat /\ at <= to
        BY <2>1
      <4>2. /\ Clear(J, at, to + 1) <=> Clear(J, at, to) /\ ~Ambiguous(J[to + 1])
            /\ \A k : Kept(J, at, to + 1, k) <=> Kept(J, at, to, k) /\ ~Cuts(J[to + 1], k)
            /\ \A k : Made(J, at, to + 1, k) <=>
                         Adds(J[to + 1], k) \/ (Made(J, at, to, k) /\ ~Cuts(J[to + 1], k))
        BY <1>1, <4>1, RecordMore
      <4> QED BY <3>2, <3>3, <4>2, Zenon DEF AppliedTo, Follows
    <3> QED BY <2>1, <3>4
  <2>5. \A x \in Of(i + 1) : AppliedTo(x, T, J, at, at + (i + 1))
    <3> HIDE DEF Of
    <3> QED BY <2>4
  <2>6. i + 1 \in Nat
    BY <2>1
  <2> HIDE DEF Of
  <2> QED BY <2>5, <2>6, Zenon
<1>5. \A i \in 0..n : i \in G
  <2> HIDE DEF G
  <2> QED BY <1>1, <1>3, <1>4, Tables!Counting
<1>6. \A x \in Of(n) : AppliedTo(x, T, J, at, at + n)
  <2>1. n \in 0..n
    BY <1>1
  <2>2. n \in G
    <3> HIDE DEF G
    <3> QED BY <1>5, <2>1
  <2> HIDE DEF Of
  <2> QED BY <2>2, Zenon
<1>7. recs \in Of(n)
  BY DEF s, n
<1> QED BY <1>1, <1>6, <1>7

--------------------------------------------------------------------------------
(* The volume in the window *)

\* What the records since the first query make of what was gathered is, of the
\* references enumerated so far, what the volume has.
InStep(J, at, ls, T, upTo) ==
    LET to == Len(J)
    IN /\ \A k : Made(J, at, to, k) => k \in ls
       /\ \A k \in ls : Kept(J, at, to, k) \/ Made(J, at, to, k)
       /\ \A k \in T : k \in Links /\ k.ref <= upTo
       /\ \A k \in Links : k.ref <= upTo =>
             (k \in ls <=> (k \in T /\ Kept(J, at, to, k)) \/ Made(J, at, to, k))

\* When the window opens nothing is gathered and no record counts.
LEMMA WindowOpens ==
  ASSUME NEW S, NEW J \in Seq(S), NEW ls \in SUBSET Links
  PROVE  InStep(J, Len(J), ls, {}, 0)
<1>1. Len(J) \in Nat
  OBVIOUS
<1>2. \A k : Kept(J, Len(J), Len(J), k) /\ ~Made(J, Len(J), Len(J), k)
  BY <1>1, NoRecord
<1>3. ASSUME NEW k \in Links PROVE ~(k.ref <= 0)
  <2>1. k.ref \in Nat /\ k.ref # 0
    BY VolumeAssumption DEF Links
  <2> QED BY <2>1
<1> QED BY <1>2, <1>3 DEF InStep

\* A change of the tree and its record leave the table in step.
LEMMA OneRecordInStep ==
  ASSUME NEW S, NEW J \in Seq(S), NEW r \in S, NEW at \in 0..Len(J), NEW ls, NEW ls2, NEW T, NEW upTo,
         InStep(J, at, ls, T, upTo), Follows(ls, r, ls2)
  PROVE  InStep(Append(J, r), at, ls2, T, upTo)
<1> DEFINE J2 == Append(J, r)
           n == Len(J)
<1>1. n \in Nat /\ at \in Nat /\ at <= n /\ Len(J2) = n + 1 /\ J2[n + 1] = r /\ \A i \in 1..n : J2[i] = J[i]
  OBVIOUS
<1> HIDE DEF J2, n
<1>2. \A k : /\ Kept(J2, at, n + 1, k) <=> Kept(J, at, n, k) /\ ~Cuts(r, k)
             /\ Made(J2, at, n + 1, k) <=> Adds(r, k) \/ (Made(J, at, n, k) /\ ~Cuts(r, k))
  BY <1>1, RecordMore, RecordsTaken
<1>3. /\ \A k : Made(J, at, n, k) => k \in ls
      /\ \A k \in ls : Kept(J, at, n, k) \/ Made(J, at, n, k)
      /\ \A k \in T : k \in Links /\ k.ref <= upTo
      /\ \A k \in Links : k.ref <= upTo =>
            (k \in ls <=> (k \in T /\ Kept(J, at, n, k)) \/ Made(J, at, n, k))
  BY DEF InStep, n
<1>4. \A k : k \in ls2 <=> Adds(r, k) \/ (k \in ls /\ ~Cuts(r, k))
  BY DEF Follows
<1>5. /\ \A k : Made(J2, at, n + 1, k) => k \in ls2
      /\ \A k \in ls2 : Kept(J2, at, n + 1, k) \/ Made(J2, at, n + 1, k)
      /\ \A k \in Links : k.ref <= upTo =>
            (k \in ls2 <=> (k \in T /\ Kept(J2, at, n + 1, k)) \/ Made(J2, at, n + 1, k))
  BY <1>2, <1>3, <1>4, Zenon
<1> QED BY <1>1, <1>3, <1>5 DEF InStep, J2

\* Records that are all clear are so without the last.
LEMMA OneRecordClear ==
  ASSUME NEW S, NEW J \in Seq(S), NEW r \in S, NEW at \in 0..Len(J), Clear(Append(J, r), at, Len(Append(J, r)))
  PROVE  Clear(J, at, Len(J)) /\ ~Ambiguous(r)
<1> DEFINE J2 == Append(J, r)
           n == Len(J)
<1>1. n \in Nat /\ at \in Nat /\ at <= n /\ Len(J2) = n + 1 /\ J2[n + 1] = r /\ \A i \in 1..n : J2[i] = J[i]
  OBVIOUS
<1>2. Clear(J2, at, n + 1)
  BY <1>1
<1> HIDE DEF J2, n
<1> QED BY <1>1, <1>2, RecordMore, RecordsTaken DEF n

\* The table after one call more has what the call returned as well.
LEMMA CallInStep ==
  ASSUME NEW J, NEW at, NEW ls \in SUBSET Links, NEW T, NEW from \in Nat, NEW upTo \in Nat, from <= upTo,
         InStep(J, at, ls, T, from)
  PROVE  InStep(J, at, ls, T \cup {l \in ls : l.ref > from /\ l.ref <= upTo}, upTo)
<1> DEFINE T2 == T \cup {l \in ls : l.ref > from /\ l.ref <= upTo}
           to == Len(J)
<1>1. \A k \in Links : k.ref \in Nat
  BY VolumeAssumption DEF Links
<1>2. \A k \in T2 : k \in Links /\ k.ref <= upTo
  BY <1>1 DEF InStep
<1>3. ASSUME NEW k \in Links, k.ref <= upTo
      PROVE  k \in ls <=> (k \in T2 /\ Kept(J, at, to, k)) \/ Made(J, at, to, k)
  <2>1. CASE k.ref <= from
    <3>1. k \in T2 <=> k \in T
      BY <1>1, <2>1
    <3> QED BY <2>1, <3>1 DEF InStep
  <2>2. CASE ~(k.ref <= from)
    <3>1. k \in T2 <=> k \in ls
      BY <1>1, <1>3, <2>2 DEF InStep
    <3> QED BY <3>1 DEF InStep
  <2> QED BY <2>1, <2>2
<1> HIDE DEF T2
<1> QED BY <1>2, <1>3 DEF InStep, T2

\* All references enumerated, what the replay makes of the table is the tree.
LEMMA ClosedIsTree ==
  ASSUME VolumeInv, NEW at \in 0..Len(journal), NEW T, NEW upTo, \A r \in Refs : r <= upTo,
         Clear(journal, at, Len(journal)) => InStep(journal, at, links, T, upTo),
         NEW recs \in WindowApplied(T, at, Len(journal))
  PROVE  recs = links
<1>1. journal \in Seq(JournalRecords) /\ links \subseteq Links
  BY DEF VolumeInv, IsTree
<1>2. AppliedTo(recs, T, journal, at, Len(journal))
  BY <1>1, TablesApplied DEF WindowApplied
<1>3. InStep(journal, at, links, T, upTo)
  BY <1>2 DEF AppliedTo
<1>4. \A k \in Links : k.ref <= upTo
  BY DEF Links
<1>5. \A k : k \in recs => k \in Links
  BY <1>1, <1>2, <1>3 DEF AppliedTo, InStep
<1>6. \A k \in Links : k \in recs <=> k \in links
  BY <1>2, <1>3, <1>4 DEF AppliedTo, InStep
<1> QED BY <1>1, <1>5, <1>6

\* A record that names a link that is there and says nothing of it but that it is.
LEMMA RecordOfLink ==
  ASSUME NEW ls, IsTree(ls), NEW l \in ls, NEW why, "delete" \notin why, "old" \notin why
  PROVE  Follows(ls, Rec(l, why), ls)
<1>1. /\ Rec(l, why).why = why /\ Rec(l, why).ref = l.ref /\ Rec(l, why).parent = l.parent
      /\ Rec(l, why).name = l.name /\ Rec(l, why).dir = l.dir
  BY RecFields
<1>2. l = LinkTo(l.ref, l.parent, l.name, l.dir)
  BY LinkFacts
<1>3. \A k : ~Cuts(Rec(l, why), k)
  <2>1. WindowTopology(Rec(l, why)) # {} => why \cap {"create", "new"} # {}
    BY <1>1 DEF WindowTopology
  <2> QED BY <1>1, <2>1 DEF Cuts
<1>4. \A k : Adds(Rec(l, why), k) => k = l
  BY <1>1, <1>2 DEF Adds
<1> QED BY <1>3, <1>4 DEF Follows

\* A record of a creation or a new name adds that link.
LEMMA RecordOfNew ==
  ASSUME NEW ls, NEW l \in Links, NEW why, why \cap {"create", "new"} # {}
  PROVE  Follows(ls, Rec(l, why), ls \cup {l})
<1>1. /\ Rec(l, why).why = why /\ Rec(l, why).ref = l.ref /\ Rec(l, why).parent = l.parent
      /\ Rec(l, why).name = l.name /\ Rec(l, why).dir = l.dir
  BY RecFields
<1>2. l = LinkTo(l.ref, l.parent, l.name, l.dir)
  BY DEF Links, LinkTo
<1>3. \A k : ~Cuts(Rec(l, why), k)
  BY <1>1 DEF Cuts
<1>4. \A k : Adds(Rec(l, why), k) <=> k = l
  BY <1>1, <1>2 DEF Adds
<1> QED BY <1>3, <1>4 DEF Follows

\* A record of a deletion or an old name takes that link away, and only that one.
LEMMA RecordOfOld ==
  ASSUME NEW ls, IsTree(ls), NEW l \in ls, NEW ls0, ls0 = ls \/ ls0 = ls \ {l},
         NEW why, "delete" \in why \/ "old" \in why, ~Ambiguous(Rec(l, why))
  PROVE  Follows(ls0, Rec(l, why), ls \ {l})
<1> DEFINE r == Rec(l, why)
<1>1. r.why = why /\ r.ref = l.ref /\ r.parent = l.parent /\ r.name = l.name /\ r.dir = l.dir
  BY RecFields
<1> HIDE DEF r
<1>2. WindowTopology(r) # {} /\ why \cap {"create", "new"} = {}
  <2>1. Topology(r) = WindowTopology(r)
    BY DEF Topology, WindowTopology
  <2>2. ~(Cardinality(Topology(r)) > 1)
    BY <2>1 DEF Ambiguous, r
  <2>3. ~("create" \in why /\ "delete" \in why) /\ ~("create" \in why /\ "old" \in why)
        /\ ~("new" \in why /\ "delete" \in why) /\ ~("new" \in why /\ "old" \in why)
    BY <1>1, <2>2, OneTopology
  <2>4. why \cap {"create", "new"} = {}
    BY <2>3
  <2> QED BY <1>1, <2>4 DEF WindowTopology
<1>3. \A k : ~Adds(r, k)
  BY <1>1, <1>2 DEF Adds
<1>4. ASSUME NEW k \in ls PROVE Cuts(r, k) <=> k = l
  BY <1>1, <1>2, LinkFacts DEF Cuts
<1> QED BY <1>3, <1>4 DEF Follows, r

\* A step of the volume: the records it writes, and that the tree follows them.
WritesOne(r) ==
    /\ r \in JournalRecords /\ journal' = Append(journal, r)
    /\ ~Ambiguous(r) => Follows(links, r, links')

WritesTwo(r, mid, q) ==
    /\ r \in JournalRecords /\ q \in JournalRecords
    /\ journal' = Append(Append(journal, r), q)
    /\ ~Ambiguous(r) /\ ~Ambiguous(q) => Follows(links, r, mid) /\ Follows(mid, q, links')

Recorded ==
    \/ journal' = journal /\ links' = links
    \/ \E r : WritesOne(r)
    \/ \E r, mid, q : WritesTwo(r, mid, q)

\* Every change to the volume is what its records make of the tree, or one of its
\* records is ambiguous, or the journal is another.
LEMMA WindowVolumeSteps ==
  ASSUME VolumeInv, renaming = {}, Touch \/ MoveWhole
  PROVE  /\ VolumeInv' /\ renaming' = {}
         /\ \/ journalId = 1 /\ journalId' = 2
            \/ journalId' = journalId /\ Recorded
<1>0. /\ journal \in Seq(JournalRecords) /\ IsTree(links) /\ links \subseteq Links
      /\ \A l \in links : l \in Links
  BY DEF VolumeInv, IsTree
<1> DEFINE Fine == VolumeInv' /\ renaming' = {} /\ journalId' = journalId /\ Recorded
<1>1. ASSUME NEW r \in Refs, NEW p \in Refs \cup {Root}, NEW n \in Names, NEW d \in BOOLEAN,
             CreateFile(r, p, n, d)
      PROVE  Fine
  <2> DEFINE l == LinkTo(r, p, n, d)
  <2>1. /\ l \in Links /\ links' = links \cup {l} /\ UNCHANGED renaming /\ VolumeInv'
        /\ journal' = Append(journal, Rec(l, {"create"}))
    BY <1>1, OnCreateFile
  <2>2. journalId' = journalId
    BY <1>1 DEF CreateFile
  <2> HIDE DEF l
  <2>3. Rec(l, {"create"}) \in JournalRecords
    BY <2>1, RecType DEF Whys, Kinds
  <2>4. Follows(links, Rec(l, {"create"}), links')
    BY <2>1, RecordOfNew
  <2>5. WritesOne(Rec(l, {"create"}))
    BY <2>1, <2>3, <2>4 DEF WritesOne
  <2> QED BY <2>1, <2>2, <2>5 DEF Recorded
<1>2. ASSUME NEW l \in links, Modify(l) PROVE Fine
  <2>1. /\ links' = links /\ renaming' = {} /\ VolumeInv'
        /\ \/ journal' = journal
           \/ \E why \in SUBSET Kinds : journal' = Append(journal, Rec(l, why))
    BY <1>2, OnModify
  <2>2. journalId' = journalId
    BY <1>2 DEF Modify
  <2>3. ASSUME NEW why \in SUBSET Kinds, journal' = Append(journal, Rec(l, why)) PROVE WritesOne(Rec(l, why))
    <3>1. "delete" \notin why /\ "old" \notin why /\ why \in SUBSET Whys
      BY DEF Kinds, Whys
    <3>2. Follows(links, Rec(l, why), links)
      BY <1>0, <3>1, RecordOfLink
    <3>3. Rec(l, why) \in JournalRecords
      BY <1>0, <3>1, RecType
    <3> QED BY <2>1, <2>3, <3>2, <3>3 DEF WritesOne
  <2> QED BY <2>1, <2>2, <2>3 DEF Recorded
<1>3. ASSUME NEW l \in links, CloseFile(l) PROVE Fine
  <2>1. links' = links /\ renaming' = {} /\ VolumeInv'
    BY <1>3, OnCloseFile
  <2>2. PICK why \in SUBSET (Kinds \cup {"close"}) : journal' = Append(journal, Rec(l, why))
    BY <1>3, OnCloseFile
  <2>3. journalId' = journalId
    BY <1>3 DEF CloseFile
  <2>4. "delete" \notin why /\ "old" \notin why /\ why \in SUBSET Whys
    BY DEF Kinds, Whys
  <2>5. Follows(links, Rec(l, why), links)
    BY <1>0, <2>4, RecordOfLink
  <2>6. Rec(l, why) \in JournalRecords
    BY <1>0, <2>4, RecType
  <2>7. WritesOne(Rec(l, why))
    BY <2>1, <2>2, <2>5, <2>6 DEF WritesOne
  <2> QED BY <2>1, <2>3, <2>7 DEF Recorded
<1>4. ASSUME NEW l \in links, DeleteFile(l) PROVE Fine
  <2>1. links' = links \ {l} /\ renaming' = {} /\ VolumeInv'
    BY <1>4, OnDeleteFile
  <2>2. PICK why \in SUBSET Kinds :
          \/ journal' = Append(journal, Rec(l, why \cup {"delete", "close"}))
          \/ journal' = Append(Append(journal, Rec(l, why \cup {"delete"})),
                               Rec(l, why \cup {"delete", "close"}))
    BY <1>4, OnDeleteFile
  <2>3. journalId' = journalId
    BY <1>4 DEF DeleteFile
  <2> DEFINE first == why \cup {"delete"}
             whole == why \cup {"delete", "close"}
  <2>4. /\ "delete" \in first /\ first \in SUBSET Whys
        /\ "delete" \in whole /\ whole \in SUBSET Whys
    BY DEF Whys
  <2>5. journal' = Append(journal, Rec(l, whole)) \/ journal' = Append(Append(journal, Rec(l, first)), Rec(l, whole))
    BY <2>2
  <2> HIDE DEF first, whole
  <2>6. Rec(l, first) \in JournalRecords /\ Rec(l, whole) \in JournalRecords
    BY <1>0, <2>4, RecType
  <2>7. ~Ambiguous(Rec(l, first)) => Follows(links, Rec(l, first), links \ {l})
    BY <1>0, <2>4, RecordOfOld
  <2>8. ~Ambiguous(Rec(l, whole)) => Follows(links, Rec(l, whole), links \ {l})
                                     /\ Follows(links \ {l}, Rec(l, whole), links \ {l})
    BY <1>0, <2>4, RecordOfOld
  <2>9. WritesOne(Rec(l, whole)) \/ WritesTwo(Rec(l, first), links \ {l}, Rec(l, whole))
    BY <2>1, <2>5, <2>6, <2>7, <2>8, Zenon DEF WritesOne, WritesTwo
  <2> QED BY <2>1, <2>3, <2>9 DEF Recorded
<1>5. ASSUME NEW l \in links, NEW p \in Refs \cup {Root}, NEW n \in Names, AddLink(l, p, n) PROVE Fine
  <2>1. VolumeInv'
    BY <1>5, OnAddLink
  <2>2. PICK why \in SUBSET Kinds : "link" \in why /\ journal' = Append(journal, Rec(l, why))
    BY <1>5, OnAddLink
  <2>3. journalId' = journalId /\ renaming' = {}
    BY <1>5 DEF AddLink
  <2>4. Ambiguous(Rec(l, why))
    BY <2>2, RecFields DEF Ambiguous
  <2>5. Rec(l, why) \in JournalRecords
    BY <1>0, RecType DEF Whys
  <2>6. WritesOne(Rec(l, why))
    BY <2>2, <2>4, <2>5 DEF WritesOne
  <2> QED BY <2>1, <2>3, <2>6 DEF Recorded
<1>6. ASSUME TrimJournal PROVE Fine
  BY <1>6, OnTrim DEF Recorded
<1>7. ASSUME RecreateJournal PROVE VolumeInv' /\ renaming' = {} /\ journalId = 1 /\ journalId' = 2
  BY <1>7, OnRecreate DEF RecreateJournal
<1>8. ASSUME NEW l \in links, NEW p \in Refs \cup {Root}, NEW n \in Names, RenameFile(l, p, n) PROVE Fine
  <2> DEFINE l2 == LinkTo(l.ref, p, n, l.dir)
  <2>1. links' = Renamed(links, l, p, n) /\ renaming' = {} /\ VolumeInv' /\ CanMove(l, p, n)
    BY <1>8, OnRenameFile
  <2>2. PICK why \in SUBSET Whys, how \in SUBSET Whys :
          /\ "old" \in why /\ "new" \in how
          /\ journal' = Append(Append(journal, Rec(l, why)), Rec(l2, how))
    BY <1>8, OnRenameFile
  <2>3. journalId' = journalId
    BY <1>8 DEF RenameFile
  <2>4. l2 \in Links /\ links' = (links \ {l}) \cup {l2}
    BY <2>1, OnMove DEF Renamed
  <2> HIDE DEF l2
  <2>5. Rec(l, why) \in JournalRecords /\ Rec(l2, how) \in JournalRecords
    BY <1>0, <2>4, RecType
  <2>6. ~Ambiguous(Rec(l, why)) => Follows(links, Rec(l, why), links \ {l})
    BY <1>0, <2>2, RecordOfOld
  <2>7. Follows(links \ {l}, Rec(l2, how), links')
    BY <2>2, <2>4, RecordOfNew
  <2>8. WritesTwo(Rec(l, why), links \ {l}, Rec(l2, how))
    BY <2>2, <2>5, <2>6, <2>7, Zenon DEF WritesTwo
  <2> QED BY <2>1, <2>3, <2>8 DEF Recorded
<1> QED
  <2>1. CASE Touch
    <3> HIDE DEF Fine
    <3>1. Fine \/ (VolumeInv' /\ renaming' = {} /\ journalId = 1 /\ journalId' = 2)
      BY <1>1, <1>2, <1>3, <1>4, <1>5, <1>6, <1>7, <2>1 DEF Touch
    <3> QED BY <3>1 DEF Fine
  <2>2. CASE MoveWhole
    <3> HIDE DEF Fine
    <3>1. Fine
      BY <1>8, <2>2 DEF MoveWhole
    <3> QED BY <3>1 DEF Fine
  <2> QED BY <2>1, <2>2

--------------------------------------------------------------------------------
(* The reading *)

\* While the journal is the one of the first query, the table is in step with it
\* or a record is ambiguous.
WindowInv ==
    /\ renaming = {} /\ nextRef \in Nat
    /\ window = "closed" => table = {} /\ nextRef = 0
    /\ window = "gathered" => \A r \in Refs : r <= nextRef
    /\ window # "closed" => opened.id \in Nat /\ opened.id <= journalId
    /\ window \in {"open", "gathered"} /\ opened.id = journalId =>
         /\ opened.at \in 0..Len(journal)
         /\ Clear(journal, opened.at, Len(journal)) => InStep(journal, opened.at, links, table, nextRef)
    /\ WindowIsOneMoment

\* A step of the volume and its records leave the table in step.
LEMMA RecordedInStep ==
  ASSUME VolumeInv, Recorded, NEW at \in 0..Len(journal), NEW T, NEW upTo,
         Clear(journal, at, Len(journal)) => InStep(journal, at, links, T, upTo)
  PROVE  /\ at \in 0..Len(journal')
         /\ Clear(journal', at, Len(journal')) => InStep(journal', at, links', T, upTo)
<1>0. journal \in Seq(JournalRecords)
  BY DEF VolumeInv
<1>1. CASE journal' = journal /\ links' = links
  BY <1>1
<1>2. ASSUME NEW r, WritesOne(r)
      PROVE  /\ at \in 0..Len(journal')
             /\ Clear(journal', at, Len(journal')) => InStep(journal', at, links', T, upTo)
  <2>1. r \in JournalRecords /\ journal' = Append(journal, r) /\ (~Ambiguous(r) => Follows(links, r, links'))
    BY <1>2 DEF WritesOne
  <2>2. at \in 0..Len(journal')
    BY <1>0, <2>1
  <2>3. ASSUME Clear(journal', at, Len(journal')) PROVE InStep(journal', at, links', T, upTo)
    <3>1. Clear(journal, at, Len(journal)) /\ ~Ambiguous(r)
      BY <1>0, <2>1, <2>3, OneRecordClear
    <3>2. InStep(Append(journal, r), at, links', T, upTo)
      BY <1>0, <2>1, <3>1, OneRecordInStep
    <3> QED BY <2>1, <3>2
  <2> QED BY <2>2, <2>3
<1>3. ASSUME NEW r, NEW mid, NEW q, WritesTwo(r, mid, q)
      PROVE  /\ at \in 0..Len(journal')
             /\ Clear(journal', at, Len(journal')) => InStep(journal', at, links', T, upTo)
  <2> DEFINE J == Append(journal, r)
  <2>1. /\ r \in JournalRecords /\ q \in JournalRecords /\ journal' = Append(J, q)
        /\ ~Ambiguous(r) /\ ~Ambiguous(q) => Follows(links, r, mid) /\ Follows(mid, q, links')
    BY <1>3 DEF WritesTwo
  <2>2. J \in Seq(JournalRecords) /\ at \in 0..Len(J)
    BY <1>0, <2>1
  <2>3. at \in 0..Len(journal')
    <3> HIDE DEF J
    <3> QED BY <2>1, <2>2
  <2>4. ASSUME Clear(journal', at, Len(journal')) PROVE InStep(journal', at, links', T, upTo)
    <3>1. Clear(J, at, Len(J)) /\ ~Ambiguous(q)
      <4> HIDE DEF J
      <4> QED BY <2>1, <2>2, <2>4, OneRecordClear
    <3>2. Clear(journal, at, Len(journal)) /\ ~Ambiguous(r)
      BY <1>0, <2>1, <3>1, OneRecordClear
    <3>3. InStep(J, at, mid, T, upTo)
      BY <1>0, <2>1, <3>1, <3>2, OneRecordInStep
    <3>4. InStep(Append(J, q), at, links', T, upTo)
      <4>1. Follows(mid, q, links')
        BY <2>1, <3>1, <3>2
      <4> HIDE DEF J
      <4> QED BY <2>1, <2>2, <3>3, <4>1, OneRecordInStep
    <3> QED BY <2>1, <3>4
  <2> QED BY <2>3, <2>4
<1> QED BY <1>1, <1>2, <1>3 DEF Recorded

\* No window is open at first.
LEMMA WindowStarts == ASSUME WindowInit PROVE VolumeInv /\ WindowInv
<1>1. VolumeInv
  BY VolumeStarts DEF WindowInit
<1> QED BY <1>1 DEF WindowInit, VolumeInit, WindowInv, WindowIsOneMoment

\* Whatever is done to the volume in the window leaves the table in step.
LEMMA VolumeInWindow ==
  ASSUME VolumeInv, WindowInv, WindowStillOpen, Touch \/ MoveWhole, UNCHANGED windowReader
  PROVE  VolumeInv' /\ WindowInv'
<1>1. /\ VolumeInv' /\ renaming' = {}
      /\ (journalId = 1 /\ journalId' = 2) \/ (journalId' = journalId /\ Recorded)
  BY WindowVolumeSteps DEF WindowInv
<1>2. UNCHANGED <<window, opened, nextRef, table, seed>> /\ window \in {"closed", "open", "gathered"}
  BY DEF windowReader, WindowStillOpen
<1>3. WindowIsOneMoment'
  BY <1>2 DEF WindowIsOneMoment
<1>4. window # "closed" => opened.id \in Nat /\ opened.id <= journalId
  BY DEF WindowInv
<1>5. CASE journalId = 1 /\ journalId' = 2
  BY <1>1, <1>2, <1>3, <1>4, <1>5 DEF WindowInv
<1>6. CASE journalId' = journalId /\ Recorded
  <2>1. ASSUME window \in {"open", "gathered"}, opened.id = journalId
        PROVE  /\ opened.at \in 0..Len(journal')
               /\ Clear(journal', opened.at, Len(journal')) =>
                    InStep(journal', opened.at, links', table, nextRef)
    <3>1. /\ opened.at \in 0..Len(journal)
          /\ Clear(journal, opened.at, Len(journal)) => InStep(journal, opened.at, links, table, nextRef)
      BY <2>1 DEF WindowInv
    <3> QED BY <1>6, <3>1, RecordedInStep
  <2> QED BY <1>1, <1>2, <1>3, <1>4, <1>6, <2>1 DEF WindowInv
<1> QED BY <1>1, <1>5, <1>6

\* The first query.
LEMMA OpenKeeps == ASSUME VolumeInv, WindowInv, OpenWindow, UNCHANGED volume PROVE WindowInv'
<1>1. /\ UNCHANGED <<nextRef, table, seed, links, journal, journalId, renaming>>
      /\ window = "closed" /\ window' = "open" /\ opened' = [id |-> journalId, at |-> Len(journal)]
  BY DEF OpenWindow, volume
<1>2. table = {} /\ nextRef = 0 /\ renaming = {}
  BY <1>1 DEF WindowInv
<1>3. opened'.id = journalId /\ opened'.at = Len(journal) /\ journalId \in Nat
  BY <1>1 DEF VolumeInv
<1>4. journal \in Seq(JournalRecords) /\ links \subseteq Links
  BY DEF VolumeInv, IsTree
<1>5. InStep(journal, Len(journal), links, {}, 0) /\ Len(journal) \in 0..Len(journal)
  BY <1>4, WindowOpens
<1>6. WindowIsOneMoment'
  BY <1>1 DEF WindowIsOneMoment
<1>7. InStep(journal', opened'.at, links', table', nextRef') /\ opened'.at \in 0..Len(journal')
  BY <1>1, <1>2, <1>3, <1>5
<1> QED BY <1>1, <1>2, <1>3, <1>6, <1>7 DEF WindowInv

\* A call of the enumeration returns links as they are then, whatever was
\* gathered before is of another moment.
LEMMA CallKeeps == ASSUME VolumeInv, WindowInv, EnumerateCall, UNCHANGED volume PROVE WindowInv'
<1>1. /\ UNCHANGED <<window, opened, seed, links, journal, journalId, renaming>> /\ window = "open"
  BY DEF EnumerateCall, volume
<1>2. PICK upTo \in Refs :
         /\ upTo > nextRef /\ nextRef' = upTo
         /\ table' = table \cup {l \in links : l.ref > nextRef /\ l.ref <= upTo}
  BY DEF EnumerateCall
<1>3. nextRef \in Nat /\ upTo \in Nat /\ nextRef <= upTo
  BY <1>2, VolumeAssumption DEF WindowInv
<1>4. links \subseteq Links
  BY DEF VolumeInv, IsTree
<1>5. ASSUME InStep(journal, opened.at, links, table, nextRef)
      PROVE  InStep(journal', opened'.at, links', table', nextRef')
  BY <1>1, <1>2, <1>3, <1>4, <1>5, CallInStep
<1>6. WindowIsOneMoment'
  BY <1>1 DEF WindowIsOneMoment
<1> QED BY <1>1, <1>2, <1>3, <1>5, <1>6 DEF WindowInv

\* The last call has returned.
LEMMA GatheredKeeps == ASSUME VolumeInv, WindowInv, Gathered, UNCHANGED volume PROVE WindowInv'
<1>1. /\ UNCHANGED <<opened, nextRef, table, seed, links, journal, journalId, renaming>>
      /\ window = "open" /\ \A r \in Refs : r <= nextRef
      /\ window' = "gathered" \/ window' = "failed"
  BY DEF Gathered, volume
<1>2. WindowIsOneMoment'
  BY <1>1 DEF WindowIsOneMoment
<1> QED BY <1>1, <1>2 DEF WindowInv

\* The second query: the records between make the table the tree of that moment.
LEMMA CloseWindowKeeps == ASSUME VolumeInv, WindowInv, CloseWindow, UNCHANGED volume PROVE WindowInv'
<1>1. /\ UNCHANGED <<opened, nextRef, links, journal, journalId, renaming>>
      /\ window = "gathered" /\ window' = "read"
  BY DEF CloseWindow, volume
<1>2. PICK recs \in Closed :
         seed' = [id |-> journalId, next |-> Len(journal), entries |-> Entries(recs)]
  BY DEF CloseWindow
<1>3. opened.id = journalId /\ recs \in WindowApplied(table, opened.at, Len(journal))
  BY <1>2 DEF Closed, WindowHolds
<1>4. /\ opened.at \in 0..Len(journal) /\ \A r \in Refs : r <= nextRef
      /\ Clear(journal, opened.at, Len(journal)) => InStep(journal, opened.at, links, table, nextRef)
  BY <1>1, <1>3 DEF WindowInv
<1>5. recs = links
  BY <1>3, <1>4, ClosedIsTree
<1>6. IsTree(links)
  BY DEF VolumeInv
<1>7. seed'.entries = {[link |-> l, path |-> PathOf(links, l)] : l \in links}
  BY <1>2, <1>5, <1>6, EntriesOfTree
<1>8. WindowIsOneMoment'
  BY <1>1, <1>7 DEF WindowIsOneMoment
<1> QED BY <1>1, <1>8 DEF WindowInv

\* A reading that is given up promises nothing.
LEMMA FailKeeps == ASSUME VolumeInv, WindowInv, WindowFails, UNCHANGED volume PROVE WindowInv'
<1>1. /\ UNCHANGED <<opened, nextRef, table, seed, links, journal, journalId, renaming>>
      /\ window = "gathered" /\ window' = "failed"
  BY DEF WindowFails, volume
<1>2. WindowIsOneMoment'
  BY <1>1 DEF WindowIsOneMoment
<1> QED BY <1>1, <1>2 DEF WindowInv

\* Every step keeps the invariant of the volume and that of the window.
LEMMA WindowKeeps ==
  ASSUME VolumeInv /\ WindowInv, [WindowNext]_windowVars PROVE VolumeInv' /\ WindowInv'
<1>1. ASSUME UNCHANGED volume PROVE VolumeInv'
  BY <1>1 DEF VolumeInv, volume
<1>2. CASE WindowStillOpen /\ (Touch \/ MoveWhole) /\ UNCHANGED windowReader
  BY <1>2, VolumeInWindow
<1>3. CASE (OpenWindow \/ EnumerateCall \/ Gathered \/ CloseWindow \/ WindowFails) /\ UNCHANGED volume
  BY <1>1, <1>3, OpenKeeps, CallKeeps, GatheredKeeps, CloseWindowKeeps, FailKeeps
<1>4. CASE UNCHANGED windowVars
  <2>1. UNCHANGED <<volume, window, opened, nextRef, table, seed>>
    BY <1>4 DEF windowVars, windowReader
  <2>2. UNCHANGED <<links, journal, journalId, renaming>>
    BY <2>1 DEF volume
  <2>3. WindowInv'
    BY <2>1, <2>2 DEF WindowInv, WindowIsOneMoment
  <2> QED BY <1>1, <2>1, <2>3
<1> QED BY <1>2, <1>3, <1>4 DEF WindowNext

\* WindowIsOneMoment, for any tree, names, number of calls and length of the journal:
\* what enumerate_volume_root and the records between its two queries yield is exactly
\* the tree at the second query, each link under its path, though no call of the
\* enumeration saw that tree.
THEOREM WindowOfOneMoment == WindowSpec => []WindowIsOneMoment
<1>1. WindowInit => VolumeInv /\ WindowInv
  BY WindowStarts
<1>2. (VolumeInv /\ WindowInv) /\ [WindowNext]_windowVars => (VolumeInv /\ WindowInv)'
  BY WindowKeeps
<1>3. VolumeInv /\ WindowInv => WindowIsOneMoment
  BY DEF WindowInv
<1> QED BY <1>1, <1>2, <1>3, PTL DEF WindowSpec
================================================================================
