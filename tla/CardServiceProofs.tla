------------------------- MODULE CardServiceProofs -------------------------
(***************************************************************************)
(* The card stays a tree, a rename moves what was named, no session claims *)
(* an activity that is over, an acknowledged upload is whole and the media *)
(* screen knows when it is stale: for any names, any depth of folders, any *)
(* number of sessions and commands, and whatever fails.                    *)
(***************************************************************************)
EXTENDS CardService, SequenceTheorems, TLAPS

(***************************************************************************)
(* Paths as sequences.                                                     *)
(***************************************************************************)
LEMMA PathIsSeq ==
  ASSUME NEW p \in Paths
  PROVE  p \in Seq(Names) /\ Len(p) \in 0 .. PathMax
  <1>1. PICK n \in 0 .. PathMax : p \in [1 .. n -> Names]
    BY DEF Paths
  <1>. QED BY <1>1, CardAssumption

LEMMA SeqIsPath ==
  ASSUME NEW p \in Seq(Names), Len(p) <= PathMax
  PROVE  p \in Paths
  <1>1. Len(p) \in 0 .. PathMax /\ p \in [1 .. Len(p) -> Names]
    BY CardAssumption, LenProperties
  <1>. QED BY <1>1 DEF Paths

LEMMA RootIsPath == Root \in Paths /\ Len(Root) = 0
  <1>1. << >> \in Seq(Names) /\ Len(<< >>) = 0
    BY EmptySeq
  <1>2. 0 <= PathMax
    BY CardAssumption
  <1>. QED BY <1>1, <1>2, SeqIsPath DEF Root

LEMMA OnlyRootIsEmpty ==
  ASSUME NEW p \in Paths, Len(p) = 0
  PROVE  p = Root
  BY PathIsSeq, EmptySeq DEF Root

LEMMA PathEqual ==
  ASSUME NEW p \in Paths, NEW q \in Paths, Len(p) = Len(q),
         \A i \in 1 .. Len(p) : p[i] = q[i]
  PROVE  p = q
  BY PathIsSeq, SeqEqual

(* One path is a prefix of another when they agree on the shorter one.     *)
LEMMA PrefixAgrees ==
  ASSUME NEW p \in Paths, NEW q \in Paths
  PROVE  IsPrefix(p, q) <=>
           Len(p) <= Len(q) /\ \A i \in 1 .. Len(p) : p[i] = q[i]
  <1>1. p \in Seq(Names) /\ q \in Seq(Names) /\ Len(p) \in Nat /\ Len(q) \in Nat
    BY PathIsSeq
  <1>2. \A i \in 1 .. Len(p) : p[i] \in Names
    BY <1>1, ElementOfSeq
  <1>3. SubSeq(p, 1, Len(p)) = p
    BY <1>1, SubSeqFull
  <1>4. ASSUME Len(p) <= Len(q)
        PROVE  SubSeq(q, 1, Len(p)) = p <=> \A i \in 1 .. Len(p) : p[i] = q[i]
    <2>1. \A i \in 1 .. Len(p) : q[i] \in Names
      BY <1>1, <1>4, ElementOfSeq
    <2>2. /\ SubSeq(q, 1, Len(p)) \in Seq(Names)
          /\ Len(SubSeq(q, 1, Len(p))) = Len(p)
          /\ \A i \in 1 .. Len(p) : SubSeq(q, 1, Len(p))[i] = q[i]
      BY <1>1, <2>1, SubSeqProperties
    <2>. QED BY <1>1, <2>2, SeqEqual
  <1>. QED BY <1>3, <1>4 DEF IsPrefix

(* The first so many components of a path are a path.                      *)
LEMMA CutIsPath ==
  ASSUME NEW p \in Paths, NEW n \in 0 .. Len(p)
  PROVE  /\ SubSeq(p, 1, n) \in Paths /\ Len(SubSeq(p, 1, n)) = n
         /\ \A i \in 1 .. n : SubSeq(p, 1, n)[i] = p[i]
  <1>1. p \in Seq(Names) /\ Len(p) \in 0 .. PathMax /\ PathMax \in Nat
    BY PathIsSeq, CardAssumption
  <1>2. n \in Nat /\ n <= PathMax
    BY <1>1
  <1>3. \A i \in 1 .. n : p[i] \in Names
    BY <1>1, ElementOfSeq
  <1>4. /\ SubSeq(p, 1, n) \in Seq(Names)
        /\ Len(SubSeq(p, 1, n)) = IF 1 <= n THEN n - 1 + 1 ELSE 0
        /\ \A i \in 1 .. n - 1 + 1 : SubSeq(p, 1, n)[i] = p[1 + i - 1]
    BY <1>2, <1>3, SubSeqProperties
  <1>5. Len(SubSeq(p, 1, n)) = n
    BY <1>2, <1>4
  <1>6. \A i \in 1 .. n : SubSeq(p, 1, n)[i] = p[i]
    BY <1>2, <1>4
  <1>7. SubSeq(p, 1, n) \in Paths
    BY <1>2, <1>4, <1>5, SeqIsPath
  <1>. QED BY <1>5, <1>6, <1>7

LEMMA ParentOfPath ==
  ASSUME NEW p \in Paths, p # Root
  PROVE  /\ Parent(p) \in Paths /\ Len(p) \in 1 .. PathMax
         /\ Len(Parent(p)) = Len(p) - 1
         /\ \A i \in 1 .. Len(p) - 1 : Parent(p)[i] = p[i]
  <1>1. Len(p) \in 1 .. PathMax
    BY PathIsSeq, OnlyRootIsEmpty, CardAssumption
  <1>2. Len(p) - 1 \in 0 .. Len(p)
    BY <1>1
  <1>3. Parent(p) = SubSeq(p, 1, Len(p) - 1)
    BY DEF Parent, Front
  <1>. QED BY <1>1, <1>2, <1>3, CutIsPath

(* What a rename makes of a path below the folder that moves.              *)
LEMMA MovedPath ==
  ASSUME NEW p \in Paths, NEW from \in Paths, NEW to \in Paths, IsPrefix(from, p)
  PROVE  /\ Moved(p, from, to) \in Seq(Names)
         /\ Len(Moved(p, from, to)) = Len(to) + Len(p) - Len(from)
         /\ \A i \in 1 .. Len(to) : Moved(p, from, to)[i] = to[i]
         /\ \A i \in Len(to) + 1 .. Len(to) + Len(p) - Len(from) :
              Moved(p, from, to)[i] = p[i - Len(to) + Len(from)]
  <1> DEFINE rest == SubSeq(p, Len(from) + 1, Len(p))
  <1>1. /\ p \in Seq(Names) /\ from \in Seq(Names) /\ to \in Seq(Names)
        /\ Len(p) \in Nat /\ Len(from) \in Nat /\ Len(to) \in Nat /\ Len(from) <= Len(p)
    BY PathIsSeq, PrefixAgrees
  <1>2. \A i \in Len(from) + 1 .. Len(p) : p[i] \in Names
    BY <1>1, ElementOfSeq
  <1>3. /\ rest \in Seq(Names) /\ Len(rest) = Len(p) - Len(from)
        /\ \A i \in 1 .. Len(p) - Len(from) : rest[i] = p[Len(from) + i]
    <2>1. /\ rest \in Seq(Names)
          /\ Len(rest) = IF Len(from) + 1 <= Len(p) THEN Len(p) - (Len(from) + 1) + 1 ELSE 0
          /\ \A i \in 1 .. Len(p) - (Len(from) + 1) + 1 :
                rest[i] = p[(Len(from) + 1) + i - 1]
      BY <1>1, <1>2, SubSeqProperties
    <2>. QED BY <1>1, <2>1
  <1>. HIDE DEF rest
  <1>4. /\ to \o rest \in Seq(Names) /\ Len(to \o rest) = Len(to) + Len(rest)
        /\ \A i \in 1 .. Len(to) + Len(rest) :
             (to \o rest)[i] = IF i <= Len(to) THEN to[i] ELSE rest[i - Len(to)]
    BY <1>1, <1>3, ConcatProperties
  <1>5. Moved(p, from, to) = to \o rest
    BY DEF Moved, rest
  <1>6. Len(Moved(p, from, to)) = Len(to) + Len(p) - Len(from)
    BY <1>1, <1>3, <1>4, <1>5
  <1>7. \A i \in 1 .. Len(to) : Moved(p, from, to)[i] = to[i]
    BY <1>1, <1>3, <1>4, <1>5
  <1>8. ASSUME NEW i \in Len(to) + 1 .. Len(to) + Len(p) - Len(from)
        PROVE  Moved(p, from, to)[i] = p[i - Len(to) + Len(from)]
    <2>1. i \in 1 .. Len(to) + Len(rest) /\ ~(i <= Len(to))
      BY <1>1, <1>3
    <2>2. i - Len(to) \in 1 .. Len(p) - Len(from)
      BY <1>1
    <2>3. Moved(p, from, to)[i] = rest[i - Len(to)]
      BY <1>4, <1>5, <2>1
    <2>4. rest[i - Len(to)] = p[Len(from) + (i - Len(to))]
      BY <1>3, <2>2
    <2>5. Len(from) + (i - Len(to)) = i - Len(to) + Len(from)
      BY <1>1
    <2>. QED BY <2>3, <2>4, <2>5
  <1>. QED BY <1>4, <1>5, <1>6, <1>7, <1>8

(***************************************************************************)
(* What is above a path.                                                   *)
(***************************************************************************)
LEMMA AboveIsShorter ==
  ASSUME NEW a \in Paths, NEW p \in Paths
  PROVE  IsStrictPrefix(a, p) <=>
           Len(a) < Len(p) /\ \A i \in 1 .. Len(a) : a[i] = p[i]
  <1>1. Len(a) \in Nat /\ Len(p) \in Nat
    BY PathIsSeq
  <1>2. IsPrefix(a, p) /\ Len(a) = Len(p) => a = p
    BY PrefixAgrees, PathEqual
  <1>. QED BY <1>1, <1>2, PrefixAgrees DEF IsStrictPrefix

LEMMA ParentIsAbove ==
  ASSUME NEW p \in Paths, p # Root
  PROVE  Parent(p) \in Paths /\ IsStrictPrefix(Parent(p), p)
  BY ParentOfPath, AboveIsShorter

LEMMA AboveAndParent ==
  ASSUME NEW a \in Paths, NEW p \in Paths, IsStrictPrefix(a, p)
  PROVE  /\ p # Root /\ Parent(p) \in Paths
         /\ a = Parent(p) \/ IsStrictPrefix(a, Parent(p))
  <1>1. Len(a) < Len(p) /\ Len(a) \in Nat /\ Len(p) \in Nat
        /\ \A i \in 1 .. Len(a) : a[i] = p[i]
    BY AboveIsShorter, PathIsSeq
  <1>2. p # Root
    BY <1>1, RootIsPath
  <1>3. /\ Parent(p) \in Paths /\ Len(Parent(p)) = Len(p) - 1
        /\ \A i \in 1 .. Len(p) - 1 : Parent(p)[i] = p[i]
    BY <1>2, ParentOfPath
  <1>4. \A i \in 1 .. Len(a) : a[i] = Parent(p)[i]
    BY <1>1, <1>3
  <1>5. ASSUME Len(a) = Len(p) - 1 PROVE a = Parent(p)
    <2>1. Len(a) = Len(Parent(p))
      BY <1>3, <1>5
    <2>. QED BY <1>3, <1>4, <2>1, PathEqual
  <1>6. ASSUME Len(a) < Len(p) - 1 PROVE IsStrictPrefix(a, Parent(p))
    <2>1. Len(a) < Len(Parent(p))
      BY <1>3, <1>6
    <2>. QED BY <1>3, <1>4, <2>1, AboveIsShorter
  <1>7. Len(a) = Len(p) - 1 \/ Len(a) < Len(p) - 1
    BY <1>1
  <1>. QED BY <1>2, <1>3, <1>5, <1>6, <1>7

(* The path just below a folder on the way to something deeper in it.      *)
LEMMA StepBelow ==
  ASSUME NEW a \in Paths, NEW p \in Paths, IsStrictPrefix(a, p)
  PROVE  \E child \in Paths : /\ child # Root /\ Parent(child) = a
                              /\ child = p \/ IsStrictPrefix(child, p)
  <1>1. Len(a) < Len(p) /\ Len(a) \in Nat /\ Len(p) \in Nat
        /\ \A i \in 1 .. Len(a) : a[i] = p[i]
    BY AboveIsShorter, PathIsSeq
  <1> DEFINE child == SubSeq(p, 1, Len(a) + 1)
  <1>2. Len(a) + 1 \in 0 .. Len(p)
    BY <1>1
  <1>3. /\ child \in Paths /\ Len(child) = Len(a) + 1
        /\ \A i \in 1 .. Len(a) + 1 : child[i] = p[i]
    BY <1>2, CutIsPath
  <1> HIDE DEF child
  <1>4. child # Root
    BY <1>1, <1>3, RootIsPath
  <1>5. /\ Parent(child) \in Paths /\ Len(Parent(child)) = Len(child) - 1
        /\ \A i \in 1 .. Len(child) - 1 : Parent(child)[i] = child[i]
    BY <1>3, <1>4, ParentOfPath
  <1>6. Len(Parent(child)) = Len(a) /\ \A i \in 1 .. Len(a) : Parent(child)[i] = a[i]
    BY <1>1, <1>3, <1>5
  <1>7. Parent(child) = a
    BY <1>5, <1>6, PathEqual
  <1>8. CASE Len(child) = Len(p)
    BY <1>3, <1>8, PathEqual, <1>4, <1>7
  <1>9. CASE Len(child) < Len(p)
    BY <1>3, <1>9, AboveIsShorter, <1>4, <1>7
  <1>. QED BY <1>1, <1>3, <1>8, <1>9

(***************************************************************************)
(* The card's operations keep it a tree.                                   *)
(***************************************************************************)
Cards == [Paths -> Entries]

LEMMA TreeHasParents ==
  ASSUME NEW c \in Cards, IsTree(c), NEW p \in Paths, Exists(c, p)
  PROVE  IsFolder(c, Parent(p))
  <1>1. CASE p = Root
    BY <1>1 DEF IsTree, Parent
  <1>2. CASE p # Root
    BY <1>2, ParentIsAbove DEF IsTree
  <1>. QED BY <1>1, <1>2

(* One entry is written, into a folder that is there, and no folder turns  *)
(* into a file by it.                                                      *)
LEMMA WriteKeepsTree ==
  ASSUME NEW c \in Cards, IsTree(c), NEW p \in Paths, NEW e \in Entries,
         p = Root => IsFolder(c, p), p # Root => IsFolder(c, Parent(p)),
         IsFolder(c, p) => e.kind = "folder", e.kind # "none"
  PROVE  [c EXCEPT ![p] = e] \in Cards /\ IsTree([c EXCEPT ![p] = e])
  <1> DEFINE d == [c EXCEPT ![p] = e]
  <1>1. d \in Cards /\ d[p] = e /\ \A q \in Paths : q # p => d[q] = c[q]
    BY DEF Cards
  <1> HIDE DEF d
  <1>2. \A q \in Paths : IsFolder(c, q) => IsFolder(d, q)
    BY <1>1 DEF IsFolder
  <1>3. IsFolder(d, Root)
    BY <1>2, RootIsPath DEF IsTree
  <1>4. ASSUME NEW q \in Paths, NEW a \in Paths, IsStrictPrefix(a, q), Exists(d, q)
        PROVE  IsFolder(d, a)
    <2>1. CASE q # p
      BY <1>1, <1>2, <1>4, <2>1 DEF Exists, IsTree
    <2>2. CASE q = p
      <3>1. p # Root /\ Parent(p) \in Paths /\ (a = Parent(p) \/ IsStrictPrefix(a, Parent(p)))
        BY <1>4, <2>2, AboveAndParent
      <3>2. IsFolder(c, Parent(p)) /\ Exists(c, Parent(p))
        BY <3>1 DEF IsFolder, Exists
      <3>3. IsFolder(c, a)
        BY <3>1, <3>2 DEF IsTree
      <3>. QED BY <1>2, <3>3
    <2>. QED BY <2>1, <2>2
  <1>5. IsTree(d)
    BY <1>3, <1>4 DEF IsTree
  <1>. QED BY <1>1, <1>5 DEF d

(* One entry is removed, with nothing in it.                               *)
LEMMA RemoveKeepsTree ==
  ASSUME NEW c \in Cards, IsTree(c), NEW p \in Paths, p # Root, IsEmpty(c, p)
  PROVE  [c EXCEPT ![p] = Nothing] \in Cards /\ IsTree([c EXCEPT ![p] = Nothing])
  <1> DEFINE d == [c EXCEPT ![p] = Nothing]
  <1>0. Nothing \in Entries /\ Nothing.kind = "none"
    BY DEF Nothing, Entries
  <1>1. d \in Cards /\ d[p] = Nothing /\ \A q \in Paths : q # p => d[q] = c[q]
    BY <1>0 DEF Cards
  <1> HIDE DEF d
  <1>2. IsFolder(d, Root)
    BY <1>1, RootIsPath DEF IsTree, IsFolder
  <1>3. ASSUME NEW q \in Paths, NEW a \in Paths, IsStrictPrefix(a, q), Exists(d, q)
        PROVE  IsFolder(d, a)
    <2>1. q # p /\ Exists(c, q)
      BY <1>0, <1>1, <1>3 DEF Exists
    <2>2. IsFolder(c, a)
      BY <1>3, <2>1 DEF IsTree
    <2>3. a # p
      <3> SUFFICES ASSUME a = p PROVE FALSE
        OBVIOUS
      <3>1. PICK child \in Paths : /\ child # Root /\ Parent(child) = p
                                   /\ child = q \/ IsStrictPrefix(child, q)
        BY <1>3, StepBelow
      <3>2. Exists(c, child)
        BY <2>1, <3>1 DEF IsTree, IsFolder, Exists
      <3>. QED BY <3>1, <3>2 DEF IsEmpty
    <2>. QED BY <1>1, <2>2, <2>3 DEF IsFolder
  <1>4. IsTree(d)
    BY <1>2, <1>3 DEF IsTree
  <1>. QED BY <1>1, <1>4 DEF d

LEMMA FileIsEmpty ==
  ASSUME NEW c \in Cards, IsTree(c), NEW p \in Paths, IsFile(c, p)
  PROVE  IsEmpty(c, p)
  BY TreeHasParents DEF IsEmpty, IsFile, IsFolder

(***************************************************************************)
(* A rename.  What is seen at a path afterwards was seen at one path       *)
(* before: its own, or the one it had below the folder that moved.         *)
(***************************************************************************)
LEMMA RenameKeepsTree ==
  ASSUME NEW c \in Cards, IsTree(c), NEW from \in Paths, NEW to \in Paths,
         CanRename(c, from, to)
  PROVE  Rename(c, from, to) \in Cards /\ IsTree(Rename(c, from, to))
  <1> DEFINE d == Rename(c, from, to)
  <1>0. Nothing \in Entries /\ Nothing.kind = "none"
    BY DEF Nothing, Entries
  <1>1. d \in Cards
    BY <1>0 DEF Rename, Cards
  <1>2. \A q \in Paths :
          d[q] = IF IsPrefix(from, q) THEN Nothing
                 ELSE IF IsPrefix(to, q) /\ Moved(q, to, from) \in Paths
                      THEN c[Moved(q, to, from)] ELSE c[q]
    BY DEF Rename, IsWithin
  <1> HIDE DEF d
  <1>3. /\ from # Root /\ to # Root /\ Exists(c, from) /\ ~Exists(c, to)
        /\ IsFolder(c, Parent(to)) /\ ~IsPrefix(from, to)
    BY DEF CanRename, IsWithin
  <1>4. Len(from) \in Nat /\ Len(to) \in Nat /\ Len(from) > 0 /\ Len(to) > 0
        /\ Parent(to) \in Paths
    BY <1>3, PathIsSeq, OnlyRootIsEmpty, ParentOfPath
  \* A folder of c that neither rename end is above stays where it is.
  <1>5. ASSUME NEW a \in Paths, IsFolder(c, a), ~IsPrefix(from, a), ~IsPrefix(to, a)
        PROVE  IsFolder(d, a)
    BY <1>2, <1>5 DEF IsFolder
  <1>6. IsFolder(d, Root)
    <2>1. ~IsPrefix(from, Root) /\ ~IsPrefix(to, Root)
      BY <1>4, RootIsPath, PrefixAgrees
    <2>. QED BY <2>1, <1>5, RootIsPath DEF IsTree
  <1>7. ASSUME NEW q \in Paths, NEW a \in Paths, IsStrictPrefix(a, q), Exists(d, q)
        PROVE  IsFolder(d, a)
    <2>1. /\ Len(a) \in Nat /\ Len(q) \in Nat /\ Len(a) < Len(q)
          /\ \A i \in 1 .. Len(a) : a[i] = q[i]
      BY <1>7, AboveIsShorter, PathIsSeq
    <2>2. ~IsPrefix(from, q)
      BY <1>0, <1>2, <1>7 DEF Exists
    <2>3. ASSUME NEW r \in Paths, IsPrefix(r, a) PROVE IsPrefix(r, q)
      <3>1. Len(r) \in Nat /\ Len(r) <= Len(a) /\ \A i \in 1 .. Len(r) : r[i] = a[i]
        BY <2>3, PrefixAgrees, PathIsSeq
      <3>2. Len(r) <= Len(q) /\ \A i \in 1 .. Len(r) : r[i] = q[i]
        BY <2>1, <3>1
      <3>. QED BY <3>2, PrefixAgrees
    <2>4. ~IsPrefix(from, a)
      BY <2>2, <2>3
    <2>5. CASE IsPrefix(to, q) /\ Moved(q, to, from) \in Paths
      <3> DEFINE old == Moved(q, to, from)
      <3>1. Exists(c, old)
        BY <1>2, <1>7, <2>2, <2>5 DEF Exists
      <3>2. /\ Len(to) <= Len(q) /\ \A i \in 1 .. Len(to) : to[i] = q[i]
        BY <2>5, PrefixAgrees
      <3>3. /\ Len(old) = Len(from) + Len(q) - Len(to)
            /\ \A i \in 1 .. Len(from) : old[i] = from[i]
            /\ \A i \in Len(from) + 1 .. Len(from) + Len(q) - Len(to) :
                 old[i] = q[i - Len(from) + Len(to)]
        BY <2>5, MovedPath
      <3>4. CASE Len(a) < Len(to)
        <4>1. ~IsPrefix(to, a)
          BY <1>4, <2>1, <3>4, PrefixAgrees
        <4>2. \A i \in 1 .. Len(a) : a[i] = to[i]
          BY <1>4, <2>1, <3>2, <3>4
        <4>3. IsStrictPrefix(a, to)
          BY <3>4, <4>2, AboveIsShorter
        <4>4. a = Parent(to) \/ IsStrictPrefix(a, Parent(to))
          BY <4>3, AboveAndParent
        <4>5. Exists(c, Parent(to))
          BY <1>3 DEF IsFolder, Exists
        <4>6. IsFolder(c, a)
          BY <1>3, <1>4, <4>4, <4>5 DEF IsTree
        <4>. QED BY <1>5, <2>4, <4>1, <4>6
      <3>5. CASE Len(a) >= Len(to)
        <4> DEFINE was == Moved(a, to, from)
        <4>1. IsPrefix(to, a)
          <5>1. \A i \in 1 .. Len(to) : to[i] = a[i]
            BY <1>4, <2>1, <3>2, <3>5
          <5>. QED BY <1>4, <2>1, <3>5, <5>1, PrefixAgrees
        <4>2. /\ was \in Seq(Names)
              /\ Len(was) = Len(from) + Len(a) - Len(to)
              /\ \A i \in 1 .. Len(from) : was[i] = from[i]
              /\ \A i \in Len(from) + 1 .. Len(from) + Len(a) - Len(to) :
                   was[i] = a[i - Len(from) + Len(to)]
          BY <4>1, MovedPath
        <4>3. Len(old) \in 0 .. PathMax /\ PathMax \in Nat
          BY <2>5, PathIsSeq, CardAssumption
        <4> HIDE DEF was, old
        <4>4. Len(was) < Len(old) /\ Len(was) <= PathMax
          BY <1>4, <2>1, <3>3, <4>2, <4>3
        <4>5. was \in Paths
          BY <4>2, <4>4, SeqIsPath
        <4>6. ASSUME NEW i \in 1 .. Len(was) PROVE was[i] = old[i]
          <5>1. CASE i <= Len(from)
            BY <1>4, <3>3, <4>2, <5>1
          <5>2. CASE i > Len(from)
            <6>1. i \in Len(from) + 1 .. Len(from) + Len(a) - Len(to)
              BY <1>4, <2>1, <4>2, <5>2
            <6>2. i \in Len(from) + 1 .. Len(from) + Len(q) - Len(to)
              BY <1>4, <2>1, <6>1
            <6>3. i - Len(from) + Len(to) \in 1 .. Len(a)
              BY <1>4, <2>1, <6>1
            <6>. QED BY <2>1, <3>3, <4>2, <6>1, <6>2, <6>3
          <5>. QED BY <1>4, <4>2, <5>1, <5>2
        <4>7. IsStrictPrefix(was, old)
          BY <2>5, <4>4, <4>5, <4>6, AboveIsShorter DEF old
        <4>8. IsFolder(c, was)
          BY <2>5, <3>1, <4>5, <4>7 DEF IsTree, old
        <4>9. d[a] = c[was]
          BY <1>2, <2>4, <4>1, <4>5 DEF was
        <4>. QED BY <4>8, <4>9 DEF IsFolder
      <3>. QED BY <1>4, <2>1, <3>4, <3>5
    <2>6. CASE ~(IsPrefix(to, q) /\ Moved(q, to, from) \in Paths)
      <3>1. Exists(c, q)
        BY <1>2, <1>7, <2>2, <2>6 DEF Exists
      <3>2. ~IsPrefix(to, q)
        BY <1>3, <3>1 DEF IsTree, IsStrictPrefix, IsFolder, Exists
      <3>3. ~IsPrefix(to, a)
        BY <2>3, <3>2
      <3>4. IsFolder(c, a)
        BY <1>7, <3>1 DEF IsTree
      <3>. QED BY <1>5, <2>4, <3>3, <3>4
    <2>. QED BY <2>5, <2>6
  <1>8. IsTree(d)
    BY <1>6, <1>7 DEF IsTree
  <1>. QED BY <1>1, <1>8 DEF d

(***************************************************************************)
(* The inductive invariant, in the parts the steps disturb separately.     *)
(***************************************************************************)
Verbs == {request.verb : request \in Requests} \cup {"NOOP"}

ServerShape ==
  /\ mounted \in BOOLEAN
  /\ server \in [running : BOOLEAN, stopping : BOOLEAN, listening : BOOLEAN,
                failed : BOOLEAN]
  /\ acceptor \in [pc : {"none", "loop", "accept", "claimed"}, slot : Slots]
  /\ mutations \in Nat /\ owner \in {"idle", "shut", "wait"}
  /\ spent \in [clients : Nat, commands : Nat, faults : Nat, visits : Nat,
               quits : Nat]

(* What the screen last counted has no type: no bound is known for it.  A  *)
(* stop that is under way is the job at the head.                          *)
ClockShape ==
  /\ media \in BOOLEAN
  /\ jobs \in Seq({"start", "stop", "quit"})
  /\ screen = [pc |-> screen.pc, shown |-> screen.shown, stamp |-> screen.stamp,
               counted |-> screen.counted, hadClients |-> screen.hadClients]
  /\ screen.pc \in {"none", "stamp", "list", "shown"}
  /\ silent \in BOOLEAN
  /\ owner # "idle" => Doing("stop") \/ Doing("quit")

(* A slot in itself: a task runs only in a slot that is taken, remembers   *)
(* for renaming at most what the command before named, and between         *)
(* commands has no activity.                                               *)
Sound(slot) ==
  /\ slot \in SessionTypes
  /\ ~slot.inUse => slot.pc = "none"
  /\ slot.pc # "none" => slot.renameFrom \in {Root, slot.prior}
  /\ slot.pc = "apply" =>
       /\ slot.verb \in Changing
       /\ slot.verb = "RNTO" => slot.from # Root /\ slot.from = slot.prior
  /\ slot.pc = "discard" => slot.verb = "STOR"
  /\ slot.pc \in {"loop", "recv", "close"} => slot.activity = "idle"

Sessions == session \in [Slots -> SessionTypes] /\ \A s \in Slots : Sound(session[s])

(* Between its claim and its task a slot is as claim_session left it.      *)
Claimed ==
  acceptor.pc = "claimed" =>
    /\ session[acceptor.slot].pc = "none" /\ session[acceptor.slot].inUse
    /\ session[acceptor.slot].renameFrom = Root
    /\ session[acceptor.slot].activity = "idle"

StampIsPast ==
  screen.pc \in {"list", "shown"} => screen.stamp \in Nat /\ screen.stamp <= mutations

Base == ServerShape /\ ClockShape /\ Sessions /\ Claimed

CardIsTree == card \in Cards /\ IsTree(card)

IInv == Base /\ CardIsTree /\ AcknowledgedIsWhole /\ StampIsPast /\ StaleIsKnown

LEMMA SlotsAreNats == Slots \subseteq Nat /\ 0 \in Slots
  <1>1. MaxSessions \in Nat /\ MaxSessions # 0
    BY FtpAssumption DEF FtpAssumption
  <1>. QED BY <1>1 DEF Slots

LEMMA SetKeepsSessions ==
  ASSUME Sessions, NEW s \in Slots, NEW new, Sound(new), Set(s, new)
  PROVE  /\ Sessions' /\ session'[s] = new
         /\ \A t \in Slots : t # s => session'[t] = session[t]
  <1>1. new \in SessionTypes
    BY DEF Sound
  <1>2. /\ session'[s] = new /\ \A t \in Slots : t # s => session'[t] = session[t]
        /\ session' \in [Slots -> SessionTypes]
    BY <1>1 DEF Set, Sessions
  <1>3. \A t \in Slots : Sound(session'[t])
    BY <1>2 DEF Sessions
  <1>. QED BY <1>2, <1>3 DEF Sessions, Sound

(* A slot that loses its directory entry is as sound as it was.            *)
LEMMA LosesEntry ==
  ASSUME NEW slot, Sound(slot), NEW ok \in BOOLEAN
  PROVE  /\ Sound([slot EXCEPT !.ok = ok])
         /\ [slot EXCEPT !.ok = ok].pc = slot.pc /\ [slot EXCEPT !.ok = ok].ok = ok
         /\ [slot EXCEPT !.ok = ok].verb = slot.verb /\ [slot EXCEPT !.ok = ok].path = slot.path
         /\ [slot EXCEPT !.ok = ok].inUse = slot.inUse
         /\ [slot EXCEPT !.ok = ok].renameFrom = slot.renameFrom
         /\ [slot EXCEPT !.ok = ok].activity = slot.activity
  BY DEF Sound, SessionTypes

LEMMA ChangeCardKeepsSessions ==
  ASSUME Sessions, NEW s \in Slots, NEW new, Sound(new), NEW changed,
         ChangeCard(s, new, changed)
  PROVE  /\ Sessions' /\ card' = changed /\ session'[s] = new
         /\ \A t \in Slots : t # s =>
              /\ session'[t].pc = session[t].pc /\ session'[t].verb = session[t].verb
              /\ session'[t].path = session[t].path /\ session'[t].inUse = session[t].inUse
              /\ session'[t].renameFrom = session[t].renameFrom
              /\ session'[t].activity = session[t].activity
              /\ session'[t].ok => session[t].ok
              /\ session'[t].ok /\ Uploading(t) =>
                   changed[session[t].path] = card[session[t].path]
  <1> DEFINE ok(t) == session[t].ok /\ (Uploading(t) =>
                        changed[session[t].path] = card[session[t].path])
  <1>1. /\ card' = changed
        /\ session' = [t \in Slots |-> IF t = s THEN new
                                      ELSE [session[t] EXCEPT !.ok = ok(t)]]
    BY DEF ChangeCard
  <1>2. \A t \in Slots : ok(t) \in BOOLEAN
    BY DEF Sessions, Sound, SessionTypes
  <1> HIDE DEF ok
  <1>3. session'[s] = new /\ \A t \in Slots : t # s => session'[t] = [session[t] EXCEPT !.ok = ok(t)]
    BY <1>1
  <1>4. ASSUME NEW t \in Slots, t # s
        PROVE /\ Sound(session'[t])
              /\ session'[t].pc = session[t].pc /\ session'[t].verb = session[t].verb
              /\ session'[t].path = session[t].path /\ session'[t].inUse = session[t].inUse
              /\ session'[t].renameFrom = session[t].renameFrom
              /\ session'[t].activity = session[t].activity
              /\ session'[t].ok = ok(t)
    <2>1. Sound(session[t]) /\ ok(t) \in BOOLEAN
      BY <1>2 DEF Sessions
    <2>2. session'[t] = [session[t] EXCEPT !.ok = ok(t)]
      BY <1>3, <1>4
    <2>. QED BY <2>1, <2>2, LosesEntry
  <1>5. \A t \in Slots : Sound(session'[t]) /\ session'[t] \in SessionTypes
    BY <1>3, <1>4 DEF Sound
  <1>6. session' \in [Slots -> SessionTypes]
    BY <1>1, <1>5
  <1>7. Sessions'
    BY <1>5, <1>6 DEF Sessions, Sound
  <1>. QED BY <1>1, <1>3, <1>4, <1>7 DEF ok

(* A task's own step leaves the claim of the acceptor alone.               *)
LEMMA TaskKeepsClaim ==
  ASSUME Base, NEW s \in Slots, session[s].pc # "none", acceptor' = acceptor,
         \A t \in Slots : t # s =>
           /\ session'[t].pc = session[t].pc /\ session'[t].inUse = session[t].inUse
           /\ session'[t].renameFrom = session[t].renameFrom
           /\ session'[t].activity = session[t].activity
  PROVE  Claimed'
  <1>1. acceptor.slot \in Slots
    BY DEF Base, ServerShape
  <1>. QED BY <1>1 DEF Base, Claimed

(* The steps of a task that only set its slot.                             *)
LEMMA SetKeepsBase ==
  ASSUME Base, NEW s \in Slots, session[s].pc # "none", NEW new, Sound(new),
         Set(s, new), acceptor' = acceptor
  PROVE  Sessions' /\ Claimed'
  BY SetKeepsSessions, TaskKeepsClaim DEF Base

LEMMA ChangeCardKeepsBase ==
  ASSUME Base, NEW s \in Slots, session[s].pc # "none", NEW new, Sound(new),
         NEW changed, ChangeCard(s, new, changed), acceptor' = acceptor
  PROVE  Sessions' /\ Claimed'
  BY ChangeCardKeepsSessions, TaskKeepsClaim DEF Base

(***************************************************************************)
(* What the records a task sets are.                                       *)
(***************************************************************************)
LEMMA LocalSound ==
  ASSUME NEW slot, Sound(slot), slot.pc \notin {"none", "apply", "discard"}
  PROVE  Sound(Local(slot))
  BY RootIsPath DEF Sound, SessionTypes, Local

LEMMA HandlingSound ==
  ASSUME Sessions, NEW s \in Slots, session[s].pc = "recv", NEW verb
  PROVE  /\ Sound(Handling(s, verb)) /\ Handling(s, verb).pc = "loop"
         /\ Handling(s, verb).renameFrom = Root
         /\ Handling(s, verb).prior = IF verb = "RNTO" THEN session[s].prior ELSE Root
         /\ Handling(s, verb).inUse
  <1>1. Sound(session[s])
    BY DEF Sessions
  <1>. QED BY <1>1, RootIsPath DEF Sound, SessionTypes, Handling

LEMMA ReadsSound ==
  ASSUME Sessions, NEW s \in Slots, session[s].pc = "recv", NEW verb, NEW path \in Paths
  PROVE  Sound(Reads(s, verb, path))
  <1> DEFINE new == Handling(s, verb)
  <1>1. Sound(new) /\ new.pc = "loop" /\ new.renameFrom = Root /\ new.inUse
    BY HandlingSound
  <1> HIDE DEF new
  <1>2. Sound([new EXCEPT !.dir = path])
    BY <1>1 DEF Sound, SessionTypes
  <1>3. Sound([new EXCEPT !.renameFrom = path, !.prior = path])
    BY <1>1 DEF Sound, SessionTypes
  <1>4. Sound([new EXCEPT !.passive = TRUE])
    BY <1>1 DEF Sound, SessionTypes
  <1>5. Sound([new EXCEPT !.pc = "close"])
    BY <1>1 DEF Sound, SessionTypes
  <1>. QED BY <1>1, <1>2, <1>3, <1>4, <1>5 DEF Reads, new

LEMMA ActivityTyped ==
  ASSUME NEW verb
  PROVE  ActivityOf(verb) \in {"idle", "listing", "downloading", "uploading", "deleting",
                              "creating", "renaming", "hiding"}
  BY DEF ActivityOf

LEMMA ChangesSound ==
  ASSUME Sessions, NEW s \in Slots, session[s].pc = "recv", NEW verb \in Verbs,
         verb \in Changing, NEW path \in Paths
  PROVE  Sound(Changes(s, verb, path))
  <1> DEFINE new == Handling(s, verb)
             from == IF verb = "RNTO" THEN session[s].renameFrom ELSE Root
             activity == ActivityOf(verb)
  <1>1. Sound(new) /\ new.pc = "loop" /\ new.renameFrom = Root /\ new.inUse
        /\ (verb = "RNTO" => new.prior = session[s].prior)
    BY HandlingSound
  <1>2. from \in Paths /\ (verb = "RNTO" => from \in {Root, session[s].prior})
    BY RootIsPath DEF Sessions, Sound, SessionTypes
  <1>3. activity \in {"idle", "listing", "downloading", "uploading", "deleting",
                     "creating", "renaming", "hiding"}
    BY ActivityTyped
  <1>4. Changes(s, verb, path) =
          IF verb = "RNTO" /\ from = Root THEN new
          ELSE [new EXCEPT !.pc = "apply", !.verb = verb, !.path = path, !.from = from,
                           !.activity = activity]
    BY DEF Changes
  <1> HIDE DEF new, from, activity
  <1>5. ASSUME ~(verb = "RNTO" /\ from = Root)
        PROVE  Sound([new EXCEPT !.pc = "apply", !.verb = verb, !.path = path,
                                 !.from = from, !.activity = activity])
    <2> DEFINE set == [new EXCEPT !.pc = "apply", !.verb = verb, !.path = path,
                                  !.from = from, !.activity = activity]
    <2>1. new \in SessionTypes /\ from \in Paths
      BY <1>1, <1>2 DEF Sound
    <2>2. set \in SessionTypes
      BY <1>3, <2>1 DEF SessionTypes, Verbs
    <2>3. /\ set.pc = "apply" /\ set.verb = verb /\ set.from = from
          /\ set.inUse = new.inUse /\ set.renameFrom = new.renameFrom
          /\ set.prior = new.prior
      BY <2>1 DEF SessionTypes
    <2> HIDE DEF set
    <2>4. Sound(set)
      BY <1>1, <1>2, <1>5, <2>2, <2>3 DEF Sound
    <2>. QED BY <2>4 DEF set
  <1>. QED BY <1>1, <1>4, <1>5

LEMMA BeginsSound ==
  ASSUME Sessions, NEW s \in Slots, session[s].pc = "recv", NEW verb \in Verbs,
         NEW path \in Paths
  PROVE  Sound(Begins(s, verb, path))
  <1> DEFINE new == Handling(s, verb)
             activity == IF verb = "LIST" /\ ~IsFolder(card, path)
                         THEN "idle" ELSE ActivityOf(verb)
  <1>1. Sound(new) /\ new.renameFrom = Root /\ new.inUse
    BY HandlingSound
  <1>2. activity \in {"idle", "listing", "downloading", "uploading", "deleting",
                     "creating", "renaming", "hiding"}
    BY ActivityTyped
  <1>3. Begins(s, verb, path) =
          IF session[s].passive
          THEN [new EXCEPT !.pc = "accept", !.verb = verb, !.path = path, !.ok = TRUE,
                           !.activity = activity]
          ELSE new
    BY DEF Begins
  <1> HIDE DEF new, activity
  <1>4. Sound([new EXCEPT !.pc = "accept", !.verb = verb, !.path = path, !.ok = TRUE,
                          !.activity = activity])
    <2> DEFINE set == [new EXCEPT !.pc = "accept", !.verb = verb, !.path = path,
                                  !.ok = TRUE, !.activity = activity]
    <2>1. new \in SessionTypes
      BY <1>1 DEF Sound
    <2>2. set \in SessionTypes
      BY <1>2, <2>1 DEF SessionTypes, Verbs
    <2>3. set.pc = "accept" /\ set.inUse = new.inUse /\ set.renameFrom = new.renameFrom
      BY <2>1 DEF SessionTypes
    <2> HIDE DEF set
    <2>4. Sound(set)
      BY <1>1, <2>2, <2>3 DEF Sound
    <2>. QED BY <2>4 DEF set
  <1>. QED BY <1>1, <1>3, <1>4

(***************************************************************************)
(* Base: the types, the slots and the claim.                               *)
(***************************************************************************)
LEMMA InitBase ==
  ASSUME Init PROVE Base
  <1>1. ServerShape
    BY SlotsAreNats, FtpAssumption DEF Init, FtpInit, ServerShape, FtpAssumption
  <1>2. ClockShape
    BY EmptySeq DEF Init, FtpInit, ClockShape, NoScreen
  <1>3. Sound(Free)
    BY RootIsPath DEF Sound, SessionTypes, Free
  <1>4. Sessions
    BY <1>3 DEF Init, FtpInit, Sessions, Sound
  <1>5. Claimed
    BY DEF Init, FtpInit, Claimed
  <1>. QED BY <1>1, <1>2, <1>4, <1>5 DEF Base

(* What a command leaves its slot as.                                      *)
LEMMA HandledPc ==
  ASSUME Sessions, NEW s \in Slots, NEW verb, NEW path
  PROVE  /\ Handling(s, verb).pc = "loop"
         /\ Reads(s, verb, path).pc \in {"loop", "close"}
         /\ Changes(s, verb, path).pc \in {"loop", "apply"}
         /\ \/ Begins(s, verb, path).pc = "loop"
            \/ Begins(s, verb, path).pc = "accept" /\ Begins(s, verb, path).verb = verb
  <1> DEFINE new == Handling(s, verb)
  <1>1. session[s] \in SessionTypes
    BY DEF Sessions
  <1>2. PICK prior \in Paths : prior = IF verb = "RNTO" THEN session[s].prior ELSE Root
    BY <1>1, RootIsPath DEF SessionTypes
  <1>3. new = [session[s] EXCEPT !.renameFrom = Root, !.pc = "loop", !.prior = prior]
    BY <1>2 DEF Handling
  <1>4. new \in SessionTypes /\ new.pc = "loop"
    BY <1>1, <1>3, RootIsPath DEF SessionTypes
  <1> HIDE DEF new
  <1>5. Reads(s, verb, path).pc \in {"loop", "close"}
    BY <1>4 DEF Reads, SessionTypes, new
  <1>6. Changes(s, verb, path).pc \in {"loop", "apply"}
    BY <1>4 DEF Changes, SessionTypes, new
  <1>7. \/ Begins(s, verb, path).pc = "loop"
        \/ Begins(s, verb, path).pc = "accept" /\ Begins(s, verb, path).verb = verb
    BY <1>4 DEF Begins, SessionTypes, new
  <1>. QED BY <1>4, <1>5, <1>6, <1>7 DEF new

(* A command changes its own slot, and the card only by an upload.         *)
LEMMA ObeySets ==
  ASSUME Base, NEW s \in Slots, session[s].pc = "recv", NEW verb \in Verbs, NEW path,
         Obey(s, verb, path)
  PROVE  \E new : /\ Sound(new) /\ new.pc # "note"
                 /\ \/ Set(s, new) /\ card' = card
                    \/ /\ CanOpenWrite(card, path)
                       /\ new.pc = "loop" \/ (new.pc = "accept" /\ new.verb = "STOR")
                       /\ ChangeCard(s, new, OpenWrite(card, path))
  <1>0. Sessions
    BY DEF Base
  <1>1. CASE path \notin Paths
    BY <1>0, <1>1, HandlingSound DEF Obey
  <1>2. CASE path \in Paths /\ verb \in Changing
    <2>1. Set(s, Changes(s, verb, path)) /\ card' = card
      BY <1>2 DEF Obey
    <2>. QED BY <1>0, <1>2, <2>1, ChangesSound, HandledPc
  <1>3. CASE path \in Paths /\ verb \notin Changing /\ verb \notin Transfers
    <2>1. Set(s, Reads(s, verb, path)) /\ card' = card
      BY <1>3 DEF Obey
    <2>2. Reads(s, verb, path).pc # "note"
      BY <1>0, HandledPc
    <2>. QED BY <1>0, <1>3, <2>1, <2>2, ReadsSound
  <1>4. CASE path \in Paths /\ verb \in Transfers
    <2>1. verb \notin Changing
      BY <1>4 DEF Transfers, Changing
    <2>2. CASE ~CanBegin(verb, path)
      <3>1. Set(s, Handling(s, verb)) /\ card' = card
        BY <1>4, <2>1, <2>2 DEF Obey
      <3>. QED BY <1>0, <3>1, HandlingSound
    <2>3. CASE CanBegin(verb, path)
      <3>1. Sound(Begins(s, verb, path))
        BY <1>0, <1>4, BeginsSound
      <3>2. \/ Begins(s, verb, path).pc = "loop"
            \/ Begins(s, verb, path).pc = "accept" /\ Begins(s, verb, path).verb = verb
        BY <1>0, HandledPc
      <3>3. CASE verb = "STOR"
        <4>1. ChangeCard(s, Begins(s, verb, path), OpenWrite(card, path))
          BY <1>4, <2>1, <2>3, <3>3 DEF Obey
        <4>2. CanOpenWrite(card, path)
          BY <2>3, <3>3 DEF CanBegin
        <4>. QED BY <3>1, <3>2, <3>3, <4>1, <4>2
      <3>4. CASE verb # "STOR"
        <4>1. Set(s, Begins(s, verb, path)) /\ card' = card
          BY <1>4, <2>1, <2>3, <3>4 DEF Obey
        <4>. QED BY <3>1, <3>2, <4>1
      <3>. QED BY <3>3, <3>4
    <2>. QED BY <2>2, <2>3
  <1>. QED BY <1>1, <1>2, <1>3, <1>4

(* The same of a whole Command, which is an Obey of some request.          *)
LEMMA CommandSets ==
  ASSUME Base, NEW s \in Slots, Command(s)
  PROVE  \E new, path : /\ Sound(new) /\ new.pc # "note"
                       /\ \/ Set(s, new) /\ card' = card
                          \/ /\ CanOpenWrite(card, path)
                             /\ new.pc = "loop" \/ (new.pc = "accept" /\ new.verb = "STOR")
                             /\ ChangeCard(s, new, OpenWrite(card, path))
  <1>1. PICK request \in Requests :
          Obey(s, request.verb, Resolve(session[s].dir, request.input))
    BY DEF Command
  <1>2. request.verb \in Verbs /\ session[s].pc = "recv"
    BY DEF Verbs, Command
  <1> DEFINE path == Resolve(session[s].dir, request.input)
  <1> HIDE DEF path
  <1>3. \E new : /\ Sound(new) /\ new.pc # "note"
                /\ \/ Set(s, new) /\ card' = card
                   \/ /\ CanOpenWrite(card, path)
                      /\ new.pc = "loop" \/ (new.pc = "accept" /\ new.verb = "STOR")
                      /\ ChangeCard(s, new, OpenWrite(card, path))
    BY <1>1, <1>2, ObeySets DEF path
  <1>. QED BY <1>3

(***************************************************************************)
(* A task's steps other than a command, each with the slot it leaves.      *)
(***************************************************************************)
LEMMA TaskRecords ==
  ASSUME Sessions, NEW s \in Slots
  PROVE  /\ session[s].pc = "loop" =>
              \A pc \in {"close", "recv"} : Sound([session[s] EXCEPT !.pc = pc])
         /\ session[s].pc = "recv" => Sound([session[s] EXCEPT !.pc = "close"])
         /\ session[s].pc = "close" =>
              Sound([session[s] EXCEPT !.passive = FALSE, !.control = "none",
                                       !.inUse = FALSE, !.pc = "none"])
         /\ session[s].pc \in {"apply", "note", "discard"} =>
              Sound(Local([session[s] EXCEPT !.pc = "loop", !.activity = "idle"]))
         /\ session[s].pc = "apply" =>
              /\ Sound(Local([[session[s] EXCEPT !.activity = "idle"] EXCEPT !.pc = "loop"]))
              /\ Sound([[session[s] EXCEPT !.activity = "idle"] EXCEPT !.pc = "note"])
         /\ session[s].pc = "accept" =>
              /\ Sound([session[s] EXCEPT !.pc = "transfer"])
              /\ Sound(Local([session[s] EXCEPT !.pc = "loop", !.passive = FALSE,
                                                !.activity = "idle"]))
         /\ session[s].pc = "transfer" => \A b \in BOOLEAN : Sound(Finished(s, b))
  <1>1. Sound(session[s])
    BY DEF Sessions
  <1>2. session[s].pc = "loop" =>
              \A pc \in {"close", "recv"} : Sound([session[s] EXCEPT !.pc = pc])
    BY <1>1 DEF Sound, SessionTypes
  <1>3. session[s].pc = "recv" => Sound([session[s] EXCEPT !.pc = "close"])
    BY <1>1 DEF Sound, SessionTypes
  <1>4. session[s].pc = "close" =>
              Sound([session[s] EXCEPT !.passive = FALSE, !.control = "none",
                                       !.inUse = FALSE, !.pc = "none"])
    BY <1>1 DEF Sound, SessionTypes
  <1>5. session[s].pc \in {"apply", "note", "discard"} =>
              Sound(Local([session[s] EXCEPT !.pc = "loop", !.activity = "idle"]))
    BY <1>1, RootIsPath DEF Sound, SessionTypes, Local
  <1>6. session[s].pc = "apply" =>
          /\ Sound(Local([[session[s] EXCEPT !.activity = "idle"] EXCEPT !.pc = "loop"]))
          /\ Sound([[session[s] EXCEPT !.activity = "idle"] EXCEPT !.pc = "note"])
    BY <1>1, RootIsPath DEF Sound, SessionTypes, Local
  <1>7. session[s].pc = "accept" =>
          /\ Sound([session[s] EXCEPT !.pc = "transfer"])
          /\ Sound(Local([session[s] EXCEPT !.pc = "loop", !.passive = FALSE,
                                            !.activity = "idle"]))
    BY <1>1, RootIsPath DEF Sound, SessionTypes, Local
  <1>8. session[s].pc = "transfer" => \A b \in BOOLEAN : Sound(Finished(s, b))
    <2>1. SUFFICES ASSUME session[s].pc = "transfer", NEW b \in BOOLEAN
                   PROVE  Sound(Finished(s, b))
      OBVIOUS
    <2>2. Sound([[session[s] EXCEPT !.passive = FALSE] EXCEPT !.pc = "loop",
                                                              !.activity = "idle"])
      BY <1>1, <2>1 DEF Sound, SessionTypes
    <2>3. [[session[s] EXCEPT !.passive = FALSE] EXCEPT !.pc = "loop",
                                                        !.activity = "idle"].pc = "loop"
      BY <1>1 DEF Sound, SessionTypes
    <2>4. Sound(Local([[session[s] EXCEPT !.passive = FALSE]
                           EXCEPT !.pc = "loop", !.activity = "idle"]))
      BY <2>2, <2>3, LocalSound
    <2>5. Sound([[session[s] EXCEPT !.passive = FALSE] EXCEPT !.pc = "note"])
      BY <1>1, <2>1 DEF Sound, SessionTypes
    <2>6. session[s].verb = "STOR" =>
            Sound([[session[s] EXCEPT !.passive = FALSE] EXCEPT !.pc = "discard"])
      BY <1>1, <2>1 DEF Sound, SessionTypes
    <2>. QED BY <2>4, <2>5, <2>6 DEF Finished
  <1>. QED BY <1>2, <1>3, <1>4, <1>5, <1>6, <1>7, <1>8

(* Whatever a task does to its slot, it sets the slot alone or changes the *)
(* card with it.                                                           *)
LEMMA TaskKeepsBase ==
  ASSUME Base, NEW s \in Slots, SessionStep(s) \/ ClientStep(s)
  PROVE  Sessions' /\ Claimed'
  <1>0. Sessions
    BY DEF Base
  <1>1. CASE SessionLoop(s)
    BY <1>0, <1>1, TaskRecords, SetKeepsBase DEF SessionLoop
  <1>2. CASE RecvEnds(s)
    BY <1>0, <1>2, TaskRecords, SetKeepsBase DEF RecvEnds
  <1>3. CASE CloseSession(s)
    BY <1>0, <1>3, TaskRecords, SetKeepsBase DEF CloseSession
  <1>4. CASE Apply(s)
    <2>1. session[s].pc = "apply" /\ acceptor' = acceptor
      BY <1>4 DEF Apply
    <2> DEFINE idle == [session[s] EXCEPT !.activity = "idle"]
               result == Result(session[s].verb, session[s].path, session[s].from)
    <2>2. \/ ChangeCard(s, [idle EXCEPT !.pc = "note"], result)
          \/ Set(s, Local([idle EXCEPT !.pc = "loop"]))
      BY <1>4 DEF Apply
    <2>3. Sound([idle EXCEPT !.pc = "note"]) /\ Sound(Local([idle EXCEPT !.pc = "loop"]))
      BY <1>0, <2>1, TaskRecords
    <2> HIDE DEF idle, result
    <2>. QED BY <2>1, <2>2, <2>3, SetKeepsBase, ChangeCardKeepsBase
  <1>5. CASE Note(s)
    BY <1>0, <1>5, TaskRecords, SetKeepsBase DEF Note
  <1>6. CASE Discard(s)
    <2>1. session[s].pc = "discard" /\ acceptor' = acceptor
      BY <1>6 DEF Discard
    <2> DEFINE done == Local([session[s] EXCEPT !.pc = "loop", !.activity = "idle"])
    <2>2. \/ ChangeCard(s, done, DeleteFile(card, session[s].path))
          \/ Set(s, done)
      BY <1>6 DEF Discard
    <2>3. Sound(done)
      BY <1>0, <2>1, TaskRecords
    <2> HIDE DEF done
    <2>. QED BY <2>1, <2>2, <2>3, SetKeepsBase, ChangeCardKeepsBase
  <1>7. CASE Command(s)
    <2>1. session[s].pc # "none" /\ acceptor' = acceptor
      BY <1>7 DEF Command
    <2>. QED BY <1>7, <2>1, CommandSets, SetKeepsBase, ChangeCardKeepsBase
  <1>8. CASE DataAccept(s)
    BY <1>0, <1>8, TaskRecords, SetKeepsBase DEF DataAccept
  <1>9. CASE DataFails(s)
    BY <1>0, <1>9, TaskRecords, SetKeepsBase DEF DataFails
  <1>10. CASE Transfer(s)
    BY <1>0, <1>10, TaskRecords, SetKeepsBase DEF Transfer
  <1>. QED BY <1>1, <1>2, <1>3, <1>4, <1>5, <1>6, <1>7, <1>8, <1>9, <1>10
       DEF SessionStep, ClientStep

(***************************************************************************)
(* The acceptor, and what the owner does to all slots at once.             *)
(***************************************************************************)
LEMMA AcceptKeepsBase ==
  ASSUME Base, Accept
  PROVE  Sessions' /\ Claimed' /\ ServerShape'
  <1>1. CASE \E s \in Slots : /\ ~session[s].inUse
                             /\ Set(s, ClaimSession(s))
                             /\ acceptor' = [pc |-> "claimed", slot |-> s]
    <2>1. PICK s \in Slots : /\ ~session[s].inUse
                            /\ Set(s, ClaimSession(s))
                            /\ acceptor' = [pc |-> "claimed", slot |-> s]
      BY <1>1
    <2>2. Sound(session[s]) /\ session[s].pc = "none"
      BY <2>1 DEF Base, Sessions, Sound
    <2> DEFINE new == ClaimSession(s)
    <2>3. /\ Sound(new) /\ new.pc = "none" /\ new.inUse /\ new.renameFrom = Root
          /\ new.activity = "idle"
      BY <2>2, RootIsPath DEF Sound, SessionTypes, ClaimSession
    <2> HIDE DEF new
    <2>4. Sessions' /\ session'[s] = new
      BY <2>1, <2>3, SetKeepsSessions DEF Base, new
    <2>5. ServerShape'
      BY <2>1 DEF Base, ServerShape, Accept
    <2>. QED BY <2>1, <2>3, <2>4, <2>5 DEF Claimed
  <1>2. CASE acceptor' = [acceptor EXCEPT !.pc = "loop"] /\ UNCHANGED session
    <2>1. ServerShape' /\ acceptor'.pc = "loop"
      BY <1>2 DEF Base, ServerShape, Accept
    <2>. QED BY <1>2, <2>1 DEF Base, Claimed, Sessions, Sound
  <1>. QED BY <1>1, <1>2 DEF Accept

LEMMA StartSessionKeepsBase ==
  ASSUME Base, StartSession
  PROVE  Sessions' /\ Claimed' /\ ServerShape'
  <1> DEFINE s == acceptor.slot
  <1>1. /\ s \in Slots /\ session[s].pc = "none" /\ session[s].renameFrom = Root
        /\ session[s].activity = "idle" /\ Sound(session[s]) /\ session[s].inUse
    BY DEF Base, ServerShape, Claimed, StartSession, Sessions
  <1>2. acceptor'.pc = "loop" /\ ServerShape'
    BY DEF Base, ServerShape, StartSession, Fails
  <1>3. \/ Set(s, [session[s] EXCEPT !.control = "open", !.passive = FALSE,
                                     !.pc = "loop", !.prior = Root])
        \/ Set(s, [session[s] EXCEPT !.inUse = FALSE])
    BY DEF StartSession
  <1>4. Sound([session[s] EXCEPT !.control = "open", !.passive = FALSE,
                                 !.pc = "loop", !.prior = Root])
    BY <1>1, RootIsPath DEF Sound, SessionTypes
  <1>5. Sound([session[s] EXCEPT !.inUse = FALSE])
    BY <1>1 DEF Sound, SessionTypes
  <1>6. Sessions'
    BY <1>1, <1>3, <1>4, <1>5, SetKeepsSessions DEF Base
  <1>. QED BY <1>2, <1>6 DEF Claimed

(* A stop shuts the connections, an unmount takes away the entries.        *)
LEMMA ShutKeepsSessions ==
  ASSUME Sessions, ShutControls
  PROVE  Sessions' /\ \A s \in Slots :
           /\ session'[s].pc = session[s].pc /\ session'[s].verb = session[s].verb
           /\ session'[s].path = session[s].path /\ session'[s].ok = session[s].ok
           /\ session'[s].inUse = session[s].inUse
           /\ session'[s].renameFrom = session[s].renameFrom
           /\ session'[s].activity = session[s].activity
  <1>1. ASSUME NEW s \in Slots
        PROVE  /\ Sound(session'[s])
               /\ session'[s].pc = session[s].pc /\ session'[s].verb = session[s].verb
               /\ session'[s].path = session[s].path /\ session'[s].ok = session[s].ok
               /\ session'[s].inUse = session[s].inUse
               /\ session'[s].renameFrom = session[s].renameFrom
               /\ session'[s].activity = session[s].activity
    <2>1. Sound(session[s])
      BY DEF Sessions
    <2>2. \/ session'[s] = session[s]
          \/ session'[s] = [session[s] EXCEPT !.control = "shut"]
      BY DEF ShutControls
    <2>. QED BY <2>1, <2>2 DEF Sound, SessionTypes
  <1>2. session' \in [Slots -> SessionTypes]
    BY <1>1 DEF ShutControls, Sound
  <1>. QED BY <1>1, <1>2 DEF Sessions, Sound

LEMMA UnmountKeepsSessions ==
  ASSUME Sessions, Unmount
  PROVE  Sessions' /\ \A s \in Slots :
           /\ session'[s].pc = session[s].pc /\ session'[s].verb = session[s].verb
           /\ session'[s].path = session[s].path /\ ~session'[s].ok
           /\ session'[s].inUse = session[s].inUse
           /\ session'[s].renameFrom = session[s].renameFrom
           /\ session'[s].activity = session[s].activity
  <1>1. ASSUME NEW s \in Slots
        PROVE  /\ Sound(session'[s])
               /\ session'[s].pc = session[s].pc /\ session'[s].verb = session[s].verb
               /\ session'[s].path = session[s].path /\ ~session'[s].ok
               /\ session'[s].inUse = session[s].inUse
               /\ session'[s].renameFrom = session[s].renameFrom
               /\ session'[s].activity = session[s].activity
    <2>1. Sound(session[s])
      BY DEF Sessions
    <2>2. session'[s] = [session[s] EXCEPT !.ok = FALSE]
      BY DEF Unmount
    <2>. QED BY <2>1, <2>2 DEF Sound, SessionTypes
  <1>2. session' \in [Slots -> SessionTypes]
    BY <1>1 DEF Unmount, Sound
  <1>. QED BY <1>1, <1>2 DEF Sessions, Sound

(***************************************************************************)
(* Every step keeps Base.  Outside the tasks, the acceptor and the calls   *)
(* of a stop, slots and acceptor stay as they are.                         *)
(***************************************************************************)
LEMMA SameSlots ==
  ASSUME Base, session' = session, acceptor' = acceptor \/ acceptor'.pc # "claimed"
  PROVE  Sessions' /\ Claimed'
  BY DEF Base, Sessions, Claimed, Sound

JobsOK ==
  /\ jobs \in Seq({"start", "stop", "quit"})
  /\ owner # "idle" => Doing("stop") \/ Doing("quit")

LEMMA JobsTyped ==
  ASSUME JobsOK, NEW job \in {"start", "stop", "quit"}
  PROVE  /\ jobs' = Append(jobs, job) /\ owner' = owner => JobsOK'
         /\ Doing(job) /\ JobDone => JobsOK' /\ owner' = "idle"
         /\ owner = "wait" /\ JobDone => JobsOK' /\ owner' = "idle"
  <1>1. jobs \in Seq({"start", "stop", "quit"})
    BY DEF JobsOK
  <1>2. ASSUME jobs' = Append(jobs, job), owner' = owner PROVE JobsOK'
    <2>1. jobs' \in Seq({"start", "stop", "quit"}) /\ Len(jobs') = Len(jobs) + 1
          /\ \A i \in 1 .. Len(jobs) : jobs'[i] = jobs[i]
      BY <1>1, <1>2, AppendProperties
    <2>2. ASSUME NEW first, jobs # << >>, Head(jobs) = first
          PROVE  jobs' # << >> /\ Head(jobs') = first
      <3>1. Len(jobs) \in Nat \ {0}
        BY <1>1, <2>2, EmptySeq
      <3>2. jobs'[1] = jobs[1] /\ Len(jobs') # 0
        BY <2>1, <3>1
      <3>. QED BY <1>1, <2>1, <2>2, <3>2, EmptySeq
    <2>. QED BY <1>2, <2>1, <2>2 DEF JobsOK, Doing
  <1>3. ASSUME jobs # << >>, JobDone PROVE JobsOK' /\ owner' = "idle"
    BY <1>1, <1>3, HeadTailProperties DEF JobsOK, JobDone
  <1>. QED BY <1>2, <1>3 DEF JobsOK, Doing

LEMMA ScreenKeepsBase ==
  ASSUME Base, ScreenStep
  PROVE  Base'
  <1>1. UNCHANGED <<ftpVars, media, jobs>>
    BY DEF ScreenStep, Poll, Refresh, RefreshBegins, RefreshEnds
  <1>2. Sessions' /\ Claimed' /\ ServerShape'
    BY <1>1, SameSlots DEF ftpVars, Base, ServerShape
  <1>3. /\ screen = [pc |-> screen.pc, shown |-> screen.shown, stamp |-> screen.stamp,
                     counted |-> screen.counted, hadClients |-> screen.hadClients]
        /\ silent \in BOOLEAN
    BY DEF Base, ClockShape
  <1>4. /\ screen' = [pc |-> screen'.pc, shown |-> screen'.shown, stamp |-> screen'.stamp,
                      counted |-> screen'.counted, hadClients |-> screen'.hadClients]
        /\ screen'.pc \in {"none", "stamp", "list", "shown"} /\ silent' \in BOOLEAN
    <2>1. CASE Poll
      BY <1>3, <2>1 DEF Poll
    <2>2. CASE Refresh
      BY <1>3, <2>2 DEF Refresh
    <2>3. CASE RefreshBegins
      BY <1>3, <2>3 DEF RefreshBegins, CounterThenCard, StampIt
    <2>4. CASE RefreshEnds
      BY <1>3, <2>4 DEF RefreshEnds, CounterThenCard, CountIt
    <2>. QED BY <2>1, <2>2, <2>3, <2>4 DEF ScreenStep
  <1>5. ClockShape'
    BY <1>1, <1>4 DEF Base, ClockShape, Doing, ftpVars
  <1>. QED BY <1>2, <1>5 DEF Base

LEMMA SpentTyped ==
  ASSUME Base
  PROVE  LET Used == [clients : Nat, commands : Nat, faults : Nat, visits : Nat, quits : Nat]
         IN  /\ [spent EXCEPT !.quits = @ + 1] \in Used
             /\ [spent EXCEPT !.visits = @ + 1] \in Used
             /\ [spent EXCEPT !.faults = @ + 1] \in Used
  BY DEF Base, ServerShape

LEMMA OwnerKeepsBase ==
  ASSUME Base, EnterMedia \/ LeaveMedia \/ QuitApp \/ CoreStep
  PROVE  Base'
  <1>0. JobsOK
    BY DEF Base, ClockShape, JobsOK
  <1>1. CASE EnterMedia
    <2>0. JobsOK'
      BY <1>1, <1>0, JobsTyped DEF EnterMedia
    <2>1. ServerShape'
      BY <1>1, SpentTyped DEF Base, ServerShape, EnterMedia
    <2>2. ClockShape'
      BY <1>1, <2>0 DEF Base, ClockShape, JobsOK, Doing, EnterMedia, NoScreen
    <2>. QED BY <1>1, <2>1, <2>2, SameSlots DEF EnterMedia, Base
  <1>2. CASE LeaveMedia
    <2>0. JobsOK'
      BY <1>2, <1>0, JobsTyped DEF LeaveMedia, ftpVars
    <2>1. ServerShape' /\ ClockShape'
      BY <1>2, <2>0 DEF Base, ServerShape, ClockShape, JobsOK, LeaveMedia, NoScreen, ftpVars
    <2>. QED BY <1>2, <2>1, SameSlots DEF LeaveMedia, Base, ftpVars
  <1>3. CASE QuitApp
    <2>0. JobsOK'
      BY <1>3, <1>0, JobsTyped DEF QuitApp
    <2>1. ServerShape'
      BY <1>3, SpentTyped DEF Base, ServerShape, QuitApp
    <2>2. ClockShape'
      BY <1>3, <2>0 DEF Base, ClockShape, JobsOK, Doing, QuitApp
    <2>. QED BY <1>3, <2>1, <2>2, SameSlots DEF QuitApp, Base
  <1>4. CASE FtpStart
    <2>0. JobsOK' /\ owner' = "idle"
      BY <1>4, <1>0, JobsTyped DEF FtpStart
    <2>1. ServerShape'
      <3>1. UNCHANGED mounted /\ UNCHANGED mutations
        BY <1>4 DEF FtpStart, Start
      <3>2. server' \in [running : BOOLEAN, stopping : BOOLEAN, listening : BOOLEAN,
                        failed : BOOLEAN]
        <4>1. \/ server' = [running |-> TRUE, stopping |-> FALSE, listening |-> TRUE,
                            failed |-> FALSE]
              \/ server' = [server EXCEPT !.failed = TRUE]
              \/ server' = server
          BY <1>4 DEF FtpStart, Start
        <4>2. server \in [running : BOOLEAN, stopping : BOOLEAN, listening : BOOLEAN,
                         failed : BOOLEAN]
          BY DEF Base, ServerShape
        <4>3. CASE server' = [running |-> TRUE, stopping |-> FALSE, listening |-> TRUE,
                              failed |-> FALSE]
          BY <4>3
        <4>4. CASE server' = [server EXCEPT !.failed = TRUE]
          BY <4>2, <4>4
        <4>. QED BY <4>1, <4>2, <4>3, <4>4
      <3>3. acceptor' \in [pc : {"none", "loop", "accept", "claimed"}, slot : Slots]
        BY <1>4 DEF FtpStart, Start, Base, ServerShape
      <3>4. spent' \in [clients : Nat, commands : Nat, faults : Nat, visits : Nat, quits : Nat]
        BY <1>4, SpentTyped DEF FtpStart, Start, Fails, Base, ServerShape
      <3>. QED BY <2>0, <3>1, <3>2, <3>3, <3>4 DEF Base, ServerShape
    <2>3. ClockShape'
      BY <1>4, <2>0 DEF Base, ClockShape, JobsOK, FtpStart
    <2>2. session' = session /\ (acceptor' = acceptor \/ acceptor'.pc # "claimed")
      BY <1>4 DEF FtpStart, Start, Base, ServerShape
    <2>. QED BY <2>1, <2>2, <2>3, SameSlots DEF Base
  <1>5. CASE FtpStopBegins
    <2>1. ServerShape' /\ ClockShape'
      BY <1>5 DEF Base, ServerShape, ClockShape, FtpStopBegins, StopListening, Doing
    <2>. QED BY <1>5, <2>1, SameSlots DEF FtpStopBegins, StopListening, Base
  <1>6. CASE FtpStopShuts
    <2>1. ServerShape' /\ ClockShape'
      BY <1>6 DEF Base, ServerShape, ClockShape, FtpStopShuts, ShutControls, Doing
    <2>2. acceptor.slot \in Slots /\ acceptor' = acceptor /\ ShutControls
      BY <1>6 DEF Base, ServerShape, FtpStopShuts, ShutControls
    <2>. QED BY <2>1, <2>2, ShutKeepsSessions DEF Base, Claimed
  <1>7. CASE FtpStopReturns
    <2>0. JobsOK' /\ owner' = "idle"
      BY <1>7, <1>0, JobsTyped DEF FtpStopReturns
    <2>1. ClockShape'
      BY <1>7, <2>0 DEF Base, ClockShape, JobsOK, FtpStopReturns
    <2>2. ServerShape'
      BY <1>7, <2>0 DEF Base, ServerShape, FtpStopReturns, StopReturns, Unmount
    <2>3. acceptor.slot \in Slots /\ acceptor' = acceptor
          /\ (Unmount \/ session' = session)
      BY <1>7 DEF Base, ServerShape, FtpStopReturns, StopReturns
    <2>. QED BY <2>1, <2>2, <2>3, UnmountKeepsSessions, SameSlots DEF Base, Claimed
  <1>. QED BY <1>1, <1>2, <1>3, <1>4, <1>5, <1>6, <1>7 DEF CoreStep

LEMMA ServerKeepsBase ==
  ASSUME Base, AcceptorRuns \/ ClientActs \/ \E s \in Slots : SessionRuns(s)
  PROVE  Base'
  <1>1. Beside
    BY DEF AcceptorRuns, ClientActs, SessionRuns
  <1>2. ClockShape'
    <2>1. owner' = owner
      BY DEF AcceptorRuns, ClientActs, SessionRuns, AcceptorStep, AcceptorLoop, AcceptorWakes,
             StartSession, Accept, SessionStep, ClientStep, SessionLoop, RecvEnds, CloseSession,
             Apply, Note, Discard, Command, DataAccept, DataFails, Transfer
    <2>. QED BY <1>1, <2>1 DEF Base, ClockShape, Beside, Doing
  <1>3. CASE AcceptorStep
    <2>1. CASE AcceptorLoop
      <3>1. ServerShape' /\ session' = session /\ acceptor'.pc # "claimed"
        BY <2>1 DEF Base, ServerShape, AcceptorLoop
      <3>. QED BY <1>2, <3>1, SameSlots DEF Base
    <2>2. CASE AcceptorWakes
      <3>1. ServerShape' /\ session' = session /\ acceptor'.pc # "claimed"
        BY <2>2 DEF Base, ServerShape, AcceptorWakes
      <3>. QED BY <1>2, <3>1, SameSlots DEF Base
    <2>3. CASE StartSession
      BY <1>2, <2>3, StartSessionKeepsBase DEF Base
    <2>. QED BY <1>3, <2>1, <2>2, <2>3 DEF AcceptorStep
  <1>4. CASE Accept
    BY <1>2, <1>4, AcceptKeepsBase DEF Base
  <1>5. CASE \E s \in Slots : SessionStep(s) \/ ClientStep(s)
    <2>1. PICK s \in Slots : SessionStep(s) \/ ClientStep(s)
      BY <1>5
    <2>2. ServerShape'
      <3>1. ASSUME SessionStep(s) PROVE ServerShape'
        BY <3>1 DEF Base, ServerShape, SessionStep, SessionLoop, RecvEnds, CloseSession,
                    Apply, Note, Discard, Fails
      <3>2. ASSUME ClientStep(s) PROVE ServerShape'
        BY <3>2 DEF Base, ServerShape, ClientStep, Command, DataAccept, DataFails, Transfer, Fails
      <3>. QED BY <2>1, <3>1, <3>2
    <2>. QED BY <1>2, <2>1, <2>2, TaskKeepsBase DEF Base
  <1>. QED BY <1>3, <1>4, <1>5 DEF AcceptorRuns, ClientActs, SessionRuns

LEMMA NextKeepsBase ==
  ASSUME Base, [Next]_vars
  PROVE  Base'
  <1>1. CASE UNCHANGED vars
    <2>1. ServerShape' /\ ClockShape'
      BY <1>1 DEF vars, ftpVars, Base, ServerShape, ClockShape, Doing
    <2>. QED BY <1>1, <2>1, SameSlots DEF vars, ftpVars, Base
  <1>2. CASE Next
    BY <1>2, ScreenKeepsBase, OwnerKeepsBase, ServerKeepsBase DEF Next
  <1>. QED BY <1>1, <1>2

(***************************************************************************)
(* What a step does to the card, and to what the sessions are about to say *)
(* of it.  A session is pending while it changes the card or has yet to    *)
(* count the change it made.                                               *)
(***************************************************************************)
Pending(s) == session[s].pc = "note" \/ Uploading(s)

Kept(t) == /\ session'[t].pc = session[t].pc /\ session'[t].verb = session[t].verb
           /\ session'[t].path = session[t].path
           /\ session'[t].ok => session[t].ok

(* What was whole and is still open stays whole.                           *)
Spares(t) ==
  session'[t].ok /\ Uploading(t) /\ card[session[t].path].whole
    => card'[session[t].path].whole

Busy == {"apply", "accept", "transfer", "discard", "note"}

Quiet == /\ card' = card /\ mutations' = mutations
         /\ mounted' => mounted
         /\ \A t \in Slots : \/ Kept(t)
                             \/ session[t].pc \notin Busy /\ session'[t].pc \notin Busy

Honest(s) ==
  session[s].pc = "note" /\ session[s].verb = "STOR" /\ session[s].ok
    => card[session[s].path].whole

TaskEffect(s) ==
  /\ CardIsTree'
  /\ session'[s].pc = "note" /\ session'[s].verb = "STOR" /\ session'[s].ok
       => card'[session'[s].path].whole
  /\ card' # card => Pending(s)' \/ silent'
  /\ Pending(s) => Pending(s)' \/ silent' \/ mutations' = mutations + 1
  /\ mutations' \in {mutations, mutations + 1}
  /\ mounted' = mounted /\ screen' = screen
  /\ silent => silent'
  /\ \A t \in Slots : t # s => Kept(t) /\ Spares(t)

LEMMA QuietSteps ==
  ASSUME Base,
         \/ UNCHANGED vars \/ ScreenStep
         \/ EnterMedia \/ LeaveMedia \/ QuitApp \/ CoreStep
         \/ AcceptorRuns \/ Accept
  PROVE  Quiet
  <1> USE DEF Quiet, Kept
  <1>1. CASE UNCHANGED vars
    BY <1>1 DEF vars, ftpVars
  <1>2. CASE ScreenStep
    BY <1>2 DEF ScreenStep, Poll, Refresh, RefreshBegins, RefreshEnds, ftpVars
  <1>3. CASE EnterMedia \/ LeaveMedia \/ QuitApp
    BY <1>3 DEF EnterMedia, LeaveMedia, QuitApp, ftpVars
  <1>4. CASE FtpStart
    BY <1>4 DEF FtpStart, Start
  <1>5. CASE FtpStopBegins
    BY <1>5 DEF FtpStopBegins, StopListening
  <1>6. CASE FtpStopShuts
    <2>1. ShutControls /\ card' = card /\ mutations' = mutations /\ mounted' = mounted
      BY <1>6 DEF FtpStopShuts, ShutControls
    <2>. QED BY <2>1, ShutKeepsSessions DEF Base
  <1>7. CASE FtpStopReturns
    <2>1. /\ card' = card /\ mutations' = mutations
          /\ Unmount \/ (session' = session /\ mounted' = mounted)
      BY <1>7 DEF FtpStopReturns, StopReturns
    <2>2. CASE Unmount
      <3>1. ~mounted'
        BY <2>2 DEF Unmount
      <3>. QED BY <2>1, <2>2, <3>1, UnmountKeepsSessions DEF Base
    <2>. QED BY <2>1, <2>2
  <1>8. CASE AcceptorLoop \/ AcceptorWakes
    BY <1>8 DEF AcceptorLoop, AcceptorWakes
  <1>9. CASE StartSession
    <2> DEFINE s == acceptor.slot
    <2>1. s \in Slots /\ session[s].pc = "none" /\ session[s] \in SessionTypes
      BY <1>9 DEF Base, ServerShape, Claimed, StartSession, Sessions
    <2>2. /\ card' = card /\ mutations' = mutations /\ mounted' = mounted
          /\ \/ Set(s, [session[s] EXCEPT !.control = "open", !.passive = FALSE,
                                          !.pc = "loop", !.prior = Root])
             \/ Set(s, [session[s] EXCEPT !.inUse = FALSE])
      BY <1>9 DEF StartSession
    <2>3. \A t \in Slots : t # s => session'[t] = session[t]
      BY <2>2 DEF Set, Base, Sessions
    <2>4. session'[s].pc \in {"none", "loop"}
      <3>1. \/ session'[s] = [session[s] EXCEPT !.control = "open", !.passive = FALSE,
                                                !.pc = "loop", !.prior = Root]
            \/ session'[s] = [session[s] EXCEPT !.inUse = FALSE]
        BY <2>1, <2>2 DEF Set, Base, Sessions
      <3> HIDE DEF s
      <3>. QED BY <2>1, <3>1 DEF SessionTypes
    <2>. QED BY <2>1, <2>2, <2>3, <2>4 DEF Busy
  <1>10. CASE Accept
    <2>1. card' = card /\ mutations' = mutations /\ mounted' = mounted
      BY <1>10 DEF Accept
    <2>2. CASE session' = session
      BY <2>1, <2>2
    <2>3. CASE \E s \in Slots : ~session[s].inUse /\ Set(s, ClaimSession(s))
      <3>1. PICK s \in Slots : ~session[s].inUse /\ Set(s, ClaimSession(s))
        BY <2>3
      <3>2. Sound(session[s]) /\ session[s].pc = "none"
        BY <3>1 DEF Base, Sessions, Sound
      <3>3. session'[s].pc = "none"
        BY <3>1, <3>2 DEF Set, Base, Sessions, Sound, SessionTypes, ClaimSession
      <3>4. \A t \in Slots : t # s => session'[t] = session[t]
        BY <3>1 DEF Set, Base, Sessions
      <3>. QED BY <2>1, <3>2, <3>3, <3>4 DEF Busy
    <2>. QED BY <1>10, <2>2, <2>3 DEF Accept
  <1>. QED BY <1>1, <1>2, <1>3, <1>4, <1>5, <1>6, <1>7, <1>8, <1>9, <1>10
       DEF CoreStep, AcceptorRuns, AcceptorStep

(***************************************************************************)
(* The tree, by the operations of the card that a task calls.              *)
(***************************************************************************)
LEMMA SameKinds ==
  ASSUME NEW c \in Cards, IsTree(c), NEW d \in Cards,
         \A q \in Paths : d[q].kind = c[q].kind
  PROVE  IsTree(d)
  BY RootIsPath DEF IsTree, IsFolder, Exists

LEMMA WholeKeepsTree ==
  ASSUME NEW c \in Cards, IsTree(c), NEW p \in Paths
  PROVE  LET d == [c EXCEPT ![p].whole = TRUE]
         IN  /\ d \in Cards /\ IsTree(d) /\ d[p].whole
             /\ \A q \in Paths : c[q].whole => d[q].whole
  <1> DEFINE d == [c EXCEPT ![p].whole = TRUE]
  <1>1. /\ d \in Cards /\ d[p].whole /\ \A q \in Paths : d[q].kind = c[q].kind
        /\ \A q \in Paths : c[q].whole => d[q].whole
    BY DEF Cards, Entries
  <1> HIDE DEF d
  <1>2. IsTree(d)
    BY <1>1, SameKinds
  <1>. QED BY <1>1, <1>2 DEF d

LEMMA HideKeepsTree ==
  ASSUME NEW c \in Cards, IsTree(c), NEW p \in Paths, NEW hidden \in BOOLEAN
  PROVE  SetHidden(c, p, hidden) \in Cards /\ IsTree(SetHidden(c, p, hidden))
  <1> DEFINE d == SetHidden(c, p, hidden)
  <1>1. d \in Cards /\ \A q \in Paths : d[q].kind = c[q].kind
    BY DEF Cards, Entries, SetHidden
  <1> HIDE DEF d
  <1>2. IsTree(d)
    BY <1>1, SameKinds
  <1>. QED BY <1>1, <1>2 DEF d

LEMMA OpenKeepsTree ==
  ASSUME NEW c \in Cards, IsTree(c), NEW p, CanOpenWrite(c, p)
  PROVE  OpenWrite(c, p) \in Cards /\ IsTree(OpenWrite(c, p))
  <1>1. p \in Paths /\ p # Root /\ ~IsFolder(c, p) /\ IsFolder(c, Parent(p))
    BY DEF CanOpenWrite, PathIsSafe
  <1>2. File(FALSE) \in Entries /\ File(FALSE).kind # "none"
    BY DEF File, Entries
  <1>. QED BY <1>1, <1>2, WriteKeepsTree DEF OpenWrite

LEMMA DeleteFileKeepsTree ==
  ASSUME NEW c \in Cards, IsTree(c), NEW p, CanDeleteFile(c, p)
  PROVE  DeleteFile(c, p) \in Cards /\ IsTree(DeleteFile(c, p))
  <1>1. p \in Paths /\ p # Root /\ IsFile(c, p)
    BY DEF CanDeleteFile, PathIsSafe
  <1>. QED BY <1>1, FileIsEmpty, RemoveKeepsTree DEF DeleteFile

LEMMA ResultKeepsTree ==
  ASSUME CardIsTree, NEW verb \in Changing, NEW path, NEW from, Allowed(verb, path, from)
  PROVE  Result(verb, path, from) \in Cards /\ IsTree(Result(verb, path, from))
  <1>0. card \in Cards /\ IsTree(card)
    BY DEF CardIsTree
  <1>1. CASE verb = "DELE"
    BY <1>0, <1>1, DeleteFileKeepsTree DEF Allowed, Result
  <1>2. CASE verb = "MKD"
    <2>1. path \in Paths /\ path # Root /\ ~Exists(card, path) /\ IsFolder(card, Parent(path))
      BY <1>2 DEF Allowed, CanMakeFolder, PathIsSafe
    <2>2. Folder \in Entries /\ Folder.kind = "folder" /\ Folder.kind # "none"
      BY DEF Folder, Entries
    <2>3. [card EXCEPT ![path] = Folder] \in Cards /\ IsTree([card EXCEPT ![path] = Folder])
      BY <1>0, <2>1, <2>2, WriteKeepsTree
    <2>. QED BY <1>2, <2>3 DEF Result, MakeFolder
  <1>3. CASE verb = "RMD"
    <2>1. path \in Paths /\ path # Root /\ IsEmpty(card, path)
      BY <1>3 DEF Allowed, CanDeleteFolder, IsFolder
    <2>. QED BY <1>0, <1>3, <2>1, RemoveKeepsTree DEF Result, DeleteFolder
  <1>4. CASE verb = "RNTO"
    <2>1. from \in Paths /\ path \in Paths /\ CanRename(card, from, path)
      BY <1>4 DEF Allowed, CanRename, Exists, PathIsSafe
    <2>. QED BY <1>0, <1>4, <2>1, RenameKeepsTree DEF Result
  <1>5. CASE verb \in {"HIDE", "UNHIDE"}
    <2>1. path \in Paths
      BY <1>5 DEF Allowed, CanHide, Exists
    <2>2. Result(verb, path, from) = SetHidden(card, path, verb = "HIDE")
      BY <1>5 DEF Result
    <2>. QED BY <1>0, <2>1, <2>2, HideKeepsTree
  <1>. QED BY <1>1, <1>2, <1>3, <1>4, <1>5 DEF Changing

(***************************************************************************)
(* The effect of each step of a task.                                      *)
(***************************************************************************)
LEMMA SetLeavesOthers ==
  ASSUME Base, NEW s \in Slots, NEW new, Set(s, new), card' = card
  PROVE  session'[s] = new /\ \A t \in Slots : t # s => Kept(t) /\ Spares(t)
  BY DEF Base, Sessions, Set, Kept, Spares

LEMMA ChangeLeavesOthers ==
  ASSUME Base, NEW s \in Slots, NEW new, Sound(new), NEW changed,
         ChangeCard(s, new, changed)
  PROVE  /\ session'[s] = new /\ card' = changed
         /\ \A t \in Slots : t # s => Kept(t) /\ Spares(t)
  BY ChangeCardKeepsSessions DEF Base, Kept, Spares

(* A step that ends the way of EndsSilently has set the history.           *)
LEMMA SilentSet ==
  ASSUME Beside, NEW s \in Slots
  PROVE  /\ screen' = screen
         /\ silent => silent'
         /\ EndsSilently(s) => silent'
  BY DEF Beside

LEMMA BetweenCommandsEffect ==
  ASSUME Base, CardIsTree, Beside, NEW s \in Slots,
         SessionLoop(s) \/ RecvEnds(s) \/ CloseSession(s)
  PROVE  TaskEffect(s)
  <1>1. PICK new : Set(s, new) /\ new.pc \in {"close", "recv", "none"}
    <2>1. session[s] \in SessionTypes
      BY DEF Base, Sessions
    <2>2. \A pc \in {"close", "recv"} : [session[s] EXCEPT !.pc = pc].pc = pc
      BY <2>1 DEF SessionTypes
    <2>3. [session[s] EXCEPT !.passive = FALSE, !.control = "none",
                             !.inUse = FALSE, !.pc = "none"].pc = "none"
      BY <2>1 DEF SessionTypes
    <2>. QED BY <2>2, <2>3 DEF SessionLoop, RecvEnds, CloseSession
  <1>2. /\ session[s].pc \in {"loop", "recv", "close"} /\ card' = card
        /\ mutations' = mutations /\ mounted' = mounted
    BY DEF SessionLoop, RecvEnds, CloseSession
  <1>3. session'[s] = new /\ \A t \in Slots : t # s => Kept(t) /\ Spares(t)
    BY <1>1, <1>2, SetLeavesOthers
  <1>4. screen' = screen /\ (silent => silent')
    BY SilentSet
  <1>. QED BY <1>1, <1>2, <1>3, <1>4 DEF TaskEffect, Pending, Uploading, CardIsTree

LEMMA CommandEffect ==
  ASSUME Base, CardIsTree, Beside, NEW s \in Slots, Command(s)
  PROVE  TaskEffect(s)
  <1>1. /\ session[s].pc = "recv" /\ mutations' = mutations /\ mounted' = mounted
    BY DEF Command
  <1>2. PICK new, path :
               /\ Sound(new) /\ new.pc # "note"
               /\ \/ Set(s, new) /\ card' = card
                  \/ /\ CanOpenWrite(card, path)
                     /\ new.pc = "loop" \/ (new.pc = "accept" /\ new.verb = "STOR")
                     /\ ChangeCard(s, new, OpenWrite(card, path))
    BY CommandSets
  <1>3. screen' = screen /\ (silent => silent') /\ (EndsSilently(s) => silent')
    BY SilentSet
  <1>4. ~Pending(s)
    BY <1>1 DEF Pending, Uploading
  <1>5. CASE Set(s, new) /\ card' = card
    <2>1. session'[s] = new /\ \A t \in Slots : t # s => Kept(t) /\ Spares(t)
      BY <1>5, SetLeavesOthers
    <2>. QED BY <1>1, <1>2, <1>3, <1>4, <1>5, <2>1 DEF TaskEffect, CardIsTree
  <1>6. CASE /\ CanOpenWrite(card, path)
             /\ new.pc = "loop" \/ (new.pc = "accept" /\ new.verb = "STOR")
             /\ ChangeCard(s, new, OpenWrite(card, path))
    <2>1. /\ session'[s] = new /\ card' = OpenWrite(card, path)
          /\ \A t \in Slots : t # s => Kept(t) /\ Spares(t)
      BY <1>2, <1>6, ChangeLeavesOthers
    <2>2. CardIsTree'
      BY <1>6, <2>1, OpenKeepsTree DEF CardIsTree
    <2>3. card' # card => Pending(s)' \/ silent'
      BY <1>1, <1>3, <1>6, <2>1 DEF EndsSilently, Pending, Uploading
    <2>. QED BY <1>1, <1>2, <1>3, <1>4, <2>1, <2>2, <2>3 DEF TaskEffect
  <1>. QED BY <1>2, <1>5, <1>6

LEMMA ApplyEffect ==
  ASSUME Base, CardIsTree, Beside, NEW s \in Slots, Apply(s)
  PROVE  TaskEffect(s)
  <1> DEFINE idle == [session[s] EXCEPT !.activity = "idle"]
             noted == [idle EXCEPT !.pc = "note"]
             over == Local([idle EXCEPT !.pc = "loop"])
             result == Result(session[s].verb, session[s].path, session[s].from)
  <1>1. /\ session[s].pc = "apply" /\ mutations' = mutations /\ mounted' = mounted
        /\ Sound(session[s])
    BY DEF Apply, Base, Sessions
  <1>2. /\ Sound(noted) /\ noted.pc = "note" /\ noted.verb = session[s].verb
        /\ over.pc = "loop" /\ session[s].verb \in Changing
    <2>1. Sound(noted)
      BY <1>1, TaskRecords DEF Base
    <2>. QED BY <1>1, <2>1 DEF Sound, SessionTypes, Local
  <1>3. \/ /\ Allowed(session[s].verb, session[s].path, session[s].from)
           /\ ChangeCard(s, noted, result)
        \/ Set(s, over) /\ card' = card
    BY DEF Apply
  <1>4. screen' = screen /\ (silent => silent')
    BY SilentSet
  <1>5. ~Pending(s) /\ session[s].verb # "STOR"
    BY <1>1, <1>2 DEF Pending, Uploading, Changing
  <1>6. Allowed(session[s].verb, session[s].path, session[s].from)
          => result \in Cards /\ IsTree(result)
    BY <1>2, ResultKeepsTree
  <1> HIDE DEF idle, noted, over, result
  <1>7. CASE Set(s, over) /\ card' = card
    <2>1. session'[s] = over /\ \A t \in Slots : t # s => Kept(t) /\ Spares(t)
      BY <1>7, SetLeavesOthers
    <2>. QED BY <1>1, <1>2, <1>4, <1>5, <1>7, <2>1 DEF TaskEffect, CardIsTree
  <1>8. CASE /\ Allowed(session[s].verb, session[s].path, session[s].from)
             /\ ChangeCard(s, noted, result)
    <2>1. /\ session'[s] = noted /\ card' = result
          /\ \A t \in Slots : t # s => Kept(t) /\ Spares(t)
      BY <1>2, <1>8, ChangeLeavesOthers
    <2>2. CardIsTree'
      BY <1>6, <1>8, <2>1 DEF CardIsTree
    <2>. QED BY <1>1, <1>2, <1>4, <1>5, <2>1, <2>2 DEF TaskEffect, Pending
  <1>. QED BY <1>3, <1>7, <1>8

LEMMA NoteEffect ==
  ASSUME Base, CardIsTree, Beside, NEW s \in Slots, Note(s)
  PROVE  TaskEffect(s)
  <1> DEFINE new == Local([session[s] EXCEPT !.pc = "loop", !.activity = "idle"])
  <1>1. /\ Set(s, new) /\ card' = card /\ mutations' = mutations + 1 /\ mounted' = mounted
    BY DEF Note
  <1>2. new.pc = "loop"
    BY DEF Base, Sessions, SessionTypes, Local
  <1> HIDE DEF new
  <1>3. session'[s] = new /\ \A t \in Slots : t # s => Kept(t) /\ Spares(t)
    BY <1>1, SetLeavesOthers
  <1>4. screen' = screen /\ (silent => silent')
    BY SilentSet
  <1>. QED BY <1>1, <1>2, <1>3, <1>4 DEF TaskEffect, CardIsTree

LEMMA DataEffect ==
  ASSUME Base, CardIsTree, Beside, NEW s \in Slots, DataAccept(s) \/ DataFails(s)
  PROVE  TaskEffect(s)
  <1> DEFINE moved == [session[s] EXCEPT !.pc = "transfer"]
             over == Local([session[s] EXCEPT !.pc = "loop", !.passive = FALSE,
                                              !.activity = "idle"])
  <1>1. /\ session[s].pc = "accept" /\ card' = card /\ mutations' = mutations
        /\ mounted' = mounted /\ (Set(s, moved) \/ Set(s, over))
    BY DEF DataAccept, DataFails
  <1>2. moved.pc = "transfer" /\ moved.verb = session[s].verb /\ over.pc = "loop"
    BY DEF Base, Sessions, SessionTypes, Local
  <1> HIDE DEF moved, over
  <1>3. screen' = screen /\ (silent => silent') /\ (EndsSilently(s) => silent')
    BY SilentSet
  <1>4. CASE Set(s, moved)
    <2>1. session'[s] = moved /\ \A t \in Slots : t # s => Kept(t) /\ Spares(t)
      BY <1>1, <1>4, SetLeavesOthers
    <2>2. Pending(s) => Pending(s)'
      BY <1>1, <1>2, <2>1 DEF Pending, Uploading
    <2>. QED BY <1>1, <1>2, <1>3, <2>1, <2>2 DEF TaskEffect, CardIsTree
  <1>5. CASE Set(s, over)
    <2>1. session'[s] = over /\ \A t \in Slots : t # s => Kept(t) /\ Spares(t)
      BY <1>1, <1>5, SetLeavesOthers
    <2>2. Pending(s) => silent'
      BY <1>1, <1>2, <1>3, <2>1 DEF Pending, Uploading, EndsSilently
    <2>. QED BY <1>1, <1>2, <1>3, <2>1, <2>2 DEF TaskEffect, CardIsTree
  <1>. QED BY <1>1, <1>4, <1>5

LEMMA TransferEffect ==
  ASSUME Base, CardIsTree, Beside, NEW s \in Slots, Transfer(s)
  PROVE  TaskEffect(s)
  <1> DEFINE path == session[s].path
             marked == [card EXCEPT ![path].whole = TRUE]
  <1>1. PICK complete \in BOOLEAN :
          /\ Set(s, Finished(s, complete))
          /\ card' = IF complete /\ session[s].verb = "STOR" /\ session[s].ok
                     THEN marked ELSE card
    BY DEF Transfer
  <1>2. /\ session[s].pc = "transfer" /\ mutations' = mutations /\ mounted' = mounted
        /\ session[s] \in SessionTypes /\ path \in Paths
    BY DEF Transfer, Base, Sessions, SessionTypes
  <1>3. /\ marked \in Cards /\ IsTree(marked) /\ marked[path].whole
        /\ \A q \in Paths : card[q].whole => marked[q].whole
    BY <1>2, WholeKeepsTree DEF CardIsTree
  <1> HIDE DEF marked
  <1>4. CardIsTree' /\ \A q \in Paths : card[q].whole => card'[q].whole
    BY <1>1, <1>3 DEF CardIsTree
  <1> DEFINE new == Finished(s, complete)
  <1>5. /\ new.verb = "STOR" \/ session[s].verb # "STOR"
        /\ session[s].verb = "STOR" =>
             /\ new.pc = (IF complete THEN "note" ELSE "discard")
             /\ new.path = path /\ new.ok = session[s].ok
        /\ session[s].verb # "STOR" => new.pc = "loop"
    BY <1>2 DEF Finished, Local, SessionTypes
  <1> HIDE DEF new
  <1>6. session'[s] = new /\ \A t \in Slots : t # s => session'[t] = session[t]
    BY <1>1 DEF Set, Base, Sessions, new
  <1>7. \A t \in Slots : t # s => Kept(t) /\ Spares(t)
    <2> SUFFICES ASSUME NEW t \in Slots, t # s PROVE Kept(t) /\ Spares(t)
      OBVIOUS
    <2>1. session[t].path \in Paths
      BY DEF Base, Sessions, SessionTypes
    <2>. QED BY <1>4, <1>6, <2>1 DEF Kept, Spares
  <1>8. screen' = screen /\ (silent => silent')
    BY SilentSet
  <1>9. /\ Pending(s) => Pending(s)'
        /\ card' # card => Pending(s)'
    BY <1>1, <1>2, <1>5, <1>6 DEF Pending, Uploading
  <1>10. session'[s].pc = "note" /\ session'[s].verb = "STOR" /\ session'[s].ok
           => card'[session'[s].path].whole
    <2> SUFFICES ASSUME session'[s].pc = "note", session'[s].ok
                 PROVE  card'[session'[s].path].whole
      OBVIOUS
    <2>1. session[s].verb = "STOR" /\ complete /\ session[s].ok /\ session'[s].path = path
      BY <1>5, <1>6
    <2>. QED BY <1>1, <1>3, <2>1
  <1>. QED BY <1>2, <1>4, <1>7, <1>8, <1>9, <1>10 DEF TaskEffect

LEMMA DiscardEffect ==
  ASSUME Base, CardIsTree, Beside, NEW s \in Slots, Discard(s)
  PROVE  TaskEffect(s)
  <1> DEFINE path == session[s].path
             done == Local([session[s] EXCEPT !.pc = "loop", !.activity = "idle"])
  <1>1. /\ session[s].pc = "discard" /\ mutations' = mutations /\ mounted' = mounted
        /\ session[s].verb = "STOR" /\ session[s] \in SessionTypes
    BY DEF Discard, Base, Sessions, Sound
  <1>2. Sound(done) /\ done.pc = "loop"
    <2>1. Sound(done)
      BY <1>1, TaskRecords DEF Base
    <2>. QED BY <1>1, <2>1 DEF Local, SessionTypes
  <1>3. \/ CanDeleteFile(card, path) /\ ChangeCard(s, done, DeleteFile(card, path))
        \/ Set(s, done) /\ card' = card
    BY DEF Discard
  <1> HIDE DEF done
  <1>4. screen' = screen /\ (silent => silent') /\ (EndsSilently(s) => silent')
    BY SilentSet
  <1>5. CASE Set(s, done) /\ card' = card
    <2>1. session'[s] = done /\ \A t \in Slots : t # s => Kept(t) /\ Spares(t)
      BY <1>5, SetLeavesOthers
    <2>2. silent'
      BY <1>1, <1>2, <1>4, <2>1 DEF EndsSilently
    <2>. QED BY <1>1, <1>2, <1>4, <1>5, <2>1, <2>2 DEF TaskEffect, CardIsTree
  <1>6. CASE CanDeleteFile(card, path) /\ ChangeCard(s, done, DeleteFile(card, path))
    <2>1. /\ session'[s] = done /\ card' = DeleteFile(card, path)
          /\ \A t \in Slots : t # s => Kept(t) /\ Spares(t)
      BY <1>2, <1>6, ChangeLeavesOthers
    <2>2. silent'
      BY <1>1, <1>2, <1>4, <2>1 DEF EndsSilently
    <2>3. CardIsTree'
      BY <1>6, <2>1, DeleteFileKeepsTree DEF CardIsTree
    <2>. QED BY <1>1, <1>2, <1>4, <2>1, <2>2, <2>3 DEF TaskEffect
  <1>. QED BY <1>3, <1>5, <1>6

LEMMA TaskEffects ==
  ASSUME Base, CardIsTree, Beside, NEW s \in Slots, SessionStep(s) \/ ClientStep(s)
  PROVE  TaskEffect(s)
  BY BetweenCommandsEffect, CommandEffect, ApplyEffect, NoteEffect, DataEffect,
     TransferEffect, DiscardEffect DEF SessionStep, ClientStep

(* Any step is quiet, or one task's.                                       *)
LEMMA StepEffect ==
  ASSUME Base, CardIsTree, [Next]_vars
  PROVE  Quiet \/ \E s \in Slots : TaskEffect(s)
  <1>1. CASE UNCHANGED vars
    BY <1>1, QuietSteps
  <1>2. CASE \E s \in Slots : (SessionStep(s) \/ ClientStep(s)) /\ Beside
    BY <1>2, TaskEffects
  <1>3. CASE \/ ScreenStep \/ EnterMedia \/ LeaveMedia \/ QuitApp \/ CoreStep
             \/ AcceptorRuns \/ Accept
    BY <1>3, QuietSteps
  <1>. QED BY <1>1, <1>2, <1>3 DEF Next, ClientActs, SessionRuns

(***************************************************************************)
(* What a step does to the screen's view of the card.                      *)
(***************************************************************************)
LEMMA ScreenEffect ==
  ASSUME Base, [Next]_vars
  PROVE  \/ screen'.pc \notin {"list", "shown"}
         \/ screen'.pc = "list" /\ screen'.stamp = mutations /\ mutations' = mutations
         \/ /\ screen'.pc = "shown" /\ screen.pc = "list" /\ screen'.stamp = screen.stamp
            /\ card' = card /\ mounted' = mounted
            /\ mounted => screen'.counted = Counts(card, Root)
         \/ /\ screen'.pc = screen.pc /\ screen'.stamp = screen.stamp
            /\ screen'.counted = screen.counted
            /\ silent => silent'
  <1>0. screen = [pc |-> screen.pc, shown |-> screen.shown, stamp |-> screen.stamp,
                  counted |-> screen.counted, hadClients |-> screen.hadClients]
    BY DEF Base, ClockShape
  <1>1. CASE Poll
    BY <1>0, <1>1 DEF Poll
  <1>2. CASE Refresh
    BY <1>0, <1>2 DEF Refresh
  <1>3. CASE RefreshBegins
    BY <1>0, <1>3 DEF RefreshBegins, CounterThenCard, StampIt, ftpVars
  <1>4. CASE RefreshEnds
    <2>1. screen.pc = "list" /\ card' = card /\ mounted' = mounted
      BY <1>4 DEF RefreshEnds, ftpVars
    <2> DEFINE counts == IF mounted THEN Counts(card, Root) ELSE NoCounts
               clients == IF screen.shown THEN screen.hadClients ELSE HasClients
    <2>2. screen' = [[screen EXCEPT !.counted = counts] EXCEPT !.pc = "shown", !.shown = TRUE,
                                                               !.hadClients = clients]
      BY <1>0, <1>4 DEF RefreshEnds, CounterThenCard, CountIt
    <2>3. mounted => counts = Counts(card, Root)
      OBVIOUS
    <2> HIDE DEF counts, clients
    <2>4. screen'.pc = "shown" /\ screen'.stamp = screen.stamp /\ screen'.counted = counts
      BY <1>0, <2>2
    <2>. QED BY <2>1, <2>3, <2>4
  <1>5. CASE EnterMedia \/ LeaveMedia
    BY <1>5 DEF EnterMedia, LeaveMedia, NoScreen
  <1>6. CASE QuitApp \/ CoreStep
    BY <1>6 DEF QuitApp, CoreStep, FtpStart, FtpStopBegins, FtpStopShuts, FtpStopReturns
  <1>7. CASE Beside
    BY <1>7 DEF Beside
  <1>8. CASE UNCHANGED vars
    BY <1>8 DEF vars
  <1>. QED BY <1>1, <1>2, <1>3, <1>4, <1>5, <1>6, <1>7, <1>8
       DEF Next, ScreenStep, AcceptorRuns, ClientActs, SessionRuns

(***************************************************************************)
(* The invariant, part by part.                                            *)
(***************************************************************************)
LEMMA InitIInv ==
  ASSUME Init PROVE IInv
  <1>1. Base
    BY InitBase
  <1>2. CardIsTree
    BY ServiceAssumption DEF Init, CardIsTree, Cards, ServiceAssumption
  <1>3. AcknowledgedIsWhole
    BY DEF Init, FtpInit, Free, AcknowledgedIsWhole
  <1>4. StampIsPast /\ StaleIsKnown
    BY DEF Init, NoScreen, StampIsPast, StaleIsKnown
  <1>. QED BY <1>1, <1>2, <1>3, <1>4 DEF IInv

LEMMA NextAcknowledged ==
  ASSUME Base, AcknowledgedIsWhole, Quiet \/ \E s \in Slots : TaskEffect(s)
  PROVE  AcknowledgedIsWhole'
  <1> SUFFICES ASSUME NEW t \in Slots, session'[t].pc = "note", session'[t].verb = "STOR",
                      session'[t].ok
               PROVE  card'[session'[t].path].whole
    BY DEF AcknowledgedIsWhole
  <1>1. ASSUME Kept(t), card' = card \/ Spares(t)
        PROVE  card'[session'[t].path].whole
    <2>1. /\ session[t].pc = "note" /\ session[t].verb = "STOR" /\ session[t].ok
          /\ session'[t].path = session[t].path
      BY <1>1 DEF Kept
    <2>2. card[session[t].path].whole
      BY <2>1 DEF AcknowledgedIsWhole
    <2>. QED BY <1>1, <2>1, <2>2 DEF Spares, Uploading
  <1>2. CASE Quiet
    BY <1>1, <1>2 DEF Quiet, Busy
  <1>3. CASE \E s \in Slots : TaskEffect(s)
    BY <1>1, <1>3 DEF TaskEffect
  <1>. QED BY <1>2, <1>3

LEMMA NextStale ==
  ASSUME Base, StampIsPast, StaleIsKnown, [Next]_vars,
         Quiet \/ \E s \in Slots : TaskEffect(s)
  PROVE  StampIsPast' /\ StaleIsKnown'
  <1>1. /\ mutations \in Nat /\ mutations' \in {mutations, mutations + 1}
        /\ mounted' => mounted
    BY DEF Base, ServerShape, Quiet, TaskEffect
  <1>2. StampIsPast'
    BY <1>1, ScreenEffect DEF StampIsPast
  <1>3. ASSUME screen'.pc = "shown", mounted', screen'.counted # Counts(card', Root)
        PROVE  \/ mutations' # screen'.stamp \/ silent'
               \/ \E s \in Slots : Pending(s)'
    <2>1. /\ screen.pc = "shown" /\ screen'.stamp = screen.stamp
          /\ screen'.counted = screen.counted
          /\ silent => silent'
      BY <1>1, <1>3, ScreenEffect
    <2>2. screen.stamp \in Nat /\ screen.stamp <= mutations
      BY <2>1 DEF StampIsPast
    <2>3. mutations # screen.stamp \/ mutations' = mutations + 1 => mutations' # screen'.stamp
      BY <1>1, <2>1, <2>2
    <2>4. CASE Quiet
      <3>1. card' = card /\ \A s \in Slots : Pending(s) => Pending(s)'
        BY <2>4 DEF Quiet, Kept, Busy, Pending, Uploading
      <3>. QED BY <1>1, <1>3, <2>1, <2>3, <3>1 DEF StaleIsKnown, Pending
    <2>5. CASE \E s \in Slots : TaskEffect(s)
      <3>1. PICK s \in Slots : TaskEffect(s)
        BY <2>5
      <3>2. \A t \in Slots : t # s => (Pending(t) => Pending(t)')
        BY <3>1 DEF TaskEffect, Kept, Pending, Uploading
      <3>3. /\ card' # card => Pending(s)' \/ silent'
            /\ Pending(s) => Pending(s)' \/ silent' \/ mutations' = mutations + 1
        BY <3>1 DEF TaskEffect
      <3>. QED BY <1>1, <1>3, <2>1, <2>3, <3>2, <3>3 DEF StaleIsKnown, Pending
    <2>. QED BY <2>4, <2>5
  <1>4. StaleIsKnown'
    BY <1>3 DEF StaleIsKnown, Pending
  <1>. QED BY <1>2, <1>4

LEMMA NextIInv ==
  ASSUME IInv, [Next]_vars PROVE IInv'
  <1>1. Base /\ CardIsTree /\ AcknowledgedIsWhole /\ StampIsPast /\ StaleIsKnown
    BY DEF IInv
  <1>2. Base'
    BY <1>1, NextKeepsBase
  <1>3. Quiet \/ \E s \in Slots : TaskEffect(s)
    BY <1>1, StepEffect
  <1>4. CardIsTree'
    BY <1>1, <1>3 DEF Quiet, TaskEffect, CardIsTree
  <1>5. AcknowledgedIsWhole'
    BY <1>1, <1>3, NextAcknowledged
  <1>6. StampIsPast' /\ StaleIsKnown'
    BY <1>1, <1>3, NextStale
  <1>. QED BY <1>2, <1>4, <1>5, <1>6 DEF IInv

LEMMA IInvHolds == Spec => []IInv
  <1>1. Init => IInv
    BY InitIInv
  <1>2. IInv /\ [Next]_vars => IInv'
    BY NextIInv
  <1>. QED BY <1>1, <1>2, PTL DEF Spec

(***************************************************************************)
(* The theorems.                                                           *)
(***************************************************************************)
(* Every path a session acts on, stands in or remembers is one of the card *)
(* and of a length the device carries, whatever its client sends.          *)
THEOREM CardTypeCorrect == Spec => []TypeOK
  <1>1. IInv => TypeOK
    <2> SUFFICES ASSUME IInv PROVE TypeOK
      OBVIOUS
    <2>. QED BY DEF IInv, Base, ServerShape, ClockShape, CardIsTree, Cards, Sessions, TypeOK
  <1>. QED BY <1>1, IInvHolds, PTL

(* What is on the card is in a folder that is there, whatever sessions     *)
(* create, upload, remove and rename beside each other.                    *)
THEOREM CardStaysATree == Spec => []TreeIsWhole
  <1>1. IInv => TreeIsWhole
    BY TreeHasParents DEF IInv, CardIsTree, TreeIsWhole, Exists
  <1>. QED BY <1>1, IInvHolds, PTL

(* A rename moves the path that the command before it named in the same    *)
(* connection.                                                             *)
THEOREM RenameMovesWhatWasNamed == Spec => []RenameFollowsRnfr
  <1>1. IInv => RenameFollowsRnfr
    BY DEF IInv, Base, Sessions, Sound, RenameFollowsRnfr
  <1>. QED BY <1>1, IInvHolds, PTL

(* A session between commands says that it is idle, however the last one   *)
(* ended.                                                                  *)
THEOREM NoActivityOutlivesItsCommand == Spec => []NoGhostActivity
  <1>1. IInv => NoGhostActivity
    BY DEF IInv, Base, Sessions, Sound, NoGhostActivity
  <1>. QED BY <1>1, IInvHolds, PTL

(* An upload is acknowledged only when its file is whole, unless somebody  *)
(* else has touched the file since it was opened.                          *)
THEOREM UploadsAreAcknowledgedWhole == Spec => []AcknowledgedIsWhole
  <1>1. IInv => AcknowledgedIsWhole
    BY DEF IInv
  <1>. QED BY <1>1, IInvHolds, PTL

(* A media screen whose counts are not those of the card has a reason to   *)
(* read again: the counter moved, is about to, or an upload ended badly.   *)
THEOREM ScreenKnowsItIsStale == Spec => []StaleIsKnown
  <1>1. IInv => StaleIsKnown
    BY DEF IInv
  <1>. QED BY <1>1, IInvHolds, PTL
============================================================================
