------------------------- MODULE TreeRollbackProofs -------------------------
(***************************************************************************)
(* Proofs about TreeRollback, for any tree of paths and any number of      *)
(* changes: the workspace stays a tree, and a rollback that succeeds is    *)
(* sound.  The invariant Inv says what the checkpoint knows of the paths   *)
(* it was told of in time; the loop of a rollback is reasoned about turn   *)
(* by turn, through sets of its states that every turn keeps (RunOfKeeps). *)
(***************************************************************************)
EXTENDS TreeRollback, FiniteSetTheorems, SequenceTheorems, WellFoundedInduction, TLAPS

-----------------------------------------------------------------------------
(* Paths, as sequences: what lies below what. *)

LEMMA PrefixMeaning ==
    ASSUME NEW s \in Seq(STRING), NEW t \in Seq(STRING)
    PROVE  IsPrefix(s, t) <=> Len(s) <= Len(t) /\ \A i \in 1 .. Len(s) : s[i] = t[i]
<1>1. CASE Len(s) <= Len(t)
  <2>1. /\ SubSeq(s, 1, Len(s)) \in Seq(STRING) /\ Len(SubSeq(s, 1, Len(s))) = Len(s)
        /\ \A i \in 1 .. Len(s) : SubSeq(s, 1, Len(s))[i] = s[i]
    OBVIOUS
  <2>2. /\ SubSeq(t, 1, Len(s)) \in Seq(STRING) /\ Len(SubSeq(t, 1, Len(s))) = Len(s)
        /\ \A i \in 1 .. Len(s) : SubSeq(t, 1, Len(s))[i] = t[i]
    BY <1>1
  <2>3. SubSeq(s, 1, Len(s)) = SubSeq(t, 1, Len(s)) <=> \A i \in 1 .. Len(s) : s[i] = t[i]
    BY <2>1, <2>2, SeqEqual
  <2> QED
    BY <1>1, <2>3 DEF IsPrefix
<1> QED
  BY <1>1 DEF IsPrefix

LEMMA StrictPrefixMeaning ==
    ASSUME NEW s \in Seq(STRING), NEW t \in Seq(STRING)
    PROVE  IsStrictPrefix(s, t) <=> Len(s) < Len(t) /\ \A i \in 1 .. Len(s) : s[i] = t[i]
<1>1. Len(s) \in Nat /\ Len(t) \in Nat
  OBVIOUS
<1>2. Len(s) = Len(t) /\ (\A i \in 1 .. Len(s) : s[i] = t[i]) => s = t
  BY SeqEqual
<1> QED
  BY <1>1, <1>2, PrefixMeaning DEF IsStrictPrefix

LEMMA FrontMeaning ==
    ASSUME NEW s \in Seq(STRING), Len(s) > 1
    PROVE  /\ Front(s) \in Seq(STRING) /\ Len(Front(s)) = Len(s) - 1
           /\ \A i \in 1 .. (Len(s) - 1) : Front(s)[i] = s[i]
BY DEF Front

\* The relations between the paths of the model, as the proofs below use them.
LEMMA BelowParent ==
    ASSUME NEW p \in Paths, Len(p) > 1
    PROVE  Front(p) \in Paths /\ Front(p) \in Ancestors[p] /\ p \in Below[Front(p)]
           /\ p \in Children[Front(p)]
<1>1. p \in Seq(STRING) /\ Front(p) \in Paths /\ Front(p) \in Seq(STRING)
  BY PathsAssumption
<1>2. IsStrictPrefix(Front(p), p)
  BY <1>1, FrontMeaning, StrictPrefixMeaning
<1> QED
  BY <1>1, <1>2 DEF Ancestors, Below, Children

LEMMA BelowIsLonger ==
    ASSUME NEW p \in Paths, NEW q \in Below[p]
    PROVE  /\ q \in Paths /\ Len(q) > 1 /\ p \in Ancestors[q] /\ q # p
           /\ Front(q) = p \/ Front(q) \in Below[p]
<1>1. q \in Paths /\ p \in Seq(STRING) /\ q \in Seq(STRING) /\ p # <<>> /\ IsStrictPrefix(p, q)
  BY PathsAssumption DEF Below
<1>2. Len(p) < Len(q) /\ \A i \in 1 .. Len(p) : p[i] = q[i]
  BY <1>1, StrictPrefixMeaning
<1>3. Len(p) \in Nat /\ Len(q) \in Nat /\ Len(p) >= 1
  BY <1>1
<1>4. Len(q) > 1
  BY <1>2, <1>3
<1>5. Front(q) \in Paths /\ Front(q) \in Seq(STRING)
  BY <1>1, <1>4, PathsAssumption
<1>6. Len(Front(q)) = Len(q) - 1 /\ \A i \in 1 .. (Len(q) - 1) : Front(q)[i] = q[i]
  BY <1>1, <1>4, FrontMeaning
<1>7. IsPrefix(p, Front(q))
  <2>1. Len(p) <= Len(Front(q))
    BY <1>2, <1>3, <1>6
  <2>2. \A i \in 1 .. Len(p) : p[i] = Front(q)[i]
    BY <1>2, <1>3, <1>6
  <2> QED
    BY <1>1, <1>5, <2>1, <2>2, PrefixMeaning
<1> QED
  BY <1>1, <1>4, <1>5, <1>7 DEF Ancestors, Below, IsStrictPrefix

LEMMA BelowTransitive ==
    ASSUME NEW p \in Paths, NEW q \in Below[p], NEW r \in Below[q]
    PROVE  r \in Below[p]
<1>1. /\ q \in Paths /\ r \in Paths /\ p \in Seq(STRING) /\ q \in Seq(STRING) /\ r \in Seq(STRING)
      /\ IsStrictPrefix(p, q) /\ IsStrictPrefix(q, r)
  BY PathsAssumption DEF Below
<1>2. Len(p) < Len(q) /\ \A i \in 1 .. Len(p) : p[i] = q[i]
  BY <1>1, StrictPrefixMeaning
<1>3. Len(q) < Len(r) /\ \A i \in 1 .. Len(q) : q[i] = r[i]
  BY <1>1, StrictPrefixMeaning
<1>4. Len(p) \in Nat /\ Len(q) \in Nat /\ Len(r) \in Nat
  BY <1>1
<1>5. Len(p) < Len(r) /\ \A i \in 1 .. Len(p) : p[i] = r[i]
  BY <1>2, <1>3, <1>4
<1> QED
  BY <1>1, <1>5, StrictPrefixMeaning DEF Below

LEMMA AncestorsCompare ==
    ASSUME NEW r \in Paths, NEW p \in Ancestors[r], NEW q \in Ancestors[r]
    PROVE  p = q \/ p \in Below[q] \/ q \in Below[p]
<1>1. /\ q \in Paths /\ p \in Paths /\ p \in Seq(STRING) /\ q \in Seq(STRING) /\ r \in Seq(STRING)
      /\ IsStrictPrefix(p, r) /\ IsStrictPrefix(q, r)
  BY PathsAssumption DEF Ancestors
<1>2. Len(p) < Len(r) /\ \A i \in 1 .. Len(p) : p[i] = r[i]
  BY <1>1, StrictPrefixMeaning
<1>3. Len(q) < Len(r) /\ \A i \in 1 .. Len(q) : q[i] = r[i]
  BY <1>1, StrictPrefixMeaning
<1>4. Len(p) \in Nat /\ Len(q) \in Nat
  BY <1>1
<1>5. CASE Len(p) < Len(q)
  BY <1>1, <1>2, <1>3, <1>4, <1>5, StrictPrefixMeaning DEF Below
<1>6. CASE Len(q) < Len(p)
  BY <1>1, <1>2, <1>3, <1>4, <1>6, StrictPrefixMeaning DEF Below
<1>7. CASE Len(p) = Len(q)
  <2>1. \A i \in 1 .. Len(p) : p[i] = q[i]
    BY <1>2, <1>3, <1>7
  <2> QED
    BY <1>1, <1>7, <2>1, SeqEqual
<1> QED
  BY <1>4, <1>5, <1>6, <1>7

LEMMA Relatives ==
    /\ Ancestors \in [Paths -> SUBSET Paths] /\ Below \in [Paths -> SUBSET Paths]
    /\ Subtree \in [Paths -> SUBSET Paths] /\ Children \in [Paths -> SUBSET Paths]
    /\ \A p, q \in Paths : p \in Ancestors[q] <=> q \in Below[p]
    /\ \A p, q \in Paths : q \in Subtree[p] <=> q = p \/ q \in Below[p]
BY DEF Ancestors, Below, Subtree, Children

\* A path below a renamed one keeps its place below it.
LEMMA SourceBelow ==
    ASSUME NEW p \in Paths, NEW q \in Paths, NEW r \in Below[q], Source(p, q, r) \in Paths
    PROVE  /\ Front(r) \in Subtree[q] /\ Len(Source(p, q, r)) > 1
           /\ Source(p, q, Front(r)) = Front(Source(p, q, r))
<1>1. r \in Paths /\ Len(r) > 1 /\ (Front(r) = q \/ Front(r) \in Below[q])
  BY BelowIsLonger
<1>2. /\ p \in Seq(STRING) /\ q \in Seq(STRING) /\ r \in Seq(STRING) /\ p # <<>>
      /\ IsStrictPrefix(q, r)
  BY <1>1, PathsAssumption DEF Below
<1>3. Len(q) < Len(r) /\ Len(q) \in Nat /\ Len(p) \in Nat /\ Len(r) \in Nat /\ Len(p) >= 1
  BY <1>2, StrictPrefixMeaning
<1> DEFINE tail == SubSeq(r, Len(q) + 1, Len(r))
           front == SubSeq(Front(r), Len(q) + 1, Len(r) - 1)
<1>4. /\ tail \in Seq(STRING) /\ Len(tail) = Len(r) - Len(q)
      /\ \A i \in 1 .. (Len(r) - Len(q)) : tail[i] = r[Len(q) + i]
  BY <1>2, <1>3
<1>5. /\ Front(r) \in Seq(STRING) /\ Len(Front(r)) = Len(r) - 1
      /\ \A i \in 1 .. (Len(r) - 1) : Front(r)[i] = r[i]
  BY <1>1, <1>2, FrontMeaning
<1>6. /\ front \in Seq(STRING) /\ Len(front) = Len(r) - 1 - Len(q)
      /\ \A i \in 1 .. (Len(r) - 1 - Len(q)) : front[i] = r[Len(q) + i]
  BY <1>3, <1>5
<1>7. Source(p, q, r) = p \o tail /\ Source(p, q, Front(r)) = p \o front
  BY <1>5 DEF Source
<1> HIDE DEF tail, front
<1> DEFINE a == p \o tail
           b == p \o front
<1>8. /\ a \in Seq(STRING) /\ Len(a) = Len(p) + Len(r) - Len(q)
      /\ \A i \in 1 .. (Len(p) + Len(r) - Len(q)) :
           a[i] = IF i <= Len(p) THEN p[i] ELSE tail[i - Len(p)]
  <2>1. Len(p) + Len(tail) = Len(p) + Len(r) - Len(q)
    BY <1>3, <1>4
  <2>2. /\ a \in Seq(STRING) /\ Len(a) = Len(p) + Len(tail)
        /\ \A i \in 1 .. Len(p) + Len(tail) :
             a[i] = IF i <= Len(p) THEN p[i] ELSE tail[i - Len(p)]
    BY <1>2, <1>4, ConcatProperties
  <2> HIDE DEF a
  <2> QED
    BY <2>1, <2>2
<1>9. /\ b \in Seq(STRING) /\ Len(b) = Len(p) + Len(r) - 1 - Len(q)
      /\ \A i \in 1 .. (Len(p) + Len(r) - 1 - Len(q)) :
           b[i] = IF i <= Len(p) THEN p[i] ELSE front[i - Len(p)]
  <2>1. Len(p) + Len(front) = Len(p) + Len(r) - 1 - Len(q)
    BY <1>3, <1>6
  <2>2. /\ b \in Seq(STRING) /\ Len(b) = Len(p) + Len(front)
        /\ \A i \in 1 .. Len(p) + Len(front) :
             b[i] = IF i <= Len(p) THEN p[i] ELSE front[i - Len(p)]
    BY <1>2, <1>6, ConcatProperties
  <2> HIDE DEF b
  <2> QED
    BY <2>1, <2>2
<1> HIDE DEF a, b
<1>10. Len(a) > 1
  BY <1>3, <1>8
<1>11. /\ Front(a) \in Seq(STRING) /\ Len(Front(a)) = Len(a) - 1
       /\ \A i \in 1 .. (Len(a) - 1) : Front(a)[i] = a[i]
  BY <1>8, <1>10, FrontMeaning
<1>12. b = Front(a)
  <2>1. Len(b) = Len(Front(a))
    BY <1>3, <1>8, <1>9, <1>11
  <2>2. ASSUME NEW i \in 1 .. Len(b), i <= Len(p)
        PROVE  b[i] = Front(a)[i]
    <3>1. /\ i \in 1 .. (Len(p) + Len(r) - 1 - Len(q)) /\ i \in 1 .. (Len(a) - 1)
          /\ i \in 1 .. (Len(p) + Len(r) - Len(q))
      BY <1>3, <1>8, <1>9, <2>2
    <3>2. b[i] = p[i]
      BY <1>9, <2>2, <3>1
    <3>3. Front(a)[i] = p[i]
      BY <1>8, <1>11, <2>2, <3>1
    <3> QED
      BY <3>2, <3>3
  <2>3. ASSUME NEW i \in 1 .. Len(b), i > Len(p)
        PROVE  b[i] = Front(a)[i]
    <3>1. b[i] = front[i - Len(p)] /\ Front(a)[i] = tail[i - Len(p)]
      <4>1. /\ i \in 1 .. (Len(p) + Len(r) - 1 - Len(q)) /\ i \in 1 .. (Len(a) - 1)
            /\ i \in 1 .. (Len(p) + Len(r) - Len(q)) /\ ~(i <= Len(p))
        BY <1>3, <1>8, <1>9, <2>3
      <4> QED
        BY <1>8, <1>9, <1>11, <4>1
    <3> DEFINE j == i - Len(p)
    <3>2. j \in 1 .. (Len(r) - 1 - Len(q)) /\ j \in 1 .. (Len(r) - Len(q))
      BY <1>3, <1>9, <2>3
    <3> HIDE DEF j
    <3>3. front[j] = r[Len(q) + j] /\ tail[j] = r[Len(q) + j]
      BY <1>4, <1>6, <3>2
    <3> QED
      BY <3>1, <3>3 DEF j
  <2>4. \A i \in 1 .. Len(b) : b[i] = Front(a)[i]
    BY <1>3, <1>9, <2>2, <2>3
  <2> QED
    BY <1>9, <1>11, <2>1, <2>4, SeqEqual
<1> QED
  BY <1>1, <1>7, <1>10, <1>12 DEF a, b, Subtree

LEMMA SourceOfItself ==
    ASSUME NEW p \in Paths, NEW q \in Paths
    PROVE  Source(p, q, q) = p
<1>1. p \in Seq(STRING) /\ q \in Seq(STRING)
  BY PathsAssumption
<1>2. SubSeq(q, Len(q) + 1, Len(q)) = <<>>
  BY <1>1
<1> QED
  BY <1>1, <1>2, ConcatEmptySeq DEF Source
-----------------------------------------------------------------------------
(* The calls of the file system leave a tree. *)

NodesTyped(n) == n \in [Paths -> Nodes \cup {Absent}]

Tree(n) == NodesTyped(n) /\ WellFormed(n)

ClockOK == clock \in Nat

LEMMA NodeShape ==
    /\ Absent \notin Nodes
    /\ \A x \in Nodes : x.type \in {"file", "dir"} /\ x.src \in Paths \cup {New} /\ x.stamp \in Nat
BY NothingAssumption DEF Nodes

LEMMA TouchedSame ==
    ASSUME NEW n, NEW E, NodesTyped(n), ClockOK
    PROVE  /\ NodesTyped(Touched(n, E))
           /\ \A p \in Paths : Touched(n, E)[p] = Absent <=> n[p] = Absent
           /\ \A p \in Paths : \A t : Is(Touched(n, E), p, t) <=> Is(n, p, t)
           /\ \A p \in Paths : Content(Touched(n, E)[p]) = Content(n[p])
<1> DEFINE m == Touched(n, E)
<1>1. ASSUME NEW p \in Paths
      PROVE  /\ m[p] \in Nodes \cup {Absent} /\ (m[p] = Absent <=> n[p] = Absent)
             /\ n[p] # Absent => m[p].type = n[p].type /\ m[p].src = n[p].src
  <2>1. CASE m[p] = n[p]
    BY <2>1 DEF NodesTyped
  <2>2. CASE Is(n, p, "dir") /\ m[p] = [n[p] EXCEPT !.stamp = Stamp]
    <3>1. n[p] \in Nodes /\ Stamp \in Nat
      BY <2>2 DEF NodesTyped, Is, ClockOK, Stamp
    <3>2. m[p] \in Nodes /\ m[p].type = n[p].type /\ m[p].src = n[p].src
      <4> DEFINE x == n[p]
      <4>1. x \in Nodes
        BY <3>1
      <4> HIDE DEF x
      <4>2. [x EXCEPT !.stamp = Stamp] \in Nodes /\ [x EXCEPT !.stamp = Stamp].type = x.type
            /\ [x EXCEPT !.stamp = Stamp].src = x.src
        BY <3>1, <4>1 DEF Nodes
      <4> QED
        BY <2>2, <4>2 DEF x
    <3> QED
      BY <3>1, <3>2, NodeShape
  <2> QED
    BY <2>1, <2>2 DEF Touched
<1>2. m = [p \in Paths |-> m[p]]
  BY DEF Touched
<1> HIDE DEF m
<1>3. NodesTyped(m)
  BY <1>1, <1>2 DEF NodesTyped
<1> QED
  BY <1>1, <1>3 DEF m, Is, Content

LEMMA TouchedTree ==
    ASSUME NEW n, NEW E, NodesTyped(n), WellFormed(n), ClockOK
    PROVE  Tree(Touched(n, E))
<1> DEFINE m == Touched(n, E)
<1>1. NodesTyped(m)
  BY TouchedSame
<1>2. /\ \A p \in Paths : m[p] = Absent <=> n[p] = Absent
      /\ \A p \in Paths : Is(m, p, "dir") <=> Is(n, p, "dir")
  BY TouchedSame
<1> HIDE DEF m
<1>3. WellFormed(m)
  BY <1>2, PathsAssumption DEF WellFormed, Parented
<1> QED
  BY <1>1, <1>3 DEF Tree, m

LEMMA WrittenTree ==
    ASSUME NEW n, NEW p \in Paths, NEW src \in Paths \cup {New},
           Tree(n), ClockOK, Parented(n, p), ~Is(n, p, "dir")
    PROVE  Tree(Written(n, p, src))
<1> DEFINE x == [type |-> "file", src |-> src, stamp |-> Stamp]
           m == [n EXCEPT ![p] = x]
<1>1. x \in Nodes /\ x # Absent
  BY NodeShape DEF Nodes, ClockOK, Stamp
<1> HIDE DEF x
<1>2. NodesTyped(m) /\ m[p] = x /\ \A q \in Paths : q # p => m[q] = n[q]
  BY <1>1 DEF Tree, NodesTyped
<1> HIDE DEF m
<1>3. ASSUME NEW q \in Paths, m[q] # Absent, Len(q) > 1
      PROVE  Is(m, Front(q), "dir")
  <2>1. Front(q) \in Paths /\ Is(n, Front(q), "dir")
    BY <1>2, <1>3, BelowParent DEF Tree, WellFormed, Parented
  <2>2. Front(q) # p
    BY <2>1
  <2> QED
    BY <1>2, <2>1, <2>2 DEF Is
<1>4. WellFormed(m)
  BY <1>3 DEF WellFormed, Parented
<1> QED
  BY <1>2, <1>4, TouchedTree DEF Written, m, x

\* mkdir makes directories of all of S, if nothing in it is a file.
LEMMA MadeDirsTree ==
    ASSUME NEW n, NEW S \in SUBSET Paths, Tree(n), ClockOK,
           \A d \in S : Len(d) > 1 => Front(d) \in S,
           \A d \in S : ~Is(n, d, "file")
    PROVE  /\ Tree(MadeDirs(n, S))
           /\ \A d \in S : Is(MadeDirs(n, S), d, "dir")
           /\ \A q \in Paths \ S : \A t : Is(MadeDirs(n, S), q, t) <=> Is(n, q, t)
<1> DEFINE m == [p \in Paths |-> IF p \in Missing(n, S) THEN NewDir ELSE n[p]]
<1>1. NewDir \in Nodes /\ NewDir.type = "dir" /\ NewDir # Absent
  BY NodeShape DEF Nodes, NewDir, ClockOK, Stamp
<1>2. NodesTyped(m)
  BY <1>1 DEF Tree, NodesTyped
<1>3. \A q \in Paths \ Missing(n, S) : m[q] = n[q]
  OBVIOUS
<1>4. \A d \in S : Is(m, d, "dir")
  <2> TAKE d \in S
  <2>1. CASE n[d] = Absent
    BY <1>1, <2>1 DEF Is, Missing
  <2>2. CASE n[d] # Absent
    <3>1. n[d] \in Nodes /\ n[d].type = "dir"
      BY <2>2, NodeShape DEF Tree, NodesTyped, Is
    <3> QED
      BY <2>2, <3>1 DEF Missing, Is
  <2> QED
    BY <2>1, <2>2
<1>5. \A q \in Paths \ S : m[q] = n[q]
  BY <1>3 DEF Missing
<1> HIDE DEF m
<1>6. ASSUME NEW q \in Paths, m[q] # Absent, Len(q) > 1
      PROVE  Is(m, Front(q), "dir")
  <2>1. Front(q) \in Paths
    BY <1>6, BelowParent
  <2>2. CASE Front(q) \in S
    BY <1>4, <2>2
  <2>3. CASE Front(q) \notin S
    <3>1. q \notin S
      BY <1>6, <2>3
    <3>2. Is(n, Front(q), "dir")
      BY <1>5, <1>6, <3>1 DEF Tree, WellFormed, Parented
    <3> QED
      BY <1>5, <2>1, <2>3, <3>2 DEF Is
  <2> QED
    BY <2>2, <2>3
<1>7. WellFormed(m)
  BY <1>6 DEF WellFormed, Parented
<1>8. Tree(Touched(m, Missing(n, S)))
  BY <1>2, <1>7, TouchedTree
<1>9. \A q \in Paths : \A t : Is(Touched(m, Missing(n, S)), q, t) <=> Is(m, q, t)
  BY <1>2, TouchedSame
<1>10. \A q \in Paths \ S : \A t : Is(m, q, t) <=> Is(n, q, t)
  BY <1>5 DEF Is
<1> QED
  BY <1>4, <1>8, <1>9, <1>10 DEF MadeDirs, m

\* A removal takes with it whatever lies below.
LEMMA RemovedTree ==
    ASSUME NEW n, NEW G \in SUBSET Paths, NEW E, Tree(n), ClockOK,
           \A d \in G : \A q \in Below[d] : n[q] # Absent => q \in G
    PROVE  Tree(Touched([q \in Paths |-> IF q \in G THEN Absent ELSE n[q]], E))
<1> DEFINE m == [q \in Paths |-> IF q \in G THEN Absent ELSE n[q]]
<1>1. NodesTyped(m) /\ \A q \in Paths : m[q] = IF q \in G THEN Absent ELSE n[q]
  BY DEF Tree, NodesTyped
<1> HIDE DEF m
<1>2. ASSUME NEW q \in Paths, m[q] # Absent, Len(q) > 1
      PROVE  Is(m, Front(q), "dir")
  <2>1. q \notin G /\ n[q] # Absent
    BY <1>1, <1>2
  <2>2. Front(q) \in Paths /\ q \in Below[Front(q)] /\ Is(n, Front(q), "dir")
    BY <1>2, <2>1, BelowParent DEF Tree, WellFormed, Parented
  <2>3. Front(q) \notin G
    BY <2>1, <2>2
  <2> QED
    BY <1>1, <2>2, <2>3 DEF Is
<1>3. WellFormed(m)
  BY <1>2 DEF WellFormed, Parented
<1> QED
  BY <1>1, <1>3, TouchedTree DEF m

LEMMA AncestorsClosed ==
    ASSUME NEW p \in Paths, NEW d \in Ancestors[p] \cup {p}, Len(d) > 1
    PROVE  Front(d) \in Ancestors[p]
<1>1. d \in Paths /\ Front(d) \in Paths /\ d \in Below[Front(d)] /\ Front(d) \in Ancestors[d]
  BY Relatives, BelowParent
<1>2. CASE d = p
  BY <1>1, <1>2
<1>3. CASE d \in Ancestors[p]
  BY <1>1, <1>3, Relatives, BelowTransitive
<1> QED
  BY <1>2, <1>3

LEMMA SubtreeRemovedTree ==
    ASSUME NEW n, NEW p \in Paths, Tree(n), ClockOK
    PROVE  Tree(Removed(n, p))
<1>1. Subtree[p] \in SUBSET Paths /\ \A d \in Subtree[p] : \A q \in Below[d] : q \in Subtree[p]
  BY Relatives, BelowTransitive
<1> QED
  BY <1>1, RemovedTree DEF Removed

\* Whatever lies below a ghost directory is one itself.
LEMMA WithoutGhostsTree ==
    ASSUME NEW n, NEW p \in Paths, Tree(n), ClockOK
    PROVE  Tree(WithoutGhosts(n, p))
<1>1. Ghosts(n, p) \in SUBSET Paths
  BY Relatives DEF Ghosts
<1>2. ASSUME NEW d \in Ghosts(n, p), NEW q \in Below[d], n[q] # Absent
      PROVE  q \in Ghosts(n, p)
  <2>1. d \in Ancestors[p] /\ d \in Paths /\ q \in Paths /\ d \in Subtree[d]
    BY Relatives DEF Ghosts
  <2>2. Ghost(n, p, d)
    BY <2>1 DEF Ghosts
  <2>3. q \in Ancestors[p]
    BY <1>2, <2>2 DEF Ghost
  <2>4. ASSUME NEW e \in Subtree[q]
        PROVE  e \in Subtree[d]
    BY <2>1, Relatives, BelowTransitive
  <2> QED
    BY <2>3, <2>4 DEF Ghosts
<1> QED
  BY <1>1, <1>2, RemovedTree DEF WithoutGhosts

\* What is renamed is a tree at its new place.
LEMMA MovedTree ==
    ASSUME NEW n, NEW p \in Paths, NEW q \in Paths, Tree(n), ClockOK, CanMove(n, p, q)
    PROVE  Tree(Moved(n, p, q))
<1> DEFINE m == [r \in Paths |->
               CASE r \in Subtree[p] -> Absent
                 [] r \in Subtree[q] -> IF Source(p, q, r) \in Paths
                                      THEN n[Source(p, q, r)] ELSE Absent
                 [] OTHER -> n[r]]
<1>1. q \notin Subtree[p] /\ p \notin Subtree[q] /\ Parented(n, q)
  BY DEF CanMove
<1>2. \A r \in Paths : ~(r \in Subtree[p] /\ r \in Subtree[q])
  BY <1>1, Relatives, AncestorsCompare
<1>3. \A r \in Subtree[p] : m[r] = Absent
  BY <1>2, Relatives
<1>4. \A r \in Subtree[q] : m[r] = IF Source(p, q, r) \in Paths THEN n[Source(p, q, r)] ELSE Absent
  BY <1>2, Relatives
<1>5. \A r \in Paths : r \notin Subtree[p] /\ r \notin Subtree[q] => m[r] = n[r]
  OBVIOUS
<1>6. m = [r \in Paths |-> m[r]]
  OBVIOUS
<1> HIDE DEF m
<1>7. NodesTyped(m)
  <2>1. \A r \in Paths : m[r] \in Nodes \cup {Absent}
    BY <1>3, <1>4, <1>5 DEF Tree, NodesTyped
  <2> QED
    BY <1>6, <2>1 DEF NodesTyped
<1>8. ASSUME NEW r \in Paths, m[r] # Absent, Len(r) > 1
      PROVE  Is(m, Front(r), "dir")
  <2> DEFINE f == Front(r)
  <2>1. f \in Paths /\ r \in Below[f]
    BY <1>8, BelowParent
  <2>2. r \notin Subtree[p]
    BY <1>3, <1>8
  <2>3. f \notin Subtree[p]
    BY <2>1, <2>2, Relatives, BelowTransitive
  <2>4. CASE r = q
    <3>1. f \notin Subtree[q]
      <4>1. f # q /\ q \notin Below[q] /\ q \in Below[f]
        BY <1>8, <2>1, <2>4, BelowIsLonger
      <4> QED
        BY <2>1, <4>1, Relatives, BelowTransitive
    <3>2. m[f] = n[f] /\ Is(n, f, "dir")
      BY <1>1, <1>5, <1>8, <2>1, <2>3, <2>4, <3>1 DEF Parented
    <3> QED
      BY <3>2 DEF Is
  <2>5. CASE r \in Below[q]
    <3> DEFINE s == Source(p, q, r)
    <3>1. s \in Paths /\ n[s] # Absent
      BY <1>4, <1>8, <2>5, Relatives
    <3>2. f \in Subtree[q] /\ Len(s) > 1 /\ Source(p, q, f) = Front(s)
      BY <2>5, <3>1, SourceBelow
    <3>3. Front(s) \in Paths /\ Is(n, Front(s), "dir")
      BY <3>1, <3>2, BelowParent DEF Tree, WellFormed, Parented
    <3>4. m[f] = n[Front(s)]
      BY <1>4, <3>2, <3>3
    <3> QED
      BY <3>3, <3>4 DEF Is
  <2>6. CASE r \notin Subtree[q]
    <3>1. f \notin Subtree[q]
      BY <2>1, <2>6, Relatives, BelowTransitive
    <3>2. m[r] = n[r] /\ m[f] = n[f]
      BY <1>5, <2>1, <2>2, <2>3, <2>6, <3>1
    <3>3. Is(n, f, "dir")
      BY <1>8, <3>2 DEF Tree, WellFormed, Parented
    <3> QED
      BY <3>2, <3>3 DEF Is
  <2> QED
    BY <2>4, <2>5, <2>6, Relatives
<1>9. WellFormed(m)
  BY <1>8 DEF WellFormed, Parented
<1> QED
  BY <1>7, <1>9, TouchedTree DEF Moved, m

\* A restore that is possible leaves a tree.
LEMMA RestoredTree ==
    ASSUME NEW n, NEW p \in Paths, Tree(n), ClockOK, CanRestore(n, p),
           backup[p] \in Contents \cup {Absent}
    PROVE  Tree(Restored(n, p))
<1>1. CASE backup[p] = Absent
  BY <1>1, SubtreeRemovedTree DEF Restored
<1>2. /\ Ancestors[p] \in SUBSET Paths
      /\ \A d \in Ancestors[p] : Len(d) > 1 => Front(d) \in Ancestors[p]
      /\ \A d \in {p} \cup Ancestors[p] : Len(d) > 1 => Front(d) \in {p} \cup Ancestors[p]
  BY Relatives, AncestorsClosed
<1>3. CASE backup[p] # Absent /\ backup[p].type = "dir"
  <2>1. \A d \in {p} \cup Ancestors[p] : ~Is(n, d, "file")
    BY <1>3 DEF CanRestore, Clear
  <2>2. Tree(MadeDirs(n, {p} \cup Ancestors[p]))
    BY <1>2, <2>1, MadeDirsTree
  <2> QED
    BY <1>3, <2>2 DEF Restored
<1>4. CASE backup[p] # Absent /\ backup[p].type # "dir"
  <2> DEFINE m == MadeDirs(n, Ancestors[p])
  <2>1. Clear(n, p) /\ ~Is(n, p, "dir")
    BY <1>4 DEF CanRestore
  <2>2. p \notin Ancestors[p]
    BY Relatives, BelowIsLonger
  <2>3. Tree(m) /\ (\A d \in Ancestors[p] : Is(m, d, "dir")) /\ ~Is(m, p, "dir")
    BY <1>2, <2>1, <2>2, MadeDirsTree DEF Clear
  <2>4. Parented(m, p)
    BY <2>3, BelowParent DEF Parented
  <2>5. backup[p].src \in Paths \cup {New}
    BY <1>4 DEF Contents
  <2> HIDE DEF m
  <2>6. Tree(Written(m, p, backup[p].src))
    BY <2>3, <2>4, <2>5, WrittenTree
  <2>7. Tree(Touched(Written(m, p, backup[p].src), {p}))
    BY <2>6, TouchedTree DEF Tree
  <2> QED
    BY <1>4, <2>7 DEF Restored, m
<1> QED
  BY <1>1, <1>3, <1>4
-----------------------------------------------------------------------------
(* The loop of a rollback. *)

FileTypes == {"file", "dir", "unknown"}
Entry == [kind : Kinds, fileType : FileTypes]
EntriesTyped(e) == e \in [Paths -> Entry \cup {None}]

LEMMA EntryShape ==
    /\ None \notin Entry
    /\ \A x \in Entry : x.kind \in Kinds /\ x.fileType \in FileTypes
BY NothingAssumption DEF Entry, FileTypes

\* Of a set of paths one is the longest, by induction on its size.
LEMMA Longest ==
    ASSUME NEW S \in SUBSET Paths, S # {}
    PROVE  \E p \in S : \A q \in S : Length[q] <= Length[p]
<1> DEFINE Has(s) == \E p \in s : \A q \in s : Length[q] <= Length[p]
           T == {n \in Nat : \E s \in SUBSET Paths : s # {} /\ Cardinality(s) = n /\ ~Has(s)}
<1>1. \A s \in SUBSET Paths : IsFiniteSet(s) /\ Cardinality(s) \in Nat
  BY FS_Subset, FS_CardinalityType, PathsAssumption
<1> SUFFICES T = {}
  <2>1. Cardinality(S) \in Nat
    BY <1>1
  <2> QED
    BY <2>1
<1> SUFFICES ASSUME T # {} PROVE FALSE
  OBVIOUS
<1>2. PICK n \in T : \A k \in T : ~(<<k, n>> \in OpToRel(<, Nat))
  <2>1. T \subseteq Nat
    OBVIOUS
  <2> HIDE DEF T
  <2> QED
    BY <2>1, NatLessThanWellFounded, WFMin
<1>3. \A k \in T : ~(k < n)
  BY <1>2 DEF OpToRel
<1>4. PICK s \in SUBSET Paths : s # {} /\ Cardinality(s) = n /\ ~Has(s)
  OBVIOUS
<1>5. PICK x \in s : TRUE
  BY <1>4
<1>6. /\ Cardinality(s \ {x}) = n - 1 /\ n - 1 \in Nat /\ n - 1 < n
      /\ s \ {x} \in SUBSET Paths
  <2>1. Cardinality(s \ {x}) = n - 1 /\ Cardinality(s \ {x}) \in Nat
    BY <1>1, <1>4, <1>5, FS_RemoveElement
  <2> QED
    BY <2>1
<1>7. CASE s \ {x} = {}
  <2>1. s = {x} /\ Length[x] \in Nat
    BY <1>5, <1>7, LengthAssumption
  <2> QED
    BY <1>4, <2>1
<1>8. CASE s \ {x} # {}
  <2>1. Has(s \ {x})
    BY <1>3, <1>6, <1>8
  <2>2. PICK y \in s \ {x} : \A q \in s \ {x} : Length[q] <= Length[y]
    BY <2>1
  <2>3. Length[x] \in Nat /\ Length[y] \in Nat /\ \A q \in s : Length[q] \in Nat
    BY <1>5, <2>2, LengthAssumption
  <2>4. CASE Length[x] <= Length[y]
    <3>1. y \in s /\ \A q \in s : Length[q] <= Length[y]
      BY <2>2, <2>4
    <3> QED
      BY <1>4, <3>1
  <2>5. CASE Length[y] < Length[x]
    <3>1. x \in s /\ \A q \in s : Length[q] <= Length[x]
      BY <1>5, <2>2, <2>3, <2>5
    <3> QED
      BY <1>4, <3>1
  <2> QED
    BY <2>3, <2>4, <2>5
<1> QED
  BY <1>7, <1>8

\* There is always an entry whose turn it is.
LEMMA FirstExists ==
    ASSUME NEW e, EntriesTyped(e), NEW S \in SUBSET ToUndo(e), S # {}
    PROVE  First(e, S) \in S /\ \A q \in S : ~Before(e, q, First(e, S))
<1>1. \A q \in S : q \in Paths /\ e[q] \in Entry /\ e[q].kind \in Kinds
  BY EntryShape DEF EntriesTyped, ToUndo
<1> DEFINE T == {Turn[e[q].kind] : q \in S}
<1>2. T \subseteq Nat /\ T # {} /\ \A q \in S : Turn[e[q].kind] \in Nat
  BY <1>1 DEF Turn, Kinds
<1>3. PICK n \in T : \A k \in T : ~(<<k, n>> \in OpToRel(<, Nat))
  <2> HIDE DEF T
  <2> QED
    BY <1>2, NatLessThanWellFounded, WFMin
<1>4. n \in Nat /\ \A q \in S : ~(Turn[e[q].kind] < n)
  <2>1. \A k \in T : ~(k < n)
    BY <1>2, <1>3 DEF OpToRel
  <2> QED
    BY <1>2, <2>1
<1> DEFINE A == {q \in S : Turn[e[q].kind] = n}
<1>5. A \in SUBSET Paths /\ A # {}
  BY <1>1, <1>3
<1>6. PICK p \in A : \A q \in A : Length[q] <= Length[p]
  BY <1>5, Longest
<1>7. ASSUME NEW q \in S
      PROVE  ~Before(e, q, p)
  <2>1. p \in Paths /\ q \in Paths /\ Length[p] \in Nat /\ Length[q] \in Nat /\ Turn[e[p].kind] = n
    BY <1>1, <1>6, LengthAssumption
  <2>2. e[q].kind = e[p].kind => Length[q] <= Length[p]
    BY <1>6, <2>1
  <2> QED
    BY <1>4, <2>1, <2>2 DEF Before
<1> DEFINE Good(x) == \A q \in S : ~Before(e, q, x)
<1>8. p \in S /\ Good(p)
  BY <1>6, <1>7
<1>9. First(e, S) = CHOOSE x \in S : Good(x)
  BY DEF First
<1> HIDE DEF Good
<1>10. First(e, S) \in S /\ Good(First(e, S))
  BY <1>8, <1>9
<1> QED
  BY <1>10 DEF Good

\* What the loop works on: a tree, and the entries it has not come to.
Run == [todo : SUBSET Paths, node : [Paths -> Nodes \cup {Absent}],
        dirty : [Paths -> Entry \cup {None}], thrown : BOOLEAN]

RunOK(e, run) ==
    /\ run \in Run
    /\ WellFormed(run.node)
    /\ run.todo \subseteq ToUndo(e)
    /\ \A p \in run.todo : run.dirty[p] = e[p]

BackupTyped == backup \in [Paths -> Contents \cup {None, Absent}]

LEMMA RunShape ==
    ASSUME NEW t \in SUBSET Paths, NEW n \in [Paths -> Nodes \cup {Absent}],
           NEW d \in [Paths -> Entry \cup {None}], NEW b \in BOOLEAN
    PROVE  LET run == [todo |-> t, node |-> n, dirty |-> d, thrown |-> b]
           IN  run \in Run /\ run.todo = t /\ run.node = n /\ run.dirty = d /\ run.thrown = b
BY DEF Run

LEMMA RunParts ==
    ASSUME NEW run \in Run
    PROVE  /\ run.todo \in SUBSET Paths /\ run.node \in [Paths -> Nodes \cup {Absent}]
           /\ run.dirty \in [Paths -> Entry \cup {None}] /\ run.thrown \in BOOLEAN
BY DEF Run

LEMMA RunExcept ==
    ASSUME NEW run \in Run, NEW p \in Paths, NEW n, NEW v
    PROVE  /\ [run EXCEPT !.thrown = v]
                = [todo |-> run.todo, node |-> run.node, dirty |-> run.dirty, thrown |-> v]
           /\ [[run EXCEPT !.dirty[p] = None] EXCEPT !.node = n]
                = [todo |-> run.todo, node |-> n, dirty |-> [run.dirty EXCEPT ![p] = None],
                   thrown |-> run.thrown]
           /\ [run EXCEPT !.todo = n]
                = [todo |-> n, node |-> run.node, dirty |-> run.dirty, thrown |-> run.thrown]
<1> DEFINE t == run.todo
           m == run.node
           d == run.dirty
           b == run.thrown
<1>1. run = [todo |-> t, node |-> m, dirty |-> d, thrown |-> b]
  BY DEF Run
<1>2. d \in [Paths -> Entry \cup {None}]
  BY RunParts
<1> HIDE DEF t, m, d, b
<1>3. [run EXCEPT !.thrown = v] = [todo |-> t, node |-> m, dirty |-> d, thrown |-> v]
  BY <1>1
<1> DEFINE x == [run EXCEPT !.dirty[p] = None]
<1>4. x = [todo |-> t, node |-> m, dirty |-> [d EXCEPT ![p] = None], thrown |-> b]
  BY <1>1
<1> HIDE DEF x
<1>5. [x EXCEPT !.node = n]
        = [todo |-> t, node |-> n, dirty |-> [d EXCEPT ![p] = None], thrown |-> b]
  BY <1>4
<1>6. [run EXCEPT !.todo = n] = [todo |-> n, node |-> m, dirty |-> d, thrown |-> b]
  BY <1>1
<1> QED
  BY <1>3, <1>5, <1>6 DEF t, m, d, b, x

\* A directory without a backup is passed over.
Passed(d, p) ==
    d[p].kind \notin {"created", "deleted"} /\ d[p].fileType = "dir" /\ backup[p] = None

\* What one turn of the loop may do.
LEMMA UndoCases ==
    ASSUME NEW run \in Run, NEW p \in Paths
    PROVE  \/ run.thrown /\ Undo(run, p) = run
           \/ /\ ~run.thrown
              /\ \E v \in BOOLEAN : /\ Undo(run, p) = [run EXCEPT !.thrown = v]
                                   /\ (v = TRUE \/ Passed(run.dirty, p))
           \/ /\ ~run.thrown /\ run.dirty[p].kind = "created"
              /\ Undo(run, p) = [[run EXCEPT !.dirty[p] = None] EXCEPT
                                    !.node = WithoutGhosts(Removed(run.node, p), p)]
           \/ /\ ~run.thrown /\ run.dirty[p].kind # "created"
              /\ backup[p] # None /\ CanRestore(run.node, p)
              /\ Undo(run, p) = [[run EXCEPT !.dirty[p] = None] EXCEPT
                                    !.node = Restored(run.node, p)]
<1> DEFINE kind == run.dirty[p].kind
           fails == run.dirty[p].fileType # "dir" \/ kind = "deleted"
<1>1. CASE run.thrown
  BY <1>1 DEF Undo
<1>2. CASE ~run.thrown /\ kind = "created"
  BY <1>2 DEF Undo
<1>3. CASE ~run.thrown /\ kind # "created" /\ backup[p] = None
  <2>1. Undo(run, p) = [run EXCEPT !.thrown = fails]
    BY <1>3 DEF Undo
  <2>2. fails \in BOOLEAN /\ (fails = TRUE \/ Passed(run.dirty, p))
    BY <1>3 DEF Passed
  <2> QED
    BY <1>3, <2>1, <2>2, Zenon
<1>4. CASE ~run.thrown /\ kind # "created" /\ backup[p] # None
  <2>1. Undo(run, p) = IF CanRestore(run.node, p)
                       THEN [[run EXCEPT !.dirty[p] = None] EXCEPT !.node = Restored(run.node, p)]
                       ELSE [run EXCEPT !.thrown = TRUE]
    BY <1>4 DEF Undo
  <2>2. CASE CanRestore(run.node, p)
    BY <1>4, <2>1, <2>2
  <2>3. CASE ~CanRestore(run.node, p)
    <3>1. Undo(run, p) = [run EXCEPT !.thrown = TRUE]
      BY <2>1, <2>3
    <3> QED
      BY <1>4, <3>1, Zenon
  <2> QED
    BY <2>2, <2>3
<1> QED
  BY <1>1, <1>2, <1>3, <1>4

\* r is what the run is after the turn of p.
Turned(e, run, p, r) ==
    /\ run.thrown => r.thrown
    /\ \A q \in Paths : r.dirty[q] \in {run.dirty[q], None}
    /\ \/ r.node = run.node /\ (r.thrown \/ Passed(e, p))
       \/ /\ e[p].kind = "created"
          /\ r.node = WithoutGhosts(Removed(run.node, p), p)
       \/ /\ e[p].kind # "created" /\ backup[p] # None /\ CanRestore(run.node, p)
          /\ r.node = Restored(run.node, p)

LEMMA UndoKeeps ==
    ASSUME NEW e, NEW run, RunOK(e, run), NEW p \in run.todo, ClockOK, BackupTyped
    PROVE  /\ Undo(run, p) \in Run /\ WellFormed(Undo(run, p).node)
           /\ Undo(run, p).todo = run.todo
           /\ \A q \in run.todo \ {p} : Undo(run, p).dirty[q] = e[q]
           /\ Turned(e, run, p, Undo(run, p))
<1> DEFINE u == Undo(run, p)
           d == [run.dirty EXCEPT ![p] = None]
           Good(x) == /\ x \in Run /\ WellFormed(x.node) /\ x.todo = run.todo
                      /\ \A q \in run.todo \ {p} : x.dirty[q] = e[q]
<1>1. /\ run \in Run /\ p \in Paths /\ Tree(run.node)
      /\ run.todo \in SUBSET Paths /\ run.dirty \in [Paths -> Entry \cup {None}]
      /\ run.thrown \in BOOLEAN
      /\ \A q \in run.todo : run.dirty[q] = e[q]
  BY RunParts DEF RunOK, Tree, NodesTyped
<1>2. d \in [Paths -> Entry \cup {None}] /\ \A q \in run.todo \ {p} : d[q] = e[q]
  BY <1>1
<1>3. ASSUME NEW n, Tree(n), u = [[run EXCEPT !.dirty[p] = None] EXCEPT !.node = n]
      PROVE  /\ Good(u) /\ u.node = n /\ u.thrown = run.thrown
             /\ \A q \in Paths : u.dirty[q] \in {run.dirty[q], None}
  <2>1. u = [todo |-> run.todo, node |-> n, dirty |-> d, thrown |-> run.thrown]
    BY <1>1, <1>3, RunExcept
  <2>2. n \in [Paths -> Nodes \cup {Absent}] /\ WellFormed(n)
    BY <1>3 DEF Tree, NodesTyped
  <2> HIDE DEF u, d
  <2>3. /\ u \in Run /\ u.node = n /\ u.todo = run.todo /\ u.dirty = d
        /\ u.thrown = run.thrown
    BY <1>1, <1>2, <2>1, <2>2, RunShape
  <2>4. \A q \in Paths : d[q] \in {run.dirty[q], None}
    BY <1>1 DEF d
  <2> QED
    BY <1>2, <2>2, <2>3, <2>4
<1>4. ASSUME run.thrown, u = run
      PROVE  Good(u) /\ Turned(e, run, p, u)
  BY <1>1, <1>4 DEF Tree, Turned
<1>5. ASSUME ~run.thrown, NEW v \in BOOLEAN, u = [run EXCEPT !.thrown = v],
             v = TRUE \/ Passed(run.dirty, p)
      PROVE  Good(u) /\ Turned(e, run, p, u)
  <2>1. u = [todo |-> run.todo, node |-> run.node, dirty |-> run.dirty, thrown |-> v]
    BY <1>1, <1>5, RunExcept
  <2> HIDE DEF u
  <2>2. /\ u \in Run /\ u.node = run.node /\ u.todo = run.todo /\ u.dirty = run.dirty
        /\ u.thrown = v
    BY <1>1, <2>1, RunShape DEF Tree, NodesTyped
  <2>3. Passed(run.dirty, p) => Passed(e, p)
    BY <1>1 DEF Passed
  <2>4. u.thrown \/ Passed(e, p)
    BY <1>5, <2>2, <2>3
  <2>5. Turned(e, run, p, u)
    BY <1>5, <2>2, <2>4 DEF Turned
  <2> QED
    BY <1>1, <2>2, <2>5 DEF Tree
<1>6. ASSUME ~run.thrown, run.dirty[p].kind = "created",
             u = [[run EXCEPT !.dirty[p] = None] EXCEPT
                    !.node = WithoutGhosts(Removed(run.node, p), p)]
      PROVE  Good(u) /\ Turned(e, run, p, u)
  <2> HIDE DEF Good
  <2>1. Tree(WithoutGhosts(Removed(run.node, p), p))
    BY <1>1, SubtreeRemovedTree, WithoutGhostsTree
  <2>2. /\ Good(u) /\ u.node = WithoutGhosts(Removed(run.node, p), p)
        /\ \A q \in Paths : u.dirty[q] \in {run.dirty[q], None}
    BY <1>3, <1>6, <2>1
  <2> HIDE DEF u
  <2> QED
    BY <1>1, <1>6, <2>2 DEF Turned
<1>7. ASSUME ~run.thrown, run.dirty[p].kind # "created",
             backup[p] # None, CanRestore(run.node, p),
             u = [[run EXCEPT !.dirty[p] = None] EXCEPT !.node = Restored(run.node, p)]
      PROVE  Good(u) /\ Turned(e, run, p, u)
  <2> HIDE DEF Good
  <2>1. backup[p] \in Contents \cup {Absent}
    BY <1>1, <1>7 DEF BackupTyped
  <2>2. Tree(Restored(run.node, p))
    BY <1>1, <1>7, <2>1, RestoredTree
  <2>3. /\ Good(u) /\ u.node = Restored(run.node, p)
        /\ \A q \in Paths : u.dirty[q] \in {run.dirty[q], None}
    BY <1>3, <1>7, <2>2
  <2> HIDE DEF u
  <2> QED
    BY <1>1, <1>7, <2>3 DEF Turned
<1> HIDE DEF Good
<1> DEFINE Fine(x) == Good(x) /\ Turned(e, run, p, x)
           n1 == WithoutGhosts(Removed(run.node, p), p)
           n2 == Restored(run.node, p)
           x1 == [[run EXCEPT !.dirty[p] = None] EXCEPT !.node = n1]
           x2 == [[run EXCEPT !.dirty[p] = None] EXCEPT !.node = n2]
<1>8. \/ run.thrown /\ u = run
      \/ ~run.thrown /\ \E v \in BOOLEAN : /\ u = [run EXCEPT !.thrown = v]
                                          /\ (v = TRUE \/ Passed(run.dirty, p))
      \/ ~run.thrown /\ run.dirty[p].kind = "created" /\ u = x1
      \/ /\ ~run.thrown /\ run.dirty[p].kind # "created"
         /\ backup[p] # None /\ CanRestore(run.node, p) /\ u = x2
  BY <1>1, UndoCases
<1>9. /\ run.thrown /\ u = run => Fine(u)
      /\ ~run.thrown /\ run.dirty[p].kind = "created" /\ u = x1 => Fine(u)
      /\ (/\ ~run.thrown /\ run.dirty[p].kind # "created"
          /\ backup[p] # None /\ CanRestore(run.node, p) /\ u = x2) => Fine(u)
  <2>1. ASSUME run.thrown, u = run PROVE Fine(u)
    BY <1>4, <2>1, Zenon
  <2>2. ASSUME ~run.thrown, run.dirty[p].kind = "created", u = x1 PROVE Fine(u)
    BY <1>6, <2>2, Zenon
  <2>3. ASSUME ~run.thrown, run.dirty[p].kind # "created",
               backup[p] # None, CanRestore(run.node, p), u = x2
        PROVE  Fine(u)
    BY <1>7, <2>3, Zenon
  <2> HIDE DEF u, Fine, x1, x2
  <2> QED
    BY <2>1, <2>2, <2>3
<1>10. ASSUME ~run.thrown,
              \E v \in BOOLEAN : /\ u = [run EXCEPT !.thrown = v]
                               /\ (v = TRUE \/ Passed(run.dirty, p))
       PROVE  Fine(u)
  <2>1. PICK v \in BOOLEAN : /\ u = [run EXCEPT !.thrown = v]
                            /\ (v = TRUE \/ Passed(run.dirty, p))
    BY <1>10, Zenon
  <2> HIDE DEF u
  <2> QED
    BY <1>5, <1>10, <2>1, Zenon
<1> HIDE DEF u, Fine, x1, x2
<1>11. Fine(u)
  BY <1>8, <1>9, <1>10, Zenon
<1> QED
  BY <1>11 DEF u, Good, Fine

LEMMA PassKeeps ==
    ASSUME NEW e, EntriesTyped(e), NEW run, RunOK(e, run), run.todo # {}, ClockOK, BackupTyped
    PROVE  /\ RunOK(e, Pass(e, run))
           /\ First(e, run.todo) \in run.todo
           /\ Pass(e, run).todo = run.todo \ {First(e, run.todo)}
           /\ Turned(e, run, First(e, run.todo), Pass(e, run))
<1> DEFINE p == First(e, run.todo)
           u == Undo(run, p)
           t == run.todo \ {p}
           r == [u EXCEPT !.todo = t]
<1>1. p \in run.todo /\ run.todo \subseteq ToUndo(e) /\ p \in Paths
  BY FirstExists DEF RunOK, ToUndo
<1> HIDE DEF p
<1>2. /\ u \in Run /\ WellFormed(u.node) /\ u.todo = run.todo
      /\ \A q \in run.todo \ {p} : u.dirty[q] = e[q]
      /\ Turned(e, run, p, u)
  BY <1>1, UndoKeeps
<1>3. Pass(e, run) = r
  BY DEF Pass, p
<1> HIDE DEF u
<1>4. r = [todo |-> t, node |-> u.node, dirty |-> u.dirty, thrown |-> u.thrown]
  BY <1>1, <1>2, RunExcept DEF RunOK
<1>5. t \in SUBSET Paths /\ t \subseteq ToUndo(e)
  BY <1>1 DEF ToUndo
<1>6. \A q \in t : u.dirty[q] = e[q]
  BY <1>2
<1> HIDE DEF r, t
<1>7. r \in Run /\ r.todo = t /\ r.node = u.node /\ r.dirty = u.dirty /\ r.thrown = u.thrown
  BY <1>2, <1>4, <1>5, RunParts, RunShape
<1>8. RunOK(e, r)
  BY <1>2, <1>5, <1>6, <1>7 DEF RunOK
<1>9. Turned(e, run, p, r)
  BY <1>2, <1>7 DEF Turned
<1> QED
  BY <1>1, <1>3, <1>7, <1>8, <1>9 DEF t, p

\* The loop as a function of the number of its turns.
Loop(e, k, f) == f = [i \in 0 .. k |-> IF i = 0 THEN Start(e) ELSE Pass(e, f[i - 1])]

\* There is such a function, by induction on k.
LEMMA LoopExists ==
    ASSUME NEW e, NEW k \in Nat
    PROVE  \E f : Loop(e, k, f)
<1> DEFINE T == {n \in Nat : ~\E f : Loop(e, n, f)}
<1> SUFFICES T = {}
  OBVIOUS
<1> SUFFICES ASSUME T # {} PROVE FALSE
  OBVIOUS
<1>1. PICK n \in T : \A j \in T : ~(<<j, n>> \in OpToRel(<, Nat))
  <2>1. T \subseteq Nat
    OBVIOUS
  <2> HIDE DEF T
  <2> QED
    BY <2>1, NatLessThanWellFounded, WFMin
<1>2. \A j \in T : ~(j < n)
  BY <1>1 DEF OpToRel
<1>3. n \in Nat /\ ~\E f : Loop(e, n, f)
  OBVIOUS
<1>4. n # 0
  <2> SUFFICES ASSUME n = 0 PROVE FALSE
    OBVIOUS
  <2> DEFINE f == [i \in 0 .. 0 |-> Start(e)]
  <2>1. Loop(e, 0, f)
    BY DEF Loop
  <2> QED
    BY <1>3, <2>1
<1>5. n - 1 \in Nat /\ n - 1 < n
  BY <1>3, <1>4
<1>6. PICK f : Loop(e, n - 1, f)
  BY <1>2, <1>5
<1> DEFINE g == [i \in 0 .. n |-> IF i < n THEN f[i] ELSE Pass(e, f[n - 1])]
<1>7. ASSUME NEW i \in 0 .. n
      PROVE  g[i] = IF i = 0 THEN Start(e) ELSE Pass(e, g[i - 1])
  <2>1. CASE i = 0
    BY <1>3, <1>4, <1>5, <1>6, <2>1 DEF Loop
  <2>2. CASE i # 0 /\ i < n
    <3>1. i \in 0 .. (n - 1) /\ i - 1 \in 0 .. n /\ i - 1 < n
      BY <1>3, <2>2
    <3>2. f[i] = Pass(e, f[i - 1])
      BY <1>6, <2>2, <3>1 DEF Loop
    <3>3. g[i] = f[i] /\ g[i - 1] = f[i - 1]
      BY <2>2, <3>1
    <3> QED
      BY <2>2, <3>2, <3>3
  <2>3. CASE i = n
    <3>1. n - 1 \in 0 .. n /\ n - 1 < n /\ ~(n < n)
      BY <1>3, <1>4
    <3>2. g[n] = Pass(e, f[n - 1]) /\ g[n - 1] = f[n - 1]
      BY <1>3, <3>1
    <3> QED
      BY <1>4, <2>3, <3>2
  <2> QED
    BY <1>3, <2>1, <2>2, <2>3
<1>8. g = [i \in 0 .. n |-> g[i]]
  OBVIOUS
<1> HIDE DEF g
<1>9. Loop(e, n, g)
  BY <1>7, <1>8 DEF Loop
<1> QED
  BY <1>3, <1>9

LEMMA StartIsRun ==
    ASSUME NEW e, EntriesTyped(e), Tree(node)
    PROVE  /\ Start(e) \in Run /\ Start(e).todo = ToUndo(e) /\ Start(e).node = node
           /\ Start(e).dirty = e /\ Start(e).thrown = FALSE
<1>1. /\ node \in [Paths -> Nodes \cup {Absent}] /\ e \in [Paths -> Entry \cup {None}]
      /\ ToUndo(e) \in SUBSET Paths
  BY DEF Tree, NodesTyped, EntriesTyped, ToUndo
<1> QED
  BY <1>1 DEF Start, Run

\* Every turn leaves a tree and takes one entry.  What each turn keeps, the
\* loop keeps.
LEMMA RunOfKeeps ==
    ASSUME NEW e, EntriesTyped(e), Tree(node), ClockOK, BackupTyped,
           NEW k \in 0 .. Cardinality(ToUndo(e)),
           NEW G, Start(e) \in G,
           \A run \in G : RunOK(e, run) /\ run.todo # {} => Pass(e, run) \in G
    PROVE  /\ RunOK(e, RunOf(e, k)) /\ RunOf(e, k) \in G
           /\ Cardinality(RunOf(e, k).todo) = Cardinality(ToUndo(e)) - k
           /\ k = Cardinality(ToUndo(e)) => RunOf(e, k).todo = {}
<1> DEFINE c == Cardinality(ToUndo(e))
           f == CHOOSE h : h = [i \in 0 .. k |-> IF i = 0 THEN Start(e) ELSE Pass(e, h[i - 1])]
           Good(i) == RunOK(e, f[i]) /\ f[i] \in G /\ Cardinality(f[i].todo) = c - i
           T == {i \in Nat : i <= k /\ ~Good(i)}
<1>1. IsFiniteSet(ToUndo(e)) /\ ToUndo(e) \in SUBSET Paths /\ c \in Nat
  <2>1. ToUndo(e) \in SUBSET Paths
    BY DEF ToUndo
  <2> QED
    BY <2>1, PathsAssumption, FS_Subset, FS_CardinalityType
<1>2. k \in Nat /\ k <= c
  BY <1>1
<1>3. RunOf(e, k) = f[k]
  BY DEF RunOf
<1>4. f = [i \in 0 .. k |-> IF i = 0 THEN Start(e) ELSE Pass(e, f[i - 1])]
  <2>1. \E h : h = [i \in 0 .. k |-> IF i = 0 THEN Start(e) ELSE Pass(e, h[i - 1])]
    BY <1>2, LoopExists DEF Loop
  <2> QED
    BY <2>1, Zenon
<1> HIDE DEF f
<1>5. Good(0)
  <2>1. f[0] = Start(e)
    BY <1>2, <1>4
  <2>2. Start(e) \in Run /\ Start(e).todo = ToUndo(e) /\ Start(e).node = node /\ Start(e).dirty = e
    BY StartIsRun
  <2>3. RunOK(e, Start(e))
    BY <2>2 DEF RunOK, Tree
  <2> QED
    BY <1>1, <2>1, <2>2, <2>3
<1>6. ASSUME NEW i \in Nat, i + 1 <= k, Good(i)
      PROVE  Good(i + 1)
  <2>1. f[i + 1] = Pass(e, f[i])
    <3>1. i + 1 \in 0 .. k /\ i + 1 # 0 /\ (i + 1) - 1 = i
      BY <1>2, <1>6
    <3> QED
      BY <1>4, <3>1
  <2>2. IsFiniteSet(f[i].todo) /\ f[i].todo # {}
    <3>1. IsFiniteSet(f[i].todo)
      BY <1>1, <1>6, FS_Subset DEF RunOK
    <3>2. Cardinality(f[i].todo) # 0
      BY <1>1, <1>2, <1>6
    <3> QED
      BY <3>1, <3>2, FS_EmptySet
  <2> DEFINE p == First(e, f[i].todo)
  <2>3. /\ RunOK(e, f[i + 1]) /\ p \in f[i].todo
        /\ f[i + 1].todo = f[i].todo \ {p}
    BY <1>6, <2>1, <2>2, PassKeeps
  <2>4. Cardinality(f[i + 1].todo) = Cardinality(f[i].todo) - 1
    <3> DEFINE t == f[i].todo
    <3>1. IsFiniteSet(t) /\ p \in t
      BY <2>2, <2>3
    <3> HIDE DEF t, p
    <3>2. Cardinality(t \ {p}) = Cardinality(t) - 1
      BY <3>1, FS_RemoveElement
    <3> QED
      BY <2>3, <3>2 DEF t, p
  <2>5. f[i + 1] \in G
    BY <1>6, <2>1, <2>2
  <2> QED
    BY <1>1, <1>6, <2>3, <2>4, <2>5
<1> HIDE DEF Good
<1>7. T = {}
  <2> SUFFICES ASSUME T # {} PROVE FALSE
    OBVIOUS
  <2>1. PICK n \in T : \A j \in T : ~(<<j, n>> \in OpToRel(<, Nat))
    <3>1. T \subseteq Nat
      OBVIOUS
    <3> HIDE DEF T
    <3> QED
      BY <3>1, NatLessThanWellFounded, WFMin
  <2>2. \A j \in T : ~(j < n)
    BY <2>1 DEF OpToRel
  <2>3. n \in Nat /\ n <= k /\ ~Good(n) /\ n # 0
    BY <1>5
  <2>4. n - 1 \in Nat /\ n - 1 <= k /\ n - 1 < n /\ (n - 1) + 1 = n
    BY <1>2, <2>3
  <2>5. Good(n - 1)
    BY <2>2, <2>4
  <2> QED
    BY <1>6, <2>3, <2>4, <2>5
<1>8. Good(k)
  BY <1>2, <1>7
<1>9. k = c => f[k].todo = {}
  <2> SUFFICES ASSUME k = c PROVE f[k].todo = {}
    OBVIOUS
  <2>1. f[k].todo \in SUBSET ToUndo(e) /\ Cardinality(f[k].todo) = 0
    BY <1>1, <1>2, <1>8 DEF Good, RunOK
  <2> QED
    BY <1>1, <2>1, FS_Subset, FS_EmptySet
<1> QED
  BY <1>3, <1>8, <1>9 DEF Good
-----------------------------------------------------------------------------
(* Every step keeps the types, and a tree. *)

LEMMA ContentTyped ==
    ASSUME NEW x \in Nodes \cup {Absent}
    PROVE  Content(x) \in Contents \cup {Absent} /\ Content(x) # None
<1>1. CASE x = Absent
  BY <1>1, NothingAssumption DEF Content
<1>2. CASE x # Absent
  <2>1. Content(x) = [type |-> x.type, src |-> x.src]
    BY <1>2 DEF Content
  <2>2. Content(x) \in Contents
    BY <1>2, <2>1 DEF Nodes, Contents
  <2> QED
    BY <2>2, NothingAssumption
<1> QED
  BY <1>1, <1>2

LEMMA BackedUpTyped ==
    ASSUME TypeOK, NEW ops
    PROVE  /\ BackedUp(ops) \in [Paths -> Contents \cup {None, Absent}]
           /\ \A p \in Paths : p \in DOMAIN ops /\ Seen(p) => BackedUp(ops)[p] # None
<1> DEFINE b == BackedUp(ops)
<1>1. ASSUME NEW p \in Paths
      PROVE  /\ b[p] \in Contents \cup {None, Absent}
             /\ p \in DOMAIN ops /\ Seen(p) => b[p] # None
  <2>1. Content(node[p]) \in Contents \cup {Absent} /\ Content(node[p]) # None
    BY ContentTyped DEF TypeOK
  <2>2. backup[p] \in Contents \cup {None, Absent}
    BY DEF TypeOK
  <2>3. b[p] = IF p \in DOMAIN ops /\ Seen(p) /\ backup[p] = None
               THEN Content(node[p]) ELSE backup[p]
    BY DEF BackedUp
  <2> QED
    BY <2>1, <2>2, <2>3
<1>2. b = [p \in Paths |-> b[p]]
  BY DEF BackedUp
<1> HIDE DEF b
<1>3. b \in [Paths -> Contents \cup {None, Absent}]
  BY <1>1, <1>2
<1> QED
  BY <1>1, <1>3 DEF b

LEMMA VfsEntryTyped ==
    ASSUME TypeOK, NEW p \in Paths, NEW o, NEW rec \in Contents \cup {Absent}
    PROVE  VfsEntry(p, o, rec) \in Entry
<1>1. VfsKind(p, o, rec) \in Kinds
  BY DEF VfsKind, Kinds
<1>2. Hint(o) \in FileTypes
  BY DEF Hint, FileTypes
<1>3. baseline[p] # Absent => baseline[p].type \in FileTypes
  BY NodeShape DEF TypeOK, FileTypes
<1>4. rec # Absent => rec.type \in FileTypes
  BY DEF Contents, FileTypes
<1> DEFINE ft == CASE baseline[p] # Absent -> baseline[p].type
                   [] baseline[p] = Absent /\ rec # Absent -> rec.type
                   [] OTHER -> Hint(o)
<1>5. ft \in FileTypes
  BY <1>2, <1>3, <1>4
<1>6. VfsEntry(p, o, rec) = [kind |-> VfsKind(p, o, rec), fileType |-> ft]
  BY DEF VfsEntry
<1> HIDE DEF ft
<1> QED
  BY <1>1, <1>5, <1>6 DEF Entry

LEMMA DiffEntryTyped ==
    ASSUME TypeOK, NEW p \in Paths
    PROVE  IF baseline[p] = Captured(p) THEN DiffEntry(p) = None ELSE DiffEntry(p) \in Entry
<1> DEFINE before == baseline[p]
           after == Captured(p)
           kind == CASE before = Absent -> "created"
                     [] after = Absent -> "deleted"
                     [] OTHER -> "modified"
           ft == IF after # Absent THEN after.type ELSE before.type
<1>1. before \in Nodes \cup {Absent} /\ after \in Nodes \cup {Absent}
  BY DEF TypeOK, Captured
<1>2. DiffEntry(p) = IF before = after THEN None ELSE [kind |-> kind, fileType |-> ft]
  BY DEF DiffEntry
<1> HIDE DEF before, after
<1>3. CASE before = after
  BY <1>2, <1>3 DEF before, after
<1>4. CASE before # after
  <2>1. kind \in Kinds
    BY <1>4 DEF Kinds
  <2>2. ft \in FileTypes
    BY <1>1, <1>4, NodeShape DEF FileTypes
  <2> HIDE DEF kind, ft
  <2>3. DiffEntry(p) \in Entry
    BY <1>2, <1>4, <2>1, <2>2 DEF Entry
  <2> QED
    BY <1>4, <2>3 DEF before, after
<1> QED
  BY <1>3, <1>4

LEMMA ReconciledTyped ==
    ASSUME TypeOK
    PROVE  EntriesTyped(Reconciled)
<1>1. \A p \in Paths : DiffEntry(p) \in Entry \cup {None}
  BY DiffEntryTyped
<1> QED
  BY <1>1 DEF EntriesTyped, Reconciled

LEMMA EntriesAreTyped ==
    ASSUME TypeOK, NEW mode
    PROVE  EntriesTyped(Entries(mode))
BY ReconciledTyped DEF Entries, EntriesTyped, TypeOK, Entry, FileTypes

LEMMA TypeIsTree == TypeOK => Tree(node) /\ ClockOK /\ BackupTyped
BY DEF TypeOK, Tree, NodesTyped, ClockOK, BackupTyped

LEMMA PatchedTyped ==
    ASSUME TypeOK, NEW ops, NEW n, Tree(n), Patched(ops, n)
    PROVE  TypeOK'
<1>1. backup' = BackedUp(ops) /\ backup' \in [Paths -> Contents \cup {None, Absent}]
  BY BackedUpTyped DEF Patched
<1>2. ASSUME NEW p \in Paths, p \in DOMAIN ops, Seen(p)
      PROVE  VfsEntry(p, ops[p], backup'[p]) \in Entry
  <2>1. backup'[p] \in Contents \cup {Absent}
    BY <1>1, <1>2, BackedUpTyped
  <2> QED
    BY <2>1, VfsEntryTyped
<1>3. dirty' \in [Paths -> Entry \cup {None}]
  BY <1>2 DEF Patched, TypeOK, Entry, FileTypes
<1>4. clock' \in Nat /\ status' = status
  BY DEF Patched, Change, Step, TypeOK
<1>5. node' \in [Paths -> Nodes \cup {Absent}] /\ WellFormed(node')
  BY DEF Patched, Tree, NodesTyped
<1>6. blind' \subseteq Paths
  BY DEF Patched, TypeOK
<1> QED
  BY <1>1, <1>3, <1>4, <1>5, <1>6 DEF Patched, TypeOK, Entry, FileTypes, WellFormed, Parented, Is

LEMMA PatchedFailsTyped ==
    ASSUME TypeOK, NEW ops, PatchedFails(ops)
    PROVE  TypeOK'
<1>1. backup' \in [Paths -> Contents \cup {None, Absent}]
  BY BackedUpTyped DEF PatchedFails
<1>2. dirty' \in [Paths -> Entry \cup {None}]
  BY DEF PatchedFails, TypeOK, Entry, FileTypes
<1>3. clock' \in Nat /\ status' = status
  BY DEF PatchedFails, Change, Step, TypeOK
<1> QED
  BY <1>1, <1>2, <1>3 DEF PatchedFails, TypeOK, Entry, FileTypes, WellFormed, Parented, Is

LEMMA ByChildTyped ==
    ASSUME TypeOK, NEW n, Tree(n), ByChild(n)
    PROVE  TypeOK'
<1>1. clock' \in Nat /\ status' = status
  BY DEF ByChild, Change, Step, TypeOK
<1>2. node' \in [Paths -> Nodes \cup {Absent}] /\ WellFormed(node')
  BY DEF ByChild, Tree, NodesTyped
<1>3. blind' \subseteq Paths
  BY DEF ByChild, TypeOK
<1> QED
  BY <1>1, <1>2, <1>3 DEF ByChild, TypeOK, WellFormed, Parented, Is

\* The loop leaves a tree and typed entries, whole or cut short.
LEMMA RunOfTyped ==
    ASSUME TypeOK, NEW mode, NEW k \in 0 .. Cardinality(ToUndo(Entries(mode)))
    PROVE  LET run == RunOf(Entries(mode), k)
           IN  /\ run.node \in [Paths -> Nodes \cup {Absent}] /\ WellFormed(run.node)
               /\ run.dirty \in [Paths -> Entry \cup {None}] /\ run.thrown \in BOOLEAN
<1> DEFINE run == RunOf(Entries(mode), k)
<1> DEFINE e == Entries(mode)
<1>1. RunOK(e, run)
  <2>1. EntriesTyped(e) /\ Tree(node) /\ ClockOK /\ BackupTyped
    BY EntriesAreTyped, TypeIsTree
  <2>2. k \in 0 .. Cardinality(ToUndo(e)) /\ run = RunOf(e, k)
    OBVIOUS
  <2> HIDE DEF e, run
  <2>3. Start(e) \in Run
    BY <2>1, StartIsRun
  <2>4. \A r \in Run : RunOK(e, r) /\ r.todo # {} => Pass(e, r) \in Run
    BY <2>1, PassKeeps DEF RunOK
  <2> QED
    BY <2>1, <2>2, <2>3, <2>4, RunOfKeeps
<1> HIDE DEF run
<1>2. /\ run.node \in [Paths -> Nodes \cup {Absent}] /\ WellFormed(run.node)
      /\ run.dirty \in [Paths -> Entry \cup {None}] /\ run.thrown \in BOOLEAN
  BY <1>1, RunParts DEF RunOK
<1> QED
  BY <1>2 DEF run

LEMMA CountOfEntries ==
    ASSUME TypeOK, NEW mode
    PROVE  Cardinality(ToUndo(Entries(mode))) \in Nat
<1>1. ToUndo(Entries(mode)) \in SUBSET Paths
  BY DEF ToUndo
<1> QED
  BY <1>1, PathsAssumption, FS_Subset, FS_CardinalityType

LEMMA RollbackTyped ==
    ASSUME TypeOK, NEW mode \in Modes, Rollback(mode)
    PROVE  TypeOK'
<1> DEFINE c == Cardinality(ToUndo(Entries(mode)))
           run == RunOf(Entries(mode), c)
<1>1. c \in 0 .. c
  BY CountOfEntries
<1>2. /\ run.node \in [Paths -> Nodes \cup {Absent}] /\ WellFormed(run.node)
      /\ run.dirty \in [Paths -> Entry \cup {None}]
  BY <1>1, RunOfTyped
<1>3. /\ node' = run.node /\ dirty' = run.dirty /\ status' \in {"active", mode}
      /\ UNCHANGED <<baseline, declared, tracked, backup, original, blind, late>>
      /\ clock' \in Nat
  BY DEF Rollback, Step, TypeOK
<1> HIDE DEF run
<1> QED
  BY <1>2, <1>3 DEF TypeOK, Entry, FileTypes, WellFormed, Parented, Is

LEMMA RollbackFailsTyped ==
    ASSUME TypeOK, NEW mode \in Modes,
           NEW k \in 0 .. (Cardinality(ToUndo(Entries(mode))) - 1), RollbackFails(mode, k)
    PROVE  TypeOK'
<1> DEFINE run == RunOf(Entries(mode), k)
<1>1. k \in 0 .. Cardinality(ToUndo(Entries(mode)))
  BY CountOfEntries
<1>2. /\ run.node \in [Paths -> Nodes \cup {Absent}] /\ WellFormed(run.node)
      /\ run.dirty \in [Paths -> Entry \cup {None}]
  BY <1>1, RunOfTyped
<1>3. /\ node' = run.node /\ dirty' = run.dirty
      /\ UNCHANGED <<baseline, declared, tracked, backup, status, original, blind, late>>
      /\ clock' \in Nat
  BY DEF RollbackFails, Change, Step, TypeOK
<1> HIDE DEF run
<1> QED
  BY <1>2, <1>3 DEF TypeOK, Entry, FileTypes, WellFormed, Parented, Is

LEMMA TypeStep ==
    ASSUME TypeOK, [Next]_vars
    PROVE  TypeOK'
<1> USE TypeIsTree, PatchedTyped, PatchedFailsTyped, ByChildTyped
<1>1. ASSUME NEW p \in Paths, WriteFile(p)
      PROVE  TypeOK'
  <2>1. New \in Paths \cup {New}
    OBVIOUS
  <2>2. Parented(node, p) /\ ~Is(node, p, "dir") => Tree(Written(node, p, New))
    BY <2>1, WrittenTree
  <2> QED
    BY <1>1, <2>2 DEF WriteFile, Call
<1>2. ASSUME NEW p \in Paths, MakeDir(p)
      PROVE  TypeOK'
  <2>1. /\ {p} \cup Ancestors[p] \in SUBSET Paths
        /\ \A d \in {p} \cup Ancestors[p] : Len(d) > 1 => Front(d) \in {p} \cup Ancestors[p]
    BY Relatives, AncestorsClosed
  <2>2. ASSUME Clear(node, p), ~Is(node, p, "file")
        PROVE  Tree(MadeDirs(node, {p} \cup Ancestors[p]))
    BY <2>1, <2>2, MadeDirsTree DEF Clear
  <2> QED
    BY <1>2, <2>2 DEF MakeDir, Call
<1>3. ASSUME NEW p \in Paths, RemoveTree(p)
      PROVE  TypeOK'
  <2>1. Tree(Removed(node, p))
    BY SubtreeRemovedTree
  <2> QED
    BY <1>3, <2>1 DEF RemoveTree, Call
<1>4. ASSUME NEW p \in Paths, NEW q \in Paths, Rename(p, q)
      PROVE  TypeOK'
  <2>1. CanMove(node, p, q) => Tree(Moved(node, p, q))
    BY MovedTree
  <2> QED
    BY <1>4, <2>1 DEF Rename, Call
<1>5. ASSUME NEW p \in Paths, DeclareFor(p)
      PROVE  TypeOK'
  BY <1>5 DEF DeclareFor, Change, Step, TypeOK, WellFormed, Parented, Is
<1>6. ASSUME NEW p \in Ignored, Declare(p)
      PROVE  TypeOK'
  BY <1>6, IgnoredAssumption DEF Declare, Change, Step, TypeOK, WellFormed, Parented, Is
<1>7. ASSUME NEW p \in Ignored, Track(p)
      PROVE  TypeOK'
  BY <1>7, IgnoredAssumption DEF Track, Change, Step, TypeOK, WellFormed, Parented, Is
<1>8. ASSUME Reconcile
      PROVE  TypeOK'
  BY <1>8, ReconciledTyped DEF Reconcile, Change, Step, TypeOK, WellFormed, Parented, Is,
     EntriesTyped, Entry, FileTypes
<1>9. ASSUME NEW mode \in Modes, Rollback(mode)
      PROVE  TypeOK'
  BY <1>9, RollbackTyped
<1>10. ASSUME NEW mode \in Modes, NEW k \in 0 .. (Cardinality(ToUndo(Entries(mode))) - 1),
             RollbackFails(mode, k)
       PROVE  TypeOK'
  BY <1>10, RollbackFailsTyped
<1>11. CASE UNCHANGED vars
  BY <1>11 DEF vars, TypeOK, WellFormed, Parented, Is
<1> QED
  BY <1>1, <1>2, <1>3, <1>4, <1>5, <1>6, <1>7, <1>8, <1>9, <1>10, <1>11 DEF Next

LEMMA TypeInit == Init => TypeOK
<1> SUFFICES ASSUME Init PROVE TypeOK
  OBVIOUS
<1>1. \A p \in Paths : FirstNode(p) \in Nodes
  BY DEF FirstNode, Nodes
<1>2. node \in [Paths -> Nodes \cup {Absent}]
  BY <1>1 DEF Init
<1>3. original \in [Paths -> Contents \cup {Absent}]
  BY <1>2, ContentTyped DEF Init
<1>4. baseline \in [Paths -> Nodes \cup {Absent}]
  BY <1>2 DEF Init, Captured
<1> QED
  BY <1>2, <1>3, <1>4, IgnoredAssumption DEF Init, TypeOK

\* Variables keep their types, and the workspace stays a tree whatever is
\* called, declared, undone or left half undone.
THEOREM TypeCorrect == Spec => []TypeOK
BY TypeInit, TypeStep, PTL DEF Spec
-----------------------------------------------------------------------------
(* What the calls of a rollback do to the content of the paths. *)

LEMMA ContentIsAbsent ==
    ASSUME NEW x \in Nodes \cup {Absent}
    PROVE  Content(x) = Absent <=> x = Absent
<1>1. CASE x # Absent
  <2>1. Content(x) = [type |-> x.type, src |-> x.src]
    BY <1>1 DEF Content
  <2>2. Content(x) \in Contents
    BY <1>1, <2>1 DEF Nodes, Contents
  <2> QED
    BY <1>1, <2>2, NothingAssumption
<1> QED
  BY <1>1 DEF Content

\* There is one content of directories.
LEMMA DirContent ==
    /\ \A x \in Nodes : x.type = "dir" => Content(x) = [type |-> "dir", src |-> New]
    /\ \A c \in Contents : c.type = "dir" => c = [type |-> "dir", src |-> New]
    /\ \A x \in Nodes : Content(x).type = x.type
<1>1. \A x \in Nodes : x # Absent
  BY NodeShape
<1>2. \A x \in Nodes : Content(x) = [type |-> x.type, src |-> x.src]
  BY <1>1 DEF Content
<1>3. \A x \in Nodes : x.type = "dir" => x.src = New
  BY DEF Nodes
<1> QED
  BY <1>2, <1>3 DEF Contents

\* What exists lies in directories, all the way up.
LEMMA AncestorsAreDirs ==
    ASSUME NEW m, WellFormed(m), NEW p \in Paths, m[p] # Absent, NEW d \in Ancestors[p]
    PROVE  Is(m, d, "dir")
<1> DEFINE Bad(x) == m[x] # Absent /\ x \in Below[d] /\ ~Is(m, d, "dir")
           T == {n \in Nat : \E x \in Paths : Len(x) = n /\ Bad(x)}
<1>1. d \in Paths /\ p \in Below[d] /\ \A x \in Paths : Len(x) \in Nat
  BY Relatives, PathsAssumption
<1> SUFFICES ASSUME ~Is(m, d, "dir") PROVE FALSE
  OBVIOUS
<1>2. T \subseteq Nat /\ Len(p) \in T
  BY <1>1
<1>3. PICK n \in T : \A k \in T : ~(<<k, n>> \in OpToRel(<, Nat))
  <2> HIDE DEF T
  <2> QED
    BY <1>2, NatLessThanWellFounded, WFMin
<1>4. \A k \in T : ~(k < n)
  BY <1>2, <1>3 DEF OpToRel
<1>5. PICK x \in Paths : Len(x) = n /\ Bad(x)
  OBVIOUS
<1>6. Len(x) > 1 /\ (Front(x) = d \/ Front(x) \in Below[d])
  BY <1>1, <1>5, BelowIsLonger
<1>7. Is(m, Front(x), "dir") /\ Front(x) \in Paths
  BY <1>5, <1>6, BelowParent DEF WellFormed, Parented
<1>8. Front(x) \in Below[d] /\ Bad(Front(x))
  BY <1>5, <1>6, <1>7 DEF Is
<1>9. Len(Front(x)) = n - 1
  <2>1. x \in Seq(STRING)
    BY PathsAssumption
  <2> QED
    BY <1>5, <1>6, <2>1, FrontMeaning
<1>10. Len(Front(x)) \in T /\ n \in Nat
  BY <1>1, <1>2, <1>7, <1>8
<1> QED
  BY <1>4, <1>9, <1>10

LEMMA RemovedContent ==
    ASSUME NEW n, NEW G \in SUBSET Paths, NEW E, NodesTyped(n), ClockOK, NEW q \in Paths
    PROVE  LET m == Touched([r \in Paths |-> IF r \in G THEN Absent ELSE n[r]], E)
           IN  /\ q \in G => m[q] = Absent /\ Content(m[q]) = Absent
               /\ q \notin G => /\ Content(m[q]) = Content(n[q])
                                /\ m[q] = Absent <=> n[q] = Absent
                                /\ Is(m, q, "dir") <=> Is(n, q, "dir")
<1> DEFINE h == [r \in Paths |-> IF r \in G THEN Absent ELSE n[r]]
<1>1. NodesTyped(h) /\ h[q] = IF q \in G THEN Absent ELSE n[q]
  BY DEF NodesTyped
<1> HIDE DEF h
<1>2. /\ Touched(h, E)[q] = Absent <=> h[q] = Absent
      /\ Content(Touched(h, E)[q]) = Content(h[q])
      /\ Is(Touched(h, E), q, "dir") <=> Is(h, q, "dir")
  BY <1>1, TouchedSame
<1>3. Is(h, q, "dir") <=> q \notin G /\ Is(n, q, "dir")
  BY <1>1 DEF Is
<1> QED
  BY <1>1, <1>2, <1>3 DEF h, Content

\* A removal, and the cleaning up after it.
LEMMA UncreatedContent ==
    ASSUME NEW n, NEW p \in Paths, Tree(n), ClockOK, NEW q \in Paths
    PROVE  LET n1 == Removed(n, p)
               n2 == WithoutGhosts(n1, p)
           IN  /\ Tree(n1)
               /\ q \in Subtree[p] => n1[q] = Absent
               /\ q \notin Subtree[p] => /\ Content(n1[q]) = Content(n[q])
                                         /\ n1[q] = Absent <=> n[q] = Absent
                                         /\ Is(n1, q, "dir") <=> Is(n, q, "dir")
               /\ q \in Ghosts(n1, p) => n2[q] = Absent
               /\ q \notin Ghosts(n1, p) => /\ Content(n2[q]) = Content(n1[q])
                                            /\ n2[q] = Absent <=> n1[q] = Absent
<1> DEFINE n1 == Removed(n, p)
<1>1. NodesTyped(n) /\ Tree(n1) /\ NodesTyped(n1)
  BY SubtreeRemovedTree DEF Tree
<1>2. Subtree[p] \in SUBSET Paths
  BY Relatives
<1>3. /\ q \in Subtree[p] => n1[q] = Absent
      /\ q \notin Subtree[p] => /\ Content(n1[q]) = Content(n[q])
                                /\ n1[q] = Absent <=> n[q] = Absent
                                /\ Is(n1, q, "dir") <=> Is(n, q, "dir")
  BY <1>1, <1>2, RemovedContent DEF Removed
<1> HIDE DEF n1
<1>4. Ghosts(n1, p) \in SUBSET Paths
  BY Relatives DEF Ghosts
<1>5. /\ q \in Ghosts(n1, p) => WithoutGhosts(n1, p)[q] = Absent
      /\ q \notin Ghosts(n1, p) => /\ Content(WithoutGhosts(n1, p)[q]) = Content(n1[q])
                                   /\ WithoutGhosts(n1, p)[q] = Absent <=> n1[q] = Absent
  BY <1>1, <1>4, RemovedContent DEF WithoutGhosts
<1> QED
  BY <1>1, <1>3, <1>5 DEF n1

\* mkdir makes directories of what is missing and leaves the rest.
LEMMA MadeDirsContent ==
    ASSUME NEW n, NEW S \in SUBSET Paths, NodesTyped(n), ClockOK
    PROVE  LET m == MadeDirs(n, S)
           IN  /\ NodesTyped(m)
               /\ \A q \in Paths : q \notin S \/ n[q] # Absent => Content(m[q]) = Content(n[q])
               /\ \A q \in S : n[q] = Absent => Is(m, q, "dir")
<1> DEFINE h == [p \in Paths |-> IF p \in Missing(n, S) THEN NewDir ELSE n[p]]
<1>1. NewDir \in Nodes /\ NewDir.type = "dir" /\ NewDir # Absent
  BY NodeShape DEF Nodes, NewDir, ClockOK, Stamp
<1>2. NodesTyped(h)
  BY <1>1 DEF NodesTyped
<1>3. \A q \in Paths : q \notin S \/ n[q] # Absent => h[q] = n[q]
  BY DEF Missing
<1>4. \A q \in S : n[q] = Absent => Is(h, q, "dir")
  BY <1>1 DEF Missing, Is
<1>5. MadeDirs(n, S) = Touched(h, Missing(n, S))
  BY DEF MadeDirs
<1> HIDE DEF h
<1>6. /\ NodesTyped(Touched(h, Missing(n, S)))
      /\ \A q \in Paths : Content(Touched(h, Missing(n, S))[q]) = Content(h[q])
      /\ \A q \in Paths : Is(Touched(h, Missing(n, S)), q, "dir") <=> Is(h, q, "dir")
  BY <1>2, TouchedSame
<1> QED
  BY <1>3, <1>4, <1>5, <1>6

LEMMA WrittenContent ==
    ASSUME NEW n, NEW p \in Paths, NEW src \in Paths \cup {New}, NodesTyped(n), ClockOK
    PROVE  /\ NodesTyped(Written(n, p, src))
           /\ Content(Written(n, p, src)[p]) = [type |-> "file", src |-> src]
           /\ \A q \in Paths : q # p => Content(Written(n, p, src)[q]) = Content(n[q])
<1> DEFINE x == [type |-> "file", src |-> src, stamp |-> Stamp]
           h == [n EXCEPT ![p] = x]
<1>1. x \in Nodes /\ x.type = "file" /\ x.src = src
  BY DEF Nodes, ClockOK, Stamp
<1>2. Content(x) = [type |-> "file", src |-> src]
  <2>1. x # Absent
    BY <1>1, NodeShape
  <2> QED
    BY <1>1, <2>1 DEF Content
<1>3. Written(n, p, src) = Touched(h, Missing(n, {p}))
  BY DEF Written
<1> HIDE DEF x
<1>4. NodesTyped(h) /\ h[p] = x /\ \A q \in Paths : q # p => h[q] = n[q]
  BY <1>1 DEF NodesTyped
<1> HIDE DEF h
<1>5. /\ NodesTyped(Touched(h, Missing(n, {p})))
      /\ \A q \in Paths : Content(Touched(h, Missing(n, {p}))[q]) = Content(h[q])
  BY <1>4, TouchedSame
<1> QED
  BY <1>2, <1>3, <1>4, <1>5

\* A restored path has the content of its backup.  Other paths stay, but for
\* those below a path that was missing, and missing directories above one that
\* was not.
LEMMA RestoredContent ==
    ASSUME NEW n, NEW p \in Paths, Tree(n), ClockOK, CanRestore(n, p),
           backup[p] \in Contents \cup {Absent}
    PROVE  LET m == Restored(n, p)
           IN  /\ Content(m[p]) = backup[p]
               /\ backup[p] = Absent =>
                    \A q \in Paths : IF q \in Subtree[p] THEN m[q] = Absent
                                                         ELSE Content(m[q]) = Content(n[q])
               /\ backup[p] # Absent =>
                    \A q \in Paths \ {p} :
                       n[q] # Absent \/ q \notin Ancestors[p] => Content(m[q]) = Content(n[q])
<1> DEFINE m == Restored(n, p)
<1>1. NodesTyped(n) /\ p \in Subtree[p] /\ Ancestors[p] \in SUBSET Paths /\ p \notin Ancestors[p]
  BY Relatives, BelowIsLonger DEF Tree
<1>2. CASE backup[p] = Absent
  <2>1. m = Removed(n, p)
    BY <1>2 DEF Restored
  <2>2. \A q \in Paths : /\ q \in Subtree[p] => m[q] = Absent
                         /\ q \notin Subtree[p] => Content(m[q]) = Content(n[q])
    BY <2>1, UncreatedContent
  <2> QED
    BY <1>1, <1>2, <2>2 DEF Content
<1>3. CASE backup[p] # Absent /\ backup[p].type = "dir"
  <2> DEFINE S == {p} \cup Ancestors[p]
  <2>1. m = MadeDirs(n, S) /\ S \in SUBSET Paths
    BY <1>1, <1>3 DEF Restored
  <2>2. /\ NodesTyped(m)
        /\ \A q \in Paths : q \notin S \/ n[q] # Absent => Content(m[q]) = Content(n[q])
        /\ \A q \in S : n[q] = Absent => Is(m, q, "dir")
    BY <1>1, <2>1, MadeDirsContent
  <2> HIDE DEF m
  <2>3. backup[p] = [type |-> "dir", src |-> New]
    BY <1>3, DirContent
  <2>4. CASE n[p] = Absent
    <3>1. m[p] \in Nodes /\ m[p].type = "dir"
      BY <2>2, <2>4 DEF Is, NodesTyped
    <3> QED
      BY <1>1, <1>3, <2>2, <2>3, <3>1, DirContent DEF m
  <2>5. CASE n[p] # Absent
    <3>1. n[p] \in Nodes /\ n[p].type = "dir"
      BY <1>1, <1>3, <2>5, NodeShape DEF NodesTyped, CanRestore, Is
    <3> QED
      BY <1>1, <1>3, <2>2, <2>3, <2>5, <3>1, DirContent DEF m
  <2> QED
    BY <2>4, <2>5
<1>4. CASE backup[p] # Absent /\ backup[p].type # "dir"
  <2> DEFINE h == MadeDirs(n, Ancestors[p])
             s == backup[p].src
             w == Written(h, p, s)
  <2>1. m = Touched(w, {p}) /\ s \in Paths \cup {New} /\ backup[p] = [type |-> "file", src |-> s]
    BY <1>4 DEF Restored, Contents
  <2>2. /\ NodesTyped(h)
        /\ \A q \in Paths : q \notin Ancestors[p] \/ n[q] # Absent => Content(h[q]) = Content(n[q])
    BY <1>1, MadeDirsContent
  <2> HIDE DEF m, h, s
  <2>3. /\ NodesTyped(w) /\ Content(w[p]) = [type |-> "file", src |-> s]
        /\ \A q \in Paths : q # p => Content(w[q]) = Content(h[q])
    BY <2>1, <2>2, WrittenContent
  <2> HIDE DEF w
  <2>4. \A q \in Paths : Content(m[q]) = Content(w[q])
    BY <2>1, <2>3, TouchedSame
  <2> QED
    BY <1>4, <2>1, <2>2, <2>3, <2>4 DEF m
<1> QED
  BY <1>2, <1>3, <1>4
-----------------------------------------------------------------------------
(* What the checkpoint knows.  The backups of the paths it may trust are what  *)
(* the paths were at the snapshot, and so is the baseline; the entries to undo *)
(* agree with both.                                                            *)

\* The checkpoint was told of q too late, or saved q too late.
Lost(q) == q \in late \/ (q \in blind /\ backup[q] # None)

\* The paths whose undoing could take p away, or bring it.
Around(p) == IF original[p] # Absent THEN Ancestors[p] ELSE Below[p]

Known(p) == ~Lost(p) /\ \A q \in Around(p) : ~Lost(q)

Right(n, p) == Content(n[p]) = original[p]

KnownRight ==
    \A p \in Paths : Known(p) =>
        /\ backup[p] # None => backup[p] = original[p]
        /\ backup[p] = None /\ p \notin blind => Right(node, p)

BaselineRight ==
    \A p \in Paths :
        /\ InManifest(p) /\ p \notin late => Content(baseline[p]) = original[p]
        /\ ~InManifest(p) => baseline[p] = Absent

EntryRight(x, p) ==
    /\ InManifest(p)
    /\ x.kind = "created" /\ p \notin late => original[p] = Absent
    /\ x.kind # "created" /\ p \notin late =>
         original[p] # Absent \/ backup[p] \notin {None, Absent}

EntriesRight(e) == \A p \in Paths : e[p] # None => EntryRight(e[p], p)

Inv == TypeOK /\ WellFormed(original) /\ KnownRight /\ BaselineRight /\ EntriesRight(dirty)

LEMMA AroundTyped ==
    \A p \in Paths : Around(p) \subseteq Paths /\ Around(p) \subseteq Subtree[p] \cup Ancestors[p]
BY Relatives DEF Around

LEMMA KnowableIsKnown ==
    ASSUME NEW p \in Paths, ~Unknowable(p)
    PROVE  Known(p) /\ p \notin late /\ \A q \in Subtree[p] : ~Lost(q) /\ q \notin late
<1>1. \A q \in Subtree[p] \cup Ancestors[p] : ~Lost(q) /\ q \notin late
  BY DEF Unknowable, Lost
<1> QED
  BY <1>1, AroundTyped, Relatives DEF Known

\* Of two paths, one above the other, that both were there or both were not,
\* what is known of one is known of the other.
LEMMA KnownFromBelow ==
    ASSUME WellFormed(original), NEW p \in Paths, original[p] # Absent,
           \A q \in Ancestors[p] : ~Lost(q), NEW x \in Ancestors[p]
    PROVE  original[x] # Absent /\ Known(x)
<1>1. x \in Paths /\ original[x] # Absent
  BY Relatives, AncestorsAreDirs DEF Is
<1>2. \A q \in Ancestors[x] : q \in Ancestors[p]
  BY <1>1, Relatives, BelowTransitive
<1> QED
  BY <1>1, <1>2 DEF Known, Around

LEMMA KnownFromAbove ==
    ASSUME WellFormed(original), NEW p \in Paths, original[p] = Absent,
           \A q \in Below[p] : ~Lost(q), NEW x \in Below[p]
    PROVE  original[x] = Absent /\ Known(x)
<1>1. x \in Paths /\ p \in Ancestors[x]
  BY Relatives
<1>2. original[x] = Absent
  BY <1>1, AncestorsAreDirs DEF Is
<1>3. \A q \in Below[x] : q \in Below[p]
  BY <1>1, BelowTransitive
<1> QED
  BY <1>1, <1>2, <1>3 DEF Known, Around

\* The undoing of the other paths cannot touch p.
Safe(e, p) ==
    /\ \A q \in Around(p) : ~Lost(q)
    /\ ~Lost(p) \/ (e[p] = None /\ p \in Ignored)

\* A turn of the loop that undoes a created path keeps what is right.
LEMMA UncreatedKeepsRight ==
    ASSUME Inv, NEW e, EntriesRight(e), NEW n, Tree(n), NEW p \in Paths, Safe(e, p), Right(n, p),
           NEW x \in Paths, e[x] # None, e[x].kind = "created"
    PROVE  Right(WithoutGhosts(Removed(n, x), x), p)
<1> DEFINE n1 == Removed(n, x)
           n2 == WithoutGhosts(n1, x)
<1>1. ClockOK /\ WellFormed(original) /\ BaselineRight
  BY TypeIsTree DEF Inv
<1>2. /\ Tree(n1)
      /\ p \in Subtree[x] => n1[p] = Absent
      /\ p \notin Subtree[x] => Content(n1[p]) = Content(n[p])
      /\ p \in Ghosts(n1, x) => n2[p] = Absent
      /\ p \notin Ghosts(n1, x) => Content(n2[p]) = Content(n1[p])
  BY <1>1, UncreatedContent
<1> HIDE DEF n1, n2
<1> SUFFICES Right(n2, p)
  BY DEF n1, n2
<1>3. CASE original[p] = Absent
  BY <1>2, <1>3 DEF Right, Content
<1>4. CASE original[p] # Absent
  <2>1. p \notin Subtree[x]
    <3> SUFFICES ASSUME p \in Subtree[x] PROVE FALSE
      OBVIOUS
    <3>1. x = p \/ x \in Ancestors[p]
      BY Relatives
    <3>2. original[x] # Absent
      BY <1>1, <1>4, <3>1, AncestorsAreDirs DEF Is
    <3>3. x \notin late
      BY <1>4, <3>1 DEF Safe, Around, Lost
    <3> QED
      BY <3>2, <3>3 DEF EntriesRight, EntryRight
  <2>2. p \notin Ghosts(n1, x)
    <3> SUFFICES ASSUME p \in Ghosts(n1, x) PROVE FALSE
      OBVIOUS
    <3>1. p \in Ancestors[x] /\ p \in Subtree[p]
      BY Relatives DEF Ghosts
    <3>2. Ghost(n1, x, p)
      BY <3>1 DEF Ghosts
    <3>3. p \notin Ignored /\ baseline[p] = Absent
      BY <3>2 DEF Ghost
    <3>4. InManifest(p) /\ p \notin late
      BY <3>3 DEF Safe, Lost, InManifest
    <3> QED
      BY <1>1, <1>4, <3>3, <3>4 DEF BaselineRight, Content
  <2> QED
    BY <1>2, <2>1, <2>2 DEF Right
<1> QED
  BY <1>3, <1>4

\* So does one that restores a backup.
LEMMA RestoredKeepsRight ==
    ASSUME Inv, NEW e, EntriesRight(e), NEW n, Tree(n), NEW p \in Paths, Safe(e, p), Right(n, p),
           NEW x \in Paths, e[x] # None, e[x].kind # "created", backup[x] # None,
           CanRestore(n, x)
    PROVE  Right(Restored(n, x), p)
<1> DEFINE m == Restored(n, x)
<1>1. ClockOK /\ WellFormed(original) /\ KnownRight
  BY TypeIsTree DEF Inv
<1>2. backup[x] \in Contents \cup {Absent} /\ original \in [Paths -> Contents \cup {Absent}]
  BY DEF Inv, TypeOK
<1>3. /\ Content(m[x]) = backup[x]
      /\ backup[x] = Absent => IF p \in Subtree[x] THEN m[p] = Absent
                                                  ELSE Content(m[p]) = Content(n[p])
      /\ backup[x] # Absent /\ p # x /\ (n[p] # Absent \/ p \notin Ancestors[x])
           => Content(m[p]) = Content(n[p])
  BY <1>1, <1>2, RestoredContent
<1> HIDE DEF m
<1>4. EntryRight(e[x], x)
  BY DEF EntriesRight
<1>5. ~Lost(x) => original[x] # Absent \/ backup[x] # Absent
  BY <1>4 DEF EntryRight, Lost
<1>6. Known(x) => backup[x] = original[x]
  BY <1>1 DEF KnownRight
<1>7. CASE p = x
  <2>1. Known(p)
    BY <1>7 DEF Safe, Known
  <2> QED
    BY <1>3, <1>6, <1>7, <2>1 DEF Right, m
<1>8. CASE p # x /\ original[p] # Absent
  <2>1. x \in Ancestors[p] => backup[x] # Absent
    BY <1>1, <1>6, <1>8, KnownFromBelow DEF Safe, Around
  <2>2. n[p] # Absent
    BY <1>8 DEF Right, Content
  <2>3. p \in Subtree[x] => x \in Ancestors[p]
    BY <1>8, Relatives
  <2> QED
    BY <1>3, <1>8, <2>1, <2>2, <2>3 DEF Right, m
<1>9. CASE p # x /\ original[p] = Absent
  <2>1. x \in Below[p] => FALSE
    <3> SUFFICES ASSUME x \in Below[p] PROVE FALSE
      OBVIOUS
    <3>1. original[x] = Absent /\ Known(x) /\ ~Lost(x)
      BY <1>1, <1>9, KnownFromAbove DEF Safe, Around
    <3> QED
      BY <1>5, <1>6, <3>1
  <2>2. p \notin Ancestors[x]
    BY <2>1, Relatives
  <2>3. m[p] = Absent => Content(m[p]) = Absent
    BY DEF Content
  <2> QED
    BY <1>3, <1>9, <2>2, <2>3 DEF Right, m
<1> QED
  BY <1>7, <1>8, <1>9

\* A rollback has typed entries that agree with what the checkpoint knows.
Undoable(e) == Inv /\ EntriesTyped(e) /\ EntriesRight(e)

LEMMA UndoableMeans ==
    ASSUME NEW e, Undoable(e)
    PROVE  Tree(node) /\ ClockOK /\ BackupTyped /\ Inv /\ EntriesTyped(e) /\ EntriesRight(e)
BY TypeIsTree DEF Undoable, Inv

LEMMA PassKeepsRight ==
    ASSUME NEW e, Undoable(e), NEW run, RunOK(e, run), run.todo # {},
           NEW p \in Paths, Safe(e, p), Right(run.node, p)
    PROVE  Right(Pass(e, run).node, p)
<1> DEFINE x == First(e, run.todo)
           r == Pass(e, run)
<1>1. x \in run.todo /\ Turned(e, run, x, r)
  BY UndoableMeans, PassKeeps
<1>2. x \in Paths /\ e[x] # None /\ Tree(run.node)
  BY <1>1, RunParts DEF RunOK, ToUndo, Tree, NodesTyped
<1> HIDE DEF x, r
<1>3. CASE r.node = run.node
  BY <1>3 DEF Right, r
<1>4. CASE e[x].kind = "created" /\ r.node = WithoutGhosts(Removed(run.node, x), x)
  BY <1>2, <1>4, UndoableMeans, UncreatedKeepsRight DEF r
<1>5. CASE /\ e[x].kind # "created" /\ backup[x] # None /\ CanRestore(run.node, x)
           /\ r.node = Restored(run.node, x)
  BY <1>2, <1>5, UndoableMeans, RestoredKeepsRight DEF r
<1> QED
  BY <1>1, <1>3, <1>4, <1>5 DEF Turned

\* What is right when a rollback begins, and safe, is right when it ends.
LEMMA LoopKeepsRight ==
    ASSUME NEW e, Undoable(e), NEW k \in 0 .. Cardinality(ToUndo(e)),
           NEW p \in Paths, Safe(e, p), Right(node, p)
    PROVE  Right(RunOf(e, k).node, p)
<1> DEFINE G == {r \in Run : Right(r.node, p)}
<1>1. Start(e) \in G
  BY UndoableMeans, StartIsRun DEF Right
<1>2. ASSUME NEW run \in G, RunOK(e, run), run.todo # {}
      PROVE  Pass(e, run) \in G
  <2>1. Right(Pass(e, run).node, p)
    BY <1>2, PassKeepsRight
  <2>2. Pass(e, run) \in Run
    BY <1>2, UndoableMeans, PassKeeps DEF RunOK
  <2> QED
    BY <2>1, <2>2
<1> HIDE DEF G
<1>3. RunOf(e, k) \in G
  BY <1>1, <1>2, UndoableMeans, RunOfKeeps
<1> QED
  BY <1>3 DEF G

\* The turn of a path puts it right, unless it fails or passes it over.
LEMMA OwnTurn ==
    ASSUME NEW e, Undoable(e), NEW run, NEW r, NEW p \in Paths, e[p] # None, Known(p),
           Tree(run.node), Turned(e, run, p, r), ~r.thrown, ~Passed(e, p)
    PROVE  Right(r.node, p)
<1>1. /\ Inv /\ ClockOK /\ EntriesRight(e)
  BY UndoableMeans
<1>2. EntryRight(e[p], p) /\ p \notin late
  BY <1>1 DEF EntriesRight, Known, Lost
<1>3. CASE e[p].kind = "created" /\ r.node = WithoutGhosts(Removed(run.node, p), p)
  <2> DEFINE n1 == Removed(run.node, p)
             n2 == WithoutGhosts(n1, p)
  <2>1. p \in Subtree[p]
    BY Relatives
  <2>2. /\ n1[p] = Absent
        /\ p \in Ghosts(n1, p) => n2[p] = Absent
        /\ p \notin Ghosts(n1, p) => n2[p] = Absent <=> n1[p] = Absent
    BY <1>1, <2>1, UncreatedContent
  <2> HIDE DEF n1, n2
  <2>3. r.node[p] = Absent
    BY <1>3, <2>2 DEF n1, n2
  <2>4. original[p] = Absent
    BY <1>2, <1>3 DEF EntryRight
  <2> QED
    BY <2>3, <2>4 DEF Right, Content
<1>4. CASE /\ backup[p] # None /\ CanRestore(run.node, p)
           /\ r.node = Restored(run.node, p)
  <2>1. backup[p] \in Contents \cup {Absent}
    BY <1>1, <1>4 DEF Inv, TypeOK
  <2>2. Content(r.node[p]) = backup[p]
    BY <1>1, <1>4, <2>1, RestoredContent
  <2>3. backup[p] = original[p]
    BY <1>1, <1>4 DEF Inv, KnownRight
  <2> QED
    BY <2>2, <2>3 DEF Right
<1> QED
  BY <1>3, <1>4 DEF Turned

LEMMA WholeLoop ==
    ASSUME NEW e
    PROVE  Cardinality(ToUndo(e)) \in 0 .. Cardinality(ToUndo(e))
<1> DEFINE k == Cardinality(ToUndo(e))
<1>1. k \in Nat
  <2>1. ToUndo(e) \in SUBSET Paths
    BY DEF ToUndo
  <2> QED
    BY <2>1, PathsAssumption, FS_Subset, FS_CardinalityType
<1> HIDE DEF k
<1>2. k \in 0 .. k
  BY <1>1
<1> QED
  BY <1>2 DEF k

\* A rollback that succeeds puts right what it has an entry for.
LEMMA LoopPutsRight ==
    ASSUME NEW e, Undoable(e), NEW p \in Paths, e[p] # None, Known(p), ~Passed(e, p),
           ~RunOf(e, Cardinality(ToUndo(e))).thrown
    PROVE  Right(RunOf(e, Cardinality(ToUndo(e))).node, p)
<1> DEFINE k == Cardinality(ToUndo(e))
           Fine(r) == r.thrown \/ p \in r.todo \/ Right(r.node, p)
           G == {r \in Run : Fine(r)}
<1>1. Start(e) \in G
  <2>1. p \in ToUndo(e)
    BY DEF ToUndo
  <2> QED
    BY <2>1, UndoableMeans, StartIsRun
<1>2. ASSUME NEW run \in G, RunOK(e, run), run.todo # {}
      PROVE  Pass(e, run) \in G
  <2> DEFINE x == First(e, run.todo)
             r == Pass(e, run)
  <2>1. /\ RunOK(e, r) /\ x \in run.todo /\ r.todo = run.todo \ {x}
        /\ Turned(e, run, x, r)
    BY <1>2, UndoableMeans, PassKeeps
  <2>2. Right(run.node, p) => Right(r.node, p)
    BY <1>2, PassKeepsRight DEF Safe, Known
  <2>3. Tree(run.node)
    BY <1>2, RunParts DEF RunOK, Tree, NodesTyped
  <2> HIDE DEF x, r
  <2>4. run.thrown => r.thrown
    BY <2>1 DEF Turned
  <2>5. x = p => r.thrown \/ Right(r.node, p)
    BY <2>1, <2>3, OwnTurn
  <2>6. Fine(r)
    BY <1>2, <2>1, <2>2, <2>4, <2>5
  <2> QED
    BY <2>1, <2>6 DEF RunOK, r
<1>3. k \in 0 .. k
  BY WholeLoop
<1> HIDE DEF G
<1>4. RunOf(e, k) \in G /\ RunOf(e, k).todo = {}
  BY <1>1, <1>2, <1>3, UndoableMeans, RunOfKeeps
<1> QED
  BY <1>4 DEF G

\* The entries left are those there were.
LEMMA LoopDropsEntries ==
    ASSUME NEW e, Undoable(e), NEW k \in 0 .. Cardinality(ToUndo(e))
    PROVE  \A q \in Paths : RunOf(e, k).dirty[q] \in {e[q], None}
<1> DEFINE Fine(r) == \A q \in Paths : r.dirty[q] \in {e[q], None}
           G == {r \in Run : Fine(r)}
<1>1. Start(e) \in G
  BY UndoableMeans, StartIsRun
<1>2. ASSUME NEW run \in G, RunOK(e, run), run.todo # {}
      PROVE  Pass(e, run) \in G
  <2> DEFINE r == Pass(e, run)
  <2>1. RunOK(e, r) /\ Turned(e, run, First(e, run.todo), r)
    BY <1>2, UndoableMeans, PassKeeps
  <2> HIDE DEF r
  <2>2. Fine(r)
    BY <1>2, <2>1 DEF Turned
  <2> QED
    BY <2>1, <2>2 DEF RunOK, r
<1> HIDE DEF G
<1>3. RunOf(e, k) \in G
  BY <1>1, <1>2, UndoableMeans, RunOfKeeps
<1> QED
  BY <1>3 DEF G
-----------------------------------------------------------------------------
(* Every step keeps what the checkpoint knows. *)

LEMMA InvInit == Init => Inv
<1> SUFFICES ASSUME Init PROVE Inv
  OBVIOUS
<1>1. TypeOK
  BY TypeInit
<1>2. \A p \in Paths : original[p] = Content(node[p]) /\ node[p] \in Nodes \cup {Absent}
  BY <1>1 DEF Init, TypeOK
<1>3. \A p \in Paths : original[p] # Absent => node[p] # Absent
  BY <1>2 DEF Content
<1>4. \A p \in Paths : Is(node, p, "dir") => Is(original, p, "dir")
  BY <1>2, ContentIsAbsent, DirContent DEF Is
<1>5. WellFormed(original)
  BY <1>1, <1>3, <1>4, PathsAssumption DEF TypeOK, WellFormed, Parented
<1>6. KnownRight
  BY <1>2 DEF Init, KnownRight, Right
<1>7. BaselineRight
  BY <1>2 DEF Init, BaselineRight, Captured
<1>8. EntriesRight(dirty)
  BY DEF Init, EntriesRight
<1> QED
  BY <1>1, <1>5, <1>6, <1>7, <1>8 DEF Inv

LEMMA ReconciledRight ==
    ASSUME TypeOK, BaselineRight
    PROVE  EntriesRight(Reconciled)
<1> SUFFICES ASSUME NEW p \in Paths, DiffEntry(p) # None
             PROVE  EntryRight(DiffEntry(p), p)
  BY DEF EntriesRight, Reconciled
<1>1. baseline[p] \in Nodes \cup {Absent} /\ baseline[p] # Captured(p)
  BY DEF TypeOK, DiffEntry
<1>2. InManifest(p)
  BY <1>1 DEF BaselineRight, Captured
<1>3. p \notin late => Content(baseline[p]) = original[p]
  BY <1>2 DEF BaselineRight
<1>4. DiffEntry(p).kind = "created" <=> baseline[p] = Absent
  BY <1>1 DEF DiffEntry
<1> QED
  BY <1>1, <1>2, <1>3, <1>4, ContentIsAbsent DEF EntryRight

\* A step that leaves the declarations alone, saves what a path is when it saves
\* it, and marks the paths that changed without a backup.
LEMMA ChangeKeepsInv ==
    ASSUME Inv, TypeOK',
           UNCHANGED <<baseline, declared, tracked, original, late>>,
           blind \subseteq blind',
           \A p \in Paths : \/ backup'[p] = backup[p]
                            \/ backup[p] = None /\ backup'[p] = Content(node[p]),
           \A p \in Paths : backup'[p] = None /\ p \notin blind' /\ Right(node, p) => Right(node', p),
           \A p \in Paths : dirty'[p] # None /\ dirty'[p] # dirty[p] =>
              /\ InManifest(p)
              /\ dirty'[p].kind = "created" => baseline[p] = Absent
              /\ dirty'[p].kind # "created" => baseline[p] # Absent \/ backup'[p] \notin {None, Absent}
    PROVE  Inv'
<1>1. /\ TypeOK /\ WellFormed(original) /\ KnownRight /\ BaselineRight /\ EntriesRight(dirty)
      /\ \A p \in Paths : node[p] \in Nodes \cup {Absent} /\ baseline[p] \in Nodes \cup {Absent}
  BY DEF Inv, TypeOK
<1>2. WellFormed(original)'
  BY <1>1 DEF WellFormed, Parented, Is
<1>3. BaselineRight'
  BY <1>1 DEF BaselineRight, InManifest
<1>4. \A p \in Paths : backup[p] # None => backup'[p] # None
  OBVIOUS
<1>5. ASSUME NEW p \in Paths, Known(p)'
      PROVE  /\ backup'[p] # None => backup'[p] = original[p]
             /\ backup'[p] = None /\ p \notin blind' => Right(node', p)
  <2>1. \A q \in Paths : Lost(q) => Lost(q)'
    BY <1>4 DEF Lost
  <2>2. Around(p)' = Around(p) /\ Around(p) \subseteq Paths
    BY AroundTyped DEF Around
  <2>3. Known(p)
    BY <1>5, <2>1, <2>2 DEF Known
  <2>4. /\ backup[p] # None => backup[p] = original[p]
        /\ backup[p] = None /\ p \notin blind => Right(node, p)
    BY <1>1, <2>3 DEF KnownRight
  <2>5. CASE backup'[p] = backup[p]
    BY <2>4, <2>5
  <2>6. CASE backup[p] = None /\ backup'[p] = Content(node[p])
    <3>1. backup'[p] # None
      BY <1>1, <2>6, ContentTyped
    <3>2. p \notin blind
      BY <1>5, <3>1 DEF Known, Lost
    <3> QED
      BY <2>4, <2>6, <3>1, <3>2 DEF Right
  <2> QED
    BY <2>5, <2>6
<1>6. KnownRight'
  BY <1>5 DEF KnownRight, Right
<1>7. ASSUME NEW p \in Paths, dirty'[p] # None
      PROVE  EntryRight(dirty[p], p)'
  <2>1. InManifest(p)' = InManifest(p)
    BY DEF InManifest
  <2>2. CASE dirty'[p] = dirty[p]
    <3>1. EntryRight(dirty[p], p)
      BY <1>1, <1>7, <2>2 DEF EntriesRight
    <3>2. backup[p] \notin {None, Absent} => backup'[p] \notin {None, Absent}
      OBVIOUS
    <3> QED
      BY <2>1, <2>2, <3>1, <3>2 DEF EntryRight
  <2>3. CASE dirty'[p] # dirty[p]
    <3>1. /\ InManifest(p)
          /\ dirty'[p].kind = "created" => baseline[p] = Absent
          /\ dirty'[p].kind # "created" => baseline[p] # Absent \/ backup'[p] \notin {None, Absent}
      BY <1>7, <2>3
    <3>2. p \notin late => Content(baseline[p]) = original[p]
      BY <1>1, <3>1 DEF BaselineRight
    <3>3. Content(baseline[p]) = Absent <=> baseline[p] = Absent
      BY <1>1, ContentIsAbsent
    <3> QED
      BY <2>1, <3>1, <3>2, <3>3 DEF EntryRight
  <2> QED
    BY <2>2, <2>3
<1>8. EntriesRight(dirty)'
  BY <1>7 DEF EntriesRight
<1> QED
  BY <1>2, <1>3, <1>6, <1>8 DEF Inv

\* What a declaration changes: one path, from then on a late one unless the
\* checkpoint saw it already.
LEMMA DeclarationKeepsInv ==
    ASSUME Inv, TypeOK', NEW p \in Paths,
           UNCHANGED <<node, dirty, backup, original, blind>>,
           declared \subseteq declared', tracked \subseteq tracked',
           declared' \cup tracked' = declared \cup tracked \cup {p},
           \A q \in Paths \ {p} : baseline'[q] = baseline[q],
           late' = late \cup {p} \/ (late' = late /\ InManifest(p) /\ baseline' = baseline)
    PROVE  Inv'
<1>1. /\ TypeOK /\ WellFormed(original) /\ KnownRight /\ BaselineRight /\ EntriesRight(dirty)
  BY DEF Inv
<1>2. WellFormed(original)'
  BY <1>1 DEF WellFormed, Parented, Is
<1>3. \A q \in Paths : late \subseteq late' /\ (Lost(q) => Lost(q)') /\ Around(q)' = Around(q)
  BY DEF Lost, Around
<1>4. \A q \in Paths : Known(q)' => Known(q)
  BY <1>3, AroundTyped DEF Known
<1>5. KnownRight'
  BY <1>1, <1>4 DEF KnownRight, Right
<1>6. \A q \in Paths \ {p} : InManifest(q)' = InManifest(q)
  BY DEF InManifest
<1>7. InManifest(p)' /\ \A q \in Paths : InManifest(q) => InManifest(q)'
  BY DEF InManifest
<1>8. BaselineRight'
  BY <1>1, <1>3, <1>6, <1>7 DEF BaselineRight
<1>9. EntriesRight(dirty)'
  BY <1>1, <1>3, <1>7 DEF EntriesRight, EntryRight
<1> QED
  BY <1>2, <1>5, <1>8, <1>9 DEF Inv

LEMMA PatchedKeepsInv ==
    ASSUME Inv, TypeOK', NEW ops, NEW n, Patched(ops, n)
    PROVE  Inv'
<1>1. /\ backup' = BackedUp(ops) /\ node' = n
      /\ UNCHANGED <<baseline, declared, tracked, original, late>>
      /\ blind' = blind \cup {p \in Paths : Content(n[p]) # Content(node[p]) /\ backup'[p] = None}
      /\ dirty' = [p \in Paths |-> IF p \in DOMAIN ops /\ Seen(p)
                                   THEN VfsEntry(p, ops[p], backup'[p]) ELSE dirty[p]]
  BY DEF Patched
<1>2. \A p \in Paths : \/ backup'[p] = backup[p]
                       \/ backup[p] = None /\ backup'[p] = Content(node[p])
  BY <1>1 DEF BackedUp
<1>3. \A p \in Paths : backup'[p] = None /\ p \notin blind' /\ Right(node, p) => Right(node', p)
  BY <1>1 DEF Right
<1>4. ASSUME NEW p \in Paths, dirty'[p] # None, dirty'[p] # dirty[p]
      PROVE  /\ InManifest(p)
             /\ dirty'[p].kind = "created" => baseline[p] = Absent
             /\ dirty'[p].kind # "created" => baseline[p] # Absent \/ backup'[p] \notin {None, Absent}
  <2>1. p \in DOMAIN ops /\ Seen(p) /\ dirty'[p] = VfsEntry(p, ops[p], backup'[p])
    BY <1>1, <1>4
  <2>2. InManifest(p)
    BY <2>1 DEF Seen, InManifest
  <2>3. backup'[p] # None
    BY <1>1, <2>1, BackedUpTyped DEF Inv
  <2>4. dirty'[p].kind = VfsKind(p, ops[p], backup'[p])
    BY <2>1 DEF VfsEntry
  <2>5. dirty'[p].kind = "created" <=> baseline[p] = Absent /\ backup'[p] = Absent
    BY <2>4 DEF VfsKind
  <2> QED
    BY <2>2, <2>3, <2>5
<1> QED
  BY <1>1, <1>2, <1>3, <1>4, ChangeKeepsInv

LEMMA PatchedFailsKeepsInv ==
    ASSUME Inv, TypeOK', NEW ops, PatchedFails(ops)
    PROVE  Inv'
<1>1. /\ backup' = BackedUp(ops) /\ node' = node /\ blind' = blind
      /\ UNCHANGED <<baseline, declared, tracked, original, late>>
      /\ \A p \in Paths : dirty'[p] \in {None, dirty[p]}
  BY DEF PatchedFails
<1>2. \A p \in Paths : \/ backup'[p] = backup[p]
                       \/ backup[p] = None /\ backup'[p] = Content(node[p])
  BY <1>1 DEF BackedUp
<1>3. \A p \in Paths : Right(node, p) => Right(node', p)
  BY <1>1
<1> QED
  BY <1>1, <1>2, <1>3, ChangeKeepsInv

LEMMA ByChildKeepsInv ==
    ASSUME Inv, TypeOK', NEW n, ByChild(n)
    PROVE  Inv'
<1>1. /\ node' = n /\ backup' = backup /\ dirty' = dirty
      /\ UNCHANGED <<baseline, declared, tracked, original, late>>
      /\ blind' = blind \cup {p \in Paths : Content(n[p]) # Content(node[p]) /\ backup[p] = None}
  BY DEF ByChild
<1>2. \A p \in Paths : backup'[p] = None /\ p \notin blind' /\ Right(node, p) => Right(node', p)
  BY <1>1 DEF Right
<1> QED
  BY <1>1, <1>2, ChangeKeepsInv

LEMMA CallKeepsInv ==
    ASSUME Inv, TypeOK', NEW ops, NEW possible, NEW n, Call(ops, possible, n)
    PROVE  Inv'
BY PatchedKeepsInv, PatchedFailsKeepsInv, ByChildKeepsInv DEF Call

LEMMA ReconcileKeepsInv ==
    ASSUME Inv, TypeOK', Reconcile
    PROVE  Inv'
<1>1. /\ dirty' = Reconciled
      /\ UNCHANGED <<node, baseline, declared, tracked, backup, original, blind, late>>
  BY DEF Reconcile
<1>2. WellFormed(original)' /\ KnownRight' /\ BaselineRight'
  BY <1>1 DEF Inv, WellFormed, Parented, Is, KnownRight, Known, Lost, Around, Right,
     BaselineRight, InManifest
<1>3. EntriesRight(Reconciled)
  BY ReconciledRight DEF Inv
<1>4. EntriesRight(dirty)'
  BY <1>1, <1>3 DEF EntriesRight, EntryRight, InManifest
<1> QED
  BY <1>2, <1>4 DEF Inv

LEMMA EntriesAreUndoable ==
    ASSUME Inv, NEW mode
    PROVE  Undoable(Entries(mode))
<1>1. EntriesTyped(Entries(mode))
  BY EntriesAreTyped DEF Inv
<1>2. EntriesRight(Reconciled) /\ EntriesRight(dirty)
  BY ReconciledRight DEF Inv
<1> QED
  BY <1>1, <1>2 DEF Undoable, Entries

\* Whole or cut short, a rollback leaves what it may not touch.
LEMMA UndoneKeepsInv ==
    ASSUME Inv, TypeOK', NEW mode, NEW k \in 0 .. Cardinality(ToUndo(Entries(mode))),
           node' = RunOf(Entries(mode), k).node, dirty' = RunOf(Entries(mode), k).dirty,
           UNCHANGED <<baseline, declared, tracked, backup, original, blind, late>>
    PROVE  Inv'
<1> DEFINE e == Entries(mode)
<1>1. Undoable(e) /\ EntriesRight(e) /\ k \in 0 .. Cardinality(ToUndo(e))
  BY EntriesAreUndoable, UndoableMeans
<1>2. /\ node' = RunOf(e, k).node /\ dirty' = RunOf(e, k).dirty
      /\ KnownRight /\ WellFormed(original) /\ BaselineRight
  BY DEF Inv
<1> HIDE DEF e
<1>3. \A p \in Paths : dirty'[p] \in {e[p], None}
  BY <1>1, <1>2, LoopDropsEntries
<1>4. EntriesRight(dirty)'
  BY <1>1, <1>3 DEF EntriesRight, EntryRight, InManifest
<1>5. ASSUME NEW p \in Paths, Known(p), backup[p] = None, p \notin blind
      PROVE  Right(node', p)
  BY <1>1, <1>2, <1>5, LoopKeepsRight DEF KnownRight, Known, Safe
<1>6. KnownRight'
  BY <1>2, <1>5 DEF KnownRight, Known, Lost, Around, Right
<1>7. WellFormed(original)' /\ BaselineRight'
  BY <1>2 DEF WellFormed, Parented, Is, BaselineRight, InManifest
<1> QED
  BY <1>4, <1>6, <1>7 DEF Inv

LEMMA InvStep ==
    ASSUME Inv, [Next]_vars
    PROVE  Inv'
<1>1. TypeOK'
  BY TypeStep DEF Inv
<1> USE CallKeepsInv
<1>2. ASSUME NEW p \in Paths, WriteFile(p) \/ MakeDir(p) \/ RemoveTree(p)
      PROVE  Inv'
  BY <1>1, <1>2 DEF WriteFile, MakeDir, RemoveTree
<1>3. ASSUME NEW p \in Paths, NEW q \in Paths, Rename(p, q)
      PROVE  Inv'
  BY <1>1, <1>3 DEF Rename
<1>4. ASSUME NEW p \in Paths, DeclareFor(p)
      PROVE  Inv'
  <2>1. \A q \in Paths \ {p} : baseline'[q] = baseline[q]
    BY <1>4 DEF DeclareFor, Inv, TypeOK
  <2>2. /\ declared' = declared \cup {p} /\ late' = late \cup {p} /\ tracked' = tracked
        /\ UNCHANGED <<node, dirty, backup, original, blind>>
    BY <1>4 DEF DeclareFor
  <2> QED
    BY <1>1, <2>1, <2>2, DeclarationKeepsInv
<1>5. ASSUME NEW p \in Ignored, Declare(p) \/ Track(p)
      PROVE  Inv'
  <2>1. /\ UNCHANGED <<node, baseline, dirty, backup, original, blind>>
        /\ late' = late \cup {p} \/ (late' = late /\ InManifest(p))
        /\ \/ declared' = declared \cup {p} /\ tracked' = tracked
           \/ tracked' = tracked \cup {p} /\ declared' = declared
    BY <1>5 DEF Declare, Track
  <2>2. p \in Paths
    BY IgnoredAssumption
  <2> QED
    BY <1>1, <2>1, <2>2, DeclarationKeepsInv
<1>6. ASSUME Reconcile
      PROVE  Inv'
  BY <1>1, <1>6, ReconcileKeepsInv
<1>7. ASSUME NEW mode \in Modes, Rollback(mode)
      PROVE  Inv'
  <2> DEFINE k == Cardinality(ToUndo(Entries(mode)))
  <2>1. k \in 0 .. k
    BY WholeLoop
  <2>2. /\ node' = RunOf(Entries(mode), k).node /\ dirty' = RunOf(Entries(mode), k).dirty
        /\ UNCHANGED <<baseline, declared, tracked, backup, original, blind, late>>
    BY <1>7 DEF Rollback
  <2> QED
    BY <1>1, <2>1, <2>2, UndoneKeepsInv
<1>8. ASSUME NEW mode \in Modes, NEW k \in 0 .. (Cardinality(ToUndo(Entries(mode))) - 1),
             RollbackFails(mode, k)
      PROVE  Inv'
  <2>1. k \in 0 .. Cardinality(ToUndo(Entries(mode)))
    BY CountOfEntries DEF Inv
  <2>2. /\ node' = RunOf(Entries(mode), k).node /\ dirty' = RunOf(Entries(mode), k).dirty
        /\ UNCHANGED <<baseline, declared, tracked, backup, original, blind, late>>
    BY <1>8 DEF RollbackFails
  <2> QED
    BY <1>1, <2>1, <2>2, UndoneKeepsInv
<1>9. CASE UNCHANGED vars
  <2>1. UNCHANGED <<node, baseline, declared, tracked, dirty, backup, original, blind, late>>
    BY <1>9 DEF vars
  <2> QED
    BY <1>1, <2>1, ChangeKeepsInv
<1> QED
  BY <1>2, <1>3, <1>4, <1>5, <1>6, <1>7, <1>8, <1>9 DEF Next
\* A backup of a path the checkpoint was told of in time is what the path was at
\* the snapshot, however often a rollback failed half way before; and so is the
\* baseline, however many paths were declared since (backupFile,
\* addDeclaredOutputToBaseline).
THEOREM KnowledgeIsRight == Spec => [](KnownRight /\ BaselineRight)
<1>1. Inv /\ [Next]_vars => Inv'
  BY InvStep
<1>2. Inv => KnownRight /\ BaselineRight
  BY DEF Inv
<1> QED
  BY <1>1, <1>2, InvInit, PTL DEF Spec
-----------------------------------------------------------------------------
(* What a rollback that succeeds has done. *)

\* d is gone, or it holds something.
Held(n, d) == n[d] = Absent \/ \E q \in Below[d] : n[q] # Absent

\* A directory the checkpoint knows for a created one.
Fresh(d) == d \notin Ignored /\ baseline[d] = Absent /\ ~Unknowable(d)

LEMMA FreshMeans ==
    ASSUME Inv, NEW d \in Paths, Fresh(d)
    PROVE  /\ original[d] = Absent
           /\ \A x \in Below[d] : original[x] = Absent /\ ~Lost(x) /\ x \notin late
           /\ \A x \in Subtree[d] : backup[x] # None => backup[x] = Absent
<1>1. Known(d) /\ d \notin late /\ \A x \in Subtree[d] : ~Lost(x) /\ x \notin late
  BY KnowableIsKnown DEF Fresh
<1>2. InManifest(d)
  BY DEF Fresh, InManifest
<1>3. original[d] = Absent
  BY <1>1, <1>2 DEF Inv, BaselineRight, Fresh, Content
<1>4. \A x \in Below[d] : x \in Subtree[d] /\ original[x] = Absent /\ Known(x)
  BY <1>1, <1>3, KnownFromAbove, Relatives DEF Inv
<1>5. \A x \in Subtree[d] : x \in Paths /\ original[x] = Absent /\ Known(x)
  BY <1>1, <1>3, <1>4, Relatives
<1> QED
  BY <1>1, <1>3, <1>4, <1>5 DEF Inv, KnownRight

\* The undoing of a created path cleans up the directory it empties.
LEMMA UncreatedKeepsHeld ==
    ASSUME Inv, NEW n, Tree(n), NEW d \in Paths, Fresh(d), Held(n, d), NEW x \in Paths
    PROVE  Held(WithoutGhosts(Removed(n, x), x), d)
<1> DEFINE n1 == Removed(n, x)
           n2 == WithoutGhosts(n1, x)
<1>1. ASSUME NEW q \in Paths
      PROVE  /\ q \in Subtree[x] => n1[q] = Absent
             /\ q \notin Subtree[x] => /\ n1[q] = Absent <=> n[q] = Absent
                                       /\ Is(n1, q, "dir") <=> Is(n, q, "dir")
             /\ q \in Ghosts(n1, x) => n2[q] = Absent
             /\ q \notin Ghosts(n1, x) => (n2[q] = Absent <=> n1[q] = Absent)
  BY TypeIsTree, UncreatedContent DEF Inv
<1> HIDE DEF n1, n2
<1> SUFFICES ASSUME n2[d] # Absent, \A q \in Below[d] : n2[q] = Absent
             PROVE  FALSE
  BY DEF Held, n1, n2
<1>2. n1[d] # Absent /\ n[d] # Absent /\ d \notin Subtree[x] /\ d \notin Ghosts(n1, x)
  BY <1>1
<1>3. PICK q \in Below[d] : n[q] # Absent
  BY <1>2 DEF Held
<1>4. q \in Paths /\ n2[q] = Absent /\ WellFormed(n)
  BY <1>3, Relatives DEF Tree
<1>5. \A r \in Below[d] : n1[r] # Absent => r \in Ghosts(n1, x) /\ r \in Ancestors[x]
  BY <1>1, Relatives DEF Ghosts
<1>6. d \in Ancestors[x]
  <2>1. CASE q \in Subtree[x]
    <3>1. q = x \/ x \in Ancestors[q]
      BY <1>4, <2>1, Relatives
    <3>2. d \in Ancestors[q]
      BY <1>3, <1>4, Relatives
    <3>3. q # x => x = d \/ x \in Below[d] \/ d \in Below[x]
      BY <1>4, <3>1, <3>2, AncestorsCompare
    <3> QED
      BY <1>2, <3>1, <3>2, <3>3, Relatives
  <2>2. CASE q \notin Subtree[x]
    <3>1. q \in Ancestors[x]
      BY <1>1, <1>3, <1>4, <1>5, <2>2
    <3> QED
      BY <1>3, <1>4, <3>1, Relatives, BelowTransitive
  <2> QED
    BY <2>1, <2>2
<1>7. Is(n, d, "dir")
  BY <1>3, <1>4, AncestorsAreDirs, Relatives
<1>8. Ghost(n1, x, d)
  BY <1>1, <1>2, <1>5, <1>7 DEF Ghost, Fresh
\* Every directory from d down to x is there, for q is.
<1>9. ASSUME NEW r \in Ancestors[x] \cap Below[d]
      PROVE  n1[r] # Absent
  <2>1. r \in Paths /\ r \notin Subtree[x]
    BY Relatives, BelowIsLonger, BelowTransitive
  <2>2. CASE q \in Subtree[x]
    <3>1. r \in Ancestors[q]
      BY <1>4, <2>1, <2>2, Relatives, BelowTransitive
    <3>2. n[r] # Absent
      BY <1>3, <1>4, <3>1, AncestorsAreDirs DEF Is
    <3> QED
      BY <1>1, <2>1, <3>2
  <2>3. CASE q \notin Subtree[x]
    <3>1. q \in Ghosts(n1, x) /\ q \in Ancestors[x]
      BY <1>1, <1>3, <1>4, <1>5, <2>3
    <3>2. r = q \/ r \in Below[q] \/ q \in Below[r]
      BY <3>1, AncestorsCompare
    <3>3. CASE r = q \/ r \in Below[q]
      <4>1. r \in Subtree[q]
        BY <1>4, <2>1, <3>3, Relatives
      <4>2. Ghost(n1, x, r)
        BY <3>1, <4>1 DEF Ghosts
      <4> QED
        BY <4>2 DEF Ghost, Is
    <3>4. CASE q \in Below[r]
      <4>1. n[r] # Absent
        BY <1>3, <1>4, <2>1, <3>4, Relatives, AncestorsAreDirs DEF Is
      <4> QED
        BY <1>1, <2>1, <4>1
    <3> QED
      BY <3>2, <3>3, <3>4
  <2> QED
    BY <2>2, <2>3
<1>10. ASSUME NEW r \in Ancestors[x] \cap Subtree[d]
       PROVE  Ghost(n1, x, r)
  <2>1. CASE r = d
    BY <1>8, <2>1
  <2>2. CASE r \in Below[d]
    <3>1. r \in Ghosts(n1, x) /\ r \in Ancestors[x] /\ r \in Subtree[r]
      BY <1>5, <1>9, <2>2, Relatives
    <3> QED
      BY <3>1 DEF Ghosts
  <2> QED
    BY <2>1, <2>2, Relatives
<1>11. d \in Ghosts(n1, x)
  BY <1>6, <1>10 DEF Ghosts
<1> QED
  BY <1>2, <1>11

\* A restore takes nothing from a directory known for a created one, and does
\* not make it.
LEMMA RestoredKeepsHeld ==
    ASSUME NEW e, Undoable(e), NEW n, Tree(n), NEW d \in Paths, Fresh(d), Held(n, d),
           NEW x \in Paths, e[x] # None, e[x].kind # "created", backup[x] # None, CanRestore(n, x)
    PROVE  Held(Restored(n, x), d)
<1> DEFINE m == Restored(n, x)
<1>1. /\ Inv /\ ClockOK /\ EntriesRight(e) /\ backup[x] \in Contents \cup {Absent}
  BY UndoableMeans DEF BackupTyped
<1>2. /\ Tree(m) /\ Content(m[x]) = backup[x]
      /\ backup[x] = Absent =>
           \A q \in Paths : IF q \in Subtree[x] THEN m[q] = Absent
                                                ELSE Content(m[q]) = Content(n[q])
      /\ backup[x] # Absent =>
           \A q \in Paths \ {x} :
              n[q] # Absent \/ q \notin Ancestors[x] => Content(m[q]) = Content(n[q])
  BY <1>1, RestoredTree, RestoredContent
<1> HIDE DEF m
<1>3. \A q \in Paths : Content(m[q]) = Content(n[q]) => (m[q] = Absent <=> n[q] = Absent)
  BY <1>2, ContentIsAbsent DEF Tree, NodesTyped
<1>4. EntryRight(e[x], x)
  BY <1>1 DEF EntriesRight
<1>5. x \notin Below[d] /\ (x = d => backup[x] = Absent)
  <2>1. x \in Subtree[d] => backup[x] = Absent
    BY <1>1, FreshMeans
  <2>2. x \in Below[d] => original[x] = Absent /\ x \notin late /\ x \in Subtree[d]
    BY <1>1, FreshMeans, Relatives
  <2>3. d \in Subtree[d]
    BY Relatives
  <2> QED
    BY <1>4, <2>1, <2>2, <2>3 DEF EntryRight
<1>6. CASE backup[x] = Absent
  <2>1. d \in Subtree[x] => m[d] = Absent
    BY <1>2, <1>6
  <2>2. d \notin Subtree[x] => m[d] = Absent <=> n[d] = Absent
    BY <1>2, <1>3, <1>6
  <2>3. ASSUME d \notin Subtree[x], NEW q \in Below[d]
        PROVE  q \notin Subtree[x] /\ (m[q] = Absent <=> n[q] = Absent)
    <3>1. q \in Paths /\ d \in Ancestors[q]
      BY Relatives
    <3>2. q \notin Subtree[x]
      <4> SUFFICES ASSUME q \in Subtree[x] PROVE FALSE
        OBVIOUS
      <4>1. q # x
        BY <1>5
      <4>2. x \in Ancestors[q]
        BY <3>1, <4>1, Relatives
      <4> QED
        BY <1>5, <2>3, <3>1, <4>2, AncestorsCompare, Relatives
    <3> QED
      BY <1>2, <1>3, <1>6, <3>1, <3>2
  <2> QED
    BY <2>1, <2>2, <2>3 DEF Held, m
<1>7. CASE backup[x] # Absent
  <2>1. x # d /\ d \notin Ancestors[x]
    BY <1>5, <1>7, Relatives
  <2>2. m[d] = Absent <=> n[d] = Absent
    BY <1>2, <1>3, <1>7, <2>1
  <2>3. ASSUME NEW q \in Below[d], n[q] # Absent
        PROVE  m[q] # Absent
    <3>1. q \in Paths /\ q # x
      BY <1>5, Relatives
    <3> QED
      BY <1>2, <1>3, <1>7, <2>3, <3>1
  <2> QED
    BY <2>2, <2>3 DEF Held, m
<1> QED
  BY <1>6, <1>7

LEMMA LoopKeepsHeld ==
    ASSUME NEW e, Undoable(e), NEW k \in 0 .. Cardinality(ToUndo(e)),
           NEW d \in Paths, Fresh(d), Held(node, d)
    PROVE  Held(RunOf(e, k).node, d)
<1> DEFINE G == {r \in Run : Held(r.node, d)}
<1>1. Start(e) \in G
  BY UndoableMeans, StartIsRun DEF Held
<1>2. ASSUME NEW run \in G, RunOK(e, run), run.todo # {}
      PROVE  Pass(e, run) \in G
  <2> DEFINE x == First(e, run.todo)
             r == Pass(e, run)
  <2>1. x \in run.todo /\ RunOK(e, r) /\ Turned(e, run, x, r)
    BY <1>2, UndoableMeans, PassKeeps
  <2>2. x \in Paths /\ e[x] # None /\ Tree(run.node) /\ Held(run.node, d)
    BY <1>2, <2>1, RunParts DEF RunOK, ToUndo, Tree, NodesTyped
  <2> HIDE DEF x, r
  <2>3. ASSUME r.node = run.node PROVE Held(r.node, d)
    BY <2>2, <2>3 DEF Held
  <2>4. ASSUME r.node = WithoutGhosts(Removed(run.node, x), x) PROVE Held(r.node, d)
    BY <2>2, <2>4, UndoableMeans, UncreatedKeepsHeld
  <2>5. ASSUME e[x].kind # "created", backup[x] # None, CanRestore(run.node, x),
               r.node = Restored(run.node, x)
        PROVE  Held(r.node, d)
    BY <2>2, <2>5, RestoredKeepsHeld
  <2>6. Held(r.node, d)
    BY <2>1, <2>3, <2>4, <2>5 DEF Turned
  <2> QED
    BY <2>1, <2>6 DEF RunOK, r
<1> HIDE DEF G
<1>3. RunOf(e, k) \in G
  BY <1>1, <1>2, UndoableMeans, RunOfKeeps
<1> QED
  BY <1>3 DEF G

\* The rollback that ends with a new status went through all the entries.
LEMMA SettlesByRollback ==
    ASSUME Inv, [Next]_vars, NEW mode \in Modes, Settles(mode)
    PROVE  LET run == RunOf(Entries(mode), Cardinality(ToUndo(Entries(mode))))
           IN  node' = run.node /\ ~run.thrown
<1>1. status = "active" /\ status' = mode /\ mode # "active"
  BY DEF Settles, Modes
<1>2. PICK m \in Modes : Rollback(m)
  <2>1. ASSUME NEW p \in Paths, WriteFile(p) \/ MakeDir(p) \/ RemoveTree(p)
        PROVE  status' = status
    BY <2>1 DEF WriteFile, MakeDir, RemoveTree, Call, Patched, PatchedFails, ByChild
  <2>2. ASSUME NEW p \in Paths, NEW q \in Paths, Rename(p, q)
        PROVE  status' = status
    BY <2>2 DEF Rename, Call, Patched, PatchedFails, ByChild
  <2>3. ASSUME NEW p, DeclareFor(p) \/ Declare(p) \/ Track(p)
        PROVE  status' = status
    BY <2>3 DEF DeclareFor, Declare, Track
  <2>4. ASSUME NEW m, NEW k, RollbackFails(m, k)
        PROVE  status' = status
    BY <2>4 DEF RollbackFails
  <2>5. Reconcile \/ UNCHANGED vars => status' = status
    BY DEF Reconcile, vars
  <2> QED
    BY <1>1, <2>1, <2>2, <2>3, <2>4, <2>5 DEF Next
<1> DEFINE run(x) == RunOf(Entries(x), Cardinality(ToUndo(Entries(x))))
<1>3. node' = run(m).node /\ status' = IF run(m).thrown THEN "active" ELSE m
  BY <1>2 DEF Rollback
<1>4. m = mode /\ ~run(m).thrown
  BY <1>1, <1>3
<1> QED
  BY <1>3, <1>4

LEMMA RolledBack ==
    ASSUME Inv, [Next]_vars, Settles("rolled back")
    PROVE  TreeRestored
<1> DEFINE e == Reconciled
           k == Cardinality(ToUndo(e))
<1>1. Entries("rolled back") = e /\ Undoable(e) /\ k \in 0 .. k
  <2>1. Entries("rolled back") = e
    BY DEF Entries
  <2>2. Undoable(e)
    BY <2>1, EntriesAreUndoable
  <2> QED
    BY <2>1, <2>2, WholeLoop
<1>2. node' = RunOf(e, k).node /\ ~RunOf(e, k).thrown
  BY <1>1, SettlesByRollback DEF Modes
<1> SUFFICES ASSUME NEW p \in Paths, InManifest(p), ~Unknowable(p), ~Retyped(p)
             PROVE  Right(node', p)
  BY DEF TreeRestored, Right
<1>3. Known(p) /\ p \notin late /\ Safe(e, p)
  BY KnowableIsKnown DEF Known, Safe
<1>4. /\ Content(baseline[p]) = original[p]
      /\ baseline[p] \in Nodes \cup {Absent} /\ node[p] \in Nodes \cup {Absent}
      /\ original[p] \in Contents \cup {Absent}
  BY <1>3 DEF Inv, TypeOK, BaselineRight
<1>5. e[p] = DiffEntry(p) /\ Captured(p) = node[p]
  BY DEF Reconciled, Captured
<1>6. CASE e[p] = None
  <2>1. baseline[p] = node[p]
    BY <1>5, <1>6, DiffEntryTyped, EntryShape DEF Inv
  <2>2. Right(node, p)
    BY <1>4, <2>1 DEF Right
  <2> HIDE DEF e
  <2> QED
    BY <1>1, <1>2, <1>3, <2>2, LoopKeepsRight
<1>7. CASE e[p] # None /\ Passed(e, p)
\* Passed over: it is a directory, and the file it replaced would be known.
  <2>1. /\ DiffEntry(p).kind \notin {"created", "deleted"} /\ DiffEntry(p).fileType = "dir"
        /\ backup[p] = None
    BY <1>5, <1>7 DEF Passed
  <2>2. baseline[p] # node[p]
    BY <1>5, <1>7 DEF DiffEntry
  <2>3. baseline[p] # Absent /\ node[p] # Absent /\ node[p].type = "dir"
    BY <1>5, <2>1, <2>2 DEF DiffEntry
  <2>4. original[p] \in Contents /\ original[p] # Absent
    BY <1>4, <2>3, ContentIsAbsent
  <2>5. original[p].type = "dir"
    <3>1. original[p].type # "file"
      BY <2>1, <2>3, <2>4 DEF Retyped, Is
    <3> QED
      BY <2>4, <3>1 DEF Contents
  <2>6. Right(node, p)
    BY <1>4, <2>3, <2>4, <2>5, DirContent DEF Right
  <2> HIDE DEF e
  <2> QED
    BY <1>1, <1>2, <1>3, <2>6, LoopKeepsRight
<1>8. CASE e[p] # None /\ ~Passed(e, p)
  <2> HIDE DEF e
  <2> QED
    BY <1>1, <1>2, <1>3, <1>8, LoopPutsRight DEF k
<1> QED
  BY <1>6, <1>7, <1>8

LEMMA Dropped ==
    ASSUME Inv, [Next]_vars, Settles("dropped")
    PROVE  DirtyRestored /\ NoGhosts
<1> DEFINE k == Cardinality(ToUndo(dirty))
<1>1. Entries("dropped") = dirty /\ Undoable(dirty) /\ k \in 0 .. k
  <2>1. Entries("dropped") = dirty
    BY DEF Entries
  <2>2. Undoable(dirty)
    BY <2>1, EntriesAreUndoable
  <2> QED
    BY <2>1, <2>2, WholeLoop
<1>2. node' = RunOf(dirty, k).node /\ ~RunOf(dirty, k).thrown
  BY <1>1, SettlesByRollback DEF Modes
<1>3. ASSUME NEW p \in Paths, dirty[p] # None, ~Unknowable(p), p \notin blind
      PROVE  Right(node', p)
  <2>1. Known(p) /\ Safe(dirty, p)
    BY <1>3, KnowableIsKnown DEF Known, Safe
  <2>2. CASE Passed(dirty, p)
    <3>1. Right(node, p)
      BY <1>3, <2>1, <2>2 DEF Passed, Inv, KnownRight
    <3> QED
      BY <1>1, <1>2, <2>1, <3>1, LoopKeepsRight
  <2>3. CASE ~Passed(dirty, p)
    BY <1>1, <1>2, <1>3, <2>1, <2>3, LoopPutsRight
  <2> QED
    BY <2>2, <2>3
<1>4. ASSUME NEW p \in Paths, NEW d \in Ancestors[p], node[p] # Absent, Fresh(d)
      PROVE  Held(node', d)
  <2>1. d \in Paths /\ Held(node, d)
    BY <1>4, Relatives DEF Held
  <2> QED
    BY <1>1, <1>2, <1>4, <2>1, LoopKeepsHeld
<1> QED
  BY <1>3, <1>4 DEF DirtyRestored, NoGhosts, Right, Held, Fresh

LEMMA IgnoredStay ==
    ASSUME Inv, [Next]_vars, NEW mode \in Modes, Settles(mode)
    PROVE  IgnoredKept
<1> DEFINE e == Entries(mode)
           k == Cardinality(ToUndo(e))
<1>1. Undoable(e) /\ EntriesRight(e) /\ k \in 0 .. k
  BY EntriesAreUndoable, WholeLoop, UndoableMeans
<1>2. node' = RunOf(e, k).node
  BY SettlesByRollback
<1> HIDE DEF e
<1> SUFFICES ASSUME NEW p \in Ignored \ (declared \cup tracked),
                    ~\E q \in Ancestors[p] : q \in late \/ q \in blind,
                    original[p] # Absent, Right(node, p)
             PROVE  Right(node', p)
  BY DEF IgnoredKept, Right
<1>3. p \in Paths /\ ~InManifest(p)
  BY IgnoredAssumption DEF InManifest
<1>4. e[p] = None
  BY <1>1, <1>3 DEF EntriesRight, EntryRight
<1>5. Safe(e, p)
  BY <1>4 DEF Safe, Around, Lost
<1> QED
  BY <1>1, <1>2, <1>3, <1>5, LoopKeepsRight

\* Whatever was called, declared or tracked before, and however many rollbacks
\* failed on the way: one that succeeds puts back all that the checkpoint could
\* see, leaves no empty directory behind, and no ignored path is lost.
THEOREM RollbackIsSound == Spec => RollbackSound
<1> DEFINE Sound == /\ WellFormed(node')
                    /\ Settles("rolled back") => TreeRestored /\ IgnoredKept
                    /\ Settles("dropped") => DirtyRestored /\ NoGhosts /\ IgnoredKept
<1>1. Inv /\ [Next]_vars => Inv'
  BY InvStep
<1>2. ASSUME Inv, [Next]_vars
      PROVE  Sound
  <2>1. WellFormed(node')
    BY <1>2, TypeStep DEF Inv, TypeOK, WellFormed, Parented, Is
  <2> QED
    BY <1>2, <2>1, RolledBack, Dropped, IgnoredStay DEF Modes
<1>3. Inv /\ [Next]_vars => [Sound]_vars
  BY <1>2
<1> HIDE DEF Sound
<1>4. Spec => [][Sound]_vars
  BY <1>1, <1>3, InvInit, PTL DEF Spec
<1> QED
  BY <1>4 DEF RollbackSound, Sound
=============================================================================
