----------------------- MODULE StorageStrategiesProofs -----------------------
(***************************************************************************)
(* Proofs about StorageStrategies, for any sets of paths, contents and     *)
(* inodes, and any budgets: no write to the workspace reaches a backup,    *)
(* except one linked to a file that had another name or was open, and the  *)
(* hot buffer and the links and copies beneath it implement BackupStore.   *)
(***************************************************************************)
EXTENDS StorageStrategies, FiniteSetTheorems, FunctionTheorems, WellFoundedInduction, TLAPS

\* A path has one record at most, and a backup file only with a record of it.
RecordsShape ==
    \A p \in Paths :
        /\ delegate[p] # "file" => backupName[p] = Absent
        /\ memory[p] # None => delegate[p] = None

Inv ==
    /\ TypeOK
    /\ RecordsShape
    /\ BackupsDetached
-----------------------------------------------------------------------------
(* Each part of the invariant is kept by every step. *)

\* Every variable keeps its type.
LEMMA TypeStep ==
    ASSUME TypeOK, [Next]_vars
    PROVE  TypeOK'
<1> USE DEF TypeOK
<1>1. ASSUME NEW p \in Paths, BackupMissing(p)
      PROVE  TypeOK'
  BY <1>1, DataAssumption, SizeAssumption DEF BackupMissing, HasRecord, Record
<1>2. ASSUME NEW p \in Paths, BackupInMemory(p)
      PROVE  TypeOK'
  BY <1>2, DataAssumption, SizeAssumption DEF BackupInMemory, HasRecord
<1>3. ASSUME NEW p \in Paths, BackupByLink(p)
      PROVE  TypeOK'
  BY <1>3, DataAssumption, SizeAssumption DEF BackupByLink, Spills, HasRecord, Record,
     Free, Used
<1>4. ASSUME NEW p \in Paths, BackupByCopy(p)
      PROVE  TypeOK'
  BY <1>4, DataAssumption, SizeAssumption DEF BackupByCopy, Spills, HasRecord, Record,
     Free, Used
<1>5. ASSUME NEW p \in Paths, BackupThrows(p)
      PROVE  TypeOK'
  BY <1>5, DataAssumption, SizeAssumption DEF BackupThrows, Spills, HasRecord
<1>6. ASSUME NEW p \in Paths, WriteInPlace(p)
      PROVE  TypeOK'
  BY <1>6, DataAssumption DEF WriteInPlace, WriteTo, KeepsStorage
<1>7. ASSUME NEW p \in Paths, Replace(p)
      PROVE  TypeOK'
  BY <1>7, DataAssumption DEF Replace, PutNewFile, KeepsStorage, Free, Used
<1>8. ASSUME NEW p \in Paths, Delete(p)
      PROVE  TypeOK'
  BY <1>8, DataAssumption DEF Delete, KeepsStorage
<1>9. ASSUME NEW p \in Paths, Restore(p)
      PROVE  TypeOK'
  BY <1>9, DataAssumption DEF Restore, PutNewFile, KeepsStorage, Free, Used, Held
<1>10. ASSUME Cleanup
       PROVE  TypeOK'
  BY <1>10, DataAssumption DEF Cleanup, Nothing, NoFile
<1>11. ASSUME NEW p \in Paths, NEW q \in Paths, Link(p, q)
       PROVE  TypeOK'
  BY <1>11, DataAssumption DEF Link, KeepsStorage
<1>12. ASSUME NEW p \in Paths, NEW q \in Paths, Move(p, q)
       PROVE  TypeOK'
  BY <1>12, DataAssumption DEF Move, KeepsStorage
<1>13. ASSUME NEW p \in Paths, OpenFile(p)
       PROVE  TypeOK'
  BY <1>13, DataAssumption DEF OpenFile, KeepsStorage
<1>14. ASSUME NEW i \in Inodes, WriteByDescriptor(i)
       PROVE  TypeOK'
  BY <1>14, DataAssumption DEF WriteByDescriptor, WriteTo, KeepsStorage
<1>15. ASSUME NEW i \in Inodes, CloseFile(i)
       PROVE  TypeOK'
  BY <1>15, DataAssumption DEF CloseFile, KeepsStorage
<1>16. CASE UNCHANGED vars
  BY <1>16 DEF vars
<1> QED
  BY <1>1, <1>2, <1>3, <1>4, <1>5, <1>6, <1>7, <1>8, <1>9, <1>10, <1>11, <1>12, <1>13,
     <1>14, <1>15, <1>16 DEF Next

\* A path that has a record is not backed up again.
LEMMA ShapeStep ==
    ASSUME TypeOK, RecordsShape, [Next]_vars
    PROVE  RecordsShape'
<1> USE DEF TypeOK, RecordsShape
<1>1. ASSUME NEW p \in Paths, BackupMissing(p)
      PROVE  RecordsShape'
  BY <1>1, DataAssumption DEF BackupMissing, HasRecord, Record
<1>2. ASSUME NEW p \in Paths, BackupInMemory(p)
      PROVE  RecordsShape'
  BY <1>2, DataAssumption DEF BackupInMemory, HasRecord
<1>3. ASSUME NEW p \in Paths, BackupByLink(p)
      PROVE  RecordsShape'
  BY <1>3, DataAssumption DEF BackupByLink, Spills, HasRecord, Record, Free, Used
<1>4. ASSUME NEW p \in Paths, BackupByCopy(p)
      PROVE  RecordsShape'
  BY <1>4, DataAssumption DEF BackupByCopy, Spills, HasRecord, Record, Free, Used
<1>5. ASSUME NEW p \in Paths, BackupThrows(p)
      PROVE  RecordsShape'
  BY <1>5, DataAssumption DEF BackupThrows, Spills, HasRecord
<1>6. ASSUME NEW p \in Paths, WriteInPlace(p)
      PROVE  RecordsShape'
  BY <1>6, DataAssumption DEF WriteInPlace, WriteTo, KeepsStorage
<1>7. ASSUME NEW p \in Paths, Replace(p)
      PROVE  RecordsShape'
  BY <1>7, DataAssumption DEF Replace, PutNewFile, KeepsStorage, Free, Used
<1>8. ASSUME NEW p \in Paths, Delete(p)
      PROVE  RecordsShape'
  BY <1>8, DataAssumption DEF Delete, KeepsStorage
<1>9. ASSUME NEW p \in Paths, Restore(p)
      PROVE  RecordsShape'
  BY <1>9, DataAssumption DEF Restore, PutNewFile, KeepsStorage, Free, Used
<1>10. ASSUME Cleanup
       PROVE  RecordsShape'
  BY <1>10, DataAssumption DEF Cleanup, Nothing, NoFile
<1>11. ASSUME NEW p \in Paths, NEW q \in Paths, Link(p, q)
       PROVE  RecordsShape'
  BY <1>11, DataAssumption DEF Link, KeepsStorage
<1>12. ASSUME NEW p \in Paths, NEW q \in Paths, Move(p, q)
       PROVE  RecordsShape'
  BY <1>12, DataAssumption DEF Move, KeepsStorage
<1>13. ASSUME NEW p \in Paths, OpenFile(p)
       PROVE  RecordsShape'
  BY <1>13, DataAssumption DEF OpenFile, KeepsStorage
<1>14. ASSUME NEW i \in Inodes, WriteByDescriptor(i)
       PROVE  RecordsShape'
  BY <1>14, DataAssumption DEF WriteByDescriptor, WriteTo, KeepsStorage
<1>15. ASSUME NEW i \in Inodes, CloseFile(i)
       PROVE  RecordsShape'
  BY <1>15, DataAssumption DEF CloseFile, KeepsStorage
<1>16. CASE UNCHANGED vars
  BY <1>16 DEF vars
<1> QED
  BY <1>1, <1>2, <1>3, <1>4, <1>5, <1>6, <1>7, <1>8, <1>9, <1>10, <1>11, <1>12, <1>13,
     <1>14, <1>15, <1>16 DEF Next

\* The inode of a backup that is not exposed is one that the workspace has given
\* up, or one of its own; what is created later gets another.
LEMMA DetachedStep ==
    ASSUME Inv, [Next]_vars
    PROVE  BackupsDetached'
<1> USE DEF Inv, TypeOK, RecordsShape, BackupsDetached
<1>1. ASSUME NEW p \in Paths, BackupMissing(p)
      PROVE  BackupsDetached'
  BY <1>1, DataAssumption DEF BackupMissing, HasRecord, Record
<1>2. ASSUME NEW p \in Paths, BackupInMemory(p)
      PROVE  BackupsDetached'
  BY <1>2, DataAssumption DEF BackupInMemory, HasRecord
<1>3. ASSUME NEW p \in Paths, BackupByLink(p)
      PROVE  BackupsDetached'
  BY <1>3, DataAssumption DEF BackupByLink, Spills, HasRecord, Record, Shared, Free, Used
<1>4. ASSUME NEW p \in Paths, BackupByCopy(p)
      PROVE  BackupsDetached'
  BY <1>4, DataAssumption DEF BackupByCopy, Spills, HasRecord, Record, Free, Used
<1>5. ASSUME NEW p \in Paths, BackupThrows(p)
      PROVE  BackupsDetached'
  BY <1>5, DataAssumption DEF BackupThrows, Spills, HasRecord
<1>6. ASSUME NEW p \in Paths, WriteInPlace(p)
      PROVE  BackupsDetached'
  BY <1>6, DataAssumption DEF WriteInPlace, WriteTo, KeepsStorage
<1>7. ASSUME NEW p \in Paths, Replace(p)
      PROVE  BackupsDetached'
  BY <1>7, DataAssumption DEF Replace, PutNewFile, KeepsStorage, Free, Used
<1>8. ASSUME NEW p \in Paths, Delete(p)
      PROVE  BackupsDetached'
  BY <1>8, DataAssumption DEF Delete, KeepsStorage
<1>9. ASSUME NEW p \in Paths, Restore(p)
      PROVE  BackupsDetached'
  BY <1>9, DataAssumption DEF Restore, PutNewFile, KeepsStorage, Free, Used
<1>10. ASSUME Cleanup
       PROVE  BackupsDetached'
  BY <1>10, DataAssumption DEF Cleanup, Nothing, NoFile
<1>11. ASSUME NEW p \in Paths, NEW q \in Paths, Link(p, q)
       PROVE  BackupsDetached'
  BY <1>11, DataAssumption DEF Link, KeepsStorage
<1>12. ASSUME NEW p \in Paths, NEW q \in Paths, Move(p, q)
       PROVE  BackupsDetached'
  BY <1>12, DataAssumption DEF Move, KeepsStorage
<1>13. ASSUME NEW p \in Paths, OpenFile(p)
       PROVE  BackupsDetached'
  BY <1>13, DataAssumption DEF OpenFile, KeepsStorage
<1>14. ASSUME NEW i \in Inodes, WriteByDescriptor(i)
       PROVE  BackupsDetached'
  BY <1>14, DataAssumption DEF WriteByDescriptor, WriteTo, KeepsStorage
<1>15. ASSUME NEW i \in Inodes, CloseFile(i)
       PROVE  BackupsDetached'
  BY <1>15, DataAssumption DEF CloseFile, KeepsStorage
<1>16. CASE UNCHANGED vars
  BY <1>16 DEF vars
<1> QED
  BY <1>1, <1>2, <1>3, <1>4, <1>5, <1>6, <1>7, <1>8, <1>9, <1>10, <1>11, <1>12, <1>13,
     <1>14, <1>15, <1>16 DEF Next

LEMMA InitInv == Init => Inv
BY DataAssumption DEF Init, Inv, TypeOK, RecordsShape, BackupsDetached,
   Nothing, NoFile

LEMMA NextInv == Inv /\ [Next]_vars => Inv'
BY TypeStep, ShapeStep, DetachedStep DEF Inv

LEMMA Invariance == Spec => []Inv
BY InitInv, NextInv, PTL DEF Spec

\* Variables keep their types.
THEOREM TypeCorrect == Spec => []TypeOK
<1>1. Inv => TypeOK
  BY DEF Inv
<1> QED
  BY <1>1, Invariance, PTL

\* However links, copies and their failures alternate, and whatever is linked,
\* renamed, opened and restored in the workspace: no write to it reaches a
\* recorded backup, except one made by linking a file that had another name or
\* was open.
THEOREM LinksAreSafe == Spec => []BackupsDetached
<1>1. Inv => BackupsDetached
  BY DEF Inv
<1> QED
  BY <1>1, Invariance, PTL
-----------------------------------------------------------------------------
(* The budgets of the hot buffer.                                            *)

BufferFinite == IsFiniteSet(Buffered)

LEMMA LimitsStep ==
    ASSUME TypeOK, BufferFinite, WithinLimits, [Next]_vars
    PROVE  BufferFinite' /\ WithinLimits'
<1>1. ASSUME NEW p \in Paths, BackupInMemory(p)
      PROVE  BufferFinite' /\ WithinLimits'
  <2> DEFINE size == Size[content[name[p]]]
  <2>1. Buffered' = Buffered \cup {p}
    BY <1>1, DataAssumption DEF BackupInMemory, Buffered, TypeOK
  <2>2. size \in Nat /\ bytesUsed' = bytesUsed + size
    BY <1>1, SizeAssumption DEF BackupInMemory, TypeOK
  <2>3. Cardinality(Buffered) < MaxFiles /\ bytesUsed + size <= MaxTotalBytes
    BY <1>1 DEF BackupInMemory, CanStore, Buffered
  <2>4. /\ IsFiniteSet(Buffered \cup {p})
        /\ Cardinality(Buffered \cup {p}) <= Cardinality(Buffered) + 1
    BY FS_AddElement, FS_CardinalityType DEF BufferFinite
  <2>5. Cardinality(Buffered) \in Nat /\ Cardinality(Buffered \cup {p}) \in Nat
    BY <2>4, FS_CardinalityType DEF BufferFinite
  <2>6. Cardinality(Buffered \cup {p}) <= MaxFiles
    BY <2>3, <2>4, <2>5, BudgetAssumption
  <2> QED
    BY <2>1, <2>2, <2>3, <2>4, <2>6 DEF BufferFinite, WithinLimits
<1>2. ASSUME Cleanup
      PROVE  BufferFinite' /\ WithinLimits'
  <2>1. Buffered' = {} /\ bytesUsed' = 0
    BY <1>2 DEF Cleanup, Buffered, Nothing
  <2> QED
    BY <2>1, FS_EmptySet, BudgetAssumption DEF BufferFinite, WithinLimits
<1>3. ASSUME UNCHANGED <<memory, bytesUsed>>
      PROVE  BufferFinite' /\ WithinLimits'
  BY <1>3 DEF BufferFinite, WithinLimits, Buffered
<1> QED
  BY <1>1, <1>2, <1>3 DEF Next, vars, BackupMissing, BackupByLink, BackupByCopy,
     BackupThrows, WriteInPlace, WriteByDescriptor, WriteTo, Replace, Delete, Link, Move,
     OpenFile, CloseFile, Restore, KeepsStorage

\* The hot buffer stays within its total of bytes and of files.
LEMMA BufferStaysBounded == Spec => [](BufferFinite /\ WithinLimits)
<1>1. Init => BufferFinite /\ WithinLimits
  <2> SUFFICES ASSUME Init PROVE BufferFinite /\ WithinLimits
    OBVIOUS
  <2>1. Buffered = {} /\ bytesUsed = 0
    BY DEF Init, Buffered, Nothing
  <2> QED
    BY <2>1, FS_EmptySet, BudgetAssumption DEF BufferFinite, WithinLimits
<1>2. TypeOK /\ BufferFinite /\ WithinLimits /\ [Next]_vars => BufferFinite' /\ WithinLimits'
  BY LimitsStep
<1> QED
  BY <1>1, <1>2, TypeCorrect, PTL DEF Spec
-----------------------------------------------------------------------------
(* The account of bytes.  A sum over a set is a fold, which picks the        *)
(* elements in an order nobody knows; it equals the number of pairs of a     *)
(* path and one of its bytes, and of those it is easy to say what one more   *)
(* path adds.                                                                *)

Bytes(m, S) == UNION {{p} \X (1 .. Size[m[p]]) : p \in S}

Measured(m, S) == IsFiniteSet(S) /\ \A p \in S : Size[m[p]] \in Nat

LEMMA BytesOfOne ==
    ASSUME NEW m, NEW p, Size[m[p]] \in Nat
    PROVE  /\ IsFiniteSet({p} \X (1 .. Size[m[p]]))
           /\ Cardinality({p} \X (1 .. Size[m[p]])) = Size[m[p]]
<1> DEFINE n == Size[m[p]]
<1>0. n \in Nat
  OBVIOUS
<1> HIDE DEF n
<1>1. IsFiniteSet({p}) /\ Cardinality({p}) = 1
  BY FS_Singleton
<1> DEFINE I == 1 .. n
<1>2. IsFiniteSet(I) /\ Cardinality(I) = n
  <2>1. 1 \in Int /\ n \in Int
    BY <1>0
  <2>2. IsFiniteSet(I) /\ Cardinality(I) = IF 1 > n THEN 0 ELSE n - 1 + 1
    BY <2>1, FS_Interval, Zenon
  <2> HIDE DEF I
  <2> QED
    BY <1>0, <2>2
<1> HIDE DEF I
<1>3. IsFiniteSet({p} \X I) /\ Cardinality({p} \X I) = Cardinality({p}) * Cardinality(I)
  BY <1>1, <1>2, FS_Product, Zenon
<1>4. Cardinality({p} \X I) = n
  BY <1>0, <1>1, <1>2, <1>3
<1> QED
  BY <1>3, <1>4 DEF n, I

\* One more path adds its size.
LEMMA BytesAdd ==
    ASSUME NEW m, NEW S, NEW p, p \notin S, IsFiniteSet(Bytes(m, S)), Size[m[p]] \in Nat
    PROVE  /\ IsFiniteSet(Bytes(m, S \cup {p}))
           /\ Cardinality(Bytes(m, S \cup {p})) = Size[m[p]] + Cardinality(Bytes(m, S))
<1> DEFINE one == {p} \X (1 .. Size[m[p]])
<1>1. IsFiniteSet(one) /\ Cardinality(one) = Size[m[p]]
  BY BytesOfOne
<1>2. Bytes(m, S \cup {p}) = Bytes(m, S) \cup one
  BY DEF Bytes
<1>3. Bytes(m, S) \cap one = {}
  BY DEF Bytes
<1>4. /\ IsFiniteSet(Bytes(m, S) \cup one)
      /\ Cardinality(Bytes(m, S) \cup one) =
           Cardinality(Bytes(m, S)) + Cardinality(one) - Cardinality(Bytes(m, S) \cap one)
  BY <1>1, FS_Union
<1>5. Cardinality(Bytes(m, S)) \in Nat
  BY FS_CardinalityType
<1>6. Cardinality(Bytes(m, S) \cap one) = 0
  BY <1>3, FS_EmptySet
<1> DEFINE a == Cardinality(Bytes(m, S))
           b == Cardinality(one)
           u == Cardinality(Bytes(m, S) \cup one)
<1>7. u = b + a
  <2>1. a \in Nat /\ b \in Nat /\ u = a + b - 0
    BY <1>1, <1>4, <1>5, <1>6
  <2> HIDE DEF a, b, u
  <2> QED
    BY <2>1
<1> HIDE DEF one
<1> QED
  BY <1>1, <1>2, <1>4, <1>7, Zenon

LEMMA BytesFinite ==
    ASSUME NEW m, NEW S, Measured(m, S)
    PROVE  IsFiniteSet(Bytes(m, S)) /\ Cardinality(Bytes(m, S)) \in Nat
<1>1. Bytes(m, S) \subseteq S \X UNION {1 .. Size[m[p]] : p \in S}
  BY DEF Bytes
<1> DEFINE g == [p \in S |-> {p} \X (1 .. Size[m[p]])]
           R == {g[p] : p \in S}
<1>2. \A T \in R : IsFiniteSet(T)
  BY BytesOfOne DEF Measured
<1>3. g \in Surjection(S, R)
  BY DEF Surjection
<1>4. IsFiniteSet(R)
  BY <1>3, FS_Surjection DEF Measured
<1>5. IsFiniteSet(UNION R)
  BY <1>2, <1>4, FS_UNION
<1>6. UNION R = Bytes(m, S)
  BY DEF Bytes
<1> QED
  BY <1>5, <1>6, FS_CardinalityType

\* The sum as the fold defines it.
Sum(m, S) == MapThenSumSet(LAMBDA p : Size[m[p]], S)

SumStep(m, S, f) ==
    [s \in SUBSET S |->
       IF s = {} THEN 0 ELSE LET x == CHOOSE y \in s : TRUE IN Size[m[x]] + f[s \ {x}]]

\* The count of bytes satisfies the equation of the fold ...
LEMMA CountIsAFold ==
    ASSUME NEW m, NEW S, Measured(m, S)
    PROVE  LET g == [s \in SUBSET S |-> Cardinality(Bytes(m, s))]
           IN  g = SumStep(m, S, g)
<1> DEFINE g == [s \in SUBSET S |-> Cardinality(Bytes(m, s))]
<1>1. ASSUME NEW s \in SUBSET S
      PROVE  g[s] = IF s = {} THEN 0
                    ELSE LET x == CHOOSE y \in s : TRUE IN Size[m[x]] + g[s \ {x}]
  <2>1. CASE s = {}
    <3>1. Bytes(m, {}) = {}
      BY DEF Bytes
    <3> QED
      BY <2>1, <3>1, FS_EmptySet
  <2>2. CASE s # {}
    <3> DEFINE x == CHOOSE y \in s : TRUE
    <3>1. x \in s
      BY <2>2
    <3> HIDE DEF x
    <3>2. s \ {x} \in SUBSET S /\ s = (s \ {x}) \cup {x} /\ x \notin s \ {x}
      BY <3>1
    <3>3. Measured(m, s \ {x}) /\ Size[m[x]] \in Nat
      BY <3>1, FS_Subset DEF Measured
    <3>4. Cardinality(Bytes(m, s)) = Size[m[x]] + Cardinality(Bytes(m, s \ {x}))
      BY <3>2, <3>3, BytesFinite, BytesAdd
    <3>5. g[s] = Size[m[x]] + g[s \ {x}]
      BY <3>2, <3>4
    <3> QED
      BY <2>2, <3>5 DEF x
  <2> QED
    BY <2>1, <2>2
<1>2. g = [s \in SUBSET S |-> g[s]]
  OBVIOUS
<1> HIDE DEF g
<1>3. g = SumStep(m, S, g)
  BY <1>1, <1>2 DEF SumStep
<1> QED
  BY <1>3 DEF g

\* ... which has one solution, by induction on the size of the set: a smallest
\* set on which two solutions differ does not exist.
LEMMA FoldIsUnique ==
    ASSUME NEW m, NEW S, IsFiniteSet(S), NEW f, NEW g,
           f = SumStep(m, S, f), g = SumStep(m, S, g)
    PROVE  f[S] = g[S]
<1> DEFINE T == {n \in Nat : \E s \in SUBSET S : Cardinality(s) = n /\ f[s] # g[s]}
<1> SUFFICES T = {}
  <2>1. S \in SUBSET S /\ Cardinality(S) \in Nat
    BY FS_CardinalityType
  <2> QED
    BY <2>1
<1> SUFFICES ASSUME T # {} PROVE FALSE
  OBVIOUS
<1>1. PICK n \in T : \A k \in T : ~(<<k, n>> \in OpToRel(<, Nat))
  <2>1. T \subseteq Nat
    OBVIOUS
  <2> HIDE DEF T
  <2> QED
    BY <2>1, NatLessThanWellFounded, WFMin
<1>2. \A k \in T : ~(k < n)
  BY <1>1 DEF OpToRel
<1>3. PICK s \in SUBSET S : Cardinality(s) = n /\ f[s] # g[s]
  OBVIOUS
<1>4. \A h : h = SumStep(m, S, h) =>
        h[s] = IF s = {} THEN 0
               ELSE LET x == CHOOSE y \in s : TRUE IN Size[m[x]] + h[s \ {x}]
  BY DEF SumStep
<1>5. s # {}
  BY <1>3, <1>4
<1> DEFINE x == CHOOSE y \in s : TRUE
<1>6. x \in s
  BY <1>5
<1>7. f[s] = Size[m[x]] + f[s \ {x}] /\ g[s] = Size[m[x]] + g[s \ {x}]
  BY <1>4, <1>5
<1> HIDE DEF x
<1>8. Cardinality(s \ {x}) = n - 1 /\ n - 1 \in Nat /\ n - 1 < n /\ s \ {x} \in SUBSET S
  <2>1. IsFiniteSet(s) /\ n \in Nat
    BY FS_Subset
  <2>2. IsFiniteSet(s \ {x}) /\ Cardinality(s \ {x}) = n - 1
    BY <1>3, <1>6, <2>1, FS_RemoveElement
  <2>3. Cardinality(s \ {x}) \in Nat
    BY <2>2, FS_CardinalityType
  <2> QED
    BY <2>1, <2>2, <2>3
<1>9. f[s \ {x}] = g[s \ {x}]
  BY <1>2, <1>8
<1> QED
  BY <1>3, <1>7, <1>9

LEMMA SumIsCount ==
    ASSUME NEW m, NEW S, Measured(m, S)
    PROVE  Sum(m, S) = Cardinality(Bytes(m, S))
<1> DEFINE g == [s \in SUBSET S |-> Cardinality(Bytes(m, s))]
           f == CHOOSE h : h = SumStep(m, S, h)
<1>1. g = SumStep(m, S, g)
  BY CountIsAFold
<1>2. f = SumStep(m, S, f)
  BY <1>1
<1>3. Sum(m, S) = f[S]
  BY DEF Sum, MapThenSumSet, MapThenFoldSet, SumStep
<1> HIDE DEF f
<1>4. f[S] = g[S]
  <2> HIDE DEF g
  <2> QED
    BY <1>1, <1>2, FoldIsUnique DEF Measured
<1> QED
  BY <1>3, <1>4

\* bytesUsed counts the bytes in the buffer.
BytesCounted == bytesUsed = Cardinality(Bytes(memory, Buffered))

LEMMA BufferMeasured ==
    ASSUME TypeOK, BufferFinite
    PROVE  Measured(memory, Buffered)
BY SizeAssumption DEF TypeOK, BufferFinite, Measured, Buffered

LEMMA CountStep ==
    ASSUME TypeOK, BufferFinite, BytesCounted, [Next]_vars
    PROVE  BytesCounted'
<1>1. ASSUME NEW p \in Paths, BackupInMemory(p)
      PROVE  BytesCounted'
  <2> DEFINE data == content[name[p]]
             S == Buffered
  <2>1. data \in Data /\ Size[data] \in Nat
    BY <1>1, SizeAssumption DEF BackupInMemory, TypeOK
  <2>2. memory' = [memory EXCEPT ![p] = data] /\ bytesUsed' = bytesUsed + Size[data]
    BY <1>1 DEF BackupInMemory
  <2>3. p \notin S
    BY <1>1 DEF BackupInMemory, HasRecord, Buffered
  <2>4. Buffered' = S \cup {p} /\ memory'[p] = data
    BY <2>1, <2>2, DataAssumption DEF Buffered, TypeOK
  <2>5. Bytes(memory', S) = Bytes(memory, S)
    <3>1. \A q \in S : memory'[q] = memory[q]
      BY <2>2, <2>3 DEF TypeOK, Buffered
    <3> QED
      BY <3>1 DEF Bytes
  <2>6. IsFiniteSet(Bytes(memory', S)) /\ Cardinality(Bytes(memory, S)) \in Nat
    BY <2>5, BufferMeasured, BytesFinite
  <2>7. Cardinality(Bytes(memory', S \cup {p}))
          = Size[data] + Cardinality(Bytes(memory', S))
    BY <2>1, <2>3, <2>4, <2>6, BytesAdd
  <2>8. bytesUsed' = Cardinality(Bytes(memory', S \cup {p}))
    BY <2>1, <2>2, <2>5, <2>6, <2>7 DEF BytesCounted
  <2> QED
    BY <2>4, <2>8 DEF BytesCounted
<1>2. ASSUME Cleanup
      PROVE  BytesCounted'
  <2>1. Buffered' = {} /\ bytesUsed' = 0
    BY <1>2 DEF Cleanup, Buffered, Nothing
  <2>2. Bytes(memory', {}) = {}
    BY DEF Bytes
  <2> QED
    BY <2>1, <2>2, FS_EmptySet DEF BytesCounted
<1>3. ASSUME UNCHANGED <<memory, bytesUsed>>
      PROVE  BytesCounted'
  BY <1>3 DEF BytesCounted, Buffered
<1> QED
  BY <1>1, <1>2, <1>3 DEF Next, vars, BackupMissing, BackupByLink, BackupByCopy,
     BackupThrows, WriteInPlace, WriteByDescriptor, WriteTo, Replace, Delete, Link, Move,
     OpenFile, CloseFile, Restore, KeepsStorage

LEMMA CountInit == Init => BytesCounted
<1> SUFFICES ASSUME Init PROVE BytesCounted
  OBVIOUS
<1>1. Buffered = {} /\ bytesUsed = 0
  BY DEF Init, Buffered, Nothing
<1>2. Bytes(memory, {}) = {}
  BY DEF Bytes
<1> QED
  BY <1>1, <1>2, FS_EmptySet DEF BytesCounted

\* The hot buffer's account of its bytes is right, and within the budgets.
THEOREM BudgetsAreKept == Spec => []BudgetsKept
<1>1. TypeOK /\ BufferFinite /\ WithinLimits /\ BytesCounted => BudgetsKept
  <2> SUFFICES ASSUME TypeOK, BufferFinite, WithinLimits, BytesCounted
               PROVE  BudgetsKept
    OBVIOUS
  <2>1. Sum(memory, Buffered) = Cardinality(Bytes(memory, Buffered))
    BY BufferMeasured, SumIsCount
  <2> QED
    BY <2>1 DEF BudgetsKept, BytesCounted, Sum
<1>2. TypeOK /\ BufferFinite /\ BytesCounted /\ [Next]_vars => BytesCounted'
  BY CountStep
<1> QED
  BY <1>1, <1>2, CountInit, BufferStaysBounded, TypeCorrect, PTL DEF Spec
-----------------------------------------------------------------------------
(* The refinement of BackupStore. *)

LEMMA StoreInit == Init => Store!Init
<1> SUFFICES ASSUME Init PROVE Store!Init
  OBVIOUS
<1>1. \A p \in Paths : Held(p) = None /\ At(p) \in Data \cup {Absent}
  BY DataAssumption DEF Init, Held, Nothing, At
<1>2. exposed = {}
  BY DEF Init
<1> QED
  BY <1>1, <1>2 DEF Store!Init, Store!Contents, Disk, Backups

\* A step that makes no backup and changes no storage: what an exposed backup
\* holds may become something else, nothing more.
LEMMA ChangeStep ==
    ASSUME Inv, Inv', UNCHANGED <<backupName, delegate, memory, exposed>>,
           \A i \in Inodes :
             content'[i] # content[i] => \A q \in Paths : backupName[q] = i => q \in exposed
    PROVE  Store!Change
<1> USE DataAssumption DEF Inv, TypeOK, RecordsShape
<1>1. ASSUME NEW q \in Paths
      PROVE  /\ At(q)' \in Data \cup {Absent}
             /\ Held(q)' \in Data \cup {Absent, None}
             /\ Held(q)' # Held(q) => q \in exposed /\ Held(q)' \in Data
  <2>1. At(q)' \in Data \cup {Absent}
    BY DEF At
  <2>2. CASE memory[q] # None \/ delegate[q] # "file"
    <3>1. Held(q) = IF memory[q] # None THEN memory[q]
                    ELSE IF delegate[q] = "missing" THEN Absent ELSE None
      BY <2>2 DEF Held
    <3>2. Held(q)' = IF memory[q] # None THEN memory[q]
                     ELSE IF delegate[q] = "missing" THEN Absent ELSE None
      BY <2>2 DEF Held
    <3> QED
      BY <2>1, <3>1, <3>2
  <2>3. CASE memory[q] = None /\ delegate[q] = "file"
    <3>1. /\ Held(q) = IF backupName[q] # Absent THEN content[backupName[q]] ELSE None
          /\ Held(q)' = IF backupName[q] # Absent THEN content'[backupName[q]] ELSE None
      BY <2>3 DEF Held
    <3> QED
      BY <3>1, <2>1
  <2> QED
    BY <2>1, <2>2, <2>3
<1>2. Disk' \in [Paths -> Data \cup {Absent}]
  BY <1>1 DEF Disk
<1>3. Backups' \in [Paths -> Data \cup {Absent, None}]
  BY <1>1 DEF Backups
<1>4. \A q \in Paths : Backups'[q] # Backups[q] => q \in exposed /\ Backups'[q] \in Data
  BY <1>1 DEF Backups
<1>5. Data \cup {Absent, None} = Data \cup {Absent} \cup {None}
  OBVIOUS
<1> QED
  BY <1>2, <1>3, <1>4, <1>5 DEF Store!Change, Store!Contents

LEMMA StoreStep ==
    ASSUME Inv, [Next]_vars
    PROVE  [Store!Next]_(Store!vars)
<1> USE DataAssumption DEF Inv, TypeOK, RecordsShape, BackupsDetached
<1>0. Inv'
  BY NextInv
<1> DEFINE Same(q) == Held(q)' = Held(q) /\ At(q)' = At(q)
<1>1. ASSUME NEW p \in Paths, BackupMissing(p)
      PROVE  Store!Backup(p)
  <2>1. Held(p) = None /\ Held(p)' = At(p) /\ At(p)' = At(p)
    BY <1>1 DEF BackupMissing, HasRecord, Record, At, Held
  <2>2. ASSUME NEW q \in Paths, q # p PROVE Same(q)
    BY <1>1, <2>2 DEF BackupMissing, HasRecord, Record, At, Held
  <2>3. Backups' = [Backups EXCEPT ![p] = Disk[p]] /\ Disk' = Disk /\ Backups[p] = None
    BY <2>1, <2>2 DEF Disk, Backups
  <2>4. exposed' \in {exposed, exposed \cup {p}}
    BY <1>1 DEF BackupMissing
  <2> QED
    BY <2>3, <2>4 DEF Store!Backup
<1>2. ASSUME NEW p \in Paths, BackupInMemory(p)
      PROVE  Store!Backup(p)
  <2>1. Held(p) = None /\ Held(p)' = At(p) /\ At(p)' = At(p)
    BY <1>2 DEF BackupInMemory, HasRecord, At, Held
  <2>2. ASSUME NEW q \in Paths, q # p PROVE Same(q)
    BY <1>2, <2>2 DEF BackupInMemory, HasRecord, At, Held
  <2>3. Backups' = [Backups EXCEPT ![p] = Disk[p]] /\ Disk' = Disk /\ Backups[p] = None
    BY <2>1, <2>2 DEF Disk, Backups
  <2>4. exposed' \in {exposed, exposed \cup {p}}
    BY <1>2 DEF BackupInMemory
  <2> QED
    BY <2>3, <2>4 DEF Store!Backup
<1>3. ASSUME NEW p \in Paths, BackupByLink(p)
      PROVE  Store!Backup(p)
  <2>1. Held(p) = None /\ Held(p)' = At(p) /\ At(p)' = At(p)
    BY <1>3 DEF BackupByLink, Spills, HasRecord, Record, Free, Used, At, Held
  <2>2. ASSUME NEW q \in Paths, q # p PROVE Same(q)
    BY <1>3, <2>2 DEF BackupByLink, Spills, HasRecord, Record, Free, Used, At, Held
  <2>3. Backups' = [Backups EXCEPT ![p] = Disk[p]] /\ Disk' = Disk /\ Backups[p] = None
    BY <2>1, <2>2 DEF Disk, Backups
  <2>4. exposed' \in {exposed, exposed \cup {p}}
    BY <1>3 DEF BackupByLink
  <2> QED
    BY <2>3, <2>4 DEF Store!Backup
<1>4. ASSUME NEW p \in Paths, BackupByCopy(p)
      PROVE  Store!Backup(p)
  <2>1. Held(p) = None /\ Held(p)' = At(p) /\ At(p)' = At(p)
    BY <1>4 DEF BackupByCopy, Spills, HasRecord, Record, Free, Used, At, Held
  <2>2. ASSUME NEW q \in Paths, q # p PROVE Same(q)
    BY <1>4, <2>2 DEF BackupByCopy, Spills, HasRecord, Record, Free, Used, At, Held
  <2>3. Backups' = [Backups EXCEPT ![p] = Disk[p]] /\ Disk' = Disk /\ Backups[p] = None
    BY <2>1, <2>2 DEF Disk, Backups
  <2>4. exposed' \in {exposed, exposed \cup {p}}
    BY <1>4 DEF BackupByCopy
  <2> QED
    BY <2>3, <2>4 DEF Store!Backup
<1>5. ASSUME NEW p \in Paths, BackupThrows(p)
      PROVE  UNCHANGED Store!vars
  <2>1. ASSUME NEW q \in Paths PROVE Same(q)
    BY <1>5 DEF BackupThrows, Spills, HasRecord, At, Held
  <2>3. Backups' = Backups /\ Disk' = Disk
    BY <2>1 DEF Disk, Backups
  <2>4. UNCHANGED exposed
    BY <1>5 DEF BackupThrows
  <2> QED
    BY <2>3, <2>4 DEF Store!vars
<1>6. ASSUME NEW p \in Paths, WriteInPlace(p)
      PROVE  Store!Change
  BY <1>0, <1>6, ChangeStep DEF WriteInPlace, WriteTo, KeepsStorage
<1>7. ASSUME NEW p \in Paths, Replace(p)
      PROVE  Store!Change
  BY <1>0, <1>7, ChangeStep DEF Replace, PutNewFile, Free, Used, KeepsStorage
<1>8. ASSUME NEW p \in Paths, Delete(p)
      PROVE  Store!Change
  BY <1>0, <1>8, ChangeStep DEF Delete, KeepsStorage
<1>9. ASSUME NEW p \in Paths, Restore(p)
      PROVE  Store!Restore(p)
  <2>1. Held(p) # None /\ Held(p)' = Held(p) /\ At(p)' = Held(p)
    BY <1>9 DEF Restore, PutNewFile, KeepsStorage, Free, Used, At, Held
  <2>2. ASSUME NEW q \in Paths, q # p PROVE Same(q)
    BY <1>9, <2>2 DEF Restore, PutNewFile, KeepsStorage, Free, Used, At, Held
  <2>3. \A q \in Paths : /\ Held(q)' = Held(q)
                         /\ At(q)' = IF q = p THEN Held(p) ELSE At(q)
    BY <2>1, <2>2
  <2>4. Backups' = Backups /\ Backups[p] = Held(p) /\ UNCHANGED exposed
    BY <1>9, <2>3 DEF Backups, Restore, KeepsStorage
  <2>5. Disk' = [q \in Paths |-> IF q = p THEN Held(p) ELSE At(q)]
    BY <2>3 DEF Disk
  <2>6. [Disk EXCEPT ![p] = Held(p)] = [q \in Paths |-> IF q = p THEN Held(p) ELSE At(q)]
    BY DEF Disk
  <2> QED
    BY <2>1, <2>4, <2>5, <2>6 DEF Store!Restore
<1>10. ASSUME Cleanup
       PROVE  Store!Cleanup
  <2>1. ASSUME NEW q \in Paths PROVE Held(q)' = None /\ At(q)' = At(q)
    BY <1>10 DEF Cleanup, Nothing, At, Held
  <2>3. Backups' = [q \in Paths |-> None] /\ Disk' = Disk /\ exposed' = {}
    BY <1>10, <2>1 DEF Disk, Backups, Cleanup
  <2> QED
    BY <2>3 DEF Store!Cleanup
<1>11. ASSUME NEW p \in Paths, NEW q \in Paths, Link(p, q)
       PROVE  Store!Change
  BY <1>0, <1>11, ChangeStep DEF Link, KeepsStorage
<1>12. ASSUME NEW p \in Paths, NEW q \in Paths, Move(p, q)
       PROVE  Store!Change
  BY <1>0, <1>12, ChangeStep DEF Move, KeepsStorage
<1>13. ASSUME NEW p \in Paths, OpenFile(p)
       PROVE  Store!Change
  BY <1>0, <1>13, ChangeStep DEF OpenFile, KeepsStorage
<1>14. ASSUME NEW i \in Inodes, WriteByDescriptor(i)
       PROVE  Store!Change
  BY <1>0, <1>14, ChangeStep DEF WriteByDescriptor, WriteTo, KeepsStorage
<1>15. ASSUME NEW i \in Inodes, CloseFile(i)
       PROVE  Store!Change
  BY <1>0, <1>15, ChangeStep DEF CloseFile, KeepsStorage
<1>16. CASE UNCHANGED vars
  BY <1>16 DEF vars, Store!vars, Disk, Backups, At, Held
<1> QED
  BY <1>1, <1>2, <1>3, <1>4, <1>5, <1>6, <1>7, <1>8, <1>9, <1>10, <1>11, <1>12, <1>13,
     <1>14, <1>15, <1>16 DEF Next, Store!Next

\* The storage strategies do what the checkpoint code expects of them: the
\* first backup of a path keeps its content, whatever is done in the workspace,
\* unless it was exposed when it was made.
THEOREM StrategiesKeepBackups == Spec => KeepsBackups
BY StoreInit, StoreStep, Invariance, PTL DEF Spec, KeepsBackups, Store!Spec
=============================================================================
