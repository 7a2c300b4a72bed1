------------------------ MODULE FileInventoryProofs ------------------------
(***************************************************************************)
(* That the index that is shown is whole and adds up, for any objects, any *)
(* listing of them, any number of syncs and any batches.                   *)
(*                                                                         *)
(* The first half is about build_inventory_documents: what one pass over a *)
(* listing, in any order, makes of it.  It needs induction, which is drawn *)
(* from the pigeonhole theorem of the library.  The second half is about   *)
(* the syncs, of which one at a time works while no lease runs out.        *)
(***************************************************************************)
EXTENDS FileInventory, FiniteSetTheorems, TLAPS

(* A set that grows without end from 0 has every number: n + 1 would else  *)
(* be an injection of its part up to the first gap that misses 0.          *)
LEMMA Induction ==
  ASSUME NEW T, 0 \in T, \A n \in Nat : n \in T => n + 1 \in T
  PROVE  Nat \subseteq T
<1> SUFFICES ASSUME NEW m \in Nat, m \notin T PROVE FALSE
  OBVIOUS
<1> DEFINE A == T \cap (0 .. m)
           next == [n \in A |-> n + 1]
<1>1. IsFiniteSet(A)
  <2>1. IsFiniteSet(0 .. m)
    BY FS_Interval
  <2> QED BY <2>1, FS_Subset
<1>2. next \in Injection(A, A)
  <2>1. \A n \in A : n \in Nat /\ n + 1 \in A /\ next[n] = n + 1
    OBVIOUS
  <2>2. next \in [A -> A]
    BY <2>1
  <2> QED BY <2>1, <2>2 DEF Injection, IsInjective
<1>3. next \in Surjection(A, A)
  BY <1>1, <1>2, FS_Injection
<1>4. 0 \in A
  OBVIOUS
<1>5. PICK n \in A : next[n] = 0
  BY <1>3, <1>4 DEF Surjection
<1> QED BY <1>5

(* A listing has every object once.                                        *)
LEMMA InOrder ==
  ASSUME NEW S, IsFiniteSet(S)
  PROVE  LET q == SetToSeq(S)
         IN /\ q \in Seq(S) /\ Len(q) \in Nat
            /\ \A i, j \in 1 .. Len(q) : q[i] = q[j] => i = j
            /\ {q[i] : i \in 1 .. Len(q)} = S
<1> DEFINE n == Cardinality(S)
           q == SetToSeq(S)
<1>1. n \in Nat /\ ExistsBijection(1..n, S) /\ IsFiniteSet(1..n) /\ Cardinality(1..n) = n
  BY FS_CardinalityType, FS_Interval
<1>2. PICK f : f \in [1..n -> S] /\ IsInjective(f)
  BY <1>1 DEF ExistsBijection, Bijection, Injection
<1>3. q \in [1..n -> S] /\ IsInjective(q)
  BY <1>2 DEF SetToSeq
<1>4. q \in Injection(1..n, S)
  BY <1>3 DEF Injection
<1>5. q \in Surjection(1..n, S)
  BY <1>1, <1>4, FS_Injection
<1>6. q \in Seq(S) /\ Len(q) = n
  BY <1>1, <1>3
<1>7. \A i, j \in 1..n : q[i] = q[j] => i = j
  BY <1>3 DEF IsInjective
<1>8. \A x \in S : \E i \in 1..n : q[i] = x
  BY <1>5 DEF Surjection
<1> HIDE DEF q
<1>9. {q[i] : i \in 1..n} = S
  BY <1>3, <1>8
<1> QED BY <1>1, <1>6, <1>7, <1>9 DEF q

-----------------------------------------------------------------------------
(* The directories above an object.                                        *)
LEMMA AboveIs ==
  ASSUME NEW p \in Paths
  PROVE  /\ \A d \in Above(p) : d \in Seq(STRING) /\ d # <<>> /\ Parent(d) \in Above(p) \cup {<<>>}
         /\ Parent(p) \in Above(p) /\ p # <<>>
<1>1. p \in Seq(STRING) /\ Len(p) \in Nat /\ Len(p) > 1
  BY InventoryPaths
<1>2. \A n \in 0 .. Len(p) : /\ SubSeq(p, 1, n) \in Seq(STRING) /\ Len(SubSeq(p, 1, n)) = n
  BY <1>1
<1>3. SubSeq(p, 1, 0) = <<>>
  BY <1>1
<1>4. \A n \in 1 .. Len(p) : Parent(SubSeq(p, 1, n)) = SubSeq(p, 1, n - 1)
  BY <1>1, <1>2 DEF Parent
<1>5. ASSUME NEW d \in Above(p)
      PROVE  d \in Seq(STRING) /\ d # <<>> /\ Parent(d) \in Above(p) \cup {<<>>}
  <2>1. PICK n \in 1 .. Len(p) - 1 : d = SubSeq(p, 1, n)
    BY DEF Above
  <2>2. Len(d) = n /\ d \in Seq(STRING) /\ n \in 1 .. Len(p)
    BY <1>1, <1>2, <2>1
  <2>3. d # <<>> /\ Parent(d) = SubSeq(p, 1, n - 1)
    <3>1. Parent(d) = SubSeq(p, 1, n - 1)
      BY <1>4, <2>1, <2>2
    <3>2. Len(d) # 0
      BY <2>2
    <3> QED BY <3>1, <3>2
  <2>4. CASE n = 1
    BY <1>3, <2>2, <2>3, <2>4
  <2>5. CASE n # 1
    <3>1. n - 1 \in 1 .. Len(p) - 1
      BY <1>1, <2>5
    <3>2. SubSeq(p, 1, n - 1) \in Above(p)
      BY <3>1 DEF Above
    <3> QED BY <2>2, <2>3, <3>2
  <2> QED BY <2>4, <2>5
<1>6. Parent(p) \in Above(p) /\ p # <<>>
  BY <1>1 DEF Parent, Above
<1> QED BY <1>5, <1>6

(* Objects have finitely many bytes, which are counted one by one.         *)
BytesIn(p) == {p} \X (1 .. SizeOf[p])
LEMMA Bytes ==
  ASSUME NEW S \in SUBSET Paths
  PROVE  /\ IsFiniteSet(S) /\ Cardinality(S) \in Nat
         /\ IsFiniteSet(UNION {BytesIn(p) : p \in S})
         /\ BytesOf(S) = Cardinality(UNION {BytesIn(p) : p \in S}) /\ BytesOf(S) \in Nat
         /\ \A p \in Paths : SizeOf[p] \in Nat /\ IsFiniteSet(BytesIn(p)) /\ Cardinality(BytesIn(p)) = SizeOf[p]
<1>1. IsFiniteSet(S) /\ Cardinality(S) \in Nat
  BY InventoryPaths, FS_Subset, FS_CardinalityType
<1>2. ASSUME NEW p \in Paths
      PROVE  SizeOf[p] \in Nat /\ IsFiniteSet(BytesIn(p)) /\ Cardinality(BytesIn(p)) = SizeOf[p]
  <2>1. SizeOf[p] \in Nat
    BY InventoryPaths
  <2>2. IsFiniteSet({p}) /\ Cardinality({p}) = 1
    BY FS_Singleton
  <2>3. IsFiniteSet(1 .. SizeOf[p]) /\ Cardinality(1 .. SizeOf[p]) = SizeOf[p]
    BY <2>1, FS_Interval
  <2>4. IsFiniteSet(BytesIn(p)) /\ Cardinality(BytesIn(p)) = 1 * SizeOf[p]
    BY <2>2, <2>3, FS_Product DEF BytesIn
  <2> QED BY <2>1, <2>4
<1>3. IsFiniteSet({BytesIn(p) : p \in S})
  <2>1. [p \in S |-> BytesIn(p)] \in Surjection(S, {BytesIn(p) : p \in S})
    BY DEF Surjection
  <2> QED BY <1>1, <2>1, FS_Surjection
<1>4. IsFiniteSet(UNION {BytesIn(p) : p \in S})
  BY <1>2, <1>3, FS_UNION
<1>5. BytesOf(S) = Cardinality(UNION {BytesIn(p) : p \in S})
  BY DEF BytesOf, BytesIn
<1> QED BY <1>1, <1>2, <1>4, <1>5, FS_CardinalityType

(* One more object has its bytes, and so has a set of them with it.        *)
LEMMA OneMore ==
  ASSUME NEW S \in SUBSET Paths, NEW p \in Paths \ S
  PROVE  /\ IsFiniteSet(S) /\ IsFiniteSet(S \cup {p}) /\ Cardinality(S) \in Nat
         /\ BytesOf(S) \in Nat /\ SizeOf[p] \in Nat
         /\ Cardinality(S \cup {p}) = Cardinality(S) + 1 /\ BytesOf(S \cup {p}) = BytesOf(S) + SizeOf[p]
<1> DEFINE A == UNION {BytesIn(q) : q \in S}
           A2 == UNION {BytesIn(q) : q \in S \cup {p}}
<1>1. S \cup {p} \in SUBSET Paths
  OBVIOUS
<1>2. /\ IsFiniteSet(S) /\ Cardinality(S) \in Nat /\ IsFiniteSet(A) /\ BytesOf(S) = Cardinality(A)
      /\ BytesOf(S) \in Nat /\ SizeOf[p] \in Nat /\ IsFiniteSet(BytesIn(p)) /\ Cardinality(BytesIn(p)) = SizeOf[p]
  BY Bytes
<1>3. IsFiniteSet(S \cup {p}) /\ BytesOf(S \cup {p}) = Cardinality(A2)
  BY <1>1, Bytes
<1>4. Cardinality(S \cup {p}) = Cardinality(S) + 1
  BY <1>2, FS_AddElement
<1>5. A2 = A \cup BytesIn(p) /\ A \cap BytesIn(p) = {}
  BY DEF BytesIn
<1> HIDE DEF A, A2
<1>6. Cardinality(A2) = Cardinality(A) + Cardinality(BytesIn(p)) - Cardinality({})
  BY <1>2, <1>5, FS_Union
<1>7. Cardinality({}) = 0
  BY FS_EmptySet
<1>8. BytesOf(S \cup {p}) = BytesOf(S) + SizeOf[p]
  BY <1>2, <1>3, <1>6, <1>7
<1> QED BY <1>2, <1>3, <1>4, <1>8

LEMMA NoBytes == BytesOf({}) = 0 /\ Cardinality({}) = 0
BY FS_EmptySet DEF BytesOf

-----------------------------------------------------------------------------
(* What a pass over the objects has to have found: for every directory     *)
(* above one of them the bytes and objects beneath it, and what is in it.  *)
Dirs(objects) == UNION {Above(p) : p \in objects}
Under(objects, d) == {p \in objects : d \in Above(p)}
FilesIn(objects, d) == {p \in objects : Parent(p) = d}
DirsIn(objects, d) == {q \in Dirs(objects) : Parent(q) = d}
Found(objects, d) ==
  [size |-> BytesOf(Under(objects, d)), count |-> Cardinality(Under(objects, d)),
   files |-> Cardinality(FilesIn(objects, d)), dirs |-> DirsIn(objects, d)]
Summed(objects) == [d \in Dirs(objects) |-> Found(objects, d)]

LEMMA DirsAre ==
  ASSUME NEW S \in SUBSET Paths, NEW d \in Dirs(S)
  PROVE  d \in Seq(STRING) /\ d # <<>> /\ Parent(d) \in Dirs(S) \cup {<<>>}
BY AboveIs DEF Dirs

(* One more object is added to the directories above it.                   *)
LEMMA CountedSums ==
  ASSUME NEW S \in SUBSET Paths, NEW p \in Paths \ S
  PROVE  Counted(Summed(S), p) = Summed(S \cup {p})
<1> DEFINE D == Dirs(S)
           S2 == S \cup {p}
           dirs == Summed(S)
           dir(d) == IF d \in DOMAIN dirs THEN dirs[d] ELSE NewDir
<1>1. DOMAIN dirs = D /\ Dirs(S2) = D \cup Above(p)
  BY DEF Summed, Dirs
<1>2. \A d \in D : d # <<>> /\ Parent(d) \in D \cup {<<>>}
  BY DirsAre
<1>3. /\ \A d \in Above(p) : d # <<>> /\ Parent(d) \in Above(p) \cup {<<>>}
      /\ Parent(p) \in Above(p)
  BY AboveIs
<1>4. \A d \in D \cup Above(p) : dir(d) = Found(S, d)
  <2> SUFFICES ASSUME NEW d \in D \cup Above(p), d \notin D PROVE dir(d) = Found(S, d)
    BY <1>1 DEF Summed
  <2>1. Under(S, d) = {}
    BY DEF Under, Dirs
  <2>2. FilesIn(S, d) = {}
    BY AboveIs DEF FilesIn, Dirs
  <2>3. DirsIn(S, d) = {}
    BY <1>2, <1>3 DEF DirsIn
  <2> QED BY <1>1, <2>1, <2>2, <2>3, NoBytes DEF Found, NewDir
<1>5. ASSUME NEW d \in Dirs(S2), d \notin Above(p)
      PROVE  Found(S2, d) = dirs[d]
  <2>1. d \in D /\ d # <<>>
    BY <1>1, <1>2, <1>5
  <2>2. Under(S2, d) = Under(S, d) /\ FilesIn(S2, d) = FilesIn(S, d)
    BY <1>3, <1>5 DEF Under, FilesIn
  <2>3. DirsIn(S2, d) = DirsIn(S, d)
    BY <1>1, <1>3, <1>5, <2>1 DEF DirsIn
  <2> QED BY <2>1, <2>2, <2>3 DEF Found, Summed
<1>6. ASSUME NEW d \in Above(p)
      PROVE  Found(S2, d) = [size |-> dir(d).size + SizeOf[p], count |-> dir(d).count + 1,
                           files |-> dir(d).files + IF d = Parent(p) THEN 1 ELSE 0,
                           dirs |-> dir(d).dirs \cup {q \in Above(p) : Parent(q) = d}]
  <2>1. dir(d) = Found(S, d)
    BY <1>4
  <2>2. Under(S2, d) = Under(S, d) \cup {p} /\ Under(S, d) \in SUBSET Paths /\ p \notin Under(S, d)
    BY DEF Under
  <2>3. BytesOf(Under(S2, d)) = BytesOf(Under(S, d)) + SizeOf[p]
        /\ Cardinality(Under(S2, d)) = Cardinality(Under(S, d)) + 1
    <3> DEFINE U == Under(S, d)
    <3>1. U \in SUBSET Paths /\ p \in Paths \ U /\ Under(S2, d) = U \cup {p}
      BY <2>2
    <3> HIDE DEF U
    <3>2. BytesOf(U \cup {p}) = BytesOf(U) + SizeOf[p] /\ Cardinality(U \cup {p}) = Cardinality(U) + 1
      BY <3>1, OneMore
    <3> QED BY <3>1, <3>2 DEF U
  <2>4. Cardinality(FilesIn(S2, d)) = Cardinality(FilesIn(S, d)) + IF d = Parent(p) THEN 1 ELSE 0
    <3>1. FilesIn(S, d) \in SUBSET Paths /\ p \notin FilesIn(S, d)
          /\ FilesIn(S2, d) = IF d = Parent(p) THEN FilesIn(S, d) \cup {p} ELSE FilesIn(S, d)
      BY DEF FilesIn
    <3>2. Cardinality(FilesIn(S, d) \cup {p}) = Cardinality(FilesIn(S, d)) + 1 /\ Cardinality(FilesIn(S, d)) \in Nat
      BY <3>1, OneMore
    <3> QED BY <3>1, <3>2
  <2>5. DirsIn(S2, d) = DirsIn(S, d) \cup {q \in Above(p) : Parent(q) = d}
    BY <1>1 DEF DirsIn
  <2> HIDE DEF dir
  <2> QED BY <2>1, <2>3, <2>4, <2>5 DEF Found
<1>7. Counted(dirs, p) =
        [d \in Dirs(S2) |-> IF d \notin Above(p) THEN dirs[d]
           ELSE [size |-> dir(d).size + SizeOf[p], count |-> dir(d).count + 1,
                 files |-> dir(d).files + IF d = Parent(p) THEN 1 ELSE 0,
                 dirs |-> dir(d).dirs \cup {q \in Above(p) : Parent(q) = d}]]
  BY <1>1 DEF Counted
<1> HIDE DEF dirs, dir
<1>8. Counted(dirs, p) = [d \in Dirs(S2) |-> Found(S2, d)]
  BY <1>5, <1>6, <1>7
<1> QED BY <1>8 DEF Summed, dirs

(* The pass over a listing is well defined ...                             *)
LEMMA PassExists ==
  ASSUME NEW order, NEW N \in Nat
  PROVE  \E f : f = [n \in 0 .. N |-> IF n = 0 THEN <<>> ELSE Counted(f[n - 1], order[n])]
<1> DEFINE Pass(f, m) == f = [n \in 0 .. m |-> IF n = 0 THEN <<>> ELSE Counted(f[n - 1], order[n])]
           T == {m \in Nat : \E f : Pass(f, m)}
<1>1. 0 \in T
  <2>1. Pass([n \in 0 .. 0 |-> <<>>], 0)
    OBVIOUS
  <2> QED BY <2>1
<1>2. ASSUME NEW m \in Nat, m \in T
      PROVE  m + 1 \in T
  <2>1. PICK f : Pass(f, m)
    BY <1>2
  <2> DEFINE g == [n \in 0 .. m + 1 |-> IF n = 0 THEN <<>> ELSE Counted(f[n - 1], order[n])]
  <2>2. \A n \in 0 .. m : g[n] = f[n]
    BY <2>1
  <2>3. \A n \in 0 .. m + 1 : n # 0 => n - 1 \in 0 .. m
    OBVIOUS
  <2>4. g = [n \in 0 .. m + 1 |-> IF n = 0 THEN <<>> ELSE Counted(g[n - 1], order[n])]
    BY <2>2, <2>3
  <2>5. Pass(g, m + 1)
    BY <2>4
  <2> HIDE DEF Pass, g
  <2> QED BY <2>5
<1> HIDE DEF T
<1>3. Nat \subseteq T
  BY <1>1, <1>2, Induction
<1> QED BY <1>3 DEF T

(* ... and finds what it has to, in whatever order the objects are listed. *)
LEMMA TotalsAreSums ==
  ASSUME NEW S \in SUBSET Paths
  PROVE  Totals(S) = Summed(S)
<1> DEFINE order == SetToSeq(S)
           N == Len(order)
           after == CHOOSE f : f = [n \in 0 .. N |-> IF n = 0 THEN <<>> ELSE Counted(f[n - 1], order[n])]
           Seen(n) == {order[i] : i \in 1 .. n}
           T == {n \in Nat : n <= N => after[n] = Summed(Seen(n))}
<1>1. IsFiniteSet(S)
  BY InventoryPaths, FS_Subset
<1>2. /\ N \in Nat /\ Seen(N) = S /\ \A i \in 1 .. N : order[i] \in S
      /\ \A i, j \in 1 .. N : order[i] = order[j] => i = j
  BY <1>1, InOrder
<1>3. after = [n \in 0 .. N |-> IF n = 0 THEN <<>> ELSE Counted(after[n - 1], order[n])]
  BY <1>2, PassExists
<1>4. Totals(S) = after[N]
  BY DEF Totals
<1> HIDE DEF after, order, N
<1>5. 0 \in T
  <2>1. Seen(0) = {}
    OBVIOUS
  <2>2. Summed({}) = <<>>
    BY DEF Summed, Dirs
  <2>3. after[0] = <<>>
    BY <1>2, <1>3
  <2> HIDE DEF Seen
  <2>4. after[0] = Summed(Seen(0))
    BY <2>1, <2>2, <2>3
  <2> QED BY <2>4
<1>6. ASSUME NEW n \in Nat, n \in T
      PROVE  n + 1 \in T
  <2> SUFFICES ASSUME n + 1 <= N PROVE after[n + 1] = Summed(Seen(n + 1))
    OBVIOUS
  <2>1. after[n] = Summed(Seen(n)) /\ after[n + 1] = Counted(after[n], order[n + 1])
    BY <1>2, <1>3, <1>6
  <2>2. Seen(n) \in SUBSET Paths /\ order[n + 1] \in Paths \ Seen(n) /\ Seen(n + 1) = Seen(n) \cup {order[n + 1]}
    BY <1>2
  <2> HIDE DEF Seen
  <2> QED BY <2>1, <2>2, CountedSums
<1> HIDE DEF T
<1>7. Nat \subseteq T
  BY <1>5, <1>6, Induction
<1>8. N \in T
  BY <1>2, <1>7
<1>9. after[N] = Summed(Seen(N))
  BY <1>8 DEF T
<1> QED BY <1>2, <1>4, <1>9

-----------------------------------------------------------------------------
(* The rows a listing is to be shown as.                                   *)
DirRows(g, objects) == {DirRow(g, d, Found(objects, d)) : d \in Dirs(objects)}
FileRows(g, objects) == {FileRow(g, p) : p \in objects}
Rows(g, objects) == DirRows(g, objects) \cup FileRows(g, objects)

LEMMA FiniteDirs ==
  ASSUME NEW S \in SUBSET Paths
  PROVE  IsFiniteSet(Dirs(S))
<1>1. IsFiniteSet(S)
  BY Bytes
<1>2. ASSUME NEW p \in S PROVE IsFiniteSet(Above(p))
  <2>1. Len(p) - 1 \in Nat
    BY InventoryPaths
  <2>2. IsFiniteSet(1 .. Len(p) - 1)
    BY <2>1, FS_Interval
  <2>3. [n \in 1 .. Len(p) - 1 |-> SubSeq(p, 1, n)] \in Surjection(1 .. Len(p) - 1, Above(p))
    BY DEF Surjection, Above
  <2> QED BY <2>2, <2>3, FS_Surjection
<1>3. IsFiniteSet({Above(p) : p \in S})
  <2>1. [p \in S |-> Above(p)] \in Surjection(S, {Above(p) : p \in S})
    BY DEF Surjection
  <2> QED BY <1>1, <2>1, FS_Surjection
<1> QED BY <1>2, <1>3, FS_UNION DEF Dirs

LEMMA FiniteRows ==
  ASSUME NEW S \in SUBSET Paths, NEW g
  PROVE  IsFiniteSet(DirRows(g, S)) /\ IsFiniteSet(FileRows(g, S))
<1>1. IsFiniteSet(S) /\ IsFiniteSet(Dirs(S))
  BY Bytes, FiniteDirs
<1>2. [p \in S |-> FileRow(g, p)] \in Surjection(S, FileRows(g, S))
  BY DEF Surjection, FileRows
<1>3. [d \in Dirs(S) |-> DirRow(g, d, Found(S, d))] \in Surjection(Dirs(S), DirRows(g, S))
  BY DEF Surjection, DirRows
<1>4. IsFiniteSet(FileRows(g, S))
  BY <1>1, <1>2, FS_Surjection
<1>5. IsFiniteSet(DirRows(g, S))
  BY <1>1, <1>3, FS_Surjection
<1> QED BY <1>4, <1>5

(* The pass builds exactly these.                                          *)
LEMMA BuiltRows ==
  ASSUME NEW S \in SUBSET Paths, NEW g
  PROVE  LET built == BuildRows(g, S)
         IN /\ built \in Seq(Rows(g, S)) /\ {built[i] : i \in 1 .. Len(built)} = Rows(g, S)
<1> DEFINE ds == SetToSeq(DirRows(g, S))
           fs == SetToSeq(FileRows(g, S))
<1>1. BuildRows(g, S) = ds \o fs
  <2>1. Totals(S) = Summed(S)
    BY TotalsAreSums
  <2>2. DOMAIN Summed(S) = Dirs(S) /\ \A d \in Dirs(S) : Summed(S)[d] = Found(S, d)
    BY DEF Summed
  <2>3. {DirRow(g, p, Summed(S)[p]) : p \in DOMAIN Summed(S)} = DirRows(g, S)
    BY <2>2 DEF DirRows
  <2> QED BY <2>1, <2>3 DEF BuildRows, FileRows
<1>2. IsFiniteSet(DirRows(g, S)) /\ IsFiniteSet(FileRows(g, S))
  BY FiniteRows
<1>3. ds \in Seq(DirRows(g, S)) /\ Len(ds) \in Nat /\ {ds[i] : i \in 1 .. Len(ds)} = DirRows(g, S)
  BY <1>2, InOrder
<1>4. fs \in Seq(FileRows(g, S)) /\ Len(fs) \in Nat /\ {fs[i] : i \in 1 .. Len(fs)} = FileRows(g, S)
  BY <1>2, InOrder
<1> HIDE DEF ds, fs
<1>5. ds \in Seq(Rows(g, S)) /\ fs \in Seq(Rows(g, S))
  BY <1>3, <1>4 DEF Rows
<1> DEFINE all == ds \o fs
<1>6. /\ all \in Seq(Rows(g, S)) /\ Len(all) = Len(ds) + Len(fs)
      /\ \A i \in 1 .. Len(ds) : i \in 1 .. Len(all) /\ all[i] = ds[i]
      /\ \A i \in 1 .. Len(fs) : Len(ds) + i \in 1 .. Len(all) /\ all[Len(ds) + i] = fs[i]
  BY <1>3, <1>4, <1>5
<1> HIDE DEF all
<1>7. \A i \in 1 .. Len(all) : all[i] \in Rows(g, S)
  BY <1>6
<1>8. \A row \in Rows(g, S) : \E i \in 1 .. Len(all) : all[i] = row
  BY <1>3, <1>4, <1>6 DEF Rows
<1>9. {all[i] : i \in 1 .. Len(all)} = Rows(g, S)
  BY <1>7, <1>8
<1> QED BY <1>1, <1>6, <1>9 DEF all

(* They are what IndexIsWhole asks for.                                    *)
LEMMA RowIs ==
  ASSUME NEW S \in SUBSET Paths, NEW g, NEW row \in Rows(g, S)
  PROVE  /\ row.gen = g /\ row.kind \in {"file", "dir"}
         /\ row.kind = "dir" => row.key \in Dirs(S) /\ row = DirRow(g, row.key, Found(S, row.key))
BY DEF Rows, DirRows, FileRows, DirRow, FileRow

LEMMA RowsAre ==
  ASSUME NEW S \in SUBSET Paths, NEW g
  PROVE  /\ {row.key : row \in {row \in Rows(g, S) : row.kind = "file"}} = S
         /\ {row.key : row \in {row \in Rows(g, S) : row.kind = "dir"}} = Dirs(S)
<1>1. \A p \in S : LET row == FileRow(g, p) IN row.kind = "file" /\ row.key = p
  BY DEF FileRow
<1>2. \A d \in Dirs(S) : LET row == DirRow(g, d, Found(S, d)) IN row.kind = "dir" /\ row.key = d
  BY DEF DirRow
<1> QED BY <1>1, <1>2 DEF Rows, DirRows, FileRows

LEMMA ChildrenCounted ==
  ASSUME NEW S \in SUBSET Paths, NEW g, NEW d \in Dirs(S)
  PROVE  Cardinality({child \in Rows(g, S) : child.key # <<>> /\ Parent(child.key) = d})
           = Cardinality(FilesIn(S, d)) + Cardinality(DirsIn(S, d))
<1> DEFINE F == {FileRow(g, p) : p \in FilesIn(S, d)}
           D == {DirRow(g, q, Found(S, q)) : q \in DirsIn(S, d)}
           f == [p \in FilesIn(S, d) |-> FileRow(g, p)]
           h == [q \in DirsIn(S, d) |-> DirRow(g, q, Found(S, q))]
<1>1. {child \in Rows(g, S) : child.key # <<>> /\ Parent(child.key) = d} = F \cup D
  <2>1. \A p \in S : FileRow(g, p).key = p /\ p # <<>>
    BY AboveIs DEF FileRow
  <2>2. \A q \in Dirs(S) : DirRow(g, q, Found(S, q)).key = q /\ q # <<>>
    BY DirsAre DEF DirRow
  <2> QED BY <2>1, <2>2 DEF Rows, FileRows, DirRows, FilesIn, DirsIn
<1>2. F \cap D = {}
  BY DEF FileRow, DirRow
<1>3. IsFiniteSet(FilesIn(S, d)) /\ IsFiniteSet(DirsIn(S, d))
  <2>1. IsFiniteSet(S) /\ IsFiniteSet(Dirs(S))
    BY Bytes, FiniteDirs
  <2> QED BY <2>1, FS_Subset DEF FilesIn, DirsIn
<1>4. IsFiniteSet(F) /\ Cardinality(F) = Cardinality(FilesIn(S, d))
  <2>1. f \in Bijection(FilesIn(S, d), F)
    BY DEF Bijection, Injection, Surjection, IsInjective, FileRow
  <2> QED BY <1>3, <2>1, FS_Bijection DEF ExistsBijection
<1>5. IsFiniteSet(D) /\ Cardinality(D) = Cardinality(DirsIn(S, d))
  <2>1. \A q \in DirsIn(S, d) : h[q].key = q
    BY DEF DirRow
  <2>2. h \in Bijection(DirsIn(S, d), D)
    BY <2>1 DEF Bijection, Injection, Surjection, IsInjective
  <2> QED BY <1>3, <2>2, FS_Bijection DEF ExistsBijection
<1> DEFINE children == {child \in Rows(g, S) : child.key # <<>> /\ Parent(child.key) = d}
<1>8. children = F \cup D
  BY <1>1
<1> HIDE DEF F, D, children
<1>6. Cardinality(F \cup D) = Cardinality(F) + Cardinality(D) - Cardinality({})
  BY <1>2, <1>4, <1>5, FS_Union
<1>7. Cardinality({}) = 0 /\ Cardinality(F) \in Nat /\ Cardinality(D) \in Nat
  BY <1>4, <1>5, FS_EmptySet, FS_CardinalityType
<1>9. Cardinality(children) = Cardinality(FilesIn(S, d)) + Cardinality(DirsIn(S, d))
  BY <1>4, <1>5, <1>6, <1>7, <1>8
<1> QED BY <1>9 DEF children

-----------------------------------------------------------------------------
(* The syncs.                                                              *)
Built == UNION {Rows(g, S) : g \in Generations, S \in SUBSET Paths}
Slots ==
  [pc : {"free", "list", "release"}] \cup [pc : {"acquire", "check"}, why : Reasons]
    \cup [pc : {"insert"}, gen : Generations, left : Seq(Built), size : Nat, count : Nat]
    \cup [pc : {"purge"}, gen : Generations]
InventoryTypes ==
  /\ listed \in SUBSET Paths /\ rows \in SUBSET Built /\ fresh \in BOOLEAN
  /\ meta \in [gen : Generations, size : Nat, count : Nat] \cup {None}
  /\ lease \in Syncs \cup {None} /\ sync \in [Syncs -> Slots]
  /\ leaseLapsed \in BOOLEAN /\ inventoryCalm \in BOOLEAN

\* The rows of a generation, and what is still to be inserted of it.
RowsOf(g) == {row \in rows : row.gen = g}
Left(s) == {sync[s].left[i] : i \in 1 .. Len(sync[s].left)}
\* These rows are a listing's, and `totals' are its totals.
Listing(these, totals) ==
  \E S \in SUBSET Paths : /\ these = Rows(totals.gen, S)
                          /\ totals.size = BytesOf(S) /\ totals.count = Cardinality(S)
Works(s) == sync[s].pc \notin {"free", "acquire"}

\* No lease has run out under its sync, so the sync that works has the lease;
\* what it has inserted and is to insert is a listing's, under a generation
\* that is not shown until all of it is there.
Alone == \A s \in Syncs : Works(s) => lease = s
Shown == meta # None => Listing(RowsOf(meta.gen), meta)
Inserting == \A s \in Syncs : SyncAt(s, "insert") =>
  Listing(RowsOf(sync[s].gen) \cup Left(s), sync[s]) /\ (meta # None => meta.gen # sync[s].gen)
Purging == \A s \in Syncs : SyncAt(s, "purge") => meta.gen = sync[s].gen
InventoryInv ==
  InventoryTypes /\ (~leaseLapsed => Alone /\ Shown /\ Inserting /\ Purging)

LEMMA ListingIs ==
  ASSUME NEW these, NEW totals, Listing(these, totals)
  PROVE  /\ \A row \in these : row.gen = totals.gen
         /\ totals.gen \in Generations => these \in SUBSET Built
<1>1. PICK S \in SUBSET Paths : these = Rows(totals.gen, S)
  BY DEF Listing
<1> QED BY <1>1, RowIs DEF Built

(* Steps that write no rows and no meta document, and start neither to     *)
(* insert nor to purge.                                                    *)
LEMMA Undisturbed ==
  ASSUME InventoryInv, InventoryTypes', UNCHANGED <<rows, meta>>, leaseLapsed' \/ (~leaseLapsed /\ Alone'),
         \A s \in Syncs : sync'[s] = sync[s] \/ sync'[s].pc \notin {"insert", "purge"}
  PROVE  InventoryInv'
<1> SUFFICES ASSUME ~leaseLapsed' PROVE (Alone /\ Shown /\ Inserting /\ Purging)'
  BY DEF InventoryInv
<1>1. Alone' /\ Shown /\ Inserting /\ Purging
  BY DEF InventoryInv
<1>2. Shown'
  BY <1>1 DEF Shown, RowsOf
<1>3. \A s \in Syncs : SyncAt(s, "insert")' => sync'[s] = sync[s]
  BY DEF SyncAt
<1>4. \A s \in Syncs : SyncAt(s, "purge")' => sync'[s] = sync[s]
  BY DEF SyncAt
<1>5. Inserting'
  BY <1>1, <1>3 DEF Inserting, RowsOf, Left, SyncAt
<1>6. Purging'
  BY <1>1, <1>4 DEF Purging, SyncAt
<1> QED BY <1>1, <1>2, <1>5, <1>6

(* One slot of the worker is written.                                      *)
LEMMA SlotWritten ==
  ASSUME InventoryTypes, NEW s \in Syncs, NEW slot \in Slots, sync' = [sync EXCEPT ![s] = slot]
  PROVE  sync' \in [Syncs -> Slots] /\ sync'[s] = slot /\ \A z \in Syncs : z # s => sync'[z] = sync[z]
BY DEF InventoryTypes

\* One record of every kind.
LEMMA SlotKinds ==
  /\ \A pc \in {"free", "list", "release"} : [pc |-> pc] \in Slots
  /\ \A pc \in {"acquire", "check"}, why \in Reasons : [pc |-> pc, why |-> why] \in Slots
  /\ \A g \in Generations, left \in Seq(Built), n, m \in Nat :
       [pc |-> "insert", gen |-> g, left |-> left, size |-> n, count |-> m] \in Slots
  /\ \A g \in Generations : [pc |-> "purge", gen |-> g] \in Slots
BY DEF Slots

LEMMA SlotsAre ==
  ASSUME InventoryTypes, NEW s \in Syncs
  PROVE  /\ sync[s] \in Slots
         /\ SyncAt(s, "acquire") => sync[s] \in [pc : {"acquire", "check"}, why : Reasons]
         /\ SyncAt(s, "insert") =>
              sync[s] \in [pc : {"insert"}, gen : Generations, left : Seq(Built), size : Nat, count : Nat]
         /\ SyncAt(s, "purge") => sync[s] \in [pc : {"purge"}, gen : Generations]
         /\ sync[s].pc \in {"free", "acquire", "check", "list", "insert", "purge", "release"}
<1>1. sync[s] \in Slots
  BY DEF InventoryTypes
<1> QED BY <1>1 DEF Slots, SyncAt

LEMMA AcquireKeeps ==
  ASSUME InventoryInv, NEW s \in Syncs, AcquireLease(s)
  PROVE  InventoryInv'
<1>1. CASE lease = None
  <2>1. sync[s] \in [pc : {"acquire", "check"}, why : Reasons]
    BY SlotsAre DEF AcquireLease, InventoryInv
  <2>2. lease' = s /\ sync' = [sync EXCEPT ![s] = [pc |-> "check", why |-> sync[s].why]]
    BY <1>1, <2>1 DEF AcquireLease, SyncTo
  <2>3. [pc |-> "check", why |-> sync[s].why] \in Slots
    BY <2>1, SlotKinds
  <2>4. sync' \in [Syncs -> Slots] /\ sync'[s].pc = "check" /\ \A z \in Syncs : z # s => sync'[z] = sync[z]
    BY <2>2, <2>3, SlotWritten DEF InventoryInv
  <2>5. InventoryTypes'
    BY <2>2, <2>4 DEF InventoryInv, InventoryTypes, AcquireLease
  <2>6. ~leaseLapsed => Alone'
    BY <1>1, <2>2, <2>4, InventoryConstants DEF InventoryInv, Alone, Works
  <2> QED BY <2>4, <2>5, <2>6, Undisturbed DEF AcquireLease, InventoryInv, InventoryTypes
<1>2. CASE lease # None
  <2>1. lease' = lease /\ sync' = [sync EXCEPT ![s] = NoSync]
    BY <1>2 DEF AcquireLease
  <2>2. NoSync \in Slots /\ NoSync.pc = "free"
    BY SlotKinds DEF NoSync
  <2>3. sync' \in [Syncs -> Slots] /\ sync'[s].pc = "free" /\ \A z \in Syncs : z # s => sync'[z] = sync[z]
    BY <2>1, <2>2, SlotWritten DEF InventoryInv
  <2>4. InventoryTypes'
    BY <2>1, <2>3 DEF InventoryInv, InventoryTypes, AcquireLease
  <2>5. ~leaseLapsed => Alone'
    BY <2>1, <2>3 DEF InventoryInv, Alone, Works
  <2> QED BY <2>3, <2>4, <2>5, Undisturbed DEF AcquireLease, InventoryInv, InventoryTypes
<1> QED BY <1>1, <1>2

(* A sync is sent, finds what it is to do, fails, or ends.                 *)
LEMMA SlotKeeps ==
  ASSUME InventoryInv, NEW s \in Syncs, NEW slot \in Slots, sync' = [sync EXCEPT ![s] = slot],
         \/ slot.pc \in {"free", "acquire"}
         \/ slot.pc \in {"list", "release"} /\ sync[s].pc \in {"check", "list", "insert", "purge"},
         lease' = lease \/ (lease = s /\ lease' = None /\ slot.pc = "free"),
         UNCHANGED <<listed, rows, meta, fresh, leaseLapsed, inventoryCalm>>
  PROVE  InventoryInv'
<1>1. sync' \in [Syncs -> Slots] /\ sync'[s] = slot /\ \A z \in Syncs : z # s => sync'[z] = sync[z]
  BY SlotWritten DEF InventoryInv
<1>2. InventoryTypes'
  BY <1>1 DEF InventoryInv, InventoryTypes
<1>3. ~leaseLapsed => Alone'
  <2> SUFFICES ASSUME ~leaseLapsed, NEW z \in Syncs, Works(z)' PROVE lease' = z
    BY DEF Alone
  <2>1. Alone /\ lease \in Syncs \cup {None}
    BY DEF InventoryInv, InventoryTypes
  <2>2. CASE z = s
    BY <1>1, <2>1, <2>2 DEF Alone, Works
  <2>3. CASE z # s
    BY <1>1, <2>1, <2>3 DEF Alone, Works
  <2> QED BY <2>2, <2>3
<1> QED BY <1>1, <1>2, <1>3, Undisturbed DEF InventoryInv, InventoryTypes

LEMMA ListKeeps ==
  ASSUME InventoryInv, NEW s \in Syncs, List(s)
  PROVE  InventoryInv'
<1> DEFINE g == CHOOSE g \in FreshGenerations : TRUE
           built == BuildRows(g, listed)
           slot == [pc |-> "insert", gen |-> g, left |-> built, size |-> BytesOf(listed), count |-> Cardinality(listed)]
<1>1. SyncAt(s, "list") /\ g \in FreshGenerations /\ sync' = [sync EXCEPT ![s] = slot]
      /\ UNCHANGED <<listed, rows, meta, fresh, lease, leaseLapsed, inventoryCalm>>
  BY DEF List
<1> HIDE DEF g
<1>2. g \in Generations /\ (\A row \in rows : row.gen # g) /\ (meta # None => meta.gen # g)
  BY <1>1 DEF FreshGenerations
<1>3. listed \in SUBSET Paths
  BY DEF InventoryInv, InventoryTypes
<1>4. built \in Seq(Rows(g, listed)) /\ {built[i] : i \in 1 .. Len(built)} = Rows(g, listed)
  BY <1>3, BuiltRows
<1>5. BytesOf(listed) \in Nat /\ Cardinality(listed) \in Nat
  BY <1>3, Bytes
<1>6. Rows(g, listed) \subseteq Built
  BY <1>2, <1>3 DEF Built
<1> HIDE DEF built
<1>7. built \in Seq(Built)
  BY <1>4, <1>6
<1>8. slot \in Slots
  BY <1>2, <1>5, <1>7, SlotKinds
<1>9. sync' \in [Syncs -> Slots] /\ sync'[s] = slot /\ \A z \in Syncs : z # s => sync'[z] = sync[z]
  BY <1>1, <1>8, SlotWritten DEF InventoryInv
<1>10. InventoryTypes'
  BY <1>1, <1>9 DEF InventoryInv, InventoryTypes
<1> SUFFICES ASSUME ~leaseLapsed PROVE (Alone /\ Shown /\ Inserting /\ Purging)'
  BY <1>1, <1>10 DEF InventoryInv
<1>11. Alone /\ Shown /\ Inserting /\ Purging
  BY DEF InventoryInv
<1>12. lease = s
  BY <1>1, <1>11 DEF Alone, Works, SyncAt
<1>13. Alone'
  BY <1>1, <1>9, <1>11, <1>12 DEF Alone, Works
<1>14. Shown'
  BY <1>1, <1>11 DEF Shown, RowsOf
<1>15. ASSUME NEW z \in Syncs, SyncAt(z, "insert")'
       PROVE  (Listing(RowsOf(sync[z].gen) \cup Left(z), sync[z]) /\ (meta # None => meta.gen # sync[z].gen))'
  <2>1. z = s
    BY <1>13, <1>12, <1>1, <1>15 DEF Alone, Works, SyncAt
  <2>2. sync'[z] = slot /\ slot.gen = g /\ slot.left = built /\ slot.size = BytesOf(listed)
        /\ slot.count = Cardinality(listed)
    BY <1>9, <2>1
  <2> HIDE DEF slot
  <2>3. RowsOf(g) = {}
    BY <1>2 DEF RowsOf
  <2>4. RowsOf(sync[z].gen)' = RowsOf(g)
    BY <1>1, <2>2 DEF RowsOf
  <2>5. Left(z)' = Rows(g, listed)
    BY <1>4, <2>2 DEF Left
  <2>6. Listing(Rows(g, listed), sync'[z])
    BY <1>3, <2>2 DEF Listing
  <2>7. Listing(RowsOf(sync[z].gen) \cup Left(z), sync[z])'
    BY <2>3, <2>4, <2>5, <2>6 DEF Listing
  <2> QED BY <1>1, <1>2, <2>2, <2>7
<1>16. Purging'
  BY <1>1, <1>9, <1>11 DEF Purging, SyncAt
<1> QED BY <1>13, <1>14, <1>15, <1>16 DEF Inserting

LEMMA InsertKeeps ==
  ASSUME InventoryInv, NEW s \in Syncs, Insert(s)
  PROVE  InventoryInv'
<1> DEFINE left == sync[s].left
           n == IF Len(left) < InsertBatch THEN Len(left) ELSE InsertBatch
           rest == SubSeq(left, n + 1, Len(left))
           slot == [pc |-> "insert", gen |-> sync[s].gen, left |-> rest, size |-> sync[s].size,
                    count |-> sync[s].count]
           batch == {left[i] : i \in 1 .. n}
           after == {rest[i] : i \in 1 .. Len(rest)}
<1>1. sync[s] \in [pc : {"insert"}, gen : Generations, left : Seq(Built), size : Nat, count : Nat]
  BY SlotsAre DEF Insert, InventoryInv
<1>2. left \in Seq(Built) /\ Len(left) \in Nat /\ n \in 0 .. Len(left)
  BY <1>1, InventoryConstants
<1>3. SyncAt(s, "insert") /\ rows' = rows \cup batch /\ sync' = [sync EXCEPT ![s].left = rest]
      /\ UNCHANGED <<listed, meta, fresh, lease, leaseLapsed, inventoryCalm>>
  BY DEF Insert
<1> HIDE DEF left, n
<1>4. /\ rest \in Seq(Built) /\ Len(rest) = Len(left) - n
      /\ \A i \in 1 .. Len(rest) : rest[i] = left[n + i] /\ n + i \in 1 .. Len(left)
  BY <1>2
<1>5. batch \in SUBSET Built
  BY <1>2
<1>6. batch \cup after = {left[i] : i \in 1 .. Len(left)}
  <2>1. after \subseteq {left[i] : i \in 1 .. Len(left)}
    BY <1>4
  <2>2. batch \subseteq {left[i] : i \in 1 .. Len(left)}
    BY <1>2
  <2>3. ASSUME NEW i \in 1 .. Len(left) PROVE left[i] \in batch \cup after
    <3>1. CASE i <= n
      <4>1. i \in 1 .. n
        BY <1>2, <3>1
      <4> QED BY <4>1
    <3>2. CASE i > n
      <4>1. i - n \in 1 .. Len(rest) /\ n + (i - n) = i
        BY <1>2, <1>4, <3>2
      <4>2. rest[i - n] = left[i]
        BY <1>4, <4>1
      <4> QED BY <4>1, <4>2
    <3> HIDE DEF batch, after
    <3>3. i <= n \/ i > n
      BY <1>2
    <3> QED BY <3>1, <3>2, <3>3
  <2> QED BY <2>1, <2>2, <2>3
<1> HIDE DEF rest
<1>7. slot \in Slots
  BY <1>1, <1>4, SlotKinds
<1>8. sync' = [sync EXCEPT ![s] = slot]
  <2>1. sync \in [Syncs -> Slots]
    BY DEF InventoryInv, InventoryTypes
  <2>2. [sync[s] EXCEPT !.left = rest] = slot
    BY <1>1, <1>3 DEF SyncAt
  <2>3. sync' = [sync EXCEPT ![s] = [sync[s] EXCEPT !.left = rest]]
    BY <1>3, <2>1
  <2> QED BY <2>2, <2>3
<1> HIDE DEF batch, after
<1>9. sync' \in [Syncs -> Slots] /\ sync'[s] = slot /\ \A z \in Syncs : z # s => sync'[z] = sync[z]
  BY <1>7, <1>8, SlotWritten DEF InventoryInv
<1>10. InventoryTypes'
  BY <1>3, <1>5, <1>9 DEF InventoryInv, InventoryTypes
<1> SUFFICES ASSUME ~leaseLapsed PROVE (Alone /\ Shown /\ Inserting /\ Purging)'
  BY <1>3, <1>10 DEF InventoryInv
<1>11. Alone /\ Shown /\ Inserting /\ Purging
  BY DEF InventoryInv
<1>12. lease = s
  BY <1>3, <1>11 DEF Alone, Works, SyncAt
<1>13. Alone'
  BY <1>3, <1>9, <1>11, <1>12 DEF Alone, Works
<1>14. Left(s) = batch \cup after /\ (meta # None => meta.gen # sync[s].gen)
       /\ Listing(RowsOf(sync[s].gen) \cup Left(s), sync[s])
  BY <1>3, <1>6, <1>11 DEF Inserting, Left, left
<1>15. \A row \in batch : row.gen = sync[s].gen
  BY <1>14, ListingIs
<1>16. Shown'
  <2> SUFFICES ASSUME meta # None PROVE Shown'
    BY <1>3 DEF Shown
  <2>1. RowsOf(meta.gen)' = RowsOf(meta.gen)
    BY <1>3, <1>14, <1>15 DEF RowsOf
  <2> QED BY <1>3, <1>11, <2>1 DEF Shown
<1>17. ASSUME NEW z \in Syncs, SyncAt(z, "insert")'
       PROVE  (Listing(RowsOf(sync[z].gen) \cup Left(z), sync[z]) /\ (meta # None => meta.gen # sync[z].gen))'
  <2>1. z = s
    BY <1>3, <1>12, <1>13, <1>17 DEF Alone, Works, SyncAt
  <2>2. sync'[z] = slot /\ slot.gen = sync[s].gen /\ slot.left = rest /\ slot.size = sync[s].size
        /\ slot.count = sync[s].count
    BY <1>9, <2>1
  <2> HIDE DEF slot
  <2>3. RowsOf(sync[z].gen)' = RowsOf(sync[s].gen) \cup batch
    BY <1>3, <1>15, <2>2 DEF RowsOf
  <2>4. Left(z)' = after
    BY <2>2 DEF Left, after
  <2>5. (RowsOf(sync[z].gen) \cup Left(z))' = RowsOf(sync[s].gen) \cup Left(s)
    BY <1>14, <2>3, <2>4
  <2>6. Listing(RowsOf(sync[z].gen) \cup Left(z), sync[z])'
    BY <1>14, <2>2, <2>5 DEF Listing
  <2> QED BY <1>3, <1>14, <2>2, <2>6
<1>18. Purging'
  BY <1>3, <1>9, <1>11 DEF Purging, SyncAt
<1> QED BY <1>13, <1>16, <1>17, <1>18 DEF Inserting

LEMMA ShowKeeps ==
  ASSUME InventoryInv, NEW s \in Syncs, ShowGeneration(s)
  PROVE  InventoryInv'
<1> DEFINE slot == [pc |-> "purge", gen |-> sync[s].gen]
<1>1. sync[s] \in [pc : {"insert"}, gen : Generations, left : Seq(Built), size : Nat, count : Nat]
  BY SlotsAre DEF ShowGeneration, InventoryInv
<1>2. SyncAt(s, "insert") /\ sync[s].left = <<>> /\ sync' = [sync EXCEPT ![s] = slot]
      /\ meta' = [gen |-> sync[s].gen, size |-> sync[s].size, count |-> sync[s].count]
      /\ fresh' \in BOOLEAN /\ UNCHANGED <<listed, rows, lease, leaseLapsed, inventoryCalm>>
  BY DEF ShowGeneration
<1>3. slot \in Slots
  BY <1>1, SlotKinds
<1>4. sync' \in [Syncs -> Slots] /\ sync'[s] = slot /\ \A z \in Syncs : z # s => sync'[z] = sync[z]
  BY <1>2, <1>3, SlotWritten DEF InventoryInv
<1>5. meta' \in [gen : Generations, size : Nat, count : Nat]
  BY <1>1, <1>2
<1>6. InventoryTypes'
  BY <1>2, <1>4, <1>5 DEF InventoryInv, InventoryTypes
<1> SUFFICES ASSUME ~leaseLapsed PROVE (Alone /\ Shown /\ Inserting /\ Purging)'
  BY <1>2, <1>6 DEF InventoryInv
<1>7. Alone /\ Shown /\ Inserting /\ Purging
  BY DEF InventoryInv
<1>8. lease = s
  BY <1>2, <1>7 DEF Alone, Works, SyncAt
<1>9. Alone'
  BY <1>2, <1>4, <1>7, <1>8 DEF Alone, Works
<1>10. Left(s) = {}
  BY <1>2 DEF Left
<1>11. Listing(RowsOf(sync[s].gen), sync[s])
  BY <1>2, <1>7, <1>10 DEF Inserting
<1>12. meta'.gen = sync[s].gen /\ meta'.size = sync[s].size /\ meta'.count = sync[s].count
  BY <1>2
<1>13. RowsOf(meta.gen)' = RowsOf(sync[s].gen)
  BY <1>2, <1>12 DEF RowsOf
<1>14. Shown'
  BY <1>11, <1>12, <1>13 DEF Shown, Listing
<1>15. \A z \in Syncs : SyncAt(z, "insert")' => FALSE
  BY <1>2, <1>4, <1>8, <1>9 DEF Alone, Works, SyncAt
<1>16. \A z \in Syncs : SyncAt(z, "purge")' => z = s
  BY <1>2, <1>8, <1>9 DEF Alone, Works, SyncAt
<1> QED BY <1>4, <1>9, <1>12, <1>14, <1>15, <1>16 DEF Inserting, Purging

LEMMA PurgeKeeps ==
  ASSUME InventoryInv, NEW s \in Syncs, PurgeOthers(s)
  PROVE  InventoryInv'
<1> DEFINE slot == [pc |-> "release"]
<1>1. SyncAt(s, "purge") /\ sync' = [sync EXCEPT ![s] = slot] /\ rows' = RowsOf(sync[s].gen)
      /\ UNCHANGED <<listed, meta, fresh, lease, leaseLapsed, inventoryCalm>>
  BY DEF PurgeOthers, RowsOf
<1>2. slot \in Slots /\ slot.pc = "release"
  BY SlotKinds
<1>3. sync' \in [Syncs -> Slots] /\ sync'[s] = slot /\ \A z \in Syncs : z # s => sync'[z] = sync[z]
  BY <1>1, <1>2, SlotWritten DEF InventoryInv
<1>4. InventoryTypes'
  BY <1>1, <1>3 DEF InventoryInv, InventoryTypes, RowsOf
<1> SUFFICES ASSUME ~leaseLapsed PROVE (Alone /\ Shown /\ Inserting /\ Purging)'
  BY <1>1, <1>4 DEF InventoryInv
<1>5. Alone /\ Shown /\ Inserting /\ Purging
  BY DEF InventoryInv
<1>6. lease = s /\ meta.gen = sync[s].gen
  BY <1>1, <1>5 DEF Alone, Works, SyncAt, Purging
<1>7. Alone'
  BY <1>1, <1>3, <1>5, <1>6 DEF Alone, Works
<1>8. RowsOf(meta.gen)' = RowsOf(meta.gen)
  BY <1>1, <1>6 DEF RowsOf
<1>9. Shown'
  BY <1>1, <1>5, <1>8 DEF Shown
<1>10. \A z \in Syncs : ~SyncAt(z, "insert")' /\ ~SyncAt(z, "purge")'
  BY <1>1, <1>2, <1>3, <1>6, <1>7 DEF Alone, Works, SyncAt
<1> QED BY <1>7, <1>9, <1>10 DEF Inserting, Purging

LEMMA RunsOutKeeps ==
  ASSUME InventoryInv, NEW s \in Syncs, RunsOut(s)
  PROVE  InventoryInv'
<1>1. lease = s /\ lease' = None /\ UNCHANGED <<listed, rows, meta, fresh, sync, inventoryCalm>>
      /\ leaseLapsed' = (leaseLapsed \/ Works(s))
  BY DEF RunsOut, Works
<1>2. leaseLapsed' \in BOOLEAN
  BY <1>1 DEF InventoryInv, InventoryTypes
<1>3. InventoryTypes'
  BY <1>1, <1>2 DEF InventoryInv, InventoryTypes
<1>4. leaseLapsed' \/ (~leaseLapsed /\ Alone')
  BY <1>1 DEF InventoryInv, Alone, Works
<1> QED BY <1>1, <1>3, <1>4, Undisturbed

LEMMA InventoryStep == InventoryInv /\ [InventoryNext]_ivars => InventoryInv'
<1> SUFFICES ASSUME InventoryInv, [InventoryNext]_ivars PROVE InventoryInv'
  OBVIOUS
<1>1. ASSUME UNCHANGED <<rows, meta, lease, sync, leaseLapsed>>,
             listed' \in SUBSET Paths, fresh' \in BOOLEAN, inventoryCalm' \in BOOLEAN
      PROVE  InventoryInv'
  <2>1. InventoryTypes'
    BY <1>1 DEF InventoryInv, InventoryTypes
  <2>2. ~leaseLapsed => Alone'
    BY <1>1 DEF InventoryInv, Alone, Works
  <2> QED BY <1>1, <2>1, <2>2, Undisturbed DEF InventoryInv, InventoryTypes
<1>2. listed \in SUBSET Paths /\ fresh \in BOOLEAN /\ inventoryCalm \in BOOLEAN
  BY DEF InventoryInv, InventoryTypes
<1>3. ASSUME NEW p \in Paths, Upload(p) \/ Erase(p) PROVE InventoryInv'
  BY <1>1, <1>2, <1>3 DEF Upload, Erase
<1>4. CASE Ages
  BY <1>1, <1>2, <1>4 DEF Ages
<1>6. CASE UNCHANGED ivars
  BY <1>1, <1>2, <1>6 DEF ivars
<1>7. ASSUME NEW s \in Syncs, NEW why \in Reasons, SendSync(s, why) PROVE InventoryInv'
  <2>1. [pc |-> "acquire", why |-> why] \in Slots
    BY SlotKinds
  <2> QED BY <1>7, <2>1, SlotKeeps DEF SendSync
<1>8. ASSUME NEW s \in Syncs, CheckMeta(s) PROVE InventoryInv'
  <2> DEFINE pc == IF Needless(s) THEN "release" ELSE "list"
  <2>1. pc \in {"list", "release"}
    OBVIOUS
  <2> HIDE DEF pc
  <2>2. [pc |-> pc] \in Slots /\ [pc |-> pc].pc = pc
    BY <2>1, SlotKinds
  <2>3. sync' = [sync EXCEPT ![s] = [pc |-> pc]]
    BY <1>8 DEF CheckMeta, pc
  <2> QED BY <1>8, <2>1, <2>2, <2>3, SlotKeeps DEF CheckMeta, SyncAt
<1>9. ASSUME NEW s \in Syncs, SyncFails(s) PROVE InventoryInv'
  <2>1. [pc |-> "release"] \in Slots /\ [pc |-> "release"].pc = "release"
    BY SlotKinds
  <2> QED BY <1>9, <2>1, SlotKeeps DEF SyncFails
<1>10. NoSync \in Slots /\ NoSync.pc = "free"
  BY SlotKinds DEF NoSync
<1>11. ASSUME NEW s \in Syncs, ReleaseLease(s) \/ SyncDies(s) PROVE InventoryInv'
  BY <1>10, <1>11, SlotKeeps DEF ReleaseLease, SyncDies
<1> QED BY <1>3, <1>4, <1>6, <1>7, <1>8, <1>9, <1>11, AcquireKeeps, ListKeeps, InsertKeeps, ShowKeeps,
           PurgeKeeps, RunsOutKeeps DEF InventoryNext, SyncStep

LEMMA InventoryStarts == InventoryInit => InventoryInv
<1> SUFFICES ASSUME InventoryInit PROVE InventoryInv
  OBVIOUS
<1>1. NoSync \in Slots /\ NoSync.pc = "free"
  BY SlotKinds DEF NoSync
<1>2. InventoryTypes
  BY <1>1 DEF InventoryInit, InventoryTypes
<1>3. \A s \in Syncs : sync[s].pc = "free"
  BY <1>1 DEF InventoryInit
<1>4. meta = None
  BY DEF InventoryInit
<1> QED BY <1>2, <1>3, <1>4 DEF InventoryInv, Alone, Works, Shown, Inserting, Purging, SyncAt

(* The rows that are shown are whole.                                      *)
LEMMA WholeIndex == InventoryInv => IndexIsWhole
<1> SUFFICES ASSUME InventoryInv, ~leaseLapsed, meta # None
             PROVE  /\ AddsUp(meta, ShownFiles)
                    /\ UNION {Above(p) : p \in ShownFiles} = {row.key : row \in {row \in ShownRows : row.kind = "dir"}}
                    /\ \A row \in ShownRows : row.kind = "dir" =>
                         /\ AddsUp(row, Beneath(row.key))
                         /\ row.children = Cardinality({child \in ShownRows : child.key # <<>> /\ Parent(child.key) = row.key})
  BY DEF IndexIsWhole
<1>1. ShownRows = RowsOf(meta.gen) /\ Listing(RowsOf(meta.gen), meta)
  BY DEF InventoryInv, Shown, ShownRows, RowsOf
<1>2. PICK S \in SUBSET Paths : /\ ShownRows = Rows(meta.gen, S)
                                /\ meta.size = BytesOf(S) /\ meta.count = Cardinality(S)
  BY <1>1 DEF Listing
<1>3. ShownFiles = S
  BY <1>2, RowsAre DEF ShownFiles
<1>4. AddsUp(meta, ShownFiles)
  BY <1>2, <1>3 DEF AddsUp
<1>5. UNION {Above(p) : p \in ShownFiles} = {row.key : row \in {row \in ShownRows : row.kind = "dir"}}
  BY <1>2, <1>3, RowsAre DEF Dirs
<1>6. ASSUME NEW row \in ShownRows, row.kind = "dir"
      PROVE  /\ AddsUp(row, Beneath(row.key))
             /\ row.children = Cardinality({child \in ShownRows : child.key # <<>> /\ Parent(child.key) = row.key})
  <2> DEFINE d == row.key
  <2>1. d \in Dirs(S) /\ row = DirRow(meta.gen, d, Found(S, d))
    <3>1. row \in Rows(meta.gen, S) /\ row.kind = "dir"
      BY <1>2, <1>6
    <3> QED BY <3>1, RowIs
  <2>2. /\ row.size = BytesOf(Under(S, d)) /\ row.count = Cardinality(Under(S, d))
        /\ row.children = Cardinality(FilesIn(S, d)) + Cardinality(DirsIn(S, d))
    BY <2>1 DEF DirRow, Found
  <2>3. Beneath(d) = Under(S, d)
    BY <1>3 DEF Beneath, Under
  <2>4. Cardinality({child \in Rows(meta.gen, S) : child.key # <<>> /\ Parent(child.key) = d})
          = Cardinality(FilesIn(S, d)) + Cardinality(DirsIn(S, d))
    BY <2>1, ChildrenCounted
  <2> QED BY <1>2, <2>2, <2>3, <2>4 DEF AddsUp
<1> QED BY <1>4, <1>5, <1>6

LEMMA InventoryTyped == InventoryInv => InventoryTypeOK
<1> SUFFICES ASSUME InventoryInv PROVE InventoryTypeOK
  OBVIOUS
<1>1. ASSUME NEW row \in Built PROVE row.gen \in Generations /\ row.kind \in {"file", "dir"}
  <2>1. PICK g \in Generations, S \in SUBSET Paths : row \in Rows(g, S)
    BY DEF Built
  <2> QED BY <2>1, RowIs
<1>2. InventoryTypes
  BY DEF InventoryInv
<1>3. \A s \in Syncs : sync[s].pc \in {"free", "acquire", "check", "list", "insert", "purge", "release"}
  BY <1>2, SlotsAre
<1>4. /\ listed \subseteq Paths /\ fresh \in BOOLEAN /\ lease \in Syncs \cup {None}
      /\ meta = None \/ meta \in [gen : Generations, size : Nat, count : Nat]
  BY <1>2 DEF InventoryTypes
<1>5. \A row \in rows : row \in Built
  BY <1>2 DEF InventoryTypes
<1> QED BY <1>1, <1>3, <1>4, <1>5 DEF InventoryTypeOK

-----------------------------------------------------------------------------
(* Whatever syncs fail, die, overlap or are sent again, the variables have *)
(* their types.                                                            *)
THEOREM InventoryTypesCorrect == InventorySpec => []InventoryTypeOK
BY InventoryStep, InventoryStarts, InventoryTyped, PTL DEF InventorySpec

(* And unless a lease ran out under its sync, the index that is shown is   *)
(* whole: every file of the listing and every directory above one, the     *)
(* bytes, objects and children of each.                                    *)
THEOREM IndexCorrect == InventorySpec => []IndexIsWhole
BY InventoryStep, InventoryStarts, WholeIndex, PTL DEF InventorySpec
=============================================================================
