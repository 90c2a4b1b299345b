---------------------- MODULE PackagePreparationProofs ----------------------
(***************************************************************************)
(* Theorems about PackagePreparation, for manifests, archives and hosts of   *)
(* any size.  The first part is about Bytes, the sum over a finite set: it   *)
(* is a fold, so every fact of it needs an induction over the subsets.       *)
(***************************************************************************)
EXTENDS PackagePreparation, FiniteSetTheorems, WellFoundedInduction, TLAPS

\* Induction over the subsets of a finite set, with a set for the predicate.
LEMMA SubsetInduction ==
  ASSUME NEW S, IsFiniteSet(S), NEW Good,
         \A T \in SUBSET S : (\A U \in SUBSET T : U # T => U \in Good) => T \in Good
  PROVE  S \in Good
<1> DEFINE Bad == {T \in SUBSET S : T \notin Good}
<1> HIDE DEF Bad
<1> SUFFICES ASSUME Bad # {} PROVE FALSE
  BY DEF Bad
<1>1. IsWellFoundedOn(StrictSubsetOrdering(S), SUBSET S)
  <2>1. FiniteSubsetsOf(S) = SUBSET S
    BY FS_FiniteSubsetsOfFinite
  <2>2. IsWellFoundedOn(StrictSubsetOrdering(S), FiniteSubsetsOf(S))
    BY FS_StrictSubsetOrderingWellFounded, Zenon
  <2> QED
    BY <2>1, <2>2, Zenon
<1>2. Bad \subseteq SUBSET S
  BY DEF Bad
<1>3. \E T \in Bad : \A U \in Bad : ~(<<U, T>> \in StrictSubsetOrdering(S))
  <2> DEFINE R == StrictSubsetOrdering(S)
             W == SUBSET S
  <2>1. IsWellFoundedOn(R, W) /\ Bad \subseteq W
    BY <1>1, <1>2
  <2> HIDE DEF R, W
  <2>2. \E T \in Bad : \A U \in Bad : ~(<<U, T>> \in R)
    BY <2>1, WFMin
  <2> QED
    BY <2>2 DEF R
<1>4. PICK T \in Bad : \A U \in Bad : ~(<<U, T>> \in StrictSubsetOrdering(S))
  BY <1>3
<1>5. \A U \in SUBSET T : U # T => U \in Good
  BY <1>2, <1>4 DEF StrictSubsetOrdering, Bad
<1> QED
  BY <1>4, <1>5 DEF Bad

\* The sum as the fold defines it.
Pick(T) == CHOOSE x \in T : TRUE
SumOver(g, f, T) == IF T = {} THEN 0 ELSE f[Pick(T)] + g[T \ {Pick(T)}]
Sums(g, f, S) == g = [T \in SUBSET S |-> SumOver(g, f, T)]
SumsOf(f, S) == CHOOSE g : Sums(g, f, S)

LEMMA BytesIsFold == ASSUME NEW f, NEW S PROVE Bytes(f, S) = SumsOf(f, S)[S]
  BY DEF Bytes, MapThenSumSet, MapThenFoldSet, SumsOf, Sums, SumOver, Pick

LEMMA PickIn == ASSUME NEW T, T # {} PROVE Pick(T) \in T
  BY DEF Pick

\* There is such a function: it is found for larger and larger subsets.
LEMMA SumsExist == ASSUME NEW S, IsFiniteSet(S), NEW f PROVE Sums(SumsOf(f, S), f, S)
<1> DEFINE Upto(n, g) == /\ g = [T \in SUBSET S |-> g[T]]
                         /\ \A T \in SUBSET S : Cardinality(T) <= n => g[T] = SumOver(g, f, T)
           Good == {U \in SUBSET S : \E g : Upto(Cardinality(U), g)}
<1>0. \A T \in SUBSET S : IsFiniteSet(T) /\ Cardinality(T) \in Nat
  BY FS_Subset, FS_CardinalityType
<1>1. ASSUME NEW U \in SUBSET S, \A V \in SUBSET U : V # U => V \in Good
      PROVE  U \in Good
  <2>1. CASE U = {}
    <3> DEFINE g == [T \in SUBSET S |-> 0]
    <3>1. \A T \in SUBSET S : Cardinality(T) <= 0 => T = {}
      BY <1>0, FS_EmptySet
    <3>2. Upto(0, g)
      BY <3>1 DEF SumOver
    <3>3. Cardinality(U) = 0
      BY <2>1, FS_EmptySet
    <3> QED
      BY <3>2, <3>3
  <2>2. CASE U # {}
    <3>1. PICK x \in U : TRUE
      BY <2>2
    <3> DEFINE n == Cardinality(U \ {x})
    <3>2. U \ {x} \in Good /\ Cardinality(U) = n + 1 /\ n \in Nat
      <4> HIDE DEF Good
      <4>1. U \ {x} \in SUBSET U /\ U \ {x} # U
        OBVIOUS
      <4>2. n = Cardinality(U) - 1
        BY <1>0, FS_RemoveElement
      <4>3. n \in Nat /\ Cardinality(U) \in Nat
        BY <1>0, <4>1
      <4>4. U \ {x} \in Good
        BY <1>1, <4>1
      <4> QED
        BY <4>2, <4>3, <4>4
    <3>3. PICK g : Upto(n, g)
      BY <3>2
    <3> DEFINE h == [T \in SUBSET S |-> IF Cardinality(T) <= n THEN g[T] ELSE SumOver(g, f, T)]
    <3> HIDE DEF n
    <3>4. ASSUME NEW T \in SUBSET S, Cardinality(T) <= n + 1
          PROVE  h[T] = SumOver(h, f, T)
      <4>1. CASE T = {}
        BY <3>2, <3>3, <4>1, FS_EmptySet DEF SumOver
      <4>2. CASE T # {}
        <5> DEFINE R == T \ {Pick(T)}
        <5>1. R \in SUBSET S /\ Cardinality(R) = Cardinality(T) - 1
          BY <1>0, <4>2, PickIn, FS_RemoveElement
        <5>2. Cardinality(R) <= n /\ Cardinality(T) \in Nat
          BY <1>0, <3>2, <3>4, <5>1
        <5> HIDE DEF R
        <5>3. h[R] = g[R]
          BY <5>1, <5>2
        <5>4. h[T] = SumOver(g, f, T)
          BY <3>3, <3>4
        <5> QED
          BY <4>2, <5>3, <5>4 DEF SumOver, R
      <4> QED
        BY <4>1, <4>2
    <3>5. h = [T \in SUBSET S |-> h[T]]
      OBVIOUS
    <3> HIDE DEF h
    <3>6. Upto(n + 1, h)
      BY <3>4, <3>5
    <3> QED
      BY <3>2, <3>6
  <2> QED
    BY <2>1, <2>2
<1> HIDE DEF Good
<1>2. S \in Good
  BY <1>1, SubsetInduction
<1>3. PICK g : Upto(Cardinality(S), g)
  BY <1>2 DEF Good
<1>4. \A T \in SUBSET S : g[T] = SumOver(g, f, T)
  BY <1>0, <1>3, FS_Subset
<1>5. Sums(g, f, S)
  BY <1>3, <1>4 DEF Sums
<1> QED
  BY <1>5 DEF SumsOf

LEMMA SumsUnfold ==
  ASSUME NEW f, NEW S, IsFiniteSet(S), NEW T \in SUBSET S
  PROVE  SumsOf(f, S)[T] = IF T = {} THEN 0 ELSE f[Pick(T)] + SumsOf(f, S)[T \ {Pick(T)}]
<1> DEFINE g == SumsOf(f, S)
<1>1. g = [U \in SUBSET S |-> SumOver(g, f, U)]
  BY SumsExist DEF Sums
<1> HIDE DEF g
<1>2. g[T] = SumOver(g, f, T)
  BY <1>1
<1> QED
  BY <1>2 DEF SumOver, g

\* What the sum over a set says of its subsets is their own sum.
LEMMA SumsAgree ==
  ASSUME NEW f, NEW S, IsFiniteSet(S), NEW T \in SUBSET S
  PROVE  SumsOf(f, S)[T] = Bytes(f, T)
<1> DEFINE Good == {U \in SUBSET S : \A R \in SUBSET S : U \subseteq R => SumsOf(f, R)[U] = Bytes(f, U)}
<1>1. ASSUME NEW U \in SUBSET S, \A V \in SUBSET U : V # U => V \in Good
      PROVE  U \in Good
  <2> SUFFICES ASSUME NEW R \in SUBSET S, U \subseteq R PROVE SumsOf(f, R)[U] = Bytes(f, U)
    OBVIOUS
  <2>1. IsFiniteSet(R) /\ IsFiniteSet(U)
    BY FS_Subset
  <2>2. Bytes(f, U) = SumsOf(f, U)[U]
    BY BytesIsFold
  <2>3. CASE U = {}
    BY <2>1, <2>2, <2>3, SumsUnfold
  <2>4. CASE U # {}
    <3> DEFINE V == U \ {Pick(U)}
    <3>1. V \in SUBSET U /\ V # U
      BY <2>4, PickIn
    <3>2. SumsOf(f, R)[V] = Bytes(f, V) /\ SumsOf(f, U)[V] = Bytes(f, V)
      BY <1>1, <3>1
    <3>3. SumsOf(f, R)[U] = f[Pick(U)] + SumsOf(f, R)[V]
      BY <2>1, <2>4, SumsUnfold
    <3>4. SumsOf(f, U)[U] = f[Pick(U)] + SumsOf(f, U)[V]
      BY <2>1, <2>4, SumsUnfold
    <3> QED
      BY <2>2, <3>2, <3>3, <3>4
  <2> QED
    BY <2>3, <2>4
<1> HIDE DEF Good
<1>2. ASSUME NEW U \in SUBSET S PROVE U \in Good
  <2>1. ASSUME NEW V \in SUBSET U, \A W \in SUBSET V : W # V => W \in Good PROVE V \in Good
    BY <1>1, <2>1
  <2>2. IsFiniteSet(U)
    BY FS_Subset
  <2> QED
    BY <2>1, <2>2, SubsetInduction
<1> QED
  BY <1>2 DEF Good

LEMMA BytesUnfold ==
  ASSUME NEW f, NEW S, IsFiniteSet(S)
  PROVE  Bytes(f, S) = IF S = {} THEN 0 ELSE f[Pick(S)] + Bytes(f, S \ {Pick(S)})
<1>1. S \ {Pick(S)} \in SUBSET S
  OBVIOUS
<1>2. SumsOf(f, S)[S \ {Pick(S)}] = Bytes(f, S \ {Pick(S)})
  BY <1>1, SumsAgree
<1>3. SumsOf(f, S)[S] = IF S = {} THEN 0 ELSE f[Pick(S)] + SumsOf(f, S)[S \ {Pick(S)}]
  BY S \in SUBSET S, SumsUnfold
<1> QED
  BY <1>2, <1>3, BytesIsFold

\* Term by term, a smaller size makes no larger sum.
LEMMA BytesMonotone ==
  ASSUME NEW S, IsFiniteSet(S), NEW f, NEW g,
         \A x \in S : f[x] \in Int /\ g[x] \in Int /\ f[x] <= g[x]
  PROVE  Bytes(f, S) \in Int /\ Bytes(g, S) \in Int /\ Bytes(f, S) <= Bytes(g, S)
<1> DEFINE Good == {T \in SUBSET S : /\ Bytes(f, T) \in Int /\ Bytes(g, T) \in Int
                                     /\ Bytes(f, T) <= Bytes(g, T)}
<1>1. ASSUME NEW T \in SUBSET S, \A U \in SUBSET T : U # T => U \in Good
      PROVE  T \in Good
  <2>1. IsFiniteSet(T)
    BY FS_Subset
  <2>2. CASE T = {}
    <3>1. Bytes(f, T) = 0 /\ Bytes(g, T) = 0
      BY <2>1, <2>2, BytesUnfold
    <3> QED
      BY <3>1
  <2>3. CASE T # {}
    <3> DEFINE p == Pick(T)
               U == T \ {p}
    <3>1. p \in S /\ U \in SUBSET T /\ U # T
      BY <2>3, PickIn
    <3>2. U \in Good
      BY <1>1, <3>1
    <3>3. Bytes(f, T) = f[p] + Bytes(f, U) /\ Bytes(g, T) = g[p] + Bytes(g, U)
      BY <2>1, <2>3, BytesUnfold
    <3> HIDE DEF p, U
    <3> QED
      BY <3>1, <3>2, <3>3
  <2> QED
    BY <2>2, <2>3
<1> HIDE DEF Good
<1>2. S \in Good
  BY <1>1, SubsetInduction
<1> QED
  BY <1>2 DEF Good

\* The order in which the files are met does not matter to the total.
LEMMA BytesOneMore ==
  ASSUME NEW S, IsFiniteSet(S), NEW f, \A y \in S : f[y] \in Int, NEW x \in S
  PROVE  Bytes(f, S) = f[x] + Bytes(f, S \ {x})
<1> DEFINE Good == {T \in SUBSET S : \A y \in T : Bytes(f, T) = f[y] + Bytes(f, T \ {y})}
<1>1. ASSUME NEW T \in SUBSET S, \A U \in SUBSET T : U # T => U \in Good
      PROVE  T \in Good
  <2> SUFFICES ASSUME NEW y \in T PROVE Bytes(f, T) = f[y] + Bytes(f, T \ {y})
    OBVIOUS
  <2> DEFINE p == Pick(T)
             U == T \ {p}
             V == T \ {y}
  <2>1. IsFiniteSet(T) /\ p \in T /\ IsFiniteSet(U) /\ IsFiniteSet(V) /\ IsFiniteSet(U \ {y})
    BY FS_Subset, PickIn
  <2>2. Bytes(f, T) = f[p] + Bytes(f, U)
    BY <2>1, BytesUnfold
  <2>3. CASE y = p
    BY <2>2, <2>3
  <2>4. CASE y # p
    <3>1. U \in Good /\ V \in Good
      BY <1>1, <2>1
    <3>2. Bytes(f, U) = f[y] + Bytes(f, U \ {y})
      BY <2>1, <2>4, <3>1
    <3>3. Bytes(f, V) = f[p] + Bytes(f, V \ {p})
      BY <2>1, <2>4, <3>1
    <3>4. Bytes(f, V) = f[p] + Bytes(f, U \ {y})
      BY <3>3, V \ {p} = U \ {y}
    <3>5. Bytes(f, U \ {y}) \in Int /\ f[y] \in Int /\ f[p] \in Int
      BY <2>1, BytesMonotone
    <3> HIDE DEF p, U
    <3> QED
      BY <2>2, <3>2, <3>4, <3>5
  <2> QED
    BY <2>3, <2>4
<1> HIDE DEF Good
<1>2. S \in Good
  BY <1>1, SubsetInduction
<1> QED
  BY <1>2 DEF Good

-----------------------------------------------------------------------------
(* The two loops. *)

USE PackagesAssumption DEF Sizes, Listed, NoFile, Empty, unpacking

LEMMA UnlistedIsNegative == Unlisted \in Int /\ Unlisted < 0
  BY DEF Unlisted

USE UnlistedIsNegative

LEMMA PrepInit == Init => UnpackInv
<1> SUFFICES ASSUME Init PROVE UnpackInv
  OBVIOUS
<1> USE DEF Init
<1>1. Len(archive) = 0 /\ archive \in Archives \cup {<<>>}
  OBVIOUS
<1>2. TypeOK
  <2>1. index \in 1 .. Len(archive) + 1
    BY <1>1
  <2>2. zip \in [size : Nat, right : BOOLEAN] /\ sink \in [written : Nat, failed : BOOLEAN]
    BY Zenon, 0 \in Nat
  <2>3. stage \in [Paths -> Nat \cup {Unlisted}]
    OBVIOUS
  <2> QED
    BY <1>1, <2>1, <2>2, <2>3 DEF TypeOK
<1>3. DownloadIsBounded /\ SinkErrorIsKept
  BY DEF DownloadIsBounded, SinkErrorIsKept
<1>4. BeforeInv /\ StageInv
  BY DEF BeforeInv, StageInv
<1> QED
  BY <1>2, <1>3, <1>4 DEF UnpackInv

LEMMA FailsKeeps == ASSUME UnpackInv, Fails PROVE UnpackInv'
<1> USE DEF UnpackInv, Fails
<1>1. TypeOK'
  BY DEF TypeOK
<1>2. DownloadIsBounded' /\ SinkErrorIsKept'
  BY DEF DownloadIsBounded, SinkErrorIsKept
<1>3. BeforeInv' /\ StageInv'
  BY DEF BeforeInv, StageInv
<1> QED
  BY <1>1, <1>2, <1>3

LEMMA DownloadKeeps == ASSUME UnpackInv, Download PROVE UnpackInv'
<1> USE DEF UnpackInv
<1>1. CASE Starts
  BY <1>1 DEF Starts, TypeOK, DownloadIsBounded, SinkErrorIsKept, BeforeInv, StageInv,
     Published
<1>2. CASE DoesNotStart \/ HostFails
  BY <1>2, FailsKeeps DEF DoesNotStart, HostFails
<1>3. CASE HostSucceeds
  BY <1>3 DEF HostSucceeds, TypeOK, DownloadIsBounded, SinkErrorIsKept, BeforeInv,
     StageInv, Published
<1>4. ASSUME NEW n \in 0 .. MaxChunk, Refuses(n)
      PROVE  UnpackInv'
  BY <1>4 DEF Refuses, Records, TypeOK, DownloadIsBounded, SinkErrorIsKept, BeforeInv,
     StageInv, Published
<1>5. ASSUME NEW n \in 0 .. MaxChunk, NEW good \in BOOLEAN, Writes(n, good)
      PROVE  UnpackInv'
  <2>1. TypeOK'
    <3>1. zip.size + n \in Nat /\ sink.written + n \in Nat
      BY DEF TypeOK
    <3>2. (zip.right /\ good) \in BOOLEAN
      BY Zenon
    <3>3. zip' \in [size : Nat, right : BOOLEAN]
      BY <1>5, <3>1, <3>2, Zenon DEF Writes
    <3>4. sink' \in [written : Nat, failed : BOOLEAN]
      BY <1>5, <3>1 DEF Writes, TypeOK
    <3> QED
      BY <1>5, <3>3, <3>4 DEF Writes, TypeOK
  <2>2. DownloadIsBounded' /\ SinkErrorIsKept'
    BY <1>5 DEF Writes, Fits, TypeOK, DownloadIsBounded, SinkErrorIsKept
  <2>3. BeforeInv' /\ StageInv'
    BY <1>5 DEF Writes, BeforeInv, StageInv
  <2> QED
    BY <2>1, <2>2, <2>3
<1>6. ASSUME NEW n \in 0 .. MaxChunk, NEW k \in 0 .. n, WriteFails(n, k)
      PROVE  UnpackInv'
  <2>1. TypeOK'
    <3>1. zip.size + k \in Nat
      BY DEF TypeOK
    <3>2. zip' \in [size : Nat, right : BOOLEAN]
      BY <1>6, <3>1 DEF WriteFails, TypeOK
    <3>3. sink' \in [written : Nat, failed : BOOLEAN]
      BY <1>6 DEF WriteFails, Records, TypeOK
    <3> QED
      BY <1>6, <3>2, <3>3 DEF WriteFails, Records, TypeOK
  <2>2. DownloadIsBounded' /\ SinkErrorIsKept'
    BY <1>6 DEF WriteFails, Records, TypeOK, DownloadIsBounded, SinkErrorIsKept
  <2>3. BeforeInv' /\ StageInv'
    BY <1>6 DEF WriteFails, Records, BeforeInv, StageInv
  <2> QED
    BY <2>1, <2>2, <2>3
<1>7. CASE RefusesTotal
  BY <1>7 DEF RefusesTotal, Records, TypeOK, DownloadIsBounded, SinkErrorIsKept, BeforeInv,
     StageInv, Published
<1> QED
  BY <1>1, <1>2, <1>3, <1>4, <1>5, <1>6, <1>7 DEF Download

LEMMA VerifyKeeps == ASSUME UnpackInv, Verifies \/ DoesNotVerify PROVE UnpackInv'
<1> USE DEF UnpackInv
<1>1. CASE Verifies
  <2>1. TypeOK'
    BY <1>1 DEF Verifies, TypeOK, BeforeInv
  <2>2. Published' /\ DownloadIsBounded' /\ SinkErrorIsKept' /\ BeforeInv'
    BY <1>1 DEF Verifies, Matches, TypeOK, DownloadIsBounded, SinkErrorIsKept, BeforeInv,
       Published
  <2>3. StageInv'
    BY <1>1 DEF Verifies, TypeOK, BeforeInv, StageInv
  <2> QED
    BY <2>1, <2>2, <2>3
<1>2. CASE DoesNotVerify
  BY <1>2, FailsKeeps DEF DoesNotVerify
<1> QED
  BY <1>1, <1>2

\* What extract leaves alone.
Unchanging == UNCHANGED <<pkg, archive, cancelled, zip, sink>>

LEMMA ExtractFrame ==
  ASSUME UnpackInv, step \in {"extract"}, step' \in {"extract", "ready"}, Unchanging
  PROVE  DownloadIsBounded' /\ SinkErrorIsKept' /\ BeforeInv'
BY DEF UnpackInv, Unchanging, DownloadIsBounded, SinkErrorIsKept, BeforeInv, Published

LEMMA ExtractKeeps == ASSUME UnpackInv, Extract PROVE UnpackInv'
<1> USE DEF UnpackInv, TypeOK
<1>0. Len(archive) \in Nat /\ DOMAIN archive = 1 .. Len(archive)
      /\ \A j \in DOMAIN archive : archive[j] \in Entries
  OBVIOUS
<1>1. CASE SkipsDir
  <2>1. /\ step = "extract" /\ step' = "extract" /\ Unchanging /\ passed' \in BOOLEAN
        /\ index \in DOMAIN archive /\ index' = index + 1 /\ ~opened /\ ~opened'
        /\ seen' = seen /\ stage' = stage
    BY <1>1 DEF SkipsDir, AtEntry, Unchanging
  <2>2. TypeOK'
    BY <1>0, <2>1 DEF Unchanging
  <2>3. StageInv'
    BY <1>0, <1>1 DEF SkipsDir, AtEntry, Entry, StageInv
  <2> QED
    BY <2>1, <2>2, <2>3, ExtractFrame
<1>2. CASE OpensFile
  <2> DEFINE p == Entry.path
  <2>1. /\ index \in DOMAIN archive /\ p \in Listed /\ p \notin seen
        /\ Entry.kind = "file" /\ step = "extract" /\ step' = "extract"
        /\ Unchanging /\ index' = index /\ opened' /\ Entry' = Entry /\ ~opened
        /\ passed' \in BOOLEAN
    BY <1>2 DEF OpensFile, AtEntry, Acceptable, Unchanging, Entry
  <2>2. stage' = [stage EXCEPT ![p] = 0] /\ seen' = seen \cup {p} /\ p \in Paths
    BY <1>0, <1>2, <2>1 DEF OpensFile, Entry
  <2>3. TypeOK'
    BY <2>1, <2>2 DEF Unchanging
  <2>4. pkg.files[p] \in Nat /\ stage' \in [Paths -> Nat \cup {Unlisted}]
    BY <2>1, <2>2
  <2>5. StageInv'
    BY <2>1, <2>2, <2>4 DEF StageInv, Unchanging, Written, Declared
  <2> QED
    BY <2>1, <2>3, <2>5, ExtractFrame
<1>3. CASE Unpacks
  <2> DEFINE p == Entry.path
  <2>1. /\ step = "extract" /\ step' = "extract" /\ opened /\ opened' /\ Unchanging
        /\ seen' = seen /\ index' = index /\ Entry' = Entry /\ passed' \in BOOLEAN
        /\ stage' = [stage EXCEPT ![p] = @ + 1] /\ p \in Paths /\ stage[p] < pkg.files[p]
    BY <1>0, <1>3 DEF Unpacks, Unchanging, Entry, Entries, Written, Room, Declared
  <2>2. p \in seen /\ stage[p] \in Nat /\ pkg.files[p] \in Nat
    BY <2>1 DEF StageInv, Written, Declared
  <2>3. stage'[p] = stage[p] + 1 /\ \A q \in Paths \ {p} : stage'[q] = stage[q]
    BY <2>1
  <2>4. TypeOK'
    BY <2>1, <2>2, <2>3 DEF Unchanging
  <2>5. StageInv'
    BY <2>1, <2>2, <2>3 DEF StageInv, Unchanging, Written, Declared
  <2> QED
    BY <2>1, <2>4, <2>5, ExtractFrame
<1>4. CASE ClosesFile
  <2>1. /\ step = "extract" /\ step' = "extract" /\ opened /\ ~opened' /\ Unchanging
        /\ seen' = seen /\ stage' = stage /\ index' = index + 1 /\ index \in DOMAIN archive
        /\ stage[Entry.path] = pkg.files[Entry.path] /\ Entry.right /\ passed' \in BOOLEAN
    BY <1>0, <1>4 DEF ClosesFile, Unchanging, Written, Whole, Declared
  <2>2. TypeOK'
    BY <1>0, <2>1 DEF Unchanging
  <2>3. StageInv'
    BY <1>0, <2>1 DEF StageInv, Unchanging, Entry
  <2> QED
    BY <2>1, <2>2, <2>3, ExtractFrame
<1>5. CASE RefusesEntry \/ RefusesFile \/ Stops \/ DiskFails \/ IsIncomplete
  BY <1>5, FailsKeeps DEF RefusesEntry, RefusesFile, Stops, DiskFails, IsIncomplete
<1>6. CASE Completes
  <2>1. /\ step = "extract" /\ step' = "ready" /\ ~opened /\ ~opened' /\ Unchanging
        /\ seen' = seen /\ stage' = stage /\ index' = index /\ passed' \in BOOLEAN
        /\ index = Len(archive) + 1 /\ Cardinality(seen) = Cardinality(Listed)
    BY <1>0, <1>6 DEF Completes, AtEnd, Complete, Unchanging
  <2>2. seen \subseteq Listed
    BY <2>1 DEF StageInv
  <2>3. IsFiniteSet(Listed)
    BY FS_Subset, Listed \subseteq Paths
  <2>4. seen = Listed
    BY <2>1, <2>2, <2>3, FS_Subset
  <2>5. TypeOK'
    BY <2>1 DEF Unchanging
  <2>6. StageInv'
    BY <2>1, <2>4 DEF StageInv, Unchanging, Entry
  <2> QED
    BY <2>1, <2>5, <2>6, ExtractFrame
<1> QED
  BY <1>1, <1>2, <1>3, <1>4, <1>5, <1>6 DEF Extract, Unpack

LEMMA UnpackNext == UnpackInv /\ [Next]_vars => UnpackInv'
<1> SUFFICES ASSUME UnpackInv, [Next]_vars PROVE UnpackInv'
  OBVIOUS
<1>1. CASE UNCHANGED vars
  BY <1>1 DEF vars, UnpackInv, TypeOK, DownloadIsBounded, SinkErrorIsKept, BeforeInv,
     StageInv, Published, Entry, Written, Declared
<1>2. CASE Cancels
  BY <1>2 DEF Cancels, UnpackInv, TypeOK, DownloadIsBounded, SinkErrorIsKept, BeforeInv,
     StageInv, Published, Entry, Written, Declared
<1>3. CASE Checks
  BY <1>3 DEF Checks, UnpackInv, TypeOK, DownloadIsBounded, SinkErrorIsKept, BeforeInv,
     StageInv, Published, Entry, Written, Declared
<1> QED
  BY <1>1, <1>2, <1>3, DownloadKeeps, VerifyKeeps, ExtractKeeps DEF Next

\* The running total of extract is the sum over the files it has met.
LEMMA TotalNext == UnpackInv /\ TotalInv /\ [Next]_vars => TotalInv'
<1> SUFFICES ASSUME UnpackInv, TotalInv, [Next]_vars, step' \in {"extract", "ready"}
             PROVE  Bytes(pkg.files, seen)' <= MaxUnpacked
  BY DEF TotalInv
<1> USE DEF UnpackInv, TypeOK
<1>0. ~Fails
  BY DEF Fails
<1>1. CASE Verifies
  <2>1. seen' = {}
    BY <1>1 DEF Verifies, BeforeInv
  <2>2. Bytes(pkg'.files, {}) = 0
    BY BytesUnfold, FS_EmptySet
  <2> QED
    BY <2>1, <2>2
<1>2. CASE OpensFile
  BY <1>2 DEF OpensFile, Acceptable
<1>3. CASE ~Verifies /\ ~OpensFile
  <2>1. ~Download
    BY <1>0 DEF Download, Starts, DoesNotStart, RefusesTotal, HostSucceeds, HostFails,
       Refuses, Records, Writes, WriteFails
  <2>2. CASE Extract
    <3>1. SkipsDir \/ Unpacks \/ ClosesFile \/ Completes
      BY <1>0, <1>3, <2>2 DEF Extract, Unpack, RefusesEntry, RefusesFile, Stops, DiskFails, IsIncomplete
    <3>2. step = "extract" /\ pkg' = pkg /\ seen' = seen
      BY <3>1 DEF SkipsDir, AtEntry, Unpacks, ClosesFile, Completes, AtEnd
    <3> QED
      BY <3>2 DEF TotalInv
  <2>3. CASE ~Extract
    <3>1. step' = step /\ pkg' = pkg /\ seen' = seen
      BY <1>0, <1>3, <2>1, <2>3 DEF Next, vars, Cancels, Checks, DoesNotVerify
    <3> QED
      BY <3>1 DEF TotalInv
  <2> QED
    BY <2>2, <2>3
<1> QED
  BY <1>1, <1>2, <1>3

\* The invariant of download, verification and unpacking.
THEOREM PrepInvariant == Spec => []PrepInv
<1>1. Init => PrepInv
  BY PrepInit DEF Init, PrepInv, TotalInv
<1>2. PrepInv /\ [Next]_vars => PrepInv'
  BY UnpackNext, TotalNext DEF PrepInv
<1> QED
  BY <1>1, <1>2, PTL DEF Spec

\* A PreparedUpdate is exactly what the signed manifest describes.
THEOREM ReadyMeansExact == Spec => []ReadyIsExact
<1>1. PrepInv => ReadyIsExact
  <2> SUFFICES ASSUME PrepInv, step = "ready" PROVE ReadyIsExact
    BY DEF ReadyIsExact
  <2> USE DEF PrepInv, UnpackInv, TypeOK
  <2>1. Published
    BY DEF BeforeInv
  <2>2. stage = pkg.files
    <3>1. \A p \in Paths : stage[p] = pkg.files[p]
      BY DEF StageInv
    <3> QED
      BY <3>1
  <2>3. \A i \in DOMAIN archive : archive[i].kind = "file" => archive[i].right
    BY DEF StageInv
  <2> QED
    BY <2>1, <2>2, <2>3 DEF ReadyIsExact, Published
<1> QED
  BY <1>1, PrepInvariant, PTL

\* The sink keeps the download within its limit, and its errors are not lost.
THEOREM SinkKeepsItsWord == Spec => [](DownloadIsBounded /\ SinkErrorIsKept)
  BY PrepInvariant, PTL DEF PrepInv, UnpackInv

\* Nothing is unpacked from a package that is not the published one.
THEOREM UnpacksVerifiedOnly == Spec => []VerifiedFirst
<1>1. PrepInv => VerifiedFirst
  BY DEF PrepInv, UnpackInv, TypeOK, BeforeInv, VerifiedFirst, Published, Staged
<1> QED
  BY <1>1, PrepInvariant, PTL

\* Once cancelled, prepare ends the write it is at and begins no other.
THEOREM CancelStopsWork == Spec => NoWorkAfterCancel
<1> DEFINE Quiet == cancelled /\ ~passed => /\ ~passed'
                                            /\ zip'.size <= zip.size
                                            /\ \A p \in Paths : stage'[p] <= stage[p]
<1>1. ASSUME PrepInv, [Next]_vars, cancelled, ~passed
      PROVE  /\ ~passed' /\ zip'.size <= zip.size
             /\ \A p \in Paths : stage'[p] <= stage[p]
  <2>1. /\ zip.size \in Nat
        /\ \A p \in Paths : stage[p] \in Nat \cup {Unlisted}
    BY PrepInv, Zenon DEF PrepInv, UnpackInv, TypeOK
  <2>2. CASE Fails
    BY <2>1, <2>2 DEF Fails
  <2>3. CASE UNCHANGED <<zip, stage>> /\ ~passed'
    BY <2>1, <2>3
  <2>4. Fails \/ (UNCHANGED <<zip, stage>> /\ ~passed')
    BY <1>1 DEF Next, vars, Cancels, Checks, Download, Starts, DoesNotStart, RefusesTotal,
       HostSucceeds, HostFails, Refuses, Records, Writes, WriteFails, Verifies,
       DoesNotVerify, Extract, Unpack, SkipsDir, OpensFile, AtEntry, RefusesEntry, Unpacks,
       ClosesFile, RefusesFile, Stops, DiskFails, Completes, IsIncomplete
  <2> QED
    BY <2>2, <2>3, <2>4
<1>2. PrepInv /\ [Next]_vars => [Quiet]_vars
  BY <1>1
<1> QED
  BY <1>2, PrepInvariant, PTL DEF Spec, NoWorkAfterCancel

\* Extraction is bounded: what is on disk below the stage is listed, no longer
\* than listed, and within max_unpacked in all.
THEOREM ExtractionIsBounded == Spec => []StageIsBounded
<1>1. ASSUME PrepInv PROVE StageIsBounded
  <2> USE <1>1 DEF PrepInv, UnpackInv, TypeOK
  <2>1. CASE step \notin {"extract", "ready"}
    <3>1. Staged = {}
      BY <2>1 DEF BeforeInv, Staged
    <3>2. Bytes(stage, {}) = 0
      BY BytesUnfold, FS_EmptySet
    <3> QED
      BY <3>1, <3>2 DEF StageIsBounded
  <2>2. CASE step \in {"extract", "ready"}
    <3>1. Staged = seen /\ seen \subseteq Listed /\ IsFiniteSet(seen)
      BY <2>2, FS_Subset DEF StageInv, Staged
    <3>2. \A p \in seen : stage[p] \in Nat /\ pkg.files[p] \in Nat /\ stage[p] <= pkg.files[p]
      BY <2>2, <3>1 DEF StageInv, Written, Declared
    <3>3. /\ Bytes(stage, seen) \in Int /\ Bytes(pkg.files, seen) \in Int
          /\ Bytes(stage, seen) <= Bytes(pkg.files, seen)
      BY <3>1, <3>2, BytesMonotone
    <3>4. Bytes(pkg.files, seen) <= MaxUnpacked
      BY <2>2 DEF TotalInv
    <3> QED
      BY <3>1, <3>2, <3>3, <3>4 DEF StageIsBounded
  <2> QED
    BY <2>1, <2>2
<1> QED
  BY <1>1, PrepInvariant, PTL

-----------------------------------------------------------------------------
(* Unpacking is finite. *)

Measures == [1 .. 4 -> Nat]

LEMMA MeasureType == ASSUME PrepInv PROVE Measure \in Measures
<1> USE DEF PrepInv, UnpackInv, TypeOK
<1>1. Phase[step] \in Nat
  BY DEF Phase
<1>2. Len(archive) + 1 - index \in Nat
  <2>1. Len(archive) \in Nat
    OBVIOUS
  <2> QED
    BY <2>1
<1>3. Rest \in Nat
  <2>1. CASE index \in DOMAIN archive /\ opened
    <3>1. Written \in 0 .. Declared(Entry.path) /\ Entry.path \in Listed
      BY <2>1 DEF StageInv
    <3>2. Declared(Entry.path) \in Nat
      BY <3>1 DEF Declared
    <3> QED
      BY <2>1, <3>1, <3>2 DEF Rest
  <2>2. CASE index \in DOMAIN archive /\ ~opened
    <3>1. archive \in Archives
      BY <2>2
    <3>2. archive[index] \in Entries
      BY <2>2, <3>1
    <3>3. Declared(Entry.path) \in Nat \cup {Unlisted}
      BY <3>2 DEF Entries, Entry, Declared
    <3> QED
      BY <2>2, <3>3 DEF Rest, Unlisted
  <2>3. CASE index \notin DOMAIN archive
    BY <2>3 DEF Rest
  <2> QED
    BY <2>1, <2>2, <2>3
<1>4. (IF passed THEN 0 ELSE 1) \in Nat
  OBVIOUS
<1> QED
  BY <1>1, <1>2, <1>3, <1>4 DEF Measure, Measures

LEMMA UnpackingStep ==
  ASSUME PrepInv, PrepInv', step \in {"verify", "extract"},
         Checks \/ Verifies \/ DoesNotVerify \/ Extract
  PROVE  Lower(Measure', Measure)
<1> USE DEF PrepInv, UnpackInv, TypeOK
<1>0. /\ Measure'[1] = Phase[step'] /\ Measure'[2] = Len(archive') + 1 - index'
      /\ Measure'[3] = Rest' /\ Measure'[4] = (IF passed' THEN 0 ELSE 1)
      /\ Measure[1] = Phase[step] /\ Measure[2] = Len(archive) + 1 - index
      /\ Measure[3] = Rest /\ Measure[4] = (IF passed THEN 0 ELSE 1)
  BY DEF Measure
<1>1. CASE Phase[step'] < Phase[step]
  BY <1>0, <1>1 DEF Lower
<1>2. CASE /\ step' = step /\ archive' = archive /\ index' = index + 1
           /\ index \in DOMAIN archive
  <2>1. Len(archive) \in Nat /\ index \in Nat
    OBVIOUS
  <2> QED
    BY <1>0, <1>2, <2>1 DEF Lower
<1>3. CASE step' = step /\ archive' = archive /\ index' = index /\ Rest' < Rest
  BY <1>0, <1>3 DEF Lower
<1>4. CASE step' = step /\ archive' = archive /\ index' = index /\ Rest' = Rest /\ ~passed /\ passed'
  BY <1>0, <1>4 DEF Lower
<1>5. CASE Checks
  BY <1>4, <1>5 DEF Checks, Rest, Declared, Entry, Written
<1>6. CASE Verifies \/ Completes \/ Fails
  BY <1>1, <1>6 DEF Verifies, Completes, AtEnd, Fails, Phase
<1>7. CASE SkipsDir \/ ClosesFile
  BY <1>2, <1>7 DEF SkipsDir, AtEntry, ClosesFile
<1>8. CASE OpensFile
  <2> DEFINE p == Entry.path
  <2>1. /\ step' = step /\ archive' = archive /\ index' = index /\ index \in DOMAIN archive
        /\ ~opened /\ opened' /\ Entry' = Entry /\ pkg' = pkg /\ p \in Listed /\ p \in Paths
        /\ stage' = [stage EXCEPT ![p] = 0]
    BY <1>8 DEF OpensFile, AtEntry, Acceptable, Entry
  <2>2. pkg.files[p] \in Nat /\ stage'[p] = 0
    BY <2>1
  <2>3. Rest' = pkg.files[p] - 0 /\ Rest = pkg.files[p] + 1
    BY <2>1, <2>2 DEF Rest, Declared, Written
  <2> QED
    BY <1>3, <2>1, <2>2, <2>3
<1>9. CASE Unpacks
  <2> DEFINE p == Entry.path
  <2>1. /\ step' = step /\ archive' = archive /\ index' = index /\ index \in DOMAIN archive
        /\ opened /\ opened' /\ Entry' = Entry /\ pkg' = pkg
        /\ stage' = [stage EXCEPT ![p] = @ + 1]
    BY <1>9 DEF Unpacks, Entry
  <2>2. p \in Paths /\ pkg.files[p] \in Nat /\ stage[p] \in Nat
    BY <1>9, <2>1 DEF Unpacks, StageInv, Written, Declared
  <2>3. stage'[p] = stage[p] + 1
    BY <2>1, <2>2
  <2>4. Rest' = pkg.files[p] - (stage[p] + 1) /\ Rest = pkg.files[p] - stage[p]
    BY <2>1, <2>3 DEF Rest, Declared, Written
  <2> QED
    BY <1>3, <2>1, <2>2, <2>4
<1> QED
  BY <1>5, <1>6, <1>7, <1>8, <1>9 DEF Extract, Unpack, DoesNotVerify, RefusesEntry, RefusesFile, Stops, DiskFails,
     IsIncomplete

\* Every step of unpacking brings prepare nearer to its end.
THEOREM UnpackingGoesForward == Spec => UnpackingAdvances /\ [](Measure \in Measures)
<1>1. PrepInv /\ PrepInv' /\ [Next]_vars =>
        [(Checks \/ Verifies \/ DoesNotVerify \/ Extract) /\ step \in {"verify", "extract"}
           => Lower(Measure', Measure)]_vars
  BY UnpackingStep
<1>2. PrepInv => Measure \in Measures
  BY MeasureType
<1> QED
  BY <1>1, <1>2, PrepInvariant, PTL DEF Spec, UnpackingAdvances

\* And there are only finitely many of them, whatever the archive holds.
THEOREM NoUnpackingIsEndless ==
  ASSUME NEW f \in [Nat -> Measures]
  PROVE  ~ \A n \in Nat : Lower(f[n + 1], f[n])
<1> SUFFICES ASSUME \A n \in Nat : Lower(f[n + 1], f[n]) PROVE FALSE
  OBVIOUS
<1> DEFINE RN == OpToRel(<, Nat)
           R  == LexProductOrdering(RN, Nat, 4)
<1>1. IsWellFoundedOn(R, Measures)
  <2>1. IsWellFoundedOn(RN, Nat)
    BY NatLessThanWellFounded, Zenon
  <2> HIDE DEF RN
  <2> QED
    BY <2>1, WFLexProductOrdering DEF Measures
<1>2. ASSUME NEW n \in Nat PROVE <<f[n + 1], f[n]>> \in R
  <2>1. f[n + 1] \in Measures /\ f[n] \in Measures /\ Lower(f[n + 1], f[n])
    OBVIOUS
  <2>2. PICK k \in 1 .. 4 : f[n + 1][k] < f[n][k] /\ \A j \in 1 .. k - 1 : f[n + 1][j] = f[n][j]
    BY <2>1 DEF Lower
  <2>3. <<f[n + 1][k], f[n][k]>> \in RN
    BY <2>1, <2>2 DEF OpToRel, Measures
  <2> HIDE DEF RN
  <2> QED
    BY <2>1, <2>2, <2>3 DEF LexProductOrdering, Measures
<1> HIDE DEF R
<1> QED
  BY <1>1, <1>2, Zenon DEF IsWellFoundedOn
=============================================================================
