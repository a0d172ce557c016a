------------------------- MODULE CorpusCountProofs -------------------------
(***************************************************************************)
(* Proofs about CorpusCount, for every set of directories and files: the   *)
(* loop of countCorpusEntries computes the number of non-empty entries of  *)
(* the union of the directories it walked, as long as no directory is      *)
(* named twice.                                                             *)
(***************************************************************************)
EXTENDS CorpusCount, FiniteSetTheorems, TLAPS

\* The non-empty entries of the directories the loop has walked so far.
Walked == UNION {NonEmptyIn(list[k]) : k \in 1..(i - 1)}

\* The inductive invariant. The files do not change once the count has
\* started; the loop index stays within the list; every directory walked
\* so far exists (a missing one ends the loop); numSeeds is the size of
\* the union walked, when the list names no directory twice; and the
\* return is either numSeeds after the last directory or the 0 of a
\* missing one.
CountIInv ==
    /\ TypeOK
    /\ pc = "fuzz" => list = <<>> /\ i = 1 /\ numSeeds = 0
    /\ pc \in {"count", "done"} =>
           /\ i \in 1..(Len(list) + 1)
           /\ \A k \in 1..(i - 1) : list[k] \in exists
           /\ ListDistinct => numSeeds = Cardinality(Walked)
    /\ pc = "done" =>
           \/ ret = numSeeds /\ i = Len(list) + 1
           \/ ret = 0 /\ i <= Len(list) /\ list[i] \notin exists

\* A bounded list of directories is a sequence of directories.
LEMMA SeqsUpToSeq ==
    ASSUME NEW S, NEW n \in Nat, NEW s \in SeqsUpTo(S, n) PROVE s \in Seq(S)
BY DEF SeqsUpTo

\* Every set of entries the loop counts is finite.
LEMMA EntriesFinite ==
    ASSUME CorpusAssumption, TypeOK, NEW T \in SUBSET content
    PROVE  IsFiniteSet(T) /\ Cardinality(T) \in Nat
<1>1. IsFiniteSet(T)
    BY FS_Subset DEF CorpusAssumption, TypeOK
<1>2. QED
    BY <1>1, FS_CardinalityType

\* Walking one more directory, distinct from those walked, adds its
\* entries to the union: a file lives in one directory only.
LEMMA WalkOne ==
    ASSUME CorpusAssumption, TypeOK, ListDistinct,
           i \in 1..Len(list)
    PROVE  /\ UNION {NonEmptyIn(list[k]) : k \in 1..i} =
                  Walked \cup NonEmptyIn(list[i])
           /\ Cardinality(Walked \cup NonEmptyIn(list[i])) =
                  Cardinality(Walked) + Cardinality(NonEmptyIn(list[i]))
<1>1. UNION {NonEmptyIn(list[k]) : k \in 1..i} =
          Walked \cup NonEmptyIn(list[i])
    BY DEF Walked
<1>2. Walked \cap NonEmptyIn(list[i]) = {}
    BY DEF Walked, NonEmptyIn, ListDistinct, TypeOK
<1>3. Walked \subseteq content /\ NonEmptyIn(list[i]) \subseteq content
    BY DEF Walked, NonEmptyIn
<1>4. IsFiniteSet(Walked) /\ IsFiniteSet(NonEmptyIn(list[i]))
    BY <1>3, EntriesFinite
<1>5. Cardinality(Walked \cup NonEmptyIn(list[i])) =
          Cardinality(Walked) + Cardinality(NonEmptyIn(list[i])) - 0
    BY <1>2, <1>4, FS_Union, FS_EmptySet
<1>6. QED
    BY <1>1, <1>3, <1>5, EntriesFinite

\* The union walked depends on the list, the index and the files only.
LEMMA WalkedFrame ==
    ASSUME UNCHANGED <<list, i, content, nonEmpty>> PROVE Walked' = Walked
BY DEF Walked, NonEmptyIn

\* CountIInv holds once runFuzzTest has started the fuzzer.
LEMMA InitCountIInv == ASSUME CorpusAssumption PROVE Init => CountIInv
<1> SUFFICES ASSUME Init PROVE CountIInv
    OBVIOUS
<1>1. seedDirs \in Seq(UserDirs \cup {SeedDir})
    BY SeqsUpToSeq DEF Init, CorpusAssumption
<1>2. QED
    BY <1>1 DEF Init, CountIInv, TypeOK, CorpusAssumption, Dirs

\* Every step of the fuzzer and of the count keeps CountIInv.
LEMMA NextCountIInv ==
    ASSUME CorpusAssumption PROVE CountIInv /\ [Next]_vars => CountIInv'
<1> SUFFICES ASSUME CountIInv, [Next]_vars PROVE CountIInv'
    OBVIOUS
<1> USE CorpusAssumption
<1>0. TypeOK
    BY DEF CountIInv
<1>1. CASE FuzzerWritesInput
    BY <1>1 DEF FuzzerWritesInput, CountIInv, TypeOK
<1>2. CASE printFinalMetrics
    <2>1. seedDirs \in Seq(UserDirs \cup {SeedDir})
        BY <1>0, SeqsUpToSeq DEF TypeOK
    <2>2. Walked' = {}
        BY <1>2 DEF printFinalMetrics, CountIInv, Walked
    <2>3. QED
        BY <1>2, <2>1, <2>2, FS_EmptySet
           DEF printFinalMetrics, CountIInv, TypeOK, Dirs
<1>3. CASE WalkDirMissing
    <2>1. Walked' = Walked
        BY <1>3, WalkedFrame DEF WalkDirMissing
    <2>2. QED
        BY <1>3, <2>1 DEF WalkDirMissing, CountIInv, TypeOK, ListDistinct
<1>4. CASE WalkDirCount
    <2> USE <1>4 DEF WalkDirCount
    <2>1. pc = "count" /\ i \in 1..Len(list)
        BY DEF CountIInv, TypeOK
    <2>2. Cardinality(NonEmptyIn(list[i])) \in Nat
        BY <1>0, EntriesFinite DEF NonEmptyIn
    <2>3. Walked' = Walked \cup NonEmptyIn(list[i])
        <3>1. ASSUME NEW d PROVE NonEmptyIn(d)' = NonEmptyIn(d)
            BY DEF NonEmptyIn
        <3>2. 1..(i' - 1) = 1..i
            BY <2>1
        <3>3. Walked' = UNION {NonEmptyIn(list[k]) : k \in 1..i}
            BY <3>1, <3>2 DEF Walked
        <3>4. 1..i = (1..(i - 1)) \cup {i}
            BY <2>1
        <3>5. QED
            BY <3>3, <3>4 DEF Walked
    <2>4. ListDistinct =>
              Cardinality(Walked') = Cardinality(Walked) +
                                     Cardinality(NonEmptyIn(list[i]))
        BY <2>1, <2>3, <1>0, WalkOne
    <2>5. TypeOK'
        BY <2>2 DEF CountIInv, TypeOK
    <2>6. QED
        BY <2>1, <2>4, <2>5 DEF CountIInv, TypeOK, ListDistinct
<1>5. CASE CountReturn
    <2>1. Walked' = Walked
        BY <1>5, WalkedFrame DEF CountReturn
    <2>2. QED
        BY <1>5, <2>1 DEF CountReturn, CountIInv, TypeOK, ListDistinct
<1>6. CASE UNCHANGED vars
    <2>1. Walked' = Walked
        BY <1>6, WalkedFrame DEF vars
    <2>2. QED
        BY <1>6, <2>1 DEF vars, CountIInv, TypeOK, ListDistinct
<1>7. QED
    BY <1>1, <1>2, <1>3, <1>4, <1>5, <1>6 DEF Next

\* The count is the size of the union: when countCorpusEntries returns
\* after walking a list with no directory named twice and none missing,
\* it returns the number of non-empty entries of their union.
LEMMA CountIInvUnion == CountIInv => CountIsUnionOnDistinctPresentDirs
<1> SUFFICES ASSUME CountIInv, pc = "done", ListDistinct,
                    \A k \in DOMAIN list : list[k] \in exists
             PROVE  ret = UnionCount
    BY DEF CountIsUnionOnDistinctPresentDirs
<1>1. list \in Seq(Dirs) /\ DOMAIN list = 1..Len(list)
    BY DEF CountIInv, TypeOK
<1>2. ret = numSeeds /\ i = Len(list) + 1
    BY <1>1 DEF CountIInv
<1>3. {list[k] : k \in DOMAIN list} \cap exists =
          {list[k] : k \in 1..(i - 1)}
    BY <1>1, <1>2
<1>4. UnionCount = Cardinality(Walked)
    BY <1>3 DEF UnionCount, Walked
<1>5. QED
    BY <1>2, <1>4 DEF CountIInv

\* For every set of directories and files, countCorpusEntries returns the
\* size of the union of distinct, present directories (CountIsUnion...).
THEOREM CountIsUnion == Spec => []CountIsUnionOnDistinctPresentDirs
<1>1. Init => CountIInv
    BY InitCountIInv, CorpusAssumption
<1>2. CountIInv /\ [Next]_vars => CountIInv'
    BY NextCountIInv, CorpusAssumption
<1>3. QED
    BY <1>1, <1>2, CountIInvUnion, PTL DEF Spec


\* The loop of countCorpusEntries keeps its inductive invariant in every
\* reachable state: the directories walked so far exist, and on distinct
\* directories the running count numSeeds is the size of the union of the
\* non-empty entries walked (run.go countCorpusEntries).
THEOREM CountIInvHolds == Spec => []CountIInv
<1>1. Init => CountIInv
    BY InitCountIInv, CorpusAssumption
<1>2. CountIInv /\ [Next]_vars => CountIInv'
    BY NextCountIInv, CorpusAssumption
<1>3. QED
    BY <1>1, <1>2, PTL DEF Spec

\* The state of the corpus count always has its type.
THEOREM TypeCorrect == Spec => []TypeOK
<1>1. CountIInv => TypeOK
    BY DEF CountIInv
<1>2. QED
    BY <1>1, CountIInvHolds, PTL

=============================================================================
