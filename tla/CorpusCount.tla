---------------------------- MODULE CorpusCount ----------------------------
(***************************************************************************)
(* The corpus directories of a `cifuzz run` and the final count of corpus  *)
(* entries (src/internal/cmd/run/run.go):                                   *)
(*   runFuzzTest creates the generated corpus (os.MkdirAll) and passes the  *)
(*     user's seed dirs plus the default seed corpus, if it exists, to the  *)
(*     fuzzer, which writes new inputs into the generated corpus;           *)
(*   printFinalMetrics counts with countCorpusEntries over                 *)
(*     opts.SeedCorpusDirs ++ <<generatedCorpus, seedCorpus>>, one          *)
(*     filepath.WalkDir per directory, non-empty files only.               *)
(* A directory is a model value; a file is a model value that lives in     *)
(* exactly one directory, so distinct directories never share an entry.    *)
(***************************************************************************)
EXTENDS Naturals, Sequences, FiniteSets

CONSTANTS
    UserDirs,    \* directories the user may pass with --seed-corpus
    GenDir,      \* buildResult.GeneratedCorpus
    SeedDir,     \* buildResult.SeedCorpus, the build system's default
    Files,       \* files that may exist
    Home,        \* Home[f]: the directory file f lives in
    MaxUserDirs  \* bound on the length of --seed-corpus

Dirs == UserDirs \cup {GenDir, SeedDir}

ASSUME CorpusAssumption ==
    /\ GenDir # SeedDir
    /\ GenDir \notin UserDirs
    /\ Home \in [Files -> Dirs]
    /\ IsFiniteSet(Files)
    /\ MaxUserDirs \in Nat

VARIABLES
    exists,      \* directories present on disk
    content,     \* files present on disk
    nonEmpty,    \* files whose size is not 0
    seedDirs,    \* opts.SeedCorpusDirs, after validate()
    pc,          \* "fuzz", "count" or "done"
    list,        \* the argument of countCorpusEntries
    i,           \* index of the directory being walked
    numSeeds,    \* the local numSeeds
    ret          \* numCorpusEntries, the value countCorpusEntries returns

vars == <<exists, content, nonEmpty, seedDirs, pc, list, i, numSeeds, ret>>

\* Sequences of length at most n over S.
SeqsUpTo(S, n) == UNION {[1..k -> S] : k \in 0..n}

\* The non-empty files directly or indirectly under directory d (WalkDir
\* recurses; sub-directories are not modelled).
NonEmptyIn(d) == {f \in content \cap nonEmpty : Home[f] = d}

TypeOK ==
    /\ exists \subseteq Dirs
    /\ content \subseteq Files
    /\ nonEmpty \subseteq Files
    /\ seedDirs \in SeqsUpTo(UserDirs \cup {SeedDir}, MaxUserDirs)
    /\ pc \in {"fuzz", "count", "done"}
    /\ list \in Seq(Dirs)
    /\ i \in Nat
    /\ numSeeds \in Nat
    /\ ret \in Nat

\* State after runFuzzTest has started the fuzzer. validate() has checked
\* that every --seed-corpus dir exists (ValidateSeedCorpusDirs); a user may
\* name the default seed corpus too. os.MkdirAll created the generated
\* corpus, which may hold inputs from an earlier run. The default seed
\* corpus exists or not.
Init ==
    /\ seedDirs \in SeqsUpTo(UserDirs \cup {SeedDir}, MaxUserDirs)
    /\ exists \in {E \in SUBSET Dirs :
                     GenDir \in E /\ \A k \in DOMAIN seedDirs : seedDirs[k] \in E}
    /\ content \in SUBSET {f \in Files : Home[f] \in exists}
    /\ nonEmpty \in SUBSET Files
    /\ pc = "fuzz"
    /\ list = <<>>
    /\ i = 1
    /\ numSeeds = 0
    /\ ret = 0

\* libFuzzer writes a new input into the first positional corpus dir, the
\* generated corpus; it may also write an empty one.
FuzzerWritesInput ==
    /\ pc = "fuzz"
    /\ \E f \in Files \ content :
          /\ Home[f] = GenDir
          /\ content' = content \cup {f}
          /\ \/ nonEmpty' = nonEmpty \cup {f}
             \/ nonEmpty' = nonEmpty \ {f}
    /\ UNCHANGED <<exists, seedDirs, pc, list, i, numSeeds, ret>>

\* Mutant of printFinalMetrics: the list is appended to, and stored back
\* into, c.opts.SeedCorpusDirs.
printFinalMetricsStoresList ==
    /\ pc = "fuzz"
    /\ list' = seedDirs \o <<GenDir, SeedDir>>
    /\ seedDirs' = list'
    /\ pc' = "count"
    /\ UNCHANGED <<exists, content, nonEmpty, i, numSeeds, ret>>

\* run(): runFuzzTest returned without error; printFinalMetrics calls
\* countCorpusEntries(append(c.opts.SeedCorpusDirs, generatedCorpus,
\* seedCorpus)).
printFinalMetrics ==
    /\ pc = "fuzz"
    /\ list' = seedDirs \o <<GenDir, SeedDir>>
    /\ pc' = "count"
    /\ UNCHANGED <<exists, content, nonEmpty, seedDirs, i, numSeeds, ret>>

\* One iteration of the loop: WalkDir over list[i]. A missing directory
\* makes WalkDir fail with an os.IsNotExist error, and countCorpusEntries
\* returns 0, nil at once.
WalkDirMissing ==
    /\ pc = "count"
    /\ i <= Len(list)
    /\ list[i] \notin exists
    /\ ret' = 0
    /\ pc' = "done"
    /\ UNCHANGED <<exists, content, nonEmpty, seedDirs, list, i, numSeeds>>

\* Mutant of WalkDirCount: empty files are counted too.
WalkDirCountAll ==
    /\ pc = "count"
    /\ i <= Len(list)
    /\ list[i] \in exists
    /\ numSeeds' = numSeeds + Cardinality({f \in content : Home[f] = list[i]})
    /\ i' = i + 1
    /\ UNCHANGED <<exists, content, nonEmpty, seedDirs, pc, list, ret>>

WalkDirCount ==
    /\ pc = "count"
    /\ i <= Len(list)
    /\ list[i] \in exists
    /\ numSeeds' = numSeeds + Cardinality(NonEmptyIn(list[i]))
    /\ i' = i + 1
    /\ UNCHANGED <<exists, content, nonEmpty, seedDirs, pc, list, ret>>

\* The loop is over: return numSeeds, nil.
CountReturn ==
    /\ pc = "count"
    /\ i > Len(list)
    /\ ret' = numSeeds
    /\ pc' = "done"
    /\ UNCHANGED <<exists, content, nonEmpty, seedDirs, list, i, numSeeds>>

Next ==
    \/ FuzzerWritesInput
    \/ printFinalMetrics
    \/ WalkDirMissing
    \/ WalkDirCount
    \/ CountReturn

\* Nothing here needs fairness: the properties are invariants.
Spec == Init /\ [][Next]_vars

-----------------------------------------------------------------------------
(* Properties.                                                              *)

\* The count the spec asks for (section 4.5, "Final metrics"): the
\* non-empty entries of the union of the user's seed dirs, the generated
\* corpus and the default seed corpus.
UnionCount ==
    Cardinality(UNION {NonEmptyIn(d) :
                         d \in {list[k] : k \in DOMAIN list} \cap exists})

\* The directories of the list are pairwise distinct.
ListDistinct ==
    \A k, m \in DOMAIN list : k # m => list[k] # list[m]

\* countCorpusEntries is right on the lists it was written for: when no
\* directory is named twice and all of them exist, the reported count is
\* the number of non-empty entries of their union (empty files are not
\* counted, as libFuzzer skips them).
CountIsUnionOnDistinctPresentDirs ==
    (pc = "done" /\ ListDistinct /\ \A k \in DOMAIN list : list[k] \in exists)
        => ret = UnionCount

\* Spec 4.5, "Final metrics": every non-empty input the fuzzer left in the
\* generated corpus is counted. countCorpusEntries returns 0 as soon as a
\* directory of its list is missing, and the default seed corpus, which
\* comes last, often is.
GeneratedEntriesCounted ==
    pc = "done" => ret >= Cardinality(NonEmptyIn(GenDir))

=============================================================================
