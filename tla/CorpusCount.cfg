CONSTANTS
    u1 = u1
    gen = gen
    seed = seed
    f1 = f1
    f2 = f2
    f3 = f3
    f4 = f4
    UserDirs <- MCUserDirs
    GenDir = gen
    SeedDir = seed
    Files <- MCFiles
    Home <- MCHome
    MaxUserDirs <- MCMaxUserDirs
SPECIFICATION Spec
\* countCorpusEntries has returned: the command ends here.
CHECK_DEADLOCK FALSE
INVARIANT TypeOK
INVARIANT CountIsUnionOnDistinctPresentDirs
INVARIANT CountIInv
