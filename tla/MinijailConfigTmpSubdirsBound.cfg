CONSTANTS
    pDevNull = pDevNull
    pDevUrandom = pDevUrandom
    pWork = pWork
    pExe = pExe
    pWrapper = pWrapper
    pBuild = pBuild
    pOut = pOut
    pTmpA = pTmpA
    pTmpConcatA = pTmpConcatA
    nA = nA
    noPath = noPath
    Paths <- MCPaths
    NoPath <- noPath
    Exists <- MCExists
    TmpNames = {nA}
    TmpPath <- MCTmpPath
    TmpConcat <- MCTmpConcat
    DevNull <- pDevNull
    DevUrandom <- pDevUrandom
    Workdir <- pWork
    Exe <- pExe
    Wrapper <- pWrapper
    OptsChoices <- MCOptsChoices
    MaxCalls = 2
SPECIFICATION Spec

INVARIANT TmpSubdirsBound
CHECK_DEADLOCK FALSE
