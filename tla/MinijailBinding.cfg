CONSTANTS
    Paths <- MCPaths
    AddPaths <- MCAddPaths
    Resolve <- MCResolve
    MaxAdds = 2
    Exists <- MCExists
    Defaults <- MCDefaults
    Workdir <- MCWorkdir
    Exe <- MCBin
    Llvm <- MCBin
    Wrapper <- MCBin
    OptsChoices <- MCOptsChoices
SPECIFICATION Spec
INVARIANT TypeOK
INVARIANT RoundTripPlain
INVARIANT ChildMountsVisible
CHECK_DEADLOCK FALSE
