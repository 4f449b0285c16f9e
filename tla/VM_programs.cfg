\* Six programs, loaded and executed in any order; two files that are refused.
CONSTANTS
    Offsets = 256
    MAX_ADDR = 48
    Files <- AllFiles
    initialSP <- Stacks
    Counts <- ProgramCounts
    Pokes <- ProgramPokes
    StartsFail = TRUE
    Float <- WholeFloat
SPECIFICATION FairSpec
INVARIANTS TypeOK MutualExclusion ResultsRight
PROPERTIES CallsReturn ExecuteReturns
