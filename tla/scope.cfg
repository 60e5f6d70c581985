SPECIFICATION Spec
CONSTANTS
    Languages <- MCLanguages
    Models <- MCModels
    ModelOrder <- MCModelOrder
    NoArch = NoArch
    Offset = {1, 2}
    Root = 2
    Number <- MCNumber
    Calls <- MCCalls
    Comments <- Commented
    Name <- MCName
    NoName = NoName
    Sessions <- MCSessions
    Opened <- MCOpened
    Asked <- MCAsked
    Op = {op}
    Anywhere = Anywhere
    WordSize = 4
    MaxSymbols = 2
    MaxEdits = 1
INVARIANTS TypeOK DocumentedLoads Prepared SyscallsKnown NamesCurrent
PROPERTIES CopiesNames
CHECK_DEADLOCK FALSE
