SPECIFICATION Spec
CONSTANTS
    Languages <- MCLanguages
    Models <- MCModels
    ModelOrder <- MCModelOrder
    NoArch = NoArch
    Offset = {1, 2}
    Root = 2
    Number <- AllNumber
    Calls <- AllCalls
    Comments <- Commented
    Name <- MCName
    NoName = NoName
    Sessions <- MCSessions
    Opened <- MCOpened
    Asked <- MCAsked
    Op = {op}
    Anywhere = Anywhere
    WordSize = 4
    MaxSymbols = 2
    MaxEdits = 1
INVARIANTS AsCommented
CHECK_DEADLOCK FALSE
