SPECIFICATION Spec
CONSTANTS
    f = f  g = g  d = d  r = r  s = s  c = c
    a = a  b = b  imp = imp  mem = mem  none = none  int = int
    Func = {f, g}
    Var = {s, c}
    Data = {}
    Pc <- MCPc
    MaxPc = 3
    Offset <- MCOffset
    Base = {a, b, mem, imp, f, g}
    MaxPrefix = 0
    TypeName = {int}
    Loc <- LocalLoc
    Live <- LocalLive
    AutoName <- LocalAuto
    FrameName <- LocalFrame
    Preset = {}
    Barred = {}
    Split <- MCSplit
    Throws = Throws
    None = none
    Calls <- LocalNone
    Refs <- LocalNone
    Rank <- LocalRank
    Imported = {}
    RamName <- LocalNameOf
    Typed <- TypedPlain
    TypedGlobal = {}
    Short <- MCShort
    NameOf <- LocalNameOf
    TypeOf <- LocalTypeOf
    Deletable = {}
    Unnamed = FALSE
    Fragile = {}
PROPERTIES LocalsEdited RenameTakes
