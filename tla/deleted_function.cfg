SPECIFICATION Spec
CONSTANTS
    f = f  g = g  d = d  r = r  s = s  c = c
    a = a  b = b  imp = imp  mem = mem  none = none  int = int
    Func = {f, g}
    Var = {r, s}
    Data = {d}
    Pc <- MCPc
    MaxPc = 3
    Offset <- MCOffset
    Base = {a, b, imp, f, g, d}
    MaxPrefix = 1
    TypeName = {int}
    Loc <- ViewLoc
    Live <- ViewLive
    AutoName <- ViewAuto
    FrameName <- ViewFrame
    Preset = {}
    Barred = {}
    Split <- MCSplit
    Throws = Throws
    None = none
    Calls <- ViewCalls
    Refs <- ViewRefs
    Rank <- ViewRank
    Imported = {imp}
    RamName <- ViewRamName
    Typed <- TypedLocal
    TypedGlobal <- TypedImport
    Short <- MCShort
    NameOf <- ViewNameOf
    TypeOf <- ViewTypeOf
    Deletable = {f}
    Unnamed = TRUE
    Fragile = {g}
INVARIANTS NeverAborts
CHECK_DEADLOCK FALSE
