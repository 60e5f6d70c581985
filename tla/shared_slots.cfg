SPECIFICATION Spec
CONSTANTS
    f = f  g = g  d = d  r = r  s = s  c = c
    a = a  b = b  imp = imp  mem = mem  none = none  int = int
    Func = {f}
    Var = {r, s}
    Data = {}
    Pc <- MCPc
    MaxPc = 3
    Offset <- MCOffset
    Base = {a, b, mem, f}
    MaxPrefix = 0
    TypeName = {int}
    Loc <- CallLoc
    Live <- CallLive
    AutoName <- CallAuto
    FrameName <- CallFrame
    Preset = {}
    Barred = {}
    Split <- MCSplit
    Throws = Throws
    None = none
    Calls <- CallNone
    Refs <- CallNone
    Rank <- CallRank
    Imported = {}
    RamName <- CallNameOf
    Typed <- TypedE
    TypedGlobal = {}
    Short <- MCShort
    NameOf <- CallNameOf
    TypeOf <- CallTypeOf
    Deletable = {}
    Unnamed = FALSE
    Fragile = {}
PROPERTIES NamesKept
