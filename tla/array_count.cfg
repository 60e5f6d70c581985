SPECIFICATION Spec
CONSTANTS
    S = S  T = T  PS = PS  PT = PT  A = A  I = I  V = V  F = F  PF = PF
    O = O  PO = PO
    Type = {S, T, PS, PT, A, I, V, F, PF, O, PO}
    Struct = {S, T}
    Array = {A}
    Pointer = {PS, PT, PF, PO}
    Func = {F}
    Void = {V}
    Core = {I}
    AddrSize = 2
    Graph <- ArrayGraph
    Parts <- MCParts
    Size <- MCSize
    Offset <- MCOffset
    Count <- MCCount
    Refused <- NoneRefused
    MaxDepth = 11
INVARIANTS ArrayElements
