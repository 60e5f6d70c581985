SPECIFICATION Spec
CONSTANTS
    Syscalls = Syscalls  T9 = T9
    TypeRegister = TypeRegister  TypeStack = TypeStack
    Sync = Sync  NameRegister = NameRegister  NameStack = NameStack
    Flow = Flow  Simplify = Simplify
    Action = {Syscalls, T9, TypeRegister, TypeStack, Sync, NameRegister,
              NameStack, Flow, Simplify}
    InitActions <- MCInit
    ArchActions <- MCArch
    RetypeActions <- MCRetype
    RenameActions <- MCRename
    NoResult = NoResult
    MaxEdits = 2
INVARIANTS TypeOK Breaks
PROPERTIES ImplementsDecompiler
