SPECIFICATION Spec
CONSTANTS
    Char <- MCChar
    Alnum <- MCAlnum
    Import = "__imp_"
    NoWord = NoWord
    Sign = 4
    MemberName <- MCMemberName
    NoMember = NoMember
    Views <- MCViews
    NoView = NoView
    Nowhere = Nowhere
    NoClick = NoClick
    Garbage <- MCGarbage
    PastEnd = 1
INVARIANT Navigates
