----------------------------- MODULE FrameOffset -----------------------------
(***************************************************************************)
(* Where a stack variable is: Ghidra counts from the stack pointer at the  *)
(* entry of the function, in an address of 4 or 8 bytes held by 64         *)
(* bits; IDA counts from the lowest member of the frame, in addresses of 4 *)
(* bytes (yagi) or 8 (yagi64).                                             *)
(***************************************************************************)
EXTENDS Integers, Sequences

CONSTANTS
    Sign,       \* 2^31
    MemberName, NoMember

FrameAssumption == Sign \in Nat \ {0} /\ NoMember \notin MemberName

ASSUME FrameAssumption

Half == 2 * Sign

U32(n) == n % Half
U64(n) == n % (Half * Half)

\* ea_t and asize_t of a build.
Ea(ea, n) == IF ea = 4 THEN U32(n) ELSE U64(n)

\* A frame: its size without and with the arguments that were passed is less
\* than 2^31, and IDA keeps its members apart.  base is frsize + frregs.
Member == [soff : 0 .. Sign - 1, name : MemberName]
Frame ==
    {f \in [base : 0 .. Sign - 1, members : Seq(Member)] :
        \A i, k \in DOMAIN f.members :
            i # k =>
                /\ f.members[i].soff # f.members[k].soff
                /\ f.members[i].name # f.members[k].name}

IsAt(ea, frame, m, offset, size) ==
    LET sofset == Ea(ea, m.soff - frame.base) IN
    sofset = offset \/ (size = 4 /\ U32(sofset) = U32(offset))

\* The first member at that offset.
FindStackVar(ea, frame, offset, size) ==
    LET at == {i \in DOMAIN frame.members : IsAt(ea, frame, frame.members[i], offset, size)}
    IN IF at = {} THEN NoMember
       ELSE frame.members[CHOOSE i \in at : \A k \in at : i <= k].name

\* Mutant: negative offsets stay as they are.
NotExtended(offset, size) == offset

\* The upper half of a negative offset of 32 bits is filled by hand.
Extended(offset, size) ==
    IF size = 4 /\ U32(offset) >= Sign
    THEN (Half - 1) * Half + U32(offset) ELSE offset

\* The member open_frame_window is given.
FramePlace(ea, frame, offset, size) ==
    Ea(ea, U64(Extended(offset, size) + frame.base))

\* The offset Ghidra has for a variable at soff.
StackOffset(frame, soff, size) ==
    IF size = 4 THEN U32(soff - frame.base) ELSE U64(soff - frame.base)
=============================================================================
