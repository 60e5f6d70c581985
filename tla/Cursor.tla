-------------------------------- MODULE Cursor --------------------------------
(***************************************************************************)
(* A view under the mouse: its line is written by the emitter, its names   *)
(* come from the frame and from the functions that are called, and a       *)
(* double click takes the word at the cursor to the place the Result has   *)
(* for it, an address or a member of the frame.                            *)
(***************************************************************************)
EXTENDS Keyword, FrameOffset, SequencesExt

CONSTANTS
    Views,      \* what is shown
    NoView, Nowhere, NoClick,
    Garbage,    \* cells behind a line
    PastEnd     \* bound: columns behind a line

VARIABLES
    view,       \* the view that is open
    line,       \* its text, with tags
    click       \* its last double click

vars == <<view, line, click>>

\* A variable of the stack and Ghidra's name for it, a function that is
\* called, and what a token is about.
Local == [soff : 0 .. Sign - 1, own : MemberName]
Function == [address : Nat, name : Seq(Char)]
Piece ==
    [method : Method, hl : Highlight, op : BOOLEAN,
     of : ({"local", "function"} \X Nat) \cup ({"text"} \X Seq(Char))]

\* ea is that of the build, size that of Ghidra's stack addresses.
View ==
    [ea : {4, 8}, size : {4, 8}, frame : Frame, locals : Seq(Local),
     functions : Seq(Function), pieces : Seq(Piece)]

CursorAssumption ==
    /\ Import \in Char \ Alnum /\ Alnum \subseteq Char
    /\ MemberName \subseteq Seq(Char)
    /\ NoView \notin Views
    /\ Views \subseteq View
    /\ \A v \in Views :
        /\ v.size <= v.ea
        /\ \A l \in DOMAIN v.locals, m \in DOMAIN v.frame.members :
            v.locals[l].own # v.frame.members[m].name
    /\ Garbage \subseteq Seq(Cell \cup {Nul})
    /\ \A g \in Garbage : Len(g) = PastEnd + 1
    /\ PastEnd \in {0, 1}

ASSUME CursorAssumption

-----------------------------------------------------------------------------
(* The Result of a view *)

Offset(v, l) == StackOffset(v.frame, l.soff, v.size)

\* The name of the frame, if there is one.
LocalName(v, l) ==
    LET found == FindStackVar(v.ea, v.frame, Offset(v, l), v.size)
    IN IF found = NoMember THEN l.own ELSE found

FunctionKey(f) == IF IsImportText(f.name) THEN Tail(f.name) ELSE f.name

LocalsNamed(v, word) == {i \in DOMAIN v.locals : LocalName(v, v.locals[i]) = word}
FunctionsNamed(v, word) == {i \in DOMAIN v.functions : FunctionKey(v.functions[i]) = word}
First(is) == CHOOSE i \in is : \A k \in is : i <= k

\* The variables are in the map before the functions, and the first of a name
\* stays.
HasSymbol(v, word) == LocalsNamed(v, word) \cup FunctionsNamed(v, word) # {}
Symbol(v, word) ==
    IF LocalsNamed(v, word) # {}
    THEN [space |-> "stack", offset |-> Offset(v, v.locals[First(LocalsNamed(v, word))])]
    ELSE [space |-> "ram",
          offset |-> v.functions[First(FunctionsNamed(v, word))].address]

TextOf(v, of) ==
    CASE of[1] = "local" -> LocalName(v, v.locals[of[2]])
      [] of[1] = "function" -> v.functions[of[2]].name
      [] of[1] = "text" -> of[2]

CallOf(v, p) ==
    [method |-> p.method, text |-> TextOf(v, p.of), hl |-> p.hl, op |-> p.op]

IsPlain(v, i) == i \in DOMAIN v.pieces /\ v.pieces[i].method = "plain"
PlainText(v, i) == TextOf(v, v.pieces[i].of)

\* Between two tokens there is a blank, or what begins with two blanks or with a
\* comment, each of whose words is a piece; no name begins like this.
Spaced(v) ==
    /\ \A i \in DOMAIN v.pieces : IsPlain(v, i) =>
        /\ PlainText(v, i) # <<>>
        /\ IsPlain(v, i - 1) \/
            IF Len(PlainText(v, i)) > 1 THEN PlainText(v, i)[2] \in Blank
            ELSE IsPlain(v, i + 1) => PlainText(v, i + 1)[1] \in Blank
    /\ \A name \in MemberName \cup {FunctionKey(v.functions[i]) : i \in DOMAIN v.functions} :
        name # <<>> => name[1] \notin Blank

\* What a token is about is in the view.
Bound(v) ==
    \A i \in DOMAIN v.pieces :
        LET of == v.pieces[i].of IN
        /\ of[1] = "local" => of[2] \in DOMAIN v.locals
        /\ of[1] = "function" => of[2] \in DOMAIN v.functions

ViewAssumption == \A v \in Views : Spaced(v) /\ Bound(v)

ASSUME ViewAssumption

\* The line of a view, as IDA has it, and the piece of each character seen.
LineOf(v) == FlattenSeq([i \in DOMAIN v.pieces |-> Emitted(CallOf(v, v.pieces[i]))])
Owners(v) ==
    FlattenSeq([i \in DOMAIN v.pieces |->
        [k \in DOMAIN Shown(CallOf(v, v.pieces[i])) |-> i]])

-----------------------------------------------------------------------------
(* Plugin::view and _DoubleClickCallback *)

Init == view = NoView /\ line = <<>> /\ click = NoClick

Show ==
    /\ view = NoView
    /\ view' \in Views
    /\ line' = LineOf(view')
    /\ click' = NoClick

Close ==
    /\ view # NoView
    /\ view' = NoView
    /\ line' = <<>>
    /\ click' = NoClick

Place(v, word) ==
    LET s == Symbol(v, word) IN
    IF s.space = "ram" THEN <<"ram", s.offset>>
    ELSE <<"frame", FramePlace(v.ea, v.frame, s.offset, v.size)>>

DoubleClick(x, behind) ==
    LET word == ComputeKeyword(line \o <<Nul>> \o behind, Len(line) + 1, x)
        place == IF word = NoWord THEN Nowhere
                 ELSE IF HasSymbol(view, word) THEN Place(view, word) ELSE Nowhere
    IN /\ view # NoView
       /\ click' = [column |-> x, word |-> word, place |-> place]
       /\ UNCHANGED <<view, line>>

Next ==
    \/ Show
    \/ Close
    \/ /\ view # NoView
       /\ \E x \in 0 .. Len(Owners(view)) + PastEnd, behind \in Garbage :
            DoubleClick(x, behind)

Spec == Init /\ [][Next]_vars

-----------------------------------------------------------------------------
(* Properties *)

Click ==
    [column : Nat,
     word : (Seq(Cell \cup {Nul}) \ {<<>>}) \cup {NoWord},
     place : {Nowhere} \cup ({"ram"} \X Nat) \cup ({"frame"} \X (0 .. Sign - 1))]

\* A word is never empty, and a place in the frame is one of a frame.
TypeOK ==
    /\ view \in Views \cup {NoView}
    /\ line \in Seq(Cell)
    /\ IF view = NoView THEN click = NoClick ELSE click \in Click \cup {NoClick}

\* The call that wrote the character on the left of the column.
OnCharacter == click # NoClick /\ click.column \in DOMAIN Owners(view)
CallAt(x) == CallOf(view, view.pieces[Owners(view)[x]])

\* Tokens whose tag TagBefore finds.
Regular(c) == Shown(c)[1] \in Alnum \/ Color(c) # COLOR_DEFAULT

(***************************************************************************)
(* The word is the whole token on the left of the cursor, wherever in the  *)
(* token the cursor is and whatever the tokens around it, though the three *)
(* scans of plugin.cc:107 to 132 take the code of the default colour for a *)
(* tag.                                                                    *)
(***************************************************************************)
WordExact ==
    OnCharacter =>
        LET c == CallAt(click.column) IN
        c.method # "plain" /\ Regular(c) => click.word = Shown(c)

(***************************************************************************)
(* A double click that goes anywhere goes where the token at the cursor    *)
(* leads, or the rest of it behind its first character: never where a      *)
(* neighbour, a blank or what lies behind the line would (plugin.cc:124 to *)
(* 143 and 274 to 290).                                                    *)
(***************************************************************************)
NoOtherWord ==
    click # NoClick /\ click.place # Nowhere =>
        /\ OnCharacter
        /\ LET c == CallAt(click.column) IN
            /\ c.method # "plain"
            /\ \/ click.word = Shown(c)
               \/ ~Regular(c) /\ click.word = Tail(Shown(c))

(***************************************************************************)
(* A double click on a variable of the stack opens the frame at the member *)
(* whose name it has, or where it is if the frame has no name for it:      *)
(* findStackVar (idasymbol.cc:173) and the callback (plugin.cc:301) widen  *)
(* offsets each in a way of its own, in builds of two widths.              *)
(***************************************************************************)
FrameExact ==
    click # NoClick /\ click.place # Nowhere =>
        LET v == view IN
        LocalsNamed(v, click.word) # {} =>
            /\ click.place = <<"frame", v.locals[First(LocalsNamed(v, click.word))].soff>>
            /\ \A i \in DOMAIN v.frame.members :
                v.frame.members[i].name = click.word =>
                    click.place = <<"frame", v.frame.members[i].soff>>

\* A double click on a token goes to the place the map has for it.
Navigates ==
    OnCharacter =>
        LET c == CallAt(click.column) IN
        c.method # "plain" /\ HasSymbol(view, Shown(c)) =>
            click.place = Place(view, Shown(c))
=============================================================================
