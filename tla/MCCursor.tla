------------------------------ MODULE MCCursor ------------------------------
(***************************************************************************)
(* Lines of three tokens, each of any colour, with and without blanks, and *)
(* frames of two members around the stack pointer in programs of 32 and 64 *)
(* bits.  Names are chosen so that one is the rest of another.             *)
(***************************************************************************)
EXTENDS Cursor

MCChar == {"a", "b", "f", "_", "(", ";", " ", "/", "*", "L", "\"", "__imp_"}
MCAlnum == {"a", "b", "f", "L"}

A == <<"a">>
UnderA == <<"_", "a">>
B == <<"b", "a">>
MCMemberName == {A, UnderA, B}

P(method, hl, op, of) == [method |-> method, hl |-> hl, op |-> op, of |-> of]

Pieces ==
    {P("tagVariable", "var", TRUE, <<"local", 1>>),
     P("tagVariable", "param", TRUE, <<"local", 2>>),
     P("tagVariable", "param", FALSE, <<"local", 2>>),
     P("tagFuncName", "funcname", TRUE, <<"function", 1>>),
     P("tagFuncName", "funcname", TRUE, <<"function", 2>>),
     P("openParen", "no", FALSE, <<"text", <<"(">>>>),
     P("print", "no", FALSE, <<"text", <<"(">>>>),
     P("print", "no", FALSE, <<"text", <<";">>>>),
     P("tagType", "type", FALSE, <<"text", B>>),
     P("tagVariable", "const", TRUE, <<"text", <<"L", "\"", "a", "\"">>>>),
     P("plain", "no", FALSE, <<"text", <<" ", " ">>>>),
     P("plain", "comment", FALSE, <<"text", <<"/", "*", "f">>>>),
     P("plain", "comment", FALSE, <<"text", <<"f">>>>)}

Lines ==
    UNION {{<<p>> : p \in Pieces}, {<<p, q>> : p, q \in Pieces},
           {<<p, q, r>> : p \in Pieces, q \in Pieces, r \in Pieces}}

M(soff, name) == [soff |-> soff, name |-> name]
L(soff, own) == [soff |-> soff, own |-> own]

MCFunctions ==
    <<[address |-> 1, name |-> <<"f">>], [address |-> 2, name |-> <<"__imp_", "b">>]>>

V(ea, size, base, members, locals, pieces) ==
    [ea |-> ea, size |-> size, frame |-> [base |-> base, members |-> members],
     locals |-> locals, functions |-> MCFunctions, pieces |-> pieces]

\* One frame for all lines.
LineViews ==
    {v \in {V(8, 4, 2, <<M(0, A), M(3, UnderA)>>, <<L(0, B), L(3, B)>>, l) : l \in Lines} :
        Spaced(v)}

\* All frames for one line of two variables.
Two ==
    <<P("tagVariable", "var", TRUE, <<"local", 1>>),
      P("plain", "no", FALSE, <<"text", <<" ">>>>),
      P("tagVariable", "var", TRUE, <<"local", 2>>)>>

FrameViews ==
    {V(p[1], p[2], base, <<M(s[1], A), M(s[2], UnderA)>>, <<L(s[1], B), L(s[3], B)>>, Two) :
        p \in {<<4, 4>>, <<8, 4>>, <<8, 8>>}, base \in 0 .. 3,
        s \in {s \in (0 .. 3) \X (0 .. 3) \X (0 .. 3) : s[1] # s[2] /\ s[1] # s[3]}}

MCViews == LineViews \cup FrameViews

MCGarbage ==
    {<<"COLOR_ON", "COLOR_ON">>, <<"COLOR_OFF", "a">>, <<"a", "COLOR_ON">>}
=============================================================================
