------------------------------- MODULE Printer -------------------------------
(***************************************************************************)
(* IdaEmit: Ghidra's printer calls the emitter for each token, and the     *)
(* emitter writes it between two tags of IDA's, each an escape and the     *)
(* colour.  A text is a sequence of characters; the prefix of an import is *)
(* one character.                                                          *)
(***************************************************************************)
EXTENDS Integers, Sequences

CONSTANTS
    Char,   \* what texts are written with
    Import  \* IMPORT_PREFIX

\* The escapes.  The default colour has the code of the first one.
On == "COLOR_ON"
Off == "COLOR_OFF"
COLOR_DEFAULT == On
COLOR_RPTCMT == "COLOR_RPTCMT"
COLOR_DREF == "COLOR_DREF"
COLOR_DSTR == "COLOR_DSTR"
COLOR_KEYWORD == "COLOR_KEYWORD"
COLOR_IMPNAME == "COLOR_IMPNAME"

Code ==
    {COLOR_DEFAULT, COLOR_RPTCMT, COLOR_DREF, COLOR_DSTR, COLOR_KEYWORD, COLOR_IMPNAME}

Cell == Char \cup Code \cup {On, Off}

Highlight ==
    {"keyword", "comment", "type", "funcname", "var", "const", "param", "global", "no"}

\* A call of the emitter; op is whether it comes with an operation, which a
\* declaration does not.
Method ==
    {"openParen", "closeParen", "tagOp", "tagVariable", "tagFuncName",
     "tagField", "tagLabel", "print", "tagType", "plain"}
Call == [method : Method, text : Seq(Char), hl : Highlight, op : BOOLEAN]

Quote == {"\"", "'"}

\* EmitColorGuard
GuardColor(hl) ==
    CASE hl \in {"keyword", "const"} -> COLOR_KEYWORD
      [] hl \in {"comment", "type"} -> COLOR_RPTCMT
      [] hl = "var" -> COLOR_DREF
      [] OTHER -> COLOR_DEFAULT

IsImportText(text) == text # <<>> /\ text[1] = Import
IsLiteral(text) ==
    \/ text # <<>> /\ text[1] \in Quote
    \/ Len(text) > 1 /\ text[1] = "L" /\ text[2] \in Quote

TagVariable(c) ==
    IF IsImportText(c.text) THEN COLOR_IMPNAME
    ELSE IF IsLiteral(c.text) THEN COLOR_DSTR
    ELSE IF ~c.op THEN COLOR_KEYWORD ELSE GuardColor(c.hl)

TagFuncName(c) == IF IsImportText(c.text) THEN COLOR_IMPNAME ELSE GuardColor(c.hl)

PrintText(c) ==
    IF c.text # <<>> /\ c.text[1] \in {"{", "}", ";", ","} THEN COLOR_KEYWORD
    ELSE GuardColor(c.hl)

Color(c) ==
    CASE c.method \in {"openParen", "closeParen", "tagOp", "tagField", "tagLabel"}
            -> COLOR_KEYWORD
      [] c.method = "tagVariable" -> TagVariable(c)
      [] c.method = "tagFuncName" -> TagFuncName(c)
      [] c.method = "print" -> PrintText(c)
      [] c.method = "tagType" -> GuardColor(c.hl)

\* The characters that are seen.
Shown(c) ==
    IF c.method \in {"tagVariable", "tagFuncName"} /\ IsImportText(c.text)
    THEN Tail(c.text) ELSE c.text

\* What Ghidra writes between two tokens is a blank, or begins with two blanks
\* or with a comment; it has no tags.
Blank == {" ", "/", "*"}

Emitted(c) ==
    IF c.method = "plain" THEN c.text
    ELSE <<On, Color(c)>> \o Shown(c) \o <<Off, Color(c)>>
=============================================================================
