------------------------------- MODULE Keyword -------------------------------
(***************************************************************************)
(* _ComputeKeyword: the word at the cursor, read from the line and its     *)
(* colour tags by three scans over the cells of its text: forward to the   *)
(* column, forward to the end of the word, and back to the tag before it.  *)
(* The line ends in a NUL; what lies behind belongs to nobody.             *)
(***************************************************************************)
EXTENDS Printer

CONSTANTS
    Alnum,  \* qisalnum
    NoWord  \* std::nullopt

Nul == "NUL"

Escape == {On, Off}

\* No text has an escape or a NUL in it, no colour has the code of a letter, and
\* no word is none.
KeywordAssumption ==
    /\ Char \cap {On, Off, Nul} = {}
    /\ Alnum \cap Code = {}
    /\ NoWord \notin Seq(Cell \cup {Nul})

ASSUME KeywordAssumption

\* Mutant: the colour is taken for a character.
WalkColors(text, x) ==
    LET walk[p \in 1 .. Len(text) + 2] == [left \in 0 .. x |->
            IF left = 0 \/ p > Len(text) THEN p
            ELSE IF text[p] \in Escape THEN walk[p + 1][left]
            ELSE walk[p + 1][left - 1]]
    IN walk[1][x]

\* The cell where x characters are to the left.  Tags behind the last of them
\* are not skipped.  Bound: the cells behind the line that are given.
Walk(text, x) ==
    LET walk[p \in 1 .. Len(text) + 2] == [left \in 0 .. x |->
            IF left = 0 \/ p > Len(text) THEN p
            ELSE IF text[p] \in Escape THEN walk[p + 2][left]
            ELSE walk[p + 1][left - 1]]
    IN walk[1][x]

\* The first cell that ends a word, or the first behind the NUL.
WordEnd(text, nul, start) ==
    CHOOSE e \in start .. Len(text) :
        /\ e > nul \/ text[e] \in Escape \cup {Nul}
        /\ \A k \in start .. e - 1 : k <= nul /\ text[k] \notin Escape \cup {Nul}

\* Mutant: the colour of a tag is not looked at.
IsAnyTag(text, k) == text[k] = On

IsTag(text, k) == text[k] = On /\ text[k + 1] \notin Alnum

\* The last tag at or before start, or the cell before the line.
TagBefore(text, start) ==
    CHOOSE b \in 0 .. start :
        /\ b = 0 \/ IsTag(text, b)
        /\ \A k \in b + 1 .. start : ~IsTag(text, k)

\* Mutant: an empty word is a word.
ComputeKeywordEmpty(text, nul, x) ==
    LET start == Walk(text, x)
        tag == TagBefore(text, start)
    IN IF tag >= nul THEN NoWord
       ELSE SubSeq(text, tag + 2, WordEnd(text, nul, start) - 1)

\* The word of a line that ends at cell nul, when x characters are to the left
\* of the cursor.
ComputeKeyword(text, nul, x) ==
    LET start == Walk(text, x)
        end == WordEnd(text, nul, start)
        tag == TagBefore(text, start)
    IN IF tag + 2 >= end \/ tag >= nul THEN NoWord ELSE SubSeq(text, tag + 2, end - 1)
=============================================================================
