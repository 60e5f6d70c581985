----------------------------- MODULE GlobalNames -----------------------------
(***************************************************************************)
(* What Ghidra may rely on when it asks the global scope for functions:    *)
(* while a decompilation is open an answer stays what it was, it is the    *)
(* name the database has for that address, or the one registered for that  *)
(* system call, and nothing of an earlier decompilation is answered.       *)
(***************************************************************************)
CONSTANTS
    Offsets,    \* the offsets of each space
    Database,   \* the space whose offsets are addresses of the database
    Registered, \* names given in advance, in each other space
    NoName

VARIABLES
    names,      \* names of the database
    answers,    \* names of the functions that were found
    open        \* whether a decompilation is running

vars == <<names, answers, open>>

Space == DOMAIN Offsets

None == [s \in Space |-> [o \in Offsets[s] |-> NoName]]

Right(s, o) == IF s = Database THEN names[o] ELSE Registered[s][o]

Init ==
    /\ answers = None
    /\ open = FALSE

Edit ==
    /\ ~open
    /\ names' # names
    /\ UNCHANGED <<answers, open>>

Open ==
    /\ ~open
    /\ open' = TRUE
    /\ answers' = None
    /\ UNCHANGED names

\* Functions are found at addresses that had none.
Grow ==
    /\ answers' = [s \in Space |-> [o \in Offsets[s] |-> answers'[s][o]]]
    /\ \A s \in Space : \A o \in Offsets[s] :
        \/ answers'[s][o] = answers[s][o]
        \/ answers[s][o] = NoName /\ answers'[s][o] = Right(s, o)

Answer ==
    /\ open
    /\ Grow
    /\ UNCHANGED <<names, open>>

\* A decompilation may end in the middle of a question.
Close ==
    /\ open
    /\ open' = FALSE
    /\ Grow
    /\ UNCHANGED names

Next == Edit \/ Open \/ Answer \/ Close

Spec == Init /\ [][Next]_vars
=============================================================================
