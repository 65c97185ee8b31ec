------------------------------ MODULE MCToycen -------------------------------
(***************************************************************************)
(* Instances of the program: two names, a string constant and the          *)
(* declarations of module Grammar.                                         *)
(***************************************************************************)
EXTENDS Phrases, Grammar

Memory == 1 .. 64

LOCAL Say(kind, spelling) == [kind |-> kind, text |-> spelling]
LOCAL A == Say("NAME", "a")
LOCAL B == Say("NAME", "b")
LOCAL S == Say("STRING", "s")
LOCAL I == Say("INT", "other")
LOCAL T == Say("TYPEDEF", "other")
LOCAL P(mark) == Say(mark, "other")

\* Typedefs and their uses, arrays, pointers, equal strings, a typedef in second place, and lines
\* that are wrong or stop short.
SourceLines ==
    {<<I, A, P(";")>>, <<T, I, A, P(";")>>, <<I, T, A, P(";")>>,
     <<T, I, A, P(","), B, P(";")>>, <<A, B, P(";")>>, <<I, P(";")>>,
     <<I, A, P("="), S, P(","), B, P("="), S, P(";")>>,
     <<I, P("*"), A, P("[]"), P(","), P("*"), P("*"), B, P(";")>>, <<T, I, A, P("[]"), P(";")>>,
     <<T, I>>, <<I, A, P(",")>>, <<P(";")>>}

AllTexts == {"a", "b", "s", "typedef", "other"}
=============================================================================
