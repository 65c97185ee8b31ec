------------------------------- MODULE AstWalkC ------------------------------
(***************************************************************************)
(* src/ast/walk/ast-walk-c.c: the callback that prints a tree as a C       *)
(* initialiser, composed with the walk that calls it.  Of what it prints,  *)
(* only the braces it opens and closes are kept.                           *)
(***************************************************************************)
EXTENDS AstWalk

CONSTANT Limit      \* the bound of assert(c->indent < 256)

ASSUME LimitAssumption == Limit \in Nat \ {0}

VARIABLES
    indent,     \* c->indent
    braces,     \* how many braces have been opened and not closed
    aborted     \* an assertion has failed

-----------------------------------------------------------------------------
\* flag_recs[]: what a callback adds to the indentation.
IndentOf(call) ==
    CASE call.when = "BEFORE" -> 4
      [] call.when = "AFTER"  -> -4
      [] OTHER                -> 0

\* Each level has a brace, and the choice in it has another.
BracesOf(call) ==
    (CASE call.when = "BEFORE" -> 1 [] call.when = "AFTER" -> -1 [] OTHER -> 0)
    * (IF call.meta = "CHOICE" THEN 2 ELSE 1)

\* The callback's data leads it to the index of a CHOICE: that of the activation
\* which calls it, the one that has just begun or the one that is about to return.
IdxOf(call) == IF call.when = "BEFORE" THEN stack'[Len(stack')].idx ELSE Top.idx

\* Mistake: a choice of nothing opens its braces, and only then is seen to be one.
EmptyOpens(call) ==
    call.meta = "CHOICE" /\ call.when = "AFTER" /\ IdxOf(call) = 0

\* A choice of nothing is not printed at all.
Empty(call) == call.meta = "CHOICE" /\ IdxOf(call) = 0

\* What the callback asserts before it indents.
Within == indent >= 0 /\ indent < Limit

walk_cb ==
    IF cb' = None \/ Empty(cb')
    THEN UNCHANGED <<indent, braces, aborted>>
    ELSE /\ aborted' = ~Within
         /\ indent' = IF Within THEN indent + IndentOf(cb') ELSE indent
         /\ braces' = IF Within THEN braces + BracesOf(cb') ELSE braces

-----------------------------------------------------------------------------
InitC == indent = 0 /\ braces = 0 /\ aborted = FALSE

-----------------------------------------------------------------------------
Printed(k) == Begun(k) /\ (stack[k].kind = "CHOICE" => stack[k].idx # 0)

\* The indentation is four for each structure and each choice that is being
\* printed, and the braces are theirs: nothing is open when the walk ends.
IndentIsDepth ==
    LET printed == {k \in DOMAIN stack : Printed(k)}
        choices == {k \in printed : stack[k].kind = "CHOICE"}
    IN  ~aborted => /\ indent = 4 * Cardinality(printed)
                    /\ braces = Cardinality(printed) + Cardinality(choices)

\* src/ast/walk/ast-walk-c.c:75 asserts of every callback that the indentation
\* is less than 256: that never fails.
NeverAborts == ~aborted
=============================================================================
