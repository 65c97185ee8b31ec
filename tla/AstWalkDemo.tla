----------------------------- MODULE AstWalkDemo -----------------------------
(***************************************************************************)
(* src/ast/walk/ast-walk-demo.c: the callback that prints a tree with a    *)
(* line for each call, those for an empty CHOICE included.                 *)
(***************************************************************************)
EXTENDS AstWalk

CONSTANT MaxMargin  \* the bound of assert(c->indent < 256)

ASSUME MarginAssumption == MaxMargin \in Nat \ {0}

VARIABLES
    margin,     \* c->indent
    halted      \* an assertion has failed

demoVars == <<margin, halted>>

-----------------------------------------------------------------------------
\* Mistake: the flags that mark a node are not masked off, and flag_recs[] has nothing
\* for them.
MarginOfMarked(call) ==
    IF call.flags # {} THEN 0
    ELSE CASE call.when = "BEFORE" -> 4 [] call.when = "AFTER" -> -4 [] OTHER -> 0

\* flag_recs[flags & 7]
MarginOf(call) ==
    CASE call.when = "BEFORE" -> 4
      [] call.when = "AFTER"  -> -4
      [] OTHER                -> 0

demo_cb ==
    IF cb' = None THEN UNCHANGED demoVars
    ELSE LET within == margin >= 0 /\ margin < MaxMargin
         IN  /\ halted' = ~within
             /\ margin' = IF within THEN margin + MarginOf(cb') ELSE margin

InitDemo == margin = 0 /\ halted = FALSE

-----------------------------------------------------------------------------
\* The margin is four for each thing whose first callback has been made and whose last
\* one has not: lines of one structure start at one column, and none is left open.
MarginIsDepth ==
    ~halted => margin = 4 * Cardinality({k \in DOMAIN stack : Begun(k)})
=============================================================================
