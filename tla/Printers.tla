------------------------------- MODULE Printers ------------------------------
(***************************************************************************)
(* The walk with the callbacks that print (ast-walk-c.c, ast-walk-demo.c). *)
(* A program has one of them as its main_walk_op.  They ask for the same   *)
(* callbacks and the walk does not look at what a callback returns, so one *)
(* walk is watched by both here, and both have a value formatted alike.    *)
(***************************************************************************)
EXTENDS AstWalkC, AstWalkDemo, Formatters

\* What both ask for: walk_demo and walk_c call ast_walk with these flags.
ASSUME PrintersAssumption == {"BEFORE", "AFTER"} \subseteq WalkFlags

VARIABLE crashed    \* a formatter has followed an enumerator

varsP == <<vars, indent, braces, aborted, demoVars, fmt, crashed>>

InitP == Init /\ InitC /\ InitDemo /\ fmt = NoFormat /\ crashed = FALSE

NextP ==
    /\ ~aborted /\ ~halted /\ ~crashed
    /\ Next
    /\ walk_cb /\ demo_cb
    /\ crashed' \in BOOLEAN /\ Format(cb', crashed')

SpecP == InitP /\ [][NextP]_varsP /\ WF_varsP(NextP)

=============================================================================
