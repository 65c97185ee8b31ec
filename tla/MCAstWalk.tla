------------------------------ MODULE MCAstWalk ------------------------------
(***************************************************************************)
(* Instances of the walker: the schema of xi/ast.xi, and sets of types and *)
(* fields that bound the trees.                                            *)
(***************************************************************************)
EXTENDS AstWalk, AstSchema

AllFlags == {"BEFORE", "AFTER", "BETWEEN"}

NodeTypes == {t \in DOMAIN Recs : Recs[t].meta = "NODE"}

\* Below a node of any type, declarations of up to two nodes: bases two deep, nodes
\* held by a field and by a choice, and a PRIV with a node in it.
Fields == {<<"translation_unit", "right">>, <<"translation_unit", "left">>,
           <<"external_declaration", "decl">>, <<"declaration", "decl">>,
           <<"declaration_specifiers", "right">>, <<"function_direct_inner_", "left">>,
           <<"direct_declarator", "decl">>}
=============================================================================
