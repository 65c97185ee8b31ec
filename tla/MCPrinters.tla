------------------------------ MODULE MCPrinters -----------------------------
(***************************************************************************)
(* Instances of the walk that prints.                                      *)
(***************************************************************************)
EXTENDS Printers, AstSchema

AroundFlags == {"BEFORE", "AFTER"}
Unit == {"translation_unit"}

\* Texts that fit into a buffer of 128 bytes, two of them just, and one that does not.
TextLengths == {5, 126, 127, 128}

\* Declarations with an empty and a full choice, a PRIV and a base in a base.
DeclarationTypes == {"translation_unit", "external_declaration", "declaration",
                     "declaration_specifiers", "init_declarator_list",
                     "direct_declarator"}
DeclarationFields == {<<"translation_unit", "right">>,
                      <<"external_declaration", "decl">>, <<"declaration", "decl">>,
                      <<"declaration_specifiers", "right">>,
                      <<"function_direct_inner_", "left">>}

\* The declarations of a long file: each unit holds the one before it.
ChainTypes == {"translation_unit"}
ChainFields == {<<"translation_unit", "left">>}
=============================================================================
