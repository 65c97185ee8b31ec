------------------------------- MODULE Grammar -------------------------------
(***************************************************************************)
(* parser/parser.y: the productions of declarations, with what their       *)
(* actions build.  Declarators are names, arrays without a size and        *)
(* pointers, the specifiers are `int', `typedef' and names of types, and   *)
(* an initialiser is a string constant.                                    *)
(*                                                                         *)
(* A production is the symbol it makes and those it pops; whether its      *)
(* action makes a new node (NN), upgrades argument `arg' (UN) or makes no  *)
(* node; what it puts into which field (an argument, or 0 for the interned *)
(* string); and `unless', the look-ahead on which the parser shifts        *)
(* instead.  Where that is empty the parser reduces without looking ahead. *)
(***************************************************************************)
EXTENDS AstSchema

LOCAL Production(lhs, rhs, op, arg, refs, unless) ==
    [lhs |-> lhs, rhs |-> rhs, op |-> op, arg |-> arg, refs |-> refs, unless |-> unless]

\* Where the fields used below are: <<structure, 0, name>>, or <<structure, index,
\* name>> for a member of its CHOICE, with the index that CHOICE(...) stores, and one
\* more component for a field of a PRIV.
Places ==
    [list_left |-> <<"init_declarator_list", 0, "left">>,
     unit_left |-> <<"translation_unit", 0, "left">>,
     unit_right |-> <<"translation_unit", 0, "right">>,
     external_decl |-> <<"external_declaration", 2, "decl">>,
     specifiers_ts |-> <<"declaration_specifiers", 2, "ts">>,
     specifiers_right |-> <<"declaration_specifiers", 0, "right">>,
     declaration_decl |-> <<"declaration", 0, "decl">>,
     array_left |-> <<"direct_declarator", 3, "array", "left">>,
     declarator_id |-> <<"direct_declarator", 1, "id">>,
     pointer_right |-> <<"pointer", 0, "right">>,
     declarator_init |-> <<"init_declarator", 0, "init">>,
     initializer_ae |-> <<"initializer", 1, "ae">>,
     assignment_right |-> <<"assignment_expression", 1, "right">>,
     cast_unary |-> <<"cast_expression", 1, "unary">>,
     postfix_pri |-> <<"postfix_expression", 1, "pri">>,
     primary_s |-> <<"primary_expression", 5, "s">>]

\* The fields in the order of the text that they hold.
GrammarFields ==
    <<"list_left", "unit_left", "unit_right", "external_decl", "specifiers_ts",
      "specifiers_right", "declaration_decl", "array_left", "declarator_id",
      "pointer_right", "declarator_init", "initializer_ae", "assignment_right", "cast_unary",
      "postfix_pri", "primary_s">>

Specifiers == {"TYPEDEF", "INT", "TYPEDEF_NAME"}

Nothing == << >>

NewNode(lhs, rhs, refs) == Production(lhs, rhs, "NN", 0, refs, {})
Upgrade(lhs, rhs, arg, refs) == Production(lhs, rhs, "UN", arg, refs, {})
Unless(production, kinds) == [production EXCEPT !.unless = kinds]

SpecifierProductions == {
    Production("storage_class_specifier", <<"TYPEDEF">>, "value", 0, Nothing, {}),
    NewNode("type_specifier", <<"INT">>, Nothing),
    NewNode("type_specifier", <<"TYPEDEF_NAME">>, Nothing),
    Unless(NewNode("declaration_specifiers", <<"storage_class_specifier">>, Nothing),
           Specifiers),
    NewNode("declaration_specifiers", <<"storage_class_specifier", "declaration_specifiers">>,
            [specifiers_right |-> 2]),
    Unless(NewNode("declaration_specifiers", <<"type_specifier">>, [specifiers_ts |-> 1]),
           Specifiers),
    NewNode("declaration_specifiers", <<"type_specifier", "declaration_specifiers">>,
            [specifiers_ts |-> 1, specifiers_right |-> 2])}

PointerProductions == {
    Unless(NewNode("pointer", <<"*">>, Nothing), {"*"}),
    NewNode("pointer", <<"*", "pointer">>, [pointer_right |-> 2])}

\* The action for a declarator with a pointer uses $2 only.
DeclaratorProductions == {
    NewNode("identifier", <<"IDENTIFIER">>, Nothing),
    NewNode("direct_declarator", <<"identifier">>, [declarator_id |-> 1]),
    NewNode("direct_declarator", <<"direct_declarator", "[]">>, [array_left |-> 1]),
    Unless(Upgrade("declarator", <<"direct_declarator">>, 1, Nothing), {"[]"}),
    Unless(Upgrade("declarator", <<"pointer", "direct_declarator">>, 2, Nothing), {"[]"})}

InitDeclaratorProductions == {
    Unless(Upgrade("init_declarator", <<"declarator">>, 1, Nothing), {"="}),
    Upgrade("init_declarator", <<"declarator", "=", "initializer">>, 1,
            [declarator_init |-> 3]),
    Upgrade("init_declarator_list", <<"init_declarator">>, 1, Nothing),
    Upgrade("init_declarator_list", <<"init_declarator_list", ",", "init_declarator">>, 3,
            [list_left |-> 1])}

\* The expressions between a cast and an assignment: a chain of upgrades.
BinaryChain ==
    <<"cast_expression", "multiplicative_expression", "additive_expression",
      "shift_expression", "relational_expression", "equality_expression",
      "and_expression", "exclusive_or_expression", "inclusive_or_expression",
      "logical_and_expression", "logical_or_expression", "conditional_expression">>

ExpressionProductions == {
    NewNode("primary_expression", <<"STRING">>, [primary_s |-> 0]),
    NewNode("postfix_expression", <<"primary_expression">>, [postfix_pri |-> 1]),
    Unless(Upgrade("unary_expression", <<"postfix_expression">>, 1, Nothing), {"[]"}),
    Unless(NewNode("cast_expression", <<"unary_expression">>, [cast_unary |-> 1]), {"="}),
    NewNode("assignment_expression", <<"conditional_expression">>, [assignment_right |-> 1]),
    NewNode("initializer", <<"assignment_expression">>, [initializer_ae |-> 1])}
    \cup {Unless(Upgrade(BinaryChain[i + 1], <<BinaryChain[i]>>, 1, Nothing),
                 {"operator"}) : i \in 1 .. Len(BinaryChain) - 1}

DeclarationProductions == {
    Upgrade("declaration", <<"declaration_specifiers", "init_declarator_list", ";">>, 1,
            [declaration_decl |-> 2]),
    Upgrade("declaration", <<"declaration_specifiers", ";">>, 1, Nothing)}

TopProductions == {
    NewNode("external_declaration", <<"declaration">>, [external_decl |-> 1]),
    NewNode("translation_unit", <<"external_declaration">>, [unit_right |-> 1]),
    NewNode("translation_unit", <<"translation_unit", "external_declaration">>,
            [unit_right |-> 2, unit_left |-> 1])}

DeclarationGrammar ==
    SpecifierProductions \cup PointerProductions \cup DeclaratorProductions \cup InitDeclaratorProductions
    \cup ExpressionProductions \cup DeclarationProductions \cup TopProductions

\* Which token may follow which symbol: where the automaton has a shift.
DeclarationShifts ==
    ({"bottom", "translation_unit"} \X (Specifiers \cup {"IDENTIFIER", "*"}))
    \cup ({"storage_class_specifier", "type_specifier"} \X Specifiers)
    \cup ({"declaration_specifiers", ",", "*"} \X {"*"})
    \cup {<<"declaration_specifiers", "IDENTIFIER">>, <<"declaration_specifiers", ";">>,
          <<"pointer", "IDENTIFIER">>,
          <<"direct_declarator", "[]">>, <<"declarator", "=">>, <<"=", "STRING">>,
          <<"init_declarator_list", ",">>, <<"init_declarator_list", ";">>,
          <<",", "IDENTIFIER">>}
=============================================================================
