------------------------------ MODULE AstSchema ------------------------------
(***************************************************************************)
(* xi/ast.xi: the structures of the syntax tree, as the tables node_recs,  *)
(* priv_recs and node_parentages (src/ast/ast-ids.c) that the walker reads *)
(* are generated from it.                                                  *)
(*                                                                         *)
(* A record has its meta type, its base ("" for none) and its items.  An   *)
(* item has the name of the field, the meta type and the type of what it   *)
(* holds, whether it is a pointer, and, when it is a CHOICE, its members.  *)
(* Enumerations (MAKE(ID, ...)) are named as types only: no walker looks   *)
(* at their values.                                                        *)
(***************************************************************************)
EXTENDS Sequences, Integers, FiniteSets, TLC

LOCAL Item(name, meta, type, ptr, members) ==
    [name |-> name, meta |-> meta, type |-> type, ptr |-> ptr, members |-> members]

Ptr(name, type)       == Item(name, "NODE", type, TRUE, << >>)   \* PTR(REF_NODE(type))
Priv(name, type)      == Item(name, "PRIV", type, FALSE, << >>)  \* REF_PRIV(type)
Id(name, type)        == Item(name, "ID", type, FALSE, << >>)    \* REF_ID(type)
Basic(name, type)     == Item(name, "BASIC", type, FALSE, << >>) \* BASIC(type)
PtrBasic(name, type)  == Item(name, "BASIC", type, TRUE, << >>)  \* PTR(BASIC(type))
Choice(name, members) == Item(name, "CHOICE", "", FALSE, members)

NodeRec(base, items) == [meta |-> "NODE", base |-> base, items |-> items]
PrivRec(items)       == [meta |-> "PRIV", base |-> "", items |-> items]

-----------------------------------------------------------------------------
AssignmentRecs == [
    node |-> NodeRec("", <<Id("node_type", "node_type")>>),
    assignment_inner_ |-> PrivRec(<<Ptr("left", "unary_expression"),
        Id("op", "assignment_operator"), Ptr("right", "assignment_expression")>>),
    assignment_expression |-> NodeRec("node", <<Basic("has_op", "bool"),
        Choice("c", <<Ptr("right", "conditional_expression"),
                      Priv("assn", "assignment_inner_")>>)>>),
    expression |-> NodeRec("assignment_expression", <<Ptr("left", "expression")>>)]

TypeNameRecs == [
    specifier_qualifier_list |-> NodeRec("node", <<Id("type", "sq_meta"),
        Ptr("next", "specifier_qualifier_list")>>),
    type_qualifier_list |-> NodeRec("node", <<Id("me", "type_qualifier"),
        Ptr("left", "type_qualifier_list")>>),
    pointer |-> NodeRec("node", <<Ptr("tq", "type_qualifier_list"),
        Ptr("right", "pointer")>>),
    array_inner_ |-> PrivRec(<<Ptr("left", "direct_abstract_declarator"),
        Ptr("idx", "constant_expression")>>),
    func_inner_ |-> PrivRec(<<Ptr("left", "direct_abstract_declarator"),
        Ptr("params", "parameter_type_list")>>),
    direct_abstract_declarator |-> NodeRec("node",
        <<Id("type", "direct_abstract_declarator_subtype"),
          Choice("me", <<Ptr("abs", "abstract_declarator"),
                         Priv("array", "array_inner_"),
                         Priv("function", "func_inner_")>>)>>),
    abstract_declarator |-> NodeRec("node", <<Ptr("ptr", "pointer"),
        Ptr("right", "direct_abstract_declarator")>>),
    type_name |-> NodeRec("node", <<Ptr("list", "specifier_qualifier_list"),
        Ptr("decl", "abstract_declarator")>>)]

PrimaryRecs == [
    identifier |-> NodeRec("node", <<Basic("len", "size_t"), Basic("name", "char_ptr")>>),
    integer |-> NodeRec("node", <<Basic("size", "size_t"), Basic("is_signed", "bool"),
        Choice("me", <<Basic("s", "short"), Basic("i", "int"), Basic("l", "long"),
            Basic("ll", "long_long"), Basic("ss", "signed_short"),
            Basic("si", "signed_int"), Basic("sl", "signed_long"),
            Basic("sll", "signed_long_long"), Basic("us", "unsigned_short"),
            Basic("ui", "unsigned_int"), Basic("ul", "unsigned_long"),
            Basic("ull", "unsigned_long_long")>>)>>),
    character |-> NodeRec("node", <<Basic("has_signage", "bool"),
        Basic("is_signed", "bool"),
        Choice("me", <<Basic("c", "char"), Basic("lc", "signed_char"),
                       Basic("uc", "unsigned_char")>>)>>),
    floating |-> NodeRec("node", <<Basic("size", "size_t"),
        Choice("me", <<Basic("f", "float"), Basic("d", "double"),
                       Basic("ld", "long_double")>>)>>),
    string |-> NodeRec("node", <<Basic("size", "size_t"), Ptr("value", "character"),
        PtrBasic("cached", "char")>>),
    expression_having_type |-> NodeRec("node", <<Id("type", "expression_type")>>),
    primary_expression |-> NodeRec("expression_having_type",
        <<Id("type", "primary_expression_type"),
          Choice("me", <<Ptr("id", "identifier"), Ptr("i", "integer"),
                         Ptr("c", "character"), Ptr("f", "floating"),
                         Ptr("s", "string"), Ptr("e", "expression")>>)>>)]

PostfixRecs == [
    argument_expression_list |-> NodeRec("assignment_expression",
        <<Ptr("left", "argument_expression_list")>>),
    array_postfix_inner_ |-> PrivRec(<<Ptr("left", "postfix_expression"),
        Ptr("index", "expression")>>),
    function_postfix_inner_ |-> PrivRec(<<Ptr("left", "postfix_expression"),
        Ptr("ael", "argument_expression_list")>>),
    aggregate_postfix_inner_ |-> PrivRec(<<Ptr("left", "postfix_expression"),
        Ptr("designator", "identifier")>>),
    postfix_expression |-> NodeRec("node", <<Id("type", "postfix_expression_type"),
        Choice("me", <<Ptr("pri", "primary_expression"),
                       Ptr("left", "postfix_expression"),
                       Priv("array", "array_postfix_inner_"),
                       Priv("function", "function_postfix_inner_"),
                       Priv("aggregate", "aggregate_postfix_inner_")>>)>>),
    ce_unary_inner_ |-> PrivRec(<<Id("uo", "unary_operator"),
        Ptr("ce", "cast_expression")>>),
    unary_expression |-> NodeRec("postfix_expression",
        <<Id("type", "unary_expression_type"),
          Choice("c", <<Ptr("ue", "unary_expression"), Priv("ce", "ce_unary_inner_"),
                        Ptr("tn", "type_name")>>)>>),
    cast_inner_ |-> PrivRec(<<Ptr("ce", "cast_expression"), Ptr("tn", "type_name")>>),
    cast_expression |-> NodeRec("node",
        <<Choice("me", <<Ptr("unary", "unary_expression"),
                         Priv("cast", "cast_inner_")>>)>>)]

BinaryRecs == [
    multiplicative_expression |-> NodeRec("cast_expression",
        <<Ptr("left", "multiplicative_expression"), Id("op", "binary_operator")>>),
    additive_expression |-> NodeRec("multiplicative_expression",
        <<Ptr("left", "additive_expression"), Id("op", "binary_operator")>>),
    shift_expression |-> NodeRec("additive_expression",
        <<Id("op", "shift_operator"), Ptr("left", "shift_expression")>>),
    relational_expression |-> NodeRec("shift_expression",
        <<Id("op", "relational_operator"), Ptr("left", "relational_expression")>>),
    equality_expression |-> NodeRec("relational_expression",
        <<Basic("eq", "bool"), Ptr("left", "equality_expression")>>),
    and_expression |-> NodeRec("equality_expression", <<Ptr("left", "and_expression")>>),
    exclusive_or_expression |-> NodeRec("and_expression",
        <<Ptr("left", "exclusive_or_expression")>>),
    inclusive_or_expression |-> NodeRec("exclusive_or_expression",
        <<Ptr("left", "inclusive_or_expression")>>),
    logical_and_expression |-> NodeRec("inclusive_or_expression",
        <<Ptr("left", "logical_and_expression")>>),
    logical_or_expression |-> NodeRec("logical_and_expression",
        <<Ptr("left", "logical_or_expression")>>),
    conditional_expression |-> NodeRec("logical_or_expression",
        <<Basic("is_ternary", "bool"), Ptr("if_expr", "expression"),
          Ptr("else_expr", "conditional_expression")>>),
    constant_expression |-> NodeRec("conditional_expression", <<Basic("dummy", "char")>>)]

AggregateRecs == [
    aggregate_definition |-> NodeRec("node", <<Basic("TODO", "bool")>>),
    aggregate_definition_list |-> NodeRec("node", <<Ptr("me", "aggregate_definition"),
        Ptr("prev", "aggregate_definition_list")>>),
    aggregate_declaration |-> NodeRec("node", <<Ptr("sq", "specifier_qualifier_list"),
        Ptr("decl", "aggregate_declarator_list")>>),
    aggregate_declaration_list |-> NodeRec("node", <<Ptr("me", "aggregate_declaration"),
        Ptr("prev", "aggregate_declaration_list")>>),
    aggregate_specifier |-> NodeRec("node", <<Id("type", "aggregate_type"),
        Basic("has_id", "bool"), Ptr("id", "identifier"), Basic("has_list", "bool"),
        Ptr("list", "aggregate_declaration_list")>>),
    enumerator |-> NodeRec("node", <<Ptr("id", "identifier"),
        Ptr("val", "constant_expression")>>),
    enumerator_list |-> NodeRec("node", <<Ptr("me", "enumerator"),
        Ptr("prev", "enumerator_list")>>),
    enum_specifier |-> NodeRec("node", <<Basic("has_id", "bool"),
        Ptr("id", "identifier"), Basic("has_list", "bool"),
        Ptr("list", "enumerator_list")>>),
    type_specifier |-> NodeRec("node", <<Id("type", "type_specifier_type"),
        Choice("c", <<Ptr("as", "aggregate_specifier"), Ptr("es", "enum_specifier"),
                      Ptr("tn", "type_name")>>)>>)]

DeclarationRecs == [
    declaration_specifiers |-> NodeRec("node",
        <<Id("type", "declaration_specifiers_subtype"),
          Choice("me", <<Id("scs", "storage_class_specifier"),
                         Ptr("ts", "type_specifier"), Id("tq", "type_qualifier")>>),
          Ptr("right", "declaration_specifiers")>>),
    parameter_declaration |-> NodeRec("declaration_specifiers",
        <<Id("type", "parameter_declaration_subtype"),
          Choice("decl", <<Ptr("decl", "declarator"),
                           Ptr("abstract", "abstract_declarator")>>)>>),
    parameter_list |-> NodeRec("parameter_declaration", <<Ptr("left", "parameter_list")>>),
    parameter_type_list |-> NodeRec("parameter_list", <<Basic("has_ellipsis", "bool")>>),
    identifier_list |-> NodeRec("identifier", <<Ptr("left", "identifier_list")>>),
    declaration |-> NodeRec("declaration_specifiers", <<Ptr("decl", "init_declarator_list")>>)]

DeclaratorRecs == [
    array_direct_inner_ |-> PrivRec(<<Ptr("left", "direct_declarator"),
        Ptr("index", "constant_expression")>>),
    function_direct_inner_ |-> PrivRec(<<Ptr("left", "direct_declarator"),
        Id("type", "function_declarator_subtype"),
        Choice("list", <<Ptr("param", "parameter_type_list"),
                         Ptr("ident", "identifier_list")>>)>>),
    direct_declarator |-> NodeRec("node", <<Id("type", "direct_declarator_type"),
        Choice("c", <<Ptr("id", "identifier"), Ptr("decl", "declarator"),
                      Priv("array", "array_direct_inner_"),
                      Priv("function", "function_direct_inner_")>>)>>),
    declarator |-> NodeRec("direct_declarator", <<Basic("has_pointer", "bool")>>),
    initializer |-> NodeRec("node", <<Id("type", "initializer_subtype"),
        Choice("me", <<Ptr("ae", "assignment_expression"),
                       Ptr("il", "initializer_list")>>)>>),
    initializer_list |-> NodeRec("initializer", <<Ptr("left", "initializer_list")>>),
    init_declarator |-> NodeRec("declarator", <<Ptr("init", "initializer")>>),
    init_declarator_list |-> NodeRec("init_declarator", <<Ptr("left", "init_declarator_list")>>),
    aggregate_declarator |-> NodeRec("node", <<Basic("has_decl", "bool"),
        Ptr("decl", "declarator"), Basic("has_bitfield", "bool"),
        Ptr("bf", "constant_expression")>>),
    aggregate_declarator_list |-> NodeRec("aggregate_declarator",
        <<Ptr("prev", "aggregate_declarator_list")>>)]

StatementRecs == [
    expression_statement |-> NodeRec("node", <<Ptr("expr", "expression")>>),
    selection_statement |-> NodeRec("node", <<Id("type", "selection_statement_subtype"),
        Ptr("cond", "expression"), Ptr("if_stat", "statement"),
        Ptr("else_stat", "statement")>>),
    labeled_statement |-> NodeRec("node", <<Id("type", "labeled_statement_subtype"),
        Ptr("right", "statement"),
        Choice("me", <<Ptr("id", "identifier"), Ptr("case_id", "constant_expression")>>)>>),
    declaration_list |-> NodeRec("declaration", <<Ptr("left", "declaration_list")>>),
    compound_statement |-> NodeRec("node", <<Ptr("dl", "declaration_list"),
        Ptr("st", "statement_list")>>),
    iteration_statement |-> NodeRec("node", <<Id("type", "iteration_statement_subtype"),
        Ptr("action", "statement"), Ptr("before_expr", "expression"),
        Ptr("while_expr", "expression"), Ptr("after_expr", "expression")>>),
    jump_statement |-> NodeRec("node", <<Id("type", "jump_statement_subtype"),
        Choice("me", <<Ptr("goto_id", "identifier"), Ptr("return_expr", "expression")>>)>>),
    statement |-> NodeRec("node", <<Id("type", "statement_type"),
        Choice("me", <<Ptr("ls", "labeled_statement"), Ptr("cs", "compound_statement"),
                       Ptr("es", "expression_statement"), Ptr("ss", "selection_statement"),
                       Ptr("is", "iteration_statement"), Ptr("js", "jump_statement")>>)>>),
    statement_list |-> NodeRec("node", <<Ptr("st", "statement"),
        Ptr("prev", "statement_list")>>)]

TopRecs == [
    external_declaration |-> NodeRec("node", <<Id("type", "external_declaration_subtype"),
        Choice("me", <<Ptr("func", "function_definition"), Ptr("decl", "declaration")>>)>>),
    translation_unit |-> NodeRec("node", <<Ptr("right", "external_declaration"),
        Ptr("left", "translation_unit")>>),
    function_definition |-> NodeRec("node", <<Ptr("decl_spec", "declaration_specifiers"),
        Ptr("decl", "declarator"), Ptr("decl_list", "declaration_list"),
        Ptr("stat", "compound_statement")>>)]

\* node_recs and priv_recs together: the names of the two kinds are disjoint.
Recs ==
    AssignmentRecs @@ TypeNameRecs @@ PrimaryRecs @@ PostfixRecs @@ BinaryRecs
    @@ AggregateRecs @@ DeclarationRecs @@ DeclaratorRecs @@ StatementRecs @@ TopRecs

=============================================================================
