------------------------------- MODULE Phrases -------------------------------
(***************************************************************************)
(* What the productions of parser.y make of declarations, as the proofs    *)
(* about the whole program need it: which symbol may lie on which, and of  *)
(* which words a symbol can be made.  Every condition is on a production,  *)
(* a shift or a kind of word by itself.                                    *)
(***************************************************************************)
EXTENDS Toycen

Semicolon == ";"
Comma == ","
Equals == "="
Star == "*"
Brackets == "[]"

Tokens == {s[2] : s \in Shifts}
Phrases == {p.lhs : p \in Productions}
Marks == Phrases \cup Tokens \cup {"bottom"}

\* What a declarator lies on that is not that of a function definition.
Specified == {"declaration_specifiers", Comma}

\* Symbols whose phrase ends with the `;' of a declaration.
Ended == {"declaration", "external_declaration", "translation_unit"}

\* Symbols whose node add_typenames may come by.
Declaring == {"direct_declarator", "declarator", "init_declarator", "init_declarator_list"}

\* Symbols in whose phrase no name is declared.
Quiet == (Phrases \ (Ended \cup Declaring \cup {"identifier"}))
         \cup (Tokens \ {"IDENTIFIER", Semicolon})

-----------------------------------------------------------------------------
Outermost == {"bottom", "translation_unit"}
Beginnings == {"TYPEDEF", "INT", "TYPEDEF_NAME", "storage_class_specifier", "type_specifier",
               "declaration_specifiers"}
Declarators == {Star, "pointer", "IDENTIFIER", "identifier", "direct_declarator", "declarator"}
Values == ((Phrases \cap Quiet) \cup {"STRING"}) \ (Beginnings \cup Declarators)

\* What may lie on what.
Beside ==
    (Outermost \X (Beginnings \cup Declarators \cup {"declaration", "external_declaration"}))
    \cup {<<"bottom", "translation_unit">>}
    \cup ({"storage_class_specifier", "type_specifier"} \X Beginnings)
    \cup ({"declaration_specifiers"} \X (Declarators \cup {"init_declarator",
                                                          "init_declarator_list", Semicolon}))
    \cup ({"init_declarator_list"} \X {Comma, Semicolon})
    \cup ({Comma} \X (Declarators \cup {"init_declarator"}))
    \cup ({Star, "pointer"} \X Declarators)
    \cup {<<"direct_declarator", Brackets>>, <<"declarator", Equals>>}
    \cup ({Equals} \X Values)

\* Symbols on which the parser reduces at once, if it reduces.
Immediate == {"IDENTIFIER", "STRING", Semicolon, "declaration_specifiers", "declaration",
              "external_declaration"}

\* With s on x there is one of the productions to reduce by, since x has to be on y.
Completes(x, s) ==
    \E p \in Productions :
        \/ p.rhs = <<s>> \/ p.rhs = <<x, s>>
        \/ \E y \in Phrases : /\ p.rhs = <<y, x, s>>
                              /\ \A z \in Marks :
                                     <<z, x>> \in Beside => z = y

\* With p's right side on x there is a longer one.
Exceeded(p, x) ==
    \E q \in Productions :
        \/ q.rhs = <<x>> \o p.rhs
        \/ \E y \in Phrases : /\ q.rhs = <<y, x>> \o p.rhs
                              /\ \A z \in Marks :
                                     <<z, x>> \in Beside => z = y

ASSUME ShapeAssumption ==
    /\ \A p \in Productions : p.rhs \in Seq(Phrases \cup Tokens)
    /\ Tokens \cap Phrases = {} /\ "bottom" \notin Tokens \cup Phrases
    /\ Shifts \subseteq Beside
    /\ \A t \in Tokens : <<"declarator", t>> \in Shifts => t = Equals
    /\ \A p \in Productions : Last(p.rhs) \in Immediate =>
          p.unless = {} /\ p.rhs # <<"declarator">>
    /\ \A x \in Marks : \A s \in Immediate :
          <<x, s>> \in Beside => \/ Completes(x, s)
                                 \/ s = "declaration_specifiers" /\ x \in Outermost
    /\ \A p \in Productions : \A x \in Marks :
          <<x, p.rhs[1]>> \in Beside =>
              \/ <<x, p.lhs>> \in Beside
              \/ p.lhs = "declaration" /\ x \notin Outermost
              \/ p.rhs[1] = "declarator" /\ x \notin Specified
              \/ Exceeded(p, x)

-----------------------------------------------------------------------------
\* The upgrade or the new node takes no name and nothing to the left.
TakesNone(p) == IdField \notin DOMAIN p.refs /\ LeftField \notin DOMAIN p.refs

\* A declarator that is a name,
Naming(p) ==
    /\ p.op = "NN" /\ p.rhs = <<"identifier">>
    /\ IdField \in DOMAIN p.refs /\ p.refs[IdField] = 1 /\ LeftField \notin DOMAIN p.refs

\* one that is not,
Nameless(p) ==
    /\ p.op = "NN" /\ TakesNone(p)
    /\ Brackets \in Tokens /\ \E i \in 1 .. Len(p.rhs) : p.rhs[i] = Brackets

\* what is made of one,
Passing(p) ==
    /\ p.op = "UN" /\ TakesNone(p) /\ p.rhs[p.arg] \in Declaring
    /\ \A i \in 1 .. Len(p.rhs) : i # p.arg => p.rhs[i] \in Quiet

\* and a list of them.
Listing(p) ==
    /\ p.op = "UN" /\ p.arg = 3 /\ DOMAIN p.refs = {LeftField} /\ p.refs[LeftField] = 1
    /\ IdField # LeftField
    /\ p.rhs = <<"init_declarator_list", Comma, "init_declarator">> /\ Comma \in Quiet

\* What declares a name, or takes one on.
DeclaringOK(p) == p.lhs \in Declaring => Naming(p) \/ Nameless(p) \/ Passing(p) \/ Listing(p)

\* The `;' ends a declaration, and declarations are what a source is made of.
ClosingOK(p) ==
    /\ p.lhs \notin Ended =>
          \A i \in 1 .. Len(p.rhs) : p.rhs[i] \notin Ended \cup {Semicolon}
    /\ p.lhs = "external_declaration" => p.rhs = <<"declaration">>
    /\ p.lhs = "translation_unit" =>
          p.rhs \in {<<"external_declaration">>,
                     <<"translation_unit", "external_declaration">>}

DeclarationOK(p) ==
    p.lhs = "declaration" =>
        /\ p.op = "UN" /\ p.arg = 1
        /\ p.rhs \in {<<"declaration_specifiers", "init_declarator_list", Semicolon>>,
                      <<"declaration_specifiers", Semicolon>>}

QuietOK(p) == p.lhs \in Quiet => \A i \in 1 .. Len(p.rhs) : p.rhs[i] \in Quiet

\* What the class of a declaration is taken from, and a name.
FirstsOK(p) ==
    /\ p.lhs = "identifier" => p.op = "NN" /\ p.rhs = <<"IDENTIFIER">>
    /\ p.lhs = "storage_class_specifier" => p.rhs = <<"TYPEDEF">>
    /\ p.lhs = "type_specifier" => Len(p.rhs) = 1 /\ p.rhs[1] \in Tokens \ {"TYPEDEF"}
    /\ p.lhs = "declaration_specifiers" =>
          p.op = "NN" /\ p.rhs[1] \in {"storage_class_specifier", "type_specifier"}

\* What the walk may not survive is made of words that say so: a string of its token, and
\* no name is a storage class.
CausesOK(p) ==
    /\ \A f \in DOMAIN p.refs : p.refs[f] = 0 => p.rhs = <<"STRING">> /\ "STRING" \in Tokens
    /\ p.lhs = "translation_unit" => p.op = "NN"

\* The words that the lexer may make of a source.
Reads == {[kind |-> k, text |-> t] :
             k \in {w.kind : w \in Words} \cup {"IDENTIFIER", "TYPEDEF_NAME", "EOF"},
             t \in Texts}

ASSUME PhraseAssumption ==
    /\ \A p \in Productions : /\ ClosingOK(p) /\ DeclarationOK(p) /\ QuietOK(p)
                              /\ FirstsOK(p) /\ DeclaringOK(p)
                              /\ CausesOK(p)
    /\ Ended \cup Declaring \cup {"identifier", "declaration_specifiers", "type_specifier"}
          \subseteq Types
    /\ "storage_class_specifier" \notin Tokens /\ {"TYPEDEF", "IDENTIFIER", Semicolon} \cap Phrases = {}
    /\ \A w \in Words : w.kind \notin {"IDENTIFIER", "TYPEDEF_NAME"}
    /\ \A w \in Words : w.kind = "NAME" => w.text # Typedef
    /\ None \notin Reads

-----------------------------------------------------------------------------
\* Words of which the tree keeps the text.
Speaking == {"IDENTIFIER", "STRING"}

\* Symbols in whose phrase there is no such word.
Mute == (Tokens \ Speaking) \cup {"pointer", "storage_class_specifier"}

\* The arguments that an action uses, and 0 for the string,
Used(p) == IF p.op = "value" THEN {}
           ELSE {p.refs[f] : f \in DOMAIN p.refs} \cup (IF p.op = "UN" THEN {p.arg} ELSE {})

\* the fields of the node that it makes, and the argument from which a field has its text.
Carried(p) == DOMAIN p.refs \cup {f \in Fields : p.op = "UN" /\ <<p.rhs[p.arg], f>> \in Owning}
Slot(p, f) == IF f \in DOMAIN p.refs THEN p.refs[f] ELSE p.arg

\* A text comes from the word itself, in an action of its own, or from all the arguments
\* that have one, in their order.
TellingOK(p) ==
    /\ p.lhs \in Mute => \A i \in 1 .. Len(p.rhs) : p.rhs[i] \in Mute
    /\ p.lhs = "identifier" => DOMAIN p.refs = {}
    /\ p.op = "UN" => p.rhs[p.arg] # "identifier"
    /\ \A f \in DOMAIN p.refs : p.refs[f] = 0 => DOMAIN p.refs = {f}
    /\ p.lhs # "identifier" /\ 0 \notin Used(p) =>
          \A i \in 1 .. Len(p.rhs) : i \in Used(p) \/ p.rhs[i] \in Mute
    /\ \A i, j \in 1 .. Len(FieldOrder) :
          i < j /\ FieldOrder[i] \in Carried(p) /\ FieldOrder[j] \in Carried(p) =>
              Slot(p, FieldOrder[i]) <= Slot(p, FieldOrder[j])

ASSUME TellingAssumption ==
    /\ \A p \in Productions : TellingOK(p)
    /\ FieldOrder \in Seq(Fields)
    /\ \A i, j \in 1 .. Len(FieldOrder) : FieldOrder[i] = FieldOrder[j] => i = j
    /\ Speaking \subseteq Tokens
    /\ \A w \in Words : w.kind \in Speaking => w.text # Typedef
=============================================================================
