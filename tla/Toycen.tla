-------------------------------- MODULE Toycen -------------------------------
(***************************************************************************)
(* The program: src/toycen.c, which sets lexer and parser up, parses, has  *)
(* the tree walked and tears everything down; the parser bison makes of    *)
(* parser/parser.y; and the lexer (lexer.l.post), which asks the parser's  *)
(* typedefs for the class of a word.                                       *)
(*                                                                         *)
(* The parser reads a word only when it cannot go on without one, and      *)
(* reduces by default: a wrong word is noticed when it cannot be shifted.  *)
(***************************************************************************)
EXTENDS NodeStore, SequencesExt

CONSTANTS
    Productions, Shifts,    \* parser.y, see module Grammar
    IdField, LeftField,     \* the fields the loop over typedef names reads
    FieldOrder,             \* Fields, in the order of the text that they hold
    Lines,                  \* of what a source is made: sequences of words, each of
                            \* which has a kind and a text
    MaxLines,               \* bound: the lines of a source
    Realloc,                \* what realloc does: "stays", "moves", or either
    MaxIndent,              \* the bound of assert(c->indent < 256), scaled to MaxLines
    Typedef, Other,         \* texts: an enumerator's, and that of other tokens
    None                    \* no look-ahead, no table

\* What bison and the types of the semantic values ensure of an action: it uses
\* each of its arguments once, and upgrades a structure to one based on it.
ProductionOK(p) ==
    LET n == Len(p.rhs)
    IN  /\ n \in Nat \ {0}
        /\ p.op \in {"NN", "UN", "value"}
        /\ p.op = "value" <=> p.lhs \notin Types
        /\ DOMAIN p.refs \subseteq Fields
        /\ \A f \in DOMAIN p.refs : p.refs[f] \in 0 .. n
        /\ \A f, g \in DOMAIN p.refs : p.refs[f] = p.refs[g] => f = g
        /\ p.op = "UN" => /\ p.arg \in 1 .. n
                          /\ p.rhs[p.arg] \in Layers[p.lhs] \ {p.lhs}
                          /\ \A f \in DOMAIN p.refs : p.refs[f] \notin {0, p.arg}

Words == UNION {ToSet(l) : l \in Lines}

ASSUME ParserAssumption ==
    /\ \A p \in Productions : ProductionOK(p)
    /\ {IdField, LeftField} \subseteq Fields /\ Fields = ToSet(FieldOrder)
    /\ {Typedef, Other} \subseteq Texts
    /\ Lines \subseteq Seq(Words) \ {<< >>}
    /\ \A w \in Words : w.text \in Texts
    /\ \A s \in Shifts : s[2] \notin Types
    /\ MaxIndent \in Nat

VARIABLES
    pc,         \* where main is, "parse" while yyparse runs
    syms,       \* the symbols of yyvs
    la,         \* the look-ahead token, or None
    yytext,     \* the text of the last word, where yylval.str points
    types_hash, \* the names of types, or None
    input,      \* the rest of the line that is being read
    lines,      \* how many lines have been begun
    source      \* history: the words read, each with its class

parserVars == <<syms, la, yytext, types_hash, input, lines, source>>
vars == <<storeVars, parserVars, pc>>

-----------------------------------------------------------------------------
(***************************************************************************)
(* The parser.                                                             *)
(***************************************************************************)
Under == IF syms = << >> THEN "bottom" ELSE Last(syms)

\* A declarator is that of a declaration, and not of a function definition without
\* specifiers.
AfterSpecifiers ==
    Len(syms) > 1 /\ syms[Len(syms) - 1] \in {"declaration_specifiers", ","}

\* Symbols that end the stack, in the order of a production.
Handle(p) ==
    /\ Last(p.rhs) = Under /\ Len(p.rhs) <= Len(syms)
    /\ p.rhs = SubSeq(syms, Len(syms) - Len(p.rhs) + 1, Len(syms))

\* The parser is in a state that reduces by p, and has the look-ahead it takes.
Ready(p) ==
    /\ Handle(p)
    /\ \A q \in Productions : Handle(q) => Len(q.rhs) <= Len(p.rhs)
    /\ p.rhs = <<"declarator">> => AfterSpecifiers
    /\ p.unless = {} \/ (la # None /\ la.kind \notin p.unless)

CanShift ==
    /\ <<Under, la.kind>> \in Shifts
    /\ la.kind = "=" => AfterSpecifiers

Accepts == la.kind = "EOF" /\ syms = <<"translation_unit">>

\* The free memory calloc and realloc take first.
Fresh == {a \in Addr : /\ node[a].type = Free
                       /\ \A b \in Addr : node[b].type = Free => a <= b}

\* The addresses my_realloc may return for a node.
Grown(old) == (IF "stays" \in Realloc THEN {old} ELSE {})
              \cup (IF "moves" \in Realloc THEN Fresh ELSE {})

\* Mistake: a name is not copied.
TextOfNothing(p) == IF p.rhs[1] = "storage_class_specifier" THEN Typedef ELSE NoText

\* strdup(yylval.str) for a name, SCS_TYPEDEF for the storage class.
TextOf(p) ==
    CASE p.lhs = "identifier" -> yytext
      [] p.rhs[1] = "storage_class_specifier" -> Typedef
      [] OTHER -> NoText

\* Mistake: every field is given the last argument.
RefsOfLast(p) ==
    [f \in Fields |-> IF f \in DOMAIN p.refs THEN Arg(Len(p.rhs), Len(p.rhs)) ELSE Null]

\* Mistake: the arguments are taken in the reverse order.
RefsOfReversed(p) ==
    [f \in Fields |->
        IF f \notin DOMAIN p.refs THEN Null
        ELSE IF p.refs[f] = 0 THEN strings[yytext]
        ELSE Arg(Len(p.rhs), Len(p.rhs) + 1 - p.refs[f])]

RefsOf(p) ==
    [f \in Fields |->
        IF f \notin DOMAIN p.refs THEN Null
        ELSE IF p.refs[f] = 0 THEN strings[yytext] ELSE Arg(Len(p.rhs), p.refs[f])]

NeedsString(p) == strings[yytext] = Null /\ \E f \in DOMAIN p.refs : p.refs[f] = 0

\* The init_declarators of a list: along `left' from the last one.
Heads[h \in Addr \cup {Null}] ==
    IF h = Null THEN {} ELSE {h} \cup Heads[node[h].refs[LeftField]]

\* Mistake: the class is read from $1, which may have moved.
TypedefReadsOld(p) ==
    /\ p.lhs = "declaration" /\ Len(p.rhs) = 3
    /\ node'[Arg(3, 1)].text = Typedef

\* Mistake: every declaration is taken for a typedef.
TypedefAlways(p) == p.lhs = "declaration" /\ Len(p.rhs) = 3

\* old->type == DS_HAS_STORAGE_CLASS && CHOICE_REF(&old->me, scs) == SCS_TYPEDEF: the
\* class is that of the first specifier, read after the upgrade.
IsTypedef(p) ==
    /\ p.lhs = "declaration" /\ Len(p.rhs) = 3
    /\ node'[Last(yyvs')].text = Typedef

\* add_typename for each declarator.  One that is not a plain name has something
\* else where its `id' is read, and its name is not a string.
add_typenames(p) ==
    LET heads == Heads[Arg(3, 2)]
        named == \A h \in heads : node[h].refs[IdField] # Null
    IN  IF IsTypedef(p)
        THEN /\ types_hash' = IF named
                 THEN types_hash \cup {node[node[h].refs[IdField]].text : h \in heads}
                 ELSE types_hash
             /\ pc' = IF named THEN pc ELSE "crashed"
        ELSE UNCHANGED <<types_hash, pc>>

\* The action of a production.
Act(p) ==
    LET n == Len(p.rhs)
    IN  \/ p.op = "value" /\ Value(n)
        \/ p.op = "NN" /\ \E a \in Fresh : NN(a, p.lhs, TextOf(p), n, RefsOf(p))
        \/ p.op = "UN" /\ \E a \in Grown(Arg(n, p.arg)) :
                              UN(a, p.lhs, n, p.arg, RefsOf(p))

Reduce(p) ==
    /\ pc = "parse" /\ Ready(p) /\ ~NeedsString(p)
    /\ Act(p)
    /\ syms' = Append(SubSeq(syms, 1, Len(syms) - Len(p.rhs)), p.lhs)
    /\ add_typenames(p)
    /\ UNCHANGED <<la, yytext, input, lines, source>>

\* An action's call of intern_string, when the string is new.
Intern(p) ==
    /\ pc = "parse" /\ Ready(p) /\ NeedsString(p)
    /\ \E a \in Fresh : intern_string(a, yytext)
    /\ UNCHANGED <<parserVars, pc>>

Shift ==
    /\ pc = "parse" /\ la # None /\ ~\E p \in Productions : Ready(p)
    /\ CanShift
    /\ Value(0)
    /\ syms' = Append(syms, la.kind)
    /\ la' = None
    /\ UNCHANGED <<yytext, types_hash, input, lines, source, pc>>

\* Mistake: a wrong word empties the stack, and is tried again.
ReturnRetries ==
    /\ pc = "parse" /\ la # None /\ ~\E p \in Productions : Ready(p)
    /\ Accepts \/ ~CanShift
    /\ Abandon
    /\ syms' = << >>
    /\ IF Accepts THEN la' = None /\ pc' = "parsed" ELSE UNCHANGED <<la, pc>>
    /\ UNCHANGED <<yytext, types_hash, input, lines, source>>

\* yyparse returns: the source is accepted, or yyerror has been called for a word that
\* fits nowhere.  main does not care which.
Return ==
    /\ pc = "parse" /\ la # None /\ ~\E p \in Productions : Ready(p)
    /\ Accepts \/ ~CanShift
    /\ Abandon
    /\ syms' = << >> /\ la' = None /\ pc' = "parsed"
    /\ UNCHANGED <<yytext, types_hash, input, lines, source>>

-----------------------------------------------------------------------------
(***************************************************************************)
(* The lexer.                                                              *)
(***************************************************************************)
EOF == [kind |-> "EOF", text |-> Other]

check_identifier(w) ==
    IF w.kind # "NAME" THEN w.kind
    ELSE IF w.text \in types_hash THEN "TYPEDEF_NAME" ELSE "IDENTIFIER"

\* Bound: no function definitions, whose parameters may be declared after a declarator.
InSubset(w) ==
    source # << >> /\ Last(source).kind \in {"IDENTIFIER", "[]"} =>
        check_identifier(w) \notin {"TYPEDEF", "INT", "TYPEDEF_NAME"}

\* What there is to read: the line goes on, or another begins, or the source ends.
Rests == IF input # << >> THEN {input}
         ELSE {<<EOF>>} \cup (IF lines < MaxLines THEN Lines ELSE {})

\* yylex, which the parser calls when its state depends on the next token.
Lex ==
    /\ pc = "parse" /\ la = None /\ ~\E p \in Productions : Ready(p)
    /\ \E rest \in Rests :
          /\ InSubset(Head(rest))
          /\ la' = [kind |-> check_identifier(Head(rest)), text |-> Head(rest).text]
          /\ yytext' = Head(rest).text
          /\ input' = Tail(rest)
          /\ lines' = IF input = << >> THEN lines + 1 ELSE lines
    /\ source' = Append(source, la')
    /\ UNCHANGED <<storeVars, syms, types_hash, pc>>

-----------------------------------------------------------------------------
(***************************************************************************)
(* The driver.                                                             *)
(***************************************************************************)
\* get_parsed_ast, up to the call of yyparse: lexer_setup, parser_setup.
Setup ==
    /\ pc = "start"
    /\ types_hash' = IF types_hash = None THEN {} ELSE types_hash
    /\ parser_setup
    /\ pc' = "parse"
    /\ UNCHANGED <<syms, la, yytext, input, lines, source>>

\* The nodes of the tree below a node.
Below[a \in Addr \cup {Null}] ==
    IF a = Null THEN {} ELSE {a} \cup UNION {Below[node[a].refs[f]] : f \in Fields}

\* A node that a walk may not survive, however little there is of the tree: it has a type that
\* nobody has set, or an enumerator in a CHOICE, which the formatter of the callbacks that
\* print takes for an address (module Formatters).
Fatal(a) == node[a].type = Unset \/ node[a].text = Typedef

\* How many things a walk opens from a structure of type t on until it is at field f: the
\* structures down to the one with the field, and the CHOICE and the PRIV the field is in.
Around(t, f) ==
    Cardinality({b \in Layers[t] : Place[f][1] \in Layers[b]})
    + (IF Place[f][2] = 0 THEN 0 ELSE 1) + (IF Len(Place[f]) = 3 THEN 0 ELSE 1)

\* assert(c->indent < 256) fails in a callback at a node, or below it, when the walk comes to
\* the node with n things open: each adds four.
Overflows[a \in Addr \cup {Null}, n \in Nat] ==
    /\ a # Null /\ node[a].type \in Types
    /\ \/ 4 * (n + Cardinality(Layers[node[a].type])) >= MaxIndent
       \/ \E f \in Fields : /\ node[a].refs[f] # Null
                            /\ Overflows[node[a].refs[f], n + Around(node[a].type, f)]

\* Mistake: the indentation is not bounded.
DeepNever == FALSE

\* The tree is nested too deeply to be printed.
Deep == Overflows[top, 0]

\* What becomes of a walk with the callback of ast-walk-c.c or ast-walk-demo.c: an assertion
\* ends it, unless a fatal node has done so before.
Printing == {IF Deep THEN "aborted" ELSE "walked"}
            \cup (IF \E a \in Below[top] : Fatal(a) THEN {"crashed"} ELSE {})

\* main_walk_op, in the programs that have one in C: ast_walk, which reads the type of
\* top and of every node below it, and its callback.  A NULL top ends the program.  The
\* callbacks of ast-walk-test.c and ast-walk-graphviz.c get past no tree: the first aborts at
\* an ID (lines 38-40), which top's node_type is, the second copies a NULL name (line 110)
\* at the BETWEEN that follows.
Walk ==
    /\ pc = "parsed"
    /\ pc' \in IF top = Null THEN {"crashed"} ELSE Printing \cup {"stopped"}
    /\ UNCHANGED <<storeVars, parserVars>>

\* toycen itself has no main_walk_op.
NoWalk == pc = "parsed" /\ pc' = "walked" /\ UNCHANGED <<storeVars, parserVars>>

\* teardown_parsed_ast: parser_teardown, lexer_teardown.
Teardown ==
    /\ pc = "walked"
    /\ parser_teardown
    /\ types_hash' = None
    /\ pc' = "done"
    /\ UNCHANGED <<syms, la, yytext, input, lines, source>>

-----------------------------------------------------------------------------
Init ==
    /\ InitStore
    /\ pc = "start" /\ syms = << >> /\ la = None /\ yytext = Other
    /\ types_hash = None
    /\ input = << >> /\ lines = 0 /\ source = << >>

Next ==
    \/ Setup \/ Lex \/ Shift \/ Return \/ NoWalk \/ Walk \/ Teardown
    \/ \E p \in Productions : Reduce(p) \/ Intern(p)

\* One thread, and nothing waits: the program goes on.
Spec == Init /\ [][Next]_vars /\ WF_vars(Next)

-----------------------------------------------------------------------------
TypeOK ==
    /\ StoreOK
    /\ pc \in {"start", "parse", "parsed", "walked", "done", "crashed", "aborted",
              "stopped"}
    /\ Len(syms) = Len(yyvs)
    /\ la = None \/ la.text \in Texts
    /\ yytext \in Texts
    /\ types_hash = None \/ types_hash \subseteq Texts

(***************************************************************************)
(* Every symbol of the parser's stack has the value its %type says: the    *)
(* macros return void *, and UN takes the size of the old structure from   *)
(* that type, so the compiler checks none of it.                           *)
(***************************************************************************)
ValuesTyped ==
    \A k \in 1 .. Len(syms) :
        IF syms[k] \in Types THEN yyvs[k] # Null /\ node[yyvs[k]].type = syms[k]
                             ELSE yyvs[k] = Null

Named(items, name) == items[SelectInSeq(items, LAMBDA it : it.name = name)]

\* What the walk takes a field for: it follows the index of a CHOICE.
Taken(f) ==
    LET place  == Place[f]
        items  == Schema[place[1]].items
        choice == items[SelectInSeq(items, LAMBDA it : it.meta = "CHOICE")]
        outer  == IF place[2] = 0 THEN Named(items, place[3]) ELSE choice.members[place[2]]
    IN  IF Len(place) = 3 THEN outer ELSE Named(Schema[outer.type].items, place[4])

\* Which structures have a field, and to which the walk goes along it.
Owning == {own \in Types \X Fields : Place[own[2]][1] \in Layers[own[1]]}
Leading == {lead \in Fields \X Types :
               LET f == lead[1]
               IN  /\ Taken(f).meta = "NODE" /\ Taken(f).name = Last(Place[f])
                   /\ Taken(f).type \in Layers[lead[2]]}

\* What an action puts into a field belongs there: the structure made has the field, and
\* the walk comes along it to a node of the argument's type.
Fitting(p) ==
    \A f \in DOMAIN p.refs :
        /\ <<p.lhs, f>> \in Owning
        /\ <<f, IF p.refs[f] = 0 THEN "string" ELSE p.rhs[p.refs[f]]>> \in Leading

ASSUME FittingAssumption ==
    /\ \A p \in Productions : Fitting(p)
    /\ \A t \in Types : \A b \in Layers[t] : Layers[b] \subseteq Layers[t]

\* What the loop over typedef names finds as an `id' is an identifier, which only `NN'
\* makes, with a name.
ASSUME NamingAssumption ==
    \A p \in Productions : <<IdField, p.lhs>> \in Leading =>
        p.op = "NN" /\ p.lhs = "identifier"

(***************************************************************************)
(* What the walk relies on (src/ast/walk/ast-walk.c:46-50, 77): a pointer  *)
(* it comes to is one of ast.xi, in the structure or in what that is based *)
(* on, and leads to a node of the type ast.xi gives, whatever index the    *)
(* action has stored.                                                      *)
(***************************************************************************)
FitsSchema ==
    \A a \in Addr : node[a].type # Free => \A f \in Fields : node[a].refs[f] # Null =>
        LET held == node[node[a].refs[f]].type
        IN  /\ <<node[a].type, f>> \in Owning
            /\ <<f, IF held = Unset THEN "string" ELSE held>> \in Leading

\* The first word of the declaration that word k is in.
Begins(k) == k = 1 \/ source[k - 1].kind = ";"
FirstOf(k) == CHOOSE i \in 1 .. k : Begins(i) /\ \A j \in i + 1 .. k : ~Begins(j)

\* The words before word n that a `;' has closed since.
Closed(n) == {k \in 1 .. n - 1 : \E j \in k .. n - 1 : source[j].kind = ";"}

\* The names declared by closed declarations that begin with `typedef'.
TypedefsBefore(n) ==
    {source[k].text : k \in {k \in Closed(n) : /\ source[k].kind = "IDENTIFIER"
                                               /\ source[FirstOf(k)].kind = "TYPEDEF"}}

(***************************************************************************)
(* A word is a type name iff a typedef for it has been closed before it,   *)
(* although the lexer classifies a word when it reads it and the parser    *)
(* registers a name when it reduces: no word is read too early.            *)
(***************************************************************************)
ClassesAsDeclared ==
    \A n \in 1 .. Len(source) : source[n].kind \in {"IDENTIFIER", "TYPEDEF_NAME"} =>
        (source[n].kind = "TYPEDEF_NAME" <=> source[n].text \in TypedefsBefore(n))

\* The names and strings that a tree holds, in order.
Spelled[a \in Addr \cup {Null}] ==
    IF a = Null THEN << >>
    ELSE (IF node[a].text \in {NoText, Typedef} THEN << >> ELSE <<node[a].text>>)
         \o FlattenSeq([i \in DOMAIN FieldOrder |-> Spelled[node[a].refs[FieldOrder[i]]]])

\* A node somebody has: the parser's stack or another node.
Held(a) ==
    \/ \E k \in DOMAIN yyvs : yyvs[k] = a
    \/ \E b \in Addr : node[b].type # Free /\ \E f \in Fields : node[b].refs[f] = a

\* An action uses each argument that is a node, and the field it goes into is not one
\* that an upgrade takes from the old node.
Keeps(p) ==
    /\ \A i \in 1 .. Len(p.rhs) : p.rhs[i] \in Types \ {"pointer"} =>
          \/ p.op = "UN" /\ p.arg = i
          \/ p.op # "value" /\ \E f \in DOMAIN p.refs : p.refs[f] = i
    /\ p.op = "UN" => \A f \in DOMAIN p.refs : Place[f][1] \notin Layers[p.rhs[p.arg]]

ASSUME KeepingAssumption == \A p \in Productions : Keeps(p)

(***************************************************************************)
(* Every node the actions have made, and not given back in an upgrade, is  *)
(* on the stack, in a field or interned: no action drops an argument, nor  *)
(* a field of what it upgrades.  The exception is a declarator's pointer   *)
(* (parser.y:579), of which the tree keeps only that it was there.         *)
(***************************************************************************)
OnlyPointersLost ==
    pc = "parse" => \A a \in Addr :
        node[a].type \in {Free, Unset, "pointer"} \/ Held(a)

\* What has been read up to the last `;' that was accepted: the look-ahead on which
\* the parse ended is the last word.
Accepted == Closed(Len(source))

\* The names and strings among the first k words.
Spoken[k \in 0 .. Len(source)] ==
    IF k = 0 THEN << >>
    ELSE IF source[k].kind \in {"IDENTIFIER", "STRING"}
         THEN Append(Spoken[k - 1], source[k].text)
         ELSE Spoken[k - 1]

(***************************************************************************)
(* After the parse, also one that has failed, the tree holds the names and *)
(* strings of the source's complete declarations, in order: nothing is     *)
(* lost or taken from a word read ahead.                                   *)
(***************************************************************************)
TreeIsSource == pc = "parsed" => Spelled[top] = Spoken[Max({0} \cup Accepted)]

(***************************************************************************)
(* The parser follows a bad pointer only where a typedef declares an       *)
(* array, and a walk that prints only if there is no complete declaration  *)
(* to walk, or one that has a string or a storage class in it.  Not meant  *)
(* are the assertions of the callbacks that print ("aborted", see          *)
(* LongNotPrinted) and the callbacks that get past no tree ("stopped").    *)
(***************************************************************************)
CrashCauses ==
    pc = "crashed" =>
        IF syms = << >>
        THEN Accepted = {} \/ \E k \in Accepted : source[k].kind \in {"STRING", "TYPEDEF"}
        ELSE \E k \in Closed(Len(source) + 1) :
                source[k].kind = "[]" /\ source[FirstOf(k)].kind = "TYPEDEF"

(***************************************************************************)
(* A source of n complete declarations is printed only if n + 7 things can *)
(* be open at a time, however plain it is: a declaration alone opens eight *)
(* and each unit is inside all later ones, while ast-walk-c.c:75 and       *)
(* ast-walk-demo.c:68 assert that the indentation, four for each, is less  *)
(* than 256.  No file of 57 declarations gets printed.                     *)
(***************************************************************************)
LongNotPrinted ==
    [][Walk /\ pc' = "walked" =>
          4 * (Cardinality({k \in Accepted : source[k].kind = ";"}) + 7) < MaxIndent]_vars

\* include/ast/ast-walk.h:40 says that a callback gets `the type of the node': every
\* node of the tree that is walked has one.
NodesTyped ==
    pc = "parsed" /\ top # Null => \A a \in Below[top] : node[a].type \in Types

\* The program ends, whatever the source.
Terminates == <>(pc \in {"done", "crashed", "aborted", "stopped"})
=============================================================================
