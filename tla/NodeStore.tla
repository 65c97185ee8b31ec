------------------------------ MODULE NodeStore ------------------------------
(***************************************************************************)
(* src/parser_primitives.c and include/parser_primitives.h: the memory of  *)
(* the parser.  A reduction makes a node (NN) or turns one of its          *)
(* arguments into a node of a larger type (UN), which reallocates it and   *)
(* may move it.  The nodes of string constants are interned.               *)
(*                                                                         *)
(* Which productions there are is left open here: an action may put any of *)
(* the values it pops into any fields.  Nothing but the discipline of the  *)
(* actions keeps a pointer to a node that has moved out of the tree.       *)
(***************************************************************************)
EXTENDS Sequences, Integers

CONSTANTS
    Addr,       \* the addresses of the heap
    Schema,     \* the structures of ast.xi
    Place,      \* where the pointer fields are: the structure first
    Texts,      \* the texts of names and string constants
    NoText,     \* the text of a node that has none
    Unset,      \* the node_type of a node that nobody has set
    Free        \* the mark of memory that is not allocated

Null == 0

Types == DOMAIN Schema
Fields == DOMAIN Place

ASSUME StoreAssumption ==
    /\ Null \notin Addr
    /\ Unset \notin Types /\ Free \notin Types /\ Unset # Free
    /\ NoText \notin Texts

VARIABLES
    node,       \* what is at each address
    yyvs,       \* bison's value stack: an address, or Null for what has no node
    strings,    \* ps->constants.strings: the node of each text, or Null
    top,        \* the parser's result
    ps          \* get_parser_state(): "none", "ready", and "cleared" in the end

storeVars == <<node, yyvs, strings, top, ps>>

-----------------------------------------------------------------------------
\* The types a type is based on, itself included.
Layers[t \in Types] ==
    {t} \cup (IF Schema[t].base \in Types THEN Layers[Schema[t].base] ELSE {})

\* A translation unit is the base of nothing: it is never upgraded.
ASSUME TopAssumption ==
    /\ "translation_unit" \in Types
    /\ \A t \in Types : Layers[t] \subseteq Types
    /\ \A t \in Types : "translation_unit" \in Layers[t] => t = "translation_unit"

NoRefs == [f \in Fields |-> Null]
FreeNode == [type |-> Free, text |-> NoText, refs |-> NoRefs]
NoStrings == [s \in Texts |-> Null]

\* Argument i of the n that a reduction pops; what it pushes for them.
Arg(n, i) == yyvs[Len(yyvs) - n + i]
Push(n, v) == yyvs' = Append(SubSeq(yyvs, 1, Len(yyvs) - n), v)

-----------------------------------------------------------------------------
parser_setup ==
    /\ ps = "none"
    /\ ps' = "ready" /\ strings' = NoStrings /\ yyvs' = << >>
    /\ UNCHANGED <<node, top>>

\* memset: the tables are forgotten, and what they hold stays allocated.
parser_teardown ==
    /\ ps = "ready"
    /\ ps' = "cleared" /\ strings' = NoStrings
    /\ UNCHANGED <<node, yyvs, top>>

\* The semantic value of a token or of an enumeration is no node.
Value(n) ==
    /\ ps = "ready" /\ n <= Len(yyvs)
    /\ Push(n, Null)
    /\ UNCHANGED <<node, strings, top, ps>>

\* yyparse returns, and its stack with it.
Abandon ==
    /\ ps = "ready"
    /\ yyvs' = << >>
    /\ UNCHANGED <<node, strings, top, ps>>

\* _alloc_node: cleared memory, and the whole literal copied into it.
Allocated(T, text, refs) == [type |-> T, text |-> text, refs |-> refs]

\* Mistake: the whole literal is copied over the old node.
CopiedWhole(old, refs) == refs

\* _copy_node, from sizeof *Old on: the fields of the old node are kept.
Copied(old, refs) ==
    [f \in Fields |-> IF Place[f][1] \in Layers[node[old].type]
                      THEN node[old].refs[f] ELSE refs[f]]

\* NN(T, ...) for a production of n symbols, at the address calloc gives.
NN(a, T, text, n, refs) ==
    /\ ps = "ready" /\ n <= Len(yyvs)
    /\ node[a].type = Free
    /\ node' = [node EXCEPT ![a] = Allocated(T, text, refs)]
    /\ Push(n, a)
    /\ top' = IF T = "translation_unit" THEN a ELSE top
    /\ UNCHANGED <<strings, ps>>

\* Mistake: the value of the old node stays on the stack as well.
UNKeepsOld(a, T, n, i, refs) ==
    LET old == Arg(n, i)
    IN  /\ ps = "ready" /\ n <= Len(yyvs)
        /\ old # Null
        /\ a = old \/ node[a].type = Free
        /\ node' = [node EXCEPT
              ![old] = FreeNode,
              ![a] = [type |-> T, text |-> node[old].text,
                      refs |-> Copied(old, refs)]]
        /\ yyvs' = Append(SubSeq(yyvs, 1, Len(yyvs) - n), old)
        /\ UNCHANGED <<strings, top, ps>>

\* Mistake: the node keeps the type it had.
UNKeepsType(a, T, n, i, refs) ==
    LET old == Arg(n, i)
    IN  /\ ps = "ready" /\ n <= Len(yyvs)
        /\ old # Null
        /\ a = old \/ node[a].type = Free
        /\ node' = [node EXCEPT ![old] = FreeNode,
                               ![a] = [node[old] EXCEPT !.refs = refs]]
        /\ Push(n, a)
        /\ UNCHANGED <<strings, top, ps>>

\* UN(T, $i, ...): argument i becomes a node of a type based on its own, at the
\* address realloc gives.
UN(a, T, n, i, refs) ==
    LET old == Arg(n, i)
    IN  /\ ps = "ready" /\ n <= Len(yyvs)
        /\ old # Null
        /\ a = old \/ node[a].type = Free
        /\ node' = [node EXCEPT
              ![old] = FreeNode,
              ![a] = [type |-> T, text |-> node[old].text,
                      refs |-> Copied(old, refs)]]
        /\ Push(n, a)
        /\ UNCHANGED <<strings, top, ps>>

\* Mistake: the new node is not entered into the table.
intern_stringForgets(a, s) ==
    /\ ps = "ready" /\ strings[s] = Null
    /\ node[a].type = Free
    /\ node' = [node EXCEPT ![a] = [type |-> Unset, text |-> s, refs |-> NoRefs]]
    /\ UNCHANGED <<strings, yyvs, top, ps>>

\* intern_string, for a text that is not in the table: the node comes from malloc
\* and its node_type is not set.
intern_string(a, s) ==
    /\ ps = "ready" /\ strings[s] = Null
    /\ node[a].type = Free
    /\ node' = [node EXCEPT ![a] = [type |-> Unset, text |-> s, refs |-> NoRefs]]
    /\ strings' = [strings EXCEPT ![s] = a]
    /\ UNCHANGED <<yyvs, top, ps>>

InitStore ==
    /\ node = [a \in Addr |-> FreeNode]
    /\ yyvs = << >> /\ strings = NoStrings /\ top = Null /\ ps = "none"

\* The discipline of the actions: what they put into fields are arguments, none of
\* them twice, and interned strings; what they upgrade is of a type that the new
\* type is based on, and they do not use the old pointer besides.
Given(n, refs) ==
    /\ \A f \in Fields : refs[f] # Null =>
          \/ \E i \in 1 .. n : refs[f] = Arg(n, i)
          \/ \E s \in Texts : refs[f] = strings[s]
    /\ \A f, g \in Fields : refs[f] = refs[g] /\ refs[f] # Null => f = g

Upgradable(T, n, i, refs) ==
    /\ Arg(n, i) # Null => node[Arg(n, i)].type \in Layers[T] \ {T}
    /\ \A f \in Fields : refs[f] # Null => refs[f] # Arg(n, i)

NextStore ==
    \/ parser_setup \/ parser_teardown \/ Abandon
    \/ \E n \in Nat : Value(n)
    \/ \E a \in Addr, T \in Types, text \in Texts \cup {NoText}, n \in Nat :
          \E refs \in [Fields -> Addr \cup {Null}] :
              Given(n, refs) /\ NN(a, T, text, n, refs)
    \/ \E a \in Addr, T \in Types, n \in Nat : \E i \in 1 .. n :
          \E refs \in [Fields -> Addr \cup {Null}] :
              Given(n, refs) /\ Upgradable(T, n, i, refs) /\ UN(a, T, n, i, refs)
    \/ \E a \in Addr, s \in Texts : intern_string(a, s)

SpecStore == InitStore /\ [][NextStore]_storeVars

-----------------------------------------------------------------------------
StoreOK ==
    /\ node \in [Addr -> [type : Types \cup {Unset, Free}, text : Texts \cup {NoText},
                          refs : [Fields -> Addr \cup {Null}]]]
    /\ yyvs \in Seq(Addr \cup {Null})
    /\ strings \in [Texts -> Addr \cup {Null}]
    /\ top \in Addr \cup {Null}
    /\ ps \in {"none", "ready", "cleared"}

(***************************************************************************)
(* No pointer leads to memory that has been given back: on the parser's    *)
(* stack and in the fields of nodes there are only nodes that nobody has   *)
(* moved since, and the result of the parse is still a translation unit.   *)
(***************************************************************************)
NoDangling ==
    /\ \A i \in 1 .. Len(yyvs) : yyvs[i] # Null => node[yyvs[i]].type \in Types
    /\ \A a \in Addr : node[a].type # Free => \A f \in Fields :
          node[a].refs[f] # Null => node[node[a].refs[f]].type # Free
    /\ \A s \in Texts : strings[s] # Null => node[strings[s]].type # Free
    /\ top # Null => node[top].type = "translation_unit"

(***************************************************************************)
(* The tree is a tree: a node that is not a string is held once, by the    *)
(* parser's stack or by one field of one node.  So an upgrade cannot move  *)
(* a node that somebody else holds.                                        *)
(***************************************************************************)
OneOwner ==
    /\ \A i, j \in 1 .. Len(yyvs) : yyvs[i] = yyvs[j] /\ yyvs[i] # Null => i = j
    /\ \A a \in Addr : node[a].type # Free => \A f \in Fields :
          LET held == node[a].refs[f]
          IN  held # Null /\ node[held].type # Unset =>
                  /\ \A i \in 1 .. Len(yyvs) : yyvs[i] # held
                  /\ \A b \in Addr : node[b].type # Free =>
                        \A g \in Fields : node[b].refs[g] = held => a = b /\ f = g

\* Equal string constants are one object, which the table finds as long as the
\* parser's state is there.
OneStringOneObject ==
    /\ \A s \in Texts : strings[s] # Null =>
          node[strings[s]].type = Unset /\ node[strings[s]].text = s
    /\ \A a \in Addr : node[a].type = Unset /\ ps = "ready" =>
          strings[node[a].text] = a
    /\ \A a, b \in Addr : node[a].type = Unset /\ node[b].type = Unset
                             /\ node[a].text = node[b].text => a = b
=============================================================================
