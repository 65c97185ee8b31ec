# Verification of toycen

toycen is a C front end: a flex lexer and a bison grammar build a syntax tree,
and a generic walker driven by generated tables hands every part of the tree to a
callback that prints it. This directory holds TLA+ models of the program's core,
TLC configurations that check them on small instances, and theorems proved with
TLAPS for every instance. `src/...` below is a path in the repository.

## 1. The system

| Component | Code | State | Operations |
|---|---|---|---|
| Hash table | `src/util/hash_table.c` | size, `full`, array of buckets; a bucket is a HEAD cell and a chain of NODE cells | create, get, put (with resize), delete, destroy |
| AST schema and tables | `xi/ast.xi`, expanded through `housekeeping/*.h` into `src/ast/ast-ids.c` | none (constant tables) | looked up by the walker |
| AST walker | `src/ast/walk/ast-walk.c` | the C call stack, `cookie->stack` of field names, inherited flags | `ast_walk`, `recurse_priv_or_node`, `recurse_any`; `get_name`, `get_xattrs`, `get_childcnt` for callbacks |
| C printer | `src/ast/walk/ast-walk-c.c` | `indent` | one callback |
| Other callbacks | `ast-walk-demo.c`, `ast-walk-test.c`, `ast-walk-graphviz.c`, `ast-walk-lua_graphviz.c` | indentation (demo); three lists (graphviz) | one callback each |
| Formatters | `src/ast/ast-formatters.c` | dispatch tables; a buffer of the caller | `fmt_call` |
| Parser | `parser/parser.y` | bison's state and value stacks, the look-ahead, `top` | a reduction per production |
| Parser primitives | `src/parser_primitives.c`, `.h` | heap nodes, table of interned strings | NN, UN (a node upgraded by realloc), CHOICE, `intern_string`, setup, teardown |
| Lexer | `lexer/lexer.l.*` | typedef table, `yytext`, line and column, comment loop | token rules, `check_identifier`, `add_typename`, setup, teardown |
| Driver | `src/toycen.c`, `src/wrap.c` | the input stream, `top` | set up, parse, walk, tear down |
| Preprocessor | `src/preprocessor/tpp.c`, `lexer/pp_lexer.l.*` | macro table | define, undef |
| Lua bindings, vendored code | `lua/`, `3rdparty/` | | |

How they meet. `toycen.c` sets lexer and parser up, calls the parser, which calls the
lexer back for each token, and passes the tree to `ast_walk` with one callback.
The parser registers a typedef's name in the lexer's table when it reduces the
declaration, and copies a name's text out of the lexer's buffer when it reduces the
identifier; the lexer may have read on by then. The lexer's typedef names and the
interned strings are clients of the hash table. The walker calls back around each
part of the tree, and the callback reads the walker's name stack through its cookie.
There are no threads and nothing is persistent. What is hard here is mutual recursion
over structures of several kinds, loops that read one array while they fill another,
nodes that move while the tree is built, memory that is read before it is written,
state kept in step by hand between two components, and results nobody looks at.

What makes each component correct:

- *Hash table*: it is a dictionary through every sequence of calls and resizes;
  `full` is the number of entries, on which the resize loop relies; put returns;
  each cell has one owner.
- *Walker*: every part of the tree is visited once, in order, with its first
  callback before and its last one after its parts; the name and the flags of a
  callback are those of the thing handed over; the walk ends.
- *Callbacks and formatters*: indentation and braces follow the nesting; a text that
  fits its buffer is printed whole and nothing is written beyond it.
- *Parser and primitives*: no pointer leads to a node that has moved; a node has one
  owner; one string is one object; the index of each choice names the member set;
  the tree holds what the source says.
- *Lexer*: a word is a type name iff a typedef for it has been closed before it.
- *Driver*: the program ends for every source, and if it crashes, for a known reason.

`PROJECT.json` lists the hazards, each at its line, with the properties aimed at it.

## 2. Modules

| Module | Models | Notes |
|---|---|---|
| `Dictionary` | what `include/util/hash_table.h` promises | abstract specification |
| `HashTable` | `hash_table.c` at the level of its chains | put is cut at every iteration of its two loops |
| `HashHeap` | `hash_table.c` at the level of cells and `next` pointers, with malloc | no resize |
| `MCHashTable`, `MCHashHeap` | instances | |
| `AstSchema` | the 77 structures of `xi/ast.xi` | constants |
| `Visitor` | what `include/ast/ast-walk.h` promises | abstract specification |
| `AstWalk` | `ast-walk.c` | parameterised by the schema |
| `MCAstWalk` | instances over `AstSchema` | |
| `AstWalkC`, `AstWalkDemo`, `Formatters` | `ast-walk-c.c`, `ast-walk-demo.c`, `ast-formatters.c` | what each does at a callback |
| `Printers`, `MCPrinters` | the walk with these callbacks, and instances | composition |
| `NodeStore` | `parser_primitives.c` and `.h`, for any parser | the parser's memory |
| `Grammar` | the productions and actions of `parser.y` that are modelled | constants |
| `Toycen`, `MCToycen` | `toycen.c`, the parser, the lexer, over `NodeStore`; instances over `Grammar` and `AstSchema` | composition |
| `Phrases` | what the productions make of declarations | conditions for `DeclarationProofs`, each on a production, a shift or a kind of word; run `compile` evaluates them on `Grammar` |
| `InductionTheorems`, `HashTableProofs`, `HashHeapProofs`, `AstWalkProofs`, `VisitorProofs`, `NodeStoreProofs`, `ToycenProofs`, `DeclarationProofs` | theorems, section 4 | |

**HashTable.** `size`, `full`, `bkts` are the fields of the C structure; a chain is
the sequence of the NODE cells behind a HEAD. `pc`, `arg`, `newsize` and
`newBkts`, `index`, `here`, `moved` are the locals of `hash_table_put` and
`hash_table_resize`. `PutCall` is the code up to the growth loop (including the
removal of an old entry), `GrowStep`/`GrowSkip`/`ResizeStart` that loop, `MoveNode`
and `NextBucket` one iteration of the resize loop, `ResizeFinish` the swap of the
arrays and `PutAppend` the final `bucket_put`. All other operations are one step.
Sizes are computed modulo `UIntRange`.

`ImplementsDictionary`, here and in `HashHeap`, says two things: the variables behave as
`Dictionary` allows, and each call does what the operation of its name does with the same
arguments (`EachCall`). The second is needed because `Dictionary` does not record
its arguments, so that a put of the wrong value would pass for another put.

**HashHeap.** `bucket_top` sets the type of the HEAD cell it allocates and not its
`next`. The model has the memory: `mem` is what every cell holds, `free` the freed
cells (glibc hands out the last one first), `fresh` the first cell never used
(zeroed by the system). `Zeroing` is a build whose allocator clears what it gets
back. Assumed of the allocator: cells are recycled among themselves. An array of
four or five bucket pointers has the size class of a cell, and a resize leaks the
old cells and frees the old array; the memory of resizing is therefore left out
rather than modelled half.

**AstWalk.** A frame of `stack` is an activation of `recurse_priv_or_node` or of the
CHOICE case of `recurse_any`; `at` is the point it has reached, `i` the item, `idx`
the choice. `names` is `cookie->stack`. An action runs to the next callback, call or
return, and `cb` is the callback made, with everything its arguments tell: occasion,
flags, meta type, type, node, the name `get_name` would give, and `deref`, the number
of pointers between `data` and the thing. The tree is not a constant: a pointer or a
choice is read once, so its value is chosen when it is read, and a run covers every
tree of up to `Budget` nodes over `Types` and `Followed`. A pointer leads to a node of
the field's type or of a type based on it, with a valid `node_type`.

**Visitor.** Keeps only which things are open and which slot of each comes next. A
step begins a thing in the expected slot, ends the innermost one when its slots are
exhausted, visits a leaf, or passes a slot that may be empty. `AstWalk`'s refinement
mapping is `OpenThings`.

**Printers.** A program is linked with one callback. Both ask for the same occasions
and the walk ignores what they return, so one walk is watched by both: `NextP` conjoins
a step of the walk with `walk_cb` of `AstWalkC`, `demo_cb` of `AstWalkDemo` and the
`fmt_call` both make for a value. `indent` and `margin` are their `c->indent`; `braces`
is what the C printer has opened and not closed; `aborted` and `halted` are their failed
assertions. `fmt` is the last `fmt_call`: the length of the text, the size that came
back, the bytes of the buffer written and the text now in it. `crashed` is the
formatter following an enumerator as an address (section 3, `walk_ids`).

**NodeStore.** `node` is what is at each address: a structure's type, its text (the
`strdup`ed name, the string, or the enumerator `SCS_TYPEDEF`, which is all the
properties need of data that is no pointer) and its pointer fields `refs`. `Place` says where in
a structure a field is: in a base, behind which index of its CHOICE, in a PRIV. `yyvs` is bison's value
stack, `strings` the table of constants, `ps` the parser's state. `NN` is the macro with
`_alloc_node` and `_copy_node`; `UN` the one with `my_realloc`: the old address is
given back, the new one may be the same or not, the fields of the old structure stay
and those of the new part are written. `intern_string` is its part for a new text.
Nothing here knows the grammar: an action may put any of its arguments anywhere, and
`Given` and `Upgradable` are the discipline that is needed.

**Grammar.** A production is data: what it makes, the symbols it pops, whether its action
is NN, UN or no node, which argument goes into which field, and the look-ahead on which
bison shifts instead. The productions are those of declarations: specifiers (`int`,
`typedef`, type names), declarators with pointers and arrays, lists, initialisers
with string constants through the whole chain of expressions, and the units above.
The numbers in `Places` are those in the CHOICE macros.

**Toycen.** `syms` are the symbols that stand for bison's states, in step with `yyvs`;
`la` the look-ahead; `yytext` the text where `yylval.str` points; `types_hash` the lexer's
table; `input` and `lines` the source still unread; `source` a history of what was read.
`pc` is where `main` is. `Setup` is `get_parsed_ast` up to `yyparse`; `Reduce(p)` is a
production's whole action, with the loop over typedef names of `declaration`
(`add_typenames`); `Intern(p)` is the call of `intern_string` in it when the text is new;
`Shift` and `Return` (accepted, or `yyerror`) are bison's; `Lex` is `yylex` with
`check_identifier`, called only when the state needs a look-ahead, as bison's default
reductions do; `Walk` is `main_walk_op`, whichever of the walkers written in C is linked, and `NoWalk` a program
without one; `Teardown`
is `teardown_parsed_ast`. bison has no state for "a viable prefix" in the
model: the symbols on the stack tell which production is complete, and `Shifts` which
token may follow.

What a walk comes to is decided in one step, from the tree. There are three ways for it to end the
program. A program that prints (`Printing`: the C printer and the demo) may follow a bad pointer
(`crashed`): a NULL `top`, or a node that is `Fatal`, a string or a storage class. It fails its
assertion (`aborted`) when too many things are open at a time: both callbacks assert
`indent < 256`, and indent by four for each; `Overflows` follows the nesting through bases, CHOICEs and PRIVs
(`Around`). The test callback aborts at the first ID (`ast-walk-test.c:38-40`) and the one for graphviz
copies a NULL name at its first BETWEEN (`ast-walk-graphviz.c:110`); every tree has an ID, the
`node_type` of `top`, and a BETWEEN behind it, so these two programs end in state `stopped`
whatever the source.

## 3. Runs

| Run | Instance | Checks |
|---|---|---|
| `table` | 4 keys, 2 values, sizes 0 (default, here 3), 1, 2, 4; 23 049 states | types, placement, uniqueness, `full`, room, `ResizeCopies`, `PutInProgress`, refinement of `Dictionary`, `PutReturns` |
| `table_null` | NULL as a value | violation of `PutThenGet` |
| `heap` | 3 keys, 5 buckets, no delete; 667 states | `OwnChains`, `CellsAccounted`, refinement of `Dictionary` |
| `heap_zeroing` | with delete, two tables in turn; 11 372 states | the same |
| `heap_delete` | with delete, C allocator | violation of `OwnChains` |
| `walk` | a node of any of the 67 node types, up to 2 more below; 31 213 states | names, addresses, flags, refinement of `Visitor`, `Returns` |
| `walk_is_base` | same | violation of `BaseOfParent` |
| `walk_ids` | same | violation of `IdReadable` |
| `print` | declarations of up to 8 nodes, texts of 5, 126, 127 and 128 bytes for a buffer of 128; 50 180 states | `IndentIsDepth`, `MarginIsDepth`, `TextWhole` |
| `print_long` | a chain of 65 units | violation of `NeverAborts` |
| `compile` | sources of up to 3 lines of 12 kinds, 64 addresses, realloc moves; a printers' limit of 40; 19 635 states | `NoDangling`, `OneOwner`, `OneStringOneObject`, `ValuesTyped`, `FitsSchema`, `OnlyPointersLost`, `ClassesAsDeclared`, `TreeIsSource`, `CrashCauses`, `LongNotPrinted`, `Terminates` |
| `compile_strings` | sources of one line | violation of `NodesTyped` |

Why the bounds are enough.

- *Tables*: the hash values make every pair of keys collide at one size the table goes
  through and part at another (1, 3 and 7; 2 and 5; 4 and 9), so chains of several nodes
  are split and joined; four keys take a table created with 1 through more than one
  resize, and a table may be emptied and grown again. `UIntRange` is 256, far above the
  sizes reached.
- *Heap*: two keys share a bucket; seven cells are two HEADs, three nodes and room for
  recycling; `hash_table_put` is stopped short of a resize, and `HeapLeft` stops a put
  when the memory is used up.
- *Walk*: the one node already covers all items, choices and private structures of its
  type and of its bases; two more nodes give nodes held by a field and by a choice inside
  a base. `Followed` limits which fields hold a node, and a node of any type fits there
  that the field's type allows.
- *Printers*: eight nodes give empty and full choices, a private structure, bases in
  bases and all nestings of them; the text lengths lie on both sides of the buffer's end.
- *Compile*: the twelve lines hold typedefs and their uses, two names declared at once, a
  typedef in second place, arrays, two pointers, equal strings, and lines that are
  wrong or stop short; three lines are enough for a name to be declared, used and
  declared again, and for a failed line to follow complete ones. Every upgrade
  moves its node (`Realloc = {"moves"}`), which is the hard case: a node that stays leaves
  all pointers good. 64 addresses are more than three lines need; were the memory
  exhausted, an action could not be taken and `Terminates` would fail. `InSubset` keeps the
  source free of function definitions and old-style parameters, which the productions
  left out would take.
  `MaxIndent` is 40 where the code has 256: a plain declaration alone opens eight things and each
  unit more adds one, so one and two of them can be printed and three cannot, and the boundary lies
  within the sources of the run. With 256 it lies between 56 and 57 declarations; `print_long`
  reaches the code's own number.

`CHECK_DEADLOCK FALSE` stands where the system stops: a walk that has returned, an
aborted or crashed printer, a program that has ended, and a heap whose bounded memory
or tables are used up.

Fairness. The program is one thread and none of its calls waits for anything, so an
operation that has begun goes on: `WF_vars(PutStep)` for the loops of a put, with no
assumption that a client ever calls; `WF_vars(Next)` for the walk, which is itself
one call; `WF_vars(Next)` for the whole program. The end of the source comes after at most
`MaxLines` lines, which is the assumption that a file is finite. Under these,
`PutReturns`, `Returns` and `Terminates` say that the loops, the recursion and the
parser end.

### What the violations show

- `table_null`. `hash_table_put` (`hash_table.c:180`) takes the entry out only if a
  lookup gives a value other than NULL. An entry with NULL is not replaced: the
  new node goes behind it and is never found. `t/test_hash_table.c:14` has such a pair
  and 49-50 checks a lookup after each put, but never puts the key again.
- `heap_delete`. A recycled HEAD cell (`hash_table.c:51`) keeps the `next` of the freed
  node it was. It takes a delete and then a put into an unused bucket; then two
  buckets share nodes. The lexer and the interner never delete; `tpp.c` would.
- `walk_is_base`. `AST_WALK_IS_BASE` (`ast-walk.c:160`) is inherited by all items of
  the base; `ast-walk.h:31` says it means that the node is the base.
- `walk_ids`. An ID in a CHOICE reaches the callback one pointer nearer than an ID that
  is an item (`ast-walk.c:79`), and the formatter's `**(int**)data` and its assertion
  (`ast-formatters.c:70-72`) assume the latter: it takes the enumerator for an address.
- `print_long`. Each declaration of a file indents by four (`translation_unit.left`),
  so the assertion at `ast-walk-c.c:75` fails for a file of some sixty declarations.
- `compile_strings`. The node of a string constant comes from malloc and its `node_type`
  is never set (`parser_primitives.c:105`), though the walk indexes `node_recs` with it;
  `ast-walk.h:40` promises a callback the type of the node.

### What the passing run of the program says

`CrashCauses` says where a bad pointer can be followed. Within the sources modelled the parser
does so only in the loop of `declaration` over a typedef of an array
(`typedef int a[];`: the declarator's `id` is not a name there). A walk that prints does only
over a NULL `top` (`toycen.c:94` looks at no result), a string constant, or a storage class in
the tree. This is a bound on crashes and no more: a string need not crash, and a plain source need not
be printed. `LongNotPrinted` is about those: each unit is inside all later ones
(`translation_unit.left`), so the printers' own assertion ends the program on any source of 57
declarations, the plainest included (run `print_long` shows the assertion failing). The programs of
the test and graphviz callbacks print no tree at all, and the Lua one is not modelled;
neither property speaks of them.
`ClassesAsDeclared` holds because bison decides about `;` without look-ahead,
and says precisely which typedefs count: those that begin their declaration. `int
typedef a;` declares no type name, and there are no scopes. `TreeIsSource` holds after a failed parse
too: `top` is then the last complete unit. `OnlyPointersLost` has one exception in its
name: `declarator: pointer direct_declarator` (`parser.y:579`) sets only that there is a
pointer, and drops which.

Seen while modelling, without a run:

- `ast_walk` returns -1 always (every result starts at -1 and is only copied), while
  `ast-walk.h:77` says 0 on success; `TypeOK` and its theorem state it. The BETWEEN
  callback comes after each child, the last too (`ast-walk.h:27`). `HAS_ALLOCATION` goes
  down to everything below a pointer (`ast-walk.h:32`). `get_childcnt` is off by one for
  a null item of a base, and has no caller. `ast_walk` tests the type with `>`
  (`ast-walk.c:248`), so NODE_TYPE_max passes.
- The growth loop of a put iterates at most once, and the -EINVAL of a resize cannot
  come back, since the size asked for is always larger.
- `main` returns an uninitialised `result` when there is no `main_walk_op`, and ignores a
  file that cannot be opened: flex then reads standard input.
- In `parser.y`, outside the productions modelled: `specifier_qualifier_list` drops its
  first argument, an unnamed bit field has `has_bitfield` false, `default:` is given the tag
  LS_CASE, and the initialiser's tag is never set (nothing reads it).
- `fmt_call` clears the buffer before it looks at its size. The demo prints `base` as
  the name of every field of a base.

## 4. Proofs

All obligations are checked by TLAPS; there is no trusted step. Constants are arbitrary
within the assumptions named in the modules, each of which TLC evaluates on the real
schema, grammar and sizes.

**HashTableProofs** (from `HashAssumption`, `SizesAssumption`, and that no client stores
NULL: `NULL \notin Vals`, which holds of every client under `src/` and `lexer/`; run
`table_null` shows the theorem fails without it). `TypeCorrect`, `AlwaysPlaced`,
`ChainsWellFormed`, `CountIsRight`, `RoomForOne`, `ResizeFaithful`, `PutsMakeRoom`, and
`Refinement`: `Spec => ImplementsDictionary`, call by call. None of the checked invariants
is inductive alone: that put may append blindly needs the key to be absent, which needs
chains without repetition, which a resize preserves only if it visits no node twice,
which needs its counter to be the number of nodes copied and `full` the number there
are. `Inv` is the conjunction of these, with the state of a resize (what has been
passed, what remains) as its core. A put takes effect for the client at its first step
and is hidden until it returns; every other step is a stutter.

**InductionTheorems.** `Induction` and `Recursion` over the natural numbers, stated with sets
and functions where the library's theorems take operators, so that SMT and Zenon can use
them: to prove something of every number, show that the set of numbers that have it is closed. The
facts below about chains, lists and trees rest on these two.

**HashHeapProofs** (from `HeapAssumption`; each theorem assumes `CleanMemory`: the allocator
clears memory, or there is one table and nobody deletes, which is what the lexer and
the interner do; run `heap_delete` shows that `ChainsOwned` fails otherwise). `TypeCorrect`,
`ChainsOwned`, `NoCellLost`, and `Refinement` (which also needs `NULL \notin Vals`, as
above). None of the checked invariants says what the next loop over `next` will find.
`HeapInv` does: there is a sequence of cells for each bucket, linked by `next` in this order
and ended by NULL, no cell is in two of them or free, all nodes in a bucket's are of its
hash and of different keys, and where memory is not cleared nothing has been freed yet that
may be handed out (`Sound`). `ChainIs`, one induction over the length, shows that the loops of
the code find this sequence; the rest says what making a HEAD (`WithHeadSound`), pushing a
node (`WithNodeSound`) and taking one out (`UnlinkedSound`) do to it. A put is up to three
such steps.

**AstWalkProofs** (from `WalkAssumption`, `SchemaAssumption`, `TypesAssumption`).
`TypeCorrect`, `NamesInStep` and `InPlaceAlways`, for any depth, tree and choice of flags.
`Inv` says that every activation is at a place of its structure, that each but the
topmost waits, and that there is one name for each that waits; a PRIV is reached only
through a CHOICE (an assumption on the schema), whose members are not wrapped, which is
what makes `InPlaceAlways` hold. The steps change the two stacks in five ways only,
with a lemma for each.

The second half (from `NoneAssumption` besides) proves `FlagsTell`: the marks of a callback's flags are
those of the thing it is called for. The flags of one callback were computed
several activations higher up, so the invariant (`FlagsInv`) speaks of the marks of
every activation, and of what its caller has asked for. Lemma `Shapes` sorts the steps of
the walk into five shapes (going on, beginning, calling back, choosing, ending), and
the rest is about shapes and not about actions.

**VisitorProofs** (and `FieldsAssumption`: no two fields of a structure have one name, and a
choice has a member; and that the walk is asked for both BEFORE and AFTER). `EachOnce`:
`Spec => VisitsEachOnce`, the walk implements `Visitor`. Without BEFORE nobody is told that a
thing begins, and the abstract specification has no step for it, hence the condition.
The mapping makes one open thing of each activation (`Entry`) and of several the sequence of
them (`Entries`); `OpenIs` shows that this is `OpenThings`, which the run maps with. The
invariant `VInv` adds to `FlagsInv` two facts: that every activation's node is among those
numbered so far, so that a new node is none of the open ones (`AllHeld`), and that what is
about to begin belongs into the next slot of the thing below it (`TopDue`). Each step of the
walk then leaves the open things alone, advances the last one (with or without a
callback), adds one or removes one, and `Visitor` has an action for each; the last is
allowed only when nothing is left of the thing, which is where an item passed over would show.

The last part of **VisitorProofs** (and `PrintersAssumption`: both callbacks ask for BEFORE and AFTER).
`MarginFollows`, `IndentFollows`, `TextFits`. A counter follows the nesting if every
activation enters its class with a first callback and leaves it with a last one, whatever
happens between. The proof counts activations (`FiniteSetTheorems`) in three classes: those
opened, those printed (an empty choice is not), those with a second brace; each shape of
step changes such a number by what the callback adds or subtracts.

**NodeStoreProofs** (from `StoreAssumption`, `TopAssumption`). `StoreSafe`: any parser
that keeps the discipline of `NextStore`, wherever realloc moves nodes to, leaves no pointer
to memory given back, holds no node twice, and has one object per string. `NoDangling` is not
inductive: an upgrade may give a node back only because nobody else holds it, which is
`OneOwner`; and that does not cover strings, which are held many times and are safe for
another reason: they have no type, so no action can upgrade them. `StoreInv` joins both
with the table's state before and after set-up.

**ToycenProofs** (and `ParserAssumption`, a check of each production by itself).
`ParserIsDisciplined`: for every grammar and every source, each step of the program is a
step of `NodeStore` or leaves the nodes alone, which makes `NodeStore`'s theorem one about
the program (`ParserNeverDangles`, `ParserOwnsOnce`, `ParserInterns`). `ParserInv` adds that
every symbol on the stack has a value of its `%type`: the code has no check of that, and
UN takes the size of the old node from it. A production consumes each argument once; with the
stack free of repetitions that makes its fields free of them.

With `FittingAssumption` and `KeepingAssumption`, again per production, `TreeAlwaysFits`: the walk finds in each field a node of the structure `ast.xi` declares, in
a member its choice's index names. `NothingElseLost`: a parse in progress has every node
but the pointers of declarators on its stack or in its tree. A static look at each
production is enough, and the theorem is the reason: types change under upgrade, but
only of nodes on the stack, which by `OneOwner` no field holds.

`ProgramTyped`: `TypeOK`, of which the hard part is that the table of type names holds names
only. `add_typenames` follows `left` and `id` without looking at what it comes to. The
loop ends and finds live nodes because the tree has no cycle (`StoreAcyclic` in
`NodeStoreProofs`: nodes have ranks that fall along every field, in the order of what was
done and not of addresses); what it finds along `id` is an identifier because the tree fits its
schema, and only `identifier: IDENTIFIER` makes one, with a name (`NamingAssumption`).

**DeclarationProofs** (from `ShapeAssumption` and `PhraseAssumption` of `Phrases` besides) proves first what the
parser and the lexer do to each other through the table of type names. `WordsClassified`:
`ClassesAsDeclared`. `CrashesExplained`: `CrashCauses`. Both depend on bison having reduced a declaration
when flex reads the next word, which no part of the code says; and on what the names
on the stack mean, of which no state is kept. The invariant supplies both.

- `Shaped`: each symbol lies on one it may lie on (`Beside`, the part of the automaton that
  matters). With it, a symbol in `Immediate`, the `;` among them, is never left on the stack for
  the next word: some production is complete, and the longest complete one waits for no
  look-ahead (`MustReduce`).
- `Spanned`: the words consumed can be cut so that each symbol on the stack has a piece, and the
  piece says what the symbol's node says: the text of a name, the class of the
  first specifier, and for a declarator the names in it, which are those that the loop of
  `add_typenames` comes by (`NamesDo`), unless an array hides one. The loop is a
  recursion over nodes; `Recursion` gives it as a function on addresses, and `RegionClosed` and
  `BelowKept` say that a step does not change it for the nodes it leaves alone.
- `Known`: the table holds the typedefs closed among the words consumed, but for a declaration
  whose `;` is on the stack and which is reduced before the next word is read.
- `CauseInv`, for bad pointers: a node that a walk may not survive (a string, a storage class) was
  made of a word that says so, and below `top` are only nodes made of complete declarations. The
  printers' assertions are not in it; that long sources fail them (`LongNotPrinted`) is only checked.

A reduction replaces pieces by their union, and each form of production (`Naming`, `Nameless`,
`Passing`, `Listing`) is shown to make of them what its phrase says. The assumptions are about
productions one by one, so the theorems are about every grammar of declarations that passes them,
and about every source, complete or not, of any length.

The last part of **DeclarationProofs** (and `TellingAssumption` of `Phrases`) proves `TreeRead`:
`TreeIsSource`, of a parse that has failed too. `Spelled` and `Spoken` are recursions, one over nodes
and one over words, and the proof first shows that each gives what it asks for: the one
because no node is below itself (`SpellingExists` follows fields further and further, as far as
the ranks of `StoreAcyclic` allow), the other by `Recursion`.

- `Says(q)`, the core of `SpellInv`: there is a reading `q[i]` for the first `i` symbols of the stack; each
  symbol adds to it what its tree says, the last is what the words consumed say, and a
  symbol in `Mute` adds nothing. A name or string that is shifted but not reduced has no tree
  yet; it is the last word, still in `yytext`, which nothing reads over before the reduction
  (`Pending`, `StuckSilent`).
- A reduction keeps it if what the fields of the new node say, in the order of `FieldOrder`, is what
  the arguments said, in theirs. Lemma `JoinBlocks` has this of sequences: what is laid out
  slot by slot is what is laid out one by one, when the slots ascend. `TellingAssumption` asks of each
  production that they do, that what it leaves out is mute, and that a text comes
  from one word.
- `Plain`: an upgrade takes its text from the old node, which has none of its own but for a name,
  and names are not upgraded. `DeadEmpty`: memory not in use points nowhere.
- `TopSays`: the result says what the words do up to the last `;`, except while a declaration just
  ended is on its way into it. Bison's reductions on `;` do not wait for a look-ahead
  (`StuckUnder`), so the exception is over when the next word is read or the parse ends.

The pointers that `NothingElseLost` excepts are mute: nothing that is dropped has a name in it.

Only model-checked, and why:

- Liveness (`PutReturns`, `Returns`, `Terminates`): out of the prover's reach.
- `LongNotPrinted`, which is about what `Overflows` computes along a chain of units.
- That `Grammar` satisfies the conditions of `Phrases`, `ParserAssumption` and the others: TLC
  evaluates them, the theorems assume them.

The violated properties are not theorems, of course. Each of them is the statement in the
repository, not a weakened one.

## 5. Not modelled, and why

- *LALR automaton and flex's DFA*: generated. The parser is modelled by productions,
  look-ahead and what may be shifted; the lexer by classes of words.
- *The other productions*: function definitions and their bodies, parameters, structures,
  enumerations, operators, constants. Their actions have the same three forms, so the
  proofs, which are for every set of productions that passes the assumptions, apply to
  each that does; `specifier_qualifier_list`, which drops an argument, would not
  pass `KeepingAssumption`.
- *Line and column counting, comments*: no other part reads the position, and what
  `skip_comment` does at the end of a file depends on the version of flex (`input()` gives
  EOF or 0), which the sources leave open.
- *`ast-walk-graphviz.c`*: it copies the name of a field from NULL in its first BETWEEN
  callback (line 110), and every translation unit has one, so that no longer run of its
  lists exists. *`ast-walk-test.c`* keeps no state and aborts at the first ID.
  `ast-walk-lua_graphviz.c` is an experiment.
- *`wrap.c`*: the tree is compiled in; for the walk it is one of the trees of run `walk`.
- *Options and opening files* in `toycen.c`: no state.
- *Preprocessor*: does not compile (`tpp.c:59` calls `hash_table_create` with one
  argument) and is off in the Makefile; `heap_delete` covers its distinctive use of the
  table.
- *The walker's `get_childcnt` and `get_xattrs`*, which change no state; enumerators and
  field offsets; the texts and the layout printed.
- *`ps->globals`*, created and never used, and `my_free`, called by nothing.
- *Memory of resizing the hash table* (section 2, HashHeap).
- *Lua bindings, vendored code*: no part of the program.
