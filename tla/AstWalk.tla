------------------------------- MODULE AstWalk -------------------------------
(***************************************************************************)
(* src/ast/walk/ast-walk.c: the recursive walk over a syntax tree.         *)
(*                                                                         *)
(* The C call stack is `stack', one frame per activation of recurse_priv_- *)
(* or_node (kind "REC") and per CHOICE case of recurse_any (kind "CHOICE");*)
(* cookie->stack, the names a callback can ask for, is `names'.  Each step *)
(* runs to the next callback, call or return, and `cb' is the callback it  *)
(* made.                                                                   *)
(*                                                                         *)
(* The tree is not fixed beforehand.  The walk reads every pointer and     *)
(* every choice once, so what it finds is chosen when it is read, which    *)
(* covers all trees of at most Budget nodes.                               *)
(***************************************************************************)
EXTENDS SequencesExt, Integers, FiniteSets

CONSTANTS
    Schema,     \* node_recs, priv_recs and node_parentages
    Types,      \* the node types that occur in the trees
    Roots,      \* the types of the node ast_walk is called with
    Followed,   \* the fields that may hold a pointer other than NULL
    WalkFlags,  \* the flags ast_walk is called with
    Budget,     \* bound: the nodes of a tree
    None        \* no callback, or no result yet

\* AST_WALK_{BEFORE,AFTER,BETWEEN}_CHILDREN, the low three bits
Whens == {"BEFORE", "AFTER", "BETWEEN"}

ASSUME WalkAssumption == WalkFlags \subseteq Whens /\ Budget \in Nat

MetaTypes == {"PRIV", "NODE", "ID", "BASIC", "CHOICE"}

\* What an item, or a member of a choice, says of the field it describes; the
\* structures it refers to exist, and a node is held by a pointer.
ItemOK(it) ==
    /\ it.meta \in MetaTypes
    /\ it.ptr \in BOOLEAN
    /\ it.meta \in {"PRIV", "NODE"} =>
          it.type \in DOMAIN Schema /\ Schema[it.type].meta = it.meta
    /\ it.meta = "NODE" => it.ptr

\* What the walk needs of the tables.  A PRIV is found in a CHOICE only, a CHOICE
\* has no CHOICE for a member, and what has a base is a node, as is the base.
ASSUME SchemaAssumption ==
    \A t \in DOMAIN Schema :
        LET rec == Schema[t]
        IN  /\ rec.meta \in {"NODE", "PRIV"}
            /\ rec.base # "" => /\ rec.meta = "NODE"
                               /\ rec.base \in DOMAIN Schema
                               /\ Schema[rec.base].meta = "NODE"
            /\ \A i \in 1 .. Len(rec.items) :
                  /\ ItemOK(rec.items[i]) /\ rec.items[i].meta # "PRIV"
                  /\ \A j \in 1 .. Len(rec.items[i].members) :
                        /\ ItemOK(rec.items[i].members[j])
                        /\ rec.items[i].members[j].meta # "CHOICE"
            /\ Len(rec.items) \in Nat
            /\ \A i \in 1 .. Len(rec.items) : Len(rec.items[i].members) \in Nat

ASSUME TypesAssumption ==
    \A t \in Types \cup Roots : t \in DOMAIN Schema /\ Schema[t].meta = "NODE"

VARIABLES
    stack,      \* the activations, the outermost first
    names,      \* cookie->stack, the top last
    nodes,      \* how many nodes have been reached
    cb,         \* the callback of the last step, or None
    result      \* what ast_walk returned, or None

vars == <<stack, names, nodes, cb, result>>

-----------------------------------------------------------------------------
\* A type and the types it is based on.
Lineage[t \in DOMAIN Schema] ==
    {t} \cup (IF Schema[t].base = "" THEN {} ELSE Lineage[Schema[t].base])

IsA(t, d) == d \in Lineage[t]

Top == stack[Len(stack)]
Items == Schema[Top.type].items
Item == Items[Top.i]

\* An activation of recurse_priv_or_node.  `direct' tells whether its argument
\* is the address of the structure, and not of a variable holding that address.
Rec(meta, type, node, flags, direct) ==
    [kind |-> "REC", meta |-> meta, type |-> type, node |-> node, flags |-> flags,
     direct |-> direct, at |-> "before", i |-> 1, idx |-> 0, res |-> -1]

\* The CHOICE case of recurse_any, for item i of the structure `owner'.
ChoiceOf(owner, i, node, flags, idx) ==
    [kind |-> "CHOICE", meta |-> "CHOICE", type |-> owner, node |-> node, flags |-> flags,
     direct |-> FALSE, at |-> "member", i |-> i, idx |-> idx, res |-> -1]

With(frame) == [stack EXCEPT ![Len(stack)] = frame]

\* get_name
Name == IF names = << >> THEN "" ELSE Last(names)

\* The arguments of a callback.  `deref' is how many times `data' must be
\* dereferenced to get to the thing.
Call(when, flags, meta, type, node, name, deref) ==
    [when |-> when, flags |-> flags \ Whens, meta |-> meta, type |-> type,
     node |-> node, name |-> name, deref |-> deref]

RecCall(when, flags) ==
    IF when \in flags
    THEN Call(when, flags, Top.meta, Top.type, Top.node, Name, 1) ELSE None

\* A field that is a pointer adds a flag, which everything below it inherits.
ItemFlags ==
    IF Item.ptr THEN Top.flags \cup {"HAS_ALLOCATION"} ELSE Top.flags

\* A callback for a CHOICE gets no flag but the one for its occasion, and its type
\* is meaningless (c.node read where c.choice was stored): the field stands for it.
ChoiceCall(when, flags, owner, item, node, name) ==
    IF when \in flags
    THEN Call(when, {}, "CHOICE", <<owner, item.name>>, node, name, 2) ELSE None

\* A call returns `value': its frame goes, its caller's `result' is set.
Return(value) ==
    LET callers == Front(stack)
    IN  IF callers = << >> THEN stack' = << >> /\ result' = value
        ELSE /\ stack' = [callers EXCEPT ![Len(callers)].res = value]
             /\ UNCHANGED result

(***************************************************************************)
(* recurse_any, for an item of the structure on top of the stack or for a  *)
(* member of the CHOICE there; `caller' is that frame as it waits for the  *)
(* return, and `wrapped' tells that the argument is the address of a       *)
(* pointer to the item.                                                    *)
(***************************************************************************)
VisitPriv(item, flags, caller, wrapped) ==
    /\ item.meta = "PRIV"
    /\ stack' = Append(With(caller), Rec("PRIV", item.type, caller.node, flags, ~wrapped))
    /\ cb' = None /\ UNCHANGED nodes

VisitNull(item, flags, caller, wrapped) ==
    /\ item.meta = "NODE"
    /\ stack' = With([caller EXCEPT !.res = -1])
    /\ cb' = None /\ UNCHANGED nodes

VisitNode(item, flags, caller, wrapped) ==
    /\ item.meta = "NODE" /\ <<caller.type, item.name>> \in Followed
    /\ nodes < Budget
    /\ \E t \in Types :
          /\ IsA(t, item.type)
          /\ stack' = Append(With(caller), Rec("NODE", t, nodes + 1, flags, TRUE))
    /\ nodes' = nodes + 1
    /\ cb' = None

\* The argument leads to the ID itself or to a variable with its address; of a
\* BASIC value the caller has made a copy, or of the pointer to it.
VisitValue(item, flags, caller, wrapped) ==
    /\ item.meta \in {"ID", "BASIC"}
    /\ stack' = With([caller EXCEPT !.res = -1])
    /\ cb' = Call("ONCE", flags, item.meta, item.type, caller.node, item.name,
                  IF (item.meta = "ID" /\ wrapped) \/ item.ptr THEN 2 ELSE 1)
    /\ UNCHANGED nodes

VisitChoice(item, flags, caller, wrapped) ==
    /\ item.meta = "CHOICE"
    /\ \E idx \in 0 .. Len(item.members) :
          stack' = Append(With(caller), ChoiceOf(caller.type, caller.i, caller.node,
                                                 flags, idx))
    /\ cb' = ChoiceCall("BEFORE", flags, caller.type, item, caller.node, item.name)
    /\ UNCHANGED nodes

RecurseAny(item, flags, caller, wrapped) ==
    /\ \/ VisitPriv(item, flags, caller, wrapped)
       \/ VisitNull(item, flags, caller, wrapped)
       \/ VisitNode(item, flags, caller, wrapped)
       \/ VisitValue(item, flags, caller, wrapped)
       \/ VisitChoice(item, flags, caller, wrapped)
    /\ names' = Append(names, item.name)
    /\ UNCHANGED result

-----------------------------------------------------------------------------
(***************************************************************************)
(* recurse_priv_or_node.                                                   *)
(***************************************************************************)
At(kind, at) == stack # << >> /\ Top.kind = kind /\ Top.at = at

Before ==
    /\ At("REC", "before")
    /\ cb' = RecCall("BEFORE", Top.flags)
    /\ stack' = With([Top EXCEPT !.at = "base"])
    /\ UNCHANGED <<names, nodes, result>>

HasBase == Top.meta = "NODE" /\ Schema[Top.type].base # ""

\* The structure a node is based on is walked as a node at the same address.
EnterBase ==
    /\ At("REC", "base") /\ HasBase
    /\ stack' = Append(With([Top EXCEPT !.at = "left base"]),
                       Rec("NODE", Schema[Top.type].base, Top.node,
                           Top.flags \cup {"IS_BASE"}, TRUE))
    /\ names' = Append(names, "base")
    /\ cb' = None
    /\ UNCHANGED <<nodes, result>>

LeaveBase ==
    /\ At("REC", "left base")
    /\ stack' = With([Top EXCEPT !.at = "item"])
    /\ names' = Front(names)
    /\ cb' = None
    /\ UNCHANGED <<nodes, result>>

NoBase ==
    /\ At("REC", "base") /\ ~HasBase
    /\ stack' = With([Top EXCEPT !.at = "item"])
    /\ cb' = None
    /\ UNCHANGED <<names, nodes, result>>

\* An item that is a pointer or BASIC is unwrapped and wrapped again, so that
\* recurse_any always gets the address of a variable.
EnterItem ==
    /\ At("REC", "item") /\ Top.i <= Len(Items)
    /\ RecurseAny(Item, ItemFlags, [Top EXCEPT !.at = "left item"], TRUE)

\* Mistake: the item is counted in the loop's body as well as in its head.
LeaveItemTwice ==
    /\ At("REC", "left item")
    /\ cb' = RecCall("BETWEEN", ItemFlags)
    /\ stack' = With([Top EXCEPT !.at = "item", !.i = @ + 2])
    /\ names' = Front(names)
    /\ UNCHANGED <<nodes, result>>

\* Mistake: the loop does not go on to the next item.
LeaveItemStays ==
    /\ At("REC", "left item")
    /\ cb' = RecCall("BETWEEN", ItemFlags)
    /\ stack' = With([Top EXCEPT !.at = "item"])
    /\ names' = Front(names)
    /\ UNCHANGED <<nodes, result>>

LeaveItem ==
    /\ At("REC", "left item")
    /\ cb' = RecCall("BETWEEN", ItemFlags)
    /\ stack' = With([Top EXCEPT !.at = "item", !.i = @ + 1])
    /\ names' = Front(names)
    /\ UNCHANGED <<nodes, result>>

\* Mistake: the loop may end one item early.
AfterEarly ==
    /\ At("REC", "item") /\ Top.i >= Len(Items)
    /\ cb' = RecCall("AFTER", Top.flags)
    /\ Return(Top.res)
    /\ UNCHANGED <<names, nodes>>

After ==
    /\ At("REC", "item") /\ Top.i > Len(Items)
    /\ cb' = RecCall("AFTER", Top.flags)
    /\ Return(Top.res)
    /\ UNCHANGED <<names, nodes>>

(***************************************************************************)
(* The CHOICE case of recurse_any.                                         *)
(***************************************************************************)
\* Mistake: the address of the chosen member is wrapped like that of an item.
EnterMemberWrapped ==
    /\ At("CHOICE", "member") /\ Top.idx > 0
    /\ RecurseAny(Item.members[Top.idx], Top.flags \ {"IS_BASE"},
                  [Top EXCEPT !.at = "left member"], TRUE)

\* Mistake: what is chosen inherits the mark of the base it is in.
EnterMemberMarked ==
    /\ At("CHOICE", "member") /\ Top.idx > 0
    /\ RecurseAny(Item.members[Top.idx], Top.flags,
                  [Top EXCEPT !.at = "left member"], FALSE)

EnterMember ==
    /\ At("CHOICE", "member") /\ Top.idx > 0
    /\ RecurseAny(Item.members[Top.idx], Top.flags \ {"IS_BASE"},
                  [Top EXCEPT !.at = "left member"], FALSE)

NoMember ==
    /\ At("CHOICE", "member") /\ Top.idx = 0
    /\ stack' = With([Top EXCEPT !.at = "after"])
    /\ cb' = None
    /\ UNCHANGED <<names, nodes, result>>

\* Mistake: the name of the member is left on cookie->stack.
LeaveMemberKeeps ==
    /\ At("CHOICE", "left member")
    /\ stack' = With([Top EXCEPT !.at = "after"])
    /\ cb' = None
    /\ UNCHANGED <<names, nodes, result>>

LeaveMember ==
    /\ At("CHOICE", "left member")
    /\ stack' = With([Top EXCEPT !.at = "after"])
    /\ names' = Front(names)
    /\ cb' = None
    /\ UNCHANGED <<nodes, result>>

AfterChoice ==
    /\ At("CHOICE", "after")
    /\ cb' = ChoiceCall("AFTER", Top.flags, Top.type, Item, Top.node, Name)
    /\ Return(Top.res)
    /\ UNCHANGED <<names, nodes>>

-----------------------------------------------------------------------------
\* ast_walk refuses a node without a valid type.
Init ==
    /\ names = << >> /\ cb = None
    /\ \/ /\ \E t \in Roots : stack = <<Rec("NODE", t, 1, WalkFlags, TRUE)>>
          /\ nodes = 1 /\ result = None
       \/ stack = << >> /\ nodes = 0 /\ result = -1

Next ==
    \/ Before \/ EnterBase \/ LeaveBase \/ NoBase
    \/ EnterItem \/ LeaveItem \/ After
    \/ EnterMember \/ NoMember \/ LeaveMember \/ AfterChoice

\* The walk is one call: nothing stops it half way.
Spec == Init /\ [][Next]_vars /\ WF_vars(Next)

-----------------------------------------------------------------------------
AllItems ==
    UNION {{Schema[t].items[i] : i \in 1 .. Len(Schema[t].items)} : t \in DOMAIN Schema}

AllMembers ==
    UNION {{it.members[j] : j \in 1 .. Len(it.members)} : it \in AllItems}

FieldNames == {"base"} \cup {it.name : it \in AllItems \cup AllMembers}

\* The callbacks for a structure, a choice or a value, of which None is not one.
CallTypes == DOMAIN Schema \cup {<<t, f>> : t \in DOMAIN Schema, f \in FieldNames}
             \cup {it.type : it \in AllItems \cup AllMembers}

CallsAround ==
    [when : {"BEFORE", "AFTER", "ONCE"}, flags : SUBSET {"IS_BASE", "HAS_ALLOCATION"},
     meta : MetaTypes, type : CallTypes,
     node : Nat, name : FieldNames \cup {""}, deref : {1, 2}]

ASSUME NoneAssumption == None \notin CallsAround

\* What C ensures of structures and unions: the fields of one have different names,
\* and a choice is one of something.
ASSUME FieldsAssumption ==
    \A t \in DOMAIN Schema :
        LET items == Schema[t].items
        IN  /\ items \in Seq(AllItems)
            /\ \A i, j \in 1 .. Len(items) : items[i].name = items[j].name => i = j
            /\ \A i \in 1 .. Len(items) :
                  /\ items[i].members \in Seq(AllMembers)
                  /\ items[i].meta = "CHOICE" => items[i].members # << >>

\* Every activation is at a place of the structure it walks, and ast_walk has
\* returned, always with -1, iff no activation is left.
Frame ==
    [kind : {"REC", "CHOICE"}, meta : MetaTypes, type : DOMAIN Schema, node : Nat,
     flags : SUBSET (Whens \cup {"IS_BASE", "HAS_ALLOCATION"}), direct : BOOLEAN,
     at : {"before", "base", "left base", "item", "left item",
           "member", "left member", "after"},
     i : Nat, idx : Nat, res : {-1}]

InPlace(f) ==
    LET items == Schema[f.type].items
    IN  \/ /\ f.kind = "REC" /\ f.meta = Schema[f.type].meta
           /\ f.at \in {"before", "base", "left base", "item", "left item"}
           /\ f.i \in 1 .. Len(items) + 1
           /\ f.at = "left item" => f.i <= Len(items)
           /\ f.at = "left base" => Schema[f.type].base # ""
        \/ /\ f.kind = "CHOICE" /\ f.meta = "CHOICE"
           /\ f.at \in {"member", "left member", "after"}
           /\ f.i \in 1 .. Len(items) /\ items[f.i].meta = "CHOICE"
           /\ f.idx \in 0 .. Len(items[f.i].members)
           /\ f.at = "left member" => f.idx > 0

TypeOK ==
    /\ stack \in Seq(Frame)
    /\ \A k \in 1 .. Len(stack) : InPlace(stack[k])
    /\ names \in Seq(FieldNames)
    /\ nodes \in 0 .. Budget \cup {1}
    /\ cb = None \/ cb.when \in Whens \cup {"ONCE"}
    /\ result = (IF stack = << >> THEN -1 ELSE None)

\* cookie->stack holds one name for each activation that waits for a call to
\* return, that of the field or member it has handed over, and none when the walk
\* has ended.
Waits(f) == f.at \in {"left base", "left item", "left member"}

FieldOf(f) ==
    CASE f.at = "left base"   -> "base"
      [] f.at = "left item"   -> Schema[f.type].items[f.i].name
      [] f.at = "left member" -> Schema[f.type].items[f.i].members[f.idx].name

NamesFollowFrames ==
    /\ \A k \in 1 .. Len(stack) - 1 : Waits(stack[k])
    /\ names = [k \in {j \in 1 .. Len(stack) : Waits(stack[j])} |-> FieldOf(stack[k])]

\* A structure is always walked at its own address: the argument of recurse_priv
\* is never the address of a variable that holds the address of the structure.
WalkedInPlace == \A k \in 1 .. Len(stack) : stack[k].kind = "REC" => stack[k].direct

(***************************************************************************)
(* The flags of the first callback of a structure tell how it is held: the *)
(* base of a node is marked as one, what a pointer field leads to is       *)
(* marked as allocated, and what is in a choice is not marked as a base.   *)
(***************************************************************************)
FlagsMark ==
    LET held == stack[Len(stack) - 1]
    IN  cb # None /\ cb.when = "BEFORE" /\ cb.meta # "CHOICE" /\ Len(stack) > 1 =>
            /\ held.at = "left base" => "IS_BASE" \in cb.flags
            /\ held.at = "left item" => "HAS_ALLOCATION" \in cb.flags
            /\ held.at = "left member" => "IS_BASE" \notin cb.flags

-----------------------------------------------------------------------------
(***************************************************************************)
(* The walk makes the nested callbacks it promises: each thing of the tree *)
(* is visited once, in the order of the fields, its base before them, with *)
(* a callback before and one after its parts and the name of the field     *)
(* that holds it.  A thing is open from its first callback on.             *)
(***************************************************************************)
Begun(k) == stack[k].kind = "CHOICE" \/ stack[k].at # "before"

BasesOf(frame) == IF Schema[frame.type].base = "" THEN 0 ELSE 1

\* Whether the call activation k waits for has had its first callback.
Entered(k) == k = Len(stack) \/ Begun(k + 1)

NextSlot(k) ==
    LET f == stack[k]
    IN  CASE f.at = "base"        -> 1
          [] f.at = "left base"   -> IF Entered(k) THEN 2 ELSE 1
          [] f.at = "item"        -> BasesOf(f) + f.i
          [] f.at = "left item"   -> BasesOf(f) + f.i + (IF Entered(k) THEN 1 ELSE 0)
          [] f.at = "member"      -> 1
          [] f.at = "left member" -> IF Entered(k) THEN 2 ELSE 1
          [] f.at = "after"       -> 2

ThingOf(k) ==
    [meta |-> stack[k].meta, node |-> stack[k].node,
     type |-> IF stack[k].kind = "REC" THEN stack[k].type
              ELSE <<stack[k].type, Schema[stack[k].type].items[stack[k].i].name>>,
     name |-> IF k = 1 THEN "" ELSE names[k - 1]]

OpenThings ==
    <<[thing |-> [meta |-> "OUTSIDE", type |-> "", node |-> 0, name |-> ""],
       pos |-> IF nodes = 0 \/ (stack # << >> /\ ~Begun(1)) THEN 1 ELSE 2]>>
    \o [k \in 1 .. Cardinality({j \in DOMAIN stack : Begun(j)}) |->
          [thing |-> ThingOf(k), pos |-> NextSlot(k)]]

Visit == INSTANCE Visitor WITH
    open  <- OpenThings,
    event <- IF cb # None /\ cb.when = "BETWEEN" THEN None ELSE cb

VisitsEachOnce == Visit!Spec

\* The walk of a finite tree ends: ast_walk returns.
Returns == <>(result # None)
-----------------------------------------------------------------------------
\* include/ast/ast-walk.h:31 says that IS_BASE means "node is the base of the
\* parent": the first callback of a node has it only if the node is one.
BaseOfParent ==
    cb # None /\ cb.when = "BEFORE" /\ "IS_BASE" \in cb.flags =>
        stack[Len(stack) - 1].at = "left base"

\* src/ast/ast-formatters.c:70 reads every ID as `**(int**)data' and asserts that
\* the number is that of an enumerator: data must be two steps from the ID.
IdReadable == cb # None /\ cb.meta = "ID" => cb.deref = 2
=============================================================================
