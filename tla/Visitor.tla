------------------------------- MODULE Visitor -------------------------------
(***************************************************************************)
(* What include/ast/ast-walk.h promises a walk with both a callback before *)
(* and one after the children: "the callback function is called for each   *)
(* node / private structure / choice / basic type / id in the tree below   *)
(* top", and a callback can ask by which field a thing is held.            *)
(*                                                                         *)
(* A thing is a record of meta type, type, node and name of the holding    *)
(* field.  `open' are the things that have had their first callback and    *)
(* not their last, outermost first, each with the position of the next of  *)
(* its slots.  `event' is the callback of the last step, if it made one.   *)
(***************************************************************************)
EXTENDS SequencesExt, Integers

CONSTANTS Schema,   \* the records of the tree's structures
          None      \* no callback

VARIABLES open, event

vars == <<open, event>>

\* The holder of the tree: its one slot takes a node of any type.
Outside == [meta |-> "OUTSIDE", type |-> "", node |-> 0, name |-> ""]

Slot(name, meta, type, optional) ==
    [name |-> name, meta |-> meta, type |-> type, optional |-> optional]

ItemSlot(item, owner) ==
    Slot(item.name, item.meta,
         IF item.meta = "CHOICE" THEN <<owner, item.name>> ELSE item.type,
         item.meta = "NODE")

\* The slots of a structure: the structure it is based on, then its items.
RecSlots(type) ==
    LET rec == Schema[type]
    IN  (IF rec.base = "" THEN << >> ELSE <<Slot("base", "BASE", rec.base, FALSE)>>)
        \o [i \in DOMAIN rec.items |-> ItemSlot(rec.items[i], type)]

\* The members of the CHOICE item `name' of a structure.
Members(owner, name) ==
    LET items == Schema[owner].items
        i     == CHOOSE j \in DOMAIN items : items[j].name = name
    IN  [j \in DOMAIN items[i].members |-> ItemSlot(items[i].members[j], owner)]

\* What may be visited next at position pos of a thing, and whether it may be
\* passed over: a null pointer holds nothing, nor does an unset choice.
Candidates(x, pos) ==
    CASE x.meta = "OUTSIDE" -> IF pos = 1 THEN {Slot("", "NODE", "", TRUE)} ELSE {}
      [] x.meta = "CHOICE"  -> IF pos = 1 THEN ToSet(Members(x.type[1], x.type[2])) ELSE {}
      [] OTHER              -> IF pos <= Len(RecSlots(x.type))
                               THEN {RecSlots(x.type)[pos]} ELSE {}

MayPass(x, pos) ==
    x.meta \in {"OUTSIDE", "CHOICE"} \/ \A s \in Candidates(x, pos) : s.optional

\* A type and the types it is based on.
Lineage[t \in DOMAIN Schema] ==
    {t} \cup (IF Schema[t].base = "" THEN {} ELSE Lineage[Schema[t].base])

IsA(t, d) == d \in Lineage[t]

\* x fits slot s of the thing in: a pointer leads to another node of the slot's
\* type, everything else is part of the node.
Fits(x, s, in) ==
    /\ x.name = s.name
    /\ IF s.meta = "NODE"
       THEN x.meta = "NODE" /\ x.node # in.node /\ (s.type = "" \/ IsA(x.type, s.type))
       ELSE /\ x.node = in.node /\ x.type = s.type
            /\ x.meta = IF s.meta = "BASE" THEN "NODE" ELSE s.meta

Expected(x) == \E s \in Candidates(Last(open).thing, Last(open).pos) :
                   Fits(x, s, Last(open).thing)
Passed == [open EXCEPT ![Len(open)].pos = @ + 1]

-----------------------------------------------------------------------------
Init == open = <<[thing |-> Outside, pos |-> 1]>> /\ event = None

ThingOf(e) == [meta |-> e.meta, type |-> e.type, node |-> e.node, name |-> e.name]

\* The first callback of a structure or a choice.
Begin ==
    /\ event' # None /\ event'.when = "BEFORE"
    /\ Expected(ThingOf(event'))
    /\ open' = Append(Passed, [thing |-> ThingOf(event'), pos |-> 1])

\* Its last callback comes when all of its slots have been visited.
End ==
    /\ event' # None /\ event'.when = "AFTER"
    /\ ThingOf(event') = Last(open).thing
    /\ Last(open).thing # Outside
    /\ Candidates(Last(open).thing, Last(open).pos) = {}
    /\ open' = Front(open)

\* The one callback of an enumeration or a basic value.
Leaf ==
    /\ event' # None /\ event'.when = "ONCE"
    /\ event'.meta \in {"ID", "BASIC"}
    /\ Expected(ThingOf(event'))
    /\ open' = Passed

Pass ==
    /\ event' = None
    /\ MayPass(Last(open).thing, Last(open).pos)
    /\ Candidates(Last(open).thing, Last(open).pos) # {}
    /\ open' = Passed

Quiet == event' = None /\ UNCHANGED open

Next == Begin \/ End \/ Leaf \/ Pass \/ Quiet

Spec == Init /\ [][Next]_vars
=============================================================================
