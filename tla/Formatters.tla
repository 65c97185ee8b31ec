------------------------------ MODULE Formatters -----------------------------
(***************************************************************************)
(* src/ast/ast-formatters.c: fmt_call, by which a callback has a value of  *)
(* the tree written into a buffer.  Of a text only its length matters.     *)
(* `size' tells how large the buffer is and comes back as the bytes used,  *)
(* or as -1 for a text that does not fit, which is no error.               *)
(***************************************************************************)
EXTENDS AstWalk

CONSTANTS
    BufSize,    \* sizeof buf in the callbacks
    Lengths     \* bound: the lengths of the texts of values

ASSUME FormatAssumption == BufSize \in Nat \ {0} /\ Lengths \subseteq Nat

VARIABLE
    fmt         \* the last call: the text's length, the size that came back, the bytes
                \* of buf that were written, and the text that is now in buf

NoFormat == [need |-> 0, size |-> BufSize, written |-> 0, text |-> 0]

-----------------------------------------------------------------------------
\* type_formatters has entries for these only.
Formatted == {"BASIC", "ID"}

\* Mistake: the terminating zero is forgotten.
FitsWithoutZero(need, size) == need <= size

\* Whether a text of this length fits, which snprintf has told.
FitsIn(need, size) == need < size

\* buf is cleared first, and stays empty when the text does not fit.
fmt_call(need, size) ==
    LET fits == size > 0 /\ FitsIn(need, size)
        wrote == IF fits /\ need + 1 > size THEN need + 1 ELSE size
    IN  [need |-> need, written |-> wrote,
         size |-> IF size <= 0 THEN size ELSE IF fits THEN need + 1 ELSE -1,
         text |-> IF fits THEN need ELSE 0]

\* Mistake: `size' is kept from one callback to the next.
SizeKept == fmt.size

\* int size = sizeof buf
Size == BufSize

(***************************************************************************)
(* What both printing callbacks do with a value.  _format_ID follows two   *)
(* pointers to it; the one pointer to an ID in a CHOICE is not enough: the *)
(* enumerator is taken for an address, which may be NULL (an error, with   *)
(* buf left empty) or end the program: `crash'.                            *)
(***************************************************************************)
Format(call, crash) ==
    IF call = None \/ call.meta \notin Formatted
    THEN ~crash /\ UNCHANGED fmt
    ELSE IF call.meta = "ID" /\ call.deref = 1
    THEN fmt' = IF crash THEN fmt ELSE [NoFormat EXCEPT !.written = Size]
    ELSE ~crash /\ \E need \in Lengths : fmt' = fmt_call(need, Size)

-----------------------------------------------------------------------------
\* Nothing is written beyond the buffer, and a text that fits into an empty buffer is
\* printed in full, whatever has been printed before.
TextWhole ==
    /\ fmt.written \in 0 .. BufSize
    /\ fmt.need < BufSize => fmt.text = fmt.need
=============================================================================
