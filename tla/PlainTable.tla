------------------------------ MODULE PlainTable ------------------------------
(***************************************************************************)
(* The plain store the suite checks its own controls with, PlainStore of    *)
(* tests/test_guard.py, and the broken adapters of that file: one whose      *)
(* write is lost, lands on another slot, goes by id, or moves the owner, and *)
(* one that reads both contexts as the first.                               *)
(*                                                                         *)
(* A state s is [rows, next, readsAll]: the rows in insertion order, the     *)
(* next id, and whether this adapter reads the whole table.                 *)
(***************************************************************************)
EXTENDS Integers, SequencesExt

CONSTANTS CTX, OTHER_CTX, SeedCount

Text(from, n) == [from |-> from, n |-> n, tampered |-> FALSE]
PlainRow(id, owner, text) ==
    [id |-> id, owner |-> owner, text |-> text, meta |-> [ts |-> id, marked |-> FALSE]]

Texts == [from : {"a", "b", "late", "forged"}, n : Nat, tampered : BOOLEAN]
PlainRows == [id : Nat, owner : {CTX, OTHER_CTX}, text : Texts, meta : [ts : Nat, marked : BOOLEAN]]
Tables == [rows : Seq(PlainRows), next : Nat, readsAll : BOOLEAN]

EmptyTable(readsAll) == [rows |-> <<>>, next |-> 0, readsAll |-> readsAll]

AddRow(s, row) == [s EXCEPT !.rows = Append(@, [row EXCEPT !.id = s.next]), !.next = @ + 1]
Grow(s, owner, from, n) ==
    LET new == [i \in 1..n |-> PlainRow(s.next + i - 1, owner, Text(from, i - 1))]
    IN  [s EXCEPT !.rows = @ \o new, !.next = @ + n]
SeedTable(s) == Grow(s, CTX, "a", SeedCount)
SeedOtherTable(s) == Grow(s, OTHER_CTX, "b", SeedCount)
AppendTable(s) == Grow(s, CTX, "late", 1)

(* The places in the table of the rows of a context, in order, and the place  *)
(* of the row at an ordinal of the first context.                            *)
Places(s, owner) ==
    LET here == {i \in DOMAIN s.rows : s.rows[i].owner = owner}
    IN  [k \in 1..Cardinality(here) |-> CHOOSE i \in here : Cardinality({j \in here : j < i}) = k - 1]
Ordinals(s) == 0..(Len(Places(s, CTX)) - 1)
Slot(s, ordinal) == IF s.readsAll THEN ordinal + 1 ELSE Places(s, CTX)[ordinal + 1]

ViewOf(s, owner) == [k \in 1..Len(Places(s, owner)) |-> s.rows[Places(s, owner)[k]]]
ReadTable(s) == IF s.readsAll THEN s.rows ELSE ViewOf(s, CTX)
ReadOtherTable(s) == ViewOf(s, OTHER_CTX)

-----------------------------------------------------------------------------
(* The raw operations, done right. *)

WriteAt(s, ordinal, row) ==
    IF ordinal \in Ordinals(s)
    THEN LET p == Places(s, CTX)[ordinal + 1]
         IN  [s EXCEPT !.rows[p].text = row.text, !.rows[p].meta = row.meta]
    ELSE AddRow(s, row)
DeleteAt(s, ordinal) == [s EXCEPT !.rows = RemoveAt(@, Slot(s, ordinal))]
ReplayAt(s, ordinal, donor) ==
    [s EXCEPT !.rows[Slot(s, ordinal)].text = donor.text,
              !.rows[Slot(s, ordinal)].meta = donor.meta]
MarkAt(s, ordinal) == [s EXCEPT !.rows[Slot(s, ordinal)].meta.marked = TRUE]

Tampered(row) == [row EXCEPT !.text.tampered = TRUE]
Forged(row) == [row EXCEPT !.text = Text("forged", 0)]

-----------------------------------------------------------------------------
(* The raw operations, done wrong: the broken adapters of the guard's tests. *)

WriteById(s, row) ==
    LET same == {i \in DOMAIN s.rows : s.rows[i].id = row.id}
    IN  IF same = {} THEN [s EXCEPT !.rows = Append(@, row)]
        ELSE [s EXCEPT !.rows[CHOOSE i \in same : TRUE].text = row.text]
ReplayMovesOwner(s, ordinal, donor) ==
    [s EXCEPT !.rows[Slot(s, ordinal)].text = donor.text,
              !.rows[Slot(s, ordinal)].owner = donor.owner]
=============================================================================
