----------------------------- MODULE VendorTable -----------------------------
(***************************************************************************)
(* The raw side of an adapter of a third-party store: how it lists records,  *)
(* and what its edits do to the table under it.  A state s is                *)
(*   rows    the rows of both contexts, in reading order                     *)
(*   next    how many names each context has given out                       *)
(*   book    what the tool keeps in the store, beside the rows               *)
(*   held    what is kept elsewhere: a copy of the store does not hold it    *)
(*   memory  what the adapter's process holds                                *)
(* A row is [id, owner, text, meta, seal]; its seal is the evidence stored in *)
(* the row, over what was hashed into it (hashes and signatures injective).  *)
(*                                                                         *)
(* A profile p says how an adapter edits:                                    *)
(*   takes, copies  the fields that a write into an occupied slot, and a      *)
(*                  replay, put there                                        *)
(*   slots          how an ordinal finds its row: among the present ones; in  *)
(*                  the list of names given out, kept in memory or (for       *)
(*                  writes only) in the book; or by the record's own name     *)
(*   names          what tells one record from another                        *)
(*   label          what the metadata edit changes                            *)
(*   mutates        which texts the payload hook changes                      *)
(*   forges         the text and the name of a forged row                     *)
(*   late           the text of a genuine append                              *)
(*   points         TRUE if the book points to the row served as the latest   *)
(***************************************************************************)
EXTENDS Integers, SequencesExt, FiniteSetsExt

CONSTANTS CTX, OTHER_CTX, SeedCount

Text(from, n) == [from |-> from, n |-> n, tampered |-> 0]
Row(owner, k, text) ==
    [id |-> <<owner, k>>, owner |-> owner, text |-> text,
     meta |-> [ts |-> k, marked |-> FALSE], seal |-> <<>>]
ForgedId == <<CTX, -1>>
Said(row) == <<row.text, row.meta>>

Contexts == {CTX, OTHER_CTX}
EmptyStore ==
    [rows |-> <<>>, next |-> [c \in Contexts |-> 0],
     book |-> <<>>, held |-> <<>>, memory |-> <<>>]

(* The elements of a sequence at some places of it, in order (the places are    *)
(* bound, so that TLC works them out once).                                  *)
Listing(seq, here) ==
    [k \in 1..Cardinality(here) |->
        seq[CHOOSE i \in here : Cardinality({j \in here : j < i}) = k - 1]]
Picked(seq, here) == CHOOSE list \in {Listing(seq, at) : at \in {here}} : TRUE
(* The rows of a context, and where they are in the table.                   *)
Places(s, owner) == {i \in DOMAIN s.rows : s.rows[i].owner = owner}
View(s, owner) == Picked(s.rows, Places(s, owner))
Names(s, owner) == LET view == View(s, owner) IN [k \in DOMAIN view |-> view[k].id]
Ids(s) == {s.rows[i].id : i \in DOMAIN s.rows}
PlaceOf(s, id) == CHOOSE i \in DOMAIN s.rows : s.rows[i].id = id

AddRows(s, owner, new) == [s EXCEPT !.rows = @ \o new, !.next[owner] = @ + Len(new)]
SeedRows(s, owner) ==
    [k \in 1..SeedCount |->
        Row(owner, s.next[owner] + k - 1, Text(IF owner = CTX THEN "seed" ELSE "other", k - 1))]

-----------------------------------------------------------------------------
(* Raw edits.  The name an ordinal stands for, or <<>>.                      *)

(* Mutant: the listing forgets which context it reads.                         *)
SlotInTheTable(p, s, op, seq) ==
    IF seq + 1 \in DOMAIN s.rows THEN s.rows[seq + 1].id ELSE <<>>
Slot(p, s, op, seq) ==
    LET names == CASE p.slots = "remembered" -> s.memory
                   [] p.slots = "history" /\ op = "write" -> s.book
                   [] OTHER -> Names(s, CTX)
    IN  IF seq + 1 \in DOMAIN names THEN names[seq + 1] ELSE <<>>

(* The store's pointer to its latest row, once the row it named is gone.      *)
Repoint(p, s) ==
    IF p.points /\ s.book \notin Ids(s)
    THEN [s EXCEPT !.book = IF Names(s, CTX) = <<>> THEN <<>> ELSE Last(Names(s, CTX))]
    ELSE s

Taken(old, row, fields) ==
    [old EXCEPT !.text = IF "text" \in fields THEN row.text ELSE @,
                !.meta = IF "meta" \in fields THEN row.meta ELSE @,
                !.seal = IF "seal" \in fields THEN row.seal ELSE @]
Overwrite(s, id, row, fields) ==
    IF id \notin Ids(s) THEN s
    ELSE [s EXCEPT !.rows[PlaceOf(s, id)] = Taken(@, row, fields)]
Without(s, id) ==
    [s EXCEPT !.rows = Picked(@, {i \in DOMAIN s.rows : s.rows[i].id # id})]

(* write_raw of a record into an occupied slot.                              *)
CanWrite(p, s, seq, row) ==
    CASE p.slots = "by_name" -> Slot(p, s, "write", seq) = row.id
      [] p.slots = "history" -> Slot(p, s, "write", seq) \in Ids(s)
      [] OTHER -> TRUE
(* CrewAI's table takes a write past the names remembered as one row more: of   *)
(* the record's name and text, for the rest like the first row of the table.   *)
(* Rows of one name are one row here, as a reading keeps the one put last.      *)
Inserted(s, row, like) ==
    LET new == [like EXCEPT !.id = row.id, !.text = row.text]
    IN  IF row.id \in Ids(s) THEN [s EXCEPT !.rows[PlaceOf(s, row.id)] = new]
        ELSE AddRows(s, CTX, <<new>>)
WriteRow(p, s, seq, row, like) ==
    IF p.slots = "remembered" /\ seq + 1 \notin DOMAIN s.memory
    THEN Inserted(s, row, like)
    ELSE Overwrite(s, Slot(p, s, "write", seq), row, p.takes)

CanTouch(p, s, seq) == Slot(p, s, "touch", seq) # <<>>
(* Mutant: the pointer to the latest row is left on the row deleted.           *)
DeleteRowOnly(p, s, seq) == Without(s, Slot(p, s, "touch", seq))
DeleteRow(p, s, seq) == Repoint(p, Without(s, Slot(p, s, "touch", seq)))
ReplayRow(p, s, seq, donor) == Overwrite(s, Slot(p, s, "touch", seq), donor, p.copies)
(* write_meta: the row is marked, or handed to the other context.            *)
MarkRow(p, s, seq) ==
    LET id == Slot(p, s, "touch", seq) IN
    IF id \notin Ids(s) THEN s
    ELSE IF p.label = "owner" THEN [s EXCEPT !.rows[PlaceOf(s, id)].owner = OTHER_CTX]
    ELSE [s EXCEPT !.rows[PlaceOf(s, id)].meta.marked = TRUE]

(* mutate_payload.                                                          *)
IsSeed(row) == row.text = Text("seed", row.text.n)
CanMutate(p, row) == p.mutates = "seeds_only" => IsSeed(row)
MutatedRow(p, row) ==
    IF p.mutates = "replaces_the_token" /\ ~IsSeed(row) THEN row
    ELSE [row EXCEPT !.text.tampered = @ + 1]

(* forge_record from the last row, and write_raw of what it made.            *)
ForgedRow(p, s, template) ==
    LET row == IF p.forges = "mutated" THEN MutatedRow(p, template)
               ELSE [template EXCEPT !.text = Text("forged", 0)]
    IN  [row EXCEPT !.id = IF p.forges = "its_own_name" THEN ForgedId ELSE <<CTX, s.next[CTX]>>]
CanForge(p, s) ==
    /\ View(s, CTX) # <<>>
    /\ p.forges = "mutated" => CanMutate(p, Last(View(s, CTX)))
    /\ p.forges = "its_own_name" /\ p.slots # "remembered" => ForgedId \notin Ids(s)
ForgeRow(p, s, like) ==
    LET new == ForgedRow(p, s, Last(View(s, CTX)))
        t == AddRows(s, CTX, <<new>>)
    IN  IF p.slots = "remembered" THEN WriteRow(p, s, Len(s.memory), new, like)
        ELSE IF p.points THEN [t EXCEPT !.book = new.id]
        ELSE t

Record(p, row, owner, k) ==
    [seq |-> k - 1, id |-> IF p.names = "its_place" THEN <<owner, k - 1>> ELSE row.id,
     payload |-> row.text, owner |-> owner, fields |-> row]
Records(p, s, owner) ==
    LET view == View(s, owner) IN [k \in DOMAIN view |-> Record(p, view[k], owner, k)]
=============================================================================
