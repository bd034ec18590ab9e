------------------------------- MODULE OpenFang -------------------------------
(***************************************************************************)
(* The OpenFang audit log in use, before the truncation fix (strict FALSE)  *)
(* and after it (strict TRUE): the tool appends through its API, and whoever *)
(* holds the file edits rows, copies it and puts old copies back, in any     *)
(* order.  reload() of this adapter is a no-op and has no action.           *)
(***************************************************************************)
EXTENDS AuditChain

CONSTANT MaxEdits   \* bound: raw edits and restores per store

ASSUME AuditEditsAssumption == MaxEdits \in Nat
ASSUME AuditNoneAssumption == NONE \notin AuditRows /\ NONE \notin Hashes /\ NONE \notin AuditStores

VARIABLES
    strict,   \* the adapter's strict_tip flag
    open,     \* the temporary directory exists
    db,       \* the store, as in AuditChain
    saved,    \* the copy snapshot_store last returned, or NONE
    hashed,   \* history: every chain the API hashed into a row, from its first link on
    edits     \* history: raw edits and restores since setup

vars == <<strict, open, db, saved, hashed, edits>>

TypeOK ==
    /\ strict \in BOOLEAN
    /\ open \in BOOLEAN
    /\ db \in AuditStores
    /\ saved \in AuditStores \cup {NONE}
    /\ hashed \subseteq Hashes
    /\ edits \in 0..MaxEdits

Init ==
    /\ strict \in BOOLEAN
    /\ open = FALSE
    /\ db = EmptyAudit
    /\ saved = NONE
    /\ hashed = {Genesis}
    /\ edits = 0

(* The chain on disk, as the links a reader of the rows sees in seq order.   *)
Chain(s) ==
    [k \in 1..Cardinality(Present(s)) |->
        LET i == CHOOSE i \in Present(s) : Cardinality(Below(s, i)) = k - 1
        IN  [seq |-> i, body |-> s.rows[i].body]]

-----------------------------------------------------------------------------
(* The harness and the tool. *)

Setup ==
    /\ ~open
    /\ open' = TRUE
    /\ db' = EmptyAudit
    /\ saved' = NONE
    /\ hashed' = {Genesis}
    /\ edits' = 0
    /\ UNCHANGED strict

Teardown ==
    /\ open
    /\ open' = FALSE
    /\ db' = EmptyAudit
    /\ hashed' = {Genesis}
    /\ UNCHANGED <<strict, saved, edits>>

Seed ==
    /\ open
    /\ hashed = {Genesis}
    /\ CanSeed(db)
    /\ db' = SeedAudit(db)
    /\ hashed' = hashed \cup {WalkedTip(db')}
    /\ UNCHANGED <<strict, open, saved, edits>>

Seeded == open /\ hashed # {Genesis}

Append1 ==
    /\ Seeded
    /\ CanAppend(db)
    /\ LastSeq(db) < MaxSeq
    /\ db' = AppendAudit(db)
    /\ hashed' = hashed \cup {WalkedTip(db')}
    /\ UNCHANGED <<strict, open, saved, edits>>

-----------------------------------------------------------------------------
(* Whoever holds the file.  A record to write is one read from it, as it was *)
(* or with its timestamp changed.                                            *)

MayEdit == Seeded /\ edits < MaxEdits
Edited == edits' = edits + 1 /\ UNCHANGED <<strict, open, saved, hashed>>

EditWrite ==
    /\ MayEdit
    /\ \E to \in Seqs, from \in Present(db) :
         \E row \in {db.rows[from], MutatePayload(db.rows[from])} : db' = WriteRaw(db, to, row)
    /\ Edited

EditDelete ==
    /\ MayEdit
    /\ \E i \in Present(db) : db' = DeleteRaw(db, i)
    /\ Edited

RowEdit == EditWrite \/ EditDelete

TakeCopy ==
    /\ Seeded
    /\ saved' = SnapshotStore(db)
    /\ UNCHANGED <<strict, open, db, hashed, edits>>

PutBack ==
    /\ MayEdit
    /\ saved # NONE
    /\ db' = RestoreStore(db, saved)
    /\ Edited

Next == Setup \/ Teardown \/ Seed \/ Append1 \/ RowEdit \/ TakeCopy \/ PutBack

Spec == Init /\ [][Next]_vars

-----------------------------------------------------------------------------
Prefixes(chain) == {SubSeq(chain, 1, k) : k \in 0..Len(chain)}

(***************************************************************************)
(* Safety.  What the log serves was once written by its own API: with the   *)
(* tip kept, exactly a chain some call of the API hashed; without it, a     *)
(* prefix of one.  No sequence of edits, copies, restores and appends     *)
(* makes the log serve an altered, reordered or foreign row                 *)
(* (openfang.py:177-209).  It is less than the reference store promises: an *)
(* older chain, and one appended to after a truncation, are served too.     *)
(***************************************************************************)
ServedWasWritten ==
    open /\ VerifyAudit(db, strict) =>
        IF strict THEN Chain(db) \in hashed
        ELSE \E chain \in hashed : Chain(db) \in Prefixes(chain)

Newest(chain) == \A older \in hashed : older \in Prefixes(chain)

(***************************************************************************)
(* Action property.  Row edits on their own never take a log that verifies  *)
(* to a different one that verifies, except that before the fix rows may     *)
(* leave the end: the one gap tests/test_openfang.py:33 pins.               *)
(***************************************************************************)
OnlyTheTailGoesUnnoticed ==
    [][RowEdit /\ VerifyAudit(db, strict) /\ VerifyAudit(db, strict)' =>
         \/ Chain(db') = Chain(db)
         \/ ~strict /\ Chain(db') \in Prefixes(Chain(db))]_vars

(***************************************************************************)
(* Safety.  A log nobody edited verifies and serves everything appended:    *)
(* the chain it holds extends every chain it ever hashed.                   *)
(***************************************************************************)
UneditedIsNewest ==
    Seeded /\ edits = 0 =>
        /\ VerifyAudit(db, strict)
        /\ Chain(db) \in hashed
        /\ Newest(Chain(db))
=============================================================================
