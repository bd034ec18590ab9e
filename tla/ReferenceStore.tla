---------------------------- MODULE ReferenceStore ----------------------------
(***************************************************************************)
(* The reference store in use: the harness seeds it, the tool keeps writing *)
(* through its API, and whoever holds the files edits rows, copies the file *)
(* and puts old copies back, in any order.  reload() of this store is a     *)
(* no-op and has no action.                                                 *)
(***************************************************************************)
EXTENDS RefStore

CONSTANTS MaxEdits,   \* bound: raw edits and restores per store
          REFUSED     \* what a reader gets from a store that does not verify

ASSUME EditsAssumption == MaxEdits \in Nat
ASSUME NoneAssumption ==
    /\ NONE \notin Rows
    /\ NONE \notin Heads
    /\ NONE \notin Witnesses
    /\ NONE \notin Disks
    /\ REFUSED \notin Tags

VARIABLES
    open,      \* the temporary directory exists
    db,        \* the store, as in RefStore
    saved,     \* the copy snapshot_store last returned, or NONE
    genuine,   \* history: the links the API acknowledged in CTX
    edits      \* history: raw edits and restores since setup

vars == <<open, db, saved, genuine, edits>>

TypeOK ==
    /\ open \in BOOLEAN
    /\ db \in Stores
    /\ saved \in Disks \cup {NONE}
    /\ genuine \in Seq(Links)
    /\ edits \in 0..MaxEdits

Init ==
    /\ open = FALSE
    /\ db = [rec |-> EmptyDisk.rec, head |-> EmptyDisk.head, witness |-> NONE]
    /\ saved = NONE
    /\ genuine = <<>>
    /\ edits = 0

-----------------------------------------------------------------------------
(* The harness and the tool. *)

Setup ==
    /\ ~open
    /\ open' = TRUE
    /\ db' = SetUp(db)
    /\ saved' = NONE
    /\ genuine' = <<>>
    /\ edits' = 0

(* The directory is removed; the adapter object and its witness live on. *)
Teardown ==
    /\ open
    /\ open' = FALSE
    /\ db' = SetUp(db)
    /\ genuine' = <<>>
    /\ UNCHANGED <<saved, edits>>

(* seed(n): the harness calls it once per store. *)
Seed ==
    /\ open
    /\ genuine = <<>>
    /\ CanSeed(db, CTX)
    /\ db' = SeedCtx(db, CTX)
    /\ genuine' = SeedLog(CTX)
    /\ UNCHANGED <<open, saved, edits>>

(* seed_other(n): fails, and changes nothing, while any of its rows exists. *)
SeedOther ==
    /\ open
    /\ genuine # <<>>
    /\ CanSeed(db, OTHER_CTX)
    /\ db' = SeedCtx(db, OTHER_CTX)
    /\ UNCHANGED <<open, saved, genuine, edits>>

(* append_genuine(); a refused append raises and changes nothing. *)
Append1 ==
    /\ open
    /\ genuine # <<>>
    /\ CanAppend(db)
    /\ LastSeq(db) < MaxSeq
    /\ db' = AppendGenuine(db)
    /\ genuine' = Append(genuine, LateLink(LastSeq(db) + 1))
    /\ UNCHANGED <<open, saved, edits>>

Api == SeedOther \/ Append1

-----------------------------------------------------------------------------
(* Whoever holds the files.  A record to write is one read from the file,   *)
(* as it was or with its payload changed by one of the adapter's hooks.     *)

RowsOnDisk(ctx) == {db.rec[ctx][i] : i \in Present(db, ctx)}
MayEdit == open /\ genuine # <<>> /\ edits < MaxEdits
Edited == edits' = edits + 1 /\ UNCHANGED <<open, saved, genuine>>

EditWrite ==
    /\ MayEdit
    /\ \E i \in Seqs, row \in RowsOnDisk(CTX) :
         \E written \in {row, MutatePayload(row), ForgeRecord(row)} :
           db' = WriteRaw(db, i, written)
    /\ Edited

EditDelete ==
    /\ MayEdit
    /\ \E i \in Present(db, CTX) : db' = DeleteRaw(db, i)
    /\ Edited

EditReplay ==
    /\ MayEdit
    /\ \E i \in Present(db, CTX), donor \in RowsOnDisk(CTX) \cup RowsOnDisk(OTHER_CTX) :
         db' = ReplayOnto(db, i, donor)
    /\ Edited

EditMeta ==
    /\ MayEdit
    /\ \E i \in Present(db, CTX) : db' = WriteMeta(db, i, MarkMeta(db.rec[CTX][i].meta))
    /\ Edited

(* Copying the file is no edit: the copy only matters once it is put back. *)
TakeCopy ==
    /\ open
    /\ genuine # <<>>
    /\ saved' = SnapshotStore(db)
    /\ UNCHANGED <<open, db, genuine, edits>>

PutBack ==
    /\ MayEdit
    /\ saved # NONE
    /\ db' = RestoreStore(db, saved)
    /\ Edited

Attacker == EditWrite \/ EditDelete \/ EditReplay \/ EditMeta \/ TakeCopy \/ PutBack

Next == Setup \/ Teardown \/ Seed \/ Api \/ Attacker

Spec == Init /\ [][Next]_vars

-----------------------------------------------------------------------------
(* What a reader of CTX gets: the rows in seq order, as links, while the     *)
(* tool vouches for them.                                                    *)

RowLink(i) == [ctx |-> CTX, seq |-> i, content |-> db.rec[CTX][i].content,
               meta |-> db.rec[CTX][i].meta]
Accepted == open /\ Verify(db)

(***************************************************************************)
(* Safety.  A store that verifies holds, in CTX, exactly the rows its API   *)
(* acknowledged: nothing altered, dropped, added, moved or rolled back, by  *)
(* any sequence of edits, copies, restores and further genuine writes       *)
(* (reference_atrest.py:211-239 with the refusal at :118).                  *)
(***************************************************************************)
ServedIsGenuine ==
    Accepted =>
        /\ Present(db, CTX) = 0..(Len(genuine) - 1)
        /\ \A i \in Present(db, CTX) : RowLink(i) = genuine[i + 1]

(***************************************************************************)
(* Safety.  A store nobody edited verifies, and takes the next genuine      *)
(* write: neither a second context, nor a witness left from the store       *)
(* before this one, nor a copy taken, makes it raise a false alarm.         *)
(***************************************************************************)
NoFalseAlarm ==
    open /\ genuine # <<>> /\ edits = 0 => Verify(db) /\ CanAppend(db)

(***************************************************************************)
(* Action property.  A call of the store's own API never turns a store that *)
(* was refused into one that is accepted: a genuine write cannot launder an *)
(* edit made before it (reference_atrest.py:111-117).                       *)
(***************************************************************************)
NoLaundering == [][Api => (Verify(db)' => Verify(db))]_vars

(***************************************************************************)
(* Action property.  Between two seedings the witness only moves forward,   *)
(* onto a head that extends the one it names (reference_atrest.py:111).     *)
(***************************************************************************)
WitnessMovesForward ==
    [][db.witness # NONE /\ db'.witness # db.witness /\ ~Seed =>
         /\ db'.witness # NONE
         /\ db'.witness.seq = db.witness.seq + 1
         /\ SubSeq(db'.witness.tag, 1, Len(db.witness.tag)) = db.witness.tag]_vars

(* The abstract promise, with the acknowledged links as its log.  The rows *)
(* are read in seq order: the k-th has k - 1 rows before it.               *)
ServedLog ==
    IF Accepted
    THEN [k \in 1..Cardinality(Present(db, CTX)) |->
            RowLink(CHOOSE i \in Present(db, CTX) : Cardinality(Below(db, i)) = k - 1)]
    ELSE REFUSED
Promise == INSTANCE TamperEvidentLog WITH Entry <- Links, log <- genuine, served <- ServedLog

(***************************************************************************)
(* Refinement.  The reference store implements the tamper-evident log.      *)
(***************************************************************************)
IsTamperEvidentLog == Promise!Spec
=============================================================================
