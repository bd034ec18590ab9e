------------------------------ MODULE AuditChain ------------------------------
(***************************************************************************)
(* OpenFang's audit chain as agmi/adapters/openfang.py models it, as        *)
(* operators on its state.  A state s is a record:                         *)
(*   s.rows   the table audit_entries: a row, or NONE, per seq              *)
(*   s.tip    the row of audit_chain_state, a hash, or NONE                 *)
(* Nothing is kept outside the file.                                       *)
(*                                                                         *)
(* SHA-256 is symbolic and injective: the hash of a row is the sequence of  *)
(* every link hashed into it.  It has no key, but the edits of this suite   *)
(* only ever copy hashes, so no edit has an operator that makes one.        *)
(***************************************************************************)
EXTENDS Naturals, Sequences, FiniteSetsExt

CONSTANTS
    NONE,        \* an absent row or tip
    SeedCount,   \* how many rows seed(n) writes
    MaxSeq       \* bound: the largest seq a row may have

ASSUME AuditSizeAssumption ==
    SeedCount \in Nat \ {0} /\ MaxSeq \in Nat /\ SeedCount <= MaxSeq

Seqs == 0..MaxSeq

(* The hashed columns but seq and prev_hash.  Seeded and late rows differ in *)
(* their timestamp; an edit appends to the timestamp of a row it copies.     *)
Bodies == [kind : {"seed", "late"}, n : Seqs, stamped : BOOLEAN]
Links == [seq : Seqs, body : Bodies]
Hashes == Seq(Links)
AuditRows == [body : Bodies, prev : Hashes, hash : Hashes]
AuditStores == [rows : [Seqs -> AuditRows \cup {NONE}], tip : Hashes \cup {NONE}]

Genesis == <<>>
(* Mutant: the seq is counted up before it is hashed. *)
EntryHashOfNext(seq, body, prev) == Append(prev, [seq |-> seq + 1, body |-> body])
EntryHash(seq, body, prev) == Append(prev, [seq |-> seq, body |-> body])
Entry(seq, body, prev) == [body |-> body, prev |-> prev, hash |-> EntryHash(seq, body, prev)]

SeedBody(i) == [kind |-> "seed", n |-> i, stamped |-> FALSE]
LateBody(i) == [kind |-> "late", n |-> i, stamped |-> FALSE]
SeedChain == [i \in 1..SeedCount |-> [seq |-> i - 1, body |-> SeedBody(i - 1)]]

-----------------------------------------------------------------------------
(* Reading. *)

Present(s) == {i \in Seqs : s.rows[i] # NONE}
LastSeq(s) == Max(Present(s))
Below(s, i) == {j \in Present(s) : j < i}
ExpectedPrev(s, i) == IF Below(s, i) = {} THEN Genesis ELSE s.rows[Max(Below(s, i))].hash

-----------------------------------------------------------------------------
(* The tool's own API. *)

EmptyAudit == [rows |-> [i \in Seqs |-> NONE], tip |-> NONE]

CanSeed(s) == \A i \in 0..(SeedCount - 1) : s.rows[i] = NONE

SeedAudit(s) ==
    [rows |-> [i \in Seqs |-> IF i < SeedCount
                              THEN Entry(i, SeedBody(i), SubSeq(SeedChain, 1, i))
                              ELSE s.rows[i]],
     tip |-> SeedChain]

(* append_genuine builds on whatever row is last on disk; with none it fails. *)
(* Mutant: the tip row is left as it was.                                     *)
AppendAuditKeepsTip(s) ==
    LET seq == LastSeq(s) + 1 IN
    [s EXCEPT !.rows[seq] = Entry(seq, LateBody(seq), s.rows[LastSeq(s)].hash)]
CanAppend(s) == Present(s) # {}
AppendAudit(s) ==
    LET seq == LastSeq(s) + 1
        row == Entry(seq, LateBody(seq), s.rows[LastSeq(s)].hash)
    IN  [rows |-> [s.rows EXCEPT ![seq] = row], tip |-> row.hash]

(* verify(): the forward walk, then the tip when the fix is on.              *)
(* Mutant: a row's prev_hash is taken at its word. *)
LinkNotChecked(s, i) == TRUE
LinkHolds(s, i) == s.rows[i].prev = ExpectedPrev(s, i)
(* Mutant: the stored hash is not recomputed. *)
HashNotRecomputed(s, i) == TRUE
HashHolds(s, i) == s.rows[i].hash = EntryHash(i, s.rows[i].body, s.rows[i].prev)
WalkedTip(s) == IF Present(s) = {} THEN Genesis ELSE s.rows[LastSeq(s)].hash
TipHolds(s, strict) == strict /\ s.tip # NONE => WalkedTip(s) = s.tip

VerifyAudit(s, strict) ==
    /\ \A i \in Present(s) : LinkHolds(s, i) /\ HashHolds(s, i)
    /\ TipHolds(s, strict)

-----------------------------------------------------------------------------
(* The raw file, and the hooks an edit uses to change what a record says.    *)

WriteRaw(s, i, row) == [s EXCEPT !.rows[i] = row]
DeleteRaw(s, i) == [s EXCEPT !.rows[i] = NONE]
(* The first string column is the timestamp; the hash columns are copied.    *)
MutatePayload(row) == [row EXCEPT !.body.stamped = TRUE]
(* The copy of T9 is the file, tip row included. *)
SnapshotStore(s) == s
RestoreStore(s, copy) == copy
=============================================================================
