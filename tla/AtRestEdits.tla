------------------------------ MODULE AtRestEdits ------------------------------
(***************************************************************************)
(* The nine at-rest edits of agmi/attacks/at_rest.py: what each one asks of *)
(* the adapter (its tamper step), and its landed check (control C3).        *)
(*                                                                         *)
(* A record, as the adapter's read methods return it, is                    *)
(*   [seq, id, payload, owner, fields]                                      *)
(* where id, payload and owner are what the guard hooks say of it and       *)
(* fields stands for every stored field.  Positions count from 1.           *)
(***************************************************************************)
EXTENDS SequencesExt

Attacks == {"tamper", "truncate", "delete_middle", "reorder", "forge", "cross_replay",
            "rollback_replay", "metadata_tamper", "snapshot_rollback"}

-----------------------------------------------------------------------------
(* The tamper step, given how many records it reads: the adapter calls it    *)
(* makes, in order.  An edit that needs more records than there are raises.  *)

NeedsAtLeast(attack) ==
    CASE attack \in {"truncate", "reorder", "rollback_replay"} -> 2
      [] attack = "delete_middle" -> 3
      [] attack \in {"cross_replay", "snapshot_rollback"} -> 0
      [] OTHER -> 1

Middle(n) == n \div 2 + 1

Write(to, from, how) == [op |-> "write", to |-> to, from |-> from, how |-> how]
Delete(at) == [op |-> "delete", at |-> at]
ReplayFrom(ctx) == [op |-> "replay", donor |-> ctx]
EditMetaAt(at) == [op |-> "meta", at |-> at]
Call(op) == [op |-> op]

Plan(attack, n) ==
    CASE attack = "tamper" -> <<Write(Middle(n), Middle(n), "mutated")>>
      [] attack = "truncate" -> <<Delete(n), Delete(n - 1)>>
      [] attack = "delete_middle" -> <<Delete(Middle(n))>>
      [] attack = "reorder" -> <<Write(Middle(n), Middle(n) - 1, "as read"),
                                 Write(Middle(n) - 1, Middle(n), "as read")>>
      [] attack = "forge" -> <<Write(n + 1, n, "forged")>>
      [] attack = "cross_replay" -> <<Call("seed_other"), Call("read_both"), ReplayFrom("other")>>
      [] attack = "rollback_replay" -> <<ReplayFrom("own")>>
      [] attack = "metadata_tamper" -> <<EditMetaAt(Middle(n))>>
      [] attack = "snapshot_rollback" ->
           <<Call("snapshot"), Call("append"), Call("read_grown"), Call("restore")>>

-----------------------------------------------------------------------------
(* The landed checks, over the records before and after the edit and what    *)
(* the tamper step noted.                                                    *)

Moved(before, after) == {i \in DOMAIN before : before[i].fields # after[i].fields}
SameRecords(a, b) == Len(a) = Len(b) /\ Moved(a, b) = {}
OnlyMoved(before, after, positions) ==
    Len(before) = Len(after) /\ Moved(before, after) = positions
KeepsSlot(before, after, i) == before[i].id = after[i].id

LandedTamper(before, after) ==
    LET p == Middle(Len(before)) IN
    /\ OnlyMoved(before, after, {p})
    /\ before[p].payload # after[p].payload
    /\ KeepsSlot(before, after, p)

(* Mutant: only the count is compared. *)
LandedTruncateByCount(before, after) == Len(after) = Len(before) - 2
LandedTruncate(before, after) ==
    /\ Len(after) = Len(before) - 2
    /\ SameRecords(SubSeq(before, 1, Len(before) - 2), after)

LandedDeleteMiddle(before, after) ==
    SameRecords(RemoveAt(before, Middle(Len(before))), after)

LandedReorder(before, after) ==
    LET p == Middle(Len(before)) IN
    /\ OnlyMoved(before, after, {p - 1, p})
    /\ before[p - 1].payload # before[p].payload
    /\ after[p - 1].payload = before[p].payload
    /\ after[p].payload = before[p - 1].payload

LandedForge(before, after) ==
    /\ Len(after) = Len(before) + 1
    /\ SameRecords(before, SubSeq(after, 1, Len(before)))
    /\ Last(after).payload # Last(before).payload

LandedCrossReplay(before, after, notes, others) ==
    LET victims == notes.victims
        donor == Last(notes.donors)
        p == Len(victims)
    IN  /\ SameRecords(before, victims)
        /\ \A i \in DOMAIN victims : victims[i].id # donor.id /\ victims[i].payload # donor.payload
        /\ donor.owner # "none" /\ victims[p].owner # "none"
        /\ donor.owner # victims[p].owner
        /\ OnlyMoved(victims, after, {p})
        /\ KeepsSlot(victims, after, p)
        /\ after[p].owner = victims[p].owner
        /\ after[p].payload = donor.payload
        /\ SameRecords(notes.donors, others)

(* Mutant: the newest slot is held against the second oldest record. *)
LandedRollbackToSecond(before, after) ==
    LET p == Len(before) IN
    /\ OnlyMoved(before, after, {p})
    /\ after[p].payload = before[2].payload
LandedRollbackReplay(before, after) ==
    LET p == Len(before) IN
    /\ p >= 2
    /\ before[1].payload # before[p].payload
    /\ OnlyMoved(before, after, {p})
    /\ KeepsSlot(before, after, p)
    /\ after[p].owner = before[p].owner
    /\ after[p].payload = before[1].payload

LandedMetadataTamper(before, after, notes) ==
    LET p == Middle(Len(before)) IN
    /\ notes.metaBefore # notes.metaAfter
    /\ \/ SameRecords(RemoveAt(before, p), after)   \* the record left the context
       \/ /\ Len(before) = Len(after)
          /\ Moved(before, after) \in {{p}, {}}
          /\ after[p].payload = before[p].payload
          /\ KeepsSlot(before, after, p)

LandedSnapshotRollback(before, after, notes) ==
    /\ Len(notes.grown) = Len(before) + 1
    /\ SameRecords(before, SubSeq(notes.grown, 1, Len(before)))
    /\ SameRecords(before, after)

Landed(attack, before, after, notes, others) ==
    CASE attack = "tamper" -> LandedTamper(before, after)
      [] attack = "truncate" -> LandedTruncate(before, after)
      [] attack = "delete_middle" -> LandedDeleteMiddle(before, after)
      [] attack = "reorder" -> LandedReorder(before, after)
      [] attack = "forge" -> LandedForge(before, after)
      [] attack = "cross_replay" -> LandedCrossReplay(before, after, notes, others)
      [] attack = "rollback_replay" -> LandedRollbackReplay(before, after)
      [] attack = "metadata_tamper" -> LandedMetadataTamper(before, after, notes)
      [] attack = "snapshot_rollback" -> LandedSnapshotRollback(before, after, notes)
=============================================================================
