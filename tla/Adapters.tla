------------------------------- MODULE Adapters -------------------------------
(***************************************************************************)
(* The adapter contract (agmi/adapters/base.py) over the stores modelled so *)
(* far, as the attacks see it: read every record, edit raw records, copy and *)
(* restore the store, append, ask the tool.  Kinds of adapter:              *)
(*   reference         the known-good store                                 *)
(*   forgetful         the same, dropping its witness on reload              *)
(*                     (_RestartForgetsWitness of tests/test_compose.py)     *)
(*   openfang, openfang_strict   the audit chain before and after its fix    *)
(*   plain             a store that checks nothing, possibly broken          *)
(*   the 23 of EvidenceStores    third-party stores                          *)
(***************************************************************************)
EXTENDS AtRestEdits

CONSTANTS CTX, OTHER_CTX, NONE, SeedCount, MaxSeq

Ref == INSTANCE RefStore
OF == INSTANCE AuditChain
Plain == INSTANCE PlainTable
V == INSTANCE EvidenceStores

Kinds == {"reference", "forgetful", "openfang", "openfang_strict", "plain"} \cup V!VendorKinds
OnReference(kind) == kind \in {"reference", "forgetful"}
OnOpenFang(kind) == kind \in {"openfang", "openfang_strict"}
OnVendor(kind) == kind \in V!VendorKinds

-----------------------------------------------------------------------------
(* What an adapter declares. *)

SupportsReplay(kind) == ~OnOpenFang(kind)
SupportsMetadata(kind) == ~OnOpenFang(kind)
Supports(kind, attack) ==
    /\ attack \in {"cross_replay", "rollback_replay"} => SupportsReplay(kind)
    /\ attack = "metadata_tamper" => SupportsMetadata(kind)
    /\ attack = "snapshot_rollback" /\ OnVendor(kind) => V!VendorHasCopies(kind)

-----------------------------------------------------------------------------
(* Lifecycle. *)

(* A new adapter object; broken is TRUE for the one that reads both contexts. *)
NewAdapter(kind, broken) ==
    CASE OnReference(kind) ->
           [rec |-> Ref!EmptyDisk.rec, head |-> Ref!EmptyDisk.head, witness |-> NONE]
      [] OnOpenFang(kind) -> OF!EmptyAudit
      [] OnVendor(kind) -> V!VendorSetUp(kind)
      [] OTHER -> Plain!EmptyTable(broken)

SetUp(kind, s) ==
    CASE OnReference(kind) -> Ref!SetUp(s)
      [] OnOpenFang(kind) -> OF!EmptyAudit
      [] OnVendor(kind) -> V!VendorSetUp(kind)
      [] OTHER -> Plain!EmptyTable(s.readsAll)

SeedStore(kind, s) ==
    CASE OnReference(kind) -> Ref!SeedCtx(s, CTX)
      [] OnOpenFang(kind) -> OF!SeedAudit(s)
      [] OnVendor(kind) -> V!VendorSeed(kind, s, CTX)
      [] OTHER -> Plain!SeedTable(s)

Reload(kind, s) ==
    CASE kind = "forgetful" -> [s EXCEPT !.witness = NONE]
      [] OnVendor(kind) -> V!VendorReload(kind, s)
      [] OTHER -> s

Verify(kind, s) ==
    CASE OnReference(kind) -> Ref!Verify(s)
      [] OnOpenFang(kind) -> OF!VerifyAudit(s, kind = "openfang_strict")
      [] OnVendor(kind) -> V!VendorVerify(kind, s)
      [] OTHER -> TRUE
(* The store once it has been asked. *)
Asked(kind, s) == IF OnVendor(kind) THEN V!VendorAsked(kind, s) ELSE s

-----------------------------------------------------------------------------
(* Reading.  A record's fields are what a raw write puts back.               *)

InSeqOrder(present) ==
    [k \in 1..Cardinality(present) |->
        CHOOSE i \in present : Cardinality({j \in present : j < i}) = k - 1]

RefRecord(ctx, seq, row) ==
    [seq |-> seq, id |-> <<ctx, seq>>, payload |-> row.content, owner |-> ctx, fields |-> row]
RefRecords(s, ctx) ==
    LET seqs == InSeqOrder(Ref!Present(s, ctx))
    IN  [k \in DOMAIN seqs |-> RefRecord(ctx, seqs[k], s.rec[ctx][seqs[k]])]

AuditRecords(s) ==
    LET seqs == InSeqOrder(OF!Present(s))
    IN  [k \in DOMAIN seqs |->
            [seq |-> seqs[k], id |-> seqs[k], payload |-> s.rows[seqs[k]].body,
             owner |-> "none", fields |-> s.rows[seqs[k]]]]

PlainRecords(rows) ==
    [k \in DOMAIN rows |->
        [seq |-> k - 1, id |-> rows[k].id, payload |-> rows[k].text,
         owner |-> rows[k].owner, fields |-> rows[k]]]

ReadAll(kind, s) ==
    CASE OnReference(kind) -> RefRecords(s, CTX)
      [] OnOpenFang(kind) -> AuditRecords(s)
      [] OnVendor(kind) -> V!Records(V!Raw(kind), s, CTX)
      [] OTHER -> PlainRecords(Plain!ReadTable(s))

ReadOther(kind, s) ==
    CASE OnReference(kind) -> RefRecords(s, OTHER_CTX)
      [] OnVendor(kind) -> V!Records(V!Raw(kind), s, OTHER_CTX)
      [] OTHER -> PlainRecords(Plain!ReadOtherTable(s))

ReadMeta(s, kind, record) ==
    CASE OnReference(kind) -> s.rec[CTX][record.seq].meta
      [] OnVendor(kind) -> V!View(s, CTX)[record.seq + 1].meta
      [] OTHER -> s.rows[Plain!Slot(s, record.seq)].meta

-----------------------------------------------------------------------------
(* The calls of a plan.  records is what the tamper step read; Effect is the  *)
(* store after the call, for a call that is not Refused.                     *)

Changed(kind, fields, how) ==
    CASE how = "as read" -> fields
      [] how = "mutated" /\ OnReference(kind) -> Ref!MutatePayload(fields)
      [] how = "forged" /\ OnReference(kind) -> Ref!ForgeRecord(fields)
      [] how = "mutated" /\ kind = "plain" -> Plain!Tampered(fields)
      [] how = "forged" /\ kind = "plain" -> Plain!Forged(fields)
      [] how = "mutated" /\ OnVendor(kind) -> V!MutatedRow(V!Raw(kind), fields)
      [] OTHER -> OF!MutatePayload(fields)

SlotFor(records, to) ==
    IF to \in DOMAIN records THEN records[to].seq ELSE Last(records).seq + 1
Victim(kind, s) == Last(ReadAll(kind, s)).seq
Donor(kind, s, ctx) ==
    (IF ctx = "other" THEN Last(ReadOther(kind, s)) ELSE Head(ReadAll(kind, s))).fields

(* The calls an adapter refuses, by raising: its own API's refusals, and the  *)
(* hooks it does not implement.                                              *)
VendorRefused(kind, s, call, records) ==
    LET p == V!Raw(kind) IN
    CASE call.op = "write" /\ call.how = "forged" -> ~V!VendorCanForge(kind, s)
      [] call.op = "write" ->
           LET row == records[call.from].fields
           IN  \/ ~V!CanWrite(p, s, SlotFor(records, call.to), row)
               \/ call.how = "mutated" /\ ~V!CanMutate(p, row)
      [] call.op = "delete" -> ~V!VendorCanDelete(kind, s, records[call.at].seq)
      [] call.op = "append" -> ~V!VendorCanAppend(kind, s)
      [] OTHER -> FALSE
Refused(kind, s, call, records) ==
    LET op == call.op IN
    CASE op = "append" /\ OnReference(kind) -> ~Ref!CanAppend(s)
      [] op = "append" /\ OnOpenFang(kind) -> ~OF!CanAppend(s)
      [] op \in {"seed_other", "replay", "meta"} /\ OnOpenFang(kind) -> TRUE
      [] op = "read_both" -> ReadAll(kind, s) = <<>> \/ ReadOther(kind, s) = <<>>
      [] op = "seed_other" /\ OnReference(kind) -> ~Ref!CanSeed(s, OTHER_CTX)
      [] OnVendor(kind) /\ op # "read_both" -> VendorRefused(kind, s, call, records)
      [] OTHER -> FALSE

RefEffect(kind, s, call, records) ==
    CASE call.op = "write" ->
           Ref!WriteRaw(s, SlotFor(records, call.to), Changed(kind, records[call.from].fields, call.how))
      [] call.op = "delete" -> Ref!DeleteRaw(s, records[call.at].seq)
      [] call.op = "replay" -> Ref!ReplayOnto(s, Victim(kind, s), Donor(kind, s, call.donor))
      [] call.op = "meta" ->
           Ref!WriteMeta(s, records[call.at].seq, Ref!MarkMeta(ReadMeta(s, kind, records[call.at])))
      [] call.op = "seed_other" -> Ref!SeedCtx(s, OTHER_CTX)
      [] call.op = "append" -> Ref!AppendGenuine(s)
      [] OTHER -> s

AuditEffect(kind, s, call, records) ==
    CASE call.op = "write" ->
           OF!WriteRaw(s, SlotFor(records, call.to), Changed(kind, records[call.from].fields, call.how))
      [] call.op = "delete" -> OF!DeleteRaw(s, records[call.at].seq)
      [] call.op = "append" -> OF!AppendAudit(s)
      [] OTHER -> s

PlainEffect(kind, s, call, records) ==
    CASE call.op = "write" ->
           Plain!WriteAt(s, SlotFor(records, call.to), Changed(kind, records[call.from].fields, call.how))
      [] call.op = "delete" -> Plain!DeleteAt(s, records[call.at].seq)
      [] call.op = "replay" -> Plain!ReplayAt(s, Victim(kind, s), Donor(kind, s, call.donor))
      [] call.op = "meta" -> Plain!MarkAt(s, records[call.at].seq)
      [] call.op = "seed_other" -> Plain!SeedOtherTable(s)
      [] call.op = "append" -> Plain!AppendTable(s)
      [] OTHER -> s

VendorEffect(kind, s, call, records) ==
    LET p == V!Raw(kind)
        first == Head(V!View(s, CTX))
    IN
    CASE call.op = "write" /\ call.how = "forged" -> V!VendorForge(kind, s, first)
      [] call.op = "write" ->
           V!WriteRow(p, s, SlotFor(records, call.to), Changed(kind, records[call.from].fields, call.how), first)
      [] call.op = "delete" -> V!VendorDelete(kind, s, records[call.at].seq)
      [] call.op = "replay" -> V!ReplayRow(p, s, Victim(kind, s), Donor(kind, s, call.donor))
      [] call.op = "meta" -> V!MarkRow(p, s, records[call.at].seq)
      [] call.op = "seed_other" -> V!VendorSeed(kind, s, OTHER_CTX)
      [] call.op = "append" -> V!VendorAppend(kind, s)
      [] OTHER -> s

Effect(kind, s, call, records) ==
    CASE OnReference(kind) -> RefEffect(kind, s, call, records)
      [] OnOpenFang(kind) -> AuditEffect(kind, s, call, records)
      [] OnVendor(kind) -> VendorEffect(kind, s, call, records)
      [] OTHER -> PlainEffect(kind, s, call, records)

(* A broken plain adapter: the call is lost, or lands where or how it should  *)
(* not.                                                                      *)
Misfires(s, call, records) ==
    CASE call.op = "write" ->
           LET row == Changed("plain", records[call.from].fields, call.how)
           IN  {s, Plain!WriteById(s, row)} \cup {Plain!WriteAt(s, i, row) : i \in Plain!Ordinals(s)}
      [] call.op = "delete" -> {s} \cup {Plain!DeleteAt(s, i) : i \in Plain!Ordinals(s)}
      [] call.op = "replay" ->
           {s, Plain!ReplayMovesOwner(s, Victim("plain", s), Donor("plain", s, call.donor))}
             \cup {Plain!ReplayAt(s, i, Donor("plain", s, call.donor)) : i \in Plain!Ordinals(s)}
      [] call.op = "meta" -> {s} \cup {Plain!MarkAt(s, i) : i \in Plain!Ordinals(s)}
      [] call.op \in {"append", "restore"} -> {s}
      [] OTHER -> {}

(* The copy of T9 and its restore. *)
Snapshot(kind, s) == IF OnReference(kind) THEN Ref!SnapshotStore(s) ELSE s
Restore(kind, s, copy) ==
    CASE OnReference(kind) -> Ref!RestoreStore(s, copy)
      [] OnVendor(kind) -> V!VendorRestore(kind, s, copy)
      [] OTHER -> copy
=============================================================================
