------------------------------ MODULE RefStore ------------------------------
(***************************************************************************)
(* The known-good store of the suite, agmi/adapters/reference_atrest.py,   *)
(* as operators on its state.  A state s is a record:                      *)
(*   s.rec      the SQLite table "rec": a row, or NONE, per context and seq *)
(*   s.head     the SQLite table "head": a signed head, or NONE, per context*)
(*   s.witness  the last head of CTX, held in the process and not on disk   *)
(*                                                                         *)
(* A keyed hash is symbolic: the tag of a row is the sequence of every link *)
(* hashed into it, so two tags are equal exactly when the same links were   *)
(* hashed in the same order (HMAC-SHA256 taken as injective), and a         *)
(* signature is the triple it signs.  Whoever writes to the files can copy  *)
(* tags and signatures but has no operator that makes one.                  *)
(***************************************************************************)
EXTENDS Naturals, Sequences, FiniteSetsExt

CONSTANTS
    CTX,         \* the context under attack, "ctx-A"
    OTHER_CTX,   \* the second context, "ctx-B"
    NONE,        \* an absent row, head, witness or saved copy
    SeedCount,   \* how many records seed(n) and seed_other(n) write
    MaxSeq       \* bound: the largest sequence number a row may have

ASSUME CtxAssumption == CTX # OTHER_CTX
ASSUME SizeAssumption == SeedCount \in Nat \ {0} /\ MaxSeq \in Nat /\ SeedCount <= MaxSeq

Ctxs == {CTX, OTHER_CTX}
Seqs == 0..MaxSeq

Contents == [kind : {"seed", "other", "late", "tampered", "forged"}, n : Seqs]
Metas == [owner : Ctxs, ts : Seqs, marked : BOOLEAN]
Links == [ctx : Ctxs, seq : Seqs, content : Contents, meta : Metas]
Tags == Seq(Links)
Rows == [content : Contents, meta : Metas, tag : Tags]
Sigs == Ctxs \X Seqs \X Tags
Heads == [seq : Seqs, tag : Tags, sig : Sigs]
Witnesses == [seq : Seqs, tag : Tags]
Tables == [Ctxs -> [Seqs -> Rows \cup {NONE}]]
HeadTables == [Ctxs -> Heads \cup {NONE}]
Disks == [rec : Tables, head : HeadTables]
Stores == [rec : Tables, head : HeadTables, witness : Witnesses \cup {NONE}]

-----------------------------------------------------------------------------
(* Hashing. *)

Genesis == <<>>
Tag(ctx, seq, content, meta, prev) ==
    Append(prev, [ctx |-> ctx, seq |-> seq, content |-> content, meta |-> meta])
HeadSig(ctx, seq, tag) == <<ctx, seq, tag>>
SignedHead(ctx, seq, tag) == [seq |-> seq, tag |-> tag, sig |-> HeadSig(ctx, seq, tag)]

(* The metadata the store itself writes on the row at seq of a context. *)
OwnMeta(ctx, seq) == [owner |-> ctx, ts |-> seq, marked |-> FALSE]

(* What seed(n) writes: SeedLog(ctx)[i + 1] is the link of row i. *)
SeedContent(ctx, i) == [kind |-> IF ctx = CTX THEN "seed" ELSE "other", n |-> i]
SeedLog(ctx) ==
    [i \in 1..SeedCount |->
        [ctx |-> ctx, seq |-> i - 1, content |-> SeedContent(ctx, i - 1),
         meta |-> OwnMeta(ctx, i - 1)]]
LateContent == [kind |-> "late", n |-> 0]

-----------------------------------------------------------------------------
(* Reading. *)

Present(s, ctx) == {i \in Seqs : s.rec[ctx][i] # NONE}
LastSeq(s) == Max(Present(s, CTX))
Below(s, i) == {j \in Present(s, CTX) : j < i}
PrevTag(s, i) == IF Below(s, i) = {} THEN Genesis ELSE s.rec[CTX][Max(Below(s, i))].tag

-----------------------------------------------------------------------------
(* The store's own API. *)

(* setup() makes both tables; the witness of an adapter that is used again *)
(* keeps its value until the next seed.                                    *)
EmptyDisk == [rec |-> [c \in Ctxs |-> [i \in Seqs |-> NONE]], head |-> [c \in Ctxs |-> NONE]]
SetUp(s) == [s EXCEPT !.rec = EmptyDisk.rec, !.head = EmptyDisk.head]

(* INSERT fails on the first row that exists, and then nothing is committed. *)
CanSeed(s, ctx) == \A i \in 0..(SeedCount - 1) : s.rec[ctx][i] = NONE

SeedRow(ctx, i) ==
    [content |-> SeedContent(ctx, i), meta |-> OwnMeta(ctx, i),
     tag |-> SubSeq(SeedLog(ctx), 1, i + 1)]

(* The witness after seeding a context: only CTX has one.                  *)
(* Mutant: seeding the second context moves the witness too.                *)
WitnessOfAnySeed(s, ctx) == [seq |-> SeedCount - 1, tag |-> SeedLog(ctx)]
WitnessAfterSeed(s, ctx) ==
    IF ctx = CTX THEN [seq |-> SeedCount - 1, tag |-> SeedLog(ctx)] ELSE s.witness

SeedCtx(s, ctx) ==
    [rec |-> [s.rec EXCEPT ![ctx] =
                 [i \in Seqs |-> IF i < SeedCount THEN SeedRow(ctx, i) ELSE @[i]]],
     head |-> [s.head EXCEPT ![ctx] = SignedHead(ctx, SeedCount - 1, SeedLog(ctx))],
     witness |-> WitnessAfterSeed(s, ctx)]

(* append_genuine refuses unless the last row on disk is the witnessed head; *)
(* with no row at all it fails before it compares.                           *)
(* Mutant: the write builds on whatever the disk ends with.                  *)
CanAppendUnwitnessed(s) == Present(s, CTX) # {}
CanAppend(s) ==
    /\ Present(s, CTX) # {}
    /\ s.witness # NONE =>
         s.witness = [seq |-> LastSeq(s), tag |-> s.rec[CTX][LastSeq(s)].tag]

LateLink(seq) == [ctx |-> CTX, seq |-> seq, content |-> LateContent, meta |-> OwnMeta(CTX, seq)]
LateRow(seq, prev) ==
    [content |-> LateContent, meta |-> OwnMeta(CTX, seq), tag |-> Append(prev, LateLink(seq))]

(* The row, the head and the witness written for a new last row at seq.      *)
(* Mutant: the head on disk is one ahead of the row it names.                *)
WriteLateHeadAhead(s, seq, row) ==
    [rec |-> [s.rec EXCEPT ![CTX][seq] = row],
     head |-> [s.head EXCEPT ![CTX] = SignedHead(CTX, seq + 1, row.tag)],
     witness |-> [seq |-> seq, tag |-> row.tag]]
WriteLate(s, seq, row) ==
    [rec |-> [s.rec EXCEPT ![CTX][seq] = row],
     head |-> [s.head EXCEPT ![CTX] = SignedHead(CTX, seq, row.tag)],
     witness |-> [seq |-> seq, tag |-> row.tag]]

AppendGenuine(s) ==
    WriteLate(s, LastSeq(s) + 1, LateRow(LastSeq(s) + 1, s.rec[CTX][LastSeq(s)].tag))

(* verify(), in the order of its checks.                                     *)
(* Mutant: each row is checked against its own tag, not the row before it.   *)
ChainOfLoneRows(s) ==
    \A i \in Present(s, CTX) :
        /\ s.rec[CTX][i].tag # Genesis
        /\ s.rec[CTX][i].tag[Len(s.rec[CTX][i].tag)] =
             Tag(CTX, i, s.rec[CTX][i].content, s.rec[CTX][i].meta, Genesis)[1]
ChainHolds(s) ==
    \A i \in Present(s, CTX) :
        s.rec[CTX][i].tag = Tag(CTX, i, s.rec[CTX][i].content, s.rec[CTX][i].meta, PrevTag(s, i))

HeadSigned(s) == s.head[CTX].sig = HeadSig(CTX, s.head[CTX].seq, s.head[CTX].tag)

HeadIsLastRow(s) ==
    /\ Present(s, CTX) # {}
    /\ LastSeq(s) = s.head[CTX].seq
    /\ s.rec[CTX][LastSeq(s)].tag = s.head[CTX].tag

(* Mutant: the head stored with the rows is trusted, the witness not asked.  *)
WitnessNotAsked(s) == TRUE
HeadIsWitnessed(s) ==
    s.witness # NONE => s.witness = [seq |-> s.head[CTX].seq, tag |-> s.head[CTX].tag]

Verify(s) ==
    /\ s.head[CTX] # NONE
    /\ ChainHolds(s)
    /\ HeadSigned(s)
    /\ HeadIsLastRow(s)
    /\ HeadIsWitnessed(s)

-----------------------------------------------------------------------------
(* The raw file, bypassing the API. *)

WriteRaw(s, i, row) == [s EXCEPT !.rec[CTX][i] = row]
DeleteRaw(s, i) == [s EXCEPT !.rec[CTX][i] = NONE]
(* An UPDATE of a row that is not there changes nothing. *)
ReplayOnto(s, i, donor) == IF s.rec[CTX][i] = NONE THEN s ELSE WriteRaw(s, i, donor)
WriteMeta(s, i, meta) ==
    IF s.rec[CTX][i] = NONE THEN s ELSE WriteRaw(s, i, [s.rec[CTX][i] EXCEPT !.meta = meta])

(* The hooks an edit uses to change what a record says. *)
MutatePayload(row) == [row EXCEPT !.content.kind = "tampered"]
ForgeRecord(row) == [row EXCEPT !.content = [kind |-> "forged", n |-> 0]]
MarkMeta(meta) == [meta EXCEPT !.marked = TRUE]

(* The copy of T9 holds the database file and not the witness.              *)
(* Mutant: the witness is kept beside the store and comes back with it.     *)
SnapshotStore(s) == [rec |-> s.rec, head |-> s.head]
RestoreStoreWithWitness(s, copy) ==
    [s EXCEPT !.rec = copy.rec, !.head = copy.head,
              !.witness = IF copy.head[CTX] = NONE THEN NONE
                          ELSE [seq |-> copy.head[CTX].seq, tag |-> copy.head[CTX].tag]]
RestoreStore(s, copy) == [s EXCEPT !.rec = copy.rec, !.head = copy.head]
=============================================================================
