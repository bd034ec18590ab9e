------------------------- MODULE ReferenceStoreProofs -------------------------
(* Theorems about ReferenceStore, for every SeedCount, MaxSeq and MaxEdits:   *)
(* what the verifier catches; and then, from the line of dashes, that it      *)
(* never raises a false alarm, that its API never launders an edit, and that  *)
(* it implements TamperEvidentLog.                                            *)
EXTENDS ReferenceStore, FiniteSetTheorems, SequenceTheorems, WellFoundedInduction, TLAPS

(* Every non-empty set of naturals has a least element. *)
LEMMA LeastNat ==
    ASSUME NEW S, S \subseteq Nat, S # {}
    PROVE  \E m \in S : \A k \in S : m <= k
<1>1. PICK m \in S : \A k \in S : ~(<<k, m>> \in OpToRel(<, Nat))
  BY NatLessThanWellFounded, WFMin
<1>2. \A k \in S : ~(k < m)
  BY <1>1 DEF OpToRel
<1> QED
  BY <1>2

LEMMA MaxIsChosen ==
    ASSUME NEW S, NEW x \in S, \A y \in S : x >= y
    PROVE  Max(S) \in S /\ \A y \in S : Max(S) >= y
BY DEF Max

(* Max picks the greatest element of a non-empty set of sequence numbers. *)
LEMMA MaxOfSeqs ==
    ASSUME NEW S, S \subseteq Seqs, S # {}
    PROVE  Max(S) \in S /\ \A k \in S : k <= Max(S)
<1> DEFINE T == {MaxSeq - k : k \in S}
<1>a. \A k \in S : k \in Nat /\ MaxSeq - k \in Nat
  BY SizeAssumption DEF Seqs
<1>1. T \subseteq Nat /\ T # {}
  BY <1>a
<1>2. PICK m \in T : \A k \in T : m <= k
  BY <1>1, LeastNat
<1>3. PICK x \in S : m = MaxSeq - x
  BY <1>2
<1>4. ASSUME NEW y \in S PROVE x >= y
  <2>1. MaxSeq - x <= MaxSeq - y
    BY <1>2, <1>3
  <2> QED
    BY <2>1, SizeAssumption DEF Seqs
<1>5. Max(S) \in S /\ \A y \in S : Max(S) >= y
  BY <1>3, <1>4, MaxIsChosen
<1> QED
  BY <1>5, SizeAssumption DEF Seqs

-----------------------------------------------------------------------------
(* Types. *)

LEMMA PresentSeqs == ASSUME NEW s, NEW c PROVE Present(s, c) \subseteq Seqs
BY DEF Present

(* The last row of CTX is there, and no row of CTX comes after it. *)
LEMMA LastSeqProperty ==
    ASSUME NEW s, Present(s, CTX) # {}
    PROVE  /\ LastSeq(s) \in Seqs
           /\ s.rec[CTX][LastSeq(s)] # NONE
           /\ \A i \in Present(s, CTX) : i <= LastSeq(s)
BY MaxOfSeqs, PresentSeqs DEF LastSeq, Present

LEMMA SeedLogType ==
    ASSUME NEW c \in Ctxs
    PROVE  SeedLog(c) \in Seq(Links) /\ Len(SeedLog(c)) = SeedCount
<1>1. \A i \in 1..SeedCount : i - 1 \in Seqs
  BY SizeAssumption DEF Seqs
<1>2. SeedLog(c) \in [1..SeedCount -> Links]
  BY <1>1 DEF SeedLog, Links, Contents, Metas, SeedContent, OwnMeta
<1> QED
  BY <1>2, SizeAssumption

LEMMA SeedRowType ==
    ASSUME NEW c \in Ctxs, NEW i \in Seqs, i < SeedCount
    PROVE  SeedRow(c, i) \in Rows
<1>1. SubSeq(SeedLog(c), 1, i + 1) \in Tags
  BY SeedLogType, SubSeqProperties, SizeAssumption DEF Seqs, Tags
<1> QED
  BY <1>1 DEF SeedRow, Rows, Contents, Metas, SeedContent, OwnMeta

LEMMA LateRowType ==
    ASSUME NEW i \in Seqs, NEW tag \in Tags
    PROVE  LateLink(i) \in Links /\ LateRow(i, tag) \in Rows
<1>1. LateLink(i) \in Links
  BY SizeAssumption DEF LateLink, Links, Contents, Metas, LateContent, OwnMeta, Ctxs, Seqs
<1>2. Append(tag, LateLink(i)) \in Tags
  BY <1>1 DEF Tags
<1> QED
  BY <1>1, <1>2, SizeAssumption DEF LateRow, LateLink, Rows, Contents, Metas, LateContent, OwnMeta,
     Ctxs, Seqs

LEMMA HeadType ==
    ASSUME NEW c \in Ctxs, NEW i \in Seqs, NEW tag \in Tags
    PROVE  SignedHead(c, i, tag) \in Heads /\ [seq |-> i, tag |-> tag] \in Witnesses
BY DEF SignedHead, HeadSig, Heads, Sigs, Witnesses

LEMMA SetUpType == ASSUME NEW s \in Stores PROVE SetUp(s) \in Stores
<1>1. EmptyDisk.rec \in Tables /\ EmptyDisk.head \in HeadTables
  BY DEF EmptyDisk, Tables, HeadTables
<1> QED
  BY <1>1 DEF SetUp, Stores

LEMMA SeedCtxType ==
    ASSUME NEW s \in Stores, NEW c \in Ctxs
    PROVE  SeedCtx(s, c) \in Stores
<1> DEFINE rows == [i \in Seqs |-> IF i < SeedCount THEN SeedRow(c, i) ELSE s.rec[c][i]]
           n == SeedCount - 1
<1>1. rows \in [Seqs -> Rows \cup {NONE}]
  BY SeedRowType DEF Stores, Tables
<1>2. n \in Seqs /\ SeedLog(c) \in Tags
  BY SeedLogType, SizeAssumption DEF Seqs, Tags
<1>3. [s.rec EXCEPT ![c] = rows] \in Tables
  BY <1>1 DEF Stores, Tables
<1>4. [s.head EXCEPT ![c] = SignedHead(c, n, SeedLog(c))] \in HeadTables
  BY <1>2, HeadType DEF Stores, HeadTables
<1>5. WitnessAfterSeed(s, c) \in Witnesses \cup {NONE}
  BY <1>2, HeadType DEF WitnessAfterSeed, Stores
<1>6. SeedCtx(s, c) = [rec |-> [s.rec EXCEPT ![c] = rows],
                       head |-> [s.head EXCEPT ![c] = SignedHead(c, n, SeedLog(c))],
                       witness |-> WitnessAfterSeed(s, c)]
  BY DEF SeedCtx, Stores, Tables
<1> QED
  BY <1>3, <1>4, <1>5, <1>6 DEF Stores

LEMMA WriteRawType ==
    ASSUME NEW s \in Stores, NEW i \in Seqs, NEW row \in Rows \cup {NONE}
    PROVE  WriteRaw(s, i, row) \in Stores /\ [s.rec EXCEPT ![CTX][i] = row] \in Tables
BY DEF WriteRaw, Stores, Tables, Ctxs

LEMMA DeleteRawType ==
    ASSUME NEW s \in Stores, NEW i \in Seqs
    PROVE  DeleteRaw(s, i) \in Stores
BY WriteRawType DEF WriteRaw, DeleteRaw

LEMMA AppendGenuineType ==
    ASSUME NEW s \in Stores, CanAppend(s), LastSeq(s) < MaxSeq
    PROVE  AppendGenuine(s) \in Stores
<1> DEFINE last == s.rec[CTX][LastSeq(s)]
           seq == LastSeq(s) + 1
           row == LateRow(seq, last.tag)
<1>1. LastSeq(s) \in Seqs /\ last # NONE
  BY LastSeqProperty DEF CanAppend
<1>2. last.tag \in Tags /\ seq \in Seqs
  BY <1>1, SizeAssumption DEF Stores, Tables, Rows, Ctxs, Seqs
<1>3. row \in Rows
  BY <1>2, LateRowType
<1>4. row.tag \in Tags
  BY <1>3 DEF Rows
<1> HIDE DEF row, seq
<1>5. [s.rec EXCEPT ![CTX][seq] = row] \in Tables
  BY <1>2, <1>3, WriteRawType
<1>6. SignedHead(CTX, seq, row.tag) \in Heads /\ [seq |-> seq, tag |-> row.tag] \in Witnesses
  BY <1>2, <1>4, HeadType DEF Ctxs
<1>7. [s.head EXCEPT ![CTX] = SignedHead(CTX, seq, row.tag)] \in HeadTables
  BY <1>6 DEF Stores, HeadTables
<1>8. AppendGenuine(s) = [rec |-> [s.rec EXCEPT ![CTX][seq] = row],
                          head |-> [s.head EXCEPT ![CTX] = SignedHead(CTX, seq, row.tag)],
                          witness |-> [seq |-> seq, tag |-> row.tag]]
  BY DEF AppendGenuine, WriteLate, row, seq
<1> QED
  BY <1>5, <1>6, <1>7, <1>8 DEF Stores

(* A row taken from the disk, changed by a hook or not, is a row. *)
LEMMA EditedRowType ==
    ASSUME db \in Stores, NEW c \in Ctxs, NEW i \in Present(db, c)
    PROVE  /\ db.rec[c][i] \in Rows
           /\ MutatePayload(db.rec[c][i]) \in Rows
           /\ ForgeRecord(db.rec[c][i]) \in Rows
           /\ [db.rec[c][i] EXCEPT !.meta = MarkMeta(db.rec[c][i].meta)] \in Rows
<1>1. PICK row \in Rows : row = db.rec[c][i]
  BY DEF Stores, Tables, Present
<1>2. MutatePayload(row) \in Rows
  BY <1>1 DEF MutatePayload, Rows, Contents
<1>3. ForgeRecord(row) \in Rows
  BY <1>1, SizeAssumption DEF ForgeRecord, Rows, Contents, Seqs
<1>4. [row EXCEPT !.meta = MarkMeta(row.meta)] \in Rows
  BY <1>1 DEF MarkMeta, Rows, Metas
<1> QED
  BY <1>1, <1>2, <1>3, <1>4

LEMMA InitTypeOK == Init => TypeOK
<1>1. [rec |-> EmptyDisk.rec, head |-> EmptyDisk.head, witness |-> NONE] \in Stores
  BY DEF EmptyDisk, Stores, Tables, HeadTables
<1>2. <<>> \in Seq(Links) /\ 0 \in 0..MaxEdits
  BY EmptySeq, EditsAssumption
<1> QED
  BY <1>1, <1>2 DEF Init, TypeOK

LEMMA NextTypeOK == TypeOK /\ [Next]_vars => TypeOK'
<1> SUFFICES ASSUME TypeOK, [Next]_vars PROVE TypeOK'
  OBVIOUS
<1> USE DEF TypeOK
<1>1. CASE Setup
  BY <1>1, SetUpType, EmptySeq, EditsAssumption DEF Setup
<1>2. CASE Teardown
  BY <1>2, SetUpType, EmptySeq DEF Teardown
<1>3. CASE Seed
  BY <1>3, SeedCtxType, SeedLogType DEF Seed, Ctxs
<1>4. CASE SeedOther
  BY <1>4, SeedCtxType DEF SeedOther, Ctxs
<1>5. CASE Append1
  <2>1. db' \in Stores
    BY <1>5, AppendGenuineType DEF Append1
  <2>2. LastSeq(db) + 1 \in Seqs
    BY <1>5, LastSeqProperty, SizeAssumption DEF Append1, CanAppend, Seqs
  <2>3. LateLink(LastSeq(db) + 1) \in Links
    BY <2>2, LateRowType DEF Tags
  <2> QED
    BY <1>5, <2>1, <2>3 DEF Append1
<1>6. CASE EditWrite
  <2>1. PICK i \in Seqs, row \in RowsOnDisk(CTX) :
          \E written \in {row, MutatePayload(row), ForgeRecord(row)} : db' = WriteRaw(db, i, written)
    BY <1>6 DEF EditWrite
  <2>2. {row, MutatePayload(row), ForgeRecord(row)} \subseteq Rows
    BY <2>1, EditedRowType DEF RowsOnDisk, Ctxs
  <2>3. db' \in Stores
    BY <2>1, <2>2, WriteRawType
  <2> QED
    BY <1>6, <2>3, EditsAssumption DEF EditWrite, Edited, MayEdit
<1>7. CASE EditDelete
  <2>1. PICK i \in Seqs : db' = DeleteRaw(db, i)
    BY <1>7 DEF EditDelete, Present
  <2>2. db' \in Stores
    BY <2>1, DeleteRawType
  <2> QED
    BY <1>7, <2>2, EditsAssumption DEF EditDelete, Edited, MayEdit
<1>8. CASE EditReplay
  <2>1. PICK i \in Present(db, CTX), donor \in RowsOnDisk(CTX) \cup RowsOnDisk(OTHER_CTX) :
          db' = ReplayOnto(db, i, donor)
    BY <1>8 DEF EditReplay
  <2>2. donor \in Rows
    BY <2>1, EditedRowType DEF RowsOnDisk, Ctxs
  <2>3. db' \in Stores
    BY <2>1, <2>2, WriteRawType DEF ReplayOnto, Present
  <2> QED
    BY <1>8, <2>3, EditsAssumption DEF EditReplay, Edited, MayEdit
<1>9. CASE EditMeta
  <2>1. PICK i \in Present(db, CTX) : db' = WriteMeta(db, i, MarkMeta(db.rec[CTX][i].meta))
    BY <1>9 DEF EditMeta
  <2>2. [db.rec[CTX][i] EXCEPT !.meta = MarkMeta(db.rec[CTX][i].meta)] \in Rows
    BY <2>1, EditedRowType DEF Ctxs
  <2>3. db' \in Stores
    BY <2>1, <2>2, WriteRawType DEF WriteMeta, Present
  <2> QED
    BY <1>9, <2>3, EditsAssumption DEF EditMeta, Edited, MayEdit
<1>10. CASE TakeCopy
  BY <1>10 DEF TakeCopy, SnapshotStore, Stores, Disks
<1>11. CASE PutBack
  <2>1. db' \in Stores
    BY <1>11 DEF PutBack, RestoreStore, Stores, Disks
  <2> QED
    BY <1>11, <2>1, EditsAssumption DEF PutBack, Edited, MayEdit
<1>12. CASE UNCHANGED vars
  BY <1>12 DEF vars
<1> QED
  BY <1>1, <1>2, <1>3, <1>4, <1>5, <1>6, <1>7, <1>8, <1>9, <1>10, <1>11, <1>12
     DEF Next, Api, Attacker

(***************************************************************************)
(* The store keeps its types: in particular no API call or raw edit writes  *)
(* a row, head or witness that reference_atrest.py could not hold.          *)
(***************************************************************************)
THEOREM TypeCorrect == Spec => []TypeOK
BY InitTypeOK, NextTypeOK, PTL DEF Spec

-----------------------------------------------------------------------------
(***************************************************************************)
(* The inductive invariant.  What is known about a live store, whatever was *)
(* done to its files: the witness is the whole acknowledged log, the log is *)
(* numbered from 0 in CTX, and before the seeding there is no head to        *)
(* accept.  Nothing has to be said of the rows: verify() ties them to the    *)
(* witness one link at a time.                                               *)
(***************************************************************************)
Numbered == \A k \in 1..Len(genuine) : genuine[k].ctx = CTX /\ genuine[k].seq = k - 1
Witnessed ==
    genuine # <<>> =>
        db.witness # NONE /\ db.witness = [seq |-> Len(genuine) - 1, tag |-> genuine]
Unseeded == genuine = <<>> => db.head[CTX] = NONE
IInv == TypeOK /\ Numbered /\ Witnessed /\ Unseeded

(* Raw edits and copies touch neither the witness nor the log. *)
LEMMA EditKeepsWitness ==
    ASSUME TypeOK, EditWrite \/ EditDelete \/ EditReplay \/ EditMeta \/ TakeCopy \/ PutBack
    PROVE  db'.witness = db.witness /\ genuine' = genuine /\ genuine # <<>>
<1> USE DEF MayEdit, Edited, TypeOK, Stores
<1>1. CASE EditWrite
  BY <1>1 DEF EditWrite, WriteRaw
<1>2. CASE EditDelete
  BY <1>2 DEF EditDelete, DeleteRaw
<1>3. CASE EditReplay
  BY <1>3 DEF EditReplay, ReplayOnto, WriteRaw
<1>4. CASE EditMeta
  BY <1>4 DEF EditMeta, WriteMeta, WriteRaw
<1>5. CASE TakeCopy
  BY <1>5 DEF TakeCopy
<1>6. CASE PutBack
  BY <1>6 DEF PutBack, RestoreStore
<1> QED
  BY <1>1, <1>2, <1>3, <1>4, <1>5, <1>6

LEMMA InitIInv == Init => IInv
BY InitTypeOK DEF Init, IInv, Numbered, Witnessed, Unseeded, EmptyDisk, Ctxs

LEMMA NextIInv == IInv /\ [Next]_vars => IInv'
<1> SUFFICES ASSUME IInv, [Next]_vars PROVE IInv'
  OBVIOUS
<1>0. TypeOK /\ TypeOK'
  BY NextTypeOK DEF IInv
<1>1. CASE Setup \/ Teardown
  <2>0. EmptyDisk.head[CTX] = NONE
    BY DEF EmptyDisk, Ctxs
  <2>1. genuine' = <<>> /\ db'.head[CTX] = NONE
    BY <1>0, <1>1, <2>0 DEF Setup, Teardown, SetUp, TypeOK, Stores
  <2> QED
    BY <1>0, <2>1 DEF IInv, Numbered, Witnessed, Unseeded
<1>2. CASE Seed
  <2>1. genuine' = SeedLog(CTX) /\ Len(genuine') = SeedCount /\ genuine' # <<>>
    BY <1>2, SeedLogType, SizeAssumption DEF Seed, Ctxs
  <2>2. Numbered'
    BY <2>1 DEF Numbered, SeedLog
  <2>3. db'.witness = [seq |-> SeedCount - 1, tag |-> SeedLog(CTX)]
    BY <1>2 DEF Seed, SeedCtx, WitnessAfterSeed
  <2>4. db'.witness # NONE
    <3>1. SeedCount - 1 \in Seqs /\ SeedLog(CTX) \in Tags
      BY SeedLogType, SizeAssumption DEF Seqs, Tags, Ctxs
    <3> QED
      BY <2>3, <3>1, HeadType, NoneAssumption DEF Ctxs
  <2> QED
    BY <1>0, <2>1, <2>2, <2>3, <2>4 DEF IInv, Witnessed, Unseeded
<1>3. CASE SeedOther
  <2>1. genuine' = genuine /\ genuine # <<>> /\ db'.witness = db.witness
    BY <1>3, CtxAssumption DEF SeedOther, SeedCtx, WitnessAfterSeed
  <2> QED
    BY <1>0, <2>1 DEF IInv, Numbered, Witnessed, Unseeded
<1>4. CASE Append1
  <2> DEFINE seq == LastSeq(db) + 1
             tag == db.rec[CTX][LastSeq(db)].tag
  <2>1. db.witness = [seq |-> Len(genuine) - 1, tag |-> genuine] /\ genuine # <<>>
    BY <1>4 DEF Append1, IInv, Witnessed
  <2>2. db.witness # NONE
    BY <1>4 DEF Append1, IInv, Witnessed
  <2>3. LastSeq(db) = Len(genuine) - 1 /\ tag = genuine
    BY <1>4, <2>1, <2>2 DEF Append1, CanAppend
  <2>4. seq = Len(genuine) /\ genuine \in Seq(Links)
    BY <1>0, <2>3, LenProperties DEF TypeOK
  <2>5. genuine' = Append(genuine, LateLink(seq))
    BY <1>4 DEF Append1
  <2>6. Len(genuine') = Len(genuine) + 1 /\ genuine' # <<>>
    BY <1>0, <2>4, <2>5, AppendProperties DEF TypeOK
  <2>7. Numbered'
    BY <2>4, <2>5, <2>6 DEF IInv, Numbered, LateLink
  <2>8. db'.witness = [seq |-> seq, tag |-> Append(tag, LateLink(seq))]
    BY <1>4 DEF Append1, AppendGenuine, WriteLate, LateRow
  <2>9. db'.witness = [seq |-> Len(genuine') - 1, tag |-> genuine']
    BY <2>3, <2>4, <2>5, <2>6, <2>8
  <2>10. db'.witness # NONE
    <3>1. seq \in Seqs /\ tag \in Tags
      BY <1>0, <1>4, <2>3, <2>4, SizeAssumption DEF Append1, Tags, Seqs
    <3>2. Append(tag, LateLink(seq)) \in Tags
      BY <3>1, LateRowType DEF Tags
    <3> QED
      BY <2>8, <3>1, <3>2, HeadType, NoneAssumption DEF Ctxs
  <2> QED
    BY <1>0, <2>6, <2>7, <2>9, <2>10 DEF IInv, Witnessed, Unseeded
<1>5. CASE Attacker
  BY <1>0, <1>5, EditKeepsWitness DEF Attacker, IInv, Numbered, Witnessed, Unseeded
<1>6. CASE UNCHANGED vars
  BY <1>0, <1>6 DEF vars, IInv, Numbered, Witnessed, Unseeded
<1> QED
  BY <1>1, <1>2, <1>3, <1>4, <1>5, <1>6 DEF Next, Api

LEMMA IInvHolds == Spec => []IInv
BY InitIInv, NextIInv, PTL DEF Spec

-----------------------------------------------------------------------------
(* A row is good when its tag is the acknowledged log up to the row itself. *)
Good(i) == i \in Present(db, CTX) /\ db.rec[CTX][i].tag = SubSeq(genuine, 1, i + 1)

LEMMA RowOfCtxType ==
    ASSUME TypeOK, NEW i \in Present(db, CTX)
    PROVE  i \in Seqs /\ i \in Nat /\ db.rec[CTX][i].tag \in Tags /\ RowLink(i) \in Links
<1>1. i \in Seqs /\ i \in Nat
  BY SizeAssumption DEF Present, Seqs
<1>2. db.rec[CTX][i] \in Rows
  BY EditedRowType DEF TypeOK, Ctxs
<1> QED
  BY <1>1, <1>2 DEF RowLink, Rows, Links, Ctxs

(* Appending one link at a time: the tag determines the link and the tag     *)
(* before it.                                                                *)
LEMMA TagsAreInjective ==
    ASSUME NEW log \in Seq(Links), NEW prev \in Seq(Links), NEW link \in Links,
           NEW i \in Nat, i < Len(log),
           SubSeq(log, 1, i + 1) = Append(prev, link)
    PROVE  link = log[i + 1] /\ prev = SubSeq(log, 1, i)
<1>1. SubSeq(log, 1, i + 1) \in Seq(Links) /\ Len(SubSeq(log, 1, i + 1)) = i + 1
  BY SubSeqProperties, LenProperties
<1>2. \A k \in 1..(i + 1) : SubSeq(log, 1, i + 1)[k] = log[k]
  BY SubSeqProperties, LenProperties
<1>3. Len(prev) = i
  BY <1>1, AppendProperties, LenProperties
<1>4. link = log[i + 1]
  BY <1>2, <1>3, AppendProperties
<1>5. SubSeq(log, 1, i) \in Seq(Links) /\ Len(SubSeq(log, 1, i)) = i
  BY SubSeqProperties, LenProperties
<1>6. \A k \in 1..i : SubSeq(log, 1, i)[k] = log[k]
  BY SubSeqProperties, LenProperties
<1>7. \A k \in 1..i : prev[k] = log[k]
  <2> SUFFICES ASSUME NEW k \in 1..i PROVE prev[k] = log[k]
    OBVIOUS
  <2>1. Append(prev, link)[k] = prev[k]
    BY <1>3, AppendProperties
  <2>2. k \in 1..(i + 1)
    OBVIOUS
  <2>3. SubSeq(log, 1, i + 1)[k] = log[k]
    BY <1>2, <2>2
  <2> QED
    BY <2>1, <2>3
<1>8. prev = SubSeq(log, 1, i)
  BY <1>3, <1>5, <1>6, <1>7, SeqEqual
<1> QED
  BY <1>4, <1>8

(* A good row says what was acknowledged at its place, and the row before it *)
(* is the one numbered one less, and good.                                   *)
LEMMA GoodStep ==
    ASSUME IInv, ChainHolds(db), NEW i \in Nat, i < Len(genuine), Good(i)
    PROVE  RowLink(i) = genuine[i + 1] /\ (i > 0 => Good(i - 1))
<1> DEFINE prev == PrevTag(db, i)
<1>0. TypeOK /\ genuine \in Seq(Links)
  BY DEF IInv, TypeOK
<1>1. db.rec[CTX][i].tag = Append(prev, RowLink(i))
  BY DEF ChainHolds, Tag, RowLink, Good
<1>2. Below(db, i) \subseteq Present(db, CTX)
  BY DEF Below
<1>3. Below(db, i) # {} => Max(Below(db, i)) \in Below(db, i)
  BY <1>2, PresentSeqs, MaxOfSeqs
<1>4. prev \in Seq(Links)
  BY <1>0, <1>2, <1>3, RowOfCtxType, EmptySeq DEF PrevTag, Genesis, Tags
<1>5. RowLink(i) \in Links
  BY <1>0, RowOfCtxType DEF Good
<1>a. SubSeq(genuine, 1, i + 1) = Append(prev, RowLink(i))
  BY <1>1 DEF Good
<1> HIDE DEF prev
<1>6. RowLink(i) = genuine[i + 1] /\ prev = SubSeq(genuine, 1, i)
  BY <1>0, <1>a, <1>4, <1>5, TagsAreInjective
<1> USE DEF prev
<1>7. ASSUME i > 0 PROVE Good(i - 1)
  <2>1. prev # Genesis
    BY <1>0, <1>6, <1>7, SubSeqProperties, EmptySeq, LenProperties DEF Genesis
  <2>2. PICK j \in Below(db, i) : prev = db.rec[CTX][j].tag
    BY <1>3, <2>1 DEF PrevTag
  <2>3. j \in Present(db, CTX) /\ j \in Nat /\ j < i /\ RowLink(j) \in Links
    BY <1>0, <2>2, RowOfCtxType DEF Below
  <2>4. Below(db, j) \subseteq Present(db, CTX)
    BY DEF Below
  <2>5. PrevTag(db, j) \in Seq(Links)
    <3>1. Below(db, j) # {} => Max(Below(db, j)) \in Below(db, j)
      BY <2>4, PresentSeqs, MaxOfSeqs
    <3> QED
      BY <1>0, <2>4, <3>1, RowOfCtxType, EmptySeq DEF PrevTag, Genesis, Tags
  <2>6. SubSeq(genuine, 1, i) = Append(PrevTag(db, j), RowLink(j))
    <3>1. db.rec[CTX][j].tag = Append(PrevTag(db, j), RowLink(j))
      BY <2>3 DEF ChainHolds, Tag, RowLink
    <3> QED
      BY <1>6, <2>2, <3>1
  <2>7. RowLink(j) = genuine[i]
    <3>1. PICK h \in Nat : i = h + 1
      BY <1>7
    <3>2. SubSeq(genuine, 1, h + 1) = Append(PrevTag(db, j), RowLink(j)) /\ h < Len(genuine)
      BY <1>0, <2>6, <3>1, LenProperties
    <3>3. RowLink(j) = genuine[h + 1]
      BY <1>0, <2>3, <2>5, <3>2, TagsAreInjective
    <3> QED
      BY <3>1, <3>3
  <2>8. genuine[i].seq = i - 1
    BY <1>7, <1>0, LenProperties DEF IInv, Numbered
  <2>9. j = i - 1
    BY <2>3, <2>7, <2>8 DEF RowLink
  <2> QED
    BY <1>6, <2>2, <2>3, <2>9 DEF Good
<1> QED
  BY <1>6, <1>7

(* All of the acknowledged log is there, down from the witnessed head. *)
LEMMA AllGood ==
    ASSUME IInv, Verify(db)
    PROVE  /\ genuine # <<>>
           /\ LastSeq(db) = Len(genuine) - 1
           /\ \A i \in 0..(Len(genuine) - 1) : Good(i)
<1>1. genuine # <<>> /\ genuine \in Seq(Links) /\ Len(genuine) \in Nat /\ Len(genuine) > 0
  <2>1. genuine # <<>>
    BY DEF Verify, IInv, Unseeded
  <2> QED
    BY <2>1, EmptySeq, LenProperties DEF IInv, TypeOK
<1>2. LastSeq(db) = Len(genuine) - 1 /\ db.rec[CTX][LastSeq(db)].tag = genuine
  BY <1>1 DEF Verify, HeadIsLastRow, HeadIsWitnessed, IInv, Witnessed
<1>3. Good(Len(genuine) - 1)
  BY <1>1, <1>2, LastSeqProperty, SubSeqFull DEF Good, Verify, HeadIsLastRow, Present
<1> DEFINE L == Len(genuine) - 1
           bad == {k \in 0..L : ~Good(L - k)}
<1>a. L \in Nat
  BY <1>1
<1>4. bad = {}
  <2> SUFFICES ASSUME bad # {} PROVE FALSE
    OBVIOUS
  <2> HIDE DEF L
  <2>1. bad \subseteq Nat
    BY <1>a
  <2>2. PICK m \in bad : \A k \in bad : m <= k
    BY <2>1, LeastNat
  <2>3. m \in 0..L /\ ~Good(L - m)
    OBVIOUS
  <2>4. m # 0
    BY <1>a, <1>3, <2>3 DEF L
  <2>5. m - 1 \in 0..L /\ ~(m <= m - 1)
    BY <1>a, <2>3, <2>4
  <2>6. Good(L - (m - 1))
    BY <2>2, <2>5
  <2>7. PICK i \in Nat : i = L - (m - 1) /\ i <= L /\ i > 0 /\ i - 1 = L - m
    BY <1>a, <2>3, <2>5
  <2>8. i < Len(genuine)
    BY <1>1, <2>7 DEF L
  <2>9. Good(i - 1)
    BY <2>6, <2>7, <2>8, GoodStep DEF Verify
  <2> QED
    BY <2>3, <2>7, <2>9
<1>5. ASSUME NEW i \in 0..L PROVE Good(i)
  <2>1. L - i \in 0..L /\ L - (L - i) = i
    BY <1>a
  <2>2. L - i \notin bad
    BY <1>4
  <2>3. Good(L - (L - i))
    BY <2>1, <2>2
  <2> QED
    BY <2>1, <2>3
<1> QED
  BY <1>1, <1>2, <1>5

LEMMA IInvImpliesServedIsGenuine == IInv => ServedIsGenuine
<1> SUFFICES ASSUME IInv, Accepted PROVE ServedIsGenuine
  BY DEF ServedIsGenuine
<1>1. /\ genuine # <<>>
      /\ LastSeq(db) = Len(genuine) - 1
      /\ \A i \in 0..(Len(genuine) - 1) : Good(i)
  BY AllGood DEF Accepted
<1>2. Len(genuine) \in Nat
  BY LenProperties DEF IInv, TypeOK
<1>3. Present(db, CTX) = 0..(Len(genuine) - 1)
  <2>1. ASSUME NEW i \in Present(db, CTX) PROVE i \in 0..(Len(genuine) - 1)
    <3>1. i <= LastSeq(db) /\ i \in Nat
      BY LastSeqProperty, RowOfCtxType DEF IInv
    <3> QED
      BY <1>1, <1>2, <3>1
  <2>2. ASSUME NEW i \in 0..(Len(genuine) - 1) PROVE i \in Present(db, CTX)
    BY <1>1 DEF Good
  <2> QED
    BY <2>1, <2>2
<1>4. ASSUME NEW i \in Present(db, CTX) PROVE RowLink(i) = genuine[i + 1]
  BY <1>1, <1>2, <1>3, GoodStep DEF Accepted, Verify
<1> QED
  BY <1>3, <1>4 DEF ServedIsGenuine

(***************************************************************************)
(* Whatever is done to the files, and however many genuine writes follow,   *)
(* a store that verifies holds exactly what its API acknowledged.           *)
(***************************************************************************)
THEOREM VerifiedIsGenuine == Spec => []ServedIsGenuine
BY IInvHolds, IInvImpliesServedIsGenuine, PTL

-----------------------------------------------------------------------------
LEMMA PrefixOfAppend ==
    ASSUME NEW t \in Seq(Links), NEW x \in Links
    PROVE  SubSeq(Append(t, x), 1, Len(t)) = t
<1>1. /\ Append(t, x) \in Seq(Links)
      /\ Len(Append(t, x)) = Len(t) + 1
      /\ \A k \in 1..Len(t) : Append(t, x)[k] = t[k]
      /\ Len(t) \in Nat
  BY AppendProperties, LenProperties
<1>2. /\ SubSeq(Append(t, x), 1, Len(t)) \in Seq(Links)
      /\ Len(SubSeq(Append(t, x), 1, Len(t))) = Len(t)
      /\ \A k \in 1..Len(t) : SubSeq(Append(t, x), 1, Len(t))[k] = Append(t, x)[k]
  BY <1>1, SubSeqProperties
<1> QED
  BY <1>1, <1>2, SeqEqual

LEMMA WitnessStep ==
    ASSUME IInv, [Next]_vars, db.witness # NONE, db'.witness # db.witness, ~Seed
    PROVE  /\ db'.witness # NONE
           /\ db'.witness.seq = db.witness.seq + 1
           /\ SubSeq(db'.witness.tag, 1, Len(db.witness.tag)) = db.witness.tag
<1>0. TypeOK /\ TypeOK'
  BY NextTypeOK DEF IInv
<1>1. Append1
  <2>1. CASE Setup \/ Teardown
    BY <1>0, <2>1 DEF Setup, Teardown, SetUp, TypeOK, Stores
  <2>2. CASE SeedOther
    BY <2>2, CtxAssumption DEF SeedOther, SeedCtx, WitnessAfterSeed
  <2>3. CASE Attacker
    BY <1>0, <2>3, EditKeepsWitness DEF Attacker
  <2>4. CASE UNCHANGED vars
    BY <2>4 DEF vars
  <2> QED
    BY <2>1, <2>2, <2>3, <2>4 DEF Next, Api
<1> DEFINE last == LastSeq(db)
           tag == db.rec[CTX][last].tag
<1>2. db.witness = [seq |-> last, tag |-> tag]
  BY <1>1 DEF Append1, CanAppend
<1>3. last + 1 \in Seqs /\ tag \in Seq(Links)
  <2>1. last \in Present(db, CTX)
    BY <1>1, LastSeqProperty DEF Append1, CanAppend, Present
  <2> QED
    BY <1>0, <1>1, <2>1, RowOfCtxType, SizeAssumption DEF Append1, Tags, Seqs
<1>4. LateLink(last + 1) \in Links
  BY <1>3, LateRowType DEF Tags
<1>5. db'.witness = [seq |-> last + 1, tag |-> Append(tag, LateLink(last + 1))]
  BY <1>1 DEF Append1, AppendGenuine, WriteLate, LateRow
<1>6. db'.witness # NONE
  <2>1. Append(tag, LateLink(last + 1)) \in Tags
    BY <1>3, <1>4 DEF Tags
  <2> QED
    BY <1>3, <1>5, <2>1, HeadType, NoneAssumption DEF Ctxs
<1> HIDE DEF last, tag
<1>7. SubSeq(Append(tag, LateLink(last + 1)), 1, Len(tag)) = tag
  BY <1>3, <1>4, PrefixOfAppend
<1>8. db.witness.seq = last /\ db.witness.tag = tag
  BY <1>2
<1> DEFINE longer == Append(tag, LateLink(last + 1))
<1> HIDE DEF longer
<1>9. db'.witness.seq = last + 1 /\ db'.witness.tag = longer
  BY <1>5 DEF longer
<1> USE DEF longer
<1> QED
  BY <1>6, <1>7, <1>8, <1>9

(***************************************************************************)
(* Between two seedings the witness only ever names a head that extends the *)
(* one before it by one record.                                             *)
(***************************************************************************)
THEOREM WitnessForward == Spec => WitnessMovesForward
BY IInvHolds, WitnessStep, PTL DEF Spec, WitnessMovesForward

------------------------------------------------------------------------------

(* A tag that is at most k links long, or is not of the context under attack. *)
Short(tag, k) == Len(tag) <= k \/ tag[1].ctx # CTX

(* The head of these files names the first k links acknowledged, and no row   *)
(* of theirs carries a longer tag: row and head are written together, and     *)
(* files go back together.                                                   *)
HeadCovers(disk, k) ==
    /\ disk.head[CTX] = SignedHead(CTX, k - 1, SubSeq(genuine, 1, k))
    /\ \A c \in Ctxs, i \in Seqs : disk.rec[c][i] # NONE => Short(disk.rec[c][i].tag, k)

Fresh ==
    /\ genuine = <<>> => \A c \in Ctxs, i \in Seqs : db.rec[c][i] = NONE
    /\ genuine # <<>> => open
    /\ open /\ genuine = <<>> => saved = NONE /\ edits = 0
Covered ==
    genuine # <<>> =>
        /\ \E k \in 1..Len(genuine) : HeadCovers(db, k)
        /\ saved # NONE => \E k \in 1..Len(genuine) : HeadCovers(saved, k)

(* A store nobody edited holds the acknowledged log and its head.             *)
OwnRow(i) ==
    [content |-> genuine[i + 1].content, meta |-> genuine[i + 1].meta,
     tag |-> SubSeq(genuine, 1, i + 1)]
Clean ==
    genuine # <<>> /\ edits = 0 =>
        /\ \A i \in Seqs : db.rec[CTX][i] = IF i < Len(genuine) THEN OwnRow(i) ELSE NONE
        /\ db.head[CTX] = SignedHead(CTX, Len(genuine) - 1, genuine)

JInv == IInv /\ Fresh /\ Covered /\ Clean

-----------------------------------------------------------------------------
(* Raw edits copy tags, and leave the head on disk alone.                     *)
CopiesTags(old, new) ==
    /\ new.head = old.head
    /\ \A c \in Ctxs, i \in Seqs : new.rec[c][i] # NONE =>
          \E d \in Ctxs, j \in Seqs :
             old.rec[d][j] # NONE /\ new.rec[c][i].tag = old.rec[d][j].tag

LEMMA WriteCopiesTags ==
    ASSUME NEW s \in Stores, NEW i \in Seqs, NEW row,
           \/ row = NONE
           \/ \E d \in Ctxs, j \in Seqs : s.rec[d][j] # NONE /\ row.tag = s.rec[d][j].tag
    PROVE  CopiesTags(s, WriteRaw(s, i, row))
<1> DEFINE t == WriteRaw(s, i, row)
<1>1. t.head = s.head
  BY DEF WriteRaw, Stores
<1>2. \A c \in Ctxs, k \in Seqs :
         t.rec[c][k] = IF c = CTX /\ k = i THEN row ELSE s.rec[c][k]
  BY DEF WriteRaw, Stores, Tables, Ctxs
<1> QED
  BY <1>1, <1>2 DEF CopiesTags

LEMMA EditCopiesTags ==
    ASSUME TypeOK, EditWrite \/ EditDelete \/ EditReplay \/ EditMeta
    PROVE  CopiesTags(db, db') /\ edits' = edits + 1 /\ UNCHANGED <<open, saved, genuine>>
<1>0. db \in Stores /\ Ctxs = {CTX, OTHER_CTX}
  BY DEF TypeOK, Ctxs
<1>s. CopiesTags(db, db)
  BY DEF CopiesTags
<1>1. CASE EditWrite
  <2>1. PICK i \in Seqs, j \in Present(db, CTX) :
          \E written \in {db.rec[CTX][j], MutatePayload(db.rec[CTX][j]), ForgeRecord(db.rec[CTX][j])} :
             db' = WriteRaw(db, i, written)
    BY <1>1 DEF EditWrite, RowsOnDisk
  <2>2. PICK written : /\ db' = WriteRaw(db, i, written)
                       /\ written \in {db.rec[CTX][j], MutatePayload(db.rec[CTX][j]), ForgeRecord(db.rec[CTX][j])}
    BY <2>1
  <2>3. j \in Seqs /\ db.rec[CTX][j] # NONE /\ db.rec[CTX][j] \in Rows
    BY <1>0, EditedRowType DEF Present
  <2>4. written.tag = db.rec[CTX][j].tag
    BY <2>2, <2>3 DEF MutatePayload, ForgeRecord, Rows
  <2> QED
    BY <1>0, <1>1, <2>2, <2>3, <2>4, WriteCopiesTags DEF EditWrite, Edited
<1>2. CASE EditDelete
  <2>1. PICK i \in Present(db, CTX) : db' = DeleteRaw(db, i)
    BY <1>2 DEF EditDelete
  <2>2. i \in Seqs /\ db' = WriteRaw(db, i, NONE)
    BY <2>1 DEF Present, DeleteRaw, WriteRaw
  <2> QED
    BY <1>0, <1>2, <2>2, WriteCopiesTags DEF EditDelete, Edited
<1>3. CASE EditReplay
  <2>1. PICK i \in Present(db, CTX), donor \in RowsOnDisk(CTX) \cup RowsOnDisk(OTHER_CTX) :
          db' = ReplayOnto(db, i, donor)
    BY <1>3 DEF EditReplay
  <2>2. PICK d \in Ctxs, j \in Seqs : donor = db.rec[d][j] /\ db.rec[d][j] # NONE
    BY <1>0, <2>1 DEF RowsOnDisk, Present
  <2>3. i \in Seqs /\ j \in Seqs /\ db.rec[d][j] # NONE
    BY <2>1, <2>2 DEF Present
  <2>4. db' = WriteRaw(db, i, donor)
    BY <2>1 DEF ReplayOnto, Present
  <2> QED
    BY <1>0, <1>3, <2>2, <2>3, <2>4, WriteCopiesTags DEF EditReplay, Edited
<1>4. CASE EditMeta
  <2>1. PICK i \in Present(db, CTX) : db' = WriteMeta(db, i, MarkMeta(db.rec[CTX][i].meta))
    BY <1>4 DEF EditMeta
  <2> DEFINE row == [db.rec[CTX][i] EXCEPT !.meta = MarkMeta(db.rec[CTX][i].meta)]
  <2>2. i \in Seqs /\ db.rec[CTX][i] # NONE /\ db.rec[CTX][i] \in Rows
    BY <1>0, EditedRowType DEF Present
  <2>3. db' = WriteRaw(db, i, row)
    BY <2>1, <2>2 DEF WriteMeta
  <2>4. row.tag = db.rec[CTX][i].tag
    BY <2>2 DEF Rows
  <2> HIDE DEF row
  <2> QED
    BY <1>0, <1>4, <2>2, <2>3, <2>4, WriteCopiesTags DEF EditMeta, Edited
<1> QED
  BY <1>1, <1>2, <1>3, <1>4

-----------------------------------------------------------------------------
(* The row at seq i of a new log. *)
LEMMA LogOfSeed ==
    /\ SeedLog(CTX) \in Seq(Links) /\ Len(SeedLog(CTX)) = SeedCount
    /\ SubSeq(SeedLog(CTX), 1, SeedCount) = SeedLog(CTX)
    /\ SeedLog(OTHER_CTX) \in Seq(Links) /\ Len(SeedLog(OTHER_CTX)) = SeedCount
BY SeedLogType, SubSeqFull DEF Ctxs

LEMMA SeedTags ==
    ASSUME NEW c \in Ctxs, NEW i \in Seqs, i < SeedCount
    PROVE  /\ Len(SeedRow(c, i).tag) = i + 1
           /\ SeedRow(c, i).tag[1].ctx = c
<1>1. SeedRow(c, i).tag = SubSeq(SeedLog(c), 1, i + 1) /\ i \in Nat /\ SeedCount \in Nat
  BY SizeAssumption DEF SeedRow, Seqs
<1>2. SeedLog(c) \in Seq(Links) /\ Len(SeedLog(c)) = SeedCount /\ SeedLog(c)[1].ctx = c
  BY SeedLogType, SizeAssumption DEF SeedLog
<1> QED
  BY <1>1, <1>2, SubSeqProperties

LEMMA InitJInv == Init => JInv
<1> SUFFICES ASSUME Init PROVE JInv
  OBVIOUS
<1>1. IInv
  BY InitIInv
<1>2. \A c \in Ctxs, i \in Seqs : db.rec[c][i] = NONE
  BY DEF Init, EmptyDisk
<1> QED
  BY <1>1, <1>2 DEF Init, JInv, Fresh, Covered, Clean

LEMMA SetUpJInv ==
    ASSUME JInv, Setup \/ Teardown
    PROVE  JInv'
<1>1. IInv'
  BY NextIInv DEF JInv, Next
<1>2. genuine' = <<>> /\ (open' => saved' = NONE /\ edits' = 0)
  BY DEF Setup, Teardown
<1>3. \A c \in Ctxs, i \in Seqs : db'.rec[c][i] = NONE
  <2>1. db' = SetUp(db) /\ db \in Stores
    BY DEF Setup, Teardown, JInv, IInv, TypeOK
  <2>2. db'.rec = EmptyDisk.rec
    BY <2>1 DEF SetUp, Stores
  <2> QED
    BY <2>2 DEF EmptyDisk
<1> QED
  BY <1>1, <1>2, <1>3 DEF JInv, Fresh, Covered, Clean

LEMMA SeedJInv ==
    ASSUME JInv, Seed
    PROVE  JInv'
<1> DEFINE n == SeedCount
<1>0. TypeOK /\ n \in Nat /\ n > 0 /\ CTX \in Ctxs
  BY SizeAssumption DEF JInv, IInv, Ctxs
<1>1. IInv'
  BY NextIInv DEF JInv, Next
<1>2. /\ genuine' = SeedLog(CTX) /\ db' = SeedCtx(db, CTX) /\ genuine = <<>>
      /\ open' = open /\ open /\ saved' = saved /\ saved = NONE
  BY DEF Seed, JInv, Fresh
<1>3. /\ genuine' \in Seq(Links) /\ Len(genuine') = n /\ SubSeq(genuine', 1, n) = genuine'
      /\ genuine' # <<>>
  BY <1>0, <1>2, LogOfSeed, EmptySeq
<1>4. \A c \in Ctxs, i \in Seqs :
         db'.rec[c][i] = IF c = CTX /\ i < n THEN SeedRow(CTX, i) ELSE NONE
  BY <1>0, <1>2 DEF SeedCtx, JInv, Fresh, TypeOK, Stores, Tables
<1>5. db'.head[CTX] = SignedHead(CTX, n - 1, genuine')
  BY <1>0, <1>2 DEF SeedCtx, TypeOK, Stores, HeadTables
<1>6. HeadCovers(db, n)'
  <2>1. ASSUME NEW c \in Ctxs, NEW i \in Seqs, db'.rec[c][i] # NONE
        PROVE  Short(db'.rec[c][i].tag, n)
    <3>1. i < n /\ db'.rec[c][i] = SeedRow(CTX, i) /\ i \in Nat
      BY <1>4, <2>1, SizeAssumption DEF Seqs
    <3>2. Len(SeedRow(CTX, i).tag) = i + 1
      BY <1>0, <3>1, SeedTags
    <3> QED
      BY <1>0, <3>1, <3>2 DEF Short
  <2> QED
    BY <1>3, <1>5, <2>1 DEF HeadCovers
<1>7. ASSUME NEW i \in Seqs
      PROVE  db'.rec[CTX][i] = IF i < n THEN OwnRow(i)' ELSE NONE
  <2>1. CASE i < n
    <3>1. i + 1 \in 1..n
      BY <1>0, <2>1, SizeAssumption DEF Seqs
    <3>2. SeedLog(CTX)[i + 1].content = SeedContent(CTX, i) /\ SeedLog(CTX)[i + 1].meta = OwnMeta(CTX, i)
      BY <3>1, SizeAssumption DEF SeedLog, Seqs
    <3> QED
      BY <1>0, <1>2, <1>4, <2>1, <3>2 DEF OwnRow, SeedRow
  <2>2. CASE ~(i < n)
    BY <1>0, <1>4, <2>2
  <2> QED
    BY <2>1, <2>2
<1>8. Clean'
  BY <1>3, <1>5, <1>7 DEF Clean
<1> QED
  BY <1>0, <1>1, <1>2, <1>3, <1>6, <1>8 DEF JInv, Fresh, Covered

LEMMA SeedOtherJInv ==
    ASSUME JInv, SeedOther
    PROVE  JInv'
<1>0. TypeOK /\ CTX \in Ctxs /\ OTHER_CTX \in Ctxs /\ CTX # OTHER_CTX
  BY CtxAssumption DEF JInv, IInv, Ctxs
<1>1. IInv'
  BY NextIInv DEF JInv, Next, Api
<1>2. /\ genuine' = genuine /\ genuine # <<>> /\ UNCHANGED <<open, saved, edits>>
      /\ db' = SeedCtx(db, OTHER_CTX)
  BY DEF SeedOther
<1>3. \A c \in Ctxs, i \in Seqs :
         db'.rec[c][i] = IF c = OTHER_CTX /\ i < SeedCount THEN SeedRow(OTHER_CTX, i) ELSE db.rec[c][i]
  BY <1>0, <1>2 DEF SeedCtx, TypeOK, Stores, Tables
<1>4. db'.head[CTX] = db.head[CTX]
  BY <1>0, <1>2 DEF SeedCtx, TypeOK, Stores, HeadTables
<1>5. ASSUME NEW k \in 1..Len(genuine), HeadCovers(db, k)
      PROVE  HeadCovers(db, k)'
  <2>1. ASSUME NEW c \in Ctxs, NEW i \in Seqs, db'.rec[c][i] # NONE
        PROVE  Short(db'.rec[c][i].tag, k)
    <3>1. CASE c = OTHER_CTX /\ i < SeedCount
      BY <1>0, <1>3, <3>1, SeedTags DEF Short
    <3>2. CASE ~(c = OTHER_CTX /\ i < SeedCount)
      BY <1>3, <1>5, <2>1, <3>2 DEF HeadCovers
    <3> QED
      BY <3>1, <3>2
  <2> QED
    BY <1>2, <1>4, <1>5, <2>1 DEF HeadCovers
<1>6. Covered'
  BY <1>2, <1>5 DEF JInv, Covered, HeadCovers
<1>7. Clean'
  BY <1>0, <1>2, <1>3, <1>4 DEF JInv, Clean, OwnRow
<1> QED
  BY <1>1, <1>2, <1>6, <1>7 DEF JInv, Fresh

(* What the first links of a log are does not change as it grows. *)
LEMMA CoversGrown ==
    ASSUME NEW disk, NEW link \in Links, genuine \in Seq(Links),
           genuine' = Append(genuine, link),
           NEW k \in 1..Len(genuine), HeadCovers(disk, k)
    PROVE  /\ k \in 1..Len(genuine')
           /\ disk.head[CTX] = SignedHead(CTX, k - 1, SubSeq(genuine', 1, k))
           /\ \A c \in Ctxs, i \in Seqs : disk.rec[c][i] # NONE => Short(disk.rec[c][i].tag, k)
<1>1. /\ Len(genuine) \in Nat /\ Len(genuine') = Len(genuine) + 1
      /\ \A j \in 1..Len(genuine) : genuine'[j] = genuine[j]
      /\ genuine' \in Seq(Links)
  BY AppendProperties, LenProperties
<1>2. SubSeq(genuine', 1, k) = SubSeq(genuine, 1, k)
  <2>1. SubSeq(genuine', 1, k) \in Seq(Links) /\ Len(SubSeq(genuine', 1, k)) = k
    BY <1>1, SubSeqProperties, ElementOfSeq
  <2>2. SubSeq(genuine, 1, k) \in Seq(Links) /\ Len(SubSeq(genuine, 1, k)) = k
    BY <1>1, SubSeqProperties, ElementOfSeq
  <2>3. \A j \in 1..k : SubSeq(genuine', 1, k)[j] = SubSeq(genuine, 1, k)[j]
    BY <1>1, SubSeqProperties, ElementOfSeq
  <2> QED
    BY <2>1, <2>2, <2>3, SeqEqual
<1>3. k \in 1..Len(genuine')
  BY <1>1
<1> QED
  BY <1>2, <1>3 DEF HeadCovers

LEMMA AppendJInv ==
    ASSUME JInv, Append1
    PROVE  JInv'
<1> DEFINE n == Len(genuine)
<1>0. TypeOK /\ CTX \in Ctxs /\ genuine \in Seq(Links) /\ genuine # <<>> /\ n \in Nat
  BY LenProperties DEF JInv, IInv, Ctxs, TypeOK, Append1
<1>1. IInv'
  BY NextIInv DEF JInv, Next, Api
<1>2. LastSeq(db) = n - 1 /\ db.rec[CTX][LastSeq(db)].tag = genuine
  BY <1>0 DEF Append1, CanAppend, JInv, IInv, Witnessed
<1>3. n \in Seqs /\ LateLink(n) \in Links
  BY <1>0, <1>2, LateRowType, SizeAssumption DEF Append1, Seqs, Tags
<1>4. /\ genuine' = Append(genuine, LateLink(n)) /\ UNCHANGED <<open, saved, edits>>
      /\ db' = WriteLate(db, n, LateRow(n, genuine))
  BY <1>0, <1>2 DEF Append1, AppendGenuine
<1>5. /\ genuine' \in Seq(Links) /\ Len(genuine') = n + 1
      /\ SubSeq(genuine', 1, n + 1) = genuine' /\ genuine' # <<>>
      /\ \A j \in 1..n : genuine'[j] = genuine[j]
      /\ genuine'[n + 1] = LateLink(n)
  <2>1. /\ genuine' \in Seq(Links) /\ Len(genuine') = n + 1
        /\ \A j \in 1..n : genuine'[j] = genuine[j]
        /\ genuine'[n + 1] = LateLink(n)
    BY <1>0, <1>3, <1>4, AppendProperties
  <2> QED
    BY <1>0, <2>1, SubSeqFull, EmptySeq
<1>6. LateRow(n, genuine).tag = genuine'
  BY <1>4 DEF LateRow
<1>7. \A c \in Ctxs, i \in Seqs :
         db'.rec[c][i] = IF c = CTX /\ i = n THEN LateRow(n, genuine) ELSE db.rec[c][i]
  BY <1>0, <1>3, <1>4 DEF WriteLate, TypeOK, Stores, Tables
<1>8. db'.head[CTX] = SignedHead(CTX, n, genuine')
  BY <1>0, <1>4, <1>6 DEF WriteLate, TypeOK, Stores, HeadTables
<1>9. \E k \in 1..Len(genuine') : HeadCovers(db, k)'
  <2>1. PICK k \in 1..n : HeadCovers(db, k)
    BY <1>0 DEF JInv, Covered
  <2>2. ASSUME NEW c \in Ctxs, NEW i \in Seqs, db'.rec[c][i] # NONE
        PROVE  Short(db'.rec[c][i].tag, n + 1)
    <3>1. CASE c = CTX /\ i = n
      BY <1>0, <1>5, <1>6, <1>7, <3>1 DEF Short
    <3>2. CASE ~(c = CTX /\ i = n)
      <4>1. db'.rec[c][i] = db.rec[c][i] /\ db.rec[c][i] # NONE
        BY <1>7, <2>2, <3>2
      <4>2. db.rec[c][i].tag \in Seq(Links)
        BY <1>0, <4>1 DEF TypeOK, Stores, Tables, Rows, Tags
      <4>3. Short(db.rec[c][i].tag, k)
        BY <2>1, <4>1 DEF HeadCovers
      <4> QED
        BY <1>0, <2>1, <4>1, <4>2, <4>3, LenProperties DEF Short
    <3> QED
      BY <3>1, <3>2
  <2>3. PICK m \in 1..Len(genuine') : m = n + 1 /\ m - 1 = n
    BY <1>0, <1>5
  <2>4. HeadCovers(db, m)'
    BY <1>5, <1>8, <2>2, <2>3 DEF HeadCovers
  <2> QED
    BY <2>4
<1>10. ASSUME saved' # NONE PROVE \E k \in 1..Len(genuine') : HeadCovers(saved, k)'
  <2>1. PICK k \in 1..n : HeadCovers(saved, k)
    BY <1>0, <1>4, <1>10 DEF JInv, Covered
  <2>2. k \in 1..Len(genuine') /\ HeadCovers(saved, k)'
    BY <1>0, <1>3, <1>4, <2>1, CoversGrown DEF HeadCovers
  <2> QED
    BY <2>2
<1>11. Clean'
  <2> SUFFICES ASSUME edits = 0 PROVE Clean'
    BY <1>4 DEF Clean
  <2>1. ASSUME NEW i \in Seqs
        PROVE  db'.rec[CTX][i] = IF i < Len(genuine') THEN OwnRow(i)' ELSE NONE
    <3>0. i \in Nat
      BY SizeAssumption DEF Seqs
    <3>1. CASE i = n
      <4>1. db'.rec[CTX][i] = LateRow(n, genuine) /\ i < Len(genuine')
        BY <1>0, <1>5, <1>7, <3>1
      <4>2. genuine'[i + 1] = LateLink(n) /\ SubSeq(genuine', 1, i + 1) = genuine'
        BY <1>5, <3>1
      <4>3. genuine'[i + 1].content = LateContent /\ genuine'[i + 1].meta = OwnMeta(CTX, n)
        BY <4>2 DEF LateLink
      <4> QED
        BY <1>4, <4>1, <4>2, <4>3 DEF OwnRow, LateRow
    <3>2. CASE i < n
      <4>1. db'.rec[CTX][i] = OwnRow(i)
        BY <1>0, <1>7, <3>0, <3>2 DEF JInv, Clean
      <4>2. SubSeq(genuine', 1, i + 1) = SubSeq(genuine, 1, i + 1)
        <5>1. SubSeq(genuine', 1, i + 1) \in Seq(Links) /\ Len(SubSeq(genuine', 1, i + 1)) = i + 1
          BY <1>0, <1>5, <3>0, <3>2, SubSeqProperties, ElementOfSeq
        <5>2. SubSeq(genuine, 1, i + 1) \in Seq(Links) /\ Len(SubSeq(genuine, 1, i + 1)) = i + 1
          BY <1>0, <3>0, <3>2, SubSeqProperties, ElementOfSeq
        <5>3. \A j \in 1..(i + 1) : SubSeq(genuine', 1, i + 1)[j] = SubSeq(genuine, 1, i + 1)[j]
          BY <1>0, <1>5, <3>0, <3>2, SubSeqProperties, ElementOfSeq
        <5> QED
          BY <5>1, <5>2, <5>3, SeqEqual
      <4>3. i + 1 \in 1..n /\ i < Len(genuine')
        BY <1>0, <1>5, <3>0, <3>2
      <4>4. genuine'[i + 1] = genuine[i + 1]
        BY <1>5, <4>3
      <4>5. OwnRow(i)' = OwnRow(i)
        BY <4>2, <4>4 DEF OwnRow
      <4> QED
        BY <4>1, <4>3, <4>5
    <3>3. CASE i > n
      BY <1>0, <1>5, <1>7, <3>0, <3>3 DEF JInv, Clean
    <3> QED
      BY <1>0, <3>0, <3>1, <3>2, <3>3
  <2> QED
    BY <1>0, <1>5, <1>8, <2>1 DEF Clean
<1> QED
  BY <1>0, <1>1, <1>4, <1>5, <1>9, <1>10, <1>11 DEF JInv, Fresh, Covered

LEMMA EditJInv ==
    ASSUME JInv, EditWrite \/ EditDelete \/ EditReplay \/ EditMeta
    PROVE  JInv'
<1>0. TypeOK /\ edits \in Nat
  BY EditsAssumption DEF JInv, IInv, TypeOK
<1>1. IInv'
  BY NextIInv DEF JInv, Next, Attacker
<1>2. CopiesTags(db, db') /\ edits' = edits + 1 /\ UNCHANGED <<open, saved, genuine>> /\ genuine # <<>>
  BY <1>0, EditCopiesTags, EditKeepsWitness
<1>3. ASSUME NEW k \in 1..Len(genuine), HeadCovers(db, k)
      PROVE  HeadCovers(db, k)'
  BY <1>2, <1>3 DEF HeadCovers, CopiesTags
<1>4. Covered'
  BY <1>2, <1>3 DEF JInv, Covered, HeadCovers
<1>5. Clean'
  BY <1>0, <1>2 DEF Clean
<1> QED
  BY <1>1, <1>2, <1>4, <1>5 DEF JInv, Fresh

LEMMA CopyJInv ==
    ASSUME JInv, TakeCopy \/ PutBack
    PROVE  JInv'
<1>0. TypeOK /\ edits \in Nat
  BY EditsAssumption DEF JInv, IInv, TypeOK
<1>1. IInv'
  BY NextIInv DEF JInv, Next, Attacker
<1>2. CASE TakeCopy
  <2>1. /\ UNCHANGED <<open, db, genuine, edits>> /\ open /\ genuine # <<>>
        /\ saved' = [rec |-> db.rec, head |-> db.head]
    BY <1>2 DEF TakeCopy, SnapshotStore
  <2>2. saved'.rec = db.rec /\ saved'.head = db.head
    BY <2>1
  <2>3. Covered'
    BY <2>1, <2>2 DEF JInv, Covered, HeadCovers
  <2>4. Clean'
    BY <2>1 DEF JInv, Clean, OwnRow
  <2> QED
    BY <1>1, <2>1, <2>3, <2>4 DEF JInv, Fresh
<1>3. CASE PutBack
  <2>1. /\ UNCHANGED <<open, saved, genuine>> /\ genuine # <<>> /\ saved # NONE
        /\ edits' = edits + 1
    BY <1>3 DEF PutBack, MayEdit, Edited
  <2>2. db'.rec = saved.rec /\ db'.head = saved.head
    BY <1>0, <1>3 DEF PutBack, RestoreStore, TypeOK, Stores
  <2>3. Covered'
    BY <2>1, <2>2 DEF JInv, Covered, HeadCovers
  <2>4. Clean'
    BY <1>0, <2>1 DEF Clean
  <2> QED
    BY <1>1, <2>1, <2>3, <2>4 DEF JInv, Fresh
<1> QED
  BY <1>2, <1>3

LEMMA NextJInv == JInv /\ [Next]_vars => JInv'
<1> SUFFICES ASSUME JInv, [Next]_vars PROVE JInv'
  OBVIOUS
<1>1. CASE UNCHANGED vars
  <2>1. IInv'
    BY NextIInv DEF JInv
  <2> QED
    BY <1>1, <2>1 DEF vars, JInv, Fresh, Covered, HeadCovers, Clean, OwnRow
<1> QED
  BY <1>1, SetUpJInv, SeedJInv, SeedOtherJInv, AppendJInv, EditJInv, CopyJInv DEF Next, Api, Attacker

LEMMA JInvHolds == Spec => []JInv
BY InitJInv, NextJInv, PTL DEF Spec

-----------------------------------------------------------------------------
(* No false alarm. *)

LEMMA SubSeqGrows ==
    ASSUME NEW log \in Seq(Links), NEW i \in Nat, i < Len(log)
    PROVE  Append(SubSeq(log, 1, i), log[i + 1]) = SubSeq(log, 1, i + 1)
<1>1. Len(log) \in Nat /\ i + 1 \in 1..Len(log) /\ log[i + 1] \in Links
  BY ElementOfSeq, LenProperties
<1>2. /\ SubSeq(log, 1, i) \in Seq(Links) /\ Len(SubSeq(log, 1, i)) = i
      /\ \A k \in 1..i : SubSeq(log, 1, i)[k] = log[k]
  BY <1>1, SubSeqProperties, ElementOfSeq
<1>3. /\ SubSeq(log, 1, i + 1) \in Seq(Links) /\ Len(SubSeq(log, 1, i + 1)) = i + 1
      /\ \A k \in 1..(i + 1) : SubSeq(log, 1, i + 1)[k] = log[k]
  BY <1>1, SubSeqProperties, ElementOfSeq
<1> DEFINE grown == Append(SubSeq(log, 1, i), log[i + 1])
<1>4. /\ grown \in Seq(Links) /\ Len(grown) = i + 1
      /\ \A k \in 1..i : grown[k] = log[k]
      /\ grown[i + 1] = log[i + 1]
  BY <1>1, <1>2, AppendProperties
<1>5. \A k \in 1..(i + 1) : grown[k] = SubSeq(log, 1, i + 1)[k]
  BY <1>3, <1>4
<1> QED
  BY <1>3, <1>4, <1>5, SeqEqual

LEMMA LogLength ==
    ASSUME IInv, genuine # <<>>
    PROVE  /\ genuine \in Seq(Links) /\ Len(genuine) \in Nat /\ Len(genuine) > 0
           /\ Len(genuine) - 1 \in Seqs
<1>1. genuine \in Seq(Links) /\ Len(genuine) \in Nat /\ Len(genuine) > 0
  BY EmptySeq, LenProperties DEF IInv, TypeOK
<1>2. db.witness \in Witnesses /\ db.witness = [seq |-> Len(genuine) - 1, tag |-> genuine]
  BY DEF IInv, Witnessed, TypeOK, Stores
<1> QED
  BY <1>1, <1>2 DEF Witnesses

LEMMA OwnRowType ==
    ASSUME genuine \in Seq(Links), NEW i \in Nat, i < Len(genuine)
    PROVE  OwnRow(i) \in Rows /\ OwnRow(i) # NONE
<1>1. Len(genuine) \in Nat /\ i + 1 \in 1..Len(genuine) /\ genuine[i + 1] \in Links
  BY ElementOfSeq, LenProperties
<1>2. SubSeq(genuine, 1, i + 1) \in Tags
  BY <1>1, SubSeqProperties, ElementOfSeq DEF Tags
<1>3. genuine[i + 1].content \in Contents /\ genuine[i + 1].meta \in Metas
  BY <1>1 DEF Links
<1>4. OwnRow(i) \in Rows
  BY <1>2, <1>3 DEF OwnRow, Rows
<1> QED
  BY <1>4, NoneAssumption

LEMMA CleanVerifies ==
    ASSUME JInv, genuine # <<>>, edits = 0
    PROVE  Verify(db) /\ CanAppend(db)
<1> DEFINE n == Len(genuine)
<1>0. /\ genuine \in Seq(Links) /\ n \in Nat /\ n > 0 /\ n - 1 \in Seqs
      /\ \A i \in Seqs : i \in Nat
  BY LogLength, SizeAssumption DEF JInv, Seqs
<1>1. \A i \in Seqs : db.rec[CTX][i] = IF i < n THEN OwnRow(i) ELSE NONE
  BY DEF JInv, Clean
<1>2. db.head[CTX] = SignedHead(CTX, n - 1, genuine)
  BY DEF JInv, Clean
<1>3. \A i : i \in Present(db, CTX) <=> i \in Nat /\ i < n
  <2>1. \A i \in Nat : i < n => i \in Seqs
    BY <1>0, SizeAssumption DEF Seqs
  <2>2. \A i \in Seqs : i < n => OwnRow(i) # NONE
    BY <1>0, OwnRowType
  <2> QED
    BY <1>0, <1>1, <2>1, <2>2 DEF Present
<1>4. LastSeq(db) = n - 1 /\ Present(db, CTX) # {}
  <2>1. n - 1 \in Present(db, CTX)
    BY <1>0, <1>3
  <2>2. LastSeq(db) \in Present(db, CTX) /\ n - 1 <= LastSeq(db)
    BY <2>1, LastSeqProperty DEF Present
  <2> QED
    BY <1>0, <1>3, <2>1, <2>2
<1>5. \A i \in Nat : i < n => db.rec[CTX][i] = OwnRow(i)
  BY <1>1, <1>3 DEF Present
<1>6. OwnRow(n - 1).tag = genuine
  BY <1>0, SubSeqFull DEF OwnRow
<1>7. ASSUME NEW i \in Nat, i < n
      PROVE  OwnRow(i).tag = Tag(CTX, i, OwnRow(i).content, OwnRow(i).meta, PrevTag(db, i))
  <2>1. PrevTag(db, i) = SubSeq(genuine, 1, i)
    <3>1. CASE i = 0
      <4>1. Below(db, i) = {}
        BY <1>3, <3>1 DEF Below
      <4> QED
        BY <1>0, <3>1, <4>1, SubSeqEmpty DEF PrevTag, Genesis
    <3>2. CASE i > 0
      <4>1. i - 1 \in Below(db, i) /\ Below(db, i) \subseteq Seqs
        BY <1>0, <1>3, <1>7, <3>2, PresentSeqs DEF Below
      <4>2. Max(Below(db, i)) \in Below(db, i) /\ i - 1 <= Max(Below(db, i))
        BY <4>1, MaxOfSeqs
      <4>3. Max(Below(db, i)) = i - 1
        BY <1>0, <1>3, <1>7, <4>2 DEF Below
      <4>4. db.rec[CTX][i - 1] = OwnRow(i - 1)
        BY <1>0, <1>5, <1>7, <3>2
      <4>5. OwnRow(i - 1).tag = SubSeq(genuine, 1, i)
        BY <1>7, <3>2 DEF OwnRow
      <4> QED
        BY <4>1, <4>3, <4>4, <4>5 DEF PrevTag
    <3> QED
      BY <3>1, <3>2
  <2>2. genuine[i + 1] = [ctx |-> CTX, seq |-> i, content |-> OwnRow(i).content, meta |-> OwnRow(i).meta]
    <3>1. i + 1 \in 1..n /\ genuine[i + 1] \in Links
      BY <1>0, <1>7, ElementOfSeq
    <3>2. genuine[i + 1].ctx = CTX /\ genuine[i + 1].seq = i
      BY <1>7, <3>1 DEF JInv, IInv, Numbered
    <3> QED
      BY <3>1, <3>2 DEF Links, OwnRow
  <2> QED
    BY <1>0, <1>7, <2>1, <2>2, SubSeqGrows DEF Tag, OwnRow
<1>8. ChainHolds(db)
  BY <1>3, <1>5, <1>7 DEF ChainHolds
<1>9. db.witness # NONE /\ db.witness = [seq |-> n - 1, tag |-> genuine]
  BY DEF JInv, IInv, Witnessed
<1>10. db.rec[CTX][LastSeq(db)].tag = genuine
  BY <1>0, <1>4, <1>5, <1>6
<1>11. db.head[CTX] # NONE
  BY <1>0, <1>2, HeadType, NoneAssumption DEF Ctxs, Tags
<1> QED
  BY <1>2, <1>4, <1>8, <1>9, <1>10, <1>11
     DEF Verify, HeadSigned, HeadIsLastRow, HeadIsWitnessed, CanAppend, SignedHead

LEMMA JInvImpliesNoFalseAlarm == JInv => NoFalseAlarm
BY CleanVerifies DEF NoFalseAlarm

(***************************************************************************)
(* A store that nobody edited verifies and takes the next write, however it  *)
(* was seeded, copied and appended to, and whatever witness it began with.    *)
(***************************************************************************)
THEOREM UneditedNeverRefused == Spec => []NoFalseAlarm
BY JInvHolds, JInvImpliesNoFalseAlarm, PTL

-----------------------------------------------------------------------------
(* No laundering: a write neither hides an edit nor spoils a good store.      *)

LEMMA VerifySame ==
    ASSUME NEW s, NEW t, s.rec[CTX] = t.rec[CTX], s.head[CTX] = t.head[CTX], s.witness = t.witness
    PROVE  Verify(s) <=> Verify(t)
<1>1. Present(s, CTX) = Present(t, CTX)
  BY DEF Present
<1>2. LastSeq(s) = LastSeq(t) /\ \A i : PrevTag(s, i) = PrevTag(t, i)
  BY <1>1 DEF LastSeq, PrevTag, Below
<1> QED
  BY <1>1, <1>2 DEF Verify, ChainHolds, HeadSigned, HeadIsLastRow, HeadIsWitnessed

(* The store after a genuine write: one more row, over the one that was last. *)
LEMMA AfterAppend ==
    ASSUME JInv, Append1
    PROVE  LET n == Len(genuine) IN
           /\ genuine \in Seq(Links) /\ n \in Nat /\ n > 0 /\ n \in Seqs
           /\ LastSeq(db) = n - 1 /\ n - 1 \in Present(db, CTX)
           /\ db.rec[CTX][n - 1].tag = genuine
           /\ db'.rec[CTX][n] = LateRow(n, genuine) /\ LateRow(n, genuine) # NONE
           /\ \A i \in Seqs : i # n => db'.rec[CTX][i] = db.rec[CTX][i]
           /\ \A i \in Present(db, CTX) : i \in Nat /\ i < n
           /\ Present(db', CTX) = Present(db, CTX) \cup {n}
           /\ \A i \in Present(db, CTX) : PrevTag(db', i) = PrevTag(db, i)
           /\ PrevTag(db', n) = genuine
           /\ genuine' = Append(genuine, LateLink(n)) /\ open' = open
<1> DEFINE n == Len(genuine)
<1>0. TypeOK /\ genuine \in Seq(Links) /\ n \in Nat /\ n > 0
  BY LogLength DEF JInv, IInv, Append1
<1>1. LastSeq(db) = n - 1 /\ db.rec[CTX][n - 1].tag = genuine
  BY <1>0 DEF Append1, CanAppend, JInv, IInv, Witnessed
<1>2. n \in Seqs
  BY <1>0, <1>1, SizeAssumption DEF Append1, Seqs
<1>3. n - 1 \in Present(db, CTX) /\ \A i \in Present(db, CTX) : i \in Nat /\ i < n
  <2>1. LastSeq(db) \in Present(db, CTX) /\ \A i \in Present(db, CTX) : i <= LastSeq(db)
    BY LastSeqProperty DEF Append1, CanAppend, Present
  <2>2. \A i \in Present(db, CTX) : i \in Nat
    BY SizeAssumption DEF Present, Seqs
  <2> QED
    BY <1>0, <1>1, <2>1, <2>2
<1>4. /\ genuine' = Append(genuine, LateLink(n)) /\ open' = open
      /\ db' = WriteLate(db, n, LateRow(n, genuine))
  BY <1>0, <1>1 DEF Append1, AppendGenuine
<1>5. LateRow(n, genuine) # NONE
  BY <1>0, <1>2, LateRowType, NoneAssumption DEF Tags
<1>6. \A i \in Seqs : db'.rec[CTX][i] = IF i = n THEN LateRow(n, genuine) ELSE db.rec[CTX][i]
  BY <1>0, <1>2, <1>4 DEF WriteLate, TypeOK, Stores, Tables, Ctxs
<1>7. Present(db', CTX) = Present(db, CTX) \cup {n}
  BY <1>2, <1>5, <1>6 DEF Present
<1>8. \A i \in Present(db, CTX) : PrevTag(db', i) = PrevTag(db, i)
  <2> SUFFICES ASSUME NEW i \in Present(db, CTX) PROVE PrevTag(db', i) = PrevTag(db, i)
    OBVIOUS
  <2>1. Below(db', i) = Below(db, i)
    BY <1>0, <1>3, <1>7 DEF Below
  <2>2. Below(db, i) # {} => Max(Below(db, i)) \in Below(db, i)
    BY PresentSeqs, MaxOfSeqs DEF Below
  <2>3. \A j \in Below(db, i) : db'.rec[CTX][j] = db.rec[CTX][j]
    BY <1>3, <1>6, PresentSeqs DEF Below
  <2> QED
    BY <2>1, <2>2, <2>3 DEF PrevTag
<1>9. PrevTag(db', n) = genuine
  <2>1. Below(db', n) = Present(db, CTX)
    BY <1>0, <1>3, <1>7 DEF Below
  <2>2. Max(Below(db', n)) = n - 1 /\ Below(db', n) # {}
    BY <1>1, <1>3, <2>1 DEF LastSeq
  <2>3. db'.rec[CTX][n - 1] = db.rec[CTX][n - 1]
    BY <1>0, <1>3, <1>6, PresentSeqs
  <2> QED
    BY <1>1, <2>2, <2>3 DEF PrevTag
<1> QED
  BY <1>0, <1>1, <1>2, <1>3, <1>4, <1>5, <1>6, <1>7, <1>8, <1>9

(* A store that takes a write has the whole acknowledged log in its head.     *)
LEMMA HeadOfWritable ==
    ASSUME JInv, Append1
    PROVE  /\ db.head[CTX] = SignedHead(CTX, Len(genuine) - 1, genuine)
           /\ db.head[CTX] # NONE
<1> DEFINE n == Len(genuine)
<1>1. /\ genuine \in Seq(Links) /\ n \in Nat /\ n > 0 /\ n - 1 \in Present(db, CTX)
      /\ db.rec[CTX][n - 1].tag = genuine
  BY AfterAppend
<1>2. PICK k \in 1..n : HeadCovers(db, k)
  BY DEF Append1, JInv, Covered
<1>3. n - 1 \in Seqs /\ db.rec[CTX][n - 1] # NONE
  BY <1>1 DEF Present
<1>4. Short(genuine, k)
  BY <1>1, <1>2, <1>3 DEF HeadCovers, Ctxs
<1>5. genuine[1].ctx = CTX
  BY <1>1 DEF JInv, IInv, Numbered
<1>6. k = n
  BY <1>1, <1>4, <1>5 DEF Short
<1>7. db.head[CTX] = SignedHead(CTX, n - 1, genuine)
  BY <1>1, <1>2, <1>6, SubSeqFull DEF HeadCovers
<1>8. SignedHead(CTX, n - 1, genuine) # NONE
  BY <1>1, <1>3, HeadType, NoneAssumption DEF Ctxs, Tags
<1> QED
  BY <1>7, <1>8

LEMMA AppendKeepsVerdict ==
    ASSUME JInv, Append1
    PROVE  Verify(db') <=> Verify(db)
<1> DEFINE n == Len(genuine)
<1> DEFINE row == LateRow(n, genuine)
<1>1. /\ genuine \in Seq(Links) /\ n \in Nat /\ n > 0 /\ n \in Seqs
      /\ LastSeq(db) = n - 1 /\ n - 1 \in Present(db, CTX)
      /\ db.rec[CTX][n - 1].tag = genuine
      /\ db'.rec[CTX][n] = row
      /\ \A i \in Seqs : i # n => db'.rec[CTX][i] = db.rec[CTX][i]
      /\ \A i \in Present(db, CTX) : i \in Nat /\ i < n
      /\ Present(db', CTX) = Present(db, CTX) \cup {n}
      /\ \A i \in Present(db, CTX) : PrevTag(db', i) = PrevTag(db, i)
      /\ PrevTag(db', n) = genuine
  BY AfterAppend
<1>2. \A i \in Present(db, CTX) : i \in Seqs /\ i # n /\ db'.rec[CTX][i] = db.rec[CTX][i]
  BY <1>1, PresentSeqs
<1>3. row.tag = Tag(CTX, n, row.content, row.meta, genuine)
  BY DEF LateRow, LateLink, Tag
<1> HIDE DEF row
<1>4. ChainHolds(db') <=> ChainHolds(db)
  BY <1>1, <1>2, <1>3 DEF ChainHolds
<1>5. Verify(db) <=> ChainHolds(db)
  <2>1. db.head[CTX] = SignedHead(CTX, n - 1, genuine) /\ db.head[CTX] # NONE
    BY HeadOfWritable
  <2>2. db.witness = [seq |-> n - 1, tag |-> genuine]
    BY DEF Append1, JInv, IInv, Witnessed
  <2> QED
    BY <1>1, <2>1, <2>2 DEF Verify, HeadSigned, HeadIsLastRow, HeadIsWitnessed, SignedHead
<1>6. Verify(db') <=> ChainHolds(db')
  <2>1. db' = WriteLate(db, n, row) /\ db \in Stores
    BY <1>1 DEF Append1, AppendGenuine, JInv, IInv, TypeOK, row
  <2>2. db'.head[CTX] = SignedHead(CTX, n, row.tag) /\ db'.witness = [seq |-> n, tag |-> row.tag]
    BY <2>1 DEF WriteLate, Stores, HeadTables, Ctxs
  <2>3. LastSeq(db') = n
    <3>1. LastSeq(db') \in Present(db', CTX) /\ n <= LastSeq(db')
      BY <1>1, LastSeqProperty DEF Present
    <3> QED
      BY <1>1, <3>1
  <2>4. db'.head[CTX] # NONE
    <3>1. row.tag \in Tags
      BY <1>1, LateRowType DEF Rows, Tags, row
    <3> QED
      BY <1>1, <2>2, <3>1, HeadType, NoneAssumption DEF Ctxs
  <2> QED
    BY <1>1, <2>2, <2>3, <2>4 DEF Verify, HeadSigned, HeadIsLastRow, HeadIsWitnessed, SignedHead
<1> QED
  BY <1>4, <1>5, <1>6

LEMMA ApiKeepsVerdict ==
    ASSUME JInv, Api
    PROVE  Verify(db') <=> Verify(db)
<1>1. CASE SeedOther
  <2>1. db \in Stores /\ db' = SeedCtx(db, OTHER_CTX)
    BY <1>1 DEF SeedOther, JInv, IInv, TypeOK
  <2>2. db'.rec[CTX] = db.rec[CTX] /\ db'.head[CTX] = db.head[CTX] /\ db'.witness = db.witness
    BY <2>1, CtxAssumption DEF SeedCtx, WitnessAfterSeed, Stores, Tables, HeadTables, Ctxs
  <2> QED
    BY <2>2, VerifySame
<1> QED
  BY <1>1, AppendKeepsVerdict DEF Api

(***************************************************************************)
(* No call of the API turns a refused store into an accepted one.            *)
(***************************************************************************)
THEOREM WritesNeverLaunder == Spec => NoLaundering
<1>1. JInv /\ [Next]_vars => [Api => (Verify(db)' => Verify(db))]_vars
  BY ApiKeepsVerdict
<1> QED
  BY <1>1, JInvHolds, PTL DEF Spec, NoLaundering

-----------------------------------------------------------------------------
(* The refinement.  The rows read in seq order are the acknowledged log.      *)

LEMMA ServedIsLog == IInv => ServedLog = IF Accepted THEN genuine ELSE REFUSED
<1> SUFFICES ASSUME IInv, Accepted PROVE ServedLog = genuine
  BY DEF ServedLog
<1> DEFINE n == Len(genuine)
           place(k) == CHOOSE i \in Present(db, CTX) : Cardinality(Below(db, i)) = k - 1
<1>1. genuine \in Seq(Links) /\ n \in Nat
  BY LenProperties DEF IInv, TypeOK
<1>2. Present(db, CTX) = 0..(n - 1) /\ \A i \in Present(db, CTX) : RowLink(i) = genuine[i + 1]
  BY IInvImpliesServedIsGenuine DEF ServedIsGenuine
<1>3. Cardinality(Present(db, CTX)) = n
  <2> HIDE DEF n
  <2>1. 0 \in Int /\ n - 1 \in Int
    BY <1>1
  <2>2. Cardinality(0..(n - 1)) = IF 0 > n - 1 THEN 0 ELSE (n - 1) - 0 + 1
    BY <2>1, FS_Interval
  <2>3. Cardinality(0..(n - 1)) = n
    BY <1>1, <2>2
  <2> QED
    BY <1>2, <2>3
<1>4. \A i \in Present(db, CTX) : Cardinality(Below(db, i)) = i
  <2> SUFFICES ASSUME NEW i \in Present(db, CTX) PROVE Cardinality(Below(db, i)) = i
    OBVIOUS
  <2>1. Below(db, i) = 0..(i - 1) /\ i \in Nat
    BY <1>1, <1>2 DEF Below
  <2> QED
    BY <2>1, FS_Interval
<1>5. ASSUME NEW k \in 1..n PROVE RowLink(place(k)) = genuine[k]
  <2>1. k - 1 \in Present(db, CTX) /\ Cardinality(Below(db, k - 1)) = k - 1
    BY <1>1, <1>2, <1>4
  <2>2. place(k) \in Present(db, CTX) /\ Cardinality(Below(db, place(k))) = k - 1
    BY <2>1
  <2>3. place(k) = k - 1
    BY <1>4, <2>2
  <2>4. k - 1 + 1 = k
    OBVIOUS
  <2>5. RowLink(k - 1) = genuine[k]
    BY <1>2, <2>1, <2>4
  <2> HIDE DEF place
  <2> QED
    BY <2>3, <2>5
<1> HIDE DEF place
<1>6. ServedLog = [k \in 1..n |-> RowLink(place(k))]
  BY <1>3 DEF ServedLog, place
<1>7. ServedLog \in Seq(Links) /\ Len(ServedLog) = n
  <2>1. \A k \in 1..n : genuine[k] \in Links
    BY <1>1, ElementOfSeq
  <2>2. ServedLog \in [1..n -> Links]
    BY <1>5, <1>6, <2>1
  <2> QED
    BY <1>1, <2>2
<1> QED
  BY <1>1, <1>5, <1>6, <1>7, SeqEqual

(* What the log and the answer are, before and after a step. *)
Answered(log, answer) ==
    /\ log \in Seq(Links) /\ log # REFUSED
    /\ answer = IF Accepted THEN log ELSE REFUSED
    /\ Accepted => log # <<>>

LEMMA AnswerOfInv == IInv => Answered(genuine, ServedLog)
<1> SUFFICES ASSUME IInv PROVE Answered(genuine, ServedLog)
  OBVIOUS
<1>1. genuine \in Seq(Links) /\ genuine # REFUSED
  BY NoneAssumption DEF IInv, TypeOK, Tags
<1>2. Accepted => genuine # <<>>
  BY AllGood DEF Accepted
<1> QED
  BY <1>1, <1>2, ServedIsLog DEF Answered

LEMMA StepRefines ==
    ASSUME JInv, JInv', [Next]_vars,
           Answered(genuine, ServedLog), Answered(genuine, ServedLog)'
    PROVE  [Promise!Next]_(Promise!vars)
<1> USE DEF Promise!vars, Promise!Next
<1>0. /\ genuine \in Seq(Links) /\ genuine' \in Seq(Links)
      /\ genuine # REFUSED /\ genuine' # REFUSED
      /\ ServedLog = IF Accepted THEN genuine ELSE REFUSED
      /\ ServedLog' = IF Accepted' THEN genuine' ELSE REFUSED
      /\ Accepted => genuine # <<>>
      /\ Accepted' => genuine' # <<>>
  BY DEF Answered
<1>1. CASE Setup \/ Teardown
  <2>1. genuine' = <<>>
    BY <1>1 DEF Setup, Teardown
  <2> QED
    BY <1>0, <2>1 DEF Promise!Reset
<1>2. CASE Seed
  <2>1. genuine = <<>> /\ open' = open /\ open /\ genuine' = SeedLog(CTX) /\ edits' = edits
    BY <1>2 DEF Seed
  <2>2. genuine' # <<>>
    BY <2>1, LogOfSeed, SizeAssumption, EmptySeq
  <2>3. edits' = 0
    BY <2>1 DEF JInv, Fresh
  <2>4. Verify(db')
    <3>1. NoFalseAlarm'
      BY JInvImpliesNoFalseAlarm, PTL
    <3> QED
      BY <2>1, <2>2, <2>3, <3>1 DEF NoFalseAlarm
  <2>5. Accepted'
    BY <2>1, <2>4 DEF Accepted
  <2> QED
    BY <1>0, <2>1, <2>2, <2>5 DEF Promise!Seed
<1>3. CASE Append1
  <2>1. /\ genuine' = Append(genuine, LateLink(Len(genuine))) /\ open' = open
        /\ genuine # <<>> /\ Len(genuine) \in Seqs
    BY <1>3, AfterAppend DEF Append1
  <2>2. LateLink(Len(genuine)) \in Links
    BY <1>0, <2>1, LateRowType DEF Tags
  <2>3. Len(genuine') = Len(genuine) + 1 /\ SubSeq(genuine', 1, Len(genuine)) = genuine
    BY <1>0, <2>1, <2>2, PrefixOfAppend, AppendProperties
  <2>4. Accepted' <=> Accepted
    BY <1>3, <2>1, AppendKeepsVerdict DEF Accepted
  <2> QED
    BY <1>0, <2>1, <2>3, <2>4 DEF Promise!Write
<1>4. CASE SeedOther \/ Attacker
  <2>1. genuine' = genuine /\ genuine # <<>>
    BY <1>4, EditKeepsWitness DEF SeedOther, Attacker, JInv, IInv
  <2> QED
    BY <1>0, <2>1 DEF Promise!Disturb
<1>5. CASE UNCHANGED vars
  <2>1. genuine' = genuine /\ (Accepted' <=> Accepted)
    BY <1>5 DEF vars, Accepted
  <2> QED
    BY <1>0, <2>1
<1> QED
  BY <1>1, <1>2, <1>3, <1>4, <1>5 DEF Next, Api

(***************************************************************************)
(* The reference store implements the tamper-evident log, whatever the size  *)
(* of the store and the number of edits: a reader is served every entry the   *)
(* API acknowledged, in order and unaltered, or is refused.                   *)
(***************************************************************************)
THEOREM ImplementsTheLog == Spec => IsTamperEvidentLog
<1>1. Init => Promise!Init
  <2> SUFFICES ASSUME Init PROVE Promise!Init
    OBVIOUS
  <2>1. ~Accepted /\ genuine = <<>>
    BY DEF Init, Accepted
  <2> QED
    BY <2>1 DEF Promise!Init, ServedLog
<1>2. JInv => Answered(genuine, ServedLog)
  BY AnswerOfInv DEF JInv
<1>3. JInv /\ JInv' /\ Answered(genuine, ServedLog) /\ Answered(genuine, ServedLog)' /\ [Next]_vars
        => [Promise!Next]_(Promise!vars)
  BY StepRefines
<1> QED
  BY <1>1, <1>2, <1>3, JInvHolds, PTL DEF Spec, IsTamperEvidentLog, Promise!Spec
=============================================================================
