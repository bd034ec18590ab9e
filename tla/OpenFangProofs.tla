---------------------------- MODULE OpenFangProofs ----------------------------
(* Theorems about OpenFang, before and after its tip check, for every         *)
(* SeedCount, MaxSeq and MaxEdits.                                           *)
EXTENDS OpenFang, SequenceTheorems, FiniteSetTheorems, WellFoundedInduction, TLAPS

(* Every non-empty set of naturals has a least element. *)
LEMMA LeastSeq ==
    ASSUME NEW S, S \subseteq Nat, S # {}
    PROVE  \E m \in S : \A k \in S : m <= k
<1>1. PICK m \in S : \A k \in S : ~(<<k, m>> \in OpToRel(<, Nat))
  BY NatLessThanWellFounded, WFMin
<1>2. \A k \in S : ~(k < m)
  BY <1>1 DEF OpToRel
<1> QED
  BY <1>2

LEMMA MaxIsAttained ==
    ASSUME NEW S, NEW x \in S, \A y \in S : x >= y
    PROVE  Max(S) \in S /\ \A y \in S : Max(S) >= y
BY DEF Max

LEMMA SeqsAreNat == Seqs \subseteq Nat /\ \A i \in Nat : i <= MaxSeq => i \in Seqs
BY AuditSizeAssumption DEF Seqs

LEMMA MaxOfSome ==
    ASSUME NEW S, S \subseteq Seqs, S # {}
    PROVE  Max(S) \in S /\ \A k \in S : k <= Max(S)
<1> DEFINE T == {MaxSeq - k : k \in S}
<1>a. \A k \in S : k \in Nat /\ MaxSeq - k \in Nat
  BY AuditSizeAssumption DEF Seqs
<1>1. T \subseteq Nat /\ T # {}
  BY <1>a
<1>2. PICK m \in T : \A k \in T : m <= k
  BY <1>1, LeastSeq
<1>3. PICK x \in S : m = MaxSeq - x
  BY <1>2
<1>4. ASSUME NEW y \in S PROVE x >= y
  <2>1. MaxSeq - x <= MaxSeq - y
    BY <1>2, <1>3
  <2> QED
    BY <2>1, AuditSizeAssumption DEF Seqs
<1>5. Max(S) \in S /\ \A y \in S : Max(S) >= y
  BY <1>3, <1>4, MaxIsAttained
<1> QED
  BY <1>5, AuditSizeAssumption DEF Seqs

LEMMA LastIsThere ==
    ASSUME NEW s, Present(s) # {}
    PROVE  /\ LastSeq(s) \in Present(s) /\ LastSeq(s) \in Seqs
           /\ \A i \in Present(s) : i <= LastSeq(s)
BY MaxOfSome DEF LastSeq, Present

-----------------------------------------------------------------------------
(* Prefixes. *)

LEMMA PrefixMeans ==
    ASSUME NEW t \in Hashes, NEW chain \in Hashes
    PROVE  t \in Prefixes(chain) <=>
              Len(t) <= Len(chain) /\ \A j \in 1..Len(t) : t[j] = chain[j]
<1>0. Len(t) \in Nat /\ Len(chain) \in Nat
  BY LenProperties DEF Hashes
<1>1. ASSUME NEW k \in 0..Len(chain)
      PROVE  /\ SubSeq(chain, 1, k) \in Seq(Links) /\ Len(SubSeq(chain, 1, k)) = k
             /\ \A j \in 1..k : SubSeq(chain, 1, k)[j] = chain[j]
  <2>1. \A j \in 1..k : chain[j] \in Links
    BY <1>0, ElementOfSeq DEF Hashes
  <2> QED
    BY <1>0, <2>1, SubSeqProperties
<1>2. ASSUME t \in Prefixes(chain)
      PROVE  Len(t) <= Len(chain) /\ \A j \in 1..Len(t) : t[j] = chain[j]
  <2>1. PICK k \in 0..Len(chain) : t = SubSeq(chain, 1, k)
    BY <1>2 DEF Prefixes
  <2> QED
    BY <1>0, <1>1, <2>1
<1>3. ASSUME Len(t) <= Len(chain), \A j \in 1..Len(t) : t[j] = chain[j]
      PROVE  t \in Prefixes(chain)
  <2>1. Len(t) \in 0..Len(chain)
    BY <1>0, <1>3
  <2>2. t = SubSeq(chain, 1, Len(t))
    BY <1>1, <1>3, <2>1, SeqEqual DEF Hashes
  <2> QED
    BY <2>1, <2>2 DEF Prefixes
<1> QED
  BY <1>2, <1>3

LEMMA PrefixOfItself == ASSUME NEW t \in Hashes PROVE t \in Prefixes(t)
<1>1. Len(t) \in Nat
  BY LenProperties DEF Hashes
<1> QED
  BY <1>1, PrefixMeans

LEMMA GenesisIsPrefix == ASSUME NEW t \in Hashes PROVE Genesis \in Prefixes(t) /\ Genesis \in Hashes
<1>1. Genesis \in Hashes /\ Len(Genesis) = 0 /\ Len(t) \in Nat
  BY EmptySeq, LenProperties DEF Hashes, Genesis
<1> QED
  BY <1>1, PrefixMeans

LEMMA PrefixOfPrefix ==
    ASSUME NEW t \in Hashes, NEW u \in Hashes, NEW v \in Hashes,
           t \in Prefixes(u), u \in Prefixes(v)
    PROVE  t \in Prefixes(v)
<1>1. Len(t) \in Nat /\ Len(u) \in Nat /\ Len(v) \in Nat
  BY LenProperties DEF Hashes
<1>2. Len(t) <= Len(u) /\ Len(u) <= Len(v)
  BY PrefixMeans
<1>3. ASSUME NEW j \in 1..Len(t) PROVE t[j] = v[j]
  <2>1. j \in 1..Len(u)
    BY <1>1, <1>2
  <2> QED
    BY <2>1, PrefixMeans
<1> QED
  BY <1>1, <1>2, <1>3, PrefixMeans

(* What hashing one more link does. *)
LEMMA HashGrows ==
    ASSUME NEW prev \in Hashes, NEW i \in Seqs, NEW body \in Bodies
    PROVE  LET next == EntryHash(i, body, prev) IN
           /\ next \in Hashes /\ Len(next) = Len(prev) + 1 /\ next # Genesis
           /\ \A j \in 1..Len(prev) : next[j] = prev[j]
           /\ next[Len(prev) + 1] = [seq |-> i, body |-> body]
           /\ prev \in Prefixes(next)
<1> DEFINE link == [seq |-> i, body |-> body]
           next == EntryHash(i, body, prev)
<1>1. link \in Links /\ next = Append(prev, link)
  BY DEF Links, EntryHash
<1> HIDE DEF link, next
<1>2. /\ next \in Hashes /\ Len(next) = Len(prev) + 1
      /\ \A j \in 1..Len(prev) : next[j] = prev[j]
      /\ next[Len(prev) + 1] = link
  BY <1>1, AppendProperties DEF Hashes
<1>3. Len(prev) \in Nat /\ Len(Genesis) = 0
  BY LenProperties, EmptySeq DEF Hashes, Genesis
<1>4. prev \in Prefixes(next)
  BY <1>2, <1>3, PrefixMeans
<1>5. next # Genesis
  BY <1>2, <1>3
<1> QED
  BY <1>2, <1>4, <1>5 DEF link, next

-----------------------------------------------------------------------------
(* Types. *)

LEMMA RowType ==
    ASSUME NEW s \in AuditStores, NEW i \in Present(s)
    PROVE  /\ i \in Seqs /\ s.rows[i] \in AuditRows
           /\ s.rows[i].hash \in Hashes /\ s.rows[i].prev \in Hashes /\ s.rows[i].body \in Bodies
BY DEF AuditStores, Present, AuditRows

LEMMA WalkedTipType ==
    ASSUME NEW s \in AuditStores
    PROVE  WalkedTip(s) \in Hashes
<1>1. CASE Present(s) = {}
  BY <1>1, EmptySeq DEF WalkedTip, Genesis, Hashes
<1>2. CASE Present(s) # {}
  BY <1>2, LastIsThere, RowType DEF WalkedTip
<1> QED
  BY <1>1, <1>2

LEMMA EmptyAuditType == EmptyAudit \in AuditStores
BY DEF EmptyAudit, AuditStores

LEMMA EntryType ==
    ASSUME NEW i \in Seqs, NEW body \in Bodies, NEW prev \in Hashes
    PROVE  Entry(i, body, prev) \in AuditRows
BY HashGrows DEF Entry, AuditRows

LEMMA BodyTypes == ASSUME NEW i \in Seqs PROVE SeedBody(i) \in Bodies /\ LateBody(i) \in Bodies
BY DEF SeedBody, LateBody, Bodies

LEMMA SeedChainType ==
    /\ SeedChain \in Hashes /\ Len(SeedChain) = SeedCount /\ SeedCount \in Nat /\ SeedCount > 0
    /\ \A i \in Seqs : i < SeedCount =>
          /\ SubSeq(SeedChain, 1, i) \in Hashes
          /\ EntryHash(i, SeedBody(i), SubSeq(SeedChain, 1, i)) = SubSeq(SeedChain, 1, i + 1)
<1>1. ASSUME NEW i \in 1..SeedCount
      PROVE  i - 1 \in Seqs /\ [seq |-> i - 1, body |-> SeedBody(i - 1)] \in Links
  <2>1. i - 1 \in Seqs
    BY AuditSizeAssumption DEF Seqs
  <2> QED
    BY <2>1, BodyTypes DEF Links
<1>2. /\ SeedChain \in Seq(Links) /\ Len(SeedChain) = SeedCount
      /\ SeedCount \in Nat /\ SeedCount > 0
  BY <1>1, AuditSizeAssumption DEF SeedChain
<1>3. ASSUME NEW i \in Seqs, i < SeedCount
      PROVE  /\ SubSeq(SeedChain, 1, i) \in Hashes
             /\ EntryHash(i, SeedBody(i), SubSeq(SeedChain, 1, i)) = SubSeq(SeedChain, 1, i + 1)
  <2>0. i \in Nat /\ i + 1 \in 1..SeedCount
    BY <1>2, <1>3, SeqsAreNat
  <2>1. \A k \in 1..(i + 1) : SeedChain[k] \in Links
    BY <1>2, <2>0, ElementOfSeq
  <2>2. /\ SubSeq(SeedChain, 1, i) \in Hashes /\ Len(SubSeq(SeedChain, 1, i)) = i
        /\ \A k \in 1..i : SubSeq(SeedChain, 1, i)[k] = SeedChain[k]
    BY <2>0, <2>1, SubSeqProperties DEF Hashes
  <2>3. /\ SubSeq(SeedChain, 1, i + 1) \in Hashes /\ Len(SubSeq(SeedChain, 1, i + 1)) = i + 1
        /\ \A k \in 1..(i + 1) : SubSeq(SeedChain, 1, i + 1)[k] = SeedChain[k]
    BY <2>0, <2>1, SubSeqProperties DEF Hashes
  <2>4. SeedChain[i + 1] = [seq |-> i, body |-> SeedBody(i)]
    BY <2>0 DEF SeedChain
  <2> DEFINE hash == EntryHash(i, SeedBody(i), SubSeq(SeedChain, 1, i))
  <2>5. /\ hash \in Hashes /\ Len(hash) = i + 1
        /\ \A k \in 1..i : hash[k] = SubSeq(SeedChain, 1, i)[k]
        /\ hash[i + 1] = [seq |-> i, body |-> SeedBody(i)]
    <3>1. SeedBody(i) \in Bodies
      BY BodyTypes
    <3> DEFINE prev == SubSeq(SeedChain, 1, i)
    <3>2. prev \in Hashes /\ Len(prev) = i
      BY <2>2
    <3> HIDE DEF prev
    <3>3. /\ EntryHash(i, SeedBody(i), prev) \in Hashes
          /\ Len(EntryHash(i, SeedBody(i), prev)) = Len(prev) + 1
          /\ \A k \in 1..Len(prev) : EntryHash(i, SeedBody(i), prev)[k] = prev[k]
          /\ EntryHash(i, SeedBody(i), prev)[Len(prev) + 1] = [seq |-> i, body |-> SeedBody(i)]
      BY <3>1, <3>2, HashGrows
    <3> QED
      BY <3>2, <3>3 DEF prev
  <2> HIDE DEF hash
  <2>6. \A k \in 1..(i + 1) : hash[k] = SubSeq(SeedChain, 1, i + 1)[k]
    BY <2>0, <2>2, <2>3, <2>4, <2>5
  <2>7. hash = SubSeq(SeedChain, 1, i + 1)
    BY <2>3, <2>5, <2>6, SeqEqual DEF Hashes
  <2> QED
    BY <2>2, <2>7 DEF hash
<1> QED
  BY <1>2, <1>3 DEF Hashes

LEMMA SeedAuditType ==
    ASSUME NEW s \in AuditStores
    PROVE  SeedAudit(s) \in AuditStores
<1>1. ASSUME NEW i \in Seqs, i < SeedCount
      PROVE  Entry(i, SeedBody(i), SubSeq(SeedChain, 1, i)) \in AuditRows
  BY <1>1, SeedChainType, BodyTypes, EntryType
<1> QED
  BY <1>1, SeedChainType DEF SeedAudit, AuditStores

(* The row a genuine write adds. *)
LateAudit(s) == Entry(LastSeq(s) + 1, LateBody(LastSeq(s) + 1), s.rows[LastSeq(s)].hash)

LEMMA AppendAuditType ==
    ASSUME NEW s \in AuditStores, CanAppend(s), LastSeq(s) < MaxSeq
    PROVE  /\ LastSeq(s) + 1 \in Seqs
           /\ LateAudit(s) \in AuditRows /\ LateAudit(s).hash \in Hashes
           /\ LateAudit(s).hash = EntryHash(LastSeq(s) + 1, LateBody(LastSeq(s) + 1), s.rows[LastSeq(s)].hash)
           /\ AppendAudit(s) = [rows |-> [s.rows EXCEPT ![LastSeq(s) + 1] = LateAudit(s)],
                                tip |-> LateAudit(s).hash]
           /\ AppendAudit(s) \in AuditStores
<1>1. LastSeq(s) \in Present(s) /\ LastSeq(s) \in Seqs
  BY LastIsThere DEF CanAppend
<1>2. LastSeq(s) + 1 \in Seqs
  BY <1>1, AuditSizeAssumption DEF Seqs
<1>3. LateAudit(s) \in AuditRows
  BY <1>1, <1>2, RowType, BodyTypes, EntryType DEF LateAudit
<1>4. LateAudit(s).hash \in Hashes
  BY <1>3 DEF AuditRows
<1>5. AppendAudit(s) = [rows |-> [s.rows EXCEPT ![LastSeq(s) + 1] = LateAudit(s)],
                        tip |-> LateAudit(s).hash]
  BY DEF AppendAudit, LateAudit
<1>6. AppendAudit(s) \in AuditStores
  <2>1. [s.rows EXCEPT ![LastSeq(s) + 1] = LateAudit(s)] \in [Seqs -> AuditRows \cup {NONE}]
    BY <1>3 DEF AuditStores
  <2> QED
    BY <1>4, <1>5, <2>1 DEF AuditStores
<1>7. LateAudit(s).hash = EntryHash(LastSeq(s) + 1, LateBody(LastSeq(s) + 1), s.rows[LastSeq(s)].hash)
  BY DEF LateAudit, Entry
<1> QED
  BY <1>2, <1>3, <1>4, <1>5, <1>6, <1>7

(* What a row edit leaves: one row of the file is gone, or holds the columns   *)
(* of a row that was there with, at most, another body.                       *)
CopiesHashes(old, new) ==
    /\ new.tip = old.tip
    /\ \A i \in Present(new) : \E j \in Present(old) : new.rows[i].hash = old.rows[j].hash

LEMMA MutatedType ==
    ASSUME NEW row \in AuditRows
    PROVE  MutatePayload(row) \in AuditRows /\ MutatePayload(row).hash = row.hash
<1>1. /\ row = [body |-> row.body, prev |-> row.prev, hash |-> row.hash]
      /\ row.body \in Bodies /\ row.prev \in Hashes /\ row.hash \in Hashes
  BY DEF AuditRows
<1> DEFINE body == [row.body EXCEPT !.stamped = TRUE]
<1>2. body \in Bodies
  BY <1>1 DEF Bodies
<1>3. MutatePayload(row) = [row EXCEPT !.body = body]
  BY <1>1 DEF MutatePayload
<1> HIDE DEF body
<1> QED
  BY <1>1, <1>2, <1>3 DEF AuditRows

LEMMA RowEditType ==
    ASSUME db \in AuditStores, RowEdit
    PROVE  db' \in AuditStores /\ CopiesHashes(db, db')
<1>1. CASE EditWrite
  <2>1. PICK to \in Seqs, from \in Present(db) :
          \E row \in {db.rows[from], MutatePayload(db.rows[from])} : db' = WriteRaw(db, to, row)
    BY <1>1 DEF EditWrite
  <2>2. PICK row : row \in {db.rows[from], MutatePayload(db.rows[from])} /\ db' = WriteRaw(db, to, row)
    BY <2>1
  <2>3. db.rows[from] \in AuditRows
    BY RowType
  <2>4. row \in AuditRows /\ row.hash = db.rows[from].hash
    BY <2>2, <2>3, MutatedType
  <2>5. db' = [db EXCEPT !.rows[to] = row]
    BY <2>2 DEF WriteRaw
  <2>6. db' \in AuditStores /\ db'.tip = db.tip
    BY <2>4, <2>5 DEF AuditStores
  <2>7. \A i \in Seqs : db'.rows[i] = IF i = to THEN row ELSE db.rows[i]
    BY <2>5 DEF AuditStores
  <2> QED
    BY <2>4, <2>6, <2>7 DEF CopiesHashes, Present
<1>2. CASE EditDelete
  <2>1. PICK k \in Present(db) : db' = DeleteRaw(db, k)
    BY <1>2 DEF EditDelete
  <2>2. db' = [db EXCEPT !.rows[k] = NONE] /\ k \in Seqs
    BY <2>1 DEF DeleteRaw, Present
  <2>3. db' \in AuditStores /\ db'.tip = db.tip
    BY <2>2 DEF AuditStores
  <2>4. \A i \in Seqs : db'.rows[i] = IF i = k THEN NONE ELSE db.rows[i]
    BY <2>2 DEF AuditStores
  <2> QED
    BY <2>3, <2>4 DEF CopiesHashes, Present
<1> QED
  BY <1>1, <1>2 DEF RowEdit

LEMMA InitTypes == Init => TypeOK
<1>1. {Genesis} \subseteq Hashes /\ 0 \in 0..MaxEdits
  BY EmptySeq, AuditEditsAssumption DEF Genesis, Hashes
<1> QED
  BY <1>1, EmptyAuditType DEF Init, TypeOK

LEMMA NextTypes == TypeOK /\ [Next]_vars => TypeOK'
<1> SUFFICES ASSUME TypeOK, [Next]_vars PROVE TypeOK'
  OBVIOUS
<1> USE DEF TypeOK
<1>0. {Genesis} \subseteq Hashes /\ 0 \in 0..MaxEdits
  BY EmptySeq, AuditEditsAssumption DEF Genesis, Hashes
<1>1. CASE Setup
  BY <1>0, <1>1, EmptyAuditType DEF Setup
<1>2. CASE Teardown
  BY <1>0, <1>2, EmptyAuditType DEF Teardown
<1>3. CASE Seed
  BY <1>3, SeedAuditType, WalkedTipType DEF Seed
<1>4. CASE Append1
  BY <1>4, AppendAuditType, WalkedTipType DEF Append1
<1>5. CASE RowEdit
  <2>1. edits < MaxEdits /\ edits' = edits + 1 /\ UNCHANGED <<strict, open, saved, hashed>>
    BY <1>5 DEF RowEdit, EditWrite, EditDelete, MayEdit, Edited
  <2>2. UNCHANGED strict
    BY <2>1
  <2> QED
    BY <1>5, <2>1, <2>2, RowEditType, AuditEditsAssumption
<1>6. CASE TakeCopy
  BY <1>6 DEF TakeCopy, SnapshotStore
<1>7. CASE PutBack
  BY <1>7, AuditEditsAssumption DEF PutBack, RestoreStore, MayEdit, Edited
<1>8. CASE UNCHANGED vars
  BY <1>8 DEF vars
<1> QED
  BY <1>1, <1>2, <1>3, <1>4, <1>5, <1>6, <1>7, <1>8 DEF Next

(***************************************************************************)
(* The log keeps its types, whichever of its versions runs: no write of the   *)
(* API and no row edit leaves a row or tip openfang.py could not hold.        *)
(***************************************************************************)
THEOREM AuditTypeCorrect == Spec => []TypeOK
BY InitTypes, NextTypes, PTL DEF Spec

-----------------------------------------------------------------------------
(* What a walk that succeeds has read: the hash of each row says all the rows  *)
(* up to it, in their order.                                                 *)

Walks(s) == \A i \in Present(s) : LinkHolds(s, i) /\ HashHolds(s, i)
Rank(s, i) == Cardinality(Below(s, i)) + 1
LinkOf(s, i) == [seq |-> i, body |-> s.rows[i].body]
UpTo(s, i) == {j \in Present(s) : j <= i}
SaysAll(s, i) ==
    /\ Len(s.rows[i].hash) = Rank(s, i)
    /\ \A j \in UpTo(s, i) :
          /\ s.rows[i].hash[Rank(s, j)] = LinkOf(s, j)
          /\ s.rows[j].hash \in Prefixes(s.rows[i].hash)
    /\ \A k \in 1..Rank(s, i) : \E j \in UpTo(s, i) : Rank(s, j) = k

LEMMA RankType ==
    ASSUME NEW s, NEW i
    PROVE  /\ IsFiniteSet(Below(s, i)) /\ Cardinality(Below(s, i)) \in Nat
           /\ Rank(s, i) \in Nat /\ Rank(s, i) > 0
<1>1. IsFiniteSet(Seqs)
  BY AuditSizeAssumption, FS_Interval DEF Seqs
<1>2. Below(s, i) \in SUBSET Seqs
  BY DEF Below, Present
<1>3. IsFiniteSet(Below(s, i))
  BY <1>1, <1>2, FS_Subset
<1>4. Cardinality(Below(s, i)) \in Nat
  BY <1>3, FS_CardinalityType
<1> QED
  BY <1>3, <1>4 DEF Rank

(* The step: the row just below, and the row itself. *)
LEMMA SaysAllStep ==
    ASSUME NEW s \in AuditStores, Walks(s), NEW i \in Present(s),
           \A j \in Below(s, i) : SaysAll(s, j)
    PROVE  SaysAll(s, i)
<1> DEFINE hash == s.rows[i].hash
           prev == s.rows[i].prev
<1>1. /\ i \in Seqs /\ i \in Nat /\ hash \in Hashes /\ prev \in Hashes
      /\ s.rows[i].body \in Bodies
      /\ Present(s) \subseteq Nat /\ Present(s) \subseteq Seqs
  BY RowType, SeqsAreNat DEF Present
<1>2. prev = ExpectedPrev(s, i) /\ hash = EntryHash(i, s.rows[i].body, prev)
  BY DEF Walks, LinkHolds, HashHolds
<1>3. /\ Len(hash) = Len(prev) + 1 /\ prev \in Prefixes(hash)
      /\ \A k \in 1..Len(prev) : hash[k] = prev[k]
      /\ hash[Len(prev) + 1] = LinkOf(s, i)
  <2> HIDE DEF hash, prev
  <2> QED
    BY <1>1, <1>2, HashGrows DEF LinkOf
<1>4. hash \in Prefixes(hash) /\ i \in UpTo(s, i)
  BY <1>1, PrefixOfItself DEF UpTo
<1>5. CASE Below(s, i) = {}
  <2>1. Rank(s, i) = 1
    BY <1>5, FS_EmptySet DEF Rank
  <2>2. UpTo(s, i) = {i}
    BY <1>1, <1>5 DEF UpTo, Below
  <2>3. Len(prev) = 0
    BY <1>2, <1>5, EmptySeq DEF ExpectedPrev, Genesis
  <2> HIDE DEF hash, prev
  <2>4. Len(hash) = Rank(s, i) /\ hash[Rank(s, i)] = LinkOf(s, i)
    BY <1>3, <2>1, <2>3
  <2> QED
    BY <1>4, <2>1, <2>2, <2>4 DEF SaysAll, hash
<1>6. CASE Below(s, i) # {}
  <2> DEFINE p == Max(Below(s, i))
  <2>1. p \in Below(s, i) /\ \A j \in Below(s, i) : j <= p
    BY <1>1, <1>6, MaxOfSome DEF Below
  <2>2. SaysAll(s, p) /\ prev = s.rows[p].hash
    BY <1>2, <1>6, <2>1 DEF ExpectedPrev
  <2> HIDE DEF p
  <2>3. p \in Nat /\ p < i /\ p \in Present(s)
    BY <1>1, <2>1 DEF Below
  <2>4. UpTo(s, i) = UpTo(s, p) \cup {i} /\ i \notin UpTo(s, p)
    BY <1>1, <2>1, <2>3 DEF UpTo, Below
  <2>5. Rank(s, i) = Rank(s, p) + 1
    <3>1. Below(s, i) = Below(s, p) \cup {p} /\ p \notin Below(s, p)
      BY <1>1, <2>1, <2>3 DEF Below
    <3>2. Cardinality(Below(s, i)) = Cardinality(Below(s, p)) + 1
      BY <3>1, RankType, FS_AddElement
    <3> QED
      BY <3>2 DEF Rank
  <2>6. Len(prev) = Rank(s, p) /\ Rank(s, p) \in Nat
    BY <2>2, RankType DEF SaysAll
  <2>7. Len(hash) = Rank(s, i) /\ hash[Rank(s, i)] = LinkOf(s, i)
    BY <1>3, <2>5, <2>6
  <2>8. ASSUME NEW j \in UpTo(s, i)
        PROVE  hash[Rank(s, j)] = LinkOf(s, j) /\ s.rows[j].hash \in Prefixes(hash)
    <3>1. CASE j = i
      BY <1>4, <2>7, <3>1
    <3>2. CASE j # i
      <4>1. j \in UpTo(s, p) /\ j \in Present(s)
        BY <2>4, <2>8, <3>2 DEF UpTo
      <4>2. prev[Rank(s, j)] = LinkOf(s, j) /\ s.rows[j].hash \in Prefixes(prev)
        BY <2>2, <4>1 DEF SaysAll
      <4>3. Rank(s, j) \in 1..Len(prev)
        <5>1. s.rows[j].hash \in Hashes
          BY <4>1, RowType
        <5>2. Below(s, j) \subseteq Below(s, p)
          BY <1>1, <2>3, <4>1 DEF Below, UpTo
        <5>3. Cardinality(Below(s, j)) <= Cardinality(Below(s, p))
          BY <5>2, RankType, FS_Subset
        <5> QED
          BY <2>6, <5>3, RankType DEF Rank
      <4>4. s.rows[j].hash \in Hashes
        BY <4>1, RowType
      <4> HIDE DEF hash, prev
      <4>5. s.rows[j].hash \in Prefixes(hash)
        BY <1>1, <1>3, <4>2, <4>4, PrefixOfPrefix
      <4> QED
        BY <1>3, <4>2, <4>3, <4>5
    <3> QED
      BY <3>1, <3>2
  <2>9. ASSUME NEW k \in 1..Rank(s, i)
        PROVE  \E j \in UpTo(s, i) : Rank(s, j) = k
    <3>1. CASE k = Rank(s, i)
      BY <1>4, <3>1
    <3>2. CASE k # Rank(s, i)
      <4>1. k \in 1..Rank(s, p)
        BY <2>5, <2>6, <3>2
      <4> QED
        BY <2>2, <2>4, <4>1 DEF SaysAll
    <3> QED
      BY <3>1, <3>2
  <2> QED
    BY <2>7, <2>8, <2>9 DEF SaysAll
<1> QED
  BY <1>5, <1>6

LEMMA EachSaysAll ==
    ASSUME NEW s \in AuditStores, Walks(s), NEW i \in Present(s)
    PROVE  SaysAll(s, i)
<1> DEFINE bad == {j \in Present(s) : ~SaysAll(s, j)}
<1>1. bad \subseteq Nat
  BY SeqsAreNat DEF Present
<1>2. SUFFICES ASSUME bad # {} PROVE FALSE
  OBVIOUS
<1>3. PICK m \in bad : \A k \in bad : m <= k
  BY <1>1, <1>2, LeastSeq
<1>4. ASSUME NEW j \in Below(s, m) PROVE SaysAll(s, j)
  <2>1. j \in Present(s) /\ j < m /\ j \in Nat /\ m \in Nat
    BY <1>1, <1>3, SeqsAreNat DEF Below, Present
  <2> QED
    BY <1>3, <2>1
<1> QED
  BY <1>3, <1>4, SaysAllStep

(* The chain a reader sees in a log that walks is the one its last hash says.  *)
LEMMA ChainIsTip ==
    ASSUME NEW s \in AuditStores, Walks(s)
    PROVE  Chain(s) = WalkedTip(s)
<1>1. CASE Present(s) = {}
  <2>1. Cardinality(Present(s)) = 0
    BY <1>1, FS_EmptySet
  <2>2. Chain(s) \in Seq(Links) /\ Len(Chain(s)) = 0
    <3>1. DOMAIN Chain(s) = {}
      BY <2>1 DEF Chain
    <3> DEFINE e(k) == LET i == CHOOSE i \in Present(s) : Cardinality(Below(s, i)) = k - 1
                       IN  [seq |-> i, body |-> s.rows[i].body]
    <3>2. Chain(s) = [k \in 1..0 |-> e(k)]
      BY <2>1 DEF Chain
    <3> HIDE DEF e
    <3>3. [k \in 1..0 |-> e(k)] \in [1..0 -> Links]
      OBVIOUS
    <3> QED
      BY <3>2, <3>3
  <2> QED
    BY <1>1, <2>2, EmptySeq DEF WalkedTip, Genesis
<1>2. CASE Present(s) # {}
  <2> DEFINE last == LastSeq(s)
             hash == s.rows[last].hash
             at(k) == CHOOSE i \in Present(s) : Cardinality(Below(s, i)) = k - 1
  <2>1. /\ last \in Present(s) /\ \A i \in Present(s) : i <= last
        /\ Present(s) \subseteq Nat /\ Present(s) \subseteq Seqs
    BY <1>2, LastIsThere, SeqsAreNat DEF Present
  <2>2. SaysAll(s, last) /\ UpTo(s, last) = Present(s)
    BY <2>1, EachSaysAll DEF UpTo
  <2>3. Cardinality(Present(s)) = Rank(s, last)
    <3>1. Present(s) = Below(s, last) \cup {last} /\ last \notin Below(s, last)
      BY <2>1 DEF Below
    <3> QED
      BY <3>1, RankType, FS_AddElement DEF Rank
  <2>4. hash \in Hashes /\ Len(hash) = Rank(s, last) /\ Rank(s, last) \in Nat
    BY <2>1, <2>2, RowType, RankType DEF SaysAll
  <2>5. ASSUME NEW k \in 1..Rank(s, last)
        PROVE  LinkOf(s, at(k)) = hash[k]
    <3>1. PICK j \in Present(s) : Rank(s, j) = k
      BY <2>2 DEF SaysAll
    <3>2. Cardinality(Below(s, j)) = k - 1
      BY <3>1, RankType DEF Rank
    <3>3. at(k) \in Present(s) /\ Cardinality(Below(s, at(k))) = k - 1
      BY <3>2
    <3> HIDE DEF at
    <3>4. Rank(s, at(k)) = k
      BY <3>3, <2>4 DEF Rank
    <3> QED
      BY <2>2, <3>3, <3>4 DEF SaysAll
  <2>6. Chain(s) = [k \in 1..Rank(s, last) |-> LinkOf(s, at(k))]
    BY <2>3 DEF Chain, LinkOf
  <2> HIDE DEF at
  <2>7. \A k \in 1..Rank(s, last) : hash[k] \in Links
    BY <2>4, ElementOfSeq DEF Hashes
  <2>8. Chain(s) \in Seq(Links) /\ Len(Chain(s)) = Rank(s, last)
    <3>1. Chain(s) \in [1..Rank(s, last) -> Links]
      BY <2>5, <2>6, <2>7
    <3> QED
      BY <2>4, <3>1
  <2>9. Chain(s) = hash
    <3> HIDE DEF hash
    <3> QED
      BY <2>4, <2>5, <2>6, <2>8, SeqEqual DEF Hashes
  <2> QED
    BY <1>2, <2>9 DEF WalkedTip
<1> QED
  BY <1>1, <1>2

LEMMA RowsArePrefixes ==
    ASSUME NEW s \in AuditStores, Walks(s), NEW i \in Present(s)
    PROVE  s.rows[i].hash \in Prefixes(WalkedTip(s))
<1>1. LastSeq(s) \in Present(s) /\ i <= LastSeq(s)
  BY LastIsThere
<1>2. SaysAll(s, LastSeq(s)) /\ i \in UpTo(s, LastSeq(s))
  BY <1>1, EachSaysAll DEF UpTo
<1> QED
  BY <1>2 DEF SaysAll, WalkedTip

-----------------------------------------------------------------------------
(* The inductive invariant.  Files carry only hashes the API made: the tip of  *)
(* a seeded store is a whole chain, the hash of a row a prefix of one.         *)

Written(s, made) ==
    /\ s.tip # NONE /\ s.tip \in made
    /\ \A i \in Present(s) : \E chain \in made : s.rows[i].hash \in Prefixes(chain)

(* Before the seed there is nothing to edit or to copy.                       *)
Unwritten ==
    /\ Genesis \in hashed
    /\ ~open => hashed = {Genesis}
    /\ hashed = {Genesis} => db = EmptyAudit
    /\ open /\ hashed = {Genesis} => saved = NONE /\ edits = 0

(* A log nobody edited walks, ends at its tip, and has every row ever added.   *)
Whole(s) ==
    /\ Present(s) # {}
    /\ Walks(s)
    /\ WalkedTip(s) = s.tip
Untouched ==
    Seeded /\ edits = 0 => Whole(db) /\ Newest(WalkedTip(db))

IInv ==
    /\ TypeOK
    /\ Unwritten
    /\ Seeded => Written(db, hashed) /\ (saved # NONE => Written(saved, hashed))
    /\ Untouched

LEMMA WrittenGrows ==
    ASSUME NEW s, NEW made, NEW more, Written(s, made)
    PROVE  Written(s, made \cup more)
BY DEF Written

(* Only the new row is new, and it is linked to the one that was last.         *)
LEMMA AfterLateAudit ==
    ASSUME NEW s \in AuditStores, CanAppend(s), LastSeq(s) < MaxSeq
    PROVE  LET t == AppendAudit(s)
               n == LastSeq(s) + 1 IN
           /\ Present(t) = Present(s) \cup {n} /\ n \notin Present(s)
           /\ t.rows[n] = LateAudit(s)
           /\ \A i \in Present(s) : t.rows[i] = s.rows[i]
           /\ LastSeq(t) = n /\ t.tip = LateAudit(s).hash /\ WalkedTip(t) = t.tip
<1> DEFINE t == AppendAudit(s)
           n == LastSeq(s) + 1
<1>1. /\ n \in Seqs /\ LateAudit(s) \in AuditRows
      /\ t = [rows |-> [s.rows EXCEPT ![n] = LateAudit(s)], tip |-> LateAudit(s).hash]
      /\ t \in AuditStores
  BY AppendAuditType
<1>2. /\ LastSeq(s) \in Present(s) /\ LastSeq(s) \in Nat
      /\ \A i \in Present(s) : i <= LastSeq(s) /\ i \in Nat
  BY LastIsThere, SeqsAreNat DEF CanAppend, Present
<1>3. t.tip = LateAudit(s).hash /\ \A i \in Seqs : t.rows[i] = IF i = n THEN LateAudit(s) ELSE s.rows[i]
  BY <1>1 DEF AuditStores
<1>4. LateAudit(s) # NONE
  BY <1>1, AuditNoneAssumption
<1> HIDE DEF t
<1>5. n \notin Present(s)
  BY <1>2
<1>6. Present(t) = Present(s) \cup {n}
  BY <1>1, <1>3, <1>4 DEF Present
<1>7. \A i \in Present(s) : t.rows[i] = s.rows[i]
  BY <1>3, <1>5 DEF Present
<1>8. LastSeq(t) = n
  <2>1. LastSeq(t) \in Present(t) /\ n <= LastSeq(t)
    BY <1>6, LastIsThere
  <2> QED
    BY <1>2, <1>6, <2>1
<1>9. WalkedTip(t) = t.tip
  BY <1>1, <1>3, <1>6, <1>8 DEF WalkedTip
<1> QED
  BY <1>1, <1>3, <1>5, <1>6, <1>7, <1>8, <1>9 DEF t

LEMMA AppendKeepsWhole ==
    ASSUME NEW s \in AuditStores, CanAppend(s), LastSeq(s) < MaxSeq, Whole(s)
    PROVE  /\ Whole(AppendAudit(s))
           /\ WalkedTip(s) \in Prefixes(WalkedTip(AppendAudit(s)))
<1> DEFINE t == AppendAudit(s)
           n == LastSeq(s) + 1
           last == s.rows[LastSeq(s)].hash
<1>1. /\ Present(t) = Present(s) \cup {n} /\ n \notin Present(s)
      /\ t.rows[n] = LateAudit(s)
      /\ \A i \in Present(s) : t.rows[i] = s.rows[i]
      /\ t.tip = LateAudit(s).hash /\ WalkedTip(t) = t.tip
  BY AfterLateAudit
<1>2. /\ n \in Seqs /\ LateAudit(s).hash = EntryHash(n, LateBody(n), last)
      /\ LateAudit(s).body = LateBody(n) /\ LateAudit(s).prev = last
  BY AppendAuditType DEF LateAudit, Entry
<1>3. /\ LastSeq(s) \in Present(s) /\ LastSeq(s) \in Nat
      /\ \A i \in Present(s) : i <= LastSeq(s) /\ i \in Nat
  BY LastIsThere, SeqsAreNat DEF CanAppend, Present
<1>4. last \in Hashes /\ WalkedTip(s) = last
  BY <1>3, RowType DEF WalkedTip
<1> HIDE DEF t
<1>5. ASSUME NEW i \in Present(s) PROVE LinkHolds(t, i) /\ HashHolds(t, i)
  <2>1. Below(t, i) = Below(s, i)
    BY <1>1, <1>3, <1>5 DEF Below
  <2>2. Below(s, i) # {} => Max(Below(s, i)) \in Present(s)
    BY MaxOfSome DEF Below, Present
  <2>3. ExpectedPrev(t, i) = ExpectedPrev(s, i)
    BY <1>1, <2>1, <2>2 DEF ExpectedPrev
  <2>4. t.rows[i] = s.rows[i]
    BY <1>1
  <2> QED
    BY <2>3, <2>4 DEF Whole, Walks, LinkHolds, HashHolds
<1>6. LinkHolds(t, n) /\ HashHolds(t, n)
  <2>1. Below(t, n) = Present(s)
    BY <1>1, <1>3 DEF Below
  <2>2. ExpectedPrev(t, n) = last
    BY <1>1, <1>3, <2>1 DEF ExpectedPrev, LastSeq
  <2> QED
    BY <1>1, <1>2, <2>2 DEF LinkHolds, HashHolds
<1>7. WalkedTip(s) \in Prefixes(WalkedTip(t))
  <2> HIDE DEF last, n
  <2>1. LateBody(n) \in Bodies
    BY <1>2, BodyTypes
  <2>2. last \in Prefixes(EntryHash(n, LateBody(n), last))
    BY <1>2, <1>4, <2>1, HashGrows
  <2> QED
    BY <1>1, <1>2, <1>4, <2>2
<1>8. Walks(t)
  BY <1>1, <1>5, <1>6 DEF Walks
<1>9. Whole(t)
  BY <1>1, <1>8 DEF Whole
<1> QED
  BY <1>7, <1>9 DEF t

(* The parts of an entry. *)
LEMMA EntryFields ==
    ASSUME NEW i, NEW body, NEW prev
    PROVE  /\ Entry(i, body, prev).body = body
           /\ Entry(i, body, prev).prev = prev
           /\ Entry(i, body, prev).hash = EntryHash(i, body, prev)
BY DEF Entry

(* A log just seeded. *)
LEMMA SeededIsWhole ==
    /\ Whole(SeedAudit(EmptyAudit))
    /\ SeedAudit(EmptyAudit).tip = SeedChain
    /\ SeedChain # Genesis
    /\ \A i \in Present(SeedAudit(EmptyAudit)) :
          SeedAudit(EmptyAudit).rows[i].hash \in Prefixes(SeedChain)
<1> DEFINE s == SeedAudit(EmptyAudit)
<1>0. s \in AuditStores
  BY EmptyAuditType, SeedAuditType
<1>1. /\ SeedChain \in Hashes /\ Len(SeedChain) = SeedCount /\ SeedCount \in Nat /\ SeedCount > 0
      /\ \A i \in Seqs : i < SeedCount =>
            /\ SubSeq(SeedChain, 1, i) \in Hashes
            /\ EntryHash(i, SeedBody(i), SubSeq(SeedChain, 1, i)) = SubSeq(SeedChain, 1, i + 1)
  BY SeedChainType
<1>2. s.tip = SeedChain
  BY DEF SeedAudit
<1>3. \A i \in Seqs : i < SeedCount =>
         /\ s.rows[i].body = SeedBody(i)
         /\ s.rows[i].prev = SubSeq(SeedChain, 1, i)
         /\ s.rows[i].hash = SubSeq(SeedChain, 1, i + 1)
         /\ s.rows[i].hash = EntryHash(i, s.rows[i].body, s.rows[i].prev)
         /\ s.rows[i] # NONE
  <2> SUFFICES ASSUME NEW i \in Seqs, i < SeedCount
               PROVE  /\ s.rows[i].body = SeedBody(i)
                      /\ s.rows[i].prev = SubSeq(SeedChain, 1, i)
                      /\ s.rows[i].hash = SubSeq(SeedChain, 1, i + 1)
                      /\ s.rows[i].hash = EntryHash(i, s.rows[i].body, s.rows[i].prev)
                      /\ s.rows[i] # NONE
    OBVIOUS
  <2>1. s.rows[i] = Entry(i, SeedBody(i), SubSeq(SeedChain, 1, i))
    BY DEF SeedAudit
  <2>2. s.rows[i] # NONE
    BY <1>1, <2>1, BodyTypes, EntryType, AuditNoneAssumption
  <2> HIDE DEF s
  <2>3. /\ s.rows[i].body = SeedBody(i)
        /\ s.rows[i].prev = SubSeq(SeedChain, 1, i)
        /\ s.rows[i].hash = EntryHash(i, SeedBody(i), SubSeq(SeedChain, 1, i))
    <3> DEFINE b == SeedBody(i)
               p == SubSeq(SeedChain, 1, i)
    <3>1. s.rows[i] = Entry(i, b, p)
      BY <2>1
    <3> HIDE DEF b, p
    <3>2. /\ s.rows[i].body = b
          /\ s.rows[i].prev = p
          /\ s.rows[i].hash = EntryHash(i, b, p)
      <4>1. /\ Entry(i, b, p).body = b
            /\ Entry(i, b, p).prev = p
            /\ Entry(i, b, p).hash = EntryHash(i, b, p)
        BY EntryFields
      <4> QED
        BY <3>1, <4>1, Zenon
    <3> QED
      BY <3>2 DEF b, p
  <2> QED
    BY <1>1, <2>2, <2>3
<1>4. \A i \in Seqs : ~(i < SeedCount) => s.rows[i] = NONE
  BY DEF SeedAudit, EmptyAudit
<1> HIDE DEF s
<1>5. \A i : i \in Present(s) <=> i \in Nat /\ i < SeedCount
  <2>1. \A i \in Nat : i < SeedCount => i \in Seqs
    BY AuditSizeAssumption DEF Seqs
  <2>2. \A i \in Seqs : i \in Nat /\ (s.rows[i] # NONE <=> i < SeedCount)
    BY <1>3, <1>4, SeqsAreNat
  <2>3. \A i : i \in Present(s) <=> i \in Seqs /\ s.rows[i] # NONE
    BY DEF Present
  <2> QED
    BY <2>1, <2>2, <2>3
<1>6. ASSUME NEW i \in Present(s) PROVE LinkHolds(s, i) /\ HashHolds(s, i)
  <2>1. i \in Nat /\ i \in Seqs /\ i < SeedCount
    BY <1>5, <1>6 DEF Present
  <2>2. s.rows[i].prev = ExpectedPrev(s, i)
    <3>1. CASE i = 0
      <4>1. Below(s, i) = {}
        BY <1>5, <3>1 DEF Below
      <4>2. SubSeq(SeedChain, 1, 0) = <<>>
        BY SubSeqEmpty
      <4> QED
        BY <1>3, <2>1, <3>1, <4>1, <4>2 DEF ExpectedPrev, Genesis
    <3>2. CASE i > 0
      <4>1. i - 1 \in Below(s, i) /\ Below(s, i) \subseteq Seqs
        <5>1. i - 1 \in Nat /\ i - 1 < SeedCount /\ i - 1 < i
          BY <1>1, <2>1, <3>2
        <5>2. i - 1 \in Present(s)
          BY <1>5, <5>1
        <5>3. Below(s, i) \subseteq Present(s) /\ Present(s) \subseteq Seqs
          BY DEF Below, Present
        <5> QED
          BY <5>1, <5>2, <5>3 DEF Below
      <4>2. Max(Below(s, i)) \in Below(s, i) /\ i - 1 <= Max(Below(s, i))
        BY <4>1, MaxOfSome
      <4>3. Max(Below(s, i)) = i - 1 /\ i - 1 \in Seqs /\ i - 1 < SeedCount
        BY <1>5, <2>1, <4>1, <4>2 DEF Below
      <4>4. s.rows[i - 1].hash = SubSeq(SeedChain, 1, i - 1 + 1)
        BY <1>3, <4>3
      <4>5. i - 1 + 1 = i
        BY <2>1
      <4> QED
        BY <1>3, <2>1, <4>1, <4>3, <4>4, <4>5 DEF ExpectedPrev
    <3> QED
      BY <2>1, <3>1, <3>2
  <2> QED
    BY <1>3, <2>1, <2>2 DEF LinkHolds, HashHolds
<1>7. Present(s) # {} /\ LastSeq(s) = SeedCount - 1
  <2>1. SeedCount - 1 \in Present(s)
    BY <1>1, <1>5
  <2>2. LastSeq(s) \in Present(s) /\ SeedCount - 1 <= LastSeq(s)
    BY <2>1, LastIsThere
  <2> QED
    BY <1>1, <1>5, <2>1, <2>2
<1>8. WalkedTip(s) = SeedChain
  <2>1. SeedCount - 1 \in Seqs /\ SeedCount - 1 < SeedCount /\ SeedCount - 1 + 1 = SeedCount
    BY AuditSizeAssumption DEF Seqs
  <2>2. s.rows[SeedCount - 1].hash = SubSeq(SeedChain, 1, SeedCount)
    BY <1>3, <2>1
  <2>3. SubSeq(SeedChain, 1, SeedCount) = SeedChain
    BY <1>1, SubSeqFull DEF Hashes
  <2> QED
    BY <1>7, <2>2, <2>3 DEF WalkedTip
<1>9. Whole(s)
  BY <1>2, <1>6, <1>7, <1>8 DEF Whole, Walks
<1>10. SeedChain # Genesis
  BY <1>1, EmptySeq DEF Genesis
<1>11. \A i \in Present(s) : s.rows[i].hash \in Prefixes(SeedChain)
  BY <1>0, <1>8, <1>9, RowsArePrefixes DEF Whole, s
<1> QED
  BY <1>2, <1>9, <1>10, <1>11 DEF s

LEMMA InitInvariant == Init => IInv
<1> SUFFICES ASSUME Init PROVE IInv
  OBVIOUS
<1>1. TypeOK
  BY InitTypes
<1> QED
  BY <1>1 DEF Init, IInv, Unwritten, Untouched, Seeded

LEMMA SeedInvariant ==
    ASSUME IInv, Seed
    PROVE  IInv'
<1>1. TypeOK'
  BY NextTypes DEF IInv, Next
<1>2. /\ db = EmptyAudit /\ open /\ hashed = {Genesis} /\ saved = NONE /\ edits = 0
      /\ db' = SeedAudit(EmptyAudit) /\ UNCHANGED <<strict, open, saved, edits>>
      /\ hashed' = {Genesis} \cup {WalkedTip(db')}
  BY DEF Seed, IInv, Unwritten
<1>3. /\ Whole(db') /\ db'.tip = SeedChain /\ SeedChain # Genesis /\ WalkedTip(db') = SeedChain
      /\ \A i \in Present(db') : db'.rows[i].hash \in Prefixes(SeedChain)
  BY <1>2, SeededIsWhole DEF Whole
<1>4. hashed' = {Genesis, SeedChain} /\ hashed' # {Genesis}
  BY <1>2, <1>3
<1>5. SeedChain # NONE /\ SeedChain \in Hashes
  BY SeedChainType, AuditNoneAssumption
<1>6. Written(db', hashed')
  BY <1>3, <1>4, <1>5 DEF Written
<1>7. Newest(WalkedTip(db))'
  BY <1>3, <1>4, <1>5, PrefixOfItself, GenesisIsPrefix DEF Newest
<1> QED
  BY <1>1, <1>2, <1>3, <1>4, <1>6, <1>7 DEF IInv, Unwritten, Untouched, Seeded

LEMMA AppendInvariant ==
    ASSUME IInv, Append1
    PROVE  IInv'
<1>1. TypeOK' /\ db \in AuditStores /\ hashed \subseteq Hashes
  BY NextTypes DEF IInv, Next, TypeOK
<1>2. /\ Seeded /\ open /\ CanAppend(db) /\ LastSeq(db) < MaxSeq /\ db' = AppendAudit(db)
      /\ hashed' = hashed \cup {WalkedTip(db')} /\ UNCHANGED <<strict, open, saved, edits>>
      /\ Genesis \in hashed /\ hashed # {Genesis}
  BY DEF Append1, Seeded, IInv, Unwritten
<1> DEFINE n == LastSeq(db) + 1
           new == LateAudit(db).hash
<1>3. /\ Present(db') = Present(db) \cup {n}
      /\ db'.rows[n] = LateAudit(db)
      /\ \A i \in Present(db) : db'.rows[i] = db.rows[i]
      /\ db'.tip = new /\ WalkedTip(db') = new
  BY <1>1, <1>2, AfterLateAudit
<1>4. new \in Hashes /\ new # NONE /\ new \in Prefixes(new)
  BY <1>1, <1>2, AppendAuditType, PrefixOfItself, AuditNoneAssumption
<1>5. hashed' # {Genesis} /\ Genesis \in hashed'
  BY <1>2
<1>6. Written(db', hashed')
  <2>1. \A i \in Present(db) : \E chain \in hashed : db.rows[i].hash \in Prefixes(chain)
    BY <1>2 DEF IInv, Written
  <2>2. hashed \subseteq hashed' /\ new \in hashed'
    BY <1>2, <1>3
  <2> HIDE DEF new, n
  <2>3. db'.rows[n].hash = new
    BY <1>3 DEF new
  <2> QED
    BY <1>3, <1>4, <2>1, <2>2, <2>3 DEF Written
<1>7. saved' # NONE => Written(saved', hashed')
  BY <1>2, WrittenGrows DEF IInv
<1>8. ASSUME edits' = 0 PROVE Whole(db') /\ Newest(WalkedTip(db))'
  <2>1. Whole(db) /\ Newest(WalkedTip(db))
    BY <1>2, <1>8 DEF IInv, Untouched
  <2>2. Whole(db') /\ WalkedTip(db) \in Prefixes(WalkedTip(db'))
    BY <1>1, <1>2, <2>1, AppendKeepsWhole
  <2>3. WalkedTip(db) \in Hashes /\ WalkedTip(db') \in Hashes
    BY <1>1, <1>3, <1>4, WalkedTipType
  <2>4. \A older \in hashed : older \in Prefixes(WalkedTip(db'))
    BY <1>1, <2>1, <2>2, <2>3, PrefixOfPrefix DEF Newest
  <2> QED
    BY <1>2, <1>3, <1>4, <2>2, <2>4 DEF Newest
<1> QED
  BY <1>1, <1>2, <1>5, <1>6, <1>7, <1>8 DEF IInv, Unwritten, Untouched, Seeded

(* An edit leaves the tip, and no hash but those that were there.              *)
LEMMA RowEditInvariant ==
    ASSUME IInv, RowEdit
    PROVE  IInv'
<1>1. TypeOK' /\ db \in AuditStores /\ edits \in Nat
  BY NextTypes, AuditEditsAssumption DEF IInv, Next, TypeOK
<1>2. Seeded /\ edits' = edits + 1 /\ UNCHANGED <<strict, open, saved, hashed>>
  BY DEF RowEdit, EditWrite, EditDelete, MayEdit, Edited
<1>3. CopiesHashes(db, db')
  BY <1>1, RowEditType
<1>4. Written(db', hashed')
  BY <1>2, <1>3 DEF IInv, Written, CopiesHashes
<1> QED
  BY <1>1, <1>2, <1>4 DEF IInv, Unwritten, Untouched, Seeded

LEMMA CopyInvariant ==
    ASSUME IInv, TakeCopy \/ PutBack
    PROVE  IInv'
<1>1. TypeOK' /\ edits \in Nat
  BY NextTypes, AuditEditsAssumption DEF IInv, Next, TypeOK
<1>2. CASE TakeCopy
  BY <1>1, <1>2 DEF TakeCopy, SnapshotStore, IInv, Unwritten, Untouched, Seeded, Newest
<1>3. CASE PutBack
  BY <1>1, <1>3 DEF PutBack, MayEdit, Edited, RestoreStore, IInv, Unwritten, Untouched, Seeded
<1> QED
  BY <1>2, <1>3

LEMMA NextInvariant == IInv /\ [Next]_vars => IInv'
<1> SUFFICES ASSUME IInv, [Next]_vars PROVE IInv'
  OBVIOUS
<1>1. CASE Setup \/ Teardown
  <2>1. TypeOK'
    BY <1>1, NextTypes DEF IInv, Next
  <2>2. db' = EmptyAudit /\ hashed' = {Genesis}
    BY <1>1 DEF Setup, Teardown
  <2>3. open' => saved' = NONE /\ edits' = 0
    BY <1>1 DEF Setup, Teardown
  <2> QED
    BY <2>1, <2>2, <2>3 DEF IInv, Unwritten, Untouched, Seeded
<1>2. CASE UNCHANGED vars
  <2>1. TypeOK'
    BY <1>2, NextTypes DEF IInv
  <2> QED
    BY <1>2, <2>1 DEF vars, IInv, Unwritten, Untouched, Seeded, Newest
<1> QED
  BY <1>1, <1>2, SeedInvariant, AppendInvariant, RowEditInvariant, CopyInvariant DEF Next

LEMMA InvariantHolds == Spec => []IInv
BY InitInvariant, NextInvariant, PTL DEF Spec

-----------------------------------------------------------------------------
(* A log that verifies ends in a hash the API made. *)
LEMMA TipOfServed ==
    ASSUME IInv, VerifyAudit(db, strict), open
    PROVE  /\ Chain(db) = WalkedTip(db) /\ WalkedTip(db) \in Hashes
           /\ Seeded /\ strict => WalkedTip(db) = db.tip
           /\ \E chain \in hashed : WalkedTip(db) \in Prefixes(chain)
<1>1. db \in AuditStores /\ Walks(db)
  BY DEF IInv, TypeOK, VerifyAudit, Walks
<1>2. Chain(db) = WalkedTip(db) /\ WalkedTip(db) \in Hashes
  BY <1>1, ChainIsTip, WalkedTipType
<1>3. Seeded /\ strict => WalkedTip(db) = db.tip
  BY DEF IInv, Written, VerifyAudit, TipHolds
<1>4. \E chain \in hashed : WalkedTip(db) \in Prefixes(chain)
  <2>1. CASE Present(db) = {}
    <3>1. WalkedTip(db) = Genesis /\ Genesis \in hashed
      BY <2>1 DEF WalkedTip, IInv, Unwritten
    <3> QED
      BY <1>2, <3>1, PrefixOfItself
  <2>2. CASE Present(db) # {}
    <3>1. LastSeq(db) \in Present(db) /\ WalkedTip(db) = db.rows[LastSeq(db)].hash
      BY <2>2, LastIsThere DEF WalkedTip
    <3>2. Seeded
      <4>1. db # EmptyAudit
        BY <2>2 DEF EmptyAudit, Present
      <4> QED
        BY <4>1 DEF IInv, Unwritten, Seeded
    <3> QED
      BY <3>1, <3>2 DEF IInv, Written
  <2> QED
    BY <2>1, <2>2
<1> QED
  BY <1>2, <1>3, <1>4

LEMMA InvImpliesServed == IInv => ServedWasWritten
<1> SUFFICES ASSUME IInv, open, VerifyAudit(db, strict)
             PROVE  IF strict THEN Chain(db) \in hashed
                    ELSE \E chain \in hashed : Chain(db) \in Prefixes(chain)
  BY DEF ServedWasWritten
<1>1. CASE strict
  <2>1. CASE Seeded
    BY <1>1, <2>1, TipOfServed DEF IInv, Written
  <2>2. CASE ~Seeded
    <3>1. db = EmptyAudit /\ Genesis \in hashed
      BY <2>2 DEF Seeded, IInv, Unwritten
    <3>2. WalkedTip(db) = Genesis
      BY <3>1 DEF EmptyAudit, WalkedTip, Present
    <3> QED
      BY <1>1, <3>1, <3>2, TipOfServed
  <2> QED
    BY <2>1, <2>2
<1>2. CASE ~strict
  BY <1>2, TipOfServed
<1> QED
  BY <1>1, <1>2

(***************************************************************************)
(* What the log serves was once written by its own API, after any edits,      *)
(* copies, restores and appends: a whole chain with the tip kept, a prefix of  *)
(* one without (openfang.py:177-209).                                         *)
(***************************************************************************)
THEOREM AuditServesItsOwnWrites == Spec => []ServedWasWritten
BY InvariantHolds, InvImpliesServed, PTL

LEMMA InvImpliesUnedited == IInv => UneditedIsNewest
<1> SUFFICES ASSUME IInv, Seeded, edits = 0
             PROVE  VerifyAudit(db, strict) /\ Chain(db) \in hashed /\ Newest(Chain(db))
  BY DEF UneditedIsNewest
<1>1. Whole(db) /\ Newest(WalkedTip(db)) /\ db \in AuditStores /\ db.tip \in hashed
  BY DEF IInv, Untouched, TypeOK, Written
<1>2. Chain(db) = WalkedTip(db)
  BY <1>1, ChainIsTip DEF Whole
<1> QED
  BY <1>1, <1>2 DEF Whole, Walks, VerifyAudit, TipHolds

(***************************************************************************)
(* A log nobody edited verifies and serves every row ever appended, in both    *)
(* of its versions (openfang.py:154-175).                                     *)
(***************************************************************************)
THEOREM AuditUneditedIsNewest == Spec => []UneditedIsNewest
BY InvariantHolds, InvImpliesUnedited, PTL

LEMMA RowEditCutsAtMost ==
    ASSUME IInv, IInv', RowEdit, VerifyAudit(db, strict), VerifyAudit(db, strict)'
    PROVE  \/ Chain(db') = Chain(db)
           \/ ~strict /\ Chain(db') \in Prefixes(Chain(db))
<1>1. /\ Seeded /\ open /\ open' = open /\ strict' = strict /\ hashed' = hashed
      /\ db \in AuditStores /\ db' \in AuditStores
  BY DEF RowEdit, EditWrite, EditDelete, MayEdit, Edited, Seeded, IInv, TypeOK
<1>2. CopiesHashes(db, db')
  BY <1>1, RowEditType
<1>3. Walks(db) /\ Walks(db')
  BY DEF VerifyAudit, Walks
<1>4. Chain(db) = WalkedTip(db) /\ Chain(db') = WalkedTip(db')
  BY <1>1, <1>3, ChainIsTip
<1>5. CASE strict
  <2>1. db.tip # NONE /\ db'.tip = db.tip
    BY <1>1, <1>2 DEF IInv, Written, CopiesHashes
  <2>2. WalkedTip(db) = db.tip /\ WalkedTip(db') = db'.tip
    BY <1>1, <1>5, <2>1 DEF VerifyAudit, TipHolds
  <2> QED
    BY <1>4, <2>1, <2>2
<1>6. CASE ~strict
  <2>1. CASE Present(db') = {}
    BY <1>1, <1>4, <1>6, <2>1, WalkedTipType, GenesisIsPrefix DEF WalkedTip
  <2>2. CASE Present(db') # {}
    <3>1. PICK j \in Present(db) : WalkedTip(db') = db.rows[j].hash
      BY <1>2, <2>2, LastIsThere DEF WalkedTip, CopiesHashes
    <3>2. db.rows[j].hash \in Prefixes(WalkedTip(db))
      BY <1>1, <1>3, RowsArePrefixes
    <3> QED
      BY <1>4, <1>6, <3>1, <3>2
  <2> QED
    BY <2>1, <2>2
<1> QED
  BY <1>5, <1>6

(***************************************************************************)
(* Row edits never take a log that verifies to another that verifies, but for  *)
(* rows off the end before the fix (tests/test_openfang.py:33).               *)
(***************************************************************************)
THEOREM AuditRowEditsCutAtMost == Spec => OnlyTheTailGoesUnnoticed
BY InvariantHolds, RowEditCutsAtMost, PTL DEF Spec, OnlyTheTailGoesUnnoticed
=============================================================================
