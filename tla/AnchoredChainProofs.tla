------------------------- MODULE AnchoredChainProofs -------------------------
(* Theorems about AnchoredChain, for all texts and all bounds.               *)
EXTENDS AnchoredChain, SequenceTheorems, WellFoundedInduction, TLAPS

(* Lines whose signature, if good, is one the producer made.                 *)
Honest == {line \in Lines : line.signed => Digest(line) \in signed}

(* The anchor was taken of these lines, and they were one chain.             *)
TakenOf(v) ==
    /\ v.lines \in Seq(Honest)
    /\ v.lines # <<>>
    /\ ~LinkBroken(v.lines)
    /\ v.anchor = AnchorOf(v.lines)

IInv ==
    /\ TypeOK
    /\ store \in Seq(Honest)
    /\ backup \in Seq(Honest)
    /\ \A v \in vouched : TakenOf(v)
    /\ anchor.signed => \E v \in vouched : v.anchor = anchor
    /\ Digest(OtherLine) \in signed

(* Every non-empty set of naturals has a least element. *)
LEMMA Least ==
    ASSUME NEW S, S \subseteq Nat, S # {}
    PROVE  \E m \in S : \A k \in S : m <= k
<1>1. PICK m \in S : \A k \in S : ~(<<k, m>> \in OpToRel(<, Nat))
  BY NatLessThanWellFounded, WFMin
<1>2. \A k \in S : ~(k < m)
  BY <1>1 DEF OpToRel
<1> QED
  BY <1>2

LEMMA DigestType ==
    ASSUME NEW line \in Lines
    PROVE  /\ SaidBy(line) \in Said
           /\ Digest(line) \in Digests
           /\ Len(Digest(line)) = Len(line.prev) + 1
           /\ \A j \in 1..Len(line.prev) : Digest(line)[j] = line.prev[j]
           /\ Digest(line)[Len(line.prev) + 1] = SaidBy(line)
<1>1. SaidBy(line) \in Said /\ line.prev \in Seq(Said)
  BY DEF Lines, SaidBy, Said, Digests
<1> QED
  BY <1>1, AppendProperties DEF Digest, Digests

(* In a linked chain the digest of a line says all that was written up to it. *)
LEMMA DigestSaysAll ==
    ASSUME NEW lines \in Seq(Lines), ~LinkBroken(lines), NEW i \in 1..Len(lines)
    PROVE  Digest(lines[i]) = WrittenSoFar(lines, i)
<1> DEFINE Good(k) == Digest(lines[k]) = WrittenSoFar(lines, k)
           bad == {k \in 1..Len(lines) : ~Good(k)}
<1>1. \A k \in 1..Len(lines) : lines[k] \in Lines /\ lines[k].prev = DigestBefore(lines, k)
  BY ElementOfSeq, LenProperties DEF LinkBroken
<1>2. ASSUME NEW k \in 1..Len(lines), k > 1 => Good(k - 1) PROVE Good(k)
  <2>1. lines[k] \in Lines /\ lines[k].prev \in Seq(Said)
    BY <1>1 DEF Lines, Digests
  <2>2. lines[k].prev = WrittenSoFar(lines, k - 1)
    <3>1. CASE k = 1
      BY <1>1, <3>1 DEF DigestBefore, Genesis, WrittenSoFar
    <3>2. CASE k > 1
      BY <1>1, <1>2, <3>2 DEF DigestBefore
    <3> QED
      BY <3>1, <3>2
  <2>3. Len(lines[k].prev) = k - 1
    BY <2>2, <2>1, LenProperties DEF WrittenSoFar
  <2>4. /\ Digest(lines[k]) \in Seq(Said) /\ Len(Digest(lines[k])) = k
        /\ \A j \in 1..(k - 1) : Digest(lines[k])[j] = lines[k].prev[j]
        /\ Digest(lines[k])[k] = SaidBy(lines[k])
    BY <2>1, <2>3, DigestType DEF Digests
  <2>5. \A j \in 1..k : Digest(lines[k])[j] = SaidBy(lines[j])
    BY <2>2, <2>4 DEF WrittenSoFar
  <2>6. Digest(lines[k]) = [j \in 1..k |-> Digest(lines[k])[j]]
    BY <2>4, LenProperties
  <2> QED
    BY <2>5, <2>6 DEF WrittenSoFar
<1>3. bad = {}
  <2> SUFFICES ASSUME bad # {} PROVE FALSE
    OBVIOUS
  <2>0. bad \subseteq Nat
    BY LenProperties
  <2>1. PICK m \in bad : \A k \in bad : m <= k
    <3> HIDE DEF bad
    <3> QED
      BY <2>0, Least
  <2>2. m \in 1..Len(lines) /\ (m > 1 => m - 1 \in 1..Len(lines) /\ m - 1 \notin bad)
    BY <2>1, LenProperties
  <2> QED
    BY <1>2, <2>1, <2>2
<1> QED
  BY <1>3

(* Two chains with the same digest at a place hold the same lines up to it.  *)
LEMMA SameDigestSameLines ==
    ASSUME NEW a \in Seq(Lines), NEW b \in Seq(Lines), ~LinkBroken(a), ~LinkBroken(b),
           NEW n \in 1..Len(a), n = Len(b), Digest(a[n]) = Digest(b[n])
    PROVE  b = SubSeq(a, 1, n)
<1>1. n \in 1..Len(b) /\ n \in Nat /\ n <= Len(a)
  BY LenProperties
<1>2. WrittenSoFar(a, n) = WrittenSoFar(b, n)
  BY <1>1, DigestSaysAll
<1>3. \A j \in 1..n : SaidBy(a[j]) = SaidBy(b[j])
  BY <1>2, <1>1 DEF WrittenSoFar
<1>4. ASSUME NEW j \in 1..n PROVE DigestBefore(a, j) = DigestBefore(b, j)
  <2>1. CASE j = 1
    BY <2>1 DEF DigestBefore
  <2>2. CASE j > 1
    <3>1. j - 1 \in 1..Len(a) /\ j - 1 \in 1..Len(b) /\ j - 1 \in 1..n
      BY <1>1, <2>2, LenProperties
    <3>2. Digest(a[j - 1]) = WrittenSoFar(a, j - 1) /\ Digest(b[j - 1]) = WrittenSoFar(b, j - 1)
      BY <3>1, DigestSaysAll
    <3>3. WrittenSoFar(a, j - 1) = WrittenSoFar(b, j - 1)
      BY <1>3, <1>1 DEF WrittenSoFar
    <3> QED
      BY <2>2, <3>2, <3>3 DEF DigestBefore
  <2> QED
    BY <2>1, <2>2
<1>5. ASSUME NEW j \in 1..n PROVE a[j] = b[j]
  <2>1. j \in 1..Len(a) /\ j \in 1..Len(b) /\ a[j] \in Lines /\ b[j] \in Lines
    BY <1>1, ElementOfSeq, LenProperties
  <2>2. a[j].prev = b[j].prev
    BY <1>4, <2>1, LenProperties DEF LinkBroken
  <2>3. /\ a[j].chain = b[j].chain /\ a[j].text = b[j].text /\ a[j].signed = b[j].signed
    BY <1>3 DEF SaidBy
  <2> QED
    BY <2>1, <2>2, <2>3 DEF Lines
<1>6. /\ SubSeq(a, 1, n) \in Seq(Lines) /\ Len(SubSeq(a, 1, n)) = n
      /\ \A j \in 1..n : SubSeq(a, 1, n)[j] = a[j]
  <2>1. \A j \in 1..n : a[j] \in Lines
    BY <1>1, ElementOfSeq
  <2> QED
    BY <1>1, <2>1, SubSeqProperties
<1> QED
  BY <1>1, <1>5, <1>6, SeqEqual

-----------------------------------------------------------------------------
(* The lines the edits and the producer write.                               *)

LEMMA DigestBeforeType ==
    ASSUME NEW lines \in Seq(Lines), NEW i \in 1..(Len(lines) + 1)
    PROVE  DigestBefore(lines, i) \in Digests
<1>1. CASE i = 1
  BY <1>1, EmptySeq DEF DigestBefore, Genesis, Digests
<1>2. CASE i > 1
  <2>1. i - 1 \in 1..Len(lines)
    BY <1>2, LenProperties
  <2>2. lines[i - 1] \in Lines
    BY <2>1, ElementOfSeq
  <2> QED
    BY <1>2, <2>2, DigestType DEF DigestBefore
<1> QED
  BY <1>1, <1>2, LenProperties

LEMMA NextLineType ==
    ASSUME NEW lines \in Seq(Lines), NEW t \in Texts
    PROVE  NextLine(lines, t) \in Lines /\ NextLine(lines, t).signed
<1>1. DigestBefore(lines, Len(lines) + 1) \in Digests
  BY DigestBeforeType, LenProperties
<1> QED
  BY <1>1 DEF NextLine, Lines

LEMMA OtherLineType == OtherLine \in Lines
BY ChainAssumption, EmptySeq DEF OtherLine, Lines, Genesis, Digests

LEMMA AnchorOfType ==
    ASSUME NEW lines \in Seq(Lines), lines # <<>>
    PROVE  AnchorOf(lines) \in Anchors
<1>1. Len(lines) \in 1..Len(lines) /\ Len(lines) - 1 \in Nat
  BY EmptySeq, LenProperties
<1>2. Digest(lines[Len(lines)]) \in Digests
  BY <1>1, ElementOfSeq, DigestType
<1> QED
  BY <1>1, <1>2 DEF AnchorOf, Anchors, Last

LEMMA CutIsHonest ==
    ASSUME NEW S, NEW lines \in Seq(S), NEW m \in Nat, NEW n \in Nat, m >= 1, n <= Len(lines)
    PROVE  SubSeq(lines, m, n) \in Seq(S)
<1>1. \A k \in m..n : lines[k] \in S
  BY ElementOfSeq, LenProperties
<1> QED
  BY <1>1, SubSeqProperties

LEMMA RemovalIsHonest ==
    ASSUME NEW S, NEW lines \in Seq(S), NEW i \in 1..Len(lines)
    PROVE  RemoveAt(lines, i) \in Seq(S)
<1>1. SubSeq(lines, 1, i - 1) \in Seq(S) /\ SubSeq(lines, i + 1, Len(lines)) \in Seq(S)
  BY CutIsHonest, LenProperties
<1> QED
  BY <1>1, ConcatProperties DEF RemoveAt

(* An edit of the lines alone keeps the invariant if it keeps the lines       *)
(* honest, whatever it does to the copy of an anchor that was signed.        *)
LEMMA HonestEdit ==
    ASSUME IInv, signed' = signed, vouched' = vouched, backup' = backup,
           store' \in Seq(Honest),
           anchor' \in Anchors,
           anchor'.signed => \E v \in vouched : v.anchor = anchor'
    PROVE  IInv'
<1>1. Honest' = Honest /\ Honest \subseteq Lines
  BY DEF Honest
<1>2. TypeOK'
  BY <1>1, SeqMonotonic DEF IInv, TypeOK
<1>3. \A v \in vouched' : TakenOf(v)'
  BY <1>1 DEF IInv, TakenOf
<1> QED
  BY <1>1, <1>2, <1>3 DEF IInv

LEMMA InitIInv == Init => IInv
<1> SUFFICES ASSUME Init PROVE IInv
  OBVIOUS
<1>1. PICK t \in Texts :
        /\ store = <<NextLine(<<>>, t)>>
        /\ anchor = AnchorOf(store)
        /\ vouched = {Vouch(store)}
        /\ signed = {Digest(store[1]), Digest(OtherLine)}
  BY DEF Init
<1>2. <<>> \in Seq(Lines) /\ backup = <<>>
  BY EmptySeq DEF Init
<1>3. store[1] \in Lines /\ store[1] = NextLine(<<>>, t) /\ Len(store) = 1
  BY <1>1, <1>2, NextLineType
<1>4. store \in Seq(Honest) /\ store \in Seq(Lines) /\ store # <<>>
  <2>1. store[1] \in Honest
    BY <1>1, <1>3 DEF Honest
  <2> QED
    BY <1>1, <1>3, <2>1
<1>5. ~LinkBroken(store)
  <2>1. store[1].prev = Genesis
    BY <1>3, EmptySeq DEF NextLine, DigestBefore
  <2> QED
    BY <1>3, <1>4, <2>1, LenProperties DEF LinkBroken, DigestBefore
<1>6. anchor \in Anchors
  BY <1>1, <1>4, AnchorOfType
<1>7. \A v \in vouched : v.anchor = anchor /\ v.lines = store
  BY <1>1 DEF Vouch
<1> QED
  BY <1>1, <1>2, <1>4, <1>5, <1>6, <1>7, EmptySeq DEF IInv, TypeOK, TakenOf, Vouch

(* Signing one more record leaves every honest line honest.                  *)
LEMMA StillHonest ==
    ASSUME signed \subseteq signed', NEW lines \in Seq(Honest)
    PROVE  lines \in Seq(Honest')
<1>1. Honest \subseteq Honest'
  BY DEF Honest
<1> QED
  BY <1>1, SeqMonotonic

LEMMA LinesAreTyped == ASSUME NEW lines \in Seq(Honest) PROVE lines \in Seq(Lines)
<1>1. Honest \subseteq Lines
  BY DEF Honest
<1> QED
  BY <1>1, SeqMonotonic

LEMMA EditIInv ==
    ASSUME IInv, Edit
    PROVE  IInv'
<1> USE DEF Becomes
<1>1. /\ store \in Seq(Honest) /\ backup \in Seq(Honest) /\ store \in Seq(Lines)
      /\ anchor \in Anchors /\ (anchor.signed => \E v \in vouched : v.anchor = anchor)
  BY LinesAreTyped DEF IInv, TypeOK
<1>2. \A i \in 1..Len(store) : store[i] \in Honest /\ store[i] \in Lines
  BY <1>1, ElementOfSeq
<1>3. CASE AlterLine
  <2>1. PICK i \in 1..Len(store) :
          \/ store' = [store EXCEPT ![i] = [@ EXCEPT !.text = Altered, !.signed = FALSE]]
          \/ store' = [store EXCEPT ![i] = [@ EXCEPT !.chain = OtherChain, !.signed = FALSE]]
    BY <1>1, <1>3, LenProperties DEF AlterLine
  <2>2. /\ [store[i] EXCEPT !.text = Altered, !.signed = FALSE] \in Honest
        /\ [store[i] EXCEPT !.chain = OtherChain, !.signed = FALSE] \in Honest
    BY <1>2 DEF Honest, Lines
  <2>3. store' \in Seq(Honest)
    BY <1>1, <2>1, <2>2, ExceptSeq
  <2> QED
    BY <1>1, <1>3, <2>3, HonestEdit DEF AlterLine
<1>4. CASE RemoveLine
  <2>1. PICK i \in 1..Len(store) : store' = RemoveAt(store, i)
    BY <1>1, <1>4, LenProperties DEF RemoveLine
  <2>2. store' \in Seq(Honest)
    BY <1>1, <2>1, RemovalIsHonest
  <2> QED
    BY <1>1, <1>4, <2>2, HonestEdit DEF RemoveLine
<1>a. Len(store) >= 3 => SubSeq(store, 1, Len(store) - 2) \in Seq(Honest)
  BY <1>1, CutIsHonest, LenProperties
<1>5. CASE RemoveTail
  BY <1>1, <1>5, <1>a, HonestEdit DEF RemoveTail
<1>6. CASE SwapLines
  <2>1. PICK i \in 1..Len(store), j \in 1..Len(store) :
          store' = [store EXCEPT ![i] = store[j], ![j] = store[i]]
    <3>1. Len(store) \in Nat /\ DOMAIN store = 1..Len(store)
      BY <1>1, LenProperties
    <3> QED
      BY <1>6, <3>1 DEF SwapLines
  <2>2. [store EXCEPT ![i] = store[j]] \in Seq(Honest) /\ Len([store EXCEPT ![i] = store[j]]) = Len(store)
    BY <1>1, <1>2, ExceptSeq
  <2>3. store' \in Seq(Honest)
    BY <1>2, <2>1, <2>2, ExceptSeq
  <2> QED
    BY <1>1, <1>6, <2>3, HonestEdit DEF SwapLines
<1>7. CASE ForgeLine
  <2> DEFINE forged == [NextLine(store, Altered) EXCEPT !.signed = FALSE]
  <2>1. DigestBefore(store, Len(store) + 1) \in Digests
    BY <1>1, DigestBeforeType, LenProperties
  <2>2. forged \in Honest
    BY <2>1 DEF NextLine, Honest, Lines
  <2>3. store' \in Seq(Honest)
    BY <1>1, <1>7, <2>2, AppendProperties DEF ForgeLine
  <2> QED
    BY <1>1, <1>7, <2>3, HonestEdit DEF ForgeLine
<1>8. CASE ReplayLine
  <2>1. OtherLine \in Honest
    BY OtherLineType DEF IInv, Honest
  <2>2. PICK i \in 1..Len(store) :
          \/ store' = [store EXCEPT ![i] = OtherLine]
          \/ store' = [store EXCEPT ![Len(store)] = store[i]]
    BY <1>1, <1>8, LenProperties DEF ReplayLine
  <2>3. Len(store) \in 1..Len(store)
    BY <1>1, <2>2, LenProperties
  <2>4. store' \in Seq(Honest)
    BY <1>1, <1>2, <2>1, <2>2, <2>3, ExceptSeq
  <2> QED
    BY <1>1, <1>8, <2>4, HonestEdit DEF ReplayLine
<1>9. CASE RestoreBackup
  BY <1>1, <1>9, HonestEdit DEF RestoreBackup
<1>10. CASE ReplaceAnchor
  <2>1. CASE Len(store) >= 3 /\ Becomes("tail-removal-reanchored", SubSeq(store, 1, Len(store) - 2))
               /\ anchor' = [AnchorOf(store') EXCEPT !.signed = FALSE]
    <3>1. store' \in Seq(Honest) /\ store' \in Seq(Lines)
      BY <1>a, <2>1, LinesAreTyped
    <3>2. store' # <<>>
      <4>1. \A k \in 1..(Len(store) - 2) : store[k] \in Lines
        BY <1>1, <1>2, LenProperties
      <4>2. Len(store') = Len(store) - 2
        BY <1>1, <2>1, <4>1, SubSeqProperties, LenProperties
      <4>3. Len(store) \in Nat /\ Len(store) >= 3
        BY <1>1, <2>1, LenProperties
      <4>4. Len(store') # 0
        BY <4>2, <4>3
      <4> QED
        BY <4>4, EmptySeq
    <3>3. AnchorOf(store') \in Anchors
      BY <3>1, <3>2, AnchorOfType
    <3>4. anchor' \in Anchors /\ ~anchor'.signed
      BY <2>1, <3>3 DEF Anchors
    <3> QED
      BY <2>1, <3>1, <3>4, HonestEdit
  <2>2. CASE (\E v \in vouched : v.anchor # anchor /\ anchor' = v.anchor) /\ Becomes("other", store)
    BY <1>1, <2>2, HonestEdit DEF IInv, TypeOK
  <2> QED
    BY <1>10, <2>1, <2>2 DEF ReplaceAnchor
<1> QED
  BY <1>3, <1>4, <1>5, <1>6, <1>7, <1>8, <1>9, <1>10 DEF Edit

LEMMA NextIInv == IInv /\ [Next]_vars => IInv'
<1> SUFFICES ASSUME IInv, [Next]_vars PROVE IInv'
  OBVIOUS
<1>1. /\ store \in Seq(Honest) /\ backup \in Seq(Honest)
      /\ store \in Seq(Lines) /\ backup \in Seq(Lines) /\ anchor \in Anchors
      /\ \A v \in vouched : v.anchor \in Anchors /\ v.lines \in Seq(Lines)
  BY DEF IInv, TypeOK
<1>2. CASE Produce
  <2>1. PICK t \in Texts :
          /\ store' = Append(store, NextLine(store, t))
          /\ signed' = signed \cup {Digest(NextLine(store, t))}
    BY <1>2 DEF Produce
  <2>2. NextLine(store, t) \in Lines
    BY <1>1, NextLineType
  <2>3. /\ store \in Seq(Honest') /\ backup \in Seq(Honest')
        /\ \A v \in vouched : v.lines \in Seq(Honest')
    BY <1>1, <2>1, StillHonest DEF IInv, TakenOf
  <2>4. NextLine(store, t) \in Honest'
    BY <2>1, <2>2 DEF Honest
  <2>5. store' \in Seq(Honest') /\ store' \in Seq(Lines)
    BY <1>1, <2>1, <2>2, <2>3, <2>4, AppendProperties
  <2> QED
    BY <1>1, <1>2, <2>3, <2>5 DEF Produce, IInv, TypeOK, TakenOf
<1>3. CASE Abandon
  <2>1. PICK n \in (anchor.index + 1)..(Len(store) - 1) : store' = SubSeq(store, 1, n)
    BY <1>3 DEF Abandon
  <2>2. n \in Nat /\ n <= Len(store)
    BY <1>1, <2>1, LenProperties DEF Anchors
  <2>3. store' \in Seq(Honest) /\ store' \in Seq(Lines)
    BY <1>1, <2>1, <2>2, CutIsHonest
  <2>4. Honest' = Honest
    BY <1>3 DEF Abandon, Honest
  <2> QED
    BY <1>1, <1>3, <2>3, <2>4 DEF Abandon, IInv, TypeOK, TakenOf
<1>4. CASE Copy
  <2>1. Honest' = Honest
    BY <1>4 DEF Copy, Honest
  <2> QED
    BY <1>1, <1>4, <2>1 DEF Copy, IInv, TypeOK, TakenOf
<1>5. CASE TakeAnchor
  <2>1. Honest' = Honest
    BY <1>5 DEF TakeAnchor, Honest
  <2>2. anchor' \in Anchors
    BY <1>1, <1>5, AnchorOfType DEF TakeAnchor
  <2>3. TakenOf(Vouch(store)) /\ Vouch(store).anchor = anchor' /\ Vouch(store).lines = store
    BY <1>1, <1>5 DEF TakeAnchor, TakenOf, Vouch
  <2>4. vouched' = vouched \cup {Vouch(store)} /\ store' = store /\ backup' = backup
        /\ signed' = signed
    BY <1>5 DEF TakeAnchor
  <2>5. \A v \in vouched' : TakenOf(v)'
    BY <2>1, <2>3, <2>4 DEF IInv, TakenOf
  <2>6. TypeOK'
    BY <1>1, <2>2, <2>3, <2>4 DEF TypeOK
  <2> QED
    BY <1>1, <2>1, <2>3, <2>4, <2>5, <2>6 DEF IInv
<1>6. CASE Edit
  BY <1>6, EditIInv
<1>7. CASE UNCHANGED vars
  <2>1. Honest' = Honest
    BY <1>7 DEF vars, Honest
  <2> QED
    BY <1>7, <2>1 DEF vars, IInv, TypeOK, TakenOf
<1> QED
  BY <1>2, <1>3, <1>4, <1>5, <1>6, <1>7 DEF Next

LEMMA IInvHolds == Spec => []IInv
BY InitIInv, NextIInv, PTL DEF Spec

(* Store, copy and every anchor are well typed in every reachable state.     *)
THEOREM AnchoredTypeCorrect == Spec => []TypeOK
<1>1. IInv => TypeOK
  BY DEF IInv
<1> QED
  BY <1>1, IInvHolds, PTL

(* What passes the six checks, check by check.                               *)
LEMMA VerifiedChecks ==
    ASSUME Verified(store, anchor)
    PROVE  /\ ~SignatureInvalid(store) /\ anchor.signed /\ ~LinkBroken(store)
           /\ ~HeadMissing(store, anchor) /\ ~HeadMismatch(store, anchor)
<1>1. \A i \in 1..6 : ~Fails(Checks[i], store, anchor)
  BY DEF Verified, Failing, Checks
<1>2. /\ Checks[1] = "signature_invalid" /\ Checks[2] = "anchor_signature_invalid"
      /\ Checks[4] = "chain_link_broken" /\ Checks[5] = "anchored_head_missing"
      /\ Checks[6] = "anchored_head_mismatch"
  BY DEF Checks
<1>3. /\ ~Fails("signature_invalid", store, anchor)
      /\ ~Fails("anchor_signature_invalid", store, anchor)
      /\ ~Fails("chain_link_broken", store, anchor)
      /\ ~Fails("anchored_head_missing", store, anchor)
      /\ ~Fails("anchored_head_mismatch", store, anchor)
  BY <1>1, <1>2
<1> QED
  BY <1>3 DEF Fails

(* A store that passes all six checks is, up to the anchored line, line for   *)
(* line the chain the anchor was taken of (anchored_chain.py:58-88).         *)
THEOREM VerifiedPrefixIsAnchored == Spec => []VerifiedIsAnchored
<1>1. ASSUME IInv, Verified(store, anchor)
      PROVE  \E v \in vouched : v.anchor = anchor /\ v.lines = SubSeq(store, 1, anchor.index + 1)
  <2>1. PICK v \in vouched : v.anchor = anchor /\ TakenOf(v)
    BY <1>1, VerifiedChecks DEF IInv
  <2>2. v.lines \in Seq(Lines) /\ store \in Seq(Lines) /\ anchor \in Anchors
    BY <1>1, <2>1 DEF IInv, TypeOK
  <2> DEFINE n == Len(v.lines)
  <2>3. anchor.index = n - 1 /\ anchor.head = Digest(v.lines[n]) /\ n \in Nat
    BY <2>1, <2>2, LenProperties DEF TakenOf, AnchorOf, Last
  <2>4. n \in 1..Len(store) /\ Digest(store[n]) = anchor.head
    <3>1. ~HeadMissing(store, anchor) /\ ~HeadMismatch(store, anchor)
      BY <1>1, VerifiedChecks
    <3>2. n - 1 \in Nat /\ n - 1 < Len(store) /\ n - 1 + 1 = n
      BY <2>2, <2>3, <3>1, LenProperties DEF HeadMissing, Anchors
    <3>3. Digest(store[n - 1 + 1]) = anchor.head
      BY <2>3, <3>1 DEF HeadMismatch
    <3> QED
      BY <2>2, <3>2, <3>3, LenProperties
  <2>5. v.lines = SubSeq(store, 1, n)
    BY <1>1, <2>1, <2>2, <2>3, <2>4, VerifiedChecks, SameDigestSameLines DEF TakenOf
  <2>6. anchor.index + 1 = n
    BY <2>3
  <2> QED
    BY <2>1, <2>5, <2>6
<1>2. IInv => VerifiedIsAnchored
  BY <1>1 DEF VerifiedIsAnchored
<1> QED
  BY <1>2, IInvHolds, PTL

(* Every line of a verified store was signed on top of exactly the lines      *)
(* before it, the ones after the anchor included.                            *)
THEOREM VerifiedStoreIsABranch == Spec => []VerifiedIsABranch
<1>1. ASSUME IInv, Verified(store, anchor), NEW i \in 1..Len(store)
      PROVE  WrittenSoFar(store, i) \in signed
  <2>1. store \in Seq(Lines) /\ store[i] \in Honest
    BY <1>1, ElementOfSeq DEF IInv, TypeOK
  <2>2. store[i].signed /\ ~LinkBroken(store)
    BY <1>1, <2>1, VerifiedChecks, LenProperties DEF SignatureInvalid
  <2>3. Digest(store[i]) = WrittenSoFar(store, i)
    BY <2>1, <2>2, DigestSaysAll
  <2> QED
    BY <2>1, <2>2, <2>3 DEF Honest
<1>2. IInv => VerifiedIsABranch
  <2> SUFFICES ASSUME IInv, Verified(store, anchor), NEW i \in DOMAIN store
               PROVE  WrittenSoFar(store, i) \in signed
    BY DEF VerifiedIsABranch
  <2>1. i \in 1..Len(store)
    BY LenProperties DEF IInv
  <2> QED
    BY <1>1, <2>1
<1> QED
  BY <1>2, IInvHolds, PTL
-----------------------------------------------------------------------------
(* The reason of each edit of the corpus.                                    *)

(* A store as the producer and the anchor's holder leave it.                 *)
Intact(lines) ==
    /\ ~SignatureInvalid(lines)
    /\ ~FromOtherChain(lines)
    /\ ~LinkBroken(lines)
HeadHeld(lines, a) ==
    /\ a.index \in 0..(Len(lines) - 1)
    /\ Digest(lines[a.index + 1]) = a.head

(* Before the first edit all is as it was signed; after it the reason stays.  *)
Unedited ==
    edits = 0 =>
        /\ edit = "honest"
        /\ Intact(store) /\ Intact(backup)
        /\ anchor.signed
        /\ HeadHeld(store, anchor)

KInv ==
    /\ IInv
    /\ edits \in Nat
    /\ Unedited
    /\ ReasonsMatchTheCorpus

(* The first check that fails names the reason.                              *)
LEMMA FirstFailingNames ==
    ASSUME NEW lines, NEW a, NEW k \in 1..6,
           Fails(Checks[k], lines, a), \A i \in 1..(k - 1) : ~Fails(Checks[i], lines, a)
    PROVE  Reason(lines, a) = Checks[k]
<1>1. /\ Failing(lines, a) \subseteq 1..6
      /\ k \in Failing(lines, a)
      /\ \A i \in Failing(lines, a) : k <= i
  BY DEF Failing, Checks
<1>2. Min(Failing(lines, a)) = k
  BY <1>1 DEF Min
<1> QED
  BY <1>1, <1>2 DEF Reason, Verified

LEMMA ChecksInOrder ==
    /\ Checks[1] = "signature_invalid" /\ Checks[2] = "anchor_signature_invalid"
    /\ Checks[3] = "record_from_other_chain" /\ Checks[4] = "chain_link_broken"
    /\ Checks[5] = "anchored_head_missing" /\ Checks[6] = "anchored_head_mismatch"
BY DEF Checks

LEMMA CheckByCheck ==
    ASSUME NEW lines, NEW a
    PROVE  /\ Fails(Checks[1], lines, a) <=> SignatureInvalid(lines)
           /\ Fails(Checks[2], lines, a) <=> ~a.signed
           /\ Fails(Checks[3], lines, a) <=> FromOtherChain(lines)
           /\ Fails(Checks[4], lines, a) <=> LinkBroken(lines)
           /\ Fails(Checks[5], lines, a) <=> HeadMissing(lines, a)
           /\ Fails(Checks[6], lines, a) <=> HeadMismatch(lines, a)
BY ChecksInOrder DEF Fails

LEMMA ReasonOf ==
    ASSUME NEW lines, NEW a
    PROVE  /\ SignatureInvalid(lines) => Reason(lines, a) = "signature_invalid"
           /\ ~SignatureInvalid(lines) /\ ~a.signed => Reason(lines, a) = "anchor_signature_invalid"
           /\ ~SignatureInvalid(lines) /\ a.signed /\ FromOtherChain(lines) =>
                Reason(lines, a) = "record_from_other_chain"
           /\ ~SignatureInvalid(lines) /\ a.signed /\ ~FromOtherChain(lines) /\ LinkBroken(lines) =>
                Reason(lines, a) = "chain_link_broken"
           /\ Intact(lines) /\ a.signed /\ HeadMissing(lines, a) =>
                Reason(lines, a) = "anchored_head_missing"
           /\ Intact(lines) /\ a.signed /\ ~HeadMissing(lines, a) /\ HeadMismatch(lines, a) =>
                Reason(lines, a) = "anchored_head_mismatch"
<1>1. ASSUME SignatureInvalid(lines)
      PROVE  Reason(lines, a) = "signature_invalid"
  <2>1. Fails(Checks[1], lines, a)
    BY <1>1, CheckByCheck
  <2> QED
    BY <2>1, FirstFailingNames, ChecksInOrder
<1>2. ASSUME ~SignatureInvalid(lines) /\ ~a.signed
      PROVE  Reason(lines, a) = "anchor_signature_invalid"
  <2>1. Fails(Checks[2], lines, a)
    BY <1>2, CheckByCheck
  <2>2. \A i \in 1..(2 - 1) : ~Fails(Checks[i], lines, a)
    <3>1. ~Fails(Checks[1], lines, a)
      BY <1>2, CheckByCheck
    <3>2. \A i \in 1..(2 - 1) : i = 1
      OBVIOUS
    <3> QED
      BY <3>1, <3>2
  <2> QED
    BY <2>1, <2>2, FirstFailingNames, ChecksInOrder
<1>3. ASSUME ~SignatureInvalid(lines) /\ a.signed /\ FromOtherChain(lines)
      PROVE  Reason(lines, a) = "record_from_other_chain"
  <2>1. Fails(Checks[3], lines, a)
    BY <1>3, CheckByCheck
  <2>2. \A i \in 1..(3 - 1) : ~Fails(Checks[i], lines, a)
    <3>1. ~Fails(Checks[1], lines, a) /\ ~Fails(Checks[2], lines, a)
      BY <1>3, CheckByCheck
    <3>2. \A i \in 1..(3 - 1) : i = 1 \/ i = 2
      OBVIOUS
    <3> QED
      BY <3>1, <3>2
  <2> QED
    BY <2>1, <2>2, FirstFailingNames, ChecksInOrder
<1>4. ASSUME ~SignatureInvalid(lines) /\ a.signed /\ ~FromOtherChain(lines) /\ LinkBroken(lines)
      PROVE  Reason(lines, a) = "chain_link_broken"
  <2>1. Fails(Checks[4], lines, a)
    BY <1>4, CheckByCheck
  <2>2. \A i \in 1..(4 - 1) : ~Fails(Checks[i], lines, a)
    <3>1. ~Fails(Checks[1], lines, a) /\ ~Fails(Checks[2], lines, a) /\ ~Fails(Checks[3], lines, a)
      BY <1>4, CheckByCheck
    <3>2. \A i \in 1..(4 - 1) : i = 1 \/ i = 2 \/ i = 3
      OBVIOUS
    <3> QED
      BY <3>1, <3>2
  <2> QED
    BY <2>1, <2>2, FirstFailingNames, ChecksInOrder
<1>5. ASSUME Intact(lines) /\ a.signed /\ HeadMissing(lines, a)
      PROVE  Reason(lines, a) = "anchored_head_missing"
  <2>1. Fails(Checks[5], lines, a)
    BY <1>5, CheckByCheck
  <2>2. \A i \in 1..(5 - 1) : ~Fails(Checks[i], lines, a)
    <3>1. ~Fails(Checks[1], lines, a) /\ ~Fails(Checks[2], lines, a) /\ ~Fails(Checks[3], lines, a) /\ ~Fails(Checks[4], lines, a)
      BY <1>5, CheckByCheck DEF Intact
    <3>2. \A i \in 1..(5 - 1) : i = 1 \/ i = 2 \/ i = 3 \/ i = 4
      OBVIOUS
    <3> QED
      BY <3>1, <3>2
  <2> QED
    BY <2>1, <2>2, FirstFailingNames, ChecksInOrder
<1>6. ASSUME Intact(lines) /\ a.signed /\ ~HeadMissing(lines, a) /\ HeadMismatch(lines, a)
      PROVE  Reason(lines, a) = "anchored_head_mismatch"
  <2>1. Fails(Checks[6], lines, a)
    BY <1>6, CheckByCheck
  <2>2. \A i \in 1..(6 - 1) : ~Fails(Checks[i], lines, a)
    <3>1. ~Fails(Checks[1], lines, a) /\ ~Fails(Checks[2], lines, a) /\ ~Fails(Checks[3], lines, a) /\ ~Fails(Checks[4], lines, a) /\ ~Fails(Checks[5], lines, a)
      BY <1>6, CheckByCheck DEF Intact
    <3>2. \A i \in 1..(6 - 1) : i = 1 \/ i = 2 \/ i = 3 \/ i = 4 \/ i = 5
      OBVIOUS
    <3> QED
      BY <3>1, <3>2
  <2> QED
    BY <2>1, <2>2, FirstFailingNames, ChecksInOrder
<1> QED
  BY <1>1, <1>2, <1>3, <1>4, <1>5, <1>6

(* An intact store with its anchored line is verified.                       *)
LEMMA IntactIsVerified ==
    ASSUME NEW lines \in Seq(Lines), NEW a \in Anchors, Intact(lines), a.signed, HeadHeld(lines, a)
    PROVE  /\ Reason(lines, a) \in {"chain_anchored", "records_after_last_anchor"}
           /\ a.index = Len(lines) - 1 => Reason(lines, a) = "chain_anchored"
<1>1. ~HeadMissing(lines, a) /\ ~HeadMismatch(lines, a)
  BY LenProperties DEF HeadHeld, HeadMissing, HeadMismatch
<1>2. \A k \in 1..6 : ~Fails(Checks[k], lines, a)
  <2>1. \A k \in 1..6 : k = 1 \/ k = 2 \/ k = 3 \/ k = 4 \/ k = 5 \/ k = 6
    OBVIOUS
  <2>2. /\ ~Fails(Checks[1], lines, a) /\ ~Fails(Checks[2], lines, a) /\ ~Fails(Checks[3], lines, a)
        /\ ~Fails(Checks[4], lines, a) /\ ~Fails(Checks[5], lines, a) /\ ~Fails(Checks[6], lines, a)
    BY <1>1, CheckByCheck DEF Intact
  <2> QED
    BY <2>1, <2>2
<1>3. Verified(lines, a)
  BY <1>2 DEF Verified, Failing, Checks
<1> QED
  BY <1>3, LenProperties DEF Reason, Anchors

(* In a linked chain a line knows how many came before it.                   *)
LEMMA LineKnowsItsPlace ==
    ASSUME NEW lines \in Seq(Lines), ~LinkBroken(lines), NEW i \in 1..Len(lines)
    PROVE  Len(lines[i].prev) = i - 1
<1>0. lines[i] \in Lines
  BY ElementOfSeq
<1>1. lines[i] \in Lines /\ lines[i].prev \in Seq(Said)
  BY <1>0 DEF Lines, Digests
<1>2. Len(Digest(lines[i])) = Len(lines[i].prev) + 1
  BY <1>1, DigestType
<1>3. Digest(lines[i]) \in Seq(Said) /\ Digest(lines[i]) = WrittenSoFar(lines, i)
  BY <1>1, DigestType, DigestSaysAll DEF Digests
<1>4. Len(Digest(lines[i])) = i
  BY <1>3, LenProperties DEF WrittenSoFar
<1> QED
  BY <1>1, <1>2, <1>4, LenProperties

(* Genuine lines with one out of its place: the link is what breaks.         *)
LEMMA OutOfPlace ==
    ASSUME NEW lines \in Seq(Lines), NEW a,
           \A i \in 1..Len(lines) : lines[i].signed /\ lines[i].chain = Chain,
           a.signed,
           NEW k \in 1..Len(lines), Len(lines[k].prev) # k - 1
    PROVE  Reason(lines, a) = "chain_link_broken"
<1>1. LinkBroken(lines)
  BY LineKnowsItsPlace
<1>2. ~SignatureInvalid(lines) /\ ~FromOtherChain(lines)
  BY LenProperties DEF SignatureInvalid, FromOtherChain
<1> QED
  BY <1>1, <1>2, ReasonOf

LEMMA CutIsIntact ==
    ASSUME NEW lines \in Seq(Lines), Intact(lines), NEW n \in Nat, n <= Len(lines)
    PROVE  /\ SubSeq(lines, 1, n) \in Seq(Lines) /\ Len(SubSeq(lines, 1, n)) = n
           /\ \A i \in 1..n : SubSeq(lines, 1, n)[i] = lines[i]
           /\ Intact(SubSeq(lines, 1, n))
<1> DEFINE cut == SubSeq(lines, 1, n)
<1>1. cut \in Seq(Lines) /\ Len(cut) = n /\ \A i \in 1..n : cut[i] = lines[i]
  <2>1. \A i \in 1..n : lines[i] \in Lines
    BY ElementOfSeq, LenProperties
  <2> QED
    BY <2>1, SubSeqProperties
<1>2. DOMAIN cut = 1..n /\ DOMAIN lines = 1..Len(lines) /\ 1..n \subseteq 1..Len(lines)
  BY <1>1, LenProperties
<1> HIDE DEF cut
<1>3. \A i \in 1..n : lines[i].signed /\ lines[i].chain = Chain /\ lines[i].prev = DigestBefore(lines, i)
  BY <1>2 DEF Intact, SignatureInvalid, FromOtherChain, LinkBroken
<1>4. \A i \in 1..n : DigestBefore(cut, i) = DigestBefore(lines, i)
  BY <1>1 DEF DigestBefore
<1>5. Intact(cut)
  BY <1>1, <1>2, <1>3, <1>4 DEF Intact, SignatureInvalid, FromOtherChain, LinkBroken
<1> QED
  BY <1>1, <1>5 DEF cut

LEMMA NextLineIsIntact ==
    ASSUME NEW lines \in Seq(Lines), Intact(lines), NEW t \in Texts
    PROVE  /\ Intact(Append(lines, NextLine(lines, t)))
           /\ \A i \in 1..Len(lines) : Append(lines, NextLine(lines, t))[i] = lines[i]
           /\ Len(Append(lines, NextLine(lines, t))) = Len(lines) + 1
<1> DEFINE new == NextLine(lines, t)
           more == Append(lines, new)
           n == Len(lines)
<1>1. new \in Lines /\ new.signed /\ new.chain = Chain /\ new.prev = DigestBefore(lines, n + 1)
  BY NextLineType DEF NextLine
<1>2. /\ n \in Nat /\ DOMAIN more = 1..(n + 1) /\ DOMAIN lines = 1..n
      /\ more[n + 1] = new /\ (\A i \in 1..n : more[i] = lines[i]) /\ Len(more) = n + 1
  BY <1>1, AppendProperties, LenProperties
<1> HIDE DEF new, more, n
<1>3. \A i \in 1..n : lines[i].signed /\ lines[i].chain = Chain /\ lines[i].prev = DigestBefore(lines, i)
  BY <1>2 DEF Intact, SignatureInvalid, FromOtherChain, LinkBroken
<1>4. \A i \in 1..(n + 1) : DigestBefore(more, i) = DigestBefore(lines, i)
  BY <1>2 DEF DigestBefore
<1>5. \A i \in 1..(n + 1) : more[i].signed /\ more[i].chain = Chain /\ more[i].prev = DigestBefore(more, i)
  BY <1>1, <1>2, <1>3, <1>4
<1>6. Intact(more)
  BY <1>2, <1>5 DEF Intact, SignatureInvalid, FromOtherChain, LinkBroken
<1> QED
  BY <1>2, <1>6 DEF new, more, n

LEMMA ConcatAt ==
    ASSUME NEW S, NEW s \in Seq(S), NEW t \in Seq(S)
    PROVE  /\ s \o t \in Seq(S) /\ Len(s \o t) = Len(s) + Len(t)
           /\ \A j \in 1..Len(s) : (s \o t)[j] = s[j]
           /\ \A j \in 1..Len(t) : (s \o t)[Len(s) + j] = t[j]
<1> DEFINE u == s \o t
           p == Len(s)
           r == Len(t)
<1>1. /\ u \in Seq(S) /\ Len(u) = p + r /\ p \in Nat /\ r \in Nat
      /\ \A i \in 1..(p + r) : u[i] = IF i <= p THEN s[i] ELSE t[i - p]
  BY ConcatProperties, LenProperties
<1> HIDE DEF u, p, r
<1>3. ASSUME NEW j \in 1..p PROVE u[j] = s[j]
  BY <1>1
<1>4. ASSUME NEW j \in 1..r PROVE u[p + j] = t[j]
  <2>1. p + j \in 1..(p + r) /\ ~(p + j <= p) /\ (p + j) - p = j
    BY <1>1
  <2> QED
    BY <1>1, <2>1
<1> QED
  BY <1>1, <1>3, <1>4 DEF u, p, r

LEMMA TailOfTwo ==
    ASSUME NEW n \in Nat, n >= 3
    PROVE  /\ n - 2 \in Nat /\ 1 <= n - 2 /\ n - 2 <= n
           /\ n - 1 >= n - 2 /\ n - 3 = (n - 2) - 1 /\ n - 1 # n - 3
OBVIOUS

(* In an intact store every line is genuine and knows its place.             *)
LEMMA IntactLines ==
    ASSUME NEW lines \in Seq(Lines), Intact(lines)
    PROVE  /\ Len(lines) \in Nat /\ DOMAIN lines = 1..Len(lines)
           /\ \A i \in 1..Len(lines) :
                /\ lines[i] \in Lines /\ lines[i].signed /\ lines[i].chain = Chain
                /\ Len(lines[i].prev) = i - 1
<1>1. Len(lines) \in Nat /\ DOMAIN lines = 1..Len(lines)
  BY LenProperties
<1>2. \A i \in 1..Len(lines) : lines[i] \in Lines /\ lines[i].signed /\ lines[i].chain = Chain
  BY <1>1, ElementOfSeq DEF Intact, SignatureInvalid, FromOtherChain
<1>3. \A i \in 1..Len(lines) : Len(lines[i].prev) = i - 1
  BY LineKnowsItsPlace DEF Intact
<1> QED
  BY <1>1, <1>2, <1>3

LEMMA RemovalBreaksTheLink ==
    ASSUME NEW lines \in Seq(Lines), Intact(lines), NEW a, a.signed,
           NEW i \in 1..Len(lines), i # 1, i # Len(lines)
    PROVE  Reason(RemoveAt(lines, i), a) = "chain_link_broken"
<1> DEFINE n == Len(lines)
           p == i - 1
           q == i + 1
           r == n - i
           front == SubSeq(lines, 1, p)
           back == SubSeq(lines, q, n)
           left == RemoveAt(lines, i)
<1>1. /\ n \in Nat /\ n = Len(lines)
      /\ \A j \in 1..n : /\ lines[j] \in Lines /\ lines[j].signed /\ lines[j].chain = Chain
                         /\ Len(lines[j].prev) = j - 1
  BY IntactLines
<1>2. i \in 1..n
  OBVIOUS
<1> HIDE DEF n
<1>3. /\ i \in Nat /\ p \in Nat /\ q \in Nat /\ r \in Nat /\ 1 < i /\ i < n
      /\ p = i - 1 /\ q = i + 1 /\ r = n - i /\ r >= 1
  BY <1>1, <1>2
<1> HIDE DEF p, q, r
<1>4. front \in Seq(Lines) /\ Len(front) = p /\ \A j \in 1..p : front[j] = lines[j]
  <2>1. \A j \in 1..p : lines[j] \in Lines
    BY <1>1, <1>3
  <2>2. p <= Len(lines)
    BY <1>1, <1>3
  <2> QED
    BY <1>3, <2>1, <2>2, SubSeqProperties
<1>5. back \in Seq(Lines) /\ Len(back) = r /\ \A j \in 1..r : back[j] = lines[i + j]
  <2>1. \A j \in q..n : lines[j] \in Lines
    BY <1>1, <1>3
  <2>2. q \in 1..(Len(lines) + 1) /\ n \in (q - 1)..Len(lines) /\ q <= n /\ n - q + 1 = r
    BY <1>1, <1>3
  <2>3. /\ back \in Seq(Lines) /\ Len(back) = n - q + 1
        /\ \A j \in 1..(n - q + 1) : back[j] = lines[q + j - 1]
    BY <2>1, <2>2, SubSeqProperties
  <2>4. \A j \in 1..r : q + j - 1 = i + j
    BY <1>3
  <2> QED
    BY <2>2, <2>3, <2>4
<1>6. left = front \o back
  BY DEF RemoveAt, n, p, q
<1> HIDE DEF front, back, left
<1>7. /\ left \in Seq(Lines) /\ Len(left) = p + r
      /\ \A j \in 1..p : left[j] = front[j]
      /\ \A j \in 1..r : left[p + j] = back[j]
  <2>1. /\ front \o back \in Seq(Lines) /\ Len(front \o back) = p + r
        /\ \A j \in 1..p : (front \o back)[j] = front[j]
        /\ \A j \in 1..r : (front \o back)[p + j] = back[j]
    <3>1. /\ front \o back \in Seq(Lines) /\ Len(front \o back) = Len(front) + Len(back)
          /\ \A j \in 1..Len(front) : (front \o back)[j] = front[j]
          /\ \A j \in 1..Len(back) : (front \o back)[Len(front) + j] = back[j]
      <4>1. front \in Seq(Lines) /\ back \in Seq(Lines)
        BY <1>4, <1>5
      <4> QED
        BY <4>1, ConcatAt
    <3> QED
      BY <1>4, <1>5, <3>1
  <2> QED
    BY <1>6, <2>1
<1>8. \A j \in 1..Len(left) : left[j].signed /\ left[j].chain = Chain
  <2>1. ASSUME NEW j \in 1..p PROVE left[j].signed /\ left[j].chain = Chain
    <3>1. j \in 1..n
      BY <1>3, <1>1
    <3> QED
      BY <1>1, <1>4, <1>7, <3>1
  <2>2. ASSUME NEW j \in 1..r PROVE left[p + j].signed /\ left[p + j].chain = Chain
    <3>1. i + j \in 1..n
      BY <1>3, <1>1
    <3> QED
      BY <1>1, <1>5, <1>7, <3>1
  <2>3. \A j \in 1..(p + r) : j \in 1..p \/ \E k \in 1..r : j = p + k
    <3> SUFFICES ASSUME NEW j \in 1..(p + r), j \notin 1..p PROVE \E k \in 1..r : j = p + k
      OBVIOUS
    <3>1. j - p \in 1..r /\ j = p + (j - p)
      BY <1>3
    <3> QED
      BY <3>1
  <2> QED
    BY <1>7, <2>1, <2>2, <2>3
<1>9. i \in 1..Len(left) /\ Len(left[i].prev) # i - 1
  <2>1. 1 \in 1..r /\ p + 1 = i /\ i + 1 \in 1..n
    BY <1>1, <1>3
  <2>2. left[i] = lines[i + 1]
    BY <1>5, <1>7, <2>1
  <2>3. Len(lines[i + 1].prev) = (i + 1) - 1
    BY <1>1, <2>1
  <2>4. i \in 1..(p + r)
    BY <1>1, <1>3
  <2> QED
    BY <1>3, <1>7, <2>2, <2>3, <2>4
<1>10. Reason(left, a) = "chain_link_broken"
  BY <1>7, <1>8, <1>9, OutOfPlace
<1> QED
  BY <1>10 DEF left

LEMMA SwapBreaksTheLink ==
    ASSUME NEW lines \in Seq(Lines), Intact(lines), NEW a, a.signed,
           NEW i \in 1..Len(lines), NEW j \in 1..Len(lines), i < j
    PROVE  Reason([lines EXCEPT ![i] = lines[j], ![j] = lines[i]], a) = "chain_link_broken"
<1> DEFINE n == Len(lines)
           half == [lines EXCEPT ![i] = lines[j]]
           left == [half EXCEPT ![j] = lines[i]]
<1>1. /\ n \in Nat /\ n = Len(lines) /\ DOMAIN lines = 1..n
      /\ \A k \in 1..n : /\ lines[k] \in Lines /\ lines[k].signed /\ lines[k].chain = Chain
                         /\ Len(lines[k].prev) = k - 1
  BY IntactLines
<1>2. half \in Seq(Lines) /\ Len(half) = n
  BY <1>1, ExceptSeq
<1>3. left \in Seq(Lines) /\ Len(left) = n
  BY <1>1, <1>2, ExceptSeq
<1> HIDE DEF n
<1>4. left[i] = lines[j] /\ \A k \in 1..n : \E m \in 1..n : left[k] = lines[m]
  BY <1>1
<1> HIDE DEF half, left
<1>5. \A k \in 1..n : left[k].signed /\ left[k].chain = Chain
  <2>1. \A k \in 1..n : lines[k].signed /\ lines[k].chain = Chain
    BY <1>1
  <2> SUFFICES ASSUME NEW k \in 1..n PROVE left[k].signed /\ left[k].chain = Chain
    OBVIOUS
  <2>2. PICK m \in 1..n : left[k] = lines[m]
    BY <1>4
  <2> QED
    BY <2>1, <2>2
<1>6. Len(left[i].prev) # i - 1
  <2>1. Len(lines[j].prev) = j - 1 /\ j - 1 # i - 1
    BY <1>1
  <2> QED
    BY <1>4, <2>1
<1>7. Reason(left, a) = "chain_link_broken"
  BY <1>1, <1>3, <1>5, <1>6, OutOfPlace
<1> QED
  BY <1>7 DEF left, half

LEMMA OlderLineBreaksTheLink ==
    ASSUME NEW lines \in Seq(Lines), Intact(lines), NEW a, a.signed,
           NEW i \in 1..Len(lines), i < Len(lines)
    PROVE  Reason([lines EXCEPT ![Len(lines)] = lines[i]], a) = "chain_link_broken"
<1> DEFINE n == Len(lines)
           left == [lines EXCEPT ![n] = lines[i]]
<1>1. /\ n \in Nat /\ n = Len(lines) /\ DOMAIN lines = 1..n
      /\ \A k \in 1..n : /\ lines[k] \in Lines /\ lines[k].signed /\ lines[k].chain = Chain
                         /\ Len(lines[k].prev) = k - 1
  BY IntactLines
<1>2. i \in 1..n /\ i < n /\ n \in 1..n
  BY <1>1
<1>3. left \in Seq(Lines) /\ Len(left) = n
  BY <1>1, <1>2, ExceptSeq
<1> HIDE DEF n
<1>4. left[n] = lines[i] /\ \A k \in 1..n : \E m \in 1..n : left[k] = lines[m]
  BY <1>1, <1>2
<1> HIDE DEF left
<1>5. \A k \in 1..n : left[k].signed /\ left[k].chain = Chain
  BY <1>1, <1>4
<1>6. Len(left[n].prev) # n - 1
  <2>1. Len(lines[i].prev) = i - 1 /\ i - 1 # n - 1
    BY <1>1, <1>2
  <2> QED
    BY <1>4, <2>1
<1>7. Reason(left, a) = "chain_link_broken"
  BY <1>2, <1>3, <1>5, <1>6, OutOfPlace
<1> QED
  BY <1>7 DEF left, n

LEMMA OtherLineIsFromOtherChain ==
    ASSUME NEW lines \in Seq(Lines), Intact(lines), NEW a, a.signed, NEW i \in 1..Len(lines)
    PROVE  Reason([lines EXCEPT ![i] = OtherLine], a) = "record_from_other_chain"
<1> DEFINE left == [lines EXCEPT ![i] = OtherLine]
<1>1. /\ DOMAIN lines = 1..Len(lines)
      /\ \A k \in 1..Len(lines) : lines[k].signed /\ lines[k].chain = Chain
  BY IntactLines
<1>2. /\ DOMAIN left = 1..Len(lines) /\ left[i] = OtherLine
      /\ \A k \in 1..Len(lines) : k # i => left[k] = lines[k]
  BY <1>1
<1> HIDE DEF left
<1>3. OtherLine.signed /\ OtherLine.chain # Chain
  BY ChainAssumption DEF OtherLine
<1>4. ~SignatureInvalid(left) /\ FromOtherChain(left)
  BY <1>1, <1>2, <1>3 DEF SignatureInvalid, FromOtherChain
<1>5. Reason(left, a) = "record_from_other_chain"
  BY <1>4, ReasonOf
<1> QED
  BY <1>5 DEF left

LEMMA UnsignedLineShows ==
    ASSUME NEW lines, NEW a, NEW i \in DOMAIN lines, ~lines[i].signed
    PROVE  Reason(lines, a) = "signature_invalid"
<1>1. SignatureInvalid(lines)
  BY DEF SignatureInvalid
<1> QED
  BY <1>1, ReasonOf

LEMMA ForgedLineShows ==
    ASSUME NEW lines \in Seq(Lines), NEW a
    PROVE  Reason(Append(lines, [NextLine(lines, Altered) EXCEPT !.signed = FALSE]), a)
             = "signature_invalid"
<1> DEFINE forged == [NextLine(lines, Altered) EXCEPT !.signed = FALSE]
           n == Len(lines)
           left == Append(lines, forged)
<1>1. n \in Nat /\ DigestBefore(lines, n + 1) \in Digests
  BY DigestBeforeType, LenProperties
<1>2. forged \in Lines /\ ~forged.signed
  BY <1>1 DEF NextLine, Lines
<1> HIDE DEF forged
<1>3. DOMAIN left = 1..(n + 1) /\ left[n + 1] = forged
  BY <1>1, <1>2, AppendProperties, LenProperties
<1> HIDE DEF n, left
<1>4. n + 1 \in DOMAIN left
  BY <1>1, <1>3
<1>5. Reason(left, a) = "signature_invalid"
  BY <1>2, <1>3, <1>4, UnsignedLineShows
<1> QED
  BY <1>5 DEF left, forged

(* A tail cut off: the anchored line is gone, or it is the last one left.     *)
LEMMA CutTailShows ==
    ASSUME NEW lines \in Seq(Lines), Intact(lines), NEW a \in Anchors, a.signed,
           HeadHeld(lines, a), NEW n \in Nat, 1 <= n, n <= Len(lines)
    PROVE  /\ a.index >= n => Reason(SubSeq(lines, 1, n), a) = "anchored_head_missing"
           /\ a.index = n - 1 => Reason(SubSeq(lines, 1, n), a) = "chain_anchored"
<1> DEFINE left == SubSeq(lines, 1, n)
<1>1. /\ left \in Seq(Lines) /\ Len(left) = n /\ Intact(left)
      /\ \A i \in 1..n : left[i] = lines[i]
  BY CutIsIntact
<1> HIDE DEF left
<1>2. ASSUME a.index >= n PROVE Reason(left, a) = "anchored_head_missing"
  <2>1. HeadMissing(left, a)
    BY <1>1, <1>2 DEF HeadMissing
  <2> QED
    BY <1>1, <2>1, ReasonOf
<1>3. ASSUME a.index = n - 1 PROVE Reason(left, a) = "chain_anchored"
  <2>1. a.index + 1 = n /\ n \in 1..n
    BY <1>3
  <2>2. HeadHeld(left, a)
    BY <1>1, <2>1 DEF HeadHeld
  <2>3. a.index = Len(left) - 1
    BY <1>1, <1>3
  <2> QED
    BY <1>1, <2>2, <2>3, IntactIsVerified
<1> QED
  BY <1>2, <1>3 DEF left

(* The reason of every edit made to an intact store.                         *)
LEMMA FirstEditGetsItsReason ==
    ASSUME KInv, Edit, edits = 0
    PROVE  ReasonsMatchTheCorpus'
<1> SUFFICES ASSUME edit' # "other" PROVE Reason(store', anchor') \in Corpus(edit')
  BY DEF ReasonsMatchTheCorpus
<1>1. /\ store \in Seq(Lines) /\ backup \in Seq(Lines) /\ anchor \in Anchors
      /\ Intact(store) /\ Intact(backup) /\ anchor.signed /\ HeadHeld(store, anchor)
  BY DEF KInv, IInv, TypeOK, Unedited
<1>2. Len(store) \in Nat /\ DOMAIN store = 1..Len(store)
  BY <1>1, LenProperties
<1>3. \A name, lines : Becomes(name, lines) => store' = lines /\ edit' = name
  BY DEF Becomes
<1>4. CASE AlterLine
  <2>1. PICK i \in 1..Len(store) :
          \/ Becomes("t1-content-tamper",
                     [store EXCEPT ![i] = [@ EXCEPT !.text = Altered, !.signed = FALSE]])
          \/ Becomes("t8-metadata-tamper",
                     [store EXCEPT ![i] = [@ EXCEPT !.chain = OtherChain, !.signed = FALSE]])
    BY <1>2, <1>4 DEF AlterLine
  <2>2. edit' \in {"t1-content-tamper", "t8-metadata-tamper"}
    BY <1>3, <2>1
  <2>3. store[i] \in Lines
    BY <1>1, ElementOfSeq
  <2>4. i \in DOMAIN store' /\ ~store'[i].signed
    <3>1. PICK line : store' = [store EXCEPT ![i] = line] /\ ~line.signed
      <4>1. /\ ~[store[i] EXCEPT !.text = Altered, !.signed = FALSE].signed
            /\ ~[store[i] EXCEPT !.chain = OtherChain, !.signed = FALSE].signed
        BY <2>3 DEF Lines
      <4> QED
        BY <1>3, <2>1, <4>1
    <3> QED
      BY <1>2, <3>1
  <2>5. Reason(store', anchor') = "signature_invalid"
    BY <2>4, UnsignedLineShows
  <2> QED
    BY <2>2, <2>5 DEF Corpus
<1>5. CASE RemoveLine
  <2>1. PICK i \in 1..Len(store) :
          Becomes(IF i \notin {1, Len(store)} THEN "t3-middle-deletion" ELSE "other",
                  RemoveAt(store, i))
    BY <1>2, <1>5 DEF RemoveLine
  <2>2. /\ store' = RemoveAt(store, i)
        /\ edit' = IF i \notin {1, Len(store)} THEN "t3-middle-deletion" ELSE "other"
    BY <1>3, <2>1
  <2>3. i # 1 /\ i # Len(store) /\ edit' = "t3-middle-deletion"
    BY <2>2
  <2>4. anchor' = anchor
    BY <1>5 DEF RemoveLine
  <2>5. Reason(store', anchor') = "chain_link_broken"
    BY <1>1, <2>2, <2>3, <2>4, RemovalBreaksTheLink
  <2> QED
    BY <2>3, <2>5 DEF Corpus
<1>6. CASE RemoveTail
  <2> DEFINE n == Len(store) - 2
  <2>1. /\ Len(store) >= 3 /\ store' = SubSeq(store, 1, n) /\ anchor' = anchor
        /\ edit' = CASE anchor.index = Len(store) - 1 -> "t2-tail-removal"
                     [] anchor.index = Len(store) - 3 -> "t2-tail-removal-after-last-anchor"
                     [] OTHER -> "other"
    BY <1>3, <1>6 DEF RemoveTail
  <2>2. /\ n \in Nat /\ 1 <= n /\ n <= Len(store)
        /\ Len(store) - 1 >= n /\ Len(store) - 3 = n - 1 /\ Len(store) - 1 # Len(store) - 3
    BY <1>2, <2>1, TailOfTwo
  <2> HIDE DEF n
  <2>3. /\ anchor.index >= n => Reason(store', anchor') = "anchored_head_missing"
        /\ anchor.index = n - 1 => Reason(store', anchor') = "chain_anchored"
    BY <1>1, <2>1, <2>2, CutTailShows
  <2>4. CASE anchor.index = Len(store) - 1
    <3>1. edit' = "t2-tail-removal"
      BY <2>1, <2>2, <2>4
    <3>2. Reason(store', anchor') = "anchored_head_missing"
      BY <2>2, <2>3, <2>4
    <3> QED
      BY <3>1, <3>2 DEF Corpus
  <2>5. CASE anchor.index = Len(store) - 3
    <3>1. edit' = "t2-tail-removal-after-last-anchor"
      BY <2>1, <2>2, <2>5
    <3>2. Reason(store', anchor') = "chain_anchored"
      BY <2>2, <2>3, <2>5
    <3> QED
      BY <3>1, <3>2 DEF Corpus
  <2> QED
    BY <2>1, <2>4, <2>5
<1>7. CASE SwapLines
  <2>1. PICK i \in 1..Len(store), j \in 1..Len(store) :
          i < j /\ Becomes("t4-reorder", [store EXCEPT ![i] = store[j], ![j] = store[i]])
    BY <1>2, <1>7 DEF SwapLines
  <2>2. store' = [store EXCEPT ![i] = store[j], ![j] = store[i]] /\ edit' = "t4-reorder"
    BY <1>3, <2>1
  <2>3. anchor' = anchor
    BY <1>7 DEF SwapLines
  <2>4. Reason(store', anchor') = "chain_link_broken"
    BY <1>1, <2>1, <2>2, <2>3, SwapBreaksTheLink
  <2> QED
    BY <2>2, <2>4 DEF Corpus
<1>8. CASE ForgeLine
  <2>1. /\ store' = Append(store, [NextLine(store, Altered) EXCEPT !.signed = FALSE])
        /\ edit' = "t5-forged-insertion"
    BY <1>3, <1>8 DEF ForgeLine
  <2>2. Reason(store', anchor') = "signature_invalid"
    BY <1>1, <2>1, ForgedLineShows
  <2> QED
    BY <2>1, <2>2 DEF Corpus
<1>9. CASE ReplayLine
  <2>0. anchor' = anchor
    BY <1>9 DEF ReplayLine
  <2>1. PICK i \in 1..Len(store) :
          \/ Becomes("t6-cross-context-replay", [store EXCEPT ![i] = OtherLine])
          \/ /\ i < Len(store)
             /\ Becomes("t7-rollback-older-record", [store EXCEPT ![Len(store)] = store[i]])
    BY <1>2, <1>9 DEF ReplayLine
  <2>2. CASE Becomes("t6-cross-context-replay", [store EXCEPT ![i] = OtherLine])
    <3>1. store' = [store EXCEPT ![i] = OtherLine] /\ edit' = "t6-cross-context-replay"
      BY <1>3, <2>2
    <3>2. Reason(store', anchor') = "record_from_other_chain"
      BY <1>1, <2>0, <3>1, OtherLineIsFromOtherChain
    <3> QED
      BY <3>1, <3>2 DEF Corpus
  <2>3. CASE /\ i < Len(store)
             /\ Becomes("t7-rollback-older-record", [store EXCEPT ![Len(store)] = store[i]])
    <3>1. /\ store' = [store EXCEPT ![Len(store)] = store[i]]
          /\ edit' = "t7-rollback-older-record"
      BY <1>3, <2>3
    <3>2. Reason(store', anchor') = "chain_link_broken"
      BY <1>1, <2>0, <2>3, <3>1, OlderLineBreaksTheLink
    <3> QED
      BY <3>1, <3>2 DEF Corpus
  <2> QED
    BY <2>1, <2>2, <2>3
<1>10. CASE RestoreBackup
  <2>1. /\ store' = backup /\ anchor' = anchor
        /\ edit' = CASE HeadMissing(backup, anchor) -> "t9-snapshot-rollback"
                     [] ~HeadMissing(backup, anchor) /\ HeadMismatch(backup, anchor) ->
                          "rollback-to-abandoned-branch"
                     [] OTHER -> "other"
    BY <1>3, <1>10 DEF RestoreBackup
  <2>2. CASE HeadMissing(backup, anchor)
    <3>1. Reason(store', anchor') = "anchored_head_missing"
      BY <1>1, <2>1, <2>2, ReasonOf
    <3>2. edit' = "t9-snapshot-rollback"
      BY <2>1, <2>2
    <3> QED
      BY <3>1, <3>2 DEF Corpus
  <2>3. CASE ~HeadMissing(backup, anchor) /\ HeadMismatch(backup, anchor)
    <3>1. Reason(store', anchor') = "anchored_head_mismatch"
      BY <1>1, <2>1, <2>3, ReasonOf
    <3>2. edit' = "rollback-to-abandoned-branch"
      BY <2>1, <2>3
    <3> QED
      BY <3>1, <3>2 DEF Corpus
  <2> QED
    BY <2>1, <2>2, <2>3
<1>11. CASE ReplaceAnchor
  <2> DEFINE n == Len(store) - 2
  <2>1. /\ Len(store) >= 3
        /\ Becomes("tail-removal-reanchored", SubSeq(store, 1, n))
        /\ anchor' = [AnchorOf(store') EXCEPT !.signed = FALSE]
    BY <1>3, <1>11 DEF ReplaceAnchor
  <2>2. store' = SubSeq(store, 1, n) /\ edit' = "tail-removal-reanchored"
    BY <1>3, <2>1
  <2>3. n \in Nat /\ n <= Len(store)
    BY <1>2, <2>1
  <2> HIDE DEF n
  <2>4. ~SignatureInvalid(store')
    BY <1>1, <2>2, <2>3, CutIsIntact DEF Intact
  <2>5. ~anchor'.signed
    BY <2>1 DEF AnchorOf
  <2>6. Reason(store', anchor') = "anchor_signature_invalid"
    BY <2>4, <2>5, ReasonOf
  <2> QED
    BY <2>2, <2>6 DEF Corpus
<1> QED
  BY <1>4, <1>5, <1>6, <1>7, <1>8, <1>9, <1>10, <1>11 DEF Edit

LEMMA InitKInv == Init => KInv
<1> SUFFICES ASSUME Init PROVE KInv
  OBVIOUS
<1>1. PICK t \in Texts :
        /\ store = <<NextLine(<<>>, t)>>
        /\ anchor = AnchorOf(store)
        /\ backup = <<>> /\ edit = "honest" /\ edits = 0
  BY DEF Init
<1>2. IInv /\ store \in Seq(Lines) /\ anchor \in Anchors
  BY InitIInv DEF IInv, TypeOK
<1>3. Intact(<<>>) /\ <<>> \in Seq(Lines) /\ Len(<<>>) = 0
  BY EmptySeq DEF Intact, SignatureInvalid, FromOtherChain, LinkBroken
<1>4. NextLine(<<>>, t) \in Lines
  BY <1>3, NextLineType
<1>5. Append(<<>>, NextLine(<<>>, t)) = store
  BY <1>1
<1>6. Intact(store) /\ Len(store) = 1
  <2>1. Intact(Append(<<>>, NextLine(<<>>, t)))
        /\ Len(Append(<<>>, NextLine(<<>>, t))) = Len(<<>>) + 1
    BY <1>3, NextLineIsIntact
  <2>2. Intact(store) /\ Len(store) = Len(<<>>) + 1
    BY <1>5, <2>1
  <2> QED
    BY <1>3, <2>2
<1>7. anchor.signed /\ HeadHeld(store, anchor)
  BY <1>1, <1>6 DEF HeadHeld, AnchorOf, Last
<1>8. Reason(store, anchor) \in {"chain_anchored", "records_after_last_anchor"}
  BY <1>2, <1>6, <1>7, IntactIsVerified
<1> QED
  BY <1>1, <1>2, <1>3, <1>6, <1>7, <1>8 DEF KInv, Unedited, ReasonsMatchTheCorpus, Corpus

(* A step of the producer or of the anchor's holder on an unedited store.     *)
LEMMA HonestStep ==
    ASSUME KInv, edits = 0, edits' = 0, edit' = "honest", IInv',
           Intact(store'), Intact(backup'), anchor'.signed, HeadHeld(store', anchor')
    PROVE  KInv'
<1>1. store' \in Seq(Lines) /\ anchor' \in Anchors
  BY DEF IInv, TypeOK
<1>2. Reason(store', anchor') \in {"chain_anchored", "records_after_last_anchor"}
  BY <1>1, IntactIsVerified
<1> QED
  BY <1>2 DEF KInv, Unedited, ReasonsMatchTheCorpus, Corpus

LEMMA NextKInv == KInv /\ [Next]_vars => KInv'
<1> SUFFICES ASSUME KInv, [Next]_vars PROVE KInv'
  OBVIOUS
<1>1. IInv'
  BY NextIInv DEF KInv
<1>2. /\ store \in Seq(Lines) /\ backup \in Seq(Lines) /\ anchor \in Anchors /\ edits \in Nat
      /\ Len(store) \in Nat
  BY LenProperties DEF KInv, IInv, TypeOK
<1>3. CASE edits = 0 /\ Produce
  <2>1. /\ Intact(store) /\ Intact(backup) /\ anchor.signed /\ HeadHeld(store, anchor)
        /\ edit = "honest"
    BY <1>3 DEF KInv, Unedited
  <2>2. PICK t \in Texts : store' = Append(store, NextLine(store, t))
    BY <1>3 DEF Produce
  <2>3. /\ Intact(store') /\ Len(store') = Len(store) + 1
        /\ \A i \in 1..Len(store) : store'[i] = store[i]
    BY <1>2, <2>1, <2>2, NextLineIsIntact
  <2>4. UNCHANGED <<anchor, backup, edits>> /\ edit' = "honest"
    BY <1>3, <2>1 DEF Produce
  <2>5. HeadHeld(store', anchor')
    BY <1>2, <2>1, <2>3, <2>4 DEF HeadHeld
  <2> QED
    BY <1>1, <1>3, <2>1, <2>3, <2>4, <2>5, HonestStep
<1>4. CASE Abandon
  <2>1. /\ Intact(store) /\ anchor.signed /\ HeadHeld(store, anchor) /\ edits = 0 /\ edit = "honest"
    BY <1>4 DEF KInv, Unedited, Abandon
  <2>2. PICK n \in (anchor.index + 1)..(Len(store) - 1) : store' = SubSeq(store, 1, n)
    BY <1>4 DEF Abandon
  <2>3. n \in Nat /\ n <= Len(store) /\ anchor.index < n /\ anchor.index \in Nat
    BY <1>2, <2>2 DEF Anchors
  <2>4. Intact(store') /\ Len(store') = n /\ \A i \in 1..n : store'[i] = store[i]
    BY <1>2, <2>1, <2>2, <2>3, CutIsIntact
  <2>5. UNCHANGED <<anchor, edit, edits>> /\ backup' = store
    BY <1>4 DEF Abandon
  <2>6. HeadHeld(store', anchor')
    BY <2>1, <2>3, <2>4, <2>5 DEF HeadHeld
  <2> QED
    BY <1>1, <2>1, <2>4, <2>5, <2>6, HonestStep
<1>5. CASE Copy
  BY <1>1, <1>5, HonestStep DEF KInv, Unedited, Copy
<1>6. CASE edits = 0 /\ TakeAnchor
  <2>1. /\ Intact(store) /\ Intact(backup) /\ edit = "honest"
    BY <1>6 DEF KInv, Unedited
  <2>2. store # <<>> /\ anchor' = AnchorOf(store) /\ UNCHANGED <<store, backup, edits>> /\ edit' = "honest"
    BY <1>6, <2>1 DEF TakeAnchor
  <2>3. Len(store) > 0
    BY <1>2, <2>2, EmptySeq
  <2>4. anchor'.signed /\ HeadHeld(store', anchor')
    BY <1>2, <2>2, <2>3 DEF AnchorOf, HeadHeld, Last
  <2> QED
    BY <1>1, <1>6, <2>1, <2>2, <2>4, HonestStep
<1>7. CASE edits # 0 /\ (Produce \/ TakeAnchor)
  BY <1>1, <1>2, <1>7 DEF KInv, Unedited, ReasonsMatchTheCorpus, Produce, TakeAnchor
<1>8. CASE Edit
  <2>1. edits' = edits + 1 /\ (edits # 0 => edit' = "other")
    BY <1>8 DEF Edit, AlterLine, RemoveLine, RemoveTail, SwapLines, ForgeLine, ReplayLine,
                RestoreBackup, ReplaceAnchor, Becomes
  <2>2. ReasonsMatchTheCorpus'
    BY <1>8, <2>1, FirstEditGetsItsReason DEF ReasonsMatchTheCorpus
  <2> QED
    BY <1>1, <1>2, <2>1, <2>2 DEF KInv, Unedited
<1>9. CASE UNCHANGED vars
  <2>1. UNCHANGED <<store, anchor, backup, edit, edits>>
    BY <1>9 DEF vars
  <2> QED
    BY <1>1, <2>1 DEF KInv, Unedited, ReasonsMatchTheCorpus
<1> QED
  BY <1>3, <1>4, <1>5, <1>6, <1>7, <1>8, <1>9 DEF Next

(***************************************************************************)
(* Every edit of the corpus, of any store the producer left and of any        *)
(* length, gets the decision and the reason the corpus expects               *)
(* (anchored_chain.py:34-35, :84-86).                                        *)
(***************************************************************************)
THEOREM EditsGetTheirReason == Spec => []ReasonsMatchTheCorpus
<1>1. KInv => ReasonsMatchTheCorpus
  BY DEF KInv
<1> QED
  BY <1>1, InitKInv, NextKInv, PTL DEF Spec
=============================================================================
