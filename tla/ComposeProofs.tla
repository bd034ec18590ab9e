----------------------------- MODULE ComposeProofs -----------------------------
(***************************************************************************)
(* Proofs about the composition engine.  What it searches is well formed     *)
(* (TypeCorrect); what it says has landed has (LandingsAreReal), and on the  *)
(* reference store and its forgetful variant what it reports goes through    *)
(* the one hole they can have (FindingsAreHoles), for every seed and every   *)
(* length of sequence.                                                       *)
(*                                                                         *)
(* In order: the search; chains of tags, which keep their rows in the order  *)
(* of one log; the rows of an adapter in its own order; what each edit's     *)
(* calls do to the reference store; what a verified store must then hold;    *)
(* the fresh targets; and the invariants of a running sequence.              *)
(***************************************************************************)
EXTENDS Compose, SequenceTheorems, FiniteSetTheorems, WellFoundedInduction, TLAPS

-----------------------------------------------------------------------------
(* The search: which moves there are, and what is run of them.               *)

LEMMA MovesAre ==
    Moves = {"write", "restart", "rollback", "tamper", "truncate", "delete_middle", "reorder",
             "forge", "cross_replay", "rollback_replay", "metadata_tamper"}
BY DEF Moves, Edits, Attacks

LEMMA EditsAre ==
    Edits = {"tamper", "truncate", "delete_middle", "reorder",
             "forge", "cross_replay", "rollback_replay", "metadata_tamper"}
BY DEF Edits, Attacks

LEMMA OneMore ==
    ASSUME NEW S, NEW n \in Nat, IsFiniteSet(S), Cardinality(S) = n, NEW x, x \notin S
    PROVE  IsFiniteSet(S \cup {x}) /\ Cardinality(S \cup {x}) = n + 1
BY FS_AddElement

LEMMA ElevenMoves == Cardinality(Moves) = 11
<1>1. IsFiniteSet({}) /\ Cardinality({}) = 0
  BY FS_EmptySet
<1> DEFINE S1 == {"write"}
           S2 == S1 \cup {"restart"}
           S3 == S2 \cup {"rollback"}
           S4 == S3 \cup {"tamper"}
           S5 == S4 \cup {"truncate"}
           S6 == S5 \cup {"delete_middle"}
           S7 == S6 \cup {"reorder"}
           S8 == S7 \cup {"forge"}
           S9 == S8 \cup {"cross_replay"}
           S10 == S9 \cup {"rollback_replay"}
           S11 == S10 \cup {"metadata_tamper"}
<1>a. Moves = S11
  BY MovesAre
<1>b. /\ "restart" \notin S1 /\ "rollback" \notin S2 /\ "tamper" \notin S3 /\ "truncate" \notin S4
      /\ "delete_middle" \notin S5 /\ "reorder" \notin S6 /\ "forge" \notin S7
      /\ "cross_replay" \notin S8 /\ "rollback_replay" \notin S9 /\ "metadata_tamper" \notin S10
  OBVIOUS
<1>2. IsFiniteSet(S1) /\ Cardinality(S1) = 1
  BY FS_Singleton
<1> HIDE DEF S1, S2, S3, S4, S5, S6, S7, S8, S9, S10, S11
<1>3. IsFiniteSet(S2) /\ Cardinality(S2) = 2
  BY <1>2, <1>b, OneMore DEF S2
<1>4. IsFiniteSet(S3) /\ Cardinality(S3) = 3
  BY <1>3, <1>b, OneMore DEF S3
<1>5. IsFiniteSet(S4) /\ Cardinality(S4) = 4
  BY <1>4, <1>b, OneMore DEF S4
<1>6. IsFiniteSet(S5) /\ Cardinality(S5) = 5
  BY <1>5, <1>b, OneMore DEF S5
<1>7. IsFiniteSet(S6) /\ Cardinality(S6) = 6
  BY <1>6, <1>b, OneMore DEF S6
<1>8. IsFiniteSet(S7) /\ Cardinality(S7) = 7
  BY <1>7, <1>b, OneMore DEF S7
<1>9. IsFiniteSet(S8) /\ Cardinality(S8) = 8
  BY <1>8, <1>b, OneMore DEF S8
<1>10. IsFiniteSet(S9) /\ Cardinality(S9) = 9
  BY <1>9, <1>b, OneMore DEF S9
<1>11. IsFiniteSet(S10) /\ Cardinality(S10) = 10
  BY <1>10, <1>b, OneMore DEF S10
<1>12. IsFiniteSet(S11) /\ Cardinality(S11) = 11
  BY <1>11, <1>b, OneMore DEF S11
<1> QED
  BY <1>a, <1>12

LEMMA MoveOrderIs == \A k \in 1..11 : MoveOrder[k] \in Moves
<1>1. MoveOrder \in Seq(Moves) /\ Len(MoveOrder) = 11
  BY MovesAre DEF MoveOrder
<1> QED
  BY <1>1, ElementOfSeq

(* The moves still to make are the end of the sequence.                      *)
Ahead ==
    /\ moves \in Seq(Moves) /\ Len(moves) <= MaxLen
    /\ left \in Seq(Moves) /\ Len(left) <= Len(moves)
    /\ \A k \in 1..Len(left) : left[k] = moves[Len(moves) - Len(left) + k]

(* A sequence of more than one move was searched because none of its moves   *)
(* lands alone.                                                              *)
SearchInv ==
    /\ kind \in Targets
    /\ single \in 0..11
    /\ landsAlone \subseteq Moves
    /\ \A f \in findings : f \in Seq(Moves) /\ Len(f) \in 2..MaxLen
    /\ Ahead
    /\ verdict \in BOOLEAN \cup {NONE}
    /\ controls \in BOOLEAN
    /\ moves = <<>> => verdict = NONE
    /\ Len(moves) > 1 => single = 11 /\ Range(moves) \cap landsAlone = {}

LEMMA InitSearch == Init => SearchInv
<1> SUFFICES ASSUME Init PROVE SearchInv
  OBVIOUS
<1>1. <<>> \in Seq(Moves) /\ Len(<<>>) = 0
  OBVIOUS
<1>2. Ahead
  BY <1>1, ComposeAssumption DEF Init, Ahead
<1> QED
  BY <1>1, <1>2 DEF Init, SearchInv

LEMMA BeginAhead ==
    ASSUME NEW combo \in Seq(Moves), Len(combo) <= MaxLen, moves' = combo, left' = combo
    PROVE  Ahead'
<1>1. Len(combo) \in Nat
  BY LenProperties
<1>2. \A k \in 1..Len(combo) : Len(combo) - Len(combo) + k = k
  BY <1>1
<1> QED
  BY <1>1, <1>2 DEF Ahead

LEMMA SequencesOf ==
    ASSUME NEW n \in 2..MaxLen, NEW combo \in [1..n -> Moves]
    PROVE  combo \in Seq(Moves) /\ Len(combo) = n
<1>1. n \in Nat
  BY ComposeAssumption
<1> QED
  BY <1>1

LEMMA MoveAhead ==
    ASSUME Ahead, left # <<>>, left' = Tail(left), moves' = moves
    PROVE  /\ Ahead'
           /\ Len(left') = Len(left) - 1
           /\ Len(left) \in Nat /\ Len(moves) \in Nat
           /\ Head(left) \in Moves
           /\ Head(left) = moves[Len(moves) - Len(left) + 1]
<1>1. /\ left \in Seq(Moves) /\ moves \in Seq(Moves)
      /\ Len(left) \in Nat /\ Len(moves) \in Nat /\ Len(left) <= Len(moves)
  BY LenProperties DEF Ahead
<1>2. Head(left) = left[1] /\ Head(left) \in Moves /\ Tail(left) \in Seq(Moves)
      /\ Len(Tail(left)) = Len(left) - 1 /\ Len(left) # 0
      /\ \A k \in 1..Len(Tail(left)) : Tail(left)[k] = left[k + 1]
  BY <1>1, HeadTailProperties, EmptySeq
<1>3. Head(left) = moves[Len(moves) - Len(left) + 1]
  BY <1>1, <1>2 DEF Ahead
<1>4. ASSUME NEW k \in 1..Len(Tail(left))
      PROVE  Tail(left)[k] = moves[Len(moves) - Len(Tail(left)) + k]
  <2>1. k + 1 \in 1..Len(left)
    BY <1>1, <1>2
  <2>2. left[k + 1] = moves[Len(moves) - Len(left) + (k + 1)]
    BY <2>1 DEF Ahead
  <2>3. Len(moves) - Len(left) + (k + 1) = Len(moves) - Len(Tail(left)) + k
    BY <1>1, <1>2
  <2> QED
    BY <1>2, <2>2, <2>3
<1>5. Ahead'
  BY <1>1, <1>2, <1>4 DEF Ahead
<1> QED
  BY <1>1, <1>2, <1>3, <1>5
LEMMA NextSearch == SearchInv /\ [Next]_vars => SearchInv'
<1> SUFFICES ASSUME SearchInv, [Next]_vars PROVE SearchInv'
  OBVIOUS
<1>0. /\ kind \in Targets /\ single \in 0..11 /\ landsAlone \subseteq Moves
      /\ \A f \in findings : f \in Seq(Moves) /\ Len(f) \in 2..MaxLen
      /\ Ahead /\ verdict \in BOOLEAN \cup {NONE} /\ controls \in BOOLEAN
      /\ moves = <<>> => verdict = NONE
      /\ Len(moves) > 1 => single = 11 /\ Range(moves) \cap landsAlone = {}
  BY DEF SearchInv
<1>m. /\ moves \in Seq(Moves) /\ Len(moves) \in Nat /\ Len(moves) <= MaxLen
      /\ moves = <<>> <=> Len(moves) = 0
  BY <1>0, LenProperties, EmptySeq DEF Ahead
<1>1. CASE RunAlone
  <2> DEFINE m == MoveOrder[single + 1]
  <2>1. m \in Moves
    BY <1>0, <1>1, ElevenMoves, MoveOrderIs DEF RunAlone, SinglesDone
  <2>2. <<m>> \in Seq(Moves) /\ Len(<<m>>) = 1 /\ <<m>> # <<>>
    BY <2>1
  <2> HIDE DEF m
  <2>3. Begin(<<m>>) /\ single' = single + 1 /\ single # 11
    BY <1>1, ElevenMoves DEF RunAlone, SinglesDone, m
  <2>4. Ahead'
    <3>1. moves' = <<m>> /\ left' = <<m>>
      BY <2>3 DEF Begin
    <3>2. Len(<<m>>) <= MaxLen
      BY <2>2, ComposeAssumption
    <3> QED
      BY <2>2, <3>1, <3>2, BeginAhead
  <2> QED
    BY <1>0, <2>2, <2>3, <2>4 DEF Begin, SearchInv
<1>2. CASE RunSequence
  <2>1. PICK n \in 2..MaxLen : \E combo \in [1..n -> Moves] : Searched(combo) /\ Begin(combo)
    BY <1>2 DEF RunSequence
  <2>2. PICK combo \in [1..n -> Moves] : Searched(combo) /\ Begin(combo)
    BY <2>1
  <2>3. combo \in Seq(Moves) /\ Len(combo) = n /\ n > 1 /\ n <= MaxLen
    BY SequencesOf, ComposeAssumption
  <2>4. Ahead'
    BY <2>2, <2>3, BeginAhead DEF Begin
  <2>5. single' = single /\ single = 11 /\ combo # <<>>
    BY <1>2, <2>3, ElevenMoves, EmptySeq DEF RunSequence, SinglesDone
  <2>6. Range(combo) \cap landsAlone = {}
    BY <2>2 DEF Searched
  <2>7. /\ moves' = combo /\ verdict' = NONE /\ controls' = TRUE
        /\ kind' = kind /\ landsAlone' = landsAlone /\ findings' = findings
    BY <2>2 DEF Begin
  <2>8. Range(moves') \cap landsAlone' = {}
    BY <2>6, <2>7
  <2> QED
    BY <1>0, <2>4, <2>5, <2>7, <2>8 DEF SearchInv
<1>3. CASE Move
  <2>1. controls' \in BOOLEAN
    BY <1>3 DEF Move
  <2>2. Ahead'
    BY <1>0, <1>3, MoveAhead DEF Move
  <2>3. /\ kind' = kind /\ single' = single /\ landsAlone' = landsAlone /\ findings' = findings
        /\ moves' = moves /\ verdict' = verdict
    BY <1>3 DEF Move
  <2> QED
    BY <1>0, <2>1, <2>2, <2>3 DEF SearchInv
<1>4. CASE MoveRefused
  BY <1>0, <1>4 DEF MoveRefused, Running, SearchInv, Ahead
<1>5. CASE Judge
  BY <1>0, <1>5 DEF Judge, Running, SearchInv, Ahead
<1>6. CASE ReportAlone
  <2>1. landsAlone' \subseteq Moves
    <3>1. moves[1] \in Moves
      BY <1>6, <1>m, ElementOfSeq DEF ReportAlone
    <3> QED
      BY <1>0, <1>6, <3>1 DEF ReportAlone
  <2>2. <<>> \in Seq(Moves) /\ Len(<<>>) = 0
    OBVIOUS
  <2>3. Ahead'
    BY <1>6, <2>2, ComposeAssumption DEF ReportAlone, Ahead
  <2>4. /\ kind' = kind /\ single' = single /\ findings' = findings /\ controls' = controls
        /\ moves' = <<>> /\ verdict' = NONE
    BY <1>6 DEF ReportAlone
  <2> QED
    BY <1>0, <2>1, <2>2, <2>3, <2>4 DEF SearchInv
<1>7. CASE ReportSequence
  <2>1. moves \in Seq(Moves) /\ Len(moves) \in 2..MaxLen
    BY <1>m, <1>7, ComposeAssumption DEF ReportSequence
  <2>2. /\ kind' = kind /\ single' = single /\ landsAlone' = landsAlone /\ controls' = controls
        /\ moves' = moves /\ left' = left /\ verdict' = verdict /\ findings' = findings \cup {moves}
    BY <1>7 DEF ReportSequence
  <2> QED
    BY <1>0, <2>1, <2>2 DEF SearchInv, Ahead
<1>8. CASE UNCHANGED vars
  BY <1>0, <1>8 DEF vars, SearchInv, Ahead
<1> QED
  BY <1>1, <1>2, <1>3, <1>4, <1>5, <1>6, <1>7, <1>8 DEF Next

LEMMA EndIsSuffix == ASSUME Ahead PROVE IsSuffix(left, moves)
<1> DEFINE a == Reverse(left)
           b == Reverse(moves)
           n == Len(left)
<1>1. /\ left \in Seq(Moves) /\ moves \in Seq(Moves)
      /\ n \in Nat /\ Len(moves) \in Nat /\ n <= Len(moves)
  BY LenProperties DEF Ahead
<1>2. /\ a \in Seq(Moves) /\ Len(a) = n
      /\ \A k \in 1..n : a[k] = left[n - k + 1]
  <2>1. \A k \in 1..n : (n - k) + 1 \in 1..n
    BY <1>1
  <2>2. a = [k \in 1..n |-> left[(n - k) + 1]]
    BY DEF Reverse
  <2>3. a \in [1..n -> Moves]
    BY <1>1, <2>1, <2>2, ElementOfSeq
  <2> QED
    BY <1>1, <2>2, <2>3
<1>3. /\ b \in Seq(Moves) /\ Len(b) = Len(moves)
      /\ \A k \in 1..Len(moves) : b[k] = moves[Len(moves) - k + 1]
  <2>1. \A k \in 1..Len(moves) : (Len(moves) - k) + 1 \in 1..Len(moves)
    BY <1>1
  <2>2. b = [k \in 1..Len(moves) |-> moves[(Len(moves) - k) + 1]]
    BY DEF Reverse
  <2>3. b \in [1..Len(moves) -> Moves]
    BY <1>1, <2>1, <2>2, ElementOfSeq
  <2> QED
    BY <1>1, <2>2, <2>3
<1>4. ASSUME NEW k \in 1..n PROVE a[k] = b[k]
  <2>1. n - k + 1 \in 1..n /\ k \in 1..Len(moves)
    BY <1>1
  <2>2. left[n - k + 1] = moves[Len(moves) - n + (n - k + 1)]
    BY <2>1 DEF Ahead
  <2>3. Len(moves) - n + (n - k + 1) = Len(moves) - k + 1
    BY <1>1
  <2> QED
    BY <1>2, <1>3, <2>1, <2>2, <2>3
<1> HIDE DEF a, b, n
<1>5. /\ SubSeq(a, 1, n) \in Seq(Moves) /\ Len(SubSeq(a, 1, n)) = n
      /\ \A k \in 1..n : SubSeq(a, 1, n)[k] = a[k]
  BY <1>1, <1>2, SubSeqProperties
<1>6. /\ SubSeq(b, 1, n) \in Seq(Moves) /\ Len(SubSeq(b, 1, n)) = n
      /\ \A k \in 1..n : SubSeq(b, 1, n)[k] = b[k]
  BY <1>1, <1>3, SubSeqProperties
<1>7. SubSeq(a, 1, n) = SubSeq(b, 1, n)
  BY <1>4, <1>5, <1>6, SeqEqual
<1>8. IsPrefix(a, b)
  BY <1>1, <1>2, <1>3, <1>7 DEF IsPrefix
<1> QED
  BY <1>8 DEF IsSuffix, a, b

LEMMA SearchImpliesTypeOK == SearchInv => TypeOK
<1> SUFFICES ASSUME SearchInv PROVE TypeOK
  OBVIOUS
<1>1. IsSuffix(left, moves) /\ Len(moves) \in 0..MaxLen
  BY EndIsSuffix, LenProperties, ComposeAssumption DEF SearchInv, Ahead
<1>2. ASSUME NEW f \in findings PROVE Range(f) \subseteq Moves
  BY ElementOfSeq DEF SearchInv, Range
<1> QED
  BY <1>1, <1>2, ElevenMoves DEF SearchInv, TypeOK

LEMMA SearchHolds == Spec => []SearchInv
BY InitSearch, NextSearch, PTL DEF Spec

(***************************************************************************)
(* compose() reports sequences of moves of its own list, of two to max_len   *)
(* moves, and makes the moves of a sequence in the order it gives them.      *)
(***************************************************************************)
THEOREM TypeCorrect == Spec => []TypeOK
BY SearchHolds, SearchImpliesTypeOK, PTL

-----------------------------------------------------------------------------
(***************************************************************************)
(* Chains.  The rows of a chain are at the places S; tag[i] is what the row  *)
(* at i stores of the links hashed up to it, link[i] what it says itself.    *)
(***************************************************************************)

Numbers == 0..MaxSeq
Before(S, i) == {j \in S : j < i}
TagBefore(S, tag, i) == IF Before(S, i) = {} THEN <<>> ELSE tag[Max(Before(S, i))]
IsChain(S, tag, link, L) ==
    /\ S \subseteq Numbers
    /\ \A i \in S : tag[i] \in Seq(L) /\ link[i] \in L /\ link[i].seq = i
    /\ \A i \in S : tag[i] = Append(TagBefore(S, tag, i), link[i])

(* Every non-empty set of naturals has a least element. *)
LEMMA LeastNat ==
    ASSUME NEW S, S \subseteq Nat, S # {}
    PROVE  \E m \in S : \A k \in S : m <= k
<1>1. PICK m \in S : \A k \in S : ~(<<k, m>> \in OpToRel(<, Nat))
  BY NatLessThanWellFounded, WFMin
<1>2. \A k \in S : ~(k < m)
  BY <1>1 DEF OpToRel
<1> QED
  BY <1>2

LEMMA MaxIsChosen ==
    ASSUME NEW S, NEW x \in S, \A y \in S : x >= y
    PROVE  Max(S) \in S /\ \A y \in S : Max(S) >= y
BY DEF Max

(* Max picks the greatest element of a non-empty set of sequence numbers. *)
LEMMA MaxOfNumbers ==
    ASSUME NEW S, S \subseteq Numbers, S # {}
    PROVE  Max(S) \in S /\ \A k \in S : k <= Max(S)
<1> DEFINE T == {MaxSeq - k : k \in S}
<1>0. MaxSeq \in Nat
  BY ComposeAssumption
<1>a. \A k \in S : k \in Nat /\ MaxSeq - k \in Nat
  BY <1>0 DEF Numbers
<1>1. T \subseteq Nat /\ T # {}
  BY <1>a
<1>2. PICK m \in T : \A k \in T : m <= k
  BY <1>1, LeastNat
<1>3. PICK x \in S : m = MaxSeq - x
  BY <1>2
<1>4. ASSUME NEW y \in S PROVE x >= y
  <2>1. MaxSeq - x <= MaxSeq - y
    BY <1>2, <1>3
  <2> QED
    BY <2>1, <1>0 DEF Numbers
<1>5. Max(S) \in S /\ \A y \in S : Max(S) >= y
  BY <1>3, <1>4, MaxIsChosen
<1> QED
  BY <1>5, <1>0 DEF Numbers

LEMMA NumbersFinite ==
    ASSUME NEW S, S \subseteq Numbers
    PROVE  IsFiniteSet(S) /\ Cardinality(S) \in Nat
<1>1. IsFiniteSet(Numbers)
  BY FS_Interval, ComposeAssumption DEF Numbers
<1> QED
  BY <1>1, FS_Subset, FS_CardinalityType

(* A later row has a longer tag. *)
LEMMA TagsGrow ==
    ASSUME NEW S, NEW tag, NEW link, NEW L, IsChain(S, tag, link, L),
           NEW i \in S, NEW j \in S, i < j
    PROVE  Len(tag[i]) < Len(tag[j])
<1> DEFINE bad == {k \in S : i < k /\ ~(Len(tag[i]) < Len(tag[k]))}
<1>0. MaxSeq \in Nat /\ S \subseteq Nat
  BY ComposeAssumption DEF IsChain, Numbers
<1>1. SUFFICES bad = {}
  OBVIOUS
<1>2. SUFFICES ASSUME bad # {} PROVE FALSE
  OBVIOUS
<1>3. PICK k \in bad : \A h \in bad : k <= h
  BY <1>0, <1>2, LeastNat
<1>4. k \in S /\ i < k /\ ~(Len(tag[i]) < Len(tag[k]))
  OBVIOUS
<1> DEFINE p == Max(Before(S, k))
<1>5. i \in Before(S, k)
  BY <1>4 DEF Before
<1>6. p \in Before(S, k) /\ \A h \in Before(S, k) : h <= p
  BY <1>5, MaxOfNumbers DEF Before, IsChain
<1>7. p \in S /\ p < k /\ i <= p
  BY <1>5, <1>6 DEF Before
<1> HIDE DEF p
<1>8. tag[k] = Append(tag[p], link[k])
  BY <1>4, <1>5 DEF IsChain, TagBefore, p
<1>9. tag[p] \in Seq(L) /\ link[k] \in L /\ Len(tag[p]) \in Nat /\ Len(tag[i]) \in Nat
  BY <1>4, <1>7, LenProperties DEF IsChain
<1>10. Len(tag[k]) = Len(tag[p]) + 1
  BY <1>8, <1>9, AppendProperties
<1>11. CASE i = p
  BY <1>4, <1>9, <1>10, <1>11
<1>12. CASE i < p
  <2>1. ~(k <= p)
    BY <1>0, <1>4, <1>7
  <2>2. p \notin bad
    BY <1>3, <2>1
  <2>3. Len(tag[i]) < Len(tag[p])
    BY <1>7, <1>12, <2>2
  <2> QED
    BY <1>4, <1>9, <1>10, <2>3
<1> QED
  BY <1>0, <1>7, <1>11, <1>12

(* So a chain has no more rows than the longest of its tags has links.       *)
LEMMA ChainSize ==
    ASSUME NEW S, NEW tag, NEW link, NEW L, IsChain(S, tag, link, L),
           NEW b \in Nat, \A i \in S : Len(tag[i]) <= b
    PROVE  Cardinality(S) <= b
<1> DEFINE f == [i \in S |-> Len(tag[i])]
<1>0. \A i \in S : tag[i] \in Seq(L) /\ link[i] \in L /\ i \in Nat
  BY ComposeAssumption DEF IsChain, Numbers
<1>1. ASSUME NEW i \in S PROVE Len(tag[i]) \in 1..b
  <2>1. tag[i] = Append(TagBefore(S, tag, i), link[i])
    BY DEF IsChain
  <2>2. TagBefore(S, tag, i) \in Seq(L)
    <3>1. CASE Before(S, i) = {}
      BY <3>1 DEF TagBefore
    <3>2. CASE Before(S, i) # {}
      <4>1. Max(Before(S, i)) \in S
        BY <3>2, MaxOfNumbers DEF Before, IsChain
      <4> QED
        BY <1>0, <3>2, <4>1 DEF TagBefore
    <3> QED
      BY <3>1, <3>2
  <2>3. Len(tag[i]) = Len(TagBefore(S, tag, i)) + 1 /\ Len(TagBefore(S, tag, i)) \in Nat
    BY <1>0, <2>1, <2>2, AppendProperties, LenProperties
  <2> QED
    BY <2>3
<1>2. ASSUME NEW i \in S, NEW j \in S, i # j PROVE Len(tag[i]) # Len(tag[j])
  <2>1. CASE i < j
    BY <2>1, TagsGrow, <1>1
  <2>2. CASE j < i
    BY <2>2, TagsGrow, <1>1
  <2> QED
    BY <1>0, <1>2, <2>1, <2>2
<1>3. f \in [S -> 1..b]
  BY <1>1
<1>4. \A i, j \in S : f[i] = f[j] => i = j
  BY <1>2
<1>5. f \in Injection(S, 1..b)
  BY <1>3, <1>4 DEF Injection, IsInjective
<1>6. IsFiniteSet(1..b) /\ Cardinality(1..b) = b
  BY FS_Interval
<1> HIDE DEF f
<1>7. Cardinality(S) <= Cardinality(1..b)
  BY <1>5, <1>6, FS_Injection
<1> QED
  BY <1>6, <1>7

(* Appending one link at a time: a tag determines its last link and the tag  *)
(* before it.                                                                *)
LEMMA TagsAreInjective ==
    ASSUME NEW L, NEW log \in Seq(L), NEW prev \in Seq(L), NEW link \in L,
           NEW i \in Nat, NEW n \in Nat, n = i + 1, n <= Len(log),
           SubSeq(log, 1, n) = Append(prev, link)
    PROVE  link = log[n] /\ prev = SubSeq(log, 1, i)
<1>1. SubSeq(log, 1, n) \in Seq(L) /\ Len(SubSeq(log, 1, n)) = n
  BY SubSeqProperties, LenProperties
<1>2. \A k \in 1..n : SubSeq(log, 1, n)[k] = log[k]
  BY SubSeqProperties, LenProperties
<1>3. Len(prev) = i
  BY <1>1, AppendProperties, LenProperties
<1>4. link = log[n]
  BY <1>2, <1>3, AppendProperties
<1>5. SubSeq(log, 1, i) \in Seq(L) /\ Len(SubSeq(log, 1, i)) = i
  BY SubSeqProperties, LenProperties
<1>6. \A k \in 1..i : SubSeq(log, 1, i)[k] = log[k]
  BY SubSeqProperties, LenProperties
<1>7. ASSUME NEW k \in 1..i PROVE prev[k] = log[k]
  <2>1. k \in 1..n /\ k \in 1..Len(prev)
    BY <1>3
  <2>2. Append(prev, link)[k] = prev[k]
    BY <2>1, AppendProperties
  <2>3. SubSeq(log, 1, n)[k] = log[k]
    BY <1>2, <2>1
  <2> QED
    BY <2>2, <2>3
<1>8. prev = SubSeq(log, 1, i)
  BY <1>3, <1>5, <1>6, <1>7, SeqEqual
<1> QED
  BY <1>4, <1>8

(* A log is numbered from 0.                                                 *)
IsLog(log, L) == log \in Seq(L) /\ \A k \in 1..Len(log) : log[k].seq = k - 1

(* A row is good when its tag is the log up to the row itself. *)
Good(S, tag, log, i) == i \in S /\ tag[i] = SubSeq(log, 1, i + 1)

LEMMA ChainRows ==
    ASSUME NEW S, NEW tag, NEW link, NEW L, IsChain(S, tag, link, L)
    PROVE  \A k \in S : k \in Nat /\ tag[k] \in Seq(L) /\ link[k] \in L /\ link[k].seq = k
<1>1. S \subseteq Nat
  BY ComposeAssumption DEF IsChain, Numbers
<1> QED
  BY <1>1 DEF IsChain

LEMMA TagBeforeType ==
    ASSUME NEW S, NEW tag, NEW link, NEW L, IsChain(S, tag, link, L), NEW i \in S
    PROVE  /\ TagBefore(S, tag, i) \in Seq(L)
           /\ TagBefore(S, tag, i) # <<>> =>
                \E j \in S : j < i /\ TagBefore(S, tag, i) = tag[j]
<1>1. CASE Before(S, i) = {}
  BY <1>1 DEF TagBefore
<1>2. CASE Before(S, i) # {}
  <2>0. Before(S, i) \subseteq Numbers
    BY DEF Before, IsChain
  <2>1. Max(Before(S, i)) \in Before(S, i)
    BY <1>2, <2>0, MaxOfNumbers
  <2>2. Max(Before(S, i)) \in S /\ Max(Before(S, i)) < i
    BY <2>1 DEF Before
  <2> QED
    BY <1>2, <2>2 DEF TagBefore, IsChain
<1> QED
  BY <1>1, <1>2

LEMMA GoodStep ==
    ASSUME NEW S, NEW tag, NEW link, NEW L, IsChain(S, tag, link, L),
           NEW log, IsLog(log, L), NEW i \in S, i < Len(log), Good(S, tag, log, i)
    PROVE  link[i] = log[i + 1] /\ (i > 0 => Good(S, tag, log, i - 1))
<1> DEFINE prev == TagBefore(S, tag, i)
<1>0. \A k \in S : k \in Nat /\ tag[k] \in Seq(L) /\ link[k] \in L /\ link[k].seq = k
  BY ChainRows
<1>l. log \in Seq(L) /\ Len(log) \in Nat
  BY LenProperties DEF IsLog
<1>1. i \in S /\ tag[i] = Append(prev, link[i])
  BY DEF IsChain, Good
<1>n. i \in Nat
  BY <1>0
<1>s. i \in S /\ link[i] \in L
  BY <1>0, <1>1
<1>2. prev \in Seq(L) /\ (prev # <<>> => \E j \in S : j < i /\ prev = tag[j])
  <2> HIDE DEF Good
  <2> QED
    BY <1>s, TagBeforeType
<1>a. SubSeq(log, 1, i + 1) = Append(prev, link[i])
  BY <1>1 DEF Good
<1> HIDE DEF prev
<1>3. link[i] = log[i + 1] /\ prev = SubSeq(log, 1, i)
  <2> DEFINE last == link[i]
  <2>1. last \in L /\ SubSeq(log, 1, i + 1) = Append(prev, last)
    BY <1>s, <1>a
  <2> HIDE DEF last, Good, IsLog, IsChain
  <2>2. PICK n \in Nat : n = i + 1 /\ n <= Len(log)
    BY <1>l, <1>n
  <2>3. last = log[n] /\ prev = SubSeq(log, 1, i)
    BY <1>l, <1>n, <1>2, <2>1, <2>2, TagsAreInjective
  <2> QED
    BY <2>2, <2>3 DEF last
<1>4. ASSUME i > 0 PROVE Good(S, tag, log, i - 1)
  <2>1. PICK h \in Nat : i = h + 1 /\ h < Len(log)
    BY <1>l, <1>n, <1>4
  <2>2. prev # <<>>
    <3>1. Len(SubSeq(log, 1, i)) = i
      BY <1>l, <1>n, <1>4, SubSeqProperties
    <3>2. Len(prev) = i
      BY <1>3, <3>1
    <3>3. Len(prev) # 0
      BY <1>n, <1>4, <3>2
    <3> QED
      BY <3>3
  <2>3. PICK j \in S : j < i /\ prev = tag[j]
    BY <1>2, <2>2
  <2> DEFINE q == TagBefore(S, tag, j)
  <2>4. q \in Seq(L) /\ tag[j] = Append(q, link[j])
    BY TagBeforeType DEF IsChain
  <2> HIDE DEF q
  <2>5. SubSeq(log, 1, h + 1) = Append(q, link[j])
    BY <1>3, <2>1, <2>3, <2>4
  <2>6. link[j] = log[h + 1]
    <3>1. PICK n \in Nat : n = h + 1 /\ n <= Len(log)
      BY <1>l, <2>1
    <3> QED
      BY <1>0, <1>l, <2>1, <2>4, <2>5, <3>1, TagsAreInjective
  <2>7. h + 1 \in 1..Len(log) /\ (h + 1) - 1 = h
    BY <1>l, <2>1
  <2>8. log[h + 1].seq = h
    BY <2>7 DEF IsLog
  <2>9. j = h
    BY <1>0, <2>6, <2>8
  <2> QED
    BY <1>3, <2>1, <2>3, <2>9 DEF Good
<1> QED
  BY <1>3, <1>4

(* A chain whose last tag is a numbered log is that log, link by link.       *)
LEMMA ChainIsLog ==
    ASSUME NEW S, NEW tag, NEW link, NEW L, IsChain(S, tag, link, L), S # {},
           NEW log, IsLog(log, L), tag[Max(S)] = log
    PROVE  S = 0..(Len(log) - 1) /\ \A i \in S : link[i] = log[i + 1]
<1> DEFINE m == Max(S)
           top == Len(log) - 1
<1>0. \A k \in S : k \in Nat /\ tag[k] \in Seq(L) /\ link[k] \in L /\ link[k].seq = k
  BY ChainRows
<1>1. m \in S /\ \A k \in S : k <= m
  BY MaxOfNumbers DEF IsChain
<1>2. log = Append(TagBefore(S, tag, m), link[m]) /\ TagBefore(S, tag, m) \in Seq(L)
  BY <1>1, TagBeforeType DEF IsChain
<1>3. Len(log) \in Nat /\ Len(log) > 0 /\ log[Len(log)] = link[m]
  BY <1>0, <1>1, <1>2, AppendProperties, LenProperties
<1>4. m = top /\ top \in Nat
  <2>1. Len(log) \in 1..Len(log)
    BY <1>3
  <2>2. log[Len(log)].seq = Len(log) - 1
    BY <2>1 DEF IsLog
  <2> QED
    BY <1>0, <1>1, <1>3, <2>2
<1>5. Good(S, tag, log, top)
  <2>1. SubSeq(log, 1, top + 1) = log
    BY <1>3, SubSeqFull DEF IsLog
  <2> QED
    BY <1>1, <1>4, <2>1 DEF Good
<1> DEFINE bad == {k \in 0..top : ~Good(S, tag, log, top - k)}
<1>6. bad = {}
  <2> SUFFICES ASSUME bad # {} PROVE FALSE
    OBVIOUS
  <2> HIDE DEF m
  <2>0. bad \subseteq Nat
    OBVIOUS
  <2>1. PICK k \in bad : \A h \in bad : k <= h
    BY <2>0, LeastNat
  <2>2. k \in 0..top /\ ~Good(S, tag, log, top - k)
    OBVIOUS
  <2>3. k # 0
    <3>1. top - 0 = top
      BY <1>4
    <3> QED
      BY <1>5, <2>2, <3>1
  <2>4. k - 1 \in 0..top /\ ~(k <= k - 1)
    BY <1>4, <2>2, <2>3
  <2>5. Good(S, tag, log, top - (k - 1))
    BY <2>1, <2>4
  <2>i. /\ top - (k - 1) \in Nat /\ top - (k - 1) > 0
        /\ (top - (k - 1)) - 1 = top - k /\ top - (k - 1) < Len(log)
    BY <1>3, <1>4, <2>2, <2>3
  <2>6. PICK i \in Nat : i = top - (k - 1) /\ i > 0 /\ i - 1 = top - k /\ i < Len(log)
    BY <2>i
  <2>7. Good(S, tag, log, i - 1)
    <3>1. Good(S, tag, log, i)
      BY <2>5, <2>6
    <3>2. i \in S
      BY <3>1 DEF Good
    <3> QED
      BY <2>6, <3>1, <3>2, GoodStep
  <2> QED
    BY <2>2, <2>6, <2>7
<1>7. ASSUME NEW i \in 0..top PROVE Good(S, tag, log, i) /\ link[i] = log[i + 1]
  <2>1. top - i \in 0..top /\ top - (top - i) = i /\ i \in Nat /\ i < Len(log)
    BY <1>3, <1>4
  <2>2. top - i \notin bad
    BY <1>6
  <2>3. Good(S, tag, log, i)
    BY <2>1, <2>2
  <2> QED
    <3>1. i \in S
      BY <2>3 DEF Good
    <3> QED
      <4>1. PICK j \in S : j = i /\ Good(S, tag, log, j) /\ j < Len(log)
        BY <2>1, <2>3, <3>1
      <4>2. link[j] = log[j + 1] /\ (j > 0 => Good(S, tag, log, j - 1))
        BY <4>1, GoodStep
      <4> QED
        BY <2>3, <4>1, <4>2
<1>8. S = 0..top
  <2>1. ASSUME NEW i \in S PROVE i \in 0..top
    BY <1>0, <1>1, <1>4
  <2>2. ASSUME NEW i \in 0..top PROVE i \in S
    BY <1>7 DEF Good
  <2> QED
    BY <2>1, <2>2
<1> QED
  BY <1>7, <1>8

-----------------------------------------------------------------------------
(* Reading rows in the order of their numbers. *)

LEMMA NumbersBelow ==
    ASSUME NEW n \in Nat, NEW i \in 0..(n - 1)
    PROVE  Cardinality({j \in 0..(n - 1) : j < i}) = i
<1>1. {j \in 0..(n - 1) : j < i} = 0..(i - 1)
  OBVIOUS
<1>2. Cardinality(0..(i - 1)) = i
  BY FS_Interval
<1> QED
  BY <1>1, <1>2

(* With no number missing, the k-th read is number k - 1. *)
LEMMA OrderOfAll ==
    ASSUME NEW n \in Nat
    PROVE  InSeqOrder(0..(n - 1)) = [k \in 1..n |-> k - 1]
<1> DEFINE S == 0..(n - 1)
<1>1. Cardinality(S) = n
  BY FS_Interval
<1>2. ASSUME NEW k \in 1..n
      PROVE  (CHOOSE i \in S : Cardinality({j \in S : j < i}) = k - 1) = k - 1
  <2>1. k - 1 \in S /\ Cardinality({j \in S : j < k - 1}) = k - 1
    BY NumbersBelow
  <2>2. \A i \in S : Cardinality({j \in S : j < i}) = k - 1 => i = k - 1
    BY NumbersBelow
  <2> QED
    BY <2>1, <2>2
<1> QED
  BY <1>1, <1>2 DEF InSeqOrder

(* The last read is the greatest number. *)
LEMMA OrderEnds ==
    ASSUME NEW S, S \subseteq Numbers, S # {}
    PROVE  /\ Cardinality(S) \in Nat \ {0}
           /\ DOMAIN InSeqOrder(S) = 1..Cardinality(S)
           /\ InSeqOrder(S)[Cardinality(S)] = Max(S)
<1> DEFINE m == Max(S)
           c == Cardinality(S)
<1>0. S \subseteq Nat /\ IsFiniteSet(S) /\ c \in Nat /\ c # 0
  <2>1. IsFiniteSet(S) /\ c \in Nat
    BY NumbersFinite
  <2>2. c # 0
    BY <2>1, FS_EmptySet
  <2> QED
    BY <2>1, <2>2, ComposeAssumption DEF Numbers
<1>1. m \in S /\ \A k \in S : k <= m
  BY MaxOfNumbers
<1> HIDE DEF m
<1>2. Cardinality({j \in S : j < m}) = c - 1
  <2>0. \A j \in S : j < m <=> j # m
    BY <1>0, <1>1
  <2>1. {j \in S : j < m} = S \ {m}
    BY <2>0
  <2> QED
    BY <1>0, <1>1, <2>1, FS_RemoveElement
<1>3. ASSUME NEW i \in S, Cardinality({j \in S : j < i}) = c - 1 PROVE i = m
  <2> SUFFICES ASSUME i # m PROVE FALSE
    OBVIOUS
  <2>1. {j \in S : j < i} \subseteq S \ {m}
    BY <1>0, <1>1
  <2>2. i \in S \ {m} /\ i \notin {j \in S : j < i}
    BY <1>0
  <2>3. IsFiniteSet(S \ {m}) /\ Cardinality(S \ {m}) = c - 1
    BY <1>0, <1>1, FS_RemoveElement
  <2>4. {j \in S : j < i} = S \ {m}
    BY <1>3, <2>1, <2>3, FS_Subset
  <2> QED
    BY <2>2, <2>4
<1>4. (CHOOSE i \in S : Cardinality({j \in S : j < i}) = c - 1) = m
  <2> DEFINE Highest(i) == Cardinality({j \in S : j < i}) = c - 1
  <2>1. m \in S /\ Highest(m) /\ \A i \in S : Highest(i) => i = m
    BY <1>1, <1>2, <1>3
  <2> HIDE DEF Highest
  <2>2. (CHOOSE i \in S : Highest(i)) = m
    BY <2>1
  <2> QED
    BY <2>2 DEF Highest
<1>5. c \in 1..c
  BY <1>0
<1>6. InSeqOrder(S)[c] = CHOOSE i \in S : Cardinality({j \in S : j < i}) = c - 1
  BY <1>5 DEF InSeqOrder
<1>7. DOMAIN InSeqOrder(S) = 1..c
  BY DEF InSeqOrder
<1> QED
  BY <1>0, <1>4, <1>6, <1>7 DEF m

(* Every read is of a row that is there: the ranks of the rows are all the    *)
(* numbers below their count.                                                *)
LEMMA OrderIn ==
    ASSUME NEW S, S \subseteq Numbers, NEW k \in 1..Cardinality(S)
    PROVE  InSeqOrder(S)[k] \in S
<1> DEFINE c == Cardinality(S)
           rank == [i \in S |-> Cardinality({j \in S : j < i})]
           T == 0..(c - 1)
<1>0. S \subseteq Nat /\ IsFiniteSet(S) /\ c \in Nat
  <2>1. IsFiniteSet(S) /\ c \in Nat
    BY NumbersFinite
  <2>2. Numbers \subseteq Nat
    BY ComposeAssumption DEF Numbers
  <2> QED
    BY <2>1, <2>2
<1>1. ASSUME NEW i \in S PROVE rank[i] \in T
  <2> DEFINE B == {j \in S : j < i}
  <2>1. B \subseteq S \ {i} /\ i \in S
    BY <1>0
  <2>2. IsFiniteSet(S \ {i}) /\ Cardinality(S \ {i}) = c - 1
    BY <1>0, FS_RemoveElement
  <2>3. IsFiniteSet(B) /\ Cardinality(B) <= c - 1
    BY <2>1, <2>2, FS_Subset
  <2>4. Cardinality(B) \in Nat
    BY <2>3, FS_CardinalityType
  <2> QED
    BY <1>0, <2>3, <2>4
<1>2. ASSUME NEW i \in S, NEW j \in S, i < j PROVE rank[i] # rank[j]
  <2> DEFINE B == {h \in S : h < i}
             C == {h \in S : h < j}
  <2>1. B \subseteq C /\ i \in C /\ i \notin B
    <3>1. i \in Nat /\ j \in Nat /\ i < j /\ ~(i < i)
      BY <1>0, <1>2
    <3>2. \A h \in S : h < i => h < j
      BY <1>0, <3>1
    <3> QED
      BY <3>1, <3>2
  <2>2. C \subseteq S
    OBVIOUS
  <2>3. IsFiniteSet(C)
    BY <1>0, <2>2, FS_Subset
  <2>4. Cardinality(B) = Cardinality(C) => B = C
    BY <2>1, <2>3, FS_Subset
  <2> QED
    BY <2>1, <2>4
<1>3. rank \in [S -> T]
  BY <1>1
<1>4. \A i, j \in S : rank[i] = rank[j] => i = j
  <2> SUFFICES ASSUME NEW i \in S, NEW j \in S, rank[i] = rank[j], i # j PROVE FALSE
    OBVIOUS
  <2> HIDE DEF rank
  <2>1. i < j \/ j < i
    BY <1>0
  <2> QED
    BY <1>2, <2>1
<1>5. rank \in Injection(S, T)
  BY <1>3, <1>4 DEF Injection, IsInjective
<1>6. IsFiniteSet(T) /\ Cardinality(T) = c
  <2> HIDE DEF c
  <2>1. 0 \in Int /\ c - 1 \in Int /\ ~(0 > c - 1 + 1) /\ c - 1 - 0 + 1 = c
    BY <1>0
  <2> QED
    BY <1>0, <2>1, FS_Interval
<1> HIDE DEF rank
<1>7. rank \in Surjection(S, T)
  BY <1>5, <1>6, FS_Injection
<1>8. k - 1 \in T /\ c = Cardinality(S)
  BY <1>0
<1>9. PICK i \in S : rank[i] = k - 1
  BY <1>7, <1>8 DEF Surjection
<1> USE DEF rank
<1>10. \E h \in S : Cardinality({j \in S : j < h}) = k - 1
  BY <1>9
<1>11. (CHOOSE h \in S : Cardinality({j \in S : j < h}) = k - 1) \in S
  BY <1>10
<1> QED
  BY <1>11 DEF InSeqOrder

-----------------------------------------------------------------------------
(* What an edit of the search does, call by call.                            *)

LEMMA KindNames ==
    /\ \A k \in {"reference", "forgetful"} : OnReference(k) /\ ~OnOpenFang(k) /\ ~OnVendor(k)
    /\ \A k \in {"openfang", "openfang_strict"} : ~OnReference(k) /\ OnOpenFang(k) /\ ~OnVendor(k)
    /\ ~OnReference("plain") /\ ~OnOpenFang("plain") /\ ~OnVendor("plain")
BY DEF OnReference, OnOpenFang, OnVendor, V!VendorKinds, V!FrameworkKinds, V!EvidenceKinds,
       V!InspeximusKinds, V!AtelyaKinds, V!ContinuumKinds, V!AtmemKinds, V!BlackboxKinds

(* A call that is made: the tool takes it, and what it leaves is its effect. *)
Goes(s, call, records, t) ==
    s # NONE /\ ~Refused(kind, s, call, records) /\ t = Effect(kind, s, call, records) /\ t # NONE

LEMMA AfterGoes ==
    ASSUME NEW s, NEW call, NEW records, After(s, call, records) # NONE
    PROVE  Goes(s, call, records, After(s, call, records))
BY DEF After, Goes

OneCallEdits == {"tamper", "delete_middle", "forge", "rollback_replay", "metadata_tamper"}
TwoCallEdits == {"truncate", "reorder"}

LEMMA PlanLengths ==
    ASSUME NEW n
    PROVE  /\ \A e \in OneCallEdits : Len(Plan(e, n)) = 1
           /\ \A e \in TwoCallEdits : Len(Plan(e, n)) = 2
           /\ Len(Plan("cross_replay", n)) = 3
<1>1. \A a : Len(<<a>>) = 1
  OBVIOUS
<1>2. \A a, b : Len(<<a, b>>) = 2
  OBVIOUS
<1>3. \A a, b, c : Len(<<a, b, c>>) = 3
  OBVIOUS
<1> QED
  BY <1>1, <1>2, <1>3 DEF Plan, OneCallEdits, TwoCallEdits

LEMMA OneCall ==
    ASSUME NEW s, NEW e \in OneCallEdits, ApplyEdit(s, e) # NONE
    PROVE  LET records == ReadAll(kind, s) IN
           /\ ~(Len(records) < NeedsAtLeast(e))
           /\ Goes(s, Plan(e, Len(records))[1], records, ApplyEdit(s, e))
<1> DEFINE records == ReadAll(kind, s)
           calls == Plan(e, Len(records))
<1>1. Len(calls) = 1
  BY PlanLengths
<1>2. ~(Len(records) < NeedsAtLeast(e))
  BY DEF ApplyEdit
<1>3. ApplyEdit(s, e) = Made(Made(Made(s, calls, 1, records), calls, 2, records), calls, 3, records)
  BY <1>2 DEF ApplyEdit
<1> HIDE DEF records, calls
<1>4. ApplyEdit(s, e) = After(s, calls[1], records)
  BY <1>1, <1>3 DEF Made
<1> QED
  BY <1>2, <1>4, AfterGoes DEF records, calls

LEMMA TwoCalls ==
    ASSUME NEW s, NEW e \in TwoCallEdits, ApplyEdit(s, e) # NONE
    PROVE  LET records == ReadAll(kind, s)
               calls == Plan(e, Len(records)) IN
           /\ ~(Len(records) < NeedsAtLeast(e))
           /\ \E t : Goes(s, calls[1], records, t) /\ Goes(t, calls[2], records, ApplyEdit(s, e))
<1> DEFINE records == ReadAll(kind, s)
           calls == Plan(e, Len(records))
<1>1. Len(calls) = 2
  BY PlanLengths
<1>2. ~(Len(records) < NeedsAtLeast(e))
  BY DEF ApplyEdit
<1>3. ApplyEdit(s, e) = Made(Made(Made(s, calls, 1, records), calls, 2, records), calls, 3, records)
  BY <1>2 DEF ApplyEdit
<1> HIDE DEF records, calls
<1> DEFINE t == After(s, calls[1], records)
<1>4. ApplyEdit(s, e) = After(t, calls[2], records)
  BY <1>1, <1>3 DEF Made
<1>5. t # NONE
  BY <1>4 DEF After
<1>6. Goes(s, calls[1], records, t)
  BY <1>5, AfterGoes
<1>7. Goes(t, calls[2], records, ApplyEdit(s, e))
  BY <1>4, AfterGoes
<1> QED
  BY <1>2, <1>6, <1>7 DEF records, calls

LEMMA ThreeCalls ==
    ASSUME NEW s, ApplyEdit(s, "cross_replay") # NONE
    PROVE  LET records == ReadAll(kind, s) IN
           \E t, u : /\ Goes(s, Call("seed_other"), records, t)
                     /\ Goes(t, Call("read_both"), records, u)
                     /\ Goes(u, ReplayFrom("other"), records, ApplyEdit(s, "cross_replay"))
<1> DEFINE e == "cross_replay"
           records == ReadAll(kind, s)
           calls == Plan(e, Len(records))
<1>1. Len(calls) = 3
  BY PlanLengths
<1>2. /\ calls[1] = Call("seed_other") /\ calls[2] = Call("read_both")
      /\ calls[3] = ReplayFrom("other")
  BY DEF Plan
<1>3. ApplyEdit(s, e) = Made(Made(Made(s, calls, 1, records), calls, 2, records), calls, 3, records)
  BY DEF ApplyEdit
<1> HIDE DEF records, calls, e
<1> DEFINE t == After(s, calls[1], records)
           u == After(t, calls[2], records)
<1>4. ApplyEdit(s, e) = After(u, calls[3], records)
  BY <1>1, <1>3 DEF Made
<1>5. u # NONE
  BY <1>4 DEF After, e
<1>6. t # NONE
  BY <1>5 DEF After
<1>7. Goes(s, calls[1], records, t)
  BY <1>6, AfterGoes
<1>8. Goes(t, calls[2], records, u)
  BY <1>5, AfterGoes
<1>9. Goes(u, calls[3], records, ApplyEdit(s, e))
  BY <1>4, AfterGoes DEF e
<1> QED
  BY <1>2, <1>7, <1>8, <1>9 DEF records, e

-----------------------------------------------------------------------------
(* The reference store as the search finds it: of rows whose tags hold at     *)
(* most b links, all of them below number n.                                 *)

RefKinds == {"reference", "forgetful"}
Within(s, b, n) ==
    /\ s \in Ref!Stores
    /\ \A c \in Ref!Ctxs, i \in Ref!Seqs : s.rec[c][i] # NONE => Len(s.rec[c][i].tag) <= b
    /\ \A i \in Ref!Seqs : s.rec[CTX][i] # NONE => i < n

LEMMA SeqsAreNumbers == Ref!Seqs = Numbers /\ OF!Seqs = Numbers
BY DEF Ref!Seqs, OF!Seqs, Numbers

LEMMA RefLast == ASSUME NEW s PROVE Ref!LastSeq(s) = Max(Ref!Present(s, CTX))
BY DEF Ref!LastSeq, Ref!Max, Max

LEMMA RefRowType ==
    ASSUME NEW s \in Ref!Stores, NEW c \in Ref!Ctxs, NEW i \in Ref!Present(s, c)
    PROVE  i \in Numbers /\ i \in Nat /\ i \in Ref!Seqs /\ s.rec[c][i] \in Ref!Rows /\ s.rec[c][i] # NONE
<1>1. i \in Ref!Seqs /\ s.rec[c][i] # NONE
  BY DEF Ref!Present
<1>2. s.rec[c][i] \in Ref!Rows
  BY <1>1 DEF Ref!Stores, Ref!Tables
<1>3. i \in Numbers /\ i \in Nat
  BY <1>1, SeqsAreNumbers, ComposeAssumption DEF Numbers
<1> QED
  BY <1>1, <1>2, <1>3

(* The records of a context are its rows, in the order of their numbers.     *)
LEMMA RefReads ==
    ASSUME NEW s \in Ref!Stores, NEW c \in Ref!Ctxs
    PROVE  LET records == RefRecords(s, c)
               size == Cardinality(Ref!Present(s, c)) IN
           /\ size \in Nat /\ DOMAIN records = 1..size /\ Len(records) = size
           /\ size = 0 <=> records = <<>>
           /\ size = 0 <=> Ref!Present(s, c) = {}
           /\ \A k \in 1..size :
                 /\ records[k].seq = InSeqOrder(Ref!Present(s, c))[k]
                 /\ records[k].seq \in Ref!Present(s, c)
                 /\ records[k].fields = s.rec[c][records[k].seq]
                 /\ records[k].payload = records[k].fields.content
           /\ size > 0 => records[size].seq = Max(Ref!Present(s, c))
<1> DEFINE S == Ref!Present(s, c)
           size == Cardinality(S)
           records == RefRecords(s, c)
           order == InSeqOrder(S)
<1>0. S \subseteq Numbers
  BY SeqsAreNumbers DEF Ref!Present
<1>1. size \in Nat /\ (size = 0 <=> S = {})
  BY <1>0, NumbersFinite, FS_EmptySet
<1>2. DOMAIN order = 1..size
  BY DEF InSeqOrder
<1>3. \A k \in 1..size : order[k] \in S
  BY <1>0, OrderIn
<1>4. size > 0 => order[size] = Max(S)
  BY <1>0, <1>1, OrderEnds
<1> HIDE DEF S, order
<1>5. records = [k \in 1..size |-> RefRecord(c, order[k], s.rec[c][order[k]])]
  BY <1>2 DEF RefRecords, S, order
<1> HIDE DEF records, size
<1>6. DOMAIN records = 1..size /\ Len(records) = size /\ (size = 0 <=> records = <<>>)
  BY <1>1, <1>5
<1>7. ASSUME NEW k \in 1..size
      PROVE  /\ records[k].seq = order[k]
             /\ records[k].fields = s.rec[c][order[k]]
             /\ records[k].payload = s.rec[c][order[k]].content
  BY <1>5 DEF RefRecord
<1>8. size > 0 => size \in 1..size
  BY <1>1
<1> QED
  BY <1>1, <1>3, <1>4, <1>6, <1>7, <1>8 DEF S, size, records, order

RowsUpTo(b) == {r \in Ref!Rows : Len(r.tag) <= b}

LEMMA MiddleIs ==
    ASSUME NEW n \in Nat
    PROVE  (n >= 1 => Middle(n) \in 1..n) /\ (n >= 2 => Middle(n) - 1 \in 1..n)
           /\ Middle(n) \in Nat
<1>1. n \div 2 \in Nat /\ 2 * (n \div 2) <= n /\ n < 2 * (n \div 2) + 2
  OBVIOUS
<1> QED
  BY <1>1 DEF Middle

LEMMA HooksKeepTags ==
    ASSUME NEW b, NEW row \in RowsUpTo(b)
    PROVE  /\ Ref!MutatePayload(row) \in RowsUpTo(b) /\ Ref!ForgeRecord(row) \in RowsUpTo(b)
           /\ [row EXCEPT !.meta = Ref!MarkMeta(row.meta)] \in RowsUpTo(b)
<1>1. row \in Ref!Rows /\ Len(row.tag) <= b
  BY DEF RowsUpTo
<1>2. Ref!MutatePayload(row) \in Ref!Rows /\ Ref!MutatePayload(row).tag = row.tag
  BY <1>1 DEF Ref!MutatePayload, Ref!Rows, Ref!Contents
<1>3. Ref!ForgeRecord(row) \in Ref!Rows /\ Ref!ForgeRecord(row).tag = row.tag
  <2>1. 0 \in Ref!Seqs
    BY ComposeAssumption DEF Ref!Seqs
  <2> QED
    BY <1>1, <2>1 DEF Ref!ForgeRecord, Ref!Rows, Ref!Contents
<1>4. /\ [row EXCEPT !.meta = Ref!MarkMeta(row.meta)] \in Ref!Rows
      /\ [row EXCEPT !.meta = Ref!MarkMeta(row.meta)].tag = row.tag
  BY <1>1 DEF Ref!MarkMeta, Ref!Rows, Ref!Metas
<1> QED
  BY <1>1, <1>2, <1>3, <1>4 DEF RowsUpTo

LEMMA RefWrite ==
    ASSUME NEW s, NEW b, NEW n, Within(s, b, n),
           NEW i \in Ref!Seqs, i < n, NEW row \in RowsUpTo(b) \cup {NONE}
    PROVE  /\ Within(Ref!WriteRaw(s, i, row), b, n)
           /\ Ref!WriteRaw(s, i, row).witness = s.witness
           /\ Ref!WriteRaw(s, i, row).head = s.head
<1> DEFINE t == Ref!WriteRaw(s, i, row)
<1>1. row \in Ref!Rows \cup {NONE} /\ (row # NONE => Len(row.tag) <= b)
  BY DEF RowsUpTo
<1>2. s \in Ref!Stores /\ s.rec \in [Ref!Ctxs -> [Ref!Seqs -> Ref!Rows \cup {NONE}]] /\ CTX \in Ref!Ctxs
  BY DEF Within, Ref!Stores, Ref!Tables, Ref!Ctxs
<1>3. t = [s EXCEPT !.rec = [s.rec EXCEPT ![CTX] = [s.rec[CTX] EXCEPT ![i] = row]]]
  BY DEF Ref!WriteRaw
<1>4. [s.rec[CTX] EXCEPT ![i] = row] \in [Ref!Seqs -> Ref!Rows \cup {NONE}]
  BY <1>1, <1>2
<1>5. t \in Ref!Stores /\ t.witness = s.witness /\ t.head = s.head
  <2> DEFINE table == [s.rec EXCEPT ![CTX] = [s.rec[CTX] EXCEPT ![i] = row]]
  <2>1. table \in Ref!Tables
    BY <1>2, <1>4 DEF Ref!Tables
  <2>2. t = [s EXCEPT !.rec = table]
    BY <1>3
  <2> HIDE DEF table, t
  <2> QED
    BY <1>2, <2>1, <2>2 DEF Ref!Stores
<1>6. ASSUME NEW c \in Ref!Ctxs, NEW j \in Ref!Seqs
      PROVE  t.rec[c][j] = IF c = CTX /\ j = i THEN row ELSE s.rec[c][j]
  BY <1>2, <1>3 DEF Ref!Stores
<1> HIDE DEF t
<1>7. \A c \in Ref!Ctxs, j \in Ref!Seqs : t.rec[c][j] # NONE => Len(t.rec[c][j].tag) <= b
  BY <1>1, <1>6 DEF Within
<1>8. \A j \in Ref!Seqs : t.rec[CTX][j] # NONE => j < n
  BY <1>2, <1>6 DEF Within
<1> QED
  BY <1>5, <1>7, <1>8 DEF Within, t

LEMMA WithinGrows ==
    ASSUME NEW s, NEW b \in Nat, NEW n \in Nat, Within(s, b, n), NEW c \in Nat, b <= c
    PROVE  Within(s, c, n + 1)
<1>1. Ref!Seqs \subseteq Nat
  BY ComposeAssumption DEF Ref!Seqs
<1>2. ASSUME NEW h \in Ref!Ctxs, NEW i \in Ref!Seqs, s.rec[h][i] # NONE PROVE Len(s.rec[h][i].tag) <= c
  <2>1. s.rec[h][i] \in Ref!Rows
    BY <1>2 DEF Within, Ref!Stores, Ref!Tables
  <2>2. Len(s.rec[h][i].tag) \in Nat
    BY <2>1, LenProperties DEF Ref!Rows, Ref!Tags
  <2> QED
    BY <1>2, <2>2 DEF Within
<1> QED
  BY <1>1, <1>2 DEF Within

(* Seeding a context: rows whose tags are no longer than the seed. *)
LEMMA SeedLogType ==
    ASSUME NEW c \in Ref!Ctxs
    PROVE  Ref!SeedLog(c) \in Seq(Ref!Links) /\ Len(Ref!SeedLog(c)) = SeedCount
           /\ \A i \in 1..SeedCount :
                 /\ Ref!SeedLog(c)[i].seq = i - 1 /\ Ref!SeedLog(c)[i].ctx = c
                 /\ Ref!SeedLog(c)[i].content = Ref!SeedContent(c, i - 1)
<1>0. SeedCount \in Nat /\ MaxSeq \in Nat /\ SeedCount <= MaxSeq
  BY ComposeAssumption
<1>1. \A i \in 1..SeedCount : i - 1 \in Ref!Seqs
  BY <1>0 DEF Ref!Seqs
<1>2. Ref!SeedLog(c) \in [1..SeedCount -> Ref!Links]
  BY <1>1 DEF Ref!SeedLog, Ref!Links, Ref!Contents, Ref!Metas, Ref!SeedContent, Ref!OwnMeta
<1>3. Ref!SeedLog(c) \in Seq(Ref!Links) /\ Len(Ref!SeedLog(c)) = SeedCount
  BY <1>0, <1>2
<1> QED
  BY <1>3 DEF Ref!SeedLog

LEMMA SeedRowType ==
    ASSUME NEW c \in Ref!Ctxs, NEW i \in Ref!Seqs, i < SeedCount
    PROVE  Ref!SeedRow(c, i) \in RowsUpTo(SeedCount) /\ Ref!SeedRow(c, i) # NONE
<1>0. SeedCount \in Nat /\ i \in Nat
  BY ComposeAssumption DEF Ref!Seqs
<1>1. SubSeq(Ref!SeedLog(c), 1, i + 1) \in Ref!Tags /\ Len(SubSeq(Ref!SeedLog(c), 1, i + 1)) = i + 1
  BY <1>0, SeedLogType, SubSeqProperties DEF Ref!Tags
<1>2. Ref!SeedRow(c, i) \in Ref!Rows
  BY <1>1 DEF Ref!SeedRow, Ref!Rows, Ref!Contents, Ref!Metas, Ref!SeedContent, Ref!OwnMeta
<1>3. Ref!SeedRow(c, i).tag = SubSeq(Ref!SeedLog(c), 1, i + 1)
  BY DEF Ref!SeedRow
<1> QED
  BY <1>0, <1>1, <1>2, <1>3, NoneAssumption DEF RowsUpTo

LEMMA HeadType ==
    ASSUME NEW c \in Ref!Ctxs, NEW i \in Ref!Seqs, NEW tag \in Ref!Tags
    PROVE  Ref!SignedHead(c, i, tag) \in Ref!Heads /\ [seq |-> i, tag |-> tag] \in Ref!Witnesses
BY DEF Ref!SignedHead, Ref!HeadSig, Ref!Heads, Ref!Sigs, Ref!Witnesses

LEMMA RefSeed ==
    ASSUME NEW s, NEW c \in Ref!Ctxs, NEW b \in Nat, SeedCount <= b, NEW n \in Nat, SeedCount <= n,
           Within(s, b, n)
    PROVE  /\ Within(Ref!SeedCtx(s, c), b, n)
           /\ \A i \in Ref!Seqs : Ref!SeedCtx(s, c).rec[c][i] =
                 IF i < SeedCount THEN Ref!SeedRow(c, i) ELSE s.rec[c][i]
           /\ c # CTX => Ref!SeedCtx(s, c).witness = s.witness
           /\ c # CTX => \A i \in Ref!Seqs : Ref!SeedCtx(s, c).rec[CTX][i] = s.rec[CTX][i]
           /\ Ref!SeedCtx(s, c).head[c] = Ref!SignedHead(c, SeedCount - 1, Ref!SeedLog(c))
           /\ c # CTX => Ref!SeedCtx(s, c).head[CTX] = s.head[CTX]
<1> DEFINE t == Ref!SeedCtx(s, c)
           rows == [i \in Ref!Seqs |-> IF i < SeedCount THEN Ref!SeedRow(c, i) ELSE s.rec[c][i]]
           new == Ref!SignedHead(c, SeedCount - 1, Ref!SeedLog(c))
<1>0. SeedCount \in Nat /\ MaxSeq \in Nat /\ SeedCount <= MaxSeq /\ SeedCount # 0
      /\ Ref!Seqs \subseteq Nat /\ CTX \in Ref!Ctxs
  BY ComposeAssumption DEF Ref!Seqs, Ref!Ctxs
<1>1. /\ s \in Ref!Stores /\ s.rec \in [Ref!Ctxs -> [Ref!Seqs -> Ref!Rows \cup {NONE}]]
      /\ s.head \in [Ref!Ctxs -> Ref!Heads \cup {NONE}] /\ s.witness \in Ref!Witnesses \cup {NONE}
  BY DEF Within, Ref!Stores, Ref!Tables, Ref!HeadTables
<1>2. rows \in [Ref!Seqs -> Ref!Rows \cup {NONE}]
  BY <1>1, SeedRowType DEF RowsUpTo
<1>3. SeedCount - 1 \in Ref!Seqs /\ Ref!SeedLog(c) \in Ref!Tags
  BY <1>0, SeedLogType DEF Ref!Seqs, Ref!Tags
<1>4. new \in Ref!Heads /\ Ref!WitnessAfterSeed(s, c) \in Ref!Witnesses \cup {NONE}
  BY <1>1, <1>3, HeadType DEF Ref!WitnessAfterSeed
<1> HIDE DEF new
<1>5. t = [rec |-> [s.rec EXCEPT ![c] = rows], head |-> [s.head EXCEPT ![c] = new],
           witness |-> Ref!WitnessAfterSeed(s, c)]
  BY <1>1 DEF Ref!SeedCtx, new
<1> HIDE DEF rows, t
<1>6. t \in Ref!Stores
  BY <1>1, <1>2, <1>4, <1>5 DEF Ref!Stores, Ref!Tables, Ref!HeadTables
<1>7. ASSUME NEW h \in Ref!Ctxs, NEW i \in Ref!Seqs
      PROVE  t.rec[h][i] = IF h = c /\ i < SeedCount THEN Ref!SeedRow(c, i) ELSE s.rec[h][i]
  BY <1>1, <1>5 DEF rows
<1>8. \A i \in Ref!Seqs : i < SeedCount => Len(Ref!SeedRow(c, i).tag) <= b
  <2> SUFFICES ASSUME NEW i \in Ref!Seqs, i < SeedCount PROVE Len(Ref!SeedRow(c, i).tag) <= b
    OBVIOUS
  <2>1. Ref!SeedRow(c, i) \in Ref!Rows /\ Len(Ref!SeedRow(c, i).tag) <= SeedCount
    BY SeedRowType DEF RowsUpTo
  <2>2. Len(Ref!SeedRow(c, i).tag) \in Nat
    BY <2>1, LenProperties DEF Ref!Rows, Ref!Tags
  <2> QED
    BY <1>0, <2>1, <2>2
<1>9. Within(t, b, n)
  <2>1. \A h \in Ref!Ctxs, i \in Ref!Seqs : t.rec[h][i] # NONE => Len(t.rec[h][i].tag) <= b
    BY <1>7, <1>8 DEF Within
  <2>2. \A i \in Ref!Seqs : t.rec[CTX][i] # NONE => i < n
    BY <1>0, <1>7 DEF Within
  <2> QED
    BY <1>6, <2>1, <2>2 DEF Within
<1>10. t.head[c] = new /\ (c # CTX => t.head[CTX] = s.head[CTX] /\ t.witness = s.witness)
  BY <1>0, <1>1, <1>5 DEF Ref!WitnessAfterSeed
<1> QED
  BY <1>0, <1>7, <1>9, <1>10 DEF t, new

(* What the tamper step read of a store: rows to put back, and where.        *)
ReadOf(records, b, n) ==
    /\ Len(records) \in Nat /\ DOMAIN records = 1..Len(records)
    /\ \A k \in 1..Len(records) :
          /\ records[k].seq \in Ref!Seqs /\ records[k].seq < n
          /\ records[k].fields \in RowsUpTo(b)

LEMMA RefReadsWithin ==
    ASSUME kind \in RefKinds, NEW s, NEW b, NEW n, Within(s, b, n)
    PROVE  /\ ReadOf(ReadAll(kind, s), b, n)
           /\ ReadAll(kind, s) = RefRecords(s, CTX)
<1>1. ReadAll(kind, s) = RefRecords(s, CTX)
  BY KindNames DEF ReadAll, RefKinds
<1>2. CTX \in Ref!Ctxs /\ s \in Ref!Stores
  BY DEF Ref!Ctxs, Within
<1> DEFINE records == RefRecords(s, CTX)
           size == Cardinality(Ref!Present(s, CTX))
<1>3. /\ size \in Nat /\ DOMAIN records = 1..size /\ Len(records) = size
      /\ \A k \in 1..size : /\ records[k].seq \in Ref!Present(s, CTX)
                            /\ records[k].fields = s.rec[CTX][records[k].seq]
  BY <1>2, RefReads
<1> HIDE DEF records, size
<1>4. ASSUME NEW k \in 1..size
      PROVE  /\ records[k].seq \in Ref!Seqs /\ records[k].seq < n
             /\ records[k].fields \in RowsUpTo(b)
  <2>1. PICK i \in Ref!Present(s, CTX) : i = records[k].seq /\ records[k].fields = s.rec[CTX][i]
    BY <1>3
  <2>2. i \in Ref!Seqs /\ s.rec[CTX][i] \in Ref!Rows /\ s.rec[CTX][i] # NONE
    BY <1>2, RefRowType
  <2>3. i < n /\ Len(s.rec[CTX][i].tag) <= b
    BY <1>2, <2>2 DEF Within
  <2> QED
    BY <2>1, <2>2, <2>3 DEF RowsUpTo
<1> QED
  BY <1>1, <1>3, <1>4 DEF ReadOf, records

LEMMA RefSlot ==
    ASSUME NEW records, NEW b, NEW n \in Nat, n <= MaxSeq, ReadOf(records, b, n), Len(records) > 0,
           NEW to \in Nat
    PROVE  SlotFor(records, to) \in Ref!Seqs /\ SlotFor(records, to) < n + 1
<1>0. MaxSeq \in Nat
  BY ComposeAssumption
<1>1. CASE to \in DOMAIN records
  BY <1>0, <1>1 DEF SlotFor, ReadOf, Ref!Seqs
<1>2. CASE to \notin DOMAIN records
  <2>1. Len(records) \in 1..Len(records) /\ Last(records) = records[Len(records)]
    BY DEF ReadOf, Last
  <2>2. Last(records).seq \in Ref!Seqs /\ Last(records).seq < n
    BY <2>1 DEF ReadOf
  <2> QED
    BY <1>0, <1>2, <2>2 DEF SlotFor, Ref!Seqs
<1> QED
  BY <1>1, <1>2

LEMMA RefChanged ==
    ASSUME NEW k \in RefKinds, NEW fields
    PROVE  /\ Changed(k, fields, "as read") = fields
           /\ Changed(k, fields, "mutated") = Ref!MutatePayload(fields)
           /\ Changed(k, fields, "forged") = Ref!ForgeRecord(fields)
<1>1. Changed(k, fields, "as read") = fields
  BY DEF Changed
<1>2. OnReference(k) /\ ~OnVendor(k) /\ k # "plain"
  BY KindNames DEF RefKinds
<1>3. Changed(k, fields, "mutated") = Ref!MutatePayload(fields)
  BY <1>2 DEF Changed
<1>4. Changed(k, fields, "forged") = Ref!ForgeRecord(fields)
  BY <1>2 DEF Changed
<1> QED
  BY <1>1, <1>3, <1>4

LEMMA RefEffectIs ==
    ASSUME kind \in RefKinds, NEW s, NEW call, NEW records
    PROVE  Effect(kind, s, call, records) = RefEffect(kind, s, call, records)
<1>1. OnReference(kind) /\ ~OnOpenFang(kind) /\ ~OnVendor(kind)
  BY KindNames DEF RefKinds
<1> QED
  BY <1>1 DEF Effect

LEMMA RefWriteIs ==
    ASSUME kind \in RefKinds, NEW s, NEW records, NEW to, NEW from, NEW how
    PROVE  Effect(kind, s, Write(to, from, how), records)
             = Ref!WriteRaw(s, SlotFor(records, to), Changed(kind, records[from].fields, how))
BY RefEffectIs DEF RefEffect, Write

LEMMA RefDeleteIs ==
    ASSUME kind \in RefKinds, NEW s, NEW records, NEW at
    PROVE  Effect(kind, s, Delete(at), records) = Ref!WriteRaw(s, records[at].seq, NONE)
BY RefEffectIs DEF RefEffect, Delete, Ref!DeleteRaw, Ref!WriteRaw

LEMMA RefMetaIs ==
    ASSUME kind \in RefKinds, NEW s, NEW records, NEW at
    PROVE  Effect(kind, s, EditMetaAt(at), records)
             = Ref!WriteMeta(s, records[at].seq, Ref!MarkMeta(s.rec[CTX][records[at].seq].meta))
<1> DEFINE record == records[at]
<1>1. OnReference(kind) /\ ~OnOpenFang(kind) /\ ~OnVendor(kind)
  BY KindNames DEF RefKinds
<1>2. ReadMeta(s, kind, record) = s.rec[CTX][record.seq].meta
  BY <1>1 DEF ReadMeta
<1>3. /\ EditMetaAt(at).op = "meta" /\ EditMetaAt(at).at = at
  BY DEF EditMetaAt
<1>4. RefEffect(kind, s, EditMetaAt(at), records)
        = Ref!WriteMeta(s, record.seq, Ref!MarkMeta(ReadMeta(s, kind, record)))
  BY <1>3 DEF RefEffect
<1> QED
  BY <1>2, <1>4, RefEffectIs

LEMMA RefReplayIs ==
    ASSUME kind \in RefKinds, NEW s, NEW records, NEW donor
    PROVE  Effect(kind, s, ReplayFrom(donor), records)
             = Ref!ReplayOnto(s, Victim(kind, s), Donor(kind, s, donor))
BY RefEffectIs DEF RefEffect, ReplayFrom

LEMMA RefCallsIs ==
    ASSUME kind \in RefKinds, NEW s, NEW records
    PROVE  /\ Effect(kind, s, Call("seed_other"), records) = Ref!SeedCtx(s, OTHER_CTX)
           /\ Effect(kind, s, Call("append"), records) = Ref!AppendGenuine(s)
           /\ Effect(kind, s, Call("read_both"), records) = s
BY RefEffectIs DEF RefEffect, Call

LEMMA SomeBelow == ASSUME NEW n \in Nat, NEW k \in 1..n PROVE n > 0
OBVIOUS

(* One raw write, delete or metadata edit.                                   *)
Hows == {"as read", "mutated", "forged"}
LEMMA RefWriteCall ==
    ASSUME kind \in RefKinds, NEW s, NEW b, NEW n \in Nat, n <= MaxSeq, Within(s, b, n + 1),
           NEW records, ReadOf(records, b, n), NEW from \in 1..Len(records), NEW to \in Nat,
           NEW how \in Hows, NEW t,
           Goes(s, Write(to, from, how), records, t)
    PROVE  Within(t, b, n + 1) /\ t.witness = s.witness /\ t.head = s.head
<1> DEFINE row == Changed(kind, records[from].fields, how)
           i == SlotFor(records, to)
<1>1. records[from].fields \in RowsUpTo(b)
  BY DEF ReadOf
<1>0. Len(records) > 0
  <2>1. Len(records) \in Nat /\ from \in 1..Len(records)
    BY DEF ReadOf
  <2> HIDE DEF row, i
  <2> QED
    BY <2>1, SomeBelow
<1>2. row \in RowsUpTo(b)
  <2> DEFINE fields == records[from].fields
  <2>1. /\ fields \in RowsUpTo(b)
        /\ Ref!MutatePayload(fields) \in RowsUpTo(b) /\ Ref!ForgeRecord(fields) \in RowsUpTo(b)
    BY <1>1, HooksKeepTags
  <2> HIDE DEF fields
  <2>2. Changed(kind, fields, how) \in {fields, Ref!MutatePayload(fields), Ref!ForgeRecord(fields)}
    <3>1. /\ Changed(kind, fields, "as read") = fields
          /\ Changed(kind, fields, "mutated") = Ref!MutatePayload(fields)
          /\ Changed(kind, fields, "forged") = Ref!ForgeRecord(fields)
      BY RefChanged
    <3>2. how = "as read" \/ how = "mutated" \/ how = "forged"
      BY DEF Hows
    <3> QED
      BY <3>1, <3>2, Zenon
  <2> QED
    BY <2>1, <2>2 DEF fields
<1>3. i \in Ref!Seqs /\ i < n + 1
  BY <1>0, RefSlot
<1>4. t = Ref!WriteRaw(s, i, row)
  <2>1. t = Effect(kind, s, Write(to, from, how), records)
    BY DEF Goes
  <2>2. Effect(kind, s, Write(to, from, how), records) = Ref!WriteRaw(s, i, row)
    BY RefWriteIs
  <2> QED
    BY <2>1, <2>2
<1> HIDE DEF row, i
<1> QED
  BY <1>2, <1>3, <1>4, RefWrite

LEMMA RefDeleteCall ==
    ASSUME kind \in RefKinds, NEW s, NEW b, NEW n \in Nat, Within(s, b, n + 1),
           NEW records, ReadOf(records, b, n), NEW at \in 1..Len(records), NEW t,
           Goes(s, Delete(at), records, t)
    PROVE  Within(t, b, n + 1) /\ t.witness = s.witness /\ t.head = s.head
<1> DEFINE i == records[at].seq
<1>1. i \in Ref!Seqs /\ i < n
  BY DEF ReadOf
<1>2. i < n + 1
  BY <1>1, ComposeAssumption DEF Ref!Seqs
<1>3. t = Ref!WriteRaw(s, i, NONE)
  <2>1. t = Effect(kind, s, Delete(at), records)
    BY DEF Goes
  <2>2. Effect(kind, s, Delete(at), records) = Ref!WriteRaw(s, i, NONE)
    BY RefDeleteIs
  <2> QED
    BY <2>1, <2>2
<1> HIDE DEF i
<1> QED
  BY <1>1, <1>2, <1>3, RefWrite

LEMMA RefMetaCall ==
    ASSUME kind \in RefKinds, NEW s, NEW b, NEW n \in Nat, Within(s, b, n + 1),
           NEW records, ReadOf(records, b, n), NEW at \in 1..Len(records), NEW t,
           Goes(s, EditMetaAt(at), records, t)
    PROVE  Within(t, b, n + 1) /\ t.witness = s.witness /\ t.head = s.head
<1> DEFINE i == records[at].seq
           row == [s.rec[CTX][i] EXCEPT !.meta = Ref!MarkMeta(s.rec[CTX][i].meta)]
<1>1. i \in Ref!Seqs /\ i < n
  BY DEF ReadOf
<1>2. i < n + 1
  BY <1>1, ComposeAssumption DEF Ref!Seqs
<1>3. t = IF s.rec[CTX][i] = NONE THEN s ELSE Ref!WriteRaw(s, i, row)
  <2>1. t = Effect(kind, s, EditMetaAt(at), records)
    BY DEF Goes
  <2>2. Effect(kind, s, EditMetaAt(at), records)
          = Ref!WriteMeta(s, i, Ref!MarkMeta(s.rec[CTX][i].meta))
    BY RefMetaIs
  <2> QED
    BY <2>1, <2>2 DEF Ref!WriteMeta
<1>4. CASE s.rec[CTX][i] = NONE
  BY <1>3, <1>4
<1>5. CASE s.rec[CTX][i] # NONE
  <2>1. s.rec[CTX][i] \in RowsUpTo(b)
    BY <1>1, <1>5 DEF Within, Ref!Stores, Ref!Tables, Ref!Ctxs, RowsUpTo
  <2>2. row \in RowsUpTo(b)
    BY <2>1, HooksKeepTags
  <2> HIDE DEF row, i
  <2> QED
    BY <1>1, <1>2, <1>3, <1>5, <2>2, RefWrite
<1> QED
  BY <1>4, <1>5

(* A replay puts a row of the store, of either context, on the newest.       *)
LEMMA RefReplayCall ==
    ASSUME kind \in RefKinds, NEW s, NEW b, NEW n, Within(s, b, n),
           NEW records, NEW donor \in {"own", "other"}, NEW t,
           Goes(s, ReplayFrom(donor), records, t),
           Ref!Present(s, CTX) # {}, donor = "other" => Ref!Present(s, OTHER_CTX) # {}
    PROVE  Within(t, b, n) /\ t.witness = s.witness /\ t.head = s.head
<1> DEFINE c == IF donor = "other" THEN OTHER_CTX ELSE CTX
           own == RefRecords(s, CTX)
           rows == RefRecords(s, c)
           i == Victim(kind, s)
           row == Donor(kind, s, donor)
<1>1. s \in Ref!Stores /\ CTX \in Ref!Ctxs /\ c \in Ref!Ctxs /\ Ref!Present(s, c) # {}
  BY DEF Within, Ref!Ctxs
<1>2. /\ Cardinality(Ref!Present(s, CTX)) \in Nat \ {0}
      /\ Len(own) = Cardinality(Ref!Present(s, CTX))
      /\ \A k \in 1..Len(own) : own[k].seq \in Ref!Present(s, CTX)
  BY <1>1, RefReads
<1>3. /\ Cardinality(Ref!Present(s, c)) \in Nat \ {0}
      /\ Len(rows) = Cardinality(Ref!Present(s, c))
      /\ \A k \in 1..Len(rows) : /\ rows[k].seq \in Ref!Present(s, c)
                                 /\ rows[k].fields = s.rec[c][rows[k].seq]
  BY <1>1, RefReads
<1>4. i = own[Len(own)].seq
  BY KindNames DEF RefKinds, Victim, ReadAll, Last
<1>5. i \in Ref!Present(s, CTX)
  BY <1>2, <1>4
<1>6. i \in Ref!Seqs /\ i < n /\ s.rec[CTX][i] # NONE
  BY <1>5 DEF Ref!Present, Within
<1>7. row = (IF donor = "other" THEN rows[Len(rows)] ELSE rows[1]).fields
  BY KindNames DEF RefKinds, Donor, ReadAll, ReadOther, Last
<1>8. \E k \in 1..Len(rows) : row = rows[k].fields
  BY <1>3, <1>7
<1>9. PICK j \in Ref!Present(s, c) : row = s.rec[c][j]
  BY <1>3, <1>8
<1>10. row \in RowsUpTo(b)
  <2>1. j \in Ref!Seqs /\ s.rec[c][j] \in Ref!Rows /\ s.rec[c][j] # NONE
    BY <1>1, RefRowType
  <2> QED
    BY <1>1, <1>9, <2>1 DEF Within, RowsUpTo
<1>11. t = Ref!WriteRaw(s, i, row)
  <2>1. t = Effect(kind, s, ReplayFrom(donor), records)
    BY DEF Goes
  <2>2. Effect(kind, s, ReplayFrom(donor), records) = Ref!ReplayOnto(s, i, row)
    BY RefReplayIs
  <2> QED
    BY <1>6, <2>1, <2>2 DEF Ref!ReplayOnto
<1> HIDE DEF i, row
<1> QED
  BY <1>6, <1>10, <1>11, RefWrite

Keeps(s, t, b, n) == Within(t, b, n) /\ t.witness = s.witness /\ t.head[CTX] = s.head[CTX]

(* The edits of one call, given what was read.                               *)
LEMMA OneCallWithin ==
    ASSUME kind \in RefKinds, NEW s, NEW b \in Nat, NEW n \in Nat, n <= MaxSeq, Within(s, b, n),
           NEW e \in OneCallEdits, ApplyEdit(s, e) # NONE
    PROVE  Keeps(s, ApplyEdit(s, e), b, n + 1)
<1> DEFINE records == ReadAll(kind, s)
           m == Len(records)
           t == ApplyEdit(s, e)
<1>1. ~(m < NeedsAtLeast(e)) /\ Goes(s, Plan(e, m)[1], records, t)
  BY OneCall
<1>2. ReadOf(records, b, n) /\ records = RefRecords(s, CTX)
  BY RefReadsWithin
<1>3. m \in Nat
  BY <1>2 DEF ReadOf
<1>4. Within(s, b, n + 1)
  BY WithinGrows
<1> HIDE DEF records, m, t
<1>5. (m >= 1 => Middle(m) \in 1..m) /\ Middle(m) \in Nat
  BY <1>3, MiddleIs
<1>6. m >= 1
  <2>1. NeedsAtLeast(e) >= 1
    BY DEF NeedsAtLeast, OneCallEdits
  <2>2. NeedsAtLeast(e) \in Nat
    BY DEF NeedsAtLeast, OneCallEdits
  <2> QED
    BY <1>1, <1>3, <2>1, <2>2
<1>7. CASE e = "tamper"
  <2>1. Plan(e, m)[1] = Write(Middle(m), Middle(m), "mutated")
    BY <1>7 DEF Plan
  <2>2. Goes(s, Write(Middle(m), Middle(m), "mutated"), records, t)
    BY <1>1, <2>1
  <2>h. "mutated" \in Hows
    BY DEF Hows
  <2>3. Within(t, b, n + 1) /\ t.witness = s.witness /\ t.head = s.head
    BY <1>2, <1>4, <1>5, <1>6, <2>2, <2>h, RefWriteCall DEF m
  <2> QED
    BY <2>3 DEF Keeps, t
<1>8. CASE e = "delete_middle"
  <2>1. Plan(e, m)[1] = Delete(Middle(m))
    BY <1>8 DEF Plan
  <2>2. Goes(s, Delete(Middle(m)), records, t)
    BY <1>1, <2>1
  <2>3. Within(t, b, n + 1) /\ t.witness = s.witness /\ t.head = s.head
    BY <1>2, <1>4, <1>5, <1>6, <2>2, RefDeleteCall DEF m
  <2> QED
    BY <2>3 DEF Keeps, t
<1>9. CASE e = "forge"
  <2>1. Plan(e, m)[1] = Write(m + 1, m, "forged")
    BY <1>9 DEF Plan
  <2>2. Goes(s, Write(m + 1, m, "forged"), records, t)
    BY <1>1, <2>1
  <2>h. "forged" \in Hows
    BY DEF Hows
  <2>3. m \in 1..m /\ m + 1 \in Nat
    BY <1>3, <1>6
  <2>4. Within(t, b, n + 1) /\ t.witness = s.witness /\ t.head = s.head
    BY <1>2, <1>4, <2>2, <2>3, <2>h, RefWriteCall DEF m
  <2> QED
    BY <2>4 DEF Keeps, t
<1>10. CASE e = "rollback_replay"
  <2>1. Plan(e, m)[1] = ReplayFrom("own")
    BY <1>10 DEF Plan
  <2>2. Goes(s, ReplayFrom("own"), records, t)
    BY <1>1, <2>1
  <2>3. Ref!Present(s, CTX) # {}
    <3>1. s \in Ref!Stores /\ CTX \in Ref!Ctxs
      BY DEF Within, Ref!Ctxs
    <3>2. m = Cardinality(Ref!Present(s, CTX))
      BY <1>2, <3>1, RefReads DEF m
    <3> QED
      BY <1>6, <3>2, FS_EmptySet
  <2>4. Within(t, b, n + 1) /\ t.witness = s.witness /\ t.head = s.head
    BY <1>4, <2>2, <2>3, RefReplayCall
  <2> QED
    BY <2>4 DEF Keeps, t
<1>11. CASE e = "metadata_tamper"
  <2>1. Plan(e, m)[1] = EditMetaAt(Middle(m))
    BY <1>11 DEF Plan
  <2>2. Goes(s, EditMetaAt(Middle(m)), records, t)
    BY <1>1, <2>1
  <2>3. Within(t, b, n + 1) /\ t.witness = s.witness /\ t.head = s.head
    BY <1>2, <1>4, <1>5, <1>6, <2>2, RefMetaCall DEF m
  <2> QED
    BY <2>3 DEF Keeps, t
<1> QED
  BY <1>7, <1>8, <1>9, <1>10, <1>11 DEF OneCallEdits

LEMMA TwoCallWithin ==
    ASSUME kind \in RefKinds, NEW s, NEW b \in Nat, NEW n \in Nat, n <= MaxSeq, Within(s, b, n),
           NEW e \in TwoCallEdits, ApplyEdit(s, e) # NONE
    PROVE  Keeps(s, ApplyEdit(s, e), b, n + 1)
<1> DEFINE records == ReadAll(kind, s)
           m == Len(records)
           u == ApplyEdit(s, e)
<1>1. ~(m < NeedsAtLeast(e))
      /\ \E t : Goes(s, Plan(e, m)[1], records, t) /\ Goes(t, Plan(e, m)[2], records, u)
  BY TwoCalls
<1>2. ReadOf(records, b, n)
  BY RefReadsWithin
<1>3. m \in Nat
  BY <1>2 DEF ReadOf
<1>4. Within(s, b, n + 1)
  BY WithinGrows
<1> HIDE DEF records, m, u
<1>5. NeedsAtLeast(e) = 2
  BY DEF NeedsAtLeast, TwoCallEdits
<1>6. m >= 2
  BY <1>1, <1>3, <1>5
<1>7. Middle(m) \in 1..m /\ Middle(m) - 1 \in 1..m /\ Middle(m) \in Nat /\ Middle(m) - 1 \in Nat
  <2>1. Middle(m) \in 1..m /\ Middle(m) - 1 \in 1..m /\ Middle(m) \in Nat
    BY <1>3, <1>6, MiddleIs
  <2> QED
    BY <1>3, <2>1
<1>8. PICK t : Goes(s, Plan(e, m)[1], records, t) /\ Goes(t, Plan(e, m)[2], records, u)
  BY <1>1
<1>9. CASE e = "truncate"
  <2>1. Plan(e, m)[1] = Delete(m) /\ Plan(e, m)[2] = Delete(m - 1)
    BY <1>9 DEF Plan
  <2>2. Goes(s, Delete(m), records, t) /\ Goes(t, Delete(m - 1), records, u)
    BY <1>8, <2>1
  <2>3. m \in 1..m /\ m - 1 \in 1..m
    BY <1>3, <1>6
  <2>4. Within(t, b, n + 1) /\ t.witness = s.witness /\ t.head = s.head
    BY <1>2, <1>4, <2>2, <2>3, RefDeleteCall DEF m
  <2>5. Within(u, b, n + 1) /\ u.witness = t.witness /\ u.head = t.head
    BY <1>2, <2>2, <2>3, <2>4, RefDeleteCall DEF m
  <2> QED
    BY <2>4, <2>5 DEF Keeps, u
<1>10. CASE e = "reorder"
  <2> DEFINE p == Middle(m)
             q == Middle(m) - 1
             how == "as read"
  <2>1. Plan(e, m)[1] = Write(p, q, how) /\ Plan(e, m)[2] = Write(q, p, how)
    BY <1>10 DEF Plan
  <2>2. Goes(s, Write(p, q, how), records, t) /\ Goes(t, Write(q, p, how), records, u)
    BY <1>8, <2>1
  <2>3. p \in 1..m /\ q \in 1..m /\ p \in Nat /\ q \in Nat
    BY <1>7
  <2>h. how \in Hows
    BY DEF Hows
  <2> HIDE DEF p, q, how
  <2>m. p \in 1..Len(records) /\ q \in 1..Len(records)
    BY <2>3 DEF m
  <2>a. Goes(s, Write(p, q, how), records, t)
    BY <2>2
  <2>b. Goes(t, Write(q, p, how), records, u)
    BY <2>2
  <2>4. Within(t, b, n + 1) /\ t.witness = s.witness /\ t.head = s.head
    BY <1>2, <1>4, <2>a, <2>3, <2>m, <2>h, RefWriteCall
  <2>5. Within(u, b, n + 1) /\ u.witness = t.witness /\ u.head = t.head
    BY <1>2, <2>b, <2>3, <2>m, <2>4, <2>h, RefWriteCall
  <2> QED
    BY <2>4, <2>5 DEF Keeps, u
<1> QED
  BY <1>9, <1>10 DEF TwoCallEdits

LEMMA CrossReplayWithin ==
    ASSUME kind \in RefKinds, NEW s, NEW b \in Nat, SeedCount <= b, NEW n \in Nat, SeedCount <= n,
           Within(s, b, n), ApplyEdit(s, "cross_replay") # NONE
    PROVE  Keeps(s, ApplyEdit(s, "cross_replay"), b, n + 1)
<1> DEFINE records == ReadAll(kind, s)
           v == ApplyEdit(s, "cross_replay")
<1>1. PICK t, u : /\ Goes(s, Call("seed_other"), records, t)
                  /\ Goes(t, Call("read_both"), records, u)
                  /\ Goes(u, ReplayFrom("other"), records, v)
  BY ThreeCalls
<1> HIDE DEF records, v
<1>2. t = Ref!SeedCtx(s, OTHER_CTX) /\ u = t
  BY <1>1, RefCallsIs DEF Goes
<1>3. OTHER_CTX \in Ref!Ctxs /\ OTHER_CTX # CTX /\ CTX \in Ref!Ctxs
  BY ComposeAssumption DEF Ref!Ctxs
<1>4. Within(t, b, n) /\ t.witness = s.witness /\ t.head[CTX] = s.head[CTX]
  BY <1>2, <1>3, RefSeed
<1>5. ReadAll(kind, t) # <<>> /\ ReadOther(kind, t) # <<>>
  <2>1. Refused(kind, t, Call("read_both"), records) =
          (ReadAll(kind, t) = <<>> \/ ReadOther(kind, t) = <<>>)
    <3>1. Call("read_both").op = "read_both"
      BY DEF Call
    <3> QED
      BY <3>1 DEF Refused
  <2> QED
    BY <1>1, <2>1 DEF Goes
<1>6. ReadAll(kind, t) = RefRecords(t, CTX) /\ ReadOther(kind, t) = RefRecords(t, OTHER_CTX)
  BY KindNames DEF RefKinds, ReadAll, ReadOther
<1>7. Ref!Present(t, CTX) # {} /\ Ref!Present(t, OTHER_CTX) # {}
  <2>1. t \in Ref!Stores
    BY <1>4 DEF Within
  <2> QED
    BY <1>3, <1>5, <1>6, <2>1, RefReads
<1>8. Within(v, b, n) /\ v.witness = t.witness /\ v.head = t.head
  BY <1>1, <1>2, <1>4, <1>7, RefReplayCall
<1>9. Within(v, b, n + 1)
  BY <1>8, WithinGrows
<1> QED
  BY <1>4, <1>8, <1>9 DEF Keeps, v

(* Whatever the edit, it makes no tag: the tags of the store get no longer.  *)
LEMMA EditWithin ==
    ASSUME kind \in RefKinds, NEW s, NEW b \in Nat, SeedCount <= b, NEW n \in Nat, SeedCount <= n,
           n <= MaxSeq, Within(s, b, n), NEW e \in Edits, ApplyEdit(s, e) # NONE
    PROVE  Keeps(s, ApplyEdit(s, e), b, n + 1)
<1>1. CASE e \in OneCallEdits
  BY <1>1, OneCallWithin
<1>2. CASE e \in TwoCallEdits
  BY <1>2, TwoCallWithin
<1>3. CASE e = "cross_replay"
  BY <1>3, CrossReplayWithin
<1> QED
  BY <1>1, <1>2, <1>3, EditsAre DEF OneCallEdits, TwoCallEdits

-----------------------------------------------------------------------------
(* The reference store's own write: one row more, one link more in its tag.  *)

NextLog(s) == Append(s.rec[CTX][Ref!LastSeq(s)].tag, Ref!LateLink(Ref!LastSeq(s) + 1))

LEMMA LateType ==
    ASSUME NEW m \in Ref!Seqs, NEW prev \in Ref!Tags
    PROVE  /\ Ref!LateLink(m) \in Ref!Links /\ Ref!LateLink(m).seq = m
           /\ Ref!LateLink(m).content = Ref!LateContent
           /\ Ref!LateRow(m, prev) \in Ref!Rows /\ Ref!LateRow(m, prev) # NONE
           /\ Ref!LateRow(m, prev).tag = Append(prev, Ref!LateLink(m))
           /\ Ref!LateRow(m, prev).content = Ref!LateContent
           /\ Append(prev, Ref!LateLink(m)) \in Ref!Tags
           /\ Len(Append(prev, Ref!LateLink(m))) = Len(prev) + 1
           /\ Len(prev) \in Nat
<1>0. 0 \in Ref!Seqs
  BY ComposeAssumption DEF Ref!Seqs
<1>1. Ref!LateContent \in Ref!Contents /\ Ref!OwnMeta(CTX, m) \in Ref!Metas /\ CTX \in Ref!Ctxs
  BY <1>0 DEF Ref!LateContent, Ref!Contents, Ref!OwnMeta, Ref!Metas, Ref!Ctxs
<1>2. /\ Ref!LateLink(m) \in Ref!Links /\ Ref!LateLink(m).seq = m
      /\ Ref!LateLink(m).content = Ref!LateContent
  BY <1>1 DEF Ref!LateLink, Ref!Links
<1> DEFINE tag == Append(prev, Ref!LateLink(m))
<1>3. tag \in Ref!Tags /\ Len(tag) = Len(prev) + 1 /\ Len(prev) \in Nat
  BY <1>2, AppendProperties, LenProperties DEF Ref!Tags
<1> HIDE DEF tag
<1>4. Ref!LateRow(m, prev) = [content |-> Ref!LateContent, meta |-> Ref!OwnMeta(CTX, m), tag |-> tag]
  BY DEF Ref!LateRow, tag
<1>5. Ref!LateRow(m, prev) \in Ref!Rows
  BY <1>1, <1>3, <1>4 DEF Ref!Rows
<1>6. Ref!LateRow(m, prev) # NONE
  BY <1>5, NoneAssumption
<1> QED
  BY <1>2, <1>3, <1>4, <1>5, <1>6 DEF tag

LEMMA RefAppend ==
    ASSUME NEW s, NEW b \in Nat, NEW n \in Nat, n <= MaxSeq, Within(s, b, n), Ref!CanAppend(s)
    PROVE  LET t == Ref!AppendGenuine(s)
               m == Ref!LastSeq(s) + 1 IN
           /\ m \in Ref!Seqs /\ Ref!LastSeq(s) \in Ref!Present(s, CTX)
           /\ s.rec[CTX][Ref!LastSeq(s)].tag \in Ref!Tags
           /\ Within(t, b + 1, n + 1)
           /\ t.witness = [seq |-> m, tag |-> NextLog(s)]
           /\ Ref!Present(t, CTX) # {} /\ Ref!LastSeq(t) = m
           /\ t.rec[CTX][m].content = Ref!LateContent
<1> DEFINE t == Ref!AppendGenuine(s)
           last == Ref!LastSeq(s)
           m == last + 1
           prev == s.rec[CTX][last].tag
           row == Ref!LateRow(m, prev)
<1>0. MaxSeq \in Nat /\ Ref!Seqs = 0..MaxSeq /\ CTX \in Ref!Ctxs /\ Ref!Seqs \subseteq Nat
  BY ComposeAssumption DEF Ref!Seqs, Ref!Ctxs
<1>1. /\ s \in Ref!Stores /\ s.rec \in [Ref!Ctxs -> [Ref!Seqs -> Ref!Rows \cup {NONE}]]
      /\ s.head \in [Ref!Ctxs -> Ref!Heads \cup {NONE}]
  BY DEF Within, Ref!Stores, Ref!Tables, Ref!HeadTables
<1>2. last \in Ref!Present(s, CTX) /\ \A i \in Ref!Present(s, CTX) : i <= last
  <2>1. Ref!Present(s, CTX) \subseteq Numbers /\ Ref!Present(s, CTX) # {}
    BY SeqsAreNumbers DEF Ref!CanAppend, Ref!Present
  <2> QED
    BY <2>1, RefLast, MaxOfNumbers
<1> HIDE DEF last
<1>3. last \in Ref!Seqs /\ last < n /\ s.rec[CTX][last] \in Ref!Rows /\ Len(prev) <= b /\ prev \in Ref!Tags
  <2>1. last \in Ref!Seqs /\ s.rec[CTX][last] # NONE /\ s.rec[CTX][last] \in Ref!Rows
    BY <1>0, <1>1, <1>2, RefRowType
  <2>2. last < n /\ Len(prev) <= b
    BY <1>0, <2>1 DEF Within
  <2> QED
    BY <2>1, <2>2 DEF Ref!Rows
<1>4. m \in Ref!Seqs /\ m < n + 1 /\ m # last /\ last < m
  BY <1>0, <1>3
<1> HIDE DEF prev, m
<1>5. /\ row \in Ref!Rows /\ row # NONE /\ row.content = Ref!LateContent
      /\ row.tag \in Ref!Tags /\ Len(row.tag) = Len(prev) + 1 /\ Len(prev) \in Nat
      /\ row.tag = Append(prev, Ref!LateLink(m))
  BY <1>3, <1>4, LateType
<1> HIDE DEF row
<1>6. t = [rec |-> [s.rec EXCEPT ![CTX][m] = row],
           head |-> [s.head EXCEPT ![CTX] = Ref!SignedHead(CTX, m, row.tag)],
           witness |-> [seq |-> m, tag |-> row.tag]]
  BY DEF Ref!AppendGenuine, Ref!WriteLate, last, prev, m, row
<1>7. Ref!SignedHead(CTX, m, row.tag) \in Ref!Heads /\ [seq |-> m, tag |-> row.tag] \in Ref!Witnesses
  BY <1>0, <1>4, <1>5, HeadType
<1> DEFINE head == Ref!SignedHead(CTX, m, row.tag)
           witness == [seq |-> m, tag |-> row.tag]
           table == [s.rec EXCEPT ![CTX][m] = row]
<1> HIDE DEF head, witness, t
<1>8. table \in Ref!Tables
  <2>1. [s.rec[CTX] EXCEPT ![m] = row] \in [Ref!Seqs -> Ref!Rows \cup {NONE}]
    BY <1>0, <1>1, <1>5
  <2> QED
    BY <1>1, <2>1 DEF Ref!Tables
<1>9. ASSUME NEW c \in Ref!Ctxs, NEW i \in Ref!Seqs
      PROVE  table[c][i] = IF c = CTX /\ i = m THEN row ELSE s.rec[c][i]
  BY <1>0, <1>1
<1> HIDE DEF table
<1>10. t = [rec |-> table, head |-> [s.head EXCEPT ![CTX] = head], witness |-> witness]
  BY <1>6 DEF table, head, witness
<1>11. t \in Ref!Stores
  BY <1>0, <1>1, <1>7, <1>8, <1>10 DEF Ref!Stores, Ref!HeadTables, head, witness
<1>12. t.rec = table /\ t.witness = witness
  BY <1>10
<1>13. Within(t, b + 1, n + 1)
  <2>1. ASSUME NEW c \in Ref!Ctxs, NEW i \in Ref!Seqs, table[c][i] # NONE
        PROVE  Len(table[c][i].tag) <= b + 1
    <3>1. CASE c = CTX /\ i = m
      <4>1. table[c][i] = row
        BY <3>1, <1>9
      <4>2. Len(row.tag) <= b + 1
        BY <1>3, <1>5
      <4> QED
        BY <4>1, <4>2
    <3>2. CASE ~(c = CTX /\ i = m)
      <4>1. table[c][i] = s.rec[c][i] /\ s.rec[c][i] # NONE
        BY <2>1, <3>2, <1>9
      <4>2. Len(s.rec[c][i].tag) <= b
        BY <4>1 DEF Within
      <4>3. s.rec[c][i].tag \in Seq(Ref!Links)
        BY <1>1, <4>1 DEF Ref!Rows, Ref!Tags
      <4>4. Len(s.rec[c][i].tag) \in Nat
        BY <4>3, LenProperties
      <4> QED
        BY <4>1, <4>2, <4>4
    <3> QED
      BY <3>1, <3>2
  <2>2. ASSUME NEW i \in Ref!Seqs, table[CTX][i] # NONE PROVE i < n + 1
    <3>1. i = m \/ s.rec[CTX][i] # NONE
      BY <1>0, <1>9, <2>2
    <3>2. s.rec[CTX][i] # NONE => i < n
      BY DEF Within
    <3> QED
      BY <1>0, <1>4, <3>1, <3>2
  <2> QED
    BY <1>11, <1>12, <2>1, <2>2 DEF Within
<1>14. Ref!Present(t, CTX) = Ref!Present(s, CTX) \cup {m}
  <2>1. \A i \in Ref!Seqs : t.rec[CTX][i] # NONE <=> s.rec[CTX][i] # NONE \/ i = m
    BY <1>0, <1>4, <1>5, <1>9, <1>12
  <2> QED
    BY <1>4, <2>1 DEF Ref!Present
<1>15. Ref!Present(t, CTX) # {} /\ Ref!LastSeq(t) = m
  <2> DEFINE S == Ref!Present(t, CTX)
  <2>1. m \in S /\ S \subseteq Numbers
    BY <1>14, SeqsAreNumbers DEF Ref!Present
  <2>2. Max(S) \in S /\ \A i \in S : i <= Max(S)
    BY <2>1, MaxOfNumbers
  <2>3. \A i \in S : i <= m
    BY <1>0, <1>2, <1>3, <1>4, <1>14 DEF Ref!Present
  <2>4. Max(S) \in Nat /\ m \in Nat
    BY <1>0, <1>4, <2>1, <2>2, SeqsAreNumbers
  <2>5. Max(S) = m
    BY <2>1, <2>2, <2>3, <2>4
  <2> QED
    BY <2>1, <2>5, RefLast
<1>16. t.rec[CTX][m].content = Ref!LateContent
  BY <1>0, <1>4, <1>5, <1>9, <1>12
<1>17. witness = [seq |-> m, tag |-> NextLog(s)]
  BY <1>5 DEF witness, NextLog, last, prev, m
<1> QED
  BY <1>2, <1>3, <1>4, <1>12, <1>13, <1>15, <1>16, <1>17 DEF t, last, m, prev

-----------------------------------------------------------------------------
(* A move of the search on the reference store.                              *)

Bump(move) == IF move = "write" THEN 1 ELSE 0

LEMMA RefGrown ==
    ASSUME kind \in RefKinds, NEW s, Grown(s) # NONE
    PROVE  Ref!CanAppend(s) /\ Grown(s) = Ref!AppendGenuine(s)
<1> DEFINE call == Call("append")
<1>1. Goes(s, call, <<>>, Grown(s))
  BY AfterGoes DEF Grown
<1>2. Grown(s) = Ref!AppendGenuine(s)
  BY <1>1, RefCallsIs DEF Goes
<1>3. OnReference(kind) /\ ~OnOpenFang(kind) /\ ~OnVendor(kind)
  BY KindNames DEF RefKinds
<1>4. call.op = "append"
  BY DEF Call
<1>5. ~Refused(kind, s, call, <<>>)
  BY <1>1 DEF Goes
<1> HIDE DEF call
<1>6. Refused(kind, s, call, <<>>) = ~Ref!CanAppend(s)
  BY <1>3, <1>4 DEF Refused
<1> QED
  BY <1>2, <1>5, <1>6

(* Putting an old copy back: the rows and heads of the copy, the witness of   *)
(* the store it is put into.                                                 *)
LEMMA RefRestore ==
    ASSUME NEW s, NEW g, NEW b, NEW n, Within(s, b, n), NEW c, NEW m, Within(g, c, m)
    PROVE  LET t == Ref!RestoreStore(g, Ref!SnapshotStore(s)) IN
           Within(t, b, n) /\ t.witness = g.witness /\ t.rec = s.rec
<1> DEFINE t == Ref!RestoreStore(g, Ref!SnapshotStore(s))
<1>1. s \in Ref!Stores /\ g \in Ref!Stores
  BY DEF Within
<1>2. t = [g EXCEPT !.rec = s.rec, !.head = s.head]
  <2> DEFINE copy == [rec |-> s.rec, head |-> s.head]
  <2>1. copy.rec = s.rec /\ copy.head = s.head
    OBVIOUS
  <2>2. Ref!SnapshotStore(s) = copy
    BY DEF Ref!SnapshotStore
  <2> HIDE DEF copy
  <2>3. t = [g EXCEPT !.rec = copy.rec, !.head = copy.head]
    BY <2>2 DEF Ref!RestoreStore
  <2> QED
    BY <2>1, <2>3
<1> HIDE DEF t
<1>3. /\ s.rec \in Ref!Tables /\ s.head \in Ref!HeadTables
      /\ g.witness \in Ref!Witnesses \cup {NONE}
  BY <1>1 DEF Ref!Stores
<1>4. t \in Ref!Stores /\ t.rec = s.rec /\ t.witness = g.witness
  BY <1>1, <1>2, <1>3 DEF Ref!Stores
<1> QED
  BY <1>4 DEF Within, t

LEMMA ApplyIs ==
    ASSUME NEW s
    PROVE  /\ Apply(s, "write") = Grown(s)
           /\ Apply(s, "restart") = Reload(kind, s)
           /\ Apply(s, "rollback") =
                IF Grown(s) = NONE THEN NONE ELSE Restore(kind, Grown(s), Snapshot(kind, s))
           /\ \A e \in Edits : Apply(s, e) = ApplyEdit(s, e)
<1>1. \A e \in Edits : e # "write" /\ e # "restart" /\ e # "rollback"
  BY EditsAre
<1> QED
  BY <1>1 DEF Apply

(* What each kind of move leaves: only a write makes a longer tag, and only a *)
(* restart of the forgetful store loses what the process remembers.          *)
Moved1(s, move, t) ==
    /\ move = "restart" => IF kind = "reference" THEN t.witness = s.witness ELSE t.witness = NONE
    /\ move \in {"write", "rollback"} =>
         /\ Ref!CanAppend(s)
         /\ t.witness = [seq |-> Ref!LastSeq(s) + 1, tag |-> NextLog(s)]
    /\ move \in Edits => t.witness = s.witness

LEMMA RefMove ==
    ASSUME kind \in RefKinds, NEW s, NEW b \in Nat, SeedCount <= b, NEW n \in Nat, SeedCount <= n,
           n <= MaxSeq, Within(s, b, n), NEW move \in Moves, Apply(s, move) # NONE
    PROVE  Within(Apply(s, move), b + Bump(move), n + 1) /\ Moved1(s, move, Apply(s, move))
<1> DEFINE t == Apply(s, move)
<1>e. "write" \notin Edits /\ "restart" \notin Edits /\ "rollback" \notin Edits
  BY EditsAre
<1>0. b + 0 = b /\ b <= b
  OBVIOUS
<1>1. CASE move = "write"
  <2>1. t = Grown(s)
    BY <1>1, ApplyIs
  <2>2. Ref!CanAppend(s) /\ t = Ref!AppendGenuine(s)
    BY <2>1, RefGrown
  <2> HIDE DEF t
  <2>3. Within(t, b + 1, n + 1) /\ t.witness = [seq |-> Ref!LastSeq(s) + 1, tag |-> NextLog(s)]
    BY <2>2, RefAppend
  <2> QED
    BY <1>1, <1>e, <2>2, <2>3 DEF Moved1, Bump, t
<1>2. CASE move = "restart"
  <2>1. t = Reload(kind, s)
    BY <1>2, ApplyIs
  <2> HIDE DEF t
  <2>2. ~OnVendor(kind) /\ kind \in {"reference", "forgetful"}
    BY KindNames DEF RefKinds
  <2>3. kind = "reference" => t = s
    BY <2>1, <2>2 DEF Reload
  <2>4. kind = "forgetful" => t = [s EXCEPT !.witness = NONE]
    BY <2>1, <2>2 DEF Reload
  <2>5. Within(t, b, n) /\ (IF kind = "reference" THEN t.witness = s.witness ELSE t.witness = NONE)
    <3>1. CASE kind = "reference"
      BY <2>3, <3>1
    <3>2. CASE kind = "forgetful"
      <4>1. t.rec = s.rec /\ t.witness = NONE /\ t \in Ref!Stores
        BY <2>4, <3>2 DEF Within, Ref!Stores
      <4> QED
        BY <3>2, <4>1 DEF Within
    <3> QED
      BY <2>2, <3>1, <3>2
  <2>6. Within(t, b, n + 1)
    BY <2>5, WithinGrows
  <2> QED
    BY <1>0, <1>2, <1>e, <2>5, <2>6 DEF Moved1, Bump, t
<1>3. CASE move = "rollback"
  <2>1. Grown(s) # NONE /\ t = Restore(kind, Grown(s), Snapshot(kind, s))
    BY <1>3, ApplyIs
  <2> HIDE DEF t
  <2>2. OnReference(kind) /\ ~OnOpenFang(kind) /\ ~OnVendor(kind)
    BY KindNames DEF RefKinds
  <2>3. t = Ref!RestoreStore(Grown(s), Ref!SnapshotStore(s))
    BY <2>1, <2>2 DEF Restore, Snapshot
  <2>4. Ref!CanAppend(s) /\ Grown(s) = Ref!AppendGenuine(s)
    BY <2>1, RefGrown
  <2>5. /\ Within(Grown(s), b + 1, n + 1)
        /\ Grown(s).witness = [seq |-> Ref!LastSeq(s) + 1, tag |-> NextLog(s)]
    BY <2>4, RefAppend
  <2>6. Within(t, b, n) /\ t.witness = Grown(s).witness
    BY <2>3, <2>5, RefRestore
  <2>7. Within(t, b, n + 1)
    BY <2>6, WithinGrows
  <2> QED
    BY <1>0, <1>3, <1>e, <2>4, <2>5, <2>6, <2>7 DEF Moved1, Bump, t
<1>4. CASE move \in Edits
  <2>1. t = ApplyEdit(s, move)
    BY <1>4, ApplyIs
  <2>2. Within(t, b, n + 1) /\ t.witness = s.witness
    BY <1>4, <2>1, EditWithin DEF Keeps
  <2> QED
    BY <1>0, <1>4, <1>e, <2>2 DEF Moved1, Bump
<1> QED
  BY <1>1, <1>2, <1>3, <1>4 DEF Moves

(* What the API says it took is the record it wrote. *)
LEMMA RefAcknowledges ==
    ASSUME kind \in RefKinds, NEW s, NEW b \in Nat, NEW n \in Nat, n <= MaxSeq, Within(s, b, n),
           Grown(s) # NONE
    PROVE  Last(ReadAll(kind, Grown(s))).payload = Ref!LateContent
<1> DEFINE g == Grown(s)
           records == RefRecords(g, CTX)
           size == Cardinality(Ref!Present(g, CTX))
           m == Ref!LastSeq(s) + 1
<1>1. Ref!CanAppend(s) /\ g = Ref!AppendGenuine(s)
  BY RefGrown
<1> HIDE DEF g
<1>2. /\ Within(g, b + 1, n + 1) /\ Ref!Present(g, CTX) # {} /\ Ref!LastSeq(g) = m
      /\ g.rec[CTX][m].content = Ref!LateContent
  BY <1>1, RefAppend
<1>3. ReadAll(kind, g) = records
  BY KindNames DEF RefKinds, ReadAll
<1>4. g \in Ref!Stores /\ CTX \in Ref!Ctxs
  BY <1>2 DEF Within, Ref!Ctxs
<1> HIDE DEF records, size
<1>5. /\ size \in Nat /\ size # 0 /\ Len(records) = size
      /\ records[size].seq = Max(Ref!Present(g, CTX))
      /\ records[size].fields = g.rec[CTX][records[size].seq]
      /\ records[size].payload = records[size].fields.content
  <2>1. /\ size \in Nat /\ Len(records) = size
        /\ size = 0 <=> Ref!Present(g, CTX) = {}
        /\ \A k \in 1..size : /\ records[k].fields = g.rec[CTX][records[k].seq]
                              /\ records[k].payload = records[k].fields.content
        /\ size > 0 => records[size].seq = Max(Ref!Present(g, CTX))
    BY <1>4, RefReads DEF records, size
  <2>2. size # 0 /\ size > 0 /\ size \in 1..size
    BY <1>2, <2>1
  <2> QED
    BY <2>1, <2>2
<1>6. records[size].seq = m
  BY <1>2, <1>5, RefLast
<1> QED
  BY <1>2, <1>3, <1>5, <1>6 DEF g, Last

-----------------------------------------------------------------------------
(* Counting moves, and growing the record of what was acknowledged.          *)

Count(seq, k, m) == Cardinality({i \in 1..k : seq[i] = m})

LEMMA CountSteps ==
    ASSUME NEW seq, NEW k \in Nat, NEW m
    PROVE  /\ Count(seq, k, m) \in Nat
           /\ Count(seq, 0, m) = 0
           /\ seq[k + 1] = m => Count(seq, k + 1, m) = Count(seq, k, m) + 1
           /\ seq[k + 1] # m => Count(seq, k + 1, m) = Count(seq, k, m)
<1> DEFINE A == {i \in 1..k : seq[i] = m}
           B == {i \in 1..(k + 1) : seq[i] = m}
<1>1. IsFiniteSet(1..k) /\ A \subseteq 1..k
  BY FS_Interval
<1>2. IsFiniteSet(A) /\ Cardinality(A) \in Nat
  BY <1>1, FS_Subset, FS_CardinalityType
<1>3. Count(seq, 0, m) = 0
  <2>1. {i \in 1..0 : seq[i] = m} = {}
    OBVIOUS
  <2> QED
    BY <2>1, FS_EmptySet DEF Count
<1>4. k + 1 \notin A /\ \A i : i \in 1..(k + 1) <=> i \in 1..k \/ i = k + 1
  OBVIOUS
<1>5. CASE seq[k + 1] = m
  <2>1. B = A \cup {k + 1}
    BY <1>4, <1>5
  <2>2. Cardinality(B) = Cardinality(A) + 1
    BY <1>2, <1>4, <2>1, FS_AddElement
  <2> QED
    BY <1>2, <1>3, <1>5, <2>2 DEF Count
<1>6. CASE seq[k + 1] # m
  <2>1. B = A
    BY <1>4, <1>6
  <2> QED
    BY <1>2, <1>3, <1>6, <2>1 DEF Count
<1> QED
  BY <1>5, <1>6

LEMMA CountNone ==
    ASSUME NEW seq, NEW k \in Nat, NEW m, \A i \in 1..k : seq[i] # m
    PROVE  Count(seq, k, m) = 0
<1>1. {i \in 1..k : seq[i] = m} = {}
  OBVIOUS
<1> QED
  BY <1>1, FS_EmptySet DEF Count

LEMMA CountSome ==
    ASSUME NEW seq, NEW k \in Nat, NEW m, NEW i \in 1..k, seq[i] = m
    PROVE  Count(seq, k, m) \in Nat \ {0}
<1> DEFINE A == {h \in 1..k : seq[h] = m}
<1>1. IsFiniteSet(1..k) /\ A \subseteq 1..k /\ i \in A
  BY FS_Interval
<1>2. IsFiniteSet(A) /\ Cardinality(A) \in Nat /\ Cardinality(A) # 0
  BY <1>1, FS_Subset, FS_CardinalityType, FS_EmptySet
<1> QED
  BY <1>2 DEF Count

LEMMA OneAcknowledged ==
    ASSUME NEW S, NEW q \in Seq(S), NEW x
    PROVE  /\ q \o <<x>> \in Seq(S \cup {x})
           /\ Len(q) \in Nat /\ Len(q \o <<x>>) = Len(q) + 1
           /\ \A k \in 1..Len(q) : (q \o <<x>>)[k] = q[k]
           /\ (q \o <<x>>)[Len(q) + 1] = x
<1> DEFINE T == S \cup {x}
           r == <<x>>
<1>1. q \in Seq(T) /\ r \in Seq(T) /\ Len(r) = 1 /\ r[1] = x
  <2>1. S \subseteq T
    OBVIOUS
  <2>2. q \in [1..Len(q) -> S] /\ Len(q) \in Nat
    BY LenProperties
  <2>3. q \in [1..Len(q) -> T]
    BY <2>1, <2>2
  <2> QED
    BY <2>2, <2>3
<1> HIDE DEF T, r
<1>2. Len(q) \in Nat
  BY <1>1, LenProperties
<1>3. q \o r \in Seq(T) /\ Len(q \o r) = Len(q) + Len(r)
      /\ \A k \in 1..(Len(q) + Len(r)) : (q \o r)[k] = IF k <= Len(q) THEN q[k] ELSE r[k - Len(q)]
  BY <1>1, ConcatProperties
<1>4. \A k \in 1..Len(q) : k \in 1..(Len(q) + Len(r)) /\ k <= Len(q)
  BY <1>1, <1>2
<1>5. Len(q) + 1 \in 1..(Len(q) + Len(r)) /\ ~(Len(q) + 1 <= Len(q)) /\ Len(q) + 1 - Len(q) = 1
  BY <1>1, <1>2
<1>6. (q \o r)[Len(q) + 1] = r[1]
  BY <1>3, <1>5
<1> QED
  BY <1>1, <1>2, <1>3, <1>4, <1>6 DEF T, r

-----------------------------------------------------------------------------
(* What a reference store that verifies holds.                               *)

RowTag(s) == [i \in Ref!Present(s, CTX) |-> s.rec[CTX][i].tag]
RowLinkOf(s) ==
    [i \in Ref!Present(s, CTX) |->
        [ctx |-> CTX, seq |-> i, content |-> s.rec[CTX][i].content, meta |-> s.rec[CTX][i].meta]]

LEMMA RefVerifyChain ==
    ASSUME NEW s \in Ref!Stores, Ref!Verify(s)
    PROVE  /\ IsChain(Ref!Present(s, CTX), RowTag(s), RowLinkOf(s), Ref!Links)
           /\ Ref!Present(s, CTX) # {}
           /\ s.witness # NONE => RowTag(s)[Max(Ref!Present(s, CTX))] = s.witness.tag
<1> DEFINE S == Ref!Present(s, CTX)
           tag == RowTag(s)
           link == RowLinkOf(s)
<1>0. CTX \in Ref!Ctxs /\ Ref!Seqs \subseteq Nat /\ S \subseteq Ref!Seqs /\ S \subseteq Numbers
  BY SeqsAreNumbers, ComposeAssumption DEF Ref!Ctxs, Ref!Seqs, Ref!Present
<1>1. \A i \in S : s.rec[CTX][i] \in Ref!Rows
  BY <1>0, RefRowType
<1> HIDE DEF S
<1>2. ASSUME NEW i \in S PROVE tag[i] \in Seq(Ref!Links) /\ link[i] \in Ref!Links /\ link[i].seq = i
  <2>1. tag[i] = s.rec[CTX][i].tag
    BY DEF RowTag, S
  <2>2. link[i] = [ctx |-> CTX, seq |-> i, content |-> s.rec[CTX][i].content,
                   meta |-> s.rec[CTX][i].meta]
    BY DEF RowLinkOf, S
  <2>3. /\ s.rec[CTX][i].tag \in Seq(Ref!Links)
        /\ s.rec[CTX][i].content \in Ref!Contents /\ s.rec[CTX][i].meta \in Ref!Metas
    BY <1>1 DEF Ref!Rows, Ref!Tags
  <2>4. i \in Ref!Seqs
    BY <1>0
  <2>5. link[i] \in Ref!Links /\ link[i].seq = i
    BY <1>0, <2>2, <2>3, <2>4 DEF Ref!Links
  <2> QED
    BY <2>1, <2>3, <2>5
<1>3. ASSUME NEW i \in S PROVE tag[i] = Append(TagBefore(S, tag, i), link[i])
  <2>1. Ref!PrevTag(s, i) = TagBefore(S, tag, i)
    <3>1. Ref!Below(s, i) = Before(S, i)
      BY DEF Ref!Below, Before, S
    <3>2. CASE Before(S, i) = {}
      BY <3>1, <3>2 DEF Ref!PrevTag, TagBefore, Ref!Genesis
    <3>3. CASE Before(S, i) # {}
      <4>1. Max(Before(S, i)) \in S
        BY <1>0, <3>3, MaxOfNumbers DEF Before
      <4>2. Ref!PrevTag(s, i) = s.rec[CTX][Max(Before(S, i))].tag
        BY <3>1, <3>3 DEF Ref!PrevTag, Ref!Max, Max
      <4>3. TagBefore(S, tag, i) = tag[Max(Before(S, i))]
        BY <3>3 DEF TagBefore
      <4> QED
        BY <4>1, <4>2, <4>3 DEF RowTag, S
    <3> QED
      BY <3>2, <3>3
  <2>2. s.rec[CTX][i].tag = Ref!Tag(CTX, i, s.rec[CTX][i].content, s.rec[CTX][i].meta,
                                    Ref!PrevTag(s, i))
    BY DEF Ref!Verify, Ref!ChainHolds, S
  <2>3. tag[i] = s.rec[CTX][i].tag
        /\ link[i] = [ctx |-> CTX, seq |-> i, content |-> s.rec[CTX][i].content,
                      meta |-> s.rec[CTX][i].meta]
    BY DEF RowTag, RowLinkOf, S
  <2> QED
    BY <2>1, <2>2, <2>3 DEF Ref!Tag
<1>4. IsChain(S, tag, link, Ref!Links)
  BY <1>0, <1>2, <1>3 DEF IsChain
<1>5. S # {}
  BY DEF Ref!Verify, Ref!HeadIsLastRow, S
<1>6. s.witness # NONE => tag[Max(S)] = s.witness.tag
  <2>1. Max(S) \in S /\ Ref!LastSeq(s) = Max(S)
    BY <1>0, <1>5, MaxOfNumbers, RefLast DEF S
  <2>2. s.rec[CTX][Ref!LastSeq(s)].tag = s.head[CTX].tag
    BY DEF Ref!Verify, Ref!HeadIsLastRow
  <2>3. s.witness # NONE => s.witness.tag = s.head[CTX].tag
    BY DEF Ref!Verify, Ref!HeadIsWitnessed
  <2> QED
    BY <2>1, <2>2, <2>3 DEF RowTag, S
<1> QED
  BY <1>4, <1>5, <1>6 DEF S

(* It serves no more records than the longest of its tags has links.         *)
LEMMA RefServesAtMost ==
    ASSUME kind \in RefKinds, NEW s, NEW b \in Nat, NEW n, Within(s, b, n), Verify(kind, s)
    PROVE  Len(ReadAll(kind, s)) \in Nat /\ Len(ReadAll(kind, s)) <= b
<1>1. ReadAll(kind, s) = RefRecords(s, CTX) /\ Ref!Verify(s)
  BY KindNames DEF RefKinds, ReadAll, Verify
<1>2. s \in Ref!Stores /\ CTX \in Ref!Ctxs
  BY DEF Within, Ref!Ctxs
<1>3. IsChain(Ref!Present(s, CTX), RowTag(s), RowLinkOf(s), Ref!Links)
  BY <1>1, <1>2, RefVerifyChain
<1>4. ASSUME NEW i \in Ref!Present(s, CTX) PROVE Len(RowTag(s)[i]) <= b
  <2>1. RowTag(s)[i] = s.rec[CTX][i].tag
    BY DEF RowTag
  <2> QED
    BY <1>2, <2>1 DEF Within, Ref!Present
<1>5. Cardinality(Ref!Present(s, CTX)) <= b
  BY <1>3, <1>4, ChainSize
<1> QED
  BY <1>1, <1>2, <1>5, RefReads

(* When it remembers its log, it serves the log.                             *)
LEMMA RefServesItsLog ==
    ASSUME kind \in RefKinds, NEW s \in Ref!Stores, Verify(kind, s), NEW log,
           IsLog(log, Ref!Links), s.witness # NONE, s.witness.tag = log
    PROVE  Payloads(ReadAll(kind, s)) = [k \in 1..Len(log) |-> log[k].content]
<1> DEFINE S == Ref!Present(s, CTX)
           records == RefRecords(s, CTX)
<1>1. ReadAll(kind, s) = records /\ Ref!Verify(s)
  BY KindNames DEF RefKinds, ReadAll, Verify
<1>2. CTX \in Ref!Ctxs /\ Len(log) \in Nat
  BY LenProperties DEF Ref!Ctxs, IsLog
<1>3. IsChain(S, RowTag(s), RowLinkOf(s), Ref!Links) /\ S # {} /\ RowTag(s)[Max(S)] = log
  BY <1>1, RefVerifyChain
<1>4. S = 0..(Len(log) - 1) /\ \A i \in S : RowLinkOf(s)[i] = log[i + 1]
  BY <1>3, ChainIsLog
<1>5. InSeqOrder(S) = [k \in 1..Len(log) |-> k - 1] /\ Cardinality(S) = Len(log)
  <2> DEFINE n == Len(log)
  <2>1. n \in Nat
    BY <1>2
  <2> HIDE DEF n
  <2>2. InSeqOrder(0..(n - 1)) = [k \in 1..n |-> k - 1] /\ Cardinality(0..(n - 1)) = n
    BY <2>1, OrderOfAll, FS_Interval
  <2>3. S = 0..(n - 1)
    BY <1>4 DEF n
  <2> QED
    BY <2>2, <2>3 DEF n
<1>6. /\ DOMAIN records = 1..Cardinality(S)
      /\ \A k \in 1..Cardinality(S) : /\ records[k].seq = InSeqOrder(S)[k]
                                      /\ records[k].fields = s.rec[CTX][records[k].seq]
                                      /\ records[k].payload = records[k].fields.content
  BY <1>2, RefReads
<1> HIDE DEF S, records
<1>7. ASSUME NEW k \in 1..Len(log) PROVE records[k].payload = log[k].content
  <2>1. records[k].seq = k - 1 /\ k - 1 \in S /\ (k - 1) + 1 = k
    BY <1>2, <1>4, <1>5, <1>6
  <2>2. records[k].payload = s.rec[CTX][k - 1].content
    BY <1>5, <1>6, <2>1
  <2>3. RowLinkOf(s)[k - 1].content = s.rec[CTX][k - 1].content
    BY <2>1 DEF RowLinkOf, S
  <2>4. RowLinkOf(s)[k - 1] = log[k]
    BY <1>4, <2>1
  <2> QED
    BY <2>2, <2>3, <2>4
<1> QED
  BY <1>1, <1>5, <1>6, <1>7 DEF Payloads

-----------------------------------------------------------------------------
(* A fresh target: what the engine finds before the first move.              *)

LEMMA SeedLogIsLog ==
    /\ IsLog(Ref!SeedLog(CTX), Ref!Links) /\ Len(Ref!SeedLog(CTX)) = SeedCount
    /\ CTX \in Ref!Ctxs
<1>1. CTX \in Ref!Ctxs
  BY DEF Ref!Ctxs
<1>2. /\ Ref!SeedLog(CTX) \in Seq(Ref!Links) /\ Len(Ref!SeedLog(CTX)) = SeedCount
      /\ \A i \in 1..SeedCount : Ref!SeedLog(CTX)[i].seq = i - 1
  BY <1>1, SeedLogType
<1> QED
  BY <1>1, <1>2 DEF IsLog

LEMMA RefFresh ==
    ASSUME kind \in RefKinds
    PROVE  /\ Within(Fresh, SeedCount, SeedCount)
           /\ Fresh.witness = [seq |-> SeedCount - 1, tag |-> Ref!SeedLog(CTX)]
           /\ Ref!Present(Fresh, CTX) = 0..(SeedCount - 1)
           /\ \A i \in 0..(SeedCount - 1) : Fresh.rec[CTX][i] = Ref!SeedRow(CTX, i)
<1> DEFINE empty == [rec |-> Ref!EmptyDisk.rec, head |-> Ref!EmptyDisk.head, witness |-> NONE]
<1>0. SeedCount \in Nat /\ MaxSeq \in Nat /\ SeedCount <= MaxSeq /\ Ref!Seqs = 0..MaxSeq
      /\ CTX \in Ref!Ctxs /\ SeedCount <= SeedCount
  BY ComposeAssumption DEF Ref!Seqs, Ref!Ctxs
<1>1. OnReference(kind) /\ ~OnOpenFang(kind) /\ ~OnVendor(kind)
  BY KindNames DEF RefKinds
<1>2. NewAdapter(kind, FALSE) = empty
  BY <1>1 DEF NewAdapter
<1>3. SetUp(kind, empty) = Ref!SetUp(empty)
  BY <1>1 DEF SetUp
<1> DEFINE start == Ref!SetUp(empty)
<1>4. empty \in Ref!Stores /\ Ref!EmptyDisk.rec \in Ref!Tables /\ Ref!EmptyDisk.head \in Ref!HeadTables
  BY DEF Ref!EmptyDisk, Ref!Stores, Ref!Tables, Ref!HeadTables
<1>5. Fresh = Ref!SeedCtx(start, CTX)
  <2>1. SetUp(kind, NewAdapter(kind, FALSE)) = start
    BY <1>2, <1>3
  <2> HIDE DEF start
  <2> QED
    BY <1>1, <2>1 DEF Fresh, SeedStore
<1> HIDE DEF empty
<1>6. start = [empty EXCEPT !.rec = Ref!EmptyDisk.rec, !.head = Ref!EmptyDisk.head]
  BY DEF Ref!SetUp
<1> HIDE DEF start
<1>7. start \in Ref!Stores /\ start.rec = Ref!EmptyDisk.rec
  BY <1>4, <1>6 DEF Ref!Stores
<1>t. \A c \in Ref!Ctxs, i \in Ref!Seqs : start.rec[c][i] = NONE
  BY <1>7 DEF Ref!EmptyDisk
<1>8. Within(start, SeedCount, SeedCount)
  BY <1>0, <1>7, <1>t DEF Within
<1>9. /\ Within(Fresh, SeedCount, SeedCount)
      /\ \A i \in Ref!Seqs : Fresh.rec[CTX][i] =
            IF i < SeedCount THEN Ref!SeedRow(CTX, i) ELSE start.rec[CTX][i]
  BY <1>0, <1>5, <1>8, RefSeed
<1>10. Fresh.witness = [seq |-> SeedCount - 1, tag |-> Ref!SeedLog(CTX)]
  BY <1>5 DEF Ref!SeedCtx, Ref!WitnessAfterSeed
<1>11. \A i \in Ref!Seqs : i < SeedCount => Ref!SeedRow(CTX, i) # NONE
  BY <1>0, SeedRowType
<1>12. \A i \in Ref!Seqs : Fresh.rec[CTX][i] # NONE <=> i < SeedCount
  BY <1>0, <1>t, <1>9, <1>11
<1>13. \A i : i \in Ref!Seqs /\ i < SeedCount <=> i \in 0..(SeedCount - 1)
  BY <1>0
<1>14. Ref!Present(Fresh, CTX) = 0..(SeedCount - 1)
  BY <1>12, <1>13 DEF Ref!Present
<1>15. \A i \in 0..(SeedCount - 1) : Fresh.rec[CTX][i] = Ref!SeedRow(CTX, i)
  BY <1>9, <1>13
<1> QED
  BY <1>9, <1>10, <1>14, <1>15

LEMMA RefFreshReads ==
    ASSUME kind \in RefKinds
    PROVE  LET records == ReadAll(kind, Fresh) IN
           /\ Len(records) = SeedCount /\ DOMAIN records = 1..SeedCount
           /\ \A k \in 1..SeedCount : records[k].payload = Ref!SeedLog(CTX)[k].content
<1> DEFINE S == Ref!Present(Fresh, CTX)
           records == RefRecords(Fresh, CTX)
<1>0. SeedCount \in Nat /\ CTX \in Ref!Ctxs
  BY ComposeAssumption DEF Ref!Ctxs
<1>1. ReadAll(kind, Fresh) = records
  BY KindNames DEF RefKinds, ReadAll
<1>2. /\ Fresh \in Ref!Stores /\ S = 0..(SeedCount - 1)
      /\ \A i \in 0..(SeedCount - 1) : Fresh.rec[CTX][i] = Ref!SeedRow(CTX, i)
  BY RefFresh DEF Within
<1>3. InSeqOrder(S) = [k \in 1..SeedCount |-> k - 1] /\ Cardinality(S) = SeedCount
  <2>1. InSeqOrder(0..(SeedCount - 1)) = [k \in 1..SeedCount |-> k - 1]
    BY <1>0, OrderOfAll
  <2>2. Cardinality(0..(SeedCount - 1)) = SeedCount
    BY <1>0, FS_Interval
  <2> QED
    BY <1>2, <2>1, <2>2
<1>4. /\ DOMAIN records = 1..Cardinality(S) /\ Len(records) = Cardinality(S)
      /\ \A k \in 1..Cardinality(S) : /\ records[k].seq = InSeqOrder(S)[k]
                                      /\ records[k].fields = Fresh.rec[CTX][records[k].seq]
                                      /\ records[k].payload = records[k].fields.content
  BY <1>0, <1>2, RefReads
<1> HIDE DEF records, S
<1>5. ASSUME NEW k \in 1..SeedCount
      PROVE  records[k].payload = Ref!SeedLog(CTX)[k].content
  <2>1. records[k].seq = k - 1 /\ k - 1 \in 0..(SeedCount - 1)
    BY <1>0, <1>3, <1>4
  <2>2. records[k].payload = Ref!SeedRow(CTX, k - 1).content
    BY <1>2, <1>3, <1>4, <2>1
  <2>3. Ref!SeedRow(CTX, k - 1).content = Ref!SeedContent(CTX, k - 1)
    BY DEF Ref!SeedRow
  <2>4. Ref!SeedLog(CTX)[k].content = Ref!SeedContent(CTX, k - 1)
    BY <1>0, SeedLogType
  <2> QED
    BY <2>2, <2>3, <2>4
<1> QED
  BY <1>1, <1>3, <1>4, <1>5

AuditKinds == {"openfang", "openfang_strict"}
OwnKinds == RefKinds \cup AuditKinds \cup {"plain"}

(* OpenFang, seeded: its rows are there, so it takes a write.                *)
LEMMA AuditFresh ==
    ASSUME kind \in AuditKinds
    PROVE  /\ Fresh # NONE /\ Grown(Fresh) # NONE
           /\ DOMAIN ReadAll(kind, Fresh) = 1..Len(ReadAll(kind, Fresh))
           /\ Len(ReadAll(kind, Fresh)) \in Nat
<1>0. SeedCount \in Nat /\ SeedCount # 0 /\ MaxSeq \in Nat /\ SeedCount + 1 <= MaxSeq
      /\ OF!Seqs = 0..MaxSeq
  BY ComposeAssumption DEF OF!Seqs
<1>1. ~OnReference(kind) /\ OnOpenFang(kind) /\ ~OnVendor(kind)
  BY KindNames DEF AuditKinds
<1> DEFINE start == SetUp(kind, NewAdapter(kind, FALSE))
           s == OF!SeedAudit(start)
<1>2. Fresh = s
  BY <1>1 DEF Fresh, SeedStore
<1>3. start = OF!EmptyAudit
  BY <1>1 DEF SetUp
<1> HIDE DEF start
<1>4. \A i \in OF!Seqs : start.rows[i] = NONE
  BY <1>3 DEF OF!EmptyAudit
<1>5. ASSUME NEW i \in OF!Seqs, NEW prev \in Seq(OF!Links), NEW k \in {"seed", "late"}
      PROVE  /\ OF!Entry(i, [kind |-> k, n |-> i, stamped |-> FALSE], prev) \in OF!AuditRows
             /\ OF!Entry(i, [kind |-> k, n |-> i, stamped |-> FALSE], prev).hash \in OF!Hashes
  <2> DEFINE body == [kind |-> k, n |-> i, stamped |-> FALSE]
             link == [seq |-> i, body |-> body]
  <2>1. body \in OF!Bodies
    BY DEF OF!Bodies
  <2> HIDE DEF body
  <2>2. link \in OF!Links
    BY <2>1 DEF OF!Links
  <2> HIDE DEF link
  <2>3. Append(prev, link) \in Seq(OF!Links)
    BY <2>2
  <2>4. OF!Entry(i, body, prev) = [body |-> body, prev |-> prev, hash |-> Append(prev, link)]
    BY DEF OF!Entry, OF!EntryHash, link
  <2> DEFINE hash == Append(prev, link)
  <2> HIDE DEF hash
  <2>5. hash \in OF!Hashes /\ prev \in OF!Hashes
    BY <2>3 DEF OF!Hashes, hash
  <2>6. OF!Entry(i, body, prev) = [body |-> body, prev |-> prev, hash |-> hash]
    BY <2>4 DEF hash
  <2>7. OF!Entry(i, body, prev) \in OF!AuditRows /\ OF!Entry(i, body, prev).hash \in OF!Hashes
    BY <2>1, <2>5, <2>6 DEF OF!AuditRows
  <2> QED
    BY <2>7 DEF body
<1>6. OF!SeedChain \in Seq(OF!Links) /\ Len(OF!SeedChain) = SeedCount
  <2>1. \A i \in 1..SeedCount : i - 1 \in OF!Seqs
    BY <1>0
  <2>2. OF!SeedChain \in [1..SeedCount -> OF!Links]
    BY <2>1 DEF OF!SeedChain, OF!Links, OF!Bodies, OF!SeedBody
  <2> QED
    BY <1>0, <2>2
<1>7. ASSUME NEW i \in OF!Seqs
      PROVE  OF!Entry(i, OF!SeedBody(i), SubSeq(OF!SeedChain, 1, i)) \in OF!AuditRows \/ ~(i < SeedCount)
  <2>1. CASE i < SeedCount
    <3>1. SubSeq(OF!SeedChain, 1, i) \in Seq(OF!Links)
      BY <1>0, <1>6, <2>1, SubSeqProperties
    <3> QED
      BY <1>5, <3>1 DEF OF!SeedBody
  <2> QED
    BY <2>1
<1> DEFINE rows == [i \in OF!Seqs |-> IF i < SeedCount
                              THEN OF!Entry(i, OF!SeedBody(i), SubSeq(OF!SeedChain, 1, i))
                              ELSE start.rows[i]]
<1>8. rows \in [OF!Seqs -> OF!AuditRows \cup {NONE}]
  BY <1>4, <1>7
<1>9. \A i \in OF!Seqs : rows[i] # NONE <=> i < SeedCount
  BY <1>4, <1>7, NoneAssumption
<1>10. s = [rows |-> rows, tip |-> OF!SeedChain]
  BY DEF OF!SeedAudit
<1> HIDE DEF rows, s
<1>11. s \in OF!AuditStores /\ s.rows = rows
  BY <1>6, <1>8, <1>10 DEF OF!AuditStores, OF!Hashes
<1>12. OF!Present(s) = {i \in OF!Seqs : i < SeedCount}
  BY <1>9, <1>11 DEF OF!Present
<1>13. 0 \in OF!Present(s) /\ OF!Present(s) \subseteq Numbers /\ OF!Present(s) # {}
  BY <1>0, <1>12, SeqsAreNumbers
<1> DEFINE last == OF!LastSeq(s)
           m == last + 1
           row == OF!Entry(m, OF!LateBody(m), s.rows[last].hash)
<1>14. last \in OF!Present(s)
  <2>1. last = Max(OF!Present(s))
    BY DEF OF!LastSeq, OF!Max, Max
  <2> QED
    BY <1>13, <2>1, MaxOfNumbers
<1> HIDE DEF last
<1>15. last \in OF!Seqs /\ m \in OF!Seqs
  BY <1>0, <1>12, <1>14
<1>16. s.rows[last].hash \in Seq(OF!Links)
  <2>1. s.rows[last] \in OF!AuditRows
    BY <1>8, <1>9, <1>11, <1>12, <1>14, <1>15
  <2> QED
    BY <2>1 DEF OF!AuditRows, OF!Hashes
<1>17. row \in OF!AuditRows /\ row.hash \in OF!Hashes
  BY <1>5, <1>15, <1>16 DEF OF!LateBody
<1>18. OF!AppendAudit(s) = [rows |-> [s.rows EXCEPT ![m] = row], tip |-> row.hash]
  BY DEF OF!AppendAudit, last
<1> HIDE DEF row, m
<1>19. OF!AppendAudit(s) \in OF!AuditStores
  BY <1>11, <1>15, <1>17, <1>18 DEF OF!AuditStores
<1>20. s # NONE /\ OF!AppendAudit(s) # NONE
  BY <1>11, <1>19, NoneAssumption
<1>21. Grown(s) = OF!AppendAudit(s)
  <2> DEFINE call == Call("append")
  <2>1. call.op = "append"
    BY DEF Call
  <2> HIDE DEF call
  <2>2. Refused(kind, s, call, <<>>) = ~OF!CanAppend(s)
    BY <1>1, <2>1 DEF Refused
  <2>3. OF!CanAppend(s)
    BY <1>13 DEF OF!CanAppend
  <2>4. Effect(kind, s, call, <<>>) = AuditEffect(kind, s, call, <<>>)
    BY <1>1 DEF Effect
  <2>5. AuditEffect(kind, s, call, <<>>) = OF!AppendAudit(s)
    BY <2>1 DEF AuditEffect
  <2> QED
    BY <1>20, <2>2, <2>3, <2>4, <2>5 DEF Grown, After, call
<1>22. DOMAIN ReadAll(kind, s) = 1..Len(ReadAll(kind, s)) /\ Len(ReadAll(kind, s)) \in Nat
  <2>1. ReadAll(kind, s) = AuditRecords(s)
    BY <1>1 DEF ReadAll
  <2> DEFINE size == Cardinality(OF!Present(s))
             order == InSeqOrder(OF!Present(s))
  <2>2. size \in Nat
    BY <1>13, NumbersFinite
  <2>3. DOMAIN order = 1..size
    BY DEF InSeqOrder
  <2> HIDE DEF size, order
  <2>4. AuditRecords(s) = [k \in 1..size |->
            [seq |-> order[k], id |-> order[k], payload |-> s.rows[order[k]].body,
             owner |-> "none", fields |-> s.rows[order[k]]]]
    BY <2>3 DEF AuditRecords, order
  <2> QED
    BY <2>1, <2>2, <2>4
<1> QED
  BY <1>2, <1>20, <1>21, <1>22

LEMMA GrowType ==
    ASSUME NEW s \in Plain!Tables, NEW from \in {"a", "late"}, NEW n \in Nat
    PROVE  Plain!Grow(s, CTX, from, n) \in Plain!Tables
<1> DEFINE new == [i \in 1..n |-> Plain!PlainRow(s.next + i - 1, CTX, Plain!Text(from, i - 1))]
<1>1. s.next \in Nat /\ s.rows \in Seq(Plain!PlainRows)
  BY DEF Plain!Tables
<1>2. ASSUME NEW i \in 1..n
      PROVE  Plain!PlainRow(s.next + i - 1, CTX, Plain!Text(from, i - 1)) \in Plain!PlainRows
  <2>1. s.next + i - 1 \in Nat /\ i - 1 \in Nat
    BY <1>1
  <2>2. Plain!Text(from, i - 1) \in Plain!Texts
    BY <2>1 DEF Plain!Text, Plain!Texts
  <2> DEFINE id == s.next + i - 1
             text == Plain!Text(from, i - 1)
  <2> HIDE DEF id, text
  <2>3. Plain!PlainRow(id, CTX, text) \in Plain!PlainRows
    BY <2>1, <2>2 DEF Plain!PlainRow, Plain!PlainRows, id, text
  <2> QED
    BY <2>3 DEF id, text
<1>3. new \in [1..n -> Plain!PlainRows]
  BY <1>2
<1>4. new \in Seq(Plain!PlainRows)
  BY <1>3
<1>5. Plain!Grow(s, CTX, from, n) = [s EXCEPT !.rows = s.rows \o new, !.next = s.next + n]
  BY DEF Plain!Grow
<1> HIDE DEF new
<1>6. s.rows \o new \in Seq(Plain!PlainRows) /\ s.next + n \in Nat
  BY <1>1, <1>4, ConcatProperties
<1> QED
  BY <1>5, <1>6 DEF Plain!Tables

LEMMA PlainFresh ==
    ASSUME kind = "plain"
    PROVE  /\ Fresh # NONE /\ Grown(Fresh) # NONE
           /\ DOMAIN ReadAll(kind, Fresh) = 1..Len(ReadAll(kind, Fresh))
           /\ Len(ReadAll(kind, Fresh)) \in Nat
<1>0. SeedCount \in Nat
  BY ComposeAssumption
<1>1. ~OnReference(kind) /\ ~OnOpenFang(kind) /\ ~OnVendor(kind)
  BY KindNames
<1> DEFINE start == SetUp(kind, NewAdapter(kind, FALSE))
<1>2. start = Plain!EmptyTable(FALSE)
  <2>1. NewAdapter(kind, FALSE) = Plain!EmptyTable(FALSE)
    BY <1>1 DEF NewAdapter
  <2>2. Plain!EmptyTable(FALSE).readsAll = FALSE
    BY DEF Plain!EmptyTable
  <2> DEFINE new == NewAdapter(kind, FALSE)
  <2>3. new.readsAll = FALSE
    BY <2>1, <2>2
  <2> HIDE DEF new
  <2>4. SetUp(kind, new) = Plain!EmptyTable(new.readsAll)
    BY <1>1 DEF SetUp
  <2> QED
    BY <2>3, <2>4 DEF new
<1> HIDE DEF start
<1>3. start \in Plain!Tables
  <2>1. <<>> \in Seq(Plain!PlainRows)
    OBVIOUS
  <2> QED
    BY <1>2, <2>1 DEF Plain!EmptyTable, Plain!Tables
<1>4. Fresh = Plain!Grow(start, CTX, "a", SeedCount)
  BY <1>1 DEF Fresh, SeedStore, Plain!SeedTable, start
<1>5. Fresh \in Plain!Tables
  BY <1>0, <1>3, <1>4, GrowType
<1>6. Plain!AppendTable(Fresh) \in Plain!Tables
  BY <1>5, GrowType DEF Plain!AppendTable
<1>7. Fresh # NONE /\ Plain!AppendTable(Fresh) # NONE
  BY <1>5, <1>6, NoneAssumption
<1>8. Grown(Fresh) = Plain!AppendTable(Fresh)
  <2> DEFINE call == Call("append")
  <2>1. call.op = "append"
    BY DEF Call
  <2> HIDE DEF call
  <2>2. ~Refused(kind, Fresh, call, <<>>)
    BY <1>1, <2>1 DEF Refused
  <2>3. Effect(kind, Fresh, call, <<>>) = PlainEffect(kind, Fresh, call, <<>>)
    BY <1>1 DEF Effect
  <2>4. PlainEffect(kind, Fresh, call, <<>>) = Plain!AppendTable(Fresh)
    BY <2>1 DEF PlainEffect
  <2> QED
    BY <1>7, <2>2, <2>3, <2>4 DEF Grown, After, call
<1>9. DOMAIN ReadAll(kind, Fresh) = 1..Len(ReadAll(kind, Fresh)) /\ Len(ReadAll(kind, Fresh)) \in Nat
  <2> DEFINE rows == Plain!ReadTable(Fresh)
             s == Fresh
  <2>1. ReadAll(kind, Fresh) = PlainRecords(rows)
    BY <1>1 DEF ReadAll
  <2>2. \E n \in Nat : DOMAIN rows = 1..n
    <3>1. s.rows \in Seq(Plain!PlainRows)
      BY <1>5 DEF Plain!Tables
    <3>2. DOMAIN s.rows = 1..Len(s.rows) /\ Len(s.rows) \in Nat
      BY <3>1, LenProperties
    <3> DEFINE here == {i \in DOMAIN s.rows : s.rows[i].owner = CTX}
               size == Cardinality(here)
    <3> HIDE DEF s
    <3>3. IsFiniteSet(1..Len(s.rows)) /\ here \subseteq 1..Len(s.rows)
      BY <3>2, FS_Interval
    <3>4. size \in Nat
      BY <3>3, FS_Subset, FS_CardinalityType
    <3>5. Plain!Places(s, CTX)
            = [k \in 1..size |-> CHOOSE i \in here : Cardinality({j \in here : j < i}) = k - 1]
      BY DEF Plain!Places, Plain!Cardinality, Cardinality, Plain!IsFiniteSet, IsFiniteSet
    <3> HIDE DEF here, size
    <3>6. DOMAIN Plain!Places(s, CTX) = 1..size
      BY <3>5
    <3>7. Len(Plain!Places(s, CTX)) = size
      BY <3>4, <3>6
    <3>8. DOMAIN Plain!ViewOf(s, CTX) = 1..size
      BY <3>7 DEF Plain!ViewOf
    <3>9. Plain!ReadTable(s) = s.rows \/ Plain!ReadTable(s) = Plain!ViewOf(s, CTX)
      BY DEF Plain!ReadTable
    <3>10. \E n \in Nat : DOMAIN Plain!ReadTable(s) = 1..n
      BY <3>2, <3>4, <3>8, <3>9
    <3> QED
      BY <3>10 DEF s
  <2> HIDE DEF rows
  <2>3. PICK n \in Nat : DOMAIN rows = 1..n
    BY <2>2
  <2>4. DOMAIN PlainRecords(rows) = 1..n
    BY <2>3 DEF PlainRecords
  <2>5. Len(PlainRecords(rows)) = n
    BY <2>3, <2>4
  <2> QED
    BY <2>1, <2>4, <2>5
<1> QED
  BY <1>7, <1>8, <1>9

LEMMA FreshReads ==
    ASSUME kind \in OwnKinds
    PROVE  /\ DOMAIN ReadAll(kind, Fresh) = 1..Len(ReadAll(kind, Fresh))
           /\ Len(ReadAll(kind, Fresh)) \in Nat
           /\ kind \in RefKinds => Len(ReadAll(kind, Fresh)) = SeedCount
<1>0. SeedCount \in Nat
  BY ComposeAssumption
<1>1. kind \in AuditKinds \cup {"plain"} => kind \notin RefKinds
  BY DEF AuditKinds, RefKinds
<1> QED
  BY <1>0, <1>1, RefFreshReads, AuditFresh, PlainFresh DEF OwnKinds

(* The rollback move alone, on a target that keeps nothing outside its file:  *)
(* everything comes back.                                                    *)
LEMMA RollbackUndone ==
    ASSUME kind \in OwnKinds, kind \notin RefKinds
    PROVE  Apply(Fresh, "rollback") = Fresh /\ Fresh # NONE
<1>1. kind \in AuditKinds \/ kind = "plain"
  BY DEF OwnKinds
<1>2. ~OnReference(kind) /\ ~OnVendor(kind)
  BY <1>1, KindNames DEF AuditKinds
<1>3. Fresh # NONE /\ Grown(Fresh) # NONE
  BY <1>1, AuditFresh, PlainFresh
<1>4. Restore(kind, Grown(Fresh), Snapshot(kind, Fresh)) = Fresh
  BY <1>2 DEF Restore, Snapshot
<1> QED
  BY <1>3, <1>4, ApplyIs

-----------------------------------------------------------------------------
(***************************************************************************)
(* What is true of a sequence between any two of its moves.                  *)
(***************************************************************************)
Done == Len(moves) - Len(left)
Tally(m) == Count(moves, Done, m)

(* The API acknowledged the seed, and a record for every write and rollback;  *)
(* a sequence lands when it is over, on a verified target.                   *)
Kept ==
    moves # <<>> =>
        /\ genuine = ReadAll(kind, Fresh)
        /\ Verify(kind, Fresh)
        /\ \E S : acked \in Seq(S)
        /\ Len(acked) = Len(genuine) + Tally("write") + Tally("rollback")
        /\ \A i \in 1..Len(genuine) : acked[i] = genuine[i].payload
        /\ verdict = TRUE => left = <<>> /\ Verify(kind, store) /\ (PrefixChanged \/ RolledBack)

(* On the reference store only a write makes a longer tag. *)
TagsKept ==
    moves # <<>> /\ kind \in RefKinds =>
        Within(store, SeedCount + Tally("write"), SeedCount + Done)

LEMMA SameVerdict ==
    ASSUME UNCHANGED <<kind, moves, left, store, genuine>>
    PROVE  /\ (PrefixChanged \/ RolledBack)' = (PrefixChanged \/ RolledBack)
           /\ Fresh' = Fresh /\ Verify(kind, store)' = Verify(kind, store)
           /\ Done' = Done /\ Tally("write")' = Tally("write") /\ Tally("rollback")' = Tally("rollback")
<1>1. Served' = Served /\ Seeded' = Seeded /\ Writes' = Writes
  BY DEF Served, Seeded, Writes, Payloads
<1>2. PrefixChanged' = PrefixChanged /\ RolledBack' = RolledBack
  BY <1>1 DEF PrefixChanged, RolledBack
<1>3. Fresh' = Fresh /\ Done' = Done
  BY DEF Fresh, Done
<1> QED
  BY <1>2, <1>3 DEF Tally

LEMMA SameKept ==
    ASSUME Kept, TagsKept, UNCHANGED <<kind, moves, left, store, genuine, acked>>,
           verdict' = TRUE => verdict = TRUE
    PROVE  Kept' /\ TagsKept'
<1>1. /\ (PrefixChanged \/ RolledBack)' = (PrefixChanged \/ RolledBack)
      /\ Fresh' = Fresh /\ Verify(kind, store)' = Verify(kind, store)
      /\ Done' = Done /\ Tally("write")' = Tally("write") /\ Tally("rollback")' = Tally("rollback")
  BY SameVerdict
<1>2. Kept'
  BY <1>1 DEF Kept
<1>3. TagsKept'
  BY <1>1 DEF TagsKept
<1> QED
  BY <1>2, <1>3

LEMMA BeginKept ==
    ASSUME kind \in OwnKinds, NEW combo \in Seq(Moves), combo # <<>>, Begin(combo)
    PROVE  Kept' /\ TagsKept'
<1>0. /\ moves' = combo /\ left' = combo /\ store' = Fresh /\ Verify(kind, Fresh)
      /\ genuine' = ReadAll(kind, Fresh) /\ acked' = Payloads(genuine') /\ verdict' = NONE /\ kind' = kind
  <2>1. /\ moves' = combo /\ left' = combo /\ store' = Fresh /\ Verify(kind, store')
        /\ genuine' = ReadAll(kind, store') /\ acked' = Payloads(genuine') /\ verdict' = NONE
        /\ kind' = kind
    BY DEF Begin
  <2> QED
    BY <2>1
<1>1. Fresh' = Fresh
  BY <1>0 DEF Fresh
<1>2. Done' = 0
  <2>1. Len(combo) \in Nat
    BY LenProperties
  <2> QED
    BY <1>0, <2>1 DEF Done
<1>3. Tally("write")' = 0 /\ Tally("rollback")' = 0
  BY <1>2, CountSteps DEF Tally
<1>4. DOMAIN genuine' = 1..Len(genuine') /\ Len(genuine') \in Nat
  BY <1>0, FreshReads
<1> DEFINE n == Len(genuine')
           S == {genuine'[i].payload : i \in 1..n}
<1>5. acked' = [i \in 1..n |-> genuine'[i].payload]
  BY <1>0, <1>4 DEF Payloads
<1>6. acked' \in [1..n -> S]
  BY <1>5
<1>7. acked' \in Seq(S) /\ Len(acked') = n /\ \A i \in 1..n : acked'[i] = genuine'[i].payload
  BY <1>4, <1>5, <1>6
<1>8. verdict' # TRUE
  BY <1>0, NoneAssumption
<1>9. Kept'
  <2>1. genuine' = ReadAll(kind', Fresh') /\ Verify(kind', Fresh')
    BY <1>0, <1>1
  <2>2. \E T : acked' \in Seq(T)
    BY <1>7
  <2>3. Len(acked') = Len(genuine') + Tally("write")' + Tally("rollback")'
    BY <1>3, <1>4, <1>7
  <2> QED
    BY <1>7, <1>8, <2>1, <2>2, <2>3 DEF Kept
<1>10. TagsKept'
  <2>1. kind' \in RefKinds => Within(store', SeedCount, SeedCount)
    BY <1>0, RefFresh
  <2>2. SeedCount + Tally("write")' = SeedCount /\ SeedCount + Done' = SeedCount
    BY <1>2, <1>3, ComposeAssumption
  <2> QED
    BY <2>1, <2>2 DEF TagsKept
<1> QED
  BY <1>9, <1>10

(* A move counts once, and is acknowledged once if the API took a record.    *)
LEMMA MoveCounts ==
    ASSUME Ahead, left # <<>>, left' = Tail(left), moves' = moves
    PROVE  /\ Done \in Nat /\ Done' = Done + 1 /\ Done + 1 <= Len(moves) /\ Len(moves) \in Nat
           /\ Head(left) \in Moves /\ Head(left) = moves[Done + 1]
           /\ \A m : /\ Tally(m) \in Nat
                     /\ Count(moves, Done + 1, m) = Tally(m) + (IF Head(left) = m THEN 1 ELSE 0)
           /\ Ahead' /\ moves # <<>>
<1>1. /\ Ahead' /\ Len(left') = Len(left) - 1 /\ Len(left) \in Nat /\ Len(moves) \in Nat
      /\ Head(left) \in Moves /\ Head(left) = moves[Len(moves) - Len(left) + 1]
  BY MoveAhead
<1>2. Len(left) # 0 /\ Len(left) <= Len(moves)
  BY EmptySeq DEF Ahead
<1>3. Done \in Nat /\ Done' = Done + 1 /\ Done + 1 <= Len(moves)
  BY <1>1, <1>2 DEF Done
<1>4. Head(left) = moves[Done + 1]
  BY <1>1 DEF Done
<1>5. \A m : /\ Tally(m) \in Nat
             /\ Count(moves, Done + 1, m) = Tally(m) + (IF Head(left) = m THEN 1 ELSE 0)
  <2> SUFFICES ASSUME NEW m
      PROVE  /\ Tally(m) \in Nat
             /\ Count(moves, Done + 1, m) = Tally(m) + (IF Head(left) = m THEN 1 ELSE 0)
    OBVIOUS
  <2> DEFINE k == Done
  <2>1. k \in Nat
    BY <1>3
  <2> HIDE DEF k
  <2>2. /\ Count(moves, k, m) \in Nat
        /\ moves[k + 1] = m => Count(moves, k + 1, m) = Count(moves, k, m) + 1
        /\ moves[k + 1] # m => Count(moves, k + 1, m) = Count(moves, k, m)
    BY <2>1, CountSteps, Zenon
  <2> QED
    BY <1>4, <2>2 DEF Tally, k
<1>6. moves # <<>>
  BY <1>1, <1>2, EmptySeq
<1> QED
  BY <1>1, <1>3, <1>4, <1>5, <1>6

LEMMA MoveKept ==
    ASSUME kind \in OwnKinds, Ahead, Kept, TagsKept, Move
    PROVE  Kept' /\ TagsKept'
<1> DEFINE move == Head(left)
           next == Apply(store, move)
<1>0. /\ left # <<>> /\ left' = Tail(left) /\ moves' = moves /\ kind' = kind /\ genuine' = genuine
      /\ store' = next /\ next # NONE /\ acked' = acked \o Acknowledged(store, move)
      /\ verdict' = verdict /\ verdict = NONE
  BY DEF Move, Running
<1>1. /\ Done \in Nat /\ Done' = Done + 1 /\ Done + 1 <= Len(moves) /\ Len(moves) \in Nat
      /\ move \in Moves /\ moves # <<>>
      /\ \A m : /\ Tally(m) \in Nat
                /\ Count(moves, Done + 1, m) = Tally(m) + (IF move = m THEN 1 ELSE 0)
  BY <1>0, MoveCounts
<1>2. /\ Tally("write")' = Tally("write") + (IF move = "write" THEN 1 ELSE 0)
      /\ Tally("rollback")' = Tally("rollback") + (IF move = "rollback" THEN 1 ELSE 0)
      /\ Tally("write") \in Nat /\ Tally("rollback") \in Nat
  BY <1>0, <1>1 DEF Tally
<1>3. Fresh' = Fresh
  BY <1>0 DEF Fresh
<1>k. /\ genuine = ReadAll(kind, Fresh) /\ Verify(kind, Fresh)
      /\ Len(acked) = Len(genuine) + Tally("write") + Tally("rollback")
      /\ \A i \in 1..Len(genuine) : acked[i] = genuine[i].payload
      /\ Len(genuine) \in Nat
  BY <1>1, FreshReads DEF Kept
<1> HIDE DEF move, next
<1>4. PICK S : acked \in Seq(S)
  BY <1>1 DEF Kept
<1>5. /\ \E T : acked' \in Seq(T)
      /\ Len(acked') = Len(acked) + (IF move \in {"write", "rollback"} THEN 1 ELSE 0)
      /\ \A i \in 1..Len(acked) : acked'[i] = acked[i]
      /\ Len(acked) \in Nat
  <2>1. CASE move \in {"write", "rollback"}
    <3> DEFINE x == Last(ReadAll(kind, Grown(store))).payload
    <3>1. acked' = acked \o <<x>>
      BY <1>0, <2>1 DEF Acknowledged
    <3> HIDE DEF x
    <3>2. /\ acked \o <<x>> \in Seq(S \cup {x})
          /\ Len(acked) \in Nat /\ Len(acked \o <<x>>) = Len(acked) + 1
          /\ \A k \in 1..Len(acked) : (acked \o <<x>>)[k] = acked[k]
      BY <1>4, OneAcknowledged
    <3>3. \E T : acked' \in Seq(T)
      BY <3>1, <3>2
    <3> QED
      BY <2>1, <3>1, <3>2, <3>3
  <2>2. CASE move \notin {"write", "rollback"}
    <3>1. acked' = acked \o <<>>
      BY <1>0, <2>2 DEF Acknowledged
    <3>2. acked' = acked
      BY <1>4, <3>1, ConcatEmptySeq
    <3>3. Len(acked) \in Nat
      BY <1>4, LenProperties
    <3> QED
      BY <1>4, <2>2, <3>2, <3>3
  <2> QED
    BY <2>1, <2>2
<1>6. Len(acked') = Len(genuine') + Tally("write")' + Tally("rollback")'
  <2>1. CASE move = "write"
    BY <1>0, <1>2, <1>k, <1>5, <2>1
  <2>2. CASE move = "rollback"
    BY <1>0, <1>2, <1>k, <1>5, <2>2
  <2>3. CASE move # "write" /\ move # "rollback"
    BY <1>0, <1>2, <1>k, <1>5, <2>3
  <2> QED
    BY <2>1, <2>2, <2>3
<1>7. \A i \in 1..Len(genuine') : acked'[i] = genuine'[i].payload
  <2>1. \A i \in 1..Len(genuine) : i \in 1..Len(acked)
    BY <1>2, <1>k, <1>5
  <2> QED
    BY <1>0, <1>k, <1>5, <2>1
<1>8. verdict' # TRUE
  BY <1>0, NoneAssumption
<1>9. Kept'
  <2>1. genuine' = ReadAll(kind', Fresh') /\ Verify(kind', Fresh')
    BY <1>0, <1>3, <1>k
  <2> QED
    BY <1>5, <1>6, <1>7, <1>8, <2>1 DEF Kept
<1>10. TagsKept'
  <2> SUFFICES ASSUME kind \in RefKinds
      PROVE Within(store', SeedCount + Tally("write")', SeedCount + Done')
    BY <1>0 DEF TagsKept
  <2> DEFINE b == SeedCount + Tally("write")
             n == SeedCount + Done
  <2>1. b \in Nat /\ n \in Nat /\ SeedCount <= b /\ SeedCount <= n /\ n <= MaxSeq
    BY <1>1, <1>2, ComposeAssumption DEF Ahead
  <2>2. Within(store, b, n)
    BY <1>1 DEF TagsKept
  <2> HIDE DEF b, n
  <2>3. Within(next, b + Bump(move), n + 1)
    BY <1>0, <1>1, <2>1, <2>2, RefMove DEF next
  <2>4. b + Bump(move) = SeedCount + Tally("write")' /\ n + 1 = SeedCount + Done'
    <3>1. SeedCount \in Nat
      BY ComposeAssumption
    <3>2. CASE move = "write"
      BY <1>1, <1>2, <3>1, <3>2 DEF Bump, b, n
    <3>3. CASE move # "write"
      BY <1>1, <1>2, <3>1, <3>3 DEF Bump, b, n
    <3> QED
      BY <3>2, <3>3
  <2> QED
    BY <1>0, <2>3, <2>4
<1> QED
  BY <1>9, <1>10

(***************************************************************************)
(* A target that keeps nothing outside its file comes back whole when the    *)
(* rollback move is made alone, so that move lands alone there, and no       *)
(* longer sequence that holds it is searched.                                *)
(***************************************************************************)
RollbackAlone ==
    /\ Len(moves) = 1 => moves[1] = MoveOrder[single]
    /\ kind \notin RefKinds =>
         /\ moves = <<"rollback">> => store = Fresh /\ verdict # FALSE
         /\ single > 3 \/ (single = 3 /\ moves = <<>>) => "rollback" \in landsAlone

LandInv == SearchInv /\ Kept /\ TagsKept /\ RollbackAlone

LEMMA OneLong ==
    ASSUME NEW q \in Seq(Moves), Len(q) = 1
    PROVE  q = <<q[1]>>
OBVIOUS

LEMMA RollbackOnly ==
    ASSUME Ahead, moves = <<"rollback">>, left # <<>>
    PROVE  Head(left) = "rollback"
<1>1. /\ left \in Seq(Moves) /\ Len(left) \in Nat /\ Len(left) # 0 /\ Len(left) <= 1
      /\ Len(moves) = 1 /\ moves[1] = "rollback"
  BY LenProperties, EmptySeq DEF Ahead
<1>2. Len(left) = 1
  BY <1>1
<1>3. left[1] = moves[1 - 1 + 1]
  BY <1>1, <1>2 DEF Ahead
<1>4. Head(left) = left[1]
  BY <1>1, HeadTailProperties
<1> QED
  BY <1>1, <1>3, <1>4

LEMMA RollbackLandsAlone ==
    ASSUME kind \in OwnKinds, kind \notin RefKinds, Kept, moves = <<"rollback">>, store = Fresh, Judge
    PROVE  verdict' = TRUE
<1>1. genuine = ReadAll(kind, Fresh) /\ Verify(kind, Fresh)
  BY DEF Kept
<1>2. Served = Seeded
  BY <1>1 DEF Served, Seeded
<1>3. Len(Seeded) \in Nat
  <2>1. DOMAIN genuine = 1..Len(genuine) /\ Len(genuine) \in Nat
    BY <1>1, FreshReads
  <2>2. Seeded = [i \in 1..Len(genuine) |-> genuine[i].payload]
    BY <2>1 DEF Seeded, Payloads
  <2>3. Len(Seeded) = Len(genuine)
    BY <2>1, <2>2
  <2> QED
    BY <2>1, <2>3
<1>4. "rollback" \in Range(moves)
  <2>1. 1 \in DOMAIN moves /\ moves[1] = "rollback"
    OBVIOUS
  <2> QED
    BY <2>1 DEF Range
<1>5. RolledBack
  BY <1>2, <1>3, <1>4 DEF RolledBack
<1>6. Verify(kind, store)
  BY <1>1
<1> QED
  BY <1>5, <1>6 DEF Judge

LEMMA InitLands == Init => LandInv
<1> SUFFICES ASSUME Init PROVE LandInv
  OBVIOUS
<1>1. moves = <<>> /\ single = 0 /\ Len(<<>>) = 0
  BY DEF Init
<1>2. Kept /\ TagsKept /\ RollbackAlone
  BY <1>1 DEF Kept, TagsKept, RollbackAlone
<1> QED
  BY <1>2, InitSearch DEF LandInv

LEMMA AloneStep ==
    ASSUME kind \in OwnKinds, SearchInv, Kept, RollbackAlone, [Next]_vars
    PROVE  RollbackAlone'
<1>0. /\ moves \in Seq(Moves) /\ Len(moves) \in Nat /\ single \in 0..11 /\ Ahead
      /\ moves = <<>> => verdict = NONE
  BY LenProperties DEF SearchInv, Ahead
<1>a. /\ Len(moves) = 1 => moves[1] = MoveOrder[single]
      /\ kind \notin RefKinds =>
           /\ moves = <<"rollback">> => store = Fresh /\ verdict # FALSE
           /\ single > 3 \/ (single = 3 /\ moves = <<>>) => "rollback" \in landsAlone
  BY DEF RollbackAlone
<1>n. NONE # FALSE /\ NONE # TRUE
  BY NoneAssumption
<1>r. Len(<<"rollback">>) = 1 /\ Len(<<>>) = 0 /\ <<"rollback">> # <<>>
  OBVIOUS
<1>b. ASSUME NEW combo, Begin(combo) PROVE
      /\ moves' = combo /\ store' = Fresh /\ Fresh' = Fresh /\ verdict' = NONE /\ kind' = kind
      /\ landsAlone' = landsAlone
  <2>1. kind' = kind
    BY <1>b DEF Begin
  <2>2. Fresh' = Fresh
    BY <2>1 DEF Fresh
  <2> QED
    BY <1>b, <2>1, <2>2 DEF Begin
<1>1. CASE RunAlone
  <2> DEFINE m == MoveOrder[single + 1]
  <2>1. Begin(<<m>>) /\ single' = single + 1 /\ moves = <<>>
    BY <1>1 DEF RunAlone
  <2>2. <<m>>[1] = m /\ <<m>> # <<>>
    OBVIOUS
  <2>3. m = MoveOrder[single']
    BY <2>1
  <2> HIDE DEF m
  <2>4. single' > 3 => single > 3 \/ single = 3
    BY <1>0, <2>1
  <2> QED
    BY <1>a, <1>b, <1>n, <2>1, <2>2, <2>3, <2>4 DEF RollbackAlone
<1>2. CASE RunSequence
  <2>1. PICK n \in 2..MaxLen : \E combo \in [1..n -> Moves] : Searched(combo) /\ Begin(combo)
    BY <1>2 DEF RunSequence
  <2>2. PICK combo \in [1..n -> Moves] : Begin(combo)
    BY <2>1
  <2>3. Len(combo) # 1 /\ combo # <<>> /\ combo # <<"rollback">>
    <3>1. Len(combo) = n /\ n # 1 /\ n # 0
      BY SequencesOf
    <3> QED
      BY <1>r, <3>1
  <2>4. single' = single
    BY <1>2 DEF RunSequence
  <2> QED
    BY <1>a, <1>b, <2>2, <2>3, <2>4 DEF RollbackAlone
<1>3. CASE Move
  <2>1. /\ left # <<>> /\ moves' = moves /\ kind' = kind /\ single' = single /\ verdict' = verdict
        /\ landsAlone' = landsAlone /\ store' = Apply(store, Head(left))
    BY <1>3 DEF Move
  <2>2. Fresh' = Fresh
    BY <2>1 DEF Fresh
  <2>3. kind \notin RefKinds /\ moves = <<"rollback">> => store' = Fresh
    BY <1>0, <1>a, <2>1, RollbackOnly, RollbackUndone
  <2> QED
    BY <1>a, <2>1, <2>2, <2>3 DEF RollbackAlone
<1>4. CASE MoveRefused
  <2>1. /\ left # <<>> /\ UNCHANGED <<kind, single, landsAlone, moves, store>>
        /\ Apply(store, Head(left)) = NONE
    BY <1>4 DEF MoveRefused
  <2>2. Fresh' = Fresh
    BY <2>1 DEF Fresh
  <2>3. kind \notin RefKinds => moves # <<"rollback">>
    BY <1>0, <1>a, <2>1, RollbackOnly, RollbackUndone
  <2> QED
    BY <1>a, <2>1, <2>2, <2>3 DEF RollbackAlone
<1>5. CASE Judge
  <2>1. UNCHANGED <<kind, single, landsAlone, moves, store>>
    BY <1>5 DEF Judge
  <2>2. Fresh' = Fresh
    BY <2>1 DEF Fresh
  <2>3. kind \notin RefKinds /\ moves = <<"rollback">> => verdict' = TRUE
    BY <1>5, <1>a, RollbackLandsAlone
  <2> QED
    BY <1>a, <2>1, <2>2, <2>3 DEF RollbackAlone
<1>6. CASE ReportAlone
  <2>1. /\ moves' = <<>> /\ kind' = kind /\ single' = single
        /\ verdict # NONE /\ Len(moves) = 1
        /\ landsAlone' = IF verdict THEN landsAlone \cup {moves[1]} ELSE landsAlone
    BY <1>6 DEF ReportAlone
  <2>2. landsAlone \subseteq landsAlone'
    BY <2>1
  <2>3. kind \notin RefKinds /\ single = 3 => "rollback" \in landsAlone'
    <3> SUFFICES ASSUME kind \notin RefKinds, single = 3 PROVE "rollback" \in landsAlone'
      OBVIOUS
    <3>1. moves[1] = "rollback"
      BY <1>a, <2>1 DEF MoveOrder
    <3>2. moves = <<"rollback">>
      BY <1>0, <2>1, <3>1, OneLong
    <3>3. verdict = TRUE
      BY <1>a, <2>1, <3>2 DEF SearchInv
    <3> QED
      BY <2>1, <3>1, <3>3
  <2>4. Len(moves') # 1 /\ moves' # <<"rollback">>
    BY <1>r, <2>1
  <2>5. kind' \notin RefKinds /\ (single' > 3 \/ (single' = 3 /\ moves' = <<>>)) => "rollback" \in landsAlone'
    <3>1. moves # <<>>
      BY <1>r, <2>1
    <3>2. single > 3 /\ kind \notin RefKinds => "rollback" \in landsAlone
      BY <1>a
    <3>3. single > 3 /\ kind \notin RefKinds => "rollback" \in landsAlone'
      BY <2>2, <3>2
    <3> QED
      BY <2>1, <2>3, <3>3
  <2> QED
    BY <2>4, <2>5 DEF RollbackAlone
<1>7. CASE ReportSequence
  <2>1. UNCHANGED <<kind, single, landsAlone, moves, store, verdict>>
    BY <1>7 DEF ReportSequence
  <2>2. Fresh' = Fresh
    BY <2>1 DEF Fresh
  <2> QED
    BY <1>a, <2>1, <2>2 DEF RollbackAlone
<1>8. CASE UNCHANGED vars
  <2>1. UNCHANGED <<kind, single, landsAlone, moves, store, verdict>>
    BY <1>8 DEF vars
  <2>2. Fresh' = Fresh
    BY <2>1 DEF Fresh
  <2> QED
    BY <1>a, <2>1, <2>2 DEF RollbackAlone
<1> QED
  BY <1>1, <1>2, <1>3, <1>4, <1>5, <1>6, <1>7, <1>8 DEF Next

LEMMA KeptStep ==
    ASSUME kind \in OwnKinds, SearchInv, Kept, TagsKept, [Next]_vars
    PROVE  Kept' /\ TagsKept'
<1>0. /\ moves \in Seq(Moves)
      /\ Ahead
      /\ moves = <<>> => verdict = NONE
      /\ single \in 0..11
  BY DEF SearchInv, Ahead
<1>1. CASE RunAlone
  <2> DEFINE m == MoveOrder[single + 1]
  <2>1. m \in Moves
    BY <1>0, <1>1, ElevenMoves, MoveOrderIs DEF RunAlone, SinglesDone
  <2>2. Begin(<<m>>)
    BY <1>1 DEF RunAlone
  <2> HIDE DEF m
  <2>3. <<m>> \in Seq(Moves) /\ <<m>> # <<>>
    BY <2>1
  <2> QED
    BY <2>2, <2>3, BeginKept
<1>2. CASE RunSequence
  <2>1. PICK n \in 2..MaxLen : \E combo \in [1..n -> Moves] : Searched(combo) /\ Begin(combo)
    BY <1>2 DEF RunSequence
  <2>2. PICK combo \in [1..n -> Moves] : Begin(combo)
    BY <2>1
  <2>3. combo \in Seq(Moves) /\ combo # <<>>
    BY SequencesOf, EmptySeq
  <2> QED
    BY <2>2, <2>3, BeginKept
<1>3. CASE Move
  BY <1>0, <1>3, MoveKept
<1>4. CASE MoveRefused
  BY <1>4, SameKept DEF MoveRefused
<1>5. CASE Judge
  <2>1. /\ UNCHANGED <<kind, moves, left, store, genuine, acked>> /\ left = <<>> /\ moves # <<>>
        /\ verdict' = (Verify(kind, store) /\ (PrefixChanged \/ RolledBack))
    BY <1>5 DEF Judge, Running
  <2>2. /\ (PrefixChanged \/ RolledBack)' = (PrefixChanged \/ RolledBack)
        /\ Fresh' = Fresh /\ Verify(kind, store)' = Verify(kind, store)
        /\ Done' = Done /\ Tally("write")' = Tally("write") /\ Tally("rollback")' = Tally("rollback")
    BY <2>1, SameVerdict
  <2>3. verdict' = TRUE => left' = <<>> /\ Verify(kind, store)' /\ (PrefixChanged \/ RolledBack)'
    BY <2>1, <2>2
  <2>4. Kept'
    BY <2>1, <2>2, <2>3 DEF Kept
  <2>5. TagsKept'
    BY <2>1, <2>2 DEF TagsKept
  <2> QED
    BY <2>4, <2>5
<1>6. CASE ReportAlone
  BY <1>6 DEF ReportAlone, Kept, TagsKept
<1>7. CASE ReportSequence
  BY <1>7, SameKept DEF ReportSequence
<1>8. CASE UNCHANGED vars
  BY <1>8, SameKept DEF vars
<1> QED
  BY <1>1, <1>2, <1>3, <1>4, <1>5, <1>6, <1>7, <1>8 DEF Next

LEMMA NextLands ==
    ASSUME Targets \subseteq OwnKinds
    PROVE  LandInv /\ [Next]_vars => LandInv'
<1> SUFFICES ASSUME LandInv, [Next]_vars PROVE LandInv'
  OBVIOUS
<1>1. kind \in OwnKinds /\ SearchInv /\ Kept /\ TagsKept /\ RollbackAlone
  BY DEF LandInv, SearchInv
<1> QED
  BY <1>1, NextSearch, KeptStep, AloneStep DEF LandInv

LEMMA Landed1 ==
    ASSUME LandInv, verdict = TRUE
    PROVE  /\ moves # <<>> /\ moves \in Seq(Moves) /\ Len(moves) \in Nat /\ left = <<>>
           /\ Verify(kind, store) /\ (PrefixChanged \/ RolledBack)
           /\ Done = Len(moves)
           /\ Writes = Tally("write") /\ Writes \in Nat
<1>1. moves # <<>> /\ moves \in Seq(Moves) /\ Len(moves) \in Nat
  BY NoneAssumption, LenProperties DEF LandInv, SearchInv, Ahead
<1>2. left = <<>> /\ Verify(kind, store) /\ (PrefixChanged \/ RolledBack)
  BY <1>1 DEF LandInv, Kept
<1>3. Done = Len(moves)
  <2>1. Len(<<>>) = 0
    OBVIOUS
  <2> QED
    BY <1>1, <1>2, <2>1 DEF Done
<1>4. Writes = Tally("write")
  <2>1. DOMAIN moves = 1..Len(moves)
    BY <1>1, LenProperties
  <2> QED
    BY <1>3, <2>1 DEF Writes, Tally, Count
<1>5. Tally("write") \in Nat
  BY <1>1, <1>3, CountSteps DEF Tally
<1> QED
  BY <1>1, <1>2, <1>3, <1>4, <1>5

LEMMA SeededIs ==
    ASSUME kind \in OwnKinds, genuine = ReadAll(kind, Fresh)
    PROVE  /\ Len(genuine) \in Nat /\ Len(Seeded) = Len(genuine)
           /\ Seeded = [i \in 1..Len(genuine) |-> genuine[i].payload]
<1>1. DOMAIN genuine = 1..Len(genuine) /\ Len(genuine) \in Nat
  BY FreshReads
<1>2. Seeded = [i \in 1..Len(genuine) |-> genuine[i].payload]
  BY <1>1 DEF Seeded, Payloads
<1> QED
  BY <1>1, <1>2

(* With no rollback among the moves, the target serves what was acknowledged  *)
(* only if setting its own writes aside leaves the seed.                     *)
LEMMA HonestPrefix ==
    ASSUME LandInv, kind \in OwnKinds, verdict = TRUE, Served = acked, "rollback" \notin Range(moves)
    PROVE  FALSE
<1>1. /\ moves # <<>> /\ moves \in Seq(Moves) /\ Len(moves) \in Nat
      /\ PrefixChanged \/ RolledBack
      /\ Done = Len(moves) /\ Writes = Tally("write") /\ Writes \in Nat
  BY Landed1
<1>2. /\ genuine = ReadAll(kind, Fresh)
      /\ Len(acked) = Len(genuine) + Tally("write") + Tally("rollback")
      /\ \A i \in 1..Len(genuine) : acked[i] = genuine[i].payload
  BY <1>1 DEF LandInv, Kept
<1>3. PICK S : acked \in Seq(S)
  BY <1>1 DEF LandInv, Kept
<1> DEFINE n == Len(genuine)
           base == FirstOf(Served, Len(Served) - Writes)
<1>4. n \in Nat /\ Len(Seeded) = n /\ Seeded = [i \in 1..n |-> genuine[i].payload]
  BY <1>2, SeededIs
<1>5. Tally("rollback") = 0
  <2>1. \A i \in 1..Len(moves) : moves[i] # "rollback"
    <3>1. DOMAIN moves = 1..Len(moves)
      BY <1>1, LenProperties
    <3> QED
      BY <3>1 DEF Range
  <2> QED
    BY <1>1, <2>1, CountNone DEF Tally
<1> HIDE DEF n
<1>6. Len(acked) = n + Writes
  BY <1>1, <1>2, <1>4, <1>5 DEF n
<1>7. base = SubSeq(acked, 1, n)
  <2>1. Len(Served) - Writes = n /\ n >= 0
    BY <1>1, <1>4, <1>6
  <2> QED
    BY <2>1 DEF FirstOf
<1>8. /\ SubSeq(acked, 1, n) \in Seq(S) /\ Len(SubSeq(acked, 1, n)) = n
      /\ \A i \in 1..n : SubSeq(acked, 1, n)[i] = acked[i]
  BY <1>1, <1>3, <1>4, <1>6, SubSeqProperties
<1>9. SubSeq(acked, 1, n) = Seeded
  <2>1. SubSeq(acked, 1, n) = [i \in 1..n |-> SubSeq(acked, 1, n)[i]]
    BY <1>8, LenProperties
  <2>2. \A i \in 1..n : SubSeq(acked, 1, n)[i] = genuine[i].payload
    BY <1>2, <1>8 DEF n
  <2>3. [i \in 1..n |-> SubSeq(acked, 1, n)[i]] = [i \in 1..n |-> genuine[i].payload]
    BY <2>2
  <2> QED
    BY <1>4, <2>1, <2>3
<1>10. base = Seeded
  BY <1>7, <1>9
<1> HIDE DEF base
<1>11. IsPrefix(base, Seeded) /\ Len(base) = Len(Seeded) /\ ~(Len(base) < Len(Seeded))
  BY <1>4, <1>10 DEF IsPrefix
<1>12. ~PrefixChanged
  BY <1>11 DEF PrefixChanged, base
<1>13. ~RolledBack
  BY DEF RolledBack
<1> QED
  BY <1>1, <1>12, <1>13

(* With one, a memory was acknowledged that the target does not serve.       *)
LEMMA HonestRollback ==
    ASSUME LandInv, kind \in OwnKinds, verdict = TRUE, Served = acked, "rollback" \in Range(moves)
    PROVE  FALSE
<1>1. /\ moves # <<>> /\ moves \in Seq(Moves) /\ Len(moves) \in Nat /\ left = <<>>
      /\ Verify(kind, store) /\ Done = Len(moves) /\ Writes = Tally("write") /\ Writes \in Nat
  BY Landed1
<1>2. /\ genuine = ReadAll(kind, Fresh)
      /\ Len(acked) = Len(genuine) + Tally("write") + Tally("rollback")
  BY <1>1 DEF LandInv, Kept
<1>3. Len(genuine) \in Nat /\ Len(Seeded) = Len(genuine)
  BY <1>2, SeededIs
<1>4. Tally("rollback") \in Nat \ {0}
  <2>1. PICK i \in 1..Len(moves) : moves[i] = "rollback"
    <3>1. DOMAIN moves = 1..Len(moves)
      BY <1>1, LenProperties
    <3> QED
      BY <3>1 DEF Range
  <2> QED
    BY <1>1, <2>1, CountSome DEF Tally
<1>5. Len(genuine) + Writes < Len(acked)
  BY <1>1, <1>2, <1>3, <1>4
<1>6. CASE kind \in RefKinds
  <2> DEFINE b == SeedCount + Writes
             n == SeedCount + Done
             records == ReadAll(kind, store)
  <2>1. b \in Nat /\ Within(store, b, n)
    BY <1>1, <1>6, ComposeAssumption DEF LandInv, TagsKept
  <2>2. Len(genuine) = SeedCount
    BY <1>2, <1>6, FreshReads
  <2> HIDE DEF b, n
  <2>3. Len(records) \in Nat /\ Len(records) <= b
    BY <1>1, <1>6, <2>1, RefServesAtMost
  <2>4. Len(Served) = Len(records)
    <3>1. store \in Ref!Stores /\ CTX \in Ref!Ctxs
      BY <2>1 DEF Within, Ref!Ctxs
    <3>2. records = RefRecords(store, CTX)
      BY <1>6, KindNames DEF RefKinds, ReadAll
    <3>3. DOMAIN records = 1..Len(records)
      BY <3>1, <3>2, RefReads
    <3>4. Served = [i \in 1..Len(records) |-> records[i].payload]
      BY <3>3 DEF Served, Payloads
    <3> QED
      BY <2>3, <3>4
  <2>5. b < Len(acked)
    BY <1>5, <2>2 DEF b
  <2>6. Len(acked) = Len(records)
    BY <2>4
  <2>7. Len(acked) \in Nat
    BY <2>3, <2>6
  <2> QED
    BY <2>1, <2>3, <2>5, <2>6, <2>7
<1>7. CASE kind \notin RefKinds
  <2>1. /\ Len(moves) = 1 => moves[1] = MoveOrder[single]
        /\ moves = <<"rollback">> => store = Fresh
        /\ single > 3 => "rollback" \in landsAlone
    BY <1>7 DEF LandInv, RollbackAlone
  <2>2. ~(Len(moves) > 1)
    BY <2>1 DEF LandInv, SearchInv
  <2>3. Len(moves) = 1
    BY <1>1, <2>2, EmptySeq
  <2>4. moves = <<moves[1]>>
    BY <1>1, <2>3, OneLong
  <2>5. moves[1] = "rollback"
    <3>1. DOMAIN moves = {1}
      BY <1>1, <2>3, LenProperties
    <3> QED
      BY <3>1 DEF Range
  <2>6. store = Fresh
    BY <2>1, <2>4, <2>5
  <2>7. Served = Seeded
    BY <1>2, <2>6 DEF Served, Seeded
  <2>8. Len(acked) = Len(genuine)
    BY <1>3, <2>7
  <2> QED
    BY <1>1, <1>3, <1>5, <2>8
<1> QED
  BY <1>6, <1>7

LEMMA LandIsReal ==
    ASSUME Targets \subseteq OwnKinds
    PROVE  LandInv => LandingIsReal
<1> SUFFICES ASSUME LandInv, verdict = TRUE PROVE Verify(kind, store) /\ Served # acked
  BY DEF LandingIsReal
<1>1. kind \in OwnKinds
  BY DEF LandInv, SearchInv
<1> QED
  BY <1>1, Landed1, HonestPrefix, HonestRollback

(***************************************************************************)
(* compose.py:107, :120.  On the project's own stores, whatever they are     *)
(* seeded with and however long the sequences searched, a sequence is said   *)
(* to land only when the target vouches for a memory its API did not         *)
(* acknowledge: setting the last records aside for the sequence's own writes *)
(* never makes an honest memory look altered, and a rollback never lands on  *)
(* a memory that has kept everything.                                        *)
(***************************************************************************)
THEOREM LandingsAreReal ==
    ASSUME Targets \subseteq OwnKinds
    PROVE  Spec => []LandingIsReal
<1>1. Init => LandInv
  BY InitLands
<1>2. LandInv /\ [Next]_vars => LandInv'
  BY NextLands
<1>3. LandInv => LandingIsReal
  BY LandIsReal
<1> QED
  BY <1>1, <1>2, <1>3, PTL DEF Spec

-----------------------------------------------------------------------------
(***************************************************************************)
(* The process of the reference store remembers the log of what its API      *)
(* acknowledged; that of the forgetful store does until it is restarted.     *)
(***************************************************************************)
Remembers == kind = "reference" \/ \A i \in 1..Done : moves[i] # "restart"
Contents(log) == [k \in 1..Len(log) |-> log[k].content]
Log == store.witness.tag

Remembered ==
    moves # <<>> /\ kind \in RefKinds /\ Remembers =>
        /\ store.witness # NONE
        /\ IsLog(Log, Ref!Links)
        /\ store.witness.seq = Len(Log) - 1
        /\ acked = Contents(Log)

FoundInv ==
    \A f \in findings : kind \in RefKinds => kind = "forgetful" /\ "restart" \in Range(f)

HoleInv == LandInv /\ Remembered /\ FoundInv

(* A verified store that remembers its log serves what was acknowledged.     *)
LEMMA RememberedLands ==
    ASSUME Targets \subseteq OwnKinds, HoleInv, kind \in RefKinds, verdict = TRUE
    PROVE  kind = "forgetful" /\ "restart" \in Range(moves)
<1>1. /\ moves # <<>> /\ moves \in Seq(Moves) /\ Len(moves) \in Nat
      /\ Verify(kind, store) /\ Done = Len(moves)
  BY Landed1 DEF HoleInv
<1>2. Served # acked
  BY LandIsReal DEF HoleInv, LandingIsReal
<1>3. store \in Ref!Stores
  BY <1>1 DEF HoleInv, LandInv, TagsKept, Within
<1>4. ~Remembers
  <2> SUFFICES ASSUME Remembers PROVE FALSE
    OBVIOUS
  <2>1. store.witness # NONE /\ IsLog(Log, Ref!Links) /\ acked = Contents(Log)
    BY <1>1 DEF HoleInv, Remembered
  <2>2. Payloads(ReadAll(kind, store)) = [k \in 1..Len(Log) |-> Log[k].content]
    BY <1>1, <1>3, <2>1, RefServesItsLog DEF Log
  <2> QED
    BY <1>2, <2>1, <2>2 DEF Served, Contents
<1>5. kind = "forgetful" /\ \E i \in 1..Len(moves) : moves[i] = "restart"
  BY <1>1, <1>4 DEF Remembers, RefKinds
<1>6. DOMAIN moves = 1..Len(moves)
  BY <1>1, LenProperties
<1> QED
  BY <1>5, <1>6 DEF Range

LEMMA SameRemembered ==
    ASSUME Remembered, UNCHANGED <<kind, moves, left, store, acked>>
    PROVE  Remembered'
BY DEF Remembered, Remembers, Done, Log, Contents

LEMMA BeginRemembered ==
    ASSUME kind \in OwnKinds, NEW combo \in Seq(Moves), Begin(combo)
    PROVE  Remembered'
<1>0. /\ moves' = combo /\ left' = combo /\ store' = Fresh /\ kind' = kind
      /\ genuine' = ReadAll(kind, Fresh) /\ acked' = Payloads(genuine')
  <2>1. /\ moves' = combo /\ left' = combo /\ store' = Fresh
        /\ genuine' = ReadAll(kind, store') /\ acked' = Payloads(genuine') /\ kind' = kind
    BY DEF Begin
  <2> QED
    BY <2>1
<1> SUFFICES ASSUME kind \in RefKinds
    PROVE  /\ store'.witness # NONE /\ IsLog(store'.witness.tag, Ref!Links)
           /\ store'.witness.seq = Len(store'.witness.tag) - 1
           /\ acked' = Contents(store'.witness.tag)
  BY <1>0 DEF Remembered, Log, Contents
<1> DEFINE log == Ref!SeedLog(CTX)
<1>1. IsLog(log, Ref!Links) /\ Len(log) = SeedCount
  BY SeedLogIsLog
<1>2. store'.witness = [seq |-> SeedCount - 1, tag |-> log] /\ store' \in Ref!Stores
  BY <1>0, RefFresh DEF Within
<1>3. DOMAIN genuine' = 1..SeedCount /\ \A k \in 1..SeedCount : genuine'[k].payload = log[k].content
  BY <1>0, RefFreshReads
<1> HIDE DEF log
<1>4. acked' = Contents(log)
  BY <1>0, <1>1, <1>3 DEF Payloads, Contents
<1>5. store'.witness.tag = log /\ store'.witness.seq = SeedCount - 1
  BY <1>2
<1>6. store'.witness # NONE
  <2>1. store'.witness \in Ref!Witnesses
    <3>1. log \in Ref!Tags
      BY <1>1 DEF IsLog, Ref!Tags
    <3>2. SeedCount - 1 \in Ref!Seqs
      BY ComposeAssumption DEF Ref!Seqs
    <3> QED
      BY <1>2, <3>1, <3>2 DEF Ref!Witnesses
  <2> QED
    BY <2>1, NoneAssumption
<1> QED
  BY <1>1, <1>4, <1>5, <1>6

(* The store's own write makes the log one record longer. *)
LEMMA LogGrows ==
    ASSUME NEW s, NEW b \in Nat, NEW n \in Nat, n <= MaxSeq, Within(s, b, n), Ref!CanAppend(s),
           s.witness # NONE, IsLog(s.witness.tag, Ref!Links), s.witness.seq = Len(s.witness.tag) - 1
    PROVE  LET log == s.witness.tag IN
           /\ [seq |-> Ref!LastSeq(s) + 1, tag |-> NextLog(s)] # NONE
           /\ IsLog(NextLog(s), Ref!Links)
           /\ Ref!LastSeq(s) + 1 = Len(NextLog(s)) - 1
           /\ Contents(NextLog(s)) = Contents(log) \o <<Ref!LateContent>>
<1> DEFINE log == s.witness.tag
           m == Ref!LastSeq(s) + 1
           link == Ref!LateLink(m)
<1>1. s.witness = [seq |-> Ref!LastSeq(s), tag |-> s.rec[CTX][Ref!LastSeq(s)].tag]
  BY DEF Ref!CanAppend
<1>2. Ref!LastSeq(s) = Len(log) - 1 /\ s.rec[CTX][Ref!LastSeq(s)].tag = log
  BY <1>1
<1>3. m \in Ref!Seqs /\ log \in Ref!Tags
  BY <1>2, RefAppend
<1>4. link \in Ref!Links /\ link.seq = m /\ link.content = Ref!LateContent
      /\ Append(log, link) \in Ref!Tags /\ Len(Append(log, link)) = Len(log) + 1 /\ Len(log) \in Nat
  BY <1>3, LateType
<1>5. NextLog(s) = Append(log, link) /\ m = Len(log)
  BY <1>2, <1>4 DEF NextLog
<1> HIDE DEF log, m, link
<1>6. log \in Seq(Ref!Links) /\ \A k \in 1..Len(log) : log[k].seq = k - 1
  BY DEF IsLog, log
<1>7. /\ \A k \in 1..Len(log) : Append(log, link)[k] = log[k]
      /\ Append(log, link)[Len(log) + 1] = link
      /\ Append(log, link) \in Seq(Ref!Links)
  BY <1>4, <1>6, AppendProperties
<1>8. IsLog(Append(log, link), Ref!Links)
  <2>1. \A k \in 1..(Len(log) + 1) : k \in 1..Len(log) \/ k = Len(log) + 1
    BY <1>4
  <2>2. Append(log, link)[Len(log) + 1].seq = (Len(log) + 1) - 1
    BY <1>4, <1>5, <1>7
  <2> QED
    BY <1>4, <1>6, <1>7, <2>1, <2>2 DEF IsLog
<1>9. Contents(Append(log, link)) = Contents(log) \o <<Ref!LateContent>>
  <2> DEFINE x == Ref!LateContent
             C == Contents(log)
             S == {log[k].content : k \in 1..Len(log)}
  <2>1. C \in [1..Len(log) -> S]
    BY DEF Contents
  <2>2. C \in Seq(S) /\ Len(C) = Len(log) /\ \A k \in 1..Len(log) : C[k] = log[k].content
    BY <1>4, <2>1 DEF Contents
  <2> HIDE DEF C, S, x
  <2>3. /\ C \o <<x>> \in Seq(S \cup {x}) /\ Len(C \o <<x>>) = Len(C) + 1
        /\ \A k \in 1..Len(C) : (C \o <<x>>)[k] = C[k]
        /\ (C \o <<x>>)[Len(C) + 1] = x
    BY <2>2, OneAcknowledged
  <2>4. C \o <<x>> = [k \in 1..(Len(log) + 1) |-> (C \o <<x>>)[k]]
    BY <2>2, <2>3, LenProperties
  <2>5. ASSUME NEW k \in 1..(Len(log) + 1)
        PROVE (C \o <<x>>)[k] = Append(log, link)[k].content
    <3>1. CASE k \in 1..Len(log)
      BY <1>7, <2>2, <2>3, <3>1
    <3>2. CASE k = Len(log) + 1
      <4>1. (C \o <<x>>)[k] = x
        BY <2>2, <2>3, <3>2
      <4>2. Append(log, link)[k] = link
        BY <1>7, <3>2
      <4> QED
        BY <1>4, <4>1, <4>2 DEF x
    <3>3. k \in 1..Len(log) \/ k = Len(log) + 1
      <4>1. Len(log) \in Nat
        BY <1>4
      <4> QED
        BY <4>1
    <3> QED
      BY <3>1, <3>2, <3>3
  <2>6. Contents(Append(log, link)) = [k \in 1..(Len(log) + 1) |-> Append(log, link)[k].content]
    BY <1>4 DEF Contents
  <2> QED
    BY <2>4, <2>5, <2>6 DEF C, x
<1>10. [seq |-> m, tag |-> NextLog(s)] # NONE
  <2>1. [seq |-> m, tag |-> NextLog(s)] \in Ref!Witnesses
    BY <1>3, <1>4, <1>5 DEF Ref!Witnesses
  <2> QED
    BY <2>1, NoneAssumption
<1> QED
  BY <1>4, <1>5, <1>8, <1>9, <1>10 DEF m, log

LEMMA MoveRemembered ==
    ASSUME kind \in RefKinds, Ahead, Kept, TagsKept, Remembered, Move
    PROVE  Remembered'
<1> DEFINE move == Head(left)
           next == Apply(store, move)
           b == SeedCount + Tally("write")
           n == SeedCount + Done
<1>0. /\ left # <<>> /\ left' = Tail(left) /\ moves' = moves /\ kind' = kind
      /\ store' = next /\ next # NONE /\ acked' = acked \o Acknowledged(store, move)
  BY DEF Move
<1>1. /\ Done \in Nat /\ Done' = Done + 1 /\ Done + 1 <= Len(moves) /\ Len(moves) \in Nat
      /\ move \in Moves /\ move = moves[Done + 1] /\ moves # <<>>
      /\ Tally("write") \in Nat
  BY <1>0, MoveCounts
<1>2. b \in Nat /\ n \in Nat /\ SeedCount <= b /\ SeedCount <= n /\ n <= MaxSeq
  BY <1>1, ComposeAssumption DEF Ahead
<1>3. Within(store, b, n)
  BY <1>1 DEF TagsKept
<1> HIDE DEF b, n
<1>4. Moved1(store, move, next)
  BY <1>0, <1>1, <1>2, <1>3, RefMove
<1> SUFFICES ASSUME Remembers'
    PROVE  /\ store'.witness # NONE /\ IsLog(store'.witness.tag, Ref!Links)
           /\ store'.witness.seq = Len(store'.witness.tag) - 1
           /\ acked' = Contents(store'.witness.tag)
  BY DEF Remembered, Log, Contents
<1>5. Remembers /\ (move = "restart" => kind = "reference")
  <2>1. \A i \in 1..Done : i \in 1..(Done + 1)
    BY <1>1
  <2>2. Done + 1 \in 1..(Done + 1)
    BY <1>1
  <2>3. kind = "reference" \/ \A i \in 1..(Done + 1) : moves[i] # "restart"
    BY <1>0, <1>1 DEF Remembers
  <2> QED
    BY <1>1, <2>1, <2>2, <2>3 DEF Remembers
<1>6. /\ store.witness # NONE /\ IsLog(store.witness.tag, Ref!Links)
      /\ store.witness.seq = Len(store.witness.tag) - 1 /\ acked = Contents(store.witness.tag)
  BY <1>1, <1>5 DEF Remembered, Log
<1> HIDE DEF move, next
<1>e. "write" \notin Edits /\ "restart" \notin Edits /\ "rollback" \notin Edits
  BY EditsAre
<1>7. CASE move \in {"write", "rollback"}
  <2>1. /\ Ref!CanAppend(store)
        /\ store'.witness = [seq |-> Ref!LastSeq(store) + 1, tag |-> NextLog(store)]
    BY <1>0, <1>4, <1>7 DEF Moved1
  <2>2. /\ [seq |-> Ref!LastSeq(store) + 1, tag |-> NextLog(store)] # NONE
        /\ IsLog(NextLog(store), Ref!Links)
        /\ Ref!LastSeq(store) + 1 = Len(NextLog(store)) - 1
        /\ Contents(NextLog(store)) = Contents(store.witness.tag) \o <<Ref!LateContent>>
    BY <1>2, <1>3, <1>6, <2>1, LogGrows
  <2>3. Grown(store) # NONE
    <3>1. CASE move = "write"
      BY <1>0, <3>1, ApplyIs DEF next
    <3>2. CASE move = "rollback"
      <4>1. Apply(store, "rollback") =
              IF Grown(store) = NONE THEN NONE ELSE Restore(kind, Grown(store), Snapshot(kind, store))
        BY ApplyIs
      <4> QED
        BY <1>0, <3>2, <4>1 DEF next
    <3> QED
      BY <1>7, <3>1, <3>2
  <2>4. Last(ReadAll(kind, Grown(store))).payload = Ref!LateContent
    BY <1>2, <1>3, <2>3, RefAcknowledges
  <2>5. acked' = acked \o <<Ref!LateContent>>
    BY <1>0, <1>7, <2>4 DEF Acknowledged
  <2>6. store'.witness.tag = NextLog(store) /\ store'.witness.seq = Ref!LastSeq(store) + 1
    BY <2>1
  <2> QED
    BY <1>6, <2>1, <2>2, <2>5, <2>6
<1>8. CASE move \notin {"write", "rollback"}
  <2>1. store'.witness = store.witness
    BY <1>0, <1>1, <1>4, <1>5, <1>8 DEF Moved1, Moves
  <2>2. acked' = acked
    <3>1. Acknowledged(store, move) = <<>>
      BY <1>8 DEF Acknowledged
    <3>2. PICK S : acked \in Seq(S)
      BY <1>1 DEF Kept
    <3> QED
      BY <1>0, <3>1, <3>2, ConcatEmptySeq
  <2> QED
    BY <1>6, <2>1, <2>2
<1> QED
  BY <1>7, <1>8

LEMMA RememberedStep ==
    ASSUME Targets \subseteq OwnKinds, HoleInv, [Next]_vars
    PROVE  Remembered' /\ FoundInv'
<1>0. /\ kind \in OwnKinds /\ Ahead /\ single \in 0..11 /\ Kept /\ TagsKept
      /\ Remembered /\ FoundInv
  BY DEF HoleInv, LandInv, SearchInv
<1>1. CASE RunAlone
  <2> DEFINE m == MoveOrder[single + 1]
  <2>1. m \in Moves
    BY <1>0, <1>1, ElevenMoves, MoveOrderIs DEF RunAlone, SinglesDone
  <2>2. Begin(<<m>>)
    BY <1>1 DEF RunAlone
  <2> HIDE DEF m
  <2>3. <<m>> \in Seq(Moves)
    BY <2>1
  <2>4. findings' = findings /\ kind' = kind
    BY <2>2 DEF Begin
  <2> QED
    BY <1>0, <2>2, <2>3, <2>4, BeginRemembered DEF FoundInv
<1>2. CASE RunSequence
  <2>1. PICK n \in 2..MaxLen : \E combo \in [1..n -> Moves] : Searched(combo) /\ Begin(combo)
    BY <1>2 DEF RunSequence
  <2>2. PICK combo \in [1..n -> Moves] : Begin(combo)
    BY <2>1
  <2>3. combo \in Seq(Moves)
    BY SequencesOf
  <2>4. findings' = findings /\ kind' = kind
    BY <2>2 DEF Begin
  <2> QED
    BY <1>0, <2>2, <2>3, <2>4, BeginRemembered DEF FoundInv
<1>3. CASE Move
  <2>1. findings' = findings /\ kind' = kind
    BY <1>3 DEF Move
  <2>2. FoundInv'
    BY <1>0, <2>1 DEF FoundInv
  <2>3. CASE kind \in RefKinds
    BY <1>0, <1>3, <2>2, <2>3, MoveRemembered
  <2>4. CASE kind \notin RefKinds
    BY <2>1, <2>2, <2>4 DEF Remembered
  <2> QED
    BY <2>3, <2>4
<1>4. CASE MoveRefused
  BY <1>0, <1>4, SameRemembered DEF MoveRefused, FoundInv
<1>5. CASE Judge
  BY <1>0, <1>5, SameRemembered DEF Judge, FoundInv
<1>6. CASE ReportAlone
  BY <1>0, <1>6 DEF ReportAlone, FoundInv, Remembered
<1>7. CASE ReportSequence
  <2>1. /\ UNCHANGED <<kind, moves, left, store, acked>> /\ verdict = TRUE
        /\ findings' = findings \cup {moves}
    BY <1>7 DEF ReportSequence
  <2>2. kind \in RefKinds => kind = "forgetful" /\ "restart" \in Range(moves)
    BY <2>1, RememberedLands
  <2> QED
    BY <1>0, <2>1, <2>2, SameRemembered DEF FoundInv
<1>8. CASE UNCHANGED vars
  BY <1>0, <1>8, SameRemembered DEF vars, FoundInv
<1> QED
  BY <1>1, <1>2, <1>3, <1>4, <1>5, <1>6, <1>7, <1>8 DEF Next

LEMMA InitHole == Init => HoleInv
<1> SUFFICES ASSUME Init PROVE HoleInv
  OBVIOUS
<1>1. moves = <<>> /\ findings = {}
  BY DEF Init
<1> QED
  BY <1>1, InitLands DEF HoleInv, Remembered, FoundInv

(***************************************************************************)
(* tests/test_compose.py.  However many records the reference store is       *)
(* seeded with and however long the sequences searched, none is reported on  *)
(* it; on the one whose process forgets, every reported sequence restarts    *)
(* the process: without a restart, no order of edits, writes and rollbacks   *)
(* goes unnoticed.                                                           *)
(***************************************************************************)
THEOREM FindingsAreHoles ==
    ASSUME Targets \subseteq RefKinds
    PROVE  Spec => []FindingsNameTheHole
<1>0. Targets \subseteq OwnKinds
  BY DEF OwnKinds
<1>1. Init => HoleInv
  BY InitHole
<1>2. HoleInv /\ [Next]_vars => HoleInv'
  BY <1>0, NextLands, RememberedStep DEF HoleInv
<1>3. HoleInv => FindingsNameTheHole
  BY DEF HoleInv, LandInv, SearchInv, FoundInv, RefKinds, FindingsNameTheHole
<1> QED
  BY <1>1, <1>2, <1>3, PTL DEF Spec
===============================================================================
