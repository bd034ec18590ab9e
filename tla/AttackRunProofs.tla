---------------------------- MODULE AttackRunProofs ----------------------------
(***************************************************************************)
(* Proofs about AttackRun: its types, and that every verdict is earned, for  *)
(* every number of seeded records and whatever a broken plain adapter does.  *)
(*                                                                         *)
(* The inductive invariant IInv has three parts.  TypeInv (types, the calls  *)
(* a sequence, the answers taken so far) holds of every kind of store.  Twin *)
(* says a store that never misfires is the ideal one, and a snapshot of it   *)
(* too.  PlainInv follows a plain store, broken or not: it is the seeded     *)
(* table until the edit starts, Begun or Halfway says what each edit may     *)
(* have left between two of its calls, and Edited what it may have left      *)
(* after the last.  Edited alone does not make the edit the intended one:    *)
(* EditLands shows, attack by attack, that Edited and the landed check do.   *)
(*                                                                         *)
(* The order: types; the tables a plain store holds and its raw operations;  *)
(* the seeded table; what the attacks read of it; Edited and EditLands; the  *)
(* outcomes of each call, done or misfired; the steps of the run.            *)
(***************************************************************************)
EXTENDS AttackRun, SequenceTheorems, FiniteSetTheorems, TLAPS

-----------------------------------------------------------------------------
(* Whatever a tool is asked, it answers yes or no. *)

LEMMA KindsAre ==
    ASSUME NEW k \in Kinds
    PROVE  OnReference(k) \/ OnOpenFang(k) \/ k \in V!VendorKinds \/ k = "plain"
BY DEF Kinds, OnReference, OnOpenFang

LEMMA PlainKind == ~OnReference("plain") /\ ~OnOpenFang("plain") /\ ~OnVendor("plain")
BY DEF OnReference, OnOpenFang, OnVendor, V!VendorKinds, V!FrameworkKinds, V!EvidenceKinds,
       V!InspeximusKinds, V!AtelyaKinds, V!ContinuumKinds, V!AtmemKinds, V!BlackboxKinds

LEMMA ServesIs ==
    ASSUME NEW k \in V!FrameworkKinds
    PROVE  V!ApiOf(k).serves \in {"a_row", "the_latest", "anything"}
BY DEF V!FrameworkKinds, V!ApiOf, V!ReadPath, V!LanggraphSqliteApi, V!LanggraphPostgresApi,
       V!LanggraphRedisApi, V!CrewaiApi, V!OpenaiAgentsApi, V!LlamaindexApi, V!Mem0Api,
       V!LettaApi, V!VertexApi

LEMMA MemberType == ASSUME NEW x, NEW S PROVE (x \in S) \in BOOLEAN
OBVIOUS

Serves(a) == a.serves \in {"a_row", "the_latest", "anything"}
LEMMA ServesAnythingType ==
    ASSUME NEW a, NEW s
    PROVE  Serves(a) => V!ServesAnything(a, s) \in BOOLEAN
<1> SUFFICES ASSUME a.serves \in {"a_row", "the_latest", "anything"}
             PROVE  V!ServesAnything(a, s) \in BOOLEAN
  BY DEF Serves
<1>1. CASE a.serves = "a_row"
  <2> DEFINE served == V!View(s, CTX) # <<>>
  <2>1. served \in BOOLEAN
    OBVIOUS
  <2>2. V!ServesAnything(a, s) = served
    BY <1>1 DEF V!ServesAnything
  <2> HIDE DEF served
  <2> QED
    BY <2>1, <2>2
<1>2. CASE a.serves = "the_latest"
  <2> DEFINE served == s.book \in V!Ids(s)
  <2>1. served \in BOOLEAN
    BY MemberType
  <2>2. V!ServesAnything(a, s) = served
    BY <1>2 DEF V!ServesAnything
  <2> HIDE DEF served
  <2> QED
    BY <2>1, <2>2
<1>3. CASE a.serves = "anything"
  BY <1>3 DEF V!ServesAnything
<1> QED
  BY <1>1, <1>2, <1>3

LEMMA EvidenceTypes ==
    ASSUME NEW k, NEW s
    PROVE  /\ V!LedgerVerify(s) \in BOOLEAN /\ V!InspeximusVerify(k, s) \in BOOLEAN
           /\ V!AtelyaVerify(s) \in BOOLEAN /\ V!ContinuumVerify(k, s) \in BOOLEAN
           /\ V!AtmemVerify(s) \in BOOLEAN /\ V!AcrfVerify(s) \in BOOLEAN
           /\ V!BlackboxVerify(s) \in BOOLEAN /\ V!AgentMemoryVerify(s) \in BOOLEAN
<1>1. V!LedgerVerify(s) \in BOOLEAN
  BY DEF V!LedgerVerify
<1>2. V!InspeximusVerify(k, s) \in BOOLEAN
  BY DEF V!InspeximusVerify
<1>3. V!AtelyaVerify(s) \in BOOLEAN
  BY DEF V!AtelyaVerify, V!ChainHolds
<1>4. V!ContinuumVerify(k, s) \in BOOLEAN
  BY DEF V!ContinuumVerify, V!ChainHolds
<1>5. V!AtmemVerify(s) \in BOOLEAN
  BY DEF V!AtmemVerify
<1>6. V!AcrfVerify(s) \in BOOLEAN
  BY DEF V!AcrfVerify
<1>7. V!BlackboxVerify(s) \in BOOLEAN /\ V!AgentMemoryVerify(s) \in BOOLEAN
  BY DEF V!BlackboxVerify, V!AgentMemoryVerify
<1> QED
  BY <1>1, <1>2, <1>3, <1>4, <1>5, <1>6, <1>7

LEMMA VendorVerifyType ==
    ASSUME NEW k \in V!VendorKinds, NEW s
    PROVE  V!VendorVerify(k, s) \in BOOLEAN
<1>1. k \in V!FrameworkKinds => V!ServesAnything(V!ApiOf(k), s) \in BOOLEAN
  <2> SUFFICES ASSUME k \in V!FrameworkKinds PROVE V!ServesAnything(V!ApiOf(k), s) \in BOOLEAN
    OBVIOUS
  <2> DEFINE a == V!ApiOf(k)
  <2>1. Serves(a)
    BY ServesIs DEF Serves
  <2> HIDE DEF a
  <2>2. V!ServesAnything(a, s) \in BOOLEAN
    BY <2>1, ServesAnythingType
  <2> QED
    BY <2>2 DEF a
<1>2. \/ k \in V!FrameworkKinds \/ k \in {"ledger", "acrf", "agent_memory"} \/ k \in V!InspeximusKinds
      \/ k \in V!AtelyaKinds \/ k \in V!ContinuumKinds \/ k \in V!AtmemKinds \/ k \in V!BlackboxKinds
  BY DEF V!VendorKinds, V!EvidenceKinds
<1> QED
  BY <1>1, <1>2, EvidenceTypes DEF V!VendorVerify

LEMMA VerifyType ==
    ASSUME NEW k \in Kinds, NEW s
    PROVE  Verify(k, s) \in BOOLEAN
<1>1. Ref!Verify(s) \in BOOLEAN
  BY DEF Ref!Verify
<1>2. OF!VerifyAudit(s, k = "openfang_strict") \in BOOLEAN
  BY DEF OF!VerifyAudit
<1>3. k \in V!VendorKinds => V!VendorVerify(k, s) \in BOOLEAN
  BY VendorVerifyType
<1> QED
  BY <1>1, <1>2, <1>3, KindsAre DEF Verify, OnVendor

-----------------------------------------------------------------------------
(* Types, and what the tool answered so far. *)

Sequential(q) == \E S : q \in Seq(S)

Tested == {"snapshot before", "read", "edit", "snapshot after", "check landed",
           "reload edited", "verify edited"}
Answered ==
    /\ pc \in {"setup", "seed", "verify clean"} => answers = <<>>
    /\ pc \in {"reload clean", "verify reloaded"} => answers = <<TRUE>>
    /\ pc \in Tested => answers = <<TRUE, TRUE>>
    /\ pc = "teardown" /\ outcome \in Verdicts => answers = <<TRUE, TRUE, outcome = "VULNERABLE">>
Named == pc # "idle" => attack \in Attacks
TypeInv == TypeOK /\ Sequential(calls) /\ Answered /\ Named

AnswerLists == UNION {[1..n -> BOOLEAN] : n \in 0..3}

LEMMA Two == ASSUME NEW S, NEW t \in Seq(S), Len(t) = 2 PROVE t = <<t[1], t[2]>>
OBVIOUS
LEMMA Three == ASSUME NEW S, NEW t \in Seq(S), Len(t) = 3 PROVE t = <<t[1], t[2], t[3]>>
OBVIOUS

Listed(S, x, y, z) ==
    /\ <<>> \in [1..0 -> S] /\ <<x>> \in [1..1 -> S] /\ <<x, y>> \in [1..2 -> S]
    /\ <<x, y, z>> \in [1..3 -> S]
    /\ Append(<<>>, x) = <<x>> /\ Append(<<x>>, y) = <<x, y>> /\ Append(<<x, y>>, z) = <<x, y, z>>

LEMMA Lists ==
    ASSUME NEW S, NEW x \in S, NEW y \in S, NEW z \in S
    PROVE  Listed(S, x, y, z)
<1>1. <<>> \in [1..0 -> S]
  OBVIOUS
<1>2. <<x>> \in [1..1 -> S]
  OBVIOUS
<1>3. <<x, y>> \in [1..2 -> S]
  OBVIOUS
<1>4. <<x, y, z>> \in [1..3 -> S]
  OBVIOUS
<1>5. Append(<<>>, x) = <<x>>
  OBVIOUS
<1>6. Append(<<x>>, y) = <<x, y>>
  <2>1. <<x>> \in Seq(S) /\ Len(<<x>>) = 1 /\ <<x>>[1] = x
    OBVIOUS
  <2>2. /\ Append(<<x>>, y) \in Seq(S) /\ Len(Append(<<x>>, y)) = 2
        /\ Append(<<x>>, y)[1] = x /\ Append(<<x>>, y)[2] = y
    BY <2>1, AppendProperties
  <2> QED
    BY <2>2, Two
<1>7. Append(<<x, y>>, z) = <<x, y, z>>
  <2>1. <<x, y>> \in Seq(S) /\ Len(<<x, y>>) = 2 /\ <<x, y>>[1] = x /\ <<x, y>>[2] = y
    OBVIOUS
  <2> DEFINE t == Append(<<x, y>>, z)
  <2>2. t \in Seq(S) /\ Len(t) = 3 /\ t[1] = x /\ t[2] = y /\ t[3] = z
    BY <2>1, AppendProperties
  <2> HIDE DEF t
  <2>3. t = <<x, y, z>>
    BY <2>2, Three
  <2> QED
    BY <2>3 DEF t
<1> QED
  BY <1>1, <1>2, <1>3, <1>4, <1>5, <1>6, <1>7 DEF Listed

LEMMA AnswersAre ==
    ASSUME NEW b \in BOOLEAN
    PROVE  /\ <<>> \in AnswerLists /\ <<b>> \in AnswerLists /\ <<TRUE, b>> \in AnswerLists
           /\ <<TRUE, TRUE, b>> \in AnswerLists
           /\ Append(<<>>, b) = <<b>> /\ Append(<<TRUE>>, b) = <<TRUE, b>>
           /\ Append(<<TRUE, TRUE>>, b) = <<TRUE, TRUE, b>>
<1>1. 0 \in 0..3 /\ 1 \in 0..3 /\ 2 \in 0..3 /\ 3 \in 0..3
  OBVIOUS
<1> DEFINE yes == TRUE
<1>2. yes \in BOOLEAN
  OBVIOUS
<1> HIDE DEF yes
<1> DEFINE S == BOOLEAN
<1> HIDE DEF S
<1>3. /\ <<>> \in [1..0 -> S] /\ <<b>> \in [1..1 -> S] /\ <<yes, b>> \in [1..2 -> S]
      /\ <<yes, yes, b>> \in [1..3 -> S]
      /\ Append(<<>>, b) = <<b>> /\ Append(<<yes>>, b) = <<yes, b>>
      /\ Append(<<yes, yes>>, b) = <<yes, yes, b>>
  <2>1. yes \in S /\ b \in S
    BY <1>2 DEF S
  <2>2. Listed(S, b, b, b) /\ Listed(S, yes, b, b) /\ Listed(S, yes, yes, b)
    BY <2>1, Lists
  <2> QED
    BY <2>2 DEF Listed
<1>4. <<>> \in AnswerLists /\ <<b>> \in AnswerLists /\ <<yes, b>> \in AnswerLists
      /\ <<yes, yes, b>> \in AnswerLists
  BY <1>1, <1>3 DEF AnswerLists, S
<1> QED
  BY <1>3, <1>4 DEF yes

LEMMA Tuples ==
    ASSUME NEW a, NEW b, NEW c, NEW d
    PROVE  Sequential(<<a>>) /\ Sequential(<<a, b>>) /\ Sequential(<<a, b, c>>) /\ Sequential(<<a, b, c, d>>)
<1>1. <<a>> \in Seq({a, b, c, d}) /\ <<a, b>> \in Seq({a, b, c, d}) /\ <<a, b, c>> \in Seq({a, b, c, d})
      /\ <<a, b, c, d>> \in Seq({a, b, c, d})
  OBVIOUS
<1> QED
  BY <1>1 DEF Sequential

LEMMA PlanSequential ==
    ASSUME NEW a \in Attacks, NEW n
    PROVE  Sequential(Plan(a, n)) /\ Plan(a, n) # <<>>
BY Tuples DEF Attacks, Plan

LEMMA TailSequential ==
    ASSUME NEW q, Sequential(q), q # <<>>
    PROVE  Sequential(Tail(q)) /\ (Len(q) = 1 => Tail(q) = <<>>) /\ (Len(q) # 1 => Tail(q) # <<>>)
<1>1. PICK S : q \in Seq(S)
  BY DEF Sequential
<1>2. Tail(q) \in Seq(S) /\ Len(Tail(q)) = Len(q) - 1 /\ Len(q) \in Nat
  BY <1>1, HeadTailProperties, LenProperties
<1>3. Tail(q) = <<>> <=> Len(Tail(q)) = 0
  BY <1>2, EmptySeq
<1> QED
  BY <1>2, <1>3 DEF Sequential

LEMMA ReplyType == kind \in Targets => \A intact \in Replies : intact \in BOOLEAN
BY VerifyType, RunAssumption DEF Replies

LEMMA InitTypes == Init => TypeInv
<1> SUFFICES ASSUME Init PROVE TypeInv
  OBVIOUS
<1>1. <<>> \in AnswerLists
  BY AnswersAre
<1>2. Sequential(<<>>)
  BY EmptySeq DEF Sequential
<1>3. TypeOK
  <2>1. runs \in 0..MaxRuns
    BY RunAssumption DEF Init
  <2>2. answers \in AnswerLists
    BY <1>1 DEF Init
  <2> QED
    BY <2>1, <2>2 DEF Init, TypeOK, Phases, AnswerLists
<1>4. Answered /\ Named
  BY DEF Init, Answered, Tested, Named
<1> QED
  BY <1>2, <1>3, <1>4 DEF Init, TypeInv

(* A control asks, and goes on if the tool said yes. *)
LEMMA ControlTypes ==
    ASSUME TypeInv, NEW step, NEW next,
           \/ step = "verify clean" /\ next = "reload clean"
           \/ step = "verify reloaded" /\ next = "snapshot before",
           Control(step, next)
    PROVE  TypeInv'
<1>1. PICK intact \in Replies :
        /\ answers' = Append(answers, intact)
        /\ IF intact THEN Goto(next) /\ UNCHANGED outcome ELSE Return("n/a")
  BY DEF Control
<1>2. intact \in BOOLEAN
  BY <1>1, ReplyType DEF TypeInv, TypeOK
<1>3. /\ kind' = kind /\ attack' = attack /\ calls' = calls /\ runs' = runs /\ misfired' = misfired
      /\ pc = step
  BY DEF Control, Ask
<1>4. calls = <<>>
  BY <1>3 DEF TypeInv, TypeOK
<1>5. \/ step = "verify clean" /\ answers' = <<intact>>
      \/ step = "verify reloaded" /\ answers' = <<TRUE, intact>>
  <2>1. step = "verify clean" => answers = <<>>
    BY <1>3 DEF TypeInv, Answered
  <2>2. step = "verify reloaded" => answers = <<TRUE>>
    BY <1>3 DEF TypeInv, Answered
  <2>3. Append(<<>>, intact) = <<intact>> /\ Append(<<TRUE>>, intact) = <<TRUE, intact>>
    BY <1>2, AnswersAre
  <2> QED
    BY <1>1, <2>1, <2>2, <2>3
<1>6. answers' \in AnswerLists
  BY <1>2, <1>5, AnswersAre
<1>9. Named'
  BY <1>3 DEF TypeInv, Named
<1>7. CASE intact = TRUE
  <2>1. pc' = next /\ outcome' = outcome
    BY <1>1, <1>7 DEF Goto
  <2>2. TypeOK'
    BY <1>3, <1>4, <1>6, <2>1 DEF TypeInv, TypeOK, Phases, AnswerLists
  <2>3. Answered'
    BY <1>5, <1>7, <2>1 DEF Answered, Tested
  <2> QED
    BY <1>3, <1>9, <2>2, <2>3 DEF TypeInv
<1>8. CASE intact = FALSE
  <2>1. pc' = "teardown" /\ outcome' = "n/a"
    BY <1>1, <1>8 DEF Goto, Return
  <2>2. TypeOK'
    BY <1>3, <1>4, <1>6, <2>1 DEF TypeInv, TypeOK, Phases, Statuses, AnswerLists
  <2>3. Answered'
    BY <2>1 DEF Answered, Tested, Verdicts
  <2> QED
    BY <1>3, <1>9, <2>2, <2>3 DEF TypeInv
<1> QED
  BY <1>2, <1>7, <1>8

(* The steps between the answers. *)
LEMMA QuietTypes ==
    ASSUME TypeInv, pc' \in Phases, answers' = answers, outcome' = outcome,
           \/ pc = "setup" /\ pc' = "seed"
           \/ pc = "seed" /\ pc' = "verify clean"
           \/ pc = "reload clean" /\ pc' = "verify reloaded"
           \/ pc \in Tested /\ pc' \in Tested
           \/ pc = "teardown" /\ pc' = "idle",
           kind' = kind, attack' = attack, runs' = runs, misfired' \in BOOLEAN,
           Sequential(calls'), calls' # <<>> => pc' = "edit"
    PROVE  TypeInv'
<1>1. TypeOK'
  BY DEF TypeInv, TypeOK, Tested
<1>2. Answered'
  BY DEF TypeInv, Answered, Tested
<1>3. Named'
  BY DEF TypeInv, Named, Tested
<1> QED
  BY <1>1, <1>2, <1>3 DEF TypeInv

LEMMA CallTypes ==
    ASSUME TypeInv, pc = "edit", calls # <<>>, CallDone, misfired' \in BOOLEAN
    PROVE  TypeInv'
<1>1. Sequential(calls') /\ (calls' # <<>> => pc' = "edit")
  BY TailSequential DEF TypeInv, CallDone, Goto
<1>2. pc' \in {"edit", "snapshot after"}
  BY DEF CallDone, Goto
<1> QED
  BY <1>1, <1>2, QuietTypes DEF CallDone, Phases, Tested

LEMMA ReturnTypes ==
    ASSUME TypeInv, pc # "idle", NEW status \in {"n/a", "ERROR"}, Return(status), calls' = <<>>, answers' = answers,
           kind' = kind, attack' = attack, runs' = runs, misfired' = misfired
    PROVE  TypeInv'
<1>1. pc' = "teardown" /\ outcome' = status
  BY DEF Return, Goto
<1>2. Sequential(<<>>)
  BY EmptySeq DEF Sequential
<1>3. TypeOK'
  BY <1>1 DEF TypeInv, TypeOK, Phases, Statuses
<1>4. Answered' /\ Named'
  BY <1>1 DEF Answered, Tested, Verdicts, Named, TypeInv
<1> QED
  BY <1>2, <1>3, <1>4 DEF TypeInv

LEMMA NextTypes == TypeInv /\ [Next]_vars => TypeInv'
<1> SUFFICES ASSUME TypeInv, [Next]_vars PROVE TypeInv'
  OBVIOUS
<1>0. /\ pc \in Phases /\ kind \in Targets /\ misfired \in BOOLEAN /\ Sequential(calls)
      /\ calls # <<>> => pc = "edit"
  BY DEF TypeInv, TypeOK
<1>1. CASE Start
  <2>1. <<>> \in AnswerLists
    BY AnswersAre
  <2>2. Sequential(<<>>)
    BY EmptySeq DEF Sequential
  <2>3. TypeOK'
    <3>1. runs' \in 0..MaxRuns
      BY <1>1, RunAssumption DEF Start, TypeInv, TypeOK
    <3>2. pc' \in {"setup", "idle"} /\ (outcome' # NONE => pc' = "idle") /\ outcome' \in {NONE, "n/a"}
      BY <1>1 DEF Start, Goto
    <3> QED
      BY <1>1, <2>1, <3>1, <3>2 DEF Start, TypeInv, TypeOK, Phases, Statuses, AnswerLists
  <2>4. Answered' /\ Named'
    BY <1>1 DEF Start, Goto, Answered, Tested, Named
  <2> QED
    BY <1>1, <2>2, <2>3, <2>4 DEF Start, TypeInv
<1>2. CASE Setup
  BY <1>0, <1>2, QuietTypes DEF Setup, Goto, run, Phases
<1>3. CASE Seed
  BY <1>0, <1>3, QuietTypes DEF Seed, Goto, run, Phases
<1>4. CASE VerifyClean
  BY <1>4, ControlTypes DEF VerifyClean
<1>5. CASE ReloadClean
  BY <1>0, <1>5, QuietTypes DEF ReloadClean, ReloadStore, Goto, run, Phases
<1>6. CASE VerifyReloaded
  BY <1>6, ControlTypes DEF VerifyReloaded
<1>7. CASE SnapshotBefore
  BY <1>0, <1>7, QuietTypes DEF SnapshotBefore, Goto, history, Phases, Tested
<1>8. CASE ReadRecords
  <2>1. CASE Len(records') < NeedsAtLeast(attack)
    BY <1>8, <2>1, ReturnTypes DEF ReadRecords, history
  <2>2. CASE ~(Len(records') < NeedsAtLeast(attack))
    <3>1. pc = "read" /\ calls' = Plan(attack, Len(records')) /\ pc' = "edit" /\ outcome' = outcome
      BY <1>8, <2>2 DEF ReadRecords, Goto
    <3>2. Sequential(calls')
      <4>1. attack \in Attacks
        BY <3>1 DEF TypeInv, Named
      <4> QED
        BY <3>1, <4>1, PlanSequential
    <3> QED
      BY <1>0, <1>8, <3>1, <3>2, QuietTypes DEF ReadRecords, history, Phases, Tested
  <2> QED
    BY <2>1, <2>2
<1>9. CASE Edit
  <2>1. misfired' \in BOOLEAN
    BY <1>9 DEF Edit
  <2> QED
    BY <1>9, <2>1, CallTypes DEF Edit
<1>10. CASE ReadBoth
  BY <1>0, <1>10, CallTypes DEF ReadBoth, AtCall, history
<1>11. CASE TakeCopy
  BY <1>0, <1>11, CallTypes DEF TakeCopy, AtCall, history
<1>12. CASE ReadGrown
  BY <1>0, <1>12, CallTypes DEF ReadGrown, AtCall, history
<1>13. CASE PutBack
  <2>1. misfired' \in BOOLEAN
    BY <1>13 DEF PutBack
  <2> QED
    BY <1>13, <2>1, CallTypes DEF PutBack, AtCall
<1>14. CASE SnapshotAfter
  BY <1>0, <1>14, QuietTypes DEF SnapshotAfter, Goto, history, Phases, Tested
<1>15. CASE CheckLanded
  <2>1. /\ pc = "check landed" /\ calls = <<>> /\ calls' = calls /\ answers' = answers
        /\ kind' = kind /\ attack' = attack /\ runs' = runs /\ misfired' = misfired
        /\ \/ Goto("reload edited") /\ outcome' = outcome
           \/ Return("ERROR")
    BY <1>0, <1>15 DEF CheckLanded, history
  <2>2. CASE Goto("reload edited") /\ outcome' = outcome
    BY <1>0, <2>1, <2>2, QuietTypes DEF Goto, Phases, Tested
  <2>3. CASE Return("ERROR")
    BY <2>1, <2>3, ReturnTypes
  <2> QED
    BY <2>1, <2>2, <2>3
<1>16. CASE ReloadEdited
  BY <1>0, <1>16, QuietTypes DEF ReloadEdited, ReloadStore, Goto, run, Phases, Tested
<1>17. CASE VerifyEdited
  <2>1. PICK intact \in Replies :
          answers' = Append(answers, intact) /\ Return(IF intact THEN "VULNERABLE" ELSE "safe")
    BY <1>17 DEF VerifyEdited
  <2>2. intact \in BOOLEAN
    BY <1>0, <2>1, ReplyType
  <2>3. /\ pc = "verify edited" /\ kind' = kind /\ attack' = attack /\ calls' = calls /\ calls = <<>>
        /\ runs' = runs /\ misfired' = misfired
    BY <1>0, <1>17 DEF VerifyEdited, Ask
  <2>4. answers = <<TRUE, TRUE>>
    BY <2>3 DEF TypeInv, Answered, Tested
  <2>5. answers' = <<TRUE, TRUE, intact>> /\ answers' \in AnswerLists
    BY <2>1, <2>2, <2>4, AnswersAre
  <2>6. pc' = "teardown" /\ outcome' = IF intact THEN "VULNERABLE" ELSE "safe"
    BY <2>1 DEF Return, Goto
  <2>7. TypeOK'
    BY <2>3, <2>5, <2>6 DEF TypeInv, TypeOK, Phases, Statuses, AnswerLists
  <2>8. Answered'
    <3>1. CASE intact = TRUE
      <4>1. answers' = <<TRUE, TRUE, TRUE>> /\ outcome' = "VULNERABLE"
        BY <2>5, <2>6, <3>1
      <4> QED
        BY <2>6, <4>1 DEF Answered, Tested
    <3>2. CASE intact = FALSE
      <4>1. answers' = <<TRUE, TRUE, FALSE>> /\ outcome' = "safe"
        BY <2>5, <2>6, <3>2
      <4>2. (outcome' = "VULNERABLE") = FALSE
        BY <4>1
      <4> QED
        BY <2>6, <4>1, <4>2 DEF Answered, Tested
    <3> QED
      BY <2>2, <3>1, <3>2
  <2>9. Named'
    BY <2>3 DEF TypeInv, Named
  <2> QED
    BY <1>0, <2>3, <2>7, <2>8, <2>9 DEF TypeInv
<1>18. CASE Raise
  BY <1>18, ReturnTypes DEF Raise, history
<1>19. CASE Teardown
  BY <1>0, <1>19, QuietTypes DEF Teardown, Goto, run, Phases
<1>20. CASE TeardownRaises
  BY <1>0, <1>20, QuietTypes DEF TeardownRaises, Goto, run, history, Phases
<1>21. CASE UNCHANGED vars
  BY <1>21 DEF TypeInv, TypeOK, Answered, Named, vars, run, history
<1> QED
  BY <1>1, <1>2, <1>3, <1>4, <1>5, <1>6, <1>7, <1>8, <1>9, <1>10, <1>11, <1>12, <1>13, <1>14,
     <1>15, <1>16, <1>17, <1>18, <1>19, <1>20, <1>21 DEF Next, Step, Tamper

LEMMA Types == Spec => []TypeInv
BY InitTypes, NextTypes, PTL DEF Spec

(* The run is always at one of its steps, with a list of at most three answers,    *)
(* a result only once it has returned, calls only while it edits (base.py).       *)
THEOREM TypeCorrect == Spec => []TypeOK
BY Types, PTL DEF TypeInv

-----------------------------------------------------------------------------
(* The tables a plain store holds. *)

Texts == [from : {"a", "b", "late", "forged"}, n : Nat, tampered : BOOLEAN]
Metas == [ts : Nat, marked : BOOLEAN]
Rows == [id : Nat, owner : {CTX, OTHER_CTX}, text : Texts, meta : Metas]
Table(s) == s \in [rows : Seq(Rows), next : Nat, readsAll : BOOLEAN]
Own(s) == Table(s) /\ \A i \in DOMAIN s.rows : s.rows[i].owner = CTX

(* A row of the table, and the table with one row in the place of another. *)
With(r, text, meta) == [id |-> r.id, owner |-> r.owner, text |-> text, meta |-> meta]
Put(s, p, r) == [rows |-> [s.rows EXCEPT ![p] = r], next |-> s.next, readsAll |-> s.readsAll]

LEMMA WithIsRow ==
    ASSUME NEW r \in Rows, NEW text \in Texts, NEW meta \in Metas
    PROVE  /\ With(r, text, meta) \in Rows
           /\ With(r, text, meta).id = r.id /\ With(r, text, meta).owner = r.owner
           /\ With(r, text, meta).text = text /\ With(r, text, meta).meta = meta
BY DEF With, Rows

LEMMA RowIs ==
    ASSUME NEW r \in Rows
    PROVE  /\ r.id \in Nat /\ r.owner \in {CTX, OTHER_CTX} /\ r.text \in Texts /\ r.meta \in Metas
           /\ r = With(r, r.text, r.meta)
BY DEF With, Rows

LEMMA SameRowIs ==
    ASSUME NEW r \in Rows, NEW q \in Rows, r.id = q.id, r.owner = q.owner, r.text = q.text, r.meta = q.meta
    PROVE  r = q
BY DEF Rows

LEMMA TableIs ==
    ASSUME NEW s, Table(s)
    PROVE  /\ s.rows \in Seq(Rows) /\ s.next \in Nat /\ s.readsAll \in BOOLEAN
           /\ Len(s.rows) \in Nat /\ DOMAIN s.rows = 1..Len(s.rows)
           /\ \A i \in 1..Len(s.rows) : s.rows[i] \in Rows
BY LenProperties, ElementOfSeq DEF Table

LEMMA PutIs ==
    ASSUME NEW s, Table(s), NEW p \in 1..Len(s.rows), NEW r \in Rows
    PROVE  /\ Table(Put(s, p, r)) /\ Put(s, p, r).readsAll = s.readsAll /\ Put(s, p, r).next = s.next
           /\ Len(Put(s, p, r).rows) = Len(s.rows)
           /\ Put(s, p, r).rows[p] = r
           /\ \A i \in 1..Len(s.rows) : i # p => Put(s, p, r).rows[i] = s.rows[i]
<1>1. s.rows \in Seq(Rows) /\ s.next \in Nat /\ s.readsAll \in BOOLEAN
  BY TableIs
<1>2. /\ [s.rows EXCEPT ![p] = r] \in Seq(Rows) /\ Len([s.rows EXCEPT ![p] = r]) = Len(s.rows)
      /\ \A j \in 1..Len(s.rows) : [s.rows EXCEPT ![p] = r][j] = IF j = p THEN r ELSE s.rows[j]
  BY <1>1, ExceptSeq
<1> QED
  BY <1>1, <1>2 DEF Put, Table

Contained(x, text, meta) ==
    /\ [[x EXCEPT !.text = text] EXCEPT !.meta = meta] = With(x, text, meta)
    /\ [x EXCEPT !.text = text] = With(x, text, x.meta)
    /\ [x EXCEPT !.meta = meta] = With(x, x.text, meta)
LEMMA Contents ==
    ASSUME NEW x \in Rows, NEW text, NEW meta
    PROVE  Contained(x, text, meta)
<1> DEFINE i == x.id  o == x.owner  t == x.text  m == x.meta
<1>1. x = [id |-> i, owner |-> o, text |-> t, meta |-> m]
  BY DEF Rows
<1>2. /\ With(x, text, meta) = [id |-> i, owner |-> o, text |-> text, meta |-> meta]
      /\ With(x, text, x.meta) = [id |-> i, owner |-> o, text |-> text, meta |-> m]
      /\ With(x, x.text, meta) = [id |-> i, owner |-> o, text |-> t, meta |-> meta]
  BY DEF With
<1> HIDE DEF i, o, t, m
<1>3. [x EXCEPT !.text = text] = [id |-> i, owner |-> o, text |-> text, meta |-> m]
  BY <1>1
<1>4. [x EXCEPT !.meta = meta] = [id |-> i, owner |-> o, text |-> t, meta |-> meta]
  BY <1>1
<1>5. [[x EXCEPT !.text = text] EXCEPT !.meta = meta] = [id |-> i, owner |-> o, text |-> text, meta |-> meta]
  <2> DEFINE y == [x EXCEPT !.text = text]
  <2>1. y = [id |-> i, owner |-> o, text |-> text, meta |-> m]
    BY <1>3
  <2> HIDE DEF y
  <2>2. [y EXCEPT !.meta = meta] = [id |-> i, owner |-> o, text |-> text, meta |-> meta]
    BY <2>1
  <2> QED
    BY <2>2 DEF y
<1> QED
  BY <1>2, <1>3, <1>4, <1>5 DEF Contained

Rewrites(s, p, text, meta) ==
    /\ [s EXCEPT !.rows[p].text = text, !.rows[p].meta = meta] = Put(s, p, With(s.rows[p], text, meta))
    /\ [s EXCEPT !.rows[p].text = text] = Put(s, p, With(s.rows[p], text, s.rows[p].meta))
    /\ [s EXCEPT !.rows[p].meta = meta] = Put(s, p, With(s.rows[p], s.rows[p].text, meta))
LEMMA Rewrite ==
    ASSUME NEW s, Table(s), NEW p \in 1..Len(s.rows), NEW text, NEW meta
    PROVE  Rewrites(s, p, text, meta)
<1> DEFINE q == s.rows
<1>0. /\ q \in Seq(Rows) /\ s = [rows |-> q, next |-> s.next, readsAll |-> s.readsAll]
      /\ q[p] \in Rows /\ q[p] = [id |-> q[p].id, owner |-> q[p].owner, text |-> q[p].text, meta |-> q[p].meta]
      /\ p \in DOMAIN q
  BY TableIs, RowIs DEF Table, With
<1> DEFINE x == q[p]
<1>1. Contained(x, text, meta)
  BY <1>0, Contents
<1>2. [s EXCEPT !.rows[p].text = text] = [s EXCEPT !.rows = [q EXCEPT ![p] = [x EXCEPT !.text = text]]]
  BY <1>0
<1>3. [s EXCEPT !.rows[p].meta = meta] = [s EXCEPT !.rows = [q EXCEPT ![p] = [x EXCEPT !.meta = meta]]]
  BY <1>0
<1>4. [s EXCEPT !.rows[p].text = text, !.rows[p].meta = meta]
        = [s EXCEPT !.rows = [q EXCEPT ![p] = [[x EXCEPT !.text = text] EXCEPT !.meta = meta]]]
  BY <1>0
<1>5. \A z : [s EXCEPT !.rows = z] = [rows |-> z, next |-> s.next, readsAll |-> s.readsAll]
  BY <1>0
<1> QED
  BY <1>1, <1>2, <1>3, <1>4, <1>5 DEF Put, Contained, Rewrites

-----------------------------------------------------------------------------
(* Where the rows of a context are. *)

LEMMA BlockCount ==
    ASSUME NEW a \in Nat, NEW b \in Nat, a <= b + 1
    PROVE  /\ Cardinality(a..b) = b - a + 1
           /\ \A i \in a..b : Cardinality({j \in a..b : j < i}) = i - a
<1>1. Cardinality(a..b) = b - a + 1
  BY FS_Interval
<1>2. ASSUME NEW i \in a..b PROVE Cardinality({j \in a..b : j < i}) = i - a
  <2>1. {j \in a..b : j < i} = a..(i-1)
    OBVIOUS
  <2>2. Cardinality(a..(i-1)) = i - a
    <3>1. i - 1 \in Int /\ a \in Int /\ a <= i
      OBVIOUS
    <3> DEFINE k == i - 1
    <3>2. k \in Int /\ a <= k + 1
      BY <3>1
    <3>3. Cardinality(a..k) = IF a > k THEN 0 ELSE k - a + 1
      BY <3>1, <3>2, FS_Interval
    <3> QED
      BY <3>3
  <2> QED
    BY <2>1, <2>2
<1> QED
  BY <1>1, <1>2

Block(a, n) == [k \in 1..n |-> a + k - 1]
HereAre(s, o, a, b) == {i \in DOMAIN s.rows : s.rows[i].owner = o} = a..b
LEMMA PlacesBlock ==
    ASSUME NEW s, NEW o, NEW a \in Nat \ {0}, NEW n \in Nat,
           NEW b, b = a + n - 1, HereAre(s, o, a, b)
    PROVE  Plain!Places(s, o) = Block(a, n)
<1> DEFINE here == {i \in DOMAIN s.rows : s.rows[i].owner = o}
<1>1. here = a..b
  BY DEF HereAre
<1>2. b \in Nat /\ a <= b + 1 /\ b - a + 1 = n
  OBVIOUS
<1>3. Plain!Places(s, o)
        = [k \in 1..Cardinality(here) |-> CHOOSE i \in here : Cardinality({j \in here : j < i}) = k - 1]
  BY DEF Plain!Places, Plain!Cardinality, Cardinality, Plain!IsFiniteSet, IsFiniteSet
<1> HIDE DEF here
<1>4. Cardinality(here) = n /\ \A i \in here : Cardinality({j \in here : j < i}) = i - a
  BY <1>1, <1>2, BlockCount
<1>5. ASSUME NEW k \in 1..n
      PROVE  (CHOOSE i \in here : Cardinality({j \in here : j < i}) = k - 1) = a + k - 1
  <2> DEFINE i0 == CHOOSE i \in here : Cardinality({j \in here : j < i}) = k - 1
  <2>1. a + k - 1 \in here /\ (a + k - 1) - a = k - 1
    BY <1>1, <1>2
  <2>2. i0 \in here /\ Cardinality({j \in here : j < i0}) = k - 1
    BY <1>4, <2>1
  <2>3. i0 \in a..b /\ i0 - a = k - 1
    BY <1>1, <1>4, <2>2
  <2> HIDE DEF i0
  <2>4. i0 = a + k - 1
    BY <1>2, <2>3
  <2> QED
    BY <2>4 DEF i0
<1> QED
  BY <1>3, <1>4, <1>5 DEF Block

LEMMA OwnReads ==
    ASSUME NEW s, Own(s)
    PROVE  /\ Plain!Places(s, CTX) = [k \in 1..Len(s.rows) |-> k]
           /\ Plain!Ordinals(s) = 0..(Len(s.rows) - 1)
           /\ \A o \in 0..(Len(s.rows) - 1) : Plain!Slot(s, o) = o + 1
           /\ Plain!ReadTable(s) = s.rows
<1> DEFINE n == Len(s.rows)
<1>1. /\ n \in Nat /\ DOMAIN s.rows = 1..n /\ s.rows \in Seq(Rows) /\ s.readsAll \in BOOLEAN
      /\ \A i \in DOMAIN s.rows : s.rows[i].owner = CTX
  BY TableIs DEF Own
<1>2. HereAre(s, CTX, 1, n) /\ n = 1 + n - 1
  BY <1>1 DEF HereAre
<1>3. Plain!Places(s, CTX) = Block(1, n)
  BY <1>1, <1>2, PlacesBlock
<1> DEFINE p == Plain!Places(s, CTX)
<1>4. p = [k \in 1..n |-> k]
  BY <1>1, <1>3 DEF Block
<1> HIDE DEF p, n
<1>5. p \in Seq(Nat) /\ Len(p) = n
  BY <1>1, <1>4
<1>6. Plain!Ordinals(s) = 0..(n - 1)
  BY <1>5 DEF Plain!Ordinals, p
<1>7. \A o \in 0..(n - 1) : Plain!Slot(s, o) = o + 1
  BY <1>1, <1>4 DEF Plain!Slot, p
<1>8. Plain!ViewOf(s, CTX) = s.rows
  <2>1. Plain!ViewOf(s, CTX) = [k \in 1..n |-> s.rows[p[k]]]
    BY <1>5 DEF Plain!ViewOf, p
  <2>2. [k \in 1..n |-> s.rows[p[k]]] = [k \in 1..n |-> s.rows[k]]
    BY <1>4
  <2>3. [k \in 1..n |-> s.rows[k]] = s.rows
    BY <1>1
  <2> QED
    BY <2>1, <2>2, <2>3
<1>9. Plain!ReadTable(s) = s.rows
  BY <1>8 DEF Plain!ReadTable
<1> QED
  BY <1>4, <1>6, <1>7, <1>9 DEF p, n

-----------------------------------------------------------------------------
(* The raw operations on the rows a context has. *)

Aligned(s, n) ==
    /\ Table(s) /\ n \in 0..Len(s.rows)
    /\ Plain!Ordinals(s) = 0..(n - 1)
    /\ \A o \in 0..(n - 1) : Plain!Slot(s, o) = o + 1 /\ Plain!Places(s, CTX)[o + 1] = o + 1

LEMMA OwnAligned ==
    ASSUME NEW s, Own(s)
    PROVE  Aligned(s, Len(s.rows))
<1>1. Len(s.rows) \in Nat /\ Table(s)
  BY TableIs DEF Own
<1>2. \A o \in 0..(Len(s.rows) - 1) : Plain!Places(s, CTX)[o + 1] = o + 1
  BY <1>1, OwnReads
<1> QED
  BY <1>1, <1>2, OwnReads DEF Aligned

Marked(r) == With(r, r.text, [r.meta EXCEPT !.marked = TRUE])

LEMMA WriteAtIs ==
    ASSUME NEW s, NEW n, Aligned(s, n), NEW o \in 0..(n - 1), NEW row
    PROVE  /\ Plain!WriteAt(s, o, row) = Put(s, o + 1, With(s.rows[o + 1], row.text, row.meta))
           /\ Plain!ReplayAt(s, o, row) = Put(s, o + 1, With(s.rows[o + 1], row.text, row.meta))
<1>1. /\ o \in Plain!Ordinals(s) /\ Plain!Places(s, CTX)[o + 1] = o + 1 /\ Plain!Slot(s, o) = o + 1
      /\ Table(s) /\ o + 1 \in 1..Len(s.rows)
  BY TableIs DEF Aligned
<1> DEFINE p == o + 1
<1>2. [s EXCEPT !.rows[p].text = row.text, !.rows[p].meta = row.meta]
        = Put(s, p, With(s.rows[p], row.text, row.meta))
  <2>1. Rewrites(s, p, row.text, row.meta)
    BY <1>1, Rewrite
  <2> QED
    BY <2>1 DEF Rewrites
<1>3. Plain!WriteAt(s, o, row) = [s EXCEPT !.rows[p].text = row.text, !.rows[p].meta = row.meta]
  BY <1>1 DEF Plain!WriteAt
<1>4. Plain!ReplayAt(s, o, row) = [s EXCEPT !.rows[p].text = row.text, !.rows[p].meta = row.meta]
  BY <1>1 DEF Plain!ReplayAt
<1> QED
  BY <1>2, <1>3, <1>4

LEMMA MarkAtIs ==
    ASSUME NEW s, NEW n, Aligned(s, n), NEW o \in 0..(n - 1)
    PROVE  Plain!MarkAt(s, o) = Put(s, o + 1, Marked(s.rows[o + 1]))
<1>1. Plain!Slot(s, o) = o + 1 /\ Table(s) /\ o + 1 \in 1..Len(s.rows)
  BY TableIs DEF Aligned
<1> DEFINE p == o + 1
           meta == [s.rows[p].meta EXCEPT !.marked = TRUE]
<1>2. [s EXCEPT !.rows[p].meta = meta] = Put(s, p, With(s.rows[p], s.rows[p].text, meta))
  <2>1. Rewrites(s, p, s.rows[p].text, meta)
    BY <1>1, Rewrite
  <2> QED
    BY <2>1 DEF Rewrites
<1>3. Plain!MarkAt(s, o) = [s EXCEPT !.rows[p].meta = meta]
  BY <1>1 DEF Plain!MarkAt
<1> QED
  BY <1>2, <1>3 DEF Marked

LEMMA DeleteAtIs ==
    ASSUME NEW s, NEW n, Aligned(s, n), NEW o \in 0..(n - 1)
    PROVE  Plain!DeleteAt(s, o)
             = [rows |-> RemoveAt(s.rows, o + 1), next |-> s.next, readsAll |-> s.readsAll]
<1>1. Plain!Slot(s, o) = o + 1 /\ Table(s)
  BY DEF Aligned
<1>2. s = [rows |-> s.rows, next |-> s.next, readsAll |-> s.readsAll]
  BY <1>1 DEF Table
<1> DEFINE q == RemoveAt(s.rows, o + 1)
<1>3. Plain!DeleteAt(s, o) = [s EXCEPT !.rows = q]
  BY <1>1 DEF Plain!DeleteAt, Plain!RemoveAt, RemoveAt
<1> HIDE DEF q
<1>4. [s EXCEPT !.rows = q] = [rows |-> q, next |-> s.next, readsAll |-> s.readsAll]
  BY <1>2
<1> QED
  BY <1>3, <1>4 DEF q

LEMMA WriteByIdIs ==
    ASSUME NEW s, Table(s), NEW p \in 1..Len(s.rows), NEW row,
           \A i \in 1..Len(s.rows) : s.rows[i].id = row.id <=> i = p
    PROVE  Plain!WriteById(s, row) = Put(s, p, With(s.rows[p], row.text, s.rows[p].meta))
<1> DEFINE same == {i \in DOMAIN s.rows : s.rows[i].id = row.id}
<1>1. DOMAIN s.rows = 1..Len(s.rows)
  BY TableIs
<1>2. same = {p}
  BY <1>1
<1>3. Plain!WriteById(s, row)
        = IF same = {} THEN [s EXCEPT !.rows = Append(@, row)]
          ELSE [s EXCEPT !.rows[CHOOSE i \in same : TRUE].text = row.text]
  BY DEF Plain!WriteById
<1> HIDE DEF same
<1>4. (CHOOSE i \in same : TRUE) = p /\ same # {}
  BY <1>2
<1>5. Plain!WriteById(s, row) = [s EXCEPT !.rows[p].text = row.text]
  BY <1>3, <1>4
<1>6. [s EXCEPT !.rows[p].text = row.text] = Put(s, p, With(s.rows[p], row.text, s.rows[p].meta))
  <2>1. Rewrites(s, p, row.text, row.text)
    BY Rewrite
  <2> QED
    BY <2>1 DEF Rewrites
<1> QED
  BY <1>5, <1>6

Moves(r, donor) == [id |-> r.id, owner |-> donor.owner, text |-> donor.text, meta |-> r.meta]
LEMMA ReplayMovesIs ==
    ASSUME NEW s, NEW n, Aligned(s, n), NEW o \in 0..(n - 1), NEW donor
    PROVE  Plain!ReplayMovesOwner(s, o, donor) = Put(s, o + 1, Moves(s.rows[o + 1], donor))
<1> DEFINE p == o + 1
           q == s.rows
           x == q[p]
<1>1. Plain!Slot(s, o) = p /\ Table(s) /\ p \in 1..Len(s.rows)
  BY TableIs DEF Aligned
<1>2. Plain!ReplayMovesOwner(s, o, donor) = [s EXCEPT !.rows[p].text = donor.text, !.rows[p].owner = donor.owner]
  BY <1>1 DEF Plain!ReplayMovesOwner
<1>3. /\ q \in Seq(Rows) /\ s = [rows |-> q, next |-> s.next, readsAll |-> s.readsAll]
      /\ x \in Rows /\ p \in DOMAIN q
  BY <1>1, TableIs DEF Table
<1> HIDE DEF p
<1>4. [s EXCEPT !.rows[p].text = donor.text, !.rows[p].owner = donor.owner]
        = [s EXCEPT !.rows = [q EXCEPT ![p] = [[x EXCEPT !.text = donor.text] EXCEPT !.owner = donor.owner]]]
  BY <1>3
<1>5. [[x EXCEPT !.text = donor.text] EXCEPT !.owner = donor.owner] = Moves(x, donor)
  <2> DEFINE y == [x EXCEPT !.text = donor.text]
             i == x.id  w == x.owner  m == x.meta
  <2>1. y = [id |-> i, owner |-> w, text |-> donor.text, meta |-> m]
    BY <1>3, Contents DEF Contained, With
  <2> HIDE DEF y, i, w, m
  <2>2. [y EXCEPT !.owner = donor.owner] = [id |-> i, owner |-> donor.owner, text |-> donor.text, meta |-> m]
    BY <2>1
  <2> QED
    BY <2>2 DEF y, i, m, Moves
<1>6. \A z : [s EXCEPT !.rows = z] = [rows |-> z, next |-> s.next, readsAll |-> s.readsAll]
  BY <1>3
<1> QED
  BY <1>2, <1>4, <1>5, <1>6 DEF Put, p

Extended(s, row) ==
    [rows |-> Append(s.rows, row), next |-> s.next + 1, readsAll |-> s.readsAll]
LEMMA AddRowIs ==
    ASSUME NEW s, NEW n, Aligned(s, n), NEW row \in Rows
    PROVE  Plain!WriteAt(s, n, row) = Extended(s, [row EXCEPT !.id = s.next])
<1>1. n \notin Plain!Ordinals(s) /\ Table(s)
  BY TableIs DEF Aligned
<1>2. s = [rows |-> s.rows, next |-> s.next, readsAll |-> s.readsAll]
  BY <1>1 DEF Table
<1> DEFINE new == [row EXCEPT !.id = s.next]
<1>3. Plain!WriteAt(s, n, row) = [s EXCEPT !.rows = Append(@, new), !.next = @ + 1]
  BY <1>1 DEF Plain!WriteAt, Plain!AddRow
<1> DEFINE q == Append(s.rows, new)
           m == s.next + 1
<1>4. Plain!WriteAt(s, n, row) = [s EXCEPT !.rows = q, !.next = m]
  BY <1>3
<1>5. Extended(s, new) = [rows |-> q, next |-> m, readsAll |-> s.readsAll]
  BY DEF Extended
<1> HIDE DEF new, q, m
<1>6. [s EXCEPT !.rows = q, !.next = m] = [rows |-> q, next |-> m, readsAll |-> s.readsAll]
  <2> DEFINE y == [s EXCEPT !.rows = q]
  <2>1. y = [rows |-> q, next |-> s.next, readsAll |-> s.readsAll]
    BY <1>2
  <2> HIDE DEF y
  <2>2. [y EXCEPT !.next = m] = [rows |-> q, next |-> m, readsAll |-> s.readsAll]
    BY <2>1
  <2> QED
    BY <2>2 DEF y
<1> QED
  BY <1>4, <1>5, <1>6 DEF new

LEMMA ExtendedIs ==
    ASSUME NEW s, Table(s), NEW row \in Rows
    PROVE  /\ Table(Extended(s, row)) /\ Extended(s, row).readsAll = s.readsAll
           /\ Extended(s, row).rows = Append(s.rows, row) /\ Len(Extended(s, row).rows) = Len(s.rows) + 1
           /\ \A i \in 1..Len(s.rows) : Extended(s, row).rows[i] = s.rows[i]
           /\ Extended(s, row).rows[Len(s.rows) + 1] = row
<1>1. s.rows \in Seq(Rows) /\ s.next \in Nat /\ s.readsAll \in BOOLEAN /\ Len(s.rows) \in Nat
  BY TableIs
<1> DEFINE q == Append(s.rows, row)
<1>2. /\ q \in Seq(Rows) /\ Len(q) = Len(s.rows) + 1 /\ q[Len(s.rows) + 1] = row
      /\ \A i \in 1..Len(s.rows) : q[i] = s.rows[i]
  BY <1>1, AppendProperties
<1> HIDE DEF q
<1>3. Extended(s, row) = [rows |-> q, next |-> s.next + 1, readsAll |-> s.readsAll]
  BY DEF Extended, q
<1>4. /\ Extended(s, row).rows = q /\ Extended(s, row).readsAll = s.readsAll /\ Table(Extended(s, row))
  BY <1>1, <1>2, <1>3 DEF Table
<1> QED
  BY <1>2, <1>4 DEF q

Without(t, q, p) ==
    /\ Len(t) = Len(q) - 1
    /\ \A i \in 1..(Len(q) - 1) : t[i] = IF i < p THEN q[i] ELSE q[i + 1]
LEMMA Rest ==
    ASSUME NEW n \in Nat, NEW p \in 1..n
    PROVE  /\ n - (p + 1) + 1 = n - p /\ (IF p + 1 <= n THEN n - (p + 1) + 1 ELSE 0) = n - p
           /\ \A i \in 1..(n - p) : p + 1 + i - 1 = p + i
OBVIOUS

LEMMA Removed ==
    ASSUME NEW S, NEW q \in Seq(S), NEW p \in 1..Len(q)
    PROVE  RemoveAt(q, p) \in Seq(S) /\ Without(RemoveAt(q, p), q, p)
<1>1. Len(q) \in Nat /\ DOMAIN q = 1..Len(q)
  BY LenProperties
<1> DEFINE l == SubSeq(q, 1, p - 1)
           r == SubSeq(q, p + 1, Len(q))
<1>2. l \in Seq(S) /\ Len(l) = p - 1 /\ \A i \in 1..(p - 1) : l[i] = q[i]
  BY <1>1, SubSeqProperties
<1>3. r \in Seq(S) /\ Len(r) = Len(q) - p /\ \A i \in 1..(Len(q) - p) : r[i] = q[p + i]
  <2>1. \A i \in (p + 1)..Len(q) : q[i] \in S
    BY <1>1, ElementOfSeq
  <2>2. r \in Seq(S) /\ Len(r) = (IF p + 1 <= Len(q) THEN Len(q) - (p + 1) + 1 ELSE 0)
    BY <1>1, <2>1, SubSeqProperties
  <2>3. \A i \in 1..(Len(q) - (p + 1) + 1) : r[i] = q[p + 1 + i - 1]
    BY <1>1, <2>1, SubSeqProperties
  <2>4. /\ Len(q) - (p + 1) + 1 = Len(q) - p /\ (IF p + 1 <= Len(q) THEN Len(q) - (p + 1) + 1 ELSE 0) = Len(q) - p
        /\ \A i \in 1..(Len(q) - p) : p + 1 + i - 1 = p + i
    BY <1>1, Rest
  <2> HIDE DEF r
  <2>5. \A i \in 1..(Len(q) - p) : r[i] = q[p + i]
    BY <2>3, <2>4
  <2> QED
    BY <2>2, <2>4, <2>5
<1>4. /\ RemoveAt(q, p) = l \o r /\ l \o r \in Seq(S) /\ Len(l \o r) = Len(l) + Len(r)
      /\ \A i \in 1..(Len(l) + Len(r)) : (l \o r)[i] = IF i <= Len(l) THEN l[i] ELSE r[i - Len(l)]
  BY <1>2, <1>3, ConcatProperties DEF RemoveAt
<1> HIDE DEF l, r
<1>5. ASSUME NEW i \in 1..(Len(q) - 1) PROVE RemoveAt(q, p)[i] = IF i < p THEN q[i] ELSE q[i + 1]
  <2>1. CASE i < p
    BY <1>1, <1>2, <1>3, <1>4, <2>1
  <2>2. CASE ~(i < p)
    <3>1. i \in 1..(Len(l) + Len(r)) /\ ~(i <= Len(l)) /\ i - Len(l) = i - p + 1 /\ i - p + 1 \in 1..(Len(q) - p)
      BY <1>1, <1>2, <1>3, <2>2
    <3>2. RemoveAt(q, p)[i] = r[i - p + 1]
      BY <1>4, <3>1
    <3>3. r[i - p + 1] = q[p + (i - p + 1)] /\ p + (i - p + 1) = i + 1
      BY <1>1, <1>3, <3>1
    <3> QED
      BY <2>2, <3>2, <3>3
  <2> QED
    BY <2>1, <2>2
<1>6. Len(RemoveAt(q, p)) = Len(q) - 1
  BY <1>1, <1>2, <1>3, <1>4
<1> QED
  BY <1>4, <1>5, <1>6 DEF Without

LEMMA DeletedOwn ==
    ASSUME NEW s, Own(s), NEW o \in 0..(Len(s.rows) - 1)
    PROVE  /\ Own(Plain!DeleteAt(s, o)) /\ Plain!DeleteAt(s, o).rows = RemoveAt(s.rows, o + 1)
           /\ Plain!DeleteAt(s, o).readsAll = s.readsAll
<1>1. /\ s.rows \in Seq(Rows) /\ s.next \in Nat /\ s.readsAll \in BOOLEAN /\ Len(s.rows) \in Nat
      /\ DOMAIN s.rows = 1..Len(s.rows)
  BY TableIs DEF Own
<1> DEFINE q == RemoveAt(s.rows, o + 1)
           n == Len(s.rows)
<1>2. /\ q \in Seq(Rows) /\ Len(q) = n - 1
      /\ \A i \in 1..(n - 1) : q[i] = IF i < o + 1 THEN s.rows[i] ELSE s.rows[i + 1]
  <2>1. o + 1 \in 1..Len(s.rows)
    BY <1>1
  <2>2. q \in Seq(Rows) /\ Without(q, s.rows, o + 1)
    BY <1>1, <2>1, Removed
  <2> HIDE DEF q
  <2> QED
    BY <2>2 DEF Without
<1>3. Plain!DeleteAt(s, o) = [rows |-> q, next |-> s.next, readsAll |-> s.readsAll]
  BY OwnAligned, DeleteAtIs
<1> HIDE DEF q
<1>4. \A i \in DOMAIN q : q[i].owner = CTX
  <2>1. DOMAIN q = 1..(n - 1)
    BY <1>2, LenProperties
  <2>2. \A i \in 1..(n - 1) : i \in 1..n /\ i + 1 \in 1..n
    BY <1>1
  <2>3. \A i \in 1..n : s.rows[i].owner = CTX
    BY <1>1 DEF Own
  <2> HIDE DEF n
  <2> QED
    BY <1>2, <2>1, <2>2, <2>3
<1> QED
  BY <1>1, <1>2, <1>3, <1>4 DEF Own, Table, q

LEMMA PutOwn ==
    ASSUME NEW s, Own(s), NEW p \in 1..Len(s.rows), NEW r \in Rows, r.owner = CTX
    PROVE  Own(Put(s, p, r))
<1>1. Table(s) /\ \A i \in 1..Len(s.rows) : s.rows[i].owner = CTX
  BY TableIs DEF Own
<1> DEFINE t == Put(s, p, r)
<1>2. /\ Table(t) /\ Len(t.rows) = Len(s.rows) /\ t.rows[p] = r
      /\ \A i \in 1..Len(s.rows) : i # p => t.rows[i] = s.rows[i]
  BY <1>1, PutIs
<1> HIDE DEF t
<1>3. \A i \in DOMAIN t.rows : t.rows[i].owner = CTX
  BY <1>1, <1>2, TableIs
<1> QED
  BY <1>2, <1>3 DEF Own, t

LEMMA ExtendedOwn ==
    ASSUME NEW s, Own(s), NEW row \in Rows, row.owner = CTX
    PROVE  Own(Extended(s, row))
<1>1. Table(s) /\ \A i \in 1..Len(s.rows) : s.rows[i].owner = CTX
  BY TableIs DEF Own
<1> DEFINE t == Extended(s, row)
           n == Len(s.rows)
<1>2. /\ Table(t) /\ Len(t.rows) = n + 1 /\ t.rows[n + 1] = row /\ n \in Nat
      /\ \A i \in 1..n : t.rows[i] = s.rows[i]
  BY <1>1, ExtendedIs, TableIs
<1> HIDE DEF t
<1>3. \A i \in DOMAIN t.rows : t.rows[i].owner = CTX
  <2> SUFFICES ASSUME NEW i \in 1..(n + 1) PROVE t.rows[i].owner = CTX
    BY <1>2, TableIs
  <2>1. i \in 1..n \/ i = n + 1
    BY <1>2
  <2> QED
    BY <1>1, <1>2, <2>1
<1> QED
  BY <1>2, <1>3 DEF Own, t

-----------------------------------------------------------------------------
(* The seeded table, and what is added to it. *)

Seeded == [i \in 1..SeedCount |-> Plain!PlainRow(i - 1, CTX, Plain!Text("a", i - 1))]
Others == [i \in 1..SeedCount |->
             Plain!PlainRow(SeedCount + i - 1, OTHER_CTX, Plain!Text("b", i - 1))]
Fresh(s) == Table(s) /\ s.rows = Seeded /\ s.next = SeedCount
Mixed(s) == Table(s) /\ s.rows = Seeded \o Others

SeededRow(k) ==
    /\ Seeded[k] \in Rows /\ Seeded[k].id = k - 1 /\ Seeded[k].owner = CTX
    /\ Seeded[k].text = [from |-> "a", n |-> k - 1, tampered |-> FALSE]
    /\ Seeded[k].meta = [ts |-> k - 1, marked |-> FALSE]
OthersRow(k) ==
    /\ Others[k] \in Rows /\ Others[k].id = SeedCount + k - 1 /\ Others[k].owner = OTHER_CTX
    /\ Others[k].text = [from |-> "b", n |-> k - 1, tampered |-> FALSE]

NewRow(r, id, owner, from, n) ==
    /\ r \in Rows /\ r.id = id /\ r.owner = owner
    /\ r.text = [from |-> from, n |-> n, tampered |-> FALSE]
    /\ r.meta = [ts |-> id, marked |-> FALSE]
LEMMA PlainRowIs ==
    ASSUME NEW id \in Nat, NEW owner \in {CTX, OTHER_CTX}, NEW from \in {"a", "b", "late", "forged"},
           NEW n \in Nat
    PROVE  NewRow(Plain!PlainRow(id, owner, Plain!Text(from, n)), id, owner, from, n)
BY DEF NewRow, Plain!PlainRow, Plain!Text, Rows, Texts, Metas

(* One sequence after another. *)
Joined(q, a, b) ==
    /\ Len(q) = Len(a) + Len(b)
    /\ \A i \in 1..(Len(a) + Len(b)) : q[i] = IF i <= Len(a) THEN a[i] ELSE b[i - Len(a)]
LEMMA Join ==
    ASSUME NEW S, NEW a \in Seq(S), NEW b \in Seq(S)
    PROVE  a \o b \in Seq(S) /\ Joined(a \o b, a, b)
BY ConcatProperties DEF Joined

LEMMA SeededIs ==
    /\ Seeded \in Seq(Rows) /\ Len(Seeded) = SeedCount /\ SeedCount \in Nat /\ SeedCount >= 1
    /\ \A k \in 1..SeedCount : SeededRow(k)
<1>1. SeedCount \in Nat /\ SeedCount >= 1
  BY RunAssumption
<1>2. ASSUME NEW k \in 1..SeedCount PROVE SeededRow(k)
  <2>1. k - 1 \in Nat /\ CTX \in {CTX, OTHER_CTX} /\ "a" \in {"a", "b", "late", "forged"}
    BY <1>1
  <2>2. Seeded[k] = Plain!PlainRow(k - 1, CTX, Plain!Text("a", k - 1))
    BY DEF Seeded
  <2>3. NewRow(Seeded[k], k - 1, CTX, "a", k - 1)
    BY <2>1, <2>2, PlainRowIs
  <2> QED
    BY <2>3 DEF SeededRow, NewRow
<1>3. Seeded \in Seq(Rows) /\ Len(Seeded) = SeedCount
  <2>1. DOMAIN Seeded = 1..SeedCount /\ Seeded = [i \in 1..SeedCount |-> Seeded[i]]
    BY DEF Seeded
  <2>2. \A i \in 1..SeedCount : Seeded[i] \in Rows
    BY <1>2 DEF SeededRow
  <2> QED
    BY <1>1, <2>1, <2>2
<1> QED
  BY <1>1, <1>2, <1>3

LEMMA OthersIs ==
    /\ Others \in Seq(Rows) /\ Len(Others) = SeedCount
    /\ \A k \in 1..SeedCount : OthersRow(k)
<1>1. SeedCount \in Nat /\ SeedCount >= 1
  BY RunAssumption
<1>2. ASSUME NEW k \in 1..SeedCount PROVE OthersRow(k)
  <2>1. k - 1 \in Nat /\ SeedCount + k - 1 \in Nat /\ OTHER_CTX \in {CTX, OTHER_CTX}
        /\ "b" \in {"a", "b", "late", "forged"}
    BY <1>1
  <2>2. Others[k] = Plain!PlainRow(SeedCount + k - 1, OTHER_CTX, Plain!Text("b", k - 1))
    BY DEF Others
  <2>3. NewRow(Others[k], SeedCount + k - 1, OTHER_CTX, "b", k - 1)
    BY <2>1, <2>2, PlainRowIs
  <2> QED
    BY <2>3 DEF OthersRow, NewRow
<1>3. Others \in Seq(Rows) /\ Len(Others) = SeedCount
  <2>1. DOMAIN Others = 1..SeedCount /\ Others = [i \in 1..SeedCount |-> Others[i]]
    BY DEF Others
  <2>2. \A i \in 1..SeedCount : Others[i] \in Rows
    BY <1>2 DEF OthersRow
  <2> QED
    BY <1>1, <2>1, <2>2
<1> QED
  BY <1>1, <1>2, <1>3

LEMMA TextsDiffer ==
    ASSUME NEW i \in 1..SeedCount, NEW j \in 1..SeedCount
    PROVE  /\ i # j => Seeded[i].text # Seeded[j].text
           /\ Seeded[i].text # Others[j].text
<1>1. SeededRow(i) /\ SeededRow(j) /\ OthersRow(j) /\ SeedCount \in Nat
  BY SeededIs, OthersIs
<1>2. /\ Seeded[i].text.n = i - 1 /\ Seeded[j].text.n = j - 1
      /\ Seeded[i].text.from = "a" /\ Others[j].text.from = "b"
  BY <1>1 DEF SeededRow, OthersRow
<1>3. i # j => i - 1 # j - 1
  BY <1>1
<1>4. "a" # "b"
  OBVIOUS
<1> QED
  BY <1>2, <1>3, <1>4

LEMMA MixedRows ==
    ASSUME NEW s, Mixed(s)
    PROVE  /\ Table(s) /\ Len(s.rows) = 2 * SeedCount
           /\ \A k \in 1..SeedCount : s.rows[k] = Seeded[k] /\ s.rows[SeedCount + k] = Others[k]
           /\ \A k \in (SeedCount + 1)..(2 * SeedCount) :
                k - SeedCount \in 1..SeedCount /\ s.rows[k] = Others[k - SeedCount]
<1>1. s.rows = Seeded \o Others /\ SeedCount \in Nat
  BY SeededIs DEF Mixed
<1>2. /\ Len(Seeded \o Others) = SeedCount + SeedCount
      /\ \A k \in 1..(SeedCount + SeedCount) :
           (Seeded \o Others)[k] = IF k <= SeedCount THEN Seeded[k] ELSE Others[k - SeedCount]
  <2>1. Joined(Seeded \o Others, Seeded, Others) /\ Len(Seeded) = SeedCount /\ Len(Others) = SeedCount
    BY SeededIs, OthersIs, Join
  <2> QED
    BY <2>1 DEF Joined
<1>3. ASSUME NEW k \in 1..SeedCount PROVE s.rows[k] = Seeded[k] /\ s.rows[SeedCount + k] = Others[k]
  <2>1. k \in 1..(SeedCount + SeedCount) /\ k <= SeedCount /\ SeedCount + k \in 1..(SeedCount + SeedCount)
        /\ ~(SeedCount + k <= SeedCount) /\ (SeedCount + k) - SeedCount = k
    BY <1>1
  <2> QED
    BY <1>1, <1>2, <2>1
<1>4. ASSUME NEW k \in (SeedCount + 1)..(2 * SeedCount)
      PROVE  k - SeedCount \in 1..SeedCount /\ s.rows[k] = Others[k - SeedCount]
  <2>1. k \in 1..(SeedCount + SeedCount) /\ ~(k <= SeedCount) /\ k - SeedCount \in 1..SeedCount
    BY <1>1
  <2> QED
    BY <1>1, <1>2, <2>1
<1>5. SeedCount + SeedCount = 2 * SeedCount
  BY <1>1
<1> QED
  BY <1>1, <1>2, <1>3, <1>4, <1>5 DEF Mixed

LEMMA FreshOwn ==
    ASSUME NEW s, Fresh(s)
    PROVE  Own(s) /\ Len(s.rows) = SeedCount /\ Aligned(s, SeedCount)
<1>1. Table(s) /\ s.rows = Seeded
  BY DEF Fresh
<1>2. \A i \in DOMAIN s.rows : s.rows[i].owner = CTX
  BY <1>1, SeededIs, LenProperties DEF SeededRow
<1>3. Own(s) /\ Len(s.rows) = SeedCount
  BY <1>1, <1>2, SeededIs DEF Own
<1> QED
  BY <1>3, OwnAligned

-----------------------------------------------------------------------------
(* Seeding and growing. *)

New(s, owner, from, n) ==
    [i \in 1..n |-> Plain!PlainRow(s.next + i - 1, owner, Plain!Text(from, i - 1))]
Grown(s, new, n) == [rows |-> s.rows \o new, next |-> s.next + n, readsAll |-> s.readsAll]

LEMMA GrowIs ==
    ASSUME NEW s, Table(s), NEW owner, NEW from, NEW n
    PROVE  Plain!Grow(s, owner, from, n) = Grown(s, New(s, owner, from, n), n)
<1> DEFINE new == New(s, owner, from, n)
           q == s.rows \o new
           m == s.next + n
<1>1. Plain!Grow(s, owner, from, n) = [s EXCEPT !.rows = q, !.next = m]
  BY DEF Plain!Grow, New
<1>2. s = [rows |-> s.rows, next |-> s.next, readsAll |-> s.readsAll]
  BY DEF Table
<1> HIDE DEF q, m
<1>3. [s EXCEPT !.rows = q, !.next = m] = [rows |-> q, next |-> m, readsAll |-> s.readsAll]
  <2> DEFINE y == [s EXCEPT !.rows = q]
  <2>1. y = [rows |-> q, next |-> s.next, readsAll |-> s.readsAll]
    BY <1>2
  <2> HIDE DEF y
  <2>2. [y EXCEPT !.next = m] = [rows |-> q, next |-> m, readsAll |-> s.readsAll]
    BY <2>1
  <2> QED
    BY <2>2 DEF y
<1> QED
  BY <1>1, <1>3 DEF q, m, Grown

LEMMA SeedTableIs ==
    ASSUME NEW s, NEW b \in BOOLEAN, s = Plain!EmptyTable(b)
    PROVE  Fresh(Plain!SeedTable(s)) /\ Plain!SeedTable(s).readsAll = b
<1>1. s.rows = <<>> /\ s.next = 0 /\ s.readsAll = b /\ Table(s)
  <2>1. s = [rows |-> <<>>, next |-> 0, readsAll |-> b] /\ <<>> \in Seq(Rows)
    BY EmptySeq DEF Plain!EmptyTable
  <2> QED
    BY <2>1 DEF Table
<1> DEFINE new == New(s, CTX, "a", SeedCount)
<1>2. Plain!SeedTable(s) = Grown(s, new, SeedCount)
  BY <1>1, GrowIs DEF Plain!SeedTable
<1>3. new = Seeded
  <2>1. \A i \in 1..SeedCount : s.next + i - 1 = i - 1
    BY <1>1, SeededIs
  <2> QED
    BY <2>1 DEF Seeded, New
<1> HIDE DEF new
<1>4. s.rows \o new = Seeded /\ s.next + SeedCount = SeedCount
  BY <1>1, <1>3, SeededIs, ConcatEmptySeq
<1>5. Plain!SeedTable(s) = [rows |-> Seeded, next |-> SeedCount, readsAll |-> b]
  BY <1>1, <1>2, <1>4 DEF Grown
<1> QED
  BY <1>5, SeededIs DEF Fresh, Table

LEMMA SeedOtherIs ==
    ASSUME NEW s, Fresh(s)
    PROVE  Mixed(Plain!SeedOtherTable(s)) /\ Plain!SeedOtherTable(s).readsAll = s.readsAll
<1>1. s.rows = Seeded /\ s.next = SeedCount /\ Table(s)
  BY DEF Fresh
<1>2. Plain!SeedOtherTable(s) = [rows |-> Seeded \o Others, next |-> SeedCount + SeedCount, readsAll |-> s.readsAll]
  <2>1. Plain!SeedOtherTable(s) = Grown(s, New(s, OTHER_CTX, "b", SeedCount), SeedCount)
    BY <1>1, GrowIs DEF Plain!SeedOtherTable
  <2>2. New(s, OTHER_CTX, "b", SeedCount) = Others
    BY <1>1 DEF New, Others
  <2> QED
    BY <1>1, <2>1, <2>2 DEF Grown
<1>3. Seeded \o Others \in Seq(Rows) /\ s.readsAll \in BOOLEAN /\ SeedCount + SeedCount \in Nat
  BY <1>1, SeededIs, OthersIs, ConcatProperties, TableIs
<1> QED
  BY <1>2, <1>3 DEF Mixed, Table

LEMMA AppendTableIs ==
    ASSUME NEW s, Own(s)
    PROVE  Own(Plain!AppendTable(s)) /\ Plain!AppendTable(s).readsAll = s.readsAll
<1>1. /\ Table(s) /\ s.rows \in Seq(Rows) /\ s.next \in Nat /\ s.readsAll \in BOOLEAN /\ Len(s.rows) \in Nat
      /\ \A i \in 1..Len(s.rows) : s.rows[i].owner = CTX
  BY TableIs DEF Own
<1> DEFINE new == New(s, CTX, "late", 1)
           q == s.rows \o new
<1>2. Plain!AppendTable(s) = [rows |-> q, next |-> s.next + 1, readsAll |-> s.readsAll]
  BY <1>1, GrowIs DEF Plain!AppendTable, Grown
<1>3. \A i \in 1..1 : new[i] \in Rows /\ new[i].owner = CTX
  <2> SUFFICES ASSUME NEW i \in 1..1 PROVE new[i] \in Rows /\ new[i].owner = CTX
    OBVIOUS
  <2>1. s.next + i - 1 \in Nat /\ i - 1 \in Nat /\ CTX \in {CTX, OTHER_CTX} /\ "late" \in {"a", "b", "late", "forged"}
    BY <1>1
  <2>2. new[i] = Plain!PlainRow(s.next + i - 1, CTX, Plain!Text("late", i - 1))
    BY DEF New
  <2>3. NewRow(new[i], s.next + i - 1, CTX, "late", i - 1)
    BY <2>1, <2>2, PlainRowIs
  <2> QED
    BY <2>3 DEF NewRow
<1>4. DOMAIN new = 1..1 /\ new = [i \in 1..1 |-> new[i]]
  BY DEF New
<1> HIDE DEF new
<1>5. new \in Seq(Rows) /\ Len(new) = 1
  BY <1>3, <1>4
<1>6. /\ q \in Seq(Rows) /\ Len(q) = Len(s.rows) + 1
      /\ \A i \in 1..(Len(s.rows) + 1) : q[i] = IF i <= Len(s.rows) THEN s.rows[i] ELSE new[i - Len(s.rows)]
  <2>1. q \in Seq(Rows) /\ Joined(q, s.rows, new)
    BY <1>1, <1>5, Join
  <2> HIDE DEF q
  <2> QED
    BY <1>5, <2>1 DEF Joined
<1>7. \A i \in DOMAIN q : q[i].owner = CTX
  <2> SUFFICES ASSUME NEW i \in 1..(Len(s.rows) + 1) PROVE q[i].owner = CTX
    BY <1>6, LenProperties
  <2>1. CASE i <= Len(s.rows)
    BY <1>1, <1>6, <2>1
  <2>2. CASE ~(i <= Len(s.rows))
    <3>1. i - Len(s.rows) \in 1..1
      BY <1>1, <2>2
    <3>2. q[i] = new[i - Len(s.rows)]
      BY <1>6, <2>2
    <3> QED
      BY <1>3, <3>1, <3>2
  <2> QED
    BY <2>1, <2>2
<1> HIDE DEF q
<1>8. s.next + 1 \in Nat
  BY <1>1
<1> QED
  BY <1>1, <1>2, <1>6, <1>7, <1>8 DEF Own, Table

-----------------------------------------------------------------------------
(* What the attacks read, and what the landed checks make of it. *)

Shows(rec, rows) ==
    /\ Sequential(rec) /\ Len(rec) = Len(rows)
    /\ \A k \in 1..Len(rows) : rec[k].fields = rows[k]
Tells(rec, rows) ==
    \A k \in 1..Len(rows) : /\ rec[k].seq = k - 1 /\ rec[k].id = rows[k].id
                            /\ rec[k].payload = rows[k].text /\ rec[k].owner = rows[k].owner

LEMMA PlainReads ==
    ASSUME NEW s
    PROVE  /\ ReadAll("plain", s) = PlainRecords(Plain!ReadTable(s))
           /\ ReadOther("plain", s) = PlainRecords(Plain!ReadOtherTable(s))
BY PlainKind DEF ReadAll, ReadOther

LEMMA OwnReadsAll ==
    ASSUME NEW s, Own(s)
    PROVE  ReadAll("plain", s) = PlainRecords(s.rows)
BY OwnReads, PlainReads

LEMMA RecordsAre ==
    ASSUME NEW rows \in Seq(Rows)
    PROVE  Shows(PlainRecords(rows), rows) /\ Tells(PlainRecords(rows), rows)
<1> DEFINE n == Len(rows)
           rec == PlainRecords(rows)
<1>1. n \in Nat /\ DOMAIN rows = 1..n
  BY LenProperties
<1>2. rec = [k \in 1..n |-> [seq |-> k - 1, id |-> rows[k].id, payload |-> rows[k].text,
                             owner |-> rows[k].owner, fields |-> rows[k]]]
  BY <1>1 DEF PlainRecords
<1>3. \A k \in 1..n : /\ rec[k].seq = k - 1 /\ rec[k].id = rows[k].id /\ rec[k].payload = rows[k].text
                      /\ rec[k].owner = rows[k].owner /\ rec[k].fields = rows[k]
  BY <1>2
<1>4. Sequential(rec) /\ Len(rec) = n
  <2> DEFINE S == {rec[k] : k \in 1..n}
  <2>1. DOMAIN rec = 1..n /\ rec = [k \in 1..n |-> rec[k]]
    BY <1>2
  <2>2. \A k \in 1..n : rec[k] \in S
    OBVIOUS
  <2> HIDE DEF S, rec, n
  <2>3. rec \in Seq(S) /\ Len(rec) = n
    BY <1>1, <2>1, <2>2
  <2> QED
    BY <2>3 DEF Sequential
<1> QED
  BY <1>3, <1>4 DEF Shows, Tells

LEMMA SequentialIs ==
    ASSUME NEW q, Sequential(q)
    PROVE  Len(q) \in Nat /\ DOMAIN q = 1..Len(q)
BY LenProperties DEF Sequential

Differ(x, y, P) == Len(x) = Len(y) /\ \A i \in 1..Len(x) : x[i] # y[i] <=> i \in P
LEMMA MovedPins ==
    ASSUME NEW a, NEW b, NEW x \in Seq(Rows), NEW y \in Seq(Rows), Shows(a, x), Shows(b, y), NEW P,
           Len(a) = Len(b), Moved(a, b) = P
    PROVE  Differ(x, y, P)
<1>1. Len(x) = Len(y) /\ Len(a) = Len(x) /\ Len(b) = Len(x) /\ DOMAIN a = 1..Len(x)
  BY SequentialIs DEF Shows
<1>2. \A i \in 1..Len(x) : a[i].fields = x[i] /\ b[i].fields = y[i]
  BY <1>1 DEF Shows
<1>3. \A i \in 1..Len(x) : x[i] # y[i] <=> i \in Moved(a, b)
  BY <1>1, <1>2 DEF Moved
<1> QED
  BY <1>1, <1>3 DEF Differ

LEMMA SameShown ==
    ASSUME NEW a, NEW b, NEW x \in Seq(Rows), NEW y \in Seq(Rows), Shows(a, x), Shows(b, y), SameRecords(a, b)
    PROVE  x = y
<1>1. Differ(x, y, {})
  <2>1. Len(a) = Len(b) /\ Moved(a, b) = {}
    BY DEF SameRecords
  <2> QED
    BY <2>1, MovedPins
<1> QED
  BY <1>1, SeqEqual DEF Differ

LEMMA ShownSub ==
    ASSUME NEW a, NEW x \in Seq(Rows), Shows(a, x), NEW n \in 0..Len(x)
    PROVE  Shows(SubSeq(a, 1, n), SubSeq(x, 1, n)) /\ SubSeq(x, 1, n) \in Seq(Rows)
<1>1. PICK S : a \in Seq(S)
  BY DEF Shows, Sequential
<1>2. Len(a) = Len(x) /\ Len(x) \in Nat /\ n \in Nat /\ n <= Len(x)
  BY LenProperties DEF Shows
<1>3. /\ \A i \in 1..n : a[i] \in S
      /\ \A i \in 1..n : x[i] \in Rows
  BY <1>1, <1>2, ElementOfSeq
<1>4. /\ SubSeq(a, 1, n) \in Seq(S) /\ Len(SubSeq(a, 1, n)) = n /\ \A i \in 1..n : SubSeq(a, 1, n)[i] = a[i]
  BY <1>2, <1>3, SubSeqProperties
<1>5. /\ SubSeq(x, 1, n) \in Seq(Rows) /\ Len(SubSeq(x, 1, n)) = n /\ \A i \in 1..n : SubSeq(x, 1, n)[i] = x[i]
  BY <1>2, <1>3, SubSeqProperties
<1>6. \A i \in 1..n : a[i].fields = x[i]
  BY <1>2 DEF Shows
<1> QED
  BY <1>4, <1>5, <1>6 DEF Shows, Sequential

LEMMA ShownRemove ==
    ASSUME NEW a, NEW x \in Seq(Rows), Shows(a, x), NEW p \in 1..Len(x)
    PROVE  Shows(RemoveAt(a, p), RemoveAt(x, p)) /\ RemoveAt(x, p) \in Seq(Rows)
<1>1. PICK S : a \in Seq(S)
  BY DEF Shows, Sequential
<1>2. Len(a) = Len(x) /\ Len(x) \in Nat /\ p \in 1..Len(a)
  BY LenProperties DEF Shows
<1>3. RemoveAt(a, p) \in Seq(S) /\ Without(RemoveAt(a, p), a, p)
  BY <1>1, <1>2, Removed
<1>4. RemoveAt(x, p) \in Seq(Rows) /\ Without(RemoveAt(x, p), x, p)
  BY <1>2, Removed
<1>5. \A i \in 1..Len(x) : a[i].fields = x[i]
  BY DEF Shows
<1>6. \A i \in 1..(Len(x) - 1) : RemoveAt(a, p)[i].fields = RemoveAt(x, p)[i]
  <2> SUFFICES ASSUME NEW i \in 1..(Len(x) - 1) PROVE RemoveAt(a, p)[i].fields = RemoveAt(x, p)[i]
    OBVIOUS
  <2>1. i \in 1..Len(x) /\ i + 1 \in 1..Len(x)
    BY <1>2
  <2>2. /\ RemoveAt(a, p)[i] = IF i < p THEN a[i] ELSE a[i + 1]
        /\ RemoveAt(x, p)[i] = IF i < p THEN x[i] ELSE x[i + 1]
    BY <1>2, <1>3, <1>4 DEF Without
  <2> QED
    BY <1>5, <2>1, <2>2
<1> QED
  BY <1>2, <1>3, <1>4, <1>6 DEF Shows, Sequential, Without

-----------------------------------------------------------------------------
Clean == PlainRecords(Seeded)
Mid == Middle(SeedCount)

LEMMA CleanIs == Shows(Clean, Seeded) /\ Tells(Clean, Seeded) /\ Len(Clean) = SeedCount
<1>1. Shows(Clean, Seeded) /\ Tells(Clean, Seeded)
  BY SeededIs, RecordsAre DEF Clean
<1> QED
  BY <1>1, SeededIs DEF Shows

LEMMA MidIs ==
    /\ Mid \in 1..SeedCount /\ Mid = Middle(Len(Clean))
    /\ SeedCount >= 2 => Mid >= 2
<1>1. ASSUME NEW n \in Nat, n >= 1
      PROVE  n \div 2 + 1 \in 1..n /\ (n >= 2 => n \div 2 + 1 >= 2)
  BY <1>1
<1> QED
  BY <1>1, SeededIs, CleanIs DEF Mid, Middle

LEMMA CleanRow ==
    ASSUME NEW k \in 1..SeedCount
    PROVE  /\ Clean[k].seq = k - 1 /\ Clean[k].id = Seeded[k].id /\ Clean[k].payload = Seeded[k].text
           /\ Clean[k].owner = Seeded[k].owner /\ Clean[k].fields = Seeded[k]
BY CleanIs, SeededIs DEF Shows, Tells

(* What a snapshot of an own table says. *)
After == after = ReadAll("plain", store)
LEMMA AfterIs ==
    ASSUME Own(store), After
    PROVE  Shows(after, store.rows) /\ Tells(after, store.rows) /\ store.rows \in Seq(Rows) /\ Len(store.rows) \in Nat
BY OwnReadsAll, RecordsAre, TableIs DEF After, Own

-----------------------------------------------------------------------------
(* Between the calls of the edit and after them. *)

Takes(k, row) == [Seeded EXCEPT ![k] = With(Seeded[k], row.text, row.meta)]
Swapped == [Takes(Mid, Seeded[Mid - 1]) EXCEPT
               ![Mid - 1] = With(Seeded[Mid - 1], Seeded[Mid].text, Seeded[Mid].meta)]
Mutated == Plain!Tampered(Seeded[Mid])
Added == [Plain!Forged(Seeded[SeedCount]) EXCEPT !.id = SeedCount]

Numbered(s) == Len(s.rows) = SeedCount /\ \A k \in 1..SeedCount : s.rows[k].id = k - 1
Keeps(s, k, other) == s.rows[k].text = Seeded[other].text => s.rows[k].meta = Seeded[other].meta
Swapping(s) == Own(s) /\ Numbered(s) /\ Keeps(s, Mid - 1, Mid) /\ Keeps(s, Mid, Mid - 1)

NotedBoth(s) ==
    /\ notes.victims = PlainRecords(IF s.readsAll THEN Seeded \o Others ELSE Seeded)
    /\ notes.donors = PlainRecords(Others)

Tampering ==
    /\ Own(store) /\ Own(ideal) /\ ideal.rows = Takes(Mid, Mutated) /\ Len(store.rows) = SeedCount
    /\ store.rows[Mid] = Seeded[Mid] \/ store.rows[Mid] = ideal.rows[Mid]
Truncating == Own(store) /\ Own(ideal) /\ ideal.rows = SubSeq(Seeded, 1, SeedCount - 2)
Deleting == Own(store) /\ Own(ideal) /\ ideal.rows = RemoveAt(Seeded, Mid)
Reordering == Swapping(store) /\ Own(ideal) /\ ideal.rows = Swapped
Forging ==
    /\ Own(store) /\ Own(ideal) /\ ideal.rows = Append(Seeded, Added)
    /\ store.rows = ideal.rows \/ Len(store.rows) = SeedCount
Crossed(rows) ==
    /\ Len(rows) = 2 * SeedCount
    /\ rows[SeedCount] = With(Seeded[SeedCount], Others[SeedCount].text, Others[SeedCount].meta)
    /\ \A i \in 1..(SeedCount - 1) : rows[i] = Seeded[i]
    /\ \A i \in (SeedCount + 1)..(2 * SeedCount) : rows[i] = Others[i - SeedCount]
CrossedOver(s) ==
    /\ Table(s) /\ Len(s.rows) = 2 * SeedCount
    /\ \A i \in 1..(SeedCount - 1) : s.rows[i].owner = CTX
    /\ \A i \in (SeedCount + 1)..(2 * SeedCount) : s.rows[i] = Others[i - SeedCount]
Crossing ==
    /\ NotedBoth(store) /\ Table(ideal) /\ Crossed(ideal.rows)
    /\ store.readsAll \in BOOLEAN
    /\ ~store.readsAll => CrossedOver(store)
RollingBack == Own(store) /\ Own(ideal) /\ ideal.rows = Takes(SeedCount, Seeded[1])
Marking ==
    /\ Own(store) /\ Own(ideal)
    /\ notes.metaBefore # notes.metaAfter => store.rows = ideal.rows
Restoring == Own(store) /\ Fresh(ideal)

Edited ==
    /\ attack = "tamper" => Tampering
    /\ attack = "truncate" => Truncating
    /\ attack = "delete_middle" => Deleting
    /\ attack = "reorder" => Reordering
    /\ attack = "forge" => Forging
    /\ attack = "cross_replay" => Crossing
    /\ attack = "rollback_replay" => RollingBack
    /\ attack = "metadata_tamper" => Marking
    /\ attack = "snapshot_rollback" => Restoring

-----------------------------------------------------------------------------
(* An edit that landed left the table it should have. *)

LEMMA RowStays ==
    ASSUME NEW i, store.rows[i] \in Rows, store.rows[i] = ideal.rows[i]
    PROVE  SameRow(i)
<1> DEFINE r == store.rows[i]
           meta == IF Replayed(i) THEN ideal.rows[i].meta ELSE r.meta
<1>1. meta = r.meta
  OBVIOUS
<1>2. [r EXCEPT !.meta = meta] = With(r, r.text, meta)
  BY Contents DEF Contained
<1>3. With(r, r.text, r.meta) = r
  BY RowIs
<1>4. SameRow(i) <=> [r EXCEPT !.meta = meta] = ideal.rows[i]
  BY DEF SameRow
<1> HIDE DEF meta, r
<1>5. [r EXCEPT !.meta = meta] = r
  BY <1>1, <1>2, <1>3
<1> QED
  BY <1>4, <1>5 DEF r

LEMMA SameTable ==
    ASSUME kind = "plain", Table(store), Table(ideal), store.rows = ideal.rows
    PROVE  AsIntended
<1>1. \A i \in DOMAIN ideal.rows : store.rows[i] \in Rows
  BY TableIs
<1>2. \A i \in DOMAIN ideal.rows : SameRow(i)
  BY <1>1, RowStays
<1> QED
  BY <1>2 DEF AsIntended

LEMMA ReplayedRow ==
    ASSUME NEW i, store.rows[i] \in Rows, ideal.rows[i] \in Rows, Replayed(i),
           store.rows[i].id = ideal.rows[i].id, store.rows[i].owner = ideal.rows[i].owner,
           store.rows[i].text = ideal.rows[i].text
    PROVE  SameRow(i)
<1> DEFINE r == store.rows[i]
           q == ideal.rows[i]
           meta == IF Replayed(i) THEN q.meta ELSE r.meta
<1>1. meta = q.meta
  OBVIOUS
<1>2. [r EXCEPT !.meta = meta] = With(r, r.text, meta)
  BY Contents DEF Contained
<1>3. q = With(q, q.text, q.meta)
  BY RowIs
<1>4. SameRow(i) <=> [r EXCEPT !.meta = meta] = q
  BY DEF SameRow
<1>5. With(r, r.text, q.meta) = With(q, q.text, q.meta)
  BY DEF With
<1> HIDE DEF meta, r, q
<1>6. [r EXCEPT !.meta = meta] = q
  BY <1>1, <1>2, <1>3, <1>5
<1> QED
  BY <1>4, <1>6

LEMMA SameButReplayed ==
    ASSUME kind = "plain", attack \in {"cross_replay", "rollback_replay"}, before = Clean,
           Table(store), Table(ideal), NEW n \in Nat, Len(store.rows) = n, Len(ideal.rows) = n,
           SeedCount \in 1..n,
           \A i \in 1..n : i # SeedCount => store.rows[i] = ideal.rows[i],
           ideal.rows[SeedCount].id = SeedCount - 1,
           store.rows[SeedCount].id = ideal.rows[SeedCount].id,
           store.rows[SeedCount].owner = ideal.rows[SeedCount].owner,
           store.rows[SeedCount].text = ideal.rows[SeedCount].text
    PROVE  AsIntended
<1>1. DOMAIN ideal.rows = 1..n /\ \A i \in 1..n : store.rows[i] \in Rows /\ ideal.rows[i] \in Rows
  BY TableIs
<1>2. Replayed(SeedCount)
  <2>1. Last(before) = Clean[SeedCount]
    BY CleanIs DEF Last
  <2>2. Clean[SeedCount].id = SeedCount - 1
    <3>1. SeedCount \in 1..SeedCount
      BY SeededIs
    <3>2. Clean[SeedCount].id = Seeded[SeedCount].id /\ SeededRow(SeedCount)
      BY <3>1, CleanRow, SeededIs
    <3> QED
      BY <3>2 DEF SeededRow
  <2> QED
    BY <2>1, <2>2 DEF Replayed
<1>3. SameRow(SeedCount)
  BY <1>1, <1>2, ReplayedRow
<1>4. \A i \in 1..n : SameRow(i)
  BY <1>1, <1>3, RowStays
<1> QED
  BY <1>1, <1>4 DEF AsIntended

LEMMA TakesIs ==
    ASSUME NEW k \in 1..SeedCount, NEW row, row.text \in Texts, row.meta \in Metas
    PROVE  /\ Takes(k, row) \in Seq(Rows) /\ Len(Takes(k, row)) = SeedCount
           /\ Takes(k, row)[k] = With(Seeded[k], row.text, row.meta)
           /\ \A i \in 1..SeedCount : i # k => Takes(k, row)[i] = Seeded[i]
<1>1. Seeded \in Seq(Rows) /\ Len(Seeded) = SeedCount /\ Seeded[k] \in Rows
  BY SeededIs DEF SeededRow
<1>2. With(Seeded[k], row.text, row.meta) \in Rows
  BY <1>1, WithIsRow
<1> QED
  BY <1>1, <1>2, ExceptSeq DEF Takes

(* The edited rows differ from the seeded in one place or two. *)
LEMMA OneMoved ==
    ASSUME NEW rows \in Seq(Rows), NEW seen, Shows(seen, rows), NEW P, OnlyMoved(Clean, seen, P)
    PROVE  Len(rows) = SeedCount /\ \A i \in 1..SeedCount : rows[i] # Seeded[i] <=> i \in P
<1>1. Len(Clean) = Len(seen) /\ Moved(Clean, seen) = P
  BY DEF OnlyMoved
<1>2. Differ(Seeded, rows, P)
  BY <1>1, CleanIs, SeededIs, MovedPins
<1> QED
  BY <1>2, SeededIs DEF Differ

LEMMA TamperLands ==
    ASSUME kind = "plain", Tampering, After, LandedTamper(Clean, after)
    PROVE  AsIntended
<1>1. Own(store) /\ Own(ideal) /\ Shows(after, store.rows) /\ store.rows \in Seq(Rows) /\ Table(store) /\ Table(ideal)
  BY AfterIs DEF Tampering, Own
<1>2. OnlyMoved(Clean, after, {Mid})
  BY MidIs DEF LandedTamper
<1>3. Len(store.rows) = SeedCount /\ \A i \in 1..SeedCount : store.rows[i] # Seeded[i] <=> i \in {Mid}
  BY <1>1, <1>2, OneMoved
<1>4. store.rows[Mid] = ideal.rows[Mid]
  BY <1>3, MidIs DEF Tampering
<1>5. Mutated.text \in Texts /\ Mutated.meta \in Metas
  <2>1. SeededRow(Mid)
    BY MidIs, SeededIs
  <2> QED
    BY <2>1 DEF SeededRow, Mutated, Plain!Tampered, Rows, Texts
<1>6. /\ Len(ideal.rows) = SeedCount /\ ideal.rows \in Seq(Rows)
      /\ \A i \in 1..SeedCount : i # Mid => ideal.rows[i] = Seeded[i]
  BY <1>5, MidIs, TakesIs DEF Tampering
<1>7. \A i \in 1..SeedCount : store.rows[i] = ideal.rows[i]
  BY <1>3, <1>4, <1>6
<1>8. store.rows = ideal.rows
  BY <1>1, <1>3, <1>6, <1>7, SeqEqual
<1> QED
  BY <1>1, <1>8, SameTable

LEMMA TruncateLands ==
    ASSUME kind = "plain", SeedCount >= 2, Truncating, After, LandedTruncate(Clean, after)
    PROVE  AsIntended
<1>1. /\ Own(store) /\ Own(ideal) /\ Shows(after, store.rows) /\ store.rows \in Seq(Rows) /\ Table(store) /\ Table(ideal)
  BY AfterIs DEF Truncating, Own
<1>2. SameRecords(SubSeq(Clean, 1, SeedCount - 2), after)
  BY CleanIs DEF LandedTruncate
<1>3. Shows(SubSeq(Clean, 1, SeedCount - 2), SubSeq(Seeded, 1, SeedCount - 2))
      /\ SubSeq(Seeded, 1, SeedCount - 2) \in Seq(Rows)
  <2>1. SeedCount - 2 \in 0..Len(Seeded)
    BY SeededIs
  <2> QED
    BY <2>1, CleanIs, SeededIs, ShownSub
<1>4. SubSeq(Seeded, 1, SeedCount - 2) = store.rows
  BY <1>1, <1>2, <1>3, SameShown
<1> QED
  BY <1>1, <1>4, SameTable DEF Truncating

LEMMA DeleteLands ==
    ASSUME kind = "plain", Deleting, After, LandedDeleteMiddle(Clean, after)
    PROVE  AsIntended
<1>1. /\ Own(store) /\ Own(ideal) /\ Shows(after, store.rows) /\ store.rows \in Seq(Rows) /\ Table(store) /\ Table(ideal)
  BY AfterIs DEF Deleting, Own
<1>2. SameRecords(RemoveAt(Clean, Mid), after)
  BY MidIs DEF LandedDeleteMiddle
<1>3. Shows(RemoveAt(Clean, Mid), RemoveAt(Seeded, Mid)) /\ RemoveAt(Seeded, Mid) \in Seq(Rows)
  BY CleanIs, SeededIs, MidIs, ShownRemove
<1>4. RemoveAt(Seeded, Mid) = store.rows
  BY <1>1, <1>2, <1>3, SameShown
<1> QED
  BY <1>1, <1>4, SameTable DEF Deleting

LEMMA ReorderLands ==
    ASSUME kind = "plain", SeedCount >= 2, Reordering, After, LandedReorder(Clean, after)
    PROVE  AsIntended
<1>1. /\ Own(store) /\ Own(ideal) /\ Shows(after, store.rows) /\ Tells(after, store.rows)
      /\ store.rows \in Seq(Rows) /\ Table(store) /\ Table(ideal) /\ Len(store.rows) = SeedCount
  BY AfterIs DEF Reordering, Swapping, Numbered, Own
<1> DEFINE a == Mid - 1
           b == Mid
<1>2. a \in 1..SeedCount /\ b \in 1..SeedCount /\ a # b
  BY MidIs, SeededIs
<1>3. /\ OnlyMoved(Clean, after, {a, b}) /\ after[a].payload = Clean[b].payload
      /\ after[b].payload = Clean[a].payload
  BY MidIs DEF LandedReorder
<1> HIDE DEF a, b
<1>4. \A i \in 1..SeedCount : store.rows[i] # Seeded[i] <=> i \in {a, b}
  BY <1>1, <1>3, OneMoved
<1>5. /\ store.rows[a].text = Seeded[b].text /\ store.rows[b].text = Seeded[a].text
  <2>1. after[a].payload = store.rows[a].text /\ after[b].payload = store.rows[b].text
    BY <1>1, <1>2 DEF Tells
  <2> QED
    BY <1>2, <1>3, <2>1, CleanRow
<1>6. /\ store.rows[a].id = a - 1 /\ store.rows[a].meta = Seeded[b].meta
      /\ store.rows[b].id = b - 1 /\ store.rows[b].meta = Seeded[a].meta
  BY <1>2, <1>5 DEF Reordering, Swapping, Numbered, Keeps, a, b
<1>7. /\ store.rows[a].owner = CTX /\ store.rows[b].owner = CTX
      /\ store.rows[a] \in Rows /\ store.rows[b] \in Rows
  BY <1>1, <1>2, TableIs DEF Own
<1>8. SeededRow(a) /\ SeededRow(b)
  BY <1>2, SeededIs
<1>9. /\ store.rows[a] = With(Seeded[a], Seeded[b].text, Seeded[b].meta)
      /\ store.rows[b] = With(Seeded[b], Seeded[a].text, Seeded[a].meta)
  <2>1. /\ Seeded[a] \in Rows /\ Seeded[a].id = a - 1 /\ Seeded[a].owner = CTX
        /\ Seeded[b] \in Rows /\ Seeded[b].id = b - 1 /\ Seeded[b].owner = CTX
    BY <1>8 DEF SeededRow
  <2>2. /\ store.rows[a] = With(store.rows[a], store.rows[a].text, store.rows[a].meta)
        /\ store.rows[b] = With(store.rows[b], store.rows[b].text, store.rows[b].meta)
    BY <1>7, RowIs
  <2> QED
    BY <1>5, <1>6, <1>7, <2>1, <2>2 DEF With
<1>10. /\ Takes(b, Seeded[a]) \in Seq(Rows) /\ Len(Takes(b, Seeded[a])) = SeedCount
       /\ Takes(b, Seeded[a])[b] = With(Seeded[b], Seeded[a].text, Seeded[a].meta)
       /\ \A i \in 1..SeedCount : i # b => Takes(b, Seeded[a])[i] = Seeded[i]
  BY <1>2, <1>8, TakesIs, RowIs DEF SeededRow
<1>11. ideal.rows = [Takes(b, Seeded[a]) EXCEPT ![a] = With(Seeded[a], Seeded[b].text, Seeded[b].meta)]
  BY DEF Reordering, Swapped, a, b
<1>12. /\ ideal.rows \in Seq(Rows) /\ Len(ideal.rows) = SeedCount
       /\ \A i \in 1..SeedCount : ideal.rows[i] =
            IF i = a THEN With(Seeded[a], Seeded[b].text, Seeded[b].meta) ELSE Takes(b, Seeded[a])[i]
  <2>1. With(Seeded[a], Seeded[b].text, Seeded[b].meta) \in Rows
    BY <1>7, <1>9
  <2> DEFINE t == Takes(b, Seeded[a])
             r == With(Seeded[a], Seeded[b].text, Seeded[b].meta)
  <2>2. t \in Seq(Rows) /\ Len(t) = SeedCount /\ r \in Rows /\ a \in 1..Len(t)
    BY <1>2, <1>10, <2>1
  <2> HIDE DEF t, r
  <2>3. /\ [t EXCEPT ![a] = r] \in Seq(Rows) /\ Len([t EXCEPT ![a] = r]) = Len(t)
        /\ \A i \in 1..Len(t) : [t EXCEPT ![a] = r][i] = IF i = a THEN r ELSE t[i]
    BY <2>2, ExceptSeq
  <2> QED
    BY <1>11, <2>2, <2>3 DEF t, r
<1>13. \A i \in 1..SeedCount : store.rows[i] = ideal.rows[i]
  <2> SUFFICES ASSUME NEW i \in 1..SeedCount PROVE store.rows[i] = ideal.rows[i]
    OBVIOUS
  <2>1. CASE i = a
    BY <1>9, <1>12, <2>1
  <2>2. CASE i = b
    BY <1>2, <1>9, <1>10, <1>12, <2>2
  <2>3. CASE i # a /\ i # b
    BY <1>4, <1>10, <1>12, <2>3
  <2> QED
    BY <2>1, <2>2, <2>3
<1>14. store.rows = ideal.rows
  BY <1>1, <1>12, <1>13, SeqEqual
<1> QED
  BY <1>1, <1>14, SameTable

LEMMA ForgeLands ==
    ASSUME kind = "plain", Forging, After, LandedForge(Clean, after)
    PROVE  AsIntended
<1>1. Own(store) /\ Own(ideal) /\ Shows(after, store.rows) /\ Table(store) /\ Table(ideal)
  BY AfterIs DEF Forging, Own
<1>2. Len(store.rows) # SeedCount
  BY <1>1, CleanIs, SeededIs DEF Shows, LandedForge
<1> QED
  BY <1>1, <1>2, SameTable DEF Forging

LEMMA RollbackLands ==
    ASSUME kind = "plain", attack = "rollback_replay", before = Clean, RollingBack, After,
           LandedRollbackReplay(Clean, after)
    PROVE  AsIntended
<1>1. /\ Own(store) /\ Own(ideal) /\ Shows(after, store.rows) /\ Tells(after, store.rows)
      /\ store.rows \in Seq(Rows) /\ Table(store) /\ Table(ideal)
  BY AfterIs DEF RollingBack, Own
<1> DEFINE n == SeedCount
<1>2. n \in Nat /\ n >= 1 /\ n \in 1..n /\ 1 \in 1..n /\ Len(Clean) = n
  BY SeededIs, CleanIs
<1>3. /\ OnlyMoved(Clean, after, {n}) /\ Clean[n].id = after[n].id /\ after[n].owner = Clean[n].owner
      /\ after[n].payload = Clean[1].payload
  BY <1>2 DEF LandedRollbackReplay, KeepsSlot
<1> HIDE DEF n
<1>4. Len(store.rows) = n /\ \A i \in 1..n : store.rows[i] # Seeded[i] <=> i \in {n}
  BY <1>1, <1>3, OneMoved DEF n
<1>5. /\ store.rows[n].id = Seeded[n].id /\ store.rows[n].owner = Seeded[n].owner
      /\ store.rows[n].text = Seeded[1].text
  <2>1. after[n].id = store.rows[n].id /\ after[n].owner = store.rows[n].owner /\ after[n].payload = store.rows[n].text
    BY <1>1, <1>2, <1>4 DEF Tells
  <2> QED
    BY <1>2, <1>3, <2>1, CleanRow DEF n
<1>6. SeededRow(1) /\ SeededRow(n)
  BY <1>2, SeededIs DEF n
<1>7. /\ Len(ideal.rows) = n /\ ideal.rows[n] = With(Seeded[n], Seeded[1].text, Seeded[1].meta)
      /\ \A i \in 1..n : i # n => ideal.rows[i] = Seeded[i]
  <2>1. Seeded[1].text \in Texts /\ Seeded[1].meta \in Metas
    BY <1>6, RowIs DEF SeededRow
  <2> QED
    BY <1>2, <2>1, TakesIs DEF RollingBack, n
<1>8. /\ ideal.rows[n].id = Seeded[n].id /\ ideal.rows[n].owner = Seeded[n].owner
      /\ ideal.rows[n].text = Seeded[1].text
  BY <1>7 DEF With
<1>9. \A i \in 1..n : i # n => store.rows[i] = ideal.rows[i]
  BY <1>4, <1>7
<1>10. ideal.rows[n].id = n - 1
  BY <1>6, <1>8 DEF SeededRow
<1> QED
  BY <1>1, <1>2, <1>4, <1>5, <1>7, <1>8, <1>9, <1>10, SameButReplayed DEF n

LEMMA MarkLands ==
    ASSUME kind = "plain", Marking, LandedMetadataTamper(before, after, notes)
    PROVE  AsIntended
<1>1. store.rows = ideal.rows /\ Table(store) /\ Table(ideal)
  BY DEF Marking, LandedMetadataTamper, Own
<1> QED
  BY <1>1, SameTable

LEMMA RestoreLands ==
    ASSUME kind = "plain", Restoring, After, LandedSnapshotRollback(Clean, after, notes)
    PROVE  AsIntended
<1>1. /\ Shows(after, store.rows) /\ store.rows \in Seq(Rows) /\ Table(store) /\ Table(ideal) /\ ideal.rows = Seeded
  BY AfterIs DEF Restoring, Own, Fresh
<1>2. SameRecords(Clean, after)
  BY DEF LandedSnapshotRollback
<1>3. Seeded = store.rows
  BY <1>1, <1>2, CleanIs, SeededIs, SameShown
<1> QED
  BY <1>1, <1>3, SameTable

-----------------------------------------------------------------------------
(* Two contexts in one table. *)

FirstOnes(s, n) ==
    /\ Table(s) /\ ~s.readsAll /\ n \in 0..Len(s.rows)
    /\ \A i \in 1..Len(s.rows) : s.rows[i].owner = CTX <=> i <= n
Heads(rows, n) == [k \in 1..n |-> rows[k]]

LEMMA Owners == \A k \in 1..SeedCount : Seeded[k].owner = CTX /\ Others[k].owner = OTHER_CTX
<1> SUFFICES ASSUME NEW k \in 1..SeedCount PROVE Seeded[k].owner = CTX /\ Others[k].owner = OTHER_CTX
  OBVIOUS
<1>1. SeededRow(k) /\ OthersRow(k)
  BY SeededIs, OthersIs
<1> QED
  BY <1>1 DEF SeededRow, OthersRow

LEMMA FrontReads ==
    ASSUME NEW s, NEW n, FirstOnes(s, n)
    PROVE  /\ Aligned(s, n)
           /\ Plain!ReadTable(s) = Heads(s.rows, n)
<1>1. /\ DOMAIN s.rows = 1..Len(s.rows) /\ s.rows \in Seq(Rows) /\ ~s.readsAll /\ Table(s) /\ n \in Nat
      /\ Len(s.rows) \in Nat /\ n <= Len(s.rows)
      /\ \A i \in 1..Len(s.rows) : s.rows[i].owner = CTX <=> i <= n
  BY TableIs DEF FirstOnes
<1>2. HereAre(s, CTX, 1, n) /\ n = 1 + n - 1
  BY <1>1 DEF HereAre
<1>3. Plain!Places(s, CTX) = Block(1, n)
  <2>1. 1 \in Nat \ {0} /\ n \in Nat
    BY <1>1
  <2> QED
    BY <1>2, <2>1, PlacesBlock
<1> DEFINE p == Plain!Places(s, CTX)
<1>4. p = [k \in 1..n |-> k]
  BY <1>1, <1>3 DEF Block
<1> HIDE DEF p
<1>5. p \in Seq(Nat) /\ Len(p) = n
  BY <1>1, <1>4
<1>6. Plain!Ordinals(s) = 0..(n - 1)
  BY <1>5 DEF Plain!Ordinals, p
<1>7. \A o \in 0..(n - 1) : Plain!Slot(s, o) = o + 1 /\ p[o + 1] = o + 1
  <2>1. \A o \in 0..(n - 1) : o + 1 \in 1..n
    BY <1>1
  <2> QED
    BY <1>1, <1>4, <2>1 DEF Plain!Slot, p
<1>8. Plain!ViewOf(s, CTX) = Heads(s.rows, n)
  <2>1. Plain!ViewOf(s, CTX) = [k \in 1..n |-> s.rows[p[k]]]
    BY <1>5 DEF Plain!ViewOf, p
  <2>2. [k \in 1..n |-> s.rows[p[k]]] = [k \in 1..n |-> s.rows[k]]
    BY <1>4
  <2> QED
    BY <2>1, <2>2 DEF Heads
<1>9. Plain!ReadTable(s) = Heads(s.rows, n)
  BY <1>1, <1>8 DEF Plain!ReadTable
<1>10. n \in 0..Len(s.rows)
  BY <1>1
<1> QED
  BY <1>1, <1>6, <1>7, <1>9, <1>10 DEF Aligned, p

LEMMA HeadsIs ==
    ASSUME NEW rows \in Seq(Rows), NEW n \in 0..Len(rows)
    PROVE  Heads(rows, n) \in Seq(Rows) /\ Len(Heads(rows, n)) = n
           /\ \A k \in 1..n : Heads(rows, n)[k] = rows[k]
<1>1. n \in Nat /\ \A k \in 1..n : rows[k] \in Rows
  BY LenProperties, ElementOfSeq
<1> QED
  BY <1>1 DEF Heads

LEMMA MixedOwners ==
    ASSUME NEW s, Mixed(s), ~s.readsAll
    PROVE  FirstOnes(s, SeedCount) /\ Plain!ReadTable(s) = Seeded
<1>1. /\ Table(s) /\ Len(s.rows) = 2 * SeedCount /\ SeedCount \in Nat /\ SeedCount >= 1
      /\ \A k \in 1..SeedCount : s.rows[k] = Seeded[k]
      /\ \A k \in (SeedCount + 1)..(2 * SeedCount) : k - SeedCount \in 1..SeedCount /\ s.rows[k] = Others[k - SeedCount]
  BY MixedRows, SeededIs
<1>2. /\ \A k \in 1..SeedCount : s.rows[k].owner = CTX
      /\ \A k \in (SeedCount + 1)..(2 * SeedCount) : s.rows[k].owner # CTX
  BY <1>1, Owners, RunAssumption
<1>3. FirstOnes(s, SeedCount)
  <2>1. SeedCount \in 0..Len(s.rows)
    BY <1>1
  <2>2. ASSUME NEW i \in 1..Len(s.rows) PROVE s.rows[i].owner = CTX <=> i <= SeedCount
    <3>1. i \in 1..SeedCount \/ i \in (SeedCount + 1)..(2 * SeedCount)
      BY <1>1
    <3>2. i \in 1..SeedCount => i <= SeedCount
      BY <1>1
    <3>3. i \in (SeedCount + 1)..(2 * SeedCount) => ~(i <= SeedCount)
      BY <1>1
    <3> QED
      BY <1>2, <3>1, <3>2, <3>3
  <2> QED
    BY <1>1, <2>1, <2>2 DEF FirstOnes
<1>4. Heads(s.rows, SeedCount) = Seeded
  BY <1>1 DEF Heads, Seeded
<1> QED
  BY <1>3, <1>4, FrontReads

(* The second context, when it fills the second half of the table. *)
LEMMA SecondHalf ==
    ASSUME NEW s, Table(s), Len(s.rows) = 2 * SeedCount,
           \A k \in 1..SeedCount : s.rows[k].owner = CTX,
           \A k \in (SeedCount + 1)..(2 * SeedCount) : s.rows[k] = Others[k - SeedCount]
    PROVE  Plain!ReadOtherTable(s) = Others
<1> DEFINE n == SeedCount
           p == Plain!Places(s, OTHER_CTX)
<1>1. /\ n \in Nat /\ n >= 1 /\ DOMAIN s.rows = 1..(2 * n)
      /\ \A k \in (n + 1)..(2 * n) : k - n \in 1..n
      /\ \A k \in 1..n : n + k \in (n + 1)..(2 * n) /\ n + k - n = k
  BY SeededIs, TableIs
<1>2. /\ \A k \in 1..n : s.rows[k].owner # OTHER_CTX
      /\ \A k \in (n + 1)..(2 * n) : s.rows[k].owner = OTHER_CTX
      /\ \A k \in 1..n : s.rows[n + k] = Others[k]
  BY <1>1, Owners, RunAssumption
<1> HIDE DEF n
<1>3. \A k \in 1..(2 * n) : k \in 1..n \/ k \in (n + 1)..(2 * n)
  BY <1>1
<1>4. HereAre(s, OTHER_CTX, n + 1, 2 * n)
  <2>1. \A k \in (n + 1)..(2 * n) : k \in 1..(2 * n)
    BY <1>1
  <2> QED
    BY <1>1, <1>2, <1>3, <2>1 DEF HereAre
<1>5. n + 1 \in Nat \ {0} /\ 2 * n = n + 1 + n - 1
  BY <1>1
<1>6. p = Block(n + 1, n)
  BY <1>1, <1>4, <1>5, PlacesBlock
<1> HIDE DEF p
<1>7. p = [k \in 1..n |-> n + k]
  BY <1>1, <1>6 DEF Block
<1>8. p \in Seq(Nat) /\ Len(p) = n
  BY <1>1, <1>7
<1>9. Plain!ViewOf(s, OTHER_CTX) = [k \in 1..n |-> s.rows[p[k]]]
  BY <1>8 DEF Plain!ViewOf, p
<1>10. [k \in 1..n |-> s.rows[p[k]]] = [k \in 1..n |-> Others[k]]
  BY <1>2, <1>7
<1>11. [k \in 1..n |-> Others[k]] = Others
  BY DEF Others, n
<1> QED
  BY <1>9, <1>10, <1>11 DEF Plain!ReadOtherTable

LEMMA MixedReads ==
    ASSUME NEW s, Mixed(s)
    PROVE  /\ ReadAll("plain", s) = PlainRecords(IF s.readsAll THEN Seeded \o Others ELSE Seeded)
           /\ ReadOther("plain", s) = PlainRecords(Others)
<1>1. Plain!ReadTable(s) = IF s.readsAll THEN Seeded \o Others ELSE Seeded
  <2>1. CASE s.readsAll
    BY <2>1 DEF Plain!ReadTable, Mixed
  <2>2. CASE ~s.readsAll
    BY <2>2, MixedOwners
  <2> QED
    BY <2>1, <2>2
<1>2. Plain!ReadOtherTable(s) = Others
  <2>1. \A k \in 1..SeedCount : s.rows[k] = Seeded[k] /\ Seeded[k].owner = CTX
    BY MixedRows, Owners
  <2> QED
    BY <2>1, MixedRows, SecondHalf
<1> QED
  BY <1>1, <1>2, PlainReads

LEMMA CrossLands ==
    ASSUME kind = "plain", attack = "cross_replay", before = Clean, Crossing, After,
           NEW others, LandedCrossReplay(Clean, after, notes, others)
    PROVE  AsIntended
<1> DEFINE n == SeedCount
<1>1. n \in Nat /\ n >= 1 /\ n \in 1..n /\ Len(Clean) = n
  BY SeededIs, CleanIs
<1>3. ~store.readsAll
  <2> SUFFICES ASSUME store.readsAll PROVE FALSE
    BY DEF Crossing
  <2>1. notes.victims = PlainRecords(Seeded \o Others)
    BY DEF Crossing, NotedBoth
  <2>2. Seeded \o Others \in Seq(Rows) /\ Len(Seeded \o Others) = n + n
    BY SeededIs, OthersIs, Join DEF Joined
  <2>3. Len(notes.victims) = n + n
    BY <2>1, <2>2, RecordsAre DEF Shows
  <2>4. Len(Clean) = Len(notes.victims)
    BY DEF LandedCrossReplay, SameRecords
  <2> HIDE DEF n
  <2> QED
    BY <1>1, <2>3, <2>4
<1>2. Table(store) /\ Table(ideal) /\ Len(store.rows) = 2 * n /\ store.rows \in Seq(Rows)
  BY <1>3, TableIs DEF Crossing, CrossedOver
<1>4. notes.victims = Clean
  BY <1>3 DEF Crossing, NotedBoth, Clean
<1>5. Last(notes.donors).payload = Others[n].text
  <2>1. Shows(PlainRecords(Others), Others) /\ Tells(PlainRecords(Others), Others) /\ Len(Others) = n
    BY OthersIs, RecordsAre
  <2>2. notes.donors = PlainRecords(Others)
    BY DEF Crossing, NotedBoth
  <2> QED
    BY <1>1, <2>1, <2>2 DEF Last, Shows, Tells
<1>6. /\ OnlyMoved(Clean, after, {n}) /\ Clean[n].id = after[n].id /\ after[n].owner = Clean[n].owner
      /\ after[n].payload = Others[n].text
  BY <1>1, <1>4, <1>5 DEF LandedCrossReplay, KeepsSlot
<1>7. /\ \A i \in 1..(n - 1) : store.rows[i].owner = CTX
      /\ \A i \in (n + 1)..(2 * n) : store.rows[i] = Others[i - n]
  BY <1>3 DEF Crossing, CrossedOver
<1>8. \A i \in (n + 1)..(2 * n) : store.rows[i].owner = OTHER_CTX
  <2>1. \A i \in (n + 1)..(2 * n) : i - n \in 1..n
    BY <1>1
  <2> QED
    BY <1>7, <2>1, Owners
<1>9. PICK m \in {n - 1, n} : FirstOnes(store, m)
  <2> HIDE DEF n
  <2>1. \A i \in 1..(2 * n) : i \in 1..(n - 1) \/ i = n \/ i \in (n + 1)..(2 * n)
    BY <1>1
  <2>2. CASE store.rows[n].owner = CTX
    <3>1. \A i \in 1..(2 * n) : store.rows[i].owner = CTX <=> i <= n
      BY <1>1, <1>7, <1>8, <2>1, <2>2, RunAssumption
    <3>2. n \in 0..(2 * n)
      BY <1>1
    <3> QED
      BY <1>2, <1>3, <3>1, <3>2 DEF FirstOnes
  <2>3. CASE store.rows[n].owner # CTX
    <3>1. \A i \in 1..(2 * n) : store.rows[i].owner = CTX <=> i <= n - 1
      BY <1>1, <1>7, <1>8, <2>1, <2>3, RunAssumption
    <3>2. n - 1 \in 0..(2 * n)
      BY <1>1
    <3> QED
      BY <1>2, <1>3, <3>1, <3>2 DEF FirstOnes
  <2> QED
    BY <2>2, <2>3
<1> DEFINE view == Heads(store.rows, m)
<1>10. /\ view \in Seq(Rows) /\ Len(view) = m /\ \A k \in 1..m : view[k] = store.rows[k]
       /\ after = PlainRecords(view)
  <2>1. m \in 0..Len(store.rows)
    BY <1>9 DEF FirstOnes
  <2>2. after = PlainRecords(Plain!ReadTable(store))
    BY PlainReads DEF After
  <2> QED
    BY <1>2, <1>9, <2>1, <2>2, HeadsIs, FrontReads
<1> HIDE DEF view
<1>11. Shows(after, view) /\ Tells(after, view)
  BY <1>10, RecordsAre
<1>12. Len(view) = n /\ \A i \in 1..n : view[i] # Seeded[i] <=> i \in {n}
  BY <1>6, <1>10, <1>11, OneMoved
<1>13. m = n
  BY <1>10, <1>12
<1>14. store.rows[n].id = Seeded[n].id /\ store.rows[n].owner = Seeded[n].owner /\ store.rows[n].text = Others[n].text
  <2>1. after[n].id = store.rows[n].id /\ after[n].owner = store.rows[n].owner /\ after[n].payload = store.rows[n].text
    BY <1>1, <1>10, <1>11, <1>12, <1>13 DEF Tells
  <2> QED
    BY <1>1, <1>6, <2>1, CleanRow
<1>15. /\ Len(ideal.rows) = 2 * n
       /\ ideal.rows[n] = With(Seeded[n], Others[n].text, Others[n].meta)
       /\ \A i \in 1..(n - 1) : ideal.rows[i] = Seeded[i]
       /\ \A i \in (n + 1)..(2 * n) : ideal.rows[i] = Others[i - n]
  BY DEF Crossing, Crossed
<1>16. ideal.rows[n].id = Seeded[n].id /\ ideal.rows[n].owner = Seeded[n].owner /\ ideal.rows[n].text = Others[n].text
  BY <1>15 DEF With
<1>17. ideal.rows[n].id = n - 1
  BY <1>1, <1>16, SeededIs DEF SeededRow
<1>18. \A i \in 1..(2 * n) : i # n => store.rows[i] = ideal.rows[i]
  <2> SUFFICES ASSUME NEW i \in 1..(2 * n), i # n PROVE store.rows[i] = ideal.rows[i]
    OBVIOUS
  <2> HIDE DEF n
  <2>1. i \in 1..(n - 1) \/ i \in (n + 1)..(2 * n)
    BY <1>1
  <2>2. CASE i \in 1..(n - 1)
    <3>1. i \in 1..n /\ i \notin {n}
      BY <1>1, <2>2
    <3> QED
      BY <1>10, <1>12, <1>13, <1>15, <2>2, <3>1
  <2>3. CASE i \in (n + 1)..(2 * n)
    BY <1>7, <1>15, <2>3
  <2> QED
    BY <2>1, <2>2, <2>3
<1>19. 2 * n \in Nat /\ n \in 1..(2 * n)
  BY <1>1
<1> QED
  BY <1>2, <1>14, <1>15, <1>16, <1>17, <1>18, <1>19, SameButReplayed DEF n

LEMMA EditLands ==
    ASSUME kind = "plain", attack \in Attacks, SeedCount >= NeedsAtLeast(attack), before = Clean, After, Edited,
           NEW others, Landed(attack, before, after, notes, others)
    PROVE  AsIntended
<1>1. CASE attack = "tamper"
  BY <1>1, TamperLands DEF Edited, Landed
<1>2. CASE attack = "truncate"
  BY <1>2, TruncateLands DEF Edited, Landed, NeedsAtLeast
<1>3. CASE attack = "delete_middle"
  BY <1>3, DeleteLands DEF Edited, Landed
<1>4. CASE attack = "reorder"
  BY <1>4, ReorderLands DEF Edited, Landed, NeedsAtLeast
<1>5. CASE attack = "forge"
  BY <1>5, ForgeLands DEF Edited, Landed
<1>6. CASE attack = "cross_replay"
  BY <1>6, CrossLands DEF Edited, Landed
<1>7. CASE attack = "rollback_replay"
  BY <1>7, RollbackLands DEF Edited, Landed
<1>8. CASE attack = "metadata_tamper"
  BY <1>8, MarkLands DEF Edited, Landed
<1>9. CASE attack = "snapshot_rollback"
  BY <1>9, RestoreLands DEF Edited, Landed
<1> QED
  BY <1>1, <1>2, <1>3, <1>4, <1>5, <1>6, <1>7, <1>8, <1>9 DEF Attacks

-----------------------------------------------------------------------------
(* What a call of the edit may leave, done or misfired. *)

Outcomes(s, c) == {PlainEffect("plain", s, c, Clean)} \cup Misfires(s, c, Clean)

LEMMA PlainEffectIs ==
    ASSUME NEW s, NEW c, NEW r
    PROVE  Effect("plain", s, c, r) = PlainEffect("plain", s, c, r)
BY PlainKind DEF Effect

LEMMA PlainEditIs ==
    ASSUME kind = "plain", records = Clean, Edit
    PROVE  /\ ideal' = PlainEffect("plain", ideal, Head(calls), Clean)
           /\ store' \in Outcomes(store, Head(calls))
BY PlainEffectIs DEF Edit, Outcomes

WriteMisses(s, row) ==
    {s, Plain!WriteById(s, row)} \cup {Plain!WriteAt(s, i, row) : i \in Plain!Ordinals(s)}

(* One write: where it may have gone. *)
WroteOnce(s, t, row, j) ==
    \/ t = s
    \/ \E p \in 1..SeedCount :
         \E meta \in Metas :
           /\ t = Put(s, p, With(s.rows[p], row.text, meta))
           /\ meta = row.meta \/ p = j
           /\ p = j => meta \in {row.meta, s.rows[j].meta}

LEMMA WriteMisfires ==
    ASSUME NEW s, Own(s), Numbered(s), NEW j \in 1..SeedCount, NEW row \in Rows, row.id = j - 1,
           NEW t \in WriteMisses(s, row)
    PROVE  WroteOnce(s, t, row, j)
<1>1. Aligned(s, SeedCount) /\ Len(s.rows) = SeedCount /\ SeedCount \in Nat
  BY OwnAligned, SeededIs DEF Numbered
<1>2. row.meta \in Metas /\ s.rows[j].meta \in Metas
  BY <1>1, RowIs, TableIs DEF Own
<1>3. CASE t = s
  BY <1>3 DEF WroteOnce
<1>4. CASE t = Plain!WriteById(s, row)
  <2>1. \A i \in 1..Len(s.rows) : s.rows[i].id = row.id <=> i = j
    BY <1>1 DEF Numbered
  <2>2. Plain!WriteById(s, row) = Put(s, j, With(s.rows[j], row.text, s.rows[j].meta))
    BY <1>1, <2>1, WriteByIdIs DEF Own
  <2> QED
    BY <1>2, <1>4, <2>2 DEF WroteOnce
<1>5. ASSUME NEW i \in Plain!Ordinals(s), t = Plain!WriteAt(s, i, row) PROVE WroteOnce(s, t, row, j)
  <2>1. i \in 0..(SeedCount - 1) /\ i + 1 \in 1..SeedCount
    BY <1>1 DEF Aligned
  <2>2. t = Put(s, i + 1, With(s.rows[i + 1], row.text, row.meta))
    BY <1>1, <1>5, <2>1, WriteAtIs
  <2> QED
    BY <1>2, <2>1, <2>2 DEF WroteOnce
<1> QED
  BY <1>3, <1>4, <1>5 DEF WriteMisses

LEMMA WroteIs ==
    ASSUME NEW s, Own(s), Numbered(s), NEW row \in Rows, NEW p \in 1..SeedCount, NEW meta \in Metas
    PROVE  LET t == Put(s, p, With(s.rows[p], row.text, meta)) IN
           /\ Own(t) /\ Numbered(t) /\ t.rows[p].text = row.text /\ t.rows[p].meta = meta
           /\ \A i \in 1..SeedCount : i # p => t.rows[i] = s.rows[i]
<1> DEFINE r == With(s.rows[p], row.text, meta)
           t == Put(s, p, r)
<1>1. Len(s.rows) = SeedCount /\ s.rows[p] \in Rows /\ s.rows[p].owner = CTX /\ s.rows[p].id = p - 1 /\ Table(s)
      /\ p \in 1..Len(s.rows)
  BY TableIs DEF Numbered, Own
<1>2. row.text \in Texts
  BY RowIs
<1>3. r \in Rows /\ r.owner = CTX /\ r.id = p - 1 /\ r.text = row.text /\ r.meta = meta
  BY <1>1, <1>2, WithIsRow
<1> HIDE DEF r
<1>4. Own(t)
  BY <1>1, <1>3, PutOwn
<1>5. /\ Len(t.rows) = SeedCount /\ t.rows[p] = r
      /\ \A i \in 1..SeedCount : i # p => t.rows[i] = s.rows[i]
  BY <1>1, <1>3, PutIs
<1>6. Numbered(t)
  BY <1>3, <1>5 DEF Numbered
<1> HIDE DEF t
<1> QED
  BY <1>3, <1>4, <1>5, <1>6 DEF t, r

LEMMA FreshNumbered == ASSUME NEW s, Fresh(s) PROVE Own(s) /\ Numbered(s) /\ s.rows = Seeded
BY FreshOwn, SeededIs DEF Fresh, Numbered, SeededRow

LEMMA WriteIs ==
    ASSUME NEW s, NEW to, NEW from \in 1..SeedCount, NEW how, NEW row,
           row = Changed("plain", Seeded[from], how)
    PROVE  /\ PlainEffect("plain", s, Write(to, from, how), Clean)
                = Plain!WriteAt(s, SlotFor(Clean, to), row)
           /\ Misfires(s, Write(to, from, how), Clean) = WriteMisses(s, row)
<1> DEFINE c == Write(to, from, how)
<1>1. c.op = "write" /\ c.to = to /\ c.from = from /\ c.how = how
  BY DEF Write
<1>2. Changed("plain", Clean[c.from].fields, c.how) = row
  BY <1>1, CleanRow
<1> HIDE DEF c
<1>3. PlainEffect("plain", s, c, Clean) = Plain!WriteAt(s, SlotFor(Clean, to), row)
  BY <1>1, <1>2 DEF PlainEffect
<1>4. Misfires(s, c, Clean) = WriteMisses(s, row)
  BY <1>1, <1>2 DEF Misfires, WriteMisses
<1> QED
  BY <1>3, <1>4 DEF c

LEMMA Slots ==
    /\ \A k \in 1..SeedCount : SlotFor(Clean, k) = k - 1
    /\ SlotFor(Clean, SeedCount + 1) = SeedCount
<1>1. DOMAIN Clean = 1..SeedCount /\ SeedCount \in Nat /\ SeedCount >= 1 /\ Len(Clean) = SeedCount
  BY CleanIs, SeededIs, SequentialIs DEF Shows
<1>2. \A k \in 1..SeedCount : SlotFor(Clean, k) = k - 1
  BY <1>1, CleanRow DEF SlotFor
<1>3. SeedCount + 1 \notin 1..SeedCount /\ SeedCount \in 1..SeedCount /\ SeedCount - 1 + 1 = SeedCount
  BY <1>1
<1>4. Last(Clean).seq = SeedCount - 1
  BY <1>1, <1>3, CleanRow DEF Last
<1>5. SlotFor(Clean, SeedCount + 1) = SeedCount
  BY <1>1, <1>3, <1>4 DEF SlotFor
<1> QED
  BY <1>2, <1>5

(* The edits of one row. *)
LEMMA MutatedIs ==
    /\ Mutated \in Rows /\ Mutated.id = Mid - 1 /\ Mutated.meta = Seeded[Mid].meta
    /\ Changed("plain", Seeded[Mid], "mutated") = Mutated
<1>1. SeededRow(Mid)
  BY MidIs, SeededIs
<1>2. Mutated \in Rows /\ Mutated.id = Mid - 1 /\ Mutated.meta = Seeded[Mid].meta
  BY <1>1 DEF SeededRow, Mutated, Plain!Tampered, Rows, Texts
<1>3. Changed("plain", Seeded[Mid], "mutated") = Mutated
  BY PlainKind DEF Changed, Mutated
<1> QED
  BY <1>2, <1>3

LEMMA TamperCall ==
    ASSUME NEW s, Fresh(s), NEW t \in Outcomes(s, Write(Mid, Mid, "mutated"))
    PROVE  /\ Own(t) /\ Len(t.rows) = SeedCount
           /\ t.rows[Mid] = Seeded[Mid] \/ t.rows[Mid] = Takes(Mid, Mutated)[Mid]
<1>1. Own(s) /\ Numbered(s) /\ s.rows = Seeded /\ Aligned(s, SeedCount) /\ Mid \in 1..SeedCount
  BY FreshNumbered, FreshOwn, MidIs
<1>2. Mutated \in Rows /\ Mutated.id = Mid - 1 /\ Mutated.meta = Seeded[Mid].meta /\ Mutated.text \in Texts
      /\ Mutated.meta \in Metas
  BY MutatedIs, RowIs
<1>3. t = Plain!WriteAt(s, Mid - 1, Mutated) \/ t \in WriteMisses(s, Mutated)
  BY <1>1, MutatedIs, WriteIs, Slots DEF Outcomes
<1>4. Mid - 1 \in Plain!Ordinals(s)
  BY <1>1, SeededIs DEF Aligned
<1>5. WroteOnce(s, t, Mutated, Mid)
  <2>1. t \in WriteMisses(s, Mutated)
    BY <1>3, <1>4 DEF WriteMisses
  <2> QED
    BY <1>1, <1>2, <2>1, WriteMisfires
<1>6. CASE t = s
  BY <1>1, <1>6 DEF Numbered
<1>7. ASSUME NEW p \in 1..SeedCount, NEW meta \in Metas, t = Put(s, p, With(s.rows[p], Mutated.text, meta)),
             meta = Mutated.meta \/ p = Mid, p = Mid => meta \in {Mutated.meta, s.rows[Mid].meta}
      PROVE  /\ Own(t) /\ Len(t.rows) = SeedCount
             /\ t.rows[Mid] = Seeded[Mid] \/ t.rows[Mid] = Takes(Mid, Mutated)[Mid]
  <2>1. /\ Own(t) /\ Numbered(t) /\ t.rows[p].text = Mutated.text /\ t.rows[p].meta = meta
        /\ \A i \in 1..SeedCount : i # p => t.rows[i] = s.rows[i]
    <3> DEFINE u == Put(s, p, With(s.rows[p], Mutated.text, meta))
    <3>1. /\ Own(u) /\ Numbered(u) /\ u.rows[p].text = Mutated.text /\ u.rows[p].meta = meta
          /\ \A i \in 1..SeedCount : i # p => u.rows[i] = s.rows[i]
      <4>1. Own(s) /\ Numbered(s) /\ Mutated \in Rows
        BY <1>1, <1>2
      <4> QED
        BY <4>1, WroteIs
    <3>2. t = u
      BY <1>7
    <3> HIDE DEF u
    <3> QED
      BY <3>1, <3>2
  <2>2. meta = Mutated.meta
    BY <1>1, <1>2, <1>7
  <2>3. CASE p = Mid
    <3>1. p \in 1..Len(s.rows) /\ With(s.rows[p], Mutated.text, meta) \in Rows /\ Table(s)
      BY <1>1, <1>2, WithIsRow, TableIs DEF Numbered, Own
    <3>2. t.rows[Mid] = With(Seeded[Mid], Mutated.text, Mutated.meta)
      BY <1>1, <1>7, <2>2, <2>3, <3>1, PutIs
    <3>3. Takes(Mid, Mutated)[Mid] = With(Seeded[Mid], Mutated.text, Mutated.meta)
      BY <1>1, <1>2, TakesIs
    <3> QED
      BY <2>1, <3>2, <3>3 DEF Numbered
  <2>4. CASE p # Mid
    BY <1>1, <2>1, <2>4 DEF Numbered
  <2> QED
    BY <2>3, <2>4
<1> QED
  BY <1>5, <1>6, <1>7 DEF WroteOnce

LEMMA TakesDone ==
    ASSUME NEW s, Fresh(s), NEW k \in 1..SeedCount, NEW row \in Rows
    PROVE  /\ Own(Plain!WriteAt(s, k - 1, row)) /\ Plain!WriteAt(s, k - 1, row).rows = Takes(k, row)
           /\ Plain!WriteAt(s, k - 1, row).readsAll = s.readsAll
<1>1. Own(s) /\ Numbered(s) /\ s.rows = Seeded /\ Aligned(s, SeedCount) /\ SeedCount \in Nat
  BY FreshNumbered, FreshOwn, SeededIs
<1>2. k - 1 \in 0..(SeedCount - 1) /\ k - 1 + 1 = k
  BY <1>1
<1>3. Plain!WriteAt(s, k - 1, row) = Put(s, k, With(s.rows[k], row.text, row.meta))
  <2>1. Plain!WriteAt(s, k - 1, row) = Put(s, k - 1 + 1, With(s.rows[k - 1 + 1], row.text, row.meta))
    BY <1>1, <1>2, WriteAtIs
  <2> QED
    BY <1>2, <2>1
<1>4. row.meta \in Metas
  BY RowIs
<1>5. Own(Put(s, k, With(s.rows[k], row.text, row.meta)))
  BY <1>1, <1>4, WroteIs
<1>6. Put(s, k, With(s.rows[k], row.text, row.meta)).rows = Takes(k, row)
      /\ Put(s, k, With(s.rows[k], row.text, row.meta)).readsAll = s.readsAll
  BY <1>1 DEF Put, Takes
<1> QED
  BY <1>3, <1>5, <1>6

(* A delete, done or gone wrong, takes at most a row. *)
LEMMA DeleteCall ==
    ASSUME NEW s, Own(s), NEW at \in 1..SeedCount, at <= Len(s.rows),
           NEW t \in Outcomes(s, Delete(at))
    PROVE  Own(t) /\ Len(t.rows) >= Len(s.rows) - 1
<1> DEFINE c == Delete(at)
<1>1. c.op = "delete" /\ Clean[c.at].seq = at - 1
  BY CleanRow DEF Delete
<1> HIDE DEF c
<1>2. PlainEffect("plain", s, c, Clean) = Plain!DeleteAt(s, at - 1)
  BY <1>1 DEF PlainEffect
<1>3. Misfires(s, c, Clean) = {s} \cup {Plain!DeleteAt(s, i) : i \in Plain!Ordinals(s)}
  BY <1>1 DEF Misfires
<1>4. Len(s.rows) \in Nat /\ Plain!Ordinals(s) = 0..(Len(s.rows) - 1) /\ at - 1 \in 0..(Len(s.rows) - 1)
      /\ s.rows \in Seq(Rows)
  BY SeededIs, OwnReads, TableIs DEF Own
<1>5. ASSUME NEW i \in 0..(Len(s.rows) - 1)
      PROVE  Own(Plain!DeleteAt(s, i)) /\ Len(Plain!DeleteAt(s, i).rows) = Len(s.rows) - 1
  <2>1. i + 1 \in 1..Len(s.rows)
    BY <1>4
  <2>2. Len(RemoveAt(s.rows, i + 1)) = Len(s.rows) - 1
    BY <1>4, <2>1, Removed DEF Without
  <2> QED
    BY <2>2, DeletedOwn
<1>6. t = s \/ \E i \in 0..(Len(s.rows) - 1) : t = Plain!DeleteAt(s, i)
  BY <1>2, <1>3, <1>4 DEF Outcomes, c
<1> QED
  BY <1>4, <1>5, <1>6

LEMMA DeleteDone ==
    ASSUME NEW s, Own(s), NEW at \in 1..SeedCount, at <= Len(s.rows)
    PROVE  /\ PlainEffect("plain", s, Delete(at), Clean).rows = RemoveAt(s.rows, at)
           /\ Own(PlainEffect("plain", s, Delete(at), Clean))
           /\ PlainEffect("plain", s, Delete(at), Clean).readsAll = s.readsAll
<1> DEFINE c == Delete(at)
<1>1. c.op = "delete" /\ Clean[c.at].seq = at - 1
  BY CleanRow DEF Delete
<1> HIDE DEF c
<1>2. PlainEffect("plain", s, c, Clean) = Plain!DeleteAt(s, at - 1)
  BY <1>1 DEF PlainEffect
<1>3. at - 1 \in 0..(Len(s.rows) - 1) /\ at - 1 + 1 = at
  BY SeededIs, TableIs DEF Own
<1>4. Own(Plain!DeleteAt(s, at - 1)) /\ Plain!DeleteAt(s, at - 1).rows = RemoveAt(s.rows, at - 1 + 1)
      /\ Plain!DeleteAt(s, at - 1).readsAll = s.readsAll
  BY <1>3, DeletedOwn
<1> QED
  BY <1>2, <1>3, <1>4 DEF c

LEMMA LastRemoved ==
    ASSUME NEW q \in Seq(Rows), NEW n \in 1..Len(q)
    PROVE  RemoveAt(SubSeq(q, 1, n), n) = SubSeq(q, 1, n - 1) /\ Len(SubSeq(q, 1, n)) = n
<1> DEFINE a == SubSeq(q, 1, n)
           b == SubSeq(q, 1, n - 1)
<1>1. n \in Nat /\ n - 1 \in Nat /\ Len(q) \in Nat /\ n <= Len(q)
  BY LenProperties
<1>2. \A i \in 1..n : q[i] \in Rows
  BY <1>1, ElementOfSeq
<1>3. a \in Seq(Rows) /\ Len(a) = n /\ \A i \in 1..n : a[i] = q[i]
  BY <1>1, <1>2, SubSeqProperties
<1>4. b \in Seq(Rows) /\ Len(b) = n - 1 /\ \A i \in 1..(n - 1) : b[i] = q[i]
  <2>1. \A i \in 1..(n - 1) : q[i] \in Rows
    BY <1>1, <1>2
  <2>2. 1 \in Int /\ n - 1 \in Int
    BY <1>1
  <2>3. /\ b \in Seq(Rows) /\ Len(b) = (IF 1 <= n - 1 THEN n - 1 - 1 + 1 ELSE 0)
        /\ \A i \in 1..(n - 1 - 1 + 1) : b[i] = q[1 + i - 1]
    BY <2>1, <2>2, SubSeqProperties
  <2> HIDE DEF b
  <2> QED
    BY <1>1, <2>3
<1> HIDE DEF a, b
<1>5. RemoveAt(a, n) \in Seq(Rows) /\ Without(RemoveAt(a, n), a, n)
  BY <1>1, <1>3, Removed
<1>6. Len(RemoveAt(a, n)) = n - 1 /\ \A i \in 1..(n - 1) : RemoveAt(a, n)[i] = q[i]
  BY <1>1, <1>3, <1>5 DEF Without
<1>7. RemoveAt(a, n) = b
  BY <1>4, <1>5, <1>6, SeqEqual
<1> QED
  BY <1>3, <1>7 DEF a, b

LEMMA SeededWhole == SubSeq(Seeded, 1, SeedCount) = Seeded
BY SeededIs, SubSeqFull

(* A record written as it was read. *)
Wrote(s, t, p, text, meta) ==
    /\ Own(t) /\ Numbered(t) /\ t.rows[p].text = text /\ t.rows[p].meta = meta
    /\ \A i \in 1..SeedCount : i # p => t.rows[i] = s.rows[i]

Went(s, t, row, j) ==
    t = s \/ \E p \in 1..SeedCount : \E meta \in Metas :
               Wrote(s, t, p, row.text, meta) /\ (meta = row.meta \/ p = j)
WriteTo(s, k, row) == Plain!WriteAt(s, k - 1, row)

LEMMA WroteSo ==
    ASSUME NEW s, Own(s), Numbered(s), NEW row \in Rows, NEW t, NEW j, WroteOnce(s, t, row, j)
    PROVE  Went(s, t, row, j)
<1>1. ASSUME NEW p \in 1..SeedCount, NEW meta \in Metas, t = Put(s, p, With(s.rows[p], row.text, meta))
      PROVE  Wrote(s, t, p, row.text, meta)
  BY <1>1, WroteIs DEF Wrote
<1> QED
  BY <1>1 DEF WroteOnce, Went

LEMMA OrdinalOf ==
    ASSUME NEW s, Own(s), Numbered(s), NEW k \in 1..SeedCount
    PROVE  k - 1 \in Plain!Ordinals(s) /\ k - 1 \in 0..(SeedCount - 1) /\ k - 1 + 1 = k
<1>1. Plain!Ordinals(s) = 0..(SeedCount - 1) /\ SeedCount \in Nat
  BY OwnAligned, SeededIs DEF Numbered, Aligned
<1> QED
  BY <1>1

LEMMA ReadIsRow ==
    ASSUME NEW k \in 1..SeedCount
    PROVE  Seeded[k] \in Rows /\ Seeded[k].id = k - 1 /\ Changed("plain", Seeded[k], "as read") = Seeded[k]
BY SeededIs DEF SeededRow, Changed

Called(s, to, c, row) ==
    /\ PlainEffect("plain", s, c, Clean) = WriteTo(s, to, row)
    /\ Misfires(s, c, Clean) = WriteMisses(s, row)

LEMMA CallIs ==
    ASSUME NEW s, NEW a \in 1..SeedCount, NEW b \in 1..SeedCount, NEW how, NEW row,
           row = Changed("plain", Seeded[a], how)
    PROVE  Called(s, b, Write(b, a, how), row)
<1>1. PlainEffect("plain", s, Write(b, a, how), Clean) = Plain!WriteAt(s, SlotFor(Clean, b), row)
  BY WriteIs
<1>2. Misfires(s, Write(b, a, how), Clean) = WriteMisses(s, row)
  BY WriteIs
<1>3. SlotFor(Clean, b) = b - 1
  BY Slots
<1> QED
  BY <1>1, <1>2, <1>3 DEF Called, WriteTo

LEMMA OneWrite ==
    ASSUME NEW s, Own(s), Numbered(s), NEW b \in 1..SeedCount, NEW a \in 1..SeedCount, NEW row \in Rows, row.id = a - 1,
           NEW c, Called(s, b, c, row), NEW t \in Outcomes(s, c)
    PROVE  Went(s, t, row, a)
<1>1. b - 1 \in Plain!Ordinals(s)
  BY OrdinalOf
<1>2. t \in WriteMisses(s, row)
  BY <1>1 DEF Outcomes, Called, WriteMisses, WriteTo
<1>3. WroteOnce(s, t, row, a)
  BY <1>2, WriteMisfires
<1> QED
  BY <1>3, WroteSo

LEMMA CallAsRead ==
    ASSUME NEW s, NEW a \in 1..SeedCount, NEW b \in 1..SeedCount
    PROVE  Called(s, b, Write(b, a, "as read"), Seeded[a])
<1> DEFINE row == Seeded[a]
<1>1. row = Changed("plain", Seeded[a], "as read")
  BY ReadIsRow
<1> HIDE DEF row
<1>2. Called(s, b, Write(b, a, "as read"), row)
  BY <1>1, CallIs
<1> QED
  BY <1>2 DEF row

LEMMA WriteAsRead ==
    ASSUME NEW s, Own(s), Numbered(s), NEW a \in 1..SeedCount, NEW b \in 1..SeedCount,
           NEW t \in Outcomes(s, Write(b, a, "as read"))
    PROVE  Went(s, t, Seeded[a], a)
<1> DEFINE row == Seeded[a]
           c == Write(b, a, "as read")
<1>1. row \in Rows /\ row.id = a - 1
  BY ReadIsRow
<1>2. Called(s, b, c, row)
  BY CallAsRead
<1>3. t \in Outcomes(s, c)
  OBVIOUS
<1> HIDE DEF row, c
<1>4. Went(s, t, row, a)
  BY <1>1, <1>2, <1>3, OneWrite
<1> QED
  BY <1>4 DEF row

(* The two writes of a reorder. *)
LEMMA KeepsAfter ==
    ASSUME NEW a \in 1..SeedCount, NEW b \in 1..SeedCount, a # b, NEW s, NEW t, NEW p \in 1..SeedCount, NEW meta,
           Wrote(s, t, p, Seeded[a].text, meta), meta = Seeded[a].meta \/ p = a, Keeps(s, a, b), Keeps(s, b, a)
    PROVE  Own(t) /\ Numbered(t) /\ Keeps(t, a, b) /\ Keeps(t, b, a)
<1>1. Seeded[a].text # Seeded[b].text
  BY TextsDiffer
<1> DEFINE x == Seeded[a]
           y == Seeded[b]
<1> HIDE DEF x, y
<1>2. x.text # y.text
  BY <1>1 DEF x, y
<1>3. /\ t.rows[p].text = x.text /\ t.rows[p].meta = meta /\ (meta = x.meta \/ p = a)
      /\ \A i \in 1..SeedCount : i # p => t.rows[i] = s.rows[i]
      /\ s.rows[a].text = y.text => s.rows[a].meta = y.meta
      /\ s.rows[b].text = x.text => s.rows[b].meta = x.meta
  BY DEF Wrote, Keeps, x, y
<1>4. t.rows[a].text = y.text => t.rows[a].meta = y.meta
  <2>1. CASE p = a
    <3>1. t.rows[a].text = x.text
      BY <2>1 DEF Wrote, x
    <3> QED
      BY <1>2, <3>1
  <2>2. CASE p # a
    <3>1. t.rows[a] = s.rows[a]
      BY <1>3, <2>2
    <3> QED
      BY <1>3, <3>1
  <2> QED
    BY <2>1, <2>2
<1>5. t.rows[b].text = x.text => t.rows[b].meta = x.meta
  <2>1. CASE p = b
    <3>1. t.rows[b].meta = meta /\ meta = x.meta
      BY <2>1 DEF Wrote, x
    <3> QED
      BY <3>1
  <2>2. CASE p # b
    <3>1. t.rows[b] = s.rows[b]
      BY <1>3, <2>2
    <3> QED
      BY <1>3, <3>1
  <2> QED
    BY <2>1, <2>2
<1> QED
  BY <1>4, <1>5 DEF Keeps, Wrote, x, y

LEMMA PairIs ==
    SeedCount >= 2 => Mid - 1 \in 1..SeedCount /\ Mid \in 1..SeedCount /\ Mid - 1 # Mid /\ Mid - 1 + 1 = Mid
<1>1. SeedCount \in Nat /\ Mid \in 1..SeedCount /\ (SeedCount >= 2 => Mid >= 2)
  BY MidIs, SeededIs
<1> HIDE DEF Mid
<1> QED
  BY <1>1

LEMMA SwapStep ==
    ASSUME NEW a \in 1..SeedCount, NEW b \in 1..SeedCount, a # b, NEW s, Own(s), Numbered(s),
           Keeps(s, a, b), Keeps(s, b, a), NEW t \in Outcomes(s, Write(b, a, "as read"))
    PROVE  Own(t) /\ Numbered(t) /\ Keeps(t, a, b) /\ Keeps(t, b, a)
<1>1. CASE t = s
  BY <1>1
<1>2. ASSUME NEW p \in 1..SeedCount, NEW meta \in Metas, Wrote(s, t, p, Seeded[a].text, meta),
             meta = Seeded[a].meta \/ p = a
      PROVE  Own(t) /\ Numbered(t) /\ Keeps(t, a, b) /\ Keeps(t, b, a)
  BY <1>2, KeepsAfter
<1>3. Went(s, t, Seeded[a], a)
  BY WriteAsRead
<1> QED
  BY <1>1, <1>2, <1>3 DEF Went

LEMMA FreshKeeps ==
    ASSUME NEW a \in 1..SeedCount, NEW b \in 1..SeedCount, a # b, NEW s, Fresh(s)
    PROVE  Keeps(s, a, b)
<1>1. Seeded[a].text # Seeded[b].text /\ s.rows = Seeded
  BY TextsDiffer DEF Fresh
<1> QED
  BY <1>1 DEF Keeps

LEMMA ReorderFirst ==
    ASSUME SeedCount >= 2, NEW s, Fresh(s), NEW t \in Outcomes(s, Write(Mid, Mid - 1, "as read"))
    PROVE  Swapping(t)
<1> DEFINE a == Mid - 1
           b == Mid
<1>1. a \in 1..SeedCount /\ b \in 1..SeedCount /\ a # b
  BY PairIs
<1>2. t \in Outcomes(s, Write(b, a, "as read"))
  OBVIOUS
<1>3. (Keeps(t, a, b) /\ Keeps(t, b, a) /\ Own(t) /\ Numbered(t)) => Swapping(t)
  BY DEF Swapping
<1> HIDE DEF a, b
<1>4. Own(s) /\ Numbered(s) /\ Keeps(s, a, b) /\ Keeps(s, b, a)
  BY <1>1, FreshNumbered, FreshKeeps
<1> QED
  BY <1>1, <1>2, <1>3, <1>4, SwapStep

LEMMA ReorderSecond ==
    ASSUME SeedCount >= 2, NEW s, Swapping(s), NEW t \in Outcomes(s, Write(Mid - 1, Mid, "as read"))
    PROVE  Swapping(t)
<1> DEFINE a == Mid
           b == Mid - 1
<1>1. a \in 1..SeedCount /\ b \in 1..SeedCount /\ a # b
  BY PairIs
<1>2. t \in Outcomes(s, Write(b, a, "as read"))
  OBVIOUS
<1>3. (Keeps(t, a, b) /\ Keeps(t, b, a) /\ Own(t) /\ Numbered(t)) => Swapping(t)
  BY DEF Swapping
<1>4. Own(s) /\ Numbered(s) /\ Keeps(s, a, b) /\ Keeps(s, b, a)
  BY DEF Swapping
<1> HIDE DEF a, b
<1> QED
  BY <1>1, <1>2, <1>3, <1>4, SwapStep

(* A write done right on a whole table. *)
LEMMA WriteDone ==
    ASSUME NEW s, Own(s), Numbered(s), NEW k \in 1..SeedCount, NEW row \in Rows
    PROVE  Own(WriteTo(s, k, row)) /\ WriteTo(s, k, row) = Put(s, k, With(s.rows[k], row.text, row.meta))
<1>1. Aligned(s, SeedCount) /\ k - 1 \in 0..(SeedCount - 1) /\ k - 1 + 1 = k
  BY OwnAligned, OrdinalOf DEF Numbered
<1>2. Plain!WriteAt(s, k - 1, row) = Put(s, k - 1 + 1, With(s.rows[k - 1 + 1], row.text, row.meta))
  BY <1>1, WriteAtIs
<1>3. Plain!WriteAt(s, k - 1, row) = Put(s, k, With(s.rows[k], row.text, row.meta))
  BY <1>1, <1>2
<1>4. row.meta \in Metas
  BY RowIs
<1>5. Own(Put(s, k, With(s.rows[k], row.text, row.meta)))
  BY <1>4, WroteIs
<1> QED
  BY <1>3, <1>5 DEF WriteTo

LEMMA FreshDone ==
    ASSUME NEW s, Fresh(s), NEW k \in 1..SeedCount, NEW row \in Rows
    PROVE  LET t == WriteTo(s, k, row) IN Own(t) /\ t.rows = Takes(k, row) /\ t.readsAll = s.readsAll
BY TakesDone DEF WriteTo

LEMMA ReorderFirstDone ==
    ASSUME SeedCount >= 2, NEW s, Fresh(s), NEW t, t = PlainEffect("plain", s, Write(Mid, Mid - 1, "as read"), Clean)
    PROVE  Own(t) /\ t.rows = Takes(Mid, Seeded[Mid - 1]) /\ t.readsAll = s.readsAll
<1> DEFINE a == Mid - 1
           b == Mid
<1>1. a \in 1..SeedCount /\ b \in 1..SeedCount
  BY PairIs
<1>2. t = PlainEffect("plain", s, Write(b, a, "as read"), Clean)
  OBVIOUS
<1>3. (t.rows = Takes(b, Seeded[a])) => t.rows = Takes(Mid, Seeded[Mid - 1])
  OBVIOUS
<1> HIDE DEF a, b
<1>4. Seeded[a] \in Rows
  BY <1>1, ReadIsRow
<1>5. t = WriteTo(s, b, Seeded[a])
  BY <1>1, <1>2, CallAsRead DEF Called
<1> DEFINE row == Seeded[a]
<1> HIDE DEF row
<1>6. row \in Rows /\ t = WriteTo(s, b, row)
  BY <1>4, <1>5 DEF row
<1>7. Own(t) /\ t.rows = Takes(b, row) /\ t.readsAll = s.readsAll
  <2>1. Own(WriteTo(s, b, row)) /\ WriteTo(s, b, row).rows = Takes(b, row)
        /\ WriteTo(s, b, row).readsAll = s.readsAll
    BY <1>1, <1>6, FreshDone
  <2> QED
    BY <1>6, <2>1
<1> QED
  BY <1>3, <1>7 DEF row

LEMMA ReorderSecondDone ==
    ASSUME SeedCount >= 2, NEW s, Own(s), s.rows = Takes(Mid, Seeded[Mid - 1]),
           NEW t, t = PlainEffect("plain", s, Write(Mid - 1, Mid, "as read"), Clean)
    PROVE  Own(t) /\ t.rows = Swapped /\ t.readsAll = s.readsAll
<1> DEFINE a == Mid - 1
           b == Mid
           row == Seeded[b]
           old == Seeded[a]
<1>1. a \in 1..SeedCount /\ b \in 1..SeedCount /\ a # b
  BY PairIs
<1>2. t = PlainEffect("plain", s, Write(a, b, "as read"), Clean) /\ s.rows = Takes(b, old)
  OBVIOUS
<1>3. (t.rows = [Takes(b, old) EXCEPT ![a] = With(old, row.text, row.meta)]) => t.rows = Swapped
  BY DEF Swapped
<1>4. \A k \in 1..SeedCount : Seeded[k].id = k - 1 /\ Seeded[k] \in Rows
  BY ReadIsRow
<1>5. old \in Rows /\ row \in Rows /\ old.id = a - 1
  BY <1>1, <1>4
<1> HIDE DEF a, b
<1>7. Seeded[a] = old /\ row = Seeded[b]
  BY DEF old, a, b
<1>6. t = WriteTo(s, a, row)
  <2>1. t = WriteTo(s, a, Seeded[b])
    BY <1>1, <1>2, CallAsRead DEF Called
  <2> QED
    BY <1>7, <2>1
<1> HIDE DEF row, old
<1>8. old.text \in Texts /\ old.meta \in Metas
  BY <1>5, RowIs
<1>9. Len(s.rows) = SeedCount /\ s.rows[b] = With(Seeded[b], old.text, old.meta)
      /\ \A i \in 1..SeedCount : i # b => s.rows[i] = Seeded[i]
  <2>1. /\ Len(Takes(b, old)) = SeedCount /\ Takes(b, old)[b] = With(Seeded[b], old.text, old.meta)
        /\ \A i \in 1..SeedCount : i # b => Takes(b, old)[i] = Seeded[i]
    BY <1>1, <1>8, TakesIs
  <2> QED
    BY <1>2, <2>1
<1>10. Seeded[b] \in Rows /\ Seeded[b].id = b - 1
  BY <1>1, <1>4
<1>11. With(Seeded[b], old.text, old.meta).id = b - 1
  BY <1>10 DEF With
<1>12. Numbered(s)
  BY <1>4, <1>9, <1>11 DEF Numbered
<1>13. Own(t) /\ t = Put(s, a, With(s.rows[a], row.text, row.meta))
  BY <1>1, <1>5, <1>6, <1>12, WriteDone
<1>14. s.rows[a] = old
  BY <1>1, <1>7, <1>9
<1>15. t.rows = [s.rows EXCEPT ![a] = With(s.rows[a], row.text, row.meta)] /\ t.readsAll = s.readsAll
  <2> DEFINE r == With(s.rows[a], row.text, row.meta)
  <2>1. t = Put(s, a, r)
    BY <1>13
  <2> HIDE DEF r
  <2>2. Put(s, a, r).rows = [s.rows EXCEPT ![a] = r] /\ Put(s, a, r).readsAll = s.readsAll
    BY DEF Put
  <2>3. t.rows = [s.rows EXCEPT ![a] = r] /\ t.readsAll = s.readsAll
    BY <2>1, <2>2
  <2> QED
    BY <2>3 DEF r
<1> QED
  BY <1>2, <1>3, <1>13, <1>14, <1>15

LEMMA TamperDone ==
    ASSUME NEW s, Fresh(s), NEW t, t = PlainEffect("plain", s, Write(Mid, Mid, "mutated"), Clean)
    PROVE  Own(t) /\ t.rows = Takes(Mid, Mutated) /\ t.readsAll = s.readsAll
<1>1. Mid \in 1..SeedCount /\ Mutated \in Rows /\ Mutated = Changed("plain", Seeded[Mid], "mutated")
  BY MidIs, MutatedIs
<1>2. Called(s, Mid, Write(Mid, Mid, "mutated"), Mutated)
  BY <1>1, CallIs
<1>3. t = WriteTo(s, Mid, Mutated)
  BY <1>2 DEF Called
<1>4. LET u == WriteTo(s, Mid, Mutated) IN
      Own(u) /\ u.rows = Takes(Mid, Mutated) /\ u.readsAll = s.readsAll
  BY <1>1, FreshDone
<1> QED
  BY <1>3, <1>4

-----------------------------------------------------------------------------
(* A forged record is added past the newest, or lands on a row there is. *)
Faked == Plain!Forged(Seeded[SeedCount])
LEMMA FakedIs ==
    /\ Faked \in Rows /\ Faked.id = SeedCount - 1 /\ Faked.owner = CTX
    /\ Changed("plain", Seeded[SeedCount], "forged") = Faked
    /\ Added = [Faked EXCEPT !.id = SeedCount] /\ Added \in Rows /\ Added.owner = CTX
<1>1. SeededRow(SeedCount) /\ SeedCount \in Nat
  BY SeededIs
<1>2. Plain!Text("forged", 0) \in Texts
  BY DEF Plain!Text, Texts
<1>3. Faked \in Rows /\ Faked.id = SeedCount - 1 /\ Faked.owner = CTX
  BY <1>1, <1>2 DEF SeededRow, Faked, Plain!Forged, Rows
<1>4. Changed("plain", Seeded[SeedCount], "forged") = Faked
  BY PlainKind DEF Changed, Faked
<1>5. Added = [Faked EXCEPT !.id = SeedCount]
  BY DEF Added, Faked
<1>6. Added \in Rows /\ Added.owner = CTX
  BY <1>1, <1>3, <1>5 DEF Rows
<1> QED
  BY <1>3, <1>4, <1>5, <1>6

LEMMA ForgeDone ==
    ASSUME NEW s, Fresh(s), NEW t, t = PlainEffect("plain", s, Write(SeedCount + 1, SeedCount, "forged"), Clean)
    PROVE  Own(t) /\ t.rows = Append(Seeded, Added) /\ t.readsAll = s.readsAll
<1>1. SeedCount \in 1..SeedCount /\ SlotFor(Clean, SeedCount + 1) = SeedCount
  BY Slots, SeededIs
<1>2. t = Plain!WriteAt(s, SlotFor(Clean, SeedCount + 1), Faked)
  BY <1>1, FakedIs, WriteIs
<1>3. Own(s) /\ Aligned(s, SeedCount) /\ s.rows = Seeded /\ s.next = SeedCount
  BY FreshOwn DEF Fresh
<1>4. t = Extended(s, Added)
  BY <1>1, <1>2, <1>3, FakedIs, AddRowIs
<1>5. Own(Extended(s, Added))
  BY <1>3, FakedIs, ExtendedOwn
<1>6. Table(s)
  BY <1>3 DEF Own
<1>7. Extended(s, Added).rows = Append(s.rows, Added) /\ Extended(s, Added).readsAll = s.readsAll
  BY <1>6, FakedIs, ExtendedIs
<1> QED
  BY <1>3, <1>4, <1>5, <1>7

LEMMA ForgeCall ==
    ASSUME NEW s, Fresh(s), NEW t \in Outcomes(s, Write(SeedCount + 1, SeedCount, "forged"))
    PROVE  Own(t) /\ (t.rows = Append(Seeded, Added) \/ Len(t.rows) = SeedCount)
<1> DEFINE c == Write(SeedCount + 1, SeedCount, "forged")
<1>1. SeedCount \in 1..SeedCount
  BY SeededIs
<1>2. t = PlainEffect("plain", s, c, Clean) \/ t \in Misfires(s, c, Clean)
  BY DEF Outcomes
<1>3. CASE t = PlainEffect("plain", s, c, Clean)
  BY <1>3, ForgeDone
<1>4. CASE t \in Misfires(s, c, Clean)
  <2>1. t \in WriteMisses(s, Faked)
    <3>1. Misfires(s, c, Clean) = WriteMisses(s, Faked)
      BY <1>1, FakedIs, WriteIs
    <3> QED
      BY <1>4, <3>1
  <2>2. Own(s) /\ Numbered(s) /\ Len(s.rows) = SeedCount
    BY FreshNumbered, FreshOwn
  <2>3. Went(s, t, Faked, SeedCount)
    <3>1. WroteOnce(s, t, Faked, SeedCount)
      BY <1>1, <2>1, <2>2, FakedIs, WriteMisfires
    <3> QED
      BY <2>2, <3>1, FakedIs, WroteSo
  <2>4. Own(t) /\ Len(t.rows) = SeedCount
    BY <2>2, <2>3 DEF Went, Wrote, Numbered
  <2> QED
    BY <2>4
<1> QED
  BY <1>2, <1>3, <1>4

-----------------------------------------------------------------------------
(* A replay of the oldest record. *)
ReplayCalls(s, c, v, donor) ==
    /\ PlainEffect("plain", s, c, Clean) = Plain!ReplayAt(s, v, donor)
    /\ Misfires(s, c, Clean) = {s, Plain!ReplayMovesOwner(s, v, donor)}
                                 \cup {Plain!ReplayAt(s, i, donor) : i \in Plain!Ordinals(s)}
LEMMA ReplayIs ==
    ASSUME NEW s, NEW ctx, NEW v, NEW donor,
           v = Victim("plain", s), donor = Donor("plain", s, ctx)
    PROVE  ReplayCalls(s, ReplayFrom(ctx), v, donor)
<1> DEFINE c == ReplayFrom(ctx)
<1>1. c.op = "replay" /\ c.donor = ctx
  BY DEF ReplayFrom
<1> HIDE DEF c
<1>2. PlainEffect("plain", s, c, Clean) = Plain!ReplayAt(s, v, donor)
  BY <1>1 DEF PlainEffect
<1>3. Misfires(s, c, Clean) = {s, Plain!ReplayMovesOwner(s, v, donor)}
                                \cup {Plain!ReplayAt(s, i, donor) : i \in Plain!Ordinals(s)}
  BY <1>1 DEF Misfires
<1> QED
  BY <1>2, <1>3 DEF ReplayCalls, c

LEMMA LastClean == Last(Clean).seq = SeedCount - 1 /\ Head(Clean).fields = Seeded[1]
<1>1. Len(Clean) = SeedCount /\ SeedCount \in 1..SeedCount /\ 1 \in 1..SeedCount /\ Sequential(Clean)
  BY CleanIs, SeededIs DEF Shows
<1>2. Last(Clean) = Clean[SeedCount] /\ Head(Clean) = Clean[1]
  BY <1>1 DEF Last, Sequential
<1> QED
  BY <1>1, <1>2, CleanRow

LEMMA FreshReads == ASSUME NEW s, Fresh(s) PROVE ReadAll("plain", s) = Clean
BY FreshOwn, OwnReadsAll DEF Fresh, Clean

LEMMA OwnDonor ==
    ASSUME NEW s, Fresh(s)
    PROVE  Victim("plain", s) = SeedCount - 1 /\ Donor("plain", s, "own") = Seeded[1]
BY FreshReads, LastClean DEF Victim, Donor

(* Where a replay goes, done or gone wrong. *)
Replays(s, t, n, donor) ==
    \/ t = s
    \/ t = Put(s, n, Moves(s.rows[n], donor))
    \/ \E p \in 1..n : t = Put(s, p, With(s.rows[p], donor.text, donor.meta))
LEMMA ReplayGoes ==
    ASSUME NEW n \in Nat \ {0}, NEW s, Aligned(s, n), NEW donor, NEW c, ReplayCalls(s, c, n - 1, donor)
    PROVE  /\ PlainEffect("plain", s, c, Clean) = Put(s, n, With(s.rows[n], donor.text, donor.meta))
           /\ \A t \in Outcomes(s, c) : Replays(s, t, n, donor)
<1>1. n - 1 \in 0..(n - 1) /\ n - 1 + 1 = n /\ n \in 1..n
  OBVIOUS
<1>2. Plain!ReplayAt(s, n - 1, donor) = Put(s, n, With(s.rows[n], donor.text, donor.meta))
  <2>1. Plain!ReplayAt(s, n - 1, donor) = Put(s, n - 1 + 1, With(s.rows[n - 1 + 1], donor.text, donor.meta))
    BY <1>1, WriteAtIs
  <2> QED
    BY <1>1, <2>1
<1>3. Plain!ReplayMovesOwner(s, n - 1, donor) = Put(s, n, Moves(s.rows[n], donor))
  <2>1. Plain!ReplayMovesOwner(s, n - 1, donor) = Put(s, n - 1 + 1, Moves(s.rows[n - 1 + 1], donor))
    BY <1>1, ReplayMovesIs
  <2> QED
    BY <1>1, <2>1
<1>4. ASSUME NEW i \in Plain!Ordinals(s), NEW t, t = Plain!ReplayAt(s, i, donor)
      PROVE  Replays(s, t, n, donor)
  <2>1. i \in 0..(n - 1) /\ i + 1 \in 1..n
    BY DEF Aligned
  <2>2. t = Put(s, i + 1, With(s.rows[i + 1], donor.text, donor.meta))
    BY <1>4, <2>1, WriteAtIs
  <2> QED
    BY <2>1, <2>2 DEF Replays
<1>5. ASSUME NEW t \in Outcomes(s, c) PROVE Replays(s, t, n, donor)
  <2>1. \/ t = Plain!ReplayAt(s, n - 1, donor) \/ t = s \/ t = Plain!ReplayMovesOwner(s, n - 1, donor)
        \/ \E i \in Plain!Ordinals(s) : t = Plain!ReplayAt(s, i, donor)
    BY <1>5 DEF Outcomes, ReplayCalls
  <2>2. CASE t = Plain!ReplayAt(s, n - 1, donor)
    BY <1>1, <1>2, <2>2 DEF Replays
  <2> QED
    BY <1>3, <1>4, <2>1, <2>2 DEF Replays
<1> QED
  BY <1>2, <1>5 DEF ReplayCalls

LEMMA MovesIsRow ==
    ASSUME NEW r \in Rows, NEW donor \in Rows
    PROVE  /\ Moves(r, donor) \in Rows /\ Moves(r, donor).owner = donor.owner
           /\ With(r, donor.text, donor.meta) \in Rows /\ With(r, donor.text, donor.meta).owner = r.owner
<1>1. donor.text \in Texts /\ donor.meta \in Metas
  BY RowIs
<1> QED
  BY <1>1, WithIsRow DEF Moves, Rows

LEMMA RollbackGoes ==
    ASSUME NEW s, Fresh(s)
    PROVE  ReplayCalls(s, ReplayFrom("own"), SeedCount - 1, Seeded[1]) /\ Aligned(s, SeedCount)
BY OwnDonor, ReplayIs, FreshOwn

LEMMA RollbackCall ==
    ASSUME NEW s, Fresh(s), NEW t \in Outcomes(s, ReplayFrom("own"))
    PROVE  Own(t)
<1> DEFINE donor == Seeded[1]
<1>1. SeedCount \in Nat \ {0} /\ SeedCount \in 1..SeedCount /\ 1 \in 1..SeedCount
  BY SeededIs
<1>2. donor \in Rows /\ donor.owner = CTX
  BY <1>1, SeededIs DEF SeededRow
<1>3. ReplayCalls(s, ReplayFrom("own"), SeedCount - 1, donor) /\ Aligned(s, SeedCount)
  BY RollbackGoes
<1> HIDE DEF donor
<1>4. Replays(s, t, SeedCount, donor)
  BY <1>1, <1>3, ReplayGoes
<1>5. Own(s) /\ Len(s.rows) = SeedCount /\ Table(s)
  BY FreshOwn DEF Own
<1>6. \A p \in 1..SeedCount : s.rows[p] \in Rows /\ s.rows[p].owner = CTX
  BY <1>5, TableIs DEF Own
<1>7. CASE t = Put(s, SeedCount, Moves(s.rows[SeedCount], donor))
  <2>1. Moves(s.rows[SeedCount], donor) \in Rows /\ Moves(s.rows[SeedCount], donor).owner = CTX
    BY <1>1, <1>2, <1>6, MovesIsRow
  <2> QED
    BY <1>1, <1>5, <1>7, <2>1, PutOwn
<1>8. ASSUME NEW p \in 1..SeedCount, t = Put(s, p, With(s.rows[p], donor.text, donor.meta))
      PROVE  Own(t)
  <2>1. With(s.rows[p], donor.text, donor.meta) \in Rows /\ With(s.rows[p], donor.text, donor.meta).owner = CTX
    <3>1. s.rows[p] \in Rows /\ s.rows[p].owner = CTX
      BY <1>6, <1>8
    <3> QED
      BY <1>2, <3>1, MovesIsRow
  <2> QED
    BY <1>5, <1>8, <2>1, PutOwn
<1> QED
  BY <1>4, <1>5, <1>7, <1>8 DEF Replays

LEMMA RollbackDone ==
    ASSUME NEW s, Fresh(s), NEW t, t = PlainEffect("plain", s, ReplayFrom("own"), Clean)
    PROVE  Own(t) /\ t.rows = Takes(SeedCount, Seeded[1]) /\ t.readsAll = s.readsAll
<1> DEFINE donor == Seeded[1]
<1>1. SeedCount \in Nat \ {0}
  BY SeededIs
<1>2. ReplayCalls(s, ReplayFrom("own"), SeedCount - 1, donor) /\ Aligned(s, SeedCount) /\ s.rows = Seeded
  BY RollbackGoes DEF Fresh
<1>3. t \in Outcomes(s, ReplayFrom("own"))
  BY DEF Outcomes
<1>4. Own(t)
  BY <1>3, RollbackCall
<1> HIDE DEF donor
<1>5. t = Put(s, SeedCount, With(s.rows[SeedCount], donor.text, donor.meta))
  BY <1>1, <1>2, ReplayGoes
<1>6. t.rows = [s.rows EXCEPT ![SeedCount] = With(s.rows[SeedCount], donor.text, donor.meta)]
      /\ t.readsAll = s.readsAll
  BY <1>5 DEF Put
<1>7. t.rows = Takes(SeedCount, donor)
  BY <1>2, <1>6 DEF Takes
<1> QED
  BY <1>4, <1>6, <1>7 DEF donor

-----------------------------------------------------------------------------
(* A mark on the metadata of a record. *)
Marks(s, c, n) ==
    /\ PlainEffect("plain", s, c, Clean) = Plain!MarkAt(s, n - 1)
    /\ Misfires(s, c, Clean) = {s} \cup {Plain!MarkAt(s, i) : i \in Plain!Ordinals(s)}
LEMMA MarkCallIs == ASSUME NEW s, NEW n \in 1..SeedCount PROVE Marks(s, EditMetaAt(n), n)
<1> DEFINE c == EditMetaAt(n)
<1>1. c.op = "meta" /\ Clean[c.at].seq = n - 1
  BY CleanRow DEF EditMetaAt
<1> HIDE DEF c
<1>2. PlainEffect("plain", s, c, Clean) = Plain!MarkAt(s, n - 1)
  BY <1>1 DEF PlainEffect
<1>3. Misfires(s, c, Clean) = {s} \cup {Plain!MarkAt(s, i) : i \in Plain!Ordinals(s)}
  BY <1>1 DEF Misfires
<1> QED
  BY <1>2, <1>3 DEF Marks, c

MarkedAt(s, p) == Put(s, p, Marked(s.rows[p]))
LEMMA MarkGoes ==
    ASSUME NEW n \in 1..SeedCount, NEW s, Own(s), Numbered(s), NEW c, Marks(s, c, n)
    PROVE  /\ PlainEffect("plain", s, c, Clean) = MarkedAt(s, n)
           /\ \A t \in Outcomes(s, c) : t = s \/ \E p \in 1..SeedCount : t = MarkedAt(s, p)
<1>1. Aligned(s, SeedCount) /\ SeedCount \in Nat
  BY OwnAligned, SeededIs DEF Numbered
<1>2. n - 1 \in 0..(SeedCount - 1) /\ n - 1 + 1 = n
  BY <1>1
<1>3. ASSUME NEW i \in 0..(SeedCount - 1) PROVE Plain!MarkAt(s, i) = MarkedAt(s, i + 1) /\ i + 1 \in 1..SeedCount
  BY <1>1, MarkAtIs DEF MarkedAt
<1>4. Plain!MarkAt(s, n - 1) = MarkedAt(s, n)
  <2>1. Plain!MarkAt(s, n - 1) = MarkedAt(s, n - 1 + 1)
    BY <1>2, <1>3
  <2> QED
    BY <1>2, <2>1
<1>5. ASSUME NEW i \in Plain!Ordinals(s) PROVE \E p \in 1..SeedCount : Plain!MarkAt(s, i) = MarkedAt(s, p)
  BY <1>1, <1>3 DEF Aligned
<1>6. ASSUME NEW t \in Outcomes(s, c) PROVE t = s \/ \E p \in 1..SeedCount : t = MarkedAt(s, p)
  BY <1>4, <1>5, <1>6 DEF Outcomes, Marks
<1> QED
  BY <1>4, <1>6 DEF Marks

LEMMA MarkedIsRow ==
    ASSUME NEW r \in Rows
    PROVE  Marked(r) \in Rows /\ Marked(r).owner = r.owner /\ Marked(r).id = r.id
<1>1. r.text \in Texts /\ r.meta \in Metas
  BY RowIs
<1>2. [r.meta EXCEPT !.marked = TRUE] \in Metas
  BY <1>1 DEF Metas
<1> QED
  BY <1>1, <1>2, WithIsRow DEF Marked

LEMMA MarkedOwn ==
    ASSUME NEW s, Own(s), Numbered(s), NEW p \in 1..SeedCount
    PROVE  /\ Own(MarkedAt(s, p)) /\ Numbered(MarkedAt(s, p)) /\ MarkedAt(s, p).readsAll = s.readsAll
           /\ MarkedAt(s, p).rows = [s.rows EXCEPT ![p] = Marked(s.rows[p])]
           /\ \A i \in 1..SeedCount : i # p => MarkedAt(s, p).rows[i] = s.rows[i]
<1>1. Table(s) /\ Len(s.rows) = SeedCount /\ s.rows[p] \in Rows /\ s.rows[p].owner = CTX /\ s.rows[p].id = p - 1
  BY TableIs DEF Own, Numbered
<1> DEFINE r == Marked(s.rows[p])
<1>2. r \in Rows /\ r.owner = CTX /\ r.id = p - 1
  BY <1>1, MarkedIsRow
<1> HIDE DEF r
<1> DEFINE t == Put(s, p, r)
<1>3. Own(t)
  BY <1>1, <1>2, PutOwn
<1>4. /\ Len(t.rows) = SeedCount /\ t.rows[p] = r /\ t.readsAll = s.readsAll
      /\ \A i \in 1..SeedCount : i # p => t.rows[i] = s.rows[i]
  BY <1>1, <1>2, PutIs
<1>5. t.rows = [s.rows EXCEPT ![p] = r]
  BY DEF Put
<1> HIDE DEF t
<1>6. Numbered(t)
  BY <1>2, <1>4 DEF Numbered
<1>7. t = MarkedAt(s, p)
  BY DEF t, r, MarkedAt
<1> QED
  BY <1>3, <1>4, <1>5, <1>6, <1>7 DEF r

LEMMA MetaReads ==
    ASSUME NEW s, Own(s), Numbered(s), NEW n \in 1..SeedCount
    PROVE  ReadMeta(s, "plain", Clean[n]) = s.rows[n].meta
<1>1. Clean[n].seq = n - 1 /\ n - 1 \in 0..(SeedCount - 1) /\ n - 1 + 1 = n /\ Len(s.rows) = SeedCount
  BY CleanRow, OrdinalOf DEF Numbered
<1>2. Plain!Slot(s, n - 1) = n - 1 + 1
  BY <1>1, OwnReads
<1>3. Plain!Slot(s, Clean[n].seq) = n
  BY <1>1, <1>2
<1>4. ReadMeta(s, "plain", Clean[n]) = s.rows[Plain!Slot(s, Clean[n].seq)].meta
  BY PlainKind DEF ReadMeta
<1> QED
  BY <1>3, <1>4

(* The metadata of the record only changes if the mark is on that record. *)
LEMMA MarkCall ==
    ASSUME NEW s, Fresh(s), NEW i, Fresh(i), NEW t \in Outcomes(s, EditMetaAt(Mid)),
           NEW u, u = PlainEffect("plain", i, EditMetaAt(Mid), Clean)
    PROVE  /\ Own(t) /\ Own(u) /\ u.readsAll = i.readsAll
           /\ ReadMeta(s, "plain", Clean[Mid]) # ReadMeta(t, "plain", Clean[Mid]) => t.rows = u.rows
<1>1. Mid \in 1..SeedCount /\ Own(s) /\ Numbered(s) /\ Own(i) /\ Numbered(i) /\ s.rows = i.rows
  BY MidIs, FreshNumbered
<1>2. Marks(s, EditMetaAt(Mid), Mid) /\ Marks(i, EditMetaAt(Mid), Mid)
  BY <1>1, MarkCallIs
<1>3. t = s \/ \E p \in 1..SeedCount : t = MarkedAt(s, p)
  BY <1>1, <1>2, MarkGoes
<1>4. u = MarkedAt(i, Mid)
  BY <1>1, <1>2, MarkGoes
<1>5. /\ Own(u) /\ u.readsAll = i.readsAll /\ u.rows = [i.rows EXCEPT ![Mid] = Marked(i.rows[Mid])]
  BY <1>1, <1>4, MarkedOwn
<1>6. CASE t = s
  BY <1>1, <1>5, <1>6
<1>7. ASSUME NEW p \in 1..SeedCount, t = MarkedAt(s, p)
      PROVE  Own(t) /\ (ReadMeta(s, "plain", Clean[Mid]) # ReadMeta(t, "plain", Clean[Mid]) => t.rows = u.rows)
  <2>1. Own(t) /\ Numbered(t) /\ t.rows = [s.rows EXCEPT ![p] = Marked(s.rows[p])]
        /\ \A k \in 1..SeedCount : k # p => t.rows[k] = s.rows[k]
    BY <1>1, <1>7, MarkedOwn
  <2>2. ReadMeta(s, "plain", Clean[Mid]) = s.rows[Mid].meta /\ ReadMeta(t, "plain", Clean[Mid]) = t.rows[Mid].meta
    BY <1>1, <2>1, MetaReads
  <2>3. CASE p = Mid
    <3>1. t.rows = u.rows
      BY <1>1, <1>5, <2>1, <2>3
    <3> QED
      BY <2>1, <3>1
  <2>4. CASE p # Mid
    <3>1. t.rows[Mid] = s.rows[Mid]
      BY <1>1, <2>1, <2>4
    <3> QED
      BY <2>1, <2>2, <3>1
  <2> QED
    BY <2>3, <2>4
<1> QED
  BY <1>3, <1>5, <1>6, <1>7

-----------------------------------------------------------------------------
(* A replay from the other context. *)
LEMMA OthersOwn == \A k \in 1..SeedCount : Others[k] \in Rows /\ Others[k].owner = OTHER_CTX
BY OthersIs DEF OthersRow

LEMMA LastOther == Last(PlainRecords(Others)).fields = Others[SeedCount]
<1> DEFINE q == PlainRecords(Others)
<1>1. Others \in Seq(Rows) /\ Len(Others) = SeedCount /\ SeedCount \in 1..SeedCount
  BY OthersIs, SeededIs
<1>2. Shows(q, Others)
  BY <1>1, RecordsAre
<1> HIDE DEF q
<1>3. Len(q) = SeedCount /\ q[SeedCount].fields = Others[SeedCount]
  BY <1>1, <1>2 DEF Shows
<1>4. Last(q) = q[SeedCount]
  BY <1>3 DEF Last
<1> QED
  BY <1>3, <1>4 DEF q

LEMMA MixedDonor ==
    ASSUME NEW s, Mixed(s), ~s.readsAll
    PROVE  Victim("plain", s) = SeedCount - 1 /\ Donor("plain", s, "other") = Others[SeedCount]
<1>1. ReadAll("plain", s) = Clean /\ ReadOther("plain", s) = PlainRecords(Others)
  BY MixedReads DEF Clean
<1> QED
  BY <1>1, LastClean, LastOther DEF Victim, Donor

LEMMA CrossGoes ==
    ASSUME NEW s, Mixed(s), ~s.readsAll
    PROVE  ReplayCalls(s, ReplayFrom("other"), SeedCount - 1, Others[SeedCount]) /\ Aligned(s, SeedCount)
BY MixedDonor, ReplayIs, MixedOwners, FrontReads

LEMMA PutCrossed ==
    ASSUME NEW s, Mixed(s), NEW p \in 1..SeedCount, NEW r \in Rows, p # SeedCount => r.owner = CTX
    PROVE  CrossedOver(Put(s, p, r))
<1>1. SeedCount \in Nat /\ Table(s) /\ Len(s.rows) = 2 * SeedCount
      /\ (\A k \in 1..SeedCount : s.rows[k] = Seeded[k])
      /\ \A k \in (SeedCount + 1)..(2 * SeedCount) : s.rows[k] = Others[k - SeedCount]
  BY MixedRows, SeededIs
<1> DEFINE t == Put(s, p, r)
<1>2. p \in 1..Len(s.rows)
  BY <1>1
<1>3. Table(t) /\ Len(t.rows) = 2 * SeedCount /\ t.rows[p] = r
      /\ \A i \in 1..(2 * SeedCount) : i # p => t.rows[i] = s.rows[i]
  <2>1. Table(t) /\ Len(t.rows) = Len(s.rows) /\ t.rows[p] = r
        /\ \A i \in 1..Len(s.rows) : i # p => t.rows[i] = s.rows[i]
    BY <1>1, <1>2, PutIs
  <2> HIDE DEF t
  <2> QED
    BY <1>1, <2>1
<1> HIDE DEF t
<1>4. ASSUME NEW i \in 1..(SeedCount - 1) PROVE t.rows[i].owner = CTX
  <2>1. i \in 1..SeedCount /\ i \in 1..(2 * SeedCount) /\ i # SeedCount
    BY <1>1
  <2>2. CASE i = p
    BY <1>3, <2>1, <2>2
  <2>3. CASE i # p
    <3>1. t.rows[i] = Seeded[i]
      BY <1>1, <1>3, <2>1, <2>3
    <3> QED
      BY <2>1, <3>1, Owners
  <2> QED
    BY <2>2, <2>3
<1>5. ASSUME NEW i \in (SeedCount + 1)..(2 * SeedCount) PROVE t.rows[i] = Others[i - SeedCount]
  <2>1. i \in 1..(2 * SeedCount) /\ i # p
    BY <1>1
  <2> QED
    BY <1>1, <1>3, <2>1
<1> QED
  BY <1>3, <1>4, <1>5 DEF CrossedOver, t

LEMMA CrossCall ==
    ASSUME NEW s, Mixed(s), ~s.readsAll, NEW t \in Outcomes(s, ReplayFrom("other"))
    PROVE  CrossedOver(t)
<1> DEFINE donor == Others[SeedCount]
<1>1. SeedCount \in Nat \ {0} /\ SeedCount \in 1..SeedCount
  BY SeededIs
<1>2. donor \in Rows
  BY <1>1, OthersOwn
<1>3. ReplayCalls(s, ReplayFrom("other"), SeedCount - 1, donor) /\ Aligned(s, SeedCount)
  BY CrossGoes
<1> HIDE DEF donor
<1>4. Replays(s, t, SeedCount, donor)
  BY <1>1, <1>3, ReplayGoes
<1>5. \A p \in 1..SeedCount : s.rows[p] = Seeded[p]
  BY MixedRows
<1>6. \A p \in 1..SeedCount : s.rows[p] \in Rows /\ s.rows[p].owner = CTX
  BY <1>5, SeededIs, Owners DEF SeededRow
<1>7. CASE t = s
  <2>1. Table(s) /\ Len(s.rows) = 2 * SeedCount
        /\ \A i \in (SeedCount + 1)..(2 * SeedCount) : s.rows[i] = Others[i - SeedCount]
    BY MixedRows
  <2>2. \A i \in 1..(SeedCount - 1) : s.rows[i].owner = CTX
    <3>1. \A i \in 1..(SeedCount - 1) : i \in 1..SeedCount
      BY <1>1
    <3> QED
      BY <1>6, <3>1
  <2> QED
    BY <1>7, <2>1, <2>2 DEF CrossedOver
<1>8. CASE t = Put(s, SeedCount, Moves(s.rows[SeedCount], donor))
  <2>1. Moves(s.rows[SeedCount], donor) \in Rows
    BY <1>1, <1>2, <1>6, MovesIsRow
  <2> QED
    BY <1>1, <1>8, <2>1, PutCrossed
<1>9. ASSUME NEW p \in 1..SeedCount, t = Put(s, p, With(s.rows[p], donor.text, donor.meta))
      PROVE  CrossedOver(t)
  <2>1. s.rows[p] \in Rows /\ s.rows[p].owner = CTX
    BY <1>6, <1>9
  <2>2. With(s.rows[p], donor.text, donor.meta) \in Rows /\ With(s.rows[p], donor.text, donor.meta).owner = CTX
    BY <1>2, <2>1, MovesIsRow
  <2> QED
    BY <1>9, <2>2, PutCrossed
<1> QED
  BY <1>4, <1>7, <1>8, <1>9 DEF Replays

LEMMA CrossDone ==
    ASSUME NEW s, Mixed(s), ~s.readsAll, NEW t, t = PlainEffect("plain", s, ReplayFrom("other"), Clean)
    PROVE  Table(t) /\ Crossed(t.rows) /\ t.readsAll = s.readsAll
<1> DEFINE donor == Others[SeedCount]
<1>1. SeedCount \in Nat \ {0} /\ SeedCount \in 1..SeedCount
  BY SeededIs
<1>2. donor \in Rows
  BY <1>1, OthersOwn
<1>3. ReplayCalls(s, ReplayFrom("other"), SeedCount - 1, donor) /\ Aligned(s, SeedCount)
  BY CrossGoes
<1>4. donor = Others[SeedCount]
  OBVIOUS
<1> HIDE DEF donor
<1> DEFINE r == With(s.rows[SeedCount], donor.text, donor.meta)
<1>5. t = Put(s, SeedCount, r)
  BY <1>1, <1>3, ReplayGoes
<1>6. /\ Table(s) /\ Len(s.rows) = 2 * SeedCount
      /\ (\A k \in 1..SeedCount : s.rows[k] = Seeded[k])
      /\ \A k \in (SeedCount + 1)..(2 * SeedCount) : s.rows[k] = Others[k - SeedCount]
  BY MixedRows
<1>7. s.rows[SeedCount] \in Rows /\ s.rows[SeedCount] = Seeded[SeedCount]
  BY <1>1, <1>6, SeededIs DEF SeededRow
<1>8. r \in Rows /\ r = With(Seeded[SeedCount], Others[SeedCount].text, Others[SeedCount].meta)
  BY <1>2, <1>4, <1>7, MovesIsRow
<1> HIDE DEF r
<1>9. SeedCount \in 1..Len(s.rows)
  BY <1>1, <1>6
<1>10. Table(t) /\ t.readsAll = s.readsAll /\ Len(t.rows) = 2 * SeedCount /\ t.rows[SeedCount] = r
      /\ \A i \in 1..(2 * SeedCount) : i # SeedCount => t.rows[i] = s.rows[i]
  <2>1. Table(t) /\ t.readsAll = s.readsAll /\ Len(t.rows) = Len(s.rows) /\ t.rows[SeedCount] = r
        /\ \A i \in 1..Len(s.rows) : i # SeedCount => t.rows[i] = s.rows[i]
    <3>1. Table(s) /\ r \in Rows
      BY <1>6, <1>8
    <3> QED
      BY <1>5, <1>9, <3>1, PutIs
  <2> QED
    BY <1>6, <2>1
<1>11. \A i \in 1..(SeedCount - 1) : t.rows[i] = Seeded[i]
  <2>1. \A i \in 1..(SeedCount - 1) : i \in 1..SeedCount /\ i \in 1..(2 * SeedCount) /\ i # SeedCount
    BY <1>1
  <2> QED
    BY <1>6, <1>10, <2>1
<1>12. \A i \in (SeedCount + 1)..(2 * SeedCount) : t.rows[i] = Others[i - SeedCount]
  <2>1. \A i \in (SeedCount + 1)..(2 * SeedCount) : i \in 1..(2 * SeedCount) /\ i # SeedCount
    BY <1>1
  <2> QED
    BY <1>6, <1>10, <2>1
<1> QED
  BY <1>8, <1>10, <1>11, <1>12 DEF Crossed

(* Whatever a replay does, the table is read as it was. *)
LEMMA ReplayKeepsMode ==
    ASSUME NEW s, Table(s), NEW ctx, NEW t \in Outcomes(s, ReplayFrom(ctx))
    PROVE  t.readsAll = s.readsAll
<1> DEFINE v == Victim("plain", s)
           donor == Donor("plain", s, ctx)
           c == ReplayFrom(ctx)
<1>1. ReplayCalls(s, c, v, donor) /\ t \in Outcomes(s, c)
  BY ReplayIs
<1> HIDE DEF v, donor, c
<1>2. \A o : Plain!ReplayAt(s, o, donor).readsAll = s.readsAll
  BY DEF Plain!ReplayAt, Table
<1>3. Plain!ReplayMovesOwner(s, v, donor).readsAll = s.readsAll
  BY DEF Plain!ReplayMovesOwner, Table
<1>4. \/ t = Plain!ReplayAt(s, v, donor) \/ t = s \/ t = Plain!ReplayMovesOwner(s, v, donor)
      \/ \E i \in Plain!Ordinals(s) : t = Plain!ReplayAt(s, i, donor)
  BY <1>1 DEF Outcomes, ReplayCalls
<1> QED
  BY <1>2, <1>3, <1>4

-----------------------------------------------------------------------------
(* The calls that add rows. *)
LEMMA SeedOtherCall ==
    ASSUME NEW s, Fresh(s), NEW t \in Outcomes(s, Call("seed_other"))
    PROVE  Mixed(t) /\ t.readsAll = s.readsAll /\ PlainEffect("plain", s, Call("seed_other"), Clean) = t
<1> DEFINE c == Call("seed_other")
<1>1. c.op = "seed_other"
  BY DEF Call
<1> HIDE DEF c
<1>2. PlainEffect("plain", s, c, Clean) = Plain!SeedOtherTable(s) /\ Misfires(s, c, Clean) = {}
  BY <1>1 DEF PlainEffect, Misfires
<1>3. t = Plain!SeedOtherTable(s)
  BY <1>2 DEF Outcomes, c
<1> QED
  BY <1>2, <1>3, SeedOtherIs DEF c

LEMMA AppendCall ==
    ASSUME NEW s, Own(s), NEW t \in Outcomes(s, Call("append"))
    PROVE  Own(t) /\ t.readsAll = s.readsAll
<1> DEFINE c == Call("append")
<1>1. c.op = "append"
  BY DEF Call
<1> HIDE DEF c
<1>2. PlainEffect("plain", s, c, Clean) = Plain!AppendTable(s) /\ Misfires(s, c, Clean) = {s}
  BY <1>1 DEF PlainEffect, Misfires
<1>3. t = Plain!AppendTable(s) \/ t = s
  BY <1>2 DEF Outcomes, c
<1> QED
  BY <1>3, AppendTableIs

-----------------------------------------------------------------------------
(* How far the edit of a plain store has got. *)

Shaped(n) == n = [copy |-> n.copy, grown |-> n.grown, donors |-> n.donors, victims |-> n.victims,
                  metaBefore |-> n.metaBefore, metaAfter |-> n.metaAfter]

Begun == calls = Plan(attack, SeedCount) /\ Fresh(store) /\ Fresh(ideal)

HalfTruncated ==
    /\ calls = <<Delete(SeedCount - 1)>>
    /\ Own(store) /\ Len(store.rows) >= SeedCount - 1
    /\ Own(ideal) /\ ideal.rows = SubSeq(Seeded, 1, SeedCount - 1)
HalfReordered ==
    /\ calls = <<Write(Mid - 1, Mid, "as read")>>
    /\ Swapping(store) /\ Own(ideal) /\ ideal.rows = Takes(Mid, Seeded[Mid - 1])
HalfCrossed ==
    /\ Mixed(store) /\ Mixed(ideal)
    /\ \/ calls = <<Call("read_both"), ReplayFrom("other")>>
       \/ calls = <<ReplayFrom("other")>> /\ NotedBoth(store)
Copied == Fresh(notes.copy.store) /\ Fresh(notes.copy.ideal) /\ notes.copy.ideal.readsAll = FALSE
HalfRestored ==
    /\ Copied /\ Own(store) /\ Own(ideal)
    /\ \/ calls = <<Call("append"), Call("read_grown"), Call("restore")>>
       \/ calls = <<Call("read_grown"), Call("restore")>>
       \/ calls = <<Call("restore")>>
Halfway ==
    \/ attack = "truncate" /\ HalfTruncated
    \/ attack = "reorder" /\ HalfReordered
    \/ attack = "cross_replay" /\ HalfCrossed
    \/ attack = "snapshot_rollback" /\ HalfRestored

Modes == store.readsAll \in BOOLEAN /\ ideal.readsAll = FALSE /\ Shaped(notes)

Editable ==
    /\ kind = "plain" /\ pc = "edit" /\ records = Clean /\ Modes
    /\ SeedCount >= NeedsAtLeast(attack)
    /\ Begun \/ Halfway
Forward ==
    /\ Modes'
    /\ \/ pc' = "edit" /\ Halfway'
       \/ pc' = "snapshot after" /\ Edited'

-----------------------------------------------------------------------------
(* One call of the edit. *)

LEMMA OneCall ==
    ASSUME NEW c, calls = <<c>>
    PROVE  Head(calls) = c /\ (CallDone => calls' = <<>> /\ pc' = "snapshot after")
<1>1. Head(<<c>>) = c /\ Tail(<<c>>) = <<>> /\ Len(<<c>>) = 1
  OBVIOUS
<1> QED
  BY <1>1 DEF CallDone, Goto

LEMMA TwoCalls ==
    ASSUME NEW c, NEW d, calls = <<c, d>>
    PROVE  Head(calls) = c /\ (CallDone => calls' = <<d>> /\ pc' = "edit")
<1>1. Head(<<c, d>>) = c /\ Tail(<<c, d>>) = <<d>> /\ Len(<<c, d>>) # 1
  OBVIOUS
<1> QED
  BY <1>1 DEF CallDone, Goto

LEMMA ThreeCalls ==
    ASSUME NEW c, NEW d, NEW e, calls = <<c, d, e>>
    PROVE  Head(calls) = c /\ (CallDone => calls' = <<d, e>> /\ pc' = "edit")
<1>1. Head(<<c, d, e>>) = c /\ Tail(<<c, d, e>>) = <<d, e>> /\ Len(<<c, d, e>>) # 1
  OBVIOUS
<1> QED
  BY <1>1 DEF CallDone, Goto

LEMMA FourCalls ==
    ASSUME NEW c, NEW d, NEW e, NEW f, calls = <<c, d, e, f>>
    PROVE  Head(calls) = c /\ (CallDone => calls' = <<d, e, f>> /\ pc' = "edit")
<1>1. Head(<<c, d, e, f>>) = c /\ Tail(<<c, d, e, f>>) = <<d, e, f>> /\ Len(<<c, d, e, f>>) # 1
  OBVIOUS
<1> QED
  BY <1>1 DEF CallDone, Goto

LEMMA Kept == CallDone => kind' = kind /\ attack' = attack /\ records' = records /\ before' = before
BY DEF CallDone

(* A call that writes: what it left, of the store and of the ideal. *)
Edits(c) ==
    /\ ideal' = PlainEffect("plain", ideal, c, Clean)
    /\ store' \in Outcomes(store, c)
    /\ CallDone
    /\ c.op # "meta" => notes' = notes
    /\ c.op = "meta" =>
         notes' = [notes EXCEPT !.metaBefore = ReadMeta(store, "plain", Clean[c.at]),
                                !.metaAfter = ReadMeta(store', "plain", Clean[c.at])]
LEMMA EditIs ==
    ASSUME kind = "plain", records = Clean, Tamper, NEW c, Head(calls) = c, c.op \in Editing
    PROVE  Edits(c)
<1>1. Edit
  BY DEF Tamper, ReadBoth, TakeCopy, ReadGrown, PutBack, AtCall, Editing
<1>2. ideal' = PlainEffect("plain", ideal, c, Clean) /\ store' \in Outcomes(store, c)
  BY <1>1, PlainEditIs
<1> QED
  BY <1>1, <1>2 DEF Edit, Edits

LEMMA Ops ==
    /\ \A to, from, how : Write(to, from, how).op = "write"
    /\ \A at : Delete(at).op = "delete" /\ EditMetaAt(at).op = "meta" /\ EditMetaAt(at).at = at
    /\ \A ctx : ReplayFrom(ctx).op = "replay"
    /\ \A op : Call(op).op = op
    /\ Editing = {"write", "delete", "replay", "seed_other", "append", "meta"}
BY DEF Write, Delete, EditMetaAt, ReplayFrom, Call, Editing

LEMMA WriteOp ==
    ASSUME NEW to, NEW from, NEW how
    PROVE  Write(to, from, how).op \in Editing /\ Write(to, from, how).op # "meta"
BY DEF Write, Editing

LEMMA ModesOwn ==
    ASSUME Table(store'), ideal'.readsAll = FALSE, Shaped(notes')
    PROVE  Modes'
BY TableIs DEF Modes, Shaped

LEMMA OwnTable == \A s : Own(s) => Table(s)
BY DEF Own

LEMMA NotHalfway ==
    ASSUME Editable, attack \notin {"truncate", "reorder", "cross_replay", "snapshot_rollback"}
    PROVE  Begun
BY DEF Editable, Halfway

LEMMA TamperStep ==
    ASSUME Editable, attack = "tamper", Tamper
    PROVE  Forward
<1> DEFINE c == Write(Mid, Mid, "mutated")
<1>1. Begun
  BY NotHalfway
<1>2. calls = <<c>> /\ Fresh(store) /\ Fresh(ideal)
  BY <1>1 DEF Begun, Plan, Mid
<1>3. c.op = "write" /\ c.op \in Editing
  BY Ops
<1>4. /\ ideal' = PlainEffect("plain", ideal, Write(Mid, Mid, "mutated"), Clean)
      /\ store' \in Outcomes(store, Write(Mid, Mid, "mutated"))
      /\ CallDone /\ notes' = notes
  <2>1. Head(calls) = c /\ kind = "plain" /\ records = Clean
    BY <1>2, OneCall DEF Editable
  <2>2. Edits(c)
    BY <1>3, <2>1, EditIs
  <2> QED
    BY <1>3, <2>2 DEF Edits
<1>5. pc' = "snapshot after" /\ attack' = "tamper"
  BY <1>2, <1>4, OneCall, Kept
<1>6. Own(ideal') /\ ideal'.rows = Takes(Mid, Mutated) /\ ideal'.readsAll = ideal.readsAll
  BY <1>2, <1>4, TamperDone
<1>7. Own(store') /\ Len(store'.rows) = SeedCount
      /\ (store'.rows[Mid] = Seeded[Mid] \/ store'.rows[Mid] = Takes(Mid, Mutated)[Mid])
  BY <1>2, <1>4, TamperCall
<1>8. Tampering'
  BY <1>6, <1>7 DEF Tampering
<1>9. Modes'
  BY <1>4, <1>6, <1>7, OwnTable, ModesOwn DEF Editable, Modes
<1> QED
  BY <1>5, <1>8, <1>9 DEF Forward, Edited

LEMMA LastCall ==
    ASSUME Editable, Tamper, NEW c, calls = <<c>>, c.op \in Editing
    PROVE  Edits(c) /\ pc' = "snapshot after" /\ attack' = attack
<1>1. Head(calls) = c /\ kind = "plain" /\ records = Clean
  BY OneCall DEF Editable
<1>2. Edits(c)
  BY <1>1, EditIs
<1> QED
  BY <1>2, OneCall, Kept DEF Edits

LEMMA FirstOfTwo ==
    ASSUME Editable, Tamper, NEW c, NEW d, calls = <<c, d>>, c.op \in Editing
    PROVE  Edits(c) /\ pc' = "edit" /\ calls' = <<d>> /\ attack' = attack
<1>1. Head(calls) = c /\ kind = "plain" /\ records = Clean
  BY TwoCalls DEF Editable
<1>2. Edits(c)
  BY <1>1, EditIs
<1> QED
  BY <1>2, TwoCalls, Kept DEF Edits

LEMMA FirstOfThree ==
    ASSUME Editable, Tamper, NEW c, NEW d, NEW e, calls = <<c, d, e>>, c.op \in Editing
    PROVE  Edits(c) /\ pc' = "edit" /\ calls' = <<d, e>> /\ attack' = attack
<1>1. Head(calls) = c /\ kind = "plain" /\ records = Clean
  BY ThreeCalls DEF Editable
<1>2. Edits(c)
  BY <1>1, EditIs
<1> QED
  BY <1>2, ThreeCalls, Kept DEF Edits

LEMMA SameNotes ==
    ASSUME Editable, Table(store'), ideal'.readsAll = ideal.readsAll, notes' = notes
    PROVE  Modes'
<1>1. ideal'.readsAll = FALSE /\ Shaped(notes')
  BY DEF Editable, Modes
<1> QED
  BY <1>1, ModesOwn

-----------------------------------------------------------------------------
LEMMA DeleteStep ==
    ASSUME Editable, attack = "delete_middle", Tamper
    PROVE  Forward
<1> DEFINE c == Delete(Mid)
<1>1. calls = <<c>> /\ Fresh(store) /\ Fresh(ideal)
  BY NotHalfway DEF Begun, Plan, Mid
<1>2. c.op \in Editing /\ c.op # "meta"
  BY Ops
<1>3. Edits(c) /\ pc' = "snapshot after" /\ attack' = attack
  BY <1>1, <1>2, LastCall
<1>4. notes' = notes /\ store' \in Outcomes(store, Delete(Mid))
      /\ ideal' = PlainEffect("plain", ideal, Delete(Mid), Clean)
  BY <1>2, <1>3 DEF Edits
<1>5. Mid \in 1..SeedCount /\ Mid <= Len(store.rows) /\ Mid <= Len(ideal.rows) /\ Own(store) /\ Own(ideal)
      /\ ideal.rows = Seeded
  BY <1>1, MidIs, FreshOwn, SeededIs DEF Fresh
<1>6. Own(store')
  BY <1>4, <1>5, DeleteCall
<1>7. Own(ideal') /\ ideal'.rows = RemoveAt(Seeded, Mid) /\ ideal'.readsAll = ideal.readsAll
  BY <1>4, <1>5, DeleteDone
<1>8. Deleting'
  BY <1>6, <1>7 DEF Deleting
<1>9. Modes'
  BY <1>4, <1>6, <1>7, OwnTable, SameNotes
<1> QED
  BY <1>3, <1>8, <1>9 DEF Forward, Edited

LEMMA TruncateFirst ==
    ASSUME Editable, attack = "truncate", Begun, Tamper
    PROVE  Forward
<1> DEFINE n == SeedCount
           c == Delete(n)
           d == Delete(n - 1)
<1>1. calls = <<c, d>> /\ Fresh(store) /\ Fresh(ideal)
  BY DEF Begun, Plan
<1>2. c.op \in Editing /\ c.op # "meta"
  BY Ops
<1>3. Edits(c) /\ pc' = "edit" /\ attack' = attack /\ calls' = <<d>>
  BY <1>1, <1>2, FirstOfTwo
<1>4. notes' = notes /\ store' \in Outcomes(store, Delete(n))
      /\ ideal' = PlainEffect("plain", ideal, Delete(n), Clean)
  BY <1>2, <1>3 DEF Edits
<1>5. n \in 1..SeedCount /\ n = Len(store.rows) /\ n <= Len(store.rows) /\ n <= Len(ideal.rows)
      /\ Own(store) /\ Own(ideal) /\ ideal.rows = Seeded
  BY <1>1, FreshOwn, SeededIs DEF Fresh
<1>6. Own(store') /\ Len(store'.rows) >= n - 1
  BY <1>4, <1>5, DeleteCall
<1>7. Own(ideal') /\ ideal'.rows = RemoveAt(Seeded, n) /\ ideal'.readsAll = ideal.readsAll
  BY <1>4, <1>5, DeleteDone
<1>8. RemoveAt(Seeded, n) = SubSeq(Seeded, 1, n - 1)
  <2>1. n \in 1..Len(Seeded) /\ Seeded \in Seq(Rows) /\ SubSeq(Seeded, 1, n) = Seeded
    BY SeededIs, SeededWhole
  <2>2. RemoveAt(SubSeq(Seeded, 1, n), n) = SubSeq(Seeded, 1, n - 1)
    BY <2>1, LastRemoved
  <2> QED
    BY <2>1, <2>2
<1>9. HalfTruncated'
  BY <1>3, <1>6, <1>7, <1>8 DEF HalfTruncated
<1>10. Modes'
  BY <1>4, <1>6, <1>7, OwnTable, SameNotes
<1> QED
  BY <1>3, <1>9, <1>10 DEF Forward, Halfway

LEMMA TruncateSecond ==
    ASSUME Editable, attack = "truncate", HalfTruncated, Tamper
    PROVE  Forward
<1> DEFINE m == SeedCount - 1
           c == Delete(m)
<1>1. calls = <<c>> /\ Own(store) /\ Len(store.rows) >= m /\ Own(ideal) /\ ideal.rows = SubSeq(Seeded, 1, m)
  BY DEF HalfTruncated
<1>2. c.op \in Editing /\ c.op # "meta"
  BY Ops
<1>3. Edits(c) /\ pc' = "snapshot after" /\ attack' = attack
  BY <1>1, <1>2, LastCall
<1>4. notes' = notes /\ store' \in Outcomes(store, Delete(m))
      /\ ideal' = PlainEffect("plain", ideal, Delete(m), Clean)
  BY <1>2, <1>3 DEF Edits
<1>5. SeedCount >= 2
  BY DEF Editable, NeedsAtLeast
<1>6. m \in 1..SeedCount /\ m \in 1..Len(Seeded) /\ Seeded \in Seq(Rows) /\ m - 1 = SeedCount - 2
      /\ Len(store.rows) \in Nat
  BY <1>1, <1>5, SeededIs, OwnTable, TableIs
<1> HIDE DEF m
<1>7. RemoveAt(SubSeq(Seeded, 1, m), m) = SubSeq(Seeded, 1, m - 1) /\ Len(SubSeq(Seeded, 1, m)) = m
  BY <1>6, LastRemoved
<1>8. m <= Len(store.rows) /\ m <= Len(ideal.rows)
  BY <1>1, <1>6, <1>7
<1>9. Own(store')
  BY <1>1, <1>4, <1>6, <1>8, DeleteCall
<1>10. Own(ideal') /\ ideal'.rows = RemoveAt(ideal.rows, m) /\ ideal'.readsAll = ideal.readsAll
  BY <1>1, <1>4, <1>6, <1>8, DeleteDone
<1>11. ideal'.rows = SubSeq(Seeded, 1, SeedCount - 2)
  BY <1>1, <1>6, <1>7, <1>10
<1>12. Truncating'
  BY <1>9, <1>10, <1>11 DEF Truncating
<1>13. Modes'
  BY <1>4, <1>9, <1>10, OwnTable, SameNotes
<1> QED
  BY <1>3, <1>12, <1>13 DEF Forward, Edited

-----------------------------------------------------------------------------
LEMMA ReorderStepFirst ==
    ASSUME Editable, attack = "reorder", Begun, Tamper
    PROVE  Forward
<1> DEFINE c == Write(Mid, Mid - 1, "as read")
           d == Write(Mid - 1, Mid, "as read")
<1>1. calls = <<c, d>> /\ Fresh(store) /\ Fresh(ideal)
  BY DEF Begun, Plan, Mid
<1>2. c.op \in Editing /\ c.op # "meta"
  BY WriteOp
<1>3. Edits(c) /\ pc' = "edit" /\ attack' = attack /\ calls' = <<d>>
  BY <1>1, <1>2, FirstOfTwo
<1>4. notes' = notes /\ store' \in Outcomes(store, Write(Mid, Mid - 1, "as read"))
      /\ ideal' = PlainEffect("plain", ideal, Write(Mid, Mid - 1, "as read"), Clean)
  BY <1>2, <1>3 DEF Edits
<1>5. SeedCount >= 2
  BY DEF Editable, NeedsAtLeast
<1>6. Swapping(store')
  BY <1>1, <1>4, <1>5, ReorderFirst
<1>7. Own(ideal') /\ ideal'.rows = Takes(Mid, Seeded[Mid - 1]) /\ ideal'.readsAll = ideal.readsAll
  BY <1>1, <1>4, <1>5, ReorderFirstDone
<1>8. HalfReordered'
  BY <1>3, <1>6, <1>7 DEF HalfReordered
<1>9. Table(store')
  BY <1>6, OwnTable DEF Swapping
<1>10. Modes'
  BY <1>4, <1>7, <1>9, SameNotes
<1> QED
  BY <1>3, <1>8, <1>10 DEF Forward, Halfway

LEMMA ReorderStepSecond ==
    ASSUME Editable, attack = "reorder", HalfReordered, Tamper
    PROVE  Forward
<1> DEFINE c == Write(Mid - 1, Mid, "as read")
<1>1. calls = <<c>> /\ Swapping(store) /\ Own(ideal) /\ ideal.rows = Takes(Mid, Seeded[Mid - 1])
  BY DEF HalfReordered
<1>2. c.op \in Editing /\ c.op # "meta"
  BY WriteOp
<1>3. Edits(c) /\ pc' = "snapshot after" /\ attack' = attack
  BY <1>1, <1>2, LastCall
<1>4. notes' = notes /\ store' \in Outcomes(store, Write(Mid - 1, Mid, "as read"))
      /\ ideal' = PlainEffect("plain", ideal, Write(Mid - 1, Mid, "as read"), Clean)
  BY <1>2, <1>3 DEF Edits
<1>5. SeedCount >= 2
  BY DEF Editable, NeedsAtLeast
<1>6. Swapping(store')
  BY <1>1, <1>4, <1>5, ReorderSecond
<1>7. Own(ideal') /\ ideal'.rows = Swapped /\ ideal'.readsAll = ideal.readsAll
  BY <1>1, <1>4, <1>5, ReorderSecondDone
<1>8. Reordering'
  BY <1>6, <1>7 DEF Reordering
<1>9. Table(store')
  BY <1>6, OwnTable DEF Swapping
<1>10. Modes'
  BY <1>4, <1>7, <1>9, SameNotes
<1> QED
  BY <1>3, <1>8, <1>10 DEF Forward, Edited

-----------------------------------------------------------------------------
LEMMA ForgeStep ==
    ASSUME Editable, attack = "forge", Tamper
    PROVE  Forward
<1> DEFINE c == Write(SeedCount + 1, SeedCount, "forged")
<1>1. calls = <<c>> /\ Fresh(store) /\ Fresh(ideal)
  BY NotHalfway DEF Begun, Plan
<1>2. c.op \in Editing /\ c.op # "meta"
  BY Ops
<1>3. Edits(c) /\ pc' = "snapshot after" /\ attack' = attack
  BY <1>1, <1>2, LastCall
<1>4. notes' = notes /\ store' \in Outcomes(store, Write(SeedCount + 1, SeedCount, "forged"))
      /\ ideal' = PlainEffect("plain", ideal, Write(SeedCount + 1, SeedCount, "forged"), Clean)
  BY <1>2, <1>3 DEF Edits
<1>5. Own(store') /\ (store'.rows = Append(Seeded, Added) \/ Len(store'.rows) = SeedCount)
  BY <1>1, <1>4, ForgeCall
<1>6. Own(ideal') /\ ideal'.rows = Append(Seeded, Added) /\ ideal'.readsAll = ideal.readsAll
  BY <1>1, <1>4, ForgeDone
<1>7. Forging'
  BY <1>5, <1>6 DEF Forging
<1>8. Modes'
  BY <1>4, <1>5, <1>6, OwnTable, SameNotes
<1> QED
  BY <1>3, <1>7, <1>8 DEF Forward, Edited

LEMMA RollbackStep ==
    ASSUME Editable, attack = "rollback_replay", Tamper
    PROVE  Forward
<1> DEFINE c == ReplayFrom("own")
<1>1. calls = <<c>> /\ Fresh(store) /\ Fresh(ideal)
  BY NotHalfway DEF Begun, Plan
<1>2. c.op \in Editing /\ c.op # "meta"
  BY Ops
<1>3. Edits(c) /\ pc' = "snapshot after" /\ attack' = attack
  BY <1>1, <1>2, LastCall
<1>4. notes' = notes /\ store' \in Outcomes(store, ReplayFrom("own"))
      /\ ideal' = PlainEffect("plain", ideal, ReplayFrom("own"), Clean)
  BY <1>2, <1>3 DEF Edits
<1>5. Own(store')
  BY <1>1, <1>4, RollbackCall
<1>6. Own(ideal') /\ ideal'.rows = Takes(SeedCount, Seeded[1]) /\ ideal'.readsAll = ideal.readsAll
  BY <1>1, <1>4, RollbackDone
<1>7. RollingBack'
  BY <1>5, <1>6 DEF RollingBack
<1>8. Modes'
  BY <1>4, <1>5, <1>6, OwnTable, SameNotes
<1> QED
  BY <1>3, <1>7, <1>8 DEF Forward, Edited

MetaNotes(n, x, y) == [n EXCEPT !.metaBefore = x, !.metaAfter = y]
LEMMA NotedMeta ==
    ASSUME NEW n, Shaped(n), NEW x, NEW y
    PROVE  /\ Shaped(MetaNotes(n, x, y))
           /\ MetaNotes(n, x, y).metaBefore = x /\ MetaNotes(n, x, y).metaAfter = y
<1> DEFINE a == n.copy
           b == n.grown
           c == n.donors
           d == n.victims
           e == n.metaBefore
           f == n.metaAfter
<1>1. n = [copy |-> a, grown |-> b, donors |-> c, victims |-> d, metaBefore |-> e, metaAfter |-> f]
  BY DEF Shaped
<1> HIDE DEF a, b, c, d, e, f
<1>2. MetaNotes(n, x, y) = [copy |-> a, grown |-> b, donors |-> c, victims |-> d, metaBefore |-> x, metaAfter |-> y]
  <2> DEFINE r == [copy |-> a, grown |-> b, donors |-> c, victims |-> d, metaBefore |-> x, metaAfter |-> f]
  <2>1. [n EXCEPT !.metaBefore = x] = r
    BY <1>1
  <2>2. [r EXCEPT !.metaAfter = y]
          = [copy |-> a, grown |-> b, donors |-> c, victims |-> d, metaBefore |-> x, metaAfter |-> y]
    OBVIOUS
  <2>3. MetaNotes(n, x, y) = [[n EXCEPT !.metaBefore = x] EXCEPT !.metaAfter = y]
    BY DEF MetaNotes
  <2> HIDE DEF r
  <2> QED
    BY <2>1, <2>2, <2>3
<1> QED
  BY <1>2 DEF Shaped

LEMMA MetaStep ==
    ASSUME Editable, attack = "metadata_tamper", Tamper
    PROVE  Forward
<1> DEFINE c == EditMetaAt(Mid)
<1>1. calls = <<c>> /\ Fresh(store) /\ Fresh(ideal)
  BY NotHalfway DEF Begun, Plan, Mid
<1>2. c.op \in Editing /\ c.op = "meta" /\ c.at = Mid
  BY Ops
<1>3. Edits(c) /\ pc' = "snapshot after" /\ attack' = attack
  BY <1>1, <1>2, LastCall
<1> DEFINE x == ReadMeta(store, "plain", Clean[Mid])
           y == ReadMeta(store', "plain", Clean[Mid])
<1>4. notes' = MetaNotes(notes, x, y) /\ store' \in Outcomes(store, EditMetaAt(Mid))
      /\ ideal' = PlainEffect("plain", ideal, EditMetaAt(Mid), Clean)
  BY <1>2, <1>3 DEF Edits, MetaNotes
<1>5. Own(store') /\ Own(ideal') /\ ideal'.readsAll = ideal.readsAll /\ (x # y => store'.rows = ideal'.rows)
  BY <1>1, <1>4, MarkCall
<1> HIDE DEF x, y
<1>6. Shaped(notes') /\ notes'.metaBefore = x /\ notes'.metaAfter = y
  BY <1>4, NotedMeta DEF Editable, Modes
<1>7. Marking'
  BY <1>5, <1>6 DEF Marking
<1>8. Modes'
  BY <1>5, <1>6, OwnTable, ModesOwn DEF Editable, Modes
<1> QED
  BY <1>3, <1>7, <1>8 DEF Forward, Edited

-----------------------------------------------------------------------------
(* What the calls that only read note down. *)

CopyNotes(n, x) == [n EXCEPT !.copy = x]
GrownNotes(n, x) == [n EXCEPT !.grown = x]
BothNotes(n, x, y) == [n EXCEPT !.victims = x, !.donors = y]
LEMMA NotedCalls ==
    ASSUME NEW n, Shaped(n), NEW x, NEW y
    PROVE  /\ Shaped(CopyNotes(n, x)) /\ CopyNotes(n, x).copy = x
           /\ Shaped(GrownNotes(n, x)) /\ GrownNotes(n, x).copy = n.copy
           /\ Shaped(BothNotes(n, x, y)) /\ BothNotes(n, x, y).victims = x /\ BothNotes(n, x, y).donors = y
<1> DEFINE a == n.copy
           b == n.grown
           c == n.donors
           d == n.victims
           e == n.metaBefore
           f == n.metaAfter
<1>1. n = [copy |-> a, grown |-> b, donors |-> c, victims |-> d, metaBefore |-> e, metaAfter |-> f]
  BY DEF Shaped
<1>2. a = n.copy
  OBVIOUS
<1> HIDE DEF a, b, c, d, e, f
<1>3. CopyNotes(n, x) = [copy |-> x, grown |-> b, donors |-> c, victims |-> d, metaBefore |-> e, metaAfter |-> f]
  BY <1>1 DEF CopyNotes
<1>4. GrownNotes(n, x) = [copy |-> a, grown |-> x, donors |-> c, victims |-> d, metaBefore |-> e, metaAfter |-> f]
  BY <1>1 DEF GrownNotes
<1>5. BothNotes(n, x, y) = [copy |-> a, grown |-> b, donors |-> y, victims |-> x, metaBefore |-> e, metaAfter |-> f]
  <2> DEFINE r == [copy |-> a, grown |-> b, donors |-> c, victims |-> x, metaBefore |-> e, metaAfter |-> f]
  <2>1. [n EXCEPT !.victims = x] = r
    BY <1>1
  <2>2. [r EXCEPT !.donors = y]
          = [copy |-> a, grown |-> b, donors |-> y, victims |-> x, metaBefore |-> e, metaAfter |-> f]
    OBVIOUS
  <2>3. BothNotes(n, x, y) = [[n EXCEPT !.victims = x] EXCEPT !.donors = y]
    BY DEF BothNotes
  <2> HIDE DEF r
  <2> QED
    BY <2>1, <2>2, <2>3
<1> QED
  BY <1>2, <1>3, <1>4, <1>5 DEF Shaped

LEMMA ReadBothIs ==
    ASSUME kind = "plain", Tamper, Head(calls).op = "read_both"
    PROVE  /\ notes' = BothNotes(notes, ReadAll("plain", store), ReadOther("plain", store))
           /\ CallDone /\ store' = store /\ ideal' = ideal
BY DEF Tamper, Edit, ReadBoth, TakeCopy, ReadGrown, PutBack, AtCall, Editing, BothNotes, history

LEMMA TakeCopyIs ==
    ASSUME kind = "plain", Tamper, Head(calls).op = "snapshot"
    PROVE  /\ notes' = CopyNotes(notes, [store |-> store, ideal |-> ideal])
           /\ CallDone /\ store' = store /\ ideal' = ideal
<1>1. TakeCopy
  BY DEF Tamper, Edit, ReadBoth, TakeCopy, ReadGrown, PutBack, AtCall, Editing
<1>2. Snapshot("plain", store) = store /\ Snapshot("plain", ideal) = ideal
  BY PlainKind DEF Snapshot
<1> QED
  BY <1>1, <1>2 DEF TakeCopy, CopyNotes, history

LEMMA ReadGrownIs ==
    ASSUME kind = "plain", Tamper, Head(calls).op = "read_grown"
    PROVE  /\ notes' = GrownNotes(notes, ReadAll("plain", store))
           /\ CallDone /\ store' = store /\ ideal' = ideal
BY DEF Tamper, Edit, ReadBoth, TakeCopy, ReadGrown, PutBack, AtCall, Editing, GrownNotes, history

LEMMA PutBackIs ==
    ASSUME kind = "plain", Tamper, Head(calls) = Call("restore")
    PROVE  /\ notes' = notes /\ CallDone /\ ideal' = notes.copy.ideal
           /\ store' = notes.copy.store \/ store' = store
<1> DEFINE c == Call("restore")
<1>1. c.op = "restore" /\ Head(calls) = c
  BY Ops
<1>2. PutBack
  BY <1>1 DEF Tamper, Edit, ReadBoth, TakeCopy, ReadGrown, PutBack, AtCall, Editing
<1> HIDE DEF c
<1>3. Misfires(store, c, records) = {store}
  BY <1>1 DEF Misfires
<1>4. Restore("plain", store, notes.copy.store) = notes.copy.store
      /\ Restore("plain", ideal, notes.copy.ideal) = notes.copy.ideal
  BY PlainKind DEF Restore
<1> QED
  BY <1>1, <1>2, <1>3, <1>4 DEF PutBack

-----------------------------------------------------------------------------
LEMMA CrossFirst ==
    ASSUME Editable, attack = "cross_replay", Begun, Tamper
    PROVE  Forward
<1> DEFINE c == Call("seed_other")
           d == Call("read_both")
           e == ReplayFrom("other")
<1>1. calls = <<c, d, e>> /\ Fresh(store) /\ Fresh(ideal)
  BY DEF Begun, Plan
<1>2. c.op \in Editing /\ c.op # "meta"
  BY Ops
<1>3. Edits(c) /\ pc' = "edit" /\ attack' = attack /\ calls' = <<d, e>>
  BY <1>1, <1>2, FirstOfThree
<1>4. notes' = notes /\ store' \in Outcomes(store, Call("seed_other"))
      /\ ideal' = PlainEffect("plain", ideal, Call("seed_other"), Clean)
  BY <1>2, <1>3 DEF Edits
<1>5. ideal' \in Outcomes(ideal, Call("seed_other"))
  BY <1>4 DEF Outcomes
<1>6. Mixed(store') /\ Mixed(ideal') /\ ideal'.readsAll = ideal.readsAll
  BY <1>1, <1>4, <1>5, SeedOtherCall
<1>7. HalfCrossed'
  BY <1>3, <1>6 DEF HalfCrossed
<1>8. Table(store')
  BY <1>6 DEF Mixed
<1>9. Modes'
  BY <1>4, <1>6, <1>8, SameNotes
<1> QED
  BY <1>3, <1>7, <1>9 DEF Forward, Halfway

LEMMA CrossSecond ==
    ASSUME Editable, attack = "cross_replay", Mixed(store), Mixed(ideal),
           calls = <<Call("read_both"), ReplayFrom("other")>>, Tamper
    PROVE  Forward
<1> DEFINE d == Call("read_both")
           e == ReplayFrom("other")
<1>1. calls = <<d, e>> /\ d.op = "read_both" /\ Head(calls) = d
  BY Ops, TwoCalls
<1>2. notes' = BothNotes(notes, ReadAll("plain", store), ReadOther("plain", store))
      /\ CallDone /\ store' = store /\ ideal' = ideal
  BY <1>1, ReadBothIs DEF Editable
<1>3. calls' = <<e>> /\ pc' = "edit" /\ attack' = attack
  BY <1>1, <1>2, TwoCalls, Kept
<1>4. /\ ReadAll("plain", store) = PlainRecords(IF store.readsAll THEN Seeded \o Others ELSE Seeded)
      /\ ReadOther("plain", store) = PlainRecords(Others)
  BY MixedReads
<1>5. Shaped(notes') /\ notes'.victims = ReadAll("plain", store) /\ notes'.donors = ReadOther("plain", store)
  BY <1>2, NotedCalls DEF Editable, Modes
<1>6. NotedBoth(store)'
  BY <1>2, <1>4, <1>5 DEF NotedBoth
<1>7. HalfCrossed'
  BY <1>2, <1>3, <1>6 DEF HalfCrossed
<1>8. Modes'
  BY <1>2, <1>5 DEF Editable, Modes, Shaped
<1> QED
  BY <1>3, <1>7, <1>8 DEF Forward, Halfway

LEMMA CrossThird ==
    ASSUME Editable, attack = "cross_replay", Mixed(store), Mixed(ideal), NotedBoth(store),
           calls = <<ReplayFrom("other")>>, Tamper
    PROVE  Forward
<1> DEFINE c == ReplayFrom("other")
<1>1. c.op \in Editing /\ c.op # "meta" /\ calls = <<c>>
  BY Ops
<1>2. Edits(c) /\ pc' = "snapshot after" /\ attack' = attack
  BY <1>1, LastCall
<1>3. notes' = notes /\ store' \in Outcomes(store, ReplayFrom("other"))
      /\ ideal' = PlainEffect("plain", ideal, ReplayFrom("other"), Clean)
  BY <1>1, <1>2 DEF Edits
<1>4. store.readsAll \in BOOLEAN /\ ideal.readsAll = FALSE /\ Shaped(notes)
  BY DEF Editable, Modes
<1>5. Table(ideal') /\ Crossed(ideal'.rows) /\ ideal'.readsAll = FALSE
  BY <1>3, <1>4, CrossDone
<1>6. store'.readsAll = store.readsAll
  BY <1>3, ReplayKeepsMode DEF Mixed
<1>7. ~store'.readsAll => CrossedOver(store')
  BY <1>3, <1>6, CrossCall
<1>8. NotedBoth(store)'
  BY <1>3, <1>6 DEF NotedBoth
<1>9. Crossing'
  BY <1>4, <1>5, <1>6, <1>7, <1>8 DEF Crossing
<1>10. Modes'
  BY <1>3, <1>4, <1>5, <1>6 DEF Modes, Shaped
<1> QED
  BY <1>2, <1>9, <1>10 DEF Forward, Edited

-----------------------------------------------------------------------------
LEMMA CopyStep ==
    ASSUME Editable, attack = "snapshot_rollback", Begun, Tamper
    PROVE  Forward
<1> DEFINE c == Call("snapshot")
           d == Call("append")
           e == Call("read_grown")
           f == Call("restore")
<1>1. calls = <<c, d, e, f>> /\ Fresh(store) /\ Fresh(ideal)
  BY DEF Begun, Plan
<1>2. Head(calls) = c /\ c.op = "snapshot"
  BY <1>1, Ops, FourCalls
<1> DEFINE copy == [store |-> store, ideal |-> ideal]
<1>3. notes' = CopyNotes(notes, copy) /\ CallDone /\ store' = store /\ ideal' = ideal
  BY <1>2, TakeCopyIs DEF Editable
<1>4. calls' = <<d, e, f>> /\ pc' = "edit" /\ attack' = attack
  BY <1>1, <1>3, FourCalls, Kept
<1>5. copy.store = store /\ copy.ideal = ideal
  OBVIOUS
<1> HIDE DEF copy
<1>6. Shaped(notes') /\ notes'.copy = copy
  BY <1>3, NotedCalls DEF Editable, Modes
<1>7. ideal.readsAll = FALSE
  BY DEF Editable, Modes
<1>8. Copied'
  BY <1>1, <1>5, <1>6, <1>7 DEF Copied
<1>9. Own(store') /\ Own(ideal')
  BY <1>1, <1>3, FreshOwn
<1>10. HalfRestored'
  BY <1>4, <1>8, <1>9 DEF HalfRestored
<1>11. Modes'
  BY <1>3, <1>6 DEF Editable, Modes, Shaped
<1> QED
  BY <1>4, <1>10, <1>11 DEF Forward, Halfway

LEMMA AppendStep ==
    ASSUME Editable, attack = "snapshot_rollback", Copied, Own(store), Own(ideal), Tamper,
           calls = <<Call("append"), Call("read_grown"), Call("restore")>>
    PROVE  Forward
<1> DEFINE c == Call("append")
           d == Call("read_grown")
           e == Call("restore")
<1>1. c.op \in Editing /\ c.op # "meta" /\ calls = <<c, d, e>>
  BY Ops
<1>2. Edits(c) /\ pc' = "edit" /\ attack' = attack /\ calls' = <<d, e>>
  BY <1>1, FirstOfThree
<1>3. notes' = notes /\ store' \in Outcomes(store, Call("append"))
      /\ ideal' = PlainEffect("plain", ideal, Call("append"), Clean)
  BY <1>1, <1>2 DEF Edits
<1>4. ideal' \in Outcomes(ideal, Call("append"))
  BY <1>3 DEF Outcomes
<1>5. Own(store') /\ Own(ideal') /\ ideal'.readsAll = ideal.readsAll
  BY <1>3, <1>4, AppendCall
<1>6. Copied'
  BY <1>3 DEF Copied
<1>7. HalfRestored'
  BY <1>2, <1>5, <1>6 DEF HalfRestored
<1>8. Modes'
  BY <1>3, <1>5, OwnTable, SameNotes
<1> QED
  BY <1>2, <1>7, <1>8 DEF Forward, Halfway

LEMMA GrownStep ==
    ASSUME Editable, attack = "snapshot_rollback", Copied, Own(store), Own(ideal), Tamper,
           calls = <<Call("read_grown"), Call("restore")>>
    PROVE  Forward
<1> DEFINE d == Call("read_grown")
           e == Call("restore")
<1>1. calls = <<d, e>> /\ d.op = "read_grown" /\ Head(calls) = d
  BY Ops, TwoCalls
<1>2. notes' = GrownNotes(notes, ReadAll("plain", store)) /\ CallDone /\ store' = store /\ ideal' = ideal
  BY <1>1, ReadGrownIs DEF Editable
<1>3. calls' = <<e>> /\ pc' = "edit" /\ attack' = attack
  BY <1>1, <1>2, TwoCalls, Kept
<1>4. Shaped(notes') /\ notes'.copy = notes.copy
  BY <1>2, NotedCalls DEF Editable, Modes
<1>5. Copied'
  BY <1>4 DEF Copied
<1>6. HalfRestored'
  BY <1>2, <1>3, <1>5 DEF HalfRestored
<1>7. Modes'
  BY <1>2, <1>4 DEF Editable, Modes, Shaped
<1> QED
  BY <1>3, <1>6, <1>7 DEF Forward, Halfway

LEMMA RestoreStep ==
    ASSUME Editable, attack = "snapshot_rollback", Copied, Own(store), Own(ideal), Tamper,
           calls = <<Call("restore")>>
    PROVE  Forward
<1>1. Head(calls) = Call("restore")
  BY OneCall
<1>2. notes' = notes /\ CallDone /\ ideal' = notes.copy.ideal /\ (store' = notes.copy.store \/ store' = store)
  BY <1>1, PutBackIs DEF Editable
<1>3. pc' = "snapshot after" /\ attack' = attack
  BY <1>2, OneCall, Kept
<1>4. Own(store') /\ Fresh(ideal') /\ ideal'.readsAll = FALSE
  BY <1>2, FreshOwn DEF Copied
<1>5. Restoring'
  BY <1>4 DEF Restoring
<1>6. Modes'
  BY <1>2, <1>4, OwnTable, ModesOwn DEF Editable, Modes
<1> QED
  BY <1>3, <1>5, <1>6 DEF Forward, Edited

-----------------------------------------------------------------------------
LEMMA EditGoesForward ==
    ASSUME Editable, attack \in Attacks, Tamper
    PROVE  Forward
<1>1. CASE attack = "truncate"
  <2>1. Begun \/ HalfTruncated
    BY <1>1 DEF Editable, Halfway
  <2> QED
    BY <1>1, <2>1, TruncateFirst, TruncateSecond
<1>2. CASE attack = "reorder"
  <2>1. Begun \/ HalfReordered
    BY <1>2 DEF Editable, Halfway
  <2> QED
    BY <1>2, <2>1, ReorderStepFirst, ReorderStepSecond
<1>3. CASE attack = "cross_replay"
  <2>1. Begun \/ HalfCrossed
    BY <1>3 DEF Editable, Halfway
  <2> QED
    BY <1>3, <2>1, CrossFirst, CrossSecond, CrossThird DEF HalfCrossed
<1>4. CASE attack = "snapshot_rollback"
  <2>1. Begun \/ HalfRestored
    BY <1>4 DEF Editable, Halfway
  <2> QED
    BY <1>4, <2>1, CopyStep, AppendStep, GrownStep, RestoreStep DEF HalfRestored
<1> QED
  BY <1>1, <1>2, <1>3, <1>4, TamperStep, DeleteStep, ForgeStep, RollbackStep, MetaStep DEF Attacks

-----------------------------------------------------------------------------
(* A plain store, through the run. *)

Settled == {"verify clean", "reload clean", "verify reloaded", "snapshot before", "read"}
Compared == {"read", "edit", "snapshot after", "check landed"}
Concluding ==
    \/ pc \in {"reload edited", "verify edited"}
    \/ pc = "teardown" /\ outcome \in Verdicts

PlainInv ==
    /\ Modes
    /\ pc = "seed" => store = Plain!EmptyTable(store.readsAll) /\ ideal = Plain!EmptyTable(FALSE)
    /\ pc \in Settled => Fresh(store) /\ Fresh(ideal)
    /\ pc \in Compared => before = Clean
    /\ pc = "edit" => records = Clean /\ (Begun \/ Halfway)
    /\ pc \in {"snapshot after", "check landed"} => Edited
    /\ pc \in {"edit", "snapshot after", "check landed"} => SeedCount >= NeedsAtLeast(attack)
    /\ pc = "check landed" => After
    /\ Concluding => AsIntended

LEMMA PlainStores ==
    /\ \A b : NewAdapter("plain", b) = Plain!EmptyTable(b)
    /\ \A s : SetUp("plain", s) = Plain!EmptyTable(s.readsAll)
    /\ \A s : SeedStore("plain", s) = Plain!SeedTable(s)
    /\ \A s : Reload("plain", s) = s /\ Asked("plain", s) = s
BY PlainKind DEF NewAdapter, SetUp, SeedStore, Reload, Asked, OnReference

LEMMA EmptyMode == \A b : Plain!EmptyTable(b).readsAll = b
BY DEF Plain!EmptyTable

LEMMA NoNotesShaped == Shaped(NoNotes)
BY DEF Shaped, NoNotes

LEMMA IntendedStays ==
    ASSUME kind' = kind, store' = store, ideal' = ideal, attack' = attack, before' = before, AsIntended
    PROVE  AsIntended'
BY DEF AsIntended, SameRow, Replayed

LEMMA PlainInit == ASSUME Init, kind = "plain" PROVE PlainInv
<1>1. PICK broken \in {FALSE, Broken} : store = NewAdapter("plain", broken)
  BY DEF Init
<1>2. broken \in BOOLEAN
  BY <1>1, RunAssumption
<1>3. store.readsAll = broken /\ ideal.readsAll = FALSE /\ notes = NoNotes /\ pc = "idle"
  BY <1>1, PlainStores, EmptyMode DEF Init
<1>4. Modes
  BY <1>2, <1>3, NoNotesShaped DEF Modes
<1> QED
  BY <1>3, <1>4 DEF PlainInv, Settled, Compared, Concluding

LEMMA PlainStart == ASSUME PlainInv, kind = "plain", Start PROVE PlainInv'
<1>1. notes' = NoNotes /\ store' = store /\ ideal' = ideal /\ pc' \in {"setup", "idle"}
  BY DEF Start, Goto
<1>2. Modes'
  BY <1>1, NoNotesShaped DEF PlainInv, Modes, Shaped
<1> QED
  BY <1>1, <1>2 DEF PlainInv, Settled, Compared, Concluding

LEMMA PlainSetup == ASSUME PlainInv, kind = "plain", Setup \/ Teardown PROVE PlainInv'
<1>1. /\ store' = Plain!EmptyTable(store.readsAll) /\ ideal' = Plain!EmptyTable(ideal.readsAll)
      /\ notes' = notes /\ pc' \in {"seed", "idle"}
  BY PlainStores DEF Setup, Teardown, Goto, run
<1>2. store.readsAll \in BOOLEAN /\ ideal.readsAll = FALSE /\ Shaped(notes)
  BY DEF PlainInv, Modes
<1>3. store'.readsAll = store.readsAll /\ ideal'.readsAll = FALSE
  BY <1>1, <1>2, EmptyMode
<1>4. Modes'
  BY <1>1, <1>2, <1>3 DEF Modes, Shaped
<1> QED
  BY <1>1, <1>2, <1>3, <1>4 DEF PlainInv, Settled, Compared, Concluding

LEMMA PlainSeed == ASSUME PlainInv, kind = "plain", Seed PROVE PlainInv'
<1>1. store' = Plain!SeedTable(store) /\ ideal' = Plain!SeedTable(ideal) /\ notes' = notes
      /\ pc = "seed" /\ pc' = "verify clean"
  BY PlainStores DEF Seed, Goto, run
<1>2. store.readsAll \in BOOLEAN /\ ideal.readsAll = FALSE /\ Shaped(notes)
      /\ store = Plain!EmptyTable(store.readsAll) /\ ideal = Plain!EmptyTable(FALSE)
  BY <1>1 DEF PlainInv, Modes
<1>3. Fresh(store') /\ store'.readsAll \in BOOLEAN
  BY <1>1, <1>2, SeedTableIs
<1>4. Fresh(ideal') /\ ideal'.readsAll = FALSE
  BY <1>1, <1>2, SeedTableIs
<1>5. Modes'
  BY <1>1, <1>2, <1>3, <1>4 DEF Modes, Shaped
<1> QED
  BY <1>1, <1>3, <1>4, <1>5 DEF PlainInv, Settled, Compared, Concluding

(* The steps that leave the store alone. *)
Quiet == store' = store /\ ideal' = ideal /\ notes' = notes /\ kind' = kind
LEMMA QuietModes == ASSUME PlainInv, Quiet PROVE Modes'
BY DEF PlainInv, Modes, Quiet, Shaped

LEMMA PlainControl ==
    ASSUME PlainInv, kind = "plain", VerifyClean \/ ReloadClean \/ VerifyReloaded
    PROVE  PlainInv'
<1>1. Quiet
  BY PlainStores DEF VerifyClean, VerifyReloaded, ReloadClean, ReloadStore, Control, Ask, Quiet, run
<1>2. /\ pc \in {"verify clean", "reload clean", "verify reloaded"}
      /\ \/ pc' \in {"reload clean", "verify reloaded", "snapshot before"}
         \/ pc' = "teardown" /\ outcome' = "n/a"
  BY DEF VerifyClean, VerifyReloaded, ReloadClean, ReloadStore, Control, Goto, Return
<1>3. Fresh(store') /\ Fresh(ideal')
  BY <1>1, <1>2 DEF PlainInv, Settled, Quiet
<1>4. Modes'
  BY <1>1, QuietModes
<1> QED
  BY <1>2, <1>3, <1>4 DEF PlainInv, Settled, Compared, Concluding, Verdicts

LEMMA PlainBefore == ASSUME PlainInv, kind = "plain", SnapshotBefore PROVE PlainInv'
<1>1. /\ pc = "snapshot before" /\ pc' = "read" /\ notes' = NoNotes
      /\ store' = store /\ ideal' = ideal /\ before' = ReadAll("plain", store)
  BY DEF SnapshotBefore, Goto, history
<1>2. Fresh(store) /\ Fresh(ideal)
  BY <1>1 DEF PlainInv, Settled
<1>3. before' = Clean
  BY <1>1, <1>2, FreshReads
<1>4. Modes'
  BY <1>1, NoNotesShaped DEF PlainInv, Modes, Shaped
<1> QED
  BY <1>1, <1>2, <1>3, <1>4 DEF PlainInv, Settled, Compared, Concluding

LEMMA Needs == \A a : NeedsAtLeast(a) \in Nat
BY DEF NeedsAtLeast

LEMMA PlainRead == ASSUME PlainInv, kind = "plain", ReadRecords PROVE PlainInv'
<1>1. /\ pc = "read" /\ Quiet /\ before' = before /\ attack' = attack /\ records' = ReadAll("plain", store)
      /\ \/ pc' = "teardown" /\ outcome' = "n/a"
         \/ /\ ~(Len(records') < NeedsAtLeast(attack))
            /\ calls' = Plan(attack, Len(records')) /\ pc' = "edit"
  BY DEF ReadRecords, Goto, Return, Quiet, history
<1>2. Fresh(store) /\ Fresh(ideal) /\ before = Clean
  BY <1>1 DEF PlainInv, Settled, Compared
<1>3. records' = Clean
  BY <1>1, <1>2, FreshReads
<1>4. Modes'
  BY <1>1, QuietModes
<1>5. CASE pc' = "teardown" /\ outcome' = "n/a"
  BY <1>4, <1>5 DEF PlainInv, Settled, Compared, Concluding, Verdicts
<1>6. CASE pc' = "edit" /\ calls' = Plan(attack, Len(records')) /\ ~(Len(records') < NeedsAtLeast(attack))
  <2>1. Len(records') = SeedCount /\ SeedCount \in Nat
    BY <1>3, CleanIs, SeededIs
  <2>2. SeedCount >= NeedsAtLeast(attack')
    <3>1. \A n \in Nat, m \in Nat : ~(n < m) => n >= m
      OBVIOUS
    <3> QED
      BY <1>1, <1>6, <2>1, <3>1, Needs
  <2>3. Begun'
    BY <1>1, <1>2, <1>6, <2>1 DEF Begun, Quiet
  <2> QED
    BY <1>1, <1>2, <1>3, <1>4, <1>6, <2>2, <2>3 DEF PlainInv, Settled, Compared, Concluding
<1> QED
  BY <1>1, <1>5, <1>6

LEMMA PlainTamper == ASSUME TypeInv, PlainInv, kind = "plain", Tamper PROVE PlainInv'
<1>1. pc = "edit" /\ CallDone
  BY DEF Tamper, Edit, ReadBoth, TakeCopy, ReadGrown, PutBack, AtCall
<1>2. attack \in Attacks
  BY <1>1 DEF TypeInv, Named
<1>3. before = Clean /\ records = Clean /\ SeedCount >= NeedsAtLeast(attack) /\ Editable
  BY <1>1 DEF PlainInv, Compared, Editable
<1>4. Forward
  BY <1>2, <1>3, EditGoesForward
<1>5. kind' = kind /\ attack' = attack /\ records' = records /\ before' = before
  BY <1>1, Kept
<1>6. SeedCount >= NeedsAtLeast(attack')
  BY <1>3, <1>5
<1>7. CASE pc' = "edit" /\ Halfway'
  BY <1>3, <1>4, <1>5, <1>6, <1>7 DEF Forward, PlainInv, Settled, Compared, Concluding
<1>8. CASE pc' = "snapshot after" /\ Edited'
  BY <1>3, <1>4, <1>5, <1>6, <1>8 DEF Forward, PlainInv, Settled, Compared, Concluding
<1> QED
  BY <1>4, <1>7, <1>8 DEF Forward

LEMMA EditedStays ==
    ASSUME Edited, store' = store, ideal' = ideal, notes' = notes, attack' = attack
    PROVE  Edited'
BY DEF Edited, Tampering, Truncating, Deleting, Reordering, Forging, Crossing, NotedBoth, RollingBack,
       Marking, Restoring

LEMMA PlainAfter == ASSUME PlainInv, kind = "plain", SnapshotAfter PROVE PlainInv'
<1>1. /\ pc = "snapshot after" /\ pc' = "check landed" /\ Quiet /\ attack' = attack /\ before' = before
      /\ after' = ReadAll("plain", store)
  BY DEF SnapshotAfter, Goto, Quiet, history
<1>2. Edited /\ before = Clean /\ SeedCount >= NeedsAtLeast(attack)
  BY <1>1 DEF PlainInv, Compared
<1>3. Edited'
  BY <1>1, <1>2, EditedStays DEF Quiet
<1>4. Modes'
  BY <1>1, QuietModes
<1>5. After'
  BY <1>1 DEF After, Quiet
<1>6. SeedCount >= NeedsAtLeast(attack')
  BY <1>1, <1>2
<1> QED
  BY <1>1, <1>2, <1>3, <1>4, <1>5, <1>6 DEF PlainInv, Settled, Compared, Concluding

LEMMA PlainLanded == ASSUME TypeInv, PlainInv, kind = "plain", CheckLanded PROVE PlainInv'
<1>1. /\ pc = "check landed" /\ Quiet /\ attack' = attack /\ before' = before
      /\ \/ /\ \E others : Landed(attack, before, after, notes, others)
            /\ pc' = "reload edited"
         \/ pc' = "teardown" /\ outcome' = "ERROR"
  BY DEF CheckLanded, Goto, Return, Quiet, history
<1>2. Edited /\ before = Clean /\ SeedCount >= NeedsAtLeast(attack) /\ After /\ attack \in Attacks
  BY <1>1 DEF PlainInv, Compared, TypeInv, Named
<1>3. Modes'
  BY <1>1, QuietModes
<1>4. CASE pc' = "teardown" /\ outcome' = "ERROR"
  BY <1>3, <1>4 DEF PlainInv, Settled, Compared, Concluding, Verdicts
<1>5. ASSUME NEW others, Landed(attack, before, after, notes, others), pc' = "reload edited"
      PROVE  PlainInv'
  <2>1. AsIntended
    BY <1>2, <1>5, EditLands
  <2>2. AsIntended'
    BY <1>1, <2>1, IntendedStays DEF Quiet
  <2> QED
    BY <1>3, <1>5, <2>2 DEF PlainInv, Settled, Compared, Concluding
<1> QED
  BY <1>1, <1>4, <1>5

LEMMA PlainEnd ==
    ASSUME PlainInv, kind = "plain", ReloadEdited \/ VerifyEdited
    PROVE  PlainInv'
<1>1. Quiet /\ attack' = attack /\ before' = before
  BY PlainStores DEF ReloadEdited, ReloadStore, VerifyEdited, Ask, Quiet, run
<1>2. pc \in {"reload edited", "verify edited"} /\ pc' \in {"verify edited", "teardown"}
  BY DEF ReloadEdited, ReloadStore, VerifyEdited, Goto, Return
<1>3. AsIntended'
  BY <1>1, <1>2, IntendedStays DEF PlainInv, Concluding, Quiet
<1>4. Modes'
  BY <1>1, QuietModes
<1> QED
  BY <1>2, <1>3, <1>4 DEF PlainInv, Settled, Compared, Concluding

LEMMA PlainRaise == ASSUME PlainInv, kind = "plain", Raise PROVE PlainInv'
<1>1. Quiet /\ pc' = "teardown" /\ outcome' = "n/a"
  BY DEF Raise, Return, Goto, Quiet, history
<1>2. Modes'
  BY <1>1, QuietModes
<1> QED
  BY <1>1, <1>2 DEF PlainInv, Settled, Compared, Concluding, Verdicts

(* The teardown raised: the store is left as it is, with no run to read it.        *)
LEMMA PlainLeft == ASSUME PlainInv, kind = "plain", TeardownRaises PROVE PlainInv'
<1>1. store' = store /\ ideal' = ideal /\ notes' = notes /\ pc' = "idle"
  BY DEF TeardownRaises, Goto, run, history
<1>2. Modes'
  BY <1>1 DEF PlainInv, Modes, Shaped
<1> QED
  BY <1>1, <1>2 DEF PlainInv, Settled, Compared, Concluding

LEMMA PlainStays ==
    ASSUME PlainInv, kind = "plain", UNCHANGED vars
    PROVE  PlainInv'
<1>1. Quiet /\ pc' = pc /\ attack' = attack /\ before' = before /\ calls' = calls /\ records' = records
      /\ after' = after /\ outcome' = outcome
  BY DEF vars, run, history, Quiet
<1>2. Modes'
  BY <1>1, QuietModes
<1>3. Edited => Edited'
  BY <1>1, EditedStays DEF Quiet
<1>4. AsIntended => AsIntended'
  BY <1>1, IntendedStays DEF Quiet
<1>5. (Begun => Begun') /\ (After => After')
  BY <1>1 DEF Begun, After, Quiet
<1>6. Halfway => Halfway'
  BY <1>1 DEF Halfway, HalfTruncated, HalfReordered, HalfCrossed, HalfRestored, Copied, NotedBoth, Quiet
<1>7. Concluding' => Concluding
  BY <1>1 DEF Concluding
<1>8. pc = "seed" => store' = Plain!EmptyTable(store'.readsAll) /\ ideal' = Plain!EmptyTable(FALSE)
  BY <1>1 DEF PlainInv, Quiet
<1>9. pc \in Settled => Fresh(store') /\ Fresh(ideal')
  BY <1>1 DEF PlainInv, Quiet
<1> QED
  BY <1>1, <1>2, <1>3, <1>4, <1>5, <1>6, <1>7, <1>8, <1>9 DEF PlainInv

LEMMA PlainKeeps ==
    ASSUME TypeInv, PlainInv, kind = "plain", [Next]_vars
    PROVE  PlainInv'
<1>1. CASE UNCHANGED vars
  BY <1>1, PlainStays
<1>2. CASE Start
  BY <1>2, PlainStart
<1>3. CASE Step
  BY <1>3, PlainSetup, PlainSeed, PlainControl, PlainBefore, PlainRead, PlainTamper, PlainAfter,
     PlainLanded, PlainEnd, PlainRaise, PlainLeft DEF Step
<1> QED
  BY <1>1, <1>2, <1>3 DEF Next

-----------------------------------------------------------------------------
(* Any other store does every call as it should, and puts back what it copied. *)

Copies == notes.copy.store = notes.copy.ideal
NoRestore(q) == \A i \in DOMAIN q : q[i].op # "restore"
Copying == <<Call("snapshot"), Call("append"), Call("read_grown"), Call("restore")>>
Twin ==
    /\ store = ideal /\ Shaped(notes)
    /\ pc = "edit" => calls = Copying \/ Copies \/ NoRestore(calls)

LEMMA Faultless == ASSUME TypeInv, kind # "plain" PROVE Broken = FALSE
BY RunAssumption DEF TypeInv, TypeOK

LEMMA TwinInit == ASSUME Init, kind # "plain" PROVE Twin
<1>1. Broken = FALSE
  BY RunAssumption DEF Init
<1>2. store = ideal /\ notes = NoNotes /\ pc = "idle"
  BY <1>1 DEF Init
<1> QED
  BY <1>2, NoNotesShaped DEF Twin

LEMMA PlanRestores ==
    ASSUME NEW a \in Attacks, NEW n
    PROVE  Plan(a, n) = Copying \/ NoRestore(Plan(a, n))
<1>1. CASE a = "snapshot_rollback"
  BY <1>1 DEF Plan, Copying
<1>2. \A to, from, how : Write(to, from, how).op # "restore"
  BY DEF Write
<1>3. \A at : Delete(at).op # "restore" /\ EditMetaAt(at).op # "restore"
  BY DEF Delete, EditMetaAt
<1>4. \A ctx : ReplayFrom(ctx).op # "restore"
  BY DEF ReplayFrom
<1>5. Call("seed_other").op # "restore" /\ Call("read_both").op # "restore"
  BY DEF Call
<1>6. ASSUME NEW c, c.op # "restore" PROVE NoRestore(<<c>>)
  BY <1>6 DEF NoRestore
<1>7. ASSUME NEW c, NEW d, c.op # "restore", d.op # "restore" PROVE NoRestore(<<c, d>>)
  BY <1>7 DEF NoRestore
<1>8. ASSUME NEW c, NEW d, NEW e, c.op # "restore", d.op # "restore", e.op # "restore"
      PROVE NoRestore(<<c, d, e>>)
  BY <1>8 DEF NoRestore
<1>9. CASE a \in {"tamper", "delete_middle", "forge", "rollback_replay", "metadata_tamper"}
  BY <1>2, <1>3, <1>4, <1>6, <1>9 DEF Plan
<1>10. CASE a \in {"truncate", "reorder"}
  BY <1>2, <1>3, <1>7, <1>10 DEF Plan
<1>11. CASE a = "cross_replay"
  BY <1>4, <1>5, <1>8, <1>11 DEF Plan
<1> QED
  BY <1>1, <1>9, <1>10, <1>11 DEF Attacks

LEMMA TailRestores ==
    ASSUME NEW q, Sequential(q), q # <<>>, NoRestore(q)
    PROVE  NoRestore(Tail(q)) /\ Head(q).op # "restore"
<1>1. PICK S : q \in Seq(S)
  BY DEF Sequential
<1>2. Len(q) \in Nat /\ Len(q) >= 1 /\ DOMAIN q = 1..Len(q)
  BY <1>1, EmptySeq, LenProperties
<1>3. Tail(q) \in Seq(S) /\ Len(Tail(q)) = Len(q) - 1 /\ \A i \in 1..Len(Tail(q)) : Tail(q)[i] = q[i + 1]
  BY <1>1, HeadTailProperties
<1>4. DOMAIN Tail(q) = 1..(Len(q) - 1)
  BY <1>3, LenProperties
<1>5. \A i \in 1..(Len(q) - 1) : i + 1 \in 1..Len(q) /\ 1 \in 1..Len(q)
  BY <1>2
<1>6. NoRestore(Tail(q))
  BY <1>2, <1>3, <1>4, <1>5 DEF NoRestore
<1>7. Head(q) = q[1] /\ 1 \in DOMAIN q
  BY <1>1, <1>2
<1> QED
  BY <1>6, <1>7 DEF NoRestore

(* What one call does to the two stores and the notes. *)
CopiesKept == notes' = notes \/ (Shaped(notes') /\ notes'.copy = notes.copy)
LEMMA TwinCalls ==
    ASSUME TypeInv, Twin, kind # "plain", Tamper
    PROVE  /\ store' = ideal' /\ Shaped(notes') /\ CallDone /\ pc = "edit" /\ calls # <<>>
           /\ \/ CopiesKept
              \/ Copies'
<1>1. Broken = FALSE
  BY Faultless
<1>2. store = ideal /\ Shaped(notes)
  BY DEF Twin
<1>3. CASE Edit
  <2>1. store' = ideal' /\ CallDone /\ pc = "edit" /\ calls # <<>>
    BY <1>1, <1>2, <1>3 DEF Edit
  <2>2. notes' = notes \/ \E x, y : notes' = MetaNotes(notes, x, y)
    <3>1. CASE Head(calls).op = "meta"
      BY <1>3, <3>1 DEF Edit, MetaNotes
    <3>2. CASE Head(calls).op # "meta"
      BY <1>3, <3>2 DEF Edit
    <3> QED
      BY <3>1, <3>2
  <2>3. ASSUME NEW x, NEW y, notes' = MetaNotes(notes, x, y) PROVE Shaped(notes') /\ notes'.copy = notes.copy
    <3>1. MetaNotes(notes, x, y).copy = notes.copy
      BY DEF MetaNotes
    <3> QED
      BY <1>2, <2>3, <3>1, NotedMeta
  <2> QED
    BY <1>2, <2>1, <2>2, <2>3 DEF CopiesKept, Shaped
<1>4. CASE ReadBoth
  <2>1. /\ notes' = BothNotes(notes, ReadAll(kind, store), ReadOther(kind, store)) /\ store' = store /\ ideal' = ideal
        /\ CallDone /\ pc = "edit" /\ calls # <<>>
    BY <1>4 DEF ReadBoth, BothNotes, AtCall, history
  <2>2. \A x, y : BothNotes(notes, x, y).copy = notes.copy
    BY DEF BothNotes
  <2> QED
    BY <1>2, <2>1, <2>2, NotedCalls DEF CopiesKept
<1>5. CASE TakeCopy
  <2> DEFINE copy == [store |-> Snapshot(kind, store), ideal |-> Snapshot(kind, ideal)]
  <2>1. notes' = CopyNotes(notes, copy) /\ store' = store /\ ideal' = ideal
        /\ CallDone /\ pc = "edit" /\ calls # <<>>
    BY <1>5 DEF TakeCopy, CopyNotes, AtCall, history
  <2>2. copy.store = copy.ideal
    BY <1>2
  <2> HIDE DEF copy
  <2>3. Shaped(notes') /\ notes'.copy = copy
    BY <1>2, <2>1, NotedCalls
  <2> QED
    BY <1>2, <2>1, <2>2, <2>3 DEF Copies
<1>6. CASE ReadGrown
  <2>1. notes' = GrownNotes(notes, ReadAll(kind, store)) /\ store' = store /\ ideal' = ideal
        /\ CallDone /\ pc = "edit" /\ calls # <<>>
    BY <1>6 DEF ReadGrown, GrownNotes, AtCall, history
  <2> QED
    BY <1>2, <2>1, NotedCalls DEF CopiesKept
<1>7. CASE PutBack
  <2>1. Head(calls).op = "restore" /\ calls # <<>> /\ pc = "edit" /\ notes' = notes /\ CallDone
        /\ store' = Restore(kind, store, notes.copy.store) /\ ideal' = Restore(kind, ideal, notes.copy.ideal)
    BY <1>1, <1>7 DEF PutBack, AtCall
  <2>2. calls # Copying
    <3>1. Head(Copying).op = "snapshot"
      BY DEF Copying, Call
    <3> QED
      BY <2>1, <3>1
  <2>3. ~NoRestore(calls)
    BY <2>1, TailRestores DEF TypeInv
  <2>4. Copies
    BY <2>1, <2>2, <2>3 DEF Twin
  <2> QED
    BY <1>2, <2>1, <2>4 DEF Copies, CopiesKept, Shaped
<1> QED
  BY <1>3, <1>4, <1>5, <1>6, <1>7 DEF Tamper

LEMMA TwinTamper == ASSUME TypeInv, Twin, kind # "plain", Tamper PROVE Twin'
<1>1. /\ store' = ideal' /\ Shaped(notes') /\ CallDone /\ pc = "edit" /\ calls # <<>>
      /\ CopiesKept \/ Copies'
  BY TwinCalls
<1>2. calls' = Tail(calls)
  BY <1>1 DEF CallDone
<1>3. CASE NoRestore(calls)
  BY <1>1, <1>2, <1>3, TailRestores DEF TypeInv, Twin
<1>4. CASE Copies
  <2>1. Copies'
    BY <1>1, <1>4 DEF Copies, CopiesKept
  <2> QED
    BY <1>1, <2>1 DEF Twin
<1>5. CASE calls = Copying
  <2>1. Head(calls).op = "snapshot"
    BY <1>5 DEF Copying, Call
  <2>2. TakeCopy
    BY <2>1 DEF Tamper, Edit, ReadBoth, TakeCopy, ReadGrown, PutBack, AtCall, Editing
  <2> DEFINE copy == [store |-> Snapshot(kind, store), ideal |-> Snapshot(kind, ideal)]
  <2>3. notes' = CopyNotes(notes, copy)
    BY <2>2 DEF TakeCopy, CopyNotes
  <2>4. copy.store = copy.ideal
    BY DEF Twin
  <2> HIDE DEF copy
  <2>5. notes'.copy = copy
    BY <2>3, NotedCalls DEF Twin
  <2>6. Copies'
    BY <2>4, <2>5 DEF Copies
  <2> QED
    BY <1>1, <2>6 DEF Twin
<1> QED
  BY <1>1, <1>3, <1>4, <1>5 DEF Twin

LEMMA TwinKeeps ==
    ASSUME TypeInv, Twin, kind # "plain", [Next]_vars
    PROVE  Twin'
<1>1. store = ideal /\ Shaped(notes)
  BY DEF Twin
<1>2. CASE Start
  BY <1>1, <1>2, NoNotesShaped DEF Start, Goto, Twin
<1>3. CASE Setup \/ Seed \/ Teardown \/ TeardownRaises \/ ReloadClean \/ ReloadEdited
  <2>1. store' = ideal' /\ notes' = notes /\ pc' # "edit"
    BY <1>1, <1>3 DEF Setup, Seed, Teardown, TeardownRaises, ReloadClean, ReloadEdited, ReloadStore,
                      Goto, run, history
  <2> QED
    BY <1>1, <2>1 DEF Twin, Shaped
<1>4. CASE VerifyClean \/ VerifyReloaded \/ VerifyEdited
  <2>1. store' = ideal' /\ notes' = notes /\ pc' # "edit"
    BY <1>1, <1>4 DEF VerifyClean, VerifyReloaded, VerifyEdited, Control, Ask, Goto, Return
  <2> QED
    BY <1>1, <2>1 DEF Twin, Shaped
<1>5. CASE SnapshotBefore
  <2>1. store' = ideal' /\ notes' = NoNotes /\ pc' # "edit"
    BY <1>1, <1>5 DEF SnapshotBefore, Goto, history
  <2> QED
    BY <2>1, NoNotesShaped DEF Twin
<1>6. CASE ReadRecords
  <2>1. store' = ideal' /\ notes' = notes /\ (pc' = "edit" => calls' = Plan(attack, Len(records'))) /\ pc = "read"
    BY <1>1, <1>6 DEF ReadRecords, Goto, Return, history
  <2>2. attack \in Attacks
    BY <2>1 DEF TypeInv, Named
  <2> QED
    BY <1>1, <2>1, <2>2, PlanRestores DEF Twin, Shaped
<1>7. CASE SnapshotAfter \/ CheckLanded \/ Raise
  <2>1. store' = ideal' /\ notes' = notes /\ pc' # "edit"
    BY <1>1, <1>7 DEF SnapshotAfter, CheckLanded, Raise, Goto, Return, history
  <2> QED
    BY <1>1, <2>1 DEF Twin, Shaped
<1>8. CASE UNCHANGED vars
  BY <1>8 DEF vars, run, history, Twin, Shaped, Copies
<1> QED
  BY <1>2, <1>3, <1>4, <1>5, <1>6, <1>7, <1>8, TwinTamper DEF Next, Step

-----------------------------------------------------------------------------
Stores == (kind = "plain" => PlainInv) /\ (kind # "plain" => Twin)
IInv == TypeInv /\ Stores

LEMMA KindStays == [Next]_vars => kind' = kind
BY DEF Next, Step, vars, run, Start, Setup, Seed, VerifyClean, VerifyReloaded, Control, ReloadClean,
       ReloadEdited, ReloadStore, SnapshotBefore, ReadRecords, Tamper, Edit, ReadBoth, TakeCopy, ReadGrown,
       PutBack, CallDone, SnapshotAfter, CheckLanded, VerifyEdited, Raise, Teardown, TeardownRaises, history

LEMMA Inductive == Spec => []IInv
<1>1. Init => IInv
  BY InitTypes, PlainInit, TwinInit DEF IInv, Stores
<1>2. IInv /\ [Next]_vars => IInv'
  <2> SUFFICES ASSUME IInv, [Next]_vars PROVE IInv'
    OBVIOUS
  <2>1. TypeInv'
    BY NextTypes DEF IInv
  <2>2. kind' = kind
    BY KindStays
  <2>3. CASE kind = "plain"
    BY <2>1, <2>2, <2>3, PlainKeeps DEF IInv, Stores
  <2>4. CASE kind # "plain"
    BY <2>1, <2>2, <2>4, TwinKeeps DEF IInv, Stores
  <2> QED
    BY <2>3, <2>4
<1> QED
  BY <1>1, <1>2, PTL DEF Spec

(* Every verdict is earned: the tool held on the clean and on the reopened   *)
(* store, it was asked once more, and what it was asked about is the edit the *)
(* attack describes, whatever a broken plain adapter did with the calls and   *)
(* however many records are seeded (attacks/base.py:88-134, guard.py:5-15).   *)
THEOREM VerdictsAreEarned == Spec => []VerdictIsEarned
<1>1. IInv => VerdictIsEarned
  <2> SUFFICES ASSUME IInv, Concluded, outcome \in Verdicts
               PROVE  answers = <<TRUE, TRUE, outcome = "VULNERABLE">> /\ AsIntended
    BY DEF VerdictIsEarned
  <2>1. pc = "teardown"
    BY DEF Concluded
  <2>2. answers = <<TRUE, TRUE, outcome = "VULNERABLE">>
    BY <2>1 DEF IInv, TypeInv, Answered
  <2>3. CASE kind = "plain"
    BY <2>1, <2>2, <2>3 DEF IInv, Stores, PlainInv, Concluding
  <2>4. CASE kind # "plain"
    BY <2>2, <2>4 DEF IInv, Stores, Twin, AsIntended
  <2> QED
    BY <2>3, <2>4
<1> QED
  BY <1>1, Inductive, PTL

-----------------------------------------------------------------------------
(***************************************************************************)
(* A plain store that does what it is asked passes every landed check, so   *)
(* that an ERROR of one always has a call that misfired behind it.          *)
(*                                                                         *)
(* IInv says what a misfiring store may be left in.  It does not say what a  *)
(* faithful one must be left in, which BlameInv adds: while nothing has      *)
(* misfired the store is the ideal one, between two calls it is RightSoFar,  *)
(* and after the last it is Right.                                          *)
(*                                                                         *)
(* The order: what each edit makes of the seeded table when all its calls    *)
(* work, and that its landed check accepts that (RightLands); the calls of a *)
(* faithful run; BlameInv.                                                  *)
(***************************************************************************)

-----------------------------------------------------------------------------
(* A run of a plain store in which every call so far did what it says. *)

Alike == ~store.readsAll /\ store = ideal
OneMore == Append(Seeded, Plain!PlainRow(SeedCount, CTX, Plain!Text("late", 0)))
MarkedRows == [Seeded EXCEPT ![Mid] = Marked(Seeded[Mid])]

(* Between two calls of the edit: only the copy of T9 may come before the     *)
(* first call that an adapter reading both contexts gets wrong.              *)
Untouched == 
    /\ calls = <<Call("append"), Call("read_grown"), Call("restore")>>
    /\ Fresh(store) /\ Fresh(ideal) /\ notes.copy = [store |-> store, ideal |-> ideal]
GrownRight ==
    /\ Alike /\ Copies
    /\ \/ calls = <<Call("read_grown"), Call("restore")>> /\ store.rows = OneMore
       \/ calls = <<Call("restore")>> /\ notes.grown = PlainRecords(OneMore)
RightSoFar ==
    \/ Begun
    \/ attack \in {"truncate", "reorder", "cross_replay"} /\ Alike
    \/ attack = "snapshot_rollback" /\ (Untouched \/ GrownRight)
Right ==
    /\ Alike
    /\ attack = "metadata_tamper" => notes.metaBefore # notes.metaAfter /\ store.rows = MarkedRows
    /\ attack = "snapshot_rollback" => notes.grown = PlainRecords(OneMore)

BlameInv ==
    /\ store.readsAll \/ misfired => Broken
    /\ pc = "edit" /\ ~misfired => RightSoFar
    /\ pc \in {"snapshot after", "check landed"} /\ ~misfired => Right
    /\ pc = "teardown" /\ outcome = "ERROR" => misfired
-----------------------------------------------------------------------------
(* What the landed checks say of a table that is as it should be. *)

LEMMA MovedAre ==
    ASSUME NEW a, NEW b, NEW x \in Seq(Rows), NEW y \in Seq(Rows), Shows(a, x), Shows(b, y), NEW P,
           Differ(x, y, P), P \subseteq 1..Len(x)
    PROVE  OnlyMoved(a, b, P)
<1>1. Len(x) = Len(y) /\ Len(a) = Len(x) /\ Len(b) = Len(x) /\ DOMAIN a = 1..Len(x)
  BY SequentialIs DEF Shows, Differ
<1>2. \A i \in 1..Len(x) : a[i].fields = x[i] /\ b[i].fields = y[i]
  BY <1>1 DEF Shows
<1>3. \A i \in 1..Len(x) : i \in Moved(a, b) <=> i \in P
  BY <1>1, <1>2 DEF Moved, Differ
<1>4. Moved(a, b) \subseteq 1..Len(x)
  BY <1>1 DEF Moved
<1>5. Moved(a, b) = P
  BY <1>3, <1>4
<1> QED
  BY <1>1, <1>5 DEF OnlyMoved

LEMMA SameAgain ==
    ASSUME NEW a, NEW b, NEW x \in Seq(Rows), Shows(a, x), Shows(b, x)
    PROVE  SameRecords(a, b)
<1>1. Differ(x, x, {})
  BY DEF Differ
<1>2. OnlyMoved(a, b, {})
  BY <1>1, MovedAre
<1> QED
  BY <1>2 DEF OnlyMoved, SameRecords

(* The rows after an edit that rewrote the rows at P only. *)
LEMMA CleanMoved ==
    ASSUME NEW rows \in Seq(Rows), Len(rows) = SeedCount, NEW seen, Shows(seen, rows), NEW P,
           P \subseteq 1..SeedCount, \A i \in 1..SeedCount : rows[i] # Seeded[i] <=> i \in P
    PROVE  OnlyMoved(Clean, seen, P)
<1>1. Differ(Seeded, rows, P) /\ P \subseteq 1..Len(Seeded)
  BY SeededIs DEF Differ
<1> QED
  BY <1>1, CleanIs, SeededIs, MovedAre

LEMMA TamperShows ==
    ASSUME Own(store), After, store.rows = Takes(Mid, Mutated)
    PROVE  LandedTamper(Clean, after)
<1> DEFINE n == Mid
<1>1. /\ Shows(after, store.rows) /\ Tells(after, store.rows) /\ store.rows \in Seq(Rows)
  BY AfterIs
<1>2. n \in 1..SeedCount /\ n = Middle(Len(Clean))
  BY MidIs
<1>3. Mutated.text \in Texts /\ Mutated.meta \in Metas
  BY MutatedIs, RowIs
<1>4. /\ Len(store.rows) = SeedCount /\ store.rows[n] = With(Seeded[n], Mutated.text, Mutated.meta)
      /\ \A i \in 1..SeedCount : i # n => store.rows[i] = Seeded[i]
  BY <1>2, <1>3, TakesIs
<1>5. Mutated.text # Seeded[n].text
  <2>1. SeededRow(n)
    BY <1>2, SeededIs
  <2>2. Mutated.text.tampered = TRUE /\ Seeded[n].text.tampered = FALSE
    BY <2>1 DEF SeededRow, Mutated, Plain!Tampered, Rows, Texts
  <2> QED
    BY <2>2
<1> HIDE DEF n
<1>6. store.rows[n].text = Mutated.text /\ store.rows[n].id = Seeded[n].id
  BY <1>4 DEF With
<1>7. after[n].payload = Mutated.text /\ after[n].id = Seeded[n].id
  BY <1>1, <1>2, <1>4, <1>6 DEF Tells
<1>8. OnlyMoved(Clean, after, {n})
  <2>1. \A i \in 1..SeedCount : store.rows[i] # Seeded[i] <=> i \in {n}
    BY <1>4, <1>5, <1>6
  <2>2. {n} \subseteq 1..SeedCount
    BY <1>2
  <2> QED
    BY <1>1, <1>4, <2>1, <2>2, CleanMoved
<1> QED
  BY <1>2, <1>5, <1>7, <1>8, CleanRow DEF LandedTamper, KeepsSlot, n

LEMMA TruncateShows ==
    ASSUME SeedCount >= 2, Own(store), After, store.rows = SubSeq(Seeded, 1, SeedCount - 2)
    PROVE  LandedTruncate(Clean, after)
<1>1. Shows(after, store.rows) /\ store.rows \in Seq(Rows)
  BY AfterIs
<1>2. Shows(SubSeq(Clean, 1, SeedCount - 2), store.rows) /\ SeedCount - 2 \in 0..Len(Seeded)
  <2>1. SeedCount - 2 \in 0..Len(Seeded)
    BY SeededIs
  <2> QED
    BY <2>1, CleanIs, SeededIs, ShownSub
<1>3. SameRecords(SubSeq(Clean, 1, SeedCount - 2), after)
  BY <1>1, <1>2, SameAgain
<1>4. Len(store.rows) = SeedCount - 2
  <2>1. \A i \in 1..(SeedCount - 2) : Seeded[i] \in Rows
    BY SeededIs DEF SeededRow
  <2>2. SeedCount - 2 \in Nat
    BY SeededIs
  <2> QED
    BY <2>1, <2>2, SubSeqProperties
<1>5. Len(after) = SeedCount - 2 /\ Len(Clean) = SeedCount
  BY <1>1, <1>4, CleanIs DEF Shows
<1> QED
  BY <1>3, <1>5 DEF LandedTruncate

LEMMA DeleteShows ==
    ASSUME Own(store), After, store.rows = RemoveAt(Seeded, Mid)
    PROVE  LandedDeleteMiddle(Clean, after)
<1>1. Shows(after, store.rows) /\ store.rows \in Seq(Rows)
  BY AfterIs
<1>2. Shows(RemoveAt(Clean, Mid), store.rows)
  BY CleanIs, SeededIs, MidIs, ShownRemove
<1>3. SameRecords(RemoveAt(Clean, Mid), after)
  BY <1>1, <1>2, SameAgain
<1> QED
  BY <1>3, MidIs DEF LandedDeleteMiddle

LEMMA ReorderShows ==
    ASSUME SeedCount >= 2, Own(store), After, store.rows = Swapped
    PROVE  LandedReorder(Clean, after)
<1> DEFINE a == Mid - 1
           b == Mid
<1>1. /\ Shows(after, store.rows) /\ Tells(after, store.rows) /\ store.rows \in Seq(Rows)
  BY AfterIs
<1>2. a \in 1..SeedCount /\ b \in 1..SeedCount /\ a # b
  BY MidIs, SeededIs
<1>3. store.rows = [Takes(b, Seeded[a]) EXCEPT ![a] = With(Seeded[a], Seeded[b].text, Seeded[b].meta)]
  BY DEF Swapped
<1> HIDE DEF a, b
<1>4. SeededRow(a) /\ SeededRow(b)
  BY <1>2, SeededIs
<1>5. /\ Seeded[a] \in Rows /\ Seeded[b] \in Rows
      /\ Seeded[a].text \in Texts /\ Seeded[a].meta \in Metas /\ Seeded[b].text \in Texts /\ Seeded[b].meta \in Metas
  BY <1>4, RowIs DEF SeededRow
<1>6. /\ Takes(b, Seeded[a]) \in Seq(Rows) /\ Len(Takes(b, Seeded[a])) = SeedCount
      /\ Takes(b, Seeded[a])[b] = With(Seeded[b], Seeded[a].text, Seeded[a].meta)
      /\ \A i \in 1..SeedCount : i # b => Takes(b, Seeded[a])[i] = Seeded[i]
  BY <1>2, <1>5, TakesIs
<1>7. /\ Len(store.rows) = SeedCount
      /\ \A i \in 1..SeedCount : store.rows[i] =
            IF i = a THEN With(Seeded[a], Seeded[b].text, Seeded[b].meta) ELSE Takes(b, Seeded[a])[i]
  <2> DEFINE t == Takes(b, Seeded[a])
             r == With(Seeded[a], Seeded[b].text, Seeded[b].meta)
  <2>1. t \in Seq(Rows) /\ Len(t) = SeedCount /\ r \in Rows /\ a \in 1..Len(t)
    BY <1>2, <1>5, <1>6, WithIsRow
  <2> HIDE DEF t, r
  <2>2. /\ [t EXCEPT ![a] = r] \in Seq(Rows) /\ Len([t EXCEPT ![a] = r]) = Len(t)
        /\ \A i \in 1..Len(t) : [t EXCEPT ![a] = r][i] = IF i = a THEN r ELSE t[i]
    BY <2>1, ExceptSeq
  <2> QED
    BY <1>3, <2>1, <2>2 DEF t, r
<1>8. /\ store.rows[a] = With(Seeded[a], Seeded[b].text, Seeded[b].meta)
      /\ store.rows[b] = With(Seeded[b], Seeded[a].text, Seeded[a].meta)
      /\ \A i \in 1..SeedCount : i \notin {a, b} => store.rows[i] = Seeded[i]
  BY <1>2, <1>6, <1>7
<1>9. store.rows[a].text = Seeded[b].text /\ store.rows[b].text = Seeded[a].text /\ Seeded[a].text # Seeded[b].text
  BY <1>2, <1>8, TextsDiffer DEF With
<1>10. OnlyMoved(Clean, after, {a, b})
  <2>1. \A i \in 1..SeedCount : store.rows[i] # Seeded[i] <=> i \in {a, b}
    BY <1>8, <1>9
  <2>2. {a, b} \subseteq 1..SeedCount
    BY <1>2
  <2> QED
    BY <1>1, <1>7, <2>1, <2>2, CleanMoved
<1>11. after[a].payload = Seeded[b].text /\ after[b].payload = Seeded[a].text
  BY <1>1, <1>2, <1>7, <1>9 DEF Tells
<1>12. Clean[a].payload = Seeded[a].text /\ Clean[b].payload = Seeded[b].text
  BY <1>2, CleanRow
<1> QED
  BY <1>9, <1>10, <1>11, <1>12, MidIs DEF LandedReorder, a, b

(* One row more than were seeded. *)
LEMMA OneMoreIs ==
    ASSUME NEW x \in Rows
    PROVE  /\ Append(Seeded, x) \in Seq(Rows) /\ Len(Append(Seeded, x)) = SeedCount + 1
           /\ Append(Seeded, x)[SeedCount + 1] = x
           /\ SubSeq(Append(Seeded, x), 1, SeedCount) = Seeded
<1> DEFINE q == Append(Seeded, x)
<1>1. Seeded \in Seq(Rows) /\ Len(Seeded) = SeedCount /\ SeedCount \in Nat
  BY SeededIs
<1>2. /\ q \in Seq(Rows) /\ Len(q) = SeedCount + 1 /\ q[SeedCount + 1] = x
      /\ \A i \in 1..SeedCount : q[i] = Seeded[i]
  BY <1>1, AppendProperties
<1> HIDE DEF q
<1>3. \A i \in 1..SeedCount : q[i] \in Rows
  BY <1>1, <1>2, ElementOfSeq
<1>4. SubSeq(q, 1, SeedCount) \in Seq(Rows) /\ Len(SubSeq(q, 1, SeedCount)) = SeedCount
      /\ \A i \in 1..SeedCount : SubSeq(q, 1, SeedCount)[i] = q[i]
  BY <1>1, <1>3, SubSeqProperties
<1>5. SubSeq(q, 1, SeedCount) = Seeded
  BY <1>1, <1>2, <1>4, SeqEqual
<1> QED
  BY <1>2, <1>5 DEF q

(* What is read of such a table begins with the clean records. *)
LEMMA OneMoreShown ==
    ASSUME NEW x \in Rows, NEW seen, Shows(seen, Append(Seeded, x))
    PROVE  /\ Len(seen) = SeedCount + 1
           /\ SameRecords(Clean, SubSeq(seen, 1, SeedCount))
<1> DEFINE q == Append(Seeded, x)
<1>1. /\ q \in Seq(Rows) /\ Len(q) = SeedCount + 1 /\ SubSeq(q, 1, SeedCount) = Seeded /\ SeedCount \in 0..Len(q)
  BY OneMoreIs, SeededIs
<1>2. Shows(seen, q)
  OBVIOUS
<1> HIDE DEF q
<1>3. Shows(SubSeq(seen, 1, SeedCount), Seeded)
  BY <1>1, <1>2, ShownSub
<1>4. SameRecords(Clean, SubSeq(seen, 1, SeedCount))
  BY <1>3, CleanIs, SeededIs, SameAgain
<1> QED
  BY <1>1, <1>2, <1>4 DEF Shows

LEMMA ForgeShows ==
    ASSUME Own(store), After, store.rows = Append(Seeded, Added)
    PROVE  LandedForge(Clean, after)
<1>1. Shows(after, store.rows) /\ Tells(after, store.rows)
  BY AfterIs
<1>2. Added \in Rows /\ Added.text = Plain!Text("forged", 0)
  <2>1. SeededRow(SeedCount)
    BY SeededIs
  <2> QED
    BY <2>1, FakedIs DEF Added, Plain!Forged, SeededRow, Rows
<1>3. Len(after) = SeedCount + 1 /\ SameRecords(Clean, SubSeq(after, 1, SeedCount))
  BY <1>1, <1>2, OneMoreShown
<1>4. SeedCount \in 1..SeedCount /\ SeedCount + 1 \in 1..(SeedCount + 1) /\ Len(Clean) = SeedCount
  BY SeededIs, CleanIs
<1>5. Last(after).payload = Added.text
  <2>1. Len(store.rows) = SeedCount + 1 /\ store.rows[SeedCount + 1] = Added
    BY <1>2, OneMoreIs
  <2>2. after[SeedCount + 1].payload = Added.text
    BY <1>1, <1>4, <2>1 DEF Tells
  <2> QED
    BY <1>3, <2>2 DEF Last
<1>6. Last(Clean).payload = Seeded[SeedCount].text
  BY <1>4, CleanRow DEF Last
<1>7. Added.text # Seeded[SeedCount].text
  <2>1. SeededRow(SeedCount)
    BY <1>4, SeededIs
  <2>2. Added.text.from = "forged" /\ Seeded[SeedCount].text.from = "a"
    BY <1>2, <2>1 DEF SeededRow, Plain!Text
  <2> QED
    BY <2>2
<1> QED
  BY <1>3, <1>4, <1>5, <1>6, <1>7 DEF LandedForge

LEMMA RollbackShows ==
    ASSUME SeedCount >= 2, Own(store), After, store.rows = Takes(SeedCount, Seeded[1])
    PROVE  LandedRollbackReplay(Clean, after)
<1> DEFINE n == SeedCount
<1>1. Shows(after, store.rows) /\ Tells(after, store.rows) /\ store.rows \in Seq(Rows)
  BY AfterIs
<1>2. n \in 1..n /\ 1 \in 1..n /\ n # 1 /\ Len(Clean) = n /\ n >= 2
  BY SeededIs, CleanIs
<1>3. Seeded[1].text \in Texts /\ Seeded[1].meta \in Metas
  BY <1>2, SeededIs, RowIs DEF SeededRow
<1>4. /\ Len(store.rows) = n /\ store.rows[n] = With(Seeded[n], Seeded[1].text, Seeded[1].meta)
      /\ \A i \in 1..n : i # n => store.rows[i] = Seeded[i]
  BY <1>2, <1>3, TakesIs
<1>5. Seeded[1].text # Seeded[n].text
  BY <1>2, TextsDiffer
<1>6. store.rows[n].text = Seeded[1].text /\ store.rows[n].id = Seeded[n].id /\ store.rows[n].owner = Seeded[n].owner
  BY <1>4 DEF With
<1>7. after[n].payload = Seeded[1].text /\ after[n].id = Seeded[n].id /\ after[n].owner = Seeded[n].owner
  BY <1>1, <1>2, <1>4, <1>6 DEF Tells
<1>8. OnlyMoved(Clean, after, {n})
  <2>1. \A i \in 1..n : store.rows[i] # Seeded[i] <=> i \in {n}
    BY <1>4, <1>5, <1>6
  <2>2. {n} \subseteq 1..n
    BY <1>2
  <2> QED
    BY <1>1, <1>4, <2>1, <2>2, CleanMoved
<1>9. /\ Clean[1].payload = Seeded[1].text /\ Clean[n].payload = Seeded[n].text
      /\ Clean[n].id = Seeded[n].id /\ Clean[n].owner = Seeded[n].owner
  BY <1>2, CleanRow
<1> HIDE DEF n
<1> QED
  BY <1>2, <1>5, <1>7, <1>8, <1>9 DEF LandedRollbackReplay, KeepsSlot

LEMMA MarkShows ==
    ASSUME Own(store), After, store.rows = MarkedRows, notes.metaBefore # notes.metaAfter
    PROVE  LandedMetadataTamper(Clean, after, notes)
<1> DEFINE n == Mid
           r == Marked(Seeded[n])
<1>1. Shows(after, store.rows) /\ Tells(after, store.rows) /\ store.rows \in Seq(Rows)
  BY AfterIs
<1>2. n \in 1..SeedCount /\ n = Middle(Len(Clean)) /\ Len(Clean) = SeedCount
  BY MidIs, CleanIs
<1>3. Seeded[n] \in Rows /\ r \in Rows /\ r.id = Seeded[n].id /\ r.text = Seeded[n].text
  <2>1. Seeded[n] \in Rows
    BY <1>2, SeededIs DEF SeededRow
  <2> QED
    BY <2>1, MarkedIsRow DEF Marked, With
<1>4. Len(store.rows) = SeedCount /\ store.rows[n] = r
      /\ \A i \in 1..SeedCount : i # n => store.rows[i] = Seeded[i]
  <2>1. store.rows = [Seeded EXCEPT ![n] = r]
    BY DEF MarkedRows
  <2>2. Seeded \in Seq(Rows) /\ Len(Seeded) = SeedCount
    BY SeededIs
  <2> HIDE DEF r, n
  <2> QED
    BY <1>2, <1>3, <2>1, <2>2, ExceptSeq
<1> HIDE DEF r, n
<1>5. after[n].payload = Seeded[n].text /\ after[n].id = Seeded[n].id
  BY <1>1, <1>2, <1>3, <1>4 DEF Tells
<1> DEFINE P == {i \in {n} : r # Seeded[n]}
<1>6. OnlyMoved(Clean, after, P)
  <2>1. \A i \in 1..SeedCount : store.rows[i] # Seeded[i] <=> i \in P
    BY <1>4
  <2>2. P \subseteq 1..SeedCount
    BY <1>2
  <2> HIDE DEF P
  <2> QED
    BY <1>1, <1>4, <2>1, <2>2, CleanMoved
<1>7. P \in {{n}, {}}
  OBVIOUS
<1>8. Clean[n].payload = Seeded[n].text /\ Clean[n].id = Seeded[n].id
  BY <1>2, CleanRow
<1> HIDE DEF P
<1>9. Len(Clean) = Len(after) /\ Moved(Clean, after) \in {{n}, {}}
  BY <1>6, <1>7 DEF OnlyMoved
<1> QED
  BY <1>2, <1>5, <1>8, <1>9 DEF LandedMetadataTamper, KeepsSlot

LEMMA LateRow == Plain!PlainRow(SeedCount, CTX, Plain!Text("late", 0)) \in Rows
BY SeededIs, PlainRowIs DEF NewRow

LEMMA RestoreShows ==
    ASSUME Own(store), After, store.rows = Seeded, notes.grown = PlainRecords(OneMore)
    PROVE  LandedSnapshotRollback(Clean, after, notes)
<1>1. Shows(after, Seeded)
  BY AfterIs
<1>2. SameRecords(Clean, after)
  BY <1>1, CleanIs, SeededIs, SameAgain
<1>3. Len(notes.grown) = SeedCount + 1 /\ SameRecords(Clean, SubSeq(notes.grown, 1, SeedCount))
  <2> DEFINE x == Plain!PlainRow(SeedCount, CTX, Plain!Text("late", 0))
  <2>1. x \in Rows /\ OneMore = Append(Seeded, x)
    BY LateRow DEF OneMore
  <2> HIDE DEF x
  <2>2. Shows(notes.grown, Append(Seeded, x))
    BY <2>1, OneMoreIs, RecordsAre
  <2> QED
    BY <2>1, <2>2, OneMoreShown
<1> QED
  BY <1>2, <1>3, CleanIs DEF LandedSnapshotRollback

CrossedTable(s) == Table(s) /\ ~s.readsAll /\ Crossed(s.rows)
LEMMA CrossedReads ==
    ASSUME NEW s, CrossedTable(s)
    PROVE  /\ Heads(s.rows, SeedCount) = Takes(SeedCount, Others[SeedCount])
           /\ ReadAll("plain", s) = PlainRecords(Takes(SeedCount, Others[SeedCount]))
           /\ ReadOther("plain", s) = PlainRecords(Others)
<1> DEFINE n == SeedCount
           row == Others[n]
<1>1. /\ n \in Nat /\ n >= 1 /\ n \in 1..n /\ Table(s) /\ ~s.readsAll /\ s.rows \in Seq(Rows)
      /\ Len(s.rows) = 2 * n
      /\ s.rows[n] = With(Seeded[n], row.text, row.meta)
      /\ \A i \in 1..(n - 1) : s.rows[i] = Seeded[i]
      /\ \A i \in (n + 1)..(2 * n) : s.rows[i] = Others[i - n]
  <2>1. n \in Nat /\ n >= 1 /\ n \in 1..n
    BY SeededIs
  <2>2. Table(s) /\ ~s.readsAll /\ Crossed(s.rows)
    BY DEF CrossedTable
  <2>3. s.rows \in Seq(Rows)
    BY <2>2, TableIs
  <2>4. /\ Len(s.rows) = 2 * n
        /\ s.rows[n] = With(Seeded[n], row.text, row.meta)
        /\ \A i \in 1..(n - 1) : s.rows[i] = Seeded[i]
        /\ \A i \in (n + 1)..(2 * n) : s.rows[i] = Others[i - n]
    BY <2>2 DEF Crossed
  <2> HIDE DEF n, row
  <2> QED
    BY <2>1, <2>2, <2>3, <2>4
<1>2. row.text \in Texts /\ row.meta \in Metas
  BY <1>1, OthersOwn, RowIs
<1>3. /\ Takes(n, row) \in Seq(Rows) /\ Len(Takes(n, row)) = n
      /\ Takes(n, row)[n] = With(Seeded[n], row.text, row.meta)
      /\ \A i \in 1..n : i # n => Takes(n, row)[i] = Seeded[i]
  BY <1>1, <1>2, TakesIs
<1>4. \A i \in 1..n : i \in 1..(n - 1) \/ i = n
  BY <1>1
<1>5. \A i \in 1..n : s.rows[i] = Takes(n, row)[i]
  <2> SUFFICES ASSUME NEW i \in 1..n PROVE s.rows[i] = Takes(n, row)[i]
    OBVIOUS
  <2>1. CASE i = n
    BY <1>1, <1>3, <2>1
  <2>2. CASE i # n
    BY <1>1, <1>3, <1>4, <2>2
  <2> QED
    BY <2>1, <2>2
<1>6. \A i \in 1..n : s.rows[i].owner = CTX
  <2> SUFFICES ASSUME NEW i \in 1..n PROVE s.rows[i].owner = CTX
    OBVIOUS
  <2>1. Seeded[i].owner = CTX
    BY Owners
  <2>2. CASE i = n
    BY <1>1, <2>1, <2>2 DEF With
  <2>3. CASE i # n
    BY <1>3, <1>5, <2>1, <2>3
  <2> QED
    BY <2>2, <2>3
<1>7. \A i \in (n + 1)..(2 * n) : i - n \in 1..n /\ s.rows[i].owner = OTHER_CTX
  <2>1. \A i \in (n + 1)..(2 * n) : i - n \in 1..n
    BY <1>1
  <2> QED
    BY <1>1, <2>1, Owners
<1>8. ReadOther("plain", s) = PlainRecords(Others)
  BY <1>1, <1>6, SecondHalf, PlainReads
<1> HIDE DEF row
<1>9. Heads(s.rows, n) = Takes(n, row)
  <2>1. n \in 0..Len(s.rows)
    BY <1>1
  <2>2. Heads(s.rows, n) \in Seq(Rows) /\ Len(Heads(s.rows, n)) = n /\ \A k \in 1..n : Heads(s.rows, n)[k] = s.rows[k]
    BY <1>1, <2>1, HeadsIs
  <2> QED
    BY <1>3, <1>5, <2>2, SeqEqual
<1>10. FirstOnes(s, n)
  <2> HIDE DEF n
  <2>1. n \in 0..(2 * n) /\ \A i \in 1..(2 * n) : i \in 1..n \/ i \in (n + 1)..(2 * n)
    BY <1>1
  <2>2. \A i \in 1..(2 * n) : s.rows[i].owner = CTX <=> i <= n
    <3>1. (\A i \in 1..n : i <= n) /\ \A i \in (n + 1)..(2 * n) : ~(i <= n)
      BY <1>1
    <3> QED
      BY <1>6, <1>7, <2>1, <3>1, RunAssumption
  <2> QED
    BY <1>1, <2>1, <2>2 DEF FirstOnes
<1>11. ReadAll("plain", s) = PlainRecords(Heads(s.rows, n))
  BY <1>10, FrontReads, PlainReads
<1> QED
  BY <1>8, <1>9, <1>11 DEF row

LEMMA CrossShows ==
    ASSUME CrossedTable(store), NotedBoth(store), After, NEW others, others = ReadOther("plain", store)
    PROVE  LandedCrossReplay(Clean, after, notes, others)
<1> DEFINE n == SeedCount
           row == Others[n]
           rows == Takes(n, row)
           theirs == PlainRecords(Others)
<1>1. /\ n \in Nat /\ n \in 1..n /\ Len(Clean) = n /\ OTHER_CTX # CTX /\ "none" # CTX /\ "none" # OTHER_CTX
  BY SeededIs, CleanIs, RunAssumption
<1>2. notes.victims = Clean /\ notes.donors = theirs
  BY DEF NotedBoth, CrossedTable, Clean
<1>3. after = PlainRecords(rows) /\ others = theirs
  BY CrossedReads DEF After
<1>4. OthersRow(n) /\ SeededRow(n)
  BY <1>1, OthersIs, SeededIs
<1>5. /\ rows \in Seq(Rows) /\ Len(rows) = n
      /\ rows[n] = With(Seeded[n], row.text, row.meta)
      /\ \A i \in 1..n : i # n => rows[i] = Seeded[i]
  <2>1. row.text \in Texts /\ row.meta \in Metas
    BY <1>4, RowIs DEF OthersRow
  <2> QED
    BY <1>1, <2>1, TakesIs
<1>6. Shows(after, rows) /\ Tells(after, rows) /\ Shows(theirs, Others) /\ Tells(theirs, Others)
      /\ Others \in Seq(Rows) /\ Len(Others) = n
  BY <1>3, <1>5, OthersIs, RecordsAre
<1>7. Last(theirs).id = n + n - 1 /\ Last(theirs).payload = row.text /\ Last(theirs).owner = OTHER_CTX
  <2> HIDE DEF theirs
  <2>1. Last(theirs) = theirs[n]
    BY <1>6 DEF Last, Shows
  <2>2. theirs[n].id = row.id /\ theirs[n].payload = row.text /\ theirs[n].owner = row.owner
    BY <1>1, <1>6 DEF Tells
  <2> QED
    BY <1>4, <2>1, <2>2 DEF OthersRow
<1>8. SameRecords(theirs, others)
  BY <1>3, <1>6, SameAgain
<1>9. SameRecords(Clean, Clean)
  BY CleanIs, SeededIs, SameAgain
<1>10. \A i \in 1..n : Clean[i].id # n + n - 1 /\ Clean[i].payload # row.text
  <2> SUFFICES ASSUME NEW i \in 1..n PROVE Clean[i].id # n + n - 1 /\ Clean[i].payload # row.text
    OBVIOUS
  <2>1. SeededRow(i) /\ Clean[i].id = Seeded[i].id /\ Clean[i].payload = Seeded[i].text
    BY SeededIs, CleanRow
  <2>2. Seeded[i].text # row.text
    BY <1>1, TextsDiffer
  <2>3. i - 1 # n + n - 1
    BY <1>1
  <2> QED
    BY <2>1, <2>2, <2>3 DEF SeededRow
<1>11. rows[n].text = row.text /\ rows[n].id = Seeded[n].id /\ rows[n].owner = Seeded[n].owner /\ row.text # Seeded[n].text
  BY <1>1, <1>5, TextsDiffer DEF With
<1> HIDE DEF rows, row, theirs
<1>12. after[n].payload = row.text /\ after[n].id = Seeded[n].id /\ after[n].owner = CTX
  BY <1>1, <1>4, <1>5, <1>6, <1>11 DEF Tells, SeededRow
<1>13. OnlyMoved(Clean, after, {n})
  <2>1. \A i \in 1..n : rows[i] # Seeded[i] <=> i \in {n}
    BY <1>5, <1>11
  <2>2. {n} \subseteq 1..n
    BY <1>1
  <2> QED
    BY <1>5, <1>6, <2>1, <2>2, CleanMoved
<1>14. Clean[n].id = Seeded[n].id /\ Clean[n].owner = CTX
  BY <1>1, <1>4, CleanRow DEF SeededRow
<1>15. DOMAIN Clean = 1..n
  BY <1>1, CleanIs, SequentialIs DEF Shows
<1> HIDE DEF n
<1> QED
  BY <1>1, <1>2, <1>7, <1>8, <1>9, <1>10, <1>12, <1>13, <1>14, <1>15 DEF LandedCrossReplay, KeepsSlot

(* A faultless edit lands. *)
LEMMA RightLands ==
    ASSUME kind = "plain", attack \in Attacks, SeedCount >= NeedsAtLeast(attack), After, Edited, Right, Modes,
           NEW others, attack = "cross_replay" => others = ReadOther("plain", store)
    PROVE  Landed(attack, Clean, after, notes, others)
<1>1. CASE attack = "tamper"
  BY <1>1, TamperShows DEF Edited, Tampering, Right, Alike, Landed
<1>2. CASE attack = "truncate"
  BY <1>2, TruncateShows DEF Edited, Truncating, Right, Alike, Landed, NeedsAtLeast
<1>3. CASE attack = "delete_middle"
  BY <1>3, DeleteShows DEF Edited, Deleting, Right, Alike, Landed
<1>4. CASE attack = "reorder"
  BY <1>4, ReorderShows DEF Edited, Reordering, Right, Alike, Landed, NeedsAtLeast
<1>5. CASE attack = "forge"
  BY <1>5, ForgeShows DEF Edited, Forging, Right, Alike, Landed
<1>6. CASE attack = "cross_replay"
  <2>1. CrossedTable(store) /\ NotedBoth(store)
    BY <1>6 DEF Edited, Crossing, Right, Alike, CrossedTable
  <2> QED
    BY <1>6, <2>1, CrossShows DEF Landed
<1>7. CASE attack = "rollback_replay"
  BY <1>7, RollbackShows DEF Edited, RollingBack, Right, Alike, Landed, NeedsAtLeast
<1>8. CASE attack = "metadata_tamper"
  BY <1>8, MarkShows DEF Edited, Marking, Right, Landed
<1>9. CASE attack = "snapshot_rollback"
  BY <1>9, RestoreShows DEF Edited, Restoring, Fresh, Right, Alike, Landed
<1> QED
  BY <1>1, <1>2, <1>3, <1>4, <1>5, <1>6, <1>7, <1>8, <1>9 DEF Attacks

-----------------------------------------------------------------------------
(* A call that does what it says keeps the run right. *)

LEMMA FreshAlike ==
    ASSUME Fresh(store), Fresh(ideal), ideal.readsAll = FALSE, ~store.readsAll
    PROVE  Alike
<1> DEFINE s == store
           i == ideal
<1>1. /\ s = [rows |-> s.rows, next |-> s.next, readsAll |-> s.readsAll]
      /\ i = [rows |-> i.rows, next |-> i.next, readsAll |-> i.readsAll]
  BY DEF Fresh, Table
<1>2. s.rows = i.rows /\ s.next = i.next /\ s.readsAll = FALSE /\ i.readsAll = FALSE
  BY TableIs DEF Fresh
<1> HIDE DEF s, i
<1>3. s = i
  BY <1>1, <1>2
<1> QED
  BY <1>3 DEF Alike, s, i

LEMMA RightAlike ==
    ASSUME RightSoFar, Modes, ~store.readsAll
    PROVE  Alike
BY FreshAlike DEF RightSoFar, Modes, Begun, Untouched, GrownRight

LEMMA EditRight ==
    ASSUME kind = "plain", Modes, Modes', RightSoFar, store.readsAll => Broken, Edit, ~misfired'
    PROVE  Alike /\ Alike' /\ store' = Effect("plain", store, Head(calls), records)
<1>1. ~store.readsAll /\ store' = Effect("plain", store, Head(calls), records)
      /\ ideal' = Effect("plain", ideal, Head(calls), records)
  BY DEF Edit
<1>2. Alike
  BY <1>1, RightAlike
<1>3. store' = ideal' /\ ~store'.readsAll
  BY <1>1, <1>2 DEF Alike, Modes
<1> QED
  BY <1>1, <1>2, <1>3 DEF Alike

LEMMA PlanStarts ==
    ASSUME NEW c, NEW d, NEW e, c.op \in Editing, NEW q, q \in {<<c>>, <<c, d>>, <<c, d, e>>}
    PROVE  Head(q).op \in Editing
OBVIOUS
LEMMA FirstOps ==
    ASSUME attack \in Attacks, attack # "snapshot_rollback", NEW n
    PROVE  Head(Plan(attack, n)).op \in Editing
<1>1. CASE attack = "tamper"
  BY <1>1, Ops, PlanStarts DEF Plan
<1>2. CASE attack = "truncate"
  BY <1>2, Ops, PlanStarts DEF Plan
<1>3. CASE attack = "delete_middle"
  BY <1>3, Ops, PlanStarts DEF Plan
<1>4. CASE attack = "reorder"
  <2> DEFINE c == Write(Middle(n), Middle(n) - 1, "as read")
             d == Write(Middle(n) - 1, Middle(n), "as read")
  <2>1. Plan(attack, n) = <<c, d>> /\ c.op \in Editing
    BY <1>4, WriteOp DEF Plan
  <2> HIDE DEF c, d
  <2> QED
    BY <2>1, PlanStarts
<1>5. CASE attack = "forge"
  BY <1>5, Ops, PlanStarts DEF Plan
<1>6. CASE attack = "cross_replay"
  <2> DEFINE c == Call("seed_other")
             d == Call("read_both")
             e == ReplayFrom("other")
  <2>1. Plan(attack, n) = <<c, d, e>>
    BY <1>6 DEF Plan
  <2>2. c.op \in Editing
    BY Ops
  <2> HIDE DEF c, d, e
  <2> QED
    BY <2>1, <2>2, PlanStarts
<1>7. CASE attack = "rollback_replay"
  BY <1>7, Ops, PlanStarts DEF Plan
<1>8. CASE attack = "metadata_tamper"
  BY <1>8, Ops, PlanStarts DEF Plan
<1> QED
  BY <1>1, <1>2, <1>3, <1>4, <1>5, <1>6, <1>7, <1>8 DEF Attacks

LEMMA HalfwayOps ==
    ASSUME Halfway, attack # "snapshot_rollback"
    PROVE  Head(calls).op \in Editing \cup {"read_both"}
<1>1. CASE HalfTruncated
  <2> DEFINE c == Delete(SeedCount - 1)
  <2>1. calls = <<c>> /\ c.op \in Editing
    BY <1>1, Ops DEF HalfTruncated
  <2> HIDE DEF c
  <2> QED
    BY <2>1, OneCall
<1>2. CASE HalfReordered
  <2> DEFINE c == Write(Mid - 1, Mid, "as read")
  <2>1. calls = <<c>> /\ c.op \in Editing
    BY <1>2, WriteOp DEF HalfReordered
  <2> HIDE DEF c
  <2> QED
    BY <2>1, OneCall
<1>3. CASE HalfCrossed
  <2> DEFINE c == Call("read_both")
             d == ReplayFrom("other")
  <2>1. calls = <<c, d>> \/ calls = <<d>>
    BY <1>3 DEF HalfCrossed
  <2>2. c.op = "read_both" /\ d.op \in Editing
    BY Ops
  <2> HIDE DEF c, d
  <2>3. Head(calls) = c \/ Head(calls) = d
    BY <2>1, OneCall, TwoCalls
  <2> QED
    BY <2>2, <2>3
<1> QED
  BY <1>1, <1>2, <1>3 DEF Halfway

LEMMA NoCopying ==
    ASSUME Editable, attack \in Attacks, attack # "snapshot_rollback", Tamper
    PROVE  Edit \/ (ReadBoth /\ ~Begun)
<1>1. Head(calls).op \in Editing \cup {"read_both"}
  BY FirstOps, HalfwayOps DEF Editable, Begun
<1>2. Edit \/ ReadBoth
  BY <1>1 DEF Tamper, TakeCopy, ReadGrown, PutBack, AtCall, Editing
<1>3. ReadBoth => ~Begun
  BY FirstOps DEF Begun, ReadBoth, AtCall, Editing
<1> QED
  BY <1>2, <1>3

(* The mark shows in the metadata read before and after it. *)
LEMMA MarkRight ==
    ASSUME NEW s, Fresh(s), NEW t, t = PlainEffect("plain", s, EditMetaAt(Mid), Clean)
    PROVE  /\ t.rows = MarkedRows
           /\ ReadMeta(s, "plain", Clean[Mid]) # ReadMeta(t, "plain", Clean[Mid])
<1>1. Mid \in 1..SeedCount /\ Own(s) /\ Numbered(s) /\ s.rows = Seeded
  BY MidIs, FreshNumbered
<1>2. t = MarkedAt(s, Mid)
  BY <1>1, MarkCallIs, MarkGoes
<1>3. Own(t) /\ Numbered(t) /\ t.rows = MarkedRows
  BY <1>1, <1>2, MarkedOwn DEF MarkedRows
<1>4. ReadMeta(s, "plain", Clean[Mid]) = Seeded[Mid].meta /\ ReadMeta(t, "plain", Clean[Mid]) = t.rows[Mid].meta
  BY <1>1, <1>3, MetaReads
<1>5. t.rows[Mid] = Marked(Seeded[Mid])
  BY <1>1, <1>3, SeededIs, LenProperties DEF MarkedRows
<1>6. Seeded[Mid].meta.marked = FALSE /\ Marked(Seeded[Mid]).meta.marked = TRUE
  <2>1. SeededRow(Mid)
    BY <1>1, SeededIs
  <2>2. Marked(Seeded[Mid]).meta = [Seeded[Mid].meta EXCEPT !.marked = TRUE]
    BY DEF Marked, With
  <2> QED
    BY <2>1, <2>2 DEF SeededRow
<1> QED
  BY <1>3, <1>4, <1>5, <1>6

LEMMA MetaRight ==
    ASSUME Editable, attack = "metadata_tamper", Tamper, store' = Effect("plain", store, Head(calls), records)
    PROVE  notes'.metaBefore # notes'.metaAfter /\ store'.rows = MarkedRows
<1> DEFINE c == EditMetaAt(Mid)
<1>1. calls = <<c>> /\ Fresh(store) /\ Fresh(ideal)
  BY NotHalfway DEF Begun, Plan, Mid
<1>2. c.op \in Editing /\ c.op = "meta" /\ c.at = Mid
  BY Ops
<1>3. Edits(c) /\ Head(calls) = c /\ records = Clean
  BY <1>1, <1>2, LastCall, OneCall DEF Editable
<1> DEFINE x == ReadMeta(store, "plain", Clean[Mid])
           y == ReadMeta(store', "plain", Clean[Mid])
<1>4. notes' = MetaNotes(notes, x, y)
  BY <1>2, <1>3 DEF Edits, MetaNotes
<1>5. store' = PlainEffect("plain", store, EditMetaAt(Mid), Clean)
  BY <1>3, PlainEffectIs
<1>6. store'.rows = MarkedRows /\ x # y
  BY <1>1, <1>5, MarkRight
<1> HIDE DEF x, y
<1>7. notes'.metaBefore = x /\ notes'.metaAfter = y
  BY <1>4, NotedMeta DEF Editable, Modes
<1> QED
  BY <1>6, <1>7

(* The append of T9 adds one row to the seeded. *)
LEMMA AppendRight ==
    ASSUME NEW s, Fresh(s), NEW t, t = PlainEffect("plain", s, Call("append"), Clean)
    PROVE  t.rows = OneMore
<1> DEFINE c == Call("append")
<1>1. c.op = "append"
  BY DEF Call
<1> HIDE DEF c
<1>2. PlainEffect("plain", s, c, Clean) = Plain!AppendTable(s)
  BY <1>1 DEF PlainEffect
<1>3. s.rows = Seeded /\ s.next = SeedCount /\ Table(s) /\ SeedCount \in Nat
  BY SeededIs DEF Fresh
<1>4. t.rows = Seeded \o New(s, CTX, "late", 1)
  <2> DEFINE new == New(s, CTX, "late", 1)
  <2>1. Plain!AppendTable(s) = Grown(s, new, 1)
    BY <1>3, GrowIs DEF Plain!AppendTable
  <2>2. t = Grown(s, new, 1)
    BY <1>2, <2>1 DEF c
  <2> HIDE DEF new
  <2>3. t.rows = Seeded \o new
    BY <1>3, <2>2 DEF Grown
  <2> QED
    BY <2>3 DEF new
<1> DEFINE x == Plain!PlainRow(SeedCount, CTX, Plain!Text("late", 0))
<1>5. New(s, CTX, "late", 1) = <<x>>
  <2>1. \A i \in 1..1 : i = 1
    OBVIOUS
  <2>2. SeedCount + 1 - 1 = SeedCount /\ 1 - 1 = 0
    BY <1>3
  <2>3. \A i \in 1..1 : Plain!PlainRow(s.next + i - 1, CTX, Plain!Text("late", i - 1)) = x
    BY <1>3, <2>1, <2>2
  <2> HIDE DEF x
  <2>4. New(s, CTX, "late", 1) = [i \in 1..1 |-> x]
    BY <2>3 DEF New
  <2> QED
    BY <2>4
<1>6. Seeded \o <<x>> = Append(Seeded, x)
  <2>1. x \in Rows /\ Seeded \in Seq(Rows)
    BY LateRow, SeededIs
  <2> HIDE DEF x
  <2> QED
    BY <2>1, AppendIsConcat
<1> QED
  BY <1>4, <1>5, <1>6 DEF OneMore

-----------------------------------------------------------------------------
(* One call of the edit, none of them wrong so far. *)

LEMMA StayRight ==
    ASSUME BlameInv, kind = "plain", Editable, attack \in Attacks, attack # "snapshot_rollback", Tamper, Forward,
           ~misfired'
    PROVE  (pc' = "edit" => RightSoFar') /\ (pc' = "snapshot after" => Right')
<1>1. Edit \/ (ReadBoth /\ ~Begun)
  BY NoCopying
<1>2. ~misfired /\ Modes /\ Modes' /\ attack' = attack /\ CallDone /\ (store.readsAll => Broken)
  BY <1>1, Kept DEF Edit, ReadBoth, Editable, Forward, BlameInv, history
<1>3. RightSoFar
  BY <1>2 DEF BlameInv, Editable
<1>4. Alike'
  <2>1. CASE Edit
    BY <1>2, <1>3, <2>1, EditRight
  <2>2. CASE ReadBoth /\ ~Begun
    <3>1. store' = store /\ ideal' = ideal
      BY <2>2 DEF ReadBoth, history
    <3>2. Alike
      BY <1>3, <2>2 DEF RightSoFar
    <3> QED
      BY <3>1, <3>2 DEF Alike
  <2> QED
    BY <1>1, <2>1, <2>2
<1>5. ASSUME pc' = "edit" PROVE RightSoFar'
  <2>1. attack' \in {"truncate", "reorder", "cross_replay"}
    BY <1>2, <1>5 DEF Forward, Halfway
  <2> QED
    BY <1>4, <2>1 DEF RightSoFar
<1>6. ASSUME attack = "metadata_tamper" PROVE notes'.metaBefore # notes'.metaAfter /\ store'.rows = MarkedRows
  <2>1. Edit
    BY <1>1, <1>6, NotHalfway
  <2>2. store' = Effect("plain", store, Head(calls), records)
    BY <1>2, <1>3, <2>1, EditRight
  <2> QED
    BY <1>6, <2>2, MetaRight
<1> QED
  BY <1>2, <1>4, <1>5, <1>6 DEF Right

LEMMA CopyRight ==
    ASSUME BlameInv, kind = "plain", Editable, attack = "snapshot_rollback", Tamper, Begun
    PROVE  RightSoFar' /\ pc' = "edit" /\ store' = store
<1> DEFINE b == Call("snapshot")
           c == Call("append")
           d == Call("read_grown")
           e == Call("restore")
<1>1. calls = <<b, c, d, e>> /\ Fresh(store) /\ Fresh(ideal)
  BY DEF Begun, Plan
<1>2. b.op = "snapshot"
  BY Ops
<1> HIDE DEF b, c, d, e
<1>3. Head(calls) = b
  BY <1>1, FourCalls
<1>4. notes' = CopyNotes(notes, [store |-> store, ideal |-> ideal]) /\ CallDone /\ store' = store /\ ideal' = ideal
  BY <1>2, <1>3, TakeCopyIs
<1>5. calls' = <<c, d, e>> /\ pc' = "edit" /\ attack' = attack
  BY <1>1, <1>4, FourCalls, Kept
<1>6. notes'.copy = [store |-> store', ideal |-> ideal']
  BY <1>4, NotedCalls DEF Editable, Modes
<1>7. Untouched'
  BY <1>1, <1>4, <1>5, <1>6 DEF Untouched, c, d, e
<1> QED
  BY <1>4, <1>5, <1>7 DEF RightSoFar

LEMMA AppendKeepsRight ==
    ASSUME BlameInv, kind = "plain", Editable, attack = "snapshot_rollback", Tamper, Forward, Untouched, RightSoFar,
           ~misfired'
    PROVE  RightSoFar' /\ pc' = "edit" /\ Alike'
<1> DEFINE c == Call("append")
           d == Call("read_grown")
           e == Call("restore")
<1>1. calls = <<c, d, e>> /\ Fresh(store) /\ notes.copy = [store |-> store, ideal |-> ideal]
  BY DEF Untouched
<1>2. c.op = "append" /\ c.op \in Editing /\ c.op # "meta"
  BY Ops
<1> HIDE DEF d, e
<1>3. Edits(c) /\ pc' = "edit" /\ calls' = <<d, e>> /\ attack' = attack /\ Head(calls) = c
  BY <1>1, <1>2, FirstOfThree, ThreeCalls
<1>4. notes' = notes
  BY <1>2, <1>3 DEF Edits
<1>5. Edit
  BY <1>2, <1>3 DEF Tamper, ReadBoth, TakeCopy, ReadGrown, PutBack, AtCall, Editing
<1>6. Alike /\ Alike' /\ store' = Effect("plain", store, c, records)
  BY <1>3, <1>5, EditRight DEF BlameInv, Editable, Forward
<1>7. store'.rows = OneMore
  <2>1. store' = PlainEffect("plain", store, Call("append"), Clean)
    BY <1>6, PlainEffectIs DEF Editable
  <2> QED
    BY <1>1, <2>1, AppendRight
<1>8. Copies'
  <2>1. notes'.copy.store = store /\ notes'.copy.ideal = ideal
    BY <1>1, <1>4
  <2> QED
    BY <1>6, <2>1 DEF Copies, Alike
<1>9. GrownRight'
  BY <1>3, <1>6, <1>7, <1>8 DEF GrownRight, d, e
<1> QED
  BY <1>3, <1>6, <1>9 DEF RightSoFar

LEMMA GrownKeepsRight ==
    ASSUME BlameInv, kind = "plain", Editable, attack = "snapshot_rollback", Tamper, Own(store), Alike, Copies,
           calls = <<Call("read_grown"), Call("restore")>>, store.rows = OneMore
    PROVE  RightSoFar' /\ pc' = "edit" /\ Alike'
<1> DEFINE d == Call("read_grown")
           e == Call("restore")
<1>1. calls = <<d, e>> /\ d.op = "read_grown"
  BY Ops
<1> HIDE DEF d, e
<1>2. Head(calls) = d
  BY <1>1, TwoCalls
<1>3. notes' = GrownNotes(notes, ReadAll("plain", store)) /\ CallDone /\ store' = store /\ ideal' = ideal
  BY <1>1, <1>2, ReadGrownIs
<1>4. calls' = <<e>> /\ pc' = "edit" /\ attack' = attack
  BY <1>1, <1>3, TwoCalls, Kept
<1>5. notes'.copy = notes.copy
  BY <1>3, NotedCalls DEF Editable, Modes
<1>6. notes'.grown = PlainRecords(OneMore)
  <2>1. ReadAll("plain", store) = PlainRecords(OneMore)
    BY OwnReadsAll
  <2> DEFINE x == PlainRecords(OneMore)
  <2>2. notes' = GrownNotes(notes, x)
    BY <1>3, <2>1
  <2> HIDE DEF x
  <2>3. GrownNotes(notes, x).grown = x
    BY DEF GrownNotes, Editable, Modes, Shaped
  <2> QED
    BY <2>2, <2>3 DEF x
<1>7. GrownRight'
  BY <1>3, <1>4, <1>5, <1>6 DEF GrownRight, Alike, Copies, e
<1> QED
  BY <1>3, <1>4, <1>7 DEF RightSoFar, Alike

LEMMA RestoreKeepsRight ==
    ASSUME BlameInv, kind = "plain", Editable, attack = "snapshot_rollback", Tamper, Forward, Copies,
           calls = <<Call("restore")>>, notes.grown = PlainRecords(OneMore), ~misfired'
    PROVE  Right' /\ pc' = "snapshot after"
<1> DEFINE e == Call("restore")
<1>1. calls = <<e>> /\ e.op = "restore" /\ Head(calls) = Call("restore")
  BY Ops, OneCall
<1>2. PutBack
  BY <1>1 DEF Tamper, Edit, ReadBoth, TakeCopy, ReadGrown, PutBack, AtCall, Editing
<1> HIDE DEF e
<1>3. notes' = notes /\ CallDone /\ ideal' = notes.copy.ideal
  BY <1>1, PutBackIs
<1>4. pc' = "snapshot after" /\ attack' = attack
  BY <1>1, <1>3, OneCall, Kept
<1>5. store' = notes.copy.store
  <2>1. store' = Restore("plain", store, notes.copy.store)
    BY <1>2 DEF PutBack
  <2> QED
    BY <2>1, PlainKind DEF Restore
<1>6. store' = ideal' /\ ideal'.readsAll = FALSE
  BY <1>3, <1>5 DEF Copies, Forward, Modes
<1> QED
  BY <1>3, <1>4, <1>6 DEF Right, Alike

LEMMA TamperRight ==
    ASSUME BlameInv, kind = "plain", Editable, attack \in Attacks, Tamper, Forward, ~misfired'
    PROVE  /\ pc' = "edit" => RightSoFar'
           /\ pc' = "snapshot after" => Right'
           /\ store'.readsAll => Broken
<1>1. ~misfired /\ Modes' /\ RightSoFar
  BY DEF Tamper, Edit, ReadBoth, TakeCopy, ReadGrown, PutBack, Editable, Forward, BlameInv, history
<1>2. CASE attack # "snapshot_rollback"
  <2>1. (pc' = "edit" => RightSoFar') /\ (pc' = "snapshot after" => Right')
    BY <1>2, StayRight
  <2>2. store'.readsAll => Broken
    <3>1. Edit \/ ReadBoth
      BY <1>2, NoCopying
    <3>2. CASE Edit
      BY <1>1, <3>2, EditRight DEF Alike, Editable, BlameInv
    <3>3. CASE ReadBoth
      BY <3>3 DEF ReadBoth, BlameInv
    <3> QED
      BY <3>1, <3>2, <3>3
  <2> QED
    BY <2>1, <2>2
<1>3. CASE attack = "snapshot_rollback"
  <2>1. Begun \/ Untouched \/ GrownRight
    BY <1>1, <1>3 DEF RightSoFar
  <2>2. CASE Begun
    BY <1>3, <2>2, CopyRight DEF BlameInv
  <2>3. CASE Untouched
    BY <1>1, <1>3, <2>3, AppendKeepsRight DEF Alike
  <2>4. CASE GrownRight /\ ~Begun
    <3>1. Own(store)
      BY <1>3, <2>4 DEF Editable, Halfway, HalfRestored
    <3>2. CASE calls = <<Call("read_grown"), Call("restore")>> /\ store.rows = OneMore
      BY <1>3, <2>4, <3>1, <3>2, GrownKeepsRight DEF GrownRight, Alike
    <3>3. CASE calls = <<Call("restore")>> /\ notes.grown = PlainRecords(OneMore)
      BY <1>3, <2>4, <3>3, RestoreKeepsRight DEF GrownRight, Right, Alike
    <3> QED
      BY <2>4, <3>2, <3>3 DEF GrownRight
  <2> QED
    BY <2>1, <2>2, <2>3, <2>4
<1> QED
  BY <1>2, <1>3

-----------------------------------------------------------------------------
(* Through the run. *)

LEMMA BlameInit == ASSUME Init, kind = "plain" PROVE BlameInv
<1>1. PICK broken \in {FALSE, Broken} : store = NewAdapter("plain", broken)
  BY DEF Init
<1>2. store.readsAll = broken /\ pc = "idle" /\ misfired = FALSE
  BY <1>1, PlainStores, EmptyMode DEF Init
<1>3. store.readsAll => Broken
  <2>1. broken = FALSE \/ broken = Broken
    OBVIOUS
  <2>2. CASE broken = FALSE
    BY <1>2, <2>2
  <2>3. CASE broken = Broken
    BY <1>2, <2>3
  <2> QED
    BY <2>1, <2>2, <2>3
<1> QED
  BY <1>2, <1>3 DEF BlameInv

(* The steps that neither edit nor check. *)
LEMMA BlameQuiet ==
    ASSUME PlainInv, kind = "plain", BlameInv,
           Start \/ Setup \/ Seed \/ VerifyClean \/ ReloadClean \/ VerifyReloaded \/ SnapshotBefore
             \/ ReloadEdited \/ VerifyEdited \/ Raise \/ Teardown \/ TeardownRaises
    PROVE  BlameInv'
<1>1. CASE Start
  BY <1>1 DEF Start, Goto, BlameInv
<1>2. CASE Setup \/ Teardown
  <2>1. store' = Plain!EmptyTable(store.readsAll) /\ misfired' = misfired /\ pc' \in {"seed", "idle"}
    BY <1>2, PlainStores DEF Setup, Teardown, Goto
  <2> QED
    BY <2>1, EmptyMode DEF BlameInv
<1>3. CASE Seed
  <2>1. store' = Plain!SeedTable(store) /\ misfired' = misfired /\ pc' = "verify clean" /\ pc = "seed"
    BY <1>3, PlainStores DEF Seed, Goto
  <2>2. store = Plain!EmptyTable(store.readsAll) /\ store.readsAll \in BOOLEAN
    BY <2>1 DEF PlainInv, Modes
  <2>3. store'.readsAll = store.readsAll
    BY <2>1, <2>2, SeedTableIs
  <2> QED
    BY <2>1, <2>3 DEF BlameInv
<1>4. CASE VerifyClean \/ ReloadClean \/ VerifyReloaded \/ SnapshotBefore \/ ReloadEdited \/ VerifyEdited \/ Raise
  <2>1. store' = store /\ misfired' = misfired
    BY <1>4, PlainStores DEF VerifyClean, VerifyReloaded, Control, Ask, ReloadClean, ReloadEdited, ReloadStore,
       SnapshotBefore, VerifyEdited, Raise, history
  <2>2. /\ pc' \in {"reload clean", "verify reloaded", "snapshot before", "read", "verify edited", "teardown"}
        /\ pc' = "teardown" => outcome' # "ERROR"
    BY <1>4 DEF VerifyClean, VerifyReloaded, Control, ReloadClean, ReloadEdited, ReloadStore,
       SnapshotBefore, VerifyEdited, Raise, Goto, Return
  <2> QED
    BY <2>1, <2>2 DEF BlameInv
<1>5. CASE TeardownRaises
  <2>1. store' = store /\ misfired' = misfired /\ pc' = "idle"
    BY <1>5 DEF TeardownRaises, Goto, history
  <2> QED
    BY <2>1 DEF BlameInv
<1> QED
  BY <1>1, <1>2, <1>3, <1>4, <1>5

LEMMA BlameRead == ASSUME PlainInv, kind = "plain", BlameInv, ReadRecords PROVE BlameInv'
<1>1. /\ pc = "read" /\ store' = store /\ ideal' = ideal /\ misfired' = misfired /\ attack' = attack
      /\ records' = ReadAll("plain", store)
      /\ \/ pc' = "teardown" /\ outcome' = "n/a"
         \/ calls' = Plan(attack, Len(records')) /\ pc' = "edit"
  BY DEF ReadRecords, Goto, Return, history
<1>2. Fresh(store) /\ Fresh(ideal)
  BY <1>1 DEF PlainInv, Settled
<1>3. Len(records') = SeedCount
  BY <1>1, <1>2, FreshReads, CleanIs
<1>4. pc' = "edit" => Begun'
  BY <1>1, <1>2, <1>3 DEF Begun
<1> QED
  BY <1>1, <1>4 DEF BlameInv, RightSoFar

LEMMA BlameTamper ==
    ASSUME TypeInv, PlainInv, kind = "plain", BlameInv, Tamper
    PROVE  BlameInv'
<1>1. pc = "edit" /\ attack \in Attacks /\ Editable
  BY DEF Tamper, Edit, ReadBoth, TakeCopy, ReadGrown, PutBack, AtCall, TypeInv, Named, PlainInv, Editable
<1>2. Forward
  BY <1>1, EditGoesForward
<1>3. ~misfired' => /\ pc' = "edit" => RightSoFar'
                    /\ pc' = "snapshot after" => Right'
                    /\ store'.readsAll => Broken
  BY <1>1, <1>2, TamperRight
<1>4. pc' \in {"edit", "snapshot after"}
  BY <1>2 DEF Forward
<1>5. misfired' => Broken
  BY DEF Tamper, Edit, ReadBoth, TakeCopy, ReadGrown, PutBack, BlameInv, history
<1> QED
  BY <1>3, <1>4, <1>5 DEF BlameInv

LEMMA RightStays ==
    ASSUME Right, store' = store, ideal' = ideal, notes' = notes, attack' = attack
    PROVE  Right'
BY DEF Right, Alike

LEMMA BlameAfter == ASSUME kind = "plain", BlameInv, SnapshotAfter PROVE BlameInv'
<1>1. /\ pc = "snapshot after" /\ pc' = "check landed" /\ store' = store /\ ideal' = ideal /\ notes' = notes
      /\ attack' = attack /\ misfired' = misfired
  BY DEF SnapshotAfter, Goto, history
<1> QED
  BY <1>1, RightStays DEF BlameInv

LEMMA BlameLanded == ASSUME TypeInv, PlainInv, kind = "plain", BlameInv, CheckLanded PROVE BlameInv'
<1> DEFINE others == IF attack = "cross_replay" THEN ReadOther("plain", store) ELSE <<>>
<1>1. /\ pc = "check landed" /\ store' = store /\ misfired' = misfired
      /\ pc' = "reload edited" \/ (pc' = "teardown" /\ ~Landed(attack, before, after, notes, others))
  BY DEF CheckLanded, Goto, Return, history
<1>2. Edited /\ Modes /\ before = Clean /\ SeedCount >= NeedsAtLeast(attack) /\ After /\ attack \in Attacks
  BY <1>1 DEF PlainInv, Compared, TypeInv, Named
<1>3. ~misfired => Landed(attack, before, after, notes, others)
  <2>1. attack = "cross_replay" => others = ReadOther("plain", store)
    OBVIOUS
  <2> HIDE DEF others
  <2> QED
    BY <1>1, <1>2, <2>1, RightLands DEF BlameInv
<1> QED
  BY <1>1, <1>3 DEF BlameInv

LEMMA BlameStays == ASSUME BlameInv, UNCHANGED vars PROVE BlameInv'
<1>1. /\ kind' = kind /\ pc' = pc /\ attack' = attack /\ calls' = calls /\ outcome' = outcome
      /\ store' = store /\ ideal' = ideal /\ notes' = notes /\ misfired' = misfired
  BY DEF vars, run, history
<1>2. RightSoFar => RightSoFar'
  BY <1>1 DEF RightSoFar, Begun, Untouched, GrownRight, Alike, Copies
<1>3. Right => Right'
  BY <1>1, RightStays
<1> QED
  BY <1>1, <1>2, <1>3 DEF BlameInv

LEMMA BlameKeeps ==
    ASSUME TypeInv, PlainInv, kind = "plain", BlameInv, [Next]_vars
    PROVE  BlameInv'
BY BlameQuiet, BlameRead, BlameTamper, BlameAfter, BlameLanded, BlameStays DEF Next, Step

Blames == kind = "plain" => BlameInv
LEMMA Blamed == Spec => []Blames
<1>1. Init => Blames
  BY BlameInit DEF Blames
<1>2. IInv /\ Blames /\ [Next]_vars => Blames'
  BY KindStays, BlameKeeps DEF Blames, IInv, Stores
<1> QED
  BY <1>1, <1>2, Inductive, PTL DEF Spec

(* The landed check blames the adapter only when the adapter is to blame: an  *)
(* ERROR of a plain store, of however many seeded records, means that some    *)
(* call of the run was lost or landed where or how it should not              *)
(* (attacks/base.py:116-122, guard.py:5-15).                            *)
THEOREM ErrorsAreMisfires == Spec => [](kind = "plain" => ErrorMeansMisfire)
<1>1. Blames => (kind = "plain" => ErrorMeansMisfire)
  BY DEF Blames, BlameInv, ErrorMeansMisfire, Concluded
<1> QED
  BY <1>1, Blamed, PTL

=============================================================================
