---------------------------- MODULE PipelineProofs ----------------------------
(***************************************************************************)
(* Theorems about Pipeline, for every set of tools and every bound: what is    *)
(* published was measured with the versions it says, a merge replaces in place,  *)
(* files that agree agree cell by cell, a job that passes accepted nothing.     *)
(***************************************************************************)
EXTENDS Pipeline, SequenceTheorems, FiniteSetTheorems, WellFoundedInduction, TLAPS

RowsOf(v) == {Row(label, results, v) : label \in Labels, results \in [Families -> Results]}
Distinct(rows) == \A i, j \in DOMAIN rows : rows[i].label = rows[j].label => i = j
Files == UNION {[versions : {v}, rows : Seq(RowsOf(v))] : v \in Nat}

(* The rows of a file all carry its header's versions; the file of a run that   *)
(* nothing is merged into has one row of each label; a comparison shown is one   *)
(* of the files as they are; an exit code is that of the results it follows.     *)
Compared == compared.versions # <<0, 0>> =>
    compared.diffs = Diffs(file["main"].rows, file["other"].rows)
Checked == checked.label # "none" =>
    /\ checked.results \in [1..Edits -> Results] /\ checked.fail_on \in {"accepted", "none"}
    /\ checked.exit = ExitCode([i \in 1..Edits |-> CheckVerdict(checked.results[i], Tools[checked.label].point)],
                               checked.fail_on)
IInv ==
    /\ version \in [Environments -> Nat]
    /\ file \in [Environments -> Files]
    /\ Distinct(file["other"].rows)
    /\ Compared /\ Checked

-----------------------------------------------------------------------------
(* Rows. *)

LEMMA RowFields ==
    ASSUME NEW v, NEW row \in RowsOf(v)
    PROVE  /\ row.label \in Labels /\ row.of.version = v /\ row.of.results \in [Families -> Results]
           /\ \A family \in Families :
                 row.cells[family] = Cell(row.of.results[family], family, Tools[row.label].point)
BY DEF RowsOf, Row

LEMMA StatusIs ==
    /\ Status("guard") = "ERROR" /\ Status("error") = "n/a"
    /\ Status("detected") = "safe" /\ Status("undetected") = "VULNERABLE"
BY DEF Status

LEMMA CheckSays ==
    ASSUME NEW point
    PROVE  /\ CheckVerdict("guard", point) = "ERROR"
           /\ CheckVerdict("error", point) = "NOT EVALUABLE"
           /\ CheckVerdict("undetected", point) = "ACCEPTED"
           /\ CheckVerdict("detected", point) = IF point = "audit" THEN "REPORTED" ELSE "REJECTED"
BY DEF CheckVerdict

LEMMA CellSays ==
    ASSUME NEW point, NEW result
    PROVE  Cell(result, "at rest", point).verdict = Verdict(RowStatus(result, "at rest", point), "at rest", point)
BY DEF Cell

LEMMA VerdictSays ==
    ASSUME NEW point
    PROVE  /\ Verdict("n/a", "at rest", point) = "n/a"
           /\ Verdict("ERROR", "at rest", point) = "error"
           /\ Verdict("reported", "at rest", point) = "reported"
           /\ Verdict("safe", "at rest", point) = IF point = "audit" THEN "reported" ELSE "rejected"
           /\ Verdict("VULNERABLE", "at rest", point) = "accepted"
BY DEF Verdict

LEMMA WordsAgree ==
    ASSUME NEW point, NEW result \in Results
    PROVE  <<Cell(result, "at rest", point).verdict, CheckVerdict(result, point)>> \in
               {<<"n/a", "NOT EVALUABLE">>, <<"error", "ERROR">>, <<"accepted", "ACCEPTED">>,
                <<"reported", "REPORTED">>, <<"rejected", "REJECTED">>}
<1>1. CASE result = "guard"
  <2>1. RowStatus(result, "at rest", point) = "ERROR"
    BY <1>1, StatusIs DEF RowStatus
  <2> QED
    BY <1>1, <2>1, CellSays, VerdictSays, CheckSays
<1>2. CASE result = "error"
  <2>1. RowStatus(result, "at rest", point) = "n/a"
    BY <1>2, StatusIs DEF RowStatus
  <2> QED
    BY <1>2, <2>1, CellSays, VerdictSays, CheckSays
<1>3. CASE result = "undetected"
  <2>1. RowStatus(result, "at rest", point) = "VULNERABLE"
    BY <1>3, StatusIs DEF RowStatus
  <2> QED
    BY <1>3, <2>1, CellSays, VerdictSays, CheckSays
<1>4. CASE result = "detected"
  <2>1. RowStatus(result, "at rest", point) = IF point = "audit" THEN "reported" ELSE "safe"
    BY <1>4, StatusIs DEF RowStatus
  <2> QED
    BY <1>4, <2>1, CellSays, VerdictSays, CheckSays
<1> QED
  BY <1>1, <1>2, <1>3, <1>4 DEF Results

(* A cell says n/a exactly when it was not measured, whatever the tool.          *)
LEMMA UnmeasuredSaysSo ==
    ASSUME NEW result, NEW family, NEW point
    PROVE  LET cell == Cell(result, family, point) IN
           /\ cell.verdict = Verdict(cell.status, family, point)
           /\ cell.status = "n/a" => cell.verdict = "n/a"
<1>1. Verdict("n/a", family, point) = "n/a"
  BY DEF Verdict
<1> QED
  BY <1>1 DEF Cell

-----------------------------------------------------------------------------
(* The last row of a label. *)

(* Every non-empty set of naturals has a least element. *)
LEMMA Least ==
    ASSUME NEW S, S \subseteq Nat, S # {}
    PROVE  \E m \in S : \A k \in S : m <= k
<1>1. PICK m \in S : \A k \in S : ~(<<k, m>> \in OpToRel(<, Nat))
  BY NatLessThanWellFounded, WFMin
<1>2. \A k \in S : ~(k < m)
  BY <1>1 DEF OpToRel
<1> QED
  BY <1>2

LEMMA Greatest ==
    ASSUME NEW n \in Nat, NEW S, S \subseteq 1..n, S # {}
    PROVE  \E m \in S : \A k \in (m + 1)..n : k \notin S
<1> DEFINE left == {n - i : i \in S}
<1>1. left \subseteq Nat /\ left # {}
  <2>1. \A i \in 1..n : n - i \in Nat
    OBVIOUS
  <2> QED
    BY <2>1
<1>2. PICK l \in left : \A k \in left : l <= k
  <2> HIDE DEF left
  <2> QED
    BY <1>1, Least
<1>3. PICK m \in S : l = n - m
  OBVIOUS
<1>4. \A i \in S : n - m <= n - i
  BY <1>2, <1>3
<1>5. ASSUME NEW k \in (m + 1)..n, k \in S PROVE FALSE
  BY <1>4, <1>5
<1> QED
  BY <1>5

LEMMA LastIs ==
    ASSUME NEW R, NEW rows \in Seq(R), NEW label \in LabelsOf(rows)
    PROVE  /\ LastOf(rows, label) \in DOMAIN rows /\ rows[LastOf(rows, label)].label = label
           /\ RowOf(rows, label) \in ToSet(rows) /\ RowOf(rows, label).label = label
<1> DEFINE n == Len(rows)
           S == {i \in 1..n : rows[i].label = label}
<1>1. n \in Nat /\ DOMAIN rows = 1..n
  BY LenProperties
<1>2. S # {}
  BY <1>1 DEF LabelsOf
<1>3. PICK m \in S : \A k \in (m + 1)..n : k \notin S
  <2>1. S \subseteq 1..n
    OBVIOUS
  <2> HIDE DEF n, S
  <2> QED
    BY <1>1, <1>2, <2>1, Greatest
<1>4. \A j \in (m + 1)..n : rows[j].label # label
  <2> SUFFICES ASSUME NEW j \in (m + 1)..n PROVE rows[j].label # label
    OBVIOUS
  <2>1. j \in 1..n
    <3>1. m \in 1..n
      BY <1>3
    <3> HIDE DEF n, S
    <3> QED
      BY <1>1, <3>1
  <2> QED
    BY <1>3, <2>1
<1>5. \E i \in DOMAIN rows : rows[i].label = label /\ \A j \in (i + 1)..Len(rows) : rows[j].label # label
  BY <1>1, <1>3, <1>4
<1>6. LastOf(rows, label) \in DOMAIN rows /\ rows[LastOf(rows, label)].label = label
  BY <1>5 DEF LastOf
<1> QED
  BY <1>6 DEF RowOf, ToSet

-----------------------------------------------------------------------------
(* A merge, label by label. *)

LEMMA MergedOne ==
    ASSUME NEW base, NEW extra, NEW labels, Len(labels) = 1
    PROVE  Merged(base, extra, labels) = Put(base, base, RowOf(extra, labels[1]))
<1> DEFINE row(n) == RowOf(extra, labels[n])
           first == Put(base, base, row(1))
           fun(f) == [n \in 0..Len(labels) |-> IF n = 0 THEN base ELSE Put(base, f[n - 1], row(n))]
           after == CHOOSE f : f = fun(f)
           g == [n \in 0..Len(labels) |-> IF n = 0 THEN base ELSE first]
<1>1. Merged(base, extra, labels) = after[Len(labels)]
  BY DEF Merged
<1>2. g = fun(g)
  <2>1. \A n \in 0..Len(labels) : n = 0 \/ (n = 1 /\ n - 1 = 0)
    OBVIOUS
  <2>2. 0 \in 0..Len(labels)
    OBVIOUS
  <2>3. g[0] = base
    BY <2>2
  <2> QED
    BY <2>1, <2>3
<1>3. after = fun(after)
  <2> HIDE DEF g
  <2> QED
    BY <1>2
<1> HIDE DEF after
<1>4. after[0] = base
  <2>1. 0 \in 0..Len(labels)
    OBVIOUS
  <2> QED
    BY <1>3, <2>1
<1>5. after[1] = Put(base, after[0], row(1))
  <2>1. 1 \in 0..Len(labels) /\ 1 # 0 /\ 1 - 1 = 0
    OBVIOUS
  <2> QED
    BY <1>3, <2>1
<1> QED
  BY <1>1, <1>4, <1>5

LEMMA MergedTwo ==
    ASSUME NEW base, NEW extra, NEW labels, Len(labels) = 2
    PROVE  Merged(base, extra, labels) =
               Put(base, Put(base, base, RowOf(extra, labels[1])), RowOf(extra, labels[2]))
<1> DEFINE row(n) == RowOf(extra, labels[n])
           first == Put(base, base, row(1))
           second == Put(base, first, row(2))
           fun(f) == [n \in 0..Len(labels) |-> IF n = 0 THEN base ELSE Put(base, f[n - 1], row(n))]
           after == CHOOSE f : f = fun(f)
           g == [n \in 0..Len(labels) |-> IF n = 0 THEN base ELSE IF n = 1 THEN first ELSE second]
<1>1. Merged(base, extra, labels) = after[Len(labels)]
  BY DEF Merged
<1>2. g = fun(g)
  <2>1. \A n \in 0..Len(labels) : n = 0 \/ (n = 1 /\ n - 1 = 0) \/ (n = 2 /\ n - 1 = 1)
    OBVIOUS
  <2>2. 0 \in 0..Len(labels) /\ 1 \in 0..Len(labels)
    OBVIOUS
  <2>3. g[0] = base /\ g[1] = first
    BY <2>2
  <2> QED
    BY <2>1, <2>3
<1>3. after = fun(after)
  <2> HIDE DEF g
  <2> QED
    BY <1>2
<1> HIDE DEF after
<1>4. 0 \in 0..Len(labels) /\ 1 \in 0..Len(labels) /\ 2 \in 0..Len(labels)
  OBVIOUS
<1>5. after[0] = base
  BY <1>3, <1>4
<1>6. after[1] = Put(base, after[0], row(1))
  <2>1. 1 # 0 /\ 1 - 1 = 0
    OBVIOUS
  <2> QED
    BY <1>3, <1>4, <2>1
<1>7. after[2] = Put(base, after[1], row(2))
  <2>1. 2 # 0 /\ 2 - 1 = 1
    OBVIOUS
  <2> QED
    BY <1>3, <1>4, <2>1
<1> QED
  BY <1>1, <1>5, <1>6, <1>7

(* What a merge of some labels makes of the base: of rows taken from another run. *)
Standing(base, from, rows, done) ==
    \A i \in 1..Len(base) :
        IF base[i].label \in done /\ i = LastOf(base, base[i].label)
        THEN rows[i].label = base[i].label /\ rows[i] \in from
        ELSE rows[i] = base[i]
Added(base, from, rows, done) ==
    \A i \in (Len(base) + 1)..Len(rows) :
        rows[i].label \in done \ LabelsOf(base) /\ rows[i] \in from
Replaces(base, from, rows, done, R) ==
    /\ rows \in Seq(R) /\ Len(rows) >= Len(base)
    /\ Standing(base, from, rows, done) /\ Added(base, from, rows, done)

LEMMA NothingReplaced ==
    ASSUME NEW R, NEW base \in Seq(R), NEW from
    PROVE  Replaces(base, from, base, {}, R)
BY LenProperties DEF Replaces, Standing, Added

LEMMA PutReplaces ==
    ASSUME NEW R, NEW base \in Seq(R), NEW from, from \subseteq R, NEW rows, NEW done,
           Replaces(base, from, rows, done, R), NEW row \in from
    PROVE  Replaces(base, from, Put(base, rows, row), done \cup {row.label}, R)
<1> DEFINE label == row.label
           n == Len(base)
           m == Len(rows)
           at == LastOf(base, label)
           new == Put(base, rows, row)
<1>1. /\ rows \in Seq(R) /\ n \in Nat /\ m \in Nat /\ m >= n /\ row \in R
      /\ DOMAIN base = 1..n
  BY LenProperties DEF Replaces
<1>2. /\ \A i \in 1..n : IF base[i].label \in done /\ i = LastOf(base, base[i].label)
                         THEN rows[i].label = base[i].label /\ rows[i] \in from
                         ELSE rows[i] = base[i]
      /\ \A i \in (n + 1)..m : rows[i].label \in done \ LabelsOf(base) /\ rows[i] \in from
  BY DEF Replaces, Standing, Added
<1> DEFINE more == done \cup {label}
<1>3. CASE label \in LabelsOf(base)
  <2>1. at \in 1..n /\ base[at].label = label
    BY <1>1, <1>3, LastIs
  <2>2. at \in 1..m
    <3> HIDE DEF at, n, m
    <3> QED
      BY <1>1, <2>1
  <2>3. /\ new \in Seq(R) /\ Len(new) = m
        /\ \A i \in 1..m : new[i] = IF i = at THEN row ELSE rows[i]
    BY <1>1, <1>3, <2>2, ExceptSeq DEF Put
  <2>4. ASSUME NEW i \in 1..n
        PROVE  IF base[i].label \in more /\ i = LastOf(base, base[i].label)
               THEN new[i].label = base[i].label /\ new[i] \in from
               ELSE new[i] = base[i]
    <3>1. i \in 1..m
      <4> HIDE DEF n, m
      <4> QED
        BY <1>1
    <3>2. CASE i = at
      BY <2>1, <2>3, <3>1, <3>2
    <3>3. CASE i # at
      <4>1. new[i] = rows[i]
        BY <2>3, <3>1, <3>3
      <4>2. base[i].label = label => i # LastOf(base, base[i].label)
        BY <3>3
      <4> QED
        BY <1>2, <4>1, <4>2
    <3> QED
      BY <3>2, <3>3
  <2>5. ASSUME NEW i \in (n + 1)..m
        PROVE  new[i].label \in more \ LabelsOf(base) /\ new[i] \in from
    <3>1. i \in 1..m /\ i # at
      <4> HIDE DEF n, m, at
      <4> QED
        BY <1>1, <2>1
    <3> QED
      BY <1>2, <2>3, <3>1
  <2> HIDE DEF at, new, more
  <2>6. Standing(base, from, new, more)
    BY <2>4 DEF Standing
  <2>7. Added(base, from, new, more)
    BY <2>3, <2>5 DEF Added
  <2>8. Replaces(base, from, new, more, R)
    BY <1>1, <2>3, <2>6, <2>7 DEF Replaces
  <2> QED
    BY <2>8 DEF new, more
<1>4. CASE label \notin LabelsOf(base)
  <2>1. /\ new \in Seq(R) /\ Len(new) = m + 1
        /\ (\A i \in 1..m : new[i] = rows[i]) /\ new[m + 1] = row
    BY <1>1, <1>4, AppendProperties DEF Put
  <2>2. \A i \in 1..n : base[i].label # label
    BY <1>1, <1>4 DEF LabelsOf
  <2>3. ASSUME NEW i \in 1..n
        PROVE  IF base[i].label \in more /\ i = LastOf(base, base[i].label)
               THEN new[i].label = base[i].label /\ new[i] \in from
               ELSE new[i] = base[i]
    <3>1. i \in 1..m
      <4> HIDE DEF n, m
      <4> QED
        BY <1>1
    <3> QED
      BY <1>2, <2>1, <2>2, <3>1
  <2>4. ASSUME NEW i \in (n + 1)..(m + 1)
        PROVE  new[i].label \in more \ LabelsOf(base) /\ new[i] \in from
    <3>1. (i \in 1..m /\ i \in (n + 1)..m) \/ i = m + 1
      <4> HIDE DEF n, m
      <4> QED
        BY <1>1
    <3> QED
      BY <1>2, <1>4, <2>1, <3>1
  <2>5. m + 1 >= n
    <3> HIDE DEF n, m
    <3> QED
      BY <1>1
  <2> HIDE DEF new, more
  <2>6. Standing(base, from, new, more)
    BY <2>3 DEF Standing
  <2>7. Added(base, from, new, more)
    BY <2>1, <2>4 DEF Added
  <2>8. Replaces(base, from, new, more, R)
    BY <1>1, <2>1, <2>5, <2>6, <2>7 DEF Replaces
  <2> QED
    BY <2>8 DEF new, more
<1> QED
  BY <1>3, <1>4

LEMMA MergedReplaces ==
    ASSUME NEW R, NEW base \in Seq(R), NEW extra \in Seq(R), NEW labels \in Named,
           ToSet(labels) \subseteq LabelsOf(extra)
    PROVE  Replaces(base, ToSet(extra), Merged(base, extra, labels), ToSet(labels), R)
<1> DEFINE from == ToSet(extra)
<1>1. from \subseteq R
  <2>1. \A i \in DOMAIN extra : extra[i] \in R
    BY ElementOfSeq, LenProperties
  <2> QED
    BY <2>1 DEF ToSet
<1>2. \A l \in LabelsOf(extra) : RowOf(extra, l) \in from /\ RowOf(extra, l).label = l
  BY LastIs
<1>3. PICK k \in 1..2 : labels \in [1..k -> Labels]
  BY DEF Named
<1>4. DOMAIN labels = 1..k /\ Len(labels) = k
  BY <1>3
<1>5. CASE k = 1
  <2>1. ToSet(labels) = {labels[1]}
    BY <1>4, <1>5 DEF ToSet
  <2>2. Merged(base, extra, labels) = Put(base, base, RowOf(extra, labels[1]))
    BY <1>4, <1>5, MergedOne
  <2>3. Replaces(base, from, Put(base, base, RowOf(extra, labels[1])), {} \cup {labels[1]}, R)
    <3>1. RowOf(extra, labels[1]) \in from /\ RowOf(extra, labels[1]).label = labels[1]
      BY <1>2, <2>1
    <3> HIDE DEF from
    <3> QED
      BY <1>1, <3>1, NothingReplaced, PutReplaces
  <2> QED
    BY <2>1, <2>2, <2>3
<1>6. CASE k = 2
  <2> DEFINE first == Put(base, base, RowOf(extra, labels[1]))
  <2>1. ToSet(labels) = {labels[1], labels[2]}
    <3>1. 1..2 = {1, 2}
      OBVIOUS
    <3> QED
      BY <1>4, <1>6, <3>1 DEF ToSet
  <2>2. Merged(base, extra, labels) = Put(base, first, RowOf(extra, labels[2]))
    BY <1>4, <1>6, MergedTwo
  <2>3. /\ RowOf(extra, labels[1]) \in from /\ RowOf(extra, labels[1]).label = labels[1]
        /\ RowOf(extra, labels[2]) \in from /\ RowOf(extra, labels[2]).label = labels[2]
    BY <1>2, <2>1
  <2>4. Replaces(base, from, first, {} \cup {labels[1]}, R)
    <3> HIDE DEF from
    <3> QED
      BY <1>1, <2>3, NothingReplaced, PutReplaces
  <2>5. Replaces(base, from, Put(base, first, RowOf(extra, labels[2])),
                 ({} \cup {labels[1]}) \cup {labels[2]}, R)
    <3> HIDE DEF from, first
    <3> QED
      BY <1>1, <2>3, <2>4, PutReplaces
  <2>6. ({} \cup {labels[1]}) \cup {labels[2]} = ToSet(labels)
    BY <2>1
  <2> QED
    BY <2>2, <2>5, <2>6
<1>7. k = 1 \/ k = 2
  OBVIOUS
<1> QED
  BY <1>5, <1>6, <1>7

-----------------------------------------------------------------------------
(* The rows of a measurement. *)

LEMMA LabelsFinite == IsFiniteSet(Labels)
<1>1. DOMAIN Tools = {"log", "store", "memory"}
  BY DEF Tools
<1>2. IsFiniteSet({"log", "store", "memory"})
  <2>1. IsFiniteSet({"log"})
    BY FS_Singleton
  <2>2. IsFiniteSet({"log"} \cup {"store"})
    BY <2>1, FS_AddElement
  <2>3. IsFiniteSet(({"log"} \cup {"store"}) \cup {"memory"})
    BY <2>2, FS_AddElement
  <2>4. ({"log"} \cup {"store"}) \cup {"memory"} = {"log", "store", "memory"}
    OBVIOUS
  <2> QED
    BY <2>3, <2>4
<1> QED
  BY <1>1, <1>2, LabelsAssumption, FS_Subset

LEMMA OrderIs ==
    ASSUME NEW S, IsFiniteSet(S)
    PROVE  /\ Cardinality(S) \in Nat
           /\ SetToSeq(S) \in [1..Cardinality(S) -> S]
           /\ \A i, j \in 1..Cardinality(S) : SetToSeq(S)[i] = SetToSeq(S)[j] => i = j
<1> DEFINE n == Cardinality(S)
<1>1. n \in Nat /\ ExistsBijection(1..n, S)
  BY FS_CardinalityType
<1>2. PICK f \in [1..n -> S] : IsInjective(f)
  BY <1>1 DEF ExistsBijection, Bijection, Injection
<1>3. SetToSeq(S) \in [1..n -> S] /\ IsInjective(SetToSeq(S))
  BY <1>2 DEF SetToSeq
<1> QED
  BY <1>1, <1>3 DEF IsInjective

LEMMA MeasuredRows ==
    ASSUME NEW installed \in SUBSET Labels, NEW one \in Measurements, NEW v
    PROVE  /\ RowsMeasured(installed, one, v) \in Seq(RowsOf(v))
           /\ Distinct(RowsMeasured(installed, one, v))
<1> DEFINE n == Cardinality(installed)
           order == SetToSeq(installed)
           rows == RowsMeasured(installed, one, v)
<1>1. IsFiniteSet(installed)
  BY LabelsFinite, FS_Subset
<1>2. n \in Nat /\ order \in [1..n -> installed] /\ \A i, j \in 1..n : order[i] = order[j] => i = j
  BY <1>1, OrderIs
<1>3. \A label \in Labels : one[label] \in [Families -> Results]
  BY DEF Measurements, Measurable
<1>4. rows = [i \in 1..n |-> Row(order[i], one[order[i]], v)]
  <2>1. DOMAIN order = 1..n
    BY <1>2
  <2> QED
    BY <2>1 DEF RowsMeasured
<1> HIDE DEF rows, order, n
<1>5. \A i \in 1..n : rows[i] = Row(order[i], one[order[i]], v) /\ rows[i].label = order[i]
  BY <1>4 DEF Row
<1>6. \A i \in 1..n : rows[i] \in RowsOf(v)
  BY <1>2, <1>3, <1>5 DEF RowsOf
<1>7. rows \in Seq(RowsOf(v))
  <2>1. rows \in [1..n -> RowsOf(v)]
    BY <1>4, <1>6
  <2> QED
    BY <1>2, <2>1, SeqDef
<1>8. Distinct(rows)
  BY <1>2, <1>4, <1>5 DEF Distinct
<1> QED
  BY <1>7, <1>8 DEF rows

-----------------------------------------------------------------------------
(* The invariant. *)

LEMMA FileIs ==
    ASSUME NEW f \in Files
    PROVE  /\ f = [versions |-> f.versions, rows |-> f.rows]
           /\ f.versions \in Nat /\ f.rows \in Seq(RowsOf(f.versions))
BY DEF Files

LEMMA FilesAre ==
    ASSUME NEW v \in Nat, NEW rows \in Seq(RowsOf(v))
    PROVE  [versions |-> v, rows |-> rows] \in Files
BY DEF Files

LEMMA WithRows ==
    ASSUME NEW f, NEW v, NEW old, NEW new, f = [versions |-> v, rows |-> old]
    PROVE  [f EXCEPT !.rows = new] = [versions |-> v, rows |-> new]
OBVIOUS

LEMMA NoFileIs == NoFile \in Files /\ Distinct(NoFile.rows)
<1>1. <<>> \in Seq(RowsOf(0))
  BY EmptySeq
<1>2. DOMAIN <<>> = {}
  OBVIOUS
<1> QED
  BY <1>1, <1>2, FilesAre DEF NoFile, Distinct

LEMMA NotComparedSays == ASSUME compared' = NotCompared PROVE Compared'
BY DEF Compared, NotCompared

LEMMA NoCheckSays == ASSUME checked' = NoCheck PROVE Checked'
BY DEF Checked, NoCheck

LEMMA InitInv == Init => IInv
<1> SUFFICES ASSUME Init PROVE IInv
  OBVIOUS
<1>1. version \in [Environments -> Nat] /\ file \in [Environments -> Files]
  BY NoFileIs DEF Init
<1>2. Distinct(file["other"].rows)
  BY NoFileIs DEF Init, Environments
<1>3. Compared /\ Checked
  BY DEF Init, Compared, NotCompared, Checked, NoCheck
<1> QED
  BY <1>1, <1>2, <1>3 DEF IInv

(* What a merge makes of the main file; the other stays. *)
LEMMA MergeSays ==
    ASSUME IInv, NEW labels \in Named, Merge(labels)
    PROVE  /\ file'["main"].versions = file["main"].versions
           /\ file' \in [Environments -> Files] /\ file'["other"] = file["other"]
           /\ Replaces(file["main"].rows, ToSet(file["other"].rows), file'["main"].rows,
                       ToSet(labels), RowsOf(file["main"].versions))
<1> DEFINE main == file["main"]
           other == file["other"]
           rows == Merged(main.rows, other.rows, labels)
<1>1. file \in [Environments -> Files] /\ "main" \in Environments /\ "other" \in Environments
  BY DEF IInv, Environments
<1>2. /\ main \in Files /\ main = [versions |-> main.versions, rows |-> main.rows]
      /\ main.versions \in Nat /\ main.rows \in Seq(RowsOf(main.versions))
      /\ other.rows \in Seq(RowsOf(other.versions))
  BY <1>1, FileIs
<1>3. main.versions = other.versions /\ ToSet(labels) \subseteq LabelsOf(other.rows)
  BY DEF Merge, CanMerge
<1>4. Replaces(main.rows, ToSet(other.rows), rows, ToSet(labels), RowsOf(main.versions))
  <2> HIDE DEF main, other
  <2> QED
    BY <1>2, <1>3, MergedReplaces
<1>5. rows \in Seq(RowsOf(main.versions))
  BY <1>4 DEF Replaces
<1>6. file' = [file EXCEPT !["main"] = [versions |-> main.versions, rows |-> rows]]
  <2>1. file' = [file EXCEPT !["main"] = [main EXCEPT !.rows = rows]]
    BY DEF Merge
  <2> HIDE DEF main, rows
  <2>2. [main EXCEPT !.rows = rows] = [versions |-> main.versions, rows |-> rows]
    BY <1>2, WithRows
  <2> QED
    BY <2>1, <2>2
<1>7. [versions |-> main.versions, rows |-> rows] \in Files
  <2> HIDE DEF main, rows
  <2> QED
    BY <1>2, <1>5, FilesAre
<1>8. file'["main"] = [versions |-> main.versions, rows |-> rows] /\ file'["other"] = other
  <2> HIDE DEF main, rows
  <2> QED
    BY <1>1, <1>6 DEF other
<1>9. file' \in [Environments -> Files]
  <2> HIDE DEF main, rows, other
  <2> QED
    BY <1>1, <1>6, <1>7
<1> HIDE DEF rows
<1> QED
  BY <1>4, <1>8, <1>9

LEMMA NextInv == IInv /\ [Next]_vars => IInv'
<1> SUFFICES ASSUME IInv, [Next]_vars PROVE IInv'
  OBVIOUS
<1>1. ASSUME NEW env \in Environments, Update(env) PROVE IInv'
  <2>1. version' \in [Environments -> Nat]
    BY <1>1 DEF IInv, Update
  <2>2. Compared' /\ Checked'
    BY <1>1, NotComparedSays, NoCheckSays DEF Update
  <2> QED
    BY <1>1, <2>1, <2>2 DEF IInv, Update
<1>2. ASSUME NEW env \in Environments, Measure(env) PROVE IInv'
  <2>1. PICK installed \in SUBSET Labels, one \in Measurements :
          file' = [file EXCEPT ![env] = [versions |-> version[env],
                                         rows |-> RowsMeasured(installed, one, version[env])]]
    BY <1>2 DEF Measure
  <2> DEFINE v == version[env]
             rows == RowsMeasured(installed, one, v)
             new == [versions |-> v, rows |-> rows]
  <2>2. v \in Nat
    BY DEF IInv
  <2>3. rows \in Seq(RowsOf(v)) /\ Distinct(rows)
    BY MeasuredRows
  <2>4. new \in Files
    <3> HIDE DEF v, rows
    <3> QED
      BY <2>2, <2>3, FilesAre
  <2>5. file' = [file EXCEPT ![env] = new]
    BY <2>1
  <2>6. new.rows = rows
    OBVIOUS
  <2> HIDE DEF rows, new
  <2>7. file' \in [Environments -> Files]
    BY <2>4, <2>5 DEF IInv
  <2>8. Distinct(file'["other"].rows)
    <3>1. CASE env = "other"
      <4>1. file'["other"] = new
        BY <2>5, <3>1 DEF IInv
      <4> QED
        BY <2>3, <2>6, <4>1
    <3>2. CASE env # "other"
      <4>1. file'["other"] = file["other"]
        BY <2>5, <3>2 DEF IInv, Environments
      <4> QED
        BY <4>1 DEF IInv
    <3> QED
      BY <3>1, <3>2
  <2>9. Compared' /\ Checked'
    BY <1>2, NotComparedSays, NoCheckSays DEF Measure
  <2> QED
    BY <1>2, <2>7, <2>8, <2>9 DEF IInv, Measure
<1>3. ASSUME NEW labels \in Named, Merge(labels) PROVE IInv'
  <2>1. file' \in [Environments -> Files] /\ file'["other"] = file["other"]
    BY <1>3, MergeSays
  <2>2. Compared' /\ Checked'
    BY <1>3, NotComparedSays, NoCheckSays DEF Merge
  <2> QED
    BY <1>3, <2>1, <2>2 DEF IInv, Merge
<1>4. CASE Compare
  <2>1. compared'.diffs = Diffs(file["main"].rows, file["other"].rows)
    BY <1>4 DEF Compare
  <2>2. Compared'
    BY <1>4, <2>1 DEF Compared, Compare
  <2>3. Checked'
    BY <1>4, NoCheckSays DEF Compare
  <2> QED
    BY <1>4, <2>2, <2>3 DEF IInv, Compare
<1>5. CASE Check
  <2>1. PICK label \in Labels, results \in [1..Edits -> Results], fail_on \in {"accepted", "none"} :
          checked' = [label |-> label, results |-> results, fail_on |-> fail_on,
                      exit |-> ExitCode([i \in 1..Edits |-> CheckVerdict(results[i], Tools[label].point)],
                                        fail_on)]
    BY <1>5 DEF Check
  <2>2. Checked'
    BY <2>1 DEF Checked
  <2>3. Compared'
    BY <1>5, NotComparedSays DEF Check
  <2> QED
    BY <1>5, <2>2, <2>3 DEF IInv, Check
<1>6. CASE UNCHANGED vars
  BY <1>6 DEF IInv, Compared, Checked, vars
<1> QED
  BY <1>1, <1>2, <1>3, <1>4, <1>5, <1>6 DEF Next

LEMMA Invariant == Spec => []IInv
BY InitInv, NextInv, PTL DEF Spec

-----------------------------------------------------------------------------
(* What follows from it. *)

LEMMA InvPublished == IInv => PublishedWasMeasured
<1> SUFFICES ASSUME IInv, NEW env \in Environments, NEW i \in DOMAIN file[env].rows
             PROVE  LET row == file[env].rows[i] IN
                    /\ row.of.version = file[env].versions
                    /\ LET word == CheckVerdict(row.of.results["at rest"], Tools[row.label].point)
                       IN  <<row.cells["at rest"].verdict, word>> \in
                               {<<"n/a", "NOT EVALUABLE">>, <<"error", "ERROR">>, <<"accepted", "ACCEPTED">>,
                                <<"reported", "REPORTED">>, <<"rejected", "REJECTED">>}
  BY DEF PublishedWasMeasured
<1> DEFINE rows == file[env].rows
           v == file[env].versions
           row == rows[i]
<1>1. rows \in Seq(RowsOf(v))
  BY FileIs DEF IInv
<1>2. row \in RowsOf(v)
  <2> HIDE DEF v
  <2>1. i \in 1..Len(rows)
    BY <1>1, LenProperties
  <2> HIDE DEF rows
  <2> QED
    BY <1>1, <2>1, ElementOfSeq
<1> HIDE DEF row
<1>3. /\ row.of.version = v /\ row.of.results["at rest"] \in Results
      /\ row.cells["at rest"] = Cell(row.of.results["at rest"], "at rest", Tools[row.label].point)
  BY <1>2, RowFields DEF Families
<1>4. <<Cell(row.of.results["at rest"], "at rest", Tools[row.label].point).verdict,
        CheckVerdict(row.of.results["at rest"], Tools[row.label].point)>> \in
          {<<"n/a", "NOT EVALUABLE">>, <<"error", "ERROR">>, <<"accepted", "ACCEPTED">>,
           <<"reported", "REPORTED">>, <<"rejected", "REJECTED">>}
  BY <1>3, WordsAgree
<1> QED
  BY <1>3, <1>4 DEF row

LEMMA InvAgreed == IInv => AgreedCellsAgree
<1> DEFINE main == file["main"].rows
           other == file["other"].rows
<1> SUFFICES ASSUME IInv, compared.versions # <<0, 0>>, compared.diffs = {},
                    NEW a \in ToSet(main), NEW b \in ToSet(other), NEW family \in Families,
                    a.label = b.label, "n/a" \notin {a.cells[family].verdict, b.cells[family].verdict}
             PROVE  a.cells[family].verdict = b.cells[family].verdict
  BY DEF AgreedCellsAgree
<1>1. Diffs(main, other) = {}
  BY DEF IInv, Compared
<1>2. PICK i \in DOMAIN main, j \in DOMAIN other : a = main[i] /\ b = other[j]
  BY DEF ToSet
<1>3. Distinct(other)
  BY DEF IInv
<1>4. main \in Seq(RowsOf(file["main"].versions)) /\ other \in Seq(RowsOf(file["other"].versions))
  BY FileIs DEF IInv, Environments
<1> HIDE DEF main, other
<1>5. a \in RowsOf(file["main"].versions) /\ b \in RowsOf(file["other"].versions)
  <2>1. i \in 1..Len(main) /\ j \in 1..Len(other)
    BY <1>4, LenProperties
  <2> QED
    BY <1>2, <1>4, <2>1, ElementOfSeq
<1>6. a.label \in LabelsOf(other)
  BY <1>2 DEF LabelsOf
<1>7. RowOf(other, a.label) = b
  <2>1. /\ LastOf(other, a.label) \in DOMAIN other
        /\ other[LastOf(other, a.label)].label = a.label
    BY <1>4, <1>6, LastIs
  <2>2. LastOf(other, a.label) = j
    BY <1>2, <1>3, <2>1 DEF Distinct
  <2> QED
    BY <1>2, <2>2 DEF RowOf
<1> DEFINE point == Tools[a.label].point
           mine == a.cells[family]
           theirs == b.cells[family]
<1>8. mine = Cell(a.of.results[family], family, point) /\ theirs = Cell(b.of.results[family], family, point)
  BY <1>5, RowFields
<1>9. /\ mine.verdict = Verdict(mine.status, family, point) /\ mine.status # "n/a"
      /\ theirs.verdict = Verdict(theirs.status, family, point) /\ theirs.status # "n/a"
  BY <1>8, UnmeasuredSaysSo
<1>10. mine.status = theirs.status
  <2> SUFFICES ASSUME mine.status # theirs.status PROVE FALSE
    OBVIOUS
  <2> DEFINE at == <<i, family>>
  <2>1. at \in (DOMAIN main) \X Families /\ at[1] = i /\ at[2] = family
    OBVIOUS
  <2>2. MeasuredCell(mine) /\ MeasuredCell(theirs)
    BY <1>9 DEF MeasuredCell
  <2> HIDE DEF at
  <2>3. at \in Diffs(main, other)
    BY <1>2, <1>6, <1>7, <2>1, <2>2 DEF Diffs
  <2> QED
    BY <1>1, <2>3
<1> QED
  BY <1>9, <1>10

LEMMA ExitsClean ==
    ASSUME NEW verdicts, NEW fail_on, ExitCode(verdicts, fail_on) = 0
    PROVE  /\ "ERROR" \notin ToSet(verdicts)
           /\ ToSet(verdicts) # {"NOT EVALUABLE"}
           /\ fail_on = "accepted" => "ACCEPTED" \notin ToSet(verdicts)
<1> DEFINE said == ToSet(verdicts)
           code == ExitCode(verdicts, fail_on)
<1>1. code = 0 /\ 3 # 0 /\ 2 # 0 /\ 1 # 0
  OBVIOUS
<1>2. ASSUME "ERROR" \in said PROVE FALSE
  <2>1. code = 3
    BY <1>2 DEF ExitCode
  <2> HIDE DEF code
  <2> QED
    BY <1>1, <2>1
<1>3. ASSUME said = {"NOT EVALUABLE"} PROVE FALSE
  <2>1. "ERROR" \notin said /\ "ACCEPTED" \notin said
    BY <1>3
  <2>2. code = 2
    BY <1>3, <2>1 DEF ExitCode
  <2> HIDE DEF code
  <2> QED
    BY <1>1, <2>2
<1>4. ASSUME "ACCEPTED" \in said, fail_on = "accepted" PROVE FALSE
  <2>1. said # {"NOT EVALUABLE"}
    BY <1>3
  <2>2. code = 1
    BY <1>2, <1>4, <2>1 DEF ExitCode
  <2> HIDE DEF code
  <2> QED
    BY <1>1, <2>2
<1> QED
  BY <1>2, <1>3, <1>4

LEMMA CleanResults ==
    ASSUME NEW n \in Nat \ {0}, NEW results \in [1..n -> Results], NEW point, NEW fail_on,
           ExitCode([i \in 1..n |-> CheckVerdict(results[i], point)], fail_on) = 0
    PROVE  /\ "guard" \notin ToSet(results)
           /\ ToSet(results) # {"error"}
           /\ fail_on = "accepted" => Findings(results) = {}
<1> DEFINE words == [i \in 1..n |-> CheckVerdict(results[i], point)]
           said == ToSet(words)
<1>1. /\ "ERROR" \notin said /\ said # {"NOT EVALUABLE"}
      /\ fail_on = "accepted" => "ACCEPTED" \notin said
  <2>1. ExitCode(words, fail_on) = 0
    OBVIOUS
  <2> HIDE DEF words
  <2> QED
    BY <2>1, ExitsClean
<1>2. \A i \in 1..n : words[i] = CheckVerdict(results[i], point)
  OBVIOUS
<1>3. said = {words[i] : i \in 1..n}
  BY DEF ToSet
<1>4. ToSet(results) = {results[i] : i \in 1..n}
  BY DEF ToSet
<1> HIDE DEF words, said
<1>5. \A i \in 1..n : /\ results[i] = "guard" => words[i] = "ERROR"
                      /\ results[i] = "error" => words[i] = "NOT EVALUABLE"
                      /\ results[i] = "undetected" => words[i] = "ACCEPTED"
  BY <1>2, CheckSays
<1>6. "guard" \notin ToSet(results)
  BY <1>1, <1>3, <1>4, <1>5
<1>7. ToSet(results) # {"error"}
  <2> SUFFICES ASSUME ToSet(results) = {"error"} PROVE FALSE
    OBVIOUS
  <2>1. \A i \in 1..n : words[i] = "NOT EVALUABLE"
    BY <1>4, <1>5
  <2>2. 1 \in 1..n
    OBVIOUS
  <2>3. said = {"NOT EVALUABLE"}
    BY <1>3, <2>1, <2>2
  <2> QED
    BY <1>1, <2>3
<1>8. fail_on = "accepted" => Findings(results) = {}
  BY <1>1, <1>3, <1>5 DEF Findings
<1> QED
  BY <1>6, <1>7, <1>8

LEMMA InvPassing == IInv => PassingJobAcceptsNothing
<1> SUFFICES ASSUME IInv, checked.label # "none", checked.exit = 0
             PROVE  /\ "guard" \notin ToSet(checked.results)
                    /\ ToSet(checked.results) # {"error"}
                    /\ checked.fail_on = "accepted" => Findings(checked.results) = {}
  BY DEF PassingJobAcceptsNothing
<1>1. /\ checked.results \in [1..Edits -> Results]
      /\ ExitCode([i \in 1..Edits |-> CheckVerdict(checked.results[i], Tools[checked.label].point)],
                  checked.fail_on) = 0
  BY DEF IInv, Checked
<1> QED
  BY <1>1, CleanResults, PipelineAssumption

(* What is published was measured with the versions the file says, and in every   *)
(* word as agmi-check says it (full_runner.py, merge_rows.py, check.py).       *)
THEOREM PublishedAsMeasured == Spec => []PublishedWasMeasured
BY Invariant, InvPublished, PTL

(* Two files a comparison finds no difference between say the same word in every  *)
(* cell both measured (render.py).                                          *)
THEOREM NoDifferenceMeansAgreement == Spec => []AgreedCellsAgree
BY Invariant, InvAgreed, PTL

(* agmi-check exits 0 only on results with an edit evaluated, none that failed to *)
(* land and, unless told otherwise, none accepted (check.py).                  *)
THEOREM PassingJobsAcceptNothing == Spec => []PassingJobAcceptsNothing
BY Invariant, InvPassing, PTL

(* A merge replaces the row every reader takes, where it stands, and adds rows    *)
(* only of labels the file did not have (merge_rows.py).                       *)
THEOREM MergesInPlace == Spec => MergeReplacesInPlace
<1> DEFINE InPlace(old, new, from, named) ==
               /\ Len(new) >= Len(old)
               /\ \A i \in DOMAIN old :
                     IF old[i].label \in named /\ i = LastOf(old, old[i].label)
                     THEN new[i].label = old[i].label /\ new[i] \in from
                     ELSE new[i] = old[i]
               /\ \A i \in (Len(old) + 1)..Len(new) :
                     new[i].label \in named \ LabelsOf(old) /\ new[i] \in from
           Effect == \A labels \in Named : Merge(labels) =>
                        InPlace(file["main"].rows, file'["main"].rows, ToSet(file["other"].rows), ToSet(labels))
<1>1. IInv => Effect
  <2> SUFFICES ASSUME IInv, NEW labels \in Named, Merge(labels)
               PROVE  InPlace(file["main"].rows, file'["main"].rows, ToSet(file["other"].rows), ToSet(labels))
    OBVIOUS
  <2>1. Replaces(file["main"].rows, ToSet(file["other"].rows), file'["main"].rows,
                 ToSet(labels), RowsOf(file["main"].versions))
    BY MergeSays
  <2>2. DOMAIN file["main"].rows = 1..Len(file["main"].rows)
    BY FileIs, LenProperties DEF IInv, Environments
  <2> QED
    BY <2>1, <2>2 DEF Replaces, Standing, Added
<1>2. IInv /\ [Next]_vars =>
        [\A labels \in Named : file' # file /\ file'["other"] = file["other"] /\ Merge(labels) =>
           LET old == file["main"].rows
               new == file'["main"].rows
               from == ToSet(file["other"].rows)
           IN  /\ Len(new) >= Len(old)
               /\ \A i \in DOMAIN old :
                     IF old[i].label \in ToSet(labels) /\ i = LastOf(old, old[i].label)
                     THEN new[i].label = old[i].label /\ new[i] \in from
                     ELSE new[i] = old[i]
               /\ \A i \in (Len(old) + 1)..Len(new) :
                     new[i].label \in ToSet(labels) \ LabelsOf(old) /\ new[i] \in from]_vars
  BY <1>1
<1> QED
  BY <1>2, Invariant, PTL DEF Spec, MergeReplacesInPlace
=============================================================================
