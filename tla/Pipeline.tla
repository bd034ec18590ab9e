------------------------------- MODULE Pipeline -------------------------------
(***************************************************************************)
(* From results to what is published: the full scorecard of an environment    *)
(* (agmi/full_runner.py) written as a results file, rows of another            *)
(* environment merged into it (agmi/merge_rows.py), the files of two runs       *)
(* compared (agmi/render.py), and the two tools that read one store's results   *)
(* on the spot: agmi-check (agmi/check.py) and the storage-side hunt            *)
(* (agmi/agent/at_rest_hunt.py).                                             *)
(*                                                                         *)
(* One attack stands for each family.  A tool is a label with the surfaces it   *)
(* has; a surface is measured where its packages are installed.                *)
(***************************************************************************)
EXTENDS Integers, FiniteSets, SequencesExt

CONSTANTS
    Labels,      \* the tools, in a subset of DOMAIN Tools
    MaxVersion,  \* bound: attack versions
    MaxRows,     \* bound: rows of a file
    Edits        \* bound: edits of one agmi-check, nine in the code

ASSUME PipelineAssumption ==
    MaxVersion \in Nat \ {0} /\ MaxRows \in Nat \ {0} /\ Edits \in Nat \ {0}

Tools ==
    [log |-> [surfaces |-> {"at rest"}, point |-> "audit"],
     store |-> [surfaces |-> {"at rest", "memory"}, point |-> "read"],
     memory |-> [surfaces |-> {"memory"}, point |-> "read"]]
ASSUME LabelsAssumption == Labels \subseteq DOMAIN Tools

(* Where the committed file is kept, and another: a contributor's, or CI's.      *)
Environments == {"main", "other"}
Families == {"at rest", "memory"}
NoFile == [versions |-> 0, rows |-> <<>>]
NoCheck == [label |-> "none", results |-> <<>>, fail_on |-> "none", exit |-> 0]
NotCompared == [diffs |-> {}, versions |-> <<0, 0>>]

VARIABLES
    version,   \* the attack versions of each environment's checkout
    file,      \* the results file of each environment
    checked,   \* the last agmi-check: the results it got and how it exited
    compared   \* the last comparison of the two files

vars == <<version, file, checked, compared>>

-----------------------------------------------------------------------------
(* One result, and the words for it. *)

Results == {"detected", "undetected", "error", "guard"}
Status(result) ==
    CASE result = "guard" -> "ERROR"
      [] result = "error" -> "n/a"
      [] result = "detected" -> "safe"
      [] result = "undetected" -> "VULNERABLE"

(* agmi-check's word. *)
CheckVerdict(result, point) ==
    CASE result = "guard" -> "ERROR"
      [] result = "error" -> "NOT EVALUABLE"
      [] result = "undetected" -> "ACCEPTED"
      [] result = "detected" /\ point = "audit" -> "REPORTED"
      [] result = "detected" /\ point # "audit" -> "REJECTED"

(* The scorecard's status and word. *)
RowStatus(result, family, point) ==
    IF family = "at rest" /\ Status(result) = "safe" /\ point = "audit" THEN "reported"
    ELSE Status(result)
Verdict(status, family, point) ==
    CASE status = "n/a" -> "n/a"
      [] status = "ERROR" -> "error"
      [] status \notin {"n/a", "ERROR"} /\ family = "memory" ->
           IF status = "safe" THEN "kept out" ELSE "surfaced"
      [] status = "reported" /\ family # "memory" -> "reported"
      [] status = "safe" /\ family # "memory" -> IF point = "audit" THEN "reported" ELSE "rejected"
      [] OTHER -> "accepted"

(* The hunt's findings among the results of a store.                          *)
Findings(results) == {i \in DOMAIN results : results[i] = "undetected"}

(* Mutant: a job that only records is let through first.                       *)
ExitCodeRecordOnly(verdicts, fail_on) ==
    CASE fail_on = "none" -> 0
      [] fail_on # "none" /\ "ERROR" \in ToSet(verdicts) -> 3
      [] fail_on # "none" /\ ToSet(verdicts) = {"NOT EVALUABLE"} -> 2
      [] fail_on # "none" /\ {"ERROR", "ACCEPTED"} \cap ToSet(verdicts) = {"ACCEPTED"} -> 1
      [] OTHER -> 0
ExitCode(verdicts, fail_on) ==
    CASE "ERROR" \in ToSet(verdicts) -> 3
      [] "ERROR" \notin ToSet(verdicts) /\ ToSet(verdicts) = {"NOT EVALUABLE"} -> 2
      [] "ERROR" \notin ToSet(verdicts) /\ "ACCEPTED" \in ToSet(verdicts) /\ fail_on = "accepted" -> 1
      [] OTHER -> 0

-----------------------------------------------------------------------------
(* Rows and files. *)

Cell(result, family, point) ==
    LET status == RowStatus(result, family, point)
    IN  [status |-> status, verdict |-> Verdict(status, family, point)]
(* of is history: the versions a row was measured with, and the results it got. *)
Row(label, results, v) ==
    [label |-> label,
     cells |-> [family \in Families |-> Cell(results[family], family, Tools[label].point)],
     of |-> [version |-> v, results |-> results]]

(* A surface the environment has no packages for is n/a; a tool with none there  *)
(* has no row.  Memory attacks do not check that an edit landed.               *)
Measurable(label) ==
    {results \in [Families -> Results] :
        /\ \A family \in Families \ Tools[label].surfaces : results[family] = "error"
        /\ results["memory"] # "guard"}
Measurements == {one \in [Labels -> UNION {Measurable(label) : label \in Labels}] :
                    \A label \in Labels : one[label] \in Measurable(label)}
RowsMeasured(installed, one, v) ==
    LET order == SetToSeq(installed)
    IN  [i \in DOMAIN order |-> Row(order[i], one[order[i]], v)]

LabelsOf(rows) == {rows[i].label : i \in DOMAIN rows}
(* A mapping built row by row keeps the last row of a label.                   *)
LastOf(rows, label) == CHOOSE i \in DOMAIN rows :
    rows[i].label = label /\ \A j \in (i + 1)..Len(rows) : rows[j].label # label
RowOf(rows, label) == rows[LastOf(rows, label)]

Put(index, rows, row) ==
    IF row.label \in LabelsOf(index) THEN [rows EXCEPT ![LastOf(index, row.label)] = row]
    ELSE Append(rows, row)
(* Mutant: the position is looked up in the run the rows come from.            *)
MergedByExtra(base, extra, labels) ==
    FoldLeft(LAMBDA rows, label :
                IF label \in LabelsOf(base) /\ LastOf(extra, label) \in DOMAIN rows
                THEN [rows EXCEPT ![LastOf(extra, label)] = RowOf(extra, label)]
                ELSE Append(rows, RowOf(extra, label)),
             base, labels)
(* The positions are those of the base as it was before the merge.              *)
Merged(base, extra, labels) ==
    LET after[n \in 0..Len(labels)] ==
            IF n = 0 THEN base ELSE Put(base, after[n - 1], RowOf(extra, labels[n]))
    IN  after[Len(labels)]

(* Mutant: a cell the harness failed on is passed over.                        *)
MeasuredUnlessError(cell) == cell.status \notin {"n/a", "ERROR"}
MeasuredCell(cell) == cell.status # "n/a"
Diffs(a, b) ==
    {at \in (DOMAIN a) \X Families :
        LET mine == a[at[1]]
            other == RowOf(b, mine.label).cells[at[2]]
        IN  /\ mine.label \in LabelsOf(b)
            /\ MeasuredCell(mine.cells[at[2]]) /\ MeasuredCell(other)
            /\ mine.cells[at[2]].status # other.status}

-----------------------------------------------------------------------------
Init ==
    /\ version = [env \in Environments |-> 1]
    /\ file = [env \in Environments |-> NoFile]
    /\ checked = NoCheck
    /\ compared = NotCompared

(* The suite is updated: a fixture or a verdict rule changed.                  *)
Update(env) ==
    /\ version[env] < MaxVersion
    /\ version' = [version EXCEPT ![env] = @ + 1]
    /\ checked' = NoCheck /\ compared' = NotCompared
    /\ UNCHANGED file

Measure(env) ==
    /\ \E installed \in SUBSET Labels, one \in Measurements :
         /\ \A label \in Labels \ installed : \A family \in Families : one[label][family] = "error"
         /\ file' = [file EXCEPT ![env] = [versions |-> version[env],
                                           rows |-> RowsMeasured(installed, one, version[env])]]
    /\ checked' = NoCheck /\ compared' = NotCompared
    /\ UNCHANGED version

Named == UNION {[1..n -> Labels] : n \in 1..2}
(* Mutant: the versions of the two runs are not looked at.                     *)
CanMergeAnyVersion(labels) ==
    /\ file["main"] # NoFile /\ file["other"] # NoFile
    /\ ToSet(labels) \subseteq LabelsOf(file["other"].rows)
CanMerge(labels) ==
    /\ file["main"] # NoFile /\ file["other"] # NoFile
    /\ file["main"].versions = file["other"].versions
    /\ ToSet(labels) \subseteq LabelsOf(file["other"].rows)
Merge(labels) ==
    /\ CanMerge(labels)
    /\ Len(file["main"].rows) + Len(labels) <= MaxRows
    /\ file' = [file EXCEPT !["main"].rows = Merged(@, file["other"].rows, labels)]
    /\ checked' = NoCheck /\ compared' = NotCompared
    /\ UNCHANGED version

Compare ==
    /\ file["main"] # NoFile /\ file["other"] # NoFile
    /\ compared' = [diffs |-> Diffs(file["main"].rows, file["other"].rows),
                    versions |-> <<file["main"].versions, file["other"].versions>>]
    /\ checked' = NoCheck
    /\ UNCHANGED <<version, file>>

(* It reads no results file: bound, it is run before there are any.            *)
Check ==
    /\ \A env \in Environments : file[env] = NoFile
    /\ \E label \in Labels, results \in [1..Edits -> Results], fail_on \in {"accepted", "none"} :
         /\ "at rest" \in Tools[label].surfaces
         /\ checked' = [label |-> label, results |-> results, fail_on |-> fail_on,
                        exit |-> ExitCode([i \in 1..Edits |-> CheckVerdict(results[i], Tools[label].point)],
                                          fail_on)]
    /\ compared' = NotCompared
    /\ UNCHANGED <<version, file>>

Next ==
    \/ \E env \in Environments : Update(env) \/ Measure(env)
    \/ \E labels \in Named : Merge(labels)
    \/ Compare \/ Check
Spec == Init /\ [][Next]_vars

-----------------------------------------------------------------------------
(* Properties. *)

(* Every row of a results file was measured with the attack versions in the      *)
(* file's header, whatever was merged into it after which update, and every      *)
(* word in it is the one agmi-check gives the same result.                     *)
PublishedWasMeasured ==
    \A env \in Environments : \A i \in DOMAIN file[env].rows :
        LET row == file[env].rows[i] IN
        /\ row.of.version = file[env].versions
        /\ LET word == CheckVerdict(row.of.results["at rest"], Tools[row.label].point)
           IN  <<row.cells["at rest"].verdict, word>> \in
                   {<<"n/a", "NOT EVALUABLE">>, <<"error", "ERROR">>, <<"accepted", "ACCEPTED">>,
                    <<"reported", "REPORTED">>, <<"rejected", "REJECTED">>}

(* A merge replaces, where it stands, one row of each label it names that the      *)
(* file has, the one every reader of the file takes, and adds rows only of       *)
(* labels the file did not have; every other row stays as it was.  (A label       *)
(* named twice that the file does not have is added twice, and from then on only  *)
(* the last of the two is replaced.)                                        *)
MergeReplacesInPlace ==
    [][\A labels \in Named : file' # file /\ file'["other"] = file["other"] /\ Merge(labels) =>
           LET old == file["main"].rows
               new == file'["main"].rows
               from == ToSet(file["other"].rows)
           IN  /\ Len(new) >= Len(old)
               /\ \A i \in DOMAIN old :
                     IF old[i].label \in ToSet(labels) /\ i = LastOf(old, old[i].label)
                     THEN new[i].label = old[i].label /\ new[i] \in from
                     ELSE new[i] = old[i]
               /\ \A i \in (Len(old) + 1)..Len(new) :
                     new[i].label \in ToSet(labels) \ LabelsOf(old) /\ new[i] \in from]_vars

(* A comparison that finds no difference compared every cell both runs measured,  *)
(* and each reads the same in both files: the harness's own errors count.       *)
AgreedCellsAgree ==
    compared.versions # <<0, 0>> /\ compared.diffs = {} =>
        \A a \in ToSet(file["main"].rows), b \in ToSet(file["other"].rows), family \in Families :
            /\ a.label = b.label
            /\ "n/a" \notin {a.cells[family].verdict, b.cells[family].verdict}
            => a.cells[family].verdict = b.cells[family].verdict

(* A job that passes had an edit evaluated, none that failed to land, and none   *)
(* that the storage-side hunt would report, unless it was told to ignore them.   *)
PassingJobAcceptsNothing ==
    checked.label # "none" /\ checked.exit = 0 =>
        /\ "guard" \notin ToSet(checked.results)
        /\ ToSet(checked.results) # {"error"}
        /\ checked.fail_on = "accepted" => Findings(checked.results) = {}

(* Cells of different reports are never compared as if the attack had stood      *)
(* still: no cell is compared with one measured with another version of the      *)
(* attack.                                                                  *)
ComparedLikeForLike ==
    \/ compared.versions[1] = compared.versions[2]
    \/ \A a \in ToSet(file["main"].rows), b \in ToSet(file["other"].rows), family \in Families :
          a.label = b.label => ~MeasuredCell(a.cells[family]) \/ ~MeasuredCell(b.cells[family])
=============================================================================
