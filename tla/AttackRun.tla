------------------------------ MODULE AttackRun ------------------------------
(***************************************************************************)
(* The lifecycle every at-rest attack runs (agmi/attacks/base.py): setup,    *)
(* seed, the two controls, the edit, the landed check, the verdict, teardown. *)
(* One adapter object is used again for run after run, as the runners do.   *)
(*                                                                         *)
(* Any call to the adapter may raise, and a broken adapter may answer        *)
(* anything and may misfire on the edit's calls.  The ghost ideal is the    *)
(* store a faultless adapter would hold after the same calls.               *)
(***************************************************************************)
EXTENDS Adapters

CONSTANTS
    Targets,   \* the kinds of adapter under test
    Broken,    \* TRUE when the adapter may misfire and answer anything
    MaxRuns    \* bound: runs against one adapter object

ASSUME RunAssumption ==
    /\ Targets \subseteq Kinds
    /\ Broken \in BOOLEAN
    /\ Broken => Targets = {"plain"}
    /\ MaxRuns \in Nat \ {0}
    /\ CTX # OTHER_CTX
    /\ "none" \notin {CTX, OTHER_CTX}
    /\ SeedCount \in Nat \ {0}

VARIABLES
    kind,      \* the kind of adapter, chosen once
    store,     \* the adapter and its store
    pc,        \* the step the run is at
    attack,    \* the edit of the current run
    calls,     \* the calls of the tamper step still to make
    records,   \* what the tamper step read
    before,    \* the snapshot taken before the edit
    after,     \* the snapshot taken after it
    notes,     \* what the tamper step noted for the landed check (_ctx)
    outcome,   \* the status of the result about to be returned, or NONE
    runs,      \* history: runs started
    answers,   \* history: what verify() answered in this run
    ideal,     \* history: the store had every call done what it says
    misfired   \* history: some call of this run did something else

run == <<attack, calls, records, before, after, notes, outcome, answers>>
history == <<ideal, misfired>>
vars == <<kind, store, pc, run, runs, history>>

Statuses == {"safe", "VULNERABLE", "ERROR", "n/a"}
Verdicts == {"safe", "VULNERABLE"}
NoNotes == [copy |-> NONE, grown |-> <<>>, donors |-> <<>>, victims |-> <<>>,
            metaBefore |-> NONE, metaAfter |-> NONE]

Phases == {"idle", "setup", "seed", "verify clean", "reload clean", "verify reloaded",
           "snapshot before", "read", "edit", "snapshot after", "check landed",
           "reload edited", "verify edited", "teardown"}

TypeOK ==
    /\ kind \in Targets
    /\ pc \in Phases
    /\ attack \in Attacks \cup {NONE}
    /\ outcome \in Statuses \cup {NONE}
    /\ outcome # NONE => pc \in {"teardown", "idle"}
    /\ runs \in 0..MaxRuns
    /\ answers \in UNION {[1..n -> BOOLEAN] : n \in 0..3}
    /\ misfired \in BOOLEAN
    /\ calls # <<>> => pc = "edit"

Init ==
    /\ kind \in Targets
    /\ \E broken \in {FALSE, Broken} : store = NewAdapter(kind, broken)
    /\ ideal = NewAdapter(kind, FALSE)
    /\ pc = "idle"
    /\ attack = NONE
    /\ calls = <<>> /\ records = <<>> /\ before = <<>> /\ after = <<>>
    /\ notes = NoNotes
    /\ outcome = NONE
    /\ runs = 0
    /\ answers = <<>>
    /\ misfired = FALSE

-----------------------------------------------------------------------------
(* Running one attack. *)

Goto(step) == pc' = step
Return(status) == outcome' = status /\ Goto("teardown")

(* run() of the replay, metadata and snapshot edits first asks whether the   *)
(* adapter supports them, and returns before it touches a store if not.      *)
Start ==
    /\ pc = "idle"
    /\ runs < MaxRuns
    /\ runs' = runs + 1
    /\ attack' \in Attacks
    /\ IF Supports(kind, attack')
       THEN Goto("setup") /\ outcome' = NONE
       ELSE Goto("idle") /\ outcome' = "n/a"
    /\ calls' = <<>> /\ records' = <<>> /\ before' = <<>> /\ after' = <<>>
    /\ notes' = NoNotes
    /\ answers' = <<>>
    /\ misfired' = FALSE
    /\ UNCHANGED <<kind, store, ideal>>

Setup ==
    /\ pc = "setup"
    /\ store' = SetUp(kind, store)
    /\ ideal' = SetUp(kind, ideal)
    /\ Goto("seed")
    /\ UNCHANGED <<kind, run, runs, misfired>>

Seed ==
    /\ pc = "seed"
    /\ store' = SeedStore(kind, store)
    /\ ideal' = SeedStore(kind, ideal)
    /\ Goto("verify clean")
    /\ UNCHANGED <<kind, run, runs, misfired>>

(* What the tool may answer. *)
Replies == IF Broken THEN BOOLEAN ELSE {Verify(kind, store)}

(* Asking may change the store: a watcher's scan is its new baseline.         *)
Ask == store' = Asked(kind, store) /\ ideal' = Asked(kind, ideal) /\ UNCHANGED misfired

(* Controls 1 and 2: the clean store, then the reopened one, must verify.    *)
Control(step, next) ==
    /\ pc = step
    /\ Ask
    /\ \E intact \in Replies :
         /\ answers' = Append(answers, intact)
         /\ IF intact THEN Goto(next) /\ UNCHANGED outcome ELSE Return("n/a")
    /\ UNCHANGED <<kind, attack, calls, records, before, after, notes, runs>>
VerifyClean == Control("verify clean", "reload clean")
VerifyReloaded == Control("verify reloaded", "snapshot before")

ReloadStore(step, next) ==
    /\ pc = step
    /\ store' = Reload(kind, store)
    /\ ideal' = Reload(kind, ideal)
    /\ Goto(next)
    /\ UNCHANGED <<kind, run, runs, misfired>>
ReloadClean == ReloadStore("reload clean", "verify reloaded")
ReloadEdited == ReloadStore("reload edited", "verify edited")

SnapshotBefore ==
    /\ pc = "snapshot before"
    /\ notes' = NoNotes
    /\ before' = ReadAll(kind, store)
    /\ Goto("read")
    /\ UNCHANGED <<kind, store, attack, calls, records, after, outcome, answers, runs, history>>

(* The tamper step reads the store and decides its calls. *)
ReadRecords ==
    /\ pc = "read"
    /\ records' = ReadAll(kind, store)
    /\ IF Len(records') < NeedsAtLeast(attack)
       THEN Return("n/a") /\ calls' = <<>>
       ELSE /\ calls' = Plan(attack, Len(records'))
            /\ Goto("edit")
            /\ UNCHANGED outcome
    /\ UNCHANGED <<kind, store, attack, before, after, notes, answers, runs, history>>

-----------------------------------------------------------------------------
(* The calls of the tamper step, one by one. *)

(* Mutant: the tamper step stops after its first call. *)
CallDoneAfterOne ==
    /\ calls' = Tail(calls)
    /\ Goto("snapshot after")
    /\ UNCHANGED <<kind, attack, records, before, after, outcome, answers, runs>>
AtCall(op) == pc = "edit" /\ calls # <<>> /\ Head(calls).op = op
CallDone ==
    /\ calls' = Tail(calls)
    /\ Goto(IF Len(calls) = 1 THEN "snapshot after" ELSE "edit")
    /\ UNCHANGED <<kind, attack, records, before, after, outcome, answers, runs>>

Editing == {"write", "delete", "replay", "seed_other", "append", "meta"}

Edit ==
    /\ pc = "edit"
    /\ calls # <<>>
    /\ Head(calls).op \in Editing
    /\ ~Refused(kind, store, Head(calls), records)
    /\ ideal' = Effect(kind, ideal, Head(calls), records)
    /\ LET done == Effect(kind, store, Head(calls), records) IN
         /\ store' \in {done} \cup IF Broken THEN Misfires(store, Head(calls), records) ELSE {}
         /\ misfired' = (misfired \/ store' # done \/ (Broken /\ store.readsAll))
    /\ notes' = IF Head(calls).op = "meta"
                THEN LET record == records[Head(calls).at]
                     IN  [notes EXCEPT !.metaBefore = ReadMeta(store, kind, record),
                                       !.metaAfter = ReadMeta(store', kind, record)]
                ELSE notes
    /\ CallDone

(* T6 reads both contexts after it seeded the second, and needs both.        *)
ReadBoth ==
    /\ AtCall("read_both")
    /\ ~Refused(kind, store, Head(calls), records)
    /\ notes' = [notes EXCEPT !.victims = ReadAll(kind, store), !.donors = ReadOther(kind, store)]
    /\ CallDone
    /\ UNCHANGED <<store, history>>

TakeCopy ==
    /\ AtCall("snapshot")
    /\ notes' = [notes EXCEPT !.copy = [store |-> Snapshot(kind, store), ideal |-> Snapshot(kind, ideal)]]
    /\ CallDone
    /\ UNCHANGED <<store, history>>

ReadGrown ==
    /\ AtCall("read_grown")
    /\ notes' = [notes EXCEPT !.grown = ReadAll(kind, store)]
    /\ CallDone
    /\ UNCHANGED <<store, history>>

PutBack ==
    /\ AtCall("restore")
    /\ ideal' = Restore(kind, ideal, notes.copy.ideal)
    /\ LET done == Restore(kind, store, notes.copy.store) IN
         /\ store' \in {done} \cup IF Broken THEN Misfires(store, Head(calls), records) ELSE {}
         /\ misfired' = (misfired \/ store' # done)
    /\ CallDone
    /\ UNCHANGED notes

Tamper == Edit \/ ReadBoth \/ TakeCopy \/ ReadGrown \/ PutBack

-----------------------------------------------------------------------------
(* Control 3 and the verdict. *)

SnapshotAfter ==
    /\ pc = "snapshot after"
    /\ after' = ReadAll(kind, store)
    /\ Goto("check landed")
    /\ UNCHANGED <<kind, store, attack, calls, records, before, notes, outcome, answers, runs, history>>

(* The donor pool is read again only by the check of T6. *)
CheckLanded ==
    /\ pc = "check landed"
    /\ LET others == IF attack = "cross_replay" THEN ReadOther(kind, store) ELSE <<>> IN
       IF Landed(attack, before, after, notes, others)
       THEN Goto("reload edited") /\ UNCHANGED outcome
       ELSE Return("ERROR")
    /\ UNCHANGED <<kind, store, attack, calls, records, before, after, notes, answers, runs, history>>

VerifyEdited ==
    /\ pc = "verify edited"
    /\ Ask
    /\ \E intact \in Replies :
         /\ answers' = Append(answers, intact)
         /\ Return(IF intact THEN "VULNERABLE" ELSE "safe")
    /\ UNCHANGED <<kind, attack, calls, records, before, after, notes, runs>>

(* Any call inside the try may raise: the store's own API may refuse, a       *)
(* replay may find no donor, the adapter may break.                           *)
(* Mutant: an edit that raises is scored as caught.                           *)
RaiseScoredSafe ==
    /\ pc \notin {"idle", "teardown"}
    /\ Return("safe")
    /\ calls' = <<>>
    /\ UNCHANGED <<kind, store, attack, records, before, after, notes, answers, runs, history>>
Raise ==
    /\ pc \notin {"idle", "teardown"}
    /\ Return("n/a")
    /\ calls' = <<>>
    /\ UNCHANGED <<kind, store, attack, records, before, after, notes, answers, runs, history>>

(* The finally clause.                                                       *)
Teardown ==
    /\ pc = "teardown"
    /\ store' = SetUp(kind, store)
    /\ ideal' = SetUp(kind, ideal)
    /\ Goto("idle")
    /\ UNCHANGED <<kind, run, runs, misfired>>

(* An exception of teardown() itself is swallowed: the run reports all the    *)
(* same, and the store stays as the edit left it until the next setup.        *)
(* Mutant: it is not swallowed, and takes the result with it.                 *)
TeardownAborts ==
    /\ pc = "teardown"
    /\ Goto("idle")
    /\ outcome' = NONE
    /\ UNCHANGED <<kind, store, attack, calls, records, before, after, notes, answers, runs, history>>
TeardownRaises ==
    /\ pc = "teardown"
    /\ Goto("idle")
    /\ UNCHANGED <<kind, store, run, runs, history>>

Step ==
    \/ Setup \/ Seed \/ VerifyClean \/ ReloadClean \/ VerifyReloaded
    \/ SnapshotBefore \/ ReadRecords \/ Tamper \/ SnapshotAfter
    \/ CheckLanded \/ ReloadEdited \/ VerifyEdited \/ Raise
    \/ Teardown \/ TeardownRaises

Next == Start \/ Step

(* The harness is one sequential program: a started run goes on.             *)
Fairness == WF_vars(Step)
Spec == Init /\ [][Next]_vars /\ Fairness

-----------------------------------------------------------------------------
Concluded == pc = "teardown" /\ outcome # NONE

(* The whole table of a plain store, row by row.  A replay is only asked to   *)
(* copy a record's content, so the metadata of the victim is left open.       *)
Replayed(i) ==
    attack \in {"cross_replay", "rollback_replay"} /\ ideal.rows[i].id = Last(before).id
SameRow(i) ==
    [store.rows[i] EXCEPT !.meta = IF Replayed(i) THEN ideal.rows[i].meta ELSE @] = ideal.rows[i]
AsIntended ==
    IF kind = "plain"
    THEN /\ Len(store.rows) = Len(ideal.rows)
         /\ \A i \in DOMAIN ideal.rows : SameRow(i)
    ELSE store = ideal

(***************************************************************************)
(* Safety.  A verdict is only taken on the edit its attack describes: both   *)
(* controls held, the tool was asked again, and the store holds exactly what *)
(* a faultless adapter would hold after the same calls, in both contexts.    *)
(* No lost, misplaced or half-done call of the adapter, and no exception,    *)
(* passes for a verdict (attacks/base.py:88-134, attacks/guard.py:5-15).     *)
(***************************************************************************)
VerdictIsEarned ==
    Concluded /\ outcome \in Verdicts =>
        /\ answers = <<TRUE, TRUE, outcome = "VULNERABLE">>
        /\ AsIntended

(***************************************************************************)
(* Safety.  The landed check blames the adapter only when the adapter is to  *)
(* blame: an ERROR cell means some call did not do what it says.             *)
(***************************************************************************)
ErrorMeansMisfire == Concluded /\ outcome = "ERROR" => misfired

(* The published cells: README.md and the scorecards beside it,              *)
(* tests/test_openfang.py, tests/test_snapshot_rollback.py.                   *)
Published ==
    CASE kind \in {"reference", "inspeximus_dir", "atelya_anchor", "continuum_attest",
                   "atmem_checkpoint", "blackbox"} -> {}
      [] kind \in {"openfang_strict", "blackbox_restart", "atmem", "agent_memory"} ->
           {"snapshot_rollback"}
      [] kind \in {"openfang", "inspeximus_home", "atelya", "continuum"} ->
           {"truncate", "snapshot_rollback"}
      [] kind = "ledger" -> {"forge", "metadata_tamper"}
      [] kind = "acrf" -> Attacks \ {"tamper", "forge", "metadata_tamper"}
      [] kind = "vertex" -> Attacks \ {"reorder", "snapshot_rollback"}
      [] OTHER -> Attacks

(***************************************************************************)
(* Safety.  A run that reaches its end scores as published, whatever ran     *)
(* against the same adapter object before it and however that ended: the     *)
(* reference store catches every edit, OpenFang misses the tail truncation   *)
(* until its fix and the snapshot rollback after it too, and each third-party *)
(* store misses what its evidence does not cover.  No control fails on a      *)
(* store nobody broke, and no edit fails to land.                            *)
(***************************************************************************)
ScoresAsPublished ==
    Concluded =>
        /\ outcome # "ERROR"
        /\ \A i \in DOMAIN answers : i < 3 => answers[i]
        /\ outcome = "VULNERABLE" => attack \in Published
        /\ outcome = "safe" => attack \notin Published

(***************************************************************************)
(* Liveness.  A run that starts returns a result, whichever of its calls      *)
(* raises, the teardown too: one broken adapter cannot abort the scorecard    *)
(* (attacks/base.py:82-84, :129-139).  It may leave its store behind.         *)
(***************************************************************************)
EveryRunReports == pc = "setup" ~> pc = "idle" /\ outcome # NONE
=============================================================================
