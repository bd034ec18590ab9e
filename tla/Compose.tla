-------------------------------- MODULE Compose --------------------------------
(***************************************************************************)
(* The composition engine (agmi/agent/compose.py): it runs every move alone  *)
(* against a fresh target, then every sequence of moves none of which landed *)
(* alone, and reports the sequences that land.                              *)
(*                                                                         *)
(* One sequence per behaviour is followed to its verdict: each gets a fresh  *)
(* target, so sequences do not touch each other.                            *)
(***************************************************************************)
EXTENDS Adapters

CONSTANTS
    Targets,   \* the kinds of store searched
    MaxLen     \* the length the search is run to, max_len

ASSUME ComposeAssumption ==
    /\ Targets \subseteq Kinds
    /\ MaxLen \in Nat \ {0}
    /\ CTX # OTHER_CTX
    /\ SeedCount \in Nat \ {0} /\ MaxSeq \in Nat
    /\ SeedCount + MaxLen <= MaxSeq   \* a sequence never runs out of numbers

ASSUME NoneAssumption ==
    /\ NONE \notin BOOLEAN
    /\ NONE \notin Ref!Rows /\ NONE \notin Ref!Heads /\ NONE \notin Ref!Witnesses
    /\ NONE \notin OF!AuditRows /\ NONE \notin OF!AuditStores /\ NONE \notin Plain!Tables

(* _candidate_moves(), and the edit of a move that is one; T9 is not among    *)
(* the edits of the engine, which has its own rollback move.                 *)
Edits == Attacks \ {"snapshot_rollback"}
Moves == {"write", "restart", "rollback"} \cup Edits
MoveOrder ==
    <<"write", "restart", "rollback", "tamper", "truncate", "delete_middle", "reorder",
      "forge", "cross_replay", "rollback_replay", "metadata_tamper">>

VARIABLES
    kind,        \* the target searched
    single,      \* how many moves have been run alone
    landsAlone,  \* single_lands: the moves that landed alone
    findings,    \* the sequences reported
    moves,       \* the sequence being run, or <<>>
    left,        \* the moves of it still to make
    store,       \* the target
    genuine,     \* the records read after the seed
    verdict,     \* NONE while running, else whether the sequence landed
    acked,       \* history: the payloads the target's API acknowledged
    controls     \* history: the landed check of every edit made so far held

vars == <<kind, single, landsAlone, findings, moves, left, store, genuine, verdict, acked, controls>>

Payloads(records) == [i \in DOMAIN records |-> records[i].payload]

TypeOK ==
    /\ kind \in Targets
    /\ single \in 0..Cardinality(Moves)
    /\ landsAlone \subseteq Moves
    /\ \A f \in findings : Len(f) \in 2..MaxLen /\ Range(f) \subseteq Moves
    /\ Len(moves) \in 0..MaxLen
    /\ IsSuffix(left, moves)
    /\ verdict \in BOOLEAN \cup {NONE}
    /\ controls \in BOOLEAN

Init ==
    /\ kind \in Targets
    /\ single = 0
    /\ landsAlone = {}
    /\ findings = {}
    /\ moves = <<>> /\ left = <<>>
    /\ store = NewAdapter(kind, FALSE)
    /\ genuine = <<>>
    /\ verdict = NONE
    /\ acked = <<>>
    /\ controls = TRUE

-----------------------------------------------------------------------------
(* What a move does to the target; NONE when a call raises. *)

After(s, call, records) ==
    IF s = NONE \/ Refused(kind, s, call, records) THEN NONE ELSE Effect(kind, s, call, records)

(* The tamper step of an edit.  A raise leaves the target half edited, but    *)
(* ends the sequence as not landed, so how far it got does not matter.       *)
Made(s, calls, k, records) == IF k <= Len(calls) THEN After(s, calls[k], records) ELSE s
ApplyEdit(s, edit) ==
    LET records == ReadAll(kind, s)
        calls == Plan(edit, Len(records))    \* never more than three
    IN  IF Len(records) < NeedsAtLeast(edit) THEN NONE
        ELSE Made(Made(Made(s, calls, 1, records), calls, 2, records), calls, 3, records)

Grown(s) == After(s, Call("append"), <<>>)

Apply(s, move) ==
    CASE move = "write" -> Grown(s)
      [] move = "restart" -> Reload(kind, s)
      [] move = "rollback" ->
           IF Grown(s) = NONE THEN NONE ELSE Restore(kind, Grown(s), Snapshot(kind, s))
      [] OTHER -> ApplyEdit(s, move)

(* What the API acknowledges during a move: the record it appended. *)
Acknowledged(s, move) ==
    IF move \in {"write", "rollback"} THEN <<Last(ReadAll(kind, Grown(s))).payload>> ELSE <<>>

(* Whether the edit's own landed check would hold; the engine never asks.    *)
ControlHolds(s, edit, edited) ==
    LET s1 == IF edit = "cross_replay" THEN Effect(kind, s, Call("seed_other"), <<>>) ELSE s
        record == ReadAll(kind, s)[Middle(Len(ReadAll(kind, s)))]
        notes == [victims |-> ReadAll(kind, s1),
                  donors |-> IF edit = "cross_replay" THEN ReadOther(kind, s1) ELSE <<>>,
                  metaBefore |-> IF edit = "metadata_tamper" THEN ReadMeta(s, kind, record) ELSE NONE,
                  metaAfter |-> IF edit = "metadata_tamper" THEN ReadMeta(edited, kind, record) ELSE NONE]
        others == IF edit = "cross_replay" THEN ReadOther(kind, edited) ELSE <<>>
    IN  Landed(edit, ReadAll(kind, s), ReadAll(kind, edited), notes, others)

-----------------------------------------------------------------------------
(* _lands(), for a sequence. *)

SinglesDone == single = Cardinality(Moves)

(* compose() skips a sequence with a move that lands alone, and one that      *)
(* holds no tampering move.                                                  *)
Searched(combo) ==
    /\ Range(combo) \cap landsAlone = {}
    /\ Range(combo) \cap (Edits \cup {"rollback"}) # {}

(* A fresh target, set up and seeded. *)
Fresh == SeedStore(kind, SetUp(kind, NewAdapter(kind, FALSE)))
Begin(combo) ==
    /\ moves' = combo
    /\ left' = combo
    /\ store' = Fresh
    /\ Verify(kind, store')
    /\ genuine' = ReadAll(kind, store')
    /\ acked' = Payloads(genuine')
    /\ controls' = TRUE
    /\ verdict' = NONE
    /\ UNCHANGED <<kind, landsAlone, findings>>

RunAlone ==
    /\ moves = <<>> /\ ~SinglesDone
    /\ Begin(<<MoveOrder[single + 1]>>)
    /\ single' = single + 1

RunSequence ==
    /\ moves = <<>> /\ SinglesDone
    /\ \E n \in 2..MaxLen : \E combo \in [1..n -> Moves] : Searched(combo) /\ Begin(combo)
    /\ UNCHANGED single

Running == moves # <<>> /\ verdict = NONE

Move ==
    /\ Running
    /\ left # <<>>
    /\ LET next == Apply(store, Head(left)) IN
         /\ next # NONE
         /\ store' = next
         /\ acked' = acked \o Acknowledged(store, Head(left))
         /\ controls' = (controls /\ (Head(left) \in Edits => ControlHolds(store, Head(left), next)))
    /\ left' = Tail(left)
    /\ UNCHANGED <<kind, single, landsAlone, findings, moves, genuine, verdict>>

(* The tool's own API refused the move: the sequence does not land. *)
MoveRefused ==
    /\ Running
    /\ left # <<>>
    /\ Apply(store, Head(left)) = NONE
    /\ verdict' = FALSE
    /\ UNCHANGED <<kind, single, landsAlone, findings, moves, left, store, genuine, acked, controls>>

-----------------------------------------------------------------------------
(* The verdict on what the target serves. *)

Served == Payloads(ReadAll(kind, store))
Seeded == Payloads(genuine)
Writes == Cardinality({i \in DOMAIN moves : moves[i] = "write"})

(* after[:n], where a negative n counts from the end. *)
FirstOf(s, n) == SubSeq(s, 1, IF n >= 0 THEN n ELSE Len(s) + n)

(* Mutant: the records of the sequence's own writes are not set aside.       *)
PrefixChangedByWrites == Served # Seeded
PrefixChanged ==
    LET base == FirstOf(Served, Len(Served) - Writes)
    IN  ~IsPrefix(base, Seeded) \/ Len(base) < Len(Seeded)
RolledBack == "rollback" \in Range(moves) /\ Len(Served) <= Len(Seeded)

Judge ==
    /\ Running
    /\ left = <<>>
    /\ verdict' = (Verify(kind, store) /\ (PrefixChanged \/ RolledBack))
    /\ UNCHANGED <<kind, single, landsAlone, findings, moves, left, store, genuine, acked, controls>>

(* Mutant: a move that lands alone is reported. *)
ReportAloneToo ==
    /\ verdict # NONE
    /\ Len(moves) = 1
    /\ findings' = IF verdict THEN findings \cup {moves} ELSE findings
    /\ moves' = <<>>
    /\ left' = <<>>
    /\ verdict' = NONE
    /\ UNCHANGED <<kind, single, landsAlone, store, genuine, acked, controls>>
ReportAlone ==
    /\ verdict # NONE
    /\ Len(moves) = 1
    /\ landsAlone' = IF verdict THEN landsAlone \cup {moves[1]} ELSE landsAlone
    /\ moves' = <<>>
    /\ left' = <<>>
    /\ verdict' = NONE
    /\ UNCHANGED <<kind, single, findings, store, genuine, acked, controls>>

ReportSequence ==
    /\ verdict = TRUE
    /\ Len(moves) > 1
    /\ moves \notin findings
    /\ findings' = findings \cup {moves}
    /\ UNCHANGED <<kind, single, landsAlone, moves, left, store, genuine, verdict, acked, controls>>

Next ==
    \/ RunAlone \/ RunSequence
    \/ Move \/ MoveRefused
    \/ Judge \/ ReportAlone \/ ReportSequence

Spec == Init /\ [][Next]_vars

-----------------------------------------------------------------------------
(***************************************************************************)
(* Safety.  A landing is real: the target vouches for a memory that is not   *)
(* the one its API acknowledged.  Setting the sequence's own writes aside by *)
(* length (compose.py:107, :120) never makes an honest store look altered.   *)
(***************************************************************************)
LandingIsReal == verdict = TRUE => Verify(kind, store) /\ Served # acked

(***************************************************************************)
(* Safety.  Every reported sequence goes through the hole its target has,    *)
(* and a target with no hole yields none (tests/test_compose.py): nothing    *)
(* lands on the reference store; a store that forgets its witness needs a    *)
(* restart.  At the seed of the suite, OpenFang with the tip kept needs a    *)
(* genuine write after a truncation, which signs the shorter chain (with two *)
(* records it also lands after `reorder, write, reorder, delete_middle`),    *)
(* and the edits of a plain store land alone, so nothing is left to report.  *)
(***************************************************************************)
TruncatedThenSigned(seq) ==
    \E i, j \in DOMAIN seq : i < j /\ seq[i] = "truncate" /\ seq[j] = "write"
FindingsNameTheHole ==
    \A f \in findings :
        CASE kind = "reference" -> FALSE
          [] kind = "forgetful" -> "restart" \in Range(f)
          [] kind = "openfang_strict" -> TruncatedThenSigned(f)
          [] OTHER -> FALSE

(***************************************************************************)
(* What compose.py:122-124 says of a rollback: the served memory shorter     *)
(* than it should be, with no record of the loss, is a landing.              *)
(***************************************************************************)
RollbackLands ==
    /\ verdict # NONE
    /\ "rollback" \in Range(moves)
    /\ left = <<>>
    /\ Verify(kind, store)
    /\ Len(Served) < Len(acked)
    => verdict = TRUE

(***************************************************************************)
(* What compose.py:20-22 says of a landing: verify() returns True with the   *)
(* store changed, and the landed controls for the edit moves all held.       *)
(***************************************************************************)
ChangedStoreLands ==
    /\ verdict # NONE
    /\ Range(moves) \subseteq Edits
    /\ left = <<>>
    /\ Verify(kind, store)
    /\ ReadAll(kind, store) # genuine
    /\ controls
    => verdict = TRUE
=============================================================================
