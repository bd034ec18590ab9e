--------------------------- MODULE TamperEvidentLog ---------------------------
(***************************************************************************)
(* What a tamper-evident store promises its reader, with no chain, head or  *)
(* witness in sight: the reader is served the acknowledged log or is        *)
(* refused, whatever happens to the files; and a genuine write never turns  *)
(* a refusal into an answer.                                                *)
(***************************************************************************)
EXTENDS Naturals, Sequences

CONSTANTS Entry,     \* a log entry
          REFUSED    \* the answer of a store that does not trust its files

VARIABLES log,       \* every entry the store acknowledged, in order
          served     \* the answer a reader gets now: the log, or REFUSED

vars == <<log, served>>

Init == log = <<>> /\ served = REFUSED

(* The first acknowledged writes of a fresh store. *)
Seed ==
    /\ log = <<>>
    /\ log' # <<>>
    /\ log' \in Seq(Entry)
    /\ served' = log'

(* One more acknowledged write.  A reader who was refused stays refused. *)
Write ==
    /\ log # <<>>
    /\ log' \in Seq(Entry)
    /\ Len(log') = Len(log) + 1
    /\ SubSeq(log', 1, Len(log)) = log
    /\ served' = IF served = REFUSED THEN REFUSED ELSE log'

(* Anything at all happens to the files. *)
Disturb ==
    /\ log # <<>>
    /\ served' \in {log, REFUSED}
    /\ UNCHANGED log

(* The store is thrown away, or a new one made. *)
Reset == log' = <<>> /\ served' = REFUSED

Next == Seed \/ Write \/ Disturb \/ Reset

Spec == Init /\ [][Next]_vars
=============================================================================
