------------------------------ MODULE VendorRun ------------------------------
(***************************************************************************)
(* Any short sequence of edits, genuine writes, copies put back, restarts and *)
(* checks against one third-party store, beyond the nine fixed edits of the   *)
(* scorecard (which AttackRun runs on the same stores).                      *)
(***************************************************************************)
EXTENDS EvidenceStores

CONSTANTS
    Kinds,       \* the adapters under test
    MaxEdits,    \* bound: raw edits of the store
    MaxAppends,  \* bound: genuine writes after the seed
    MaxChanges   \* bound: edits and writes together

ASSUME VendorAssumption ==
    /\ Kinds \subseteq VendorKinds
    /\ {MaxEdits, MaxAppends, MaxChanges} \subseteq Nat /\ SeedCount \in Nat \ {0}
    /\ CTX # OTHER_CTX

VARIABLES
    kind,      \* the adapter, chosen once
    s,         \* its store
    copy,      \* a copy of the store, or <<>>
    edits,     \* raw edits made
    appends,   \* genuine writes made after the seed
    aim,       \* history: the name of the row the last step meant to edit, or <<>>
    versions   \* history: what the context held after each write of the API, and
               \* after each scan that recorded a change

vars == <<kind, s, copy, edits, appends, aim, versions>>

Texts == [from : {"seed", "other", "late", "forged"}, n : Nat, tampered : Nat]
Metas == [ts : Nat, marked : BOOLEAN]
Saids == Texts \X Metas
Rows ==
    [id : Contexts \X Int, owner : Contexts, text : Texts, meta : Metas, seal : Seq(Saids)]
(* No two rows listed share a name.                                          *)
StoreOK(t) ==
    /\ DOMAIN t = {"rows", "next", "book", "held", "memory"}
    /\ t.rows \in Seq(Rows)
    /\ t.next \in [Contexts -> Nat]
    /\ \A i, j \in DOMAIN t.rows : t.rows[i].id = t.rows[j].id => i = j
TypeOK ==
    /\ kind \in Kinds
    /\ StoreOK(s)
    /\ copy # <<>> => StoreOK(copy)
    /\ edits \in 0..MaxEdits
    /\ appends \in 0..MaxAppends
    /\ aim \in {<<>>} \cup (Contexts \X Int)
    /\ versions \in Seq(Seq(Saids)) \ {<<>>}

Init ==
    /\ kind \in Kinds
    /\ s = VendorSeed(kind, VendorSetUp(kind), CTX)
    /\ copy = <<>>
    /\ edits = 0
    /\ appends = 0
    /\ aim = <<>>
    /\ versions = <<Served(s)>>

(* The version the context holds now joins the history.                      *)
Recorded(t) == IF Last(versions) = Served(t) THEN versions ELSE Append(versions, Served(t))

Seqs == {k - 1 : k \in DOMAIN View(s, CTX)}
Donors ==
    ToSet(View(s, CTX))
        \cup (IF View(s, OTHER_CTX) = <<>> THEN {} ELSE {Last(View(s, OTHER_CTX))})
P == Raw(kind)

SeedOther ==
    /\ aim' = <<>>
    /\ s.next[OTHER_CTX] = 0
    /\ kind \in InspeximusKinds => VendorCanAppend(kind, s)
    /\ s' = VendorSeed(kind, s, OTHER_CTX)
    /\ versions' = IF kind \in BlackboxKinds THEN Recorded(s) ELSE versions
    /\ UNCHANGED <<kind, copy, edits, appends>>

AppendGenuine ==
    /\ aim' = <<>>
    /\ appends < MaxAppends /\ edits + appends < MaxChanges
    /\ VendorCanAppend(kind, s)
    /\ s' = VendorAppend(kind, s)
    /\ appends' = appends + 1
    /\ versions' = Recorded(s')
    /\ UNCHANGED <<kind, copy, edits>>

-----------------------------------------------------------------------------
(* Raw edits, each from a fresh reading of the store. *)

Edited(t, seq) ==
    /\ edits < MaxEdits /\ edits + appends < MaxChanges
    /\ s' = t
    /\ aim' = IF seq \in Seqs THEN View(s, CTX)[seq + 1].id ELSE <<>>
    /\ edits' = edits + 1
    /\ UNCHANGED <<kind, copy, appends, versions>>

(* The row a table gives first, where a new one copies it: LanceDB moves the    *)
(* rows it updates.  Bound: it is one of the context's, as it is until all of   *)
(* them were rewritten and the other context's were not.                      *)
Firsts == {row \in ToSet(View(s, CTX)) : P.slots = "remembered" \/ row = View(s, CTX)[1]}

Mutate ==
    \E seq \in Seqs, first \in Firsts :
        LET row == View(s, CTX)[seq + 1] IN
        /\ CanMutate(P, row) /\ CanWrite(P, s, seq, row)
        /\ Edited(WriteRow(P, s, seq, MutatedRow(P, row), first), seq)
Move ==
    \E from, to \in Seqs, first \in Firsts :
        LET row == View(s, CTX)[from + 1] IN
        /\ from # to /\ CanWrite(P, s, to, row)
        /\ Edited(WriteRow(P, s, to, row, first), to)
Delete == \E seq \in Seqs : VendorCanDelete(kind, s, seq) /\ Edited(VendorDelete(kind, s, seq), seq)
Replay ==
    \E seq \in Seqs, donor \in Donors :
        CanTouch(P, s, seq) /\ Edited(ReplayRow(P, s, seq, donor), seq)
Mark == \E seq \in Seqs : CanTouch(P, s, seq) /\ Edited(MarkRow(P, s, seq), seq)
Forge ==
    /\ VendorCanForge(kind, s)
    /\ \E first \in Firsts : Edited(VendorForge(kind, s, first), Len(View(s, CTX)))

(* Bound: a copy is taken of a store not edited yet.                          *)
TakeCopy ==
    /\ aim' = <<>>
    /\ copy = <<>> /\ edits = 0 /\ VendorHasCopies(kind)
    /\ copy' = s
    /\ UNCHANGED <<kind, s, edits, appends, versions>>
PutBack ==
    /\ aim' = <<>>
    /\ copy # <<>>
    /\ s' = VendorRestore(kind, s, copy)
    /\ copy' = <<>>
    /\ UNCHANGED <<kind, edits, appends, versions>>

Restart ==
    /\ aim' = <<>>
    /\ s' = VendorReload(kind, s)
    /\ s' # s
    /\ UNCHANGED <<kind, copy, edits, appends, versions>>

(* Asking may change the store: a scan takes what it found as the baseline.    *)
Ask ==
    /\ aim' = <<>>
    /\ s' = VendorAsked(kind, s)
    /\ versions' = IF VendorVerify(kind, s) THEN versions ELSE Recorded(s)
    /\ kind \in BlackboxKinds /\ s' # s
    /\ UNCHANGED <<kind, copy, edits, appends>>

Next ==
    \/ SeedOther \/ AppendGenuine
    \/ Mutate \/ Move \/ Delete \/ Replay \/ Mark \/ Forge
    \/ TakeCopy \/ PutBack \/ Restart \/ Ask
Spec == Init /\ [][Next]_vars

-----------------------------------------------------------------------------
Accepted == VendorVerify(kind, s)

(* What the store keeps inside itself covers the rows in order.               *)
Sealing == AtelyaKinds \cup ContinuumKinds
WholeStore == AtmemKinds \cup BlackboxKinds \cup {"agent_memory"}
(* Evidence that no copy of the store puts back.                             *)
Outside == {"atelya_anchor", "continuum_attest", "atmem_checkpoint", "inspeximus_dir", "blackbox"}

(***************************************************************************)
(* Safety.  A store that keeps evidence of its own and is accepted holds a    *)
(* version the API left: a chain the first rows of one, a digest or a log of  *)
(* the whole store exactly one.  No mix of versions, contexts or edits is     *)
(* accepted, whatever edits, appends, copies and restarts came before         *)
(* (atelya_attest.py:229, continuum_events.py:257, atmem.py:265,              *)
(* memory_blackbox.py:239, agent_memory.py:151).                             *)
(***************************************************************************)
AcceptedWasLeft ==
    /\ kind \in Sealing /\ Accepted => \E v \in ToSet(versions) : IsPrefix(Served(s), v)
    /\ kind \in WholeStore /\ Accepted => Served(s) \in ToSet(versions)

(***************************************************************************)
(* Safety.  With a head, anchor, checkpoint or digest kept where the store's  *)
(* copies do not reach, an accepted store is the newest version: neither a    *)
(* cut tail nor an older copy passes, even after later writes and restarts    *)
(* (atelya_attest.py:237, continuum_events.py:265, atmem.py:274).             *)
(***************************************************************************)
AcceptedIsNewest ==
    kind \in Outside /\ Accepted => Served(s) = Last(versions)

(***************************************************************************)
(* Safety.  Where every entry is signed on its own, and where a log names the *)
(* rows written, acceptance says less: no row served was altered, or no row   *)
(* logged is missing (acrf_memory_guard.py:214, langgraph_ledger.py:84).      *)
(***************************************************************************)
Unaltered(row) == row.text.tampered = 0 /\ ~row.meta.marked /\ row.text.from # "forged"
AcceptedRowsAreSigned ==
    /\ kind = "acrf" /\ Accepted =>
         \A row \in ToSet(View(s, CTX)) : Unaltered(row) /\ row.text.n = row.meta.ts
    /\ kind = "ledger" /\ Accepted =>
         \A k \in 1..SeedCount :
            \E row \in ToSet(View(s, CTX)) : row.id = <<CTX, k - 1>> /\ row.text = Text("seed", k - 1)

(***************************************************************************)
(* Action property.  A genuine write does not launder an edit: a store that   *)
(* was rejected is accepted after an append only if the append rewrote the     *)
(* rows from what the process remembers, or if the adapter takes whatever is   *)
(* there as its new baseline: the watcher's scan, the signature of the live    *)
(* head, the entry that lands on the altered one (continuum_events.py:249,    *)
(* memory_blackbox.py:231, atelya_attest.py:225, acrf_memory_guard.py:204).   *)
(***************************************************************************)
OnlyTheseLaunder ==
    [][appends' > appends /\ ~Accepted /\ VendorVerify(kind, s') =>
         \/ kind \in BlackboxKinds \cup {"continuum_attest"}
         \/ kind \in AtelyaKinds /\ s.memory = [k \in DOMAIN s.memory |-> Served(s')[k][1]]
         \/ kind = "acrf" /\ <<CTX, Len(View(s, CTX))>> \in Ids(s)]_vars

(***************************************************************************)
(* Action property.  A genuine write keeps every row of the context and adds   *)
(* one, except where the store names a row after their number and one was      *)
(* deleted (it lands on a row that is there), or rebuilds the file from        *)
(* memory (acrf_memory_guard.py:204, atelya_attest.py:225).                  *)
(***************************************************************************)
AppendOnlyAdds ==
    [][appends' > appends =>
         \/ Len(View(s', CTX)) = Len(View(s, CTX)) + 1 /\ ToSet(View(s, CTX)) \subseteq ToSet(View(s', CTX))
         \/ kind = "acrf" /\ Names(s, CTX) # [k \in DOMAIN View(s, CTX) |-> <<CTX, k - 1>>]
         \/ kind \in AtelyaKinds /\ edits > 0]_vars

(***************************************************************************)
(* Action property.  A raw edit of an ordinal touches the row just read there, *)
(* and no other, in either context.  Two adapters count in a list of the       *)
(* names given out, so this holds for them only until a row is missing from    *)
(* the head of that list, or CrewAI lists a forged row past its end (a row     *)
(* moved there is written under its own name: crewai_lancedb.py:149-165,      *)
(* mem0_at_rest.py:136).                                                      *)
(***************************************************************************)
CountsElsewhere ==
    \/ kind = "crewai" /\ ~IsPrefix(Names(s, CTX), s.memory)
    \/ kind = "mem0" /\ ~IsPrefix(Names(s, CTX), s.book)
Others(t, id) == Without(t, id).rows
EditsHitTheirRow ==
    [][aim' # <<>> /\ ~CountsElsewhere => Others(s', aim') = Others(s, aim')]_vars

(***************************************************************************)
(* Safety.  The key or column that names the latest row names the last row     *)
(* listed, through deletes, forged tails, appends and copies put back: what    *)
(* the framework serves is what the attack edits (langgraph_redis.py:165,     *)
(* letta_block_history.py:223).                                             *)
(***************************************************************************)
LatestIsLast ==
    P.points => s.book = IF View(s, CTX) = <<>> THEN <<>> ELSE Last(Names(s, CTX))
=============================================================================
