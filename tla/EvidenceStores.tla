---------------------------- MODULE EvidenceStores ----------------------------
(***************************************************************************)
(* The stores that keep evidence about their rows, and every third-party      *)
(* adapter put behind one definition per operation:                          *)
(*   ledger            LangGraph SQLite under langgraph-ledger's log          *)
(*   inspeximus_*      default; receipts, and the attacker's reach: the store *)
(*                     directory, or the config home that keeps the head too  *)
(*   atelya, atelya_anchor           a keyed chain; anchored elsewhere        *)
(*   continuum, continuum_attest     a chain; its head signed elsewhere       *)
(*   atmem, atmem_checkpoint         an engine's log; checkpoints elsewhere   *)
(*   acrf              every entry signed on its own                         *)
(*   blackbox, blackbox_restart      a watcher's digest of the whole file     *)
(*   agent_memory      a sidecar digest checked when the store is opened      *)
(***************************************************************************)
EXTENDS FrameworkStores

InspeximusKinds == {"inspeximus_default", "inspeximus_dir", "inspeximus_home"}
AtelyaKinds == {"atelya", "atelya_anchor"}
ContinuumKinds == {"continuum", "continuum_attest"}
AtmemKinds == {"atmem", "atmem_checkpoint"}
BlackboxKinds == {"blackbox", "blackbox_restart"}
EvidenceKinds ==
    {"ledger", "acrf", "agent_memory"} \cup InspeximusKinds \cup AtelyaKinds
        \cup ContinuumKinds \cup AtmemKinds \cup BlackboxKinds
VendorKinds == FrameworkKinds \cup EvidenceKinds

InspeximusRaw == [RowTable EXCEPT !.label = "owner"]
AtelyaRaw ==
    [RowTable EXCEPT !.takes = {"text", "meta", "seal"}, !.copies = {"text", "meta", "seal"},
                     !.names = "its_place", !.forges = "a_text_of_its_own"]
ContinuumRaw ==
    [RowTable EXCEPT !.takes = {"text", "meta", "seal"}, !.copies = {"text", "meta", "seal"},
                     !.forges = "its_own_name"]
AtmemRaw == [RowTable EXCEPT !.copies = {"text"}, !.forges = "its_own_name"]
AcrfRaw ==
    [RowTable EXCEPT !.takes = {"text", "meta", "seal"}, !.copies = {"text", "meta", "seal"},
                     !.forges = "a_text_of_its_own"]
BlackboxRaw == [RowTable EXCEPT !.names = "its_place", !.forges = "a_text_of_its_own"]
AgentMemoryRaw == [RowTable EXCEPT !.copies = {"text"}, !.mutates = "seeds_only"]

Raw(kind) ==
    CASE kind \in FrameworkKinds -> RawOf(kind)
      [] kind = "ledger" -> LanggraphSqliteRaw
      [] kind \in InspeximusKinds -> InspeximusRaw
      [] kind \in AtelyaKinds -> AtelyaRaw
      [] kind \in ContinuumKinds -> ContinuumRaw
      [] kind \in AtmemKinds -> AtmemRaw
      [] kind = "acrf" -> AcrfRaw
      [] kind \in BlackboxKinds -> BlackboxRaw
      [] kind = "agent_memory" -> AgentMemoryRaw

Told(rows) == [k \in DOMAIN rows |-> Said(rows[k])]
Served(s) == Told(View(s, CTX))
Files(s) == [c \in {CTX, OTHER_CTX} |-> Told(View(s, c))]

-----------------------------------------------------------------------------
(* Hash chains in the rows: a seal stands for all that was hashed up to it.    *)

HeadOf(rows) == IF rows = <<>> THEN <<>> ELSE Last(rows).seal
SealAfter(rows, row) == Append(HeadOf(rows), Said(row))
(* The new rows, each chained to the one before it.                          *)
ChainFrom(rows, new) ==
    [k \in DOMAIN new |-> [new[k] EXCEPT !.seal = HeadOf(rows) \o Told(SubSeq(new, 1, k))]]
(* Mutant: an entry is checked against itself, not against the one before.     *)
LinkHoldsAlone(rows, k) == Len(rows[k].seal) = k /\ Last(rows[k].seal) = Said(rows[k])
LinkHolds(rows, k) == rows[k].seal = SealAfter(SubSeq(rows, 1, k - 1), rows[k])
ChainHolds(rows) == \A k \in DOMAIN rows : LinkHolds(rows, k)

(* Atelya rebuilds the whole chain file from the events in memory.            *)
AtelyaRebuilt(s, owner, texts) ==
    LET rows == [k \in DOMAIN texts |-> Row(owner, k - 1, texts[k])]
    IN  [s EXCEPT !.rows = Picked(@, DOMAIN @ \ Places(s, owner)) \o ChainFrom(<<>>, rows),
                  !.next[owner] = Len(texts)]
AtelyaAnchored(kind, s) ==
    IF kind = "atelya_anchor" THEN [s EXCEPT !.held = HeadOf(View(s, CTX))] ELSE s
AtelyaSeed(kind, s, owner) ==
    LET texts == [k \in 1..SeedCount |-> SeedRows(s, owner)[k].text]
    IN  IF owner = CTX
        THEN AtelyaAnchored(kind, [AtelyaRebuilt(s, owner, texts) EXCEPT !.memory = texts])
        ELSE AtelyaRebuilt(s, owner, texts)
(* Mutant: only the seed is anchored.                                        *)
AtelyaAppendUnanchored(kind, s) ==
    LET texts == Append(s.memory, Text("seed", Len(s.memory)))
    IN  [AtelyaRebuilt(s, CTX, texts) EXCEPT !.memory = texts]
AtelyaAppend(kind, s) ==
    LET texts == Append(s.memory, Text("seed", Len(s.memory)))
    IN  AtelyaAnchored(kind, [AtelyaRebuilt(s, CTX, texts) EXCEPT !.memory = texts])
AtelyaConsistent(rows, head) ==
    head # <<>> => Len(head) \in DOMAIN rows /\ rows[Len(head)].seal = head
AtelyaVerify(s) == ChainHolds(View(s, CTX)) /\ AtelyaConsistent(View(s, CTX), s.held)

(* Continuum chains on what is stored; the attestation signs the live head.    *)
ContinuumHead(s) == IF View(s, CTX) = <<>> THEN <<>> ELSE <<Last(View(s, CTX)).id, HeadOf(View(s, CTX))>>
ContinuumAdd(kind, s, owner, new) ==
    LET t == AddRows(s, owner, ChainFrom(View(s, owner), new))
    IN  IF kind = "continuum_attest" /\ owner = CTX THEN [t EXCEPT !.held = ContinuumHead(t)] ELSE t
ContinuumAppend(kind, s) ==
    ContinuumAdd(kind, s, CTX, <<Row(CTX, s.next[CTX], Text("seed", Len(View(s, CTX))))>>)
ContinuumVerify(kind, s) ==
    /\ ChainHolds(View(s, CTX))
    /\ kind = "continuum_attest" => s.held = ContinuumHead(s)

-----------------------------------------------------------------------------
(* Evidence beside the rows. *)

(* langgraph-ledger logs every put of the thread, outside the database file.   *)
LedgerLogged(s, new) == [s EXCEPT !.held = @ \o [k \in DOMAIN new |-> <<new[k].id, new[k].text>>]]
LedgerVerify(s) ==
    \A k \in DOMAIN s.held :
        \E row \in ToSet(View(s, CTX)) : <<row.id, row.text>> = s.held[k]

(* Inspeximus: a receipt per write, chained over all of them; the head is kept *)
(* in the config home.                                                      *)
Receipt(row) == <<row.id, row.owner, Said(row)>>
ReceiptsFor(book, new) ==
    LET head == IF book = <<>> THEN <<>> ELSE Last(book)
    IN  book \o [k \in DOMAIN new |-> head \o [j \in 1..k |-> Receipt(new[j])]]
InspeximusAdd(kind, s, owner, new) ==
    LET t == AddRows(s, owner, new)
        book == ReceiptsFor(s.book, new)
    IN  IF kind = "inspeximus_default" THEN t
        ELSE [t EXCEPT !.book = book, !.held = Last(book)]
InspeximusAppend(kind, s) ==
    InspeximusAdd(kind, s, CTX, <<Row(CTX, s.next[CTX], Text("late", Len(s.memory)))>>)
ReceiptOf(s, id) == {k \in DOMAIN s.book : Last(s.book[k])[1] = id}
(* The attacker takes the receipt of a deleted row along, and the head.        *)
InspeximusDelete(kind, s, seq) ==
    LET id == Slot(InspeximusRaw, s, "touch", seq)
        t == DeleteRow(InspeximusRaw, s, seq)
    IN  IF kind = "inspeximus_default" THEN t
        ELSE [t EXCEPT !.book = Picked(@, DOMAIN @ \ ReceiptOf(s, id)),
                       !.held = IF kind = "inspeximus_home" THEN <<>> ELSE @]
InspeximusCanDelete(kind, s, seq) ==
    kind = "inspeximus_default"
        \/ Cardinality(ReceiptOf(s, Slot(InspeximusRaw, s, "touch", seq))) = 1
ReceiptsChain(book) ==
    \A k \in DOMAIN book :
        Len(book[k]) = k /\ (k > 1 => book[k - 1] = SubSeq(book[k], 1, k - 1))
InspeximusVerify(kind, s) ==
    \/ kind = "inspeximus_default"
    \/ /\ ReceiptsChain(s.book)
       /\ {Last(receipt) : receipt \in ToSet(s.book)} = {Receipt(row) : row \in ToSet(s.rows)}
       /\ s.held # <<>> => s.held \in ToSet(s.book)

(* AtMem: the engine's log of each subject, checkpointed outside.             *)
AtmemAdd(kind, s, owner, new) ==
    LET t == [AddRows(s, owner, new) EXCEPT !.book[owner] = @ \o Told(new)]
    IN  IF kind = "atmem_checkpoint" /\ owner = CTX
        THEN [t EXCEPT !.held = @ \o [k \in DOMAIN new |-> s.book[CTX] \o Told(SubSeq(new, 1, k))]]
        ELSE t
AtmemAppend(kind, s) == AtmemAdd(kind, s, CTX, <<Row(CTX, s.next[CTX], Text("late", 0))>>)
AtmemVerify(s) ==
    /\ Served(s) = s.book[CTX]
    /\ \A k \in DOMAIN s.held : IsPrefix(s.held[k], s.book[CTX])

(* ACRF signs each entry; a new one is named after how many there are.         *)
AcrfPut(s, row) ==
    LET before == {i \in Places(s, CTX) : s.rows[i].id[2] < row.id[2]}
    IN  IF row.id \in Ids(s) THEN [s EXCEPT !.rows[PlaceOf(s, row.id)] = row]
        ELSE [s EXCEPT !.rows = Picked(@, before) \o <<row>> \o Picked(@, DOMAIN @ \ before)]
Signed(row) == [row EXCEPT !.seal = <<Said(row)>>]
AcrfSeed(s, owner) ==
    AddRows(s, owner, [k \in 1..SeedCount |-> Signed(SeedRows(s, owner)[k])])
AcrfLate(s) == Row(CTX, Len(View(s, CTX)), Text("seed", Len(View(s, CTX))))
AcrfAppend(s) == AcrfPut(s, Signed(AcrfLate(s)))
AcrfForge(s) ==
    AcrfPut(s, [Last(View(s, CTX)) EXCEPT !.id = <<CTX, Len(View(s, CTX))>>,
                                          !.text = Text("forged", 0)])
(* Mutant: the signature covers the text only.                                *)
AcrfVerifyText(s) == \A row \in ToSet(View(s, CTX)) : row.seal # <<>> /\ row.seal[1][1] = row.text
AcrfVerify(s) == \A row \in ToSet(View(s, CTX)) : row.seal = <<Said(row)>>

(* memory-blackbox: a scan records every watched file that changed, and takes  *)
(* it as the new baseline.                                                  *)
BlackboxScan(s) == [s EXCEPT !.held = Files(s), !.book = Files(s)]
BlackboxAdd(s, owner, new) == BlackboxScan(AddRows(s, owner, new))
BlackboxAppend(s) ==
    BlackboxAdd(s, CTX, <<Row(CTX, s.next[CTX], Text("seed", Len(View(s, CTX))))>>)
BlackboxVerify(s) == s.held[CTX] = Served(s)
(* A restarted watcher starts from the last write in its ledger.              *)
BlackboxRestart(s) == [s EXCEPT !.held = s.book]

(* agent-memory: a digest beside the rows, checked by every open.              *)
AgentMemorySealed(s) == [s EXCEPT !.book = Served(s)]
AgentMemoryVerify(s) == s.book = Served(s)
(* Mutant: opening the store to write does not check the digest.              *)
AgentMemoryCanAppendUnchecked(s) == View(s, CTX) # <<>>
AgentMemoryCanAppend(s) ==
    AgentMemoryVerify(s) /\ Text("late", 0) \notin {row.text : row \in ToSet(View(s, CTX))}
AgentMemoryAppend(s) ==
    AgentMemorySealed(AddRows(s, CTX, <<Row(CTX, s.next[CTX], Text("late", 0))>>))

-----------------------------------------------------------------------------
(* Every adapter, one definition per operation. *)

VendorSetUp(kind) ==
    IF kind \in BlackboxKinds THEN BlackboxScan(EmptyStore)
    ELSE IF kind \in AtmemKinds THEN [EmptyStore EXCEPT !.book = [c \in {CTX, OTHER_CTX} |-> <<>>]]
    ELSE EmptyStore

VendorSeed(kind, s, owner) ==
    LET new == SeedRows(s, owner) IN
    CASE kind \in FrameworkKinds -> SeedFramework(Raw(kind), ApiOf(kind), s, owner)
      [] kind = "ledger" /\ owner = CTX -> LedgerLogged(AddRows(s, owner, new), new)
      [] kind \in InspeximusKinds -> InspeximusAdd(kind, s, owner, new)
      [] kind \in AtelyaKinds -> AtelyaSeed(kind, s, owner)
      [] kind \in ContinuumKinds -> ContinuumAdd(kind, s, owner, new)
      [] kind \in AtmemKinds -> AtmemAdd(kind, s, owner, new)
      [] kind = "acrf" -> AcrfSeed(s, owner)
      [] kind \in BlackboxKinds -> BlackboxAdd(s, owner, new)
      [] kind = "agent_memory" /\ owner = CTX -> AgentMemorySealed(AddRows(s, owner, new))
      [] OTHER -> AddRows(s, owner, new)

VendorVerify(kind, s) ==
    CASE kind \in FrameworkKinds -> ServesAnything(ApiOf(kind), s)
      [] kind = "ledger" -> LedgerVerify(s)
      [] kind \in InspeximusKinds -> InspeximusVerify(kind, s)
      [] kind \in AtelyaKinds -> AtelyaVerify(s)
      [] kind \in ContinuumKinds -> ContinuumVerify(kind, s)
      [] kind \in AtmemKinds -> AtmemVerify(s)
      [] kind = "acrf" -> AcrfVerify(s)
      [] kind \in BlackboxKinds -> BlackboxVerify(s)
      [] kind = "agent_memory" -> AgentMemoryVerify(s)
VendorAsked(kind, s) == IF kind \in BlackboxKinds THEN BlackboxScan(s) ELSE s
VendorReload(kind, s) == IF kind = "blackbox_restart" THEN BlackboxRestart(s) ELSE s

(* Where the append is the engine's, it is modelled on a store the engine's    *)
(* own check accepts; where the adapter writes the row itself, on any store.   *)
VendorCanAppend(kind, s) ==
    CASE kind \in FrameworkKinds -> CanAppendRow(ApiOf(kind), s)
      [] kind = "ledger" -> View(s, CTX) # <<>>
      [] kind \in InspeximusKinds -> InspeximusVerify(kind, s)
      [] kind \in ContinuumKinds -> ChainHolds(View(s, CTX))
      [] kind \in AtmemKinds -> Served(s) = s.book[CTX]
      [] kind = "agent_memory" -> AgentMemoryCanAppend(s)
      [] OTHER -> TRUE
LedgerAppend(s) ==
    LET row == LateRow(LanggraphSqliteApi, s) IN LedgerLogged(AddRows(s, CTX, <<row>>), <<row>>)
VendorAppend(kind, s) ==
    CASE kind \in FrameworkKinds -> AppendFramework(Raw(kind), ApiOf(kind), s)
      [] kind = "ledger" -> LedgerAppend(s)
      [] kind \in InspeximusKinds -> InspeximusAppend(kind, s)
      [] kind \in AtelyaKinds -> AtelyaAppend(kind, s)
      [] kind \in ContinuumKinds -> ContinuumAppend(kind, s)
      [] kind \in AtmemKinds -> AtmemAppend(kind, s)
      [] kind = "acrf" -> AcrfAppend(s)
      [] kind \in BlackboxKinds -> BlackboxAppend(s)
      [] kind = "agent_memory" -> AgentMemoryAppend(s)

VendorCanDelete(kind, s, seq) ==
    /\ CanTouch(Raw(kind), s, seq)
    /\ kind \in InspeximusKinds => InspeximusCanDelete(kind, s, seq)
VendorDelete(kind, s, seq) ==
    IF kind \in InspeximusKinds THEN InspeximusDelete(kind, s, seq) ELSE DeleteRow(Raw(kind), s, seq)
VendorCanForge(kind, s) ==
    /\ CanForge(Raw(kind), s)
    /\ kind = "mem0" => Mem0ForgeSlot(s) \in Ids(s) \cup {<<CTX, s.next[CTX]>>}
VendorForge(kind, s, like) ==
    CASE kind = "mem0" -> Mem0Forge(Raw(kind), s)
      [] kind = "acrf" -> AcrfForge(s)
      [] OTHER -> ForgeRow(Raw(kind), s, like)

(* A copy of the store put back: the rows and the book (and the counter of      *)
(* names, where names are counted and not drawn or timed), and for Atelya the   *)
(* events in memory; only the tenant's own directory for agent-memory; the      *)
(* head too for the attacker who holds the config home.                      *)
VendorHasCopies(kind) == kind # "vertex"
CountsNames(kind) == kind \in {"openai_agents", "llamaindex", "acrf"} \cup AtelyaKinds \cup BlackboxKinds
VendorRestore(kind, s, copy) ==
    LET back == [s EXCEPT !.rows = copy.rows, !.book = copy.book,
                          !.next = IF CountsNames(kind) THEN copy.next ELSE @]
    IN
    CASE kind \in AtelyaKinds -> [back EXCEPT !.memory = copy.memory]
      [] kind = "inspeximus_home" /\ copy.held # <<>> -> [back EXCEPT !.held = copy.held]
      [] kind = "agent_memory" ->
           [back EXCEPT !.rows = View(copy, CTX) \o View(s, OTHER_CTX)]
      [] OTHER -> back
=============================================================================
