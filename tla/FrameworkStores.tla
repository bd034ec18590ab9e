--------------------------- MODULE FrameworkStores ---------------------------
(***************************************************************************)
(* The stores of agent frameworks: LangGraph's three checkpointers, CrewAI's *)
(* long-term memory, OpenAI Agents sessions, LlamaIndex memory, mem0, Letta's *)
(* block history, Vertex Memory Bank.  None keeps evidence: their own read    *)
(* path is what answers verify().                                           *)
(*                                                                         *)
(* An adapter is a profile of its raw edits (VendorTable) and of its calls to *)
(* the framework's API: the text of a genuine append, whether the names given *)
(* out are listed in the process or in the book, whether an appended row is   *)
(* named from that list and comes before a forged one, and what the read path needs to answer.    *)
(***************************************************************************)
EXTENDS VendorTable

FrameworkKinds == {"langgraph_sqlite", "langgraph_postgres", "langgraph_redis", "crewai",
                   "openai_agents", "llamaindex", "mem0", "letta", "vertex"}

RowTable ==
    [takes |-> {"text", "meta"}, copies |-> {"text", "meta"}, slots |-> "present",
     names |-> "its_name", label |-> "meta", mutates |-> "any_text", forges |-> "mutated",
     points |-> FALSE]
ReadPath ==
    [late |-> "late", lists |-> "nowhere", lateFirst |-> FALSE, serves |-> "anything",
     appends |-> TRUE]

-----------------------------------------------------------------------------
(* Raw edits, adapter by adapter.                                           *)

LanggraphSqliteRaw == [RowTable EXCEPT !.mutates = "seeds_only"]
LanggraphPostgresRaw == RowTable
(* Redis keeps one document per checkpoint and a key naming the latest one.   *)
LanggraphRedisRaw == [RowTable EXCEPT !.points = TRUE]
CrewaiRaw ==
    [RowTable EXCEPT !.takes = {"text"}, !.copies = {"text"}, !.slots = "remembered",
                     !.forges = "its_own_name"]
OpenaiAgentsRaw == [RowTable EXCEPT !.copies = {"text"}, !.mutates = "seeds_only"]
LlamaindexRaw ==
    [RowTable EXCEPT !.takes = {"text"}, !.copies = {"text"}, !.mutates = "seeds_only"]
(* mem0 writes to the ordinal's place among all the names ever added, and      *)
(* edits metadata by giving the point to the other user.                     *)
Mem0Raw ==
    [RowTable EXCEPT !.takes = {"text"}, !.copies = {"text"}, !.slots = "history",
                     !.label = "owner", !.mutates = "replaces_the_token"]
(* The current entry of a Letta block follows the edits of its history.        *)
LettaRaw ==
    [RowTable EXCEPT !.takes = {"text"}, !.copies = {"text"}, !.points = TRUE,
                     !.mutates = "replaces_the_token"]
(* Memory Bank orders by creation: a record cannot be written elsewhere.       *)
VertexRaw ==
    [RowTable EXCEPT !.takes = {"text"}, !.copies = {"text"}, !.slots = "by_name",
                     !.forges = "a_text_of_its_own"]

RawOf(kind) ==
    CASE kind = "langgraph_sqlite" -> LanggraphSqliteRaw
      [] kind = "langgraph_postgres" -> LanggraphPostgresRaw
      [] kind = "langgraph_redis" -> LanggraphRedisRaw
      [] kind = "crewai" -> CrewaiRaw
      [] kind = "openai_agents" -> OpenaiAgentsRaw
      [] kind = "llamaindex" -> LlamaindexRaw
      [] kind = "mem0" -> Mem0Raw
      [] kind = "letta" -> LettaRaw
      [] kind = "vertex" -> VertexRaw

-----------------------------------------------------------------------------
(* Calls to the framework.                                                  *)

LanggraphSqliteApi == [ReadPath EXCEPT !.serves = "a_row"]
LanggraphPostgresApi == [ReadPath EXCEPT !.serves = "a_row"]
LanggraphRedisApi == [ReadPath EXCEPT !.serves = "the_latest"]
CrewaiApi == [ReadPath EXCEPT !.late = "remembered", !.lists = "in_memory", !.lateFirst = TRUE]
OpenaiAgentsApi == ReadPath
LlamaindexApi == [ReadPath EXCEPT !.late = "remembered", !.lists = "in_memory"]
Mem0Api == [ReadPath EXCEPT !.late = "history", !.lists = "in_the_book", !.serves = "a_row"]
LettaApi == [ReadPath EXCEPT !.late = "present", !.serves = "the_latest"]
VertexApi == [ReadPath EXCEPT !.appends = FALSE]

ApiOf(kind) ==
    CASE kind = "langgraph_sqlite" -> LanggraphSqliteApi
      [] kind = "langgraph_postgres" -> LanggraphPostgresApi
      [] kind = "langgraph_redis" -> LanggraphRedisApi
      [] kind = "crewai" -> CrewaiApi
      [] kind = "openai_agents" -> OpenaiAgentsApi
      [] kind = "llamaindex" -> LlamaindexApi
      [] kind = "mem0" -> Mem0Api
      [] kind = "letta" -> LettaApi
      [] kind = "vertex" -> VertexApi

(* The names a write gave out, where the adapter will look for them.          *)
Listed(p, a, s, new, owner) ==
    LET names == [k \in DOMAIN new |-> new[k].id]
    IN  CASE a.lists = "in_memory" /\ owner = CTX -> [s EXCEPT !.memory = @ \o names]
          [] a.lists = "in_the_book" -> [s EXCEPT !.book = @ \o names]
          [] p.points /\ owner = CTX -> [s EXCEPT !.book = Last(names)]
          [] OTHER -> s

SeedFramework(p, a, s, owner) ==
    Listed(p, a, AddRows(s, owner, SeedRows(s, owner)), SeedRows(s, owner), owner)

LateText(a, s) ==
    CASE a.late = "late" -> Text("late", 0)
      [] a.late = "remembered" -> Text("seed", Len(s.memory))
      [] a.late = "history" -> Text("seed", Len(s.book))
      [] a.late = "present" -> Text("seed", Len(View(s, CTX)))
(* Mutant: every name is counted in the process, none drawn by the store.      *)
LateRowCounted(a, s) == Row(CTX, Len(s.memory), LateText(a, s))
LateRow(a, s) ==
    Row(CTX, IF a.lateFirst THEN Len(s.memory) ELSE s.next[CTX], LateText(a, s))
(* Mutant: the row appended takes the place of the forged one.                 *)
AppendRowInPlace(a, s, row) ==
    IF a.lateFirst /\ ForgedId \in Ids(s)
    THEN [s EXCEPT !.rows[PlaceOf(s, ForgedId)] = row]
    ELSE AddRows(s, CTX, <<row>>)
(* A table listed by the names remembered, or by date, shows a forged row last. *)
AppendRow(a, s, row) ==
    IF a.lateFirst /\ ForgedId \in Ids(s)
    THEN [s EXCEPT !.rows = InsertAt(@, PlaceOf(s, ForgedId), row), !.next[CTX] = @ + 1]
    ELSE AddRows(s, CTX, <<row>>)
ServesAnything(a, s) ==
    CASE a.serves = "a_row" -> View(s, CTX) # <<>>
      [] a.serves = "the_latest" -> s.book \in Ids(s)
      [] a.serves = "anything" -> TRUE
CanAppendRow(a, s) == a.appends /\ ServesAnything(a, s)
AppendFramework(p, a, s) ==
    LET row == LateRow(a, s) IN Listed(p, a, AppendRow(a, s, row), <<row>>, CTX)

(* mem0's forge adds to the history first, dated as its template, and then    *)
(* writes to the ordinal after the template: in the history, the forged name   *)
(* itself only if nothing before it was deleted.                             *)
HistoryWithForged(s, id) ==
    LET template == Last(Names(s, CTX))
    IN  InsertAt(s.book, (CHOOSE i \in DOMAIN s.book : s.book[i] = template) + 1, id)
Mem0ForgeSlot(s) == HistoryWithForged(s, <<CTX, s.next[CTX]>>)[Len(View(s, CTX)) + 1]
Mem0Forge(p, s) ==
    LET new == ForgedRow(p, s, Last(View(s, CTX)))
        t == [s EXCEPT !.book = HistoryWithForged(s, new.id), !.next[CTX] = @ + 1]
    IN  IF Mem0ForgeSlot(s) = new.id
        THEN [t EXCEPT !.rows = InsertAt(@, Max(Places(s, CTX)) + 1, new)]
        ELSE Overwrite(t, Mem0ForgeSlot(s), new, p.takes)
=============================================================================
