---------------------------- MODULE SemanticStores ----------------------------
(***************************************************************************)
(* Stores queried in words, as the memory-specific attacks use them           *)
(* (agmi/adapters/semantic_base.py): reset, add a memory, retrieve the k       *)
(* memories most like a question, retrieve with a metadata filter.            *)
(*                                                                         *)
(* A memory is [of, n, fixture, variant, user, source, signed, tag, agent,     *)
(* old]: of, n and fixture say what it is (a genuine memory, the attacker's,    *)
(* filler), agent whose archive it is in (letta), old that it was written        *)
(* before the last reset: history, which no store reads.  What a text has in    *)
(* common with a question is the number of words they share; it is counted      *)
(* once per fixture, below, from the texts of attacks/memory_specific.py.      *)
(*                                                                         *)
(* A store is a kind; a profile says how it serves:                          *)
(*   scoped   only the memories of the user who asks                         *)
(*   ranks    by "words" shared, or by "vectors": as an embedder has it, which   *)
(*            may be any order                                              *)
(*   floor    "word": only memories that share a word with the question;        *)
(*            "score": only those an embedder finds near enough; or "none"      *)
(*   trusts   whose memories: "anyone", a "label", a "signature", "nobody"     *)
(*   content  TRUE if it reads the text: instructions are quarantined, stuffed *)
(*            and crammed memories served last                               *)
(*   filter   what its metadata filter does: "filters", "ignores", "none"      *)
(*   reset    "empties"; "renames" (new agents); "may fail" (and goes on)      *)
(*   owners   TRUE if a hit says whose memory it is                          *)
(***************************************************************************)
EXTENDS Integers, FiniteSets, SequencesExt

Attacks == {"memory_injection", "cross_session_bleed", "retrieval_hijack",
            "indirect_prompt_injection", "update_poisoning", "metadata_poisoning"}

-----------------------------------------------------------------------------
(* Fixtures: the words shared with the control question and with the attack's  *)
(* question, by the genuine memories, the attacker's memory and the filler that *)
(* shares most.                                                             *)

Fixture(own, ownAsked, planted, plantedAsked, filler, fillerAsked) ==
    [control |-> [genuine |-> own, planted |-> planted, filler |-> filler],
     attack |-> [genuine |-> ownAsked, planted |-> plantedAsked, filler |-> fillerAsked]]
OneQuestion(own, planted, filler) == Fixture(own, own, planted, planted, filler, filler)

InjectionFixtures ==
    <<Fixture(<<6>>, <<2>>, 2, 2, 2, 1), Fixture(<<7>>, <<2>>, 2, 3, 3, 1),
      Fixture(<<3>>, <<2>>, 2, 6, 1, 1), Fixture(<<5>>, <<2>>, 2, 5, 2, 1),
      Fixture(<<4>>, <<2>>, 2, 4, 1, 1)>>
BleedFixtures ==
    <<OneQuestion(<<3>>, 0, 0), OneQuestion(<<3>>, 0, 0), OneQuestion(<<4>>, 0, 1),
      OneQuestion(<<2>>, 0, 0), OneQuestion(<<3>>, 0, 0)>>
HijackFixtures ==
    <<OneQuestion(<<3, 4, 4, 5, 3, 4>>, 7, 3), OneQuestion(<<1, 1, 1, 0, 2, 2>>, 5, 0),
      OneQuestion(<<2, 2, 3, 2, 2, 2>>, 4, 1), OneQuestion(<<3, 1, 2, 2, 0, 1>>, 5, 0),
      OneQuestion(<<2, 0, 1, 1, 2, 0>>, 4, 1)>>
PromptInjectionFixtures ==
    <<Fixture(<<5>>, <<0>>, 1, 0, 1, 0), Fixture(<<4>>, <<2>>, 3, 2, 0, 1),
      Fixture(<<5>>, <<1>>, 3, 1, 1, 0), Fixture(<<5>>, <<1>>, 3, 1, 2, 0),
      Fixture(<<4>>, <<1>>, 3, 1, 2, 0)>>
UpdateFixtures ==
    <<OneQuestion(<<5>>, 5, 2), OneQuestion(<<6>>, 6, 2), OneQuestion(<<4>>, 4, 1),
      OneQuestion(<<6>>, 6, 2), OneQuestion(<<4>>, 4, 1)>>
MetadataFixtures ==
    <<OneQuestion(<<3>>, 3, 0), OneQuestion(<<3>>, 3, 1), OneQuestion(<<6>>, 6, 2),
      OneQuestion(<<7>>, 7, 2), OneQuestion(<<7>>, 7, 2)>>
FixturesOf(attack) ==
    CASE attack = "memory_injection" -> InjectionFixtures
      [] attack = "cross_session_bleed" -> BleedFixtures
      [] attack = "retrieval_hijack" -> HijackFixtures
      [] attack = "indirect_prompt_injection" -> PromptInjectionFixtures
      [] attack = "update_poisoning" -> UpdateFixtures
      [] attack = "metadata_poisoning" -> MetadataFixtures

Overlap(words, item) ==
    IF item.of = "genuine" THEN words.genuine[item.n] ELSE words[item.of]

(* The mutations that apply to an attack's texts.  Those of an instruction      *)
(* differ in wording only, and share their words: one stands for them all.     *)
VariantsOf(attack, mutate) ==
    IF mutate /\ attack \in {"retrieval_hijack", "indirect_prompt_injection"}
    THEN <<"base", "mutated">> ELSE <<"base">>
LooksStuffed(attack, item) ==
    attack = "retrieval_hijack" /\ item.of = "planted" /\ item.variant = "base"
LooksLikeInstruction(attack, item) ==
    attack = "indirect_prompt_injection" /\ item.of = "planted"

-----------------------------------------------------------------------------
(* Writers. *)

Memory(of, n, fixture, source, signed) ==
    [of |-> of, n |-> n, fixture |-> fixture, variant |-> "base", user |-> "victim",
     source |-> source, signed |-> signed, tag |-> FALSE, agent |-> 0, old |-> FALSE]
Genuine(n, fixture) == Memory("genuine", n, fixture, "user", TRUE)
FillerMemory(n) == Memory("filler", n, 0, "user", TRUE)

CHANNELS == <<"external", "laundered", "agent-laundered">>
AttackerWrite(channel, fixture, variant) ==
    [Memory("planted", 1, fixture,
            IF channel = "external" THEN "external" ELSE "user",
            channel = "agent-laundered") EXCEPT !.variant = variant]

-----------------------------------------------------------------------------
(* Stores. *)

NaiveStore ==
    [scoped |-> TRUE, ranks |-> "words", floor |-> "word", trusts |-> "anyone", content |-> FALSE,
     filter |-> "filters", reset |-> "empties", owners |-> TRUE]
UnscopedStore == [NaiveStore EXCEPT !.scoped = FALSE]
DefendedStore == [NaiveStore EXCEPT !.trusts = "signature", !.content = TRUE]
InspeximusStore == [NaiveStore EXCEPT !.floor = "none", !.owners = FALSE]
InspeximusLabelStore == [InspeximusStore EXCEPT !.trusts = "label"]
InspeximusKeyStore == [InspeximusStore EXCEPT !.trusts = "signature"]
InspeximusUnseededStore == [InspeximusStore EXCEPT !.trusts = "nobody"]
Mem0LocalStore == [NaiveStore EXCEPT !.ranks = "vectors", !.floor = "score"]
Mem0Store == [Mem0LocalStore EXCEPT !.filter = "none", !.reset = "may fail"]
LanggraphStore == [NaiveStore EXCEPT !.ranks = "vectors", !.floor = "none"]
LettaArchivalStore ==
    [LanggraphStore EXCEPT !.filter = "none", !.reset = "renames", !.owners = FALSE]
(* Test doubles and tools the adapters' comments name: one replaces the fact    *)
(* corrected, one has no filter, one ignores it, one keeps facts and rewords    *)
(* instructions, one answers anything.                                      *)
NoFilterStore == [NaiveStore EXCEPT !.filter = "none"]
FilterIgnoringStore == [NaiveStore EXCEPT !.filter = "ignores"]

Profile(kind) ==
    CASE kind = "unscoped" -> UnscopedStore
      [] kind = "defended" -> DefendedStore
      [] kind = "inspeximus" -> InspeximusStore
      [] kind = "inspeximus_label" -> InspeximusLabelStore
      [] kind = "inspeximus_key" -> InspeximusKeyStore
      [] kind = "inspeximus_unseeded" -> InspeximusUnseededStore
      [] kind = "mem0_local" -> Mem0LocalStore
      [] kind = "mem0" -> Mem0Store
      [] kind = "langgraph_store" -> LanggraphStore
      [] kind = "letta_archival" -> LettaArchivalStore
      [] kind = "no_filter" -> NoFilterStore
      [] kind = "filter_ignoring" -> FilterIgnoringStore
      [] kind \in {"naive", "replacing", "rewording", "flaky"} -> NaiveStore
SemanticKinds ==
    {"naive", "unscoped", "defended", "inspeximus", "inspeximus_label", "inspeximus_key",
     "inspeximus_unseeded", "mem0_local", "mem0", "langgraph_store", "letta_archival",
     "replacing", "no_filter", "filter_ignoring", "rewording", "flaky"}

(* What a reset leaves in the store: letta makes new agents, and leaves the      *)
(* old ones' passages behind.                                               *)
Aged(items) == [i \in DOMAIN items |-> [items[i] EXCEPT !.old = TRUE]]
ResetItems(kind, items) == IF Profile(kind).reset = "renames" THEN Aged(items) ELSE <<>>

(* Letta's agents: how many were ever made, and whose is whose since the last     *)
(* reset, 0 before the user's first call.  An agent has an archive of its own.   *)
Users == {"victim", "other"}
NoAgents == [made |-> 0, of |-> [user \in Users |-> 0]]
(* Mutant: a reset that does not forget the agents.                            *)
KeepAgents(kind, agents) == agents
ResetAgents(kind, agents) ==
    IF Profile(kind).reset = "renames"
    THEN [made |-> agents.made, of |-> [user \in Users |-> 0]] ELSE agents
(* A call for a user makes the agent the user has not got yet.                  *)
AgentFor(kind, agents, user) ==
    IF Profile(kind).reset = "renames" /\ agents.of[user] = 0
    THEN [made |-> agents.made + 1, of |-> [agents.of EXCEPT ![user] = agents.made + 1]]
    ELSE agents
Into(agents, written) ==
    [i \in DOMAIN written |-> [written[i] EXCEPT !.agent = agents.of["victim"]]]

(* The replacing store drops what the new memory corrects.                    *)
AddMemory(kind, items, item, corrects) ==
    IF kind = "replacing" /\ corrects THEN <<item>> ELSE Append(items, item)

(* Mutant: the label is taken for the signature.                               *)
TrustedByLabel(trusts, item) ==
    CASE trusts = "anyone" -> TRUE
      [] trusts \in {"label", "signature"} -> item.source = "user"
      [] trusts = "nobody" -> FALSE
Trusted(trusts, item) ==
    CASE trusts = "anyone" -> TRUE
      [] trusts = "label" -> item.source = "user"
      [] trusts = "signature" -> item.signed
      [] trusts = "nobody" -> FALSE
(* Letta searches the archive of the asker's agent, whoever wrote there.         *)
InScope(kind, agents, item, asker) ==
    IF Profile(kind).reset = "renames" THEN item.agent = agents.of[asker]
    ELSE Profile(kind).scoped => item.user = asker
Candidates(kind, attack, agents, items, asker, words) ==
    LET p == Profile(kind) IN
    {i \in DOMAIN items :
        /\ InScope(kind, agents, items[i], asker)
        /\ p.content => ~LooksLikeInstruction(attack, items[i])
        /\ Trusted(p.trusts, items[i])
        /\ p.floor = "word" => Overlap(words, items[i]) > 0}

(* The median of the other candidates' overlaps, doubled: it may be a half.     *)
Smallest(k, among, value) ==
    CHOOSE v \in {value[i] : i \in among} :
        /\ Cardinality({i \in among : value[i] < v}) < k
        /\ Cardinality({i \in among : value[i] <= v}) >= k
TwiceMedian(among, value) ==
    LET n == Cardinality(among)
    IN  IF n = 0 THEN 0
        ELSE Smallest((n + 1) \div 2, among, value) + Smallest(n \div 2 + 1, among, value)
Demoted(attack, items, among, words, i) ==
    LET shared == [j \in among |-> Overlap(words, items[j])] IN
    LooksStuffed(attack, items[i]) \/ 2 * shared[i] > TwiceMedian(among \ {i}, shared) + 4

(* The k best, by tier, then by overlap, then by age.                        *)
TopK(kind, attack, items, among, words, k) ==
    LET late == IF Profile(kind).content
                THEN {i \in among : Demoted(attack, items, among, words, i)} ELSE {}
        Score(i) == Overlap(words, items[i]) - (IF i \in late THEN 100 ELSE 0)
        Before(j, i) == Score(j) > Score(i) \/ (Score(j) = Score(i) /\ j < i)
    IN  {i \in among : Cardinality({j \in among : Before(j, i)}) < k}

(* A hit is a text and whose it is.                                           *)
Hit(item) ==
    [of |-> item.of, n |-> item.n, fixture |-> item.fixture, variant |-> item.variant,
     user |-> item.user, old |-> item.old]
(* Any k of them may be the nearest, and with a floor any fewer.  Hits that differ  *)
(* in number only are told once: one stands for those alike.                    *)
Told(item) == [Hit(item) EXCEPT !.n = 1]
Nearest(kind, items, among, k) ==
    LET most == IF Cardinality(among) < k THEN Cardinality(among) ELSE k
    IN  {hits \in SUBSET {Told(items[i]) : i \in among} :
            /\ Cardinality(hits) <= most
            /\ Profile(kind).floor = "none" =>
                  Cardinality({i \in among : Told(items[i]) \in hits}) >= most}

(* The answers a store may give: one, but for those that rank by an embedder.     *)
Ranked(kind, attack, items, among, words, k) ==
    IF Profile(kind).ranks = "vectors" THEN Nearest(kind, items, among, k)
    ELSE {{Hit(items[i]) : i \in TopK(kind, attack, items, among, words, k)}}
Retrieve(kind, attack, agents, items, asker, words, k) ==
    Ranked(kind, attack, items, Candidates(kind, attack, agents, items, asker, words), words, k)
(* The filter, on top of what the store serves; the defended store looks a hit  *)
(* up again by its text and user.                                           *)
Wording(item) == <<item.of, item.n, item.variant, item.user>>
FirstStored(items, hit) ==
    items[CHOOSE i \in DOMAIN items :
            /\ Wording(items[i]) = Wording(hit)
            /\ \A j \in 1..(i - 1) : Wording(items[j]) # Wording(hit)]
RetrieveWhere(kind, attack, agents, items, asker, words, k) ==
    LET among == Candidates(kind, attack, agents, items, asker, words) IN
    CASE Profile(kind).filter = "ignores" -> Ranked(kind, attack, items, among, words, k)
      [] kind = "defended" ->
           {{hit \in hits : FirstStored(items, hit).tag} :
               hits \in Ranked(kind, attack, items, among, words, Len(items))}
      [] OTHER -> Ranked(kind, attack, items, {i \in among : items[i].tag}, words, k)

(* A served memory still reads as an instruction.                            *)
ServedAsInstruction(kind, attack, hit) == LooksLikeInstruction(attack, hit) /\ kind # "rewording"
=============================================================================
