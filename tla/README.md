# A TLA+ model of the Agent Memory Integrity suite

agmi asks one question of a memory store: if someone edits what is stored
behind the tool's back, does the tool notice? It answers with a cell of a
scorecard, and the value of the project is that the cell is right. This
directory models the parts of the suite that decide it: the stores that must
notice, the lifecycle and the controls that make a verdict, and the engine that
searches for sequences of edits no single-edit test would find. Paths below are
relative to the repository's root (`src/` here).

## 1. The system

| part | source | state it keeps | operations |
|---|---|---|---|
| adapter contract | `agmi/adapters/base.py` | none of its own | setup, seed, read/write/delete raw, replay, metadata, copy/restore, append, reload, verify, teardown |
| reference store | `agmi/adapters/reference_atrest.py` | two SQLite tables (rows, heads) and, in the process, the witness: the last head of the context under attack | the whole contract |
| OpenFang audit log | `agmi/adapters/openfang.py` | one SQLite file: rows and the tip row | the contract without replay and metadata |
| at-rest edits T1-T9 | `agmi/attacks/at_rest.py`, `guard.py` | `_ctx`, what the edit decided, for its landed check | tamper, check_landed |
| attack lifecycle | `agmi/attacks/base.py`, `runner.py` | the run's local state | run |
| composition engine | `agmi/agent/compose.py` | which moves land alone, the findings | compose, `_lands` |
| chained and anchored stores | eight of `agmi/adapters/` (atelya, continuum, atmem, ledger, acrf, memory-blackbox, agent-memory, inspeximus) | a third-party store each, its evidence inside it, beside it or in the process | the contract |
| framework stores | nine of `agmi/adapters/` (LangGraph x3, CrewAI, OpenAI Agents, LlamaIndex, mem0, Letta, Vertex) | a third-party store each, and the names given out | the contract |
| semantic attacks | `agmi/attacks/memory_specific.py` | a memory under test, per fixture | six front-door attacks, each with positive controls |
| semantic adapters | `semantic_base.py` and the stores behind it | memories, the user's keyring | reset, add, retrieve, retrieve with a filter |
| hunter | `agmi/agent/hunter.py`, `at_rest_hunt.py` | findings | hunt |
| scorecard pipeline | `agmi/check.py`, `full_runner.py`, `merge_rows.py`, `render.py` | result files | measure, merge, compare, exit code |
| anchored chain verifier | `agmi/anchored_chain.py` | none | verify_case |

How they interact. Everything is in one process and one thread: an attack calls
its adapter, which calls the store. The concurrency that matters is between
*actors*, not threads: the tool writing through its API, whoever holds the files
editing them, and the harness reopening and asking, in any order. What makes it
hard:

- an adapter object is used again for run after run, so what one run leaves in
  it (a witness, a flag) is there for the next;
- a tamper step is several calls, any of which may raise, be lost or land on the
  wrong row of a store the harness does not know;
- genuine material in the wrong place or from the wrong time (replays, restored
  copies) passes every check of a row on its own;
- a genuine write after an edit may sign the edited state;
- some state is in the files and goes back with them, some is not.

What makes each part correct. *Store*: what it vouches for is what its API
acknowledged, as far as its evidence reaches, and it vouches for a store nobody
touched. *Lifecycle*: a verdict is only ever taken on the edit the attack
describes; a failure of the harness is an error or n/a, never a pass. *Engine*: a
reported sequence really served an altered memory, none of its moves lands alone,
and a store with no hole has no finding. *Vendor adapters*: an edit hits the row
that was read, and the published cells follow from what each store checks.
*Semantic attacks*: a cell is safe only if, in the same trial, the store answered
the victim and kept the attacker out; the hunt finds what the scorecard scores.
*Pipeline*: what is published was measured, with the versions it names; a job that
passes accepted nothing. *Verifier*: an accepted store is one signed branch that
agrees with its anchor. The hazards behind these, each at its line with the
properties that cover it, are in `PROJECT.json`.

## 2. Modules

    TamperEvidentLog          what a tamper-evident store promises
          ^ implemented by
    ReferenceStore  --------> RefStore  (operators)  <----+
          ^ proved in                                     |
    ReferenceStoreProofs                                  |
    OpenFang -------------->  AuditChain (operators) <----+
          ^ proved in                                     |
    OpenFangProofs            PlainTable (operators) <----+-- Adapters
                                                          |      ^
    VendorRun --> EvidenceStores --> FrameworkStores <----+      |
                                         |               AttackRun, Compose
                                     VendorTable                 |
                              AtRestEdits (operators) <----------+
    AttackRun       <- proved in - AttackRunProofs
    VendorRun       <- proved in - VendorRunProofs
    Compose         <- proved in - ComposeProofs
    SemanticAttacks <- proved in - SemanticAttacksProofs      (SemanticStores)
    Pipeline        <- proved in - PipelineProofs
    AnchoredChain   <- proved in - AnchoredChainProofs

The stores are written as operators on a record, so that one definition of
`append_genuine` serves three state machines: the store on its own under every
edit, the same store under the attack lifecycle, and under the engine. A
third-party store serves two, its own and the lifecycle.

- **RefStore / ReferenceStore** (`reference_atrest.py`). `db.rec` and `db.head`
  are the two tables, `db.witness` the process's `_witness`. One action per
  method; `Verify` keeps the order of the checks of `verify()`. History:
  `genuine` (the links acknowledged) and `edits`.
- **TamperEvidentLog**: a log and the answer a reader gets, which is the log or
  a refusal; a write never turns a refusal into an answer. No chain in it.
- **AuditChain / OpenFang** (`openfang.py`). `strict` is the adapter's
  `strict_tip`, both values are explored.
- **PlainTable** (`tests/test_guard.py`): the store that checks nothing, with the
  ways in which that file's broken adapters go wrong.
- **Adapters**: the contract as a dispatch over 28 kinds of adapter (reference;
  `forgetful`, the reference store that drops its witness on reload, of
  `tests/test_compose.py`; openfang; openfang_strict; plain; 23 of third-party
  stores), the calls each refuses, and `Misfires`, what a broken adapter may do
  instead of a call.
- **AtRestEdits** (`at_rest.py`, `guard.py`): each edit is a `Plan`, the sequence
  of adapter calls of its tamper step, and a `Landed...` check.
- **AttackRun** (`attacks/base.py`): one action per line of `run()` that calls
  the adapter, one per call of the plan, `Raise` for the except clause, `Teardown`
  for the finally clause and `TeardownRaises` for an exception swallowed there, which
  leaves the store as it is for the next run's setup. Attacks are started in any order, more than
  the lists of the runners do. The ghost `ideal` is the store a faultless adapter
  would hold after the same calls.
- **Compose** (`agent/compose.py`): every move alone, then every sequence none of
  whose moves landed alone. Each sequence runs on a fresh target, so a behaviour
  follows one sequence to its verdict.

- **VendorTable / FrameworkStores / EvidenceStores / VendorRun** (the adapters of
  third-party stores). Every adapter edits a table of rows; what differs is written
  as a profile (which fields a write puts there, how an ordinal finds its row, what
  names a forged row, whether a pointer names the latest) and, where the store keeps
  evidence, by operators of its own: a chain, a chain with its head kept elsewhere,
  a log and checkpoints, a signature per entry, a watcher's digest, a sidecar.
  `s.book` is what the tool keeps in the store beside its rows, `s.held` what is kept
  where no copy of the store reaches, `s.memory` what the process remembers. CrewAI's
  adapter takes a write past its list of names as one row more (`Inserted`), so that a
  second forgery, or a write to a forged row, puts a row of a name already there; as
  readings, updates and deletions go by name, and of two rows of a name a reading keeps
  the last put, the rows of one name are one row in the model. The packages themselves
  are modelled from what the adapters rely on. `VendorRun` lets edits, genuine writes,
  copies, restarts and scans come in any order.
- **SemanticStores / SemanticAttacks** (`memory_specific.py`, `hunter.py`,
  `semantic_base.py` and the stores behind it). A store is a profile: whom it
  serves, how it ranks and what it holds too far off, whom it trusts, whether it reads
  the text, what its filter and its reset do. Letta's agents are kept as the adapter
  keeps them (`agents`: how many were made, and whose is whose since the reset): each
  call finds or makes the user's, a write goes into its archive, a search reads that
  archive and no other, and a reset forgets them and deletes nothing. `SemanticAttacks`
  runs an attack call by call, as scored and under mutation, and then the two hunts for
  it, against one adapter object; any call to a store outside the process may raise.
- **Pipeline** (`check.py`, `full_runner.py`, `merge_rows.py`, `render.py`,
  `at_rest_hunt.py`): results, the words for them, the results file of two
  environments, merging, comparing and the exit code.
- **AnchoredChain** (`anchored_chain.py`): the six checks in their order, as operators
  on a store and an anchor. The producer, the holder of the anchor key and the editor
  of the files are outside `src/`; their actions are the honest cases and the edits of
  the corpus in `tests/vectors`, here in any order and from any honest store.

Abstractions. HMAC-SHA256, SHA-256 and signatures are symbolic and injective: the
tag of a row *is* the sequence of links hashed into it, and the one who edits files
has no operator that makes a tag, only ones that copy. For the reference store this
is the secrecy of its key. OpenFang's hash has no key; the model, like the edits of
the suite, never recomputes it, so nothing here speaks of someone who would; the same
goes for the unkeyed chains among the third-party stores.
A record's text is a kind and a number. SQLite transactions are atomic, as the
adapters commit once per call; copying a file is one step, as the tool is closed.
The verdict's wording, `verify_detail` and the reproductions are left out.
PlainStore has no snapshot hooks; in the model it gets the plain reading of the
contract (`adapters/base.py:196-212`), so that T9 is scored on it too.
In `VendorRun` a copy is taken of a store not edited yet; the row CrewAI's insert copies
its other fields from, the first the table gives, is any of the context's (LanceDB moves
rows it updates); and a genuine write is made only where the store's package lets it (a
refused store of some of them raises).
In the semantic model a text is the number of words it shares with a question,
counted from the fixtures of `memory_specific.py`, and mutated texts are one variant
beside the base. The lexical stores rank by that number, ties to the older memory. The
stores that rank by an embedder (LangGraph's, Letta's and the two of Mem0) may answer
with any of the memories they hold, as many as asked for, or with any fewer where there
is a floor (Mem0's 0.1); one ranking for the control does not bind the next, and hits
that differ in number only are told once. So nothing is claimed of what an embedder
decides: those cells (all of Mem0's, the hijack of the other two) are scored in one
pass, under mutation, over two fixtures, and not hunted. A retrieved text is looked for
by its fixture's key, as the code does. `supports_users` is not asked: every adapter
answers TRUE.
In `Pipeline` one attack stands for each family, and `agmi-check`, which reads no
results file, runs before there is any.

## 3. What the runs check

Deadlock is not checked where a bounded number of changes or runs, or a sequence's
verdict, really ends the work (AttackRun, Compose, VendorRun, AnchoredChain).

| run | instance | states | properties |
|---|---|---|---|
| `reference_store` | 1 seeded row, rows 0..2, 3 raw edits | 161,939 | `TypeOK`, `ServedIsGenuine`, `NoFalseAlarm`, `NoLaundering`, `WitnessMovesForward`, `IsTamperEvidentLog` |
| `openfang` | 2 seeded rows, rows 0..3, 3 raw edits | 219,602 | `TypeOK`, `ServedWasWritten`, `UneditedIsNewest`, `OnlyTheTailGoesUnnoticed` |
| `attack_broken_adapter` | 4 records, 2 runs, a plain store that may misfire and lie | 7,797 | `TypeOK`, `VerdictIsEarned`, `ErrorMeansMisfire` |
| `attack_stores` | 26 kinds of adapter, 5 records (the suite's own `seed_count`), 3 runs on one adapter object | 44,987 | `ScoresAsPublished`, `EveryRunReports` |
| `compose` | 5 kinds of store, 5 records, every sequence of length up to 4 | 238,337 | `TypeOK`, `LandingIsReal`, `FindingsNameTheHole` |
| `vendor_run` | 23 kinds, 2 seeded rows, 2 raw edits and 2 genuine writes, 3 of both together | 383,123 | `TypeOK`, `AcceptedWasLeft`, `AcceptedIsNewest`, `AcceptedRowsAreSigned`, `LatestIsLast`, `OnlyTheseLaunder`, `AppendOnlyAdds`, `EditsHitTheirRow` |
| `anchored_chain` | 2 texts, at most 4 lines, 5 records signed, 2 edits | 2,597,216 | `TypeOK`, `VerifiedIsABranch`, `VerifiedIsAnchored`, `ReasonsMatchTheCorpus` |
| `semantic_attacks` | 16 stores, 6 attacks, 5 fixtures (2 where an embedder or chance decides), 0 or 6 fillers, 2 failures, 1 reset failing unseen | 1,759,213 | `TypeOK`, `SafeIsEarned`, `ServedIsOfThisTrial`, `ResultsAsPublished`, `ScoredIsFound` |
| `pipeline` | 2 tools, 2 versions of the attacks, files of up to 3 rows, 3 edits in a check | 48,556 | `PublishedWasMeasured`, `AgreedCellsAgree`, `PassingJobAcceptsNothing`, `MergeReplacesInPlace` |
| `compose_rollback` | as `compose`, the forgetful store, length up to 3 | violated | `RollbackLands` |
| `compose_metadata` | as `compose`, the plain store, length up to 2 | violated | `ChangedStoreLands` |
| `pipeline_compare` | as `pipeline`, 1 edit | violated | `ComparedLikeForLike` |

*Reference store.* A store that verifies holds exactly the acknowledged rows,
whatever interleaving of edits, copies, restores, writes and re-use led there; a
store nobody edited never raises an alarm, although the witness of the last run
is still in the object; an API call never turns a refused store into an accepted
one, which is the defect `reference_atrest.py:111-117` says the engine once
found; and the store implements `TamperEvidentLog`.
Two genuine writes and three edits are enough for the cases that differ: a copy
taken before, between and after two writes and put back, a truncation to the
empty table, and a swap, all with a write after them. The size of the seed does
not matter to the actions, and `ServedIsGenuine` is proved for every size.

*OpenFang.* Its promise is weaker and the properties say by how much. With the
tip checked, what is served is some chain the API hashed (not necessarily the
last: a restored copy, or a shortened chain that was appended to); without it, a
prefix of one. Row edits alone can change the answer only by cutting the tail of
the chain before the fix, the finding `tests/test_openfang.py` pins.

*Lifecycle.* The broken adapter may raise at any call, lose it, or do it to
another row, and `verify()` may answer anything. Still a cell is `safe` or
`VULNERABLE` only when both controls held and the store is, row by row and in
both contexts, what a faultless adapter would have left, and an `ERROR` cell is
always some call's fault. One thing is left open by the landed checks and so by
the property: a replay need not copy the donor's metadata. Four records are the
fewest for which middle, neighbour, newest and oldest are all different rows.
With the real stores and the third-party ones, the published cells come out
(`README.md`, the scorecards and `tests/test_snapshot_rollback.py`: the reference
store catches all nine, OpenFang misses `truncate` and T9, after the fix T9 only,
and each third-party store misses what its evidence does not cover), in any order of
runs and with any failure in between, the store left behind by a teardown that raised
included: `base.py:135-139` swallows that exception, so a run reports (`EveryRunReports`)
but does not always clean up, and it is the next setup that must not see the leftovers.
`forgetful` and `plain` are left out of this run: no scorecard publishes cells for them.

*Engine.* A landing always serves something other than what the API
acknowledged. Nothing lands on the reference store; on the forgetful store every
finding has a restart in it; on OpenFang after the fix every finding is a
truncation with a genuine write after it. The last is true at five records, the seed
of `compose.py:103`, and not of every seed: with two records the engine also reports
`reorder, write, reorder, delete_middle`. At length up to 3 the model's findings
are, sequence by sequence, those of running `compose()` on the same adapters: 5
on the forgetful store, 9 on OpenFang after its fix, none on the other two.
(`tests/test_compose.py:8-9` calls the forgetful store vulnerable to "exactly one
sequence (restart, then edit)"; of length two it is `rollback, restart`.)

*Third-party stores.* What a store accepts, it was left by its API: a chain is the
first rows of some version, a digest of the whole file exactly one version
(`AcceptedWasLeft`). Where the head is kept out of the copies' reach it is the newest
version (`AcceptedIsNewest`). The watcher of memory-blackbox records what a scan finds
as the new baseline, so a version there is also what a scan took; with a restart
between, it accepts an edit it never saw, and is left out of `AcceptedIsNewest`.
Four stores take an edit for good after a genuine write: they rebuild the file from
memory, sign whatever head is there, end in a scan, or put the new entry on the
altered one. `OnlyTheseLaunder` says that these are all, and each in which state.
CrewAI and mem0 count in a list of names rather than in the rows present, so after a
deletion an edit hits another row than was read; `EditsHitTheirRow` holds for every
other store, and for these two until that list and the rows part.
Names stay distinct through all of it, copies included, which is proved (section 4).
Two seeded rows give a first and a last row, and a deletion from either end, and
three changes an edit, a write and an edit of what came of them.

*Anchored chain.* A verified store is one branch, every line signed on top of exactly
the lines before it, and up to its anchor it is what the anchor was taken of; each
edit of the corpus, made to any honest store, gets the corpus's decision and reason.
Four lines hold a tail of two after the anchor and a branch beside it; two edits
include an edit of an edited store, on which the first failing check differs.

*Semantic attacks.* A cell is safe only if on every channel, fixture and variant the
store answered the victim and kept the attacker's memory out (`SafeIsEarned`), also on
a store that answers anything, fails closed, ranks as it likes, or raises at any call.
What a store serves was written in the same trial (`ServedIsOfThisTrial`). For Letta,
whose passages stay in the database for good, that rests on its agents: with a reset
that keeps them the run finds a passage of the last trial served. The exception is mem0
after a deletion that failed unseen (`mem0_adapter.py:71` swallows it).
`ResultsAsPublished` compares the fixtures that fell, channel by channel, with
`docs/scorecard.md`, in the cells no embedder decides; in those it only says that no
user is served another's memory. And the hunt over the same texts agrees with the scorecard, except
on the two stores made to separate their oracles: one that rewords a memory taken to
be an instruction (`hunter.py:164` counts it whatever it now says) and one that
ignores a filter it was handed (`hunter.py:212` has no negative control), although
`hunter.py:19-21` says the oracle is the scorecard's. Six fillers fill the answer
beside a genuine memory (an attack asks for at most 5); two failures are one that raises
and one that leaves something behind; two fixtures are this one's memories beside
another's.

*Pipeline.* Each row of a file was measured with the versions in its header, through
merges and updates of either checkout; a comparison without a difference compared
cells that agree, the harness's own errors included; a check that exits 0 had no edit
accepted, or was told to record only.

*Three disagreements.* `RollbackLands`: `compose.py:125` compares the length of the
memory served with the length seeded and does not set the sequence's own writes
aside. After `write, rollback, restart` on the forgetful store the record the
rollback took is gone, the store vouches for itself, and `_lands` calls the
memory intact; its comment says such a loss is a landing. `ChangedStoreLands`:
`compose.py:20-22` says a sequence lands when the store changed, verify() is True
and the landed controls held; the code compares payloads only and runs no
control, so an accepted metadata edit does not land. Both were confirmed by
calling `_lands` on the real adapters. `ComparedLikeForLike`: `render.py` compares
labels and statuses and never the `attack_versions` of the two files, though
`README.md:340` and `attacks/base.py:42-44` say that cells are never compared as if
the attack had stood still.

*Smaller divergences met on the way.* Edits not evaluable beside rejected ones exit 0
(`check.py:145` against `README.md:121`). A label named twice that the base file lacks
is appended twice (`merge_rows.py:48`); `MergeReplacesInPlace` says what becomes of the
two rows. The controls of the update and bleed attacks come before the planted write,
while `memory_specific.py:103-107` says after. `report.py:25` says "kept out" of a hunt
whose controls failed. An exception in one hunt loses the findings of those before it
(`hunter.py:247`). `defended_memory.py:133` looks a hit up by its text. `README.md:76-77`
gives 1 and 2 of 5 for the hijack and the prompt injection of the two inspeximus rows
with a trust root, where `docs/scorecard.md:242-258` gives 5 of 5, as the code and its
fixtures do.

*Fairness.* Only `EveryRunReports` needs any: `WF_vars(Step)`, a run that has
started takes its next step. The harness is one sequential program and each
adapter call returns or raises, which are the steps of the model. No fairness is
put on starting runs, nor on a call succeeding: `Raise` competes with every step.

Each property of a passing run has a mutant: a definition of the code changed as
a plausible bug would change it, with which TLC finds the property violated.

## 4. What is proved

*Reference store, what it vouches for.* `ReferenceStoreProofs` proves, for every
`SeedCount >= 1`, `MaxSeq >= SeedCount` and number of edits:

- `TypeCorrect`: `Spec => []TypeOK`;
- `VerifiedIsGenuine`: `Spec => []ServedIsGenuine`;
- `WitnessForward`: `Spec => WitnessMovesForward`.

`ServedIsGenuine` is not inductive: it says nothing of a store that does not
verify now and may after the next restore. The invariant that is inductive,
`IInv`, says nothing of the rows at all: the witness of a seeded store names the
whole acknowledged log (`Witnessed`), the log is numbered from 0 (`Numbered`),
and before the seed there is no head to accept (`Unseeded`). No raw edit touches
these. `IInv => ServedIsGenuine` is then the argument that the design of the
store rests on: if `Verify` holds, the last row carries the witnessed tag, and
going down from it, each row's tag is the one before it plus its own link
(`GoodStep`, `AllGood`), so the rows present are 0 to the head without a gap and
each is the acknowledged one. The induction is by least counterexample
(`LeastNat`), as the library's induction theorems are out of reach of the provers
used.

*Reference store, what it promises.* The second half of `ReferenceStoreProofs` proves
the rest of what its run checks:

- `UneditedNeverRefused`: `Spec => []NoFalseAlarm`;
- `WritesNeverLaunder`: `Spec => NoLaundering`;
- `ImplementsTheLog`: `Spec => IsTamperEvidentLog`.

They need to know what is on disk after all: `JInv` adds to `IInv` that the tables
are empty before the seed (`Fresh`), that a head on disk or in the saved copy names
the first k acknowledged links, for some k, with no row there of a longer tag
(`Covered`), and that an unedited store holds the log row by row (`Clean`). The store
takes a write only onto a row that carries the witnessed tag, the whole log; by
`Covered` the head on disk is then the newest one too, so the only thing that can be
wrong is a row below, which the write leaves wrong. Each step of the store maps to a
step of the abstract log: a write to a write, an edit to a change of the reader's
answer between the log and a refusal.

*OpenFang*, both versions, every size (`OpenFangProofs`):

- `AuditTypeCorrect`: `Spec => []TypeOK`;
- `AuditServesItsOwnWrites`: `Spec => []ServedWasWritten`;
- `AuditUneditedIsNewest`: `Spec => []UneditedIsNewest`;
- `AuditRowEditsCutAtMost`: `Spec => OnlyTheTailGoesUnnoticed`.

The inductive invariant: the files and the saved copy carry only hashes the API made
(`Written`), nothing is there before the seed (`Unwritten`), and an unedited store is
whole (`Untouched`). The hash of a row says all the rows up to it, so a chain that
walks is told by the last hash alone, and two chains that end alike are one.

*Anchored chain*, for all texts and bounds (`AnchoredChainProofs`):

- `AnchoredTypeCorrect`: `Spec => []TypeOK`;
- `VerifiedPrefixIsAnchored`: `Spec => []VerifiedIsAnchored`;
- `VerifiedStoreIsABranch`: `Spec => []VerifiedIsABranch`;
- `EditsGetTheirReason`: `Spec => []ReasonsMatchTheCorpus`.

The inductive invariant `IInv`: every line with a good signature, in the store or the
copy, was made by the producer (its digest is among those signed), every anchor with a
good signature was vouched, and each vouched anchor was taken of one linked chain. As
the digest of a line says everything below it, the digest the anchor names settles
every line up to it. For the reasons `KInv` adds what an unedited store is
(`Unedited`: store and copy pass the checks of a line, the anchor is signed and its
head is held), and then, edit by edit, which of the six checks is the first to fail.

*Lifecycle*, every kind of adapter and every number of seeded records
(`AttackRunProofs`):

- `TypeCorrect`: `Spec => []TypeOK`;
- `VerdictsAreEarned`: `Spec => []VerdictIsEarned`;
- `ErrorsAreMisfires`: `Spec => [](kind = "plain" => ErrorMeansMisfire)`.

A verdict speaks of the edit only if the store holds what a faultless adapter would
have left. For an adapter that does not misfire this is `Twin`: store and `ideal` are
equal, and so are the copies a plan puts back. For the broken plain adapter nothing
about the store follows from the calls made, so the invariant says what may have
become of the table and no more: it is the seeded one until the edit (`PlainInv`);
between two calls of a two-call edit it is one of a few halves (`Begun`, `Halfway`);
after the last call each edit has its own list of what may have been lost or
misplaced (`Edited`). The heart of the proof is `EditLands`: for each of the nine
edits, a table that is `Edited` and passes the edit's landed check is the intended
one. It holds of every table size because a landed check compares every record of the
context with what was there before (and for T6, the only edit that has rows of a second
context in the table, those as well), not the edited ones alone.

`ErrorsAreMisfires` is the converse: a landed check turns down no edit that was made as
it should be. `IInv` cannot give it, for it says what a misfiring store may be left in
and not what a faithful one must be. `BlameInv` says that: while no call has misfired
the store is the ideal one, between two calls of an edit it is `RightSoFar` (the first
call's effect and nothing else), and after the last it is `Right`, one table for each
edit. `RightLands` then takes the nine landed checks one by one, at every number of
seeded records. For the other kinds of adapter, which never misfire in the model, the
same property would say that no edit fails to land; `ScoresAsPublished` says so of each
of them, and TLC checks it.

*Engine*, the project's own stores, every seed and every length of search
(`ComposeProofs`):

- `TypeCorrect`: `Spec => []TypeOK`;
- `LandingsAreReal`: `Spec => []LandingIsReal`, for any of the five own stores;
- `FindingsAreHoles`: `Spec => []FindingsNameTheHole`, for the reference store and the
  forgetful one.

The engine decides by length: it sets as many records aside at the end as the sequence
made writes, and for a rollback it asks only whether the memory is no longer than the
seed. `LandInv` therefore counts: the API has acknowledged the seed and one record for
each write and rollback made (`Kept`), which settles a sequence without a rollback, for
if the target served all of that, what is left of it is the seed. With a rollback it
must be shown that some record is missing. On the reference store and its variant, a
tag names as many links as there were writes at most (`TagsKept`), and a chain that
verifies has a longer tag for each row, so it serves fewer rows than were acknowledged
(`RefServesAtMost`). On the other three the rollback alone brings the seeded file back
whole and lands (`RollbackAlone`), and no sequence with it is searched.
For the findings, `Remembered` says that until a restart of the forgetful store the
process remembers exactly the log of what was acknowledged. A store that verifies then
serves that log (`RefServesItsLog`), which by `LandingIsReal` does not land.
What the eight edits, each up to three calls, may do to the reference store is told once
for all of them (`EditWithin`): no tag in it is new and the witness is left alone.

*Semantic attacks*, every set of stores and fillers, any number of failures
(`SemanticAttacksProofs`):

- `TypeCorrect`: `Spec => []TypeOK`;
- `SafeCellsAreEarned`: `Spec => []SafeIsEarned`;
- `NothingLeftOverIsServed`: `Spec => []ServedIsOfThisTrial`.

The inductive invariant has two halves. `Progress`: each fixture decided so far as
kept out, and each variant of the one in hand, has its trial among those whose calls
proved it. `StoreInv` speaks of the store: every memory is in the archive of an agent
that was made, and whatever a reset left is in none that somebody has now (`Allowed`);
when no attacker writes, all of it is the victim's; and once a control has held, the
answer it held on is the one served. The first half needs the last of these: a trial is
proved at its probe, on an answer the control gave some calls earlier.
`NothingLeftOverIsServed` needs the agents: an agent made since the reset has a number
none had before (`AgentsOK`), so no passage of an earlier trial can be in its archive,
and a search reads no other.

*Third-party stores*, every size of seed and bound (`VendorRunProofs`):

- `TypeCorrect`: `Spec => []TypeOK`.

That no two rows have one name, in the table or in the copy, is what has to be shown:
each adapter names a new row in its own way, CrewAI's by a fixed name that may be there
already. The invariant (`Fine`, and `Copied` for the copy) says that the names in use are
below the number given out in their context (except in ACRF's live context, where a
write under a name in use replaces the row), that a copy's names are below it too, or
below its own where putting it back puts the number back, and that mem0's history lists
every row it has (`Remembers`). A new name, the bound itself, is then used by no row.

*Pipeline*, every set of labels, any number of versions, rows and edits
(`PipelineProofs`):

- `PublishedAsMeasured`: `Spec => []PublishedWasMeasured`;
- `NoDifferenceMeansAgreement`: `Spec => []AgreedCellsAgree`;
- `PassingJobsAcceptNothing`: `Spec => []PassingJobAcceptsNothing`;
- `MergesInPlace`: `Spec => MergeReplacesInPlace`.

The inductive invariant: each row of a file carries its header's versions; the file
nothing is merged into has one row of each label; a comparison or an exit code shown is
that of the files or results it was made of. A file that was merged into may name a
label twice, with different rows; the comparison goes through all of its rows, and each
has one partner in the other file, which is why one side with distinct labels is enough.
`MergesInPlace` is proved for merges that name one label or two, the bound of the model;
files may be of any length.

Assumptions: the two contexts differ (and the two chains) and neither has the name
`none`, by which the landed checks know a record without an owner, at least one record is
seeded, sizes are as above, `NONE` and `REFUSED` are not rows, heads, tags or stores,
and no producer writes the altered text. TLC evaluates them in every run of the
modules. Injectivity of HMAC, hashes and signatures is not an assumption but the shape
of a tag.

Model-checked only:

- `ScoresAsPublished`, `ResultsAsPublished`, `ScoredIsFound`: they say how particular
  stores, plans and fixtures of the suite come out. Those tables are finite, and TLC
  goes through all of them; there is no size to generalise over;
- `LandingIsReal` for the third-party stores is not checked either (the engine is run on
  the project's own), and `FindingsNameTheHole` for OpenFang and the plain store holds at
  the seed it is checked at, not at every one (section 3);
- what the third-party stores accept (`VendorRun`, all but `TypeOK`): nine kinds of
  evidence need as many arguments, and that a chain says all that is below it is, for
  each, the induction made once for the reference store and OpenFang;
- `EveryRunReports`, a liveness property.

## 5. What is not modelled

- **Measurement tools** (`measure.py`, `embedders.py`, `embedding_endpoint.py`,
  `mem0_runner.py`, `mutations.py`, `replay.py`): timing, numeric similarity, HTTP and
  text, with no state worth exploring.
- **Site, paper and experiments**: page generation and one-off scripts.
- **The encrypted LangGraph checkpointer**: what it refuses is the cipher's doing; the
  rows it edits are those of the SQLite checkpointer, which is modelled.
- **Authorisation, reports, command lines, Markdown**: input and output around the
  parts above. The hunt's report object is left out with them, so an exception that
  loses earlier findings is listed as a hazard and covered by no property.
- **Inside third-party packages**: only what an adapter relies on is modelled. That the
  package itself does so is what the suite measures, not what it decides.

The upstream OpenFang program in Rust is not in the repository; the module models
the adapter that reproduces its audit log.
