# A specification of DecisionLedger

DecisionLedger is a decision system of record with a gating service. Reasoners
submit decisions about subjects; the ledger validates each submission, asks
who its subject is, runs the decision's gates, enforces deterministically and
writes an immutable bundle that can be replayed. This directory holds TLA+
modules of the parts whose correctness depends on order, concurrency and
failure, the TLC configurations that check them, and theorems that TLAPS
proves about them.

`PROJECT.json` is the machine-readable index: components, runs, mutants (one
plausible bug per checked property), the source lines of every definition,
findings, hazards and theorems.

Contents: [inventory](#inventory), [modules](#modules),
[runs](#runs-and-what-they-show), [findings](#findings),
[fairness](#fairness), [proofs](#proofs),
[abstractions](#abstractions-and-what-is-not-modelled), [plan](#plan).

## Inventory

The ledger is one process (`docs/design/architecture.md:32`): an asyncio event
loop with worker threads, over PostgreSQL. Paths are relative to `src/`.

| Component | State | Operations | What is hard | Correct when |
|---|---|---|---|---|
| Enforcement (`app/enforcement`, `core/gate/combinator.py`) | none (pure) | resolve a gate output, resolve a decision, credit a rule | the novel-entity tier *replaces* advisory verdicts; skipped gates; competing bypass rules | fails closed; adding a gate never relaxes; skipping changes nothing; the credited rule set the action |
| Submission contract (`core/submission.py`) | none (pure) | validate, effective gate set, evaluate bypass rules | the contract refers to the registration served at that moment | a decision is enforced under exactly the registration it cites |
| Decision pipeline (`app/submit.py`) | decisions in memory | intake, identity, mandatory gates, advisory gates, enforce, write | awaits between every two steps; cancellation; failed writes; crashes | complete gate records, deterministic replay, every accepted decision ends |
| Gates seam (`app/gates.py`) | composed gates | build, admit a gate set, invoke under a budget, verify evidence | timeouts, unusable outputs, what a gate remembers of an admission that failed later | any failure holds the decision; a restart admits what was admitted |
| Identity step (`app/identity`) | none | identify, resolve | a resolver that hangs, raises or answers out of contract; registrations replaced meanwhile | never fails a decision, and names the subject the submission is about |
| Store and replay (`app/audit/store.py`) | `decision_bundles`, `replay_logs` | write, write_many, load, replay, timeline | same `decision_id` submitted again; snapshot lookup; pages read while rows are written | bundles never change and always replay; a timeline misses and repeats nothing |
| Registry and registrations (`app/reasoner_registry.py`, `app/api/registrations.py`, `app/audit/registrations.py`, `app/bootstrap.py`) | `reasoner_registrations`, `reasoner_registry`, the served map | bootstrap, PUT, snapshot | two writers; failure or crash between row and swap; restart under changed configuration | what is served is snapshotted; restart accepts what was accepted |
| Resolution (`app/api/decisions.py`, `app/audit/resolution_journal.py`) | `decision_resolution_attempts` | resolve | check, read, insert, read are separate statements | realized once; receipts stand |
| Identity journal (`app/audit/entity_journal.py`, `core/identity.py`) | `entity_events`, `entity_membership` | append, rebuild, record a decision's relationships, walk | a derived table written by two paths | no link lost; rebuild restores |
| Decision routes and clients (`app/api`, `app/client.py`) | requests in flight | create, batch, lookup, verify, resolve, timeline | a batch decides concurrently and writes at the end; answers are lost | what a client reports is so |
| Evidence escrow (`app/audit/artifacts.py`) | content-addressed artifacts | put, get, held | verification reads three places one after the other | citations stay provable |
| RAG gate, retriever, corpus loader (`gates/policy_rag`) | Postgres corpus, Elasticsearch index, advisory locks | load, retrieve, fuse, escrow, verify | two stores loaded one after the other, under readers and other loaders | settled stores agree; a citation is provable; a change reported is real |
| Rules gate and predicates (`gates/rules`, `core/gate/predicate.py`) | rule sets, loaded once | evaluate | fail-closed on what cannot be evaluated; a boundary in two files | a record keeps the action its rule justifies |
| Login stream (`reasoners/account_takeover/.../ingestion`) | Redis stream, pending lists, dedup keys, dead letters | read, check, acknowledge, decide | at-least-once delivery, expiring keys, process death at each step | at most one decision per event, nothing rejected silently, nothing pending for ever |
| Login features (`.../feature_service.py`) | Redis windows per account | compute | the read and the write are two pipelines, neither a transaction | a login knows every login that ended before it began |
| Stream mock (`reasoners/mock_stream`) | event source, windows, the decisions it made | publish, observe, decide, reset, drain, replay | watermark, bounded deduplication, retention, a queue that survives a reset | transfers are scored over their whole window; duplicates are dropped |
| Batch and daily mocks | a day's run | plan, send, report | lines rejected, answers lost, a run that stops part way | the report and the exit code are true; no row is decided twice |
| Evaluation harness (`eval`, the reasoners' drivers) | the driver's stream and windows, its lock | run, run_event, reset, sample, report | two dimensions run concurrently on one driver, a third must wait for both | an ordering is measured alone; a pass was earned |
| Authentication (`app/auth.py`) | a key ring | require submitter, operator | one key of two owners | only a reasoner's key writes its decisions |
| MCP server, settings, schema, monitoring | none | translate, configure | nothing concurrent | not modelled |

How they interact: a reasoner reaches the pipeline through the API or in
process; the pipeline reads the registry once, calls the identity step and the
gates, calls enforcement, and writes to the store; the store's write feeds the
membership projection, which the identity journal rebuilds and timelines walk;
replay reads the store and the registration snapshots; operators resolve stored
decisions. The policy gate reads what the corpus loader, a program of its own,
writes, and puts what it cites in the escrow, which verification reads. The
stream consumers and the mocks are clients of the pipeline. Everything shared
is either the process's memory (the served map, under a lock for writers) or a
table, an index or a Redis key.

## Modules

| Module | Models | State and actions |
|---|---|---|
| `Enforcement` | the resolver and combinator | pure operators under the names of the code (`resolve_gate_output`, `advisory_side`, `bypass_rules`, `resolve_decision`, `credited_rule`, `most_restrictive`) |
| `EnforcementCases` | one decision through them | gates end one by one in every way; then `Decide` |
| `ReasonerRegistry` | registry, PUT, bootstrap | `snapshots`, `rows` durable; `served`, `lock`, `writers` in memory; `BuildRegistry`, `RecordSnapshot`, `FinishBootstrap`, `AdmitPut`, `SavePut`, `FailPut`, `SwapPut`, `Crash`, `Configure` |
| `RegistrationBook` | what the registry promises | one book, open or closed; implemented by `ReasonerRegistry` (`BookSpec`) |
| `GateAdmission` | the gates' side of a registration, and the keys | what the policy gate remembers (`gate`), the gates asked one by one at start-up and by a PUT, templates under an editable root, corpora; one gated decision from `SubmitGated` to `Render` |
| `IdentityStep` | `identify` | pure operators: whom the active resolver may answer for, what of an answer is used, the fallback from the registration |
| `DecisionPipeline` | `decide`, store, replay | extends `ReasonerRegistry`, `Enforcement` and `IdentityStep`: a decision's stages between awaits, gates ending in any order, `Cancel`, `FailWrite`, `PipelineCrash`, `Replay`, beside every registry step |
| `ResolutionJournal` | the resolution route and its journal | `chain` durable; each request's position; `Check`, `ReadSequence`, `Record` or `Conflict`, `Receipt`, `Crash`; `Open` for other resolver kinds |
| `Realization` | what it promises | a decision is realized at most once (`RealizedOnce`) |
| `EntityJournal` | journal, projection, decisions' relationships | `events`, `membership`, the table lock, transactions statement by statement, `project_membership` as a fold |
| `Timeline` | the timeline route | the walk over merges and one relationship, statement by statement, then the list; pages by cursor, while decisions are written and intervals begin and end |
| `CorpusLoad` | the corpus loader | chunking, ids, spans and manifest as operators; a load under its advisory lock, one action per statement of Postgres and call of Elasticsearch, failing anywhere |
| `Retrieval` | ranking within one corpus | dense and sparse ranking, filters, reciprocal rank fusion, the check against Postgres |
| `PolicyEvidence` | the policy gate's evidence | extends `CorpusLoad` and `Retrieval`: an evaluation corpus by corpus (`describe`, `DenseSearch`, `SparseSearch`, `ReadHeld`), the escrow, the verification of stored and live evidence |
| `Selection` | comprehensions with a condition, `dict.update` | pure operators: the positions kept, in order, without recursion |
| `Predicates`, `RulesGate` | predicates, rule sets | pure operators with missing keys, mismatched types and every fail-closed outcome |
| `DayRuns` | batch and daily mocks, the client and routes under them | `wire` is the request in flight, `run` what the mock knows; each request may fail before or after it wrote, each answer be lost; registration, key and rule sets may be wrong |
| `Evaluation` | the evaluation of a reasoner | the driver's `state` and `lock`, one action per event of an ordering and per call of a robustness case, the second wave, the exit code; extends `Enforcement` |
| `TransferStream` | the stream mock's service and a replay | `source`, `windows`, `processor`; `Produce`, `Consume` and its failures, `reset_stream`, `Close`, `Restart`; the replay's `PostChunk`, `Poll`, `ListDecisions`, `Summarize` |
| `LoginFeatures` | the account-takeover feature service | each process's read and write pipeline, command by command, retried or dead at any of them |
| `LoginStream` | the consumer group | `published`, `delivered`, `pending`, `keys`, `acked`, `dlq`, `decided`, each instance's run |
| `PipelineProofs`, `EnforcementProofs`, `JournalProofs`, `LoginProofs`, `StreamProofs`, `PolicyProofs`, `DayProofs` | | theorems and proofs |
| `Iteration` | | lemmas the proofs share: recursions on a prefix, folds over sequences and finite sets, lists of the members of a set in order |
| `MC*` | | constants of the bounded instances |

Atomicity follows the code: one action per database, Elasticsearch or Redis
statement, per critical section of the registry's lock, or per stretch between
two awaits. Every action's comment, and `map` in `PROJECT.json`, names its
code. An operator named `X_Y` beside an action or operator `X` is a plausible
bug of `X` (`AdmitPut_Unlocked`, `Check_NoLateness`); no specification uses it,
and it is there so that the property it breaks is known to be able to fail.

Four MC modules hold two systems that share no state, of which the initial
state picks one (`activity`, or a side that starts empty): registry and gate
admission, journal and timeline, stream mock and login features, day runs and
evaluation. Each part is complete on its own; putting them in one instance
only shares the run.

## Runs and what they show

| Run | Instance and bounds | Shows |
|---|---|---|
| `enforcement` | 6 registrations, 2 evidence values, 11 gate outcomes, at most 1 mandatory and 2 advisory gates | `FailClosed`, `AddingAGateNeverRelaxes`, `SkippingIsSafe`, `ReproducesSinglePass`, `CreditExplainsAction`, `RecordedFloor` |
| `reasoner_registry` | 2 reasoners, 3 versions, 2 concurrent writers, an unserviceable version and two disagreeing pairs; or 2 reasoners at the gates, directories that may hold the same template ids, provenance levels 1 and 2 of one corpus | `ServedIsSnapshotted`, `RestartIsAccepted`, `BookSpec`; `RestartAdmits`, `AuthorizedIsRendered` |
| `decision_pipeline` | 1 decision, 1 reasoner with 2 versions that differ in every field enforcement and identity read, 3 gates (one mandated and deterministic, one not composed), 7 submissions, 8 gate outputs (3 of no use), 5 resolver answers (4 of no use) | `ReplaysMatch`, `GateSetCovered`, `SubjectIsNamed`, `BundlesImmutable`, `AcceptedEnds` |
| `resolution_journal` | 2 decisions (held, blocked), 2 requests, 1 other resolver | `ChainHasNoGap`, `ReceiptsStand`, `RealizedOnce` |
| `resolution_conflict` | 1 decision, 2 requests | violation of `ResolvedOnce` |
| `entity_journal` | 1 link, 2 decisions, 2 transactions, 2 instants, 2 events; or a timeline in pages of 1 over two merges and a group | `FoldIsLastWord`, `NoRelationshipLost`, `RebuildRestores`; `TimelineIsWhole` |
| `entity_drift` | 1 link, 1 decision, 1 transaction | violation of `ProjectionIsFold` |
| `login_stream` | 2 instances, 4 messages (a duplicate, a malformed one), clock 0..1, batches of 2, 1 failure | `AtMostOnce`, `NoSilentRejection`, `OneLossPerFailure`, `MessagesHandled` |
| `evidence` | 2 corpora, one reloaded up to twice by 2 loaders, 3 editions of a document; searches of quota 2; an index of the present or the old mapping | `StoresAgree`, `CitationsAreProvable`, `ChangesAreReal` |
| `stale_index` | the same with 1 load | violation of `PostgresIsAuthoritative` |
| `day_runs` | days of 3 rows in chunks of 2, 3 rule-set directories, another registration or none, a key that may not write, 2 faults; or 6 reasoners' drivers over 6 datasets, 3 installations, 1 decision recorded elsewhere | `ReportIsTrue`, `OperatorKnows`, `OneDecisionPerRow`, `RecordsKeepTheirAction`; `OrderingsAreAlone`, `PassIsEarned` |
| `account_windows` | 3 transfers of one account, 5 deliveries, deduplication of 2, a replay of 3, 1 reset, 1 restart; or 3 logins over 2 processes, 3 computations, windows of 1 and 3 | `ScoredExactly`, `DuplicatesAreDropped`, `MissingIsStored`; `FeaturesKnowThePast` |

`BookSpec` is a refinement (`ReasonerRegistry` implements `RegistrationBook`),
`RealizedOnce` another (`ResolutionJournal` implements `Realization`),
`BundlesImmutable` an action property, `AcceptedEnds`, `MessagesHandled` and
`RebuildRestores` need more than one state; the others are invariants. The type
invariants of the registry and the journal are proved rather than run.

Why the bounds are enough. *Enforcement* reads of the gates only the set of
mandatory actions, the set of advisory rules and actions, and, for the credited
rule, the first gate at the final action; two advisory gates tell "all", "some"
and "none" apart. *Registry*: two writers are what the lock separates, and a
third version is what lets the other reasoner disagree with one write and not
with another; at the gates, two reasoners are what one template id can be taken
by. *Pipeline*: two decisions share nothing but the registry and the
store (a bundle row is its own), which one decision meets in every state through
the registry's steps; a second decision multiplies the states and adds no
interaction. *Resolution*: the races are between two attempts on one decision;
the third resolver is one that does not ask whether the decision is realized.
*Entity journal*: links are independent in the fold and in the unique index, so
one link suffices; two instants give before, at and after, with the position
in the journal breaking ties. *Timeline*: a merge of a merge is the shortest
walk that takes two steps, pages of one put a boundary between every two rows,
and two rows share an instant. *Login stream*: the key's life (1) is one longer
than the lateness (0), the smallest difference that the code's argument needs,
and the clock runs past both. *Evidence*: two loaders of two corpora are what
the index, shared by both, and the lock, one per corpus, bring together; two
loads of one corpus put each edition before, between and after the searches of
an evaluation. *Day runs*: a chunk and a half make a first and a last batch,
and the rows stand in every band of the score, at its boundary, and on both
sides of the tolerance and at it. *Evaluation*: the scenario's orderings differ
in the order of what the windows read, and robustness may stand at any of its
calls when an ordering begins or ends. *Stream mock*: three transfers are one
in the window, one late but accepted and one behind the watermark, and the
deduplication set forgets the first of three. *Login features*: two processes
are a read and a write that cross; a third login comes after both.

`CHECK_DEADLOCK FALSE` is set where the modelled system really stops: a
decision that was taken (`MCEnforcement`), all requests answered
(`MCResolution*`), the journal's bound of events and instants reached with all
decisions recorded (`MCEntity*`), a verification answered and the loads spent
(`MCPolicyEvidence`, `MCStaleIndex`), a run or an evaluation ended
(`MCDayRuns`), the deliveries or computations spent (`MCTransferStream`).

## Findings

1. **Two resolutions of one decision are both answered 201** (`resolution_conflict`,
   `app/api/decisions.py:657`). Request A finds the decision unrealized; B
   records attempt 0; A reads a chain of length 1 and inserts attempt 1. The
   docstring (`app/api/decisions.py:614-617`) promises a 409 for a decision
   already resolved or a concurrent resolution; the unique key refuses only two
   requests that read the same length. The realized action is still that of
   attempt 0, and A's receipt says so: `RealizedOnce` and `ReceiptsStand` hold.
2. **A decision can reopen a link that the journal closed** (`entity_drift`,
   `app/audit/store.py:264`). A decision resolves its subject's relationships;
   an `unrelate` with a later effective time is appended and folded; then the
   decision's second statement opens the link, because it only looks for an
   open interval. The fold says the link ended (`app/audit/sql/02_tables.sql:288-292`).
   The next rebuild repairs it (`RebuildRestores`).
3. **A hit can carry a jurisdiction Postgres does not hold** (`stale_index`,
   `gates/policy_rag/.../providers/reference.py:206`). `retrieve` keeps a hit
   when Postgres holds a chunk of its id with its text, and takes jurisdiction,
   version and span from the index. A load that retags a document and stops
   between the two stores leaves the old attribution in the index, and it
   reaches the prompt and the jurisdiction tier. The module says that Postgres
   is authoritative (`reference.py:15-17`). The next completed load of the
   corpus repairs it (`StoresAgree`), and what is cited is provable all the
   same (`CitationsAreProvable`: text and span are verified).

## Fairness

`FairPipelineSpec` asks weak fairness of a decision's own progress: the event
loop runs what is runnable, and a gate's or the resolver's budget expires
(`GateFails`, `PassThrough`). Nothing is assumed of an answer, a writer or an
operator. The budget is cooperative (`app/gates.py:758-850`): a gate that
blocks the loop, or never returns from its cancellation, is outside the
assumption and outside the code's promise. Without the deadline `AcceptedEnds`
fails, which its mutant shows.

`FairStreamSpec` asks that an instance that stopped is started again, that its
reads are not for ever forestalled by stops (strong fairness, one condition per
kind of read: a run may be stopped between any two reads), and that a run
handles the message it read. Failures are bounded by `MaxInterruptions`. The
code has no reclaim of another instance's pending messages, so an instance that
is never started again keeps its backlog: the first assumption is the
operator's, not the code's, and the property says what depends on it.

All other properties are safety properties, checked without fairness. None of
the other parts promises progress that is not its caller's to make: a run, a
replay, a load or an evaluation ends by itself or is started again by a person.

## Proofs

TLAPS proves the following for every value of the constants that satisfies the
named assumptions, each of which TLC evaluates in the runs above:
`RegistryConstants`; `AdmissionConstants` (a plugin's registration is declared,
and registrations are sequences of bindings); `EnforcementConstants`; `StoredActions`;
`MandatedIsComposed`, `SubmissionsAreKnown` and `SubmissionsHaveAMode` (the
contract's two modes); `StreamConstants` (the lateness bound is shorter than a
deduplication key's life, as the consumer's defaults are); `TransferConstants`
(natural windows, capacities, instants and amounts) and `FeatureConstants` (windows
within a day, an event id names one login); `JournalConstants` (finitely many
links, at least one instant) and `TimelineConstants` (a decision's id is a primary
key; an interval has two ends); `DayRows`, `DayConstants` (a row's fields are
numbers as the generators draw them) and `ShippedRules` (a ledger that starts has
the daily rule set as shipped, or not at all); `EvaluationConstants` and
`ShippedDatasets` (a scenario has orderings; orderings and cases have events);
`LoadConstants` (nobody is no loader; an index is absent, of an old mapping or
of the present one; an edition has finitely many files) and `EvidenceConstants`
(a natural quota; a binding is a non-empty sequence of corpora with natural
tiers, as its model demands).

*`PipelineProofs`*, the registry first. Its inductive invariant joins types with: a held lock
belongs to exactly the one writer that is not idle; while the process is up,
the map as the holder will leave it is admitted and the holder's version is
acceptable; what is served is what the tables hold, except the entry being
swapped; and no reasoner is both declared and stored while the process runs.
None of the safety properties is inductive alone: `RestartIsAccepted`, for
example, speaks of the rows, which change one step before the map does, so it
needs what the holder was admitted with. From it follow
`ServedIsSnapshotted`, `RestartIsAccepted`, the refinement `BookSpec`
(initial states map to initial states and each action to a step of the book or
a stutter), and four that no run checks because they are proved: the types,
`ServedIsAdmitted`, `ServedIsStored` and `DeclaredIsImmutable`.

Its second part is the pipeline, for any number of decisions, gates and
registrations. The invariant adds to the registry's: a decision in memory holds a version whose
snapshot exists (intake takes what is served, and what is served is
snapshotted); the gates that run and those that ended make up the gates asked
for so far; each record is what the resolver makes of the output it holds, or a
skip with its reason; the decision is what the resolver returns for the
complete records; and a bundle keeps all of this. Snapshots only grow, so a
step of the registry, of another decision or of a crash leaves it alone.
`GateSetCovered` is part of the invariant. `ReplaysMatch` needs one more
argument: recomputing a bundle evaluates the rules it stored against the
evidence it stored and the outputs it stored against the version it cites, and
each evaluation gives the part of the bundle it is compared with.
`BundlesImmutable` follows from the write, which keeps a row that is there.
`SubjectIsNamed` has an invariant of its own: a submission that waits for its
identity was checked at intake against the very registration the fallback
derives from, so that the fallback names the entity that was submitted, and an
answer is used only if it is usable; a bundle keeps what the identity step said.

*`EnforcementProofs`*. The invariant says that every record carries the
enforcement the resolver gives its output, that a recorded submission cites a
registered rule with its check and its competitors, and that a decision is what
the resolver returns for the records. `FailClosed` and `RecordedFloor` follow
from lemmas about the combinator: it returns one of its candidates, and one at
least as strict as each of them. Two conjuncts were added for the comparisons:
a gate is skipped only on a record or once a mandatory gate blocks, and a gated
decision has a gate. `SkippingIsSafe` is then that a BLOCK absorbs whatever the
skipped gates would have said, the decision-level rule included.
`AddingAGateNeverRelaxes` compares the advisory sides of two gate sets: either
both are at the same tier and the larger set has every candidate of the
smaller, or the larger reached a tier that answers at least as strictly.
`CreditExplainsAction` follows the credited rule back to the candidate that is
the action; `ReproducesSinglePass` evaluates both resolvers on one gate.

The module's second part is what the gates admit, `GateAdmission`. Its invariant
`AdmissionInv` (checked by TLC on the run's instance before it was proved) says
that the templates of a profile are in the gate under that profile's reasoner
(`Owned`), that the gates still have what they were built with (`GateGrew`),
that a registration past admission, and every entry a start has checked,
passed the checks that nothing can change while the ledger runs (`PutSound`,
`EntriesFit`), and that an accepted decision's template is still in the gate,
with the text and the owner it was authorized for (`DecisionSound`). An
admission adds at most one reasoner's assets, and only under ids the gate does
not hold, which is what makes `Owned` inductive and gives
`AuthorizedIsRendered` (`RenderedAsAuthorized`).

`RestartAdmits` (`RestartIsAdmitted`) compares two histories: the gate in
service, built up in the order of the writes, and the gate of a fresh start,
which meets the same entries in the order they are read. The proof walks the
fresh start (`OnTheWay`): its gate holds only templates of profiles it knows,
and knows each reasoner by the profile the gate in service has. A template the
next entry ships that is in it already would then be owned by two reasoners in
the gate in service, which `Owned` excludes (`EntersAgain`). The hypothesis
`SourcesHold`, that the asset root and the corpora still hold what was
admitted, cannot be dropped: an operator may edit both under a running ledger.

*`JournalProofs`*, the resolution journal first. The invariant says that each chain's numbers form a
prefix of the naturals, that a sequence a request holds is within or just past
it, that a recorded request's row is its own, and that two recorded requests of
one decision hold different numbers. From it follow the types,
`ChainHasNoGap`, `ReceiptsStand`, and that the journal implements `Realization`
(an insert past the first terminal attempt changes no realized action).

Its second part is the entity journal, for any links, decisions, transactions and instants.
`FoldIsLastWord` is a fact about the fold, proved by induction over the subsets
of the operations in their order: after the operations folded so far a link is
open exactly when the last one on it opened it, and at each instant at most one
interval holds it (`Tells`). It needs that two operations of one link are
ordered, which `event_sequence` gives (`SequencesHold`). `NoRelationshipLost`
and `RebuildRestores` need, besides, that asserting a relationship opens its own
link and closes none (`AssertingOpens`), and the lock: a rebuild that is about
to commit has read what every decision recorded, because it has held the
projection's lock since before it read (`RebuildsSee`).

Its third part is the timeline, for any decisions, links, queries and size of a
page. `TimelineIsWhole` speaks of the links that held from the first page to the
last, while others come and go, so the walk's invariant (`WalkInv`) is stated
over those: what the walk has found is closed under them, except at its frontier;
a walk that ends has then followed every one of them (`WalkedIsLinked`). The
invariant of the pages (`PagesInv`) says that they list decisions newest first
down to the cursor, and that a decision that was there at the first page and is
due is listed or comes after the cursor. A page is the first `Limit` members of
a finite set in a linear order (`RankedLists`), so that a decision it leaves out
is older than all it lists; a decision written meanwhile, with any timestamp,
moves nothing that is listed.

*`LoginProofs`*, for any stream, any instances of the group and any batches.
The argument for `AtMostOnce` is about time: a key lives until every copy of its
event is late (`KeysOutlive`), and an event is only accepted in time, with no
key; so between the acceptance and the end of the key no copy passes the check,
and after it none is in time. The invariant adds that a run about to decide
holds a message whose event has a key and is undecided, and that no other run
holds that event (`Exclusive`). `NoSilentRejection` needs that every
acknowledged message is traced by its event's key or by a dead letter that is
not the event's own duplicate (`Traced`). `OneLossPerFailure` counts: the events
that have a key, are undecided and in nobody's hand are no more than the
failures; each step adds at most one, and only a failure adds one.

*`StreamProofs`*, the stream mock, its replay and the login features.
`MissingIsStored` rests on counts, as the replay does: accepted is processed,
queued or in hand (`AllCounted`), so when the replay reads equal counters
nothing is on its way, and what it was told is accepted is stored or a dead
letter.

`DuplicatesAreDropped` says which deliveries the bounded set must drop.
`DedupInv` ties the set to the history of deliveries: it holds no id twice, no
more than its capacity, and, of the ids delivered since the last reset, those
that were delivered last (`Tracks`); so an id is forgotten only after as many
others as the capacity.

`ScoredExactly` compares the running totals of an account with a window counted
over everything it observed. The totals forget transfers one by one as the
window passes, an old transfer may come late, and one that comes is counted with
whatever the account has not yet forgotten. `ScoredInv` says that each account
summarizes what it observed (`Summarizes`), and that what is observed and queued
is in time for the watermark at which it was accepted (`InTime`), which is why
nothing that is folded away can be in the window of a transfer still to come.
It fails for transfers that a reset left queued, and the property does not speak
of them. Totals over a set of positions do not depend on the order in
which the transfers came (`TotalSteps`, `TotalsMove`).

`FeaturesKnowThePast` rests on Redis growing: a history holds every
login that ended, except what the trim reaches, and nothing that did not begin
(`HistoryKnows`), which every command of every process keeps; what a process
has read (`ReaderKnows`) or is writing (`WriterKnows`) is between the two. A
count is compared with a cardinality, through the entries being one per login.

*`PolicyProofs`*, the loads of the corpora and the policy gate's evidence, for
any corpora, editions, loaders, bindings and queries. `LoadInv` says where each
load stands: it has its corpus's lock, Postgres is as it wrote it and no other
load has settled that corpus (`InHandOf`); an index that lost its mapping since
it looked was emptied, and what it wrote is in the index unless that was
dropped since (`wiped`). A load disturbs another only by dropping the index,
which unsettles every corpus and marks the loads under way, hence
`StoresAgree` (`LoadsAgree`), which is not inductive without what the loads in
between are sure of. `EvidenceInv` follows a passage from the search to the
verification. What a corpus answers is within the quota and names no document
yet; merging keeps it so, because the places of the passages are finitely many
and linearly ordered, so that every rank up to their number is one place's
(`EveryRankIsTaken`). A passage that names a document names one that the escrow
holds and that was found to hold the passage before it was named (`Backed`),
and an artifact stays: `CitationsAreProvable` (`CitationsStand`) needs nothing
about the stores, which is why no load can take it away. `ChangesAreReal`
(`ChangesHold`) adds that a verification begins after the decision is stored
and finds every artifact (`Verifying`); a document that no longer holds a
passage is then not the one in the escrow.

*`DayProofs`*, the day runs first, for any rows, sizes of a chunk, rule sets and
faults. `DayInv` follows a row from the plan to the store: a row that no request
has taken, or whose request was not yet worked on, or was refused, is not stored
(`StoreShape`), what the run was answered is what the store holds (`Known`), and
a row is planned once (`RunShape`, with the exceptions that the batch sends to
be refused). `OneDecisionPerRow` alone is not inductive: that a decision is the
first of its row is the work of the plan, of the chunks and of a run that stops
when an answer is lost. `ReportIsTrue` reads the report off `Known`, and
`OperatorKnows` needs that a daily run has at most one request on its way and
names its row (`DailyKnown`). `RecordsKeepTheirAction` has an invariant of its
own (`RecordsInv`): each submission is the one its row gives, and whatever
stands in the store or in an answer keeps the property. Its content is in the
boundaries: the label of a mock and the rule that must justify it are two
definitions in two files, compared over all rows (`SeverityIs`, `MatchingRule`),
with truncating division in between.

Its second part is evaluation, for any datasets and any answers of the rules and
the gates. `OrderingsAreAlone` needs that while a driver's lock is held by an
ordering, its stream and its windows hold the events of that ordering so far and
nothing else (`StreamHolds`), whatever robustness does when it does not lock; and,
for events that are never refused, that what is in the stream precedes the next
event of either dimension (`NotRefused`). `PassIsEarned` adds `SampleInv`: the
sample is taken in the second wave, holds no decision older than the evaluation,
and, if it is not full, leaves none of the run's recorded decisions out. A
passing code then rests on orderings that agreed, each of which is as it is alone.

*`Iteration`*. The provers cannot instantiate an induction theorem with an
operator, but they can with a set. The lemmas here state induction for sets (a
set of numbers or of subsets that contains the first and, with one, the next,
contains all) and derive from it that a recursion, a fold over a sequence and a
fold over a finite set exist and what each step of them is. Induction over the
smaller subsets of a finite set (`OverSmaller`) gives that its members can be
counted off in a linear order (`RankedLists`) and that a set of numbers has an
ascending list (`AscendingLists`), which is what a comprehension with a condition
returns.

Every safety property of a passing run is stated by a theorem. Only
model-checked are the two liveness properties, `AcceptedEnds` and
`MessagesHandled`, because fairness is outside the prover's reach; and the three
violations, whose counterexamples are what they show. Chunking is a recursion
over data, and of it the proofs use only that an edition's chunks are a
function.

## Abstractions and what is not modelled

General:

- Evidence is one value; in the pipeline a predicate is the set of values it
  holds for (`Predicates` has the language itself). A gate output is the flags
  the tiers read, and what can make it unusable (foreign types, another gate's
  id or determinism, a value that does not survive storage). A registration is its content address: a version
  stands for one content, as `registration_version` is a digest of the
  canonical form.
- A predicate nests two levels deep, one more than any rule that ships.
- Intake's checks of shape, size and storability are left out; so are logging,
  rendering, timestamps and wording.
- Postgres: a statement on an autocommit connection is atomic; the journal's
  transaction is read committed and locks the projection's table. Redis
  commands are atomic, and a pipeline is not (`transaction=False`).
- The two statements of a bundle's write are both in `EntityJournal`;
  `DecisionPipeline` has the first, and the second as the step `Respond` that
  may fail.
- A uuid5 is an injective function of its inputs.

By part:

- *Identity step*. A resolver in a worker thread, and the pool it waits for,
  are an answer or none in time. `GET /identity/resolve` runs the same operator
  outside a decision, with the namespaces of every served registration as its
  fallback.
- *Registry*. One process, as the deployment does. Two processes on one
  database would not share the lock.
- *Gate admission*. The policy gate remembers an admission; one that a later
  gate then refuses, or whose answer is lost, stays remembered until a restart.
  `RestartAdmits` is stated while what the gates read (templates and corpora)
  is as it was at the admission (`SourcesHold`).
- *Timeline*. Complete for ids linked by intervals that are current from the
  first page to the last; a link that begins or ends in between may or may not
  be seen.
- *Login stream*. The lateness check and the deduplication of one message are
  one instant (23 hours would have to pass between the two statements for the
  difference to show), event timestamps are not in the future, as the
  generator back-dates them, and an event's copies carry its one timestamp.
- *Login features*. The module shows what the code gives, which is less than
  the "atomically" of the docs: pipelines interleave, a retry counts in `total`
  again, a late login overwrites the last location and is judged at zero
  elapsed time. The 24 h window is trimmed by score; the keys' expiry, days
  later, is not modelled.
- *Stream mock*. A reset leaves transfers that are queued, so a window scored
  later holds them: `ScoredExactly` speaks of windows with nothing queued at
  the reset. Nothing of the service is persisted, so a restart under a replay
  is outside `MissingIsStored`.
- *Day runs*. The synthetic rows and their score are a band per row. The
  daily mock names the one row in doubt when a request is lost; the batch mock
  does not, and its property says what its report and exit code do say.
- *Evaluation*. `OrderingsAreAlone` is stated for drivers that reset and lock
  (the mocks) or keep nothing (text, example). The account-takeover driver does
  neither during `run`: its second ordering starts from the first one's
  history, its stores reset only by `capture_baselines` and by tests
  (`ato_reasoner/eval/driver.py:140`). Robustness calls do not lock; an ordering that
  resets between two of them can forget what the first primed, which no shipped
  dataset depends on. A dimension without cases scores 1.0. Live traffic in the
  sampled range counts for the shadow dimension. Event dates increase within a
  dataset, as its documentation asks. A batch or daily ordering is decided as
  one day by the code and event by event, under the same lock, here.
- *Not modelled*: reading datasets, the report's numbers and its comparison
  with a baseline; the login generator and the score of a login (numerical);
  language model calls and prompts beyond what the templates admit; lookups
  that only read and format; the in-process client; the MCP server (one request
  at a time, translated to client calls); schema, settings and monitoring. The
  reason for each part is in `components` of `PROJECT.json`.

## Plan

Done: enforcement, registry, pipeline with its identity step, resolution,
entity journal and timeline, login stream and features, policy evidence with
corpus load and retrieval, predicates and rules, gate admission, day runs with
routes and client, stream mock, evaluation; proofs of the registry,
enforcement, resolution, the pipeline with its subjects, gate admission, the login
stream, the login features, the stream mock and its replay, the entity journal,
the timeline, the loads of the corpora, the policy gate's evidence, the day runs
and evaluation.

Left, in order of what matters most:

1. Two decisions with one `decision_id` in the pipeline's instance, and the
   lookups of the decision routes as readers.
