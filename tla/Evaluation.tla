------------------------------- MODULE Evaluation -------------------------------
(***************************************************************************)
(* The evaluation of a reasoner: eval.runners.harness runs the consistency *)
(* and robustness dimensions concurrently on one driver of the reasoner's  *)
(* pipeline, then the shadow dimension over the decisions they recorded,   *)
(* and writes one report.  A driver keeps what its reasoner keeps between  *)
(* events, and the dimensions never reset it: what one of them measures    *)
(* must not depend on where the other one stands.  The ledger under the    *)
(* driver decides in process; a decision is what its bypass rules, its     *)
(* gates and the combinator make of one event (module Enforcement).        *)
(***************************************************************************)
EXTENDS Enforcement, Selection, SequencesExt

CONSTANTS Installed,       \* the sets of entry points a deployment may have
          Events,          \* the events a dataset may hold
          Datasets,        \* the golden datasets a reasoner may ship
          CoveredBy(_, _), \* the action of the bypass rule that covers an event
                           \* after the events before it, or NotCovered
          GateSays(_),     \* the action the gates would answer for an event
          EVENT_LATENESS,  \* allowed_lateness of the stream mock's source
          SampleSize,      \* sample_size of the shadow dimension
          MaxElsewhere     \* bound: decisions the deployed reasoner records

ASSUME EvaluationConstants ==
    EVENT_LATENESS \in Nat /\ SampleSize \in Nat \ {0} /\ MaxElsewhere \in Nat

\* ConsistencyScenario has orderings, a ScenarioOrdering has events, and every
\* case of robustness has one.
SomeEvents == Seq(Events) \ {<<>>}
ASSUME ShippedDatasets ==
    \A d \in Datasets :
       /\ d.scenarios \in Seq(Seq(SomeEvents) \ {<<>>})
       /\ d.cases \in Seq([check : STRING, events : SomeEvents, expected : STRING])

VARIABLES reasoner,  \* whose driver it is
          entries,   \* the entry points published for the reasoner
          dataset,   \* what adapter.datasets_dir holds
          state,     \* what the driver keeps: its source's events, its windows'
          lock,      \* the dimension that holds the driver's lock, or "free"
          turn,      \* where consistency is: scenario, ordering, event
          actions,   \* scenario_actions, one sequence per scenario begun
          call,      \* where robustness is: case, event
          answers,   \* the actions of each case's calls, per case begun
          bundles,   \* the reasoner's bundles in the ledger, oldest first
          sample,    \* what the shadow dimension sampled, if it has
          code       \* how main ended, or "running"

evalVars == <<reasoner, entries, dataset, state, lock, turn, actions, call,
              answers, bundles, sample, code>>

NotCovered == "none"

\* The drivers hold an asyncio lock at every call, and run() resets at its
\* start; the example's and the account-takeover reasoner's do neither.
Serializes == reasoner \in {"mock_stream", "mock_batch", "mock_daily", "mock_text"}

\* What is decided of an event depends on the events before it.
KeepsState == reasoner \in {"mock_stream", "account_takeover"}

-----------------------------------------------------------------------------
(* The driver. *)

Fresh == [source |-> <<>>, windows |-> <<>>]

\* AccountWindows reads an account's transfers dated before the event; the
\* account-takeover reasoner reads what its Redis holds of the account.
Prior(e, observed) ==
    IF ~KeepsState THEN <<>>
    ELSE Selected(observed, {i \in DOMAIN observed :
                               /\ observed[i].account = e.account
                               /\ reasoner = "mock_stream" => observed[i].at < e.at})

\* The mode a reasoner's assembler picks, and the action it proposes.  The
\* text mock always asks the gate and proposes its label's action, HOLD for a
\* message it cannot label.
Records(e, prior) == reasoner # "mock_text" /\ CoveredBy(e, prior) # NotCovered
Proposes(e, prior) ==
    IF reasoner = "mock_text" /\ CoveredBy(e, prior) = NotCovered
    THEN {"HOLD"} ELSE {CoveredBy(e, prior)} \ {NotCovered}

\* Only the daily mock's gate is mandatory and runs on a recorded decision.
\* FailedGate is what an unusable answer is enforced as (Tier 1).
FailedGate == "HOLD"
Decides(e, prior, answer) ==
    Strictest(Proposes(e, prior)
                \cup IF Records(e, prior) /\ reasoner # "mock_daily" THEN {} ELSE {answer})

\* EventSource.publish, of the stream mock alone: an event it has seen is a
\* duplicate, one behind the watermark is dead-lettered, and _accept raises.
Accepts(e) ==
    reasoner = "mock_stream" =>
        \A f \in Range(state.source) : f.event_id # e.event_id /\ f.at <= e.at + EVENT_LATENESS

Observe(e) ==
    state' = IF KeepsState
             THEN [source |-> Append(state.source, e), windows |-> Append(state.windows, e)]
             ELSE state

Store(e) ==
    bundles' = Append(bundles, [origin |-> "run",
                                mode |-> IF Records(e, Prior(e, state.windows)) THEN "record" ELSE "gate"])

\* Mutant: reset_state forgets the source and not the windows.
ResetState_SourceOnly == [state EXCEPT !.source = <<>>]

\* reset_state: the windows, the deduplication set and the watermark.
ResetState == Fresh

\* Mutant: a call on the driver does not wait for the ordering that runs.
MayCall_Unlocked == TRUE

\* async with self._lock
MayCall == Serializes => lock = "free"

-----------------------------------------------------------------------------
(* The run. *)

EvaluationInit ==
    /\ reasoner \in {"mock_stream", "mock_batch", "mock_daily", "mock_text",
                     "example", "account_takeover"}
    /\ entries \in Installed
    /\ dataset \in Datasets
    /\ state = Fresh
    /\ lock = "free"
    /\ turn = [scenario |-> 1, ordering |-> 1, event |-> 0]
    /\ actions = <<>>
    /\ call = [case |-> 1, event |-> 1]
    /\ answers = <<>>
    /\ bundles = <<[origin |-> "before", mode |-> "record"]>>
    /\ sample = [taken |-> FALSE, of |-> <<>>]
    /\ code = "starting"

\* Exactly one entry point carries the reasoner's name, it
\* loads, and what it loads is an adapter of that name.
load_eval_adapter(published) ==
    Len(published) = 1 /\ published[1].loads /\ published[1].adapts /\ published[1].named

\* main: the adapter is loaded and the driver built, or exit code 2.
LoadAdapter ==
    /\ code = "starting"
    /\ code' = IF load_eval_adapter(entries) THEN "running" ELSE "config"
    /\ UNCHANGED <<reasoner, entries, dataset, state, lock, turn, actions, call,
                   answers, bundles, sample>>

\* The account-takeover driver refuses to start without its model's credential.
DriverRefuses ==
    /\ code = "starting" /\ load_eval_adapter(entries) /\ reasoner = "account_takeover"
    /\ code' = "config"
    /\ UNCHANGED <<reasoner, entries, dataset, state, lock, turn, actions, call,
                   answers, bundles, sample>>

Checks == {"injection", "schema", "novel", "fallback"}
HasScenarios == "scenarios" \in dataset.files
HasRobustness == dataset.files \cap Checks # {}
Cases == Selected(dataset.cases,
                  {c \in DOMAIN dataset.cases : dataset.cases[c].check \in Checks \cap dataset.files})

ConsistencyDone == ~HasScenarios \/ turn.scenario > Len(dataset.scenarios)
RobustnessDone == call.case > Len(Cases)

Orderings == dataset.scenarios[turn.scenario]
Ordering == Orderings[turn.ordering]

\* run(): take the lock and reset.
BeginOrdering ==
    /\ code = "running" /\ ~ConsistencyDone /\ turn.event = 0 /\ MayCall
    /\ turn' = [turn EXCEPT !.event = 1]
    /\ lock' = IF Serializes THEN "consistency" ELSE lock
    /\ state' = IF Serializes THEN ResetState ELSE state
    /\ UNCHANGED <<reasoner, entries, dataset, actions, call, answers, bundles, sample, code>>

Extended(lists, i, x) ==
    IF Len(lists) < i THEN Append(lists, <<x>>) ELSE [lists EXCEPT ![i] = Append(@, x)]

\* run(): an event of the ordering; the last one is the trigger, whose action
\* the dimension keeps.
DecideEvent ==
    /\ code = "running" /\ ~ConsistencyDone /\ turn.event > 0
    /\ LET e == Ordering[turn.event] IN
       /\ Accepts(e) /\ Observe(e) /\ Store(e)
       /\ IF turn.event < Len(Ordering)
          THEN turn' = [turn EXCEPT !.event = @ + 1] /\ UNCHANGED <<actions, lock>>
          ELSE /\ actions' = Extended(actions, turn.scenario,
                                      Decides(e, Prior(e, state.windows), GateSays(e)))
               /\ lock' = "free"
               /\ turn' = IF turn.ordering < Len(Orderings)
                          THEN [scenario |-> turn.scenario, ordering |-> turn.ordering + 1, event |-> 0]
                          ELSE [scenario |-> turn.scenario + 1, ordering |-> 1, event |-> 0]
    /\ UNCHANGED <<reasoner, entries, dataset, call, answers, sample, code>>

Case == Cases[call.case]
IsLast == call.event = Len(Case.events)

\* run_with_forced_schema_failure writes nothing.  The submission is put in
\* gate mode, but for the daily mock, whose gate is mandatory and may only
\* tighten what the row's rule records, and the text mock, which proposes.
SchemaFailureGated == FailedGate
SchemaFailureRecorded(e, prior) == Decides(e, prior, FailedGate)
SchemaFailureProposed(e, prior) == Strictest(Proposes(e, prior) \cup {FailedGate})

ForcedSchemaFailure(e, prior) ==
    CASE reasoner = "mock_daily" -> SchemaFailureRecorded(e, prior)
      [] reasoner = "mock_text" -> SchemaFailureProposed(e, prior)
      [] OTHER -> SchemaFailureGated

\* run_with_forced_fallback decides the event with a gate that fails: an
\* event its reasoner records never reaches it.
ForcedFallback(e, prior) == Decides(e, prior, FailedGate)

\* A call of a sub-check: an event of its own, the priming of a case, or its
\* trigger, with the failure the case forces.
RobustnessCall ==
    /\ code = "running" /\ ~RobustnessDone /\ MayCall
    /\ LET e == Case.events[call.event]
           prior == Prior(e, state.windows)
           forced == IF IsLast THEN Case.check ELSE "primer" IN
       /\ Accepts(e) /\ Observe(e)
       /\ IF forced = "schema" THEN UNCHANGED bundles ELSE Store(e)
       /\ answers' = Extended(answers, call.case,
                              CASE forced = "schema" -> ForcedSchemaFailure(e, prior)
                                [] forced = "fallback" -> ForcedFallback(e, prior)
                                [] OTHER -> Decides(e, prior, GateSays(e)))
    /\ call' = IF IsLast THEN [case |-> call.case + 1, event |-> 1]
                         ELSE [call EXCEPT !.event = @ + 1]
    /\ UNCHANGED <<reasoner, entries, dataset, lock, turn, actions, sample, code>>

\* An event its driver's stream does not accept raises; gather passes it on,
\* the other dimension is cancelled and no report is written.
Dies ==
    /\ code = "running"
    /\ \/ ~ConsistencyDone /\ turn.event > 0 /\ ~Accepts(Ordering[turn.event])
       \/ ~RobustnessDone /\ MayCall /\ ~Accepts(Case.events[call.event])
    /\ code' = "died"
    /\ UNCHANGED <<reasoner, entries, dataset, state, lock, turn, actions, call,
                   answers, bundles, sample>>

\* The reasoner is deployed: its service records a decision in the same ledger.
Elsewhere ==
    /\ code = "running"
    /\ Cardinality({i \in DOMAIN bundles : bundles[i].origin = "elsewhere"}) < MaxElsewhere
    /\ bundles' = Append(bundles, [origin |-> "elsewhere", mode |-> "record"])
    /\ UNCHANGED <<reasoner, entries, dataset, state, lock, turn, actions, call,
                   answers, sample, code>>

\* recent_recorded: since the harness started, newest first.
RecentRecorded ==
    LET recorded == Selected(bundles, {i \in DOMAIN bundles :
                                         bundles[i].mode = "record" /\ bundles[i].origin # "before"})
        size == IF Len(recorded) < SampleSize THEN Len(recorded) ELSE SampleSize
    IN [n \in 1 .. size |-> recorded[Len(recorded) + 1 - n]]

\* Mutant: the shadow dimension runs beside the others.
SecondWave_WithTheFirst == TRUE

\* run_eval: what runs after the others waits for both.
SecondWave == ConsistencyDone /\ RobustnessDone

\* The shadow dimension; its rates are only reported.
ShadowDecisions ==
    /\ code = "running" /\ SecondWave /\ ~sample.taken
    /\ sample' = [taken |-> TRUE, of |-> RecentRecorded]
    /\ UNCHANGED <<reasoner, entries, dataset, state, lock, turn, actions, call,
                   answers, bundles, code>>

is_stable(chosen) == \A x, y \in Range(chosen) : x = y

\* A scenario directory without a scenario has a stability of zero.
ConsistencyPassed ==
    HasScenarios /\ dataset.scenarios # <<>> /\ \A i \in DOMAIN actions : is_stable(actions[i])

Correct(case, given) ==
    CASE case.check = "injection" -> is_stable(given)
      [] case.check = "novel" -> Last(given) \in {"HOLD", "BLOCK"}
      [] OTHER -> Last(given) = case.expected

\* The rates against their thresholds; a sub-check without cases is met, a
\* dimension without any dataset is skipped, which fails the report.
RobustnessPassed ==
    LET Held(check) == {i \in DOMAIN Cases : Cases[i].check = check /\ Correct(Cases[i], answers[i])}
        All(check) == {i \in DOMAIN Cases : Cases[i].check = check}
    IN /\ HasRobustness
       /\ \A check \in Checks \ {"novel"} : Held(check) = All(check)
       /\ 10 * Cardinality(Held("novel")) >= 9 * Cardinality(All("novel"))

\* assemble_report, and main's exit code.
WriteReport ==
    /\ code = "running" /\ sample.taken /\ ConsistencyDone /\ RobustnessDone
    /\ code' = IF ConsistencyPassed /\ RobustnessPassed THEN "passed" ELSE "failed"
    /\ UNCHANGED <<reasoner, entries, dataset, state, lock, turn, actions, call,
                   answers, bundles, sample>>

EvaluationNext ==
    \/ LoadAdapter \/ DriverRefuses
    \/ BeginOrdering \/ DecideEvent \/ RobustnessCall \/ Dies
    \/ Elsewhere
    \/ ShadowDecisions \/ WriteReport

EvaluationSpec == EvaluationInit /\ [][EvaluationNext]_evalVars

-----------------------------------------------------------------------------
(* What the ordering's trigger is decided as when nothing else is going on,  *)
(* and datasets dated as a stream could carry them: ids differ, no ordering  *)
(* is late in itself, and robustness is dated in order, after the scenarios. *)

Alone(events) ==
    LET e == Last(events) IN Decides(e, Prior(e, Front(events)), GateSays(e))

Precedes(f, e) == f.event_id # e.event_id /\ f.at <= e.at + EVENT_LATENESS

InOrder(events) == \A i, j \in DOMAIN events : i < j => Precedes(events[i], events[j])

WellDated ==
    /\ \A i \in DOMAIN dataset.scenarios : \A k \in DOMAIN dataset.scenarios[i] :
          /\ InOrder(dataset.scenarios[i][k])
          /\ \A n \in DOMAIN dataset.scenarios[i][k] : \A c \in DOMAIN Cases :
                \A x \in DOMAIN Cases[c].events :
                   Precedes(dataset.scenarios[i][k][n], Cases[c].events[x])
    /\ \A c, d \in DOMAIN Cases : \A x \in DOMAIN Cases[c].events : \A y \in DOMAIN Cases[d].events :
          c < d \/ (c = d /\ x < y) => Precedes(Cases[c].events[x], Cases[d].events[y])

(* A consistency ordering of a driver that locks and resets ends with the    *)
(* action it has when it runs alone, whatever robustness does on the same    *)
(* driver meanwhile and whatever ran before it, and well-dated events are    *)
(* never refused (MockStreamEvalDriver.run, run_event, reset_state).         *)
OrderingsAreAlone ==
    /\ Serializes \/ ~KeepsState =>
          \A i \in DOMAIN actions : \A k \in DOMAIN actions[i] :
             actions[i][k] = Alone(dataset.scenarios[i][k])
    /\ WellDated => code # "died"

RecordedBy(origin, stored) ==
    Cardinality({i \in DOMAIN stored : stored[i].origin = origin /\ stored[i].mode = "record"})

(* An evaluation that exits with 0 measured what it stands for: there were   *)
(* scenarios, whose orderings agree on their own, and robustness cases, and  *)
(* the shadowed sample is of this run: nothing older, and, when all of it    *)
(* fits, every decision that the run recorded (run_eval, assemble_report).   *)
PassIsEarned ==
    code = "passed" =>
       /\ HasScenarios /\ dataset.scenarios # <<>> /\ HasRobustness
       /\ Serializes \/ ~KeepsState =>
             \A i \in DOMAIN dataset.scenarios :
                is_stable([k \in DOMAIN dataset.scenarios[i] |-> Alone(dataset.scenarios[i][k])])
       /\ \A b \in Range(sample.of) : b.origin # "before" /\ b.mode = "record"
       /\ Len(sample.of) < SampleSize => RecordedBy("run", sample.of) = RecordedBy("run", bundles)
================================================================================
