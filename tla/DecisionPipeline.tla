--------------------------- MODULE DecisionPipeline ---------------------------
(***************************************************************************)
(* The framework half of a decision (app/submit.py): intake against the    *)
(* registration served at that moment, the identity step, the mandatory    *)
(* gates concurrently, the advisory gates concurrently unless the decision *)
(* is recorded or already blocked, enforcement, and the one write of the   *)
(* bundle; and replay (app/audit/store.py).  Every decision is a task of   *)
(* the one event loop that yields at each await, so decisions, gates,      *)
(* registration writes and crashes interleave between the actions below.   *)
(***************************************************************************)
EXTENDS ReasonerRegistry, Enforcement, IdentityStep

CONSTANTS Decisions,     \* submissions in progress, one decision each
          Submissions,   \* the submissions a reasoner may send
          Profile,       \* [Reasoners \X Versions -> registration content]
          Composed,      \* the gates the deployment composes
          Mandated,      \* the gates it runs on every decision
          Deterministic, \* those whose plugin declares itself deterministic
          Returned       \* what a gate may return

ASSUME MandatedIsComposed == Mandated \subseteq Composed

\* A submission of a reasoner that was never registered is refused unread.
ASSUME SubmissionsAreKnown == \A s \in Submissions : s.reasoner \in Reasoners

\* The contract has two modes.
ASSUME SubmissionsHaveAMode == \A s \in Submissions : s.mode \in {"gate", "record"}

VARIABLES stage,         \* where each decision stands
          submission,    \* what was submitted
          version,       \* the registration_version read at intake
          subject,       \* the identity step's result
          running,       \* the gates being awaited
          records,       \* [gate -> record] of the gates that ended
          decision,      \* what resolve_decision returned
          bundles,       \* durable: decision_bundles, by decision
          replays        \* durable: replay_logs, one outcome per decision

decisionVars == <<stage, submission, version, subject, running, records, decision>>
storeVars == <<bundles, replays>>
pipelineVars == <<registryVars, decisionVars, storeVars>>

NoSubmission == [reasoner |-> None]
NoBundle == [version |-> None]
Undecided == Fired(NoRule, NoAction)
NoCheck == [rule |-> NoRule, holds |-> FALSE]
NoRecords == [g \in {} |-> NoOutput]
NoSubject == [method |-> None]

Stages == {"idle", "refused", "identity", "mandatory", "advisory", "enforce",
           "write", "respond", "answered", "lost"}
Awaiting == {"identity", "mandatory", "advisory"}
InMemory == Awaiting \cup {"enforce", "write", "respond"}

-----------------------------------------------------------------------------
(* The registration a decision reads, and its gate set. *)

registration_of(d) == Profile[<<submission[d].reasoner, version[d]>>]

\* Mutant: an advisory binding stays advisory although the deployment mandates it.
effective_gate_set_AsBound(registration) ==
    [g \in DOMAIN registration.gates \cup Mandated |->
       IF g \in DOMAIN registration.gates THEN registration.gates[g] ELSE TRUE]

\* Every bound gate and every mandated one, mapped to whether it is mandatory.
effective_gate_set(registration) ==
    [g \in DOMAIN registration.gates \cup Mandated |->
       g \in Mandated \/ registration.gates[g]]

GateSet(d) == DOMAIN effective_gate_set(registration_of(d))
IsMandatory(d, g) == effective_gate_set(registration_of(d))[g]
MandatoryGates(d) == {g \in GateSet(d) : IsMandatory(d, g)}
AdvisoryGates(d)  == {g \in GateSet(d) : ~IsMandatory(d, g)}

\* _validate_citation: a record cites a registered rule, proposes the action
\* it justifies, and pins no other version of it.
ValidCitation(s, registration) ==
    s.mode = "record" =>
      \E rule \in registration.rules :
        /\ rule.rule_id = s.cites
        /\ s.proposed = rule.action
        /\ s.proposed \in registration.recordable
        /\ s.pins \in {None, rule.version}

\* validate_submission and the configuration check of every composed gate.
AcceptedBy(s, registration) ==
    LET gate_set == DOMAIN effective_gate_set(registration) IN
    /\ ValidCitation(s, registration)
    /\ ValidSubject(s, registration)
    /\ s.addressed = DOMAIN registration.gates
    /\ s.mode = "gate" => gate_set # {}
    /\ s.misconfigured \cap gate_set \cap Composed = {}

\* The check of the rule a record cites, and of its other registered rules.
CitedRule(s, registration) == CHOOSE rule \in registration.rules : rule.rule_id = s.cites
CitedCheck(s, registration) ==
    IF s.mode = "gate" THEN NoCheck
    ELSE evaluate_bypass(CitedRule(s, registration), s.evidence)
CompetingChecks(s, registration) ==
    IF s.mode = "gate" THEN {}
    ELSE evaluate_competing_rules(registration.rules, CitedRule(s, registration), s.evidence)

-----------------------------------------------------------------------------
(* Initial state. *)

PipelineInit ==
    /\ RegistryInit
    /\ stage = [d \in Decisions |-> "idle"]
    /\ submission = [d \in Decisions |-> NoSubmission]
    /\ version = [d \in Decisions |-> None]
    /\ subject = [d \in Decisions |-> NoSubject]
    /\ running = [d \in Decisions |-> {}]
    /\ records = [d \in Decisions |-> NoRecords]
    /\ decision = [d \in Decisions |-> Undecided]
    /\ bundles = [d \in Decisions |-> NoBundle]
    /\ replays = [d \in Decisions |-> "none"]

-----------------------------------------------------------------------------
(* The decision's steps. *)

\* A decision that was lost may be submitted again under its decision_id.
Intake(d, s) ==
    /\ Up
    /\ stage[d] \in {"idle", "lost"}
    /\ submission' = [submission EXCEPT ![d] = s]
    /\ LET entry == served[s.reasoner]
           accepted == /\ entry # NoEntry
                       /\ AcceptedBy(s, Profile[<<s.reasoner, entry.version>>])
       IN  /\ stage' = [stage EXCEPT ![d] = IF accepted THEN "identity" ELSE "refused"]
           /\ version' = [version EXCEPT ![d] = IF accepted THEN entry.version ELSE None]
    /\ UNCHANGED <<registryVars, subject, running, records, decision, storeVars>>

\* The identity step ends and the mandatory gates are invoked together.
Identified(d, identity) ==
    /\ subject' = [subject EXCEPT ![d] = identity]
    /\ stage' = [stage EXCEPT ![d] = "mandatory"]
    /\ running' = [running EXCEPT ![d] = MandatoryGates(d)]
    /\ UNCHANGED <<registryVars, submission, version, records, decision, storeVars>>

\* The resolver answers in time, with something the ledger can use or not.
Resolved(d, answer) ==
    /\ stage[d] = "identity" /\ Consults(submission[d])
    /\ Identified(d, identify(submission[d], registration_of(d), answer))

\* Mutant: the fallback reads the registration served now.
PassThrough_ServedNow(d) ==
    /\ stage[d] = "identity"
    /\ Identified(d, passthrough_identity(submission[d],
                    Profile[<<submission[d].reasoner, served[submission[d].reasoner].version>>]))

\* Nobody is asked, or the resolver has no match, raises (a cancellation of
\* its own included) or does not answer in time: never the decision's failure.
PassThrough(d) ==
    /\ stage[d] = "identity"
    /\ Identified(d, passthrough_identity(submission[d], registration_of(d)))

EndGate(d, g, status, output) ==
    /\ g \in running[d]
    /\ running' = [running EXCEPT ![d] = @ \ {g}]
    /\ records' = [records EXCEPT ![d] =
         [h \in DOMAIN @ \cup {g} |->
            IF h # g THEN @[h]
            ELSE [mandatory |-> IsMandatory(d, g), status |-> status, output |-> output,
                  enforcement |-> resolve_gate_output(output, registration_of(d).groups)]]]
    /\ UNCHANGED <<registryVars, stage, submission, version, subject, decision, storeVars>>

\* _output_problem: not the universal types, another gate's output, not the
\* flag the plugin declares, or not storable and reloaded as it is.
HasOutputProblem(g, returned) ==
    \/ ~returned.universal
    \/ returned.gate_id # g
    \/ returned.output.deterministic # (g \in Deterministic)
    \/ ~returned.exact

GateAnswers(d, g, returned) ==
    /\ g \in Composed
    /\ IF HasOutputProblem(g, returned) THEN EndGate(d, g, "failed", NoOutput)
       ELSE EndGate(d, g, "ran", returned.output)

\* Mutant: a composed gate is awaited without a deadline.
GateFails_NoDeadline(d, g) == g \notin Composed /\ EndGate(d, g, "failed", NoOutput)

\* Not composed, timed out (an answer after the budget included), or raised.
GateFails(d, g) == EndGate(d, g, "failed", NoOutput)

\* The mandatory gates have all ended: the advisory ones are invoked together,
\* or recorded as skipped.
CloseMandatory(d) ==
    /\ stage[d] = "mandatory"
    /\ running[d] = {}
    /\ IF submission[d].mode = "record" \/ blocked_by_mandatory_gate(records[d])
       THEN /\ stage' = [stage EXCEPT ![d] = "enforce"]
            /\ records' = [records EXCEPT ![d] =
                 [g \in GateSet(d) |->
                    IF g \in DOMAIN @ THEN @[g]
                    ELSE [mandatory |-> FALSE, status |-> "skipped", output |-> NoOutput,
                          enforcement |-> Undecided]]]
            /\ UNCHANGED running
       ELSE /\ stage' = [stage EXCEPT ![d] = "advisory"]
            /\ running' = [running EXCEPT ![d] = AdvisoryGates(d)]
            /\ UNCHANGED records
    /\ UNCHANGED <<registryVars, submission, version, subject, decision, storeVars>>

CloseAdvisory(d) ==
    /\ stage[d] = "advisory"
    /\ running[d] = {}
    /\ stage' = [stage EXCEPT ![d] = "enforce"]
    /\ UNCHANGED <<registryVars, submission, version, subject, running, records, decision, storeVars>>

\* Mutant: enforcement reads the registry again instead of what intake read.
Enforce_ServedNow(d) ==
    LET now == Profile[<<submission[d].reasoner, served[submission[d].reasoner].version>>]
    IN  /\ stage[d] = "enforce"
        /\ decision' = [decision EXCEPT ![d] =
             resolve_decision(submission[d], records[d], now,
                              CitedCheck(submission[d], now),
                              CompetingChecks(submission[d], now))]
        /\ stage' = [stage EXCEPT ![d] = "write"]
        /\ UNCHANGED <<registryVars, submission, version, subject, running, records, storeVars>>

Enforce(d) ==
    /\ stage[d] = "enforce"
    /\ decision' = [decision EXCEPT ![d] =
         resolve_decision(submission[d], records[d], registration_of(d),
                          CitedCheck(submission[d], registration_of(d)),
                          CompetingChecks(submission[d], registration_of(d)))]
    /\ stage' = [stage EXCEPT ![d] = "write"]
    /\ UNCHANGED <<registryVars, submission, version, subject, running, records, storeVars>>

\* The bundle keeps the checks as evaluated: replay evaluates the stored rules
\* again, not the registration's.
BundleOf(d) ==
    [submission |-> submission[d], version |-> version[d], identity |-> subject[d],
     records |-> records[d], decision |-> decision[d],
     cited |-> CitedCheck(submission[d], registration_of(d)),
     competing |-> CompetingChecks(submission[d], registration_of(d))]

\* What DecisionBundle checks when one is built or read back.
ValidBundle(bundle) ==
    /\ WellFormed(bundle.identity)
    /\ bundle.identity.native = bundle.submission.subject
    /\ bundle.competing # {} => bundle.submission.mode = "record"

\* Mutant: the insert overwrites the row of the same decision_id.
WriteBundle_Upserts(d) ==
    /\ stage[d] = "write"
    /\ bundles' = [bundles EXCEPT ![d] = BundleOf(d)]
    /\ stage' = [stage EXCEPT ![d] = "respond"]
    /\ UNCHANGED <<registryVars, submission, version, subject, running, records, decision, replays>>

\* ON CONFLICT (decision_id) DO NOTHING.
WriteBundle(d) ==
    /\ stage[d] = "write"
    /\ bundles' = [bundles EXCEPT ![d] = IF @ = NoBundle THEN BundleOf(d) ELSE @]
    /\ stage' = [stage EXCEPT ![d] = "respond"]
    /\ UNCHANGED <<registryVars, submission, version, subject, running, records, decision, replays>>

\* The membership rows were inserted too (EntityJournal): the bundle is returned.
Respond(d) ==
    /\ stage[d] = "respond"
    /\ stage' = [stage EXCEPT ![d] = "answered"]
    /\ UNCHANGED <<registryVars, submission, version, subject, running, records, decision, storeVars>>

\* Some decisions in memory are given up: nothing of them is left but rows.
Lose(lost) ==
    /\ stage' = [d \in Decisions |-> IF d \in lost THEN "lost" ELSE stage[d]]
    /\ submission' = [d \in Decisions |-> IF d \in lost THEN NoSubmission ELSE submission[d]]
    /\ version' = [d \in Decisions |-> IF d \in lost THEN None ELSE version[d]]
    /\ subject' = [d \in Decisions |-> IF d \in lost THEN NoSubject ELSE subject[d]]
    /\ running' = [d \in Decisions |-> IF d \in lost THEN {} ELSE running[d]]
    /\ records' = [d \in Decisions |-> IF d \in lost THEN NoRecords ELSE records[d]]
    /\ decision' = [d \in Decisions |-> IF d \in lost THEN Undecided ELSE decision[d]]
    /\ UNCHANGED storeVars

\* The caller's own cancellation propagates from whatever is being awaited.
Cancel(d) == stage[d] \in Awaiting /\ Lose({d}) /\ UNCHANGED registryVars

\* A statement of the write fails, the bundle's insert or the membership rows'
\* after it: the caller gets the exception.
FailWrite(d) == stage[d] \in {"write", "respond"} /\ Lose({d}) /\ UNCHANGED registryVars

\* The process dies: every decision in memory is gone, the store stays.
PipelineCrash == Crash /\ Lose({d \in Decisions : stage[d] \in InMemory})

-----------------------------------------------------------------------------
(* Replay. *)

\* registration_for: the snapshot of the cited version, or the registration
\* served now when it is that version.
HasRegistration(reasoner, v) ==
    <<reasoner, v>> \in snapshots \/ served[reasoner].version = v

ReplayedDecision(bundle, registration) ==
    LET evidence == bundle.submission.evidence
        replayed == [g \in DOMAIN bundle.records |->
                       IF bundle.records[g].status = "skipped" THEN bundle.records[g]
                       ELSE [bundle.records[g] EXCEPT !.enforcement =
                               resolve_gate_output(bundle.records[g].output, registration.groups)]]
        again(check) == evaluate_bypass(check.rule, evidence)
    IN  resolve_decision(bundle.submission, replayed, registration,
                         IF bundle.submission.mode = "gate" THEN NoCheck ELSE again(bundle.cited),
                         {again(check) : check \in bundle.competing})

\* replay: the outcome is appended to replay_logs; a missing registration
\* fails the request.
Replay(d) ==
    /\ Up
    /\ bundles[d] # NoBundle
    /\ LET bundle == bundles[d]
           known  == HasRegistration(bundle.submission.reasoner, bundle.version)
       IN  replays' = [replays EXCEPT ![d] =
             IF ~known THEN "missing"
             ELSE IF ReplayedDecision(bundle, Profile[<<bundle.submission.reasoner, bundle.version>>]).action
                       = bundle.decision.action
             THEN "match" ELSE "mismatch"]
    /\ UNCHANGED <<registryVars, decisionVars, bundles>>

-----------------------------------------------------------------------------

\* The registry's own steps, none of which touches a decision.
Registering ==
    /\ \/ \E r \in Reasoners, v \in Versions \cup {None} : Configure(r, v)
       \/ BootstrapNext
       \/ PutNext
    /\ UNCHANGED <<decisionVars, storeVars>>

\* What the event loop runs of an accepted decision: no step of it waits for a
\* gate to answer, the deadline ends one that does not.
Progress(d) ==
    \/ PassThrough(d)
    \/ \E g \in running[d] : GateFails(d, g)
    \/ CloseMandatory(d)
    \/ CloseAdvisory(d)
    \/ Enforce(d)
    \/ WriteBundle(d)
    \/ Respond(d)

PipelineNext ==
    \/ Registering
    \/ \E d \in Decisions :
         \/ \E s \in Submissions : Intake(d, s)
         \/ Progress(d)
         \/ \E answer \in Answers : Resolved(d, answer)
         \/ \E g \in running[d], returned \in Returned : GateAnswers(d, g, returned)
         \/ Cancel(d)
         \/ FailWrite(d)
         \/ Replay(d)
    \/ PipelineCrash

PipelineSpec == PipelineInit /\ [][PipelineNext]_pipelineVars
FairPipelineSpec == PipelineSpec /\ \A d \in Decisions : WF_pipelineVars(Progress(d))

-----------------------------------------------------------------------------
(* Properties. *)

Stored(d) == bundles[d] # NoBundle

\* Deterministic replay: whatever was registered, replaced or restarted since
\* a decision read its registration, replaying its bundle finds that
\* registration and yields the recorded action.
ReplaysMatch == \A d \in Decisions : replays[d] \notin {"mismatch", "missing"}

\* No control is dropped: a stored bundle accounts for exactly the gate set of
\* the registration version it cites and of the deployment; every mandatory
\* gate ran or failed, and an advisory one was skipped only on a recorded
\* decision or once a mandatory gate had blocked it; a gate that ran is judged
\* by the tiers its plugin's declaration puts it under.
GateSetCovered ==
    \A d \in Decisions : Stored(d) =>
      LET b == bundles[d]
          gate_set == effective_gate_set(Profile[<<b.submission.reasoner, b.version>>])
          recorded == b.submission.mode = "record"
      IN  /\ DOMAIN b.records = DOMAIN gate_set
          /\ \A g \in DOMAIN gate_set :
               /\ b.records[g].mandatory <=> (g \in Mandated \/ gate_set[g])
               /\ b.records[g].status = "ran" =>
                    (b.records[g].output.deterministic <=> g \in Deterministic)
               /\ b.records[g].status = "skipped" =>
                    /\ ~b.records[g].mandatory
                    /\ recorded \/ \E h \in DOMAIN gate_set :
                                     /\ b.records[h].mandatory
                                     /\ b.records[h].enforcement.action = "BLOCK"

\* A stored decision is about somebody the ledger can answer for, whatever was
\* registered while its resolver was asked: its bundle can be read back; if
\* unresolved it is the entity its reasoner submitted (the fallback derives
\* it from a registration, intake checked it against one); if resolved, the
\* answer of the active resolver about the subject that was asked.
SubjectIsNamed ==
    \A d \in Decisions : Stored(d) =>
      LET s == bundles[d].submission
          identity == bundles[d].identity
      IN  /\ ValidBundle(bundles[d])
          /\ IF identity.method = "unresolved"
             THEN <<identity.entity, identity.type>> = <<s.entity, s.entity_type>>
             ELSE /\ identity.resolved_by = Resolver.resolver_id
                  /\ {r.type : r \in identity.related} \subseteq Resolver.relationship_types

\* A bundle is written once and never changes, a decision submitted again
\* under the same decision_id after its answer was lost included.
BundlesImmutable ==
    [][\A d \in Decisions : Stored(d) => bundles'[d] = bundles[d]]_pipelineVars

\* Every accepted decision ends: no gate, however it hangs, keeps it forever.
AcceptedEnds ==
    \A d \in Decisions : (stage[d] = "identity") ~> (stage[d] \in {"answered", "lost"})
=============================================================================
