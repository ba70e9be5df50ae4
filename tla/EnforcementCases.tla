--------------------------- MODULE EnforcementCases ---------------------------
(***************************************************************************)
(* One decision taken through the enforcement layer with every bounded     *)
(* input: a registration, a submission, and gates that end one after the   *)
(* other in every way a gate can end.  The promises the resolver and the   *)
(* combinator make (app/enforcement/resolver.py, core/gate/combinator.py)  *)
(* are stated over the decisions reached, most of them by comparing the    *)
(* decision with the one a changed gate set would have produced.           *)
(***************************************************************************)
EXTENDS Enforcement, FiniteSets

CONSTANTS Registrations,  \* enforcement profiles: [novel, groups, rules]
          Evidence,       \* what a submission's evidence amounts to
          Outcomes,       \* how a gate may end: [status, output]
          MaxMandatory,   \* bound: mandatory gates of the decision
          MaxAdvisory     \* bound: advisory gates of the decision

\* Gate outputs permit actions of the vocabulary; the rules of a registration
\* justify such actions under ids of their own (its validators say so).
ASSUME EnforcementConstants ==
    /\ \A outcome \in Outcomes : outcome.status \in {"ran", "failed"}
                                /\ outcome.output.permitted \subseteq DecisionAction
    /\ \A r \in Registrations : \A rule \in r.rules :
         /\ rule.action \in DecisionAction
         /\ \A other \in r.rules : other.rule_id = rule.rule_id => other = rule

VARIABLES stage,        \* "mandatory" -> "advisory" -> "decided"
          registration, submission, cited, competing,
          records,      \* the gate records so far, mandatory ones first
          decision      \* what resolve_decision returned

vars == <<stage, registration, submission, cited, competing, records, decision>>

NoCheck == [rule |-> NoRule, holds |-> FALSE]
Undecided == Fired(NoRule, NoAction)

Submission == [mode : {"gate", "record"}, proposed : DecisionAction \cup {NoAction},
               evidence : Evidence]

RecordOf(mandatory, outcome) ==
    [mandatory |-> mandatory, status |-> outcome.status, output |-> outcome.output,
     enforcement |-> resolve_gate_output(outcome.output, registration.groups)]

SkippedRecord ==
    [mandatory |-> FALSE, status |-> "skipped", output |-> NoOutput,
     enforcement |-> Undecided]

\* A gated submission proposes any action or none; a recorded one proposes
\* exactly the action its cited rule justifies.
Init ==
    /\ stage = "mandatory"
    /\ registration \in Registrations
    /\ \E e \in Evidence :
         \/ /\ \E p \in DecisionAction \cup {NoAction} :
                 submission = [mode |-> "gate", proposed |-> p, evidence |-> e]
            /\ cited = NoCheck
            /\ competing = {}
         \/ \E rule \in registration.rules :
              /\ submission = [mode |-> "record", proposed |-> rule.action, evidence |-> e]
              /\ cited = evaluate_bypass(rule, e)
              /\ competing = evaluate_competing_rules(registration.rules, rule, e)
    /\ records = <<>>
    /\ decision = Undecided

EndMandatory(outcome) ==
    /\ stage = "mandatory"
    /\ Len(records) < MaxMandatory
    /\ records' = Append(records, RecordOf(TRUE, outcome))
    /\ UNCHANGED <<stage, registration, submission, cited, competing, decision>>

CloseMandatory ==
    /\ stage = "mandatory"
    /\ stage' = "advisory"
    /\ UNCHANGED <<registration, submission, cited, competing, records, decision>>

MayAddAdvisory ==
    /\ stage = "advisory"
    /\ Cardinality({i \in DOMAIN records : ~records[i].mandatory}) < MaxAdvisory

\* Advisory gates run unless the decision is recorded or already blocked.
Skips == submission.mode = "record" \/ blocked_by_mandatory_gate(records)

EndAdvisory(outcome) ==
    /\ MayAddAdvisory
    /\ ~Skips
    /\ records' = Append(records, RecordOf(FALSE, outcome))
    /\ UNCHANGED <<stage, registration, submission, cited, competing, decision>>

SkipAdvisory ==
    /\ MayAddAdvisory
    /\ Skips
    /\ records' = Append(records, SkippedRecord)
    /\ UNCHANGED <<stage, registration, submission, cited, competing, decision>>

\* Intake refuses a gated submission with no gate to evaluate it (NO_GATES).
Decide ==
    /\ stage = "advisory"
    /\ submission.mode = "gate" => records # <<>>
    /\ decision' = resolve_decision(submission, records, registration, cited, competing)
    /\ stage' = "decided"
    /\ UNCHANGED <<registration, submission, cited, competing, records>>

Next ==
    \/ \E outcome \in Outcomes : EndMandatory(outcome) \/ EndAdvisory(outcome)
    \/ CloseMandatory
    \/ SkipAdvisory
    \/ Decide

Spec == Init /\ [][Next]_vars

-----------------------------------------------------------------------------
(* Properties of the decisions reached. *)

Decided == stage = "decided"
ActionWith(otherRecords) ==
    resolve_decision(submission, otherRecords, registration, cited, competing).action

\* Fail closed: a decision one of whose gates failed (no output, or an output
\* without a verdict) is at least held, whatever the other gates, the
\* proposal, the bypass rule and the novel-entity tier say.
FailClosed ==
    Decided =>
      \A i \in Enforced(records) :
        ~records[i].output.verdict => AtLeast(decision.action, "HOLD")

\* No gate relaxes another: removing any one gate from the set never yields a
\* stricter decision ("adding a gate can only keep or raise it"), although
\* the novel-entity tier replaces the advisory verdicts.
Without(i) == [j \in 1 .. Len(records) - 1 |-> records[IF j < i THEN j ELSE j + 1]]
AddingAGateNeverRelaxes ==
    Decided =>
      \A i \in DOMAIN records :
        (Enforced(Without(i)) # {} \/ submission.mode = "record") =>
          AtLeast(decision.action, ActionWith(Without(i)))

\* Skipping the advisory gates once a mandatory gate blocks is safe: with any
\* outcomes in their place the action and the decision-level rule are the same.
SkippingIsSafe ==
    (Decided /\ submission.mode = "gate" /\ blocked_by_mandatory_gate(records)) =>
      LET skipped == {i \in DOMAIN records : records[i].status = "skipped"}
      IN  \A run \in [skipped -> Outcomes] :
            resolve_decision(submission,
                             [i \in DOMAIN records |->
                                IF i \in skipped THEN RecordOf(FALSE, run[i]) ELSE records[i]],
                             registration, cited, competing) = decision

\* The resolver this one was split from: one pass over one gate's tiers.
SinglePass(output, novel, groups) ==
    LET tiered == resolve_gate_output(output, groups)
    IN  IF tiered.rule \in {TIER1_SCHEMA_FAILURE, TIER2_ADVERSARIAL_PROBE} THEN tiered
        ELSE IF novel THEN Fired(TIER3_NOVEL_ENTITY, "HOLD")
        ELSE tiered

\* One advisory gate, no proposal, no mandatory gate: the split resolver
\* reproduces the single-pass one, action and credited rule.
ReproducesSinglePass ==
    (Decided /\ submission.mode = "gate" /\ submission.proposed = NoAction
       /\ Len(records) = 1 /\ ~records[1].mandatory) =>
      Fired(credited_rule(decision, records, cited, competing), decision.action)
        = SinglePass(records[1].output, submission.evidence \in registration.novel,
                     registration.groups)

\* The rule a summary credits really set the action: a credited decision-level
\* rule contributes the final action, a credited gate-level rule is that of a
\* gate enforced at it, and nothing is credited only when the proposal or an
\* accepted verdict is the final action.
CreditExplainsAction ==
    Decided =>
      LET rule  == credited_rule(decision, records, cited, competing)
          level == decision_level(submission, records, registration, cited, competing)
      IN  \/ rule # NoRule /\ rule = decision.rule /\ decision.action \in level.actions
          \/ \E i \in Enforced(records) :
               records[i].enforcement = Fired(rule, decision.action)
          \/ rule = NoRule /\ submission.proposed = decision.action

\* A recorded action is never served below what the reasoner's own rules
\* justify on the evidence: the cited rule must hold or the decision is held,
\* and every other registered rule that holds is a floor.
RecordedFloor ==
    (Decided /\ submission.mode = "record") =>
      /\ ~cited.holds => AtLeast(decision.action, "HOLD")
      /\ \A rule \in registration.rules :
           submission.evidence \in rule.predicate => AtLeast(decision.action, rule.action)
=============================================================================
