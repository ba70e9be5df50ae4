----------------------------- MODULE Enforcement -----------------------------
(***************************************************************************)
(* The deterministic enforcement layer: how the gates' outputs, the        *)
(* reasoner's proposal and the registered bypass rules become the one      *)
(* action of a decision (app/enforcement/resolver.py over the conjunction  *)
(* combinator of core/gate/combinator.py).  Everything here is a pure      *)
(* operator: DecisionPipeline calls them at decision time and replay calls *)
(* them again on what the bundle stores.                                   *)
(*                                                                         *)
(* Data is abstracted to what the rules tell apart:                        *)
(*   - a gate output is a record of the flags the tiers read; confidence   *)
(*     is `unsure' (below LOW_CONFIDENCE_THRESHOLD), the required controls *)
(*     are `probe' and `conflict', the latter also standing for an         *)
(*     escalation worded as a conflict;                                    *)
(*   - the evidence of a submission is one value, a bypass predicate the   *)
(*     set of evidence values it holds for (one that cannot be evaluated   *)
(*     does not hold), the novel-entity feature the set it is truthy for   *)
(*     ({} when the registration configures none).                         *)
(***************************************************************************)
EXTENDS Integers, Sequences

-----------------------------------------------------------------------------
(* The action vocabulary and the combinator. *)

DecisionAction == {"ALLOW", "CHALLENGE", "HOLD", "BLOCK"}

\* No proposal: the combinator's identity.
NoAction == "none"

severity == [a \in DecisionAction |-> CASE a = "ALLOW"     -> 0
                                        [] a = "CHALLENGE" -> 1
                                        [] a = "HOLD"      -> 2
                                        [] a = "BLOCK"     -> 3]

AtLeast(a, b) == severity[a] >= severity[b]

Strictest(actions) == CHOOSE a \in actions : \A b \in actions : AtLeast(a, b)

Candidates(proposed, enforced) == ({proposed} \ {NoAction}) \cup enforced

most_restrictive(proposed, enforced) == Strictest(Candidates(proposed, enforced))

-----------------------------------------------------------------------------
(* Rules and gate outputs. *)

NoRule == "no rule"
TIER1_SCHEMA_FAILURE == "tier1_schema_failure"
TIER2_ADVERSARIAL_PROBE == "tier2_adversarial_probe"
TIER3_NOVEL_ENTITY == "tier3_novel_entity"
TIER4_LOW_CONFIDENCE == "tier4_low_confidence"
TIER5_JURISDICTION_CONFLICT == "tier5_jurisdiction_conflict"
BYPASS_RULE_NOT_SATISFIED == "bypass_rule_not_satisfied"
BYPASS_RULE_SUPERSEDED == "bypass_rule_superseded"

Fired(rule, action) == [rule |-> rule, action |-> action]

\* A gate that failed closed: no output, hence no verdict.
NoOutput == [verdict |-> FALSE, deterministic |-> FALSE, probe |-> FALSE,
             unsure |-> FALSE, permitted |-> {}, jurisdictions |-> {},
             conflict |-> FALSE]

most_conservative(actions) == IF actions = {} THEN "HOLD" ELSE Strictest(actions)

has_jurisdiction_conflict(output, groups) ==
    \/ output.conflict
    \/ \E g, h \in groups : /\ g # h
                            /\ g \cap output.jurisdictions # {}
                            /\ h \cap output.jurisdictions # {}

\* The gate-level tiers, in order: the first that fires decides.
resolve_gate_output(output, groups) ==
    LET conservative == most_conservative(output.permitted) IN
    CASE ~output.verdict ->
           Fired(TIER1_SCHEMA_FAILURE, "HOLD")
      [] output.verdict /\ ~output.deterministic /\ output.probe ->
           Fired(TIER2_ADVERSARIAL_PROBE, "BLOCK")
      [] /\ output.verdict /\ ~output.deterministic /\ ~output.probe
         /\ output.unsure /\ conservative \in {"HOLD", "BLOCK"} ->
           Fired(TIER4_LOW_CONFIDENCE, "HOLD")
      [] OTHER ->
           IF /\ output.jurisdictions # {}
              /\ has_jurisdiction_conflict(output, groups)
           THEN Fired(TIER5_JURISDICTION_CONFLICT, "HOLD")
           ELSE Fired(NoRule, conservative)

-----------------------------------------------------------------------------
(* Gate records: one per gate of the decision's gate set, in record order.  *)
(* status is "ran", "failed" or "skipped"; a skipped gate contributes       *)
(* nothing, its enforcement field is never read.                            *)

Enforced(records)  == {i \in DOMAIN records : records[i].status # "skipped"}
Mandatory(records) == {i \in Enforced(records) : records[i].mandatory}
Advisory(records)  == {i \in Enforced(records) : ~records[i].mandatory}

ActionsOf(records, at) == {records[i].enforcement.action : i \in at}
RulesOf(records, at)   == {records[i].enforcement.rule : i \in at}

blocked_by_mandatory_gate(records) == "BLOCK" \in ActionsOf(records, Mandatory(records))

-----------------------------------------------------------------------------
(* Bypass rules.  A check is a registered rule with its outcome. *)

evaluate_bypass(rule, evidence) == [rule |-> rule, holds |-> evidence \in rule.predicate]

evaluate_competing_rules(rules, cited, evidence) ==
    {evaluate_bypass(rule, evidence) : rule \in {r \in rules : r.rule_id # cited.rule_id}}

\* The rules that hold and justify a stricter action than the cited one.
StricterActions(cited, competing) ==
    {check.rule.action :
       check \in {c \in competing : /\ c.holds
                                    /\ ~AtLeast(cited.rule.action, c.rule.action)}}

\* What a decision level contributes: the rule it credits and the actions
\* that enter the combinator.
Contribution(rule, actions) == [rule |-> rule, actions |-> actions]

\* Mutant: the competing rules are looked at only when the cited one fails.
bypass_rules_CitedOnly(cited, competing) ==
    LET stricter == StricterActions(cited, competing)
    IN  IF cited.holds THEN Contribution(NoRule, {})
        ELSE Contribution(BYPASS_RULE_NOT_SATISFIED,
                          {"HOLD"} \cup (IF stricter = {} THEN {} ELSE {Strictest(stricter)}))

bypass_rules(cited, competing) ==
    LET stricter     == StricterActions(cited, competing)
        notSatisfied == IF cited.holds THEN {} ELSE {"HOLD"}
        superseded   == IF stricter = {} THEN {} ELSE {Strictest(stricter)}
        outranks     == \E s \in superseded : \A f \in notSatisfied : ~AtLeast(f, s)
    IN  Contribution(IF outranks THEN BYPASS_RULE_SUPERSEDED
                     ELSE IF notSatisfied # {} THEN BYPASS_RULE_NOT_SATISFIED
                     ELSE NoRule,
                     notSatisfied \cup superseded)

-----------------------------------------------------------------------------
(* The decision level. *)

\* Mutant: an advisory gate that failed abstains.
advisory_side_Abstains(evidence, novel, records) ==
    LET ran   == {i \in Advisory(records) : records[i].status = "ran"}
        rules == RulesOf(records, ran)
    IN  IF evidence \notin novel
        THEN Contribution(NoRule, IF ran = {} THEN {"ALLOW"} ELSE {Strictest(ActionsOf(records, ran))})
        ELSE IF TIER2_ADVERSARIAL_PROBE \in rules
        THEN Contribution(NoRule, {"BLOCK"})
        ELSE Contribution(TIER3_NOVEL_ENTITY, {"HOLD"})

\* Mutant: the novel-entity tier outranks an adversarial probe.
advisory_side_NovelFirst(evidence, novel, records) ==
    LET advisory == Advisory(records)
        plain    == IF advisory = {} THEN {} ELSE {Strictest(ActionsOf(records, advisory))}
    IN  IF evidence \notin novel
        THEN Contribution(NoRule, plain)
        ELSE Contribution(TIER3_NOVEL_ENTITY, {"HOLD"})

\* Mutant: a probe counts only when every advisory gate reports it.
advisory_side_EveryProbe(evidence, novel, records) ==
    LET advisory == Advisory(records)
        plain    == IF advisory = {} THEN {} ELSE {Strictest(ActionsOf(records, advisory))}
    IN  IF evidence \notin novel
        THEN Contribution(NoRule, plain)
        ELSE IF RulesOf(records, advisory) = {TIER2_ADVERSARIAL_PROBE}
        THEN Contribution(NoRule, {"BLOCK"})
        ELSE Contribution(TIER3_NOVEL_ENTITY, {"HOLD"})

\* The advisory gates of a gated decision no mandatory gate blocks.
advisory_side(evidence, novel, records) ==
    LET advisory == Advisory(records)
        rules    == RulesOf(records, advisory)
        plain    == IF advisory = {} THEN {} ELSE {Strictest(ActionsOf(records, advisory))}
    IN  IF evidence \notin novel
        THEN Contribution(NoRule, plain)
        ELSE IF TIER2_ADVERSARIAL_PROBE \in rules
        THEN Contribution(NoRule, {"BLOCK"})
        ELSE IF rules = {TIER1_SCHEMA_FAILURE}
        THEN Contribution(NoRule, {"HOLD"})
        ELSE Contribution(TIER3_NOVEL_ENTITY, {"HOLD"})

\* Mutant: a mandatory block does not skip the advisory side.
decision_level_NoSkip(submission, records, registration, cited, competing) ==
    IF submission.mode = "record"
    THEN bypass_rules(cited, competing)
    ELSE advisory_side(submission.evidence, registration.novel, records)

\* What the mode adds to the mandatory gates' actions.
decision_level(submission, records, registration, cited, competing) ==
    IF submission.mode = "record"
    THEN bypass_rules(cited, competing)
    ELSE IF blocked_by_mandatory_gate(records)
    THEN Contribution(NoRule, ActionsOf(records, Advisory(records)))
    ELSE advisory_side(submission.evidence, registration.novel, records)

resolve_decision(submission, records, registration, cited, competing) ==
    LET level == decision_level(submission, records, registration, cited, competing)
    IN  Fired(level.rule,
              most_restrictive(submission.proposed,
                               ActionsOf(records, Mandatory(records)) \cup level.actions))

\* Mutant: the decision-level rule is credited even when it was outranked.
credited_rule_Always(decision, records, cited, competing) ==
    LET setting == {i \in Enforced(records) : records[i].enforcement.action = decision.action}
        first   == CHOOSE i \in setting : \A j \in setting : i <= j
    IN  IF decision.rule # NoRule THEN decision.rule
        ELSE IF setting = {} THEN NoRule
        ELSE records[first].enforcement.rule

\* The one rule a single-rule summary of a decision names.
credited_rule(decision, records, cited, competing) ==
    LET final    == decision.action
        stricter == StricterActions(cited, competing)
        setting  == {i \in Enforced(records) : records[i].enforcement.action = final}
        first    == CHOOSE i \in setting : \A j \in setting : i <= j
    IN  IF \/ /\ decision.rule \in {TIER3_NOVEL_ENTITY, BYPASS_RULE_NOT_SATISFIED}
              /\ final = "HOLD"
           \/ /\ decision.rule = BYPASS_RULE_SUPERSEDED
              /\ stricter # {}
              /\ Strictest(stricter) = final
        THEN decision.rule
        ELSE IF setting = {} THEN NoRule
        ELSE records[first].enforcement.rule
=============================================================================
