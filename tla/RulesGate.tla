------------------------------- MODULE RulesGate -------------------------------
(***************************************************************************)
(* The rules gate (gates/rules): it evaluates the rule set a submission    *)
(* names, one of those the deployment staged, against the reasoner's       *)
(* evidence, and answers the output enforcement reads.  It never guesses:  *)
(* an unknown rule set, another reasoner's, or a predicate that cannot be  *)
(* evaluated gives no verdict, which enforcement holds.                    *)
(***************************************************************************)
EXTENDS Predicates, Enforcement

RulesGateRule(rule_id, when, action) == [rule_id |-> rule_id, when |-> when, action |-> action]

RuleSet(ruleset_id, reasoner, default_action, rules) ==
    [ruleset_id |-> ruleset_id, reasoner |-> reasoner,
     default_action |-> default_action, rules |-> rules]

\* load_rulesets refuses a directory in which two files declare one id.
Loadable(rulesets) == \A r, s \in rulesets : r.ruleset_id = s.ruleset_id => r = s

\* No verdict: `failure' says why.
_failed(failure) ==
    [output |-> [NoOutput EXCEPT !.deterministic = TRUE], matched |-> {},
     default_applied |-> FALSE, failure |-> failure]

Matched(ruleset, subject) ==
    {r \in ruleset.rules : evaluate_predicate(r.when, subject) = "holds"}

\* The actions of every matching rule, or the default when none matches.
Permitted(ruleset, matched) ==
    IF matched = {} THEN {ruleset.default_action} ELSE {r.action : r \in matched}

evaluate(rulesets, ruleset_id, reasoner, subject) ==
    IF ~\E r \in rulesets : r.ruleset_id = ruleset_id THEN _failed("unknown_ruleset")
    ELSE LET ruleset == CHOOSE r \in rulesets : r.ruleset_id = ruleset_id
             matched == Matched(ruleset, subject)
         IN  IF ruleset.reasoner # reasoner THEN _failed("ruleset_reasoner_mismatch")
             ELSE IF \E r \in ruleset.rules : evaluate_predicate(r.when, subject) = "error"
             THEN _failed("predicate_error")
             ELSE [output |-> [NoOutput EXCEPT !.verdict = TRUE, !.deterministic = TRUE,
                                               !.permitted = Permitted(ruleset, matched)],
                   matched |-> {r.rule_id : r \in matched},
                   default_applied |-> matched = {}, failure |-> "none"]
=============================================================================
