---------------------------- MODULE MCEnforcement ----------------------------
(* Bounded inputs for EnforcementCases: every gate-level tier fires for some *)
(* outcome and is skipped for another, and every decision-level rule too.    *)
EXTENDS EnforcementCases

MCEvidence == {"known", "novel"}

Rule(id, action, predicate) == [rule_id |-> id, action |-> action, predicate |-> predicate]

\* A lenient rule, a stricter one and the strictest, holding for different
\* evidence; two conflict groups or none; a novel-entity feature or none.
RuleSets ==
    {{Rule("low", "ALLOW", {"known"})},
     {Rule("low", "ALLOW", {"known", "novel"}), Rule("mid", "CHALLENGE", {"novel"})},
     {Rule("low", "ALLOW", {"known"}), Rule("hold", "HOLD", {"known", "novel"}),
      Rule("top", "BLOCK", {"novel"})}}

MCRegistrations ==
    [novel : {{}, {"novel"}}, groups : {{{"eu"}, {"us"}}}, rules : RuleSets]

Output(deterministic, probe, unsure, permitted, jurisdictions, conflict) ==
    [verdict |-> TRUE, deterministic |-> deterministic, probe |-> probe,
     unsure |-> unsure, permitted |-> permitted, jurisdictions |-> jurisdictions,
     conflict |-> conflict]

Ran(output) == [status |-> "ran", output |-> output]

MCOutcomes ==
    {[status |-> "failed", output |-> NoOutput],
     Ran(NoOutput),
     Ran(Output(FALSE, TRUE,  FALSE, {"ALLOW"}, {}, FALSE)),
     Ran(Output(TRUE,  TRUE,  TRUE,  {"HOLD", "BLOCK"}, {}, FALSE)),
     Ran(Output(FALSE, FALSE, TRUE,  {"ALLOW", "BLOCK"}, {}, FALSE)),
     Ran(Output(FALSE, FALSE, TRUE,  {"ALLOW", "CHALLENGE"}, {"eu"}, FALSE)),
     Ran(Output(FALSE, FALSE, FALSE, {"ALLOW"}, {"eu", "us"}, FALSE)),
     Ran(Output(TRUE,  FALSE, FALSE, {"ALLOW"}, {"eu"}, TRUE)),
     Ran(Output(FALSE, FALSE, FALSE, {"ALLOW"}, {}, TRUE)),
     Ran(Output(FALSE, FALSE, FALSE, {}, {"us"}, FALSE)),
     Ran(Output(TRUE,  FALSE, FALSE, {"BLOCK"}, {}, FALSE))}
=============================================================================
