------------------------------- MODULE MCDayRuns -------------------------------
(* Days of three rows: accounts in two bands of the score, one at a boundary,  *)
(* and a flagged one; settlements within, at and beyond the tolerance.  The    *)
(* other batch registration keeps one of the rules with a lower threshold and  *)
(* drops the others; the other daily one narrows the tolerance.                *)
(* Beside them, the evaluation of a reasoner: a scenario of two orderings, an    *)
(* unstable one, datasets that are missing, empty or dated badly.               *)
EXTENDS DayRuns, Evaluation

Account(score, flagged, days) ==
    [score |-> score, flagged |-> flagged, days |-> days, returned |-> 0]
Settled(actual) == [target |-> 1000, actual |-> actual]

MCBatchRows == {Account(10, FALSE, 0), Account(60, FALSE, 45), Account(90, TRUE, 90)}
MCDailyRows == {Settled(993), Settled(1010), Settled(700)}

MCDirectories == {{}, {mock_batch_v1, mock_daily_v1},
                  {mock_batch_v1, [mock_batch_v1 EXCEPT !.default_action = "HOLD"]}}

MCOtherRegistration ==
    [m \in {"batch", "daily"} |->
       IF m = "batch"
       THEN [mandatory |-> FALSE,
             rules |-> {BypassRule("current-account", AllOf(<<Score("lt", 5), _NOT_FLAGGED>>), "ALLOW")}]
       ELSE [mandatory |-> TRUE,
             rules |-> {BypassRule("within-tolerance", Drift("lt", 50), "ALLOW")}]]

Event(event_id, account, at, amount) ==
    [event_id |-> event_id, account |-> account, at |-> at, amount |-> amount]
\* A third transfer of an account that fits its history is steady; a fourth
\* is a surge; a large one, or one of a young account, asks the gate.
MCCoveredBy(e, prior) == CASE e.amount = 1 /\ Len(prior) = 2 -> "ALLOW"
                           [] Len(prior) > 2 -> "BLOCK"
                           [] OTHER -> "none"
MCGateSays(e) == IF e.amount = 1 THEN "ALLOW" ELSE "CHALLENGE"

s1 == Event("s1", "a", 1, 1)
s2 == Event("s2", "a", 2, 1)
s3 == Event("s3", "a", 3, 1)
large == Event("large", "a", 4, 9)
Steady == <<<<s1, s2, s3>>, <<s2, s1, s3>>>>
Unstable == <<<<s1, s2, large>>, <<s1, large, s2>>>>
Late == <<<<Event("s9", "a", 9, 1), s1, s3>>, <<s1, s2>>>>

Check(check, events, expected) == [check |-> check, events |-> events, expected |-> expected]
r(id, at, amount) == Event(id, "b", at, amount)
MCCases == <<Check("injection", <<r("i1", 10, 9), r("i2", 10, 9)>>, "HOLD"),
             Check("schema", <<r("v1", 11, 1)>>, "HOLD"),
             Check("novel", <<r("n1", 12, 1), r("n2", 13, 9)>>, "HOLD"),
             Check("fallback", <<r("f1", 14, 1), r("f2", 15, 9)>>, "HOLD")>>
Backdated == <<Check("novel", <<r("n1", 14, 1), r("n2", 10, 9)>>, "HOLD")>>

Shipped(files, scenarios, cases) == [files |-> files, scenarios |-> scenarios, cases |-> cases]
MCEvents == {s1, s2, s3, large} \cup {Event("s9", "a", 9, 1)}
              \cup UNION {Range(c.events) : c \in Range(MCCases \o Backdated)}
MCDatasets == {Shipped({"scenarios", "injection", "schema", "fallback"}, <<Steady>>, MCCases),
               Shipped({"scenarios", "novel"}, <<Unstable>>, MCCases),
               Shipped({"scenarios", "novel"}, <<Late>>, Backdated),
               Shipped({"scenarios", "schema"}, <<>>, MCCases),
               Shipped({"scenarios", "novel"}, <<>>, Backdated),
               Shipped({"injection"}, <<Steady>>, MCCases),
               Shipped({"scenarios"}, <<Steady>>, MCCases)}
EntryPoint(loads, adapts, named) == [loads |-> loads, adapts |-> adapts, named |-> named]
MCInstalled == {<<EntryPoint(TRUE, TRUE, TRUE)>>, <<>>, <<EntryPoint(TRUE, TRUE, FALSE)>>}

IsUniform == \A x, y \in RowsOfDay : day[x] = day[y] /\ ~IsException(x)

VARIABLE activity \* what is going on

MCInit ==
    /\ activity \in {"day", "evaluation"}
    /\ DayInit
    /\ activity = "evaluation" =>
          mock = "batch" /\ rulesets = {} /\ ~keyWrites /\ run = DayRun(0) /\ IsUniform
    /\ EvaluationInit
    /\ activity = "day" =>
          reasoner = "example" /\ entries = <<>> /\ dataset.scenarios = <<>> /\ dataset.cases = MCCases

MCNext ==
    /\ \/ activity = "day" /\ DayNext /\ UNCHANGED evalVars
       \/ activity = "evaluation" /\ EvaluationNext /\ UNCHANGED dayVars
    /\ UNCHANGED activity

MCSpec == MCInit /\ [][MCNext]_<<dayVars, evalVars, activity>>
================================================================================
