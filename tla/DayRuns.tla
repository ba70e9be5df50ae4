-------------------------------- MODULE DayRuns --------------------------------
(***************************************************************************)
(* A day of a batch or a daily reasoner, from its rows to its exit code.   *)
(* The batch mock records what a bypass rule covers in batch requests      *)
(* (POST /api/v1/decisions:batch) and submits the exceptions one by one;   *)
(* the daily mock submits every row on its own.  Both submit over HTTP,    *)
(* read each decision's bundle back and report what the ledger decided.    *)
(* The ledger does not deduplicate and the client never retries, so what a *)
(* run that stops says of its rows is all an operator has to go by.        *)
(***************************************************************************)
EXTENDS RulesGate, Selection, SequencesExt

CONSTANTS BatchRows,   \* what an account-day may hold
          DailyRows,   \* what a settlement may hold
          DaySize,     \* rows of a day
          ChunkSize,   \* chunk_size of a batch run
          Directories, \* the rule-set directories a ledger may be started with
          OtherRegistration, \* what another version of a registration holds
          MaxFaults    \* bound: requests that fail, and replacements

\* AccountDay and AccountSettlement; a target is positive.
ASSUME DayRows ==
    /\ BatchRows \subseteq [score : Int, flagged : BOOLEAN, days : Nat, returned : Nat]
    /\ DailyRows \subseteq [target : Nat \ {0}, actual : Int]

ASSUME DayConstants == DaySize \in Nat /\ ChunkSize \in Nat \ {0} /\ MaxFaults \in Nat

VARIABLES mock,     \* "batch" or "daily"
          day,      \* score_rows: the submission of each row, in row order
          rulesets, \* the rule sets the ledger loaded
          keyWrites,\* whether the run's key may write the mock's decisions
          served,   \* the registration the ledger serves: "mine", "other", "none"
          store,    \* the decisions stored of each row, in order
          wire,     \* the request in flight
          run,      \* what the run knows (DayRun) and where it stands
          exit,     \* the exit code of the run's process
          faults

dayVars == <<mock, day, rulesets, keyWrites, served, store, wire, run, exit, faults>>

Rows == BatchRows \cup DailyRows
RowsOfDay == DOMAIN day

-----------------------------------------------------------------------------
(* The two registrations and rule sets, in hundredths of the source's units. *)

BypassRule(rule_id, when, action) ==
    [rule_id |-> rule_id, version |-> 1, when |-> when, action |-> action]

_NOT_FLAGGED == Compare("needs_review", "eq", Flag(FALSE))
Score(op, threshold) == Compare(LABEL_FIELD, op, Number(threshold))
Band(low, high) == AllOf(<<Score("ge", low), Score("lt", high), _NOT_FLAGGED>>)

MOCK_BATCH_REGISTRATION ==
    [mandatory |-> FALSE,
     rules |-> {BypassRule("current-account", AllOf(<<Score("lt", 30), _NOT_FLAGGED>>), "ALLOW"),
                BypassRule("watch-list", Band(30, 60), "CHALLENGE"),
                BypassRule("delinquent-hold", Band(60, 85), "HOLD"),
                BypassRule("charge-off", AllOf(<<Score("ge", 85), _NOT_FLAGGED>>), "BLOCK")}]

Drift(op, threshold) == Compare("abs_drift_pct", op, Number(threshold))

\* Mutant: a drift of exactly the tolerance is within it.
WITHIN_TOLERANCE_RULE_Inclusive == BypassRule("within-tolerance", Drift("le", 100), "ALLOW")

WITHIN_TOLERANCE_RULE == BypassRule("within-tolerance", Drift("lt", 100), "ALLOW")
MOCK_DAILY_REGISTRATION == [mandatory |-> TRUE, rules |-> {WITHIN_TOLERANCE_RULE}]

Days(op, days) == Compare("days_past_due", op, Number(days))
mock_batch_v1 ==
    RuleSet("mock-batch-v1", "batch", "ALLOW",
            {RulesGateRule("flagged-charge-off", Days("ge", 90), "BLOCK"),
             RulesGateRule("flagged-delinquent", Days("ge", 60), "HOLD"),
             RulesGateRule("flagged-returned-payment",
                           Compare("returned_payments", "ge", Number(1)), "HOLD"),
             RulesGateRule("flagged-past-due", Days("ge", 30), "CHALLENGE")})
mock_daily_v1 ==
    RuleSet("mock-daily-v1", "daily", "ALLOW",
            {RulesGateRule("drift-severe", Drift("ge", 2000), "BLOCK"),
             RulesGateRule("drift-major", Drift("ge", 500), "HOLD"),
             RulesGateRule("drift-minor", Drift("ge", 100), "CHALLENGE")})

\* A directory a ledger starts with has the daily rule set as it is shipped.
ASSUME ShippedRules ==
    \A d \in Directories : Loadable(d) =>
      \A s \in d : s.ruleset_id = "mock-daily-v1" => s = mock_daily_v1

RULESET_ID == [m \in {"batch", "daily"} |-> IF m = "batch" THEN "mock-batch-v1" ELSE "mock-daily-v1"]
MockRegistration == IF mock = "batch" THEN MOCK_BATCH_REGISTRATION ELSE MOCK_DAILY_REGISTRATION
ServedRegistration == IF served = "mine" THEN MockRegistration ELSE OtherRegistration[mock]

-----------------------------------------------------------------------------
(* From a row to its submission. *)

\* drift_pct = 100 * (actual - target) / target; its absolute value is read.
compute_drift(row) ==
    LET drift == row.actual - row.target
    IN  (10000 * (IF drift < 0 THEN -drift ELSE drift)) \div row.target

\* reasoner_context: the scorer's output and the features it read.  The
\* logistic score of an account-day is part of the row.
reasoner_context(row) ==
    IF row \in BatchRows
    THEN [label_value |-> Number(row.score),
          feature_set |-> [needs_review |-> Flag(row.flagged),
                           days_past_due |-> Number(row.days),
                           returned_payments |-> Number(row.returned)]]
    ELSE [label_value |-> Number(compute_drift(row)),
          feature_set |-> [abs_drift_pct |-> Number(compute_drift(row))]]

\* A registered rule as enforcement reads it: with the rows it holds for.
Registered(rule) ==
    [rule_id |-> rule.rule_id, version |-> rule.version, action |-> rule.action,
     predicate |-> {row \in Rows : evaluate_predicate(rule.when, reasoner_context(row)) = "holds"}]
RegisteredRules(registration) == {Registered(rule) : rule \in registration.rules}

HoldingRules(rules, row) == {rule \in rules : evaluate_bypass(rule, row).holds}

\* The strictest rule that holds (no two of a mock's rules tie), or none.
matching_bypass_rule(rules, row) ==
    CHOOSE rule \in HoldingRules(rules, row) :
      \A other \in HoldingRules(rules, row) : AtLeast(rule.action, other.action)

build_submission(row) ==
    LET rules == RegisteredRules(MockRegistration)
    IN  IF HoldingRules(rules, row) = {}
        THEN [mode |-> "gate", proposed |-> NoAction, cites |-> NoRule, evidence |-> row]
        ELSE LET rule == matching_bypass_rule(rules, row)
             IN  [mode |-> "record", proposed |-> rule.action, cites |-> rule.rule_id,
                  evidence |-> row]

-----------------------------------------------------------------------------
(* plan_day: the batch requests and the exceptions. *)

IsException(r) == day[r].mode = "gate"
RowOrder == [r \in RowsOfDay |-> r]
Exceptions == Ascending({r \in RowsOfDay : IsException(r)})

\* The recorded rows and the exception a batch run provokes a rejection with
\* (run.provoked; 0: none).  Requests take ChunkSize lines: NextChunk is the
\* one after the lines sent.
BatchLines == Ascending({r \in RowsOfDay : ~IsException(r) \/ r = run.provoked})
ChunkEnd ==
    IF run.sent + ChunkSize < Len(BatchLines) THEN run.sent + ChunkSize ELSE Len(BatchLines)
NextChunk == SubSeq(BatchLines, run.sent + 1, ChunkEnd)

-----------------------------------------------------------------------------
(* State. *)

\* A request: its rows, the result of each batch line decided so far, the
\* reply, and whether the client still waits for it.
NoRequest == [op |-> "none", rows |-> <<>>, results |-> <<>>, reply |-> "none", awaited |-> FALSE]
Request(op, rows) ==
    [op |-> op, rows |-> rows, results |-> [r \in {} |-> NoRule], reply |-> "pending",
     awaited |-> TRUE]

\* DayRun: how many batch lines were sent, the lines answered, the decisions
\* and refusals kept, the row in doubt, and whether the run stopped part way.
DayRun(first) ==
    [pc |-> "check", provoked |-> first, sent |-> 0, todo |-> <<>>, lines |-> [r \in {} |-> NoRule],
     decisions |-> [r \in {} |-> NoRule], refused |-> {}, in_doubt |-> 0, stopped |-> FALSE]

DayInit ==
    /\ mock \in {"batch", "daily"}
    /\ \E rows \in [1 .. DaySize -> IF mock = "batch" THEN BatchRows ELSE DailyRows] :
         day = [r \in 1 .. DaySize |-> build_submission(rows[r])]
    /\ rulesets \in {d \in Directories : Loadable(d)}
    /\ keyWrites \in BOOLEAN
    /\ served = "mine"
    /\ store = [r \in RowsOfDay |-> <<>>]
    /\ wire = NoRequest
    /\ \E provoke \in BOOLEAN :
         run = DayRun(IF provoke /\ mock = "batch" /\ Exceptions # <<>> THEN Exceptions[1] ELSE 0)
    /\ exit = "running"
    /\ faults = 0

Fault == faults < MaxFaults /\ faults' = faults + 1
LedgerUnchanged == UNCHANGED <<mock, day, rulesets, keyWrites, served, store>>
RunUnchanged == UNCHANGED <<mock, day, rulesets, keyWrites, served, run, exit>>

-----------------------------------------------------------------------------
(* The ledger: what it does with one submission. *)

\* The contract: the reasoner is registered, and a record cites a rule of its
\* registration, at the version pinned, with the rule's action.
Refuses(r) ==
    \/ served = "none"
    \/ /\ day[r].mode = "record"
       /\ ~\E rule \in ServedRegistration.rules :
             rule.rule_id = day[r].cites /\ rule.version = 1 /\ rule.action = day[r].proposed

GateAnswer(r) ==
    evaluate(rulesets, RULESET_ID[mock], mock, reasoner_context(day[r].evidence))

\* The rules gate's record: advisory on a record, it is skipped.
GateRecord(r) ==
    [mandatory |-> ServedRegistration.mandatory,
     status |-> IF ~ServedRegistration.mandatory /\ day[r].mode = "record" THEN "skipped" ELSE "ran",
     output |-> GateAnswer(r).output,
     enforcement |-> resolve_gate_output(GateAnswer(r).output, {})]

CitedCheck(r) ==
    LET rules == RegisteredRules(ServedRegistration)
    IN  evaluate_bypass(CHOOSE rule \in rules : rule.rule_id = day[r].cites, day[r].evidence)

\* The bundle of one row.
Decision(r) ==
    LET record    == day[r].mode = "record"
        cited     == IF record THEN CitedCheck(r) ELSE [rule |-> NoRule, holds |-> FALSE]
        competing == IF record
                     THEN evaluate_competing_rules(RegisteredRules(ServedRegistration), cited.rule,
                                                   day[r].evidence)
                     ELSE {}
    IN  [action |-> resolve_decision(day[r], <<GateRecord(r)>>, [novel |-> {}], cited, competing).action,
         holds |-> cited.holds, version |-> served, gate_status |-> GateRecord(r).status,
         matched |-> GateAnswer(r).matched, failure |-> GateAnswer(r).failure]

-----------------------------------------------------------------------------
(* The ledger: requests. *)

Received(op) == wire.op = op /\ wire.reply = "pending"
Reply(reply) == wire' = [wire EXCEPT !.reply = reply]
Write(r, decision) == store' = [store EXCEPT ![r] = Append(@, decision)]

\* require_submitter: the key may not write for the reasoner; nothing is decided.
RefuseKey ==
    /\ wire.op # "none" /\ wire.reply = "pending" /\ DOMAIN wire.results = {}
    /\ ~keyWrites
    /\ Reply("key")
    /\ RunUnchanged /\ UNCHANGED <<store, faults>>

\* POST /api/v1/decisions: decide and write.
CreateDecision ==
    /\ Received("submit") /\ keyWrites
    /\ LET r == wire.rows[1]
       IN  \/ Refuses(r) /\ Reply("refused") /\ UNCHANGED store
           \/ ~Refuses(r) /\ Write(r, Decision(r)) /\ Reply("ok")
    /\ RunUnchanged /\ UNCHANGED faults

Rejected(code) == [status |-> "rejected", code |-> code]

\* The result of one line: a gated one, or one that breaks its registration, is
\* rejected on its own.
LineResult(r) ==
    IF IsException(r) THEN Rejected("BATCH_RECORD_ONLY")
    ELSE IF Refuses(r) THEN Rejected("CONTRACT")
    ELSE [status |-> "recorded", decision |-> Decision(r)]

\* record_batch decides its lines concurrently, in any order.
DecideLine(r) ==
    /\ Received("batch") /\ keyWrites
    /\ r \in ToSet(wire.rows) \ DOMAIN wire.results
    /\ wire' = [wire EXCEPT !.results = Updated(@, [x \in {r} |-> LineResult(x)])]
    /\ RunUnchanged /\ UNCHANGED <<store, faults>>

\* Every line has its result: the recorded ones are written.
AllDecided == Received("batch") /\ DOMAIN wire.results = ToSet(wire.rows)

\* write_many inserts the bundles in line order, here those of the first n
\* lines; each row commits on its own.
WriteFirst(n) ==
    store' = [r \in RowsOfDay |->
                IF \E i \in 1 .. n : wire.rows[i] = r /\ wire.results[r].status = "recorded"
                THEN Append(store[r], wire.results[r].decision) ELSE store[r]]

\* Mutant: the lines are answered although the write stopped part way.
WriteBatch_AnswersAnyway ==
    /\ AllDecided
    /\ \E n \in 0 .. Len(wire.rows) : WriteFirst(n)
    /\ Reply("ok")
    /\ RunUnchanged /\ UNCHANGED faults

WriteBatch ==
    /\ AllDecided
    /\ WriteFirst(Len(wire.rows))
    /\ Reply("ok")
    /\ RunUnchanged /\ UNCHANGED faults

\* 500: the request fails before it wrote anything or after it wrote the
\* bundle, or the first bundles of a batch.
FailRequest ==
    /\ keyWrites /\ Fault
    /\ \/ /\ Received("submit")
          /\ LET r == wire.rows[1]
             IN  UNCHANGED store \/ (~Refuses(r) /\ Write(r, Decision(r)))
       \/ AllDecided /\ \E n \in 0 .. Len(wire.rows) : WriteFirst(n)
    /\ Reply("server")
    /\ RunUnchanged

\* Another registration is put, or the ledger is started again without the
\* reasoner.
ReplaceRegistration ==
    /\ exit = "running" /\ Fault
    /\ served' \in {"other", "none"} \ {served}
    /\ UNCHANGED <<mock, day, rulesets, keyWrites, store, wire, run, exit>>

-----------------------------------------------------------------------------
(* The run. *)

Ending(r) == [r EXCEPT !.pc = "done"]
StoppedRun(r) == [Ending(r) EXCEPT !.stopped = TRUE]

\* registration_problem, then run_day; a ledger serving another version, or
\* that does not answer, ends the run before anything is sent.
CheckRegistration ==
    /\ run.pc = "check"
    /\ \/ /\ served = "mine"
          /\ run' = IF mock = "batch" THEN [run EXCEPT !.pc = "batch"]
                    ELSE [run EXCEPT !.pc = "submit", !.todo = RowOrder]
          /\ UNCHANGED faults
       \/ served # "mine" /\ run' = StoppedRun(run) /\ UNCHANGED faults
       \/ served = "mine" /\ Fault /\ run' = StoppedRun(run)
    /\ LedgerUnchanged /\ UNCHANGED <<wire, exit>>

SendBatch ==
    /\ run.pc = "batch" /\ wire = NoRequest
    /\ run.sent < Len(BatchLines)
    /\ run' = [run EXCEPT !.sent = ChunkEnd]
    /\ wire' = Request("batch", NextChunk)
    /\ LedgerUnchanged /\ UNCHANGED <<exit, faults>>

\* The exceptions are submitted on their own, the provoked one only when its
\* line was rejected as record-only.
Rerouted(r) ==
    r = run.provoked =>
      r \in DOMAIN run.lines /\ run.lines[r] = Rejected("BATCH_RECORD_ONLY")

BatchesDone ==
    /\ run.pc = "batch" /\ wire = NoRequest
    /\ run.sent = Len(BatchLines)
    /\ run' = [run EXCEPT !.pc = "submit",
                          !.todo = Ascending({r \in RowsOfDay : IsException(r) /\ Rerouted(r)})]
    /\ LedgerUnchanged /\ UNCHANGED <<wire, exit, faults>>

SubmitRow ==
    /\ run.pc = "submit" /\ wire = NoRequest
    /\ run.todo # <<>>
    /\ wire' = Request("submit", <<Head(run.todo)>>)
    /\ run' = [run EXCEPT !.todo = Tail(@)]
    /\ LedgerUnchanged /\ UNCHANGED <<exit, faults>>

\* The connection fails before the request is sent.
NotSent ==
    /\ Fault
    /\ wire = NoRequest
    /\ \/ run.pc = "batch" /\ run.sent < Len(BatchLines)
       \/ run.pc = "submit" /\ run.todo # <<>>
    /\ run' = StoppedRun(run)
    /\ LedgerUnchanged /\ UNCHANGED <<wire, exit>>

Answered(op) == wire.op = op /\ wire.awaited /\ wire.reply # "pending"
InRequest == wire.rows[1]

ReceiveBatch ==
    /\ Answered("batch")
    /\ run' = IF wire.reply = "ok" THEN [run EXCEPT !.lines = Updated(@, wire.results)]
              ELSE StoppedRun(run)
    /\ wire' = NoRequest
    /\ LedgerUnchanged /\ UNCHANGED <<exit, faults>>

ReceiveReceipt ==
    /\ Answered("submit") /\ wire.reply = "ok"
    /\ run' = [run EXCEPT !.pc = "bundle"]
    /\ LedgerUnchanged /\ UNCHANGED <<wire, exit, faults>>

\* Mutant: a server error refuses its row and the run goes on.
ReceiveProblem_GoesOn ==
    /\ Answered("submit") /\ wire.reply # "ok"
    /\ run' = IF mock = "batch" \/ wire.reply # "key"
              THEN [run EXCEPT !.refused = @ \cup {InRequest}]
              ELSE StoppedRun(run)
    /\ wire' = NoRequest
    /\ LedgerUnchanged /\ UNCHANGED <<exit, faults>>

\* A problem: the batch mock reports the refusal and goes on, the daily mock
\* does so only when the row itself was refused.
ReceiveProblem ==
    /\ Answered("submit") /\ wire.reply # "ok"
    /\ run' = CASE mock = "batch" \/ wire.reply = "refused" ->
                     [run EXCEPT !.refused = @ \cup {InRequest}]
                [] mock = "daily" /\ wire.reply = "key" -> StoppedRun(run)
                [] mock = "daily" /\ wire.reply = "server" ->
                     [StoppedRun(run) EXCEPT !.in_doubt = InRequest]
    /\ wire' = NoRequest
    /\ LedgerUnchanged /\ UNCHANGED <<exit, faults>>

\* get_bundle: what was decided, as the bundle tells it.
BundleInRequest == [r \in {InRequest} |-> Last(store[r])]

ReadBundle ==
    /\ run.pc = "bundle"
    /\ run' = [run EXCEPT !.pc = "submit",
                          !.decisions = Updated(@, BundleInRequest)]
    /\ wire' = NoRequest
    /\ LedgerUnchanged /\ UNCHANGED <<exit, faults>>

\* The read fails: the daily mock keeps the row, from its receipt.
FailReadBundle ==
    /\ run.pc = "bundle" /\ Fault
    /\ run' = IF mock = "batch" THEN StoppedRun(run)
              ELSE [StoppedRun(run) EXCEPT
                      !.decisions = Updated(@, BundleInRequest)]
    /\ wire' = NoRequest
    /\ LedgerUnchanged /\ UNCHANGED exit

\* Mutant: the client sends a request again when its answer is lost.
LoseAnswer_Retries ==
    /\ wire.awaited /\ Fault
    /\ wire' = Request(wire.op, wire.rows)
    /\ LedgerUnchanged /\ UNCHANGED <<run, exit>>

\* The connection fails after the request was sent: the client does not retry,
\* and the ledger may be working on it still.
LoseAnswer ==
    /\ wire.awaited /\ run.pc # "bundle" /\ Fault
    /\ run' = IF mock = "daily" THEN [StoppedRun(run) EXCEPT !.in_doubt = InRequest]
              ELSE StoppedRun(run)
    /\ wire' = [wire EXCEPT !.awaited = FALSE]
    /\ LedgerUnchanged /\ UNCHANGED exit

SubmitsDone ==
    /\ run.pc = "submit" /\ wire = NoRequest /\ run.todo = <<>>
    /\ run' = Ending(run)
    /\ LedgerUnchanged /\ UNCHANGED <<wire, exit, faults>>

-----------------------------------------------------------------------------
(* The report. *)

RecordedRows == {r \in DOMAIN run.lines : run.lines[r].status = "recorded"}
decided == RecordedRows \cup DOMAIN run.decisions
undecided == RowsOfDay \ decided
action_of(r) ==
    IF r \in RecordedRows THEN run.lines[r].decision.action ELSE run.decisions[r].action

\* The exit code: 0 when the ledger decided every row and, for the daily mock,
\* the rules gate gave a verdict on each.
Exit ==
    /\ run.pc = "done" /\ exit = "running"
    /\ exit' = IF \/ run.stopped \/ undecided # {}
                  \/ mock = "daily" /\ \E r \in DOMAIN run.decisions : run.decisions[r].failure # "none"
               THEN "1" ELSE "0"
    /\ LedgerUnchanged /\ UNCHANGED <<wire, run, faults>>

DayNext ==
    \/ RefuseKey \/ CreateDecision
    \/ \E r \in RowsOfDay : DecideLine(r)
    \/ WriteBatch \/ FailRequest \/ ReplaceRegistration
    \/ CheckRegistration
    \/ SendBatch \/ BatchesDone \/ SubmitRow \/ NotSent
    \/ ReceiveBatch \/ ReceiveReceipt \/ ReceiveProblem
    \/ ReadBundle \/ FailReadBundle \/ LoseAnswer
    \/ SubmitsDone \/ Exit

DaySpec == DayInit /\ [][DayNext]_dayVars

-----------------------------------------------------------------------------
(* Properties. *)

\* What a run reports is so: a row it reports decided is stored with the action
\* it reports, and exit code 0 says that every row of the day was decided, and
\* once.
ReportIsTrue ==
    /\ \A r \in decided : store[r] # <<>> /\ Last(store[r]).action = action_of(r)
    /\ exit = "0" => \A r \in RowsOfDay : Len(store[r]) = 1

\* The operator knows every row a stopped daily run may have decided: it is
\* among the decisions the run reports, or it is the one in doubt, although the
\* ledger may decide that one after the run has ended.
OperatorKnows ==
    (mock = "daily" /\ run.pc = "done") =>
      \A r \in RowsOfDay : store[r] # <<>> => r \in DOMAIN run.decisions \cup {run.in_doubt}

\* The ledger does not deduplicate and nothing is sent twice: whatever is lost,
\* refused, rerouted or fails, a run has no row decided twice.
OneDecisionPerRow == \A r \in RowsOfDay : Len(store[r]) <= 1

\* The registrations and the rule sets agree on every boundary: a recorded row
\* decided under the registration it was scored with keeps the action its rule
\* justifies, the mandatory rules gate included, and a gated settlement matches
\* some rule.
RecordsKeepTheirAction ==
    \A r \in RowsOfDay : \A i \in DOMAIN store[r] :
      LET d == store[r][i]
      IN  (d.version = "mine" /\ d.failure = "none") =>
            /\ day[r].mode = "record" => d.holds /\ d.action = day[r].proposed
            /\ (day[r].mode = "gate" /\ mock = "daily") => d.matched # {}
=============================================================================
