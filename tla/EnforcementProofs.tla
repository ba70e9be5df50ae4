--------------------------- MODULE EnforcementProofs ---------------------------
(***************************************************************************)
(* Proofs about the gates, in two parts.                                   *)
(*                                                                         *)
(* What their outputs enforce, for any registrations, evidence, gate       *)
(* outcomes and number of gates: the combinator returns the strictest of   *)
(* its candidates, a decision with a failed gate is at least held, and a   *)
(* recorded decision is never below what the registered rules justify.     *)
(*                                                                         *)
(* What they admit, for any reasoners, plugins, registrations, assets and  *)
(* settings: a decision is rendered with what it was authorized for, and   *)
(* a restart is not refused while the sources it admitted still hold.      *)
(***************************************************************************)
EXTENDS EnforcementCases, GateAdmission, Iteration, TLAPS

-----------------------------------------------------------------------------
(* The combinator. *)

LEMMA SeverityOrders ==
    /\ \A a \in DecisionAction : severity[a] \in 0 .. 3
    /\ \A a, b \in DecisionAction : AtLeast(a, b) \/ AtLeast(b, a)
    /\ \A a, b, c \in DecisionAction : AtLeast(a, b) /\ AtLeast(b, c) => AtLeast(a, c)
    /\ \A a \in DecisionAction : AtLeast(a, a) /\ AtLeast("BLOCK", a)
    /\ AtLeast("HOLD", "HOLD")
BY DEF AtLeast, severity, DecisionAction

\* Some member of a set of actions is at least as strict as every other.
LEMMA SomeStrictest ==
    ASSUME NEW S \in SUBSET DecisionAction, S # {}
    PROVE  \E a \in S : \A b \in S : AtLeast(a, b)
<1>1. CASE "BLOCK" \in S
  BY <1>1, SeverityOrders
<1>2. CASE "BLOCK" \notin S /\ "HOLD" \in S
  BY <1>2 DEF AtLeast, severity, DecisionAction
<1>3. CASE "BLOCK" \notin S /\ "HOLD" \notin S /\ "CHALLENGE" \in S
  BY <1>3 DEF AtLeast, severity, DecisionAction
<1>4. CASE "BLOCK" \notin S /\ "HOLD" \notin S /\ "CHALLENGE" \notin S
  BY <1>4 DEF AtLeast, severity, DecisionAction
<1> QED BY <1>1, <1>2, <1>3, <1>4

\* Strictest returns a member that is at least as strict as every member.
LEMMA StrictestIsStrictest ==
    ASSUME NEW S \in SUBSET DecisionAction, S # {}
    PROVE  Strictest(S) \in S /\ \A b \in S : AtLeast(Strictest(S), b)
BY SomeStrictest DEF Strictest

\* The combinator is a floor: no candidate is stricter than what it returns.
LEMMA CombinatorIsFloor ==
    ASSUME NEW proposed \in DecisionAction \cup {NoAction},
           NEW enforced \in SUBSET DecisionAction,
           NEW a \in Candidates(proposed, enforced)
    PROVE  /\ most_restrictive(proposed, enforced) \in DecisionAction
           /\ AtLeast(most_restrictive(proposed, enforced), a)
<1>1. Candidates(proposed, enforced) \in SUBSET DecisionAction
  BY DEF Candidates
<1> QED BY <1>1, StrictestIsStrictest DEF most_restrictive

\* A gate's enforced action is one of the vocabulary; a gate without a verdict
\* is held by the schema-failure tier.
LEMMA GateOutputEnforced ==
    ASSUME NEW output, output.permitted \subseteq DecisionAction, NEW groups
    PROVE  /\ resolve_gate_output(output, groups).action \in DecisionAction
           /\ ~output.verdict =>
                resolve_gate_output(output, groups) = Fired(TIER1_SCHEMA_FAILURE, "HOLD")
<1>1. most_conservative(output.permitted) \in DecisionAction
  <2>1. CASE output.permitted = {}
    BY <2>1 DEF most_conservative, DecisionAction
  <2>2. CASE output.permitted # {}
    BY <2>2, StrictestIsStrictest DEF most_conservative
  <2> QED BY <2>1, <2>2
<1> QED BY <1>1 DEF resolve_gate_output, Fired, DecisionAction

-----------------------------------------------------------------------------
(* The inductive invariant. *)

GateRecords ==
    {RecordOf(TRUE, outcome) : outcome \in Outcomes}
      \cup {RecordOf(FALSE, outcome) : outcome \in Outcomes}
      \cup {SkippedRecord}

\* A recorded submission cites a registered rule: what it proposes and the
\* checks it carries are that rule's, and none of its advisory gates runs.
CitesRegisteredRule ==
    submission.mode = "record" =>
      /\ \E rule \in registration.rules :
           /\ submission.proposed = rule.action
           /\ cited = evaluate_bypass(rule, submission.evidence)
           /\ competing = evaluate_competing_rules(registration.rules, rule, submission.evidence)
      /\ Advisory(records) = {}

\* The decision taken is the resolver's, on the state it is reported with.
DecisionIsResolved ==
    Decided => decision = resolve_decision(submission, records, registration, cited, competing)

\* A gate is skipped only on a recorded decision or once a mandatory one blocks,
\* and a gated decision has a gate.
SkipsAreExcused ==
    \A i \in DOMAIN records : records[i].status = "skipped" => Skips
SomeGate == (Decided /\ submission.mode = "gate") => records # <<>>

EnforcementInv ==
    /\ stage \in {"mandatory", "advisory", "decided"}
    /\ registration \in Registrations
    /\ submission \in Submission
    /\ records \in Seq(GateRecords)
    /\ CitesRegisteredRule
    /\ DecisionIsResolved
    /\ SkipsAreExcused
    /\ SomeGate

LEMMA EveryRecordIsOne ==
    ASSUME NEW outcome \in Outcomes
    PROVE  /\ RecordOf(TRUE, outcome) \in GateRecords /\ RecordOf(FALSE, outcome) \in GateRecords
           /\ RecordOf(TRUE, outcome).status # "skipped"
           /\ RecordOf(FALSE, outcome).status # "skipped"
<1>1. outcome.status # "skipped"
  BY EnforcementConstants
<1> QED BY <1>1 DEF GateRecords, RecordOf

\* What a gate record of the pipeline is: a skipped one is advisory, any other
\* carries the gate-level enforcement of its output, an action.
LEMMA GateRecordForm ==
    ASSUME NEW r \in GateRecords
    PROVE  /\ r.mandatory \in BOOLEAN
           /\ r.status = "skipped" => ~r.mandatory
           /\ r.status # "skipped" =>
                /\ r.enforcement.action \in DecisionAction
                /\ ~r.output.verdict =>
                     r.enforcement = Fired(TIER1_SCHEMA_FAILURE, "HOLD")
<1>1. CASE r = SkippedRecord
  BY <1>1 DEF SkippedRecord
<1>2. ASSUME NEW mandatory \in BOOLEAN, NEW outcome \in Outcomes,
             r = RecordOf(mandatory, outcome)
      PROVE  /\ r.mandatory \in BOOLEAN
             /\ r.status = "skipped" => ~r.mandatory
             /\ r.status # "skipped" =>
                  /\ r.enforcement.action \in DecisionAction
                  /\ ~r.output.verdict =>
                       r.enforcement = Fired(TIER1_SCHEMA_FAILURE, "HOLD")
  <2>1. outcome.status \in {"ran", "failed"} /\ outcome.output.permitted \subseteq DecisionAction
    BY EnforcementConstants
  <2>2. /\ r.mandatory = mandatory /\ r.status = outcome.status /\ r.output = outcome.output
        /\ r.enforcement = resolve_gate_output(outcome.output, registration.groups)
    BY <1>2 DEF RecordOf
  <2> QED BY <2>1, <2>2, GateOutputEnforced
<1>3. r = SkippedRecord \/ \E mandatory \in BOOLEAN, outcome \in Outcomes :
                             r = RecordOf(mandatory, outcome)
  BY DEF GateRecords
<1> QED BY <1>1, <1>2, <1>3

LEMMA EnforcementInitInv == Init => EnforcementInv
<1> SUFFICES ASSUME Init PROVE EnforcementInv
  OBVIOUS
<1>1. stage = "mandatory" /\ registration \in Registrations /\ records = <<>>
  BY DEF Init
<1>2. submission \in Submission /\ CitesRegisteredRule
  <2>1. PICK e \in Evidence :
          \/ \E p \in DecisionAction \cup {NoAction} :
               submission = [mode |-> "gate", proposed |-> p, evidence |-> e]
          \/ \E rule \in registration.rules :
               /\ submission = [mode |-> "record", proposed |-> rule.action, evidence |-> e]
               /\ cited = evaluate_bypass(rule, e)
               /\ competing = evaluate_competing_rules(registration.rules, rule, e)
    BY DEF Init
  <2>2. ASSUME NEW p \in DecisionAction \cup {NoAction},
               submission = [mode |-> "gate", proposed |-> p, evidence |-> e]
        PROVE  submission \in Submission /\ CitesRegisteredRule
    BY <2>2 DEF Submission, CitesRegisteredRule
  <2>3. ASSUME NEW rule \in registration.rules,
               submission = [mode |-> "record", proposed |-> rule.action, evidence |-> e],
               cited = evaluate_bypass(rule, e),
               competing = evaluate_competing_rules(registration.rules, rule, e)
        PROVE  submission \in Submission /\ CitesRegisteredRule
    <3>1. rule.action \in DecisionAction
      BY EnforcementConstants, <1>1
    <3>2. Advisory(records) = {}
      BY <1>1 DEF Advisory, Enforced
    <3>3. submission.proposed = rule.action /\ submission.evidence = e
      BY <2>3
    <3> QED BY <2>3, <3>1, <3>2, <3>3 DEF Submission, CitesRegisteredRule
  <2> QED BY <2>1, <2>2, <2>3
<1>3. records \in Seq(GateRecords)
  BY <1>1
<1>4. DecisionIsResolved /\ SkipsAreExcused /\ SomeGate
  BY <1>1 DEF DecisionIsResolved, Decided, SkipsAreExcused, SomeGate
<1> QED BY <1>1, <1>2, <1>3, <1>4 DEF EnforcementInv

\* The pipeline leaves its inputs alone, so what a gate record is does not
\* change either.
LEMMA InputsStand ==
    ASSUME Next
    PROVE  /\ UNCHANGED <<registration, submission, cited, competing>>
           /\ GateRecords' = GateRecords
<1>1. UNCHANGED <<registration, submission, cited, competing>>
  BY DEF Next, EndMandatory, EndAdvisory, CloseMandatory, SkipAdvisory, Decide
<1>2. GateRecords' = GateRecords
  BY <1>1 DEF GateRecords, RecordOf, SkippedRecord
<1> QED BY <1>1, <1>2

\* One more gate record keeps the sequence and, when the decision is recorded
\* and the record is a mandatory or a skipped one, its lack of advisory gates.
LEMMA OneMoreRecord ==
    ASSUME NEW s \in Seq(GateRecords), NEW r \in GateRecords
    PROVE  /\ Append(s, r) \in Seq(GateRecords)
           /\ (Advisory(s) = {} /\ (r.mandatory \/ r.status = "skipped"))
                => Advisory(Append(s, r)) = {}
<1>1. Append(s, r) \in Seq(GateRecords) /\ Len(Append(s, r)) = Len(s) + 1
  OBVIOUS
<1>2. /\ \A i \in 1 .. Len(s) : Append(s, r)[i] = s[i]
      /\ Append(s, r)[Len(s) + 1] = r
  OBVIOUS
<1>3. ASSUME Advisory(s) = {}, r.mandatory \/ r.status = "skipped"
      PROVE  Advisory(Append(s, r)) = {}
  <2> SUFFICES ASSUME NEW i \in 1 .. Len(s) + 1,
                      Append(s, r)[i].status # "skipped", ~Append(s, r)[i].mandatory
               PROVE  FALSE
    BY <1>1 DEF Advisory, Enforced
  <2>1. CASE i \in 1 .. Len(s)
    BY <2>1, <1>2, <1>3 DEF Advisory, Enforced
  <2>2. CASE i = Len(s) + 1
    BY <2>2, <1>2, <1>3
  <2> QED BY <2>1, <2>2
<1> QED BY <1>1, <1>3

\* A mandatory block stands whatever gate record follows it.
LEMMA BlockStands ==
    ASSUME NEW s \in Seq(GateRecords), NEW r \in GateRecords, blocked_by_mandatory_gate(s)
    PROVE  blocked_by_mandatory_gate(Append(s, r))
<1>1. PICK i \in DOMAIN s : /\ s[i].status # "skipped" /\ s[i].mandatory
                           /\ s[i].enforcement.action = "BLOCK"
  BY DEF blocked_by_mandatory_gate, ActionsOf, Mandatory, Enforced
<1>2. i \in DOMAIN Append(s, r) /\ Append(s, r)[i] = s[i]
  OBVIOUS
<1> QED BY <1>1, <1>2 DEF blocked_by_mandatory_gate, ActionsOf, Mandatory, Enforced

\* One more gate record is skipped only for a reason.
LEMMA StillExcused ==
    ASSUME NEW s \in Seq(GateRecords), NEW r \in GateRecords,
           s = records, records' = Append(s, r), submission' = submission,
           SkipsAreExcused, r.status = "skipped" => Skips
    PROVE  SkipsAreExcused'
<1>1. Skips => Skips'
  BY BlockStands DEF Skips
<1>2. ASSUME NEW i \in DOMAIN Append(s, r), Append(s, r)[i].status = "skipped"
      PROVE  Skips
  <2>1. i \in 1 .. Len(s) + 1
    BY <1>2
  <2>2. CASE i \in 1 .. Len(s)
    <3>1. Append(s, r)[i] = s[i] /\ i \in DOMAIN s
      BY <2>2
    <3> QED BY <3>1, <1>2 DEF SkipsAreExcused
  <2>3. CASE i = Len(s) + 1
    BY <2>3, <1>2
  <2> QED BY <2>1, <2>2, <2>3
<1> QED BY <1>1, <1>2 DEF SkipsAreExcused

LEMMA EnforcementStep == EnforcementInv /\ [Next]_vars => EnforcementInv'
<1> SUFFICES ASSUME EnforcementInv, [Next]_vars PROVE EnforcementInv'
  OBVIOUS
<1> USE DEF EnforcementInv
\* What is left to show of a step that takes no decision.
<1>1. ASSUME Next, stage' \in {"mandatory", "advisory"}, records' \in Seq(GateRecords),
             submission.mode = "record" => Advisory(records') = {}, SkipsAreExcused'
      PROVE  EnforcementInv'
  <2>1. UNCHANGED <<registration, submission, cited, competing>> /\ GateRecords' = GateRecords
    BY <1>1, InputsStand
  <2>2. CitesRegisteredRule'
    BY <1>1, <2>1 DEF CitesRegisteredRule, Advisory, Enforced
  <2>3. DecisionIsResolved' /\ SomeGate'
    BY <1>1 DEF DecisionIsResolved, SomeGate, Decided
  <2>4. submission' \in Submission'
    BY <2>1 DEF Submission
  <2> QED BY <1>1, <2>1, <2>2, <2>3, <2>4
<1>2. ASSUME NEW outcome \in Outcomes, EndMandatory(outcome) PROVE EnforcementInv'
  <2>1. RecordOf(TRUE, outcome) \in GateRecords /\ RecordOf(TRUE, outcome).mandatory
    BY EveryRecordIsOne DEF RecordOf
  <2>2. Next /\ stage' = "mandatory" /\ records' = Append(records, RecordOf(TRUE, outcome))
    BY <1>2 DEF Next, EndMandatory
  <2>3. /\ records' \in Seq(GateRecords)
        /\ Advisory(records) = {} => Advisory(records') = {}
    BY <2>1, <2>2, OneMoreRecord
  <2>4. SkipsAreExcused'
    BY <2>1, <2>2, EveryRecordIsOne, StillExcused, InputsStand
  <2> QED BY <1>1, <2>2, <2>3, <2>4 DEF CitesRegisteredRule
<1>3. ASSUME NEW outcome \in Outcomes, EndAdvisory(outcome) PROVE EnforcementInv'
  <2>1. RecordOf(FALSE, outcome) \in GateRecords
    BY EveryRecordIsOne
  <2>2. /\ Next /\ stage' = "advisory" /\ submission.mode # "record"
        /\ records' = Append(records, RecordOf(FALSE, outcome))
    BY <1>3 DEF Next, EndAdvisory, MayAddAdvisory, Skips
  <2>3. records' \in Seq(GateRecords)
    BY <2>1, <2>2, OneMoreRecord
  <2>4. SkipsAreExcused'
    BY <2>1, <2>2, EveryRecordIsOne, StillExcused, InputsStand
  <2> QED BY <1>1, <2>2, <2>3, <2>4
<1>4. CASE CloseMandatory
  <2>1. Next /\ stage' = "advisory" /\ records' = records /\ submission' = submission
    BY <1>4 DEF Next, CloseMandatory
  <2>2. SkipsAreExcused'
    BY <2>1 DEF SkipsAreExcused, Skips
  <2> QED BY <1>1, <2>1, <2>2 DEF CitesRegisteredRule
<1>5. CASE SkipAdvisory
  <2>1. SkippedRecord \in GateRecords /\ SkippedRecord.status = "skipped"
    BY DEF GateRecords, SkippedRecord
  <2>2. Next /\ stage' = "advisory" /\ records' = Append(records, SkippedRecord) /\ Skips
    BY <1>5 DEF Next, SkipAdvisory, MayAddAdvisory
  <2>3. /\ records' \in Seq(GateRecords)
        /\ Advisory(records) = {} => Advisory(records') = {}
    BY <2>1, <2>2, OneMoreRecord
  <2>4. SkipsAreExcused'
    BY <2>1, <2>2, StillExcused, InputsStand
  <2> QED BY <1>1, <2>2, <2>3, <2>4 DEF CitesRegisteredRule
<1>6. CASE Decide
  <2>1. /\ UNCHANGED <<registration, submission, cited, competing, records>>
        /\ stage' = "decided"
        /\ decision' = resolve_decision(submission, records, registration, cited, competing)
    BY <1>6 DEF Decide
  <2>2. GateRecords' = GateRecords
    BY <1>6, InputsStand DEF Next
  <2>3. CitesRegisteredRule'
    BY <2>1 DEF CitesRegisteredRule, Advisory, Enforced
  <2>4. DecisionIsResolved'
    <3>1. resolve_decision(submission, records, registration, cited, competing)'
            = resolve_decision(submission, records, registration, cited, competing)
      BY <2>1
    <3> QED BY <2>1, <3>1 DEF DecisionIsResolved, Decided
  <2>5. submission' \in Submission'
    BY <2>1 DEF Submission
  <2>6. SkipsAreExcused'
    BY <2>1 DEF SkipsAreExcused, Skips
  <2>7. SomeGate'
    BY <1>6, <2>1 DEF Decide, SomeGate
  <2> QED BY <2>1, <2>2, <2>3, <2>4, <2>5, <2>6, <2>7
<1>7. CASE UNCHANGED vars
  <2>1. /\ stage' = stage /\ registration' = registration /\ submission' = submission
        /\ cited' = cited /\ competing' = competing /\ records' = records /\ decision' = decision
    BY <1>7 DEF vars
  <2>2. GateRecords' = GateRecords
    BY <2>1 DEF GateRecords, RecordOf, SkippedRecord
  <2>3. CitesRegisteredRule' /\ SkipsAreExcused' /\ SomeGate'
    BY <2>1 DEF CitesRegisteredRule, Advisory, Enforced, SkipsAreExcused, Skips, SomeGate, Decided
  <2>4. DecisionIsResolved'
    BY <2>1 DEF DecisionIsResolved, Decided
  <2>5. submission' \in Submission'
    BY <2>1 DEF Submission
  <2> QED BY <2>1, <2>2, <2>3, <2>4, <2>5
<1> QED BY <1>2, <1>3, <1>4, <1>5, <1>6, <1>7 DEF Next

-----------------------------------------------------------------------------
(* The theorems. *)

\* Every reachable state satisfies the inductive invariant: a decided decision
\* is the resolver's on its own records, and a recorded one runs no advisory
\* gate and carries the checks of the rule it cites.
THEOREM EnforcementInvariance == Spec => []EnforcementInv
<1>1. Init => EnforcementInv
  BY EnforcementInitInv
<1>2. EnforcementInv /\ [Next]_vars => EnforcementInv'
  BY EnforcementStep
<1> QED BY <1>1, <1>2, PTL DEF Spec

LEMMA EnforcedActions ==
    ASSUME EnforcementInv, NEW at \in SUBSET Enforced(records)
    PROVE  ActionsOf(records, at) \in SUBSET DecisionAction
<1>1. \A i \in Enforced(records) : records[i] \in GateRecords /\ records[i].status # "skipped"
  BY DEF EnforcementInv, Enforced
<1>2. \A i \in Enforced(records) : records[i].enforcement.action \in DecisionAction
  BY <1>1, GateRecordForm
<1> QED BY <1>2 DEF ActionsOf

\* An enforced gate without a verdict was held by the schema-failure tier.
LEMMA FailedIsHeld ==
    ASSUME EnforcementInv, NEW i \in Enforced(records), ~records[i].output.verdict
    PROVE  records[i].enforcement.action = "HOLD"
<1>1. records[i] \in GateRecords /\ records[i].status # "skipped"
  BY DEF EnforcementInv, Enforced
<1> QED BY <1>1, GateRecordForm DEF Fired

LEMMA BypassActions ==
    ASSUME EnforcementInv, submission.mode = "record"
    PROVE  /\ StricterActions(cited, competing) \in SUBSET DecisionAction
           /\ bypass_rules(cited, competing).actions \in SUBSET DecisionAction
<1>1. PICK rule \in registration.rules :
        /\ submission.proposed = rule.action
        /\ cited = evaluate_bypass(rule, submission.evidence)
        /\ competing = evaluate_competing_rules(registration.rules, rule, submission.evidence)
  BY DEF EnforcementInv, CitesRegisteredRule
<1>2. \A check \in competing : check.rule \in registration.rules
  BY <1>1 DEF evaluate_competing_rules, evaluate_bypass
<1>3. \A check \in competing : check.rule.action \in DecisionAction
  BY <1>2, EnforcementConstants DEF EnforcementInv
<1>4. StricterActions(cited, competing) \in SUBSET DecisionAction
  BY <1>3 DEF StricterActions
<1>5. StricterActions(cited, competing) # {} =>
        Strictest(StricterActions(cited, competing)) \in DecisionAction
  BY <1>4, StrictestIsStrictest
<1>6. "HOLD" \in DecisionAction
  BY DEF DecisionAction
<1> QED BY <1>4, <1>5, <1>6 DEF bypass_rules, Contribution

LEMMA LevelActions ==
    ASSUME EnforcementInv
    PROVE  decision_level(submission, records, registration, cited, competing).actions
             \in SUBSET DecisionAction
<1>1. CASE submission.mode = "record"
  BY <1>1, BypassActions DEF decision_level
<1>2. Advisory(records) \in SUBSET Enforced(records)
  BY DEF Advisory
<1>3. ActionsOf(records, Advisory(records)) \in SUBSET DecisionAction
  BY <1>2, EnforcedActions
<1>4. CASE submission.mode # "record" /\ blocked_by_mandatory_gate(records)
  BY <1>3, <1>4 DEF decision_level, Contribution
<1>5. CASE submission.mode # "record" /\ ~blocked_by_mandatory_gate(records)
  <2>1. Advisory(records) # {} => ActionsOf(records, Advisory(records)) # {}
    BY DEF ActionsOf
  <2>2. Advisory(records) # {} =>
          Strictest(ActionsOf(records, Advisory(records))) \in DecisionAction
    BY <1>3, <2>1, StrictestIsStrictest
  <2>3. advisory_side(submission.evidence, registration.novel, records).actions
          \in SUBSET DecisionAction
    BY <2>2 DEF advisory_side, Contribution, DecisionAction
  <2> QED BY <1>5, <2>3 DEF decision_level
<1> QED BY <1>1, <1>4, <1>5

\* The decision is a floor: it is at least as strict as every action that
\* entered it.
LEMMA DecisionIsFloor ==
    ASSUME EnforcementInv, Decided,
           NEW a \in DecisionAction,
           \/ a = submission.proposed
           \/ a \in ActionsOf(records, Mandatory(records))
           \/ a \in decision_level(submission, records, registration, cited, competing).actions
    PROVE  decision.action \in DecisionAction /\ AtLeast(decision.action, a)
<1> DEFINE level == decision_level(submission, records, registration, cited, competing)
           enforced == ActionsOf(records, Mandatory(records)) \cup level.actions
<1>1. Mandatory(records) \in SUBSET Enforced(records)
  BY DEF Mandatory
<1>2. enforced \in SUBSET DecisionAction
  BY <1>1, EnforcedActions, LevelActions
<1>3. submission.proposed \in DecisionAction \cup {NoAction}
  BY DEF EnforcementInv, Submission
<1>4. a \in Candidates(submission.proposed, enforced)
  BY DEF Candidates, DecisionAction, NoAction
<1>5. decision.action = most_restrictive(submission.proposed, enforced)
  BY DEF EnforcementInv, DecisionIsResolved, resolve_decision, Fired
<1> HIDE DEF enforced
<1> QED BY <1>2, <1>3, <1>4, <1>5, CombinatorIsFloor

\* Fail closed (resolver.py: an absent verdict is HOLD at Tier 1, and the
\* advisory side never abstains): a failed gate holds the decision whatever
\* the profile, the number of gates, the proposal and the other outcomes.
THEOREM FailsClosed == Spec => []FailClosed
<1>1. EnforcementInv => FailClosed
  <2> SUFFICES ASSUME EnforcementInv, Decided,
                      NEW i \in Enforced(records), ~records[i].output.verdict
               PROVE  AtLeast(decision.action, "HOLD")
    BY DEF FailClosed
  <2> DEFINE level == decision_level(submission, records, registration, cited, competing)
             advisory == ActionsOf(records, Advisory(records))
  <2>1. records[i].enforcement.action = "HOLD"
    BY FailedIsHeld
  <2>2. "HOLD" \in DecisionAction /\ "BLOCK" \in DecisionAction
    BY DEF DecisionAction
  <2>3. \A a \in DecisionAction : AtLeast(a, "HOLD") /\ a \in level.actions
                                    => AtLeast(decision.action, "HOLD")
    <3> SUFFICES ASSUME NEW a \in DecisionAction, AtLeast(a, "HOLD"), a \in level.actions
                 PROVE  AtLeast(decision.action, "HOLD")
      OBVIOUS
    <3>1. decision.action \in DecisionAction /\ AtLeast(decision.action, a)
      BY DecisionIsFloor
    <3> QED BY <3>1, <2>2, SeverityOrders
  <2>4. CASE records[i].mandatory
    <3>1. "HOLD" \in ActionsOf(records, Mandatory(records))
      BY <2>1, <2>4 DEF ActionsOf, Mandatory
    <3> QED BY <3>1, <2>2, DecisionIsFloor
  <2>5. CASE ~records[i].mandatory
    <3>1. i \in Advisory(records) /\ "HOLD" \in advisory
      BY <2>1, <2>5 DEF ActionsOf, Advisory
    <3>2. submission.mode # "record"
      BY <3>1 DEF EnforcementInv, CitesRegisteredRule
    <3>3. CASE blocked_by_mandatory_gate(records)
      <4>1. "HOLD" \in level.actions
        BY <3>1, <3>2, <3>3 DEF decision_level, Contribution
      <4> QED BY <4>1, <2>2, <2>3, SeverityOrders
    <3>4. CASE ~blocked_by_mandatory_gate(records)
      <4>1. level = advisory_side(submission.evidence, registration.novel, records)
        BY <3>2, <3>4 DEF decision_level
      <4>2. advisory \in SUBSET DecisionAction
        <5>1. Advisory(records) \in SUBSET Enforced(records)
          BY DEF Advisory
        <5> QED BY <5>1, EnforcedActions
      <4>3. Strictest(advisory) \in DecisionAction /\ AtLeast(Strictest(advisory), "HOLD")
        BY <3>1, <4>2, StrictestIsStrictest
      <4>4. \/ Strictest(advisory) \in level.actions
            \/ "BLOCK" \in level.actions
            \/ "HOLD" \in level.actions
        BY <3>1, <4>1 DEF advisory_side, Contribution
      <4> QED BY <4>3, <4>4, <2>2, <2>3, SeverityOrders
    <3> QED BY <3>3, <3>4
  <2> QED BY <2>4, <2>5
<1> QED BY <1>1, EnforcementInvariance, PTL

\* A recorded action is never served below what the registered rules justify
\* (resolver.py, _bypass_rules): an unsatisfied citation holds the decision
\* and every registered rule that holds on the evidence is a floor.
THEOREM RecordingIsFloored == Spec => []RecordedFloor
<1>1. EnforcementInv => RecordedFloor
  <2> SUFFICES ASSUME EnforcementInv, Decided, submission.mode = "record"
               PROVE  /\ ~cited.holds => AtLeast(decision.action, "HOLD")
                      /\ \A rule \in registration.rules :
                           submission.evidence \in rule.predicate
                             => AtLeast(decision.action, rule.action)
    BY DEF RecordedFloor
  <2> DEFINE level == decision_level(submission, records, registration, cited, competing)
             stricter == StricterActions(cited, competing)
  <2>1. level = bypass_rules(cited, competing)
    BY DEF decision_level
  <2>2. ASSUME ~cited.holds PROVE AtLeast(decision.action, "HOLD")
    <3>1. "HOLD" \in level.actions
      BY <2>1, <2>2 DEF bypass_rules, Contribution
    <3>2. "HOLD" \in DecisionAction
      BY DEF DecisionAction
    <3> QED BY <3>1, <3>2, DecisionIsFloor
  <2>3. ASSUME NEW rule \in registration.rules, submission.evidence \in rule.predicate
        PROVE  AtLeast(decision.action, rule.action)
    <3>1. PICK own \in registration.rules :
            /\ submission.proposed = own.action
            /\ cited = evaluate_bypass(own, submission.evidence)
            /\ competing = evaluate_competing_rules(registration.rules, own,
                                                    submission.evidence)
      BY DEF EnforcementInv, CitesRegisteredRule
    <3>2. rule.action \in DecisionAction /\ own.action \in DecisionAction
      BY EnforcementConstants DEF EnforcementInv
    <3>3. decision.action \in DecisionAction /\ AtLeast(decision.action, own.action)
      BY <3>1, <3>2, DecisionIsFloor
    <3>4. CASE AtLeast(own.action, rule.action)
      BY <3>2, <3>3, <3>4, SeverityOrders
    <3>5. CASE ~AtLeast(own.action, rule.action)
      <4>1. rule.rule_id # own.rule_id
        BY <3>2, <3>5, EnforcementConstants, SeverityOrders DEF EnforcementInv
      <4>2. evaluate_bypass(rule, submission.evidence) \in competing
        BY <3>1, <4>1 DEF evaluate_competing_rules
      <4>3. cited.rule = own
        BY <3>1 DEF evaluate_bypass
      <4>4. rule.action \in stricter
        <5> DEFINE check == evaluate_bypass(rule, submission.evidence)
        <5>1. check.rule = rule /\ check.holds
          BY <2>3 DEF evaluate_bypass
        <5>2. check \in {c \in competing : c.holds /\ ~AtLeast(cited.rule.action, c.rule.action)}
          BY <3>5, <4>2, <4>3, <5>1
        <5> HIDE DEF check
        <5> QED BY <5>1, <5>2 DEF StricterActions
      <4>5. stricter \in SUBSET DecisionAction
        BY BypassActions
      <4>6. Strictest(stricter) \in DecisionAction /\ AtLeast(Strictest(stricter), rule.action)
        BY <4>4, <4>5, StrictestIsStrictest
      <4>7. Strictest(stricter) \in level.actions
        BY <2>1, <4>4 DEF bypass_rules, Contribution
      <4>8. AtLeast(decision.action, Strictest(stricter))
        BY <4>6, <4>7, DecisionIsFloor
      <4> QED BY <3>2, <3>3, <4>6, <4>8, SeverityOrders
    <3> QED BY <3>4, <3>5
  <2> QED BY <2>2, <2>3
<1> QED BY <1>1, EnforcementInvariance, PTL

-----------------------------------------------------------------------------
(* Decisions compared with those of other gate sets. *)

\* What EnforcedActions says of the decision's records, of any gate records.
LEMMA ActionsOfRecords ==
    ASSUME NEW recs, \A i \in DOMAIN recs : recs[i] \in GateRecords,
           NEW at \in SUBSET Enforced(recs)
    PROVE  ActionsOf(recs, at) \in SUBSET DecisionAction
<1>1. \A i \in at : recs[i].enforcement.action \in DecisionAction
  BY GateRecordForm DEF Enforced
<1> QED BY <1>1 DEF ActionsOf

\* BLOCK is the strictest action: what has it among its candidates is BLOCK.
LEMMA BlockWins ==
    ASSUME NEW proposed \in DecisionAction \cup {NoAction},
           NEW enforced \in SUBSET DecisionAction, "BLOCK" \in enforced
    PROVE  most_restrictive(proposed, enforced) = "BLOCK"
<1>1. "BLOCK" \in Candidates(proposed, enforced) /\ "BLOCK" \in DecisionAction
  BY DEF Candidates, DecisionAction
<1>2. /\ most_restrictive(proposed, enforced) \in DecisionAction
      /\ AtLeast(most_restrictive(proposed, enforced), "BLOCK")
  BY <1>1, CombinatorIsFloor
<1> QED BY <1>2 DEF AtLeast, severity, DecisionAction

\* A gated decision that a mandatory gate blocks is BLOCK, with no decision-level
\* rule, whatever its advisory gates are.
LEMMA BlockedIsBlock ==
    ASSUME NEW recs, \A i \in DOMAIN recs : recs[i] \in GateRecords,
           NEW s \in Submission, s.mode = "gate", blocked_by_mandatory_gate(recs),
           NEW r, NEW c, NEW others
    PROVE  resolve_decision(s, recs, r, c, others) = Fired(NoRule, "BLOCK")
<1> DEFINE advisory == ActionsOf(recs, Advisory(recs))
           enforced == ActionsOf(recs, Mandatory(recs)) \cup advisory
<1>1. decision_level(s, recs, r, c, others) = Contribution(NoRule, advisory)
  BY DEF decision_level
<1>2. enforced \in SUBSET DecisionAction
  <2>1. Mandatory(recs) \in SUBSET Enforced(recs) /\ Advisory(recs) \in SUBSET Enforced(recs)
    BY DEF Mandatory, Advisory
  <2> QED BY <2>1, ActionsOfRecords
<1>3. "BLOCK" \in enforced
  BY DEF blocked_by_mandatory_gate
<1>4. s.proposed \in DecisionAction \cup {NoAction}
  BY DEF Submission
<1>5. resolve_decision(s, recs, r, c, others)
        = Fired(NoRule, most_restrictive(s.proposed, enforced))
  BY <1>1 DEF resolve_decision, Contribution
<1> HIDE DEF enforced, advisory
<1> QED BY <1>2, <1>3, <1>4, <1>5, BlockWins

\* Skipping is safe (_run_advisory_gates of submit.py is not called once a
\* mandatory gate blocks): with any outcomes of any number of advisory gates in
\* the skipped ones' place, the decision is the same, its rule included.
THEOREM SkippedGatesChangeNothing == Spec => []SkippingIsSafe
<1>1. EnforcementInv => SkippingIsSafe
  <2> SUFFICES ASSUME EnforcementInv, Decided, submission.mode = "gate",
                      blocked_by_mandatory_gate(records),
                      NEW run \in [{i \in DOMAIN records : records[i].status = "skipped"} -> Outcomes]
               PROVE  resolve_decision(submission,
                        [i \in DOMAIN records |->
                           IF i \in {j \in DOMAIN records : records[j].status = "skipped"}
                           THEN RecordOf(FALSE, run[i]) ELSE records[i]],
                        registration, cited, competing) = decision
    BY DEF SkippingIsSafe
  <2> DEFINE skipped == {i \in DOMAIN records : records[i].status = "skipped"}
             recs == [i \in DOMAIN records |->
                        IF i \in skipped THEN RecordOf(FALSE, run[i]) ELSE records[i]]
  <2>1. submission \in Submission /\ records \in Seq(GateRecords)
    BY DEF EnforcementInv
  <2>2. \A i \in DOMAIN records : records[i] \in GateRecords
    BY <2>1
  <2>3. \A i \in DOMAIN recs : recs[i] \in GateRecords
    BY <2>2, EveryRecordIsOne
  <2>4. blocked_by_mandatory_gate(recs)
    <3>1. PICK i \in DOMAIN records : /\ records[i].status # "skipped" /\ records[i].mandatory
                                      /\ records[i].enforcement.action = "BLOCK"
      BY DEF blocked_by_mandatory_gate, ActionsOf, Mandatory, Enforced
    <3>2. i \in DOMAIN recs /\ recs[i] = records[i]
      BY <3>1
    <3> HIDE DEF recs
    <3> QED BY <3>1, <3>2 DEF blocked_by_mandatory_gate, ActionsOf, Mandatory, Enforced
  <2>5. decision = resolve_decision(submission, records, registration, cited, competing)
    BY DEF EnforcementInv, DecisionIsResolved
  <2> HIDE DEF recs
  <2>6. resolve_decision(submission, recs, registration, cited, competing)
          = Fired(NoRule, "BLOCK")
    BY <2>1, <2>3, <2>4, BlockedIsBlock
  <2>7. decision = Fired(NoRule, "BLOCK")
    BY <2>1, <2>2, <2>5, BlockedIsBlock
  <2> QED BY <2>6, <2>7 DEF recs
<1> QED BY <1>1, EnforcementInvariance, PTL

\* The gates that are left when one is removed are gates of the decision.
LEMMA WithoutIsPart ==
    ASSUME EnforcementInv, NEW i \in DOMAIN records
    PROVE  /\ \A j \in DOMAIN Without(i) : \E k \in DOMAIN records : Without(i)[j] = records[k]
           /\ \A j \in DOMAIN Without(i) : Without(i)[j] \in GateRecords
<1>1. Len(records) \in Nat /\ DOMAIN records = 1 .. Len(records)
  BY DEF EnforcementInv
<1>2. \A j \in 1 .. Len(records) - 1 : (IF j < i THEN j ELSE j + 1) \in 1 .. Len(records)
  BY <1>1
<1>3. \A j \in DOMAIN Without(i) : \E k \in DOMAIN records : Without(i)[j] = records[k]
  BY <1>1, <1>2 DEF Without
<1>4. \A k \in DOMAIN records : records[k] \in GateRecords
  BY DEF EnforcementInv
<1> QED BY <1>3, <1>4

\* So are their actions and rules, on each side.
LEMMA PartsActions ==
    ASSUME NEW recs, NEW part,
           \A j \in DOMAIN part : \E k \in DOMAIN recs : part[j] = recs[k]
    PROVE  /\ ActionsOf(part, Mandatory(part)) \subseteq ActionsOf(recs, Mandatory(recs))
           /\ ActionsOf(part, Advisory(part)) \subseteq ActionsOf(recs, Advisory(recs))
           /\ RulesOf(part, Advisory(part)) \subseteq RulesOf(recs, Advisory(recs))
           /\ Advisory(part) # {} => Advisory(recs) # {}
BY DEF ActionsOf, RulesOf, Mandatory, Advisory, Enforced

\* The advisory side of fewer gates is no stricter.
LEMMA AdvisorySideGrows ==
    ASSUME NEW recs, NEW part, NEW evidence, NEW novel,
           \A j \in DOMAIN part : \E k \in DOMAIN recs : part[j] = recs[k],
           \A i \in DOMAIN recs : recs[i] \in GateRecords,
           NEW a \in advisory_side(evidence, novel, part).actions
    PROVE  /\ a \in DecisionAction
           /\ \E b \in advisory_side(evidence, novel, recs).actions \cap DecisionAction : AtLeast(b, a)
<1> DEFINE A == ActionsOf(recs, Advisory(recs))
           B == ActionsOf(part, Advisory(part))
<1>1. /\ B \subseteq A /\ RulesOf(part, Advisory(part)) \subseteq RulesOf(recs, Advisory(recs))
      /\ Advisory(part) # {} => Advisory(recs) # {}
  BY PartsActions
<1>2. A \in SUBSET DecisionAction
  <2>1. Advisory(recs) \in SUBSET Enforced(recs)
    BY DEF Advisory
  <2> QED BY <2>1, ActionsOfRecords
<1>3. "BLOCK" \in DecisionAction /\ "HOLD" \in DecisionAction
      /\ AtLeast("BLOCK", "HOLD") /\ AtLeast("BLOCK", "BLOCK") /\ AtLeast("HOLD", "HOLD")
  BY DEF AtLeast, severity, DecisionAction
<1>4. CASE evidence \notin novel
  <2>1. Advisory(part) # {} /\ a = Strictest(B)
    BY <1>4 DEF advisory_side, Contribution
  <2>2. B # {} /\ A # {}
    BY <2>1, <1>1 DEF ActionsOf
  <2>3. a \in A
    BY <2>1, <2>2, <1>1, <1>2, StrictestIsStrictest
  <2>4. Strictest(A) \in DecisionAction /\ AtLeast(Strictest(A), a)
    BY <2>2, <2>3, <1>2, StrictestIsStrictest
  <2>5. advisory_side(evidence, novel, recs).actions = {Strictest(A)}
    BY <1>1, <1>4, <2>1 DEF advisory_side, Contribution
  <2> HIDE DEF A, B
  <2> QED BY <2>3, <2>4, <2>5, <1>2
<1>5. CASE evidence \in novel /\ TIER2_ADVERSARIAL_PROBE \in RulesOf(part, Advisory(part))
  <2>1. a = "BLOCK"
    BY <1>5 DEF advisory_side, Contribution
  <2>2. advisory_side(evidence, novel, recs).actions = {"BLOCK"}
    BY <1>1, <1>5 DEF advisory_side, Contribution
  <2> QED BY <2>1, <2>2, <1>3
<1>6. CASE evidence \in novel /\ TIER2_ADVERSARIAL_PROBE \notin RulesOf(part, Advisory(part))
  <2>1. a = "HOLD"
    BY <1>6 DEF advisory_side, Contribution
  <2>2. \/ advisory_side(evidence, novel, recs).actions = {"BLOCK"}
        \/ advisory_side(evidence, novel, recs).actions = {"HOLD"}
    BY <1>6 DEF advisory_side, Contribution
  <2> QED BY <2>1, <2>2, <1>3
<1> QED BY <1>4, <1>5, <1>6

\* What a gated decision adds to the mandatory gates' actions are actions.
LEMMA GateLevelActions ==
    ASSUME NEW recs, \A i \in DOMAIN recs : recs[i] \in GateRecords,
           NEW s, s.mode # "record", NEW r, NEW c, NEW others
    PROVE  decision_level(s, recs, r, c, others).actions \in SUBSET DecisionAction
<1>1. Advisory(recs) \in SUBSET Enforced(recs)
  BY DEF Advisory
<1>2. ActionsOf(recs, Advisory(recs)) \in SUBSET DecisionAction
  BY <1>1, ActionsOfRecords
<1>3. CASE blocked_by_mandatory_gate(recs)
  BY <1>2, <1>3 DEF decision_level, Contribution
<1>4. CASE ~blocked_by_mandatory_gate(recs)
  <2>1. decision_level(s, recs, r, c, others) = advisory_side(s.evidence, r.novel, recs)
    BY <1>4 DEF decision_level
  <2>2. \A a \in advisory_side(s.evidence, r.novel, recs).actions : a \in DecisionAction
    BY AdvisorySideGrows
  <2> QED BY <2>1, <2>2
<1> QED BY <1>3, <1>4

\* A decision on some enforced gate, or on a citation, has a candidate.
LEMMA SomeCandidate ==
    ASSUME NEW recs, NEW s \in Submission, NEW r, NEW c, NEW others,
           s.proposed \in DecisionAction \/ (s.mode # "record" /\ Enforced(recs) # {})
    PROVE  Candidates(s.proposed,
                      ActionsOf(recs, Mandatory(recs))
                        \cup decision_level(s, recs, r, c, others).actions) # {}
<1> DEFINE level == decision_level(s, recs, r, c, others)
<1>1. CASE s.proposed \in DecisionAction
  BY <1>1 DEF Candidates, DecisionAction, NoAction
<1>2. CASE s.proposed \notin DecisionAction /\ Mandatory(recs) # {}
  BY <1>2 DEF Candidates, ActionsOf
<1>3. CASE s.proposed \notin DecisionAction /\ Mandatory(recs) = {} /\ s.mode # "record"
  <2>1. Advisory(recs) # {}
    BY <1>3 DEF Mandatory, Advisory
  <2>2. ~blocked_by_mandatory_gate(recs)
    BY <1>3 DEF blocked_by_mandatory_gate, ActionsOf
  <2>3. level = advisory_side(s.evidence, r.novel, recs)
    BY <1>3, <2>2 DEF decision_level
  <2>4. level.actions # {}
    BY <2>1, <2>3 DEF advisory_side, Contribution
  <2> HIDE DEF level
  <2> QED BY <2>4 DEF Candidates, level
<1> QED BY <1>1, <1>2, <1>3

\* Adding a gate never relaxes a decision (resolver.py over combinator.py): the
\* decision without any one of its gates is no stricter, in either mode, with or
\* without a novel entity, for any number of gates of either kind.
THEOREM AddedGatesNeverRelax == Spec => []AddingAGateNeverRelaxes
<1>1. EnforcementInv => AddingAGateNeverRelaxes
  <2> SUFFICES ASSUME EnforcementInv, Decided, NEW i \in DOMAIN records,
                      Enforced(Without(i)) # {} \/ submission.mode = "record"
               PROVE  AtLeast(decision.action, ActionWith(Without(i)))
    BY DEF AddingAGateNeverRelaxes
  <2> DEFINE part == Without(i)
             level == decision_level(submission, part, registration, cited, competing)
             enforced == ActionsOf(part, Mandatory(part)) \cup level.actions
             a == ActionWith(part)
             full == decision_level(submission, records, registration, cited, competing)
  <2>1. /\ \A j \in DOMAIN part : \E k \in DOMAIN records : part[j] = records[k]
        /\ \A j \in DOMAIN part : part[j] \in GateRecords
        /\ \A j \in DOMAIN records : records[j] \in GateRecords
    BY WithoutIsPart DEF EnforcementInv
  <2>2. submission \in Submission
    BY DEF EnforcementInv
  <2>3. submission.mode = "record" => submission.proposed \in DecisionAction
    BY EnforcementConstants DEF EnforcementInv, CitesRegisteredRule
  <2>4. submission.mode \in {"gate", "record"}
        /\ submission.proposed \in DecisionAction \cup {NoAction}
    BY <2>2 DEF Submission
  <2> HIDE DEF part
  <2>5. Candidates(submission.proposed, enforced) # {}
    BY <2>2, <2>3, <2>4, SomeCandidate DEF part
  <2>6. a = most_restrictive(submission.proposed, enforced)
    BY DEF ActionWith, resolve_decision, Fired
  \* Whatever enters the smaller decision is no stricter than the decision.
  <2>7. ASSUME NEW b \in DecisionAction, NEW x \in DecisionAction, AtLeast(x, b),
               \/ x = submission.proposed
               \/ x \in ActionsOf(records, Mandatory(records))
               \/ x \in full.actions
        PROVE  AtLeast(decision.action, b)
    <3>1. decision.action \in DecisionAction /\ AtLeast(decision.action, x)
      BY <2>7, DecisionIsFloor
    <3> QED BY <3>1, <2>7, SeverityOrders
  <2>8. ActionsOf(part, Mandatory(part)) \subseteq ActionsOf(records, Mandatory(records))
    BY <2>1, PartsActions
  <2>9. ActionsOf(records, Mandatory(records)) \in SUBSET DecisionAction
    <3>1. Mandatory(records) \in SUBSET Enforced(records)
      BY DEF Mandatory
    <3> QED BY <3>1, EnforcedActions
  <2>10. ASSUME NEW b \in level.actions
         PROVE  b \in DecisionAction /\ AtLeast(decision.action, b)
    <3>1. CASE submission.mode = "record"
      <4>1. level = full
        BY <3>1 DEF decision_level
      <4>2. b \in DecisionAction
        BY <4>1, LevelActions
      <4> QED BY <4>1, <4>2, <2>7, SeverityOrders
    <3>2. CASE submission.mode = "gate" /\ blocked_by_mandatory_gate(records)
      <4>1. "BLOCK" \in ActionsOf(records, Mandatory(records)) /\ "BLOCK" \in DecisionAction
        BY <3>2 DEF blocked_by_mandatory_gate, DecisionAction
      <4>2. level.actions \in SUBSET DecisionAction
        BY <3>2, <2>1, GateLevelActions DEF level
      <4>3. b \in DecisionAction /\ AtLeast("BLOCK", b)
        BY <4>2, SeverityOrders
      <4> QED BY <4>1, <4>3, <2>7
    <3>3. CASE submission.mode = "gate" /\ ~blocked_by_mandatory_gate(records)
      <4>1. ~blocked_by_mandatory_gate(part)
        BY <3>3, <2>8 DEF blocked_by_mandatory_gate
      <4>2. level = advisory_side(submission.evidence, registration.novel, part)
        BY <3>3, <4>1 DEF decision_level
      <4>3. full = advisory_side(submission.evidence, registration.novel, records)
        BY <3>3 DEF decision_level
      <4>4. b \in DecisionAction
            /\ \E x \in full.actions \cap DecisionAction : AtLeast(x, b)
        BY <2>1, <4>2, <4>3, AdvisorySideGrows
      <4> QED BY <4>4, <2>7
    <3> QED BY <2>4, <3>1, <3>2, <3>3
  <2>11. enforced \in SUBSET DecisionAction
    BY <2>8, <2>9, <2>10
  <2>12. a \in Candidates(submission.proposed, enforced)
    <3>1. Candidates(submission.proposed, enforced) \in SUBSET DecisionAction
      BY <2>4, <2>11 DEF Candidates
    <3> HIDE DEF enforced
    <3> QED BY <2>5, <2>6, <3>1, StrictestIsStrictest DEF most_restrictive
  <2>13. \/ a = submission.proposed /\ a \in DecisionAction
         \/ a \in ActionsOf(part, Mandatory(part))
         \/ a \in level.actions
    BY <2>4, <2>12 DEF Candidates
  <2> HIDE DEF a, level, enforced, full
  <2>14. CASE a = submission.proposed /\ a \in DecisionAction
    BY <2>14, <2>7, SeverityOrders DEF a, part
  <2>15. CASE a \in ActionsOf(part, Mandatory(part))
    BY <2>15, <2>7, <2>8, <2>9, SeverityOrders DEF a, part
  <2>16. CASE a \in level.actions
    BY <2>16, <2>10 DEF a, part
  <2> QED BY <2>13, <2>14, <2>15, <2>16
<1> QED BY <1>1, EnforcementInvariance, PTL

-----------------------------------------------------------------------------
(* The rule a summary credits. *)

\* A gate-level enforcement is a rule and an action; a probe blocks, a missing
\* verdict holds.
LEMMA GateOutputForm ==
    ASSUME NEW output, NEW groups
    PROVE  LET e == resolve_gate_output(output, groups) IN
           /\ e = Fired(e.rule, e.action)
           /\ e.rule = TIER2_ADVERSARIAL_PROBE => e.action = "BLOCK"
           /\ e.rule = TIER1_SCHEMA_FAILURE => e.action = "HOLD"
<1> DEFINE conservative == most_conservative(output.permitted)
           e == resolve_gate_output(output, groups)
<1>1. \/ e = Fired(TIER1_SCHEMA_FAILURE, "HOLD")
      \/ e = Fired(TIER2_ADVERSARIAL_PROBE, "BLOCK")
      \/ e = Fired(TIER4_LOW_CONFIDENCE, "HOLD")
      \/ e = Fired(TIER5_JURISDICTION_CONFLICT, "HOLD")
      \/ e = Fired(NoRule, conservative)
  BY DEF resolve_gate_output
<1> HIDE DEF e, conservative
<1>2. \A rule, action : Fired(rule, action).rule = rule /\ Fired(rule, action).action = action
  BY DEF Fired
<1>3. e = Fired(e.rule, e.action)
  BY <1>1, <1>2
<1>4. /\ e.rule = TIER2_ADVERSARIAL_PROBE => e.action = "BLOCK"
      /\ e.rule = TIER1_SCHEMA_FAILURE => e.action = "HOLD"
  <2>1. \/ e.rule = TIER1_SCHEMA_FAILURE /\ e.action = "HOLD"
        \/ e.rule = TIER2_ADVERSARIAL_PROBE /\ e.action = "BLOCK"
        \/ e.rule \in {TIER4_LOW_CONFIDENCE, TIER5_JURISDICTION_CONFLICT, NoRule}
    BY <1>1, <1>2
  <2>2. /\ TIER1_SCHEMA_FAILURE # TIER2_ADVERSARIAL_PROBE
        /\ TIER1_SCHEMA_FAILURE \notin {TIER4_LOW_CONFIDENCE, TIER5_JURISDICTION_CONFLICT, NoRule}
        /\ TIER2_ADVERSARIAL_PROBE \notin {TIER4_LOW_CONFIDENCE, TIER5_JURISDICTION_CONFLICT, NoRule}
    BY DEF TIER1_SCHEMA_FAILURE, TIER2_ADVERSARIAL_PROBE, TIER4_LOW_CONFIDENCE,
           TIER5_JURISDICTION_CONFLICT, NoRule
  <2> QED BY <2>1, <2>2
<1> QED BY <1>3, <1>4 DEF e

\* So is what the record of a gate that ended carries.
LEMMA RecordedEnforcement ==
    ASSUME EnforcementInv, NEW i \in Enforced(records)
    PROVE  LET e == records[i].enforcement IN
           /\ e = resolve_gate_output(records[i].output, registration.groups)
           /\ e = Fired(e.rule, e.action)
           /\ e.rule = TIER2_ADVERSARIAL_PROBE => e.action = "BLOCK"
           /\ e.rule = TIER1_SCHEMA_FAILURE => e.action = "HOLD"
<1>1. records[i] \in GateRecords /\ records[i].status # "skipped"
  BY DEF EnforcementInv, Enforced
<1>2. PICK mandatory \in BOOLEAN, outcome \in Outcomes : records[i] = RecordOf(mandatory, outcome)
  <2>1. records[i] # SkippedRecord
    BY <1>1 DEF SkippedRecord
  <2> QED BY <1>1, <2>1 DEF GateRecords
<1>3. records[i].enforcement = resolve_gate_output(records[i].output, registration.groups)
  BY <1>2 DEF RecordOf
<1> QED BY <1>3, GateOutputForm

\* The gates enforced at the final action, and the first of them.
Setting == {i \in Enforced(records) : records[i].enforcement.action = decision.action}

LEMMA FirstSetting ==
    ASSUME EnforcementInv, Setting # {}
    PROVE  (CHOOSE i \in Setting : \A j \in Setting : i <= j) \in Setting
<1>1. Setting \in SUBSET Nat
  BY DEF EnforcementInv, Setting, Enforced
<1>2. \E i \in Setting : \A j \in Setting : i <= j
  BY <1>1, LeastOf
<1> QED BY <1>2

\* The final action is the proposal, or entered as a gate's or as the level's.
LEMMA DecisionIsCandidate ==
    ASSUME EnforcementInv, Decided
    PROVE  /\ decision.action \in DecisionAction
           /\ \/ decision.action = submission.proposed
              \/ decision.action \in ActionsOf(records, Mandatory(records))
              \/ decision.action
                   \in decision_level(submission, records, registration, cited, competing).actions
<1> DEFINE level == decision_level(submission, records, registration, cited, competing)
           enforced == ActionsOf(records, Mandatory(records)) \cup level.actions
           candidates == Candidates(submission.proposed, enforced)
<1>1. submission \in Submission /\ submission.mode \in {"gate", "record"}
      /\ submission.proposed \in DecisionAction \cup {NoAction}
  BY DEF EnforcementInv, Submission
<1>2. enforced \in SUBSET DecisionAction
  <2>1. Mandatory(records) \in SUBSET Enforced(records)
    BY DEF Mandatory
  <2> QED BY <2>1, EnforcedActions, LevelActions
<1>3. submission.proposed \in DecisionAction \/ (submission.mode # "record" /\ Enforced(records) # {})
  <2>1. CASE submission.mode = "record"
    BY <2>1, EnforcementConstants DEF EnforcementInv, CitesRegisteredRule
  <2>2. CASE submission.mode = "gate"
    <3>1. records # <<>> /\ records \in Seq(GateRecords) /\ SkipsAreExcused
      BY <2>2 DEF EnforcementInv, SomeGate
    <3>2. 1 \in DOMAIN records
      BY <3>1
    <3>3. CASE records[1].status = "skipped"
      <4>1. blocked_by_mandatory_gate(records)
        BY <2>2, <3>1, <3>2, <3>3 DEF SkipsAreExcused, Skips
      <4>2. Enforced(records) # {}
        BY <4>1 DEF blocked_by_mandatory_gate, ActionsOf, Mandatory
      <4> QED BY <2>2, <4>2
    <3>4. CASE records[1].status # "skipped"
      BY <2>2, <3>2, <3>4 DEF Enforced
    <3> QED BY <3>3, <3>4
  <2> QED BY <1>1, <2>1, <2>2
<1>4. candidates # {}
  BY <1>1, <1>3, SomeCandidate
<1>5. decision.action = Strictest(candidates)
  BY DEF EnforcementInv, DecisionIsResolved, resolve_decision, Fired, most_restrictive
<1>6. candidates \in SUBSET DecisionAction
  BY <1>1, <1>2 DEF Candidates
<1> HIDE DEF enforced, candidates, level
<1>7. decision.action \in candidates /\ decision.action \in DecisionAction
  BY <1>4, <1>5, <1>6, StrictestIsStrictest
<1> QED BY <1>7 DEF Candidates, candidates, enforced, level

\* What enters as a gate's action is that of a gate enforced at it.
LEMMA GateSets ==
    ASSUME NEW at \in SUBSET Enforced(records), decision.action \in ActionsOf(records, at)
    PROVE  Setting # {}
BY DEF ActionsOf, Setting

\* When no gate is enforced at the final action and the decision-level rule is
\* not credited, the reasoner proposed it.
LEMMA NobodyElse ==
    ASSUME EnforcementInv, Decided, Setting = {}, decision.action # submission.proposed
    PROVE  LET stricter == StricterActions(cited, competing) IN
           \/ /\ decision.rule \in {TIER3_NOVEL_ENTITY, BYPASS_RULE_NOT_SATISFIED}
              /\ decision.action = "HOLD"
           \/ /\ decision.rule = BYPASS_RULE_SUPERSEDED
              /\ stricter # {} /\ Strictest(stricter) = decision.action
<1> DEFINE level == decision_level(submission, records, registration, cited, competing)
           stricter == StricterActions(cited, competing)
           advisory == ActionsOf(records, Advisory(records))
           final == decision.action
<1>1. Mandatory(records) \in SUBSET Enforced(records) /\ Advisory(records) \in SUBSET Enforced(records)
  BY DEF Mandatory, Advisory
<1>2. final \notin ActionsOf(records, Mandatory(records)) /\ final \notin advisory
  BY <1>1, GateSets
<1>3. final \in level.actions /\ final \in DecisionAction
  BY <1>2, DecisionIsCandidate
<1>4. decision.rule = level.rule
  BY DEF EnforcementInv, DecisionIsResolved, resolve_decision, Fired
<1>5. CASE submission.mode = "record"
  <2> DEFINE s == Strictest(stricter)
  <2>1. level = bypass_rules(cited, competing)
    BY <1>5 DEF decision_level
  <2>2. stricter \in SUBSET DecisionAction /\ (stricter # {} => s \in DecisionAction)
    BY <1>5, BypassActions, StrictestIsStrictest
  <2>3. stricter # {} => s \in level.actions /\ AtLeast(final, s)
    <3> SUFFICES ASSUME stricter # {} PROVE s \in level.actions /\ AtLeast(final, s)
      OBVIOUS
    <3>1. s \in level.actions
      BY <2>1 DEF bypass_rules, Contribution
    <3> QED BY <2>2, <3>1, DecisionIsFloor
  <2>4. "HOLD" \in level.actions => AtLeast(final, "HOLD")
    <3>1. "HOLD" \in DecisionAction
      BY DEF DecisionAction
    <3> QED BY <3>1, DecisionIsFloor
  <2> HIDE DEF level, stricter, final
  <2>5. CASE cited.holds
    <3>1. level.actions = (IF stricter = {} THEN {} ELSE {Strictest(stricter)})
      BY <2>1, <2>5 DEF bypass_rules, Contribution, stricter
    <3>2. stricter # {} /\ final = Strictest(stricter)
      BY <1>3, <3>1
    <3>3. level.rule = BYPASS_RULE_SUPERSEDED
      BY <2>1, <2>5, <3>2 DEF bypass_rules, Contribution, stricter
    <3> QED BY <1>4, <3>2, <3>3 DEF stricter, final
  <2>6. CASE ~cited.holds /\ stricter = {}
    <3>1. level = Contribution(BYPASS_RULE_NOT_SATISFIED, {"HOLD"})
      BY <2>1, <2>6 DEF bypass_rules, stricter
    <3>2. level.rule = BYPASS_RULE_NOT_SATISFIED /\ final = "HOLD"
      BY <1>3, <3>1 DEF Contribution
    <3> QED BY <1>4, <3>2 DEF final
  <2>7. CASE ~cited.holds /\ stricter # {} /\ AtLeast("HOLD", s)
    <3>1. level = Contribution(BYPASS_RULE_NOT_SATISFIED, {"HOLD"} \cup {s})
      BY <2>1, <2>7 DEF bypass_rules, stricter
    <3>2. level.rule = BYPASS_RULE_NOT_SATISFIED /\ level.actions = {"HOLD"} \cup {s}
      BY <3>1 DEF Contribution
    <3>3. final = "HOLD"
      BY <1>3, <2>2, <2>4, <2>7, <3>2 DEF AtLeast, severity, DecisionAction
    <3> QED BY <1>4, <3>2, <3>3 DEF final
  <2>8. CASE ~cited.holds /\ stricter # {} /\ ~AtLeast("HOLD", s)
    <3>1. level = Contribution(BYPASS_RULE_SUPERSEDED, {"HOLD"} \cup {s})
      BY <2>1, <2>8 DEF bypass_rules, stricter
    <3>2. level.rule = BYPASS_RULE_SUPERSEDED /\ level.actions = {"HOLD"} \cup {s}
      BY <3>1 DEF Contribution
    <3>3. final = s
      BY <1>3, <2>3, <2>8, <3>2
    <3> QED BY <1>4, <2>8, <3>2, <3>3 DEF stricter, final
  <2> QED BY <2>5, <2>6, <2>7, <2>8
<1>6. CASE submission.mode # "record" /\ blocked_by_mandatory_gate(records)
  <2>1. level.actions = advisory
    BY <1>6 DEF decision_level, Contribution
  <2> QED BY <1>2, <1>3, <2>1
<1>7. CASE submission.mode # "record" /\ ~blocked_by_mandatory_gate(records)
  <2> DEFINE rules == RulesOf(records, Advisory(records))
  <2>1. level = advisory_side(submission.evidence, registration.novel, records)
    BY <1>7 DEF decision_level
  <2>2. CASE submission.evidence \notin registration.novel
    <3>1. Advisory(records) # {} /\ final = Strictest(advisory)
      BY <1>3, <2>1, <2>2 DEF advisory_side, Contribution
    <3>2. advisory # {} /\ advisory \in SUBSET DecisionAction
      BY <1>1, <3>1, EnforcedActions DEF ActionsOf
    <3>3. Strictest(advisory) \in advisory
      BY <3>2, StrictestIsStrictest
    <3> QED BY <1>2, <3>1, <3>3
  <2>3. CASE submission.evidence \in registration.novel /\ TIER2_ADVERSARIAL_PROBE \in rules
    <3>1. final = "BLOCK"
      BY <1>3, <2>1, <2>3 DEF advisory_side, Contribution
    <3>2. PICK i \in Advisory(records) : records[i].enforcement.rule = TIER2_ADVERSARIAL_PROBE
      BY <2>3 DEF RulesOf
    <3>3. records[i].enforcement.action = "BLOCK"
      BY <1>1, <3>2, RecordedEnforcement
    <3> QED BY <1>2, <3>1, <3>3 DEF ActionsOf
  <2>4. CASE submission.evidence \in registration.novel /\ rules = {TIER1_SCHEMA_FAILURE}
    <3>1. TIER2_ADVERSARIAL_PROBE \notin rules
      BY <2>4 DEF TIER1_SCHEMA_FAILURE, TIER2_ADVERSARIAL_PROBE
    <3>2. final = "HOLD"
      BY <1>3, <2>1, <2>4, <3>1 DEF advisory_side, Contribution
    <3>3. PICK i \in Advisory(records) : records[i].enforcement.rule = TIER1_SCHEMA_FAILURE
      BY <2>4 DEF RulesOf
    <3>4. records[i].enforcement.action = "HOLD"
      BY <1>1, <3>3, RecordedEnforcement
    <3> QED BY <1>2, <3>2, <3>4 DEF ActionsOf
  <2>5. CASE /\ submission.evidence \in registration.novel
             /\ TIER2_ADVERSARIAL_PROBE \notin rules /\ rules # {TIER1_SCHEMA_FAILURE}
    <3>1. final = "HOLD" /\ level.rule = TIER3_NOVEL_ENTITY
      BY <1>3, <2>1, <2>5 DEF advisory_side, Contribution
    <3> QED BY <1>4, <3>1
  <2> QED BY <2>2, <2>3, <2>4, <2>5
<1> QED BY <1>5, <1>6, <1>7

\* A decision-level rule that is credited contributed the final action.
LEMMA LevelRuleEntered ==
    ASSUME EnforcementInv, Decided,
           LET stricter == StricterActions(cited, competing) IN
           \/ /\ decision.rule \in {TIER3_NOVEL_ENTITY, BYPASS_RULE_NOT_SATISFIED}
              /\ decision.action = "HOLD"
           \/ /\ decision.rule = BYPASS_RULE_SUPERSEDED
              /\ stricter # {} /\ Strictest(stricter) = decision.action
    PROVE  /\ decision.rule # NoRule
           /\ decision.action
                \in decision_level(submission, records, registration, cited, competing).actions
<1> DEFINE level == decision_level(submission, records, registration, cited, competing)
           stricter == StricterActions(cited, competing)
<1>1. decision.rule # NoRule
  BY DEF TIER3_NOVEL_ENTITY, BYPASS_RULE_NOT_SATISFIED, BYPASS_RULE_SUPERSEDED, NoRule
<1>2. decision.rule = level.rule
  BY DEF EnforcementInv, DecisionIsResolved, resolve_decision, Fired
<1>3. CASE submission.mode = "record"
  <2>1. level = bypass_rules(cited, competing)
    BY <1>3 DEF decision_level
  <2>2. level.rule \in {BYPASS_RULE_SUPERSEDED, BYPASS_RULE_NOT_SATISFIED, NoRule}
    BY <2>1 DEF bypass_rules, Contribution
  <2>3. level.rule = BYPASS_RULE_NOT_SATISFIED => "HOLD" \in level.actions
    <3>1. CASE cited.holds
      <4>1. level.rule \in {BYPASS_RULE_SUPERSEDED, NoRule}
        BY <2>1, <3>1 DEF bypass_rules, Contribution
      <4> QED BY <4>1 DEF BYPASS_RULE_SUPERSEDED, BYPASS_RULE_NOT_SATISFIED, NoRule
    <3>2. CASE ~cited.holds
      BY <2>1, <3>2 DEF bypass_rules, Contribution
    <3> QED BY <3>1, <3>2
  <2>4. stricter # {} => Strictest(stricter) \in level.actions
    BY <2>1 DEF bypass_rules, Contribution
  <2>5. level.rule # TIER3_NOVEL_ENTITY
    BY <2>2 DEF TIER3_NOVEL_ENTITY, BYPASS_RULE_SUPERSEDED, BYPASS_RULE_NOT_SATISFIED, NoRule
  <2> HIDE DEF level
  <2> QED BY <1>1, <1>2, <2>3, <2>4, <2>5 DEF level
<1>4. CASE submission.mode # "record"
  <2>1. level.rule \in {NoRule, TIER3_NOVEL_ENTITY}
        /\ (level.rule = TIER3_NOVEL_ENTITY => level.actions = {"HOLD"})
    BY <1>4 DEF decision_level, advisory_side, Contribution, NoRule, TIER3_NOVEL_ENTITY
  <2>2. decision.rule = TIER3_NOVEL_ENTITY /\ decision.action = "HOLD"
    BY <1>1, <1>2, <2>1 DEF TIER3_NOVEL_ENTITY, BYPASS_RULE_NOT_SATISFIED, BYPASS_RULE_SUPERSEDED
  <2> QED BY <1>1, <1>2, <2>1, <2>2
<1> QED BY <1>3, <1>4

\* What credited_rule returns, by its three cases.
LEMMA CreditedCases ==
    ASSUME EnforcementInv, Decided
    PROVE  LET rule == credited_rule(decision, records, cited, competing)
               level == decision_level(submission, records, registration, cited, competing)
           IN  \/ rule # NoRule /\ rule = decision.rule /\ decision.action \in level.actions
               \/ \E i \in Enforced(records) : records[i].enforcement = Fired(rule, decision.action)
               \/ rule = NoRule /\ submission.proposed = decision.action
<1> DEFINE stricter == StricterActions(cited, competing)
           Level == \/ /\ decision.rule \in {TIER3_NOVEL_ENTITY, BYPASS_RULE_NOT_SATISFIED}
                       /\ decision.action = "HOLD"
                    \/ /\ decision.rule = BYPASS_RULE_SUPERSEDED
                       /\ stricter # {} /\ Strictest(stricter) = decision.action
           first == CHOOSE i \in Setting : \A j \in Setting : i <= j
           rule == credited_rule(decision, records, cited, competing)
<1>1. rule = IF Level THEN decision.rule
             ELSE IF Setting = {} THEN NoRule ELSE records[first].enforcement.rule
  BY DEF credited_rule, Setting
<1> HIDE DEF rule
<1>2. CASE Level
  BY <1>1, <1>2, LevelRuleEntered DEF rule
<1>3. CASE ~Level /\ Setting # {}
  <2>1. first \in Setting
    BY <1>3, FirstSetting
  <2> HIDE DEF first, Level
  <2>2. first \in Enforced(records) /\ records[first].enforcement.action = decision.action
    BY <2>1 DEF Setting
  <2>3. records[first].enforcement
          = Fired(records[first].enforcement.rule, records[first].enforcement.action)
    BY <2>2, RecordedEnforcement
  <2>4. rule = records[first].enforcement.rule
    BY <1>1, <1>3
  <2> QED BY <2>2, <2>3, <2>4 DEF rule
<1>4. CASE ~Level /\ Setting = {}
  <2>1. decision.action = submission.proposed
    BY <1>4, NobodyElse
  <2>2. rule = NoRule
    BY <1>1, <1>4
  <2> QED BY <2>1, <2>2 DEF rule
<1> QED BY <1>2, <1>3, <1>4

\* The credited rule really set the action (credited_rule of resolver.py), for
\* any gates, rules and competing checks.
THEOREM CreditIsEarned == Spec => []CreditExplainsAction
<1>1. EnforcementInv => CreditExplainsAction
  BY CreditedCases DEF CreditExplainsAction
<1> QED BY <1>1, EnforcementInvariance, PTL

\* One advisory gate and nothing else: the split resolver and its credit are the
\* single-pass resolver it was split from, for any output and registration.
THEOREM SplitResolverIsSinglePass == Spec => []ReproducesSinglePass
<1>1. EnforcementInv => ReproducesSinglePass
  <2> SUFFICES ASSUME EnforcementInv, Decided, submission.mode = "gate",
                      submission.proposed = NoAction, Len(records) = 1, ~records[1].mandatory
               PROVE  Fired(credited_rule(decision, records, cited, competing), decision.action)
                        = SinglePass(records[1].output, submission.evidence \in registration.novel,
                                     registration.groups)
    BY DEF ReproducesSinglePass
  <2> DEFINE e == records[1].enforcement
             novel == submission.evidence \in registration.novel
             credited == credited_rule(decision, records, cited, competing)
             level == decision_level(submission, records, registration, cited, competing)
  <2>1. records \in Seq(GateRecords) /\ SkipsAreExcused
    BY DEF EnforcementInv
  <2>2. DOMAIN records = {1}
    <3>1. DOMAIN records = 1 .. 1
      BY <2>1
    <3> QED BY <3>1
  <2>3. Mandatory(records) = {} /\ ActionsOf(records, Mandatory(records)) = {}
    BY <2>2 DEF Mandatory, Enforced, ActionsOf
  <2>4. ~blocked_by_mandatory_gate(records)
    BY <2>3 DEF blocked_by_mandatory_gate
  <2>5. records[1].status # "skipped"
    BY <2>1, <2>2, <2>4 DEF SkipsAreExcused, Skips
  <2>6. Enforced(records) = {1} /\ Advisory(records) = {1}
    BY <2>2, <2>5 DEF Enforced, Advisory
  <2>7. /\ ActionsOf(records, Advisory(records)) = {e.action}
        /\ RulesOf(records, Advisory(records)) = {e.rule}
    BY <2>6 DEF ActionsOf, RulesOf
  <2>8. /\ e = resolve_gate_output(records[1].output, registration.groups)
        /\ e = Fired(e.rule, e.action)
        /\ e.rule = TIER2_ADVERSARIAL_PROBE => e.action = "BLOCK"
        /\ e.rule = TIER1_SCHEMA_FAILURE => e.action = "HOLD"
    BY <2>6, RecordedEnforcement
  <2>9. e.action \in DecisionAction
    BY <2>6, <2>7, EnforcedActions
  <2>10. \A a \in DecisionAction : Strictest({a}) = a /\ most_restrictive(NoAction, {} \cup {a}) = a
    <3> SUFFICES ASSUME NEW a \in DecisionAction
                 PROVE  Strictest({a}) = a /\ most_restrictive(NoAction, {} \cup {a}) = a
      OBVIOUS
    <3>1. Strictest({a}) = a
      BY StrictestIsStrictest
    <3>2. Candidates(NoAction, {} \cup {a}) = {a}
      BY DEF Candidates
    <3> QED BY <3>1, <3>2 DEF most_restrictive
  <2>11. level = advisory_side(submission.evidence, registration.novel, records)
    BY <2>4 DEF decision_level
  <2>12. decision = Fired(level.rule, most_restrictive(NoAction, {} \cup level.actions))
    BY <2>3 DEF EnforcementInv, DecisionIsResolved, resolve_decision
  <2> HIDE DEF e, level, credited
  \* The gate's own enforcement decides, and is credited.
  <2>13. ASSUME level = Contribution(NoRule, {e.action})
         PROVE  Fired(credited, decision.action) = e
    <3>1. decision = Fired(NoRule, e.action)
      BY <2>9, <2>10, <2>12, <2>13 DEF Contribution
    <3>2. decision.rule = NoRule /\ decision.action = e.action
      BY <3>1 DEF Fired
    <3>3. Setting = {1}
      BY <2>6, <3>2 DEF Setting, e
    <3>4. (CHOOSE i \in Setting : \A j \in Setting : i <= j) = 1
      BY <3>3, FirstSetting
    <3>5. decision.rule \notin {TIER3_NOVEL_ENTITY, BYPASS_RULE_NOT_SATISFIED, BYPASS_RULE_SUPERSEDED}
      BY <3>2 DEF NoRule, TIER3_NOVEL_ENTITY, BYPASS_RULE_NOT_SATISFIED, BYPASS_RULE_SUPERSEDED
    <3>6. credited = records[1].enforcement.rule
      BY <3>3, <3>4, <3>5 DEF credited, credited_rule, Setting
    <3> QED BY <2>8, <3>2, <3>6 DEF e
  <2>14. ~novel => level = Contribution(NoRule, {e.action})
    BY <2>6, <2>7, <2>9, <2>10, <2>11 DEF advisory_side, e
  <2>15. CASE e.rule = TIER2_ADVERSARIAL_PROBE
    <3>1. novel => level = Contribution(NoRule, {"BLOCK"})
      BY <2>7, <2>11, <2>15 DEF advisory_side, e
    <3>2. SinglePass(records[1].output, novel, registration.groups) = e
      BY <2>8, <2>15 DEF SinglePass
    <3> QED BY <2>8, <2>13, <2>14, <2>15, <3>1, <3>2 DEF e, credited
  <2>16. CASE e.rule = TIER1_SCHEMA_FAILURE
    <3>1. TIER2_ADVERSARIAL_PROBE \notin RulesOf(records, Advisory(records))
      BY <2>7, <2>16 DEF TIER1_SCHEMA_FAILURE, TIER2_ADVERSARIAL_PROBE, e
    <3>2. novel => level = Contribution(NoRule, {"HOLD"})
      BY <2>7, <2>11, <2>16, <3>1 DEF advisory_side, e
    <3>3. SinglePass(records[1].output, novel, registration.groups) = e
      BY <2>8, <2>16 DEF SinglePass
    <3> QED BY <2>8, <2>13, <2>14, <2>16, <3>2, <3>3 DEF e, credited
  <2>17. CASE e.rule \notin {TIER1_SCHEMA_FAILURE, TIER2_ADVERSARIAL_PROBE} /\ ~novel
    <3>1. SinglePass(records[1].output, novel, registration.groups) = e
      BY <2>8, <2>17 DEF SinglePass
    <3> QED BY <2>13, <2>14, <2>17, <3>1 DEF credited
  <2>18. CASE e.rule \notin {TIER1_SCHEMA_FAILURE, TIER2_ADVERSARIAL_PROBE} /\ novel
    <3>1. level = Contribution(TIER3_NOVEL_ENTITY, {"HOLD"})
      <4>1. /\ TIER2_ADVERSARIAL_PROBE \notin RulesOf(records, Advisory(records))
            /\ RulesOf(records, Advisory(records)) # {TIER1_SCHEMA_FAILURE}
        BY <2>7, <2>18 DEF e
      <4> QED BY <2>11, <2>18, <4>1 DEF advisory_side
    <3>2. "HOLD" \in DecisionAction
      BY DEF DecisionAction
    <3>3. decision = Fired(TIER3_NOVEL_ENTITY, "HOLD")
      BY <2>10, <2>12, <3>1, <3>2 DEF Contribution
    <3>4. decision.rule = TIER3_NOVEL_ENTITY /\ decision.action = "HOLD"
      BY <3>3 DEF Fired
    <3>5. credited = TIER3_NOVEL_ENTITY
      BY <3>4 DEF credited, credited_rule
    <3>6. SinglePass(records[1].output, novel, registration.groups) = Fired(TIER3_NOVEL_ENTITY, "HOLD")
      BY <2>8, <2>18 DEF SinglePass
    <3> QED BY <3>4, <3>5, <3>6 DEF credited
  <2> QED BY <2>15, <2>16, <2>17, <2>18
<1> QED BY <1>1, EnforcementInvariance, PTL

-----------------------------------------------------------------------------
(* What the gates admit (GateAdmission).  RestartAdmits compares           *)
(* two histories, the one that led here and a fresh start; what ties them  *)
(* is that every template in a gate is its owner's alone (Owned), that the *)
(* gates keep what they were built with (GateGrew) and that whatever is in *)
(* force passed the checks that cannot change while the ledger runs        *)
(* (EntriesFit, PutSound).                                                 *)

\* What a reasoner may ship, and the states of a policy gate.
Shipped == Assets \cup Range(Plugged)
Profiles == [template_ids : SUBSET Templates, jurisdictions : SUBSET Jurisdictions]
Texts == UNION {Range(assets.templates) : assets \in Shipped}
Prompts == [text : Texts, owner : Ids]
GateStates == [profiles : UNION {[S -> Profiles] : S \in SUBSET Ids},
               templates : UNION {[S -> Prompts] : S \in SUBSET Templates}]

\* The templates of a profile are in the gate, under the profile's reasoner.
Owned(g) == \A r \in DOMAIN g.profiles : \A t \in g.profiles[r].template_ids :
              t \in DOMAIN g.templates /\ g.templates[t].owner = r

\* Every template is one of some profile.
Covered(g) == \A t \in DOMAIN g.templates :
                \E r \in DOMAIN g.profiles : t \in g.profiles[r].template_ids

\* The profiles of g are those the gate h has for the same reasoners.
ProfilesOf(g, h) == \A r \in DOMAIN g.profiles :
                      r \in DOMAIN h.profiles /\ h.profiles[r] = g.profiles[r]

\* What a start on the settings checked, and a registration passed, that can
\* not change while the ledger runs.
Fits(written, s) ==
    /\ GateSetFits(written, s)
    /\ \A i \in DOMAIN written :
         written[i].gate_id \in Composed(s) /\ written[i].gate_id # "policy"
            => written[i].corpora = {}

\* The reasoners a start on the settings has an entry for.
Entered(s) == {r \in Ids : Entries(s)[r] # Unset}

\* The policy gate is well formed.
GateSound == gate \in GateStates /\ Owned(gate)

\* A registration past admission was admitted by the gates that run.
PutSound ==
    put # NoPut =>
       /\ ledger = "up"
       /\ put \in [pc : {"admitted", "stored"}, reasoner : Ids, registration : Puttable]
       /\ put.reasoner \notin Configured(settings)
       /\ Fits(put.registration, settings)

\* What a start has checked of what it read, and what is in force, still fits.
EntriesFit ==
    /\ unchecked \in Seq(Entered(settings))
    /\ \A r \in Entered(settings) \ ToSet(unchecked) : Fits(Entries(settings)[r], settings)

\* The gates as they were built, and what they have admitted since.
GateGrew == BuiltFromPlugins(settings).ok /\ ProfilesOf(BuiltFromPlugins(settings).gate, gate)

\* A decision's template is in the gate as the decision was authorized for.
DecisionSound ==
    gated # NoDecision =>
       /\ gated \in [pc : {"accepted", "rendered"}, reasoner : Ids, template : Templates,
                        text : Texts, rendered : Texts \cup {Unset}, owner : Ids \cup {Unset}]
       /\ gated.template \in DOMAIN gate.templates
       /\ gate.templates[gated.template].text = gated.text
       /\ gate.templates[gated.template].owner = gated.reasoner
       /\ gated.pc = "rendered" => /\ gated.rendered = gated.text
                                   /\ gated.owner = gated.reasoner

AdmissionInv ==
    /\ AdmissionTypeOK
    /\ GateSound
    /\ PutSound
    /\ DecisionSound
    /\ ledger # "up" => gated = NoDecision
    /\ ledger # "down" => EntriesFit /\ GateGrew
    /\ ledger = "checking" => serving = Entries(settings)
    /\ ledger = "up" => unchecked = <<>>

-----------------------------------------------------------------------------
(* A FoldLeft of SequencesExt recurs over the subsets of a sequence's    *)
(* domain, by their greatest elements.                                     *)

LEMMA GreatestIsMax ==
    ASSUME NEW n \in Nat, NEW S \in SUBSET (1 .. n), S # {}
    PROVE  /\ Max(S) \in S
           /\ \A k \in S : Max(S) >= k
           /\ \A m \in S : (\A k \in S : m >= k) => Max(S) = m
<1>1. \E m \in S : \A k \in S : m >= k
  BY GreatestOf
<1>2. Max(S) \in S /\ \A k \in S : Max(S) >= k
  BY <1>1 DEF Max
<1>3. \A k \in S : k \in Int
  OBVIOUS
<1>4. ASSUME NEW m \in S, \A k \in S : m >= k PROVE Max(S) = m
  <2>1. Max(S) \in Int /\ m \in Int /\ Max(S) >= m /\ m >= Max(S)
    BY <1>2, <1>4, <1>3
  <2> QED BY <2>1
<1> QED BY <1>2, <1>4

\* Such a recursion has values,
LoopOf(g, n, D, base, step) ==
    /\ g \in [SUBSET (1 .. n) -> D]
    /\ g[{}] = base
    /\ \A S \in SUBSET (1 .. n) : S # {} => g[S] = step[Max(S)][g[S \ {Max(S)}]]

LoopsOn(iter, n, D, base, step) ==
    /\ iter[{}] = base
    /\ \A S \in SUBSET (1 .. n) : S # {} /\ iter[S \ {Max(S)}] \in D
          => iter[S] = step[Max(S)][iter[S \ {Max(S)}]]

LEMMA LoopExists ==
    ASSUME NEW n \in Nat, NEW D, NEW base \in D, NEW step \in StepsOn(n, D)
    PROVE  \E g : LoopOf(g, n, D, base, step)
<1>1. PICK g : FoldOf(g, n, D, base, step)
  BY FoldExists
<1>2. ASSUME NEW S \in SUBSET (1 .. n), S # {}
      PROVE  g[S] = step[Max(S)][g[S \ {Max(S)}]]
  <2>1. Max(S) \in S /\ \A k \in S : Max(S) >= k
    BY <1>2, GreatestIsMax
  <2> QED BY <1>1, <2>1 DEF FoldOf
<1>3. LoopOf(g, n, D, base, step)
  BY <1>1, <1>2 DEF FoldOf, LoopOf
<1> QED BY <1>3

\* and the last is reached one element after the other.
LEMMA LoopRuns ==
    ASSUME NEW n \in Nat, NEW D, NEW base \in D, NEW step \in StepsOn(n, D), NEW iter,
           LoopsOn(iter, n, D, base, step)
    PROVE  \E f : RunOf(f, n, D, base, step) /\ f[n] = iter[1 .. n]
<1>1. ASSUME NEW S \in SUBSET (1 .. n), NEW m \in S, \A k \in S : m >= k,
             iter[S \ {m}] \in D
      PROVE  iter[S] = step[m][iter[S \ {m}]]
  <2>1. Max(S) = m
    BY <1>1, GreatestIsMax
  <2> QED BY <1>1, <2>1 DEF LoopsOn
<1>2. FoldsOn(iter, n, D, base, step)
  BY <1>1 DEF FoldsOn, LoopsOn
<1> QED BY <1>2, FoldRuns


\* The reasoners of a set, one row after the other.
InOrderLoop(f, D, S) ==
    /\ f \in [0 .. Len(ById) -> D]
    /\ f[0] = <<>>
    /\ \A k \in 1 .. Len(ById) :
         f[k] = IF ById[k] \in S THEN Append(f[k - 1], ById[k]) ELSE f[k - 1]
    /\ InOrder(S) = f[Len(ById)]

LEMMA InOrderRuns ==
    ASSUME NEW S,
           NEW D, <<>> \in D,
           \A v \in D : \A k \in 1 .. Len(ById) :
              (IF ById[k] \in S THEN Append(v, ById[k]) ELSE v) \in D
    PROVE  \E f : InOrderLoop(f, D, S)
<1> DEFINE n == Len(ById)
           base == <<>>
           To(k, v) == (IF ById[k] \in S THEN Append(v, ById[k]) ELSE v)
           step == [k \in 1 .. n |-> [v \in D |-> To(k, v)]]
           Recurs(h) == h = [T \in SUBSET DOMAIN ById |->
                               IF T = {} THEN base
                               ELSE IF ById[Max(T)] \in S
                                    THEN Append(h[T \ {Max(T)}], ById[Max(T)])
                                    ELSE h[T \ {Max(T)}]]
           iter == CHOOSE h : Recurs(h)
<1>1. n \in Nat /\ DOMAIN ById = 1 .. n
  BY AdmissionConstants
<1>2. InOrder(S) = iter[DOMAIN ById]
  BY DEF InOrder, FoldLeft, MapThenFoldSet
<1> HIDE DEF iter
<1>3. base \in D /\ \A k \in 1 .. n : \A v \in D : To(k, v) \in D
  OBVIOUS
<1> HIDE DEF To, n, base
<1>4. step \in StepsOn(n, D)
  BY <1>3 DEF StepsOn
<1>5. \A k \in 1 .. n : \A v \in D : step[k][v] = To(k, v)
  OBVIOUS
<1> HIDE DEF step
<1>6. \A T \in SUBSET (1 .. n) : T # {} => Max(T) \in 1 .. n
  BY <1>1, GreatestIsMax
<1>7. \E h : Recurs(h)
  <2>1. PICK e : LoopOf(e, n, D, base, step)
    BY <1>1, <1>3, <1>4, LoopExists
  <2>2. ASSUME NEW T \in SUBSET (1 .. n), T # {}
        PROVE  e[T] = To(Max(T), e[T \ {Max(T)}])
    <3>1. Max(T) \in 1 .. n /\ e[T \ {Max(T)}] \in D
      BY <1>6, <2>1, <2>2 DEF LoopOf
    <3> QED BY <1>5, <2>1, <2>2, <3>1 DEF LoopOf
  <2>3. e = [T \in SUBSET (1 .. n) |-> IF T = {} THEN base ELSE To(Max(T), e[T \ {Max(T)}])]
    BY <2>1, <2>2 DEF LoopOf
  <2>4. Recurs(e)
    BY <1>1, <2>3 DEF To
  <2> HIDE DEF Recurs
  <2> QED BY <2>4
<1>8. Recurs(iter)
  <2> HIDE DEF Recurs
  <2> QED BY <1>7 DEF iter
<1>9. /\ iter[{}] = base
      /\ \A T \in SUBSET (1 .. n) :
           T # {} => iter[T] = To(Max(T), iter[T \ {Max(T)}])
  BY <1>1, <1>8 DEF To
<1> HIDE DEF Recurs
<1>10. LoopsOn(iter, n, D, base, step)
  <2> SUFFICES ASSUME NEW T \in SUBSET (1 .. n), T # {}, iter[T \ {Max(T)}] \in D
               PROVE  iter[T] = step[Max(T)][iter[T \ {Max(T)}]]
    BY <1>9 DEF LoopsOn
  <2> QED BY <1>5, <1>6, <1>9
<1>11. PICK f : RunOf(f, n, D, base, step) /\ f[n] = iter[1 .. n]
  BY <1>1, <1>3, <1>4, <1>10, LoopRuns
<1>12. ASSUME NEW k \in 1 .. n PROVE f[k] = To(k, f[k - 1])
  <2>1. k - 1 \in 0 .. n
    BY <1>1
  <2> QED BY <1>5, <1>11, <2>1 DEF RunOf
<1>13. f \in [0 .. n -> D] /\ f[0] = base /\ InOrder(S) = f[n]
  BY <1>1, <1>2, <1>11 DEF RunOf
<1>14. InOrderLoop(f, D, S)
  BY <1>12, <1>13 DEF To, n, base, InOrderLoop
<1> QED BY <1>14

\* A gate set is checked one binding after the other.
Bound(v, r, binding, s) == IF v.ok THEN AdmitBinding(v.gate, r, binding, s) ELSE v

CheckLoop(f, D, g, r, s, written) ==
    /\ f \in [0 .. Len(written) -> D]
    /\ f[0] = [ok |-> TRUE, gate |-> g]
    /\ \A k \in 1 .. Len(written) :
         f[k] = Bound(f[k - 1], r, written[k], s)
    /\ CheckGateSet(g, r, written, s) = f[Len(written)]

LEMMA CheckRuns ==
    ASSUME NEW g, NEW r, NEW s, NEW written, written \in Seq(ToSet(written)),
           GateSetFits(written, s), NEW D, [ok |-> TRUE, gate |-> g] \in D,
           \A v \in D : \A k \in 1 .. Len(written) :
              Bound(v, r, written[k], s) \in D
    PROVE  \E f : CheckLoop(f, D, g, r, s, written)
<1> DEFINE n == Len(written)
           base == [ok |-> TRUE, gate |-> g]
           To(k, v) == Bound(v, r, written[k], s)
           step == [k \in 1 .. n |-> [v \in D |-> To(k, v)]]
           Recurs(h) == h = [T \in SUBSET DOMAIN written |->
                               IF T = {} THEN base
                               ELSE IF h[T \ {Max(T)}].ok
                                    THEN AdmitBinding(h[T \ {Max(T)}].gate, r,
                                                      written[Max(T)], s)
                                    ELSE h[T \ {Max(T)}]]
           iter == CHOOSE h : Recurs(h)
<1>1. n \in Nat /\ DOMAIN written = 1 .. n
  OBVIOUS
<1>2. CheckGateSet(g, r, written, s) = iter[DOMAIN written]
  BY DEF CheckGateSet, FoldLeft, MapThenFoldSet
<1> HIDE DEF iter
<1>3. base \in D /\ \A k \in 1 .. n : \A v \in D : To(k, v) \in D
  OBVIOUS
<1> HIDE DEF To, n, base
<1>4. step \in StepsOn(n, D)
  BY <1>3 DEF StepsOn
<1>5. \A k \in 1 .. n : \A v \in D : step[k][v] = To(k, v)
  OBVIOUS
<1> HIDE DEF step
<1>6. \A T \in SUBSET (1 .. n) : T # {} => Max(T) \in 1 .. n
  BY <1>1, GreatestIsMax
<1>7. \E h : Recurs(h)
  <2>1. PICK e : LoopOf(e, n, D, base, step)
    BY <1>1, <1>3, <1>4, LoopExists
  <2>2. ASSUME NEW T \in SUBSET (1 .. n), T # {}
        PROVE  e[T] = To(Max(T), e[T \ {Max(T)}])
    <3>1. Max(T) \in 1 .. n /\ e[T \ {Max(T)}] \in D
      BY <1>6, <2>1, <2>2 DEF LoopOf
    <3> QED BY <1>5, <2>1, <2>2, <3>1 DEF LoopOf
  <2>3. e = [T \in SUBSET (1 .. n) |-> IF T = {} THEN base ELSE To(Max(T), e[T \ {Max(T)}])]
    BY <2>1, <2>2 DEF LoopOf
  <2>4. Recurs(e)
    BY <1>1, <2>3 DEF To, Bound
  <2> HIDE DEF Recurs
  <2> QED BY <2>4
<1>8. Recurs(iter)
  <2> HIDE DEF Recurs
  <2> QED BY <1>7 DEF iter
<1>9. /\ iter[{}] = base
      /\ \A T \in SUBSET (1 .. n) :
           T # {} => iter[T] = To(Max(T), iter[T \ {Max(T)}])
  BY <1>1, <1>8 DEF To, Bound
<1> HIDE DEF Recurs
<1>10. LoopsOn(iter, n, D, base, step)
  <2> SUFFICES ASSUME NEW T \in SUBSET (1 .. n), T # {}, iter[T \ {Max(T)}] \in D
               PROVE  iter[T] = step[Max(T)][iter[T \ {Max(T)}]]
    BY <1>9 DEF LoopsOn
  <2> QED BY <1>5, <1>6, <1>9
<1>11. PICK f : RunOf(f, n, D, base, step) /\ f[n] = iter[1 .. n]
  BY <1>1, <1>3, <1>4, <1>10, LoopRuns
<1>12. ASSUME NEW k \in 1 .. n PROVE f[k] = To(k, f[k - 1])
  <2>1. k - 1 \in 0 .. n
    BY <1>1
  <2> QED BY <1>5, <1>11, <2>1 DEF RunOf
<1>13. f \in [0 .. n -> D] /\ f[0] = base /\ CheckGateSet(g, r, written, s) = f[n]
  BY <1>1, <1>2, <1>11 DEF RunOf
<1>14. CheckLoop(f, D, g, r, s, written)
  BY <1>12, <1>13 DEF To, n, base, CheckLoop
<1> QED BY <1>14

\* The policy gate is built from one plugin after the other.
BuiltLoop(f, D, s) ==
    /\ f \in [0 .. Len(PluginIds(s)) -> D]
    /\ f[0] = [ok |-> TRUE, gate |-> NoGate]
    /\ \A k \in 1 .. Len(PluginIds(s)) :
         f[k] = [ok |-> f[k - 1].ok /\ MayAdd(f[k - 1].gate, Plugged[PluginIds(s)[k]]),
                 gate |-> Added(f[k - 1].gate, PluginIds(s)[k], Plugged[PluginIds(s)[k]])]
    /\ BuiltFromPlugins(s) = f[Len(PluginIds(s))]

LEMMA BuiltRuns ==
    ASSUME NEW s, PluginIds(s) \in Seq(Ids),
           "policy" \in Composed(s), NEW D, [ok |-> TRUE, gate |-> NoGate] \in D,
           \A v \in D : \A k \in 1 .. Len(PluginIds(s)) :
              ([ok |-> v.ok /\ MayAdd(v.gate, Plugged[PluginIds(s)[k]]),
                 gate |-> Added(v.gate, PluginIds(s)[k], Plugged[PluginIds(s)[k]])]) \in D
    PROVE  \E f : BuiltLoop(f, D, s)
<1> DEFINE n == Len(PluginIds(s))
           base == [ok |-> TRUE, gate |-> NoGate]
           To(k, v) == ([ok |-> v.ok /\ MayAdd(v.gate, Plugged[PluginIds(s)[k]]),
                 gate |-> Added(v.gate, PluginIds(s)[k], Plugged[PluginIds(s)[k]])])
           step == [k \in 1 .. n |-> [v \in D |-> To(k, v)]]
           Recurs(h) == h = [T \in SUBSET DOMAIN PluginIds(s) |->
                               IF T = {} THEN base
                               ELSE [ok |-> h[T \ {Max(T)}].ok
                                             /\ MayAdd(h[T \ {Max(T)}].gate,
                                                       Plugged[PluginIds(s)[Max(T)]]),
                 gate |-> Added(h[T \ {Max(T)}].gate, PluginIds(s)[Max(T)],
                                Plugged[PluginIds(s)[Max(T)]])]]
           iter == CHOOSE h : Recurs(h)
<1>1. n \in Nat /\ DOMAIN PluginIds(s) = 1 .. n
  OBVIOUS
<1>2. BuiltFromPlugins(s) = iter[DOMAIN PluginIds(s)]
  BY DEF BuiltFromPlugins, FoldLeft, MapThenFoldSet
<1> HIDE DEF iter
<1>3. base \in D /\ \A k \in 1 .. n : \A v \in D : To(k, v) \in D
  OBVIOUS
<1> HIDE DEF To, n, base
<1>4. step \in StepsOn(n, D)
  BY <1>3 DEF StepsOn
<1>5. \A k \in 1 .. n : \A v \in D : step[k][v] = To(k, v)
  OBVIOUS
<1> HIDE DEF step
<1>6. \A T \in SUBSET (1 .. n) : T # {} => Max(T) \in 1 .. n
  BY <1>1, GreatestIsMax
<1>7. \E h : Recurs(h)
  <2>1. PICK e : LoopOf(e, n, D, base, step)
    BY <1>1, <1>3, <1>4, LoopExists
  <2>2. ASSUME NEW T \in SUBSET (1 .. n), T # {}
        PROVE  e[T] = To(Max(T), e[T \ {Max(T)}])
    <3>1. Max(T) \in 1 .. n /\ e[T \ {Max(T)}] \in D
      BY <1>6, <2>1, <2>2 DEF LoopOf
    <3> QED BY <1>5, <2>1, <2>2, <3>1 DEF LoopOf
  <2>3. e = [T \in SUBSET (1 .. n) |-> IF T = {} THEN base ELSE To(Max(T), e[T \ {Max(T)}])]
    BY <2>1, <2>2 DEF LoopOf
  <2>4. Recurs(e)
    BY <1>1, <2>3 DEF To
  <2> HIDE DEF Recurs
  <2> QED BY <2>4
<1>8. Recurs(iter)
  <2> HIDE DEF Recurs
  <2> QED BY <1>7 DEF iter
<1>9. /\ iter[{}] = base
      /\ \A T \in SUBSET (1 .. n) :
           T # {} => iter[T] = To(Max(T), iter[T \ {Max(T)}])
  BY <1>1, <1>8 DEF To
<1> HIDE DEF Recurs
<1>10. LoopsOn(iter, n, D, base, step)
  <2> SUFFICES ASSUME NEW T \in SUBSET (1 .. n), T # {}, iter[T \ {Max(T)}] \in D
               PROVE  iter[T] = step[Max(T)][iter[T \ {Max(T)}]]
    BY <1>9 DEF LoopsOn
  <2> QED BY <1>5, <1>6, <1>9
<1>11. PICK f : RunOf(f, n, D, base, step) /\ f[n] = iter[1 .. n]
  BY <1>1, <1>3, <1>4, <1>10, LoopRuns
<1>12. ASSUME NEW k \in 1 .. n PROVE f[k] = To(k, f[k - 1])
  <2>1. k - 1 \in 0 .. n
    BY <1>1
  <2> QED BY <1>5, <1>11, <2>1 DEF RunOf
<1>13. f \in [0 .. n -> D] /\ f[0] = base /\ BuiltFromPlugins(s) = f[n]
  BY <1>1, <1>2, <1>11 DEF RunOf
<1>14. BuiltLoop(f, D, s)
  BY <1>12, <1>13 DEF To, n, base, BuiltLoop
<1> QED BY <1>14

\* A start checks one entry after the other.
Entering(v, r) == IF v.ok THEN CheckGateSet(v.gate, r, Entries(settings)[r], settings) ELSE v

FreshLoop(f, D) ==
    /\ f \in [0 .. Len(EntryOrder(settings)) -> D]
    /\ f[0] = BuiltFromPlugins(settings)
    /\ \A k \in 1 .. Len(EntryOrder(settings)) :
         f[k] = Entering(f[k - 1], EntryOrder(settings)[k])
    /\ FreshStart = f[Len(EntryOrder(settings))]

LEMMA FreshRuns ==
    ASSUME EntryOrder(settings) \in Seq(Ids),
           NEW D, BuiltFromPlugins(settings) \in D,
           \A v \in D : \A k \in 1 .. Len(EntryOrder(settings)) :
              Entering(v, EntryOrder(settings)[k]) \in D
    PROVE  \E f : FreshLoop(f, D)
<1> DEFINE n == Len(EntryOrder(settings))
           base == BuiltFromPlugins(settings)
           To(k, v) == Entering(v, EntryOrder(settings)[k])
           step == [k \in 1 .. n |-> [v \in D |-> To(k, v)]]
           Recurs(h) == h = [T \in SUBSET DOMAIN EntryOrder(settings) |->
                               IF T = {} THEN base
                               ELSE IF h[T \ {Max(T)}].ok
              THEN CheckGateSet(h[T \ {Max(T)}].gate, EntryOrder(settings)[Max(T)],
                                Entries(settings)[EntryOrder(settings)[Max(T)]], settings)
              ELSE h[T \ {Max(T)}]]
           iter == CHOOSE h : Recurs(h)
<1>1. n \in Nat /\ DOMAIN EntryOrder(settings) = 1 .. n
  OBVIOUS
<1>2. FreshStart = iter[DOMAIN EntryOrder(settings)]
  BY DEF FreshStart, FoldLeft, MapThenFoldSet
<1> HIDE DEF iter
<1>3. base \in D /\ \A k \in 1 .. n : \A v \in D : To(k, v) \in D
  OBVIOUS
<1> HIDE DEF To, n, base
<1>4. step \in StepsOn(n, D)
  BY <1>3 DEF StepsOn
<1>5. \A k \in 1 .. n : \A v \in D : step[k][v] = To(k, v)
  OBVIOUS
<1> HIDE DEF step
<1>6. \A T \in SUBSET (1 .. n) : T # {} => Max(T) \in 1 .. n
  BY <1>1, GreatestIsMax
<1>7. \E h : Recurs(h)
  <2>1. PICK e : LoopOf(e, n, D, base, step)
    BY <1>1, <1>3, <1>4, LoopExists
  <2>2. ASSUME NEW T \in SUBSET (1 .. n), T # {}
        PROVE  e[T] = To(Max(T), e[T \ {Max(T)}])
    <3>1. Max(T) \in 1 .. n /\ e[T \ {Max(T)}] \in D
      BY <1>6, <2>1, <2>2 DEF LoopOf
    <3> QED BY <1>5, <2>1, <2>2, <3>1 DEF LoopOf
  <2>3. e = [T \in SUBSET (1 .. n) |-> IF T = {} THEN base ELSE To(Max(T), e[T \ {Max(T)}])]
    BY <2>1, <2>2 DEF LoopOf
  <2>4. Recurs(e)
    BY <1>1, <2>3 DEF To, Entering
  <2> HIDE DEF Recurs
  <2> QED BY <2>4
<1>8. Recurs(iter)
  <2> HIDE DEF Recurs
  <2> QED BY <1>7 DEF iter
<1>9. /\ iter[{}] = base
      /\ \A T \in SUBSET (1 .. n) :
           T # {} => iter[T] = To(Max(T), iter[T \ {Max(T)}])
  BY <1>1, <1>8 DEF To, Entering
<1> HIDE DEF Recurs
<1>10. LoopsOn(iter, n, D, base, step)
  <2> SUFFICES ASSUME NEW T \in SUBSET (1 .. n), T # {}, iter[T \ {Max(T)}] \in D
               PROVE  iter[T] = step[Max(T)][iter[T \ {Max(T)}]]
    BY <1>9 DEF LoopsOn
  <2> QED BY <1>5, <1>6, <1>9
<1>11. PICK f : RunOf(f, n, D, base, step) /\ f[n] = iter[1 .. n]
  BY <1>1, <1>3, <1>4, <1>10, LoopRuns
<1>12. ASSUME NEW k \in 1 .. n PROVE f[k] = To(k, f[k - 1])
  <2>1. k - 1 \in 0 .. n
    BY <1>1
  <2> QED BY <1>5, <1>11, <2>1 DEF RunOf
<1>13. f \in [0 .. n -> D] /\ f[0] = base /\ FreshStart = f[n]
  BY <1>1, <1>2, <1>11 DEF RunOf
<1>14. FreshLoop(f, D)
  BY <1>12, <1>13 DEF To, n, base, FreshLoop
<1> QED BY <1>14

-----------------------------------------------------------------------------
(* The order of the entries, and what an admission adds.                   *)

\* InOrder names the reasoners of the set, and no other.
LEMMA InOrderIs ==
    ASSUME NEW S
    PROVE  InOrder(S) \in Seq(S \cap Ids) /\ ToSet(InOrder(S)) = S \cap Ids
<1> DEFINE n == Len(ById)
           D == Seq(S \cap Ids)
<1>1. n \in Nat /\ DOMAIN ById = 1 .. n /\ \A k \in 1 .. n : ById[k] \in Ids
  BY AdmissionConstants DEF Ids, ToSet
<1>2. <<>> \in D /\ \A v \in D : \A r \in Ids : (IF r \in S THEN Append(v, r) ELSE v) \in D
  OBVIOUS
<1>3. \A v \in D : \A k \in 1 .. Len(ById) :
        (IF ById[k] \in S THEN Append(v, ById[k]) ELSE v) \in D
  BY <1>1, <1>2
<1> HIDE DEF D
<1>4. PICK f : InOrderLoop(f, D, S)
  BY <1>2, <1>3, InOrderRuns
<1>5. /\ f \in [0 .. n -> D] /\ f[0] = <<>> /\ InOrder(S) = f[n]
      /\ \A k \in 1 .. n :
           f[k] = IF ById[k] \in S THEN Append(f[k - 1], ById[k]) ELSE f[k - 1]
  BY <1>4 DEF InOrderLoop
<1> DEFINE Good == {k \in 0 .. n : \A j \in 1 .. k : ById[j] \in S =>
                                     \E i \in DOMAIN f[k] : f[k][i] = ById[j]}
<1>6. 0 \in Good
  BY <1>1
<1>7. ASSUME NEW k \in 1 .. n, k - 1 \in Good PROVE k \in Good
  <2>1. f[k - 1] \in D /\ f[k] = IF ById[k] \in S THEN Append(f[k - 1], ById[k]) ELSE f[k - 1]
    BY <1>1, <1>5
  <2>2. f[k - 1] \in Seq(S \cap Ids) /\ ById[k] \in Ids
    BY <1>1, <2>1 DEF D
  <2>3. \A i \in DOMAIN f[k - 1] : i \in DOMAIN f[k] /\ f[k][i] = f[k - 1][i]
    BY <2>1, <2>2
  <2>4. ById[k] \in S => \E i \in DOMAIN f[k] : f[k][i] = ById[k]
    <3> SUFFICES ASSUME ById[k] \in S PROVE \E i \in DOMAIN f[k] : f[k][i] = ById[k]
      OBVIOUS
    <3>1. /\ Len(f[k - 1]) + 1 \in DOMAIN f[k]
          /\ f[k][Len(f[k - 1]) + 1] = ById[k]
      BY <2>1, <2>2
    <3> QED BY <3>1
  <2>5. ASSUME NEW j \in 1 .. k, ById[j] \in S PROVE \E i \in DOMAIN f[k] : f[k][i] = ById[j]
    <3>1. CASE j = k
      BY <2>4, <2>5, <3>1
    <3>2. CASE j # k
      <4>1. j \in 1 .. k - 1
        BY <3>2
      <4>2. PICK i \in DOMAIN f[k - 1] : f[k - 1][i] = ById[j]
        BY <1>7, <2>5, <4>1
      <4> QED BY <2>3, <4>2
    <3> QED BY <3>1, <3>2
  <2> QED BY <1>1, <2>5
<1>8. n \in Good
  <2> HIDE DEF Good, n
  <2>1. \A k \in 0 .. n : k \in Good
    BY <1>1, <1>6, <1>7, UpTo
  <2> QED BY <1>1, <2>1
<1>9. InOrder(S) \in Seq(S \cap Ids)
  <2>1. f[n] \in D
    BY <1>1, <1>5
  <2> QED BY <1>5, <2>1 DEF D
<1>10. ASSUME NEW r \in S \cap Ids PROVE r \in ToSet(InOrder(S))
  <2>1. PICK j \in DOMAIN ById : r = ById[j]
    BY DEF Ids, ToSet
  <2>2. \E i \in DOMAIN f[n] : f[n][i] = ById[j]
    BY <1>1, <1>8, <2>1
  <2> QED BY <1>5, <2>1, <2>2 DEF ToSet
<1>11. \A r \in ToSet(InOrder(S)) : r \in S \cap Ids
  BY <1>9 DEF ToSet
<1> QED BY <1>9, <1>10, <1>11

\* A start's order names every entry, and nothing else.
LEMMA EntryOrderIs ==
    ASSUME NEW s
    PROVE  /\ PluginIds(s) \in Seq(Ids)
           /\ EntryOrder(s) \in Seq(Entered(s))
           /\ EntryOrder(s) \in Seq(Ids)
           /\ ToSet(EntryOrder(s)) = Entered(s)
           /\ Configured(s) \subseteq DOMAIN Declared
<1> DEFINE P == DOMAIN Plugged \cap s.allowed
           Q == Configured(s) \ DOMAIN Plugged
           R == {r \in Ids \ Configured(s) : stored[r] # Unset}
           p == PluginIds(s)
           q == InOrder(Q)
           o == InOrder(R)
<1>1. p \in Seq(P \cap Ids) /\ ToSet(p) = P \cap Ids
  BY InOrderIs DEF PluginIds
<1>2. q \in Seq(Q \cap Ids) /\ ToSet(q) = Q \cap Ids
  BY InOrderIs
<1>3. o \in Seq(R \cap Ids) /\ ToSet(o) = R \cap Ids
  BY InOrderIs
<1>4. Configured(s) = (P \cap Ids) \cup (DOMAIN Declared \ DOMAIN Plugged)
  BY <1>1 DEF Configured
<1>5. Configured(s) \subseteq DOMAIN Declared
  BY <1>4, AdmissionConstants
<1>6. \A r \in DOMAIN Declared : Declared[r] # Unset
  BY AdmissionConstants DEF Range
<1>7. Entered(s) = (P \cap Ids) \cup (Q \cap Ids) \cup (R \cap Ids)
  <2>1. ASSUME NEW r \in Ids PROVE r \in Entered(s) <=> r \in Configured(s) \/ r \in R
    BY <1>5, <1>6 DEF Entered, Entries
  <2>2. Entered(s) \subseteq Ids
    BY DEF Entered
  <2>3. \A r \in Ids : r \in Configured(s) <=> r \in P \/ r \in Q
    BY <1>4
  <2> QED BY <2>1, <2>2, <2>3
<1> HIDE DEF P, Q, R, p, q, o
<1>8. EntryOrder(s) = p \o q \o o
  BY DEF EntryOrder, p, q, o, Q, R
<1>9. p \in Seq(Entered(s)) /\ q \in Seq(Entered(s)) /\ o \in Seq(Entered(s))
  BY <1>1, <1>2, <1>3, <1>7
<1>10. EntryOrder(s) \in Seq(Entered(s))
  BY <1>8, <1>9
<1>11. Entered(s) \subseteq Ids
  BY DEF Entered
<1>12. ASSUME NEW r \in Entered(s) PROVE r \in ToSet(p \o q \o o)
  <2>1. CASE r \in ToSet(p)
    <3>1. PICK i \in DOMAIN p : p[i] = r
      BY <2>1 DEF ToSet
    <3>2. i \in DOMAIN (p \o q \o o) /\ (p \o q \o o)[i] = r
      BY <1>9, <3>1
    <3> QED BY <3>2 DEF ToSet
  <2>2. CASE r \in ToSet(q)
    <3>1. PICK i \in DOMAIN q : q[i] = r
      BY <2>2 DEF ToSet
    <3>2. Len(p) + i \in DOMAIN (p \o q \o o) /\ (p \o q \o o)[Len(p) + i] = r
      BY <1>9, <3>1
    <3> QED BY <3>2 DEF ToSet
  <2>3. CASE r \in ToSet(o)
    <3>1. PICK i \in DOMAIN o : o[i] = r
      BY <2>3 DEF ToSet
    <3>2. /\ Len(p) + Len(q) + i \in DOMAIN (p \o q \o o)
          /\ (p \o q \o o)[Len(p) + Len(q) + i] = r
      BY <1>9, <3>1
    <3> QED BY <3>2 DEF ToSet
  <2> QED BY <1>1, <1>2, <1>3, <1>7, <2>1, <2>2, <2>3
<1>13. \A r \in ToSet(EntryOrder(s)) : r \in Entered(s)
  BY <1>10 DEF ToSet
<1>14. p \in Seq(Ids)
  BY <1>9, <1>11
<1>15. EntryOrder(s) \in Seq(Ids)
  BY <1>10, <1>11
<1> QED BY <1>5, <1>8, <1>10, <1>12, <1>13, <1>14, <1>15 DEF p

\* An admission leaves a gate of templates and profiles.
LEMMA AddedType ==
    ASSUME NEW g \in GateStates, NEW r \in Ids, NEW assets \in Shipped
    PROVE  Added(g, r, assets) \in GateStates
<1> DEFINE S == {r} \cup DOMAIN g.profiles
           T == DOMAIN assets.templates \cup DOMAIN g.templates
<1>1. /\ g.profiles \in [DOMAIN g.profiles -> Profiles] /\ DOMAIN g.profiles \subseteq Ids
      /\ g.templates \in [DOMAIN g.templates -> Prompts] /\ DOMAIN g.templates \subseteq Templates
  BY DEF GateStates
<1>2. ProfileOf(assets) \in Profiles
  BY DEF ProfileOf, Profiles, Shipped, Templates, Jurisdictions
<1>3. \A t \in DOMAIN assets.templates :
        t \in Templates /\ [text |-> assets.templates[t], owner |-> r] \in Prompts
  BY DEF Templates, Prompts, Texts, Shipped, Range
<1>4. S \in SUBSET Ids /\ T \in SUBSET Templates
  BY <1>1, <1>3
<1>5. Added(g, r, assets).profiles \in [S -> Profiles]
  BY <1>1, <1>2 DEF Added
<1>6. Added(g, r, assets).templates \in [T -> Prompts]
  BY <1>1, <1>3 DEF Added
<1>7. /\ Added(g, r, assets).profiles \in UNION {[A -> Profiles] : A \in SUBSET Ids}
      /\ Added(g, r, assets).templates \in UNION {[A -> Prompts] : A \in SUBSET Templates}
  <2> HIDE DEF S, T
  <2> QED BY <1>4, <1>5, <1>6
<1>8. Added(g, r, assets) = [profiles |-> Added(g, r, assets).profiles,
                             templates |-> Added(g, r, assets).templates]
  BY DEF Added
<1> QED BY <1>7, <1>8 DEF GateStates

\* It changes no prompt, no profile of another, and who owns what.
LEMMA AddedKeeps ==
    ASSUME NEW g, NEW r, NEW assets, MayAdd(g, assets)
    PROVE  LET h == Added(g, r, assets) IN
           /\ h.profiles[r] = ProfileOf(assets)
           /\ DOMAIN h.profiles = {r} \cup DOMAIN g.profiles
           /\ \A q \in DOMAIN g.profiles : q # r => h.profiles[q] = g.profiles[q]
           /\ \A t \in DOMAIN g.templates : t \in DOMAIN h.templates /\ h.templates[t] = g.templates[t]
           /\ Owned(g) => Owned(h)
           /\ Covered(g) /\ (r \in DOMAIN g.profiles => g.profiles[r] = ProfileOf(assets))
                => Covered(h)
<1> DEFINE h == Added(g, r, assets)
<1>1. /\ h.profiles[r] = ProfileOf(assets)
      /\ DOMAIN h.profiles = {r} \cup DOMAIN g.profiles
      /\ \A q \in DOMAIN g.profiles : q # r => h.profiles[q] = g.profiles[q]
  BY DEF Added
<1>2. DOMAIN h.templates = DOMAIN assets.templates \cup DOMAIN g.templates
  BY DEF Added
<1>3. \A t \in DOMAIN assets.templates : h.templates[t].owner = r
  BY DEF Added
<1>4. \A t \in DOMAIN g.templates : t \in DOMAIN h.templates /\ h.templates[t] = g.templates[t]
  BY DEF Added, MayAdd
<1>5. ProfileOf(assets).template_ids = DOMAIN assets.templates
  BY DEF ProfileOf
<1> HIDE DEF h
<1>6. ASSUME Owned(g) PROVE Owned(h)
  <2> SUFFICES ASSUME NEW q \in DOMAIN h.profiles, NEW t \in h.profiles[q].template_ids
               PROVE  t \in DOMAIN h.templates /\ h.templates[t].owner = q
    BY DEF Owned
  <2>1. CASE q = r
    BY <1>1, <1>2, <1>3, <1>5, <2>1
  <2>2. CASE q # r
    <3>1. q \in DOMAIN g.profiles /\ t \in g.profiles[q].template_ids
      BY <1>1, <2>2
    <3> QED BY <1>4, <1>6, <3>1 DEF Owned
  <2> QED BY <2>1, <2>2
<1>7. ASSUME Covered(g), r \in DOMAIN g.profiles => g.profiles[r] = ProfileOf(assets)
      PROVE  Covered(h)
  <2> SUFFICES ASSUME NEW t \in DOMAIN h.templates
               PROVE  \E q \in DOMAIN h.profiles : t \in h.profiles[q].template_ids
    BY DEF Covered
  <2>1. CASE t \in DOMAIN assets.templates
    BY <1>1, <1>5, <2>1
  <2>2. CASE t \in DOMAIN g.templates
    <3>1. PICK q \in DOMAIN g.profiles : t \in g.profiles[q].template_ids
      BY <1>7, <2>2 DEF Covered
    <3>2. q \in DOMAIN h.profiles /\ h.profiles[q] = g.profiles[q]
      BY <1>1, <1>7
    <3> QED BY <3>1, <3>2
  <2> QED BY <1>2, <2>1, <2>2
<1> QED BY <1>1, <1>4, <1>6, <1>7 DEF h

\* The gate before anything was admitted.
LEMMA NoGateSound ==
    /\ NoGate \in GateStates /\ Owned(NoGate) /\ Covered(NoGate)
    /\ DOMAIN NoGate.profiles = {}
<1>1. DOMAIN NoGate.profiles = {} /\ DOMAIN NoGate.templates = {}
  BY DEF NoGate
<1>2. NoGate.profiles \in [{} -> Profiles] /\ NoGate.templates \in [{} -> Prompts]
  BY DEF NoGate
<1>3. {} \in SUBSET Ids /\ {} \in SUBSET Templates
  OBVIOUS
<1>4. NoGate \in GateStates
  BY <1>2, <1>3 DEF NoGate, GateStates
<1> QED BY <1>1, <1>4 DEF Owned, Covered

\* The gate that is built holds the templates and the profile of every plugin.
BuiltSound(v) ==
    /\ v \in [ok : BOOLEAN, gate : GateStates]
    /\ v.ok => Owned(v.gate) /\ Covered(v.gate)
    /\ \A r \in DOMAIN v.gate.profiles : v.gate.profiles[r] = ProfileOf(Plugged[r])

LEMMA BuiltIs ==
    ASSUME NEW s
    PROVE  /\ BuiltSound(BuiltFromPlugins(s))
           /\ "policy" \in Composed(s) =>
                \A r \in ToSet(PluginIds(s)) : r \in DOMAIN BuiltFromPlugins(s).gate.profiles
<1> DEFINE p == PluginIds(s)
           n == Len(p)
           D == {v \in [ok : BOOLEAN, gate : GateStates] : BuiltSound(v)}
           base == [ok |-> TRUE, gate |-> NoGate]
           To(k, v) == [ok |-> v.ok /\ MayAdd(v.gate, Plugged[p[k]]),
                        gate |-> Added(v.gate, p[k], Plugged[p[k]])]
<1>1. base \in D
  <2>1. base \in [ok : BOOLEAN, gate : GateStates] /\ base.ok = TRUE /\ base.gate = NoGate
    BY NoGateSound
  <2> HIDE DEF base
  <2> QED BY <2>1, NoGateSound DEF BuiltSound
<1>2. CASE "policy" \notin Composed(s)
  <2>1. BuiltFromPlugins(s) = base
    BY <1>2 DEF BuiltFromPlugins
  <2> QED BY <1>1, <1>2, <2>1
<1>3. CASE "policy" \in Composed(s)
  <2>1. p \in Seq(Ids) /\ n \in Nat /\ DOMAIN p = 1 .. n
    BY EntryOrderIs
  <2>2. \A k \in 1 .. n : p[k] \in Ids /\ p[k] \in DOMAIN Plugged
    <3>1. ToSet(p) = (DOMAIN Plugged \cap s.allowed) \cap Ids
      BY InOrderIs DEF PluginIds
    <3> QED BY <2>1, <3>1 DEF ToSet
  <2> HIDE DEF p, n, base
  <2>3. ASSUME NEW v \in D, NEW k \in 1 .. n PROVE To(k, v) \in D
    <3> DEFINE w == To(k, v)
               a == Plugged[p[k]]
    <3>1. p[k] \in Ids /\ a \in Shipped
      BY <2>2 DEF Shipped, Range
    <3>2. v.gate \in GateStates /\ v.ok \in BOOLEAN /\ BuiltSound(v)
      OBVIOUS
    <3>3. w.gate = Added(v.gate, p[k], a) /\ w.ok = (v.ok /\ MayAdd(v.gate, a))
      OBVIOUS
    <3>4. w \in [ok : BOOLEAN, gate : GateStates]
      <4>1. Added(v.gate, p[k], a) \in GateStates
        BY <3>1, <3>2, AddedType
      <4> QED BY <3>2, <4>1
    <3> HIDE DEF w
    <3>5. w.ok => Owned(w.gate) /\ Covered(w.gate)
      <4> SUFFICES ASSUME w.ok PROVE Owned(w.gate) /\ Covered(w.gate)
        OBVIOUS
      <4>1. v.ok /\ MayAdd(v.gate, a)
        BY <3>3
      <4>2. Owned(v.gate) /\ Covered(v.gate)
            /\ (p[k] \in DOMAIN v.gate.profiles => v.gate.profiles[p[k]] = ProfileOf(a))
        BY <3>2, <4>1 DEF BuiltSound
      <4> HIDE DEF a
      <4> QED BY <3>3, <4>1, <4>2, AddedKeeps
    <3>6. \A r \in DOMAIN w.gate.profiles : w.gate.profiles[r] = ProfileOf(Plugged[r])
      BY <3>2, <3>3 DEF BuiltSound, Added
    <3>7. BuiltSound(w)
      BY <3>4, <3>5, <3>6 DEF BuiltSound
    <3> QED BY <3>4, <3>7 DEF w
  <2>4. PICK f : BuiltLoop(f, D, s)
    <3> HIDE DEF D
    <3> QED BY <1>1, <1>3, <2>1, <2>3, BuiltRuns DEF p, n, base
  <2>5. /\ f \in [0 .. n -> D] /\ f[0] = base /\ BuiltFromPlugins(s) = f[n]
        /\ \A k \in 1 .. n : f[k] = To(k, f[k - 1])
    <3> HIDE DEF D
    <3> QED BY <2>4 DEF BuiltLoop, p, n, base
  <2> DEFINE Good == {k \in 0 .. n : \A j \in 1 .. k : p[j] \in DOMAIN f[k].gate.profiles}
  <2>6. 0 \in Good
    BY <2>1
  <2>7. ASSUME NEW k \in 1 .. n, k - 1 \in Good PROVE k \in Good
    <3>1. f[k].gate = Added(f[k - 1].gate, p[k], Plugged[p[k]])
      <4>1. f[k] = To(k, f[k - 1])
        BY <2>5
      <4> QED BY <4>1
    <3>2. DOMAIN f[k].gate.profiles = {p[k]} \cup DOMAIN f[k - 1].gate.profiles
      BY <3>1 DEF Added
    <3>3. ASSUME NEW j \in 1 .. k PROVE p[j] \in DOMAIN f[k].gate.profiles
      <4>1. CASE j = k
        BY <3>2, <4>1
      <4>2. CASE j # k
        <5>1. j \in 1 .. k - 1
          BY <4>2
        <5> QED BY <2>7, <3>2, <5>1
      <4> QED BY <4>1, <4>2
    <3> HIDE DEF To, D
    <3> QED BY <2>1, <3>3
  <2>8. n \in Good
    <3> HIDE DEF Good
    <3>1. \A k \in 0 .. n : k \in Good
      BY <2>1, <2>6, <2>7, UpTo
    <3> QED BY <2>1, <3>1
  <2>9. f[n] \in D
    <3> HIDE DEF D, To
    <3> QED BY <2>1, <2>5
  <2>10. \A r \in ToSet(p) : r \in DOMAIN f[n].gate.profiles
    BY <2>1, <2>8 DEF ToSet
  <2> HIDE DEF To
  <2> QED BY <2>5, <2>9, <2>10 DEF p
<1> QED BY <1>2, <1>3

\* What checking a gate set may make of the gate: nothing, or the reasoner's
\* admission from its directory.
Admissions(g, r) ==
    {g} \cup {Added(g, r, a) : a \in {x \in {root[r]} : r \notin DOMAIN g.profiles
                                                     /\ Loads(x) /\ MayAdd(g, x)}}

LEMMA BindingAdmits ==
    ASSUME NEW g, NEW r, NEW h \in Admissions(g, r), NEW binding, NEW s
    PROVE  /\ AdmitBinding(h, r, binding, s).gate \in Admissions(g, r)
           /\ AdmitBinding(h, r, binding, s).ok \in BOOLEAN
           /\ AdmitBinding(h, r, binding, s).ok =>
                (binding.gate_id \in Composed(s) /\ binding.gate_id # "policy"
                   => binding.corpora = {})
           /\ AdmitBinding(h, r, binding, s)
                = [ok |-> AdmitBinding(h, r, binding, s).ok,
                   gate |-> AdmitBinding(h, r, binding, s).gate]
<1>1. /\ AdmitReasoner(h, r).gate \in Admissions(g, r)
      /\ AdmitReasoner(h, r).ok \in BOOLEAN
      /\ AdmitReasoner(h, r) = [ok |-> AdmitReasoner(h, r).ok, gate |-> AdmitReasoner(h, r).gate]
  <2>1. CASE r \in DOMAIN h.profiles
    BY <2>1 DEF AdmitReasoner
  <2>2. CASE r \notin DOMAIN h.profiles
    <3>1. h = g
      <4>1. \A a : r \in DOMAIN Added(g, r, a).profiles
        BY DEF Added
      <4> QED BY <2>2, <4>1 DEF Admissions
    <3>2. CASE Loads(root[r]) /\ MayAdd(g, root[r])
      <4>1. AdmitReasoner(h, r) = [ok |-> TRUE, gate |-> Added(g, r, root[r])]
        BY <2>2, <3>1, <3>2 DEF AdmitReasoner
      <4>2. Added(g, r, root[r]) \in Admissions(g, r)
        BY <2>2, <3>1, <3>2 DEF Admissions
      <4> QED BY <4>1, <4>2
    <3>3. CASE ~(Loads(root[r]) /\ MayAdd(g, root[r]))
      <4>1. AdmitReasoner(h, r) = [ok |-> FALSE, gate |-> h]
        BY <2>2, <3>1, <3>3 DEF AdmitReasoner
      <4> QED BY <4>1
    <3> QED BY <3>2, <3>3
  <2> QED BY <2>1, <2>2
<1>2. CASE binding.gate_id \notin Composed(s)
  <2>1. AdmitBinding(h, r, binding, s) = [ok |-> TRUE, gate |-> h]
    BY <1>2 DEF AdmitBinding
  <2> QED BY <1>2, <2>1
<1>3. CASE binding.gate_id \in Composed(s) /\ binding.gate_id = "policy"
  <2>1. CASE CorporaFit(binding)
    <3>1. AdmitBinding(h, r, binding, s) = AdmitReasoner(h, r)
      BY <1>3, <2>1 DEF AdmitBinding
    <3> QED BY <1>1, <1>3, <3>1
  <2>2. CASE ~CorporaFit(binding)
    <3>1. AdmitBinding(h, r, binding, s) = [ok |-> FALSE, gate |-> h]
      BY <1>3, <2>2 DEF AdmitBinding
    <3> QED BY <3>1
  <2> QED BY <2>1, <2>2
<1>4. CASE binding.gate_id \in Composed(s) /\ binding.gate_id # "policy"
  <2> DEFINE bare == binding.corpora = {}
  <2>1. bare \in BOOLEAN
    OBVIOUS
  <2> HIDE DEF bare
  <2>2. AdmitBinding(h, r, binding, s) = [ok |-> bare, gate |-> h]
    BY <1>4 DEF AdmitBinding, bare
  <2>3. AdmitBinding(h, r, binding, s).ok = bare /\ AdmitBinding(h, r, binding, s).gate = h
    BY <2>2
  <2>4. bare => binding.corpora = {}
    BY DEF bare
  <2> QED BY <2>1, <2>2, <2>3, <2>4
<1> QED BY <1>2, <1>3, <1>4

LEMMA CheckedIs ==
    ASSUME NEW g, NEW r, NEW s, NEW written, written \in Seq(ToSet(written))
    PROVE  /\ CheckGateSet(g, r, written, s).gate \in Admissions(g, r)
           /\ CheckGateSet(g, r, written, s).ok \in BOOLEAN
           /\ CheckGateSet(g, r, written, s).ok => Fits(written, s)
<1> DEFINE n == Len(written)
           D == [ok : BOOLEAN, gate : Admissions(g, r)]
           base == [ok |-> TRUE, gate |-> g]
           To(k, v) == Bound(v, r, written[k], s)
<1>1. CASE ~GateSetFits(written, s)
  <2>1. CheckGateSet(g, r, written, s) = [ok |-> FALSE, gate |-> g]
    BY <1>1 DEF CheckGateSet
  <2> QED BY <2>1 DEF Admissions
<1>2. CASE GateSetFits(written, s)
  <2>1. n \in Nat /\ DOMAIN written = 1 .. n
    OBVIOUS
  <2>2. base \in D
    BY DEF Admissions
  <2>3. ASSUME NEW v \in D, NEW k \in 1 .. n PROVE To(k, v) \in D
    <3> DEFINE admitted == AdmitBinding(v.gate, r, written[k], s)
    <3>1. v.gate \in Admissions(g, r)
      OBVIOUS
    <3>2. /\ admitted.gate \in Admissions(g, r) /\ admitted.ok \in BOOLEAN
          /\ admitted = [ok |-> admitted.ok, gate |-> admitted.gate]
      BY <3>1, BindingAdmits
    <3> HIDE DEF admitted
    <3>3. admitted \in D
      BY <3>2
    <3>4. To(k, v) = IF v.ok THEN admitted ELSE v
      BY DEF admitted, Bound
    <3> HIDE DEF To, D
    <3> QED BY <3>3, <3>4
  <2> HIDE DEF n, base
  <2>4. PICK f : CheckLoop(f, D, g, r, s, written)
    <3> HIDE DEF D
    <3> QED BY <1>2, <2>2, <2>3, CheckRuns DEF n, base
  <2>5. /\ f \in [0 .. n -> D] /\ f[0] = base /\ CheckGateSet(g, r, written, s) = f[n]
        /\ \A k \in 1 .. n : f[k] = To(k, f[k - 1])
    <3> HIDE DEF D
    <3> QED BY <2>4 DEF CheckLoop, n, base
  <2> USE DEF Bound
  <2> DEFINE Bare(j) == written[j].gate_id \in Composed(s) /\ written[j].gate_id # "policy"
                          => written[j].corpora = {}
             Good == {k \in 0 .. n : f[k].ok => \A j \in 1 .. k : Bare(j)}
  <2>6. 0 \in Good
    BY <2>1
  <2>7. ASSUME NEW k \in 1 .. n, k - 1 \in Good PROVE k \in Good
    <3>1. f[k] = To(k, f[k - 1]) /\ f[k - 1] \in D
      BY <2>1, <2>5
    <3>2. f[k - 1].gate \in Admissions(g, r)
      BY <3>1
    <3>3. f[k].ok => f[k - 1].ok /\ AdmitBinding(f[k - 1].gate, r, written[k], s).ok
      BY <3>1
    <3>4. f[k].ok => Bare(k)
      BY <3>2, <3>3, BindingAdmits
    <3>5. ASSUME f[k].ok, NEW j \in 1 .. k PROVE Bare(j)
      <4>1. CASE j = k
        BY <3>4, <3>5, <4>1
      <4>2. CASE j # k
        <5>1. j \in 1 .. k - 1
          BY <4>2
        <5> QED BY <2>7, <3>3, <3>5, <5>1
      <4> QED BY <4>1, <4>2
    <3> HIDE DEF To, D, Bare
    <3> QED BY <2>1, <3>5
  <2>8. n \in Good
    <3> HIDE DEF Good
    <3>1. \A k \in 0 .. n : k \in Good
      BY <2>1, <2>6, <2>7, UpTo
    <3> QED BY <2>1, <3>1
  <2>9. f[n] \in D
    <3> HIDE DEF D, To
    <3> QED BY <2>1, <2>5
  <2>10. f[n].gate \in Admissions(g, r) /\ f[n].ok \in BOOLEAN
    BY <2>9
  <2>11. f[n].ok => Fits(written, s)
    BY <1>2, <2>1, <2>8 DEF Fits
  <2> HIDE DEF To, D
  <2> QED BY <2>5, <2>10, <2>11
<1> QED BY <1>1, <1>2

\* A registration that fits, of a reasoner the gate knows or can admit, is
\* not refused; only one bound to the policy gate changes it.
AsksPolicy(written, s) == "policy" \in GatesOf(written) \cap Composed(s)

MayPass(g, r, written, s) ==
    /\ Fits(written, s)
    /\ AsksPolicy(written, s) =>
         /\ \A i \in DOMAIN written :
              written[i].gate_id = "policy" => CorporaFit(written[i])
         /\ r \in DOMAIN g.profiles \/ (Loads(root[r]) /\ MayAdd(g, root[r]))

LEMMA CheckPasses ==
    ASSUME NEW g, NEW r, NEW s, NEW written, written \in Seq(ToSet(written)),
           MayPass(g, r, written, s)
    PROVE  /\ CheckGateSet(g, r, written, s)
                = [ok |-> TRUE, gate |-> CheckGateSet(g, r, written, s).gate]
           /\ ~AsksPolicy(written, s) =>
                CheckGateSet(g, r, written, s).gate = g
<1> DEFINE n == Len(written)
           After == {h \in Admissions(g, r) : h # g => AsksPolicy(written, s)}
           D == [ok : {TRUE}, gate : After]
           base == [ok |-> TRUE, gate |-> g]
           To(k, v) == Bound(v, r, written[k], s)
<1>1. n \in Nat /\ DOMAIN written = 1 .. n
  OBVIOUS
<1>2. base \in D
  BY DEF Admissions
<1>3. ASSUME NEW v \in D, NEW k \in 1 .. n PROVE To(k, v) \in D
  <2> DEFINE b == written[k]
             h == v.gate
  <2>1. /\ v.ok = TRUE /\ v = [ok |-> TRUE, gate |-> h]
        /\ h \in Admissions(g, r) /\ (h # g => AsksPolicy(written, s))
    OBVIOUS
  <2>2. To(k, v) = AdmitBinding(h, r, b, s)
    BY <2>1 DEF Bound
  <2>3. k \in DOMAIN written /\ b.gate_id \in GatesOf(written)
    BY <1>1 DEF GatesOf
  <2>4. CASE b.gate_id \notin Composed(s)
    <3>1. To(k, v) = [ok |-> TRUE, gate |-> h]
      BY <2>2, <2>4 DEF AdmitBinding
    <3> QED BY <2>1, <3>1
  <2>5. CASE b.gate_id \in Composed(s) /\ b.gate_id # "policy"
    <3>1. b.corpora = {}
      BY <2>3, <2>5 DEF MayPass, Fits
    <3>2. To(k, v) = [ok |-> TRUE, gate |-> h]
      BY <2>2, <2>5, <3>1 DEF AdmitBinding
    <3> QED BY <2>1, <3>2
  <2>6. CASE b.gate_id \in Composed(s) /\ b.gate_id = "policy"
    <3>1. AsksPolicy(written, s) /\ CorporaFit(b)
      BY <2>3, <2>6 DEF AsksPolicy, MayPass
    <3>2. To(k, v) = AdmitReasoner(h, r)
      BY <2>2, <2>6, <3>1 DEF AdmitBinding
    <3>3. CASE r \in DOMAIN h.profiles
      <4>1. To(k, v) = [ok |-> TRUE, gate |-> h]
        BY <3>2, <3>3 DEF AdmitReasoner
      <4> QED BY <2>1, <4>1
    <3>4. CASE r \notin DOMAIN h.profiles
      <4>1. h = g
        <5>1. \A a : r \in DOMAIN Added(g, r, a).profiles
          BY DEF Added
        <5> QED BY <2>1, <3>4, <5>1 DEF Admissions
      <4>2. Loads(root[r]) /\ MayAdd(g, root[r])
        BY <3>1, <3>4, <4>1 DEF MayPass
      <4>3. To(k, v) = [ok |-> TRUE, gate |-> Added(g, r, root[r])]
        BY <3>2, <3>4, <4>1, <4>2 DEF AdmitReasoner
      <4>4. Added(g, r, root[r]) \in Admissions(g, r)
        BY <3>4, <4>1, <4>2 DEF Admissions
      <4>5. Added(g, r, root[r]) \in After
        BY <3>1, <4>4
      <4> HIDE DEF After, To
      <4> QED BY <4>3, <4>5
    <3> QED BY <3>3, <3>4
  <2> QED BY <2>4, <2>5, <2>6
<1> HIDE DEF n, base
<1>4. PICK f : CheckLoop(f, D, g, r, s, written)
  <2> HIDE DEF D
  <2>1. GateSetFits(written, s)
    BY DEF MayPass, Fits
  <2> QED BY <1>2, <1>3, <2>1, CheckRuns DEF n, base
<1>5. f \in [0 .. n -> D] /\ CheckGateSet(g, r, written, s) = f[n]
  <2> HIDE DEF D
  <2> QED BY <1>4 DEF CheckLoop, n, base
<1>6. f[n] \in D
  <2> HIDE DEF D, To
  <2> QED BY <1>1, <1>5 DEF n
<1>7. f[n].ok = TRUE /\ f[n].gate \in Admissions(g, r) /\ (f[n].gate # g => AsksPolicy(written, s))
      /\ f[n] = [ok |-> TRUE, gate |-> f[n].gate]
  BY <1>6
<1> QED BY <1>5, <1>7

-----------------------------------------------------------------------------
(* The invariant. *)

\* What an admission leaves of the gate.
LEMMA AdmissionKeeps ==
    ASSUME AdmissionTypeOK, GateSound, NEW r \in Ids, NEW h \in Admissions(gate, r)
    PROVE  /\ h \in GateStates /\ Owned(h)
           /\ \A g : ProfilesOf(g, gate) => ProfilesOf(g, h)
           /\ \A t \in DOMAIN gate.templates :
                t \in DOMAIN h.templates /\ h.templates[t] = gate.templates[t]
<1>1. CASE h = gate
  BY <1>1 DEF GateSound
<1>2. CASE h # gate
  <2>1. /\ r \notin DOMAIN gate.profiles /\ Loads(root[r]) /\ MayAdd(gate, root[r])
        /\ h = Added(gate, r, root[r])
    BY <1>2 DEF Admissions
  <2>2. root[r] \in Shipped
    BY <2>1 DEF AdmissionTypeOK, Loads, Shipped
  <2>3. h \in GateStates
    BY <2>1, <2>2, AddedType DEF GateSound
  <2>4. /\ Owned(h)
        /\ DOMAIN h.profiles = {r} \cup DOMAIN gate.profiles
        /\ \A q \in DOMAIN gate.profiles : q # r => h.profiles[q] = gate.profiles[q]
        /\ \A t \in DOMAIN gate.templates :
             t \in DOMAIN h.templates /\ h.templates[t] = gate.templates[t]
    BY <2>1, AddedKeeps DEF GateSound
  <2>5. \A g : ProfilesOf(g, gate) => ProfilesOf(g, h)
    BY <2>1, <2>4 DEF ProfilesOf
  <2> QED BY <2>3, <2>4, <2>5
<1> QED BY <1>1, <1>2

LEMMA GateDomains ==
    ASSUME NEW g \in GateStates
    PROVE  DOMAIN g.profiles \subseteq Ids /\ DOMAIN g.templates \subseteq Templates
BY DEF GateStates

\* A registration that may be put or is declared is a sequence.
LEMMA RegistrationIs ==
    ASSUME NEW written \in Range(Declared) \cup Puttable
    PROVE  written # Unset /\ written \in Seq(ToSet(written))
BY AdmissionConstants

LEMMA EntriesType ==
    ASSUME AdmissionTypeOK, NEW s
    PROVE  Entries(s) \in [Ids -> Range(Declared) \cup Puttable \cup {Unset}]
<1>1. Configured(s) \subseteq DOMAIN Declared
  BY EntryOrderIs
<1> QED BY <1>1 DEF Entries, AdmissionTypeOK, Range

LEMMA AdmissionInitially == AdmissionInit => AdmissionInv
<1> SUFFICES ASSUME AdmissionInit PROVE AdmissionInv
  OBVIOUS
<1>1. AdmissionTypeOK
  BY NoGateSound, GateDomains DEF AdmissionInit, AdmissionTypeOK
<1>2. GateSound
  BY NoGateSound DEF AdmissionInit, GateSound
<1> QED BY <1>1, <1>2 DEF AdmissionInit, AdmissionInv, PutSound, DecisionSound

\* Nothing is left of a process that stopped.
LEMMA ForgottenStep ==
    AdmissionInv /\ Forgotten /\ UNCHANGED <<settings, stored, root, corpora>> => AdmissionInv'
<1> SUFFICES ASSUME AdmissionInv, Forgotten, UNCHANGED <<settings, stored, root, corpora>>
             PROVE  AdmissionInv'
  OBVIOUS
<1>1. AdmissionTypeOK'
  <2>1. DOMAIN gate'.profiles \subseteq Ids /\ DOMAIN gate'.templates \subseteq Templates
    BY NoGateSound, GateDomains DEF Forgotten
  <2> QED BY <2>1 DEF Forgotten, AdmissionInv, AdmissionTypeOK
<1>2. GateSound'
  BY NoGateSound DEF Forgotten, GateSound
<1> QED BY <1>1, <1>2 DEF Forgotten, AdmissionInv, PutSound, DecisionSound

LEMMA BuildStep ==
    ASSUME AdmissionInv, NEW s \in Settings, BuildServices(s)
    PROVE  AdmissionInv'
<1> USE DEF BuildServices
<1>1. put = NoPut /\ gated = NoDecision
  BY DEF AdmissionInv, PutSound
<1>2. BuiltSound(BuiltFromPlugins(s)) /\ BuiltFromPlugins(s).ok
  BY BuiltIs
<1>3. GateSound'
  BY <1>2 DEF GateSound, BuiltSound
<1>4. AdmissionTypeOK'
  <2>1. serving' \in [Ids -> Range(Declared) \cup Puttable \cup {Unset}]
    BY EntriesType DEF AdmissionInv
  <2>2. DOMAIN gate'.profiles \subseteq Ids /\ DOMAIN gate'.templates \subseteq Templates
    BY <1>3, GateDomains DEF GateSound
  <2> QED BY <2>1, <2>2 DEF AdmissionInv, AdmissionTypeOK
<1>5. Entries(settings)' = Entries(s) /\ Entered(settings)' = Entered(s)
  BY DEF Entries, Entered
<1>6. EntriesFit'
  <2>1. EntryOrder(s) \in Seq(Entered(s)) /\ ToSet(EntryOrder(s)) = Entered(s)
    BY EntryOrderIs
  <2> QED BY <1>5, <2>1 DEF EntriesFit
<1>7. GateGrew'
  BY <1>2 DEF GateGrew, ProfilesOf
<1> QED BY <1>1, <1>3, <1>4, <1>5, <1>6, <1>7 DEF AdmissionInv, PutSound, DecisionSound

LEMMA CheckStep ==
    ASSUME AdmissionInv, CheckRegistration
    PROVE  AdmissionInv'
<1> DEFINE r == Head(unchecked)
           checked == CheckGateSet(gate, r, serving[r], settings)
<1>1. /\ ledger = "checking" /\ unchecked # <<>> /\ checked.ok
      /\ gate' = checked.gate /\ unchecked' = Tail(unchecked)
      /\ UNCHANGED <<ledger, settings, serving, stored, put, gated, root, corpora>>
  BY DEF CheckRegistration
<1>2. /\ unchecked \in Seq(Entered(settings)) /\ serving = Entries(settings) /\ GateGrew
      /\ put = NoPut /\ gated = NoDecision /\ AdmissionTypeOK /\ GateSound /\ EntriesFit
  BY <1>1 DEF AdmissionInv, EntriesFit, PutSound
<1>3. r \in Entered(settings)
  BY <1>1, <1>2
<1>4. r \in Ids /\ serving[r] \in Range(Declared) \cup Puttable
  BY <1>2, <1>3 DEF Entered, AdmissionTypeOK
<1>5. serving[r] \in Seq(ToSet(serving[r]))
  BY <1>4, RegistrationIs
<1> HIDE DEF r, checked
<1>6. checked.gate \in Admissions(gate, r) /\ Fits(serving[r], settings)
  BY <1>1, <1>5, CheckedIs DEF checked
<1>7. /\ gate' \in GateStates /\ Owned(gate')
      /\ \A g : ProfilesOf(g, gate) => ProfilesOf(g, gate')
  BY <1>1, <1>2, <1>4, <1>6, AdmissionKeeps
<1>8. AdmissionTypeOK'
  BY <1>1, <1>2, <1>7, GateDomains DEF AdmissionTypeOK
<1>9. GateSound' /\ GateGrew'
  BY <1>1, <1>2, <1>7 DEF GateSound, GateGrew
<1>10. Entries(settings)' = Entries(settings) /\ Entered(settings)' = Entered(settings)
  BY <1>1 DEF Entries, Entered
<1>11. EntriesFit'
  <2>1. unchecked' \in Seq(Entered(settings))
    BY <1>1, <1>2
  <2>2. ASSUME NEW q \in Entered(settings) \ ToSet(unchecked')
        PROVE  Fits(Entries(settings)[q], settings)
    <3>1. CASE q = r
      BY <1>2, <1>6, <3>1
    <3>2. CASE q # r
      <4>1. q \notin ToSet(unchecked)
        <5> SUFFICES ASSUME NEW i \in DOMAIN unchecked, unchecked[i] = q PROVE FALSE
          BY DEF ToSet
        <5>1. i # 1
          BY <1>1, <1>2, <3>2 DEF r
        <5>2. i - 1 \in DOMAIN unchecked' /\ unchecked'[i - 1] = q
          BY <1>1, <1>2, <5>1
        <5> QED BY <2>2, <5>2 DEF ToSet
      <4> QED BY <1>2, <2>2, <4>1 DEF EntriesFit
    <3> QED BY <3>1, <3>2
  <2>3. \A q : Fits(Entries(settings)[q], settings)' = Fits(Entries(settings)[q], settings)
    BY <1>1, <1>10 DEF Fits, GateSetFits
  <2> QED BY <1>10, <2>1, <2>2, <2>3 DEF EntriesFit
<1> QED BY <1>1, <1>2, <1>8, <1>9, <1>10, <1>11 DEF AdmissionInv, PutSound, DecisionSound

\* While the ledger serves, every entry fits and nothing is left to check.
LEMMA Serving ==
    ASSUME AdmissionInv, ledger = "up"
    PROVE  unchecked = <<>> /\ \A r \in Entered(settings) : Fits(Entries(settings)[r], settings)
BY DEF AdmissionInv, EntriesFit, ToSet

\* Steps that leave the settings and the rows alone leave the entries alone.
LEMMA SameEntries ==
    ASSUME UNCHANGED <<settings, stored>>
    PROVE  /\ Entries(settings)' = Entries(settings) /\ Entered(settings)' = Entered(settings)
           /\ UNCHANGED unchecked /\ EntriesFit => EntriesFit'
<1>1. Entries(settings)' = Entries(settings) /\ Entered(settings)' = Entered(settings)
  BY DEF Entries, Entered
<1>2. \A q : Fits(Entries(settings)[q], settings)' = Fits(Entries(settings)[q], settings)
  BY <1>1 DEF Fits, GateSetFits
<1> QED BY <1>1, <1>2 DEF EntriesFit

LEMMA StartStep == AdmissionInv /\ StartServing => AdmissionInv'
<1> SUFFICES ASSUME AdmissionInv, StartServing PROVE AdmissionInv'
  OBVIOUS
<1>1. EntriesFit' /\ put = NoPut
  BY SameEntries DEF StartServing, AdmissionInv, PutSound
<1> QED BY <1>1 DEF StartServing, AdmissionInv, AdmissionTypeOK, GateSound, PutSound,
                    DecisionSound, GateGrew

LEMMA PutStep ==
    ASSUME AdmissionInv, NEW r \in Ids, NEW written \in Puttable,
           PutRegistration(r, written)
    PROVE  AdmissionInv'
<1> DEFINE checked == CheckGateSet(gate, r, written, settings)
<1>1. /\ ledger = "up" /\ put = NoPut /\ r \notin Configured(settings)
      /\ gate' = checked.gate
      /\ put' = IF checked.ok THEN [pc |-> "admitted", reasoner |-> r,
                                    registration |-> written] ELSE NoPut
      /\ UNCHANGED <<ledger, settings, unchecked, serving, stored, gated, root, corpora>>
  BY DEF PutRegistration
<1>2. AdmissionTypeOK /\ GateSound /\ GateGrew /\ EntriesFit /\ DecisionSound /\ unchecked = <<>>
  BY <1>1 DEF AdmissionInv
<1>3. written \in Seq(ToSet(written))
  BY RegistrationIs
<1> HIDE DEF checked
<1>4. checked.gate \in Admissions(gate, r) /\ (checked.ok => Fits(written, settings))
  BY <1>3, CheckedIs DEF checked
<1>5. /\ gate' \in GateStates /\ Owned(gate')
      /\ \A g : ProfilesOf(g, gate) => ProfilesOf(g, gate')
      /\ \A t \in DOMAIN gate.templates :
           t \in DOMAIN gate'.templates /\ gate'.templates[t] = gate.templates[t]
  BY <1>1, <1>2, <1>4, AdmissionKeeps
<1>6. AdmissionTypeOK'
  BY <1>1, <1>2, <1>5, GateDomains DEF AdmissionTypeOK
<1>7. GateSound' /\ GateGrew' /\ EntriesFit'
  BY <1>1, <1>2, <1>5, SameEntries DEF GateSound, GateGrew
<1>8. PutSound'
  <2>1. CASE ~checked.ok
    BY <1>1, <2>1 DEF PutSound
  <2>2. CASE checked.ok
    <3>1. put' = [pc |-> "admitted", reasoner |-> r, registration |-> written]
      BY <1>1, <2>2
    <3>2. Fits(written, settings)'
      BY <1>1, <1>4, <2>2 DEF Fits, GateSetFits
    <3>3. put'.pc = "admitted" /\ put'.reasoner = r /\ put'.registration = written
      BY <3>1
    <3>4. Fits(put.registration, settings)'
      BY <3>2, <3>3 DEF Fits, GateSetFits
    <3> QED BY <1>1, <3>1, <3>3, <3>4 DEF PutSound
  <2> QED BY <2>1, <2>2
<1>9. DecisionSound'
  BY <1>1, <1>2, <1>5 DEF DecisionSound
<1> QED BY <1>1, <1>2, <1>6, <1>7, <1>8, <1>9 DEF AdmissionInv

LEMMA StoreStep == AdmissionInv /\ StoreRegistration => AdmissionInv'
<1> SUFFICES ASSUME AdmissionInv, StoreRegistration PROVE AdmissionInv'
  OBVIOUS
<1> DEFINE r == put.reasoner
<1>1. /\ put.pc = "admitted"
      /\ stored' = [stored EXCEPT ![r] = put.registration]
      /\ put' = [put EXCEPT !.pc = "stored"]
      /\ UNCHANGED <<ledger, settings, gate, unchecked, serving, gated, root, corpora>>
  BY DEF StoreRegistration
<1>2. put # NoPut
  BY <1>1 DEF NoPut
<1>3. /\ ledger = "up" /\ r \in Ids \ Configured(settings) /\ put.registration \in Puttable
      /\ Fits(put.registration, settings)
  BY <1>2 DEF AdmissionInv, PutSound
<1>4. /\ AdmissionTypeOK /\ unchecked = <<>>
      /\ \A q \in Entered(settings) : Fits(Entries(settings)[q], settings)
  BY <1>3, Serving DEF AdmissionInv
<1>5. AdmissionTypeOK'
  BY <1>1, <1>3, <1>4 DEF AdmissionTypeOK
<1>6. /\ Entries(settings)'[r] = put.registration
      /\ \A q \in Ids : q # r => Entries(settings)'[q] = Entries(settings)[q]
  BY <1>1, <1>3, <1>4 DEF Entries, AdmissionTypeOK
<1>7. \A written : Fits(written, settings)' = Fits(written, settings)
  BY <1>1 DEF Fits, GateSetFits
<1>8. EntriesFit'
  <2>1. unchecked' \in Seq(Entered(settings)')
    BY <1>1, <1>4
  <2>2. ASSUME NEW q \in Entered(settings)' PROVE Fits(Entries(settings)[q], settings)'
    <3>1. CASE q = r
      <4>1. Fits(Entries(settings)'[q], settings)
        BY <1>3, <1>6, <3>1
      <4> QED BY <1>1, <4>1 DEF Fits, GateSetFits
    <3>2. CASE q # r
      <4>1. q \in Ids /\ Entries(settings)'[q] # Unset
        BY DEF Entered
      <4>2. q \in Entered(settings) /\ Entries(settings)'[q] = Entries(settings)[q]
        BY <1>6, <3>2, <4>1 DEF Entered
      <4>3. Fits(Entries(settings)'[q], settings)
        BY <1>4, <4>2
      <4> QED BY <1>1, <4>3 DEF Fits, GateSetFits
    <3> QED BY <3>1, <3>2
  <2> QED BY <2>1, <2>2 DEF EntriesFit
<1>9. PutSound'
  <2>0. put \in [pc : {"admitted", "stored"}, reasoner : Ids, registration : Puttable]
    BY <1>2 DEF AdmissionInv, PutSound
  <2>1. put.reasoner' = r /\ put.registration' = put.registration /\ put.pc' = "stored"
    BY <1>1, <2>0
  <2>2. Fits(put.registration, settings)'
    BY <1>1, <1>3, <2>1 DEF Fits, GateSetFits
  <2>3. put' \in [pc : {"admitted", "stored"}, reasoner : Ids, registration : Puttable]
    BY <1>1, <2>0
  <2> QED BY <1>1, <1>3, <2>1, <2>2, <2>3 DEF PutSound
<1> QED BY <1>1, <1>3, <1>4, <1>5, <1>8, <1>9
       DEF AdmissionInv, GateSound, DecisionSound, GateGrew

LEMMA LostStep == AdmissionInv /\ RegistrationLost => AdmissionInv'
<1> SUFFICES ASSUME AdmissionInv, RegistrationLost PROVE AdmissionInv'
  OBVIOUS
<1>1. EntriesFit' \/ ledger = "down"
  BY SameEntries DEF RegistrationLost, AdmissionInv
<1> QED BY <1>1, SameEntries DEF RegistrationLost, AdmissionInv, AdmissionTypeOK, GateSound, PutSound,
                    DecisionSound, GateGrew

LEMMA ServeStep == AdmissionInv /\ ServeRegistration => AdmissionInv'
<1> SUFFICES ASSUME AdmissionInv, ServeRegistration PROVE AdmissionInv'
  OBVIOUS
<1> USE DEF ServeRegistration
<1>1. put # NoPut
  BY DEF NoPut
<1>2. ledger = "up" /\ put.reasoner \in Ids /\ put.registration \in Puttable
  BY <1>1 DEF AdmissionInv, PutSound
<1>3. AdmissionTypeOK'
  BY <1>2 DEF AdmissionInv, AdmissionTypeOK
<1>4. EntriesFit'
  BY <1>2, SameEntries DEF AdmissionInv
<1> QED BY <1>2, <1>3, <1>4 DEF AdmissionInv, GateSound, PutSound, DecisionSound, GateGrew

\* A decision is rendered with what it was authorized for: the template is
\* still in the gate, with its text and its owner.
LEMMA SubmitStep ==
    ASSUME AdmissionInv, NEW key, NEW r \in Ids, NEW t \in Templates, NEW j, SubmitGated(key, r, t, j)
    PROVE  AdmissionInv'
<1> USE DEF SubmitGated
<1>1. t \in DOMAIN gate.templates /\ gate.templates[t].owner = r
  BY DEF AdmissionInv, GateSound, Owned, Authorizes
<1>2. /\ gated'.pc = "accepted" /\ gated'.template = t /\ gated'.reasoner = r
      /\ gated'.text = gate.templates[t].text
  BY DEF NoDecision
<1>3. DecisionSound'
  <2>1. gate.templates[t].text \in Texts
    BY <1>1 DEF AdmissionInv, GateSound, GateStates, Prompts
  <2>2. gated' \in [pc : {"accepted", "rendered"}, reasoner : Ids, template : Templates,
                       text : Texts, rendered : Texts \cup {Unset}, owner : Ids \cup {Unset}]
    BY <2>1 DEF NoDecision
  <2> QED BY <1>1, <1>2, <2>2 DEF DecisionSound
<1>4. EntriesFit'
  BY SameEntries DEF AdmissionInv
<1>5. PutSound'
  BY DEF AdmissionInv, PutSound, Fits, GateSetFits
<1> QED BY <1>3, <1>4, <1>5, SameEntries DEF AdmissionInv, AdmissionTypeOK, GateSound, GateGrew

LEMMA RenderStep == AdmissionInv /\ Render => AdmissionInv'
<1> SUFFICES ASSUME AdmissionInv, Render PROVE AdmissionInv'
  OBVIOUS
<1> DEFINE t == gated.template
<1>1. /\ gated.pc = "accepted"
      /\ gated' = [gated EXCEPT !.pc = "rendered", !.rendered = gate.templates[t].text,
                                !.owner = gate.templates[t].owner]
      /\ UNCHANGED <<ledger, settings, gate, unchecked, serving, stored, put, root, corpora>>
  BY DEF Render
<1>2. gated # NoDecision
  BY <1>1 DEF NoDecision
<1>3. /\ gated \in [pc : {"accepted", "rendered"}, reasoner : Ids, template : Templates,
                       text : Texts, rendered : Texts \cup {Unset}, owner : Ids \cup {Unset}]
      /\ t \in DOMAIN gate.templates
      /\ gate.templates[t].text = gated.text /\ gate.templates[t].owner = gated.reasoner
      /\ ledger = "up"
  BY <1>2 DEF AdmissionInv, DecisionSound
<1>4. /\ gated' \in [pc : {"accepted", "rendered"}, reasoner : Ids, template : Templates,
                        text : Texts, rendered : Texts \cup {Unset}, owner : Ids \cup {Unset}]
      /\ gated'.template = t /\ gated'.text = gated.text
      /\ gated'.reasoner = gated.reasoner
      /\ gated'.rendered = gated.text /\ gated'.owner = gated.reasoner
  BY <1>1, <1>3
<1>5. DecisionSound'
  BY <1>1, <1>3, <1>4 DEF DecisionSound
<1>6. EntriesFit'
  BY <1>1, <1>3, SameEntries DEF AdmissionInv
<1>7. PutSound'
  BY <1>1 DEF AdmissionInv, PutSound, Fits, GateSetFits
<1> QED BY <1>1, <1>3, <1>5, <1>6, <1>7 DEF AdmissionInv, AdmissionTypeOK, GateSound, GateGrew

\* The steps that leave the gates and the registrations alone.
LEMMA OtherSteps ==
    ASSUME AdmissionInv,
           \/ GatedDone
           \/ \E r \in Ids, assets \in Assets \cup {Unset} : EditRoot(r, assets)
           \/ \E c \in Corpora, level \in Levels \cup {Unset} : LoadCorpus(c, level)
           \/ UNCHANGED admissionVars
    PROVE  AdmissionInv'
<1>1. UNCHANGED <<ledger, settings, gate, unchecked, serving, stored, put>>
  BY DEF GatedDone, EditRoot, LoadCorpus, admissionVars
<1>2. gated' = gated \/ gated' = NoDecision
  BY DEF GatedDone, EditRoot, LoadCorpus, admissionVars
<1>3. root' \in [Ids -> Assets \cup {Unset}] /\ corpora' \in [Corpora -> Levels \cup {Unset}]
  BY DEF AdmissionInv, AdmissionTypeOK, GatedDone, EditRoot, LoadCorpus, admissionVars
<1>4. AdmissionTypeOK'
  BY <1>1, <1>3 DEF AdmissionInv, AdmissionTypeOK
<1>5. EntriesFit => EntriesFit'
  BY <1>1, SameEntries
<1>6. PutSound'
  BY <1>1 DEF AdmissionInv, PutSound, Fits, GateSetFits
<1>7. DecisionSound'
  BY <1>1, <1>2 DEF AdmissionInv, DecisionSound
<1>8. Entries(settings)' = Entries(settings)
  BY <1>1, SameEntries
<1> QED BY <1>1, <1>2, <1>4, <1>5, <1>6, <1>7, <1>8 DEF AdmissionInv, GateSound, GateGrew

LEMMA AdmissionStep == AdmissionInv /\ [AdmissionNext]_admissionVars => AdmissionInv'
<1> SUFFICES ASSUME AdmissionInv, [AdmissionNext]_admissionVars PROVE AdmissionInv'
  OBVIOUS
<1>1. ASSUME NEW s \in Settings, BuildServices(s) PROVE AdmissionInv'
  BY <1>1, BuildStep
<1>2. CASE CheckRegistration
  BY <1>2, CheckStep
<1>3. CASE RefuseStart \/ BuildFails \/ LedgerStops
  BY <1>3, ForgottenStep DEF RefuseStart, BuildFails, LedgerStops
<1>4. CASE StartServing
  BY <1>4, StartStep
<1>5. ASSUME NEW r \in Ids, NEW written \in Puttable, PutRegistration(r, written)
      PROVE  AdmissionInv'
  BY <1>5, PutStep
<1>6. CASE StoreRegistration
  BY <1>6, StoreStep
<1>7. CASE RegistrationLost
  BY <1>7, LostStep
<1>8. CASE ServeRegistration
  BY <1>8, ServeStep
<1>9. ASSUME NEW key \in Keys, NEW r \in Ids, NEW t \in Templates,
             NEW j \in SUBSET Jurisdictions, SubmitGated(key, r, t, j)
      PROVE  AdmissionInv'
  BY <1>9, SubmitStep
<1>10. CASE Render
  BY <1>10, RenderStep
<1>11. CASE \/ GatedDone
            \/ \E r \in Ids, assets \in Assets \cup {Unset} : EditRoot(r, assets)
            \/ \E c \in Corpora, level \in Levels \cup {Unset} : LoadCorpus(c, level)
            \/ UNCHANGED admissionVars
  BY <1>11, OtherSteps
<1> QED BY <1>1, <1>2, <1>3, <1>4, <1>5, <1>6, <1>7, <1>8, <1>9, <1>10, <1>11 DEF AdmissionNext

\* What the gates admitted, what was checked of it and what a decision was
\* authorized for, throughout (app/gates.py, PolicyGate._admit_reasoner).
THEOREM AdmissionInvariance == AdmissionSpec => []AdmissionInv
<1> QED BY AdmissionInitially, AdmissionStep, PTL DEF AdmissionSpec

\* A decision is rendered with its own reasoner's prompt, in the text it was
\* authorized for (PolicyGate.evaluate looks the template up by id alone).
THEOREM RenderedAsAuthorized == AdmissionSpec => []AuthorizedIsRendered
<1>1. AdmissionInv => AuthorizedIsRendered
  BY DEF AdmissionInv, DecisionSound, AuthorizedIsRendered, NoDecision
<1> QED BY <1>1, AdmissionInvariance, PTL

-----------------------------------------------------------------------------
(* A restart is admitted. *)

\* A gate on the way to a fresh start knows every plugin, and knows nobody by
\* another profile than the gate in service.
OnTheWay(v) ==
    /\ v \in [ok : {TRUE}, gate : GateStates]
    /\ Covered(v.gate)
    /\ ProfilesOf(v.gate, gate)
    /\ "policy" \in Composed(settings) =>
         \A r \in ToSet(PluginIds(settings)) : r \in DOMAIN v.gate.profiles

\* The entries do not stand in each other's way: the templates of another
\* would be in the gate in service under both their owners.
LEMMA EntersAgain ==
    ASSUME AdmissionInv, ledger = "up", SourcesHold,
           NEW v, OnTheWay(v), NEW r \in Entered(settings)
    PROVE  OnTheWay(Entering(v, r))
<1> DEFINE written == Entries(settings)[r]
           c == CheckGateSet(v.gate, r, written, settings)
<1>1. /\ AdmissionTypeOK /\ Owned(gate)
      /\ v = [ok |-> TRUE, gate |-> v.gate] /\ v.ok = TRUE /\ v.gate \in GateStates
      /\ Covered(v.gate) /\ ProfilesOf(v.gate, gate)
  BY DEF AdmissionInv, GateSound, OnTheWay
<1>2. r \in Ids /\ written # Unset /\ written \in Range(Declared) \cup Puttable
  BY <1>1, EntriesType DEF Entered
<1>3. written \in Seq(ToSet(written))
  BY <1>2, RegistrationIs
<1>4. Fits(written, settings)
  BY Serving
<1>5. AsksPolicy(written, settings) => BindsPolicy(written)
  BY <1>2 DEF BindsPolicy, AsksPolicy
<1> HIDE DEF written
<1>6. AsksPolicy(written, settings) => \A i \in DOMAIN written :
                written[i].gate_id = "policy" => CorporaFit(written[i])
  BY <1>2, <1>5 DEF SourcesHold, written
<1>7. AsksPolicy(written, settings) /\ r \notin DOMAIN v.gate.profiles =>
        /\ r \in DOMAIN gate.profiles /\ Loads(root[r]) /\ ProfileOf(root[r]) = gate.profiles[r]
  <2> SUFFICES ASSUME AsksPolicy(written, settings), r \notin DOMAIN v.gate.profiles
               PROVE  r \in DOMAIN gate.profiles /\ Loads(root[r])
                      /\ ProfileOf(root[r]) = gate.profiles[r]
    OBVIOUS
  <2>1. r \notin ToSet(PluginIds(settings))
    BY DEF OnTheWay, AsksPolicy
  <2> QED BY <1>2, <1>5, <2>1 DEF SourcesHold, written
<1>8. AsksPolicy(written, settings) /\ r \notin DOMAIN v.gate.profiles => MayAdd(v.gate, root[r])
  <2> SUFFICES ASSUME AsksPolicy(written, settings), r \notin DOMAIN v.gate.profiles,
                      NEW t \in DOMAIN root[r].templates, t \in DOMAIN v.gate.templates
               PROVE  FALSE
    BY DEF MayAdd
  <2>1. PICK q \in DOMAIN v.gate.profiles : t \in v.gate.profiles[q].template_ids
    BY <1>1 DEF Covered
  <2>2. q \in DOMAIN gate.profiles /\ t \in gate.profiles[q].template_ids
    BY <1>1, <2>1 DEF ProfilesOf
  <2>3. r \in DOMAIN gate.profiles /\ t \in gate.profiles[r].template_ids
    BY <1>7 DEF ProfileOf
  <2>4. gate.templates[t].owner = q /\ gate.templates[t].owner = r
    BY <1>1, <2>2, <2>3 DEF Owned
  <2> QED BY <2>1, <2>4
<1>9. MayPass(v.gate, r, written, settings)
  BY <1>4, <1>6, <1>7, <1>8 DEF MayPass
<1>10. c = [ok |-> TRUE, gate |-> c.gate] /\ (~AsksPolicy(written, settings) => c.gate = v.gate)
  <2> HIDE DEF c
  <2>1. c = [ok |-> TRUE, gate |-> c.gate]
    BY <1>3, <1>9, CheckPasses, Zenon DEF c
  <2>2. ~AsksPolicy(written, settings) => c.gate = v.gate
    BY <1>3, <1>9, CheckPasses, Zenon DEF c
  <2> QED BY <2>1, <2>2
<1>11. c.gate \in Admissions(v.gate, r)
  BY <1>3, CheckedIs
<1>12. Entering(v, r) = c
  BY <1>1 DEF Entering, written
<1> HIDE DEF c
<1>13. CASE c.gate = v.gate
  <2>1. c = v
    BY <1>1, <1>10, <1>13
  <2> QED BY <1>12, <2>1
<1>14. CASE c.gate # v.gate
  <2> DEFINE h == Added(v.gate, r, root[r])
  <2>1. /\ r \notin DOMAIN v.gate.profiles /\ Loads(root[r]) /\ MayAdd(v.gate, root[r])
        /\ c.gate = h /\ AsksPolicy(written, settings)
    BY <1>10, <1>11, <1>14 DEF Admissions
  <2>2. root[r] \in Shipped
    BY <1>1, <1>2, <2>1 DEF AdmissionTypeOK, Loads, Shipped
  <2>3. h \in GateStates
    BY <1>1, <1>2, <2>2, AddedType
  <2>4. /\ h.profiles[r] = ProfileOf(root[r])
        /\ DOMAIN h.profiles = {r} \cup DOMAIN v.gate.profiles
        /\ \A q \in DOMAIN v.gate.profiles : q # r => h.profiles[q] = v.gate.profiles[q]
        /\ Covered(h)
    BY <1>1, <2>1, AddedKeeps
  <2> HIDE DEF h
  <2>5. ProfilesOf(h, gate)
    BY <1>1, <1>7, <2>1, <2>4 DEF ProfilesOf
  <2>6. "policy" \in Composed(settings) =>
          \A q \in ToSet(PluginIds(settings)) : q \in DOMAIN h.profiles
    BY <2>4 DEF OnTheWay
  <2>7. c \in [ok : {TRUE}, gate : GateStates]
    <3>1. c.gate \in GateStates
      BY <2>1, <2>3
    <3>2. c = [ok |-> TRUE, gate |-> c.gate]
      BY <1>10
    <3>3. [ok |-> TRUE, gate |-> c.gate] \in [ok : {TRUE}, gate : GateStates]
      BY <3>1
    <3> QED BY <3>2, <3>3, Zenon
  <2> QED BY <1>12, <2>1, <2>4, <2>5, <2>6, <2>7 DEF OnTheWay
<1> QED BY <1>13, <1>14

LEMMA FreshStartAdmits ==
    ASSUME AdmissionInv, ledger = "up", SourcesHold
    PROVE  FreshStart.ok
<1> DEFINE n == Len(EntryOrder(settings))
           D == {v \in [ok : {TRUE}, gate : GateStates] : OnTheWay(v)}
<1>1. /\ EntryOrder(settings) \in Seq(Ids)
      /\ EntryOrder(settings) \in Seq(Entered(settings))
  BY EntryOrderIs
<1>2. BuiltFromPlugins(settings) \in D
  <2>1. BuiltFromPlugins(settings).ok /\ ProfilesOf(BuiltFromPlugins(settings).gate, gate)
    BY DEF AdmissionInv, GateGrew
  <2>2. /\ BuiltSound(BuiltFromPlugins(settings))
        /\ "policy" \in Composed(settings) =>
             \A r \in ToSet(PluginIds(settings)) :
                r \in DOMAIN BuiltFromPlugins(settings).gate.profiles
    BY BuiltIs
  <2>3. BuiltFromPlugins(settings) \in [ok : {TRUE}, gate : GateStates]
    BY <2>1, <2>2 DEF BuiltSound
  <2>4. OnTheWay(BuiltFromPlugins(settings))
    BY <2>1, <2>2, <2>3 DEF OnTheWay, BuiltSound
  <2> QED BY <2>3, <2>4
<1>3. ASSUME NEW v \in D, NEW k \in 1 .. n
      PROVE  Entering(v, EntryOrder(settings)[k]) \in D
  <2>1. EntryOrder(settings)[k] \in Entered(settings)
    BY <1>1
  <2>2. OnTheWay(Entering(v, EntryOrder(settings)[k]))
    BY <2>1, EntersAgain
  <2> QED BY <2>2 DEF OnTheWay
<1>4. PICK f : FreshLoop(f, D)
  <2> HIDE DEF D
  <2> QED BY <1>1, <1>2, <1>3, FreshRuns
<1>5. FreshStart \in D
  <2>1. n \in Nat
    BY <1>1
  <2> HIDE DEF D
  <2> QED BY <1>4, <2>1 DEF FreshLoop
<1> QED BY <1>5

\* Whatever was written, refused and lost since it started, a ledger whose
\* files and corpora still hold is admitted again by its own gates.
THEOREM RestartIsAdmitted == AdmissionSpec => []RestartAdmits
<1>1. AdmissionInv => RestartAdmits
  BY FreshStartAdmits DEF RestartAdmits
<1> QED BY <1>1, AdmissionInvariance, PTL

\* Type correctness.
THEOREM AdmissionTypeCorrect == AdmissionSpec => []AdmissionTypeOK
<1>1. AdmissionInv => AdmissionTypeOK
  BY DEF AdmissionInv
<1> QED BY <1>1, AdmissionInvariance, PTL

=============================================================================
