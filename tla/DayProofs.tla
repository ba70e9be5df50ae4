------------------------------- MODULE DayProofs -------------------------------
(***************************************************************************)
(* Proofs about DayRuns, for any rows, chunk size, rule sets, replacement  *)
(* of the registration and number of failures: no row is decided twice,    *)
(* what a run reports is so, and the operator of a daily run knows every   *)
(* row it may have decided.  DayInv follows each row from the plan to the  *)
(* store: one that is yet to be sent, or is in a request that was not      *)
(* worked on, is not stored, and what the run was answered is what the     *)
(* store holds.  RecordsInv follows what a decision is made of, so that a  *)
(* record keeps its action.  And about Evaluation, for any dataset and any *)
(* answers of the rules and the gates: EvaluationInv says where            *)
(* consistency and robustness stand and what the driver holds meanwhile,   *)
(* SampleInv what the shadow dimension was given.                          *)
(***************************************************************************)
EXTENDS DayRuns, Evaluation, Iteration, SequenceTheorems

\* The rows of the day that no request has taken yet.
Unsent(r) ==
    CASE run.pc = "check" -> TRUE
      [] run.pc = "batch" -> IsException(r) \/ \E n \in DOMAIN BatchLines : n > run.sent /\ BatchLines[n] = r
      [] run.pc \in {"submit", "bundle"} -> \E n \in DOMAIN run.todo : run.todo[n] = r
      [] OTHER -> FALSE

InWire(r) == \E n \in DOMAIN wire.rows : wire.rows[n] = r

Distinct(s) == \A i, j \in DOMAIN s : s[i] = s[j] => i = j

RunShape ==
    /\ run = [pc |-> run.pc, provoked |-> run.provoked, sent |-> run.sent, todo |-> run.todo,
              lines |-> run.lines, decisions |-> run.decisions, refused |-> run.refused,
              in_doubt |-> run.in_doubt, stopped |-> run.stopped]
    /\ run.pc \in {"check", "batch", "submit", "bundle", "done"}
    /\ run.provoked # 0 => run.provoked \in RowsOfDay /\ IsException(run.provoked) /\ mock = "batch"
    /\ run.sent \in 0 .. Len(BatchLines)
    /\ run.todo \in Seq(RowsOfDay) /\ Distinct(run.todo)
    /\ run.pc = "batch" => mock = "batch"
    /\ run.pc # "done" => run.in_doubt = 0
    /\ DOMAIN run.lines \subseteq RowsOfDay
    /\ DOMAIN run.decisions \subseteq RowsOfDay

WireShape ==
    \/ wire = NoRequest
    \/ /\ wire = [op |-> wire.op, rows |-> wire.rows, results |-> wire.results,
                  reply |-> wire.reply, awaited |-> wire.awaited]
       /\ wire.op \in {"batch", "submit"}
       /\ wire.rows \in Seq(RowsOfDay) /\ wire.rows # <<>> /\ Distinct(wire.rows)
       /\ wire.op = "submit" => Len(wire.rows) = 1 
       /\ wire.op = "batch" => mock = "batch" 
       /\ DOMAIN wire.results \subseteq ToSet(wire.rows)
       /\ wire.reply \in {"pending", "ok", "key", "refused", "server"}
       /\ wire.awaited \in BOOLEAN
       /\ run.pc \in {"batch", "submit", "bundle", "done"}
       /\ wire.awaited <=> run.pc # "done"
       /\ run.pc = "batch" => wire.op = "batch"
       /\ run.pc \in {"submit", "bundle"} => wire.op = "submit"
       /\ run.pc = "bundle" => wire.reply = "ok"
       /\ \A r \in DOMAIN wire.results : IsException(r) => wire.results[r].status # "recorded"

DayShape ==
    /\ mock \in {"batch", "daily"}
    /\ RowsOfDay = 1 .. DaySize
    /\ DOMAIN store = RowsOfDay
    /\ exit \in {"running", "0", "1"}
    /\ exit # "running" => run.pc = "done"
    /\ run.pc = "bundle" => wire # NoRequest

StoreShape ==
    /\ \A r \in RowsOfDay : store[r] = <<>> \/ store[r] = <<store[r][1]>>
    /\ \A r \in RowsOfDay : Unsent(r) => store[r] = <<>>
    /\ \A r \in RowsOfDay : InWire(r) /\ Unsent(r) => wire.op = "batch" /\ IsException(r)
    /\ \A r \in RowsOfDay : InWire(r) /\ wire.reply \in {"pending", "key", "refused"} => store[r] = <<>>

Known ==
    /\ wire.op = "batch" /\ wire.reply = "ok" =>
         \A r \in DOMAIN wire.results : wire.results[r].status = "recorded" => store[r] = <<wire.results[r].decision>>
    /\ wire.op = "submit" /\ wire.reply = "ok" => store[wire.rows[1]] # <<>>
    /\ \A r \in DOMAIN run.lines : run.lines[r].status = "recorded" => store[r] = <<run.lines[r].decision>>
    /\ \A r \in DOMAIN run.decisions : store[r] = <<run.decisions[r]>>
    /\ exit = "0" => undecided = {}

DailyKnown ==
    mock = "daily" =>
      /\ \A r \in RowsOfDay : store[r] # <<>> =>
           r \in DOMAIN run.decisions \/ r = run.in_doubt \/ (wire.awaited /\ InWire(r))
      /\ wire # NoRequest /\ ~wire.awaited => wire.rows[1] = run.in_doubt

DayInv == DayShape /\ RunShape /\ WireShape /\ StoreShape /\ Known /\ DailyKnown

-----------------------------------------------------------------------------
(* The plan. *)

LEMMA BatchLinesList ==
    ASSUME RowsOfDay = 1 .. DaySize
    PROVE  /\ BatchLines \in Seq(RowsOfDay) /\ Distinct(BatchLines)
           /\ \A r \in RowsOfDay : ~IsException(r) => \E n \in DOMAIN BatchLines : BatchLines[n] = r
           /\ \A n \in DOMAIN BatchLines :
                ~IsException(BatchLines[n]) \/ BatchLines[n] = run.provoked
<1> DEFINE S == {r \in RowsOfDay : ~IsException(r) \/ r = run.provoked}
<1>1. S \in SUBSET Int /\ IsFiniteSet(S) /\ S \subseteq RowsOfDay
  BY FS_Interval, FS_Subset, DayConstants
<1>2. \A r \in RowsOfDay : ~IsException(r) => r \in S
  OBVIOUS
<1>3. \A r \in S : ~IsException(r) \/ r = run.provoked
  OBVIOUS
<1>4. BatchLines = Ascending(S)
  BY DEF BatchLines
<1> HIDE DEF S
<1>5. /\ BatchLines \in Seq(S) /\ Distinct(BatchLines)
      /\ \A r \in S : \E n \in DOMAIN BatchLines : BatchLines[n] = r
  BY <1>1, <1>4, AscendingLists DEF Distinct
<1>6. BatchLines \in Seq(RowsOfDay)
  BY <1>1, <1>5, SeqMonotonic
<1>7. \A n \in DOMAIN BatchLines : BatchLines[n] \in S
  BY <1>5
<1> QED BY <1>2, <1>3, <1>5, <1>6, <1>7

LEMMA PlanStands ==
    ASSUME day' = day, run'.provoked = run.provoked
    PROVE  /\ RowsOfDay' = RowsOfDay /\ BatchLines' = BatchLines
           /\ \A r : IsException(r)' <=> IsException(r)
BY DEF RowsOfDay, BatchLines, IsException

LEMMA DayInitInv ==
    ASSUME DayInit PROVE DayInv
<1>1. DayShape
  BY DEF DayInit, DayShape, RowsOfDay, NoRequest, DayRun
<1>2. PICK provoke \in BOOLEAN :
        run = DayRun(IF provoke /\ mock = "batch" /\ Exceptions # <<>> THEN Exceptions[1] ELSE 0)
  BY DEF DayInit
<1>3. Exceptions # <<>> => Exceptions[1] \in RowsOfDay /\ IsException(Exceptions[1])
  <2> DEFINE S == {r \in RowsOfDay : IsException(r)}
  <2>1. S \in SUBSET Int /\ IsFiniteSet(S)
    BY <1>1, FS_Interval, FS_Subset, DayConstants DEF DayShape
  <2>2. Exceptions = Ascending(S)
    BY DEF Exceptions
  <2>3. \A r \in S : r \in RowsOfDay /\ IsException(r)
    OBVIOUS
  <2> HIDE DEF S
  <2>4. Exceptions \in Seq(S)
    BY <2>1, <2>2, AscendingLists
  <2>5. Exceptions # <<>> => 1 \in DOMAIN Exceptions
    BY <2>4
  <2> QED BY <2>3, <2>4, <2>5
<1>4. BatchLines \in Seq(RowsOfDay)
  BY <1>1, BatchLinesList DEF DayShape
<1>5. RunShape
  BY <1>2, <1>3, <1>4 DEF RunShape, DayRun, Distinct
<1>6. WireShape /\ DailyKnown /\ StoreShape
  BY <1>1 DEF DayInit, WireShape, DailyKnown, StoreShape, NoRequest, InWire, DayShape
<1>7. Known
  BY <1>2 DEF DayInit, Known, NoRequest, DayRun
<1> QED BY <1>1, <1>5, <1>6, <1>7 DEF DayInv

-----------------------------------------------------------------------------
(* The ledger's steps. *)

\* What a step of the ledger on the request in flight leaves alone.
LEMMA RunStands ==
    ASSUME DayInv, RunUnchanged, DOMAIN store' = DOMAIN store
    PROVE  /\ DayShape' \/ wire' = NoRequest
           /\ RunShape'
           /\ \A r : Unsent(r)' <=> Unsent(r)
           /\ \A r : IsException(r)' <=> IsException(r)
           /\ RowsOfDay' = RowsOfDay /\ decided' = decided /\ undecided' = undecided
<1>1. /\ RowsOfDay' = RowsOfDay /\ BatchLines' = BatchLines
      /\ \A r : IsException(r)' <=> IsException(r)
  BY PlanStands DEF RunUnchanged
<1>2. run' = run /\ mock' = mock /\ exit' = exit
  BY DEF RunUnchanged
<1>3. RunShape'
  BY <1>1, <1>2 DEF DayInv, RunShape, Distinct
<1>4. \A r : Unsent(r)' <=> Unsent(r)
  BY <1>1, <1>2 DEF Unsent
<1>5. DayShape' \/ wire' = NoRequest
  BY <1>1, <1>2 DEF DayInv, DayShape
<1>6. decided' = decided /\ undecided' = undecided
  BY <1>1, <1>2 DEF decided, undecided, RecordedRows
<1> QED BY <1>1, <1>3, <1>4, <1>5, <1>6

LEMMA DayStutter ==
    ASSUME DayInv, UNCHANGED <<mock, day, store, wire, run, exit>> PROVE DayInv'
<1>1. /\ RowsOfDay' = RowsOfDay /\ BatchLines' = BatchLines
      /\ \A r : IsException(r)' <=> IsException(r)
  BY PlanStands
<1>2. \A r : (Unsent(r)' <=> Unsent(r)) /\ (InWire(r)' <=> InWire(r))
  BY <1>1 DEF Unsent, InWire
<1>3. undecided' = undecided
  BY <1>1 DEF undecided, decided, RecordedRows
<1>4. DayShape' /\ RunShape' /\ WireShape'
  BY <1>1 DEF DayInv, DayShape, RunShape, WireShape, Distinct
<1>5. StoreShape' /\ DailyKnown'
  BY <1>1, <1>2 DEF DayInv, StoreShape, DailyKnown
<1>6. Known'
  BY <1>3 DEF DayInv, Known
<1> QED BY <1>4, <1>5, <1>6 DEF DayInv

LEMMA RefuseKeyKeeps ==
    ASSUME DayInv, RefuseKey PROVE DayInv'
<1>1. RunUnchanged /\ UNCHANGED store
  BY DEF RefuseKey
<1>2. wire # NoRequest /\ wire' = [wire EXCEPT !.reply = "key"] /\ wire.reply = "pending"
  BY DEF RefuseKey, Reply, NoRequest
<1>3. WireShape' /\ wire' # NoRequest
  BY <1>1, <1>2, RunStands DEF DayInv, WireShape, RunUnchanged, NoRequest, Distinct
<1>4. StoreShape'
  BY <1>1, <1>2, RunStands DEF DayInv, WireShape, StoreShape, InWire
<1>5. Known'
  BY <1>1, <1>2, RunStands DEF DayInv, WireShape, Known, RunUnchanged
<1>6. DailyKnown'
  BY <1>1, <1>2, <1>3, RunStands DEF DayInv, WireShape, DailyKnown, RunUnchanged, InWire
<1> QED BY <1>1, <1>3, <1>4, <1>5, <1>6, RunStands DEF DayInv
LEMMA StoredIsSome == \A d : <<d>> # <<>>
OBVIOUS

\* The ledger answers a submission, whose bundle it may have written.
LEMMA SubmitKeeps ==
    ASSUME DayInv, RunUnchanged, Received("submit"), NEW reply \in {"ok", "refused", "server"},
           Reply(reply), NEW decision,
           \/ reply # "ok" /\ UNCHANGED store
           \/ reply # "refused" /\ Write(wire.rows[1], decision)
    PROVE  DayInv'
<1> DEFINE r == wire.rows[1]
<1>1. /\ wire # NoRequest /\ wire.op = "submit" /\ wire.reply = "pending"
      /\ wire' = [wire EXCEPT !.reply = reply]
  BY DEF Received, Reply, NoRequest
<1>2. Len(wire.rows) = 1 /\ r \in RowsOfDay /\ InWire(r) /\ \A x : InWire(x) => x = r
  BY <1>1 DEF DayInv, WireShape, InWire
<1>3. store[r] = <<>> /\ ~Unsent(r)
  BY <1>1, <1>2 DEF DayInv, StoreShape
<1>4. /\ DOMAIN store' = DOMAIN store
      /\ \A x \in RowsOfDay : x # r => store'[x] = store[x]
      /\ store'[r] = <<>> \/ store'[r] = <<decision>>
      /\ reply = "ok" => store'[r] # <<>>
      /\ reply = "refused" => store'[r] = <<>>
  <2>1. CASE UNCHANGED store /\ reply # "ok"
    BY <1>3, <2>1
  <2>2. CASE reply # "refused" /\ Write(r, decision)
    <3>1. r \in DOMAIN store /\ DOMAIN store = RowsOfDay
      BY <1>2 DEF DayInv, DayShape
    <3>2. store' = [store EXCEPT ![r] = Append(store[r], decision)]
      BY <2>2 DEF Write
    <3>3. store'[r] = <<decision>>
      BY <1>3, <3>1, <3>2
    <3> QED BY <2>2, <3>1, <3>2, <3>3
  <2> QED BY <2>1, <2>2
<1> HIDE DEF r
<1>5. WireShape' /\ wire' # NoRequest
  BY <1>1, <1>4, RunStands DEF DayInv, WireShape, RunUnchanged, NoRequest, Distinct
<1>6. /\ wire'.op = "submit" /\ wire'.reply = reply /\ wire'.rows = wire.rows
      /\ wire'.awaited = wire.awaited
  BY <1>1 DEF DayInv, WireShape
<1>7. \A x : InWire(x)' <=> x = r
  BY <1>2, <1>6 DEF InWire
<1>8. StoreShape'
  BY <1>3, <1>4, <1>6, <1>7, RunStands DEF DayInv, StoreShape
<1>9. \A x \in RowsOfDay : store[x] # <<>> => store'[x] = store[x]
  BY <1>3, <1>4
<1>10. Known'
  <2>1. \A x \in DOMAIN run.lines : run.lines[x].status = "recorded" => store'[x] = <<run.lines[x].decision>>
    BY <1>9, StoredIsSome DEF DayInv, RunShape, Known
  <2>2. \A x \in DOMAIN run.decisions : store'[x] = <<run.decisions[x]>>
    BY <1>9, StoredIsSome DEF DayInv, RunShape, Known
  <2>3. exit' = exit /\ run' = run
    BY DEF RunUnchanged
  <2>4. reply = "ok" => store'[wire'.rows[1]] # <<>>
    BY <1>4, <1>6 DEF r
  <2> QED BY <1>6, <2>1, <2>2, <2>3, <2>4, <1>4, RunStands DEF DayInv, Known
<1>11. DailyKnown'
  <2>1. run' = run /\ mock' = mock
    BY DEF RunUnchanged
  <2>2. mock = "daily" /\ ~wire.awaited => r = run.in_doubt
    BY <1>1 DEF DayInv, DailyKnown, r
  <2>3. wire.awaited \in BOOLEAN
    BY <1>1 DEF DayInv, WireShape
  <2>4. wire'.rows[1] = r
    BY <1>6 DEF r
  <2>5. ASSUME mock = "daily", NEW x \in RowsOfDay, store'[x] # <<>>
        PROVE  x \in DOMAIN run.decisions \/ x = run.in_doubt \/ (wire.awaited /\ x = r)
    <3>1. CASE x = r
      BY <2>2, <2>5, <3>1
    <3>2. CASE x # r
      BY <1>2, <1>4, <2>5, <3>2 DEF DayInv, DailyKnown, r
    <3> QED BY <3>1, <3>2
  <2>6. RowsOfDay' = RowsOfDay
    BY <1>4, RunStands
  <2> QED BY <1>6, <1>7, <2>1, <2>2, <2>4, <2>5, <2>6 DEF DailyKnown
<1> QED BY <1>5, <1>8, <1>10, <1>11, <1>4, RunStands DEF DayInv

LEMMA CreateDecisionKeeps ==
    ASSUME DayInv, CreateDecision PROVE DayInv'
<1> DEFINE decision == Decision(wire.rows[1])
<1>1. RunUnchanged /\ Received("submit")
  BY DEF CreateDecision
<1>2. \/ Reply("refused") /\ UNCHANGED store
      \/ Write(wire.rows[1], decision) /\ Reply("ok")
  BY DEF CreateDecision
<1> HIDE DEF decision
<1> QED BY <1>1, <1>2, SubmitKeeps

LEMMA DecideLineKeeps ==
    ASSUME DayInv, NEW r \in RowsOfDay, DecideLine(r) PROVE DayInv'
<1> DEFINE result == LineResult(r)
           results == Updated(wire.results, [x \in {r} |-> result])
<1>1. RunUnchanged /\ UNCHANGED store /\ wire # NoRequest /\ wire.reply = "pending"
  BY DEF DecideLine, Received, NoRequest
<1>2. r \in ToSet(wire.rows) /\ r \notin DOMAIN wire.results
  BY DEF DecideLine
<1>3. IsException(r) => result.status # "recorded"
  BY DEF LineResult, Rejected
<1>4. /\ DOMAIN results = DOMAIN wire.results \cup {r}
      /\ results[r] = result /\ \A x \in DOMAIN wire.results : results[x] = wire.results[x]
  BY <1>2 DEF Updated
<1>5. wire' = [wire EXCEPT !.results = results]
  BY DEF DecideLine, Updated
<1> HIDE DEF result, results
<1>6. WireShape' /\ wire' # NoRequest
  BY <1>1, <1>2, <1>3, <1>4, <1>5, RunStands DEF DayInv, WireShape, RunUnchanged, NoRequest, Distinct
<1>7. /\ wire'.op = wire.op /\ wire'.reply = wire.reply /\ wire'.rows = wire.rows
      /\ wire'.awaited = wire.awaited
  BY <1>1, <1>5 DEF DayInv, WireShape
<1>8. StoreShape'
  BY <1>1, <1>7, RunStands DEF DayInv, StoreShape, InWire
<1>9. Known'
  BY <1>1, <1>7, RunStands DEF DayInv, Known, RunUnchanged
<1>10. DailyKnown'
  BY <1>1, <1>6, <1>7, RunStands DEF DayInv, DailyKnown, RunUnchanged, InWire
<1> QED BY <1>1, <1>6, <1>8, <1>9, <1>10, RunStands DEF DayInv
\* The bundles of a batch whose lines are all decided are written, all or the
\* first of them.
LEMMA BatchKeeps ==
    ASSUME DayInv, RunUnchanged, AllDecided, NEW n \in 0 .. Len(wire.rows), WriteFirst(n),
           NEW reply \in {"ok", "server"}, Reply(reply),
           reply = "ok" => n = Len(wire.rows)
    PROVE  DayInv'
<1> DEFINE Written(r) ==
             \E i \in 1 .. n : wire.rows[i] = r /\ wire.results[r].status = "recorded"
<1>1. /\ wire # NoRequest /\ wire.op = "batch" /\ wire.reply = "pending"
      /\ wire' = [wire EXCEPT !.reply = reply] /\ DOMAIN wire.results = ToSet(wire.rows)
  BY DEF AllDecided, Received, Reply, NoRequest
<1>2. \A r \in RowsOfDay : Written(r) =>
        store[r] = <<>> /\ ~Unsent(r) /\ InWire(r) /\ wire.results[r].status = "recorded"
  <2> SUFFICES ASSUME NEW r \in RowsOfDay, Written(r)
               PROVE  store[r] = <<>> /\ ~Unsent(r) /\ InWire(r) /\ wire.results[r].status = "recorded"
    OBVIOUS
  <2>1. PICK i \in 1 .. n : wire.rows[i] = r /\ wire.results[r].status = "recorded"
    OBVIOUS
  <2>2. i \in DOMAIN wire.rows
    BY <1>1 DEF DayInv, WireShape
  <2>3. InWire(r) /\ r \in DOMAIN wire.results
    BY <1>1, <2>1, <2>2 DEF InWire, ToSet
  <2>4. ~IsException(r)
    BY <1>1, <2>1, <2>3 DEF DayInv, WireShape
  <2> QED BY <1>1, <2>1, <2>3, <2>4 DEF DayInv, StoreShape
<1>3. DOMAIN store' = DOMAIN store
  BY DEF WriteFirst, DayInv, DayShape
<1>4. \A r \in RowsOfDay :
        store'[r] = IF Written(r) THEN Append(store[r], wire.results[r].decision) ELSE store[r]
  BY DEF WriteFirst
<1> HIDE DEF Written
<1>5. \A r \in RowsOfDay :
        store'[r] = IF Written(r) THEN <<wire.results[r].decision>> ELSE store[r]
  <2>1. \A d : Append(<<>>, d) = <<d>>
    OBVIOUS
  <2> QED BY <1>2, <1>4, <2>1
<1>6. WireShape' /\ wire' # NoRequest
  BY <1>1, <1>3, RunStands DEF DayInv, WireShape, RunUnchanged, NoRequest, Distinct
<1>7. /\ wire'.op = "batch" /\ wire'.reply = reply /\ wire'.rows = wire.rows
      /\ wire'.results = wire.results /\ wire'.awaited = wire.awaited
  BY <1>1 DEF DayInv, WireShape
<1>8. \A r : InWire(r)' <=> InWire(r)
  BY <1>7 DEF InWire
<1>9. \A r \in RowsOfDay : store[r] # <<>> => store'[r] = store[r]
  BY <1>2, <1>5
<1>10. /\ RowsOfDay' = RowsOfDay /\ undecided' = undecided
       /\ \A r : (Unsent(r)' <=> Unsent(r)) /\ (IsException(r)' <=> IsException(r))
  BY <1>3, RunStands
<1>11. StoreShape'
  <2>1. \A r \in RowsOfDay : store'[r] = <<>> \/ store'[r] = <<store'[r][1]>>
    <3> SUFFICES ASSUME NEW r \in RowsOfDay
                 PROVE  store'[r] = <<>> \/ store'[r] = <<store'[r][1]>>
      OBVIOUS
    <3>1. CASE Written(r)
      <4> DEFINE d == wire.results[r].decision
      <4>1. store'[r] = <<d>>
        BY <1>5, <3>1
      <4> HIDE DEF d
      <4> QED BY <4>1
    <3>2. CASE ~Written(r)
      <4>1. store'[r] = store[r]
        BY <1>5, <3>2
      <4> QED BY <4>1 DEF DayInv, StoreShape
    <3> QED BY <3>1, <3>2
  <2>2. \A r \in RowsOfDay : Unsent(r) => store'[r] = <<>>
    BY <1>2, <1>5 DEF DayInv, StoreShape
  <2> QED BY <1>1, <1>7, <1>8, <1>10, <2>1, <2>2 DEF DayInv, StoreShape
<1>12. Known'
  <2>1. \A r \in DOMAIN run.lines : run.lines[r].status = "recorded" => store'[r] = <<run.lines[r].decision>>
    BY <1>9, StoredIsSome DEF DayInv, RunShape, Known
  <2>2. \A r \in DOMAIN run.decisions : store'[r] = <<run.decisions[r]>>
    BY <1>9, StoredIsSome DEF DayInv, RunShape, Known
  <2>3. exit' = exit /\ run' = run
    BY DEF RunUnchanged
  <2>4. ASSUME reply = "ok", NEW r \in DOMAIN wire.results, wire.results[r].status = "recorded"
        PROVE  store'[r] = <<wire.results[r].decision>>
    <3>1. PICK i \in DOMAIN wire.rows : wire.rows[i] = r
      BY <1>1, <2>4 DEF ToSet
    <3>2. i \in 1 .. n /\ r \in RowsOfDay
      BY <1>1, <2>4, <3>1 DEF DayInv, WireShape
    <3>3. Written(r)
      BY <2>4, <3>1, <3>2 DEF Written
    <3> QED BY <1>5, <3>2, <3>3
  <2> QED BY <1>7, <1>10, <2>1, <2>2, <2>3, <2>4 DEF DayInv, Known
<1>13. DailyKnown'
  BY <1>1, <1>7 DEF DayInv, WireShape, DailyKnown, RunUnchanged
<1> QED BY <1>3, <1>6, <1>11, <1>12, <1>13, RunStands DEF DayInv

LEMMA WriteBatchKeeps ==
    ASSUME DayInv, WriteBatch PROVE DayInv'
<1>1. /\ RunUnchanged /\ AllDecided /\ Reply("ok")
      /\ WriteFirst(Len(wire.rows))
  BY DEF WriteBatch
<1>2. Len(wire.rows) \in 0 .. Len(wire.rows)
  BY <1>1 DEF DayInv, WireShape, AllDecided, Received, NoRequest
<1> QED BY <1>1, <1>2, BatchKeeps

LEMMA FailRequestKeeps ==
    ASSUME DayInv, FailRequest PROVE DayInv'
<1>1. RunUnchanged /\ Reply("server")
  BY DEF FailRequest
<1>2. CASE Received("submit") /\ (UNCHANGED store \/ Write(wire.rows[1], Decision(wire.rows[1])))
  BY <1>1, <1>2, SubmitKeeps
<1>3. CASE AllDecided /\ \E n \in 0 .. Len(wire.rows) : WriteFirst(n)
  BY <1>1, <1>3, BatchKeeps
<1> QED BY <1>2, <1>3 DEF FailRequest

LEMMA ReplaceRegistrationKeeps ==
    ASSUME DayInv, ReplaceRegistration PROVE DayInv'
<1>1. UNCHANGED <<mock, day, store, wire, run, exit>>
  BY DEF ReplaceRegistration
<1> QED BY <1>1, DayStutter
-----------------------------------------------------------------------------
(* The run's steps. *)

LEMMA LedgerStands ==
    ASSUME DayInv, LedgerUnchanged, run'.provoked = run.provoked
    PROVE  /\ store' = store /\ mock' = mock /\ RowsOfDay' = RowsOfDay
           /\ BatchLines' = BatchLines /\ \A r : IsException(r)' <=> IsException(r)
BY PlanStands DEF LedgerUnchanged

\* The run ends, with a row in doubt if a daily run may have had one decided
\* that it keeps no decision of.
LEMMA EndKeeps ==
    ASSUME DayInv, LedgerUnchanged, exit' = exit, run.pc # "done",
           run' = [run EXCEPT !.pc = "done", !.stopped = run'.stopped, !.in_doubt = run'.in_doubt,
                              !.decisions = run'.decisions],
           DOMAIN run'.decisions \subseteq RowsOfDay,
           \A r \in DOMAIN run'.decisions : store[r] = <<run'.decisions[r]>>,
           wire' = NoRequest \/ (wire.awaited /\ wire' = [wire EXCEPT !.awaited = FALSE]),
           mock = "daily" =>
             \A r \in RowsOfDay : store[r] # <<>> => r \in DOMAIN run'.decisions \/ r = run'.in_doubt,
           mock = "daily" /\ wire' # NoRequest => wire.rows[1] = run'.in_doubt
    PROVE  DayInv'
<1>1. run' = [pc |-> "done", provoked |-> run.provoked, sent |-> run.sent, todo |-> run.todo,
              lines |-> run.lines, decisions |-> run'.decisions, refused |-> run.refused,
              in_doubt |-> run'.in_doubt, stopped |-> run'.stopped]
  BY DEF DayInv, RunShape
<1>2. /\ store' = store /\ mock' = mock /\ RowsOfDay' = RowsOfDay
      /\ BatchLines' = BatchLines /\ \A r : IsException(r)' <=> IsException(r)
  BY <1>1, LedgerStands
<1>3. DayShape' /\ exit' = "running"
  BY <1>1, <1>2 DEF DayInv, DayShape
<1>4. RunShape'
  BY <1>1, <1>2 DEF DayInv, RunShape, Distinct
<1>5. WireShape'
  <2>1. CASE wire' = NoRequest
    BY <2>1 DEF WireShape
  <2>2. CASE wire.awaited /\ wire' = [wire EXCEPT !.awaited = FALSE]
    <3>1. wire # NoRequest
      BY <2>2 DEF NoRequest
    <3> QED BY <1>1, <1>2, <2>2, <3>1 DEF DayInv, WireShape, Distinct
  <2> QED BY <2>1, <2>2
<1>6. \/ wire' = NoRequest
      \/ /\ wire'.op = wire.op /\ wire'.reply = wire.reply /\ wire'.rows = wire.rows
         /\ wire'.results = wire.results /\ ~wire'.awaited /\ wire # NoRequest
  BY DEF DayInv, WireShape, NoRequest
<1>7. \A r : ~Unsent(r)'
  BY <1>1 DEF Unsent
<1>8. StoreShape'
  BY <1>2, <1>6, <1>7 DEF DayInv, StoreShape, InWire, NoRequest
<1>9. Known'
  BY <1>1, <1>2, <1>3, <1>6 DEF DayInv, Known, NoRequest
<1>10. DailyKnown'
  BY <1>1, <1>2, <1>6 DEF DailyKnown, NoRequest
<1> QED BY <1>3, <1>4, <1>5, <1>8, <1>9, <1>10 DEF DayInv

\* The run goes on to send what is left: the rows of todo are not stored.
LEMMA SubmitsStart ==
    ASSUME DayInv, LedgerUnchanged, UNCHANGED <<wire, exit>>, wire = NoRequest,
           run.pc \in {"check", "batch"}, NEW todo \in Seq(RowsOfDay), Distinct(todo),
           \A n \in DOMAIN todo : Unsent(todo[n]),
           run' = [run EXCEPT !.pc = "submit", !.todo = todo]
    PROVE  DayInv'
<1>1. run' = [pc |-> "submit", provoked |-> run.provoked, sent |-> run.sent, todo |-> todo,
              lines |-> run.lines, decisions |-> run.decisions, refused |-> run.refused,
              in_doubt |-> run.in_doubt, stopped |-> run.stopped]
  BY DEF DayInv, RunShape
<1>2. /\ store' = store /\ mock' = mock /\ RowsOfDay' = RowsOfDay
      /\ BatchLines' = BatchLines /\ \A r : IsException(r)' <=> IsException(r)
  BY <1>1, LedgerStands
<1>3. DayShape' /\ exit' = "running"
  BY <1>1, <1>2 DEF DayInv, DayShape
<1>4. RunShape'
  BY <1>1, <1>2 DEF DayInv, RunShape, Distinct
<1>5. WireShape' /\ \A r : ~InWire(r)'
  BY DEF WireShape, InWire, NoRequest
<1>6. \A r : Unsent(r)' => Unsent(r)
  BY <1>1 DEF Unsent
<1>7. StoreShape'
  BY <1>2, <1>5, <1>6 DEF DayInv, StoreShape
<1>8. Known'
  BY <1>1, <1>2, <1>3 DEF DayInv, Known, NoRequest
<1>9. DailyKnown'
  BY <1>1, <1>2 DEF DayInv, DailyKnown, NoRequest
<1> QED BY <1>3, <1>4, <1>5, <1>7, <1>8, <1>9 DEF DayInv
LEMMA CheckRegistrationKeeps ==
    ASSUME DayInv, CheckRegistration PROVE DayInv'
<1>1. run.pc = "check" /\ LedgerUnchanged /\ UNCHANGED <<wire, exit>>
  BY DEF CheckRegistration
<1>2. wire = NoRequest /\ \A r : Unsent(r)
  BY <1>1 DEF DayInv, WireShape, Unsent
<1>3. CASE run' = StoppedRun(run)
  <2>1. run' = [run EXCEPT !.pc = "done", !.stopped = TRUE, !.in_doubt = run.in_doubt,
                           !.decisions = run.decisions]
    BY <1>3 DEF StoppedRun, Ending, DayInv, RunShape
  <2>5. /\ run'.stopped = TRUE /\ run'.in_doubt = run.in_doubt /\ run'.decisions = run.decisions
    BY <2>1 DEF DayInv, RunShape
  <2>2. \A r \in RowsOfDay : store[r] = <<>>
    BY <1>2 DEF DayInv, StoreShape
  <2>3. /\ DOMAIN run.decisions \subseteq RowsOfDay
        /\ \A r \in DOMAIN run.decisions : store[r] = <<run.decisions[r]>>
    BY DEF DayInv, RunShape, Known
  <2>4. wire' = NoRequest
    BY <1>1, <1>2
  <2> HIDE DEF DayInv
  <2> QED BY <1>1, <2>1, <2>2, <2>3, <2>4, <2>5, EndKeeps
<1>4. CASE mock = "batch" /\ run' = [run EXCEPT !.pc = "batch"]
  <2>1. run' = [pc |-> "batch", provoked |-> run.provoked, sent |-> run.sent, todo |-> run.todo,
                lines |-> run.lines, decisions |-> run.decisions, refused |-> run.refused,
                in_doubt |-> run.in_doubt, stopped |-> run.stopped]
    BY <1>4 DEF DayInv, RunShape
  <2>2. /\ store' = store /\ mock' = mock /\ RowsOfDay' = RowsOfDay /\ exit' = exit
        /\ BatchLines' = BatchLines /\ \A r : IsException(r)' <=> IsException(r)
    BY <1>1, <2>1, LedgerStands
  <2>3. DayShape' /\ RunShape'
    BY <1>4, <2>1, <2>2, <1>1 DEF DayInv, DayShape, RunShape, Distinct
  <2>4. WireShape' /\ \A r : ~InWire(r)'
    BY <1>1, <1>2 DEF WireShape, InWire, NoRequest
  <2>5. StoreShape'
    BY <1>2, <2>2, <2>4 DEF DayInv, StoreShape
  <2>6. Known' /\ DailyKnown'
    BY <1>1, <1>2, <1>4, <2>1, <2>2 DEF DayInv, DayShape, Known, DailyKnown, NoRequest
  <2> QED BY <2>3, <2>4, <2>5, <2>6 DEF DayInv
<1>5. CASE run' = [run EXCEPT !.pc = "submit", !.todo = RowOrder]
  <2>1. RowOrder \in Seq(RowsOfDay) /\ Distinct(RowOrder) /\ DOMAIN RowOrder = RowsOfDay
    <3>1. RowOrder \in [1 .. DaySize -> RowsOfDay]
      BY DEF RowOrder, DayInv, DayShape
    <3> QED BY <3>1, SeqDef, DayConstants DEF RowOrder, Distinct
  <2> QED BY <1>1, <1>2, <1>5, <2>1, SubmitsStart
<1> QED BY <1>3, <1>4, <1>5 DEF CheckRegistration, DayInv, DayShape

LEMMA SendBatchKeeps ==
    ASSUME DayInv, SendBatch PROVE DayInv'
<1>1. /\ run.pc = "batch" /\ LedgerUnchanged /\ exit' = exit /\ wire = NoRequest
      /\ run' = [run EXCEPT !.sent = ChunkEnd] /\ wire' = Request("batch", NextChunk)
      /\ run.sent < Len(BatchLines)
  BY DEF SendBatch
<1>2. RowsOfDay = 1 .. DaySize /\ mock = "batch"
  BY <1>1 DEF DayInv, DayShape, RunShape
<1>3. BatchLines \in Seq(RowsOfDay) /\ Distinct(BatchLines)
  BY <1>2, BatchLinesList
<1>4. ChunkEnd \in run.sent + 1 .. Len(BatchLines) /\ run.sent \in Nat
  BY <1>1, <1>3, DayConstants DEF ChunkEnd, DayInv, RunShape
<1>5. /\ NextChunk \in Seq(RowsOfDay) /\ Len(NextChunk) = ChunkEnd - run.sent
      /\ \A n \in 1 .. Len(NextChunk) : NextChunk[n] = BatchLines[run.sent + n]
  <2>1. /\ NextChunk \in Seq(RowsOfDay)
        /\ Len(NextChunk) = ChunkEnd - (run.sent + 1) + 1
        /\ \A n \in 1 .. ChunkEnd - (run.sent + 1) + 1 :
             NextChunk[n] = BatchLines[(run.sent + 1) + n - 1]
    <3>1. run.sent + 1 \in 1 .. Len(BatchLines) + 1 /\ ChunkEnd \in (run.sent + 1) - 1 .. Len(BatchLines)
      BY <1>3, <1>4
    <3> QED BY <1>3, <3>1, SubSeqProperties DEF NextChunk
  <2> QED BY <1>4, <2>1
<1>6. NextChunk # <<>> /\ Distinct(NextChunk)
  <2>1. NextChunk # <<>>
    BY <1>4, <1>5
  <2>2. \A n \in DOMAIN NextChunk : n \in Int /\ run.sent + n \in DOMAIN BatchLines
    BY <1>3, <1>4, <1>5
  <2>3. \A i, j \in DOMAIN NextChunk : NextChunk[i] = NextChunk[j] => run.sent + i = run.sent + j
    BY <1>3, <1>5, <2>2 DEF Distinct
  <2> QED BY <1>4, <2>1, <2>2, <2>3 DEF Distinct
<1>7. run' = [pc |-> "batch", provoked |-> run.provoked, sent |-> ChunkEnd, todo |-> run.todo,
              lines |-> run.lines, decisions |-> run.decisions, refused |-> run.refused,
              in_doubt |-> run.in_doubt, stopped |-> run.stopped]
  BY <1>1 DEF DayInv, RunShape
<1>8. wire' = [op |-> "batch", rows |-> NextChunk, results |-> [r \in {} |-> NoRule],
               reply |-> "pending", awaited |-> TRUE]
  BY <1>1 DEF Request
<1>9. /\ store' = store /\ mock' = mock /\ RowsOfDay' = RowsOfDay
      /\ BatchLines' = BatchLines /\ \A r : IsException(r)' <=> IsException(r)
  BY <1>1, <1>7, LedgerStands
<1>10. DayShape' /\ RunShape'
  BY <1>1, <1>3, <1>4, <1>7, <1>8, <1>9 DEF DayInv, DayShape, RunShape, Distinct
<1>11. WireShape'
  BY <1>5, <1>6, <1>7, <1>8, <1>9, <1>2 DEF WireShape, Distinct
<1>12. \A r : InWire(r)' => \E n \in DOMAIN BatchLines : run.sent < n /\ n <= ChunkEnd /\ BatchLines[n] = r
  <2> SUFFICES ASSUME NEW r, NEW n \in DOMAIN NextChunk, NextChunk[n] = r
               PROVE  \E k \in DOMAIN BatchLines : run.sent < k /\ k <= ChunkEnd /\ BatchLines[k] = r
    BY <1>8 DEF InWire
  <2>1. run.sent + n \in DOMAIN BatchLines /\ run.sent < run.sent + n /\ run.sent + n <= ChunkEnd
    BY <1>3, <1>4, <1>5
  <2> QED BY <1>5, <2>1
<1>13. \A r : Unsent(r)' => IsException(r) \/ \E n \in DOMAIN BatchLines : n > ChunkEnd /\ BatchLines[n] = r
  BY <1>7, <1>9 DEF Unsent
<1>14. \A r : (Unsent(r)' => Unsent(r)) /\ (InWire(r)' => Unsent(r)) /\ (InWire(r)' /\ Unsent(r)' => IsException(r))
  <2>1. \A r : Unsent(r) <=> IsException(r) \/ \E n \in DOMAIN BatchLines : n > run.sent /\ BatchLines[n] = r
    BY <1>1 DEF Unsent
  <2> QED BY <1>3, <1>4, <1>12, <1>13, <2>1 DEF Distinct
<1>15. StoreShape'
  BY <1>8, <1>9, <1>14 DEF DayInv, StoreShape
<1>16. Known' /\ DailyKnown'
  BY <1>1, <1>2, <1>7, <1>8, <1>9 DEF DayInv, DayShape, Known, DailyKnown
<1> QED BY <1>10, <1>11, <1>15, <1>16 DEF DayInv

LEMMA BatchesDoneKeeps ==
    ASSUME DayInv, BatchesDone PROVE DayInv'
<1> DEFINE S == {r \in RowsOfDay : IsException(r) /\ Rerouted(r)}
<1>1. /\ run.pc = "batch" /\ LedgerUnchanged /\ UNCHANGED <<wire, exit>> /\ wire = NoRequest
      /\ run' = [run EXCEPT !.pc = "submit", !.todo = Ascending(S)]
  BY DEF BatchesDone
<1>2. S \in SUBSET Int /\ IsFiniteSet(S) /\ S \subseteq RowsOfDay
  BY FS_Interval, FS_Subset, DayConstants DEF DayInv, DayShape
<1>3. \A r \in S : Unsent(r)
  BY <1>1 DEF Unsent
<1> HIDE DEF S
<1>4. Ascending(S) \in Seq(S) /\ Distinct(Ascending(S))
  BY <1>2, AscendingLists DEF Distinct
<1>5. Ascending(S) \in Seq(RowsOfDay) /\ \A n \in DOMAIN Ascending(S) : Unsent(Ascending(S)[n])
  <2>1. Ascending(S) \in Seq(RowsOfDay)
    BY <1>2, <1>4, SeqMonotonic
  <2>2. \A n \in DOMAIN Ascending(S) : Ascending(S)[n] \in S
    BY <1>4
  <2> QED BY <1>3, <2>1, <2>2, Zenon
<1> DEFINE todo == Ascending(S)
<1>6. /\ todo \in Seq(RowsOfDay) /\ Distinct(todo) /\ \A n \in DOMAIN todo : Unsent(todo[n])
      /\ run' = [run EXCEPT !.pc = "submit", !.todo = todo]
  BY <1>1, <1>4, <1>5
<1> HIDE DEF todo
<1> QED BY <1>1, <1>6, SubmitsStart
LEMMA SubmitRowKeeps ==
    ASSUME DayInv, SubmitRow PROVE DayInv'
<1> PICK r : r = Head(run.todo)
  OBVIOUS
<1>1. /\ run.pc = "submit" /\ LedgerUnchanged /\ exit' = exit /\ wire = NoRequest
      /\ run' = [run EXCEPT !.todo = Tail(run.todo)] /\ wire' = Request("submit", <<r>>)
      /\ run.todo # <<>>
  BY DEF SubmitRow
<1>2. run.todo \in Seq(RowsOfDay) /\ Distinct(run.todo)
  BY DEF DayInv, RunShape
<1>3. /\ r \in RowsOfDay /\ r = run.todo[1] /\ 1 \in DOMAIN run.todo
      /\ Tail(run.todo) \in Seq(RowsOfDay) /\ Len(Tail(run.todo)) = Len(run.todo) - 1
      /\ \A n \in DOMAIN Tail(run.todo) : n \in Nat /\ n + 1 \in DOMAIN run.todo /\ Tail(run.todo)[n] = run.todo[n + 1]
  BY <1>1, <1>2, HeadTailProperties
<1>4. Distinct(Tail(run.todo)) /\ \A n \in DOMAIN Tail(run.todo) : Tail(run.todo)[n] # r
  <2>1. \A i, j \in DOMAIN Tail(run.todo) : Tail(run.todo)[i] = Tail(run.todo)[j] => i + 1 = j + 1
    BY <1>2, <1>3 DEF Distinct
  <2>2. \A n \in DOMAIN Tail(run.todo) : Tail(run.todo)[n] = r => n + 1 = 1
    BY <1>2, <1>3 DEF Distinct
  <2>3. \A i, j \in DOMAIN Tail(run.todo) : i + 1 = j + 1 => i = j
    BY <1>3
  <2>4. \A n \in DOMAIN Tail(run.todo) : n \in DOMAIN run.todo /\ n + 1 # 1
    BY <1>2, <1>3
  <2> QED BY <2>1, <2>2, <2>3, <2>4 DEF Distinct
<1>5. run' = [pc |-> "submit", provoked |-> run.provoked, sent |-> run.sent,
              todo |-> Tail(run.todo),
              lines |-> run.lines, decisions |-> run.decisions, refused |-> run.refused,
              in_doubt |-> run.in_doubt, stopped |-> run.stopped]
  BY <1>1 DEF DayInv, RunShape
<1>6. wire' = [op |-> "submit", rows |-> <<r>>, results |-> [x \in {} |-> NoRule],
               reply |-> "pending", awaited |-> TRUE]
  BY <1>1 DEF Request
<1>7. /\ store' = store /\ mock' = mock /\ RowsOfDay' = RowsOfDay
      /\ BatchLines' = BatchLines /\ \A x : IsException(x)' <=> IsException(x)
  BY <1>1, <1>5, LedgerStands
<1>8. \A x : Unsent(x) <=> \E n \in DOMAIN run.todo : run.todo[n] = x
  BY <1>1 DEF Unsent
<1>9. \A x : Unsent(x)' <=> \E n \in DOMAIN Tail(run.todo) : Tail(run.todo)[n] = x
  BY <1>5 DEF Unsent
<1>10. Unsent(r) /\ ~Unsent(r)' /\ \A x : Unsent(x)' => Unsent(x)
  <2>1. Unsent(r)
    BY <1>3, <1>8, Zenon
  <2>2. ~Unsent(r)'
    BY <1>4, <1>9, Zenon
  <2>3. ASSUME NEW x, Unsent(x)' PROVE Unsent(x)
    BY <1>3, <1>8, <1>9, <2>3
  <2> QED BY <2>1, <2>2, <2>3
<1>11. \A x : InWire(x)' <=> x = r
  BY <1>6 DEF InWire
<1>12. DayShape' /\ RunShape'
  BY <1>1, <1>3, <1>4, <1>5, <1>6, <1>7 DEF DayInv, DayShape, RunShape, Distinct
<1>13. WireShape'
  <2>1. <<r>> \in Seq(RowsOfDay) /\ Len(<<r>>) = 1 /\ <<r>> # <<>> /\ Distinct(<<r>>)
    BY <1>3 DEF Distinct
  <2> QED BY <1>5, <1>6, <1>7, <2>1 DEF WireShape, Distinct
<1>14. StoreShape'
  BY <1>6, <1>7, <1>10, <1>11 DEF DayInv, StoreShape
<1>15. Known' 
  BY <1>1, <1>5, <1>6, <1>7 DEF DayInv, DayShape, Known
<1>16. DailyKnown'
  BY <1>1, <1>5, <1>6, <1>7 DEF DayInv, DailyKnown, NoRequest
<1> QED BY <1>12, <1>13, <1>14, <1>15, <1>16 DEF DayInv

LEMMA NotSentKeeps ==
    ASSUME DayInv, NotSent PROVE DayInv'
<1>1. /\ run.pc \in {"batch", "submit"} /\ wire = NoRequest /\ run' = StoppedRun(run)
      /\ LedgerUnchanged /\ UNCHANGED <<wire, exit>>
  BY DEF NotSent
<1>2. /\ run' = [run EXCEPT !.pc = "done", !.stopped = TRUE, !.in_doubt = run.in_doubt,
                            !.decisions = run.decisions]
      /\ run'.stopped = TRUE /\ run'.in_doubt = run.in_doubt /\ run'.decisions = run.decisions
  BY <1>1 DEF StoppedRun, Ending, DayInv, RunShape
<1>3. /\ DOMAIN run.decisions \subseteq RowsOfDay
      /\ \A r \in DOMAIN run.decisions : store[r] = <<run.decisions[r]>>
  BY DEF DayInv, RunShape, Known
<1>4. mock = "daily" => \A r \in RowsOfDay : store[r] # <<>> => r \in DOMAIN run.decisions \/ r = run.in_doubt
  BY <1>1 DEF DayInv, DailyKnown, NoRequest
<1>5. wire' = NoRequest /\ run.pc # "done" /\ exit' = exit
  BY <1>1
<1> QED BY <1>1, <1>2, <1>3, <1>4, <1>5, EndKeeps

LEMMA SubmitsDoneKeeps ==
    ASSUME DayInv, SubmitsDone PROVE DayInv'
<1>1. /\ run.pc = "submit" /\ wire = NoRequest /\ run' = Ending(run)
      /\ LedgerUnchanged /\ UNCHANGED <<wire, exit>>
  BY DEF SubmitsDone
<1>2. /\ run' = [run EXCEPT !.pc = "done", !.stopped = run.stopped, !.in_doubt = run.in_doubt,
                            !.decisions = run.decisions]
      /\ run'.stopped = run.stopped /\ run'.in_doubt = run.in_doubt /\ run'.decisions = run.decisions
  BY <1>1 DEF Ending, DayInv, RunShape
<1>3. /\ DOMAIN run.decisions \subseteq RowsOfDay
      /\ \A r \in DOMAIN run.decisions : store[r] = <<run.decisions[r]>>
  BY DEF DayInv, RunShape, Known
<1>4. mock = "daily" => \A r \in RowsOfDay : store[r] # <<>> => r \in DOMAIN run.decisions \/ r = run.in_doubt
  BY <1>1 DEF DayInv, DailyKnown, NoRequest
<1>5. wire' = NoRequest /\ run.pc # "done" /\ exit' = exit
  BY <1>1
<1> QED BY <1>1, <1>2, <1>3, <1>4, <1>5, EndKeeps
\* A step by which the run is answered and goes on: what it learns is so, and
\* nothing is sent.
LEMMA AnswerKeeps ==
    ASSUME DayInv, LedgerUnchanged, exit' = exit,
           run.pc \in {"batch", "submit", "bundle"}, wire # NoRequest, wire' = NoRequest,
           run' = [run EXCEPT !.pc = run'.pc, !.lines = run'.lines, !.decisions = run'.decisions,
                              !.refused = run'.refused],
           run'.pc = run.pc \/ (run.pc = "bundle" /\ run'.pc = "submit"),
           run.pc # "bundle" \/ run'.pc = "submit",
           DOMAIN run'.lines \subseteq RowsOfDay, DOMAIN run'.decisions \subseteq RowsOfDay,
           \A r \in DOMAIN run'.lines : run'.lines[r].status = "recorded" => store[r] = <<run'.lines[r].decision>>,
           \A r \in DOMAIN run'.decisions : store[r] = <<run'.decisions[r]>>,
           mock = "daily" =>
             \A r \in RowsOfDay : store[r] # <<>> => r \in DOMAIN run'.decisions
    PROVE  DayInv'
<1>1. run' = [pc |-> run'.pc, provoked |-> run.provoked, sent |-> run.sent, todo |-> run.todo,
              lines |-> run'.lines, decisions |-> run'.decisions, refused |-> run'.refused,
              in_doubt |-> run.in_doubt, stopped |-> run.stopped]
  BY DEF DayInv, RunShape
<1>2. /\ store' = store /\ mock' = mock /\ RowsOfDay' = RowsOfDay
      /\ BatchLines' = BatchLines /\ \A r : IsException(r)' <=> IsException(r)
  BY <1>1, LedgerStands
<1>3. DayShape' /\ exit' = "running"
  BY <1>1, <1>2 DEF DayInv, DayShape
<1>4. RunShape'
  BY <1>1, <1>2 DEF DayInv, RunShape, Distinct
<1>5. WireShape' /\ \A r : ~InWire(r)'
  BY DEF WireShape, InWire, NoRequest
<1>6. \A r : Unsent(r)' => Unsent(r)
  BY <1>1, <1>2 DEF Unsent
<1>7. StoreShape'
  BY <1>2, <1>5, <1>6 DEF DayInv, StoreShape
<1>8. Known'
  BY <1>1, <1>2, <1>3 DEF DayInv, Known, NoRequest
<1>9. DailyKnown'
  BY <1>1, <1>2 DEF DailyKnown, NoRequest
<1> QED BY <1>3, <1>4, <1>5, <1>7, <1>8, <1>9 DEF DayInv

\* The kept decisions are stored.
LEMMA KeptIsStored ==
    ASSUME DayInv
    PROVE  /\ DOMAIN run.decisions \subseteq RowsOfDay /\ DOMAIN run.lines \subseteq RowsOfDay
           /\ \A r \in DOMAIN run.decisions : store[r] = <<run.decisions[r]>>
           /\ \A r \in DOMAIN run.lines : run.lines[r].status = "recorded" => store[r] = <<run.lines[r].decision>>
BY DEF DayInv, RunShape, Known

LEMMA ReceiveBatchKeeps ==
    ASSUME DayInv, ReceiveBatch PROVE DayInv'
<1>1. /\ wire.op = "batch" /\ wire.awaited /\ wire.reply # "pending" /\ wire # NoRequest
      /\ wire' = NoRequest /\ LedgerUnchanged /\ exit' = exit
  BY DEF ReceiveBatch, Answered, NoRequest
<1>2. run.pc = "batch" /\ mock # "daily"
  BY <1>1 DEF DayInv, WireShape
<1>3. CASE wire.reply = "ok"
  <2> DEFINE lines == Updated(run.lines, wire.results)
  <2>1. run' = [run EXCEPT !.lines = lines]
    BY <1>3 DEF ReceiveBatch
  <2>2. /\ DOMAIN lines = DOMAIN run.lines \cup DOMAIN wire.results
        /\ \A r \in DOMAIN lines :
             lines[r] = IF r \in DOMAIN wire.results THEN wire.results[r] ELSE run.lines[r]
    BY DEF Updated
  <2> HIDE DEF lines
  <2>3. DOMAIN wire.results \subseteq RowsOfDay
    BY <1>1 DEF DayInv, WireShape, ToSet
  <2>4. \A r \in DOMAIN wire.results : wire.results[r].status = "recorded" => store[r] = <<wire.results[r].decision>>
    BY <1>1, <1>3 DEF DayInv, Known
  <2>5. \A r \in DOMAIN lines : lines[r].status = "recorded" => store[r] = <<lines[r].decision>>
    BY <2>2, <2>4, KeptIsStored
  <2>6. /\ run' = [run EXCEPT !.pc = run'.pc, !.lines = run'.lines, !.decisions = run'.decisions,
                              !.refused = run'.refused]
        /\ run'.pc = run.pc /\ run'.lines = lines /\ run'.decisions = run.decisions
    BY <2>1 DEF DayInv, RunShape
  <2> QED BY <1>1, <1>2, <2>2, <2>3, <2>5, <2>6, KeptIsStored, AnswerKeeps
<1>4. CASE wire.reply # "ok"
  <2>1. /\ run' = [run EXCEPT !.pc = "done", !.stopped = run'.stopped, !.in_doubt = run'.in_doubt,
                              !.decisions = run'.decisions]
        /\ run'.decisions = run.decisions
    BY <1>4 DEF ReceiveBatch, StoppedRun, Ending, DayInv, RunShape
  <2> QED BY <1>1, <1>2, <2>1, KeptIsStored, EndKeeps
<1> QED BY <1>3, <1>4

LEMMA ReceiveReceiptKeeps ==
    ASSUME DayInv, ReceiveReceipt PROVE DayInv'
<1>1. /\ wire.op = "submit" /\ wire.awaited /\ wire.reply = "ok" /\ wire # NoRequest
      /\ wire' = wire /\ LedgerUnchanged /\ exit' = exit
      /\ run' = [run EXCEPT !.pc = "bundle"]
  BY DEF ReceiveReceipt, Answered, NoRequest
<1>2. run.pc \in {"submit", "bundle"}
  BY <1>1 DEF DayInv, WireShape
<1>3. run' = [pc |-> "bundle", provoked |-> run.provoked, sent |-> run.sent, todo |-> run.todo,
              lines |-> run.lines, decisions |-> run.decisions, refused |-> run.refused,
              in_doubt |-> run.in_doubt, stopped |-> run.stopped]
  BY <1>1 DEF DayInv, RunShape
<1>4. /\ store' = store /\ mock' = mock /\ RowsOfDay' = RowsOfDay
      /\ BatchLines' = BatchLines /\ \A r : IsException(r)' <=> IsException(r)
  BY <1>1, <1>3, LedgerStands
<1>5. DayShape' /\ RunShape' /\ WireShape'
  <2>1. DayShape'
    BY <1>1, <1>2, <1>3, <1>4 DEF DayInv, DayShape
  <2>2. RunShape'
    BY <1>1, <1>2, <1>3, <1>4 DEF DayInv, RunShape, Distinct
  <2>3. WireShape'
    BY <1>1, <1>2, <1>3, <1>4 DEF DayInv, WireShape, Distinct
  <2> QED BY <2>1, <2>2, <2>3
<1>6. \A r : (Unsent(r)' <=> Unsent(r)) /\ (InWire(r)' <=> InWire(r))
  BY <1>1, <1>2, <1>3 DEF Unsent, InWire
<1>7. StoreShape'
  BY <1>1, <1>4, <1>6 DEF DayInv, StoreShape
<1>8. Known'
  BY <1>1, <1>2, <1>3, <1>4 DEF DayInv, DayShape, Known
<1>9. DailyKnown'
  BY <1>1, <1>3, <1>4, <1>6 DEF DayInv, DailyKnown
<1> QED BY <1>5, <1>7, <1>8, <1>9 DEF DayInv

\* The row of a submission the run waits for is the only one that may be
\* stored and not be known to the run.
LEMMA AwaitedRow ==
    ASSUME DayInv, wire.op = "submit", wire.awaited
    PROVE  /\ wire # NoRequest /\ run.pc \in {"submit", "bundle"}
           /\ InRequest \in RowsOfDay /\ InWire(InRequest)
           /\ wire.reply = "ok" => store[InRequest] = <<Last(store[InRequest])>>
           /\ wire.reply \in {"key", "refused"} => store[InRequest] = <<>>
           /\ mock = "daily" =>
                \A r \in RowsOfDay : store[r] # <<>> => r \in DOMAIN run.decisions \/ r = InRequest
<1>1. wire # NoRequest
  BY DEF NoRequest
<1>2. run.pc \in {"submit", "bundle"} /\ wire.rows \in Seq(RowsOfDay) /\ Len(wire.rows) = 1
  BY <1>1 DEF DayInv, WireShape
<1>3. InRequest \in RowsOfDay /\ InWire(InRequest) /\ \A r : InWire(r) => r = InRequest
  BY <1>2 DEF InRequest, InWire
<1>4. wire.reply \in {"key", "refused"} => store[InRequest] = <<>>
  BY <1>3 DEF DayInv, StoreShape
<1>5. ASSUME wire.reply = "ok" PROVE store[InRequest] = <<Last(store[InRequest])>>
  <2>1. store[InRequest] # <<>>
    BY <1>5 DEF DayInv, Known, InRequest
  <2>2. store[InRequest] = <<store[InRequest][1]>>
    BY <1>3, <2>1 DEF DayInv, StoreShape
  <2>3. \A d : Last(<<d>>) = d
    BY DEF Last
  <2> QED BY <2>2, <2>3
<1>6. mock = "daily" =>
        \A r \in RowsOfDay : store[r] # <<>> => r \in DOMAIN run.decisions \/ r = InRequest
  BY <1>2, <1>3 DEF DayInv, DayShape, RunShape, DailyKnown
<1> QED BY <1>1, <1>2, <1>3, <1>4, <1>5, <1>6

LEMMA ReceiveProblemKeeps ==
    ASSUME DayInv, ReceiveProblem PROVE DayInv'
<1>1. /\ wire.op = "submit" /\ wire.awaited /\ wire.reply # "pending" /\ wire.reply # "ok"
      /\ wire' = NoRequest /\ LedgerUnchanged /\ exit' = exit
  BY DEF ReceiveProblem, Answered
<1>2. /\ wire # NoRequest /\ wire.reply \in {"key", "refused", "server"} /\ mock \in {"batch", "daily"}
      /\ run.pc = "submit"
  BY <1>1, AwaitedRow DEF DayInv, WireShape, DayShape
<1>3. CASE mock = "batch" \/ wire.reply = "refused"
  <2>1. run' = [run EXCEPT !.refused = run.refused \cup {InRequest}]
    BY <1>1, <1>2, <1>3 DEF ReceiveProblem
  <2>2. /\ run' = [run EXCEPT !.pc = run'.pc, !.lines = run'.lines, !.decisions = run'.decisions,
                              !.refused = run'.refused]
        /\ run'.pc = run.pc /\ run'.lines = run.lines /\ run'.decisions = run.decisions
    BY <2>1 DEF DayInv, RunShape
  <2>3. mock = "daily" => \A r \in RowsOfDay : store[r] # <<>> => r \in DOMAIN run.decisions
    BY <1>1, <1>2, <1>3, AwaitedRow
  <2> QED BY <1>1, <1>2, <2>2, <2>3, KeptIsStored, AnswerKeeps
<1>4. CASE mock = "daily" /\ wire.reply = "key"
  <2>1. /\ run' = [run EXCEPT !.pc = "done", !.stopped = run'.stopped, !.in_doubt = run'.in_doubt,
                              !.decisions = run'.decisions]
        /\ run'.decisions = run.decisions
    BY <1>4 DEF ReceiveProblem, StoppedRun, Ending, DayInv, RunShape
  <2>2. \A r \in RowsOfDay : store[r] # <<>> => r \in DOMAIN run.decisions
    BY <1>1, <1>4, AwaitedRow
  <2> QED BY <1>1, <1>2, <2>1, <2>2, KeptIsStored, EndKeeps
<1>5. CASE mock = "daily" /\ wire.reply = "server"
  <2>1. /\ run' = [run EXCEPT !.pc = "done", !.stopped = run'.stopped, !.in_doubt = run'.in_doubt,
                              !.decisions = run'.decisions]
        /\ run'.decisions = run.decisions /\ run'.in_doubt = InRequest
    BY <1>5 DEF ReceiveProblem, StoppedRun, Ending, DayInv, RunShape
  <2>2. \A r \in RowsOfDay : store[r] # <<>> => r \in DOMAIN run.decisions \/ r = InRequest
    BY <1>1, <1>5, AwaitedRow
  <2> QED BY <1>1, <1>2, <2>1, <2>2, KeptIsStored, EndKeeps
<1> QED BY <1>2, <1>3, <1>4, <1>5
\* What the run keeps of a row when it has read the bundle, or, the daily mock
\* only, when it could not.
LEMMA BundleIsStored ==
    ASSUME DayInv, run.pc = "bundle", NEW decisions,
           decisions = Updated(run.decisions, BundleInRequest)
    PROVE  /\ wire # NoRequest /\ DOMAIN decisions \subseteq RowsOfDay
           /\ \A r \in DOMAIN decisions : store[r] = <<decisions[r]>>
           /\ mock = "daily" => \A r \in RowsOfDay : store[r] # <<>> => r \in DOMAIN decisions
<1>1. wire # NoRequest
  BY DEF DayInv, DayShape
<1>2. wire.op = "submit" /\ wire.awaited /\ wire.reply = "ok"
  BY <1>1 DEF DayInv, WireShape
<1>3. /\ DOMAIN decisions = DOMAIN run.decisions \cup {InRequest}
      /\ decisions[InRequest] = Last(store[InRequest])
      /\ \A r \in DOMAIN decisions : r # InRequest => decisions[r] = run.decisions[r]
  BY DEF Updated, BundleInRequest
<1> QED BY <1>1, <1>2, <1>3, AwaitedRow, KeptIsStored

LEMMA ReadBundleKeeps ==
    ASSUME DayInv, ReadBundle PROVE DayInv'
<1> DEFINE decisions == Updated(run.decisions, BundleInRequest)
<1>1. /\ run.pc = "bundle" /\ wire' = NoRequest /\ LedgerUnchanged /\ exit' = exit
      /\ run' = [run EXCEPT !.pc = "submit", !.decisions = decisions]
  BY DEF ReadBundle
<1>2. /\ wire # NoRequest /\ DOMAIN decisions \subseteq RowsOfDay
      /\ \A r \in DOMAIN decisions : store[r] = <<decisions[r]>>
      /\ mock = "daily" => \A r \in RowsOfDay : store[r] # <<>> => r \in DOMAIN decisions
  BY <1>1, BundleIsStored
<1> HIDE DEF decisions
<1>3. /\ run' = [run EXCEPT !.pc = run'.pc, !.lines = run'.lines, !.decisions = run'.decisions,
                            !.refused = run'.refused]
      /\ run'.pc = "submit" /\ run'.lines = run.lines /\ run'.decisions = decisions
  BY <1>1 DEF DayInv, RunShape
<1> QED BY <1>1, <1>2, <1>3, KeptIsStored, AnswerKeeps

LEMMA FailReadBundleKeeps ==
    ASSUME DayInv, FailReadBundle PROVE DayInv'
<1> DEFINE decisions == Updated(run.decisions, BundleInRequest)
<1>1. run.pc = "bundle" /\ wire' = NoRequest /\ LedgerUnchanged /\ exit' = exit
  BY DEF FailReadBundle
<1>2. /\ wire # NoRequest /\ DOMAIN decisions \subseteq RowsOfDay
      /\ \A r \in DOMAIN decisions : store[r] = <<decisions[r]>>
      /\ mock = "daily" => \A r \in RowsOfDay : store[r] # <<>> => r \in DOMAIN decisions
  BY <1>1, BundleIsStored
<1>3. CASE mock = "batch"
  <2>1. /\ run' = [run EXCEPT !.pc = "done", !.stopped = run'.stopped, !.in_doubt = run'.in_doubt,
                              !.decisions = run'.decisions]
        /\ run'.decisions = run.decisions
    BY <1>3 DEF FailReadBundle, StoppedRun, Ending, DayInv, RunShape
  <2> QED BY <1>1, <1>3, <2>1, KeptIsStored, EndKeeps
<1>4. CASE mock # "batch"
  <2>1. run' = [StoppedRun(run) EXCEPT !.decisions = decisions]
    <3>1. StoppedRun(run).decisions = run.decisions
      BY DEF StoppedRun, Ending, DayInv, RunShape
    <3> QED BY <1>4, <3>1 DEF FailReadBundle
  <2> HIDE DEF decisions
  <2>2. /\ run' = [run EXCEPT !.pc = "done", !.stopped = run'.stopped, !.in_doubt = run'.in_doubt,
                              !.decisions = run'.decisions]
        /\ run'.decisions = decisions
    BY <2>1 DEF StoppedRun, Ending, DayInv, RunShape
  <2> QED BY <1>1, <1>2, <2>2, EndKeeps
<1> QED BY <1>3, <1>4

LEMMA LoseAnswerKeeps ==
    ASSUME DayInv, LoseAnswer PROVE DayInv'
<1>1. /\ wire.awaited /\ LedgerUnchanged /\ exit' = exit /\ wire # NoRequest
      /\ wire' = [wire EXCEPT !.awaited = FALSE]
      /\ run' = IF mock = "daily" THEN [StoppedRun(run) EXCEPT !.in_doubt = InRequest]
                ELSE StoppedRun(run)
  BY DEF LoseAnswer, NoRequest
<1>2. /\ run' = [run EXCEPT !.pc = "done", !.stopped = run'.stopped, !.in_doubt = run'.in_doubt,
                            !.decisions = run'.decisions]
      /\ run'.decisions = run.decisions /\ (mock = "daily" => run'.in_doubt = InRequest)
  BY <1>1 DEF StoppedRun, Ending, DayInv, RunShape
<1>3. run.pc # "done"
  BY <1>1 DEF DayInv, WireShape
<1>4. mock = "daily" => wire.op = "submit"
  BY <1>1 DEF DayInv, WireShape
<1>5. mock = "daily" =>
        \A r \in RowsOfDay : store[r] # <<>> => r \in DOMAIN run.decisions \/ r = InRequest
  BY <1>1, <1>4, AwaitedRow
<1>6. mock = "daily" => wire.rows[1] = run'.in_doubt
  BY <1>2 DEF InRequest
<1>7. \A r \in DOMAIN run'.decisions : store[r] = <<run'.decisions[r]>>
  BY <1>2, KeptIsStored
<1>8. DOMAIN run'.decisions \subseteq RowsOfDay
  BY <1>2, KeptIsStored
<1>9. mock = "daily" =>
        \A r \in RowsOfDay : store[r] # <<>> => r \in DOMAIN run'.decisions \/ r = run'.in_doubt
  BY <1>2, <1>5
<1> QED BY <1>1, <1>2, <1>3, <1>6, <1>7, <1>8, <1>9, EndKeeps

LEMMA ExitKeeps ==
    ASSUME DayInv, Exit PROVE DayInv'
<1>1. /\ run.pc = "done" /\ exit' \in {"0", "1"} /\ (exit' = "0" => undecided = {})
      /\ UNCHANGED <<mock, day, store, wire, run>>
  BY DEF Exit, LedgerUnchanged
<1>2. /\ RowsOfDay' = RowsOfDay /\ BatchLines' = BatchLines
      /\ \A r : IsException(r)' <=> IsException(r)
  BY <1>1, PlanStands
<1>3. \A r : (Unsent(r)' <=> Unsent(r)) /\ (InWire(r)' <=> InWire(r))
  BY <1>1, <1>2 DEF Unsent, InWire
<1>4. undecided' = undecided
  BY <1>1, <1>2 DEF undecided, decided, RecordedRows
<1>5. DayShape' /\ RunShape' /\ WireShape'
  BY <1>1, <1>2 DEF DayInv, DayShape, RunShape, WireShape, Distinct
<1>6. StoreShape' /\ DailyKnown'
  BY <1>1, <1>2, <1>3 DEF DayInv, StoreShape, DailyKnown
<1>7. Known'
  BY <1>1, <1>4 DEF DayInv, Known
<1> QED BY <1>5, <1>6, <1>7 DEF DayInv

-----------------------------------------------------------------------------
(* The theorems. *)

LEMMA DayStep ==
    ASSUME DayInv, [DayNext]_dayVars PROVE DayInv'
<1>1. CASE DayNext
  BY <1>1, RefuseKeyKeeps, CreateDecisionKeeps, DecideLineKeeps, WriteBatchKeeps, FailRequestKeeps,
     ReplaceRegistrationKeeps, CheckRegistrationKeeps, SendBatchKeeps, BatchesDoneKeeps,
     SubmitRowKeeps, NotSentKeeps, ReceiveBatchKeeps, ReceiveReceiptKeeps, ReceiveProblemKeeps,
     ReadBundleKeeps, FailReadBundleKeeps, LoseAnswerKeeps, SubmitsDoneKeeps, ExitKeeps
  DEF DayNext
<1>2. CASE UNCHANGED dayVars
  BY <1>2, DayStutter DEF dayVars
<1> QED BY <1>1, <1>2

\* The rows yet to be sent, the request in flight and what the run was
\* answered, against the store, in every state.
THEOREM DayInvariance == DaySpec => []DayInv
<1>1. DayInit => DayInv
  BY DayInitInv
<1>2. DayInv /\ [DayNext]_dayVars => DayInv'
  BY DayStep
<1> QED BY <1>1, <1>2, PTL DEF DaySpec

\* No row of a day is decided twice: the client never retries, an exception
\* rejected in a batch is submitted once, and a request that failed part way
\* is not sent again (client.py _request, batch.py _send).
THEOREM RowsDecidedOnce == DaySpec => []OneDecisionPerRow
<1>1. DayInv => OneDecisionPerRow
  <2> SUFFICES ASSUME DayInv, NEW r \in RowsOfDay PROVE Len(store[r]) <= 1
    BY DEF OneDecisionPerRow
  <2>1. store[r] = <<>> \/ store[r] = <<store[r][1]>>
    BY DEF DayInv, StoreShape
  <2>2. Len(<<>>) = 0 /\ \A d : Len(<<d>>) = 1
    OBVIOUS
  <2>3. Len(store[r]) \in {0, 1}
    BY <2>1, <2>2
  <2>4. \A n \in {0, 1} : n <= 1
    OBVIOUS
  <2> QED BY <2>3, <2>4, Zenon
<1> QED BY <1>1, DayInvariance, PTL

\* What a run reports is so, and exit code 0 says that every row was decided,
\* and once (DayRun.decided, DayRun.action_of, the exit code of _run).
THEOREM ReportsAreTrue == DaySpec => []ReportIsTrue
<1>1. DayInv => ReportIsTrue
  <2> SUFFICES ASSUME DayInv PROVE ReportIsTrue
    OBVIOUS
  <2>1. \A d : <<d>> # <<>> /\ Last(<<d>>) = d /\ Len(<<d>>) = 1
    BY DEF Last
  <2>2. ASSUME NEW r \in decided PROVE store[r] # <<>> /\ Last(store[r]).action = action_of(r)
    <3>1. CASE r \in RecordedRows
      <4>1. store[r] = <<run.lines[r].decision>>
        BY <3>1, KeptIsStored DEF RecordedRows
      <4>2. store[r] # <<>> /\ Last(store[r]) = run.lines[r].decision
        BY <2>1, <4>1
      <4> QED BY <3>1, <4>2 DEF action_of
    <3>2. CASE r \notin RecordedRows
      <4>1. r \in DOMAIN run.decisions
        BY <2>2, <3>2 DEF decided
      <4>2. store[r] = <<run.decisions[r]>>
        BY <4>1, KeptIsStored
      <4>3. store[r] # <<>> /\ Last(store[r]) = run.decisions[r]
        BY <2>1, <4>2
      <4> QED BY <3>2, <4>3 DEF action_of
    <3> QED BY <3>1, <3>2
  <2>3. ASSUME exit = "0", NEW r \in RowsOfDay PROVE Len(store[r]) = 1
    <3>1. r \in decided
      BY <2>3 DEF DayInv, Known, undecided
    <3>2. store[r] # <<>>
      BY <2>2, <3>1
    <3>3. store[r] = <<store[r][1]>>
      BY <3>2 DEF DayInv, StoreShape
    <3> QED BY <2>1, <3>3
  <2> QED BY <2>2, <2>3 DEF ReportIsTrue
<1> QED BY <1>1, DayInvariance, PTL

\* When a daily run has ended, every row the ledger decided, or may still be
\* deciding, is a decision it reports or the row in doubt (daily.py _send,
\* receipt_outcome).
THEOREM OperatorIsTold == DaySpec => []OperatorKnows
<1>1. DayInv => OperatorKnows
  <2> SUFFICES ASSUME DayInv, mock = "daily", run.pc = "done", NEW r \in RowsOfDay, store[r] # <<>>
               PROVE  r \in DOMAIN run.decisions \cup {run.in_doubt}
    BY DEF OperatorKnows
  <2>1. ~wire.awaited
    BY DEF DayInv, WireShape, NoRequest
  <2> QED BY <2>1 DEF DayInv, DailyKnown
<1> QED BY <1>1, DayInvariance, PTL
-----------------------------------------------------------------------------
(* A record keeps the action its rule justifies. *)

\* The property of one stored decision.
Keeps(r, d) ==
    (d.version = "mine" /\ d.failure = "none") =>
      /\ day[r].mode = "record" => d.holds /\ d.action = day[r].proposed
      /\ (day[r].mode = "gate" /\ mock = "daily") => d.matched # {}

MockRows == IF mock = "batch" THEN BatchRows ELSE DailyRows

RecordsInv ==
    /\ rulesets \in Directories /\ Loadable(rulesets)
    /\ \A r \in RowsOfDay : day[r].evidence \in MockRows /\ day[r] = build_submission(day[r].evidence)
    /\ \A r \in RowsOfDay : \A i \in DOMAIN store[r] : Keeps(r, store[r][i])
    /\ \A r \in DOMAIN wire.results :
         wire.results[r].status = "recorded" => Keeps(r, wire.results[r].decision)

LEMMA SeverityIs ==
    /\ severity \in [DecisionAction -> 0 .. 3]
    /\ \A a, b \in DecisionAction : severity[a] = severity[b] => a = b
BY DEF severity, DecisionAction

\* The strictest of the rules that hold: it holds, and none is stricter.
LEMMA MatchingRule ==
    ASSUME NEW rules, NEW row, \A rule \in rules : rule.action \in DecisionAction,
           HoldingRules(rules, row) # {}
    PROVE  /\ matching_bypass_rule(rules, row) \in rules
           /\ evaluate_bypass(matching_bypass_rule(rules, row), row).holds
           /\ \A other \in rules : evaluate_bypass(other, row).holds =>
                AtLeast(matching_bypass_rule(rules, row).action, other.action)
<1> DEFINE H == HoldingRules(rules, row)
           S == {severity[rule.action] : rule \in H}
<1>1. H \subseteq rules /\ \A rule \in rules : rule \in H <=> evaluate_bypass(rule, row).holds
  BY DEF HoldingRules
<1> HIDE DEF H
<1>2. \A rule \in H : severity[rule.action] \in 0 .. 3
  BY <1>1, SeverityIs
<1>3. {n + 1 : n \in S} \in SUBSET (1 .. 4) /\ {n + 1 : n \in S} # {}
  BY <1>2 DEF H
<1>4. PICK m \in {n + 1 : n \in S} : \A k \in {n + 1 : n \in S} : m >= k
  BY <1>3, GreatestOf
<1>5. PICK rule \in H : m = severity[rule.action] + 1
  BY <1>4
<1>6. \A other \in H : AtLeast(rule.action, other.action)
  <2> SUFFICES ASSUME NEW other \in H PROVE severity[rule.action] >= severity[other.action]
    BY DEF AtLeast
  <2>1. severity[other.action] + 1 \in {n + 1 : n \in S}
    OBVIOUS
  <2>2. severity[rule.action] + 1 >= severity[other.action] + 1
    BY <1>4, <1>5, <2>1
  <2>3. severity[rule.action] \in Int /\ severity[other.action] \in Int
    BY <1>2
  <2> QED BY <2>2, <2>3
<1>7. matching_bypass_rule(rules, row) = CHOOSE x \in H : \A other \in H : AtLeast(x.action, other.action)
  BY DEF matching_bypass_rule, H
<1>8. /\ matching_bypass_rule(rules, row) \in H
      /\ \A other \in H : AtLeast(matching_bypass_rule(rules, row).action, other.action)
  BY <1>6, <1>7
<1> QED BY <1>1, <1>8
LEMMA RegisteredOnce ==
    ASSUME mock \in {"batch", "daily"}
    PROVE  /\ \A x, y \in RegisteredRules(MockRegistration) : x.rule_id = y.rule_id => x = y
           /\ \A x \in RegisteredRules(MockRegistration) : x.action \in DecisionAction
<1>1. /\ \A x, y \in MockRegistration.rules : x.rule_id = y.rule_id => x = y
      /\ \A x \in MockRegistration.rules : x.action \in DecisionAction
  BY DEF MockRegistration, MOCK_BATCH_REGISTRATION, MOCK_DAILY_REGISTRATION, BypassRule,
     WITHIN_TOLERANCE_RULE, DecisionAction
<1>2. \A x \in RegisteredRules(MockRegistration) :
        \E rule \in MockRegistration.rules :
          x = Registered(rule) /\ x.rule_id = rule.rule_id /\ x.action = rule.action
  BY DEF RegisteredRules, Registered
<1> QED BY <1>1, <1>2

\* What a record cites and proposes, and what its check finds.
LEMMA CitationHolds ==
    ASSUME mock \in {"batch", "daily"}, served = "mine", NEW r \in RowsOfDay,
           day[r] = build_submission(day[r].evidence), day[r].mode = "record"
    PROVE  LET cited == CitedCheck(r)
               rules == RegisteredRules(ServedRegistration)
           IN  /\ cited.holds /\ cited.rule \in rules /\ cited.rule.action = day[r].proposed
               /\ day[r].proposed \in DecisionAction
               /\ StricterActions(cited, evaluate_competing_rules(rules, cited.rule, day[r].evidence)) = {}
<1> DEFINE row == day[r].evidence
           rules == RegisteredRules(MockRegistration)
           m == matching_bypass_rule(rules, row)
<1>1. ServedRegistration = MockRegistration
  BY DEF ServedRegistration
<1>2. /\ \A x, y \in rules : x.rule_id = y.rule_id => x = y
      /\ \A x \in rules : x.action \in DecisionAction
  BY RegisteredOnce
<1>3. HoldingRules(rules, row) # {} /\ day[r].proposed = m.action /\ day[r].cites = m.rule_id
  BY DEF build_submission
<1> HIDE DEF row, rules
<1>4. /\ m \in rules /\ evaluate_bypass(m, row).holds
      /\ \A other \in rules : evaluate_bypass(other, row).holds => AtLeast(m.action, other.action)
  BY <1>2, <1>3, MatchingRule
<1> HIDE DEF m
<1>5. (CHOOSE rule \in rules : rule.rule_id = day[r].cites) = m
  BY <1>2, <1>3, <1>4
<1>6. CitedCheck(r) = evaluate_bypass(m, row)
  BY <1>1, <1>5 DEF CitedCheck, row, rules
<1>7. CitedCheck(r).rule = m /\ CitedCheck(r).holds
  BY <1>4, <1>6 DEF evaluate_bypass
<1>8. StricterActions(CitedCheck(r), evaluate_competing_rules(rules, m, row)) = {}
  <2>1. \A c \in evaluate_competing_rules(rules, m, row) :
          \E other \in rules : c = evaluate_bypass(other, row) /\ c.rule = other
    BY DEF evaluate_competing_rules, evaluate_bypass
  <2>2. \A c \in evaluate_competing_rules(rules, m, row) : c.holds => AtLeast(m.action, c.rule.action)
    BY <1>4, <2>1
  <2> QED BY <1>7, <2>2 DEF StricterActions
<1> QED BY <1>1, <1>2, <1>3, <1>4, <1>7, <1>8 DEF row, rules

\* A record whose mandatory gates say nothing stricter keeps its action.
LEMMA RecordActs ==
    ASSUME NEW submission, submission.mode = "record", submission.proposed \in DecisionAction,
           NEW records, NEW registration, NEW cited, NEW competing, cited.holds,
           StricterActions(cited, competing) = {},
           ActionsOf(records, Mandatory(records)) \subseteq {submission.proposed}
    PROVE  resolve_decision(submission, records, registration, cited, competing).action = submission.proposed
<1>1. decision_level(submission, records, registration, cited, competing).actions = {}
  BY DEF decision_level, bypass_rules, Contribution
<1>2. Candidates(submission.proposed, ActionsOf(records, Mandatory(records)) \cup {}) = {submission.proposed}
  BY DEF Candidates, NoAction, DecisionAction
<1>3. Strictest({submission.proposed}) = submission.proposed
  <2>1. AtLeast(submission.proposed, submission.proposed)
    BY SeverityIs DEF AtLeast
  <2> QED BY <2>1 DEF Strictest
<1> QED BY <1>1, <1>2, <1>3 DEF resolve_decision, most_restrictive, Fired
\* A drift against a threshold, through the predicate language.
LEMMA DriftCompares ==
    ASSUME NEW row \in DailyRows, NEW op \in {"lt", "ge"}, NEW threshold \in Int
    PROVE  /\ compute_drift(row) \in Int
           /\ evaluate_predicate(Drift(op, threshold), reasoner_context(row)) =
                Outcome(IF op = "lt" THEN compute_drift(row) < threshold
                        ELSE compute_drift(row) >= threshold)
<1>1. row \notin BatchRows
  <2>1. DOMAIN row = {"target", "actual"}
    BY DayRows
  <2>2. row \in BatchRows => DOMAIN row = {"score", "flagged", "days", "returned"}
    BY DayRows
  <2>3. "score" \notin {"target", "actual"}
    OBVIOUS
  <2> QED BY <2>1, <2>2, <2>3
<1>2. compute_drift(row) \in Int
  <2>1. row.target \in Nat \ {0} /\ row.actual \in Int
    BY DayRows
  <2> QED BY <2>1 DEF compute_drift
<1> DEFINE drift == compute_drift(row)
<1>3. reasoner_context(row) = [label_value |-> Number(drift), feature_set |-> [abs_drift_pct |-> Number(drift)]]
  BY <1>1 DEF reasoner_context
<1> HIDE DEF drift
<1> DEFINE p == Drift(op, threshold)
           subject == reasoner_context(row)
<1>4. p = [kind |-> "compare", field |-> "abs_drift_pct", op |-> op, value |-> Number(threshold)]
  BY DEF Drift, Compare
<1>5. /\ Carries(subject, "abs_drift_pct") /\ _resolve("abs_drift_pct", subject) = Number(drift)
  BY <1>3 DEF Carries, _resolve, LABEL_FIELD
<1> HIDE DEF p, subject
<1>6. evaluate_predicate(p, subject) = _compare(p, Number(drift))
  BY <1>4, <1>5 DEF evaluate_predicate, Node
<1>7. _compare(p, Number(drift)) = Outcome(Ordered(op, drift, threshold))
  BY <1>4 DEF _compare, Number
<1>8. Ordered(op, drift, threshold) <=> IF op = "lt" THEN drift < threshold ELSE drift >= threshold
  BY DEF Ordered
<1> QED BY <1>2, <1>6, <1>7, <1>8 DEF p, subject, drift, Outcome

\* The rules gate's answer on a settlement, when it gives a verdict.
LEMMA DailyAnswer ==
    ASSUME mock = "daily", rulesets \in Directories, Loadable(rulesets), NEW r \in RowsOfDay,
           day[r].evidence \in DailyRows, GateAnswer(r).failure = "none"
    PROVE  /\ compute_drift(day[r].evidence) < 100 =>
                resolve_gate_output(GateAnswer(r).output, {}).action = "ALLOW"
           /\ compute_drift(day[r].evidence) >= 100 => GateAnswer(r).matched # {}
<1> DEFINE subject == reasoner_context(day[r].evidence)
           drift == compute_drift(day[r].evidence)
           ruleset == CHOOSE s \in rulesets : s.ruleset_id = "mock-daily-v1"
           matched == Matched(mock_daily_v1, subject)
<1>1. drift \in Int
  BY DriftCompares
<1>2. /\ \E s \in rulesets : s.ruleset_id = "mock-daily-v1"
      /\ ruleset = mock_daily_v1
  <2>1. \E s \in rulesets : s.ruleset_id = "mock-daily-v1"
    BY DEF GateAnswer, RULESET_ID, evaluate, _failed
  <2>2. ruleset \in rulesets /\ ruleset.ruleset_id = "mock-daily-v1"
    BY <2>1
  <2> QED BY <2>1, <2>2, ShippedRules
<1>3. GateAnswer(r) =
        [output |-> [NoOutput EXCEPT !.verdict = TRUE, !.deterministic = TRUE,
                                     !.permitted = Permitted(mock_daily_v1, matched)],
         matched |-> {x.rule_id : x \in matched},
         default_applied |-> matched = {}, failure |-> "none"]
  <2>1. GateAnswer(r) = evaluate(rulesets, "mock-daily-v1", "daily", subject)
    BY DEF GateAnswer, RULESET_ID
  <2>2. \A why : _failed(why).failure = why
    BY DEF _failed
  <2> HIDE DEF subject
  <2> QED BY <1>2, <2>1, <2>2 DEF evaluate
<1>4. /\ evaluate_predicate(Drift("ge", 2000), subject) = Outcome(drift >= 2000)
      /\ evaluate_predicate(Drift("ge", 500), subject) = Outcome(drift >= 500)
      /\ evaluate_predicate(Drift("ge", 100), subject) = Outcome(drift >= 100)
  BY DriftCompares
<1> HIDE DEF subject, drift
<1>5. \A x \in mock_daily_v1.rules :
        /\ drift < 100 => evaluate_predicate(x.when, subject) = "fails"
        /\ drift >= 100 /\ x.rule_id = "drift-minor" => evaluate_predicate(x.when, subject) = "holds"
  BY <1>1, <1>4 DEF mock_daily_v1, RuleSet, RulesGateRule, Outcome
<1>6. ASSUME drift < 100 PROVE resolve_gate_output(GateAnswer(r).output, {}).action = "ALLOW"
  <2>1. matched = {}
    <3>1. \A x \in mock_daily_v1.rules : evaluate_predicate(x.when, subject) # "holds"
      BY <1>5, <1>6
    <3> QED BY <3>1, Zenon DEF Matched
  <2>2. Permitted(mock_daily_v1, matched) = {"ALLOW"}
    BY <2>1 DEF Permitted, mock_daily_v1, RuleSet
  <2>3. GateAnswer(r).output = [verdict |-> TRUE, deterministic |-> TRUE, probe |-> FALSE,
                                unsure |-> FALSE, permitted |-> {"ALLOW"}, jurisdictions |-> {},
                                conflict |-> FALSE]
    <3>1. GateAnswer(r).output = [NoOutput EXCEPT !.verdict = TRUE, !.deterministic = TRUE,
                                                  !.permitted = {"ALLOW"}]
      BY <1>3, <2>2
    <3> QED BY <3>1 DEF NoOutput
  <2>4. most_conservative({"ALLOW"}) = "ALLOW"
    <3>1. AtLeast("ALLOW", "ALLOW")
      BY SeverityIs DEF AtLeast, DecisionAction
    <3> QED BY <3>1 DEF most_conservative, Strictest
  <2> QED BY <2>3, <2>4 DEF resolve_gate_output, Fired
<1>7. ASSUME drift >= 100 PROVE GateAnswer(r).matched # {}
  <2>1. \E x \in mock_daily_v1.rules : x.rule_id = "drift-minor"
    <3>1. RulesGateRule("drift-minor", Drift("ge", 100), "CHALLENGE") \in mock_daily_v1.rules
      BY DEF mock_daily_v1, RuleSet
    <3>2. RulesGateRule("drift-minor", Drift("ge", 100), "CHALLENGE").rule_id = "drift-minor"
      BY DEF RulesGateRule
    <3> QED BY <3>1, <3>2
  <2>2. matched # {}
    BY <1>5, <1>7, <2>1 DEF Matched
  <2> QED BY <1>3, <2>2
<1> QED BY <1>6, <1>7 DEF drift
\* What the ledger decides of a row keeps its action, whatever it serves.
LEMMA DecisionsKeep ==
    ASSUME mock \in {"batch", "daily"}, RecordsInv, NEW r \in RowsOfDay
    PROVE  Keeps(r, Decision(r))
<1> DEFINE row == day[r].evidence
           cited == CitedCheck(r)
           competing == evaluate_competing_rules(RegisteredRules(ServedRegistration), cited.rule, row)
           records == <<GateRecord(r)>>
<1>1. /\ Decision(r).version = served /\ Decision(r).failure = GateAnswer(r).failure
      /\ Decision(r).matched = GateAnswer(r).matched
      /\ day[r].mode = "record" =>
           /\ Decision(r).holds = cited.holds
           /\ Decision(r).action = resolve_decision(day[r], records, [novel |-> {}], cited, competing).action
  BY DEF Decision
<1> SUFFICES ASSUME served = "mine", GateAnswer(r).failure = "none"
             PROVE  /\ day[r].mode = "record" => Decision(r).holds /\ Decision(r).action = day[r].proposed
                    /\ (day[r].mode = "gate" /\ mock = "daily") => Decision(r).matched # {}
  BY <1>1 DEF Keeps
<1>2. /\ row \in MockRows /\ day[r] = build_submission(day[r].evidence)
      /\ rulesets \in Directories /\ Loadable(rulesets)
  BY DEF RecordsInv
<1>3. ServedRegistration = MockRegistration
  BY DEF ServedRegistration
<1>4. /\ records[1] = GateRecord(r) /\ DOMAIN records = {1}
  OBVIOUS
<1>5. \* The settlements covered are those within the tolerance.
      ASSUME mock = "daily"
      PROVE  /\ day[r].mode \in {"record", "gate"} /\ compute_drift(row) \in Int
             /\ day[r].mode = "record" <=> compute_drift(row) < 100
             /\ day[r].mode = "record" => day[r].proposed = "ALLOW"
  <2>1. row \in DailyRows /\ row \in Rows
    BY <1>2, <1>5 DEF MockRows, Rows
  <2> DEFINE rule == Registered(WITHIN_TOLERANCE_RULE)
  <2>2. RegisteredRules(MockRegistration) = {rule}
    BY <1>5 DEF RegisteredRules, MockRegistration, MOCK_DAILY_REGISTRATION
  <2>3. evaluate_predicate(Drift("lt", 100), reasoner_context(row)) = Outcome(compute_drift(row) < 100)
    BY <2>1, DriftCompares
  <2>4. rule.action = "ALLOW" /\ (row \in rule.predicate <=> compute_drift(row) < 100)
    BY <2>1, <2>3 DEF Registered, WITHIN_TOLERANCE_RULE, BypassRule, Outcome
  <2> HIDE DEF rule
  <2>5. HoldingRules({rule}, row) = IF compute_drift(row) < 100 THEN {rule} ELSE {}
    BY <2>4 DEF HoldingRules, evaluate_bypass
  <2>6. compute_drift(row) < 100 => matching_bypass_rule({rule}, row) = rule
    <3>1. AtLeast("ALLOW", "ALLOW")
      BY SeverityIs DEF AtLeast, DecisionAction
    <3>2. matching_bypass_rule({rule}, row) =
            CHOOSE x \in HoldingRules({rule}, row) :
              \A other \in HoldingRules({rule}, row) : AtLeast(x.action, other.action)
      BY DEF matching_bypass_rule
    <3>3. ASSUME compute_drift(row) < 100
          PROVE  \E x \in {rule} : \A other \in {rule} : AtLeast(x.action, other.action)
      BY <2>4, <3>1
    <3> QED BY <2>5, <3>2, <3>3
  <2> HIDE DEF row
  <2>7. CASE compute_drift(row) < 100
    BY <1>2, <2>1, <2>2, <2>4, <2>5, <2>6, <2>7, DriftCompares DEF build_submission, row
  <2>8. CASE ~(compute_drift(row) < 100)
    BY <1>2, <2>1, <2>2, <2>5, <2>8, DriftCompares DEF build_submission, row
  <2> QED BY <2>7, <2>8
<1>6. ASSUME day[r].mode = "gate", mock = "daily" PROVE Decision(r).matched # {}
  <2>1. row \in DailyRows /\ compute_drift(row) \in Int /\ ~(compute_drift(row) < 100)
    BY <1>2, <1>5, <1>6 DEF MockRows
  <2> QED BY <1>1, <1>2, <1>6, <2>1, DailyAnswer
<1>7. ASSUME day[r].mode = "record" PROVE Decision(r).holds /\ Decision(r).action = day[r].proposed
  <2>1. /\ cited.holds /\ day[r].proposed \in DecisionAction
        /\ StricterActions(cited, competing) = {}
    BY <1>2, <1>7, CitationHolds
  <2>2. ActionsOf(records, Mandatory(records)) \subseteq {day[r].proposed}
    <3>1. CASE mock = "batch"
      <4>1. GateRecord(r).status = "skipped"
        BY <1>3, <1>7, <3>1 DEF GateRecord, MockRegistration, MOCK_BATCH_REGISTRATION
      <4>2. Mandatory(records) = {}
        BY <1>4, <4>1 DEF Mandatory, Enforced
      <4> QED BY <4>2 DEF ActionsOf
    <3>2. CASE mock = "daily"
      <4>1. row \in DailyRows /\ compute_drift(row) < 100 /\ day[r].proposed = "ALLOW"
        BY <1>2, <1>5, <1>7, <3>2 DEF MockRows
      <4>2. GateRecord(r).enforcement.action = "ALLOW"
        BY <1>2, <3>2, <4>1, DailyAnswer DEF GateRecord
      <4> QED BY <1>4, <4>1, <4>2 DEF ActionsOf, Mandatory, Enforced
    <3> QED BY <3>1, <3>2
  <2> DEFINE registration == [novel |-> {}]
  <2> HIDE DEF cited, competing, records, registration
  <2>3. resolve_decision(day[r], records, registration, cited, competing).action = day[r].proposed
    BY <1>7, <2>1, <2>2, RecordActs
  <2> QED BY <1>1, <1>7, <2>1, <2>3 DEF registration
<1> QED BY <1>6, <1>7
LEMMA RecordsInitInv ==
    ASSUME DayInit PROVE RecordsInv
<1>1. PICK rows \in [1 .. DaySize -> MockRows] : day = [r \in 1 .. DaySize |-> build_submission(rows[r])]
  BY DEF DayInit, MockRows
<1>2. \A row : build_submission(row).evidence = row
  BY DEF build_submission
<1>3. \A r \in RowsOfDay : day[r].evidence \in MockRows /\ day[r] = build_submission(day[r].evidence)
  BY <1>1, <1>2 DEF RowsOfDay
<1> QED BY <1>3 DEF RecordsInv, DayInit, NoRequest

\* A row is written once, with a decision that keeps its action.
LEMMA WrittenKeeps ==
    ASSUME RecordsInv, UNCHANGED <<mock, day, rulesets>>,
           \A r \in RowsOfDay : \A i \in DOMAIN store'[r] : Keeps(r, store'[r][i]),
           \A r \in DOMAIN wire'.results :
             wire'.results[r].status = "recorded" => Keeps(r, wire'.results[r].decision)
    PROVE  RecordsInv'
<1>1. RowsOfDay' = RowsOfDay /\ MockRows' = MockRows
  BY DEF RowsOfDay, MockRows
<1>2. \A row : build_submission(row)' = build_submission(row)
  BY DEF build_submission, MockRegistration
<1>3. \A r, d : Keeps(r, d)' <=> Keeps(r, d)
  BY DEF Keeps
<1>4. rulesets' \in Directories /\ Loadable(rulesets)'
  BY DEF RecordsInv, Loadable
<1>5. \A r \in RowsOfDay : /\ day'[r].evidence \in MockRows
                          /\ day'[r] = build_submission(day[r].evidence)'
  BY <1>2 DEF RecordsInv
<1>6. \A r \in RowsOfDay : \A i \in DOMAIN store'[r] : Keeps(r, store[r][i])'
  BY <1>3
<1>7. \A r \in DOMAIN wire'.results :
        wire'.results[r].status = "recorded" => Keeps(r, wire.results[r].decision)'
  BY <1>3
<1> QED BY <1>1, <1>4, <1>5, <1>6, <1>7 DEF RecordsInv

\* A step that writes nothing and decides no line.
LEMMA NothingWritten ==
    ASSUME RecordsInv, UNCHANGED <<mock, day, rulesets, store>>,
           wire' = NoRequest \/ DOMAIN wire'.results = {} \/ wire'.results = wire.results
    PROVE  RecordsInv'
<1>1. \A r \in DOMAIN wire'.results :
        wire'.results[r].status = "recorded" => Keeps(r, wire'.results[r].decision)
  BY DEF RecordsInv, NoRequest
<1>2. \A r \in RowsOfDay : \A i \in DOMAIN store'[r] : Keeps(r, store'[r][i])
  BY DEF RecordsInv
<1> QED BY <1>1, <1>2, WrittenKeeps

\* A submission's one row is written, if it is, with its decision.
LEMMA SubmitWrites ==
    ASSUME RecordsInv, DayInv, Received("submit"), UNCHANGED <<mock, day, rulesets>>, NEW reply, Reply(reply),
           UNCHANGED store \/ Write(wire.rows[1], Decision(wire.rows[1]))
    PROVE  RecordsInv'
<1>1. wire'.results = wire.results
  BY DEF Received, Reply, NoRequest, DayInv, WireShape
<1>2. CASE UNCHANGED store
  BY <1>1, <1>2, NothingWritten
<1>3. CASE Write(wire.rows[1], Decision(wire.rows[1]))
  <2> PICK r : r = wire.rows[1]
    OBVIOUS
  <2> PICK d : d = Decision(r)
    OBVIOUS
  <2>1. store' = [store EXCEPT ![r] = Append(store[r], d)]
    BY <1>3 DEF Write
  <2>2. r \in RowsOfDay /\ InWire(r) /\ wire.reply = "pending"
    BY DEF Received, NoRequest, DayInv, WireShape, InWire
  <2>3. store[r] = <<>> /\ DOMAIN store = RowsOfDay
    BY <2>2 DEF DayInv, StoreShape, DayShape
  <2>4. store'[r] = <<d>> /\ \A x \in RowsOfDay : x # r => store'[x] = store[x]
    BY <2>1, <2>2, <2>3
  <2>5. Keeps(r, d)
    BY <2>2, DecisionsKeep DEF DayInv, DayShape
  <2>6. DOMAIN <<d>> = {1} /\ <<d>>[1] = d
    OBVIOUS
  <2>7. ASSUME NEW x \in RowsOfDay, NEW i \in DOMAIN store'[x] PROVE Keeps(x, store'[x][i])
    <3>1. CASE x = r
      <4>1. i = 1 /\ store'[x][i] = d
        BY <2>4, <2>6, <2>7, <3>1
      <4> QED BY <2>5, <3>1, <4>1
    <3>2. CASE x # r
      BY <2>4, <2>7, <3>2 DEF RecordsInv
    <3> QED BY <3>1, <3>2
  <2>8. \A x \in DOMAIN wire'.results :
          wire'.results[x].status = "recorded" => Keeps(x, wire'.results[x].decision)
    BY <1>1 DEF RecordsInv
  <2> QED BY <2>7, <2>8, WrittenKeeps
<1> QED BY <1>2, <1>3

\* The bundles of a batch are those its lines were decided with.
LEMMA BatchWrites ==
    ASSUME RecordsInv, DayInv, AllDecided, UNCHANGED <<mock, day, rulesets>>,
           NEW n \in 0 .. Len(wire.rows), WriteFirst(n), NEW reply, Reply(reply)
    PROVE  RecordsInv'
<1>1. wire'.results = wire.results /\ wire.reply = "pending" /\ wire # NoRequest
  BY DEF AllDecided, Received, Reply, NoRequest, DayInv, WireShape
<1>2. ASSUME NEW x \in RowsOfDay, NEW i \in DOMAIN store'[x] PROVE Keeps(x, store'[x][i])
  <2>1. CASE \E k \in 1 .. n : wire.rows[k] = x /\ wire.results[x].status = "recorded"
    <3> PICK d : d = wire.results[x].decision
      OBVIOUS
    <3>1. PICK k \in 1 .. n : wire.rows[k] = x /\ wire.results[x].status = "recorded"
      BY <2>1
    <3>2. k \in DOMAIN wire.rows
      BY <1>1 DEF DayInv, WireShape
    <3>3. InWire(x) /\ x \in DOMAIN wire.results
      BY <3>1, <3>2 DEF InWire, AllDecided, ToSet
    <3>4. store[x] = <<>>
      BY <1>1, <3>3 DEF DayInv, StoreShape
    <3>5. store'[x] = <<d>>
      <4>1. store'[x] = Append(store[x], d)
        BY <2>1 DEF WriteFirst
      <4>2. Append(<<>>, d) = <<d>>
        OBVIOUS
      <4> QED BY <3>4, <4>1, <4>2
    <3>6. i = 1 /\ store'[x][i] = d
      BY <1>2, <3>5
    <3> QED BY <3>1, <3>3, <3>6 DEF RecordsInv
  <2>2. CASE ~\E k \in 1 .. n : wire.rows[k] = x /\ wire.results[x].status = "recorded"
    <3>1. store'[x] = store[x]
      BY <2>2 DEF WriteFirst
    <3> QED BY <1>2, <3>1 DEF RecordsInv
  <2> QED BY <2>1, <2>2
<1>3. \A x \in DOMAIN wire'.results :
        wire'.results[x].status = "recorded" => Keeps(x, wire'.results[x].decision)
  BY <1>1 DEF RecordsInv
<1> QED BY <1>2, <1>3, WrittenKeeps

LEMMA DecideLineWrites ==
    ASSUME RecordsInv, DayInv, NEW r \in RowsOfDay, DecideLine(r) PROVE RecordsInv'
<1> DEFINE result == LineResult(r)
<1>1. UNCHANGED <<mock, day, rulesets, store>>
  BY DEF DecideLine, RunUnchanged
<1>2. wire' = [wire EXCEPT !.results = Updated(wire.results, [x \in {r} |-> result])]
  BY DEF DecideLine, Updated
<1>3. result.status = "recorded" => Keeps(r, result.decision)
  BY DecisionsKeep DEF LineResult, Rejected, DayInv, DayShape
<1> HIDE DEF result
<1>4. wire'.results = Updated(wire.results, [x \in {r} |-> result])
  BY <1>2 DEF DecideLine, Received, NoRequest, DayInv, WireShape
<1>5. \A x \in DOMAIN wire'.results :
        \/ x \in DOMAIN wire.results /\ wire'.results[x] = wire.results[x]
        \/ x = r /\ wire'.results[x] = result
  BY <1>4 DEF Updated
<1>6. \A x \in DOMAIN wire'.results :
        wire'.results[x].status = "recorded" => Keeps(x, wire'.results[x].decision)
  BY <1>3, <1>5 DEF RecordsInv
<1>7. \A x \in RowsOfDay : \A i \in DOMAIN store'[x] : Keeps(x, store'[x][i])
  BY <1>1 DEF RecordsInv
<1> QED BY <1>1, <1>6, <1>7, WrittenKeeps

LEMMA RecordsStep ==
    ASSUME RecordsInv, DayInv, [DayNext]_dayVars PROVE RecordsInv'
<1>1. CASE RefuseKey
  <2>1. wire'.results = wire.results
    BY <1>1 DEF RefuseKey, Reply, NoRequest, DayInv, WireShape
  <2> QED BY <1>1, <2>1, NothingWritten DEF RefuseKey, RunUnchanged
<1>2. CASE CreateDecision
  BY <1>2, SubmitWrites DEF CreateDecision, RunUnchanged
<1>3. ASSUME NEW r \in RowsOfDay, DecideLine(r) PROVE RecordsInv'
  BY <1>3, DecideLineWrites
<1>4. CASE WriteBatch
  <2>1. Len(wire.rows) \in 0 .. Len(wire.rows)
    BY <1>4 DEF WriteBatch, DayInv, WireShape, AllDecided, Received, NoRequest
  <2> QED BY <1>4, <2>1, BatchWrites DEF WriteBatch, RunUnchanged
<1>5. CASE FailRequest
  BY <1>5, SubmitWrites, BatchWrites DEF FailRequest, RunUnchanged
<1>6. CASE ReplaceRegistration
  BY <1>6, NothingWritten DEF ReplaceRegistration
<1>7. CASE CheckRegistration \/ BatchesDone \/ NotSent \/ ReceiveReceipt \/ SubmitsDone \/ Exit
  BY <1>7, NothingWritten DEF CheckRegistration, BatchesDone, NotSent, ReceiveReceipt, SubmitsDone, Exit,
     LedgerUnchanged
<1>8. CASE SendBatch \/ SubmitRow
  BY <1>8, NothingWritten DEF SendBatch, SubmitRow, Request, LedgerUnchanged
<1>9. CASE ReceiveBatch \/ ReceiveProblem \/ ReadBundle \/ FailReadBundle
  BY <1>9, NothingWritten DEF ReceiveBatch, ReceiveProblem, ReadBundle, FailReadBundle, LedgerUnchanged
<1>10. CASE LoseAnswer
  <2>1. wire'.results = wire.results
    BY <1>10 DEF LoseAnswer, NoRequest, DayInv, WireShape
  <2> QED BY <1>10, <2>1, NothingWritten DEF LoseAnswer, LedgerUnchanged
<1>11. CASE UNCHANGED dayVars
  BY <1>11, NothingWritten DEF dayVars
<1> QED BY <1>1, <1>2, <1>3, <1>4, <1>5, <1>6, <1>7, <1>8, <1>9, <1>10, <1>11 DEF DayNext

\* The thresholds of the registrations and of the rule set agree: whatever a
\* row's score or drift, a record the ledger decides under the registration it
\* was made with keeps the action its rule justifies, the mandatory rules gate
\* included, and a gated settlement matches a rule of the rule set (registry.py
\* of both mocks, mock-daily-v1.yaml).
THEOREM RecordsStand == DaySpec => []RecordsKeepTheirAction
<1>1. DayInit => DayInv /\ RecordsInv
  BY DayInitInv, RecordsInitInv
<1>2. (DayInv /\ RecordsInv) /\ [DayNext]_dayVars => (DayInv /\ RecordsInv)'
  BY DayStep, RecordsStep
<1>3. RecordsInv => RecordsKeepTheirAction
  BY DEF RecordsInv, RecordsKeepTheirAction, Keeps
<1> QED BY <1>1, <1>2, <1>3, PTL DEF DaySpec
-----------------------------------------------------------------------------
(* The evaluation of a reasoner.                                             *)

\* A sequence, of whatever it holds.
IsList(s) == Len(s) \in Nat /\ s = [i \in 1 .. Len(s) |-> s[i]]

Scenarios == dataset.scenarios

\* The orderings of a scenario that were begun and are complete.
Measured(i) ==
    IF i < turn.scenario THEN Len(Scenarios[i])
    ELSE IF i = turn.scenario THEN turn.ordering - 1 ELSE 0

TurnShape ==
    /\ dataset \in Datasets
    /\ turn = [scenario |-> turn.scenario, ordering |-> turn.ordering, event |-> turn.event]
    /\ turn.scenario \in 1 .. Len(Scenarios) + 1
    /\ IF turn.scenario <= Len(Scenarios)
       THEN turn.ordering \in 1 .. Len(Orderings) /\ turn.event \in 0 .. Len(Ordering)
       ELSE turn.ordering = 1 /\ turn.event = 0
    /\ ~HasScenarios => turn.event = 0

CallShape ==
    /\ call = [case |-> call.case, event |-> call.event]
    /\ call.case \in 1 .. Len(Cases) + 1
    /\ call.case <= Len(Cases) => call.event \in 1 .. Len(Case.events)

ActionsShape ==
    /\ IsList(actions)
    /\ Len(actions) = IF turn.ordering = 1 THEN turn.scenario - 1 ELSE turn.scenario
    /\ \A i \in DOMAIN actions : IsList(actions[i]) /\ Len(actions[i]) = Measured(i)

\* Where an event of the stream comes from: an ordering, or an earlier call.
OfAnOrdering(f) ==
    \E i \in DOMAIN Scenarios : \E k \in DOMAIN Scenarios[i] : \E n \in DOMAIN Scenarios[i][k] :
       f = Scenarios[i][k][n]
OfACall(f) ==
    \E c \in DOMAIN Cases : \E x \in DOMAIN Cases[c].events :
       f = Cases[c].events[x] /\ (c < call.case \/ (c = call.case /\ x < call.event))

StreamHolds ==
    reasoner = "mock_stream" =>
       /\ IsList(state.source) /\ IsList(state.windows)
       /\ \A f \in Range(state.source) : OfAnOrdering(f) \/ OfACall(f)
       /\ turn.event > 0 =>
             /\ Len(state.source) = turn.event - 1 /\ Len(state.windows) = turn.event - 1
             /\ \A n \in 1 .. turn.event - 1 :
                   state.source[n] = Ordering[n] /\ state.windows[n] = Ordering[n]

LockShape == Serializes => (lock = "free" <=> turn.event = 0)

MeasuredAlone ==
    Serializes \/ ~KeepsState =>
       \A i \in DOMAIN actions : \A k \in DOMAIN actions[i] : actions[i][k] = Alone(Scenarios[i][k])

NotRefused == WellDated => code # "died"

EvaluationInv ==
    /\ TurnShape /\ CallShape /\ ActionsShape /\ LockShape /\ StreamHolds
    /\ MeasuredAlone /\ NotRefused

SampleInv ==
    /\ IsList(bundles)
    /\ sample.taken =>
         /\ SecondWave
         /\ \A b \in Range(sample.of) : b.origin # "before" /\ b.mode = "record"
         /\ Len(sample.of) < SampleSize => RecordedBy("run", sample.of) = RecordedBy("run", bundles)
    /\ code = "passed" => sample.taken /\ ConsistencyPassed /\ HasRobustness
-----------------------------------------------------------------------------
LEMMA Appended ==
    ASSUME NEW s, NEW x, IsList(s)
    PROVE  /\ IsList(Append(s, x)) /\ Len(Append(s, x)) = Len(s) + 1
           /\ DOMAIN s = 1 .. Len(s) /\ DOMAIN Append(s, x) = 1 .. Len(s) + 1
           /\ Append(s, x)[Len(s) + 1] = x
           /\ \A i \in 1 .. Len(s) : Append(s, x)[i] = s[i]
<1> DEFINE n == Len(s)
           T == {s[i] : i \in 1 .. n} \cup {x}
<1>1. n \in Nat /\ s = [i \in 1 .. n |-> s[i]]
  BY DEF IsList
<1> HIDE DEF n
<1>2. s \in [1 .. n -> T]
  BY <1>1
<1>3. s \in Seq(T) /\ x \in T
  BY <1>1, <1>2, SeqDef
<1>4. /\ Append(s, x) \in Seq(T) /\ Len(Append(s, x)) = Len(s) + 1
      /\ \A i \in 1 .. Len(s) : Append(s, x)[i] = s[i]
      /\ Append(s, x)[Len(s) + 1] = x
  BY <1>3, AppendProperties
<1>5. \A t \in Seq(T) : Len(t) \in Nat /\ DOMAIN t = 1 .. Len(t) /\ t = [i \in 1 .. Len(t) |-> t[i]]
  BY LenProperties
<1> QED BY <1>3, <1>4, <1>5 DEF IsList

LEMMA Replaced ==
    ASSUME NEW s, NEW i \in Nat, NEW x, IsList(s), i \in 1 .. Len(s), NEW t, t = [s EXCEPT ![i] = x]
    PROVE  /\ IsList(t) /\ Len(t) = Len(s) /\ DOMAIN t = 1 .. Len(s) /\ t[i] = x
           /\ \A j \in 1 .. Len(s) : j # i => t[j] = s[j]
<1> DEFINE n == Len(s)
           T == {s[j] : j \in 1 .. n} \cup {x}
<1>1. n \in Nat /\ s = [j \in 1 .. n |-> s[j]] /\ i \in 1 .. n
  BY DEF IsList
<1> HIDE DEF n
<1>2. s \in [1 .. n -> T]
  BY <1>1
<1>3. t \in [1 .. n -> T] /\ t[i] = x /\ \A j \in 1 .. n : j # i => t[j] = s[j]
  BY <1>1, <1>2
<1>4. DOMAIN t = 1 .. n
  BY <1>3
<1>5. t \in Seq(T)
  BY <1>1, <1>3, SeqDef
<1>6. Len(t) \in Nat /\ DOMAIN t = 1 .. Len(t) /\ t = [j \in 1 .. Len(t) |-> t[j]]
  BY <1>5, LenProperties
<1>7. Len(t) = n
  <2>1. 1 .. n = 1 .. Len(t)
    BY <1>4, <1>6
  <2> QED BY <1>1, <1>6, <2>1
<1>8. IsList(t)
  BY <1>6 DEF IsList
<1>9. IsList(t) /\ Len(t) = n /\ DOMAIN t = 1 .. n /\ t[i] = x /\ \A j \in 1 .. n : j # i => t[j] = s[j]
  BY <1>3, <1>4, <1>7, <1>8
<1> QED BY <1>9 DEF n

LEMMA SequencesAreLists ==
    ASSUME NEW S, NEW s \in Seq(S)
    PROVE  IsList(s) /\ DOMAIN s = 1 .. Len(s) /\ Len(s) \in Nat
           /\ (\A i \in 1 .. Len(s) : s[i] \in S) /\ (s # <<>> => Len(s) >= 1)
<1>1. Len(s) \in Nat /\ DOMAIN s = 1 .. Len(s) /\ s = [i \in 1 .. Len(s) |-> s[i]]
  BY LenProperties
<1>2. \A i \in 1 .. Len(s) : s[i] \in S
  BY ElementOfSeq
<1>3. s # <<>> => Len(s) # 0
  BY EmptySeq
<1> QED BY <1>1, <1>2, <1>3 DEF IsList

\* What the dataset holds.
LEMMA ScenariosAre ==
    ASSUME dataset \in Datasets
    PROVE  /\ Len(Scenarios) \in Nat /\ DOMAIN Scenarios = 1 .. Len(Scenarios)
           /\ \A i \in DOMAIN Scenarios :
                /\ Len(Scenarios[i]) \in Nat /\ Len(Scenarios[i]) >= 1
                /\ DOMAIN Scenarios[i] = 1 .. Len(Scenarios[i])
                /\ \A k \in DOMAIN Scenarios[i] :
                     /\ Len(Scenarios[i][k]) \in Nat /\ Len(Scenarios[i][k]) >= 1
                     /\ DOMAIN Scenarios[i][k] = 1 .. Len(Scenarios[i][k])
                     /\ IsList(Scenarios[i][k]) /\ Scenarios[i][k] \in Seq(Events)
<1>1. Scenarios \in Seq(Seq(SomeEvents) \ {<<>>})
  BY ShippedDatasets DEF Scenarios
<1>2. Len(Scenarios) \in Nat /\ DOMAIN Scenarios = 1 .. Len(Scenarios)
      /\ \A i \in DOMAIN Scenarios : Scenarios[i] \in Seq(SomeEvents) /\ Scenarios[i] # <<>>
  BY <1>1, SequencesAreLists
<1>3. ASSUME NEW i \in DOMAIN Scenarios
      PROVE  /\ Len(Scenarios[i]) \in Nat /\ Len(Scenarios[i]) >= 1
             /\ DOMAIN Scenarios[i] = 1 .. Len(Scenarios[i])
             /\ \A k \in DOMAIN Scenarios[i] : Scenarios[i][k] \in SomeEvents
  BY <1>2, <1>3, SequencesAreLists
<1>4. ASSUME NEW i \in DOMAIN Scenarios, NEW k \in DOMAIN Scenarios[i]
      PROVE  /\ Len(Scenarios[i][k]) \in Nat /\ Len(Scenarios[i][k]) >= 1
             /\ DOMAIN Scenarios[i][k] = 1 .. Len(Scenarios[i][k])
             /\ IsList(Scenarios[i][k]) /\ Scenarios[i][k] \in Seq(Events)
  <2>1. Scenarios[i][k] \in Seq(Events) /\ Scenarios[i][k] # <<>>
    BY <1>3 DEF SomeEvents
  <2> QED BY <2>1, SequencesAreLists
<1> QED BY <1>2, <1>3, <1>4

LEMMA CasesAre ==
    ASSUME dataset \in Datasets
    PROVE  /\ IsList(Cases) /\ Len(Cases) \in Nat /\ DOMAIN Cases = 1 .. Len(Cases)
           /\ \A c \in DOMAIN Cases :
                /\ Len(Cases[c].events) \in Nat /\ Len(Cases[c].events) >= 1
                /\ DOMAIN Cases[c].events = 1 .. Len(Cases[c].events)
<1> DEFINE C == [check : STRING, events : SomeEvents, expected : STRING]
           held == dataset.cases
           P == {c \in DOMAIN held : held[c].check \in Checks \cap dataset.files}
           order == Ascending(P)
<1>1. held \in Seq(C)
  BY ShippedDatasets
<1>2. Len(held) \in Nat /\ DOMAIN held = 1 .. Len(held) /\ \A c \in DOMAIN held : held[c] \in C
  BY <1>1, SequencesAreLists
<1>3. P \in SUBSET Int /\ IsFiniteSet(P)
  <2>1. IsFiniteSet(1 .. Len(held))
    BY <1>2, FS_Interval
  <2> QED BY <1>2, <2>1, FS_Subset
<1>4. order \in Seq(P)
  BY <1>3, AscendingLists
<1>5. Cases = [n \in DOMAIN order |-> held[order[n]]]
  BY DEF Cases, Selected
<1>6. P \subseteq DOMAIN held
  OBVIOUS
<1> HIDE DEF order, P, held, C
<1>7. DOMAIN order = 1 .. Len(order) /\ Len(order) \in Nat /\ \A n \in DOMAIN order : order[n] \in P
  BY <1>4, SequencesAreLists
<1>8. Cases \in [1 .. Len(order) -> C]
  BY <1>2, <1>5, <1>6, <1>7
<1>9. Cases \in Seq(C)
  BY <1>7, <1>8, SeqDef
<1>10. IsList(Cases) /\ Len(Cases) \in Nat /\ DOMAIN Cases = 1 .. Len(Cases)
       /\ \A c \in DOMAIN Cases : Cases[c] \in C
  BY <1>9, SequencesAreLists
<1>11. ASSUME NEW c \in DOMAIN Cases
       PROVE  /\ Len(Cases[c].events) \in Nat /\ Len(Cases[c].events) >= 1
              /\ DOMAIN Cases[c].events = 1 .. Len(Cases[c].events)
  <2>1. Cases[c].events \in Seq(Events) /\ Cases[c].events # <<>>
    BY <1>10 DEF C, SomeEvents
  <2> QED BY <2>1, SequencesAreLists
<1> QED BY <1>10, <1>11

\* The run as it stands reads the same while the dataset, the places and the
\* driver stay.
LEMMA DatasetStands ==
    ASSUME dataset' = dataset
    PROVE  /\ Scenarios' = Scenarios /\ Cases' = Cases
           /\ HasScenarios' = HasScenarios /\ HasRobustness' = HasRobustness
           /\ WellDated' = WellDated
BY DEF Scenarios, Cases, HasScenarios, HasRobustness, WellDated, InOrder

LEMMA ReasonerStands ==
    ASSUME reasoner' = reasoner
    PROVE  Serializes' = Serializes /\ KeepsState' = KeepsState
           /\ \A events : Alone(events)' = Alone(events)
BY DEF Serializes, KeepsState, Alone, Prior, Decides, Proposes, Records

LEMMA AloneStands ==
    ASSUME reasoner' = reasoner, dataset' = dataset, NEW i, NEW k
    PROVE  Alone(Scenarios[i][k])' = Alone(Scenarios[i][k])
<1>1. PICK s : s = Scenarios[i][k]
  OBVIOUS
<1>2. Scenarios'[i][k] = s
  BY <1>1, DatasetStands
<1>3. Serializes' = Serializes /\ KeepsState' = KeepsState
  BY ReasonerStands
<1>4. Alone(Scenarios[i][k]) = Alone(s)
  BY <1>1, Zenon
<1>5. Alone(Scenarios[i][k])' = Alone(s)
  BY <1>2, <1>3, Zenon DEF Alone, Prior, Decides, Proposes, Records
<1> QED BY <1>4, <1>5

LEMMA MeasurementsStand ==
    ASSUME EvaluationInv, dataset' = dataset, reasoner' = reasoner, turn' = turn, call' = call,
           actions' = actions, lock' = lock, state' = state
    PROVE  /\ TurnShape' /\ CallShape' /\ ActionsShape' /\ LockShape' /\ StreamHolds' /\ MeasuredAlone'
           /\ WellDated' = WellDated
<1>1. /\ Scenarios' = Scenarios /\ Cases' = Cases /\ HasScenarios' = HasScenarios
      /\ WellDated' = WellDated /\ Serializes' = Serializes /\ KeepsState' = KeepsState
      /\ \A events : Alone(events)' = Alone(events)
  BY DatasetStands, ReasonerStands
<1>2. TurnShape' /\ CallShape'
  BY <1>1 DEF EvaluationInv, TurnShape, CallShape, Orderings, Ordering, Case
<1>3. ActionsShape'
  BY <1>1 DEF EvaluationInv, ActionsShape, Measured, IsList
<1>4. LockShape' 
  BY <1>1 DEF EvaluationInv, LockShape
<1>5. StreamHolds'
  BY <1>1 DEF EvaluationInv, StreamHolds, OfAnOrdering, OfACall, IsList, Ordering, Orderings
<1>6. MeasuredAlone'
  BY <1>1, AloneStands DEF EvaluationInv, MeasuredAlone
<1> QED BY <1>1, <1>2, <1>3, <1>4, <1>5, <1>6

LEMMA EvaluationInitInv == EvaluationInit => EvaluationInv
<1> SUFFICES ASSUME EvaluationInit PROVE EvaluationInv
  OBVIOUS
<1>1. dataset \in Datasets /\ turn = [scenario |-> 1, ordering |-> 1, event |-> 0]
      /\ call = [case |-> 1, event |-> 1] /\ actions = <<>> /\ state = Fresh /\ lock = "free"
      /\ code = "starting"
  BY DEF EvaluationInit
<1>2. IsList(<<>>) /\ Len(<<>>) = 0 /\ DOMAIN <<>> = {}
  BY DEF IsList
<1>3. TurnShape
  BY <1>1, ScenariosAre DEF TurnShape, Orderings, Ordering, Scenarios
<1>4. CallShape
  BY <1>1, CasesAre DEF CallShape, Case
<1>5. ActionsShape
  BY <1>1, <1>2 DEF ActionsShape
<1>6. StreamHolds
  BY <1>1, <1>2 DEF StreamHolds, Fresh, Range
<1>7. LockShape /\ MeasuredAlone /\ NotRefused
  BY <1>1, <1>2 DEF LockShape, MeasuredAlone, NotRefused
<1> QED BY <1>3, <1>4, <1>5, <1>6, <1>7 DEF EvaluationInv

LEMMA BeginOrderingKeeps == EvaluationInv /\ BeginOrdering => EvaluationInv'
<1> SUFFICES ASSUME EvaluationInv, BeginOrdering PROVE EvaluationInv'
  OBVIOUS
<1> USE DEF EvaluationInv
<1>1. /\ dataset' = dataset /\ reasoner' = reasoner /\ call' = call /\ actions' = actions /\ code' = code
      /\ turn' = [turn EXCEPT !.event = 1] /\ turn.event = 0 /\ HasScenarios
      /\ turn.scenario <= Len(Scenarios)
      /\ lock' = (IF Serializes THEN "consistency" ELSE lock)
      /\ state' = (IF Serializes THEN ResetState ELSE state)
  <2>1. ~(turn.scenario > Len(Scenarios)) /\ HasScenarios
    BY DEF BeginOrdering, ConsistencyDone, Scenarios
  <2>2. turn.scenario <= Len(Scenarios)
    BY <2>1, ScenariosAre DEF TurnShape
  <2> QED BY <2>1, <2>2 DEF BeginOrdering
<1>2. /\ Scenarios' = Scenarios /\ Cases' = Cases /\ HasScenarios' = HasScenarios
      /\ WellDated' = WellDated /\ Serializes' = Serializes /\ KeepsState' = KeepsState
      /\ \A events : Alone(events)' = Alone(events)
  BY <1>1, DatasetStands, ReasonerStands
<1>3. turn'.scenario = turn.scenario /\ turn'.ordering = turn.ordering /\ turn'.event = 1
      /\ turn' = [scenario |-> turn.scenario, ordering |-> turn.ordering, event |-> 1]
  BY <1>1 DEF TurnShape
<1>4. Orderings' = Orderings /\ Ordering' = Ordering
  BY <1>2, <1>3 DEF Orderings, Ordering, Scenarios
<1>5. Len(Ordering) \in Nat /\ Len(Ordering) >= 1
  BY <1>1, ScenariosAre DEF TurnShape, Orderings, Ordering, Scenarios
<1>6. TurnShape'
  BY <1>1, <1>2, <1>3, <1>4, <1>5 DEF TurnShape
<1>7. CallShape'
  BY <1>1, <1>2 DEF CallShape, Case
<1>8. ActionsShape'
  BY <1>1, <1>2, <1>3 DEF ActionsShape, Measured, IsList
<1>9. LockShape'
  BY <1>1, <1>2, <1>3 DEF LockShape
<1>10. StreamHolds'
  <2> SUFFICES ASSUME reasoner = "mock_stream" PROVE StreamHolds'
    BY <1>1 DEF StreamHolds
  <2>1. state' = [source |-> <<>>, windows |-> <<>>]
    BY <1>1 DEF Serializes, ResetState, Fresh
  <2>2. IsList(<<>>) /\ Len(<<>>) = 0 /\ DOMAIN <<>> = {}
    BY DEF IsList
  <2>3. state'.source = <<>> /\ state'.windows = <<>>
    BY <2>1
  <2> QED BY <1>3, <2>2, <2>3 DEF StreamHolds, Range, IsList
<1>11. MeasuredAlone'
  BY <1>1, <1>2, AloneStands DEF MeasuredAlone
<1>12. NotRefused'
  BY <1>1, <1>2 DEF NotRefused
<1> QED BY <1>6, <1>7, <1>8, <1>9, <1>10, <1>11, <1>12

\* Where DecideEvent stands.
LEMMA AtAnEvent ==
    ASSUME EvaluationInv, HasScenarios, ~ConsistencyDone
    PROVE  /\ turn.scenario \in DOMAIN Scenarios /\ turn.ordering \in DOMAIN Scenarios[turn.scenario]
           /\ Orderings = Scenarios[turn.scenario] /\ Ordering = Orderings[turn.ordering]
           /\ turn.scenario \in Nat /\ turn.ordering \in 1 .. Len(Orderings) /\ Len(Orderings) \in Nat
           /\ turn.event \in 0 .. Len(Ordering) /\ Len(Ordering) \in Nat /\ Len(Ordering) >= 1
           /\ DOMAIN Ordering = 1 .. Len(Ordering) /\ Ordering \in Seq(Events)
<1> USE DEF EvaluationInv
<1>1. turn.scenario <= Len(Scenarios) /\ turn.scenario \in 1 .. Len(Scenarios) + 1
      /\ dataset \in Datasets /\ Len(Scenarios) \in Nat
  BY ScenariosAre DEF TurnShape, ConsistencyDone, Scenarios
<1>2. turn.scenario \in DOMAIN Scenarios /\ turn.scenario \in Nat
  BY <1>1, ScenariosAre
<1>3. Orderings = Scenarios[turn.scenario] /\ Ordering = Orderings[turn.ordering]
  BY DEF Orderings, Ordering, Scenarios
<1>4. turn.ordering \in 1 .. Len(Orderings) /\ turn.event \in 0 .. Len(Ordering)
  BY <1>1 DEF TurnShape
<1>5. Len(Orderings) \in Nat /\ turn.ordering \in DOMAIN Scenarios[turn.scenario]
  BY <1>1, <1>2, <1>3, <1>4, ScenariosAre
<1> QED BY <1>1, <1>2, <1>3, <1>4, <1>5, ScenariosAre

IsExtension(t, lists, s, o, x) ==
    /\ IsList(t) /\ Len(t) = s /\ DOMAIN t = 1 .. s
    /\ \A i \in 1 .. s : i # s => i \in DOMAIN lists /\ t[i] = lists[i]
    /\ IsList(t[s]) /\ Len(t[s]) = o /\ DOMAIN t[s] = 1 .. o /\ t[s][o] = x
    /\ \A k \in 1 .. o : k # o => s \in DOMAIN lists /\ k \in DOMAIN lists[s] /\ t[s][k] = lists[s][k]

LEMMA ExtendedBy ==
    ASSUME NEW lists, NEW s \in Nat, NEW o \in Nat, NEW x, IsList(lists), o >= 1, s >= 1,
           Len(lists) = IF o = 1 THEN s - 1 ELSE s,
           \A i \in DOMAIN lists : IsList(lists[i]),
           o # 1 => Len(lists[s]) = o - 1
    PROVE  IsExtension(Extended(lists, s, x), lists, s, o, x)
<1> DEFINE t == Extended(lists, s, x)
<1>1. DOMAIN lists = 1 .. Len(lists)
  BY DEF IsList
<1>2. CASE o = 1
  <2>1. Len(lists) = s - 1 /\ t = Append(lists, <<x>>)
    BY <1>2 DEF Extended
  <2>2. /\ IsList(t) /\ Len(t) = s /\ DOMAIN t = 1 .. s /\ t[s] = <<x>>
        /\ \A i \in 1 .. s - 1 : t[i] = lists[i]
    BY <2>1, Appended
  <2>3. IsList(<<x>>) /\ Len(<<x>>) = 1 /\ DOMAIN <<x>> = 1 .. 1 /\ <<x>>[1] = x
    BY DEF IsList
  <2>4. \A i \in 1 .. s : i # s => i \in DOMAIN lists /\ t[i] = lists[i]
    BY <1>1, <2>1, <2>2
  <2>5. \A k \in 1 .. o : k = o
    BY <1>2
  <2> HIDE DEF t
  <2>6. IsList(t[s]) /\ Len(t[s]) = o /\ DOMAIN t[s] = 1 .. o /\ t[s][o] = x
    BY <1>2, <2>2, <2>3
  <2>7. /\ IsList(t) /\ Len(t) = s /\ DOMAIN t = 1 .. s
        /\ \A k \in 1 .. o : k # o => s \in DOMAIN lists /\ k \in DOMAIN lists[s] /\ t[s][k] = lists[s][k]
    BY <2>2, <2>5
  <2> QED BY <2>4, <2>6, <2>7 DEF t, IsExtension
<1>3. CASE o # 1
  <2> DEFINE l == Append(lists[s], x)
  <2>1. Len(lists) = s /\ ~(Len(lists) < s) /\ s \in 1 .. Len(lists)
    BY <1>3
  <2>2. t = [lists EXCEPT ![s] = l]
    BY <2>1 DEF Extended
  <2>3. s \in DOMAIN lists /\ IsList(lists[s]) /\ Len(lists[s]) = o - 1
    BY <1>1, <1>3, <2>1
  <2>4. /\ IsList(l) /\ Len(l) = o /\ DOMAIN l = 1 .. o /\ l[o] = x /\ DOMAIN lists[s] = 1 .. o - 1
        /\ \A k \in 1 .. o - 1 : l[k] = lists[s][k]
    BY <2>3, Appended
  <2> HIDE DEF l
  <2>5. /\ IsList(t) /\ Len(t) = s /\ DOMAIN t = 1 .. s /\ t[s] = l
        /\ \A i \in 1 .. s : i # s => t[i] = lists[i]
    <3>1. PICK r : r = [lists EXCEPT ![s] = l]
      OBVIOUS
    <3>2. IsList(r) /\ Len(r) = Len(lists)
      <4>1. IsList(r)
        BY <2>1, <3>1, Replaced
      <4>2. Len(r) = Len(lists)
        BY <2>1, <3>1, Replaced
      <4> QED BY <4>1, <4>2
    <3>4. DOMAIN r = 1 .. Len(lists) /\ r[s] = l
      BY <2>1, <3>1, Replaced
    <3>5. \A i \in 1 .. Len(lists) : i # s => r[i] = lists[i]
      BY <2>1, <3>1, Replaced
    <3>3. t = r
      BY <2>2, <3>1
    <3> HIDE DEF t
    <3> QED BY <2>1, <3>2, <3>3, <3>4, <3>5
  <2> HIDE DEF t
  <2>6. \A i \in 1 .. s : i # s => i \in DOMAIN lists /\ t[i] = lists[i]
    BY <1>1, <2>1, <2>5
  <2>7. \A k \in 1 .. o : k # o => k \in 1 .. o - 1
    OBVIOUS
  <2>8. \A k \in 1 .. o : k # o => s \in DOMAIN lists /\ k \in DOMAIN lists[s] /\ t[s][k] = lists[s][k]
    BY <2>3, <2>4, <2>5, <2>7
  <2>9. /\ IsList(t) /\ Len(t) = s /\ DOMAIN t = 1 .. s
        /\ IsList(t[s]) /\ Len(t[s]) = o /\ DOMAIN t[s] = 1 .. o /\ t[s][o] = x
    BY <2>4, <2>5
  <2> QED BY <2>6, <2>8, <2>9 DEF t, IsExtension
<1> QED BY <1>2, <1>3

\* An event that was accepted joins the stream.
LEMMA StreamGrows ==
    ASSUME NEW e, Observe(e), reasoner = "mock_stream", IsList(state.source), IsList(state.windows)
    PROVE  /\ IsList(state'.source) /\ IsList(state'.windows)
           /\ Len(state'.source) = Len(state.source) + 1 /\ Len(state'.windows) = Len(state.windows) + 1
           /\ state'.source[Len(state.source) + 1] = e /\ state'.windows[Len(state.windows) + 1] = e
           /\ \A n \in 1 .. Len(state.source) : state'.source[n] = state.source[n]
           /\ \A n \in 1 .. Len(state.windows) : state'.windows[n] = state.windows[n]
           /\ \A f \in Range(state'.source) : f = e \/ f \in Range(state.source)
<1>1. /\ state'.source = Append(state.source, e) /\ state'.windows = Append(state.windows, e)
  BY DEF Observe, KeepsState
<1>2. /\ IsList(state'.source) /\ Len(state'.source) = Len(state.source) + 1
      /\ DOMAIN state.source = 1 .. Len(state.source)
      /\ DOMAIN state'.source = 1 .. Len(state.source) + 1
      /\ state'.source[Len(state.source) + 1] = e
      /\ \A n \in 1 .. Len(state.source) : state'.source[n] = state.source[n]
  BY <1>1, Appended
<1>3. /\ IsList(state'.windows) /\ Len(state'.windows) = Len(state.windows) + 1
      /\ state'.windows[Len(state.windows) + 1] = e
      /\ \A n \in 1 .. Len(state.windows) : state'.windows[n] = state.windows[n]
  BY <1>1, Appended
<1>4. ASSUME NEW f \in Range(state'.source) PROVE f = e \/ f \in Range(state.source)
  <2>1. Len(state.source) \in Nat
    BY DEF IsList
  <2>2. PICK n \in 1 .. Len(state.source) + 1 : state'.source[n] = f
    BY <1>2, <1>4 DEF Range
  <2>3. n = Len(state.source) + 1 \/ n \in 1 .. Len(state.source)
    BY <2>1
  <2> QED BY <1>2, <2>2, <2>3 DEF Range
<1> QED BY <1>2, <1>3, <1>4

\* An ordering's trigger is decided in the driver's state as when it runs alone.
LEMMA TriggerIsAlone ==
    ASSUME EvaluationInv, HasScenarios, ~ConsistencyDone, turn.event = Len(Ordering),
           Serializes \/ ~KeepsState
    PROVE  Decides(Ordering[turn.event], Prior(Ordering[turn.event], state.windows),
                   GateSays(Ordering[turn.event])) = Alone(Ordering)
<1>1. /\ Len(Ordering) \in Nat /\ Len(Ordering) >= 1 /\ Ordering \in Seq(Events)
  BY AtAnEvent
<1>2. Last(Ordering) = Ordering[turn.event]
  BY DEF Last
<1>3. Prior(Ordering[turn.event], state.windows) = Prior(Ordering[turn.event], Front(Ordering))
  <2>1. CASE ~KeepsState
    BY <2>1 DEF Prior
  <2>2. CASE KeepsState
    <3>1. reasoner = "mock_stream"
      BY <2>2 DEF KeepsState, Serializes
    <3>2. /\ IsList(state.windows) /\ Len(state.windows) = Len(Ordering) - 1
          /\ \A n \in 1 .. Len(Ordering) - 1 : state.windows[n] = Ordering[n]
      BY <1>1, <3>1 DEF EvaluationInv, StreamHolds
    <3>3. Front(Ordering) = [n \in 1 .. Len(Ordering) - 1 |-> Ordering[n]]
      <4>1. Front(Ordering) = SubSeq(Ordering, 1, Len(Ordering) - 1)
        BY DEF Front
      <4>2. /\ SubSeq(Ordering, 1, Len(Ordering) - 1) \in Seq(Events)
            /\ Len(SubSeq(Ordering, 1, Len(Ordering) - 1)) = Len(Ordering) - 1
            /\ \A n \in 1 .. Len(Ordering) - 1 : SubSeq(Ordering, 1, Len(Ordering) - 1)[n] = Ordering[n]
        <5> DEFINE m == Len(Ordering) - 1
        <5>1. m \in Nat /\ \A n \in 1 .. m : Ordering[n] \in Events
          BY <1>1, ElementOfSeq
        <5>2. /\ SubSeq(Ordering, 1, m) \in Seq(Events)
              /\ Len(SubSeq(Ordering, 1, m)) = IF 1 <= m THEN m - 1 + 1 ELSE 0
              /\ \A n \in 1 .. m - 1 + 1 : SubSeq(Ordering, 1, m)[n] = Ordering[1 + n - 1]
          BY <5>1, SubSeqProperties
        <5> HIDE DEF m
        <5>3. (IF 1 <= m THEN m - 1 + 1 ELSE 0) = m /\ m - 1 + 1 = m /\ \A n \in 1 .. m : 1 + n - 1 = n
          BY <5>1
        <5>4. /\ SubSeq(Ordering, 1, m) \in Seq(Events) /\ Len(SubSeq(Ordering, 1, m)) = m
              /\ \A n \in 1 .. m : SubSeq(Ordering, 1, m)[n] = Ordering[n]
          BY <5>2, <5>3
        <5> QED BY <5>4 DEF m
      <4>3. IsList(SubSeq(Ordering, 1, Len(Ordering) - 1))
        BY <4>2, SequencesAreLists
      <4> QED BY <4>1, <4>2, <4>3 DEF IsList
    <3>4. state.windows = [n \in 1 .. Len(Ordering) - 1 |-> Ordering[n]]
      BY <3>2 DEF IsList
    <3> QED BY <3>3, <3>4, Zenon
  <2> QED BY <2>1, <2>2
<1> QED BY <1>2, <1>3 DEF Alone

LEMMA DecideEventKeeps == EvaluationInv /\ DecideEvent => EvaluationInv'
<1> SUFFICES ASSUME EvaluationInv, DecideEvent PROVE EvaluationInv'
  OBVIOUS
<1> USE DEF EvaluationInv
<1> DEFINE s == turn.scenario
           o == turn.ordering
           e == Ordering[turn.event]
           x == Decides(e, Prior(e, state.windows), GateSays(e))
<1>1. /\ dataset' = dataset /\ reasoner' = reasoner /\ call' = call /\ code' = code
      /\ turn.event > 0 /\ ~ConsistencyDone /\ HasScenarios /\ Observe(e)
  BY DEF DecideEvent, ConsistencyDone
<1>2. /\ Scenarios' = Scenarios /\ Cases' = Cases /\ HasScenarios' = HasScenarios
      /\ WellDated' = WellDated /\ Serializes' = Serializes /\ KeepsState' = KeepsState
  BY <1>1, DatasetStands, ReasonerStands
<1>3. /\ s \in DOMAIN Scenarios /\ o \in DOMAIN Scenarios[s] /\ DOMAIN Scenarios = 1 .. Len(Scenarios)
      /\ Orderings = Scenarios[s] /\ Ordering = Scenarios[s][o] /\ s \in Nat /\ Len(Scenarios) \in Nat
      /\ o \in 1 .. Len(Orderings) /\ Len(Orderings) \in Nat
      /\ turn.event \in 1 .. Len(Ordering) /\ Len(Ordering) \in Nat
      /\ DOMAIN Ordering = 1 .. Len(Ordering) /\ Ordering \in Seq(Events)
  BY <1>1, AtAnEvent, ScenariosAre DEF TurnShape
<1>4. OfAnOrdering(e)
  BY <1>3 DEF OfAnOrdering
<1>5. reasoner = "mock_stream" =>
        /\ IsList(state'.source) /\ IsList(state'.windows)
        /\ \A f \in Range(state'.source) : (OfAnOrdering(f) \/ OfACall(f))'
  <2> SUFFICES ASSUME reasoner = "mock_stream"
               PROVE  /\ IsList(state'.source) /\ IsList(state'.windows)
                      /\ \A f \in Range(state'.source) : (OfAnOrdering(f) \/ OfACall(f))'
    OBVIOUS
  <2>1. IsList(state.source) /\ IsList(state.windows) /\ \A f \in Range(state.source) : OfAnOrdering(f) \/ OfACall(f)
    BY DEF StreamHolds
  <2>2. /\ IsList(state'.source) /\ IsList(state'.windows)
        /\ \A f \in Range(state'.source) : f = e \/ f \in Range(state.source)
    BY <1>1, <2>1, StreamGrows
  <2>3. \A f \in Range(state'.source) : OfAnOrdering(f) \/ OfACall(f)
    BY <1>4, <2>1, <2>2
  <2>4. ASSUME NEW f PROVE (OfAnOrdering(f) \/ OfACall(f))' <=> (OfAnOrdering(f) \/ OfACall(f))
    BY <1>1, <1>2 DEF OfAnOrdering, OfACall
  <2> QED BY <2>2, <2>3, <2>4
<1>6. CallShape'
  BY <1>1, <1>2 DEF CallShape, Case
<1>7. NotRefused'
  BY <1>1, <1>2 DEF NotRefused
<1>8. CASE turn.event < Len(Ordering)
  <2>1. turn' = [turn EXCEPT !.event = @ + 1] /\ actions' = actions /\ lock' = lock
    BY <1>8 DEF DecideEvent
  <2>2. /\ turn'.scenario = s /\ turn'.ordering = o /\ turn'.event = turn.event + 1
        /\ turn' = [scenario |-> s, ordering |-> o, event |-> turn.event + 1]
    BY <2>1 DEF TurnShape
  <2>3. Orderings' = Orderings /\ Ordering' = Ordering
    BY <1>1, <2>2 DEF Orderings, Ordering
  <2>4. TurnShape'
    BY <1>1, <1>2, <1>3, <1>8, <2>2, <2>3 DEF TurnShape
  <2>5. ActionsShape'
    BY <1>2, <2>1, <2>2 DEF ActionsShape, Measured, IsList
  <2>6. LockShape'
    BY <1>1, <1>2, <1>3, <2>1, <2>2 DEF LockShape
  <2>7. StreamHolds'
    <3> SUFFICES ASSUME reasoner = "mock_stream"
                 PROVE  /\ Len(state'.source) = turn.event /\ Len(state'.windows) = turn.event
                        /\ \A n \in 1 .. turn.event :
                             state'.source[n] = Ordering[n] /\ state'.windows[n] = Ordering[n]
      BY <1>1, <1>3, <1>5, <2>2, <2>3 DEF StreamHolds, IsList
    <3>1. /\ IsList(state.source) /\ IsList(state.windows)
          /\ Len(state.source) = turn.event - 1 /\ Len(state.windows) = turn.event - 1
          /\ \A n \in 1 .. turn.event - 1 : state.source[n] = Ordering[n] /\ state.windows[n] = Ordering[n]
      BY <1>1 DEF StreamHolds
    <3>2. /\ Len(state'.source) = turn.event - 1 + 1 /\ Len(state'.windows) = turn.event - 1 + 1
          /\ state'.source[turn.event - 1 + 1] = e /\ state'.windows[turn.event - 1 + 1] = e
          /\ \A n \in 1 .. turn.event - 1 : state'.source[n] = state.source[n]
          /\ \A n \in 1 .. turn.event - 1 : state'.windows[n] = state.windows[n]
      BY <1>1, <3>1, StreamGrows
    <3>3. turn.event - 1 + 1 = turn.event /\ \A n \in 1 .. turn.event : n = turn.event \/ n \in 1 .. turn.event - 1
      BY <1>3
    <3> QED BY <3>1, <3>2, <3>3
  <2>8. MeasuredAlone'
    BY <1>1, <1>2, <2>1, AloneStands DEF MeasuredAlone
  <2> QED BY <1>6, <1>7, <2>4, <2>5, <2>6, <2>7, <2>8
<1>9. CASE ~(turn.event < Len(Ordering))
  <2>1. /\ actions' = Extended(actions, s, x) /\ lock' = "free"
        /\ turn' = IF o < Len(Orderings) THEN [scenario |-> s, ordering |-> o + 1, event |-> 0]
                   ELSE [scenario |-> s + 1, ordering |-> 1, event |-> 0]
    BY <1>9 DEF DecideEvent
  <2>3. turn.event = Len(Ordering)
    BY <1>3, <1>9
  <2>4. TurnShape'
    <3>1. CASE o < Len(Orderings)
      <4>1. turn' = [scenario |-> s, ordering |-> o + 1, event |-> 0]
        BY <2>1, <3>1
      <4>2. turn'.scenario = s /\ turn'.ordering = o + 1 /\ turn'.event = 0
        BY <4>1
      <4>3. Orderings' = Orderings /\ Len(Ordering') \in Nat
        <5>1. Orderings' = Orderings
          BY <1>1, <4>2 DEF Orderings
        <5>2. Ordering' = Scenarios[s][o + 1]
          BY <1>3, <4>2, <5>1 DEF Ordering
        <5>3. o + 1 \in DOMAIN Scenarios[s]
          BY <1>3, <3>1, ScenariosAre DEF TurnShape
        <5> QED BY <1>3, <5>1, <5>2, <5>3, ScenariosAre DEF TurnShape
      <4> QED BY <1>1, <1>2, <1>3, <3>1, <4>1, <4>2, <4>3 DEF TurnShape
    <3>2. CASE ~(o < Len(Orderings))
      <4>1. turn' = [scenario |-> s + 1, ordering |-> 1, event |-> 0]
        BY <2>1, <3>2
      <4>2. turn'.scenario = s + 1 /\ turn'.ordering = 1 /\ turn'.event = 0
        BY <4>1
      <4>3. s + 1 <= Len(Scenarios) => Len(Orderings') >= 1 /\ Len(Orderings') \in Nat /\ Len(Ordering') \in Nat
        <5> SUFFICES ASSUME s + 1 <= Len(Scenarios)
                     PROVE  Len(Orderings') >= 1 /\ Len(Orderings') \in Nat /\ Len(Ordering') \in Nat
          OBVIOUS
        <5>1. Orderings' = Scenarios[s + 1] /\ s + 1 \in DOMAIN Scenarios
          BY <1>1, <1>3, <4>2 DEF Orderings, Scenarios
        <5>2. Ordering' = Scenarios[s + 1][1]
          BY <4>2, <5>1 DEF Ordering
        <5> QED BY <5>1, <5>2, ScenariosAre DEF TurnShape
      <4> QED BY <1>1, <1>2, <1>3, <4>1, <4>2, <4>3 DEF TurnShape
    <3> QED BY <3>1, <3>2
  <2>5. LockShape'
    BY <2>1 DEF LockShape
  <2>6. StreamHolds'
    <3>1. turn'.event = 0
      BY <2>1
    <3> QED BY <1>1, <1>5, <3>1 DEF StreamHolds, IsList
  <2>7. /\ IsList(actions) /\ Len(actions) = (IF o = 1 THEN s - 1 ELSE s) /\ o \in Nat /\ o >= 1 /\ s >= 1
        /\ \A i \in DOMAIN actions : IsList(actions[i]) /\ Len(actions[i]) = Measured(i)
        /\ o # 1 => Len(actions[s]) = o - 1
    <3>1. IsList(actions) /\ Len(actions) = (IF o = 1 THEN s - 1 ELSE s) /\ o \in Nat /\ o >= 1 /\ s >= 1
          /\ \A i \in DOMAIN actions : IsList(actions[i]) /\ Len(actions[i]) = Measured(i)
      BY <1>3 DEF ActionsShape
    <3>2. DOMAIN actions = 1 .. Len(actions)
      BY <3>1 DEF IsList
    <3>3. o # 1 => s \in DOMAIN actions
      BY <1>3, <3>1, <3>2
    <3>4. Measured(s) = o - 1
      BY <1>3 DEF Measured
    <3> QED BY <3>1, <3>3, <3>4
  <2> DEFINE t == Extended(actions, s, x)
  <2>8. /\ IsList(t) /\ Len(t) = s /\ DOMAIN t = 1 .. s
        /\ \A i \in 1 .. s : i # s => i \in DOMAIN actions /\ t[i] = actions[i]
        /\ IsList(t[s]) /\ Len(t[s]) = o /\ DOMAIN t[s] = 1 .. o /\ t[s][o] = x
        /\ \A k \in 1 .. o : k # o =>
              s \in DOMAIN actions /\ k \in DOMAIN actions[s] /\ t[s][k] = actions[s][k]
    <3>1. PICK S, O, X, L : S = s /\ O = o /\ X = x /\ L = actions
      OBVIOUS
    <3> HIDE DEF x, s, o
    <3>2. /\ S \in Nat /\ O \in Nat /\ O >= 1 /\ S >= 1
          /\ IsList(L) /\ Len(L) = (IF O = 1 THEN S - 1 ELSE S)
          /\ \A i \in DOMAIN L : IsList(L[i])
          /\ O # 1 => Len(L[S]) = O - 1
      BY <1>3, <2>7, <3>1
    <3>3. IsExtension(Extended(L, S, X), L, S, O, X)
      BY <3>2, ExtendedBy
    <3>4. IsExtension(t, actions, s, o, x)
      BY <3>1, <3>3
    <3> HIDE DEF t
    <3> QED BY <3>4 DEF IsExtension
  <2> HIDE DEF t
  <2>9. ActionsShape'
    <3>1. Len(t) = IF turn'.ordering = 1 THEN turn'.scenario - 1 ELSE turn'.scenario
      BY <1>3, <2>1, <2>7, <2>8
    <3>2. ASSUME NEW i \in 1 .. s PROVE IsList(t[i]) /\ Len(t[i]) = Measured(i)'
      <4>1. CASE i = s
        <5>1. Measured(i)' = o
          BY <1>2, <1>3, <2>1, <4>1 DEF Measured
        <5> QED BY <2>8, <4>1, <5>1
      <4>2. CASE i # s
        <5>1. i \in DOMAIN actions /\ t[i] = actions[i]
          BY <2>8, <4>2
        <5>2. Measured(i) = Len(Scenarios[i]) /\ Measured(i)' = Len(Scenarios[i])
          BY <1>2, <1>3, <2>1, <4>2 DEF Measured
        <5> QED BY <2>7, <5>1, <5>2
      <4> QED BY <4>1, <4>2
    <3> QED BY <2>1, <2>8, <3>1, <3>2 DEF ActionsShape, t
  <2>10. MeasuredAlone'
    <3> SUFFICES ASSUME Serializes \/ ~KeepsState, NEW i \in 1 .. s, NEW k \in DOMAIN t[i]
                 PROVE  t[i][k] = Alone(Scenarios[i][k])
      BY <1>1, <1>2, <2>1, <2>8, AloneStands DEF MeasuredAlone, t
    <3>1. \A j \in DOMAIN actions : \A m \in DOMAIN actions[j] : actions[j][m] = Alone(Scenarios[j][m])
      BY DEF MeasuredAlone
    <3>2. CASE i = s /\ k = o
      <4>1. x = Alone(Ordering)
        BY <1>1, <2>3, TriggerIsAlone
      <4> QED BY <1>3, <2>8, <3>2, <4>1
    <3>3. CASE i = s /\ k # o
      BY <2>8, <3>1, <3>3
    <3>4. CASE i # s
      BY <2>8, <3>1, <3>4
    <3> QED BY <3>2, <3>3, <3>4
  <2> QED BY <1>6, <1>7, <2>4, <2>5, <2>6, <2>9, <2>10
<1> QED BY <1>8, <1>9

LEMMA RobustnessCallKeeps == EvaluationInv /\ RobustnessCall => EvaluationInv'
<1> SUFFICES ASSUME EvaluationInv, RobustnessCall PROVE EvaluationInv'
  OBVIOUS
<1> USE DEF EvaluationInv
<1> DEFINE e == Case.events[call.event]
           c == call.case
<1>1. /\ dataset' = dataset /\ reasoner' = reasoner /\ turn' = turn /\ actions' = actions
      /\ lock' = lock /\ code' = code /\ Observe(e) /\ MayCall
      /\ ~RobustnessDone
      /\ call' = IF IsLast THEN [case |-> c + 1, event |-> 1] ELSE [call EXCEPT !.event = @ + 1]
  BY DEF RobustnessCall
<1>2. /\ Scenarios' = Scenarios /\ Cases' = Cases /\ HasScenarios' = HasScenarios
      /\ WellDated' = WellDated /\ Serializes' = Serializes /\ KeepsState' = KeepsState
  BY <1>1, DatasetStands, ReasonerStands
<1>3. /\ c \in DOMAIN Cases /\ c \in 1 .. Len(Cases) /\ Len(Cases) \in Nat /\ DOMAIN Cases = 1 .. Len(Cases)
      /\ Case = Cases[c] /\ call.event \in 1 .. Len(Case.events) /\ Len(Case.events) \in Nat
      /\ DOMAIN Case.events = 1 .. Len(Case.events)
  <2>1. Len(Cases) \in Nat /\ DOMAIN Cases = 1 .. Len(Cases)
    BY CasesAre DEF TurnShape
  <2>2. c \in 1 .. Len(Cases)
    BY <1>1, <2>1 DEF CallShape, RobustnessDone
  <2>3. Case = Cases[c] /\ call.event \in 1 .. Len(Case.events)
    BY <2>1, <2>2 DEF CallShape, Case
  <2> QED BY <2>1, <2>2, <2>3, CasesAre DEF TurnShape
<1>4. call' = IF call.event = Len(Case.events) THEN [case |-> c + 1, event |-> 1]
              ELSE [case |-> c, event |-> call.event + 1]
  BY <1>1 DEF CallShape, IsLast
<1>5. CallShape'
  <2>1. CASE call.event = Len(Case.events)
    <3>1. call' = [case |-> c + 1, event |-> 1]
      BY <1>4, <2>1
    <3>2. call'.case = c + 1 /\ call'.event = 1
      BY <3>1
    <3>4. c + 1 <= Len(Cases) => 1 \in 1 .. Len(Case'.events)
      <4> SUFFICES ASSUME c + 1 <= Len(Cases) PROVE 1 \in 1 .. Len(Case'.events)
        OBVIOUS
      <4>1. Case' = Cases[c + 1] /\ c + 1 \in DOMAIN Cases
        BY <1>2, <1>3, <3>2 DEF Case
      <4> QED BY <4>1, CasesAre DEF TurnShape
    <3> QED BY <1>2, <1>3, <3>1, <3>2, <3>4 DEF CallShape
  <2>2. CASE call.event # Len(Case.events)
    <3>1. call' = [case |-> c, event |-> call.event + 1]
      BY <1>4, <2>2
    <3>2. call'.case = c /\ call'.event = call.event + 1
      BY <3>1
    <3>3. Case' = Case
      BY <1>2, <3>2 DEF Case
    <3> QED BY <1>2, <1>3, <2>2, <3>1, <3>2, <3>3 DEF CallShape
  <2> QED BY <2>1, <2>2
<1>6. TurnShape'
  BY <1>1, <1>2 DEF TurnShape, Orderings, Ordering
<1>7. ActionsShape'
  BY <1>1, <1>2 DEF ActionsShape, Measured, IsList
<1>8. LockShape'
  BY <1>1, <1>2 DEF LockShape
<1>9. StreamHolds'
  <2> SUFFICES ASSUME reasoner = "mock_stream" PROVE StreamHolds'
    BY <1>1 DEF StreamHolds
  <2>1. IsList(state.source) /\ IsList(state.windows) /\ \A f \in Range(state.source) : OfAnOrdering(f) \/ OfACall(f)
    BY DEF StreamHolds
  <2>2. /\ IsList(state'.source) /\ IsList(state'.windows)
        /\ \A f \in Range(state'.source) : f = e \/ f \in Range(state.source)
    BY <1>1, <2>1, StreamGrows
  <2>3. turn'.event = 0
    BY <1>1 DEF MayCall, LockShape, Serializes
  <2>4. ASSUME NEW d \in DOMAIN Cases, NEW x \in DOMAIN Cases[d].events,
               d < c \/ (d = c /\ x <= call.event)
        PROVE  d < call'.case \/ (d = call'.case /\ x < call'.event)
    <3>1. d \in Nat /\ x \in Nat
      BY <1>3, CasesAre DEF TurnShape
    <3>2. CASE call.event = Len(Case.events)
      <4>1. call'.case = c + 1
        BY <1>4, <3>2
      <4> QED BY <1>3, <2>4, <3>1, <4>1
    <3>3. CASE call.event # Len(Case.events)
      <4>1. call'.case = c /\ call'.event = call.event + 1
        BY <1>4, <3>3
      <4> QED BY <1>3, <2>4, <3>1, <4>1
    <3> QED BY <3>2, <3>3
  <2>5. ASSUME NEW f, f = e PROVE OfACall(f)'
    <3>1. c < call'.case \/ (c = call'.case /\ call.event < call'.event)
      BY <1>3, <2>4
    <3> QED BY <1>2, <1>3, <2>5, <3>1 DEF OfACall
  <2>6. ASSUME NEW f, OfACall(f) PROVE OfACall(f)'
    <3>1. PICK d \in DOMAIN Cases : \E x \in DOMAIN Cases[d].events :
             f = Cases[d].events[x] /\ (d < c \/ (d = c /\ x < call.event))
      BY <2>6 DEF OfACall
    <3>2. PICK x \in DOMAIN Cases[d].events :
             f = Cases[d].events[x] /\ (d < c \/ (d = c /\ x < call.event))
      BY <3>1
    <3>3. x \in Nat
      BY CasesAre DEF TurnShape
    <3>4. d < call'.case \/ (d = call'.case /\ x < call'.event)
      BY <1>3, <2>4, <3>2, <3>3
    <3> QED BY <1>2, <3>2, <3>4 DEF OfACall
  <2>7. ASSUME NEW f, OfAnOrdering(f) PROVE OfAnOrdering(f)'
    BY <1>2, <2>7 DEF OfAnOrdering
  <2>8. \A f \in Range(state'.source) : (OfAnOrdering(f) \/ OfACall(f))'
    BY <2>1, <2>2, <2>5, <2>6, <2>7
  <2> QED BY <2>2, <2>3, <2>8 DEF StreamHolds, IsList
<1>10. MeasuredAlone'
  BY <1>1, <1>2, AloneStands DEF MeasuredAlone
<1>11. NotRefused'
  BY <1>1, <1>2 DEF NotRefused
<1> QED BY <1>5, <1>6, <1>7, <1>8, <1>9, <1>10, <1>11

\* Events of a well-dated dataset are accepted wherever the run stands.
LEMMA DiesKeeps == EvaluationInv /\ Dies => EvaluationInv'
<1> SUFFICES ASSUME EvaluationInv, Dies PROVE EvaluationInv'
  OBVIOUS
<1> USE DEF EvaluationInv
<1>1. /\ dataset' = dataset /\ reasoner' = reasoner /\ turn' = turn /\ actions' = actions
      /\ lock' = lock /\ state' = state /\ call' = call
  BY DEF Dies
<1>2. ASSUME ~ConsistencyDone, turn.event > 0, ~Accepts(Ordering[turn.event]) PROVE ~WellDated
  <2> DEFINE e == Ordering[turn.event]
  <2>1. reasoner = "mock_stream" /\ \E f \in Range(state.source) : ~Precedes(f, e)
    BY <1>2 DEF Accepts, Precedes
  <2>2. PICK f \in Range(state.source) : ~Precedes(f, e)
    BY <2>1
  <2>3. HasScenarios
    BY <1>2 DEF ConsistencyDone
  <2>4. /\ turn.scenario \in DOMAIN Scenarios /\ turn.ordering \in DOMAIN Scenarios[turn.scenario]
        /\ Ordering = Scenarios[turn.scenario][turn.ordering]
        /\ turn.event \in 1 .. Len(Ordering) /\ DOMAIN Ordering = 1 .. Len(Ordering)
        /\ Len(Ordering) \in Nat
    BY <1>2, <2>3, AtAnEvent
  <2>5. /\ IsList(state.source) /\ Len(state.source) = turn.event - 1
        /\ \A n \in 1 .. turn.event - 1 : state.source[n] = Ordering[n]
    BY <1>2, <2>1 DEF StreamHolds
  <2>6. DOMAIN state.source = 1 .. turn.event - 1
    BY <2>5 DEF IsList
  <2>7. PICK n \in 1 .. turn.event - 1 : f = Ordering[n]
    BY <2>2, <2>5, <2>6 DEF Range
  <2>8. n \in DOMAIN Ordering /\ turn.event \in DOMAIN Ordering /\ n < turn.event
    BY <2>4
  <2>9. ~InOrder(Ordering)
    BY <2>2, <2>7, <2>8 DEF InOrder
  <2> QED BY <2>4, <2>9 DEF WellDated, Scenarios
<1>3. ASSUME ~RobustnessDone, MayCall, ~Accepts(Case.events[call.event]) PROVE ~WellDated
  <2> DEFINE e == Case.events[call.event]
             c == call.case
  <2>1. reasoner = "mock_stream" /\ \E f \in Range(state.source) : ~Precedes(f, e)
    BY <1>3 DEF Accepts, Precedes
  <2>2. PICK f \in Range(state.source) : ~Precedes(f, e)
    BY <2>1
  <2>3. Len(Cases) \in Nat /\ DOMAIN Cases = 1 .. Len(Cases)
    BY CasesAre DEF TurnShape
  <2>4. c \in DOMAIN Cases
    BY <1>3, <2>3 DEF CallShape, RobustnessDone
  <2>5. Case = Cases[c] /\ call.event \in DOMAIN Cases[c].events
    BY <2>3, <2>4, CasesAre DEF TurnShape, CallShape, Case
  <2>6. OfAnOrdering(f) \/ OfACall(f)
    BY <2>1, <2>2 DEF StreamHolds
  <2>7. CASE OfAnOrdering(f)
    BY <2>2, <2>4, <2>5, <2>7 DEF OfAnOrdering, WellDated, Scenarios
  <2>8. CASE OfACall(f)
    BY <2>2, <2>4, <2>5, <2>8 DEF OfACall, WellDated
  <2> QED BY <2>6, <2>7, <2>8
<1>4. ~WellDated
  BY <1>2, <1>3 DEF Dies
<1>5. NotRefused'
  BY <1>1, <1>4, MeasurementsStand DEF NotRefused
<1> QED BY <1>1, <1>5, MeasurementsStand

LEMMA EvaluationStep == EvaluationInv /\ [EvaluationNext]_evalVars => EvaluationInv'
<1> SUFFICES ASSUME EvaluationInv, [EvaluationNext]_evalVars PROVE EvaluationInv'
  OBVIOUS
<1>1. ASSUME dataset' = dataset, reasoner' = reasoner, turn' = turn, call' = call,
             actions' = actions, lock' = lock, state' = state, code' = code \/ code' # "died"
      PROVE  EvaluationInv'
  <2>1. /\ TurnShape' /\ CallShape' /\ ActionsShape' /\ LockShape' /\ StreamHolds' /\ MeasuredAlone'
        /\ WellDated' = WellDated
    BY <1>1, MeasurementsStand
  <2>2. NotRefused'
    BY <1>1, <2>1 DEF EvaluationInv, NotRefused
  <2> QED BY <2>1, <2>2 DEF EvaluationInv
<1>2. CASE LoadAdapter
  BY <1>1, <1>2 DEF LoadAdapter
<1>3. CASE DriverRefuses
  BY <1>1, <1>3 DEF DriverRefuses
<1>4. CASE Elsewhere
  BY <1>1, <1>4 DEF Elsewhere
<1>5. CASE ShadowDecisions
  BY <1>1, <1>5 DEF ShadowDecisions
<1>6. CASE WriteReport
  BY <1>1, <1>6 DEF WriteReport
<1>7. CASE UNCHANGED evalVars
  BY <1>1, <1>7 DEF evalVars
<1> QED BY <1>2, <1>3, <1>4, <1>5, <1>6, <1>7, BeginOrderingKeeps, DecideEventKeeps, RobustnessCallKeeps,
           DiesKeeps DEF EvaluationNext

\* A consistency ordering of a driver that locks and resets ends with the action
\* it has alone, and well-dated events are never refused (MockStreamEvalDriver).
THEOREM OrderingsStandAlone == EvaluationSpec => []OrderingsAreAlone
<1>1. EvaluationInit => EvaluationInv
  BY EvaluationInitInv
<1>2. EvaluationInv /\ [EvaluationNext]_evalVars => EvaluationInv'
  BY EvaluationStep
<1>3. EvaluationInv => OrderingsAreAlone
  BY DEF EvaluationInv, OrderingsAreAlone, MeasuredAlone, NotRefused, Scenarios
<1> QED BY <1>1, <1>2, <1>3, PTL DEF EvaluationSpec

-----------------------------------------------------------------------------
(* What the exit code of an evaluation stands for.                           *)

\* recent_recorded returns records made since the harness started, and all of
\* them when they are fewer than it was asked for.
LEMMA RecentIs ==
    ASSUME IsList(bundles)
    PROVE  /\ \A b \in Range(RecentRecorded) : b.origin # "before" /\ b.mode = "record"
           /\ Len(RecentRecorded) < SampleSize =>
                RecordedBy("run", RecentRecorded) = RecordedBy("run", bundles)
<1> DEFINE P == {i \in DOMAIN bundles : bundles[i].mode = "record" /\ bundles[i].origin # "before"}
           order == Ascending(P)
           N == Len(order)
           recorded == Selected(bundles, P)
           size == IF Len(recorded) < SampleSize THEN Len(recorded) ELSE SampleSize
           recent == [n \in 1 .. size |-> recorded[Len(recorded) + 1 - n]]
<1>1. DOMAIN bundles = 1 .. Len(bundles) /\ Len(bundles) \in Nat
  BY DEF IsList
<1>2. P \in SUBSET Int /\ IsFiniteSet(P) /\ IsFiniteSet(DOMAIN bundles)
  <2>1. IsFiniteSet(1 .. Len(bundles))
    BY <1>1, FS_Interval
  <2> QED BY <1>1, <2>1, FS_Subset
<1>3. /\ order \in Seq(P)
      /\ \A i \in P : \E n \in DOMAIN order : order[n] = i
      /\ \A m, n \in DOMAIN order : order[m] = order[n] => m = n
  <2> HIDE DEF P
  <2> QED BY <1>2, AscendingLists
<1>4. N \in Nat /\ DOMAIN order = 1 .. N /\ \A n \in 1 .. N : order[n] \in P
  <2> HIDE DEF P, order
  <2> QED BY <1>3, SequencesAreLists
<1>5. recorded = [n \in 1 .. N |-> bundles[order[n]]]
  BY <1>4 DEF Selected
<1>6. RecentRecorded = recent
  BY DEF RecentRecorded
<1> HIDE DEF order, N, recorded
<1>7. Len(recorded) = N /\ \A n \in 1 .. N : recorded[n] = bundles[order[n]]
  BY <1>4, <1>5
<1>8. size \in Nat /\ size <= N /\ (size < SampleSize => size = N)
  BY <1>4, <1>7, EvaluationConstants
<1> HIDE DEF size
<1>9. DOMAIN recent = 1 .. size /\ Len(recent) = size
      /\ \A n \in 1 .. size : recent[n] = bundles[order[N + 1 - n]] /\ N + 1 - n \in 1 .. N
  <2>1. \A n \in 1 .. size : N + 1 - n \in 1 .. N
    BY <1>4, <1>8
  <2> QED BY <1>4, <1>7, <1>8, <2>1
<1> HIDE DEF recent
<1>10. ASSUME NEW b \in Range(RecentRecorded) PROVE b.origin # "before" /\ b.mode = "record"
  <2>1. PICK n \in 1 .. size : b = recent[n]
    BY <1>6, <1>9, <1>10 DEF Range
  <2>2. order[N + 1 - n] \in P /\ b = bundles[order[N + 1 - n]]
    BY <1>4, <1>9, <2>1
  <2> QED BY <2>2
<1>11. ASSUME size < SampleSize PROVE RecordedBy("run", recent) = RecordedBy("run", bundles)
  <2> DEFINE A == {n \in 1 .. N : recent[n].origin = "run" /\ recent[n].mode = "record"}
             B == {i \in DOMAIN bundles : bundles[i].origin = "run" /\ bundles[i].mode = "record"}
             g == [n \in A |-> order[N + 1 - n]]
  <2>1. size = N
    BY <1>8, <1>11
  <2>2. IsFiniteSet(A)
    <3>1. IsFiniteSet(1 .. N)
      BY <1>4, FS_Interval
    <3> QED BY <3>1, FS_Subset
  <2>3. ASSUME NEW n \in A PROVE g[n] \in B
    <3>1. N + 1 - n \in 1 .. N /\ recent[n] = bundles[order[N + 1 - n]]
      BY <1>9, <2>1
    <3>2. order[N + 1 - n] \in DOMAIN bundles
      BY <1>4, <3>1
    <3> QED BY <3>1, <3>2
  <2>4. ASSUME NEW m \in A, NEW n \in A, g[m] = g[n] PROVE m = n
    <3>1. m \in 1 .. N /\ n \in 1 .. N /\ N + 1 - m \in 1 .. N /\ N + 1 - n \in 1 .. N
      BY <1>9, <2>1
    <3>2. N + 1 - m = N + 1 - n
      <4>1. order[N + 1 - m] = order[N + 1 - n]
        BY <2>4
      <4> DEFINE p == N + 1 - m
                 q == N + 1 - n
      <4>2. p \in DOMAIN order /\ q \in DOMAIN order /\ order[p] = order[q]
        BY <1>4, <3>1, <4>1
      <4> HIDE DEF p, q
      <4>3. p = q
        BY <1>3, <4>2
      <4> QED BY <4>3 DEF p, q
    <3> QED BY <1>4, <3>1, <3>2
  <2>5. ASSUME NEW i \in B PROVE \E n \in A : g[n] = i
    <3>1. i \in P
      BY <2>5
    <3>2. PICK m \in 1 .. N : order[m] = i
      BY <1>3, <1>4, <3>1
    <3>3. N + 1 - m \in 1 .. N /\ N + 1 - (N + 1 - m) = m
      BY <1>4
    <3>4. recent[N + 1 - m] = bundles[i]
      BY <1>9, <2>1, <3>2, <3>3
    <3>5. N + 1 - m \in A
      BY <2>5, <3>3, <3>4
    <3> QED BY <3>2, <3>3, <3>5
  <2>6. g \in Bijection(A, B)
    <3> HIDE DEF A, B
    <3>1. g \in [A -> B]
      BY <2>3
    <3> HIDE DEF g
    <3> QED BY <2>4, <2>5, <3>1 DEF Bijection, Injection, Surjection, IsInjective
  <2>7. Cardinality(B) = Cardinality(A)
    <3> HIDE DEF A, B, g
    <3> QED BY <2>2, <2>6, FS_Bijection DEF ExistsBijection
  <2>8. RecordedBy("run", recent) = Cardinality(A)
    BY <1>9, <2>1 DEF RecordedBy
  <2>9. RecordedBy("run", bundles) = Cardinality(B)
    BY DEF RecordedBy
  <2> QED BY <2>7, <2>8, <2>9
<1> QED BY <1>6, <1>9, <1>10, <1>11

LEMMA SampleStands ==
    ASSUME SampleInv, sample' = sample, dataset' = dataset, turn' = turn, call' = call,
           sample.taken => IsList(bundles') /\ RecordedBy("run", bundles') = RecordedBy("run", bundles),
           IsList(bundles'), actions' = actions,
           code' = code \/ code' # "passed"
    PROVE  SampleInv'
<1>1. SecondWave' = SecondWave /\ HasRobustness' = HasRobustness /\ ConsistencyPassed' = ConsistencyPassed
  BY DEF SecondWave, ConsistencyDone, RobustnessDone, HasScenarios, HasRobustness, Cases, ConsistencyPassed,
         is_stable
<1>2. RecordedBy("run", sample.of)' = RecordedBy("run", sample.of)
  BY DEF RecordedBy
<1> QED BY <1>1, <1>2 DEF SampleInv

LEMMA SampleStep == EvaluationInv /\ SampleInv /\ [EvaluationNext]_evalVars => SampleInv'
<1> SUFFICES ASSUME EvaluationInv, SampleInv, [EvaluationNext]_evalVars PROVE SampleInv'
  OBVIOUS
<1>0. IsList(bundles)
  BY DEF SampleInv
<1>1. ASSUME sample' = sample, dataset' = dataset, turn' = turn, call' = call, bundles' = bundles,
             actions' = actions, code' = code \/ code' # "passed"
      PROVE  SampleInv'
  <2>1. RecordedBy("run", bundles') = RecordedBy("run", bundles)
    BY <1>1
  <2>2. IsList(bundles')
    BY <1>0, <1>1
  <2> QED BY <1>1, <2>1, <2>2, SampleStands
<1>2. CASE LoadAdapter
  BY <1>1, <1>2 DEF LoadAdapter
<1>3. CASE DriverRefuses
  BY <1>1, <1>3 DEF DriverRefuses
<1>4. CASE Elsewhere
  <2> DEFINE stored == [origin |-> "elsewhere", mode |-> "record"]
             n == Len(bundles)
  <2>1. /\ bundles' = Append(bundles, stored) /\ sample' = sample /\ dataset' = dataset /\ turn' = turn
        /\ call' = call /\ actions' = actions /\ code' = code
    BY <1>4 DEF Elsewhere
  <2>2. PICK s : s = Append(bundles, stored)
    OBVIOUS
  <2>3. /\ IsList(s) /\ DOMAIN bundles = 1 .. n /\ DOMAIN s = 1 .. n + 1
        /\ s[n + 1] = stored /\ \A i \in 1 .. n : s[i] = bundles[i]
    BY <1>0, <2>2, Appended
  <2>4. s[n + 1].origin # "run" /\ n \in Nat
    BY <1>0, <2>3 DEF IsList
  <2>5. {i \in DOMAIN s : s[i].origin = "run" /\ s[i].mode = "record"}
           = {i \in DOMAIN bundles : bundles[i].origin = "run" /\ bundles[i].mode = "record"}
    BY <2>3, <2>4
  <2>6. RecordedBy("run", s) = RecordedBy("run", bundles)
    BY <2>5 DEF RecordedBy
  <2> QED BY <2>1, <2>2, <2>3, <2>6, SampleStands
<1>5. CASE ShadowDecisions
  <2>1. /\ SecondWave /\ sample' = [taken |-> TRUE, of |-> RecentRecorded] /\ code = "running"
        /\ dataset' = dataset /\ turn' = turn /\ call' = call /\ bundles' = bundles
        /\ actions' = actions /\ code' = code
    BY <1>5 DEF ShadowDecisions
  <2>2. SecondWave'
    BY <2>1 DEF SecondWave, ConsistencyDone, RobustnessDone, HasScenarios, Cases
  <2>3. sample'.of = RecentRecorded /\ sample'.taken
    BY <2>1
  <2>4. /\ \A b \in Range(sample'.of) : b.origin # "before" /\ b.mode = "record"
        /\ Len(sample'.of) < SampleSize => RecordedBy("run", sample'.of) = RecordedBy("run", bundles)
    BY <1>0, <2>3, RecentIs
  <2>5. code' # "passed" /\ IsList(bundles')
    BY <1>0, <2>1
  <2>6. RecordedBy("run", sample.of)' = RecordedBy("run", sample'.of)
    BY DEF RecordedBy
  <2>7. RecordedBy("run", bundles)' = RecordedBy("run", bundles)
    BY <2>1 DEF RecordedBy
  <2> QED BY <2>2, <2>4, <2>5, <2>6, <2>7 DEF SampleInv
<1>6. CASE WriteReport
  <2>1. /\ sample.taken /\ sample' = sample /\ dataset' = dataset /\ turn' = turn /\ call' = call
        /\ bundles' = bundles /\ actions' = actions /\ answers' = answers
        /\ code' = IF ConsistencyPassed /\ RobustnessPassed THEN "passed" ELSE "failed"
    BY <1>6 DEF WriteReport
  <2>2. code' = "passed" => ConsistencyPassed /\ HasRobustness
    BY <2>1 DEF RobustnessPassed
  <2>3. SecondWave' = SecondWave /\ HasRobustness' = HasRobustness /\ ConsistencyPassed' = ConsistencyPassed
    BY <2>1 DEF SecondWave, ConsistencyDone, RobustnessDone, HasScenarios, HasRobustness, Cases, ConsistencyPassed,
         is_stable
  <2>4. RecordedBy("run", sample.of)' = RecordedBy("run", sample.of)
        /\ RecordedBy("run", bundles)' = RecordedBy("run", bundles) /\ IsList(bundles)'
    BY <1>0, <2>1 DEF RecordedBy, IsList
  <2> QED BY <2>1, <2>2, <2>3, <2>4 DEF SampleInv
<1>7. CASE UNCHANGED evalVars
  BY <1>1, <1>7 DEF evalVars
<1>8. ASSUME ~sample.taken, sample' = sample, code' = "running" \/ code' = "died", IsList(bundles')
      PROVE  SampleInv'
  BY <1>8 DEF SampleInv
<1>9. ASSUME NEW e, Store(e) PROVE IsList(bundles')
  BY <1>0, <1>9, Appended DEF Store
<1>10. CASE BeginOrdering \/ DecideEvent
  <2>1. ~sample.taken
    BY <1>10 DEF BeginOrdering, DecideEvent, SampleInv, SecondWave
  <2>2. sample' = sample /\ code' = "running"
    BY <1>10 DEF BeginOrdering, DecideEvent
  <2>3. IsList(bundles')
    BY <1>0, <1>9, <1>10 DEF BeginOrdering, DecideEvent
  <2> QED BY <1>8, <2>1, <2>2, <2>3
<1>11. CASE RobustnessCall
  <2>1. ~sample.taken
    BY <1>11 DEF RobustnessCall, SampleInv, SecondWave
  <2>2. sample' = sample /\ code' = "running"
    BY <1>11 DEF RobustnessCall
  <2>3. bundles' = bundles \/ \E e : Store(e)
    BY <1>11 DEF RobustnessCall
  <2>4. IsList(bundles')
    BY <1>0, <1>9, <2>3
  <2> QED BY <1>8, <2>1, <2>2, <2>4
<1>12. CASE Dies
  BY <1>1, <1>12 DEF Dies
<1> QED BY <1>2, <1>3, <1>4, <1>5, <1>6, <1>7, <1>10, <1>11, <1>12 DEF EvaluationNext

\* An evaluation that exits with 0 had scenarios, whose orderings agree on their
\* own, and robustness cases, and what it shadowed was recorded by this run, all
\* of it when it fits (run_eval, assemble_report, recent_recorded).
THEOREM PassesAreEarned == EvaluationSpec => []PassIsEarned
<1>1. EvaluationInit => EvaluationInv /\ SampleInv
  <2> SUFFICES ASSUME EvaluationInit PROVE SampleInv
    BY EvaluationInitInv
  <2>1. IsList(bundles) /\ ~sample.taken /\ code # "passed"
    BY DEF EvaluationInit, IsList
  <2> QED BY <2>1 DEF SampleInv
<1>2. EvaluationInv /\ SampleInv /\ [EvaluationNext]_evalVars => EvaluationInv' /\ SampleInv'
  BY EvaluationStep, SampleStep
<1>3. EvaluationInv /\ SampleInv => PassIsEarned
  <2> SUFFICES ASSUME EvaluationInv, SampleInv, code = "passed"
               PROVE  /\ HasScenarios /\ dataset.scenarios # <<>> /\ HasRobustness
                      /\ Serializes \/ ~KeepsState =>
                            \A i \in DOMAIN dataset.scenarios :
                               is_stable([k \in DOMAIN dataset.scenarios[i] |-> Alone(dataset.scenarios[i][k])])
                      /\ \A b \in Range(sample.of) : b.origin # "before" /\ b.mode = "record"
                      /\ Len(sample.of) < SampleSize =>
                            RecordedBy("run", sample.of) = RecordedBy("run", bundles)
    BY DEF PassIsEarned
  <2>1. sample.taken /\ ConsistencyPassed /\ HasRobustness /\ SecondWave
    BY DEF SampleInv
  <2>2. HasScenarios /\ dataset.scenarios # <<>>
    BY <2>1 DEF ConsistencyPassed
  <2>3. ASSUME Serializes \/ ~KeepsState, NEW i \in DOMAIN Scenarios
        PROVE  is_stable([k \in DOMAIN Scenarios[i] |-> Alone(Scenarios[i][k])])
    <3>1. /\ Len(Scenarios) \in Nat /\ DOMAIN Scenarios = 1 .. Len(Scenarios)
          /\ turn.scenario > Len(Scenarios) /\ turn.scenario \in 1 .. Len(Scenarios) + 1
          /\ turn.ordering = 1
      <4>1. dataset \in Datasets
        BY DEF EvaluationInv, TurnShape
      <4>2. /\ Len(Scenarios) \in Nat /\ DOMAIN Scenarios = 1 .. Len(Scenarios)
            /\ turn.scenario > Len(Scenarios) /\ turn.scenario \in 1 .. Len(Scenarios) + 1
        BY <2>1, <2>2, <4>1, ScenariosAre DEF EvaluationInv, TurnShape, SecondWave, ConsistencyDone, Scenarios
      <4> QED BY <4>2 DEF EvaluationInv, TurnShape
    <3>2. IsList(actions) /\ Len(actions) = Len(Scenarios) /\ i \in 1 .. Len(Scenarios)
      BY <3>1 DEF EvaluationInv, ActionsShape
    <3>3. DOMAIN actions = 1 .. Len(Scenarios)
      BY <3>2 DEF IsList
    <3>4. IsList(actions[i]) /\ Len(actions[i]) = Len(Scenarios[i])
      BY <3>1, <3>2, <3>3 DEF EvaluationInv, ActionsShape, Measured
    <3>5. DOMAIN Scenarios[i] = 1 .. Len(Scenarios[i])
      BY ScenariosAre DEF EvaluationInv, TurnShape
    <3>6. actions[i] = [k \in DOMAIN Scenarios[i] |-> actions[i][k]]
      BY <3>4, <3>5 DEF IsList
    <3>7. \A k \in DOMAIN Scenarios[i] : actions[i][k] = Alone(Scenarios[i][k])
      BY <2>3, <3>2, <3>3, <3>6 DEF EvaluationInv, MeasuredAlone
    <3>8. actions[i] = [k \in DOMAIN Scenarios[i] |-> Alone(Scenarios[i][k])]
      BY <3>6, <3>7
    <3>9. is_stable(actions[i])
      BY <2>1, <3>2, <3>3 DEF ConsistencyPassed
    <3> QED BY <3>8, <3>9
  <2> QED BY <2>1, <2>2, <2>3 DEF SampleInv, Scenarios
<1> QED BY <1>1, <1>2, <1>3, PTL DEF EvaluationSpec
=============================================================================
