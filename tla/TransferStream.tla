----------------------------- MODULE TransferStream -----------------------------
(***************************************************************************)
(* The stream mock's service: an in-memory event source with a bounded     *)
(* deduplication set, a watermark and dead letters; sliding windows per    *)
(* account on event time; a consumer that decides what the source accepted *)
(* one transfer at a time; and a replay that posts a stream and waits for  *)
(* the service to catch up.  Nothing of it is persisted: a restarted       *)
(* service starts with nothing, the ledger keeps what it stored.           *)
(***************************************************************************)
EXTENDS Selection, SequencesExt

CONSTANTS Transfers,        \* what producers send: [event_id, account, at, amount]
          Malformed,        \* a payload that is no transfer
          WINDOW,           \* how far back a transfer's window reaches
          ALLOWED_LATENESS, \* how far behind the watermark one may arrive
          DEDUP_CAPACITY,   \* event ids the deduplication set remembers
          HISTORY,          \* decisions the processor keeps
          Replayed,         \* the payloads the replay posts, in order
          Chunk,            \* payloads of a request
          MaxDeliveries,    \* bound: payloads offered
          MaxResets,        \* bound: resets
          MaxRestarts       \* bound: times the service ends

ASSUME TransferConstants ==
    /\ WINDOW \in Nat \ {0} /\ ALLOWED_LATENESS \in Nat
    /\ DEDUP_CAPACITY \in Nat \ {0} /\ HISTORY \in Nat \ {0} /\ Chunk \in Nat \ {0}
    /\ Replayed \in Seq(ToSet(Replayed))
    /\ \A e \in Transfers \cup ToSet(Replayed) : e.at \in Nat /\ e.amount \in Nat

VARIABLES source,    \* EventSource
          windows,   \* AccountWindows: the accounts observed
          processor, \* StreamProcessor: what is in hand, what was decided
          stored,    \* the event ids the ledger stored a bundle of
          replay,    \* where the replay stands
          closed,    \* whether the service is shutting down
          delivered, resets, restarts,
          log,       \* history: accepted and dropped deliveries since the last reset
          observed,  \* history: what the windows learned since the last reset
          carried    \* history: the last reset found transfers queued

transferVars == <<source, windows, processor, stored, replay, closed, delivered, resets,
                  restarts, log, observed, carried>>

Accounts == {e.account : e \in Transfers \cup ToSet(Replayed)}
Never == -1

-----------------------------------------------------------------------------
(* The source. *)

EmptySource == [seen |-> <<>>, watermark |-> Never, queue |-> <<>>, dead |-> {}, accepted |-> 0]

DeadLetter(s, event_id) == [s EXCEPT !.dead = @ \cup {event_id}]

Outcome(s, payload) ==
    CASE payload = Malformed -> "malformed"
      [] payload # Malformed /\ payload.event_id \in ToSet(s.seen) -> "duplicate"
      [] payload # Malformed /\ payload.event_id \notin ToSet(s.seen) ->
           IF s.watermark # Never /\ payload.at < s.watermark - ALLOWED_LATENESS
           THEN "late" ELSE "accepted"

\* The event ids the set remembers, the oldest forgotten first.
Remembered(seen) ==
    IF Len(seen) > DEDUP_CAPACITY
    THEN SubSeq(seen, Len(seen) - DEDUP_CAPACITY + 1, Len(seen)) ELSE seen

\* Mutant: a second delivery does not renew its event id.
MovedToEnd_Not(seen, event_id) == seen

MovedToEnd(seen, event_id) == Append(RemoveFirst(seen, event_id), event_id)

\* One payload offered to the stream.
publish(s, payload) ==
    CASE Outcome(s, payload) = "malformed" -> DeadLetter(s, payload.event_id)
      [] Outcome(s, payload) = "duplicate" ->
           [s EXCEPT !.seen = MovedToEnd(@, payload.event_id)]
      [] Outcome(s, payload) = "late" -> DeadLetter(s, payload.event_id)
      [] Outcome(s, payload) = "accepted" ->
           [s EXCEPT !.seen = Remembered(Append(@, payload.event_id)),
                     !.watermark = IF payload.at > @ THEN payload.at ELSE @,
                     !.queue = Append(@, payload),
                     !.accepted = @ + 1]

\* The deliveries the deduplication set takes note of: what is malformed or
\* late is not remembered.
Noted(deliveries, s, payload) ==
    IF Outcome(s, payload) \in {"accepted", "duplicate"}
    THEN Append(deliveries, [event_id |-> payload.event_id, outcome |-> Outcome(s, payload)])
    ELSE deliveries

\* A request's payloads, one after the other, with what the source did of each.
Offer(s, payloads) ==
    FoldLeft(LAMBDA taken, p : [source |-> publish(taken.source, p),
                                deliveries |-> Noted(taken.deliveries, taken.source, p)],
             [source |-> s, deliveries |-> <<>>], payloads)

-----------------------------------------------------------------------------
(* The windows. *)

NewAccount == [recent |-> <<>>, older_count |-> 0, older_total |-> 0, latest |-> Never]

\* Mutant: what a late transfer's window may still need is dropped.
retention_Window == WINDOW

\* The service keeps transfers whole for the window and the allowed lateness.
retention == WINDOW + ALLOWED_LATENESS

\* What the transfers at some positions of a sequence amount to.
Total(transfers, positions) == MapThenSumSet(LAMBDA i : transfers[i].amount, positions)

\* The features of a transfer: what its account sent before it, and which of it
\* within the window.
Features(prior, total, transfers, in_window) ==
    [prior_events |-> prior, prior_amount |-> total,
     window_events |-> Cardinality(in_window), window_amount |-> Total(transfers, in_window)]

FeaturesOf(account, e) ==
    LET recent == account.recent
        before == {n \in DOMAIN recent : recent[n].at < e.at}
    IN  Features(account.older_count + Cardinality(before),
                 account.older_total + Total(recent, before),
                 recent, {n \in before : recent[n].at >= e.at - WINDOW})

Learned(account, e) ==
    LET recent  == Append(account.recent, e)
        latest  == IF e.at > account.latest THEN e.at ELSE account.latest
        dropped == {n \in DOMAIN recent : recent[n].at < latest - retention}
    IN  [recent |-> Selected(recent, DOMAIN recent \ dropped),
         older_count |-> account.older_count + Cardinality(dropped),
         older_total |-> account.older_total + Total(recent, dropped), latest |-> latest]

-----------------------------------------------------------------------------
(* State. *)

NoTransfer == [event |-> Malformed, features |-> Features(0, 0, <<>>, {})]
IdleProcessor == [hand |-> NoTransfer, decisions |-> <<>>, processed |-> 0]
IdleReplay == [pc |-> "idle", sent |-> 0, accepted |-> {}, listed |-> {}, missing |-> {},
               restarted |-> FALSE]

Running == <<closed, restarts>>

TransferInit ==
    /\ source = EmptySource
    /\ windows = [a \in Accounts |-> NewAccount]
    /\ processor = IdleProcessor
    /\ stored = {}
    /\ replay = IdleReplay
    /\ closed = FALSE
    /\ delivered = 0 /\ resets = 0 /\ restarts = 0
    /\ log = <<>> /\ observed = <<>> /\ carried = FALSE

-----------------------------------------------------------------------------
(* Requests. *)

\* POST /events: one request is handled without a pause.
publish_events(payloads) ==
    /\ ~closed /\ delivered + Len(payloads) <= MaxDeliveries
    /\ source' = Offer(source, payloads).source
    /\ delivered' = delivered + Len(payloads)
    /\ log' = log \o Offer(source, payloads).deliveries
    /\ UNCHANGED <<windows, processor, stored, resets, Running, observed, carried>>

Produce(payload) == publish_events(<<payload>>) /\ UNCHANGED replay

\* POST /reset: accounts, deduplication and watermark are forgotten; what is
\* queued or in hand stays.
reset_stream ==
    /\ ~closed /\ resets < MaxResets
    /\ resets' = resets + 1
    /\ windows' = [a \in Accounts |-> NewAccount]
    /\ source' = [source EXCEPT !.seen = <<>>, !.watermark = Never]
    /\ log' = <<>> /\ observed' = <<>>
    /\ carried' = (source.queue # <<>>)
    /\ UNCHANGED <<processor, stored, replay, delivered, Running>>

-----------------------------------------------------------------------------
(* The consumer. *)

\* The next transfer: its features are read and the state learns it before the
\* ledger is asked.
observe ==
    /\ processor.hand = NoTransfer /\ source.queue # <<>>
    /\ LET e == Head(source.queue)
       IN  /\ processor' = [processor EXCEPT !.hand =
                              [event |-> e, features |-> FeaturesOf(windows[e.account], e)]]
           /\ windows' = [windows EXCEPT ![e.account] = Learned(@, e)]
           /\ observed' = Append(observed, e)
    /\ source' = [source EXCEPT !.queue = Tail(@)]
    /\ UNCHANGED <<stored, replay, Running, delivered, resets, log, carried>>

InHand == processor.hand.event.event_id
Kept(decisions) ==
    IF Len(decisions) > HISTORY
    THEN SubSeq(decisions, Len(decisions) - HISTORY + 1, Len(decisions)) ELSE decisions

\* The ledger's receipt.
Decided ==
    /\ processor.hand # NoTransfer
    /\ stored' = stored \cup {InHand}
    /\ processor' = [hand |-> NoTransfer, decisions |-> Kept(Append(processor.decisions, InHand)),
                     processed |-> processor.processed + 1]
    /\ UNCHANGED <<source, windows, replay, Running, delivered, resets, log, observed, carried>>

\* It refuses the transfer, cannot be reached or answers a 5xx (which it may
\* have stored), or something else fails: the stream goes on.
DeadLettered(refused) ==
    /\ processor.hand # NoTransfer
    /\ \/ UNCHANGED stored
       \/ ~refused /\ stored' = stored \cup {InHand}
    /\ source' = DeadLetter(source, InHand)
    /\ processor' = [processor EXCEPT !.hand = NoTransfer, !.processed = @ + 1]
    /\ UNCHANGED <<windows, replay, Running, delivered, resets, log, observed, carried>>

-----------------------------------------------------------------------------
(* The service. *)

\* Shutdown: no more requests; the consumer goes on with what was accepted.
Close ==
    /\ ~closed /\ restarts < MaxRestarts
    /\ closed' = TRUE
    /\ UNCHANGED <<source, windows, processor, stored, replay, delivered, resets, restarts,
                   log, observed, carried>>

\* The process ends, drained or not in DRAIN_SECONDS, or dies, the transfer in
\* hand decided or not; another starts.
Restart ==
    /\ restarts < MaxRestarts
    /\ \/ UNCHANGED stored
       \/ processor.hand # NoTransfer /\ stored' = stored \cup {InHand}
    /\ restarts' = restarts + 1
    /\ source' = EmptySource
    /\ windows' = [a \in Accounts |-> NewAccount]
    /\ processor' = IdleProcessor
    /\ closed' = FALSE
    /\ replay' = [replay EXCEPT !.restarted = replay.pc \notin {"idle", "done", "stopped"} \/ @]
    /\ log' = <<>> /\ observed' = <<>> /\ carried' = FALSE
    /\ UNCHANGED <<delivered, resets>>

\* Mutant: the service has caught up once nothing is queued.
caught_up_Pending == source.queue = <<>>

\* GET /stats: as many transfers were processed as accepted.
caught_up == processor.processed >= source.accepted

-----------------------------------------------------------------------------
(* The replay. *)

ServiceUnchanged ==
    UNCHANGED <<source, windows, processor, stored, Running, delivered, resets, log, observed,
                carried>>

\* A request's payloads, posted in order.
PostChunk ==
    LET last    == IF replay.sent + Chunk < Len(Replayed) THEN replay.sent + Chunk
                   ELSE Len(Replayed)
        payloads == SubSeq(Replayed, replay.sent + 1, last)
        deliveries == Offer(source, payloads).deliveries
    IN  /\ replay.pc \in {"idle", "post"} /\ replay.sent < Len(Replayed)
        /\ publish_events(payloads)
        /\ replay' = [replay EXCEPT
                        !.pc = IF last = Len(Replayed) THEN "poll" ELSE "post",
                        !.sent = last,
                        !.accepted = @ \cup {d.event_id : d \in {x \in ToSet(deliveries) :
                                                                   x.outcome = "accepted"}}]

\* GET /stats until the service has caught up.
Poll ==
    /\ replay.pc = "poll" /\ ~closed /\ caught_up
    /\ replay' = [replay EXCEPT !.pc = "list"]
    /\ ServiceUnchanged

\* GET /decisions: the decisions the service still keeps.
ListDecisions ==
    /\ replay.pc = "list" /\ ~closed
    /\ replay' = [replay EXCEPT !.pc = "letters", !.listed = ToSet(processor.decisions)]
    /\ ServiceUnchanged

\* GET /dead-letters, and the summary.
Summarize ==
    /\ replay.pc = "letters" /\ ~closed
    /\ replay' = [replay EXCEPT !.pc = "done",
                    !.missing = replay.accepted \ (replay.listed \cup
                                                     source.dead)]
    /\ ServiceUnchanged

\* The service does not answer, or does not catch up in time.
StopReplay ==
    /\ replay.pc \in {"post", "poll", "list", "letters"}
    /\ replay' = [IdleReplay EXCEPT !.pc = "stopped", !.sent = replay.sent]
    /\ ServiceUnchanged

Consume == observe \/ Decided \/ \E refused \in BOOLEAN : DeadLettered(refused)

TransferNext ==
    \/ \E payload \in Transfers \cup {Malformed} : Produce(payload)
    \/ reset_stream
    \/ Consume
    \/ Close \/ Restart
    \/ PostChunk \/ Poll \/ ListDecisions \/ Summarize \/ StopReplay

TransferSpec == TransferInit /\ [][TransferNext]_transferVars

-----------------------------------------------------------------------------
(* Properties. *)

\* A transfer is scored exactly: its features are those of every transfer of
\* its account that reached the service before it and is timestamped before it,
\* in whatever order they arrived; unless a reset left transfers queued, which
\* then count in the state that was meant to be empty.
ScoredExactly ==
    (~carried /\ observed # <<>> /\ processor.hand.event = Last(observed)) =>
      LET e == processor.hand.event
          before == {i \in 1 .. Len(observed) - 1 :
                       observed[i].account = e.account /\ observed[i].at < e.at}
      IN  processor.hand.features =
            Features(Cardinality(before), Total(observed, before),
                     observed, {i \in before : observed[i].at >= e.at - WINDOW})

\* A second delivery is dropped exactly as long as fewer than DEDUP_CAPACITY
\* other events were delivered since the event's last delivery.
DuplicatesAreDropped ==
    \A i, j \in DOMAIN log :
      LET between == {log[k].event_id : k \in i + 1 .. j - 1}
      IN  (i < j /\ log[i].event_id = log[j].event_id /\ log[i].event_id \notin between) =>
            (log[j].outcome = "duplicate" <=> Cardinality(between) < DEDUP_CAPACITY)

\* What a finished replay reports missing is in the ledger, whatever other
\* producers, resets and failures did meanwhile, as long as the service was not
\* restarted under it.
MissingIsStored ==
    (replay.pc = "done" /\ ~replay.restarted) => replay.missing \subseteq stored
=============================================================================
