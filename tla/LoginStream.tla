------------------------------- MODULE LoginStream -------------------------------
(***************************************************************************)
(* The account-takeover reasoner deciding logins from a Redis stream:      *)
(* instances of one consumer group (ingestion/consumer.py, dedup.py) that  *)
(* check, acknowledge and decide one message after the other               *)
(* (decide_from_stream of ingestion/stream.py).  The acknowledgement comes *)
(* before the decision; a run that stops leaves what it read pending, and  *)
(* the next run of that instance starts with it.  A run may be interrupted *)
(* at any step: its process dies, or Redis fails under it.                 *)
(***************************************************************************)
EXTENDS Integers, FiniteSets, Sequences

CONSTANTS Stream,      \* the messages to be published, in order
          Malformed,   \* the event of a message no LoginEvent can be read from
          Events,      \* the event ids of the others
          Consumers,   \* instances, each with a name of its own
          TimestampOf, \* the timestamp of an event
          Lateness,    \* lateness_seconds
          DedupTTL,    \* ttl_seconds of the deduplication keys
          BatchSize,   \* batch_size of a read
          MaxTime,         \* bound: the clock
          MaxInterruptions \* bound: runs that end by a failure

\* The deduplication window outlasts the lateness bound (24 hours and one hour
\* by default); both bounds and the batch are whole and positive.
ASSUME StreamConstants ==
    /\ Malformed \notin Events
    /\ Stream \in Seq(Events \cup {Malformed})
    /\ TimestampOf \in [Events -> Nat]
    /\ Lateness \in Nat /\ DedupTTL \in Nat /\ Lateness < DedupTTL
    /\ BatchSize \in Nat \ {0} /\ MaxTime \in Nat /\ MaxInterruptions \in Nat

VARIABLES now,         \* the clock of Redis and of every consumer
          published,   \* the stream's length
          delivered,   \* the group's last delivered message
          pending,     \* each consumer's delivered, unacknowledged messages
          keys,        \* when each event's deduplication key expires; 0: no key
          acked,       \* the messages acknowledged
          dlq,         \* the dead-letter stream: [message, reason]
          decided,     \* the messages the ledger decided, and how often
          consumers,   \* each instance's run: [pc, batch, backlog, reason]
          interruptions

streamVars == <<now, published, delivered, pending, keys, acked, dlq, decided,
                consumers, interruptions>>

Messages == DOMAIN Stream
CheckReasons == {"schema_error", "lateness", "duplicate"}
Reasons == CheckReasons \cup {"ledger_refused", "pipeline_error"}

\* "read": at the top of the run's loop; "hand": the batch's head is unchecked;
\* "reject", "rejected": to be dead-lettered, then acknowledged; "accept": to be
\* acknowledged; "decide": at the ledger; "refused", "failed": to be
\* dead-lettered after its acknowledgement.
Steps == {"stopped", "read", "hand", "reject", "rejected", "accept", "decide",
          "refused", "failed"}

\* A batch is handled in stream order: its first message is in hand.
Stopped == [pc |-> "stopped", batch |-> {}, backlog |-> TRUE, reason |-> "none"]
InHand(c) == CHOOSE m \in consumers[c].batch : \A n \in consumers[c].batch : m <= n
EventInHand(c) == Stream[InHand(c)]

StreamInit ==
    /\ now = 0
    /\ published = 0
    /\ delivered = 0
    /\ pending = [c \in Consumers |-> {}]
    /\ keys = [e \in Events |-> 0]
    /\ acked = {}
    /\ dlq = {}
    /\ decided = [m \in Messages |-> 0]
    /\ consumers = [c \in Consumers |-> Stopped]
    /\ interruptions = 0

-----------------------------------------------------------------------------
(* The stream and the clock. *)

\* The generator back-dates: no event is published before its timestamp.
Publish ==
    /\ published < Len(Stream)
    /\ Stream[published + 1] # Malformed => TimestampOf[Stream[published + 1]] <= now
    /\ published' = published + 1
    /\ UNCHANGED <<now, delivered, pending, keys, acked, dlq, decided, consumers, interruptions>>

Tick ==
    /\ now < MaxTime
    /\ now' = now + 1
    /\ UNCHANGED <<published, delivered, pending, keys, acked, dlq, decided, consumers,
                   interruptions>>

-----------------------------------------------------------------------------
(* Reading. *)

\* Mutant: a run reads new messages only.
Start_NoBacklog(c) ==
    /\ consumers[c].pc = "stopped"
    /\ consumers' = [consumers EXCEPT ![c] = [Stopped EXCEPT !.pc = "read", !.backlog = FALSE]]
    /\ UNCHANGED <<now, published, delivered, pending, keys, acked, dlq, decided, interruptions>>

\* A run begins with what an earlier one of this instance left pending.
Start(c) ==
    /\ consumers[c].pc = "stopped"
    /\ consumers' = [consumers EXCEPT ![c] = [Stopped EXCEPT !.pc = "read"]]
    /\ UNCHANGED <<now, published, delivered, pending, keys, acked, dlq, decided, interruptions>>

Take(c, batch) ==
    consumers' = [consumers EXCEPT ![c].pc = "hand", ![c].batch = batch]

\* The oldest pending messages, at most BatchSize of them (fewer when the run's
\* max_events is near).
ReadPending(c) ==
    /\ consumers[c].pc = "read" /\ consumers[c].backlog
    /\ \E batch \in (SUBSET pending[c]) \ {{}} :
         /\ Cardinality(batch) <= BatchSize
         /\ \A m \in batch, n \in pending[c] \ batch : m < n
         /\ Take(c, batch)
    /\ UNCHANGED <<now, published, delivered, pending, keys, acked, dlq, decided, interruptions>>

BacklogEnds(c) ==
    /\ consumers[c].pc = "read" /\ consumers[c].backlog
    /\ pending[c] = {}
    /\ consumers' = [consumers EXCEPT ![c].backlog = FALSE]
    /\ UNCHANGED <<now, published, delivered, pending, keys, acked, dlq, decided, interruptions>>

\* Mutant: the group does not keep what it delivers pending (NOACK).
ReadNew_NoAck(c) ==
    /\ consumers[c].pc = "read" /\ ~consumers[c].backlog
    /\ \E last \in delivered + 1 .. published :
         /\ last - delivered <= BatchSize
         /\ delivered' = last
         /\ acked' = acked \cup (delivered + 1 .. last)
         /\ Take(c, delivered + 1 .. last)
    /\ UNCHANGED <<now, published, pending, keys, dlq, decided, interruptions>>

ReadNew(c) ==
    /\ consumers[c].pc = "read" /\ ~consumers[c].backlog
    /\ \E last \in delivered + 1 .. published :
         /\ last - delivered <= BatchSize
         /\ delivered' = last
         /\ pending' = [pending EXCEPT ![c] = @ \cup (delivered + 1 .. last)]
         /\ Take(c, delivered + 1 .. last)
    /\ UNCHANGED <<now, published, keys, acked, dlq, decided, interruptions>>

-----------------------------------------------------------------------------
(* Checking: process_message. *)

Reject(c, reason) ==
    /\ consumers' = [consumers EXCEPT ![c].pc = "reject", ![c].reason = reason]
    /\ UNCHANGED keys

Late(e) == now - TimestampOf[e] > Lateness
HasKey(e) == keys[e] > now

\* Mutant: an event that is too old is deduplicated first.
Check_NoLateness(c) ==
    /\ consumers[c].pc = "hand"
    /\ LET e == EventInHand(c)
       IN  \/ e = Malformed /\ Reject(c, "schema_error")
           \/ e # Malformed /\ HasKey(e) /\ Reject(c, "duplicate")
           \/ /\ e # Malformed /\ ~HasKey(e)
              /\ keys' = [keys EXCEPT ![e] = now + DedupTTL]
              /\ consumers' = [consumers EXCEPT ![c].pc = "accept"]
    /\ UNCHANGED <<now, published, delivered, pending, acked, dlq, decided, interruptions>>

\* Schema, lateness, deduplication (SET NX EX): the first failure rejects.  The
\* lateness check and the SET are one instant: between the two statements no
\* time passes that compares with DedupTTL - Lateness (23 hours).
Check(c) ==
    /\ consumers[c].pc = "hand"
    /\ LET e == EventInHand(c)
       IN  \/ e = Malformed /\ Reject(c, "schema_error")
           \/ e # Malformed /\ Late(e) /\ Reject(c, "lateness")
           \/ e # Malformed /\ ~Late(e) /\ HasKey(e) /\ Reject(c, "duplicate")
           \/ /\ e # Malformed /\ ~Late(e) /\ ~HasKey(e)
              /\ keys' = [keys EXCEPT ![e] = now + DedupTTL]
              /\ consumers' = [consumers EXCEPT ![c].pc = "accept"]
    /\ UNCHANGED <<now, published, delivered, pending, acked, dlq, decided, interruptions>>

\* The message in hand is done with: the next one, or the next read.
NextInBatch(c) ==
    LET rest == consumers[c].batch \ {InHand(c)}
    IN  [consumers[c] EXCEPT !.pc = IF rest = {} THEN "read" ELSE "hand",
                             !.batch = rest, !.reason = "none"]

DeadLetter(c, reason) == dlq' = dlq \cup {[message |-> InHand(c), reason |-> reason]}

DeadLetterRejected(c) ==
    /\ consumers[c].pc = "reject"
    /\ DeadLetter(c, consumers[c].reason)
    /\ consumers' = [consumers EXCEPT ![c].pc = "rejected"]
    /\ UNCHANGED <<now, published, delivered, pending, keys, acked, decided, interruptions>>

\* Mutant: a rejected message is acknowledged before it is dead-lettered.
AckRejected_First(c) ==
    /\ \/ /\ consumers[c].pc = "reject" /\ InHand(c) \in pending[c]
          /\ acked' = acked \cup {InHand(c)}
          /\ pending' = [pending EXCEPT ![c] = @ \ {InHand(c)}]
          /\ UNCHANGED consumers
       \/ /\ consumers[c].pc = "rejected"
          /\ acked' = acked \cup {InHand(c)}
          /\ pending' = [pending EXCEPT ![c] = @ \ {InHand(c)}]
          /\ consumers' = [consumers EXCEPT ![c] = NextInBatch(c)]
    /\ UNCHANGED <<now, published, delivered, keys, dlq, decided, interruptions>>

Acknowledge(c) ==
    /\ acked' = acked \cup {InHand(c)}
    /\ pending' = [pending EXCEPT ![c] = @ \ {InHand(c)}]

AckRejected(c) ==
    /\ consumers[c].pc = "rejected"
    /\ Acknowledge(c)
    /\ consumers' = [consumers EXCEPT ![c] = NextInBatch(c)]
    /\ UNCHANGED <<now, published, delivered, keys, dlq, decided, interruptions>>

AckAccepted(c) ==
    /\ consumers[c].pc = "accept"
    /\ Acknowledge(c)
    /\ consumers' = [consumers EXCEPT ![c].pc = "decide"]
    /\ UNCHANGED <<now, published, delivered, keys, dlq, decided, interruptions>>

-----------------------------------------------------------------------------
(* Deciding: run_ato_decision and what decide_from_stream does about its      *)
(* failures.                                                                  *)

MayFail == interruptions < MaxInterruptions

\* The ledger decides the login and the run goes on to the next message.
Decide(c) ==
    /\ consumers[c].pc = "decide"
    /\ decided' = [decided EXCEPT ![InHand(c)] = @ + 1]
    /\ consumers' = [consumers EXCEPT ![c] = NextInBatch(c)]
    /\ UNCHANGED <<now, published, delivered, pending, keys, acked, dlq, interruptions>>

\* 413, or 422 other than REASONER_NOT_REGISTERED.
Refuse(c) ==
    /\ consumers[c].pc = "decide"
    /\ consumers' = [consumers EXCEPT ![c].pc = "refused"]
    /\ UNCHANGED <<now, published, delivered, pending, keys, acked, dlq, decided, interruptions>>

DeadLetterRefused(c) ==
    /\ consumers[c].pc = "refused"
    /\ DeadLetter(c, "ledger_refused")
    /\ consumers' = [consumers EXCEPT ![c] = NextInBatch(c)]
    /\ UNCHANGED <<now, published, delivered, pending, keys, acked, decided, interruptions>>

\* Any other failure: before the ledger decided, or after (the answer was lost).
FailDecision(c) ==
    /\ consumers[c].pc = "decide" /\ MayFail
    /\ \/ UNCHANGED decided
       \/ decided' = [decided EXCEPT ![InHand(c)] = @ + 1]
    /\ consumers' = [consumers EXCEPT ![c].pc = "failed"]
    /\ interruptions' = interruptions + 1
    /\ UNCHANGED <<now, published, delivered, pending, keys, acked, dlq>>

\* The failure is dead-lettered and raised: it ends the run.
DeadLetterFailed(c) ==
    /\ consumers[c].pc = "failed"
    /\ DeadLetter(c, "pipeline_error")
    /\ consumers' = [consumers EXCEPT ![c] = Stopped]
    /\ UNCHANGED <<now, published, delivered, pending, keys, acked, decided, interruptions>>

-----------------------------------------------------------------------------
(* The end of a run. *)

\* max_events reached, or `stop' set: never with messages in hand.
Stop(c) ==
    /\ consumers[c].pc = "read"
    /\ consumers' = [consumers EXCEPT ![c] = Stopped]
    /\ UNCHANGED <<now, published, delivered, pending, keys, acked, dlq, decided, interruptions>>

\* The process dies or Redis fails; a run that is ending by a failure already
\* is not counted twice.
Interrupt(c) ==
    /\ consumers[c].pc # "stopped"
    /\ \/ consumers[c].pc = "failed" /\ UNCHANGED interruptions
       \/ consumers[c].pc # "failed" /\ MayFail /\ interruptions' = interruptions + 1
    /\ consumers' = [consumers EXCEPT ![c] = Stopped]
    /\ UNCHANGED <<now, published, delivered, pending, keys, acked, dlq, decided>>

-----------------------------------------------------------------------------

\* What a run does with the message in hand; the ledger's client times out.
Handle(c) ==
    \/ Check(c)
    \/ DeadLetterRejected(c) \/ AckRejected(c)
    \/ AckAccepted(c)
    \/ Decide(c) \/ Refuse(c) \/ DeadLetterRefused(c)
    \/ DeadLetterFailed(c)

StreamNext ==
    \/ Publish
    \/ Tick
    \/ \E c \in Consumers :
         \/ Start(c)
         \/ ReadPending(c) \/ BacklogEnds(c) \/ ReadNew(c)
         \/ Handle(c)
         \/ FailDecision(c) \/ Stop(c) \/ Interrupt(c)

StreamSpec == StreamInit /\ [][StreamNext]_streamVars

\* A stopped instance is started again, no read of an instance is for ever
\* forestalled by its stops, and a run handles what it read.
StreamFairness ==
    \A c \in Consumers : /\ WF_streamVars(Start(c))
                         /\ SF_streamVars(ReadPending(c))
                         /\ SF_streamVars(BacklogEnds(c))
                         /\ SF_streamVars(ReadNew(c))
                         /\ WF_streamVars(Handle(c))

FairStreamSpec == StreamSpec /\ StreamFairness

-----------------------------------------------------------------------------
(* Properties. *)

DeadLettered(m) == \E entry \in dlq : entry.message = m
Of(e) == {m \in Messages : Stream[m] = e}
Holding(m) ==
    \E c \in Consumers : /\ consumers[c].pc \in {"decide", "refused", "failed"}
                         /\ InHand(c) = m

\* At most once per event id: however often an event is published, whichever
\* instances read it, whatever fails and whenever its key expires, the ledger
\* decides it at most once.
AtMostOnce ==
    \A m, n \in Messages :
      /\ decided[m] <= 1
      /\ (m # n /\ Stream[m] = Stream[n] /\ decided[m] > 0) => decided[n] = 0

\* No message is rejected silently: of the acknowledged messages of an event
\* all but one, and all that are no event, are in the dead-letter stream.
NoSilentRejection ==
    \A m \in acked : ~DeadLettered(m) =>
      /\ Stream[m] # Malformed
      /\ \A n \in acked \ {m} : Stream[n] = Stream[m] => DeadLettered(n)

\* A failure loses at most the login in hand: the events that no run has left
\* and that were neither decided nor dead-lettered for what they are (a lost
\* event may be dead-lettered as its own duplicate) are no more than the
\* failures.
Lost(e) ==
    /\ Of(e) \cap acked # {}
    /\ \A m \in Of(e) :
         /\ decided[m] = 0
         /\ ~Holding(m)
         /\ \A c \in Consumers : m \notin pending[c]
         /\ \A entry \in dlq : entry.message = m => entry.reason = "duplicate"

OneLossPerFailure == Cardinality({e \in Events : Lost(e)}) <= interruptions

\* Every published message is acknowledged some day, decided or dead-lettered:
\* none stays pending for good, whichever runs failed holding it.
MessagesHandled == \A m \in Messages : (m <= published) ~> (m \in acked)
=============================================================================
