------------------------------ MODULE LoginProofs ------------------------------
(***************************************************************************)
(* Proofs about the login stream, for any stream, any instances of the     *)
(* group and any lateness bound shorter than the deduplication window: a   *)
(* login is decided at most once, none is rejected silently, and failures  *)
(* lose at most one login each.                                            *)
(***************************************************************************)
EXTENDS LoginStream, Iteration, SequenceTheorems

-----------------------------------------------------------------------------
(* The inductive invariant. *)

Run == [pc : Steps, batch : SUBSET Messages, backlog : BOOLEAN, reason : Reasons \cup {"none"}]

LoginTypes ==
    /\ now \in Nat /\ published \in Nat /\ delivered \in Nat
    /\ pending \in [Consumers -> SUBSET Messages]
    /\ keys \in [Events -> Nat]
    /\ acked \in SUBSET Messages
    /\ dlq \in SUBSET [message : Messages, reason : Reasons]
    /\ decided \in [Messages -> Nat]
    /\ consumers \in [Consumers -> Run]
    /\ interruptions \in Nat

\* What was delivered was published, and no event before its timestamp.
PublishedInTime ==
    /\ delivered <= published /\ published <= Len(Stream)
    /\ \A c \in Consumers : pending[c] \subseteq 1 .. published
    /\ \A m \in Messages :
         (m <= published /\ Stream[m] # Malformed) => TimestampOf[Stream[m]] <= now

\* A key lives until every copy of its event is late.
KeysOutlive == \A e \in Events : keys[e] = 0 \/ keys[e] >= TimestampOf[e] + DedupTTL

\* A run that may still decide the event it has in hand.
Active == {"accept", "decide", "refused"}
Deciding(c) == consumers[c].pc \in Active

\* What a run has in hand: it is pending until it is acknowledged; it was
\* rejected as a duplicate of an event with a key, and dead-lettered before the
\* acknowledgement; it is decided only with a key of its own, by nobody else.
Hands(c) ==
    /\ consumers[c].pc \notin {"stopped", "read"} => consumers[c].batch # {}
    /\ consumers[c].pc \in {"hand", "reject", "rejected", "accept"} =>
         consumers[c].batch \subseteq pending[c]
    /\ consumers[c].pc \in {"decide", "refused", "failed"} =>
         consumers[c].batch \ {InHand(c)} \subseteq pending[c]
    /\ consumers[c].pc \in {"reject", "rejected"} =>
         /\ consumers[c].reason \in CheckReasons
         /\ consumers[c].reason = "duplicate" =>
              EventInHand(c) \in Events /\ keys[EventInHand(c)] # 0
    /\ consumers[c].pc = "rejected" =>
         [message |-> InHand(c), reason |-> consumers[c].reason] \in dlq
    /\ Deciding(c) =>
         /\ EventInHand(c) \in Events
         /\ keys[EventInHand(c)] # 0
         /\ \A m \in Of(EventInHand(c)) : decided[m] = 0
    /\ consumers[c].pc = "accept" =>
         \A m \in Of(EventInHand(c)) \cap acked : DeadLettered(m)

Exclusive ==
    \A c, d \in Consumers :
      (Deciding(c) /\ Deciding(d) /\ EventInHand(c) = EventInHand(d)) => c = d

\* An acknowledged or decided message is of an event that has a key, or it was
\* dead-lettered for what it is.
Traced(m) ==
    /\ m \in acked =>
         \/ Stream[m] \in Events /\ keys[Stream[m]] # 0
         \/ \E entry \in dlq : entry.message = m /\ entry.reason # "duplicate"
    /\ decided[m] > 0 => Stream[m] \in Events /\ keys[Stream[m]] # 0

\* The events that were accepted and that nobody decides any more.
GivenUp(e) ==
    /\ keys[e] # 0
    /\ \A c \in Consumers : Deciding(c) => EventInHand(c) # e
    /\ \A m \in Of(e) : decided[m] = 0
    /\ \A entry \in dlq : Stream[entry.message] = e => entry.reason # "ledger_refused"
Losses == {e \in Events : GivenUp(e)}

LossesAreFailures == IsFiniteSet(Losses) /\ Cardinality(Losses) <= interruptions

LoginInv ==
    /\ LoginTypes
    /\ PublishedInTime
    /\ KeysOutlive
    /\ \A c \in Consumers : Hands(c)
    /\ Exclusive
    /\ \A m \in Messages : Traced(m)
    /\ AtMostOnce
    /\ NoSilentRejection
    /\ LossesAreFailures

-----------------------------------------------------------------------------
(* Lemmas about messages. *)

LEMMA MessagesAre == Messages = 1 .. Len(Stream) /\ Len(Stream) \in Nat
BY StreamConstants DEF Messages

\* The message in hand is of the batch, as long as there is one.
LEMMA InHandIsInBatch ==
    ASSUME LoginTypes, NEW c \in Consumers, consumers[c].batch # {}
    PROVE  InHand(c) \in consumers[c].batch /\ InHand(c) \in Messages
<1>1. consumers[c].batch \in SUBSET Messages
  BY DEF LoginTypes, Run
<1>2. consumers[c].batch \in SUBSET Nat
  BY <1>1, MessagesAre
<1>3. \E m \in consumers[c].batch : \A n \in consumers[c].batch : m <= n
  BY <1>2, LeastOf
<1> QED BY <1>1, <1>3 DEF InHand

\* What is in hand depends on the batch alone.
LEMMA SameInHand ==
    ASSUME NEW c, consumers'[c].batch = consumers[c].batch
    PROVE  InHand(c)' = InHand(c) /\ EventInHand(c)' = EventInHand(c)
BY DEF InHand, EventInHand

-----------------------------------------------------------------------------
(* What a step of one run does, whichever step it is. *)

\* The other runs stay; keys, acknowledgements and dead letters are not taken
\* back; a message is acknowledged when it is dead-lettered or accepted; only
\* the run that may decide an event decides it, and it starts on an event that
\* has no key, which it sets; it leaves the event decided, refused or by a
\* failure.
RunEffect(c) ==
    /\ \A d \in Consumers \ {c} : consumers'[d] = consumers[d] /\ pending'[d] = pending[d]
    /\ \A e \in Events : keys[e] # 0 => keys'[e] # 0
    /\ acked \subseteq acked' /\ dlq \subseteq dlq'
    /\ \A m \in acked' \ acked :
         DeadLettered(m)' \/ (consumers[c].pc = "accept" /\ m = InHand(c))
    /\ \A m \in Messages :
         \/ decided'[m] = decided[m]
         \/ Deciding(c) /\ ~Deciding(c)' /\ m = InHand(c) /\ decided'[m] = decided[m] + 1
    /\ Deciding(c)' =>
         \/ Deciding(c) /\ EventInHand(c)' = EventInHand(c)
         \/ ~Deciding(c) /\ EventInHand(c)' \in Events /\ keys[EventInHand(c)'] = 0
    /\ \A e \in Events : (keys[e] = 0 /\ keys'[e] # 0) => (Deciding(c)' /\ EventInHand(c)' = e)
    /\ (Deciding(c) /\ ~Deciding(c)') =>
         \/ decided'[InHand(c)] # 0
         \/ \E entry \in dlq' : entry.message = InHand(c) /\ entry.reason = "ledger_refused"
         \/ interruptions' = interruptions + 1
    /\ interruptions' \in {interruptions, interruptions + 1}

\* What a step of one run leaves of the others' hands.
LEMMA OthersHands ==
    ASSUME LoginInv, NEW c \in Consumers, RunEffect(c), LoginTypes',
           NEW d \in Consumers \ {c}
    PROVE  Hands(d)'
<1>1. /\ consumers'[d] = consumers[d] /\ pending'[d] = pending[d]
      /\ InHand(d)' = InHand(d) /\ EventInHand(d)' = EventInHand(d)
      /\ Deciding(d)' = Deciding(d)
  BY SameInHand DEF RunEffect, Deciding
<1>2. Hands(d) /\ Hands(c)
  BY DEF LoginInv
<1>3. \A e \in Events : keys[e] # 0 => keys'[e] # 0
  BY DEF RunEffect
<1>4. dlq \subseteq dlq'
  BY DEF RunEffect
<1>5. ASSUME Deciding(d), Deciding(c) PROVE EventInHand(c) # EventInHand(d)
  BY <1>5 DEF LoginInv, Exclusive
<1>6. ASSUME Deciding(d) PROVE \A m \in Of(EventInHand(d)) : decided'[m] = 0
  <2> SUFFICES ASSUME NEW m \in Of(EventInHand(d)) PROVE decided'[m] = 0
    OBVIOUS
  <2>1. m \in Messages /\ Stream[m] = EventInHand(d) /\ decided[m] = 0
    BY <1>2, <1>6 DEF Of, Hands
  <2>2. ~(Deciding(c) /\ m = InHand(c))
    BY <1>5, <1>6, <2>1 DEF EventInHand
  <2> QED BY <2>1, <2>2 DEF RunEffect
<1>7. ASSUME consumers[d].pc = "accept"
      PROVE  \A m \in Of(EventInHand(d)) \cap acked' : DeadLettered(m)'
  <2> SUFFICES ASSUME NEW m \in Of(EventInHand(d)), m \in acked' PROVE DeadLettered(m)'
    OBVIOUS
  <2>1. CASE m \in acked
    BY <2>1, <1>2, <1>4, <1>7 DEF Hands, DeadLettered
  <2>2. CASE m \notin acked
    <3>1. Deciding(d) /\ Stream[m] = EventInHand(d)
      BY <1>7 DEF Deciding, Active, Of
    <3>2. ~(consumers[c].pc = "accept" /\ m = InHand(c))
      BY <1>5, <3>1 DEF Deciding, Active, EventInHand
    <3> QED BY <2>2, <3>2 DEF RunEffect
  <2> QED BY <2>1, <2>2
<1> QED BY <1>1, <1>2, <1>3, <1>4, <1>6, <1>7 DEF Hands, DeadLettered

\* Two runs never decide one event: a run starts on an event without a key.
LEMMA StaysExclusive ==
    ASSUME LoginInv, NEW c \in Consumers, RunEffect(c)
    PROVE  Exclusive'
<1>1. ASSUME NEW d \in Consumers \ {c}, Deciding(c)', Deciding(d)',
             EventInHand(c)' = EventInHand(d)'
      PROVE  FALSE
  <2>1. Deciding(d) /\ EventInHand(d)' = EventInHand(d)
    BY <1>1, SameInHand DEF RunEffect, Deciding
  <2>2. keys[EventInHand(d)] # 0
    BY <2>1 DEF LoginInv, Hands
  <2>3. Deciding(c) /\ EventInHand(c)' = EventInHand(c)
    BY <1>1, <2>1, <2>2 DEF RunEffect
  <2> QED BY <1>1, <2>1, <2>3 DEF LoginInv, Exclusive
<1>2. ASSUME NEW d \in Consumers \ {c} 
      PROVE  Deciding(d)' = Deciding(d) /\ EventInHand(d)' = EventInHand(d)
  BY SameInHand DEF RunEffect, Deciding
<1> QED BY <1>1, <1>2 DEF Exclusive, LoginInv

LEMMA StaysTraced ==
    ASSUME LoginInv, NEW c \in Consumers, RunEffect(c), LoginTypes', NEW m \in Messages,
           m \in acked' \ acked => (\/ Stream[m] \in Events /\ keys'[Stream[m]] # 0
                                    \/ \E entry \in dlq' : /\ entry.message = m
                                                           /\ entry.reason # "duplicate")
    PROVE  Traced(m)'
<1>1. Traced(m)
  BY DEF LoginInv
<1>2. dlq \subseteq dlq' /\ \A e \in Events : keys[e] # 0 => keys'[e] # 0
  BY DEF RunEffect
<1>3. decided'[m] > 0 => Stream[m] \in Events /\ keys'[Stream[m]] # 0
  <2>1. CASE decided'[m] = decided[m]
    BY <1>1, <1>2, <2>1 DEF Traced
  <2>2. CASE Deciding(c) /\ m = InHand(c)
    <3>1. EventInHand(c) \in Events /\ keys[EventInHand(c)] # 0
      BY <2>2 DEF LoginInv, Hands
    <3> QED BY <1>2, <2>2, <3>1 DEF EventInHand
  <2> QED BY <2>1, <2>2 DEF RunEffect
<1> QED BY <1>1, <1>2, <1>3 DEF Traced

\* An event is decided once, by the run that has it in hand.
LEMMA StaysOnce ==
    ASSUME LoginInv, NEW c \in Consumers, RunEffect(c)
    PROVE  AtMostOnce'
<1>1. \A m \in Messages : decided[m] \in Nat
  BY DEF LoginInv, LoginTypes
<1>2. CASE \A m \in Messages : decided'[m] = decided[m]
  BY <1>2 DEF AtMostOnce, LoginInv
<1>3. CASE \E m \in Messages : decided'[m] # decided[m]
  <2>1. PICK h \in Messages : decided'[h] # decided[h]
    BY <1>3
  <2>2. Deciding(c) /\ h = InHand(c) /\ decided'[h] = decided[h] + 1
    BY <2>1 DEF RunEffect
  <2>3. \A m \in Messages \ {h} : decided'[m] = decided[m]
    BY <2>2 DEF RunEffect
  <2>4. \A m \in Messages : Stream[m] = Stream[h] => decided[m] = 0
    BY <2>2 DEF LoginInv, Hands, EventInHand, Of
  <2>5. decided'[h] = 1
    BY <2>2, <2>4
  <2>6. ASSUME NEW m \in Messages PROVE decided'[m] <= 1
    BY <2>3, <2>5 DEF AtMostOnce, LoginInv
  <2>7. ASSUME NEW m \in Messages, NEW n \in Messages, m # n, Stream[m] = Stream[n],
               decided'[m] > 0
        PROVE  decided'[n] = 0
    <3>1. CASE m = h
      BY <3>1, <2>3, <2>4, <2>7
    <3>2. CASE m # h /\ n = h
      <4>1. decided[m] > 0 /\ decided[m] = 0
        BY <3>2, <2>3, <2>4, <2>7
      <4> QED BY <4>1
    <3>3. CASE m # h /\ n # h
      BY <3>3, <2>3, <2>7 DEF AtMostOnce, LoginInv
    <3> QED BY <3>1, <3>2, <3>3
  <2> QED BY <2>6, <2>7 DEF AtMostOnce
<1> QED BY <1>2, <1>3

\* A message that is acknowledged and not dead-lettered was accepted, when all
\* acknowledged copies of its event were dead-lettered.
LEMMA StaysLoud ==
    ASSUME LoginInv, NEW c \in Consumers, RunEffect(c), LoginTypes'
    PROVE  NoSilentRejection'
<1>1. \A m \in Messages : DeadLettered(m) => DeadLettered(m)'
  BY DEF RunEffect, DeadLettered
<1>2. acked \subseteq Messages /\ acked' \subseteq Messages
  BY DEF LoginInv, LoginTypes
<1>3. CASE \A m \in acked' \ acked : DeadLettered(m)'
  BY <1>1, <1>2, <1>3 DEF NoSilentRejection, LoginInv
<1>4. CASE \E m \in acked' \ acked : ~DeadLettered(m)'
  <2>1. PICK h \in acked' \ acked : ~DeadLettered(h)'
    BY <1>4
  <2>2. consumers[c].pc = "accept" /\ h = InHand(c)
    BY <2>1 DEF RunEffect
  <2>3. \A m \in acked' \ acked : m # h => DeadLettered(m)'
    BY <2>2 DEF RunEffect
  <2>4. Stream[h] \in Events /\ \A m \in Of(Stream[h]) \cap acked : DeadLettered(m)
    BY <2>2 DEF LoginInv, Hands, Deciding, Active, EventInHand
  <2>5. ASSUME NEW m \in acked', m # h, Stream[m] = Stream[h] PROVE DeadLettered(m)'
    BY <1>1, <1>2, <2>3, <2>4, <2>5 DEF Of
  <2>6. ASSUME NEW m \in acked', ~DeadLettered(m)', m # h
        PROVE  /\ Stream[m] # Malformed
               /\ \A n \in acked' \ {m} : Stream[n] = Stream[m] => DeadLettered(n)'
    <3>1. m \in acked /\ ~DeadLettered(m) /\ Stream[m] # Stream[h]
      BY <1>1, <1>2, <2>3, <2>5, <2>6
    <3> QED BY <1>1, <1>2, <2>3, <3>1 DEF NoSilentRejection, LoginInv
  <2>7. Stream[h] # Malformed
    BY <2>4, StreamConstants
  <2> QED BY <2>5, <2>6, <2>7 DEF NoSilentRejection
<1> QED BY <1>3, <1>4

\* An event is given up by the failure of the run that was to decide it.
LEMMA StaysCounted ==
    ASSUME LoginInv, NEW c \in Consumers, RunEffect(c), LoginTypes'
    PROVE  LossesAreFailures'
<1>1. ASSUME NEW e \in Events, GivenUp(e)', ~GivenUp(e)
      PROVE  Deciding(c) /\ EventInHand(c) = e /\ interruptions' = interruptions + 1
  <2>1. keys'[e] # 0 /\ (Deciding(c)' => EventInHand(c)' # e)
    BY <1>1 DEF GivenUp
  <2>2. keys[e] # 0
    BY <2>1 DEF RunEffect
  <2>3. \A m \in Of(e) : decided[m] = 0
    <3> SUFFICES ASSUME NEW m \in Of(e) PROVE decided[m] = 0
      OBVIOUS
    <3>1. decided'[m] = 0 /\ m \in Messages
      BY <1>1 DEF GivenUp, Of
    <3>2. decided[m] \in Nat
      BY <3>1 DEF LoginInv, LoginTypes
    <3> QED BY <3>1, <3>2 DEF RunEffect
  <2>4. \A entry \in dlq : Stream[entry.message] = e => entry.reason # "ledger_refused"
    BY <1>1 DEF GivenUp, RunEffect
  <2>5. PICK d \in Consumers : Deciding(d) /\ EventInHand(d) = e
    BY <1>1, <2>2, <2>3, <2>4 DEF GivenUp
  <2>6. d = c
    <3> SUFFICES ASSUME d # c PROVE FALSE
      OBVIOUS
    <3>1. Deciding(d)' /\ EventInHand(d)' = e
      BY <2>5, SameInHand DEF RunEffect, Deciding
    <3> QED BY <1>1, <3>1 DEF GivenUp
  <2>7. ~Deciding(c)'
    BY <2>1, <2>5, <2>6 DEF RunEffect
  <2>8. consumers[c].batch # {} /\ InHand(c) \in Of(e)
    BY <2>5, <2>6, InHandIsInBatch DEF LoginInv, Hands, Deciding, Active, Of, EventInHand
  <2>9. decided'[InHand(c)] = 0
    BY <1>1, <2>8 DEF GivenUp
  <2>10. ~\E entry \in dlq' : entry.message = InHand(c) /\ entry.reason = "ledger_refused"
    BY <1>1, <2>8 DEF GivenUp, Of
  <2> QED BY <2>5, <2>6, <2>7, <2>9, <2>10 DEF RunEffect
<1>2. interruptions \in Nat /\ IsFiniteSet(Losses) /\ Cardinality(Losses) <= interruptions
  BY DEF LoginInv, LoginTypes, LossesAreFailures
<1>3. interruptions' \in {interruptions, interruptions + 1}
  BY DEF RunEffect
<1>4. CASE Losses' \subseteq Losses
  BY <1>2, <1>3, <1>4, FS_Subset, FS_CardinalityType DEF LossesAreFailures
<1>5. CASE ~(Losses' \subseteq Losses)
  <2>1. PICK e \in Events : GivenUp(e)' /\ ~GivenUp(e)
    BY <1>5 DEF Losses
  <2>2. interruptions' = interruptions + 1 /\ EventInHand(c) = e
    BY <2>1, <1>1
  <2>3. Losses' \subseteq Losses \cup {e}
    BY <1>1, <2>2 DEF Losses
  <2>4. /\ IsFiniteSet(Losses \cup {e}) /\ Cardinality(Losses \cup {e}) <= interruptions + 1
    <3>1. Cardinality(Losses) \in Nat
      BY <1>2, FS_CardinalityType
    <3>2. /\ IsFiniteSet(Losses \cup {e})
          /\ Cardinality(Losses \cup {e}) \in {Cardinality(Losses), Cardinality(Losses) + 1}
      BY <1>2, FS_AddElement
    <3> QED BY <1>2, <3>1, <3>2
  <2>5. IsFiniteSet(Losses') /\ Cardinality(Losses') <= Cardinality(Losses \cup {e})
    BY <2>3, <2>4, FS_Subset
  <2>6. Cardinality(Losses') \in Nat /\ Cardinality(Losses \cup {e}) \in Nat
    BY <2>4, <2>5, FS_CardinalityType
  <2> QED BY <1>2, <2>2, <2>4, <2>5, <2>6 DEF LossesAreFailures
<1> QED BY <1>4, <1>5

-----------------------------------------------------------------------------
(* Each step of a run. *)

\* What a step of a run establishes, beside its effect.
RunStep(c) ==
    /\ RunEffect(c)
    /\ LoginTypes' /\ PublishedInTime' /\ KeysOutlive' /\ Hands(c)'
    /\ \A m \in acked' \ acked :
         \/ Stream[m] \in Events /\ keys'[Stream[m]] # 0
         \/ \E entry \in dlq' : entry.message = m /\ entry.reason # "duplicate"

LEMMA RunStepKeeps ==
    ASSUME LoginInv, NEW c \in Consumers, RunStep(c)
    PROVE  LoginInv'
<1>1. RunEffect(c) /\ LoginTypes' /\ PublishedInTime' /\ KeysOutlive' /\ Hands(c)'
  BY DEF RunStep
<1>2. \A d \in Consumers : Hands(d)'
  BY <1>1, OthersHands
<1>3. \A m \in Messages : Traced(m)'
  BY <1>1, StaysTraced DEF RunStep
<1>4. Exclusive' /\ AtMostOnce' /\ NoSilentRejection' /\ LossesAreFailures'
  BY <1>1, StaysExclusive, StaysOnce, StaysLoud, StaysCounted
<1> QED BY <1>1, <1>2, <1>3, <1>4 DEF LoginInv

\* A step that moves one run only.
LEMMA OneRun ==
    ASSUME LoginTypes, NEW c \in Consumers, NEW r \in Run,
           consumers' = [consumers EXCEPT ![c] = r]
    PROVE  /\ consumers' \in [Consumers -> Run]
           /\ consumers'[c] = r
           /\ \A d \in Consumers \ {c} : consumers'[d] = consumers[d]
BY DEF LoginTypes

\* A run moves on in its protocol and leaves its batch alone.
LEMMA MovesOn ==
    ASSUME LoginTypes, NEW c \in Consumers, NEW pc \in Steps,
           consumers' = [consumers EXCEPT ![c].pc = pc]
    PROVE  /\ consumers' \in [Consumers -> Run]
           /\ \A d \in Consumers \ {c} : consumers'[d] = consumers[d]
           /\ consumers'[c].pc = pc
           /\ consumers'[c].batch = consumers[c].batch
           /\ consumers'[c].reason = consumers[c].reason
           /\ InHand(c)' = InHand(c) /\ EventInHand(c)' = EventInHand(c)
<1> DEFINE r == [consumers[c] EXCEPT !.pc = pc]
<1>1. consumers[c] \in Run
  BY DEF LoginTypes
<1>2. r \in Run
  BY <1>1 DEF Run
<1>3. r.pc = pc /\ r.batch = consumers[c].batch /\ r.reason = consumers[c].reason
  BY <1>1 DEF Run
<1>4. consumers' = [consumers EXCEPT ![c] = r]
  OBVIOUS
<1> HIDE DEF r
<1>5. /\ consumers' \in [Consumers -> Run] /\ consumers'[c] = r
      /\ \A d \in Consumers \ {c} : consumers'[d] = consumers[d]
  BY <1>2, <1>4, OneRun
<1> QED BY <1>3, <1>5, SameInHand

LEMMA StoppedIsRun == Stopped \in Run /\ [Stopped EXCEPT !.pc = "read"] \in Run
BY DEF Stopped, Run, Steps

\* A run that is neither deciding nor handling needs nothing in hand.
LEMMA Idle ==
    ASSUME NEW c, consumers[c].pc \in {"stopped", "read"}
    PROVE  Hands(c) /\ ~Deciding(c)
BY DEF Hands, Deciding, Active

\* A run that is done with a message has the rest of its batch pending.
LEMMA GoesOn ==
    ASSUME LoginInv, NEW c \in Consumers,
           consumers' = [consumers EXCEPT ![c] = NextInBatch(c)],
           consumers[c].batch \ {InHand(c)} \subseteq pending'[c]
    PROVE  /\ consumers' \in [Consumers -> Run]
           /\ \A d \in Consumers \ {c} : consumers'[d] = consumers[d]
           /\ Hands(c)' /\ ~Deciding(c)'
<1> DEFINE rest == consumers[c].batch \ {InHand(c)}
<1>1. consumers[c] \in Run
  BY DEF LoginInv, LoginTypes
<1>2. /\ NextInBatch(c) \in Run
      /\ NextInBatch(c).pc = (IF rest = {} THEN "read" ELSE "hand")
      /\ NextInBatch(c).batch = rest
  BY <1>1 DEF NextInBatch, Run, Steps
<1>3. /\ consumers' \in [Consumers -> Run] /\ consumers'[c] = NextInBatch(c)
      /\ \A d \in Consumers \ {c} : consumers'[d] = consumers[d]
  BY <1>2, OneRun DEF LoginInv
<1> QED BY <1>2, <1>3 DEF Hands, Deciding, Active

\* A step that leaves the clock, the stream, the keys and what is pending.
Unhurried == UNCHANGED <<now, published, delivered, keys>>

LEMMA StillInTime ==
    ASSUME LoginInv, Unhurried, \A c \in Consumers : pending'[c] \subseteq pending[c]
    PROVE  PublishedInTime' /\ KeysOutlive'
<1>1. PublishedInTime'
  BY MessagesAre DEF LoginInv, PublishedInTime, Unhurried
<1> QED BY <1>1 DEF LoginInv, KeysOutlive, Unhurried

\* A step that moves a run which was not to decide its event, and acknowledges,
\* dead-letters and decides nothing.
Shared == <<now, published, delivered, pending, keys, acked, dlq, decided>>

LEMMA QuietStep ==
    ASSUME LoginInv, NEW c \in Consumers, UNCHANGED Shared,
           consumers' \in [Consumers -> Run],
           \A d \in Consumers \ {c} : consumers'[d] = consumers[d],
           Hands(c)',
           Deciding(c)' => Deciding(c) /\ EventInHand(c)' = EventInHand(c),
           interruptions' = interruptions + 1 \/ interruptions' = interruptions,
           (Deciding(c) /\ ~Deciding(c)') => interruptions' = interruptions + 1
    PROVE  RunStep(c)
<1>1. /\ now' = now /\ published' = published /\ delivered' = delivered
      /\ pending' = pending /\ keys' = keys /\ acked' = acked /\ dlq' = dlq
      /\ decided' = decided
  BY DEF Shared
<1>2. PublishedInTime' /\ KeysOutlive'
  BY <1>1, StillInTime DEF Unhurried
<1>3. interruptions \in Nat /\ interruptions' \in Nat
  BY DEF LoginInv, LoginTypes
<1>4. LoginTypes'
  BY <1>1, <1>3 DEF LoginInv, LoginTypes
<1>5. RunEffect(c)
  BY <1>1 DEF RunEffect
<1> QED BY <1>1, <1>2, <1>4, <1>5 DEF RunStep

LEMMA StartStep ==
    ASSUME LoginInv, NEW c \in Consumers, Start(c)
    PROVE  RunStep(c)
<1>1. /\ UNCHANGED Shared /\ interruptions' = interruptions
      /\ consumers[c].pc = "stopped"
      /\ consumers' = [consumers EXCEPT ![c] = [Stopped EXCEPT !.pc = "read"]]
  BY DEF Start, Shared
<1>2. /\ consumers' \in [Consumers -> Run] /\ consumers'[c] = [Stopped EXCEPT !.pc = "read"]
      /\ \A d \in Consumers \ {c} : consumers'[d] = consumers[d]
  BY <1>1, StoppedIsRun, OneRun DEF LoginInv
<1>3. consumers'[c].pc = "read"
  BY <1>2 DEF Stopped
<1>4. Hands(c)' /\ ~Deciding(c)' /\ ~Deciding(c)
  BY <1>1, <1>3, Idle DEF Hands, Deciding, Active
<1> QED BY <1>1, <1>2, <1>4, QuietStep

\* A run reads, in hand, what is pending.
LEMMA Reads ==
    ASSUME LoginInv, NEW c \in Consumers, consumers[c].pc = "read",
           NEW batch \in SUBSET Messages, batch # {}, batch \subseteq pending'[c],
           Take(c, batch)
    PROVE  /\ consumers' \in [Consumers -> Run]
           /\ \A d \in Consumers \ {c} : consumers'[d] = consumers[d]
           /\ Hands(c)' /\ ~Deciding(c)' /\ ~Deciding(c)
<1> DEFINE r == [consumers[c] EXCEPT !.pc = "hand", !.batch = batch]
<1>1. consumers[c] \in Run
  BY DEF LoginInv, LoginTypes
<1>2. r \in Run /\ r.pc = "hand" /\ r.batch = batch
  BY <1>1 DEF Run, Steps
<1>3. consumers' = [consumers EXCEPT ![c] = r]
  BY DEF Take
<1> HIDE DEF r
<1>4. /\ consumers' \in [Consumers -> Run] /\ consumers'[c] = r
      /\ \A d \in Consumers \ {c} : consumers'[d] = consumers[d]
  BY <1>2, <1>3, OneRun DEF LoginInv
<1> QED BY <1>2, <1>4 DEF Hands, Deciding, Active

LEMMA ReadPendingStep ==
    ASSUME LoginInv, NEW c \in Consumers, ReadPending(c)
    PROVE  RunStep(c)
<1>1. UNCHANGED Shared /\ interruptions' = interruptions /\ consumers[c].pc = "read"
  BY DEF ReadPending, Shared
<1>2. PICK batch \in (SUBSET pending[c]) \ {{}} : Take(c, batch)
  BY DEF ReadPending
<1>3. batch \in SUBSET Messages /\ batch # {} /\ batch \subseteq pending'[c]
  <2>1. pending' = pending
    BY <1>1 DEF Shared
  <2>2. pending[c] \in SUBSET Messages
    BY DEF LoginInv, LoginTypes
  <2>3. batch \subseteq pending[c] /\ batch # {}
    BY <1>2
  <2> QED BY <2>1, <2>2, <2>3
<1>4. /\ consumers' \in [Consumers -> Run]
      /\ \A d \in Consumers \ {c} : consumers'[d] = consumers[d]
      /\ Hands(c)' /\ ~Deciding(c)' /\ ~Deciding(c)
  BY <1>1, <1>2, <1>3, Reads
<1> QED BY <1>1, <1>4, QuietStep

LEMMA BacklogEndsStep ==
    ASSUME LoginInv, NEW c \in Consumers, BacklogEnds(c)
    PROVE  RunStep(c)
<1> DEFINE r == [consumers[c] EXCEPT !.backlog = FALSE]
<1>1. /\ UNCHANGED Shared /\ interruptions' = interruptions
      /\ consumers[c].pc = "read" /\ consumers' = [consumers EXCEPT ![c] = r]
  BY DEF BacklogEnds, Shared
<1>2. r \in Run /\ r.pc = "read"
  BY <1>1 DEF LoginInv, LoginTypes, Run
<1> HIDE DEF r
<1>3. /\ consumers' \in [Consumers -> Run] /\ consumers'[c] = r
      /\ \A d \in Consumers \ {c} : consumers'[d] = consumers[d]
  BY <1>1, <1>2, OneRun DEF LoginInv
<1>4. Hands(c)' /\ ~Deciding(c)' /\ ~Deciding(c)
  BY <1>1, <1>2, <1>3 DEF Hands, Deciding, Active
<1> QED BY <1>1, <1>3, <1>4, QuietStep

LEMMA ReadNewStep ==
    ASSUME LoginInv, NEW c \in Consumers, ReadNew(c)
    PROVE  RunStep(c)
<1>1. PICK last \in delivered + 1 .. published :
         /\ delivered' = last
         /\ pending' = [pending EXCEPT ![c] = @ \cup (delivered + 1 .. last)]
         /\ Take(c, delivered + 1 .. last)
  BY DEF ReadNew
<1>2. /\ now' = now /\ published' = published /\ keys' = keys /\ acked' = acked
      /\ dlq' = dlq /\ decided' = decided /\ interruptions' = interruptions
      /\ consumers[c].pc = "read"
  BY DEF ReadNew
<1>3. delivered \in Nat /\ published \in Nat /\ published <= Len(Stream)
  BY DEF LoginInv, LoginTypes, PublishedInTime
<1>4. /\ delivered + 1 .. last \subseteq 1 .. published
      /\ delivered + 1 .. last \in SUBSET Messages
      /\ delivered + 1 .. last # {}
      /\ last \in Nat /\ last <= published
  <2>1. last \in Int /\ delivered + 1 <= last /\ last <= published
    BY <1>1, <1>3
  <2>2. delivered + 1 .. last \subseteq 1 .. published
    BY <1>3, <2>1
  <2>3. 1 .. published \subseteq Messages
    BY <1>3, MessagesAre
  <2>4. last \in delivered + 1 .. last /\ last \in Nat
    BY <1>3, <2>1
  <2> QED BY <2>1, <2>2, <2>3, <2>4
<1>5. /\ pending' \in [Consumers -> SUBSET Messages]
      /\ delivered + 1 .. last \subseteq pending'[c]
      /\ \A d \in Consumers \ {c} : pending'[d] = pending[d]
      /\ pending'[c] \subseteq pending[c] \cup (delivered + 1 .. last)
  BY <1>1, <1>4 DEF LoginInv, LoginTypes
<1>6. /\ consumers' \in [Consumers -> Run]
      /\ \A d \in Consumers \ {c} : consumers'[d] = consumers[d]
      /\ Hands(c)' /\ ~Deciding(c)' /\ ~Deciding(c)
  BY <1>1, <1>2, <1>4, <1>5, Reads
<1>7. LoginTypes'
  BY <1>1, <1>2, <1>4, <1>5, <1>6 DEF LoginInv, LoginTypes
<1>8. PublishedInTime'
  <2>1. \A d \in Consumers : pending'[d] \subseteq 1 .. published
    BY <1>4, <1>5 DEF LoginInv, PublishedInTime
  <2> QED BY <2>1, <1>1, <1>2, <1>4 DEF LoginInv, PublishedInTime
<1>9. KeysOutlive'
  BY <1>2 DEF LoginInv, KeysOutlive
<1>10. RunEffect(c)
  BY <1>2, <1>5, <1>6 DEF RunEffect
<1> QED BY <1>2, <1>6, <1>7, <1>8, <1>9, <1>10 DEF RunStep

LEMMA RefuseStep ==
    ASSUME LoginInv, NEW c \in Consumers, Refuse(c)
    PROVE  RunStep(c)
<1>1. /\ UNCHANGED Shared /\ interruptions' = interruptions
      /\ consumers[c].pc = "decide" /\ consumers' = [consumers EXCEPT ![c].pc = "refused"]
  BY DEF Refuse, Shared
<1>2. /\ consumers' \in [Consumers -> Run]
      /\ \A d \in Consumers \ {c} : consumers'[d] = consumers[d]
      /\ consumers'[c].pc = "refused"
      /\ consumers'[c].batch = consumers[c].batch
      /\ InHand(c)' = InHand(c) /\ EventInHand(c)' = EventInHand(c)
  BY <1>1, MovesOn DEF LoginInv, Steps
<1>3. Deciding(c) /\ Deciding(c)' /\ Hands(c)
  BY <1>1, <1>2 DEF Deciding, Active, LoginInv
<1>4. Hands(c)'
  BY <1>1, <1>2, <1>3 DEF Hands, Shared
<1> QED BY <1>1, <1>2, <1>3, <1>4, QuietStep

LEMMA StopStep ==
    ASSUME LoginInv, NEW c \in Consumers, Stop(c)
    PROVE  RunStep(c)
<1>1. /\ UNCHANGED Shared /\ interruptions' = interruptions
      /\ consumers[c].pc = "read" /\ consumers' = [consumers EXCEPT ![c] = Stopped]
  BY DEF Stop, Shared
<1>2. /\ consumers' \in [Consumers -> Run] /\ consumers'[c] = Stopped
      /\ \A d \in Consumers \ {c} : consumers'[d] = consumers[d]
  BY <1>1, StoppedIsRun, OneRun DEF LoginInv
<1>3. Hands(c)' /\ ~Deciding(c)' /\ ~Deciding(c)
  BY <1>1, <1>2 DEF Stopped, Hands, Deciding, Active
<1> QED BY <1>1, <1>2, <1>3, QuietStep

LEMMA InterruptStep ==
    ASSUME LoginInv, NEW c \in Consumers, Interrupt(c)
    PROVE  RunStep(c)
<1>1. UNCHANGED Shared /\ consumers' = [consumers EXCEPT ![c] = Stopped]
  BY DEF Interrupt, Shared
<1>2. \/ consumers[c].pc = "failed" /\ interruptions' = interruptions
      \/ interruptions' = interruptions + 1
  BY DEF Interrupt
<1>3. /\ consumers' \in [Consumers -> Run] /\ consumers'[c] = Stopped
      /\ \A d \in Consumers \ {c} : consumers'[d] = consumers[d]
  BY <1>1, StoppedIsRun, OneRun DEF LoginInv
<1>4. Hands(c)' /\ ~Deciding(c)'
  BY <1>3 DEF Stopped, Hands, Deciding, Active
<1>5. Deciding(c) => interruptions' = interruptions + 1
  BY <1>2 DEF Deciding, Active
<1> QED BY <1>1, <1>2, <1>3, <1>4, <1>5, QuietStep

\* A message in hand that was read is a message; its event is one, or Malformed.
LEMMA HandIsPending ==
    ASSUME LoginInv, NEW c \in Consumers,
           consumers[c].pc \in {"hand", "reject", "rejected", "accept"}
    PROVE  /\ InHand(c) \in pending[c] /\ InHand(c) \in Messages
           /\ EventInHand(c) \in Events \cup {Malformed}
           /\ EventInHand(c) \in Events => TimestampOf[EventInHand(c)] <= now
<1>1. consumers[c].batch # {} /\ consumers[c].batch \subseteq pending[c]
  BY DEF LoginInv, Hands
<1>2. InHand(c) \in pending[c] /\ InHand(c) \in Messages
  BY <1>1, InHandIsInBatch DEF LoginInv
<1>3. EventInHand(c) \in Events \cup {Malformed}
  BY <1>2, MessagesAre, StreamConstants, ElementOfSeq DEF EventInHand
<1>4. InHand(c) <= published
  BY <1>2 DEF LoginInv, LoginTypes, PublishedInTime
<1>5. EventInHand(c) \in Events => EventInHand(c) # Malformed
  BY StreamConstants
<1> QED BY <1>2, <1>3, <1>4, <1>5 DEF LoginInv, PublishedInTime, EventInHand

\* A rejected message goes to the dead letters, a duplicate of an event that
\* has a key.
LEMMA RejectStep ==
    ASSUME LoginInv, NEW c \in Consumers, consumers[c].pc = "hand",
           NEW reason \in CheckReasons, Reject(c, reason),
           UNCHANGED <<now, published, delivered, pending, acked, dlq, decided, interruptions>>,
           reason = "duplicate" => EventInHand(c) \in Events /\ keys[EventInHand(c)] # 0
    PROVE  RunStep(c)
<1> DEFINE r == [consumers[c] EXCEPT !.pc = "reject", !.reason = reason]
<1>1. UNCHANGED Shared /\ interruptions' = interruptions
  BY DEF Reject, Shared
<1>2. consumers[c] \in Run
  BY DEF LoginInv, LoginTypes
<1>3. /\ r \in Run /\ r.pc = "reject" /\ r.reason = reason
      /\ r.batch = consumers[c].batch
  BY <1>2 DEF Run, Steps, Reasons, CheckReasons
<1>4. consumers' = [consumers EXCEPT ![c] = r]
  BY DEF Reject
<1> HIDE DEF r
<1>5. /\ consumers' \in [Consumers -> Run] /\ consumers'[c] = r
      /\ \A d \in Consumers \ {c} : consumers'[d] = consumers[d]
  BY <1>3, <1>4, OneRun DEF LoginInv
<1>6. InHand(c)' = InHand(c) /\ EventInHand(c)' = EventInHand(c)
  BY <1>3, <1>5, SameInHand
<1>7. ~Deciding(c) /\ ~Deciding(c)'
  BY <1>3, <1>5 DEF Deciding, Active
<1>8. Hands(c)
  BY DEF LoginInv
<1>9. keys' = keys /\ pending' = pending
  BY DEF Reject
<1>10. Hands(c)'
  <2>1. consumers'[c].pc = "reject" /\ consumers'[c].reason = reason
        /\ consumers'[c].batch = consumers[c].batch
    BY <1>3, <1>5
  <2> QED BY <2>1, <1>6, <1>7, <1>8, <1>9 DEF Hands
<1> QED BY <1>1, <1>5, <1>7, <1>10, QuietStep

\* A run accepts an event that is not late and has no key: it never had one,
\* for a key outlives the lateness bound.  Nobody decided it, and what was
\* acknowledged of it was dead-lettered.
LEMMA AcceptStep ==
    ASSUME LoginInv, NEW c \in Consumers, consumers[c].pc = "hand",
           NEW e \in Events, e = EventInHand(c), ~Late(e), ~HasKey(e),
           keys' = [keys EXCEPT ![e] = now + DedupTTL],
           consumers' = [consumers EXCEPT ![c].pc = "accept"],
           UNCHANGED <<now, published, delivered, pending, acked, dlq, decided, interruptions>>
    PROVE  RunStep(c)
<1>1. /\ now' = now /\ published' = published /\ delivered' = delivered
      /\ pending' = pending /\ acked' = acked /\ dlq' = dlq /\ decided' = decided
      /\ interruptions' = interruptions
  OBVIOUS
<1>2. /\ TimestampOf[e] \in Nat /\ now \in Nat /\ keys[e] \in Nat /\ DedupTTL \in Nat
      /\ Lateness \in Nat /\ Lateness < DedupTTL /\ TimestampOf[e] <= now
  <2>1. TimestampOf[e] <= now
    BY HandIsPending
  <2> QED BY <2>1, StreamConstants DEF LoginInv, LoginTypes
<1>3. keys[e] = 0
  <2>1. keys[e] = 0 \/ keys[e] >= TimestampOf[e] + DedupTTL
    BY DEF LoginInv, KeysOutlive
  <2>2. now - TimestampOf[e] <= Lateness /\ keys[e] <= now
    BY <1>2 DEF Late, HasKey
  <2> QED BY <1>2, <2>1, <2>2
<1>4. /\ keys' \in [Events -> Nat]
      /\ keys'[e] = now + DedupTTL /\ keys'[e] # 0
      /\ \A f \in Events \ {e} : keys'[f] = keys[f]
  BY <1>2 DEF LoginInv, LoginTypes
<1>5. /\ consumers' \in [Consumers -> Run]
      /\ \A d \in Consumers \ {c} : consumers'[d] = consumers[d]
      /\ consumers'[c].pc = "accept"
      /\ consumers'[c].batch = consumers[c].batch
      /\ InHand(c)' = InHand(c) /\ EventInHand(c)' = e
  BY MovesOn DEF LoginInv, Steps
<1>6. ~Deciding(c) /\ Deciding(c)' /\ Hands(c)
  BY <1>5 DEF Deciding, Active, LoginInv
<1>7. ASSUME NEW m \in Of(e) PROVE decided[m] = 0 /\ (m \in acked => DeadLettered(m))
  <2>1. m \in Messages /\ Stream[m] = e
    BY DEF Of
  <2>2. decided[m] \in Nat /\ Traced(m)
    BY <2>1 DEF LoginInv, LoginTypes
  <2> QED BY <1>3, <2>1, <2>2 DEF Traced, DeadLettered
<1>8. Hands(c)'
  BY <1>1, <1>4, <1>5, <1>6, <1>7 DEF Hands, DeadLettered, Of
<1>9. LoginTypes'
  BY <1>1, <1>4, <1>5 DEF LoginInv, LoginTypes
<1>10. PublishedInTime'
  BY <1>1 DEF LoginInv, PublishedInTime
<1>11. KeysOutlive'
  <2> SUFFICES ASSUME NEW f \in Events
               PROVE  keys'[f] = 0 \/ keys'[f] >= TimestampOf[f] + DedupTTL
    BY DEF KeysOutlive
  <2>1. CASE f = e
    BY <2>1, <1>2, <1>4
  <2>2. CASE f # e
    BY <2>2, <1>4 DEF LoginInv, KeysOutlive
  <2> QED BY <2>1, <2>2
<1>12. RunEffect(c)
  BY <1>1, <1>3, <1>4, <1>5, <1>6 DEF RunEffect
<1> QED BY <1>1, <1>8, <1>9, <1>10, <1>11, <1>12 DEF RunStep

LEMMA CheckStep ==
    ASSUME LoginInv, NEW c \in Consumers, Check(c)
    PROVE  RunStep(c)
<1> DEFINE e == EventInHand(c)
<1>1. /\ consumers[c].pc = "hand"
      /\ UNCHANGED <<now, published, delivered, pending, acked, dlq, decided, interruptions>>
  BY DEF Check
<1>2. e \in Events \cup {Malformed} /\ Malformed \notin Events
  BY <1>1, HandIsPending, StreamConstants
<1>3. CASE e = Malformed /\ Reject(c, "schema_error")
  BY <1>1, <1>3, RejectStep DEF CheckReasons
<1>4. CASE Reject(c, "lateness")
  BY <1>1, <1>4, RejectStep DEF CheckReasons
<1>5. CASE e # Malformed /\ HasKey(e) /\ Reject(c, "duplicate")
  <2>1. e \in Events
    BY <1>2, <1>5
  <2>2. keys[e] # 0
    BY <1>5, <2>1 DEF LoginInv, LoginTypes, HasKey
  <2> QED BY <1>1, <1>5, <2>1, <2>2, RejectStep DEF CheckReasons
<1>6. CASE /\ e # Malformed /\ ~Late(e) /\ ~HasKey(e)
           /\ keys' = [keys EXCEPT ![e] = now + DedupTTL]
           /\ consumers' = [consumers EXCEPT ![c].pc = "accept"]
  BY <1>1, <1>2, <1>6, AcceptStep
<1> QED BY <1>3, <1>4, <1>5, <1>6 DEF Check

\* A rejected message is dead-lettered before it is acknowledged.
LEMMA DeadLetterRejectedStep ==
    ASSUME LoginInv, NEW c \in Consumers, DeadLetterRejected(c)
    PROVE  RunStep(c)
<1> DEFINE entry == [message |-> InHand(c), reason |-> consumers[c].reason]
<1>1. /\ consumers[c].pc = "reject" /\ dlq' = dlq \cup {entry}
      /\ consumers' = [consumers EXCEPT ![c].pc = "rejected"]
      /\ now' = now /\ published' = published /\ delivered' = delivered
      /\ pending' = pending /\ keys' = keys /\ acked' = acked
      /\ decided' = decided /\ interruptions' = interruptions
  BY DEF DeadLetterRejected, DeadLetter
<1>2. /\ consumers' \in [Consumers -> Run]
      /\ \A d \in Consumers \ {c} : consumers'[d] = consumers[d]
      /\ consumers'[c].pc = "rejected"
      /\ consumers'[c].batch = consumers[c].batch
      /\ consumers'[c].reason = consumers[c].reason
      /\ InHand(c)' = InHand(c) /\ EventInHand(c)' = EventInHand(c)
  BY <1>1, MovesOn DEF LoginInv, Steps
<1>3. Hands(c) /\ ~Deciding(c) /\ ~Deciding(c)'
  BY <1>1, <1>2 DEF LoginInv, Deciding, Active
<1>4. entry \in [message : Messages, reason : Reasons]
  <2>1. InHand(c) \in Messages
    BY <1>1, HandIsPending
  <2>2. consumers[c].reason \in Reasons
    BY <1>1, <1>3 DEF Hands, Reasons
  <2> QED BY <2>1, <2>2
<1>5. entry \in dlq' /\ dlq \subseteq dlq'
  BY <1>1
<1>6. LoginTypes'
  BY <1>1, <1>2, <1>4 DEF LoginInv, LoginTypes
<1>7. Hands(c)'
  BY <1>1, <1>2, <1>3, <1>5 DEF Hands
<1>8. PublishedInTime' /\ KeysOutlive'
  BY <1>1, StillInTime DEF Unhurried
<1>9. RunEffect(c)
  BY <1>1, <1>2, <1>3, <1>5 DEF RunEffect
<1> QED BY <1>1, <1>6, <1>7, <1>8, <1>9 DEF RunStep

\* The message in hand leaves the pending list of its run.
LEMMA Acknowledged ==
    ASSUME LoginInv, NEW c \in Consumers, Acknowledge(c), InHand(c) \in Messages
    PROVE  /\ acked' = acked \cup {InHand(c)} /\ acked' \in SUBSET Messages
           /\ pending' \in [Consumers -> SUBSET Messages]
           /\ pending'[c] = pending[c] \ {InHand(c)}
           /\ \A d \in Consumers \ {c} : pending'[d] = pending[d]
           /\ \A d \in Consumers : pending'[d] \subseteq pending[d]
BY DEF Acknowledge, LoginInv, LoginTypes

LEMMA AckRejectedStep ==
    ASSUME LoginInv, NEW c \in Consumers, AckRejected(c)
    PROVE  RunStep(c)
<1>1. /\ consumers[c].pc = "rejected" /\ Acknowledge(c)
      /\ consumers' = [consumers EXCEPT ![c] = NextInBatch(c)]
      /\ now' = now /\ published' = published /\ delivered' = delivered
      /\ keys' = keys /\ dlq' = dlq
      /\ decided' = decided /\ interruptions' = interruptions
  BY DEF AckRejected
<1>2. InHand(c) \in Messages
  BY <1>1, HandIsPending
<1>3. /\ acked' = acked \cup {InHand(c)} /\ acked' \in SUBSET Messages
      /\ pending' \in [Consumers -> SUBSET Messages]
      /\ pending'[c] = pending[c] \ {InHand(c)}
      /\ \A d \in Consumers \ {c} : pending'[d] = pending[d]
      /\ \A d \in Consumers : pending'[d] \subseteq pending[d]
  BY <1>1, <1>2, Acknowledged
<1>4. Hands(c) /\ ~Deciding(c)
  BY <1>1 DEF LoginInv, Deciding, Active
<1>5. /\ consumers' \in [Consumers -> Run]
      /\ \A d \in Consumers \ {c} : consumers'[d] = consumers[d]
      /\ Hands(c)' /\ ~Deciding(c)'
  <2>1. consumers[c].batch \subseteq pending[c]
    BY <1>1, <1>4 DEF Hands
  <2>2. consumers[c].batch \ {InHand(c)} \subseteq pending'[c]
    BY <1>3, <2>1
  <2> QED BY <1>1, <2>2, GoesOn
<1>6. LoginTypes'
  BY <1>1, <1>3, <1>5 DEF LoginInv, LoginTypes
<1>7. PublishedInTime' /\ KeysOutlive'
  BY <1>1, <1>3, StillInTime DEF Unhurried
<1>8. [message |-> InHand(c), reason |-> consumers[c].reason] \in dlq'
  BY <1>1, <1>4 DEF Hands
<1>9. \A m \in acked' \ acked : m = InHand(c)
  BY <1>3
<1>10. \E entry \in dlq' : entry.message = InHand(c)
  BY <1>8
<1>11. RunEffect(c)
  BY <1>1, <1>3, <1>4, <1>5, <1>9, <1>10 DEF RunEffect, DeadLettered
<1>12. \/ Stream[InHand(c)] \in Events /\ keys'[Stream[InHand(c)]] # 0
       \/ \E entry \in dlq' : entry.message = InHand(c) /\ entry.reason # "duplicate"
  <2>1. CASE consumers[c].reason = "duplicate"
    BY <1>1, <1>4, <2>1 DEF Hands, EventInHand
  <2>2. CASE consumers[c].reason # "duplicate"
    BY <1>8, <2>2
  <2> QED BY <2>1, <2>2
<1> QED BY <1>5, <1>6, <1>7, <1>9, <1>11, <1>12 DEF RunStep

\* An accepted message is acknowledged with the key of its event set.
LEMMA AckAcceptedStep ==
    ASSUME LoginInv, NEW c \in Consumers, AckAccepted(c)
    PROVE  RunStep(c)
<1>1. /\ consumers[c].pc = "accept" /\ Acknowledge(c)
      /\ consumers' = [consumers EXCEPT ![c].pc = "decide"]
      /\ now' = now /\ published' = published /\ delivered' = delivered
      /\ keys' = keys /\ dlq' = dlq
      /\ decided' = decided /\ interruptions' = interruptions
  BY DEF AckAccepted
<1>2. InHand(c) \in Messages
  BY <1>1, HandIsPending
<1>3. /\ acked' = acked \cup {InHand(c)} /\ acked' \in SUBSET Messages
      /\ pending' \in [Consumers -> SUBSET Messages]
      /\ pending'[c] = pending[c] \ {InHand(c)}
      /\ \A d \in Consumers \ {c} : pending'[d] = pending[d]
      /\ \A d \in Consumers : pending'[d] \subseteq pending[d]
  BY <1>1, <1>2, Acknowledged
<1>4. /\ consumers' \in [Consumers -> Run]
      /\ \A d \in Consumers \ {c} : consumers'[d] = consumers[d]
      /\ consumers'[c].pc = "decide"
      /\ consumers'[c].batch = consumers[c].batch
      /\ InHand(c)' = InHand(c) /\ EventInHand(c)' = EventInHand(c)
  BY <1>1, MovesOn DEF LoginInv, Steps
<1>5. Hands(c) /\ Deciding(c) /\ Deciding(c)'
  BY <1>1, <1>4 DEF LoginInv, Deciding, Active
<1>6. /\ EventInHand(c) \in Events /\ keys[EventInHand(c)] # 0
      /\ \A m \in Of(EventInHand(c)) : decided[m] = 0
      /\ consumers[c].batch # {} /\ consumers[c].batch \subseteq pending[c]
  BY <1>1, <1>5 DEF Hands
<1>7. Hands(c)'
  <2>1. consumers[c].batch \ {InHand(c)} \subseteq pending'[c]
    BY <1>3, <1>6
  <2> QED BY <2>1, <1>1, <1>4, <1>6 DEF Hands, Of
<1>8. LoginTypes'
  BY <1>1, <1>3, <1>4 DEF LoginInv, LoginTypes
<1>9. PublishedInTime' /\ KeysOutlive'
  BY <1>1, <1>3, StillInTime DEF Unhurried
<1>10. \A m \in acked' \ acked : m = InHand(c)
  BY <1>3
<1>11. RunEffect(c)
  BY <1>1, <1>3, <1>4, <1>5, <1>10 DEF RunEffect
<1>12. Stream[InHand(c)] \in Events /\ keys'[Stream[InHand(c)]] # 0
  BY <1>1, <1>6 DEF EventInHand
<1> QED BY <1>7, <1>8, <1>9, <1>10, <1>11, <1>12 DEF RunStep

\* What a run that is deciding has in hand.
LEMMA DecidingHolds ==
    ASSUME LoginInv, NEW c \in Consumers, consumers[c].pc \in {"decide", "refused", "failed"}
    PROVE  /\ InHand(c) \in Messages
           /\ consumers[c].batch \ {InHand(c)} \subseteq pending[c]
<1>1. consumers[c].batch # {} /\ consumers[c].batch \ {InHand(c)} \subseteq pending[c]
  BY DEF LoginInv, Hands
<1> QED BY <1>1, InHandIsInBatch DEF LoginInv

LEMMA DecideStep ==
    ASSUME LoginInv, NEW c \in Consumers, Decide(c)
    PROVE  RunStep(c)
<1>1. /\ consumers[c].pc = "decide"
      /\ decided' = [decided EXCEPT ![InHand(c)] = @ + 1]
      /\ consumers' = [consumers EXCEPT ![c] = NextInBatch(c)]
      /\ now' = now /\ published' = published /\ delivered' = delivered
      /\ pending' = pending /\ keys' = keys /\ acked' = acked /\ dlq' = dlq
      /\ interruptions' = interruptions
  BY DEF Decide
<1>2. InHand(c) \in Messages /\ consumers[c].batch \ {InHand(c)} \subseteq pending'[c]
  BY <1>1, DecidingHolds
<1>3. /\ consumers' \in [Consumers -> Run]
      /\ \A d \in Consumers \ {c} : consumers'[d] = consumers[d]
      /\ Hands(c)' /\ ~Deciding(c)'
  BY <1>1, <1>2, GoesOn
<1>4. Deciding(c)
  BY <1>1 DEF Deciding, Active
<1>5. /\ decided' \in [Messages -> Nat]
      /\ decided'[InHand(c)] = decided[InHand(c)] + 1 /\ decided'[InHand(c)] # 0
      /\ \A m \in Messages \ {InHand(c)} : decided'[m] = decided[m]
  BY <1>1, <1>2 DEF LoginInv, LoginTypes
<1>6. LoginTypes'
  BY <1>1, <1>3, <1>5 DEF LoginInv, LoginTypes
<1>7. PublishedInTime' /\ KeysOutlive'
  BY <1>1, StillInTime DEF Unhurried
<1>8. RunEffect(c)
  BY <1>1, <1>3, <1>4, <1>5 DEF RunEffect
<1> QED BY <1>1, <1>3, <1>6, <1>7, <1>8 DEF RunStep

LEMMA DeadLetterRefusedStep ==
    ASSUME LoginInv, NEW c \in Consumers, DeadLetterRefused(c)
    PROVE  RunStep(c)
<1> DEFINE entry == [message |-> InHand(c), reason |-> "ledger_refused"]
<1>1. /\ consumers[c].pc = "refused" /\ dlq' = dlq \cup {entry}
      /\ consumers' = [consumers EXCEPT ![c] = NextInBatch(c)]
      /\ now' = now /\ published' = published /\ delivered' = delivered
      /\ pending' = pending /\ keys' = keys /\ acked' = acked
      /\ decided' = decided /\ interruptions' = interruptions
  BY DEF DeadLetterRefused, DeadLetter
<1>2. InHand(c) \in Messages /\ consumers[c].batch \ {InHand(c)} \subseteq pending'[c]
  BY <1>1, DecidingHolds
<1>3. /\ consumers' \in [Consumers -> Run]
      /\ \A d \in Consumers \ {c} : consumers'[d] = consumers[d]
      /\ Hands(c)' /\ ~Deciding(c)'
  BY <1>1, <1>2, GoesOn
<1>4. entry \in [message : Messages, reason : Reasons]
  BY <1>2 DEF Reasons
<1>5. entry \in dlq' /\ dlq \subseteq dlq' /\ entry.message = InHand(c)
      /\ entry.reason = "ledger_refused"
  BY <1>1
<1>6. LoginTypes'
  BY <1>1, <1>3, <1>4 DEF LoginInv, LoginTypes
<1>7. PublishedInTime' /\ KeysOutlive'
  BY <1>1, StillInTime DEF Unhurried
<1>8. RunEffect(c)
  BY <1>1, <1>3, <1>5 DEF RunEffect
<1> QED BY <1>1, <1>3, <1>6, <1>7, <1>8 DEF RunStep

LEMMA FailDecisionStep ==
    ASSUME LoginInv, NEW c \in Consumers, FailDecision(c)
    PROVE  RunStep(c)
<1>1. /\ consumers[c].pc = "decide"
      /\ decided' = decided \/ decided' = [decided EXCEPT ![InHand(c)] = @ + 1]
      /\ consumers' = [consumers EXCEPT ![c].pc = "failed"]
      /\ now' = now /\ published' = published /\ delivered' = delivered
      /\ pending' = pending /\ keys' = keys /\ acked' = acked /\ dlq' = dlq
      /\ interruptions' = interruptions + 1
  BY DEF FailDecision
<1>2. /\ consumers' \in [Consumers -> Run]
      /\ \A d \in Consumers \ {c} : consumers'[d] = consumers[d]
      /\ consumers'[c].pc = "failed"
      /\ consumers'[c].batch = consumers[c].batch
      /\ InHand(c)' = InHand(c)
  BY <1>1, MovesOn DEF LoginInv, Steps
<1>3. Hands(c) /\ Deciding(c) /\ ~Deciding(c)'
  BY <1>1, <1>2 DEF LoginInv, Deciding, Active
<1>4. InHand(c) \in Messages
  BY <1>1, DecidingHolds
<1>5. /\ decided' \in [Messages -> Nat]
      /\ \/ decided'[InHand(c)] = decided[InHand(c)] + 1
         \/ decided'[InHand(c)] = decided[InHand(c)]
      /\ \A m \in Messages \ {InHand(c)} : decided'[m] = decided[m]
  BY <1>1, <1>4 DEF LoginInv, LoginTypes
<1>6. Hands(c)'
  BY <1>1, <1>2, <1>3 DEF Hands
<1>7. LoginTypes'
  BY <1>1, <1>2, <1>5 DEF LoginInv, LoginTypes
<1>8. PublishedInTime' /\ KeysOutlive'
  BY <1>1, StillInTime DEF Unhurried
<1>9. RunEffect(c)
  BY <1>1, <1>2, <1>3, <1>5 DEF RunEffect
<1> QED BY <1>1, <1>6, <1>7, <1>8, <1>9 DEF RunStep

LEMMA DeadLetterFailedStep ==
    ASSUME LoginInv, NEW c \in Consumers, DeadLetterFailed(c)
    PROVE  RunStep(c)
<1> DEFINE entry == [message |-> InHand(c), reason |-> "pipeline_error"]
<1>1. /\ consumers[c].pc = "failed" /\ dlq' = dlq \cup {entry}
      /\ consumers' = [consumers EXCEPT ![c] = Stopped]
      /\ now' = now /\ published' = published /\ delivered' = delivered
      /\ pending' = pending /\ keys' = keys /\ acked' = acked
      /\ decided' = decided /\ interruptions' = interruptions
  BY DEF DeadLetterFailed, DeadLetter
<1>2. InHand(c) \in Messages
  BY <1>1, DecidingHolds
<1>3. /\ consumers' \in [Consumers -> Run] /\ consumers'[c] = Stopped
      /\ \A d \in Consumers \ {c} : consumers'[d] = consumers[d]
  BY <1>1, StoppedIsRun, OneRun DEF LoginInv
<1>4. Hands(c)' /\ ~Deciding(c)' /\ ~Deciding(c)
  BY <1>1, <1>3 DEF Stopped, Hands, Deciding, Active
<1>5. entry \in [message : Messages, reason : Reasons]
  BY <1>2 DEF Reasons
<1>6. LoginTypes'
  BY <1>1, <1>3, <1>5 DEF LoginInv, LoginTypes
<1>7. PublishedInTime' /\ KeysOutlive'
  BY <1>1, StillInTime DEF Unhurried
<1>8. RunEffect(c)
  BY <1>1, <1>3, <1>4 DEF RunEffect
<1> QED BY <1>1, <1>4, <1>6, <1>7, <1>8 DEF RunStep

-----------------------------------------------------------------------------
(* The invariant. *)

LEMMA InitLogin == StreamInit => LoginInv
<1> SUFFICES ASSUME StreamInit PROVE LoginInv
  OBVIOUS
<1>1. /\ now = 0 /\ published = 0 /\ delivered = 0 /\ acked = {} /\ dlq = {}
      /\ interruptions = 0
      /\ pending = [c \in Consumers |-> {}]
      /\ keys = [e \in Events |-> 0]
      /\ decided = [m \in Messages |-> 0]
      /\ consumers = [c \in Consumers |-> Stopped]
  BY DEF StreamInit
<1>2. LoginTypes
  BY <1>1, StoppedIsRun DEF LoginTypes
<1>3. PublishedInTime
  BY <1>1, MessagesAre DEF PublishedInTime
<1>4. KeysOutlive
  BY <1>1 DEF KeysOutlive
<1>5. \A c \in Consumers : Hands(c) /\ ~Deciding(c)
  BY <1>1, Idle DEF Stopped
<1>6. Exclusive
  BY <1>5 DEF Exclusive
<1>7. (\A m \in Messages : Traced(m)) /\ AtMostOnce /\ NoSilentRejection
  BY <1>1 DEF Traced, AtMostOnce, NoSilentRejection
<1>8. LossesAreFailures
  <2>1. Losses = {}
    BY <1>1 DEF Losses, GivenUp
  <2> QED BY <1>1, <2>1, FS_EmptySet DEF LossesAreFailures
<1> QED BY <1>2, <1>3, <1>4, <1>5, <1>6, <1>7, <1>8 DEF LoginInv

\* Publications and the clock leave the runs and what they did alone.
LEMMA SameRuns ==
    ASSUME LoginInv,
           UNCHANGED <<delivered, pending, keys, acked, dlq, decided, consumers, interruptions>>,
           now' \in Nat, published' \in Nat, PublishedInTime'
    PROVE  LoginInv'
<1>1. /\ delivered' = delivered /\ pending' = pending /\ keys' = keys /\ acked' = acked
      /\ dlq' = dlq /\ decided' = decided /\ consumers' = consumers
      /\ interruptions' = interruptions
  OBVIOUS
<1>2. LoginTypes'
  BY <1>1 DEF LoginInv, LoginTypes
<1>3. KeysOutlive'
  BY <1>1 DEF LoginInv, KeysOutlive
<1>4. \A c \in Consumers : /\ InHand(c)' = InHand(c) /\ EventInHand(c)' = EventInHand(c)
                           /\ Deciding(c)' = Deciding(c)
  BY <1>1, SameInHand DEF Deciding
<1>5. \A c \in Consumers : Hands(c)'
  <2> SUFFICES ASSUME NEW c \in Consumers PROVE Hands(c)'
    OBVIOUS
  <2>1. Hands(c)
    BY DEF LoginInv
  <2> QED BY <1>1, <1>4, <2>1 DEF Hands, DeadLettered
<1>6. Exclusive'
  BY <1>4 DEF LoginInv, Exclusive
<1>7. \A m \in Messages : Traced(m)'
  BY <1>1 DEF LoginInv, Traced
<1>8. AtMostOnce' /\ NoSilentRejection'
  BY <1>1 DEF LoginInv, AtMostOnce, NoSilentRejection, DeadLettered
<1>9. LossesAreFailures'
  <2>1. Losses' = Losses
    BY <1>1, <1>4 DEF Losses, GivenUp
  <2> QED BY <1>1, <2>1 DEF LoginInv, LossesAreFailures
<1> QED BY <1>2, <1>3, <1>5, <1>6, <1>7, <1>8, <1>9 DEF LoginInv

LEMMA PublishStep ==
    ASSUME LoginInv, Publish
    PROVE  LoginInv'
<1>1. published \in Nat /\ now \in Nat /\ delivered \in Nat /\ delivered <= published
  BY DEF LoginInv, LoginTypes, PublishedInTime
<1>2. /\ published' = published + 1 /\ now' = now /\ pending' = pending
      /\ delivered' = delivered /\ published < Len(Stream)
      /\ Stream[published + 1] # Malformed => TimestampOf[Stream[published + 1]] <= now
  BY DEF Publish
<1>3. \A c \in Consumers : pending'[c] \subseteq 1 .. published'
  BY <1>1, <1>2 DEF LoginInv, PublishedInTime
<1>4. ASSUME NEW m \in Messages, m <= published', Stream[m] # Malformed
      PROVE  TimestampOf[Stream[m]] <= now'
  <2>1. m <= published \/ m = published + 1
    BY <1>1, <1>2, <1>4, MessagesAre
  <2> QED BY <1>2, <1>4, <2>1 DEF LoginInv, PublishedInTime
<1>5. PublishedInTime'
  BY <1>1, <1>2, <1>3, <1>4, MessagesAre DEF PublishedInTime
<1> QED BY <1>1, <1>2, <1>5, SameRuns DEF Publish

LEMMA TickStep ==
    ASSUME LoginInv, Tick
    PROVE  LoginInv'
<1>1. now \in Nat /\ published \in Nat
  BY DEF LoginInv, LoginTypes
<1>2. now' = now + 1 /\ published' = published /\ pending' = pending /\ delivered' = delivered
  BY DEF Tick
<1>3. ASSUME NEW m \in Messages, m <= published, Stream[m] # Malformed
      PROVE  TimestampOf[Stream[m]] <= now + 1
  <2>1. Stream[m] \in Events
    BY <1>3, MessagesAre, StreamConstants, ElementOfSeq
  <2>2. TimestampOf[Stream[m]] \in Nat
    BY <2>1, StreamConstants
  <2>3. TimestampOf[Stream[m]] <= now
    BY <1>3 DEF LoginInv, PublishedInTime
  <2> QED BY <1>1, <2>2, <2>3
<1>4. PublishedInTime'
  BY <1>2, <1>3 DEF LoginInv, PublishedInTime
<1> QED BY <1>1, <1>2, <1>4, SameRuns DEF Tick

LEMMA HandleStep ==
    ASSUME LoginInv, NEW c \in Consumers, Handle(c)
    PROVE  RunStep(c)
BY CheckStep, DeadLetterRejectedStep, AckRejectedStep, AckAcceptedStep, DecideStep,
   RefuseStep, DeadLetterRefusedStep, DeadLetterFailedStep DEF Handle

LEMMA NextLogin == LoginInv /\ [StreamNext]_streamVars => LoginInv'
<1> SUFFICES ASSUME LoginInv, [StreamNext]_streamVars PROVE LoginInv'
  OBVIOUS
<1>1. CASE Publish
  BY <1>1, PublishStep
<1>2. CASE Tick
  BY <1>2, TickStep
<1>3. ASSUME NEW c \in Consumers, \/ Start(c) \/ ReadPending(c) \/ BacklogEnds(c) \/ ReadNew(c)
                                  \/ Handle(c) \/ FailDecision(c) \/ Stop(c) \/ Interrupt(c)
      PROVE  LoginInv'
  <2>1. RunStep(c)
    BY <1>3, StartStep, ReadPendingStep, BacklogEndsStep, ReadNewStep, HandleStep,
       FailDecisionStep, StopStep, InterruptStep
  <2> QED BY <2>1, RunStepKeeps
<1>4. CASE UNCHANGED streamVars
  <2>1. PublishedInTime' /\ now' \in Nat /\ published' \in Nat
    BY <1>4 DEF LoginInv, LoginTypes, PublishedInTime, streamVars
  <2> QED BY <1>4, <2>1, SameRuns DEF streamVars
<1> QED BY <1>1, <1>2, <1>3, <1>4 DEF StreamNext

\* Whatever is published, however the instances interleave and fail, the
\* inductive invariant of decide_from_stream holds: its types, what each run has
\* in hand, and the life of a deduplication key.
THEOREM LoginInvariant == StreamSpec => []LoginInv
<1> QED BY InitLogin, NextLogin, PTL DEF StreamSpec

\* At most once: decide_from_stream has the ledger decide a login at most once,
\* by whatever instances and from whatever copies, for every stream, every
\* number of failures and every lateness bound below the time to live of a key.
THEOREM LoginsDecidedOnce == StreamSpec => []AtMostOnce
<1>1. LoginInv => AtMostOnce
  BY DEF LoginInv
<1> QED BY <1>1, LoginInvariant, PTL

\* No silent rejection: of the acknowledged copies of an event all but one are
\* in the dead-letter stream, and so are all messages that are no event.
THEOREM RejectionsAreLoud == StreamSpec => []NoSilentRejection
<1>1. LoginInv => NoSilentRejection
  BY DEF LoginInv
<1> QED BY <1>1, LoginInvariant, PTL

\* A lost event was accepted, and the run that was to decide it gave it up.
LEMMA LostIsGivenUp ==
    ASSUME LoginInv, NEW e \in Events, Lost(e)
    PROVE  GivenUp(e)
<1>1. PICK h \in Of(e) \cap acked : TRUE
  BY DEF Lost
<1>2. h \in Messages /\ Stream[h] = e
  BY DEF Of
<1>3. Traced(h)
  BY <1>2 DEF LoginInv
<1>4. keys[e] # 0
  BY <1>1, <1>2, <1>3 DEF Traced, Lost
<1>5. ASSUME NEW c \in Consumers, Deciding(c), EventInHand(c) = e PROVE FALSE
  <2>1. consumers[c].batch # {}
    BY <1>5 DEF LoginInv, Hands, Deciding, Active
  <2>2. InHand(c) \in consumers[c].batch /\ InHand(c) \in Of(e)
    BY <1>5, <2>1, InHandIsInBatch DEF LoginInv, EventInHand, Of
  <2>3. CASE consumers[c].pc = "accept"
    <3>1. InHand(c) \in pending[c]
      BY <2>3, HandIsPending
    <3> QED BY <2>2, <3>1 DEF Lost
  <2>4. CASE consumers[c].pc \in {"decide", "refused"}
    BY <2>2, <2>4 DEF Lost, Holding
  <2> QED BY <1>5, <2>3, <2>4 DEF Deciding, Active
<1>6. \A m \in Of(e) : decided[m] = 0
  BY DEF Lost
<1>7. ASSUME NEW entry \in dlq, Stream[entry.message] = e
      PROVE  entry.reason # "ledger_refused"
  <2>1. entry.message \in Of(e)
    BY <1>7 DEF LoginInv, LoginTypes, Of
  <2> QED BY <2>1 DEF Lost
<1> QED BY <1>4, <1>5, <1>6, <1>7 DEF GivenUp

\* One loss per failure: the events that decide_from_stream acknowledged and
\* neither decided nor dead-lettered for what they are were in hand of a run
\* that failed, one for each failure at most.
THEOREM FailuresLoseOneEach == StreamSpec => []OneLossPerFailure
<1>1. LoginInv => OneLossPerFailure
  <2> SUFFICES ASSUME LoginInv PROVE OneLossPerFailure
    OBVIOUS
  <2>1. {e \in Events : Lost(e)} \subseteq Losses
    BY LostIsGivenUp DEF Losses
  <2>2. IsFiniteSet(Losses) /\ Cardinality(Losses) <= interruptions /\ interruptions \in Nat
    BY DEF LoginInv, LossesAreFailures, LoginTypes
  <2>3. /\ IsFiniteSet({e \in Events : Lost(e)})
        /\ Cardinality({e \in Events : Lost(e)}) <= Cardinality(Losses)
    BY <2>1, <2>2, FS_Subset
  <2>4. Cardinality({e \in Events : Lost(e)}) \in Nat /\ Cardinality(Losses) \in Nat
    BY <2>2, <2>3, FS_CardinalityType
  <2> QED BY <2>2, <2>3, <2>4 DEF OneLossPerFailure
<1> QED BY <1>1, LoginInvariant, PTL
=============================================================================
