------------------------------ MODULE StreamProofs ------------------------------
(***************************************************************************)
(* Proofs about what the two streaming reasoners keep of an account: what  *)
(* a finished replay reports missing is in the ledger, for any transfers,  *)
(* capacities and chunk sizes and any number of resets and restarts;       *)
(* duplicates are dropped, and transfers are scored over their whole       *)
(* window; and the features of a login know every login that ended before  *)
(* it began, for any logins, windows and number of processes.              *)
(***************************************************************************)
EXTENDS TransferStream, LoginFeatures, Iteration, FiniteSetTheorems, FunctionTheorems,
        SequenceTheorems

-----------------------------------------------------------------------------
(* The source. *)

Payloads == Transfers \cup ToSet(Replayed) \cup {Malformed}
Accepted == Payloads \ {Malformed}
EventIds == {p.event_id : p \in Payloads}
Marks == {Never} \cup {p.at : p \in Accepted}
Outcomes == {"malformed", "duplicate", "late", "accepted"}

Sources == [seen : Seq(EventIds), watermark : Marks, queue : Seq(Accepted),
            dead : SUBSET EventIds, accepted : Nat]

IdsOf(queue) == {queue[i].event_id : i \in DOMAIN queue}

\* The deduplication set holds event ids, whatever is moved or forgotten.
LEMMA SeenStays ==
    ASSUME NEW seen \in Seq(EventIds), NEW id \in EventIds
    PROVE  MovedToEnd(seen, id) \in Seq(EventIds) /\ Remembered(Append(seen, id)) \in Seq(EventIds)
<1>1. RemoveFirst(seen, id) \in Seq(EventIds)
  <2> DEFINE I == {i \in 1 .. Len(seen) : seen[i] = id}
  <2>1. CASE I = {}
    BY <2>1 DEF RemoveFirst
  <2>2. CASE I # {}
    <3>1. PICK m \in I : \A k \in I : m <= k
      <4>1. I \in SUBSET Nat
        OBVIOUS
      <4> HIDE DEF I
      <4> QED BY <2>2, <4>1, LeastOf
    <3> DEFINE pos == SelectInSeq(seen, LAMBDA v : v = id)
    <3>2. pos \in I
      BY <3>1 DEF SelectInSeq, Min
    <3>3. RemoveFirst(seen, id) = SubSeq(seen, 1, pos - 1) \o SubSeq(seen, pos + 1, Len(seen))
      BY <2>2 DEF RemoveFirst, RemoveAt
    <3>4. pos \in 1 .. Len(seen)
      BY <3>2
    <3> HIDE DEF pos
    <3>5. SubSeq(seen, 1, pos - 1) \in Seq(EventIds)
      BY <3>4
    <3>6. SubSeq(seen, pos + 1, Len(seen)) \in Seq(EventIds)
      BY <3>4
    <3> QED BY <3>3, <3>5, <3>6
  <2> QED BY <2>1, <2>2
<1>2. MovedToEnd(seen, id) \in Seq(EventIds)
  <2>1. MovedToEnd(seen, id) = Append(RemoveFirst(seen, id), id)
    BY DEF MovedToEnd
  <2> QED BY <1>1, <2>1, AppendProperties
<1>3. Remembered(Append(seen, id)) \in Seq(EventIds)
  <2> DEFINE longer == Append(seen, id)
  <2>1. longer \in Seq(EventIds)
    OBVIOUS
  <2> HIDE DEF longer
  <2>2. Remembered(longer) \in Seq(EventIds)
    <3>1. DEDUP_CAPACITY \in Nat
      BY TransferConstants
    <3>2. CASE Len(longer) > DEDUP_CAPACITY
      <4>1. Remembered(longer) = SubSeq(longer, Len(longer) - DEDUP_CAPACITY + 1, Len(longer))
        BY <3>2 DEF Remembered
      <4>2. Len(longer) - DEDUP_CAPACITY + 1 \in 1 .. Len(longer) + 1
        BY <2>1, <3>1, <3>2
      <4> QED BY <2>1, <4>1, <4>2
    <3>3. CASE ~(Len(longer) > DEDUP_CAPACITY)
      BY <2>1, <3>3 DEF Remembered
    <3> QED BY <3>2, <3>3
  <2> QED BY <2>2 DEF longer
<1> QED BY <1>2, <1>3

\* What one payload does to the source: what is queued stays queued, in order
\* and together with the count of what was ever accepted; nothing leaves the
\* dead letters; and what was accepted is queued.
LEMMA PublishSteps ==
    ASSUME NEW s \in Sources, NEW p \in Payloads
    PROVE  /\ publish(s, p) \in Sources
           /\ Outcome(s, p) \in Outcomes
           /\ publish(s, p).accepted - Len(publish(s, p).queue) = s.accepted - Len(s.queue)
           /\ IdsOf(s.queue) \subseteq IdsOf(publish(s, p).queue)
           /\ s.dead \subseteq publish(s, p).dead
           /\ Outcome(s, p) = "accepted" => p.event_id \in IdsOf(publish(s, p).queue)
<1>1. p.event_id \in EventIds
  BY DEF EventIds
<1>2. Outcome(s, p) \in Outcomes /\ (Outcome(s, p) = "accepted" => p \in Accepted)
  BY DEF Outcome, Outcomes, Accepted
<1> DEFINE t == publish(s, p)
<1>3. s.seen \in Seq(EventIds) /\ s.queue \in Seq(Accepted) /\ s.dead \in SUBSET EventIds
  BY DEF Sources
<1>4. CASE Outcome(s, p) \in {"malformed", "late"}
  <2>1. t = [s EXCEPT !.dead = @ \cup {p.event_id}]
    BY <1>4 DEF publish, DeadLetter
  <2>2. t \in Sources /\ t.queue = s.queue /\ t.accepted = s.accepted /\ s.dead \subseteq t.dead
    BY <1>1, <2>1 DEF Sources
  <2> QED BY <1>2, <1>4, <2>2
<1>5. CASE Outcome(s, p) = "duplicate"
  <2> DEFINE moved == MovedToEnd(s.seen, p.event_id)
  <2>1. t = [s EXCEPT !.seen = moved]
    BY <1>5 DEF publish
  <2>2. moved \in Seq(EventIds)
    BY <1>1, <1>3, SeenStays
  <2> HIDE DEF moved
  <2>3. t \in Sources /\ t.queue = s.queue /\ t.accepted = s.accepted /\ t.dead = s.dead
    BY <2>1, <2>2 DEF Sources
  <2> QED BY <1>2, <1>5, <2>3
<1>6. CASE Outcome(s, p) = "accepted"
  <2> DEFINE seen == Remembered(Append(s.seen, p.event_id))
             mark == IF p.at > s.watermark THEN p.at ELSE s.watermark
             queue == Append(s.queue, p)
  <2>1. t = [s EXCEPT !.seen = seen, !.watermark = mark, !.queue = queue, !.accepted = @ + 1]
    BY <1>6 DEF publish
  <2>2. seen \in Seq(EventIds)
    BY <1>1, <1>3, SeenStays
  <2>3. mark \in Marks
    BY <1>2, <1>6 DEF Sources, Marks
  <2>4. /\ queue \in Seq(Accepted) /\ Len(queue) = Len(s.queue) + 1
        /\ DOMAIN s.queue = 1 .. Len(s.queue) /\ DOMAIN queue = 1 .. Len(s.queue) + 1
        /\ \A i \in 1 .. Len(s.queue) : queue[i] = s.queue[i]
        /\ queue[Len(s.queue) + 1] = p /\ Len(s.queue) \in Nat
    BY <1>2, <1>3, <1>6
  <2> HIDE DEF seen, mark, queue
  <2>5. /\ t \in Sources /\ t.queue = queue /\ t.accepted = s.accepted + 1 /\ t.dead = s.dead
        /\ s.accepted \in Nat
    <3>1. t = [seen |-> seen, watermark |-> mark, queue |-> queue, dead |-> s.dead,
               accepted |-> s.accepted + 1]
      BY <2>1 DEF Sources
    <3>2. s.accepted \in Nat /\ s.accepted + 1 \in Nat
      BY DEF Sources
    <3> HIDE DEF t
    <3> QED BY <1>3, <2>2, <2>3, <2>4, <3>1, <3>2 DEF Sources
  <2>6. IdsOf(s.queue) \subseteq IdsOf(queue) /\ p.event_id \in IdsOf(queue)
    BY <2>4 DEF IdsOf
  <2> QED BY <1>2, <1>6, <2>4, <2>5, <2>6
<1> QED BY <1>2, <1>4, <1>5, <1>6 DEF Outcomes

\* A request's payloads, as a run over their positions.
Deliveries == [event_id : EventIds, outcome : Outcomes]
AcceptedIn(deliveries) == {d.event_id : d \in {x \in ToSet(deliveries) : x.outcome = "accepted"}}

LEMMA NotedSteps ==
    ASSUME NEW L \in Seq(Deliveries), NEW s \in Sources, NEW p \in Payloads
    PROVE  /\ Noted(L, s, p) \in Seq(Deliveries)
           /\ \A id \in AcceptedIn(Noted(L, s, p)) :
                id \in AcceptedIn(L) \/ (Outcome(s, p) = "accepted" /\ id = p.event_id)
<1> DEFINE d == [event_id |-> p.event_id, outcome |-> Outcome(s, p)]
<1>1. d \in Deliveries
  <2>1. Outcome(s, p) \in Outcomes
    BY PublishSteps
  <2> QED BY <2>1 DEF Deliveries, EventIds
<1>2. d.event_id = p.event_id /\ d.outcome = Outcome(s, p)
  OBVIOUS
<1>3. Noted(L, s, p) = IF Outcome(s, p) \in {"accepted", "duplicate"} THEN Append(L, d) ELSE L
  BY DEF Noted
<1> HIDE DEF d
<1>4. Append(L, d) \in Seq(Deliveries) /\ \A x \in ToSet(Append(L, d)) : x \in ToSet(L) \/ x = d
  BY <1>1 DEF ToSet
<1>5. Noted(L, s, p) \in Seq(Deliveries)
  BY <1>3, <1>4
<1>6. \A x \in ToSet(Noted(L, s, p)) : x \in ToSet(L) \/ x = d
  BY <1>3, <1>4
<1> QED BY <1>2, <1>5, <1>6 DEF AcceptedIn

Takings == [source : Sources, deliveries : Seq(Deliveries)]
Taking(payloads) ==
    [k \in 1 .. Len(payloads) |-> [d \in Takings |->
       [source |-> publish(d.source, payloads[k]),
        deliveries |-> Noted(d.deliveries, d.source, payloads[k])]]]

LEMMA OfferRuns ==
    ASSUME NEW s \in Sources, NEW payloads \in Seq(Payloads)
    PROVE  \E f : /\ RunOf(f, Len(payloads), Takings, [source |-> s, deliveries |-> <<>>],
                           Taking(payloads))
                  /\ f[Len(payloads)] = Offer(s, payloads)
<1> DEFINE n == Len(payloads)
           base == [source |-> s, deliveries |-> <<>>]
           step == Taking(payloads)
<1>1. n \in Nat /\ DOMAIN payloads = 1 .. n /\ base \in Takings
  BY DEF Takings
<1>2. ASSUME NEW k \in 1 .. n, NEW d \in Takings
      PROVE  [source |-> publish(d.source, payloads[k]),
              deliveries |-> Noted(d.deliveries, d.source, payloads[k])] \in Takings
  <2>1. payloads[k] \in Payloads /\ d.source \in Sources /\ d.deliveries \in Seq(Deliveries)
    BY DEF Takings
  <2> HIDE DEF n
  <2>2. /\ publish(d.source, payloads[k]) \in Sources
        /\ Noted(d.deliveries, d.source, payloads[k]) \in Seq(Deliveries)
    BY <2>1, PublishSteps, NotedSteps
  <2> QED BY <2>1, <2>2 DEF Takings
<1>3. step \in StepsOn(n, Takings)
  <2>1. ASSUME NEW k \in 1 .. n PROVE step[k] \in [Takings -> Takings]
    <3> DEFINE moved == [d \in Takings |->
                           [source |-> publish(d.source, payloads[k]),
                            deliveries |-> Noted(d.deliveries, d.source, payloads[k])]]
    <3>1. moved \in [Takings -> Takings]
      BY <1>2
    <3>2. step[k] = moved
      BY DEF Taking
    <3> HIDE DEF moved, step, n
    <3> QED BY <3>1, <3>2
  <2>2. step = [k \in 1 .. n |-> step[k]]
    BY DEF Taking
  <2> HIDE DEF n, step
  <2> QED BY <2>1, <2>2 DEF StepsOn
<1> DEFINE Recurs(iter) ==
             iter = [S \in SUBSET DOMAIN payloads |->
                       IF S = {} THEN base
                       ELSE [source |-> publish(iter[S \ {Max(S)}].source, payloads[Max(S)]),
                             deliveries |-> Noted(iter[S \ {Max(S)}].deliveries,
                                                  iter[S \ {Max(S)}].source, payloads[Max(S)])]]
           iter == CHOOSE h : Recurs(h)
<1>4. Offer(s, payloads) = iter[DOMAIN payloads]
  BY DEF Offer, FoldLeft, MapThenFoldSet
<1>5. \A S \in SUBSET (1 .. n) : \A m \in S : (\A k \in S : m >= k) => Max(S) = m
  <2> SUFFICES ASSUME NEW S \in SUBSET (1 .. n), NEW m \in S, \A k \in S : m >= k
               PROVE  Max(S) = m
    OBVIOUS
  <2>1. Max(S) \in S /\ \A k \in S : Max(S) >= k
    BY DEF Max
  <2> HIDE DEF n
  <2>2. \A k \in S : k \in Int
    BY <1>1
  <2>3. Max(S) \in Int /\ m \in Int /\ Max(S) >= m /\ m >= Max(S)
    BY <2>1, <2>2
  <2> QED BY <2>3
<1>6. \A S \in SUBSET (1 .. n) : S # {} => \E m \in S : \A k \in S : m >= k
  BY <1>1, GreatestOf
<1>7. \E h : Recurs(h)
  <2>1. PICK g : FoldOf(g, n, Takings, base, step)
    <3> HIDE DEF n, base, step
    <3> QED BY <1>1, <1>3, FoldExists
  <2>2. g \in [SUBSET (1 .. n) -> Takings] /\ g[{}] = base
    BY <2>1 DEF FoldOf
  <2>3. ASSUME NEW S \in SUBSET (1 .. n), S # {}
        PROVE  g[S] = [source |-> publish(g[S \ {Max(S)}].source, payloads[Max(S)]),
                       deliveries |-> Noted(g[S \ {Max(S)}].deliveries,
                                            g[S \ {Max(S)}].source, payloads[Max(S)])]
    <3>1. PICK m \in S : \A k \in S : m >= k
      BY <1>6, <2>3
    <3>2. Max(S) = m
      BY <1>5, <3>1
    <3>3. m \in 1 .. n /\ g[S \ {m}] \in Takings
      BY <2>2
    <3>4. g[S] = step[m][g[S \ {m}]]
      BY <2>1, <3>1 DEF FoldOf
    <3> QED BY <3>2, <3>3, <3>4 DEF Taking
  <2>4. Recurs(g)
    BY <1>1, <2>2, <2>3
  <2> HIDE DEF Recurs
  <2> QED BY <2>4
<1>8. Recurs(iter)
  <2> HIDE DEF Recurs
  <2> QED BY <1>7
<1> HIDE DEF iter
<1>9. FoldsOn(iter, n, Takings, base, step)
  <2>1. iter[{}] = base
    BY <1>8
  <2>2. ASSUME NEW S \in SUBSET (1 .. n), NEW m \in S, \A k \in S : m >= k,
               iter[S \ {m}] \in Takings
        PROVE  iter[S] = step[m][iter[S \ {m}]]
    <3>1. Max(S) = m
      BY <1>5, <2>2
    <3>2. iter[S] = [source |-> publish(iter[S \ {m}].source, payloads[m]),
                     deliveries |-> Noted(iter[S \ {m}].deliveries, iter[S \ {m}].source,
                                          payloads[m])]
      BY <1>1, <1>8, <3>1
    <3>3. m \in 1 .. n
      OBVIOUS
    <3> QED BY <2>2, <3>2, <3>3 DEF Taking
  <2> HIDE DEF Recurs
  <2> QED BY <2>1, <2>2 DEF FoldsOn
<1> HIDE DEF n, base, step, Recurs
<1>10. PICK f : RunOf(f, n, Takings, base, step) /\ f[n] = iter[1 .. n]
  BY <1>1, <1>3, <1>9, FoldRuns
<1> QED BY <1>1, <1>4, <1>10 DEF n, base, step

\* The same of a whole request.
LEMMA OfferSteps ==
    ASSUME NEW s \in Sources, NEW payloads \in Seq(Payloads)
    PROVE  LET taken == Offer(s, payloads)
           IN  /\ taken.source \in Sources
               /\ taken.source.accepted - Len(taken.source.queue) = s.accepted - Len(s.queue)
               /\ IdsOf(s.queue) \subseteq IdsOf(taken.source.queue)
               /\ s.dead \subseteq taken.source.dead
               /\ AcceptedIn(taken.deliveries) \subseteq IdsOf(taken.source.queue)
<1> DEFINE n == Len(payloads)
           base == [source |-> s, deliveries |-> <<>>]
<1>1. PICK f : RunOf(f, n, Takings, base, Taking(payloads)) /\ f[n] = Offer(s, payloads)
  BY OfferRuns
<1>2. n \in Nat /\ DOMAIN payloads = 1 .. n
  OBVIOUS
<1>3. f[0] = base /\ \A k \in 0 .. n : f[k] \in Takings
  BY <1>1 DEF RunOf
<1> DEFINE Holds(k) ==
             /\ f[k].source.accepted - Len(f[k].source.queue) = s.accepted - Len(s.queue)
             /\ IdsOf(s.queue) \subseteq IdsOf(f[k].source.queue)
             /\ s.dead \subseteq f[k].source.dead
             /\ AcceptedIn(f[k].deliveries) \subseteq IdsOf(f[k].source.queue)
           S == {k \in 0 .. n : Holds(k)}
<1>4. 0 \in S
  <2>1. AcceptedIn(f[0].deliveries) = {}
    BY <1>3 DEF AcceptedIn, ToSet
  <2>2. f[0].source = s
    BY <1>3
  <2> QED BY <1>2, <2>1, <2>2
<1>5. ASSUME NEW k \in 1 .. n, k - 1 \in S PROVE k \in S
  <2> DEFINE d == f[k - 1]
             p == payloads[k]
  <2>1. k - 1 \in 0 .. n /\ d \in Takings /\ p \in Payloads /\ Holds(k - 1)
    BY <1>2, <1>3, <1>5
  <2>2. d.source \in Sources /\ d.deliveries \in Seq(Deliveries)
    BY <2>1 DEF Takings
  <2>3. f[k] = [source |-> publish(d.source, p), deliveries |-> Noted(d.deliveries, d.source, p)]
    BY <1>1, <2>1 DEF RunOf, Taking
  <2> HIDE DEF p
  <2>4. /\ publish(d.source, p).accepted - Len(publish(d.source, p).queue) =
             d.source.accepted - Len(d.source.queue)
        /\ IdsOf(d.source.queue) \subseteq IdsOf(publish(d.source, p).queue)
        /\ d.source.dead \subseteq publish(d.source, p).dead
        /\ Outcome(d.source, p) = "accepted" => p.event_id \in IdsOf(publish(d.source, p).queue)
    BY <2>1, <2>2, PublishSteps
  <2>5. AcceptedIn(d.deliveries) \subseteq IdsOf(d.source.queue)
    BY <2>1
  <2>6. AcceptedIn(f[k].deliveries) \subseteq IdsOf(f[k].source.queue)
    <3>1. \A id \in AcceptedIn(Noted(d.deliveries, d.source, p)) :
            id \in AcceptedIn(d.deliveries) \/ (Outcome(d.source, p) = "accepted" /\ id = p.event_id)
      BY <2>1, <2>2, NotedSteps
    <3>2. /\ f[k].deliveries = Noted(d.deliveries, d.source, p)
          /\ f[k].source = publish(d.source, p)
      BY <2>3
    <3> HIDE DEF d
    <3> QED BY <2>4, <2>5, <3>1, <3>2
  <2>7. Holds(k)
    <3>1. f[k].source = publish(d.source, p)
      BY <2>3
    <3> QED BY <2>1, <2>4, <2>5, <2>6, <3>1
  <2> HIDE DEF Holds
  <2> QED BY <2>7
<1> HIDE DEF S
<1>6. \A k \in 0 .. n : k \in S
  BY <1>2, <1>4, <1>5, UpTo
<1>7. Holds(n) /\ f[n] \in Takings
  BY <1>2, <1>3, <1>6 DEF S
<1> QED BY <1>1, <1>2, <1>7 DEF Takings

-----------------------------------------------------------------------------
(* What the deduplication set remembers. *)

\* The events delivered after the k-th delivery, and those an event id has
\* behind it in the deduplication set.
After(L, k) == {L[m].event_id : m \in k + 1 .. Len(L)}
Behind(seen, m) == {seen[n] : n \in m + 1 .. Len(seen)}

Distinct(seen) == \A m, n \in DOMAIN seen : seen[m] = seen[n] => m = n

\* DuplicatesAreDropped, of any list of deliveries.
DroppedIn(L) ==
    \A i, j \in DOMAIN L :
      LET between == {L[k].event_id : k \in i + 1 .. j - 1}
      IN  (i < j /\ L[i].event_id = L[j].event_id /\ L[i].event_id \notin between) =>
            (L[j].outcome = "duplicate" <=> Cardinality(between) < DEDUP_CAPACITY)

\* An event's last delivery is still remembered, with what was delivered since
\* behind it, or at least DEDUP_CAPACITY other events were delivered since.
Tracks(seen, L) ==
    \A k \in DOMAIN L : L[k].event_id \notin After(L, k) =>
      \/ \E m \in DOMAIN seen : seen[m] = L[k].event_id /\ After(L, k) = Behind(seen, m)
      \/ L[k].event_id \notin ToSet(seen) /\ Cardinality(After(L, k)) >= DEDUP_CAPACITY

Remembers(seen, L) ==
    /\ seen \in Seq(EventIds) /\ Distinct(seen) /\ Len(seen) <= DEDUP_CAPACITY
    /\ L \in Seq(Deliveries) /\ Tracks(seen, L) /\ DroppedIn(L)

LEMMA BehindCounts ==
    ASSUME NEW seen \in Seq(EventIds), Distinct(seen), NEW m \in DOMAIN seen
    PROVE  IsFiniteSet(Behind(seen, m)) /\ Cardinality(Behind(seen, m)) = Len(seen) - m
<1> DEFINE I == m + 1 .. Len(seen)
           f == [n \in I |-> seen[n]]
<1>1. m \in 1 .. Len(seen) /\ Len(seen) \in Nat
  OBVIOUS
<1>2. IsFiniteSet(I) /\ Cardinality(I) = Len(seen) - m
  <2>1. m + 1 \in Int /\ Len(seen) \in Int
    BY <1>1
  <2>2. /\ IsFiniteSet(I)
        /\ Cardinality(I) = IF m + 1 > Len(seen) THEN 0 ELSE Len(seen) - (m + 1) + 1
    BY <2>1, FS_Interval
  <2> HIDE DEF I
  <2> QED BY <1>1, <2>2
<1>3. \A n \in I : n \in DOMAIN seen
  BY <1>1
<1>4. f \in [I -> Behind(seen, m)] /\ \A y \in Behind(seen, m) : \E n \in I : f[n] = y
  BY DEF Behind
<1>5. \A a, b \in I : f[a] = f[b] => a = b
  BY <1>3 DEF Distinct
<1> HIDE DEF I, f
<1>6. f \in Bijection(I, Behind(seen, m))
  BY <1>4, <1>5, Fun_IsBij
<1>7. ExistsBijection(I, Behind(seen, m))
  BY <1>6 DEF ExistsBijection
<1>8. IsFiniteSet(Behind(seen, m)) /\ Cardinality(Behind(seen, m)) = Cardinality(I)
  BY <1>2, <1>7, FS_Bijection
<1> QED BY <1>2, <1>8

\* What an event id's delivery leaves in the set: it is the newest; any other
\* has it behind too, or is forgotten with DEDUP_CAPACITY others behind it.
Renewed(seen, t, x) ==
    /\ t \in Seq(EventIds) /\ Distinct(t) /\ Len(t) <= DEDUP_CAPACITY
    /\ Len(t) >= 1 /\ t[Len(t)] = x
    /\ \A y \in ToSet(t) : y = x \/ y \in ToSet(seen)
    /\ \A m \in DOMAIN seen : seen[m] # x =>
         \/ \E n \in DOMAIN t : t[n] = seen[m] /\ Behind(t, n) = Behind(seen, m) \cup {x}
         \/ seen[m] \notin ToSet(t) /\ Cardinality(Behind(seen, m) \cup {x}) >= DEDUP_CAPACITY

\* The p-th is taken out and x is put at the end.
Replaced(seen, p, x) ==
    [i \in 1 .. Len(seen) |-> IF i = Len(seen) THEN x ELSE IF i < p THEN seen[i] ELSE seen[i + 1]]

LEMMA ReplacedRenews ==
    ASSUME NEW seen \in Seq(EventIds), Distinct(seen), Len(seen) <= DEDUP_CAPACITY,
           NEW x \in EventIds, NEW p \in DOMAIN seen,
           \/ seen[p] = x
           \/ p = 1 /\ Len(seen) = DEDUP_CAPACITY /\ x \notin ToSet(seen)
    PROVE  Renewed(seen, Replaced(seen, p, x), x)
<1> DEFINE N == Len(seen)
           t == Replaced(seen, p, x)
<1>1. /\ N \in Nat /\ p \in 1 .. N /\ DOMAIN seen = 1 .. N
      /\ \A i \in 1 .. N : seen[i] \in EventIds
  OBVIOUS
<1>2. t \in Seq(EventIds) /\ Len(t) = N /\ DOMAIN t = 1 .. N
  <2>1. t = [i \in 1 .. N |-> IF i = N THEN x ELSE IF i < p THEN seen[i] ELSE seen[i + 1]]
    BY DEF Replaced
  <2> HIDE DEF t, N
  <2>2. t \in [1 .. N -> EventIds]
    BY <1>1, <2>1
  <2> QED BY <1>1, <2>2
<1>3. /\ t[N] = x
      /\ \A i \in 1 .. N - 1 : i < p => t[i] = seen[i]
      /\ \A i \in 1 .. N - 1 : ~(i < p) => t[i] = seen[i + 1]
  <2>1. t = [i \in 1 .. N |-> IF i = N THEN x ELSE IF i < p THEN seen[i] ELSE seen[i + 1]]
    BY DEF Replaced
  <2> HIDE DEF t, N
  <2> QED BY <1>1, <2>1
<1> HIDE DEF N, t
<1>4. \A i \in 1 .. N : i # p => seen[i] # x
  BY <1>1 DEF Distinct, ToSet
<1>5. Distinct(t)
  <2> SUFFICES ASSUME NEW i \in 1 .. N, NEW j \in 1 .. N, t[i] = t[j], i < j PROVE FALSE
    BY <1>1, <1>2 DEF Distinct
  <2>1. i \in 1 .. N - 1
    BY <1>1
  <2> DEFINE a == IF i < p THEN i ELSE i + 1
             b == IF j < p THEN j ELSE j + 1
  <2>2. a \in 1 .. N /\ a # p /\ t[i] = seen[a]
    BY <1>1, <1>3, <2>1
  <2>3. CASE j = N
    BY <1>3, <1>4, <2>2, <2>3
  <2>4. CASE j # N
    <3>1. b \in 1 .. N /\ a < b /\ t[j] = seen[b]
      BY <1>1, <1>3, <2>4
    <3> HIDE DEF a, b
    <3>2. a \in DOMAIN seen /\ b \in DOMAIN seen /\ seen[a] = seen[b]
      BY <1>1, <2>2, <3>1
    <3>3. a = b
      BY <3>2 DEF Distinct
    <3> QED BY <1>1, <2>2, <3>1, <3>3
  <2> QED BY <2>3, <2>4
<1>6. \A y \in ToSet(t) : y = x \/ y \in ToSet(seen)
  <2> SUFFICES ASSUME NEW i \in 1 .. N PROVE t[i] = x \/ t[i] \in ToSet(seen)
    BY <1>2 DEF ToSet
  <2>1. i = N \/ i \in 1 .. N - 1
    BY <1>1
  <2> QED BY <1>1, <1>3, <2>1 DEF ToSet
<1>7. ASSUME NEW m \in 1 .. N, p < m
      PROVE  m - 1 \in 1 .. N /\ t[m - 1] = seen[m] /\ Behind(t, m - 1) = Behind(seen, m) \cup {x}
  <2>1. m - 1 \in 1 .. N - 1 /\ t[m - 1] = seen[m]
    BY <1>1, <1>3, <1>7
  <2>2. ASSUME NEW n \in m .. N PROVE t[n] \in Behind(seen, m) \cup {x}
    <3>1. n = N \/ (n \in 1 .. N - 1 /\ ~(n < p) /\ n + 1 \in m + 1 .. N)
      BY <1>1, <1>7
    <3> QED BY <1>3, <3>1 DEF Behind, N
  <2>3. ASSUME NEW n \in m + 1 .. N PROVE seen[n] \in Behind(t, m - 1)
    <3>1. n - 1 \in 1 .. N - 1 /\ ~(n - 1 < p) /\ n - 1 \in (m - 1) + 1 .. N /\ (n - 1) + 1 = n
      BY <1>1, <1>7
    <3> QED BY <1>2, <1>3, <3>1 DEF Behind
  <2>4. x \in Behind(t, m - 1)
    BY <1>1, <1>2, <1>3 DEF Behind
  <2>5. (m - 1) + 1 = m
    OBVIOUS
  <2>6. Behind(t, m - 1) = {t[n] : n \in m .. N} /\ Behind(seen, m) = {seen[n] : n \in m + 1 .. N}
    BY <1>2, <2>5 DEF Behind, N
  <2> QED BY <1>1, <2>1, <2>2, <2>3, <2>4, <2>6
<1>8. ASSUME NEW m \in 1 .. N, m < p, seen[p] = x
      PROVE  t[m] = seen[m] /\ Behind(t, m) = Behind(seen, m) \cup {x}
  <2>1. m \in 1 .. N - 1 /\ t[m] = seen[m]
    BY <1>1, <1>3, <1>8
  <2>2. ASSUME NEW n \in m + 1 .. N PROVE t[n] \in {seen[i] : i \in m + 1 .. N} \cup {x}
    <3>1. n = N \/ (n \in 1 .. N - 1 /\ n + 1 \in m + 1 .. N)
      BY <1>1, <1>8
    <3> QED BY <1>3, <3>1
  <2>3. ASSUME NEW n \in m + 1 .. N PROVE seen[n] \in {t[i] : i \in m + 1 .. N}
    <3>1. CASE n < p
      <4>1. n \in 1 .. N - 1 /\ t[n] = seen[n]
        BY <1>1, <1>3, <3>1
      <4> QED BY <4>1
    <3>2. CASE n = p
      <4>1. N \in m + 1 .. N
        BY <1>1, <1>8
      <4> QED BY <1>3, <1>8, <3>2, <4>1
    <3>3. CASE p < n
      <4>1. n - 1 \in 1 .. N - 1 /\ ~(n - 1 < p) /\ (n - 1) + 1 = n /\ n - 1 \in m + 1 .. N
        BY <1>1, <1>8, <3>3
      <4> QED BY <1>3, <4>1
    <3> QED BY <1>1, <3>1, <3>2, <3>3
  <2>4. N \in m + 1 .. N /\ t[N] = x
    BY <1>1, <1>3, <1>8
  <2>5. Behind(t, m) = {t[n] : n \in m + 1 .. N} /\ Behind(seen, m) = {seen[n] : n \in m + 1 .. N}
    BY <1>2 DEF Behind, N
  <2> QED BY <2>1, <2>2, <2>3, <2>4, <2>5
<1>9. ASSUME NEW m \in DOMAIN seen, seen[m] # x
      PROVE  \/ \E n \in DOMAIN t : t[n] = seen[m] /\ Behind(t, n) = Behind(seen, m) \cup {x}
             \/ /\ seen[m] \notin ToSet(t)
                /\ Cardinality(Behind(seen, m) \cup {x}) >= DEDUP_CAPACITY
  <2>1. CASE p < m
    BY <1>1, <1>2, <1>7, <2>1
  <2>2. CASE m < p
    BY <1>1, <1>2, <1>8, <2>2
  <2>3. CASE m = p
    <3>1. p = 1 /\ N = DEDUP_CAPACITY /\ x \notin ToSet(seen)
      BY <1>9, <2>3 DEF N
    <3>2. IsFiniteSet(Behind(seen, m)) /\ Cardinality(Behind(seen, m)) = N - m
      BY BehindCounts DEF N
    <3>3. x \notin Behind(seen, m)
      BY <1>1, <2>3, <3>1 DEF Behind, ToSet, N
    <3>4. Cardinality(Behind(seen, m) \cup {x}) = N
      <4> DEFINE B == Behind(seen, m)
      <4>1. IsFiniteSet(B) /\ x \notin B /\ Cardinality(B) = N - m
        BY <3>2, <3>3
      <4> HIDE DEF B
      <4>2. Cardinality(B \cup {x}) = Cardinality(B) + 1
        BY <4>1, FS_AddElement
      <4> QED BY <1>1, <2>3, <3>1, <4>1, <4>2 DEF B
    <3>5. seen[m] \notin ToSet(t)
      <4> SUFFICES ASSUME NEW i \in 1 .. N, t[i] = seen[m] PROVE FALSE
        BY <1>2 DEF ToSet
      <4>1. i \in 1 .. N - 1
        BY <1>1, <1>3, <1>9
      <4>2. t[i] = seen[i + 1] /\ i + 1 \in 1 .. N /\ i + 1 # m
        BY <1>1, <1>3, <2>3, <3>1, <4>1
      <4> QED BY <1>1, <4>2 DEF Distinct
    <3>6. N >= DEDUP_CAPACITY
      BY <1>1, <3>1
    <3> QED BY <3>4, <3>5, <3>6
  <2> QED BY <1>1, <2>1, <2>2, <2>3
<1>10. Len(t) <= DEDUP_CAPACITY /\ Len(t) >= 1 /\ t[Len(t)] = x
  BY <1>1, <1>2, <1>3 DEF N
<1>11. t = Replaced(seen, p, x)
  BY DEF t
<1> QED BY <1>2, <1>5, <1>6, <1>9, <1>10, <1>11 DEF Renewed

LEMMA MovedToEndRenews ==
    ASSUME NEW seen \in Seq(EventIds), Distinct(seen), Len(seen) <= DEDUP_CAPACITY,
           NEW x \in EventIds, x \in ToSet(seen)
    PROVE  Renewed(seen, MovedToEnd(seen, x), x)
<1> DEFINE N == Len(seen)
           I == {i \in 1 .. N : seen[i] = x}
           pos == SelectInSeq(seen, LAMBDA v : v = x)
<1>1. N \in Nat /\ DOMAIN seen = 1 .. N /\ I # {}
  BY DEF ToSet
<1>2. pos \in I
  <2>1. PICK m \in I : \A k \in I : m <= k
    <3>1. I \in SUBSET Nat
      OBVIOUS
    <3> HIDE DEF I
    <3> QED BY <1>1, <3>1, LeastOf
  <2> QED BY <1>1, <2>1 DEF SelectInSeq, Min
<1>3. RemoveFirst(seen, x) = SubSeq(seen, 1, pos - 1) \o SubSeq(seen, pos + 1, N)
  BY <1>1 DEF RemoveFirst, RemoveAt
<1>4. pos \in 1 .. N /\ seen[pos] = x
  BY <1>2
<1> HIDE DEF pos, I, N
<1> DEFINE front == SubSeq(seen, 1, pos - 1)
           back == SubSeq(seen, pos + 1, N)
           moved == MovedToEnd(seen, x)
<1>5. /\ front \in Seq(EventIds) /\ Len(front) = pos - 1
      /\ \A i \in 1 .. pos - 1 : front[i] = seen[i]
  <2>1. N = Len(seen)
    BY DEF N
  <2> QED BY <1>1, <1>4, <2>1
<1>6. back \in Seq(EventIds) /\ Len(back) = N - pos /\ \A i \in 1 .. N - pos : back[i] = seen[pos + i]
  <2> DEFINE m == pos + 1
  <2>1. /\ m \in 1 .. N + 1 /\ N = Len(seen) /\ N - m + 1 = N - pos
        /\ \A i \in 1 .. N - pos : m + i - 1 = pos + i
    BY <1>1, <1>4 DEF N
  <2> HIDE DEF m
  <2>2. \A i \in m .. N : seen[i] \in EventIds
    BY <1>1, <2>1
  <2>3. /\ SubSeq(seen, m, N) \in Seq(EventIds) /\ Len(SubSeq(seen, m, N)) = N - m + 1
        /\ \A i \in 1 .. N - m + 1 : SubSeq(seen, m, N)[i] = seen[m + i - 1]
    BY <1>1, <2>1, <2>2, SubSeqProperties
  <2>4. back = SubSeq(seen, m, N)
    BY DEF m
  <2> HIDE DEF back
  <2> QED BY <2>1, <2>3, <2>4
<1>7. moved = Append(front \o back, x)
  BY <1>3 DEF MovedToEnd
<1> HIDE DEF front, back, moved
<1>8. /\ front \o back \in Seq(EventIds) /\ Len(front \o back) = N - 1
      /\ \A i \in 1 .. pos - 1 : (front \o back)[i] = front[i]
      /\ \A i \in pos .. N - 1 : (front \o back)[i] = back[i - (pos - 1)]
  <2> DEFINE a == Len(front)
             b == Len(back)
  <2>1. a = pos - 1 /\ b = N - pos /\ a \in Nat /\ b \in Nat /\ a + b = N - 1
    BY <1>1, <1>4, <1>5, <1>6
  <2>2. /\ front \o back \in Seq(EventIds) /\ Len(front \o back) = a + b
        /\ \A i \in 1 .. a + b : (front \o back)[i] = IF i <= a THEN front[i] ELSE back[i - a]
    BY <1>5, <1>6, ConcatProperties
  <2> HIDE DEF a, b
  <2>3. ASSUME NEW i \in 1 .. pos - 1 PROVE i \in 1 .. a + b /\ i <= a
    BY <1>1, <1>4, <2>1
  <2>4. ASSUME NEW i \in pos .. N - 1 PROVE i \in 1 .. a + b /\ ~(i <= a)
    BY <1>1, <1>4, <2>1
  <2> QED BY <2>1, <2>2, <2>3, <2>4
<1> DEFINE joined == front \o back
<1> HIDE DEF joined
<1>9. /\ joined \in Seq(EventIds) /\ Len(joined) = N - 1 /\ moved = Append(joined, x)
      /\ \A i \in 1 .. N - 1 : i < pos => joined[i] = seen[i]
      /\ \A i \in 1 .. N - 1 : ~(i < pos) => joined[i] = seen[i + 1]
  <2>1. joined \in Seq(EventIds) /\ Len(joined) = N - 1 /\ moved = Append(joined, x)
    BY <1>7, <1>8 DEF joined
  <2>2. ASSUME NEW i \in 1 .. N - 1, i < pos PROVE joined[i] = seen[i]
    <3>1. i \in 1 .. pos - 1
      BY <1>1, <1>4, <2>2
    <3> QED BY <1>5, <1>8, <3>1 DEF joined
  <2>3. ASSUME NEW i \in 1 .. N - 1, ~(i < pos) PROVE joined[i] = seen[i + 1]
    <3>1. i \in pos .. N - 1 /\ i - (pos - 1) \in 1 .. N - pos /\ pos + (i - (pos - 1)) = i + 1
      BY <1>1, <1>4, <2>3
    <3> QED BY <1>6, <1>8, <3>1 DEF joined
  <2> QED BY <2>1, <2>2, <2>3
<1>10. moved = Replaced(seen, pos, x)
  <2>1. /\ moved \in Seq(EventIds) /\ Len(moved) = N /\ moved[N] = x
        /\ \A i \in 1 .. N - 1 : moved[i] = joined[i]
    <3> DEFINE c == Len(joined)
    <3>1. c = N - 1 /\ c + 1 = N
      BY <1>1, <1>9
    <3>2. /\ Append(joined, x) \in Seq(EventIds) /\ Len(Append(joined, x)) = c + 1
          /\ Append(joined, x)[c + 1] = x /\ \A i \in 1 .. c : Append(joined, x)[i] = joined[i]
      BY <1>9, AppendProperties
    <3> HIDE DEF c
    <3> QED BY <1>9, <3>1, <3>2
  <2>2. moved = [i \in 1 .. N |-> moved[i]]
    BY <2>1
  <2>3. ASSUME NEW i \in 1 .. N
        PROVE  moved[i] = IF i = N THEN x ELSE IF i < pos THEN seen[i] ELSE seen[i + 1]
    <3>1. i = N \/ i \in 1 .. N - 1
      BY <1>1
    <3> QED BY <1>1, <1>9, <2>1, <3>1
  <2>4. Replaced(seen, pos, x) =
          [i \in 1 .. N |-> IF i = N THEN x ELSE IF i < pos THEN seen[i] ELSE seen[i + 1]]
    BY DEF Replaced, N
  <2> QED BY <2>2, <2>3, <2>4
<1>11. Renewed(seen, Replaced(seen, pos, x), x)
  BY <1>1, <1>4, ReplacedRenews
<1> QED BY <1>10, <1>11 DEF moved

LEMMA RememberedRenews ==
    ASSUME NEW seen \in Seq(EventIds), Distinct(seen), Len(seen) <= DEDUP_CAPACITY,
           NEW x \in EventIds, x \notin ToSet(seen)
    PROVE  Renewed(seen, Remembered(Append(seen, x)), x)
<1> DEFINE N == Len(seen)
           longer == Append(seen, x)
           t == Remembered(longer)
<1>1. N \in Nat /\ DOMAIN seen = 1 .. N /\ DEDUP_CAPACITY \in Nat \ {0}
  BY TransferConstants
<1>2. /\ longer \in Seq(EventIds) /\ Len(longer) = N + 1 /\ DOMAIN longer = 1 .. N + 1
      /\ longer[N + 1] = x
      /\ \A i \in 1 .. N : longer[i] = seen[i]
  OBVIOUS
<1> HIDE DEF longer, N
<1>3. CASE N < DEDUP_CAPACITY
  <2>1. t = longer
    BY <1>1, <1>2, <1>3 DEF Remembered
  <2> HIDE DEF t
  <2>2. Distinct(t)
    <3> SUFFICES ASSUME NEW i \in 1 .. N + 1, NEW j \in 1 .. N + 1, t[i] = t[j] PROVE i = j
      BY <1>2, <2>1 DEF Distinct
    <3>1. \A k \in 1 .. N : seen[k] # x
      BY <1>1 DEF ToSet
    <3>2. (i = N + 1 \/ i \in 1 .. N) /\ (j = N + 1 \/ j \in 1 .. N)
      BY <1>1
    <3> QED BY <1>1, <1>2, <2>1, <3>1, <3>2 DEF Distinct
  <2>3. \A y \in ToSet(t) : y = x \/ y \in ToSet(seen)
    BY <1>1, <1>2, <2>1 DEF ToSet
  <2>4. ASSUME NEW m \in DOMAIN seen
        PROVE  m \in DOMAIN t /\ t[m] = seen[m] /\ Behind(t, m) = Behind(seen, m) \cup {x}
    <3>1. m \in DOMAIN t /\ t[m] = seen[m]
      BY <1>1, <1>2, <2>1
    <3>2. ASSUME NEW n \in m + 1 .. N + 1 PROVE longer[n] \in Behind(seen, m) \cup {x}
      <4>1. n = N + 1 \/ (n \in 1 .. N /\ n \in m + 1 .. N)
        BY <1>1
      <4> QED BY <1>2, <4>1 DEF Behind, N
    <3>3. ASSUME NEW n \in m + 1 .. N PROVE seen[n] \in {longer[i] : i \in m + 1 .. N + 1}
      <4>1. n \in 1 .. N /\ n \in m + 1 .. N + 1
        BY <1>1
      <4> QED BY <1>2, <4>1
    <3>4. N + 1 \in m + 1 .. N + 1
      BY <1>1
    <3>5. /\ Behind(t, m) = {longer[n] : n \in m + 1 .. N + 1}
          /\ Behind(seen, m) = {seen[n] : n \in m + 1 .. N}
      BY <1>2, <2>1 DEF Behind, N
    <3> QED BY <1>2, <3>1, <3>2, <3>3, <3>4, <3>5
  <2>5. Len(t) <= DEDUP_CAPACITY /\ Len(t) >= 1 /\ t[Len(t)] = x /\ t \in Seq(EventIds)
    BY <1>1, <1>2, <1>3, <2>1
  <2>6. Renewed(seen, t, x)
    BY <2>2, <2>3, <2>4, <2>5 DEF Renewed
  <2> QED BY <2>6 DEF t, longer
<1>4. CASE N = DEDUP_CAPACITY
  <2>1. t = SubSeq(longer, 2, N + 1)
    <3>1. Len(longer) > DEDUP_CAPACITY /\ Len(longer) - DEDUP_CAPACITY + 1 = 2
      BY <1>1, <1>2, <1>4
    <3> QED BY <1>2, <3>1 DEF Remembered
  <2>2. t \in Seq(EventIds) /\ Len(t) = N /\ \A i \in 1 .. N : t[i] = longer[i + 1]
    BY <1>1, <1>2, <2>1
  <2> HIDE DEF t
  <2>3. t = [i \in 1 .. N |-> t[i]]
    BY <2>2
  <2>4. ASSUME NEW i \in 1 .. N
        PROVE  t[i] = IF i = N THEN x ELSE IF i < 1 THEN seen[i] ELSE seen[i + 1]
    <3>1. i = N \/ (i + 1 \in 1 .. N /\ ~(i < 1) /\ i # N)
      BY <1>1
    <3> QED BY <1>1, <1>2, <2>2, <3>1
  <2>5. Replaced(seen, 1, x) =
          [i \in 1 .. N |-> IF i = N THEN x ELSE IF i < 1 THEN seen[i] ELSE seen[i + 1]]
    BY DEF Replaced, N
  <2>6. t = Replaced(seen, 1, x)
    BY <2>3, <2>4, <2>5
  <2>7. 1 \in DOMAIN seen
    BY <1>1, <1>4
  <2>8. Renewed(seen, Replaced(seen, 1, x), x)
    BY <1>4, <2>7, ReplacedRenews DEF N
  <2> QED BY <2>6, <2>8 DEF t, longer
<1>5. N < DEDUP_CAPACITY \/ N = DEDUP_CAPACITY
  <2>1. N <= DEDUP_CAPACITY
    BY DEF N
  <2>2. N \in Int /\ DEDUP_CAPACITY \in Int
    BY <1>1
  <2> QED BY <2>1, <2>2
<1> QED BY <1>3, <1>4, <1>5

\* A delivery that is noted moves its event id to the end of the set: all it
\* takes for the set to keep track is that the id is renewed, and that it is
\* called a duplicate exactly when the set held it.
LEMMA NotedIsTracked ==
    ASSUME NEW seen, NEW L, Remembers(seen, L), NEW t, NEW d \in Deliveries,
           Renewed(seen, t, d.event_id),
           d.outcome = "duplicate" <=> d.event_id \in ToSet(seen)
    PROVE  Remembers(t, Append(L, d))
<1> DEFINE x == d.event_id
           n == Len(L)
           M == Append(L, d)
<1>1. /\ L \in Seq(Deliveries) /\ n \in Nat /\ DOMAIN L = 1 .. n
      /\ seen \in Seq(EventIds) /\ Distinct(seen)
      /\ Tracks(seen, L) /\ DroppedIn(L) /\ DEDUP_CAPACITY \in Nat
  BY TransferConstants DEF Remembers
<1>2. /\ M \in Seq(Deliveries) /\ Len(M) = n + 1 /\ DOMAIN M = 1 .. n + 1 /\ M[n + 1] = d
      /\ \A k \in 1 .. n : M[k] = L[k]
  BY <1>1
<1>3. Renewed(seen, t, x)
  OBVIOUS
<1>4. d.outcome = "duplicate" <=> x \in ToSet(seen)
  OBVIOUS
<1> HIDE DEF M, n
<1>5. ASSUME NEW k \in 1 .. n PROVE After(M, k) = After(L, k) \cup {x}
  <2>1. ASSUME NEW m \in k + 1 .. n + 1 PROVE M[m].event_id \in After(L, k) \cup {x}
    <3>1. m = n + 1 \/ (m \in 1 .. n /\ m \in k + 1 .. n)
      BY <1>1
    <3> QED BY <1>2, <3>1 DEF After, n
  <2>2. ASSUME NEW m \in k + 1 .. n PROVE L[m].event_id \in {M[j].event_id : j \in k + 1 .. n + 1}
    <3>1. m \in 1 .. n /\ m \in k + 1 .. n + 1
      BY <1>1
    <3> QED BY <1>2, <3>1
  <2>3. n + 1 \in k + 1 .. n + 1 /\ M[n + 1].event_id = x
    BY <1>1, <1>2
  <2>4. /\ After(M, k) = {M[j].event_id : j \in k + 1 .. n + 1}
        /\ After(L, k) = {L[j].event_id : j \in k + 1 .. n}
    BY <1>2 DEF After, n
  <2> QED BY <2>1, <2>2, <2>3, <2>4
<1>6. \A k \in 1 .. n : IsFiniteSet(After(L, k))
  <2> SUFFICES ASSUME NEW k \in 1 .. n PROVE IsFiniteSet(After(L, k))
    OBVIOUS
  <2> DEFINE I == k + 1 .. n
             f == [m \in I |-> L[m].event_id]
  <2>1. IsFiniteSet(I)
    <3>1. k + 1 \in Int /\ n \in Int
      BY <1>1
    <3> QED BY <3>1, FS_Interval
  <2>2. f \in [I -> After(L, k)] /\ \A y \in After(L, k) : \E m \in I : f[m] = y
    BY DEF After, n
  <2> HIDE DEF I, f
  <2>3. f \in Surjection(I, After(L, k))
    BY <2>2 DEF Surjection
  <2> QED BY <2>1, <2>3, FS_Surjection
<1>7. Tracks(t, M)
  <2> SUFFICES ASSUME NEW k \in 1 .. n + 1, M[k].event_id \notin After(M, k)
               PROVE  \/ \E m \in DOMAIN t : t[m] = M[k].event_id /\ After(M, k) = Behind(t, m)
                      \/ /\ M[k].event_id \notin ToSet(t)
                         /\ Cardinality(After(M, k)) >= DEDUP_CAPACITY
    BY <1>2 DEF Tracks
  <2>1. CASE k = n + 1
    <3>1. t \in Seq(EventIds) /\ Len(t) >= 1 /\ t[Len(t)] = x
      BY <1>3 DEF Renewed
    <3>2. Len(t) \in DOMAIN t /\ Behind(t, Len(t)) = {}
      <4>1. Len(t) \in Nat /\ DOMAIN t = 1 .. Len(t)
        BY <3>1
      <4>2. Len(t) \in 1 .. Len(t) /\ Len(t) + 1 .. Len(t) = {}
        BY <3>1, <4>1
      <4> QED BY <4>1, <4>2 DEF Behind
    <3>3. After(M, k) = {}
      <4>1. k + 1 .. n + 1 = {}
        BY <1>1, <2>1
      <4> QED BY <1>2, <4>1 DEF After
    <3>4. M[k].event_id = x
      BY <1>2, <2>1
    <3> QED BY <3>1, <3>2, <3>3, <3>4
  <2>2. CASE k # n + 1
    <3>1. k \in 1 .. n /\ M[k] = L[k]
      BY <1>1, <1>2, <2>2
    <3> DEFINE y == L[k].event_id
    <3>2. y # x /\ y \notin After(L, k) /\ After(M, k) = After(L, k) \cup {x}
      BY <1>5, <3>1
    <3>3. \/ \E m \in DOMAIN seen : seen[m] = y /\ After(L, k) = Behind(seen, m)
          \/ y \notin ToSet(seen) /\ Cardinality(After(L, k)) >= DEDUP_CAPACITY
      BY <1>1, <3>1, <3>2 DEF Tracks
    <3>4. CASE \E m \in DOMAIN seen : seen[m] = y /\ After(L, k) = Behind(seen, m)
      <4>1. PICK m \in DOMAIN seen : seen[m] = y /\ After(L, k) = Behind(seen, m)
        BY <3>4
      <4>2. \/ \E j \in DOMAIN t : t[j] = seen[m] /\ Behind(t, j) = Behind(seen, m) \cup {x}
            \/ seen[m] \notin ToSet(t) /\ Cardinality(Behind(seen, m) \cup {x}) >= DEDUP_CAPACITY
        BY <1>3, <3>2, <4>1 DEF Renewed
      <4> HIDE DEF y, x
      <4>3. M[k].event_id = seen[m] /\ After(M, k) = Behind(seen, m) \cup {x}
        BY <3>1, <3>2, <4>1 DEF y
      <4> QED BY <4>2, <4>3
    <3>5. CASE y \notin ToSet(seen) /\ Cardinality(After(L, k)) >= DEDUP_CAPACITY
      <4>1. y \notin ToSet(t)
        BY <1>3, <3>2, <3>5 DEF Renewed
      <4> DEFINE A == After(L, k)
                 B == After(M, k)
      <4>2. IsFiniteSet(A) /\ B = A \cup {x}
        BY <1>6, <3>1, <3>2
      <4> HIDE DEF A, B, x
      <4>3. IsFiniteSet(B)
        BY <4>2, FS_AddElement
      <4>4. Cardinality(A) \in Nat /\ Cardinality(B) \in Nat /\ Cardinality(A) <= Cardinality(B)
        BY <4>2, <4>3, FS_CardinalityType, FS_Subset
      <4>5. Cardinality(A) >= DEDUP_CAPACITY
        BY <3>5 DEF A
      <4>6. Cardinality(B) >= DEDUP_CAPACITY
        BY <1>1, <4>4, <4>5
      <4> QED BY <3>1, <4>1, <4>6 DEF B
    <3> QED BY <3>3, <3>4, <3>5
  <2> QED BY <2>1, <2>2
<1>8. DroppedIn(M)
  <2> SUFFICES ASSUME NEW i \in 1 .. n + 1, NEW j \in 1 .. n + 1, i < j,
                      M[i].event_id = M[j].event_id,
                      M[i].event_id \notin {M[k].event_id : k \in i + 1 .. j - 1}
               PROVE  M[j].outcome = "duplicate" <=>
                        Cardinality({M[k].event_id : k \in i + 1 .. j - 1}) < DEDUP_CAPACITY
    BY <1>2 DEF DroppedIn
  <2>1. i \in 1 .. n /\ M[i] = L[i]
    BY <1>1, <1>2
  <2>2. {M[k].event_id : k \in i + 1 .. j - 1} = {L[k].event_id : k \in i + 1 .. j - 1}
    <3>1. \A k \in i + 1 .. j - 1 : k \in 1 .. n
      BY <1>1
    <3>2. \A k \in i + 1 .. j - 1 : M[k] = L[k]
      BY <1>2, <3>1
    <3> QED BY <3>2
  <2>3. CASE j # n + 1
    <3>1. j \in 1 .. n /\ M[j] = L[j]
      BY <1>1, <1>2, <2>3
    <3> QED BY <1>1, <2>1, <2>2, <3>1 DEF DroppedIn
  <2>4. CASE j = n + 1
    <3>1. M[j] = d /\ L[i].event_id = x
      BY <1>2, <2>1, <2>4
    <3>2. {L[k].event_id : k \in i + 1 .. j - 1} = After(L, i)
      <4>1. j - 1 = n
        BY <1>1, <2>4
      <4> QED BY <4>1 DEF After, n
    <3>3. x \notin After(L, i)
      BY <2>1, <2>2, <3>1, <3>2
    <3>4. \/ \E m \in DOMAIN seen : seen[m] = x /\ After(L, i) = Behind(seen, m)
          \/ x \notin ToSet(seen) /\ Cardinality(After(L, i)) >= DEDUP_CAPACITY
      BY <1>1, <2>1, <3>1, <3>3 DEF Tracks
    <3>5. x \in ToSet(seen) <=> Cardinality(After(L, i)) < DEDUP_CAPACITY
      <4>1. CASE \E m \in DOMAIN seen : seen[m] = x /\ After(L, i) = Behind(seen, m)
        <5>1. PICK m \in DOMAIN seen : seen[m] = x /\ After(L, i) = Behind(seen, m)
          BY <4>1
        <5>2. Cardinality(After(L, i)) = Len(seen) - m
          BY <1>1, <5>1, BehindCounts
        <5>3. m \in 1 .. Len(seen) /\ Len(seen) \in Nat /\ Len(seen) <= DEDUP_CAPACITY
          BY <1>1 DEF Remembers
        <5>4. Len(seen) - m < DEDUP_CAPACITY
          BY <1>1, <5>3
        <5>5. x \in ToSet(seen)
          BY <5>1 DEF ToSet
        <5> QED BY <5>2, <5>4, <5>5
      <4>2. CASE x \notin ToSet(seen) /\ Cardinality(After(L, i)) >= DEDUP_CAPACITY
        <5>1. Cardinality(After(L, i)) \in Nat
          BY <1>6, <2>1, FS_CardinalityType
        <5> QED BY <1>1, <4>2, <5>1
      <4> QED BY <3>4, <4>1, <4>2
    <3> QED BY <1>4, <2>2, <3>1, <3>2, <3>5
  <2> QED BY <2>3, <2>4
<1> QED BY <1>2, <1>3, <1>7, <1>8 DEF Remembers, Renewed, M

\* One payload: a malformed or late one is not noted and leaves the set alone.
LEMMA PublishRemembers ==
    ASSUME NEW s \in Sources, NEW p \in Payloads, NEW L \in Seq(Deliveries),
           NEW D \in Seq(Deliveries), Remembers(s.seen, L \o D)
    PROVE  Remembers(publish(s, p).seen, L \o Noted(D, s, p))
<1>1. Outcome(s, p) \in Outcomes /\ p.event_id \in EventIds /\ s.seen \in Seq(EventIds)
  BY PublishSteps DEF EventIds, Sources
<1>2. CASE Outcome(s, p) \in {"malformed", "late"}
  <2>1. publish(s, p) = [s EXCEPT !.dead = @ \cup {p.event_id}]
    BY <1>2 DEF publish, DeadLetter
  <2>2. publish(s, p).seen = s.seen
    BY <2>1 DEF Sources
  <2>3. Noted(D, s, p) = D
    BY <1>2 DEF Noted
  <2> QED BY <2>2, <2>3
<1>3. ASSUME Outcome(s, p) \in {"duplicate", "accepted"},
             Renewed(s.seen, publish(s, p).seen, p.event_id),
             Outcome(s, p) = "duplicate" <=> p.event_id \in ToSet(s.seen)
      PROVE  Remembers(publish(s, p).seen, L \o Noted(D, s, p))
  <2> DEFINE d == [event_id |-> p.event_id, outcome |-> Outcome(s, p)]
             t == publish(s, p).seen
             M == L \o D
  <2>1. d \in Deliveries /\ d.event_id = p.event_id /\ d.outcome = Outcome(s, p)
    BY <1>1 DEF Deliveries
  <2>2. Noted(D, s, p) = Append(D, d)
    BY <1>3 DEF Noted
  <2> HIDE DEF d
  <2>3. L \o Append(D, d) = Append(M, d)
    BY <2>1
  <2> HIDE DEF t, M
  <2>4. Renewed(s.seen, t, d.event_id)
    BY <1>3, <2>1 DEF t
  <2>5. d.outcome = "duplicate" <=> d.event_id \in ToSet(s.seen)
    BY <1>3, <2>1
  <2>6. Remembers(s.seen, M)
    BY DEF M
  <2>7. Remembers(t, Append(M, d))
    BY <2>1, <2>4, <2>5, <2>6, NotedIsTracked
  <2> QED BY <2>2, <2>3, <2>7 DEF t
<1>4. Distinct(s.seen) /\ Len(s.seen) <= DEDUP_CAPACITY
  BY DEF Remembers
<1>5. CASE Outcome(s, p) = "duplicate"
  <2>1. p.event_id \in ToSet(s.seen)
    BY <1>5 DEF Outcome
  <2>2. publish(s, p) = [s EXCEPT !.seen = MovedToEnd(@, p.event_id)]
    BY <1>5 DEF publish
  <2>3. publish(s, p).seen = MovedToEnd(s.seen, p.event_id)
    BY <2>2 DEF Sources
  <2>4. Renewed(s.seen, publish(s, p).seen, p.event_id)
    BY <1>1, <1>4, <2>1, <2>3, MovedToEndRenews
  <2> QED BY <1>3, <1>5, <2>1, <2>4
<1>6. CASE Outcome(s, p) = "accepted"
  <2>1. p.event_id \notin ToSet(s.seen)
    BY <1>6 DEF Outcome
  <2>2. publish(s, p) = [s EXCEPT !.seen = Remembered(Append(@, p.event_id)),
                                  !.watermark = IF p.at > @ THEN p.at ELSE @,
                                  !.queue = Append(@, p),
                                  !.accepted = @ + 1]
    BY <1>6 DEF publish
  <2>3. publish(s, p).seen = Remembered(Append(s.seen, p.event_id))
    BY <2>2 DEF Sources
  <2>4. Renewed(s.seen, publish(s, p).seen, p.event_id)
    BY <1>1, <1>4, <2>1, <2>3, RememberedRenews
  <2> QED BY <1>3, <1>6, <2>1, <2>4
<1> QED BY <1>1, <1>2, <1>5, <1>6 DEF Outcomes

\* A request.
LEMMA OfferRemembers ==
    ASSUME NEW s \in Sources, NEW payloads \in Seq(Payloads), NEW L, Remembers(s.seen, L)
    PROVE  LET taken == Offer(s, payloads)
           IN  Remembers(taken.source.seen, L \o taken.deliveries)
<1> DEFINE n == Len(payloads)
           base == [source |-> s, deliveries |-> <<>>]
<1>1. PICK f : RunOf(f, n, Takings, base, Taking(payloads)) /\ f[n] = Offer(s, payloads)
  BY OfferRuns
<1>2. n \in Nat /\ DOMAIN payloads = 1 .. n /\ L \in Seq(Deliveries)
  BY DEF Remembers
<1>3. f[0] = base /\ \A k \in 0 .. n : f[k] \in Takings
  BY <1>1 DEF RunOf
<1> DEFINE Holds(k) == Remembers(f[k].source.seen, L \o f[k].deliveries)
           S == {k \in 0 .. n : Holds(k)}
<1>4. 0 \in S
  <2>1. L \o <<>> = L
    BY <1>2
  <2>2. f[0].source = s /\ f[0].deliveries = <<>>
    BY <1>3
  <2>3. f[0].source.seen = s.seen /\ L \o f[0].deliveries = L
    BY <2>1, <2>2
  <2>4. Holds(0)
    BY <2>3
  <2> HIDE DEF Holds
  <2> QED BY <1>2, <2>4
<1>5. ASSUME NEW k \in 1 .. n, k - 1 \in S PROVE k \in S
  <2> DEFINE d == f[k - 1]
             p == payloads[k]
  <2>1. k - 1 \in 0 .. n /\ d \in Takings /\ p \in Payloads
    BY <1>2, <1>3
  <2>2. Remembers(d.source.seen, L \o d.deliveries)
    BY <1>5
  <2>3. d.source \in Sources /\ d.deliveries \in Seq(Deliveries)
    BY <2>1 DEF Takings
  <2>4. f[k] = [source |-> publish(d.source, p), deliveries |-> Noted(d.deliveries, d.source, p)]
    BY <1>1, <2>1 DEF RunOf, Taking
  <2> HIDE DEF p, d
  <2>5. Remembers(publish(d.source, p).seen, L \o Noted(d.deliveries, d.source, p))
    BY <1>2, <2>1, <2>2, <2>3, PublishRemembers
  <2>6. f[k].source = publish(d.source, p) /\ f[k].deliveries = Noted(d.deliveries, d.source, p)
    BY <2>4
  <2>7. Holds(k)
    BY <2>5, <2>6
  <2> HIDE DEF Holds
  <2> QED BY <2>7
<1> HIDE DEF S
<1>6. \A k \in 0 .. n : k \in S
  BY <1>2, <1>4, <1>5, UpTo
<1>7. Holds(n)
  BY <1>2, <1>6 DEF S
<1> QED BY <1>1, <1>7

-----------------------------------------------------------------------------
(* What a finished replay reports missing. *)

Held == IF processor.hand = NoTransfer THEN {} ELSE {InHand}

\* The parts of the state the argument is about.
StreamTypes ==
    /\ source \in Sources
    /\ processor = [hand |-> processor.hand, decisions |-> processor.decisions,
                    processed |-> processor.processed]
    /\ processor.processed \in Nat
    /\ processor.hand # NoTransfer => processor.hand.event \in Accepted
    /\ replay = [pc |-> replay.pc, sent |-> replay.sent, accepted |-> replay.accepted,
                 listed |-> replay.listed, missing |-> replay.missing,
                 restarted |-> replay.restarted]
    /\ replay.sent \in 0 .. Len(Replayed)
    /\ replay.pc \in {"idle", "post", "poll", "list", "letters", "done", "stopped"}

\* What was accepted is processed, queued or in hand: nothing is counted twice
\* and nothing is lost on the way.
AllCounted ==
    source.accepted = processor.processed + Len(source.queue)
                        + (IF processor.hand = NoTransfer THEN 0 ELSE 1)

\* What the replay was told is accepted is on its way, in the ledger or a dead
\* letter; once the service has caught up nothing is on its way.
NothingIsLost ==
    /\ replay.pc = "idle" => replay.accepted = {}
    /\ (replay.pc \in {"post", "poll"} /\ ~replay.restarted) =>
         replay.accepted \subseteq IdsOf(source.queue) \cup Held \cup stored \cup source.dead
    /\ (replay.pc \in {"list", "letters"} /\ ~replay.restarted) =>
         replay.accepted \subseteq stored \cup source.dead
    /\ MissingIsStored

ReplayInv == StreamTypes /\ AllCounted /\ NothingIsLost

LEMMA ReplayInitially == TransferInit => ReplayInv
<1> SUFFICES ASSUME TransferInit PROVE ReplayInv
  OBVIOUS
<1> USE DEF TransferInit, EmptySource, IdleProcessor, IdleReplay
<1>1. source \in Sources
  <2>1. <<>> \in Seq(EventIds) /\ <<>> \in Seq(Accepted) /\ Never \in Marks
    BY DEF Marks
  <2> QED BY <2>1 DEF Sources
<1>2. Len(Replayed) \in Nat
  BY TransferConstants
<1>3. StreamTypes
  BY <1>1, <1>2 DEF StreamTypes
<1>4. AllCounted
  BY DEF AllCounted
<1>5. NothingIsLost
  BY DEF NothingIsLost, MissingIsStored
<1> QED BY <1>3, <1>4, <1>5 DEF ReplayInv

\* What a step that leaves the replay alone has to preserve.
LEMMA ReplayAside ==
    ASSUME NothingIsLost, UNCHANGED replay, stored \subseteq stored',
           source.dead \subseteq source'.dead,
           IdsOf(source.queue) \cup Held \subseteq
             IdsOf(source'.queue) \cup Held' \cup stored' \cup source'.dead
    PROVE  NothingIsLost'
BY DEF NothingIsLost, MissingIsStored

\* A request adds to the queue, to the dead letters and to the count.
LEMMA RequestSteps ==
    ASSUME ReplayInv, NEW payloads \in Seq(Payloads), publish_events(payloads)
    PROVE  /\ source' \in Sources /\ AllCounted'
           /\ IdsOf(source.queue) \subseteq IdsOf(source'.queue)
           /\ source.dead \subseteq source'.dead
           /\ AcceptedIn(Offer(source, payloads).deliveries) \subseteq IdsOf(source'.queue)
           /\ UNCHANGED <<processor, stored>>
<1>1. source' = Offer(source, payloads).source /\ UNCHANGED <<processor, stored>>
  BY DEF publish_events
<1>2. source \in Sources
  BY DEF ReplayInv, StreamTypes
<1>3. /\ source' \in Sources
      /\ source'.accepted - Len(source'.queue) = source.accepted - Len(source.queue)
      /\ IdsOf(source.queue) \subseteq IdsOf(source'.queue)
      /\ source.dead \subseteq source'.dead
      /\ AcceptedIn(Offer(source, payloads).deliveries) \subseteq IdsOf(source'.queue)
  BY <1>1, <1>2, OfferSteps
<1>4. AllCounted'
  <2> DEFINE inHand == IF processor.hand = NoTransfer THEN 0 ELSE 1
             processed == processor.processed
             accepted == source.accepted
             queued == Len(source.queue)
             accepted2 == source'.accepted
             queued2 == Len(source'.queue)
  <2>1. /\ accepted \in Nat /\ queued \in Nat /\ accepted2 \in Nat /\ queued2 \in Nat
        /\ processed \in Nat /\ inHand \in Nat
    BY <1>2, <1>3 DEF Sources, ReplayInv, StreamTypes
  <2>2. accepted = processed + queued + inHand
    BY DEF ReplayInv, AllCounted
  <2>3. accepted2 - queued2 = accepted - queued
    BY <1>3
  <2>4. AllCounted' <=> accepted2 = processed + queued2 + inHand
    BY <1>1 DEF AllCounted
  <2> HIDE DEF inHand, processed, accepted, queued, accepted2, queued2
  <2>5. accepted2 = processed + queued2 + inHand
    BY <2>1, <2>2, <2>3
  <2> QED BY <2>4, <2>5
<1> QED BY <1>1, <1>3, <1>4

LEMMA ProduceKeeps ==
    ASSUME ReplayInv, NEW payload \in Transfers \cup {Malformed}, Produce(payload)
    PROVE  ReplayInv'
<1>1. <<payload>> \in Seq(Payloads) /\ publish_events(<<payload>>) /\ UNCHANGED replay
  BY DEF Payloads, Produce
<1>2. /\ source' \in Sources /\ AllCounted' /\ UNCHANGED <<processor, stored>>
      /\ IdsOf(source.queue) \subseteq IdsOf(source'.queue) /\ source.dead \subseteq source'.dead
  BY <1>1, RequestSteps
<1>3. StreamTypes'
  BY <1>1, <1>2 DEF ReplayInv, StreamTypes
<1>4. NothingIsLost'
  <2>1. Held' = Held
    BY <1>2 DEF Held, InHand
  <2> QED BY <1>1, <1>2, <2>1, ReplayAside DEF ReplayInv
<1> QED BY <1>2, <1>3, <1>4 DEF ReplayInv

LEMMA ResetKeeps == ASSUME ReplayInv, reset_stream PROVE ReplayInv'
<1>1. /\ source' = [source EXCEPT !.seen = <<>>, !.watermark = Never]
      /\ UNCHANGED <<processor, stored, replay>>
  BY DEF reset_stream
<1>2. source \in Sources
  BY DEF ReplayInv, StreamTypes
<1>3. /\ source' \in Sources /\ source'.queue = source.queue /\ source'.dead = source.dead
      /\ source'.accepted = source.accepted
  <2>1. <<>> \in Seq(EventIds) /\ Never \in Marks
    BY DEF Marks
  <2> QED BY <1>1, <1>2, <2>1 DEF Sources
<1>4. StreamTypes'
  BY <1>1, <1>3 DEF ReplayInv, StreamTypes
<1>5. AllCounted'
  BY <1>1, <1>3 DEF ReplayInv, AllCounted
<1>6. NothingIsLost'
  <2>1. Held' = Held
    BY <1>1 DEF Held, InHand
  <2> QED BY <1>1, <1>3, <2>1, ReplayAside DEF ReplayInv
<1> QED BY <1>4, <1>5, <1>6 DEF ReplayInv

LEMMA ObserveKeeps == ASSUME ReplayInv, observe PROVE ReplayInv'
<1> DEFINE e == Head(source.queue)
<1>1. /\ processor.hand = NoTransfer /\ source.queue # <<>>
      /\ processor' = [processor EXCEPT !.hand =
                         [event |-> e, features |-> FeaturesOf(windows[e.account], e)]]
      /\ source' = [source EXCEPT !.queue = Tail(@)]
      /\ UNCHANGED <<stored, replay>>
  BY DEF observe
<1>2. source \in Sources /\ source.queue \in Seq(Accepted)
  BY DEF ReplayInv, StreamTypes, Sources
<1>3. /\ e \in Accepted /\ Tail(source.queue) \in Seq(Accepted)
      /\ Len(Tail(source.queue)) = Len(source.queue) - 1 /\ Len(source.queue) \in Nat
      /\ e = source.queue[1]
      /\ \A i \in 1 .. Len(source.queue) - 1 : Tail(source.queue)[i] = source.queue[i + 1]
  BY <1>1, <1>2, HeadTailProperties
<1>4. /\ source' \in Sources /\ source'.queue = Tail(source.queue)
      /\ source'.dead = source.dead /\ source'.accepted = source.accepted
  BY <1>1, <1>2, <1>3 DEF Sources
<1> HIDE DEF e
<1>5. /\ processor' = [hand |-> processor'.hand, decisions |-> processor'.decisions,
                       processed |-> processor'.processed]
      /\ processor'.hand.event = e /\ processor'.processed = processor.processed
  BY <1>1 DEF ReplayInv, StreamTypes
<1>6. processor'.hand # NoTransfer
  BY <1>3, <1>5 DEF NoTransfer, Accepted
<1>7. StreamTypes'
  <2>1. processor'.processed \in Nat /\ processor'.hand.event \in Accepted
    BY <1>3, <1>5 DEF ReplayInv, StreamTypes
  <2> QED BY <1>1, <1>4, <1>5, <2>1 DEF ReplayInv, StreamTypes
<1>8. AllCounted'
  <2>1. processor.processed \in Nat /\ AllCounted
    BY DEF ReplayInv, StreamTypes
  <2> QED BY <1>1, <1>3, <1>4, <1>5, <1>6, <2>1 DEF AllCounted
<1>9. NothingIsLost'
  <2>1. Held = {} /\ Held' = {e.event_id}
    BY <1>1, <1>5, <1>6 DEF Held, InHand
  <2>2. ASSUME NEW i \in DOMAIN source.queue
        PROVE  source.queue[i].event_id \in IdsOf(source'.queue) \cup Held'
    <3>1. i \in 1 .. Len(source.queue)
      BY <1>2
    <3>2. CASE i = 1
      BY <1>3, <2>1, <3>2
    <3>3. CASE i # 1
      <4>1. /\ i - 1 \in 1 .. Len(source.queue) - 1 /\ (i - 1) + 1 = i
            /\ DOMAIN source'.queue = 1 .. Len(source.queue) - 1
        BY <1>3, <1>4, <3>1, <3>3
      <4>2. source'.queue[i - 1] = source.queue[i]
        BY <1>3, <1>4, <4>1
      <4> QED BY <4>1, <4>2 DEF IdsOf
    <3> QED BY <3>2, <3>3
  <2>3. IdsOf(source.queue) \cup Held \subseteq IdsOf(source'.queue) \cup Held'
    BY <2>1, <2>2 DEF IdsOf
  <2> QED BY <1>1, <1>4, <2>3, ReplayAside DEF ReplayInv
<1> QED BY <1>7, <1>8, <1>9 DEF ReplayInv

LEMMA DecidedKeeps == ASSUME ReplayInv, Decided PROVE ReplayInv'
<1> DEFINE decisions == Kept(Append(processor.decisions, InHand))
<1>1. /\ processor.hand # NoTransfer /\ stored' = stored \cup {InHand}
      /\ processor' = [hand |-> NoTransfer, decisions |-> decisions,
                       processed |-> processor.processed + 1]
      /\ UNCHANGED <<source, replay>>
  BY DEF Decided
<1> HIDE DEF decisions
<1>2. processor.processed \in Nat /\ source.accepted \in Nat /\ Len(source.queue) \in Nat
  BY DEF ReplayInv, StreamTypes, Sources
<1>3. StreamTypes'
  BY <1>1, <1>2 DEF ReplayInv, StreamTypes
<1>4. AllCounted'
  BY <1>1, <1>2 DEF ReplayInv, AllCounted
<1>5. NothingIsLost'
  <2>1. Held = {InHand}
    BY <1>1 DEF Held
  <2> QED BY <1>1, <2>1, ReplayAside DEF ReplayInv
<1> QED BY <1>3, <1>4, <1>5 DEF ReplayInv

LEMMA DeadLetteredKeeps ==
    ASSUME ReplayInv, NEW refused \in BOOLEAN, DeadLettered(refused) PROVE ReplayInv'
<1>1. /\ processor.hand # NoTransfer /\ stored \subseteq stored'
      /\ source' = [source EXCEPT !.dead = @ \cup {InHand}]
      /\ processor' = [processor EXCEPT !.hand = NoTransfer, !.processed = @ + 1]
      /\ UNCHANGED replay
  BY DEF DeadLettered, DeadLetter
<1>2. /\ source \in Sources /\ processor.processed \in Nat
      /\ source.accepted \in Nat /\ Len(source.queue) \in Nat
  BY DEF ReplayInv, StreamTypes, Sources
<1>3. InHand \in EventIds
  BY <1>1 DEF ReplayInv, StreamTypes, InHand, Accepted, EventIds
<1>4. /\ source' \in Sources /\ source'.queue = source.queue
      /\ source'.dead = source.dead \cup {InHand} /\ source'.accepted = source.accepted
  BY <1>1, <1>2, <1>3 DEF Sources
<1>5. processor' = [hand |-> NoTransfer, decisions |-> processor.decisions,
                    processed |-> processor.processed + 1]
  BY <1>1 DEF ReplayInv, StreamTypes
<1>6. StreamTypes'
  <2>1. processor'.hand = NoTransfer /\ processor'.processed \in Nat
    BY <1>2, <1>5
  <2>2. processor' = [hand |-> processor'.hand, decisions |-> processor'.decisions,
                      processed |-> processor'.processed]
    BY <1>5
  <2> QED BY <1>1, <1>4, <2>1, <2>2 DEF ReplayInv, StreamTypes
<1>7. AllCounted'
  BY <1>1, <1>2, <1>4, <1>5 DEF ReplayInv, AllCounted
<1>8. NothingIsLost'
  <2>1. Held = {InHand}
    BY <1>1 DEF Held
  <2> QED BY <1>1, <1>4, <2>1, ReplayAside DEF ReplayInv
<1> QED BY <1>6, <1>7, <1>8 DEF ReplayInv

LEMMA RestartKeeps == ASSUME ReplayInv, Restart PROVE ReplayInv'
<1>1. /\ source' = EmptySource /\ processor' = IdleProcessor /\ stored \subseteq stored'
      /\ replay' = [replay EXCEPT !.restarted =
                      replay.pc \notin {"idle", "done", "stopped"} \/ replay.restarted]
  BY DEF Restart
<1>2. /\ replay' = [pc |-> replay.pc, sent |-> replay.sent, accepted |-> replay.accepted,
                    listed |-> replay.listed, missing |-> replay.missing,
                    restarted |-> replay'.restarted]
      /\ replay'.restarted = (replay.pc \notin {"idle", "done", "stopped"} \/ replay.restarted)
  BY <1>1 DEF ReplayInv, StreamTypes
<1>3. source' \in Sources
  <2>1. <<>> \in Seq(EventIds) /\ <<>> \in Seq(Accepted) /\ Never \in Marks
    BY DEF Marks
  <2> QED BY <1>1, <2>1 DEF Sources, EmptySource
<1>4. StreamTypes'
  BY <1>1, <1>2, <1>3 DEF ReplayInv, StreamTypes, IdleProcessor
<1>5. AllCounted'
  BY <1>1 DEF AllCounted, EmptySource, IdleProcessor
<1>6. NothingIsLost'
  BY <1>1, <1>2 DEF ReplayInv, NothingIsLost, MissingIsStored
<1> QED BY <1>4, <1>5, <1>6 DEF ReplayInv

\* What the replay posts next.
LEMMA ChunkIsPayloads ==
    ASSUME ReplayInv
    PROVE  LET last == IF replay.sent + Chunk < Len(Replayed) THEN replay.sent + Chunk
                       ELSE Len(Replayed)
           IN  /\ last \in 0 .. Len(Replayed)
               /\ SubSeq(Replayed, replay.sent + 1, last) \in Seq(Payloads)
<1> DEFINE last == IF replay.sent + Chunk < Len(Replayed) THEN replay.sent + Chunk
                   ELSE Len(Replayed)
           payloads == SubSeq(Replayed, replay.sent + 1, last)
<1>1. replay.sent \in 0 .. Len(Replayed) /\ Len(Replayed) \in Nat /\ Chunk \in Nat
  BY TransferConstants DEF ReplayInv, StreamTypes
<1>2. last \in 0 .. Len(Replayed)
  BY <1>1
<1>3. Replayed \in Seq(ToSet(Replayed))
  BY TransferConstants
<1> HIDE DEF last
<1>4. \A i \in replay.sent + 1 .. last : Replayed[i] \in ToSet(Replayed)
  BY <1>1, <1>2, <1>3
<1>5. payloads \in Seq(ToSet(Replayed))
  BY <1>1, <1>2, <1>4, SubSeqProperties
<1> HIDE DEF payloads
<1>6. payloads \in Seq(Payloads)
  BY <1>5, SeqMonotonic DEF Payloads
<1> QED BY <1>2, <1>6 DEF last, payloads

LEMMA PostChunkKeeps == ASSUME ReplayInv, PostChunk PROVE ReplayInv'
<1> DEFINE last == IF replay.sent + Chunk < Len(Replayed) THEN replay.sent + Chunk
                   ELSE Len(Replayed)
           payloads == SubSeq(Replayed, replay.sent + 1, last)
           now == AcceptedIn(Offer(source, payloads).deliveries)
<1>1. /\ replay.pc \in {"idle", "post"} /\ replay.sent < Len(Replayed) /\ publish_events(payloads)
      /\ replay' = [replay EXCEPT !.pc = IF last = Len(Replayed) THEN "poll" ELSE "post",
                                  !.sent = last, !.accepted = @ \cup now]
  BY DEF PostChunk, AcceptedIn
<1>2. last \in 0 .. Len(Replayed) /\ payloads \in Seq(Payloads)
  BY ChunkIsPayloads
<1> HIDE DEF last, payloads
<1>3. /\ source' \in Sources /\ AllCounted' /\ UNCHANGED <<processor, stored>>
      /\ IdsOf(source.queue) \subseteq IdsOf(source'.queue) /\ source.dead \subseteq source'.dead
      /\ now \subseteq IdsOf(source'.queue)
  BY <1>1, <1>2, RequestSteps
<1> HIDE DEF now
<1>4. /\ replay' = [pc |-> replay'.pc, sent |-> last, accepted |-> replay.accepted \cup now,
                    listed |-> replay.listed, missing |-> replay.missing,
                    restarted |-> replay.restarted]
      /\ replay'.pc \in {"poll", "post"}
  BY <1>1 DEF ReplayInv, StreamTypes
<1>5. StreamTypes'
  BY <1>2, <1>3, <1>4 DEF ReplayInv, StreamTypes
<1>6. NothingIsLost'
  <2>1. Held' = Held
    BY <1>3 DEF Held, InHand
  <2>2. ~replay.restarted =>
          replay.accepted \subseteq IdsOf(source.queue) \cup Held \cup stored \cup source.dead
    BY <1>1 DEF ReplayInv, NothingIsLost
  <2> QED BY <1>3, <1>4, <2>1, <2>2 DEF NothingIsLost, MissingIsStored
<1> QED BY <1>3, <1>5, <1>6 DEF ReplayInv

\* Once as many are processed as accepted, nothing is queued and nothing in hand.
LEMMA CaughtUpIsEmpty ==
    ASSUME ReplayInv, caught_up PROVE IdsOf(source.queue) = {} /\ Held = {}
<1>1. /\ processor.processed \in Nat /\ source.accepted \in Nat /\ Len(source.queue) \in Nat
      /\ DOMAIN source.queue = 1 .. Len(source.queue)
  BY DEF ReplayInv, StreamTypes, Sources
<1>2. Len(source.queue) = 0 /\ processor.hand = NoTransfer
  BY <1>1 DEF ReplayInv, AllCounted, caught_up
<1> QED BY <1>1, <1>2 DEF IdsOf, Held

LEMMA PollKeeps == ASSUME ReplayInv, Poll PROVE ReplayInv'
<1>1. /\ replay.pc = "poll" /\ caught_up /\ UNCHANGED <<source, processor, stored>>
      /\ replay' = [replay EXCEPT !.pc = "list"]
  BY DEF Poll, ServiceUnchanged
<1>2. replay' = [pc |-> "list", sent |-> replay.sent, accepted |-> replay.accepted,
                 listed |-> replay.listed, missing |-> replay.missing,
                 restarted |-> replay.restarted]
  BY <1>1 DEF ReplayInv, StreamTypes
<1>3. IdsOf(source.queue) = {} /\ Held = {}
  BY <1>1, CaughtUpIsEmpty
<1>4. StreamTypes' /\ AllCounted'
  BY <1>1, <1>2 DEF ReplayInv, StreamTypes, AllCounted
<1>5. NothingIsLost'
  BY <1>1, <1>2, <1>3 DEF ReplayInv, NothingIsLost, MissingIsStored
<1> QED BY <1>4, <1>5 DEF ReplayInv

LEMMA ReportKeeps ==
    ASSUME ReplayInv, ListDecisions \/ Summarize \/ StopReplay PROVE ReplayInv'
<1> USE DEF ReplayInv
<1>1. UNCHANGED <<source, processor, stored>>
  BY DEF ListDecisions, Summarize, StopReplay, ServiceUnchanged
<1>2. CASE ListDecisions
  <2>1. replay.pc = "list" /\ replay' = [replay EXCEPT !.pc = "letters", !.listed = ToSet(processor.decisions)]
    BY <1>2 DEF ListDecisions
  <2>2. replay' = [pc |-> "letters", sent |-> replay.sent, accepted |-> replay.accepted,
                   listed |-> replay'.listed, missing |-> replay.missing,
                   restarted |-> replay.restarted]
    BY <2>1 DEF StreamTypes
  <2>3. StreamTypes' /\ AllCounted'
    BY <1>1, <2>2 DEF StreamTypes, AllCounted
  <2>4. NothingIsLost'
    BY <1>1, <2>1, <2>2 DEF NothingIsLost, MissingIsStored
  <2> QED BY <2>3, <2>4
<1>3. CASE Summarize
  <2> DEFINE missing == replay.accepted \ (replay.listed \cup source.dead)
  <2>1. replay.pc = "letters" /\ replay' = [replay EXCEPT !.pc = "done", !.missing = missing]
    BY <1>3 DEF Summarize
  <2>2. replay' = [pc |-> "done", sent |-> replay.sent, accepted |-> replay.accepted,
                   listed |-> replay.listed, missing |-> missing,
                   restarted |-> replay.restarted]
    BY <2>1 DEF StreamTypes
  <2>3. StreamTypes' /\ AllCounted'
    BY <1>1, <2>2 DEF StreamTypes, AllCounted
  <2>4. ~replay.restarted => missing \subseteq stored
    BY <2>1 DEF NothingIsLost
  <2> HIDE DEF missing
  <2>5. NothingIsLost'
    BY <1>1, <2>1, <2>2, <2>4 DEF NothingIsLost, MissingIsStored
  <2> QED BY <2>3, <2>5
<1>4. CASE StopReplay
  <2>1. replay' = [pc |-> "stopped", sent |-> replay.sent, accepted |-> {}, listed |-> {},
                   missing |-> {}, restarted |-> FALSE]
    BY <1>4 DEF StopReplay, IdleReplay
  <2>2. StreamTypes' /\ AllCounted'
    BY <1>1, <2>1 DEF StreamTypes, AllCounted
  <2>3. NothingIsLost'
    BY <2>1 DEF NothingIsLost, MissingIsStored
  <2> QED BY <2>2, <2>3
<1> QED BY <1>2, <1>3, <1>4

LEMMA ReplayInvStep == ReplayInv /\ [TransferNext]_transferVars => ReplayInv'
<1> SUFFICES ASSUME ReplayInv, [TransferNext]_transferVars PROVE ReplayInv'
  OBVIOUS
<1>1. ASSUME NEW payload \in Transfers \cup {Malformed}, Produce(payload) PROVE ReplayInv'
  BY <1>1, ProduceKeeps
<1>2. ASSUME reset_stream PROVE ReplayInv'
  BY <1>2, ResetKeeps
<1>3. ASSUME Consume PROVE ReplayInv'
  BY <1>3, ObserveKeeps, DecidedKeeps, DeadLetteredKeeps DEF Consume
<1>4. ASSUME Close \/ UNCHANGED transferVars PROVE ReplayInv'
  <2>1. UNCHANGED <<source, processor, stored, replay>>
    BY <1>4 DEF Close, transferVars
  <2>2. StreamTypes' /\ AllCounted'
    BY <2>1 DEF ReplayInv, StreamTypes, AllCounted
  <2>3. NothingIsLost'
    BY <2>1, ReplayAside DEF ReplayInv, Held, InHand
  <2> QED BY <2>2, <2>3 DEF ReplayInv
<1>5. ASSUME Restart PROVE ReplayInv'
  BY <1>5, RestartKeeps
<1>6. ASSUME PostChunk PROVE ReplayInv'
  BY <1>6, PostChunkKeeps
<1>7. ASSUME Poll \/ ListDecisions \/ Summarize \/ StopReplay PROVE ReplayInv'
  BY <1>7, PollKeeps, ReportKeeps
<1> QED BY <1>1, <1>2, <1>3, <1>4, <1>5, <1>6, <1>7 DEF TransferNext

\* What a replay reports missing, neither listed as decided nor a dead letter,
\* was decided and stored in the ledger: the stats it polls count every
\* transfer once, so the service has caught up only when nothing is queued or
\* in hand (stream.py's processed and accepted, replay.py's _catch_up).
THEOREM MissingWasStored == TransferSpec => []MissingIsStored
<1>1. ReplayInv => MissingIsStored
  BY DEF ReplayInv, NothingIsLost
<1> QED BY <1>1, ReplayInitially, ReplayInvStep, PTL DEF TransferSpec

-----------------------------------------------------------------------------
(* Duplicates.  The set keeps track of the deliveries since the last reset: *)
(* every step that touches the one touches the other.                      *)

DedupInv == Remembers(source.seen, log)

LEMMA NothingRemembered == Remembers(<<>>, <<>>)
<1>1. <<>> \in Seq(EventIds) /\ <<>> \in Seq(Deliveries) /\ Len(<<>>) = 0 /\ DEDUP_CAPACITY \in Nat
  BY TransferConstants
<1>2. Len(<<>>) <= DEDUP_CAPACITY
  BY <1>1
<1>3. Distinct(<<>>) /\ Tracks(<<>>, <<>>) /\ DroppedIn(<<>>)
  BY DEF Distinct, Tracks, DroppedIn
<1> QED BY <1>1, <1>2, <1>3 DEF Remembers

LEMMA RequestRemembers ==
    ASSUME ReplayInv, DedupInv, NEW payloads \in Seq(Payloads), publish_events(payloads)
    PROVE  DedupInv'
<1>1. /\ source' = Offer(source, payloads).source
      /\ log' = log \o Offer(source, payloads).deliveries
  BY DEF publish_events
<1>2. source \in Sources /\ Remembers(source.seen, log)
  BY DEF ReplayInv, StreamTypes, DedupInv
<1>3. Remembers(Offer(source, payloads).source.seen, log \o Offer(source, payloads).deliveries)
  BY <1>2, OfferRemembers
<1> QED BY <1>1, <1>3 DEF DedupInv

LEMMA DedupInvStep == ReplayInv /\ DedupInv /\ [TransferNext]_transferVars => DedupInv'
<1> SUFFICES ASSUME ReplayInv, DedupInv, [TransferNext]_transferVars PROVE DedupInv'
  OBVIOUS
<1>1. source \in Sources
  BY DEF ReplayInv, StreamTypes
<1>2. ASSUME NEW payload \in Transfers \cup {Malformed}, Produce(payload) PROVE DedupInv'
  <2>1. <<payload>> \in Seq(Payloads) /\ publish_events(<<payload>>)
    BY <1>2 DEF Payloads, Produce
  <2> QED BY <2>1, RequestRemembers
<1>3. ASSUME reset_stream PROVE DedupInv'
  <2>1. source'.seen = <<>> /\ log' = <<>>
    BY <1>1, <1>3 DEF reset_stream, Sources
  <2> QED BY <2>1, NothingRemembered DEF DedupInv
<1>4. ASSUME source'.seen = source.seen, log' = log PROVE DedupInv'
  BY <1>4 DEF DedupInv
<1>5. ASSUME Consume PROVE DedupInv'
  <2>1. CASE observe
    BY <1>1, <1>4, <2>1 DEF observe, Sources
  <2>2. CASE Decided
    BY <1>4, <2>2 DEF Decided
  <2>3. ASSUME NEW refused \in BOOLEAN, DeadLettered(refused) PROVE DedupInv'
    BY <1>1, <1>4, <2>3 DEF DeadLettered, DeadLetter, Sources
  <2> QED BY <1>5, <2>1, <2>2, <2>3 DEF Consume
<1>6. ASSUME Close \/ UNCHANGED transferVars PROVE DedupInv'
  BY <1>4, <1>6 DEF Close, transferVars
<1>7. ASSUME Restart PROVE DedupInv'
  <2>1. source'.seen = <<>> /\ log' = <<>>
    BY <1>7 DEF Restart, EmptySource
  <2> QED BY <2>1, NothingRemembered DEF DedupInv
<1>8. ASSUME PostChunk PROVE DedupInv'
  <2> DEFINE last == IF replay.sent + Chunk < Len(Replayed) THEN replay.sent + Chunk
                     ELSE Len(Replayed)
             payloads == SubSeq(Replayed, replay.sent + 1, last)
  <2>1. publish_events(payloads)
    BY <1>8 DEF PostChunk
  <2>2. payloads \in Seq(Payloads)
    BY <1>8, ChunkIsPayloads DEF PostChunk
  <2> HIDE DEF payloads
  <2> QED BY <2>1, <2>2, RequestRemembers
<1>9. ASSUME Poll \/ ListDecisions \/ Summarize \/ StopReplay PROVE DedupInv'
  BY <1>4, <1>9 DEF Poll, ListDecisions, Summarize, StopReplay, ServiceUnchanged
<1> QED BY <1>2, <1>3, <1>5, <1>6, <1>7, <1>8, <1>9 DEF TransferNext

\* However deliveries, resets and restarts interleave, an event delivered again
\* is dropped exactly as long as fewer than DEDUP_CAPACITY others were delivered
\* since (source.py's publish: a duplicate is moved to the end, the oldest id is
\* forgotten).
THEOREM DuplicatesWereDropped == TransferSpec => []DuplicatesAreDropped
<1>1. TransferInit => DedupInv
  BY NothingRemembered DEF TransferInit, EmptySource, DedupInv
<1>2. DedupInv => DuplicatesAreDropped
  BY DEF DedupInv, Remembers, DroppedIn, DuplicatesAreDropped
<1> QED BY <1>1, <1>2, ReplayInitially, ReplayInvStep, DedupInvStep, PTL DEF TransferSpec

-----------------------------------------------------------------------------
(* Totals: what a fold over positions gives is the sum in whatever order. *)

LEMMA AcceptedHaveNumbers == \A e \in Accepted : e.at \in Nat /\ e.amount \in Nat /\ e.account \in Accounts
BY TransferConstants DEF Accepted, Payloads, Accounts

\* A total is one transfer's amount and the total of the others.
LEMMA TotalSteps ==
    ASSUME NEW t \in Seq(Accepted)
    PROVE  /\ IsFiniteSet(DOMAIN t)
           /\ Total(t, {}) = 0
           /\ \A P \in SUBSET (DOMAIN t) :
                /\ Total(t, P) \in Nat
                /\ \A x \in P : Total(t, P) = t[x].amount + Total(t, P \ {x})
<1> DEFINE X == DOMAIN t
           amount(x) == t[x].amount
           Some(S) == CHOOSE x \in S : TRUE
           pick == [S \in SUBSET X |-> Some(S)]
           step == [x \in X |-> [sum \in Nat |-> amount(x) + sum]]
<1>1. IsFiniteSet(X) /\ \A x \in X : amount(x) \in Nat
  <2>1. X = 1 .. Len(t) /\ Len(t) \in Nat /\ \A x \in X : t[x] \in Accepted
    OBVIOUS
  <2> QED BY <2>1, FS_Interval, AcceptedHaveNumbers
<1>2. \A S : S # {} => Some(S) \in S
  OBVIOUS
<1> HIDE DEF X, amount, Some
<1>3. Picks(pick, X)
  BY <1>2 DEF Picks
<1>4. PICK g : SetFoldOf(g, X, Nat, 0, step, pick)
  <2>1. step \in [X -> [Nat -> Nat]]
    BY <1>1
  <2> HIDE DEF step, pick
  <2> QED BY <1>1, <1>3, <2>1, SetFoldExists
<1>5. g \in [SUBSET X -> Nat] /\ g[{}] = 0
  BY <1>4 DEF SetFoldOf
<1>6. ASSUME NEW S \in SUBSET X, S # {} PROVE g[S] = amount(Some(S)) + g[S \ {Some(S)}]
  <2>1. g[S] = step[pick[S]][g[S \ {pick[S]}]]
    BY <1>4, <1>6 DEF SetFoldOf
  <2>2. pick[S] = Some(S) /\ Some(S) \in X /\ g[S \ {Some(S)}] \in Nat
    BY <1>2, <1>5, <1>6
  <2> HIDE DEF pick
  <2> QED BY <2>1, <2>2
<1> HIDE DEF step, pick
\* The total is the fold's value.
<1>7. ASSUME NEW P \in SUBSET X PROVE Total(t, P) = g[P]
  <2> DEFINE Recurs(h) == h = [S \in SUBSET P |->
                                 IF S = {} THEN 0 ELSE amount(Some(S)) + h[S \ {Some(S)}]]
             iter == CHOOSE h : Recurs(h)
  <2>1. Total(t, P) = iter[P]
    BY DEF Total, MapThenSumSet, MapThenFoldSet, amount, Some
  <2>2. Recurs([S \in SUBSET P |-> g[S]])
    BY <1>2, <1>5, <1>6
  <2>3. Recurs(iter)
    <3> HIDE DEF Recurs
    <3> QED BY <2>2
  <2> HIDE DEF iter
  <2> DEFINE G == {S \in SUBSET P : iter[S] = g[S]}
  <2>4. ASSUME NEW S \in SUBSET P, \A x \in S : S \ {x} \in G PROVE S \in G
    <3>1. CASE S = {}
      BY <1>5, <2>3, <3>1
    <3>2. CASE S # {}
      <4>1. Some(S) \in S /\ S \in SUBSET X
        BY <1>2, <3>2
      <4>2. iter[S \ {Some(S)}] = g[S \ {Some(S)}]
        BY <2>4, <4>1
      <4>3. iter[S] = amount(Some(S)) + iter[S \ {Some(S)}]
        BY <2>3, <3>2
      <4> QED BY <1>6, <3>2, <4>1, <4>2, <4>3
    <3> QED BY <3>1, <3>2
  <2>5. IsFiniteSet(P)
    BY <1>1, FS_Subset
  <2> HIDE DEF G, Recurs
  <2>6. SUBSET P \subseteq G
    BY <2>4, <2>5, OverSmaller
  <2> QED BY <2>1, <2>6 DEF G
\* In whatever order.
<1>8. \A S \in SUBSET X : \A x \in S : g[S] = amount(x) + g[S \ {x}]
  <2> DEFINE G == {S \in SUBSET X : \A x \in S : g[S] = amount(x) + g[S \ {x}]}
  <2>1. ASSUME NEW S \in SUBSET X, \A x \in S : S \ {x} \in G PROVE S \in G
    <3> SUFFICES ASSUME NEW x \in S PROVE g[S] = amount(x) + g[S \ {x}]
      OBVIOUS
    <3> DEFINE p == Some(S)
    <3>1. p \in S /\ g[S] = amount(p) + g[S \ {p}]
      BY <1>2, <1>6
    <3> HIDE DEF p
    <3>2. CASE x # p
      <4> DEFINE rest == (S \ {p}) \ {x}
      <4>1. S \ {p} \in G /\ S \ {x} \in G /\ x \in S \ {p} /\ p \in S \ {x}
        BY <2>1, <3>1, <3>2
      <4>2. rest = (S \ {x}) \ {p} /\ rest \in SUBSET X
        OBVIOUS
      <4>3. g[S \ {p}] = amount(x) + g[rest] /\ g[S \ {x}] = amount(p) + g[rest]
        BY <4>1, <4>2
      <4>4. amount(x) \in Nat /\ amount(p) \in Nat /\ g[rest] \in Nat
        BY <1>1, <1>5, <3>1, <4>2
      <4> HIDE DEF rest
      <4> QED BY <3>1, <4>3, <4>4
    <3> QED BY <3>1, <3>2
  <2> HIDE DEF G
  <2>2. SUBSET X \subseteq G
    BY <1>1, <2>1, OverSmaller
  <2> QED BY <2>2 DEF G
<1>9. ASSUME NEW P \in SUBSET X
      PROVE  /\ Total(t, P) \in Nat
             /\ \A x \in P : Total(t, P) = amount(x) + Total(t, P \ {x})
  <2>1. Total(t, P) = g[P] /\ \A x \in P : Total(t, P \ {x}) = g[P \ {x}]
    BY <1>7
  <2> QED BY <1>5, <1>8, <2>1
<1>10. Total(t, {}) = 0
  BY <1>5, <1>7
<1> QED BY <1>1, <1>9, <1>10 DEF X, amount

\* The transfers at D found again, by g, at the positions of B that are not in A.
Moves(g, t, D, u, A, B) ==
    /\ t \in Seq(Accepted) /\ D \in SUBSET (DOMAIN t)
    /\ u \in Seq(Accepted) /\ B \in SUBSET (DOMAIN u) /\ A \in SUBSET B
    /\ \A n \in D : g[n] \in B /\ g[n] \notin A /\ u[g[n]] = t[n]
    /\ \A m, n \in D : g[m] = g[n] => m = n
    /\ \A i \in B : i \in A \/ \E n \in D : g[n] = i

\* Their number and their total are added.
LEMMA TotalsMove ==
    ASSUME NEW g, NEW t, NEW D, NEW u, NEW A, NEW B, Moves(g, t, D, u, A, B)
    PROVE  /\ Total(u, B) = Total(u, A) + Total(t, D)
           /\ Cardinality(B) = Cardinality(A) + Cardinality(D)
           /\ Cardinality(A) \in Nat /\ Cardinality(D) \in Nat
           /\ Total(u, A) \in Nat /\ Total(t, D) \in Nat
<1> USE DEF Moves
<1> DEFINE Moved(S) == A \cup {g[n] : n \in S}
           Holds(S) == /\ Total(u, Moved(S)) = Total(u, A) + Total(t, S)
                       /\ Cardinality(Moved(S)) = Cardinality(A) + Cardinality(S)
           G == {S \in SUBSET D : Holds(S)}
<1>1. IsFiniteSet(A) /\ IsFiniteSet(D) /\ IsFiniteSet(DOMAIN u)
  BY TotalSteps, FS_Subset
<1>2. Total(u, A) \in Nat /\ Cardinality(A) \in Nat
  BY <1>1, TotalSteps, FS_CardinalityType
<1>3. ASSUME NEW S \in SUBSET D, \A x \in S : S \ {x} \in G PROVE S \in G
  <2>1. CASE S = {}
    <3>1. Moved(S) = A /\ Total(t, S) = 0 /\ Cardinality(S) = 0
      BY <2>1, TotalSteps, FS_EmptySet
    <3>2. Holds(S)
      <4> HIDE DEF Moved
      <4> QED BY <1>2, <3>1
    <3> QED BY <3>2
  <2>2. CASE S # {}
    <3>1. PICK x \in S : TRUE
      BY <2>2
    <3> DEFINE R == S \ {x}
               i == g[x]
    <3>2. Holds(R) /\ R \in SUBSET D
      BY <1>3, <3>1
    <3>3. /\ Moved(S) = Moved(R) \cup {i} /\ i \notin Moved(R)
          /\ Moved(S) \in SUBSET (DOMAIN u) /\ Moved(R) \in SUBSET (DOMAIN u)
      BY <3>1
    <3>4. Moved(S) \ {i} = Moved(R) /\ i \in Moved(S)
      BY <3>3
    <3> HIDE DEF Moved, i
    <3>5. Total(u, Moved(S)) = u[i].amount + Total(u, Moved(R))
      <4>1. \A P \in SUBSET (DOMAIN u) : \A y \in P : Total(u, P) = u[y].amount + Total(u, P \ {y})
        BY TotalSteps
      <4> DEFINE M == Moved(S)
      <4>2. M \in SUBSET (DOMAIN u) /\ i \in M /\ M \ {i} = Moved(R)
        BY <3>3, <3>4
      <4> HIDE DEF M
      <4>3. Total(u, M) = u[i].amount + Total(u, M \ {i})
        BY <4>1, <4>2
      <4> QED BY <4>2, <4>3 DEF M
    <3>6. Total(t, S) = t[x].amount + Total(t, R) /\ Total(t, R) \in Nat /\ t[x].amount \in Nat
      <4>1. S \in SUBSET (DOMAIN t) /\ R \in SUBSET (DOMAIN t) /\ t[x] \in Accepted
        BY <3>1
      <4>2. \A P \in SUBSET (DOMAIN t) :
              Total(t, P) \in Nat /\ \A y \in P : Total(t, P) = t[y].amount + Total(t, P \ {y})
        BY TotalSteps
      <4>3. Total(t, S) = t[x].amount + Total(t, R) /\ Total(t, R) \in Nat
        BY <3>1, <4>1, <4>2
      <4> QED BY <4>1, <4>3, AcceptedHaveNumbers
    <3>7. IsFiniteSet(Moved(S)) /\ IsFiniteSet(Moved(R)) /\ IsFiniteSet(S) /\ IsFiniteSet(R)
      BY <1>1, <3>2, <3>3, FS_Subset
    <3>8. /\ Cardinality(Moved(R)) = Cardinality(Moved(S)) - 1 /\ Cardinality(R) = Cardinality(S) - 1
          /\ Cardinality(S) \in Nat /\ Cardinality(Moved(S)) \in Nat
      <4>1. Cardinality(Moved(S) \ {i}) = Cardinality(Moved(S)) - 1
        <5> DEFINE M == Moved(S)
        <5>1. IsFiniteSet(M) /\ i \in M
          BY <3>4, <3>7
        <5> HIDE DEF M
        <5>2. Cardinality(M \ {i}) = Cardinality(M) - 1
          BY <5>1, FS_RemoveElement
        <5> QED BY <5>2 DEF M
      <4>2. Cardinality(S \ {x}) = Cardinality(S) - 1
        BY <3>1, <3>7, FS_RemoveElement
      <4> QED BY <3>4, <3>7, <4>1, <4>2, FS_CardinalityType
    <3>9. u[i].amount = t[x].amount
      BY <3>1 DEF i
    <3> HIDE DEF R
    <3>10. Holds(S)
      <4> DEFINE c == Cardinality(Moved(S))
                 d == Cardinality(S)
                 a == Cardinality(A)
      <4>1. Total(u, Moved(S)) = t[x].amount + (Total(u, A) + Total(t, R))
        BY <3>2, <3>5, <3>9
      <4>2. Total(u, Moved(S)) = Total(u, A) + Total(t, S)
        BY <1>2, <3>6, <4>1
      <4>3. c - 1 = a + (d - 1) /\ c \in Nat /\ d \in Nat /\ a \in Nat
        BY <1>2, <3>2, <3>8
      <4>4. c = a + d
        <5> HIDE DEF c, d, a
        <5> QED BY <4>3
      <4> QED BY <4>2, <4>4
    <3> QED BY <3>10
  <2> QED BY <2>1, <2>2
<1> HIDE DEF G
<1>4. SUBSET D \subseteq G
  BY <1>1, <1>3, OverSmaller
<1>5. Holds(D) /\ Moved(D) = B
  <2>1. Moved(D) = B
    OBVIOUS
  <2> QED BY <1>4, <2>1 DEF G
<1>6. Cardinality(D) \in Nat /\ Total(t, D) \in Nat
  BY <1>1, FS_CardinalityType, TotalSteps
<1> QED BY <1>2, <1>5, <1>6

\* Found again at other positions, they are as many and amount to the same.
Found(g, t, D, u, B) ==
    /\ t \in Seq(Accepted) /\ D \in SUBSET (DOMAIN t)
    /\ u \in Seq(Accepted) /\ B \in SUBSET (DOMAIN u)
    /\ \A n \in D : g[n] \in B /\ u[g[n]] = t[n]
    /\ \A m, n \in D : g[m] = g[n] => m = n
    /\ \A i \in B : \E n \in D : g[n] = i

LEMMA TotalsSame ==
    ASSUME NEW g, NEW t, NEW D, NEW u, NEW B, Found(g, t, D, u, B)
    PROVE  Total(u, B) = Total(t, D) /\ Cardinality(B) = Cardinality(D)
<1> DEFINE none == {}
<1>1. none \in SUBSET B /\ Total(u, none) = 0 /\ Cardinality(none) = 0
  BY TotalSteps, FS_EmptySet DEF Found
<1>2. Moves(g, t, D, u, none, B)
  BY DEF Moves, Found
<1> HIDE DEF none
<1>3. /\ Total(u, B) = Total(u, none) + Total(t, D) /\ Total(t, D) \in Nat
      /\ Cardinality(B) = Cardinality(none) + Cardinality(D) /\ Cardinality(D) \in Nat
  BY <1>1, <1>2, TotalsMove
<1> QED BY <1>1, <1>3

\* A longer sequence adds nothing at the positions of the shorter one.
LEMMA TotalStands ==
    ASSUME NEW obs \in Seq(Accepted), NEW e \in Accepted, NEW P \in SUBSET (DOMAIN obs)
    PROVE  Total(Append(obs, e), P) = Total(obs, P)
<1> DEFINE u == Append(obs, e)
           g == [n \in P |-> n]
<1>1. u \in Seq(Accepted) /\ P \in SUBSET (DOMAIN u) /\ \A n \in P : u[n] = obs[n]
  OBVIOUS
<1> HIDE DEF u
<1>2. Found(g, obs, P, u, P)
  BY <1>1 DEF Found
<1> HIDE DEF g
<1>3. Total(u, P) = Total(obs, P)
  BY <1>2, TotalsSame
<1> QED BY <1>3 DEF u

-----------------------------------------------------------------------------
(* Exact scores.  What reached the service since the last reset is in time: *)
(* none is further behind an earlier one than the allowed lateness.         *)

InTime(arrived, mark) ==
    \A i \in DOMAIN arrived :
      /\ arrived[i].at <= mark
      /\ \A j \in 1 .. i - 1 : arrived[i].at >= arrived[j].at - ALLOWED_LATENESS

LEMMA PublishInTime ==
    ASSUME NEW s \in Sources, NEW p \in Payloads, NEW obs \in Seq(Accepted),
           InTime(obs \o s.queue, s.watermark)
    PROVE  InTime(obs \o publish(s, p).queue, publish(s, p).watermark)
<1> DEFINE arrived == obs \o s.queue
           n == Len(arrived)
           t == publish(s, p)
<1>1. s.queue \in Seq(Accepted) /\ arrived \in Seq(Accepted) /\ n \in Nat
  BY DEF Sources
<1>2. CASE Outcome(s, p) # "accepted"
  <2>1. Outcome(s, p) \in {"malformed", "duplicate", "late"}
    BY <1>2, PublishSteps DEF Outcomes
  <2>2. t.queue = s.queue /\ t.watermark = s.watermark
    BY <2>1 DEF publish, DeadLetter, Sources
  <2> QED BY <2>2
<1>3. CASE Outcome(s, p) = "accepted"
  <2>1. p \in Accepted /\ (s.watermark = Never \/ p.at >= s.watermark - ALLOWED_LATENESS)
    <3>1. p # Malformed /\ ~(s.watermark # Never /\ p.at < s.watermark - ALLOWED_LATENESS)
      BY <1>3 DEF Outcome
    <3>2. p \in Accepted
      BY <3>1 DEF Accepted
    <3>3. p.at \in Nat /\ ALLOWED_LATENESS \in Nat /\ s.watermark \in Int
      BY <3>2, AcceptedHaveNumbers, TransferConstants DEF Sources, Marks, Never
    <3> QED BY <3>1, <3>2, <3>3
  <2> DEFINE mark == IF p.at > s.watermark THEN p.at ELSE s.watermark
  <2>2. t.queue = Append(s.queue, p) /\ t.watermark = mark
    BY <1>3 DEF publish, Sources
  <2>3. obs \o t.queue = Append(arrived, p)
    BY <1>1, <2>2
  <2>4. /\ p.at \in Nat /\ ALLOWED_LATENESS \in Nat /\ s.watermark \in Int
        /\ \A i \in 1 .. n : arrived[i].at \in Nat
    <3>1. \A i \in 1 .. n : arrived[i] \in Accepted
      BY <1>1
    <3> QED BY <2>1, <3>1, AcceptedHaveNumbers, TransferConstants DEF Sources, Marks, Never
  <2>5. \A i \in 1 .. n : /\ arrived[i].at <= s.watermark
                          /\ \A j \in 1 .. i - 1 : arrived[i].at >= arrived[j].at - ALLOWED_LATENESS
    <3>1. InTime(arrived, s.watermark) /\ DOMAIN arrived = 1 .. n
      BY <1>1
    <3> HIDE DEF arrived, n
    <3> QED BY <3>1 DEF InTime
  <2>6. \A j \in 1 .. n : p.at >= arrived[j].at - ALLOWED_LATENESS
    <3>1. CASE s.watermark = Never
      BY <2>4, <2>5, <3>1 DEF Never
    <3>2. CASE s.watermark # Never
      BY <2>1, <2>4, <2>5, <3>2
    <3> QED BY <3>1, <3>2
  <2> DEFINE longer == Append(arrived, p)
  <2>7. /\ DOMAIN longer = 1 .. n + 1 /\ longer[n + 1] = p
        /\ \A i \in 1 .. n : longer[i] = arrived[i]
    BY <1>1, <2>1
  <2> HIDE DEF longer, arrived, n
  <2>8. ASSUME NEW i \in 1 .. n + 1
        PROVE  /\ longer[i].at <= mark
               /\ \A j \in 1 .. i - 1 : longer[i].at >= longer[j].at - ALLOWED_LATENESS
    <3>1. CASE i = n + 1
      BY <1>1, <2>4, <2>6, <2>7, <3>1
    <3>2. CASE i # n + 1
      <4>1. i \in 1 .. n /\ \A j \in 1 .. i - 1 : j \in 1 .. n
        BY <1>1, <3>2
      <4> QED BY <2>4, <2>5, <2>7, <4>1
    <3> QED BY <3>1, <3>2
  <2>9. InTime(longer, mark)
    BY <2>7, <2>8 DEF InTime
  <2> QED BY <2>2, <2>3, <2>9 DEF longer
<1> QED BY <1>2, <1>3

\* And of a whole request.
LEMMA OfferInTime ==
    ASSUME NEW s \in Sources, NEW payloads \in Seq(Payloads), NEW obs \in Seq(Accepted),
           InTime(obs \o s.queue, s.watermark)
    PROVE  LET t == Offer(s, payloads).source IN InTime(obs \o t.queue, t.watermark)
<1> DEFINE n == Len(payloads)
           base == [source |-> s, deliveries |-> <<>>]
           Holds(t) == InTime(obs \o t.queue, t.watermark)
<1>1. PICK f : RunOf(f, n, Takings, base, Taking(payloads)) /\ f[n] = Offer(s, payloads)
  BY OfferRuns
<1>2. n \in Nat /\ DOMAIN payloads = 1 .. n
  OBVIOUS
<1>3. f[0] = base /\ \A k \in 0 .. n : f[k] \in Takings
  BY <1>1 DEF RunOf
<1> DEFINE S == {k \in 0 .. n : Holds(f[k].source)}
<1>4. 0 \in S
  <2>1. f[0].source = s
    BY <1>3
  <2> QED BY <1>2, <2>1
<1>5. ASSUME NEW k \in 1 .. n, k - 1 \in S PROVE k \in S
  <2> DEFINE d == f[k - 1]
             p == payloads[k]
  <2>1. k - 1 \in 0 .. n /\ d \in Takings /\ p \in Payloads /\ Holds(d.source)
    BY <1>2, <1>3, <1>5
  <2>2. d.source \in Sources
    BY <2>1 DEF Takings
  <2>3. f[k] = [source |-> publish(d.source, p), deliveries |-> Noted(d.deliveries, d.source, p)]
    BY <1>1, <2>1 DEF RunOf, Taking
  <2> HIDE DEF p, d
  <2>4. Holds(publish(d.source, p))
    BY <2>1, <2>2, PublishInTime
  <2>5. f[k].source = publish(d.source, p)
    BY <2>3
  <2> HIDE DEF Holds
  <2> QED BY <2>4, <2>5
<1> HIDE DEF S
<1>6. \A k \in 0 .. n : k \in S
  BY <1>2, <1>4, <1>5, UpTo
<1>7. Holds(f[n].source)
  BY <1>2, <1>6 DEF S
<1> QED BY <1>1, <1>7

\* What an account keeps, of what it was told: the transfers of the retention,
\* one by one (kept tells where each was), and the older ones as a count and a
\* total.
Among(obs, a) == {i \in DOMAIN obs : obs[i].account = a}
Older(obs, a, latest) == {i \in Among(obs, a) : obs[i].at < latest - retention}

KeptAt(kept, recent, obs, positions) ==
    /\ kept \in [DOMAIN recent -> positions]
    /\ \A i \in positions : \E n \in DOMAIN recent : kept[n] = i
    /\ \A m, n \in DOMAIN recent : kept[m] = kept[n] => m = n
    /\ \A n \in DOMAIN recent : recent[n] = obs[kept[n]]

Summarizes(account, a, obs) ==
    LET older == Older(obs, a, account.latest)
    IN  /\ account.recent \in Seq(Accepted) /\ account.latest \in Int
        /\ account.older_count = Cardinality(older)
        /\ account.older_total = Total(obs, older)
        /\ \A i \in Among(obs, a) : obs[i].at <= account.latest
        /\ account.latest = Never \/ \E i \in Among(obs, a) : obs[i].at = account.latest
        /\ \E kept : KeptAt(kept, account.recent, obs, Among(obs, a) \ older)

LEMMA NothingSummarized == ASSUME NEW a PROVE Summarizes(NewAccount, a, <<>>)
<1> DEFINE older == Older(<<>>, a, NewAccount.latest)
<1>1. Among(<<>>, a) = {} /\ older = {}
  BY DEF Among, Older
<1>2. NewAccount.recent = <<>> /\ NewAccount.latest = Never /\ NewAccount.older_count = 0
      /\ NewAccount.older_total = 0
  BY DEF NewAccount
<1>3. <<>> \in Seq(Accepted) /\ Total(<<>>, {}) = 0 /\ Cardinality({}) = 0
  <2>1. <<>> \in Seq(Accepted)
    OBVIOUS
  <2>2. \A t \in Seq(Accepted) : Total(t, {}) = 0
    BY TotalSteps
  <2> QED BY <2>1, <2>2, FS_EmptySet
<1>4. KeptAt(<<>>, <<>>, <<>>, Among(<<>>, a) \ older)
  BY <1>1 DEF KeptAt
<1> QED BY <1>1, <1>2, <1>3, <1>4 DEF Summarizes, Never

\* Another account's transfer changes nothing.
LEMMA OthersAside ==
    ASSUME NEW obs \in Seq(Accepted), NEW e \in Accepted, NEW a, a # e.account,
           NEW account, Summarizes(account, a, obs)
    PROVE  Summarizes(account, a, Append(obs, e))
<1> DEFINE longer == Append(obs, e)
           older == Older(obs, a, account.latest)
<1>1. /\ DOMAIN obs = 1 .. Len(obs) /\ Len(obs) \in Nat /\ DOMAIN longer = 1 .. Len(obs) + 1
      /\ longer[Len(obs) + 1] = e /\ \A i \in DOMAIN obs : longer[i] = obs[i]
  OBVIOUS
<1>2. Total(longer, older) = Total(obs, older)
  <2>1. older \in SUBSET (DOMAIN obs)
    BY DEF Older, Among
  <2> HIDE DEF older
  <2> QED BY <2>1, TotalStands
<1> HIDE DEF longer
<1>3. Among(longer, a) = Among(obs, a)
  BY <1>1 DEF Among
<1>4. \A i \in Among(obs, a) : i \in DOMAIN obs /\ longer[i] = obs[i]
  BY <1>1 DEF Among
<1>5. Older(longer, a, account.latest) = older
  BY <1>3, <1>4 DEF Older
<1>6. PICK kept : KeptAt(kept, account.recent, obs, Among(obs, a) \ older)
  BY DEF Summarizes
<1> HIDE DEF older
<1>7. KeptAt(kept, account.recent, longer, Among(obs, a) \ older)
  BY <1>4, <1>6 DEF KeptAt
<1>8. /\ account.recent \in Seq(Accepted) /\ account.latest \in Int
      /\ account.older_count = Cardinality(older)
      /\ account.older_total = Total(obs, older)
      /\ \A i \in Among(obs, a) : obs[i].at <= account.latest
      /\ account.latest = Never \/ \E i \in Among(obs, a) : obs[i].at = account.latest
  BY DEF Summarizes, older
<1>9. Summarizes(account, a, longer)
  BY <1>2, <1>3, <1>4, <1>5, <1>7, <1>8 DEF Summarizes
<1> QED BY <1>9 DEF longer

\* The account of a transfer learns it: what falls out of the retention is
\* counted among the older ones, what is kept is kept once and in no order that
\* matters.
LEMMA LearnedSummarizes ==
    ASSUME NEW obs \in Seq(Accepted), NEW e \in Accepted,
           NEW account, Summarizes(account, e.account, obs)
    PROVE  Summarizes(Learned(account, e), e.account, Append(obs, e))
<1> DEFINE a == e.account
           longer == Append(obs, e)
           older == Older(obs, a, account.latest)
           latest == IF e.at > account.latest THEN e.at ELSE account.latest
           older2 == Older(longer, a, latest)
           known == account.recent
           recent == Append(known, e)
           dropped == {n \in DOMAIN recent : recent[n].at < latest - retention}
           K == DOMAIN recent \ dropped
           order == Ascending(K)
           last == Len(known) + 1
           end == Len(obs) + 1
<1>1. /\ known \in Seq(Accepted) /\ account.latest \in Int
      /\ account.older_count = Cardinality(older) /\ account.older_total = Total(obs, older)
      /\ \A i \in Among(obs, a) : obs[i].at <= account.latest
      /\ account.latest = Never \/ \E i \in Among(obs, a) : obs[i].at = account.latest
  BY DEF Summarizes
<1>2. PICK kept : KeptAt(kept, known, obs, Among(obs, a) \ older)
  BY DEF Summarizes
<1>3. /\ DOMAIN known = 1 .. Len(known) /\ last \in Nat /\ last \notin DOMAIN known
      /\ recent \in Seq(Accepted) /\ DOMAIN recent = DOMAIN known \cup {last}
      /\ recent[last] = e /\ \A n \in DOMAIN known : recent[n] = known[n]
      /\ \A n \in DOMAIN recent : recent[n] \in Accepted
  <2>1. /\ DOMAIN known = 1 .. Len(known) /\ last \in Nat /\ last \notin DOMAIN known
        /\ recent \in Seq(Accepted) /\ DOMAIN recent = DOMAIN known \cup {last}
        /\ recent[last] = e /\ \A n \in DOMAIN known : recent[n] = known[n]
    BY <1>1
  <2> HIDE DEF recent, last, known
  <2>2. \A n \in DOMAIN known : known[n] \in Accepted
    BY <1>1, <2>1, ElementOfSeq
  <2>3. \A n \in DOMAIN recent : recent[n] \in Accepted
    BY <2>1, <2>2
  <2> QED BY <2>1, <2>3
<1>4. /\ DOMAIN obs = 1 .. Len(obs) /\ Len(obs) \in Nat /\ end \notin DOMAIN obs
      /\ longer \in Seq(Accepted) /\ DOMAIN longer = DOMAIN obs \cup {end}
      /\ longer[end] = e /\ \A i \in DOMAIN obs : longer[i] = obs[i]
  OBVIOUS
<1>5. /\ e.at \in Nat /\ latest \in Int /\ retention \in Nat
      /\ \A n \in DOMAIN recent : recent[n].at \in Nat
      /\ \A i \in DOMAIN longer : longer[i].at \in Nat
  <2>1. /\ \A n \in DOMAIN recent : recent[n] \in Accepted
        /\ \A i \in DOMAIN longer : longer[i] \in Accepted
    BY <1>3, <1>4
  <2> QED BY <1>1, <2>1, AcceptedHaveNumbers, TransferConstants DEF retention
<1>6. /\ Learned(account, e).recent = Selected(recent, K)
      /\ Learned(account, e).older_count = account.older_count + Cardinality(dropped)
      /\ Learned(account, e).older_total = account.older_total + Total(recent, dropped)
      /\ Learned(account, e).latest = latest
  BY DEF Learned
<1> HIDE DEF longer, recent, last, end, older, known
<1>7. Among(longer, a) = Among(obs, a) \cup {end}
  BY <1>4 DEF Among
<1>8. latest >= e.at /\ latest >= account.latest
  BY <1>1, <1>5
\* The latest of all.
<1>9. /\ \A i \in Among(longer, a) : longer[i].at <= latest
      /\ \E i \in Among(longer, a) : longer[i].at = latest
  <2>1. ASSUME NEW i \in Among(longer, a) PROVE longer[i].at <= latest
    <3>1. CASE i = end
      BY <1>4, <1>8, <3>1
    <3>2. CASE i # end
      <4>1. i \in Among(obs, a) /\ longer[i] = obs[i] /\ longer[i].at \in Nat
        BY <1>4, <1>5, <1>7, <3>2 DEF Among
      <4> QED BY <1>1, <1>5, <1>8, <4>1
    <3> QED BY <3>1, <3>2
  <2>2. CASE latest = e.at
    BY <1>4, <1>7, <2>1, <2>2
  <2>3. CASE latest # e.at
    <3>1. latest = account.latest /\ latest > e.at
      BY <1>1, <1>5, <2>3
    <3>2. account.latest # Never
      BY <1>5, <3>1 DEF Never
    <3>3. PICK i \in Among(obs, a) : obs[i].at = account.latest
      BY <1>1, <3>2
    <3>4. i \in Among(longer, a) /\ longer[i] = obs[i]
      BY <1>4, <1>7, <3>3 DEF Among
    <3> QED BY <2>1, <3>1, <3>3, <3>4
  <2> QED BY <2>1, <2>2, <2>3
<1> DEFINE place == [n \in DOMAIN recent |-> IF n = last THEN end ELSE kept[n]]
<1> HIDE DEF latest
\* Where the account's transfers are now.
<1>10. /\ \A n \in DOMAIN recent : /\ place[n] \in Among(longer, a) \ older
                                   /\ longer[place[n]] = recent[n]
       /\ \A m, n \in DOMAIN recent : place[m] = place[n] => m = n
       /\ \A i \in Among(longer, a) \ older : \E n \in DOMAIN recent : place[n] = i
  <2>1. /\ \A n \in DOMAIN known : /\ kept[n] \in Among(obs, a) \ older /\ kept[n] \in DOMAIN obs
                                   /\ known[n] = obs[kept[n]]
        /\ \A m, n \in DOMAIN known : kept[m] = kept[n] => m = n
        /\ \A i \in Among(obs, a) \ older : \E n \in DOMAIN known : kept[n] = i
    BY <1>2 DEF KeptAt, Among
  <2>2. older \subseteq DOMAIN obs
    BY DEF older, Older, Among
  <2>3. place[last] = end /\ \A n \in DOMAIN known : place[n] = kept[n]
    BY <1>3
  <2> HIDE DEF place
  <2>4. ASSUME NEW n \in DOMAIN recent
        PROVE  place[n] \in Among(longer, a) \ older /\ longer[place[n]] = recent[n]
    <3>1. CASE n = last
      BY <1>3, <1>4, <1>7, <2>2, <2>3, <3>1
    <3>2. CASE n # last
      BY <1>3, <1>4, <1>7, <2>1, <2>3, <3>2
    <3> QED BY <3>1, <3>2
  <2>5. \A m, n \in DOMAIN recent : place[m] = place[n] => m = n
    BY <1>3, <1>4, <2>1, <2>3
  <2>6. ASSUME NEW i \in Among(longer, a) \ older PROVE \E n \in DOMAIN recent : place[n] = i
    <3>1. CASE i = end
      BY <1>3, <2>3, <3>1
    <3>2. CASE i # end
      <4>1. PICK n \in DOMAIN known : kept[n] = i
        BY <1>7, <2>1, <2>6, <3>2
      <4> QED BY <1>3, <2>3, <4>1
    <3> QED BY <3>1, <3>2
  <2> QED BY <2>4, <2>5, <2>6
<1> HIDE DEF place
\* The older ones are those that were older and those that are dropped.
<1>11. /\ older \subseteq older2 /\ older2 \subseteq Among(longer, a)
       /\ \A n \in DOMAIN recent : place[n] \in older2 <=> n \in dropped
  <2>1. older2 \subseteq Among(longer, a)
    BY DEF Older
  <2>2. ASSUME NEW i \in older PROVE i \in older2
    <3>1. i \in Among(obs, a) /\ obs[i].at < account.latest - retention
      BY DEF older, Older
    <3>2. i \in Among(longer, a) /\ longer[i] = obs[i] /\ longer[i].at \in Nat
      BY <1>4, <1>5, <1>7, <3>1 DEF Among
    <3>3. longer[i].at < latest - retention
      BY <1>1, <1>5, <1>8, <3>1, <3>2
    <3> QED BY <3>2, <3>3 DEF Older
  <2>3. ASSUME NEW n \in DOMAIN recent PROVE place[n] \in older2 <=> n \in dropped
    BY <1>10 DEF Older
  <2> QED BY <2>1, <2>2, <2>3
<1>12. Moves(place, recent, dropped, longer, older, older2)
  <2>1. older2 \in SUBSET (DOMAIN longer) /\ dropped \in SUBSET (DOMAIN recent)
    BY <1>11 DEF Among
  <2>2. \A n \in dropped : /\ place[n] \in older2 /\ place[n] \notin older
                           /\ longer[place[n]] = recent[n]
    BY <1>10, <1>11, <2>1
  <2>3. ASSUME NEW i \in older2, i \notin older PROVE \E n \in dropped : place[n] = i
    <3>1. PICK n \in DOMAIN recent : place[n] = i
      BY <1>10, <1>11, <2>3
    <3> QED BY <1>11, <3>1
  <2> HIDE DEF dropped, older2
  <2> QED BY <1>3, <1>4, <1>10, <1>11, <2>1, <2>2, <2>3 DEF Moves
<1>13. /\ Total(longer, older2) = Total(obs, older) + Total(recent, dropped)
       /\ Cardinality(older2) = Cardinality(older) + Cardinality(dropped)
  <2>1. Total(longer, older) = Total(obs, older)
    <3>1. older \in SUBSET (DOMAIN obs)
      BY DEF older, Older, Among
    <3> QED BY <3>1, TotalStands DEF longer
  <2> HIDE DEF dropped, older2
  <2> QED BY <1>12, <2>1, TotalsMove
\* What is kept, listed again.
<1>14. /\ order \in Seq(K) /\ \A m, n \in DOMAIN order : order[m] = order[n] => m = n
       /\ \A i \in K : \E n \in DOMAIN order : order[n] = i
  <2>1. K \in SUBSET Int /\ IsFiniteSet(K)
    <3>1. DOMAIN recent \in SUBSET Int /\ K \in SUBSET (DOMAIN recent)
      BY <1>3
    <3>2. IsFiniteSet(DOMAIN recent)
      BY <1>3, TotalSteps
    <3> HIDE DEF K
    <3> QED BY <3>1, <3>2, FS_Subset
  <2> HIDE DEF K
  <2> QED BY <2>1, AscendingLists
<1>15. K \subseteq DOMAIN recent /\ \A n \in DOMAIN recent : n \in K <=> place[n] \notin older2
  BY <1>11
<1> HIDE DEF K, order, dropped, older2
<1> DEFINE listed == [n \in DOMAIN order |-> recent[order[n]]]
           kept2 == [n \in DOMAIN order |-> place[order[n]]]
<1>16. Selected(recent, K) = listed
  BY DEF Selected, order
<1>17. /\ \A n \in DOMAIN order : order[n] \in K
       /\ Len(order) \in Nat /\ DOMAIN order = 1 .. Len(order)
  BY <1>14
<1>18. listed \in Seq(Accepted) /\ DOMAIN listed = DOMAIN order
  <2>1. \A n \in DOMAIN order : recent[order[n]] \in Accepted
    BY <1>3, <1>15, <1>17
  <2> QED BY <1>17, <2>1
<1>19. KeptAt(kept2, listed, longer, Among(longer, a) \ older2)
  <2>1. /\ DOMAIN kept2 = DOMAIN order
        /\ \A n \in DOMAIN order : /\ kept2[n] = place[order[n]] /\ order[n] \in DOMAIN recent
                                   /\ listed[n] = recent[order[n]]
    BY <1>15, <1>17
  <2>2. kept2 \in [DOMAIN listed -> Among(longer, a) \ older2]
    <3>1. \A n \in DOMAIN order : place[order[n]] \in Among(longer, a) \ older2
      BY <1>10, <1>15, <1>17, <2>1
    <3> QED BY <1>18, <3>1
  <2> HIDE DEF kept2, listed
  <2>3. ASSUME NEW i \in Among(longer, a) \ older2 PROVE \E n \in DOMAIN listed : kept2[n] = i
    <3>1. PICK n \in DOMAIN recent : place[n] = i
      BY <1>10, <1>11, <2>3
    <3>2. PICK m \in DOMAIN order : order[m] = n
      BY <1>14, <1>15, <3>1
    <3> QED BY <1>18, <2>1, <3>1, <3>2
  <2>4. \A m, n \in DOMAIN listed : kept2[m] = kept2[n] => m = n
    BY <1>10, <1>14, <1>18, <2>1
  <2>5. \A n \in DOMAIN listed : listed[n] = longer[kept2[n]]
    BY <1>10, <1>18, <2>1
  <2> QED BY <2>2, <2>3, <2>4, <2>5 DEF KeptAt
<1> HIDE DEF listed, kept2
<1>20. Summarizes(Learned(account, e), a, longer)
  BY <1>1, <1>5, <1>6, <1>9, <1>13, <1>16, <1>18, <1>19 DEF Summarizes, older2
<1> QED BY <1>20 DEF longer

\* The features of the last of some transfers, from all before it.
Exact(obs) ==
    LET e == Last(obs)
        before == {i \in 1 .. Len(obs) - 1 : obs[i].account = e.account /\ obs[i].at < e.at}
    IN  Features(Cardinality(before), Total(obs, before),
                 obs, {i \in before : obs[i].at >= e.at - WINDOW})

\* What the account answers: the older transfers are before one that is in time,
\* and none of them is in its window.
LEMMA FeaturesAreExact ==
    ASSUME NEW obs \in Seq(Accepted), NEW e \in Accepted, NEW mark, InTime(Append(obs, e), mark),
           NEW account, Summarizes(account, e.account, obs)
    PROVE  FeaturesOf(account, e) = Exact(Append(obs, e))
<1> DEFINE a == e.account
           longer == Append(obs, e)
           end == Len(obs) + 1
           older == Older(obs, a, account.latest)
           recent == account.recent
           early == {n \in DOMAIN recent : recent[n].at < e.at}
           inside == {n \in early : recent[n].at >= e.at - WINDOW}
           before == {i \in 1 .. Len(longer) - 1 : longer[i].account = a /\ longer[i].at < e.at}
           within == {i \in before : longer[i].at >= e.at - WINDOW}
<1>1. /\ recent \in Seq(Accepted) /\ account.latest \in Int
      /\ account.older_count = Cardinality(older) /\ account.older_total = Total(obs, older)
      /\ account.latest = Never \/ \E i \in Among(obs, a) : obs[i].at = account.latest
  BY DEF Summarizes
<1>2. PICK kept : KeptAt(kept, recent, obs, Among(obs, a) \ older)
  BY DEF Summarizes
<1>3. /\ DOMAIN obs = 1 .. Len(longer) - 1 /\ longer \in Seq(Accepted) /\ end \in DOMAIN longer
      /\ DOMAIN obs \subseteq DOMAIN longer /\ Last(longer) = e /\ longer[end] = e
      /\ \A i \in DOMAIN obs : longer[i] = obs[i] /\ obs[i] \in Accepted
      /\ 1 .. end - 1 = DOMAIN obs
  BY DEF Last
<1>4. /\ e.at \in Nat /\ WINDOW \in Nat /\ ALLOWED_LATENESS \in Nat
      /\ retention = WINDOW + ALLOWED_LATENESS /\ \A i \in DOMAIN obs : obs[i].at \in Nat
  BY <1>3, AcceptedHaveNumbers, TransferConstants DEF retention
<1>5. /\ FeaturesOf(account, e) =
           Features(account.older_count + Cardinality(early),
                    account.older_total + Total(recent, early), recent, inside)
      /\ Exact(longer) = Features(Cardinality(before), Total(longer, before), longer, within)
  BY <1>3 DEF FeaturesOf, Exact
<1>6. \A i \in DOMAIN obs : e.at >= obs[i].at - ALLOWED_LATENESS
  BY <1>3 DEF InTime
<1> HIDE DEF longer, recent, end
<1>7. ASSUME NEW i \in older PROVE i \in before /\ i \notin within
  <2>1. i \in DOMAIN obs /\ obs[i].account = a /\ obs[i].at < account.latest - retention
    BY DEF Older, Among
  <2>2. account.latest - ALLOWED_LATENESS <= e.at
    <3>1. CASE account.latest = Never
      BY <1>4, <3>1 DEF Never
    <3>2. CASE account.latest # Never
      <4>1. PICK j \in Among(obs, a) : obs[j].at = account.latest
        BY <1>1, <3>2
      <4>2. j \in DOMAIN obs
        BY DEF Among
      <4> QED BY <1>4, <1>6, <4>1, <4>2
    <3> QED BY <3>1, <3>2
  <2>3. obs[i].at < e.at - WINDOW
    BY <1>1, <1>4, <2>1, <2>2
  <2>4. obs[i].at < e.at /\ ~(obs[i].at >= e.at - WINDOW)
    BY <1>4, <2>1, <2>3
  <2> QED BY <1>3, <2>1, <2>4
<1>8. /\ \A n \in DOMAIN recent : /\ kept[n] \in DOMAIN obs /\ kept[n] \notin older
                                  /\ obs[kept[n]].account = a /\ longer[kept[n]] = recent[n]
      /\ \A m, n \in DOMAIN recent : kept[m] = kept[n] => m = n
      /\ \A i \in DOMAIN obs : (obs[i].account = a /\ i \notin older) =>
                                 \E n \in DOMAIN recent : kept[n] = i
  BY <1>2, <1>3 DEF KeptAt, Among
<1>9. /\ \A n \in DOMAIN recent : /\ kept[n] \in before <=> n \in early
                                  /\ kept[n] \in within <=> n \in inside
      /\ before \in SUBSET (DOMAIN longer) /\ within \in SUBSET before
      /\ early \in SUBSET (DOMAIN recent) /\ inside \in SUBSET (DOMAIN recent)
      /\ \A i \in before : i \in DOMAIN obs /\ obs[i].account = a
  BY <1>3, <1>8
<1> HIDE DEF before, within, early, inside, older
<1>10. Moves(kept, recent, early, longer, older, before)
  <2>1. older \in SUBSET before
    BY <1>7
  <2>2. \A n \in early : /\ kept[n] \in before /\ kept[n] \notin older
                         /\ longer[kept[n]] = recent[n]
    BY <1>8, <1>9
  <2>3. ASSUME NEW i \in before, i \notin older PROVE \E n \in early : kept[n] = i
    <3>1. PICK n \in DOMAIN recent : kept[n] = i
      BY <1>8, <1>9, <2>3
    <3> QED BY <1>9, <3>1
  <2> QED BY <1>1, <1>3, <1>8, <1>9, <2>1, <2>2, <2>3 DEF Moves
<1>11. Found(kept, recent, inside, longer, within)
  <2>1. \A n \in inside : kept[n] \in within /\ longer[kept[n]] = recent[n]
    BY <1>8, <1>9
  <2>2. ASSUME NEW i \in within PROVE \E n \in inside : kept[n] = i
    <3>1. i \in before /\ i \notin older
      BY <1>7, <1>9
    <3>2. PICK n \in DOMAIN recent : kept[n] = i
      BY <1>8, <1>9, <3>1
    <3> QED BY <1>9, <3>2
  <2> QED BY <1>1, <1>3, <1>8, <1>9, <2>1, <2>2 DEF Found
<1>12. Total(longer, older) = Total(obs, older)
  <2>1. older \in SUBSET (DOMAIN obs)
    BY <1>7, <1>9
  <2> QED BY <2>1, TotalStands DEF longer
<1>13. /\ Total(longer, before) = account.older_total + Total(recent, early)
       /\ Cardinality(before) = account.older_count + Cardinality(early)
  BY <1>1, <1>10, <1>12, TotalsMove
<1>14. Total(longer, within) = Total(recent, inside) /\ Cardinality(within) = Cardinality(inside)
  BY <1>11, TotalsSame
<1>15. FeaturesOf(account, e) = Exact(longer)
  BY <1>5, <1>13, <1>14 DEF Features
<1> QED BY <1>15 DEF longer

\* Together: the accounts summarize what they observed; unless a reset left
\* transfers queued, what is observed and queued is in time, and what is in hand
\* was scored exactly.
ScoredInv ==
    /\ observed \in Seq(Accepted) /\ DOMAIN windows = Accounts
    /\ \A a \in Accounts : Summarizes(windows[a], a, observed)
    /\ ~carried => InTime(observed \o source.queue, source.watermark)
    /\ (processor.hand # NoTransfer /\ observed # <<>>) =>
         /\ processor.hand.event = Last(observed)
         /\ ~carried => processor.hand.features = Exact(observed)

LEMMA NothingScored ==
    /\ <<>> \in Seq(Accepted) /\ <<>> \o <<>> = <<>>
    /\ \A mark : InTime(<<>>, mark)
    /\ \A a \in Accounts : Summarizes(NewAccount, a, <<>>)
BY NothingSummarized DEF InTime

LEMMA RequestScored ==
    ASSUME ReplayInv, ScoredInv, NEW payloads \in Seq(Payloads), publish_events(payloads)
    PROVE  ScoredInv'
<1>1. /\ source' = Offer(source, payloads).source
      /\ UNCHANGED <<windows, processor, observed, carried>>
  BY DEF publish_events
<1>2. source \in Sources /\ observed \in Seq(Accepted)
  BY DEF ReplayInv, StreamTypes, ScoredInv
<1>3. ~carried' => InTime(observed' \o source'.queue, source'.watermark)
  BY <1>1, <1>2, OfferInTime DEF ScoredInv
<1> QED BY <1>1, <1>3 DEF ScoredInv

\* A queue's head taken from it to the end of another sequence.
LEMMA HeadTaken ==
    ASSUME NEW S, NEW s \in Seq(S), NEW q \in Seq(S), q # <<>>
    PROVE  Append(s, Head(q)) \o Tail(q) = s \o q
<1> DEFINE longer == Append(s, Head(q))
           rest == Tail(q)
           n == Len(s)
           m == Len(q)
           one == longer \o rest
           other == s \o q
<1>1. /\ n \in Nat /\ m \in Nat \ {0} /\ rest \in Seq(S) /\ Len(rest) = m - 1
      /\ \A k \in 1 .. m - 1 : rest[k] = q[k + 1]
  BY HeadTailProperties
<1>2. /\ longer \in Seq(S) /\ Len(longer) = n + 1 /\ longer[n + 1] = q[1]
      /\ \A k \in 1 .. n : longer[k] = s[k]
  BY HeadTailProperties
<1> HIDE DEF longer, rest
<1>3. /\ one \in Seq(S) /\ Len(one) = Len(longer) + Len(rest)
      /\ \A k \in 1 .. Len(longer) + Len(rest) :
           one[k] = IF k <= Len(longer) THEN longer[k] ELSE rest[k - Len(longer)]
  BY <1>1, <1>2, ConcatProperties
<1>4. /\ other \in Seq(S) /\ Len(other) = n + m
      /\ \A k \in 1 .. n + m : other[k] = IF k <= n THEN s[k] ELSE q[k - n]
  BY ConcatProperties
<1> HIDE DEF n, m, one, other
<1>5. Len(longer) + Len(rest) = n + m
  BY <1>1, <1>2
<1>6. ASSUME NEW k \in 1 .. n + m PROVE one[k] = other[k]
  <2>1. CASE k <= n
    <3>1. k \in 1 .. n /\ k <= n + 1
      BY <1>1, <2>1
    <3>2. one[k] = longer[k] /\ other[k] = s[k]
      BY <1>2, <1>3, <1>4, <1>5, <2>1, <3>1
    <3> QED BY <1>2, <3>1, <3>2
  <2>2. CASE k = n + 1
    <3>1. k - n = 1 /\ ~(k <= n)
      BY <1>1, <2>2
    <3> QED BY <1>1, <1>2, <1>3, <1>4, <1>5, <2>2, <3>1
  <2>3. CASE k > n + 1
    <3>1. k - (n + 1) \in 1 .. m - 1 /\ (k - (n + 1)) + 1 = k - n /\ ~(k <= n) /\ ~(k <= n + 1)
      BY <1>1, <2>3
    <3>2. one[k] = rest[k - (n + 1)] /\ other[k] = q[k - n]
      BY <1>2, <1>3, <1>4, <1>5, <3>1
    <3> QED BY <1>1, <3>1, <3>2
  <2> QED BY <1>1, <2>1, <2>2, <2>3
<1>7. one = other
  BY <1>3, <1>4, <1>5, <1>6, SeqEqual
<1> QED BY <1>7 DEF one, other, longer, rest

LEMMA ObserveScored == ASSUME ReplayInv, ScoredInv, observe PROVE ScoredInv'
<1> DEFINE e == Head(source.queue)
           account == windows[e.account]
<1>1. /\ source.queue # <<>>
      /\ processor' = [processor EXCEPT !.hand = [event |-> e, features |-> FeaturesOf(account, e)]]
      /\ windows' = [windows EXCEPT ![e.account] = Learned(account, e)]
      /\ observed' = Append(observed, e)
      /\ source' = [source EXCEPT !.queue = Tail(@)]
      /\ carried' = carried
  BY DEF observe
<1>2. source \in Sources /\ source.queue \in Seq(Accepted) /\ observed \in Seq(Accepted)
  BY DEF ReplayInv, StreamTypes, Sources, ScoredInv
<1>3. e \in Accepted /\ e.account \in Accounts
  <2>1. e \in Accepted
    BY <1>1, <1>2, HeadTailProperties
  <2> QED BY <2>1, AcceptedHaveNumbers
<1>4. /\ source'.queue = Tail(source.queue) /\ source'.watermark = source.watermark
      /\ Append(observed, e) \o Tail(source.queue) = observed \o source.queue
  <2>1. source'.queue = Tail(source.queue) /\ source'.watermark = source.watermark
    BY <1>1, <1>2 DEF Sources
  <2>2. Append(observed, e) \o Tail(source.queue) = observed \o source.queue
    BY <1>1, <1>2, HeadTaken
  <2> QED BY <2>1, <2>2
<1> HIDE DEF e
<1>5. observed' \in Seq(Accepted) /\ observed' # <<>> /\ Last(observed') = e
  BY <1>1, <1>2, <1>3 DEF Last
<1>6. DOMAIN windows' = Accounts /\ \A a \in Accounts : Summarizes(windows'[a], a, observed')
  <2>1. DOMAIN windows = Accounts /\ \A a \in Accounts : Summarizes(windows[a], a, observed)
    BY DEF ScoredInv
  <2>2. DOMAIN windows' = Accounts
    BY <1>1, <2>1
  <2>3. ASSUME NEW a \in Accounts PROVE Summarizes(windows'[a], a, observed')
    <3>1. CASE a = e.account
      <4>1. windows'[a] = Learned(account, e)
        BY <1>1, <2>1, <3>1
      <4> QED BY <1>1, <1>2, <1>3, <2>1, <3>1, <4>1, LearnedSummarizes
    <3>2. CASE a # e.account
      <4>1. windows'[a] = windows[a]
        BY <1>1, <2>1, <3>2
      <4> QED BY <1>1, <1>2, <1>3, <2>1, <3>2, <4>1, OthersAside
    <3> QED BY <3>1, <3>2
  <2> QED BY <2>2, <2>3
<1>7. ~carried => /\ InTime(observed' \o source'.queue, source'.watermark)
                  /\ FeaturesOf(account, e) = Exact(observed')
  <2> SUFFICES ASSUME ~carried
               PROVE  /\ InTime(observed' \o source'.queue, source'.watermark)
                      /\ FeaturesOf(account, e) = Exact(observed')
    OBVIOUS
  <2>1. InTime(observed' \o source'.queue, source'.watermark)
    BY <1>1, <1>4 DEF ScoredInv
  <2>2. InTime(observed', source'.watermark)
    <3> DEFINE both == observed' \o source'.queue
    <3>1. /\ DOMAIN observed' \subseteq DOMAIN both
          /\ \A i \in DOMAIN observed' :
               both[i] = observed'[i] /\ \A j \in 1 .. i - 1 : both[j] = observed'[j]
      <4>1. source'.queue \in Seq(Accepted)
        BY <1>1, <1>2, <1>4, HeadTailProperties
      <4> QED BY <1>5, <4>1
    <3> HIDE DEF both
    <3> QED BY <2>1, <3>1 DEF InTime, both
  <2>3. Summarizes(account, e.account, observed)
    BY <1>3 DEF ScoredInv
  <2> QED BY <1>1, <1>2, <1>3, <2>1, <2>2, <2>3, FeaturesAreExact
<1>8. processor'.hand = [event |-> e, features |-> FeaturesOf(account, e)]
  BY <1>1 DEF ReplayInv, StreamTypes
<1> HIDE DEF account
<1> QED BY <1>1, <1>5, <1>6, <1>7, <1>8 DEF ScoredInv

LEMMA ScoredInvStep == ReplayInv /\ ScoredInv /\ [TransferNext]_transferVars => ScoredInv'
<1> SUFFICES ASSUME ReplayInv, ScoredInv, [TransferNext]_transferVars PROVE ScoredInv'
  OBVIOUS
<1>1. source \in Sources
  BY DEF ReplayInv, StreamTypes
<1>2. ASSUME NEW payload \in Transfers \cup {Malformed}, Produce(payload) PROVE ScoredInv'
  <2>1. <<payload>> \in Seq(Payloads) /\ publish_events(<<payload>>)
    BY <1>2 DEF Payloads, Produce
  <2> QED BY <2>1, RequestScored
<1>3. ASSUME reset_stream PROVE ScoredInv'
  <2>1. /\ windows' = [a \in Accounts |-> NewAccount] /\ observed' = <<>>
        /\ carried' \/ source'.queue = <<>>
    BY <1>1, <1>3 DEF reset_stream, Sources
  <2> QED BY <2>1, NothingScored DEF ScoredInv
<1>4. ASSUME source'.queue = source.queue, source'.watermark = source.watermark,
             processor'.hand \in {processor.hand, NoTransfer},
             UNCHANGED <<windows, observed, carried>>
      PROVE  ScoredInv'
  BY <1>4 DEF ScoredInv
<1>5. ASSUME Consume PROVE ScoredInv'
  <2>1. CASE observe
    BY <2>1, ObserveScored
  <2>2. CASE Decided
    BY <1>4, <2>2 DEF Decided
  <2>3. ASSUME NEW refused \in BOOLEAN, DeadLettered(refused) PROVE ScoredInv'
    <3>1. source'.queue = source.queue /\ source'.watermark = source.watermark
      BY <1>1, <2>3 DEF DeadLettered, DeadLetter, Sources
    <3>2. processor'.hand = NoTransfer
      BY <2>3 DEF DeadLettered, ReplayInv, StreamTypes
    <3> QED BY <1>4, <2>3, <3>1, <3>2 DEF DeadLettered
  <2> QED BY <1>5, <2>1, <2>2, <2>3 DEF Consume
<1>6. ASSUME Close \/ UNCHANGED transferVars PROVE ScoredInv'
  BY <1>4, <1>6 DEF Close, transferVars
<1>7. ASSUME Restart PROVE ScoredInv'
  <2>1. windows' = [a \in Accounts |-> NewAccount] /\ observed' = <<>> /\ source'.queue = <<>>
    BY <1>7 DEF Restart, EmptySource
  <2> QED BY <2>1, NothingScored DEF ScoredInv
<1>8. ASSUME PostChunk PROVE ScoredInv'
  <2> DEFINE last == IF replay.sent + Chunk < Len(Replayed) THEN replay.sent + Chunk
                     ELSE Len(Replayed)
             payloads == SubSeq(Replayed, replay.sent + 1, last)
  <2>1. publish_events(payloads)
    BY <1>8 DEF PostChunk
  <2>2. payloads \in Seq(Payloads)
    BY <1>8, ChunkIsPayloads DEF PostChunk
  <2> HIDE DEF payloads
  <2> QED BY <2>1, <2>2, RequestScored
<1>9. ASSUME Poll \/ ListDecisions \/ Summarize \/ StopReplay PROVE ScoredInv'
  BY <1>4, <1>9 DEF Poll, ListDecisions, Summarize, StopReplay, ServiceUnchanged
<1> QED BY <1>2, <1>3, <1>5, <1>6, <1>7, <1>8, <1>9 DEF TransferNext

\* However late and out of order transfers arrive, and whatever is dropped,
\* reset or restarted: a transfer's features are those of every transfer of its
\* account observed before it and timestamped before it.  What windows.py folds
\* into a count and a total is older than anything that can still arrive in
\* time, for its retention is the window and the allowed lateness.
THEOREM TransfersAreScoredExactly == TransferSpec => []ScoredExactly
<1>1. TransferInit => ScoredInv
  BY NothingScored DEF TransferInit, EmptySource, ScoredInv
<1>2. ReplayInv /\ ScoredInv => ScoredExactly
  <2> SUFFICES ASSUME ReplayInv, ScoredInv, ~carried, observed # <<>>,
                      processor.hand.event = Last(observed)
               PROVE  processor.hand.features = Exact(observed)
    BY DEF ScoredExactly, Exact
  <2>1. Last(observed) \in Accepted
    BY DEF ScoredInv, Last
  <2>2. processor.hand # NoTransfer
    BY <2>1 DEF NoTransfer, Accepted
  <2> QED BY <2>2 DEF ScoredInv
<1> QED BY <1>1, <1>2, ReplayInitially, ReplayInvStep, ScoredInvStep, PTL DEF TransferSpec

-----------------------------------------------------------------------------
(* What a login's features know. *)

Entry(x) == [event_id |-> x.event_id, at |-> x.at]
Of(logins, account) == {x \in logins : x.account = account}

Traits == UNION {x.traits : x \in Logins}
Places == {NoPlace} \cup [known : {TRUE}, place : Int, at : Int]
Histories == [velocity : SUBSET {Entry(x) : x \in Logins}, seen : SUBSET Traits,
              last_geo : Places, total : Nat]
Reads == [counts : [Windows -> Nat], seen : SUBSET Traits, last_geo : Places, total : Nat]
FeatureValues == [velocity : [Windows -> Nat], new_account : BOOLEAN, sparse_history : BOOLEAN,
                  novel : SUBSET Traits, impossible_travel : BOOLEAN]

Reading == [pc : {"trim", "count", "seen", "geo", "total"}, login : Logins, read : Reads,
            before : SUBSET Logins]
Writing == [pc : {"zadd", "sadd", "hset", "incr"}, login : Logins, before : SUBSET Logins,
            features : FeatureValues]

\* Only what an account sent is in its history; and what is not too old for the
\* trim, every trait and the fact of every login that ended.
HistoryKnows(h, account, begins, ends) ==
    /\ h \in Histories
    /\ h.velocity \subseteq {Entry(x) : x \in Of(begins, account)}
    /\ h.last_geo.known => \E x \in Of(begins, account) : x.place = h.last_geo.place
    /\ \A x \in Of(ends, account) :
         /\ Untrimmed(x) => Entry(x) \in h.velocity
         /\ x.traits \subseteq h.seen
         /\ h.total > 0

\* What a count of a window is between.
Counted(counts, e, before, begins) ==
    \A w \in Windows :
      counts[w] \in Cardinality(Sent({x \in Of(before, e.account) : Untrimmed(x)}, e, w)) ..
                    Cardinality(Sent(begins, e, w))

\* A process that reads: what it has read so far.
ReaderKnows(c, begins, ends) ==
    /\ c.before \subseteq ends
    /\ c.pc \in {"seen", "geo", "total"} => Counted(c.read.counts, c.login, c.before, begins)
    /\ c.pc \in {"geo", "total"} =>
         \A x \in Of(c.before, c.login.account) : x.traits \subseteq c.read.seen
    /\ (c.pc = "total" /\ c.read.last_geo.known) =>
         \E x \in Of(begins, c.login.account) : x.place = c.read.last_geo.place

\* A process that writes: its features and what it has written so far.
WriterKnows(c, h, begins) ==
    /\ c.pc = "zadd" =>
         /\ Counted(c.features.velocity, c.login, c.before, begins)
         /\ \A x \in Of(c.before, c.login.account) : c.features.novel \cap x.traits = {}
         /\ c.features.new_account => Of(c.before, c.login.account) = {}
         /\ c.features.impossible_travel =>
              \E x \in Of(begins, c.login.account) : x.place # c.login.place
    /\ c.pc \in {"sadd", "hset", "incr"} =>
         c.login \in begins /\ (Untrimmed(c.login) => Entry(c.login) \in h.velocity)
    /\ c.pc \in {"hset", "incr"} => c.login.traits \subseteq h.seen

ComputerKnows(c, hs, begins, ends) ==
    \/ c = IdleComputer
    \/ c \in Reading /\ ReaderKnows(c, begins, ends)
    \/ c \in Writing /\ c.before \subseteq ends /\ WriterKnows(c, hs[c.login.account], begins)

FeatureInv ==
    /\ begun \in SUBSET Logins /\ IsFiniteSet(begun) /\ ended \in SUBSET begun
    /\ DOMAIN history = LoginAccounts /\ history = [a \in LoginAccounts |-> history[a]]
    /\ computers = [p \in Computers |-> computers[p]]
    /\ \A a \in LoginAccounts : HistoryKnows(history[a], a, begun, ended)
    /\ \A p \in Computers : ComputerKnows(computers[p], history, begun, ended)

LEMMA FeaturesInitially == FeatureInit => FeatureInv
<1> SUFFICES ASSUME FeatureInit PROVE FeatureInv
  OBVIOUS
<1> USE DEF FeatureInit
<1>1. IsFiniteSet(begun)
  BY FS_EmptySet
<1>2. ASSUME NEW a \in LoginAccounts PROVE HistoryKnows(history[a], a, begun, ended)
  <2>1. history[a] = NoHistory
    OBVIOUS
  <2>2. NoHistory \in Histories
    BY DEF NoHistory, Histories, Places
  <2>3. NoHistory.velocity = {} /\ ~NoHistory.last_geo.known /\ Of(ended, a) = {}
    BY DEF NoHistory, NoPlace, Of
  <2> QED BY <2>1, <2>2, <2>3 DEF HistoryKnows
<1>3. ASSUME NEW p \in Computers PROVE ComputerKnows(computers[p], history, begun, ended)
  BY DEF ComputerKnows
<1> QED BY <1>1, <1>2, <1>3 DEF FeatureInv

\* Entries are as many as the logins they are of: an event id names one login.
LEMMA CountIsBetween ==
    ASSUME NEW e \in Logins, NEW begins \in SUBSET Logins, IsFiniteSet(begins),
           NEW ends \in SUBSET begins, NEW before \in SUBSET ends,
           NEW h, HistoryKnows(h, e.account, begins, ends), NEW w \in Windows
    PROVE  LET Within == {entry \in h.velocity : entry.at \in e.at - w .. e.at}
           IN  /\ Cardinality(Within) \in Nat
               /\ Cardinality(Within) \in
                    Cardinality(Sent({x \in Of(before, e.account) : Untrimmed(x)}, e, w)) ..
                    Cardinality(Sent(begins, e, w))
<1> DEFINE Within == {entry \in h.velocity : entry.at \in e.at - w .. e.at}
           upper == Sent(begins, e, w)
           lower == Sent({x \in Of(before, e.account) : Untrimmed(x)}, e, w)
           Image == {Entry(x) : x \in upper}
           up == [x \in upper |-> Entry(x)]
           low == [x \in lower |-> Entry(x)]
<1>1. IsFiniteSet(upper) /\ Cardinality(upper) \in Nat
  <2>1. upper \in SUBSET begins
    BY DEF Sent
  <2> HIDE DEF upper
  <2> QED BY <2>1, FS_Subset, FS_CardinalityType
<1>2. IsFiniteSet(Image) /\ Cardinality(Image) <= Cardinality(upper) /\ Cardinality(Image) \in Nat
  <2>1. up \in Surjection(upper, Image)
    <3>1. up \in [upper -> Image]
      OBVIOUS
    <3>2. \A t \in Image : \E x \in upper : up[x] = t
      OBVIOUS
    <3> HIDE DEF up, upper, Image
    <3> QED BY <3>1, <3>2 DEF Surjection
  <2> HIDE DEF up, upper, Image
  <2> QED BY <1>1, <2>1, FS_Surjection, FS_CardinalityType
<1>3. Within \in SUBSET Image
  <2> SUFFICES ASSUME NEW entry \in h.velocity, entry.at \in e.at - w .. e.at
               PROVE  entry \in Image
    OBVIOUS
  <2>1. PICK x \in Of(begins, e.account) : entry = Entry(x)
    BY DEF HistoryKnows
  <2>2. x \in upper
    BY <2>1 DEF Sent, Of, Entry
  <2> QED BY <2>1, <2>2
<1>4. /\ IsFiniteSet(Within) /\ Cardinality(Within) \in Nat
      /\ Cardinality(Within) <= Cardinality(upper)
  <2> HIDE DEF Within, Image, upper
  <2>1. IsFiniteSet(Within) /\ Cardinality(Within) <= Cardinality(Image)
    BY <1>2, <1>3, FS_Subset
  <2>2. Cardinality(Within) \in Nat
    BY <2>1, FS_CardinalityType
  <2> QED BY <1>1, <1>2, <2>1, <2>2
<1>5. low \in Injection(lower, Within)
  <2>1. ASSUME NEW x \in lower PROVE Entry(x) \in Within
    <3>1. x \in Of(ends, e.account) /\ Untrimmed(x) /\ x.at \in e.at - w .. e.at
      BY DEF Sent, Of
    <3>2. Entry(x) \in h.velocity
      BY <3>1 DEF HistoryKnows
    <3> QED BY <3>1, <3>2 DEF Entry
  <2>2. ASSUME NEW x \in lower, NEW y \in lower, Entry(x) = Entry(y) PROVE x = y
    <3>1. x \in Logins /\ y \in Logins /\ x.event_id = y.event_id
      BY <2>2 DEF Sent, Of, Entry
    <3> QED BY <3>1, FeatureConstants
  <2>3. low \in [lower -> Within]
    <3> HIDE DEF lower, Within
    <3> QED BY <2>1
  <2>4. \A x, y \in lower : low[x] = low[y] => x = y
    <3> HIDE DEF lower, Within
    <3> QED BY <2>2
  <2> HIDE DEF low, lower, Within
  <2> QED BY <2>3, <2>4 DEF Injection, IsInjective
<1>6. Cardinality(lower) \in Nat /\ Cardinality(lower) <= Cardinality(Within)
  <2> HIDE DEF low, lower, Within
  <2> QED BY <1>4, <1>5, FS_Injection, FS_CardinalityType
<1> HIDE DEF Within, lower, upper
<1>7. Cardinality(Within) \in Cardinality(lower) .. Cardinality(upper)
  BY <1>1, <1>4, <1>6
<1> QED BY <1>4, <1>7 DEF Within, lower, upper

\* More begun logins only widen what a count is between.
LEMMA CountedGrows ==
    ASSUME NEW e \in Logins, NEW begins \in SUBSET Logins, NEW more \in SUBSET Logins,
           begins \subseteq more, IsFiniteSet(more), NEW before \in SUBSET begins,
           NEW counts, Counted(counts, e, before, begins)
    PROVE  Counted(counts, e, before, more)
<1> SUFFICES ASSUME NEW w \in Windows
             PROVE  counts[w] \in Cardinality(Sent({x \in Of(before, e.account) : Untrimmed(x)}, e, w)) ..
                                  Cardinality(Sent(more, e, w))
  BY DEF Counted
<1> DEFINE lower == Sent({x \in Of(before, e.account) : Untrimmed(x)}, e, w)
           upper == Sent(begins, e, w)
           wider == Sent(more, e, w)
<1>1. lower \in SUBSET wider /\ upper \in SUBSET wider /\ wider \in SUBSET more
  BY DEF Sent, Of
<1>2. counts[w] \in Cardinality(lower) .. Cardinality(upper)
  BY DEF Counted
<1> HIDE DEF lower, upper, wider
<1>3. IsFiniteSet(wider)
  BY <1>1, FS_Subset
<1>4. IsFiniteSet(upper) /\ IsFiniteSet(lower) /\ Cardinality(upper) <= Cardinality(wider)
  BY <1>1, <1>3, FS_Subset
<1>5. Cardinality(upper) \in Nat /\ Cardinality(lower) \in Nat /\ Cardinality(wider) \in Nat
  BY <1>3, <1>4, FS_CardinalityType
<1>6. counts[w] \in Cardinality(lower) .. Cardinality(wider)
  BY <1>2, <1>4, <1>5
<1> QED BY <1>6 DEF lower, wider

\* What a process knows of what is written is not disturbed by the others.
Grows(h, h2, account) ==
    /\ \A x \in Of(Logins, account) : Untrimmed(x) /\ Entry(x) \in h.velocity => Entry(x) \in h2.velocity
    /\ h.seen \subseteq h2.seen

LEMMA KnowledgeStays ==
    ASSUME NEW begins \in SUBSET Logins, NEW begins2 \in SUBSET Logins, IsFiniteSet(begins2),
           NEW ends \in SUBSET begins, NEW ends2 \in SUBSET begins2,
           begins \subseteq begins2, ends \subseteq ends2,
           NEW hs, NEW hs2, \A a \in LoginAccounts : Grows(hs[a], hs2[a], a),
           NEW c, ComputerKnows(c, hs, begins, ends)
    PROVE  ComputerKnows(c, hs2, begins2, ends2)
<1>1. ASSUME c \in Reading, ReaderKnows(c, begins, ends)
      PROVE  ReaderKnows(c, begins2, ends2)
  <2>1. c.login \in Logins
    BY <1>1 DEF Reading
  <2>2. c.before \in SUBSET begins /\ c.before \subseteq ends2
    BY <1>1 DEF ReaderKnows
  <2>3. c.pc \in {"seen", "geo", "total"} => Counted(c.read.counts, c.login, c.before, begins2)
    BY <1>1, <2>1, <2>2, CountedGrows DEF ReaderKnows
  <2>4. \A a : Of(begins, a) \subseteq Of(begins2, a)
    BY DEF Of
  <2> QED BY <1>1, <2>2, <2>3, <2>4 DEF ReaderKnows
<1>2. ASSUME c \in Writing, WriterKnows(c, hs[c.login.account], begins), c.before \subseteq ends
      PROVE  WriterKnows(c, hs2[c.login.account], begins2)
  <2>1. c.login \in Logins /\ c.login.account \in LoginAccounts
    BY <1>2 DEF Writing, LoginAccounts
  <2>2. c.before \in SUBSET begins
    BY <1>2
  <2>3. c.pc = "zadd" => Counted(c.features.velocity, c.login, c.before, begins2)
    BY <1>2, <2>1, <2>2, CountedGrows DEF WriterKnows
  <2>4. \A a : Of(begins, a) \subseteq Of(begins2, a)
    BY DEF Of
  <2>5. Grows(hs[c.login.account], hs2[c.login.account], c.login.account)
    BY <2>1
  <2>6. c.login \in Of(Logins, c.login.account)
    BY <2>1 DEF Of
  <2> QED BY <1>2, <2>3, <2>4, <2>5, <2>6 DEF WriterKnows, Grows
<1> QED BY <1>1, <1>2 DEF ComputerKnows

\* A process that is not idle reads or writes, as its pc says.
LEMMA AtStep ==
    ASSUME FeatureInv, NEW p \in Computers
    PROVE  /\ computers[p].pc \in {"trim", "count", "seen", "geo", "total"} =>
                computers[p] \in Reading /\ ReaderKnows(computers[p], begun, ended)
           /\ computers[p].pc \in {"zadd", "sadd", "hset", "incr"} =>
                /\ computers[p] \in Writing /\ computers[p].before \subseteq ended
                /\ WriterKnows(computers[p], history[LoginOf(p).account], begun)
           /\ computers[p].pc # "idle" =>
                LoginOf(p) \in Logins /\ LoginOf(p).account \in LoginAccounts
<1>1. ComputerKnows(computers[p], history, begun, ended)
  BY DEF FeatureInv
<1>2. CASE computers[p] = IdleComputer
  BY <1>2 DEF IdleComputer
<1>3. CASE computers[p] \in Reading /\ ReaderKnows(computers[p], begun, ended)
  BY <1>3 DEF Reading, LoginOf, LoginAccounts
<1>4. CASE /\ computers[p] \in Writing /\ computers[p].before \subseteq ended
           /\ WriterKnows(computers[p], history[computers[p].login.account], begun)
  BY <1>4 DEF Writing, LoginOf, LoginAccounts
<1> QED BY <1>1, <1>2, <1>3, <1>4 DEF ComputerKnows

\* A step that moves one process only.
LEMMA OneMoves ==
    ASSUME FeatureInv, NEW p \in Computers, NEW c,
           computers' = [computers EXCEPT ![p] = c], UNCHANGED <<history, begun, ended>>,
           ComputerKnows(c, history, begun, ended)
    PROVE  FeatureInv'
<1>1. computers' = [q \in Computers |-> computers'[q]]
      /\ \A q \in Computers : computers'[q] = IF q = p THEN c ELSE computers[q]
  BY DEF FeatureInv
<1>2. ASSUME NEW q \in Computers PROVE ComputerKnows(computers'[q], history, begun, ended)
  BY <1>1 DEF FeatureInv
<1> QED BY <1>1, <1>2 DEF FeatureInv

\* A step that moves one process and adds to the history of its account.
LEMMA OneWrites ==
    ASSUME FeatureInv, NEW p \in Computers, NEW c, NEW h, NEW account \in LoginAccounts,
           computers' = [computers EXCEPT ![p] = c],
           history' = [history EXCEPT ![account] = h],
           begun' \in SUBSET Logins, IsFiniteSet(begun'), begun \subseteq begun',
           ended' \in SUBSET begun', ended \subseteq ended',
           \A x \in ended' : x \in ended \/ x.account = account,
           Grows(history[account], h, account),
           HistoryKnows(h, account, begun', ended'),
           ComputerKnows(c, history', begun', ended')
    PROVE  FeatureInv'
<1>1. /\ computers' = [q \in Computers |-> computers'[q]]
      /\ \A q \in Computers : computers'[q] = IF q = p THEN c ELSE computers[q]
      /\ DOMAIN history' = LoginAccounts /\ history' = [a \in LoginAccounts |-> history'[a]]
      /\ \A a \in LoginAccounts : history'[a] = IF a = account THEN h ELSE history[a]
  BY DEF FeatureInv
<1>2. \A a \in LoginAccounts : Grows(history[a], history'[a], a)
  BY <1>1 DEF Grows
<1>3. ASSUME NEW q \in Computers PROVE ComputerKnows(computers'[q], history', begun', ended')
  <2>1. CASE q = p
    BY <1>1, <2>1
  <2>2. CASE q # p
    <3>1. ComputerKnows(computers[q], history, begun, ended)
      BY DEF FeatureInv
    <3>2. ComputerKnows(computers[q], history', begun', ended')
      <4>1. begun \in SUBSET Logins /\ ended \in SUBSET begun
        BY DEF FeatureInv
      <4> QED BY <1>2, <3>1, <4>1, KnowledgeStays
    <3> QED BY <1>1, <2>2, <3>2
  <2> QED BY <2>1, <2>2
<1>4. ASSUME NEW a \in LoginAccounts PROVE HistoryKnows(history'[a], a, begun', ended')
  <2>1. CASE a = account
    BY <1>1, <2>1
  <2>2. CASE a # account
    <3>1. HistoryKnows(history[a], a, begun, ended)
      BY DEF FeatureInv
    <3>2. Of(begun, a) \subseteq Of(begun', a) /\ Of(ended', a) = Of(ended, a)
      BY <2>2 DEF Of
    <3>3. {Entry(x) : x \in Of(begun, a)} \subseteq {Entry(x) : x \in Of(begun', a)}
      BY <3>2
    <3>4. HistoryKnows(history[a], a, begun', ended')
      BY <3>1, <3>2, <3>3 DEF HistoryKnows
    <3> QED BY <1>1, <2>2, <3>4
  <2> QED BY <2>1, <2>2
<1> QED BY <1>1, <1>3, <1>4 DEF FeatureInv

LEMMA BeginKeeps ==
    ASSUME FeatureInv, NEW p \in Computers, NEW e \in Logins, Begin(p, e) PROVE FeatureInv'
<1> DEFINE c == [pc |-> "trim", login |-> e, read |-> NothingRead, before |-> ended]
<1>1. computers' = [computers EXCEPT ![p] = c] /\ UNCHANGED <<history, begun, ended>>
  BY DEF Begin
<1>2. NothingRead \in Reads
  BY DEF NothingRead, Reads, Places
<1>3. c \in Reading
  BY <1>2 DEF Reading, FeatureInv
<1>4. ReaderKnows(c, begun, ended)
  BY DEF ReaderKnows
<1> HIDE DEF c
<1>5. ComputerKnows(c, history, begun, ended)
  BY <1>3, <1>4 DEF ComputerKnows
<1> QED BY <1>1, <1>5, OneMoves

LEMMA TrimKeeps == ASSUME FeatureInv, NEW p \in Computers, Trim(p) PROVE FeatureInv'
<1> DEFINE e == LoginOf(p)
           a == e.account
           c == [computers[p] EXCEPT !.pc = "count"]
           h == [history[a] EXCEPT !.velocity = {entry \in @ : entry.at > TrimmedBelow(e)}]
<1>1. /\ computers[p].pc = "trim" /\ computers' = [computers EXCEPT ![p] = c]
      /\ history' = [history EXCEPT ![a] = h] /\ UNCHANGED <<begun, ended>>
  <2>1. At(p, "trim") /\ computers' = [computers EXCEPT ![p].pc = "count"]
        /\ history' = [history EXCEPT ![a].velocity = {entry \in @ : entry.at > TrimmedBelow(e)}]
        /\ UNCHANGED <<begun, ended>>
    BY DEF Trim, Step
  <2> QED BY <2>1 DEF At
<1>2. /\ computers[p] \in Reading /\ ReaderKnows(computers[p], begun, ended)
      /\ e \in Logins /\ a \in LoginAccounts
  BY <1>1, AtStep
<1>3. HistoryKnows(history[a], a, begun, ended)
  BY <1>2 DEF FeatureInv
<1>4. ComputerKnows(c, history', begun, ended)
  <2>1. c \in Reading /\ c.pc = "count" /\ c.before = computers[p].before
    BY <1>2 DEF Reading
  <2> HIDE DEF c
  <2>2. ReaderKnows(c, begun, ended)
    BY <1>2, <2>1 DEF ReaderKnows
  <2> QED BY <2>1, <2>2 DEF ComputerKnows
<1> HIDE DEF c
<1>5. /\ h \in Histories /\ h.seen = history[a].seen /\ h.last_geo = history[a].last_geo
      /\ h.total = history[a].total
      /\ h.velocity = {entry \in history[a].velocity : entry.at > TrimmedBelow(e)}
  BY <1>3 DEF HistoryKnows, Histories
<1> HIDE DEF h
<1>6. \A x \in Of(Logins, a) : Untrimmed(x) /\ Entry(x) \in history[a].velocity =>
                                 Entry(x) \in h.velocity
  <2> SUFFICES ASSUME NEW x \in Of(Logins, a), Untrimmed(x), Entry(x) \in history[a].velocity
               PROVE  Entry(x) \in h.velocity
    OBVIOUS
  <2>1. x.account = a /\ x \in Logins
    BY DEF Of
  <2>2. x.at > e.at - DAY
    BY <1>2, <2>1 DEF Untrimmed
  <2> QED BY <1>5, <2>2 DEF Entry, TrimmedBelow
<1>7. Grows(history[a], h, a)
  BY <1>5, <1>6 DEF Grows
<1>8. HistoryKnows(h, a, begun, ended)
  <2>1. Of(ended, a) \subseteq Of(Logins, a)
    BY DEF FeatureInv, Of
  <2> HIDE DEF a, e
  <2> QED BY <1>3, <1>5, <1>6, <2>1 DEF HistoryKnows
<1> HIDE DEF a, e
<1>9. begun \in SUBSET Logins /\ IsFiniteSet(begun) /\ ended \in SUBSET begun
  BY DEF FeatureInv
<1> QED BY <1>1, <1>2, <1>4, <1>7, <1>8, <1>9, OneWrites

LEMMA CountKeeps == ASSUME FeatureInv, NEW p \in Computers, CountWindows(p) PROVE FeatureInv'
<1> DEFINE e == LoginOf(p)
           Within(w) == {entry \in HistoryOf(p).velocity : entry.at \in e.at - w .. e.at}
           counts == [w \in Windows |-> Cardinality(Within(w))]
           c == [computers[p] EXCEPT !.pc = "seen", !.read.counts = counts]
<1>1. /\ computers[p].pc = "count" /\ UNCHANGED <<history, begun, ended>>
      /\ computers' = [computers EXCEPT ![p].pc = "seen", ![p].read.counts = counts]
  BY DEF CountWindows, OnlyComputer, At
<1>2. /\ computers[p] \in Reading /\ ReaderKnows(computers[p], begun, ended)
      /\ e \in Logins /\ e.account \in LoginAccounts
  BY <1>1, AtStep
<1>3. computers' = [computers EXCEPT ![p] = c]
  <2> HIDE DEF counts
  <2>1. computers = [q \in Computers |-> computers[q]]
    BY DEF FeatureInv
  <2> QED BY <1>1, <2>1
<1>4. HistoryKnows(history[e.account], e.account, begun, ended)
  BY <1>2 DEF FeatureInv
<1>5. /\ begun \in SUBSET Logins /\ IsFiniteSet(begun) /\ ended \in SUBSET begun
      /\ computers[p].before \in SUBSET ended
  BY <1>2 DEF FeatureInv, ReaderKnows
<1>6. counts \in [Windows -> Nat] /\ Counted(counts, e, computers[p].before, begun)
  <2>1. \A w \in Windows :
          /\ Cardinality(Within(w)) \in Nat
          /\ Cardinality(Within(w)) \in
               Cardinality(Sent({x \in Of(computers[p].before, e.account) : Untrimmed(x)}, e, w)) ..
               Cardinality(Sent(begun, e, w))
    <3> HIDE DEF e
    <3> QED BY <1>2, <1>4, <1>5, CountIsBetween DEF HistoryOf, e
  <2> HIDE DEF Within
  <2> QED BY <2>1 DEF Counted
<1> HIDE DEF counts
<1>7. /\ c \in Reading /\ c.pc = "seen" /\ c.before = computers[p].before
      /\ c.login = e /\ c.read.counts = counts
  BY <1>2, <1>6 DEF Reading, Reads, LoginOf
<1> HIDE DEF c, e
<1>8. ComputerKnows(c, history, begun, ended)
  BY <1>2, <1>6, <1>7 DEF ReaderKnows, ComputerKnows
<1> QED BY <1>1, <1>3, <1>8, OneMoves

LEMMA ReadSeenKeeps == ASSUME FeatureInv, NEW p \in Computers, ReadSeen(p) PROVE FeatureInv'
<1> DEFINE e == LoginOf(p)
           h == history[e.account]
           c == [computers[p] EXCEPT !.pc = "geo", !.read.seen = h.seen]
<1>1. /\ computers[p].pc = "seen" /\ UNCHANGED <<history, begun, ended>>
      /\ computers' = [computers EXCEPT ![p].pc = "geo", ![p].read.seen = h.seen]
  BY DEF ReadSeen, OnlyComputer, At, HistoryOf
<1>2. /\ computers[p] \in Reading /\ ReaderKnows(computers[p], begun, ended)
      /\ e \in Logins /\ e.account \in LoginAccounts
  BY <1>1, AtStep
<1>3. HistoryKnows(h, e.account, begun, ended)
  BY <1>2 DEF FeatureInv
<1> HIDE DEF h
<1>4. computers' = [computers EXCEPT ![p] = c]
  <2>1. computers = [q \in Computers |-> computers[q]]
    BY DEF FeatureInv
  <2> QED BY <1>1, <2>1
<1>5. h.seen \in SUBSET Traits
  BY <1>3 DEF HistoryKnows, Histories
<1>6. /\ c \in Reading /\ c.pc = "geo" /\ c.before = computers[p].before
      /\ c.login = e /\ c.read.counts = computers[p].read.counts /\ c.read.seen = h.seen
  BY <1>2, <1>5 DEF Reading, Reads, LoginOf
<1>7. \A x \in Of(computers[p].before, e.account) : x.traits \subseteq h.seen
  BY <1>2, <1>3 DEF HistoryKnows, ReaderKnows, Of
<1>8. computers[p].login = e
  BY DEF LoginOf
<1> HIDE DEF c, e
<1>9. ComputerKnows(c, history, begun, ended)
  BY <1>1, <1>2, <1>6, <1>7, <1>8 DEF ReaderKnows, ComputerKnows
<1> QED BY <1>1, <1>4, <1>9, OneMoves

LEMMA ReadGeoKeeps == ASSUME FeatureInv, NEW p \in Computers, ReadGeo(p) PROVE FeatureInv'
<1> DEFINE e == LoginOf(p)
           h == history[e.account]
           c == [computers[p] EXCEPT !.pc = "total", !.read.last_geo = h.last_geo]
<1>1. /\ computers[p].pc = "geo" /\ UNCHANGED <<history, begun, ended>>
      /\ computers' = [computers EXCEPT ![p].pc = "total", ![p].read.last_geo = h.last_geo]
  BY DEF ReadGeo, OnlyComputer, At, HistoryOf
<1>2. /\ computers[p] \in Reading /\ ReaderKnows(computers[p], begun, ended)
      /\ e \in Logins /\ e.account \in LoginAccounts
  BY <1>1, AtStep
<1>3. HistoryKnows(h, e.account, begun, ended)
  BY <1>2 DEF FeatureInv
<1> HIDE DEF h
<1>4. computers' = [computers EXCEPT ![p] = c]
  <2>1. computers = [q \in Computers |-> computers[q]]
    BY DEF FeatureInv
  <2> QED BY <1>1, <2>1
<1>5. h.last_geo \in Places
  BY <1>3 DEF HistoryKnows, Histories
<1>6. /\ c \in Reading /\ c.pc = "total" /\ c.before = computers[p].before
      /\ c.login = e /\ c.read.counts = computers[p].read.counts
      /\ c.read.seen = computers[p].read.seen /\ c.read.last_geo = h.last_geo
  BY <1>2, <1>5 DEF Reading, Reads, LoginOf
<1>7. h.last_geo.known => \E x \in Of(begun, e.account) : x.place = h.last_geo.place
  BY <1>3 DEF HistoryKnows
<1>8. computers[p].login = e
  BY DEF LoginOf
<1> HIDE DEF c, e
<1>9. ComputerKnows(c, history, begun, ended)
  BY <1>1, <1>2, <1>6, <1>7, <1>8 DEF ReaderKnows, ComputerKnows
<1> QED BY <1>1, <1>4, <1>9, OneMoves

\* A distance from a place to itself exceeds no speed.
LEMMA NoDistance ==
    ASSUME NEW here \in Int, NEW time \in Nat
    PROVE  ~(Distance(here, here) > SPEED * time)
<1>1. Distance(here, here) = 0
  BY DEF Distance
<1>2. SPEED \in Nat
  BY FeatureConstants
<1>3. SPEED * time >= 0
  BY <1>2
<1>4. SPEED * time \in Int
  BY <1>2
<1> QED BY <1>1, <1>3, <1>4

LEMMA ReadTotalKeeps == ASSUME FeatureInv, NEW p \in Computers, ReadTotal(p) PROVE FeatureInv'
<1> DEFINE e == LoginOf(p)
           h == history[e.account]
           before == computers[p].before
           read == [computers[p].read EXCEPT !.total = h.total]
           f == _compute_features(e, read)
           c == [pc |-> "zadd", login |-> e, before |-> before, features |-> f]
<1>1. /\ computers[p].pc = "total" /\ UNCHANGED <<history, begun, ended>>
      /\ computers' = [computers EXCEPT ![p] = c]
  BY DEF ReadTotal, OnlyComputer, At, HistoryOf
<1>2. /\ computers[p] \in Reading /\ ReaderKnows(computers[p], begun, ended)
      /\ e \in Logins /\ e.account \in LoginAccounts
  BY <1>1, AtStep
<1>3. HistoryKnows(h, e.account, begun, ended)
  BY <1>2 DEF FeatureInv
<1> HIDE DEF h
<1>4. /\ read \in Reads /\ read.counts = computers[p].read.counts
      /\ read.seen = computers[p].read.seen /\ read.last_geo = computers[p].read.last_geo
      /\ read.total = h.total
  BY <1>2, <1>3 DEF Reading, Reads, HistoryKnows, Histories
<1>5. computers[p].login = e /\ before \in SUBSET Logins /\ before \subseteq ended
  BY <1>2 DEF LoginOf, Reading, ReaderKnows
<1> HIDE DEF read, e, before
<1>6. /\ Counted(read.counts, e, before, begun)
      /\ \A x \in Of(before, e.account) : x.traits \subseteq read.seen
      /\ read.last_geo.known => \E x \in Of(begun, e.account) : x.place = read.last_geo.place
  BY <1>1, <1>2, <1>4, <1>5 DEF ReaderKnows, before
<1>7. /\ f.velocity = read.counts /\ f.new_account = (read.total = 0)
      /\ f.sparse_history = (read.total < SPARSE)
      /\ f.novel = (IF read.total = 0 THEN {} ELSE e.traits \ read.seen)
      /\ f.impossible_travel =
           (/\ read.last_geo.known
            /\ Distance(read.last_geo.place, e.place) >
                 SPEED * (IF e.at > read.last_geo.at THEN e.at - read.last_geo.at ELSE 0))
      /\ f = [velocity |-> f.velocity, new_account |-> f.new_account,
              sparse_history |-> f.sparse_history, novel |-> f.novel,
              impossible_travel |-> f.impossible_travel]
  BY DEF _compute_features
<1> HIDE DEF f
<1>8. f \in FeatureValues
  <2>1. e.traits \subseteq Traits
    BY <1>2 DEF Traits
  <2>2. f.novel \in SUBSET Traits
    BY <1>7, <2>1
  <2>3. f.velocity \in [Windows -> Nat]
    BY <1>4, <1>7 DEF Reads
  <2>4. f.new_account \in BOOLEAN /\ f.sparse_history \in BOOLEAN /\ f.impossible_travel \in BOOLEAN
    BY <1>7
  <2> QED BY <1>7, <2>2, <2>3, <2>4 DEF FeatureValues
<1>9. c \in Writing
  BY <1>2, <1>5, <1>8 DEF Writing
<1>10. \A x \in Of(before, e.account) : f.novel \cap x.traits = {}
  BY <1>6, <1>7
<1>11. f.new_account => Of(before, e.account) = {}
  <2> SUFFICES ASSUME NEW x \in Of(before, e.account), h.total = 0 PROVE FALSE
    BY <1>4, <1>7
  <2>1. x \in Of(ended, e.account)
    BY <1>5 DEF Of
  <2>2. h.total > 0
    BY <1>3, <2>1 DEF HistoryKnows
  <2> QED BY <2>2
<1>12. f.impossible_travel => \E x \in Of(begun, e.account) : x.place # e.place
  <2> SUFFICES ASSUME f.impossible_travel PROVE \E x \in Of(begun, e.account) : x.place # e.place
    OBVIOUS
  <2>1. read.last_geo.known
    BY <1>7
  <2>2. PICK x \in Of(begun, e.account) : x.place = read.last_geo.place
    BY <1>6, <2>1
  <2>3. e.at \in Int /\ e.place \in Int
    BY <1>2, FeatureConstants
  <2> DEFINE time == IF e.at > read.last_geo.at THEN e.at - read.last_geo.at ELSE 0
  <2>4. time \in Nat
    <3>1. read.last_geo.at \in Int
      <4>1. read.last_geo \in Places
        BY <1>4 DEF Reads
      <4>2. ~NoPlace.known
        BY DEF NoPlace
      <4>3. read.last_geo # NoPlace
        BY <2>1, <4>2
      <4>4. read.last_geo \in [known : {TRUE}, place : Int, at : Int]
        BY <4>1, <4>3 DEF Places
      <4> QED BY <4>4
    <3> QED BY <2>3, <3>1
  <2>5. Distance(read.last_geo.place, e.place) > SPEED * time
    BY <1>7
  <2> HIDE DEF time
  <2>6. read.last_geo.place # e.place
    BY <2>3, <2>4, <2>5, NoDistance
  <2> QED BY <2>2, <2>6
<1>13. WriterKnows(c, history[e.account], begun)
  BY <1>6, <1>7, <1>10, <1>11, <1>12 DEF WriterKnows
<1>14. c.login = e /\ c.before = before
  OBVIOUS
<1> HIDE DEF c
<1>15. ComputerKnows(c, history, begun, ended)
  BY <1>5, <1>9, <1>13, <1>14 DEF ComputerKnows
<1> QED BY <1>1, <1>15, OneMoves

LEMMA WriteVelocityKeeps ==
    ASSUME FeatureInv, NEW p \in Computers, WriteVelocity(p) PROVE FeatureInv'
<1> DEFINE e == LoginOf(p)
           a == e.account
           h0 == history[a]
           written == {entry \in h0.velocity : entry.event_id # e.event_id} \cup {Entry(e)}
           c == [computers[p] EXCEPT !.pc = "sadd"]
           h == [h0 EXCEPT !.velocity = written]
<1>1. /\ computers[p].pc = "zadd" /\ computers' = [computers EXCEPT ![p] = c]
      /\ history' = [history EXCEPT ![a] = h]
      /\ begun' = begun \cup {e} /\ UNCHANGED ended
  <2>1. At(p, "zadd") /\ computers' = [computers EXCEPT ![p].pc = "sadd"]
        /\ history' = [history EXCEPT ![a].velocity = written]
        /\ begun' = begun \cup {e} /\ UNCHANGED ended
    BY DEF WriteVelocity, Step, Entry
  <2> HIDE DEF written
  <2> QED BY <2>1 DEF At
<1>2. /\ computers[p] \in Writing /\ computers[p].before \subseteq ended
      /\ e \in Logins /\ a \in LoginAccounts /\ computers[p].login = e
  BY <1>1, AtStep DEF LoginOf
<1>3. HistoryKnows(h0, a, begun, ended)
  BY <1>2 DEF FeatureInv
<1>4. begun \in SUBSET Logins /\ IsFiniteSet(begun) /\ ended \in SUBSET begun
  BY DEF FeatureInv
<1>5. IsFiniteSet(begun')
  BY <1>1, <1>4, FS_AddElement
<1> HIDE DEF h0, e
<1>6. /\ h \in Histories /\ h.seen = h0.seen /\ h.last_geo = h0.last_geo /\ h.total = h0.total
      /\ h.velocity = written
  <2>1. written \in SUBSET {Entry(x) : x \in Logins} /\ h0 \in Histories
    BY <1>2, <1>3 DEF HistoryKnows, Histories
  <2> HIDE DEF written
  <2> QED BY <2>1 DEF Histories
<1>7. c \in Writing /\ c.pc = "sadd" /\ c.login = e /\ c.before = computers[p].before
  BY <1>2 DEF Writing
<1> HIDE DEF h, c
<1>8. \A x \in Of(Logins, a) : Entry(x) \in h0.velocity => Entry(x) \in h.velocity
  <2> SUFFICES ASSUME NEW x \in Of(Logins, a), Entry(x) \in h0.velocity
               PROVE  Entry(x) \in h.velocity
    OBVIOUS
  <2>1. CASE x.event_id = e.event_id
    <3>1. x = e
      BY <1>2, <2>1, FeatureConstants DEF Of
    <3> QED BY <1>6, <3>1
  <2>2. CASE x.event_id # e.event_id
    BY <1>6, <2>2 DEF Entry
  <2> QED BY <2>1, <2>2
<1>9. Grows(h0, h, a)
  BY <1>6, <1>8 DEF Grows
<1>10. HistoryKnows(h, a, begun', ended)
  <2>1. e \in Of(begun', a) /\ Of(begun, a) \subseteq Of(begun', a)
    BY <1>1 DEF Of
  <2>2. Of(ended, a) \subseteq Of(Logins, a)
    BY <1>4 DEF Of
  <2>3. h.velocity \subseteq {Entry(x) : x \in Of(begun', a)}
    <3>1. \A entry \in h0.velocity : \E x \in Of(begun, a) : entry = Entry(x)
      BY <1>3 DEF HistoryKnows
    <3> QED BY <1>6, <2>1, <3>1
  <2>4. h.last_geo.known => \E x \in Of(begun', a) : x.place = h.last_geo.place
    BY <1>3, <1>6, <2>1 DEF HistoryKnows
  <2>5. \A x \in Of(ended, a) :
          (Untrimmed(x) => Entry(x) \in h.velocity) /\ x.traits \subseteq h.seen /\ h.total > 0
    BY <1>3, <1>6, <1>8, <2>2 DEF HistoryKnows
  <2> QED BY <1>6, <2>3, <2>4, <2>5 DEF HistoryKnows
<1>11. history'[a] = h
  BY <1>1, <1>2 DEF FeatureInv
<1>12. ComputerKnows(c, history', begun', ended)
  <2>1. Entry(e) \in h.velocity /\ e \in begun'
    BY <1>1, <1>6
  <2>2. WriterKnows(c, history'[c.login.account], begun')
    BY <1>7, <1>11, <2>1 DEF WriterKnows
  <2> QED BY <1>2, <1>7, <2>2 DEF ComputerKnows
<1>13. begun' \in SUBSET Logins /\ begun \subseteq begun' /\ ended' = ended /\ ended \in SUBSET begun'
  BY <1>1, <1>2, <1>4
<1> HIDE DEF a
<1> QED BY <1>1, <1>2, <1>5, <1>9, <1>10, <1>12, <1>13, OneWrites DEF h0

LEMMA WriteSeenKeeps == ASSUME FeatureInv, NEW p \in Computers, WriteSeen(p) PROVE FeatureInv'
<1> DEFINE e == LoginOf(p)
           a == e.account
           h0 == history[a]
           c == [computers[p] EXCEPT !.pc = "hset"]
           h == [h0 EXCEPT !.seen = @ \cup e.traits]
<1>1. /\ computers[p].pc = "sadd" /\ computers' = [computers EXCEPT ![p] = c]
      /\ history' = [history EXCEPT ![a] = h] /\ UNCHANGED <<begun, ended>>
  <2>1. At(p, "sadd") /\ computers' = [computers EXCEPT ![p].pc = "hset"]
        /\ history' = [history EXCEPT ![a].seen = @ \cup e.traits]
        /\ UNCHANGED <<begun, ended>>
    BY DEF WriteSeen, Step
  <2> QED BY <2>1 DEF At
<1>2. /\ computers[p] \in Writing /\ computers[p].before \subseteq ended
      /\ WriterKnows(computers[p], h0, begun)
      /\ e \in Logins /\ a \in LoginAccounts /\ computers[p].login = e
  BY <1>1, AtStep DEF LoginOf
<1>3. HistoryKnows(h0, a, begun, ended)
  BY <1>2 DEF FeatureInv
<1>4. begun \in SUBSET Logins /\ IsFiniteSet(begun) /\ ended \in SUBSET begun
  BY DEF FeatureInv
<1> HIDE DEF h0, e
<1>5. /\ h \in Histories /\ h.seen = h0.seen \cup e.traits /\ h.last_geo = h0.last_geo
      /\ h.total = h0.total /\ h.velocity = h0.velocity
  <2>1. e.traits \subseteq Traits
    BY <1>2 DEF Traits
  <2> QED BY <1>3, <2>1 DEF HistoryKnows, Histories
<1>6. c \in Writing /\ c.pc = "hset" /\ c.login = e /\ c.before = computers[p].before
  BY <1>2 DEF Writing
<1> HIDE DEF h, c
<1>7. Grows(h0, h, a)
  BY <1>5 DEF Grows
<1>8. HistoryKnows(h, a, begun, ended)
  BY <1>3, <1>5 DEF HistoryKnows
<1>9. history'[a] = h
  BY <1>1, <1>2 DEF FeatureInv
<1>10. ComputerKnows(c, history', begun, ended)
  <2>1. e \in begun /\ (Untrimmed(e) => Entry(e) \in h.velocity) /\ e.traits \subseteq h.seen
    BY <1>1, <1>2, <1>5 DEF WriterKnows
  <2>2. WriterKnows(c, history'[c.login.account], begun)
    BY <1>6, <1>9, <2>1 DEF WriterKnows
  <2> QED BY <1>2, <1>6, <2>2 DEF ComputerKnows
<1> HIDE DEF a
<1> QED BY <1>1, <1>2, <1>4, <1>7, <1>8, <1>10, OneWrites DEF h0

LEMMA WriteGeoKeeps == ASSUME FeatureInv, NEW p \in Computers, WriteGeo(p) PROVE FeatureInv'
<1> DEFINE e == LoginOf(p)
           a == e.account
           h0 == history[a]
           place == [known |-> TRUE, place |-> e.place, at |-> e.at]
           c == [computers[p] EXCEPT !.pc = "incr"]
           h == [h0 EXCEPT !.last_geo = place]
<1>1. /\ computers[p].pc = "hset" /\ computers' = [computers EXCEPT ![p] = c]
      /\ history' = [history EXCEPT ![a] = h] /\ UNCHANGED <<begun, ended>>
  <2>1. At(p, "hset") /\ computers' = [computers EXCEPT ![p].pc = "incr"]
        /\ history' = [history EXCEPT ![a].last_geo = place]
        /\ UNCHANGED <<begun, ended>>
    BY DEF WriteGeo, Step
  <2> HIDE DEF place
  <2> QED BY <2>1 DEF At
<1>2. /\ computers[p] \in Writing /\ computers[p].before \subseteq ended
      /\ WriterKnows(computers[p], h0, begun)
      /\ e \in Logins /\ a \in LoginAccounts /\ computers[p].login = e
  BY <1>1, AtStep DEF LoginOf
<1>3. HistoryKnows(h0, a, begun, ended)
  BY <1>2 DEF FeatureInv
<1>4. begun \in SUBSET Logins /\ IsFiniteSet(begun) /\ ended \in SUBSET begun
  BY DEF FeatureInv
<1> HIDE DEF h0, e
<1>5. /\ h \in Histories /\ h.seen = h0.seen /\ h.last_geo = place
      /\ h.total = h0.total /\ h.velocity = h0.velocity
  <2>1. place \in Places
    BY <1>2, FeatureConstants DEF Places
  <2> HIDE DEF place
  <2> QED BY <1>3, <2>1 DEF HistoryKnows, Histories
<1>6. c \in Writing /\ c.pc = "incr" /\ c.login = e /\ c.before = computers[p].before
  BY <1>2 DEF Writing
<1> HIDE DEF h, c
<1>7. Grows(h0, h, a)
  BY <1>5 DEF Grows
<1>8. e \in begun /\ (Untrimmed(e) => Entry(e) \in h.velocity) /\ e.traits \subseteq h.seen
  BY <1>1, <1>2, <1>5 DEF WriterKnows
<1>9. HistoryKnows(h, a, begun, ended)
  <2>1. e \in Of(begun, a) /\ e.place = h.last_geo.place
    BY <1>5, <1>8 DEF Of
  <2> QED BY <1>3, <1>5, <2>1 DEF HistoryKnows
<1>10. history'[a] = h
  BY <1>1, <1>2 DEF FeatureInv
<1>11. ComputerKnows(c, history', begun, ended)
  <2>1. WriterKnows(c, history'[c.login.account], begun)
    BY <1>6, <1>8, <1>10 DEF WriterKnows
  <2> QED BY <1>2, <1>6, <2>1 DEF ComputerKnows
<1> HIDE DEF a
<1> QED BY <1>1, <1>2, <1>4, <1>7, <1>9, <1>11, OneWrites DEF h0

LEMMA WriteTotalKeeps == ASSUME FeatureInv, NEW p \in Computers, WriteTotal(p) PROVE FeatureInv'
<1> DEFINE e == LoginOf(p)
           a == e.account
           h0 == history[a]
           h == [h0 EXCEPT !.total = @ + 1]
<1>1. /\ computers[p].pc = "incr" /\ computers' = [computers EXCEPT ![p] = IdleComputer]
      /\ history' = [history EXCEPT ![a] = h] /\ ended' = ended \cup {e} /\ UNCHANGED begun
  <2>1. At(p, "incr") /\ computers' = [computers EXCEPT ![p] = IdleComputer]
        /\ history' = [history EXCEPT ![a].total = @ + 1]
        /\ ended' = ended \cup {e} /\ UNCHANGED begun
    BY DEF WriteTotal
  <2> QED BY <2>1 DEF At
<1>2. /\ WriterKnows(computers[p], h0, begun)
      /\ e \in Logins /\ a \in LoginAccounts /\ computers[p].login = e
  BY <1>1, AtStep DEF LoginOf
<1>3. HistoryKnows(h0, a, begun, ended)
  BY <1>2 DEF FeatureInv
<1>4. begun \in SUBSET Logins /\ IsFiniteSet(begun) /\ ended \in SUBSET begun
  BY DEF FeatureInv
<1> HIDE DEF h0, e
<1>5. /\ h \in Histories /\ h.seen = h0.seen /\ h.last_geo = h0.last_geo
      /\ h.total > 0 /\ h.velocity = h0.velocity
  BY <1>3 DEF HistoryKnows, Histories
<1> HIDE DEF h
<1>6. Grows(h0, h, a)
  BY <1>5 DEF Grows
<1>7. e \in begun /\ (Untrimmed(e) => Entry(e) \in h.velocity) /\ e.traits \subseteq h.seen
  BY <1>1, <1>2, <1>5 DEF WriterKnows
<1>8. HistoryKnows(h, a, begun, ended')
  <2>1. \A x \in Of(ended', a) : x = e \/ x \in Of(ended, a)
    BY <1>1 DEF Of
  <2> QED BY <1>3, <1>5, <1>7, <2>1 DEF HistoryKnows
<1>9. ComputerKnows(IdleComputer, history', begun, ended')
  BY DEF ComputerKnows
<1>10. /\ ended' \in SUBSET begun /\ ended \subseteq ended'
       /\ \A x \in ended' : x \in ended \/ x.account = a
  BY <1>1, <1>4, <1>7
<1> HIDE DEF a
<1> QED BY <1>1, <1>2, <1>4, <1>6, <1>8, <1>9, <1>10, OneWrites DEF h0

LEMMA FailKeeps == ASSUME FeatureInv, NEW p \in Computers, Fail(p) PROVE FeatureInv'
<1>1. computers' = [computers EXCEPT ![p] = IdleComputer] /\ UNCHANGED <<history, begun, ended>>
  BY DEF Fail, OnlyComputer
<1>2. ComputerKnows(IdleComputer, history, begun, ended)
  BY DEF ComputerKnows
<1> QED BY <1>1, <1>2, OneMoves

LEMMA FeatureInvStep == FeatureInv /\ [FeatureNext]_featureVars => FeatureInv'
<1> SUFFICES ASSUME FeatureInv, [FeatureNext]_featureVars PROVE FeatureInv'
  OBVIOUS
<1>1. ASSUME NEW p \in Computers, NEW e \in Logins, Begin(p, e) PROVE FeatureInv'
  BY <1>1, BeginKeeps
<1>2. ASSUME NEW p \in Computers, Compute(p) PROVE FeatureInv'
  <2>1. CASE Trim(p) \/ CountWindows(p) \/ ReadSeen(p) \/ ReadGeo(p) \/ ReadTotal(p)
    BY <2>1, TrimKeeps, CountKeeps, ReadSeenKeeps, ReadGeoKeeps, ReadTotalKeeps
  <2>2. CASE WriteVelocity(p) \/ WriteSeen(p) \/ WriteGeo(p) \/ WriteTotal(p)
    BY <2>2, WriteVelocityKeeps, WriteSeenKeeps, WriteGeoKeeps, WriteTotalKeeps
  <2> QED BY <1>2, <2>1, <2>2 DEF Compute
<1>3. ASSUME NEW p \in Computers, Fail(p) PROVE FeatureInv'
  BY <1>3, FailKeeps
<1>4. ASSUME UNCHANGED featureVars PROVE FeatureInv'
  BY <1>4 DEF featureVars, FeatureInv
<1> QED BY <1>1, <1>2, <1>3, <1>4 DEF FeatureNext

\* However the commands of the two pipelines interleave (feature_service.py's
\* read and write), whoever retries or dies: a login's features count and know
\* every login of the account that ended before it began, and nothing that was
\* not sent.
THEOREM FeaturesKnow == FeatureSpec => []FeaturesKnowThePast
<1>1. FeatureInv => FeaturesKnowThePast
  <2> SUFFICES ASSUME FeatureInv, NEW p \in Computers, At(p, "zadd")
               PROVE  LET e == LoginOf(p)
                          f == computers[p].features
                          past == {x \in computers[p].before : x.account = e.account}
                          reached == {x \in past : Untrimmed(x)}
                      IN  /\ \A w \in Windows : f.velocity[w] \in Cardinality(Sent(reached, e, w)) ..
                                                                  Cardinality(Sent(begun, e, w))
                          /\ f.novel \cap UNION {x.traits : x \in past} = {}
                          /\ f.new_account => past = {}
                          /\ f.impossible_travel =>
                               \E x \in begun : x.account = e.account /\ x.place # e.place
    BY DEF FeaturesKnowThePast
  <2> DEFINE e == LoginOf(p)
             f == computers[p].features
             past == {x \in computers[p].before : x.account = e.account}
  <2>1. computers[p].pc = "zadd" /\ computers[p].login = e
    BY DEF At, LoginOf
  <2>2. WriterKnows(computers[p], history[e.account], begun)
    BY <2>1, AtStep
  <2>3. past = Of(computers[p].before, e.account)
    BY DEF Of
  <2> HIDE DEF e, past
  <2>4. Counted(f.velocity, e, computers[p].before, begun)
    BY <2>1, <2>2 DEF WriterKnows
  <2>5. /\ \A x \in past : f.novel \cap x.traits = {}
        /\ f.new_account => past = {}
        /\ f.impossible_travel => \E x \in Of(begun, e.account) : x.place # e.place
    BY <2>1, <2>2, <2>3 DEF WriterKnows
  <2>6. \A w \in Windows : f.velocity[w] \in Cardinality(Sent({x \in past : Untrimmed(x)}, e, w)) ..
                                             Cardinality(Sent(begun, e, w))
    BY <2>3, <2>4 DEF Counted
  <2>7. f.novel \cap UNION {x.traits : x \in past} = {}
    BY <2>5
  <2>8. f.impossible_travel => \E x \in begun : x.account = e.account /\ x.place # e.place
    BY <2>5 DEF Of
  <2> HIDE DEF f
  <2> QED BY <2>5, <2>6, <2>7, <2>8 DEF e, f, past
<1> QED BY <1>1, FeaturesInitially, FeatureInvStep, PTL DEF FeatureSpec
=============================================================================
