----------------------------- MODULE EntityJournal -----------------------------
(***************************************************************************)
(* The identity journal and the membership projection it feeds             *)
(* (app/audit/entity_journal.py, project_membership of core/identity.py),  *)
(* beside the decisions that record the relationships their identity       *)
(* asserted (the second statement of BundleStore.write,                    *)
(* app/audit/store.py).  An append and its rebuild are one transaction that *)
(* locks the projection; a decision's two statements commit one by one.    *)
(*                                                                         *)
(* A link stands for (subject, object, type), or for the unordered pair of *)
(* a merge: relate and merge open it, unrelate and detach close it.        *)
(***************************************************************************)
EXTENDS Integers, FiniteSets, Folds

CONSTANTS Links,
          DecisionIds,
          Appenders,   \* transactions on the journal's own connections
          Unlocked,    \* no transaction holds the projection's lock
          MaxTime,     \* bound: instants 1 .. MaxTime
          MaxEvents    \* bound: events appended

ASSUME JournalConstants ==
    /\ Unlocked \notin Appenders
    /\ MaxTime \in Nat \ {0} /\ MaxEvents \in Nat
    /\ IsFiniteSet(Links)

VARIABLES now,         \* the wall clock
          events,      \* durable: the committed journal
          sequences,   \* durable: event_sequence values handed out
          decisions,   \* each decision: where it stands, its resolved_at and links
          membership,  \* durable: the projection
          lock,        \* the transaction holding the projection's table lock
          appenders,   \* each transaction: where it stands, what it wrote and read
          folded       \* history: the events the last rebuild folded

entityVars == <<now, events, sequences, decisions, membership, lock, appenders, folded>>

Times == 1 .. MaxTime
Never == 0             \* a link that is not open
NoEnd == MaxTime + 1    \* valid_to is null

Event == [sequence : 1 .. MaxEvents, opens : BOOLEAN, link : Links, at : Times]
Membership == [link : Links, from : Times, to : Times \cup {NoEnd}]
Assertion == [link : Links, at : Times]

\* `stored' is history: the decisions stored before the rebuild began.
IdleAppender == [pc |-> "idle", batch |-> {}, stored |-> {}, events |-> {}, identities |-> {}]

-----------------------------------------------------------------------------
(* project_membership: the fold that defines the projection. *)

\* Asserted relationships and events, merged in time order; at one instant the
\* asserted ones come first and the events in append order.
Operations(journal, asserted) ==
    {[at |-> a.at, position |-> 0, opens |-> TRUE, link |-> a.link] : a \in asserted}
      \cup {[at |-> e.at, position |-> e.sequence, opens |-> e.opens, link |-> e.link]
              : e \in journal}

Before(p, q) == p.at < q.at \/ (p.at = q.at /\ p.position < q.position)

\* The operation applied after the others.
LastOf(operations) == CHOOSE op \in operations : \A q \in operations : ~Before(op, q)

\* Mutant: a relate restarts the interval that is open.
Apply_Restarts(state, op) ==
    IF op.opens
    THEN [state EXCEPT !.since[op.link] = op.at]
    ELSE [state EXCEPT !.since[op.link] = Never,
            !.intervals = @ \cup (IF state.since[op.link] = Never \/ op.at = state.since[op.link] THEN {}
                                  ELSE {[link |-> op.link, from |-> state.since[op.link], to |-> op.at]})]

Apply(state, op) ==
    LET since == state.since[op.link]
    IN  IF op.opens
        THEN [state EXCEPT !.since[op.link] = IF since = Never THEN op.at ELSE since]
        ELSE [state EXCEPT !.since[op.link] = Never,
                !.intervals = @ \cup (IF since = Never \/ op.at = since THEN {}
                                      ELSE {[link |-> op.link, from |-> since, to |-> op.at]})]

project_membership(journal, asserted) ==
    LET end == MapThenFoldSet(LAMBDA op, state : Apply(state, op),
                              [since |-> [l \in Links |-> Never], intervals |-> {}],
                              LAMBDA op : op, LastOf, Operations(journal, asserted))
    IN  end.intervals \cup {[link |-> l, from |-> end.since[l], to |-> NoEnd] :
                              l \in {k \in Links : end.since[k] # Never}}

-----------------------------------------------------------------------------

EntityInit ==
    /\ now = 1
    /\ events = {}
    /\ sequences = 0
    /\ decisions = [d \in DecisionIds |-> [pc |-> "idle", at |-> 1, related |-> {}]]
    /\ membership = {}
    /\ lock = Unlocked
    /\ appenders = [a \in Appenders |-> IdleAppender]
    /\ folded = {}

Tick ==
    /\ now < MaxTime
    /\ now' = now + 1
    /\ UNCHANGED <<events, sequences, decisions, membership, lock, appenders, folded>>

-----------------------------------------------------------------------------
(* Decisions. *)

\* The identity step: the links the resolver asserts, as of now.
Resolve(d, related) ==
    /\ decisions[d].pc = "idle"
    /\ decisions' = [decisions EXCEPT ![d] = [pc |-> "resolved", at |-> now, related |-> related]]
    /\ UNCHANGED <<now, events, sequences, membership, lock, appenders, folded>>

\* The bundle's insert, once its gates ended.
StoreBundle(d) ==
    /\ decisions[d].pc = "resolved"
    /\ decisions' = [decisions EXCEPT ![d].pc = "stored"]
    /\ UNCHANGED <<now, events, sequences, membership, lock, appenders, folded>>

\* The relationships' insert does nothing for a link that is open (the partial
\* unique index).
Opened(d, related) ==
    membership \cup
      {[link |-> l, from |-> decisions[d].at, to |-> NoEnd] :
         l \in {k \in related : \A m \in membership : m.link = k => m.to # NoEnd}}

\* It waits for the projection's lock.
StoreRelationships(d) ==
    /\ decisions[d].pc = "stored"
    /\ lock = Unlocked
    /\ membership' = Opened(d, decisions[d].related)
    /\ decisions' = [decisions EXCEPT ![d].pc = "done"]
    /\ UNCHANGED <<now, events, sequences, lock, appenders, folded>>

\* The process dies or the statement fails: each row commits on its own, so
\* some of them may be in.
Interrupt(d) ==
    /\ decisions[d].pc = "stored"
    /\ \E some \in SUBSET decisions[d].related :
         /\ some # {} => lock = Unlocked
         /\ membership' = Opened(d, some)
    /\ decisions' = [decisions EXCEPT ![d].pc = "interrupted"]
    /\ UNCHANGED <<now, events, sequences, lock, appenders, folded>>

-----------------------------------------------------------------------------
(* The journal's transactions. *)

Stored(d) == decisions[d].pc \in {"stored", "done", "interrupted"}
Asserted(at) == UNION {{[link |-> l, at |-> decisions[d].at] : l \in decisions[d].related} : d \in at}

\* append: the batch is inserted, not yet committed; rebuild_membership is the
\* empty batch.
Insert(a, batch) ==
    /\ appenders[a].pc = "idle"
    /\ sequences + Cardinality(batch) <= MaxEvents
    /\ sequences' = sequences + Cardinality(batch)
    /\ appenders' = [appenders EXCEPT ![a].pc = "inserted",
                                      ![a].batch = {[sequence |-> sequences + 1, opens |-> e.opens,
                                                     link |-> e.link, at |-> e.at] : e \in batch}]
    /\ UNCHANGED <<now, events, decisions, membership, lock, folded>>

\* append(..., rebuild=False) commits without a rebuild.
CommitUnfolded(a) ==
    /\ appenders[a].pc = "inserted"
    /\ events' = events \cup appenders[a].batch
    /\ appenders' = [appenders EXCEPT ![a] = IdleAppender]
    /\ UNCHANGED <<now, sequences, decisions, membership, lock, folded>>

\* Mutant: the rebuild reads without locking the projection first.
LockProjection_Not(a) ==
    /\ appenders[a].pc = "inserted"
    /\ appenders' = [appenders EXCEPT ![a].pc = "locked", ![a].stored = {d \in DecisionIds : Stored(d)}]
    /\ UNCHANGED <<now, events, sequences, decisions, membership, lock, folded>>

LockProjection(a) ==
    /\ appenders[a].pc = "inserted"
    /\ lock = Unlocked
    /\ lock' = a
    /\ appenders' = [appenders EXCEPT ![a].pc = "locked", ![a].stored = {d \in DecisionIds : Stored(d)}]
    /\ UNCHANGED <<now, events, sequences, decisions, membership, folded>>

\* The committed events and the transaction's own.
ReadEvents(a) ==
    /\ appenders[a].pc = "locked"
    /\ appenders' = [appenders EXCEPT ![a].pc = "read", ![a].events = events \cup appenders[a].batch]
    /\ UNCHANGED <<now, events, sequences, decisions, membership, lock, folded>>

\* Mutant: decisions whose relationships were interrupted are not read.
ReadIdentities_DoneOnly(a) ==
    /\ appenders[a].pc = "read"
    /\ appenders' = [appenders EXCEPT ![a].pc = "folding",
         ![a].identities = Asserted({d \in DecisionIds : decisions[d].pc = "done"})]
    /\ UNCHANGED <<now, events, sequences, decisions, membership, lock, folded>>

\* The identities of every committed bundle.
ReadIdentities(a) ==
    /\ appenders[a].pc = "read"
    /\ appenders' = [appenders EXCEPT ![a].pc = "folding",
         ![a].identities = Asserted({d \in DecisionIds : Stored(d)})]
    /\ UNCHANGED <<now, events, sequences, decisions, membership, lock, folded>>

\* The projection is replaced and the transaction committed.
CommitRebuild(a) ==
    /\ appenders[a].pc = "folding"
    /\ membership' = project_membership(appenders[a].events, appenders[a].identities)
    /\ events' = events \cup appenders[a].batch
    /\ folded' = appenders[a].events
    /\ lock' = Unlocked
    /\ appenders' = [appenders EXCEPT ![a] = IdleAppender]
    /\ UNCHANGED <<now, sequences, decisions>>

\* The transaction is rolled back: its events and its rebuild are gone.
Rollback(a) ==
    /\ appenders[a].pc # "idle"
    /\ lock' = IF lock = a THEN Unlocked ELSE lock
    /\ appenders' = [appenders EXCEPT ![a] = IdleAppender]
    /\ UNCHANGED <<now, events, sequences, decisions, membership, folded>>

-----------------------------------------------------------------------------

Batches == {{}} \cup {{e} : e \in [opens : BOOLEAN, link : Links, at : Times]}

EntityNext ==
    \/ Tick
    \/ \E d \in DecisionIds :
         \/ \E related \in SUBSET Links : Resolve(d, related)
         \/ StoreBundle(d)
         \/ StoreRelationships(d)
         \/ Interrupt(d)
    \/ \E a \in Appenders :
         \/ \E batch \in Batches : Insert(a, batch)
         \/ CommitUnfolded(a)
         \/ LockProjection(a)
         \/ ReadEvents(a)
         \/ ReadIdentities(a)
         \/ CommitRebuild(a)
         \/ Rollback(a)

EntitySpec == EntityInit /\ [][EntityNext]_entityVars

-----------------------------------------------------------------------------
(* Properties. *)

OpenLinks(intervals) == {m.link : m \in {i \in intervals : i.to = NoEnd}}

\* The decisions whose relationships were recorded.
Done == {d \in DecisionIds : decisions[d].pc = "done"}

\* The fold is the history: a link is in an interval at an instant exactly
\* when the last operation on it up to that instant opened it, and its
\* intervals never overlap.
FoldIsLastWord ==
    LET operations == Operations(events, Asserted({d \in DecisionIds : Stored(d)}))
        intervals  == project_membership(events, Asserted({d \in DecisionIds : Stored(d)}))
    IN  \A l \in Links, t \in Times :
          LET upTo    == {op \in operations : op.link = l /\ op.at <= t}
              holding == {m \in intervals : m.link = l /\ m.from <= t /\ t < m.to}
          IN  /\ Cardinality(holding) <= 1
              /\ holding # {} <=> \E op \in upTo : op.opens /\ \A q \in upTo : ~Before(op, q)

\* No relationship is lost to a rebuild: a decision written meanwhile either
\* is read by it or records its relationships after it, so every link the
\* recorded decisions and the folded events leave open is open.
NoRelationshipLost ==
    OpenLinks(project_membership(folded, Asserted(Done))) \subseteq OpenLinks(membership)

\* A rebuild restores what interrupted writes left out: the projection it
\* commits has every link that its events and the decisions stored before it
\* began leave open, the interrupted ones included.
RebuildRestores ==
    [][\A a \in Appenders :
         CommitRebuild(a) =>
           OpenLinks(project_membership(appenders[a].events, Asserted(appenders[a].stored)))
             \subseteq OpenLinks(membership')]_entityVars

\* Documented (02_tables.sql): the projection is the fold of the journal and of
\* the recorded decisions, kept current as decisions are written.
ProjectionIsFold ==
    OpenLinks(membership) \subseteq
      OpenLinks(project_membership(folded, Asserted({d \in DecisionIds : Stored(d)})))
=============================================================================
