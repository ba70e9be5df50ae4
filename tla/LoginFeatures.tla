----------------------------- MODULE LoginFeatures -----------------------------
(***************************************************************************)
(* The account-takeover reasoner's feature service (feature_service.py):   *)
(* what it reads of an account's history in Redis, the features it         *)
(* computes from that, and what it writes back.  Reads and writes are two  *)
(* pipelines of separate commands: the service and the instances of the    *)
(* stream consumer, each a process that computes one login at a time,      *)
(* interleave between any two of them.  A login may be computed again      *)
(* (its caller retries), and a process may die at any step.                *)
(***************************************************************************)
EXTENDS Integers, FiniteSets

CONSTANTS Logins,     \* [event_id, account, at, traits, place]
          Computers,  \* processes that compute features
          Windows,    \* the windows counted
          DAY,        \* the longest of them, and the age of what is trimmed
          SPARSE,     \* _SPARSE_HISTORY_THRESHOLD
          SPEED,      \* _MAX_TRAVEL_SPEED_KMH
          MaxComputed \* bound: computations begun

ASSUME FeatureConstants ==
    /\ DAY \in Windows /\ Windows \subseteq 1 .. DAY
    /\ SPARSE \in Nat /\ SPEED \in Nat /\ MaxComputed \in Nat
    /\ \A e \in Logins : e.at \in Int /\ e.place \in Int
    /\ \A e, x \in Logins : e.event_id = x.event_id => e = x

VARIABLES history,   \* each account's keys in Redis
          computers, \* each process: [pc, login, read, features, before, sent]
          computed,  \* computations begun
          begun,     \* history: the logins whose write began
          ended      \* history: the logins whose write ended

featureVars == <<history, computers, computed, begun, ended>>

LoginAccounts == {e.account : e \in Logins}
NoPlace == [known |-> FALSE]

\* velocity is a sorted set: one timestamp per event id.
NoHistory == [velocity |-> {}, seen |-> {}, last_geo |-> NoPlace, total |-> 0]
NothingRead == [counts |-> [w \in Windows |-> 0], seen |-> {}, last_geo |-> NoPlace, total |-> 0]
IdleComputer == [pc |-> "idle", read |-> NothingRead]

FeatureInit ==
    /\ history = [a \in LoginAccounts |-> NoHistory]
    /\ computers = [p \in Computers |-> IdleComputer]
    /\ computed = 0 /\ begun = {} /\ ended = {}

-----------------------------------------------------------------------------
(* _compute_features. *)

Distance(here, there) == IF here < there THEN there - here ELSE here - there

\* Novelty is neutral for an account without a total; travel is judged against
\* the last written login, at a speed over no negative time.
_compute_features(e, read) ==
    [velocity          |-> read.counts,
     new_account       |-> read.total = 0,
     sparse_history    |-> read.total < SPARSE,
     novel             |-> IF read.total = 0 THEN {} ELSE e.traits \ read.seen,
     impossible_travel |->
       /\ read.last_geo.known
       /\ Distance(read.last_geo.place, e.place) >
            SPEED * (IF e.at > read.last_geo.at THEN e.at - read.last_geo.at ELSE 0)]

-----------------------------------------------------------------------------
(* compute: the read pipeline. *)

At(p, pc) == computers[p].pc = pc
LoginOf(p) == computers[p].login
HistoryOf(p) == history[LoginOf(p).account]
Step(p, pc) == computers' = [computers EXCEPT ![p].pc = pc]
OnlyComputer == UNCHANGED <<history, computed, begun, ended>>

Begin(p, e) ==
    /\ At(p, "idle") /\ computed < MaxComputed
    /\ computed' = computed + 1
    /\ computers' = [computers EXCEPT ![p] =
                       [pc |-> "trim", login |-> e, read |-> NothingRead, before |-> ended]]
    /\ UNCHANGED <<history, begun, ended>>

\* Mutant: what the longest window has not left yet is trimmed.
TrimmedBelow_Hour(e) == e.at - (CHOOSE w \in Windows : \A v \in Windows : w <= v)

\* The latest timestamp the trim removes.
TrimmedBelow(e) == e.at - DAY

Trim(p) ==
    /\ At(p, "trim")
    /\ history' = [history EXCEPT ![LoginOf(p).account].velocity =
                     {entry \in @ : entry.at > TrimmedBelow(LoginOf(p))}]
    /\ Step(p, "count")
    /\ UNCHANGED <<computed, begun, ended>>

CountWindows(p) ==
    LET e == LoginOf(p)
        Within(w) == {entry \in HistoryOf(p).velocity : entry.at \in e.at - w .. e.at}
    IN  /\ At(p, "count")
        /\ computers' = [computers EXCEPT ![p].pc = "seen",
                           ![p].read.counts = [w \in Windows |-> Cardinality(Within(w))]]
        /\ OnlyComputer

ReadSeen(p) ==
    /\ At(p, "seen")
    /\ computers' = [computers EXCEPT ![p].pc = "geo", ![p].read.seen = HistoryOf(p).seen]
    /\ OnlyComputer

ReadGeo(p) ==
    /\ At(p, "geo")
    /\ computers' = [computers EXCEPT ![p].pc = "total",
                                      ![p].read.last_geo = HistoryOf(p).last_geo]
    /\ OnlyComputer

\* The last read; the features follow from what was read.
ReadTotal(p) ==
    LET read == [computers[p].read EXCEPT !.total = HistoryOf(p).total]
    IN  /\ At(p, "total")
        /\ computers' = [computers EXCEPT ![p] =
                           [pc |-> "zadd", login |-> LoginOf(p), before |-> @.before,
                            features |-> _compute_features(LoginOf(p), read)]]
        /\ OnlyComputer

-----------------------------------------------------------------------------
(* compute: the write pipeline. *)

WriteVelocity(p) ==
    LET e == LoginOf(p)
    IN  /\ At(p, "zadd")
        /\ history' = [history EXCEPT ![e.account].velocity =
                         {entry \in @ : entry.event_id # e.event_id}
                           \cup {[event_id |-> e.event_id, at |-> e.at]}]
        /\ begun' = begun \cup {e}
        /\ Step(p, "sadd")
        /\ UNCHANGED <<computed, ended>>

WriteSeen(p) ==
    /\ At(p, "sadd")
    /\ history' = [history EXCEPT ![LoginOf(p).account].seen = @ \cup LoginOf(p).traits]
    /\ Step(p, "hset")
    /\ UNCHANGED <<computed, begun, ended>>

WriteGeo(p) ==
    /\ At(p, "hset")
    /\ history' = [history EXCEPT ![LoginOf(p).account].last_geo =
                     [known |-> TRUE, place |-> LoginOf(p).place, at |-> LoginOf(p).at]]
    /\ Step(p, "incr")
    /\ UNCHANGED <<computed, begun, ended>>

WriteTotal(p) ==
    /\ At(p, "incr")
    /\ history' = [history EXCEPT ![LoginOf(p).account].total = @ + 1]
    /\ ended' = ended \cup {LoginOf(p)}
    /\ computers' = [computers EXCEPT ![p] = IdleComputer]
    /\ UNCHANGED <<computed, begun>>

\* The process dies, or Redis fails under it.
Fail(p) ==
    /\ ~At(p, "idle")
    /\ computers' = [computers EXCEPT ![p] = IdleComputer]
    /\ OnlyComputer

Compute(p) ==
    \/ Trim(p) \/ CountWindows(p) \/ ReadSeen(p) \/ ReadGeo(p) \/ ReadTotal(p)
    \/ WriteVelocity(p) \/ WriteSeen(p) \/ WriteGeo(p) \/ WriteTotal(p)

FeatureNext ==
    \E p \in Computers : (\E e \in Logins : Begin(p, e)) \/ Compute(p) \/ Fail(p)

FeatureSpec == FeatureInit /\ [][FeatureNext]_featureVars

-----------------------------------------------------------------------------
(* Properties. *)

Sent(logins, e, w) ==
    {x \in logins : x.account = e.account /\ x.at \in e.at - w .. e.at}
Untrimmed(x) == \A y \in Logins : y.account = x.account => x.at > y.at - DAY

\* However the processes interleave, retry and die: the features of a login
\* count and know every login of the account that ended before it began (and is
\* less than a day older than any the account sends, the trim's reach), and
\* nothing that was not sent; a trait is called novel only if no such login had
\* it, an account new only if there was none, and travel impossible only if the
\* account was somewhere else.
FeaturesKnowThePast ==
    \A p \in Computers : At(p, "zadd") =>
      LET e == LoginOf(p)
          f == computers[p].features
          past == {x \in computers[p].before : x.account = e.account}
          reached == {x \in past : Untrimmed(x)}
      IN  /\ \A w \in Windows : f.velocity[w] \in Cardinality(Sent(reached, e, w)) ..
                                                  Cardinality(Sent(begun, e, w))
          /\ f.novel \cap UNION {x.traits : x \in past} = {}
          /\ f.new_account => past = {}
          /\ f.impossible_travel => \E x \in begun : x.account = e.account /\ x.place # e.place
=============================================================================
