--------------------------- MODULE ResolutionJournal ---------------------------
(***************************************************************************)
(* Resolving held and challenged decisions: POST /decisions/{id}/resolutions *)
(* (app/api/decisions.py) over the append-only resolution journal           *)
(* (app/audit/resolution_journal.py).  Each request runs in a thread of its *)
(* own; the check, the read of the chain's length, the insert and the read  *)
(* for the receipt are separate statements, so requests interleave between  *)
(* them.  Other resolver kinds (an escalation, an SLA default) append to    *)
(* the same chain through the journal itself.                               *)
(***************************************************************************)
EXTENDS Integers, FiniteSets

CONSTANTS Decisions,
          DecisionActionOf,  \* the stored action of each decision
          Requests,          \* resolution requests over the API
          Systems            \* other resolvers, writing to the journal directly

Terminal == {"ALLOW", "BLOCK"}
Resolvable == {"CHALLENGE", "HOLD"}
Pending == "pending"

ASSUME StoredActions == DecisionActionOf \in [Decisions -> Terminal \cup Resolvable]

VARIABLES chain,     \* durable: the attempts of each decision, by sequence
          requests   \* each request and system resolver, where it stands

journalVars == <<chain, requests>>

Resolvers == Requests \cup Systems

Stages == {"idle", "checked", "sequenced", "recorded"}
Answers == {"created", "not_resolvable", "already_resolved", "conflict", "lost"}

NoDecision == "no decision"
Idle == [pc |-> "idle", decision |-> NoDecision, action |-> Pending, sequence |-> 0,
         realized |-> Pending]

-----------------------------------------------------------------------------
(* Reading the chain. *)

NextSequence(d) == Cardinality(DOMAIN chain[d])

TerminalAttempts(d) == {i \in DOMAIN chain[d] : chain[d][i] \in Terminal}

\* Mutant: the latest terminal attempt instead of the first.
realized_action_Latest(d) ==
    IF DecisionActionOf[d] \in Terminal THEN DecisionActionOf[d]
    ELSE IF TerminalAttempts(d) = {} THEN Pending
    ELSE chain[d][CHOOSE i \in TerminalAttempts(d) : \A j \in TerminalAttempts(d) : j <= i]

\* The decision's own action when it is terminal, else that of the first
\* terminal attempt, if any.
realized_action(d) ==
    IF DecisionActionOf[d] \in Terminal THEN DecisionActionOf[d]
    ELSE IF TerminalAttempts(d) = {} THEN Pending
    ELSE chain[d][CHOOSE i \in TerminalAttempts(d) : \A j \in TerminalAttempts(d) : i <= j]

-----------------------------------------------------------------------------

JournalInit ==
    /\ chain = [d \in Decisions |-> [i \in {} |-> Pending]]
    /\ requests = [w \in Resolvers |-> Idle]

Answer(w, pc) == requests' = [requests EXCEPT ![w].pc = pc]

\* A request is admitted for a resolvable decision that is not realized yet.
Check(w, d, action) ==
    /\ requests[w] = Idle
    /\ requests' = [requests EXCEPT ![w] =
         [Idle EXCEPT !.pc = IF DecisionActionOf[d] \notin Resolvable THEN "not_resolvable"
                             ELSE IF realized_action(d) # Pending THEN "already_resolved"
                             ELSE "checked",
                      !.decision = d, !.action = action]]
    /\ UNCHANGED chain

\* Another resolver opens an attempt of its own: with a terminal action, or
\* with none yet (an escalation).
Open(w, d, action) ==
    /\ requests[w] = Idle
    /\ DecisionActionOf[d] \in Resolvable
    /\ requests' = [requests EXCEPT ![w] =
         [Idle EXCEPT !.pc = "checked", !.decision = d, !.action = action]]
    /\ UNCHANGED chain

\* Mutant: the sequence of the last attempt instead of the next one.
ReadSequence_Last(w) ==
    /\ requests[w].pc = "checked"
    /\ requests' = [requests EXCEPT ![w].pc = "sequenced",
                                    ![w].sequence = NextSequence(requests[w].decision) - 1]
    /\ UNCHANGED chain

ReadSequence(w) ==
    /\ requests[w].pc = "checked"
    /\ requests' = [requests EXCEPT ![w].pc = "sequenced",
                                    ![w].sequence = NextSequence(requests[w].decision)]
    /\ UNCHANGED chain

Extended(attempts, sequence, action) ==
    [i \in DOMAIN attempts \cup {sequence} |-> IF i = sequence THEN action ELSE attempts[i]]

\* record_attempt: the pair (decision_id, sequence) is unique.
Record(w) ==
    LET d == requests[w].decision
    IN  /\ requests[w].pc = "sequenced"
        /\ requests[w].sequence \notin DOMAIN chain[d]
        /\ chain' = [chain EXCEPT ![d] = Extended(@, requests[w].sequence, requests[w].action)]
        /\ Answer(w, "recorded")

Conflict(w) ==
    /\ requests[w].pc = "sequenced"
    /\ requests[w].sequence \in DOMAIN chain[requests[w].decision]
    /\ Answer(w, "conflict")
    /\ UNCHANGED chain

\* Mutant: the receipt reports the action that was requested.
Receipt_Requested(w) ==
    /\ requests[w].pc = "recorded"
    /\ requests' = [requests EXCEPT ![w].pc = "created", ![w].realized = requests[w].action]
    /\ UNCHANGED chain

\* The receipt reports the realized action as read after the insert.
Receipt(w) ==
    /\ requests[w].pc = "recorded"
    /\ requests' = [requests EXCEPT ![w].pc = "created",
                                    ![w].realized = realized_action(requests[w].decision)]
    /\ UNCHANGED chain

\* The process dies under its requests; the committed rows stay.
Crash ==
    /\ requests' = [w \in Resolvers |->
                      IF requests[w].pc \in Stages THEN [requests[w] EXCEPT !.pc = "lost"]
                      ELSE requests[w]]
    /\ UNCHANGED chain

JournalNext ==
    \/ \E w \in Requests, d \in Decisions, action \in Terminal : Check(w, d, action)
    \/ \E w \in Systems, d \in Decisions, action \in Terminal \cup {Pending} : Open(w, d, action)
    \/ \E w \in Resolvers : ReadSequence(w) \/ Record(w) \/ Conflict(w) \/ Receipt(w)
    \/ Crash

JournalSpec == JournalInit /\ [][JournalNext]_journalVars

-----------------------------------------------------------------------------
(* Properties. *)

\* Types; the sequence of a resolver that read one is that of some attempt.
JournalTypeOK ==
    /\ DOMAIN chain = Decisions
    /\ \A d \in Decisions : /\ DOMAIN chain[d] \subseteq Nat
                            /\ \A i \in DOMAIN chain[d] : chain[d][i] \in Terminal \cup {Pending}
    /\ requests \in [Resolvers -> [pc : Stages \cup Answers,
                                   decision : Decisions \cup {NoDecision},
                                   action : Terminal \cup {Pending},
                                   sequence : Nat,
                                   realized : Terminal \cup {Pending}]]

\* The attempts of a decision are numbered without a gap, whoever raced for a
\* number: the length of the chain is always a free sequence, so a conflict is
\* never the answer to every retry.
ChainHasNoGap ==
    \A d \in Decisions : DOMAIN chain[d] = 0 .. NextSequence(d) - 1

\* A receipt is never contradicted: the attempt it reports is in the chain
\* under its sequence, no other answered attempt has it, and the realized
\* action it reports is the decision's from then on.
ReceiptsStand ==
    \A w \in Resolvers : requests[w].pc = "created" =>
      LET d == requests[w].decision
      IN  /\ requests[w].sequence \in DOMAIN chain[d]
          /\ chain[d][requests[w].sequence] = requests[w].action
          /\ requests[w].realized = realized_action(d)
               \/ (w \in Systems /\ requests[w].realized = Pending)
          /\ \A v \in Resolvers \ {w} :
               (requests[v].pc = "created" /\ requests[v].decision = d)
                 => requests[v].sequence # requests[w].sequence

\* The realized actions, read from the chain at any moment, are realized at
\* most once each (Realization).
Realized == INSTANCE Realization WITH realized <- [d \in Decisions |-> realized_action(d)]
RealizedOnce == Realized!Spec

\* Documented (the route's 409 answers): a resolution of a decision that is
\* already resolved is refused, so at most one request is answered 201.
ResolvedOnce ==
    \A v, w \in Requests :
      (v # w /\ requests[v].pc = "created" /\ requests[w].pc = "created")
        => requests[v].decision # requests[w].decision
=============================================================================
