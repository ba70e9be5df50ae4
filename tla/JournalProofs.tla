------------------------------ MODULE JournalProofs ------------------------------
(***************************************************************************)
(* Proofs about the ledger's two append-only journals.                     *)
(*                                                                         *)
(* Resolution, for any decisions and any number of concurrent resolvers:   *)
(* the attempts of a decision are numbered without a gap, a receipt is     *)
(* never contradicted and the journal realizes every decision at most      *)
(* once.                                                                   *)
(*                                                                         *)
(* Identity, for any links, decisions and transactions: the fold is the    *)
(* history of each link, no relationship a decision recorded is lost to a  *)
(* rebuild, and a rebuild restores what interrupted writes left out.       *)
(*                                                                         *)
(* A timeline, which reads both, for any decisions, intervals and size of  *)
(* a page: its pages list every decision due once, newest first.           *)
(***************************************************************************)
EXTENDS ResolutionJournal, EntityJournal, Timeline, Iteration

-----------------------------------------------------------------------------
(* Resolution: the inductive invariant. *)

\* ChainHasNoGap without cardinalities.
Gapless == \A d \in Decisions : \E n \in Nat : DOMAIN chain[d] = 0 .. n - 1

\* A terminal attempt is never without a first one: realized_action is defined.
FirstExists ==
    \A d \in Decisions :
      TerminalAttempts(d) # {} =>
        \E i \in TerminalAttempts(d) : \A j \in TerminalAttempts(d) : i <= j

\* A resolver that is past its check has a decision; every sequence below the
\* one it read is taken; what it recorded is in the chain; a request over the
\* API always asks for a terminal action.
ResolverHolds(w) ==
    /\ requests[w].pc \in {"checked", "sequenced", "recorded", "created"} =>
         /\ requests[w].decision \in Decisions
         /\ DecisionActionOf[requests[w].decision] \in Resolvable
         /\ w \notin Systems => requests[w].action \in Terminal
    /\ requests[w].pc = "sequenced" =>
         0 .. requests[w].sequence - 1 \subseteq DOMAIN chain[requests[w].decision]
    /\ requests[w].pc \in {"recorded", "created"} =>
         /\ requests[w].sequence \in DOMAIN chain[requests[w].decision]
         /\ chain[requests[w].decision][requests[w].sequence] = requests[w].action
    /\ requests[w].pc = "created" =>
         \/ requests[w].realized = realized_action(requests[w].decision)
         \/ w \in Systems /\ requests[w].realized = Pending

\* A sequence number is recorded by one resolver only.
NumbersDiffer ==
    \A v, w \in Resolvers :
      /\ v # w
      /\ requests[v].pc \in {"recorded", "created"}
      /\ requests[w].pc \in {"recorded", "created"}
      /\ requests[v].decision = requests[w].decision
      => requests[v].sequence # requests[w].sequence

ResolutionInv ==
    /\ JournalTypeOK
    /\ Gapless
    /\ FirstExists
    /\ \A w \in Resolvers : ResolverHolds(w)
    /\ NumbersDiffer

LEMMA Vocabulary ==
    /\ Pending \notin Terminal
    /\ Terminal \cap Resolvable = {}
    /\ NoDecision \in {NoDecision}
BY DEF Pending, Terminal, Resolvable

LEMMA ResolutionInitInv == JournalInit => ResolutionInv
<1> SUFFICES ASSUME JournalInit PROVE ResolutionInv
  OBVIOUS
<1>1. \A d \in Decisions : chain[d] = [i \in {} |-> Pending] /\ DOMAIN chain[d] = {}
  BY DEF JournalInit
<1>2. \A w \in Resolvers : requests[w] = Idle
  BY DEF JournalInit
<1>3. Idle \in [pc : Stages \cup Answers, decision : Decisions \cup {NoDecision},
                action : Terminal \cup {Pending}, sequence : Nat,
                realized : Terminal \cup {Pending}]
  BY DEF Idle, Stages
<1>4. JournalTypeOK
  BY <1>1, <1>3 DEF JournalInit, JournalTypeOK
<1>5. Gapless
  <2>1. {} = 0 .. 0 - 1 /\ 0 \in Nat
    OBVIOUS
  <2> QED BY <1>1, <2>1 DEF Gapless
<1>6. FirstExists
  BY <1>1 DEF FirstExists, TerminalAttempts
<1>7. (\A w \in Resolvers : ResolverHolds(w)) /\ NumbersDiffer
  BY <1>2 DEF ResolverHolds, NumbersDiffer, Idle
<1> QED BY <1>4, <1>5, <1>6, <1>7 DEF ResolutionInv

-----------------------------------------------------------------------------
(* Steps that leave the chain alone. *)

Requested == [pc : Stages \cup Answers, decision : Decisions \cup {NoDecision},
              action : Terminal \cup {Pending}, sequence : Nat,
              realized : Terminal \cup {Pending}]

\* One resolver moves, to a state that holds what it must; it does not come to
\* have recorded anything.
LEMMA OneMoves ==
    ASSUME ResolutionInv, UNCHANGED chain, NEW w \in Resolvers, NEW r \in Requested,
           requests' = [requests EXCEPT ![w] = r],
           ResolverHolds(w)',
           r.pc \in {"recorded", "created"} =>
             /\ requests[w].pc \in {"recorded", "created"}
             /\ r.decision = requests[w].decision
             /\ r.sequence = requests[w].sequence
    PROVE  ResolutionInv'
<1>1. requests \in [Resolvers -> Requested]
  BY DEF ResolutionInv, JournalTypeOK, Requested
<1>2. /\ requests'[w] = r
      /\ \A v \in Resolvers \ {w} : requests'[v] = requests[v]
      /\ requests' \in [Resolvers -> Requested]
  BY <1>1
<1>3. JournalTypeOK'
  BY <1>2 DEF ResolutionInv, JournalTypeOK, Requested
<1>4. Gapless' /\ FirstExists'
  BY DEF ResolutionInv, Gapless, FirstExists, TerminalAttempts
<1>5. ASSUME NEW v \in Resolvers PROVE ResolverHolds(v)'
  <2>1. CASE v = w
    BY <2>1
  <2>2. CASE v # w
    <3>1. ResolverHolds(v) /\ requests'[v] = requests[v]
      BY <2>2, <1>2 DEF ResolutionInv
    <3>2. \A d : realized_action(d)' = realized_action(d)
      BY DEF realized_action, TerminalAttempts
    <3> QED BY <3>1, <3>2 DEF ResolverHolds
  <2> QED BY <2>1, <2>2
<1>6. NumbersDiffer'
  BY <1>2 DEF ResolutionInv, NumbersDiffer
<1> QED BY <1>3, <1>4, <1>5, <1>6 DEF ResolutionInv

LEMMA CheckStep ==
    ASSUME ResolutionInv, NEW w \in Requests, NEW d \in Decisions, NEW action \in Terminal,
           Check(w, d, action)
    PROVE  ResolutionInv'
<1> DEFINE r == [Idle EXCEPT !.pc = IF DecisionActionOf[d] \notin Resolvable THEN "not_resolvable"
                             ELSE IF realized_action(d) # Pending THEN "already_resolved"
                             ELSE "checked",
                      !.decision = d, !.action = action]
<1>1. w \in Resolvers /\ requests \in [Resolvers -> Requested]
  BY DEF Resolvers, ResolutionInv, JournalTypeOK, Requested
<1>2. r \in Requested /\ r.decision = d /\ r.action = action
  BY DEF Requested, Idle, Stages, Answers
<1>3. /\ r.pc \in {"not_resolvable", "already_resolved", "checked"}
      /\ r.pc = "checked" => DecisionActionOf[d] \in Resolvable
  BY DEF Idle
<1>4. requests' = [requests EXCEPT ![w] = r] /\ UNCHANGED chain
  BY DEF Check
<1> HIDE DEF r
<1>5. requests'[w] = r
  BY <1>1, <1>4
<1>6. ResolverHolds(w)'
  BY <1>2, <1>3, <1>5 DEF ResolverHolds
<1> QED BY <1>1, <1>2, <1>3, <1>4, <1>6, OneMoves

LEMMA OpenStep ==
    ASSUME ResolutionInv, NEW w \in Systems, NEW d \in Decisions,
           NEW action \in Terminal \cup {Pending}, Open(w, d, action)
    PROVE  ResolutionInv'
<1> DEFINE r == [Idle EXCEPT !.pc = "checked", !.decision = d, !.action = action]
<1>1. w \in Resolvers /\ requests \in [Resolvers -> Requested]
  BY DEF Resolvers, ResolutionInv, JournalTypeOK, Requested
<1>2. r \in Requested /\ r.decision = d /\ r.pc = "checked"
  BY DEF Requested, Idle, Stages, Answers
<1>3. requests' = [requests EXCEPT ![w] = r] /\ UNCHANGED chain /\ DecisionActionOf[d] \in Resolvable
  BY DEF Open
<1> HIDE DEF r
<1>4. requests'[w] = r
  BY <1>1, <1>3
<1>5. ResolverHolds(w)'
  BY <1>2, <1>3, <1>4 DEF ResolverHolds
<1> QED BY <1>1, <1>2, <1>3, <1>5, OneMoves

\* The sequence a resolver reads is the length of the chain, and the numbers
\* below it are all taken.
LEMMA LengthIsNext ==
    ASSUME ResolutionInv, NEW d \in Decisions
    PROVE  NextSequence(d) \in Nat /\ DOMAIN chain[d] = 0 .. NextSequence(d) - 1
<1>1. PICK n \in Nat : DOMAIN chain[d] = 0 .. n - 1
  BY DEF ResolutionInv, Gapless
<1>2. Cardinality(0 .. n - 1) = n
  BY <1>1, FS_Interval
<1> QED BY <1>1, <1>2 DEF NextSequence

LEMMA ReadSequenceStep ==
    ASSUME ResolutionInv, NEW w \in Resolvers, ReadSequence(w)
    PROVE  ResolutionInv'
<1> DEFINE d == requests[w].decision
           r == [requests[w] EXCEPT !.pc = "sequenced", !.sequence = NextSequence(d)]
<1>1. requests \in [Resolvers -> Requested] /\ ResolverHolds(w)
  BY DEF ResolutionInv, JournalTypeOK, Requested
<1>2. requests[w].pc = "checked" /\ d \in Decisions /\ UNCHANGED chain
  BY <1>1 DEF ReadSequence, ResolverHolds
<1>3. NextSequence(d) \in Nat /\ DOMAIN chain[d] = 0 .. NextSequence(d) - 1
  BY <1>2, LengthIsNext
<1>4. r \in Requested
  <2>1. requests[w] \in Requested /\ "sequenced" \in Stages
    BY <1>1 DEF Stages
  <2> QED BY <2>1, <1>3 DEF Requested
<1>5. /\ r.pc = "sequenced" /\ r.decision = d /\ r.action = requests[w].action
      /\ r.sequence = NextSequence(d)
  BY <1>1 DEF Requested
<1>6. requests' = [requests EXCEPT ![w] = r]
  <2>1. requests' = [requests EXCEPT ![w].pc = "sequenced", ![w].sequence = NextSequence(d)]
    BY DEF ReadSequence
  <2> QED BY <2>1, <1>1 DEF Requested
<1> HIDE DEF r
<1>7. requests'[w] = r
  BY <1>1, <1>6
<1>8. ResolverHolds(w)'
  BY <1>1, <1>2, <1>3, <1>5, <1>7 DEF ResolverHolds
<1> QED BY <1>2, <1>4, <1>5, <1>6, <1>8, OneMoves

LEMMA ConflictStep ==
    ASSUME ResolutionInv, NEW w \in Resolvers, Conflict(w)
    PROVE  ResolutionInv'
<1> DEFINE r == [requests[w] EXCEPT !.pc = "conflict"]
<1>1. requests \in [Resolvers -> Requested]
  BY DEF ResolutionInv, JournalTypeOK, Requested
<1>2. r \in Requested /\ r.pc = "conflict"
  BY <1>1 DEF Requested, Answers
<1>3. requests' = [requests EXCEPT ![w] = r] /\ UNCHANGED chain
  BY DEF Conflict, Answer
<1> HIDE DEF r
<1>4. requests'[w] = r
  BY <1>1, <1>3
<1>5. ResolverHolds(w)'
  BY <1>2, <1>4 DEF ResolverHolds
<1> QED BY <1>2, <1>3, <1>5, OneMoves

\* A receipt is read after the insert: it reports the realized action.
LEMMA ReceiptStep ==
    ASSUME ResolutionInv, NEW w \in Resolvers, Receipt(w)
    PROVE  ResolutionInv'
<1> DEFINE d == requests[w].decision
           r == [requests[w] EXCEPT !.pc = "created", !.realized = realized_action(d)]
<1>1. requests \in [Resolvers -> Requested] /\ ResolverHolds(w)
  BY DEF ResolutionInv, JournalTypeOK, Requested
<1>2. requests[w].pc = "recorded" /\ d \in Decisions /\ UNCHANGED chain
  BY <1>1 DEF Receipt, ResolverHolds
<1>3. realized_action(d) \in Terminal \cup {Pending}
  <2>1. CASE TerminalAttempts(d) = {}
    BY <1>2, <2>1 DEF realized_action
  <2>2. CASE TerminalAttempts(d) # {}
    <3>1. (CHOOSE i \in TerminalAttempts(d) : \A j \in TerminalAttempts(d) : i <= j)
            \in TerminalAttempts(d)
      BY <1>2, <2>2 DEF ResolutionInv, FirstExists
    <3> QED BY <2>2, <3>1 DEF realized_action, TerminalAttempts
  <2> QED BY <2>1, <2>2
<1>4. r \in Requested
  BY <1>1, <1>3 DEF Requested, Answers
<1>5. /\ r.pc = "created" /\ r.decision = d /\ r.action = requests[w].action
      /\ r.sequence = requests[w].sequence /\ r.realized = realized_action(d)
  BY <1>1 DEF Requested
<1>6. requests' = [requests EXCEPT ![w] = r]
  BY <1>1 DEF Receipt, Requested
<1> HIDE DEF r
<1>7. requests'[w] = r
  BY <1>1, <1>6
<1>8. realized_action(requests[w].decision)' = realized_action(requests[w].decision)
  BY <1>2, <1>5, <1>7 DEF realized_action, TerminalAttempts
<1>9. ResolverHolds(w)'
  BY <1>1, <1>2, <1>5, <1>7, <1>8 DEF ResolverHolds
<1> QED BY <1>2, <1>4, <1>5, <1>6, <1>9, OneMoves

-----------------------------------------------------------------------------
(* The insert. *)

\* record_attempt takes the next number: the chain grows by one attempt at its
\* end, and a realized decision stays realized with the same action.
LEMMA RecordExtends ==
    ASSUME ResolutionInv, NEW w \in Resolvers, Record(w),
           NEW d, d = requests[w].decision, NEW n, n = requests[w].sequence
    PROVE  /\ d \in Decisions /\ n \in Nat
           /\ DecisionActionOf[d] \in Resolvable
           /\ DOMAIN chain[d] = 0 .. n - 1
           /\ DOMAIN chain'[d] = 0 .. n
           /\ chain'[d][n] = requests[w].action
           /\ \A i \in DOMAIN chain[d] : chain'[d][i] = chain[d][i]
           /\ \A e \in Decisions \ {d} : chain'[e] = chain[e]
           /\ DOMAIN chain' = Decisions
<1>1. requests \in [Resolvers -> Requested] /\ ResolverHolds(w) /\ DOMAIN chain = Decisions
  BY DEF ResolutionInv, JournalTypeOK, Requested
<1>2. /\ requests[w].pc = "sequenced" /\ n \notin DOMAIN chain[d]
      /\ chain' = [chain EXCEPT ![d] = Extended(chain[d], n, requests[w].action)]
  BY DEF Record
<1>3. /\ d \in Decisions /\ n \in Nat /\ 0 .. n - 1 \subseteq DOMAIN chain[d]
      /\ DecisionActionOf[d] \in Resolvable
  BY <1>1, <1>2 DEF ResolverHolds, Requested
<1>4. PICK m \in Nat : DOMAIN chain[d] = 0 .. m - 1
  BY <1>3 DEF ResolutionInv, Gapless
<1>5. m = n
  <2>1. ~(n < m)
    BY <1>2, <1>3, <1>4
  <2>2. ~(n > m)
    <3>1. n > m => m \in 0 .. n - 1
      BY <1>3, <1>4
    <3>2. m \notin 0 .. m - 1
      OBVIOUS
    <3> QED BY <3>1, <3>2, <1>3, <1>4
  <2> QED BY <2>1, <2>2, <1>3, <1>4
<1>6. chain'[d] = Extended(chain[d], n, requests[w].action)
  BY <1>1, <1>2, <1>3
<1>7. DOMAIN chain'[d] = 0 .. n
  BY <1>3, <1>4, <1>5, <1>6 DEF Extended
<1>8. chain'[d][n] = requests[w].action /\ \A i \in DOMAIN chain[d] : chain'[d][i] = chain[d][i]
  BY <1>2, <1>6 DEF Extended
<1>9. (\A e \in Decisions \ {d} : chain'[e] = chain[e]) /\ DOMAIN chain' = Decisions
  BY <1>1, <1>2
<1> QED BY <1>3, <1>4, <1>5, <1>7, <1>8, <1>9

\* An attempt at the end of a chain realizes a decision that had no terminal
\* attempt, and changes nothing for one that had.
LEMMA FirstStands ==
    ASSUME ResolutionInv, NEW w \in Resolvers, Record(w),
           NEW d \in Decisions, d = requests[w].decision
    PROVE  /\ FirstExists'
           /\ \A e \in Decisions \ {d} : realized_action(e)' = realized_action(e)
           /\ realized_action(d)' = IF realized_action(d) = Pending THEN requests[w].action
                                     ELSE realized_action(d)
           /\ requests[w].action \in Terminal \cup {Pending}
<1> DEFINE n == requests[w].sequence
<1>1. /\ n \in Nat
      /\ DecisionActionOf[d] \in Resolvable
      /\ DOMAIN chain[d] = 0 .. n - 1
      /\ DOMAIN chain'[d] = 0 .. n
      /\ chain'[d][n] = requests[w].action
      /\ \A i \in DOMAIN chain[d] : chain'[d][i] = chain[d][i]
      /\ \A e \in Decisions \ {d} : chain'[e] = chain[e]
  BY RecordExtends
<1>2. requests[w].action \in Terminal \cup {Pending}
  BY DEF ResolutionInv, JournalTypeOK
<1> DEFINE T == {i \in DOMAIN chain[d] : chain[d][i] \in Terminal}
           U == {i \in DOMAIN chain'[d] : chain'[d][i] \in Terminal}
           first(S) == CHOOSE i \in S : \A j \in S : i <= j
<1>3. TerminalAttempts(d) = T /\ TerminalAttempts(d)' = U
  BY DEF TerminalAttempts
<1>4. DecisionActionOf[d] \notin Terminal
  BY <1>1, Vocabulary
<1>5. /\ realized_action(d) = IF T = {} THEN Pending ELSE chain[d][first(T)]
      /\ realized_action(d)' = IF U = {} THEN Pending ELSE chain'[d][first(U)]
  BY <1>3, <1>4 DEF realized_action
<1>6. U = T \cup (IF requests[w].action \in Terminal THEN {n} ELSE {})
  BY <1>1
<1>7. \A i \in T : i \in Nat /\ i < n /\ chain'[d][i] = chain[d][i]
  BY <1>1
<1>8. T # {} => \E i \in T : \A j \in T : i <= j
  BY <1>3 DEF ResolutionInv, FirstExists
<1>9. ASSUME T # {}
      PROVE  /\ realized_action(d) # Pending
             /\ realized_action(d)' = realized_action(d)
             /\ \E i \in U : \A j \in U : i <= j
  <2>1. PICK i \in T : \A j \in T : i <= j
    BY <1>8, <1>9
  <2>2. i \in U /\ \A j \in U : i <= j
    <3>1. i \in Nat /\ i < n /\ i \in U
      BY <1>6, <1>7, <2>1
    <3>2. ASSUME NEW j \in U PROVE i <= j
      <4>1. CASE j \in T
        BY <4>1, <2>1
      <4>2. CASE j = n
        BY <4>2, <3>1, <1>1
      <4> QED BY <1>6, <4>1, <4>2
    <3> QED BY <3>1, <3>2
  <2>3. U \subseteq Nat /\ T \subseteq Nat
    BY <1>1
  <2>4. first(T) = i /\ first(U) = i
    BY <2>1, <2>2, <2>3
  <2>5. chain'[d][i] = chain[d][i] /\ chain[d][i] \in Terminal
    BY <1>7, <2>1
  <2> QED BY <1>5, <1>9, <2>2, <2>4, <2>5, Vocabulary
<1>10. ASSUME T = {}
       PROVE  /\ realized_action(d) = Pending
              /\ realized_action(d)' = requests[w].action
              /\ U # {} => \E i \in U : \A j \in U : i <= j
  <2>1. CASE requests[w].action \in Terminal
    <3>1. U = {n} /\ first(U) = n
      <4>1. U = {n}
        BY <1>6, <1>10, <2>1
      <4>2. n <= n
        BY <1>1
      <4> HIDE DEF n, U
      <4>3. first({n}) = n
        BY <4>2
      <4> QED BY <4>1, <4>3
    <3>2. U # {} /\ chain'[d][first(U)] = chain'[d][n]
      BY <3>1
    <3>3. chain'[d][n] = requests[w].action
      BY <1>1
    <3>4. \E i \in U : \A j \in U : i <= j
      <4>1. n <= n
        BY <1>1
      <4> QED BY <3>1, <4>1
    <3> HIDE DEF U, T, first
    <3>5. realized_action(d) = Pending
      BY <1>5, <1>10
    <3>6. realized_action(d)' = requests[w].action
      BY <1>5, <3>2, <3>3
    <3> QED BY <3>4, <3>5, <3>6
  <2>2. CASE requests[w].action \notin Terminal
    <3>1. U = {} /\ requests[w].action = Pending
      BY <1>2, <1>6, <1>10, <2>2
    <3> QED BY <1>5, <1>10, <3>1
  <2> QED BY <2>1, <2>2
<1>11. FirstExists'
  <2> SUFFICES ASSUME NEW e \in Decisions, TerminalAttempts(e)' # {}
               PROVE  \E i \in TerminalAttempts(e)' : \A j \in TerminalAttempts(e)' : i <= j
    BY DEF FirstExists
  <2>1. CASE e = d
    BY <2>1, <1>3, <1>9, <1>10
  <2>2. CASE e # d
    <3>1. TerminalAttempts(e)' = TerminalAttempts(e)
      BY <2>2, <1>1 DEF TerminalAttempts
    <3> QED BY <3>1 DEF ResolutionInv, FirstExists
  <2> QED BY <2>1, <2>2
<1>12. ASSUME NEW e \in Decisions \ {d} PROVE realized_action(e)' = realized_action(e)
  <2>1. chain'[e] = chain[e]
    BY <1>1
  <2>2. TerminalAttempts(e)' = TerminalAttempts(e)
    BY <2>1 DEF TerminalAttempts
  <2> QED BY <2>1, <2>2 DEF realized_action
<1> QED BY <1>2, <1>9, <1>10, <1>11, <1>12

LEMMA RecordStep ==
    ASSUME ResolutionInv, NEW w \in Resolvers, Record(w)
    PROVE  ResolutionInv'
<1>1. requests \in [Resolvers -> Requested] /\ ResolverHolds(w) /\ requests[w].pc = "sequenced"
  BY DEF ResolutionInv, JournalTypeOK, Requested, Record
<1>2. PICK d \in Decisions : d = requests[w].decision
  BY <1>1 DEF ResolverHolds
<1> DEFINE n == requests[w].sequence
<1>3. /\ n \in Nat
      /\ DOMAIN chain[d] = 0 .. n - 1
      /\ DOMAIN chain'[d] = 0 .. n
      /\ chain'[d][n] = requests[w].action
      /\ \A i \in DOMAIN chain[d] : chain'[d][i] = chain[d][i]
      /\ \A e \in Decisions \ {d} : chain'[e] = chain[e]
  BY <1>2, RecordExtends
<1>4. /\ FirstExists'
      /\ \A e \in Decisions \ {d} : realized_action(e)' = realized_action(e)
      /\ realized_action(d)' = IF realized_action(d) = Pending THEN requests[w].action
                                ELSE realized_action(d)
      /\ requests[w].action \in Terminal \cup {Pending}
  BY <1>2, FirstStands
<1>5. requests' = [requests EXCEPT ![w] = [requests[w] EXCEPT !.pc = "recorded"]]
  BY <1>1 DEF Record, Answer, Requested
<1>6. /\ requests' \in [Resolvers -> Requested]
      /\ requests'[w] = [requests[w] EXCEPT !.pc = "recorded"]
      /\ \A v \in Resolvers \ {w} : requests'[v] = requests[v]
  BY <1>1, <1>5 DEF Requested, Stages
<1>7. /\ requests'[w].pc = "recorded" /\ requests'[w].decision = d
      /\ requests'[w].sequence = n /\ requests'[w].action = requests[w].action
  BY <1>1, <1>2, <1>6 DEF Requested
<1>8. JournalTypeOK'
  <2>1. ASSUME NEW e \in Decisions
        PROVE  /\ DOMAIN chain'[e] \subseteq Nat
               /\ \A i \in DOMAIN chain'[e] : chain'[e][i] \in Terminal \cup {Pending}
    <3>1. CASE e # d
      BY <3>1, <1>3 DEF ResolutionInv, JournalTypeOK
    <3>2. CASE e = d
      <4>1. \A i \in 0 .. n : i \in DOMAIN chain[d] \/ i = n
        BY <1>3
      <4>2. \A i \in DOMAIN chain[d] : chain[d][i] \in Terminal \cup {Pending}
        BY DEF ResolutionInv, JournalTypeOK
      <4> QED BY <1>3, <1>4, <3>2, <4>1, <4>2
    <3> QED BY <3>1, <3>2
  <2>2. DOMAIN chain' = Decisions
    BY DEF Record, ResolutionInv, JournalTypeOK
  <2> QED BY <1>6, <2>1, <2>2 DEF JournalTypeOK, Requested
<1>9. Gapless'
  <2> SUFFICES ASSUME NEW e \in Decisions PROVE \E m \in Nat : DOMAIN chain'[e] = 0 .. m - 1
    BY DEF Gapless
  <2>1. CASE e # d
    BY <2>1, <1>3 DEF ResolutionInv, Gapless
  <2>2. CASE e = d
    <3>1. n + 1 \in Nat /\ (n + 1) - 1 = n
      BY <1>3
    <3> QED BY <1>3, <2>2, <3>1
  <2> QED BY <2>1, <2>2
<1>10. ASSUME NEW v \in Resolvers PROVE ResolverHolds(v)'
  <2>1. CASE v = w
    <3>1. /\ requests'[w].decision = d /\ requests'[w].pc = "recorded"
          /\ requests'[w].sequence = n /\ requests'[w].action = requests[w].action
      BY <1>7
    <3>2. n \in DOMAIN chain'[d] /\ chain'[d][n] = requests[w].action
      BY <1>3
    <3>3. /\ d \in Decisions /\ DecisionActionOf[d] \in Resolvable
          /\ w \notin Systems => requests[w].action \in Terminal
      BY <1>1, <1>2 DEF ResolverHolds
    <3> QED BY <2>1, <3>1, <3>2, <3>3 DEF ResolverHolds
  <2>2. CASE v # w
    <3>1. requests'[v] = requests[v] /\ ResolverHolds(v)
      BY <2>2, <1>6 DEF ResolutionInv
    <3>2. \A e \in Decisions : /\ DOMAIN chain[e] \subseteq DOMAIN chain'[e]
                               /\ \A i \in DOMAIN chain[e] : chain'[e][i] = chain[e][i]
      <4>1. 0 .. n - 1 \subseteq 0 .. n
        BY <1>3
      <4>2. DOMAIN chain[d] \subseteq DOMAIN chain'[d]
        BY <1>3, <4>1
      <4>3. \A e \in Decisions \ {d} : chain'[e] = chain[e]
        BY <1>3
      <4>4. \A i \in DOMAIN chain[d] : chain'[d][i] = chain[d][i]
        BY <1>3
      <4> QED BY <4>2, <4>3, <4>4
    <3>3. ASSUME requests[v].pc = "created"
          PROVE  \/ requests[v].realized = realized_action(requests[v].decision)'
                 \/ v \in Systems /\ requests[v].realized = Pending
      <4>1. PICK e \in Decisions : e = requests[v].decision
        BY <3>1, <3>3 DEF ResolverHolds
      <4>2. realized_action(e) # Pending => realized_action(e)' = realized_action(e)
        BY <1>4
      <4>3. CASE realized_action(e) # Pending
        BY <3>1, <3>3, <4>1, <4>2, <4>3 DEF ResolverHolds
      <4>4. CASE realized_action(e) = Pending
        <5>1. v \in Systems
          <6>1. SUFFICES ASSUME v \notin Systems PROVE FALSE
            OBVIOUS
          <6>2. requests[v].sequence \in TerminalAttempts(e)
            BY <3>1, <3>3, <4>1, <6>1 DEF ResolverHolds, TerminalAttempts
          <6>3. realized_action(e) \in Terminal
            <7>1. (CHOOSE i \in TerminalAttempts(e) : \A j \in TerminalAttempts(e) : i <= j)
                    \in TerminalAttempts(e)
              BY <6>2 DEF ResolutionInv, FirstExists
            <7> QED BY <6>2, <7>1 DEF realized_action, TerminalAttempts
          <6> QED BY <4>4, <6>3, Vocabulary
        <5> QED BY <3>1, <3>3, <4>1, <4>4, <5>1 DEF ResolverHolds
      <4> QED BY <4>3, <4>4
    <3> QED BY <3>1, <3>2, <3>3 DEF ResolverHolds
  <2> QED BY <2>1, <2>2
<1>11. NumbersDiffer'
  <2> SUFFICES ASSUME NEW v \in Resolvers, NEW u \in Resolvers, v # u,
                      requests'[v].pc \in {"recorded", "created"},
                      requests'[u].pc \in {"recorded", "created"},
                      requests'[v].decision = requests'[u].decision
               PROVE  requests'[v].sequence # requests'[u].sequence
    BY DEF NumbersDiffer
  <2>1. \A x \in Resolvers \ {w} :
          (requests[x].pc \in {"recorded", "created"} /\ requests[x].decision = d)
            => requests[x].sequence # n
    BY <1>3 DEF ResolutionInv, ResolverHolds
  <2>2. CASE v = w
    BY <2>1, <2>2, <1>6, <1>7
  <2>3. CASE u = w
    BY <2>1, <2>3, <1>6, <1>7
  <2>4. CASE v # w /\ u # w
    BY <2>4, <1>6 DEF ResolutionInv, NumbersDiffer
  <2> QED BY <2>2, <2>3, <2>4
<1> QED BY <1>4, <1>8, <1>9, <1>10, <1>11 DEF ResolutionInv

LEMMA CrashStep ==
    ASSUME ResolutionInv, Crash
    PROVE  ResolutionInv'
<1>1. requests \in [Resolvers -> Requested] /\ UNCHANGED chain
  BY DEF ResolutionInv, JournalTypeOK, Requested, Crash
<1>2. ASSUME NEW w \in Resolvers
      PROVE  /\ requests'[w] \in Requested
             /\ \/ requests'[w] = requests[w]
                \/ requests'[w].pc = "lost"
  BY <1>1 DEF Crash, Requested, Answers
<1>3. requests' \in [Resolvers -> Requested]
  <2>1. DOMAIN requests' = Resolvers /\ requests' = [w \in Resolvers |-> requests'[w]]
    BY DEF Crash
  <2> QED BY <1>2, <2>1
<1>4. JournalTypeOK'
  BY <1>1, <1>3 DEF ResolutionInv, JournalTypeOK, Requested
<1>5. Gapless' /\ FirstExists'
  BY <1>1 DEF ResolutionInv, Gapless, FirstExists, TerminalAttempts
<1>6. ASSUME NEW w \in Resolvers PROVE ResolverHolds(w)'
  <2>1. ResolverHolds(w)
    BY DEF ResolutionInv
  <2>2. CASE requests'[w].pc = "lost"
    BY <2>2 DEF ResolverHolds
  <2>3. CASE requests'[w] = requests[w]
    <3>1. \A d : realized_action(d)' = realized_action(d)
      BY <1>1 DEF realized_action, TerminalAttempts
    <3> QED BY <1>1, <2>1, <2>3, <3>1 DEF ResolverHolds
  <2> QED BY <1>2, <2>2, <2>3
<1>7. NumbersDiffer'
  BY <1>2 DEF ResolutionInv, NumbersDiffer
<1> QED BY <1>4, <1>5, <1>6, <1>7 DEF ResolutionInv

LEMMA StutterStep ==
    ASSUME ResolutionInv, UNCHANGED journalVars
    PROVE  ResolutionInv'
<1>1. UNCHANGED <<chain, requests>>
  BY DEF journalVars
<1>2. \A d : realized_action(d)' = realized_action(d)
  BY <1>1 DEF realized_action, TerminalAttempts
<1> QED BY <1>1, <1>2 DEF ResolutionInv, JournalTypeOK, Gapless, FirstExists, TerminalAttempts,
                         ResolverHolds, NumbersDiffer

LEMMA ResolutionStep == ResolutionInv /\ [JournalNext]_journalVars => ResolutionInv'
<1> SUFFICES ASSUME ResolutionInv, [JournalNext]_journalVars PROVE ResolutionInv'
  OBVIOUS
<1>1. ASSUME NEW w \in Requests, NEW d \in Decisions, NEW action \in Terminal,
             Check(w, d, action)
      PROVE  ResolutionInv'
  BY <1>1, CheckStep
<1>2. ASSUME NEW w \in Systems, NEW d \in Decisions, NEW action \in Terminal \cup {Pending},
             Open(w, d, action)
      PROVE  ResolutionInv'
  BY <1>2, OpenStep
<1>3. ASSUME NEW w \in Resolvers, ReadSequence(w) PROVE ResolutionInv'
  BY <1>3, ReadSequenceStep
<1>4. ASSUME NEW w \in Resolvers, Record(w) PROVE ResolutionInv'
  BY <1>4, RecordStep
<1>5. ASSUME NEW w \in Resolvers, Conflict(w) PROVE ResolutionInv'
  BY <1>5, ConflictStep
<1>6. ASSUME NEW w \in Resolvers, Receipt(w) PROVE ResolutionInv'
  BY <1>6, ReceiptStep
<1>7. CASE Crash
  BY <1>7, CrashStep
<1>8. CASE UNCHANGED journalVars
  BY <1>8, StutterStep
<1> QED BY <1>1, <1>2, <1>3, <1>4, <1>5, <1>6, <1>7, <1>8 DEF JournalNext

-----------------------------------------------------------------------------
(* The theorems. *)

\* Every reachable state of the journal satisfies the inductive invariant.
THEOREM ResolutionInvariance == JournalSpec => []ResolutionInv
<1>1. JournalInit => ResolutionInv
  BY ResolutionInitInv
<1>2. ResolutionInv /\ [JournalNext]_journalVars => ResolutionInv'
  BY ResolutionStep
<1> QED BY <1>1, <1>2, PTL DEF JournalSpec

\* The chain, the resolvers and what they read keep their types.
THEOREM JournalTypeCorrect == JournalSpec => []JournalTypeOK
<1>1. ResolutionInv => JournalTypeOK
  BY DEF ResolutionInv
<1> QED BY <1>1, ResolutionInvariance, PTL

\* The attempts of a decision are numbered 0, 1, 2, ... whoever raced for a
\* number (the unique pair of 02_tables.sql and the length read before it).
THEOREM NoGap == JournalSpec => []ChainHasNoGap
<1>1. ResolutionInv => ChainHasNoGap
  BY LengthIsNext DEF ChainHasNoGap
<1> QED BY <1>1, ResolutionInvariance, PTL

\* A 201 receipt is never contradicted: its attempt stays in the chain under
\* its own number, and the realized action it reports is the decision's.
THEOREM ReceiptsHold == JournalSpec => []ReceiptsStand
<1>1. ResolutionInv => ReceiptsStand
  BY DEF ResolutionInv, ReceiptsStand, ResolverHolds, NumbersDiffer
<1> QED BY <1>1, ResolutionInvariance, PTL

\* The journal implements Realization: what realized_action reads from the
\* chain is chosen at most once for each decision and then stands.
THEOREM ImplementsRealization == JournalSpec => RealizedOnce
<1> DEFINE read == [d \in Decisions |-> realized_action(d)]
<1>1. JournalInit => Realized!Init
  <2> SUFFICES ASSUME JournalInit, NEW d \in Decisions
               PROVE  realized_action(d) = IF DecisionActionOf[d] \in Terminal
                                           THEN DecisionActionOf[d] ELSE Pending
    BY DEF Realized!Init
  <2>1. TerminalAttempts(d) = {}
    BY DEF JournalInit, TerminalAttempts
  <2> QED BY <2>1 DEF realized_action
<1>2. ResolutionInv /\ [JournalNext]_journalVars => [Realized!Next]_read
  <2> SUFFICES ASSUME ResolutionInv, [JournalNext]_journalVars
               PROVE  [Realized!Next]_read
    OBVIOUS
  <2>1. CASE UNCHANGED chain
    BY <2>1 DEF realized_action, TerminalAttempts
  <2>2. ASSUME NEW w \in Resolvers, Record(w) PROVE [Realized!Next]_read
    <3>1. PICK d \in Decisions : d = requests[w].decision
      BY <2>2 DEF ResolutionInv, ResolverHolds, Record
    <3>2. /\ \A e \in Decisions \ {d} : realized_action(e)' = realized_action(e)
          /\ realized_action(d)' = IF realized_action(d) = Pending THEN requests[w].action
                                   ELSE realized_action(d)
          /\ requests[w].action \in Terminal \cup {Pending}
      BY <2>2, <3>1, FirstStands
    <3>3. CASE realized_action(d) = Pending /\ requests[w].action \in Terminal
      <4>1. read' = [read EXCEPT ![d] = requests[w].action]
        BY <3>1, <3>2, <3>3
      <4> QED BY <3>1, <3>3, <4>1 DEF Realized!Next, Realized!Choose
    <3>4. CASE ~(realized_action(d) = Pending /\ requests[w].action \in Terminal)
      BY <3>1, <3>2, <3>4
    <3> QED BY <3>3, <3>4
  <2>3. UNCHANGED chain \/ \E w \in Resolvers : Record(w)
    BY DEF JournalNext, journalVars, Check, Open, ReadSequence, Conflict, Receipt, Crash
  <2> QED BY <2>1, <2>2, <2>3
<1> QED BY <1>1, <1>2, ResolutionInvariance, PTL DEF JournalSpec, RealizedOnce, Realized!Spec

-----------------------------------------------------------------------------
(* Identity: the operations. *)

Ops == [at : Times, position : 0 .. MaxEvents, opens : BOOLEAN, link : Links]
Closed == [link : Links, from : Times, to : Times]
FoldStates == [since : [Links -> {Never} \cup Times], intervals : SUBSET Closed]
Base == [since |-> [l \in Links |-> Never], intervals |-> {}]

\* The operations on one link are ordered.
LinkOrdered(ops) ==
    \A p, q \in ops : p.link = q.link /\ p # q => Before(p, q) \/ Before(q, p)

LEMMA OpsAreFinite == IsFiniteSet(Ops)
<1> DEFINE Pairs == ((Times \X (0 .. MaxEvents)) \X (BOOLEAN \X Links))
           f == [p \in Pairs |-> [at |-> p[1][1], position |-> p[1][2], opens |-> p[2][1],
                                  link |-> p[2][2]]]
<1>1. IsFiniteSet(Times) /\ IsFiniteSet(0 .. MaxEvents)
  BY JournalConstants, FS_Interval DEF Times
<1>2. IsFiniteSet(BOOLEAN)
  <2>1. BOOLEAN = {TRUE} \cup {FALSE} /\ IsFiniteSet({TRUE})
    BY FS_Singleton
  <2> QED BY <2>1, FS_AddElement
<1>3. IsFiniteSet(Links)
  BY JournalConstants
<1>4. IsFiniteSet(Times \X (0 .. MaxEvents)) /\ IsFiniteSet(BOOLEAN \X Links)
  BY <1>1, <1>2, <1>3, FS_Product
<1>5. IsFiniteSet(Pairs)
  BY <1>4, FS_Product
<1>6. f \in Surjection(Pairs, Ops)
  <2>1. f \in [Pairs -> Ops]
    BY DEF Ops
  <2>2. ASSUME NEW op \in Ops PROVE \E p \in Pairs : f[p] = op
    <3> DEFINE p == <<<<op.at, op.position>>, <<op.opens, op.link>>>>
    <3>1. p \in Pairs /\ op = [at |-> op.at, position |-> op.position, opens |-> op.opens,
                               link |-> op.link]
      BY DEF Ops
    <3>2. f[p] = op
      BY <3>1
    <3> HIDE DEF p, f, Pairs
    <3> QED BY <3>1, <3>2
  <2> HIDE DEF f, Pairs
  <2> QED BY <2>1, <2>2 DEF Surjection
<1> HIDE DEF f, Pairs
<1> QED BY <1>5, <1>6, FS_Surjection

\* Before is a strict order of instants and positions.
LEMMA BeforeIsOrder ==
    ASSUME NEW p \in Ops, NEW q \in Ops, NEW r \in Ops
    PROVE  /\ ~Before(p, p)
           /\ Before(p, q) /\ Before(q, r) => Before(p, r)
           /\ ~Before(q, p) => p.at <= q.at
<1>1. /\ p.at \in Int /\ q.at \in Int /\ r.at \in Int
      /\ p.position \in Int /\ q.position \in Int /\ r.position \in Int
  BY JournalConstants DEF Ops, Times
<1> QED BY <1>1 DEF Before

\* Among operations that are not none there is one that is applied last.
LEMMA LastOfPicks ==
    ASSUME NEW ops \in SUBSET Ops, ops # {}
    PROVE  LastOf(ops) \in ops /\ \A q \in ops : ~Before(LastOf(ops), q)
<1> DEFINE Some == [S \in SUBSET ops |-> CHOOSE op \in S : TRUE]
           G == {S \in SUBSET ops : S # {} => \E m \in S : \A q \in S : ~Before(m, q)}
<1>1. IsFiniteSet(ops)
  BY OpsAreFinite, FS_Subset
<1>2. Picks(Some, ops)
  BY DEF Picks
<1>3. {} \in G
  OBVIOUS
<1>4. ASSUME NEW S \in SUBSET ops, S # {}, S \ {Some[S]} \in G PROVE S \in G
  <2> DEFINE x == Some[S]
             T == S \ {x}
  <2>1. x \in S /\ x \in Ops
    BY <1>2, <1>4 DEF Picks
  <2> HIDE DEF Some, x
  <2>2. CASE T = {}
    <3>1. \A q \in S : q = x
      BY <2>2
    <3> QED BY <2>1, <3>1, BeforeIsOrder
  <2>3. CASE T # {}
    <3>1. PICK m \in T : \A q \in T : ~Before(m, q)
      BY <1>4, <2>3 DEF x
    <3>2. CASE Before(m, x)
      <4>1. \A q \in T : ~Before(x, q)
        BY <2>1, <3>1, <3>2, BeforeIsOrder
      <4>2. \A q \in S : ~Before(x, q)
        BY <2>1, <4>1, BeforeIsOrder
      <4> QED BY <2>1, <4>2
    <3>3. CASE ~Before(m, x)
      <4>1. \A q \in S : ~Before(m, q)
        BY <3>1, <3>3
      <4> QED BY <3>1, <4>1
    <3> QED BY <3>2, <3>3
  <2> QED BY <2>2, <2>3
<1> HIDE DEF Some, G
<1>5. SUBSET ops \subseteq G
  BY <1>1, <1>2, <1>3, <1>4, OverSubsets
<1>6. \E m \in ops : \A q \in ops : ~Before(m, q)
  BY <1>5 DEF G
<1> QED BY <1>6 DEF LastOf

\* An applied operation leaves a state of the fold.
LEMMA ApplyTyped ==
    ASSUME NEW state \in FoldStates, NEW op \in Ops PROVE Apply(state, op) \in FoldStates
<1>1. op.at \in Times /\ op.link \in Links /\ Never \notin Times
  BY DEF Ops, Times, Never
<1> DEFINE since == state.since[op.link]
<1>2. since \in {Never} \cup Times
  BY <1>1 DEF FoldStates
<1>3. CASE op.opens
  <2> DEFINE at == IF since = Never THEN op.at ELSE since
  <2>1. Apply(state, op) = [state EXCEPT !.since[op.link] = at]
    BY <1>3 DEF Apply
  <2>2. at \in {Never} \cup Times
    BY <1>1, <1>2
  <2> HIDE DEF at
  <2> QED BY <1>1, <2>1, <2>2 DEF FoldStates
<1>4. CASE ~op.opens
  <2> DEFINE more == IF since = Never \/ op.at = since THEN {}
                     ELSE {[link |-> op.link, from |-> since, to |-> op.at]}
  <2>1. Apply(state, op) = [state EXCEPT !.since[op.link] = Never, !.intervals = @ \cup more]
    BY <1>4 DEF Apply
  <2>2. more \in SUBSET Closed
    BY <1>1, <1>2 DEF Closed
  <2> HIDE DEF more
  <2> QED BY <1>1, <2>1, <2>2 DEF FoldStates
<1> QED BY <1>3, <1>4

\* The projection is what a fold over the subsets of the operations ends in.
FoldsOver(iter, ops) ==
    /\ iter[{}] = Base
    /\ \A S \in SUBSET ops : S # {} => iter[S] = Apply(iter[S \ {LastOf(S)}], LastOf(S))

Whole(state) ==
    state.intervals \cup {[link |-> l, from |-> state.since[l], to |-> NoEnd] :
                            l \in {k \in Links : state.since[k] # Never}}

LEMMA ProjectionFolds ==
    ASSUME NEW journal, NEW asserted, Operations(journal, asserted) \in SUBSET Ops
    PROVE  \E iter : /\ FoldsOver(iter, Operations(journal, asserted))
                     /\ project_membership(journal, asserted) =
                          Whole(iter[Operations(journal, asserted)])
<1> DEFINE ops == Operations(journal, asserted)
           Recurs(iter) == iter = [S \in SUBSET ops |->
                                     IF S = {} THEN Base
                                     ELSE Apply(iter[S \ {LastOf(S)}], LastOf(S))]
           iter == CHOOSE h : Recurs(h)
           end == iter[ops]
<1>1. project_membership(journal, asserted) = Whole(end)
  BY DEF project_membership, MapThenFoldSet, Whole, Base
<1> HIDE DEF ops
<1>2. IsFiniteSet(ops) /\ ops \in SUBSET Ops
  BY OpsAreFinite, FS_Subset DEF ops
<1> DEFINE pick == [S \in SUBSET ops |-> LastOf(S)]
           step == [op \in ops |-> [state \in FoldStates |-> Apply(state, op)]]
<1>3. \E h : Recurs(h)
  <2>1. Picks(pick, ops)
    BY <1>2, LastOfPicks DEF Picks
  <2>2. step \in [ops -> [FoldStates -> FoldStates]]
    BY <1>2, ApplyTyped
  <2>3. Base \in FoldStates
    BY DEF Base, FoldStates
  <2>4. PICK g : SetFoldOf(g, ops, FoldStates, Base, step, pick)
    <3> HIDE DEF pick, step
    <3> QED BY <1>2, <2>1, <2>2, <2>3, SetFoldExists
  <2>5. g \in [SUBSET ops -> FoldStates] /\ g[{}] = Base
    BY <2>4 DEF SetFoldOf
  <2>6. ASSUME NEW S \in SUBSET ops, S # {}
        PROVE  g[S] = Apply(g[S \ {LastOf(S)}], LastOf(S))
    <3>1. g[S] = step[pick[S]][g[S \ {pick[S]}]]
      BY <2>4, <2>6 DEF SetFoldOf
    <3>2. pick[S] = LastOf(S) /\ LastOf(S) \in ops /\ g[S \ {LastOf(S)}] \in FoldStates
      BY <1>2, <2>5, <2>6, LastOfPicks
    <3> HIDE DEF pick
    <3> QED BY <3>1, <3>2
  <2>7. Recurs(g)
    <3> HIDE DEF step, pick
    <3> QED BY <2>5, <2>6
  <2> HIDE DEF Recurs
  <2> QED BY <2>7
<1>4. Recurs(iter)
  <2> HIDE DEF Recurs
  <2> QED BY <1>3
<1> HIDE DEF iter
<1>5. FoldsOver(iter, ops)
  BY <1>4 DEF FoldsOver
<1> QED BY <1>1, <1>5 DEF ops

-----------------------------------------------------------------------------
(* The fold is the history. *)

Upto(ops, l, t) == {op \in ops : op.link = l /\ op.at <= t}
LastOpens(ops, l, t) ==
    \E op \in Upto(ops, l, t) : op.opens /\ \A q \in Upto(ops, l, t) : ~Before(op, q)
Holding(intervals, l, t) == {m \in intervals : m.link = l /\ m.from <= t /\ t < m.to}

\* What an operation that is applied last changes: its own link, from its
\* instant on.
LEMMA LastOpensMoves ==
    ASSUME NEW ops \in SUBSET Ops, LinkOrdered(ops), NEW m \in ops, \A q \in ops : ~Before(m, q),
           NEW l \in Links, NEW t \in Times
    PROVE  /\ (l # m.link \/ t < m.at) => (LastOpens(ops, l, t) <=> LastOpens(ops \ {m}, l, t))
           /\ (l = m.link /\ m.at <= t) => (LastOpens(ops, l, t) <=> m.opens)
           /\ m.at <= t => (LastOpens(ops \ {m}, l, t) <=> LastOpens(ops \ {m}, l, MaxTime))
           /\ MaxTime \in Times /\ m.at <= MaxTime
<1>1. /\ t \in Int /\ m.at \in Int /\ MaxTime \in Int /\ t <= MaxTime /\ m.at <= MaxTime
      /\ MaxTime \in Times
  BY JournalConstants DEF Ops, Times
<1>2. \A q \in ops : q.at \in Int /\ q.at <= m.at
  <2>1. ASSUME NEW q \in ops PROVE q.at \in Int /\ q.at <= m.at
    <3>1. q \in Ops /\ m \in Ops /\ ~Before(m, q)
      OBVIOUS
    <3> QED BY <3>1, BeforeIsOrder DEF Ops, Times
  <2> QED BY <2>1
<1>3. ASSUME l # m.link \/ t < m.at
      PROVE  LastOpens(ops, l, t) <=> LastOpens(ops \ {m}, l, t)
  <2>1. Upto(ops, l, t) = Upto(ops \ {m}, l, t)
    BY <1>1, <1>3 DEF Upto
  <2> QED BY <2>1 DEF LastOpens
<1>4. ASSUME l = m.link, m.at <= t PROVE LastOpens(ops, l, t) <=> m.opens
  <2>1. m \in Upto(ops, l, t) /\ Upto(ops, l, t) \subseteq ops
    BY <1>4 DEF Upto
  <2>2. ASSUME m.opens PROVE LastOpens(ops, l, t)
    BY <2>1, <2>2 DEF LastOpens
  <2>3. ASSUME LastOpens(ops, l, t) PROVE m.opens
    <3>1. PICK op \in Upto(ops, l, t) : op.opens /\ \A q \in Upto(ops, l, t) : ~Before(op, q)
      BY <2>3 DEF LastOpens
    <3>2. op \in ops /\ op.link = m.link /\ ~Before(op, m) /\ ~Before(m, op)
      BY <1>4, <2>1, <3>1 DEF Upto
    <3>3. op = m
      BY <3>2 DEF LinkOrdered
    <3> QED BY <3>1, <3>3
  <2> QED BY <2>2, <2>3
<1>5. ASSUME m.at <= t
      PROVE  LastOpens(ops \ {m}, l, t) <=> LastOpens(ops \ {m}, l, MaxTime)
  <2>1. \A q \in ops : q.at <= t /\ q.at <= MaxTime
    BY <1>1, <1>2, <1>5
  <2>2. Upto(ops \ {m}, l, t) = Upto(ops \ {m}, l, MaxTime)
    BY <2>1 DEF Upto
  <2> QED BY <2>2 DEF LastOpens
<1> QED BY <1>1, <1>3, <1>4, <1>5

\* What a state of the fold says of the operations it folded.
Tells(state, ops) ==
    /\ state \in FoldStates
    /\ \A l \in Links : state.since[l] # Never => \E op \in ops : op.at = state.since[l]
    /\ \A l \in Links : state.since[l] # Never <=> LastOpens(ops, l, MaxTime)
    /\ \A l \in Links, t \in Times :
         /\ \A m1, m2 \in Holding(Whole(state), l, t) : m1 = m2
         /\ Holding(Whole(state), l, t) # {} <=> LastOpens(ops, l, t)

\* An open interval holds from its start on.
LEMMA OpenHolds ==
    ASSUME NEW state \in FoldStates, NEW l \in Links, state.since[l] # Never, NEW t \in Times,
           state.since[l] <= t
    PROVE  [link |-> l, from |-> state.since[l], to |-> NoEnd] \in Holding(Whole(state), l, t)
<1> DEFINE i == [link |-> l, from |-> state.since[l], to |-> NoEnd]
<1>1. i \in Whole(state)
  BY DEF Whole
<1>2. t < NoEnd
  BY JournalConstants DEF Times, NoEnd
<1>3. i.link = l /\ i.from = state.since[l] /\ i.to = NoEnd
  OBVIOUS
<1> HIDE DEF i
<1>4. i \in Holding(Whole(state), l, t)
  BY <1>1, <1>2, <1>3 DEF Holding
<1> QED BY <1>4 DEF i

LEMMA OpeningTells ==
    ASSUME NEW ops \in SUBSET Ops, LinkOrdered(ops), NEW m \in ops, \A q \in ops : ~Before(m, q),
           m.opens, NEW state, Tells(state, ops \ {m})
    PROVE  Tells(Apply(state, m), ops)
<1> DEFINE k == m.link
           s2 == Apply(state, m)
           since == IF state.since[k] = Never THEN m.at ELSE state.since[k]
<1>1. /\ m \in Ops /\ state \in FoldStates /\ k \in Links /\ m.at \in Times
      /\ MaxTime \in Times /\ m.at <= MaxTime
  BY LastOpensMoves DEF Tells, Ops
<1>2. s2 = [state EXCEPT !.since[k] = since]
  BY DEF Apply
<1>3. s2 \in FoldStates
  BY <1>1, ApplyTyped
<1>4. /\ s2.intervals = state.intervals /\ s2.since[k] = since
      /\ \A l \in Links : l # k => s2.since[l] = state.since[l]
  BY <1>1, <1>2 DEF FoldStates
<1>5. since \in Times /\ since # Never /\ m.at # Never
  BY <1>1 DEF FoldStates, Times, Never
<1> HIDE DEF s2, k
\* An operation that was applied before is not later.
<1>6. \A q \in ops : q.at <= m.at
  <2>1. ASSUME NEW q \in ops PROVE q.at <= m.at
    <3>1. q \in Ops /\ ~Before(m, q)
      OBVIOUS
    <3> QED BY <1>1, <3>1, BeforeIsOrder
  <2> QED BY <2>1
<1>7. since <= m.at
  <2>1. CASE state.since[k] = Never
    <3>1. m.at <= m.at
      BY <1>1 DEF Times
    <3> QED BY <2>1, <3>1
  <2>2. CASE state.since[k] # Never
    <3>1. PICK op \in ops \ {m} : op.at = state.since[k]
      BY <1>1, <2>2 DEF Tells
    <3> QED BY <1>6, <2>2, <3>1
  <2> QED BY <2>1, <2>2
<1> HIDE DEF since
<1>8. \A l \in Links : s2.since[l] # Never => \E op \in ops : op.at = s2.since[l]
  <2> SUFFICES ASSUME NEW l \in Links, s2.since[l] # Never
               PROVE  \E op \in ops : op.at = s2.since[l]
    OBVIOUS
  <2>1. CASE state.since[l] # Never
    <3>1. s2.since[l] = state.since[l]
      BY <1>4, <2>1 DEF since
    <3> QED BY <2>1, <3>1 DEF Tells
  <2>2. CASE state.since[l] = Never
    <3>1. l = k /\ s2.since[l] = m.at
      BY <1>4, <2>2 DEF since
    <3> QED BY <3>1
  <2> QED BY <2>1, <2>2
<1>9. \A l \in Links : s2.since[l] # Never <=> LastOpens(ops, l, MaxTime)
  <2> SUFFICES ASSUME NEW l \in Links
               PROVE  s2.since[l] # Never <=> LastOpens(ops, l, MaxTime)
    OBVIOUS
  <2>1. CASE l = k
    <3>1. LastOpens(ops, l, MaxTime)
      BY <1>1, <2>1, LastOpensMoves DEF k
    <3> QED BY <1>4, <1>5, <2>1, <3>1
  <2>2. CASE l # k
    <3>1. LastOpens(ops, l, MaxTime) <=> LastOpens(ops \ {m}, l, MaxTime)
      BY <1>1, <2>2, LastOpensMoves DEF k
    <3> QED BY <1>4, <2>2, <3>1 DEF Tells
  <2> QED BY <2>1, <2>2
<1> DEFINE new == [link |-> k, from |-> m.at, to |-> NoEnd]
\* The open interval begins now or goes on.
<1>10. \A i : i \in Whole(s2) <=> (i \in Whole(state) \/ (state.since[k] = Never /\ i = new))
  <2>1. \A i : i \in Whole(s2) <=>
          \/ i \in state.intervals
          \/ \E l \in Links : s2.since[l] # Never /\ i = [link |-> l, from |-> s2.since[l], to |-> NoEnd]
    BY <1>4 DEF Whole
  <2>2. \A i : i \in Whole(state) <=>
          \/ i \in state.intervals
          \/ \E l \in Links : state.since[l] # Never /\ i = [link |-> l, from |-> state.since[l], to |-> NoEnd]
    BY DEF Whole
  <2>3. \A l \in Links : state.since[l] # Never => s2.since[l] = state.since[l]
    BY <1>4 DEF since
  <2>4. \A l \in Links : state.since[l] = Never /\ s2.since[l] # Never => l = k /\ s2.since[l] = m.at
    BY <1>4 DEF since
  <2>5. state.since[k] = Never => s2.since[k] = m.at /\ s2.since[k] # Never /\ k \in Links
    BY <1>1, <1>4, <1>5 DEF since, k
  <2> QED BY <2>1, <2>2, <2>3, <2>4, <2>5
<1>11. ASSUME NEW l \in Links, NEW t \in Times
       PROVE  /\ \A m1, m2 \in Holding(Whole(s2), l, t) : m1 = m2
              /\ Holding(Whole(s2), l, t) # {} <=> LastOpens(ops, l, t)
  <2>1. /\ \A m1, m2 \in Holding(Whole(state), l, t) : m1 = m2
        /\ Holding(Whole(state), l, t) # {} <=> LastOpens(ops \ {m}, l, t)
    BY DEF Tells
  <2>2. t \in Int /\ m.at \in Int
    BY <1>1 DEF Times
  <2>3. CASE l # k \/ t < m.at
    <3>1. LastOpens(ops, l, t) <=> LastOpens(ops \ {m}, l, t)
      BY <2>3, LastOpensMoves DEF k
    <3>2. ~(new.link = l /\ new.from <= t)
      BY <2>3, <2>2
    <3>3. \A i : i \in Holding(Whole(s2), l, t) <=> i \in Holding(Whole(state), l, t)
      <4> HIDE DEF new
      <4> QED BY <1>10, <3>2 DEF Holding
    <3> QED BY <2>1, <3>1, <3>3
  <2>4. CASE l = k /\ ~(t < m.at)
    <3>1. m.at <= t
      BY <2>4, <2>2
    <3>2. LastOpens(ops, l, t)
      BY <2>4, <3>1, LastOpensMoves DEF k
    <3>3. Holding(Whole(s2), l, t) # {}
      <4>1. since <= t
        BY <1>5, <1>7, <2>2, <3>1 DEF Times
      <4> QED BY <1>1, <1>3, <1>4, <1>5, <2>4, <4>1, OpenHolds
    <3>4. \A m1, m2 \in Holding(Whole(s2), l, t) : m1 = m2
      <4>1. CASE state.since[k] # Never
        <5>1. \A i : i \in Holding(Whole(s2), l, t) <=> i \in Holding(Whole(state), l, t)
          BY <1>10, <4>1 DEF Holding
        <5> QED BY <2>1, <5>1
      <4>2. CASE state.since[k] = Never
        <5>1. ~LastOpens(ops \ {m}, l, MaxTime)
          BY <1>1, <2>4, <4>2 DEF Tells
        <5>2. Holding(Whole(state), l, t) = {}
          BY <2>1, <3>1, <5>1, LastOpensMoves
        <5>3. \A i : i \in Holding(Whole(s2), l, t) => i \in Holding(Whole(state), l, t) \/ i = new
          <6> HIDE DEF new
          <6> QED BY <1>10 DEF Holding
        <5> HIDE DEF new
        <5> QED BY <5>2, <5>3
      <4> QED BY <4>1, <4>2
    <3> QED BY <3>2, <3>3, <3>4
  <2> QED BY <2>3, <2>4
<1>12. Tells(s2, ops)
  BY <1>3, <1>8, <1>9, <1>11 DEF Tells
<1> QED BY <1>12 DEF s2

LEMMA ClosingTells ==
    ASSUME NEW ops \in SUBSET Ops, LinkOrdered(ops), NEW m \in ops, \A q \in ops : ~Before(m, q),
           ~m.opens, NEW state, Tells(state, ops \ {m})
    PROVE  Tells(Apply(state, m), ops)
<1> DEFINE k == m.link
           s2 == Apply(state, m)
           since == state.since[k]
           ended == [link |-> k, from |-> since, to |-> m.at]
           open == [link |-> k, from |-> since, to |-> NoEnd]
           more == IF since = Never \/ m.at = since THEN {} ELSE {ended}
<1>1. /\ m \in Ops /\ state \in FoldStates /\ k \in Links /\ m.at \in Times
      /\ MaxTime \in Times /\ m.at <= MaxTime
  BY LastOpensMoves DEF Tells, Ops
<1>2. s2 = [state EXCEPT !.since[k] = Never, !.intervals = @ \cup more]
  BY DEF Apply
<1>3. s2 \in FoldStates
  BY <1>1, ApplyTyped
<1> HIDE DEF more
<1>4. /\ s2.intervals = state.intervals \cup more /\ s2.since[k] = Never
      /\ \A l \in Links : l # k => s2.since[l] = state.since[l]
  BY <1>1, <1>2 DEF FoldStates
<1> USE DEF more
<1>5. since \in {Never} \cup Times
  BY <1>1 DEF FoldStates
<1> HIDE DEF s2, k
<1>6. since # Never => since <= m.at
  <2> SUFFICES ASSUME since # Never PROVE since <= m.at
    OBVIOUS
  <2>1. PICK op \in ops \ {m} : op.at = since
    BY <1>1 DEF Tells
  <2>2. op \in Ops /\ ~Before(m, op)
    BY <2>1
  <2> QED BY <1>1, <2>1, <2>2, BeforeIsOrder
<1>7. \A l \in Links : s2.since[l] # Never => \E op \in ops : op.at = s2.since[l]
  <2> SUFFICES ASSUME NEW l \in Links, s2.since[l] # Never
               PROVE  \E op \in ops : op.at = s2.since[l]
    OBVIOUS
  <2>1. s2.since[l] = state.since[l]
    BY <1>4
  <2> QED BY <2>1 DEF Tells
<1>8. \A l \in Links : s2.since[l] # Never <=> LastOpens(ops, l, MaxTime)
  <2> SUFFICES ASSUME NEW l \in Links
               PROVE  s2.since[l] # Never <=> LastOpens(ops, l, MaxTime)
    OBVIOUS
  <2>1. CASE l = k
    <3>1. ~LastOpens(ops, l, MaxTime)
      BY <1>1, <2>1, LastOpensMoves DEF k
    <3> QED BY <1>4, <2>1, <3>1
  <2>2. CASE l # k
    <3>1. LastOpens(ops, l, MaxTime) <=> LastOpens(ops \ {m}, l, MaxTime)
      BY <1>1, <2>2, LastOpensMoves DEF k
    <3> QED BY <1>4, <2>2, <3>1 DEF Tells
  <2> QED BY <2>1, <2>2
<1> HIDE DEF since, more
\* The open interval, if there is one, ends; an empty one is no interval.
<1>9. \A i : i \in Whole(s2) <=> (i \in Whole(state) /\ ~(since # Never /\ i = open)) \/ i \in more
  <2>1. \A i : i \in Whole(s2) <=>
          \/ i \in state.intervals \/ i \in more
          \/ \E l \in Links : s2.since[l] # Never /\ i = [link |-> l, from |-> s2.since[l], to |-> NoEnd]
    BY <1>4 DEF Whole
  <2>2. \A i : i \in Whole(state) <=>
          \/ i \in state.intervals
          \/ \E l \in Links : state.since[l] # Never /\ i = [link |-> l, from |-> state.since[l], to |-> NoEnd]
    BY DEF Whole
  <2>3. \A l \in Links : s2.since[l] # Never => l # k /\ s2.since[l] = state.since[l]
    BY <1>4
  <2>4. \A l \in Links : l # k => s2.since[l] = state.since[l]
    BY <1>4
  <2>5. open \notin state.intervals
    <3>1. NoEnd \notin Times
      BY JournalConstants DEF NoEnd, Times
    <3>2. \A i \in state.intervals : i.to \in Times
      BY <1>1 DEF FoldStates, Closed
    <3>3. open.to = NoEnd
      OBVIOUS
    <3> HIDE DEF open
    <3> QED BY <3>1, <3>2, <3>3
  <2>6. \A l \in Links : [link |-> l, from |-> state.since[l], to |-> NoEnd] = open <=> l = k
    BY DEF since
  <2> HIDE DEF open
  <2> QED BY <2>1, <2>2, <2>3, <2>4, <2>5, <2>6 DEF since
<1>10. ASSUME NEW l \in Links, NEW t \in Times
       PROVE  /\ \A m1, m2 \in Holding(Whole(s2), l, t) : m1 = m2
              /\ Holding(Whole(s2), l, t) # {} <=> LastOpens(ops, l, t)
  <2>1. /\ \A m1, m2 \in Holding(Whole(state), l, t) : m1 = m2
        /\ Holding(Whole(state), l, t) # {} <=> LastOpens(ops \ {m}, l, t)
    BY DEF Tells
  <2>2. t \in Int /\ m.at \in Int /\ t < NoEnd
    BY <1>1, JournalConstants DEF Times, NoEnd
  <2>3. ended.link = k /\ ended.from = since /\ ended.to = m.at
        /\ open.link = k /\ open.from = since /\ open.to = NoEnd
    OBVIOUS
  <2>4. \A i : i \in Holding(Whole(s2), l, t) <=>
          /\ (i \in Whole(state) /\ ~(since # Never /\ i = open)) \/ i \in more
          /\ i.link = l /\ i.from <= t /\ t < i.to
    BY <1>9 DEF Holding
  <2>5. \A i : i \in Holding(Whole(state), l, t) <=>
          i \in Whole(state) /\ i.link = l /\ i.from <= t /\ t < i.to
    BY DEF Holding
  <2>6. more = IF since = Never \/ m.at = since THEN {} ELSE {ended}
    BY DEF more
  <2>7. since # Never => open \in Whole(state)
    BY <1>1 DEF Whole, since
  <2> HIDE DEF ended, open
  <2>8. CASE l # k
    <3>1. LastOpens(ops, l, t) <=> LastOpens(ops \ {m}, l, t)
      BY <2>8, LastOpensMoves DEF k
    <3>2. \A i : i \in Holding(Whole(s2), l, t) <=> i \in Holding(Whole(state), l, t)
      BY <2>3, <2>4, <2>5, <2>6, <2>8
    <3> QED BY <2>1, <3>1, <3>2
  <2>9. CASE l = k /\ m.at <= t
    <3>1. ~LastOpens(ops, l, t)
      BY <2>9, LastOpensMoves DEF k
    <3>2. Holding(Whole(s2), l, t) = {}
      <4>1. CASE since = Never
        <5>1. ~LastOpens(ops \ {m}, l, MaxTime)
          BY <1>1, <2>9, <4>1 DEF Tells, since
        <5>2. Holding(Whole(state), l, t) = {}
          BY <2>1, <2>9, <5>1, LastOpensMoves
        <5> QED BY <2>4, <2>5, <2>6, <4>1, <5>2
      <4>2. CASE since # Never
        <5>1. since \in Int /\ since <= t
          BY <1>5, <1>6, <2>2, <2>9, <4>2 DEF Times
        <5>2. open \in Holding(Whole(state), l, t)
          BY <2>2, <2>3, <2>5, <2>7, <2>9, <4>2, <5>1
        <5>3. \A i \in more : ~(t < i.to)
          BY <2>2, <2>3, <2>6, <2>9
        <5> QED BY <2>1, <2>4, <2>5, <4>2, <5>2, <5>3
      <4> QED BY <4>1, <4>2
    <3> QED BY <3>1, <3>2
  <2>10. CASE l = k /\ t < m.at
    <3>1. LastOpens(ops, l, t) <=> LastOpens(ops \ {m}, l, t)
      BY <2>10, LastOpensMoves DEF k
    <3>2. CASE since = Never \/ ~(since <= t)
      <4>1. \A i : i \in Holding(Whole(s2), l, t) <=> i \in Holding(Whole(state), l, t)
        BY <2>3, <2>4, <2>5, <2>6, <3>2
      <4> QED BY <2>1, <3>1, <4>1
    <3>3. CASE since # Never /\ since <= t
      <4>1. open \in Holding(Whole(state), l, t)
        BY <2>2, <2>3, <2>5, <2>7, <2>10, <3>3
      <4>2. since # m.at
        BY <1>5, <2>2, <2>10, <3>3 DEF Times
      <4>3. Holding(Whole(s2), l, t) = {ended}
        <5>1. more = {ended}
          BY <2>6, <3>3, <4>2
        <5>2. \A i : i \in Holding(Whole(state), l, t) <=> i = open
          BY <2>1, <4>1
        <5>3. ended \in Holding(Whole(s2), l, t)
          BY <2>3, <2>4, <2>10, <3>3, <5>1
        <5>4. ASSUME NEW i \in Holding(Whole(s2), l, t) PROVE i = ended
          BY <2>4, <2>5, <3>3, <5>1, <5>2
        <5> QED BY <5>3, <5>4
      <4> QED BY <2>1, <3>1, <4>1, <4>3
    <3> QED BY <3>2, <3>3
  <2> QED BY <2>2, <2>8, <2>9, <2>10
<1>11. Tells(s2, ops)
  BY <1>3, <1>7, <1>8, <1>10 DEF Tells
<1> QED BY <1>11 DEF s2

\* Every state of the fold tells of what it folded.
LEMMA FoldTells ==
    ASSUME NEW ops \in SUBSET Ops, LinkOrdered(ops), NEW iter, FoldsOver(iter, ops)
    PROVE  Tells(iter[ops], ops)
<1> DEFINE G == {S \in SUBSET ops : Tells(iter[S], S)}
           pick == [S \in SUBSET ops |-> LastOf(S)]
<1>1. IsFiniteSet(ops)
  BY OpsAreFinite, FS_Subset
<1>2. Picks(pick, ops)
  BY LastOfPicks DEF Picks
<1>3. {} \in G
  <2>1. iter[{}] = Base
    BY DEF FoldsOver
  <2>2. Base \in FoldStates /\ \A l \in Links : Base.since[l] = Never
    BY DEF Base, FoldStates
  <2>3. Whole(Base) = {}
    BY DEF Whole, Base
  <2>4. \A l, t : ~LastOpens({}, l, t) /\ Holding({}, l, t) = {}
    BY DEF LastOpens, Upto, Holding
  <2>5. Tells(Base, {})
    BY <2>2, <2>3, <2>4 DEF Tells
  <2> QED BY <2>1, <2>5
<1>4. ASSUME NEW S \in SUBSET ops, S # {}, S \ {pick[S]} \in G PROVE S \in G
  <2> DEFINE m == LastOf(S)
  <2>1. pick[S] = m
    OBVIOUS
  <2>2. S \in SUBSET Ops /\ LinkOrdered(S)
    BY DEF LinkOrdered
  <2>3. m \in S /\ \A q \in S : ~Before(m, q)
    BY <1>4, <2>2, LastOfPicks
  <2>4. Tells(iter[S \ {m}], S \ {m})
    BY <1>4, <2>1
  <2>5. iter[S] = Apply(iter[S \ {m}], m)
    BY <1>4 DEF FoldsOver
  <2> HIDE DEF m, G
  <2>6. Tells(Apply(iter[S \ {m}], m), S)
    <3>1. CASE m.opens
      BY <2>2, <2>3, <2>4, <3>1, OpeningTells
    <3>2. CASE ~m.opens
      BY <2>2, <2>3, <2>4, <3>2, ClosingTells
    <3> QED BY <3>1, <3>2
  <2> QED BY <2>5, <2>6 DEF G
<1> HIDE DEF G, pick
<1>5. SUBSET ops \subseteq G
  BY <1>1, <1>2, <1>3, <1>4, OverSubsets
<1> QED BY <1>5 DEF G

\* event_sequence tells the events of a journal apart.
SequencesTell(journal) == \A e, f \in journal : e.sequence = f.sequence => e = f

\* Then one link's operations are ordered: asserted ones are at position 0,
\* and two of an instant are one.
LEMMA OperationsTyped ==
    ASSUME NEW journal \in SUBSET Event, SequencesTell(journal), NEW asserted \in SUBSET Assertion
    PROVE  /\ Operations(journal, asserted) \in SUBSET Ops
           /\ LinkOrdered(Operations(journal, asserted))
<1> DEFINE ops == Operations(journal, asserted)
<1>1. ops \in SUBSET Ops
  <2>1. ASSUME NEW a \in asserted
        PROVE  [at |-> a.at, position |-> 0, opens |-> TRUE, link |-> a.link] \in Ops
    BY JournalConstants DEF Ops, Assertion
  <2>2. ASSUME NEW e \in journal
        PROVE  [at |-> e.at, position |-> e.sequence, opens |-> e.opens, link |-> e.link] \in Ops
    BY JournalConstants DEF Ops, Event
  <2> QED BY <2>1, <2>2 DEF Operations
<1>2. LinkOrdered(ops)
  <2> SUFFICES ASSUME NEW p \in ops, NEW q \in ops, p.link = q.link, p # q
               PROVE  Before(p, q) \/ Before(q, p)
    BY DEF LinkOrdered
  <2>1. p.at \in Int /\ q.at \in Int /\ p.position \in Int /\ q.position \in Int
    BY <1>1, JournalConstants DEF Ops, Times
  <2>2. p.at = q.at => p.position # q.position
    <3> SUFFICES ASSUME p.at = q.at, p.position = q.position PROVE FALSE
      OBVIOUS
    <3>1. p \in Ops /\ q \in Ops
      BY <1>1
    <3>2. p.opens # q.opens
      BY <3>1 DEF Ops
    <3>3. (\E a \in asserted : p = [at |-> a.at, position |-> 0, opens |-> TRUE, link |-> a.link])
          \/ \E e \in journal : p = [at |-> e.at, position |-> e.sequence, opens |-> e.opens,
                                     link |-> e.link]
      BY DEF Operations
    <3>4. (\E a \in asserted : q = [at |-> a.at, position |-> 0, opens |-> TRUE, link |-> a.link])
          \/ \E e \in journal : q = [at |-> e.at, position |-> e.sequence, opens |-> e.opens,
                                     link |-> e.link]
      BY DEF Operations
    <3>5. \A e \in journal : e.sequence # 0
      BY JournalConstants DEF Event
    <3>6. CASE p.position = 0
      <4>1. PICK a \in asserted : p = [at |-> a.at, position |-> 0, opens |-> TRUE, link |-> a.link]
        BY <3>3, <3>5, <3>6
      <4>2. PICK b \in asserted : q = [at |-> b.at, position |-> 0, opens |-> TRUE, link |-> b.link]
        <5>1. q.position = 0
          BY <3>6
        <5>2. \A e \in journal : q # [at |-> e.at, position |-> e.sequence, opens |-> e.opens,
                                     link |-> e.link]
          BY <3>5, <5>1
        <5> QED BY <3>4, <5>2
      <4>3. p.opens = TRUE /\ q.opens = TRUE
        BY <4>1, <4>2
      <4> QED BY <3>2, <4>3
    <3>7. CASE p.position # 0
      <4>1. PICK e \in journal : p = [at |-> e.at, position |-> e.sequence, opens |-> e.opens,
                                      link |-> e.link]
        BY <3>3, <3>7
      <4>2. PICK f \in journal : q = [at |-> f.at, position |-> f.sequence, opens |-> f.opens,
                                      link |-> f.link]
        BY <3>4, <3>7
      <4>3. e = f
        BY <4>1, <4>2 DEF SequencesTell
      <4> QED BY <3>2, <4>1, <4>2, <4>3
    <3> QED BY <3>6, <3>7
  <2> QED BY <2>1, <2>2 DEF Before
<1> QED BY <1>1, <1>2

\* The projection of a journal and of what was asserted is its history.
LEMMA ProjectionTells ==
    ASSUME NEW journal \in SUBSET Event, SequencesTell(journal), NEW asserted \in SUBSET Assertion
    PROVE  LET ops == Operations(journal, asserted)
               intervals == project_membership(journal, asserted)
           IN  /\ OpenLinks(intervals) = {l \in Links : LastOpens(ops, l, MaxTime)}
               /\ \A l \in Links, t \in Times :
                    /\ \A m1, m2 \in Holding(intervals, l, t) : m1 = m2
                    /\ Holding(intervals, l, t) # {} <=> LastOpens(ops, l, t)
<1> DEFINE ops == Operations(journal, asserted)
<1>1. ops \in SUBSET Ops
  BY OperationsTyped
<1>2. LinkOrdered(ops)
  BY OperationsTyped
<1>3. PICK iter : FoldsOver(iter, ops) /\ project_membership(journal, asserted) = Whole(iter[ops])
  BY <1>1, ProjectionFolds
<1> HIDE DEF ops
<1>4. Tells(iter[ops], ops)
  BY <1>1, <1>2, <1>3, FoldTells
<1> DEFINE state == iter[ops]
<1>5. OpenLinks(Whole(state)) = {l \in Links : state.since[l] # Never}
  <2>1. NoEnd \notin Times
    BY JournalConstants DEF NoEnd, Times
  <2>2. \A i \in state.intervals : i.to \in Times
    BY <1>4 DEF Tells, FoldStates, Closed
  <2>3. \A l : l \in OpenLinks(Whole(state)) <=> \E i \in Whole(state) : i.to = NoEnd /\ l = i.link
    BY DEF OpenLinks
  <2>4. \A i : i \in Whole(state) <=>
          \/ i \in state.intervals
          \/ \E l \in Links : state.since[l] # Never /\ i = [link |-> l, from |-> state.since[l], to |-> NoEnd]
    BY DEF Whole
  <2> HIDE DEF state
  <2>5. ASSUME NEW l \in Links, state.since[l] # Never PROVE l \in OpenLinks(Whole(state))
    <3>1. [link |-> l, from |-> state.since[l], to |-> NoEnd] \in Whole(state)
      BY <2>4, <2>5
    <3> QED BY <2>3, <3>1
  <2>6. ASSUME NEW l \in OpenLinks(Whole(state)) PROVE l \in Links /\ state.since[l] # Never
    BY <2>1, <2>2, <2>3, <2>4
  <2> QED BY <2>5, <2>6
<1> HIDE DEF state
<1>6. OpenLinks(Whole(state)) = {l \in Links : LastOpens(ops, l, MaxTime)}
  BY <1>4, <1>5 DEF Tells, state
<1> QED BY <1>3, <1>4, <1>6 DEF Tells, ops, state

\* A relationship that is asserted besides opens links of its own, and closes
\* none: the order of operations is the order of their instants.
LEMMA AssertingOpens ==
    ASSUME NEW journal \in SUBSET Event, SequencesTell(journal),
           NEW asserted \in SUBSET Assertion, NEW more \in SUBSET Assertion, asserted \subseteq more
    PROVE  LET before == OpenLinks(project_membership(journal, asserted))
               after  == OpenLinks(project_membership(journal, more))
           IN  /\ before \subseteq after
               /\ after \subseteq before \cup {a.link : a \in more \ asserted}
<1> DEFINE ops == Operations(journal, asserted)
           all == Operations(journal, more)
           added == [a \in Assertion |-> [at |-> a.at, position |-> 0, opens |-> TRUE, link |-> a.link]]
<1>1. /\ OpenLinks(project_membership(journal, asserted)) = {l \in Links : LastOpens(ops, l, MaxTime)}
      /\ OpenLinks(project_membership(journal, more)) = {l \in Links : LastOpens(all, l, MaxTime)}
  BY ProjectionTells
<1>2. ops \subseteq all /\ \A op \in all \ ops : \E a \in more \ asserted : op = added[a]
  <2>1. \A op : op \in all <=>
          \/ \E a \in more : op = added[a]
          \/ \E e \in journal : op = [at |-> e.at, position |-> e.sequence, opens |-> e.opens,
                                      link |-> e.link]
    BY DEF Operations
  <2>2. \A op : op \in ops <=>
          \/ \E a \in asserted : op = added[a]
          \/ \E e \in journal : op = [at |-> e.at, position |-> e.sequence, opens |-> e.opens,
                                      link |-> e.link]
    BY DEF Operations
  <2> HIDE DEF ops, all, added
  <2> QED BY <2>1, <2>2
<1>3. all \in SUBSET Ops /\ LinkOrdered(all) /\ ops \in SUBSET Ops /\ LinkOrdered(ops)
  BY OperationsTyped
<1>4. \A a \in Assertion : added[a].opens /\ added[a].link = a.link
  OBVIOUS
<1> HIDE DEF ops, all, added
<1>5. \A l : Upto(ops, l, MaxTime) \subseteq Upto(all, l, MaxTime)
  BY <1>2 DEF Upto
<1>6. ASSUME NEW l \in Links, LastOpens(ops, l, MaxTime) PROVE LastOpens(all, l, MaxTime)
  <2> DEFINE mine == Upto(all, l, MaxTime)
             m == LastOf(mine)
  <2>1. PICK op \in Upto(ops, l, MaxTime) : op.opens /\ \A q \in Upto(ops, l, MaxTime) : ~Before(op, q)
    BY <1>6 DEF LastOpens
  <2>2. op \in mine /\ op \in ops /\ op.link = l /\ mine \in SUBSET Ops
    BY <1>3, <1>5, <2>1 DEF Upto
  <2> HIDE DEF mine
  <2>3. m \in mine /\ \A q \in mine : ~Before(m, q)
    BY <2>2, LastOfPicks
  <2> HIDE DEF m
  <2>4. m \in all /\ m.link = l /\ m.at <= MaxTime
    BY <2>3 DEF mine, Upto
  <2>5. m.opens
    <3>1. CASE m \in ops
      <4>1. m \in Upto(ops, l, MaxTime)
        BY <2>4, <3>1 DEF Upto
      <4>2. ~Before(op, m) /\ ~Before(m, op)
        BY <2>1, <2>2, <2>3, <4>1
      <4>3. m = op
        BY <1>3, <2>2, <2>4, <3>1, <4>2 DEF LinkOrdered
      <4> QED BY <2>1, <4>3
    <3>2. CASE m \notin ops
      <4>1. PICK a \in more \ asserted : m = added[a]
        BY <1>2, <2>4, <3>2
      <4> QED BY <1>4, <4>1
    <3> QED BY <3>1, <3>2
  <2> QED BY <2>3, <2>5 DEF LastOpens, mine
<1>7. ASSUME NEW l \in Links, LastOpens(all, l, MaxTime), l \notin {a.link : a \in more \ asserted}
      PROVE  LastOpens(ops, l, MaxTime)
  <2>1. \A op \in all : op.link = l => op \in ops
    <3> SUFFICES ASSUME NEW op \in all, op.link = l, op \notin ops PROVE FALSE
      OBVIOUS
    <3>1. PICK a \in more \ asserted : op = added[a]
      BY <1>2
    <3>2. a.link = l
      BY <1>4, <3>1
    <3> QED BY <1>7, <3>2
  <2>2. Upto(all, l, MaxTime) = Upto(ops, l, MaxTime)
    BY <1>2, <2>1 DEF Upto
  <2> QED BY <1>7, <2>2 DEF LastOpens
<1> QED BY <1>1, <1>6, <1>7

-----------------------------------------------------------------------------
(* The journal and its transactions. *)

\* The events that were appended and not rolled back.
Appended == events \cup UNION {appenders[a].batch : a \in Appenders}

EntityTypes ==
    /\ now \in Times
    /\ events \in SUBSET Event
    /\ sequences \in 0 .. MaxEvents
    /\ decisions \in [DecisionIds -> [pc : {"idle", "resolved", "stored", "done", "interrupted"},
                                    at : Times, related : SUBSET Links]]
    /\ appenders \in [Appenders -> [pc : {"idle", "inserted", "locked", "read", "folding"},
                                    batch : SUBSET Event, stored : SUBSET DecisionIds,
                                    events : SUBSET Event, identities : SUBSET Assertion]]
    /\ folded \in SUBSET Event

\* event_sequence tells events apart, those of open transactions included, and
\* a rebuild folds nothing else.
SequencesHold ==
    /\ \A e \in Appended : e.sequence <= sequences
    /\ SequencesTell(Appended)
    /\ \A a \in Appenders : appenders[a].pc \in {"read", "folding"} =>
         appenders[a].events \subseteq events \cup appenders[a].batch
    /\ folded \subseteq events

\* A rebuild holds the projection's lock from before it reads until it
\* commits, so what it read of the decisions has every recorded relationship.
RebuildsSee ==
    \A a \in Appenders :
      /\ appenders[a].pc \in {"locked", "read", "folding"} =>
           lock = a /\ appenders[a].stored \subseteq {d \in DecisionIds : Stored(d)}
      /\ appenders[a].pc = "folding" =>
           Asserted(Done \cup appenders[a].stored) \subseteq appenders[a].identities

EntityInv == EntityTypes /\ SequencesHold /\ RebuildsSee /\ NoRelationshipLost

-----------------------------------------------------------------------------
(* The invariant is inductive. *)

LEMMA EntityInitially == EntityInit => EntityInv
<1> SUFFICES ASSUME EntityInit PROVE EntityInv
  OBVIOUS
<1>1. /\ now = 1 /\ events = {} /\ sequences = 0 /\ membership = {} /\ folded = {}
      /\ decisions = [d \in DecisionIds |-> [pc |-> "idle", at |-> 1, related |-> {}]]
      /\ appenders = [a \in Appenders |-> IdleAppender]
  BY DEF EntityInit
<1>2. EntityTypes
  <2>1. 1 \in Times /\ 0 \in 0 .. MaxEvents
    BY JournalConstants DEF Times
  <2> QED BY <1>1, <2>1 DEF EntityTypes, IdleAppender
<1>3. SequencesHold
  <2>1. Appended = {}
    BY <1>1 DEF Appended, IdleAppender
  <2> QED BY <1>1, <2>1 DEF SequencesHold, SequencesTell, IdleAppender
<1>4. RebuildsSee
  BY <1>1 DEF RebuildsSee, IdleAppender
<1>5. NoRelationshipLost
  <2>1. Done = {}
    BY <1>1 DEF Done
  <2>2. Asserted(Done) = {}
    BY <2>1 DEF Asserted
  <2>3. Operations({}, {}) = {}
    BY DEF Operations
  <2>4. OpenLinks(project_membership({}, {})) = {}
    <3>1. OpenLinks(project_membership({}, {})) = {l \in Links : LastOpens({}, l, MaxTime)}
      <4>1. SequencesTell({})
        BY DEF SequencesTell
      <4> QED BY <2>3, <4>1, ProjectionTells
    <3> QED BY <3>1 DEF LastOpens, Upto
  <2> QED BY <1>1, <2>2, <2>4 DEF NoRelationshipLost
<1> QED BY <1>2, <1>3, <1>4, <1>5 DEF EntityInv

\* The relationships of decisions that are typed are typed.
LEMMA AssertedTyped ==
    ASSUME EntityTypes, NEW S \in SUBSET DecisionIds PROVE Asserted(S) \in SUBSET Assertion
BY DEF EntityTypes, Asserted, Assertion

\* A step that leaves the decisions that were stored alone leaves alone what
\* they assert.
LEMMA AssertedKept ==
    ASSUME NEW S \in SUBSET DecisionIds, NEW T \in SUBSET S,
           \A d \in S : decisions'[d].at = decisions[d].at /\ decisions'[d].related = decisions[d].related
    PROVE  UNION {{[link |-> l, at |-> decisions'[d].at] : l \in decisions'[d].related} : d \in T}
             = Asserted(T)
<1> DEFINE new(d) == {[link |-> l, at |-> decisions'[d].at] : l \in decisions'[d].related}
           old(d) == {[link |-> l, at |-> decisions[d].at] : l \in decisions[d].related}
<1>1. \A d \in T : new(d) = old(d)
  OBVIOUS
<1>2. Asserted(T) = UNION {old(d) : d \in T}
  BY DEF Asserted
<1> HIDE DEF new, old
<1>3. UNION {new(d) : d \in T} = UNION {old(d) : d \in T}
  BY <1>1
<1> QED BY <1>2, <1>3 DEF new

\* What a decision's step keeps of the invariant: it never takes back a stored
\* decision, nor changes what one asserts.
LEMMA DecidingKeeps ==
    ASSUME EntityInv, EntityTypes', UNCHANGED <<events, sequences, lock, appenders, folded>>,
           \A d \in DecisionIds : Stored(d) =>
             /\ decisions'[d].at = decisions[d].at /\ decisions'[d].related = decisions[d].related
             /\ decisions'[d].pc \in {"stored", "done", "interrupted"},
           Done' = Done \/ lock = Unlocked
    PROVE  SequencesHold' /\ RebuildsSee'
<1>1. SequencesHold'
  BY DEF EntityInv, SequencesHold, Appended
<1>2. RebuildsSee'
  <2> SUFFICES ASSUME NEW a \in Appenders, appenders[a].pc \in {"locked", "read", "folding"}
               PROVE  /\ lock = a /\ appenders[a].stored \subseteq {d \in DecisionIds : Stored(d)'}
                      /\ appenders[a].pc = "folding" =>
                           Asserted(Done \cup appenders[a].stored)' \subseteq appenders[a].identities
    BY DEF RebuildsSee
  <2>1. /\ lock = a /\ appenders[a].stored \subseteq {d \in DecisionIds : Stored(d)}
        /\ appenders[a].pc = "folding" =>
             Asserted(Done \cup appenders[a].stored) \subseteq appenders[a].identities
    BY DEF EntityInv, RebuildsSee
  <2>2. appenders[a].stored \subseteq {d \in DecisionIds : Stored(d)'}
    BY <2>1 DEF Stored
  <2>3. Done' = Done
    BY <2>1, JournalConstants
  <2>4. Done \cup appenders[a].stored \subseteq {d \in DecisionIds : Stored(d)}
    BY <2>1 DEF Done, Stored
  <2>5. Asserted(Done \cup appenders[a].stored)' = Asserted(Done \cup appenders[a].stored)
    <3> DEFINE S == {d \in DecisionIds : Stored(d)}
               T == Done \cup appenders[a].stored
    <3>1. S \in SUBSET DecisionIds /\ T \in SUBSET S
      BY <2>4
    <3>2. \A d \in S : decisions'[d].at = decisions[d].at /\ decisions'[d].related = decisions[d].related
      OBVIOUS
    <3>3. T' = T
      BY <2>3
    <3> HIDE DEF S, T
    <3>4. UNION {{[link |-> l, at |-> decisions'[d].at] : l \in decisions'[d].related} : d \in T}
            = Asserted(T)
      BY <3>1, <3>2, AssertedKept
    <3>5. Asserted(T)' = Asserted(T)
      BY <3>3, <3>4 DEF Asserted
    <3> QED BY <3>5 DEF T
  <2> QED BY <2>1, <2>2, <2>5
<1> QED BY <1>1, <1>2

\* Storing relationships leaves their links open, and the others as they were.
LEMMA OpenedOpens ==
    ASSUME NEW d, NEW related PROVE OpenLinks(Opened(d, related)) = OpenLinks(membership) \cup related
<1> DEFINE row(l) == [link |-> l, from |-> decisions[d].at, to |-> NoEnd]
           closed == {k \in related : \A m \in membership : m.link = k => m.to # NoEnd}
<1>1. Opened(d, related) = membership \cup {row(l) : l \in closed}
  BY DEF Opened
<1>2. \A l : row(l).link = l /\ row(l).to = NoEnd
  OBVIOUS
<1>3. \A l : l \in OpenLinks(membership) <=> \E m \in membership : m.to = NoEnd /\ l = m.link
  BY DEF OpenLinks
<1>4. \A l : l \in OpenLinks(Opened(d, related)) <=>
        \E m \in Opened(d, related) : m.to = NoEnd /\ l = m.link
  BY DEF OpenLinks
<1> HIDE DEF row
<1>5. \A l \in related : l \notin closed => l \in OpenLinks(membership)
  BY <1>3
<1> HIDE DEF closed
<1>6. closed \subseteq related
  BY DEF closed
<1> QED BY <1>1, <1>2, <1>3, <1>4, <1>5, <1>6

\* Deciding is not the journal's affair.
LEMMA DecisionSteps ==
    ASSUME EntityInv, NEW d \in DecisionIds,
           \/ \E related \in SUBSET Links : Resolve(d, related)
           \/ StoreBundle(d)
           \/ StoreRelationships(d)
           \/ Interrupt(d)
    PROVE  EntityInv'
<1>1. EntityTypes /\ NoRelationshipLost
  BY DEF EntityInv
<1>2. UNCHANGED <<now, events, sequences, lock, appenders, folded>>
  BY DEF Resolve, StoreBundle, StoreRelationships, Interrupt
<1>3. /\ EntityTypes'
      /\ \A e \in DecisionIds : Stored(e) =>
           /\ decisions'[e].at = decisions[e].at /\ decisions'[e].related = decisions[e].related
           /\ decisions'[e].pc \in {"stored", "done", "interrupted"}
  <2>1. CASE \E related \in SUBSET Links : Resolve(d, related)
    <3>1. PICK related \in SUBSET Links : Resolve(d, related)
      BY <2>1
    <3>2. decisions[d].pc = "idle"
          /\ decisions' = [decisions EXCEPT ![d] = [pc |-> "resolved", at |-> now, related |-> related]]
      BY <3>1 DEF Resolve
    <3> QED BY <1>1, <1>2, <3>2 DEF EntityTypes, Stored
  <2>2. CASE StoreBundle(d)
    <3>1. decisions[d].pc = "resolved" /\ decisions' = [decisions EXCEPT ![d].pc = "stored"]
      BY <2>2 DEF StoreBundle
    <3> QED BY <1>1, <1>2, <3>1 DEF EntityTypes, Stored
  <2>3. CASE StoreRelationships(d)
    <3>1. decisions[d].pc = "stored" /\ decisions' = [decisions EXCEPT ![d].pc = "done"]
      BY <2>3 DEF StoreRelationships
    <3> QED BY <1>1, <1>2, <3>1 DEF EntityTypes, Stored
  <2>4. CASE Interrupt(d)
    <3>1. decisions[d].pc = "stored" /\ decisions' = [decisions EXCEPT ![d].pc = "interrupted"]
      BY <2>4 DEF Interrupt
    <3> QED BY <1>1, <1>2, <3>1 DEF EntityTypes, Stored
  <2> QED BY <2>1, <2>2, <2>3, <2>4
<1>4. CASE StoreRelationships(d)
  <2>1. /\ lock = Unlocked /\ decisions[d].pc = "stored"
        /\ decisions' = [decisions EXCEPT ![d].pc = "done"]
        /\ membership' = Opened(d, decisions[d].related)
    BY <1>4 DEF StoreRelationships
  <2>2. SequencesHold' /\ RebuildsSee'
    BY <1>2, <1>3, <2>1, DecidingKeeps
  <2>3. Done' = Done \cup {d}
    BY <1>1, <2>1 DEF Done, EntityTypes
  <2> DEFINE mine == {[link |-> l, at |-> decisions[d].at] : l \in decisions[d].related}
  <2>4. Asserted(Done)' = Asserted(Done) \cup mine
    <3>1. Done \cup {d} \in SUBSET {e \in DecisionIds : Stored(e)}
      BY <2>1 DEF Done, Stored
    <3>2. UNION {{[link |-> l, at |-> decisions'[e].at] : l \in decisions'[e].related}
                   : e \in Done \cup {d}} = Asserted(Done \cup {d})
      BY <1>3, <3>1, AssertedKept
    <3>3. Asserted(Done)' = Asserted(Done \cup {d})
      BY <2>3, <3>2 DEF Asserted
    <3>4. Asserted(Done \cup {d}) = Asserted(Done) \cup mine
      BY DEF Asserted
    <3> QED BY <3>3, <3>4
  <2>5. {a.link : a \in Asserted(Done)' \ Asserted(Done)} \subseteq decisions[d].related
    BY <2>4
  <2> HIDE DEF mine
  <2>6. /\ Asserted(Done) \in SUBSET Assertion /\ Asserted(Done)' \in SUBSET Assertion
        /\ Asserted(Done) \subseteq Asserted(Done)'
    <3>1. Done \in SUBSET DecisionIds
      BY DEF Done
    <3>2. Asserted(Done) \in SUBSET Assertion
      BY <1>1, <3>1, AssertedTyped
    <3>3. mine \in SUBSET Assertion
      BY <1>1 DEF mine, Assertion, EntityTypes
    <3> QED BY <2>4, <3>2, <3>3
  <2>7. folded \in SUBSET Event /\ SequencesTell(folded)
    BY <1>1 DEF EntityInv, EntityTypes, SequencesHold, SequencesTell, Appended
  <2>8. OpenLinks(project_membership(folded, Asserted(Done)'))
          \subseteq OpenLinks(project_membership(folded, Asserted(Done))) \cup decisions[d].related
    <3>1. OpenLinks(project_membership(folded, Asserted(Done)'))
            \subseteq OpenLinks(project_membership(folded, Asserted(Done)))
                        \cup {a.link : a \in Asserted(Done)' \ Asserted(Done)}
      BY <2>6, <2>7, AssertingOpens
    <3> QED BY <2>5, <3>1
  <2>9. OpenLinks(membership') = OpenLinks(membership) \cup decisions[d].related
    BY <2>1, OpenedOpens
  <2>10. NoRelationshipLost'
    BY <1>1, <1>2, <2>8, <2>9 DEF NoRelationshipLost
  <2> QED BY <1>3, <2>2, <2>10 DEF EntityInv
<1>5. CASE ~StoreRelationships(d)
  <2>1. Done' = Done
    <3>1. \E pc \in {"resolved", "stored", "interrupted"} :
            decisions[d].pc # "done" /\ decisions'[d].pc = pc
            /\ \A e \in DecisionIds : e # d => decisions'[e] = decisions[e]
      BY <1>1, <1>5 DEF Resolve, StoreBundle, Interrupt, EntityTypes
    <3> QED BY <3>1 DEF Done
  <2>2. SequencesHold' /\ RebuildsSee'
    BY <1>2, <1>3, <2>1, DecidingKeeps
  <2>3. Asserted(Done)' = Asserted(Done)
    <3>1. Done \in SUBSET {e \in DecisionIds : Stored(e)}
      BY DEF Done, Stored
    <3>2. UNION {{[link |-> l, at |-> decisions'[e].at] : l \in decisions'[e].related} : e \in Done}
            = Asserted(Done)
      BY <1>3, <3>1, AssertedKept
    <3> QED BY <2>1, <3>2 DEF Asserted
  <2>4. OpenLinks(membership) \subseteq OpenLinks(membership')
    <3>1. membership' = membership \/ \E some : membership' = Opened(d, some)
      BY <1>5 DEF Resolve, StoreBundle, Interrupt
    <3> QED BY <3>1, OpenedOpens
  <2>5. NoRelationshipLost'
    BY <1>1, <1>2, <2>3, <2>4 DEF NoRelationshipLost
  <2> QED BY <1>3, <2>2, <2>5 DEF EntityInv
<1> QED BY <1>4, <1>5

\* An appender's step before its rebuild commits leaves the projection and the
\* decisions alone.
LEMMA AppendingKeeps ==
    ASSUME EntityInv, UNCHANGED <<decisions, membership, folded>>
    PROVE  NoRelationshipLost' /\ Done' = Done /\ \A d \in DecisionIds : Stored(d)' = Stored(d)
<1>1. Done' = Done /\ \A d \in DecisionIds : Stored(d)' = Stored(d)
  BY DEF Done, Stored
<1>2. Asserted(Done)' = Asserted(Done)
  BY <1>1 DEF Asserted
<1>3. NoRelationshipLost'
  BY <1>2 DEF EntityInv, NoRelationshipLost
<1> QED BY <1>1, <1>3

\* An insert hands out the next sequence.
LEMMA InsertStep ==
    ASSUME EntityInv, NEW a \in Appenders, NEW batch \in Batches, Insert(a, batch)
    PROVE  EntityInv'
<1> DEFINE new == {[sequence |-> sequences + 1, opens |-> e.opens, link |-> e.link, at |-> e.at]
                     : e \in batch}
           filled == [appenders[a] EXCEPT !.pc = "inserted", !.batch = new]
<1>1. /\ sequences + Cardinality(batch) <= MaxEvents
      /\ sequences' = sequences + Cardinality(batch)
      /\ appenders' = [appenders EXCEPT ![a] = filled]
      /\ UNCHANGED <<now, events, decisions, membership, lock, folded>>
  BY DEF Insert, EntityInv, EntityTypes
<1>2. EntityTypes /\ SequencesHold /\ RebuildsSee
  BY DEF EntityInv
\* A batch is no event or one.
<1>3. \/ batch = {} /\ Cardinality(batch) = 0 /\ new = {}
      \/ \E e \in [opens : BOOLEAN, link : Links, at : Times] :
           /\ batch = {e} /\ Cardinality(batch) = 1
           /\ new = {[sequence |-> sequences + 1, opens |-> e.opens, link |-> e.link, at |-> e.at]}
  <2>1. CASE batch = {}
    BY <2>1, FS_EmptySet
  <2>2. CASE batch # {}
    <3>1. PICK e \in [opens : BOOLEAN, link : Links, at : Times] : batch = {e}
      BY <2>2 DEF Batches
    <3>2. Cardinality({e}) = 1
      BY FS_Singleton
    <3>3. new = {[sequence |-> sequences + 1, opens |-> e.opens, link |-> e.link, at |-> e.at]}
      BY <3>1
    <3> HIDE DEF new
    <3> QED BY <3>1, <3>2, <3>3
  <2> QED BY <2>1, <2>2
<1> HIDE DEF new
<1>4. /\ sequences' \in 0 .. MaxEvents /\ sequences <= sequences'
      /\ new \in SUBSET Event
      /\ \A e \in new : sequences < e.sequence /\ e.sequence <= sequences'
      /\ \A e, f \in new : e = f
  <2>0. sequences \in Int /\ MaxEvents \in Nat /\ 0 <= sequences
    BY <1>2, JournalConstants DEF EntityTypes
  <2>1. CASE batch = {} /\ Cardinality(batch) = 0 /\ new = {}
    BY <1>1, <2>0, <2>1
  <2>2. CASE batch # {}
    <3>1. PICK e \in [opens : BOOLEAN, link : Links, at : Times] :
           /\ batch = {e} /\ Cardinality(batch) = 1
           /\ new = {[sequence |-> sequences + 1, opens |-> e.opens, link |-> e.link, at |-> e.at]}
      BY <1>3, <2>2
    <3>2. sequences' = sequences + 1 /\ sequences + 1 \in 1 .. MaxEvents
      BY <1>1, <2>0, <3>1
    <3>3. [sequence |-> sequences + 1, opens |-> e.opens, link |-> e.link, at |-> e.at] \in Event
      BY <3>2 DEF Event
    <3> QED BY <2>0, <3>1, <3>2, <3>3
  <2> QED BY <1>3, <2>1, <2>2
<1>5. /\ appenders'[a] = filled /\ filled.pc = "inserted" /\ filled.batch = new
      /\ \A b \in Appenders : b # a => appenders'[b] = appenders[b]
  BY <1>1, <1>2 DEF EntityTypes
<1>6. EntityTypes'
  <2> DEFINE Typed == [pc : {"idle", "inserted", "locked", "read", "folding"},
                       batch : SUBSET Event, stored : SUBSET DecisionIds,
                       events : SUBSET Event, identities : SUBSET Assertion]
  <2>1. appenders \in [Appenders -> Typed]
    BY <1>2 DEF EntityTypes
  <2>2. filled \in Typed
    BY <1>4, <2>1
  <2> HIDE DEF Typed, filled
  <2>3. appenders' \in [Appenders -> Typed]
    BY <1>1, <2>1, <2>2
  <2> QED BY <1>1, <1>2, <1>4, <2>3 DEF EntityTypes, Typed
<1>7. SequencesHold'
  <2>1. \A e \in Appended' : e \in Appended \/ e \in new
    BY <1>1, <1>5 DEF Appended
  <2>2. \A e \in Appended : e.sequence \in Int /\ e.sequence <= sequences
    <3>1. Appended \in SUBSET Event
      BY <1>2 DEF Appended, EntityTypes
    <3> QED BY <1>2, <3>1 DEF SequencesHold, Event
  <2>3. sequences \in Int /\ sequences' \in Int /\ \A e \in new : e.sequence \in Int
    BY <1>2, <1>4 DEF EntityTypes, Event
  <2>4. \A e \in Appended' : e.sequence <= sequences'
    BY <1>4, <2>1, <2>2, <2>3
  <2>5. SequencesTell(Appended')
    <3> SUFFICES ASSUME NEW e \in Appended', NEW f \in Appended', e.sequence = f.sequence
                 PROVE  e = f
      BY DEF SequencesTell
    <3>1. CASE e \in new
      <4>1. f \notin Appended
        BY <1>4, <2>2, <2>3, <3>1
      <4> QED BY <1>4, <2>1, <3>1, <4>1
    <3>2. CASE e \notin new
      <4>1. f \notin new
        BY <1>4, <2>1, <2>2, <2>3, <3>2
      <4> QED BY <1>2, <2>1, <3>2, <4>1 DEF SequencesHold, SequencesTell
    <3> QED BY <3>1, <3>2
  <2>6. SequencesTell(Appended)'
    BY <2>5 DEF SequencesTell
  <2>7. \A b \in Appenders : appenders'[b].pc \in {"read", "folding"} =>
          appenders'[b].events \subseteq events' \cup appenders'[b].batch
    <3> SUFFICES ASSUME NEW b \in Appenders, appenders'[b].pc \in {"read", "folding"}
                 PROVE  appenders'[b].events \subseteq events' \cup appenders'[b].batch
      OBVIOUS
    <3>1. b # a
      BY <1>5
    <3> QED BY <1>1, <1>2, <1>5, <3>1 DEF SequencesHold
  <2> QED BY <1>1, <1>2, <2>4, <2>6, <2>7 DEF SequencesHold
<1>8. NoRelationshipLost' /\ Done' = Done
  BY <1>1, AppendingKeeps
<1>9. RebuildsSee'
  <2> SUFFICES ASSUME NEW b \in Appenders, appenders'[b].pc \in {"locked", "read", "folding"}
               PROVE  /\ lock' = b /\ appenders'[b].stored \subseteq {d \in DecisionIds : Stored(d)'}
                      /\ appenders'[b].pc = "folding" =>
                           Asserted(Done \cup appenders[b].stored)' \subseteq appenders'[b].identities
    BY DEF RebuildsSee
  <2>1. appenders'[b] = appenders[b]
    BY <1>5
  <2>2. Asserted(Done \cup appenders[b].stored)' = Asserted(Done \cup appenders[b].stored)
    BY <1>1, <1>8, <2>1 DEF Asserted
  <2> QED BY <1>1, <1>2, <2>1, <2>2 DEF RebuildsSee, Stored
<1> QED BY <1>6, <1>7, <1>8, <1>9 DEF EntityInv

Standing == [pc : {"idle", "inserted", "locked", "read", "folding"}, batch : SUBSET Event,
             stored : SUBSET DecisionIds, events : SUBSET Event, identities : SUBSET Assertion]

\* A transaction's step: it commits no event but its own, and takes or frees
\* only its own lock, so what the others read stays true.
LEMMA AppenderStep ==
    ASSUME EntityInv, NEW a \in Appenders, NEW new \in Standing,
           appenders' = [appenders EXCEPT ![a] = new],
           UNCHANGED <<now, sequences, decisions>>,
           new.batch \subseteq appenders[a].batch,
           events \subseteq events', events' \subseteq events \cup appenders[a].batch,
           folded' \subseteq events',
           lock' = lock \/ lock \in {Unlocked, a},
           new.pc \in {"read", "folding"} => new.events \subseteq events' \cup new.batch,
           new.pc \in {"locked", "read", "folding"} =>
             lock' = a /\ new.stored \subseteq {d \in DecisionIds : Stored(d)},
           new.pc = "folding" => Asserted(Done \cup new.stored) \subseteq new.identities
    PROVE  EntityTypes' /\ SequencesHold' /\ RebuildsSee'
<1>1. EntityTypes /\ SequencesHold /\ RebuildsSee /\ appenders \in [Appenders -> Standing]
  BY DEF EntityInv, EntityTypes, Standing
<1>2. /\ appenders'[a] = new
      /\ \A b \in Appenders : b # a => appenders'[b] = appenders[b]
      /\ appenders' \in [Appenders -> Standing]
  BY <1>1
<1>3. appenders[a].batch \in SUBSET Event
  BY <1>1 DEF Standing
<1>4. EntityTypes'
  <2>1. events' \in SUBSET Event /\ folded' \in SUBSET Event
    BY <1>1, <1>3 DEF EntityTypes
  <2> QED BY <1>1, <1>2, <2>1 DEF EntityTypes, Standing
<1>5. SequencesHold'
  <2>1. Appended' \subseteq Appended
    <3>1. \A b \in Appenders : appenders'[b].batch \subseteq appenders[b].batch
      BY <1>2
    <3>2. \A e : e \in Appended' <=> e \in events' \/ \E b \in Appenders : e \in appenders'[b].batch
      BY DEF Appended
    <3>3. \A e : e \in Appended <=> e \in events \/ \E b \in Appenders : e \in appenders[b].batch
      BY DEF Appended
    <3> QED BY <3>1, <3>2, <3>3
  <2>2. \A e \in Appended' : e.sequence <= sequences'
    BY <1>1, <2>1 DEF SequencesHold
  <2>3. SequencesTell(Appended)'
    BY <1>1, <2>1 DEF SequencesHold, SequencesTell
  <2>4. \A b \in Appenders : appenders'[b].pc \in {"read", "folding"} =>
          appenders'[b].events \subseteq events' \cup appenders'[b].batch
    <3> SUFFICES ASSUME NEW b \in Appenders, appenders'[b].pc \in {"read", "folding"}
                 PROVE  appenders'[b].events \subseteq events' \cup appenders'[b].batch
      OBVIOUS
    <3>1. CASE b = a
      BY <1>2, <3>1
    <3>2. CASE b # a
      BY <1>1, <1>2, <3>2 DEF SequencesHold
    <3> QED BY <3>1, <3>2
  <2> QED BY <2>2, <2>3, <2>4 DEF SequencesHold
<1>6. RebuildsSee'
  <2>1. Done' = Done /\ \A d \in DecisionIds : Stored(d)' = Stored(d)
    BY DEF Done, Stored
  <2> SUFFICES ASSUME NEW b \in Appenders, appenders'[b].pc \in {"locked", "read", "folding"}
               PROVE  /\ lock' = b /\ appenders'[b].stored \subseteq {d \in DecisionIds : Stored(d)'}
                      /\ appenders'[b].pc = "folding" =>
                           Asserted(Done \cup appenders[b].stored)' \subseteq appenders'[b].identities
    BY DEF RebuildsSee
  <2>2. CASE b = a
    <3>1. Asserted(Done \cup appenders[b].stored)' = Asserted(Done \cup new.stored)
      BY <1>2, <2>1, <2>2 DEF Asserted
    <3> QED BY <1>2, <2>1, <2>2, <3>1
  <2>3. CASE b # a
    <3>1. appenders'[b] = appenders[b]
      BY <1>2, <2>3
    <3>2. /\ lock = b /\ appenders[b].stored \subseteq {d \in DecisionIds : Stored(d)}
          /\ appenders[b].pc = "folding" =>
               Asserted(Done \cup appenders[b].stored) \subseteq appenders[b].identities
      BY <1>1, <3>1 DEF RebuildsSee
    <3>3. lock' = b
      BY <2>3, <3>2, JournalConstants
    <3>4. Asserted(Done \cup appenders[b].stored)' = Asserted(Done \cup appenders[b].stored)
      BY <2>1, <3>1 DEF Asserted
    <3> QED BY <2>1, <3>1, <3>2, <3>3, <3>4
  <2> QED BY <2>2, <2>3
<1> QED BY <1>4, <1>5, <1>6

\* What a rebuild commits: every link that its events and the relationships
\* it has read leave open, those recorded and those stored before it began
\* among them.
LEMMA RebuildOpens ==
    ASSUME EntityInv, NEW a \in Appenders, CommitRebuild(a)
    PROVE  \A S \in SUBSET (Done \cup appenders[a].stored) :
             OpenLinks(project_membership(appenders[a].events, Asserted(S)))
               \subseteq OpenLinks(membership')
<1> TAKE S \in SUBSET (Done \cup appenders[a].stored)
<1>1. EntityTypes /\ SequencesHold /\ RebuildsSee
  BY DEF EntityInv
<1>2. appenders[a].pc = "folding"
      /\ membership' = project_membership(appenders[a].events, appenders[a].identities)
  BY DEF CommitRebuild
<1>3. /\ appenders[a].events \in SUBSET Event /\ appenders[a].identities \in SUBSET Assertion
      /\ Done \cup appenders[a].stored \in SUBSET DecisionIds
  BY <1>1 DEF EntityTypes, Done
<1>4. SequencesTell(appenders[a].events)
  <2>1. appenders[a].events \subseteq Appended
    BY <1>1, <1>2 DEF SequencesHold, Appended
  <2> QED BY <1>1, <2>1 DEF SequencesHold, SequencesTell
<1>5. Asserted(S) \subseteq appenders[a].identities
  <2>1. Asserted(S) \subseteq Asserted(Done \cup appenders[a].stored)
    BY DEF Asserted
  <2> QED BY <1>1, <1>2, <2>1 DEF RebuildsSee
<1>6. Asserted(S) \in SUBSET Assertion
  BY <1>3, <1>5
<1> QED BY <1>2, <1>3, <1>4, <1>5, <1>6, AssertingOpens

LEMMA JournalSteps ==
    ASSUME EntityInv, NEW a \in Appenders,
           \/ CommitUnfolded(a)
           \/ LockProjection(a)
           \/ ReadEvents(a)
           \/ ReadIdentities(a)
           \/ CommitRebuild(a)
           \/ Rollback(a)
    PROVE  EntityInv'
<1>1. EntityTypes /\ SequencesHold /\ RebuildsSee
  BY DEF EntityInv
<1>2. appenders \in [Appenders -> Standing] /\ appenders[a] \in Standing
  BY <1>1 DEF EntityTypes, Standing
<1>3. IdleAppender \in Standing /\ IdleAppender.batch = {} /\ IdleAppender.pc = "idle"
  BY DEF IdleAppender, Standing
<1>4. folded \subseteq events
  BY <1>1 DEF SequencesHold
<1>5. CASE CommitUnfolded(a)
  <2>1. /\ events' = events \cup appenders[a].batch
        /\ appenders' = [appenders EXCEPT ![a] = IdleAppender]
        /\ UNCHANGED <<now, sequences, decisions, membership, lock, folded>>
    BY <1>5 DEF CommitUnfolded
  <2>2. EntityTypes' /\ SequencesHold' /\ RebuildsSee'
    BY <1>3, <1>4, <2>1, AppenderStep
  <2> QED BY <2>1, <2>2, AppendingKeeps DEF EntityInv
<1>6. CASE LockProjection(a)
  <2> DEFINE new == [appenders[a] EXCEPT !.pc = "locked", !.stored = {d \in DecisionIds : Stored(d)}]
  <2>1. /\ lock' = a /\ lock = Unlocked
        /\ appenders' = [appenders EXCEPT ![a] = new]
        /\ UNCHANGED <<now, events, sequences, decisions, membership, folded>>
    BY <1>2, <1>6 DEF LockProjection
  <2>2. /\ new \in Standing /\ new.batch = appenders[a].batch /\ new.pc = "locked"
        /\ new.stored = {d \in DecisionIds : Stored(d)}
    BY <1>2 DEF Standing
  <2> HIDE DEF new
  <2>3. EntityTypes' /\ SequencesHold' /\ RebuildsSee'
    BY <1>4, <2>1, <2>2, AppenderStep
  <2> QED BY <2>1, <2>3, AppendingKeeps DEF EntityInv
<1>7. CASE ReadEvents(a)
  <2> DEFINE read == events \cup appenders[a].batch
             new == [appenders[a] EXCEPT !.pc = "read", !.events = read]
  <2>1. /\ appenders[a].pc = "locked"
        /\ appenders' = [appenders EXCEPT ![a] = new]
        /\ UNCHANGED <<now, events, sequences, decisions, membership, lock, folded>>
    BY <1>2, <1>7 DEF ReadEvents
  <2>2. read \in SUBSET Event
    BY <1>1, <1>2 DEF EntityTypes, Standing
  <2>3. /\ new \in Standing /\ new.batch = appenders[a].batch /\ new.pc = "read"
        /\ new.stored = appenders[a].stored /\ new.events = events \cup appenders[a].batch
    BY <1>2, <2>2 DEF Standing
  <2> HIDE DEF new, read
  <2>4. lock = a /\ new.stored \subseteq {d \in DecisionIds : Stored(d)}
    BY <1>1, <2>1, <2>3 DEF RebuildsSee
  <2>5. EntityTypes' /\ SequencesHold' /\ RebuildsSee'
    BY <1>4, <2>1, <2>3, <2>4, AppenderStep
  <2> QED BY <2>1, <2>5, AppendingKeeps DEF EntityInv
<1>8. CASE ReadIdentities(a)
  <2> DEFINE read == Asserted({d \in DecisionIds : Stored(d)})
             new == [appenders[a] EXCEPT !.pc = "folding", !.identities = read]
  <2>1. /\ appenders[a].pc = "read"
        /\ appenders' = [appenders EXCEPT ![a] = new]
        /\ UNCHANGED <<now, events, sequences, decisions, membership, lock, folded>>
    BY <1>2, <1>8 DEF ReadIdentities
  <2>2. read \in SUBSET Assertion
    BY <1>1, AssertedTyped
  <2>3. /\ new \in Standing /\ new.batch = appenders[a].batch /\ new.pc = "folding"
        /\ new.stored = appenders[a].stored /\ new.events = appenders[a].events
        /\ new.identities = read
    <3> HIDE DEF read
    <3> QED BY <1>2, <2>2 DEF Standing
  <2> HIDE DEF new
  <2>4. /\ lock = a /\ new.stored \subseteq {d \in DecisionIds : Stored(d)}
        /\ new.events \subseteq events \cup new.batch
    BY <1>1, <2>1, <2>3 DEF RebuildsSee, SequencesHold
  <2>5. Asserted(Done \cup new.stored) \subseteq new.identities
    <3>1. Done \cup new.stored \subseteq {d \in DecisionIds : Stored(d)}
      BY <2>4 DEF Done, Stored
    <3> QED BY <2>3, <3>1 DEF Asserted
  <2>6. EntityTypes' /\ SequencesHold' /\ RebuildsSee'
    BY <1>4, <2>1, <2>3, <2>4, <2>5, AppenderStep
  <2> QED BY <2>1, <2>6, AppendingKeeps DEF EntityInv
<1>9. CASE CommitRebuild(a)
  <2>1. /\ appenders[a].pc = "folding"
        /\ events' = events \cup appenders[a].batch /\ folded' = appenders[a].events
        /\ lock' = Unlocked
        /\ appenders' = [appenders EXCEPT ![a] = IdleAppender]
        /\ UNCHANGED <<now, sequences, decisions>>
    BY <1>9 DEF CommitRebuild
  <2>2. appenders[a].events \subseteq events \cup appenders[a].batch
    BY <1>1, <2>1 DEF SequencesHold
  <2>3. EntityTypes' /\ SequencesHold' /\ RebuildsSee'
    <3>1. lock = a
      BY <1>1, <2>1 DEF RebuildsSee
    <3> QED BY <1>3, <2>1, <2>2, <3>1, AppenderStep
  <2>4. OpenLinks(project_membership(appenders[a].events, Asserted(Done)))
          \subseteq OpenLinks(membership')
    BY <1>9, RebuildOpens
  <2>5. Asserted(Done)' = Asserted(Done)
    <3>1. Done' = Done
      BY <2>1 DEF Done
    <3> QED BY <2>1, <3>1 DEF Asserted
  <2>6. NoRelationshipLost'
    BY <2>1, <2>4, <2>5 DEF NoRelationshipLost
  <2> QED BY <2>3, <2>6 DEF EntityInv
<1>10. CASE Rollback(a)
  <2>1. /\ lock' = IF lock = a THEN Unlocked ELSE lock
        /\ appenders' = [appenders EXCEPT ![a] = IdleAppender]
        /\ UNCHANGED <<now, events, sequences, decisions, membership, folded>>
    BY <1>10 DEF Rollback
  <2>2. EntityTypes' /\ SequencesHold' /\ RebuildsSee'
    BY <1>3, <1>4, <2>1, AppenderStep
  <2> QED BY <2>1, <2>2, AppendingKeeps DEF EntityInv
<1> QED BY <1>5, <1>6, <1>7, <1>8, <1>9, <1>10

LEMMA EntityStep == EntityInv /\ [EntityNext]_entityVars => EntityInv'
<1> SUFFICES ASSUME EntityInv, [EntityNext]_entityVars PROVE EntityInv'
  OBVIOUS
<1>1. CASE Tick
  <2>1. now < MaxTime /\ now' = now + 1
        /\ UNCHANGED <<events, sequences, decisions, membership, lock, appenders, folded>>
    BY <1>1 DEF Tick
  <2>2. EntityTypes'
    BY <2>1, JournalConstants DEF EntityInv, EntityTypes, Times
  <2>3. SequencesHold'
    BY <2>1 DEF EntityInv, SequencesHold, Appended
  <2>4. NoRelationshipLost' /\ Done' = Done
    BY <2>1, AppendingKeeps
  <2>5. RebuildsSee'
    BY <2>1 DEF EntityInv, RebuildsSee, Stored, Asserted, Done
  <2> QED BY <2>2, <2>3, <2>4, <2>5 DEF EntityInv
<1>2. ASSUME NEW d \in DecisionIds,
             \/ \E related \in SUBSET Links : Resolve(d, related)
             \/ StoreBundle(d)
             \/ StoreRelationships(d)
             \/ Interrupt(d)
      PROVE  EntityInv'
  BY <1>2, DecisionSteps
<1>3. ASSUME NEW a \in Appenders, NEW batch \in Batches, Insert(a, batch) PROVE EntityInv'
  BY <1>3, InsertStep
<1>4. ASSUME NEW a \in Appenders,
             \/ CommitUnfolded(a)
             \/ LockProjection(a)
             \/ ReadEvents(a)
             \/ ReadIdentities(a)
             \/ CommitRebuild(a)
             \/ Rollback(a)
      PROVE  EntityInv'
  BY <1>4, JournalSteps
<1>5. CASE UNCHANGED entityVars
  <2>1. SequencesHold' /\ EntityTypes'
    BY <1>5 DEF EntityInv, entityVars, SequencesHold, Appended, EntityTypes
  <2>2. NoRelationshipLost'
    BY <1>5, AppendingKeeps DEF entityVars
  <2>3. RebuildsSee'
    BY <1>5 DEF EntityInv, entityVars, RebuildsSee, Stored, Asserted, Done
  <2> QED BY <2>1, <2>2, <2>3 DEF EntityInv
<1> QED BY <1>1, <1>2, <1>3, <1>4, <1>5 DEF EntityNext

-----------------------------------------------------------------------------
(* The theorems. *)

\* Sequences tell events apart, and a rebuild that is about to commit has read
\* what every decision recorded (EntityJournal.append under the table lock).
THEOREM EntityInvariant == EntitySpec => []EntityInv
<1> QED BY EntityInitially, EntityStep, PTL DEF EntitySpec

\* The fold of project_membership is the history: a link is in an interval at
\* an instant exactly when the last operation on it up to then opened it, and
\* its intervals never overlap.
THEOREM FoldIsHistory == EntitySpec => []FoldIsLastWord
<1>1. EntityInv => FoldIsLastWord
  <2> SUFFICES ASSUME EntityInv PROVE FoldIsLastWord
    OBVIOUS
  <2> DEFINE asserted == Asserted({d \in DecisionIds : Stored(d)})
             operations == Operations(events, asserted)
             intervals == project_membership(events, asserted)
  <2>1. events \in SUBSET Event /\ SequencesTell(events) /\ asserted \in SUBSET Assertion
    BY AssertedTyped DEF EntityInv, EntityTypes, SequencesHold, SequencesTell, Appended
  <2>2. \A l \in Links, t \in Times :
          /\ \A m1, m2 \in Holding(intervals, l, t) : m1 = m2
          /\ Holding(intervals, l, t) # {} <=> LastOpens(operations, l, t)
    BY <2>1, ProjectionTells
  <2> HIDE DEF asserted, operations, intervals
  <2>3. ASSUME NEW l \in Links, NEW t \in Times PROVE Cardinality(Holding(intervals, l, t)) <= 1
    <3>1. CASE Holding(intervals, l, t) = {}
      BY <3>1, FS_EmptySet
    <3>2. CASE Holding(intervals, l, t) # {}
      <4>1. PICK m : Holding(intervals, l, t) = {m}
        BY <2>2, <3>2
      <4>2. Cardinality({m}) = 1
        BY FS_Singleton
      <4> QED BY <4>1, <4>2
    <3> QED BY <3>1, <3>2
  <2> QED BY <2>2, <2>3 DEF FoldIsLastWord, Holding, LastOpens, Upto, asserted, operations, intervals
<1> QED BY <1>1, EntityInvariant, PTL

\* No rebuild loses a relationship that a decision recorded, however the two
\* interleave.
THEOREM RelationshipsAreKept == EntitySpec => []NoRelationshipLost
<1>1. EntityInv => NoRelationshipLost
  BY DEF EntityInv
<1> QED BY <1>1, EntityInvariant, PTL

\* A rebuild restores the relationships that interrupted writes left out.
THEOREM RebuildsRestore == EntitySpec => RebuildRestores
<1>1. EntityInv /\ [EntityNext]_entityVars =>
        [\A a \in Appenders : CommitRebuild(a) =>
           OpenLinks(project_membership(appenders[a].events, Asserted(appenders[a].stored)))
             \subseteq OpenLinks(membership')]_entityVars
  BY RebuildOpens
<1> QED BY <1>1, EntityInvariant, PTL DEF EntitySpec, RebuildRestores

-----------------------------------------------------------------------------
(* Timelines: the walk over the projection.  Intervals come and go under it, *)
(* so it is followed over the ones that have held since the read began.      *)

\* Every merge among `edges' that touches `done' ends within `ids'.
Followed(edges, ids, done) ==
    \A e \in edges : (e.type = Merge /\ e.ends \cap done # {}) => e.ends \subseteq ids
MergeClosed(edges, ids) == Followed(edges, ids, ids)

\* A component holds its ids, and is in whatever closed set holds them.
LEMMA ComponentIsLeast ==
    ASSUME NEW edges, NEW ids
    PROVE  /\ ids \subseteq Component(edges, ids)
           /\ MergeClosed(edges, Component(edges, ids))
           /\ \A s : ids \subseteq s /\ MergeClosed(edges, s) => Component(edges, ids) \subseteq s
<1> DEFINE U == ids \cup UNION {e.ends : e \in edges}
           closed == {s \in SUBSET U : ids \subseteq s /\ Step(edges, Merge, s) = s}
           L == {x \in U : \A s \in closed : x \in s}
<1>1. ASSUME NEW s PROVE Step(edges, Merge, s) = s <=> MergeClosed(edges, s)
  <2>1. Step(edges, Merge, s) = s <=>
          \A e \in edges : (e.type = Merge /\ e.ends \cap s # {}) => e.ends \subseteq s
    BY DEF Step
  <2> QED BY <2>1 DEF MergeClosed, Followed
<1>2. MergeClosed(edges, U)
  BY DEF MergeClosed, Followed
<1>3. MergeClosed(edges, L)
  <2> SUFFICES ASSUME NEW e \in edges, e.type = Merge, NEW x \in e.ends, x \in L, NEW y \in e.ends
               PROVE  y \in L
    BY DEF MergeClosed, Followed
  <2>1. y \in U
    OBVIOUS
  <2>2. ASSUME NEW s \in closed PROVE y \in s
    <3>1. x \in s /\ MergeClosed(edges, s)
      BY <1>1
    <3> HIDE DEF U, closed, L
    <3> QED BY <3>1 DEF MergeClosed, Followed
  <2> QED BY <2>1, <2>2
<1>4. L \in closed /\ \A s \in closed : L \subseteq s
  BY <1>1, <1>3
<1>5. Component(edges, ids) = CHOOSE s \in closed : \A u \in closed : s \subseteq u
  BY DEF Component
<1> DEFINE C == CHOOSE s \in closed : \A u \in closed : s \subseteq u
<1>6. C \in closed /\ \A u \in closed : C \subseteq u
  <2> HIDE DEF closed, L
  <2> QED BY <1>4
<1> HIDE DEF C
<1>7. ids \subseteq C /\ MergeClosed(edges, C)
  BY <1>1, <1>6
<1>8. ASSUME NEW s, ids \subseteq s, MergeClosed(edges, s) PROVE C \subseteq s
  <2>1. s \cap U \in closed
    <3>1. MergeClosed(edges, s \cap U)
      BY <1>8 DEF MergeClosed, Followed
    <3> QED BY <1>1, <1>8, <3>1
  <2> QED BY <1>6, <2>1
<1>9. Component(edges, ids) = C
  BY <1>5 DEF C
<1> QED BY <1>7, <1>8, <1>9

\* A walk that reached `found', over `own' when it asked for a relationship.
Walked(edges, query, own, found) ==
    /\ query.subject \in found /\ MergeClosed(edges, found)
    /\ query.include # All => /\ query.subject \in own /\ MergeClosed(edges, own)
                              /\ Step(edges, query.include, own) \subseteq found

LEMMA WalkedIsLinked ==
    ASSUME NEW edges, NEW query, NEW own, NEW found, Walked(edges, query, own, found)
    PROVE  Linked(edges, query) \subseteq found
<1> DEFINE start == {query.subject}
           group == Component(edges, start)
           beside == Step(edges, query.include, group)
<1>1. CASE query.include = All
  <2>1. Linked(edges, query) = group
    BY <1>1 DEF Linked
  <2>2. start \subseteq found /\ MergeClosed(edges, found)
    BY DEF Walked
  <2> HIDE DEF start
  <2> QED BY <2>1, <2>2, ComponentIsLeast
<1>2. CASE query.include # All
  <2>1. Linked(edges, query) = Component(edges, beside)
    BY <1>2 DEF Linked
  <2>2. start \subseteq own /\ MergeClosed(edges, own) /\ MergeClosed(edges, found)
        /\ Step(edges, query.include, own) \subseteq found
    BY <1>2 DEF Walked
  <2> HIDE DEF start
  <2>3. group \subseteq own
    BY <2>2, ComponentIsLeast
  <2> HIDE DEF group
  <2>4. beside \subseteq found
    BY <2>2, <2>3 DEF Step
  <2> HIDE DEF beside
  <2> QED BY <2>1, <2>2, <2>4, ComponentIsLeast
<1> QED BY <1>1, <1>2

\* What fewer intervals link, more do.
LEMMA LinkedGrows ==
    ASSUME NEW more, NEW edges \in SUBSET more, NEW query
    PROVE  Linked(edges, query) \subseteq Linked(more, query)
<1> DEFINE own == Component(more, {query.subject})
           found == Linked(more, query)
<1>1. query.subject \in own /\ MergeClosed(more, own)
  BY ComponentIsLeast
<1>2. /\ MergeClosed(more, found) /\ query.subject \in found
      /\ query.include # All => Step(more, query.include, own) \subseteq found
  <2>1. CASE query.include = All
    BY <1>1, <2>1 DEF Linked
  <2>2. CASE query.include # All
    <3> DEFINE beside == Step(more, query.include, own)
    <3>1. found = Component(more, beside)
      BY <2>2 DEF Linked
    <3>2. query.subject \in beside
      BY <1>1 DEF Step
    <3> HIDE DEF beside
    <3>3. beside \subseteq found /\ MergeClosed(more, found)
      BY <3>1, ComponentIsLeast
    <3> QED BY <3>2, <3>3 DEF beside
  <2> QED BY <2>1, <2>2
<1> HIDE DEF own, found
<1>3. Walked(edges, query, own, found)
  BY <1>1, <1>2 DEF Walked, MergeClosed, Followed, Step
<1> QED BY <1>3, WalkedIsLinked DEF found

\* Where the walk stands, over the intervals that have held all along.
WalkInv ==
    LET steady == pages.steady
        query == reading.query
    IN  /\ reading = [pc |-> reading.pc, query |-> query, own |-> reading.own,
                      found |-> reading.found, frontier |-> reading.frontier]
        /\ reading.pc \in {"idle", "merging", "relating", "related", "listing", "end"}
        /\ reading.pc = "merging" =>
             /\ reading.own = {}
             /\ query.subject \in reading.found /\ reading.frontier \subseteq reading.found
             /\ Followed(steady, reading.found, reading.found \ reading.frontier)
        /\ reading.pc \in {"relating", "related"} =>
             query.include # All /\ query.subject \in reading.own /\ MergeClosed(steady, reading.own)
        /\ reading.pc = "relating" => reading.found = reading.own
        /\ reading.pc = "related" =>
             /\ reading.frontier \subseteq reading.found
             /\ Followed(steady, reading.found, reading.found \ reading.frontier)
             /\ Step(steady, query.include, reading.own) \subseteq reading.own \cup reading.found
        /\ reading.pc = "listing" => Walked(steady, query, reading.own, reading.found)

Due(b) == b.subject \in Linked(pages.steady, reading.query) /\ Readable(b, reading.query.reasoner)

\* Where the pages stand: they list decisions newest first down to the cursor,
\* and what they still owe is below it.
PagesInv ==
    /\ written \subseteq Bundles /\ IsFiniteSet(written)
    /\ pages = [cursor |-> pages.cursor, listed |-> pages.listed, present |-> pages.present,
                steady |-> pages.steady]
    /\ pages.present \subseteq written /\ pages.steady \subseteq current
    /\ pages.listed \in Seq(Bundles)
    /\ \A i, j \in DOMAIN pages.listed : i < j => Newer(pages.listed[i], pages.listed[j])
    /\ pages.cursor = IF pages.listed = <<>> THEN All ELSE Last(pages.listed)
    /\ reading.pc # "idle" =>
         \A b \in pages.present : Due(b) =>
           b \in Range(pages.listed) \/ (reading.pc # "end" /\ After(b, pages.cursor))

PageInv == WalkInv /\ PagesInv

\* Decisions of one instant are told apart by their ids.
LEMMA NewerIsOrder ==
    /\ \A b \in Bundles : ~Newer(b, b)
    /\ \A b, c, d \in Bundles : Newer(b, c) /\ Newer(c, d) => Newer(b, d)
    /\ \A b, c \in Bundles : b = c \/ Newer(b, c) \/ Newer(c, b)
<1>1. \A b \in Bundles : b.id \in Nat /\ b.at \in Nat
  BY TimelineConstants
<1>2. \A b, c \in Bundles : b.id = c.id => b = c
  BY TimelineConstants
<1>3. \A b \in Bundles : ~Newer(b, b)
  BY <1>1 DEF Newer
<1>4. ASSUME NEW b \in Bundles, NEW c \in Bundles, NEW d \in Bundles, Newer(b, c), Newer(c, d)
      PROVE  Newer(b, d)
  BY <1>1, <1>4 DEF Newer
<1>5. ASSUME NEW b \in Bundles, NEW c \in Bundles PROVE b = c \/ Newer(b, c) \/ Newer(c, b)
  BY <1>1, <1>2 DEF Newer
<1> QED BY <1>3, <1>4, <1>5

LEMMA PageInitially == TimelineInit => PageInv
<1> SUFFICES ASSUME TimelineInit PROVE PageInv
  OBVIOUS
<1>1. WalkInv
  BY DEF TimelineInit, NotReading, WalkInv
<1>2. <<>> \in Seq(Bundles) /\ DOMAIN <<>> = {} /\ IsFiniteSet({})
  BY FS_EmptySet
<1>3. PagesInv
  BY <1>2 DEF TimelineInit, NotReading, NoPages, PagesInv
<1> QED BY <1>1, <1>3 DEF PageInv

LEMMA WriteBundleKeepsPage ==
    ASSUME PageInv, NEW b \in Bundles, WriteBundle(b) PROVE PageInv'
<1>1. written' = written \cup {b} /\ UNCHANGED <<current, reading, pages>>
  BY DEF WriteBundle
<1>2. written' \subseteq Bundles /\ IsFiniteSet(written') /\ written \subseteq written'
  BY <1>1, FS_AddElement DEF PageInv, PagesInv
<1>3. WalkInv'
  BY <1>1 DEF PageInv, WalkInv
<1>4. PagesInv'
  BY <1>1, <1>2 DEF PageInv, PagesInv, Due
<1> QED BY <1>3, <1>4 DEF PageInv

LEMMA BeginIntervalKeepsPage ==
    ASSUME PageInv, NEW e \in Edges, BeginInterval(e) PROVE PageInv'
<1>1. current' = current \cup {e} /\ UNCHANGED <<written, reading, pages>>
  BY DEF BeginInterval
<1>2. WalkInv'
  BY <1>1 DEF PageInv, WalkInv
<1>3. PagesInv'
  BY <1>1 DEF PageInv, PagesInv, Due
<1> QED BY <1>2, <1>3 DEF PageInv

\* Fewer intervals that have held all along ask for less.
LEMMA EndIntervalKeepsPage ==
    ASSUME PageInv, NEW e \in Edges, EndInterval(e) PROVE PageInv'
<1>1. /\ current' = current \ {e} /\ pages' = [pages EXCEPT !.steady = @ \ {e}]
      /\ UNCHANGED <<written, reading>>
  BY DEF EndInterval
<1>2. pages' = [cursor |-> pages.cursor, listed |-> pages.listed, present |-> pages.present,
                steady |-> pages.steady \ {e}]
  BY <1>1 DEF PageInv, PagesInv
<1>3. /\ pages'.cursor = pages.cursor /\ pages'.listed = pages.listed
      /\ pages'.present = pages.present /\ pages'.steady = pages.steady \ {e}
  BY <1>2
<1>4. pages'.steady \in SUBSET pages.steady
  BY <1>3
<1>5. WalkInv'
  <2>1. \A ids, done : Followed(pages.steady, ids, done) => Followed(pages'.steady, ids, done)
    BY <1>4 DEF Followed
  <2>2. \A type, ids : Step(pages'.steady, type, ids) \subseteq Step(pages.steady, type, ids)
    BY <1>4 DEF Step
  <2>3. \A query, own, found :
          Walked(pages.steady, query, own, found) => Walked(pages'.steady, query, own, found)
    BY <2>1, <2>2 DEF Walked, MergeClosed
  <2> QED BY <1>1, <2>1, <2>2, <2>3 DEF PageInv, WalkInv, MergeClosed
<1>6. PagesInv'
  <2>1. \A b : Due(b)' => Due(b)
    <3>1. Linked(pages'.steady, reading.query) \subseteq Linked(pages.steady, reading.query)
      BY <1>4, LinkedGrows
    <3> QED BY <1>1, <3>1 DEF Due
  <2>2. pages'.steady \subseteq current'
    BY <1>1, <1>3 DEF PageInv, PagesInv
  <2>3. pages' = [cursor |-> pages'.cursor, listed |-> pages'.listed, present |-> pages'.present,
                  steady |-> pages'.steady]
    BY <1>2
  <2> QED BY <1>1, <1>3, <2>1, <2>2, <2>3 DEF PageInv, PagesInv
<1> QED BY <1>5, <1>6 DEF PageInv

LEMMA AskKeepsPage ==
    ASSUME PageInv, NEW query, NEW principal, Ask(query, principal) PROVE PageInv'
<1> DEFINE asked == IF principal = All THEN query ELSE [query EXCEPT !.reasoner = principal]
<1>1. /\ reading' = Asking(asked) /\ pages' = [NoPages EXCEPT !.present = written, !.steady = current]
      /\ UNCHANGED <<written, current>>
  BY DEF Ask
<1> HIDE DEF asked
<1>2. reading' = [pc |-> "merging", query |-> asked, own |-> {}, found |-> {asked.subject},
                  frontier |-> {asked.subject}]
  BY <1>1 DEF Asking
<1>3. pages' = [cursor |-> All, listed |-> <<>>, present |-> written, steady |-> current]
  BY <1>1 DEF NoPages
<1>4. WalkInv'
  <2>1. Followed(pages'.steady, reading'.found, {})
    BY DEF Followed
  <2>2. reading'.found \ reading'.frontier = {}
    BY <1>2
  <2> QED BY <1>2, <2>1, <2>2 DEF WalkInv
<1>5. PagesInv'
  <2>1. <<>> \in Seq(Bundles) /\ DOMAIN <<>> = {}
    OBVIOUS
  <2>2. \A b : After(b, All)
    BY DEF After
  <2>3. /\ pages'.cursor = All /\ pages'.listed = <<>> /\ pages'.present = written
        /\ pages'.steady = current /\ reading'.pc = "merging"
    BY <1>2, <1>3
  <2>4. pages' = [cursor |-> pages'.cursor, listed |-> pages'.listed, present |-> pages'.present,
                  steady |-> pages'.steady]
    BY <1>3
  <2>5. \A b : After(b, pages'.cursor)
    BY <2>2, <2>3
  <2> QED BY <1>1, <2>1, <2>3, <2>4, <2>5 DEF PageInv, PagesInv
<1> QED BY <1>4, <1>5 DEF PageInv

\* A step of the walk that leaves the query and keeps reading.
LEMMA WalkKeepsPages ==
    ASSUME PageInv, UNCHANGED <<written, current, pages>>, reading'.query = reading.query,
           reading.pc \notin {"idle", "end"}, reading'.pc # "end"
    PROVE  PagesInv'
<1>1. \A b : Due(b)' <=> Due(b)
  BY DEF Due
<1> QED BY <1>1 DEF PageInv, PagesInv

\* A step of the closure: what the frontier reaches is found, and what was the
\* frontier is followed.
LEMMA ReachedIsFollowed ==
    ASSUME NEW found, NEW frontier \in SUBSET found, NEW steady \in SUBSET current,
           Followed(steady, found, found \ frontier)
    PROVE  LET reached == Reached(frontier, Merge) \ found
           IN  /\ Followed(steady, found \cup reached, (found \cup reached) \ reached)
               /\ reached = {} => MergeClosed(steady, found)
<1> DEFINE all == Reached(frontier, Merge)
           reached == all \ found
<1>1. ASSUME NEW e \in steady, e.type = Merge, e.ends \cap found # {}
      PROVE  e.ends \subseteq found \cup reached
  <2>1. CASE e.ends \cap frontier # {}
    <3>1. e.ends \subseteq all
      BY <1>1, <2>1 DEF Reached
    <3> QED BY <3>1
  <2>2. CASE e.ends \cap frontier = {}
    <3>1. e.ends \cap (found \ frontier) # {}
      BY <1>1, <2>2
    <3> QED BY <1>1, <3>1 DEF Followed
  <2> QED BY <2>1, <2>2
<1> HIDE DEF all
<1>2. (found \cup reached) \ reached = found
  OBVIOUS
<1>3. Followed(steady, found \cup reached, found)
  BY <1>1 DEF Followed
<1>4. reached = {} => MergeClosed(steady, found)
  BY <1>1 DEF MergeClosed, Followed
<1>5. reached = Reached(frontier, Merge) \ found
  BY DEF all
<1> HIDE DEF reached
<1> QED BY <1>2, <1>3, <1>4, <1>5

LEMMA StepMergedKeepsPage == ASSUME PageInv, StepMerged PROVE PageInv'
<1> DEFINE steady == pages.steady
           query == reading.query
           reached == Reached(reading.frontier, Merge) \ reading.found
           found == reading.found \cup reached
<1>0. reading.pc \in {"merging", "related"} /\ UNCHANGED <<written, current, pages>> /\ pages' = pages
  BY DEF StepMerged
<1>1. /\ reading.pc \in {"merging", "related"}
      /\ reading' = IF reached # {}
                    THEN [reading EXCEPT !.found = found, !.frontier = reached]
                    ELSE IF reading.pc = "merging" /\ query.include # All
                    THEN [reading EXCEPT !.pc = "relating", !.own = found]
                    ELSE [reading EXCEPT !.pc = "listing", !.found = @ \cup reading.own]
  BY DEF StepMerged
<1>2. /\ reading = [pc |-> reading.pc, query |-> query, own |-> reading.own,
                    found |-> reading.found, frontier |-> reading.frontier]
      /\ reading.frontier \in SUBSET reading.found
      /\ Followed(steady, reading.found, reading.found \ reading.frontier)
      /\ steady \in SUBSET current
  BY <1>0 DEF PageInv, WalkInv, PagesInv
<1>3. /\ Followed(steady, found, found \ reached)
      /\ reached = {} => MergeClosed(steady, reading.found)
  BY <1>2, ReachedIsFollowed
<1>4. /\ reading.pc = "merging" => reading.own = {} /\ query.subject \in reading.found
      /\ reading.pc = "related" =>
           /\ query.include # All /\ query.subject \in reading.own
           /\ MergeClosed(steady, reading.own)
           /\ Step(steady, query.include, reading.own) \subseteq reading.own \cup reading.found
  BY DEF PageInv, WalkInv
<1>5. reading.found \subseteq found /\ reached \subseteq found /\ (reached = {} => found = reading.found)
  OBVIOUS
<1> HIDE DEF reached, found
<1>6. CASE reached # {}
  <2>1. reading' = [pc |-> reading.pc, query |-> query, own |-> reading.own, found |-> found,
                    frontier |-> reached]
    BY <1>1, <1>2, <1>6
  <2>2. /\ reading'.pc = reading.pc /\ reading'.query = query /\ reading'.own = reading.own
        /\ reading'.found = found /\ reading'.frontier = reached /\ pages' = pages
        /\ reading' = [pc |-> reading'.pc, query |-> reading'.query, own |-> reading'.own,
                       found |-> reading'.found, frontier |-> reading'.frontier]
    BY <1>0, <2>1
  <2>3. /\ Followed(pages'.steady, reading'.found, reading'.found \ reading'.frontier)
        /\ reading'.frontier \subseteq reading'.found
    BY <1>3, <1>5, <2>2
  <2>4. ASSUME reading.pc = "merging" PROVE WalkInv'
    BY <1>4, <1>5, <2>2, <2>3, <2>4 DEF WalkInv
  <2>5. ASSUME reading.pc = "related" PROVE WalkInv'
    <3>1. /\ reading'.query.include # All /\ reading'.query.subject \in reading'.own
          /\ MergeClosed(pages'.steady, reading'.own)
          /\ Step(pages'.steady, reading'.query.include, reading'.own)
               \subseteq reading'.own \cup reading'.found
      BY <1>4, <1>5, <2>2, <2>5
    <3> QED BY <2>2, <2>3, <2>5, <3>1 DEF WalkInv
  <2>6. WalkInv'
    BY <1>0, <2>4, <2>5
  <2> QED BY <1>0, <2>1, <2>6, WalkKeepsPages DEF PageInv
<1>7. CASE reached = {} /\ reading.pc = "merging" /\ query.include # All
  <2>1. reading' = [pc |-> "relating", query |-> query, own |-> found, found |-> reading.found,
                    frontier |-> reading.frontier]
    BY <1>1, <1>2, <1>7
  <2>2. WalkInv'
    <3>1. MergeClosed(pages'.steady, reading'.own)
      BY <1>0, <1>3, <1>5, <1>7, <2>1
    <3> QED BY <1>4, <1>5, <1>7, <2>1, <3>1 DEF WalkInv
  <2> QED BY <1>0, <2>1, <2>2, WalkKeepsPages DEF PageInv
<1>8. CASE reached = {} /\ ~(reading.pc = "merging" /\ query.include # All)
  <2> DEFINE whole == reading.found \cup reading.own
  <2>1. reading' = [pc |-> "listing", query |-> query, own |-> reading.own, found |-> whole,
                    frontier |-> reading.frontier]
    BY <1>1, <1>2, <1>8
  <2>2. Walked(steady, query, reading.own, whole)
    <3>1. CASE reading.pc = "related"
      <4>1. MergeClosed(steady, whole)
        BY <1>3, <1>4, <1>8, <3>1 DEF MergeClosed, Followed
      <4> QED BY <1>4, <3>1, <4>1 DEF Walked
    <3>2. CASE reading.pc = "merging"
      <4>1. query.include = All /\ whole = reading.found
        BY <1>4, <1>8, <3>2
      <4> QED BY <1>3, <1>4, <1>8, <3>2, <4>1 DEF Walked
    <3> QED BY <1>0, <3>1, <3>2
  <2> HIDE DEF whole
  <2>3. WalkInv'
    <3>1. Walked(pages'.steady, reading'.query, reading'.own, reading'.found)
      BY <1>0, <2>1, <2>2
    <3> QED BY <2>1, <3>1 DEF WalkInv
  <2> QED BY <1>0, <2>1, <2>3, WalkKeepsPages DEF PageInv
<1> QED BY <1>6, <1>7, <1>8

LEMMA StepRelatedKeepsPage == ASSUME PageInv, StepRelated PROVE PageInv'
<1> DEFINE steady == pages.steady
           query == reading.query
           reached == Reached(reading.own, query.include)
           neighbors == reached \ reading.own
<1>0. reading.pc = "relating" /\ UNCHANGED <<written, current, pages>> /\ pages' = pages
  BY DEF StepRelated
<1>1. /\ reading.pc = "relating"
      /\ reading' = IF neighbors = {} THEN [reading EXCEPT !.pc = "listing"]
                    ELSE [reading EXCEPT !.pc = "related", !.found = neighbors,
                                         !.frontier = neighbors]
  BY DEF StepRelated
<1>2. /\ reading = [pc |-> reading.pc, query |-> query, own |-> reading.own,
                    found |-> reading.found, frontier |-> reading.frontier]
      /\ query.include # All /\ query.subject \in reading.own /\ MergeClosed(steady, reading.own)
      /\ reading.found = reading.own /\ steady \in SUBSET current
  BY <1>1 DEF PageInv, WalkInv, PagesInv
<1>3. Step(steady, query.include, reading.own) \subseteq reading.own \cup neighbors
  <2>1. Step(steady, query.include, reading.own) \subseteq reading.own \cup reached
    BY <1>2 DEF Step, Reached
  <2> HIDE DEF reached
  <2> QED BY <2>1
<1> HIDE DEF neighbors
<1>4. CASE neighbors = {}
  <2>1. reading' = [pc |-> "listing", query |-> query, own |-> reading.own,
                    found |-> reading.own, frontier |-> reading.frontier]
    BY <1>1, <1>2, <1>4
  <2>2. Walked(steady, query, reading.own, reading.own)
    BY <1>2, <1>3, <1>4 DEF Walked
  <2>3. WalkInv'
    <3>1. Walked(pages'.steady, reading'.query, reading'.own, reading'.found)
      BY <1>0, <2>1, <2>2
    <3> QED BY <2>1, <3>1 DEF WalkInv
  <2> QED BY <1>0, <2>1, <2>3, WalkKeepsPages DEF PageInv
<1>5. CASE neighbors # {}
  <2>1. reading' = [pc |-> "related", query |-> query, own |-> reading.own,
                    found |-> neighbors, frontier |-> neighbors]
    BY <1>1, <1>2, <1>5
  <2>2. Followed(steady, neighbors, neighbors \ neighbors)
    BY DEF Followed
  <2>3. WalkInv'
    BY <1>0, <1>2, <1>3, <2>1, <2>2 DEF WalkInv
  <2> QED BY <1>0, <2>1, <2>3, WalkKeepsPages DEF PageInv
<1> QED BY <1>4, <1>5

\* Any set of decisions has its list, newest first.
LEMMA NewestFirst ==
    ASSUME NEW S \in SUBSET Bundles, IsFiniteSet(S)
    PROVE  LET ordered == Ranked(S, [b \in S |-> {c \in S : c = b \/ Newer(c, b)}])
           IN  /\ ordered \in Seq(S)
               /\ \A b \in S : \E n \in DOMAIN ordered : ordered[n] = b
               /\ \A m, n \in DOMAIN ordered : m < n => Newer(ordered[m], ordered[n])
<1> DEFINE upto == [b \in S |-> {c \in S : c = b \/ Newer(c, b)}]
           ordered == Ranked(S, upto)
<1>1. upto \in [S -> SUBSET S] /\ \A b \in S : b \in upto[b]
  OBVIOUS
<1>2. \A b, c \in S : Newer(b, c) => upto[b] \subseteq upto[c] /\ c \notin upto[b]
  <2> SUFFICES ASSUME NEW b \in S, NEW c \in S, Newer(b, c)
               PROVE  upto[b] \subseteq upto[c] /\ c \notin upto[b]
    OBVIOUS
  <2>1. \A d \in S : Newer(d, b) => Newer(d, c)
    BY NewerIsOrder
  <2>2. c # b /\ ~Newer(c, b)
    BY NewerIsOrder
  <2> QED BY <2>1, <2>2
<1>3. \A b, c \in S : b \in upto[c] => b = c \/ Newer(b, c)
  OBVIOUS
<1>4. \A b, c \in S : b = c \/ Newer(b, c) \/ Newer(c, b)
  BY NewerIsOrder
<1> HIDE DEF upto
<1>5. \A b, c \in S : b # c => /\ upto[b] # upto[c]
                               /\ upto[b] \subseteq upto[c] \/ upto[c] \subseteq upto[b]
  BY <1>1, <1>2, <1>4
<1>6. Lists(ordered, S, upto)
  <2>1. upto \in [S -> SUBSET S]
    BY <1>1
  <2>2. \A b \in S : b \in upto[b]
    BY <1>1
  <2> QED BY <1>5, <2>1, <2>2, RankedLists
<1> HIDE DEF ordered
<1>7. \A m, n \in DOMAIN ordered : m < n => Newer(ordered[m], ordered[n])
  <2> SUFFICES ASSUME NEW m \in DOMAIN ordered, NEW n \in DOMAIN ordered, m < n
               PROVE  Newer(ordered[m], ordered[n])
    OBVIOUS
  <2>1. /\ ordered[m] \in S /\ ordered[n] \in S /\ ordered[m] # ordered[n]
        /\ ordered[m] \in upto[ordered[n]]
    BY <1>6 DEF Lists
  <2> QED BY <1>3, <2>1
<1>8. ordered \in Seq(S) /\ \A b \in S : \E n \in DOMAIN ordered : ordered[n] = b
  BY <1>6 DEF Lists
<1> QED BY <1>7, <1>8 DEF ordered, upto

LEMMA ListPageKeepsPage == ASSUME PageInv, ListPage PROVE PageInv'
<1> DEFINE query == reading.query
           cursor == pages.cursor
           listed == pages.listed
           eligible == {b \in written : /\ b.subject \in reading.found
                                        /\ Readable(b, query.reasoner)
                                        /\ After(b, cursor)}
           ordered == Ranked(eligible, [b \in eligible |-> {c \in eligible : c = b \/ Newer(c, b)}])
           k == IF Len(ordered) < Limit THEN Len(ordered) ELSE Limit
           page == SubSeq(ordered, 1, k)
           joined == listed \o page
           lower == IF page = <<>> THEN cursor ELSE Last(page)
<1>1. /\ reading.pc = "listing" /\ UNCHANGED <<written, current>>
      /\ pages' = [pages EXCEPT !.listed = joined, !.cursor = lower]
      /\ reading' = IF Len(page) = Limit THEN Asking(query) ELSE [reading EXCEPT !.pc = "end"]
  BY DEF ListPage
<1>2. /\ written \subseteq Bundles /\ IsFiniteSet(written)
      /\ pages = [cursor |-> cursor, listed |-> listed, present |-> pages.present,
                  steady |-> pages.steady]
      /\ pages.present \subseteq written /\ pages.steady \in SUBSET current
      /\ listed \in Seq(Bundles)
      /\ \A i, j \in DOMAIN listed : i < j => Newer(listed[i], listed[j])
      /\ cursor = IF listed = <<>> THEN All ELSE Last(listed)
      /\ \A b \in pages.present : Due(b) => b \in Range(listed) \/ After(b, cursor)
  BY <1>1 DEF PageInv, PagesInv
<1>3. /\ reading = [pc |-> reading.pc, query |-> query, own |-> reading.own,
                    found |-> reading.found, frontier |-> reading.frontier]
      /\ Walked(pages.steady, query, reading.own, reading.found)
  BY <1>1 DEF PageInv, WalkInv
<1>4. \A b \in pages.present :
        Due(b) => b \in Range(listed) \/ b \in eligible
  <2>1. Linked(pages.steady, query) \subseteq reading.found
    BY <1>3, WalkedIsLinked
  <2> QED BY <1>2, <2>1 DEF Due
<1>5. eligible \subseteq Bundles /\ IsFiniteSet(eligible) /\ \A b \in eligible : After(b, cursor)
  BY <1>2, FS_Subset
<1> HIDE DEF eligible
<1>6. /\ ordered \in Seq(eligible)
      /\ \A b \in eligible : \E n \in DOMAIN ordered : ordered[n] = b
      /\ \A m, n \in DOMAIN ordered : m < n => Newer(ordered[m], ordered[n])
  BY <1>5, NewestFirst
<1> HIDE DEF ordered
<1> DEFINE N == Len(ordered)
<1>7. Limit \in Nat /\ Limit >= 1 /\ N \in Nat /\ DOMAIN ordered = 1 .. N
  BY <1>6, TimelineConstants
<1>8. k \in 0 .. N /\ (k # Limit => k = N)
  <2>1. k = IF N < Limit THEN N ELSE Limit
    OBVIOUS
  <2> HIDE DEF N, k
  <2> QED BY <1>7, <2>1
<1> HIDE DEF k, N
<1>9. /\ page \in Seq(eligible) /\ Len(page) = k /\ DOMAIN page = 1 .. k
      /\ \A n \in 1 .. k : page[n] = ordered[n]
  <2>1. \A n \in 1 .. k : ordered[n] \in eligible
    <3>1. \A n \in 1 .. k : n \in 1 .. N
      BY <1>7, <1>8
    <3> QED BY <1>6, <1>7, <3>1
  <2>2. /\ page \in Seq(eligible) /\ Len(page) = k
        /\ \A n \in 1 .. k : page[n] = ordered[n]
    <3>1. /\ k \in Nat /\ k - 1 + 1 = k /\ (IF 1 <= k THEN k - 1 + 1 ELSE 0) = k
          /\ \A n \in 1 .. k : 1 + n - 1 = n
      BY <1>7, <1>8
    <3>2. /\ SubSeq(ordered, 1, k) \in Seq(eligible)
          /\ Len(SubSeq(ordered, 1, k)) = IF 1 <= k THEN k - 1 + 1 ELSE 0
          /\ \A n \in 1 .. k - 1 + 1 : SubSeq(ordered, 1, k)[n] = ordered[1 + n - 1]
      BY <2>1, <3>1, SubSeqProperties
    <3> QED BY <3>1, <3>2
  <2> QED BY <2>2
<1> HIDE DEF page
<1>10. page \in Seq(Bundles) /\ \A n \in 1 .. k : page[n] \in eligible /\ page[n] \in Bundles
  <2>1. \A n \in 1 .. k : page[n] \in eligible
    BY <1>9
  <2>2. page \in Seq(Bundles)
    BY <1>5, <1>9, SeqMonotonic
  <2> QED BY <1>5, <2>1, <2>2
<1> DEFINE L == Len(listed)
<1>11. L \in Nat /\ DOMAIN listed = 1 .. L /\ \A i \in 1 .. L : listed[i] \in Bundles
  BY <1>2
<1>12. /\ joined \in Seq(Bundles) /\ DOMAIN joined = 1 .. L + k /\ Len(joined) = L + k
       /\ \A i \in 1 .. L + k : joined[i] = IF i <= L THEN listed[i] ELSE page[i - L]
  <2>1. listed \in Seq(Bundles) /\ page \in Seq(Bundles) /\ Len(page) = k
    BY <1>2, <1>9, <1>10
  <2>2. /\ listed \o page \in Seq(Bundles) /\ Len(listed \o page) = Len(listed) + Len(page)
        /\ \A i \in 1 .. Len(listed) + Len(page) :
             (listed \o page)[i] = IF i <= Len(listed) THEN listed[i] ELSE page[i - Len(listed)]
    BY <2>1, ConcatProperties
  <2>3. joined = listed \o page
    OBVIOUS
  <2> HIDE DEF joined
  <2>4. DOMAIN joined = 1 .. L + k
    BY <2>1, <2>2, <2>3
  <2> QED BY <2>1, <2>2, <2>3, <2>4
<1>13. L # 0 => cursor = listed[L] /\ cursor # All
  <2>1. \A b \in Bundles : b # All
    BY TimelineConstants
  <2>2. L # 0 => listed # <<>> /\ Last(listed) = listed[L] /\ listed[L] \in Bundles
    BY <1>11 DEF Last
  <2> QED BY <1>2, <2>1, <2>2
<1>14. L = 0 => cursor = All
  BY <1>2
<1> HIDE DEF L, joined
<1>15. ASSUME NEW i \in 1 .. L + k, NEW j \in 1 .. L + k, i < j PROVE Newer(joined[i], joined[j])
  <2>1. CASE j <= L
    BY <1>2, <1>11, <1>12, <1>15, <2>1
  <2>2. CASE L < i
    <3>1. i - L \in 1 .. k /\ j - L \in 1 .. k /\ i - L < j - L /\ ~(i <= L) /\ ~(j <= L)
      BY <1>8, <1>11, <1>15, <2>2
    <3>2. joined[i] = ordered[i - L] /\ joined[j] = ordered[j - L]
      BY <1>9, <1>12, <3>1
    <3>3. i - L \in DOMAIN ordered /\ j - L \in DOMAIN ordered
      BY <1>7, <1>8, <3>1
    <3> QED BY <1>6, <3>1, <3>2, <3>3
  <2>3. CASE i <= L /\ L < j
    <3>1. j - L \in 1 .. k /\ ~(j <= L) /\ i \in 1 .. L /\ L \in 1 .. L /\ L # 0
      BY <1>8, <1>11, <1>15, <2>3
    <3>2. joined[i] = listed[i] /\ joined[j] = page[j - L]
      BY <1>12, <2>3, <3>1
    <3>3. Newer(listed[L], page[j - L])
      BY <1>5, <1>10, <1>13, <3>1 DEF After
    <3>4. i = L \/ Newer(listed[i], listed[L])
      BY <1>2, <1>11, <3>1
    <3>5. listed[i] \in Bundles /\ listed[L] \in Bundles /\ page[j - L] \in Bundles
      BY <1>10, <1>11, <3>1
    <3> QED BY <3>2, <3>3, <3>4, <3>5, NewerIsOrder
  <2> QED BY <1>8, <1>11, <2>1, <2>2, <2>3
<1>16. lower = IF joined = <<>> THEN All ELSE Last(joined)
  <2>1. CASE k = 0
    <3>1. page = <<>> /\ lower = cursor
      BY <1>9, <2>1
    <3>2. joined = listed
      BY <1>2, <3>1 DEF joined
    <3> QED BY <1>2, <3>1, <3>2
  <2>2. CASE k # 0
    <3>1. k \in 1 .. k /\ L + k \in 1 .. L + k /\ ~(L + k <= L) /\ (L + k) - L = k /\ L + k # 0
      BY <1>8, <1>11, <2>2
    <3>2. page # <<>> /\ lower = page[k]
      BY <1>9, <3>1 DEF Last
    <3>3. joined # <<>> /\ Last(joined) = page[k]
      BY <1>12, <3>1 DEF Last
    <3> QED BY <3>2, <3>3
  <2> QED BY <2>1, <2>2
<1>17. Range(listed) \cup Range(page) \subseteq Range(joined)
  <2>1. ASSUME NEW i \in 1 .. L PROVE listed[i] \in Range(joined)
    <3>1. i \in 1 .. L + k /\ i <= L
      BY <1>8, <1>11
    <3> QED BY <1>12, <3>1 DEF Range
  <2>2. ASSUME NEW i \in 1 .. k PROVE page[i] \in Range(joined)
    <3>1. L + i \in 1 .. L + k /\ ~(L + i <= L) /\ (L + i) - L = i
      BY <1>8, <1>11
    <3> QED BY <1>12, <3>1 DEF Range
  <2> QED BY <1>9, <1>11, <2>1, <2>2 DEF Range
<1>18. ASSUME NEW b \in pages.present, Due(b), b \notin Range(joined)
       PROVE  k = Limit /\ After(b, lower)
  <2>1. PICK n \in DOMAIN ordered : ordered[n] = b
    BY <1>4, <1>6, <1>17, <1>18
  <2>2. n \notin 1 .. k
    BY <1>9, <1>17, <1>18, <2>1 DEF Range
  <2>3. k = Limit /\ k < n /\ k \in DOMAIN ordered /\ k \in 1 .. k
    BY <1>7, <1>8, <2>1, <2>2
  <2>4. Newer(page[k], b)
    BY <1>6, <1>9, <2>1, <2>3
  <2>5. page # <<>> /\ lower = page[k]
    BY <1>9, <2>3 DEF Last
  <2> QED BY <2>3, <2>4, <2>5 DEF After
<1> HIDE DEF lower
<1>19. pages' = [cursor |-> lower, listed |-> joined, present |-> pages.present,
                 steady |-> pages.steady]
  BY <1>1, <1>2
<1>20. /\ pages'.cursor = lower /\ pages'.listed = joined /\ pages'.present = pages.present
       /\ pages'.steady = pages.steady
  BY <1>19
<1>21. /\ reading'.query = query
       /\ k = Limit => reading' = Asking(query)
       /\ k # Limit => reading' = [pc |-> "end", query |-> query, own |-> reading.own,
                                   found |-> reading.found, frontier |-> reading.frontier]
  <2>1. k # Limit => reading' = [pc |-> "end", query |-> query, own |-> reading.own,
                                 found |-> reading.found, frontier |-> reading.frontier]
    BY <1>1, <1>3, <1>9
  <2>2. k = Limit => reading' = Asking(query)
    BY <1>1, <1>9
  <2> QED BY <2>1, <2>2 DEF Asking
<1>22. WalkInv'
  <2>1. CASE k = Limit
    <3>1. reading' = [pc |-> "merging", query |-> query, own |-> {}, found |-> {query.subject},
                      frontier |-> {query.subject}]
      BY <1>21, <2>1 DEF Asking
    <3>2. reading'.found \ reading'.frontier = {}
      BY <3>1
    <3>3. Followed(pages'.steady, reading'.found, {})
      BY DEF Followed
    <3> QED BY <3>1, <3>2, <3>3 DEF WalkInv
  <2>2. CASE k # Limit
    BY <1>21, <2>2 DEF WalkInv
  <2> QED BY <2>1, <2>2
<1>23. PagesInv'
  <2>1. reading'.pc = IF k = Limit THEN "merging" ELSE "end"
    BY <1>21 DEF Asking
  <2>2. \A b : Due(b)' <=> Due(b)
    BY <1>20, <1>21 DEF Due
  <2>3. \A i, j \in DOMAIN joined : i < j => Newer(joined[i], joined[j])
    BY <1>12, <1>15
  <2>4. \A b \in pages.present : Due(b) => b \in Range(joined) \/ (k = Limit /\ After(b, lower))
    BY <1>18
  <2>5. pages' = [cursor |-> pages'.cursor, listed |-> pages'.listed, present |-> pages'.present,
                  steady |-> pages'.steady]
    BY <1>19
  <2>6. \A b \in pages'.present : Due(b)' =>
          b \in Range(pages'.listed) \/ (reading'.pc # "end" /\ After(b, pages'.cursor))
    BY <1>20, <2>1, <2>2, <2>4
  <2>7. pages'.listed \in Seq(Bundles)
    BY <1>12, <1>20
  <2>8. pages'.cursor = IF pages'.listed = <<>> THEN All ELSE Last(pages'.listed)
    BY <1>16, <1>20
  <2>9. \A i, j \in DOMAIN pages'.listed : i < j => Newer(pages'.listed[i], pages'.listed[j])
    BY <1>20, <2>3
  <2>10. written' \subseteq Bundles /\ IsFiniteSet(written') /\ pages'.present \subseteq written'
         /\ pages'.steady \subseteq current'
    BY <1>1, <1>2, <1>20
  <2> QED BY <2>5, <2>6, <2>7, <2>8, <2>9, <2>10 DEF PagesInv
<1> QED BY <1>22, <1>23 DEF PageInv

LEMMA LeaveKeepsPage == ASSUME PageInv, Leave PROVE PageInv'
<1>1. reading' = NotReading /\ pages' = NoPages /\ UNCHANGED <<written, current>>
  BY DEF Leave
<1>2. WalkInv'
  BY <1>1 DEF NotReading, WalkInv
<1>3. <<>> \in Seq(Bundles) /\ DOMAIN <<>> = {}
  OBVIOUS
<1>4. PagesInv'
  BY <1>1, <1>3 DEF NotReading, NoPages, PageInv, PagesInv
<1> QED BY <1>2, <1>4 DEF PageInv

LEMMA PageInvStep == PageInv /\ [TimelineNext]_timelineVars => PageInv'
<1> SUFFICES ASSUME PageInv, [TimelineNext]_timelineVars PROVE PageInv'
  OBVIOUS
<1>1. ASSUME NEW b \in Bundles, WriteBundle(b) PROVE PageInv'
  BY <1>1, WriteBundleKeepsPage
<1>2. ASSUME NEW e \in Edges, BeginInterval(e) \/ EndInterval(e) PROVE PageInv'
  BY <1>2, BeginIntervalKeepsPage, EndIntervalKeepsPage
<1>3. ASSUME NEW query, NEW principal, Ask(query, principal) PROVE PageInv'
  BY <1>3, AskKeepsPage
<1>4. ASSUME StepMerged \/ StepRelated PROVE PageInv'
  BY <1>4, StepMergedKeepsPage, StepRelatedKeepsPage
<1>5. ASSUME ListPage \/ Leave PROVE PageInv'
  BY <1>5, ListPageKeepsPage, LeaveKeepsPage
<1>6. ASSUME UNCHANGED timelineVars PROVE PageInv'
  BY <1>6 DEF timelineVars, PageInv, WalkInv, PagesInv, Due
<1> QED BY <1>1, <1>2, <1>3, <1>4, <1>5, <1>6 DEF TimelineNext

\* Whatever is written, merged or detached between the statements of a timeline
\* and between its pages: read to its end it has every decision that was there
\* and linked all along, and none twice (entity_decisions' cursor over the
\* instant and the id, linked_entities' walk).
THEOREM TimelinesAreWhole == TimelineSpec => []TimelineIsWhole
<1>1. PageInv => TimelineIsWhole
  <2> SUFFICES ASSUME PageInv, reading.pc = "end" PROVE TimelineIsWhole
    BY DEF TimelineIsWhole
  <2>1. \A i, j \in DOMAIN pages.listed : pages.listed[i] = pages.listed[j] => i = j
    <3> SUFFICES ASSUME NEW i \in DOMAIN pages.listed, NEW j \in DOMAIN pages.listed, i < j
                 PROVE  pages.listed[i] # pages.listed[j]
      <4>1. pages.listed \in Seq(Bundles)
        BY DEF PageInv, PagesInv
      <4> QED BY <4>1
    <3>1. Newer(pages.listed[i], pages.listed[j]) /\ pages.listed[i] \in Bundles
      BY DEF PageInv, PagesInv
    <3> QED BY <3>1, NewerIsOrder
  <2>2. {b \in pages.present : Due(b)} \subseteq Range(pages.listed)
    BY DEF PageInv, PagesInv
  <2> QED BY <2>1, <2>2 DEF TimelineIsWhole, Due
<1> QED BY <1>1, PageInitially, PageInvStep, PTL DEF TimelineSpec
=============================================================================
