----------------------------- MODULE PolicyEvidence -----------------------------
(***************************************************************************)
(* The evidence of the RAG policy gate, from retrieval to verification:    *)
(* a decision queries every corpus its binding names through the reference *)
(* provider, keeps the passages Postgres still holds, escrows the document *)
(* each came from, and cites them; a later verification asks the escrow,   *)
(* and the provider as it is then, whether the citations stand.  Each      *)
(* statement reads the stores as they are, and the loads of CorpusLoad go  *)
(* on between any two.                                                     *)
(***************************************************************************)
EXTENDS CorpusLoad, Retrieval

CONSTANTS Binding,       \* the binding's corpora in order: [corpus, tier, jurisdictions]
          Queries,       \* what decisions ask: [jurisdictions, risk_tier]
          EscrowEnabled  \* evidence_escrow

VARIABLES gate,         \* the policy gate's evaluation of the decision
          artifacts,    \* the evidence escrow: documents by digest, here their text
          verification  \* the latest verification of the decision's evidence

evidenceVars == <<loadVars, gate, artifacts, verification>>

ASSUME EvidenceConstants ==
    /\ Quota \in Nat
    /\ Binding \in Seq(ToSet(Binding)) /\ Binding # <<>>
    /\ \A i \in DOMAIN Binding : Binding[i].tier \in Nat

\* A decision's evaluation: at the at-th corpus of the binding, what it read of
\* it so far, the answers of those before, then the passages in their order.
NotAsked == [pc |-> "idle", query |-> [jurisdictions |-> {}, risk_tier |-> NoFilter], at |-> 1,
             state |-> {}, dense |-> <<>>, hits |-> <<>>, answers |-> <<>>, contexts |-> <<>>]
NotVerified == [pc |-> "idle", live |-> FALSE, held |-> {}, against |-> <<>>, refs |-> <<>>]

EvidenceInit ==
    /\ LoadInit
    /\ gate = NotAsked
    /\ artifacts = {}
    /\ verification = NotVerified

-----------------------------------------------------------------------------
(* Retrieval: retrieve_evidence. *)

Ref == Binding[gate.at]
Corpus == postgres[Ref.corpus]

\* The submission's filter, narrowed to the jurisdictions the binding reads;
\* when they do not meet, the corpus is not queried.
Excluded == {}
corpus_filter ==
    LET submitted == gate.query.jurisdictions
    IN  IF Ref.jurisdictions = {} THEN (IF submitted = {} THEN NoFilter ELSE submitted)
        ELSE IF submitted = {} THEN Ref.jurisdictions
        ELSE submitted \cap Ref.jurisdictions

Ask(query) ==
    /\ gate.pc = "idle"
    /\ gate' = [NotAsked EXCEPT !.pc = "describe", !.query = query]
    /\ UNCHANGED <<loadVars, artifacts, verification>>

\* Where the passages stand, in the answers and in an answer's ranking ...
Places(answers) == UNION {{n} \X DOMAIN answers[n].contexts : n \in DOMAIN answers}
PassageAt(answers, p) == answers[p[1]].contexts[p[2]]

\* ... which comes first: tier by tier, then in binding order, then by rank ...
Precedes(p, q) ==
    LET s == Binding[p[1]].tier
        t == Binding[q[1]].tier
    IN  s < t \/ (s = t /\ (p[1] < q[1] \/ (p[1] = q[1] /\ p[2] < q[2])))

SameEvidence(p, q) == p.text = q.text /\ p.jurisdiction = q.jurisdiction

\* ... and each text once per jurisdiction, in that order.
Kept(answers) ==
    {p \in Places(answers) : \A q \in Places(answers) :
       Precedes(q, p) => ~SameEvidence(PassageAt(answers, q), PassageAt(answers, p))}
Rank(p, places) == Cardinality({q \in places : ~Precedes(p, q)})
Merged(answers) ==
    [n \in 1 .. Cardinality(Kept(answers)) |->
       PassageAt(answers, CHOOSE p \in Kept(answers) : Rank(p, Kept(answers)) = n)]

\* A corpus is answered for: the next one, or the passages to escrow.
Answered(answer) ==
    LET answers == Append(gate.answers, answer)
    IN  gate' = IF gate.at < Len(Binding)
                  THEN [gate EXCEPT !.pc = "describe", !.at = @ + 1, !.answers = answers,
                                    !.dense = <<>>, !.hits = <<>>]
                  ELSE [gate EXCEPT !.pc = "escrow", !.answers = answers,
                                    !.contexts = Merged(answers),
                                    !.dense = <<>>, !.hits = <<>>]

\* Whatever a provider or the escrow raises fails the gate.
Fails == gate' = [gate EXCEPT !.pc = "failed"]

SkipCorpus ==
    /\ gate.pc = "describe" /\ corpus_filter = Excluded
    /\ Answered([corpus |-> Ref.corpus, state |-> {}, contexts |-> <<>>])
    /\ UNCHANGED <<loadVars, artifacts, verification>>

\* The corpus's state marker, read before it is searched.
describe ==
    /\ gate.pc = "describe" /\ corpus_filter # Excluded
    /\ IF Corpus.loaded
         THEN gate' = [gate EXCEPT !.pc = "dense", !.state = Corpus.manifest]
         ELSE Fails
    /\ UNCHANGED <<loadVars, artifacts, verification>>

DenseSearch ==
    /\ gate.pc = "dense"
    /\ \E ranking \in dense_search(Corpus.chunks, corpus_filter, gate.query.risk_tier) :
         gate' = [gate EXCEPT !.pc = "sparse", !.dense = ranking]
    /\ UNCHANGED <<loadVars, artifacts, verification>>

\* The term query on corpus_id matches nothing in a stale index.
Searchable == IF index = "current" THEN indexed[Ref.corpus] ELSE <<>>

SparseSearch ==
    /\ gate.pc = "sparse"
    /\ IF index = "absent" THEN Fails
         ELSE \E sparse \in sparse_search(Searchable, corpus_filter) :
              \E hits \in retrieve(gate.dense, sparse) :
                gate' = [gate EXCEPT !.pc = "held", !.hits = hits]
    /\ UNCHANGED <<loadVars, artifacts, verification>>

\* Postgres is asked again: it must hold that chunk with that text.
Held(hit) == hit.id \in DOMAIN Corpus.chunks /\ Corpus.chunks[hit.id].text = hit.text

Context(hit, rank) ==
    [corpus |-> Ref.corpus, tier |-> Ref.tier, document |-> hit.document, version |-> hit.version,
     jurisdiction |-> hit.jurisdiction, text |-> hit.text, span |-> hit.span, rank |-> rank,
     artifact |-> <<>>]

\* An answer in contract: for that corpus at that tier, no more passages than
\* asked for, ranked in order.  Digests and provenance are the provider's own
\* for every passage it returns.
check_contract(contexts) ==
    /\ Len(contexts) <= Quota
    /\ \A i \in DOMAIN contexts : /\ contexts[i].rank = i
                                  /\ contexts[i].corpus = Ref.corpus /\ contexts[i].tier = Ref.tier

ReadHeld ==
    /\ gate.pc = "held"
    /\ LET kept == {i \in DOMAIN gate.hits : Held(gate.hits[i])}
           contexts == [n \in 1 .. Cardinality(kept) |->
                          Context(gate.hits[CHOOSE i \in kept : Cardinality({j \in kept : j <= i}) = n], n)]
       IN  IF check_contract(contexts)
             THEN Answered([corpus |-> Ref.corpus, state |-> gate.state, contexts |-> contexts])
             ELSE Fails
    /\ UNCHANGED <<loadVars, artifacts, verification>>

-----------------------------------------------------------------------------
(* Escrow: escrow_documents. *)

Key(context) == <<context.document, context.version>>
Cited(key) == {i \in DOMAIN gate.contexts :
                 gate.contexts[i].corpus = key[1] /\ Key(gate.contexts[i]) = key[2]}
NextUncited ==
    LET missing == {i \in DOMAIN gate.contexts : gate.contexts[i].artifact = <<>>}
        first   == CHOOSE i \in missing : \A j \in missing : i <= j
    IN  IF missing = {} \/ ~EscrowEnabled THEN <<>>
        ELSE <<gate.contexts[first].corpus, Key(gate.contexts[first])>>

\* Mutant: the fetched document is not compared with what is cited to it.
StillHolds_Unchecked(text, key) == TRUE

\* The document must hold every passage cited to it.
StillHolds(text, key) == \A i \in Cited(key) : passage_holds(text, gate.contexts[i])

\* fetch_document raises for a document Postgres no longer holds.
fetch_document(corpus, key) ==
    IF key \in DOMAIN postgres[corpus].documents THEN postgres[corpus].documents[key] ELSE <<>>

\* Each cited document once: fetched, compared and put in the escrow, where it
\* stays; every passage cited to it carries its digest.
EscrowDocument ==
    /\ gate.pc = "escrow" /\ NextUncited # <<>>
    /\ LET key  == NextUncited
           text == fetch_document(key[1], key[2])
       IN  IF text = <<>> \/ ~StillHolds(text, key)
             THEN Fails /\ UNCHANGED artifacts
             ELSE /\ artifacts' = artifacts \cup {text}
                  /\ gate' = [gate EXCEPT !.contexts =
                       [i \in DOMAIN @ |-> IF i \in Cited(key) THEN [@[i] EXCEPT !.artifact = text] ELSE @[i]]]
    /\ UNCHANGED <<loadVars, verification>>

\* The prompt is rendered and the model asked; what comes back, a verdict or
\* none, the output cites these passages and is stored with its bundle.
evaluate ==
    /\ gate.pc = "escrow" /\ NextUncited = <<>>
    /\ gate' = [gate EXCEPT !.pc = "stored"]
    /\ UNCHANGED <<loadVars, artifacts, verification>>

-----------------------------------------------------------------------------
(* Verification: verify_decision. *)

\* The bundle's references, and which of their artifacts the escrow holds.
verify_decision(live) ==
    /\ gate.pc = "stored" /\ verification.pc = "idle"
    /\ verification' = [NotVerified EXCEPT
         !.pc = "ask", !.live = live,
         !.held = {i \in DOMAIN gate.contexts : gate.contexts[i].artifact \in artifacts}]
    /\ UNCHANGED <<loadVars, gate, artifacts>>

escrow_status(i) ==
    IF gate.contexts[i].artifact = <<>> THEN "none"
    ELSE IF i \in verification.held THEN "present" ELSE "missing"

stored_status(context) ==
    IF context.artifact \notin artifacts THEN "not_verifiable"
    ELSE IF passage_holds(context.artifact, context) THEN "intact" ELSE "source_changed"

\* Each document is read once per verification; a corpus that is not loaded is
\* unavailable, a document version it no longer holds has changed.
live_status(context) ==
    LET text == fetch_document(context.corpus, Key(context))
    IN  IF ~postgres[context.corpus].loaded THEN "source_unavailable"
        ELSE IF text # <<>> /\ passage_holds(text, context) THEN "intact" ELSE "source_changed"

\* One reference after the other; the passages of one document share its read.
VerifyReference ==
    /\ verification.pc = "ask" /\ Len(verification.refs) < Len(gate.contexts)
    /\ LET i == Len(verification.refs) + 1
           context == gate.contexts[i]
           read == {j \in 1 .. i - 1 : /\ gate.contexts[j].corpus = context.corpus
                                       /\ Key(gate.contexts[j]) = Key(context)}
           text == IF read = {} THEN fetch_document(context.corpus, Key(context))
                   ELSE verification.against[CHOOSE j \in read : TRUE]
           status == IF ~verification.live THEN stored_status(context)
                     ELSE IF read = {} THEN live_status(context)
                     ELSE IF text # <<>> /\ passage_holds(text, context) THEN "intact"
                     ELSE "source_changed"
       IN  verification' = [verification EXCEPT
             !.refs = Append(@, [escrow |-> escrow_status(i), status |-> status]),
             !.against = Append(@, text)]
    /\ UNCHANGED <<loadVars, gate, artifacts>>

\* A gate that raises, answers late or out of contract, or is not composed here
\* leaves its references not verifiable.
verify_evidence_fails ==
    /\ verification.pc = "ask" /\ gate.contexts # <<>>
    /\ verification' = [verification EXCEPT
         !.pc = "answered", !.against = [i \in DOMAIN gate.contexts |-> <<>>],
         !.refs = [i \in DOMAIN gate.contexts |->
                     [escrow |-> escrow_status(i), status |-> "not_verifiable"]]]
    /\ UNCHANGED <<loadVars, gate, artifacts>>

VerificationAnswered ==
    /\ verification.pc = "ask" /\ Len(verification.refs) = Len(gate.contexts)
    /\ verification' = [verification EXCEPT !.pc = "answered"]
    /\ UNCHANGED <<loadVars, gate, artifacts>>

-----------------------------------------------------------------------------

GateNext ==
    \/ \E query \in Queries : Ask(query)
    \/ SkipCorpus \/ describe \/ DenseSearch \/ SparseSearch \/ ReadHeld
    \/ EscrowDocument \/ evaluate

VerifyNext ==
    \/ \E live \in BOOLEAN : verify_decision(live)
    \/ VerifyReference \/ verify_evidence_fails \/ VerificationAnswered

EvidenceNext ==
    \/ LoadNext /\ UNCHANGED <<gate, artifacts, verification>>
    \/ GateNext
    \/ VerifyNext

EvidenceSpec == EvidenceInit /\ [][EvidenceNext]_evidenceVars

-----------------------------------------------------------------------------
(* Properties. *)

\* What a stored decision cites can be proved for ever: every passage names an
\* artifact the escrow holds, and that document holds the passage where the
\* citation says, though the corpus was reloaded between the searches, the
\* held check and the fetch.
CitationsAreProvable ==
    (gate.pc = "stored" /\ EscrowEnabled) =>
      \A i \in DOMAIN gate.contexts :
        /\ gate.contexts[i].artifact \in artifacts
        /\ passage_holds(gate.contexts[i].artifact, gate.contexts[i])

\* A verification accuses nobody wrongly: no artifact is missing and none has
\* changed, and a source reported as changed differs from the document that was
\* escrowed.
ChangesAreReal ==
    \A i \in DOMAIN verification.refs :
      LET ref == verification.refs[i]
      IN  /\ ref.escrow # "missing"
          /\ ref.status = "source_changed" =>
               /\ verification.live
               /\ EscrowEnabled => verification.against[i] # gate.contexts[i].artifact

\* As reference.py:15-17 has it, the search index's leftovers never reach a
\* prompt: a passage of a corpus that was not loaded since the decision asked
\* for its state is a chunk Postgres holds, its jurisdiction included.
PostgresIsAuthoritative ==
    gate.pc = "escrow" =>
      \A n \in DOMAIN gate.answers :
        LET corpus == postgres[gate.answers[n].corpus]
        IN  gate.answers[n].state = corpus.manifest =>
              \A i \in DOMAIN gate.answers[n].contexts : \E id \in DOMAIN corpus.chunks :
                /\ corpus.chunks[id].text = gate.answers[n].contexts[i].text
                /\ corpus.chunks[id].jurisdiction = gate.answers[n].contexts[i].jurisdiction
=============================================================================
