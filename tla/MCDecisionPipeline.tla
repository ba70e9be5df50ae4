-------------------------- MODULE MCDecisionPipeline --------------------------
(* One reasoner whose registration is replaced while its decisions are in     *)
(* progress: version v2 adds a novel-entity feature, binds the advisory gate  *)
(* mandatorily, raises the bypass rule's action, merges the conflict groups   *)
(* and declares a native namespace.                                           *)
(* The deployment mandates one gate; one bound gate is not composed.          *)
EXTENDS DecisionPipeline

CONSTANTS rsn, v1, v2, w1, d1, rulesGate, rag, ghost

Rule(id, ver, action, predicate) ==
    [rule_id |-> id, version |-> ver, action |-> action, predicate |-> predicate]

Lenient == Rule("low", 1, "ALLOW", {"known"})
Raised  == Rule("low", 2, "CHALLENGE", {"known"})
Strict  == Rule("top", 1, "HOLD", {"known", "novel"})

ContentV1 == [gates |-> [g \in {rag, ghost} |-> FALSE], novel |-> {},
              namespaces |-> [n \in {} |-> NoNative], groups |-> {{"eu"}, {"us"}}, rules |-> {Lenient},
              recordable |-> {"ALLOW"}]
ContentV2 == [gates |-> [g \in {rag, rulesGate} |-> g = rag], novel |-> {"novel"},
              namespaces |-> [n \in {"cust"} |-> [uuid |-> "u", type |-> "customer"]],
              groups |-> {{"eu", "us"}}, rules |-> {Raised, Strict},
              recordable |-> {"ALLOW", "CHALLENGE"}]

MCProfile == [p \in {rsn} \X {v1, v2} |-> IF p[2] = v1 THEN ContentV1 ELSE ContentV2]
MCServes == {rsn} \X {v1, v2}

Submit(mode, proposed, evidence, cites, pins, addressed, misconfigured) ==
    [reasoner |-> rsn, mode |-> mode, proposed |-> proposed, evidence |-> evidence,
     cites |-> cites, pins |-> pins, addressed |-> addressed,
     misconfigured |-> misconfigured, subject |-> NoNative,
     entity |-> <<"own", "e">>, entity_type |-> "customer"]

\* The same submission about a native subject whose entity is or is not the
\* one its namespace derives.
Native(key) == [namespace |-> "cust", key |-> key]
About(s, derived) ==
    IF derived THEN [s EXCEPT !.subject = Native("k"), !.entity = <<"u", "k">>]
    ELSE [s EXCEPT !.subject = Native("q")]

\* The enterprise's subject for the key k, which is no answer for another key,
\* and answers the ledger never uses: the id does not follow from the
\* derivation, a relationship of an undeclared type, no match, not storable.
Match == [entity |-> <<"crm", "k">>, type |-> "person", derivation |-> [uuid |-> "crm", key |-> "k"],
          native |-> Native("k"), resolved_by |-> "graph", method |-> "deterministic",
          confidence |-> "none", related |-> {[type |-> "member", entity |-> <<"crm", "h">>]}]
MCAnswers ==
    {[exact |-> TRUE, identity |-> i] :
       i \in {Match, [Match EXCEPT !.entity = <<"crm", "h">>],
             [Match EXCEPT !.related = {[type |-> "owner", entity |-> <<"crm", "h">>]}],
             [Match EXCEPT !.method = "unresolved", !.related = {}]}}
    \cup {[exact |-> FALSE, identity |-> Match]}
MCResolver == [resolver_id |-> "graph", relationship_types |-> {"member"}]

MCSubmissions ==
    {Submit("gate", NoAction, "novel", None, None, {rag, ghost}, {}),
     Submit("gate", "CHALLENGE", "novel", None, None, {rag, rulesGate}, {ghost}),
     About(Submit("gate", "HOLD", "novel", None, None, {rag, rulesGate}, {}), FALSE),
     About(Submit("record", "ALLOW", "novel", "low", None, {rag, ghost}, {}), FALSE),
     About(Submit("record", "CHALLENGE", "known", "low", None, {rag, rulesGate}, {}), TRUE),
     Submit("gate", NoAction, "known", None, None, {rag, ghost}, {rag}),
     Submit("record", "CHALLENGE", "known", "low", 1, {rag, rulesGate}, {})}

Output(permitted, jurisdictions, probe) ==
    [verdict |-> TRUE, deterministic |-> FALSE, probe |-> probe, unsure |-> FALSE,
     permitted |-> permitted, jurisdictions |-> jurisdictions, conflict |-> FALSE]

Answer(gate, output) ==
    [gate_id |-> gate, universal |-> TRUE, exact |-> TRUE, output |-> output]
Certain(permitted) == [Output(permitted, {}, FALSE) EXCEPT !.deterministic = TRUE]

\* The last three are of no use: a flag that is not declared, a type of the
\* gate's own, a value the store would not give back.
MCReturned ==
    {Answer(rag, Output({"ALLOW"}, {"eu", "us"}, FALSE)),
     Answer(rag, Output({"BLOCK"}, {}, FALSE)), Answer(rag, Output({"ALLOW"}, {"eu"}, FALSE)),
     Answer(rulesGate, Certain({"ALLOW"})), Answer(rulesGate, Certain({"BLOCK"})),
     Answer(rag, Certain({"ALLOW"})),
     [Answer(rag, Output({"ALLOW"}, {}, FALSE)) EXCEPT !.universal = FALSE],
     [Answer(rulesGate, Certain({"ALLOW"})) EXCEPT !.exact = FALSE]}

=============================================================================
