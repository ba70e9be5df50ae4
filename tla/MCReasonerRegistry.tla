-------------------------- MODULE MCReasonerRegistry --------------------------
(* Two sides of a registration.  In the registry: two reasoners, three        *)
(* versions, two concurrent writers; version c declares a namespace           *)
(* differently from version b of the other reasoner, and the composed gates   *)
(* cannot serve one of them at all.  At the gates: a reasoner without a    *)
(* plugin and one whose plugin may be left out, with directories that may     *)
(* hold the same template ids.                                                *)
EXTENDS ReasonerRegistry, GateAdmission

CONSTANTS r1, r2, a, b, c, w1, w2

MCServes == (Reasoners \X Versions) \ {<<r2, a>>}
MCDisagree == {{<<r1, b>>, <<r2, c>>}, {<<r1, c>>, <<r2, b>>}}

Binding(gate_id, corpora_read) ==
    [gate_id |-> gate_id, mandatory |-> gate_id = "rules",
     corpora |-> {[corpus_id |-> x, least |-> 2] : x \in corpora_read}]

MCById == <<"first", "plugin">>
MCPlugged == "plugin" :> [templates |-> "t0" :> "text", jurisdictions |-> {"eu"}]
MCDeclared == "plugin" :> <<Binding("policy", {"corpus"}), Binding("rules", {})>>
\* Served by both gates; refused by the rules gate after the policy gate
\* admitted it; bound to the policy gate and one that is not composed;
\* bound to the rules gate alone.
MCPuttable == {<<Binding("policy", {"corpus"}), Binding("rules", {})>>,
               <<Binding("policy", {"corpus"}), Binding("rules", {"corpus"})>>,
               <<Binding("policy", {"corpus"}), Binding("absent", {})>>, <<Binding("rules", {})>>}
Directory(template, text) == [templates |-> template :> text, jurisdictions |-> {"eu"}]
MCAssets == {Directory("t1", "text"), Directory("t1", "edited"), Directory("t0", "text"),
             [Directory("t1", "text") EXCEPT !.jurisdictions = {}]}
Key(key, principal) == [key |-> key, principal |-> principal]
Gates(ids) == {[gate_id |-> g, name |-> g, well_formed |-> TRUE] : g \in ids}
Published(name) == [name |-> name, resolver_id |-> name, well_formed |-> TRUE]
\* Both gates; with the rules gate mandated and the plugin left out; and
\* starts that are refused: one key for two principals, no such resolver, or
\* the default's name for one.
Plain == [allowed |-> {"plugin"}, gates |-> Gates({"policy", "rules"}), mandated |-> {},
          resolver |-> Unset, resolvers |-> <<Published("graph"), Published("passthrough")>>,
          keys |-> {Key("k1", "first"), Key("k2", "plugin")}, key_file |-> {Key("k3", Operator)}]
MCSettings == {Plain, [Plain EXCEPT !.mandated = {"rules"}, !.allowed = {}, !.resolver = "graph"],
               [Plain EXCEPT !.key_file = {Key("k1", Operator)}],
               [Plain EXCEPT !.resolver = "oracle"], [Plain EXCEPT !.resolver = "passthrough"]}

VARIABLE side \* which of the two runs

MCInit == /\ RegistryInit /\ AdmissionInit
          /\ side \in {"registry", "gates"}
          /\ IF side = "gates" THEN declared = [r \in Reasoners |-> None] ELSE settings = Plain

MCNext ==
    /\ \/ side = "registry" /\ RegistryNext /\ UNCHANGED admissionVars
       \/ side = "gates" /\ AdmissionNext /\ UNCHANGED registryVars
    /\ UNCHANGED side

MCSpec == MCInit /\ [][MCNext]_<<registryVars, admissionVars, side>>
=============================================================================
