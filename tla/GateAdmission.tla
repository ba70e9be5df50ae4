----------------------------- MODULE GateAdmission -----------------------------
(***************************************************************************)
(* The gates' side of a registration: which reasoners the composed gates   *)
(* agree to serve when the ledger starts and when a registration is        *)
(* written, and what that admission lets a submission reach                *)
(* (app/bootstrap.py, app/gates.py, app/auth.py, and the policy gate's     *)
(* profiles and prompt registry).  How a registration is stored and served *)
(* is ReasonerRegistry's subject.                                          *)
(*                                                                         *)
(* The policy gate keeps what it admitted in memory only: the profile of   *)
(* each reasoner and one map of prompt templates for all of them, to which *)
(* admissions only add.  A reasoner without a plugin ships its prompts     *)
(* under the asset root, which is read once, at its first admission, and   *)
(* which its operator may edit at any time; so may the corpora change that *)
(* bindings name.                                                          *)
(***************************************************************************)
EXTENDS Naturals, SequencesExt

CONSTANTS ById,       \* the reasoner ids, in the order their rows are read
          Plugged,    \* the reasoners of plugins: [id -> assets]
          Declared,   \* the registrations of plugins and of the file: [id -> registration]
          Puttable,   \* the registrations a PUT may carry
          Assets,     \* what a directory of the asset root may hold: [templates, jurisdictions]
          Levels,     \* what provenance a provider may describe a corpus with
          Corpora,
          Settings,   \* what the process may be started with: [allowed (plugins), gates
                      \* (published), mandated, resolver (wanted), resolvers (published),
                      \* keys (of the environment), key_file]
          Unset       \* no registration, no assets, no provider, no request

ASSUME AdmissionConstants ==
    /\ Levels \subseteq Nat \ {0}
    /\ DOMAIN Plugged \subseteq DOMAIN Declared
    /\ ById \in Seq(ToSet(ById))
    /\ \A registration \in Puttable \cup Range(Declared) :
         registration # Unset /\ registration \in Seq(ToSet(registration))

Ids == ToSet(ById)
Operator == "operator"

VARIABLES ledger,     \* "down", "checking" (the gates are being asked), "up"
          settings,   \* what the running process was started with
          gate,       \* the policy gate: [profiles, templates]
          unchecked,  \* the reasoners whose gate set start-up has still to check
          serving,    \* the registration of each reasoner served
          stored,     \* durable: the registrations written over the API
          put,        \* the PUT in progress: [pc, reasoner, registration]
          gated,      \* one gated decision: [pc, reasoner, template, text, ...]
          root,       \* the asset root: [id -> assets or Unset]
          corpora     \* the provenance each corpus is described with

admissionVars == <<ledger, settings, gate, unchecked, serving, stored, put, gated,
                   root, corpora>>

NoGate == [profiles |-> <<>>, templates |-> <<>>]
NoPut == [pc |-> "idle", reasoner |-> Unset, registration |-> Unset]
NoDecision == [pc |-> "none", reasoner |-> Unset, template |-> Unset, text |-> Unset,
               rendered |-> Unset, owner |-> Unset]

-----------------------------------------------------------------------------
(* API keys. *)

\* KeyRing: one key maps to one principal; a key given to two refuses start-up.
KeysOf(s) == s.keys \cup s.key_file
NoKeyShared(keys) == \A p, q \in keys : p.key = q.key => p = q
PrincipalOf(keys, key) == {p.principal : p \in {q \in keys : q.key = key}}
require_operator(keys) == \E p \in keys : p.principal = Operator

-----------------------------------------------------------------------------
(* What a start composes. *)

\* The reasoners of S in the order their rows are read.
InOrder(S) == FoldLeft(LAMBDA so_far, r : IF r \in S THEN Append(so_far, r) ELSE so_far,
                       <<>>, ById)

\* discover_plugins: the published plugins the allowlist names, by name.
PluginIds(s) == InOrder(DOMAIN Plugged \cap s.allowed)
Configured(s) == ToSet(PluginIds(s)) \cup (DOMAIN Declared \ DOMAIN Plugged)

\* discover_gates: each under its own name, well formed, no id twice.
Composed(s) == {p.gate_id : p \in s.gates}
WellPublished(p) == p.well_formed /\ p.name = p.gate_id
DiscoversGates(s) == /\ \A p \in s.gates : WellPublished(p)
                     /\ \A p, q \in s.gates : p.gate_id = q.gate_id => p = q

\* check_resolver_plugin: published under its own name, never the default's.
ResolverWellPublished(p) ==
    p.well_formed /\ p.resolver_id = p.name /\ p.resolver_id # "passthrough"

\* select_resolver: the passthrough, or exactly one plugin of that name.
SelectsResolver(s) ==
    s.resolver # Unset =>
       \E i \in DOMAIN s.resolvers :
          /\ \A j \in DOMAIN s.resolvers : s.resolvers[j].name = s.resolver <=> i = j
          /\ ResolverWellPublished(s.resolvers[i])

-----------------------------------------------------------------------------
(* What the gates admit. *)

GatesOf(registration) == {registration[i].gate_id : i \in DOMAIN registration}

\* A mandated gate runs with an empty configuration where it is not bound:
\* neither gate takes it.
TakesMandates(registration, s) == s.mandated \subseteq GatesOf(registration)

\* The checks that ask no gate to admit anything.
GateSetFits(registration, s) ==
    /\ \A i \in DOMAIN registration :
         registration[i].mandatory => registration[i].gate_id \in Composed(s)
    /\ TakesMandates(registration, s)

\* Every corpus of the binding is described, with the provenance it asks for.
CorporaFit(binding) ==
    /\ binding.corpora # {}
    /\ \A c \in binding.corpora : corpora[c.corpus_id] # Unset /\ corpora[c.corpus_id] >= c.least

\* load_root_assets: a directory that holds no template, or no document whose
\* front matter parses, does not load; nor does one that is absent or malformed.
Loads(assets) == assets # Unset /\ DOMAIN assets.templates # {} /\ assets.jurisdictions # {}

\* What a reasoner may submit, from what it ships.
ProfileOf(assets) == [template_ids |-> DOMAIN assets.templates,
                      jurisdictions |-> assets.jurisdictions]

\* YamlPromptRegistry.add: all or none, an id registered once.
MayAdd(g, assets) == DOMAIN assets.templates \cap DOMAIN g.templates = {}

Added(g, r, assets) ==
    [profiles |-> [q \in {r} \cup DOMAIN g.profiles |->
                     IF q = r THEN ProfileOf(assets) ELSE g.profiles[q]],
     templates |-> [t \in DOMAIN assets.templates \cup DOMAIN g.templates |->
                      IF t \in DOMAIN assets.templates
                      THEN [text |-> assets.templates[t], owner |-> r] ELSE g.templates[t]]]

\* Mutant: the registry is not asked whether it holds an id already.
AdmitReasoner_Anyway(g, r) ==
    IF r \in DOMAIN g.profiles THEN [ok |-> TRUE, gate |-> g]
    ELSE IF Loads(root[r]) THEN [ok |-> TRUE, gate |-> Added(g, r, root[r])]
    ELSE [ok |-> FALSE, gate |-> g]

\* A reasoner the gate knows is admitted as it is; any other from its
\* directory under the asset root, templates and profile or neither.
AdmitReasoner(g, r) ==
    IF r \in DOMAIN g.profiles THEN [ok |-> TRUE, gate |-> g]
    ELSE IF Loads(root[r]) /\ MayAdd(g, root[r])
         THEN [ok |-> TRUE, gate |-> Added(g, r, root[r])]
    ELSE [ok |-> FALSE, gate |-> g]

\* admit_binding: the policy gate validates the binding and admits the
\* reasoner; the rules gate takes no binding configuration; a binding to a
\* gate that is not composed asks nobody.
AdmitBinding(g, r, binding, s) ==
    IF binding.gate_id \notin Composed(s) THEN [ok |-> TRUE, gate |-> g]
    ELSE IF binding.gate_id # "policy" THEN [ok |-> binding.corpora = {}, gate |-> g]
    ELSE IF CorporaFit(binding) THEN AdmitReasoner(g, r)
    ELSE [ok |-> FALSE, gate |-> g]

\* check_gate_set: the gate keeps what it admitted before a later refusal.
CheckGateSet(g, r, registration, s) ==
    IF ~GateSetFits(registration, s) THEN [ok |-> FALSE, gate |-> g]
    ELSE FoldLeft(LAMBDA so_far, binding : IF so_far.ok THEN AdmitBinding(so_far.gate, r, binding, s)
                                           ELSE so_far,
                  [ok |-> TRUE, gate |-> g], registration)

-----------------------------------------------------------------------------
(* Start-up. *)

\* The policy gate's plugin loads what the composed plugins ship; a template
\* id two of them ship refuses the build.
BuiltFromPlugins(s) ==
    IF "policy" \notin Composed(s) THEN [ok |-> TRUE, gate |-> NoGate]
    ELSE FoldLeft(LAMBDA so_far, r : [ok |-> so_far.ok /\ MayAdd(so_far.gate, Plugged[r]),
                                      gate |-> Added(so_far.gate, r, Plugged[r])],
                  [ok |-> TRUE, gate |-> NoGate], PluginIds(s))

\* What a start serves, in the order the registry holds it: the plugins'
\* registrations, the file's, the rows.  A reasoner has one source.
OneSource(s) == \A r \in Configured(s) : stored[r] = Unset
Entries(s) == [r \in Ids |-> IF r \in Configured(s) THEN Declared[r] ELSE stored[r]]
EntryOrder(s) ==
    PluginIds(s) \o InOrder(Configured(s) \ DOMAIN Plugged)
                 \o InOrder({r \in Ids \ Configured(s) : stored[r] # Unset})

Forgotten ==
    /\ ledger' = "down"
    /\ gate' = NoGate
    /\ unchecked' = <<>>
    /\ serving' = [r \in Ids |-> Unset]
    /\ put' = NoPut
    /\ gated' = NoDecision

AdmissionInit ==
    /\ ledger = "down"
    /\ settings \in Settings
    /\ gate = NoGate
    /\ unchecked = <<>>
    /\ serving = [r \in Ids |-> Unset]
    /\ stored = [r \in Ids |-> Unset]
    /\ put = NoPut
    /\ gated = NoDecision
    /\ root = [r \in Ids |-> Unset]
    /\ corpora = [c \in Corpora |-> Unset]

\* The key ring, the registry, then the gates, each in its turn; any refusal
\* closes what was built and nothing is served.
BuildServices(s) ==
    /\ ledger = "down"
    /\ NoKeyShared(KeysOf(s))
    /\ DiscoversGates(s) /\ SelectsResolver(s)
    /\ OneSource(s)
    /\ s.mandated \subseteq Composed(s)
    /\ BuiltFromPlugins(s).ok
    /\ settings' = s
    /\ gate' = BuiltFromPlugins(s).gate
    /\ serving' = Entries(s)
    /\ unchecked' = EntryOrder(s)
    /\ ledger' = "checking"
    /\ UNCHANGED <<stored, put, gated, root, corpora>>

CheckRegistration ==
    LET r == Head(unchecked)
        checked == CheckGateSet(gate, r, serving[r], settings)
    IN /\ ledger = "checking"
       /\ unchecked # <<>>
       /\ checked.ok
       /\ gate' = checked.gate
       /\ unchecked' = Tail(unchecked)
       /\ UNCHANGED <<ledger, settings, serving, stored, put, gated, root, corpora>>

\* The gates and the connection are closed and the error propagates.
RefuseStart ==
    /\ ledger = "checking"
    /\ unchecked # <<>>
    /\ ~CheckGateSet(gate, Head(unchecked), serving[Head(unchecked)], settings).ok
    /\ Forgotten
    /\ UNCHANGED <<settings, stored, root, corpora>>

\* A resolver or gate whose build raises, or builds something unusable.
BuildFails ==
    /\ ledger = "checking"
    /\ Forgotten
    /\ UNCHANGED <<settings, stored, root, corpora>>

StartServing ==
    /\ ledger = "checking"
    /\ unchecked = <<>>
    /\ ledger' = "up"
    /\ UNCHANGED <<settings, gate, unchecked, serving, stored, put, gated, root, corpora>>

\* A shutdown, which closes the gates, or a crash.
LedgerStops ==
    /\ ledger = "up"
    /\ Forgotten
    /\ UNCHANGED <<settings, stored, root, corpora>>

-----------------------------------------------------------------------------
(* A registration written over the API, under the registry's lock. *)

\* Mutant: a reasoner served already is not checked again.
PutRegistration_KnownReasoner(r, registration) ==
    LET checked == IF serving[r] # Unset THEN [ok |-> TRUE, gate |-> gate]
                   ELSE CheckGateSet(gate, r, registration, settings)
    IN /\ ledger = "up"
       /\ require_operator(KeysOf(settings))
       /\ put = NoPut
       /\ r \notin Configured(settings)
       /\ serving[r] # registration
       /\ gate' = checked.gate
       /\ put' = IF checked.ok THEN [pc |-> "admitted", reasoner |-> r,
                                     registration |-> registration] ELSE NoPut
       /\ UNCHANGED <<ledger, settings, unchecked, serving, stored, gated, root, corpora>>

\* A refusal answers the caller and leaves what the gates admitted before it.
PutRegistration(r, registration) ==
    LET checked == CheckGateSet(gate, r, registration, settings)
    IN /\ ledger = "up"
       /\ require_operator(KeysOf(settings))
       /\ put = NoPut
       /\ r \notin Configured(settings)
       /\ serving[r] # registration
       /\ gate' = checked.gate
       /\ put' = IF checked.ok THEN [pc |-> "admitted", reasoner |-> r,
                                     registration |-> registration] ELSE NoPut
       /\ UNCHANGED <<ledger, settings, unchecked, serving, stored, gated, root, corpora>>

StoreRegistration ==
    /\ put.pc = "admitted"
    /\ stored' = [stored EXCEPT ![put.reasoner] = put.registration]
    /\ put' = [put EXCEPT !.pc = "stored"]
    /\ UNCHANGED <<ledger, settings, gate, unchecked, serving, gated, root, corpora>>

\* The statement fails: the gates keep the admission, nothing else changed.
RegistrationLost ==
    /\ put.pc = "admitted"
    /\ put' = NoPut
    /\ UNCHANGED <<ledger, settings, gate, unchecked, serving, stored, gated, root, corpora>>

ServeRegistration ==
    /\ put.pc = "stored"
    /\ serving' = [serving EXCEPT ![put.reasoner] = put.registration]
    /\ put' = NoPut
    /\ UNCHANGED <<ledger, settings, gate, unchecked, stored, gated, root, corpora>>

-----------------------------------------------------------------------------
(* A gated decision: authorized at intake, evaluated later. *)

\* require_submitter, then PolicyGate.authorize_config.
MaySubmit(principals, r) == r \in principals
Authorizes(g, r, template, jurisdictions) ==
    /\ r \in DOMAIN g.profiles
    /\ template \in g.profiles[r].template_ids
    /\ jurisdictions \subseteq g.profiles[r].jurisdictions

SubmitGated(key, r, template, jurisdictions) ==
    /\ ledger = "up"
    /\ gated = NoDecision
    /\ MaySubmit(PrincipalOf(KeysOf(settings), key), r)
    /\ serving[r] # Unset
    /\ "policy" \in GatesOf(serving[r]) \cap Composed(settings)
    /\ Authorizes(gate, r, template, jurisdictions)
    /\ gated' = [NoDecision EXCEPT !.pc = "accepted", !.reasoner = r, !.template = template,
                                   !.text = gate.templates[template].text]
    /\ UNCHANGED <<ledger, settings, gate, unchecked, serving, stored, put, root, corpora>>

\* PolicyGate.evaluate reads the template under its id when it runs.
Render ==
    /\ gated.pc = "accepted"
    /\ gated' = [gated EXCEPT !.pc = "rendered",
                              !.rendered = gate.templates[gated.template].text,
                              !.owner = gate.templates[gated.template].owner]
    /\ UNCHANGED <<ledger, settings, gate, unchecked, serving, stored, put, root, corpora>>

GatedDone ==
    /\ gated.pc = "rendered"
    /\ gated' = NoDecision
    /\ UNCHANGED <<ledger, settings, gate, unchecked, serving, stored, put, root, corpora>>

-----------------------------------------------------------------------------
(* Operators outside the process. *)

EditRoot(r, assets) ==
    /\ root' = [root EXCEPT ![r] = assets]
    /\ UNCHANGED <<ledger, settings, gate, unchecked, serving, stored, put, gated, corpora>>

LoadCorpus(c, level) ==
    /\ corpora' = [corpora EXCEPT ![c] = level]
    /\ UNCHANGED <<ledger, settings, gate, unchecked, serving, stored, put, gated, root>>

-----------------------------------------------------------------------------

Templates == UNION {DOMAIN a.templates : a \in Assets \cup Range(Plugged)}
Jurisdictions == UNION {a.jurisdictions : a \in Assets \cup Range(Plugged)}
Keys == UNION {{k.key : k \in KeysOf(s)} : s \in Settings}

AdmissionNext ==
    \/ \E s \in Settings : BuildServices(s)
    \/ CheckRegistration
    \/ RefuseStart
    \/ BuildFails
    \/ StartServing
    \/ LedgerStops
    \/ \E r \in Ids, registration \in Puttable : PutRegistration(r, registration)
    \/ StoreRegistration
    \/ RegistrationLost
    \/ ServeRegistration
    \/ \E key \in Keys, r \in Ids, t \in Templates, j \in SUBSET Jurisdictions :
         SubmitGated(key, r, t, j)
    \/ Render
    \/ GatedDone
    \/ \E r \in Ids, assets \in Assets \cup {Unset} : EditRoot(r, assets)
    \/ \E c \in Corpora, level \in Levels \cup {Unset} : LoadCorpus(c, level)

AdmissionSpec == AdmissionInit /\ [][AdmissionNext]_admissionVars

-----------------------------------------------------------------------------
(* Properties. *)

AdmissionTypeOK ==
    /\ ledger \in {"down", "checking", "up"}
    /\ settings \in Settings
    /\ DOMAIN gate.profiles \subseteq Ids
    /\ DOMAIN gate.templates \subseteq Templates
    /\ serving \in [Ids -> Range(Declared) \cup Puttable \cup {Unset}]
    /\ stored \in [Ids -> Puttable \cup {Unset}]
    /\ root \in [Ids -> Assets \cup {Unset}]
    /\ corpora \in [Corpora -> Levels \cup {Unset}]

BindsPolicy(registration) ==
    registration # Unset /\ "policy" \in GatesOf(registration) \cap Composed(settings)

\* The asset root still holds what the gate admitted, and the corpora still
\* have the provenance the registrations in force ask for.
SourcesHold ==
    \A r \in Ids : BindsPolicy(Entries(settings)[r]) =>
       /\ r \notin ToSet(PluginIds(settings)) => /\ r \in DOMAIN gate.profiles
                                                  /\ Loads(root[r])
                                                  /\ ProfileOf(root[r]) = gate.profiles[r]
       /\ \A i \in DOMAIN Entries(settings)[r] :
            Entries(settings)[r][i].gate_id = "policy" => CorporaFit(Entries(settings)[r][i])

\* A start on what is stored now: every entry in its order, the gates as built.
FreshStart ==
    FoldLeft(LAMBDA so_far, r : IF so_far.ok
                                THEN CheckGateSet(so_far.gate, r, Entries(settings)[r], settings)
                                ELSE so_far,
             BuiltFromPlugins(settings), EntryOrder(settings))

\* Whatever was written, refused and lost in whatever order since it started,
\* a ledger restarted with its settings is not refused by its own gates
\* unless the files or corpora it admitted were changed under it: what it
\* stored it can always serve again (check_gate_set runs the same checks for
\* a write and for a start, in another order and on gates with less memory).
RestartAdmits == ledger = "up" /\ SourcesHold => FreshStart.ok

\* The prompt a decision is rendered with is its own reasoner's, and the text
\* it was authorized for, whatever was registered, refused or edited between
\* its intake and its evaluation, which looks the template up by id alone
\* (PolicyGate.evaluate; "template ids are global and immutable").
AuthorizedIsRendered ==
    gated.pc = "rendered" => /\ gated.rendered = gated.text
                             /\ gated.owner = gated.reasoner
=============================================================================
