----------------------------- MODULE IdentityStep -----------------------------
(***************************************************************************)
(* Who a decision is about (app/identity/resolvers.py, passthrough.py,     *)
(* core/identity.py): the answer of the deployment's resolver when the     *)
(* ledger can use it, and otherwise the subject the reasoner named, marked *)
(* unresolved.  Ids are derived from a namespace and a key by a hash that  *)
(* is modelled as the pair itself: no two derivations collide.             *)
(*                                                                         *)
(* The worker threads resolvers run in are not modelled: a call that waits *)
(* for one is, to the decision, a call that does not answer in time.       *)
(***************************************************************************)

CONSTANTS Resolver,    \* the active resolver: [resolver_id, relationship_types]; none: NoResolver
          Answers      \* what resolve() may return: [exact, identity], exact when it is of the
                       \* contract's own type and can be stored

NoResolver == [resolver_id |-> "passthrough", relationship_types |-> {}]
NoNative == [namespace |-> "none", key |-> "none"]
NoDerivation == [uuid |-> "none", key |-> "none"]

derive_entity_id(uuid, key) == <<uuid, key>>

\* What ResolvedIdentity checks whenever one is made or read back.
WellFormed(identity) ==
    /\ (identity.method = "probabilistic") = (identity.confidence = "scored")
    /\ IF identity.derivation = NoDerivation THEN identity.method = "unresolved"
       ELSE identity.entity = derive_entity_id(identity.derivation.uuid, identity.derivation.key)
    /\ identity.related # {} => identity.method # "unresolved"
    /\ \A r \in identity.related : r.entity # identity.entity

\* identity_problem finds none.
Usable(answer, native) ==
    /\ answer.exact
    /\ WellFormed(answer.identity)
    /\ answer.identity.method # "unresolved"
    /\ answer.identity.resolved_by = Resolver.resolver_id
    /\ answer.identity.native = native
    /\ {r.type : r \in answer.identity.related} \subseteq Resolver.relationship_types

Unresolved(entity, type, derivation, native) ==
    [entity |-> entity, type |-> type, derivation |-> derivation, native |-> native,
     resolved_by |-> "passthrough", method |-> "unresolved", confidence |-> "none",
     related |-> {}]

declared_identity(namespace, native) ==
    Unresolved(derive_entity_id(namespace.uuid, native.key), namespace.type,
               [uuid |-> namespace.uuid, key |-> native.key], native)

\* What the registration derives, or the reasoner's own entity as it is.
passthrough_identity(submission, registration) ==
    LET native == submission.subject IN
    IF native # NoNative /\ native.namespace \in DOMAIN registration.namespaces
    THEN declared_identity(registration.namespaces[native.namespace], native)
    ELSE Unresolved(submission.entity, submission.entity_type, NoDerivation, native)

\* _validate_native_subject: a subject in a namespace the registration
\* declares is the entity it derives, of the type it names.
ValidSubject(submission, registration) ==
    LET native == submission.subject IN
    native.namespace \in DOMAIN registration.namespaces =>
       LET namespace == registration.namespaces[native.namespace] IN
       /\ submission.entity = derive_entity_id(namespace.uuid, native.key)
       /\ submission.entity_type = namespace.type

\* Whether anybody is asked.
Consults(submission) == submission.subject # NoNative /\ Resolver # NoResolver

\* IdentityService.identify, once the resolver answered in time.
identify(submission, registration, answer) ==
    IF Usable(answer, submission.subject) THEN answer.identity
    ELSE passthrough_identity(submission, registration)
=============================================================================
