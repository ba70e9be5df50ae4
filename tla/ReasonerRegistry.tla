--------------------------- MODULE ReasonerRegistry ---------------------------
(***************************************************************************)
(* The reasoner registrations a ledger serves: declared at startup by      *)
(* plugins and the registration file, written at runtime over the API, and *)
(* snapshotted so that every version a decision may cite can be replayed   *)
(* (app/reasoner_registry.py, app/api/registrations.py,                    *)
(* app/audit/registrations.py, app/bootstrap.py).                          *)
(*                                                                         *)
(* One ledger process; it may crash between any two steps.  Postgres keeps *)
(* `snapshots' (reasoner_registrations) and `rows' (reasoner_registry);    *)
(* `served' is the process's own map, read without a lock and replaced     *)
(* under it.  Each PUT request runs in a worker thread of its own.  A      *)
(* registration is its content address: a version stands for one content. *)
(***************************************************************************)
EXTENDS Naturals, FiniteSets

CONSTANTS Reasoners,
          Versions,    \* content addresses a reasoner's registration may have
          Writers,     \* PUT requests that may be in progress together
          None,        \* no registration, no holder
          Serves,      \* <<reasoner, version>>: the composed gates can serve it (check_gate_set)
          Disagree     \* {<<r, v>>, <<s, w>>}: they declare one namespace differently

ASSUME RegistryConstants ==
    /\ None \notin Versions
    /\ None \notin Writers
    /\ Serves \subseteq Reasoners \X Versions

VARIABLES snapshots,   \* durable: the versions recorded, as <<reasoner, version>>
          rows,        \* durable: the version each reasoner last wrote over the API
          declared,    \* the deployment's configuration
          process,     \* "down", "loaded" (bootstrapping) or "up"
          served,      \* in memory: the entry of each reasoner
          lock,        \* the writer that holds the registry's lock
          writers      \* each PUT request: [pc, reasoner, version]

registryVars == <<snapshots, rows, declared, process, served, lock, writers>>

Sources == {"api", "declared"}
Entry == [version : Versions, source : Sources]
NoEntry == [version |-> None, source |-> "declared"]

IdleWriter == [pc |-> "idle", reasoner |-> None, version |-> None]

RegistryTypeOK ==
    /\ snapshots \subseteq Reasoners \X Versions
    /\ rows \in [Reasoners -> Versions \cup {None}]
    /\ declared \in [Reasoners -> Versions \cup {None}]
    /\ process \in {"down", "loaded", "up"}
    /\ served \in [Reasoners -> Entry \cup {NoEntry}]
    /\ lock \in Writers \cup {None}
    /\ writers \in [Writers -> [pc : {"idle", "admitted", "saved"},
                                reasoner : Reasoners \cup {None},
                                version : Versions \cup {None}]]

-----------------------------------------------------------------------------
(* What the registry is built from. *)

Registered(entries) == {r \in Reasoners : entries[r] # NoEntry}
VersionsOf(entries) == {<<r, entries[r].version>> : r \in Registered(entries)}

\* declared_namespaces: one native namespace means one thing.
NamespacesAgree(entries) ==
    \A p, q \in VersionsOf(entries) : {p, q} \notin Disagree

\* The declared registrations and the ones loaded from the rows.
Built == [r \in Reasoners |->
            IF declared[r] # None THEN [version |-> declared[r], source |-> "declared"]
            ELSE IF rows[r] # None THEN [version |-> rows[r], source |-> "api"]
            ELSE NoEntry]

\* build_registry refuses a reasoner registered by two sources.
NoDuplicate == \A r \in Reasoners : declared[r] = None \/ rows[r] = None

Admitted(entries) == NamespacesAgree(entries) /\ VersionsOf(entries) \subseteq Serves

-----------------------------------------------------------------------------
(* Startup and failure. *)

RegistryInit ==
    /\ snapshots = {}
    /\ rows = [r \in Reasoners |-> None]
    /\ declared \in [Reasoners -> Versions \cup {None}]
    /\ process = "down"
    /\ served = [r \in Reasoners |-> NoEntry]
    /\ lock = None
    /\ writers = [w \in Writers |-> IdleWriter]

\* The operator changes what a plugin or the registration file declares.
Configure(r, v) ==
    /\ process = "down"
    /\ declared' = [declared EXCEPT ![r] = v]
    /\ UNCHANGED <<snapshots, rows, process, served, lock, writers>>

\* bootstrap: load the rows, build the registry, check the namespaces; any
\* refusal leaves the process down.
BuildRegistry ==
    /\ process = "down"
    /\ NoDuplicate
    /\ NamespacesAgree(Built)
    /\ process' = "loaded"
    /\ served' = Built
    /\ UNCHANGED <<snapshots, rows, declared, lock, writers>>

RecordSnapshot(r) ==
    /\ process = "loaded"
    /\ r \in Registered(served)
    /\ snapshots' = snapshots \cup {<<r, served[r].version>>}
    /\ UNCHANGED <<rows, declared, process, served, lock, writers>>

\* Mutant: the ledger serves before the snapshots are recorded.
FinishBootstrap_Early ==
    /\ process = "loaded"
    /\ VersionsOf(served) \subseteq Serves
    /\ process' = "up"
    /\ UNCHANGED <<snapshots, rows, declared, served, lock, writers>>

\* build_gates checks every registration's gate set before the ledger serves.
FinishBootstrap ==
    /\ process = "loaded"
    /\ VersionsOf(served) \subseteq snapshots
    /\ VersionsOf(served) \subseteq Serves
    /\ process' = "up"
    /\ UNCHANGED <<snapshots, rows, declared, served, lock, writers>>

\* The process dies, or the bootstrap is refused after it loaded the
\* registry: memory and the requests in it are gone.
ProcessGone ==
    /\ process' = "down"
    /\ served' = [r \in Reasoners |-> NoEntry]
    /\ lock' = None
    /\ writers' = [w \in Writers |-> IdleWriter]
    /\ UNCHANGED <<snapshots, rows, declared>>

Crash == process # "down" /\ ProcessGone

-----------------------------------------------------------------------------
(* PUT /reasoners/{id}: admission, the stored write and the swap, all while *)
(* holding the registry's lock.  A refused write (declared configuration,   *)
(* REGISTRATION_SOURCE_IMMUTABLE; an unserviceable or disagreeing           *)
(* registration) and an unchanged one leave everything as it is.            *)

\* The map served after r's entry becomes version v.
With(entries, r, v) == [entries EXCEPT ![r] = [version |-> v, source |-> "api"]]

\* Mutants: admission without the lock; declared configuration replaceable.
AdmitPut_Unlocked(w, r, v) ==
    /\ process = "up"
    /\ writers[w] = IdleWriter
    /\ served[r] # NoEntry => served[r].source = "api"
    /\ Admitted(With(served, r, v))
    /\ lock' = w
    /\ writers' = [writers EXCEPT ![w] = [pc |-> "admitted", reasoner |-> r, version |-> v]]
    /\ UNCHANGED <<snapshots, rows, declared, process, served>>

AdmitPut_AnySource(w, r, v) ==
    /\ process = "up"
    /\ lock = None
    /\ writers[w] = IdleWriter
    /\ served[r].version # v
    /\ Admitted(With(served, r, v))
    /\ lock' = w
    /\ writers' = [writers EXCEPT ![w] = [pc |-> "admitted", reasoner |-> r, version |-> v]]
    /\ UNCHANGED <<snapshots, rows, declared, process, served>>

AdmitPut(w, r, v) ==
    /\ process = "up"
    /\ lock = None
    /\ writers[w] = IdleWriter
    /\ served[r] # NoEntry => served[r].source = "api"
    /\ served[r].version # v
    /\ Admitted(With(served, r, v))
    /\ lock' = w
    /\ writers' = [writers EXCEPT ![w] = [pc |-> "admitted", reasoner |-> r, version |-> v]]
    /\ UNCHANGED <<snapshots, rows, declared, process, served>>

\* ApiRegistrations.save: one statement stores the snapshot and the row.
SavePut(w) ==
    /\ writers[w].pc = "admitted"
    /\ snapshots' = snapshots \cup {<<writers[w].reasoner, writers[w].version>>}
    /\ rows' = [rows EXCEPT ![writers[w].reasoner] = writers[w].version]
    /\ writers' = [writers EXCEPT ![w].pc = "saved"]
    /\ UNCHANGED <<declared, process, served, lock>>

\* The statement fails: the exception leaves the lock, nothing is served.
FailPut(w) ==
    /\ writers[w].pc = "admitted"
    /\ lock' = None
    /\ writers' = [writers EXCEPT ![w] = IdleWriter]
    /\ UNCHANGED <<snapshots, rows, declared, process, served>>

\* The stored version is served from now on; the lock is released and the
\* request answered.
SwapPut(w) ==
    /\ writers[w].pc = "saved"
    /\ served' = With(served, writers[w].reasoner, writers[w].version)
    /\ lock' = None
    /\ writers' = [writers EXCEPT ![w] = IdleWriter]
    /\ UNCHANGED <<snapshots, rows, declared, process>>

-----------------------------------------------------------------------------

PutNext ==
    \E w \in Writers :
      \/ \E r \in Reasoners, v \in Versions : AdmitPut(w, r, v)
      \/ SavePut(w)
      \/ FailPut(w)
      \/ SwapPut(w)

BootstrapNext ==
    \/ BuildRegistry
    \/ \E r \in Reasoners : RecordSnapshot(r)
    \/ FinishBootstrap

RegistryNext ==
    \/ \E r \in Reasoners, v \in Versions \cup {None} : Configure(r, v)
    \/ BootstrapNext
    \/ PutNext
    \/ Crash

RegistrySpec == RegistryInit /\ [][RegistryNext]_registryVars

-----------------------------------------------------------------------------
(* Safety. *)

Up == process = "up"
Swapping(r) == \E w \in Writers : writers[w].pc = "saved" /\ writers[w].reasoner = r

\* Every version a decision can be stamped with has its snapshot before it is
\* served ("a decision that cites it always finds its snapshot").
ServedIsSnapshotted == Up => VersionsOf(served) \subseteq snapshots

\* Two writes never admit against the same state: what is served always
\* agrees on every native namespace and is serviceable by the gates.
ServedIsAdmitted == Up => Admitted(served)

\* What is served is what is stored, except between a write's statement and
\* its swap: an answered write is what a restart serves.
ServedIsStored == Up => \A r \in Reasoners : Swapping(r) \/ served[r] = Built[r]

\* A restart is never refused because of writes the ledger accepted: at every
\* moment of service, a crash included between a write's statement and its
\* swap, bootstrapping on the same configuration succeeds.
RestartIsAccepted == Up => NoDuplicate /\ Admitted(Built)

\* What is declared is never replaced while the process runs.
DeclaredIsImmutable ==
    [][(process # "down" /\ process' # "down") =>
         \A r \in Reasoners :
           (served[r] # NoEntry /\ served[r].source = "declared") => served'[r] = served[r]
      ]_registryVars

-----------------------------------------------------------------------------
(* The registry implements an abstract book of registrations. *)

book == [r \in Reasoners |-> IF Up THEN served[r].version ELSE Built[r].version]

Book == INSTANCE RegistrationBook WITH open <- Up
BookSpec == Book!Spec
=============================================================================
