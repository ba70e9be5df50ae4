---------------------------- MODULE PipelineProofs ----------------------------
(***************************************************************************)
(* Proofs about ReasonerRegistry and DecisionPipeline, for any reasoners,  *)
(* registrations, versions, writers, gates, submissions and resolver       *)
(* answers.  The registry: type correctness, the invariants and the action *)
(* property its run checks; its invariants are not inductive on their own, *)
(* and RegistryInv adds what the lock protects (one writer past admission, *)
(* and the state it was admitted against is still the state served).  The  *)
(* pipeline: a stored bundle accounts for its gate set, never changes, and *)
(* replays to the action it records.                                       *)
(***************************************************************************)
EXTENDS DecisionPipeline, TLAPS

\* A writer is past admission exactly when it holds the lock, and only while
\* the ledger serves.
LockHeld ==
    \A w \in Writers :
      IF lock = w
      THEN /\ process = "up"
           /\ writers[w].pc \in {"admitted", "saved"}
           /\ writers[w].reasoner \in Reasoners
           /\ writers[w].version \in Versions
      ELSE writers[w] = IdleWriter

\* What the lock's holder was admitted against has not changed: the reasoner is
\* not declared, and the registry with its version is admitted.
AdmissionStands ==
    \A w \in Writers : lock = w =>
      LET r == writers[w].reasoner IN
      /\ served[r] # NoEntry => served[r].source = "api"
      /\ declared[r] = None
      /\ Admitted(With(served, r, writers[w].version))
      /\ writers[w].pc = "saved" =>
           rows[r] = writers[w].version /\ <<r, writers[w].version>> \in snapshots

\* What is served is what is stored, but for the reasoner being swapped.
ServesStored ==
    process # "down" =>
      \A r \in Reasoners :
        \/ \E w \in Writers : lock = w /\ writers[w].pc = "saved" /\ writers[w].reasoner = r
        \/ served[r] = Built[r]

RegistryInv ==
    /\ RegistryTypeOK
    /\ LockHeld
    /\ AdmissionStands
    /\ ServesStored
    /\ process # "down" => NoDuplicate
    /\ process = "loaded" => NamespacesAgree(served)
    /\ process = "up" => VersionsOf(served) \subseteq snapshots /\ Admitted(served)

-----------------------------------------------------------------------------
(* Lemmas about the registry that is built and the one a write makes. *)

LEMMA BuiltType ==
    ASSUME RegistryTypeOK
    PROVE  Built \in [Reasoners -> Entry \cup {NoEntry}]
BY DEF RegistryTypeOK, Built, Entry, NoEntry, Sources

LEMMA WithType ==
    ASSUME NEW entries \in [Reasoners -> Entry \cup {NoEntry}],
           NEW r \in Reasoners, NEW v \in Versions
    PROVE  /\ With(entries, r, v) \in [Reasoners -> Entry \cup {NoEntry}]
           /\ With(entries, r, v)[r] = [version |-> v, source |-> "api"]
           /\ With(entries, r, v)[r] # NoEntry
           /\ \A q \in Reasoners : q # r => With(entries, r, v)[q] = entries[q]
BY DEF With, Entry, NoEntry, Sources

\* A write adds at most its own version to the versions served.
LEMMA WithVersions ==
    ASSUME NEW entries \in [Reasoners -> Entry \cup {NoEntry}],
           NEW r \in Reasoners, NEW v \in Versions
    PROVE  VersionsOf(With(entries, r, v)) \subseteq VersionsOf(entries) \cup {<<r, v>>}
<1>1. SUFFICES ASSUME NEW q \in Reasoners, With(entries, r, v)[q] # NoEntry
               PROVE  <<q, With(entries, r, v)[q].version>> \in VersionsOf(entries) \cup {<<r, v>>}
  BY DEF VersionsOf, Registered
<1>2. CASE q = r
  BY <1>2 DEF With
<1>3. CASE q # r
  <2>1. With(entries, r, v)[q] = entries[q]
    BY <1>3 DEF With
  <2> QED BY <1>1, <2>1 DEF VersionsOf, Registered
<1> QED BY <1>2, <1>3

\* Without a duplicate, a reasoner's stored entry is its row's or what the
\* deployment declares.
LEMMA BuiltIsStored ==
    ASSUME NEW r \in Reasoners
    PROVE  /\ declared[r] # None => Built[r] = [version |-> declared[r], source |-> "declared"]
           /\ (declared[r] = None /\ rows[r] # None) => Built[r] = [version |-> rows[r], source |-> "api"]
           /\ (declared[r] = None /\ rows[r] = None) => Built[r] = NoEntry
BY DEF Built

-----------------------------------------------------------------------------
(* The inductive invariant. *)

LEMMA TypeInit == RegistryInit => RegistryTypeOK
BY RegistryConstants DEF RegistryInit, RegistryTypeOK, IdleWriter, NoEntry

LEMMA InvInit == RegistryInit => RegistryInv
<1> SUFFICES ASSUME RegistryInit PROVE RegistryInv
    OBVIOUS
<1>1. RegistryTypeOK
  BY TypeInit
<1> QED
  BY <1>1, RegistryConstants
  DEF RegistryInit, RegistryInv, LockHeld, AdmissionStands, ServesStored

\* The steps of the bootstrap and of the operator happen while no writer runs.
LEMMA BootStep ==
    ASSUME RegistryInv,
           \/ \E r \in Reasoners, v \in Versions \cup {None} : Configure(r, v)
           \/ BootstrapNext
    PROVE  RegistryInv'
<1> USE RegistryConstants
<1>1. process # "up"
  BY DEF Configure, BootstrapNext, BuildRegistry, RecordSnapshot, FinishBootstrap
<1>2. lock = None /\ \A w \in Writers : writers[w] = IdleWriter
  BY <1>1 DEF RegistryInv, RegistryTypeOK, LockHeld
<1>3. UNCHANGED <<lock, writers>>
  BY DEF Configure, BootstrapNext, BuildRegistry, RecordSnapshot, FinishBootstrap
<1>4. LockHeld' /\ AdmissionStands'
  BY <1>2, <1>3 DEF LockHeld, AdmissionStands
<1>5. ASSUME NEW r \in Reasoners, NEW v \in Versions \cup {None}, Configure(r, v)
      PROVE  RegistryInv'
  <2>1. RegistryTypeOK'
    BY <1>5 DEF Configure, RegistryInv, RegistryTypeOK
  <2> QED BY <1>4, <1>5, <2>1 DEF Configure, RegistryInv, ServesStored
<1>6. CASE BuildRegistry
  <2>1. RegistryTypeOK'
    BY <1>6, BuiltType DEF BuildRegistry, RegistryInv, RegistryTypeOK
  <2>2. Built' = Built /\ NoDuplicate'
    BY <1>6 DEF BuildRegistry, Built, NoDuplicate
  <2>3. NamespacesAgree(served)'
    BY <1>6 DEF BuildRegistry, NamespacesAgree, VersionsOf, Registered
  <2> QED BY <1>4, <1>6, <2>1, <2>2, <2>3 DEF BuildRegistry, RegistryInv, ServesStored
<1>7. ASSUME NEW r \in Reasoners, RecordSnapshot(r)
      PROVE  RegistryInv'
  <2>1. RegistryTypeOK'
    BY <1>7 DEF RecordSnapshot, RegistryInv, RegistryTypeOK, Registered, Entry, NoEntry
  <2>2. Built' = Built /\ NoDuplicate' = NoDuplicate /\ NamespacesAgree(served)' = NamespacesAgree(served)
    BY <1>7 DEF RecordSnapshot, Built, NoDuplicate, NamespacesAgree, VersionsOf, Registered
  <2> QED BY <1>2, <1>4, <1>7, <2>1, <2>2 DEF RecordSnapshot, RegistryInv, ServesStored
<1>8. CASE FinishBootstrap
  <2>1. RegistryTypeOK'
    BY <1>8 DEF FinishBootstrap, RegistryInv, RegistryTypeOK
  <2>2. Built' = Built /\ NoDuplicate' = NoDuplicate /\ VersionsOf(served)' = VersionsOf(served)
    BY <1>8 DEF FinishBootstrap, Built, NoDuplicate, VersionsOf, Registered
  <2>3. Admitted(served)' = Admitted(served)
    BY <1>8, <2>2 DEF FinishBootstrap, Admitted, NamespacesAgree
  <2>4. Admitted(served)
    BY <1>8 DEF FinishBootstrap, RegistryInv, Admitted
  <2> QED BY <1>2, <1>4, <1>8, <2>1, <2>2, <2>3, <2>4 DEF FinishBootstrap, RegistryInv, ServesStored
<1> QED BY <1>5, <1>6, <1>7, <1>8 DEF BootstrapNext

LEMMA CrashStep == RegistryInv /\ Crash => RegistryInv'
<1> SUFFICES ASSUME RegistryInv, Crash PROVE RegistryInv'
    OBVIOUS
<1>1. RegistryTypeOK'
  BY DEF Crash, ProcessGone, RegistryInv, RegistryTypeOK, IdleWriter
<1> QED
  BY <1>1, RegistryConstants
  DEF Crash, ProcessGone, RegistryInv, LockHeld, AdmissionStands, ServesStored

-----------------------------------------------------------------------------
(* The steps of a write, one lemma each. *)

\* A writer that is past admission holds the lock; its fields are typed.
LEMMA HoldsLock ==
    ASSUME RegistryInv, NEW w \in Writers, writers[w].pc \in {"admitted", "saved"}
    PROVE  /\ lock = w /\ process = "up"
           /\ writers[w].reasoner \in Reasoners
           /\ writers[w].version \in Versions
           /\ \A u \in Writers : u # w => writers[u] = IdleWriter
BY DEF RegistryInv, LockHeld, IdleWriter

LEMMA AdmitStep ==
    ASSUME RegistryInv, NEW w \in Writers, NEW r \in Reasoners, NEW v \in Versions,
           AdmitPut(w, r, v)
    PROVE  RegistryInv'
<1> USE RegistryConstants
<1>1. RegistryTypeOK'
  BY DEF AdmitPut, RegistryInv, RegistryTypeOK
<1>2. /\ writers'[w] = [pc |-> "admitted", reasoner |-> r, version |-> v]
      /\ \A u \in Writers : u # w => writers'[u] = IdleWriter
  BY DEF AdmitPut, RegistryInv, RegistryTypeOK, LockHeld
<1>3. LockHeld'
  BY <1>2 DEF AdmitPut, LockHeld
<1>4. \A q \in Reasoners : served[q] = Built[q]
  BY DEF AdmitPut, RegistryInv, ServesStored
<1>5. declared[r] = None
  <2>1. SUFFICES ASSUME declared[r] # None PROVE FALSE
    OBVIOUS
  <2>2. served[r] = [version |-> declared[r], source |-> "declared"]
    BY <1>4, <2>1, BuiltIsStored
  <2>3. served[r] # NoEntry
    BY <2>1, <2>2 DEF NoEntry
  <2> QED BY <2>2, <2>3 DEF AdmitPut
<1>6. AdmissionStands'
  <2>1. SUFFICES ASSUME NEW u \in Writers, lock' = u
                 PROVE  /\ u = w
                        /\ served'[r] # NoEntry => served'[r].source = "api"
                        /\ declared'[r] = None
                        /\ Admitted(With(served, r, v))'
    BY <1>2 DEF AdmissionStands
  <2>2. Admitted(With(served, r, v))'
    BY DEF AdmitPut, Admitted, NamespacesAgree, VersionsOf, Registered, With
  <2> QED BY <1>5, <2>1, <2>2 DEF AdmitPut, NoEntry
<1>7. /\ Built' = Built
      /\ VersionsOf(served)' = VersionsOf(served)
      /\ NoDuplicate' = NoDuplicate
      /\ Admitted(served)' = Admitted(served)
  BY DEF AdmitPut, Built, VersionsOf, Registered, NoDuplicate, Admitted, NamespacesAgree
<1> QED
  BY <1>1, <1>3, <1>4, <1>6, <1>7 DEF AdmitPut, RegistryInv, ServesStored

LEMMA SaveStep ==
    ASSUME RegistryInv, NEW w \in Writers, SavePut(w)
    PROVE  RegistryInv'
<1> DEFINE r == writers[w].reasoner
           v == writers[w].version
<1>1. writers[w].pc = "admitted"
  BY DEF SavePut
<1>2. /\ lock = w /\ process = "up" /\ r \in Reasoners /\ v \in Versions
      /\ \A u \in Writers : u # w => writers[u] = IdleWriter
  BY <1>1, HoldsLock
<1>3. RegistryTypeOK'
  BY <1>2 DEF SavePut, RegistryInv, RegistryTypeOK
<1>4. writers'[w] = [pc |-> "saved", reasoner |-> r, version |-> v]
  BY <1>2 DEF SavePut, RegistryInv, RegistryTypeOK
<1>5. \A u \in Writers : u # w => writers'[u] = IdleWriter
  BY <1>2 DEF SavePut, RegistryInv, RegistryTypeOK
<1>6. LockHeld'
  BY <1>2, <1>4, <1>5 DEF SavePut, LockHeld
<1>7. rows'[r] = v /\ <<r, v>> \in snapshots' /\ \A q \in Reasoners : q # r => rows'[q] = rows[q]
  BY <1>2 DEF SavePut, RegistryInv, RegistryTypeOK
<1>8. /\ served[r] # NoEntry => served[r].source = "api"
      /\ declared[r] = None
      /\ Admitted(With(served, r, v))
  BY <1>2 DEF RegistryInv, AdmissionStands
<1>9. AdmissionStands'
  BY <1>2, <1>4, <1>7, <1>8
  DEF SavePut, AdmissionStands, Admitted, NamespacesAgree, VersionsOf, Registered, With, NoEntry
<1>10. \A q \in Reasoners : served[q] = Built[q]
  BY <1>1, <1>2 DEF RegistryInv, ServesStored
<1>11. \A q \in Reasoners : q # r => Built'[q] = Built[q]
  BY <1>7 DEF SavePut, Built
<1>12. ServesStored'
  BY <1>2, <1>4, <1>10, <1>11 DEF SavePut, ServesStored
<1>13. NoDuplicate'
  BY <1>2, <1>7, <1>8 DEF SavePut, RegistryInv, NoDuplicate
<1>14. /\ VersionsOf(served)' = VersionsOf(served)
       /\ Admitted(served)' = Admitted(served)
  BY DEF SavePut, VersionsOf, Registered, Admitted, NamespacesAgree
<1> QED
  BY <1>2, <1>3, <1>6, <1>9, <1>12, <1>13, <1>14 DEF SavePut, RegistryInv

LEMMA FailStep ==
    ASSUME RegistryInv, NEW w \in Writers, FailPut(w)
    PROVE  RegistryInv'
<1> USE RegistryConstants
<1>1. writers[w].pc = "admitted"
  BY DEF FailPut
<1>2. /\ lock = w /\ process = "up"
      /\ \A u \in Writers : u # w => writers[u] = IdleWriter
  BY <1>1, HoldsLock
<1>3. RegistryTypeOK'
  BY DEF FailPut, RegistryInv, RegistryTypeOK, IdleWriter
<1>4. \A u \in Writers : writers'[u] = IdleWriter
  BY <1>2 DEF FailPut, RegistryInv, RegistryTypeOK
<1>5. LockHeld' /\ AdmissionStands'
  BY <1>4 DEF FailPut, LockHeld, AdmissionStands
<1>6. \A q \in Reasoners : served[q] = Built[q]
  BY <1>1, <1>2 DEF RegistryInv, ServesStored
<1>7. /\ Built' = Built
      /\ VersionsOf(served)' = VersionsOf(served)
      /\ NoDuplicate' = NoDuplicate
      /\ Admitted(served)' = Admitted(served)
  BY DEF FailPut, Built, VersionsOf, Registered, NoDuplicate, Admitted, NamespacesAgree
<1> QED
  BY <1>2, <1>3, <1>5, <1>6, <1>7 DEF FailPut, RegistryInv, ServesStored

LEMMA SwapStep ==
    ASSUME RegistryInv, NEW w \in Writers, SwapPut(w)
    PROVE  RegistryInv'
<1> USE RegistryConstants
<1> DEFINE r == writers[w].reasoner
           v == writers[w].version
<1>1. writers[w].pc = "saved"
  BY DEF SwapPut
<1>2. /\ lock = w /\ process = "up" /\ r \in Reasoners /\ v \in Versions
      /\ \A u \in Writers : u # w => writers[u] = IdleWriter
  BY <1>1, HoldsLock
<1>3. served' = With(served, r, v)
  BY DEF SwapPut
<1>4. served \in [Reasoners -> Entry \cup {NoEntry}]
  BY DEF RegistryInv, RegistryTypeOK
<1>5. RegistryTypeOK'
  <2>1. served' \in [Reasoners -> Entry \cup {NoEntry}]
    BY <1>2, <1>3, <1>4, WithType
  <2> QED BY <2>1 DEF SwapPut, RegistryInv, RegistryTypeOK, IdleWriter
<1>6. \A u \in Writers : writers'[u] = IdleWriter
  BY <1>2 DEF SwapPut, RegistryInv, RegistryTypeOK
<1>7. LockHeld' /\ AdmissionStands'
  BY <1>6 DEF SwapPut, LockHeld, AdmissionStands
<1>8. rows[r] = v /\ <<r, v>> \in snapshots /\ declared[r] = None /\ Admitted(With(served, r, v))
  BY <1>1, <1>2 DEF RegistryInv, AdmissionStands
<1>9. ServesStored'
  <2>1. SUFFICES ASSUME NEW q \in Reasoners PROVE served'[q] = Built'[q]
    BY DEF ServesStored
  <2>2. Built'[q] = Built[q]
    BY DEF SwapPut, Built
  <2>3. CASE q = r
    <3>1. served'[q] = [version |-> v, source |-> "api"]
      BY <1>3, <1>4, <2>3 DEF With
    <3>2. Built[q] = [version |-> v, source |-> "api"]
      BY <1>2, <1>8, <2>3 DEF Built
    <3> QED BY <2>2, <3>1, <3>2
  <2>4. CASE q # r
    <3>1. served[q] = Built[q]
      BY <1>2, <2>4 DEF RegistryInv, ServesStored
    <3>2. served'[q] = served[q]
      BY <1>3, <2>4 DEF With
    <3> QED BY <2>2, <3>1, <3>2
  <2> QED BY <2>3, <2>4
<1>10. NoDuplicate'
  BY <1>2 DEF SwapPut, RegistryInv, NoDuplicate
<1>11. VersionsOf(served)' \subseteq snapshots'
  <2>1. VersionsOf(With(served, r, v)) \subseteq VersionsOf(served) \cup {<<r, v>>}
    BY <1>2, <1>4, WithVersions
  <2>2. VersionsOf(served)' = VersionsOf(With(served, r, v))
    BY <1>3 DEF VersionsOf, Registered
  <2> QED BY <1>2, <1>8, <2>1, <2>2 DEF SwapPut, RegistryInv
<1>12. Admitted(served)'
  BY <1>3, <1>8 DEF Admitted, NamespacesAgree, VersionsOf, Registered
<1> QED
  BY <1>2, <1>5, <1>7, <1>9, <1>10, <1>11, <1>12 DEF SwapPut, RegistryInv

-----------------------------------------------------------------------------
(* What a restart would build while the ledger serves. *)

\* Built while a write is stored but not swapped is what the swap would serve.
LEMMA BuiltWhileSaved ==
    ASSUME RegistryInv, NEW w \in Writers, lock = w, writers[w].pc = "saved"
    PROVE  Built = With(served, writers[w].reasoner, writers[w].version)
<1> DEFINE r == writers[w].reasoner
           v == writers[w].version
<1>1. served \in [Reasoners -> Entry \cup {NoEntry}]
  BY DEF RegistryInv, RegistryTypeOK
<1>2. r \in Reasoners /\ v \in Versions /\ process = "up"
  BY HoldsLock
<1>3. rows[r] = v /\ declared[r] = None
  BY DEF RegistryInv, AdmissionStands
<1>4. ASSUME NEW q \in Reasoners PROVE Built[q] = With(served, r, v)[q]
  <2>1. CASE q = r
    <3>1. Built[q] = [version |-> v, source |-> "api"]
      BY <1>2, <1>3, <2>1, RegistryConstants DEF Built
    <3> QED BY <1>1, <2>1, <3>1 DEF With
  <2>2. CASE q # r
    <3>1. Built[q] = served[q]
      BY <1>2, <2>2 DEF RegistryInv, ServesStored
    <3> QED BY <1>1, <2>2, <3>1 DEF With
  <2> QED BY <2>1, <2>2
<1>5. With(served, r, v) \in [Reasoners -> Entry \cup {NoEntry}]
  BY <1>1, <1>2, WithType
<1>6. Built \in [Reasoners -> Entry \cup {NoEntry}]
  BY BuiltType DEF RegistryInv
<1> QED BY <1>4, <1>5, <1>6

\* Nothing being swapped, what is built is what is served.
LEMMA BuiltIsServed ==
    ASSUME RegistryInv, process # "down", ~ \E w \in Writers : lock = w /\ writers[w].pc = "saved"
    PROVE  Built = served
<1>1. served \in [Reasoners -> Entry \cup {NoEntry}]
  BY DEF RegistryInv, RegistryTypeOK
<1>2. Built \in [Reasoners -> Entry \cup {NoEntry}]
  BY BuiltType DEF RegistryInv
<1>3. ASSUME NEW q \in Reasoners PROVE Built[q] = served[q]
  BY DEF RegistryInv, ServesStored
<1> QED BY <1>1, <1>2, <1>3

-----------------------------------------------------------------------------
(* The invariant is inductive, and implies what the run checks. *)

LEMMA InvStep == RegistryInv /\ [RegistryNext]_registryVars => RegistryInv'
<1> SUFFICES ASSUME RegistryInv, [RegistryNext]_registryVars
             PROVE  RegistryInv'
    OBVIOUS
<1>1. CASE \/ \E r \in Reasoners, v \in Versions \cup {None} : Configure(r, v)
           \/ BootstrapNext
  BY <1>1, BootStep
<1>2. CASE Crash
  BY <1>2, CrashStep
<1>3. CASE PutNext
  BY <1>3, AdmitStep, SaveStep, FailStep, SwapStep DEF PutNext
<1>4. CASE UNCHANGED registryVars
  <2>1. Built' = Built /\ NoDuplicate' = NoDuplicate
    BY <1>4 DEF registryVars, Built, NoDuplicate
  <2>2. RegistryTypeOK' /\ LockHeld' /\ ServesStored'
    BY <1>4, <2>1 DEF registryVars, RegistryInv, RegistryTypeOK, LockHeld, ServesStored
  <2>3. VersionsOf(served)' = VersionsOf(served) /\ NamespacesAgree(served)' = NamespacesAgree(served)
    BY <1>4 DEF registryVars, VersionsOf, Registered, NamespacesAgree
  <2>4. Admitted(served)' = Admitted(served)
    BY <1>4, <2>3 DEF registryVars, Admitted
  <2>5. AdmissionStands'
    BY <1>4 DEF registryVars, RegistryInv, AdmissionStands, Admitted, NamespacesAgree,
                VersionsOf, Registered, With
  <2> QED BY <1>4, <2>1, <2>2, <2>3, <2>4, <2>5 DEF registryVars, RegistryInv
<1> QED BY <1>1, <1>2, <1>3, <1>4 DEF RegistryNext

THEOREM Invariance == RegistrySpec => []RegistryInv
BY InvInit, InvStep, PTL DEF RegistrySpec

\* Type correctness: every variable keeps its type through bootstraps, writes,
\* failures and crashes.
THEOREM TypeCorrect == RegistrySpec => []RegistryTypeOK
BY Invariance, PTL DEF RegistryInv

\* Every version a decision can be stamped with was snapshotted before it was
\* served, so that replay finds it.
THEOREM SnapshotsCoverService == RegistrySpec => []ServedIsSnapshotted
<1>1. RegistryInv => ServedIsSnapshotted
  BY DEF RegistryInv, ServedIsSnapshotted, Up
<1> QED BY <1>1, Invariance, PTL

\* However many writes race, what is served was admitted as a whole.
THEOREM ServiceIsAdmitted == RegistrySpec => []ServedIsAdmitted
<1>1. RegistryInv => ServedIsAdmitted
  BY DEF RegistryInv, ServedIsAdmitted, Up
<1> QED BY <1>1, Invariance, PTL

\* What is served is what a restart would load, but for the write being swapped.
THEOREM ServiceIsStored == RegistrySpec => []ServedIsStored
<1>1. RegistryInv => ServedIsStored
  BY DEF RegistryInv, ServesStored, ServedIsStored, Up, Swapping
<1> QED BY <1>1, Invariance, PTL

\* A restart is accepted at every moment of service, a crash between a write's
\* statement and its swap included.
THEOREM RestartAccepted == RegistrySpec => []RestartIsAccepted
<1>1. RegistryInv => RestartIsAccepted
  <2>1. SUFFICES ASSUME RegistryInv, process = "up" PROVE Admitted(Built)
    BY DEF RegistryInv, RestartIsAccepted, Up
  <2>2. CASE \E w \in Writers : lock = w /\ writers[w].pc = "saved"
    <3>1. PICK w \in Writers : lock = w /\ writers[w].pc = "saved"
      BY <2>2
    <3>2. Built = With(served, writers[w].reasoner, writers[w].version)
      BY <2>1, <3>1, BuiltWhileSaved
    <3> QED BY <2>1, <3>1, <3>2 DEF RegistryInv, AdmissionStands
  <2>3. CASE ~ \E w \in Writers : lock = w /\ writers[w].pc = "saved"
    <3>1. Built = served
      BY <2>1, <2>3, BuiltIsServed
    <3> QED BY <2>1, <3>1 DEF RegistryInv
  <2> QED BY <2>2, <2>3
<1> QED BY <1>1, Invariance, PTL

\* No write over the API replaces what the deployment declares.
THEOREM DeclaredStands == RegistrySpec => DeclaredIsImmutable
<1>1. RegistryInv /\ [RegistryNext]_registryVars =>
        [(process # "down" /\ process' # "down") =>
           \A r \in Reasoners :
             (served[r] # NoEntry /\ served[r].source = "declared") => served'[r] = served[r]
        ]_registryVars
  <2>1. SUFFICES ASSUME RegistryInv, RegistryNext, process # "down", process' # "down",
                        NEW r \in Reasoners, served[r] # NoEntry, served[r].source = "declared"
                 PROVE  served'[r] = served[r]
    BY DEF registryVars
  <2>2. CASE served' = served
    BY <2>2
  <2>3. ASSUME NEW w \in Writers, SwapPut(w)
        PROVE  served'[r] = served[r]
    <3>1. writers[w].pc = "saved"
      BY <2>3 DEF SwapPut
    <3>2. lock = w
      BY <2>1, <3>1, HoldsLock
    <3>3. r # writers[w].reasoner
      BY <2>1, <3>2 DEF RegistryInv, AdmissionStands
    <3> QED BY <2>3, <3>3 DEF SwapPut, With
  <2> QED
    BY <2>1, <2>2, <2>3
    DEF RegistryNext, BootstrapNext, PutNext, Configure, BuildRegistry, RecordSnapshot,
        FinishBootstrap, Crash, ProcessGone, AdmitPut, SavePut, FailPut
<1> QED BY <1>1, Invariance, PTL DEF RegistrySpec, DeclaredIsImmutable

-----------------------------------------------------------------------------
(* The registry implements the book of registrations. *)

\* The book holds the versions of the map it is read from, so the book is
\* admitted when the map is.
LEMMA VersionsOfBook ==
    ASSUME NEW entries \in [Reasoners -> Entry \cup {NoEntry}], NEW r \in Reasoners
    PROVE  /\ entries[r].version \in Versions \cup {None}
           /\ entries[r].version # None <=> entries[r] # NoEntry
BY RegistryConstants DEF Entry, NoEntry, Sources

LEMMA BookIsBuilt ==
    ASSUME RegistryTypeOK, process # "up"
    PROVE  book = [r \in Reasoners |-> Built[r].version]
BY DEF book, Up

LEMMA BookIsServed ==
    ASSUME process = "up"
    PROVE  book = [r \in Reasoners |-> served[r].version]
BY DEF book, Up

LEMMA BookInit == RegistryInit => Book!Init
<1> SUFFICES ASSUME RegistryInit PROVE Book!Init
    OBVIOUS
<1>1. RegistryTypeOK
  BY TypeInit
<1>2. Built \in [Reasoners -> Entry \cup {NoEntry}]
  BY <1>1, BuiltType
<1>3. ~Up
  BY DEF RegistryInit, Up
<1>4. book \in [Reasoners -> Versions \cup {None}]
  BY <1>2, <1>3, VersionsOfBook DEF book
<1> QED BY <1>3, <1>4 DEF Book!Init

\* A write that takes effect, at its swap or at the crash that cuts it short,
\* changes the book by one admitted version.
LEMMA BookWrite ==
    ASSUME RegistryInv, NEW w \in Writers, lock = w, writers[w].pc = "saved",
           book' = [q \in Reasoners |->
                      With(served, writers[w].reasoner, writers[w].version)[q].version]
    PROVE  Book!Write
<1> DEFINE r == writers[w].reasoner
           v == writers[w].version
           after == With(served, r, v)
<1>1. r \in Reasoners /\ v \in Versions /\ process = "up"
  BY HoldsLock
<1>2. served \in [Reasoners -> Entry \cup {NoEntry}]
  BY DEF RegistryInv, RegistryTypeOK
<1>3. after \in [Reasoners -> Entry \cup {NoEntry}]
  BY <1>1, <1>2, WithType
<1>4. book' = [book EXCEPT ![r] = v]
  <2>1. book = [q \in Reasoners |-> served[q].version]
    BY <1>1, BookIsServed
  <2>2. ASSUME NEW q \in Reasoners
        PROVE  after[q].version = IF q = r THEN v ELSE served[q].version
    BY <1>1, <1>2 DEF With
  <2> QED BY <1>1, <2>1, <2>2
<1>5. Admitted(after)
  BY DEF RegistryInv, AdmissionStands
<1>6. {<<q, book'[q]>> : q \in {p \in Reasoners : book'[p] # None}} = VersionsOf(after)
  <2>1. \A q \in Reasoners : book'[q] = after[q].version
    OBVIOUS
  <2>2. \A q \in Reasoners : book'[q] # None <=> q \in Registered(after)
    BY <1>3, <2>1, VersionsOfBook DEF Registered
  <2> QED BY <2>1, <2>2 DEF VersionsOf, Registered
<1>7. Book!BookAdmitted'
  BY <1>5, <1>6 DEF Book!BookAdmitted, Book!BookEntries, Admitted, NamespacesAgree
<1> QED BY <1>1, <1>4, <1>7 DEF Book!Write

LEMMA BookStep ==
    ASSUME RegistryInv, RegistryInv', [RegistryNext]_registryVars
    PROVE  [Book!Next]_<<book, Up>>
<1> USE RegistryConstants
<1> SUFFICES ASSUME RegistryNext PROVE Book!Next \/ UNCHANGED <<book, Up>>
  BY DEF registryVars, book, Up, Built
<1>1. ASSUME NEW r \in Reasoners, NEW v \in Versions \cup {None}, Configure(r, v)
      PROVE  Book!Reconfigure
  <2>1. ~Up /\ ~Up'
    BY <1>1 DEF Configure, Up
  <2>2. book = [q \in Reasoners |-> Built[q].version] /\ book' = [q \in Reasoners |-> Built'[q].version]
    BY <2>1 DEF book
  <2>3. \A q \in Reasoners : q # r => Built'[q] = Built[q]
    BY <1>1 DEF Configure, Built
  <2>4. Built'[r].version \in Versions \cup {None}
    <3>1. Built' \in [Reasoners -> Entry \cup {NoEntry}]
      BY DEF RegistryInv, RegistryTypeOK, Built, Entry, NoEntry, Sources
    <3> QED BY <3>1, VersionsOfBook
  <2>5. book' = [book EXCEPT ![r] = Built'[r].version]
    BY <2>2, <2>3
  <2> QED BY <2>1, <2>4, <2>5 DEF Book!Reconfigure
<1>2. CASE BuildRegistry \/ \E r \in Reasoners : RecordSnapshot(r)
  BY <1>2 DEF BuildRegistry, RecordSnapshot, book, Up, Built
<1>3. CASE FinishBootstrap
  <2>1. ~Up /\ Up' /\ served' = served /\ Built' = Built
    BY <1>3 DEF FinishBootstrap, Up, Built
  <2>2. process = "loaded"
    BY <1>3 DEF FinishBootstrap
  <2>3. \A w \in Writers : lock # w
    BY <2>2 DEF RegistryInv, LockHeld
  <2>4. Built = served
    BY <2>2, <2>3, BuiltIsServed
  <2>5. book = [q \in Reasoners |-> served[q].version] /\ book' = book
    BY <2>1, <2>4 DEF book
  <2>6. Admitted(served)
    BY <1>3, <2>2 DEF FinishBootstrap, RegistryInv, Admitted
  <2>7. Book!BookEntries = VersionsOf(served)
    <3>1. served \in [Reasoners -> Entry \cup {NoEntry}]
      BY DEF RegistryInv, RegistryTypeOK
    <3>2. \A q \in Reasoners : book[q] = served[q].version
      BY <2>5
    <3>3. \A q \in Reasoners : book[q] # None <=> q \in Registered(served)
      BY <3>1, <3>2, VersionsOfBook DEF Registered
    <3> QED BY <3>2, <3>3 DEF Book!BookEntries, VersionsOf, Registered
  <2>8. Book!BookAdmitted
    BY <2>6, <2>7 DEF Book!BookAdmitted, Admitted, NamespacesAgree
  <2> QED BY <2>1, <2>5, <2>8 DEF Book!Next, Book!Open
<1>4. CASE Crash
  <2>1. ~Up' /\ Built' = Built /\ book' = [q \in Reasoners |-> Built[q].version]
    BY <1>4 DEF Crash, ProcessGone, Up, Built, book
  <2>2. CASE ~Up
    <3>1. Up' = Up
      BY <1>4, <2>2 DEF Crash, ProcessGone, Up
    <3>2. book' = book
      BY <2>1, <2>2 DEF book
    <3> QED BY <3>1, <3>2
  <2>3. CASE Up /\ \E w \in Writers : lock = w /\ writers[w].pc = "saved"
    <3>1. PICK w \in Writers : lock = w /\ writers[w].pc = "saved"
      BY <2>3
    <3>2. Built = With(served, writers[w].reasoner, writers[w].version)
      BY <3>1, BuiltWhileSaved
    <3>3. Book!Write
      BY <2>1, <3>1, <3>2, BookWrite
    <3> QED BY <2>1, <2>3, <3>3 DEF Book!Next, Book!Close
  <2>4. CASE Up /\ ~ \E w \in Writers : lock = w /\ writers[w].pc = "saved"
    <3>1. Built = served
      BY <2>4, BuiltIsServed DEF Up
    <3>2. book' = book
      BY <2>1, <2>4, <3>1 DEF book
    <3> QED BY <2>1, <2>4, <3>2 DEF Book!Next, Book!Close
  <2> QED BY <2>2, <2>3, <2>4
<1>5. ASSUME NEW w \in Writers, NEW r \in Reasoners, NEW v \in Versions, AdmitPut(w, r, v)
      PROVE  UNCHANGED <<book, Up>>
  BY <1>5 DEF AdmitPut, book, Up
<1>6. ASSUME NEW w \in Writers, SavePut(w) \/ FailPut(w)
      PROVE  UNCHANGED <<book, Up>>
  <2>1. process = "up"
    BY <1>6, HoldsLock DEF SavePut, FailPut
  <2> QED BY <1>6, <2>1 DEF SavePut, FailPut, book, Up
<1>7. ASSUME NEW w \in Writers, SwapPut(w)
      PROVE  Book!Record
  <2>1. writers[w].pc = "saved"
    BY <1>7 DEF SwapPut
  <2>2. lock = w /\ process = "up"
    BY <2>1, HoldsLock
  <2>3. Up /\ Up' /\ served' = With(served, writers[w].reasoner, writers[w].version)
    BY <1>7, <2>2 DEF SwapPut, Up
  <2>4. book' = [q \in Reasoners |->
                   With(served, writers[w].reasoner, writers[w].version)[q].version]
    BY <2>3 DEF book
  <2> QED BY <2>1, <2>2, <2>3, <2>4, BookWrite DEF Book!Record
<1> QED
  BY <1>1, <1>2, <1>3, <1>4, <1>5, <1>6, <1>7
  DEF RegistryNext, BootstrapNext, PutNext, Book!Next

\* The registry, with its lock, its two tables and its crashes, is one book in
\* which each write happens once or not at all.
THEOREM ImplementsBook == RegistrySpec => BookSpec
BY BookInit, BookStep, Invariance, PTL DEF RegistrySpec, BookSpec, Book!Spec

-----------------------------------------------------------------------------
(* The decision pipeline. *)

Deciding == {"mandatory", "advisory", "enforce", "write", "respond"}
Recorded == {"enforce", "write", "respond"}

\* The record of a gate that ended, as run_gate_set makes it.
EndedRecord(recs, g, registration) ==
    /\ recs[g] = [mandatory |-> effective_gate_set(registration)[g], status |-> recs[g].status,
                  output |-> recs[g].output,
                  enforcement |-> resolve_gate_output(recs[g].output, registration.groups)]
    /\ recs[g].status \in {"ran", "failed"}
    /\ recs[g].status = "ran" => (recs[g].output.deterministic <=> g \in Deterministic)

\* The record of a gate that was skipped, and why it was.
SkippedRecord(recs, g, registration, mode) ==
    /\ recs[g] = [mandatory |-> FALSE, status |-> "skipped", output |-> NoOutput,
                  enforcement |-> Undecided]
    /\ ~effective_gate_set(registration)[g]
    /\ \/ mode = "record"
       \/ \E h \in DOMAIN recs : recs[h].mandatory /\ recs[h].enforcement.action = "BLOCK"

\* The records of a whole gate set.
CompleteRecords(recs, registration, mode) ==
    /\ recs = [g \in DOMAIN recs |-> recs[g]]
    /\ DOMAIN recs = DOMAIN effective_gate_set(registration)
    /\ \A g \in DOMAIN recs :
         EndedRecord(recs, g, registration) \/ SkippedRecord(recs, g, registration, mode)

PipelineDomains ==
    /\ DOMAIN stage = Decisions /\ DOMAIN submission = Decisions /\ DOMAIN version = Decisions
    /\ DOMAIN subject = Decisions /\ DOMAIN running = Decisions /\ DOMAIN records = Decisions
    /\ DOMAIN decision = Decisions /\ DOMAIN bundles = Decisions /\ DOMAIN replays = Decisions

\* What is known of a decision from its version and its records.
VersionStands(d) ==
    stage[d] \in InMemory =>
      /\ version[d] \in Versions
      /\ <<submission[d].reasoner, version[d]>> \in snapshots

RunningStands(d) ==
    /\ stage[d] \notin {"mandatory", "advisory"} => running[d] = {}
    /\ stage[d] \in {"idle", "refused", "identity", "lost"} => records[d] = NoRecords
    /\ stage[d] = "mandatory" => DOMAIN records[d] \cup running[d] = MandatoryGates(d)
    /\ stage[d] = "advisory" => DOMAIN records[d] \cup running[d] = GateSet(d)

RecordsStand(d) ==
    /\ stage[d] \in {"mandatory", "advisory"} =>
         /\ records[d] = [g \in DOMAIN records[d] |-> records[d][g]]
         /\ \A g \in DOMAIN records[d] : EndedRecord(records[d], g, registration_of(d))
    /\ stage[d] \in Recorded =>
         CompleteRecords(records[d], registration_of(d), submission[d].mode)

DecisionStands(d) ==
    stage[d] \in {"write", "respond"} =>
      decision[d] = resolve_decision(submission[d], records[d], registration_of(d),
                                     CitedCheck(submission[d], registration_of(d)),
                                     CompetingChecks(submission[d], registration_of(d)))

Known(d) ==
    /\ stage[d] \in Stages
    /\ VersionStands(d)
    /\ RunningStands(d)
    /\ RecordsStand(d)
    /\ DecisionStands(d)

\* A bundle is complete, and holds what its registration's version made of it.
BundleStands(b) ==
    b # NoBundle =>
      LET registration == Profile[<<b.submission.reasoner, b.version>>] IN
      /\ <<b.submission.reasoner, b.version>> \in snapshots
      /\ CompleteRecords(b.records, registration, b.submission.mode)
      /\ b.cited = CitedCheck(b.submission, registration)
      /\ b.competing = CompetingChecks(b.submission, registration)
      /\ b.decision = resolve_decision(b.submission, b.records, registration, b.cited, b.competing)

\* Every replay so far found the registration and the recorded action.
Replayed(d) == replays[d] \notin {"mismatch", "missing"}

PipelineInv ==
    /\ RegistryInv
    /\ PipelineDomains
    /\ \A d \in Decisions : Known(d) /\ BundleStands(bundles[d]) /\ Replayed(d)

-----------------------------------------------------------------------------
(* Replay evaluates again what the bundle holds, and finds the same. *)

\* Evaluating again the rule of a check gives the check (evaluate_bypass keeps
\* its rule and reads nothing but the evidence).
LEMMA CheckAgain ==
    ASSUME NEW rule, NEW evidence
    PROVE  evaluate_bypass(evaluate_bypass(rule, evidence).rule, evidence)
             = evaluate_bypass(rule, evidence)
<1>1. evaluate_bypass(rule, evidence).rule = rule
  BY DEF evaluate_bypass
<1> QED BY <1>1

\* Writing into a record the enforcement it has changes nothing.
LEMMA RecordAgain ==
    ASSUME NEW m, NEW s, NEW o, NEW e
    PROVE  [[mandatory |-> m, status |-> s, output |-> o, enforcement |-> e]
              EXCEPT !.enforcement = e]
             = [mandatory |-> m, status |-> s, output |-> o, enforcement |-> e]
OBVIOUS

\* Resolving each recorded gate output again gives the recorded enforcement: it
\* depends on the output and the routing groups alone.
LEMMA EnforcedAgain ==
    ASSUME NEW recs, NEW registration, NEW mode, CompleteRecords(recs, registration, mode)
    PROVE  [g \in DOMAIN recs |->
              IF recs[g].status = "skipped" THEN recs[g]
              ELSE [recs[g] EXCEPT !.enforcement =
                      resolve_gate_output(recs[g].output, registration.groups)]] = recs
<1>1. ASSUME NEW g \in DOMAIN recs, recs[g].status # "skipped"
      PROVE  [recs[g] EXCEPT !.enforcement =
                resolve_gate_output(recs[g].output, registration.groups)] = recs[g]
  <2>1. EndedRecord(recs, g, registration)
    BY <1>1 DEF CompleteRecords, SkippedRecord
  <2>2. recs[g] = [mandatory |-> effective_gate_set(registration)[g], status |-> recs[g].status,
                   output |-> recs[g].output,
                   enforcement |-> resolve_gate_output(recs[g].output, registration.groups)]
    BY <2>1 DEF EndedRecord
  <2> DEFINE e == resolve_gate_output(recs[g].output, registration.groups)
             m == effective_gate_set(registration)[g]
             s == recs[g].status
             o == recs[g].output
  <2>3. recs[g] = [mandatory |-> m, status |-> s, output |-> o, enforcement |-> e]
    BY <2>2
  <2> HIDE DEF e, m, s, o
  <2>4. [recs[g] EXCEPT !.enforcement = e] = recs[g]
    BY <2>3, RecordAgain
  <2> QED BY <2>4 DEF e
<1>2. recs = [g \in DOMAIN recs |-> recs[g]]
  BY DEF CompleteRecords
<1> QED BY <1>1, <1>2

\* Evaluating again the rules of the stored competing checks gives those checks.
LEMMA CompetingAgain ==
    ASSUME NEW rules, NEW cited, NEW evidence
    PROVE  {evaluate_bypass(check.rule, evidence) :
              check \in evaluate_competing_rules(rules, cited, evidence)}
             = evaluate_competing_rules(rules, cited, evidence)
<1> DEFINE R == {r \in rules : r.rule_id # cited.rule_id}
<1>1. evaluate_competing_rules(rules, cited, evidence) = {evaluate_bypass(rule, evidence) : rule \in R}
  BY DEF evaluate_competing_rules
<1> HIDE DEF R
<1> QED BY <1>1, CheckAgain

\* The decision recomputed from a bundle and the version it cites is the stored
\* one (replay_bundle).
LEMMA ReplayFindsTheSame ==
    ASSUME NEW b, b # NoBundle, BundleStands(b)
    PROVE  ReplayedDecision(b, Profile[<<b.submission.reasoner, b.version>>]) = b.decision
<1> DEFINE registration == Profile[<<b.submission.reasoner, b.version>>]
           evidence == b.submission.evidence
<1>1. CompleteRecords(b.records, registration, b.submission.mode)
  BY DEF BundleStands
<1>2. (IF b.submission.mode = "gate" THEN NoCheck ELSE evaluate_bypass(b.cited.rule, evidence)) = b.cited
  BY CheckAgain DEF BundleStands, CitedCheck
<1>3. {evaluate_bypass(check.rule, evidence) : check \in b.competing} = b.competing
  <2>1. CASE b.submission.mode = "gate"
    BY <2>1 DEF BundleStands, CompetingChecks
  <2>2. CASE b.submission.mode # "gate"
    <3>1. b.competing = evaluate_competing_rules(registration.rules, CitedRule(b.submission, registration), evidence)
      BY <2>2 DEF BundleStands, CompetingChecks
    <3> QED BY <3>1, CompetingAgain
  <2> QED BY <2>1, <2>2
<1>4. b.decision = resolve_decision(b.submission, b.records, registration, b.cited, b.competing)
  BY DEF BundleStands
<1> HIDE DEF registration
<1>5. [g \in DOMAIN b.records |->
         IF b.records[g].status = "skipped" THEN b.records[g]
         ELSE [b.records[g] EXCEPT !.enforcement =
                 resolve_gate_output(b.records[g].output, registration.groups)]] = b.records
  BY <1>1, EnforcedAgain
<1>6. ReplayedDecision(b, registration) = b.decision
  BY <1>2, <1>3, <1>4, <1>5 DEF ReplayedDecision
<1> QED BY <1>6 DEF registration

-----------------------------------------------------------------------------
(* What a step leaves alone. *)

KeepsDecision(d) ==
    /\ stage'[d] = stage[d] /\ submission'[d] = submission[d] /\ version'[d] = version[d]
    /\ running'[d] = running[d] /\ records'[d] = records[d] /\ decision'[d] = decision[d]

\* What is known of a decision survives a step that leaves it alone: it reads the
\* registration at the version the decision took, not the one served now.
LEMMA KnownFrame ==
    ASSUME NEW d, Known(d), KeepsDecision(d), snapshots \subseteq snapshots'
    PROVE  Known(d)'
BY DEF Known, KeepsDecision, VersionStands, RunningStands, RecordsStand, DecisionStands,
       registration_of, MandatoryGates, GateSet, IsMandatory

\* A bundle that is left alone still stands, as snapshots are never removed.
LEMMA BundleFrame ==
    ASSUME NEW d, BundleStands(bundles[d]), bundles'[d] = bundles[d], snapshots \subseteq snapshots'
    PROVE  BundleStands(bundles[d])'
BY DEF BundleStands

\* A step of one decision that writes nothing.
LEMMA DecisionStep ==
    ASSUME PipelineInv, NEW d \in Decisions, UNCHANGED registryVars, UNCHANGED storeVars,
           PipelineDomains', Known(d)', \A c \in Decisions \ {d} : KeepsDecision(c)
    PROVE  PipelineInv'
<1>1. RegistryInv'
  BY InvStep DEF PipelineInv
<1>2. snapshots' = snapshots /\ bundles' = bundles /\ replays' = replays
  BY DEF registryVars, storeVars
<1>3. ASSUME NEW c \in Decisions PROVE Known(c)'
  BY <1>2, KnownFrame DEF PipelineInv
<1>4. ASSUME NEW c \in Decisions PROVE BundleStands(bundles[c])' /\ Replayed(c)'
  BY <1>2, BundleFrame DEF PipelineInv, Replayed
<1> QED BY <1>1, <1>3, <1>4 DEF PipelineInv

-----------------------------------------------------------------------------
(* Every step keeps the invariant. *)

\* Before bootstrap there is no decision, bundle or replay.
LEMMA PipelineInitially == PipelineInit => PipelineInv
<1> SUFFICES ASSUME PipelineInit PROVE PipelineInv
    OBVIOUS
<1>1. RegistryInv
  BY InvInit DEF PipelineInit
<1>2. PipelineDomains
  BY DEF PipelineInit, PipelineDomains
<1>3. ASSUME NEW d \in Decisions PROVE Known(d)
  BY DEF PipelineInit, Known, Stages, VersionStands, RunningStands, RecordsStand, DecisionStands,
         InMemory, Awaiting, Recorded
<1>4. ASSUME NEW d \in Decisions PROVE BundleStands(bundles[d]) /\ Replayed(d)
  BY DEF PipelineInit, BundleStands, Replayed
<1> QED BY <1>1, <1>2, <1>3, <1>4 DEF PipelineInv

\* Intake takes the served version, whose snapshot was recorded before it was
\* served, or refuses.
LEMMA IntakeStep ==
    ASSUME PipelineInv, NEW d \in Decisions, NEW s \in Submissions, Intake(d, s)
    PROVE  PipelineInv'
<1> DEFINE entry == served[s.reasoner]
<1>1. PipelineDomains'
  BY DEF Intake, PipelineInv, PipelineDomains, storeVars
<1>2. \A c \in Decisions \ {d} : KeepsDecision(c)
  BY DEF Intake, PipelineInv, PipelineDomains, KeepsDecision
<1>3. Known(d)'
  <2>1. /\ stage[d] \in {"idle", "lost"} /\ records[d] = NoRecords /\ running[d] = {}
        /\ records'[d] = NoRecords /\ running'[d] = {} /\ submission'[d] = s
    BY DEF Intake, PipelineInv, PipelineDomains, Known, RunningStands
  <2>2. CASE stage'[d] = "identity"
    <3>1. entry # NoEntry /\ version'[d] = entry.version
      BY <2>2 DEF Intake, PipelineInv, PipelineDomains
    <3>2. s.reasoner \in Reasoners
      BY SubmissionsAreKnown
    <3>3. entry \in Entry /\ VersionsOf(served) \subseteq snapshots
      BY <3>1, <3>2 DEF PipelineInv, RegistryInv, RegistryTypeOK, Intake, Up
    <3>4. <<s.reasoner, entry.version>> \in snapshots /\ entry.version \in Versions
      BY <3>1, <3>2, <3>3 DEF VersionsOf, Registered, Entry
    <3>5. snapshots' = snapshots
      BY DEF Intake, registryVars
    <3> QED
      BY <2>1, <2>2, <3>1, <3>4, <3>5
      DEF Known, Stages, VersionStands, RunningStands, RecordsStand, DecisionStands, Recorded
  <2>3. CASE stage'[d] = "refused"
    BY <2>1, <2>3
    DEF Known, Stages, VersionStands, RunningStands, RecordsStand, DecisionStands,
        InMemory, Awaiting, Recorded
  <2> QED BY <2>2, <2>3 DEF Intake, PipelineInv, PipelineDomains
<1> QED BY <1>1, <1>2, <1>3, DecisionStep DEF Intake

\* After the identity step the mandatory gates run, and nothing is recorded.
LEMMA IdentityStepKeeps ==
    ASSUME PipelineInv, NEW d \in Decisions, stage[d] = "identity", NEW identity,
           Identified(d, identity)
    PROVE  PipelineInv'
<1>1. PipelineDomains'
  BY DEF Identified, PipelineInv, PipelineDomains, storeVars
<1>2. \A c \in Decisions \ {d} : KeepsDecision(c)
  BY DEF Identified, PipelineInv, PipelineDomains, KeepsDecision
<1>3. Known(d)'
  <2>1. /\ stage'[d] = "mandatory" /\ running'[d] = MandatoryGates(d)
        /\ records'[d] = NoRecords /\ version' = version /\ submission' = submission
        /\ snapshots' = snapshots
    BY DEF Identified, PipelineInv, PipelineDomains, Known, RunningStands, registryVars
  <2>2. MandatoryGates(d)' = MandatoryGates(d)
    BY <2>1 DEF MandatoryGates, GateSet, IsMandatory, registration_of
  <2>3. VersionStands(d)'
    BY <2>1 DEF PipelineInv, Known, VersionStands, InMemory, Awaiting
  <2>4. DOMAIN NoRecords = {} /\ NoRecords = [g \in DOMAIN NoRecords |-> NoRecords[g]]
    BY DEF NoRecords
  <2>5. RunningStands(d)'
    BY <2>1, <2>2, <2>4 DEF RunningStands
  <2>6. RecordsStand(d)' /\ DecisionStands(d)' /\ stage'[d] \in Stages
    BY <2>1, <2>4 DEF RecordsStand, DecisionStands, Stages, Recorded
  <2> QED BY <2>3, <2>5, <2>6 DEF Known
<1> QED BY <1>1, <1>2, <1>3, DecisionStep DEF Identified

\* A gate that ends moves from the running ones to the records, with the
\* enforcement of what it returned.
LEMMA EndGateStep ==
    ASSUME PipelineInv, NEW d \in Decisions, NEW g \in running[d], NEW output,
           NEW status \in {"ran", "failed"}, EndGate(d, g, status, output),
           status = "ran" => (output.deterministic <=> g \in Deterministic)
    PROVE  PipelineInv'
<1>1. PipelineDomains'
  BY DEF EndGate, PipelineInv, PipelineDomains, storeVars
<1>2. \A c \in Decisions \ {d} : KeepsDecision(c)
  BY DEF EndGate, PipelineInv, PipelineDomains, KeepsDecision
<1>3. Known(d)'
  <2> DEFINE registration == registration_of(d)
             ended == [mandatory |-> IsMandatory(d, g), status |-> status, output |-> output,
                       enforcement |-> resolve_gate_output(output, registration.groups)]
  <2>1. /\ stage' = stage /\ version' = version /\ submission' = submission
        /\ decision' = decision /\ snapshots' = snapshots
        /\ running'[d] = running[d] \ {g}
        /\ records'[d] = [h \in DOMAIN records[d] \cup {g} |->
                            IF h # g THEN records[d][h] ELSE ended]
    BY DEF EndGate, PipelineInv, PipelineDomains, registryVars
  <2>2. stage[d] \in {"mandatory", "advisory"} /\ Known(d)
    BY DEF PipelineInv, Known, RunningStands
  <2>3. /\ registration_of(d)' = registration /\ GateSet(d)' = GateSet(d)
        /\ MandatoryGates(d)' = MandatoryGates(d)
    BY <2>1 DEF registration_of, GateSet, MandatoryGates, IsMandatory
  <2>4. DOMAIN records'[d] \cup running'[d] = DOMAIN records[d] \cup running[d]
    BY <2>1
  <2>5. VersionStands(d)' /\ stage'[d] \in Stages
    BY <2>1, <2>2 DEF Known, VersionStands
  <2>6. RunningStands(d)'
    BY <2>1, <2>2, <2>3, <2>4 DEF Known, RunningStands
  <2>7. RecordsStand(d)'
    <3> HIDE DEF ended
    <3>1. records'[d] = [h \in DOMAIN records'[d] |-> records'[d][h]]
      BY <2>1
    <3>2. ASSUME NEW h \in DOMAIN records'[d] PROVE EndedRecord(records'[d], h, registration)
      <4>1. CASE h = g
        <5>1. records'[d][h] = ended
          BY <4>1, <2>1
        <5>2. /\ ended.status = status /\ ended.output = output
              /\ ended = [mandatory |-> effective_gate_set(registration)[g], status |-> status,
                          output |-> output,
                          enforcement |-> resolve_gate_output(output, registration.groups)]
          BY DEF ended, IsMandatory
        <5> QED BY <4>1, <5>1, <5>2 DEF EndedRecord
      <4>2. CASE h # g
        <5>1. h \in DOMAIN records[d] /\ records'[d][h] = records[d][h]
          BY <4>2, <2>1
        <5>2. EndedRecord(records[d], h, registration)
          BY <5>1, <2>2 DEF Known, RecordsStand
        <5> QED BY <5>1, <5>2 DEF EndedRecord
      <4> QED BY <4>1, <4>2
    <3> QED BY <3>1, <3>2, <2>1, <2>2, <2>3 DEF RecordsStand, Recorded
  <2>8. DecisionStands(d)'
    BY <2>1, <2>2 DEF DecisionStands
  <2> QED BY <2>5, <2>6, <2>7, <2>8 DEF Known
<1> QED BY <1>1, <1>2, <1>3, DecisionStep DEF EndGate

\* With every mandatory gate ended, the advisory gates start, or they are recorded
\* as skipped after a block or in record mode.
LEMMA CloseMandatoryStep ==
    ASSUME PipelineInv, NEW d \in Decisions, CloseMandatory(d)
    PROVE  PipelineInv'
<1>1. PipelineDomains'
  BY DEF CloseMandatory, PipelineInv, PipelineDomains, storeVars
<1>2. \A c \in Decisions \ {d} : KeepsDecision(c)
  BY DEF CloseMandatory, PipelineInv, PipelineDomains, KeepsDecision
<1>3. Known(d)'
  <2> DEFINE registration == registration_of(d)
             mode == submission[d].mode
  <2>1. /\ version' = version /\ submission' = submission /\ decision' = decision
        /\ snapshots' = snapshots /\ stage[d] = "mandatory" /\ running[d] = {}
    BY DEF CloseMandatory, registryVars
  <2>2. /\ Known(d) /\ DOMAIN records[d] = MandatoryGates(d)
        /\ \A g \in DOMAIN records[d] : EndedRecord(records[d], g, registration)
        /\ records[d] = [g \in DOMAIN records[d] |-> records[d][g]]
    BY <2>1 DEF PipelineInv, Known, RunningStands, RecordsStand
  <2>3. /\ registration_of(d)' = registration /\ GateSet(d)' = GateSet(d)
        /\ MandatoryGates(d)' = MandatoryGates(d)
    BY <2>1 DEF registration_of, GateSet, MandatoryGates, IsMandatory
  <2>4. VersionStands(d)'
    BY <2>1, <2>2 DEF Known, VersionStands, InMemory, Awaiting
  <2>5. CASE mode = "record" \/ blocked_by_mandatory_gate(records[d])
    <3>1. /\ stage'[d] = "enforce" /\ running'[d] = {}
          /\ records'[d] = [g \in GateSet(d) |->
                 IF g \in DOMAIN records[d] THEN records[d][g]
                 ELSE [mandatory |-> FALSE, status |-> "skipped", output |-> NoOutput,
                       enforcement |-> Undecided]]
      BY <2>1, <2>5 DEF CloseMandatory, PipelineInv, PipelineDomains
    <3>2. MandatoryGates(d) \subseteq GateSet(d)
      BY DEF MandatoryGates
    <3>3. mode = "record" \/ \E h \in DOMAIN records'[d] :
             records'[d][h].mandatory /\ records'[d][h].enforcement.action = "BLOCK"
      <4>1. CASE mode = "record"
        BY <4>1
      <4>2. CASE blocked_by_mandatory_gate(records[d])
        <5>1. PICK h \in DOMAIN records[d] :
                 records[d][h].mandatory /\ records[d][h].enforcement.action = "BLOCK"
          BY <4>2 DEF blocked_by_mandatory_gate, ActionsOf, Mandatory, Enforced
        <5>2. h \in DOMAIN records'[d] /\ records'[d][h] = records[d][h]
          BY <5>1, <3>1, <3>2, <2>2
        <5> QED BY <5>1, <5>2
      <4> QED BY <4>1, <4>2, <2>5
    <3>4. ASSUME NEW g \in DOMAIN records'[d]
          PROVE  EndedRecord(records'[d], g, registration)
                   \/ SkippedRecord(records'[d], g, registration, mode)
      <4>1. CASE g \in DOMAIN records[d]
        <5>1. records'[d][g] = records[d][g]
          BY <4>1, <3>1
        <5> QED BY <4>1, <5>1, <2>2 DEF EndedRecord
      <4>2. CASE g \notin DOMAIN records[d]
        <5>1. ~effective_gate_set(registration)[g]
          BY <4>2, <3>1, <2>2 DEF MandatoryGates, IsMandatory
        <5>2. records'[d][g] = [mandatory |-> FALSE, status |-> "skipped", output |-> NoOutput,
                                enforcement |-> Undecided]
          BY <4>2, <3>1
        <5> QED BY <5>1, <5>2, <3>3 DEF SkippedRecord
      <4> QED BY <4>1, <4>2
    <3>5. CompleteRecords(records'[d], registration, mode)
      BY <3>1, <3>4 DEF CompleteRecords, GateSet
    <3> QED
      BY <3>1, <3>5, <2>1, <2>3, <2>4
      DEF Known, Stages, RunningStands, RecordsStand, DecisionStands, Recorded
  <2>6. CASE ~(mode = "record" \/ blocked_by_mandatory_gate(records[d]))
    <3>1. stage'[d] = "advisory" /\ running'[d] = AdvisoryGates(d) /\ records' = records
      BY <2>1, <2>6 DEF CloseMandatory, PipelineInv, PipelineDomains
    <3>2. DOMAIN records'[d] \cup running'[d] = GateSet(d)
      BY <3>1, <2>2 DEF MandatoryGates, AdvisoryGates
    <3> QED
      BY <3>1, <3>2, <2>1, <2>2, <2>3, <2>4
      DEF Known, Stages, RunningStands, RecordsStand, DecisionStands, Recorded
  <2> QED BY <2>5, <2>6
<1> QED BY <1>1, <1>2, <1>3, DecisionStep DEF CloseMandatory

\* With every gate ended, the records are those of the whole gate set.
LEMMA CloseAdvisoryStep ==
    ASSUME PipelineInv, NEW d \in Decisions, CloseAdvisory(d)
    PROVE  PipelineInv'
<1>1. PipelineDomains'
  BY DEF CloseAdvisory, PipelineInv, PipelineDomains, storeVars
<1>2. \A c \in Decisions \ {d} : KeepsDecision(c)
  BY DEF CloseAdvisory, PipelineInv, PipelineDomains, KeepsDecision
<1>3. Known(d)'
  <2>1. /\ version' = version /\ submission' = submission /\ decision' = decision
        /\ records' = records /\ running' = running /\ snapshots' = snapshots
        /\ stage[d] = "advisory" /\ stage'[d] = "enforce" /\ running[d] = {}
    BY DEF CloseAdvisory, PipelineInv, PipelineDomains, registryVars
  <2>2. /\ DOMAIN records[d] = GateSet(d)
        /\ \A g \in DOMAIN records[d] : EndedRecord(records[d], g, registration_of(d))
        /\ records[d] = [g \in DOMAIN records[d] |-> records[d][g]]
        /\ VersionStands(d)
    BY <2>1 DEF PipelineInv, Known, RunningStands, RecordsStand
  <2>3. registration_of(d)' = registration_of(d)
    BY <2>1 DEF registration_of
  <2>4. CompleteRecords(records[d], registration_of(d), submission[d].mode)
    BY <2>2 DEF CompleteRecords, GateSet
  <2> QED
    BY <2>1, <2>2, <2>3, <2>4
    DEF Known, Stages, VersionStands, RunningStands, RecordsStand, DecisionStands, Recorded,
        InMemory, Awaiting
<1> QED BY <1>1, <1>2, <1>3, DecisionStep DEF CloseAdvisory

\* The decision is what the resolver returns for the complete records.
LEMMA EnforceStep ==
    ASSUME PipelineInv, NEW d \in Decisions, Enforce(d)
    PROVE  PipelineInv'
<1>1. PipelineDomains'
  BY DEF Enforce, PipelineInv, PipelineDomains, storeVars
<1>2. \A c \in Decisions \ {d} : KeepsDecision(c)
  BY DEF Enforce, PipelineInv, PipelineDomains, KeepsDecision
<1>3. Known(d)'
  <2>1. /\ version' = version /\ submission' = submission /\ records' = records
        /\ running' = running /\ snapshots' = snapshots
        /\ stage[d] = "enforce" /\ stage'[d] = "write"
        /\ decision'[d] = resolve_decision(submission[d], records[d], registration_of(d),
                                           CitedCheck(submission[d], registration_of(d)),
                                           CompetingChecks(submission[d], registration_of(d)))
    BY DEF Enforce, PipelineInv, PipelineDomains, registryVars
  <2>2. registration_of(d)' = registration_of(d)
    BY <2>1 DEF registration_of
  <2>3. DecisionStands(d)'
    BY <2>1, <2>2 DEF DecisionStands
  <2>4. VersionStands(d)' /\ RunningStands(d)' /\ RecordsStand(d)' /\ stage'[d] \in Stages
    BY <2>1, <2>2
    DEF PipelineInv, Known, Stages, VersionStands, RunningStands, RecordsStand, Recorded,
        InMemory, Awaiting
  <2> QED BY <2>3, <2>4 DEF Known
<1> QED BY <1>1, <1>2, <1>3, DecisionStep DEF Enforce

\* The answer leaves the records and the bundle as they are.
LEMMA RespondStep ==
    ASSUME PipelineInv, NEW d \in Decisions, Respond(d)
    PROVE  PipelineInv'
<1>1. PipelineDomains'
  BY DEF Respond, PipelineInv, PipelineDomains, storeVars
<1>2. \A c \in Decisions \ {d} : KeepsDecision(c)
  BY DEF Respond, PipelineInv, PipelineDomains, KeepsDecision
<1>3. Known(d)'
  BY DEF Respond, PipelineInv, PipelineDomains, Known, Stages, VersionStands, RunningStands,
         RecordsStand, DecisionStands, Recorded, InMemory, Awaiting
<1> QED BY <1>1, <1>2, <1>3, DecisionStep DEF Respond

\* The bundle written is complete; a stored bundle of the same id is kept
\* (ON CONFLICT DO NOTHING).
LEMMA WriteStep ==
    ASSUME PipelineInv, NEW d \in Decisions, WriteBundle(d)
    PROVE  PipelineInv'
<1>1. /\ version' = version /\ submission' = submission /\ records' = records
      /\ running' = running /\ decision' = decision /\ replays' = replays
      /\ snapshots' = snapshots /\ stage[d] = "write" /\ stage'[d] = "respond"
      /\ \A c \in Decisions \ {d} : stage'[c] = stage[c] /\ bundles'[c] = bundles[c]
      /\ bundles'[d] = IF bundles[d] = NoBundle THEN BundleOf(d) ELSE bundles[d]
  BY DEF WriteBundle, PipelineInv, PipelineDomains, registryVars
<1>2. RegistryInv'
  BY InvStep DEF PipelineInv, WriteBundle
<1>3. PipelineDomains'
  BY DEF WriteBundle, PipelineInv, PipelineDomains
<1>4. ASSUME NEW c \in Decisions PROVE Known(c)'
  <2>1. CASE c # d
    BY <2>1, <1>1, KnownFrame DEF PipelineInv, KeepsDecision
  <2>2. CASE c = d
    BY <2>2, <1>1
    DEF PipelineInv, Known, Stages, VersionStands, RunningStands, RecordsStand, DecisionStands,
        Recorded, InMemory, Awaiting, registration_of
  <2> QED BY <2>1, <2>2
<1>5. BundleStands(BundleOf(d))
  <2>1. Known(d)
    BY DEF PipelineInv
  <2>2. /\ <<submission[d].reasoner, version[d]>> \in snapshots
        /\ CompleteRecords(records[d], registration_of(d), submission[d].mode)
        /\ decision[d] = resolve_decision(submission[d], records[d], registration_of(d),
                                          CitedCheck(submission[d], registration_of(d)),
                                          CompetingChecks(submission[d], registration_of(d)))
    BY <1>1, <2>1 DEF Known, VersionStands, RecordsStand, DecisionStands, Recorded, InMemory
  <2>3. /\ BundleOf(d).submission = submission[d] /\ BundleOf(d).version = version[d]
        /\ BundleOf(d).records = records[d] /\ BundleOf(d).decision = decision[d]
        /\ BundleOf(d).cited = CitedCheck(submission[d], registration_of(d))
        /\ BundleOf(d).competing = CompetingChecks(submission[d], registration_of(d))
    BY DEF BundleOf
  <2>4. Profile[<<submission[d].reasoner, version[d]>>] = registration_of(d)
    BY DEF registration_of
  <2> QED BY <2>2, <2>3, <2>4 DEF BundleStands
<1>6. ASSUME NEW c \in Decisions PROVE BundleStands(bundles[c])' /\ Replayed(c)'
  <2>1. BundleStands(bundles'[c])
    BY <1>1, <1>5 DEF PipelineInv
  <2>2. BundleStands(bundles[c])'
    BY <2>1, <1>1 DEF BundleStands
  <2> QED BY <2>2, <1>1 DEF PipelineInv, Replayed
<1> QED BY <1>2, <1>3, <1>4, <1>6 DEF PipelineInv

\* Cancellation, a failed write and a crash forget decisions, never bundles.
LEMMA LoseStep ==
    ASSUME PipelineInv, RegistryInv', snapshots' = snapshots,
           NEW lost \in SUBSET Decisions, Lose(lost)
    PROVE  PipelineInv'
<1>1. PipelineDomains'
  BY DEF Lose, PipelineInv, PipelineDomains, storeVars
<1>2. ASSUME NEW c \in Decisions PROVE Known(c)'
  <2>1. CASE c \notin lost
    <3>1. KeepsDecision(c)
      BY <2>1 DEF Lose, KeepsDecision
    <3> QED BY <3>1, KnownFrame DEF PipelineInv
  <2>2. CASE c \in lost
    <3>1. stage'[c] = "lost" /\ running'[c] = {} /\ records'[c] = NoRecords
      BY <2>2 DEF Lose
    <3> QED
      BY <3>1 DEF Known, Stages, VersionStands, RunningStands, RecordsStand, DecisionStands,
                  Recorded, InMemory, Awaiting
  <2> QED BY <2>1, <2>2
<1>3. ASSUME NEW c \in Decisions PROVE BundleStands(bundles[c])' /\ Replayed(c)'
  <2>1. bundles' = bundles /\ replays' = replays
    BY DEF Lose, storeVars
  <2> QED BY <2>1, BundleFrame DEF PipelineInv, Replayed
<1> QED BY <1>1, <1>2, <1>3 DEF PipelineInv

\* A replay finds the snapshot the bundle cites and the action it recorded.
LEMMA ReplayStep ==
    ASSUME PipelineInv, NEW d \in Decisions, Replay(d)
    PROVE  PipelineInv'
<1>1. UNCHANGED <<registryVars, decisionVars, bundles>>
  BY DEF Replay
<1>2. RegistryInv'
  BY <1>1, InvStep DEF PipelineInv
<1>3. snapshots' = snapshots
  BY <1>1 DEF registryVars
<1>4. PipelineDomains'
  BY <1>1 DEF Replay, PipelineInv, PipelineDomains, decisionVars
<1>5. ASSUME NEW c \in Decisions PROVE Known(c)'
  BY <1>1, <1>3, KnownFrame DEF PipelineInv, KeepsDecision, decisionVars
<1>6. ASSUME NEW c \in Decisions PROVE BundleStands(bundles[c])'
  BY <1>1, <1>3, BundleFrame DEF PipelineInv
<1>7. replays'[d] = "match"
  <2>1. bundles[d] # NoBundle /\ BundleStands(bundles[d])
    BY DEF Replay, PipelineInv
  <2>2. HasRegistration(bundles[d].submission.reasoner, bundles[d].version)
    BY <2>1 DEF BundleStands, HasRegistration
  <2>3. ReplayedDecision(bundles[d], Profile[<<bundles[d].submission.reasoner, bundles[d].version>>])
          = bundles[d].decision
    BY <2>1, ReplayFindsTheSame
  <2> QED BY <2>2, <2>3 DEF Replay, PipelineInv, PipelineDomains
<1>8. ASSUME NEW c \in Decisions PROVE Replayed(c)'
  BY <1>7 DEF Replay, Replayed, PipelineInv, PipelineDomains
<1> QED BY <1>2, <1>4, <1>5, <1>6, <1>8 DEF PipelineInv

\* The registry never forgets a snapshot.
LEMMA SnapshotsStay == [RegistryNext]_registryVars => snapshots \subseteq snapshots'
BY DEF RegistryNext, registryVars, Configure, BootstrapNext, BuildRegistry, RecordSnapshot,
       FinishBootstrap, PutNext, AdmitPut, SavePut, FailPut, SwapPut, Crash, ProcessGone

\* A registration step replaces what is served under decisions in flight, which
\* hold the version they took.
LEMMA RegisteringStep ==
    ASSUME PipelineInv, Registering
    PROVE  PipelineInv'
<1>1. RegistryNext /\ UNCHANGED <<decisionVars, storeVars>>
  BY DEF Registering, RegistryNext
<1>2. RegistryInv' /\ snapshots \subseteq snapshots'
  BY <1>1, InvStep, SnapshotsStay DEF PipelineInv
<1>3. PipelineDomains'
  BY <1>1 DEF PipelineInv, PipelineDomains, decisionVars, storeVars
<1>4. ASSUME NEW c \in Decisions PROVE Known(c)'
  BY <1>1, <1>2, KnownFrame DEF PipelineInv, KeepsDecision, decisionVars
<1>5. ASSUME NEW c \in Decisions PROVE BundleStands(bundles[c])' /\ Replayed(c)'
  BY <1>1, <1>2, BundleFrame DEF PipelineInv, Replayed, storeVars
<1> QED BY <1>2, <1>3, <1>4, <1>5 DEF PipelineInv

\* A stuttering step.
LEMMA StutterStep == PipelineInv /\ UNCHANGED pipelineVars => PipelineInv'
<1> SUFFICES ASSUME PipelineInv, UNCHANGED pipelineVars PROVE PipelineInv'
    OBVIOUS
<1>1. UNCHANGED registryVars /\ UNCHANGED <<decisionVars, storeVars>>
  BY DEF pipelineVars
<1>2. RegistryInv' /\ snapshots' = snapshots
  BY <1>1, InvStep DEF PipelineInv, registryVars
<1>3. PipelineDomains'
  BY <1>1 DEF PipelineInv, PipelineDomains, decisionVars, storeVars
<1>4. ASSUME NEW c \in Decisions PROVE Known(c)'
  BY <1>1, <1>2, KnownFrame DEF PipelineInv, KeepsDecision, decisionVars
<1>5. ASSUME NEW c \in Decisions PROVE BundleStands(bundles[c])' /\ Replayed(c)'
  BY <1>1, <1>2, BundleFrame DEF PipelineInv, Replayed, storeVars
<1> QED BY <1>2, <1>3, <1>4, <1>5 DEF PipelineInv

\* Every step of the pipeline and of the registry beside it keeps the invariant.
LEMMA PipelineStep == PipelineInv /\ [PipelineNext]_pipelineVars => PipelineInv'
<1> SUFFICES ASSUME PipelineInv, [PipelineNext]_pipelineVars PROVE PipelineInv'
    OBVIOUS
<1>1. CASE Registering
  BY <1>1, RegisteringStep
<1>2. CASE PipelineCrash
  <2>1. RegistryInv'
    BY <1>2, InvStep DEF PipelineCrash, PipelineInv, RegistryNext
  <2>2. snapshots' = snapshots
    BY <1>2 DEF PipelineCrash, Crash, ProcessGone
  <2> QED BY <1>2, <2>1, <2>2, LoseStep DEF PipelineCrash
<1>3. ASSUME NEW d \in Decisions, Cancel(d) \/ FailWrite(d) PROVE PipelineInv'
  <2>1. Lose({d}) /\ UNCHANGED registryVars
    BY <1>3 DEF Cancel, FailWrite
  <2>2. RegistryInv' /\ snapshots' = snapshots
    BY <2>1, InvStep DEF PipelineInv, registryVars
  <2> QED BY <2>1, <2>2, LoseStep
<1>4. ASSUME NEW d \in Decisions,
             PassThrough(d) \/ \E answer \in Answers : Resolved(d, answer)
      PROVE  PipelineInv'
  BY <1>4, IdentityStepKeeps DEF PassThrough, Resolved
<1>5. ASSUME NEW d \in Decisions, NEW g \in running[d], GateFails(d, g) PROVE PipelineInv'
  BY <1>5, EndGateStep DEF GateFails
<1>6. ASSUME NEW d \in Decisions, NEW g \in running[d], NEW returned \in Returned,
             GateAnswers(d, g, returned)
      PROVE  PipelineInv'
  <2>1. CASE HasOutputProblem(g, returned)
    BY <1>6, <2>1, EndGateStep DEF GateAnswers
  <2>2. CASE ~HasOutputProblem(g, returned)
    <3>1. returned.output.deterministic <=> g \in Deterministic
      BY <2>2 DEF HasOutputProblem
    <3> QED BY <1>6, <2>2, <3>1, EndGateStep DEF GateAnswers
  <2> QED BY <2>1, <2>2
<1>7. CASE UNCHANGED pipelineVars
  BY <1>7, StutterStep
<1> QED
  BY <1>1, <1>2, <1>3, <1>4, <1>5, <1>6, <1>7, IntakeStep, CloseMandatoryStep, CloseAdvisoryStep,
     EnforceStep, WriteStep, RespondStep, ReplayStep
  DEF PipelineNext, Progress

\* The invariant holds in every reachable state: each decision in memory and each
\* stored bundle is accounted for by a registration version that is snapshotted.
THEOREM PipelineInvariance == PipelineSpec => []PipelineInv
BY PipelineInitially, PipelineStep, PTL DEF PipelineSpec

-----------------------------------------------------------------------------
(* What follows. *)

\* However its registration is replaced, its gates fail and the process dies:
\* every bundle replays to the action it records, from a registration found.
THEOREM BundlesReplay == PipelineSpec => []ReplaysMatch
<1>1. PipelineInv => ReplaysMatch
  BY DEF PipelineInv, Replayed, ReplaysMatch
<1> QED BY <1>1, PipelineInvariance, PTL

\* Every stored bundle accounts for the gate set of the version it cites.
THEOREM GateSetsAreCovered == PipelineSpec => []GateSetCovered
<1>1. PipelineInv => GateSetCovered
  <2> SUFFICES ASSUME PipelineInv, NEW d \in Decisions, Stored(d)
               PROVE  LET b == bundles[d]
                          gate_set == effective_gate_set(Profile[<<b.submission.reasoner, b.version>>])
                          recorded == b.submission.mode = "record"
                      IN  /\ DOMAIN b.records = DOMAIN gate_set
                          /\ \A g \in DOMAIN gate_set :
                               /\ b.records[g].mandatory <=> (g \in Mandated \/ gate_set[g])
                               /\ b.records[g].status = "ran" =>
                                    (b.records[g].output.deterministic <=> g \in Deterministic)
                               /\ b.records[g].status = "skipped" =>
                                    /\ ~b.records[g].mandatory
                                    /\ recorded \/ \E h \in DOMAIN gate_set :
                                                     /\ b.records[h].mandatory
                                                     /\ b.records[h].enforcement.action = "BLOCK"
    BY DEF GateSetCovered
  <2> DEFINE b == bundles[d]
             registration == Profile[<<b.submission.reasoner, b.version>>]
             gate_set == effective_gate_set(registration)
  <2>1. CompleteRecords(b.records, registration, b.submission.mode)
    BY DEF PipelineInv, BundleStands, Stored
  <2>2. DOMAIN b.records = DOMAIN gate_set
    BY <2>1 DEF CompleteRecords
  <2>3. \A g \in DOMAIN gate_set : g \in Mandated => gate_set[g]
    BY DEF effective_gate_set
  <2> HIDE DEF gate_set
  <2>4. ASSUME NEW g \in DOMAIN gate_set
        PROVE  /\ b.records[g].mandatory <=> (g \in Mandated \/ gate_set[g])
               /\ b.records[g].status = "ran" =>
                    (b.records[g].output.deterministic <=> g \in Deterministic)
               /\ b.records[g].status = "skipped" =>
                    /\ ~b.records[g].mandatory
                    /\ \/ b.submission.mode = "record"
                       \/ \E h \in DOMAIN gate_set : /\ b.records[h].mandatory
                                                      /\ b.records[h].enforcement.action = "BLOCK"
    <3>1. CASE EndedRecord(b.records, g, registration)
      <4>1. b.records[g].mandatory = gate_set[g]
        BY <3>1 DEF EndedRecord, gate_set
      <4> QED BY <3>1, <4>1, <2>3 DEF EndedRecord
    <3>2. CASE SkippedRecord(b.records, g, registration, b.submission.mode)
      <4>1. ~gate_set[g] /\ b.records[g].mandatory = FALSE /\ b.records[g].status = "skipped"
        BY <3>2 DEF SkippedRecord, gate_set
      <4> QED BY <3>2, <4>1, <2>2, <2>3 DEF SkippedRecord
    <3> QED BY <3>1, <3>2, <2>1, <2>2 DEF CompleteRecords
  <2> QED BY <2>2, <2>4 DEF gate_set
<1> QED BY <1>1, PipelineInvariance, PTL

\* Only a write touches the bundles: no gate, registration, replay or crash does.
LEMMA OthersKeepBundles ==
    ASSUME [PipelineNext]_pipelineVars, \A c \in Decisions : ~WriteBundle(c)
    PROVE  bundles' = bundles
<1>1. CASE Registering
  BY <1>1 DEF Registering, storeVars
<1>2. CASE PipelineCrash
  BY <1>2 DEF PipelineCrash, Lose, storeVars
<1>3. CASE UNCHANGED pipelineVars
  BY <1>3 DEF pipelineVars, storeVars
<1>4. ASSUME NEW d \in Decisions, NEW s \in Submissions, Intake(d, s) PROVE bundles' = bundles
  BY <1>4 DEF Intake, storeVars
<1>5. ASSUME NEW d \in Decisions, NEW identity, Identified(d, identity) PROVE bundles' = bundles
  BY <1>5 DEF Identified, storeVars
<1>6. ASSUME NEW d \in Decisions, NEW g, NEW status, NEW output, EndGate(d, g, status, output)
      PROVE  bundles' = bundles
  BY <1>6 DEF EndGate, storeVars
<1>7. ASSUME NEW d \in Decisions, NEW g, NEW returned, GateAnswers(d, g, returned)
      PROVE  bundles' = bundles
  BY <1>6, <1>7 DEF GateAnswers
<1>8. ASSUME NEW d \in Decisions, Cancel(d) \/ FailWrite(d) PROVE bundles' = bundles
  BY <1>8 DEF Cancel, FailWrite, Lose, storeVars
<1>9. ASSUME NEW d \in Decisions, Replay(d) PROVE bundles' = bundles
  BY <1>9 DEF Replay
<1>10. ASSUME NEW d \in Decisions, CloseMandatory(d) \/ CloseAdvisory(d) \/ Enforce(d) \/ Respond(d)
       PROVE  bundles' = bundles
  <2>1. CASE CloseMandatory(d)
    BY <2>1 DEF CloseMandatory, storeVars
  <2>2. CASE CloseAdvisory(d)
    BY <2>2 DEF CloseAdvisory, storeVars
  <2>3. CASE Enforce(d)
    BY <2>3 DEF Enforce, storeVars
  <2>4. CASE Respond(d)
    BY <2>4 DEF Respond, storeVars
  <2> QED BY <1>10, <2>1, <2>2, <2>3, <2>4
<1>11. ASSUME NEW d \in Decisions, Progress(d) PROVE bundles' = bundles
  <2>1. ASSUME NEW g \in running[d], GateFails(d, g) PROVE bundles' = bundles
    BY <2>1, <1>6 DEF GateFails
  <2>2. CASE PassThrough(d)
    BY <2>2, <1>5 DEF PassThrough
  <2> QED BY <1>11, <1>10, <2>1, <2>2 DEF Progress
<1>12. ASSUME NEW d \in Decisions, NEW answer \in Answers, Resolved(d, answer)
       PROVE  bundles' = bundles
  BY <1>12, <1>5 DEF Resolved
<1> QED
  BY <1>1, <1>2, <1>3, <1>4, <1>7, <1>8, <1>9, <1>11, <1>12 DEF PipelineNext

\* A bundle is written once and never changes.
THEOREM BundlesStand == PipelineSpec => BundlesImmutable
<1>1. ASSUME PipelineInv, [PipelineNext]_pipelineVars, NEW d \in Decisions, Stored(d)
      PROVE  bundles'[d] = bundles[d]
  <2>1. ASSUME NEW c \in Decisions, WriteBundle(c) PROVE bundles'[d] = bundles[d]
    BY <1>1, <2>1 DEF WriteBundle, Stored, PipelineInv, PipelineDomains
  <2>2. CASE \A c \in Decisions : ~WriteBundle(c)
    BY <1>1, <2>2, OthersKeepBundles
  <2> QED BY <2>1, <2>2
<1>2. PipelineInv /\ [PipelineNext]_pipelineVars
        => [\A d \in Decisions : Stored(d) => bundles'[d] = bundles[d]]_pipelineVars
  BY <1>1
<1> QED BY <1>2, PipelineInvariance, PTL DEF PipelineSpec, BundlesImmutable

-----------------------------------------------------------------------------
(* Who a stored decision is about. *)

\* An identity that a decision on the submission s may carry.
Named(s, identity) ==
    /\ WellFormed(identity)
    /\ identity.native = s.subject
    /\ IF identity.method = "unresolved"
       THEN <<identity.entity, identity.type>> = <<s.entity, s.entity_type>>
       ELSE /\ identity.resolved_by = Resolver.resolver_id
            /\ {r.type : r \in identity.related} \subseteq Resolver.relationship_types

\* Until it is identified a decision has a subject its registration accepted;
\* from then on it has an identity for it; so has its bundle.
SubjectStands(d) ==
    /\ stage[d] \in InMemory => submission[d].mode \in {"gate", "record"}
    /\ stage[d] = "identity" => ValidSubject(submission[d], registration_of(d))
    /\ stage[d] \in Deciding => Named(submission[d], subject[d])
BundleNamed(b) ==
    b # NoBundle =>
      /\ Named(b.submission, b.identity)
      /\ b.competing # {} => b.submission.mode = "record"

SubjectInv == \A d \in Decisions : SubjectStands(d) /\ BundleNamed(bundles[d])

\* The fallback names the entity the reasoner submitted: intake checked that it
\* is the one the registration derives.
LEMMA FallbackNames ==
    ASSUME NEW s, NEW registration, ValidSubject(s, registration)
    PROVE  Named(s, passthrough_identity(s, registration))
<1> DEFINE native == s.subject
           identity == passthrough_identity(s, registration)
<1>1. CASE native # NoNative /\ native.namespace \in DOMAIN registration.namespaces
  <2> DEFINE namespace == registration.namespaces[native.namespace]
  <2>1. identity = declared_identity(namespace, native)
    BY <1>1 DEF passthrough_identity
  <2>2. s.entity = derive_entity_id(namespace.uuid, native.key) /\ s.entity_type = namespace.type
    BY <1>1 DEF ValidSubject
  <2> HIDE DEF namespace, identity, native
  <2>3. /\ identity.entity = derive_entity_id(namespace.uuid, native.key)
        /\ identity.type = namespace.type /\ identity.native = native
        /\ identity.derivation = [uuid |-> namespace.uuid, key |-> native.key]
        /\ identity.method = "unresolved" /\ identity.confidence = "none"
        /\ identity.related = {}
    BY <2>1 DEF declared_identity, Unresolved
  <2>4. WellFormed(identity)
    BY <2>3 DEF WellFormed
  <2> QED BY <2>2, <2>3, <2>4 DEF Named, identity, native
<1>2. CASE ~(native # NoNative /\ native.namespace \in DOMAIN registration.namespaces)
  <2>1. identity = Unresolved(s.entity, s.entity_type, NoDerivation, native)
    BY <1>2 DEF passthrough_identity
  <2> HIDE DEF identity, native
  <2>2. /\ identity.entity = s.entity /\ identity.type = s.entity_type
        /\ identity.native = native /\ identity.derivation = NoDerivation
        /\ identity.method = "unresolved" /\ identity.confidence = "none"
        /\ identity.related = {}
    BY <2>1 DEF Unresolved
  <2>3. WellFormed(identity)
    BY <2>2 DEF WellFormed
  <2> QED BY <2>2, <2>3 DEF Named, identity, native
<1> QED BY <1>1, <1>2

\* The resolver's answer is used only when it is well-formed, of the active
\* resolver and about the subject that was asked; otherwise the fallback is.
LEMMA IdentifyNames ==
    ASSUME NEW s, NEW registration, NEW answer, ValidSubject(s, registration)
    PROVE  Named(s, identify(s, registration, answer))
<1>1. CASE Usable(answer, s.subject)
  BY <1>1 DEF identify, Usable, Named
<1>2. CASE ~Usable(answer, s.subject)
  BY <1>2, FallbackNames DEF identify
<1> QED BY <1>1, <1>2

KeepsSubject(d) ==
    /\ stage'[d] = stage[d] /\ submission'[d] = submission[d] /\ version'[d] = version[d]
    /\ subject'[d] = subject[d]

LEMMA SubjectFrame ==
    ASSUME NEW d, SubjectStands(d), KeepsSubject(d)
    PROVE  SubjectStands(d)'
BY DEF SubjectStands, KeepsSubject, registration_of

\* A step of one decision that writes nothing.
LEMMA SubjectStep ==
    ASSUME SubjectInv, NEW d \in Decisions, bundles' = bundles,
           \A c \in Decisions \ {d} : KeepsSubject(c), SubjectStands(d)'
    PROVE  SubjectInv'
<1>1. ASSUME NEW c \in Decisions PROVE SubjectStands(c)'
  BY SubjectFrame DEF SubjectInv
<1> QED BY <1>1 DEF SubjectInv

LEMMA SubjectInitially == PipelineInit => SubjectInv
BY DEF PipelineInit, SubjectInv, SubjectStands, BundleNamed, Deciding, InMemory, Awaiting

LEMMA IntakeNames ==
    ASSUME PipelineInv, SubjectInv, NEW d \in Decisions, NEW s \in Submissions, Intake(d, s)
    PROVE  SubjectInv'
<1>1. bundles' = bundles
  BY DEF Intake, storeVars
<1>2. \A c \in Decisions \ {d} : KeepsSubject(c)
  BY DEF Intake, PipelineInv, PipelineDomains, KeepsSubject
<1>3. submission'[d] = s
  BY DEF Intake, PipelineInv, PipelineDomains
<1>4. CASE stage'[d] = "refused"
  BY <1>1, <1>2, <1>4, SubjectStep DEF SubjectStands, Deciding, InMemory, Awaiting
<1>5. CASE stage'[d] = "identity"
  <2> DEFINE entry == served[s.reasoner]
  <2>1. version'[d] = entry.version /\ AcceptedBy(s, Profile[<<s.reasoner, entry.version>>])
    BY <1>5 DEF Intake, PipelineInv, PipelineDomains
  <2> HIDE DEF entry
  <2>2. ValidSubject(s, Profile[<<s.reasoner, entry.version>>])
    BY <2>1 DEF AcceptedBy
  <2>3. registration_of(d)' = Profile[<<s.reasoner, entry.version>>]
    BY <1>3, <2>1 DEF registration_of
  <2>4. SubjectStands(d)'
    BY <1>3, <1>5, <2>2, <2>3, SubmissionsHaveAMode DEF SubjectStands, Deciding
  <2> QED BY <1>1, <1>2, <2>4, SubjectStep
<1> QED BY <1>4, <1>5 DEF Intake, PipelineInv, PipelineDomains

LEMMA IdentifiedNames ==
    ASSUME PipelineInv, SubjectInv, NEW d \in Decisions, NEW identity, stage[d] = "identity",
           Named(submission[d], identity), Identified(d, identity)
    PROVE  SubjectInv'
<1>1. bundles' = bundles
  BY DEF Identified, storeVars
<1>2. \A c \in Decisions \ {d} : KeepsSubject(c)
  BY DEF Identified, PipelineInv, PipelineDomains, KeepsSubject
<1>3. stage'[d] = "mandatory" /\ subject'[d] = identity /\ submission'[d] = submission[d]
  BY DEF Identified, PipelineInv, PipelineDomains
<1>4. submission[d].mode \in {"gate", "record"}
  BY DEF SubjectInv, SubjectStands, InMemory, Awaiting
<1> QED BY <1>1, <1>2, <1>3, <1>4, SubjectStep DEF SubjectStands

\* After the identity step a decision keeps its submission and its identity.
LEMMA DecidingNames ==
    ASSUME SubjectInv, NEW d \in Decisions, stage[d] \in Deciding,
           bundles' = bundles, submission' = submission, version' = version, subject' = subject,
           stage'[d] # "identity", \A c \in Decisions \ {d} : stage'[c] = stage[c]
    PROVE  SubjectInv'
<1>1. \A c \in Decisions \ {d} : KeepsSubject(c)
  BY DEF KeepsSubject
<1>2. SubjectStands(d)'
  BY DEF SubjectInv, SubjectStands, Deciding, InMemory, Awaiting
<1> QED BY <1>1, <1>2, SubjectStep

\* The bundle takes the identity of its decision.
LEMMA WriteNames ==
    ASSUME PipelineInv, SubjectInv, NEW d \in Decisions, WriteBundle(d)
    PROVE  SubjectInv'
<1>1. /\ stage[d] = "write" /\ stage'[d] = "respond"
      /\ submission' = submission /\ version' = version /\ subject' = subject
      /\ \A c \in Decisions \ {d} : stage'[c] = stage[c] /\ bundles'[c] = bundles[c]
      /\ bundles'[d] = bundles[d] \/ bundles'[d] = BundleOf(d)
  BY DEF WriteBundle, PipelineInv, PipelineDomains
<1>2. SubjectStands(d) /\ BundleNamed(bundles[d])
  BY DEF SubjectInv
<1>3. Named(submission[d], subject[d]) /\ submission[d].mode \in {"gate", "record"}
  BY <1>1, <1>2 DEF SubjectStands, Deciding, InMemory
<1>4. BundleNamed(BundleOf(d))
  <2> DEFINE competing == CompetingChecks(submission[d], registration_of(d))
  <2>1. competing # {} => submission[d].mode = "record"
    BY <1>3 DEF CompetingChecks
  <2> HIDE DEF competing
  <2>2. BundleOf(d).submission = submission[d] /\ BundleOf(d).identity = subject[d]
        /\ BundleOf(d).competing = competing
    BY DEF BundleOf, competing
  <2> QED BY <1>3, <2>1, <2>2 DEF BundleNamed
<1>5. SubjectStands(d)'
  BY <1>1, <1>3 DEF SubjectStands
<1>6. \A c \in Decisions : BundleNamed(bundles'[c])
  BY <1>1, <1>2, <1>4 DEF SubjectInv
<1>7. \A c \in Decisions \ {d} : SubjectStands(c)'
  BY <1>1, SubjectFrame DEF SubjectInv, KeepsSubject
<1> QED BY <1>5, <1>6, <1>7 DEF SubjectInv

\* A decision that is given up is about nobody, and its bundle stays.
LEMMA LoseNames ==
    ASSUME PipelineInv, SubjectInv, NEW lost \in SUBSET Decisions, Lose(lost)
    PROVE  SubjectInv'
<1>1. bundles' = bundles
  BY DEF Lose, storeVars
<1>2. ASSUME NEW d \in Decisions PROVE SubjectStands(d)'
  <2>1. CASE d \in lost
    <3>1. stage'[d] = "lost"
      BY <2>1 DEF Lose
    <3> QED BY <3>1 DEF SubjectStands, Deciding, InMemory, Awaiting
  <2>2. CASE d \notin lost
    <3>1. KeepsSubject(d)
      BY <2>2 DEF Lose, KeepsSubject
    <3> QED BY <3>1, SubjectFrame DEF SubjectInv
  <2> QED BY <2>1, <2>2
<1> QED BY <1>1, <1>2 DEF SubjectInv

\* The steps that leave every decision's subject alone.
LEMMA AloneNames ==
    ASSUME SubjectInv, UNCHANGED <<stage, submission, version, subject, bundles>>
    PROVE  SubjectInv'
<1>1. \A d \in Decisions : KeepsSubject(d)
  BY DEF KeepsSubject
<1> QED BY <1>1, SubjectFrame DEF SubjectInv

LEMMA SubjectNext ==
    PipelineInv /\ SubjectInv /\ [PipelineNext]_pipelineVars => SubjectInv'
<1> SUFFICES ASSUME PipelineInv, SubjectInv, [PipelineNext]_pipelineVars PROVE SubjectInv'
    OBVIOUS
<1>1. CASE Registering
  BY <1>1, AloneNames DEF Registering, decisionVars, storeVars
<1>2. CASE PipelineCrash
  BY <1>2, LoseNames DEF PipelineCrash
<1>3. CASE UNCHANGED pipelineVars
  BY <1>3, AloneNames DEF pipelineVars, decisionVars, storeVars
<1>4. ASSUME NEW d \in Decisions, PassThrough(d) PROVE SubjectInv'
  <2>1. ValidSubject(submission[d], registration_of(d)) /\ stage[d] = "identity"
    BY <1>4 DEF PassThrough, SubjectInv, SubjectStands
  <2> QED BY <1>4, <2>1, FallbackNames, IdentifiedNames DEF PassThrough
<1>5. ASSUME NEW d \in Decisions, NEW answer \in Answers, Resolved(d, answer) PROVE SubjectInv'
  <2>1. ValidSubject(submission[d], registration_of(d)) /\ stage[d] = "identity"
    BY <1>5 DEF Resolved, SubjectInv, SubjectStands
  <2> QED BY <1>5, <2>1, IdentifyNames, IdentifiedNames DEF Resolved
<1>6. ASSUME NEW d \in Decisions, NEW g, NEW status, NEW output, EndGate(d, g, status, output)
      PROVE  SubjectInv'
  BY <1>6, AloneNames DEF EndGate, storeVars
<1>7. ASSUME NEW d \in Decisions, CloseMandatory(d) PROVE SubjectInv'
  <2>1. /\ stage[d] \in Deciding /\ bundles' = bundles /\ submission' = submission
        /\ version' = version /\ subject' = subject /\ stage'[d] # "identity"
        /\ \A c \in Decisions \ {d} : stage'[c] = stage[c]
    BY <1>7 DEF CloseMandatory, Deciding, storeVars, PipelineInv, PipelineDomains
  <2> QED BY <2>1, DecidingNames
<1>8. ASSUME NEW d \in Decisions, CloseAdvisory(d) PROVE SubjectInv'
  <2>1. /\ stage[d] \in Deciding /\ bundles' = bundles /\ submission' = submission
        /\ version' = version /\ subject' = subject /\ stage'[d] # "identity"
        /\ \A c \in Decisions \ {d} : stage'[c] = stage[c]
    BY <1>8 DEF CloseAdvisory, Deciding, storeVars, PipelineInv, PipelineDomains
  <2> QED BY <2>1, DecidingNames
<1>9. ASSUME NEW d \in Decisions, Enforce(d) PROVE SubjectInv'
  <2>1. /\ stage[d] \in Deciding /\ bundles' = bundles /\ submission' = submission
        /\ version' = version /\ subject' = subject /\ stage'[d] # "identity"
        /\ \A c \in Decisions \ {d} : stage'[c] = stage[c]
    BY <1>9 DEF Enforce, Deciding, storeVars, PipelineInv, PipelineDomains
  <2> QED BY <2>1, DecidingNames
<1>10. ASSUME NEW d \in Decisions, Respond(d) PROVE SubjectInv'
  <2>1. /\ stage[d] \in Deciding /\ bundles' = bundles /\ submission' = submission
        /\ version' = version /\ subject' = subject /\ stage'[d] # "identity"
        /\ \A c \in Decisions \ {d} : stage'[c] = stage[c]
    BY <1>10 DEF Respond, Deciding, storeVars, PipelineInv, PipelineDomains
  <2> QED BY <2>1, DecidingNames
<1>11. ASSUME NEW d \in Decisions, Progress(d) PROVE SubjectInv'
  <2>1. ASSUME NEW g \in running[d], GateFails(d, g) PROVE SubjectInv'
    BY <2>1, <1>6 DEF GateFails
  <2> QED BY <1>11, <1>4, <1>7, <1>8, <1>9, <1>10, <2>1, WriteNames DEF Progress
<1>12. ASSUME NEW d \in Decisions, NEW g, NEW returned, GateAnswers(d, g, returned)
       PROVE  SubjectInv'
  BY <1>12, <1>6 DEF GateAnswers
<1>13. ASSUME NEW d \in Decisions, Cancel(d) \/ FailWrite(d) PROVE SubjectInv'
  BY <1>13, LoseNames DEF Cancel, FailWrite
<1>14. ASSUME NEW d \in Decisions, Replay(d) PROVE SubjectInv'
  BY <1>14, AloneNames DEF Replay, decisionVars
<1>15. ASSUME NEW d \in Decisions, NEW s \in Submissions, Intake(d, s) PROVE SubjectInv'
  BY <1>15, IntakeNames
<1> QED
  BY <1>1, <1>2, <1>3, <1>5, <1>11, <1>12, <1>13, <1>14, <1>15 DEF PipelineNext

\* Whatever was registered while its resolver was asked, and whatever the
\* resolver answers: the bundle of a stored decision can be read back, and is
\* about the entity its reasoner submitted or about the active resolver's match
\* of the subject that was asked.
THEOREM SubjectsAreNamed == PipelineSpec => []SubjectIsNamed
<1>1. SubjectInv => SubjectIsNamed
  BY DEF SubjectInv, BundleNamed, Named, SubjectIsNamed, Stored, ValidBundle
<1>2. PipelineSpec => [](PipelineInv /\ SubjectInv)
  BY PipelineInitially, PipelineStep, SubjectInitially, SubjectNext, PTL DEF PipelineSpec
<1> QED BY <1>1, <1>2, PTL
===============================================================================
