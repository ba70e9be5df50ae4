------------------------------ MODULE PolicyProofs ------------------------------
(***************************************************************************)
(* Proofs about the policy gate's evidence, for any corpora, loads,        *)
(* documents, bindings and queries: a completed load leaves the index with *)
(* what Postgres holds, whatever other loads did; what a decision cites    *)
(* can be proved for ever; and a verification accuses nobody wrongly.      *)
(***************************************************************************)
EXTENDS PolicyEvidence, Iteration

-----------------------------------------------------------------------------
(* The chunks of a corpus. *)

\* A function by its values: what is written over it, or restricted, is one.
IsMapping(f) == f = [x \in DOMAIN f |-> f[x]]

\* What covers a mapping and holds nothing else is the mapping.
LEMMA OverNothing ==
    ASSUME NEW f, IsMapping(f) PROVE Over(f, <<>>) = f
<1>1. DOMAIN <<>> = {}
  OBVIOUS
<1>2. Over(f, <<>>) = [id \in DOMAIN f |-> f[id]]
  BY <1>1 DEF Over
<1> QED BY <1>2 DEF IsMapping

LEMMA ChunksAreMapping ==
    ASSUME NEW c, NEW files, IsFiniteSet(files)
    PROVE  IsMapping(CorpusOf(c, files).chunks)
<1> DEFINE Of(f) == FileChunks(c, f)
           ids == UNION {DOMAIN Of(f) : f \in files}
           values == UNION {{Of(f)[id] : id \in DOMAIN Of(f)} : f \in files}
           D == UNION {[S -> values] : S \in SUBSET ids}
           Some(S) == CHOOSE f \in S : TRUE
           Recurs(h) == h = [S \in SUBSET files |->
                               IF S = {} THEN <<>> ELSE Over(Of(Some(S)), h[S \ {Some(S)}])]
           iter == CHOOSE h : Recurs(h)
           pick == [S \in SUBSET files |-> Some(S)]
           step == [f \in files |-> [chunks \in D |-> Over(Of(f), chunks)]]
<1>1. CorpusOf(c, files).chunks = iter[files]
  BY DEF CorpusOf, FoldSet, MapThenFoldSet
<1>2. \A d \in D : IsMapping(d)
  BY DEF IsMapping
<1>3. <<>> \in D
  <2>1. <<>> \in [{} -> values]
    OBVIOUS
  <2> QED BY <2>1
<1>4. ASSUME NEW f \in files, NEW d \in D PROVE Over(Of(f), d) \in D
  <2>1. PICK S \in SUBSET ids : d \in [S -> values]
    OBVIOUS
  <2>2. DOMAIN Of(f) \in SUBSET ids /\ \A id \in DOMAIN Of(f) : Of(f)[id] \in values
    OBVIOUS
  <2> HIDE DEF Of, ids, values
  <2>3. Over(Of(f), d) \in [S \cup DOMAIN Of(f) -> values]
    BY <2>1, <2>2 DEF Over
  <2> QED BY <2>1, <2>2, <2>3
<1> HIDE DEF D, Of
<1>5. \A S \in SUBSET files : S # {} => Some(S) \in S
  OBVIOUS
<1> HIDE DEF Some
<1>6. \E h : Recurs(h)
  <2>1. Picks(pick, files)
    BY <1>5 DEF Picks
  <2>2. step \in [files -> [D -> D]]
    BY <1>4
  <2>3. PICK g : SetFoldOf(g, files, D, <<>>, step, pick)
    <3> HIDE DEF pick, step
    <3> QED BY <1>3, <2>1, <2>2, SetFoldExists
  <2>4. g \in [SUBSET files -> D] /\ g[{}] = <<>>
    BY <2>3 DEF SetFoldOf
  <2>5. ASSUME NEW S \in SUBSET files, S # {}
        PROVE  g[S] = Over(Of(Some(S)), g[S \ {Some(S)}])
    <3>1. g[S] = step[pick[S]][g[S \ {pick[S]}]]
      BY <2>3, <2>5 DEF SetFoldOf
    <3>2. pick[S] = Some(S) /\ Some(S) \in files /\ g[S \ {Some(S)}] \in D
      BY <1>5, <2>4, <2>5
    <3> HIDE DEF pick
    <3> QED BY <3>1, <3>2
  <2>6. Recurs(g)
    <3> HIDE DEF step, pick
    <3> QED BY <2>4, <2>5
  <2> HIDE DEF Recurs
  <2> QED BY <2>6
<1>7. Recurs(iter)
  <2> HIDE DEF Recurs
  <2> QED BY <1>6
<1>8. SUBSET files \subseteq {S \in SUBSET files : iter[S] \in D}
  <2> DEFINE G == {S \in SUBSET files : iter[S] \in D}
  <2>1. {} \in G
    BY <1>3, <1>7
  <2>2. ASSUME NEW S \in SUBSET files, S # {}, S \ {pick[S]} \in G PROVE S \in G
    <3>1. pick[S] = Some(S) /\ Some(S) \in files
      BY <1>5, <2>2
    <3>2. iter[S] = Over(Of(Some(S)), iter[S \ {Some(S)}])
      BY <1>7, <2>2
    <3>3. iter[S \ {Some(S)}] \in D
      BY <2>2, <3>1
    <3> HIDE DEF iter
    <3> QED BY <1>4, <3>1, <3>2, <3>3
  <2>3. Picks(pick, files)
    BY <1>5 DEF Picks
  <2> HIDE DEF G, pick
  <2>4. SUBSET files \subseteq G
    BY <2>1, <2>2, <2>3, OverSubsets
  <2> QED BY <2>4 DEF G
<1>9. iter[files] \in D
  BY <1>8
<1> HIDE DEF iter
<1> QED BY <1>1, <1>2, <1>9

-----------------------------------------------------------------------------
(* Loads: the inductive invariant. *)

Documents == UNION UNION {Directories[c] : c \in Corpora}
Writing == {"postgres", "index", "delete", "create", "wipe", "bulk", "stale_chunks"}
Load == [pc : {"idle", "lock"} \cup Writing, corpus : Corpora \cup {Nobody},
         files : SUBSET Documents, wipe : BOOLEAN, wiped : BOOLEAN]

LoadTypes ==
    /\ DOMAIN postgres = Corpora /\ IsMapping(postgres)
    /\ DOMAIN indexed = Corpora /\ IsMapping(indexed)
    /\ index \in {"absent", "stale", "current"}
    /\ lock \in [Corpora -> Loaders \cup {Nobody}]
    /\ loader \in [Loaders -> Load]
    /\ \A l \in Loaders : loader[l].pc # "idle" =>
         loader[l].corpus \in Corpora /\ IsFiniteSet(loader[l].files)
    /\ settled \in SUBSET Corpora

\* No document is in an index that is not there.
AbsentIsEmpty == index = "absent" => \A c \in Corpora : indexed[c] = <<>>

\* The index holds what the load wrote; one that was created by a write, or is
\* not there, nothing else.
WroteIndex(l) ==
    LET held == indexed[loader[l].corpus]
        chunks == LoadedChunks(l)
    IN  /\ \A id \in DOMAIN chunks : id \in DOMAIN held /\ held[id] = chunks[id]
        /\ index # "current" => held = chunks

\* Where a load stands: it has its corpus's lock; Postgres is as it wrote it,
\* and no other load has settled its corpus; an index that lost its mapping was
\* emptied since it looked; what it wrote is in the index unless that was
\* emptied after.
InHandOf(l) ==
    LET c == loader[l].corpus
        pc == loader[l].pc
    IN  /\ pc \in Writing => lock[c] = l
        /\ pc \in Writing \ {"postgres"} =>
             postgres[c] = CorpusOf(c, loader[l].files) /\ c \notin settled
        /\ pc \in {"wipe", "bulk"} /\ index # "current" => indexed[c] = <<>>
        /\ pc = "stale_chunks" /\ ~loader[l].wiped => WroteIndex(l)

LoadInv ==
    /\ LoadTypes
    /\ AbsentIsEmpty
    /\ \A l \in Loaders : InHandOf(l)
    /\ StoresAgree

LEMMA LoadInitInv == LoadInit => LoadInv
<1> SUFFICES ASSUME LoadInit PROVE LoadInv
  OBVIOUS
<1> USE DEF LoadInit
<1>1. LoadTypes
  <2>1. Idle \in Load
    BY DEF Idle, Load
  <2>2. \A l \in Loaders : loader[l].pc = "idle"
    BY DEF Idle
  <2>3. index \in {"absent", "stale", "current"}
    BY LoadConstants
  <2> QED BY <2>1, <2>2, <2>3 DEF LoadTypes, IsMapping
<1>2. AbsentIsEmpty /\ StoresAgree
  BY DEF AbsentIsEmpty, StoresAgree
<1>3. \A l \in Loaders : InHandOf(l)
  BY DEF InHandOf, Idle, Writing
<1> QED BY <1>1, <1>2, <1>3 DEF LoadInv

\* Two loads do not write one corpus.
LEMMA CorporaDiffer ==
    ASSUME LoadInv, NEW k \in Loaders, NEW l \in Loaders, k # l,
           loader[k].pc \in Writing, loader[l].pc \in Writing
    PROVE  loader[k].corpus # loader[l].corpus
BY DEF LoadInv, InHandOf

\* What a load is sure of outlasts a step of others that leaves its corpus and
\* gives no index it did not have.
LEMMA Undisturbed ==
    ASSUME NEW k \in Loaders, InHandOf(k), loader'[k] = loader[k],
           index' # "current" => index # "current",
           loader[k].pc \in Writing =>
             /\ lock'[loader[k].corpus] = lock[loader[k].corpus]
             /\ postgres'[loader[k].corpus] = postgres[loader[k].corpus]
             /\ indexed'[loader[k].corpus] = indexed[loader[k].corpus]
             /\ loader[k].corpus \in settled' => loader[k].corpus \in settled
    PROVE  InHandOf(k)'
BY DEF InHandOf, WroteIndex, LoadedChunks, Writing

LEMMA OthersStand ==
    ASSUME LoadInv, NEW l \in Loaders,
           \A k \in Loaders \ {l} : loader'[k] = loader[k],
           index' # "current" => index # "current",
           \A c \in Corpora : lock[c] \notin {l, Nobody} => lock'[c] = lock[c],
           \A c \in Corpora :
             \/ loader[l].pc \in Writing /\ loader[l].corpus = c
             \/ /\ postgres'[c] = postgres[c] /\ indexed'[c] = indexed[c]
                /\ c \in settled' => c \in settled
    PROVE  \A k \in Loaders \ {l} : InHandOf(k)'
<1> SUFFICES ASSUME NEW k \in Loaders \ {l} PROVE InHandOf(k)'
  OBVIOUS
<1>1. InHandOf(k) /\ loader'[k] = loader[k]
  BY DEF LoadInv
<1>2. CASE loader[k].pc \in Writing
  <2>1. loader[k].corpus \in Corpora /\ lock[loader[k].corpus] = k
    BY <1>1, <1>2 DEF LoadInv, LoadTypes, InHandOf, Writing
  <2>2. lock'[loader[k].corpus] = lock[loader[k].corpus]
    BY <2>1, LoadConstants
  <2>3. loader[l].pc \in Writing => loader[l].corpus # loader[k].corpus
    BY <1>2, CorporaDiffer
  <2> QED BY <1>1, <2>1, <2>2, <2>3, Undisturbed
<1>3. CASE loader[k].pc \notin Writing
  BY <1>1, <1>3, Undisturbed
<1> QED BY <1>2, <1>3

\* A load begins, waits for its lock or finds its way: nothing is written.
LEMMA BeginStep ==
    ASSUME LoadInv, NEW l \in Loaders, NEW c \in Corpora, NEW files \in Directories[c],
           NEW wipe \in BOOLEAN, main(l, c, files, wipe)
    PROVE  LoadInv'
<1> DEFINE new == [Idle EXCEPT !.pc = "lock", !.corpus = c, !.files = files, !.wipe = wipe]
<1>1. /\ loader' = [loader EXCEPT ![l] = new]
      /\ UNCHANGED <<postgres, index, indexed, lock, settled>>
  BY DEF main
<1>2. files \in SUBSET Documents /\ IsFiniteSet(files)
  BY LoadConstants DEF Documents
<1>3. new \in Load /\ new.pc = "lock" /\ new.corpus = c /\ new.files = files
  BY <1>2 DEF Idle, Load
<1> HIDE DEF new
<1>4. loader'[l] = new /\ \A k \in Loaders \ {l} : loader'[k] = loader[k]
  BY <1>1 DEF LoadInv, LoadTypes
<1>5. LoadTypes'
  BY <1>1, <1>2, <1>3, <1>4 DEF LoadInv, LoadTypes
<1>6. InHandOf(l)'
  BY <1>3, <1>4 DEF InHandOf, Writing
<1>7. \A k \in Loaders \ {l} : InHandOf(k)'
  BY <1>1, <1>4, OthersStand
<1> QED BY <1>1, <1>5, <1>6, <1>7 DEF LoadInv, AbsentIsEmpty, StoresAgree

\* What moving on changes of a load.
LEMMA Moves ==
    ASSUME LoadInv, NEW l \in Loaders, loader[l].pc # "idle", NEW pc \in Writing, Goto(l, pc)
    PROVE  /\ loader' \in [Loaders -> Load]
           /\ loader'[l] = [loader[l] EXCEPT !.pc = pc] /\ loader'[l].pc = pc
           /\ loader'[l].corpus = loader[l].corpus /\ loader'[l].files = loader[l].files
           /\ loader'[l].wipe = loader[l].wipe /\ loader'[l].wiped = loader[l].wiped
           /\ \A k \in Loaders \ {l} : loader'[k] = loader[k]
           /\ \A k \in Loaders : loader'[k].pc # "idle" =>
                loader'[k].corpus \in Corpora /\ IsFiniteSet(loader'[k].files)
<1>1. loader[l] \in Load /\ loader' = [loader EXCEPT ![l].pc = pc]
  BY DEF LoadInv, LoadTypes, Goto
<1>2. /\ loader'[l] = [loader[l] EXCEPT !.pc = pc]
      /\ \A k \in Loaders \ {l} : loader'[k] = loader[k]
      /\ DOMAIN loader' = Loaders
  BY <1>1 DEF LoadInv, LoadTypes
<1>3. /\ loader'[l] \in Load /\ loader'[l].pc = pc
      /\ loader'[l].corpus = loader[l].corpus /\ loader'[l].files = loader[l].files
      /\ loader'[l].wipe = loader[l].wipe /\ loader'[l].wiped = loader[l].wiped
  BY <1>1, <1>2 DEF Load
<1>4. loader' \in [Loaders -> Load]
  BY <1>1, <1>3 DEF LoadInv, LoadTypes
<1> QED BY <1>2, <1>3, <1>4 DEF LoadInv, LoadTypes

LEMMA LockStep ==
    ASSUME LoadInv, NEW l \in Loaders, AcquireLock(l) PROVE LoadInv'
<1> DEFINE c == loader[l].corpus
<1>1. /\ loader[l].pc = "lock" /\ lock[c] = Nobody /\ lock' = [lock EXCEPT ![c] = l]
      /\ Goto(l, "postgres") /\ UNCHANGED <<postgres, index, indexed, settled>>
  BY DEF AcquireLock
<1>2. c \in Corpora /\ lock'[c] = l /\ \A d \in Corpora \ {c} : lock'[d] = lock[d]
  BY <1>1 DEF LoadInv, LoadTypes
<1>3. /\ loader' \in [Loaders -> Load]
      /\ loader'[l].pc = "postgres" /\ loader'[l].corpus = c
      /\ \A k \in Loaders \ {l} : loader'[k] = loader[k]
      /\ \A k \in Loaders : loader'[k].pc # "idle" =>
           loader'[k].corpus \in Corpora /\ IsFiniteSet(loader'[k].files)
  BY <1>1, Moves DEF Writing
<1>4. lock' \in [Corpora -> Loaders \cup {Nobody}]
  BY <1>1 DEF LoadInv, LoadTypes
<1>5. LoadTypes'
  BY <1>1, <1>3, <1>4 DEF LoadInv, LoadTypes
<1>6. InHandOf(l)'
  BY <1>2, <1>3 DEF InHandOf
<1>7. \A k \in Loaders \ {l} : InHandOf(k)'
  BY <1>1, <1>2, <1>3, OthersStand
<1> QED BY <1>1, <1>5, <1>6, <1>7 DEF LoadInv, AbsentIsEmpty, StoresAgree

LEMMA WritePostgresStep ==
    ASSUME LoadInv, NEW l \in Loaders, write_postgres(l) PROVE LoadInv'
<1> DEFINE c == loader[l].corpus
           new == CorpusOf(c, loader[l].files)
<1>1. /\ loader[l].pc = "postgres"
      /\ postgres' = [postgres EXCEPT ![c] = new] /\ settled' = settled \ {c}
      /\ Goto(l, "index") /\ UNCHANGED <<index, indexed, lock>>
  BY DEF write_postgres
<1>2. c \in Corpora /\ lock[c] = l
  BY <1>1 DEF LoadInv, LoadTypes, InHandOf, Writing
<1> HIDE DEF new
<1>3. /\ DOMAIN postgres' = Corpora /\ IsMapping(postgres')
      /\ postgres'[c] = new /\ \A d \in Corpora \ {c} : postgres'[d] = postgres[d]
  BY <1>1, <1>2 DEF LoadInv, LoadTypes, IsMapping
<1>4. /\ loader' \in [Loaders -> Load]
      /\ loader'[l].pc = "index" /\ loader'[l].corpus = c /\ loader'[l].files = loader[l].files
      /\ \A k \in Loaders \ {l} : loader'[k] = loader[k]
      /\ \A k \in Loaders : loader'[k].pc # "idle" =>
           loader'[k].corpus \in Corpora /\ IsFiniteSet(loader'[k].files)
  BY <1>1, Moves DEF Writing
<1>5. LoadTypes'
  BY <1>1, <1>3, <1>4 DEF LoadInv, LoadTypes
<1>6. InHandOf(l)'
  BY <1>1, <1>2, <1>3, <1>4 DEF InHandOf, new
<1>7. \A k \in Loaders \ {l} : InHandOf(k)'
  BY <1>1, <1>3, <1>4, OthersStand DEF Writing
<1> QED BY <1>1, <1>3, <1>5, <1>6, <1>7 DEF LoadInv, AbsentIsEmpty, StoresAgree

\* The way to the index is found by what it is when the load looks.
LEMMA LookStep ==
    ASSUME LoadInv, NEW l \in Loaders, ensure_es_index(l) PROVE LoadInv'
<1> DEFINE c == loader[l].corpus
           next == CASE index = "current" -> (IF loader[l].wipe THEN "wipe" ELSE "bulk")
                     [] index = "stale"   -> "delete"
                     [] index = "absent"  -> "create"
<1>1. /\ loader[l].pc = "index" /\ Goto(l, next)
      /\ UNCHANGED <<postgres, index, indexed, lock, settled>>
  BY DEF ensure_es_index
<1>2. next \in {"wipe", "bulk", "delete", "create"} /\ (next \in {"wipe", "bulk"} => index = "current")
  BY DEF LoadInv, LoadTypes
<1> HIDE DEF next
<1>3. /\ loader' \in [Loaders -> Load]
      /\ loader'[l].pc = next /\ loader'[l].corpus = c /\ loader'[l].files = loader[l].files
      /\ \A k \in Loaders \ {l} : loader'[k] = loader[k]
      /\ \A k \in Loaders : loader'[k].pc # "idle" =>
           loader'[k].corpus \in Corpora /\ IsFiniteSet(loader'[k].files)
  BY <1>1, <1>2, Moves DEF Writing
<1>4. LoadTypes'
  BY <1>1, <1>3 DEF LoadInv, LoadTypes
<1>5. InHandOf(l)'
  BY <1>1, <1>2, <1>3 DEF LoadInv, InHandOf, Writing
<1>6. \A k \in Loaders \ {l} : InHandOf(k)'
  BY <1>1, <1>3, OthersStand
<1> QED BY <1>1, <1>4, <1>5, <1>6 DEF LoadInv, AbsentIsEmpty, StoresAgree

\* Dropping the index empties every corpus, unsettles it and tells the loads
\* that had written theirs.
LEMMA DeleteStep ==
    ASSUME LoadInv, NEW l \in Loaders, DeleteIndex(l) PROVE LoadInv'
<1>1. /\ loader[l].pc = "delete" /\ index' = "absent" /\ indexed' = [c \in Corpora |-> <<>>]
      /\ settled' = {} /\ UNCHANGED <<postgres, lock>>
      /\ loader' = [k \in Loaders |-> [loader[k] EXCEPT !.wiped = @ \/ loader[k].pc = "stale_chunks",
                                         !.pc = IF k = l THEN "create" ELSE @]]
  BY DEF DeleteIndex
<1>2. ASSUME NEW k \in Loaders
      PROVE  /\ loader'[k] \in Load
             /\ loader'[k].corpus = loader[k].corpus /\ loader'[k].files = loader[k].files
             /\ loader'[k].pc = IF k = l THEN "create" ELSE loader[k].pc
             /\ loader[k].pc = "stale_chunks" => loader'[k].wiped = TRUE
  <2>1. loader[k] \in Load
    BY DEF LoadInv, LoadTypes
  <2> QED BY <1>1, <2>1 DEF Load, Writing
<1>3. LoadTypes'
  <2>1. DOMAIN indexed' = Corpora /\ IsMapping(indexed')
    BY <1>1 DEF IsMapping
  <2>2. loader' \in [Loaders -> Load]
    BY <1>1, <1>2
  <2>3. \A k \in Loaders : loader'[k].pc # "idle" => loader[k].pc # "idle"
    BY <1>1, <1>2
  <2> QED BY <1>1, <1>2, <2>1, <2>2, <2>3 DEF LoadInv, LoadTypes
<1>4. ASSUME NEW k \in Loaders PROVE InHandOf(k)'
  <2>1. loader'[k].pc \in Writing => loader[k].pc \in Writing /\ loader[k].corpus \in Corpora
    BY <1>1, <1>2 DEF LoadInv, LoadTypes, Writing
  <2>2. loader'[k].pc \in Writing \ {"postgres"} => loader[k].pc \in Writing \ {"postgres"}
    BY <1>1, <1>2 DEF Writing
  <2>3. loader'[k].pc = "stale_chunks" => loader'[k].wiped
    BY <1>2
  <2>4. loader'[k].pc \in {"wipe", "bulk"} => loader'[k].pc \in Writing
    BY DEF Writing
  <2>5. /\ loader[k].pc \in Writing => lock[loader[k].corpus] = k
        /\ loader[k].pc \in Writing \ {"postgres"} =>
             postgres[loader[k].corpus] = CorpusOf(loader[k].corpus, loader[k].files)
    BY DEF LoadInv, InHandOf
  <2>6. loader'[k].pc \in Writing => lock'[loader'[k].corpus] = k
    BY <1>1, <1>2, <2>1, <2>5
  <2>7. loader'[k].pc \in Writing \ {"postgres"} =>
          /\ postgres'[loader'[k].corpus] = CorpusOf(loader'[k].corpus, loader'[k].files)
          /\ loader'[k].corpus \notin settled'
    <3>1. postgres' = postgres /\ settled' = {}
      BY <1>1
    <3>2. loader'[k].corpus = loader[k].corpus /\ loader'[k].files = loader[k].files
      BY <1>2
    <3> QED BY <2>2, <2>5, <3>1, <3>2
  <2>8. loader'[k].pc \in {"wipe", "bulk"} => indexed'[loader'[k].corpus] = <<>>
    BY <1>1, <1>2, <2>1, <2>4
  <2> QED BY <2>3, <2>6, <2>7, <2>8 DEF InHandOf
<1> QED BY <1>1, <1>3, <1>4 DEF LoadInv, AbsentIsEmpty, StoresAgree

LEMMA CreateStep ==
    ASSUME LoadInv, NEW l \in Loaders, CreateIndex(l) PROVE LoadInv'
<1> DEFINE c == loader[l].corpus
           next == IF loader[l].wipe THEN "wipe" ELSE "bulk"
<1>1. /\ loader[l].pc = "create" /\ Goto(l, next) /\ index' = "current"
      /\ UNCHANGED <<postgres, indexed, lock, settled>>
  BY DEF CreateIndex
<1>2. next \in {"wipe", "bulk"}
  OBVIOUS
<1> HIDE DEF next
<1>3. /\ loader' \in [Loaders -> Load]
      /\ loader'[l].pc = next /\ loader'[l].corpus = c /\ loader'[l].files = loader[l].files
      /\ \A k \in Loaders \ {l} : loader'[k] = loader[k]
      /\ \A k \in Loaders : loader'[k].pc # "idle" =>
           loader'[k].corpus \in Corpora /\ IsFiniteSet(loader'[k].files)
  BY <1>1, <1>2, Moves DEF Writing
<1>4. LoadTypes'
  BY <1>1, <1>3 DEF LoadInv, LoadTypes
<1>5. InHandOf(l)'
  BY <1>1, <1>2, <1>3 DEF LoadInv, InHandOf, Writing
<1>6. \A k \in Loaders \ {l} : InHandOf(k)'
  BY <1>1, <1>3, OthersStand
<1> QED BY <1>1, <1>4, <1>5, <1>6 DEF LoadInv, AbsentIsEmpty, StoresAgree

\* What changes in the index is a corpus of the load's.
LEMMA CorpusAlone ==
    ASSUME LoadInv, NEW c \in Corpora, NEW held, IsMapping(held),
           indexed' = [indexed EXCEPT ![c] = held]
    PROVE  /\ DOMAIN indexed' = Corpora /\ IsMapping(indexed')
           /\ indexed'[c] = held /\ \A d \in Corpora \ {c} : indexed'[d] = indexed[d]
BY DEF LoadInv, LoadTypes, IsMapping

\* What deleting of a corpus leaves of it.
LEMMA Deletes ==
    ASSUME LoadInv, NEW c \in Corpora, NEW keep, indexed' = DeleteMatching(c, keep)
    PROVE  /\ DOMAIN indexed' = Corpora /\ IsMapping(indexed')
           /\ \A d \in Corpora \ {c} : indexed'[d] = indexed[d]
           /\ index # "current" => indexed' = indexed
           /\ index = "current" =>
                indexed'[c] = [id \in DOMAIN indexed[c] \cap keep |-> indexed[c][id]]
<1> DEFINE held == [id \in DOMAIN indexed[c] \cap keep |-> indexed[c][id]]
<1>1. CASE index = "current"
  <2>1. indexed' = [indexed EXCEPT ![c] = held]
    BY <1>1 DEF DeleteMatching
  <2>2. IsMapping(held)
    BY DEF IsMapping
  <2> HIDE DEF held
  <2>3. /\ DOMAIN indexed' = Corpora /\ IsMapping(indexed')
        /\ indexed'[c] = held /\ \A d \in Corpora \ {c} : indexed'[d] = indexed[d]
    BY <2>1, <2>2, CorpusAlone
  <2> QED BY <1>1, <2>3 DEF held
<1>2. CASE index # "current"
  BY <1>2 DEF DeleteMatching, LoadInv, LoadTypes
<1> QED BY <1>1, <1>2

LEMMA WipeStep ==
    ASSUME LoadInv, NEW l \in Loaders, Wipe(l) PROVE LoadInv'
<1> DEFINE c == loader[l].corpus
<1>1. /\ loader[l].pc = "wipe" /\ index # "absent" /\ indexed' = DeleteMatching(c, {})
      /\ Goto(l, "bulk") /\ UNCHANGED <<postgres, index, lock, settled>>
  BY DEF Wipe
<1>2. c \in Corpora /\ lock[c] = l /\ c \notin settled
  BY <1>1 DEF LoadInv, LoadTypes, InHandOf, Writing
<1>3. /\ DOMAIN indexed' = Corpora /\ IsMapping(indexed')
      /\ \A d \in Corpora \ {c} : indexed'[d] = indexed[d]
      /\ index # "current" => indexed' = indexed
  BY <1>1, <1>2, Deletes
<1>4. /\ loader' \in [Loaders -> Load]
      /\ loader'[l].pc = "bulk" /\ loader'[l].corpus = c /\ loader'[l].files = loader[l].files
      /\ \A k \in Loaders \ {l} : loader'[k] = loader[k]
      /\ \A k \in Loaders : loader'[k].pc # "idle" =>
           loader'[k].corpus \in Corpora /\ IsFiniteSet(loader'[k].files)
  BY <1>1, Moves DEF Writing
<1>5. LoadTypes'
  BY <1>1, <1>3, <1>4 DEF LoadInv, LoadTypes
<1>6. InHandOf(l)'
  BY <1>1, <1>3, <1>4 DEF LoadInv, InHandOf, Writing
<1>7. \A k \in Loaders \ {l} : InHandOf(k)'
  BY <1>1, <1>3, <1>4, OthersStand DEF Writing
<1>8. StoresAgree'
  BY <1>1, <1>2, <1>3 DEF LoadInv, LoadTypes, StoresAgree
<1> QED BY <1>1, <1>5, <1>6, <1>7, <1>8 DEF LoadInv, AbsentIsEmpty

\* The chunks of a load that has its files.
LEMMA LoadedIsMapping ==
    ASSUME LoadInv, NEW l \in Loaders, loader[l].pc # "idle"
    PROVE  IsMapping(LoadedChunks(l))
BY ChunksAreMapping DEF LoadInv, LoadTypes, LoadedChunks

\* Writing chunks of a load, all or some, over its corpus.
LEMMA Indexes ==
    ASSUME LoadInv, NEW c \in Corpora, NEW chunks, IsMapping(chunks), Index(c, chunks)
    PROVE  /\ DOMAIN indexed' = Corpora /\ IsMapping(indexed')
           /\ indexed'[c] = Over(chunks, indexed[c])
           /\ \A d \in Corpora \ {c} : indexed'[d] = indexed[d]
           /\ index' \in {"absent", "stale", "current"}
           /\ index' = "current" <=> index = "current"
           /\ AbsentIsEmpty'
<1>1. /\ indexed' = [indexed EXCEPT ![c] = Over(chunks, indexed[c])]
      /\ index' = IF index = "absent" /\ chunks # <<>> THEN "stale" ELSE index
  BY DEF Index, LoadInv, LoadTypes
<1>2. IsMapping(Over(chunks, indexed[c]))
  BY DEF IsMapping, Over
<1>3. /\ DOMAIN indexed' = Corpora /\ IsMapping(indexed')
      /\ indexed'[c] = Over(chunks, indexed[c])
      /\ \A d \in Corpora \ {c} : indexed'[d] = indexed[d]
  BY <1>1, <1>2, CorpusAlone
<1>4. index' \in {"absent", "stale", "current"} /\ (index' = "current" <=> index = "current")
  BY <1>1 DEF LoadInv, LoadTypes
<1>5. ASSUME index' = "absent" PROVE \A d \in Corpora : indexed'[d] = <<>>
  <2>1. index = "absent" /\ chunks = <<>>
    BY <1>1, <1>5
  <2>2. \A d \in Corpora : indexed[d] = <<>>
    BY <2>1 DEF LoadInv, AbsentIsEmpty
  <2>3. Over(chunks, indexed[c]) = <<>>
    BY <2>1, <2>2, OverNothing
  <2> QED BY <1>3, <2>2, <2>3
<1> QED BY <1>3, <1>4, <1>5 DEF AbsentIsEmpty

LEMMA BulkStep ==
    ASSUME LoadInv, NEW l \in Loaders, Bulk(l) PROVE LoadInv'
<1> DEFINE c == loader[l].corpus
           chunks == LoadedChunks(l)
<1>1. /\ loader[l].pc = "bulk" /\ Index(c, chunks)
      /\ Goto(l, "stale_chunks") /\ UNCHANGED <<postgres, lock, settled>>
  BY DEF Bulk
<1>2. c \in Corpora /\ lock[c] = l /\ c \notin settled /\ (index # "current" => indexed[c] = <<>>)
  BY <1>1 DEF LoadInv, LoadTypes, InHandOf, Writing
<1>3. IsMapping(chunks)
  BY <1>1, LoadedIsMapping
<1>4. /\ loader' \in [Loaders -> Load]
      /\ loader'[l].pc = "stale_chunks" /\ loader'[l].corpus = c
      /\ loader'[l].files = loader[l].files
      /\ \A k \in Loaders \ {l} : loader'[k] = loader[k]
      /\ \A k \in Loaders : loader'[k].pc # "idle" =>
           loader'[k].corpus \in Corpora /\ IsFiniteSet(loader'[k].files)
  BY <1>1, Moves DEF Writing
<1>5. LoadedChunks(l)' = chunks
  BY <1>4 DEF LoadedChunks
<1> HIDE DEF chunks
<1>6. /\ DOMAIN indexed' = Corpora /\ IsMapping(indexed')
      /\ indexed'[c] = Over(chunks, indexed[c])
      /\ \A d \in Corpora \ {c} : indexed'[d] = indexed[d]
      /\ index' \in {"absent", "stale", "current"}
      /\ index' = "current" <=> index = "current"
      /\ AbsentIsEmpty'
  BY <1>1, <1>2, <1>3, Indexes
<1>7. LoadTypes'
  BY <1>1, <1>4, <1>6 DEF LoadInv, LoadTypes
<1>8. WroteIndex(l)'
  <2>1. index' # "current" => indexed'[c] = chunks
    <3>1. Over(chunks, <<>>) = chunks
      BY <1>3, OverNothing
    <3> QED BY <1>2, <1>6, <3>1
  <2>2. \A id \in DOMAIN chunks : id \in DOMAIN indexed'[c] /\ indexed'[c][id] = chunks[id]
    <3>1. /\ DOMAIN Over(chunks, indexed[c]) = DOMAIN chunks \cup DOMAIN indexed[c]
          /\ \A id \in DOMAIN chunks : Over(chunks, indexed[c])[id] = chunks[id]
      BY DEF Over
    <3> QED BY <1>6, <3>1
  <2> QED BY <1>4, <1>5, <2>1, <2>2 DEF WroteIndex
<1>9. InHandOf(l)'
  BY <1>1, <1>4, <1>8 DEF LoadInv, InHandOf, Writing
<1>10. \A k \in Loaders \ {l} : InHandOf(k)'
  BY <1>1, <1>4, <1>6, OthersStand DEF Writing
<1>11. StoresAgree'
  BY <1>1, <1>2, <1>6 DEF LoadInv, LoadTypes, StoresAgree
<1> QED BY <1>6, <1>7, <1>9, <1>10, <1>11 DEF LoadInv

\* A load that ends gives back its own lock.
LEMMA Leaves ==
    ASSUME LoadInv, NEW l \in Loaders, Leave(l)
    PROVE  /\ loader' \in [Loaders -> Load]
           /\ loader'[l] = Idle /\ \A k \in Loaders \ {l} : loader'[k] = loader[k]
           /\ \A k \in Loaders : loader'[k].pc # "idle" =>
                loader'[k].corpus \in Corpora /\ IsFiniteSet(loader'[k].files)
           /\ lock' \in [Corpora -> Loaders \cup {Nobody}]
           /\ \A c \in Corpora : lock[c] \notin {l, Nobody} => lock'[c] = lock[c]
           /\ InHandOf(l)'
<1>1. Idle \in Load /\ Idle.pc = "idle"
  BY DEF Idle, Load
<1>2. /\ loader' = [loader EXCEPT ![l] = Idle]
      /\ lock' = [c \in Corpora |-> IF lock[c] = l THEN Nobody ELSE lock[c]]
  BY DEF Leave, Release
<1>3. loader' \in [Loaders -> Load] /\ loader'[l] = Idle /\ \A k \in Loaders \ {l} : loader'[k] = loader[k]
  BY <1>1, <1>2 DEF LoadInv, LoadTypes
<1>4. \A k \in Loaders : loader'[k].pc # "idle" =>
        loader'[k].corpus \in Corpora /\ IsFiniteSet(loader'[k].files)
  BY <1>1, <1>3 DEF LoadInv, LoadTypes
<1>5. InHandOf(l)'
  BY <1>1, <1>3 DEF InHandOf, Writing
<1> QED BY <1>2, <1>3, <1>4, <1>5 DEF LoadInv, LoadTypes

\* The load is complete: its corpus is what it wrote, in both stores.
LEMMA CompleteStep ==
    ASSUME LoadInv, NEW l \in Loaders, write_elasticsearch(l) PROVE LoadInv'
<1> DEFINE c == loader[l].corpus
           chunks == LoadedChunks(l)
<1>1. /\ loader[l].pc = "stale_chunks" /\ index # "absent"
      /\ indexed' = DeleteMatching(c, DOMAIN chunks)
      /\ settled' = IF loader[l].wiped THEN settled ELSE settled \cup {c}
      /\ Leave(l) /\ UNCHANGED <<postgres, index>>
  BY DEF write_elasticsearch
<1>2. /\ c \in Corpora /\ lock[c] = l /\ c \notin settled
      /\ postgres[c] = CorpusOf(c, loader[l].files)
      /\ ~loader[l].wiped => WroteIndex(l)
  BY <1>1 DEF LoadInv, LoadTypes, InHandOf, Writing
<1>3. IsMapping(chunks) /\ postgres[c].chunks = chunks
  BY <1>1, <1>2, LoadedIsMapping DEF LoadedChunks
<1>4. ~loader[l].wiped =>
        /\ \A id \in DOMAIN chunks : id \in DOMAIN indexed[c] /\ indexed[c][id] = chunks[id]
        /\ index # "current" => indexed[c] = chunks
  BY <1>2 DEF WroteIndex
<1> HIDE DEF chunks
<1>5. /\ DOMAIN indexed' = Corpora /\ IsMapping(indexed')
      /\ \A d \in Corpora \ {c} : indexed'[d] = indexed[d]
      /\ index # "current" => indexed' = indexed
      /\ index = "current" =>
           indexed'[c] = [id \in DOMAIN indexed[c] \cap DOMAIN chunks |-> indexed[c][id]]
  BY <1>1, <1>2, Deletes
<1>6. ~loader[l].wiped => indexed'[c] = chunks
  <2> SUFFICES ASSUME ~loader[l].wiped, index = "current" PROVE indexed'[c] = chunks
    BY <1>4, <1>5
  <2>1. DOMAIN indexed[c] \cap DOMAIN chunks = DOMAIN chunks
    BY <1>4
  <2>2. [id \in DOMAIN chunks |-> indexed[c][id]] = [id \in DOMAIN chunks |-> chunks[id]]
    BY <1>4
  <2> QED BY <1>3, <1>5, <2>1, <2>2 DEF IsMapping
<1>7. /\ loader' \in [Loaders -> Load]
      /\ loader'[l] = Idle /\ \A k \in Loaders \ {l} : loader'[k] = loader[k]
      /\ \A k \in Loaders : loader'[k].pc # "idle" =>
           loader'[k].corpus \in Corpora /\ IsFiniteSet(loader'[k].files)
      /\ lock' \in [Corpora -> Loaders \cup {Nobody}]
      /\ \A d \in Corpora : lock[d] \notin {l, Nobody} => lock'[d] = lock[d]
      /\ InHandOf(l)'
  BY <1>1, Leaves
<1>8. LoadTypes'
  BY <1>1, <1>2, <1>5, <1>7 DEF LoadInv, LoadTypes
<1>9. \A k \in Loaders \ {l} : InHandOf(k)'
  BY <1>1, <1>5, <1>7, OthersStand DEF Writing
<1>10. StoresAgree'
  <2>1. \A d \in settled : d # c /\ indexed'[d] = indexed[d] /\ indexed[d] = postgres[d].chunks
    BY <1>2, <1>5 DEF LoadInv, LoadTypes, StoresAgree
  <2>2. \A d \in settled' : d \in settled \/ (d = c /\ ~loader[l].wiped)
    BY <1>1
  <2> QED BY <1>1, <1>3, <1>6, <2>1, <2>2 DEF StoresAgree
<1>11. AbsentIsEmpty'
  BY <1>1 DEF AbsentIsEmpty
<1> QED BY <1>7, <1>8, <1>9, <1>10, <1>11 DEF LoadInv

\* A load fails or dies: what it wrote stays, of a bulk write some of it.
LEMMA FailStep ==
    ASSUME LoadInv, NEW l \in Loaders, FailLoad(l) PROVE LoadInv'
<1> DEFINE c == loader[l].corpus
<1>1. loader[l].pc # "idle" /\ Leave(l) /\ UNCHANGED <<postgres, settled>>
  BY DEF FailLoad
<1>2. /\ loader' \in [Loaders -> Load]
      /\ loader'[l] = Idle /\ \A k \in Loaders \ {l} : loader'[k] = loader[k]
      /\ \A k \in Loaders : loader'[k].pc # "idle" =>
           loader'[k].corpus \in Corpora /\ IsFiniteSet(loader'[k].files)
      /\ lock' \in [Corpora -> Loaders \cup {Nobody}]
      /\ \A d \in Corpora : lock[d] \notin {l, Nobody} => lock'[d] = lock[d]
      /\ InHandOf(l)'
  BY <1>1, Leaves
<1>3. CASE UNCHANGED <<indexed, index>>
  <2>1. LoadTypes'
    BY <1>1, <1>2, <1>3 DEF LoadInv, LoadTypes
  <2>2. \A k \in Loaders \ {l} : InHandOf(k)'
    BY <1>1, <1>2, <1>3, OthersStand
  <2> QED BY <1>1, <1>2, <1>3, <2>1, <2>2 DEF LoadInv, AbsentIsEmpty, StoresAgree
<1>4. ASSUME loader[l].pc = "bulk", NEW ids \in SUBSET DOMAIN LoadedChunks(l),
             Index(c, [id \in ids |-> LoadedChunks(l)[id]])
      PROVE  LoadInv'
  <2> DEFINE some == [id \in ids |-> LoadedChunks(l)[id]]
  <2>1. c \in Corpora /\ lock[c] = l /\ c \notin settled
    BY <1>4 DEF LoadInv, LoadTypes, InHandOf, Writing
  <2>2. IsMapping(some) /\ Index(c, some)
    BY <1>4 DEF IsMapping
  <2> HIDE DEF some
  <2>3. /\ DOMAIN indexed' = Corpora /\ IsMapping(indexed')
        /\ \A d \in Corpora \ {c} : indexed'[d] = indexed[d]
        /\ index' \in {"absent", "stale", "current"}
        /\ index' = "current" <=> index = "current"
        /\ AbsentIsEmpty'
    BY <2>1, <2>2, Indexes
  <2>4. LoadTypes'
    BY <1>1, <1>2, <2>3 DEF LoadInv, LoadTypes
  <2>5. \A k \in Loaders \ {l} : InHandOf(k)'
    BY <1>1, <1>2, <1>4, <2>3, OthersStand DEF Writing
  <2>6. StoresAgree'
    BY <1>1, <2>1, <2>3 DEF LoadInv, LoadTypes, StoresAgree
  <2> QED BY <1>2, <2>3, <2>4, <2>5, <2>6 DEF LoadInv
<1> QED BY <1>3, <1>4 DEF FailLoad

LEMMA LoadStutter == ASSUME LoadInv, UNCHANGED loadVars PROVE LoadInv'
<1>1. UNCHANGED <<postgres, index, indexed, lock, loader, settled>>
  BY DEF loadVars
<1>2. LoadTypes' /\ AbsentIsEmpty' /\ StoresAgree'
  BY <1>1 DEF LoadInv, LoadTypes, AbsentIsEmpty, StoresAgree
<1>3. \A l \in Loaders : InHandOf(l)'
  BY <1>1, Undisturbed DEF LoadInv
<1> QED BY <1>2, <1>3 DEF LoadInv

LEMMA LoadsKeep == ASSUME LoadInv, LoadNext PROVE LoadInv'
<1>1. PICK l \in Loaders :
        \/ \E c \in Corpora, wipe \in BOOLEAN : \E files \in Directories[c] : main(l, c, files, wipe)
        \/ LoadStep(l)
        \/ FailLoad(l)
  BY DEF LoadNext
<1>2. CASE \E c \in Corpora, wipe \in BOOLEAN : \E files \in Directories[c] : main(l, c, files, wipe)
  BY <1>2, BeginStep
<1>3. CASE LoadStep(l)
  BY <1>3, LockStep, WritePostgresStep, LookStep, DeleteStep, CreateStep, WipeStep, BulkStep,
     CompleteStep DEF LoadStep
<1>4. CASE FailLoad(l)
  BY <1>4, FailStep
<1> QED BY <1>1, <1>2, <1>3, <1>4

\* The gate and the verifications read the stores and write none.
LEMMA StoresStep ==
    ASSUME LoadInv, [EvidenceNext]_evidenceVars PROVE LoadInv'
<1>1. CASE LoadNext
  BY <1>1, LoadsKeep
<1>2. CASE GateNext
  <2>1. UNCHANGED loadVars
    BY <1>2 DEF GateNext, Ask, SkipCorpus, describe, DenseSearch, SparseSearch, ReadHeld,
       EscrowDocument, evaluate
  <2> QED BY <2>1, LoadStutter
<1>3. CASE VerifyNext
  <2>1. UNCHANGED loadVars
    BY <1>3 DEF VerifyNext, verify_decision, VerifyReference, verify_evidence_fails,
       VerificationAnswered
  <2> QED BY <2>1, LoadStutter
<1>4. CASE UNCHANGED evidenceVars
  BY <1>4, LoadStutter DEF evidenceVars
<1> QED BY <1>1, <1>2, <1>3, <1>4 DEF EvidenceNext

\* The locks, the stores and what each load is sure of, in every state.
THEOREM LoadInvariance == EvidenceSpec => []LoadInv
<1>1. EvidenceInit => LoadInv
  BY LoadInitInv DEF EvidenceInit
<1>2. LoadInv /\ [EvidenceNext]_evidenceVars => LoadInv'
  BY StoresStep
<1> QED BY <1>1, <1>2, PTL DEF EvidenceSpec

\* Once a load has completed, the index holds exactly what Postgres holds of
\* its corpus, whatever loads failed, died or ran beside it (corpus_loader).
THEOREM LoadsAgree == EvidenceSpec => []StoresAgree
<1>1. LoadInv => StoresAgree
  BY DEF LoadInv
<1> QED BY <1>1, LoadInvariance, PTL

-----------------------------------------------------------------------------
(* The passages of a decision, in their order. *)

\* A passage a provider returned, not yet escrowed.
IsPassage(c) == {"text", "span", "artifact"} \subseteq DOMAIN c
Fresh(c) == IsPassage(c) /\ c.artifact = <<>>

\* Within the quota of the binding's corpora, in its order.
AnswersFit(answers) ==
    /\ answers \in Seq(ToSet(answers)) /\ Len(answers) <= Len(Binding)
    /\ \A n \in DOMAIN answers :
         /\ DOMAIN answers[n].contexts \subseteq 1 .. Quota
         /\ \A i \in DOMAIN answers[n].contexts : Fresh(answers[n].contexts[i])

LEMMA PlacesAre ==
    ASSUME NEW answers, AnswersFit(answers)
    PROVE  /\ IsFiniteSet(Places(answers))
           /\ \A p \in Places(answers) :
                /\ p = <<p[1], p[2]>> /\ p[1] \in Nat /\ p[2] \in Nat
                /\ p[1] \in DOMAIN Binding /\ Binding[p[1]].tier \in Nat
                /\ Fresh(PassageAt(answers, p))
<1>1. /\ DOMAIN answers = 1 .. Len(answers) /\ Len(answers) \in Nat
      /\ Len(Binding) \in Nat /\ DOMAIN Binding = 1 .. Len(Binding)
  BY EvidenceConstants DEF AnswersFit
<1>2. ASSUME NEW p \in Places(answers)
      PROVE  /\ p \in (1 .. Len(answers)) \X (1 .. Quota)
             /\ Fresh(PassageAt(answers, p))
  <2>1. PICK n \in DOMAIN answers : p \in {n} \X DOMAIN answers[n].contexts
    BY DEF Places
  <2>2. p = <<n, p[2]>> /\ p[2] \in DOMAIN answers[n].contexts /\ p[1] = n
    BY <2>1
  <2>3. p[2] \in 1 .. Quota /\ Fresh(answers[n].contexts[p[2]])
    BY <2>2 DEF AnswersFit
  <2> QED BY <1>1, <2>1, <2>2, <2>3 DEF PassageAt
<1>3. IsFiniteSet((1 .. Len(answers)) \X (1 .. Quota))
  <2>1. Len(answers) \in Int /\ Quota \in Int /\ 1 \in Int
    BY <1>1, EvidenceConstants
  <2>2. IsFiniteSet(1 .. Len(answers)) /\ IsFiniteSet(1 .. Quota)
    BY <2>1, FS_Interval
  <2> QED BY <2>2, FS_Product
<1>4. IsFiniteSet(Places(answers))
  <2>1. Places(answers) \in SUBSET ((1 .. Len(answers)) \X (1 .. Quota))
    BY <1>2
  <2> QED BY <1>3, <2>1, FS_Subset
<1>5. ASSUME NEW p \in Places(answers)
      PROVE  /\ p = <<p[1], p[2]>> /\ p[1] \in Nat /\ p[2] \in Nat
             /\ p[1] \in DOMAIN Binding /\ Binding[p[1]].tier \in Nat
             /\ Fresh(PassageAt(answers, p))
  <2>1. p = <<p[1], p[2]>> /\ p[1] \in 1 .. Len(answers) /\ p[2] \in 1 .. Quota
    BY <1>2
  <2>2. p[1] \in DOMAIN Binding
    BY <1>1, <2>1 DEF AnswersFit
  <2> QED BY <1>2, <1>1, <2>1, <2>2, EvidenceConstants
<1> QED BY <1>4, <1>5

\* What was merged are passages of the answers.
LEMMA MergedAre ==
    ASSUME NEW answers, AnswersFit(answers)
    PROVE  /\ Merged(answers) \in Seq(ToSet(Merged(answers)))
           /\ \A n \in DOMAIN Merged(answers) : Fresh(Merged(answers)[n])
<1> DEFINE K == Kept(answers)
           upto == [p \in K |-> {q \in K : ~Precedes(p, q)}]
<1>1. /\ IsFiniteSet(K) /\ Cardinality(K) \in Nat
      /\ \A p \in K : /\ p = <<p[1], p[2]>> /\ p[1] \in Nat /\ p[2] \in Nat
                      /\ Binding[p[1]].tier \in Nat /\ Fresh(PassageAt(answers, p))
  <2>1. K \in SUBSET Places(answers)
    BY DEF Kept
  <2>2. IsFiniteSet(K)
    BY <2>1, PlacesAre, FS_Subset
  <2> QED BY <2>1, <2>2, PlacesAre, FS_CardinalityType
<1> HIDE DEF K
\* Precedes orders the places.
<1>2. \A p, q \in K : ~Precedes(p, p) /\ (p # q => Precedes(p, q) \/ Precedes(q, p))
  BY <1>1 DEF Precedes
<1>3. \A p, q, r \in K : /\ Precedes(p, q) => ~Precedes(q, p)
                         /\ Precedes(p, q) /\ Precedes(q, r) => Precedes(p, r)
  BY <1>1 DEF Precedes
<1>4. /\ upto \in [K -> SUBSET K] /\ \A p \in K : p \in upto[p]
      /\ \A p, q \in K : p # q => /\ upto[p] # upto[q]
                                  /\ upto[p] \subseteq upto[q] \/ upto[q] \subseteq upto[p]
  <2>1. ASSUME NEW p \in K, NEW q \in K, p # q, Precedes(p, q)
        PROVE  upto[p] # upto[q] /\ upto[p] \subseteq upto[q]
    <3>1. q \notin upto[p] /\ q \in upto[q]
      BY <1>2, <2>1
    <3>2. ASSUME NEW r \in K, ~Precedes(p, r) PROVE ~Precedes(q, r)
      BY <1>3, <2>1, <3>2
    <3> QED BY <3>1, <3>2
  <2>2. \A p \in K : p \in upto[p]
    BY <1>2
  <2>3. upto \in [K -> SUBSET K]
    OBVIOUS
  <2> HIDE DEF upto
  <2> QED BY <1>2, <2>1, <2>2, <2>3
<1>5. ASSUME NEW n \in 1 .. Cardinality(K) PROVE Fresh(Merged(answers)[n])
  <2>1. PICK p \in K : Cardinality(upto[p]) = n
    <3> HIDE DEF upto
    <3> QED BY <1>1, <1>4, EveryRankIsTaken
  <2>2. Rank(p, K) = n
    BY <2>1 DEF Rank
  <2>3. (CHOOSE q \in K : Rank(q, K) = n) \in K
    BY <2>2
  <2>4. Merged(answers)[n] = PassageAt(answers, CHOOSE q \in K : Rank(q, K) = n)
    BY DEF Merged, K
  <2> QED BY <1>1, <2>3, <2>4
<1>6. DOMAIN Merged(answers) = 1 .. Cardinality(K)
  BY DEF Merged, K
<1>7. Merged(answers) = [n \in 1 .. Cardinality(K) |-> Merged(answers)[n]]
  BY DEF Merged, K
<1>8. Merged(answers) \in Seq(ToSet(Merged(answers)))
  <2> DEFINE contexts == Merged(answers)
  <2>1. \A n \in DOMAIN contexts : contexts[n] \in ToSet(contexts)
    BY DEF ToSet
  <2> HIDE DEF contexts
  <2>2. contexts \in [1 .. Cardinality(K) -> ToSet(contexts)]
    BY <1>6, <1>7, <2>1 DEF contexts
  <2>3. contexts \in Seq(ToSet(contexts))
    BY <1>1, <2>2
  <2> QED BY <2>3 DEF contexts
<1> QED BY <1>5, <1>6, <1>8

-----------------------------------------------------------------------------
(* Evidence: the inductive invariant. *)

Asking == {"describe", "dense", "sparse", "held"}
GateFields == {"pc", "query", "at", "state", "dense", "hits", "answers", "contexts"}
VerificationFields == {"pc", "live", "held", "against", "refs"}

\* What an evaluation has collected so far is passages, within the quota.
Collecting ==
    /\ DOMAIN gate = GateFields
    /\ gate.pc \in Asking =>
         /\ gate.at \in DOMAIN Binding
         /\ AnswersFit(gate.answers) /\ Len(gate.answers) = gate.at - 1
    /\ gate.pc = "held" => DOMAIN gate.hits \subseteq 1 .. Quota
    /\ gate.pc \in {"idle"} \cup Asking => gate.contexts = <<>>
    /\ gate.contexts \in Seq(ToSet(gate.contexts))

\* A passage that names a document names one the escrow holds, and that holds
\* the passage.
Backed(c, escrow) ==
    /\ IsPassage(c)
    /\ c.artifact # <<>> => c.artifact \in escrow /\ passage_holds(c.artifact, c)

Citing ==
    /\ <<>> \notin artifacts
    /\ \A i \in DOMAIN gate.contexts : Backed(gate.contexts[i], artifacts)
    /\ gate.pc = "stored" /\ EscrowEnabled =>
         \A i \in DOMAIN gate.contexts : gate.contexts[i].artifact # <<>>

\* A verification is of a stored decision, and found what the escrow holds.
Verifying ==
    /\ DOMAIN verification = VerificationFields
    /\ verification.pc = "idle" => verification.refs = <<>> /\ verification.against = <<>>
    /\ verification.pc # "idle" =>
         /\ gate.pc = "stored"
         /\ \A i \in DOMAIN gate.contexts : gate.contexts[i].artifact # <<>> => i \in verification.held
    /\ verification.refs \in Seq(ToSet(verification.refs))
    /\ verification.against \in Seq(ToSet(verification.against))
    /\ verification.pc = "ask" => Len(verification.refs) = Len(verification.against)

EvidenceInv == LoadInv /\ Collecting /\ Citing /\ Verifying /\ ChangesAreReal

LEMMA EvidenceInitInv == EvidenceInit => EvidenceInv
<1> SUFFICES ASSUME EvidenceInit PROVE EvidenceInv
  OBVIOUS
<1>1. gate = NotAsked /\ artifacts = {} /\ verification = NotVerified /\ LoadInv
  BY LoadInitInv DEF EvidenceInit
<1>2. DOMAIN <<>> = {} /\ <<>> \in Seq(ToSet(<<>>))
  OBVIOUS
<1>3. Collecting
  BY <1>1, <1>2 DEF Collecting, NotAsked, GateFields, Asking
<1>4. Citing
  BY <1>1, <1>2 DEF Citing, NotAsked
<1>5. Verifying /\ ChangesAreReal
  BY <1>1, <1>2 DEF Verifying, ChangesAreReal, NotVerified, VerificationFields
<1> QED BY <1>1, <1>3, <1>4, <1>5 DEF EvidenceInv

\* One more element.
LEMMA Appended ==
    ASSUME NEW s, s \in Seq(ToSet(s)), NEW e
    PROVE  /\ Append(s, e) \in Seq(ToSet(Append(s, e)))
           /\ Len(Append(s, e)) = Len(s) + 1 /\ Len(s) \in Nat
           /\ DOMAIN Append(s, e) = DOMAIN s \cup {Len(s) + 1}
           /\ \A i \in DOMAIN s : Append(s, e)[i] = s[i]
           /\ Append(s, e)[Len(s) + 1] = e
<1> DEFINE T == ToSet(s) \cup {e}
           t == Append(s, e)
<1>1. s \in Seq(T) /\ e \in T
  OBVIOUS
<1>2. /\ t \in Seq(T) /\ Len(t) = Len(s) + 1 /\ Len(s) \in Nat
      /\ DOMAIN t = 1 .. Len(s) + 1 /\ DOMAIN s = 1 .. Len(s)
      /\ \A i \in 1 .. Len(s) : t[i] = s[i]
      /\ t[Len(s) + 1] = e
  <2> HIDE DEF T
  <2> QED BY <1>1
<1> HIDE DEF t
<1>3. t \in Seq(ToSet(t))
  <2>1. t \in [1 .. Len(s) + 1 -> ToSet(t)]
    BY <1>2 DEF ToSet
  <2> QED BY <1>2, <2>1
<1>4. DOMAIN t = DOMAIN s \cup {Len(s) + 1}
  BY <1>2
<1> QED BY <1>2, <1>3, <1>4 DEF t

\* A step of the gate leaves the stores, and no verification has begun.
LEMMA BeforeStored ==
    ASSUME EvidenceInv, gate.pc # "stored"
    PROVE  verification.pc = "idle" /\ DOMAIN verification.refs = {}
BY DEF EvidenceInv, Verifying

\* What is left to show of a step of the gate that verifies nothing.
LEMMA GateOnly ==
    ASSUME EvidenceInv, gate.pc # "stored", UNCHANGED <<loadVars, verification>>
    PROVE  LoadInv' /\ Verifying' /\ ChangesAreReal'
<1>1. LoadInv'
  BY LoadStutter DEF EvidenceInv
<1>2. verification.pc = "idle" /\ DOMAIN verification.refs = {}
  BY BeforeStored
<1>3. Verifying' /\ ChangesAreReal'
  BY <1>2 DEF EvidenceInv, Verifying, ChangesAreReal
<1> QED BY <1>1, <1>3

LEMMA FailsStep ==
    ASSUME EvidenceInv, gate.pc \in Asking \cup {"escrow"}, Fails,
           UNCHANGED <<loadVars, artifacts, verification>>
    PROVE  EvidenceInv'
<1>1. /\ DOMAIN gate' = GateFields /\ gate'.pc = "failed" /\ gate'.contexts = gate.contexts
  BY DEF Fails, EvidenceInv, Collecting, GateFields
<1>2. Collecting' /\ Citing'
  BY <1>1 DEF EvidenceInv, Collecting, Citing, Backed, Asking
<1> QED BY <1>2, GateOnly DEF EvidenceInv, Asking

LEMMA AskStep ==
    ASSUME EvidenceInv, NEW query, Ask(query) PROVE EvidenceInv'
<1>1. /\ gate.pc = "idle" /\ gate' = [NotAsked EXCEPT !.pc = "describe", !.query = query]
      /\ UNCHANGED <<loadVars, artifacts, verification>>
  BY DEF Ask
<1>2. /\ DOMAIN gate' = GateFields /\ gate'.pc = "describe" /\ gate'.at = 1
      /\ gate'.answers = <<>> /\ gate'.contexts = <<>>
  BY <1>1 DEF NotAsked, GateFields
<1>3. DOMAIN <<>> = {} /\ <<>> \in Seq(ToSet(<<>>)) /\ Len(<<>>) = 0
  OBVIOUS
<1>4. 1 \in DOMAIN Binding /\ Len(Binding) \in Nat
  BY EvidenceConstants
<1>5. Collecting'
  BY <1>2, <1>3, <1>4 DEF Collecting, AnswersFit, Asking
<1>6. Citing'
  BY <1>1, <1>2, <1>3 DEF EvidenceInv, Citing
<1> QED BY <1>1, <1>5, <1>6, GateOnly DEF EvidenceInv

\* The corpus is described and searched: nothing is answered yet.
LEMMA SearchStep ==
    ASSUME EvidenceInv, describe \/ DenseSearch \/ SparseSearch PROVE EvidenceInv'
<1>1. gate.pc \in Asking /\ UNCHANGED <<loadVars, artifacts, verification>>
  BY DEF describe, DenseSearch, SparseSearch, Asking
<1>2. CASE Fails
  BY <1>1, <1>2, FailsStep
<1>3. ASSUME ~Fails
      PROVE  /\ DOMAIN gate' = GateFields /\ gate'.pc \in Asking
             /\ gate'.at = gate.at /\ gate'.answers = gate.answers
             /\ gate'.contexts = gate.contexts
             /\ gate'.pc = "held" => DOMAIN gate'.hits \subseteq 1 .. Quota
  <2>1. DOMAIN gate = GateFields
    BY DEF EvidenceInv, Collecting
  <2>2. CASE describe
    <3>1. gate' = [gate EXCEPT !.pc = "dense", !.state = Corpus.manifest]
      BY <1>3, <2>2 DEF describe
    <3> QED BY <2>1, <3>1 DEF GateFields, Asking
  <2>3. CASE DenseSearch
    <3>1. PICK ranking : gate' = [gate EXCEPT !.pc = "sparse", !.dense = ranking]
      BY <2>3 DEF DenseSearch
    <3> QED BY <2>1, <3>1 DEF GateFields, Asking
  <2>4. CASE SparseSearch
    <3>1. PICK hits : /\ gate' = [gate EXCEPT !.pc = "held", !.hits = hits]
                      /\ \E sparse : hits \in retrieve(gate.dense, sparse)
      BY <1>3, <2>4 DEF SparseSearch
    <3>2. PICK ranking : hits = First(ranking, Quota)
      BY <3>1 DEF retrieve, rerank
    <3>3. DOMAIN hits \subseteq 1 .. Quota
      BY <3>2 DEF First
    <3> QED BY <2>1, <3>1, <3>3 DEF GateFields, Asking
  <2> QED BY <2>2, <2>3, <2>4
<1>4. ASSUME ~Fails PROVE EvidenceInv'
  <2>1. Collecting'
    BY <1>1, <1>3, <1>4 DEF EvidenceInv, Collecting, Asking
  <2>2. Citing'
    BY <1>1, <1>3, <1>4 DEF EvidenceInv, Citing, Asking, Backed
  <2> QED BY <1>1, <2>1, <2>2, GateOnly DEF EvidenceInv, Asking
<1> QED BY <1>2, <1>4

\* A corpus's answer, within the quota: on to the next corpus, or to escrow.
LEMMA AnsweredStep ==
    ASSUME EvidenceInv, gate.pc \in Asking, NEW answer, Answered(answer),
           DOMAIN answer.contexts \subseteq 1 .. Quota,
           \A i \in DOMAIN answer.contexts : Fresh(answer.contexts[i]),
           UNCHANGED <<loadVars, artifacts, verification>>
    PROVE  EvidenceInv'
<1> DEFINE answers == Append(gate.answers, answer)
<1>1. /\ DOMAIN gate = GateFields /\ gate.at \in DOMAIN Binding
      /\ AnswersFit(gate.answers) /\ Len(gate.answers) = gate.at - 1
      /\ gate.contexts = <<>> /\ <<>> \notin artifacts
  BY DEF EvidenceInv, Collecting, Citing
<1>2. /\ Len(Binding) \in Nat /\ DOMAIN Binding = 1 .. Len(Binding)
      /\ gate.at \in 1 .. Len(Binding)
  BY <1>1, EvidenceConstants
<1>3. gate.answers \in Seq(ToSet(gate.answers))
  BY <1>1 DEF AnswersFit
<1>4. /\ answers \in Seq(ToSet(answers)) /\ Len(answers) = gate.at
      /\ DOMAIN answers = DOMAIN gate.answers \cup {gate.at}
      /\ \A n \in DOMAIN gate.answers : answers[n] = gate.answers[n]
      /\ answers[gate.at] = answer
  <2>1. /\ answers \in Seq(ToSet(answers))
        /\ Len(answers) = Len(gate.answers) + 1 /\ Len(gate.answers) \in Nat
        /\ DOMAIN answers = DOMAIN gate.answers \cup {Len(gate.answers) + 1}
        /\ \A n \in DOMAIN gate.answers : answers[n] = gate.answers[n]
        /\ answers[Len(gate.answers) + 1] = answer
    BY <1>3, Appended
  <2>2. Len(gate.answers) + 1 = gate.at
    BY <1>1, <1>2
  <2> QED BY <2>1, <2>2
<1>5. AnswersFit(answers)
  <2> HIDE DEF answers
  <2> QED BY <1>1, <1>2, <1>4 DEF AnswersFit
<1>6. gate' = IF gate.at < Len(Binding)
                THEN [gate EXCEPT !.pc = "describe", !.at = @ + 1, !.answers = answers,
                                  !.dense = <<>>, !.hits = <<>>]
                ELSE [gate EXCEPT !.pc = "escrow", !.answers = answers,
                                  !.contexts = Merged(answers), !.dense = <<>>, !.hits = <<>>]
  BY DEF Answered
<1> HIDE DEF answers
<1>7. CASE gate.at < Len(Binding)
  <2>1. /\ DOMAIN gate' = GateFields /\ gate'.pc = "describe" /\ gate'.at = gate.at + 1
        /\ gate'.answers = answers /\ gate'.contexts = <<>>
    BY <1>1, <1>6, <1>7 DEF GateFields
  <2>2. DOMAIN <<>> = {} /\ <<>> \in Seq(ToSet(<<>>))
    OBVIOUS
  <2>3. gate.at + 1 \in DOMAIN Binding
    BY <1>2, <1>7
  <2>4. Collecting'
    <3>1. gate'.pc # "held" /\ gate'.pc \in Asking /\ gate'.at \in DOMAIN Binding
      BY <2>1, <2>3 DEF Asking
    <3>2. AnswersFit(gate'.answers)
      BY <1>5, <2>1
    <3>4. Len(gate'.answers) = gate'.at - 1
      <4>1. gate.at \in Int /\ gate'.at = gate.at + 1 /\ Len(gate'.answers) = gate.at
        BY <1>2, <1>4, <2>1
      <4> QED BY <4>1
    <3>3. gate'.contexts \in Seq(ToSet(gate'.contexts))
      BY <2>1, <2>2
    <3> QED BY <2>1, <3>1, <3>2, <3>3, <3>4 DEF Collecting
  <2>5. Citing'
    BY <1>1, <2>1, <2>2 DEF Citing
  <2> QED BY <2>4, <2>5, GateOnly DEF EvidenceInv, Asking
<1>8. CASE ~(gate.at < Len(Binding))
  <2>1. /\ DOMAIN gate' = GateFields /\ gate'.pc = "escrow" /\ gate'.contexts = Merged(answers)
    BY <1>1, <1>6, <1>8 DEF GateFields
  <2>2. /\ Merged(answers) \in Seq(ToSet(Merged(answers)))
        /\ \A n \in DOMAIN Merged(answers) : Fresh(Merged(answers)[n])
    BY <1>5, MergedAre
  <2>3. Collecting'
    BY <2>1, <2>2 DEF Collecting, Asking
  <2>4. Citing'
    BY <1>1, <2>1, <2>2 DEF Citing, Fresh, Backed
  <2> QED BY <2>3, <2>4, GateOnly DEF EvidenceInv, Asking
<1> QED BY <1>7, <1>8

LEMMA SkipStep ==
    ASSUME EvidenceInv, SkipCorpus PROVE EvidenceInv'
<1> DEFINE answer == [corpus |-> Ref.corpus, state |-> {}, contexts |-> <<>>]
<1>1. gate.pc \in Asking /\ Answered(answer) /\ UNCHANGED <<loadVars, artifacts, verification>>
  BY DEF SkipCorpus, Asking
<1>2. answer.contexts = <<>> /\ DOMAIN <<>> = {}
  OBVIOUS
<1> HIDE DEF answer
<1> QED BY <1>1, <1>2, AnsweredStep

\* What Postgres still holds of the hits is answered, no more than the quota.
LEMMA HeldStep ==
    ASSUME EvidenceInv, ReadHeld PROVE EvidenceInv'
<1> DEFINE kept == {i \in DOMAIN gate.hits : Held(gate.hits[i])}
           contexts == [n \in 1 .. Cardinality(kept) |->
              Context(gate.hits[CHOOSE i \in kept : Cardinality({j \in kept : j <= i}) = n], n)]
           answer == [corpus |-> Ref.corpus, state |-> gate.state, contexts |-> contexts]
<1>1. /\ gate.pc = "held" /\ UNCHANGED <<loadVars, artifacts, verification>>
      /\ Answered(answer) \/ Fails
  BY DEF ReadHeld
<1>2. DOMAIN contexts \subseteq 1 .. Quota
  <2>1. kept \in SUBSET (1 .. Quota)
    BY <1>1 DEF EvidenceInv, Collecting
  <2>2. Quota \in Int /\ Quota \in Nat /\ 1 \in Int
    BY EvidenceConstants
  <2>3. IsFiniteSet(1 .. Quota) /\ Cardinality(1 .. Quota) = Quota
    BY <2>2, FS_Interval
  <2> HIDE DEF kept
  <2>4. IsFiniteSet(kept) /\ Cardinality(kept) <= Quota
    BY <2>1, <2>3, FS_Subset
  <2>5. Cardinality(kept) \in Nat
    BY <2>4, FS_CardinalityType
  <2> QED BY <2>2, <2>4, <2>5
<1>3. \A i \in DOMAIN contexts : Fresh(contexts[i])
  <2>1. \A hit, n : Fresh(Context(hit, n))
    BY DEF Fresh, IsPassage, Context
  <2> QED BY <2>1
<1>4. answer.contexts = contexts
  OBVIOUS
<1> HIDE DEF contexts, answer
<1>5. CASE Answered(answer)
  BY <1>1, <1>2, <1>3, <1>4, <1>5, AnsweredStep DEF Asking
<1>6. CASE Fails
  BY <1>1, <1>6, FailsStep DEF Asking
<1> QED BY <1>1, <1>5, <1>6

\* Whether a document holds a passage does not depend on what it names.
LEMMA HoldsAlike ==
    ASSUME NEW c, IsPassage(c), NEW text, NEW document
    PROVE  /\ IsPassage([c EXCEPT !.artifact = text])
           /\ [c EXCEPT !.artifact = text].artifact = text
           /\ passage_holds(document, [c EXCEPT !.artifact = text]) = passage_holds(document, c)
<1> DEFINE d == [c EXCEPT !.artifact = text]
<1>1. DOMAIN d = DOMAIN c /\ d.artifact = text /\ d.text = c.text /\ d.span = c.span
  BY DEF IsPassage
<1> HIDE DEF d
<1> QED BY <1>1 DEF IsPassage, passage_holds, d

\* The document is compared with what is cited to it before it is named.
LEMMA EscrowStep ==
    ASSUME EvidenceInv, EscrowDocument PROVE EvidenceInv'
<1> DEFINE key == NextUncited
           text == fetch_document(key[1], key[2])
           named == [i \in DOMAIN gate.contexts |->
                       IF i \in Cited(key) THEN [gate.contexts[i] EXCEPT !.artifact = text]
                       ELSE gate.contexts[i]]
<1>1. gate.pc = "escrow" /\ UNCHANGED <<loadVars, verification>>
  BY DEF EscrowDocument
<1>2. CASE text = <<>> \/ ~StillHolds(text, key)
  BY <1>1, <1>2, FailsStep DEF EscrowDocument
<1>3. CASE ~(text = <<>> \/ ~StillHolds(text, key))
  <2>1. /\ artifacts' = artifacts \cup {text}
        /\ gate' = [gate EXCEPT !.contexts = named]
    BY <1>3 DEF EscrowDocument
  <2>2. /\ DOMAIN gate = GateFields /\ gate.contexts \in Seq(ToSet(gate.contexts))
        /\ <<>> \notin artifacts /\ \A i \in DOMAIN gate.contexts : Backed(gate.contexts[i], artifacts)
    BY DEF EvidenceInv, Collecting, Citing
  <2> HIDE DEF named
  <2>3. DOMAIN gate' = GateFields /\ gate'.pc = "escrow" /\ gate'.contexts = named
    BY <1>1, <2>1, <2>2 DEF GateFields
  <2>4. text # <<>> /\ \A i \in Cited(key) : passage_holds(text, gate.contexts[i])
    BY <1>3 DEF StillHolds
  <2> HIDE DEF text, key
  <2>5. ASSUME NEW i \in DOMAIN gate.contexts PROVE Backed(named[i], artifacts')
    <3>1. Backed(gate.contexts[i], artifacts)
      BY <2>2
    <3>2. CASE i \in Cited(key)
      <4>1. named[i] = [gate.contexts[i] EXCEPT !.artifact = text]
        BY <3>2 DEF named
      <4>2. IsPassage(named[i]) /\ named[i].artifact = text /\ passage_holds(text, named[i])
        <5>1. IsPassage(gate.contexts[i]) /\ passage_holds(text, gate.contexts[i])
          BY <2>4, <3>1, <3>2 DEF Backed
        <5> QED BY <4>1, <5>1, HoldsAlike
      <4> QED BY <2>1, <4>2 DEF Backed
    <3>3. CASE i \notin Cited(key)
      <4>1. named[i] = gate.contexts[i]
        BY <3>3 DEF named
      <4> QED BY <2>1, <3>1, <4>1 DEF Backed
    <3> QED BY <3>2, <3>3
  <2>6. Citing'
    BY <2>1, <2>2, <2>3, <2>4, <2>5 DEF Citing, named
  <2>7. named \in Seq(ToSet(named))
    <3>1. DOMAIN named = 1 .. Len(gate.contexts) /\ Len(gate.contexts) \in Nat
      BY <2>2 DEF named
    <3>2. named \in [1 .. Len(gate.contexts) -> ToSet(named)]
      BY <3>1 DEF named, ToSet
    <3> QED BY <3>1, <3>2
  <2>8. Collecting'
    BY <2>3, <2>7 DEF Collecting, Asking
  <2> QED BY <1>1, <2>6, <2>8, GateOnly DEF EvidenceInv
<1> QED BY <1>2, <1>3

\* Every passage names its document when the decision is stored.
LEMMA StoreStep ==
    ASSUME EvidenceInv, evaluate PROVE EvidenceInv'
<1>1. /\ gate.pc = "escrow" /\ NextUncited = <<>> /\ gate' = [gate EXCEPT !.pc = "stored"]
      /\ UNCHANGED <<loadVars, artifacts, verification>>
  BY DEF evaluate
<1>2. /\ DOMAIN gate' = GateFields /\ gate'.pc = "stored" /\ gate'.contexts = gate.contexts
  BY <1>1 DEF EvidenceInv, Collecting, GateFields
<1>3. EscrowEnabled => {i \in DOMAIN gate.contexts : gate.contexts[i].artifact = <<>>} = {}
  BY <1>1 DEF NextUncited
<1>4. Collecting'
  BY <1>2 DEF EvidenceInv, Collecting, Asking
<1>5. Citing'
  BY <1>1, <1>2, <1>3 DEF EvidenceInv, Citing, Backed
<1> QED BY <1>1, <1>4, <1>5, GateOnly DEF EvidenceInv

\* What is left to show of a step of a verification.
LEMMA VerifyOnly ==
    ASSUME EvidenceInv, UNCHANGED <<loadVars, gate, artifacts>>
    PROVE  LoadInv' /\ Collecting' /\ Citing'
<1>1. LoadInv'
  BY LoadStutter DEF EvidenceInv
<1>2. gate' = gate /\ artifacts' = artifacts
  OBVIOUS
<1>3. Collecting' /\ Citing'
  BY <1>2 DEF EvidenceInv, Collecting, Citing
<1> QED BY <1>1, <1>3

LEMMA AskVerificationStep ==
    ASSUME EvidenceInv, NEW live \in BOOLEAN, verify_decision(live) PROVE EvidenceInv'
<1> DEFINE held == {i \in DOMAIN gate.contexts : gate.contexts[i].artifact \in artifacts}
<1>1. /\ gate.pc = "stored" /\ UNCHANGED <<loadVars, gate, artifacts>>
      /\ verification' = [NotVerified EXCEPT !.pc = "ask", !.live = live, !.held = held]
  BY DEF verify_decision
<1>2. \A i \in DOMAIN gate.contexts : gate.contexts[i].artifact # <<>> => i \in held
  BY DEF EvidenceInv, Citing, Backed
<1> HIDE DEF held
<1>3. /\ DOMAIN verification' = VerificationFields /\ verification'.pc = "ask"
      /\ verification'.held = held /\ verification'.refs = <<>> /\ verification'.against = <<>>
  BY <1>1 DEF NotVerified, VerificationFields
<1>4. DOMAIN <<>> = {} /\ <<>> \in Seq(ToSet(<<>>))
  OBVIOUS
<1>5. Verifying'
  BY <1>1, <1>2, <1>3, <1>4 DEF Verifying
<1>6. ChangesAreReal'
  BY <1>3, <1>4 DEF ChangesAreReal
<1> QED BY <1>1, <1>5, <1>6, VerifyOnly DEF EvidenceInv

\* What can be said of a stored passage: its document is in the escrow and
\* holds it, so that one that does not is another.
LEMMA StatusIsFair ==
    ASSUME EvidenceInv, verification.pc # "idle", NEW i \in DOMAIN gate.contexts
    PROVE  /\ escrow_status(i) # "missing"
           /\ stored_status(gate.contexts[i]) # "source_changed"
           /\ \A text : EscrowEnabled /\ ~(text # <<>> /\ passage_holds(text, gate.contexts[i]))
                => text # gate.contexts[i].artifact
<1>1. /\ gate.pc = "stored" /\ <<>> \notin artifacts /\ Backed(gate.contexts[i], artifacts)
      /\ gate.contexts[i].artifact # <<>> => i \in verification.held
      /\ EscrowEnabled => gate.contexts[i].artifact # <<>>
  BY DEF EvidenceInv, Citing, Verifying
<1>2. escrow_status(i) # "missing"
  BY <1>1 DEF escrow_status
<1>3. stored_status(gate.contexts[i]) # "source_changed"
  BY <1>1 DEF stored_status, Backed
<1>4. ASSUME NEW text, EscrowEnabled, ~(text # <<>> /\ passage_holds(text, gate.contexts[i]))
      PROVE  text # gate.contexts[i].artifact
  BY <1>1, <1>4 DEF Backed
<1> QED BY <1>2, <1>3, <1>4

\* The next reference: a change is reported of another document only.
LEMMA ReferenceStep ==
    ASSUME EvidenceInv, VerifyReference PROVE EvidenceInv'
<1> DEFINE i == Len(verification.refs) + 1
           context == gate.contexts[i]
           read == {j \in 1 .. i - 1 : /\ gate.contexts[j].corpus = context.corpus
                                       /\ Key(gate.contexts[j]) = Key(context)}
           text == IF read = {} THEN fetch_document(context.corpus, Key(context))
                   ELSE verification.against[CHOOSE j \in read : TRUE]
           status == IF ~verification.live THEN stored_status(context)
                     ELSE IF read = {} THEN live_status(context)
                     ELSE IF text # <<>> /\ passage_holds(text, context) THEN "intact"
                     ELSE "source_changed"
           ref == [escrow |-> escrow_status(i), status |-> status]
<1>1. /\ verification.pc = "ask" /\ Len(verification.refs) < Len(gate.contexts)
      /\ UNCHANGED <<loadVars, gate, artifacts>>
      /\ verification' = [verification EXCEPT !.refs = Append(@, ref), !.against = Append(@, text)]
  BY DEF VerifyReference
<1>2. /\ DOMAIN verification = VerificationFields /\ gate.pc = "stored"
      /\ verification.refs \in Seq(ToSet(verification.refs))
      /\ verification.against \in Seq(ToSet(verification.against))
      /\ Len(verification.refs) = Len(verification.against)
      /\ gate.contexts \in Seq(ToSet(gate.contexts))
  BY <1>1 DEF EvidenceInv, Verifying, Collecting
<1>3. i \in DOMAIN gate.contexts
  <2>1. Len(verification.refs) \in Nat /\ Len(gate.contexts) \in Nat
        /\ DOMAIN gate.contexts = 1 .. Len(gate.contexts)
    BY <1>2
  <2>2. Len(verification.refs) < Len(gate.contexts)
    BY <1>1
  <2> QED BY <2>1, <2>2
<1>4. /\ ref.escrow # "missing"
      /\ ref.status = "source_changed" =>
           verification.live /\ (EscrowEnabled => text # context.artifact)
  <2>1. /\ escrow_status(i) # "missing" /\ stored_status(context) # "source_changed"
        /\ \A any : EscrowEnabled /\ ~(any # <<>> /\ passage_holds(any, context))
             => any # context.artifact
    <3> HIDE DEF i
    <3> QED BY <1>1, <1>3, StatusIsFair
  <2>2. read = {} /\ live_status(context) = "source_changed" =>
          ~(text # <<>> /\ passage_holds(text, context))
    BY DEF live_status
  <2> HIDE DEF text, read, context, i
  <2> QED BY <2>1, <2>2
<1> HIDE DEF text, ref
<1>5. /\ DOMAIN verification' = VerificationFields /\ verification'.pc = "ask"
      /\ verification'.held = verification.held /\ verification'.live = verification.live
      /\ verification'.refs = Append(verification.refs, ref)
      /\ verification'.against = Append(verification.against, text)
  BY <1>1, <1>2 DEF VerificationFields
<1>6. /\ verification'.refs \in Seq(ToSet(verification'.refs))
      /\ Len(verification'.refs) = i
      /\ DOMAIN verification'.refs = DOMAIN verification.refs \cup {i}
      /\ \A j \in DOMAIN verification.refs : verification'.refs[j] = verification.refs[j]
      /\ verification'.refs[i] = ref
  <2>1. /\ Append(verification.refs, ref) \in Seq(ToSet(Append(verification.refs, ref)))
        /\ Len(Append(verification.refs, ref)) = i
        /\ DOMAIN Append(verification.refs, ref) = DOMAIN verification.refs \cup {i}
        /\ \A j \in DOMAIN verification.refs : Append(verification.refs, ref)[j] = verification.refs[j]
        /\ Append(verification.refs, ref)[i] = ref
    BY <1>2, Appended
  <2> QED BY <1>5, <2>1
<1>7. /\ verification'.against \in Seq(ToSet(verification'.against))
      /\ Len(verification'.against) = i
      /\ \A j \in DOMAIN verification.refs : verification'.against[j] = verification.against[j]
      /\ verification'.against[i] = text
  <2>1. DOMAIN verification.refs = DOMAIN verification.against
    BY <1>2
  <2>2. /\ Append(verification.against, text) \in Seq(ToSet(Append(verification.against, text)))
        /\ Len(Append(verification.against, text)) = i
        /\ \A j \in DOMAIN verification.refs :
             Append(verification.against, text)[j] = verification.against[j]
        /\ Append(verification.against, text)[i] = text
    BY <1>2, <2>1, Appended
  <2> QED BY <1>5, <2>2
<1>8. Verifying'
  <2>1. /\ gate'.pc = "stored" /\ gate'.contexts = gate.contexts
        /\ \A j \in DOMAIN gate.contexts : gate.contexts[j].artifact # <<>> => j \in verification.held
    BY <1>1, <1>2 DEF EvidenceInv, Verifying
  <2> QED BY <1>5, <1>6, <1>7, <2>1 DEF Verifying
<1>9. ChangesAreReal'
  <2> HIDE DEF i
  <2>1. gate'.contexts = gate.contexts
    BY <1>1
  <2> QED BY <1>4, <1>5, <1>6, <1>7, <2>1 DEF EvidenceInv, ChangesAreReal
<1> QED BY <1>1, <1>8, <1>9, VerifyOnly DEF EvidenceInv

\* A gate that does not answer is believed to accuse nobody.
LEMMA VerifyFailsStep ==
    ASSUME EvidenceInv, verify_evidence_fails PROVE EvidenceInv'
<1> DEFINE refs == [i \in DOMAIN gate.contexts |->
                      [escrow |-> escrow_status(i), status |-> "not_verifiable"]]
           against == [i \in DOMAIN gate.contexts |-> <<>>]
<1>1. /\ verification.pc = "ask" /\ UNCHANGED <<loadVars, gate, artifacts>>
      /\ verification' = [verification EXCEPT !.pc = "answered", !.against = against, !.refs = refs]
  BY DEF verify_evidence_fails
<1>2. /\ DOMAIN verification = VerificationFields /\ gate.pc = "stored"
      /\ gate.contexts \in Seq(ToSet(gate.contexts))
      /\ \A i \in DOMAIN gate.contexts : gate.contexts[i].artifact # <<>> => i \in verification.held
  BY <1>1 DEF EvidenceInv, Verifying, Collecting
<1>3. refs \in Seq(ToSet(refs)) /\ against \in Seq(ToSet(against))
  <2>1. Len(gate.contexts) \in Nat /\ DOMAIN gate.contexts = 1 .. Len(gate.contexts)
    BY <1>2
  <2>2. /\ DOMAIN refs = 1 .. Len(gate.contexts) /\ \A i \in DOMAIN refs : refs[i] \in ToSet(refs)
        /\ DOMAIN against = 1 .. Len(gate.contexts)
        /\ \A i \in DOMAIN against : against[i] \in ToSet(against)
    BY <2>1 DEF ToSet
  <2>3. refs = [i \in DOMAIN refs |-> refs[i]] /\ against = [i \in DOMAIN against |-> against[i]]
    OBVIOUS
  <2> HIDE DEF refs, against
  <2>4. /\ refs \in [1 .. Len(gate.contexts) -> ToSet(refs)]
        /\ against \in [1 .. Len(gate.contexts) -> ToSet(against)]
    BY <2>2, <2>3
  <2> QED BY <2>1, <2>4
<1>4. \A i \in DOMAIN refs : refs[i].escrow # "missing" /\ refs[i].status = "not_verifiable"
  BY <1>1, StatusIsFair
<1> HIDE DEF refs, against
<1>5. /\ DOMAIN verification' = VerificationFields /\ verification'.pc = "answered"
      /\ verification'.held = verification.held
      /\ verification'.refs = refs /\ verification'.against = against
  BY <1>1, <1>2 DEF VerificationFields
<1>6. Verifying'
  BY <1>1, <1>2, <1>3, <1>5 DEF Verifying
<1>7. ChangesAreReal'
  BY <1>4, <1>5 DEF ChangesAreReal
<1> QED BY <1>1, <1>6, <1>7, VerifyOnly DEF EvidenceInv

LEMMA AnsweredVerificationStep ==
    ASSUME EvidenceInv, VerificationAnswered PROVE EvidenceInv'
<1>1. /\ verification.pc = "ask" /\ UNCHANGED <<loadVars, gate, artifacts>>
      /\ verification' = [verification EXCEPT !.pc = "answered"]
  BY DEF VerificationAnswered
<1>2. /\ DOMAIN verification' = VerificationFields /\ verification'.pc = "answered"
      /\ verification'.held = verification.held /\ verification'.live = verification.live
      /\ verification'.refs = verification.refs /\ verification'.against = verification.against
  BY <1>1 DEF EvidenceInv, Verifying, VerificationFields
<1>3. gate' = gate
  BY <1>1
<1>4. Verifying' /\ ChangesAreReal'
  BY <1>1, <1>2, <1>3 DEF EvidenceInv, Verifying, ChangesAreReal
<1> QED BY <1>1, <1>4, VerifyOnly DEF EvidenceInv

\* The loads touch neither the passages nor the escrow.
LEMMA BesideStep ==
    ASSUME EvidenceInv, LoadInv', UNCHANGED <<gate, artifacts, verification>>
    PROVE  EvidenceInv'
<1>1. gate' = gate /\ artifacts' = artifacts /\ verification' = verification
  OBVIOUS
<1>2. Collecting' /\ Citing' /\ Verifying' /\ ChangesAreReal'
  BY <1>1 DEF EvidenceInv, Collecting, Citing, Verifying, ChangesAreReal
<1> QED BY <1>2 DEF EvidenceInv

LEMMA EvidenceStep ==
    ASSUME EvidenceInv, [EvidenceNext]_evidenceVars PROVE EvidenceInv'
<1>1. CASE LoadNext /\ UNCHANGED <<gate, artifacts, verification>>
  BY <1>1, LoadsKeep, BesideStep DEF EvidenceInv
<1>2. CASE GateNext
  BY <1>2, AskStep, SkipStep, SearchStep, HeldStep, EscrowStep, StoreStep DEF GateNext
<1>3. CASE VerifyNext
  BY <1>3, AskVerificationStep, ReferenceStep, VerifyFailsStep, AnsweredVerificationStep
     DEF VerifyNext
<1>4. CASE UNCHANGED evidenceVars
  <2>1. UNCHANGED loadVars /\ UNCHANGED <<gate, artifacts, verification>>
    BY <1>4 DEF evidenceVars
  <2> QED BY <2>1, LoadStutter, BesideStep DEF EvidenceInv
<1> QED BY <1>1, <1>2, <1>3, <1>4 DEF EvidenceNext

-----------------------------------------------------------------------------

\* The passages, the escrow and the verification, in every state.
THEOREM EvidenceInvariance == EvidenceSpec => []EvidenceInv
<1>1. EvidenceInit => EvidenceInv
  BY EvidenceInitInv
<1>2. EvidenceInv /\ [EvidenceNext]_evidenceVars => EvidenceInv'
  BY EvidenceStep
<1> QED BY <1>1, <1>2, PTL DEF EvidenceSpec

\* What a stored decision cites stays provable, however many loads run between
\* the search, the held check, the fetch and ever after (gate.py and its escrow).
THEOREM CitationsStand == EvidenceSpec => []CitationsAreProvable
<1>1. EvidenceInv => CitationsAreProvable
  BY DEF EvidenceInv, Citing, Backed, CitationsAreProvable
<1> QED BY <1>1, EvidenceInvariance, PTL

\* A verification reports no artifact missing, and no change but of a document
\* that differs from the one in the escrow (verify_decision).
THEOREM ChangesHold == EvidenceSpec => []ChangesAreReal
<1>1. EvidenceInv => ChangesAreReal
  BY DEF EvidenceInv
<1> QED BY <1>1, EvidenceInvariance, PTL

=============================================================================
