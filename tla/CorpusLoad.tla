------------------------------- MODULE CorpusLoad -------------------------------
(***************************************************************************)
(* The corpus loader of the RAG policy gate                                *)
(* (python -m policy_rag_gate.corpus_loader): the documents of a directory *)
(* are cut into chunks and replace one corpus in two stores, Postgres in   *)
(* one transaction and then the Elasticsearch index, which every corpus    *)
(* shares.  Loads are processes of their own: they run concurrently, fail  *)
(* or die between any two statements, and the advisory lock of a corpus is *)
(* their session's.                                                        *)
(***************************************************************************)
EXTENDS Integers, FiniteSets, Sequences, SequencesExt

CONSTANTS Corpora,         \* corpus ids
          Loaders,         \* processes
          Directories,     \* sets of files a load may find under its corpus directory
          InitialCorpora,  \* what each corpus was loaded from before: a directory
          InitialIndexes,  \* the index as an earlier deployment left it
          MinWords,        \* _CHUNK_MIN_WORDS
          MaxWords,        \* _CHUNK_MAX_WORDS
          WordsOf,         \* the words of a paragraph or of a heading line
          NoHeading,       \* the preamble of a body: what precedes its first section
          Nobody,          \* holds no lock
          MaxLoads         \* bound: loads that write

ASSUME LoadConstants ==
    /\ Nobody \notin Loaders
    /\ InitialIndexes \subseteq {"absent", "stale", "current"}
    /\ \A c \in Corpora : \A files \in Directories[c] \cup {InitialCorpora[c]} : IsFiniteSet(files)

VARIABLES postgres,  \* each corpus as committed: [loaded, manifest, documents, chunks]
          index,     \* the policy-chunks index: "absent", "stale" (no keyword corpus_id), "current"
          indexed,   \* the documents of the index, by corpus and chunk id
          lock,      \* the holder of each corpus's advisory lock
          loader,    \* each process: [pc, corpus, files, wipe, wiped]
          loads,     \* loads started
          settled    \* corpora whose last load ended well, the index its own since

loadVars == <<postgres, index, indexed, lock, loader, loads, settled>>

-----------------------------------------------------------------------------
(* Documents and chunks.  A text is a sequence of paragraphs; a body is a    *)
(* sequence of sections [heading, text, parts], a part [heading, text] being *)
(* what follows a third-level heading.                                       *)

Words(text) == FoldLeft(LAMBDA sum, paragraph : sum + WordsOf[paragraph], 0, text)

PartsText(parts) == FoldLeft(LAMBDA text, p : text \o <<p.heading>> \o p.text, <<>>, parts)
SectionBody(section) == section.text \o PartsText(section.parts)

\* The body as the documents table keeps it, headings included.
WholeText(body) ==
    FoldLeft(LAMBDA text, s : text \o (IF s.heading = NoHeading THEN <<>> ELSE <<s.heading>>)
                                   \o SectionBody(s),
             <<>>, body)

Piece(path, text) == <<[path |-> path, text |-> text]>>

\* What a section is cut into: the preamble and the text before a section's
\* first part are dropped when they are short, a section of more than MaxWords
\* is cut at its parts.
RawChunks(section) ==
    IF section.heading = NoHeading
      THEN IF Words(section.text) >= MinWords THEN Piece(<<"Overview">>, section.text) ELSE <<>>
    ELSE IF Words(SectionBody(section)) <= MaxWords
      THEN Piece(<<section.heading>>, SectionBody(section))
    ELSE (IF Words(section.text) >= MinWords THEN Piece(<<section.heading>>, section.text) ELSE <<>>)
         \o [i \in DOMAIN section.parts |->
               [path |-> <<section.heading, section.parts[i].heading>>,
                text |-> section.parts[i].text]]

\* A short piece absorbs the one after it, whatever that one's length.
MergeShort(pieces) ==
    LET from[i \in 1 .. Len(pieces) + 1] ==
          IF i > Len(pieces) THEN <<>>
          ELSE IF Words(pieces[i].text) < MinWords /\ i < Len(pieces)
            THEN Piece(pieces[i].path, pieces[i].text \o pieces[i + 1].text) \o from[i + 2]
          ELSE <<pieces[i]>> \o from[i + 1]
    IN  from[1]

chunk_document(body) ==
    LET raw == FoldLeft(LAMBDA pieces, s : pieces \o RawChunks(s), <<>>, body)
    IN  SelectSeq(MergeShort(raw), LAMBDA piece : piece.text # <<>>)

\* The id digests these five; the occurrence tells a repeated path apart.
chunk_id(corpus, file, path, occurrence) ==
    <<corpus, file.document, file.version, path, occurrence>>

assign_chunk_ids(corpus, file, pieces) ==
    [i \in DOMAIN pieces |->
       chunk_id(corpus, file, pieces[i].path,
                Cardinality({j \in 1 .. i : pieces[j].path = pieces[i].path}))]

NoSpan == <<>>

\* Where a text stands in a body at or after a position; 0: nowhere.
FindFrom(text, whole, cursor) ==
    LET starts == {i \in cursor .. Len(whole) - Len(text) + 1 :
                     SubSeq(whole, i, i + Len(text) - 1) = text}
    IN  IF starts = {} THEN 0 ELSE CHOOSE i \in starts : \A j \in starts : i <= j

\* Each text is searched for after the last one located.
assign_spans(whole, pieces) ==
    LET cursor[i \in 0 .. Len(pieces)] ==
          IF i = 0 THEN 1
          ELSE LET at == FindFrom(pieces[i].text, whole, cursor[i - 1])
               IN  IF at = 0 THEN cursor[i - 1] ELSE at + Len(pieces[i].text)
    IN  [i \in DOMAIN pieces |->
           LET at == FindFrom(pieces[i].text, whole, cursor[i - 1])
           IN  IF at = 0 THEN NoSpan ELSE <<at, at + Len(pieces[i].text) - 1>>]

\* Whether a text holds a passage as it was cited: at its span, or paragraph
\* after paragraph in order.
HeldInOrder(text, paragraphs) ==
    LET cursor[i \in 0 .. Len(paragraphs)] ==
          IF i = 0 THEN 1
          ELSE IF cursor[i - 1] = 0 THEN 0
          ELSE LET at == FindFrom(<<paragraphs[i]>>, text, cursor[i - 1])
               IN  IF at = 0 THEN 0 ELSE at + 1
    IN  cursor[Len(paragraphs)] # 0

passage_holds(text, passage) ==
    IF passage.span # NoSpan
      THEN /\ passage.span[2] <= Len(text)
           /\ SubSeq(text, passage.span[1], passage.span[2]) = passage.text
      ELSE HeldInOrder(text, passage.text)

\* The records of one file, by chunk id.
FileChunks(corpus, file) ==
    LET pieces == chunk_document(file.body)
        ids    == assign_chunk_ids(corpus, file, pieces)
        spans  == assign_spans(WholeText(file.body), pieces)
    IN  [id \in {ids[i] : i \in DOMAIN ids} |->
           LET i == CHOOSE j \in DOMAIN ids : ids[j] = id
           IN  [document |-> file.document, version |-> file.version,
                jurisdiction |-> file.jurisdiction, risk_tier |-> file.risk_tier,
                text |-> pieces[i].text, span |-> spans[i]]]

\* read_document: a file is unreadable when its front matter is missing, does
\* not validate or is not JSON-safe; a readable one is the document it declares.
parse_document(file) == file.readable
read_document(file) == [document |-> file.document, version |-> file.version,
                        body |-> file.body, metadata |-> file.metadata]

duplicate_documents(files) ==
    {f \in files : \E g \in files \ {f} : f.document = g.document /\ f.version = g.version}

\* The state marker: sorted, so that names and order do not matter.
manifest_hash(files) == {read_document(f) : f \in files}

\* What a load refuses before it writes anything.
Loadable(files) ==
    /\ files # {}
    /\ \A f \in files : parse_document(f)
    /\ duplicate_documents(files) = {}

\* Chunks written over others: a document is indexed under its chunk's id.
Over(written, chunks) ==
    [id \in DOMAIN written \cup DOMAIN chunks |->
       IF id \in DOMAIN written THEN written[id] ELSE chunks[id]]

CorpusOf(corpus, files) ==
    [loaded    |-> files # {},
     manifest  |-> manifest_hash(files),
     documents |-> [key \in {<<f.document, f.version>> : f \in files} |->
                      WholeText((CHOOSE f \in files : <<f.document, f.version>> = key).body)],
     chunks    |-> FoldSet(LAMBDA f, chunks : Over(FileChunks(corpus, f), chunks), <<>>, files)]

-----------------------------------------------------------------------------

Idle == [pc |-> "idle", corpus |-> Nobody, files |-> {}, wipe |-> FALSE, wiped |-> FALSE]

LoadInit ==
    /\ postgres = [c \in Corpora |-> CorpusOf(c, InitialCorpora[c])]
    /\ index \in InitialIndexes
    /\ indexed = [c \in Corpora |-> IF index = "current" THEN postgres[c].chunks ELSE <<>>]
    /\ lock = [c \in Corpora |-> Nobody]
    /\ loader = [l \in Loaders |-> Idle]
    /\ loads = 0
    /\ settled = IF index = "current" THEN Corpora ELSE {}

Goto(l, pc) == loader' = [loader EXCEPT ![l].pc = pc]

\* The session that held a lock ends with its process.
Release(l) == lock' = [c \in Corpora |-> IF lock[c] = l THEN Nobody ELSE lock[c]]
Leave(l) == loader' = [loader EXCEPT ![l] = Idle] /\ Release(l)

\* main, up to its writes: the documents are read, checked, cut and embedded.
main(l, c, files, wipe) ==
    /\ loader[l].pc = "idle" /\ loads < MaxLoads
    /\ Loadable(files)
    /\ loader' = [loader EXCEPT ![l] = [Idle EXCEPT !.pc = "lock", !.corpus = c,
                                                    !.files = files, !.wipe = wipe]]
    /\ loads' = loads + 1
    /\ UNCHANGED <<postgres, index, indexed, lock, settled>>

\* Mutant: loads of one corpus are not serialised.
AcquireLock_Free(l) ==
    /\ loader[l].pc = "lock"
    /\ Goto(l, "postgres")
    /\ UNCHANGED <<postgres, index, indexed, lock, loads, settled>>

\* pg_advisory_lock on the corpus, in a session of its own.
AcquireLock(l) ==
    /\ loader[l].pc = "lock" /\ lock[loader[l].corpus] = Nobody
    /\ lock' = [lock EXCEPT ![loader[l].corpus] = l]
    /\ Goto(l, "postgres")
    /\ UNCHANGED <<postgres, index, indexed, loads, settled>>

\* The corpus's documents and chunks, replaced in one transaction.
write_postgres(l) ==
    /\ loader[l].pc = "postgres"
    /\ LET c == loader[l].corpus
       IN  /\ postgres' = [postgres EXCEPT ![c] = CorpusOf(c, loader[l].files)]
           /\ settled' = settled \ {c}
    /\ Goto(l, "index")
    /\ UNCHANGED <<index, indexed, lock, loads>>

\* ensure_es_index looks first ...
ensure_es_index(l) ==
    /\ loader[l].pc = "index"
    /\ Goto(l, CASE index = "current" -> (IF loader[l].wipe THEN "wipe" ELSE "bulk")
                 [] index = "stale"   -> "delete"
                 [] index = "absent"  -> "create")
    /\ UNCHANGED <<postgres, index, indexed, lock, loads, settled>>

\* ... and drops what it saw stale, whatever has become of it: the documents of
\* every corpus go (deleting an absent index fails the load).
DeleteIndex(l) ==
    /\ loader[l].pc = "delete" /\ index # "absent"
    /\ index' = "absent"
    /\ indexed' = [c \in Corpora |-> <<>>]
    /\ settled' = {}
    /\ loader' = [k \in Loaders |-> [loader[k] EXCEPT !.wiped = @ \/ loader[k].pc = "stale_chunks",
                                       !.pc = IF k = l THEN "create" ELSE @]]
    /\ UNCHANGED <<postgres, lock, loads>>

\* Creating an index that exists fails the load.
CreateIndex(l) ==
    /\ loader[l].pc = "create" /\ index = "absent"
    /\ index' = "current"
    /\ Goto(l, IF loader[l].wipe THEN "wipe" ELSE "bulk")
    /\ UNCHANGED <<postgres, indexed, lock, loads, settled>>

\* A deletion by query matches the corpus by its keyword id, in an index that
\* exists.
DeleteMatching(c, keep) ==
    IF index = "current"
      THEN [indexed EXCEPT ![c] = [id \in DOMAIN @ \cap keep |-> @[id]]]
      ELSE indexed

Wipe(l) ==
    /\ loader[l].pc = "wipe" /\ index # "absent"
    /\ indexed' = DeleteMatching(loader[l].corpus, {})
    /\ Goto(l, "bulk")
    /\ UNCHANGED <<postgres, index, lock, loads, settled>>

LoadedChunks(l) == CorpusOf(loader[l].corpus, loader[l].files).chunks

\* Writing to an absent index creates one, its fields mapped by their values.
Index(c, chunks) ==
    /\ indexed' = [indexed EXCEPT ![c] = Over(chunks, @)]
    /\ index' = IF index = "absent" /\ chunks # <<>> THEN "stale" ELSE index

Bulk(l) ==
    /\ loader[l].pc = "bulk"
    /\ Index(loader[l].corpus, LoadedChunks(l))
    /\ Goto(l, "stale_chunks")
    /\ UNCHANGED <<postgres, lock, loads, settled>>

\* Mutant: the chunks an earlier load wrote stay.
write_elasticsearch_Keep(l) ==
    /\ loader[l].pc = "stale_chunks" /\ index # "absent"
    /\ settled' = IF loader[l].wiped THEN settled ELSE settled \cup {loader[l].corpus}
    /\ Leave(l)
    /\ UNCHANGED <<postgres, index, indexed, loads>>

\* The corpus's chunks this load did not write go, and the load is complete.
write_elasticsearch(l) ==
    /\ loader[l].pc = "stale_chunks" /\ index # "absent"
    /\ indexed' = DeleteMatching(loader[l].corpus, DOMAIN LoadedChunks(l))
    /\ settled' = IF loader[l].wiped THEN settled ELSE settled \cup {loader[l].corpus}
    /\ Leave(l)
    /\ UNCHANGED <<postgres, index, loads>>

\* A store is down, an index is not as expected, the process dies: what was
\* written stays, of a bulk write some of it.
FailLoad(l) ==
    /\ loader[l].pc # "idle"
    /\ \/ UNCHANGED <<indexed, index>>
       \/ /\ loader[l].pc = "bulk"
          /\ \E ids \in SUBSET DOMAIN LoadedChunks(l) :
               Index(loader[l].corpus, [id \in ids |-> LoadedChunks(l)[id]])
    /\ Leave(l)
    /\ UNCHANGED <<postgres, loads, settled>>

LoadStep(l) ==
    \/ AcquireLock(l) \/ write_postgres(l)
    \/ ensure_es_index(l) \/ DeleteIndex(l) \/ CreateIndex(l)
    \/ Wipe(l) \/ Bulk(l) \/ write_elasticsearch(l)

LoadNext ==
    \E l \in Loaders :
      \/ \E c \in Corpora, wipe \in BOOLEAN : \E files \in Directories[c] : main(l, c, files, wipe)
      \/ LoadStep(l)
      \/ FailLoad(l)

LoadSpec == LoadInit /\ [][LoadNext]_loadVars

-----------------------------------------------------------------------------
(* Properties. *)

\* Once a load has completed, the index holds exactly what Postgres holds of
\* its corpus, whatever loads failed or died before, ran beside it or waited
\* for it; until the corpus is loaded again or a load drops the whole index.
StoresAgree == \A c \in settled : indexed[c] = postgres[c].chunks
=============================================================================
