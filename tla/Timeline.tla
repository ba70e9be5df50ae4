------------------------------- MODULE Timeline -------------------------------
(***************************************************************************)
(* A subject's timeline: the decisions of a subject, of the ids merged     *)
(* with it and, when asked, of the subjects one relationship away, newest  *)
(* first and page by page (entity_decisions of app/api/entities.py,        *)
(* BundleStore.entity_decisions and membership_touching of                 *)
(* app/audit/store.py, linked_entities of core/identity.py).               *)
(*                                                                         *)
(* A page is several statements, each on its own snapshot: one per step of *)
(* the walk over the membership projection, then the one that lists.       *)
(* Decisions and relationships are written between any two of them, and a  *)
(* decision may be committed after one that was created later.             *)
(***************************************************************************)
EXTENDS Selection, SequencesExt

CONSTANTS Bundles,     \* decisions that may be written: [id, subject, at, reasoner], id a number
          Edges,       \* current intervals there may be: [ends, type], type Merge for a merge
          Merge,
          Queries,     \* [subject, reasoner, include]: All reasoners, or no relationship
          All,
          Limit        \* the size of a page

\* A decision's id is a bundle's primary key.
ASSUME TimelineConstants ==
    /\ Limit \in Nat \ {0} /\ All \notin Bundles
    /\ \A e \in Edges : Cardinality(e.ends) = 2
    /\ \A b \in Bundles : b.id \in Nat /\ b.at \in Nat
    /\ \A b, c \in Bundles : b.id = c.id => b = c

VARIABLES written,  \* durable: the decisions committed
          current,  \* durable: the intervals that hold
          reading,  \* the caller's request: where its walk stands
          pages     \* the pages it got: [cursor, listed]; history: what held all along

timelineVars == <<written, current, reading, pages>>

NotReading == [pc |-> "idle", query |-> All, own |-> {}, found |-> {}, frontier |-> {}]
NoPages == [cursor |-> All, listed |-> <<>>, present |-> {}, steady |-> {}]

TimelineInit ==
    /\ written = {}
    /\ current \in SUBSET Edges
    /\ reading = NotReading
    /\ pages = NoPages

-----------------------------------------------------------------------------
(* What others write. *)

WriteBundle(b) ==
    /\ b \notin written
    /\ written' = written \cup {b}
    /\ UNCHANGED <<current, reading, pages>>

BeginInterval(e) ==
    /\ e \notin current
    /\ current' = current \cup {e}
    /\ UNCHANGED <<written, reading, pages>>

EndInterval(e) ==
    /\ e \in current
    /\ current' = current \ {e}
    /\ pages' = [pages EXCEPT !.steady = @ \ {e}]
    /\ UNCHANGED <<written, reading>>

-----------------------------------------------------------------------------
(* The walk over the projection: linked_entities. *)

\* membership_touching, for the intervals of one type.
Reached(ids, type) == UNION {e.ends : e \in {f \in current : f.type = type /\ f.ends \cap ids # {}}}

Asking(query) == [pc |-> "merging", query |-> query, own |-> {},
                  found |-> {query.subject}, frontier |-> {query.subject}]

\* A reasoner's key reads its own decisions and may not ask for another's; an
\* operator's (All) reads any.
Ask(query, principal) ==
    /\ reading.pc = "idle"
    /\ principal # All => query.reasoner \in {All, principal}
    /\ pages' = [NoPages EXCEPT !.present = written, !.steady = current]
    /\ reading' = Asking(IF principal = All THEN query
                         ELSE [query EXCEPT !.reasoner = principal])
    /\ UNCHANGED <<written, current>>

\* _merged: one step of the closure; what comes next once it reaches nothing
\* new, which is the list unless the query includes related subjects.
StepMerged ==
    LET reached == Reached(reading.frontier, Merge) \ reading.found
        found == reading.found \cup reached
    IN /\ reading.pc \in {"merging", "related"}
       /\ reading' = IF reached # {}
                     THEN [reading EXCEPT !.found = found, !.frontier = reached]
                     ELSE IF reading.pc = "merging" /\ reading.query.include # All
                     THEN [reading EXCEPT !.pc = "relating", !.own = found]
                     ELSE [reading EXCEPT !.pc = "listing", !.found = @ \cup reading.own]
       /\ UNCHANGED <<written, current, pages>>

\* The subjects one relationship away; without any, nothing more is read.
StepRelated ==
    LET neighbors == Reached(reading.own, reading.query.include) \ reading.own
    IN /\ reading.pc = "relating"
       /\ reading' = IF neighbors = {} THEN [reading EXCEPT !.pc = "listing"]
                     ELSE [reading EXCEPT !.pc = "related", !.found = neighbors,
                                          !.frontier = neighbors]
       /\ UNCHANGED <<written, current, pages>>

-----------------------------------------------------------------------------
(* The statement that lists. *)

Newer(b, c) == b.at > c.at \/ (b.at = c.at /\ b.id > c.id)

\* Mutant: the page starts below the instant of the last decision seen.
After_Instant(b, cursor) == cursor # All => b.at < cursor.at

\* Below the last decision seen, an instant's decisions told apart by id.
After(b, cursor) == cursor # All => Newer(cursor, b)

Readable(b, reasoner) == reasoner = All \/ b.reasoner = reasoner

ListPage ==
    LET eligible == {b \in written : /\ b.subject \in reading.found
                                     /\ Readable(b, reading.query.reasoner)
                                     /\ After(b, pages.cursor)}
        ordered == Ranked(eligible, [b \in eligible |-> {c \in eligible : c = b \/ Newer(c, b)}])
        page == SubSeq(ordered, 1, IF Len(ordered) < Limit THEN Len(ordered) ELSE Limit)
    IN /\ reading.pc = "listing"
       /\ pages' = [pages EXCEPT !.listed = @ \o page,
                                 !.cursor = IF page = <<>> THEN @ ELSE Last(page)]
       \* The caller asks for the next page until one is not full.
       /\ reading' = IF Len(page) = Limit THEN Asking(reading.query)
                     ELSE [reading EXCEPT !.pc = "end"]
       /\ UNCHANGED <<written, current>>

\* The caller is done with the timeline and may read another.
Leave ==
    /\ reading.pc = "end"
    /\ reading' = NotReading
    /\ pages' = NoPages
    /\ UNCHANGED <<written, current>>

-----------------------------------------------------------------------------

TimelineNext ==
    \/ \E b \in Bundles : WriteBundle(b)
    \/ \E e \in Edges : BeginInterval(e) \/ EndInterval(e)
    \/ \E query \in Queries, principal \in {b.reasoner : b \in Bundles} \cup {All} :
          Ask(query, principal)
    \/ StepMerged
    \/ StepRelated
    \/ ListPage
    \/ Leave

TimelineSpec == TimelineInit /\ [][TimelineNext]_timelineVars

-----------------------------------------------------------------------------
(* Properties. *)

\* The ids reached from `ids' over intervals of one type of `edges': by a
\* path of merges, or by one step.
Step(edges, type, ids) == ids \cup UNION {e.ends : e \in {f \in edges : f.type = type /\ f.ends \cap ids # {}}}
Component(edges, ids) ==
    LET closed == {s \in SUBSET (ids \cup UNION {e.ends : e \in edges}) :
                     ids \subseteq s /\ Step(edges, Merge, s) = s}
    IN  CHOOSE s \in closed : \A u \in closed : s \subseteq u

Linked(edges, query) ==
    LET own == Component(edges, {query.subject})
    IN  IF query.include = All THEN own
        ELSE Component(edges, Step(edges, query.include, own))

\* A timeline read to its end has every decision that was there when the read
\* began and that intervals current all along link to the subject, whatever
\* was written, merged or detached between its pages and within one; and no
\* decision comes twice ("decisions written in the same instant are neither
\* skipped nor repeated across pages").
TimelineIsWhole ==
    reading.pc = "end" =>
       /\ \A i, j \in DOMAIN pages.listed : pages.listed[i] = pages.listed[j] => i = j
       /\ {b \in pages.present : /\ b.subject \in Linked(pages.steady, reading.query)
                                 /\ Readable(b, reading.query.reasoner)}
            \subseteq Range(pages.listed)
=============================================================================
