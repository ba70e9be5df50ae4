--------------------------- MODULE RegistrationBook ---------------------------
(***************************************************************************)
(* What the registration service promises, whatever it keeps in memory and *)
(* in Postgres: one book with at most one version per reasoner.  While it  *)
(* is open it changes one reasoner at a time and only to a book the        *)
(* deployment admits; closing it loses no write (a write still in progress *)
(* either took effect or did not); while it is closed only the operator's  *)
(* configuration changes it; it opens as it was, and only if admitted.     *)
(***************************************************************************)
CONSTANTS Reasoners, Versions, None, Serves, Disagree
VARIABLES book, open

BookEntries == {<<r, book[r]>> : r \in {q \in Reasoners : book[q] # None}}
BookAdmitted == /\ BookEntries \subseteq Serves
                /\ \A p, q \in BookEntries : {p, q} \notin Disagree

Init == book \in [Reasoners -> Versions \cup {None}] /\ open = FALSE

Write == \E r \in Reasoners, v \in Versions : book' = [book EXCEPT ![r] = v] /\ BookAdmitted'

\* The operator's configuration names the reasoner, or no longer does.
Reconfigure ==
    /\ ~open /\ ~open'
    /\ \E r \in Reasoners, v \in Versions \cup {None} : book' = [book EXCEPT ![r] = v]

Open == ~open /\ open' /\ UNCHANGED book /\ BookAdmitted
Record == open /\ open' /\ Write
Close == open /\ ~open' /\ (Write \/ UNCHANGED book)

Next == Reconfigure \/ Open \/ Record \/ Close
Spec == Init /\ [][Next]_<<book, open>>
=============================================================================
