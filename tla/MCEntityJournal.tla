---------------------------- MODULE MCEntityJournal ----------------------------
(* One link, two decisions and two journal transactions around it; or the      *)
(* timeline of a subject: an id merged with it through another, and a group    *)
(* one relationship away, with decisions of one instant among them.            *)
EXTENDS EntityJournal, Timeline

CONSTANTS l1, d1, d2, p1, p2

Symmetry == Permutations({d1, d2}) \cup Permutations({p1, p2})

Interval(x, y, type) == [ends |-> {x, y}, type |-> type]
MCEdges == {Interval("a", "b", Merge), Interval("b", "c", Merge), Interval("b", "g", "member")}
Written(id, subject, at, reasoner) ==
    [id |-> id, subject |-> subject, at |-> at, reasoner |-> reasoner]
MCBundles == {Written(1, "a", 1, "r"), Written(2, "c", 1, "r"), Written(3, "g", 2, "s")}
MCQueries == {[subject |-> "a", reasoner |-> All, include |-> "member"],
              [subject |-> "a", reasoner |-> "r", include |-> All]}

VARIABLE part \* which of the two runs

MCInit == /\ EntityInit /\ TimelineInit
          /\ part \in {"journal", "timeline"}
          /\ part = "journal" => current = {}

MCNext ==
    /\ \/ part = "journal" /\ EntityNext /\ UNCHANGED timelineVars
       \/ part = "timeline" /\ TimelineNext /\ UNCHANGED entityVars
    /\ UNCHANGED part

MCSpec == MCInit /\ [][MCNext]_<<entityVars, timelineVars, part>>
=============================================================================
