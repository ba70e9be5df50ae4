------------------------------ MODULE Predicates ------------------------------
(***************************************************************************)
(* The closed predicate language of bypass rules and rule sets             *)
(* (core/gate/predicate.py).  A scalar is a record of its kind and value:  *)
(* booleans, numbers and strings are never equal across kinds.  Evaluation *)
(* has three outcomes: "holds", "fails" and "error" (PredicateError), and  *)
(* `all' and `any' stop at the first child that settles them.              *)
(***************************************************************************)
EXTENDS Integers, Sequences

Number(n) == [kind |-> "number", value |-> n]
Flag(b)   == [kind |-> "bool", value |-> b]
Text(s)   == [kind |-> "string", value |-> s]

\* The label's address; every other field is a key of the feature set.
LABEL_FIELD == "label_value"

Compare(field, op, value) == [kind |-> "compare", field |-> field, op |-> op, value |-> value]
AllOf(predicates) == [kind |-> "all", predicates |-> predicates]
AnyOf(predicates) == [kind |-> "any", predicates |-> predicates]
Not(predicate) == [kind |-> "not", predicate |-> predicate]

-----------------------------------------------------------------------------
(* Reading and comparing one field. *)

Outcome(holds) == IF holds THEN "holds" ELSE "fails"

Carries(subject, field) == field = LABEL_FIELD \/ field \in DOMAIN subject.feature_set

_resolve(field, subject) ==
    IF field = LABEL_FIELD THEN subject.label_value ELSE subject.feature_set[field]

_equal(actual, expected) == actual.kind = expected.kind /\ actual.value = expected.value

\* The value of a membership test is a sequence of scalars.
Listed(node, actual) == \E i \in DOMAIN node.value : _equal(actual, node.value[i])

Ordered(op, left, right) ==
    CASE op = "lt" -> left < right
      [] op = "le" -> left <= right
      [] op = "gt" -> left > right
      [] op = "ge" -> left >= right

_compare(node, actual) ==
    CASE node.op = "in"     -> Outcome(Listed(node, actual))
      [] node.op = "not_in" -> Outcome(~Listed(node, actual))
      [] node.op = "eq"     -> Outcome(_equal(actual, node.value))
      [] node.op = "ne"     -> Outcome(~_equal(actual, node.value))
      [] OTHER -> IF actual.kind # "number" THEN "error"
                  ELSE Outcome(Ordered(node.op, actual.value, node.value.value))

-----------------------------------------------------------------------------
(* Evaluation. *)

\* The first outcome that is not the one the node goes on after.
FirstOther(neutral, outcomes) ==
    LET other == {i \in DOMAIN outcomes : outcomes[i] # neutral}
    IN  IF other = {} THEN neutral
        ELSE outcomes[CHOOSE i \in other : \A j \in other : i <= j]

Children(p) ==
    CASE p.kind = "compare" -> <<>>
      [] p.kind \in {"all", "any"} -> p.predicates
      [] p.kind = "not" -> <<p.predicate>>

\* What a node tells, from what its children tell.
Node(p, subject, told) ==
    CASE p.kind = "compare" ->
           IF Carries(subject, p.field) THEN _compare(p, _resolve(p.field, subject))
           ELSE "error"
      [] p.kind = "all" -> FirstOther("holds", told)
      [] p.kind = "any" -> FirstOther("fails", told)
      [] p.kind = "not" -> IF told[1] = "error" THEN "error" ELSE Outcome(told[1] = "fails")

\* Bound: two levels of nodes over the comparisons, one more than any rule
\* that ships has.  A deeper predicate has no value here.
Leaf(p, subject) == CASE p.kind = "compare" -> Node(p, subject, <<>>)
Nested(p, subject) ==
    Node(p, subject, [i \in DOMAIN Children(p) |-> Leaf(Children(p)[i], subject)])
evaluate_predicate(p, subject) ==
    Node(p, subject, [i \in DOMAIN Children(p) |-> Nested(Children(p)[i], subject)])
=============================================================================
