------------------------------- MODULE Selection -------------------------------
(***************************************************************************)
(* Sequences made from sets and functions, by definitions that do not      *)
(* recur: what a list comprehension with a condition keeps, in order, and  *)
(* what dict.update leaves.                                                *)
(***************************************************************************)
EXTENDS Integers, FiniteSets

\* The members of a finite set in an order, given by what each one is not
\* before: itself and those ahead of it.
Ranked(S, upto) ==
    [n \in 1 .. Cardinality(S) |-> CHOOSE i \in S : Cardinality(upto[i]) = n]

\* The members of a finite set of numbers, in ascending order.
Ascending(S) == Ranked(S, [i \in S |-> {j \in S : j <= i}])

\* The elements of a sequence at the positions of a set, in order.
Selected(s, positions) ==
    LET order == Ascending(positions) IN [n \in DOMAIN order |-> s[order[n]]]

\* A function with another one's values put over its own.
Updated(f, g) ==
    [x \in DOMAIN f \cup DOMAIN g |-> IF x \in DOMAIN g THEN g[x] ELSE f[x]]
=============================================================================
