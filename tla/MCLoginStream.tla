----------------------------- MODULE MCLoginStream -----------------------------
(* Four messages: one event published twice, one that is no event, and a      *)
(* second event; two instances of the group.                                  *)
EXTENDS LoginStream

CONSTANTS e1, e2, bad, c1, c2

MCStream == <<e1, bad, e2, e1>>

MCTimestampOf == [e \in Events |-> 0]
================================================================================
