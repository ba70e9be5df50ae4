-------------------------- MODULE MCResolutionJournal --------------------------
(* A held decision and a blocked one; two requests and one other resolver.     *)
EXTENDS ResolutionJournal

CONSTANTS held, blocked, a1, a2, s1

MCDecisionActionOf == [d \in Decisions |-> IF d = held THEN "HOLD" ELSE "BLOCK"]
=============================================================================
