------------------------------ MODULE Realization ------------------------------
(***************************************************************************)
(* What the resolution journal promises: a decision is realized at most    *)
(* once.  An ALLOW or BLOCK decision is its own realization; a challenged  *)
(* or held one has none until one terminal action is chosen for it, and    *)
(* that choice stands.                                                     *)
(***************************************************************************)
CONSTANTS Decisions, DecisionActionOf, Terminal, Pending
VARIABLE realized

Init == realized = [d \in Decisions |->
                      IF DecisionActionOf[d] \in Terminal THEN DecisionActionOf[d] ELSE Pending]

Choose(d, action) == realized[d] = Pending /\ realized' = [realized EXCEPT ![d] = action]

Next == \E d \in Decisions, action \in Terminal : Choose(d, action)

Spec == Init /\ [][Next]_realized
=============================================================================
