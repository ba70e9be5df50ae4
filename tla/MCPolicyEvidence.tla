--------------------------- MODULE MCPolicyEvidence ---------------------------
(* A decision over two corpora of the binding, one of them reloaded twice: an  *)
(* edition that keeps a document's version, moves one of its sections and      *)
(* retags it, and one that adds a version and merges two short sections.       *)
EXTENDS PolicyEvidence

CONSTANTS rules, codes, l1, l2

Section(heading, text) == [heading |-> heading, text |-> text, parts |-> <<>>]
File(document, version, jurisdiction, risk_tier, body) ==
    [readable |-> TRUE, document |-> document, version |-> version, jurisdiction |-> jurisdiction,
     risk_tier |-> risk_tier, body |-> body, metadata |-> jurisdiction]

MCWords == [w \in {"H1", "H2", "H3", "long", "other", "more", "brief"} |->
              IF w \in {"H1", "H2", "H3"} THEN 1 ELSE IF w = "brief" THEN 1 ELSE 3]

First1 == {File("A", 1, "eu", NoFilter, <<Section("H1", <<"long">>), Section("H2", <<"other">>)>>)}
Moved  == {File("A", 1, "us", NoFilter, <<Section("H3", <<"more">>), Section("H1", <<"long">>)>>)}
Second == {File("A", 2, "eu", "high",
             <<[heading |-> NoHeading, text |-> <<"brief">>, parts |-> <<>>],
               Section("H1", <<"brief">>),
               [heading |-> "H2", text |-> <<"brief">>,
                parts |-> <<[heading |-> "H3", text |-> <<"long", "other">>]>>]>>)}
Unreadable == {[f EXCEPT !.readable = FALSE] : f \in First1}
Codes  == {File("B", 1, "us", NoFilter, <<Section("H1", <<"long">>)>>)}

MCCorpora == {rules, codes}
MCInitial == [c \in MCCorpora |-> IF c = rules THEN First1 ELSE Codes]
MCDirectories == [c \in MCCorpora |-> IF c = rules THEN {Moved, Second, Unreadable} ELSE {Codes}]
MCBinding == <<[corpus |-> rules, tier |-> 2, jurisdictions |-> {}],
               [corpus |-> codes, tier |-> 1, jurisdictions |-> {"us"}]>>
MCQueries == {[jurisdictions |-> {}, risk_tier |-> NoFilter],
              [jurisdictions |-> {"eu"}, risk_tier |-> "high"]}
=============================================================================
