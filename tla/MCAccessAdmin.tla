----------------------------- MODULE MCAccessAdmin -----------------------------
(* Access administration on small instances.                               *)
EXTENDS AccessAdmin, TLC

\* "speak" is a skill and a category, as in the code's taxonomy, so that a
\* scope can be mistaken for one of the other kind.
MCSkills == {"speak", "move", "wait"}
MCCategories == {"speak"}
MCSeed == [n \in {"admin", "guest"} |-> IF n = "admin" THEN {Wildcard} ELSE {}]

\* Lists with a skill in common, and two without.
MCLists == {{"wait", "speak"}, {"move", "speak"}, {"move"}}
MCGrants == {{"move"}, {"speak", Wildcard}}

\* A policy in full, and patches of one field or two that are a scope.
Whole == [gives |-> Fields, kind |-> "skills", values |-> {"speak"}, roles |-> {"guest"},
          enabled |-> TRUE]
Only(fields) == [Whole EXCEPT !.gives = fields]

MCBodies == {
    Whole,
    [Only({"kind", "values"}) EXCEPT !.kind = "all", !.values = {}],
    [Only({"kind"}) EXCEPT !.kind = "categories"],
    [Only({"values"}) EXCEPT !.values = {"move"}],
    [Only({"enabled"}) EXCEPT !.enabled = FALSE]}

Symmetry == Permutations(Requests)
=============================================================================
