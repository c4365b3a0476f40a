-------------------------------- MODULE MCConsole --------------------------------
(* The pages of the console on small instances.                            *)
EXTENDS Console

\* Two skills of one category, one of none, and one that is always allowed.
MCCategoryOf == [s \in Skills |-> IF s \in {"walk", "turn"} THEN "move" ELSE None]
=============================================================================
