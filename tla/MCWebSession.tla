------------------------------ MODULE MCWebSession ------------------------------
(* Accounts and sessions on small instances.                               *)
EXTENDS WebSession, TLC

\* Two addresses of one handle.
MCHandle == [e \in Emails |-> "ann"]

MCAsked == {<<"ann", 2>>}

Symmetry == Permutations(Slots) \cup Permutations(Tabs)
=============================================================================
