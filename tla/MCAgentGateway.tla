---------------------------- MODULE MCAgentGateway ----------------------------
(* The agent gateway on small instances.                                   *)
EXTENDS AgentGateway, TLC

\* Two people with different roles, so that a mix-up of users shows both in
\* the name and in what the role permits.
MCAccounts == {[user |-> "ana", role |-> "operator"],
               [user |-> "bo", role |-> "guest"]}

\* One person is enough to ask whether turns end and in which order.
MCOneAccount == {[user |-> "ana", role |-> "operator"]}

MCSkills == {"move", "wait"}
MCOneSkill == {"move"}
MCAlwaysAllowed == {"wait"}

\* Both are seed roles; the operator starts with a permission, the guest
\* with none.
MCSeedRoles == {account.role : account \in MCAccounts}
MCOneSeedRole == {"operator"}
MCSeedGrants == {<<"operator", "move">>}

\* Requests of a kind, and calls, are interchangeable.
Symmetry == Permutations(ChatRequests) \cup Permutations(Calls)
=============================================================================
