------------------------------ MODULE AccessAdmin ------------------------------
(***************************************************************************)
(* Administering access: the catalogue of the robot's skills               *)
(* (packages/api/src/mcp_tools/service.py), the roles' permissions         *)
(* (roles/service.py) and the deny policies (policies/service.py).  Each   *)
(* request validates names against tables that others change while it      *)
(* awaits, and then writes.                                                *)
(*                                                                         *)
(* A handler is cut at its awaits.  Each SELECT sees what is committed at  *)
(* that moment; a flush and its COMMIT are one await.  The ORM writes the  *)
(* columns whose value differs from the one it loaded, no others.  Whether *)
(* users still hold a role is left to chance.                              *)
(***************************************************************************)
EXTENDS Naturals

CONSTANTS
    Requests,
    Skills, Categories, RoleNames,
    Policies,       \* names of policies; a request finds the row of its name
    Wildcard,       \* the permission that grants every skill
    Seed,           \* Seed[n]: the permissions that start-up gives role n
    Lists,          \* bound: the names the robot may list as its tools
    Grants,         \* bound: permission lists in requests about roles
    Bodies,         \* bound: bodies of requests about policies
    Old,            \* the policy there was before
    Nothing,        \* no row, no job
    MaxRestarts     \* bound: restarts of the broker

Identities == Requests \cup {Old}
Kinds == {"all", "categories", "skills"}
Fields == {"kind", "values", "roles", "enabled"}

\* A policy.  What it denies when is left out; enabled stands for the fields
\* that nothing validates.
Row == [id : Identities, kind : Kinds, values : SUBSET (Skills \cup Categories),
        roles : SUBSET RoleNames, enabled : BOOLEAN]

\* The body of a request gives some of the fields.
Body == [gives : SUBSET Fields, kind : Kinds, values : SUBSET (Skills \cup Categories),
         roles : SUBSET RoleNames, enabled : BOOLEAN]

Permissions == SUBSET (Skills \cup {Wildcard})

Jobs ==
    [kind : {"sync"}]
        \cup [kind : {"create_role", "patch_role"}, role : RoleNames, grants : Grants]
        \cup [kind : {"delete_role"}, role : RoleNames]
        \cup [kind : {"create_policy", "patch_policy"}, policy : Policies, body : Bodies]
        \cup [kind : {"delete_policy"}, policy : Policies]

ASSUME NamesDiffer ==
    /\ Nothing \notin Row /\ Nothing \notin Jobs
    /\ Old \notin Requests
    /\ Nothing \notin Requests
    /\ Wildcard \notin Skills
ASSUME InputsAreTyped ==
    /\ Lists \subseteq SUBSET Skills
    /\ Grants \subseteq Permissions
    /\ Bodies \subseteq Body
    /\ DOMAIN Seed \subseteq RoleNames
    /\ \A n \in DOMAIN Seed : Seed[n] \in Permissions
ASSUME RestartsAreNat == MaxRestarts \in Nat

VARIABLES
    catalogue,  \* the skills in mcp_tools
    roles,      \* roles[n]: the permissions of role n, for the roles there are
    policy,     \* policy[p]: the row of that name
    at,         \* at[r]: where request r is
    job,        \* job[r]: what it asks for
    loaded,     \* loaded[r]: the permissions it loaded
    read,       \* read[r]: the policy it loaded
    list,       \* list[r]: the tools it writes, and those it removes
    last,       \* history: the sync that was committed last
    beside,     \* history: beside[r]: the syncs committed after r had looked
                \* for what to remove, and before r was
    knew,       \* history: skills and roles there were since r arrived
    stale,      \* history: the policy was patched over a row that was not
                \* the one the patch was validated against
    restarts

tables == <<catalogue, roles, policy>>
history == <<knew, stale, last, beside>>
locals == <<loaded, read, list>>
vars == <<tables, at, job, locals, history, restarts>>

OnRoles == {"create_role", "patch_role"}
OnPolicies == {"create_policy", "patch_policy"}
Ends == {"answered", "refused", "failed", "dead"}
Writing == {"write_role", "insert", "update"}
Steps == {"list", "replace", "delete", "lock", "sync", "read_role", "read_policy", "skills", "roles",
          "refresh", "delete_role", "delete_policy"} \cup Writing

TypeOK ==
    /\ catalogue \in SUBSET Skills
    /\ DOMAIN roles \in SUBSET RoleNames
    /\ \A n \in DOMAIN roles : roles[n] \in Permissions
    /\ policy \in [Policies -> Row \cup {Nothing}]
    /\ at \in [Requests -> {"new"} \cup Steps \cup Ends]
    /\ job \in [Requests -> Jobs \cup {Nothing}]
    /\ loaded \in [Requests -> Permissions]
    /\ read \in [Requests -> Row \cup {Nothing}]
    /\ list \in [Requests -> [new : SUBSET Skills, gone : SUBSET Skills]]
    /\ knew \in [Requests -> SUBSET (Skills \cup RoleNames)]
    /\ stale \in [Policies -> BOOLEAN]
    /\ last \in Requests \cup {Nothing}
    /\ beside \in [Requests -> SUBSET Requests]
    /\ restarts \in 0..MaxRestarts
    /\ \A r \in Requests :
         /\ at[r] # "new" => job[r] # Nothing
         /\ at[r] = "update" => read[r] # Nothing

Roles == DOMAIN roles

-----------------------------------------------------------------------------
\* What the validation of scopes demands without looking anything up.
Scoped(row) ==
    /\ row.kind = "all" <=> row.values = {}
    /\ row.kind = "categories" => row.values \subseteq Categories

Init ==
    /\ catalogue \in Lists \cup {{}}
    /\ roles = Seed
    /\ policy \in [Policies -> {Nothing} \cup
                     {row \in Row :
                        /\ row.id = Old
                        /\ Scoped(row)
                        /\ row.kind = "skills" => row.values \subseteq catalogue
                        /\ row.roles \subseteq DOMAIN Seed}]
    /\ at = [r \in Requests |-> "new"]
    /\ job = [r \in Requests |-> Nothing]
    /\ loaded = [r \in Requests |-> {}]
    /\ read = [r \in Requests |-> Nothing]
    /\ list = [r \in Requests |-> [new |-> {}, gone |-> {}]]
    /\ knew = [r \in Requests |-> {}]
    /\ stale = [p \in Policies |-> FALSE]
    /\ last = Nothing
    /\ beside = [r \in Requests |-> {}]
    /\ restarts = 0

Goes(r, from, to) ==
    /\ at[r] = from
    /\ at' = [at EXCEPT ![r] = to]

InProgress(r) == at[r] \in Steps

\* What each request in progress has had a chance to see.
Witness(skills, names) ==
    knew' = [r \in Requests |->
               IF InProgress(r) THEN knew[r] \cup skills \cup names ELSE knew[r]]

\* POST is validated as it arrives: everything is given, and is a scope.
Full(body) ==
    /\ body.gives = Fields
    /\ body.kind = "all" <=> body.values = {}

FirstStep(kind) ==
    IF kind = "sync" THEN "list"
    ELSE IF kind \in OnRoles THEN "read_role"
    ELSE IF kind \in OnPolicies THEN "read_policy"
    ELSE kind

Arrive(r) ==
    /\ \E j \in Jobs :
         /\ j.kind = "create_policy" => Full(j.body)
         /\ job' = [job EXCEPT ![r] = j]
         /\ Goes(r, "new", FirstStep(j.kind))
    /\ knew' = [knew EXCEPT ![r] = catalogue \cup Roles]
    /\ UNCHANGED <<tables, locals, stale, last, beside, restarts>>

Quiet == UNCHANGED <<job, restarts>>

-----------------------------------------------------------------------------
\* sync_from_mcp asks the robot.  An empty list leaves the catalogue alone; of
\* another one the tools without a usable name are skipped, be it all of them.
ListTools(r) ==
    /\ \/ \E tools \in Lists \cup {{}} :
            /\ Goes(r, "list", "replace")
            /\ list' = [list EXCEPT ![r].new = tools]
       \/ /\ Goes(r, "list", "answered")
          /\ UNCHANGED list
    /\ UNCHANGED <<tables, loaded, read, history>> /\ Quiet

\* The rows that a sync has written and not committed.
Written(s) ==
    IF at[s] = "sync" THEN list[s].new \cup list[s].gone
    ELSE IF at[s] \in {"delete", "lock"} THEN list[s].new
    ELSE {}

\* The upserts wait for a sync that has written one of their rows.
UpsertTools(r) ==
    /\ Goes(r, "replace", "delete")
    /\ \A s \in Requests \ {r} : Written(s) \cap list[r].new = {}
    /\ UNCHANGED <<tables, locals, history>> /\ Quiet

\* The DELETE of what was not listed sees the rows that are committed as it
\* starts, ...
DeleteTools(r) ==
    /\ Goes(r, "delete", "lock")
    /\ list' = [list EXCEPT ![r].gone = catalogue \ list[r].new]
    /\ UNCHANGED <<tables, loaded, read, history>> /\ Quiet

\* ... waits for a sync that has written one of them, and skips those which
\* that one has removed.
LockTools(r) ==
    /\ Goes(r, "lock", "sync")
    /\ \A s \in Requests \ {r} : Written(s) \cap list[r].gone = {}
    /\ UNCHANGED <<tables, locals, history>> /\ Quiet

\* Whoever is deleting meanwhile does not see what r has added.
Commits(r) ==
    /\ Goes(r, "sync", "answered")
    /\ list' = [s \in Requests |->
                  IF s = r THEN list[s] ELSE [list[s] EXCEPT !.gone = @ \ list[r].gone]]
    /\ last' = r
    /\ beside' = [s \in Requests |->
                    IF s # r /\ at[s] \in {"lock", "sync"} THEN beside[s] \cup {r} ELSE beside[s]]
    /\ Witness(catalogue', Roles)
    /\ UNCHANGED <<roles, policy, loaded, read, stale>> /\ Quiet

\* Mutant: what the robot no longer lists stays.
KeepTools(r) ==
    /\ catalogue' = catalogue \cup list[r].new
    /\ Commits(r)

CommitSync(r) ==
    /\ catalogue' = (catalogue \ list[r].gone) \cup list[r].new
    /\ Commits(r)

-----------------------------------------------------------------------------
\* The columns of a policy, those in fields from one row, the rest from another.
Merged(fields, new, row) ==
    [f \in Fields \cup {"id"} |-> IF f \in fields THEN new[f] ELSE row[f]]

Patched(body, row) == Merged(body.gives, body, row)

Creates(r) == job[r].kind \in {"create_role", "create_policy"}

\* The row that r means to write, as its handler computes it from what it read.
Planned(r, row) == Patched(job[r].body, IF Creates(r) THEN [id |-> r] ELSE row)

Target(r) == Planned(r, read[r])

NamedSkills(r) ==
    IF job[r].kind \in OnRoles
    THEN job[r].grants \ {Wildcard}
    ELSE IF Target(r).kind = "skills" THEN Target(r).values ELSE {}

NamedRoles(r) == IF job[r].kind \in OnRoles THEN {} ELSE Target(r).roles

\* A creation refuses a name that is taken, a patch one that is not there.
ReadRole(r) ==
    /\ Goes(r, "read_role",
            IF (job[r].role \in Roles) # Creates(r) THEN "skills" ELSE "refused")
    /\ loaded' = [loaded EXCEPT ![r] = IF job[r].role \in Roles THEN roles[job[r].role] ELSE {}]
    /\ UNCHANGED <<tables, read, list, history>> /\ Quiet

\* Mutant: each field is validated by itself.
ReadPolicyByField(r) ==
    /\ at[r] = "read_policy"
    /\ LET row == policy[job[r].policy]
       IN  /\ Goes(r, "read_policy",
                   IF (row # Nothing) # Creates(r) THEN "skills" ELSE "refused")
           /\ read' = [read EXCEPT ![r] = row]
    /\ UNCHANGED <<tables, loaded, list, history>> /\ Quiet

\* The scope as it would be is validated as a unit; the look-ups of skills
\* and of roles follow.
ReadPolicy(r) ==
    /\ at[r] = "read_policy"
    /\ LET row == policy[job[r].policy]
       IN  /\ Goes(r, "read_policy",
                   IF (row # Nothing) = Creates(r) THEN "refused"
                   ELSE IF Scoped(Planned(r, row)) THEN "skills" ELSE "refused")
           /\ read' = [read EXCEPT ![r] = row]
    /\ UNCHANGED <<tables, loaded, list, history>> /\ Quiet

\* Mutant: nobody looks whether the skills exist.
CheckNoSkills(r) ==
    /\ Goes(r, "skills", IF job[r].kind \in OnRoles THEN "write_role" ELSE "roles")
    /\ UNCHANGED <<tables, locals, history>> /\ Quiet

CheckSkills(r) ==
    /\ Goes(r, "skills",
            IF ~(NamedSkills(r) \subseteq catalogue) THEN "refused"
            ELSE IF job[r].kind \in OnRoles THEN "write_role" ELSE "roles")
    /\ UNCHANGED <<tables, locals, history>> /\ Quiet

\* Mutant: a creation is written like a patch.
CheckRolesForUpdate(r) ==
    /\ Goes(r, "roles", IF NamedRoles(r) \subseteq Roles THEN "update" ELSE "refused")
    /\ UNCHANGED <<tables, locals, history>> /\ Quiet

CheckRoles(r) ==
    /\ Goes(r, "roles",
            IF ~(NamedRoles(r) \subseteq Roles) THEN "refused"
            ELSE IF Creates(r) THEN "insert" ELSE "update")
    /\ UNCHANGED <<tables, locals, history>> /\ Quiet

\* INSERT, or UPDATE if the list differs from the one loaded.  The key may
\* have been taken, or the row deleted, meanwhile.
CommitRole(r) ==
    LET n == job[r].role
        writes == Creates(r) \/ job[r].grants # loaded[r]
    IN  /\ at[r] = "write_role"
        /\ IF writes /\ (n \in Roles) = Creates(r)
           THEN /\ Goes(r, "write_role", "failed")
                /\ UNCHANGED roles
           ELSE /\ Goes(r, "write_role", "refresh")
                /\ roles' = IF writes
                            THEN [m \in Roles \cup {n} |-> IF m = n THEN job[r].grants ELSE roles[m]]
                            ELSE roles
        /\ Witness(catalogue, DOMAIN roles')
        /\ UNCHANGED <<catalogue, policy, locals, stale, last, beside>> /\ Quiet

InsertPolicy(r) ==
    /\ at[r] = "insert"
    /\ IF policy[job[r].policy] = Nothing
       THEN /\ Goes(r, "insert", "refresh")
            /\ policy' = [policy EXCEPT ![job[r].policy] = Target(r)]
            /\ stale' = [stale EXCEPT ![job[r].policy] = FALSE]
       ELSE /\ Goes(r, "insert", "failed")
            /\ UNCHANGED <<policy, stale>>
    /\ UNCHANGED <<catalogue, roles, locals, knew, last, beside>> /\ Quiet

Changed(r) == {f \in Fields : Target(r)[f] # read[r][f]}

\* Mutant: every column that was computed is written.
UpdateAllColumns(r) ==
    /\ at[r] = "update"
    /\ LET p == job[r].policy
       IN  /\ policy[p] # Nothing
           /\ Goes(r, "update", "refresh")
           /\ policy' = [policy EXCEPT ![p] = [Target(r) EXCEPT !.id = policy[p].id]]
           /\ stale' = [stale EXCEPT ![p] = @ \/ policy[p] # read[r]]
    /\ UNCHANGED <<catalogue, roles, locals, knew, last, beside>> /\ Quiet

\* The UPDATE of the row that was read writes the columns that differ; with
\* none that do there is no UPDATE.
UpdatePolicy(r) ==
    LET p == job[r].policy
        row == policy[p]
    IN  /\ at[r] = "update"
        /\ IF Changed(r) = {}
           THEN /\ Goes(r, "update", "refresh")
                /\ UNCHANGED <<policy, stale>>
           ELSE IF row # Nothing /\ row.id = read[r].id
           THEN /\ Goes(r, "update", "refresh")
                /\ policy' = [policy EXCEPT ![p] = Merged(Changed(r), Target(r), row)]
                /\ stale' = [stale EXCEPT ![p] = @ \/ row # read[r]]
           ELSE /\ Goes(r, "update", "failed")
                /\ UNCHANGED <<policy, stale>>
        /\ UNCHANGED <<catalogue, roles, locals, knew, last, beside>> /\ Quiet

\* The row is read once more, and may be gone.
Refresh(r) ==
    /\ at[r] = "refresh"
    /\ LET found == IF job[r].kind \in OnRoles
                    THEN job[r].role \in Roles
                    ELSE /\ policy[job[r].policy] # Nothing
                         /\ policy[job[r].policy].id = Target(r).id
       IN  Goes(r, "refresh", IF found THEN "answered" ELSE "failed")
    /\ UNCHANGED <<tables, locals, history>> /\ Quiet

\* A role that a user holds is not deleted; no policy prevents it.
DeleteRole(r) ==
    /\ at[r] = "delete_role"
    /\ \/ /\ Goes(r, "delete_role", IF job[r].role \in Roles THEN "answered" ELSE "refused")
          /\ roles' = [n \in Roles \ {job[r].role} |-> roles[n]]
       \/ /\ job[r].role \in Roles
          /\ Goes(r, "delete_role", "refused")
          /\ UNCHANGED roles
    /\ UNCHANGED <<catalogue, policy, locals, history>> /\ Quiet

DeletePolicy(r) ==
    /\ at[r] = "delete_policy"
    /\ Goes(r, "delete_policy",
            IF policy[job[r].policy] # Nothing THEN "answered" ELSE "refused")
    /\ policy' = [policy EXCEPT ![job[r].policy] = Nothing]
    /\ UNCHANGED <<catalogue, roles, locals, history>> /\ Quiet

-----------------------------------------------------------------------------
\* An await raises, and the transaction is rolled back.
Fails(r) ==
    /\ InProgress(r)
    /\ at' = [at EXCEPT ![r] = "failed"]
    /\ UNCHANGED <<tables, locals, history>> /\ Quiet

\* The broker restarts and writes the seed roles again.
Restart ==
    /\ restarts < MaxRestarts
    /\ restarts' = restarts + 1
    /\ at' = [r \in Requests |-> IF InProgress(r) THEN "dead" ELSE at[r]]
    /\ roles' = [n \in Roles \cup DOMAIN Seed |-> IF n \in DOMAIN Seed THEN Seed[n] ELSE roles[n]]
    /\ UNCHANGED <<catalogue, policy, job, locals, history>>

Step(r) ==
    \/ Arrive(r)
    \/ ListTools(r) \/ UpsertTools(r) \/ DeleteTools(r) \/ LockTools(r) \/ CommitSync(r)
    \/ ReadRole(r) \/ ReadPolicy(r) \/ CheckSkills(r) \/ CheckRoles(r)
    \/ CommitRole(r) \/ InsertPolicy(r) \/ UpdatePolicy(r) \/ Refresh(r)
    \/ DeleteRole(r) \/ DeletePolicy(r)

Next ==
    \/ \E r \in Requests : Step(r) \/ Fails(r)
    \/ Restart

Spec == Init /\ [][Next]_vars

-----------------------------------------------------------------------------
\* sync_from_mcp replaces the snapshot: whatever syncs overlap, fail or die, the
\* catalogue has all that the last sync listed.  What else is in it comes from
\* syncs that were committed while that one was deleting and whose lists had
\* nothing in common with its own: one common tool, and the catalogue is the
\* list of one sync.
CatalogueFollowsLastSync ==
    last # Nothing =>
        /\ list[last].new \subseteq catalogue
        /\ \A x \in catalogue \ list[last].new :
             \E q \in beside[last] :
                x \in list[q].new /\ list[q].new \cap list[last].new = {}

\* update_policy validates the scope as a coherent unit, and a policy is
\* incoherent (it denies nothing, or everything) only after patches that
\* overlapped: one was validated against a row that another has changed.
PoliciesAreCoherent ==
    \A p \in Policies : policy[p] # Nothing /\ ~stale[p] => Scoped(policy[p])

\* What a request writes into a role or a policy names skills and roles that
\* were there at some moment since it arrived, though they may be gone.
ReferencesWereKnown ==
    [][\A r \in Requests :
          at[r] \in Writing /\ at'[r] = "refresh" =>
             NamedSkills(r) \cup NamedRoles(r) \subseteq knew[r]]_vars

\* PolicyPatch: only provided fields are updated.  A step that changes a field
\* of a policy is a patch that provides it, also when patches overlap.
PatchesKeepOtherFields ==
    [][\A p \in Policies : \A f \in Fields :
          /\ policy[p] # Nothing /\ policy'[p] # Nothing
          /\ policy[p].id = policy'[p].id
          /\ policy[p][f] # policy'[p][f]
          => \E r \in Requests :
                /\ at[r] = "update" /\ at'[r] = "refresh"
                /\ job[r].policy = p
                /\ f \in job[r].body.gives]_vars
=============================================================================
