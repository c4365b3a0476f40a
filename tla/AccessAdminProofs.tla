--------------------------- MODULE AccessAdminProofs ---------------------------
(***************************************************************************)
(* What holds of the administration of access for every set of requests,   *)
(* skills, roles and policies, whatever the requests ask for, and for any  *)
(* number of failures and restarts.                                        *)
(***************************************************************************)
EXTENDS AccessAdmin, TLAPS

\* Each handler keeps to its own steps, and a validated creation to INSERT.
StepsFitJobs ==
    \A r \in Requests :
        /\ at[r] \in {"read_role", "write_role"} => job[r].kind \in OnRoles
        /\ at[r] \in {"read_policy", "roles", "insert", "update"} => job[r].kind \in OnPolicies
        /\ at[r] \in {"skills", "refresh"} => job[r].kind \in OnRoles \cup OnPolicies
        /\ at[r] = "delete_role" => job[r].kind = "delete_role"
        /\ at[r] = "delete_policy" => job[r].kind = "delete_policy"
        /\ at[r] = "insert" => Creates(r)
        /\ at[r] = "update" => ~Creates(r)

\* A sync that has written its list shares no tool with another one that has.
Upserted == {"delete", "lock", "sync"}

SyncsAreApart ==
    \A r, s \in Requests :
        r # s /\ at[r] \in Upserted /\ at[s] \in Upserted => list[r].new \cap list[s].new = {}

\* What a sync that is deleting neither lists nor removes was committed beside
\* it.
DeletesCoverCatalogue ==
    \A r \in Requests : at[r] \in {"lock", "sync"} =>
        \A x \in catalogue :
            x \in list[r].new \cup list[r].gone \/ \E q \in beside[r] : x \in list[q].new

\* Who was committed beside a sync is done, and had another list.
HistoriesAgree ==
    /\ \A r \in Requests : \A q \in beside[r] :
         at[q] \in Ends /\ list[q].new \cap list[r].new = {}
    /\ \A r \in Requests : beside[r] # {} => at[r] \in {"lock", "sync"} \cup Ends
    /\ last # Nothing => at[last] \in Ends

SyncsInv ==
    /\ SyncsAreApart
    /\ DeletesCoverCatalogue
    /\ HistoriesAgree
    /\ CatalogueFollowsLastSync

\* A policy request that has computed its row: what it computed is a scope.
Validated(r) ==
    /\ at[r] \in {"skills", "roles", "insert", "update", "refresh"}
    /\ job[r].kind \in OnPolicies

TargetsAreScoped ==
    \A r \in Requests :
        /\ job[r] # Nothing /\ job[r].kind = "create_policy" => job[r].body.gives = Fields
        /\ Validated(r) => /\ Scoped(Target(r))
                           /\ job[r].kind = "patch_policy" => read[r] # Nothing

\* A request has seen what is there, and what it has looked up.
LookedUp ==
    \A r \in Requests :
        /\ InProgress(r) => catalogue \cup Roles \subseteq knew[r]
        /\ at[r] \in {"write_role", "roles", "insert", "update"} => NamedSkills(r) \subseteq knew[r]
        /\ at[r] \in {"insert", "update"} => NamedRoles(r) \subseteq knew[r]

AccessInv ==
    /\ TypeOK
    /\ StepsFitJobs
    /\ SyncsInv
    /\ TargetsAreScoped
    /\ PoliciesAreCoherent
    /\ LookedUp

-----------------------------------------------------------------------------
\* Jobs and rows.

LEMMA JobFields ==
    ASSUME NEW j \in Jobs
    PROVE  /\ j.kind = "sync" \/ j.kind \in OnRoles \cup OnPolicies \cup {"delete_role", "delete_policy"}
           /\ j.kind \in OnRoles => j.role \in RoleNames /\ j.grants \in Permissions
           /\ j.kind = "delete_role" => j.role \in RoleNames
           /\ j.kind \in OnPolicies => j.policy \in Policies /\ j.body \in Body
           /\ j.kind = "delete_policy" => j.policy \in Policies
  BY InputsAreTyped DEF Jobs, OnRoles, OnPolicies

LEMMA MergedRow ==
    ASSUME NEW fields \in SUBSET Fields, NEW new \in Row, NEW row \in Row
    PROVE  Merged(fields, new, row) \in Row
  BY DEF Merged, Fields, Row

LEMMA PatchedRow ==
    ASSUME NEW body \in Body, NEW row \in Row
    PROVE  Patched(body, row) \in Row
  BY DEF Patched, Merged, Fields, Body, Row

LEMMA CreatedRow ==
    ASSUME NEW body \in Body, body.gives = Fields, NEW r \in Requests
    PROVE  Patched(body, [id |-> r]) \in Row
  BY DEF Patched, Merged, Fields, Body, Row, Identities

\* What a request about a policy computed is a row.
LEMMA TargetRow ==
    ASSUME TypeOK, TargetsAreScoped, NEW r \in Requests, Validated(r)
    PROVE  Target(r) \in Row
  <1>1. job[r] \in Jobs /\ job[r].kind \in OnPolicies /\ job[r] # Nothing
    BY DEF TypeOK, Validated
  <1>2. job[r].body \in Body
    BY <1>1, JobFields
  <1>3. CASE Creates(r)
    <2>1. job[r].kind = "create_policy"
      BY <1>1, <1>3 DEF Creates, OnPolicies
    <2>2. job[r].body.gives = Fields
      BY <1>1, <2>1 DEF TargetsAreScoped
    <2> QED
      BY <1>2, <1>3, <2>2, CreatedRow DEF Target, Planned
  <1>4. CASE ~Creates(r)
    <2>1. job[r].kind = "patch_policy"
      BY <1>1, <1>4 DEF Creates, OnPolicies
    <2>2. read[r] \in Row
      BY <2>1 DEF TargetsAreScoped, TypeOK
    <2> QED
      BY <1>2, <1>4, <2>2, PatchedRow DEF Target, Planned
  <1>5. QED
    BY <1>3, <1>4

-----------------------------------------------------------------------------
LEMMA InitAccessInv == Init => AccessInv
  <1> SUFFICES ASSUME Init PROVE AccessInv
    OBVIOUS
  <1>1. TypeOK
    <2>1. policy \in [Policies -> Row \cup {Nothing}]
      BY DEF Init
    <2>2. /\ catalogue \in SUBSET Skills
          /\ DOMAIN roles \in SUBSET RoleNames
          /\ \A n \in DOMAIN roles : roles[n] \in Permissions
      BY InputsAreTyped DEF Init
    <2>3. /\ at \in [Requests -> {"new"} \cup Steps \cup Ends]
          /\ job \in [Requests -> Jobs \cup {Nothing}]
          /\ loaded \in [Requests -> Permissions]
          /\ read \in [Requests -> Row \cup {Nothing}]
      BY DEF Init, Permissions
    <2>4. /\ list \in [Requests -> [new : SUBSET Skills, gone : SUBSET Skills]]
          /\ knew \in [Requests -> SUBSET (Skills \cup RoleNames)]
          /\ stale \in [Policies -> BOOLEAN]
          /\ last \in Requests \cup {Nothing} /\ beside \in [Requests -> SUBSET Requests]
          /\ restarts \in 0..MaxRestarts
      BY RestartsAreNat DEF Init
    <2>5. at = [r \in Requests |-> "new"]
      BY DEF Init
    <2> QED
      BY <2>1, <2>2, <2>3, <2>4, <2>5 DEF TypeOK
  <1>2. PoliciesAreCoherent
    BY DEF Init, PoliciesAreCoherent
  <1>3. StepsFitJobs /\ SyncsInv
    BY DEF Init, StepsFitJobs, SyncsInv, SyncsAreApart, DeletesCoverCatalogue, HistoriesAgree,
       CatalogueFollowsLastSync, Upserted
  <1>4. TargetsAreScoped /\ LookedUp
    BY DEF Init, TargetsAreScoped, Validated, LookedUp, InProgress, Steps, Writing
  <1>5. QED
    BY <1>1, <1>2, <1>3, <1>4 DEF AccessInv

\* A step of a handler moves its request on, and leaves what the others have
\* read and are about alone.
LEMMA StepsMoveOne ==
    ASSUME TypeOK, NEW r \in Requests, Step(r) \/ Fails(r)
    PROVE  /\ at[r] \in {"new"} \cup Steps
           /\ \E to \in Steps \cup Ends : at' = [at EXCEPT ![r] = to]
           /\ at[r] # "new" => UNCHANGED job
           /\ \E j \in Jobs : job' = [job EXCEPT ![r] = j] \/ UNCHANGED job
           /\ \A s \in Requests \ {r} : read'[s] = read[s]
           /\ UNCHANGED restarts
           /\ at[r] = "new" => Arrive(r)
  <1> USE DEF Goes, Quiet, Steps, Ends, Writing, TypeOK, locals, tables, history
  <1>1. CASE Arrive(r)
    <2> PICK j \in Jobs : /\ job' = [job EXCEPT ![r] = j]
                          /\ Goes(r, "new", FirstStep(j.kind))
      BY <1>1 DEF Arrive
    <2>1. FirstStep(j.kind) \in Steps
      BY JobFields DEF FirstStep
    <2> QED
      BY <1>1, <2>1 DEF Arrive
  <1>2. CASE ListTools(r)
    BY <1>2 DEF ListTools
  <1>13. CASE UpsertTools(r) \/ LockTools(r)
    BY <1>13 DEF UpsertTools, LockTools
  <1>14. CASE DeleteTools(r)
    BY <1>14 DEF DeleteTools
  <1>15. CASE CommitSync(r)
    BY <1>15 DEF CommitSync, Commits
  <1>3. CASE ReadRole(r)
    BY <1>3 DEF ReadRole
  <1>4. CASE ReadPolicy(r)
    BY <1>4 DEF ReadPolicy
  <1>5. CASE CheckSkills(r) \/ CheckRoles(r)
    BY <1>5 DEF CheckSkills, CheckRoles
  <1>6. CASE CommitRole(r)
    BY <1>6 DEF CommitRole
  <1>7. CASE InsertPolicy(r)
    BY <1>7 DEF InsertPolicy
  <1>8. CASE UpdatePolicy(r)
    BY <1>8 DEF UpdatePolicy
  <1>9. CASE Refresh(r)
    BY <1>9 DEF Refresh
  <1>10. CASE DeleteRole(r) \/ DeletePolicy(r)
    BY <1>10 DEF DeleteRole, DeletePolicy
  <1>11. CASE Fails(r)
    BY <1>11 DEF Fails, InProgress
  <1>12. QED
    BY <1>1, <1>2, <1>3, <1>4, <1>5, <1>6, <1>7, <1>8, <1>9, <1>10, <1>11, <1>13, <1>14, <1>15
    DEF Step

\* The action that a request's new place comes from.
LEMMA WhereFrom ==
    ASSUME TypeOK, NEW r \in Requests, Step(r) \/ Fails(r)
    PROVE  /\ at'[r] # "new"
           /\ at'[r] = "replace" => ListTools(r)
           /\ at'[r] = "delete" => UpsertTools(r)
           /\ at'[r] = "lock" => DeleteTools(r)
           /\ at'[r] = "sync" => LockTools(r)
           /\ at'[r] = "skills" => ReadRole(r) \/ ReadPolicy(r)
           /\ at'[r] \in {"roles", "write_role"} => CheckSkills(r)
           /\ at'[r] \in {"insert", "update"} => CheckRoles(r)
           /\ at'[r] = "refresh" => CommitRole(r) \/ InsertPolicy(r) \/ UpdatePolicy(r)
           /\ at'[r] \in {"list", "read_role", "read_policy", "delete_role", "delete_policy"} => Arrive(r)
  <1> USE DEF Goes, TypeOK
  <1>1. CASE Arrive(r)
    <2>1. PICK j \in Jobs : Goes(r, "new", FirstStep(j.kind))
      BY <1>1 DEF Arrive
    <2>2. FirstStep(j.kind) \in {"list", "read_role", "read_policy", "delete_role", "delete_policy"}
      BY JobFields DEF FirstStep
    <2> QED
      BY <1>1, <2>1, <2>2
  <1>2. CASE ListTools(r)
    <2>1. at'[r] \in {"replace", "answered"}
      BY <1>2 DEF ListTools
    <2> QED
      BY <1>2, <2>1
  <1>11. CASE UpsertTools(r)
    BY <1>11 DEF UpsertTools
  <1>12. CASE DeleteTools(r)
    BY <1>12 DEF DeleteTools
  <1>10. CASE LockTools(r) \/ CommitSync(r)
    BY <1>10 DEF LockTools, CommitSync, Commits
  <1>3. CASE ReadRole(r)
    <2>1. at'[r] \in {"skills", "refused"}
      BY <1>3 DEF ReadRole
    <2> QED
      BY <1>3, <2>1
  <1>4. CASE ReadPolicy(r)
    <2>1. at'[r] \in {"skills", "refused"}
      BY <1>4 DEF ReadPolicy
    <2> QED
      BY <1>4, <2>1
  <1>5. CASE CheckSkills(r)
    <2>1. at'[r] \in {"roles", "write_role", "refused"}
      BY <1>5 DEF CheckSkills
    <2> QED
      BY <1>5, <2>1
  <1>6. CASE CheckRoles(r)
    <2>1. at'[r] \in {"insert", "update", "refused"}
      BY <1>6 DEF CheckRoles
    <2> QED
      BY <1>6, <2>1
  <1>7. CASE CommitRole(r) \/ InsertPolicy(r) \/ UpdatePolicy(r)
    <2>1. at'[r] \in {"refresh", "failed"}
      BY <1>7 DEF CommitRole, InsertPolicy, UpdatePolicy
    <2> QED
      BY <1>7, <2>1
  <1>8. CASE Refresh(r) \/ DeleteRole(r) \/ DeletePolicy(r) \/ Fails(r)
    <2>1. at'[r] \in Ends
      BY <1>8 DEF Refresh, DeleteRole, DeletePolicy, Fails, Ends
    <2> QED
      BY <2>1 DEF Ends
  <1>9. QED
    BY <1>1, <1>2, <1>3, <1>4, <1>5, <1>6, <1>7, <1>8, <1>10, <1>11, <1>12 DEF Step

LEMMA StepsAreTyped ==
    ASSUME AccessInv, NEW r \in Requests, Step(r) \/ Fails(r)
    PROVE  TypeOK'
  <1> USE DEF TypeOK, Goes, Quiet, locals, tables, history, Roles
  <1>a. TypeOK /\ StepsFitJobs /\ TargetsAreScoped
    BY DEF AccessInv
  <1>1. /\ at' \in [Requests -> {"new"} \cup Steps \cup Ends]
        /\ job' \in [Requests -> Jobs \cup {Nothing}]
        /\ restarts' \in 0..MaxRestarts
    <2>1. \E to \in Steps \cup Ends : at' = [at EXCEPT ![r] = to]
      BY <1>a, StepsMoveOne
    <2>2. \E j \in Jobs : job' = [job EXCEPT ![r] = j] \/ UNCHANGED job
      BY <1>a, StepsMoveOne
    <2>3. UNCHANGED restarts
      BY <1>a, StepsMoveOne
    <2>4. QED
      BY <1>a, <2>1, <2>2, <2>3
  <1>2. /\ catalogue' \in SUBSET Skills
        /\ list' \in [Requests -> [new : SUBSET Skills, gone : SUBSET Skills]]
    <2>1. CASE ListTools(r)
      <3>1. CASE UNCHANGED list
        BY <1>a, <2>1, <3>1 DEF ListTools
      <3>2. CASE ~UNCHANGED list
        <4>1. PICK tools \in Lists \cup {{}} : list' = [list EXCEPT ![r].new = tools]
          BY <2>1, <3>2 DEF ListTools
        <4>2. [list[r] EXCEPT !.new = tools] \in [new : SUBSET Skills, gone : SUBSET Skills]
          BY <1>a, InputsAreTyped
        <4> QED
          BY <1>a, <2>1, <4>1, <4>2 DEF ListTools
      <3> QED
        BY <3>1, <3>2
    <2>2. CASE DeleteTools(r)
      BY <1>a, <2>2 DEF DeleteTools
    <2>3. CASE CommitSync(r)
      BY <1>a, <2>3 DEF CommitSync, Commits
    <2>4. CASE UNCHANGED <<catalogue, list>>
      BY <1>a, <2>4
    <2>5. QED
      BY <2>1, <2>2, <2>3, <2>4
      DEF Step, Arrive, UpsertTools, LockTools, ReadRole, ReadPolicy, CheckSkills, CheckRoles,
          CommitRole, InsertPolicy, UpdatePolicy, Refresh, DeleteRole, DeletePolicy, Fails
  <1>3. /\ DOMAIN roles' \in SUBSET RoleNames
        /\ \A n \in DOMAIN roles' : roles'[n] \in Permissions
        /\ loaded' \in [Requests -> Permissions]
    <2>1. CASE ReadRole(r)
      <3>1. job[r].role \in Roles => roles[job[r].role] \in Permissions
        BY <1>a
      <3> QED
        BY <1>a, <2>1, <3>1 DEF ReadRole, Permissions
    <2>2. CASE CommitRole(r)
      <3>1. job[r] \in Jobs /\ job[r].kind \in OnRoles
        BY <1>a, <2>2 DEF CommitRole, StepsFitJobs
      <3>2. job[r].role \in RoleNames /\ job[r].grants \in Permissions
        BY <3>1, JobFields
      <3> QED
        BY <1>a, <2>2, <3>2 DEF CommitRole
    <2>3. CASE DeleteRole(r)
      BY <1>a, <2>3 DEF DeleteRole
    <2>4. CASE UNCHANGED <<roles, loaded>>
      BY <1>a, <2>4
    <2>5. QED
      BY <2>1, <2>2, <2>3, <2>4
      DEF Step, Arrive, ListTools, UpsertTools, DeleteTools, LockTools, CommitSync, Commits,
          ReadPolicy, CheckSkills, CheckRoles, InsertPolicy, UpdatePolicy, Refresh, DeletePolicy,
          Fails
  <1>8. last' \in Requests \cup {Nothing} /\ beside' \in [Requests -> SUBSET Requests]
    <2>1. CASE CommitSync(r)
      BY <1>a, <2>1 DEF CommitSync, Commits
    <2>2. CASE ~CommitSync(r)
      <3>1. UNCHANGED <<last, beside>>
        BY <2>2
        DEF Step, Arrive, ListTools, UpsertTools, DeleteTools, LockTools, ReadRole, ReadPolicy,
            CheckSkills, CheckRoles, CommitRole, InsertPolicy, UpdatePolicy, Refresh, DeleteRole,
            DeletePolicy, Fails
      <3> QED
        BY <1>a, <3>1
    <2> QED
      BY <2>1, <2>2
  <1>4. /\ policy' \in [Policies -> Row \cup {Nothing}]
        /\ stale' \in [Policies -> BOOLEAN]
        /\ read' \in [Requests -> Row \cup {Nothing}]
    <2>1. CASE ReadPolicy(r)
      <3>1. job[r] \in Jobs /\ job[r].kind \in OnPolicies
        BY <1>a, <2>1 DEF ReadPolicy, StepsFitJobs
      <3>2. policy[job[r].policy] \in Row \cup {Nothing}
        BY <1>a, <3>1, JobFields
      <3> QED
        BY <1>a, <2>1, <3>2 DEF ReadPolicy
    <2>2. CASE InsertPolicy(r)
      <3>1. Validated(r)
        BY <1>a, <2>2 DEF InsertPolicy, Validated, StepsFitJobs
      <3>2. Target(r) \in Row
        BY <1>a, <3>1, TargetRow
      <3> QED
        BY <1>a, <2>2, <3>2 DEF InsertPolicy
    <2>3. CASE UpdatePolicy(r)
      <3>1. Validated(r)
        BY <1>a, <2>3 DEF UpdatePolicy, Validated, StepsFitJobs
      <3>2. Target(r) \in Row
        BY <1>a, <3>1, TargetRow
      <3>3. policy[job[r].policy] \in Row =>
              Merged(Changed(r), Target(r), policy[job[r].policy]) \in Row
        BY <3>2, MergedRow DEF Changed
      <3>4. job[r].policy \in Policies
        BY <1>a, <3>1, JobFields DEF Validated
      <3> QED
        BY <1>a, <2>3, <3>3, <3>4 DEF UpdatePolicy
    <2>4. CASE DeletePolicy(r)
      BY <1>a, <2>4 DEF DeletePolicy
    <2>5. CASE UNCHANGED <<policy, stale, read>>
      BY <1>a, <2>5
    <2>6. QED
      BY <2>1, <2>2, <2>3, <2>4, <2>5
      DEF Step, Arrive, ListTools, UpsertTools, DeleteTools, LockTools, CommitSync, Commits,
          ReadRole, CheckSkills, CheckRoles, CommitRole, Refresh, DeleteRole, Fails
  <1>5. knew' \in [Requests -> SUBSET (Skills \cup RoleNames)]
    <2>1. CASE Arrive(r)
      BY <1>a, <2>1 DEF Arrive
    <2>2. CASE CommitSync(r)
      BY <1>a, <1>2, <2>2 DEF CommitSync, Commits, Witness
    <2>3. CASE CommitRole(r)
      BY <1>a, <1>3, <2>3 DEF CommitRole, Witness
    <2>4. CASE UNCHANGED knew
      BY <1>a, <2>4
    <2>5. QED
      BY <2>1, <2>2, <2>3, <2>4
      DEF Step, ListTools, UpsertTools, DeleteTools, LockTools, ReadRole, ReadPolicy, CheckSkills,
          CheckRoles, InsertPolicy, UpdatePolicy, Refresh, DeleteRole, DeletePolicy, Fails
  <1>6. ASSUME NEW s \in Requests
        PROVE  /\ at'[s] # "new" => job'[s] # Nothing
               /\ at'[s] = "update" => read'[s] # Nothing
    <2>1. CASE s # r
      BY <1>a, <2>1, StepsMoveOne
    <2>2. CASE s = r
      <3>1. job'[s] # Nothing
        <4>1. CASE Arrive(s)
          BY <1>a, <4>1, NamesDiffer DEF Arrive
        <4>2. CASE ~Arrive(s)
          <5>1. at[s] # "new" /\ UNCHANGED job
            BY <1>a, <2>2, <4>2, StepsMoveOne
          <5> QED
            BY <1>a, <5>1
        <4> QED
          BY <4>1, <4>2
      <3>2. at'[s] = "update" => read'[s] # Nothing
        <4> SUFFICES ASSUME at'[s] = "update" PROVE read'[s] # Nothing
          OBVIOUS
        <4>1. CheckRoles(s)
          BY <1>a, <2>2, WhereFrom
        <4>2. ~Creates(s) /\ at[s] = "roles" /\ UNCHANGED read
          BY <1>a, <4>1 DEF CheckRoles
        <4>3. Validated(s) /\ job[s].kind = "patch_policy"
          BY <1>a, <4>2 DEF StepsFitJobs, Validated, Creates, OnPolicies
        <4> QED
          BY <1>a, <4>2, <4>3 DEF TargetsAreScoped
      <3> QED
        BY <3>1, <3>2
    <2> QED
      BY <2>1, <2>2
  <1>7. QED
    BY <1>1, <1>2, <1>3, <1>4, <1>5, <1>6, <1>8

-----------------------------------------------------------------------------
\* A request keeps its job, and a request that is on has arrived before.
LEMMA JobsStay ==
    ASSUME TypeOK, NEW r \in Requests, Step(r) \/ Fails(r), NEW s \in Requests, ~Arrive(s) \/ s # r
    PROVE  job'[s] = job[s] /\ (Creates(s)' <=> Creates(s))
  <1>1. CASE s # r
    BY <1>1, StepsMoveOne DEF Creates, TypeOK
  <1>2. CASE s = r
    <2>1. UNCHANGED job
      BY <1>2
      DEF Step, ListTools, UpsertTools, DeleteTools, LockTools, CommitSync, Commits, ReadRole,
          ReadPolicy, CheckSkills, CheckRoles, CommitRole, InsertPolicy, UpdatePolicy, Refresh,
          DeleteRole, DeletePolicy, Fails, Quiet
    <2> QED
      BY <2>1 DEF Creates
  <1>3. QED
    BY <1>1, <1>2

LEMMA StepsFitJobsStep ==
    ASSUME AccessInv, NEW r \in Requests, Step(r) \/ Fails(r)
    PROVE  StepsFitJobs'
  <1>a. TypeOK /\ StepsFitJobs
    BY DEF AccessInv
  <1> SUFFICES ASSUME NEW s \in Requests
               PROVE  /\ at'[s] \in {"read_role", "write_role"} => job'[s].kind \in OnRoles
                      /\ at'[s] \in {"read_policy", "roles", "insert", "update"} => job'[s].kind \in OnPolicies
                      /\ at'[s] \in {"skills", "refresh"} => job'[s].kind \in OnRoles \cup OnPolicies
                      /\ at'[s] = "delete_role" => job'[s].kind = "delete_role"
                      /\ at'[s] = "delete_policy" => job'[s].kind = "delete_policy"
                      /\ at'[s] = "insert" => Creates(s)'
                      /\ at'[s] = "update" => ~Creates(s)'
    BY DEF StepsFitJobs
  <1>1. CASE s # r
    <2>1. at'[s] = at[s]
      BY <1>a, <1>1, StepsMoveOne DEF TypeOK
    <2> QED
      BY <1>a, <1>1, <2>1, JobsStay DEF StepsFitJobs
  <1>2. CASE s = r /\ Arrive(r)
    <2>1. PICK j \in Jobs : job' = [job EXCEPT ![r] = j] /\ at' = [at EXCEPT ![r] = FirstStep(j.kind)]
      BY <1>2 DEF Arrive, Goes
    <2>2. job'[s] = j /\ at'[s] = FirstStep(j.kind)
      BY <1>a, <1>2, <2>1 DEF TypeOK
    <2> QED
      BY <2>2, JobFields DEF FirstStep, OnRoles, OnPolicies
  <1>3. CASE s = r /\ ~Arrive(r)
    <2>1. job'[s] = job[s] /\ (Creates(s)' <=> Creates(s))
      BY <1>a, <1>3, JobsStay
    <2>2. at'[s] = "skills" => job[s].kind \in OnRoles \cup OnPolicies
      BY <1>a, <1>3, WhereFrom DEF ReadRole, ReadPolicy, Goes, StepsFitJobs
    <2>3. /\ at'[s] = "write_role" => job[s].kind \in OnRoles
          /\ at'[s] = "roles" => job[s].kind \in OnPolicies
      BY <1>a, <1>3, WhereFrom DEF CheckSkills, Goes, StepsFitJobs, TypeOK
    <2>4. /\ at'[s] \in {"insert", "update"} => job[s].kind \in OnPolicies
          /\ at'[s] = "insert" => Creates(s)
          /\ at'[s] = "update" => ~Creates(s)
      BY <1>a, <1>3, WhereFrom DEF CheckRoles, Goes, StepsFitJobs, TypeOK
    <2>5. at'[s] = "refresh" => job[s].kind \in OnRoles \cup OnPolicies
      BY <1>a, <1>3, WhereFrom DEF CommitRole, InsertPolicy, UpdatePolicy, Goes, StepsFitJobs
    <2> QED
      BY <1>a, <1>3, <2>1, <2>2, <2>3, <2>4, <2>5, WhereFrom
  <1>4. QED
    BY <1>1, <1>2, <1>3

\* What a sync lists, once it has asked, it keeps; and what it means to remove
\* shrinks only to what another has not removed.
LEMMA ListsStay ==
    ASSUME AccessInv, NEW r \in Requests, Step(r) \/ Fails(r), NEW s \in Requests,
           at[s] \notin {"new", "list"}
    PROVE  list'[s].new = list[s].new
  <1>a. TypeOK
    BY DEF AccessInv
  <1>1. CASE ListTools(r)
    BY <1>a, <1>1 DEF ListTools, Goes, TypeOK
  <1>2. CASE DeleteTools(r)
    BY <1>a, <1>2 DEF DeleteTools, TypeOK
  <1>3. CASE CommitSync(r)
    BY <1>a, <1>3 DEF CommitSync, Commits, TypeOK
  <1>4. CASE ~ListTools(r) /\ ~DeleteTools(r) /\ ~CommitSync(r)
    BY <1>4
    DEF Step, Arrive, UpsertTools, LockTools, ReadRole, ReadPolicy, CheckSkills, CheckRoles,
        CommitRole, InsertPolicy, UpdatePolicy, Refresh, DeleteRole, DeletePolicy, Fails, locals
  <1>5. QED
    BY <1>1, <1>2, <1>3, <1>4

LEMMA SyncsAreApartStep ==
    ASSUME AccessInv, NEW r \in Requests, Step(r) \/ Fails(r)
    PROVE  SyncsAreApart'
  <1>a. TypeOK /\ SyncsAreApart
    BY DEF AccessInv, SyncsInv
  <1> SUFFICES ASSUME NEW s \in Requests, NEW q \in Requests, s # q,
                      at'[s] \in Upserted, at'[q] \in Upserted
               PROVE  list'[s].new \cap list'[q].new = {}
    BY DEF SyncsAreApart
  <1>1. \A c \in Requests : at'[c] \in Upserted /\ at[c] \notin Upserted => c = r /\ UpsertTools(r)
    <2>1. at'[r] \in Upserted => UpsertTools(r) \/ DeleteTools(r) \/ LockTools(r)
      BY <1>a, WhereFrom DEF Upserted
    <2>2. \A c \in Requests \ {r} : at'[c] = at[c]
      BY <1>a, StepsMoveOne DEF TypeOK
    <2> QED
      BY <2>1, <2>2 DEF DeleteTools, LockTools, Goes, Upserted
  <1>2. CASE at[s] \in Upserted /\ at[q] \in Upserted
    BY <1>a, <1>2, ListsStay DEF SyncsAreApart, Upserted
  <1>3. ASSUME UpsertTools(r), NEW c \in Requests \ {r}, at[c] \in Upserted
        PROVE  list'[c].new \cap list'[r].new = {}
    <2>1. Written(c) \cap list[r].new = {} /\ UNCHANGED list
      BY <1>3 DEF UpsertTools, locals
    <2>2. list[c].new \subseteq Written(c)
      BY <1>3 DEF Written, Upserted
    <2> QED
      BY <2>1, <2>2
  <1>4. QED
    BY <1>1, <1>2, <1>3

LEMMA DeletesCoverCatalogueStep ==
    ASSUME AccessInv, NEW r \in Requests, Step(r) \/ Fails(r)
    PROVE  DeletesCoverCatalogue'
  <1>a. TypeOK /\ DeletesCoverCatalogue /\ HistoriesAgree
    BY DEF AccessInv, SyncsInv
  <1> SUFFICES ASSUME NEW s \in Requests, at'[s] \in {"lock", "sync"}, NEW x \in catalogue'
               PROVE  \/ x \in list'[s].new \cup list'[s].gone
                      \/ \E q \in beside'[s] : x \in list'[q].new
    BY DEF DeletesCoverCatalogue
  <1>1. CASE DeleteTools(r) /\ s = r
    BY <1>a, <1>1 DEF DeleteTools, TypeOK, tables
  <1>2. CASE ~(DeleteTools(r) /\ s = r)
    <2>1. at[s] \in {"lock", "sync"} /\ (s = r => ~CommitSync(r))
      <3>1. CASE s = r
        BY <1>a, <1>2, <3>1, WhereFrom DEF LockTools, CommitSync, Commits, Goes, TypeOK
      <3>2. CASE s # r
        BY <1>a, <3>2, StepsMoveOne DEF TypeOK
      <3> QED
        BY <3>1, <3>2
    <2>2. list'[s].new = list[s].new
      BY <2>1, ListsStay
    <2>3. \A q \in beside[s] : list'[q].new = list[q].new
      BY <1>a, ListsStay DEF HistoriesAgree, Ends, TypeOK
    <2>4. CASE CommitSync(r)
      <3>1. /\ catalogue' = (catalogue \ list[r].gone) \cup list[r].new /\ s # r
            /\ list'[s].gone = list[s].gone \ list[r].gone /\ list'[r] = list[r]
            /\ beside'[s] = beside[s] \cup {r}
        BY <1>a, <2>1, <2>4 DEF CommitSync, Commits, TypeOK
      <3>2. CASE x \in list[r].new
        BY <3>1, <3>2
      <3>3. CASE x \in catalogue /\ x \notin list[r].gone
        <4>1. x \in list[s].new \cup list[s].gone \/ \E q \in beside[s] : x \in list[q].new
          BY <1>a, <2>1, <3>3 DEF DeletesCoverCatalogue
        <4> QED
          BY <2>2, <2>3, <3>1, <3>3, <4>1
      <3> QED
        BY <3>1, <3>2, <3>3
    <2>5. CASE ~CommitSync(r)
      <3>1. UNCHANGED <<catalogue, beside>>
        BY <2>5
        DEF Step, Arrive, ListTools, UpsertTools, DeleteTools, LockTools, ReadRole, ReadPolicy,
            CheckSkills, CheckRoles, CommitRole, InsertPolicy, UpdatePolicy, Refresh, DeleteRole,
            DeletePolicy, Fails, tables, history
      <3>2. list'[s].gone = list[s].gone
        <4>1. CASE ListTools(r) \/ DeleteTools(r)
          BY <1>a, <1>2, <4>1 DEF ListTools, DeleteTools, TypeOK
        <4>2. CASE ~ListTools(r) /\ ~DeleteTools(r)
          BY <2>5, <4>2
          DEF Step, Arrive, UpsertTools, LockTools, ReadRole, ReadPolicy, CheckSkills, CheckRoles,
              CommitRole, InsertPolicy, UpdatePolicy, Refresh, DeleteRole, DeletePolicy, Fails,
              locals
        <4> QED
          BY <4>1, <4>2
      <3>3. x \in list[s].new \cup list[s].gone \/ \E q \in beside[s] : x \in list[q].new
        BY <1>a, <2>1, <3>1 DEF DeletesCoverCatalogue
      <3> QED
        BY <2>2, <2>3, <3>1, <3>2, <3>3
    <2> QED
      BY <2>4, <2>5
  <1>3. QED
    BY <1>1, <1>2

LEMMA HistoriesAgreeStep ==
    ASSUME AccessInv, NEW r \in Requests, Step(r) \/ Fails(r)
    PROVE  HistoriesAgree'
  <1>a. TypeOK /\ SyncsAreApart /\ HistoriesAgree
    BY DEF AccessInv, SyncsInv
  <1>b. \A s \in Requests : at[s] \in Ends => at'[s] = at[s] /\ s # r
    BY <1>a, StepsMoveOne DEF TypeOK, Ends, Steps, Writing
  <1>c. \A s \in Requests : at[s] \in {"lock", "sync"} => at'[s] \in {"lock", "sync"} \cup Ends
    <2>1. CASE at[r] \in {"lock", "sync"}
      <3>1. LockTools(r) \/ CommitSync(r) \/ Fails(r)
        BY <2>1
        DEF Step, Arrive, ListTools, UpsertTools, DeleteTools, LockTools, ReadRole, ReadPolicy,
            CheckSkills, CheckRoles, CommitRole, InsertPolicy, UpdatePolicy, Refresh, DeleteRole,
            DeletePolicy, Goes
      <3>2. at'[r] \in {"lock", "sync"} \cup Ends
        BY <1>a, <3>1 DEF LockTools, CommitSync, Commits, Fails, Goes, Ends, TypeOK
      <3> QED
        BY <1>a, <3>2, StepsMoveOne DEF TypeOK
    <2>2. CASE at[r] \notin {"lock", "sync"}
      BY <1>a, <2>2, StepsMoveOne DEF TypeOK
    <2> QED
      BY <2>1, <2>2
  <1>d. \A s \in Requests : beside[s] # {} => list'[s].new = list[s].new
    BY <1>a, ListsStay DEF HistoriesAgree, Ends, TypeOK
  <1>e. \A s \in Requests : \A q \in beside[s] : list'[q].new = list[q].new
    BY <1>a, ListsStay DEF HistoriesAgree, Ends, TypeOK
  <1>1. CASE CommitSync(r)
    <2>1. /\ last' = r /\ at'[r] = "answered" /\ at[r] = "sync"
          /\ \A s \in Requests :
               beside'[s] = IF s # r /\ at[s] \in {"lock", "sync"} THEN beside[s] \cup {r} ELSE beside[s]
      BY <1>a, <1>1 DEF CommitSync, Commits, Goes, TypeOK
    <2>2. ASSUME NEW s \in Requests, NEW q \in beside'[s]
          PROVE  at'[q] \in Ends /\ list'[q].new \cap list'[s].new = {}
      <3>1. CASE q \in beside[s]
        <4>1. at[q] \in Ends /\ list[q].new \cap list[s].new = {} /\ q \in Requests
          BY <1>a, <3>1 DEF HistoriesAgree, TypeOK
        <4>2. list'[q].new = list[q].new /\ list'[s].new = list[s].new
          BY <1>d, <1>e, <3>1
        <4> QED
          BY <1>b, <4>1, <4>2
      <3>2. CASE q = r /\ s # r /\ at[s] \in {"lock", "sync"}
        <4>1. list[r].new \cap list[s].new = {}
          BY <1>a, <2>1, <3>2 DEF SyncsAreApart, Upserted
        <4>2. list'[r].new = list[r].new /\ list'[s].new = list[s].new
          BY <2>1, <3>2, ListsStay
        <4> QED
          BY <2>1, <3>2, <4>1, <4>2 DEF Ends
      <3>3. beside'[s] = beside[s] \/ (s # r /\ at[s] \in {"lock", "sync"} /\ beside'[s] = beside[s] \cup {r})
        BY <2>1
      <3> QED
        BY <2>2, <3>1, <3>2, <3>3
    <2>3. ASSUME NEW s \in Requests, beside'[s] # {} PROVE at'[s] \in {"lock", "sync"} \cup Ends
      <3>1. at[s] \in {"lock", "sync"} \cup Ends
        BY <1>a, <2>1, <2>3 DEF HistoriesAgree
      <3> QED
        BY <1>b, <1>c, <3>1
    <2> QED
      BY <2>1, <2>2, <2>3 DEF HistoriesAgree, Ends
  <1>2. CASE ~CommitSync(r)
    <2>1. UNCHANGED <<last, beside>>
      BY <1>2
      DEF Step, Arrive, ListTools, UpsertTools, DeleteTools, LockTools, ReadRole, ReadPolicy,
          CheckSkills, CheckRoles, CommitRole, InsertPolicy, UpdatePolicy, Refresh, DeleteRole,
          DeletePolicy, Fails, history
    <2>2. ASSUME NEW s \in Requests, NEW q \in beside[s]
          PROVE  at'[q] \in Ends /\ list'[q].new \cap list'[s].new = {}
      <3>1. at[q] \in Ends /\ list[q].new \cap list[s].new = {} /\ q \in Requests
        BY <1>a, <2>2 DEF HistoriesAgree, TypeOK
      <3>2. list'[q].new = list[q].new /\ list'[s].new = list[s].new
        BY <1>d, <1>e, <2>2
      <3> QED
        BY <1>b, <3>1, <3>2
    <2>3. ASSUME NEW s \in Requests, beside[s] # {} PROVE at'[s] \in {"lock", "sync"} \cup Ends
      <3>1. at[s] \in {"lock", "sync"} \cup Ends
        BY <1>a, <2>3 DEF HistoriesAgree
      <3> QED
        BY <1>b, <1>c, <3>1
    <2>4. last # Nothing => at'[last] \in Ends
      BY <1>a, <1>b DEF HistoriesAgree, TypeOK
    <2> QED
      BY <2>1, <2>2, <2>3, <2>4 DEF HistoriesAgree
  <1>3. QED
    BY <1>1, <1>2

LEMMA CatalogueFollowsStep ==
    ASSUME AccessInv, NEW r \in Requests, Step(r) \/ Fails(r)
    PROVE  CatalogueFollowsLastSync'
  <1>a. TypeOK /\ DeletesCoverCatalogue /\ HistoriesAgree /\ CatalogueFollowsLastSync
    BY DEF AccessInv, SyncsInv
  <1>1. CASE CommitSync(r)
    <2>1. /\ catalogue' = (catalogue \ list[r].gone) \cup list[r].new
          /\ last' = r /\ list'[r] = list[r] /\ beside'[r] = beside[r] /\ at[r] = "sync"
      BY <1>a, <1>1 DEF CommitSync, Commits, Goes, TypeOK
    <2>2. ASSUME NEW x \in catalogue' \ list[r].new
          PROVE  \E q \in beside[r] : x \in list'[q].new /\ list'[q].new \cap list[r].new = {}
      <3>1. PICK q \in beside[r] : x \in list[q].new
        BY <1>a, <2>1, <2>2 DEF DeletesCoverCatalogue
      <3>2. at[q] \in Ends /\ list[q].new \cap list[r].new = {} /\ q \in Requests
        BY <1>a, <3>1 DEF HistoriesAgree, TypeOK
      <3>3. list'[q].new = list[q].new
        BY <3>2, ListsStay DEF Ends
      <3> QED
        BY <3>1, <3>2, <3>3
    <2> QED
      BY <2>1, <2>2 DEF CatalogueFollowsLastSync
  <1>2. CASE ~CommitSync(r)
    <2>1. UNCHANGED <<catalogue, last, beside>>
      BY <1>2
      DEF Step, Arrive, ListTools, UpsertTools, DeleteTools, LockTools, ReadRole, ReadPolicy,
          CheckSkills, CheckRoles, CommitRole, InsertPolicy, UpdatePolicy, Refresh, DeleteRole,
          DeletePolicy, Fails, tables, history
    <2> SUFFICES ASSUME last # Nothing
                 PROVE  /\ list'[last].new \subseteq catalogue
                        /\ \A x \in catalogue \ list'[last].new :
                             \E q \in beside[last] :
                                x \in list'[q].new /\ list'[q].new \cap list'[last].new = {}
      BY <2>1 DEF CatalogueFollowsLastSync
    <2>2. last \in Requests /\ list'[last].new = list[last].new
      BY <1>a, ListsStay DEF HistoriesAgree, Ends, TypeOK
    <2>3. \A q \in beside[last] : list'[q].new = list[q].new
      BY <1>a, <2>2, ListsStay DEF HistoriesAgree, Ends, TypeOK
    <2> QED
      BY <1>a, <2>2, <2>3 DEF CatalogueFollowsLastSync
  <1>3. QED
    BY <1>1, <1>2

LEMMA SyncsInvStep ==
    ASSUME AccessInv, NEW r \in Requests, Step(r) \/ Fails(r)
    PROVE  SyncsInv'
  BY SyncsAreApartStep, DeletesCoverCatalogueStep, HistoriesAgreeStep, CatalogueFollowsStep
  DEF SyncsInv

\* What r computed depends on what it read and asks for.
LEMMA TargetsStay ==
    ASSUME TypeOK, NEW r \in Requests, job'[r] = job[r], read'[r] = read[r]
    PROVE  /\ Target(r)' = Target(r)
           /\ NamedSkills(r)' = NamedSkills(r)
           /\ NamedRoles(r)' = NamedRoles(r)
  BY DEF Target, Planned, Creates, NamedSkills, NamedRoles

LEMMA TargetsAreScopedStep ==
    ASSUME AccessInv, NEW r \in Requests, Step(r) \/ Fails(r)
    PROVE  TargetsAreScoped'
  <1>a. TypeOK /\ StepsFitJobs /\ TargetsAreScoped
    BY DEF AccessInv
  <1> SUFFICES ASSUME NEW s \in Requests
               PROVE  /\ job'[s] # Nothing /\ job'[s].kind = "create_policy" => job'[s].body.gives = Fields
                      /\ Validated(s)' => /\ Scoped(Target(s)')
                                          /\ job'[s].kind = "patch_policy" => read'[s] # Nothing
    BY DEF TargetsAreScoped
  <1>1. CASE /\ job'[s] = job[s] /\ read'[s] = read[s]
             /\ Validated(s)' => Validated(s)
    BY <1>a, <1>1, TargetsStay DEF TargetsAreScoped
  <1>2. CASE s # r
    <2>1. job'[s] = job[s] /\ read'[s] = read[s] /\ at'[s] = at[s]
      BY <1>a, <1>2, JobsStay, StepsMoveOne DEF TypeOK
    <2> QED
      BY <2>1, <1>1 DEF Validated
  <1>3. CASE Arrive(r) /\ s = r
    <2>1. /\ ~Validated(s)'
          /\ job'[s].kind = "create_policy" => job'[s].body.gives = Fields
      <3>1. PICK j \in Jobs : /\ j.kind = "create_policy" => Full(j.body)
                              /\ job' = [job EXCEPT ![r] = j]
        BY <1>3 DEF Arrive
      <3>2. at[r] = "new"
        BY <1>3 DEF Arrive, Goes
      <3>3. at'[r] \notin {"skills", "roles", "insert", "update", "refresh"}
        BY <1>a, <3>2, WhereFrom
        DEF ReadRole, ReadPolicy, CheckSkills, CheckRoles, CommitRole, InsertPolicy, UpdatePolicy,
            Goes
      <3> QED
        BY <1>a, <1>3, <3>1, <3>3 DEF Validated, Full, TypeOK
    <2> QED
      BY <2>1
  <1>4. CASE ReadPolicy(r) /\ s = r
    <2>1. job'[s] = job[s] /\ job[s] # Nothing
      BY <1>a, <1>4, NamesDiffer DEF ReadPolicy, Quiet, TypeOK
    <2>2. Validated(s)' => /\ Scoped(Planned(s, read'[s]))
                           /\ Creates(s) \/ read'[s] # Nothing
      <3> DEFINE row == policy[job[s].policy]
      <3>1. read'[s] = row
        BY <1>a, <1>4 DEF ReadPolicy, TypeOK
      <3>2. at'[s] = IF (row # Nothing) = Creates(s) THEN "refused"
                     ELSE IF Scoped(Planned(s, row)) THEN "skills" ELSE "refused"
        BY <1>a, <1>4 DEF ReadPolicy, TypeOK, Goes
      <3> HIDE DEF row
      <3>3. Validated(s)' => at'[s] # "refused"
        BY DEF Validated
      <3>4. Validated(s)' => Scoped(Planned(s, row)) /\ (row # Nothing) # Creates(s)
        BY <3>2, <3>3
      <3>5. Validated(s)' => Creates(s) \/ row # Nothing
        BY <3>4 DEF Creates
      <3> QED
        BY <3>1, <3>4, <3>5
    <2>3. Target(s)' = Planned(s, read'[s])
      BY <2>1 DEF Target, Planned, Creates
    <2> QED
      BY <1>a, <2>1, <2>2, <2>3 DEF TargetsAreScoped, Creates
  <1>5. CASE ~Arrive(r) /\ ~ReadPolicy(r) /\ s = r
    <2>1. job'[s] = job[s] /\ read'[s] = read[s]
      <3>1. UNCHANGED <<job, read>>
        BY <1>5
        DEF Step, ListTools, UpsertTools, DeleteTools, LockTools, CommitSync, Commits, ReadRole,
            CheckSkills, CheckRoles, CommitRole, InsertPolicy, UpdatePolicy, Refresh, DeleteRole,
            DeletePolicy, Fails, Quiet, locals
      <3> QED
        BY <3>1
    <2>2. Validated(s)' => Validated(s)
      <3> SUFFICES ASSUME Validated(s)' PROVE Validated(s)
        OBVIOUS
      <3>1. job[s].kind \in OnPolicies
        BY <2>1 DEF Validated
      <3>2. ~ReadRole(s)
        BY <1>a, <3>1 DEF ReadRole, Goes, StepsFitJobs, OnRoles, OnPolicies
      <3>3. at'[s] # "skills"
        BY <1>a, <1>5, <3>2, WhereFrom
      <3>4. CheckSkills(s) \/ CheckRoles(s) \/ CommitRole(s) \/ InsertPolicy(s) \/ UpdatePolicy(s)
        BY <1>a, <1>5, <3>3, WhereFrom DEF Validated
      <3>5. at[s] \in {"skills", "roles", "insert", "update", "write_role"}
        BY <3>4 DEF CheckSkills, CheckRoles, CommitRole, InsertPolicy, UpdatePolicy, Goes
      <3>6. at[s] # "write_role"
        BY <1>a, <3>1 DEF StepsFitJobs, OnRoles, OnPolicies
      <3> QED
        BY <3>1, <3>5, <3>6 DEF Validated
    <2> QED
      BY <2>1, <2>2, <1>1
  <1>6. QED
    BY <1>2, <1>3, <1>4, <1>5

LEMMA PoliciesAreCoherentStep ==
    ASSUME AccessInv, NEW r \in Requests, Step(r) \/ Fails(r)
    PROVE  PoliciesAreCoherent'
  <1>a. TypeOK /\ StepsFitJobs /\ TargetsAreScoped /\ PoliciesAreCoherent
    BY DEF AccessInv
  <1>1. CASE InsertPolicy(r)
    <2>1. Scoped(Target(r)) /\ job[r].policy \in Policies
      BY <1>a, <1>1, JobFields
      DEF InsertPolicy, Goes, StepsFitJobs, Validated, TargetsAreScoped, TypeOK
    <2> QED
      BY <1>a, <1>1, <2>1 DEF InsertPolicy, PoliciesAreCoherent, TypeOK
  <1>2. CASE UpdatePolicy(r)
    <2> DEFINE p == job[r].policy
    <2>1. CASE UNCHANGED <<policy, stale>>
      BY <1>a, <2>1 DEF PoliciesAreCoherent
    <2>2. CASE /\ policy' = [policy EXCEPT ![p] = Merged(Changed(r), Target(r), policy[p])]
               /\ stale' = [stale EXCEPT ![p] = @ \/ policy[p] # read[r]]
      <3>1. Validated(r) /\ job[r].kind = "patch_policy" /\ p \in Policies
        BY <1>a, <1>2, JobFields
        DEF UpdatePolicy, Goes, StepsFitJobs, Validated, Creates, OnPolicies, TypeOK
      <3>2. Scoped(Target(r)) /\ read[r] \in Row /\ Target(r) \in Row
        BY <1>a, <3>1, TargetRow DEF TargetsAreScoped, TypeOK
      <3>3. policy[p] = read[r] => Scoped(Merged(Changed(r), Target(r), policy[p]))
        BY <3>2 DEF Merged, Changed, Scoped, Fields, Row
      <3>4. ~stale'[p] => policy[p] = read[r]
        BY <1>a, <2>2, <3>1 DEF TypeOK
      <3> QED
        BY <1>a, <2>2, <3>1, <3>3, <3>4 DEF PoliciesAreCoherent, TypeOK
    <2>3. QED
      BY <1>2, <2>1, <2>2 DEF UpdatePolicy
  <1>3. CASE DeletePolicy(r)
    BY <1>a, <1>3 DEF DeletePolicy, PoliciesAreCoherent, TypeOK, history
  <1>4. CASE ~InsertPolicy(r) /\ ~UpdatePolicy(r) /\ ~DeletePolicy(r)
    <2>1. UNCHANGED <<policy, stale>>
      BY <1>4
      DEF Step, Arrive, ListTools, UpsertTools, DeleteTools, LockTools, CommitSync, Commits,
          ReadRole, ReadPolicy, CheckSkills, CheckRoles, CommitRole, Refresh, DeleteRole, Fails,
          tables, history
    <2> QED
      BY <1>a, <2>1 DEF PoliciesAreCoherent
  <1>5. QED
    BY <1>1, <1>2, <1>3, <1>4

\* Every request in progress sees what a step adds to the tables.
LEMMA EverythingIsSeen ==
    ASSUME AccessInv, NEW r \in Requests, Step(r) \/ Fails(r), NEW s \in Requests, InProgress(s)'
    PROVE  catalogue' \cup Roles' \subseteq knew'[s]
  <1>a. TypeOK /\ LookedUp
    BY DEF AccessInv
  <1>1. InProgress(s) \/ (s = r /\ Arrive(r))
    <2>1. CASE s # r
      BY <1>a, <2>1, StepsMoveOne DEF InProgress, TypeOK
    <2>2. CASE s = r /\ ~Arrive(r)
      BY <1>a, <2>2
      DEF Step, ListTools, UpsertTools, DeleteTools, LockTools, CommitSync, Commits, ReadRole,
          ReadPolicy, CheckSkills, CheckRoles, CommitRole, InsertPolicy, UpdatePolicy, Refresh,
          DeleteRole, DeletePolicy, Fails, Goes, InProgress, Steps, Writing
    <2> QED
      BY <2>1, <2>2
  <1>2. CASE s = r /\ Arrive(r)
    BY <1>a, <1>2 DEF Arrive, tables, Roles, TypeOK
  <1>3. CASE InProgress(s) /\ ~Arrive(r)
    <2>1. catalogue \cup DOMAIN roles \subseteq knew[s]
      BY <1>a, <1>3 DEF LookedUp, Roles
    <2>2. CASE CommitSync(r)
      BY <1>a, <1>3, <2>1, <2>2 DEF CommitSync, Commits, Witness, Roles, TypeOK
    <2>3. CASE CommitRole(r)
      BY <1>a, <1>3, <2>1, <2>3 DEF CommitRole, Witness, Roles, TypeOK
    <2>4. CASE DeleteRole(r)
      BY <2>1, <2>4 DEF DeleteRole, Roles, history
    <2>5. CASE UNCHANGED <<catalogue, roles, knew>>
      BY <2>1, <2>5 DEF Roles
    <2> QED
      BY <1>3, <2>2, <2>3, <2>4, <2>5
      DEF Step, ListTools, UpsertTools, DeleteTools, LockTools, ReadRole, ReadPolicy, CheckSkills,
          CheckRoles, InsertPolicy, UpdatePolicy, Refresh, DeletePolicy, Fails, tables, history
  <1>4. CASE InProgress(s) /\ Arrive(r) /\ s # r
    BY <1>a, <1>4 DEF LookedUp, Arrive, tables, Roles, TypeOK
  <1>5. QED
    BY <1>1, <1>2, <1>3, <1>4

\* What a request has seen it does not forget while it is on.
LEMMA NothingIsForgotten ==
    ASSUME TypeOK, NEW r \in Requests, Step(r) \/ Fails(r), NEW s \in Requests, s # r \/ ~Arrive(r)
    PROVE  knew[s] \subseteq knew'[s]
  <1>1. CASE CommitSync(r) \/ CommitRole(r)
    BY <1>1 DEF CommitSync, Commits, CommitRole, Witness, TypeOK
  <1>2. CASE Arrive(r)
    BY <1>2 DEF Arrive, TypeOK
  <1>3. QED
    BY <1>1, <1>2
    DEF Step, ListTools, UpsertTools, DeleteTools, LockTools, ReadRole, ReadPolicy, CheckSkills,
        CheckRoles, InsertPolicy, UpdatePolicy, Refresh, DeleteRole, DeletePolicy, Fails, history

LEMMA LookedUpStep ==
    ASSUME AccessInv, NEW r \in Requests, Step(r) \/ Fails(r)
    PROVE  LookedUp'
  <1>a. TypeOK /\ StepsFitJobs /\ LookedUp
    BY DEF AccessInv
  <1> SUFFICES ASSUME NEW s \in Requests
               PROVE  /\ at'[s] \in {"write_role", "roles", "insert", "update"} => NamedSkills(s)' \subseteq knew'[s]
                      /\ at'[s] \in {"insert", "update"} => NamedRoles(s)' \subseteq knew'[s]
    BY EverythingIsSeen DEF LookedUp
  <1>1. CASE s # r
    <2>1. at'[s] = at[s] /\ job'[s] = job[s] /\ read'[s] = read[s]
      BY <1>a, <1>1, JobsStay, StepsMoveOne DEF TypeOK
    <2> QED
      BY <1>a, <1>1, <2>1, TargetsStay, NothingIsForgotten DEF LookedUp
  <1>2. CASE s = r /\ at'[r] \in {"write_role", "roles"}
    <2>1. CheckSkills(r) /\ ~Arrive(r)
      BY <1>a, <1>2, WhereFrom DEF CheckSkills, Arrive, Goes
    <2>2. NamedSkills(r) \subseteq catalogue /\ at[r] = "skills"
      BY <1>a, <1>2, <2>1 DEF CheckSkills, Goes, TypeOK
    <2>3. NamedSkills(r) \subseteq knew[r]
      BY <1>a, <2>2 DEF LookedUp, InProgress, Steps
    <2>4. NamedSkills(r)' = NamedSkills(r) /\ knew'[r] = knew[r]
      BY <1>a, <2>1, TargetsStay DEF CheckSkills, Quiet, locals, history
    <2> QED
      BY <1>2, <2>3, <2>4
  <1>3. CASE s = r /\ at'[r] \in {"insert", "update"}
    <2>1. CheckRoles(r)
      BY <1>a, <1>3, WhereFrom
    <2>2. NamedRoles(r) \subseteq Roles /\ at[r] = "roles"
      BY <1>a, <1>3, <2>1 DEF CheckRoles, Goes, TypeOK
    <2>3. NamedSkills(r) \subseteq knew[r] /\ NamedRoles(r) \subseteq knew[r]
      BY <1>a, <2>2 DEF LookedUp, InProgress, Steps
    <2>4. /\ NamedSkills(r)' = NamedSkills(r) /\ NamedRoles(r)' = NamedRoles(r)
          /\ knew'[r] = knew[r]
      BY <1>a, <2>1, TargetsStay DEF CheckRoles, Quiet, locals, history
    <2> QED
      BY <1>3, <2>3, <2>4
  <1>4. QED
    BY <1>1, <1>2, <1>3

LEMMA RestartAccessInv ==
    ASSUME AccessInv, Restart
    PROVE  AccessInv'
  <1> USE DEF Restart, locals, history
  <1>a. TypeOK /\ StepsFitJobs /\ SyncsInv /\ TargetsAreScoped
          /\ PoliciesAreCoherent /\ LookedUp
    BY DEF AccessInv
  <1>1. /\ UNCHANGED <<catalogue, policy, stale, job, loaded, read, list, knew, last, beside>>
        /\ \A s \in Requests : (at'[s] = at[s] /\ ~InProgress(s)) \/ at'[s] = "dead"
        /\ at' \in [Requests -> {"new"} \cup Steps \cup Ends]
    BY <1>a DEF TypeOK, InProgress, Ends
  <1>2. TypeOK'
    <2>1. DOMAIN roles' \in SUBSET RoleNames /\ \A n \in DOMAIN roles' : roles'[n] \in Permissions
      BY <1>a, InputsAreTyped DEF TypeOK, Roles
    <2>2. restarts' \in 0..MaxRestarts
      BY <1>a, RestartsAreNat DEF TypeOK
    <2>3. \A s \in Requests :
            /\ at'[s] # "new" => job'[s] # Nothing
            /\ at'[s] = "update" => read'[s] # Nothing
      BY <1>a, <1>1 DEF TypeOK, InProgress, Steps, Writing
    <2> QED
      BY <1>a, <1>1, <2>1, <2>2, <2>3 DEF TypeOK
  <1>3. StepsFitJobs'
    BY <1>a, <1>1 DEF StepsFitJobs, InProgress, Steps, Writing
  <1>8. SyncsInv'
    <2>1. \A s \in Requests : /\ at'[s] \in Steps => at'[s] = at[s]
                              /\ at[s] \in Ends => at'[s] \in Ends
                              /\ at[s] \in {"lock", "sync"} => at'[s] \in Ends
      BY <1>1 DEF InProgress, Steps, Ends, Writing
    <2>2. SyncsAreApart' /\ DeletesCoverCatalogue' /\ CatalogueFollowsLastSync'
      BY <1>a, <1>1, <2>1
      DEF SyncsInv, SyncsAreApart, DeletesCoverCatalogue, CatalogueFollowsLastSync, Upserted, Steps
    <2>3. HistoriesAgree'
      BY <1>a, <1>1, <2>1 DEF SyncsInv, HistoriesAgree, TypeOK
    <2> QED
      BY <2>2, <2>3 DEF SyncsInv
  <1>4. TargetsAreScoped'
    BY <1>a, <1>1, TargetsStay DEF TargetsAreScoped, Validated, InProgress, Steps, Writing
  <1>5. PoliciesAreCoherent'
    BY <1>a, <1>1 DEF PoliciesAreCoherent
  <1>6. LookedUp'
    BY <1>1 DEF LookedUp, InProgress, Steps, Writing
  <1>7. QED
    BY <1>2, <1>3, <1>4, <1>5, <1>6, <1>8 DEF AccessInv

LEMMA NextAccessInv == AccessInv /\ [Next]_vars => AccessInv'
  <1> SUFFICES ASSUME AccessInv, [Next]_vars PROVE AccessInv'
    OBVIOUS
  <1>1. ASSUME NEW r \in Requests, Step(r) \/ Fails(r) PROVE AccessInv'
    BY <1>1, StepsAreTyped, StepsFitJobsStep, SyncsInvStep, TargetsAreScopedStep,
       PoliciesAreCoherentStep, LookedUpStep
    DEF AccessInv
  <1>2. CASE Restart
    BY <1>2, RestartAccessInv
  <1>3. CASE UNCHANGED vars
    BY <1>3
    DEF AccessInv, TypeOK, StepsFitJobs, SyncsInv, SyncsAreApart, DeletesCoverCatalogue,
        HistoriesAgree, CatalogueFollowsLastSync, TargetsAreScoped,
        PoliciesAreCoherent, LookedUp, Validated, InProgress, Creates, Target, Planned,
        NamedSkills, NamedRoles, Roles, vars, tables, locals, history
  <1>4. QED
    BY <1>1, <1>2, <1>3 DEF Next

THEOREM AccessIsSafe == Spec => []AccessInv
  BY InitAccessInv, NextAccessInv, PTL DEF Spec

-----------------------------------------------------------------------------
\* Every variable keeps to its type, and a patch writes over a row that was there.
THEOREM AccessTyped == Spec => []TypeOK
  <1>1. AccessInv => TypeOK
    BY DEF AccessInv
  <1>2. QED
    BY <1>1, AccessIsSafe, PTL

\* sync_from_mcp: however many syncs overlap, fail or die, the catalogue has the
\* list of the last one that was committed, and otherwise only tools of syncs that
\* were committed while it was deleting and listed nothing that it listed.
THEOREM CatalogueStaysWithLastSync == Spec => []CatalogueFollowsLastSync
  <1>1. AccessInv => CatalogueFollowsLastSync
    BY DEF AccessInv, SyncsInv
  <1>2. QED
    BY <1>1, AccessIsSafe, PTL

\* update_policy: the scope of a policy is coherent, unless a patch of it was
\* committed over a row that another request had changed since it was read.
THEOREM PoliciesStayCoherent == Spec => []PoliciesAreCoherent
  <1>1. AccessInv => PoliciesAreCoherent
    BY DEF AccessInv
  <1>2. QED
    BY <1>1, AccessIsSafe, PTL

\* create_role, update_role, create_policy, update_policy: what a request writes
\* names skills and roles that were there at some moment since it arrived.
THEOREM NothingUnknownIsNamed == Spec => ReferencesWereKnown
  <1>1. AccessInv /\ [Next]_vars =>
          [\A r \in Requests :
             at[r] \in Writing /\ at'[r] = "refresh" =>
                NamedSkills(r) \cup NamedRoles(r) \subseteq knew[r]]_vars
    <2> SUFFICES ASSUME AccessInv, NEW r \in Requests, at[r] \in Writing
                 PROVE  NamedSkills(r) \cup NamedRoles(r) \subseteq knew[r]
      OBVIOUS
    <2>1. LookedUp /\ StepsFitJobs
      BY DEF AccessInv
    <2>2. at[r] = "write_role" => NamedRoles(r) = {}
      BY <2>1 DEF StepsFitJobs, NamedRoles
    <2> QED
      BY <2>1, <2>2 DEF LookedUp, Writing
  <1>2. QED
    BY <1>1, AccessIsSafe, PTL DEF Spec, ReferencesWereKnown

\* PolicyPatch: a field of a policy changes only by a patch that gives it, also
\* when patches of one policy overlap.
THEOREM PatchesKeepTheRest == Spec => PatchesKeepOtherFields
  <1> DEFINE A == \A p \in Policies : \A f \in Fields :
                    /\ policy[p] # Nothing /\ policy'[p] # Nothing
                    /\ policy[p].id = policy'[p].id
                    /\ policy[p][f] # policy'[p][f]
                    => \E r \in Requests :
                          /\ at[r] = "update" /\ at'[r] = "refresh"
                          /\ job[r].policy = p
                          /\ f \in job[r].body.gives
  <1>1. AccessInv /\ [Next]_vars => [A]_vars
    <2> SUFFICES ASSUME AccessInv, Next,
                        NEW p \in Policies, NEW f \in Fields,
                        policy[p] # Nothing, policy'[p] # Nothing,
                        policy[p][f] # policy'[p][f]
                 PROVE  \E r \in Requests :
                          /\ at[r] = "update" /\ at'[r] = "refresh"
                          /\ job[r].policy = p
                          /\ f \in job[r].body.gives
      OBVIOUS
    <2>a. TypeOK /\ StepsFitJobs /\ TargetsAreScoped
      BY DEF AccessInv
    <2>1. PICK r \in Requests : UpdatePolicy(r)
      <3>1. PICK r \in Requests : Step(r) \/ Fails(r)
        BY DEF Next, Restart
      <3>2. ~InsertPolicy(r) /\ ~DeletePolicy(r)
        BY <2>a DEF InsertPolicy, DeletePolicy, TypeOK
      <3> QED
        BY <3>1, <3>2
        DEF Step, Arrive, ListTools, UpsertTools, DeleteTools, LockTools, CommitSync, Commits,
            ReadRole, ReadPolicy, CheckSkills, CheckRoles, CommitRole, Refresh, DeleteRole, Fails,
            tables
    <2>2. Validated(r) /\ ~Creates(r)
      BY <2>a, <2>1 DEF UpdatePolicy, Goes, StepsFitJobs, Validated
    <2>3. /\ policy' = [policy EXCEPT ![job[r].policy] =
                          Merged(Changed(r), Target(r), policy[job[r].policy])]
          /\ at[r] = "update" /\ at'[r] = "refresh"
      BY <2>a, <2>1 DEF UpdatePolicy, Goes, TypeOK
    <2>4. job[r].policy = p
      BY <2>a, <2>3 DEF TypeOK
    <2>5. f \in Changed(r)
      BY <2>a, <2>3, <2>4 DEF Merged, TypeOK
    <2>6. f \in job[r].body.gives
      BY <2>2, <2>5 DEF Changed, Target, Planned, Patched, Merged
    <2> QED
      BY <2>3, <2>4, <2>6
  <1>2. QED
    BY <1>1, AccessIsSafe, PTL DEF Spec, PatchesKeepOtherFields
=============================================================================
