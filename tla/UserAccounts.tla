------------------------------ MODULE UserAccounts ------------------------------
(***************************************************************************)
(* The accounts of the broker: signing up, logging in and the check of a   *)
(* bearer token (packages/api/src/auth), creating, patching and deleting a *)
(* user (packages/api/src/users).                                          *)
(*                                                                         *)
(* E-mail addresses and user names are unique indexes of one table.  A     *)
(* request is cut at its SELECTs and its COMMIT; the commit waits for no   *)
(* one, since each of these transactions writes in it alone.  A user name  *)
(* is a handle and a suffix, of which 1 is the bare handle.  Cutting a     *)
(* handle to 32 characters, hashes and expiry are left out: a token that   *)
(* has expired is refused like one whose user is gone.                     *)
(***************************************************************************)
EXTENDS Naturals, FiniteSets

CONSTANTS
    Slots,      \* the requests that may be in flight at a time
    Emails,     \* in lower case
    Handle,     \* Handle[e]: _username_from_email(e)
    Passwords,
    Roles,      \* the roles there are at the start
    Guest,      \* the role that a sign-up gives
    First,      \* the address of the account there may be at the start
    None,
    MaxUsers,   \* bound: accounts ever made
    MaxSuffix   \* bound: suffixes of user names

Ids == 1..MaxUsers
Names == {Handle[e] : e \in Emails} \X (1..MaxSuffix)

\* MaxSuffix never binds: there are not as many accounts.
ASSUME AccountConstants ==
    /\ Handle \in [Emails -> {Handle[e] : e \in Emails}]
    /\ Guest \in Roles /\ First \in Emails /\ Passwords # {}
    /\ MaxUsers \in Nat /\ MaxUsers > 0
    /\ MaxSuffix \in Nat /\ MaxSuffix > MaxUsers
    /\ None \notin Emails \cup Passwords \cup Roles \cup Ids
    /\ None \notin {Handle[e] : e \in Emails} \X Nat

Users == [id : Ids, email : Emails, name : Names, password : Passwords \cup {None}, role : Roles]

VARIABLES
    users,      \* the rows
    made,       \* how many there have been; the next one's id is new
    roles,      \* the roles there are
    call        \* call[c]: the request in slot c

accountVars == <<users, made, roles, call>>

Free == [step |-> "free"]

\* The answers, by their status codes.
Answers == {"ok", "409", "422", "401", "403", "404", "500"}
Steps == {"email", "name", "insert", "either", "create", "verify", "token", "row", "patch"}

\* A request as it arrives; `of` is the tab it came from, `by` the user whose
\* token it carries, `raced` a history: an account was made meanwhile.
Request(step, of, by, email, name, password, role) ==
    [step |-> step, of |-> of, by |-> by, email |-> email, name |-> name,
     password |-> password, role |-> role, raced |-> FALSE]

At(c, step) == call[c].step = step
Becomes(c, request) == call' = [call EXCEPT ![c] = request]
Goes(c, step) == Becomes(c, [call[c] EXCEPT !.step = step])

AccountsInit ==
    /\ made \in {0, 1}
    /\ users = {[id |-> i, email |-> First, name |-> <<Handle[First], 1>>,
                 password |-> CHOOSE p \in Passwords : TRUE, role |-> Guest] : i \in 1..made}
    /\ roles = Roles
    /\ call = [c \in Slots |-> Free]

Arrives(c, request) ==
    /\ At(c, "free")
    /\ Becomes(c, request)
    /\ UNCHANGED <<users, made, roles>>

-----------------------------------------------------------------------------
Taken(e) == \E u \in users : u.email = e
Named(n) == \E u \in users : u.name = n

Reads(c, step) == Goes(c, step) /\ UNCHANGED <<users, made, roles>>

\* signup: is the address registered?
SelectEmail(c) ==
    /\ At(c, "email")
    /\ LET e == call[c].email
       IN  IF Taken(e)
           THEN Reads(c, "409")
           ELSE /\ Becomes(c, [call[c] EXCEPT !.step = "name", !.name = <<Handle[e], 1>>])
                /\ UNCHANGED <<users, made, roles>>

\* Mutant: the handle is taken as it is.
SelectNoName(c) == At(c, "name") /\ Reads(c, "insert")

\* _unique_username: one SELECT per candidate.
SelectName(c) ==
    /\ At(c, "name")
    /\ IF Named(call[c].name)
       THEN Becomes(c, [call[c] EXCEPT !.name = <<call[c].name[1], call[c].name[2] + 1>>])
       ELSE Goes(c, "insert")
    /\ UNCHANGED <<users, made, roles>>

\* INSERT and COMMIT, under the unique indexes and the foreign key to roles.
Insert(c, refusal) ==
    LET r == call[c]
    IN  /\ IF Taken(r.email) \/ Named(r.name) \/ r.role \notin roles
           THEN Goes(c, refusal) /\ UNCHANGED <<users, made>>
           ELSE /\ made < MaxUsers
                /\ made' = made + 1
                /\ users' = users \cup
                     {[id |-> made', email |-> r.email, name |-> r.name,
                       password |-> r.password, role |-> r.role]}
                /\ call' = [d \in Slots |->
                              IF d = c THEN [r EXCEPT !.step = "ok"]
                              ELSE IF At(d, "free") THEN Free
                              ELSE [call[d] EXCEPT !.raced = TRUE]]
        /\ UNCHANGED roles

SignupInserts(c) == At(c, "insert") /\ Insert(c, "422")

\* authenticate, issue_login_response: the answer is the user.
Authenticate(c) ==
    /\ At(c, "verify")
    /\ LET found == {u \in users : /\ u.email = call[c].email
                                   /\ u.password = call[c].password}
       IN  IF found = {}
           THEN Reads(c, "401")
           ELSE /\ \E u \in found : Becomes(c, [call[c] EXCEPT !.step = "ok", !.by = u.id])
                /\ UNCHANGED <<users, made, roles>>

\* get_current_user, behind HTTPBearer; what the endpoint then does is left out.
CheckToken(c) ==
    /\ At(c, "token")
    /\ Reads(c, IF call[c].by = None THEN "403"
                ELSE IF \E u \in users : u.id = call[c].by THEN "ok" ELSE "401")

-----------------------------------------------------------------------------
\* create_user: one SELECT for both conflicts.  Two rows, one of that name and
\* one of that address, are more than scalar_one_or_none stands.
SelectEither(c) ==
    /\ At(c, "either")
    /\ LET found == {u \in users : u.name = call[c].name \/ u.email = call[c].email}
       IN  Reads(c, CASE Cardinality(found) = 0 -> "create"
                      [] Cardinality(found) = 1 -> "409"
                      [] OTHER -> "500")

\* A conflict that only the commit finds is answered as an unknown role.
CreateInserts(c) == At(c, "create") /\ Insert(c, "422")

\* update_user: a row that is gone at the UPDATE raises.
SelectRow(c) ==
    /\ At(c, "row")
    /\ LET found == {u \in users : u.name = call[c].name}
       IN  IF found = {}
           THEN Reads(c, "404")
           ELSE /\ \E u \in found : Becomes(c, [call[c] EXCEPT !.step = "patch", !.by = u.id])
                /\ UNCHANGED <<users, made, roles>>

UpdateRow(c) ==
    /\ At(c, "patch")
    /\ LET found == {u \in users : u.id = call[c].by}
           patched == {[u EXCEPT !.role = call[c].role] : u \in found}
       IN  IF found # {} /\ found # patched /\ call[c].role \notin roles
           THEN Goes(c, "422") /\ UNCHANGED users
           ELSE /\ Goes(c, IF found = {} THEN "500" ELSE "ok")
                /\ users' = (users \ found) \cup patched
    /\ UNCHANGED <<made, roles>>

\* delete_user; its image is in UserFaces.
DeleteUser(u) ==
    /\ u \in users
    /\ users' = users \ {u}
    /\ UNCHANGED <<made, roles, call>>

\* delete_role, which the foreign key refuses while a user holds it.
DeleteRole(role) ==
    /\ role \in roles
    /\ \A u \in users : u.role # role
    /\ roles' = roles \ {role}
    /\ UNCHANGED <<users, made, call>>

BrokerStep(c) ==
    \/ SelectEmail(c) \/ SelectName(c) \/ SignupInserts(c) \/ Authenticate(c)
    \/ CheckToken(c) \/ SelectEither(c) \/ CreateInserts(c) \/ SelectRow(c) \/ UpdateRow(c)
=============================================================================
