------------------------------ MODULE PolicyPages ------------------------------
(***************************************************************************)
(* The pages that create and edit a policy (apps/webapp/app/policies/new,  *)
(* app/policies/[id]) with their form (components/policy-form.tsx) and     *)
(* its condition editor (components/policy-condition-editor.tsx), over the *)
(* broker's validation (packages/api/src/policies/service.py, models.py).  *)
(*                                                                         *)
(* One page is open on one policy.  Others meanwhile switch or delete that *)
(* policy, drop skills from the catalogue and delete roles.  A request to  *)
(* the broker is one step here; AccessAdmin cuts it at its awaits.         *)
(***************************************************************************)
EXTENDS PolicyRules

CONSTANTS
    AlwaysAllowed,  \* skills that the form does not offer
    First,          \* the signal listed first
    Typed,          \* bound: the lists that are typed, as sets of texts or numbers
    Chosen,         \* bound: the operators that are chosen
    Preset,         \* the scope of an empty draft
    Rows,           \* bound: the policies there may be at the start
    Resumed,        \* bound: the policies that a page goes on with once they are stored
    MaxTerms,       \* bound: predicates in a draft, of which the form takes any number
    MaxChanges      \* bound: changes made by others

Kinds == {"all", "categories", "skills"}
Modes == {"all_of", "any_of"}

\* A policy, and a draft of one.  Texts are left out.
Policy == [enabled : BOOLEAN, kind : Kinds, values : SUBSET (Categories \cup Skills),
           roles : SUBSET Roles, mode : Modes, terms : Seq(Predicate)]

\* A predicate as the form holds it: a scalar is one value of the signal's kind.
Shown(p) ==
    /\ p.list <=> p.op \in Memberships
    /\ p.op \in Orders => Kind[p.signal] = "number"
    /\ ~p.list => \E v \in p.values : p.values = {v} /\ Fits(p.signal, v)

\* What the broker demands of a policy, given the skills and roles it knows:
\* policies/service.py and models.py.
AcceptedWith(skills, names, d) ==
    /\ d.kind = "all" <=> d.values = {}
    /\ d.kind = "categories" => d.values \subseteq Categories
    /\ d.kind = "skills" => d.values \subseteq skills
    /\ d.roles \subseteq names
    /\ ConditionAccepted(d.terms)

ASSUME RowsAreAccepted ==
    /\ Rows \subseteq Policy /\ None \notin Policy
    /\ \A row \in Rows :
         /\ AcceptedWith(Skills, Roles, row)
         /\ Len(row.terms) <= MaxTerms
         /\ \A i \in DOMAIN row.terms : Shown(row.terms[i])
ASSUME FormIsTyped ==
    /\ First \in Signals
    /\ AlwaysAllowed \subseteq Skills
    /\ Preset \subseteq Categories
    /\ Typed \subseteq SUBSET Scalars
    /\ MaxTerms \in Nat /\ MaxTerms <= MaxPredicates
    /\ MaxChanges \in Nat

VARIABLES
    stored,     \* the policy, or None
    catalogue,  \* the skills in mcp_tools
    roles,      \* the roles there are
    editing,    \* the page is that of a stored policy
    page,       \* "loading", "ready", "saving", "stored", "left"
    draft,      \* the form, None before it is loaded
    original,   \* edit page: the row that was loaded or saved last
    offered,    \* the skills and roles that the form was loaded with
    changes     \* history: changes made by others

broker == <<stored, catalogue, roles>>
vars == <<broker, editing, page, draft, original, offered, changes>>

\* The types, and what the form may hold.
TypeOK ==
    /\ \A row \in {stored, draft, original} \ {None} :
         /\ row \in Policy
         /\ Len(row.terms) <= MaxTerms
         /\ \A i \in DOMAIN row.terms : Shown(row.terms[i])
    /\ catalogue \subseteq Skills /\ roles \subseteq Roles
    /\ editing \in BOOLEAN
    /\ page \in {"loading", "ready", "saving", "stored", "left"}
    /\ offered \in [skills : SUBSET Skills, roles : SUBSET Roles]
    /\ changes \in 0..MaxChanges
    /\ page \in {"ready", "saving", "stored"} => draft # None

\* emptyPolicyDraft
EmptyDraft == [enabled |-> TRUE, kind |-> "categories", values |-> Preset, roles |-> {},
               mode |-> "all_of", terms |-> <<>>]

Init ==
    /\ catalogue = Skills
    /\ roles = Roles
    /\ editing \in BOOLEAN
    /\ stored \in IF editing THEN Rows ELSE {None}
    /\ page = "loading"
    /\ draft = IF editing THEN None ELSE EmptyDraft
    /\ original = None
    /\ offered = [skills |-> {}, roles |-> {}]
    /\ changes = 0

\* The form is gone with its page.
Leave ==
    /\ page' = "left"
    /\ draft' = None
    /\ original' = None
    /\ UNCHANGED offered

\* What the form needs is loaded; a policy that is gone is not edited.
Load ==
    /\ page = "loading"
    /\ IF editing /\ stored = None
       THEN Leave
       ELSE /\ page' = "ready"
            /\ offered' = [skills |-> catalogue, roles |-> roles]
            /\ draft' = IF editing THEN stored ELSE draft
            /\ original' = stored
    /\ UNCHANGED <<broker, editing, changes>>

-----------------------------------------------------------------------------
\* The form.
Edit(next) ==
    /\ page = "ready"
    /\ draft' = next
    /\ UNCHANGED <<broker, editing, page, original, offered, changes>>

Toggled(set, x) == IF x \in set THEN set \ {x} ELSE set \cup {x}

\* Mutant: the values stay when the kind of scope changes.
ChangeScopeKindOnly(kind) == Edit([draft EXCEPT !.kind = kind])

ChangeScopeKind(kind) ==
    Edit(IF kind = draft.kind /\ kind # "all"
         THEN draft
         ELSE [draft EXCEPT !.kind = kind, !.values = {}])

\* A value of the scope that the form does not offer cannot be toggled.
ToggleScopeValue(value) ==
    /\ value \in CASE draft.kind = "all" -> {}
                   [] draft.kind = "categories" -> Categories
                   [] draft.kind = "skills" ->
                        {s \in offered.skills \ AlwaysAllowed : Category[s] # None}
    /\ Edit([draft EXCEPT !.values = Toggled(@, value)])

ToggleRole(role) ==
    /\ role \in offered.roles
    /\ Edit([draft EXCEPT !.roles = Toggled(@, role)])

ToggleEnabled == Edit([draft EXCEPT !.enabled = ~@])

\* The select is disabled while there is no predicate.
SetMode(mode) ==
    /\ draft.terms # <<>>
    /\ Edit([draft EXCEPT !.mode = mode])

Blank == ""

\* defaultValueFor
DefaultValue(s) ==
    CASE Kind[s] = "number" -> <<"number", 0>>
      [] Kind[s] = "bool" -> <<"bool", 1>>
      [] Kind[s] = "enum" -> <<"text", CHOOSE x \in EnumValues[s] : TRUE>>
      [] Kind[s] = "string" -> <<"text", Blank>>

ASSUME DefaultsExist ==
    \A s \in Signals : /\ Kind[s] = "enum" => EnumValues[s] # {}
                       /\ Kind[s] = "string" => Blank \in Texts

Fresh(s) == [signal |-> s, op |-> "==", list |-> FALSE, values |-> {DefaultValue(s)}]

AddPredicate ==
    /\ Len(draft.terms) < MaxTerms
    /\ Edit([draft EXCEPT !.terms = Append(@, Fresh(First))])

RemovePredicate(i) ==
    Edit([draft EXCEPT !.terms =
            SubSeq(@, 1, i - 1) \o SubSeq(@, i + 1, Len(@))])

\* Mutant: operator and value stay when the signal changes.
ChangeSignalOnly(i, s) == Edit([draft EXCEPT !.terms[i].signal = s])

\* updatePredicate with a signal: operator and value start afresh.
ChangeSignal(i, s) ==
    Edit(IF s = draft.terms[i].signal THEN draft ELSE [draft EXCEPT !.terms[i] = Fresh(s)])

\* Mutant: the value stays when the operator changes.
ChangeOperatorOnly(i, op) == Edit([draft EXCEPT !.terms[i].op = op])

\* updatePredicate with an operator: a value of the wrong shape is replaced.
ChangeOperator(i, op) ==
    LET p == draft.terms[i]
        wantsList == op \in Memberships
    IN  /\ op \in Chosen
        /\ op \in Orders => Kind[p.signal] = "number"
        /\ Edit([draft EXCEPT !.terms[i] =
                   IF p.list = wantsList
                   THEN [p EXCEPT !.op = op]
                   ELSE [p EXCEPT !.op = op, !.list = wantsList,
                                  !.values = {DefaultValue(p.signal)}]])

\* Mutant: an input that is cleared leaves no value.
ChangeValueOrNone(i) ==
    \E values \in {{}} \cup {{v} : v \in Values(draft.terms[i].signal)} :
        Edit([draft EXCEPT !.terms[i].values = values])

\* ValueInput: a list is typed, as texts or, of a number signal, numbers where
\* the text is one; otherwise the input is that of the signal's kind.
ChangeValue(i) ==
    LET p == draft.terms[i]
        kind == Kind[p.signal]
    IN  \E values \in
            IF p.list
            THEN {l \in Typed : kind # "number" => \A v \in l : v[1] = "text"}
            ELSE {{v} : v \in Values(p.signal)} :
          Edit([draft EXCEPT !.terms[i].values = values])

Reset ==
    /\ editing
    /\ Edit(original)

-----------------------------------------------------------------------------
\* validateDraft
SavesEnabled(d) ==
    /\ d.kind # "all" => d.values # {}
    /\ d.terms # <<>>

Accepted(d) == AcceptedWith(catalogue, roles, d)

Save ==
    /\ page = "ready"
    /\ SavesEnabled(draft)
    /\ page' = "saving"
    /\ UNCHANGED <<broker, editing, draft, original, offered, changes>>

\* The broker commits the policy.
Saved ==
    /\ page = "saving"
    /\ Accepted(draft)
    /\ editing <=> stored # None
    /\ stored' = draft
    /\ page' = "stored"
    /\ UNCHANGED <<catalogue, roles, editing, draft, original, offered, changes>>

\* It reads the row again, in a new transaction, and answers with it: the new
\* page goes to the list, the edit page takes the row up and goes on.  Bound:
\* with any other row than these the page is closed.
Answered ==
    /\ page = "stored" /\ stored # None
    /\ IF editing /\ stored \in Resumed
       THEN /\ page' = "ready" /\ original' = stored /\ draft' = stored
            /\ UNCHANGED offered
       ELSE Leave
    /\ UNCHANGED <<broker, editing, changes>>

\* The broker refuses, or the request or its answer is lost, or the row is gone
\* before it is read again.  Bound: as in Answered.
NotSaved ==
    /\ \/ page = "saving"
       \/ page = "stored" /\ (stored = None \/ (editing /\ stored \in Resumed))
    /\ page' = "ready"
    /\ UNCHANGED <<broker, editing, draft, original, offered, changes>>

\* The page is closed.
Close ==
    /\ page = "ready"
    /\ Leave
    /\ UNCHANGED <<broker, editing, changes>>

-----------------------------------------------------------------------------
\* What others do: the list page's switch and its delete button, a sync that
\* drops a skill, the deletion of a role.  No policy prevents either.
Others ==
    /\ changes < MaxChanges
    /\ changes' = changes + 1
    /\ \/ /\ stored # None
          /\ stored' \in {[stored EXCEPT !.enabled = ~@], None}
          /\ UNCHANGED <<catalogue, roles>>
       \/ /\ \E s \in catalogue : catalogue' = catalogue \ {s}
          /\ UNCHANGED <<stored, roles>>
       \/ /\ \E r \in roles : roles' = roles \ {r}
          /\ UNCHANGED <<stored, catalogue>>
    /\ UNCHANGED <<editing, page, draft, original, offered>>

EditScope ==
    \/ \E kind \in Kinds : ChangeScopeKind(kind)
    \/ \E value \in Categories \cup Skills : ToggleScopeValue(value)
    \/ \E role \in Roles : ToggleRole(role)
    \/ ToggleEnabled

EditCondition ==
    \/ \E mode \in Modes : SetMode(mode)
    \/ AddPredicate
    \/ \E i \in DOMAIN draft.terms :
          \/ RemovePredicate(i)
          \/ \E s \in Signals : ChangeSignal(i, s)
          \/ \E op \in Operators : ChangeOperator(i, op)
          \/ ChangeValue(i)

Next ==
    \/ Load \/ Save \/ Saved \/ Answered \/ NotSaved \/ Close
    \/ Others
    \/ page = "ready" /\ (EditScope \/ EditCondition \/ Reset)

Spec == Init /\ [][Next]_vars

-----------------------------------------------------------------------------
\* Every list was typed, and with values of the signal's type.
ListsFit(d) ==
    \A i \in DOMAIN d.terms :
        LET p == d.terms[i]
        IN  p.list => p.values # {} /\ \A v \in p.values : Fits(p.signal, v)

\* validateDraft mirrors the broker's validation: whatever way the form was
\* edited, a draft that can be saved is accepted.  That takes lists that
\* were typed well, no more predicates than the broker takes, and a broker
\* that still is as the form was loaded.
SaveButtonIsRight ==
    /\ page = "ready" /\ SavesEnabled(draft)
    /\ ListsFit(draft)
    /\ offered = [skills |-> catalogue, roles |-> roles]
    /\ original # None => Accepted(original)
    => Accepted(draft)

\* The values of its signal that a predicate describes.
Region(p) ==
    CASE p.op \in {"==", "in"} -> p.values
      [] p.op \in {"!=", "not_in"} -> Values(p.signal) \ p.values
      [] p.op = "<" -> {v \in Values(p.signal) : \A w \in p.values : v[2] < w[2]}
      [] p.op = "<=" -> {v \in Values(p.signal) : \A w \in p.values : v[2] <= w[2]}
      [] p.op = ">" -> {v \in Values(p.signal) : \A w \in p.values : v[2] > w[2]}
      [] p.op = ">=" -> {v \in Values(p.signal) : \A w \in p.values : v[2] >= w[2]}

Readings == UNION {[S -> Scalars] : S \in SUBSET Signals}
TypedReadings == {r \in Readings : \A s \in DOMAIN r : Fits(s, r[s])}

\* What is not measured has its default in the world.
World(readings) ==
    [s \in Signals |-> IF s \in DOMAIN readings THEN readings[s] ELSE Default[s]]

\* The predicates in whose region the world lies.
Fulfilled(policy, readings) ==
    {i \in DOMAIN policy.terms :
        World(readings)[policy.terms[i].signal] \in Region(policy.terms[i])}

\* How a policy reads: the call is about what it names, by its own name or by
\* that of its category, and the world lies in all (in one) of the regions.
ReadsAsDenial(policy, role, skill, readings) ==
    /\ policy.enabled
    /\ policy.roles \cap {role} # {} \/ policy.roles = {}
    /\ \/ policy.kind = "all"
       \/ {skill, Category[skill]} \cap policy.values # {}
    /\ IF policy.mode = "all_of"
       THEN Fulfilled(policy, readings) = DOMAIN policy.terms
       ELSE Fulfilled(policy, readings) # {}

\* The evaluator fires as the rule reads, of every policy that the page saved.
DeniesAsRead ==
    page = "left" /\ stored # None =>
        \A readings \in TypedReadings, role \in Roles \cup {None}, skill \in Skills :
            PolicyDenies(stored, role, skill, readings)
                <=> ReadsAsDenial(stored, role, skill, readings)
=============================================================================
