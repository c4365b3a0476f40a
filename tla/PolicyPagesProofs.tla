--------------------------- MODULE PolicyPagesProofs ---------------------------
(***************************************************************************)
(* What holds of the policy pages for every set of signals, skills, roles  *)
(* and stored policies, whatever the form is used for and the others do:   *)
(* first of the language of conditions, then of the form.                  *)
(***************************************************************************)
EXTENDS PolicyPages, SequenceTheorems, TLAPS

-----------------------------------------------------------------------------
\* Conditions.

LEMMA ScalarPair ==
    ASSUME NEW v \in Scalars, NEW w \in Scalars, v[1] = w[1], v[2] = w[2]
    PROVE  v = w
  BY DEF Scalars

LEMMA NumbersCompare ==
    ASSUME NEW v \in Scalars, v[1] # "text"
    PROVE  v[2] \in Nat
  <1>1. CASE v \in {"number"} \X Numbers
    BY <1>1, NumbersAreNat
  <1>2. CASE v \in {"bool"} \X {0, 1}
    BY <1>2
  <1>3. CASE v \in {"text"} \X Texts
    BY <1>3
  <1>4. QED
    BY <1>1, <1>2, <1>3 DEF Scalars

\* The values of a signal are of one type.
LEMMA ValuesAgree ==
    ASSUME NEW s \in Signals, NEW v \in Values(s), NEW w \in Values(s)
    PROVE  /\ v \in Scalars /\ w \in Scalars
           /\ v[1] = w[1]
           /\ Kind[s] = "number" => v[1] = "number"
  BY SignalsAreDescribed DEF Values, Fits

\* Python's == is equality on the values of one signal.
LEMMA SameIsEqual ==
    ASSUME NEW s \in Signals, NEW v \in Values(s), NEW w \in Values(s)
    PROVE  Same(v, w) <=> v = w
  BY ValuesAgree, ScalarPair DEF Same

\* A predicate that the form holds and the broker accepts.
Sound(p) == p \in Predicate /\ Shown(p) /\ PredicateAccepted(p)

LEMMA SoundPredicate ==
    ASSUME NEW p, Sound(p)
    PROVE  /\ p.signal \in Signals /\ p.op \in Operators
           /\ p.values \subseteq Values(p.signal) /\ p.values # {}
           /\ p.op \in Orders => /\ \A v \in Values(p.signal) : v[1] = "number" /\ v[2] \in Nat
                                 /\ \E v \in Values(p.signal) : p.values = {v}
  <1>1. p.signal \in Signals /\ p.op \in Operators /\ p.values \in SUBSET Scalars
    BY DEF Sound, Predicate
  <1>2. p.values \subseteq Values(p.signal) /\ p.values # {}
    BY <1>1 DEF Sound, PredicateAccepted, Values
  <1>3. ASSUME p.op \in Orders
        PROVE  /\ \A v \in Values(p.signal) : v[1] = "number" /\ v[2] \in Nat
               /\ \E v \in Values(p.signal) : p.values = {v}
    <2>1. Kind[p.signal] = "number" /\ ~p.list
      BY <1>3 DEF Sound, PredicateAccepted, Orders, Memberships
    <2>2. \A v \in Values(p.signal) : v[1] = "number" /\ v[2] \in Nat
      BY <1>1, <2>1, ValuesAgree, NumbersCompare
    <2>3. PICK v \in p.values : p.values = {v}
      BY <2>1 DEF Sound, Shown
    <2> QED
      BY <1>2, <2>2, <2>3
  <1>4. QED
    BY <1>1, <1>2, <1>3

\* _eval_predicate says whether the reading is among the values that the
\* predicate describes.
LEMMA PredicateReads ==
    ASSUME NEW p, Sound(p), NEW readings,
           SignalValue(readings, p.signal) \in Values(p.signal) \cup {None}
    PROVE  PredicateHolds(p, readings) <=> SignalValue(readings, p.signal) \in Region(p)
  <1> DEFINE a == SignalValue(readings, p.signal)
  <1>a. /\ p.signal \in Signals /\ p.op \in Operators
        /\ p.values \subseteq Values(p.signal) /\ p.values # {}
        /\ p.op \in Orders => /\ \A v \in Values(p.signal) : v[1] = "number" /\ v[2] \in Nat
                              /\ \E v \in Values(p.signal) : p.values = {v}
    BY SoundPredicate
  <1>1. CASE a = None
    <2>1. None \notin Values(p.signal)
      BY SignalsAreDescribed DEF Values
    <2>2. Region(p) \subseteq Values(p.signal)
      BY <1>a DEF Region, Operators, Orders, Memberships
    <2> QED
      BY <1>1, <2>1, <2>2 DEF PredicateHolds
  <1>2. CASE a \in Values(p.signal) /\ a # None
    <2> HIDE DEF a
    <2>1. (\E v \in p.values : Same(a, v)) <=> a \in p.values
      BY <1>a, <1>2, SameIsEqual
    <2>2. CASE p.op \in {"==", "in"}
      BY <1>2, <2>1, <2>2 DEF PredicateHolds, Region, a
    <2>3. CASE p.op \in {"!=", "not_in"}
      BY <1>2, <2>1, <2>3 DEF PredicateHolds, Region, a
    <2>4. ASSUME p.op \in Orders
          PROVE  PredicateHolds(p, readings) <=> a \in Region(p)
      <3>1. PICK w \in Values(p.signal) : p.values = {w}
        BY <1>a, <2>4
      <3>2. /\ a[1] = "number" /\ a[2] \in Nat
            /\ w[1] = "number" /\ w[2] \in Nat
        BY <1>a, <1>2, <2>4
      <3>3. CASE p.op = "<"
        BY <1>2, <3>1, <3>2, <3>3 DEF PredicateHolds, Region, Below, IsNumber, a
      <3>4. CASE p.op = "<="
        BY <1>2, <3>1, <3>2, <3>4 DEF PredicateHolds, Region, UpTo, IsNumber, a
      <3>5. CASE p.op = ">"
        BY <1>2, <3>1, <3>2, <3>5 DEF PredicateHolds, Region, Below, IsNumber, a
      <3>6. CASE p.op = ">="
        BY <1>2, <3>1, <3>2, <3>6 DEF PredicateHolds, Region, UpTo, IsNumber, a
      <3> QED
        BY <2>4, <3>3, <3>4, <3>5, <3>6 DEF Orders
    <2> QED
      BY <1>a, <2>2, <2>3, <2>4 DEF Operators, Memberships, a
  <1>3. QED
    BY <1>1, <1>2

-----------------------------------------------------------------------------
\* The form.

Terms == {p \in Predicate : Shown(p)}

\* A scope names what its kind is of.
Coherent(d) ==
    /\ d.kind = "all" => d.values = {}
    /\ d.kind = "categories" => d.values \subseteq Categories
    /\ d.kind = "skills" => d.values \subseteq Skills

\* What the form holds, and what the broker has stored.
Editable(d) ==
    /\ d \in Policy
    /\ d.terms \in Seq(Terms)
    /\ Len(d.terms) <= MaxTerms
    /\ Coherent(d)

Storable(d) == Editable(d) /\ ConditionAccepted(d.terms)

OriginalSkills == IF original # None /\ original.kind = "skills" THEN original.values ELSE {}
OriginalRoles == IF original # None THEN original.roles ELSE {}

\* A name in the form was offered by it or is in the row that it was loaded with.
NamesHaveSource ==
    /\ draft.kind = "skills" => draft.values \subseteq offered.skills \cup OriginalSkills
    /\ draft.roles \subseteq offered.roles \cup OriginalRoles

PageInv ==
    /\ stored # None => Storable(stored)
    /\ draft # None => Editable(draft)
    /\ original # None => Storable(original)
    /\ catalogue \subseteq Skills /\ roles \subseteq Roles
    /\ editing \in BOOLEAN
    /\ page \in {"loading", "ready", "saving", "stored", "left"}
    /\ offered \in [skills : SUBSET Skills, roles : SUBSET Roles]
    /\ changes \in 0..MaxChanges
    /\ page = "loading" /\ ~editing => draft = EmptyDraft
    /\ page \in {"ready", "saving", "stored"} =>
          /\ draft # None
          /\ editing => original # None
          /\ NamesHaveSource

-----------------------------------------------------------------------------
LEMMA TermsSeq ==
    ASSUME NEW t \in Seq(Predicate), \A i \in DOMAIN t : Shown(t[i])
    PROVE  t \in Seq(Terms)
  BY DEF Terms

LEMMA SeqTerms ==
    ASSUME NEW t \in Seq(Terms)
    PROVE  t \in Seq(Predicate) /\ \A i \in DOMAIN t : t[i] \in Predicate /\ Shown(t[i])
  BY DEF Terms

LEMMA RowsAreStorable ==
    ASSUME NEW row \in Rows
    PROVE  Storable(row)
  <1>1. row \in Policy /\ row.terms \in Seq(Predicate)
    BY RowsAreAccepted DEF Policy
  <1>2. row.terms \in Seq(Terms)
    BY <1>1, RowsAreAccepted, TermsSeq
  <1>3. QED
    BY <1>1, <1>2, RowsAreAccepted DEF Storable, Editable, Coherent, AcceptedWith

LEMMA EmptyDraftIsEditable == Editable(EmptyDraft)
  <1>1. EmptyDraft \in Policy
    BY FormIsTyped DEF EmptyDraft, Policy, Kinds, Modes
  <1>2. EmptyDraft.terms \in Seq(Terms) /\ Len(EmptyDraft.terms) <= MaxTerms
    BY FormIsTyped DEF EmptyDraft
  <1>3. Coherent(EmptyDraft)
    BY FormIsTyped DEF EmptyDraft, Coherent
  <1>4. QED
    BY <1>1, <1>2, <1>3 DEF Editable

LEMMA DefaultIsValue ==
    ASSUME NEW s \in Signals
    PROVE  DefaultValue(s) \in Values(s)
  <1>1. Kind[s] \in {"number", "bool", "enum", "string"}
    BY SignalsAreDescribed
  <1>2. QED
    BY <1>1, SignalsAreDescribed, DefaultsExist, NumbersAreNat
    DEF DefaultValue, Values, Fits, Scalars

LEMMA FreshIsShown ==
    ASSUME NEW s \in Signals
    PROVE  Fresh(s) \in Terms
  <1>1. DefaultValue(s) \in Scalars /\ Fits(s, DefaultValue(s))
    BY DefaultIsValue DEF Values
  <1>2. Fresh(s) \in Predicate
    BY <1>1 DEF Fresh, Predicate, Operators
  <1>3. Shown(Fresh(s))
    BY <1>1 DEF Fresh, Shown, Memberships, Orders
  <1>4. QED
    BY <1>2, <1>3 DEF Terms

\* A draft whose predicates are edited.
LEMMA WithTerms ==
    ASSUME NEW d, Editable(d), NEW t \in Seq(Terms), Len(t) <= MaxTerms
    PROVE  /\ Editable([d EXCEPT !.terms = t])
           /\ [d EXCEPT !.terms = t].kind = d.kind
           /\ [d EXCEPT !.terms = t].values = d.values
           /\ [d EXCEPT !.terms = t].roles = d.roles
  <1>1. t \in Seq(Predicate)
    BY SeqTerms
  <1>2. PICK e : e = [d EXCEPT !.terms = t]
    OBVIOUS
  <1>3. /\ e \in Policy
        /\ e.terms = t /\ e.kind = d.kind /\ e.values = d.values /\ e.roles = d.roles
    BY <1>1, <1>2 DEF Editable, Policy
  <1>4. Editable(e)
    BY <1>3 DEF Editable, Coherent
  <1>5. QED
    BY <1>2, <1>3, <1>4

LEMMA WithTerm ==
    ASSUME NEW t \in Seq(Terms), NEW i \in DOMAIN t, NEW p \in Terms
    PROVE  [t EXCEPT ![i] = p] \in Seq(Terms) /\ Len([t EXCEPT ![i] = p]) = Len(t)
  BY ExceptSeq

LEMMA WithoutTerm ==
    ASSUME NEW t \in Seq(Terms), NEW i \in DOMAIN t
    PROVE  LET u == SubSeq(t, 1, i - 1) \o SubSeq(t, i + 1, Len(t))
           IN  u \in Seq(Terms) /\ Len(u) <= Len(t)
  <1>1. i \in 1..Len(t) /\ Len(t) \in Nat /\ \A j \in 1..Len(t) : t[j] \in Terms
    OBVIOUS
  <1>2. SubSeq(t, 1, i - 1) \in Seq(Terms) /\ Len(SubSeq(t, 1, i - 1)) = i - 1
    <2>1. \A j \in 1..(i - 1) : t[j] \in Terms
      BY <1>1
    <2>2. 1 \in Int /\ i - 1 \in Int
      BY <1>1
    <2> QED
      BY <1>1, <2>1, <2>2, SubSeqProperties
  <1>3. SubSeq(t, i + 1, Len(t)) \in Seq(Terms) /\ Len(SubSeq(t, i + 1, Len(t))) = Len(t) - i
    <2>1. \A j \in (i + 1)..Len(t) : t[j] \in Terms
      BY <1>1
    <2>2. i + 1 \in Int /\ Len(t) \in Int
      BY <1>1
    <2> QED
      BY <1>1, <2>1, <2>2, SubSeqProperties
  <1>4. ASSUME NEW a \in Seq(Terms), NEW b \in Seq(Terms),
               Len(a) = i - 1, Len(b) = Len(t) - i
        PROVE  a \o b \in Seq(Terms) /\ Len(a \o b) <= Len(t)
    <2>1. a \o b \in Seq(Terms) /\ Len(a \o b) = Len(a) + Len(b)
      BY ConcatProperties
    <2>2. PICK m \in Nat : m = Len(t) /\ i \in 1..m
      BY <1>1
    <2>3. (i - 1) + (m - i) = m - 1 /\ m - 1 <= m
      BY <2>2
    <2>4. Len(a \o b) = m - 1
      BY <1>4, <2>1, <2>2, <2>3
    <2>5. QED
      BY <2>1, <2>2, <2>3, <2>4
  <1>5. QED
    BY <1>2, <1>3, <1>4

\* An edit that leaves the draft editable and brings no name from elsewhere.
LEMMA EditKeepsInv ==
    ASSUME PageInv, NEW next, Edit(next), Editable(next),
           next.kind = "skills" => next.values \subseteq offered.skills \cup OriginalSkills,
           next.roles \subseteq offered.roles \cup OriginalRoles
    PROVE  PageInv'
  <1>1. next # None
    BY RowsAreAccepted DEF Editable
  <1>2. /\ page = "ready" /\ draft' = next
        /\ UNCHANGED <<stored, catalogue, roles, editing, page, original, offered, changes>>
    BY DEF Edit, broker
  <1>3. NamesHaveSource'
    BY <1>2 DEF NamesHaveSource, OriginalSkills, OriginalRoles
  <1>4. QED
    BY <1>1, <1>2, <1>3 DEF PageInv

LEMMA EditTermsKeepsInv ==
    ASSUME PageInv, NEW t \in Seq(Terms), Len(t) <= MaxTerms, Edit([draft EXCEPT !.terms = t])
    PROVE  PageInv'
  <1>1. Editable(draft) /\ NamesHaveSource
    BY DEF PageInv, Edit
  <1>2. QED
    BY <1>1, WithTerms, EditKeepsInv DEF NamesHaveSource

-----------------------------------------------------------------------------
\* The form is loaded with what the broker has, and starts empty or as the row.
LEMMA InitPageInv == Init => PageInv
  <1> SUFFICES ASSUME Init PROVE PageInv
    OBVIOUS
  <1>1. EmptyDraft # None
    BY EmptyDraftIsEditable, RowsAreAccepted DEF Editable
  <1>2. stored # None => Storable(stored)
    BY RowsAreStorable DEF Init
  <1>3. draft # None => Editable(draft)
    BY EmptyDraftIsEditable DEF Init
  <1>4. offered \in [skills : SUBSET Skills, roles : SUBSET Roles]
    BY DEF Init
  <1>5. changes \in 0..MaxChanges
    BY FormIsTyped DEF Init
  <1>6. page = "loading" /\ ~editing => draft = EmptyDraft
    BY DEF Init
  <1>7. QED
    BY <1>2, <1>3, <1>4, <1>5, <1>6 DEF Init, PageInv

LEMMA LeaveKeepsInv ==
    ASSUME PageInv, Leave, stored' # None => Storable(stored'),
           UNCHANGED <<catalogue, roles, editing, changes>>
    PROVE  PageInv'
  BY DEF PageInv, Leave

LEMMA LoadKeepsInv ==
    ASSUME PageInv, Load
    PROVE  PageInv'
  <1>1. UNCHANGED <<stored, catalogue, roles, editing, changes>>
    BY DEF Load, broker
  <1>2. CASE Leave
    BY <1>1, <1>2, LeaveKeepsInv DEF PageInv
  <1>3. CASE /\ ~(editing /\ stored = None)
             /\ page' = "ready"
             /\ offered' = [skills |-> catalogue, roles |-> roles]
             /\ draft' = IF editing THEN stored ELSE draft
             /\ original' = stored
    <2>1. CASE editing
      <3>1. draft' # None /\ draft' = stored /\ original' = stored
        BY <1>3, <2>1
      <3>2. NamesHaveSource'
        BY <3>1 DEF NamesHaveSource, OriginalSkills, OriginalRoles
      <3>3. QED
        BY <1>1, <1>3, <2>1, <3>1, <3>2 DEF PageInv, Storable
    <2>2. CASE ~editing
      <3>1. draft' = EmptyDraft
        BY <1>3, <2>2 DEF Load, PageInv
      <3>2. EmptyDraft # None /\ Editable(EmptyDraft)
        BY EmptyDraftIsEditable, RowsAreAccepted DEF Editable
      <3>3. NamesHaveSource'
        BY <3>1 DEF NamesHaveSource, EmptyDraft
      <3>4. QED
        BY <1>1, <1>3, <2>2, <3>1, <3>2, <3>3 DEF PageInv
    <2>3. QED
      BY <2>1, <2>2
  <1>4. QED
    BY <1>2, <1>3 DEF Load

\* A draft with another scope.
LEMMA WithScope ==
    ASSUME NEW d, Editable(d), NEW e \in Policy, e.roles = d.roles, e.terms = d.terms,
           e.kind = "all" => e.values = {},
           e.kind = "categories" => e.values \subseteq Categories,
           e.kind = "skills" => e.values \subseteq Skills
    PROVE  Editable(e)
  BY DEF Editable, Coherent

LEMMA ChangeScopeKindKeepsInv ==
    ASSUME PageInv, NEW kind \in Kinds, ChangeScopeKind(kind)
    PROVE  PageInv'
  <1>1. Editable(draft) /\ NamesHaveSource
    BY DEF PageInv, ChangeScopeKind, Edit
  <1>2. CASE Edit(draft)
    BY <1>1, <1>2, EditKeepsInv DEF NamesHaveSource
  <1>3. CASE Edit([draft EXCEPT !.kind = kind, !.values = {}])
    <2>1. PICK e : e = [draft EXCEPT !.kind = kind, !.values = {}]
      OBVIOUS
    <2>2. e \in Policy /\ e.values = {} /\ e.roles = draft.roles /\ e.terms = draft.terms
      BY <1>1, <2>1 DEF Editable, Policy
    <2>3. Editable(e)
      BY <1>1, <2>2, WithScope
    <2>4. Edit(e)
      BY <1>3, <2>1
    <2>5. QED
      BY <1>1, <2>2, <2>3, <2>4, EditKeepsInv DEF NamesHaveSource
  <1>4. QED
    BY <1>2, <1>3 DEF ChangeScopeKind

LEMMA ToggleScopeValueKeepsInv ==
    ASSUME PageInv, NEW value, ToggleScopeValue(value)
    PROVE  PageInv'
  <1>1. /\ Editable(draft) /\ NamesHaveSource
        /\ draft \in Policy /\ draft.kind \in Kinds
        /\ draft.values \subseteq Categories \cup Skills
        /\ offered.skills \subseteq Skills
    BY DEF PageInv, ToggleScopeValue, Edit, Editable, Policy
  <1>2. \/ draft.kind = "categories" /\ value \in Categories
        \/ draft.kind = "skills" /\ value \in offered.skills
    BY <1>1 DEF ToggleScopeValue, Kinds
  <1>3. PICK values : values = Toggled(draft.values, value)
    OBVIOUS
  <1>4. values \subseteq draft.values \cup {value}
    BY <1>3 DEF Toggled
  <1>5. PICK e : e = [draft EXCEPT !.values = values]
    OBVIOUS
  <1>6. /\ e \in Policy /\ e.kind = draft.kind /\ e.values = values
        /\ e.roles = draft.roles /\ e.terms = draft.terms
    <2>1. values \in SUBSET (Categories \cup Skills)
      BY <1>1, <1>2, <1>4
    <2>2. QED
      BY <1>1, <1>5, <2>1 DEF Policy
  <1>7. Editable(e) /\ Edit(e)
    <2>1. /\ draft.kind = "all" => values = {}
          /\ draft.kind = "categories" => values \subseteq Categories
          /\ draft.kind = "skills" => values \subseteq Skills
      BY <1>1, <1>2, <1>4 DEF Editable, Coherent
    <2>2. Editable(e)
      BY <1>1, <1>6, <2>1, WithScope
    <2>3. Edit(e)
      BY <1>3, <1>5 DEF ToggleScopeValue
    <2>4. QED
      BY <2>2, <2>3
  <1>8. e.kind = "skills" => e.values \subseteq offered.skills \cup OriginalSkills
    BY <1>1, <1>2, <1>4, <1>6 DEF NamesHaveSource
  <1>9. QED
    BY <1>1, <1>6, <1>7, <1>8, EditKeepsInv DEF NamesHaveSource

LEMMA ToggleRoleKeepsInv ==
    ASSUME PageInv, NEW role, ToggleRole(role)
    PROVE  PageInv'
  <1>1. /\ Editable(draft) /\ NamesHaveSource /\ draft \in Policy /\ draft.roles \subseteq Roles
        /\ role \in offered.roles /\ role \in Roles
    BY DEF PageInv, ToggleRole, Edit, Editable, Policy
  <1>2. PICK rs : rs = Toggled(draft.roles, role)
    OBVIOUS
  <1>3. rs \subseteq draft.roles \cup {role}
    BY <1>2 DEF Toggled
  <1>4. PICK e : e = [draft EXCEPT !.roles = rs]
    OBVIOUS
  <1>5. /\ e \in Policy /\ e.roles = rs
        /\ e.kind = draft.kind /\ e.values = draft.values /\ e.terms = draft.terms
    BY <1>1, <1>3, <1>4 DEF Policy
  <1>6. Editable(e)
    BY <1>1, <1>5 DEF Editable, Coherent
  <1>7. Edit(e)
    BY <1>2, <1>4 DEF ToggleRole
  <1>8. QED
    BY <1>1, <1>3, <1>5, <1>6, <1>7, EditKeepsInv DEF NamesHaveSource

\* The switches of the form: whether it is enabled, and how predicates combine.
LEMMA WithSwitches ==
    ASSUME PageInv, NEW e \in Policy, Edit(e),
           e.kind = draft.kind, e.values = draft.values, e.roles = draft.roles,
           e.terms = draft.terms
    PROVE  PageInv'
  <1>1. Editable(draft) /\ NamesHaveSource
    BY DEF PageInv, Edit
  <1>2. Editable(e)
    BY <1>1 DEF Editable, Coherent
  <1>3. QED
    BY <1>1, <1>2, EditKeepsInv DEF NamesHaveSource

LEMMA ToggleEnabledKeepsInv ==
    ASSUME PageInv, ToggleEnabled
    PROVE  PageInv'
  <1>1. draft \in Policy
    BY DEF PageInv, ToggleEnabled, Edit, Editable
  <1>2. PICK e : e = [draft EXCEPT !.enabled = ~@]
    OBVIOUS
  <1>3. /\ e \in Policy
        /\ e.kind = draft.kind /\ e.values = draft.values /\ e.roles = draft.roles
        /\ e.terms = draft.terms
    BY <1>1, <1>2 DEF Policy
  <1>4. QED
    BY <1>2, <1>3, WithSwitches DEF ToggleEnabled

LEMMA SetModeKeepsInv ==
    ASSUME PageInv, NEW mode \in Modes, SetMode(mode)
    PROVE  PageInv'
  <1>1. draft \in Policy
    BY DEF PageInv, SetMode, Edit, Editable
  <1>2. PICK e : e = [draft EXCEPT !.mode = mode]
    OBVIOUS
  <1>3. /\ e \in Policy
        /\ e.kind = draft.kind /\ e.values = draft.values /\ e.roles = draft.roles
        /\ e.terms = draft.terms
    BY <1>1, <1>2 DEF Policy
  <1>4. QED
    BY <1>2, <1>3, WithSwitches DEF SetMode

-----------------------------------------------------------------------------
\* The predicates.
LEMMA AddPredicateKeepsInv ==
    ASSUME PageInv, AddPredicate
    PROVE  PageInv'
  <1>1. Editable(draft)
    BY DEF PageInv, AddPredicate, Edit
  <1>2. draft.terms \in Seq(Terms) /\ Len(draft.terms) < MaxTerms
    BY <1>1 DEF Editable, AddPredicate
  <1>3. Fresh(First) \in Terms
    BY FormIsTyped, FreshIsShown
  <1>4. PICK t : t = Append(draft.terms, Fresh(First))
    OBVIOUS
  <1>5. t \in Seq(Terms) /\ Len(t) <= MaxTerms
    BY <1>2, <1>3, <1>4, FormIsTyped, AppendProperties
  <1>6. QED
    BY <1>4, <1>5, EditTermsKeepsInv DEF AddPredicate

LEMMA RemovePredicateKeepsInv ==
    ASSUME PageInv, NEW i \in DOMAIN draft.terms, RemovePredicate(i)
    PROVE  PageInv'
  <1>1. Editable(draft)
    BY DEF PageInv, RemovePredicate, Edit
  <1>2. draft.terms \in Seq(Terms) /\ Len(draft.terms) <= MaxTerms
    BY <1>1 DEF Editable
  <1>3. PICK t : t = SubSeq(draft.terms, 1, i - 1) \o SubSeq(draft.terms, i + 1, Len(draft.terms))
    OBVIOUS
  <1>4. t \in Seq(Terms) /\ Len(t) <= Len(draft.terms)
    BY <1>2, <1>3, WithoutTerm
  <1>5. Len(t) <= MaxTerms
    BY <1>2, <1>4, FormIsTyped
  <1>6. QED
    BY <1>3, <1>4, <1>5, EditTermsKeepsInv DEF RemovePredicate

LEMMA TermKeepsInv ==
    ASSUME PageInv, NEW i \in DOMAIN draft.terms, NEW p \in Terms,
           Edit([draft EXCEPT !.terms[i] = p])
    PROVE  PageInv'
  <1>1. Editable(draft)
    BY DEF PageInv, Edit
  <1>2. draft.terms \in Seq(Terms) /\ Len(draft.terms) <= MaxTerms
    BY <1>1 DEF Editable
  <1>3. PICK t : t = [draft.terms EXCEPT ![i] = p]
    OBVIOUS
  <1>4. t \in Seq(Terms) /\ Len(t) <= MaxTerms
    BY <1>2, <1>3, WithTerm
  <1>5. QED
    BY <1>3, <1>4, EditTermsKeepsInv

LEMMA ChangeSignalKeepsInv ==
    ASSUME PageInv, NEW i \in DOMAIN draft.terms, NEW s \in Signals, ChangeSignal(i, s)
    PROVE  PageInv'
  <1>1. Editable(draft) /\ NamesHaveSource
    BY DEF PageInv, ChangeSignal, Edit
  <1>2. CASE Edit(draft)
    BY <1>1, <1>2, EditKeepsInv DEF NamesHaveSource
  <1>3. CASE Edit([draft EXCEPT !.terms[i] = Fresh(s)])
    BY <1>3, FreshIsShown, TermKeepsInv
  <1>4. QED
    BY <1>2, <1>3 DEF ChangeSignal

\* An operator of the other shape comes with a value of that shape.
LEMMA ChangeOperatorKeepsInv ==
    ASSUME PageInv, NEW i \in DOMAIN draft.terms, NEW op \in Operators, ChangeOperator(i, op)
    PROVE  PageInv'
  <1>1. Editable(draft)
    BY DEF PageInv, ChangeOperator, Edit
  <1>2. PICK p \in Terms : p = draft.terms[i]
    BY <1>1 DEF Editable
  <1>3. p \in Predicate /\ Shown(p) /\ p.signal \in Signals
    BY <1>2 DEF Terms, Predicate
  <1>4. PICK wants \in BOOLEAN : wants = (op \in Memberships)
    <2>1. (op \in Memberships) \in BOOLEAN
      OBVIOUS
    <2>2. QED
      BY <2>1
  <1>5. op \in Orders => Kind[p.signal] = "number"
    BY <1>2 DEF ChangeOperator
  <1>6. CASE p.list = wants
    <2>1. PICK q : q = [p EXCEPT !.op = op]
      OBVIOUS
    <2>2. q \in Predicate /\ q.op = op /\ q.signal = p.signal /\ q.list = p.list
          /\ q.values = p.values
      BY <1>3, <2>1 DEF Predicate
    <2>3. Shown(q)
      BY <1>3, <1>4, <1>5, <1>6, <2>2 DEF Shown
    <2>4. Edit([draft EXCEPT !.terms[i] = q])
      BY <1>2, <1>4, <1>6, <2>1 DEF ChangeOperator
    <2>5. QED
      BY <2>2, <2>3, <2>4, TermKeepsInv DEF Terms
  <1>7. CASE p.list # wants
    <2>1. DefaultValue(p.signal) \in Scalars /\ Fits(p.signal, DefaultValue(p.signal))
      BY <1>3, DefaultIsValue DEF Values
    <2>2. PICK q : q = [p EXCEPT !.op = op, !.list = wants, !.values = {DefaultValue(p.signal)}]
      OBVIOUS
    <2>3. q \in Predicate /\ q.op = op /\ q.signal = p.signal /\ q.list = wants
          /\ q.values = {DefaultValue(p.signal)}
      BY <1>3, <2>1, <2>2 DEF Predicate
    <2>4. Shown(q)
      BY <1>4, <1>5, <2>1, <2>3 DEF Shown
    <2>5. Edit([draft EXCEPT !.terms[i] = q])
      BY <1>2, <1>4, <1>7, <2>2 DEF ChangeOperator
    <2>6. QED
      BY <2>3, <2>4, <2>5, TermKeepsInv DEF Terms
  <1>8. QED
    BY <1>6, <1>7

LEMMA ChangeValueKeepsInv ==
    ASSUME PageInv, NEW i \in DOMAIN draft.terms, ChangeValue(i)
    PROVE  PageInv'
  <1>1. Editable(draft)
    BY DEF PageInv, ChangeValue, Edit
  <1>2. PICK p \in Terms : p = draft.terms[i]
    BY <1>1 DEF Editable
  <1>3. p \in Predicate /\ Shown(p)
    BY <1>2 DEF Terms
  <1>4. PICK values : /\ \/ p.list /\ values \in Typed
                         \/ ~p.list /\ \E v \in Values(p.signal) : values = {v}
                      /\ Edit([draft EXCEPT !.terms[i].values = values])
    BY <1>2 DEF ChangeValue
  <1>5. values \subseteq Scalars
    BY <1>4, FormIsTyped DEF Values
  <1>6. PICK q : q = [p EXCEPT !.values = values]
    OBVIOUS
  <1>7. q \in Predicate /\ q.op = p.op /\ q.signal = p.signal /\ q.list = p.list
        /\ q.values = values
    BY <1>3, <1>5, <1>6 DEF Predicate
  <1>8. Shown(q)
    BY <1>3, <1>4, <1>7 DEF Shown, Values
  <1>9. Edit([draft EXCEPT !.terms[i] = q])
    BY <1>2, <1>4, <1>6
  <1>10. QED
    BY <1>7, <1>8, <1>9, TermKeepsInv DEF Terms

-----------------------------------------------------------------------------
\* Saving, and what others do.
LEMMA ResetKeepsInv ==
    ASSUME PageInv, Reset
    PROVE  PageInv'
  <1>1. original # None
    BY DEF PageInv, Reset, Edit
  <1>2. Editable(original)
    BY <1>1 DEF PageInv, Storable
  <1>3. QED
    BY <1>1, <1>2, EditKeepsInv DEF Reset, OriginalSkills, OriginalRoles

\* The row is what the broker accepted.
LEMMA SavedKeepsInv ==
    ASSUME PageInv, Saved
    PROVE  PageInv'
  <1>1. Editable(draft)
    BY DEF PageInv, Saved
  <1>2. ConditionAccepted(draft.terms)
    BY DEF Saved, Accepted, AcceptedWith
  <1>3. stored' = draft /\ page = "saving" /\ page' = "stored"
        /\ UNCHANGED <<catalogue, roles, editing, draft, original, offered, changes>>
    BY DEF Saved
  <1>4. Storable(stored')
    BY <1>1, <1>2, <1>3 DEF Storable
  <1>5. NamesHaveSource' <=> NamesHaveSource
    BY <1>3 DEF NamesHaveSource, OriginalSkills, OriginalRoles
  <1>6. QED
    BY <1>3, <1>4, <1>5 DEF PageInv

\* The page goes on with the row that it is answered.
LEMMA AnsweredKeepsInv ==
    ASSUME PageInv, Answered
    PROVE  PageInv'
  <1>1. stored # None /\ UNCHANGED <<stored, catalogue, roles, editing, changes>>
    BY DEF Answered, broker
  <1>2. CASE Leave
    BY <1>1, <1>2, LeaveKeepsInv DEF PageInv
  <1>3. CASE /\ page' = "ready" /\ original' = stored /\ draft' = stored
             /\ UNCHANGED offered
    <2>1. NamesHaveSource'
      BY <1>1, <1>3 DEF NamesHaveSource, OriginalSkills, OriginalRoles
    <2>2. QED
      BY <1>1, <1>3, <2>1 DEF PageInv, Storable
  <1>4. QED
    BY <1>2, <1>3 DEF Answered

LEMMA OthersKeepInv ==
    ASSUME PageInv, Others
    PROVE  PageInv'
  <1>1. UNCHANGED <<editing, page, draft, original, offered>> /\ changes' = changes + 1
        /\ changes < MaxChanges
    BY DEF Others
  <1>2. changes' \in 0..MaxChanges
    BY <1>1, FormIsTyped DEF PageInv
  <1>3. NamesHaveSource' <=> NamesHaveSource
    BY <1>1 DEF NamesHaveSource, OriginalSkills, OriginalRoles
  <1>4. CASE stored # None /\ stored' \in {[stored EXCEPT !.enabled = ~@], None}
             /\ UNCHANGED <<catalogue, roles>>
    <2>1. Storable(stored) /\ stored \in Policy
      BY <1>4 DEF PageInv, Storable, Editable
    <2>2. ASSUME stored' = [stored EXCEPT !.enabled = ~@]
          PROVE  Storable(stored')
      <3>1. PICK e : e = [stored EXCEPT !.enabled = ~@]
        OBVIOUS
      <3>2. /\ e \in Policy
            /\ e.kind = stored.kind /\ e.values = stored.values /\ e.terms = stored.terms
        BY <2>1, <3>1 DEF Policy
      <3>3. Storable(e)
        BY <2>1, <3>2 DEF Storable, Editable, Coherent
      <3>4. stored' = e
        BY <2>2, <3>1
      <3>5. QED
        BY <3>3, <3>4
    <2>3. stored' # None => Storable(stored')
      BY <1>4, <2>2
    <2>4. QED
      BY <1>1, <1>2, <1>3, <1>4, <2>3 DEF PageInv
  <1>5. CASE (\E s \in catalogue : catalogue' = catalogue \ {s}) /\ UNCHANGED <<stored, roles>>
    BY <1>1, <1>2, <1>3, <1>5 DEF PageInv
  <1>6. CASE (\E r \in roles : roles' = roles \ {r}) /\ UNCHANGED <<stored, catalogue>>
    BY <1>1, <1>2, <1>3, <1>6 DEF PageInv
  <1>7. QED
    BY <1>4, <1>5, <1>6 DEF Others

\* The page turns to saving and back.
LEMMA TurnKeepsInv ==
    ASSUME PageInv, page \in {"ready", "saving", "stored"}, page' \in {"ready", "saving"},
           UNCHANGED <<broker, editing, draft, original, offered, changes>>
    PROVE  PageInv'
  <1>1. NamesHaveSource' <=> NamesHaveSource
    BY DEF NamesHaveSource, OriginalSkills, OriginalRoles
  <1>2. UNCHANGED <<stored, catalogue, roles>>
    BY DEF broker
  <1>3. QED
    BY <1>1, <1>2 DEF PageInv

LEMMA StutterKeepsInv ==
    ASSUME PageInv, UNCHANGED vars
    PROVE  PageInv'
  BY DEF PageInv, NamesHaveSource, OriginalSkills, OriginalRoles, vars, broker

LEMMA NextKeepsInv ==
    ASSUME PageInv, [Next]_vars
    PROVE  PageInv'
  <1>1. CASE Load
    BY <1>1, LoadKeepsInv
  <1>2. CASE Save
    BY <1>2, TurnKeepsInv DEF Save
  <1>3. CASE Saved
    BY <1>3, SavedKeepsInv
  <1>10. CASE Answered
    BY <1>10, AnsweredKeepsInv
  <1>4. CASE NotSaved
    BY <1>4, TurnKeepsInv DEF NotSaved
  <1>5. CASE Close
    BY <1>5, LeaveKeepsInv DEF Close, broker, PageInv
  <1>6. CASE Others
    BY <1>6, OthersKeepInv
  <1>7. CASE EditScope
    <2>1. ASSUME NEW kind \in Kinds, ChangeScopeKind(kind) PROVE PageInv'
      BY <2>1, ChangeScopeKindKeepsInv
    <2>2. ASSUME NEW value \in Categories \cup Skills, ToggleScopeValue(value) PROVE PageInv'
      BY <2>2, ToggleScopeValueKeepsInv
    <2>3. ASSUME NEW role \in Roles, ToggleRole(role) PROVE PageInv'
      BY <2>3, ToggleRoleKeepsInv
    <2>4. ASSUME ToggleEnabled PROVE PageInv'
      BY <2>4, ToggleEnabledKeepsInv
    <2>5. QED
      BY <1>7, <2>1, <2>2, <2>3, <2>4 DEF EditScope
  <1>8. CASE EditCondition
    <2>1. ASSUME NEW mode \in Modes, SetMode(mode) PROVE PageInv'
      BY <2>1, SetModeKeepsInv
    <2>2. ASSUME AddPredicate PROVE PageInv'
      BY <2>2, AddPredicateKeepsInv
    <2>3. ASSUME NEW i \in DOMAIN draft.terms, RemovePredicate(i) PROVE PageInv'
      BY <2>3, RemovePredicateKeepsInv
    <2>4. ASSUME NEW i \in DOMAIN draft.terms, NEW s \in Signals, ChangeSignal(i, s)
          PROVE  PageInv'
      BY <2>4, ChangeSignalKeepsInv
    <2>5. ASSUME NEW i \in DOMAIN draft.terms, NEW op \in Operators, ChangeOperator(i, op)
          PROVE  PageInv'
      BY <2>5, ChangeOperatorKeepsInv
    <2>6. ASSUME NEW i \in DOMAIN draft.terms, ChangeValue(i) PROVE PageInv'
      BY <2>6, ChangeValueKeepsInv
    <2>7. QED
      BY <1>8, <2>1, <2>2, <2>3, <2>4, <2>5, <2>6 DEF EditCondition
  <1>9. CASE Reset
    BY <1>9, ResetKeepsInv
  <1>11. CASE UNCHANGED vars
    BY <1>11, StutterKeepsInv
  <1>12. QED
    BY <1>1, <1>2, <1>3, <1>4, <1>5, <1>6, <1>7, <1>8, <1>9, <1>10, <1>11 DEF Next

\* Whatever the form is used for and the others do, it holds predicates that
\* the editor can show, over a scope of its kind, with names that it offered or
\* found; and what is stored has passed the broker's validation of conditions.
THEOREM PagesAreSafe == Spec => []PageInv
  BY InitPageInv, NextKeepsInv, PTL DEF Spec

\* The form, the row it was loaded from and the stored policy are policies of
\* which the condition editor can show every predicate: a scalar is one value
\* of the signal's kind, an order is of a number.
THEOREM PagesTyped == Spec => []TypeOK
  <1>1. ASSUME PageInv PROVE TypeOK
    <2>1. ASSUME NEW row, Editable(row)
          PROVE  /\ row \in Policy
                 /\ Len(row.terms) <= MaxTerms
                 /\ \A i \in DOMAIN row.terms : Shown(row.terms[i])
      BY <2>1, SeqTerms DEF Editable
    <2>2. \A row \in {stored, draft, original} \ {None} : Editable(row)
      BY <1>1 DEF PageInv, Storable
    <2>3. QED
      BY <1>1, <2>1, <2>2 DEF PageInv, TypeOK
  <1>2. QED
    BY <1>1, PagesAreSafe, PTL

\* Of a form whose typed lists fit their signals, and of a broker that has what
\* the form was loaded with and accepts the row that it shows: whatever was
\* edited, what validateDraft lets the button save is what the broker accepts
\* (policy-form.tsx, validateDraft; policies/service.py).
THEOREM SaveButtonStaysRight == Spec => []SaveButtonIsRight
  <1>1. ASSUME PageInv PROVE SaveButtonIsRight
    <2>1. SUFFICES ASSUME page = "ready", SavesEnabled(draft), ListsFit(draft),
                          offered = [skills |-> catalogue, roles |-> roles],
                          original # None => Accepted(original)
                   PROVE  Accepted(draft)
      BY DEF SaveButtonIsRight
    <2>2. /\ Editable(draft) /\ NamesHaveSource
          /\ draft.kind \in Kinds
          /\ offered.skills = catalogue /\ offered.roles = roles
      BY <1>1, <2>1 DEF PageInv, Editable, Policy
    <2>3. OriginalSkills \subseteq catalogue /\ OriginalRoles \subseteq roles
      BY <2>1 DEF OriginalSkills, OriginalRoles, Accepted, AcceptedWith
    <2>4. draft.kind = "all" <=> draft.values = {}
      BY <2>1, <2>2 DEF SavesEnabled, Editable, Coherent
    <2>5. draft.kind = "categories" => draft.values \subseteq Categories
      BY <2>2 DEF Editable, Coherent
    <2>6. /\ draft.kind = "skills" => draft.values \subseteq catalogue
          /\ draft.roles \subseteq roles
      BY <2>2, <2>3 DEF NamesHaveSource
    <2>7. Len(draft.terms) \in 1..MaxPredicates
      <3>1. draft.terms \in Seq(Terms) /\ Len(draft.terms) <= MaxTerms
        BY <2>2 DEF Editable
      <3>2. Len(draft.terms) \in Nat /\ Len(draft.terms) # 0
        BY <2>1, <3>1 DEF SavesEnabled
      <3>3. QED
        BY <3>1, <3>2, FormIsTyped, NumbersAreNat
    <2>8. ASSUME NEW i \in DOMAIN draft.terms
          PROVE  PredicateAccepted(draft.terms[i])
      <3>1. PICK p \in Terms : p = draft.terms[i]
        BY <2>2, <2>8 DEF Editable
      <3>2. Shown(p)
        BY <3>1 DEF Terms
      <3>3. p.list => p.values # {} /\ \A v \in p.values : Fits(p.signal, v)
        BY <2>1, <2>8, <3>1 DEF ListsFit
      <3>4. PredicateAccepted(p)
        BY <3>2, <3>3 DEF Shown, PredicateAccepted
      <3>5. QED
        BY <3>1, <3>4
    <2>9. ConditionAccepted(draft.terms)
      BY <2>7, <2>8 DEF ConditionAccepted
    <2>10. QED
      BY <2>4, <2>5, <2>6, <2>9 DEF Accepted, AcceptedWith
  <1>2. QED
    BY <1>1, PagesAreSafe, PTL

-----------------------------------------------------------------------------
\* The evaluator, over a stored policy.

\* A category and a skill of the same name deny the same call.
LEMMA TargetsByName ==
    ASSUME NEW policy \in Policy, Coherent(policy), NEW skill \in Skills
    PROVE  Targets(policy, skill) <=>
             policy.kind = "all" \/ {skill, Category[skill]} \cap policy.values # {}
  <1>1. policy.kind \in Kinds
    BY DEF Policy
  <1>2. CASE policy.kind = "all"
    BY <1>2 DEF Targets
  <1>3. CASE policy.kind = "skills"
    BY <1>3, NamesAreClear DEF Targets, Coherent
  <1>4. CASE policy.kind = "categories"
    BY <1>4, NamesAreClear DEF Targets, Coherent
  <1>5. QED
    BY <1>1, <1>2, <1>3, <1>4 DEF Kinds

LEMMA ReadingIsTyped ==
    ASSUME NEW readings \in TypedReadings, NEW s \in Signals
    PROVE  SignalValue(readings, s) \in Values(s) \cup {None}
  <1>1. \A x \in DOMAIN readings : readings[x] \in Scalars /\ Fits(x, readings[x])
    BY DEF TypedReadings, Readings
  <1>2. CASE s \in DOMAIN readings
    BY <1>1, <1>2 DEF SignalValue, Values
  <1>3. CASE s \notin DOMAIN readings
    BY <1>3, DefaultsFit DEF SignalValue
  <1>4. QED
    BY <1>2, <1>3

\* The evaluator fires as the rule reads, for every typed world.
THEOREM PoliciesDenyAsRead == Spec => []DeniesAsRead
  <1>1. ASSUME PageInv PROVE DeniesAsRead
    <2>1. SUFFICES ASSUME stored # None, NEW readings \in TypedReadings,
                          NEW role \in Roles \cup {None}, NEW skill \in Skills
                   PROVE  PolicyDenies(stored, role, skill, readings)
                            <=> ReadsAsDenial(stored, role, skill, readings)
      BY DEF DeniesAsRead
    <2>2. stored \in Policy /\ Coherent(stored) /\ stored.terms \in Seq(Terms)
          /\ ConditionAccepted(stored.terms)
      BY <1>1, <2>1 DEF PageInv, Storable, Editable
    <2>3. ASSUME NEW i \in DOMAIN stored.terms
          PROVE  PredicateHolds(stored.terms[i], readings) <=> i \in Fulfilled(stored, readings)
      <3>1. PICK p \in Terms : p = stored.terms[i]
        BY <2>2, <2>3
      <3>2. Sound(p) /\ p.signal \in Signals
        BY <2>2, <2>3, <3>1 DEF Sound, Terms, Predicate, ConditionAccepted
      <3>3. SignalValue(readings, p.signal) = World(readings)[p.signal]
        BY <3>2 DEF SignalValue, World
      <3>4. PredicateHolds(p, readings) <=> World(readings)[p.signal] \in Region(p)
        BY <3>2, <3>3, ReadingIsTyped, PredicateReads
      <3>5. QED
        BY <3>1, <3>4 DEF Fulfilled
    <2>4. Fulfilled(stored, readings) \subseteq DOMAIN stored.terms
      BY DEF Fulfilled
    <2>5. ConditionHolds(stored.mode, stored.terms, readings) <=>
            IF stored.mode = "all_of" THEN Fulfilled(stored, readings) = DOMAIN stored.terms
                                      ELSE Fulfilled(stored, readings) # {}
      BY <2>3, <2>4 DEF ConditionHolds
    <2>6. Targets(stored, skill) <=>
            stored.kind = "all" \/ {skill, Category[skill]} \cap stored.values # {}
      BY <2>2, TargetsByName
    <2>7. (stored.roles = {} \/ role \in stored.roles) <=>
            (stored.roles \cap {role} # {} \/ stored.roles = {})
      OBVIOUS
    <2>8. QED
      BY <2>5, <2>6, <2>7, Zenon DEF PolicyDenies, ReadsAsDenial
  <1>2. QED
    BY <1>1, PagesAreSafe, PTL
=============================================================================
