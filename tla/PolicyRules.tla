------------------------------ MODULE PolicyRules ------------------------------
(***************************************************************************)
(* The language of policy conditions: what the broker accepts              *)
(* (packages/api/src/policies/models.py over signals.py) and how it        *)
(* evaluates a policy (policies/evaluator.py).                             *)
(*                                                                         *)
(* A value of JSON or Python is a pair of its type and itself; TRUE and    *)
(* FALSE are 1 and 0, as they are in Python.  A list is the set of its     *)
(* elements, and a predicate's value is a set together with whether it is  *)
(* a list.                                                                 *)
(***************************************************************************)
EXTENDS Naturals, Sequences

CONSTANTS
    Signals,
    Kind,           \* Kind[s]: "number", "bool", "enum" or "string"
    EnumValues,     \* EnumValues[s]: the texts that enum signal s may have
    Default,        \* Default[s]: its default_when_missing, or None
    Category,       \* Category[k]: the category of skill k, or None
    Categories,
    Roles,
    Numbers, Texts, \* bounds: the numbers and texts there are
    None,
    MaxPredicates   \* MAX_PREDICATES

Skills == DOMAIN Category

Scalars == ({"number"} \X Numbers) \cup ({"bool"} \X {0, 1}) \cup ({"text"} \X Texts)

Orders == {"<", "<=", ">", ">="}
Memberships == {"in", "not_in"}
Operators == {"==", "!="} \cup Orders \cup Memberships

Predicate == [signal : Signals, op : Operators, list : BOOLEAN, values : SUBSET Scalars]

ASSUME SignalsAreDescribed ==
    /\ Kind \in [Signals -> {"number", "bool", "enum", "string"}]
    /\ Default \in [Signals -> Scalars \cup {None}]
    /\ Category \in [Skills -> Categories \cup {None}]
    /\ EnumValues \in [Signals -> SUBSET Texts]
    /\ None \notin Scalars
\* A skill with the name of a category is of that category, alone.
ASSUME NamesAreClear ==
    /\ None \notin Categories \cup Skills
    /\ \A k \in Skills : k \in Categories \/ Category[k] \in Skills => Category[k] = k
ASSUME NumbersAreNat == Numbers \subseteq Nat /\ 0 \in Numbers /\ MaxPredicates \in Nat

-----------------------------------------------------------------------------
\* _check_scalar
Fits(s, v) ==
    /\ v[1] = CASE Kind[s] = "number" -> "number"
                [] Kind[s] = "bool" -> "bool"
                [] OTHER -> "text"
    /\ Kind[s] = "enum" => v[2] \in EnumValues[s]

Values(s) == {v \in Scalars : Fits(s, v)}

ASSUME DefaultsFit == \A s \in Signals : Default[s] \in Values(s) \cup {None}

\* _check_op_and_value
PredicateAccepted(p) ==
    /\ p.list <=> p.op \in Memberships
    /\ p.values # {}
    /\ p.op \in Orders => Kind[p.signal] = "number"
    /\ \A v \in p.values : Fits(p.signal, v)

\* Condition._validate_shape
ConditionAccepted(terms) ==
    /\ Len(terms) \in 1..MaxPredicates
    /\ \A i \in DOMAIN terms : PredicateAccepted(terms[i])

-----------------------------------------------------------------------------
\* Mutant: a missing reading is no match, whatever the default.
SignalValueNoDefault(readings, s) ==
    IF s \in DOMAIN readings THEN readings[s] ELSE None

\* A reading may be missing; the default then stands in for it.
SignalValue(readings, s) ==
    IF s \in DOMAIN readings THEN readings[s] ELSE Default[s]

IsNumber(v) == v[1] # "text"

\* Python's ==, < and <=: numbers and booleans compare, other types do not.
Same(v, w) == IF IsNumber(v) /\ IsNumber(w) THEN v[2] = w[2] ELSE v = w
Below(v, w) == IsNumber(v) /\ IsNumber(w) /\ v[2] < w[2]
UpTo(v, w) == IsNumber(v) /\ IsNumber(w) /\ v[2] <= w[2]

\* _eval_predicate: an accepted scalar is the one element of values.
PredicateHolds(p, readings) ==
    LET actual == SignalValue(readings, p.signal)
        found == \E v \in p.values : Same(actual, v)
    IN  /\ actual # None
        /\ CASE p.op \in {"==", "in"} -> found
             [] p.op \in {"!=", "not_in"} -> ~found
             [] p.op = "<" -> \E v \in p.values : Below(actual, v)
             [] p.op = "<=" -> \E v \in p.values : UpTo(actual, v)
             [] p.op = ">" -> \E v \in p.values : Below(v, actual)
             [] p.op = ">=" -> \E v \in p.values : UpTo(v, actual)

\* _eval_condition
ConditionHolds(mode, terms, readings) ==
    IF mode = "all_of"
    THEN \A i \in DOMAIN terms : PredicateHolds(terms[i], readings)
    ELSE \E i \in DOMAIN terms : PredicateHolds(terms[i], readings)

\* policy_targets_skill
Targets(policy, skill) ==
    CASE policy.kind = "all" -> TRUE
      [] policy.kind = "skills" -> skill \in policy.values
      [] policy.kind = "categories" -> Category[skill] \in policy.values

\* policy_denies, with policy_applies_to; a request may come without a role.
PolicyDenies(policy, role, skill, readings) ==
    /\ policy.enabled
    /\ policy.roles = {} \/ role \in policy.roles
    /\ Targets(policy, skill)
    /\ ConditionHolds(policy.mode, policy.terms, readings)
=============================================================================
