---------------------------- MODULE WebSessionProofs ----------------------------
(***************************************************************************)
(* Theorems about accounts and sessions, for any number of users, tabs and *)
(* requests in flight.                                                     *)
(***************************************************************************)
EXTENDS WebSession, FiniteSetTheorems, TLAPS

-----------------------------------------------------------------------------
\* The requests in flight.  What a step reads of its request is there; suffixes
\* of names are any numbers.
AnyName == {Handle[e] : e \in Emails} \X Nat

Accounts ==
    [id : Ids, email : Emails, name : AnyName, password : Passwords \cup {None}, role : Roles]

Requests ==
    [step : Steps \cup Answers, of : Tabs \cup {None}, by : Session,
     email : Emails \cup {None}, name : AnyName \cup {None},
     password : Passwords \cup {None}, role : Roles \cup {None}, raced : BOOLEAN]

HasWhatItReads(r) ==
    /\ r.step \in {"email", "name", "insert", "either", "create"} =>
         r.email \in Emails /\ r.role \in Roles
    /\ r.step \in {"name", "insert", "either", "create"} => r.name \in AnyName
    /\ r.step \in {"row", "patch"} => r.role \in Roles

\* As long as no account is made, what a request found free is free.
Clean(r) ==
    r.raced = FALSE =>
        /\ r.step \in {"name", "insert", "create"} => ~Taken(r.email)
        /\ r.step \in {"insert", "create"} => ~Named(r.name)
        /\ r.step = "422" => r.role \notin roles

RowsOK ==
    users \subseteq Accounts /\ IsFiniteSet(users) /\ made \in 0..MaxUsers /\ roles \subseteq Roles

CallsOK ==
    /\ call \in [Slots -> Requests \cup {Free}]
    /\ \A c \in Slots : call[c] # Free => HasWhatItReads(call[c]) /\ Clean(call[c])

AccountInv == RowsOK /\ CallsOK

LEMMA FreeIsNoRequest == \A r \in Requests : r.step # "free" /\ r # Free
<1> SUFFICES ASSUME NEW r \in Requests PROVE r.step # "free" /\ r # Free
    OBVIOUS
<1>1. r.step \in Steps \cup Answers
    BY DEF Requests
<1>2. r.step # "free"
    BY <1>1 DEF Steps, Answers
<1>3. QED
    BY <1>2 DEF Free

LEMMA AtIsRequest ==
    ASSUME AccountInv, NEW c \in Slots, NEW s, At(c, s), s # "free"
    PROVE  /\ call[c] \in Requests /\ call[c].step = s
           /\ HasWhatItReads(call[c]) /\ Clean(call[c])
<1>1. call[c].step = s /\ call[c] # Free
    BY DEF At, Free
<1>2. QED
    BY <1>1 DEF AccountInv, CallsOK

\* Another step of the same request.
LEMMA Moves ==
    ASSUME NEW r \in Requests, NEW s \in Steps \cup Answers
    PROVE  LET x == [r EXCEPT !.step = s]
           IN  /\ x \in Requests /\ x.step = s /\ x.of = r.of /\ x.email = r.email
               /\ x.name = r.name /\ x.role = r.role /\ x.raced = r.raced
BY DEF Requests

LEMMA Replaced ==
    ASSUME AccountInv, NEW c \in Slots, NEW r \in Requests \cup {Free}, Becomes(c, r),
           r # Free => HasWhatItReads(r) /\ Clean(r),
           UNCHANGED <<users, made, roles>>
    PROVE  AccountInv'
<1>1. /\ call' \in [Slots -> Requests \cup {Free}] /\ call'[c] = r
      /\ \A d \in Slots \ {c} : call'[d] = call[d]
    BY DEF AccountInv, CallsOK, Becomes
<1>2. \A d \in Slots : call'[d] # Free => HasWhatItReads(call'[d]) /\ Clean(call'[d])
    BY <1>1 DEF AccountInv, CallsOK
<1>3. \A d \in Slots : Clean(call[d])' = Clean(call'[d])
    BY DEF Clean, Taken, Named
<1>4. QED
    BY <1>1, <1>2, <1>3 DEF AccountInv, CallsOK, RowsOK, HasWhatItReads

\* A step of the broker leaves it alone who sent what.
SameSender ==
    \A d \in Slots : call[d] \in Requests =>
        /\ call'[d] \in Requests
        /\ call'[d].of = call[d].of /\ call'[d].email = call[d].email

LEMMA SameAfter ==
    ASSUME AccountInv, NEW c \in Slots, NEW x \in Requests, Becomes(c, x),
           x.of = call[c].of, x.email = call[c].email
    PROVE  SameSender
<1>1. call'[c] = x /\ \A d \in Slots \ {c} : call'[d] = call[d]
    BY DEF AccountInv, CallsOK, Becomes
<1>2. QED
    BY <1>1 DEF SameSender

-----------------------------------------------------------------------------
\* The broker's steps.
LEMMA GoesTo ==
    ASSUME AccountInv, NEW c \in Slots, call[c] \in Requests, NEW s \in Steps \cup Answers,
           Goes(c, s), UNCHANGED <<users, made, roles>>,
           s \notin Steps \ {"insert", "create"},
           s \in {"insert", "create"} =>
              /\ call[c].email \in Emails /\ call[c].role \in Roles /\ call[c].name \in AnyName
              /\ call[c].raced = FALSE => ~Taken(call[c].email) /\ ~Named(call[c].name),
           s = "422" => call[c].role \notin roles \/ call[c].raced = TRUE
    PROVE  AccountInv' /\ SameSender
<1>1. PICK x : x = [call[c] EXCEPT !.step = s]
    OBVIOUS
<1>2. /\ x \in Requests /\ x.step = s /\ x.email = call[c].email /\ x.of = call[c].of
      /\ x.name = call[c].name /\ x.role = call[c].role /\ x.raced = call[c].raced
    BY <1>1, Moves
<1>3. Becomes(c, x)
    BY <1>1 DEF Goes
<1>4. HasWhatItReads(x) /\ Clean(x)
    BY <1>2 DEF HasWhatItReads, Clean, Steps
<1>5. QED
    BY <1>2, <1>3, <1>4, Replaced, SameAfter

LEMMA SelectEmailKeeps ==
    ASSUME AccountInv, NEW c \in Slots, SelectEmail(c)
    PROVE  AccountInv' /\ SameSender
<1>1. call[c] \in Requests /\ call[c].email \in Emails /\ call[c].role \in Roles
    BY AtIsRequest DEF SelectEmail, HasWhatItReads
<1>2. CASE Taken(call[c].email)
    BY <1>1, <1>2, GoesTo DEF SelectEmail, Reads, Answers, Steps
<1>3. CASE ~Taken(call[c].email)
    <2>1. PICK x : x = [call[c] EXCEPT !.step = "name", !.name = <<Handle[call[c].email], 1>>]
        OBVIOUS
    <2>2. <<Handle[call[c].email], 1>> \in AnyName
        BY <1>1 DEF AnyName
    <2>3. /\ x \in Requests /\ x.step = "name" /\ x.email = call[c].email /\ x.of = call[c].of
          /\ x.name \in AnyName /\ x.role = call[c].role
        BY <1>1, <2>1, <2>2 DEF Requests, Steps
    <2>4. HasWhatItReads(x) /\ Clean(x)
        BY <1>1, <1>3, <2>3 DEF HasWhatItReads, Clean
    <2>5. Becomes(c, x) /\ UNCHANGED <<users, made, roles>>
        BY <1>3, <2>1 DEF SelectEmail
    <2>6. QED
        BY <2>3, <2>4, <2>5, Replaced, SameAfter
<1>4. QED
    BY <1>2, <1>3

LEMMA SelectNameKeeps ==
    ASSUME AccountInv, NEW c \in Slots, SelectName(c)
    PROVE  AccountInv' /\ SameSender
<1>1. /\ call[c] \in Requests /\ call[c].step = "name" /\ call[c].email \in Emails
      /\ call[c].role \in Roles /\ call[c].name \in AnyName /\ Clean(call[c])
    BY AtIsRequest DEF SelectName, HasWhatItReads
<1>2. CASE Named(call[c].name)
    <2>1. PICK x : x = [call[c] EXCEPT !.name = <<call[c].name[1], call[c].name[2] + 1>>]
        OBVIOUS
    <2>2. <<call[c].name[1], call[c].name[2] + 1>> \in AnyName
        BY <1>1 DEF AnyName
    <2>3. /\ x \in Requests /\ x.step = "name" /\ x.email = call[c].email /\ x.of = call[c].of
          /\ x.name \in AnyName /\ x.role = call[c].role /\ x.raced = call[c].raced
        BY <1>1, <2>1, <2>2 DEF Requests
    <2>4. HasWhatItReads(x) /\ Clean(x)
        BY <1>1, <2>3 DEF HasWhatItReads, Clean
    <2>5. Becomes(c, x) /\ UNCHANGED <<users, made, roles>>
        BY <1>2, <2>1 DEF SelectName
    <2>6. QED
        BY <2>3, <2>4, <2>5, Replaced, SameAfter
<1>3. CASE ~Named(call[c].name)
    BY <1>1, <1>3, GoesTo DEF SelectName, Clean, Steps
<1>4. QED
    BY <1>2, <1>3

\* An account is made: whatever else is in flight raced with it.
LEMMA InsertKeeps ==
    ASSUME AccountInv, NEW c \in Slots, call[c] \in Requests, HasWhatItReads(call[c]),
           Clean(call[c]), call[c].step \in {"insert", "create"}, Insert(c, "422")
    PROVE  AccountInv' /\ SameSender
<1> DEFINE r == call[c]
           row_ == [id |-> made + 1, email |-> r.email, name |-> r.name,
                    password |-> r.password, role |-> r.role]
<1>1. /\ r.email \in Emails /\ r.role \in Roles /\ r.name \in AnyName
      /\ r.raced = FALSE => ~Taken(r.email) /\ ~Named(r.name)
    BY DEF HasWhatItReads, Clean
<1>2. CASE Taken(r.email) \/ Named(r.name) \/ r.role \notin roles
    <2>1. r.role \notin roles \/ r.raced = TRUE
        BY <1>1, <1>2 DEF Requests
    <2>2. Goes(c, "422") /\ UNCHANGED <<users, made, roles>>
        BY <1>2 DEF Insert
    <2>3. QED
        BY <2>1, <2>2, GoesTo DEF Answers, Steps
<1>3. CASE ~(Taken(r.email) \/ Named(r.name) \/ r.role \notin roles)
    <2>1. /\ made < MaxUsers /\ made' = made + 1 /\ UNCHANGED roles
          /\ users' = users \cup {row_}
          /\ call' = [d \in Slots |->
                        IF d = c THEN [r EXCEPT !.step = "ok"]
                        ELSE IF At(d, "free") THEN Free
                        ELSE [call[d] EXCEPT !.raced = TRUE]]
        BY <1>3 DEF Insert
    <2>2. RowsOK'
        <3>1. made' \in Ids /\ made' \in 0..MaxUsers
            BY <2>1, AccountConstants DEF AccountInv, RowsOK, Ids
        <3>2. row_ \in Accounts
            BY <1>1, <2>1, <3>1 DEF Accounts, Requests
        <3>3. IsFiniteSet(users')
            BY <2>1, FS_AddElement DEF AccountInv, RowsOK
        <3>4. QED
            BY <2>1, <3>1, <3>2, <3>3 DEF AccountInv, RowsOK
    <2>3. ASSUME NEW d \in Slots, call'[d] # Free
          PROVE  call'[d] \in Requests /\ HasWhatItReads(call'[d]) /\ Clean(call[d])'
        <3>1. CASE d = c
            <4>1. call'[d] \in Requests /\ call'[d].step = "ok"
                BY <2>1, <3>1, Moves DEF Answers
            <4>2. QED
                BY <4>1 DEF HasWhatItReads, Clean
        <3>2. CASE d # c
            <4>1. call'[d] = [call[d] EXCEPT !.raced = TRUE] /\ call[d].step # "free"
                BY <2>1, <2>3, <3>2 DEF At
            <4>2. call[d] \in Requests /\ HasWhatItReads(call[d])
                BY <4>1 DEF AccountInv, CallsOK, Free
            <4>3. /\ call'[d] \in Requests /\ call'[d].raced = TRUE
                  /\ call'[d].step = call[d].step /\ call'[d].email = call[d].email
                  /\ call'[d].name = call[d].name /\ call'[d].role = call[d].role
                BY <4>1, <4>2 DEF Requests
            <4>4. QED
                BY <4>2, <4>3 DEF HasWhatItReads, Clean
        <3>3. QED
            BY <3>1, <3>2
    <2>4. call' \in [Slots -> Requests \cup {Free}]
        BY <2>1, <2>3
    <2>5. SameSender
        <3>1. ASSUME NEW d \in Slots, d # c, call[d] \in Requests
              PROVE  call'[d] = [call[d] EXCEPT !.raced = TRUE]
            BY <2>1, <3>1, FreeIsNoRequest DEF At
        <3>2. call'[c] = [r EXCEPT !.step = "ok"]
            BY <2>1
        <3>3. ASSUME NEW d \in Slots, call[d] \in Requests
              PROVE  /\ call'[d] \in Requests
                     /\ call'[d].of = call[d].of /\ call'[d].email = call[d].email
            <4>1. CASE d = c
                <5>1. PICK x : x = [r EXCEPT !.step = "ok"]
                    OBVIOUS
                <5>2. x \in Requests /\ x.of = r.of /\ x.email = r.email
                    BY <5>1, Moves DEF Answers
                <5>3. QED
                    BY <3>2, <4>1, <5>1, <5>2
            <4>2. CASE d # c
                <5>1. call'[d] = [call[d] EXCEPT !.raced = TRUE]
                    BY <3>1, <3>3, <4>2
                <5>2. QED
                    BY <3>3, <5>1 DEF Requests
            <4>3. QED
                BY <4>1, <4>2
        <3>4. QED
            BY <3>3 DEF SameSender
    <2>6. QED
        BY <2>2, <2>3, <2>4, <2>5 DEF AccountInv, CallsOK, HasWhatItReads
<1>4. QED
    BY <1>2, <1>3

LEMMA AuthenticateKeeps ==
    ASSUME AccountInv, NEW c \in Slots, Authenticate(c)
    PROVE  AccountInv' /\ SameSender
<1>0. At(c, "verify")
    BY Zenon DEF Authenticate
<1>1. call[c] \in Requests
    BY <1>0, AtIsRequest
<1>2. CASE Reads(c, "401")
    BY <1>1, <1>2, GoesTo DEF Reads, Answers, Steps
<1>3. ASSUME NEW u \in users, Becomes(c, [call[c] EXCEPT !.step = "ok", !.by = u.id]),
             UNCHANGED <<users, made, roles>>
      PROVE  AccountInv' /\ SameSender
    <2>1. PICK x : x = [call[c] EXCEPT !.step = "ok", !.by = u.id]
        OBVIOUS
    <2>2. u.id \in Session
        BY DEF AccountInv, RowsOK, Accounts, Session
    <2>3. x \in Requests /\ x.step = "ok" /\ x.email = call[c].email /\ x.of = call[c].of
        BY <1>1, <2>1, <2>2 DEF Requests, Answers
    <2>4. HasWhatItReads(x) /\ Clean(x)
        BY <2>3 DEF HasWhatItReads, Clean
    <2>5. QED
        BY <1>3, <2>1, <2>3, <2>4, Replaced, SameAfter
<1>4. \/ Reads(c, "401")
      \/ \E u \in users : /\ Becomes(c, [call[c] EXCEPT !.step = "ok", !.by = u.id])
                          /\ UNCHANGED <<users, made, roles>>
    BY Zenon DEF Authenticate
<1>5. QED
    BY Zenon, <1>2, <1>3, <1>4

LEMMA CheckTokenKeeps ==
    ASSUME AccountInv, NEW c \in Slots, CheckToken(c)
    PROVE  AccountInv' /\ SameSender
<1>1. call[c] \in Requests
    BY AtIsRequest DEF CheckToken
<1>2. PICK s \in {"403", "ok", "401"} : Reads(c, s)
    BY DEF CheckToken
<1>3. QED
    BY <1>1, <1>2, GoesTo DEF Reads, Answers, Steps

\* A look-up that finds nothing finds neither the address nor the name.
LEMMA SelectEitherKeeps ==
    ASSUME AccountInv, NEW c \in Slots, SelectEither(c)
    PROVE  AccountInv' /\ SameSender
<1> DEFINE found == {u \in users : u.name = call[c].name \/ u.email = call[c].email}
<1>1. /\ call[c] \in Requests /\ call[c].email \in Emails
      /\ call[c].role \in Roles /\ call[c].name \in AnyName
    BY AtIsRequest DEF SelectEither, HasWhatItReads
<1>2. PICK s \in {"create", "409", "500"} :
          Reads(c, s) /\ (s = "create" => Cardinality(found) = 0)
    BY DEF SelectEither
<1>3. Cardinality(found) = 0 => ~Taken(call[c].email) /\ ~Named(call[c].name)
    <2>1. IsFiniteSet(found)
        BY FS_Subset DEF AccountInv, RowsOK
    <2>2. Cardinality(found) = 0 => found = {}
        BY <2>1, FS_EmptySet
    <2>3. QED
        BY <2>2 DEF Taken, Named
<1>4. QED
    BY <1>1, <1>2, <1>3, GoesTo DEF Reads, Answers, Steps

LEMMA SelectRowKeeps ==
    ASSUME AccountInv, NEW c \in Slots, SelectRow(c)
    PROVE  AccountInv' /\ SameSender
<1>0. At(c, "row")
    BY Zenon DEF SelectRow
<1>1. call[c] \in Requests /\ call[c].role \in Roles
    BY <1>0, AtIsRequest DEF HasWhatItReads
<1>2. CASE Reads(c, "404")
    BY <1>1, <1>2, GoesTo DEF Reads, Answers, Steps
<1>3. ASSUME NEW u \in users, Becomes(c, [call[c] EXCEPT !.step = "patch", !.by = u.id]),
             UNCHANGED <<users, made, roles>>
      PROVE  AccountInv' /\ SameSender
    <2>1. PICK x : x = [call[c] EXCEPT !.step = "patch", !.by = u.id]
        OBVIOUS
    <2>2. u.id \in Session
        BY DEF AccountInv, RowsOK, Accounts, Session
    <2>3. /\ x \in Requests /\ x.step = "patch" /\ x.role = call[c].role
          /\ x.email = call[c].email /\ x.of = call[c].of
        BY <1>1, <2>1, <2>2 DEF Requests, Steps
    <2>4. HasWhatItReads(x) /\ Clean(x)
        BY <1>1, <2>3 DEF HasWhatItReads, Clean
    <2>5. QED
        BY <1>3, <2>1, <2>3, <2>4, Replaced, SameAfter
<1>4. \/ Reads(c, "404")
      \/ \E u \in users : /\ Becomes(c, [call[c] EXCEPT !.step = "patch", !.by = u.id])
                          /\ UNCHANGED <<users, made, roles>>
    BY Zenon DEF SelectRow
<1>5. QED
    BY Zenon, <1>2, <1>3, <1>4

\* Rows that are patched keep their addresses and names.
LEMMA UpdateRowKeeps ==
    ASSUME AccountInv, NEW c \in Slots, UpdateRow(c)
    PROVE  AccountInv' /\ SameSender
<1> DEFINE found == {u \in users : u.id = call[c].by}
           patched == {[u EXCEPT !.role = call[c].role] : u \in found}
<1>0. /\ At(c, "patch")
      /\ IF found # {} /\ found # patched /\ call[c].role \notin roles
         THEN Goes(c, "422") /\ UNCHANGED users
         ELSE /\ Goes(c, IF found = {} THEN "500" ELSE "ok")
              /\ users' = (users \ found) \cup patched
      /\ UNCHANGED <<made, roles>>
    BY Zenon DEF UpdateRow
<1>1. call[c] \in Requests /\ call[c].role \in Roles
    BY <1>0, AtIsRequest DEF HasWhatItReads
<1>2. CASE Goes(c, "422") /\ UNCHANGED users /\ call[c].role \notin roles
    BY <1>0, <1>1, <1>2, GoesTo DEF Answers, Steps
<1>3. ASSUME NEW s \in {"500", "ok"}, Goes(c, s), users' = (users \ found) \cup patched
      PROVE  AccountInv' /\ SameSender
    <2>1. \A u \in found : LET v == [u EXCEPT !.role = call[c].role]
                           IN  v \in Accounts /\ v.email = u.email /\ v.name = u.name
        BY <1>1 DEF AccountInv, RowsOK, Accounts
    <2>2. RowsOK'
        <3>1. users' \subseteq Accounts
            BY <1>3, <2>1 DEF AccountInv, RowsOK
        <3>2. IsFiniteSet(found) /\ IsFiniteSet(users \ found)
            BY FS_Subset, FS_Difference DEF AccountInv, RowsOK
        <3>3. IsFiniteSet(patched)
            <4>1. PICK g : g = [u \in found |-> [u EXCEPT !.role = call[c].role]]
                OBVIOUS
            <4>2. g \in Surjection(found, patched)
                BY <4>1 DEF Surjection
            <4>3. QED
                BY <3>2, <4>2, FS_Surjection
        <3>4. IsFiniteSet(users')
            BY <1>3, <3>2, <3>3, FS_Union
        <3>5. QED
            BY <1>0, <3>1, <3>4 DEF AccountInv, RowsOK
    <2>3. (\A e : Taken(e)' => Taken(e)) /\ (\A n : Named(n)' => Named(n))
        <3>1. ASSUME NEW v \in users'
              PROVE  \E u \in users : v.email = u.email /\ v.name = u.name
            <4>1. CASE v \in users
                BY <4>1
            <4>2. CASE v \in patched
                <5>1. PICK u \in found : v = [u EXCEPT !.role = call[c].role]
                    BY <4>2
                <5>2. v.email = u.email /\ v.name = u.name
                    BY <2>1, <5>1
                <5>3. QED
                    BY <5>2
            <4>3. QED
                BY <1>3, <4>1, <4>2
        <3>2. QED
            BY <3>1 DEF Taken, Named
    <2>4. PICK x : x = [call[c] EXCEPT !.step = s]
        OBVIOUS
    <2>5. /\ x \in Requests /\ x.step \in {"500", "ok"}
          /\ x.email = call[c].email /\ x.of = call[c].of
        BY <1>1, <2>4, Moves DEF Answers
    <2>6. /\ call' \in [Slots -> Requests \cup {Free}] /\ call'[c] = x
          /\ \A d \in Slots \ {c} : call'[d] = call[d]
        BY <1>3, <2>4, <2>5 DEF Goes, Becomes, AccountInv, CallsOK
    <2>7. ASSUME NEW d \in Slots, call'[d] # Free
          PROVE  HasWhatItReads(call'[d]) /\ Clean(call[d])'
        <3>1. CASE d = c
            BY <2>5, <2>6, <3>1 DEF HasWhatItReads, Clean
        <3>2. CASE d # c
            BY <1>0, <2>3, <2>6, <2>7, <3>2 DEF HasWhatItReads, Clean, AccountInv, CallsOK
        <3>3. QED
            BY <3>1, <3>2
    <2>8. SameSender
        BY <1>1, <1>3, <2>4, <2>5, SameAfter DEF Goes
    <2>9. QED
        BY <2>2, <2>6, <2>7, <2>8 DEF AccountInv, CallsOK, HasWhatItReads
<1>4. QED
    BY <1>0, <1>2, <1>3

\* What is deleted makes names, addresses and roles unknown, not known.
LEMMA DeletionKeeps ==
    ASSUME AccountInv, users' \subseteq users, roles' \subseteq roles, UNCHANGED <<made, call>>
    PROVE  AccountInv'
<1>1. IsFiniteSet(users')
    BY FS_Subset DEF AccountInv, RowsOK
<1>2. \A d \in Slots : Clean(call[d]) => Clean(call[d])'
    BY DEF Clean, Taken, Named
<1>3. QED
    BY <1>1, <1>2 DEF AccountInv, CallsOK, RowsOK, HasWhatItReads

\* A slot is freed, or a request arrives in it.
LEMMA DoneKeeps ==
    ASSUME AccountInv, NEW c \in Slots, Done(c)
    PROVE  AccountInv'
BY Replaced DEF Done

LEMMA ArrivalKeeps ==
    ASSUME AccountInv, NEW c \in Slots,
           NEW s \in {"email", "either", "row", "verify", "token"}, NEW t \in Tabs \cup {None},
           NEW i \in Session, NEW e \in Emails \cup {None}, NEW n \in AnyName \cup {None},
           NEW p \in Passwords \cup {None}, NEW r \in Roles \cup {None},
           Becomes(c, Request(s, t, i, e, n, p, r)), UNCHANGED <<users, made, roles>>,
           s \in {"email", "either"} => e \in Emails /\ r \in Roles,
           s = "either" => n \in AnyName, s = "row" => r \in Roles
    PROVE  AccountInv' /\ call'[c] \in Requests /\ call'[c].of = t /\ call'[c].email = e
<1>1. PICK x : x = Request(s, t, i, e, n, p, r)
    OBVIOUS
<1>2. /\ x \in Requests /\ x.step = s /\ x.email = e /\ x.name = n /\ x.role = r /\ x.of = t
    BY <1>1 DEF Request, Requests, Steps
<1>3. HasWhatItReads(x) /\ Clean(x)
    BY <1>2 DEF HasWhatItReads, Clean
<1>4. AccountInv'
    BY <1>1, <1>2, <1>3, Replaced
<1>5. call'[c] = x
    BY <1>1 DEF Becomes, AccountInv, CallsOK
<1>6. QED
    BY <1>2, <1>4, <1>5

LEMMA BrokerKeeps ==
    ASSUME AccountInv, NEW c \in Slots, BrokerStep(c)
    PROVE  AccountInv' /\ SameSender
<1>1. SignupInserts(c) \/ CreateInserts(c) => AccountInv' /\ SameSender
    <2>1. ASSUME NEW s \in {"insert", "create"}, At(c, s), Insert(c, "422") PROVE AccountInv' /\ SameSender
        BY <2>1, AtIsRequest, InsertKeeps
    <2>2. QED
        BY <2>1 DEF SignupInserts, CreateInserts
<1>2. QED
    BY <1>1, SelectEmailKeeps, SelectNameKeeps, AuthenticateKeeps, CheckTokenKeeps,
       SelectEitherKeeps, SelectRowKeeps, UpdateRowKeeps
    DEF BrokerStep

-----------------------------------------------------------------------------
\* The tabs.
TabsOK ==
    /\ stored \in Session
    /\ page \in [Tabs -> Pages] /\ ready \in [Tabs -> BOOLEAN]
    /\ shown \in [Tabs -> Session] /\ form \in [Tabs -> Slots \cup {None}]
    /\ entry \in [Tabs -> BOOLEAN] /\ synced \subseteq Tabs

\* A tab that was opened inside is there until it has read the storage.
Restored ==
    /\ SessionsAreRestored
    /\ \A t \in Tabs : ready[t] = FALSE /\ entry[t] = TRUE => page[t] = "inside"

FormsWait ==
    \A t \in Tabs : form[t] # None =>
        /\ call[form[t]] \in Requests
        /\ call[form[t]].of = t /\ call[form[t]].email # None

SessionInv == TabsOK /\ ActsAsShown /\ Restored /\ FormsWait

LEMMA ShownStays ==
    ASSUME TabsOK, ActsAsShown, Restored,
           UNCHANGED <<stored, page, ready, shown, entry, synced>>
    PROVE  ActsAsShown' /\ Restored'
BY DEF ActsAsShown, Restored, SessionsAreRestored

LEMMA FormsWaitOn ==
    ASSUME TabsOK, FormsWait, SameSender, UNCHANGED form
    PROVE  FormsWait'
BY DEF TabsOK, FormsWait, SameSender

\* A slot is freed that no form waits for any more.
LEMMA FormsWaitDone ==
    ASSUME AccountInv, TabsOK, FormsWait, NEW c \in Slots, Done(c),
           form' \in [Tabs -> Slots \cup {None}],
           \A t \in Tabs : form'[t] # None => form'[t] = form[t] /\ form[t] # c
    PROVE  FormsWait'
<1>1. \A d \in Slots \ {c} : call'[d] = call[d]
    BY DEF Done, Becomes, AccountInv, CallsOK
<1>2. QED
    BY <1>1 DEF FormsWait, TabsOK

\* A form that waits is not disturbed by a request that arrives.
LEMMA FormsWaitArrival ==
    ASSUME AccountInv, TabsOK, FormsWait, NEW c \in Slots, NEW t \in Tabs \cup {None}, At(c, "free"),
           \A d \in Slots \ {c} : call'[d] = call[d],
           form' = form \/ /\ t \in Tabs /\ form' = [form EXCEPT ![t] = c]
                           /\ call'[c] \in Requests /\ call'[c].of = t /\ call'[c].email # None
    PROVE  FormsWait'
<1>1. \A u \in Tabs : form[u] # None => form[u] # c
    BY FreeIsNoRequest DEF FormsWait, At
<1>2. QED
    BY <1>1 DEF FormsWait, TabsOK
-----------------------------------------------------------------------------
\* Steps of a tab.  First those that send and receive nothing.
Inv == AccountInv /\ SessionInv

LEMMA AccountsRest ==
    ASSUME AccountInv, UNCHANGED accountVars
    PROVE  AccountInv'
BY DEF accountVars, AccountInv, RowsOK, CallsOK, HasWhatItReads, Clean, Taken, Named

LEMMA HydrateKeeps ==
    ASSUME Inv, NEW t \in Tabs, Hydrate(t)
    PROVE  Inv'
<1>1. AccountInv'
    BY AccountsRest DEF Hydrate, Inv
<1>2. TabsOK'
    BY DEF Hydrate, Inv, SessionInv, TabsOK
<1>3. ActsAsShown'
    BY DEF Hydrate, Inv, SessionInv, TabsOK, ActsAsShown
<1>4. Restored'
    BY DEF Hydrate, Inv, SessionInv, TabsOK, Restored, SessionsAreRestored, Public
<1>5. FormsWait'
    BY DEF Hydrate, accountVars, Inv, SessionInv, FormsWait
<1>6. QED
    BY <1>1, <1>2, <1>3, <1>4, <1>5 DEF Inv, SessionInv

\* Another page of the same tab, where no form waits.
LEMMA GotoKeeps ==
    ASSUME Inv, NEW t \in Tabs, NEW path \in Pages, Goto(t, path),
           entry[t] = TRUE /\ path # "inside" => ready[t] = TRUE /\ shown[t] = None,
           UNCHANGED <<accountVars, stored, ready, shown, entry, synced>>
    PROVE  Inv'
<1>1. AccountInv'
    BY AccountsRest DEF Inv
<1>2. TabsOK'
    BY DEF Goto, Inv, SessionInv, TabsOK
<1>3. ActsAsShown'
    BY DEF Inv, SessionInv, ActsAsShown
<1>4. Restored'
    BY DEF Goto, Inv, SessionInv, TabsOK, Restored, SessionsAreRestored, Public
<1>5. FormsWait'
    BY DEF Goto, accountVars, Inv, SessionInv, TabsOK, FormsWait
<1>6. QED
    BY <1>1, <1>2, <1>3, <1>4, <1>5 DEF Inv, SessionInv

LEMMA RedirectKeeps ==
    ASSUME Inv, NEW t \in Tabs, Redirect(t)
    PROVE  Inv'
BY GotoKeeps DEF Redirect, Pages, Public, Inv, SessionInv, TabsOK

\* Whoever was opened inside and is at a form now has been found to be nobody.
LEMMA FollowLinkKeeps ==
    ASSUME Inv, NEW t \in Tabs, FollowLink(t)
    PROVE  Inv'
<1>1. PICK path \in Public : Goto(t, path)
    BY DEF FollowLink
<1>2. /\ page[t] \in Public /\ path \in Pages
      /\ UNCHANGED <<accountVars, stored, ready, shown, entry, synced>>
    BY DEF FollowLink, Pages
<1>3. entry[t] = TRUE => ready[t] = TRUE /\ shown[t] = None
    BY <1>2 DEF Inv, SessionInv, TabsOK, Restored, SessionsAreRestored, Public
<1>4. QED
    BY <1>1, <1>2, <1>3, GotoKeeps

LEMMA SignOutKeeps ==
    ASSUME Inv, NEW t \in Tabs, SignOut(t)
    PROVE  Inv'
<1>0. /\ Inside(t) /\ stored' = None /\ synced' = {t}
      /\ shown' = [shown EXCEPT ![t] = None] /\ page' = [page EXCEPT ![t] = "/login"]
      /\ form' = [form EXCEPT ![t] = None] /\ UNCHANGED <<accountVars, ready, entry>>
    BY DEF SignOut, ClearSession, ClearAuth, Goto
<1>1. AccountInv'
    BY <1>0, AccountsRest DEF Inv
<1>2. TabsOK'
    BY <1>0 DEF Inv, SessionInv, TabsOK, Session, Pages, Public
<1>3. ActsAsShown'
    BY <1>0 DEF ActsAsShown
<1>4. Restored'
    BY <1>0 DEF Inside, Inv, SessionInv, TabsOK, Restored, SessionsAreRestored, Public
<1>5. FormsWait'
    BY <1>0 DEF accountVars, Inv, SessionInv, TabsOK, FormsWait
<1>6. QED
    BY <1>1, <1>2, <1>3, <1>4, <1>5 DEF Inv, SessionInv

\* The requests of a page that is loaded are forgotten, those of others not.
LEMMA OpenKeeps ==
    ASSUME Inv, NEW t \in Tabs, NEW path \in Pages, Open(t, path)
    PROVE  Inv'
<1>0. /\ page' = [page EXCEPT ![t] = path] /\ form' = [form EXCEPT ![t] = None]
      /\ ready' = [ready EXCEPT ![t] = FALSE] /\ shown' = [shown EXCEPT ![t] = None]
      /\ entry' = [entry EXCEPT ![t] = path = "inside"]
      /\ UNCHANGED <<users, made, roles, stored, synced>>
    BY DEF Open
<1>1. \A c \in Slots : call'[c] = IF call[c] # Free /\ call[c].of = t THEN Free ELSE call[c]
    BY DEF Open
<1>2. AccountInv'
    <2>1. \A c \in Slots : Clean(call[c]) => (call'[c] # Free => Clean(call[c])')
        BY <1>0, <1>1 DEF Clean, Taken, Named
    <2>2. call' \in [Slots -> Requests \cup {Free}]
        BY DEF Open, Inv, AccountInv, CallsOK
    <2>3. ASSUME NEW c \in Slots, call'[c] # Free
          PROVE  HasWhatItReads(call'[c]) /\ Clean(call[c])'
        <3>1. call'[c] = call[c] /\ HasWhatItReads(call[c]) /\ Clean(call[c])
            BY <1>1, <2>3 DEF Inv, AccountInv, CallsOK
        <3>2. QED
            BY <2>1, <2>3, <3>1
    <2>4. RowsOK'
        BY <1>0 DEF Inv, AccountInv, RowsOK
    <2>5. CallsOK'
        BY <2>2, <2>3 DEF CallsOK, HasWhatItReads
    <2>6. QED
        BY <2>4, <2>5 DEF AccountInv
<1>3. TabsOK'
    <2>1. PICK b \in BOOLEAN : b = (path = "inside")
        OBVIOUS
    <2>2. entry' = [entry EXCEPT ![t] = b]
        BY <1>0, <2>1
    <2>3. entry' \in [Tabs -> BOOLEAN]
        BY <2>2 DEF Inv, SessionInv, TabsOK
    <2>4. /\ page' \in [Tabs -> Pages] /\ ready' \in [Tabs -> BOOLEAN]
          /\ shown' \in [Tabs -> Session] /\ form' \in [Tabs -> Slots \cup {None}]
        BY <1>0 DEF Inv, SessionInv, TabsOK, Session
    <2>5. QED
        BY <1>0, <2>3, <2>4 DEF Inv, SessionInv, TabsOK
<1>4. ActsAsShown'
    BY <1>0 DEF Inv, SessionInv, TabsOK, ActsAsShown
<1>5. Restored'
    BY <1>0 DEF Inv, SessionInv, TabsOK, Restored, SessionsAreRestored, Public
<1>6. FormsWait'
    BY <1>0, <1>1 DEF Inv, SessionInv, TabsOK, FormsWait
<1>7. QED
    BY <1>2, <1>3, <1>4, <1>5, <1>6 DEF Inv, SessionInv

-----------------------------------------------------------------------------
\* Requests.
LEMMA NoneIsNothing ==
    None \notin Emails /\ None \notin Slots /\ None \notin Tabs /\ None \notin Roles
BY AccountConstants, SessionConstants

LEMMA SubmitKeeps ==
    ASSUME Inv, NEW t \in Tabs, NEW c \in Slots, NEW e \in Emails, NEW p \in Passwords,
           SubmitLogin(t, c, e, p) \/ SubmitSignup(t, c, e, p)
    PROVE  Inv'
<1>1. PICK s \in {"verify", "email"}, r \in Roles \cup {None} :
        /\ At(c, "free") /\ Becomes(c, Request(s, t, None, e, None, p, r))
        /\ s = "email" => r \in Roles
    BY AccountConstants DEF SubmitLogin, SubmitSignup, Send, Arrives
<1>2. /\ form' = [form EXCEPT ![t] = c]
      /\ UNCHANGED <<users, made, roles, stored, page, ready, shown, entry, synced>>
    BY DEF SubmitLogin, SubmitSignup, Send, Arrives
<1>3. AccountInv' /\ call'[c] \in Requests /\ call'[c].of = t /\ call'[c].email = e
    BY <1>1, <1>2, ArrivalKeeps DEF Session, Inv
<1>4. \A d \in Slots \ {c} : call'[d] = call[d]
    BY <1>1 DEF Becomes, Inv, AccountInv, CallsOK
<1>5. FormsWait'
    BY <1>1, <1>2, <1>3, <1>4, NoneIsNothing, FormsWaitArrival DEF Inv, SessionInv
<1>6. TabsOK' /\ ActsAsShown' /\ Restored'
    BY <1>2, ShownStays DEF Inv, SessionInv, TabsOK
<1>7. QED
    BY <1>3, <1>5, <1>6 DEF Inv, SessionInv

LEMMA AskKeeps ==
    ASSUME Inv, NEW t \in Tabs, NEW c \in Slots, Ask(t, c)
    PROVE  Inv'
<1>1. /\ At(c, "free") /\ Becomes(c, Request("token", t, stored, None, None, None, None))
      /\ UNCHANGED <<users, made, roles>> /\ UNCHANGED tabVars
    BY DEF Ask, Send, Arrives
<1>2. AccountInv'
    BY <1>1, ArrivalKeeps DEF Inv, SessionInv, TabsOK
<1>3. \A d \in Slots \ {c} : call'[d] = call[d]
    BY <1>1 DEF Becomes, Inv, AccountInv, CallsOK
<1>4. FormsWait'
    BY <1>1, <1>3, FormsWaitArrival DEF Inv, SessionInv, tabVars
<1>5. TabsOK' /\ ActsAsShown' /\ Restored'
    BY <1>1, ShownStays DEF Inv, SessionInv, TabsOK, tabVars
<1>6. QED
    BY <1>2, <1>4, <1>5 DEF Inv, SessionInv

LEMMA AdministerKeeps ==
    ASSUME Inv, NEW c \in Slots, NEW e \in Emails, NEW n \in Asked, NEW role \in Roles,
           Administer(c, e, n, role)
    PROVE  Inv'
<1>1. PICK s \in {"either", "row"}, a \in Emails \cup {None} :
        /\ At(c, "free") /\ Becomes(c, Request(s, None, None, a, n, None, role))
        /\ s = "either" => a \in Emails
    BY DEF Administer, Send, Arrives
<1>2. UNCHANGED <<users, made, roles>> /\ UNCHANGED tabVars
    BY DEF Administer, Send, Arrives
<1>3. n \in AnyName
    BY SessionConstants DEF Names, AnyName
<1>4. AccountInv'
    BY <1>1, <1>2, <1>3, ArrivalKeeps DEF Session, Inv
<1>5. \A d \in Slots \ {c} : call'[d] = call[d]
    BY <1>1 DEF Becomes, Inv, AccountInv, CallsOK
<1>6. FormsWait'
    BY <1>1, <1>2, <1>5, FormsWaitArrival DEF Inv, SessionInv, tabVars
<1>7. TabsOK' /\ ActsAsShown' /\ Restored'
    BY <1>2, ShownStays DEF Inv, SessionInv, TabsOK, tabVars
<1>8. QED
    BY <1>4, <1>6, <1>7 DEF Inv, SessionInv

LEMMA DeleteKeeps ==
    ASSUME Inv, Delete
    PROVE  Inv'
<1>1. users' \subseteq users /\ roles' \subseteq roles /\ UNCHANGED <<made, call>> /\ UNCHANGED tabVars
    BY DEF Delete, DeleteUser, DeleteRole
<1>2. AccountInv'
    BY <1>1, DeletionKeeps DEF Inv
<1>3. TabsOK' /\ ActsAsShown' /\ Restored' /\ FormsWait'
    BY <1>1, ShownStays DEF Inv, SessionInv, TabsOK, FormsWait, tabVars
<1>4. QED
    BY <1>2, <1>3 DEF Inv, SessionInv

-----------------------------------------------------------------------------
\* Answers.  A slot whose request is answered is not free.
LEMMA AnsweredIsRequest ==
    ASSUME Inv, NEW c \in Slots, call[c].step \in Answers
    PROVE  call[c] \in Requests
<1>1. call[c] # Free
    BY DEF Answers, Free
<1>2. QED
    BY <1>1 DEF Inv, AccountInv, CallsOK

\* The form that waits for a sign-up waits for the log-in that follows it.
LEMMA SignupAnsweredKeeps ==
    ASSUME Inv, NEW t \in Tabs, NEW c \in Slots, SignupAnswered(t, c)
    PROVE  Inv'
<1>1. /\ call[c].of = t /\ call[c] \in Requests
      /\ Becomes(c, Request("verify", t, None, call[c].email, None, call[c].password, None))
      /\ UNCHANGED <<users, made, roles>> /\ UNCHANGED tabVars
    BY AnsweredIsRequest DEF SignupAnswered, Answered
<1>2. PICK e \in Emails \cup {None}, p \in Passwords \cup {None} :
          e = call[c].email /\ p = call[c].password
    BY <1>1 DEF Requests
<1>3. /\ AccountInv' /\ call'[c] \in Requests /\ call'[c].of = call[c].of
      /\ call'[c].email = call[c].email
    <2>1. Becomes(c, Request("verify", t, None, e, None, p, None))
        BY <1>1, <1>2
    <2>2. AccountInv' /\ call'[c] \in Requests /\ call'[c].of = t /\ call'[c].email = e
        BY <1>1, <2>1, ArrivalKeeps DEF Session, Inv
    <2>3. QED
        BY <1>1, <1>2, <2>2
<1>4. \A d \in Slots \ {c} : call'[d] = call[d]
    BY <1>1 DEF Becomes, Inv, AccountInv, CallsOK
<1>5. SameSender
    BY <1>3, <1>4 DEF SameSender
<1>6. FormsWait'
    BY <1>1, <1>5, FormsWaitOn DEF Inv, SessionInv, tabVars
<1>7. TabsOK' /\ ActsAsShown' /\ Restored'
    BY <1>1, ShownStays DEF Inv, SessionInv, TabsOK, tabVars
<1>8. QED
    BY <1>3, <1>6, <1>7 DEF Inv, SessionInv

LEMMA LoginAnsweredKeeps ==
    ASSUME Inv, NEW t \in Tabs, NEW c \in Slots, LoginAnswered(t, c)
    PROVE  Inv'
<1>1. /\ call[c].of = t /\ call[c] \in Requests /\ Done(c)
      /\ stored' = call[c].by /\ synced' = {t} /\ shown' = [shown EXCEPT ![t] = call[c].by]
      /\ page' = [page EXCEPT ![t] = "inside"] /\ form' = [form EXCEPT ![t] = None]
      /\ UNCHANGED <<ready, entry>>
    BY AnsweredIsRequest DEF LoginAnswered, Answered, SetSession, SaveAuth, Goto
<1>2. call[c].by \in Session
    BY <1>1 DEF Requests
<1>3. AccountInv'
    BY <1>1, DoneKeeps DEF Inv
<1>4. TabsOK'
    BY <1>1, <1>2 DEF Inv, SessionInv, TabsOK, Pages
<1>5. ActsAsShown'
    BY <1>1 DEF Inv, SessionInv, TabsOK, ActsAsShown
<1>6. Restored'
    BY <1>1 DEF Inv, SessionInv, TabsOK, Restored, SessionsAreRestored, Public
<1>7. FormsWait'
    <2>1. \A u \in Tabs : form'[u] # None => form'[u] = form[u] /\ form[u] # c
        BY <1>1 DEF Inv, SessionInv, TabsOK, FormsWait
    <2>2. QED
        BY <1>1, <1>4, <2>1, FormsWaitDone DEF Inv, SessionInv, TabsOK
<1>8. QED
    BY <1>3, <1>4, <1>5, <1>6, <1>7 DEF Inv, SessionInv

\* No form waits for an answer to a page or to an administrator.
LEMMA PageAnsweredKeeps ==
    ASSUME Inv, NEW c \in Slots, PageAnswered(c)
    PROVE  Inv'
<1>1. /\ call[c] \in Requests /\ Done(c) /\ UNCHANGED tabVars
      /\ call[c].of = None \/ call[c].email = None
    BY AnsweredIsRequest DEF PageAnswered
<1>2. AccountInv'
    BY <1>1, DoneKeeps DEF Inv
<1>3. TabsOK' /\ ActsAsShown' /\ Restored'
    BY <1>1, ShownStays DEF Inv, SessionInv, TabsOK, tabVars
<1>4. \A u \in Tabs : form[u] # None => form[u] # c
    BY <1>1, NoneIsNothing DEF Inv, SessionInv, FormsWait
<1>5. FormsWait'
    BY <1>1, <1>3, <1>4, FormsWaitDone DEF Inv, SessionInv, TabsOK, tabVars
<1>6. QED
    BY <1>2, <1>3, <1>5 DEF Inv, SessionInv

LEMMA RefusedKeeps ==
    ASSUME Inv, NEW t \in Tabs, NEW c \in Slots, Refused(t, c)
    PROVE  Inv'
<1>1. /\ call[c].of = t /\ call[c] \in Requests /\ Done(c)
      /\ form' = [form EXCEPT ![t] = IF form[t] = c THEN None ELSE form[t]]
      /\ (stored' = None /\ synced' = {t}) \/ UNCHANGED <<stored, synced>>
      /\ UNCHANGED <<page, ready, shown, entry>>
    BY AnsweredIsRequest DEF Refused, Answered, ClearAuth, Unblocked
<1>2. AccountInv'
    BY <1>1, DoneKeeps DEF Inv
<1>3. TabsOK'
    BY <1>1 DEF Inv, SessionInv, TabsOK, Session
<1>4. ActsAsShown'
    BY <1>1 DEF Inv, SessionInv, ActsAsShown
<1>5. Restored'
    BY <1>1 DEF Inv, SessionInv, Restored, SessionsAreRestored
<1>6. FormsWait'
    <2>1. \A u \in Tabs : form'[u] # None => form'[u] = form[u] /\ form[u] # c
        BY <1>1, NoneIsNothing DEF Inv, SessionInv, TabsOK, FormsWait
    <2>2. QED
        BY <1>1, <1>3, <2>1, FormsWaitDone DEF Inv, SessionInv, TabsOK
<1>7. QED
    BY <1>2, <1>3, <1>4, <1>5, <1>6 DEF Inv, SessionInv

LEMMA BrokerStepKeeps ==
    ASSUME Inv, NEW c \in Slots, BrokerStep(c), UNCHANGED tabVars
    PROVE  Inv'
<1>1. AccountInv' /\ SameSender
    BY BrokerKeeps DEF Inv
<1>2. TabsOK' /\ ActsAsShown' /\ Restored'
    BY ShownStays DEF Inv, SessionInv, TabsOK, tabVars
<1>3. FormsWait'
    BY <1>1, FormsWaitOn DEF Inv, SessionInv, tabVars
<1>4. QED
    BY <1>1, <1>2, <1>3 DEF Inv, SessionInv

-----------------------------------------------------------------------------
\* At the start nobody has sent anything and no tab has read the storage.
LEMMA InitOK ==
    ASSUME Init
    PROVE  Inv
<1>1. made \in {0, 1} /\ roles = Roles /\ call = [c \in Slots |-> Free]
    BY DEF Init, AccountsInit
<1>2. made \in 0..MaxUsers /\ users \subseteq Accounts /\ IsFiniteSet(users)
    <2> DEFINE row_(i) == [id |-> i, email |-> First, name |-> <<Handle[First], 1>>,
                           password |-> CHOOSE p \in Passwords : TRUE, role |-> Guest]
    <2>1. users = {row_(i) : i \in 1..made}
        BY DEF Init, AccountsInit
    <2>2. CASE made = 0
        <3>1. users = {}
            BY <2>1, <2>2
        <3>2. QED
            BY <2>2, <3>1, FS_EmptySet, AccountConstants
    <2>3. CASE made = 1
        <3>1. users = {row_(1)}
            BY <2>1, <2>3
        <3>2. row_(1) \in Accounts /\ 1 \in 0..MaxUsers
            BY AccountConstants DEF Accounts, AnyName, Ids
        <3>3. QED
            BY <2>3, <3>1, <3>2, FS_Singleton
    <2>4. QED
        BY <1>1, <2>2, <2>3
<1>3. AccountInv
    BY <1>1, <1>2 DEF AccountInv, RowsOK, CallsOK
<1>4. TabsOK
    <2>1. stored \in Session
        BY <1>2 DEF Init, Accounts, Session
    <2>2. entry \in [Tabs -> BOOLEAN]
        BY Zenon DEF Init
    <2>3. /\ page \in [Tabs -> Pages] /\ ready \in [Tabs -> BOOLEAN] /\ synced \subseteq Tabs
          /\ shown \in [Tabs -> Session] /\ form \in [Tabs -> Slots \cup {None}]
        BY DEF Init, Session
    <2>4. QED
        BY <2>1, <2>2, <2>3 DEF TabsOK
<1>5. ActsAsShown /\ Restored /\ FormsWait
    BY DEF Init, ActsAsShown, Restored, SessionsAreRestored, FormsWait
<1>6. QED
    BY <1>3, <1>4, <1>5 DEF Inv, SessionInv

LEMMA NextOK ==
    ASSUME Inv, [Next]_vars
    PROVE  Inv'
<1>1. CASE UNCHANGED vars
    BY <1>1, AccountsRest, ShownStays
    DEF vars, tabVars, accountVars, Inv, SessionInv, TabsOK, FormsWait
<1>2. CASE Next
    <2>1. ASSUME NEW t \in Tabs,
                 Hydrate(t) \/ Redirect(t) \/ FollowLink(t) \/ SignOut(t)
          PROVE  Inv'
        BY <2>1, HydrateKeeps, RedirectKeeps, FollowLinkKeeps, SignOutKeeps
    <2>2. ASSUME NEW t \in Tabs, NEW c \in Slots, Ask(t, c) \/ Answer(t, c)
          PROVE  Inv'
        BY <2>2, AskKeeps, SignupAnsweredKeeps, LoginAnsweredKeeps, RefusedKeeps DEF Answer
    <2>3. ASSUME NEW c \in Slots,
                 \/ PageAnswered(c)
                 \/ BrokerStep(c) /\ UNCHANGED <<tabVars, calls>>
          PROVE  Inv'
        BY <2>3, PageAnsweredKeeps, BrokerStepKeeps
    <2>4. QED
        BY <1>2, <2>1, <2>2, <2>3, OpenKeeps, SubmitKeeps, AdministerKeeps, DeleteKeeps
        DEF Next
<1>3. QED
    BY <1>1, <1>2

THEOREM Invariant == Spec => []Inv
BY InitOK, NextOK, PTL DEF Spec

\* Signing up, creating and patching (auth/service.py, users/service.py) are
\* refused as conflicts only where an account was made meanwhile or the role is
\* gone, for any number of requests in flight.
THEOREM ConflictsOnlyByRaces == Spec => []ConflictsAreRaces
<1>1. Inv => ConflictsAreRaces
    <2> SUFFICES ASSUME Inv, NEW c \in Slots, At(c, "422")
                 PROVE  call[c].raced \/ call[c].role \notin roles
        BY DEF ConflictsAreRaces
    <2>1. call[c] \in Requests /\ call[c].step = "422" /\ Clean(call[c])
        BY AtIsRequest DEF Inv
    <2>2. QED
        BY <2>1 DEF Clean, Requests
<1>2. QED
    BY <1>1, Invariant, PTL

\* A tab that has read the storage since it changed shows whom the token that
\* its requests carry (lib/api.ts, request) belongs to, for any number of tabs.
THEOREM TabsActAsShown == Spec => []ActsAsShown
<1>1. Inv => ActsAsShown
    BY DEF Inv, SessionInv
<1>2. QED
    BY <1>1, Invariant, PTL

\* Nobody with a session is redirected (components/root-shell.tsx) before the
\* session is read.
THEOREM RestoresSessions == Spec => []SessionsAreRestored
<1>1. Inv => SessionsAreRestored
    BY DEF Inv, SessionInv, Restored
<1>2. QED
    BY <1>1, Invariant, PTL

\* A log-in or sign-up form that waits (app/login/page.tsx, app/signup/page.tsx)
\* has its own request in flight, through both calls of a sign-up.
THEOREM AnswersForms == Spec => []FormsAreAnswered
<1>1. Inv => FormsAreAnswered
    BY FreeIsNoRequest DEF Inv, SessionInv, FormsWait, FormsAreAnswered
<1>2. QED
    BY <1>1, Invariant, PTL

-----------------------------------------------------------------------------
\* The names.  A sign-up that tries a suffix has found all smaller ones taken.
\* Accounts may have gone since, so the names that were ever given count, of
\* which there are at most as many as accounts were made.
Below(n) == {<<n[1], j>> : j \in 1..(n[2] - 1)}

Given(E) ==
    /\ IsFiniteSet(E) /\ Cardinality(E) <= made
    /\ \A u \in users : u.name \in E
    /\ \A c \in Slots : At(c, "name") => Below(call[c].name) \subseteq E

NamesOK ==
    /\ \A u \in users : u.name \in Names
    /\ \A c \in Slots : call[c] # Free => call[c].name \in Names \cup {None}
    /\ \E E \in SUBSET AnyName : Given(E)

LEMMA NoneIsNoName == None \notin AnyName /\ Names \subseteq AnyName
BY AccountConstants DEF AnyName, Names

LEMMA BelowIsCounted ==
    ASSUME NEW n \in AnyName, n[2] > 0
    PROVE  IsFiniteSet(Below(n)) /\ Cardinality(Below(n)) = n[2] - 1
<1>1. n[2] \in Nat
    BY DEF AnyName
<1>2. PICK k \in Nat : k = n[2] - 1
    BY <1>1
<1>3. IsFiniteSet(1..k) /\ Cardinality(1..k) = k
    <2>1. 1 \in Int /\ k \in Int
        OBVIOUS
    <2>2. IsFiniteSet(1..k) /\ Cardinality(1..k) = IF 1 > k THEN 0 ELSE k - 1 + 1
        BY <2>1, FS_Interval
    <2>3. QED
        BY <2>2
<1>4. PICK f : f = [j \in 1..k |-> <<n[1], j>>]
    OBVIOUS
<1>5. Below(n) = {<<n[1], j>> : j \in 1..k}
    BY <1>2 DEF Below
<1>6. f \in Bijection(1..k, Below(n))
    <2>1. f \in [1..k -> Below(n)]
        BY <1>4, <1>5
    <2>2. \A i, j \in 1..k : f[i] = f[j] => i = j
        BY <1>4
    <2>3. \A y \in Below(n) : \E j \in 1..k : f[j] = y
        BY <1>4, <1>5
    <2>4. f \in Injection(1..k, Below(n))
        BY <2>1, <2>2 DEF Injection, IsInjective
    <2>5. f \in Surjection(1..k, Below(n))
        BY <2>1, <2>3 DEF Surjection
    <2>6. QED
        BY <2>4, <2>5 DEF Bijection
<1>7. QED
    BY <1>2, <1>3, <1>6, FS_Bijection DEF ExistsBijection

LEMMA SuffixIsBounded ==
    ASSUME NEW E, Given(E), made \in Nat, NEW n \in AnyName, n[2] > 0, Below(n) \subseteq E
    PROVE  n[2] - 1 <= made
<1>1. IsFiniteSet(E) /\ Cardinality(E) <= made
    BY DEF Given
<1>2. Cardinality(Below(n)) <= Cardinality(E)
    BY <1>1, FS_Subset
<1>3. Cardinality(Below(n)) = n[2] - 1 /\ n[2] \in Nat
    BY BelowIsCounted DEF AnyName
<1>4. Cardinality(E) \in Nat
    BY <1>1, FS_CardinalityType
<1>5. QED
    BY <1>1, <1>2, <1>3, <1>4

\* The next suffix is one of those the model has.
LEMMA NextSuffix ==
    ASSUME AccountInv, NEW E \in SUBSET AnyName, Given(E), NEW n \in E, Below(n) \subseteq E
    PROVE  LET m == <<n[1], n[2] + 1>>
           IN  m \in Names /\ Below(m) \subseteq E
<1>1. n \in AnyName /\ n[1] \in {Handle[e] : e \in Emails} /\ n[2] \in Nat /\ n = <<n[1], n[2]>>
    BY DEF AnyName
<1>2. PICK m : m = <<n[1], n[2] + 1>>
    OBVIOUS
<1>3. m \in AnyName /\ m[1] = n[1] /\ m[2] = n[2] + 1 /\ m[2] > 0
    BY <1>1, <1>2 DEF AnyName
<1>4. Below(m) \subseteq E
    <2>1. ASSUME NEW x \in Below(m) PROVE x \in E
        <3>1. PICK j \in 1..n[2] : x = <<n[1], j>>
            BY <1>1, <1>3 DEF Below
        <3>2. j = n[2] => x = n
            BY <1>1, <3>1
        <3>3. j # n[2] => x \in Below(n)
            BY <1>1, <3>1 DEF Below
        <3>4. QED
            BY <3>2, <3>3
    <2>2. QED
        BY <2>1
<1>5. made \in Nat /\ made <= MaxUsers
    BY AccountConstants DEF AccountInv, RowsOK
<1>6. m[2] - 1 <= made
    BY <1>3, <1>4, <1>5, SuffixIsBounded
<1>7. m[2] \in 1..MaxSuffix
    BY <1>1, <1>3, <1>5, <1>6, AccountConstants
<1>8. m \in Names
    BY <1>1, <1>2, <1>3, <1>7 DEF Names
<1>9. QED
    BY <1>2, <1>4, <1>8

\* A request keeps its name or comes with one of which nothing is said yet.
NameKept(c) ==
    call'[c] # Free =>
        \/ /\ call[c] # Free /\ call'[c].name = call[c].name
           /\ call'[c].step = "name" => call[c].step = "name"
        \/ call'[c].name \in Names \cup {None} /\ call'[c].step # "name"

LEMMA NamesStay ==
    ASSUME NamesOK, made' = made, \A u \in users' : \E v \in users : u.name = v.name,
           \A c \in Slots : NameKept(c)
    PROVE  NamesOK'
<1>1. \A u \in users' : u.name \in Names
    BY DEF NamesOK
<1>2. \A c \in Slots : call'[c] # Free => call'[c].name \in Names \cup {None}
    BY DEF NamesOK, NameKept
<1>3. PICK E \in SUBSET AnyName : Given(E)
    BY DEF NamesOK
<1>4. \A u \in users' : u.name \in E
    BY <1>3 DEF Given
<1>5. ASSUME NEW c \in Slots, call'[c].step = "name"
      PROVE  Below(call'[c].name) \subseteq E
    <2>1. call'[c] # Free
        BY <1>5 DEF Free
    <2>2. call[c].step = "name" /\ call'[c].name = call[c].name
        BY <1>5, <2>1 DEF NameKept
    <2>3. QED
        BY <1>3, <2>2 DEF Given, At
<1>6. Given(E)'
    BY <1>3, <1>4, <1>5 DEF Given, At
<1>7. QED
    BY <1>1, <1>2, <1>6 DEF NamesOK

\* One request changes, the rows do not.
LEMMA OneNameKept ==
    ASSUME AccountInv, NamesOK, NEW c \in Slots, NEW x, Becomes(c, x), UNCHANGED <<users, made>>,
           x # Free =>
             \/ call[c] # Free /\ x.name = call[c].name /\ (x.step = "name" => call[c].step = "name")
             \/ x.name \in Names \cup {None} /\ x.step # "name"
    PROVE  NamesOK'
<1>1. call'[c] = x /\ \A d \in Slots \ {c} : call'[d] = call[d]
    BY DEF AccountInv, CallsOK, Becomes
<1>2. \A d \in Slots : NameKept(d)
    BY <1>1 DEF NameKept
<1>3. QED
    BY <1>2, NamesStay

LEMMA GoesKeepsNames ==
    ASSUME AccountInv, NamesOK, NEW c \in Slots, call[c] \in Requests, NEW s \in Steps \cup Answers,
           Goes(c, s), s # "name", UNCHANGED <<users, made>>
    PROVE  NamesOK'
<1>1. PICK x : x = [call[c] EXCEPT !.step = s]
    OBVIOUS
<1>2. x.step = s /\ x.name = call[c].name
    BY <1>1, Moves
<1>3. call[c] # Free
    BY FreeIsNoRequest
<1>4. QED
    BY <1>1, <1>2, <1>3, OneNameKept DEF Goes

\* A name that is tried is given or is taken by the account that is made.
LEMMA SelectNameNames ==
    ASSUME AccountInv, NamesOK, NEW c \in Slots, SelectName(c)
    PROVE  NamesOK'
<1>1. call[c] \in Requests /\ call[c].step = "name" /\ call[c] # Free /\ call[c].name \in AnyName
    BY AtIsRequest, FreeIsNoRequest DEF SelectName, HasWhatItReads
<1>2. CASE Named(call[c].name)
    <2>1. PICK E \in SUBSET AnyName : Given(E)
        BY DEF NamesOK
    <2>2. call[c].name \in E /\ Below(call[c].name) \subseteq E
        BY <1>1, <1>2, <2>1 DEF Given, Named, At
    <2>3. PICK m : m = <<call[c].name[1], call[c].name[2] + 1>>
        OBVIOUS
    <2>4. m \in Names /\ Below(m) \subseteq E
        BY <2>1, <2>2, <2>3, NextSuffix
    <2>5. PICK x : x = [call[c] EXCEPT !.name = m]
        OBVIOUS
    <2>6. x.name = m /\ x.step = "name"
        BY <1>1, <2>5 DEF Requests
    <2>7. Becomes(c, x) /\ UNCHANGED <<users, made>>
        BY <1>2, <2>3, <2>5 DEF SelectName
    <2>8. call'[c] = x /\ \A d \in Slots \ {c} : call'[d] = call[d]
        BY <2>7 DEF AccountInv, CallsOK, Becomes
    <2>9. \A d \in Slots : call'[d] # Free => call'[d].name \in Names \cup {None}
        BY <2>4, <2>6, <2>8 DEF NamesOK
    <2>10. \A d \in Slots : call'[d].step = "name" => Below(call'[d].name) \subseteq E
        BY <2>1, <2>4, <2>6, <2>8 DEF Given, At
    <2>11. Given(E)'
        BY <2>1, <2>7, <2>10 DEF Given, At
    <2>12. QED
        BY <2>7, <2>9, <2>11 DEF NamesOK
<1>3. CASE ~Named(call[c].name)
    BY <1>1, <1>3, GoesKeepsNames DEF SelectName, Steps
<1>4. QED
    BY <1>2, <1>3

LEMMA SelectEmailNames ==
    ASSUME AccountInv, NamesOK, NEW c \in Slots, SelectEmail(c)
    PROVE  NamesOK'
<1>1. call[c] \in Requests /\ call[c].email \in Emails
    BY AtIsRequest DEF SelectEmail, HasWhatItReads
<1>2. CASE Taken(call[c].email)
    BY <1>1, <1>2, GoesKeepsNames DEF SelectEmail, Reads, Answers
<1>3. CASE ~Taken(call[c].email)
    <2>1. PICK n : n = <<Handle[call[c].email], 1>>
        OBVIOUS
    <2>2. n \in Names /\ Below(n) = {}
        BY <1>1, <2>1, AccountConstants DEF Names, Below
    <2>3. PICK x : x = [call[c] EXCEPT !.step = "name", !.name = n]
        OBVIOUS
    <2>4. x.name = n /\ x.step = "name"
        BY <1>1, <2>3 DEF Requests
    <2>5. Becomes(c, x) /\ UNCHANGED <<users, made>>
        BY <1>3, <2>1, <2>3 DEF SelectEmail
    <2>6. call'[c] = x /\ \A d \in Slots \ {c} : call'[d] = call[d]
        BY <2>5 DEF AccountInv, CallsOK, Becomes
    <2>7. PICK E \in SUBSET AnyName : Given(E)
        BY DEF NamesOK
    <2>8. \A d \in Slots : call'[d] # Free => call'[d].name \in Names \cup {None}
        BY <2>2, <2>4, <2>6 DEF NamesOK
    <2>9. \A d \in Slots : call'[d].step = "name" => Below(call'[d].name) \subseteq E
        BY <2>2, <2>4, <2>6, <2>7 DEF Given, At
    <2>10. Given(E)'
        BY <2>5, <2>7, <2>9 DEF Given, At
    <2>11. QED
        BY <2>5, <2>8, <2>10 DEF NamesOK
<1>4. QED
    BY <1>2, <1>3

LEMMA InsertNames ==
    ASSUME AccountInv, NamesOK, NEW c \in Slots, call[c] \in Requests, HasWhatItReads(call[c]),
           call[c].step \in {"insert", "create"}, Insert(c, "422")
    PROVE  NamesOK'
<1> DEFINE r == call[c]
           row_ == [id |-> made', email |-> r.email, name |-> r.name,
                    password |-> r.password, role |-> r.role]
<1>1. r.name \in Names /\ r.name \in AnyName
    BY NoneIsNoName, FreeIsNoRequest DEF HasWhatItReads, NamesOK
<1>2. CASE Taken(r.email) \/ Named(r.name) \/ r.role \notin roles
    <2>1. Goes(c, "422") /\ UNCHANGED <<users, made>>
        BY <1>2 DEF Insert
    <2>2. QED
        BY <2>1, GoesKeepsNames DEF Answers
<1>3. CASE ~(Taken(r.email) \/ Named(r.name) \/ r.role \notin roles)
    <2>1. /\ made' = made + 1
          /\ users' = users \cup {row_}
          /\ call' = [d \in Slots |->
                        IF d = c THEN [r EXCEPT !.step = "ok"]
                        ELSE IF At(d, "free") THEN Free
                        ELSE [call[d] EXCEPT !.raced = TRUE]]
        BY <1>3 DEF Insert
    <2>2. row_.name = r.name
        OBVIOUS
    <2>3. \A u \in users' : u.name = r.name \/ u \in users
        BY <2>1, <2>2
    <2>4. ASSUME NEW d \in Slots, call'[d] # Free
          PROVE  /\ call[d] # Free /\ call'[d].name = call[d].name
                 /\ call'[d].step = "name" => call[d].step = "name"
        <3>1. CASE d = c
            <4>1. call'[d] = [r EXCEPT !.step = "ok"]
                BY <2>1, <3>1
            <4>2. call'[d].name = r.name /\ call'[d].step = "ok"
                BY <4>1 DEF Requests
            <4>3. QED
                BY <3>1, <4>2, FreeIsNoRequest
        <3>2. CASE d # c
            <4>1. call'[d] = [call[d] EXCEPT !.raced = TRUE] /\ call[d].step # "free"
                BY <2>1, <2>4, <3>2 DEF At
            <4>2. call[d] # Free /\ call[d] \in Requests
                BY <4>1 DEF AccountInv, CallsOK, Free
            <4>3. QED
                BY <4>1, <4>2 DEF Requests
        <3>3. QED
            BY <3>1, <3>2
    <2>5. PICK E \in SUBSET AnyName : Given(E)
        BY DEF NamesOK
    <2>6. PICK F \in SUBSET AnyName : F = E \cup {r.name}
        BY <1>1
    <2>7. IsFiniteSet(F) /\ Cardinality(F) <= made'
        <3>1. IsFiniteSet(E) /\ Cardinality(E) <= made /\ made \in Nat
            BY <2>5, AccountConstants DEF Given, AccountInv, RowsOK
        <3>2. IsFiniteSet(F) /\ (Cardinality(F) = Cardinality(E) \/ Cardinality(F) = Cardinality(E) + 1)
            BY <2>6, <3>1, FS_AddElement
        <3>3. Cardinality(E) \in Nat
            BY <3>1, FS_CardinalityType
        <3>4. QED
            BY <2>1, <3>1, <3>2, <3>3
    <2>8. \A u \in users' : u.name \in F
        BY <2>3, <2>5, <2>6 DEF Given
    <2>9. ASSUME NEW d \in Slots, call'[d].step = "name"
          PROVE  Below(call'[d].name) \subseteq F
        <3>1. call'[d] # Free
            BY <2>9 DEF Free
        <3>2. call[d].step = "name" /\ call'[d].name = call[d].name
            BY <2>4, <2>9, <3>1
        <3>3. QED
            BY <2>5, <2>6, <3>2 DEF Given, At
    <2>10. Given(F)'
        BY <2>7, <2>8, <2>9 DEF Given, At
    <2>11. \A u \in users' : u.name \in Names
        BY <1>1, <2>3 DEF NamesOK
    <2>12. \A d \in Slots : call'[d] # Free => call'[d].name \in Names \cup {None}
        BY <2>4 DEF NamesOK
    <2>13. QED
        BY <2>10, <2>11, <2>12 DEF NamesOK
<1>4. QED
    BY <1>2, <1>3

\* Looking up leaves the names alone, and so does a patch.
LEMMA AuthenticateNames ==
    ASSUME AccountInv, NamesOK, NEW c \in Slots, Authenticate(c)
    PROVE  NamesOK'
<1>0. At(c, "verify")
    BY Zenon DEF Authenticate
<1>1. call[c] \in Requests
    BY <1>0, AtIsRequest
<1>2. CASE Reads(c, "401")
    BY <1>1, <1>2, GoesKeepsNames DEF Reads, Answers
<1>3. ASSUME NEW u \in users, Becomes(c, [call[c] EXCEPT !.step = "ok", !.by = u.id]),
             UNCHANGED <<users, made, roles>>
      PROVE  NamesOK'
    <2>1. PICK x : x = [call[c] EXCEPT !.step = "ok", !.by = u.id]
        OBVIOUS
    <2>2. Becomes(c, x)
        BY <1>3, <2>1
    <2>3. x.step = "ok" /\ x.name = call[c].name
        BY <1>1, <2>1 DEF Requests
    <2>4. QED
        BY <1>1, <1>3, <2>2, <2>3, FreeIsNoRequest, OneNameKept
<1>4. \/ Reads(c, "401")
      \/ \E u \in users : /\ Becomes(c, [call[c] EXCEPT !.step = "ok", !.by = u.id])
                          /\ UNCHANGED <<users, made, roles>>
    BY Zenon DEF Authenticate
<1>5. QED
    BY Zenon, <1>2, <1>3, <1>4

LEMMA SelectRowNames ==
    ASSUME AccountInv, NamesOK, NEW c \in Slots, SelectRow(c)
    PROVE  NamesOK'
<1>0. At(c, "row")
    BY Zenon DEF SelectRow
<1>1. call[c] \in Requests
    BY <1>0, AtIsRequest
<1>2. CASE Reads(c, "404")
    BY <1>1, <1>2, GoesKeepsNames DEF Reads, Answers
<1>3. ASSUME NEW u \in users, Becomes(c, [call[c] EXCEPT !.step = "patch", !.by = u.id]),
             UNCHANGED <<users, made, roles>>
      PROVE  NamesOK'
    <2>1. PICK x : x = [call[c] EXCEPT !.step = "patch", !.by = u.id]
        OBVIOUS
    <2>2. Becomes(c, x)
        BY <1>3, <2>1
    <2>3. x.step = "patch" /\ x.name = call[c].name
        BY <1>1, <2>1 DEF Requests
    <2>4. QED
        BY <1>1, <1>3, <2>2, <2>3, FreeIsNoRequest, OneNameKept
<1>4. \/ Reads(c, "404")
      \/ \E u \in users : /\ Becomes(c, [call[c] EXCEPT !.step = "patch", !.by = u.id])
                          /\ UNCHANGED <<users, made, roles>>
    BY Zenon DEF SelectRow
<1>5. QED
    BY Zenon, <1>2, <1>3, <1>4

LEMMA UpdateRowNames ==
    ASSUME AccountInv, NamesOK, NEW c \in Slots, UpdateRow(c)
    PROVE  NamesOK'
<1> DEFINE found == {u \in users : u.id = call[c].by}
           patched == {[u EXCEPT !.role = call[c].role] : u \in found}
<1>0. /\ At(c, "patch")
      /\ IF found # {} /\ found # patched /\ call[c].role \notin roles
         THEN Goes(c, "422") /\ UNCHANGED users
         ELSE /\ Goes(c, IF found = {} THEN "500" ELSE "ok")
              /\ users' = (users \ found) \cup patched
      /\ UNCHANGED <<made, roles>>
    BY Zenon DEF UpdateRow
<1>1. call[c] \in Requests
    BY <1>0, AtIsRequest
<1>2. CASE Goes(c, "422") /\ UNCHANGED users
    BY <1>0, <1>1, <1>2, GoesKeepsNames DEF Answers
<1>3. ASSUME NEW s \in {"500", "ok"}, Goes(c, s), users' = (users \ found) \cup patched
      PROVE  NamesOK'
    <2>1. ASSUME NEW v \in users'
          PROVE  \E u \in users : v.name = u.name
        <3>1. CASE v \in users
            BY <3>1
        <3>2. CASE v \in patched
            <4>1. PICK u \in found : v = [u EXCEPT !.role = call[c].role]
                BY <3>2
            <4>2. v.name = u.name
                BY <4>1 DEF AccountInv, RowsOK, Accounts
            <4>3. QED
                BY <4>2
        <3>3. QED
            BY <1>3, <2>1, <3>1, <3>2
    <2>2. PICK x : x = [call[c] EXCEPT !.step = s]
        OBVIOUS
    <2>3. x.step = s /\ x.name = call[c].name /\ call[c] # Free
        BY <1>1, <2>2, Moves, FreeIsNoRequest DEF Answers
    <2>4. call'[c] = x /\ \A d \in Slots \ {c} : call'[d] = call[d]
        BY <1>3, <2>2 DEF Goes, Becomes, AccountInv, CallsOK
    <2>5. \A d \in Slots : NameKept(d)
        BY <2>3, <2>4 DEF NameKept
    <2>6. QED
        BY <1>0, <2>1, <2>5, NamesStay
<1>4. QED
    BY <1>0, <1>2, <1>3

LEMMA BrokerNames ==
    ASSUME AccountInv, NamesOK, NEW c \in Slots, BrokerStep(c)
    PROVE  NamesOK'
<1>1. SignupInserts(c) \/ CreateInserts(c) => NamesOK'
    <2>1. ASSUME NEW s \in {"insert", "create"}, At(c, s), Insert(c, "422") PROVE NamesOK'
        BY <2>1, AtIsRequest, InsertNames
    <2>2. QED
        BY <2>1 DEF SignupInserts, CreateInserts
<1>2. CheckToken(c) => NamesOK'
    <2>1. ASSUME CheckToken(c) PROVE NamesOK'
        <3>1. call[c] \in Requests
            BY <2>1, AtIsRequest DEF CheckToken
        <3>2. PICK s \in {"403", "ok", "401"} : Reads(c, s)
            BY <2>1 DEF CheckToken
        <3>3. QED
            BY <3>1, <3>2, GoesKeepsNames DEF Reads, Answers
    <2>2. QED
        BY <2>1
<1>3. SelectEither(c) => NamesOK'
    <2>1. ASSUME SelectEither(c) PROVE NamesOK'
        <3>1. call[c] \in Requests
            BY <2>1, AtIsRequest DEF SelectEither
        <3>2. PICK s \in {"create", "409", "500"} : Reads(c, s)
            BY <2>1 DEF SelectEither
        <3>3. QED
            BY <3>1, <3>2, GoesKeepsNames DEF Reads, Answers, Steps
    <2>2. QED
        BY <2>1
<1>4. QED
    BY <1>1, <1>2, <1>3, SelectEmailNames, SelectNameNames, AuthenticateNames,
       SelectRowNames, UpdateRowNames
    DEF BrokerStep

\* What arrives in a slot, and a slot that is freed.
LEMMA ArrivalNames ==
    ASSUME AccountInv, NamesOK, NEW c \in Slots,
           NEW s \in {"email", "either", "row", "verify", "token"}, NEW t, NEW i, NEW e,
           NEW n \in Names \cup {None}, NEW p, NEW role,
           Becomes(c, Request(s, t, i, e, n, p, role)), UNCHANGED <<users, made>>
    PROVE  NamesOK'
<1>1. PICK x : x = Request(s, t, i, e, n, p, role)
    OBVIOUS
<1>2. x.name = n /\ x.step = s
    BY <1>1 DEF Request
<1>3. QED
    BY <1>1, <1>2, OneNameKept

LEMMA DoneNames ==
    ASSUME AccountInv, NamesOK, NEW c \in Slots, Done(c)
    PROVE  NamesOK'
BY OneNameKept DEF Done

-----------------------------------------------------------------------------
\* A form waits only on the page of a form, and requests are counted.
FormsAtForms == \A t \in Tabs : form[t] # None => page[t] \in Public

TypeInv == NamesOK /\ FormsAtForms /\ calls \in 0..MaxCalls

Counted == calls' = calls \/ (calls < MaxCalls /\ calls' = calls + 1)

LEMMA CallsInRange ==
    ASSUME calls \in 0..MaxCalls, Counted
    PROVE  calls' \in 0..MaxCalls
BY SessionConstants DEF Counted

LEMMA RestNames ==
    ASSUME NamesOK, users' \subseteq users, UNCHANGED <<made, call>>
    PROVE  NamesOK'
<1>1. \A c \in Slots : NameKept(c)
    BY DEF NameKept
<1>2. QED
    BY <1>1, NamesStay

LEMMA TabTypes ==
    ASSUME Inv, TypeInv, NEW t \in Tabs,
           \/ Hydrate(t) \/ Redirect(t) \/ FollowLink(t) \/ SignOut(t)
           \/ \E path \in Pages : Open(t, path)
    PROVE  TypeInv'
<1>1. CASE Hydrate(t)
    BY <1>1, RestNames DEF Hydrate, accountVars, TypeInv, FormsAtForms
<1>2. CASE Redirect(t) \/ FollowLink(t) \/ SignOut(t)
    <2>1. UNCHANGED <<accountVars, calls>> /\ \E path : Goto(t, path)
        BY <1>2 DEF Redirect, FollowLink, SignOut
    <2>2. FormsAtForms'
        BY <2>1 DEF Goto, TypeInv, FormsAtForms, Inv, SessionInv, TabsOK
    <2>3. QED
        BY <2>1, <2>2, RestNames DEF accountVars, TypeInv
<1>3. ASSUME NEW path \in Pages, Open(t, path) PROVE TypeInv'
    <2>1. /\ form' = [form EXCEPT ![t] = None] /\ page' = [page EXCEPT ![t] = path]
          /\ UNCHANGED <<users, made>> /\ Counted
        BY <1>3 DEF Open, Counted
    <2>2. FormsAtForms'
        BY <2>1 DEF TypeInv, FormsAtForms, Inv, SessionInv, TabsOK
    <2>3. \A c \in Slots : call'[c] = IF call[c] # Free /\ call[c].of = t THEN Free ELSE call[c]
        BY <1>3 DEF Open
    <2>4. \A c \in Slots : NameKept(c)
        BY <2>3 DEF NameKept
    <2>5. NamesOK'
        BY <2>1, <2>4, NamesStay DEF TypeInv
    <2>6. QED
        BY <2>1, <2>2, <2>5, CallsInRange DEF TypeInv
<1>4. QED
    BY <1>1, <1>2, <1>3

LEMMA SendTypes ==
    ASSUME Inv, TypeInv, NEW c \in Slots,
           \/ \E t \in Tabs : Ask(t, c) \/ SignupAnswered(t, c)
           \/ \E t \in Tabs, e \in Emails, p \in Passwords :
                SubmitLogin(t, c, e, p) \/ SubmitSignup(t, c, e, p)
           \/ \E e \in Emails, n \in Asked, role \in Roles : Administer(c, e, n, role)
    PROVE  TypeInv'
<1>0. AccountInv /\ NamesOK
    BY DEF Inv, TypeInv
<1>1. ASSUME NEW t \in Tabs, Ask(t, c) PROVE TypeInv'
    <2>1. NamesOK'
        BY <1>0, <1>1, ArrivalNames DEF Ask, Send, Arrives
    <2>2. Counted /\ UNCHANGED <<form, page>>
        BY <1>1 DEF Ask, Send, Counted, tabVars
    <2>3. QED
        BY <2>1, <2>2, CallsInRange DEF TypeInv, FormsAtForms
<1>2. ASSUME NEW t \in Tabs, SignupAnswered(t, c) PROVE TypeInv'
    <2>1. NamesOK'
        BY <1>0, <1>2, ArrivalNames DEF SignupAnswered
    <2>2. Counted /\ UNCHANGED <<form, page>>
        BY <1>2 DEF SignupAnswered, Counted, tabVars
    <2>3. QED
        BY <2>1, <2>2, CallsInRange DEF TypeInv, FormsAtForms
<1>3. ASSUME NEW t \in Tabs, NEW e \in Emails, NEW p \in Passwords,
             SubmitLogin(t, c, e, p) \/ SubmitSignup(t, c, e, p)
      PROVE  TypeInv'
    <2>1. NamesOK'
        BY <1>0, <1>3, ArrivalNames DEF SubmitLogin, SubmitSignup, Send, Arrives
    <2>2. Counted /\ form' = [form EXCEPT ![t] = c] /\ page' = page /\ page[t] \in Public
        BY <1>3 DEF SubmitLogin, SubmitSignup, Send, Counted, Public
    <2>3. FormsAtForms'
        BY <2>2 DEF TypeInv, FormsAtForms, Inv, SessionInv, TabsOK
    <2>4. QED
        BY <2>1, <2>2, <2>3, CallsInRange DEF TypeInv
<1>4. ASSUME NEW e \in Emails, NEW n \in Asked, NEW role \in Roles, Administer(c, e, n, role)
      PROVE  TypeInv'
    <2>1. NamesOK'
        BY <1>0, <1>4, ArrivalNames, SessionConstants DEF Administer, Send, Arrives
    <2>2. Counted /\ UNCHANGED <<form, page>>
        BY <1>4 DEF Administer, Send, Counted, tabVars
    <2>3. QED
        BY <2>1, <2>2, CallsInRange DEF TypeInv, FormsAtForms
<1>5. QED
    BY <1>1, <1>2, <1>3, <1>4

LEMMA AnswerTypes ==
    ASSUME Inv, TypeInv, NEW c \in Slots,
           PageAnswered(c) \/ \E t \in Tabs : LoginAnswered(t, c) \/ Refused(t, c)
    PROVE  TypeInv'
<1>1. NamesOK' /\ calls' = calls
    BY DoneNames DEF PageAnswered, LoginAnswered, Refused, Inv, TypeInv
<1>2. CASE PageAnswered(c)
    BY <1>1, <1>2 DEF PageAnswered, tabVars, TypeInv, FormsAtForms
<1>3. ASSUME NEW t \in Tabs, LoginAnswered(t, c) PROVE TypeInv'
    <2>1. FormsAtForms'
        BY <1>3 DEF LoginAnswered, Goto, TypeInv, FormsAtForms, Inv, SessionInv, TabsOK
    <2>2. QED
        BY <1>1, <2>1 DEF TypeInv
<1>4. ASSUME NEW t \in Tabs, Refused(t, c) PROVE TypeInv'
    <2>1. form' = [form EXCEPT ![t] = IF form[t] = c THEN None ELSE form[t]] /\ page' = page
        BY <1>4 DEF Refused, Unblocked
    <2>2. FormsAtForms'
        BY <2>1 DEF TypeInv, FormsAtForms, Inv, SessionInv, TabsOK
    <2>3. QED
        BY <1>1, <2>2 DEF TypeInv
<1>5. QED
    BY <1>2, <1>3, <1>4

LEMMA TypeInvNext ==
    ASSUME Inv, TypeInv, [Next]_vars
    PROVE  TypeInv'
<1>1. CASE UNCHANGED vars
    BY <1>1, RestNames DEF vars, accountVars, tabVars, TypeInv, FormsAtForms
<1>2. CASE Next
    <2>1. ASSUME NEW c \in Slots, BrokerStep(c), UNCHANGED <<tabVars, calls>> PROVE TypeInv'
        BY <2>1, BrokerNames DEF tabVars, Inv, TypeInv, FormsAtForms
    <2>2. ASSUME Delete PROVE TypeInv'
        <3>1. users' \subseteq users /\ UNCHANGED <<made, call>> /\ UNCHANGED tabVars /\ Counted
            BY <2>2 DEF Delete, DeleteUser, DeleteRole, Counted
        <3>2. QED
            BY <3>1, RestNames, CallsInRange DEF tabVars, TypeInv, FormsAtForms
    <2>3. QED
        BY <1>2, <2>1, <2>2, TabTypes, SendTypes, AnswerTypes DEF Next, Answer
<1>3. QED
    BY <1>1, <1>2

LEMMA TypeInvInit ==
    ASSUME Init
    PROVE  TypeInv
<1> DEFINE n == <<Handle[First], 1>>
           row_(i) == [id |-> i, email |-> First, name |-> n,
                       password |-> CHOOSE p \in Passwords : TRUE, role |-> Guest]
<1>1. made \in {0, 1} /\ call = [c \in Slots |-> Free] /\ users = {row_(i) : i \in 1..made}
    BY DEF Init, AccountsInit
<1>2. n \in Names /\ n \in AnyName
    BY AccountConstants DEF Names, AnyName
<1>3. \A u \in users : u.name = n
    BY <1>1
<1>4. \A c \in Slots : call[c].step # "name" /\ call[c] = Free
    BY <1>1 DEF Free
<1>5. \E E \in SUBSET AnyName : Given(E)
    <2>1. CASE made = 0
        <3>1. users = {}
            BY <1>1, <2>1
        <3>2. Given({})
            BY <1>4, <2>1, <3>1, FS_EmptySet DEF Given, At
        <3>3. QED
            BY <3>2
    <2>2. CASE made = 1
        <3>1. IsFiniteSet({n}) /\ Cardinality({n}) = 1
            BY FS_Singleton
        <3>2. \A u \in users : u.name \in {n}
            BY <1>3
        <3>3. Given({n})
            BY <1>4, <2>2, <3>1, <3>2 DEF Given, At
        <3>4. QED
            BY <1>2, <3>3
    <2>3. QED
        BY <1>1, <2>1, <2>2
<1>6. NamesOK
    BY <1>2, <1>3, <1>4, <1>5 DEF NamesOK
<1>7. FormsAtForms /\ calls \in 0..MaxCalls
    BY SessionConstants DEF Init, FormsAtForms
<1>8. QED
    BY <1>6, <1>7 DEF TypeInv

\* The types, and with them two facts: a sign-up that looks for a free handle
\* (auth/service.py, _unique_username) finds one after at most as many tries as
\* there have ever been accounts, whoever signs up, creates and deletes
\* meanwhile; and a form waits only where it is shown.
THEOREM SessionsTyped == Spec => []TypeOK
<1>1. Inv /\ TypeInv => TypeOK
    <2> SUFFICES ASSUME Inv, TypeInv PROVE TypeOK
        OBVIOUS
    <2>1. users \subseteq Users
        BY DEF Inv, AccountInv, RowsOK, Accounts, Users, TypeInv, NamesOK
    <2>2. ASSUME NEW c \in Slots PROVE SlotOK(call[c])
        <3>1. CASE call[c] = Free
            BY <3>1 DEF SlotOK
        <3>2. CASE call[c] # Free
            <4>1. call[c] \in Requests /\ call[c].name \in Names \cup {None}
                BY <3>2 DEF Inv, AccountInv, CallsOK, TypeInv, NamesOK
            <4>2. QED
                BY <4>1 DEF SlotOK, Requests
        <3>3. QED
            BY <3>1, <3>2
    <2>3. DOMAIN call = Slots /\ made \in 0..MaxUsers /\ roles \subseteq Roles
        BY DEF Inv, AccountInv, RowsOK, CallsOK
    <2>4. QED
        BY <2>1, <2>2, <2>3 DEF Inv, SessionInv, TabsOK, TypeInv, FormsAtForms, TypeOK
<1>2. QED
    BY <1>1, InitOK, TypeInvInit, NextOK, TypeInvNext, PTL DEF Spec
=============================================================================
