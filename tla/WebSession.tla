------------------------------- MODULE WebSession -------------------------------
(***************************************************************************)
(* Signing in and out of the web application (apps/webapp): the session in *)
(* localStorage and its copy in each tab (lib/api.ts, lib/auth-context.tsx),*)
(* the redirects of the shell (components/root-shell.tsx) and the two      *)
(* forms, over the broker's accounts.                                      *)
(*                                                                         *)
(* All tabs share one localStorage; each read its session from there once. *)
(* The pages behind the shell are one page here, which asks the broker for *)
(* something now and then, as lists do when they poll and the chat does    *)
(* when it sends.  A page that is left does not cancel its requests.       *)
(***************************************************************************)
EXTENDS UserAccounts

CONSTANTS
    Tabs,
    Asked,      \* bound: the names that an administrator gives or patches
    MaxCalls    \* bound: requests sent and pages loaded again

ASSUME SessionConstants ==
    None \notin Tabs \cup Slots /\ Asked \subseteq Names /\ MaxCalls \in Nat

VARIABLES
    stored,     \* the user whose token and record are in localStorage
    page,       \* page[t]: "/login", "/signup" or "inside"
    ready,      \* ready[t]: AuthProvider has read the storage
    shown,      \* shown[t]: AuthProvider's user, whom the header names
    form,       \* form[t]: the slot of the request its form waits for
    calls,      \* how many there have been
    entry,      \* history, entry[t]: it was opened inside
    synced      \* history: the tabs that read or wrote the storage since it changed

tabVars == <<stored, page, ready, shown, form, entry, synced>>
vars == <<accountVars, tabVars, calls>>

Public == {"/login", "/signup"}
Pages == Public \cup {"inside"}
Session == Ids \cup {None}

SlotOK(r) ==
    \/ r = Free
    \/ /\ r.step \in Steps \cup Answers
       /\ r.of \in Tabs \cup {None} /\ r.by \in Session
       /\ r.email \in Emails \cup {None} /\ r.name \in Names \cup {None}
       /\ r.password \in Passwords \cup {None} /\ r.role \in Roles \cup {None}
       /\ r.raced \in BOOLEAN

TypeOK ==
    /\ users \subseteq Users /\ made \in 0..MaxUsers /\ roles \subseteq Roles
    /\ DOMAIN call = Slots /\ \A c \in Slots : SlotOK(call[c])
    /\ stored \in Session
    /\ page \in [Tabs -> Pages] /\ ready \in [Tabs -> BOOLEAN]
    /\ shown \in [Tabs -> Session]
    /\ form \in [Tabs -> Slots \cup {None}]
    /\ \A t \in Tabs : form[t] # None => page[t] \in Public
    /\ calls \in 0..MaxCalls
    /\ entry \in [Tabs -> BOOLEAN] /\ synced \subseteq Tabs

Init ==
    /\ AccountsInit
    /\ stored \in {u.id : u \in users} \cup {None}
    /\ page \in [Tabs -> Pages]
    /\ ready = [t \in Tabs |-> FALSE]
    /\ shown = [t \in Tabs |-> None]
    /\ form = [t \in Tabs |-> None]
    /\ calls = 0
    /\ entry = [t \in Tabs |-> page[t] = "inside"]
    /\ synced = {}

-----------------------------------------------------------------------------
\* AuthProvider and the storage.
SaveAuth(t, id) == stored' = id /\ synced' = {t}
ClearAuth(t) == stored' = None /\ synced' = {t}

SetSession(t, id) ==
    /\ SaveAuth(t, id)
    /\ shown' = [shown EXCEPT ![t] = id]

\* Mutant: only the copy of the tab is forgotten.
ForgetSession(t) ==
    /\ UNCHANGED <<stored, synced>>
    /\ shown' = [shown EXCEPT ![t] = None]

ClearSession(t) ==
    /\ ClearAuth(t)
    /\ shown' = [shown EXCEPT ![t] = None]

\* The effect that runs when a page was loaded.
Hydrate(t) ==
    /\ ~ready[t]
    /\ ready' = [ready EXCEPT ![t] = TRUE]
    /\ shown' = [shown EXCEPT ![t] = stored]
    /\ synced' = synced \cup {t}
    /\ UNCHANGED <<accountVars, stored, page, form, entry, calls>>

\* Mutant: a form keeps waiting on another page.
GotoWaiting(t, path) ==
    /\ page' = [page EXCEPT ![t] = path]
    /\ UNCHANGED form

Goto(t, path) ==
    /\ page' = [page EXCEPT ![t] = path]
    /\ form' = [form EXCEPT ![t] = None]

\* An address is typed, or the page reloaded.  Its requests go nowhere: they
\* are answered before this step or never.
Open(t, path) ==
    /\ calls < MaxCalls
    /\ calls' = calls + 1
    /\ page' = [page EXCEPT ![t] = path]
    /\ form' = [form EXCEPT ![t] = None]
    /\ ready' = [ready EXCEPT ![t] = FALSE]
    /\ shown' = [shown EXCEPT ![t] = None]
    /\ call' = [c \in Slots |->
                  IF call[c] # Free /\ call[c].of = t THEN Free ELSE call[c]]
    /\ entry' = [entry EXCEPT ![t] = path = "inside"]
    /\ UNCHANGED <<users, made, roles, stored, synced>>

\* Mutant: the shell does not wait for the storage to be read.
RedirectAtOnce(t) ==
    /\ shown[t] = None /\ page[t] = "inside"
    /\ Goto(t, "/login")
    /\ UNCHANGED <<accountVars, stored, ready, shown, entry, synced, calls>>

\* The effect of RootShell.
Redirect(t) ==
    /\ ready[t]
    /\ shown[t] = None /\ page[t] \notin Public
    /\ Goto(t, "/login")
    /\ UNCHANGED <<accountVars, stored, ready, shown, entry, synced, calls>>

\* The links between the two forms.
FollowLink(t) ==
    /\ page[t] \in Public
    /\ \E path \in Public \ {page[t]} : Goto(t, path)
    /\ UNCHANGED <<accountVars, stored, ready, shown, entry, synced, calls>>

\* The shell and its button are only there for somebody.
Inside(t) == page[t] = "inside" /\ ready[t] /\ shown[t] # None

SignOut(t) ==
    /\ Inside(t)
    /\ ClearSession(t)
    /\ Goto(t, "/login")
    /\ UNCHANGED <<accountVars, ready, entry, calls>>

-----------------------------------------------------------------------------
\* request: the token is what the storage holds now.
Send(c, request) ==
    /\ calls < MaxCalls
    /\ calls' = calls + 1
    /\ Arrives(c, request)

\* A form that waits has its button disabled.
SubmitLogin(t, c, e, p) ==
    /\ page[t] = "/login" /\ form[t] = None
    /\ Send(c, Request("verify", t, None, e, None, p, None))
    /\ form' = [form EXCEPT ![t] = c]
    /\ UNCHANGED <<stored, page, ready, shown, entry, synced>>

SubmitSignup(t, c, e, p) ==
    /\ page[t] = "/signup" /\ form[t] = None
    /\ Send(c, Request("email", t, None, e, None, p, Guest))
    /\ form' = [form EXCEPT ![t] = c]
    /\ UNCHANGED <<stored, page, ready, shown, entry, synced>>

\* A page asks for something as the user of the stored token.
Ask(t, c) ==
    /\ Inside(t)
    /\ Send(c, Request("token", t, stored, None, None, None, None))
    /\ UNCHANGED tabVars

\* An administrator elsewhere creates or patches a user.
Administer(c, e, n, role) ==
    /\ \/ Send(c, Request("either", None, None, e, n, None, role))
       \/ Send(c, Request("row", None, None, None, n, None, role))
    /\ UNCHANGED tabVars

Delete ==
    /\ calls < MaxCalls
    /\ calls' = calls + 1
    /\ (\E u \in users : DeleteUser(u)) \/ (\E role \in roles : DeleteRole(role))
    /\ UNCHANGED tabVars

Answered(c, t) == call[c].step \in Answers /\ call[c].of = t

Done(c) == Becomes(c, Free) /\ UNCHANGED <<users, made, roles>>

\* Mutant: only a success enables the form again.
StillBlocked(t, c) == form

\* finally: the form that asked, if it is still there, can be used again.
Unblocked(t, c) == [form EXCEPT ![t] = IF form[t] = c THEN None ELSE form[t]]

\* A sign-up that succeeded logs in with the same e-mail and password.
SignupAnswered(t, c) ==
    /\ Answered(c, t) /\ At(c, "ok") /\ call[c].role # None
    /\ calls < MaxCalls
    /\ calls' = calls + 1
    /\ Becomes(c, Request("verify", t, None, call[c].email, None, call[c].password, None))
    /\ UNCHANGED <<users, made, roles, tabVars>>

\* A log-in that succeeded, wherever the tab is by now.
LoginAnswered(t, c) ==
    /\ Answered(c, t) /\ At(c, "ok") /\ call[c].email # None /\ call[c].role = None
    /\ SetSession(t, call[c].by)
    /\ Goto(t, "inside")
    /\ Done(c)
    /\ UNCHANGED <<ready, entry, calls>>

\* An answer to a page inside, or one that only an administrator sees.
PageAnswered(c) ==
    /\ call[c].step \in Answers
    /\ call[c].of = None \/ (At(c, "ok") /\ call[c].email = None)
    /\ Done(c)
    /\ UNCHANGED <<tabVars, calls>>

\* request: whatever was refused with 401, the storage is cleared, and nothing
\* else; the error is shown.
Refused(t, c) ==
    /\ Answered(c, t) /\ ~At(c, "ok")
    /\ IF At(c, "401") THEN ClearAuth(t) ELSE UNCHANGED <<stored, synced>>
    /\ form' = Unblocked(t, c)
    /\ Done(c)
    /\ UNCHANGED <<page, ready, shown, entry, calls>>

-----------------------------------------------------------------------------
Answer(t, c) ==
    SignupAnswered(t, c) \/ LoginAnswered(t, c) \/ Refused(t, c)

Next ==
    \/ \E t \in Tabs :
         \/ Hydrate(t) \/ Redirect(t) \/ FollowLink(t) \/ SignOut(t)
         \/ \E path \in Pages : Open(t, path)
         \/ \E c \in Slots : Ask(t, c) \/ Answer(t, c)
         \/ \E c \in Slots, e \in Emails, p \in Passwords :
              SubmitLogin(t, c, e, p) \/ SubmitSignup(t, c, e, p)
    \/ \E c \in Slots :
         \/ PageAnswered(c)
         \/ BrokerStep(c) /\ UNCHANGED <<tabVars, calls>>
         \/ \E e \in Emails, n \in Asked, role \in Roles : Administer(c, e, n, role)
    \/ Delete

Spec == Init /\ [][Next]_vars

\* Effects run after a render, the broker answers, the browser delivers.
FairSpec ==
    /\ Spec
    /\ \A t \in Tabs : WF_vars(Hydrate(t)) /\ WF_vars(Redirect(t))
    /\ \A c \in Slots :
         /\ WF_vars(BrokerStep(c) /\ UNCHANGED <<tabVars, calls>>)
         /\ \A t \in Tabs : WF_vars(Answer(t, c))

-----------------------------------------------------------------------------
\* A sign-up, a creation or a patch is refused as "conflict or unknown role"
\* only if the role is gone or another account was made while it was handled:
\* handles that collide get a suffix (auth/service.py, _unique_username), and
\* creations find what is taken (users/service.py, create_user).
ConflictsAreRaces ==
    \A c \in Slots : At(c, "422") => call[c].raced \/ call[c].role \notin roles

\* Chat page: "Acting as ..." names the user as whom the broker handles what
\* the tab sends, as long as there is a session in the storage and no other
\* tab has changed it.
ActsAsShown ==
    \A t \in synced : ready[t] /\ stored # None => shown[t] = stored

\* RootShell waits for the storage to be read, so that nobody with a session
\* is sent to the log-in page: who has one is there only by opening it.
SessionsAreRestored ==
    \A t \in Tabs : page[t] \in Public /\ shown[t] # None => ~entry[t]

\* A form whose button is disabled has its own request in flight, which will
\* enable it again, however often the person changes pages and tabs.
FormsAreAnswered ==
    \A t \in Tabs : form[t] # None =>
        LET r == call[form[t]] IN r # Free /\ r.of = t /\ r.email # None

\* What request says: a 401 means that the token is stale, and the provider
\* redirects to the log-in page.
StaleTabsRedirect ==
    \A t \in Tabs : Inside(t) /\ stored = None /\ t \in synced ~> ~Inside(t) \/ stored # None
=============================================================================
