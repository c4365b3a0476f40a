# Verification of the robot broker

The repository holds a web application and a *broker* (a FastAPI process,
`src/packages/api`) through which people talk to one robot agent, *dimos*.  The
broker serialises chat turns, decides tool call by tool call what the agent may
do for the person it works for, and administers users, roles, policies, the
skill catalogue and learned-skill recipes.  This directory holds TLA+ models of
it, the TLC runs that check them and the TLAPS proofs about them.

    tlc -workers 2 -config AgentGateway.cfg MCAgentGateway.tla    # a run
    tlapm AgentGatewayProofs.tla                                   # a proof module

`PROJECT.json` lists components, runs, mutants, theorems and hazards, and maps
every definition to the lines it models.  Paths below are relative to
`src/packages/api/src` unless they start with `apps/`.

## Inventory

| component | state | operations | interacts with |
|---|---|---|---|
| chat dispatcher (`agents/`) | the turn lock and its waiters, `turn_start`, `_last_activity_monotonic` | `submit`, `_wait_for_idle`, `mark_gateway_activity` | session (calls), dimos (`agent_send`) |
| gateway session (`mcp_gateway/session.py`) | the active user, the turn's event log | set, clear, record, drain | shared by dispatcher and gateway |
| MCP gateway (`mcp_gateway/router.py`) | one handler per tool call | pass through, always-allow, role check, policy check, forward | session, roles, policies, dimos |
| robot client (`dimos_client.py`) | none | one HTTP post per call, 30 s timeout | dimos |
| dimos (external) | its inbox of messages | takes messages in order, calls tools through the gateway | gateway |
| recipes (`recipes/`) | a row and a JSON file per recipe, one temporary file per name | create, delete, invoke, list | database, volume, dimos |
| roles (`roles/`), taxonomy (`rbac/`) | permissions per role | create, patch, delete, seed on start-up | catalogue (validation), users (foreign key), gateway |
| skill catalogue (`mcp_tools/`) | the skills dimos listed last | sync, list | dimos, roles, policies |
| policies (`policies/`) | deny rules with a scope, roles, a condition | create, patch, delete, evaluate | catalogue, roles, gateway |
| accounts (`auth/`), users (`users/`) | user rows, a face image and an embedding per user | sign-up, log-in, create, patch, delete, upload and delete a face | roles (foreign key), volume |
| broker process (`main.py`, `db.py`) | none of its own | start-up: tables, seed roles, one catalogue sync | all |
| webapp session (`lib/api.ts`, `lib/auth-context.tsx`, `components/root-shell.tsx`, the two forms) | one session in localStorage, a copy of it in every tab | hydrate, redirect, log in, sign up, sign out; any 401 clears the storage | accounts; other tabs |
| webapp lists (people, learned skills, policies, roles) | the rows last read, the row whose buttons are disabled | poll or reload, delete, invoke, toggle, sync | broker |
| webapp editors (roles, policies) | a draft and what it was loaded from | load, edit, save, create, delete | broker's validation |
| webapp skill pages (`app/skills`) | a draft recipe, the recipe shown | draft by an LLM, ship, invoke, delete | recipes |
| webapp creation of a person (`app/users/new`, `face-capture.tsx`) | the chosen role, the camera, the picture | preview the role, take or pick a picture, save in two requests | users, faces, roles |
| webapp chat (`agent-chat.tsx`) | the transcript | send, receive the shared stream of events | chat dispatcher, dimos |
| webapp video panel, UI kit | a video element; none | | video server |

What is hard here, and what each component has to get right:

* **Turns and attribution.**  The gateway learns *who* the agent works for from
  one global that the dispatcher sets for a turn.  It is right only if turns do
  not overlap, if the global is cleared on every way out of a turn, and if the
  calls of a turn arrive before the turn ends, which the dispatcher guesses from
  silence.  Gate handlers read the global, await the database twice, and then
  write to whatever turn's log is on.
* **Progress.**  One lock serves all chats.  A hung agent must not hold it.
* **Two stores.**  A recipe, and a face, is a row and a file; a request touches
  them one await at a time, other requests and crashes come in between.
* **Check then act.**  Sign-ups, roles and policies are validated in one read
  and written in a later one.
* **Late answers.**  The pages start requests from timers, effects and buttons and
  cancel none: reads of a list overtake each other, a page is left or changed
  while its request is on, a camera is granted after the mount that asked for it
  is gone.  Tabs share one storage and each has read it once.
* **Restarts** lose every global and write the seed roles over the database.

The hazards, each at its line, are in `PROJECT.json`.

## Modules

| module | models | abstracts |
|---|---|---|
| `GatewaySession` | `mcp_gateway/session.py` | a log line is the call it is about; the lock is held over no await, so each function is one step |
| `TurnDispatcher` | `agents/dispatcher.py`, `agents/router.py` | time, in ticks; an idle poll that finds nothing is no step |
| `McpGateway` | `mcp_gateway/router.py` | permissions as the set of role-skill pairs `role_allows_skill` accepts, policies as the set of pairs some enabled policy denies with no signals; what the forward answers |
| `AgentGateway` | the three together with dimos, recipe invocations, administrators and restarts | the message texts |
| `TurnLog` | nothing: what the broker promises about turns | |
| `RecipeStore` | `recipes/service.py`, `storage.py`, `router.py` | a recipe's content is the request that brought it |
| `UserFaces` | `users/storage.py`, `users/router.py`, creation, deletion and `clear_face_embedding` of `users/service.py` | an account, and an image, is the request that brought it; e-mail, role and full name are left out |
| `AccessAdmin` | `mcp_tools/service.py`, `roles/service.py`, `policies/service.py` and the seed of `db.py` | what a policy denies when; `enabled` stands for its unvalidated fields; whether users hold a role is left to chance |
| `PolicyRules` | what `policies/models.py` accepts and what `policies/evaluator.py` decides, as operators | numbers, texts and names as small sets; a list as the set of its elements |
| `PolicyPages` | the pages that create and edit a policy, their form and condition editor, over the broker's validation | texts; a request is one step, which `AccessAdmin` cuts at its awaits |
| `UserAccounts` | `auth/service.py`, `auth/router.py` and the rows of `users/service.py`: sign-up, log-in, token check, create, patch, delete | a user name is a handle and a suffix; hashes, signatures, expiry |
| `WebSession` | `lib/auth-context.tsx`, `lib/api.ts`, `components/root-shell.tsx`, the log-in and sign-up forms, over `UserAccounts` | the pages behind the shell are one page that sends requests |
| `Page` | what all pages of the console share: which one is open, faults, changes by others | |
| `ListPages` | `users-list.tsx`, `recipe-list.tsx`, `app/policies/page.tsx`, `app/roles/page.tsx` | a row is absent, or there with one attribute on or off |
| `RolePages` | `role-permissions-editor.tsx`, `app/roles/new/page.tsx`, `app/roles/[name]/page.tsx` | names and texts |
| `SkillPages` | `app/skills/new/page.tsx`, `app/skills/[name]/page.tsx` | a recipe is a model value |
| `PersonPage` | `app/users/new/page.tsx`, `face-capture.tsx` | the text fields, and the preview of what a role may do; pictures are numbered |
| `ChatPage` | `agent-chat.tsx` | a line is its kind and the message it is about |
| `Console` | the five page modules together | |
| `MCAgentGateway`, `MCRecipeStore`, `MCUserFaces`, `MCAccessAdmin`, `MCPolicyPages`, `MCWebSession`, `MCConsole` | | constants of the runs |
| `AgentGatewayProofs`, `TurnLogProofs`, `RecipeStoreProofs`, `UserFacesProofs`, `AccessAdminProofs`, `PolicyPagesProofs`, `WebSessionProofs`, `ConsoleProofs` | | theorems |

`AgentGateway` extends `McpGateway`, which extends `TurnDispatcher`, which extends
`GatewaySession`: the modules share state as the Python modules share globals.
`WebSession` extends `UserAccounts`: it sends the requests that the broker handles.

### Chat turns and the gate

A chat request goes `new -> queued -> sending -> waiting -> answered | failed`.
`Submit` is the handler up to `async with _turn_lock`, `BeginTurn` from the lock to
the post of `agent_send`, `SendAcked` and `SendFailed` its two outcomes, `EndTurn` an
idle poll that finds the turn over.  An asyncio lock is handed to its oldest
waiter, so `queue` is a sequence.  `age` and `quiet` are the two durations that
`_wait_for_idle` compares with `_TURN_MAX_SECONDS`, `_INITIAL_GRACE` and
`_IDLE_WINDOW`; they stop counting where no comparison changes any more.

A tool call goes `free -> role -> policy -> done`, cut at the two database reads.
`gate` is the local variable `active`.  `turn`, `onTime` and `held` are history: they
record what was true when the call arrived and what has been true of its role
and skill since, and no guard reads them.  `Forget` is no step of the system: it
reuses the value of a call nobody refers to, so that calls do not run out.

dimos takes messages in order, works on one as long as it likes and calls tools
meanwhile (`AgentReceives`, `AgentCalls`, `AgentFinishes`).  `wire` lets a message
arrive after the broker gave up on its post.  Clients other than dimos may call
the gateway at any time (`DirectClientCalls`).

### Recipes

A creation is cut at `SELECT`, `INSERT` (the flush), open, write, rename, `COMMIT`
and refresh; a deletion at `DELETE`, unlink and `COMMIT`.  `writer[n]` is the
transaction that inserted or deleted row `n` and has not ended: PostgreSQL makes
other writers of that key wait for it, and readers see committed rows only.
Every await may raise (`Fails`), and the broker may die (`Crash`): both roll the
transaction back and leave the files.

### Faces

An upload is cut at the look-up, the removal of images of other types, open,
write, rename, `SELECT` and `UPDATE` of the embedding, and the last read; a deletion
of a user at `DELETE`, unlink and `COMMIT`.  Nothing serialises uploads, so open
files and paths are kept apart: `opened[r]` is the file that `r` writes to, wherever
a rename has moved it, `tmp` and `face` say which file is at which path, `content`
what is in it.  `Enroll` is dimos computing the missing embedding of the image
there is.  `session[r]` is the caller's row as `get_current_user` loaded it: when a
user's own request selects that row again, the ORM's identity map gives it back as
it was.

Nothing is assumed of who asks for what when, and two promises of `users/storage.py`
do fail when uploads for one user overlap (see Findings).  The properties say what
is left of them.  `Rivals` are two uploads for one user, or a creation and a deletion
of one user name; `before[r]` records which rivals were over when `r` arrived, so that
`Overlapped(r, s)` is true of rivals of which neither was.

* `HalfFacesHaveCause`: a half-written image at its final path takes two overlapping
  uploads of its type; no failure and no crash makes one.
* `HalfFacesAreTold`: however many uploads share the temporary file, one that is still
  writing, or has failed, goes with a half-written image: never are all answered.
* `SecondFacesHaveCause`: images of two types take overlapping uploads of these types.
* `EmbeddingsAreCurrent`: with nobody at work on a user and nobody having failed, the
  embedding is of an image on disk, with two exceptions.  `Crossed`: a deletion that
  found no row unlinks the image of a user created meanwhile.  `Unaware`: a user's own
  upload or deletion of the face that arrived while there was no embedding, and so
  does not see, nor reset, one that dimos computed since: the ORM emits no UPDATE
  for a value that is None already.

### Access

The catalogue, the roles and the policies are tables that one request validates
against while others write them, so a request is cut at each look-up
(`ReadRole`, `ReadPolicy`, `CheckSkills`, `CheckRoles`), at its commit (`CommitRole`,
`InsertPolicy`, `UpdatePolicy`) and at the refresh after it.  `read` and
`loaded` are the rows the ORM holds: a commit writes the columns that differ from
them and no others.  The history `knew` collects the names that existed since a
request arrived; `stale` marks a policy that was patched over a row other than the
one the patch was validated against.  Such overlapping patches do produce
incoherent scopes (one sets the kind, one the values), and `PoliciesAreCoherent`
says that nothing else does.

A sync is cut where another may come between: asking the robot (`ListTools`), the
upserts (`UpsertTools`), the moment at which the `DELETE` looks for rows (`DeleteTools`),
its wait for them (`LockTools`) and the commit (`CommitSync`).  Upserts and deletions wait
for a sync that has written one of their rows (`Written`); under READ COMMITTED the
`DELETE` does not see what was inserted since it looked.  `list[r]` holds what `r` writes
and what it removes.  Of a list without any usable name every entry is skipped, and
the `DELETE` empties the table.  `last` is the sync that was committed last, `beside[r]`
the syncs that were committed after `r` had looked.  `CatalogueFollowsLastSync` says that
the catalogue has all that `last` listed, and that anything else in it comes from a
sync in `beside[last]` whose list had no tool in common with that of `last`: one common
tool, and the upserts of the two wait for each other, which leaves the list of one.

### Policies and their pages

`PolicyRules` holds the two halves of the condition language: `ConditionAccepted`
is the validation, `PolicyDenies` the evaluation.  A value is a pair of its type
and itself, since Python compares a boolean with a number and a text with
neither.  `PolicyPages` goes `loading -> ready -> saving -> stored -> ready | left`
(`Saved` is the broker's commit, `Answered` the row it reads again and answers with,
which the edit page takes up before it goes on); every control of the
form is an action on `draft`, among them the repairs the form makes by itself: a
new kind of scope empties its values, a new signal resets operator and value, a
new operator replaces a value of the wrong shape.  `SaveButtonIsRight` says that
those repairs suffice: whatever way the form was edited, what Save accepts the
broker accepts, provided typed lists are well typed, nobody has meanwhile removed
a skill or role, and the policy was acceptable when it was loaded.  `DeniesAsRead`
compares the evaluator with a reference definition: each predicate describes a
region of its signal's values, and a policy fires exactly when the world, with the
defaults of what is not measured, lies in all (or one) of its regions.

### Accounts and sessions

`UserAccounts` holds the requests in flight in slots.  A request is cut at its
SELECTs and its COMMIT: a sign-up is `SelectEmail`, one `SelectName` for each candidate
of `_unique_username`, `SignupInserts`; a creation `SelectEither`, `CreateInserts`; a patch
`SelectRow`, `UpdateRow`.  `Insert` and `UpdateRow` apply the unique indexes and the foreign
key to roles.  The history `raced` says that an account was made while the request
was handled; `ConflictsAreRaces` says that without that, and with the role there,
no request ends in a conflict.

`WebSession` adds the tabs of one browser.  `stored` is what localStorage holds,
`shown[t]` the user in the React state of tab `t`, `form[t]` the request its form waits
for.  `Hydrate` and `Redirect` are the effects of `AuthProvider` and `RootShell`.  A request
carries the token that is stored when it is sent (`Ask`), and an answer is
handled wherever its tab is by then.  `synced` are the tabs that have read or
written the storage since it changed: only for them can the header name the user
as whom the tab acts (`ActsAsShown`), since no tab listens to the storage.

### Console

One page is open at a time (`open`), with all it has sent still in flight.  Requests
are `sent`, then served by the broker (or lost, within the bound `MaxFaults`), then
answered; `Elsewhere` is another administrator changing what the page is about,
`others` counts it.

*Lists*: `reads[p][s]` is the read of part `p` (the rows, or the catalogue on the page of
roles) by reload `s`; a reload that overlaps another sets `overlapped`.  Overlapping
reads can indeed bring back an older list until the next poll; `ListIsFresh` says
that nothing else does, `ListsCatchUp` that polled lists recover.  `slot` is the one
variable of the page that says which row is being worked on, which a second
operation takes over.  The pages of policies and roles have no poll, and
keep such a list until their next reload.  *Roles*: what the editor offers is the
catalogue by category (`Offered`).  A save is served in two transactions, the commit
(`ServeSave`) and the refresh (`RefreshSave`), and its answer is the row of the second:
somebody else's patch in between, which `patched` records, replaces what is in the
editor.  `EditsAreKept` says that nothing else does, and that the editor then shows the
row as the page has it; `RefusalsHaveCause` is about permissions that the catalogue no
longer has.  *Skills*: drafting and
shipping exclude each other by their buttons only.  *Persons*: each turn of the
camera is a mount with its own effect, and `getUserMedia` may answer any mount at
any time; `encoding` are the snapshots in `toBlob`.  *Chat*: the stream reconnects and
loses what was sent meanwhile; the robot may answer before or after the broker
does.

## Runs

| run | instance | shows |
|---|---|---|
| `gateway_safety` | 2 chat requests, 2 calls, 2 people, 1 change of permissions or policies | `TypeOK`, `TurnOwnsSession`, `AttributedInTurn`, `ForwardedOnlyIfPermitted`, `ReportedOnce` hold |
| `gateway_live` | 2 chat requests, 1 recipe invocation, 1 call, 1 restart, fairness | `EveryTurnEnds`, and `AgentGateway` implements `TurnLog` (`TurnsInOrder`) |
| `gateway_attributed` | 2 chats, 1 call | `EveryCallAttributed` fails |
| `recipes` | 3 requests for one name, 1 crash, failures, fairness | `FilesAreWhole`, `FilesMatchRows`, `DeletionsAreComplete`, `RequestsEnd` hold |
| `recipes_atomic` | 2 requests, no fault | `RowAndFileTogether` fails |
| `faces` | 3 requests about one user, by the user or by others, 2 image types, 1 crash, failures | `HalfFacesHaveCause`, `HalfFacesAreTold`, `SecondFacesHaveCause`, `EmbeddingsAreCurrent` hold |
| `faces_left` | 2 requests, no fault | `NoFaceWithoutUser` fails |
| `access` | 2 requests of any kind, 1 policy, 2 roles, 3 skills, 1 restart, failures | `CatalogueFollowsLastSync`, `PoliciesAreCoherent`, `ReferencesWereKnown`, `PatchesKeepOtherFields` hold |
| `sessions` | 2 tabs, 2 requests in flight, 2 addresses of one handle, 2 accounts, 3 requests, loads or deletions | `ConflictsAreRaces`, `ActsAsShown`, `SessionsAreRestored`, `FormsAreAnswered` hold |
| `sessions_redirect` | 1 tab, 1 request in flight, fairness | `StaleTabsRedirect` fails |
| `console` | 2 rows, 2 reads in flight, 2 operations, 3 skills, 2 recipes, 2 mounts of the camera, 1 picture, 2 messages, 1 fault, 1 change by others, fairness for lists | `ListIsFresh`, `ButtonsTellTheTruth`, `EditsAreKept`, `RefusalsHaveCause`, `ShippedIsShown`, `CameraOffWhenLeft`, `SavedAsShown`, `RepliesFollowMessages`, `ListsCatchUp` hold |
| `policy_pages` | policies of up to 2 predicates over a number, a boolean and an enum signal, 1 change by others | `SaveButtonIsRight`, `DeniesAsRead` hold |

**Bounds.**  Two chat requests give one turn and one waiter, which is what it takes
for a turn to be confused with the next; with two calls one can be in the gate
while another is decided, or two of one turn end in different ones.  Two people
with different roles, of which one has the permission, make a mix-up visible
both in the name and in the decision.  One administrator's change can fall
before the arrival, between the reads and after the decision.  The ticks
distinguish before and after each of the three times: in `gateway_live`, with
`TurnMax = 3`, `InitialGrace = 2`, `IdleWindow = 1`, silence, grace and deadline fall on
different ticks.  The safety run has `TurnMax = 2` and `InitialGrace = 1`: its properties
ask when a turn may end, not why, and any of the three times may end it.  Three requests for one recipe name are a creation, a deletion and a
third that undoes either; names are independent of each other.  For faces the same three, with two image types, so
that an upload may find an image of its own or of another type; two of them make
each of the cases that the properties name, with a deletion, a creation or another
upload beside them.  For access two requests are
enough, since each property is about one commit and one change that came between
its look-ups and it; the old policy may be any coherent row, or none.  One name is
a skill and a category, so that a scope can be coherent as one kind and not as
the other.  The robot lists one of three lists,
of which two have no tool in common, no usable name at all, or nothing.
For the policy pages one signal of each kind that has an
input of its own is enough, one of them with no default; the operators that are
not chosen in the form (`Chosen`) come from the policies that are edited (`Rows`).
An edit page goes on with the answer to a save if it is one of `Resumed`, a policy that
was not there at the start, and is closed otherwise: what the form can do with an
answer is what it can do with a row that was loaded, and each further answer would
multiply the states by those of the form.
No draft has more predicates than the broker takes; the form itself does not stop
there.  For sessions two addresses with one handle make two sign-ups compete for a
name, two tabs let one change the storage under the other, and three requests
are a log-in in one tab, something asked in the other, and one thing more that
comes between.  For the console pages share nothing but the broker, so one page
at a time says what a page can do; two reads in flight overtake each other, two
operations make the second take the slot of the first, one change by others falls
before, between or after the steps of a request, two mounts tell a late grant of the
first from the grant of the second, and of two messages the first one's replies
can arrive among the second one's.  The theorems lift the bounds for all safety
properties.

**Fairness.**  A free lock wakes its next waiter (asyncio), a post ends in an answer
or in the client's 30 s timeout, the idle poll is rescheduled every half second,
the clock advances.  Nothing is assumed of dimos, of clients, of administrators
or of the gate's database reads: `EveryTurnEnds` holds with an agent that hangs or
calls tools for ever.  For recipes the database, the file system and the event
loop answer each step; failures and crashes are never required.  For lists the
interval timer ticks, the broker answers each read and the browser delivers the
answer.  For sessions (`FairSpec`) effects run after a render, the broker answers and
answers are delivered; no click is required, nor that anybody loads a page.

**Deadlock** is not checked: a finite number of requests ends, and then nothing is
left to do.

## Findings

* `EveryCallAttributed` (`agents/router.py:3-5`: every `tools/call` is attributed to a
  specific user).  A turn ends when dimos was silent for four seconds, or after
  ninety.  If dimos calls a tool for that message later, nobody is active and the
  call is forwarded without a check; or the next person's turn is on and the
  call is gated as that person.
* `RowAndFileTogether` (`recipes/service.py:60`: inserts the row and writes the file
  atomically).  A `DELETE` that arrives while a recipe of that name is being
  created finds no row, unlinks the new file and leaves; the creation commits a
  row with no file.
* `NoFaceWithoutUser` (`users/service.py:92`: deletes the user row and the image).  An
  upload that looked its user up before the deletion writes the image after it;
  the next user of that name inherits the face.
* `StaleTabsRedirect` (`apps/webapp/lib/api.ts:354-355`: a 401 clears the token so
  that the provider can redirect on the next render).  `clearAuth` empties the storage;
  the provider's user is React state that nothing resets, so the tab stays where
  it is, names its user and sends its next requests as nobody.

Other disagreements, met while modelling and left without a run of their own:

* A reply lists gated calls "the agent made during this turn" (`lib/api.ts:51`), but a
  call whose reads outlast its turn is listed in the next reply.
* Two uploads of one type for a user share the `.tmp` file, so that a half-written image
  may be renamed into place (`users/storage.py:5-6`: atomic rename avoids half-written
  reads); the upload whose file was renamed by the other fails, and its sender is told.
* Two uploads of two types for a user may each remove the other types before either
  renames, and leave two images (`users/storage.py:49-50`: the user only ever has one face
  on disk).
* A user who uploads or deletes the own face while dimos computes the first embedding
  keeps that embedding, although the upload "resets the cached embedding"
  (`users/router.py:87`); see `Unaware` above.
* Two syncs whose lists have nothing in common may leave both in the catalogue
  (`mcp_tools/service.py:59-60`: what is no longer listed is deleted), and a list without
  any usable name empties it.
* The answer to a save of a role is the row as it was read after the commit
  (`roles/service.py:90`): another administrator's patch in between replaces the
  editor's content with what nobody chose there.
* The preview of a new person's role shows what the catalogue and the taxonomy say
  once they are read.  Before that, or if the catalogue cannot be read, it says of
  a role with full access that the robot will refuse every command
  (`apps/webapp/app/users/new/page.tsx:347-349`, `384-387`).
* Policies "can be edited" when a role they name is removed
  (`policies/db_models.py:9-11`), but `update_policy` validates the whole scope again, so
  that even the on-off switch is refused until the scope is repaired.
* `delete_user` (`users/service.py:94`) unlinks the image although its DELETE found no
  row.
* `create_user` answers 500 when name and address belong to two different users
  (`scalar_one_or_none`), and a conflict that only its commit finds is reported as an
  unknown role.
* The chat skips every human event as the echo of its own message
  (`agent-chat.tsx:32-33`), those of other people too.
* The face thumbnail's URL is fetched by an `img`, which sends no Authorization header,
  so that the broker refuses it.
* The role a turn runs with is the one read when the request authenticated, however
  long it waits in the queue; a failed upload leaves a person without a face.

## Proofs

All of it holds for every value of the constants: any number of requests,
calls, accounts, images, tabs, rows, skills, signals and ticks, any seed, any number
of changes, faults and restarts.  Every safety property of a passing run is the
statement of a theorem.

The assumptions are the named ASSUMEs of the modules, which TLC evaluates on every
run:

* special values are outside the sets they stand beside, and bounds are naturals
  (`NoneIsNoPath`, `RequestsAreFinite`, `PageConstants`, `ListConstants`, `PersonConstants`, `ChatConstants`,
  `SessionConstants`, `AccountConstants`, `NamesDiffer` and the like); the wildcard is the
  name of no skill; the seed is about roles and skills that exist, the robot's events
  are not lines of a person (`NoTextReplies`), a sign-up's role exists at the start;
* `NamesAreClear`: a category whose name is a skill's holds that skill alone, as `speak`
  does in `rbac/taxonomy.py`, so that a name in a scope reads the same way as either;
* `SignalsAreDescribed`, `DefaultsFit`, `DefaultsExist`: each signal of the catalogue has a
  kind, values and a default of that kind, as `signals.py` declares them;
* `RowsAreAccepted`, `FormIsTyped`: policies that the run starts with are such as the
  broker accepts and the form can show, and what is typed is a scalar.

| theorem | states | argument |
|---|---|---|
| `TypeCorrect` | `Spec => []TypeOK` | one lemma per group of actions; records written by the gate are call records whichever branch writes them |
| `OneTurnOneUser` | `[]TurnOwnsSession` | inductive with what waits in the queue: every waiter is in `queued`, stands in the queue once and has a caller |
| `CallsInTurnAreAttributed` | `[]AttributedInTurn` | from the previous invariant: if the origin's turn is on it holds the lock, so the active user read on arrival is its caller, and callers of requests that have started never change |
| `CallsAreReportedOnce` | `[]ReportedOnce` | a call in a log or a reply is done, and a call in the gate is in none; logs and replies stay disjoint because a turn's end moves its log |
| `ForwardedCallsArePermitted` | `[]ForwardedOnlyIfPermitted` | a call in the gate has in `held` whatever holds of its pair now |
| `ImplementsTurnLog` | `Spec => TurnsInOrder` | step by step: each action is a `TurnLog` step or leaves its variables alone; the log's refinement is empty between turns, which hides what a failed turn left behind |
| `RecipeTypes`, `NoHalfWrittenRecipe`, `NoForeignRecipe`, `NoFileSurvivesItsRow` | the recipe store's safety | the key: a creation between `INSERT` and `COMMIT` holds its name's key and there is no row under it, hence one creation at a time uses the temporary file and no deletion of a row overlaps |
| `FacesTyped` | `Spec => []TypeOK` | with `FilesAreFilled`: a path or a descriptor that is in use names a file with content |
| `HalfFacesNeedTwo`, `SecondFacesNeedTwo` | `[]HalfFacesHaveCause`, `[]SecondFacesHaveCause` | `FacesInv`: a file is at the path of the request that made it, and not before it is opened (`FilesAtTheirPaths`); an upload that overlapped no other of its path therefore owns the temporary file until it renames it, and it is whole by then (`UploadsOwnTmp`); from the removal of the other types to its rename, an image of another type is that of an upload it overlapped (`SiblingsHaveCause`) |
| `HalfFacesStayTold` | `[]HalfFacesAreTold` | counting: a file is made by one upload and renamed at most once (`RenamesAreCounted`), so if all uploads of a path are answered there are as many files as uploads, each opened one of its own, and what only one upload wrote is whole (`SoleWriters`) |
| `EmbeddingsStayCurrent` | `[]EmbeddingsAreCurrent` | `MismatchesHaveCause`: an embedding of no image on disk has somebody who is about to reset it or failed, or one of the two exceptions; a deletion holds the row it unlinks the image of, or `Crossed` (`DeletersHoldRow`) |
| `AccessTyped`, `PoliciesStayCoherent` | `[]TypeOK`, `[]PoliciesAreCoherent` | `AccessInv`: a request that updates has read a row (`StepsFitJobs`, `TargetsAreScoped`); a validated request holds a scope that fits, and what it writes over the row it read is that scope unless the row is `stale` |
| `CatalogueStaysWithLastSync` | `[]CatalogueFollowsLastSync` | `SyncsInv`: two syncs that have upserted share no tool (`SyncsAreApart`), and what a sync that is deleting neither lists nor removes was listed by one committed beside it (`DeletesCoverCatalogue`, `HistoriesAgree`) |
| `NothingUnknownIsNamed`, `PatchesKeepTheRest` | the action properties | from `AccessInv`: a request that has passed a look-up knew what it named (`LookedUp`); a commit writes the columns in which the patched row differs from the row that was loaded |
| `PagesTyped`, `SaveButtonStaysRight` | `[]TypeOK`, `[]SaveButtonIsRight` | `PageInv`: the draft is `Editable` after every control, i.e. each term has a value of the shape its operator wants and its scope's kind fits its values, and names in it were offered or were in the original (`NamesHaveSource`); with the button's own checks this is all the broker asks, under the hypotheses of `SaveButtonIsRight`: lists that fit, a broker that has what the form was loaded with, an original that it accepts.  `AnsweredKeepsInv`: a stored row that is taken up is one that the form can show |
| `PoliciesDenyAsRead` | `[]DeniesAsRead` | `PredicateReads`: on values of its signal, an accepted predicate is true exactly in its region, by cases of operator and kind; then by the combinator, the scope and the defaults |
| `ConflictsOnlyByRaces` | `[]ConflictsAreRaces` | `AccountInv`: what a request that nobody raced with has found free is free (`Clean`), because an insertion marks every other request and deletions and patches take no name |
| `TabsActAsShown`, `RestoresSessions`, `AnswersForms` | `[]ActsAsShown`, `[]SessionsAreRestored`, `[]FormsAreAnswered` | `SessionInv`: whoever writes the storage is the only tab in `synced`; a tab opened inside stays there until it has read the storage; a waiting form's slot holds a request of its tab, which the broker's steps never hand to another (`SameSender`) |
| `SessionsTyped` | `[]TypeOK` | `NamesOK`, a counting argument: the user names given so far are finitely many and no more than accounts were made, and a name under trial has all smaller suffixes taken by them, so that `_unique_username` ends within `MaxSuffix` |
| `KeepsEdits`, `RefusesWithCause` | the editor of a role | `EditInv`: while a save is on the draft is what was sent and chosen, what is stored and answered is that too unless the role was `patched` in between, and then the draft is the row; `CauseInv`: while nobody else changed anything, the catalogue read is the broker's and the draft is within what it offers or the role had |
| `ShipsWhatIsShown` | `[]ShippedIsShown` | `DraftInv`: while a draft is being made there is none to ship and nothing is shipped |
| `TurnsCameraOff` | `[]CameraOffWhenLeft` | `CameraInv`: only the mount on the screen has a running stream, over `QuietInv`: the pages that are not open have nothing in flight |
| `SavesWhatIsShown` | `[]SavedAsShown` | `SaveInv`: from Save to the upload the captured picture is the one shown at the click |
| `ButtonsWait` | `[]ButtonsTellTheTruth` | `ButtonInv`: while an operation that is lone is on no other is, so nothing else frees or takes the slot |
| `TranscriptReads` | `[]RepliesFollowMessages` | `LinesInv`: every message sent has one line, no line is about a later one; `QueueInv`: what is on its way is about messages sent |
| `ListsAreFresh` | `[]ListIsFresh` | `FreshInv`: for a part whose reads did not overlap, the one read in flight, or else what is shown, is no older than the last success, which sends the next read |
| `ConsoleTyped` | `[]TypeOK` | page by page, since a step of one leaves the variables of the others; an answer is of the kind of the part that was read (`ListTypes`), what is on its way in the chat is about messages sent (from `LinesInv`, `QueueInv`) |

Only model-checked: the liveness properties `EveryTurnEnds`, `RequestsEnd` and
`ListsCatchUp`, since fairness and ENABLED are out of the prover's reach.  The four runs
that refute a claim stand on TLC's counterexamples.

## Plan

1. *Done*: the chat core (`GatewaySession`, `TurnDispatcher`, `McpGateway`,
   `AgentGateway`, `TurnLog`), the recipe store, their proofs; faces
   (`UserFaces`).
2. *Done*: access administration (`AccessAdmin`): catalogue sync, roles validated
   against it, policy patches, the seed.
3. *Done*: `UserAccounts` and `WebSession`: sign-up and user administration over
   unique names and addresses, sessions, redirects and the two forms.
4. *Done*: the language of policies and the pages that edit them (`PolicyRules`,
   `PolicyPages`).
5. *Done*: the other pages of the web application, composed into `Console`, and
   theorems about them.
6. *Done*: theorems about `UserFaces`, `AccessAdmin` and `PolicyPages`, and the type
   invariants of `WebSession` and `Console`.
7. *Done*: overlapping uploads, syncs without a common tool, the refresh after a save.
8. Left: abstract specifications of accounts, recipes and lists (one step per request),
   and proofs that the modules implement them.

## Not modelled

Logging and the request middleware, the runtime URLs and the taxonomy listing
(no state), the prompt behind recipe drafts (one call outside, whose answer is any
draft in `SkillPages`), table creation, password hashing and token signatures.  MCP
requests other than `tools/call`, and notifications, are forwarded by the gateway and
touch nothing the broker keeps.

Of the web application: the video panel (no page mounts it), the UI kit and layout
(presentation), text fields and their validation, the idle badge of the chat with its
second stream, the preview of what a role may do (`RolePermissionsPreview`, a function
of what was read; what is wrong with it is under Findings).  `recipe-list.tsx` is mounted by no page either; it is modelled because
it polls and changes rows like the others.  A page that calls `router.push` is left at
once, and the taxonomy, which is fixed in the broker, is taken as loaded.
