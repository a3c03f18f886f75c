# ScopeMaker: TLA+ models and proofs

ScopeMaker is a Flask and SQLAlchemy application that writes subcontract scope
documents ("exhibits"). In production several gunicorn workers and any number of
`flask run-worker` processes share one PostgreSQL database at READ COMMITTED.
They have no other shared state: every request reads rows, changes its own copies of
them, and commits. What can go wrong goes wrong between those reads and
that commit, and that is what most of these modules are about. The others are about what
a document says: how it is generated, numbered, copied and reported on.

## How the code behaves, and how every module models it

* A request is split where the database lets others in: an action is what one
  process does between two commits (or between a read and the commit that
  depends on it). Consecutive SELECTs of one handler are one action.
* SQLAlchemy's unit of work writes only the attributes that changed since they
  were read, by primary key. Only `Scope` has a `version_id_col`.
* A commit expires what the session has loaded: what is used after it is read again.
* A failed flush rolls the whole unit of work back; no handler maps
  `StaleDataError` or `IntegrityError`, so the user gets an error page.
* Names, texts and rendered bytes are model values; logging, flash messages,
  formatting and metrics are left out.

Many promises of this code hold only as long as no request acts on a reading that has
changed since. The modules record in a history variable when that happens, and the
properties say exactly which overlap excuses which promise: `late` in `ItemTree` and
`Accounts`, `moved` in `Membership`, `overtaken` in `RenderQueue`, `over` in `Library`,
`lost` and `overlapped` in `ProcoreSync`. Whatever is not excused is guaranteed.

## Inventory

| Component | State | Operations | What is hard | What makes it correct | Module |
|---|---|---|---|---|---|
| Render queue and cache (`services/render_queue.py`, `models/render.py`, `blueprints/exports`) | `render_jobs` rows | download (cache, enqueue, inline), poll; worker: sweep, claim, render, store, purge | racing workers, slow workers, crashes, edits during a render, cascade deletion, oversized results | a job is claimed once per queuing; retries end; nobody is served another document | `RenderQueue` |
| Scope life cycle (`services/scope_builder.py`, `blueprints/scopes`, `blueprints/api`, `models/scope.py`) | `scopes`, sections, items, `scope_revisions` | edit, settings, PATCH, issue, revise, archive, push | two people on one document; lock checked on a stale read; only one table versioned | no version is lost; a locked document stays as issued | `ScopeLifecycle` |
| Item tree (same files) | `scope_items` with parent and position | add, update, delete, reorder, add clauses | concurrent reorders; duplicate clauses | the tree stays a forest; siblings keep an order | `ItemTree` |
| Builder, duplicates, templates (`services/scope_builder.py`, `models/template.py`) | whole documents, `scope_templates` | create, wizard, edit, duplicate, save as template | ids from forms; hierarchy under new ids; generated and saved lines mixed | a document holds what its organization may use; a copy reads alike | `Exhibits` |
| Numbering (`services/numbering.py`) | none | outline labels | mixed styles, letter overflow, dropped separators | labels tell lines apart | `Numbering` |
| Coverage (`services/coverage.py`) | none | gaps, overlaps, redirects over a project's scopes | the catalogue asked twice, at different times | scopes built from the defaults do not accuse themselves; a report is about its project | `Coverage` |
| Library and seeding (`services/library.py`, `seeding.py`, `blueprints/library`) | clauses, spec sections, suppressions | seed, create, copy, edit, hide, restore, delete | shared rows; processes seeding two releases at start-up | a release lands; nobody else is affected | `Library` |
| Accounts and sessions (`blueprints/auth`, `models/user.py`, `services/mfa.py`) | user row, reset links, cookies, pending challenges | log in, second factor, reset, change password, revoke | counters and lists written from a reading; single-use codes used twice at once | a revoked session stays out; a code works once; failures lock | `Accounts` |
| Membership (`blueprints/admin`, `services/account_data.py`, `accounts.py`) | memberships, invitations | invite, accept, change role, remove, delete account | check-then-write on the number of administrators | an organization keeps an administrator | `Membership` |
| API tokens (`blueprints/api/auth.py`) | tokens, per-process cache | authenticate, issue, revoke, expire, evict | revocation and policy against a cached row | a revoked token does not authenticate | `TokenCache` |
| Procore (`services/procore_client.py`, `procore_sync.py`, `blueprints/procore`) | connection tokens, synced projects and packages | authorize, refresh, retry, sync, push, disconnect | rotating refresh tokens, lost answers, overlapping syncs, listings that change between pages | the chain of tokens is kept; one project per Procore id | `ProcoreSync` |
| Projects and bid packages (`blueprints/projects`, `models/project.py`) | projects, packages | forms | none of their own | | not modelled |
| Audit (`services/audit.py`) | `audit_events` | record | entries in a second transaction | log and reality agree | `ScopeLifecycle` (issue and revise) |
| Renderers (`services/renderers`) | none | HTML, DOCX, Markdown, JSON | | the lines in order under their numbers | `Exhibits` (which lines) |
| Metrics, mail, CLI, frontend, desktop, scripts, migrations | none relevant | | | | not modelled |

How they meet: the builder asks the library and the catalogue what to include; edits of
a scope change what the queue's fingerprint is about; coverage reads scopes and the
catalogue; a push to Procore renders a scope and writes its row under its version; the
security policy of an organization is enforced on sessions (`Accounts`) and on tokens
(`TokenCache`); deleting an account deletes its tokens, and deleting an organization its
scopes and their render jobs. In the models a component sees the others as steps that
change its rows at any time: `Edit` and `DeleteScope` in `RenderQueue`, `SetPolicy` and `DeleteOwner` in
`TokenCache`, `EditScope` in `ProcoreSync`. `Exhibits` composes builder, `Numbering` and
`Coverage` with the catalogue.

## Modules

| Module | What it is |
|---|---|
| `RenderQueue` | the download request, the worker loop, the `render_jobs` rows, the document and the clock |
| `JobLifecycle` | the abstract life of one row; `RenderQueue` implements it when one worker runs |
| `ScopeLifecycle` | one scope document under concurrent edits, issues, revisions, archiving and pushes |
| `ItemTree` | the lines of one section under concurrent requests |
| `Membership` | accounts, organizations, memberships and invitations under concurrent requests and shell commands |
| `Accounts` | one account signing in from several browsers |
| `TokenCache` | bearer tokens and the cache of every process |
| `TokenCheck` | the abstract check without a cache; `TokenCache` implements it |
| `Library` | shipped and own rows, suppressions, and seedings of several releases |
| `Exhibits` | documents from generation to page and report; extends `Outline`, `Numbering` and `Coverage` |
| `Outline` | the lines of one section: their order, counters and copies, as operators |
| `Numbering`, `Coverage` | the outline labels and the project report, as operators |
| `ProcoreSync` | the connection to Procore and what runs over it |
| `MC...` | symmetry sets, values and bounds of the model-checked instances |
| `...Proofs` | the theorems and their proofs |

Definitions named `...Unchecked`, `...Never` and so on, each with a comment that starts
with "Mutant:", are the wrong variants of the definition that follows them. No
specification uses them; they show that a property depends on the code being as
it is.

### RenderQueue

One scope and one format: every query of the cache filters on both, so rows of
other documents only compete for the workers. `Fingerprint` gives each state of the
document its key: `fingerprint()` hashes a fixed list of inputs, so two states may share
one, and the code's list leaves out the contractor of the project, which is printed. Any
such function satisfies the assumptions; in the runs `d1` and `d3` differ in the contractor alone. `doc` is the document (`None` once the scope is deleted), `jobs` the
table, in the order of creation, `req` the requests, `wrk` the workers.

| Action | Code |
|---|---|
| `Lookup` | `download()`: `fingerprint()` of the document as it stands, then `cached()` for that key |
| `EnqueueFind`, `EnqueueInsert` | `enqueue()`: `pending()`, then INSERT and commit; others may insert in between |
| `InlineInsert`, `InlineRender`, `InlineStore`, `InlineAgain` | the path without `RENDER_ASYNC`: row inserted as running, rendered, `render_now()`'s commit, a second render when the bytes were too large to keep |
| `Poll`, `Leave`, `RequestError`, `RequestCrash` | `job_status`, `job_state` and the waiting page; 404 and refused flushes; a killed web process |
| `Scan`, `Sweep` | `requeue_stale()`: the SELECT and the decision, then the UPDATEs by primary key |
| `Pick`, `Claim` | `claim_one()`: the oldest queued row, then the conditional UPDATE (the refresh of the row is merged with it) |
| `Render`, `Store` | `render_now()`: reads the document as it is now, then commits by primary key |
| `Idle` | an idle cycle, which may run `purge_expired()` |
| `WorkerError`, `WorkerCrash`, `Restart` | `StaleDataError` out of `run_worker` when a row is gone, a killed worker, `restart: unless-stopped` |
| `Edit`, `DeleteScope`, `Age`, `Expire` | the document changes, its key with it or not, or is deleted (PostgreSQL cascades to the rows); STALE_AFTER and RESULT_TTL pass |

`queuings`, `inlined` and `overtaken` are history variables for the properties. Error
texts, filenames, metrics, `queue_stats`, `--once` and `--max-jobs` are left out.

### ScopeLifecycle

`scope` is the row of `scopes` with its version counter `rv`; `body` the text of its
sections and items, one part each (adding, changing and deleting are a change of a
part); `revs` the snapshots by version; `log` the newest audit entry. A session goes
through `Open` (the page), a `Submit...` action (the handler reads the scope, checks
it, changes its copies) and `Commit` or `Refused` (the flush), then `Audit` when the
page wrote an entry. `Merged` is the unit of work: only attributes that differ
from what was read are written. `Conflict` is `version_id_col` missing its row, or
the unique constraint on revisions; `RowDirty` says whether the scopes row is
updated at all, which is where the row version is compared.

`in_review` behaves like `approved` and is left out. Issue and revise through the API
are not audited. Settings and PATCH may set the status to `issued` without a
revision: that is what the code does, so `HistoryComplete` speaks of the issue date.

### ItemTree

`item` is the table `scope_items` of one section, `by` the `updated_by_id` of the
scopes row. A request carries `row`, the section as it read it, and `to`, its own
copy; `Commit` writes the difference, and a deletion takes the lines below with it
(`ON DELETE CASCADE`). The scopes row, and with it its version, is written only when another person
signs the change (`signed`), so two requests of one person never conflict.

| Action | Code |
|---|---|
| `SubmitAdd` | `add_item()`: after the last sibling, below a parent of the same section |
| `SubmitAddClauses` | `add_clauses_to_scope()`: the clauses that are not there, after the last position |
| `SubmitUpdate`, `SubmitDelete` | `update_item()`, `delete_item()` |
| `SubmitReorder`, `Entry` | `reorder_items()`: one `Entry` for each entry of the payload, `_creates_cycle()` on the copy |
| `Commit`, `Rollback` | the flush; refused when the version moved on, a row is gone, or a foreign key fails |

`Up` and `Subtree` are stated as least fixed points, not as recursion, so that the
theorems can speak of them.

### Membership

`account`, `org`, `member` and `inv` are the tables; `ses` the requests and shell
commands in progress; `granted` is a history variable. A `Submit...` action is what a handler reads and
checks, the `Commit...` action of the same name what its transaction writes, refused
when a foreign key or unique constraint would refuse it (`Abandon`). `moved` records
which organizations and invitations others changed since a request read them, and
`gone` whether the membership row it loaded has been deleted.

| Submit | Code |
|---|---|
| `SubmitRegister`, `SubmitSso`, `SubmitCreateUser` | `register()`, `provision_sso_user()`, `flask create-user`: all end in `CommitPlace` |
| `SubmitAccept` | `accept_invite()` and registration with an invitation, `accept_invitation()` |
| `SubmitInvite`, `SubmitRevoke`, `SubmitRole`, `SubmitRemove` | the handlers of `blueprints/admin/routes.py` |
| `SubmitDelete` | `delete_account()`: blockers and doomed organizations are found before the first flush |
| `SubmitGrant`, `CreateOrg` | `flask grant-role`, `flask create-org` |

Superusers, organization settings and the invited address are left out: whoever holds
the link may follow it. An account is not created a second time after its deletion.
`flask grant-role` may demote anybody and is exempt from the administrator rule.
A person provisioned by single sign-on is an editor of an organization of their own,
which has no administrator: the properties speak of organizations that had one.

### Accounts

`user` is the row, `cookie` and `pending` what each browser's session cookie holds
(the login and the started challenge, each with the epoch it was made under), `link`
the reset links. The methods of `User` (`SetPassword`, `RevokeSessions`,
`RegisterFailedLogin`, `ClearLockout`, `Rehash`) are operators on the row as it is and
the row the request read.

| Action | Code |
|---|---|
| `SubmitLogin`, `CommitLogin`, `Verified`, `SignIn` | `login()`: lockout and password checked, counters cleared and the hash renewed, then a challenge or the cookie, from the row as read again |
| `SubmitWrongPassword`, `SubmitWrongCode`, `CommitFail` | `register_failed_login()`, from `login()` and from `challenge()` |
| `SubmitChallenge`, `CommitChallenge` | `challenge()`: a code of the authenticator or a recovery code, `consume_recovery_code()` |
| `SubmitSso` | the single sign-on callback |
| `SubmitForgot`, `CommitForgot`, `SubmitReset`, `CommitReset` | `forgot_password()`, `reset_password()` |
| `SubmitChange`, `CommitChange`, `SubmitRevoke`, `CommitRevoke` | `profile()`, `revoke_sessions()`; both sign the browser in again |
| `SubmitSetup`, `SubmitRegenerate`, `SubmitDisable`, `CommitCodes`, `CommitDisable` | setting the second factor up, new recovery codes, switching it off |
| `Logout`, `DropPending`, `LinkExpires`, `LockExpires`, `SetPolicy`, `Abandon` | the rest of the surroundings |

`late` names the attributes some request wrote from an outdated reading. The password
a cookie was obtained with is a history the program does not keep.

### TokenCache and TokenCheck

A call walks through the stages of `_resolve_token()`: `Lookup` (`_cached_token_id()`), `LoadCached`
and `Forget`, or `Scan` and `Remember`; then `Touch` (`_touch()`), `EnforcePolicy` and
`Answer`. The lock of the cache makes each of these one step and is held across none.
Meanwhile tokens are issued, revoked, expired and deleted with their owner, the
policy and the owner's second factor change, entries and stamps age and processes
restart. `TokenCheck` is the promise: a call is let in if its token is valid when its
row is read. The refinement mapping forgets the caches and maps the stages to
verdicts (`Verdict`).

### Library

`row` holds clauses, specification sections and templates; a shipped row has no owner
and a system key. Requests (`CreateClause`, `CopyClause`, `EditClause`,
`ToggleSuppression`, `DeleteClause` and their siblings for sections and templates) read, then `Commit...`
writes attribute by attribute; `SeedLibrary` and `CommitSeed` are `seed_library()`: one
transaction that inserts what it did not find and refreshes what differs, refused as a
whole by the unique constraint on the keys. `release` and `shown` are histories.

### Exhibits, Numbering and Coverage

A document has for each section the sequence of its lines, each with its parent (a place
in the sequence), position, text, role, specification code and source. The sequence is the
order of insertion, which the database follows where positions are equal; a reorder of a
section leaves no equal positions and numbers its places again, parents first. One request
is one step here. `Built` is `build_scope()` with `SummaryLines`, `ClauseLines` and `LiteralLines`;
`CreateScope` is the API and the defaults, `SelectClauses` the wizard; `AddItem`,
`AddClauses`, `ReorderItems`, `UpdateItem`, `DeleteItem`, `ToggleSection`, `Settings` and
`Archive` edit. `AddClauses` leaves out what the section has and goes after all its lines
(`MoreClauses`); `ReorderItems` takes payloads that list the whole section, as the editor page
sends them, with the parents they name (`WholeSection`, `Reordered`), while payloads with
a part of a section or with a circle are `ItemTree`'s.
`DuplicateScope` and `SaveAsTemplate` copy the tree in the order of the page
(`PageOrder` and `Arranged` of `Outline`). `Printed` is what every renderer prints, from
`Numbering!Label`; `AnalyseProject` is the report, from the operators of `Coverage`.
Where the database may return any of several rows first, the operators return the set of
possible answers. `like`, `source` and `standard` are histories.

The reference definitions are in the properties: labels against pairwise distinctness,
the report against a world that contains nothing but defaults, a copy against its original.

### ProcoreSync

`conn` is the row of `procore_connections`; `current` is Procore's side: the newest
token of each chain, of which only that one is accepted. A request loads the row
(`row`), assigns to its copy (`to`) and writes the columns that differ (`Written`).

| Action | Code |
|---|---|
| `SubmitIndex`, `SubmitSync`, `SubmitPush`, `SubmitCallback`, `SubmitService`, `SubmitDisconnect` | the routes of `blueprints/procore/routes.py` |
| `ExchangeCode`, `Mint`, `RefreshExpired`, `RefreshOn401` | `exchange_code()`, the service token, `ensure_token()`, the retry of `request()`; the answer arrives or is lost after Procore has rotated the token |
| `Store`, `Commit`, `Refuse`, `Fail`, `Die`, `Respond` | the commits, the unique constraint, errors, a killed process, the answer |
| `Identify`, `FetchPage`, `FallBack`, `Push` | `me()` and `companies()`, `paginated()`, the second endpoint of `bid_packages()`, the upload |
| `ReadRows`, `WriteRows`, `TouchConnection` | `sync_projects()`, `sync_bid_packages()`, `touch_connection()` |
| `Render`, `Record`, `EditScope` | `push_scope()`: rendering of the scope as the request loaded it (`seen`, read again after a commit of a refreshed token), and the scopes row under its version |
| `ChangeListing` | people at work in Procore |

A token may turn out expired at any look: the code cannot know how long a call takes.

## Runs

| Run | Instance | What it shows |
|---|---|---|
| `RQ_shared` | 2 workers, 2 rows, 3 document states (one oversized, two under one key), inline and queued, 1 edit, 1 crash | `ClaimsMatchQueuings`: a row is claimed once per queuing. `InlineExclusive`: no worker gets a row rendered inline. `ExactUnlessOvertaken`: a served document has the fingerprint that was asked for unless edited under that render. `AttemptsBound`: racing sweeps add at most one attempt per further worker, and do add it: a row reaches three attempts where MAX_ATTEMPTS is 2 |
| `RQ_single` | 1 worker, 2 rows, 2 document states, 2 crashes, fairness | the refinement of `JobLifecycle` (`LifecycleSpec`), which implies that attempts stay within the limit, and `QueueDrains`: no queued row waits or is retried for ever |
| `RQ_contractor` | 1 worker, inline, 2 document states under one key, 1 edit | violated (`CacheServesPresent`): after the project's contractor was changed, the cache still serves the exhibit of before, with no edit under its render |
| `SL_lifecycle` | 2 sessions, 2 people, 1 part, 2 versions, 3 updates of the row | no version without its snapshot, the unique constraint is never what refuses, the lock holds for the row, and exactly which requests can still change a locked text |
| `IT_tree` | 2 requests, 2 people, 3 items, 1 clause | `AllShown`: no item is lost in a cycle or below a deleted one. `SiblingsOrdered`, `ClauseOnce`: positions and clauses stay distinct |
| `MB_shared` | 2 requests, 2 people, 2 organizations, 1 invitation, shell commands | no dangling rows; a request whose reading is current leaves an administrator, leaves nobody stranded, deletes only its own organizations; an invitation is used again only by an overlapping request |
| `AC_accounts` | 2 browsers, 2 links, 2 codes, 2 epochs, lockout after 2 | sessions and challenges end with their password; a revocation reaches every browser; codes and links serve once, the newest link only; the lockout comes in time |
| `TC_tokens` | 2 calls, 2 tokens, 1 process with 1 place in its cache | a revoked, expired or deleted token is refused at the next call, the policy holds, the cache is bounded, and `ChecksLikeDirect`: the refinement of `TokenCheck` |
| `LB_library` | 2 organizations, 3 rows, 2 requests or seedings, 2 releases | a release that was seeded without another one in between is there as shipped; a copied clause is hidden; nobody changes what another organization is offered |
| `EX_project` | 2 organizations, 2 documents, 1 template, 5 catalogue rows, 3 projects, 8 orders of a section, 2 edits | documents hold their organization's content; defaults leave neither gap nor overlap; labels are unique in a section; a duplicate prints and claims alike; other projects' documents do not count |
| `EX_tenants` | the same | violated (`TenantBoundary`): the catalogue of one organization changes the coverage report of another |
| `PC_procore` | 2 requests, 1 authorization with 2 tokens and a service account, 1 project with 1 package, 1 change of a listing, 1 edit | the chain of refresh tokens is kept; a disconnected row holds no token; a sync imports everything once; a scope is marked with what was attached |

The violated properties quote what a comment or document of the repository says;
`PROJECT.json` has them as findings with the lines. Every property of a passing run has
a mutant in `PROJECT.json`: the same run refutes it when the named definition is replaced
by its wrong variant.

Further configurations, each for one disagreement that is documented in the findings or
for a larger instance:

| Configuration | What TLC finds |
|---|---|
| `RQ_exact` | `CacheIsExact` violated: a document edited between enqueue and render is cached under the old fingerprint |
| `RQ_attempts` | `AttemptsWithinLimit` violated: a second sweep of the same stale row revokes a live claim, attempts exceed MAX_ATTEMPTS |
| `RQ_abandoned` | `AbandonedIsReclaimed` violated: an inline row whose process died stays running for ever |
| `RQ_retries` | `AttemptsBound` holds with 3 workers, 2 crashes and 1 row, and a row reaches four attempts |
| `SL_verbatim` | an edit in flight changes an issued document |
| `SL_overwrite` | two people save the same form, no conflict |
| `SL_audit` | the log names a version that was never issued |
| `MB_lastadmin` | two overlapping requests take both administrators away |
| `PC_failures` | `FailuresRecorded` violated: a service account is connected and stored, Procore refuses its sync, the row of the connection keeps no error |
| `EX_template` | `TemplateReproduces` violated: a document made from a template doubles the generated lines and loses what its lines claim |

**Bounds.** Constants such as `MaxJobs`, `MaxEdits`, `MaxCrashes`, `MaxVersion`, `MaxRv`,
`MaxEpoch`, `MaxFailed`, `MaxPos`, `MaxTokens` and `MaxChanges`, and the sizes of `Orgs`,
`Invites`, `Items`, `Rows`, `Links` and `Codes` bound what would grow for ever; every
handler reads its tables as sets and treats one more row like the last. Each race in
these modules is between two processes, so two of each kind are needed and enough to
produce it (three workers in `RQ_retries`, where their number is the point); one crash
or edit can fall between any two steps of the others, and a second one after the
recovery. The theorems below hold without these bounds.

Some instances cut further, by constraints of their MC modules:

* `MCRenderQueue`: the oversized state is not the first one, an edit leads to it. In `RQ_shared` a process
  is killed while one row is there and the document stays as it is: what it leaves behind concerns its own row,
  and two workers over one row are what overlapping sweeps need; `RQ_single` has crashes beside edits and a second row.
* `MCItemTree`: nothing happens after a late write, since the properties say nothing then.
  Requests overlap only if they have read at most two items and no deleted one: a third item matters for the
  depth of a tree, which one request with three items covers. Entries of a payload
  are handled before anybody else commits; they change the request's own copy.
* `MCAccounts`: of links, failures, second factor, policy and outdated hashes two are
  in play at once, fewer after a request acted late; the promises relate at most two.
* `MCLibrary`: requests about shipped rows overlap each other, requests about a
  clause of one's own overlap each other; these two groups write different rows.
* `MCExhibits`: lines are typed into a section, below the list of specification
  sections and below typed lines. The orders cover sections of two to seven lines: siblings that change
  places, lines that go below others, payloads that run through the page or level by level, each of
  them reached before a duplicate is made. Documents appear in order, the first one is edited until the second
  appears; the second is a duplicate, the product of its template, or another scope of the same project.
* `MCProcoreSync`: a sync and a push are explored together with other syncs or pushes
  respectively, over a connection made without accidents; their meeting is in the connection
  alone, where two syncs or two pushes meet as well. One record per page, so that a listing of two has two pages.
* `TC_tokens`: one process, since processes share the table only; with one place in the cache the
  second token evicts the first.

**Symmetry** is used only for constants that no definition distinguishes (workers, people,
sessions, rows, organizations without a default) and for the two document states under one key, which nothing but
the document itself tells apart; never in a run that checks liveness.

**Deadlock** is not checked where, with everything bounded, the system stops when its rows,
versions or epochs are used up, and where a client that has no document waits for ever.
`TokenCache` never stops, and is checked for it.

**Fairness** (`RQ_single` only): every worker keeps taking its steps (`WF` of `WorkerStep`), because
`run_worker` loops without condition and docker-compose restarts it; STALE_AFTER passes (`WF` of `Age`). Clients,
edits, crashes and expiry owe nothing. Renders are assumed to end. The other components are
requests of people: nothing has to happen.

## Proofs

The theorems hold for every value of the constants that satisfies the named
assumptions of their modules (`QueueAssumption`, `LifecycleAssumption`, `ItemTreeAssumption`,
`MembershipAssumption`, `AccountsAssumption`, `TokenCacheAssumption`, `LibraryAssumption`, `ProcoreAssumption`, `ExhibitsAssumption`,
`NumberingAssumption`): the
null value is no other value, bounds are natural numbers, people, organizations, workers
and presented tokens are finitely many, Procore lists a record once, and the alphabet has no letter twice and no dot. `NoneAssumption` of `ProcoreSync` says the same
of rows and tokens. TLC evaluates the assumptions in every run.
Each module proves its type invariant (`TypeCorrect`) with the rest, and each invariant
of a run that is listed below is proved as `Spec => []Inv` from an inductive one.

* `RenderQueueProofs`. `TypeCorrect` needs `JobNamed` (a request that polls or
  stores names a row). `ClaimsExclusive` is inductive with the types: the conditional
  UPDATE takes a queuing away with each claim, and a blind sweep adds one.
  `InlineRendersExclusive` adds that every row inserted inline is never queued and has no
  old `started_at`, and that workers hold only rows that exist. `DownloadsExact` follows a
  document state from the fingerprint of a request through its row and the renderer to
  the response (`ExactInv`): while a render is outstanding and nobody edits, the document
  and the renderer's result have the row's key. It says of the cache what the key can
  tell, for every `Fingerprint`: where that misses a printed input, a result of the same key may be
  another document, which `RQ_contractor` shows of the code's list. `RetriesBounded` counts with the
  attempts a row has had those it may still get, one if it is queued and one for each
  worker about to put it back (`Budget`). `SingleWorkerImplements` is the refinement of
  `JobLifecycle` for one worker: what it holds is still running, or deleted with its scope.
* `ScopeLifecycleProofs`. A request that waits for its flush carries one of three kinds of change
  (`EditShape`, `IssueShape`, `ReviseShape`), and its copy of the scopes row *is* the row
  unless the row's counter has moved on (`CopyFresh`). So a flush that passes the version check has read the
  very row, and the very revisions, it changes; `HistoryPreserved`, `RevisionsNeverClash`,
  `LockIsKept`, `RowIsWrittenFresh` and `LockedBodyIsKept` follow. Without `CopyFresh` none
  of them is inductive: a stale issue could freeze a version twice.
* `BuilderProofs`, over `ItemTree`. The invariant says what each request holds in hand: the copy of a
  reorder is without cycles and has distinct positions among the items listed so far
  (`Reordering`), an insertion adds only rows nobody else knows (`Inserting`,
  `NobodyElses`), the others what they have read. `HangingKeepsAcyclic` is the heart of
  it: hanging an item on a parent whose walk does not meet it closes no cycle. A
  cascade leaves a forest because what is cut off is closed under children (`CutKeepsForest`).
* `BuilderProofs`, over `Exhibits`. `ExhibitInv` is inductive (`ExhibitInductive`): every document
  is good (`GoodDocument`: parents first, sources its organization may use, codes only in
  the summary), and one that counts as generated from the defaults claims exactly the
  default codes of its division in the catalogue of now (`StandardDocument`). A section that is put in
  order has the same lines as a forest again (`ReorderedGood`), clauses that are added come from
  what the organization may use and claim nothing (`MoreClausesFacts`).
  `ContentIsOwn` and `ExhibitTypeOK` are parts of it. For `ReportsAreClean` the two questions
  to the catalogue are brought together: what the builder took by default is what the report
  expects, as long as the same rows answer. For the numbers, the walk is described by what
  it does at one line (`CountersWalk`); two lines under the same counters have the same
  parent and the same rank, and of a set of lines that share counters there is no first
  one (`CountersDiffer`). The order of the page is a linear order in which parents come
  before children (`AheadOrder`), so the copy is an arrangement of the same lines (`Arrangement`),
  and the walk over it gives each line its old counters back (`CopyCounters`);
  `DuplicatesReadAlike` follows line by line. What an induction over the places of a section would
  show is shown at the first place where it would fail.
* `BuilderProofs`, over `Numbering`. `LabelsDistinguish` says that no two lines of a section carry one
  label; with `CountersDiffer` it needs that labels of different counters differ
  (`LabelsDiffer`), whatever the styles. The recursive functions of `Numbering` are what their
  definitions say because such functions exist (`RecursionExists`). Each style writes different
  numbers differently, by the least number that would be written like another: the last
  digit is a remainder (`DecimalDiffers`), letters are digits without a zero, so no length is
  ambiguous (`AlphaDiffers`), and the first two signs of a numeral tell the amount that was taken off
  first, as a smaller amount never begins with it (`SameAmount`, `RomanDiffers`). No sign is a
  dot, so the last dot of a label is where its last part begins (`LastDot`), and labels
  come apart into the same parts from the end (`DottedDiffers`). A label of one part ends in a dot and no other does.
* `MembershipProofs`. As long as nobody changed the members of an organization since a request
  read them, what it counted still holds of the members there are (`AdminFresh`,
  `DeleteFresh`), and the same for its invitation (`AcceptFresh`); the row it
  updates is there unless marked as gone (`RowTracked`). From this follow `RowsNeverDangle`,
  `AdminsKeptByFresh`, `NobodyStrandedByFresh`, `OnlyOwnDeletedByFresh` and
  `InvitationsServeOnce`. The counting itself (another administrator remains) rests on the library's theorems
  about finite sets.
* `AccountsProofs`. No cookie or challenge is ahead of the epoch (`EpochsBehind`), so a
  higher epoch leaves them all behind; no code is listed or submitted before it was
  generated (`CodesKnown`), so a new list holds none that was used; and as long
  as nobody counted on an old reading, the counter is the number of failures (`FailuresExact`).
* `TokenCacheProofs`. An entry of a cache, and the id a call holds, belong to the token that was
  presented (`CachesName`, `Named`), since no two rows have one hash; what a call found
  out at its beginning cannot become untrue (`Begun`). `ImplementsDirect` is the refinement: each
  step of a call is a step of `TokenCheck` or none (`NextMaps`), with the invariant telling
  that the row behind a cached id is the row behind the token.
* `LibraryProofs`. Who may write which row: a request a row of its organization (`Own`), a
  seeding the shipped ones, which nobody deletes (`Seeing`). So a shipped row says
  what its last release said, or what a seeding still under way has not yet
  overwritten (`Lands`), and a copied clause stays hidden until it is restored (`CopiedHidden`).
  `NobodyElse` is the action property over all readings, current or not.
* `ProcoreProofs`. A rotated token is in one place until it is stored: the request
  that holds the newest token of a chain is the only one that does (`Alone`, `Newest`), so
  no other can use it up. What a session can bring back after a disconnection is
  described by `GivenUp` and `Unlinked`, what a push knows of the row it will write by `Rendered`, and
  where each kind of request can stand by `Staged`. For `AllImported` and `OnceImported` a
  second invariant says what a sync has read so far (`Listed`): the beginning of the
  listing, up to the page it is at, unless the listing has changed. That pages which follow each other make
  up the listing up to `MAX_PAGES` is the lemma `Pages`; it is there that the end of
  `paginated()` matters.

Only model-checked: `QueueDrains` of the queue, as liveness under fairness is beyond the
prover. Every other property of a passing run is a theorem.

## What the checks found

The findings in `PROJECT.json` are places where the code does not do what a comment, a document or a
message of the repository says. In short: cached renders of an edited document, and a cache key that misses a printed name; attempts
beyond the limit and rows that stay running; edits that reach an issued document,
overwrites without conflict and audit entries of versions that never were; organizations
left without administrator; a stamp that can fail a request; a coverage report that reads other
organizations' catalogues; templates that do not reproduce; typed sections that do not
count; labels that repeat from section to section; integration failures that leave no
trace.

## Not modelled

* HTML, DOCX and the other formats, sanitizing, mail, metrics, the frontend (but for the polling page), the desktop
  shell, migrations and deployment scripts: formatting and I/O without protocol state.
* Projects and bid packages, organization settings, user preferences: forms on one row each, in which
  the last writer wins by design. Superusers.
* Search and filters; the fields of a row that no property tells apart; amounts and the
  substitution of names into texts; the keyword heuristics of coverage, which are a
  relation (`Mentions`) here.
* Rate limits and the arithmetic of time-based codes; scopes of API tokens; which Procore
  company is chosen.
* Real time: timeouts are steps that may happen at any moment.

## Plan

1. `ExactUnlessOvertaken` over two scopes, to compose `RenderQueue` with `ScopeLifecycle`.
2. `ItemTree` with two sections, for requests that name a parent of the other one.
3. The audit log as a component: which entries share their transaction and which do not.
