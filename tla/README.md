# Formal models of Kynara

TLA+ specifications of the parts of Kynara whose correctness depends on the order
of things: requests, cron jobs, workers, administrators, browsers and gates in
front of tools that share Postgres and Redis without holding locks. The models are
translated from the source; TLC checks them on small instances, and TLAPS proves every
invariant and action property of the passing runs for every value of the constants; the
liveness properties are model-checked. `PROJECT.json` lists
the runs, the mutants that show that each property can fail, the source lines every
definition stands for, the findings, the hazards and the theorems.

    tlc -config AuditMC.cfg AuditMC              one run (see the table of runs)
    tlapm AuditLog_proofs.tla                    one module of proofs

## The system

Kynara answers one question for AI agents, "may this agent do this action on this
resource?", and keeps a tamper-evident record of the answers. Processes: API
workers (FastAPI, asyncio), webhook workers (`webhooks/worker.py run_loop`), cron
jobs (`scripts/`), sidecars (Go), SDKs, a proxy and an MCP wrapper at the callers,
and the console in browsers. Shared state: Postgres (READ COMMITTED, one session per
request) and Redis (decision cache, login states, counters). There are no advisory
locks; the only `FOR UPDATE` is the webhook worker's.

| Component | State | Operations | Talks to | Module |
|---|---|---|---|---|
| Audit log (`audit/service.py`, `audit.py`) | `audit_events`: sequence, prev_hash, hash | append, verify, cursor poll, pages | everything that changes state calls it; **it commits the caller's session** | AuditChain, AuditRows, AuditLog, AuditReaders |
| Feed (`activity_stream.py`) | a cursor per connection | stream, summary | audit log | AuditReaders |
| Nightly verification (`verify_audit_chain.py`) | none | verify each organisation, alert | audit log, webhooks | AuditVerify |
| Decision service (`policy/service.py`) | Redis cache | `decide`, `_emit_decision` | agents, assignments, roles, grants, policies; writes audit rows and approval requests | DecisionService |
| Policy engine (`policy/engine.py`) | none (pure) | `evaluate` | called by decide | PolicyEngine, PolicyCatalogue |
| Approvals (`integrations.py`, `mcp_server.py`, `approvals.py`) | `approval_requests` | create, resolve from chat or MCP, expire, list | audit log (chat only) | Approvals |
| Notifications (`integrations/`, `integration_config.py`) | `org_integrations` | save, test, delete sections; announce | Slack, Teams, mail, PagerDuty | Notifications |
| JIT grants (`jit_grants.py`, `expire_jit_grants.py`) | `jit_grants` | create, revoke, expire | audit log, then webhooks | JitGrants |
| Webhooks (`webhooks/`) | endpoints, `webhook_outbox` | register, rotate, delete; enqueue, deliver, replay | receivers over HTTP | WebhookEndpoints, WebhookOutbox |
| Organisation (`org.py`, `invites.py`, `roles.py`, `api_keys.py`, `admin.py`) | organisations, members, invites, keys, roles | invite, accept, change seats, delete | billing (seats) | Membership |
| Billing (`billing.py`, `quota.py`, jobs) | subscription, usage, invoices | Stripe events, quota, report, end of trial, a superadmin's plan | Stripe | Billing |
| Sessions (`auth.py`, `oauth.py`, `sso.py`, `scim.py`) | sessions, reset links, codes, users | login, refresh, logout, reset, exchange, deactivate | Redis | Sessions |
| SSO connections (`sso_connections.py`, `sso.py`) | `sso_connections`, login states | create, update, switch, delete, OIDC login | identity providers | SsoConnections |
| Console (`frontend/src/lib`) | tokens in localStorage | request, refresh, switch, logout, SSO callback | sessions | Console |
| Agents and guardrails (`agents.py`, `guardrails.py`, `idp/sync.py`, `update_risk_scores.py`) | agents, events | kill, reactivate, event, import, risk | audit log | Agents |
| Registry (`agents.py`, `roles.py`, `mcp_server.py`, `idp/sync.py`) | agents, roles, assignments | create, assign, replace scopes, delete, from two interfaces; import | audit log, webhooks | Registry |
| Settings (`guardrails.py`, `tools.py`, `mcp_gateway.py`, `agents.py`, `idp/sync.py`) | integrations, rules, tools, servers, agent properties | create, update, rename by import, delete | audit log | Settings |
| Delegation, credentials (`delegation.py`, `agent_credentials.py`) | grants; credentials | delegate, revoke; issue, rotate, revoke | | Delegation, Credentials |
| Policies (`policies.py`, `policy_templates.py`) | policies, versions, bindings | create, update, roll back, bind, install | audit log | Policies |
| Git sync (`git_sync.py`, `kms.py`) | connections with sealed tokens | connect, sync, webhook, delete, sign a bundle | git providers, KMS | GitSync |
| Sidecar (`sidecar/main.go`) | a bundle | decide, refresh | the service | Sidecar |
| SDKs (`sdk`, `sdk-ts`) | a cache | check with retries | the service | SdkCache |
| MCP wrapper, proxy | caches, taint of a session; a conversation | forward or refuse a call | sidecar, service, tools | McpWrapper, Proxy |

Hard behaviours: two appends that read the same tip; cache entries that outlive what
justified them, one cache on top of another; `record_admin` committing in the middle of
a handler, so that a handler is several transactions; handlers that read, decide and
write with no lock in between; cron jobs against administrators; batches that are
rolled back after their HTTP posts; Stripe events late, doubled and out of order;
restarts that lose a key; tabs that share a token that is good once. What makes each
component correct is the text of its properties, below and in the modules.

## How the models are built

Each module has its state as variables, one action per operation or per step between
two awaits at which others can act, and the operations' early returns as guards. A
handler that reads and commits later is two actions; one whose only await is its commit
is one. A unique index or a foreign key is checked by the commit, as in Postgres.
Most modules were checked on their own first. The nine passing runs are over composed
modules (`*MC`): a group of modules side by side, one `part` of which, chosen by Init,
moves in a behaviour while the variables of the others are idle: one run of TLC for
several modules, not their product. Where components write the same columns, the
sharing is inside one module: approvals and the audit trail, agents and guardrails
and the import, sessions and administrators and SCIM, policies and templates,
subscription and quota and report. Where one only reads what another writes, it
carries that as its environment (`DecisionService` has the administrators, `McpWrapper`
and `SdkCache` have a service whose policies change, `AuditReaders` a log that grows as
`AuditLog` shows; other writers of the chain appear as `Conflict` or as a lost race).

A property of an MC module is the conjunction, for the part that moves, of invariants
that the base modules define and comment one by one; a violation names the
conjunct by the part and the state. The conjuncts are listed under each module.

In some modules the constant `Mixes` names the kinds of calls that meet in a
behaviour: Init chooses one of them. It bounds the state space; the MC module lists the
mixes, one for each group of handlers that touch the same rows.

Where a property says "unless", the exception was found necessary: without it TLC shows
the run of the code that needs it. History variables record what an exception needs
(who overlapped, which answer was lost); the modules mark them.

## The modules

### AuditChain, AuditRows, AuditLog
`AuditChain` is what the log promises: a sequence that only grows at its end.
`AuditRows` translates the table and the pure functions over it: the tip query,
the hash of a row, and `verify_chain` as a walk that recomputes each hash.
SHA-256 is taken to be injective, so a hash is the pair it was computed from.
`AuditLog` is the concurrent implementation. A writer's transaction reads the tip
(`ReadTip`), inserts (`Flush`: the unique index of migration 0001 makes it wait for
an uncommitted insert with the same key, `KeyLocked`), or fails (`Conflict`), and
commits (`Commit`); it may be lost at any point (`Crash`). A SIEM follows with the
`since_sequence` cursor (`Poll`). `ImplementsChain` is the refinement: the mapped
chain is the sequence of events by number. Note that `models/audit.py` declares
the index without uniqueness and says numbers come from a database sequence; the
migration and the service do otherwise, and the two mutants show that either of
those would break the chain or the cursor.

### DecisionService
One action per await of `decide` and `_emit_decision`: cache lookup, agent gate,
assignments, the scopes of each role assigned (one select each), the user's seat and
JIT grants, policies, session history, cache write, audit tip, audit row, approval
request, final commit. `EngineError` is the `except Exception` of
`decide` (deny on error, possibly on a failed session), `Fail` is everything
nobody catches. Administrators act between any two awaits (`SetActive`,
`SetPolicy`, `SetAssignment`, `SetRoleScopes`, `SetSeat`, `SetJit`), other requests append
audit rows (`OtherRecord`) and time passes (`Tick`). The model follows one action on one
resource in one session, so the cache has one entry per agent: its key leaves out
`on_behalf_of_user_id` and the context. Policies are abstracted to the effect of
the first match and whether a `preceded_by` condition is bound. Time is in ticks:
`TTL` is `decision_cache_ttl_seconds`, `Span` bounds how long one check runs. The
history variable `since` counts the ticks since each fact an allow rests on (the agent is
active, its policies allow, it is assigned a role, a role grants the action) last held.
Assignments and the permissions of their roles are read one after the other, so
`RevocationBounded` speaks of one role that was assigned within the bound and that granted
within the bound, not necessarily at the same time: an assignment that ends while its role
is given the action may still be answered with an allow.

### Approvals
`RequireApproval` and `RequestElevation` create a request. `Review` is the read of
a chat reviewer (`_resolve_approval`) or an MCP client
(`kynara_approve_request`/`kynara_reject_request`) with its early returns; chat goes
on to `Expire` or to `ReadTip` and `Record`/`RecordConflict` (outcome and audit row in
one commit), MCP to `Write` (no audit row, no expiry check). `List` is
`GET /approvals`, whose expiry is flushed and rolled back. `silent` is a history
variable: the requests whose last outcome was written without an audit row.

### JitGrants
A call of an administrator or a run of the cron job reads its grants once (`Create`,
`Revoke`, `Expire`), then per grant reads the tip, records (grant, audit row and
the events the session holds, one commit) or conflicts, and adds its webhook event
(`Emit`), which the next commit carries.

### WebhookOutbox
A worker's batch is one transaction: `Mark` (the UPDATE of day-old rows), `Select`
(`FOR UPDATE SKIP LOCKED`) or `SelectNothing` (which rolls `Mark` back), `Deliver` row
by row, `Commit` or `Abort`. The administrator's replay is a read and a later write
(`ReplayRead`, `ReplayWrite`: only the columns that differ are written), and deleting
the endpoint locks it and then its rows, which may deadlock with a worker's commit
and is resolved either way (`Abort`, `DeleteIsVictim`).

### WebhookEndpoints
`Create` commits an endpoint and only then answers with its secret (`Answer`, `Lost`);
`RotateRead`/`RotateCommit` replace it. `Select`/`Insert` are `enqueue`: who subscribes is
read, a row for each is inserted, and a row for an endpoint that is gone refuses all.
`TestRead` is the test endpoint, which announces a decision to every subscriber. Invariants:
`SecretsExplained`, `EveryoneTold`, `RefusedByDeletion`.

### AuditReaders, AuditVerify, Notifications
`AuditReaders` has a log of committed rows in the order of their numbers (which
`AuditLog` shows), a feed (`Connect` seeds the cursor, `Poll`, `Drop`), the pages of the
console by cursor and the summary's two counts. Invariants: `FeedIsExact`, `PagesAreOne`,
`MinuteExplained`.

`AuditVerify` is one session that walks all organisations (`Check`), writes an alert
(`AlertRead`, `AlertWrite`, or `AlertRaced`, which poisons the session) and an event
(`Emit`) for each break, and commits at the end (`Finish`). Meanwhile rows are appended
(`Record`) and changed or deleted behind the log's back (`Tamper`). Invariants:
`VerifierExact` (the walk accepts exactly the tables that appends alone can build),
`ZeroMeansTold`, `AnnouncedIsRecorded`.

`Notifications` has one row of settings with four sections. A save reads the row and
writes the columns that differ (a secret always differs: it is encrypted anew); an
announcement reads the row once and posts on each channel, each of which may fail.
Invariants: `LoneRequestStands`, `GlobalOnlyWithout`, `FailuresAreIsolated`.

### Membership, Billing
`Membership`: seat roles with the last-owner check, invites and the seat limit, keys,
role scopes, names, deletion of the organisation. Invariants: `OwnerlessExplained`,
`SeatsExplained`, `InviteOnce`, `GoneIsGone`, `NamesExplained`, `ScopesAsAsked`: every
limit is exceeded by two calls that met, by a direct addition or by a superadmin, and
never otherwise. `update_role` deletes, by their ids, the permission rows it loaded and
inserts those asked for (`ScopesCommit`), so that two updates that met leave a union or one of
them violates `uq_role_scope` (`Collides`); then it does the same over, with nothing left to
delete, and any permission it asked for refuses that second pass.

`Billing`: Stripe's own history (`Subscribe`, `FailPayment`, `Pay`, `Cancel`, `NewPeriod`) and
its delivery to the webhook late, again and out of order; the quota check and the count it
precedes; the nightly report, which tells Stripe before it commits; the end of a trial as
two bulk updates; the plan as a superadmin sets it (`SetPlan`), the other way into the free
plan and its quota. Invariants: `OverrunBounded` (by the checks in flight less one; after
a superadmin's downgrade by what was used and in flight at that moment, `granted`),
`BilledAsMetered` (while no report is between Stripe and its commit, and unless one died there,
met another, or read a period that Stripe had ended), `StatusFollowsStripe` (once the last event
was applied, unless it was overtaken), `GraceIsFresh`, `PaymentsInvoiced`; action property
`TrialEndsQuietly` (the end of a trial undoes nothing of a subscription; only a superadmin
takes its plan away).

### Sessions, SsoConnections, Console
`Sessions`: one user's password, refresh tokens with the reuse detection that revokes
everything, reset links, single sign-on, authorization codes, and administrators and SCIM
who deactivate and remove. Invariants: `OneUse`, `RevocationHolds` (what is live was made after
the last revocation, and goes back to a login after it or to a call in flight across it),
`OneLinkUnlessOverlap`;
action properties `PasswordSticks`, `RedirectsKept`.

`SsoConnections`: administrators create, update, switch and delete connections while a
login goes through one: it keeps the issuer in Redis and reads the secret again when the
browser comes back. A slot of a deleted row is `Gone` and not used again, as its id is not.
Invariants: `SecretsExplained`, `SentWhereBegun`, `SameDoor`,
`RefusedByOverlap`; action property `SwitchStands`.

`Console`: tabs of one browser over one `localStorage`, a refresh in flight per tab,
requests sent again once, the switch of organisation and the SSO callback. The endpoint
is one step (`FlightServer`, `SwitchServer`), with the reuse detection of `Sessions`.
Invariants: `AgainExplained`, `SameUser`, `LogoutStands`.

### Agents, Delegation, Credentials, Registry, Settings
`Agents`: kill and reactivation, guardrail events whose rules count before they commit
and then act (suspend, deny by an injected policy), the import from Okta, and the
nightly risk job. Each request writes what it changed of the object it loaded: a suspension that
writes nothing, because the agent was loaded inactive (`guardrails.py:588`), leaves its request
overtaken by whoever reactivated the agent meanwhile. `UpdateRule` changes a rule's threshold,
window, filters, action and switch; an event goes on with the rules as it loaded them.
Invariants: `SaidIsTrue`, `NoThresholdMissed` (unless none came since the rule was last
changed: `update_rule` counts nothing), `OneAgentPerIdentity`; action properties `DenyInjected`,
`RiskStaysRaised`.

`Delegation`: a request reads its parent's grants twice and computes a depth. Invariants:
`DeeperThanParents`, `LimitKept`, `RevokedAgainByOverlap`. `Credentials`: issue, rotation in
one transaction, revocation, failure. Invariants: `NeverWithout`, `HeirsExplained`.

`Registry`: the same tables changed through the API, with audit rows and webhooks, and,
without, through MCP tools and by the import from Okta, which creates agents and
assignments (`Import`). Invariants: `Grounded` (foreign keys against the order of the
handlers), `TrailTells` (of what neither MCP nor the import has touched), `HooksAreTrue`,
`LoneReplaceStands`.

`Settings`: four kinds of rows whose updates write the columns that differ from what was
loaded, with the audit row in the same commit, except where the code splits them, and the
import, which renames an agent and tells nobody (`ImportName`). Invariants: `SettingsAsTold`
(the last value recorded, or set by the import since), `GoneAsTold`, `RulesRest`.

### Policies, PolicyEngine, Sidecar
`Policies`: an edit loads the policy, computes the next version number, and writes the
snapshot and the columns that differ in one commit; bindings and their removal; templates.
Invariants: `LiveAsTold`, `BindingsExplained`; action properties `NothingLost`, `VersionsKept`,
`CountExplained`.

`PolicyEngine` is `evaluate` as operators: patterns, the condition operators, errors that
deny, the RBAC gate, the first match by priority. A condition is a finite tree: `Conditions` are
the nodes and `Depth` decreases to the operands, and what a node says is a recursive function
of what its operands say (`Judged`, `Holds`). `PolicyCatalogue` has seventeen policies between which
each operator and form of pattern is used. `Sidecar` has the Go `Decide` beside it (`Taken`,
`EvalCondition`), over any one or two of them, two being loaded in the order that their
priorities reverse, and the refresh loop. Invariants: `FirstDecides`, `TaintOnlyRestricts`,
`SidecarAgrees` (with the conditions under which the two engines agree), `StaleOnlyByFailure`.

### SdkCache, McpWrapper, Proxy, GitSync
`SdkCache`: both clients' caches on top of the service's, three attempts, failing open or
closed. What the service does with an attempt is several steps (`Hit` or `Read`, `Finish`, or
`Drop`), which go on when the client has given the attempt up. Nothing in the code bounds
them: httpx has a timeout for each operation, the TypeScript client clears its timer before it
reads the body. `Span` is what the service and the network take with an attempt once its
effect is read, an assumption of the bound and the only one. Invariants: `AnswersBounded` (the
sum of the two lives and two spans: one check writes the service's entry late, another reads it
and answers late; without the client's life for what the TypeScript client does not keep),
`NoAnswerNoAllow`, `ApprovalsExplained`. `McpWrapper`: three reads of the configuration per
call, the decision, sidecar and fallback, taint of the session. Invariants: `PinBounded`,
`ClosedBounded`, `TaintBounded`. `Proxy`: requests and answers that are looked at, calls that
are not. Invariant `InspectedIsObeyed`; action property `ForwardedIsAllowed`.

`GitSync`: connections sealed under a data key wrapped by a backend, manual and webhook
synchronisations, restarts that make a new local master. The first use of AWS, Google or
Azure in a process fails (`FirstUse`, `loaded`), whoever makes it (`Connect`, `Fetch`,
`SignBundle`). The task of a webhook has the session of its request, which is closed under it
at any moment (`Close`), so whether it writes its outcome depends on who is quicker.
Invariants: `TrueTokens`, `LostExplained`, `HeldWhileSyncing` (while it means to write one).

## What the runs check

| Run | Parts and instance | Shows |
|---|---|---|
| `audit_chain` | log: 3 writers, 2 events, 3 rows, pages of 1; readers: 5 rows, batches and pages of 2 | chain intact, cursor complete, refinement of the append-only history, no append waits for ever, everything is polled; feed and pages are exact |
| `decision_kill` | 2 concurrent checks, TTL 2, Span 1, kill switch | staleness of a kill, approval requests, what is on record |
| `decision_admins` | 1 check at a time, TTL 1, Span 1, policies, assignments, roles, seats and JIT grants | staleness of policy changes and revocations, failures deny |
| `approvals` | 3 reviews of one request, chat and MCP; 2 administrators and 1 announcement; 2 chains of 3 rows, 2 changes behind their back, 1 nightly run | chain and database agree; second outcomes need overlap; settings merge; breaks are told |
| `deliveries` | 2 grants, 1 administrator, the job, 2 troubles; 2 rows, 2 workers, batches of 2, 1 abort; 1 row, 2 workers, 2 replays; 2 endpoints, 2 callers, 1 change | chain tells the grants; overdue grants end; duplicates and attempts explained; every event settles; nobody who subscribed is left out |
| `accounts` | 3 people, 2 seats, 2 invites; 5 Stripe events, one sent twice; a superadmin's plan; 2 calls | who belongs, and what is billed |
| `sign_in` | 1 user, 3 sessions; 2 users, 2 providers, 2 slots, 3 changes, 1 login; 2 tabs, 2 requests, 3 tokens | sessions, secrets and tokens |
| `agents` | 3 agents, 2 rules with thresholds, windows and filters, 3 events, 1 identity; depth 2; 3 credentials; 2 roles, 2 assignments; 2 requests on one setting of a kind | who switched an agent; thresholds; depths; the registry and its trail |
| `enforcement` | 2 policies, 3 requests; 17 policies, two at a time; checks, attempts and changes by `Traffic`; 2 calls; 2 tools; 1 repository, 2 workers, 2 restarts | edits, engines, gates |
| `decision_escalation` | violation | an allow computed without a user answers for one who lacks the right |
| `approvals_final` | violation | two overlapping reviews both resolve |
| `outbox_replay_lost` | violation | a replayed old delivery dies unposted |

Each violation run contradicts a sentence of the repository, quoted in `PROJECT.json`
"findings".

**Bounds and why they are enough.** Most hazards here are pairs of handlers that overlap, so two
calls at a time make every case, and a third entity shows that an effect does not spread (a third
credential, a third session). Two writers suffice for any fork of the chain and three let a
waiting insert meet a key that was taken, released and taken again; the log needs three rows for a
page in the middle, the readers five for a batch that is full and followed. A stale allow takes
one check to compute, one cache life and one check to return it: with TTL and Span at 1 or 2 every
step of that chain happens, and the bound is met exactly (with StaleBound one smaller TLC finds a
violation). `decision_admins` runs one check at a time because administrators act at every await;
other checks are represented by what they do to this one (`OtherRecord`, entries it left in the
cache). Assignments and roles are one each, which is enough for the two to change between their
reads. `Traffic` lists what meets at the SDK: two checks, or one with two attempts, while the
policies change, or three attempts while they do not; the first two meet the bound exactly, the
last makes three approvals for one check. `MaxAttempts` is 2 instead of 8, enough for a first, a
last and an exhausted attempt. Limits are small numbers with one more than the limit of those who
want it (three people for two seats, two checks for one included). The constants named `Max...`
(rows, changes, aborts, events, periods, what is billed in one, replays, restarts, logins, sends,
troubles and so on), `Mixes`, `Edits` and `Traffic` are the only bounds in guards. Times are ticks
of the shortest life that matters. `CHECK_DEADLOCK FALSE` is set where a model stops at a bound or
when everything is settled. `outbox` takes both rows in one batch, so that an abort undoes two
posts; which row goes first matters only in `outbox_replay_lost`, which has batches of one.
Symmetry is over calls, administrators and the like in runs whose temporal properties are action
properties alone.

**Fairness.** `AuditLog`: a request that began to append goes on; Postgres wakes an
insert that waits on a key when the holder ends, but another insert may take the key
first, hence strong fairness for `Flush`; the SIEM polls for ever, and so does a feed as
long as it is connected. `JitGrants`: the CronJob starts every two minutes and calls that
began go on; that others append only `MaxTrouble` times is an assumption of the liveness
property, as a job that loses every race ends nothing. `WebhookOutbox`: `run_loop` never
returns, backoffs end, and Postgres resolves what is locked. Nothing is assumed of
administrators' decisions, reviewers, receivers, users or crashes; the other runs have
no liveness property and no fairness.

## What is proved

TLAPS proves every invariant and every action property that a passing run checks, and the
refinement of `AuditChain`, for every value of the constants. Each theorem rests on the named
assumption of its module alone; TLC evaluates these on the runs.

| Module of proofs | Theorems | Assumption |
|---|---|---|
| `AuditLog_proofs` | `TypeCorrect`, `ChainIsIntact`, `CursorIsComplete`, `Refinement`, `ReadersSee` | `AuditLogAssumption`, `AuditMCAssumption` |
| `DecisionService_proofs` | `TypeCorrect`, `KillSwitchIsBounded`, `PolicyChangeIsBounded`, `RevocationIsBounded`, `ApprovalExists`, `ComputedAnswersRecorded` | `DecisionAssumption` |
| `Approvals_proofs` | `TypeCorrect`, `TrailKeepsUp`, `AnswersRecorded`, `OverlapNeeded`, `AnnouncementsStand`, `BreaksTold` | `ApprovalsAssumption`, `ApprovalsMCAssumption` |
| `DeliveriesMC_proofs` | `GrantsTrailed`, `DeliveriesHold`, `EndsAgainByOverlap` | `DeliveriesAssumption` |
| `AgentsMC_proofs` | `AgentsHeld`, `RightsExplained`, `RegistryHold`, `DenyAndRiskHold` | `AgentsMCAssumption` |
| `AccountsMC_proofs` | `MembersHold`, `BillsHold`, `TrialsEndQuietly` | `AccountsAssumption` |
| `SignInMC_proofs` | `SessionsStay`, `ProvidersStay`, `BrowserStays`, `SettingsStay` | `SignInAssumption` |
| `EnforcementMC_proofs` | `PoliciesStay`, `SidecarStays`, `GatesStay`, `NothingIsUnseen` | `EnforcementAssumption` |

The assumption of an `*MC` module is the conjunction of those of its parts. They say that
bounds and lifetimes are numbers, that `None` is no value, that ids of two tables are not the
same, and what the code guarantees of its inputs (a template offers a slug once, a user has one
domain, a condition is a finite tree). The sets of people, calls, rows, workers and bodies are
arbitrary unless a count of them is stated; then they are finite.

The argument is the same throughout. A property says that something is so unless requests
overlapped; it is not inductive, because nothing in it says what a request in flight knows. The
invariant adds that: *what a request has read still holds unless the request was overtaken*. The
proof that it is kept has one lemma per action, and each commit has to show that it leaves what the
others have read, or marks them. The invariants were checked with TLC before they were proved.

**`AuditLog_proofs`**. `IInv` adds what each open transaction knows (`TxLinked`: its row points at
a committed row; `FlushedNext`: a flushed row is the next one and no other transaction holds a
flushed row), that rows are numbered and linked, and that what was polled is what lies below
the watermark. That `verify_chain` accepts from every starting point follows from `Linked`.
Refinement: every step appends the event of the committed row or leaves the mapped sequence
alone. `ReadersInv`: the cursor of a feed or a list is within the log (`LogInv`, `FeedInv`, `PagesInv`),
and what the hour's statement missed lies beyond the row at which it read (`CountInv`).

**`DecisionService_proofs`**. The bounds speak of a check that is about to answer; the invariant
carries freshness through every step: a check that rests on a ground saw it hold at most `age`
ticks ago (`SeenOK`; a role it has still to read was assigned then, `RolesOK`, and the scopes it
has were granted by such a role), a cache entry with `left` ticks to live rests on grounds that
held within `Span + TTL - left` (`CacheFresh`), and an answer taken from the cache adds the two
(`HitOK`). `SourceOK` says that only the engine and the cache can allow, which is what makes every
failure a deny.

**`Approvals_proofs`**. `TrailIsTruth` is inductive with `silent`; `AnswerIsRecorded` needs
`WriteIsMcp` (only MCP calls write without recording); `SecondNeedsOverlap` needs `Fresh`: a running
call that is not stale still sees its request pending. Notifications (`NotifyInv`): one request at
most has inserted the row (`InsertInv`), a request alone on a section has loaded what is stored
(`AloneInv`), what stands is about to be changed by nobody (`StandsInv`), and a channel that is done
has posted, failed or had nobody to tell (`PostedInv`). Verification (`VerifyInv`): the rows of a
table have one number each (`TablesInv`), and each break that was found is in a row, in the session
or in hand, until an exit with 0 has it recorded and announced (`JobInv`). That the walk accepts
exactly what appends build is a lemma about tables, not about the job.

**`DeliveriesMC_proofs`**. Grants: what a caller has still to write is possible (`WritesHold`), and no
two callers create the same grant (`GrantedOnce`). Outbox: a row is held by one worker and is
pending (`LocksHold`); `attempts` is the committed posts since the last replay (`PostsCounted`), and the
acknowledgements are those of open and of lost batches, one per replay and one more if the row is
delivered (`AcksCounted`). Endpoints: an answer under way shows the stored secret (`AnswersHold`), and
a change being announced reaches who had subscribed (`EnqueueHolds`).

**`AgentsMC_proofs`**. Agents: an object in a session is as it was loaded and what it is about to
write is explained; a count that is not late has seen every earlier event and the rules as they
are, so that an event handled alone has set off every rule it reached (`EventHolds`, with
cardinalities of sets of events). Delegations: a request knows parents that exist, and rows only
grow or lose their effect (`Grows`). Credentials: what is active was not spent. Registry: rows
that are there were created, and what is announced as removed was there (`RowsUsed`). Settings: a
row is as the changes told one after another say (`RowTold`, `AsTold`).

**`AccountsMC_proofs`**. Members: what a call read still holds unless it was told that another one
committed: the other owner (`OwnersHeld`), the free seat (`SeatsHeld`), the unused invite, the free
name, the permission rows. Bills: every check in flight still fits under the bound or under what
was granted with the plan (`QuotaHeld`, `Fits`), Stripe is
ahead of the rows by the one report that has not committed (`ReportHeld`), and what a handler read
is the row, but for a trial that ended since (`HooksHeld`).

**`SignInMC_proofs`**. Sessions: a session about to be rotated is one from after the last revocation
(`KeptOut`), the links a request will close are all there are (`LinksHeld`), the hash a login renews is
the first (`PasswordsHeld`). Connections: a row's secret and issuer were saved together
(`RowsPaired`), and an exchange knows the row it read (`RequestsHeld`). Browser: a refresh token that
is about to arrive is nowhere else (`FreshHeld`), so a tab presents each token once (`UsesHeld`).

**`EnforcementMC_proofs`**. Sidecar: the two engines are recursive functions over conditions; that
such a function exists and is unique is proved from the depth (`Recursion`, `OneAnswer`, by the
least counterexample), so what holds of a condition follows from what holds of its operands
(`TaintRestricts`, `SidecarFollows`). A bundle is older than a refresh and a period only when a
refresh failed or was slow (`SidecarInv`). SDKs: an effect that was read, from the policies or
from the cache (`Fresh`), that is in a cache (`CachesInv`) or was given (`ChecksInv`) is one that
the policies stopped giving no longer ago than it has had time to get there; and as long as no
attempt was given up too early, the service is at the latest at most and has asked for one
approval. Wrapper: a configuration that does not show a pin is from before it, so the pin is no
older than the configuration (`Behind`); a cached allow is from before the policy, or was given to
a clean session (`CacheInv`). Proxy: a call that is left to the answer was asked about or is still
on the list (`ProxyInv`). Policies: what an edit has loaded is what the policy is, unless another
has written (`EditInv`); an unbinding names a binding the log made (`UnbindInv`). Repositories: a
token is sealed once, for its own row, and before the first restart by the key that every worker
has or none does (`BoxInv`); a synchronisation works with the token of the row it holds
(`JobInv`), which an error on first use does not change.

**Only model-checked.** The liveness properties `EveryAppendEnds`, `EveryEventPolled`, `FeedCatchesUp`,
`OverdueEnds` and `EveryEventSettles`: fairness and ENABLED are out of the prover's reach. The three
violations are counterexamples and prove themselves.

## Seen while modelling

Differences between what the code does and what its documents, comments or names say,
beyond the three that have a run. The models follow the code.

Decisions and approvals
* `docs/architecture/overview.md:83` says deny decisions are never cached; the code
  caches every effect but `require_approval` (`policy/service.py:211`). An answer from the
  cache is not audited (`:120`), and the cache is written before the audit row.
* An MCP reviewer may approve an overdue request (`mcp_server.py:442`) while
  `tests/test_approvals.py:69` expects a refusal, and leaves no audit row.
* `_expire_stale` (`approvals.py:139`) is flushed and never committed: an overdue request
  stays pending until a chat reviewer answers it.
* An expiry is committed before its event (`expire_jit_grants.py:69`), although
  `models/webhook.py:52-54` promises one transaction: the event may be lost.
* The approval e-mail of `_emit_decision` refers to an undefined `settings`; the error is
  swallowed. `auto_fulfill_jit_elevation` and `approval_notifier.py` are called by nothing.
* A Slack webhook without a bot token is never used; an organisation that switched
  Slack off is announced through the environment's account; PagerDuty incidents are
  never resolved.

Organisation, sessions, billing
* An organisation with members cannot be deleted; `update_role` runs its replacement of
  scopes twice: with any scopes it answers 500 for a change that is committed and audited,
  with none it writes two audit rows; the first `delete_role` of `roles.py:210`
  refers to an undefined `body`; SCIM creation passes a field the model does not have.
* A superadmin's downgrade leaves usage above the quota of the free plan.
* `send_usage_warnings.py` reads columns that do not exist; `enforce_active_subscription` is
  called by nothing; the metadata a subscription event needs is set on the checkout only.
* `switchOrg` keeps the new access token and not the new refresh token (`auth.ts:73`), so
  the next refresh is taken for reuse and revokes all sessions; so are two tabs that
  refresh at once. The SSO callback keeps an older refresh token.
* `enforce_for_org` is read by nothing; neither OIDC nor SAML callbacks check `is_enabled`;
  the client secret is stored in the clear although `models/sso.py:31` says encrypted.

Agents, policies, settings
* A policy injected by a guardrail, or installed from a template, has no binding: no check
  loads it. `revoke_jit_grants` looks for grants of the agent's id under user ids.
* `create_agent` and `update_agent` compute a risk score after their last commit, so it is
  not stored; `update_risk_scores.py:143` may lower critical to high, against its comment.
* A sync reactivates a killed agent, creates and renames agents and assigns roles and leaves
  no audit row; nor do most MCP tools, deletions of guardrail settings and the removal of an
  assignment (`agents.py:246`).
* A guardrail rule whose threshold is lowered, or that is widened, does not look at the
  events there are (`guardrails.py:340`).
* An MCP replacement of scopes that keeps one of the old always fails;
  `kynara_assign_role` always answers an error; `delete_role` answers 500 after its commit.
* Delegated scopes are compared with themselves (`delegation.py:91`), revocation does not
  cascade, and no decision reads a delegation or an agent credential.
* `apply_bundle` raises AttributeError, so every git synchronisation ends in "error"; a push
  webhook shows it only if its task is quicker than the end of its request, whose session
  it uses. The blob of the local KMS is cut at the first separator, and the first use of
  another backend in each process raises TypeError, as `kms.py:283` (and 287, 292) gives a
  standard logger a keyword.

Gates
* The sidecar allows what no policy matches, knows no roles, and does not match the `{}`
  the service writes for "no condition"; the bundle endpoint it asks for does not exist. A
  `not` without operand raises in the service (`engine.py:157`), which denies, and is false in
  the sidecar (`main.go:158`).
  It answers `require_approval` by itself; `docs/api/integration-guide.md:318` says those
  always go to the central API.
* The Python SDK caches every decision, although `docs/api/integration-guide.md:324` says that
  `require_approval` is never cached; the TypeScript client throws with `failClosed: false`.
* The wrapper enforces only the override `deny`, although `gateway.py:71-72` names
  `require_approval` too. Wrapper, proxy, sidecar and TypeScript client send
  `X-Kynara-Key`, which `get_principal` does not accept.
* The proxy looks at the answer only if it saw no call in the request, and passes calls
  that require approval in an answer.

Audit
* `models/audit.py` declares the index without uniqueness and numbers from a sequence; the
  migration and the service do otherwise (two mutants show what that would break).
* The offline verifier hashes by another formula than the service; SOC2 and access-review
  reports read columns that do not exist; a failed alert of the nightly job ends the run.
* The feed is used by nothing in the frontend, and a browser's EventSource could not
  authenticate to it.

## Not modelled

* Policy bundles, bundle signing, replay and simulation: every endpoint answers 500 (they
  read attributes and import modules that do not exist), so there is no behaviour to
  model beyond an error. What they would call is `PolicyEngine`; that signing makes the first use of
  the key service is `GitSync.SignBundle`.
* Reports that read once (compliance, analytics, statistics, listings, exports) and the
  catalogue, which is constant data.
* Cryptography, taken as ideal; wording and formats of messages; the pages of the console;
  SAML signatures; the formats of language model providers beyond which calls are seen.
* Anomaly statistics: no decision reads them. Health columns of webhook endpoints: written
  and never read. `scripts/seed.py`, deployment, tests.
* Row level security and multi-tenancy: every query filters on the organisation, and most
  models are of one.

## Plan

Done: every component in the table above, every safety property of the passing runs proved.
What would add most next, in this order:

1. Compositions with real sharing: `DecisionService` under `SdkCache`, so that the two bounds
   are one theorem; `Policies` with `DecisionService`, so that a version is what decided;
   `WebhookEndpoints` with `WebhookOutbox`, so that a deleted endpoint's rows are those that
   `EveryoneTold` speaks of.
2. An abstract specification of the decision service (the answer of some moment within the
   bound) which it is shown to implement, as the audit log is shown to implement its history.
3. Larger instances of the parts with little state (`Delegation`, `Credentials`), and the
   policies' operators that are left out (`starts_with`, `contains` and the like).
