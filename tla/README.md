# Formal models of hunch-server

TLA+ modules for the parts of hunch-server that carry its own logic, the TLC
configurations that check them on small instances, and theorems about them
proved with TLAPS for every value of the constants. Paths below are relative to
the repository (`src/` in `PROJECT.json`).

## 1. The system

hunch-server is one Go process in front of one PostgreSQL database.

| Part | State | Operations | Talks to |
| --- | --- | --- | --- |
| Account service and handlers (`internal/account/service.go`, `handlers.go`) | none of its own; one goroutine per request | sign up, sign in (e-mail, Google, Kakao), sign out, delete account | repository, OAuth verifier |
| Account repository and tables (`postgres_repository.go`, `db/migrations/00002_accounts.sql`, `db/queries/accounts.sql`) | `accounts`, `account_identities`, `account_sessions`; row locks; the pool's 10 connections | eleven statements, `WithTx` | PostgreSQL |
| OAuth verifier (`oauth.go`) | none | one HTTP call per sign-in | Google, Kakao |
| Job queue (`internal/worker/worker.go`, `db/queries/jobs.sql`) | `jobs` | enqueue, claim, complete, fail | PostgreSQL; no worker loop exists yet |
| v1 API (`internal/httpserver/hunch_api.go`) | `hunchStore`: per cookie value an account with profile, setup sessions, claims, conversations, feedback; in memory under one mutex | bootstrap, setup (create, read, answer, skip, complete), profile (read, patch), self model (read, review), conversations (create, list, read, send, stream, feedback) | nothing: neither the account tables nor the queue |
| Server (`cmd/api/main.go`, `router.go`) | listener, pool, telemetry | start, route, shut down | all of the above |
| Configuration, OpenAI client, S3 store, telemetry | set up once | none on a request path | |

What is hard in it:

* **Accounts.** Requests interleave between any two SQL statements. Correctness
  rests on row locks (`FOR UPDATE` in the `locked_account` CTE), on unique
  indexes that make inserts wait, on what a statement sees after it has waited,
  and on a retry of the OAuth transaction. Any step can fail, the result of a
  COMMIT can be lost, and everybody competes for ten connections.
* **Jobs.** Workers race for the first due row, die with jobs in hand, and report
  by id alone.
* **Setup and profile.** Handlers are serialised by a mutex, so what interleaves
  is whole calls: of several devices, repeated, late, or with a stale version.
  Guards differ from handler to handler.
* **Conversations.** Replies are dated one second ahead, a gate decides which claims
  a reply may use, and what a reply cites is reviewed and re-seeded afterwards.
* **v1 sessions.** Any cookie value is given an account in memory, by a middleware
  that gives the mutex back before the handler takes it again; a restart loses the
  accounts, the database keeps the sessions.
* **Server.** A signal, a failing start, a failing listener and the deadline of
  `Shutdown` race with requests that hold the mutex or a connection; `pool.Close` has
  no deadline.

`PROJECT.json` lists the components, and under `hazards` each hazard at its line
with the properties that cover it, or a note saying why none does.

## 2. The modules

### Accounts

* `AccountStore` - the tables, their unique indexes, row locks, uncommitted writes
  and the pool, as PostgreSQL treats them at READ COMMITTED (`db.go` sets no other
  level). A request inserts at most one row of each table, so rows are named after
  the request that inserts them; `status` says whether a row is still uncommitted,
  live, or closed (`deleted_at`/`revoked_at` set). `doomed` holds the rows an open
  DELETE has updated.
* `Account` - the handlers. Per request: `pc` (the next statement), `call` (what was
  asked), `target` (the account id in the Go variable), `attempt` (the loop counter
  of `signinOAuth`) and `reply`. One action per repository call. `CreateIdentity`
  is two actions, `LockAccount` and `InsertIdentity`, because the statement can wait
  on the index while it holds the row lock. `Fail` is an error returned from the
  closure of `WithTx`: rollback, then retry or answer. `Abort` is any other failure
  at any point (client gone, connection broken, process stopped). `AnswerDone`
  includes the lost result of a statement that did commit.
* `AccountRegistry` - the abstract specification: registrations, links, sign-ins,
  sign-outs and closings, each one indivisible step. `Account` implements it
  (`RefinesRegistry`) under the mapping at the end of `Account`: committed rows only.
* `AccountInvariant` - the inductive invariants: of the row locks, of answers and tables,
  of conflicts and of the right by which a request works on an account. `AccountProofs` proves the first;
  `AccountAnswerProofs` builds on it: answers, tables, the pool, and the refinement;
  `AccountRequestProofs` adds conflicts, rights, waiting and the end of requests.
* `MCAccount` - sets of calls and symmetry for TLC.

E-mail addresses are the normalised ones: `None` in a call stands for an address
`NormalizeEmail` rejects, or for a provider profile without a verified address.
A wrong password and a token the provider does not accept are alternatives of
`FindEmail` and `Verify`. Bcrypt and token generation always succeed in the model:
their failures are `Abort`.

### Jobs

* `JobQueue` - the columns of `jobs`, the row lock that `ClaimJob` takes between its
  subquery (`LockNext`) and the commit of its update (`Claim`), and workers. Two
  constants choose the faults: `Unreliable` (workers die, answers are lost) and
  `Retry` (a report whose answer was lost is sent again). Nothing in the repository
  runs a worker loop; the workers are the model's environment.
* `JobLifecycle` - the abstract life of a job; implemented when reports are not
  repeated (`RefinesLifecycle`).
* `JobQueueProofs`, `MCJobQueue` - theorems and instances.

### Setup, profile, self model and bootstrap

* `SelfModel` - the claims of an account: seeding with `addClaimIfMissing`, and the
  four actions of `PATCH /claims/{id}`. A setup session is completed at most once,
  so a claim is named after its session, field and original label (the code draws a fresh
  id). No property rests on that name: `ReviewStands` asks whether a session's answers had
  become claims before, whatever those are called.
* `SetupFlow` - one v1 account: its setup sessions with their answers, the active
  pointer, the profile, and devices that hold the profile as they last saw it.
  Handlers are atomic (`hunchStore.mu`); calls that are refused change nothing.
  `name` stands for all preferences replaced as a whole; `locale` for locale and
  timezone, which are kept apart because another handler writes them.
* `Bootstrap` extends `SetupFlow` with what `GET /v1/me/bootstrap` derives: the next step,
  the completion ratio, the claims replies may use. It has no state of its own.
* `SetupProofs` - theorems about the three; `MCSetupFlow` - instances.

### Conversations

* `Conversation` extends `Bootstrap`, so setups, completions and reviews run between the
  turns. `CreateConversation` with or without a first message, `Turn`
  (`createConversationTurn`: question and reply at once, sent or streamed),
  `GiveFeedback`, and a clock of whole seconds. A reply cites the claims `Usable` at that
  moment. `Pages` and `LatestConversation` are what lists and bootstrap may show; where
  `sort.Slice` leaves the order of equals open, every order is allowed.
* `ConversationProofs`, `MCConversation` - theorems and instances.

### v1 sessions

* `V1Sessions` composes the v1 middleware with `AccountRegistry`: accounts, sessions and
  deletions are the registry's steps, on top of which come cookies (issued, revoked or
  made up), the two critical sections of a call (`RequireSession`, `Handle`), and
  `Restart`. The registry stands for the detailed `Account`, which implements it: that
  refinement is what makes this composition legitimate. Handlers are reduced to the
  fact that they work on the account in their context.
* `V1SessionsProofs`, `MCV1Sessions` - theorems and instances.

### Server

* `Server` - `run()`: configuration, telemetry, database, storage (each may fail), the
  select of signal and listener error, `Shutdown` with its deadline, the deferred
  closes; and the requests under way: v1 calls that take `hunchStore.mu` twice,
  account requests of one or more statements on pool connections, `/readyz` with its
  two-second ping. A request with a body reads it before its first statement or, for
  `/v1`, between the two critical sections (`ReceiveBody`), for as long as the client likes:
  `main.go` sets a timeout for headers only. `opened` is what a deferred call still has to close. A v1 call here
  is one that answers while it holds the mutex, which all do but sending and
  streaming a message: those answer after they have released it, and so hold it no
  longer than modelled.
* `ServerProofs`, `MCServer` - theorems and instances.

## 3. The runs

| Run | Instance | Shows |
| --- | --- | --- |
| `account` | 4 requests, 1 address, 1 subject, 3 connections, every operation, failures | deleted accounts are closed; live accounts can be signed in to; identities match accounts; answers agree with the tables and are final; nothing leaks; conflicts are the ones the code expects; nobody waits in a circle; nobody closes what is not theirs |
| `account_live` | 3 requests, 1 address, 1 subject, 2 connections, also invalid calls, fair | the inductive invariant `AccountInv`; every request is answered: no deadlock of row locks, index waits and pool; the transactions implement `AccountRegistry` |
| `job_queue` | 2 jobs, 2 workers, 2 attempts, crashes and lost answers, fair | one worker per job; the life of a job; every job settles unless a crash orphans it |
| `job_retry` | 2 jobs, 3 workers, repeated reports | the limit of attempts holds all the same, and bounds how many workers can have one job |
| `setup_claims` | 2 sessions, 2 labels | bootstrap leads on and hides nothing; reviews stand and what was rejected does not come back by repetition; no duplicate claims; progress is lost by skips only; the review gate opens knowingly |
| `setup_profile` | 2 sessions, 2 devices, one value per answer | order of answers, `setup_status`, evidence, active pointer, optimistic version |
| `conversation` | 1 session, 1 label, 2 conversations, 4 messages each, clock to 2 | whole turns; pages hold the recent; cited evidence stands |
| `v1_sessions` | 2 accounts, 3 sessions, 1 made-up cookie, 3 v1 accounts, 2 calls, restarts | a call works on its cookie's account; no v1 account serves two people |
| `server` | 2 v1 calls, 2 account requests of one statement, 1 probe, 1 connection, bodies that may never come, fair | a clean exit is drained; nothing is left open; a signal ends the process; probes are answered; who can make whom wait |
| `setup_duplicate` | 3 sessions | *violated*: finding 1 |
| `review_gate` | 2 sessions | *violated*: finding 2 |
| `v1_deleted` | 2 accounts, 2 sessions, 1 call | *violated*: finding 3 |

**Bounds.** Four requests are enough for the longest conflict the code can
produce: one account being created, one being linked to it, one deleting it, one
signing in or out with its session; OAuth's two attempts need two rivals. There is one
connection fewer than requests, so the pool is contended. Accounts could be mixed up
only with a second address or subject; for any number of them the theorems of
`AccountAnswerProofs` and `AccountRequestProofs` hold. Two attempts per job show both outcomes of `Fail`; the clock
stops at `MaxTime`, which leaves jobs before, at and after it. Two setup sessions give
one that is over and one that is open; three let a skip hit an old session twice.
`MaxVersion` caps the profile's version: at the cap the handlers that raise it are not
taken. `MaxValues` caps the labels of one answer. In `conversation`, `MaxMessages` = 4 gives
a conversation of two turns, and two seconds of clock put a turn before, within and
after the second its predecessor's reply is dated ahead; `MaxVersion` = 3 lets a setup
be completed, cited and then skipped, with reviews anywhere between. A second setup after
a citation is beyond this instance (two sessions do not finish in useful time); that
citations outlive it too is `CitationsStand`, for any number of sessions.
`MaxFeedback` bounds the rated messages. Three sessions in `v1_sessions` are two of one
account and one of another. One connection in `server` makes a
probe and two account requests wait for each other; requests of several statements, which
come back to the pool in between, are left to the theorems of `ServerProofs`.
Labels, names, requests, jobs, workers, devices, conversations and v1 sessions are
symmetric; the runs with liveness properties use no symmetry.

**Deadlock** is checked except in `server`, where the process ends. Requests that have all
been answered and a queue with nothing left to do stutter explicitly (`Quiescent`,
`Idle`), so that any other stop is a deadlock; the v1 API can always be read or restarted.

**Fairness.** `account_live` assumes weak fairness of each request's own steps: a
handler's goroutine keeps running and PostgreSQL executes a statement that is not
blocked. Clients owe nothing (`Receive`, `Abort` and `Expire` are not fair), and
weak fairness is enough for waiting, since PostgreSQL queues waiters. `job_queue`
assumes that workers keep asking and working and that the clock goes on;
`EveryJobSettles` adds the premise that crashes stop and the exception of jobs whose
worker died, since nothing in the code re-queues those. `server` assumes that `run()`
goes on, that a goroutine waiting for the mutex or the pool is not passed over for ever
(strong fairness of `Lock` and `Acquire`: Go's mutex has a starvation mode, pgxpool's
waiters queue), that holders of the mutex outside a handler release it, that the ping's
timer fires, and that a probe's few bytes need no reader. Nothing is assumed of the
database or of clients; where a property needs them to answer it says so in its
premise (`DatabaseAnswers`, `ClientsRead`, and `ClientSends` for a request body, which is only ever
asked of the request that is to be answered).

## 4. Findings

Each is a run that TLC finds violated; the sentence it contradicts is in
`docs/superpowers/specs/2026-05-29-initial-self-setup-conversation-api.md`.

1. `setup_duplicate` - `handleSkipSetup` clears the active pointer whichever session it
   skips (`hunch_api.go:463`). Repeating the skip of an old session hides the open one,
   and the next POST creates a duplicate (spec, line 335).
2. `review_gate` - the review requirement is one flag of the profile, overwritten by every
   completion (`hunch_api.go:524`): a later setup completed without review puts the
   unreviewed claims of an earlier one to use (spec, line 537). `GateOpensKnowingly` states
   what does hold.
3. `v1_deleted` - `requireSession` takes any non-empty cookie (`hunch_api.go:274`): a call
   with a session of a deleted account is handled (spec, line 1153).

Observations, which contradict no document or need no run:

* The two attempts of `signinOAuth` (`service.go:133`) are shared by both kinds of conflict;
  `ConflictAnswersExplained` says when the second attempt fails too.
* Skip has no status guard and un-completes a completed session (`hunch_api.go:461`).
* Creating a setup session overwrites the profile's locale and timezone without a new
  `version` (`:365`), and completing one applies the locale it was created with.
* Consent is asked in a step and again in the complete call (`:525`); only the call counts.
* With `memory_opt_in` a turn announces a memory update as queued (`:1408`); no job is
  enqueued.
* Skip suggests the mode `light_reflection` (`:478`), which `POST /v1/conversations` refuses
  (`:720`).
* A second signal during a hanging stop is swallowed (`main.go:34`), and `pool.Close` waits
  without a deadline (`main.go:61`): `SignalEndsProcess` needs the database to answer.
* `CompleteJob` leaves `locked_by` and `locked_at` as they are (`jobs.sql:24-28`), so every
  succeeded row still names its last worker, and the row of a worker that died names a dead
  one for ever: `locked_by` does not say who is at work. With repeated reports two workers
  can work on one job; a `WHERE status = 'running' AND locked_by = ...` in `CompleteJob` and
  `FailJob` is what is missing (`FreshReportsKeepTheClaim`).
* A label the user rejected comes back as a new, unreviewed claim when a later setup gives
  the same answer: `addClaimIfMissing` compares with active claims only (`:1270`).
* One client that does not read a large v1 response stalls `/v1` while its handler holds
  the mutex (`hunch_api.go:1462`); the account endpoints and probes are spared.

## 5. The theorems

Assumptions are the named ones of the modules: `None`, `Nil`, `Nobody`, `NoWorker` and
`NoJob` are no proper values, addresses and subjects are disjoint, bounds are
natural numbers, calls are well-formed. All hold for every value of the constants.

* **Row locks** (`AccountProofs`). `DeletedAccountsAreClosed` is not inductive: that no
  identity is inserted for a closed account depends on who holds the account's lock.
  `AccountInv` adds what the lock guarantees: a handler has the arguments of its
  step (`Arguments`); a request's rows are uncommitted until it is answered
  (`OwnRows`); whoever inserted an identity or session for an account holds its lock,
  and the locked account is live or the holder's own (`LocksHeld`); a DELETE holds the
  lock of the account it marked, and once past an UPDATE it has marked every row that
  UPDATE should close, none being added meanwhile (`DeletesMark`). `Invariance`
  proves it, with one lemma per group of actions.
* **Answers and tables** (`AccountAnswerProofs`). `AnswerInv` is inductive relative to
  `AccountInv`. Its first half speaks of one request: the order in which it inserts its
  rows, what its answer says of them, and how it is tied to rows it does not own, which
  other requests may close but never remove or re-address. Its second half speaks of
  the tables: a key or an address is held once, counting uncommitted rows; an identity
  carries its account's address; a live account has a live identity. A step is split into what it does
  to its own request (`Own...`), to the others (`Others...`) and to the tables
  (`Tables...`). `SignoutsAreFinal`, `AccountsAreReachable`, `IdentitiesBelong` and `SignupConflicts` follow;
  `RequestsLeaveNothing` has an invariant of its own, `PoolInv`, for the connections.
* **Rights** (`AccountRequestProofs`). What a request does to an account is decided by a look
  at the tables outside its transaction. `RightInv` carries that look to the COMMIT: a
  sign-in that has a session row works on an account that an identity with the presented
  credential is linked to (`Linked`: one it found or has inserted), a DELETE on the account
  of its cookie's session. Linked rows are never re-addressed (`KeptRows`), so it survives
  what others do. `AnswersAgree`, `DeletesAreFinal` and the action property
  `ClosingsAreAuthorized` follow. `CommitsAreFinal` is `KeptRows` as an action property.
* **Conflicts** (`AccountRequestProofs`). Why an OAuth sign-in answers `conflict` is a
  statement about the past. `ConflictInv` replaces the history by what is left of it: as
  long as no account is closed, active accounts and their identities stay (`ActiveRowsStand`), so
  the row the first attempt collided with is still there, the second attempt finds
  its account, and what it collides with then is an identity of somebody else (`Foreign`).
  `ConflictsExplained` follows, together with the sign-up's conflict.
* **Waiting and ending** (`AccountRequestProofs`). `Blockers(r)` are the requests that r's
  next statement has to wait for; `BlockersAreGuards` shows that they are the guards of the
  actions and nothing else. Who is waited for is inside a transaction, and if it waits itself, then
  at a later kind of statement: connections, address index, row locks, identity index,
  sessions (`Rank`, `WaitsForLater`). Hence no set of requests waits for itself
  (`WaitsEnd`). `RequestsEnd` counts: every step of a request lowers its own `StepsLeft`, at
  most 16, and nobody else's. The two are the safety half of `EveryRequestAnswered`; the
  other half is fairness.
* **Refinement** (`AccountAnswerProofs`). `AccountImplementsRegistry`: only a COMMIT and
  the autocommitted statements show through the committed rows (`HiddenSteps`), and each
  is a registration, a link, a sign-in, a sign-out, a closing, or shows nothing
  (`RegisterStep`, `LinkStep`, `SignInStep`, `SignOutStep`, `CloseStep`). That `owner` is a
  function needs that a key is held once; that the account linked or signed in to is
  open needs the lock; that closing takes every row needs `DeletesMark`.
* **Jobs** (`JobQueueProofs`). `QueueInv` adds to `AttemptsWithinLimit` that a row locked by
  `ClaimJob` is queued and in the hands of the worker that locked it. It holds for every
  setting of the faults. So does `HandsWithinAttempts`: a claim adds one worker and one
  attempt, and nothing else adds a worker (`HoldersStep`); the set is finite by the same
  induction, whatever the set of workers is. `FreshReportsKeepTheClaim` has the premise
  that no report changes a row that is not running in the reporter's name, and concludes
  that the running row names who works on it, also where reports are repeated.
  `JobsHaveOneWorker` and `QueueImplementsLifecycle` assume `~Retry`: with repeated
  reports both are false, since reports name only the id.
* **Setup** (`SetupProofs`). `SetupInv` is the type invariant, the agreement of
  sessions, active pointer and `setup_status` (`FlowInv`) and `EvidenceStands`. The order
  of answers makes completion meaningful, and that a session is only completed from
  `in_progress`, and answered only there, keeps evidence unchanged. `ReviewsStand` and
  `NoDuplicateClaims` are action properties of the handlers that write claims; that a
  session's answers become claims at most once follows from `EvidenceStands`, since a session
  that has claims is over.
  `NoLostPreferences` rests on the type invariant and `VersionGuardsPreferences`
  itself, which is inductive: every handler that changes a preference raises the version.
* **Bootstrap** (`SetupProofs`). Consequences of `SetupInv`. For `ProgressIsKept` the
  ratio is compared by integer division; for `GateOpensByUserOnly` each handler's
  effect on the review flag and on claims is followed.
* **The causes of findings 1 to 3** (`SetupProofs`, `V1SessionsProofs`). Each violated property
  is proved under the one premise the code leaves out, so the finding has no second cause:
  `DuplicatesComeFromLateSkips` where sessions are skipped only while they take answers
  (`SkipsOfOpenSessions`; then the pointer names every open session), `GateHoldsIfAlwaysAsked` where
  every setup asks for review, `LookupRefusesDeleted` where handlers run for signed-in
  sessions only. The last rests on `SessionsAreTelling`: a signed-in session belongs to an
  open account.
* **Conversations** (`ConversationProofs`). `TalkInv` joins `SetupInv` with the types, with
  `OrderInv` (turns are whole, times run back by a second at most, `LastMessageAt` is the
  time of the last reply) and with `CitedExist`: claims are never removed, and a claim
  exists only once its session is over, when its answers can no longer change.
  `TalkKeepsSetup` carries every theorem about setup and bootstrap over to the composition.
  `NothingIsTakenBack` is an action property: history is only added to, and
  `last_message_at` never goes back, because no reply is dated more than a second ahead.
* **v1 sessions** (`V1SessionsProofs`). `V1Inv`: cookies known to the store were issued or
  are a stranger's, a v1 account hangs on one cookie value, and what was done to it was done for
  that cookie's holder. The step of `AccountRegistry` is used through what it does to
  `issued` and `signedIn` only. `CallsSpareRegistry`: the composition implements the registry.
* **Server** (`ServerProofs`). `ServerInv`: what each phase has still to close and which error it
  returns (`PhaseInv`), no request before the listener nor after a clean drain
  (`TrafficInv`), statements left (`StatementInv`), and the holders of mutex and connections.
  `NobodyWaitsInLine`: who holds the mutex or a connection waits for neither.
  `ServerStepsEnd`: every step lowers what is left to one request (`RequestLeft`) or to
  `run()`, its signal and its listener (`MainLeft`), or lets a request in, which a closed
  listener does not. The two are the safety half of the server's liveness properties.

Types of every module except the specification-only `AccountRegistry` and `JobLifecycle`
are proved (`TypeCorrect`, `QueueTypeCorrect`, `SetupTypeCorrect`, `TalkTypeCorrect`,
`HoldersKnown`, and as part of `V1Inv`).

Every invariant and action property of the passing runs is stated by a theorem. Model-checked
only is liveness (`EveryRequestAnswered`, `EveryJobSettles`, `SignalEndsProcess`,
`ProbesAreAnswered`, `StalledReaderSparesAccounts`, `V1NeedsReadersOnly`), which is beyond
TLAPS.

## 6. Not modelled

* The OpenAI client is constructed and discarded by `main`; the documents and embeddings
  tables are used by no code; `Put` and `Get` of the S3 store are never called.
* Configuration parsing, telemetry beyond being set up and flushed, `/healthz`, `/metrics`
  and the middlewares keep no state the program's logic depends on. The HTTP exchange
  with Google and Kakao is three outcomes of `Verify`.
* Password hashing, token generation, JSON, cookie attributes, the texts of replies,
  suggested replies and the memory preview are data; confidence values are not modelled.
* PostgreSQL's deadlock detector and statement timeouts are not modelled beyond `Abort`:
  `account_live` shows that the detector is never needed.
* `V1Sessions` abstracts handlers to the account they work on, and `SetupFlow` and
  `Conversation` follow one account: accounts share nothing but the mutex.
* Several processes of the server, and a worker loop, which the repository does not have.

## 7. Plan

Built, in this order: accounts and their registry; job queue and life of a job; setup,
profile and claims; bootstrap; conversations; v1 sessions over the registry; server;
proofs of each. What would come next:

1. When a worker loop is written: its module in place of the model's external workers,
   with a reaper for orphaned jobs and `EveryJobSettles` without its exception.
2. When the v1 API asks `account_sessions`: `DeletedAccountsAreRefused` as a property
   that holds; `LookupRefusesDeleted` shows that the lookup suffices.

## 8. Running

    tlc -workers 2 -config MCAccount.cfg MCAccount.tla
    tlapm AccountProofs.tla

Operators named `X_Something` beside an operator `X` are faulty variants of `X`, each a
plausible bug; the property named for it in `PROJECT.json` fails when the variant
takes the place of `X`.
