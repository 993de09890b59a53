# TLA+ models of api-axum-starter

The program is a REST API server (Axum, SQLx, Postgres) for accounts: sign-in by
password, second factor, QR code, OAuth provider and passkey; administration of accounts
with an audit log; files and avatars; outgoing mail; background jobs.  Handlers are short
and almost all of the state is in Postgres, so what can go wrong is not in any one
statement: it is between the statements of one handler, where other requests, other
processes, the 10 second request timeout or a crash come in.  The models are about that.

Paths are relative to the repository's root directory `src/` as the map in
`PROJECT.json` writes them (`src/src/...` is the Rust crate).

## 1. Inventory

| Component | State | Operations | Hard because | What makes it correct |
|---|---|---|---|---|
| Account administration (`modules/users`) | `users` rows: role, active, deleted; the advisory lock `ADMIN_GUARD_KEY` | create, invite, update, delete, bootstrap | requests interleave between the read, the lock, the count and the write | an active administrator remains; deleted rows stay deleted; nobody waits for ever |
| Audit log (`modules/audit_log`) | `audit_log` rows | record (best effort), list | written after the change, from a row read before it | it tells what happened |
| Request authentication (`common/security`, `session_verifier`) | `token_version`, active flag | extractors, verify | the row may change while a request runs | a session dies with its password |
| One-time tokens (`auth/repositories/auth_token.rs`) | `auth_tokens` | insert, invalidate, claim, peek, count | `issue` is two statements; links are clicked twice | a link works once |
| Password sign-in, reset, change (`auth/services/session`, `password_reset`) | failure counter, lock, password and its version | login, forgot, reset, change | slow hashing between read and write; bursts | lockout and reset limit hold up to the requests under way |
| Two-factor (`auth/services/totp`) | secret, enabled flag, recovery codes | setup, confirm, disable, verify | six statements over three tables, no transaction around them | codes and pending logins work once; the secret enforced is a confirmed one |
| Email verification and change (`email_verification`) | `auth_tokens`, address | verify, resend, request, confirm | same as reset links | as reset links |
| QR sign-in (`modules/qr_login`) | `qr_login_sessions` | create, scan, approve, reject, poll | two phones and a polling device on one row | one owner, one token, in the order of the states |
| Job queue (`infra/jobs`) | `jobs` rows; per process a poll loop, a semaphore, tasks | enqueue, ensure_scheduled, claim, dispatch, retry, prune, shutdown | several processes; crashes; failed statements | a job is run by one worker; retries end; the recurring job goes on |
| Mail outbox (`modules/mail`) | `outbound_mail` rows, background tasks | dispatch, deliver, finish, recover, prune | the process dies between storing and sending; recovery races new mail | stored mail is sent or given up, and sent boundedly often |
| OAuth (`modules/oauth`) | states, grants, identities | start, callback, exchange, link, unlink | six statements from the provider's answer to the grant; check then act on the number of sign-in methods | a provider account gets its owner into one account; an account keeps one sign-in method |
| Passkeys (`modules/passkeys`) | challenges, credentials | register, sign in, delete | the same | the same; a challenge is used once |
| API keys (`modules/api_keys`) | key rows | create, revoke, authenticate | limit checked before the insert | limit, revocation |
| Media, avatars, object storage (`modules/media`, `avatars`, `infra/storage.rs`) | rows and files | upload, delete, serve | a row and a file cannot be written together | no row without its file; orphans bounded |
| Rate limiter (`rate_limit.rs`, `common/net.rs`) | a window per client address, in one table | allow, sweep; resolve the address behind a proxy | times read before the lock; clients share the table and choose their headers | the limit holds for the client, and only for its own requests |
| Password hashing (`password.rs`) | a semaphore | hash, verify | dropped requests | as photo processing |
| Configuration (`src/config`) | the environment | `from_env` | pairs and ranges; blank means unset | a configuration that is accepted is complete |
| Set-up, secrets, seeds (`src/cli`, `infra/secrets.rs`, `infra/seed.rs`) | `.env`, `monitoring/prometheus.yml`, the schema | setup, gen --secrets, seed | files written in place, commands cut short and run again, edits between them, two ways of reading `.env` | what is set stays; Ready means that the server loads the configuration setup has checked; the two copies of the token agree |
| Server start, middleware, health, OpenAPI, metrics | process state | — | — | mostly I/O or descriptions |

Interaction.  Every request handler calls a service, a service calls repositories, a
repository sends statements; the components share the tables.  Administration changes
rows that authentication, login, reset and QR sign-in read.  Sign-in, reset and invitation
issue one-time tokens and hand mails to the outbox.  The cleanup job deletes expired rows
of all the others.  A start of the process runs the bootstrap of the administrator, the
recovery of the outbox and `ensure_scheduled`, while requests are already served.

The hazards found while reading, each at its line, are in `PROJECT.json` under `hazards`.

## 2. Conventions of the modules

* **One action per database round trip.**  A handler's Rust code between two awaits is
  part of the action of the statement before it.  `pc[r]` names the statement a request is
  about to send.  Statements are atomic (Postgres, READ COMMITTED), and where that level lets
  one statement see two moments (`ensure_scheduled`; `DELETE` then `INSERT` in
  `replace_all`) there are two actions.
* **A dropped request.**  `Drop(r)` is possible at every await: the timeout layer or a
  closed connection drops the future.  An open transaction is rolled back, which releases
  its advisory lock.
* **Failed statements** have no effect, but where the code undoes something because of the
  failure: the INSERT of a file and the COMMIT of a photo (`Holdings`) may have been carried out
  though the client gets an error, and so may a delivery over SMTP (`MailOutbox`).
* **Seeded faults.**  An operator whose comment begins "Seeded fault" is a plausible wrong
  version of the definition that follows it.  None is used by a specification; each is
  swapped in to show that a property would notice.
* **History variables** (marked "history") are read by no guard.

## 3. Modules and the code

`UsersAdmin` — `users` is the table reduced to existence, role and active flag.
`BeginUpdate/Delete/Create/Invite` are the `AdminUser` extractor and `policy.rs`;
`Require` is the read by which `guard_last_admin` is decided; `AcquireLock`,
`CountOthers`, `WriteUpdate`, `WriteDelete` are the statements of `admin_changes.rs`;
`AuditRole`, `AuditActive`, `AuditOnce` the best-effort entries; `Insert`, `SignUp`,
`EnsureBootstrapAdmin`, `Restart` the rest of what changes these rows.  `staleDelete`
remembers that an unguarded delete removed an active administrator.  `changed` is what a request
has done to the table, an invitation included (`Deed`), and `logged` what it has recorded.  Abstracted: names,
addresses, passwords; the log is kept per request; the files of a deleted account
are the files component's; at the start, count and insert of the bootstrap are one
step (one process starts at a time).  A row's `is_active` is false once it is deleted.

`JobQueue` — `jobs` is the table, `queue` the due pending rows in the order of `run_at`,
`loop`, `cancelled`, `batch`, `task` the state of each process.  `Start`, `EnsureCheck`,
`EnsureInsert`, `Claim`, `Spawn`, `Sweep`, `NoHandler`, `EnqueueNext`, `MarkSucceeded`,
`RescheduleOrKill`, `BecomeDue`, `Shutdown`, `Exit`, `Crash`.  A finite pool of ids
stands for the serial column: an insert that finds it exhausted is a failed insert.
Attempts of a succeeded row are cleared, since nothing reads them.

`MailOutbox` — a worker per mail and one recovery worker per process.  `Dispatch`,
`InsertMail`, `Send`/`Retry`/`GiveUp` (`deliver`), `RemoveMail`/`MarkDead` (`finish`), `Select`
and `TakeNext` (`recover_pending`), `PruneDead`, `Start`, `Stop`.  Rendering, addresses and
the length of the delays are left out; which errors may pass is left open.  An error that may
pass (a timeout, a broken connection) may come after the server took the mail: the step that
counts it (`Retry`, or `GiveUp` at the last attempt) delivers a copy or none.  A process that
stops in the middle of `transport.send` is a `Send` followed by `Stop`.  `Readable` are the mails
whose payload the program can read back; the others are rows that an earlier version has left.

`OneTimeTokens` — the statements on `auth_tokens` for one user and one purpose; every
statement names both, so these rows are a table of their own.  Extended by the two
modules below.

`PasswordLogin` — one account (accounts share no row) and any number of requests: login
with lockout, forgot, reset, change.  Every password set is new, so `token_version` also
names the password; the failure counter saturates at the limit, where the code does not tell
larger counts apart; the behaviours are those of one hour, so that issued tokens keep
counting.  Two-factor is off here, and tokens an invitation issues are not counted.

`TwoFactor` — one account: set-up, confirmation, disabling, the hand-off from `login` to a
pending token, `verify_login`.  Secrets and batches of recovery codes are numbered; one
code stands for its batch.  `restarted` is a history: the secret was changed while it was
enforced, or between the code that confirmed it and `enable_totp`.  So are `opened` and
`entered`, the sessions that a pending login and a recovery code have opened, and `outdated`, the
batches that were there when a later one was written or two-factor was turned off.  The lockout is `PasswordLogin`'s.

`QrLogin` — one session row, its users and requests.  `QrHandshake` is the abstract
specification: the order of states, one owner, one token for the owner.  `QrLogin` is
mapped onto it by `due <- \E r : pc[r] = "issue"` and identity on the row.  The
code and the polling secret are abstracted to "right" and "wrong".

`Accounts`, `SignInMethods` — `Accounts` is the `users` table as sign-in sees it (address,
verified, active, password set) with the links mailed to addresses; `SignInMethods` has the
requests: `Register`; `AskForLink`, `InvalidateOlder`, `MailLink` (resend, `request_change`,
`forgot` up to and through `issue`); `FollowLink`, the claim, and what follows it for each kind of
link (`verify`, `confirm_change`, and `reset`, which reads the user in `ResetUser`); `StartSignIn`, `StartLinking`, `ClaimState`, `Profile`
(the provider, external) and the statements of `resolve`, `link` and `grant_for` one by one;
`ClaimGrant`, `ExchangeGrant`; the two passkey ceremonies; `AskForRemoval`,
`CountMethods`, `Remove` (`unlink` and `delete`, which differ in what they remove).
`ToggleActive` and `SoftDelete` are what administration does meanwhile, `Expire` the clock.
`proven`, `owned` and `sessions` are histories: who was shown to have an address, whose a
method ever was, and which method opened which session.  Links, states, grants and challenges that
no longer work are dropped, two that say the same are one, and the limit of reset mails, the
lockout and the token version are `PasswordLogin`'s.  A credential stored again after its
deletion counts as the same row.

`Holdings` — the files, photos and API keys of accounts.  `store` is the object store,
`media`, `avatar`, `keyOwner` and `revoked` the rows that name objects and keys, `permits` and
`detached` the semaphore of `AvatarService` and the blocking tasks whose request is gone.
`AcceptSession`, `FindKey`, `KeyOwner` are the extractors; `Put`, `RemoveObject` the store;
`Upload`, `InsertMedia`, `FindMedia`, `DeleteRow` the media service; `SetAvatar`, `Acquire`,
`Processed`, `ReadAvatar`, `UpdateAvatar`, `RemoveAvatar` the photos, `ReadAvatar` and
`UpdateAvatar` being the two statements of `set_avatar_key`; `CountKeys`, `InsertKey`,
`RevokeKey` the keys; `ReadTarget`, `SoftDelete`, `Purge` the deletion of an account by an
administrator, who is not modelled here.  Generated names never repeat, a
`Clean` continues with the objects left to remove, `lost` is the history of objects
that a race left behind, and `unsure` that of objects whose row was written by a statement that
failed for the client.  What is in a file, its type and size are left out; so are the
scope and the expiry of a key, which only refuse (`Answer`).

`RateLimiter` — `hits` is the table of `allow`; `Arrive` is `enforce` up to the lock, with the
header a client sends and the entry the proxy appends to it; `Allow` is the critical section
(`Kept` the sweep, `Entry` the window the request is counted in); `Tick` is the clock.
Instants are kept as ages, and `Since` is `duration_since`, which is zero for a later
instant.  `asked` and `admitted` are the history of one client, any one of them.  Counts beyond
the limit are not told apart.

`Configuration` — `Config::from_env` as a function of the environment: one operator per
check, `Accepts` for all of them, `Loaded` for what is then configured, `Render` for who may
scrape the metrics.  A text is reduced to what it parses as and to its number or length.  It
has no state of its own and is extended by `Setup`.

`Setup` — `file` is `.env` as the sequence of its lines (live or commented out; an
`Exported` one, `export NAME=x` or `NAME = x`, is read by dotenvy and not found by `set_env_var`), `prom` the
token in `prometheus.yml`, `shell` the real environment, `db` what the database holds.  A
command goes through the steps of the code: `StartSetup`, `CopyTemplate`, `Generate` (read and
change in memory), `SyncPrometheusToken`, `WriteEnv`, `LoadConfig`; `StartGen` enters at `Generate`;
`StartSeed`, `Reset`, `SeedRun`.  `Interrupt` ends a command at any step, and leaves a file that
was being written as it was or cut short, `prometheus.yml` before, in or after its line of
credentials.  `Edit` and `Copy` are the operator, `Serve` is the
start of the server.  `FirstWins` and `LastWins` are the two functions of dotenvy (external):
`main` reads `.env` under the real environment, `setup` over it.  `kept`, `ready`, `rejected`,
`torn` and `rotated` are histories.  A generated secret is named by the command's number.
`Filled` is `.env.example` with its two secrets filled in; only assumptions and proofs use it.

Modules that are extended together (`PasswordLogin`, `RateLimiter` and `MailOutbox`, whose
theorems are in one module) have no name in common, so those two call their specifications
`LimiterSpec` and `OutboxSpec`, and so on.

`MC...` modules hold the values of constants and a statement of the repository that
the code does not keep.  `...Proofs` modules hold the theorems.

Definitions, lines and symbols are matched one by one in `PROJECT.json` under `map`.

## 4. Runs

| Run | Instance | Shows |
|---|---|---|
| `users_admin` | 2 users, 2 requests, empty table | the guard is sound, the last administrator is kept unless an unguarded delete met a changed row, deletion is final, the log is truthful for an unchanged row, every request ends |
| `jobs_safety` | 2 processes, 3 ids, 2 faults, 2 attempts, batch 2, 1 permit | a job is held once; attempts are spent exactly; the cleanup chain survives; finished is final |
| `jobs_liveness` | 1 process, 1 fault | pending jobs are claimed while a loop runs; claimed jobs end while nothing fails or stops |
| `mail_outbox` | 2 mails and a row that cannot be read, 1 retry, 3 starts, 1 fault | stored mail is kept until handled, reaches its recipient no more often than attempts are allowed, and is handled, though recovery has to skip a row |
| `password_login` | 3 requests, 4 tokens, limits 2 and 1 | links work once; sessions die with the password; both limits hold up to the requests under way |
| `two_factor` | 2 requests, 2 tokens, 2 secrets, 3 batches | a pending login and a recovery code open one session each, though they are checked before they are spent; a code is accepted once, and not after a later batch or the end of the enrolment; the secret enforced is a confirmed one, unless set-up was begun again or ran into the confirmation |
| `qr_login` | 3 requests, 2 users, limit 2 | `QrLogin` implements `QrHandshake`; wrong codes are bounded |
| `sign_in_methods` | 2 requests, 2 users, 2 addresses, 2 accounts at one provider, 1 passkey, 5 requests or events; starting empty or with a passwordless account | providers join proven addresses only, sessions go to the owner of the method, linked accounts are not moved, and what remains of "not the last method" |
| `holdings` | 2 requests, 1 account, 3 object names, 3 keys, limits 1, 1 fault | rows have their files, but for a row that was written though its statement failed; nothing is left in the store but what a race or a fault left, processing and keys stay within their limits (keys up to the requests under way) |
| `rate_limiter` | 2 clients behind a proxy, 2 requests at the lock, limit 2, a window of 4 ticks, 2 tracked clients, 5 requests of the observed client | a client gets less than two windows of requests in less than one window, whatever header it sends and whatever is swept; it is refused for its own requests only |
| `setup` | the five lines of `.env.example` that matter, 3 commands, 1 edit | what is set stays; after Ready the server loads the configuration that setup has checked (what it does afterwards, with the object store, mail or the port, may fail); setup fails only for what was written by hand or torn; the scrape token agrees |
| `last_admin` | 2 users, 2 requests | violation, the finding below |

Why the bounds are enough.  The races are between two requests; a third (in
`password_login`, `qr_login`) lets one interfere with two that are already racing.  Limits
of 1 and 2 have a step before, at and beyond the limit.  Two users are the smallest table
in which two administrators can remove each other.  One permit and a batch of two make the
poll loop wait inside a batch; two faults let a statement fail and a process die.  Three
starts allow a mail left by one process to be left again by the next.  The faults bound
crashes and failed statements together.  `MailOutbox` may
stop (all mails are handled and the last process idles), so deadlock is not checked there.
`SignInMethods` stops when its five events are used up and the requests have ended, so neither is
it there; five events let two first sign-ins, or a sign-in and a link, run from their start
to the session of the loser, and two removals race.  `Holdings` stops when its only
account is deleted; three names let two uploads race to replace a third, and one fault is a
dropped request, a failed call of the store or a failed statement, with or without its effect, at
any one place.
`RateLimiter` needs a window longer than twice the wait for the lock for its promise to say
anything (4 ticks and 1), and a table of two that is full while both clients are busy; five
requests are one more than two windows hold.  That the bound is tight was checked: with one
request less it is violated.  `Setup` stops when its commands are used up, so deadlock is not
checked; three commands are a set-up, a rotation that is interrupted, and a set-up after it.
The edits are a secret replaced, blanked, commented out or exported, an address of an administrator with and
without content, and a setting the configuration refuses, each put first, last or in place, or
any line removed.  The real environment has one variable, which an edit may also put into
`.env`.
Requests and tokens are interchangeable where symmetry is used, and no liveness property is
checked under symmetry.

Fairness.  `UsersAdmin`: weak fairness of a handler's steps (Tokio polls woken tasks and
Postgres answers or the request is dropped), strong fairness of `AcquireLock` because
Postgres queues the waiters of an advisory lock; nothing is assumed of `Begin`, `Drop` or
`Restart`.  `JobQueue`: weak fairness of the loop, of the tasks and of the clock; none of
crashes and shutdowns: `DueJobsAreClaimed` asks for a process that stays up, and
`ClaimedJobsEnd` for one that never stops and statements that do not fail.  `MailOutbox`:
weak fairness of the tasks and of a restart (a supervisor starts a stopped service); SMTP may
fail for ever, since `RETRY_DELAYS` bounds the attempts.

### Finding

**The last administrator can be deleted** (`last_admin`).  `delete_user.rs:22` decides on the
guard from a row read before the transaction.  An administrator A starts deleting the plain
user T; T is promoted; T demotes A, which the guard allows since T is an administrator;
the delete of T goes on without a guard and leaves none.  `README.md:236` promises
that this cannot happen.  A restart bootstraps a new one.  The theorem
`LastAdminIsKept` shows that this is the only way.

### What the repository promises and the code does not keep

Each of these has a counterexample in the instance of the run named (the statement itself, put in
place of the run's properties, is violated).  The run checks, and a theorem proves, what holds instead.

* **More reset mails than the limit** (`password_login`).  `README.md:402` says "at most 3 reset
  emails per account per hour", and `password_reset/mod.rs:14` the same; `forgot` counts in one
  statement and inserts in another, so requests that arrive together all pass.  `ResetsAreBounded`:
  by no more than the requests under way, less one.
* **More API keys than the limit** (`holdings`).  `error.rs:5` says "you can have at most {0} active
  API keys"; two creations list the keys before either inserts.  `KeysAreBounded`: by no more than
  the requests under way, less one.
* **An invitation is not in the audit log** (`users_admin`).  `tests/audit_log.rs:1` says
  "administrative actions on users are recorded"; `invite_user.rs` creates an account, with a
  role, and records nothing.  `AuditTellsWhatHappened` is about all the other actions.
* **A secret is enforced before it is confirmed** (`two_factor`).  `begin_setup.rs:18` writes
  the one column that login checks codes against, although its comment (lines 13-14) says that
  the secret is not enforced until confirmed; and a set-up or a disabling between the check and the
  write of `confirm_setup` leaves two-factor on with a secret nobody confirmed, or with
  none.  `EnforcedSecretIsConfirmed` shows that these are the only ways.
* **Two batches of recovery codes** (`two_factor`).  Two confirmations of one enrolment overlap,
  and the DELETE of the second does not see the rows that the first has yet to commit;
  `totp_recovery_code.rs:17` says that a batch replaces whatever codes existed.
  `OldCodesAreGone`: what had been there when a DELETE ran is gone.
* **The last sign-in method can be removed** (`sign_in_methods`).  `README.md:291` and `302` say that
  this is refused; two removals each count the other's method.  `LastMethodKept`: only by a
  count out of date, or of two accounts of one provider that go together; `NobodyIsLockedOut`:
  a reset link still helps.

### What the provisos of the properties leave out

* **Jobs are not run at least once.**  A job is `running` from its claim on; nothing
  ever returns a `running` row to `pending` (`locked_at` is never read), so a crash,
  or a failed write of the outcome, strands it.  `docs/recipes.md:129` promises
  at-least-once.  For the cleanup job `ensure_scheduled` takes the stranded row for a live one.
  `ClaimedJobsEnd` is therefore about behaviours in which nothing fails, and
  `CleanupChainSurvives` counts a stranded row as a cleanup job: it says that the chain is not
  dropped by a step of the program, not that it runs again after a crash.
* **A row without a file.**  When the INSERT of a file or the COMMIT of a photo is reported as
  failed and was carried out (a connection lost at the wrong moment), `upload_media.rs:57` and
  `set_avatar.rs:43` remove the object that the row names.  `RowsHaveFiles` leaves these names
  (`unsure`) out and shows that there is no other way.  `OnlyRacesLeak` leaves out the photo
  that two uploads race to replace and what reaches a deleted account (`lost`).
* **A commented-out line comes first.**  `set_env_var` fills in the first line for a name,
  commented out or not, without looking for a live one below it.  `# JWT_SECRET=` above
  `JWT_SECRET=value` gets a new secret, and the server, which takes the first line, loses the
  value that `secrets.rs:29` says is left untouched (`Promised` leaves such names out).  A line
  `export NAME=x` or `NAME = x` is not found at all: a new line is added beside it, the server goes on
  with the first of the two, and a forced rotation does not reach it.
* **setup and the server may read different values.**  `setup` loads `.env` over the real
  environment and takes the last of two lines, `main` under it and takes the first; a name that is
  there twice makes setup migrate one database and the server use another
  (`ReadyIsWhatServes` leaves such names out).
* **An interrupted forced rotation** leaves the new token in `prometheus.yml` and the old one in
  `.env`; running it again repairs both (`ScrapesWork` leaves the time between out).  So does a
  write of `prometheus.yml` that is cut after its line of credentials.  A torn
  write of either file is not repaired: `setup` takes a part of `.env` for a complete one.

Smaller things noticed and covered by weaker properties: two `forgot` requests may leave
two live links (`one_time_tokens.rs:34`); two processes starting together may start two
cleanup chains (`repository.rs:55`); a mail whose row was not inserted yet is lost in
a crash (`mail/service/mod.rs:134`); the audit log of two overlapping updates may be
wrong (`update_user.rs:52`), which is why `AuditTellsWhatHappened` has a proviso; the limit on passkeys is checked when
a registration begins, not when it ends; a deleted account keeps its provider accounts, which
can then neither sign in nor sign up; two photo uploads at once read the same old photo, and
the one written first stays in the store for ever (`users/repositories/avatar.rs:19`); a file
whose row is inserted after its owner was purged stays, although `delete_all_for_user`
"Removes everything a user uploaded"; the
comment `qr_login/entity.rs:5` lets a session be rejected at any point before it is
consumed, the code only while it is scanned; an audit entry is
lost with a request that is dropped between the change and the entry; `ADMIN_EMAIL=""` counts as a value
for the generation of secrets and as unset for the configuration, so that a password is
generated which then makes every start fail; `RATE_LIMIT_PER_MINUTE=0` is accepted and refuses
every request; `MAX_TRACKED_CLIENTS` is when the table is swept, not how large it may
grow, since windows that are not over stay; the three seconds of the breach check cover
the connection and the headers, not the body (`password_policy.rs:48`).

## 5. Proofs

All theorems hold for every value of the constants that satisfies the assumptions of
the module (`ConstantsAssumption`, `LimiterAssumption`, `OutboxAssumption`): limits are positive,
requests finite where they are counted, the initial table well typed.  `RateLimiter` counts
time in ticks that are no shorter than the longest wait for the lock (`MaxDelay` is 0 or 1), which
chooses the unit.  `Setup` assumes of `.env.example` what can be read off it: every variable is
set once, `JWT_SECRET`, `METRICS_TOKEN` and `ADMIN_EMAIL` are empty (`TemplateAssumption`), and
nothing but the two secrets is missing from it in the real environments considered
(`CompleteAssumption`).  TLC evaluates all of these for the instances of the runs.  Two modules start with a table that earlier processes have written, and assume
of it what the code guarantees of every row it writes.  `SignInMethods`: addresses are unique
among live accounts (the index `users_email_unique_among_active`), and a live account has a
password or a verified address (`create_with_password` sets the one, `create_passwordless` is only
called with an address the provider has verified).  `JobQueue`: a pending or running job
has attempts left and a dead one has none (`Spent`).  That the code goes on guaranteeing both is
part of what is proved (`UsersInv`, `RetriesEnd`).

In each module the invariant that a run checks is not inductive: it says nothing of what a
handler has read and not yet written.  The strengthening says it.

* `UsersAdminProofs`.  `TypeCorrect`.  `GuardCorrect`: `GuardIsSound` is inductive with
  `TypeOK`.  That an administrator remains is not inductive by itself; the proof needs who
  holds the lock (`LockInv`), that a holder that has counted still has another
  administrator to rely on (`GuardInv`), that an update without the guard cannot demote
  (`UnguardedInv`), and where guarded requests are (`WaitInv`, `OpInv`).  The lemma
  `AdminsOnlyGrow` says that whoever does not hold the lock takes no administrator away, or
  sets `staleDelete`.  From it follow `LastAdminIsKept` (an action property) and
  `GuardInv`'s preservation.  `DeletedStaysDeleted` needs types only.  `AuditLogIsTrue`:
  `AuditInv` says, place by place, what a handler has logged and has yet to log, invitations aside;
  the lemma `DueIsChanged` is the heart of it, that an UPDATE of an unchanged row changes exactly
  what the comparison with the row read before it finds to record.
* `PublicEndpointProofs`, first part (`PasswordLogin`).  Lemmas on each statement of `OneTimeTokens` (what it keeps, how many
  tokens it issues; `TwoFactorProofs` has its own).  `ResetLinksWorkOnce` from `TokensInv`;
  `SessionsDie` from `SessionsInv` (a JWT carries the version it was proven with).
  `GuessesBounded` and `ResetsBounded` are counting arguments: the wrong passwords refused plus
  the requests about to count one (`GuessInv`), and the links issued plus the requests about to
  issue one (`ResetInv`), stay within the limit, less one, plus the number of requests.
* `PublicEndpointProofs`, second part (`RateLimiter`).  `LimitedByOwnAddress` is `KeyInv`: the
  key of a request is the client that sent it, whatever it wrote into the header.  `LimitHolds`
  needs how what was let in falls into windows.  A request is a point, its age and its
  number among those of that age, so that a history of counts is a set and sums are
  cardinalities.  `Windows(P, cur, a)` says that the points `cur` of the latest window
  started `a` ticks ago with one of them and are no more than the limit, that the others are
  older but for a delay, and that no stretch that reaches into the latest window holds a limit's
  worth of them; three lemmas show that a tick, a request counted in the window and a
  request that starts the next one keep it, and `WindowsBound` that it bounds every stretch.
  `Tracked` ties it to the table: the latest window is the one in the table and counts at
  least what was let in, and a client that was swept has no window that still runs, which is
  where a sweep by a request with an old time might have gone wrong.
  `RefusedForOwnRequests` is the converse count: what the table counts, the client has itself asked for
  within the window and the delay (`CountInv`).
* `PublicEndpointProofs`, third part (`MailOutbox`).  `StoredMailStays` needs that a worker about to remove or bury a row has
  seen the end of a delivery (`HandledInv`).  `ResendsHaveAStart` counts the
  attempts a mail can still get without another start (`SendsInv`): those left to its own task
  and those left to the recovery task, which has a mail in hand or on its list but never both
  (`RecoveryInv`); each attempt may deliver, whether it is answered for or not.
* `TwoFactorProofs`.  `RecoveryCodesWorkOnce` from `CodesInv`: a code that can be claimed, or is
  yet to be generated, was never claimed.  `SessionsHaveProofs` needs more than that claims are
  single: a session opened with a pending login is opened in the step that claims the token
  (`OpenedInv`), and a code is claimed several steps before its session, so it has to be in the
  hands of one request that has opened none with it (`EnteredInv`).
  `ConfirmedIsEnforced`: what is enforced says nothing about a confirmation that has checked its
  code and not yet written, so `SecretInv` adds that from then on the secret is confirmed or
  was changed.  `EarlierCodesAreGone`: between the DELETE of `replace_all` and its commit, every
  valid code that had been there when the DELETE ran is one that it has found (`OutdatedInv`),
  so the commit removes all that it makes out of date.
* `QrLoginProofs`.  `WrongCodesBounded` by the same counting; `Implements`: the initial
  states map to initial states and each step to a step of `QrHandshake` or a stutter, given
  that a scanned session has one owner and at most one poll is about to issue
  (`HandshakeInv`).
* `SignInMethodsProofs`.  `VerifiedAddressesAreProven` needs where links were mailed
  (`LinkInv`): a link to change the address went to the new one, any other to the
  current one unless that has been proven since, and a claimed link has shown the inbox.
  `JoinedAccountsAreProven` follows the decision of the callback to the INSERT
  (`JoinInv`); `SessionsAreOwned` follows ownership from the linked and stored methods through
  the grants and the locals of a sign-in (`OwnedInv`).  `EveryAccountHasAWayIn` is `Recoverable`
  kept by every step.  `LinkedAccountsStay` and `LastMethodStays` are action properties, the
  latter from `CountInv`: a removal was allowed by a count of two.
* `JobQueueProofs`.  `JobsAreClaimedOnce` is taken apart into places (`PlaceInv`: batch or
  task, one process, and a row that is `running`) and needs that the queue of due jobs holds
  pending rows, each once (`QueueInv`).  `RetriesEnd` and `FinishedStaysFinished`
  come from one lemma on how a row may follow a row (`RowSteps`).  `CleanupGoesOn` needs that a
  cleanup job about to be marked as done is not the only one (`ChainInv`): the next one is in the
  table first, and nobody can finish it before.
* `HoldingsProofs`.  Each request is described by the objects it can still do something to: the
  one it is writing (`Private`), those it removes (`Condemned`), the photo it has read
  (`Old`), the file whose row it deletes (`Doomed`), the account it purges (`Purging`).
  `FilesAreThere`: nobody else knows of a private object, and a condemned one is in no row of a
  live account, or its row was written by a statement that failed (`unsure`).  `LeaksAreRaces`: while nothing was dropped or failed every object is
  `Covered`, by a row, a request or `lost`.  `PermitsBoundProcessing` balances the permits:
  free, held by a request, or kept by the task of a dropped one (`ProcessingInv`).
  `KeyLimitHolds` counts live keys and the requests about to insert one.
* `SetupProofs`.  The lemma `SetEnvVarIs` is what the rest stands on: `set_env_var` does nothing,
  or adds a line for a name that has none, or replaces the first line of the name, which was
  commented out, empty, or to be replaced.  `ValuesStay`: `KeptInv` follows every promised value,
  as the live first line of its name that anybody looks at (`Seen`), from the file into memory and back.  `ReadyServer`: the
  commands never repeat a name (`TidyInv`, also of a file cut short), so that the first line of a
  name is the last one, and what setup loaded stays what it would load (`ReadyInv`).
  `SetupCompletes` and `TokensAgree` share `FilledInv`: until somebody edits `.env` or a write of it
  is cut short, it is `.env.example` with two texts filled in, a command holds the texts it is about
  to write, and `prometheus.yml` has the token of the file, or, between the two writes, that of the
  command.  `BlankIsUnset` is about `Configuration` alone: every check of `from_env` treats a
  blank variable as one that is not set.

Only model-checked:

* liveness (`EveryRequestEnds`, `DueJobsAreClaimed`, `ClaimedJobsEnd`, `StoredMailIsHandled`) and
  anything that needs `ENABLED`, which the prover does not handle.

Every invariant and every action property that a passing run checks is a theorem.
The type invariants of the proved modules are theorems and not repeated as properties of runs.
No module uses `RECURSIVE` operators.

## 6. Not modelled

The permits for password hashing have the shape of those for photos, which `Holdings`
models (the blocking work keeps the permit of a request that was dropped); with the hashing
steps of login, reset and change in `PasswordLogin` they would multiply its states without
another question to ask.  Lists, profiles and the serving of files are reads or one statement.
Telemetry, OpenAPI, health and the wiring of services and routes have no state of their own.
Which rows the seed script inserts is data.  Cryptography (Argon2, JWT, TOTP, WebAuthn), image
processing, SMTP and templates are libraries.  The expiry of a JWT is not modelled, nor is a
second header line `X-Forwarded-For`, of which the code reads the first only: the proxy is
taken to append to the line there is.

## 7. Plan

Written, in order of importance: `UsersAdmin`; `JobQueue`; `MailOutbox`;
`OneTimeTokens`, then `PasswordLogin` and `TwoFactor` on top of it; `QrHandshake` and
`QrLogin`; `Accounts` and `SignInMethods`; `Holdings`; `RateLimiter`; `Configuration` and
`Setup`; and the proofs of all their safety properties.  Possible extensions:

1. An abstract queue that `JobQueue` implements.
2. Pure functions checked against a reference over bounded inputs: pagination, validity of
   object keys, normalisation of recovery codes.
