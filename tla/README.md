# CommonsBook: a TLA+ model

CommonsBook lends shared resources (rooms, tools) in half-hour slots. Members
book a free window at once or join the waitlist of a busy one; whatever gives a
window back offers it to the oldest waiter as a 15-minute *hold*. The backend is
FastAPI over PostgreSQL (READ COMMITTED), with a worker process that expires
holds and sends mail from a transactional outbox, and a React client.

This directory holds TLA+ modules of the system, TLC configurations that check
them on small instances, and TLAPS proofs. Paths below are relative to
`src/backend/app/` unless they start with `src/`.

| file | what it is |
|---|---|
| `Inventory.tla` | bookings, blackouts, waitlist, promotion, the worker's expiry and the events they write, for one resource |
| `WaitlistPromise.tla` | what `Inventory` promises: held windows and a queue, no locks, offers or versions |
| `Outbox.tla` | delivery of the events: leases, mails, receipts, retries |
| `Idempotency.tla` | a create under one idempotency key, statement by statement |
| `OncePerKey.tla` | what `Idempotency` promises: a memory that answers in one step |
| `Sessions.tla` | refresh tokens: login, rotation, reuse, revocation |
| `RefreshPromise.tla` | what `Sessions` promises: families of tokens, exchanged one for one, ended as a whole |
| `Accounts.tla` | administrators' changes of accounts, invitations, registration, operator scripts |
| `Supervisor.tla`, `Scheduler.tla` | the worker's task supervisor; the hold scheduler over many resources |
| `Worker.tla` | the two composed: the worker process, stopped, failing and restarted |
| `RateLimit.tla` | fixed-window counters |
| `RaceLab.tla` | the race laboratory script and its disposable database |
| `Tabs.tla` | several browser tabs that share one session |
| `MC*.tla`, `*.cfg` | instances for TLC |
| `InventoryProofs.tla`, `OutboxProofs.tla`, `IdempotencyProofs.tla`, `SessionsProofs.tla`, `AccountsProofs.tla`, `RateLimitProofs.tla`, `WorkerProofs.tla` | theorems about the module of that name |
| `OutsideProofs.tla` | theorems about the two programs outside the backend, `Tabs` and `RaceLab` |
| `PROJECT.json` | components, runs, mutants, definition-to-source map, hazards, theorems |

Operators marked `Fault:` change one definition the way a plausible bug would;
`PROJECT.json` pairs each property with one, and TLC finds the property violated
with the fault in place. They are no part of the model.

## 1. The system

| component | code | state | operations | what makes it correct | module |
|---|---|---|---|---|---|
| bookings | `bookings/` | `bookings` rows: status, window, `expires_at`, version | create, cancel | active windows of a resource never overlap; the trigger's transitions; nobody books the past | `Inventory` |
| waitlist | `waitlist/service.py`, `router.py` | `waitlist_entries` rows | join, accept, withdraw, decline, `promote_waiters` | nobody waits in front of a free window; order; a hold and its entry agree; the cap | `Inventory` |
| resource administration | `admin/service.py` | `resources.active`, version | create, patch, archive, blackouts, cancel any booking | an archived resource is quiet | `Inventory` (partly) |
| hold scheduler | `waitlist/scheduler.py` | a cursor in memory; the heartbeat row | discover, `expire_and_promote` (SKIP LOCKED), wrap | overdue holds are given up; no resource starves | `Inventory`, `Scheduler` |
| outbox | `notifications/outbox.py`, `handler.py` | `outbox` rows, `notification_deliveries` receipts | append, claim, renew, send, acknowledge, fail, recover, retry | events commit with their cause; delivery at least once; only the lease holder finishes a row | `Inventory`, `Outbox` |
| idempotency | `bookings/idempotency.py` | `idempotency_keys` | acquire, run, store; replay; expire | one effect per key within 24 h, the same answer on replay | `Idempotency` |
| sessions | `auth/service.py` | refresh token families | login, rotate, revoke | a token is used once; reuse kills the family; sessions end | `Sessions` |
| user administration | `admin/service.py`, `auth/dependencies.py` | `users` role, enabled, version | patch under advisory lock 714001 | an administrator remains; no lost update | `Accounts` |
| registration | `auth/service.py`, `admin/service.py` | invitations | invite, register | an invitation is consumed once | `Accounts` |
| operator scripts | `src/scripts/retention.py`, `reset_password.py` | none of their own | anonymise, reset | they respect what the others rely on | `Accounts`, `Sessions` |
| rate limits | `auth/rate_limit.py` | fixed-window counters | consume | the limit of a window; no deadlock | `RateLimit` |
| worker | `worker.py` | tasks, stop event | run, shut down | fail fast, bounded shutdown, honest exit code | `Supervisor`, `Worker` |
| maintenance | `notifications/maintenance.py` | none | purge | deletes only what is over | with the rows it deletes |
| race lab | `src/scripts/race_demo.py` | a disposable database, an approval document | create, race, clean up | a pass means a race took place; only its own database is dropped | `RaceLab` |
| client | `src/frontend/src/api/client.ts`, `features/auth/AuthContext.tsx` | access token in memory, a cookie shared by the tabs | refresh, broadcast, sign out | tabs do not look like a thief; a sign-out reaches every tab | `Tabs` (partly) |
| read side, shell, observability, feedback, verification scripts | `resources/`, `main.py`, `observability/`, `admin/feedback.py`, `src/scripts/verify.py` | none that others read | queries, error mapping, metrics, builds | | not modelled |

How they meet: every inventory transaction first locks the acting user's row FOR
SHARE (`assert_current`), then the resource row (FOR SHARE to insert a booking,
FOR UPDATE for everything else), and appends its outbox events before it
commits. Releases call `promote_waiters` inside the same transaction. The worker
takes the resource with SKIP LOCKED. A create runs inside `execute_create`, which
holds the key's row until its commit, and after a transaction of its own that
counts against the rate limits. Disabling an account revokes its tokens in the
transaction that changes it. The clock is shared by all; each operation samples
it at its own moment.

The modules follow these seams: what two components exchange is an action of
both or a variable of one that the other moves at will (`Outbox` lets any event
appear, `Scheduler` lets any resource become a candidate, `Sessions` lets
administrators disable, `Tabs` reduces the server to what `RefreshPromise` says
of a used cookie, and `Sessions` is shown to keep it). `Worker` composes `Supervisor` and `Scheduler` step by step,
because a stop meets a cycle half done.

Hard behaviours: clocks sampled before a lock is granted; promotion that reads
the clock and the owner anew for each waiter while accounts change; six release
paths that must all promote; accept against expiry at the exact deadline;
transactions that die between two waiters; retries and replays of a create; mail
sent between two transactions; token rotation against reuse; objects in a
session's identity map that are older than the lock; tasks cancelled while they
fail. `PROJECT.json` lists each of these hazards at its line with the properties
that watch it.

## 2. Inventory

### State

| variable | code |
|---|---|
| `now` | `clock_timestamp()` of the database |
| `enabled`, `active` | `users.enabled`, `resources.active` |
| `db` | committed `bookings`, `waitlist_entries` and `outbox` rows of the resource |
| `locked` | a releasing transaction holds the resource FOR UPDATE |
| `work` | the rows as that transaction sees them (its own writes included) |
| `actor` | the user it locked FOR SHARE; `Nobody` for the worker and administrators |
| `cursor` | `(last_created_at, last_id)` of `promote_waiters` |
| `candidate` | the waiter whose window was found free and who has no hold yet |
| `crashes` | bound |

### Actions

| action | code |
|---|---|
| `CreateBooking` | `POST /bookings` and `insert_confirmed` |
| `JoinWaitlist` | `POST /waitlist`, `join_waitlist` |
| `CancelBooking`, `AdminCancelBooking` | `cancel_booking`, before the start for the owner, before the end for an administrator |
| `AcceptOffer`, `AcceptTooLate` | `accept_offer`: the two sides of the deadline |
| `Withdraw`, `Decline` | `decline_entry` of a waiting and of an offered entry |
| `CreateBlackout`, `CancelBlackout` | `create_blackout`, `cancel_blackout` |
| `Deactivate`, `Activate` | `archive_resource`, `update_resource` |
| `SetEnabled` | `update_user`; it waits for a transaction that locked the user |
| `ExpireAndPromote` | `_expire_and_promote` up to its call of `promote_waiters` |
| `Examine`, `Offer`, `Commit` | `promote_waiters`: the check of the next waiter, the savepoint, the end |
| `Crash` | a rollback between any two steps of a releasing transaction |
| `Tick` | the clock |

Transactions that write once under the lock are one action: nobody sees their
rows before the commit, and the row lock keeps every other writer of the
resource out. Transactions that release a window go through `Release` and then
promote waiter by waiter, because there the clock, the accounts and crashes
interleave with them; `db` changes only in `Commit`.

### What is abstracted

* **One resource.** Every statement of the modelled transactions is restricted
  to one resource id, so resources share only the clock and the accounts.
* **If-Match versions.** A stale version is refused before any write, so a
  request with a wrong version is a step that does nothing. Versions are kept in
  the rows because events carry them and the trigger checks them.
* **FOR SHARE.** Two creates may overlap in time; the exclusion constraint makes
  the second wait for the first, which is a serial order of the two. That they
  exclude a release is the guard `~locked`.
* **Conflict branch of a promotion.** 23P01 and a moved entry version inside the
  savepoint cannot happen while the resource is held FOR UPDATE; the model has
  no action for them.
* **Pages of 100.** The scan resumes after its cursor, so page ends do not show.
* **Clock samples.** `Examine` reads the clock and the owner's flag at one
  instant although the code reads them in consecutive statements, and `Offer`
  reads the clock again, as the code does. `CreateBooking` and `JoinWaitlist`
  may use a sample up to `LockWait` ticks old: the code samples before it waits
  for the resource row, for at most the 15 s of `lock_timeout`.
  `LockWait < Lead` is an assumption of the module and holds by a factor of 60.
* **Blackouts** are the bookings of `Nobody`. Audit rows, reasons, e-mail and
  response bodies are left out. Administrators act but are not among `Users`.
* **Refusals** (conflict, wrong state, too late) change no row, so they are the
  complement of the guards.

### Properties

| property | run | proved | says |
|---|---|---|---|
| `NoOverlap` | windows | yes | active bookings and blackouts never overlap |
| `NoStrandedWaiter` | windows | yes | a committed waiter always has an active booking in its way |
| `OfferLinked` | windows | yes | a hold and the entry it was offered to agree, one to one |
| `FirstComeFirstServed` | windows | yes | an offer never overtakes an older waiter for that window or a part of it |
| `KeepsPromise` | windows | yes | `Inventory` implements `WaitlistPromise` |
| `TypeOK` | accounts | yes | rows stay within their columns |
| `EventTrail` | accounts | yes | one event per version of a reservation and the last one fits its state, except that a decline is silent; none for a blackout |
| `ArchivedIsQuiet` | accounts | yes | nobody waits for an archived resource, nothing is booked from now on |
| `MembershipBounded` | accounts | yes | the cap, and one active entry per user and window |
| `RowsMoveLegally` | accounts | yes | one transaction moves a row by at most one legal transition and one version |
| `ConfirmedInTime` | liveness | yes | no reservation is confirmed after its window started |
| `OverdueHoldsEnd` | liveness | no | an overdue hold is given up |
| `WaitingEnds` | liveness | no | waiting ends in an offer, a withdrawal or expiry |
| `HoldDeadline` | none | yes | a hold ends by the start of its window and within `Hold` |

**The refinement.** `Held` is the set of windows of active bookings, `Queue` the
waiting entries. Two facts are worth spelling out: an accept confirms a hold
without a change of held windows (a stutter), and a release with all its
promotions is ONE step, `Settle`, in which the served windows were free, do not
collide and overtake nobody older. The abstract order speaks of windows contained
in the served one: a waiter for a longer window may wait behind a younger one for
a part of it, and the code says so (`waitlist/service.py:291`).

### Bounds

`inventory_windows`: four bookings, two entries, clock 0..1, windows of one and
two slots in three slots, so that windows overlap in part; no crash.
`inventory_accounts`: three bookings, two entries against a cap of one, clock
0..4, both accounts disabled and enabled, blackouts, one crash.
`inventory_liveness`: three bookings, two entries, holds of two ticks, a create's
sample up to one tick old, one crash, no symmetry. A tick is the half hour
divided by `Slot`: 15 minutes in the first two, 7.5 in the third.

Two entries suffice for a fault in promotion (one served, one passed over), for
equal `created_at`, and for a cap of one. A hold that has to be replaced needs a
booking, its successor and the one after it. `Horizon`, `LastTick`, `MaxCrashes`,
`Managed` and `SpareId` (creates and joins leave a booking id for every waiter's
offer, since uuids never run out) are bounds and carry that name in the module.
The clock stops at `LastTick`, so the runs do not check deadlock: a state in
which every id is used and the clock has stopped has no successor. The proofs
hold for every value of these bounds.

### Fairness

`FairSpec` assumes weak fairness of `Tick` (time passes), of `PromoteWaiters` (the
statements of an open transaction return: `statement_timeout` and `lock_timeout`
end it otherwise, which is `Crash`) and of `ExpireAndPromote` (the worker runs a
cycle every 30 seconds and is restarted when it dies). Members and
administrators are not fair: they may do nothing. Weak fairness of the worker is
enough although it skips locked resources, since a lock is always released and,
once members stop changing the rows, the action stays enabled; crashes are bounded by
`MaxCrashes`, without which a transaction could die for ever.

## 3. The other modules

### Outbox

Every worker process runs one dispatcher. Its cycle is the actions `Wake`
(sample the clock), `Recover` (`recover_stale_leases`), `Claim` (`claim_batch`),
`Renew`, `Open` (the first transaction of `_dispatch_event`), `Send` (the mail,
outside any transaction), `Record` (the second: receipt and acknowledgement) or
`Fail` (`fail_lease`). Between any two of them the other dispatcher, the clock,
`RetryEvent` (an administrator), `BecomesMoot` (a recipient is disabled, an offer
is over) and `Abandon` (a crash) may run. `row` and `receipt` are the two tables;
`worker` is what each dispatcher believes, the lease token included; `mailed` and
`excused` are history: under which claims a mail went out, and which claims the
outbox could not learn the outcome of in time.

Abstracted: texts and recipients; SKIP LOCKED, which makes claims a serial order;
the order among rows due at the same moment; clock differences between hosts.
Unknown event types and missing recipients do not arise from the inventory.
Deadlines are kept relative to the present and forgotten after `Memory` ticks, so
that the state space is finite although time never ends: `EventsSettle` is about
an unbounded clock.

Properties (`outbox_delivery`): `OnlyTheHolderFinishes` (fencing),
`DeliveredIsAccounted` (receipts and rows tell the same story although only the
row is fenced), `DuplicatesAreExcused` (at least once, and more often only for a
reason the code cannot avoid), `DeadAfterAllAttempts` (the budget on the failure
and on the recovery path), `EventsSettle` (liveness). Proved only: `SentIsFinal`.

Bounds: two dispatchers, one event, lease 2, two attempts, one retry, one crash;
a tick is about 30 s. Two attempts with a retry give four claims, enough for a
first sender to come back after two others. `Mailing` (`EMAIL_ENABLED` per
process) holds both workers in the run and `Offers` is empty, so a worker that
only recovers, and a moot event that stays moot, are covered by the proofs
alone.

Fairness: the dispatcher's loop goes on and time passes. Mails may fail for ever;
the budget of attempts ends that.

### Idempotency

One key of one user. A request is the transaction of `execute_create`: `Insert`
(ON CONFLICT DO NOTHING), `Select` (FOR UPDATE; the snapshot and `is_expired` are
taken here), `Grant` (the lock comes, or the row is gone), `DropExpired`,
`Replay`, `Run` (the operation), `Commit`, and `Fail` at any point (rollback,
timeout, lost connection, dead process). `Purge` is maintenance. `holder`,
`dirty` and `draft` are PostgreSQL's part: who has the row, whether he has written
it, and what he sees.

`OncePerKey` is the promise: perform, repeat from memory or decline in one step;
what was performed is remembered for `Ttl`, and at most `Slack` longer. The
refinement maps `Slack` to the longest life of a transaction: a replay decided by
an old snapshot may answer that much after the expiry.

Properties (`idempotency_keys`): `AnswersAreTrue`, `KeepsPromise`, `RequestsEnd`
(liveness: no circle of waits, every lock comes back; weak fairness of a
request's own next step). Proved only: `OncePerDay`. The proof shows more than
the run asks: one retry is always enough, so the code's five tries are never used
up. It rests on `MaxDuration < Ttl` (a transaction lives less than a day) and on
`MaxTries >= 2`.

Bounds: three requests, two bodies, `Ttl` 2, a transaction up to one tick, three
tries, a tick of half a day, clock 0..3. Three requests are needed for one that waits while a
second deletes the expired row and a third inserts.

### Sessions

Transactions that change tokens lock the user, the family's advisory lock and the
tokens, and are one action: `Login`, `Rotate`, `Logout`, `Disable`,
`ResetPassword`. What happens before the first lock is an action of its own:
`LoginRead` (the user is read and the password verified), `Present` (the clock
and the token's family), and between two transactions of one request:
`DetectReuse` rolls back, `RevokeReused` revokes. `Die` may come at any point.
`epoch` counts what ends the sessions of a user. The access JWT is stateless and
left out.

`RefreshPromise` is the same seen from outside, without rows, clocks, accounts or
requests: `Open`, `Exchange` (one live token for one other), `End` (of whole
families, for ever) and `Answer` (a spent token showed up, its family has ended).
Under the mapping a login is `Open`, a rotation `Exchange`, a logout, a disable and
a password reset `End`, the second transaction of a reuse `Answer`, and everything
else, the rollback of the first included, a stutter.

Properties (`sessions_tokens`): `OneLiveToken`, `ReuseKillsFamily`, `SessionsEnd` and
`KeepsPromise`, the refinement; proved only: `FamilyDiesWhole`. `sessions_recheck`
shows a finding, see "Code and documents". `SessionsEnd` holds all the same: the
surviving login belongs to the new epoch, which is why it is a finding of its own.

Bounds: one user, two requests, three tokens, `TokenTtl` 2, `FamilyTtl` 3, two
ends of sessions, clock 0..2; a tick is five days (`sessions_recheck` halves both lives).
Three tokens are a parent, a child and a grandchild, or two families. At tick 2 a
token of tick 0 has expired and a grandchild's life is cut by its family's; a
family never expires before its tokens have.

### Accounts

A PATCH is `View` (the administrator reads the account and its version), `Admit`
(the dependency), `Check` (advisory lock, both rows, revalidation and the count of
administrators) and `Update`. Invitations are `AskToInvite` and `Invite`;
`Register` uses one, `Lapse` ends one. `Scan`, `SweepLock` and `SweepCommit` are
`retention.py`; `Load` and `ResetPassword` are `reset_password.py`, which reads
before it locks. A behaviour has one script or none (`script`), chosen at the
start.

Properties (`accounts_changes`): `AdminRemains`, `NoLostUpdate`,
`PrivilegeIsCurrent`; proved only: `InvitationOnce`. `AdminRemains` is about every
step: none takes the last active administrator away but one, a PATCH by which he
disables himself with `enabled` spelled `0` or `"0"` (`Overlooked`), which the code
accepts; bodies with that spelling are in the run, and `AdminRemains` holds before,
beside and after them. It says nothing of behaviours with a retention sweep, and
`NoLostUpdate` nothing of those with a password reset. All three are disagreements
between code and documents, described below. The counterexamples of the two
scripts need more changes of an account than the run allows; without the exclusions
and with `MaxVersion` 5, TLC's simulation finds both.

Bounds: three account slots of which one starts as administrator, two requests,
one invitation, version 3. Two administrators that demote each other are reached
by registering the second.

### Worker (Supervisor and Scheduler)

`Supervisor` is `worker.py`: the places of the four tasks, the stop event, the
fatal error and `run()`. The event loop switches only where a task waits, so an
action is what happens between two waits. `Begin`, `Finish`, `Wake`, `Timeout`,
`Raise` and `Unwind` are the tasks; `GatherEnds`, `DrainEnds`, `BudgetExpires` and
`Reap` are `run()` and `_shutdown`. `Scheduler` is `run_cycle` over many
resources: `Discover` (a batch behind the cursor, or from the start), `Visit` of
the first of the batch (the cursor moves first, then the resource's transaction, which `Inventory`
models), `EndCycle`, `Crash`; `Appear` and `Settle` are requests and the clock.
`Worker` runs one inside the other and adds `Restart`.

Properties (`worker_stop`): `ExitTells` (the exit code), `NoNewCycle`,
`BypassBounded` (no starvation, counted), `StopEnds` and `VisitComes` (liveness).
The heartbeat row is read only by the metrics and left out.

Bounds: all four tasks, two resources in batches of one, one restart, a budget of
one tick, and maintenance as the task whose operation may never end (`Stuck`).
Fairness: the event loop runs what is ready, operations end except those in
`Stuck`, cleanups end, time passes, and after the interval the next cycle begins.
`StopEnds` is stated for what this allows: a stop ends unless an operation that
never ends was under way, and after a failure even then.

### RateLimit

`Arrive` reads the clock and fixes the window, `Consume` counts one bucket and
locks its row, `Commit` publishes all counts, `Die` rolls back, `Purge` deletes
rows of old windows. `granted` is history: what was let through. Properties
(`ratelimit_windows`): `WithinLimit`, `NoWaitCycle`; proved only:
`WaitsClimb`, `RetryMeetsNewWindow`. The assumption `Retention >= Window + Patience` says that
a transaction does not live for the hours until its window is purged.
Bounds: two buckets with limits 1 and 2, plans "both" and "the second", two
requests, windows of two ticks in 0..5, three counts per row.

### RaceLab

One run after another with one run id: `Create` (or `CreateFails` between DROP and
CREATE), `Setup`, two races (`Check`, `Barrier`, `Insert`, `Commit`, `WriterFails`
of each writer, `Judge`), `Cleanup`, `Finish`; `Break` ends a run at any step. The
approval document is the set of actions it grants. Properties (`racelab_runs`):
`OnlyItsOwn` and `SuccessIsTrue`. `seen` is the count each writer saw in its check
(`observed_overlaps_before_insert`), `early` is history and says that a writer
inserted before the other had looked; `report` keeps, as the script's evidence
does, what the two races of the run came to. `SuccessIsTrue` states for every
success, with cleanup (the default) or without: in both races both writers had found the
slot free before either inserted, then both committed in the table without the
constraint, and one committed and one was rejected in the table with it; and the
database is gone if it was to be dropped, or else holds these rows. The script's
assertions count rows and outcomes but never look at what the writers saw, so the
first half rests on the barrier alone. Three runs: one that leaves a database
behind, one that meets it, one after that.

### Tabs

Each tab's memory, the Web Lock, the cookie jar the tabs share, the refresh
messages to and from the server with the cookies they carry, the broadcast
inboxes. `browser` says which interfaces `client.ts` finds, `navigator.locks` and
`BroadcastChannel`, each independently: any browser may be the one at the start.
`CheckSession` and `MeetUnauthorized` call for a refresh. `Enter` is
`refreshSession` on both of its branches: with Web Locks it waits for the lock,
reuses a token that came meanwhile or sends the refresh and keeps the lock; without
them it sends at once, and two tabs' refreshes may be under way together
(`crossed`, history). Without a channel no other tab hears of anything. `Serve`
is the server, `Answer` the end of `doRefresh`; `FetchFails`, `Reload` and `Busy`
are what goes wrong, bounded by `MaxLosses`; `SignOut` and `SignOutEnds` are the
logout, `Receive` the broadcast. `SessionEnds` is a family that ends by itself
(time, a disabled account, a reset password), and `MeRefused` the refused `/me` that may
follow. Login is not modelled: one browser with a live cookie opens the tabs.

Properties (`tabs_session`): `NoFalseAlarm` (the tabs never present a used cookie
unless an answer was lost or, in a browser without Web Locks, two refreshes
crossed), `NotSignedOutForNothing` (a checked tab shows a signed-out page only after
one of these, a sign-out, the session's own end or a refusal for want of capacity)
and `SignOutSticks` (liveness: a session that is over, for whatever reason, ends
in every tab for good; no browser is excepted). The exceptions for crossed refreshes
are the code's: see section 5. Fairness is per tab: what the tab does next by
itself (`GoesOn`: a page that is shown checks its session and goes on asking, the
browser grants the lock and delivers answers), `Receive`, and `FiveSecondsPass`.

Bounds: two tabs, one message under way to each. One loss and one sign-out are enough for both to
race a refresh of the other tab; without Web Locks, where far more interleavings
exist, one of the two (`MaxBare`).

## 4. Runs

| run | module | properties | shows |
|---|---|---|---|
| `inventory_windows` | Inventory | `NoOverlap`, `NoStrandedWaiter`, `OfferLinked`, `FirstComeFirstServed`, `KeepsPromise` | promotion in order inside releasing transactions; the refinement |
| `inventory_accounts` | Inventory | `TypeOK`, `EventTrail`, `ArchivedIsQuiet`, `MembershipBounded`, `RowsMoveLegally` | accounts disabled between statements, blackouts, archive, a crash |
| `inventory_liveness` | Inventory | `ConfirmedInTime`, `OverdueHoldsEnd`, `WaitingEnds` | overdue holds and waiters are settled; stale clock samples |
| `outbox_delivery` | Outbox | `DeliveredIsAccounted`, `DuplicatesAreExcused`, `DeadAfterAllAttempts`, `OnlyTheHolderFinishes`, `EventsSettle` | two dispatchers, late senders, lost answers, a crash |
| `idempotency_keys` | Idempotency | `AnswersAreTrue`, `KeepsPromise`, `RequestsEnd` | retries against rollback, expiry and purge; the refinement |
| `sessions_tokens` | Sessions | `OneLiveToken`, `ReuseKillsFamily`, `SessionsEnd`, `KeepsPromise` | refreshes against each other and against revocation; the refinement |
| `sessions_recheck` | Sessions | `LoginRechecks`, violated | a login that rechecks an old object |
| `accounts_changes` | Accounts | `AdminRemains`, `NoLostUpdate`, `PrivilegeIsCurrent` | concurrent PATCHes, either spelling of "disabled", invitations, scripts |
| `worker_stop` | Worker | `ExitTells`, `BypassBounded`, `NoNewCycle`, `StopEnds`, `VisitComes` | signals, failures, a stuck operation, a restart, over a scheduler half way |
| `ratelimit_windows` | RateLimit | `WithinLimit`, `NoWaitCycle` | two requests over two counters, purge, rollback |
| `racelab_runs` | RaceLab | `OnlyItsOwn`, `SuccessIsTrue` | both races and what they show, failures at every step of three runs |
| `tabs_session` | Tabs | `NoFalseAlarm`, `NotSignedOutForNothing`, `SignOutSticks` | two tabs, with and without Web Locks and channel, reloads, lost answers, a sign-out, a session that ends |

Every run has bounded clocks, ids or restarts and may come to rest when they are
used up, and several components may rightly be idle for ever; so no run checks
deadlock, and the liveness properties say what must not be left undone.
Requests, users and bookings are interchangeable (`SYMMETRY`) in the runs
without liveness properties.

## 5. Code and documents

Where the model and a document of the repository disagree:

* **Login rechecks an old object** (finding, run `sessions_recheck`). The comment
  at `auth/service.py:74` says "Acquire user FOR SHARE and recheck enabled state
  and password-hash equality". The second SELECT returns the `User` the session
  already holds, without `populate_existing`, so line 79 compares the row with
  itself as it was first read; a login overtaken by a disable or a password reset
  is given a session.
* **The retention sweep and a promoted account** (`src/scripts/retention.py:97`).
  Its list leaves out administrators, but under the row lock it looks only at the
  address: an account promoted in between is anonymised and disabled, possibly
  the last administrator, which `src/docs/admin.md:186` excludes. `AdminRemains`
  is stated for behaviours without a sweep.
* **`"enabled": 0`** (`auth/dependencies.py:497` against `admin/schemas.py:109`).
  The guard counts `enabled` only when it is the literal false, and the schema
  converts `0` and `"0"` to False: the last administrator can disable himself,
  which `src/docs/admin.md:186` excludes. The spelling is in the run and in the
  theorem; `AdminRemains` says that this is the only step by which it happens.
* **A version written back** (`src/scripts/reset_password.py:108`). The locked row
  is the object loaded before the lock, so `version += 1` may repeat a version an
  administrator has seen, and his next PATCH passes over a change he did not see.
  `NoLostUpdate` is stated for behaviours without a reset.
* **The shutdown budget** (`worker.py:167`, `src/docs/runbook.md:161`). The 25 s are
  counted from the end of `gather`, which after a signal ends only when all tasks
  have. An operation that never ends keeps the process alive; `StopEnds` says so.
* **Cleanup of the race lab** (`src/scripts/race_demo.py:913`,
  `src/docs/race-lab.md:18`). It is a step, not a `finally`: a failed run leaves
  its database. What holds is `OnlyItsOwn`: the next run does not take it for its
  own.
* **A late refresh answer** (`src/frontend/src/api/client.ts:145`,
  `src/docs/frontend.md:40`). `LOGOUT` clears every tab "immediately", but an
  answer or a broadcast that arrives after it brings token and user back until
  the next refusal. What holds is `SignOutSticks`: in the end nothing is left.

And one place where the documents are silent on a consequence:

* **Browsers without Web Locks** (`src/frontend/src/api/client.ts:173`,
  `src/docs/frontend.md:37`). The lock is used "when available"; without it two
  tabs send the cookie they share at the same time, the server takes the second
  for a thief and revokes the family, and both tabs are signed out with nothing lost.
  `NoFalseAlarm` and `NotSignedOutForNothing` except just this (`Crossing`).

## 6. Proofs

Everything in this section is proved by TLAPS for all values of the constants
that satisfy the modules' `ConstantsAssumption`; the bounds of the runs play no
part. A theorem's further assumption is in its ASSUME. Each proof module has an
inductive invariant, one lemma per action (or per kind of action), and theorems
that follow from it.

| theorem | property | further assumption |
|---|---|---|
| `InventoryProofs`: `TypeCorrect`, `NeverDoubleBooked`, `NobodyStranded` | `TypeOK`, `NoOverlap`, `NoStrandedWaiter` | |
| `InventoryProofs`: `HoldsMoveWithEntries`, `HoldsEndInTime` | `OfferLinked`, `HoldDeadline` | |
| `InventoryProofs`: `InventoryKeepsPromise`, `NobodyIsOvertaken` | `KeepsPromise`, `FirstComeFirstServed` | |
| `InventoryProofs`: `RowsTakeLegalSteps`, `NobodyConfirmsLate` | `RowsMoveLegally`, `ConfirmedInTime` | |
| `InventoryProofs`: `WaitlistStaysBounded` | `MembershipBounded` | finitely many entries |
| `InventoryProofs`: `ArchiveIsFinal`, `TheOutboxTellsAll` | `ArchivedIsQuiet`, `EventTrail` | |
| `OutboxProofs`: `NobodyIsForgotten`, `NoSenselessDuplicates`, `BudgetIsKept`, `TheHolderFinishes`, `SentForEver` | `DeliveredIsAccounted`, `DuplicatesAreExcused`, `DeadAfterAllAttempts`, `OnlyTheHolderFinishes`, `SentIsFinal` | |
| `IdempotencyProofs`: `NobodyIsMisled`, `KeysKeepTheirPromise`, `BookedOncePerDay` | `AnswersAreTrue`, `KeepsPromise`, `OncePerDay` | at least two tries |
| `SessionsProofs`: `SessionsKeepPromise` | `KeepsPromise` | |
| `SessionsProofs`: `OneOfEachFamily`, `FamiliesDieWhole`, `ReuseIsFatal`, `NoEndlessSession` | `OneLiveToken`, `FamilyDiesWhole`, `ReuseKillsFamily`, `SessionsEnd` | |
| `AccountsProofs`: `LastAdminStays` | `AdminRemains`, and an active administrator at the start | |
| `AccountsProofs`: `NoLostUpdates`, `PrivilegeAtCommit`, `InvitedOnce` | `NoLostUpdate`, `PrivilegeIsCurrent`, `InvitationOnce` | |
| `RateLimitProofs`: `NeverOverTheLimit`, `NobodyWaitsInACircle`, `EveryWaitClimbs`, `RetryIsLater` | `WithinLimit`, `NoWaitCycle`, `WaitsClimb`, `RetryMeetsNewWindow` | |
| `WorkerProofs`: `ExitCodeTells`, `NothingBeginsAfterStop`, `BypassIsBounded` | `ExitTells`, `NoNewCycle`, `BypassBounded` | |
| `OutsideProofs`: `NobodyCriesThief`, `SignedOutForAReason` | `NoFalseAlarm`, `NotSignedOutForNothing` | |
| `OutsideProofs`: `OnlyItsOwnIsTouched`, `SuccessTellsTrue`, `NeverTwoInProtected` | `OnlyItsOwn`, `SuccessIsTrue`, `ProtectedHoldsOne` | |

Every safety property and action property of a passing run is among them. The
modules also prove their type invariant.

**InventoryProofs.** `NoStrandedWaiter` says nothing about a transaction in
progress, so it is not inductive. `IInv` adds that the rows of the open
transaction are disjoint too, that between transactions they are the committed
ones, and `ScanOK`: every waiter in the working rows is ahead of the cursor, or is
the candidate, or is blocked; and the candidate still waits and its window is
free. A release starts the scan before everyone (`ReleaseKeepsIInv`), `Examine`
moves it past one waiter that is dropped, blocked or nominated (`ScanAdvances`,
`ExamineStep`), `Offer` inserts a hold into a free window, which keeps the rows
disjoint and blocks the others no less (`InsertStaysDisjoint`, `OfferStep`), and
when nobody is ahead and there is no candidate everyone left is blocked, which is
what `Commit` publishes. The proof needs no exclusion constraint for promotions:
their inserts succeed because the window was free under the lock. For creates
the constraint is the guard `~Occupied`.

Four more invariants are built on `IInv`, each given the ones before.
`HoldsOK`: in the committed and in the working rows holds and entries move in
pairs and no hold outlives its window. `Progress`: how the rows of an open release
relate to the committed ones; an occupied window in them was occupied before or
belongs to a waiter just served, nobody starts to wait, and whoever is served
stands before every waiter whose window lies inside his (`Serving`); the candidate
is the entry at the cursor (`Nominated`). `Steady`: a release has moved each row by one legal step or not at
all, and confirmed and queued nobody. `Told`: each write that moves a reservation
appends its event. `Progress` is what the refinement needs: at the commit it says
that the step is `Settle` of `WaitlistPromise` (`ReleaseSettles`, `PromiseStep`).
`ConfirmedInTime` uses that a create's sample is at most `LockWait < Lead` old.

**OutboxProofs.** Three parts: `RowOK` (a lease carries the token of the last
claim; every claim is paid for by an attempt), `WorkerOK` and `Rivals` (whoever
lost his lease on the way to a mail is excused, no token is given out twice), and
`MailOK`: of a mail that went out unexcused the receipt tells and nobody is left
to send under a later claim, or its sender is about to write the receipt. So an
unexcused mail belongs to the last claim that mails.

**IdempotencyProofs.** `LocksOK` (who may hold the row, and with what draft),
`KeyOK` (what is committed is true and newer than every booking), `RequestOK` (a
transaction is young and knows whether what it saw had expired) and `TriesOK`: a
row taken away from a request was replaced by nothing or by a row younger than
the request, which cannot expire while the request lives. Hence one retry is
enough. The refinement then needs one lemma per abstract action.

**SessionsProofs.** `FamilyOK` (a token hangs on its login and dies with it at the
latest) and `LiveIsCurrent`; all transactions but a login and a rotation only
revoke and share one lemma. For the refinement: an ended family has no live token
because families die whole (`LiveIsNotOver`), a revocation of whole families is
`End` (`RevocationEnds`), and a request that found a used token can still say so
in its second transaction because a used token stays used (`SpentOK`).

**AccountsProofs.** `CheckedOK` (what holds between the checks and the commit of a
PATCH, and that an administrator who demotes himself is not the last), `SeenOK`
(versions tell the states of an account apart) and `ViaOK`.

**RateLimitProofs.** A row that is not old has counted all it let through (in
`TypeOK`), and `Sound`: a transaction under way is young, its locks lie before what
is left to lock, and what it has locked still counts what it saw. From the first half of this both
`NoWaitCycle` and, for circles of any length, `WaitsClimb` follow. Lemmas on windows
of time link `now`, `Old` and the window of a clock reading.

**WorkerProofs.** `CancelTells`: nothing but a failure cancels, so whoever finds a
cancelled task, or `run()` past its gather, finds the fatal error set. The count
of `BypassBounded` is not inductive: whether one more visit of `q` may come before
the waiting `r` depends on where the cursor stands between them. `CursorInv` says
what `r` has let pass: one visit for each restart, one if the cursor has passed `q`
since it last turned (`Behind`), and one more while it meets `r` before it turns
again (`Ahead`). A visit of `q` makes it `Behind`; a turn takes `Behind` away but is
made only when nobody is `Ahead`; a crash loses the batch and the cursor, and adds a
restart. The batch is a set whose least member comes next, so this is arithmetic.

**OutsideProofs.** `Tabs`: with Web Locks refreshes take turns, for the lock is held
exactly while one is in flight; without them they do until two cross (`InTurn`,
`OneAtATime`). So, while no answer is lost and no two cross, the jar holds a used
cookie only while the answer with its successor is under way, and nobody sends it
(`CookieFresh`); and until somebody signs out, an answer is lost or the session
ends by itself, nothing under way could sign a tab out (`SessionWhole`), which is
why a failed refresh, a late broadcast or a reload does not. The constants bound
nothing in these proofs: any number of tabs, losses and sign-outs. `RaceLab`: from set-up to cleanup a
run has the database it made (`Owned`), a race that is over has left its rows
(`Shown`), and under the constraint nobody inserts beside a row, committed or not
(`Alone`). A writer is past the barrier only if the other has looked too (`Looked`),
and whoever has looked found nothing (`FoundNothing`); so what a race reports when
it ends as expected is what `SuccessIsTrue` says of it (`Told`), and no later step
of the run changes a report.

### Model-checked only

Liveness, for fairness is outside the prover: `OverdueHoldsEnd`, `WaitingEnds`,
`EventsSettle`, `RequestsEnd`, `StopEnds`, `VisitComes`, `SignOutSticks`. And the
counterexample of `sessions_recheck`.

## 7. Not modelled

* **Read side** (`resources/`, listings, metrics queries): computes views and
  changes nothing.
* **Application shell, errors, logging, feedback, templates**: no state that the
  properties are about. The mapping of exceptions to responses matters only where
  a rollback or a commit hangs on it, and there it is part of the action.
* **Descriptive fields** of resources and their versions; audit rows.
* **Verification scripts** (`src/scripts/verify.py`, `verification_cache.py`): builds
  and tests in sequence. Of the operator scripts, dry runs, approval files and
  the deletion of feedback.
* **Helper scripts.** `src/scripts/seed.py` inserts the first administrator, a state
  the models start from. `expire_hold.py` and `seed_dead_outbox.py` are fixtures of
  the tests: they write into a test database what no operation of the program would
  (a deadline moved into the past, a row marked dead), so `RowsMoveLegally` and the
  outbox properties are not about databases they have touched.
* **Client pages, forms and queries**, login in the client, and
  `createAttempt.ts` beyond the removal of the stored attempt.
* **Several resources in one `Inventory`**, several keys in one `Idempotency`,
  several users in the `Sessions` run: the transactions of one do not touch the
  rows of another.

## 8. What could follow

A run of `Outbox` with two events of which one is an offer, and with one worker
that does not mail; `Tabs` over `RefreshPromise` in one module, with several
browsers; the window arithmetic of the catalogue's availability against a reference definition.
