# remitx-api in TLA+

TLA+ specifications of remitx-api, a Node.js service for cross-border payments
of many tenants: Express handlers, BullMQ workers, PostgreSQL through knex, and
redis for queues, caches and one-time tokens. The modules model the parts of
the program where requests, workers, webhooks and restarts meet; TLC checks
them on small instances and TLAPS proves the safety properties for every value
of the constants.

Paths below are relative to the repository root. `PROJECT.json` maps every
definition to the lines it models and lists the hazards, runs, mutants and
theorems.

## The system

One Node.js process serves HTTP (`src/app.js`, `src/modules/*`) and runs the
queue workers (`src/workers/*`). Nothing holds a lock in the process: between
two `await`s any other handler or worker may run. PostgreSQL runs at READ
COMMITTED, and nearly every handler reads with a plain SELECT, decides, and
writes later, in a transaction of its own.

| Component | State | Operations | Talks to | Correct when |
|---|---|---|---|---|
| Payments (`modules/payments`) | `payments`, `payment_status_history` | submit, approve, reject, cancel | FX quotes, ledger, `payment-queue` | the maker-checker rule is kept; money leaves before dispatch; statuses end |
| Dispatch (`workers/payment.worker.js`) | jobs and attempts in redis | `processDispatch`, `handlePermanentFailure` | provider, ledger | every job ends in completed or failed; a debit is given back once |
| Webhooks (`app.js`, `workers/webhook.worker.js`) | jobs, `webhook:<provider>:<id>` keys | post, process | payments, ledger | an event takes effect once, in any order of arrival |
| Compliance (`modules/compliance`, `kycGuard`) | KYC applications, users' KYC status, payments under review | initiate, upload, approve and reject KYC, expire; clear, block payment | payments, users | only reviewed payments move; user and application agree |
| Manual operations (`modules/admin`) | payments in the manual queue | complete, fail | ledger | one outcome per payment |
| Accounts (`modules/accounts`) | `ledger_entries` | adjust, debit, credit, balance | called by all of the above | the balance is the sum of the entries |
| Scheduled payments | `scheduled_payments` | create, update, skip, cancel, execute now, cron | submit, FX, notifications | each occurrence is paid once, in order, until the end |
| Idempotency and FX quotes | redis `idem:*`, `fxquote:*` | lock, consume; cache and replay of answers | submit | one payment per key, one payment per quote |
| Sessions (`modules/auth`) | refresh tokens, invite and reset tokens, blocklist | login, refresh, logout, reset, accept invite | redis, users | a token works once |
| Roles (`modules/tenants`) | `roles`, users' role, permission cache | create, update, delete, assign, invite | auth | nobody keeps a permission that was taken away |
| Beneficiaries | beneficiaries, screening jobs | create, update, delete, screen | compliance queue | a clear beneficiary has the details that were screened |
| Provider routing (`providers/ProviderRouter.js`, `modules/admin`) | corridors, defaults, credentials, cached routes, the adapter in the process | set and remove routes and credentials, resolve | dispatch, quotes, accounts | cached routes and adapters follow the settings |
| Fees (`modules/admin`) | `fee_configs`, `global_fee_configs` | create, update, delete, resolve, compute | submit, preview | a payment gets a fee that was in force |
| Notifications, SSE (`workers/notification.worker.js`) | notification rows and jobs | process, retry; the daily balance alerts | scheduled payments, mail, SMS | each user is told, and again only after a retry |
| Reconciliation, reporting, audit | reports, `audit_logs` | daily job, exports | reads the tables | totals agree with the rows |
| Rate limiter | redis counters | count, expire | every route | the window ends |
| Tenants, branding, impersonation, configuration | single rows | administrative writes | | |

What is hard here: a status check on a row read before the transaction that
writes it; two approvals, failures or webhooks about one payment; the job that
is queued after a commit, by a call that may fail silently; at-least-once jobs
and webhooks against a SET NX key; a row lock on the newest ledger entry, which
does not stop a newer one; write-backs computed from a row read minutes ago;
GET and DEL of a one-time key as two commands; a lookup that reads one setting
after the other while they change, and caches what it found. `PROJECT.json`
lists each of these under `hazards` at its line, with the property that watches
it, or why none does.

## The modules

### Payments

`Payments.tla` is the core: the life of any number of payments across the
payments, compliance and admin services, the payment worker with its failure
handler, and the webhook worker.

- `payments`, `history` and `ledger` are the tables. `history` is a set of rows
  per payment; `ledger` keeps the sums of the debits and credits that carry the
  payment's id (the account as a whole is `Ledger.tla`). `requests` holds the
  HTTP handlers between their read and their transaction. `jobs`, `worker` and
  `failures` are the payment queue, the worker (concurrency 1) and the running
  `handlePermanentFailure` calls, which the `failed` listener starts and nobody
  waits for. `hooks`, `hookWorker` and `seen` are the webhook queue, its worker
  and the redis keys. `payouts` is what the provider has accepted.
- A handler is two steps: `BeginX` makes the read and all the checks on it,
  `CommitX` is its transaction, whose UPDATE is keyed by id only. Anything may
  happen in between. `CommitApprove` includes the debit and the `queue.add`
  after the commit, which may be lost. `AbortApprove` is INSUFFICIENT_BALANCE.
- `processDispatch` is `DispatchSkip`, `DispatchRead`, and then the manual
  branch in one step or the external one in two, with the provider's three
  answers between: an error (with `LossyProvider`, after it took the payout),
  an acceptance that is not a completion, and a completion. An acceptance asks
  for a transition that the table forbids, so the job throws: the guard of
  `ProviderAccepts` says so, and the action disappears if the table changes.
- `Crash` loses requests, active work and failure handlers; BullMQ hands out
  the stalled jobs again. It does so once per job by default, and the models
  allow one crash.
- The redis key of a webhook event lives for a day: when a provider posts the
  event again (`PostWebhook`) it may be there or gone.
- Statuses are those of `payments.stateMachine.js`. No code path puts a payment
  in `pending_manual_processing`, only `db/seeds/05_test_data.js`: `Seeded`
  says which payments may start there.

Left out: amounts other than source amount and fee, the AML verdict and the
approval rule (both nondeterministic), FX, notifications, audit rows, SSE.

### Ledger and Account

`Ledger.tla` is one account's `ledger_entries` under concurrent transactions.
The balance is not stored: it is `balance_after` of the entry with the latest
`created_at`, and `created_at` is the time the transaction *began*. `Select`
takes the entry its snapshot shows and waits when another transaction holds its
lock; `Acquire` then gets that same entry, whatever has been inserted since (an
entry is never updated, so PostgreSQL has nothing to re-check). `Commit`
inserts the next one. `Rollback` is any throw: the code sets no lock timeout,
and none is assumed. History: `total` is the true sum, and each entry knows
when it was committed (`done`) and which amounts its balance contains (`upon`).

`Account.tla` is what callers think they have: a balance that credits raise and
that debits lower when it covers them. `Ledger` implements it up to the first
entry whose transaction overlapped the one before (`Serial`, the refinement
mapping): that is the exact extent of the promise the code keeps.

### ScheduledPayments

One `scheduled_payments` row, the payments submitted for it, the
`executeScheduledPayment` calls of the cron and of execute-now requests
(`runs`), and cancel, update and skip requests between their read and their
write (`edits`). `Find`, `Create` and `Finish` are the lookup under the key
`scheduled-<id>-exec-<count + 1>`, the insert under the unique index, and the
write-back of count, date and status from the row that was read at the start.
`NextDate` is `nextExecutionDate`: a monthly date moves by the length of the
month it is in (`MonthDays`, over a calendar that repeats after `Cycle` days),
which is what `setMonth(getMonth() + 1)` does, the overflow at the end of a
month included: from January 31 it leads to March 3.
`moved` is a history variable: an update or a skip has been written. The
insufficient-balance flag and the balance alerts are in `Alerts`.

### Submission

`POST /payments` before its row exists: the cached answers of the idempotency
middleware, the validation of the body, which comes after it and whose 400 is
cached like any answer, the lookup by key, GET and DEL of the quote, the checks
(which may refuse) and the insert under the unique index. A repeat may carry
any body. Quotes and cached answers expire at any time, and a request may
`Fail` at any step with a 500, which is not cached. Two history variables name
overlaps: `overlapped`, the keys that two requests in flight have shared, and
`doubled`, the quotes that two have read before either deleted them. There
`Payments` begins: its `Submit` is one step because `Submission` shows that a
key gets one payment.

### Roles

The tables `roles`, `role_permissions` and `users.role` of one tenant, the
redis keys `perms:<user>`, and a set of handler runs, each used once (so there
is no other bound). A sign-in is `SignIn` (the user row is read), `GetCached`,
`QueryRole` and `StoreCached`; login, refresh, MFA, invitation and registration
all end that way. `Assign` and `Invite` have passed `assertRoleAssignable` and
`WriteRole` later writes; `SubClient` writes without asking. Creation, update
and deletion go through the statements they send: `LockRole` (the roles row,
when the name is written too), `Snapshot` and `Erase` (the DELETE, which waits
for rows another transaction has deleted and does not see the ones it inserts),
`Insert` (row by row in any order: it waits for a transaction that has written
or deleted the same entry of the unique index, and fails on one that is there),
`Save` (the commit) and, after it, `ListUsers` and `DropCached`. `Fail` ends a
run anywhere: the process dies, a statement or a call of redis fails, or
PostgreSQL picks the transaction to break a circle of waits, which two updates
that insert the same permissions in different orders can close. Rows and cache
entries carry the request that wrote them, which only history needs. The
history variables say what has overlapped (`saved`, `mixed`, `overtaken`,
`loose`) and which entries a run that failed would have deleted (`undropped`).

### Sessions

The users, the refresh tokens and the one-time links (`pwreset:*`, `invite:*`)
of one tenant, and handler runs with their reads and writes apart. A run of
`Refresh` finds its token, `DeleteToken` deletes it and `Issue` inserts the
next; `UseLink` reads a link, `WriteReset` or `WriteAccept` writes the password,
and `DropLink` deletes the link last. Tokens and links are named by the run
that issued them, and a *session* is the chain of refresh tokens from one
sign-in: no code knows it, but it is what rotation and logout are about. Access
tokens matter as permission to call `logout` and `changePassword`; the MFA
challenge is a set of temporary tokens. `CreateTenant` stores its invitation
before its transaction commits, so the user may be `void` when the link is used.
The history variables name the overlaps: `overtaken`, `forked`, `loose`,
`raced`. Password hashing and time-based codes are left out: a caller has the
right ones or is refused before anything changes.

### Clearance

What a submission must pass, for one user and one beneficiary: the KYC
application and the user's status with the expiry that `kycGuard` writes
(`Lapse` is the passing of two years), the documents, whose list an upload
reads, extends and writes back, the screening job and the beneficiary it
clears, and the AML checks with the sum of the last 24 hours. `InitialStatus`
takes the three AML rules and the seeded approval rules from the code, with
amounts in thousandths. `RunAmlChecks` reads the sum and `InsertPayment` writes
the payment, with a transaction of its own between. The rows and the properties
are in `ClearanceRows.tla`. In `Payments` all of this
is one nondeterministic answer.

### Routing

The seven settings one lookup reads, in its order (corridors of the tenant for
the pair, the source and all; the default; the same three of the platform), the
routes cached in redis and the adapter in the process. `Query` reads one
setting per step. The six kinds of change drop all cached routes (`ListRoutes`,
`DropRoutes`), two of them (`AddCorridor`, which deletes the keys `DroppedBy`
computes as the code spells them, "null" and "any" included), or none. `Route`
(in `Routes.tla`, with the settings and the properties) is what a lookup would
find if nothing came between. `Fail` ends a request when a statement or a call
of redis throws, and `Crash` all of them. `stale` and `behind` are history: the
routes a change leaves out of date, and the adapters built from credentials
that have changed.

### Fees

The rules for one corridor, category and tenant: the tenant's for the pair, the
source and all, then the platform's. `Read` is one query of `resolveFeeConfig`;
`Create`, `Update` and `Delete` are the administrator's, with the checks of the
schema and the controller and `Updated` as the merge the update does, absent
fields included. A lookup keeps, as history, the fees in force since it began.
`ComputeFee` is the arithmetic, in hundredths; rounding to eight decimals is
left out, and is monotone.

### Notices and Alerts

`Notices` is the notification queue and its worker: a job resolves its targets
when a run begins, tells them one by one, and starts over after an error or a
crash. `Alerts` extends it with the daily sweep `checkUpcomingBalanceAlerts` on
one schedule and everything else that writes the two columns it works with:
executions (`Execute`, `Paid`), `Skip`, `Update` and `Cancel`, each from the
row it read. The clock `now` ticks `Day` times a day, and `DaysUntil` counts
started days from the very moment of `Check`, as `Math.ceil` of the hours does:
the count falls at the schedule's own time of day, not at midnight. A sweep may
begin at any time, late, early or again after a crash, one at a time. `Mark`
writes the countdown before `Queue` adds the job, which may fail; `GiveUp` is a
statement that fails, after which the job goes on. `alerts`, `lost`, `noted`,
`moved` and `silent` are history; an alert is known by its date and the days it
counts, which is all that the row remembers of it. Mails, texts, pushed events
and tenants' webhooks, whose errors the worker swallows, are left out.

## The runs

Deadlock is not checked where the modelled system may stop: a payment may be
finished and the bounds used up. `Submission` never stops.

| Run | Instance | Shows |
|---|---|---|
| `race` | one payment, maybe seeded; maker, checker, super_admin who also submits; 2 requests in flight; one failed-webhook; 2 dispatch and 2 webhook attempts; 1 crash | `DispatchedWasDebited`, `FourEyes`, `ReversedAtMostOnce`, `TerminalIsFinalWhenQuiet` |
| `books` | two payments, 1 request in flight, 3 attempts, lossy provider, 1 crash, fair workers | `SettledBooks`, `DispatchSettles` |
| `ledger_overlap` | 3 transactions, 6 begins and commits | exactness without overlap, `ExtendsWhatIsShown`, which entries an overlap can hide, refinement of `Account` |
| `scheduled_overlap` | the cron and one user, all edits, 2 start dates, months of two lengths, 1 crash, fair cron | once per key and occurrence, order, counts, stopping, service |
| `submission_race` | 3 requests, 2 keys, 2 quotes, invalid bodies, 1 crash | one payment per key and per quote, no wrong cached refusal |
| `roles_race` | 3 handler runs of any kind that may fail anywhere, 2 users, a system role, a custom one and one for sub-clients, 2 permissions | roles in use stay, stored sets and cached permissions are current |
| `sessions_race` | 3 handler runs of any kind, 2 users, 2 passwords, an old token and link, restarts | sessions end, one token per session, a link writes once, a reset is new |
| `clearance_gate` | 4 handler runs on one user and one beneficiary, 2 amounts, lapses, lost jobs, restarts | user and application agree, documents stay, screening follows edits, the daily limit |
| `routing_cache` | 3 runs, 1 currency beside "any", 2 providers, failing calls, restarts | cached routes and adapters are current |
| `fees_waterfall` | 4 runs, all six rules, restarts | the fee was in force; rules have their fee |
| `alerts_sweep` | 3 runs of any kind over 4 half days, 2 users, 1 attempt at a notification, 1 crash | silence only after an alert, one alert per countdown, everybody is told |
| `x_reversal` | one request, failing provider | the fee is not given back |

`x_reversal` checks the comment "reverse the debit" of the failure handler and
ends in a counterexample; `findings` quotes it and says what happens. The type
invariants of all components are proved (below) and only some are checked again
in the runs.

Why these bounds: a race needs two actors and one row, so two requests, the
worker, the failure handler and a webhook meet on one payment; a third request
only repeats one of the two. Two checkers and a maker who may be super_admin
are all the cases `MayCheck` and `IsNewChecker` tell apart; the dual rule needs
two approvals and no third. Attempts are 2 where every race of their failure
handlers is wanted, which the last attempt and its predecessor give, and 3 (the
code's value) in `books`. One crash at any point covers a restart before and
after each step; a second would repeat the first from a state that is reachable
without it. Lost ledger entries need two overlapping transactions and a third
to see that later ones build on what is shown; that takes six begins and
commits. One amount is enough there, since the runs compare sums of signed
entries and the proofs cover any amounts. A stale write-back of a schedule
needs two calls that overlap and a date to come back to; a calendar of three
days, a month of two and one of one, is the smallest in which a month is passed
over. In `roles_race` three runs are a change, the sign-in it overtakes and the
one that meets what is left; two users tell the holder of a role from the one
it is given to. Roles start with one of two permissions and are saved with none
or both, so that a row which should be gone shows, and two requests that insert
both can wait for each other in a circle. In `sessions_race` three runs are the
sign-in that opens a session, the refresh that extends it and the reset or
logout that ends it; with one remembered password, two are enough for one to
come back. In `clearance_gate` the two amounts are one of which two keep within
the daily limit of 50,000 and three do not, and one that is flagged alone; four
runs give the third payment, and two uploads around a decision. In
`routing_cache` one currency and "any" give all four shapes a key has, and a
third provider would be resolved like "manual"; three runs are a lookup between
two changes. Four runs in `fees_waterfall` are a lookup and the two changes
that can deceive it, after one that made the rules. In `alerts_sweep` a window
of two days has a first and a last day of the countdown; a day of two ticks has
a time of day before and one after the schedule's own, so that two sweeps of
one day may count different numbers and two of different days the same; four
ticks see the whole countdown, and three runs are two sweeps with anything
between them; a notification job is attempted once and repeated by a crash, and
`AlertsProofs` covers any number of attempts.

Fairness is assumed only in `books` and `scheduled_overlap`: the payment worker
and its listeners go on (BullMQ keeps fetching, a started handler finishes);
the cron comes every minute and not all of its attempts fail (strong fairness
of `Find` and `Create`, which an empty account may disable again and again).
Callers, providers and crashes owe nothing. The other modules state no
liveness: nothing in the code bounds how long a transaction waits for a lock or
a handler for its database, and a fairness that ends every wait would be an
assumption about PostgreSQL and no result about this program. `DispatchSettles`
speaks of the time after the last crash.

Each passing property also has a mutant: a definition replaced by a wrong
variant of it, defined just above it and used nowhere else, under which the
property breaks.

## The proofs

TLAPS proves every safety property that a passing run checks, invariants and
action properties alike, for every value of the constants under the named
assumptions of the modules; of `SettledBooks` it proves the part for one
payment (`BooksAgreeWithStatus`). The proofs are in eight modules. Two of them
hold the theorems of two components each: `SubmissionClearanceProofs` extends
`Submission` and takes `Clearance` as an instance `C`, `FeesRoutingProofs`
extends `Fees` and takes `Routing` as an instance `R`. An instance brings no
assumption with it, so what `Clearance` or `Routing` assumes of its constants
is a hypothesis of each of those theorems. The rows and properties of these two
are in modules of their own, `ClearanceRows` and `Routes`, so that the theorems
state the same definitions as the runs; `Runs` (numbered handler runs) and
`Null` (`None`) are what the components that share a module have in common.

**`PaymentsProofs`.** `TypeCorrect`; `DispatchedIsPaidFor`: nothing is queued,
paid out or completed by the worker that was not debited; `TwoPairsOfEyes`:
money leaves only after the approvals the rule asks for. The first invariant is
not inductive: the job the worker holds may be out of the queue when its
outcome is written (`DispatchInv`). The second needs `ApprovalInv`: approvals
recorded or in flight are independent of the maker, the checker a row names has
a recorded first approval while the row can still be approved, and a final
approval in flight under the dual rule is by somebody else. It survives stale
reads because history rows are never removed and the maker and rule of a row
never change. `TerminalStatusesAreFinal` needs no invariant but the types: a
payment that is terminal and quiet passes no status check, so no new operation
reads it, and whatever commits belongs to another payment.
`DebitsAreGivenBackOnce` counts: each debit is due to one job or one failure
handler at most (`OneOwner`), and a payment has as many debits as credits and
debits due, or more (`Balanced`), until an operator or a webhook credits it.

`BooksAgreeWithStatus` proves, payment by payment, what `SettledBooks` says of
all (`SettledOn`): for any payment on which two requests are never in flight
together (`Alone`), whatever is in flight on others, with any attempts, lost
enqueues, webhook events and crashes. Its invariant `BooksInv` says of a
payment that no webhook has touched what it owes to whatever is in flight: the
books its status allows (`BooksFor`; a payment in `processing` may be debited
or not, since compliance clears one without a debit), one job or one failure
handler that has a debited payment to itself, and a request that acts on a
payment still in review. It has two hypotheses, and neither is a promise of the
code: nothing keeps two requests off one payment. Without them it is false:
with two requests in flight a cancellation that read the row before an approval
writes `cancelled` over `processing`, and the payment is debited; and a seeded
payment in the manual queue (`Seeded`) was never debited, and an operator
completes it.

**`LedgerProofs`.** Commit times grow along the ledger and begin times lie
before them (`Times`); whoever began after all committed entries has selected
the entry that is still the latest (`SeesLatest`). Hence
`ExactUnlessOverlapping`, `ExtendsTheBalanceShown` and the refinement
`AccountUpToTheFirstOverlap`. `LossesAreOvertaken` has no hypothesis about
overlaps: whoever holds its entry has selected one no older than any that was
committed before it began (`SelectsNoOlder`), and so an entry rests on every
other that began before it and that nobody began during (`RestsOn`). That a
ledger has a latest entry and a longest serial part rests on the
well-foundedness of the naturals (`GreatestExists`).

**`ScheduledPaymentsProofs`.** Whoever is about to write count + 1 has found or
made that payment (`Backed`): `CountsWhatIsPaid` and the first half of
`NoOccurrenceTwice`. A 'once' schedule that is active has counted nothing, so
all executions use slot 1 (`OnceIsFirst`): `OnceIsPaidOnce`. Until an update or
a skip, the active row, the rows in use and the payments form one chain, in
which each date is `NextDate` of the one before, whatever the lengths of the
months (`InChain`): `NoOccurrenceTwice` and `DatesFollowOn`. That the chain
itself passes over a month without the day is the code's rule, and part of the
statement. `StoppedForGood` is the action property of stopped schedules.

**`SubmissionClearanceProofs`, Submission.** A key has no second payment
because the insert meets the unique index, and the quote of a payment is gone
because a run past the deletion of its quote has spent it, and a quote that is
gone stays gone (`Spent`); two payments, or a payment and a call past its GET,
have one quote only if it was read twice before it was deleted (`Rivals`):
`KeysPayOnce`. Under a key that no two calls have shared (`Shared`), a call
that found no payment is right, since nobody else can have made one, and an
answer is cached only when no call is left (`Alone`): `CachedErrorsAreTrue`. It
is about refusals by `submitPayment`; the 400 for an invalid body is cached
over a key that has paid (below).

**`SubmissionClearanceProofs`, Clearance.** A run about to write a row knows
that the row is there (`Rows`). `UserAndApplicationAgree`: besides the
property, a guard about to write `expired` found a user who was approved and
whose approval had lapsed, or a decision has been crossed (`Story`).
`AcknowledgedDocumentsStay`: an upload about to write has read every
acknowledged document, but for those another upload was about to write over
(`DocumentsRead`). `ScreeningIsFollowed` is inductive as it stands.
`DailyLimitHolds`: a submission that nothing has overtaken has found a total no
lower than the present one, since between its sum and its insert payments only
leave (`TotalsHeld`), and `Flagged` counts the new amount in. That needs the
sum of a finite set to be the sum of the rest and the amount taken away,
whichever it is, although the fold behind `Total` picks its elements by CHOOSE
(`SumOfRest`). The proof takes a smallest set for which this fails, which
exists because strict inclusion of finite sets is well-founded, and so needs no
induction rule.

**`RolesProofs`.** Two requests about a role of which one deletes it mark it
`loose` when the later one begins; so a check that passed on a role that is not
loose still holds at the write (`Guarded`): `RolesInUseStay`. A transaction
that rewrites rows nobody else rewrites has seen all of them (`Exclusive`):
`LastSaveWins`. What a sign-in has read is what the user's role grants, or a
change has overtaken it (`Fresh`), and each change either drops the key or
concerns a loose role, or its run fails first and leaves the entry in
`undropped`: `StaleCacheIsExplained`. The invariants follow what a run does
through one lemma on the steps of an operation (`Going`) and one on what a step
leaves alone (`Frame`).

**`SessionsProofs`.** A session belongs to one user and begins with its run;
beside a run that extends it, it has only the token that run is about to delete
(`Chains`): `EndedSessionsStayEnded`, `RotationKeepsOneToken`. A link whose
password was written is held by the run that will drop it, or is loose
(`Leads`): `LinksWriteOnce`. A reset in front of its write has compared its
password with those of now, or is raced (`Checked`): `ResetsAreNew`. Most steps
do one of a few things to a run, and a frame lemma for each of the three
invariants covers them.

**`FeesRoutingProofs`, Fees.** `FeeWithinBounds` and `FeeGrows` are about the
arithmetic alone: a percentage keeps its bounds, and a larger amount never costs
less. `FeesValued`: a rule without its fee has inherited before (`Unpriced`).
`FeeInForce` rests on `OnTrack`: a lookup nothing has overtaken has only passed
rules that do not apply, and after one change, either that still holds or what
it will find has been in force; the most specific rule that applies is a least
element, for which the six places are compared.

**`FeesRoutingProofs`, Routing.** `RoutesFollowSettings`: a lookup of a route
that is neither stale nor about to be dropped has passed only settings that are
not set, and what it is about to store is the route (`RoutesOnTrack`). A change
makes every route it alters stale or is about to drop it, and takes every
lookup under way with it, so the lookups left on track read what they would
have read at once. `AdapterFollowsCredentials`: a lookup about to keep its
adapter has read the credentials saved last, or it is `behind`
(`ReadsCurrent`).

**`AlertsProofs`.** `JobsTellTheirTargets`: the run under way has told its
targets but those left, and nobody is told of a job that was not taken
(`JobInv`). `SilentOnlyAfterAlert`: a countdown in the row that nothing has
moved is one whose alert is queued, lost, or about to be queued (`Noted`), and
a sweep that read it before still has that alert (`Seen`).
`OneAlertForACountdown`: the row holds the countdown of an alert nobody has
written over since, or the days left are fewer by now (`Latest`); for the count
of a date only falls as time passes (`Shrinking`), so a sweep that counts the
same number finds it noted. Both need that only one sweep runs at a time
(`OneSweep`, `Counting`), and neither that it runs at any hour.

Only model-checked: the two properties that need fairness (`DispatchSettles`,
`DueIsServed`), which this prover cannot do, and `SettledBooks` as it stands,
of which the theorem covers one payment at a time. The finding of `x_reversal`
is a counterexample and stays with TLC.

Many properties name an overlap and say that nothing else can go wrong
(`overtaken`, `mixed`, `loose`, `forked`, `stale` and the like). In each of
these the code does go wrong when the overlap happens: there is no lock or
condition in it that would make the plain statement true. `hazards` in
`PROJECT.json` says so at each line, and the next section but one lists what
follows.

## Assumptions

- A database statement fails only where an action says so: at every step in
  `Roles`, `Submission`, `Routing` and `Ledger` (`Rollback`), at the named ones
  elsewhere.
- A webhook's payment id is that of a payment that exists; signatures are not
  modelled.
- Provider events are delivered at least once and in any order; `PostWebhook`
  may repeat an event at any time.
- Begin times of transactions are distinct (PostgreSQL's clock has
  microseconds).
- Amounts are integers: the code uses Big.js with eight decimals and no rounding
  on these paths.
- Two deletions of redis keys in a row, as in `addSingleCorridorConfig`, are one
  step; the API and the workers share one process, hence one adapter.
- One sweep runs at a time, since the queue's worker has concurrency 1.
- Months have the lengths `MonthDays` says and repeat after `Cycle` days;
  clocks do not change between summer and winter.

## What the code does and no run shows

Payments:

- A payment whose `queue.add` was lost, or whose failure handler died, stays in
  `processing`: nothing looks for it.
- Two requests that read the same row can take a status change the table
  forbids, such as `cancelled` over `processing`: the check is on the row read,
  the UPDATE by id (`payments.service.js:263`).
- Compliance clearing moves a payment to `processing` without debit and without
  a job, and a failed-webhook then credits it.
- A failed-webhook and the permanent-failure handler can both credit one
  payment. A payment in the manual queue can be cancelled without a credit.
- A webhook whose first attempt threw is skipped as done when it is retried: the
  SET NX key is already there (`webhook.worker.js:14`).
- A payout that is accepted without being completed asks for a forbidden
  transition, so its reference is never stored (`payment.worker.js:68`).
- Dispatch locks a fresh quote and routes anew, so the quote stored with the
  payment is not used and the provider may differ from its `provider_name`.
- A quote is read with GET and deleted with DEL: two requests under different
  keys can both use it, although `payments.service.js` calls it one-time.
- A repeated request that overlaps the first one is refused for the missing
  quote, and that refusal is cached over the first request's answer: the
  `overlapped` of `CachedErrorMeansUnpaid`. Any refusal is cached for a day.
- The body is validated behind the idempotency middleware and before the lookup
  by key: a repeat with an invalid body, once the first answer has expired or
  was never sent, is answered 400, and that 400 then hides the payment for a
  day.
- Overlapping ledger transactions can drop an entry from the balance: the
  earlier begun of two that overlap (`OnlyOvertakenAreLost`).

Schedules and alerts:

- A monthly schedule on the 29th, 30th or 31st passes over a month that has no
  such day, and goes on from the day it landed on
  (`scheduledPayments.service.js:16`).
- The countdown of the alerts is the ceiling of a time, not a difference of
  dates. A sweep late on one day and one on time the next can count the same
  number for a schedule in between: the second is then silent, although the
  comment says "already sent this exact countdown alert today" (line 192). A
  sweep repeated later on the same day, past the schedule's time of day, counts
  one less and alerts again. What holds is stated by countdown
  (`SilentAfterAlert`, `OneAlertPerCountdown`).
- A skip between the read and the write-back of an execution is undone, and the
  occurrence is paid again under the next key: the `moved` of
  `OncePerOccurrence`.
- The end date is compared with the clock after the payment, so one payment can
  fall after it (`scheduledPayments.service.js:161`).
- An update that moves the date by a day can make the next day's alert look
  sent: the `moved` of `SilentAfterAlert`. An alert lost after its note is not
  tried again.
- `deliverWebhook` swallows its errors, although a comment says that BullMQ
  retries; `payment.first_approval` is not among the worker's events and is
  skipped; `payment.completed` and `payment.failed` are never queued.

Users:

- `createSubClient` writes `subclient_admin` or `subclient_user` without
  `assertRoleAssignable`; registration seeds neither, so the user has a role
  that does not exist and no permissions until somebody creates it
  (`SubClient`, the `loose` of `HoldersHaveARole`).
- Two updates of one role that both leave its name alone can store the union of
  their permissions (the `mixed` of `SavedSetHolds`).
- A role change whose request fails or dies between its commit and the deletion
  of the keys `perms:<user>` leaves the old permissions cached for up to five
  minutes (the `undropped` of `CacheIsCurrent`).
- Two updates of one role can wait for each other's entries of the unique
  index, since each inserts its permissions in the order of its request;
  PostgreSQL rolls one back.
- Permissions travel in the access token, so a changed role does not reach
  requests until the next sign-in or refresh, whatever
  `tenants.service.js` says about "the next request".
- An invitation stored by a tenant creation that rolls back stays in redis; its
  use fails on a foreign key.
- After two years `kycGuard` tells the user to verify again, but the application
  stays approved, and initiate, upload and approve refuse an approved
  application.

Settings:

- A change whose call to redis fails after its commit answers 500 and leaves
  the cached routes it should have dropped (`Fail` of `Routing`).
- Changes of "any" corridors, batches and the platform's corridors leave cached
  routes for up to five minutes; quotes are cached under `null:any`, which the
  change of the any-to-any corridor does not delete. A lookup that two changes
  overtake can cache a route that no settings ever gave. These are the `stale`
  of `RouteIsCurrent`.
- The order of settings in the comment of `ProviderRouter.js` leaves out the
  tenant's default.
- A fee rule that stops inheriting without being given a fee is accepted by the
  update, although the controller's message asks for type and value: a flat one
  then gives the string "null" (the `inherited` of `FeesHaveValues`). Nothing
  compares a minimum with a maximum; the maximum wins.

Elsewhere:

- Reconciliation takes its date from the clock when the job runs, so a job
  delayed past midnight skips a day; a tenant's failure is only logged, and its
  day is not done again.
- `src/server.js` ends in a long obfuscated statement after its last export. It
  was not run and is not modelled.

## Not modelled

Reconciliation, reporting, formatters, the rate limiter, audit rows, logging and
configuration: reads, layout, or writes with nothing that reacts to them.
Themes, feature flags, impersonation and other tenant settings are single-row
writes. Of the adapters only the answers that matter to dispatch are modelled,
not their HTTP. FX rates and spreads, hashing, signatures and codes are taken as
given.

Inside the modelled parts: in `Clearance`, seeded users who are approved
without an application, and payments that a stale write brings back into the
sum of the last 24 hours; in `Clearance`, too, the write of a beneficiary and
its screening job are one step, which may lose the job; in `Notices`, a target
that is no longer there, since nothing deletes users.

## The plan

The first part of the plan is done: 1 Payments, 2 Ledger and Account,
3 ScheduledPayments, 4 Submission, 5 Roles, 6 Sessions, 7 Clearance, 8 Routing
and Fees, 9 Notices and Alerts.

Proved: every safety property of the passing runs, `SettledBooks` payment by
payment as above, with the type invariant of each component.

Left: `Account`-like abstract specifications for sessions and roles, of which
`Sessions` and `Roles` would be shown to be implementations; the remaining
hazards without a property, each of which has its reason in `PROJECT.json`.
