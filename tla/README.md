# Finty: TLA+ specifications

Finty is a personal finance application: a Django monolith (`identity`, `core`,
the templates), five Flask services and an Nginx gateway, each service with its
own PostgreSQL database, and one Redis for the event stream, the caches and the
Celery broker. This directory models the parts of it whose correctness depends
on what runs at the same time, what crashes and what arrives twice.

Two readings. The path of an event: `ReadModel.tla` first (56 lines, the promise),
then `EventDelivery.tla` (how it is kept), `FinanceLedger.tla` (who produces the
events), `FinancePipeline.tla` (both together). The rest is one module per part,
each readable on its own; section 2 lists them. `MC*.tla` and `*.cfg` are
instances for TLC. `*Proofs.tla` hold theorems and their proofs, with the lemmas
about sums in `SumsOverSets.tla`; section 6 says what they prove and how.

## 1. The system

| Component | State | Operations | Interacts with |
| --- | --- | --- | --- |
| finance-service: accounts, transactions | `finance_account` (opening balance, balance, archived), `finance_transaction`, `outbox_event` | create, rename, archive, delete, recompute an account; register, recategorise, delete a transaction; audits; outbox backfill | categorization-service over HTTP; the relay through `outbox_event` |
| finance-outbox-relay | `published_at` of the outbox rows | `publish_pending`: select with `SKIP LOCKED`, `XADD`, mark | PostgreSQL, Redis stream `finty.finance.events` |
| analytics-service: worker | group cursor and pending list in Redis; `processed_event`, `transaction_fact` | recover, read new, project, acknowledge | Redis stream; its database |
| analytics-service: API | a cache of entitlements in Redis | dashboard, insights, patterns, public summary over `transaction_fact`; what each plan may see | subscription-service |
| analytics-service: reports | `monthly_report` (PENDING, READY, FAILED) | request, generate, requeue, purge | Celery |
| subscription-service | `subscription`, `payment` | checkout, confirm, cancel, expire, entitlement | payment gateway (port) |
| subscription-service: notifications | `sent_notification` | welcome, missing welcomes, expiry notice | Celery, identity over HTTP, mail |
| recommendation-service | `risk_profile`, `investment_plan`, cached exchange rates | rate with fallbacks, risk profile, recommendations, plans | TRM API, Redis, analytics-service, entitlements |
| categorization-service | none | classify a description | LLM or rules |
| identity / core | users, profiles, tokens | register, authenticate, profile, verify token | gateway (`auth_request`) |
| gateway | none | ask identity, overwrite `X-User-Id`, route | all services |
| frontend | what a page holds | the pages; the movements page has overlapping requests | the gateway |

Where the difficulty is:

* **Concurrency.** Three gunicorn workers per service, READ COMMITTED
  transactions, row locks taken by some operations and not by others, one
  SQLAlchemy session (and identity map) per request.
* **Partial failure.** The relay and the worker each cross two systems without a
  common transaction; checkout calls a gateway between two transactions.
* **Duplicates and order.** Delivery is at least once; identities are allocated
  before the commit, and `occurred_at` is taken before it.
* **Read, ask, act.** Requests read a row, ask somebody else and write what
  follows from the old reading: profiles, rates, entitlements, audits, backfills.
* **Windows.** Each query loads some months, each rule looks back over its own,
  and the free plan cuts both.
* **Time.** A paid period ends by the clock while a row says it is ACTIVE; tasks
  of beat race requests for the same rows.

What makes each component correct: the balance is the opening balance plus the
movements (INV-07) and is negative only where that is allowed (INV-14); no
movement without account (INV-02, INV-13); an event exactly when its change is
committed (ADR-15); no event lost, each taking effect once, the read model
independent of the order of arrival; one current subscription per user, access
only against an approved payment (INV-05), no second charge, no access taken
away early, no finished period left open; a notice at most once per period and never
forgotten; a requested report ends, and a delivered file does not change; premium
content only inside a paid period (INV-06); figures that agree whichever endpoint
adds them up; advice that follows from all the facts; categories of the catalogue
whatever the categorizer answers (INV-08, A-22); a plan that keeps its projection.

## 2. Modules

### ReadModel
The abstract specification of analytics-service's copy of the transactions. It
has three variables: the committed events (`log`), the ids of those applied
(`applied`) and what is shown of each transaction (`shown`). `Commit` adds an
event under a new identity; `Apply` applies one that was not applied yet, in any
order, and shows a value of `Views`: deleted if any applied event is a deletion,
otherwise the category of a newest applied event. There is no outbox, stream,
crash or duplicate.

### EventDelivery
The real path of an event. `Record` is the environment: any event of the constant
`Events` under an identity not used yet.

| Action | Code |
| --- | --- |
| `SelectPending`, `Publish`, `MarkPublished` | one turn of `OutboxRelay.publish_pending`; `held[r]` is the row its open transaction has locked, `sent[r]` says whether `XADD` was applied |
| `RelayFails` | the process dies, Redis does not answer or the commit fails, before or after `XADD`; the lock is released and the row is still pending |
| `Recover` | `XAUTOCLAIM` with idle time 0: everything the group has pending, also what another live worker is handling |
| `ReadNew` | `XREADGROUP >` with a `COUNT`; advances the group's cursor and adds to its pending list |
| `Project` | `EventProjector.project`: `processed_event` and `transaction_fact` in one transaction; `Applied` is `_apply` |
| `Ack`, `Discard` | `XACK` after the commit; a message outside the contract is acknowledged unprojected |
| `WorkerFails` | an exception or a death anywhere; what was read stays pending, and the worker claims again |

A row of `transaction_fact` keeps a category, `deleted_at` and `last_event_at`. The
other columns of the snapshot never change after the registration, so `Added`
and `Categorized` write the same thing and `Applied` treats them alike. The
stream is durable and never trimmed, as configured, except for the last second
before a crash of Redis itself (`appendfsync everysec`), which the documents
accept and the model leaves out.

### FinanceLedger
Requests of finance-service over PostgreSQL. `job[s]` is the request a database
session is serving: what it read, what it will write, its event. Every step at
which another session can get in between is an action: reading without a lock,
acquiring `FOR UPDATE`, the flush that takes the identity of the event, the
commit. `Rollback` may end a request at any of them. `type` and `amount` are one
signed integer. Validation of drafts happens before the first write and is left
out, except the rules that read shared state: the archived flag and the
admissible balance.

* `Register`: `Acquire` reads the account fresh, since a session serves one
  request and has not seen the account before.
* `ReadToDelete` / `LockToDelete`: the transaction and its account are loaded
  first and the lock is taken later. `FOR UPDATE` waits, but does not refresh an
  object that is already in the identity map; the model keeps the balance of the
  first read, as the code does.
* `ReadToRecategorize`: no lock. `ChangesRow` says whether the ORM emits an UPDATE
  at all, which decides whether the request waits for other writers of the row.
  An UPDATE of a row that is gone fails, a DELETE of one only warns.
* `drift` is a history variable: whether some deletion committed on stale data,
  and whether a recomputation repaired the account since.

### FinancePipeline
`FinanceLedger` as producer and `ReadModel` (instantiated as `Replica`) as
consumer, since EventDelivery is proved to implement ReadModel. `contested`
remembers the transactions two requests were recategorising at the same time.

### Subscription
Checkout is two transactions with a gateway call in between: `CheckoutOpen`
(expire finished rows, lock, the early returns), `CheckoutCommit` or
`CheckoutConflicts` (the partial unique index), `Submit`, `Confirm`. `CancelOpen`
takes the request's instant, `CancelCommit` acts on it after any wait; `Confirm`
likewise starts the period at an instant read before the wait.
`ExpireAll` is the periodic task. `Crash` ends a request at any point; nobody
resumes it. The gateway is external: the port may answer approved, declined,
error or pending, and an exception becomes an error, whether or not the gateway
had collected (a timeout); the mock in the repository only approves. `charged`
records the payments the gateway collected, whether or not the program learnt of
it: every one it approves, none it declines, and any of those that end as an
error, stay pending or lose their answer to a death.

### PaidPeriods, SubscriptionRows
What Subscription promises, seen from two sides, each an abstract specification
without requests, locks, payments or crashes. `PaidPeriods` is what the services
that ask for entitlements may rely on: the periods a user has paid, which never
overlap and are never taken back. `SubscriptionRows` is what the tasks see of the
table: rows are activated, canceled and expired, all of those that are over or
some. In both, a step that commits may act on an instant before the commit.
Subscription is proved to implement both (`KeepsItsPromises`): `paid[u]` is
`PaidBy(u)`, the periods of the rows of u that were activated, and a row that is
not inserted yet is seen as one that waits for its payment (`SeenRow`). PremiumAccess
extends the first and Notifications uses the steps of the second, so what is shown
of them is shown of any behaviour of Subscription.

### Celery, Notifications, Reports
`Celery` is the worker container both services share: a message is acknowledged at
the end of its task, so a death gives it back (`WorkerDies`); an exception is
retried or, after the last retry, loses it (`TaskFails`); `BeatSends` repeats a
periodic task whether or not the last one is over.

`Notifications` is one database transaction per notice: `ClaimNotice` inserts the
row of `sent_notification` (waiting for another open insertion of it), `SendMail`
asks identity for the contact and sends, `CommitNotice` ends. `emails` counts what
the mail server was given, `undone` the transactions reverted after that.
`Activate`, `Cancel` and `ExpireSubscriptions` are steps of SubscriptionRows with what
they do to the queue.

`Reports`: `RequestReport` commits PENDING and then enqueues, or does not;
`GenerateReport` takes the row under `SKIP LOCKED` and only if it is PENDING;
`SelectStale` and `EnqueueStale` are `requeue_stale`; `PurgeExpired` deletes.

### PremiumAccess
A request looks in the cache (`Arrive`), asks subscription-service (`Consult`),
caches a positive answer no longer than its period (`WriteCache`), decides by its
own clock (`Decide`); time may pass between any two. `Outcome` gives the answer of
each kind of route. `paid` and the clock are those of PaidPeriods; `Entitlement` is
what subscription-service answers of them, which is proved to be what it computes
from its rows (`EntitlementsAgree`). `had` is a history variable of a request: what
its user was entitled to when it arrived.

### ExchangeRates
`AskRate` takes today's date and reads the cache of that day; `CallApi` may fail;
`StoreRate` stores under the date that was taken first; `DegradeRate` falls back to
the last known rate and then to the fixed one. Midnight may come in between.

### SpendingFigures, Investment, Advice, RiskProfiles
`SpendingFigures` has the dashboard, the insights, the patterns, the report and
the public summary as operators over a set of facts, with the decimals and the
rounding of the code (`HalfUp`, `HalfEven`), and the query of each (`Load` of the
months it asks for). A run moves through every subset of `Candidates`.
`Investment` has the questionnaire, the score, the instruments and the
projection (a rate is `MonthlyRate` over `RateScale`, so that it may be any rational
number); `Advice` composes both into the recommendations: `Snapshot` asks
SpendingFigures as an internal caller, `Surpluses` takes the complete months,
`Converted` multiplies by the rate (`PesosPerDollar` over `RateParts`, so that it may
have decimals) or by its rounded inverse and rounds the product to cents.
`RiskProfiles` has the requests: `BeginSave` reads the row, `EndSave` writes only
the columns that differ from what was read, `BeginPlan` and `EndPlan` likewise.

### Amounts, Categorization, Registration
`Amounts` is what the field, `Money` and the column do to an amount, in thousandths.
`Categorization` has the rules, the mock and the AI client of categorization-service
and the client of it in finance-service, which checks every answer against the
catalogue and falls back to its own rules. `Registration` is the state they act
on: accounts and transactions as validation and the constraints allow them.
What concurrent requests do to the same rows is FinanceLedger.

### Maintenance
The commands that run beside the users: `audit_balances` in its two statements,
`--fix`, and `outbox-backfill`, which records an event with a picture that was
read earlier. Requests of users are single committed steps here, which the commands
interleave with. What two requests do to one another is FinanceLedger; of that,
only the balance a stale deletion leaves wrong is kept (`CommitErase`), since it is
what the audit is for. `RM` instantiates ReadModel, to say what analytics-service
will make of the events.

### Identity
`register_user` and `complete_profile` are two steps each, since the read and the
write are separate statements. `Verify` is the endpoint the gateway asks,
`Forwarded` the header it sends on, `Identified` what a service makes of it.

### MovementsPage
The script of the movements page: filters, search timer, pager, requests that
overlap and answers that arrive late or fail, with `Paginate` of finance-service.
`requests` marks the latest one, as `listRequest` does.

## 3. Runs

| Run | Question | Instance | Distinct states |
| --- | --- | --- | --- |
| `delivery` | is every event projected, once, in any order; refinement of ReadModel | 2 relays, 2 workers, 2 events of 1 transaction out of 4, 2 faults | 379 301 |
| `ledger` | what do the locks guarantee | 3 sessions, 1 account, 2 transactions, 4 events | 710 281 |
| `ledger_inv07` | INV-07 as documented | the same | violated |
| `pipeline` | do ledger and read model agree | 2 sessions, 1 transaction, 2 categories, 4 events | 327 579 |
| `pipeline_convergence` | ... without exception | the same | violated |
| `subscription` | safety of checkout, confirmation, cancellation, expiry; refinement of PaidPeriods and SubscriptionRows; do finished subscriptions expire | 1 user, 2 sessions, 3 rows, 3 payments, 4 ticks, period 2 | 193 053 |
| `subscription_reconciled` | are pending payments resolved | the same, gateway approves | violated |
| `notifications` | does each notice go out, once | 2 workers, 2 subscriptions, one fault | 231 808 |
| `requests` | reports, access, rates, maintenance, movements page | see below | 205 041 |
| `units` | figures, advice, plans, registrations, identity | see below | 19 651 |
| `free_window` | the free plan as documented | 11 facts in 7 months | violated |
| `paging` | the range shown by the pager | 5 movements, pages of 2 | violated |

`requests` and `units` put parts together that share no state: the variable `part`
says which of them a behaviour moves, so the instance has the behaviours of each
and not their product. Each property is about one part, and the other parts stand
still in one state of theirs.

The bounds, and why they are enough to be interesting:

* One transaction is enough for the delivery, because facts of different
  transactions share nothing but the stream. A behaviour has a change and one of three further events under the next
  id: an older change, an older deletion, or a message outside the contract (an
  insertion is projected as a change is). Each row can be committed, taken and sent
  before, between and after the other's, and sent again. Two relays
  and two workers are one more than deployed: `SKIP LOCKED` and the consumer group
  exist to allow it. `MaxFaults` = 2 puts a failure in every place and a second one in
  the recovery from it; the proofs remove the bound.
* In the ledger one account is where everything meets. Amounts -2 and 1 on an
  opening balance of 1 make the balance reach, and not reach, the limit of INV-14.
  `MaxStamps` = 4 bounds the events stamped (a register, a stamped attempt and two
  more). Deadlock is stated as `SomeoneCanContinue`, because at the bound the
  model itself stops; `WaitsEnd` states why: the account is locked before the
  transaction, so chains of waiting requests have two links at most.
* The pipeline runs with a credit account that is spent below zero, the other
  branch of INV-14.
* In `subscription` one user is enough: no row, lock or index is shared between
  users, and the one statement over all of them, `ExpireAll`, takes each row as it
  is. The rows and payments give a user a declined attempt, a payment
  and a renewal; a period is shorter than the clock, so it passes and the next begins.
* `notifications`: one subscription is under way, canceled and welcomed, the other
  still to be activated; its user is gone for one of them. The clock has two
  instants, a period lasts from one to the other, and the recovery window is the
  first: everything is due, and then is not.
* `requests`, reports: two reports, two workers, a clock of four instants in which
  a PENDING report gets stale and a finished one expires. Access: one user with two
  requests (users share nothing but Redis, with a key each), a period of 2, a cache life of 3 (longer than the period), 5 instants. Rates: two
  requests over 3 days. Maintenance: three transactions, two of them older than the
  outbox, a balance that may be wrong to begin with, two backfills, 2 instants.
  Page: 2 filters, pages of 1 of up to 2 movements, 2 requests in the air.
* `units`, figures: all subsets of 11 facts of three users over seven months, with
  two currencies, two accounts, ties of rounding, an uncategorised expense, and
  amounts on both sides of each threshold; the thresholds are those of the code but
  for the minimum of a spike, which is scaled to the amounts. Plans: two requests,
  answers that give each of the three profiles, rates 0, 1 and 3 %. Registration:
  2 accounts and 1 movement, amounts and balances on both sides of zero and of the
  largest amount, each categorizer and every kind of bad answer. Identity: two
  requests on one address typed in two ways.
* `CHECK_DEADLOCK FALSE` except in `free_window`: users may stop, and the counters
  end.
* Symmetry is used in safety runs only, over ids that nothing orders.

Mutants: for every property of a passing run the module defines a plausible bug
beside the definition it would replace (`MarkedBeforePublishing`,
`RegisterUnlocked`, `SelectNothing`...). With it the property fails. They are used
by no specification.

## 4. What the runs show

**Delivery.** With any order of arrival, duplicates and one failure anywhere,
nothing committed is lost, and the read model is a function of the *set* of
projected events: a deletion wins, otherwise a newest instant wins.

**Ledger.** Change, balance and event are atomic and two requests never wait for
each other. The row lock protects registrations and recomputations. It does not
protect deletions:

* `delete_transaction` (services.py:700) reverts the balance it read before it
  waited for the lock. A registration committed in between vanishes from the
  balance, and two concurrent deletions of one transaction revert it twice.
  INV-07 and INV-14 fail; `BalanceConsistent` states what is left of them: they
  hold until a deletion acts on stale data, and again (INV-07) after a
  recomputation. Locking the account first, or refreshing it, would repair it.
* `recategorize` takes no lock on the account, so the "El orden está garantizado
  por cuenta" of ARCHITECTURE.md:450 does not extend to its events. Registrations
  and deletions among themselves are in order (`LockedEventsInOrder`).

**Pipeline.** The projector orders by `occurred_at`, so most of that disorder does
no harm: nothing deleted comes back (`NothingResurrected`, proved) and both sides agree
once quiet. The exception is two overlapping recategorisations of one transaction
whose instants and commits are in opposite orders: then the read model keeps the
other category, and nothing corrects it (`ReadModelAlwaysConverges` fails).

**Subscription.** The row lock, the unique index and the PENDING payment committed
before the call are enough for one current subscription per user, one payment in
progress, and no second charge for a period after an approval, after a death that
lost the answer, or by checkouts at once. One way to be charged twice remains
(`ChargedAgainOnlyAfterError`): an exception of the call is recorded as ERROR for good
(services.py:186), whether or not the gateway had collected, and the next checkout
submits a new payment with a new reference. ARCHITECTURE.md:421 documents the
ERROR and no document denies this consequence, so it is no finding; an adapter of
a real gateway would have to answer PENDING to a timeout. The price of the rest:
services.py:177 says the PENDING row is there to be reconciled, and nothing
reconciles it. After a crash in the call the user may have been charged, has no
access, and is refused every later checkout. The instants a confirmation and a cancellation act on
may be older than what happened while they waited, and a period may even be known
only after its end; still no two paid periods of a user overlap and none is
expired before its end (`KeepsItsPromises`), because whoever confirms took its
instant after its own checkout had expired what was over.

**Notifications.** The unique index makes the notice unique however often its task
runs; the exception is a commit that fails after the mail went out, and it is the
only one (`EveryMailIsAccounted`). The periodic tasks reach whatever the message
of the checkout missed, as long as it is due (`DueNoticesGoOut`).

**Reports.** Duplicates, retries and purges never change a delivered file, and a
report whose task was never enqueued is found by the clock.

**Access.** The cache can answer later than it was asked, and a request can decide
later than it was answered; the second look at the clock in the gating is what
keeps INV-06 (`DecideByAnswer` is the bug without it).

**Rates.** A request that runs over midnight stores its rate under the day it
asked for, so no other request takes it for the new day's.

**Maintenance.** The audit can report a deviation that never was, while requests
commit between its statements; `--fix` recomputes instead of writing what it saw,
so this does no harm. The stale picture of a backfill does none either, because
its event carries the instant of the registration and loses against the others. The
deviation that does happen is the one a stale deletion leaves, and `--fix` repairs it.

**Figures and advice.** Every query loads the months its rules need, and the four
ways to add up a month agree. The free plan does not hide what the document says
it hides: `effective_thresholds` (gating.py:105) trims the trend to three months
ending at the month *asked for*, so the earliest visible month shows two more.
What remains true is `HiddenMonthsStayHidden`: nothing else of the dashboard
depends on a month before the window, the points of the trend inside the window do
not either, and those before it go back three months from the month asked for and
no further. `GET /recommendations/?display_currency=`
answers 422 as a whole to a user with an account in a third currency
(services.py:227), which ARCHITECTURE.md:393 allows for any other pair; the model
has the two currencies the pages offer.

**Plans and profiles.** A concurrent submission may leave a mixture of the answers
of two questionnaires, because only the columns that changed are written; the
model keeps this, and no property judges it; a saved plan is not moved by any later
answer, mixed or not (`PlansStand`). Updates of a
profile do not undo each other (`UpdatesDoNotOverwrite`), which holds for the API;
the form of the admin saves the whole row and is not in the model.

**Registrations.** No answer of categorization-service, in or out of its contract,
makes a registration fail or be recorded as the user's choice, and no cent is lost
between the field and the column.

**Movements page.** Late answers are dropped rightly. The pager is not disabled
while a page loads: two quick clicks on "previous" ask for page 0, Retry asks for
it again, and "next" then shows page 1 under the range of page 2 (`RangeIsTrue`).

## 5. Fairness

* `delivery`: weak fairness of one step of each relay and each worker. Both
  commands are endless loops that catch every exception and back off for a bounded
  time, and Compose restarts their containers. `Record` is not fair. Faults are
  finite in number: with failures for ever nothing can be promised.
* `subscription` and `subscription_reconciled`: weak fairness of the next step of a
  request that is not killed; strong fairness of `ExpireAll`, which beat schedules
  every 15 minutes, because its UPDATE queues for a locked row and gets it on
  release, however often others lock it. Neither checkout, nor cancel, nor crash,
  nor the clock is fair. The violation of `subscription_reconciled` has every one of
  these actions taken whenever it is due: no action could resolve the payment.
* `notifications`: weak fairness of beat and of a worker's next step; strong fairness
  of receiving the message of a periodic task, because the list is first in, first
  out and the workers are only busy in between. Nothing is assumed of the message a
  checkout enqueues, of users or of the clock; faults are finite.
* `requests`: for the reports the same, and the clock runs, because a report only
  becomes stale if time passes. The other parts have safety properties only.
* `units`, `free_window` and `paging` state no fairness.

## 6. Proofs

What the runs show on an instance, TLAPS proves for every value of the constants:
every safety invariant and every action property of a passing run but
`SomeoneCanContinue`, which is ENABLED. Each module below extends the module it is about and changes
nothing in it.

| Module | Theorem | Statement | Source of the hazard |
| --- | --- | --- | --- |
| EventDeliveryProofs | `NoEventLost` | `Spec => []NothingLost` | two systems, no common transaction |
| | `OrderInsensitive` | `Spec => []ProjectionIsOrderInsensitive` | duplicates, disorder |
| | `TombstonesStay` | `Spec => TombstonesAreFinal` | late events |
| | `Refinement` | `Spec => ImplementsReadModel` | all of it |
| FinanceLedgerProofs | `BalancesAreConsistent` | `Spec => []BalanceConsistent` | stale rows of the identity map |
| | `BalancesAreAllowed` | `Spec => []NoForbiddenNegative` | INV-14 between two requests |
| | `OutboxIsTrue` | `Spec => []OutboxTellsTheTruth` | DELETE and UPDATE of a row that is gone |
| | `ArchivedAccountsGetNothing` | `Spec => NothingAddedToArchived` | archiving without a row lock |
| | `WaitsAlwaysEnd` | `Spec => []WaitsEnd` | deadlock: the locks of accounts and of transactions |
| | `LockOrdersEvents` | `Spec => LockedEventsInOrder` | the instant is taken before the commit |
| FinancePipelineProofs | `LedgerIsAProducer` | `SpecPipeline => ImplementsReadModel` | what the ledger commits is what ReadModel expects |
| | `GoneStaysGone` | `SpecPipeline => NothingResurrected` | disorder between services |
| | `ReadModelIsConsistent` | `SpecPipeline => []ReadModelConverges` | the same |
| SubscriptionProofs | `UsersHaveOneCurrent` | `Spec => []OneCurrentPerUser` | overlapping checkouts |
| | `PaymentsAreOneAtATime` | `Spec => []OnePaymentInProgress` | the same |
| | `ChargedAgainAfterError` | `Spec => []ChargedAgainOnlyAfterError` | an answer lost after the charge |
| | `AccessNeedsPayment` | `Spec => []AccessIsPaid` | INV-05 |
| | `PromisesAreKept` | `Spec => KeepsItsPromises` | expiry by beat and by checkout; instants older than the commit |
| | `EntitlementsAgree` | `Spec => []EntitlementIsThePeriod` | what two services make of one period |
| | `StatusesOnlyAdvance` | `Spec => OnlyForward` | answers after a cancellation |
| NotificationsProofs | `MailsAreAccounted` | `Spec => []EveryMailIsAccounted` | a commit that fails after the mail |
| RequestsProofs | `AccessIsPaidFor` | `SpecAccess => AccessFollowsPayment` | INV-06: cache and slow answers |
| | `RatesFallInOrder` | `SpecRates => []RatesDegradeInOrder` | midnight |
| | `DeliveredReportsAreFinal` | `SpecReports => ReportsAreFinal` | duplicates, retries, purge |
| | `ListFollowsForm` | `SpecPage => []ListIsCurrent` | late answers |
| | `AuditsAreExact` | `SpecMaintenance => AuditIsExact` | the audit's two statements |
| | `BackfillsConverge` | `SpecMaintenance => []BackfillConverges` | stale pictures, two backfills |
| UnitsProofs | `PlansAlwaysStand` | `SpecRisk => PlansStand` | later answers; the closed form of the projection |
| | `UpdatesStand` | `SpecIdentity => UpdatesDoNotOverwrite` | overlapping edits and registrations |
| | `FactsLoadedSuffice` | `SpecFigures => []LoadedFactsSuffice` | a query of too few months |
| | `HiddenStaysHidden` | `SpecFigures => []HiddenMonthsStayHidden` | INV-06 in the figures |
| | `ViewsAlwaysAgree` | `SpecFigures => []ViewsAgree` | four ways to add up a month |
| | `AdviceFollows` | `SpecFigures => []AdviceFollowsFacts` | windows of two services, locks, degraded answers |
| | `RegistrationsStand` | `SpecRegistration => []RegistrationsAreTruthful` | answers out of contract, rounding |

`TypeCorrect` (`Spec => []TypeOK`) is there for the delivery, the ledger, the
subscriptions and the notices, `ReportsAreTyped` for the reports, and the inductive
invariants are theorems of their own (`Invariance`, `InductiveInvariant`,
`PipelineInvariant`).

**Assumptions.** The named `ASSUME`s of the modules, and nothing else; TLC
evaluates them in the runs. They say what the constants are: bounds are natural
numbers, amounts are integers, markers such as `NoJob` or `NoFact` are not values,
the batch of the relay holds an entry at least, and what is added up (transactions,
facts) is finite; a period lasts an instant at least (`PaidAssumption`), rates are
not negative (`InvestmentAssumption`) and what is asked of a plan are integers
(`PlansAssumption`). Four say something of the program: `OutcomesAssumption` (the
outcomes of the gateway port), `LocalRulesAssumption` (the rules finance-service keeps
name categories of its own catalogue, as seeded by its migration),
`RegistrationAssumption` (a code in capitals stays what it is) and `AdviceAssumption`
(as the two services are shipped, the trend reaches back over the complete months and
the current one, and the least amount of a spike is above the rounding of an average;
the first is needed for a surplus to be of all its months, the second for a saving to
be above zero). They bound no number of sessions, workers, users, transactions, events
or faults.

### The inductive invariants

None of the properties is inductive. What each needs besides its types:

* **Delivery.** `PublicationInv`: the outbox has one row per id, a relay holds a row
  of it, and what is sent or marked is in the stream. `ConsumptionInv`: what was
  delivered and is no longer pending is projected or outside the contract, and so
  is what a worker is about to acknowledge; this is where acknowledging after the
  commit is needed. `ProjectionInv`: each row of `transaction_fact` *matches* the set
  of projected events of its transaction. The core is `AppliedMatches`: applying an
  event to a row that matches a set yields one that matches the set with the event.
  The refinement maps `log` to `outbox`, `applied` to `processed` and `shown` to
  `Shown`; only `Record` and the first `Project` of an event are steps of ReadModel.
* **Ledger.** `LockInv`: a lock belongs to an open request that asked for it, a request about to write has
  the locks of its rows, a movement has an account. `JobInv`: what an open request
  *still knows*. A registration has a transaction nobody else registers
  (`RegistrationsAreNew`); what was read of a transaction is true of it as long as it
  exists (`ReadsAreTrue`); one session changes a row at a time (`RowsLocked`); a
  recomputation is right, because it locks before it adds (`RecomputationsAreTrue`).
  A deletion may be wrong about the balance, and then its commit is the `drift` that
  the property exempts. From there `BalanceConsistent` is a sum with one term more or
  less. `EventsTellTheTruth` carries the outbox. `StampsAreNew` carries the order: the
  events written under the lock of an account are older than what the session that
  has the lock now took.
* **Pipeline.** The ledger's invariant and, on top: an identity belongs to one
  event, committed or not (`IdentitiesAreUnique`); each was taken after an instant, so
  identities stay within the instants (`InstantsCoverIdentities`); only registered
  transactions have events; the newest events of an uncontested transaction say the
  category of its row, and a request that changes it knows that category and is newer
  (`NewestIsTrue`); what is shown is a view of the applied events (`ShownInv`). The
  refinement follows: an event the ledger commits is one ReadModel may be given.
* **Subscription.** A session past `CheckoutCommit` is the only one with its payment,
  which is PENDING, charged if the gateway approved it and not if it declined, either
  way otherwise (`RequestsHavePayments`); what a checkout read under the lock stays true until it
  commits (`CheckoutsAreTrue`); and what the gateway collected is never DECLINED and
  is the last payment of its subscription unless it is ERROR (`ChargedStands`). A period is whole, and
  expired only after its end (`PeriodsAreWhole`). Neither the lock nor the index
  alone would do: the lock covers users with a row, the index those without. For
  the refinement of PaidPeriods, a request that is about to confirm has an instant no
  earlier than the end of every other period of its user (`ConfirmationsAreLater`): they
  were over when its checkout opened, and its row holds the user's one place since.
* **Notifications.** The open insertions of one notice exclude each other
  (`ClaimsAreExclusive`); the mails of a notice are its row, plus the mails of the
  claim under way, plus those undone (`MailsAddUp`); only faults undo
  (`UndoneAreFaults`).
* **Access.** Paid periods of a user are apart (`PeriodsApart`), so at most one is
  current. An end in the cache or in an answer is over or that of a period paid
  (`KnownEnd`), and whoever was entitled on arrival is told that end as long as it is
  ahead (`KnowsTruth`).
* **Plans.** Every plan kept, or about to be, is valid for the profile it names (`Sound`).
  The projection is arithmetic over months: `Begins` and `Recursion` turn the recursive definitions into
  equations, with the least month at which a claim fails in place of induction;
  `SavedInClosedForm` is the closed form, one month after the other, and `ProjectionIsSaved`
  divides it by the rate, rounding once.
* **Rates.** A rate is kept under its day; an answer on its way is of the day it was
  asked for unless the provider failed (`AnswerIsTrue`).
* **Reports.** One task at a time builds a report, and it is PENDING then.
* **Page.** There is at most one latest request, it is for this page and these
  filters, and it is there exactly while the page is loading.
* **Maintenance.** A quiet audit has read the balance there is. Of the events: a
  registration is recorded once, the newest tells the category, a picture held by a
  backfill is the row's unless a change is recorded (`PicturesAreKnown`), and a last
  batch has all that was missing (`LastBatchHasAll`).
* **Identity.** A row has the profile last asked for (`RowsAsAsked`), because an edit
  is merged by the database and not by the request; an edit has found its row.
* **Registrations.** Ids tell rows apart, an account stands as validation would
  have it, and a balance is the balance typed and what was moved since
  (`BalancesAddUp`, over unrounded amounts). `TotalsAddUp` counts each movement
  with its account, once, for any set of accounts.

The proofs of the figures are about operators: that facts come from `Candidates` is
the whole invariant. A figure is the same for two sets of facts that agree on the
months it reads, and each query loads those months: one lemma per endpoint and
plan. That the views agree is that sums by category, by account and by user
regroup the same facts (`SumFibers`). Advice follows from there: the nets of a snapshot
are those of the months of the trend (`SnapshotNets`), so that a surplus is the average
of all the complete months of a currency (`SurplusesAreAverages`), with its sign but
for half a unit (`HalfUpSign`); a budget is the insight about the current month
(`BudgetWhenOverspent`); and a category that spent enough to be a spike is above its
rounded average (`SpikeSaves`). What is shown in another currency is worth its own
amount but for two roundings: that of the product, half a cent either way (`PesosNear`), and
into dollars also that of the inverse of the rate (`DollarsNear`). The second error
grows with the amount, so `ShownTruly` states the bound for every amount, and for any
rational rate, instead of a fixed number of units.

### Sums

Balances and figures are sums over sets, folds of the community modules.
`SumsOverSets` proves what they need (the empty sum, one term more, the same terms,
a changed term, terms that are zero, differences, sums by classes). The induction
theorems of the library take the property as an operator, which none of the
provers can instantiate; the lemmas choose instead a subset for which the claim
fails and which is minimal under inclusion (`MinimalSubset`, from well-foundedness),
and show that there is none.

### Model-checked only

* Liveness under fairness is out of the prover's reach:
  `EveryEventIsProjected`, `FinishedSubscriptionsExpire`, `DueNoticesGoOut`,
  `PendingReportsEnd`; so is ENABLED, in `SomeoneCanContinue`. `WaitsEnd` says without
  it why no request waits for ever on another, and is proved.
* `NothingResurrected` is the other way round: `GoneStaysGone` proves it for the
  pipeline and no run repeats it, since `ImplementsReadModel` implies it.
* What the `violation` runs refute is of course not proved, but the theorems name
  its exact remainder: `BalancesAreConsistent` for INV-07, `ReadModelIsConsistent`
  for the convergence, `HiddenStaysHidden` for the free window.

## 7. Not modelled

* Pages other than the movements page: each renders one answer. `dashboard.js:272`
  can render an old one under a new title; it is listed as a hazard.
* Routing, TLS and limits of the gateway, Compose, settings, the seeding script:
  configuration, from which the numbers of processes and retries are read.
* Wording and layout: error messages, serializers, CSV, mails, translations, the
  search normalisation of descriptions, calendar arithmetic of `add_months`.
* The administration site of Django but for deactivating users.
* A crash of Redis that loses the last second of the stream, and a profile cached in
  another tab (`api.js`).
* The AI client of categorization-service has no implementation in the repository;
  its answers are a small set that includes an overconfident and an unknown one.

`PROJECT.json` lists every component and every hazard, the uncovered ones with the
reason.

## 8. Plan

The modules of the plan are written, and what the runs check of safety is proved but
for `SomeoneCanContinue`. What is left:

1. **ReadModel itself**: `OrderInsensitive` is proved of the delivery and the view of
   the applied events of the pipeline (`ShownInv`); as a theorem of ReadModel both would
   follow by refinement.
2. **Overlapping requests in Maintenance**: the commands beside the open requests of
   FinanceLedger instead of committed ones.
