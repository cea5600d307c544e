# Govahee: verification project

Govahee is a multi-tenant certificate service: a Django and Celery backend over
PostgreSQL and Redis, with a React client. This directory holds TLA+ models of its
stateful parts, TLC runs over small instances, and TLAPS proofs for any instance.

## The system and its parts

| Component | State it keeps | Operations | Interacts with |
|---|---|---|---|
| Checkout (`billing/payments`, `billing/views.py`) | `PaymentTransaction` rows (status, `applied_at`, gateway reference) | start at BitPay or Zibal, gateway callback, cancel, verify, apply | gateways over HTTP, subscriptions in the same transaction |
| Subscriptions (`billing/subscription.py`, `billing/plans.py`) | one `Subscription` per organization, `Organization.api_enabled` | trial on provisioning, apply a plan | entitlements read it |
| Entitlements and usage (`billing/entitlements.py`, `billing/usage.py`) | `UsageCounter` per month and key | quota check, increment | called by issuing, verification and e-mail |
| Issuing (`certificates/services.py`, `numbering.py`) | `Certificate`, `Recipient`, `CertificateNumberSequence`, events | issue, revoke | quota, numbering, webhooks on commit |
| Certificate endpoints (`certificates/views.py`, `api_v1.py`, `serializers.py`) | the same rows, view and download counters, `VerificationEvent` | edit, delete, PDF, e-mail, public verification | issuing, usage, webhooks |
| Bulk (`certificates/bulk.py`, `tasks.py`) | `IssuanceBatch`, `IssuanceItem` | upload, validate, issue in a task, ZIP, e-mail | issuing, once per row; Celery; storage |
| Templates (`certificates/views.py`) | `CertificateTemplate`, `TemplateVersion` | create, save a version, edit, delete | issuing pins `current_version`, batches refer to the template |
| Webhooks (`organizations/webhooks.py`, `organizations/tasks.py`) | `WebhookDelivery` | enqueue after commit, deliver, retry by beat | Celery, the subscriber's endpoint |
| Organizations and team (`organizations/services.py`, `views.py`) | organizations, memberships, branding, API keys | register, provision, invite, edit, remove | every request goes through the membership |
| Storage (`attachments/`) | `StoredFile` rows, objects in a local directory, MinIO or Parspack | save, download, open for rendering | uploads, PDF rendering, the ZIP of a batch |
| Accounts (`accounts/`) | users, cookies with tokens | register, login, session, logout, set password | the client |
| Client session (`frontend/src/auth`, `api/client.ts`, pages) | session, role, selected organization, header, `sessionStorage` | load the session, switch the organization, open a page | accounts, every scoped endpoint |
| Platform administration (`platform_core/`) | flags of organizations, settings | suspend, stop issuing, switch the api | issuing, checkout |
| PDF, e-mail, audit, logging | append-only records | render, send, log | no decision reads them back |

What makes the behaviour hard: gunicorn workers and Celery tasks run the same code
concurrently over rows that are mostly read without a lock; only the payment row and
the number sequence are locked (`SELECT FOR UPDATE`), and only four functions are
transactions. Gateways call back late, repeatedly or never; workers die between two
statements; the endpoint of a webhook is slow; the storage fails half-way and is
configured per process; a browser tab applies answers in the order they arrive.

### What makes each component correct

* Checkout and subscriptions: a plan is granted only for a session that was paid, once per
  payment while the payment is paid, for at least one full period; every callback is
  answered.
* Issuing: consecutive unique numbers per year, one certificate per idempotency key, an
  exact usage counter, a quota whose overshoot has a bound.
* Certificates: a revocation is not undone by accident and is shown at once; events,
  usage and webhooks are written in that order.
* Bulk: COMPLETED means a certificate for every row that has an item; the counts fit; a
  batch that can be read ends.
* Templates: what certificates, batches and `current_version` refer to stays.
* Webhooks: a delivery succeeds or is given up after a bounded number of attempts, and the
  log claims no attempt that was not made.
* Team: at least one owner, no more members than the plan allows; whoever registers has
  an organization, and the organization has all its parts.
* Storage: a row never promises an object that is missing or cut.
* Client: a tab shows the account of the cookie, an organization of that account, and
  rows of that organization.

Some of these hold only up to a bound or an exception (overlapping requests, an edit, a
change of settings). The properties state the exceptions exactly: that is where a
reader should look first.

## Modules

| Module | Models |
|---|---|
| `PaymentLedger` | abstract: the atomic steps of one payment row |
| `Payments` | the start requests, the callbacks statement by statement, `apply_subscription_plan`; implements `PaymentLedger` |
| `CertificateRegistry` | abstract: consecutive numbers, distinct certificates |
| `Issuance` | `issue_certificate` statement by statement, and the other writers of the same rows; implements `CertificateRegistry` |
| `WebhookDelivery` | rows, messages, Celery workers and beat of one webhook |
| `BulkBatch` | one batch: upload, validation, runs, ZIP builders |
| `CertificateLife` | one certificate after it was issued |
| `Templates` | one template, its versions, and who refers to them |
| `Organizations` | registration with provisioning, and the team of one organization |
| `FileStore` | stored files over three providers, in several processes |
| `Session` | the tabs of one browser, their calls, and the server's view of both |
| `...Proofs` | theorems: `PaymentsProofs`, `IssuanceProofs`, `WebhookProofs`, `BatchProofs` (about `BulkBatch`), `CertificateProofs` (about `Templates` and `CertificateLife`), `OrganizationsProofs`, `FileStoreProofs`, `SessionProofs` |
| `MC...` | instances for TLC |

The components meet at few points, and the models divide there. A row of a batch is
one call of `issue_certificate` (`RowIssued` in `BulkBatch` is the atomic `Register` of
`CertificateRegistry`, which `Issuance` implements). A webhook event that `Commit` of
`Issuance`, or `Tell` of `CertificateLife` dispatches is a `CreateRow` of
`WebhookDelivery`. `IssueWithTemplate` and `UploadBatch` in `Templates` are what issuing
and bulk do to a template. The ZIP of a batch is `BuildZip` in `BulkBatch` (which
certificates) and in `FileStore` (which bytes). A lapsing subscription is `PlanChanges`
in `Organizations`; the memberships that `Organizations` writes are `TeamChanges` in
`Session`.

An operator whose comment starts with `Mutant:` is a plausible bug of the operator
defined after it; no specification uses it. Each shows that a property can fail:
`PROJECT.json` pairs them.

## How the models correspond to the code

All models take the deployment of the repository as given: PostgreSQL at READ COMMITTED
with autocommit (no `ATOMIC_REQUESTS`), several gunicorn and Celery processes, Celery's
default early acknowledgement. A statement outside `transaction.atomic()` is one step
and commits at once. Inside, the writes of a transaction stay in its `draft` and become
visible in its `Commit`; a row it updated or locked, and a unique value it inserted, has
an owner until the transaction ends. A `SELECT` never waits. `save()` without
`update_fields` writes every column as it was read, and inserts the row again when it is
gone; with `update_fields` it fails then.

### Payments

* `status`, `applied` are the columns of `PaymentTransaction`; `sub` is the
  `Subscription` row, `apiEnabled` the flag of the organization; `rowLock` and
  `subLock` are the row locks. `reference` is `gateway_reference`, written as the payment
  for which that session was opened; `session` and `money` are what the gateway knows of a
  session: whether it was paid, and how many rial moved.
* A callback names a session (`trackId`, `id_get`) and an order (`orderId`, `factorId`),
  and either may be missing. `Finds` looks the row up by the session and, when no row has
  it, by the order. Nothing compares the two (`service.py:166-185`), so the two fields of
  a request are chosen independently of each other (`Arrive`). `asked` is the session the
  handler then verifies: the one the request names, and the one of the row only when it
  names none. Zibal's handler saves it in the row with the result (`KeepAsked`).
* A callback request walks through `pc`: `Arrive` (find the row, answer at once if it is
  applied), `Verify` (ask the gateway with no lock held), `FailSave` or `CancelSave`
  (one unconditional UPDATE), or `LockRow` (`SELECT FOR UPDATE` and the second look),
  `ReadSub`, `WriteSub`, `Commit`. `Crash` ends it anywhere and rolls back.
* `Replies` is what `verify_payment` may return for a session, an error, a missing status
  or a missing amount included. What the two clients make of it differs: BitPay wants a
  status and takes an amount in toman, in rial, or in rial rounded to whole toman
  (`BitPaySucceeds`, `BitPayMatches`, `RialToToman`); Zibal has one unit, and its result
  code is enough without a status (`ZibalMatches`, `ZibalSucceeds`).
* Time counts billing months and stands still while a transaction runs.
* `grants`, `demoted`, `named` (the sessions callbacks named for a row) and `overtaken` (the
  payments granted since a handler read the `Subscription` row) are history: nothing in the
  model reads them but properties.
* `PaidMeansMoneyMoved` says no more than the code guarantees: a row is granted for a
  session that some callback named for it and that brought the price, or what the client
  takes for the price. That it is the row's own session follows only for callbacks whose
  two fields belong together.
* `apply_subscription_plan` returns from its create branch before it sets `api_enabled`
  (`subscription.py:20-27`): an organization without a `Subscription` row that pays for
  a plan with the api does not get it. The model has this; no property claims otherwise.

### Issuance

* A certificate is named by the call that issued it. `cert` is the `Certificate` table,
  `name` the `Recipient` table, `seqLast` the sequence rows, `usage` the counters.
* A call of `issue_certificate` goes through `Arrive` (permission), `LookupKey`,
  `CheckQuota`, `ChooseRecipient`, `AllocateNumber`, `InsertRow`, `CountUsage`,
  `Commit`, in the order of the code; `Abort` rolls it back anywhere.
* `EditNumber`, `DeleteCertificate`, `RenameRecipient`, `DeleteRecipient` are the other
  endpoints that write these rows; `SetOpen` is the platform administrator. A PUT or PATCH
  that read a certificate before it was deleted inserts it again, so `EditNumber` also
  acts on certificates that are gone; `CertificateRegistry` has `gone` and `Restore` for it.
* The second unique value, the number, needs no lock of its own in the model:
  `Reserved` says that an edit waits for, or fails on, a number somebody inserted.
* `handed` (the number a certificate was issued under) and `deleted` are history.
* Two consequences that have no property: the second of two concurrent calls with one
  idempotency key fails on the unique constraint instead of being answered
  (`services.py:54`), and issuing to a known address renames the recipient under
  certificates whose `integrity_hash` has the old name (`services.py:87-89`).

### CertificateLife

* `row` has the columns the handlers write: `status` with the five values the column takes
  (`expired` is written by no code, but an edit may send it), one value `content` for what
  an edit changes, the two counters. A request reads the row (`Read`), keeps it in `copy`,
  and goes through the steps of its `Script`, the statements of its handler in order.
* `verify` is `PublicVerifyView`, `search` is `PublicVerifySearchView`, which answers
  and writes nothing, `mail` is `send_certificate_email`, `pdf` and `revoke`
  the actions of the viewset (`api_v1.py` calls the same functions), `edit`, `restate`
  and `delete` the generic ones: `restate` is a PUT or PATCH that sends a status, `edit`
  one that does not.
* `SaveCount` saves a counter by name, `Edit` saves the whole row as it was read, whether
  or not it is still there. An edit of the title that read the row before a revocation
  therefore takes the revocation back; `RevocationUndoneOnlyByEdit` says that only such an
  edit and `restate` do. `Revoke` is the one
  transaction; its check uses the status that was read before.
* A consequence that has no property: "Issued certificates are immutable" (`README.md:148`,
  `docs/ARCHITECTURE.md:98` of the repository) is not what the code does. PATCH takes almost
  every column of an issued certificate (`serializers.py:79-96`); this is `edit` here.
* `edited`, `deleted`, `crossed` (two handlers overlapped), `late` and `shown` are
  history. The names differ from those of `Templates` (`LifeSpec`, `Handlers`, `Die`),
  because one module has the theorems about both.

### BulkBatch

* `Table` is the uploaded file, `Parsed` the rows that `parse_tabular` keeps (an Excel
  sheet loses its blank rows, a CSV file does not), `Alias` the mapping the headers
  suggest. `Mapped` is the text of a field under a mapping, `Valid` and `Readable` what
  validation and issuing accept of it. Cells are empty, plain, wrong, or a date that is
  cut or written with slashes (`loose`).
* `batch` is the `IssuanceBatch` row, `item` the status of every `IssuanceItem`; `runs`
  and `zips` are messages in the broker, `task` what each worker holds: a run keeps the
  batch as it read it in `copy`.
* A request may send any JSON as mapping (`views.py:403`, `:436`). `Malformed` is what
  `apply_mapping` cannot read: a validation then fails before it saves anything
  (`ValidationRaises`), and a run ends at its first row, because `tasks.py:24` is called
  outside the `try` (`RowRaises`). The batch stays PROCESSING.
* Otherwise a row goes through `RowInvalid`, or `RowRefused`, or `RowIssued`, `SaveItem`,
  `QueueMail`, and then `SaveCounts`. `addressed` are the certificates whose recipient has
  an e-mail address: only these are mailed (`tasks.py:86`). `Valid` and `Readable` are
  separate because validation looks at a date that was cut and normalised (`bulk.py:94`)
  and issuing parses the raw one (`services.py:97`): a row may pass the first and fail the
  second.
* `ItemFails` and `MailFails` are the exceptions after the certificate exists that the
  `except` at `tasks.py:88` turns into a FAILED item: the broker is down in an `on_commit`
  hook, or the certificate was deleted before its item could refer to it; and the broker
  is down in `send_certificate_email.delay`, which counts the row as a success and as an
  error.
* `deleted` are the certificates of the batch that a user deleted (`DeleteCertificate`, at
  any time, `MaxDeleted` of them in an instance); a ZIP file that is built afterwards does
  not have them.
* The uploader may die before it wrote the items (`UploadDies`, between `views.py:371` and
  `:380`): the batch then has rows without items, and becomes COMPLETED without a
  certificate for them. The request that starts a run may die before it queued the task:
  the batch then stays PROCESSING.
* `started`, `doubled`, `lost` and `overlapped` are history.

### Templates

* `current` is `current_version`, 0 for NULL; `versions` the numbers there are; `pinned`
  and `batches` the rows that refer to them. `read` is what a request knows of
  `current_version`, `number` the version it is going to insert.
* `save_version` is `ReadTemplate`, `ChooseNumber`, `InsertVersion`, `SaveTemplate`; the
  last one is also PUT and PATCH. `CheckUnused` and `DeleteTemplate` are
  `perform_destroy`: a template that only batches refer to passes the check and is then
  refused by PROTECT, with an exception the view does not handle.

### Organizations

* `team` is the membership table of one organization, by person, with the row's primary
  key (`id`): a row that was deleted and made again is another row (`StillThere`).
* `Script` has the statements of each handler: a registration creates the account, looks
  for a slug, creates the organization and goes through `Provisioning`, one part per
  statement; an invitation counts (`BeginInvite`), looks for the account and joins; a
  removal counts owners (`BeginRemove`) and deletes; an edit reads and saves.
* `Visit` is a settings page that creates a part with `get_or_create`, which makes the
  later insert of the registration fail on its unique constraint.
* `name` is what a registration calls its organization, as far as the widths of the columns
  tell names apart: a name may have 200 characters (`accounts/serializers.py:13`), a slug
  80 and the sender of e-mails 120 (`organizations/models.py:22`, `:106`). A slug that is
  full has no room for the number that makes it unique (`SlugFits`); a name too long for
  the slug ends the registration after the account was created, one too long for the
  sender ends it with an organization that has only an owner (`SenderFits`). Two
  organizations of one class ask for the same name, the case in which slugs meet.
* A registration that dies after `CreateAccount` leaves somebody who cannot register
  again, though he can be invited.

### FileStore

* `configured` is the environment; `setting` what each process read of it when it
  started. `object` and `kept` are the object and its store, `row` is
  `StoredFile.storage_provider` (never read by the code), `zip` is `Batch.zip_file`.
* An upload walks through `HeadBucket`, `CreateBucket` (MinIO), `PutObject`, `WriteFile`
  (local: chunk by chunk), `InsertRow`; a task that builds a ZIP goes on to
  `PointToZip`. `Opens` and `Streams` are `open_stream` and `get_download` of the
  process that is asked. With signed URLs (`"signed"`) `get_download` returns no stream,
  which `FileResponse` does not accept, so every download fails.
* Each call to a store may fail (`Fails`); a `put_object` that fails may have stored the
  object all the same. `Restart` drops what a process was doing.
* Local files lie on one volume that all processes mount.

### Session

* `cookie` belongs to the browser; `role`, `session`, `mine`, `org`, `header`, `saved`,
  `loading` are the state of `AuthContext`, the header of the client and `sessionStorage`
  of one tab; `page` is the organization whose rows the page shows.
* A call carries what its closure or its headers hold when it is sent (`who`, `sent`) and
  the answer (`data`). Answers arrive in any order. `Login`, `SetPassword`, `Logout`,
  `RefreshSession`, `Reload` and `OpenPage` send; `LoggedIn`, `PasswordSet`, `LoggedOut`,
  `SessionLoaded`, `SessionRefused`, `PageLoaded` apply. `Reload` and `PasswordSet` load
  the page anew, which drops the calls of the tab.
* `Scope` is `HasOrganization` with `OrganizationScopedMixin`. `SessionView` returns the
  memberships in no order, so any of them may be the first.
* `SessionRefused`: the first authentication class of `REST_FRAMEWORK` sends no
  `WWW-Authenticate`, so a request without a valid cookie is answered 403, and
  `client.ts:103` refreshes on 401 only. The refresh queue of the client is therefore
  not part of the model.
* `CookieChanges` is the cookie running out, or a tab outside `Tabs`.

### WebhookDelivery

* `status`, `attempts`, `retry` are the columns of `WebhookDelivery`; `next_retry_at` is
  `none`, `later` or `due`. `queued` counts the messages of a row in the broker.
* `CreateRow` and `Publish` are `enqueue_event` after the commit; `LoadRow`, `Post` and
  `Save` are `deliver_webhook_delivery`, with the worker's copy of the row in `job`;
  `Beat` is `retry_pending_webhooks`, which may queue some of the due rows only (it may
  die in its loop).
* A post ends with a 2xx as its last response (`ok`), with another status (`error`), or
  without a response in time (`timeout`). None of them tells whether the event arrived:
  `urlopen` (`webhooks.py:83`) follows a 301, 302 or 303 of the POST with a GET that has no
  body, and a 200 there is logged as SUCCESS; and an endpoint may accept without an answer
  in time. An exception that `post_delivery` does not catch leaves the same state as
  `WorkerDies`.
* `posts`, `lost` (deliveries a process died with) and `twice` (deliveries
  that beat queued while their last try was not saved yet) are history.
* Consequences that have no property: a PENDING row whose message was lost is never
  queued again (`tasks.py:26` looks at FAILED rows; `PendingIsInHand` says when it
  happens).
* A slow post that fails overwrites the SUCCESS of another one (`webhooks.py:99`).
  `SuccessIsFinalAlone` says that this takes a delivery that beat queued twice.
* A row that is due is queued by every beat until a worker saved it, so an event can be
  posted more often than `MAX_ATTEMPTS`, and a post whose worker died is not counted.
  `AttemptsExactAlone` says that these are the only ways: without its exception for
  `lost`, or without that for `twice`, it is violated in the same instance.

## What the runs show

Deadlock is not checked: the requests and deliveries of an instance are finite in number,
so it comes to rest when they are through.

| Run | Instance | Shows |
|---|---|---|
| `payments` | 2 payments of 1 organization, one at each gateway, 3 callbacks, 2 months, 2 amounts | a grant is atomic, made for the price up to BitPay's rounding, and worth a period; a stale subscription row takes two overlapping payments; `PaymentLedger` is implemented |
| `payments_live` | 2 payments at Zibal, 2 callbacks that may name either session, 2 amounts | a grant is for a session that was named for its row and brought the price; every callback ends; a confirmed payment is applied |
| `payments_once` | 1 payment, 3 callbacks | violation: one payment applied twice |
| `issuance` | 3 calls, 2 workers, limit 1, 2 months, 2 years | numbers, keys, usage, quota; no call waits for ever; `CertificateRegistry` is implemented |
| `issuance_number` | as `issuance` | violation: an edited number is allocated again |
| `webhooks` | 1 delivery, 2 workers, 3 attempts, 2 messages, 2 deaths | the log claims no attempt that was not made, and is exact when nothing died or was queued twice; SUCCESS stays unless the row was queued twice; every failed delivery is settled |
| `bulk` | 2 rows, 3 mappings, one of them unreadable, 2 requests, 2 workers, 1 fault, 1 deletion | COMPLETED means issued; the counts fit; a single run leaves a complete batch; a batch that can be read ends |
| `life` | 3 requests of any kind, 1 death | a revocation is undone only by an edit that sends a status or had read before it, and shown at once; the trail is in order; without overlap the counters are exact |
| `templates` | 5 requests, 1 death | references hold; without overlap the last version is the current one |
| `team` | 3 requests, 3 people, names of 4 widths, limit 2, free limit 1, 1 death | by how much the limit is exceeded, when the last owner is lost, what a registration leaves |
| `files` | 3 requests, 2 processes, 1 change of settings, 2 restarts, 1 failing call | rows have their objects; files work until the settings change |
| `session` | 1 tab beside others, 2 accounts, 2 organizations, 2 calls | the shown organization, account and rows belong together |

The violation runs are the `findings` of `PROJECT.json`, with the line of the code and
the text it disagrees with.

### Bounds

* Payments: three callbacks let one pay, one fail late and one come back after it; two
  payments, one at each gateway, are needed for a stale subscription row; two months let a
  period run out and be renewed. Money is in rial, the price is 2 toman:
  20 is the price, 14 the largest amount that BitPay's rounding does not lift to it, and 2
  the price taken for toman. A callback can name the session of one payment and the order
  of the other only when both are at one gateway, as in `payments_live`, where the clock
  stands still. The callbacks are symmetric in `payments` only.
* Issuance: two calls share a key, two share an address and a year, and two run at once
  while a third follows; a limit of one is reached and exceeded; `MaxSeq` lets an edit
  type the numbers the sequence hands out next.
* Webhooks: deliveries share nothing but the workers, so the instance has one; three
  attempts leave room for a stale count to fall back and rise again; two messages and
  two workers give duplicates in the queue and in flight. `MAX_ATTEMPTS` is 5 in the
  code, and `Beat` takes at most 50 rows there: the instance has fewer due rows.
* Bulk: one row with an address whose date passes validation only, and one with a name
  alone. The mapping that the headers suggest refuses the first and issues the second,
  which gets no e-mail; the one that requests send issues the first, which gets one, and
  rejects the second; the third cannot be read. Two requests are two runs, or a validation
  in the middle of one; one fault is one death, hook or broker failure anywhere. The blank
  rows that an Excel upload loses are in the model and not in the instance.
* Life: two requests overlap and a third sees what they left.
* Templates: the creation of the template and four requests that may overlap: two that
  save, one that deletes and one that issues or uploads is the longest chain in which
  one of them undoes what another relies on.
* Team: two invitations at once with a third request before or after; three people fill
  a team of two. The initial states are all teams of the three within the limit.
* Files: a file that is saved, a ZIP that has it as its image, and a download; two
  processes can disagree about the settings.
* Session: two calls can overtake each other; the accounts' memberships are any
  subsets. Tabs share only the cookie, which `CookieChanges` changes at any time, so one
  tab beside that is enough; the theorems are for any number.

Histories that grow (`joint`, `extra`, `events`) are bounded by the number of requests.

### Fairness

* Handlers of payments and of issuing are weakly fair, one by one: a process that was
  started runs on, and PostgreSQL grants a lock that stays free. Payers, callbacks,
  edits, deaths and the clock are not fair.
* Bulk: requests that began, and workers, are weakly fair. Deaths, broker failures and
  new requests are not; `BatchEnds` makes an exception for what they lost, and for a
  mapping that cannot be read.
* Webhooks: a post ends by its timeout of 12 seconds; the clock and beat go on. Loading
  a message is strongly fair per row, because the broker hands messages out in order.
  Deaths are bounded: against endless deaths nothing is promised.
* The other specifications state no fairness and have safety properties only.

## What is proved

For every value of the constants, under the assumptions each module names (types of the
constants, that the values for "nobody" or "nothing" are distinct from the others, and
in `Organizations` that neither limit is 0, which the code reads as no limit). TLC
evaluates the assumptions in every run.

* **Payments.** `TypeCorrect`, `GrantsAreAccounted`, `NoGrantWithoutMoney`,
  `GrantsAreWorthAPeriod`, and `Implementation` (of `PaymentLedger`). `GrantsAccounted`
  alone is not inductive: a step from it could commit a row that another handler has
  paid meanwhile. The invariant adds that a handler inside its transaction owns the row
  lock and that the row it owns is not applied (`OwnsRow`, `Unopened`), and that the
  session a handler is going to apply a row for was named for it and covers its price
  (`Confirmed`), a session never losing what was paid in it.
  `StaleReadsTakeTwoPayments` uses the same locks: a commit that makes the draft of
  another transaction stale falls between that transaction's read and its commit, and owns
  another row, so it is of another payment (`overtaken`).
* **Issuance.** `TypeCorrect`, `NumbersAreSequential`, `CertificatesAreDistinct`,
  `UsageIsExact`, `OneKeyOneCertificate`, and `Implementation` (of `CertificateRegistry`).
  From the allocation to the commit a transaction owns the sequence row, so the row still
  says what was read (`OwnsSequence`); from the insert on nobody else has its key or number
  (`OwnsKey`); from the increment on it owns the counter row (`OwnsCounter`). An answer is
  a certificate under the key of its request that is there or was deleted (`Served`), and
  there are no two such certificates. `Implementation` maps a commit to `Register`, an edit
  of a certificate that is there to `Renumber`, one of a certificate that was deleted after
  it was read to `Restore`, a deletion to `Remove` and every other step to a stutter.
  `OvershootIsBounded` adds to a month's counter the calls that may still add to it, and
  shows that the sum never exceeds `Limit + Workers - 1`. The bound is exact: it is
  reached, so "the quota of the month" (`entitlements.py:62`) is exceeded by concurrent
  calls.
* **WebhookDelivery.** `TypeCorrect`, `SuccessStaysAlone`, `NoEarlyGivingUp`,
  `RetriesAreFound`, `PendingIsNotForgotten`, `AttemptsAreExactAlone`. Workers overwrite
  each other's counts, so nothing can be said of the row alone: the invariant says that
  the count in every worker's copy is backed by posts (`CopiesBacked`).
  `SuccessStaysAlone` and `AttemptsAreExactAlone` follow the one message of a delivery that
  was never queued twice: it is in one hand at most (`OneHand`), and if no process died with
  it row and copy together count every post (`CountsExact`).
* **Templates.** `TypeCorrect`, `ReferencesAreKept`, `CurrentIsLatest`. References hold
  because a version exists only below its template (`VersionsBelowTemplate`), so a
  request that writes a reference to a version it finds refers to a template as well,
  and a deletion takes both. For the current version, `Alone` says what a request knows
  that nobody overlaps: the template is there, the number it inserts is above all
  others, the version it saves is the latest.
* **Organizations.** `TypeCorrect`, `MembersAreLimited`, `AnOwnerRemains`.
  `MembersWithinLimit` counts what is there, but an invitation under way will add to it:
  `SeatsKept` says that the active members and the invitations under way together stay
  within `Limit + joint + extra` while there are any. `OwnersKept` says that an owner
  that is about to be removed leaves another one behind, that at most one removal of an
  owner is under way, and that revivals and removals of members do not hit an owner.
  `RegistrationsAreWhole` says what is still to come: the parts an organization has and
  the parts its registration is still going to add are together all of them
  (`PartsAccounted`) until a part is refused, and whoever has an account is a member, was
  removed, or is claimed by a request that is going to place him or whose slug did not fit
  (`Claims`, `Placed`).
* **FileStore.** `TypeCorrect`, `RowsHaveObjects`, `FilesWork`. A row is inserted by the
  process that stored the object, with the settings it had then, after the object was
  whole (`Sound`); while nobody changed the settings all processes use one store
  (`SettingsAgree`) and every object is in it (`Undisturbed`).
* **Session.** `TypeCorrect`, `ShownOrganizationBelongs`, `QuietTabsShowTheCookie`,
  `PagesFollowTheOrganization`. The organization is chosen from the same answer as the
  memberships. A tab whose calls never overlapped has at most one call under way; if it
  asks for the session, it carries the account of the cookie, and otherwise the tab
  shows that account already (`Fresh`). A page's call carries the organization that is
  shown, or the tab is known to be behind (`Asked`).

* **BulkBatch.** `TypeCorrect`, `CompletedIsIssued`, `CountsFitTogether`,
  `FinishedIsComplete`. Runs overwrite each other's columns, so nothing can be said of the
  batch row alone. `RunKept` says of every run that its own counts tell how many rows it
  has looked at, issued and counted twice (`Covered`, `Tallied`), and `Fits` says of every
  copy of the batch that somebody holds, and may save at any time, that its counts fit what
  was issued by then; they go on fitting because certificates are only added. Runs have
  different numbers (`RunsApart`), so no run counts another's certificates. A run that
  saves COMPLETED has seen every row and refused none. Nothing is claimed of rows without
  an item. `FinishedIsComplete` has an invariant of its own, `CInv`: without a fault or an
  overlap one message, worker or request at a time has the batch (`Alone`), and whoever has
  it knows which certificates that were not deleted the ZIP file lacks (`Collected`) and
  which e-mails to recipients with an address are to be queued (`Mailed`).
* **CertificateLife.** `LifeTypes`, `RevokedOnlyOnce`, `RevocationIsSeen`,
  `TrailIsOrdered`, `CountersAreExactAlone`, and the action property in
  `OnlyAnEditUndoesARevocation`. What is left of a handler's script (`Scripted`) says
  what the handler has done: `TrailKept` counts the handlers between two steps of the
  trail, which is how far events, usage and webhooks are behind each other; a death only
  widens the gap. `Uncrossed` says that a handler nobody overlaps finds the status it
  has read, `CountersKept` that it finds the counters it has read and that the row is
  ahead of the events by the one view or download it has counted and not recorded.
  `LateKept` says that a request which began after the revocation holds the revoked row
  until it answers; neither the clock nor an edit reaches that copy.

All invariants and the action properties of the runs are proved, and both refinements.
Only model-checked is liveness: `EveryCallbackAnswered`, `ConfirmedIsApplied`,
`EveryRequestEnds`, `FailedIsSettled` and `BatchEnds`, because TLAPS does not reason
about ENABLED and fairness here. Nothing in the modules with theorems is recursive. The
inductive invariants were checked by TLC on the instances of the runs before they were
proved.

The proofs corrected two things in the models. `PublicStatus`, `ValidateItems` and
`Outcome` had been written as CASE with overlapping guards, which TLC evaluates in order
and TLA+ does not; they are IF now, like the code. And `RevokedIsShown` had an exception
for edits that the proof did not need: a row read before the edit is what is shown.

## What is not modelled

* Payments: deleting a plan or a gateway's settings, the length of a month in days. `GET
  /plans` seeds the plan rows again and overwrites edited ones; plans are constants here.
* Issuance: recipients created or moved to another address through their own endpoint,
  the expiry date's arithmetic.
* Certificates: lists, filters, certificate types, the serialisation of the public API.
* Bulk: the spelling of headers, dates and cells, beyond what the steps tell apart.
* Webhooks: which webhooks subscribe to an event, signatures, editing a webhook.
* Organizations: logos and branding, API keys; the audit entry of a removal, which is
  written after the row lost its key (`organizations/views.py:114-119`).
* Storage: the validation of an upload, cleaning up: an object without a row stays.
* Accounts: lockout after failed logins, throttling, the contents and rotation of
  tokens. `setupPwaAutoRefresh` (`pwa.ts`) is never called.
* Platform administration: settings pages; a PATCH of an organization saves the full row
  as it was read, like `Edit` in `CertificateLife`.
* Rendering, e-mail, audit, logging, configuration, and the presentation in the pages of
  the client hold no state that a decision of the program depends on.

## Plan

1. An abstract specification of a batch (rows that get their certificate, counts, ZIP
   file) and of a webhook delivery, with proofs that the models implement them.
2. Lockout counters of accounts, and the platform settings that switch gateways off
   while a payment is under way.
3. The arithmetic of expiry dates, against a reference definition.
