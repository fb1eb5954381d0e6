# TLA+ verification of lodestar-server

lodestar-server is the NestJS back end of an online-learning platform. One
code base runs as three kinds of processes: the **web server** (controllers),
**runner** workers (one `Runner` per process, repeated at an interval) and
**tasker** workers (Bull job processors). All keep their state outside of the
process, in PostgreSQL (TypeORM), Redis (caches, counters, challenges, locks),
S3 and the invoice service ezPay. What is hard in this code is not in one
request but between them: two statements of one request with another request's
between them, a process that dies after an effect and before its record, a key
that expires while its value is in use.

This directory holds specifications of the parts where that matters, the TLC
configurations that check them on small instances, and proofs for all
instances. Paths below are relative to `src/` of the repository clone, so that
`src/runner/runner.ts` is `src/src/runner/runner.ts` in `PROJECT.json`.

How to run (in this directory):

    tlc -workers 2 -config MCRunnerLock.cfg MCRunnerLifecycle.tla
    tlapm RunnerLifecycleProofs.tla

| Modules | Model | Checked by | Proofs |
|---|---|---|---|
| `RunnerLifecycle` | a worker process that repeats one runner | `MCRunnerLock`, `MCRunnerLive`, `MCRunnerReplicas` | `RunnerLifecycleProofs` |
| `AppDirectory`, `AppCache` | what a request is told of its app; the keys of Redis and the trigger runner that implement it | `MCAppCache` | `AppCacheProofs` |
| `PasswordLogin`, `DeviceBindCode`, joined by `Auth` | login by password and reset link; mailed codes that bind a device | `MCAuth` | `AuthProofs` |
| `DeviceLimit` | devices of a member, login and forced sign-out | `MCDeviceLimit` | `DeviceLimitProofs` |
| `Orders`, `Programs`, `Podcasts`, `Activities`, `Progress`, joined by `Storefront` | what a member owns and may open, and what the pages and exports say of it | `MCStorefront` | `StorefrontProofs` |
| `Schema`, `Members`, `Imports`, `MemberDeletion`, `Exports`, joined by `Backoffice` | searches, imports, exports and the deletion of members | `MCBackoffice` | `BackofficeProofs` |
| `Invoice` | issuing invoices at ezPay | `MCInvoice`, `MCInvoiceRetry` | `InvoiceProofs` |
| `Porter` | moving Redis events to PostgreSQL | `MCPorter`, `MCPorterOrder` | `PorterProofs` |

The modules list variants named `Bug...` of some of their operators. They
belong to no specification; put in place of the operator, each of them breaks
one of the properties, which shows that the property watches that code.


## Inventory

Modelled parts:

| Part | State | Operations | Interacts with | Hard behaviour | Correct if |
|---|---|---|---|---|---|
| Runner lifecycle (`runner/runner.ts`, `runner.service.ts`, `utility/lock`, `utility/shutdown`, `main.ts`) | lock key in Redis, interval timer, one suicide timer per call, the interval row, time of the last completion | `scheduleRunner`, `run`, `suicide`, `healthz`, module destruction, exit, restart | every runner is executed by it | overlapping calls of `run`, lost answers of Redis, timers racing answers | executions of a process never overlap; the lock outlives the execution; a hang ends the process; errors do not stop the runner |
| App cache and triggers (`app`, `trigger`, `runner/trigger.runner.ts`, `table_log`) | `host:`, `app:` keys with an hour to live; rows of the app; table and trigger logs | `getAppInfo`, `setAppCache`, the middleware's write-back, the trigger run | every request; the runner | write-back racing deletion; logs without order or memory; a lagging replica | answers are made of values something still held; an outdated value leaves in the end |
| Login and tokens (`auth/auth.service.ts`, `auth-limits.ts`, `auth-token.ts`) | three attempt counters, temporary password, reset-link tokens with an index | `generalLogin`, `sendResetPasswordEmail`, `generateTmpPassword` | devices, mail queue, `lodestar-app-backend`, which takes the links | count, comparison and clearing are separate; three commands per token | no more passwords compared than the caps; every link that works can be revoked |
| Device limits (`auth/device`, `member.infra.ts`) | `member_device` rows, login-limit challenge | `checkAndBindDevices`, `logoutExcessDevices`, sign-out, removal | login; bind codes, which are the way out at the bind limit | check and write are separate statements | a limit is exceeded by less than the overlapping logins; a forced sign-out makes room |
| Device bind codes (`mailVerificationCode`, `auth/auth-limits.ts`) | challenge, fail counter, cooldown, send counter, code rows | `sendDeviceBindCode`, `verifyDeviceBindCode`, expiry of everything | devices, mail queue | attempts counted before, returned after the decision; a counter that expires in between | the counter is exact; the cap holds; one live code; an accepted code is dead |
| Entitlements (`program`, `program-package`, `podcast`, `activity`, `product`, `order`, `coupon`, `voucher`) | order logs and lines, discounts, publication and tempo deliveries, staff, attendance | some thirty queries; `transferReceivedOrder` | orders are written by another backend | nothing stores an entitlement: every query repeats the conditions of the others, over terms that begin and end | the queries agree; a transfer moves access; what has lapsed is listed |
| Progress (`program.service.ts`) | `program_content_progress` rows | `trackProgramContentProgress` | the porter | read and upsert without a lock | progress drops only by overlap |
| Members and back office (`member`, `coin`, `webhooks`, `tasker`) | members with their tags, phones, properties; files; Bull jobs | searches, imports, leads, exports, deletion | Bull, storage, database schema | stalled and repeated jobs, a watchdog that kills, restricting foreign keys, a process-wide time zone | files are accounted for; members keep what they were given; deletion is whole |
| Invoices (`runner/invoice.runner.ts`, `invoice`, `payment.infra.ts`, `order.infra.ts`) | payment and order logs' invoice options, `invoice` rows, what ezPay issued | the batch, `issueInvoiceByPayment`, `issueInvoiceDirectly`, `POST /invoice/issue` | ezPay | an effect that cannot roll back inside a transaction that can | no record without an invoice; no invoice without a record, nor a second one, but by the known losses |
| Porter (`runner/porter.runner.ts`, `runner/porter-command`, `porter-program.service.ts`, `podcast`) | one key per event or member in Redis, log and progress rows | four commands that SCAN, read, save, delete | login and players, which write the keys | two stores without a common transaction; SCAN's pages; several porters | nothing is deleted untried; copies and lost logins have known causes; Redis empties |

What is left out of these parts is said in their sections, and the parts that
are not modelled at all under "Not modelled". `PROJECT.json` lists every part
with its files, and under "hazards" every place where one of these behaviours
can go wrong, with the properties that watch it.


## Runner lifecycle

Each worker instance has a process `phase`, the registered interval (`armed`,
`period`, `ticker`) and a set of call *slots*: `run()` is an async method the
scheduler calls without waiting for the last call, so several may be open. A
call goes `occupying` (SET NX sent) - `granted` (applied, answer under way) -
`executing` - `releasing` (DEL) and so on; its suicide timer is `suicide`, `age`
and `limit`. The Redis lock is `owner` and `ttl`.

* `Fire`, `LockGranted`, `LockRefused`, `GrantLost`, `StartExecute`,
  `ExecuteDone`, `ExecuteFailed`, `Release`, `ReleaseFailed`, `FinishRun` and
  `Reschedule` are the stretches of `run()` and its `finally` between awaits.
  `SuicideFires` and `SuicideShutdown` are the timer and the rest of
  `suicide()`. A lost answer is `GrantLost`: the key is there and the caller
  gives up.
* `Sigterm`, `DestroyModule`, `Exit`, `Crash` and `Restart` are the process,
  `Healthz` the probe, which fails as `HealthzFails` says; nothing is claimed of it.
* `Time` advances all clocks by one unit. It does not pass a due timer, and
  Redis answers within `MaxDelay`; `execute()` may take any time. The lock
  rests on durations alone (2 and 1.1 intervals), so time cannot be abstracted.

Durations are in abstract units. `LockTtl` and `SuicideAfter` are the code's
formulas; `TimingOK` is what they have to satisfy together with `MaxDelay` and
is true of any interval of more than a few times the delay of Redis, provided
that intervals an operator configures do not differ by more than the factor
between the two: with intervals 8 and 10 it holds.

| Run | Shows | Bounds |
|---|---|---|
| `runner_lock` | `TypeOK`, `OneExecutionPerProcess`, `LockOutlivesExecution` | one process (processes of a worker share nothing, each locks its own key), two slots: an execution and the call it must keep out; two intervals, as the row may change while a call is open |
| `runner_live` | `HungRunEndsProcess`, `KeepsExecuting` | as before, one short interval |
| `runner_replicas` | violated: two replicas of a worker execute together, each under a lock of its own, where a test says that only one does | two processes, one slot |

Fairness (`RecoveringSpec`): time passes, the event loop runs due callbacks, and
Redis and PostgreSQL answer, be it with an error (weak fairness of each step).
`KeepsExecuting` needs in addition that Redis does not refuse for ever
(`RedisRecovers`, strong fairness of a grant and of its answer). Nothing is
assumed of `execute()`, crashes, signals or the probe.

Proved: type correctness, and under `TimingOK`, for any number of processes,
slots and intervals, `LockOutlivesExecution` and `OneExecutionPerProcess`.
Neither is inductive: `LockInv` adds how much of its time to live a lock has
left compared with the age of the call's timer, at each place of the call.


## App cache and triggers

A request (`Begin` to `RequestDies`) finds the app of its host in Redis or the
database (`HostFromDatabase`), looks whether all keys exist (`Check`), reads
them one by one (`ReadCache`) or takes the rows from the database
(`ReadDatabase`), is answered, and then writes what it read back key by key
(`SetAppCache`, which merges into the fields a key holds: `Merge`). Any command
may fail (`RedisFails`), any key expire (`Expire`). `ChangeRow` and `Rebind`
change rows and leave table logs; `RunBegins`, `RunHandles`, `RunCommits` and
`RunFails` are a run of the trigger runner, which takes up to `Limit` logs up to
the time of its newest trigger log, in any order, those already handled again,
and deletes the key that each names. Reads outside a transaction go to a
replica, which follows at its own pace (`Replicate`). Only this part models the
replica; the others read in transactions or are indifferent to a lag.

`AppDirectory` is the promise without the keys: a value becomes known by being
written to the database, may be forgotten once it is no longer there, never
returns by itself, and every answer is made of known values; hashes are missing
from an answer only when they were deleted under it. `ImplementsDirectory` is
that `AppCache` implements it, `known` being what the rows, the replica, the keys
and the open requests hold of a field (`KnownOf`).

`OutdatedLeaves`: once requests stop, what was updated or deleted does not stay
in Redis. It needs weak fairness of the steps of the runner, which is started
again and again (`KeepsExecuting` of the runner lifecycle) and whose failures are
bounded, and that all logs fit one batch (`Limit` at least the number of
changes): with more, the code takes the same ones again and may never reach the
others, which is the hazard listed at `trigger.service.ts:28`. Rows that are
inserted may be missing from a cached hash until it expires, and nothing deletes
the key of the modules, so the property speaks of neither.

* `app_cache`: one request slot, two apps of which one has rows, two values,
  hashes with and without a handler, two changes, one failing run, two logs per
  batch. Two changes are the least for a write-back of the oldest value to
  follow the deletion for the newest, and one slot is used again and again, so
  that every request meets what earlier ones left. Several requests at once are
  covered by the proof.

Proved for any number of requests, apps, hashes and changes: the types, and the
refinement. The inductive invariant (`IInv`) adds to the types that the runner's
batch lies within the logs (`Within`) and what a request has read at each place:
nothing before its check, afterwards every hash it is done with, unless the key
was there at the check and deleted before it was read (`Reading`). The clocks of the database and of the runner are assumed to agree.

Left out: name, host, organisation and default permissions, which are kept
beside the hashes; queries of `app.infra.ts` that only read; the installation of
the triggers at start.


## Login and tokens

`PasswordLogin` takes one member and every request for a login. `Register` is
the script that counts an attempt on three counters, of the account at the
address, the account, and the address, and refuses over a cap. Then the member is
looked up by what was typed, exactly, while the counters' keys are made from it
trimmed and in lower case (`AccountOf`); a temporary or the right password ends
in `ClearAttempts`, which keeps the counter of the address; a member without a
password goes on to `Acquire`, `CountIssue`, `SetToken`, `AddToIndex`,
`RenewIndex`, `CopyToken` and `MailLink`, each a command to Redis. Any request
may throw or die after any command (`PasswordFails`), every key expires by
itself, and `ResetPassword` is the other backend, which revokes what the index
names; it is external, and modelled from the contract in `auth-token.ts`.

* `AttemptsBounded`: while a counter lives, no more passwords are compared than
  its cap, counting those of open requests, however they overlap and however
  others succeed meanwhile. History variables say which counters a request was
  counted on (`holds`) and what was compared (`compared`); a successful login
  renews the account, but never the address.
* `LinksRevocable`: every mailed link that works is in the index, or was added
  to an index that expired before its time was renewed (`dropped`): SADD and
  EXPIRE are two commands, and an hour may end between them. There is no other
  way to lose one, although tokens, index and requests overlap: an index lives
  at least as long as any token in it (`IndexExpires`).

Left out: a backend that consumes the key of the older format, which is only
written here; `refreshToken` and the logouts, whose state is the session; the
device check that follows an accepted login, which is `DeviceLimit`.

`Auth` joins it with the device-bind codes: the two share no key and no row, and
either may happen at any time, so a behaviour moves one of them (`focus`).

* `auth`: see also the next section. Two requests; a member with a password,
  two names for the member and a spelling of one in capitals, two addresses and
  three attempts with caps of 1 and 2, which are the least to exceed a cap after
  a counter below it expired; or a member without a password, two logins and two
  tokens, which are the least for one link to depend on the index of another.

Proved for any number of requests, accounts, addresses and tokens and any caps:
types, `AttemptsBounded` and `LinksRevocable`, and that every behaviour of `Auth`
is one of `DeviceBindCode`. `AttemptInv` adds that a counter has counted all that
compared or wait (`CounterCounts`) and that only a request between its count and
its decision waits; `LinkInv` that a request's token is its own and unmailed,
that after SADD it is in the index or dropped, and after EXPIRE the index
outlives it (`IndexHolds`).


## Device bind codes

One member of one app. A verification goes through the challenge, the attempt
counter, the live codes, the devices, the removal of the oldest, the expiry of
the codes, and the return of its attempt; a send through the cooldown, the send
counter, the expiry of old codes and the insertion of the new. All keys and
rows may expire at any time; a request may throw or die at every step.
`SlowVerifications` lets a verification outlive the counter (an hour) it was
counted on; `SlowSends` a send its cooldown (60 s). The latter is off in the
run: with it two codes can be alive, which the code does not claim to exclude.
History variables (`holders`, `wrong`, `kept`, `debt`) say what became of every
attempt.

* `auth`: `WrongCodesBounded` and `CodesDie` (one code is alive at a time, and an
  accepted one is dead). Two verifiers, two senders, two codes, `Cap` and `SendCap` 1, two code
  rows, two requests open at a time (`MaxOpen`): the races are between two
  requests, and a counter may be created, expire and be created again under them.

Proved for any number of requests and codes: type correctness, the accounting
(`CounterAccounts`), the cap up to returns to a newer counter, and the plain cap
(`BindCapNotExceeded`) if no verification outlives its counter. The invariant
adds that only requests between their count and their decision hold an attempt.
`CodesDie` is proved for sends that do not outlive their cooldown (`~SlowSends`,
as in the run): one send is then between its cooldown and its end (`OneSends`),
and the codes a verification has yet to compare or expire are those of the rows
it listed (`MatchesListed`).


## Device limits

The rows of one member's devices are `row` (id by browser), `earlier` (the
order of `last_login_at`) and `logged`. A login (`Login` to `SaveFound` or `SaveNew`)
reads the devices, decides (`Admit`, `RefuseBind`, `RefuseLogin` with
`WriteChallenge`), and finds and saves its row in two statements; a request of
manage-logged-in-limit (`Manage` to `ClearChallenge`) reads the devices again
twice, cuts the list and signs out by id. Requests may fail at every statement.

* `device_limit`: `TypeOK`, which says that rows, order and flags of the devices
  agree, `OvershootBounded`, `SliceMakesRoom`. Limits of 1 and 2, two logins, one
  manage request, four browsers with one row each: enough for two logins to
  pass a check together, for the excess to be seen by the next, and for the cut
  to work on a list that changed after the check.

Proved for any limits and numbers of browsers and requests: all three. The
invariant of `OvershootBounded` counts, with the devices, the browsers that have
been admitted and not yet written (`Admitted`), of which there are no more than
open logins. That the devices keep a total order (`OrderOK`) follows from each
login putting its browser last; `SliceMakesRoom` is a lemma about `slice` with a
negative end (`SliceLeaves`) and a count of what is left.


## Storefront

Nothing stores what a member owns. Every page and every check joins the order
lines of the member with the catalogue, and each query repeats the conditions of
the others, with its own omissions. A module has one operator per query, named
as the method is, over the rows of `Orders`: an order line is delivered, has a
term (`OnTerm`), and belongs to the member its order was placed or transferred
to. `Purchase`, `Pay` and `Refund` stand for the backend that writes orders,
`TransferReceivedOrder` is this server's; `Tick` moves the clock.

* `Programs`: seven queries for the contents of a program, seven for one content,
  five for the program, and the pages of owned and expired programs and
  packages; contents are published, programs of a package released and tempo
  plans delivered meanwhile.
* `Podcasts`: the podcasts a plan opens, and the owners the exports of orders
  name for it.
* `Activities`: attendance and seats, told by four readers.
* `Orders`: also the three exports and whether a coupon is used. An order has a
  set of discounts, some of them coupons, and a shipping fee; `DealsOf` says
  which an order with a product can have.
* `Progress`: `trackProgramContentProgress` as a read and an upsert of concurrent
  calls, and the view rate. Of the four branches of `contentProgressSubquery`
  the last reads the rows these calls write; what the others give, for an
  exercise or exam, an ebook and a practice, comes from tables written elsewhere
  and is one given grade per member and content (`GradeOf`, in hundredths): that
  answers come in or a practice is withdrawn meanwhile is left out.

The properties say where two readers agree, and name every exception: an app
owner's list, an assistant's programs, a card of a program without staff, a
tempo plan after a transfer, the very instant a term ends, a ticket with two
holders, plans without a coupon in a condition of the exports, the coupon of an
order that was transferred, an upsert that read before another write. Each of
these is code that does not do what its neighbour does.

* `storefront`: two members, two orders and two lines (a member owns by one line
  what another line or member does not), six shelves of two offers each, that is
  every pair of conditions that are alternatives of each other; four instants,
  so that terms begin, run, end and are over; one transfer. Staff matters to the
  roles and is added to one shelf (`MCScenes`). Tempo programs are handed out
  from two instants (`TempoChanges`), and seven conditions of the exports meet
  each of the three filters given, absent and empty. A podcast plan is bought
  with no discount, or with a coupon and a sale that together cost more than the
  plan and its shipping fee, so that totals are cut at zero and an export by
  coupon hides the sale of a row it shows; the program of the same shelf has a
  fee alone. Progress shares no state with the orders, so it has a scene of its
  own: two calls for a video and a graded exam, that send a large, a smaller or no
  progress (`Bodies`).

Proved for any catalogue, members, orders and instants: the types,
`SpentCouponShown` (by `Spender`: the member of an order that was never
transferred is the one whose wallet the coupon is from), `ListAgreesWithContent`
and `ListedContentOpens` (the fourteen queries are equivalent one by one, in any
typed state), `LapsedIsListed` (only `Tick` moves time, and leaves all else) and
`TransferMovesAccess` (only a transfer transfers, and what lines give is given
by the same lines afterwards, `BoughtAfter`, line by line, `BoughtTogether`) and
`OwnedPagesOpen` (each page is one of the queries, or a join of the same rows).
The other three need an invariant, and sums:

* `ProgressNeverDropsAlone`: a call that no write overtook holds the row as it
  is (`ReadsFresh`), and the maximum it takes is no less; the view rate then
  drops only with a row of which it is the average (`SumGrows`,
  `QuotientGrows`).
* `OrderExportsAgree`: a line belongs to an order that is there
  (`LinesPlaced`), so each line of the second export is shown by one order of
  the first; the rows of the other two for an exported order are those it shows
  (`ShownElsewhere`), and a part of its discounts is no more than all of them
  (`SumOfPart`, `HiddenDiscountsRaise`).
* `AttendanceTold`: who attended holds a ticket to the session
  (`AttendedHeld`), and the rows of the view fall apart by session and kind of
  seat, so that their number is the sum of the counts (`SumOfSizes`).

What a fold over a finite set is has no axiom here: `SumExists` and the lemmas
after it derive it from the definition, by a least subset for which it would
fail (`LeastSubset`). The proofs assume what a database is: lines, tickets and
sessions are finitely many, and a row is not the absence of one
(`OrdersAssumption` and the assumptions of `Activities` and `Progress`); that the
ids of products are uuids, which no two tables share (`TargetsAssumption`).

The view of attendance has a row for each line and each kind of seat of its
ticket in the session (`Seated`). It has no key, and what TypeORM makes of rows
without a key in the list of participants is not modelled: the counts are
compared with the rows of the view.

The totals are those of `orderLogToRawCsv`: the lines shown, less the discounts
shown, plus the shipping fee, and never below zero. As one query selects and loads,
a condition on products or on discounts hides the other lines or discounts of an
order, and its total with them: the last part of `OrderExportsAgree` says that
hidden discounts only raise it. A price is that of the product, a reduction that of its target,
and an order has a target once.

Left out: titles, prices beyond the totals, durations; the tabs of activities and
the exports of their participants; codes and scopes of coupons and vouchers.


## Back office

* `Schema` is the set of foreign keys that lead to a member, table by table, all
  ON DELETE RESTRICT; `MemberDeletion` the transaction that clears these tables
  in its order (`Statements`), READ COMMITTED, while others write rows (`Write`);
  `Refuse` is a foreign key in its way, `Fail` a lost connection. The audit log
  comes after the transaction; after a success it names as member the whole
  entity (`member.controller.ts:231`), which the model keeps as the member.
* `Members` holds the two searches: a list of members and counts by role, over
  one query with joined conditions.
* `Imports` is the importer on a Bull queue: files fetched, rows saved in a
  transaction each, the file deleted, the results mailed; Bull starts a stalled
  job once more while the stalled worker may be dead or still at it (`Stall`,
  `Die`); files are uploaded again, members edited (`Change`, which also stands
  for the deletion above) and leads stored (`ReadLead`, `StoreLead`).
* `Exports` is the exporter, as far as the time zone goes: the default zone of
  the process is set for a job, and a job that was timed out runs on. It is set
  before the first await, so `TakeExport` includes it.

Imports and searches share the members; deletion and exports share nothing with
them at this grain, so a behaviour moves one of the three (`focus`, scenes).

* `backoffice`: `SearchesAgree`, `ImportsAccounted`, `ImportKeepsMembers`,
  `DeletionIsWhole`, `ExportsKeepZone`. Jobs of coins (two files under one key,
  two files of one job) and of members (two edits, one addition, one edit that
  meets a lead for a member); only some jobs stall (`Stallable`), one of two
  members is changed once (`MaxChanges`, `Restless`) to one new name (`Renames`),
  leads come beside one job (`Sought`). The deletion meets every chain of three
  rows in any tables, each holding the one before, written before it begins or
  while it runs (`MaxRows`): a key is in the way when two rows are cleared in the
  wrong order, and a third row says to whom the first belongs. Two workers, two
  exports with different zones, one of which stalls (`Unsteady`).

Proved for any jobs, files, rows, members and conditions:

* The types, by what a run holds at each stage: typed rows of its file while
  it saves, and a result for each file it is done with (`ReadOK`, `RunOK`).
* `ImportsAccounted`: `FilesFate` says where a version is - in the storage,
  tried, or shadowed by another under its key - and that while one is imported,
  every other under its key is past being imported (`Passed`), so that clearing
  the key loses none; `Booked` what a run inserted of each file, at each stage.
* `ImportKeepsMembers`: the rows that wait to be saved, and the lead, hold the
  name the member has or a new one, unless he was changed since they were read
  (`KInv`, with `RowFits` and `LeadFits`).
* `DeletionIsWhole`, by `DInv`: every key leads to a row that is there, in the
  tables and in what a rollback restores (`KeysLead`); the rows of the start are
  in the one or the other (`Restores`); what is behind the statement at hand is
  cleared (`ClearsAll`), of which the last says that nobody is left; no row is
  lost that was not to be swept out (`SparesOthers`); and a foreign key in the
  way of a statement is one of the two reasons (`RefusedRightly`). It is here that
  the order of the statements is checked against `Schema`, table by table.
* `SearchesAgree`: of the rows that the joins make of a member there is at least
  one if he fits, and no more than one where each condition matches once
  (`JoinedFits`, `OneRow`), and the rows of different members are different
  (`RolesCounted`); a property asked for twice is counted once by the HAVING and
  twice by what was asked (`PropertiesJoined`).
* `ExportsKeepZone`, by `EachAlone`: a run that shares its process with none finds
  the zone it set.

The proofs assume what the code's names are: a blank is none of them, the rows
of a file are those validation lets pass, a request names each file once
(`MembersAssumption`, `ImportsAssumption`, `DeletionAssumption`,
`RowIdsAssumption`), and that members and their tags, categories and groups are
finitely many. A row for a new member is saved only while an id is free
(`HasId`): ids are v4, and running out of them is a bound of the model.

Left out: paging (`typeorm-cursor-pagination`), columns the searches do not ask
for, the data of sale leads, mails and file contents. An import that names the id
of a member of another app is not told apart.


## Invoices

Rows of `payment_log` are reduced to the columns the WHERE clause reads:
status, retry and `invoice_issued_at`. A batch of the runner (`Select`, `Take`,
`EndBatch`) holds one transaction; `issueInvoiceByPayment` writes in it, and
`issueInvoiceDirectly`, for payments with prepared invoices and for back-office
requests, in one of its own: `Tx`. Transactions are PostgreSQL's: drafts in
`tx[t].writes`, row locks until the end, an aborted transaction that fails every
further statement and whose COMMIT rolls back. ezPay answers `Issued`,
`Refused`, not at all (`Unreached`), or issues and its answer is lost
(`AnswerLost`). `Throw` is the catch of an attempt, which writes LODESTAR_FAIL.

Assumptions, from how TypeORM and the clients are used: `save` inside a
transaction opens no savepoint, a property that is `undefined` leaves its column
alone, a SUCCESS carries an invoice number. Left out: the contents and rounding
of an invoice, the three-day window and the static filters of the query,
`searchInvoice` and `revokeInvoice`.

* `invoice`: `RecordsAreReal`, `UnrecordedOnlyIfLost`,
  `DuplicatesOnlyAfterLoss`, `AbortedBatchIssuesNothing`. One runner, one
  request, one order with two payments (one invoice row per order, so the two
  conflict), each with or without a prepared invoice, two calls of ezPay for
  each number (`MaxCalls`) and retry cap 2, ezPay that accepts a number twice.
  The end of the batch is where work is lost, and two payments are the least a
  batch can lose one with the other. Deadlock is not checked, as the system
  rests when nothing is due.
* `invoice_retry`, violated: an attempt of `issueInvoiceDirectly` that throws
  counts itself in the transaction its rethrow rolls back, and is repeated
  without limit, where a test says at most 5 times. `SplitSpec` (in `MCInvoice`)
  asks this alone: the payment has prepared invoices, so that every attempt is
  made in its own transaction; ezPay is out of reach; no statement fails and no
  process dies. The trace is five times Unreached, SavePayment, SaveOrder,
  Rethrow, with the committed retry count at 0, and a sixth call. (A batch that
  rolls back for another reason loses the counts of `issueInvoiceByPayment` too,
  with its records; that is not what this run is about.)

`UnrecordedOnlyIfLost` and `DuplicatesOnlyAfterLoss` do not say that nothing is
lost - the code does lose records - but that there is no other way to lose
one than the rollbacks and lost answers counted in `lost`.

Proved for any orders, payments, runners, requests and bounds: type
correctness, `RecordsAreReal` and `AbortedBatchIssuesNothing`. The inductive
invariant is `InvoiceInv`: an attempt that will write SUCCESS has an invoice
(`AttemptOK`), drafts are as real as committed rows (`DraftsAreReal`), an
attempt that is about to call ezPay has its transaction intact (`CallsReady`),
and every invoice was asked for (`Asked`, which bounds the types).
`UnrecordedOnlyIfLost` rests on `BooksInv`: who writes a row holds its lock
(`LocksHeld`), no draft takes back a claim (`ClaimsKept`), a runner takes a
payment once per batch (`CurOK`), an invoice is pending in the transaction of the
attempt that got it, or of its batch, and the rows that claim it are drafted or
still to be written (`PendingOK`), and each invoice is recorded, pending or lost
(`Accounted`).
`DuplicatesOnlyAfterLoss` rests on what an only runner may still ask for before
it selects again (`ToAsk`), of which nothing exists that was not lost
(`FreshInv`). The proofs assume what the code's ids are: that runners, requests
and payments are told apart and no row of a payment is the absence of one
(`NamesAssumption`, `NoneAssumption`).


## Porter

A porter runs the four commands of `PorterRunner.execute` one after the other.
`cache` is Redis, `loginedAt`, `copies` and `progress` what PostgreSQL holds of
members, events and podcast records. `Login` and `Arrive` write keys meanwhile.
`Scan` returns any page in any order; a full iteration returns every key that
was there throughout, which is all Redis promises. A page is read and saved:
logins row by row (`UpdateLogin`, `DeleteLogin`), player and podcast events as a
batch with a row-by-row fallback (`SaveBatch`, `SaveBatchFails`, `SaveOne`,
`SaveOneFails`, `DeleteOne`, `DeleteBatch`), phone events in one transaction
each, all at once (`WriteNotes`, `DeletePhoneKey`, `EndCall`, `CallThrows`), with
the key deleted before the COMMIT. `Throws` ends a command, `Die` the process.

Assumptions: keys do not expire (7 days, against runs of minutes), values are
well formed, transactions that a rejected `Promise.all` left behind end before
the next page of phone events is read, and reading and saving the progress of a
podcast record is one step.

* `porter`: `EventsSavedOnce` (nothing is deleted untried, and copies come only
  from porters that overlap or fail), `LoginLostOnlyIfMissed` and, under
  `LiveSpec`, `EventsLeaveRedis`. Two porters, because replicas of a
  worker do run together (`runner_replicas`). One stream has keys in a behaviour
  (`MCBusy`), as streams share nothing but the order of the commands; two events
  each, one of them of unknown content or refused by the database, two pages
  (`MaxPages`), two logins, one failure or death (`MaxFailures`). Two events and
  two pages are enough for a batch to mix good and bad events, for a page to
  miss one, and for the other porter to delete a key between SCAN and read.
* `porter_order`, violated: podcast events are sorted within a page only, so an
  older event on a later page overwrites a newer one, where a test says the last
  one stays. It takes neither a second porter nor a failure.

Fairness: a porter that can take a step takes one in the end (WF of `Port(p)`):
the runner is started again and again (`KeepsExecuting`), its commands answer or
throw, and failures are bounded. Failures and deaths are not fair.

Proved for any number of porters, keys, pages, logins, failures and deaths:
types, `EventsSavedOnce` and `LoginLostOnlyIfMissed`. `PlacesInv` says what a
porter holds at each place: the page and the entries it read are what was there,
and what it has passed in them was tried. On it rest `NothingDropped` and
`CountsInv`, by which the copies of an event and the porters that may still save
it are no more than porters and failures; and `DatesInv`, by which a porter that holds the date of a member nobody missed holds the last
one, stored before its key is deleted (`Holding`). The proofs assume that keys of
the four streams are told apart (`KeysAssumption`).


## What is proved and what is not

The proofs hold for every value of the constants that satisfies the `ASSUME`s of
the modules, and of the stated conditions: `TimingOK` for the runner's lock,
`~SlowVerifications` for the plain cap, `~SlowSends` and a set of codes that is
not empty for the codes. Each
follows one pattern: the property is strengthened to an inductive invariant,
named in its section, that every initial state satisfies and every action
keeps, with a step of the proof for each action; the refinement of `AppDirectory`
has in addition a lemma per action that maps it to a step or a stutter.

| Theorem | Says |
|---|---|
| `RunnerTypeCorrect`, `RunnerLockOutlivesExecution`, `RunnerMutualExclusion` | types; under `TimingOK` the lock outlives its execution, and executions of a process exclude each other |
| `CacheTyped`, `RequestsImplementDirectory` | types; the refinement `AppCache` => `AppDirectory` |
| `PasswordsBounded`, `LinksStayRevocable`, `AuthTyped`, `AuthMovesCodes` | see "Login and tokens" |
| `BindTypeCorrect`, `BindCounterAccounts`, `BindWrongCodesBounded`, `BindCapNotExceeded`, `BindCodesDie` | see "Device bind codes" |
| `DeviceTypeCorrect`, `DeviceLoginOvershoot`, `DeviceBindOvershoot`, `DeviceOvershoot`, `DeviceSliceMakesRoom` | types; both limits hold up to the logins that overlap; a forced sign-out makes room |
| `StorefrontTyped`, `SpentCouponsShown`, `ListsAgreeWithContents`, `ListedContentsOpen`, `LapsedListed`, `TransfersMoveAccess`, `OwnedPagesOpened`, `ProgressDropsRaced`, `OrderExportsAgreed`, `AttendanceIsToldAlways` | see "Storefront" |
| `BackofficeTyped`, `SearchesAlwaysAgree`, `ImportsAllAccounted`, `ImportsKeepMembers`, `DeletionsAreWhole`, `ExportsInTheirZone` | see "Back office" |
| `InvoiceTypeCorrect`, `InvoiceRecordsAreReal`, `InvoiceUnrecorded`, `InvoiceDuplicates`, `InvoiceAbortedBatch` | see "Invoices" |
| `PorterTypeCorrect`, `PorterSavesEvents`, `PorterDatesRight` | see "Porter" |

Every invariant and action property that a passing run checks is stated by one
of these theorems. Only model-checked are the liveness properties
(`HungRunEndsProcess`, `KeepsExecuting`, `OutdatedLeaves`, `EventsLeaveRedis`):
they rest on fairness and ENABLED, which the prover does not reach. The three
violations are counterexamples, and TLC shows each.


## Not modelled

* Sessions, cookies, CORS: `express-session` with a store in Redis keeps the
  state; this code regenerates, saves and destroys sessions. `refreshToken` and
  the logouts belong here.
* Guards and permissions: decisions on one request.
* Trigger switchboard: single queries and logs. Its service is a singleton whose
  fields requests overwrite across awaits, which can only mix up the text of an
  error log.
* Payments, vendors, social, checkout, appointments, projects: empty or read-only
  services; payments are written by another backend.
* Mail and media: jobs for queues another service drains, calls of S3, CloudFront
  and Cloudflare, whose state is theirs. The processor of the mail tasker is empty.
* Events and exclusive resources: single statements; that a resource is exclusive
  in time is left to the database.
* Equities, merchandise, sharing codes, calendar, reports, feeds: queries that
  keep no state, some behind a cache of an hour that nothing invalidates.
* Data deletion callback, shell, logging, configuration, migrations: no state.


## Where the code disagrees with its tests

Three runs expect a violation, each of a sentence that a test of the repository
states; `PROJECT.json` quotes it under "findings".

| Run | Violated | In short |
|---|---|---|
| `runner_replicas` | `OneExecutionPerWorker` | replicas of a worker lock keys of their own and execute together |
| `invoice_retry` | `RetriedAtMost` | the count of a failed attempt is rolled back with it |
| `porter_order` | `LastRecordStays` | podcast events are sorted within a page of SCAN only |
