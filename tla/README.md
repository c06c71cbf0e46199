# A formal model of the client data extraction service

TLA+ modules, TLC runs and TLAPS proofs about the extraction service in `src/`: a FastAPI
back end with Celery workers that reads per-shortcode, per-day CSV objects from S3, filters
their rows, packages the result as a ZIP in a report directory, and serves, mails and
expires that report. `src/backend/app/` is abbreviated `app/` below.

Contents: [inventory](#1-inventory), [plan](#2-plan), [modules](#3-modules-and-the-code),
[runs](#4-the-runs), [fairness](#5-fairness), [proofs](#6-proofs),
[findings](#7-where-the-code-and-its-documents-disagree), [limits](#8-what-is-not-modelled).

## 1. Inventory

| Component | Code | State it keeps | Operations | Modelled in |
|---|---|---|---|---|
| Job intake | `app/api/routes/jobs.py`, `app/core/job_id.py`, `app/services/job_service.py` (`create_job`) | rows of `extraction_jobs`, the Celery queue | authorize, allocate the Job ID (read, insert, retry), commit PENDING, audit, `.delay()`, get with visibility rules | `JobIdAllocation`, `JobPipeline`, `AccessControl` |
| Extraction worker | `app/workers/tasks/extraction_task.py`, `job_service.run_job` | job status, `report_metadata`, the job's temp and final directory | status check, claim, extract, package, publish, record, error handler | `JobPipeline` |
| Report storage | `app/services/storage_service.py` | `jobs/.{id}.tmp`, `jobs/{id}` on a shared volume | `new_temp_dir`, `publish`, `delete_job_dir`, `cleanup_orphan_temp_dirs` | `JobPipeline` |
| Retention | `app/services/retention_service.py`, `app/workers/tasks/retention_task.py` | status EXPIRED, the directories | select lapsed reports, delete, clear temp dirs, commit | `JobPipeline` |
| Download | `app/api/routes/reports.py` | download tokens (stateless) | check, audit, stream the ZIP with its checksum | `JobPipeline` |
| E-mail, Drive | `app/services/email_service.py`, `app/workers/tasks/email_task.py`, `POST /reports/{id}/email` | `email_deliveries`, the OAuth token cache, upload sessions and files on Drive | create the delivery, attach or upload in chunks and share, send, record | `EmailDelivery` |
| Live log | `app/services/job_log_service.py`, `src/frontend/app/jobs/[jobId]/page.tsx` | `job_logs`, the page's cursor and lines | append, `fetch(after_id)`, overlapping polls | `LiveLog` |
| Login throttle | `app/services/auth_service.py`, `POST /auth/login` | failure counters in Redis | INCR, EXPIRE, fail open, DEL | `LoginThrottle` |
| Sessions | `app/api/routes/auth.py`, `app/core/security.py`, `app/api/deps.py`, `src/frontend/lib/*`, `Nav.tsx` | access and refresh tokens, the denylist, the browser's store, the pages' timers | log in, refresh, log out, check, keep alive, idle logout | `Session` |
| Access control | `app/core/rbac.py`, `app/services/authorization.py`, `app/api/routes/admin.py`, `app/api/deps.py` | accounts, roles, grants, active flags | check a permission or a grant; create, edit, delete accounts; grant, revoke, switch codes | `AccessControl` |
| Audit log, seed | `app/services/audit_service.py`, `app/scripts/seed.py` | `audit_logs`; the first administrator | record best-effort, detach on deletion; upsert | `AccessControl` |
| S3 discovery, row filter | `app/services/s3_service.py`, `app/services/extraction_service.py` | the files found, the CSV being written, its statistics | list day by day or all at once, page by page; open; filter; write | `Extraction` |
| ZIP and checksum | `app/services/zip_service.py` | none | `create_zip`, `sha256_file` | one step of `JobPipeline` |
| Other scripts, config, schemas, other pages | | settings | no interaction of interest | no |

How they interact. The browser calls the API; `POST /jobs` checks the caller's grants, commits a
row and then publishes a Celery message naming it. The broker hands messages to worker processes,
which acknowledge *after* the task (`task_acks_late`), so a message is either waiting, held by a
worker, or gone. The worker, the retention task (another Celery task, started by beat) and the
download handler do not talk to each other: they meet in the database row of the job and in two
directories named after it. No lock protects either. The e-mail task reads the same directory
later. The live log is written in transactions of its own and polled by the page. The extraction
reads a bucket that the client goes on writing to. All tabs of a browser share one access token and
one cookie, and every request looks its user up by that token, once.

What is hard. (a) Every operation that touches both the database and the volume does so in
several steps, and no transaction spans them. (b) The status check and the claim of
`run_extraction_job` are two transactions. (c) A worker may die at any step, be killed by the
hard time limit, or see an exception anywhere, `run_job`'s own handler included. (d) The broker
may deliver a message twice. (e) Retention acts on a set it read earlier and commits once,
after deleting files one by one. (f) Downloads check a path and open it later. (g) Job IDs are
computed from a read and protected only by a unique constraint. (h) A listing takes several
requests, and the bucket changes between them and before the files are opened. (i) Routes read the
caller, the account and the grants in one statement each and write in another; administrators edit
the same rows meanwhile. (j) Refreshes, logouts and refused calls of several tabs are in flight at
once, and each answer sets or clears the shared cookie when its headers arrive and the shared token when its
body has been read. `PROJECT.json` lists these and the others as
hazards, each with its line.

What makes each component correct:

* intake: Job IDs are unique, gapless within a day and ordered by commit; a request is refused
  only under contention as heavy as the retry loop is long; what is accepted gets queued;
* worker and storage: one run per job at a time; statuses move along the documented arrows;
  nothing partial becomes visible; a job is left without a final status by four named events only;
* retention: nothing is removed early, what has lapsed goes, also after failed runs;
* download: what is served is the report whose checksum the response states;
* e-mail: a delivery is mailed once, with a link that opens, before its verdict, and once more only for a
  message that came back; it ends SENT or FAILED unless one of three named events loses it;
* live log: what the page shows is a growing beginning of the log, and a line that is missing was kept
  away by one of five named events;
* login: a failure counter ends with its window unless INCR and EXPIRE were severed; a logout that
  nothing crossed holds; the cookie that renews a session stays until a logout; an active user stays
  signed in until something named disturbs the session;
* access control: what a request is answered was so; nothing refers to an account that is gone; the
  trail is kept; concurrent edits do not undo each other;
* discovery and filter: every file of the request that stays is found and read, exactly the
  qualifying rows are written, each once, and the figures of the report are true.

## 2. Plan

Done: `JobIdAllocation` and `JobPipeline` (the core), `EmailDelivery` with the chunks of a Drive upload,
`LiveLog`, `Extraction`, `LoginThrottle`, `Session` and `AccessControl`, each with its proofs; the
abstract specifications `JobLifecycle`, `JobIdCounter`, `DeliveryLifecycle` and `FollowedLog`, with the
proofs that the detailed modules implement them; and the safety halves of the liveness properties
(section 6). What is left, in the order intended:

1. An abstract extraction (a request and a set of rows), so that `JobPipeline`'s opening and
   finishing of the CSV is what `Extraction` implements.
2. The audit entries of logins, downloads and e-mails, and the download token's own life.
3. The end of the refresh cookie's seven days, and a Redis that loses its denylist.

`JobPipeline` composes worker, storage, retention and download because they share state.
`EmailDelivery` sees of the pipeline only a report whose file may vanish, which is what
`JobLifecycle` promises it: a COMPLETED job's report stays as it is until retention removes it.
`LiveLog` sees of it only the lines and the terminal status. `Extraction` is what a run does
between `OpenCsv` and `FinishCsv`; its "failed" is the pipeline's `Raise`. `Session` sees of
a login its answer only: the failure counter in front of it, `LoginThrottle`, shares no state with tokens,
tabs and calls. `AccessControl` meets the pipeline in the row that `CreateJob`
commits.

## 3. Modules and the code

| Module | What it is |
|---|---|
| `JobIdCounter` | what `create_job` promises: one atomic counter per day |
| `JobIdAllocation` | `generate_job_id` and the retry loop of `create_job`, by concurrent requests; it implements `JobIdCounter` |
| `JobIdAllocationProofs` | its theorems |
| `JobLifecycle` | what a job is to its owner: status, on offer or not, aged or not |
| `JobPipeline` | intake, broker, workers, storage, retention, downloads; it implements `JobLifecycle` |
| `JobPipelineProofs` | its theorems |
| `DeliveryLifecycle` | what a requested e-mail is to its owner: its status, and whether it was mailed |
| `EmailDelivery` | `POST /reports/{id}/email`, the task, Google Drive and the provider, retention; it implements `DeliveryLifecycle` under every fault |
| `EmailDeliveryProofs` | its theorems |
| `FollowedLog` | what following a log promises: the reader has its beginning, ever more of it |
| `LiveLog` | the writers of `job_logs`, the query, and the loops of the job page; it implements `FollowedLog` |
| `LiveLogProofs` | its theorems |
| `Extraction` | discovery and row filter, while the client changes the bucket |
| `ExtractionProofs` | its theorems |
| `LoginThrottle` | the failure counter of one login identifier |
| `LoginThrottleProofs` | its theorems |
| `Session` | one user's tabs, tokens and calls against the auth routes |
| `SessionProofs` | its theorems |
| `AccessControl` | accounts, grants, audit rows and the requests that check and change them |
| `AccessControlProofs` | its theorems |
| `MCJobIdAllocation`, `MCJobPipeline`, `MCEmailDelivery`, `MCLiveLog`, `MCExtraction`, `MCSession`, `MCAccessControl` | small instances for TLC |

`PROJECT.json` maps every definition to its lines. Definitions whose comment begins with
"Mutant:" are plausible mistakes; each is tied to the property that must notice it.

### JobIdAllocation

`Generate` is the SELECT of `generate_job_id` (`app/core/job_id.py`): highest committed sequence
under today's prefix, plus one. `Insert` and `Collide` are the commit that succeeds or meets the
unique constraint, `GiveUp` the `RuntimeError` after `MaxAttempts` (5 in the code). `Midnight`
changes the prefix while requests are between read and insert. An ID is a pair `<<day, number>>`.
The table is not a variable: rows are never deleted, so it is what the requests that are through
proposed. The variable `lost` is history: the proofs need which IDs a request lost.

`Counter` maps this to `JobIdCounter`, where a number is taken atomically: a day's counter is the
highest committed sequence, `Insert` is its `Allocate`, `GiveUp` its `Refuse`, and reads and collisions are
stutters. A request that read before midnight may take a number of yesterday; never of a day to come.

### JobPipeline

State: the columns `status` and `report` (`report_metadata`) and the clock's verdict `aged`; the
messages waiting (`broker`) and rows whose `.delay()` is still to come (`unqueued`); for each
worker process where it stands (`pc`), the message it holds (`task`) and the local `checksum`;
for each job the directories `tmp` (`jobs/.{id}.tmp`) and `final` (`jobs/{id}`), each absent or a
record of its CSV and its ZIP; the retention task's progress (`sweep`); and the downloads.

A file is abstracted to what the properties distinguish: which run wrote it and whether it is
partial, full, or mixed by two writers. A ZIP and its SHA-256 are the same value, identified by
the run that built it and the CSV it contains.

| Action | Code |
|---|---|
| `Submit`, `Enqueue`, `EnqueueFails` | `POST /jobs`: commit, `.delay()`, `.delay()` raising |
| `Deliver` | `run_extraction_job` up to the status check |
| `Claim` | `status = PROCESSING; commit` |
| `NewTempDir`, `OpenCsv`, `FinishCsv`, `Package` | `new_temp_dir`, `run_extraction` (open, close), `create_zip` + `sha256_file` + `metadata.json` |
| `PublishRemove`, `PublishReplace` | the two halves of `storage_service.publish` |
| `Record` | the report row and COMPLETED in one commit |
| `RunFails`, `Raise`, `RaiseLate` | an exception inside the `try`: of the run's own making, of the environment's, after the commit |
| `Undo`, `MarkFailed` | the handler: delete both directories, commit FAILED |
| `Escape` | an exception outside the `try`, or in the handler |
| `Finish`, `Ack`, `Crash`, `Kill`, `Redeliver` | return and acknowledgement; Celery and broker as `celery_app.py` configures them |
| `Lapse` | `expires_at` passes |
| `SweepSelect`, `SweepDelete`, `SweepUnlink`, `SweepRmdir`, `SweepCommit`, `SweepDies` | `cleanup_expired` and `cleanup_orphan_temp_dirs`, step by step, and their failure |
| `DownloadCheck`, `DownloadStream` | the existence check; `FileResponse` opening the path |

**Faults.** What the environment does wrong is a kind in the constant `Faults`, and all kinds
together are limited by `MaxFaults`. A run states which faults it admits, so a property that
needs an orderly broker says so by leaving `redeliver` out, and the finding admits one
kind. Failures the program causes itself (a path that is gone, a directory in the way of `os.replace`,
a second report row) are `RunFails`, and free.

**Granularity.** A step is one call that reads or writes shared state. Three calls are one step
although the file system performs several: `rmtree` of a final directory and of a stale temp dir
(the interleavings that matter for visibility, removal against `os.replace`, are those between
calls), and the packaging of ZIP, hash and metadata (all in a directory that no other worker
reads). The `rmtree` of temp dirs *in use* is the exception and is split: files are unlinked
from a listing (a ZIP written after the listing survives), then the empty directory is removed;
what is not empty stays, since errors are ignored. `FinishCsv` follows the open file, not its
path: a file in a directory renamed under its writer is completed where it is.

**Simplifications.** One retention task at a time (beat starts one a day; two would both delete
and both mark). A client downloads once. Answers 404 and 410 change nothing and are not steps.
A process that dies between two retention steps is `SweepDies`. A worker holds one message
(`worker_prefetch_multiplier=1`).

### EmailDelivery

State: `status` of each row of `email_deliveries`; `unqueued` and `broker` as above, with `returns`, the
history of how often each message came back to the queue; for each
worker where it stands, the message it holds, the status it loaded with the row, the access token
it read, the chunks of its upload `session` (how many the task counts, how many Drive has) and the
Drive file that came of it; whether the report is too large to attach and whether its file is still
there; and the two things that no rollback reaches, the files on `drive` and the mails in the
`outbox`.

| Action | Code |
|---|---|
| `Request`, `Enqueue`, `EnqueueFails` | `email_report`: commit PENDING, `.delay()`, `.delay()` raising |
| `Deliver` | the row is loaded, whatever its status |
| `Attach`, `ReportGone` | the file is read whole, or is not there |
| `DriveInit`, `OpenReport` | `_drive_upload_and_share`: token, size and session; `open` |
| `PutChunk`, `ChunkDropped`, `ChunkAstray` | the loop's 308: the chunk is kept; is not, and the `Range` header is not read; lies beyond what Drive has |
| `Upload`, `NoFile` | 200 or 201 with the file's id; the end of the loop without one |
| `Share`, `ShareDenied` | the permission |
| `TokenExpires` | the token read before the upload runs out during it |
| `Send` | `_send_via_provider` |
| `Record`, `MarkFailed` | the commit of SENT, of FAILED |
| `Disabled` | the two early exits that commit FAILED |
| `Lost` | Google does what it is asked and the answer does not arrive |
| `Raise`, `RaiseLate`, `Escape` | an exception in the `try` before the mail, after it, or outside the `try` |
| `Ack`, `Crash`, `Kill`, `Redeliver`, `Retention` | as in `JobPipeline`; `Crash` and `Redeliver` `Return` the message |

`Write` is the session's flush: a column whose new value equals the loaded one is not written, so a
second run of the task that loaded FAILED and fails again does not overwrite a SENT written
meanwhile. All deliveries are of one job, since deliveries of different jobs share nothing but the
workers. Drive is outside the code and taken at its word: it makes no file of fewer bytes than the
session declared, and a chunk that does not continue what it has adds nothing. That the code believes
every 308 therefore costs a delivery (it ends FAILED in `NoFile`) and never mails a broken file. A
file left on Drive without a mail is not counted as an error: the code never deletes one.
FAILED may be said of a mail that did go out, when the answer was lost or a log line after it
raised; the properties claim only the other direction.

`Lifecycle` maps this to `DeliveryLifecycle`: `status` is the column, `mails` counts the mails of each
delivery in the outbox (`Mails`), `returns` is the history variable. `Send` (and `Lost`, when the provider
did send) is its `Mail`, the two commits its `Succeed` and `Fail`, a crash or a redelivery its `Return`;
queue, uploads and tokens are stutters. The task has no guard of its own, so the abstract specification
admits what the code does with a message that comes back, one more mail and a revised verdict, and nothing
beyond it. `Forgotten` is the state that no such step leaves: PENDING, and nobody is going to decide.

### LiveLog

A line is its id. `Insert` hands out the id, `Commit` makes it visible; `AppendFails` is the
swallowed exception, whose id is lost. The run writes while the job is active (`WriteLine`), then the
status becomes terminal (`Complete`), then comes one last line (`WriteLast`); e-mail tasks write
after that. The page's loop is `Load` (`getJob`), `Ask` (the cursor is read before the `await`),
`Answer` (the query with its limit), `Apply` (cursor and console), then again, or `TrailingPull`
1.5 s after the terminal status was seen, or the end. Each e-mail loop of `onEmail` is one more
such puller (`Pull`) over the same `cursor`. `shown` is the console as the sequence of the answers
appended to it. Ids are those of one job: other jobs' lines use up ids, which makes gaps, and gaps
come from `AppendFails` as well. Overlapping loops may show a line twice; no document says that they
do not, and `ShownInOrder`, which is a theorem only, is stated for the page's own loop.

The fault `overlap` lets a line be inserted while another of the job is open, so that a line may become
visible after one with a later id; the history `overtaken` has these lines, and `InOrder` is the rest of the
log. The trailing pull fires at any time after the terminal status was seen, whether the last line is out or
not. The history `short` names what ended the page's following before it had everything: `load` (the request
for the job failed), `lost` (the last pull failed), `limit` (it was cut off) and `early` (it came before the
last line). `Followed` maps this to `FollowedLog`: its log is `InOrder`, its `shown` the *set* of those lines
in the console, so that a line shown twice, or a cursor that moved back and forth again, are stutters, while a
hole would be no step of it.

### Extraction

State: the client's `bucket`, with how often it changed and which files stayed (`steady`, history);
the request; where the run stands; of the discovery the `day` and the page (`marker`) it is at, the
files `found` and the days `missing`; of the filter the files `opened` so far, the `row` it is at, the
combined CSV `out` and the four counters of `stats`. A key is its rank in S3's listing order; the day
in its name, whether the whole name matches the template and whether it lies in a folder are
constants. A file is a header and rows of numbers. A line of `out` is the position of the input line it
repeats, so that "each once" and "in order" can be said.

| Action | Code |
|---|---|
| `Begin` | `run_extraction` up to `discover_files`: no codes, or an inverted range, raises |
| `NextPage` | a page that is not the last (`ContinuationToken`), in both modes |
| `EndOfDay`, `EndOfList` | the last page of a day's prefix (`_discover_template`), of the one listing (`_discover_list`) |
| `OpenFails`, `SkipEmpty`, `StartFile` | `get_object_stream` and the header: gone or a column missing; no line at all; usable |
| `Write`, `PassOver` (in `ReadRow`) | the row filter, with its counters |
| `CloseFile`, `Finish` | the end of a file, of the loop |
| `AccessFails` | an S3 error in the listing, in opening or in the middle of a body |
| `Change` | the client adds, replaces or removes an object, at any time |

`Qualifies` is the reference definition of the answer, written from the agreed policy; `Kept` is the
code's chain of `continue`s. `OutputExact` compares the two over every row. `AccessFails` also stands
for an error in writing the output. A file that is opened is read as it was when it was opened, as one
S3 response is. Missing days depend on the mode only in how they are gathered; `MissingDaysTrue`
holds them against the files found.

### LoginThrottle

The counter of one identifier: `count`, its `ttl` in ticks and where each login request stands. `Incr`,
`Expire`, `FailOpen`, `Reject` and `Accept` are `login_rate_limited`, `authenticate`'s two answers and
`reset_login_attempts`; `Age` is Redis. A call that raises may have failed or have lost its answer: in
`FailOpen` an INCR has counted or not. `Die` is the end of the API process between the two calls. `key` is
history: "severed" once the request that began the counter failed between INCR and EXPIRE, "whole" again
when the key goes or gets its expiry after all. Past `Limit + 1` the model stops counting, since the code
only compares.

### Session

One browser and one user. State: for each access token that matters the ticks it has `left` and those of
its denylist key (`deny`); the `stored` token and the refresh `cookie`, which all tabs share; for each
tab its `page`, the time since the last activity and since the last refresh; and the `calls` in flight,
each with the token it carries and how far it is. `session` is history: it names what disturbed the session,
so that a property can say which promise is left; "doubtful" is a session whose logout was lost, or crossed an
answer that brings a token or a cookie, and one whose login is under way.

| Action | Code |
|---|---|
| `Visit`, `Active`, `Fetch` | `useAuthGuard`'s effects on a page load, its activity listeners, any API call |
| `IdleTimer`, `RefreshTimer` | the interval of `useAuthGuard.ts`: log out after the idle time, refresh after `REFRESH_EVERY_MS` |
| `LogOut` | the button of `Nav.tsx` |
| `LogIn` | the button of the login page, which waits for the answer |
| `ServeRefresh`, `ServeLogin`, `ServeLogout` | the routes, with `denylist_token` and its `int()` of the time left |
| `Arrive` | the answer's headers: the browser applies `Set-Cookie` or the deletion |
| `ReceiveRefreshed`, `ReceiveLoggedIn`, `ReceiveLoggedOut` | what follows the awaits in `api-client.ts` and its callers: `setToken`, `clearToken` |
| `ReceiveRefused`, `ReceiveOther`, `Lose` | 401, fine, no answer (or no body) |
| `Tick` | time |

*Four steps of a call.* It is sent, served, its headers arrive, and its body is handled; other tabs act in
between. Cookie and token therefore change in different steps, and two answers may change them in different
orders: a logout between a refresh's `Set-Cookie` and its `setToken` leaves a token without a cookie. A
call's field `crossed` remembers that the headers of the other kind came between its own and its body. A 401
sets no cookie and is handled as it arrives.

*Time.* A tick is some minutes (the code's 15-minute token, 10-minute refresh and 15-minute idle time
are 2, 1 and 1 ticks in the run). Open pages' intervals run in every tick, and a call is answered or
lost in the tick in which it is sent; sending, serving and answering interleave freely within it. A call
that only reads is served when its answer arrives. Timers are on time (a browser may slow those of
hidden tabs). Redis keeps the denylist, the cookie's seven days and the deactivation of the user are not
modelled. A 429 of the throttle changes nothing here, like a call that is lost. A token that nobody
holds is reused, and `since` stops at the token's life, beyond which nothing depends on it. The denylist
key may end up to a second before its token, which in ticks is the nondeterministic `n` of
`ServeLogout`.

### AccessControl

State: the tables (`role` of each account, `active`, `usable` shortcodes, `grants` with their granter,
`jobs`, `audit`), and of each request what it has read: `caller` and the role it had (`as`), the
`target` row, that row's columns as `seen`, the codes `left` to look at, and `todo`. `met` is history:
for each request, what of that it asked for has been so since it began.

| Action | Code |
|---|---|
| `Start` | `get_current_user` and `require_permission`, once per request |
| `Authorize`, `CreateJob`, `AuditJob` | `authorize_shortcodes` (a refusal is audited), `create_job`'s commit, the audit entry |
| `Read` | `GET /jobs/{id}`: owner or administrator, else 404 |
| `Load` | `_get_user_or_404` and the ban on deleting oneself |
| `FindNone`, `Insert` | `create_user` and the seed's `upsert_user`: the check, the commit or the unique constraint |
| `WriteUser` | the flush of the columns that differ from what was read |
| `Detach`, `DeleteUser`, `DeleteRefused`, `DeleteGone` | `delete_user`: the UPDATE of the audit rows, then the commit, a foreign key's refusal with its rollback, or a row that is gone |
| `CheckGrant`, `CommitGrants` | `grant_shortcodes`: one SELECT per code, one commit for all |
| `Revoke` | `revoke_shortcode` |
| `LoadCode`, `Toggle` | `update_shortcode`: the row is read; the flag is flushed if it differs from what was read |
| `StartSeed` | `run_seed`, by an operator |

A statement sees what is committed when it runs. An account is its address: one deleted and created
again is another row, so what a request holds of the old one becomes `None` (`Forget`). The refresh
after a commit belongs to the commit. Passwords and names, the creation of a shortcode, duplicates
within one payload and `create_job`'s checks of the range are left out; lists only read.

`AnswersTrue` is stated item by item because more would be false: a PATCH of two columns, one of which
another administrator changes meanwhile, is answered although both values never held together. A
job's codes are one item, since they come from one statement.

## 4. The runs

All numbers are distinct states.

| Run | Instance | Shows |
|---|---|---|
| `job_ids` | 4 requests, 3 attempts, 2 days, fair (51k) | the loop implements `JobIdCounter`, so that each day is gapless and in commit order across midnight; it gives up only after `MaxAttempts` others committed, and that many requests always get their job. Four requests are the fewest that can exhaust three attempts |
| `pipeline_faulty` | 2 jobs, 2 workers, 1 client, 3 faults of all kinds but `redeliver`, symmetry (724k) | one runner per job, nothing partial visible, intact downloads; files without a report row only of PROCESSING jobs; statuses along the arrows and reports in place until they age, but for an exception after the COMPLETED commit; a job is stranded by four named events only |
| `pipeline_lifecycle` | 2 jobs, 1 worker, 2 faults: `raise`, `crash`, `sweep`, fair (48k) | the pipeline implements `JobLifecycle`; COMPLETED jobs are on offer; queued jobs are taken, lapsed reports go and become EXPIRED, temp dirs do not stay |
| `pipeline_settles` | 1 job, 2 workers, 3 faults: `raise`, `late`, `redeliver`, `sweep`, `overlap`, fair (169k) | as long as no process dies and nothing raises outside the `try`, every accepted job reaches a final status, even when a message was delivered twice to live workers |
| `extraction` | 5 keys, 6 file contents, 5 buckets, 8 requests, pages of 2, 2 changes by the client, fair (624k) | every file that stays is found, the output is exact, success leaves nothing out, the figures are true, and the extraction ends |
| `access` | 3 accounts, 2 codes, 14 operations, 3 requests at once, symmetry (242k) | answers are true, references hold, the trail is kept, no update is lost |
| `sessions` | 2 tabs, 2 calls in flight, 2 tokens, symmetry (1.43M) | a logout that nothing crossed holds; the cookie stays until a logout; an active page keeps a valid token until something disturbs the session |
| `login_throttle` | 3 attempts, limit 2, window 2, all Redis faults and dying processes (435) | a counter without an expiry is one whose first request is about to set it, or failed between INCR and EXPIRE |
| `email` | 1 delivery, 2 workers, 3 chunks, 3 faults of all ten kinds, fair (328k) | the task implements `DeliveryLifecycle`: one mail and one verdict, one more only for a message that came back; the link opens; what is not lost by one of three named events ends SENT or FAILED |
| `log` | the run and 1 mailer, the page and 2 e-mail loops, limit 1, 2 lines and the last, 1 round, 2 faults of all four kinds, fair (392k) | the loops implement `FollowedLog`, but for overtaken lines; a line reaches the console unless one of five named events keeps it away |
| `torn_publish` | smallest instance, one fault kind | a finding of section 7, as a counterexample |
| `mixed_headers` | the instance of `extraction`, a bucket that does not change | a finding of section 7, as a counterexample |

The type invariants `TypeOK` are theorems (section 6) and not run as well; so are `UniqueJobIds`,
`NumbersFollowCommits`, `NothingSkipped`, `ShownInOrder`, `SentWasMailed` and `MailsAreCounted`, which an
abstract specification or another property of a run contains or which need a smaller environment than the run.
`LoginThrottle` is run as it is; the other runs use the `MC` modules.

*Why these bounds are enough.* Jobs do not share state except the retention batch and the
workers, so two jobs give a batch with a member that lapses late and a worker that changes jobs.
Two workers give every pairwise race on a directory; `SingleRunner` shows that without
redelivery there is never a second. Three faults allow a crash, a failing rerun and a failing
retention run in one behaviour. The longest interesting history (crash after `os.replace`,
redelivery, skip, retention) needs two. No counter is bounded by a guard other than `faults`;
`broker` grows only with `crash` and `redeliver`, so it is bounded by `MaxFaults + 1`.

For e-mail, one delivery on two workers is the case of a message in two hands; deliveries of one report
share nothing but the workers and the file, and `EmailDeliveryProofs` has no bound on them. Three faults are a
lost answer or a death after the mail, a return of the message, and one more failure in the second run. Three
chunks are a first, a middle and a last one, so that each can be the one Drive drops. For the log, a limit of 1
makes every answer end short of the log, the page's loop and two others are more than the two needed to move the
cursor back, and a run and a mailer are the two writers that can overtake one another; `MaxLines` and
`MaxRounds` (45 in the code) only bound the length of a behaviour. For the throttle, three requests are one that
begins the counter, one that deletes or outlives it, and one that begins it anew meanwhile.

For `extraction`, pages of two keys make the listings of both modes break off, also between a day's two
files; two changes are a removal before and a reappearance behind the page being read; the keys contain
a name of the wrong form, one in a folder and days outside the range; the contents have columns in other
places, short rows, cells that are no time, times at both ends of the range, no destination column, no
code column and no line at all. For `access`, each interleaving of interest is of two requests with a
third that changes what they read (deletion, demotion, a grant); both administrators can be the target.
For `sessions`, two tabs and two calls give every pairwise crossing of refreshes, logins, logouts and
refused calls, header by header; the token lives two refresh intervals, as in the code it lives one and
a half. A page may stop after one idle tick or, with `Active`, after any number, so a longer `IdleAfter`
adds no crossing.

`CHECK_DEADLOCK FALSE` is set for `JobIdAllocation`, `EmailDelivery`, `LiveLog`, `Extraction` and
`AccessControl`: a fixed set of requests or deliveries, the log of one job, or one extraction
ends. Sessions go on, and the pipeline never stops, since the retention task can always start again.

Symmetry is used in runs whose properties are invariants or `[][A]_vars`; the fair runs use none.

## 5. Fairness

`FairSpec` of `JobPipeline` assumes weak fairness of: `Enqueue` (the handler goes on to `.delay()`;
when it cannot, that is the fault `broker`); each worker's `Take` and `RunStep` (a process is
scheduled, calls to S3 and the database have timeouts or fail, the task has a time limit, and an
idle worker takes a waiting message); and `Sweep` (beat starts retention over and over, and
`cleanup_expired` is straight-line code). Nothing is assumed about faults, about time passing
(`Lapse`) or about clients. Weak fairness is enough because none of these is disabled by other
processes again and again: the faults are finitely many.
`FairSpec` of `EmailDelivery` assumes the same of `Enqueue` and of the workers (every request to
Google and SMTP has a timeout). `FairSpec` of `LiveLog` assumes that the page's timers fire and its
requests are answered (`PageStep`; failing requests are faults) and that each writer's inserted line is
committed, since `append` commits at once. It assumes nothing about the job or the e-mail loops.
`FairSpec` of `JobIdAllocation` assumes only that each request's `create_job` runs on, and that of
`Extraction` that the worker's loop does: a request to S3 is answered or times out. It assumes nothing
of the client. `Session`, `LoginThrottle` and `AccessControl` claim safety only and assume none.

`EveryJobSettles` is *not* claimed with crashes: a worker that dies after its claim leaves
PROCESSING, and the redelivered message is skipped, because the task runs only PENDING jobs. The
operations guide knows such jobs and has a query for them (`src/docs/operations.md:180`), so it is no finding,
but it is why `pipeline_settles` leaves `crash`, `kill` and `escape` out. What these do is said by
`StrandedByDeathOnly` in `pipeline_faulty`: a job is left behind when its message was never sent, when the task
ended outside `run_job`'s `try` or by the hard time limit, or when its worker died after the claim, and by
nothing else; and `pipeline_lifecycle` checks with `PendingIsTaken` that a death before the claim costs nothing.
`EveryDeliveryEnds` says the same of deliveries with every fault in play: a delivery ends, or is one that
`ForgottenOnlyByLoss` names.

## 6. Proofs

All eight proof modules hold for every value of the constants that the modules' named assumptions
allow. Where a theorem needs more, it says so:

| Assumption | Means | Needed by |
|---|---|---|
| `SingleDelivery` | no `redeliver` | `RunnersAreSingle`, `NothingPartialVisible`, `DownloadsAreIntact`, `GoneReportsStayGone`, `ExpiredJobsAreGone`, `OrphansAreOfStuckJobs`, `StatusesFollowArrows`, `OffersLast` |
| `CalmFaults` | nor `late`, nor `overlap` | `PipelineImplementsLifecycle`, `CompletedJobsAreOffered` |
| `NoRunIsCutOff` | no `crash`, `kill`, `escape` | `NobodyWaits` |
| `MessagesSurvive` | of jobs: no `broker`, `kill`, `escape` | `NothingIsLost`, `NobodyWaits` |
| `MessagesSurvive` | of deliveries: the same | `NothingIsForgotten` |
| `OnlyPage` | no e-mail loops | `LinesAreOrdered` |
| `RenewsInTime` | `RefreshEvery < AccessLife` | `ActiveIsKeptAlive` |

No assumption beyond those on the constants: all other theorems, among them `NobodyElseStrands` of jobs, all
but one of e-mails, the refinement and the completeness of the live log, and `CountersExpire`.

`JobIdAllocationProofs` (from `RequestsAssumption`, `AttemptsAssumption`, `DayAssumption`) proves
`TypeCorrect`, `JobIdsAreUnique`, `FailuresNeedContention`, `DaysAreGapless`, `NumbersAreOrdered` and
the refinement `AllocationImplementsCounter`. The invariant says that a proposal is at most one above
its day's highest number (so a stale read never skips), that the numbers of a day are `1..n` for some
`n`, and that the IDs a request lost are distinct rows in number equal to its attempts: every collision
is with a *new* row, because the request read again after the last one. From that, a request that failed
`MaxAttempts` times has seen as many rows of others. Cardinality facts come from `FiniteSetTheorems`.
For the refinement, an insert that succeeds is of the number just above the counter (it is at most one
above, and not below, or it would be taken), of a day that has begun (`NoFutureDay`); and a refusal
finds `MaxAttempts` requests served.

`JobPipelineProofs` works in layers, so that every theorem excludes as few kinds of fault as it can.
`Typed` (`TypeCorrect`) holds whatever goes wrong. `IInv` needs `SingleDelivery` only and gives
`RunnersAreSingle`, `NothingPartialVisible`, `DownloadsAreIntact`, `GoneReportsStayGone` and
`ExpiredJobsAreGone`: crashes, kills, exceptions anywhere, also after the COMPLETED commit, failing
retention and retention clearing live temp dirs are all admitted. The assumption cannot be dropped: two
live workers that hold the same message both pass the check. `HInv` adds, still under `SingleDelivery`,
where a handler may come from (`Handlers`: the job says PROCESSING or has its report row, and its
directory is gone before FAILED is committed), and that files without a row are of a job that says
PROCESSING (`OrphansAreOfStuckJobs`). From it follow `StatusesFollowArrows`, which admits COMPLETED to
FAILED only where `late` is a fault and with nothing on offer any more, and `OffersLast`. `Strict`,
without `late`, says that a report row means COMPLETED or EXPIRED; the refinement needs it.

`IInv` rests on three ideas. *The message is the lock*: for
each job, the row that waits for `.delay()`, the messages on the broker and the workers holding one
are at most one in all, which survives a crash (the message moves back) and a kill (it vanishes).
*A file belongs to the run that wrote it*: while a worker is in the run, the CSV of its temp dir is
its own, partial while it is open, and a ZIP there is the one it hashed. *A report row is the end*:
once it exists no worker of the job writes files any more, so its directory can only be deleted (by
retention or by the handler), never replaced; a download that checked before either deletes gets the same
ZIP or an error, and what is gone stays gone.
Each is needed: without the first two runs share a temp dir; without the second a published
ZIP could be of a partial CSV; without the third the checksum a download states could belong to
an earlier ZIP.

Under `CalmFaults`, where retention also spares the temp dirs in use, `CInv` adds that the ZIP about to be
published is the one hashed (`Packed`), that it is in place before the row says so (`Placed`), that a
COMPLETED job not yet lapsed has its report row and its ZIP (`OnOffer`), and that retention is after
lapsed reports only and has deleted what it is through with (`Swept`). From it follow
`CompletedJobsAreOffered` and `PipelineImplementsLifecycle`: every step of the pipeline is a step of
`JobLifecycle` or a stutter under the mapping of `Lifecycle`, crashes and half-done retention runs included.
`overlap` has to be excluded: it is what
run `torn_publish` shows.

The last parts are about jobs that nobody moves. `NobodyElseStrands` goes through the steps under *every*
fault, redelivery included: each one that is not named leaves a message, a row to be queued or a worker in
the run. `NobodyWaits` needs that no run is cut off between two of its steps; its invariant (`Manned`, lemma
`ProcessingIsManned`) is small, because every step of a run that does not leave PROCESSING leaves the worker
in the run.

`EmailDeliveryProofs` proves all but `NothingIsForgotten` under *every* fault. The invariant `Honest` says
what a worker's place in the task guarantees: past `send` its own delivery is in the outbox, with a link its
own upload made; at `share` its file is its own; and files and mails are only appended to, a file only ever
becoming shared. From it follow `SentIsMailed` and `LinksAreOpen`. `Account` is the bookkeeping of the
refinement: of each delivery, the row waiting for `.delay()`, the messages, the workers that have yet to mail
it, and its mails are together at most one more than the returns of its message; and so are row, messages, the
workers that have yet to decide, and the verdict. A crash or a redelivery adds a message and a
return, a `Send` moves a worker to the mails. So a mail always finds `mails <= returns`
(`OneMailPerMessage`), and each step is one of `DeliveryLifecycle` or a stutter
(`DeliveryImplementsLifecycle`). `ForgottenByLoss` is a case distinction over the steps, like
`NobodyElseStrands`.

`LiveLogProofs` proves everything but `LinesAreOrdered` (which has `Loops = {}`) under every fault, for
any number of writers and loops. The statements are about `InOrder`, the lines that were the newest when
they appeared. `Fresh` says that an open line is nobody else's and not in the log: when it is committed
it is beyond every cursor (these are ids of lines, `Anchored`), or overtaken. A loop that has asked
relies on the console having everything up to the cursor it *sent* (`Covered`); and an answer has no
gaps from there to its last line (`Seamless`), because `get_logs` orders before it limits. So the last
line of an answer is a safe cursor whatever other loops did meanwhile, even when it moves the cursor
back. `ReadersFollowTheLog` adds that the console is the *beginning* of the log (`Beginning`), so that
what an answer adds makes it a longer beginning or leaves it as it is. `StoppedPageIsComplete` follows
the last pull (`Trailing`) and the last line (`LastIsLast`).

`ExtractionProofs` proves `ExtractionTypeCorrect` and the five safety properties of the run, for every
bucket, page size, request and number of changes. `Listed` says what a listing under way has done: the
wanted files that stayed and lie *behind* its place (an earlier day, or a key up to the marker) are
found; what the client does ahead of it does not matter, and what it does behind it touches no file that
stays. `ReadInOrder` says that the files read come before all unread ones, which is why the code's loop
over a sorted list reads each once. `Written` carries `OutputExact` over a step: a row is handled once,
and its line is later than all before. `Counted` adds that the handled rows are a finite set, so that
the counters can be cardinalities.

`LoginThrottleProofs` proves `ThrottleTypeCorrect` and `CountersExpire` for any number of requests and any
limit, whatever Redis fails at or loses. The property is inductive with the types: a counter begins in
`Incr`, which leaves its request at "counted", or in an INCR whose answer is lost, which severs it.

`SessionProofs` proves the four promises of a session for any number of tabs, calls and tokens.
`NewTokens` and `Proper` say what a call in flight is: an answer of the server brings a token that
nobody else holds and that is as new as can be, and only a refresh or a login brings one. `HeadersTold`
ties the cookie to the headers that have arrived: a call whose headers came has the cookie its kind
leaves, unless `crossed` says that another kind's came after. `CookieStaysUntilLogout` follows: in a
session, headers that take the cookie are a logout's, and that call is still in `calls`.
`NothingCrosses` says that after a clean logout no answer is left that could bring a token; it needs
that a refresh sent later carries no cookie, and with `HeadersTold` gives `SignedOutStays`. For
`ActiveIsKeptAlive`, `Undenied` says that no logout is about to deny the token of an undisturbed
session, and `Renewed` that an active page is in time (`InTime`): its refresh is not due yet, not sent
yet in this tick, under way, or was answered in this tick. Time cannot pass a page that is late, because
its timer runs and its call is answered or lost, and a lost one disturbs the session.

`AccessControlProofs` proves `AccessTypeCorrect`, `ReferencesHold`, `AuditIsKept`, `NoUpdateIsLost` and
`AnswersAreTrue` for any number of accounts, codes, operations and requests. `Shape` says what a request
knows at each of its stands: above all, the row it holds exists or has become `None`. `Truth` says what
has been so since the request began: at `loaded`, a column that needs no flush was what was asked for
when it was read; while grants are checked, a code already looked at and not to be granted was granted;
and a row that has gone was gone. The answer then adds only what its own commit made true.

*The safety half of liveness.* That something happens in the end takes fairness, which the prover does not
reach; that nothing can get lost or stuck on the way does not, and is proved for every instance:

| Liveness (TLC) | Proved part | Says |
|---|---|---|
| `PendingIsTaken` | `NothingIsLost` | a PENDING job has a message to come, on the broker, or with a worker that found it PENDING |
| `EveryJobSettles` | `NobodyWaits` | when no message is under way and every worker is idle, every accepted job has its final status |
| `ReportsExpire` | `ExpiredJobsAreGone` | what is EXPIRED has no file, and gets none again |
| `EveryDeliveryEnds` | `NothingIsForgotten` | the same as `NothingIsLost`, of deliveries |
| `LinesAreShown` | `StoppedPageIsComplete` | a page that has stopped while `short` names nothing has seen the last line decided, and shows it and every line before it that was not overtaken |
| `ContendersAreCreated` | `SomeAreAlwaysServed` | once all requests are answered, enough have a job |
| `ExtractionEnds` | `ExtractionCanGoOn`, `ExtractionGoesForward` | there is always a next page, file or row, and no step goes back |

The assumptions are in the table above; `crash` and `redeliver` may happen in the first and the fourth.
`NobodyElseStrands` and `ForgottenByLoss` say what the excluded faults do. `StoppedPageIsComplete` holds
with e-mail loops that move the cursor back: the trailing pull asks from where the cursor is, and what
lies between was shown. `ExtractionCanGoOn` needs that a page is not empty and has a last key, and that
the files have a first one; both are minima of sets of numbers, from the well-foundedness of `<`.

Not proved and left to TLC: liveness (`EveryJobSettles`, `PendingIsTaken`, `ReportsExpire`, `TempDirsGo`,
`EveryDeliveryEnds`, `LinesAreShown`, `ContendersAreCreated`, `ExtractionEnds`), since fairness and `ENABLED`
are beyond the prover. Every safety property of a passing run is a theorem.

## 7. Where the code and its documents disagree

Two disagreements are runs whose counterexamples show them:

* `torn_publish`: artifacts are said to be "atomically moved into place"; when retention, which clears
  every `.tmp` directory and not only those "from crashes", unlinks the files between packaging and
  `os.replace`, an *empty* directory is published and the job becomes COMPLETED with nothing to download.
* `mixed_headers`: the output is said to preserve "all original columns" (`extraction_service.py:5-6`,
  `docs/features.md:45`); the header of the first usable file is written once (line 207) and the rows of the
  others are appended as they are, so that cells of a file with other columns stand under wrong names.

Others are visible in the models as the reason for an assumption or as a state that the properties leave
out, without a run of their own:

* the task's docstring claims to guard against duplicate delivery (`extraction_task.py:21`); the check
  (line 30) and the claim are two transactions, so a message delivered twice to live workers passes twice
  (`SingleDelivery`);
* the log lines after the COMPLETED commit are inside the `try` (`job_service.py:147`); an exception
  there deletes the published report and turns COMPLETED into FAILED, an arrow that `architecture.md:114`
  does not have (`StatusFollowsArrows` admits it with the fault `late` only);
* nobody finishes a job whose worker died after the claim, whose task raised outside the `try` (lines 81,
  153 and 158), or whose message was not sent (`StrandedByDeathOnly`, `OrphansSayProcessing`);
* a download between retention's deletion and its own check answers with a server error instead of the
  documented 410 (`DownloadStream` ends in "error"; `DownloadIntact` claims nothing of it);
* the e-mail task is not idempotent (`DeliveryLifecycle` admits a mail more for each `Return`), although the
  feature list says that tasks are; and when the provider's answer or the commit of SENT is lost, FAILED or
  PENDING is said of a mail that went out;
* a log line that commits after one with a higher id is never returned to a page that has seen that
  one (`overtaken`), although `?after_id=N` "returns lines after N";
* the page pulls twice after it saw a terminal status (`page.tsx:69`), each time at most 1000 lines; of a
  longer log of a finished job the rest is not shown, nor is a last line that is written later than the
  second pull (`short` is "limit" or "early");
* "only *inactivity* logs the user out" (`api-client.ts:93`), but every page load sets `lastRefresh` to now
  without a refresh, so a user who moves between pages faster than the refresh interval is never renewed
  and loses his token (`KeptAlive` asks for `fresh`), and a 401 for an old token or a wrong password in
  another tab clears whichever token is stored (`session` becomes "disturbed"; the cookie stays, says
  `CookieUntilLogout`);
* a refresh or a login that crosses a logout can leave a token, a cookie or both in a browser whose user has
  logged out (`SignedOutStaysOut` does not speak of "doubtful" sessions);
* the throttle is to "fail open (do not block logins)" when Redis is unavailable (`auth_service.py:3-4`); a
  failure between INCR and EXPIRE leaves a counter that never expires and, once it is full, blocks all logins
  of its address until somebody deletes the key (`CounterExpires` names the cases);
* the login limit is "per email+IP" in `security-review.md:29` and counts by e-mail alone
  (`LoginThrottle`, one counter for all attempts).

## 8. What is not modelled

On the plan above: an abstract specification of the extraction, the audit entries of logins,
downloads and e-mails, download tokens, the end of the refresh cookie, a Redis that forgets. Partly modelled
components and what they lack are in `PROJECT.json`. Left out for good: the other operator scripts and the
demo data of the seed, password hashing, configuration, logging and health checks, schemas and migrations,
pages without state, the bytes of CSV and ZIP, and deployment files. The `uuid4` Job ID strategy and the
zero-padded text of an ID (its order is that of its number up to a million jobs a day) are not modelled, nor
is the database's isolation beyond "a statement sees what is committed".
