# TMask Transporter in TLA+

This directory holds TLA+ models of TMask Transporter, the transfer service in
`src/`: a Django web application, a Celery worker with a pool of processes, the
Celery beat scheduler, Redis as broker and PostgreSQL as the shared store. The
models are checked with TLC on small instances; every safety property of a passing
run is also proved with TLAPS, for every instance. All paths below are relative to `src/`, and those that
begin with `worker/` or `web/` to `src/services/`.

## 1. The system

| Part | Where | State | Operations | Talks to |
|---|---|---|---|---|
| Transfer jobs | `web/apps/transfers`, `worker/tasks.py` | `TransferJob` row (status, celery_task_id, started_at), the uploaded source file, the destination | create, stop, delete (web); execute (worker); cleanup of orphans (beat) | broker (`send_task`, `revoke`), database, file system |
| Uploads | `web/apps/transfers/views.py`, `worker/tasks.py` | files in `/transfers` | write an upload, remove it after delivery, hourly retention, dry run | jobs that name the files |
| Webhook deliveries | `web/apps/webhook_deliveries`, `worker/tasks.py` | failure count and cooldown of a user, delivery log | send, retry, open and close the circuit | jobs, health check |
| E-mail, Telegram | `worker/notifications.py` | none | send, retry | jobs, health check |
| Scheduler | `web/apps/scheduler` | `ScheduledTransfer` rows and the `PeriodicTask` rows beat reads | create, edit, toggle, delete, tick | flows, jobs |
| Database transfers | `web/apps/db_transfers`, `worker/tasks.py` | `DbTransferJob` row | create, stop, delete, execute | database handlers |
| Dump relay | `worker/modules/postgres`, `worker/modules/mysql` | two child processes, three threads, four pipes | dump, mask, load, verify, retry | source and destination database |
| MSSQL copy | `worker/modules/mssql` | tables of the destination, exported files | script, export, mask, import, retry of everything | source and destination database |
| Masking | `worker/modules/masking`, `web/apps/masking` | masking rules | mask a value, mask a line | the three database handlers |
| File handlers | `worker/modules/{sftp,rsync,relay,gpg,checksum}` | temporary files, directories and keys | transfer, verify, encrypt, retry | jobs |
| Accounts | `web/apps/accounts` | users: role, lockout, TOTP secret, recovery codes, API tokens | log in, second factor, change role, make a token | every view (`require_role`) |
| REST API | `web/apps/api` | API tokens | trigger a connection or a flow, read | jobs |
| Connections | `web/apps/connections`, `worker/tasks.py` | connections and their health | create, edit, delete, check | jobs, schedules, flows (CASCADE) |
| Configuration import/export | `web/apps/connections/portability.py` | connections and flows | export, import | connections, flows |
| Flows | `web/apps/flows` | flows | create, edit, delete, run | jobs (SET_NULL), schedules (CASCADE) |
| Audit log, organization, monitoring, dashboard | `web/apps/...` | append-only log, one settings row | insert, read | - |

Which behaviours are hard:

* **Nobody owns a job's status.** The stop view writes it under a row lock, the
  worker writes it with unconditional `UPDATE`s, the cleanup writes it for
  everything that looks old. Celery may deliver a message twice, drop a
  revocation, and lose a process at any point.
* **Two places for one fact.** The message and the row that carries its id; the
  schedule and its periodic task; the job and the file it names; the user's
  counter and the copies of it every task has read.
* **Failure in the middle.** A publication that raises after the job is done; a
  request that dies between the database and the broker; a dump that ends while
  the loader is still reading.

What makes each part correct, and which hazards threaten it, is the list
`hazards` of `PROJECT.json`, each at its line of the source with the properties
that guard against it.

## 2. Transfer jobs: `TransferJob`

### State

| Variable | Code |
|---|---|
| `status`, `taskId`, `age` | the columns `status`, `celery_task_id`, `started_at` (against the one-hour limit of the cleanup) of `TransferJob`; `"none"` and `"deleted"` stand for no row |
| `source` | the source file: `"local"` an upload of a connection job in `TRANSFERS_DIR`, `"remote"` any other source, `"removed"` after `_cleanup_source_file` |
| `delivered` | whether the destination has the file |
| `dispatch` | how far the request that created the job has come in `_dispatch_transfer` |
| `stop` | how far `transfer_stop` has come; anything but `"idle"` holds the row lock |
| `deleting` | `transfer_delete` has read a status that allows the deletion |
| `waiting`, `made` | copies of a `transfers.execute` message in the queue, and ever made |
| `revoking`, `revoked` | revocations on their way, and those in the worker's memory |
| `pc`, `task`, `job` | where each pool process is in `execute_transfer`, with which message and which job |
| `told` | a notification about the job has been published |
| `crashes` | processes lost, restarts and requests that died, against `MaxCrashes` |

### Actions

One action is one database statement, one publication or one effect on the file
system, in the order in which the code makes them; what can interleave between
them does.

* `Create`, `SendTask`, `RecordTaskId`, `DispatchFails`: `transfer_create`,
  `flow_run`, the API triggers and `_dispatch_transfer`.
* `StopBegin`, `StopRevoke`, `StopCommit`, `StopRollsBack`: `transfer_stop`.
* `DeleteCheck`, `DeleteRow`: `transfer_delete`; `DeleteConnection`: the CASCADE
  of `connection_delete`.
* `Accept`, `AcceptTick`, `Skip`: `_resolve_job`, with a job id, with a
  schedule's id, and with neither a row nor an enabled schedule.
* `MarkRunning` ... `NotifyRaises`: `execute_transfer`. Its handlers are one step
  that succeeds or raises, before or after the file has arrived.
* `RowGone`: `save(update_fields=...)` of a deleted row raises.
* `OrphanCleanup`: `cleanup_orphan_jobs`.
* External, modelled from how the code uses them: `TickFires`, `Redeliver`,
  `DiscardRevoked`, `RevokeArrives`, `RevokeLost`, `Crash`, `Restart`,
  `HourPasses`. A message is acknowledged when its task starts (`acks_late` is
  not set, `web/config/settings/base.py`), so a message is redelivered only while
  it waits, and a crash loses it.

Abstracted: the row's other columns (progress, error text), logs, the order of
jobs within a batch upload (each is a job of its own), which user asks.

### The abstract specification: `JobOutcome`

A row with a status, and whether an execution of the job is alive, that is, may
still write it. It promises: no `DONE` without `RUNNING`, a stop cancels active
jobs only, the cleanup fails running jobs only, an execution never comes back to
life, and with no execution alive a terminal status stays. `KeepsOutcome` is the
refinement, with `row <- status` and `alive` <- the job exists and is not `Quiet`
(no process holds it, no message carries it, no request is about to publish one).

### Runs

`MCTransferJob.tla` instantiates the module; one run checks safety and liveness,
so it uses no symmetry. 0.4 million states.

| Run | Instance | Checks |
|---|---|---|
| `transfer` | 1 job, 1 tick, 2 processes, 2 deliveries, 1 crash, fair | `TypeOK`, `DoneIsDelivered`, `RemovedIsDelivered`, `RunningIsRevocable`, `ToldIsFinal`, `FinishedNeverRerun`, `KeepsOutcome`, `RunningEnds`, `DispatchedStarts` |

`ToldIsFinal`, `FinishedNeverRerun` and `DispatchedStarts` name what they except:
a message handed out twice, a process that died. With a redelivery the code does
run a finished job again. The other properties hold whatever the broker does.

One job is enough because jobs do not read each other's rows: they compete for
processes, and the cleanup's one `UPDATE` treats each row by itself. The tick
brings a message that no request wrote into the row, which the job of another
origin would do as well. Two processes and two deliveries of one message are what
it takes for one job to be run twice at once; one crash can fall on any step.

No run checks for deadlock: when every job has ended and every message has been
used up the system has nothing to do.

### Fairness

`RunningEnds` and `DispatchedStarts` assume: a stop request that holds the lock
goes on (`StopRevoke`, `StopCommit`); a process goes on with what it runs
(`RunStep`); a waiting message is taken or dropped; the hour passes; and the
cleanup runs (beat starts it every five minutes,
`web/apps/transfers/migrations/0002_cleanup_periodic_task.py`). All of it is weak
fairness of steps the infrastructure keeps trying. Nothing is assumed of users,
and nothing of a handler beyond that it ends.

### Where the code and its documents disagree

Three runs of this component expect a violation; each property is a sentence of a document or of a
message in the code.

| Run | Property | What happens |
|---|---|---|
| `stop_failure` | `StopIsNoFailure` | the process is not killed in time and its `mark_failed` or `mark_done` overwrites `cancelled` |
| `stop_pending` | `StoppedPendingNeverRuns` | the stop comes between `send_task` and the `UPDATE` of `celery_task_id`: nothing is revoked, and `mark_running` has no condition |
| `failed_source` | `FailedKeepsSource` | publishing the notification raises after `mark_done` and the removal of the source |

Two more behaviours of the model are worth knowing, though no run is about them:
`OrphanCleanup` fails a job whose process is alive and has run for more than an
hour (the process may write `DONE` over it later), and `DeleteRow` may delete a
job that became active after `DeleteCheck`. The safety properties hold with both.

### Theorems: `TransferJobProofs`, `TransferRunsProofs`

For every set of jobs, ticks and processes and every bound on deliveries and
crashes (the only assumption, `TransferJobAssumption`, says that jobs and ticks
are different and the bounds are numbers):

* `TypeCorrect`: `Spec => []TypeOK`.
* `DoneDelivered`, `RemovedDelivered`: the two file invariants.
* `Refinement`: `Spec => KeepsOutcome`, the system implements `JobOutcome`.
* `StopActive`, `QuietSettled`: a stop cancels active jobs only, and a job that is
  quiet keeps its outcome; two action properties read off the abstract
  specification that every step has been shown to satisfy (no run checks them
  besides `KeepsOutcome`, from which they follow).

The inductive invariant `IInv` adds to `TypeOK` and the file invariants: the row
lock keeps a job active while a stop request handles it (`LockInv`; without it
`StopCommit` could cancel a finished job); nothing exists for a job before its
row (`BornInv`; without it `Create` could revive an execution); a process past
`mark_running` never finds its job `PENDING` (`StartedInv`; without it `MarkDone`
would skip `RUNNING`); and a process past the handler has delivered (`FileInv`).
`NextIInv` has one step per action. `Redeliver` preserves quietness because only
a waiting message is redelivered, which is the one thing the refinement needs of
the broker.

`TransferRunsProofs` adds what turns on who runs a job:

* `RunningRevocable`: `Spec => []RunningIsRevocable`. `OriginInv` is what it needs:
  a job that a request created runs under its own message only, so that
  `RecordTaskId` and `mark_running` write the same id, and a tick's job has one
  task.
* `NeverRerun` (`FinishedNeverRerun`). `OnceInv`: of a job whose message has been
  handed out once there is one process, and once it has been `RUNNING` no message,
  no request and no process is left that could start it.
* `ToldFinal` (`ToldIsFinal`). `ToldInv`: a process past its `UPDATE` of the status
  finds the status final, and a process that goes on after a notice can only turn
  `DONE` into `FAILED`.

Only model-checked: the liveness properties (liveness under fairness is outside
TLAPS' reach).

## 3. Webhook deliveries: `WebhookCircuit`

The webhook of one user: the tasks that deliver to it and the circuit breaker,
two columns of the user's row that every task reads once and writes back from
its copy, up to ten seconds later.

| Variable | Code |
|---|---|
| `count`, `until` | `webhook_failure_count`, `webhook_circuit_open_until` (0 for NULL) |
| `now` | the clock, in ticks; `Cooldown` ticks are the fifteen minutes |
| `pc`, `copy`, `retries` | where a task is, the user as it has loaded it, `self.request.retries` |
| `log` | rows of `WebhookDeliveryLog`, by kind |

A delivery is `Begins` and `Load` (with `SkipDelivery` when the circuit of the
copy is open), `Post`, then `RecordSuccess` and `LogSuccess`, or `RecordFailure`
and `Retry`; a health notification runs the same steps without a retry. `Retry`
may also end the task, when the broker refuses the message.

`CircuitBreaker` is the breaker as a user would describe it: so many failures in a
row suspend deliveries for a while, a success ends the suspension. The worker has
four processes (`worker/Dockerfile:33`, `--concurrency=4`), so that increments made from
stale copies are lost. What holds for any number of processes is

* `CountIsEarned`: no opening before that many failed deliveries;
* `FollowsBreaker`: every write of the two columns is a step of the breaker, but
  for those of a task in `beside`, which had another at work beside it since it
  loaded the row (`beside` is a history variable: the code has no such column).

| Run | Instance | Checks |
|---|---|---|
| `panel` (section 7) | 2 transfer and 1 health notification, 2 processes, threshold 2, cooldown 2, 2 retries, clock to 3 | `CountIsEarned`, `FollowsBreaker` |
| `suspension` | 3 notifications without a retry, 2 processes | `SuspensionHolds`, violated |

Three deliveries exceed the threshold, two processes make copies stale, and the
clock runs past one cooldown. `SuspensionHolds` is what the page of deliveries says
of an open circuit (`web/templates/webhook_deliveries/list.html:8`):
deliveries are suspended until the time it shows. A delivery that loaded the row
before the circuit opened, and fails after it, writes its copy back, with NULL for
that time. The profile form, which writes the same columns, is left to `UserRoles`.

Theorems (`ConnectionsProofs`), for any number of deliveries, processes and
retries: `CircuitTypes`, and `CountEarned`, the invariant `CountIsEarned`. Its
inductive form `CircuitInv` says of every copy what `CountIsEarned` says of the row
(`Earned`): the count is at most the number of failures, and an open circuit means
that there were `CircuitThreshold` of them. The failures are those in the log and
those of tasks that have recorded one and not yet logged it; they never become fewer
(`FailuresGrow`), and only one more of them lets a task write a larger count.

`BreakerFollowed` is the property `FollowsBreaker`. `AloneInv`: a task outside
`beside` is the only one at work, so that its copy is still the row until it writes,
and since the circuit was closed when it began, and the clock only goes on, `Fail`
and `Succeed` of the breaker are enabled when it records. A success that finds the
copy clean writes nothing: a stutter.

## 4. The dump relay: `DumpRelay`

`_run_pipe` and `execute` of the PostgreSQL handler, and of the MySQL handler,
which takes the same steps: a dump and a load process, a relay thread between
them, two threads that drain stderr into the job's log, and the main thread that
joins them and tries again. The unit is a line; a pipe (with the buffers in front
of it) holds `PipeSize` lines. What `_relay_lines` makes of a line is left out.

| Variable | Code |
|---|---|
| `dump`, `load` | the processes: at the next line, with a message for stderr, about to write it, or exited |
| `written`, `loaded`, `stdout`, `stdin` | lines written and loaded, and in the two pipes between |
| `stderr`, `drain` | the two other pipes and the threads that read them; `"dead"` after `log_callback` has raised |
| `relay` | the relay thread: reading, with a line in hand, in its `finally` (input of the loader closed, output of the dump closed) |
| `output` | `output_lines` has something for `_check_output` |
| `attempt`, `result` | the loop of `execute` and how it ends |

Either process may fail at any moment (`DumpFails`, `LoadFails`), a drain thread
may die `LogFaults` times and the relay thread `RelayFaults` times.

| Run | Instance | Checks |
|---|---|---|
| `dump_pipeline` | 3 lines, pipes of 1, 2 attempts, 1 log fault, 1 relay fault, fair | `TypeOK`, `DoneIsComplete`, `Terminates` |
| `dump_truncated` | 1 attempt, 1 relay fault | `CompleteIsComplete`, violated |

With pipes of one line every pipe is full and empty in turn, and three lines
suffice to have one in the loader, one on the way and one to come. Fairness is
that of the operating system's scheduler for each process and thread; a process
is never obliged to fail, since a failure would be what breaks a deadlock. The
runs do not check for deadlock: `execute` returns. `Terminates` excepts a log
fault: a dead drain thread leaves a pipe nobody empties, and `execute` may wait
for ever. `DoneIsComplete` excepts a relay fault, for the reason that
`dump_truncated` shows.

An exception of `_relay_lines` other than `OSError` ends the relay thread, whose
`finally` closes the loader's input as at the end of a dump. If the dump has
written its last line into the pipe by then, both processes exit with 0 and the
job is done, without the rest of the lines.

Theorems (`DumpRelayProofs`), for any number of lines and attempts and any size
of pipe: `TypeCorrect`, and `CompleteTransfer`, which says that this is the only
way (`DoneIsComplete`). The invariant
`RelayInv` is a conservation law. A line that was written is in a pipe, in the
hand of the relay thread, or loaded (`Conserved`), and the relay thread stops
only when nothing is left or the loader has failed (`NothingLeft`); `NoneAdded`
and `LineToWrite` are what the bounds of `TypeOK` need to be inductive.

`StepsEnd` and `NotStuck` prove what `Terminates` rests on, again for any number of
lines and attempts and any size of pipe. `StepsEnd` counts: every step, a failure
and a retry included, takes at least one off `StepsLeft`, which begins at
`Attempts * (9 * Lines + 11)`. A line takes nine at most (three of the dump and two of the
loader with what they say about it, two of the relay thread, two of the drains), and
the eleven more are for the ends of processes and threads. `NotStuck` says that
while `execute` has not returned some process or thread can go on, unless
`log_callback` has raised: `NeverStuck` names what each of them may wait for, and no
circle of full and empty pipes closes, because a drain thread that lives serves its
pipe until the process has gone (`DrainsServe`). A transfer that did not return
would leave a process or thread that can go on waiting for ever; that it does not is
the fairness of the operating system, which TLC adds.

## 5. Roles: `UserRoles`

`change_user_role`, the audit entries it writes, and the profile form, which
writes the role too because `ModelForm.save()` writes every column.

| Variable | Code |
|---|---|
| `role` | the committed column `User.role` |
| `lock` | the row locks taken by `select_for_update()` |
| `req` | a request for a change: author checked, target locked and read, others counted |
| `profile` | the role in the copy of the row that a profile request works on |
| `audited`, `gaps` | what the `ConfigAuditLog` entries tell: the last new role, and the users with an entry whose old role is not the new role of the entry before |

| Run | Instance | Checks |
|---|---|---|
| `panel` (section 7) | 2 users, one of whom saves a profile, 2 requests | `AccountsTypeOK`, `AuditIsHistory` |
| `roles_last_admin` | 3 users, 2 requests, no profile | `AdminRemains`, violated |
| `roles_profile` | 3 users, 1 request, one profile | `RoleIsAudited`, violated |

Nothing is bounded but the sets: requests start over for ever and the history is
kept as its summary. Two requests are what a race takes; the violation runs have
a third user besides the two administrators who demote each other, or besides the
one who saves a profile. The two disagreements: the count of the
remaining administrators locks nothing (Django drops `FOR UPDATE` from a
`COUNT`), and a profile saved late undoes a change of role without a trace in
the log.

Theorems (`AccountsProofs`): `RolesTypeCorrect` and `AuditHistory` for any number
of users and requests. The invariant: who has read the target's row holds its lock,
and what was read is still true (`Held`). That an administrator remains is no
theorem of the code, as `roles_last_admin` shows.

Creating a user and Django's own admin site, which edits any column without the
check, are left out; so are deactivated accounts.

## 6. The work: schedules, uploads, database transfers, handlers

`Work` composes seven components, each of which moves with the others at rest;
`MCWork` instantiates it for the run `work`. The variable `moves` is chosen in
`WorkInit` and never changes, so the run explores the sum of the state spaces and
not their product. This loses nothing of what is checked, because the components
write different rows, files and tables and no property relates two of them.
`DbTransferJob` is extended, the others are instances. Where two handlers, or one
handler at two moments, promise the same, one property of `Work` is the
conjunction: `NothingLeftBehind`, `ArrivesAsAsked`, `DeliversOrStops`,
`CopiesWholeAndOnce`. 1.4 million states, requests and ticks being interchangeable;
every action of every component fires. The run does not check for deadlock: every
transfer comes to an end.

### `Scheduler`

| Variable | Code |
|---|---|
| `sched`, `beat` | `enabled` of the rows of `ScheduledTransfer` and of its `PeriodicTask`, `None` without one |
| `flow` | the flow is there |
| `req` | a request of `schedule_create`, `_edit`, `_toggle` or `_delete` between its statements, with its copy |
| `tick`, `job` | how far the process of each tick has come in `_create_job_from_schedule` and `execute_transfer`, and the status of the job it created |
| `owed`, `late`, `cut`, `past` | what has happened, for the properties: the ticks that had looked when the schedule was switched off, those that created a job after that, those that lost their process or their schedule; overlaps, lost requests, the cascade |

`Load`, `Save` and `Sync` (`_sync_celery_beat`) are the three statements of a
request that writes, `DeleteBeat` and `DeleteRow` of one that deletes;
`RequestLost` may come between any two. `FlowDelete` takes the schedule along in
the database and leaves the periodic task: beat goes on sending ticks, each of
which finds no schedule.

Beat sends a tick whatever runs, and the worker has four processes, so ticks
overlap: `TickFires`, `TickLoads`, `TickCreates`, `TickStamps`, `TickRuns` and
`TickEnds` of one interleave with those of any other and with all requests.
`ProcessDies` may come between any two of them, `objects.create`
(`worker/tasks.py:93`), the stamp (`:107`) and `mark_running` (`:212`) included; the
message was acknowledged when the task began, so nothing hands the tick out again.

* `RowAndTaskAgree`: at rest the two rows agree, unless two requests overlapped,
  one died, or the flow took the schedule along. All three exceptions are real.
* `OffMeansOff`: even then, and however many ticks wait or are at work, a schedule
  that is off or gone creates no jobs but those whose ticks had already looked it up
  (`late \subseteq owed`; there may be several).
* `CreatedIsRun`: a job that a tick has created and that is still `PENDING` has the
  tick's process ahead of its `mark_running`. Two exceptions, both real: the process
  died, or the schedule went while the tick was at work, so that the stamp raised.
  Such a job stays `PENDING` for ever: `cleanup_orphan_jobs` looks for `RUNNING` only.

Left out: an edit of the flow, whose paths a tick copies into its job and reads
once more for the transfer; the jobs of `flow_run`, which are `Create` and
`SendTask` of `TransferJob`. Bounds: two requests and two ticks at a time; a tick
whose job stays `PENDING` is not used for another.

### `UploadStore`

The files of the transfers volume as sets of uploads: `upload` (a request of
`transfer_create` or `transfer_dry_run`, then its job), `disk`, `there` and `old`
(names with a file, and with one older than the retention period). An upload is
opened, written, closed and given to a job (`CreateJob`) or to several
(`CreateBatch`); the worker sends what has the name and unlinks it. Two uploads of
one name share a file; `SendsOwnUpload` says that nothing else mixes them, and
`NotDoneIsKept` that a failed job keeps its file and that the retention is the
only thing that takes one from a job that has not run. Three uploads under two
names: two that share one and a third that does not, or comes later.

### `DbTransferJob`

The life of a database transfer: `dbjob` (the row), `form`, `stop` and `deletion`
(the requests), `run` (the deliveries of its message) and `history`. There is no
cleanup, so `Killed` leaves the row `RUNNING` until a user stops it:
`RunningIsWorked` says that this is the only way. `DoneIsCopied`: no row is `DONE`
of which no execution of the handler returned. `DbKeepsOutcome`: it implements
`JobOutcome`, the specification that the file transfers implement. Three
deliveries, so that two late ones can contradict each other over a third.

### `FileTransfer`

`RsyncHandler.execute` and `.preview` and `SFTPHandler.execute` for one file:
`ft` (step, parameters, attempts, what the local variables hold), `temps` (the
temporary files), `source` and `dest`. The parameters are any combination of host
key checking, key, encryption, dry run and verification. The source is rewritten
by another upload while it is read (`OverwriteSource`), a process may be killed at
any step (`Killed`), any step may raise. `TempsRemoved` (in `NothingLeftBehind`); `VerifiedIsSource` and
`OnlyCipherLeaves` (`ArrivesAsAsked`).

The verification takes three steps, as in `worker/modules/checksum/handler.py:30-64`:
the source is opened (`StartHash`), read to its end (`HashLocal`, which gets what
it held, what it holds, or a mixture), and the hash is compared with that of the
remote file (`CompareRemote`). So `VerifiedIsSource` promises two things: the
destination holds, unharmed, what the checksum was computed of; and that is what the
source holds, unless an upload of the same name wrote to it since the hashing began.
The second has that exception because the code does: a checksum says nothing of a
rewrite that comes while it is computed or compared. The SFTP handler retries a timeout
and verifies inside the attempt, rsync retries the command and verifies after it.
If writing the key or the known hosts itself fails, the file stays, since no local
variable holds its name yet: `TempsRemoved` excepts that.

### `RelayTransfer`

`RelayHandler.execute`: a file or a directory from one host to another, small
files as a stream and large ones through a local copy. `temp` holds that copy and
the known hosts that `_build_client` writes, loads and removes. `NoLocalCopy` (in
`NothingLeftBehind`, with the same exception for a file whose writing failed);
`AllDelivered` and `StopsAtFirstError` (`DeliversOrStops`). Two files, one of them
large; the source's files change and vanish meanwhile, also between the two hashes
of `verify_relay` (`HashSource`, `FileDone`).

### `SqlCopy`

`MssqlTransferHandler.execute`: one script that drops and creates the tables, then
`bcp` out, masking, `bcp` in for each, and all of it again when a step fails.
`schema` is the version of a source table, which others may alter at any moment
(`Alter`), `dest` what each table of the destination holds, `odd` the tables with
rules in which a value has a tab or a newline. `CopiedOnce` (an attempt appends only
to tables it has just created) and `DoneIsCopy` make up `CopiesWholeAndOnce`;
`FilesOnlyAtWork` (in `NothingLeftBehind`) says that the exported rows are on the
worker's disk only while an attempt is at work. `DoneIsCopy` excepts a table that was
altered while the transfer ran (the schema is read twice and nothing notices), and
one in `odd`: with rules a table is exported in character format, which escapes
neither character, so that it loads as something else. What masking makes of a row
is left to `Masking`.

### `Masking`

The line functions of the three handlers as operators, against the row that the
engine would have written with the fakes in it. `CutAt`, `Split`, `ColNames`,
`MaskLine`, `Stripped` and `Relayed` are the code, `Escape`, `Literal` and `Join` how the engines
write rows, `Masked` the reference, which no code computes. Rows of two values of
up to two characters out of the four that matter: quote, backslash, separator, and
the text of the engine that its loop does not take for data (`Odd`; elsewhere it
stands for any other character). The columns' names may be plain, in the quotes of
the dump, have a comma, or be dropped between export and second read (`Spellings`).

`MaskedUnlessMisread` holds for every row but those that `Misread` names, which the
code does misread. Whatever the rules:

* MySQL with `strip_collation`: ` COLLATE utf8mb4_0900_ai_ci` is removed from the
  data of a row, too (`worker/modules/mysql/handler.py:129`);
* PostgreSQL: a row that begins with `SET transaction_timeout` is left out.

Where the table has rules, ruled values pass unmasked, or others are replaced:

* the header of a `COPY` that `_COPY_HEADER_RE` does not match (a space in a name),
  or an `INSERT` that `_INSERT_RE` does not match (a parenthesis or a backtick): the
  rows pass as they are (`mysql/handler.py:131-134`; `TableBegins` with `matches`
  false);
* PostgreSQL: after a row that reads like a header of `COPY` (`RowLikeHeader`);
* a column whose name stands in quotes, or has a comma (the list of columns is cut
  at every comma), and in that case the columns behind it;
* MSSQL: a column dropped between the export and the second read of the schema, and
  the columns behind it;
* MySQL: a value that ends in a backslash, whose closing quote `_split_values` takes
  for an escaped one;
* MSSQL: a value with a tab or a newline, which `bcp -c` does not escape: the columns
  behind it shift, or the row falls into two (`mssql/handler.py:141-149`).

### Theorems: `WorkProofs`, `MaskingProofs`, `HandlersProofs`

The assumptions are those of `WorkAssumption`: there are names, files, tables and
attempts, the engines are the three that have a handler, and `None` is no row. Each theorem is about the specification of its
component; `WorkIsItsParts` shows that what `Work` does each of its parts does or
stutters, and `WorkIsSafe` puts them together: it is all that the run `work` checks.

`WorkProofs`, for any number of deliveries of a database transfer: `RunningWorked`,
`DoneCopied`, `DbRefinement` (the refinement of `JobOutcome`). The invariant `DbInv` adds to the
two properties: a stop that holds the lock keeps the row active (`Held`), nothing
runs before the row is there (`Born`), an execution past `mark_running` never finds
the row `PENDING` (`Started`), who has copied has left it in the history
(`Copied`), and without a redelivery there is one execution (`OneRun`).

And for any number of requests, uploads and names:

* `RowsAgree`, `OffCreatesNone`, `TickRunsItsJob`, by `ScheduleInv`, for any number
  of ticks, too. `PairInv` tells, for the one request that is under way while nothing
  overlaps, how far row and periodic task have come; `LateInv` that while the
  schedule is off, every tick between its look-up and its creation is one that had
  looked before, whichever of them are at work; `TickInv` where a job's process is,
  and that a tick that goes on without its schedule is in `cut`.
* `SendsItsUpload` and the action property `UploadIsKept`, by `UploadInv`: an upload
  that has shared its name with none is the only thing under that name, on disk and
  in what is sent of it (`OwnFileInv`), so that whoever unlinks the name is done
  with this upload.

`MaskingProofs`, for values of any length:

* `ReadableSplits`: the splitting undoes what the dump writes of a row. Split, join
  and the text of a value are folds, which their definitions choose as functions
  over sets of indices; `FoldExists` shows that there is such a function, by
  `SetInduction` (a set of numbers that has 0 and with n also n + 1 has all: if m
  were missing, k + 1 would number those below m with one less of them). The split
  is then a way from state to state (`SplitReads`) that ways through its parts make
  up (`ReadsThen`, `ReadsOnce`). A field (`IsField`) is read as one (`FieldReads`):
  in MySQL it stands in quotes of which none within is free of a backslash before it
  and the last character within is none, in the other two it has no separator.
  `LiteralIsField`, by induction on the characters, shows that a dump writes a field
  for every value but those that `Misread` names.
* `RowsAreMasked` (`MaskedUnlessMisread`): beside that, a loop that knows the table
  and finds the names in their places puts the fakes where the rules say
  (`NamesInPlace`, `SplitsWellIsMasked`), and a row without a line break is one line
  (`OneLine`).

`HandlersProofs`, for any files, tables, rules and attempts:

* `CopiesOnce`, by `CopyInv`. A table still to be imported is empty (`AppendInv`: the
  appending import would otherwise double it), a table altered since the script is
  never altered back (`OrderInv`), and what was imported is whole unless its source
  was altered or dropped in between, or the table is in `odd` (`WholeInv`).
* `DeliversAllOrStops`, by `RelayInv`: the files of the listing not yet begun are
  not at the destination, those past hold something (and soundly, if verification
  was asked for), and the one at work is the only one in between.
* `ArrivesVerified`, `LeavesNothingBehind`, by `FileInv`. `TempInv`: each step of
  `execute` and of `preview` has no temporary files but those whose names its local
  variables hold. `VerifiedInv`: until the source is written to, what the comparison
  is about to accept, or has accepted, is what the source holds. `CipherInv`: nothing is written before the file is encrypted, and
  only the encrypted copy leaves when encryption is asked for.
* `WorkTypes`: the types of all seven (`AllTypeOK`).

## 7. The panel: `Panel`, and the account: `SecondFactor`, `ApiTokens`

`Accounts` composes `UserRoles` (section 5), `SecondFactor` and `ApiTokens`;
`Connections` composes `WebhookCircuit` (section 3), `HealthCheck`, `ConnectionEdit`
and `ConfigPortability` (section 8); `Panel` composes the two. In each composition a
component moves with the others at rest, as in `Work` and for the same reason.
`MCPanel` instantiates `Panel` for the run `panel`: 1.05 million states, requests,
tasks and recovery codes being interchangeable. Its sets share their members
between components that never move together, so that one permutation serves them.

`SecondFactor` is the login of one user. A request works on copies: of the user's
row, whose counters it writes back after the password has been hashed, and of its
session, which Django stores as a whole when the request ends; `login()` and
`logout()` give the session a new key, after which the requests of the old key
(`live`) can store nothing.

| Variable | Code |
|---|---|
| `user` | `failed_login_attempts`, `locked_until` in the future, `totp_enabled` |
| `codes`, `holder` | the rows of `TOTPRecoveryCode`, and who has locked the unused ones (`select_for_update`) |
| `session` | anonymous, with the password given (`pre_2fa_user_id`) and its `pre_2fa_attempts`, or logged in |
| `visit` | a request of `login_view`, `totp_verify`, `totp_setup` or `totp_disable` between its statements |
| `entered`, `wrong`, `overlap` | for the properties |

* `CodeUsedOnce` holds however requests overlap: the lock and the condition
  `used_at IS NULL` that PostgreSQL evaluates again see to it.
* `FailuresCounted` and `CodesWithFactor` except what their names do not say:
  logins that overlap count as one, setups that overlap or die between two
  statements leave codes without a factor or a factor without codes.

Wrong codes are counted in the session (`pre_2fa_attempts`), of which each request
has a copy, so requests of one session that overlap share an attempt. The model has
that; no property is about it.

`ApiTokens`: `tokens`, `revoked` and the requests under way.
`docs/features/profile.md:20` speaks of a maximum of five active tokens per user, and
`generate_api_token` counts before it creates, without a lock. So the limit itself,
`TokenLimit`, is violated, which the run `token_limit` shows with two requests and a
limit of two; `TokenBound` in the run `panel` says by how far it can be missed: by no
more than the requests that are under way at a time, less one.

Two requests at a time in one browser, two recovery codes, thresholds of two:
each counter reaches its limit and an overlap can spoil it. Not modelled: the
code of an authenticator may be entered twice within its ninety seconds; data
that an anonymous session takes along when it logs in.

Theorems (`AccountsProofs`), for any number of requests. `BoundHolds`, for a finite
set of callers and any limit, by way of the invariant itself, whose step for
`Generate` trades a counted request for a token. `CodeOnce` (`CodeUsedOnce`), since
what a request has seen under the lock is still unused (`CodesInv`: others can
neither use nor delete it, and a setup that inserts codes meanwhile makes only more
of them unused); `CountedFailures`, since without an overlap one login works on the
counter and its copy is the row (`LoginInv`); and `FactorHasCodes`, where
`FactorInv` tells for each step of a setup or disabling how far secret and codes
have come (`Progress`). `AccountsTypes` are the types of all three, and
`AccountsAreSafe` is all that the run checks, of the composition. They assume what
`UserRolesAssumption`, `SecondFactorAssumption` and `TokensAssumption` say: there is
a user and a browser, `Nobody` is no request, no key is mistaken for a step, and
only finitely many requests are under way at a time.

## 8. The connections: `HealthCheck`, `ConnectionEdit`, `ConfigPortability`

The other three components of `Connections`, checked in the run `panel`.

`HealthCheck`: the row's health (`conn`), the tasks that check it (`check`: the
status loaded, the status found), a request that edits with the health in its copy
(`editing`), the notices in the queue and what each channel has told last.
`LastWordIsTrue`: when all is quiet, what the owner heard last is what the row
says, unless checks overlapped, an edit wrote back an old health, two notices
waited at a time, a task was lost or a channel raised (the later channels are then
not told, and there is no retry). Two checks, two notices of a kind.

`ConnectionEdit`: the requests that edit and delete one connection, statement by
statement, with the entries of the audit log. `AuditIsCurrent`: at rest the log
ends with what the row says, also when an edit undoes one that was saved while its
form was open, since the comparison is with a row loaded anew. Flows keep their
log in the same way.

`ConfigPortability`: the connections and flows of one administrator, an exported
file, imports under way. `ImportIsComplete`: an import leaves out no flow of the file
whose connections the file has, unless the account changed while it ran. An import is
one transaction, so its inserts are one step, and the names it skips are read
before. The exported fields (`CONNECTION_FIELDS`) lack `kind` and `db_name`: the
import makes an SSH connection of a database connection, although
`docs/superpowers/specs/2026-06-26-config-import-export-design.md:8` speaks of the
whole configuration. The model has no fields but the name.

Theorems (`ConnectionsProofs`), for any number of checks, notices, edits, imports
and names. `ConnectionsAssumption` says that a field of a row is not mistaken for a
row that is gone, nor a missing connection for one that is there.

* `LastWordTrue`, by `HealthInv`: while nothing happens that the property excepts,
  one check is at work and no edit beside it (`OneAtWork`); what the channels will
  have told once the queue is empty (`LastNews`) is the status the check had loaded
  until it publishes, and else the row's (`RowIsTold`).
* `AuditCurrent`, by `EditInv`: an edit that has compared has the row as it is; one
  that has saved is alone, the row is its copy and the log what it will be compared
  with; a deletion is in the log before it is in the table (`LogFollows`).
* `ImportComplete`, the action property `ImportIsComplete`, by `ImportInv`: an import
  that nothing disturbs is alone, and the names it has found are those that are
  there when it inserts; every flow has its ends. `Commits` says what one
  transaction of an import makes of the rows.
* `ConnectionsTypes` and `ConnectionsAreSafe`: the types of all four, and all that the
  run checks of them, of the composition.
* `PanelIsSafe`: all that the run `panel` checks, of `Panel`, since what it does each
  of its two parts does or stutters (`PanelIsItsParts`).

## 9. What is not modelled

`PROJECT.json` lists every part with its status. For good: browsing, connection
testers, monitoring and the dashboard (they only read), the organization's
settings (one row that one form overwrites), the configuration of Docker and
nginx, the layout of messages, the HTTP and SMTP calls, the verification of row
counts in the database handlers (it only logs), the fakes of the masking engine.

Out of the provers' reach, and so only model-checked: the liveness properties
(`RunningEnds`, `DispatchedStarts`, `Terminates`), since they need fairness and
`ENABLED`; of `Terminates` everything but the fairness is proved (`StepsEnd`,
`NotStuck`). Every other property of a passing run is a theorem.

## 10. What could come next

* the profile form's write of the breaker's columns as a step of
  `WebhookCircuit`, and of the lockout columns in `SecondFactor`;
* `Masking` composed with `DumpRelay`: a row that is misread in the thread that
  also ends the stream;
* abstract specifications of the handlers (a file arrives or stays away, a table is
  old, empty or whole) that `FileTransfer`, `RelayTransfer` and `SqlCopy` implement,
  and one of the life of a schedule for `Scheduler`;
* the retries of e-mail and Telegram, which share a task each.
