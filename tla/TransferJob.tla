----------------------------- MODULE TransferJob -----------------------------
(***************************************************************************)
(* The life of a transfer job: the row of the TransferJob table, the web   *)
(* requests that create, stop and delete it, the `transfers.execute'       *)
(* message that carries it to a worker, the worker process that runs it    *)
(* and the periodic cleanup of orphaned jobs.                              *)
(*                                                                         *)
(* A step is one database statement, one publication to the broker or one  *)
(* effect on the file system.  Three parties write the status of a row:    *)
(* the stop view (in a transaction that locks the row), the worker (one    *)
(* autocommitted UPDATE per status, unconditionally) and the cleanup task  *)
(* (one UPDATE).  The broker, Celery's revocation and the periodic         *)
(* scheduler are external: they are modelled as the code relies on them.   *)
(***************************************************************************)
EXTENDS Naturals

CONSTANTS
    Jobs,           \* rows of the TransferJob table
    Ticks,          \* firings of a schedule's PeriodicTask
    Workers,        \* processes of the worker's pool
    None,           \* no task id, no job
    MaxDeliveries,  \* bound: how often the broker hands out one message
    MaxCrashes      \* bound: how many processes die

ASSUME TransferJobAssumption ==
    /\ Jobs \cap Ticks = {}
    /\ None \notin Jobs \cup Ticks
    /\ MaxDeliveries \in Nat \ {0}
    /\ MaxCrashes \in Nat

VARIABLES
    (* The database row. *)
    status,         \* [Jobs -> Statuses]
    taskId,         \* [Jobs -> Messages \cup {None}], celery_task_id
    age,            \* [Jobs -> Ages], started_at against the one hour limit
    (* The files. *)
    source,         \* [Jobs -> Sources], the source file of the job
    delivered,      \* [Jobs -> BOOLEAN], the destination holds the file
    (* The web requests. *)
    dispatch,       \* [Jobs -> ...], the request that created the job
    stop,           \* [Jobs -> ...], the request that stops the job
    deleting,       \* [Jobs -> BOOLEAN], a request has decided to delete it
    (* The broker and the revocations. *)
    waiting,        \* [Messages -> Nat], copies of a message not yet taken
    made,           \* [Messages -> Nat], copies of a message ever made
    revoking,       \* SUBSET Messages, revocations on their way
    revoked,        \* SUBSET Messages, revocations the worker remembers
    (* The worker's processes. *)
    pc, task, job,  \* control state, message and job of each process
    told,           \* [Jobs -> BOOLEAN], a notification task was published
    crashes         \* processes lost so far

rowVars    == <<status, taskId, age>>
fileVars   == <<source, delivered>>
webVars    == <<dispatch, stop, deleting>>
brokerVars == <<waiting, made>>
revokeVars == <<revoking, revoked>>
workVars   == <<pc, task, job>>
vars == <<rowVars, fileVars, webVars, brokerVars, revokeVars, workVars,
          told, crashes>>

(***************************************************************************)
(* The message of a job created by a web request is named after the job;   *)
(* the message of a schedule carries no job, the worker creates one.       *)
(***************************************************************************)
Messages == Jobs \cup Ticks

Active   == {"pending", "running"}
Terminal == {"done", "failed", "cancelled"}
Statuses == {"none", "deleted"} \cup Active \cup Terminal

Ages    == {"unset", "fresh", "old"}
\* "local": an upload in TRANSFERS_DIR of a connection job; "remote": a flow,
\* or a path outside TRANSFERS_DIR, which the worker never touches.
Sources == {"remote", "local", "removed"}
Steps   == {"idle", "loaded", "transfer", "ok", "cleanup", "notify",
            "err", "errnotify"}

TypeOK ==
    /\ status    \in [Jobs -> Statuses]
    /\ taskId    \in [Jobs -> Messages \cup {None}]
    /\ age       \in [Jobs -> Ages]
    /\ source    \in [Jobs -> Sources]
    /\ delivered \in [Jobs -> BOOLEAN]
    /\ dispatch  \in [Jobs -> {"idle", "created", "sent", "over"}]
    /\ stop      \in [Jobs -> {"idle", "locked", "revoked"}]
    /\ deleting  \in [Jobs -> BOOLEAN]
    /\ waiting   \in [Messages -> 0 .. MaxDeliveries]
    /\ made      \in [Messages -> 0 .. MaxDeliveries]
    /\ \A m \in Messages : waiting[m] <= made[m]
    /\ revoking  \in SUBSET Messages
    /\ revoked   \in SUBSET Messages
    /\ pc        \in [Workers -> Steps]
    /\ task      \in [Workers -> Messages \cup {None}]
    /\ job       \in [Workers -> Jobs \cup {None}]
    /\ \A w \in Workers : pc[w] # "idle" => job[w] \in Jobs /\ task[w] \in Messages
    /\ told      \in [Jobs -> BOOLEAN]
    /\ crashes   \in 0 .. MaxCrashes

Init ==
    /\ status    = [j \in Jobs |-> "none"]
    /\ taskId    = [j \in Jobs |-> None]
    /\ age       = [j \in Jobs |-> "unset"]
    /\ source    = [j \in Jobs |-> "remote"]
    /\ delivered = [j \in Jobs |-> FALSE]
    /\ dispatch  = [j \in Jobs |-> "idle"]
    /\ stop      = [j \in Jobs |-> "idle"]
    /\ deleting  = [j \in Jobs |-> FALSE]
    /\ waiting   = [m \in Messages |-> 0]
    /\ made      = [m \in Messages |-> 0]
    /\ revoking  = {}
    /\ revoked   = {}
    /\ pc        = [w \in Workers |-> "idle"]
    /\ task      = [w \in Workers |-> None]
    /\ job       = [w \in Workers |-> None]
    /\ told      = [j \in Jobs |-> FALSE]
    /\ crashes   = 0

Exists(j) == status[j] \notin {"none", "deleted"}

\* A faulty variant: transfer_stop reads the row without select_for_update.
NeverLocked(j) == TRUE

\* A stop request holds the row lock from its SELECT to its commit; every other
\* writer of the row waits for it.
Unlocked(j) == stop[j] = "idle"

-----------------------------------------------------------------------------
(***************************************************************************)
(* The web requests.                                                       *)
(***************************************************************************)

\* transfer_create, flow_run, trigger_connection, trigger_flow: commit the row.
Create(j) ==
    /\ status[j] = "none"
    /\ status' = [status EXCEPT ![j] = "pending"]
    /\ \E s \in {"local", "remote"} : source' = [source EXCEPT ![j] = s]
    /\ dispatch' = [dispatch EXCEPT ![j] = "created"]
    /\ UNCHANGED <<taskId, age, delivered, stop, deleting, brokerVars,
                   revokeVars, workVars, told, crashes>>

Publish(m) ==
    /\ made[m] = 0
    /\ made' = [made EXCEPT ![m] = 1]
    /\ waiting' = [waiting EXCEPT ![m] = 1]

\* The first half of _dispatch_transfer: send_task.
SendTask(j) ==
    /\ dispatch[j] = "created"
    /\ dispatch' = [dispatch EXCEPT ![j] = "sent"]
    /\ Publish(j)
    /\ UNCHANGED <<rowVars, fileVars, stop, deleting, revokeVars, workVars,
                   told, crashes>>

\* The second half: UPDATE celery_task_id, of no row if the job is gone.
RecordTaskId(j) ==
    /\ dispatch[j] = "sent"
    /\ Unlocked(j)
    /\ dispatch' = [dispatch EXCEPT ![j] = "over"]
    /\ taskId' = IF Exists(j) THEN [taskId EXCEPT ![j] = j] ELSE taskId
    /\ UNCHANGED <<status, age, fileVars, stop, deleting, brokerVars,
                   revokeVars, workVars, told, crashes>>

\* send_task raises, or the web process dies between the steps: the row was
\* committed before, and stays as it is.
DispatchFails(j) ==
    /\ dispatch[j] \in {"created", "sent"}
    /\ dispatch' = [dispatch EXCEPT ![j] = "over"]
    /\ UNCHANGED <<rowVars, fileVars, stop, deleting, brokerVars, revokeVars,
                   workVars, told, crashes>>

\* transfer_stop, SELECT ... FOR UPDATE and the check of the status.
StopBegin(j) ==
    /\ status[j] \in Active
    /\ Unlocked(j)
    /\ stop' = [stop EXCEPT ![j] = "locked"]
    /\ UNCHANGED <<rowVars, fileVars, dispatch, deleting, brokerVars,
                   revokeVars, workVars, told, crashes>>

\* transfer_stop, the revocation: broadcast before the commit, and only when
\* the id of the task is known.
StopRevoke(j) ==
    /\ stop[j] = "locked"
    /\ stop' = [stop EXCEPT ![j] = "revoked"]
    /\ revoking' = revoking \cup ({taskId[j]} \ {None})
    /\ UNCHANGED <<rowVars, fileVars, dispatch, deleting, brokerVars, revoked,
                   workVars, told, crashes>>

\* transfer_stop, mark_cancelled and the commit.
StopCommit(j) ==
    /\ stop[j] = "revoked"
    /\ stop' = [stop EXCEPT ![j] = "idle"]
    /\ status' = [status EXCEPT ![j] = "cancelled"]
    /\ UNCHANGED <<taskId, age, fileVars, dispatch, deleting, brokerVars,
                   revokeVars, workVars, told, crashes>>

\* The stop request dies, or the broker refuses the revocation: the transaction
\* rolls back, a revocation already sent is not recalled.
StopRollsBack(j) ==
    /\ stop[j] # "idle"
    /\ crashes < MaxCrashes
    /\ crashes' = crashes + 1
    /\ stop' = [stop EXCEPT ![j] = "idle"]
    /\ UNCHANGED <<rowVars, fileVars, dispatch, deleting, brokerVars,
                   revokeVars, workVars, told>>

\* transfer_delete, the check: an active job is refused.
DeleteCheck(j) ==
    /\ status[j] \in Terminal
    /\ ~deleting[j]
    /\ deleting' = [deleting EXCEPT ![j] = TRUE]
    /\ UNCHANGED <<rowVars, fileVars, dispatch, stop, brokerVars, revokeVars,
                   workVars, told, crashes>>

\* transfer_delete, the DELETE, by primary key only.
DeleteRow(j) ==
    /\ deleting[j]
    /\ Unlocked(j)
    /\ deleting' = [deleting EXCEPT ![j] = FALSE]
    /\ status' = [status EXCEPT ![j] = "deleted"]
    /\ UNCHANGED <<taskId, age, fileVars, dispatch, stop, brokerVars,
                   revokeVars, workVars, told, crashes>>

\* connection_delete: the CASCADE takes the job with it, whatever its status.
DeleteConnection(j) ==
    /\ Exists(j)
    /\ Unlocked(j)
    /\ status' = [status EXCEPT ![j] = "deleted"]
    /\ UNCHANGED <<taskId, age, fileVars, webVars, brokerVars, revokeVars,
                   workVars, told, crashes>>

-----------------------------------------------------------------------------
(***************************************************************************)
(* The broker, the revocations and the clock (external).                   *)
(***************************************************************************)

\* The periodic task of a schedule fires.
TickFires(t) ==
    /\ Publish(t)
    /\ UNCHANGED <<rowVars, fileVars, webVars, revokeVars, workVars, told,
                   crashes>>

\* The visibility timeout of Redis hands out again a message that a worker has
\* reserved but not begun (the message is acknowledged when it begins).
Redeliver(m) ==
    /\ waiting[m] > 0
    /\ made[m] < MaxDeliveries
    /\ made' = [made EXCEPT ![m] = @ + 1]
    /\ waiting' = [waiting EXCEPT ![m] = @ + 1]
    /\ UNCHANGED <<rowVars, fileVars, webVars, revokeVars, workVars, told,
                   crashes>>

Take(m) ==
    /\ waiting[m] > 0
    /\ waiting' = [waiting EXCEPT ![m] = @ - 1]
    /\ UNCHANGED made

\* The worker drops a message it knows to be revoked.
DiscardRevoked(m) ==
    /\ m \in revoked
    /\ Take(m)
    /\ UNCHANGED <<rowVars, fileVars, webVars, revokeVars, workVars, told,
                   crashes>>

Free(killed) ==
    /\ pc'   = [w \in Workers |-> IF w \in killed THEN "idle" ELSE pc[w]]
    /\ task' = [w \in Workers |-> IF w \in killed THEN None ELSE task[w]]
    /\ job'  = [w \in Workers |-> IF w \in killed THEN None ELSE job[w]]

\* A revocation with terminate=True reaches the worker: SIGTERM ends the process
\* that runs the task (no handler of execute_transfer sees it), and the id is
\* remembered in memory.
RevokeArrives(m) ==
    /\ m \in revoking
    /\ revoking' = revoking \ {m}
    /\ revoked' = revoked \cup {m}
    /\ Free({w \in Workers : task[w] = m})
    /\ UNCHANGED <<rowVars, fileVars, webVars, brokerVars, told, crashes>>

\* A revocation is a broadcast that no one stores: a worker that is down or
\* reconnecting misses it.
RevokeLost(m) ==
    /\ m \in revoking
    /\ revoking' = revoking \ {m}
    /\ UNCHANGED <<rowVars, fileVars, webVars, brokerVars, revoked, workVars,
                   told, crashes>>

\* started_at passes the limit of one hour, whatever has become of the job.
HourPasses(j) ==
    /\ age[j] = "fresh"
    /\ age' = [age EXCEPT ![j] = "old"]
    /\ UNCHANGED <<status, taskId, fileVars, webVars, brokerVars, revokeVars,
                   workVars, told, crashes>>

-----------------------------------------------------------------------------
(***************************************************************************)
(* The worker: execute_transfer, and the cleanup task.                     *)
(***************************************************************************)

Moves(w, from, to) ==
    /\ pc[w] = from
    /\ pc' = [pc EXCEPT ![w] = to]
    /\ UNCHANGED <<task, job>>

Loads(w, m, j) ==
    /\ pc[w] = "idle"
    /\ m \notin revoked
    /\ Take(m)
    /\ pc' = [pc EXCEPT ![w] = "loaded"]
    /\ task' = [task EXCEPT ![w] = m]
    /\ job' = [job EXCEPT ![w] = j]

\* _resolve_job finds the row, whatever its status.
Accept(w, j) ==
    /\ Exists(j)
    /\ Loads(w, j, j)
    /\ UNCHANGED <<rowVars, fileVars, webVars, revokeVars, told, crashes>>

\* _create_job_from_schedule: a new pending row for the process to run.
AcceptTick(w, t, j) ==
    /\ status[j] = "none"
    /\ Loads(w, t, j)
    /\ status' = [status EXCEPT ![j] = "pending"]
    /\ \E s \in {"local", "remote"} : source' = [source EXCEPT ![j] = s]
    /\ UNCHANGED <<taskId, age, delivered, webVars, revokeVars, told, crashes>>

\* A faulty variant: the result of _resolve_job is not checked for None.
SkipUnchecked(w, m) ==
    /\ m \in Jobs => ~Exists(m)
    /\ Loads(w, m, None)
    /\ UNCHANGED <<rowVars, fileVars, webVars, revokeVars, told, crashes>>

\* _resolve_job returns None: the row is gone, or the schedule is disabled or
\* deleted.  The message is used up.
Skip(w, m) ==
    /\ pc[w] = "idle"
    /\ m \notin revoked
    /\ m \in Jobs => ~Exists(m)
    /\ Take(m)
    /\ UNCHANGED <<rowVars, fileVars, webVars, revokeVars, workVars, told,
                   crashes>>

\* A faulty variant: mark_running does not store the id of the task.
MarkRunningAnonymous(w) ==
    LET j == job[w] IN
    /\ Moves(w, "loaded", "transfer")
    /\ Exists(j)
    /\ Unlocked(j)
    /\ status' = [status EXCEPT ![j] = "running"]
    /\ age' = [age EXCEPT ![j] = "fresh"]
    /\ UNCHANGED <<taskId, fileVars, webVars, brokerVars, revokeVars, told, crashes>>

\* A faulty variant: only a job whose task id is already recorded is started.
MarkRunningRecorded(w) ==
    LET j == job[w] IN
    /\ Moves(w, "loaded", "transfer")
    /\ Exists(j)
    /\ Unlocked(j)
    /\ taskId[j] = task[w]
    /\ status' = [status EXCEPT ![j] = "running"]
    /\ age' = [age EXCEPT ![j] = "fresh"]
    /\ UNCHANGED <<taskId, fileVars, webVars, brokerVars, revokeVars, told, crashes>>

\* mark_running: no condition on the status the row has by now.
MarkRunning(w) ==
    LET j == job[w] IN
    /\ Moves(w, "loaded", "transfer")
    /\ Exists(j)
    /\ Unlocked(j)
    /\ status' = [status EXCEPT ![j] = "running"]
    /\ taskId' = [taskId EXCEPT ![j] = task[w]]
    /\ age' = [age EXCEPT ![j] = "fresh"]
    /\ UNCHANGED <<fileVars, webVars, brokerVars, revokeVars, told, crashes>>

\* _run_transfer returns: the handler has put the source on the destination.
TransferSucceeds(w) ==
    /\ Moves(w, "transfer", "ok")
    /\ source[job[w]] # "removed"
    /\ delivered' = [delivered EXCEPT ![job[w]] = TRUE]
    /\ UNCHANGED <<rowVars, source, webVars, brokerVars, revokeVars, told, crashes>>

\* A faulty variant: an exception of the handler is swallowed.
TransferFailsSilently(w) ==
    /\ Moves(w, "transfer", "ok")
    /\ UNCHANGED <<rowVars, fileVars, webVars, brokerVars, revokeVars, told, crashes>>

\* _run_transfer raises, a TransferError or any other exception, before the file
\* has arrived or after it (a checksum that differs, a log row that cannot be
\* written).
TransferFails(w) ==
    /\ Moves(w, "transfer", "err")
    /\ \E arrived \in BOOLEAN :
         /\ arrived => source[job[w]] # "removed"
         /\ delivered' = [delivered EXCEPT ![job[w]] = @ \/ arrived]
    /\ UNCHANGED <<rowVars, source, webVars, brokerVars, revokeVars, told, crashes>>

\* mark_done: again without a condition on the status.
MarkDone(w) ==
    LET j == job[w] IN
    /\ Moves(w, "ok", "cleanup")
    /\ Exists(j)
    /\ Unlocked(j)
    /\ status' = [status EXCEPT ![j] = "done"]
    /\ UNCHANGED <<taskId, age, fileVars, webVars, brokerVars, revokeVars, told,
                   crashes>>

\* _cleanup_source_file: unlinks an upload; an OSError is only logged.
CleanupSource(w) ==
    LET j == job[w] IN
    /\ Moves(w, "cleanup", "notify")
    /\ \E s \in {source[j]} \cup (IF source[j] = "local" THEN {"removed"} ELSE {}) :
         source' = [source EXCEPT ![j] = s]
    /\ UNCHANGED <<rowVars, delivered, webVars, brokerVars, revokeVars, told,
                   crashes>>

\* A faulty variant: a failed transfer removes its source as well.
MarkFailedAndClean(w) ==
    LET j == job[w] IN
    /\ Moves(w, "err", "errnotify")
    /\ Exists(j)
    /\ Unlocked(j)
    /\ status' = [status EXCEPT ![j] = "failed"]
    /\ source' = [source EXCEPT ![j] = IF @ = "local" THEN "removed" ELSE @]
    /\ UNCHANGED <<taskId, age, delivered, webVars, brokerVars, revokeVars, told,
                   crashes>>

\* Both except branches of execute_transfer: mark_failed.
MarkFailed(w) ==
    LET j == job[w] IN
    /\ Moves(w, "err", "errnotify")
    /\ Exists(j)
    /\ Unlocked(j)
    /\ status' = [status EXCEPT ![j] = "failed"]
    /\ UNCHANGED <<taskId, age, fileVars, webVars, brokerVars, revokeVars, told,
                   crashes>>

\* The three .delay calls go through and the task ends.
Notify(w) ==
    /\ pc[w] \in {"notify", "errnotify"}
    /\ Free({w})
    /\ told' = [told EXCEPT ![job[w]] = TRUE]
    /\ UNCHANGED <<rowVars, fileVars, webVars, brokerVars, revokeVars, crashes>>

\* One of the .delay calls raises.  After mark_done the exception is caught by
\* `except Exception`, which marks the job failed; in an except branch it
\* escapes and ends the task.
NotifyRaises(w) ==
    /\ pc[w] \in {"notify", "errnotify"}
    /\ \/ Moves(w, "notify", "err")
       \/ pc[w] = "errnotify" /\ Free({w})
    /\ \E b \in {told[job[w]], TRUE} : told' = [told EXCEPT ![job[w]] = b]
    /\ UNCHANGED <<rowVars, fileVars, webVars, brokerVars, revokeVars, crashes>>

\* save(update_fields=...) of a deleted row raises DatabaseError: mark_running
\* is outside the try, mark_done falls into mark_failed, which raises too.
RowGone(w) ==
    /\ pc[w] \in {"loaded", "ok", "err"}
    /\ ~Exists(job[w])
    /\ Free({w})
    /\ UNCHANGED <<rowVars, fileVars, webVars, brokerVars, revokeVars, told,
                   crashes>>

\* A process of the pool dies; its message was acknowledged when it began.
Crash(w) ==
    /\ pc[w] # "idle"
    /\ crashes < MaxCrashes
    /\ crashes' = crashes + 1
    /\ Free({w})
    /\ UNCHANGED <<rowVars, fileVars, webVars, brokerVars, revokeVars, told>>

\* The worker's container restarts: every process is lost, and so is the memory
\* of what was revoked.
Restart ==
    /\ crashes < MaxCrashes
    /\ crashes' = crashes + 1
    /\ Free(Workers)
    /\ revoked' = {}
    /\ UNCHANGED <<rowVars, fileVars, webVars, brokerVars, revoking, told>>

\* Faulty variants of the filter: every job that is not finished; the jobs
\* started recently.
OrphansOfAnyAge == {j \in Jobs : status[j] \in Active}

OrphansTooYoung == {j \in Jobs : status[j] = "running" /\ age[j] = "fresh"}

\* The rows cleanup_orphan_jobs selects.
Orphans == {j \in Jobs : status[j] = "running" /\ age[j] = "old"}

\* cleanup_orphan_jobs, one UPDATE; it looks at no worker.
OrphanCleanup ==
    /\ Orphans # {}
    /\ \A j \in Orphans : Unlocked(j)
    /\ status' = [j \in Jobs |-> IF j \in Orphans THEN "failed" ELSE status[j]]
    /\ UNCHANGED <<taskId, age, fileVars, webVars, brokerVars, revokeVars,
                   workVars, told, crashes>>

-----------------------------------------------------------------------------
WebStep(j) ==
    \/ Create(j) \/ SendTask(j) \/ RecordTaskId(j) \/ DispatchFails(j)
    \/ StopBegin(j) \/ StopRevoke(j) \/ StopCommit(j) \/ StopRollsBack(j)
    \/ DeleteCheck(j) \/ DeleteRow(j) \/ DeleteConnection(j)

BrokerStep(m) ==
    \/ Redeliver(m) \/ DiscardRevoked(m) \/ RevokeArrives(m) \/ RevokeLost(m)

\* execute_transfer from the loaded row on.
RunStep(w) ==
    \/ MarkRunning(w) \/ TransferSucceeds(w) \/ TransferFails(w)
    \/ MarkDone(w) \/ CleanupSource(w) \/ MarkFailed(w)
    \/ Notify(w) \/ NotifyRaises(w) \/ RowGone(w)

Next ==
    \/ \E j \in Jobs : WebStep(j) \/ HourPasses(j)
    \/ \E m \in Messages : BrokerStep(m)
    \/ \E t \in Ticks : TickFires(t)
    \/ \E w \in Workers :
         \/ \E j \in Jobs : Accept(w, j)
         \/ \E t \in Ticks, j \in Jobs : AcceptTick(w, t, j)
         \/ \E m \in Messages : Skip(w, m)
         \/ RunStep(w)
         \/ Crash(w)
    \/ Restart
    \/ OrphanCleanup

Spec == Init /\ [][Next]_vars

(***************************************************************************)
(* Fairness.  A stop request that holds the lock ends; a process goes on   *)
(* with what it runs; a waiting message is taken or dropped; time passes   *)
(* and the beat service runs the cleanup every five minutes.  Nobody has   *)
(* to create, stop or delete a job.                                        *)
(***************************************************************************)
Fairness ==
    /\ \A j \in Jobs : /\ WF_vars(StopRevoke(j))
                       /\ WF_vars(StopCommit(j))
                       /\ WF_vars(HourPasses(j))
                       /\ WF_vars(\E w \in Workers : Accept(w, j) \/ Skip(w, j))
    /\ \A w \in Workers : WF_vars(RunStep(w))
    /\ WF_vars(OrphanCleanup)

FairSpec == Spec /\ Fairness

-----------------------------------------------------------------------------
(***************************************************************************)
(* Safety.                                                                 *)
(***************************************************************************)

\* A job is DONE only when its file is on the destination, whatever crashes,
\* duplicates, stops and cleanups came in between: execute_transfer calls
\* mark_done only after the handler returned.
DoneIsDelivered == \A j \in Jobs : status[j] = "done" => delivered[j]

\* An uploaded file leaves TRANSFERS_DIR only after it has been delivered: a
\* failed, stopped or interrupted transfer never costs the user the file.
RemovedIsDelivered == \A j \in Jobs : source[j] = "removed" => delivered[j]

\* From mark_running on, the row carries the id of the very task that works on
\* it, even when the web request has not yet recorded it: a stop request always
\* revokes the task that runs.
RunningIsRevocable ==
    \A w \in Workers :
        LET j == job[w] IN
        pc[w] \notin {"idle", "loaded"} /\ Exists(j) => taskId[j] = task[w]

\* Nothing unusual has happened to the job's execution: its message was
\* delivered at most once and nothing has died.
Undisturbed(j) == made[j] <= 1 /\ crashes = 0

\* A published notification finds a job whose status is final and has a
\* template: the row of a job that was announced is DONE or FAILED, never RUNNING
\* or CANCELLED (unless it was deleted).
ToldIsFinal ==
    \A j \in Jobs : told[j] /\ Undisturbed(j)
                       => status[j] \in {"done", "failed", "deleted"}

Held(j)  == \E w \in Workers : pc[w] # "idle" /\ job[w] = j

\* Nothing can run job j any more: no process holds it, no message carries it
\* and no request is about to publish one.
Quiet(j) == ~Held(j) /\ waiting[j] = 0 /\ dispatch[j] # "created"

\* Once nothing can run a job, the outcome a user reads is final: the status of
\* a finished or stopped job never changes again, short of its deletion.
QuietIsSettled ==
    [][\A j \in Jobs :
         Quiet(j) /\ status[j] \in Terminal => status'[j] \in {status[j], "deleted"}]_vars

\* A stop request turns only active jobs into cancelled ones: a transfer that
\* finishes while the request is being handled keeps its outcome (the row lock
\* of transfer_stop).
StopHitsActive ==
    [][\A j \in Jobs :
         status'[j] = "cancelled" => status[j] \in Active \cup {"cancelled"}]_vars

\* A job that finished is not run a second time, unless its message is handed
\* out a second time.
FinishedNeverRerun ==
    [][\A j \in Jobs : status[j] \in {"done", "failed"} /\ made'[j] <= 1
                          => status'[j] # "running"]_vars

\* The rows as their readers see them: an execution is alive while the job is
\* not quiet.
Outcome == INSTANCE JobOutcome WITH
             row   <- status,
             alive <- [j \in Jobs |-> status[j] # "none" /\ ~Quiet(j)]

\* Web requests, broker, workers and cleanup together keep the promise that
\* JobOutcome states: in particular no job is DONE that was never RUNNING, and
\* no execution comes back to life.
KeepsOutcome == Outcome!Spec

(***************************************************************************)
(* Liveness.                                                               *)
(***************************************************************************)

\* No job shows RUNNING for ever: whatever happens to its process, the job ends
\* or the cleanup fails it.
RunningEnds == \A j \in Jobs : status[j] = "running" ~> status[j] # "running"

\* A job whose message reached the queue leaves PENDING, unless a process dies.
DispatchedStarts ==
    \A j \in Jobs : status[j] = "pending" /\ waiting[j] > 0
                       ~> status[j] # "pending" \/ crashes > 0

(***************************************************************************)
(* What the project's documents and messages say and the code does not     *)
(* guarantee.                                                              *)
(***************************************************************************)

\* "A manual stop is not a failure of the transfer": a stopped job is never
\* counted as failed.
StopIsNoFailure ==
    [][\A j \in Jobs : status[j] = "cancelled" => status'[j] # "failed"]_vars

\* The task id is captured at once, so that Stop works on pending jobs: a job
\* stopped before it started never runs.
StoppedPendingNeverRuns ==
    [][\A j \in Jobs : status[j] = "cancelled" /\ age[j] = "unset"
                          => status'[j] # "running"]_vars

\* A failed transfer removes nothing, its file stays for a retry.
FailedKeepsSource ==
    \A j \in Jobs : status[j] = "failed" => source[j] # "removed"

=============================================================================
