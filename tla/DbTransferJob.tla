---------------------------- MODULE DbTransferJob ----------------------------
(***************************************************************************)
(* The life of one database transfer: the form that creates and dispatches *)
(* it, its stop and deletion, and the executions of its message, which the *)
(* broker may hand out more than once.  Unlike TransferJob it has no       *)
(* schedule, no notification and no cleanup of orphans; the row loses its  *)
(* RUNNING only by a process or by a user.                                 *)
(***************************************************************************)
EXTENDS Naturals

CONSTANT Runs  \* deliveries of the message, each an execution

VARIABLES
    dbjob,    \* the row
    form,     \* the request that creates and dispatches the job
    stop,     \* the request that stops it: "locked" while it holds the row
    removal,  \* the request that deletes it: "checked" once the status allows it
    revoked,  \* Celery has been told to revoke the task
    run,      \* [Runs -> where the execution is]
    history   \* what has happened: "copied", "killed", "redelivered"

vars == <<dbjob, form, stop, removal, revoked, run, history>>

Active == {"pending", "running"}
Statuses == {"none", "done", "failed", "cancelled", "deleted"} \cup Active

Steps == {"none", "queued", "loaded", "execute", "copied", "failed", "over"}

TypeOK ==
    /\ dbjob \in [status : Statuses, error_message : BOOLEAN, celery_task_id : BOOLEAN]
    /\ form \in {"idle", "committed", "sent", "over"}
    /\ stop \in {"idle", "locked"}
    /\ removal \in {"idle", "checked"}
    /\ revoked \in BOOLEAN
    /\ run \in [Runs -> Steps]
    /\ history \subseteq {"copied", "killed", "redelivered"}

Init ==
    /\ dbjob = [status |-> "none", error_message |-> FALSE, celery_task_id |-> FALSE]
    /\ form = "idle" /\ stop = "idle" /\ removal = "idle"
    /\ revoked = FALSE
    /\ run = [e \in Runs |-> "none"]
    /\ history = {}

Exists == dbjob.status \notin {"none", "deleted"}

\* Every writer of the row waits for the stop request that has locked it.
Unlocked == stop = "idle"

-----------------------------------------------------------------------------
(* The web requests *)

\* The form is valid: two different connections of one kind, which is the engine.
Create ==
    /\ form = "idle"
    /\ dbjob' = [dbjob EXCEPT !.status = "pending"]
    /\ form' = "committed"
    /\ UNCHANGED <<stop, removal, revoked, run, history>>

\* on_commit: send_task; a broker that refuses it leaves the job PENDING.
SendTask ==
    /\ form = "committed"
    /\ \/ \E e \in Runs : run' = [run EXCEPT ![e] = "queued"] /\ form' = "sent"
       \/ UNCHANGED run /\ form' = "over"
    /\ UNCHANGED <<dbjob, stop, removal, revoked, history>>

RecordTaskId ==
    /\ form = "sent" /\ Unlocked
    /\ dbjob' = IF Exists THEN [dbjob EXCEPT !.celery_task_id = TRUE] ELSE dbjob
    /\ form' = "over"
    /\ UNCHANGED <<stop, removal, revoked, run, history>>

\* A faulty variant: a job that is not active any more is cancelled, too.
StopLocksAny ==
    /\ Unlocked /\ Exists
    /\ stop' = "locked"
    /\ UNCHANGED <<dbjob, form, removal, revoked, run, history>>

\* select_for_update, and the job is active.
StopLocks ==
    /\ Unlocked /\ dbjob.status \in Active
    /\ stop' = "locked"
    /\ UNCHANGED <<dbjob, form, removal, revoked, run, history>>

\* revoke if there is a task id, mark_cancelled, commit.
StopCommits ==
    /\ stop = "locked"
    /\ revoked' = (revoked \/ dbjob.celery_task_id)
    /\ dbjob' = [dbjob EXCEPT !.status = "cancelled"]
    /\ stop' = "idle"
    /\ UNCHANGED <<form, removal, run, history>>

\* The status is read without a lock and the row deleted later.
DeleteChecks ==
    /\ Exists /\ dbjob.status \notin Active /\ removal = "idle"
    /\ removal' = "checked"
    /\ UNCHANGED <<dbjob, form, stop, revoked, run, history>>

DeleteRow ==
    /\ removal = "checked" /\ Unlocked
    /\ removal' = "idle"
    /\ dbjob' = [dbjob EXCEPT !.status = "deleted"]
    /\ UNCHANGED <<form, stop, revoked, run, history>>

\* connection_delete takes the jobs along, whatever their status.
DeleteConnection ==
    /\ Exists /\ Unlocked
    /\ dbjob' = [dbjob EXCEPT !.status = "deleted"]
    /\ UNCHANGED <<form, stop, removal, revoked, run, history>>

-----------------------------------------------------------------------------
(* The broker and the worker's processes *)

\* After the visibility timeout the message is handed out again; it was not
\* acknowledged yet, or it waits behind others.
Redeliver(e) ==
    /\ run[e] = "none" /\ \E d \in Runs : run[d] = "queued"
    /\ run' = [run EXCEPT ![e] = "queued"]
    /\ history' = history \cup {"redelivered"}
    /\ UNCHANGED <<dbjob, form, stop, removal, revoked>>

Goes(e, from, to) ==
    /\ run[e] = from
    /\ run' = [run EXCEPT ![e] = to]

\* execute_db_transfer loads the row, or logs that there is none.
Load(e) ==
    /\ Goes(e, "queued", IF Exists THEN "loaded" ELSE "over")
    /\ UNCHANGED <<dbjob, form, stop, removal, revoked, history>>

\* A faulty variant: the task id is not recorded when the job starts to run.
MarkRunningOnly(e) ==
    /\ Unlocked /\ Exists /\ Goes(e, "loaded", "execute")
    /\ dbjob' = [dbjob EXCEPT !.status = "running"]
    /\ UNCHANGED <<form, stop, removal, revoked, history>>

\* mark_running, whatever the status; save(update_fields) of a row that is gone
\* raises and ends the task.
MarkRunning(e) ==
    /\ Unlocked /\ Exists
    /\ Goes(e, "loaded", "execute")
    /\ dbjob' = [dbjob EXCEPT !.status = "running", !.celery_task_id = TRUE]
    /\ UNCHANGED <<form, stop, removal, revoked, history>>

\* The handler of the row's engine returns.
ExecuteReturns(e) ==
    /\ Goes(e, "execute", "copied")
    /\ history' = history \cup {"copied"}
    /\ UNCHANGED <<dbjob, form, stop, removal, revoked>>

\* A faulty variant: the errors of the handler are only logged.
ExecuteRaisesUnseen(e) ==
    /\ Goes(e, "execute", "copied")
    /\ UNCHANGED <<dbjob, form, stop, removal, revoked, history>>

\* PgTransferError and its like, or any other exception, that of a log entry for
\* a vanished job included.
ExecuteRaises(e) ==
    /\ Goes(e, "execute", "failed")
    /\ UNCHANGED <<dbjob, form, stop, removal, revoked, history>>

\* mark_done keeps the error_message of an earlier execution.
MarkDone(e) ==
    /\ Unlocked /\ Exists
    /\ Goes(e, "copied", "over")
    /\ dbjob' = [dbjob EXCEPT !.status = "done"]
    /\ UNCHANGED <<form, stop, removal, revoked, history>>

MarkFailed(e) ==
    /\ Unlocked /\ Exists
    /\ Goes(e, "failed", "over")
    /\ dbjob' = [dbjob EXCEPT !.status = "failed", !.error_message = TRUE]
    /\ UNCHANGED <<form, stop, removal, revoked, history>>

\* The row is gone: mark_running, or mark_failed in the end, raises.
RowGone(e) ==
    /\ ~Exists /\ run[e] \in {"loaded", "copied", "failed"}
    /\ run' = [run EXCEPT ![e] = "over"]
    /\ UNCHANGED <<dbjob, form, stop, removal, revoked, history>>

\* The revocation reaches the worker, which drops what is queued and kills what
\* runs, or a process dies of itself.
Killed(e) ==
    /\ run[e] \in {"queued", "loaded", "execute", "copied", "failed"}
    /\ revoked \/ run[e] # "queued"
    /\ run' = [run EXCEPT ![e] = "over"]
    /\ history' = history \cup {"killed"}
    /\ UNCHANGED <<dbjob, form, stop, removal, revoked>>

Next ==
    \/ Create \/ SendTask \/ RecordTaskId
    \/ StopLocks \/ StopCommits \/ DeleteChecks \/ DeleteRow \/ DeleteConnection
    \/ \E e \in Runs :
         \/ Redeliver(e) \/ Load(e) \/ MarkRunning(e)
         \/ ExecuteReturns(e) \/ ExecuteRaises(e) \/ MarkDone(e) \/ MarkFailed(e)
         \/ RowGone(e) \/ Killed(e)

Spec == Init /\ [][Next]_vars

-----------------------------------------------------------------------------
(* Properties *)

Working(e) == run[e] \in {"execute", "copied", "failed"}

\* A job that shows RUNNING has a process at work and can be stopped by its task
\* id, unless a process was killed: however often the message was handed out.
\* After that nothing but a user ends the RUNNING.
RunningIsWorked ==
    dbjob.status = "running" =>
        /\ dbjob.celery_task_id
        /\ (\E e \in Runs : Working(e)) \/ "killed" \in history

\* DONE means that some execution of the handler returned; a DONE row with an
\* error message is one whose message was handed out twice.
DoneIsCopied ==
    dbjob.status = "done" =>
        /\ "copied" \in history
        /\ dbjob.error_message => "redelivered" \in history

Alive == form \in {"committed", "sent"} \/ \E e \in Runs : run[e] \notin {"none", "over"}

Outcome == INSTANCE JobOutcome WITH
    Jobs <- {"job"}, row <- [j \in {"job"} |-> dbjob.status], alive <- [j \in {"job"} |-> Alive]

\* A database transfer keeps the promise that a file transfer keeps: a stop or a
\* deletion is undone by a living execution only, and one that is over never
\* comes back.
DbKeepsOutcome == Outcome!Spec

=============================================================================
