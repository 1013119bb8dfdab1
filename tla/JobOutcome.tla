------------------------------ MODULE JobOutcome ------------------------------
(***************************************************************************)
(* What the status of a transfer job promises to the people who read it,   *)
(* without the web requests, the broker and the workers behind it: a row   *)
(* with a status, and whether an execution may still write it.             *)
(*                                                                         *)
(*  - A job begins PENDING and passes through RUNNING before it is DONE.   *)
(*  - A stop request cancels active jobs only; the cleanup fails running   *)
(*    jobs only; a job may be deleted at any time.                         *)
(*  - An execution that is alive writes RUNNING, DONE or FAILED over       *)
(*    whatever it finds once the job has left PENDING, even over           *)
(*    CANCELLED.                                                           *)
(*  - An execution that is over never comes back: from then on a DONE,     *)
(*    FAILED or CANCELLED job keeps its status, and a PENDING job can only *)
(*    be stopped or deleted.                                               *)
(***************************************************************************)
CONSTANT Jobs

VARIABLES
    row,    \* the status of each job
    alive   \* whether an execution of the job may still write it

Init ==
    /\ row   = [j \in Jobs |-> "none"]
    /\ alive = [j \in Jobs |-> FALSE]

Submit(j) ==
    /\ row[j] = "none"
    /\ row'[j] = "pending"

Start(j) ==
    /\ alive[j]
    /\ row[j] = "pending"
    /\ row'[j] = "running"

Rewrite(j) ==
    /\ alive[j]
    /\ row[j] \in {"running", "done", "failed", "cancelled"}
    /\ row'[j] \in {"running", "done", "failed"}

Cancel(j) ==
    /\ row[j] \in {"pending", "running"}
    /\ row'[j] = "cancelled"

Expire(j) ==
    /\ row[j] = "running"
    /\ row'[j] = "failed"

Remove(j) ==
    /\ row[j] # "none"
    /\ row'[j] = "deleted"

Keep(j) == row'[j] = row[j]

\* An execution comes to life only with its job.
NoResurrection(j) == alive'[j] => alive[j] \/ Submit(j)

\* One step may concern several jobs: a restart, or one UPDATE of many rows.
Next ==
    \A j \in Jobs :
        /\ Submit(j) \/ Start(j) \/ Rewrite(j) \/ Cancel(j) \/ Expire(j)
             \/ Remove(j) \/ Keep(j)
        /\ NoResurrection(j)

Spec == Init /\ [][Next]_<<row, alive>>

=============================================================================
