------------------------------ MODULE Scheduler ------------------------------
(***************************************************************************)
(* A schedule lives in two rows that no transaction joins: its own and     *)
(* the PeriodicTask that celery beat reads.  Administrators create, edit,  *)
(* toggle and delete it; deleting the flow takes the schedule along.  A    *)
(* tick is a task that looks the schedule up, creates a job, stamps the    *)
(* schedule and runs the job; several are at work at once, and each may    *)
(* lose its process between any two of its steps.                          *)
(***************************************************************************)
EXTENDS Naturals

CONSTANTS
    Requests,  \* the requests of administrators under way at a time
    Ticks,     \* the ticks waiting or at work at a time
    None

VARIABLES
    sched,  \* None, or [enabled], the row of the schedule
    beat,   \* None, or [enabled], its PeriodicTask
    flow,   \* the flow is there
    req,    \* [Requests -> what the request does, and its copy of the row]
    tick,   \* [Ticks -> how far its process has come]
    job,    \* [Ticks -> the status of the job it created]
    owed,   \* history: the ticks that had looked it up when it was last switched off
    late,   \* history: the ticks that created a job after that
    cut,    \* history: the ticks that lost their process, or their schedule
    past    \* history: what has happened that RowAndTaskAgree excepts

vars == <<sched, beat, flow, req, tick, job, owed, late, cut, past>>

tickVars == <<tick, job, owed, late, cut>>

Row == [enabled : BOOLEAN]
Idle == [op |-> "idle", step |-> 0, copy |-> FALSE]

TypeOK ==
    /\ sched \in Row \cup {None} /\ beat \in Row \cup {None}
    /\ flow \in BOOLEAN
    /\ req \in [Requests -> [op : {"idle", "create", "edit", "toggle", "delete"},
                             step : 0 .. 2, copy : BOOLEAN]]
    /\ tick \in [Ticks -> {"idle", "sent", "loaded", "created", "stamped", "running"}]
    /\ job \in [Ticks -> {"none", "pending", "running", "done", "failed"}]
    /\ owed \subseteq Ticks /\ late \subseteq Ticks /\ cut \subseteq Ticks
    /\ past \subseteq {"created", "overlap", "lost", "cascade"}

Init ==
    /\ sched = None /\ beat = None
    /\ flow = TRUE
    /\ req = [r \in Requests |-> Idle]
    /\ tick = [t \in Ticks |-> "idle"]
    /\ job = [t \in Ticks |-> "none"]
    /\ owed = {} /\ late = {} /\ cut = {}
    /\ past = {}

On == sched # None /\ sched.enabled

Happens(e) == past' = past \cup e

At(steps) == {t \in Ticks : tick[t] \in steps}

\* The row now says so: ticks that have looked it up do not look again.
Switched(on) ==
    /\ owed' = IF On /\ ~on THEN At({"loaded"}) ELSE owed
    /\ late' = IF on THEN {} ELSE late

\* The row goes, under the ticks that hold a copy of it.
Goes ==
    /\ sched' = None
    /\ Switched(FALSE)
    /\ cut' = cut \cup At({"loaded", "created"})
    /\ UNCHANGED <<tick, job>>

-----------------------------------------------------------------------------
(* The views of the scheduler *)

\* get_object_or_404 and the form's copy; what the copy will be saved as.
Load(r, op, enabled) ==
    /\ req[r] = Idle
    /\ IF op = "create" THEN "created" \notin past /\ flow ELSE sched # None
    /\ op = "toggle" => enabled = ~sched.enabled
    /\ op = "delete" => enabled = sched.enabled
    /\ req' = [req EXCEPT ![r] = [op |-> op, step |-> 1, copy |-> enabled]]
    /\ Happens({"created"} \cup IF \E q \in Requests : req[q] # Idle THEN {"overlap"} ELSE {})
    /\ UNCHANGED <<sched, beat, flow, tickVars>>

\* save(): an update of the row, or its insertion when the row has just gone; an
\* edit whose `before' is not there, a toggle, which writes one column, and a
\* schedule without its flow raise.
Save(r) ==
    /\ req[r].step = 1 /\ req[r].op \in {"create", "edit", "toggle"}
    /\ \/ /\ ~flow \/ (sched = None /\ req[r].op # "create")
          /\ req' = [req EXCEPT ![r] = Idle]
          /\ UNCHANGED <<sched, owed, late>>
       \/ /\ flow /\ (sched # None \/ req[r].op # "toggle")
          /\ sched' = [enabled |-> req[r].copy]
          /\ req' = [req EXCEPT ![r].step = 2]
          /\ Switched(req[r].copy)
    /\ UNCHANGED <<beat, flow, tick, job, cut, past>>

\* A faulty variant: an existing PeriodicTask keeps its state.
SyncNewOnly(r) ==
    /\ req[r].step = 2 /\ req[r].op # "delete"
    /\ beat' = IF beat = None THEN [enabled |-> req[r].copy] ELSE beat
    /\ req' = [req EXCEPT ![r] = Idle]
    /\ UNCHANGED <<sched, flow, tickVars, past>>

\* _sync_celery_beat: update_or_create from the copy, whatever the row says now.
Sync(r) ==
    /\ req[r].step = 2 /\ req[r].op # "delete"
    /\ beat' = [enabled |-> req[r].copy]
    /\ req' = [req EXCEPT ![r] = Idle]
    /\ UNCHANGED <<sched, flow, tickVars, past>>

\* schedule_delete: first the PeriodicTask, then the row.
DeleteBeat(r) ==
    /\ req[r].step = 1 /\ req[r].op = "delete"
    /\ beat' = None
    /\ req' = [req EXCEPT ![r].step = 2]
    /\ UNCHANGED <<sched, flow, tickVars, past>>

DeleteRow(r) ==
    /\ req[r].step = 2 /\ req[r].op = "delete"
    /\ Goes
    /\ req' = [req EXCEPT ![r] = Idle]
    /\ UNCHANGED <<beat, flow, past>>

\* The request dies between two of its writes.
RequestLost(r) ==
    /\ req[r] # Idle
    /\ req' = [req EXCEPT ![r] = Idle]
    /\ Happens({"lost"})
    /\ UNCHANGED <<sched, beat, flow, tickVars>>

\* flow_delete: its schedules go with it, its jobs lose it, beat knows nothing.
FlowDelete ==
    /\ flow
    /\ flow' = FALSE
    /\ Goes
    /\ Happens(IF sched = None THEN {} ELSE {"cascade"})
    /\ UNCHANGED <<beat, req>>

-----------------------------------------------------------------------------
(* The ticks *)

\* Celery beat sends transfers.execute, whatever other ticks and jobs there are.
\* One that beat sends late from its memory, or that the broker hands out twice,
\* is one that was sent in time and waited.  A tick is used again when its job is
\* not PENDING any more.
TickFires(t) ==
    /\ beat # None /\ beat.enabled
    /\ tick[t] = "idle" /\ job[t] # "pending"
    /\ tick' = [tick EXCEPT ![t] = "sent"]
    /\ job' = [job EXCEPT ![t] = "none"]
    /\ owed' = owed \ {t} /\ late' = late \ {t} /\ cut' = cut \ {t}
    /\ UNCHANGED <<sched, beat, flow, req, past>>

\* A faulty variant: the schedule is looked up without enabled=True.
TickLoadsAny(t) ==
    /\ tick[t] = "sent"
    /\ tick' = [tick EXCEPT ![t] = IF sched # None THEN "loaded" ELSE "idle"]
    /\ UNCHANGED <<sched, beat, flow, req, job, owed, late, cut, past>>

\* get(pk, enabled=True), or the task ends.
TickLoads(t) ==
    /\ tick[t] = "sent"
    /\ tick' = [tick EXCEPT ![t] = IF On THEN "loaded" ELSE "idle"]
    /\ UNCHANGED <<sched, beat, flow, req, job, owed, late, cut, past>>

\* objects.create from the copy; a flow that is gone raises.
TickCreates(t) ==
    /\ tick[t] = "loaded"
    /\ tick' = [tick EXCEPT ![t] = IF flow THEN "created" ELSE "idle"]
    /\ job' = IF flow THEN [job EXCEPT ![t] = "pending"] ELSE job
    /\ late' = IF flow /\ ~On THEN late \cup {t} ELSE late
    /\ UNCHANGED <<sched, beat, flow, req, owed, cut, past>>

\* save(update_fields=['last_run']) raises when the row is gone: the job has
\* been created and no process will run it.
TickStamps(t) ==
    /\ tick[t] = "created"
    /\ tick' = [tick EXCEPT ![t] = IF sched # None THEN "stamped" ELSE "idle"]
    /\ UNCHANGED <<sched, beat, flow, req, job, owed, late, cut, past>>

\* A faulty variant: the task leaves the job it has created to another message.
TickForgets(t) ==
    /\ tick[t] = "stamped"
    /\ tick' = [tick EXCEPT ![t] = "idle"]
    /\ UNCHANGED <<sched, beat, flow, req, job, owed, late, cut, past>>

\* mark_running
TickRuns(t) ==
    /\ tick[t] = "stamped"
    /\ tick' = [tick EXCEPT ![t] = "running"]
    /\ job' = [job EXCEPT ![t] = "running"]
    /\ UNCHANGED <<sched, beat, flow, req, owed, late, cut, past>>

\* mark_done or mark_failed, after a transfer by the flow as the tick has read it.
TickEnds(t) ==
    /\ tick[t] = "running"
    /\ tick' = [tick EXCEPT ![t] = "idle"]
    /\ \E s \in {"done", "failed"} : job' = [job EXCEPT ![t] = s]
    /\ UNCHANGED <<sched, beat, flow, req, owed, late, cut, past>>

\* The process is killed, or the worker restarted: the message was acknowledged
\* when the task began, so nothing hands the tick out again.
ProcessDies(t) ==
    /\ tick[t] \in {"loaded", "created", "stamped", "running"}
    /\ tick' = [tick EXCEPT ![t] = "idle"]
    /\ cut' = cut \cup {t}
    /\ UNCHANGED <<sched, beat, flow, req, job, owed, late, past>>

Next ==
    \/ \E r \in Requests :
         \/ \E op \in {"create", "edit", "toggle", "delete"}, e \in BOOLEAN : Load(r, op, e)
         \/ Save(r) \/ Sync(r) \/ DeleteBeat(r) \/ DeleteRow(r) \/ RequestLost(r)
    \/ FlowDelete
    \/ \E t \in Ticks : \/ TickFires(t) \/ TickLoads(t) \/ TickCreates(t) \/ TickStamps(t)
                         \/ TickRuns(t) \/ TickEnds(t) \/ ProcessDies(t)

Spec == Init /\ [][Next]_vars

-----------------------------------------------------------------------------
(* Properties *)

\* When no request is under way, the PeriodicTask is there and enabled exactly if
\* the schedule is, unless two requests overlapped, one died half way, or the
\* schedule went with its flow.
RowAndTaskAgree ==
    past \cap {"overlap", "lost", "cascade"} = {} /\ (\A r \in Requests : req[r] = Idle)
        => beat = sched

\* Whatever state its PeriodicTask was left in, and however many ticks are waiting
\* or at work, a schedule that has been disabled or deleted creates no jobs but
\* those whose ticks had already looked it up when it was.
OffMeansOff == late \subseteq owed

\* A job that a tick has created and that is still PENDING has the tick's process
\* ahead of its mark_running, unless that process died, or the schedule went while
\* the tick was at work: then it stays PENDING, no cleanup looks for it.
CreatedIsRun ==
    \A t \in Ticks : job[t] = "pending" => tick[t] \in {"created", "stamped"} \/ t \in cut

=============================================================================
