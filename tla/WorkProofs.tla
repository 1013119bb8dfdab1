------------------------------ MODULE WorkProofs ------------------------------
(***************************************************************************)
(* What creates the jobs, for every number of requests and uploads: the    *)
(* schedule, its PeriodicTask and its ticks (Scheduler), the uploads and   *)
(* the jobs that send them (UploadStore).  And the life of a database      *)
(* transfer, for any number of deliveries of its message (DbTransferJob):  *)
(* the two invariants of its status, and that it implements JobOutcome.    *)
(***************************************************************************)
EXTENDS Work, TLAPS

-----------------------------------------------------------------------------
(* Scheduler: the two rows of a schedule *)

\* Nothing has happened that the agreement of the two rows excepts.
Calm == past \cap {"overlap", "lost", "cascade"} = {}

\* A request is idle at step 0, and a delete is the only one that skips Save.
\* In a calm history one request at most is under way, and only between its two
\* writes do the rows differ: then the first of them is what the copy says.
PairInv ==
    Calm =>
        /\ \A r, q \in Requests : req[r] # C!Idle /\ req[q] # C!Idle => r = q
        /\ (\A r \in Requests : req[r].step # 2) => beat = sched
        /\ \A r \in Requests : req[r].step = 2 =>
              IF req[r].op = "delete" THEN beat = None ELSE sched = [enabled |-> req[r].copy]

\* While the schedule is off, the ticks that have looked it up did so before; the
\* jobs created late are theirs.
LateInv ==
    /\ late \subseteq owed
    /\ C!On => late = {}
    /\ ~C!On => C!At({"loaded"}) \subseteq owed

\* The row has been there ever since the tick found it, or has gone since; and the
\* job of a tick is PENDING until its process runs it, or does not any more.
TickInv ==
    \A t \in Ticks :
        /\ tick[t] \in {"loaded", "created"} /\ sched = None => t \in cut
        /\ job[t] = "pending" => tick[t] \in {"created", "stamped"} \/ t \in cut

\* Every step keeps the types of the scheduler.
LEMMA ScheduleTypes == C!TypeOK /\ [C!Next]_(C!vars) => C!TypeOK'
<1> SUFFICES ASSUME C!TypeOK, [C!Next]_(C!vars) PROVE C!TypeOK'
  OBVIOUS
<1> USE DEF C!TypeOK, C!Row, C!Idle, C!At, C!tickVars
<1>1. ASSUME NEW r \in Requests, NEW op \in {"create", "edit", "toggle", "delete"},
             NEW e \in BOOLEAN, C!Load(r, op, e)
      PROVE  C!TypeOK'
  BY <1>1 DEF C!Load, C!Happens
<1>2. ASSUME NEW r \in Requests, C!Save(r) PROVE C!TypeOK'
  <2> DEFINE x == [req[r] EXCEPT !.step = 2]
  <2>1. req[r] \in [op : {"idle", "create", "edit", "toggle", "delete"},
                    step : 0 .. 2, copy : BOOLEAN]
    OBVIOUS
  <2>2. x \in [op : {"idle", "create", "edit", "toggle", "delete"},
               step : 0 .. 2, copy : BOOLEAN]
    BY <2>1
  <2>3. C!Idle \in [op : {"idle", "create", "edit", "toggle", "delete"},
                    step : 0 .. 2, copy : BOOLEAN]
    OBVIOUS
  <2>5. req' = [req EXCEPT ![r] = C!Idle] \/ req' = [req EXCEPT ![r] = x]
    BY <1>2 DEF C!Save
  <2> HIDE DEF x, C!Idle
  <2>4. req' \in [Requests -> [op : {"idle", "create", "edit", "toggle", "delete"},
                              step : 0 .. 2, copy : BOOLEAN]]
    BY <2>2, <2>3, <2>5
  <2>6. sched' \in C!Row \cup {None}
    BY <1>2, <2>1 DEF C!Save
  <2>7. owed' \subseteq Ticks /\ late' \subseteq Ticks
    BY <1>2 DEF C!Save, C!Switched
  <2> QED BY <1>2, <2>4, <2>6, <2>7 DEF C!Save
<1>3. ASSUME NEW r \in Requests, C!Sync(r) PROVE C!TypeOK'
  BY <1>3 DEF C!Sync
<1>4. ASSUME NEW r \in Requests, C!DeleteBeat(r) PROVE C!TypeOK'
  BY <1>4 DEF C!DeleteBeat
<1>5. ASSUME NEW r \in Requests, C!DeleteRow(r) PROVE C!TypeOK'
  BY <1>5 DEF C!DeleteRow, C!Goes, C!Switched
<1>6. ASSUME NEW r \in Requests, C!RequestLost(r) PROVE C!TypeOK'
  BY <1>6 DEF C!RequestLost, C!Happens
<1>7. CASE C!FlowDelete
  BY <1>7 DEF C!FlowDelete, C!Goes, C!Switched, C!Happens
<1>8. ASSUME NEW t \in Ticks, C!TickFires(t) PROVE C!TypeOK'
  BY <1>8 DEF C!TickFires
<1>9. ASSUME NEW t \in Ticks, C!TickLoads(t) PROVE C!TypeOK'
  BY <1>9 DEF C!TickLoads
<1>10. ASSUME NEW t \in Ticks, C!TickCreates(t) PROVE C!TypeOK'
  BY <1>10 DEF C!TickCreates
<1>11. ASSUME NEW t \in Ticks, C!TickStamps(t) PROVE C!TypeOK'
  BY <1>11 DEF C!TickStamps
<1>12. ASSUME NEW t \in Ticks, C!TickRuns(t) PROVE C!TypeOK'
  BY <1>12 DEF C!TickRuns
<1>13. ASSUME NEW t \in Ticks, C!TickEnds(t) PROVE C!TypeOK'
  BY <1>13 DEF C!TickEnds
<1>14. ASSUME NEW t \in Ticks, C!ProcessDies(t) PROVE C!TypeOK'
  BY <1>14 DEF C!ProcessDies
<1>15. CASE UNCHANGED C!vars
  BY <1>15 DEF C!vars, C!tickVars
<1> QED
  BY <1>1, <1>2, <1>3, <1>4, <1>5, <1>6, <1>7, <1>8, <1>9, <1>10, <1>11, <1>12, <1>13,
     <1>14, <1>15
  DEF C!Next

\* A job is created late at most once after the schedule was on.
LEMMA LateSteps == C!TypeOK /\ LateInv /\ [C!Next]_(C!vars) => LateInv'
<1> SUFFICES ASSUME C!TypeOK, LateInv, [C!Next]_(C!vars) PROVE LateInv'
  OBVIOUS
<1> USE DEF C!TypeOK, C!Row, LateInv, C!On, C!At, C!tickVars
<1>1. ASSUME NEW r \in Requests, NEW op \in {"create", "edit", "toggle", "delete"},
             NEW e \in BOOLEAN, C!Load(r, op, e)
      PROVE  LateInv'
  BY <1>1 DEF C!Load, C!Happens
<1>2. ASSUME NEW r \in Requests, C!Save(r) PROVE LateInv'
  BY <1>2 DEF C!Save, C!Switched
<1>3. ASSUME NEW r \in Requests, C!Sync(r) PROVE LateInv'
  BY <1>3 DEF C!Sync
<1>4. ASSUME NEW r \in Requests, C!DeleteBeat(r) PROVE LateInv'
  BY <1>4 DEF C!DeleteBeat
<1>5. ASSUME NEW r \in Requests, C!DeleteRow(r) PROVE LateInv'
  BY <1>5 DEF C!DeleteRow, C!Goes, C!Switched
<1>6. ASSUME NEW r \in Requests, C!RequestLost(r) PROVE LateInv'
  BY <1>6 DEF C!RequestLost, C!Happens
<1>7. CASE C!FlowDelete
  BY <1>7 DEF C!FlowDelete, C!Goes, C!Switched, C!Happens
<1>8. ASSUME NEW t \in Ticks, C!TickFires(t) PROVE LateInv'
  BY <1>8 DEF C!TickFires
<1>9. ASSUME NEW t \in Ticks, C!TickLoads(t) PROVE LateInv'
  BY <1>9 DEF C!TickLoads
<1>10. ASSUME NEW t \in Ticks, C!TickCreates(t) PROVE LateInv'
  BY <1>10 DEF C!TickCreates
<1>11. ASSUME NEW t \in Ticks, C!TickStamps(t) PROVE LateInv'
  BY <1>11 DEF C!TickStamps
<1>12. ASSUME NEW t \in Ticks, C!TickRuns(t) PROVE LateInv'
  BY <1>12 DEF C!TickRuns
<1>13. ASSUME NEW t \in Ticks, C!TickEnds(t) PROVE LateInv'
  BY <1>13 DEF C!TickEnds
<1>14. ASSUME NEW t \in Ticks, C!ProcessDies(t) PROVE LateInv'
  BY <1>14 DEF C!ProcessDies
<1>15. CASE UNCHANGED C!vars
  BY <1>15 DEF C!vars, C!tickVars
<1> QED
  BY <1>1, <1>2, <1>3, <1>4, <1>5, <1>6, <1>7, <1>8, <1>9, <1>10, <1>11, <1>12, <1>13,
     <1>14, <1>15
  DEF C!Next


\* The job of a tick is kept until the tick has saved the schedule.
LEMMA TickSteps == C!TypeOK /\ TickInv /\ [C!Next]_(C!vars) => TickInv'
<1> SUFFICES ASSUME C!TypeOK, TickInv, [C!Next]_(C!vars) PROVE TickInv'
  OBVIOUS
<1> USE WorkAssumption DEF C!TypeOK, C!Row, TickInv, C!On, C!At, C!tickVars
<1>1. ASSUME NEW r \in Requests, NEW op \in {"create", "edit", "toggle", "delete"},
             NEW e \in BOOLEAN, C!Load(r, op, e)
      PROVE  TickInv'
  BY <1>1 DEF C!Load, C!Happens
<1>2. ASSUME NEW r \in Requests, C!Save(r) PROVE TickInv'
  BY <1>2 DEF C!Save
<1>3. ASSUME NEW r \in Requests, C!Sync(r) PROVE TickInv'
  BY <1>3 DEF C!Sync
<1>4. ASSUME NEW r \in Requests, C!DeleteBeat(r) PROVE TickInv'
  BY <1>4 DEF C!DeleteBeat
<1>5. ASSUME NEW r \in Requests, C!DeleteRow(r) PROVE TickInv'
  BY <1>5 DEF C!DeleteRow, C!Goes, C!Switched
<1>6. ASSUME NEW r \in Requests, C!RequestLost(r) PROVE TickInv'
  BY <1>6 DEF C!RequestLost, C!Happens
<1>7. CASE C!FlowDelete
  BY <1>7 DEF C!FlowDelete, C!Goes, C!Switched, C!Happens
<1>8. ASSUME NEW t \in Ticks, C!TickFires(t) PROVE TickInv'
  BY <1>8 DEF C!TickFires
<1>9. ASSUME NEW t \in Ticks, C!TickLoads(t) PROVE TickInv'
  BY <1>9 DEF C!TickLoads
<1>10. ASSUME NEW t \in Ticks, C!TickCreates(t) PROVE TickInv'
  BY <1>10 DEF C!TickCreates
<1>11. ASSUME NEW t \in Ticks, C!TickStamps(t) PROVE TickInv'
  BY <1>11 DEF C!TickStamps
<1>12. ASSUME NEW t \in Ticks, C!TickRuns(t) PROVE TickInv'
  BY <1>12 DEF C!TickRuns
<1>13. ASSUME NEW t \in Ticks, C!TickEnds(t) PROVE TickInv'
  BY <1>13 DEF C!TickEnds
<1>14. ASSUME NEW t \in Ticks, C!ProcessDies(t) PROVE TickInv'
  BY <1>14 DEF C!ProcessDies
<1>15. CASE UNCHANGED C!vars
  BY <1>15 DEF C!vars, C!tickVars
<1> QED
  BY <1>1, <1>2, <1>3, <1>4, <1>5, <1>6, <1>7, <1>8, <1>9, <1>10, <1>11, <1>12, <1>13,
     <1>14, <1>15
  DEF C!Next


\* Between the writes of one request the rows differ as its copy says.
LEMMA PairSteps == C!TypeOK /\ PairInv /\ [C!Next]_(C!vars) => PairInv'
<1> SUFFICES ASSUME C!TypeOK, PairInv, [C!Next]_(C!vars) PROVE PairInv'
  OBVIOUS
<1> USE DEF C!TypeOK, C!Row, PairInv, Calm, C!Idle
<1>1. ASSUME NEW r \in Requests, NEW op \in {"create", "edit", "toggle", "delete"},
             NEW e \in BOOLEAN, C!Load(r, op, e)
      PROVE  PairInv'
  BY <1>1 DEF C!Load, C!Happens
<1>2. ASSUME NEW r \in Requests, C!Save(r) PROVE PairInv'
  <2> SUFFICES ASSUME Calm' PROVE PairInv'
    OBVIOUS
  <2>1. Calm
    BY <1>2 DEF C!Save
  <2>2. \A q \in Requests : q # r => req[q] = C!Idle /\ req'[q] = C!Idle
    <3>1. req[r] # C!Idle
      BY <1>2 DEF C!Save
    <3>2. \A q \in Requests : q # r => req'[q] = req[q]
      BY <1>2 DEF C!Save
    <3> QED BY <2>1, <3>1, <3>2
  <2>3. CASE req'[r] = C!Idle /\ sched' = sched
    BY <1>2, <2>1, <2>2, <2>3 DEF C!Save
  <2>4. CASE req'[r] = [req[r] EXCEPT !.step = 2] /\ sched' = [enabled |-> req[r].copy]
    <3>1. /\ req'[r].step = 2 /\ req'[r].op = req[r].op /\ req'[r].op # "delete"
          /\ req'[r].copy = req[r].copy
      BY <1>2, <2>4 DEF C!Save
    <3> QED BY <2>2, <2>4, <3>1
  <2> QED BY <1>2, <2>3, <2>4 DEF C!Save
<1>3. ASSUME NEW r \in Requests, C!Sync(r) PROVE PairInv'
  <2> SUFFICES ASSUME Calm' PROVE PairInv'
    OBVIOUS
  <2>1. Calm
    BY <1>3 DEF C!Sync
  <2>2. \A q \in Requests : q # r => req[q] = C!Idle /\ req'[q] = C!Idle
    BY <1>3, <2>1 DEF C!Sync
  <2>3. req'[r] = C!Idle /\ beat' = [enabled |-> req[r].copy] /\ sched' = sched
    BY <1>3 DEF C!Sync
  <2>4. sched = [enabled |-> req[r].copy]
    BY <1>3, <2>1 DEF C!Sync
  <2> QED BY <2>2, <2>3, <2>4
<1>4. ASSUME NEW r \in Requests, C!DeleteBeat(r) PROVE PairInv'
  <2> SUFFICES ASSUME Calm' PROVE PairInv'
    OBVIOUS
  <2>1. Calm
    BY <1>4 DEF C!DeleteBeat
  <2>2. \A q \in Requests : q # r => req[q] = C!Idle /\ req'[q] = C!Idle
    BY <1>4, <2>1 DEF C!DeleteBeat
  <2>3. req'[r] = [req[r] EXCEPT !.step = 2] /\ beat' = None /\ req[r].op = "delete"
    BY <1>4 DEF C!DeleteBeat
  <2>4. req'[r].step = 2 /\ req'[r].op = "delete"
    BY <2>3
  <2> QED BY <2>2, <2>3, <2>4
<1>5. ASSUME NEW r \in Requests, C!DeleteRow(r) PROVE PairInv'
  <2> SUFFICES ASSUME Calm' PROVE PairInv'
    OBVIOUS
  <2>1. Calm
    BY <1>5 DEF C!DeleteRow, C!Goes, C!Switched
  <2>2. \A q \in Requests : q # r => req[q] = C!Idle /\ req'[q] = C!Idle
    BY <1>5, <2>1 DEF C!DeleteRow, C!Happens
  <2>3. req'[r] = C!Idle /\ beat' = beat /\ sched' = None
    BY <1>5 DEF C!DeleteRow, C!Goes
  <2>4. beat = None
    BY <1>5, <2>1 DEF C!DeleteRow
  <2> QED BY <2>2, <2>3, <2>4
<1>6. ASSUME NEW r \in Requests, C!RequestLost(r) PROVE PairInv'
  BY <1>6 DEF C!RequestLost, C!Happens
<1>7. CASE C!FlowDelete
  BY <1>7 DEF C!FlowDelete, C!Goes, C!Switched, C!Happens
<1>8. ASSUME NEW t \in Ticks, C!TickFires(t) PROVE PairInv'
  BY <1>8 DEF C!TickFires
<1>9. ASSUME NEW t \in Ticks, C!TickLoads(t) PROVE PairInv'
  BY <1>9 DEF C!TickLoads
<1>10. ASSUME NEW t \in Ticks, C!TickCreates(t) PROVE PairInv'
  BY <1>10 DEF C!TickCreates
<1>11. ASSUME NEW t \in Ticks, C!TickStamps(t) PROVE PairInv'
  BY <1>11 DEF C!TickStamps
<1>12. ASSUME NEW t \in Ticks, C!TickRuns(t) PROVE PairInv'
  BY <1>12 DEF C!TickRuns
<1>13. ASSUME NEW t \in Ticks, C!TickEnds(t) PROVE PairInv'
  BY <1>13 DEF C!TickEnds
<1>14. ASSUME NEW t \in Ticks, C!ProcessDies(t) PROVE PairInv'
  BY <1>14 DEF C!ProcessDies
<1>15. CASE UNCHANGED C!vars
  BY <1>15 DEF C!vars, C!tickVars
<1> QED
  BY <1>1, <1>2, <1>3, <1>4, <1>5, <1>6, <1>7, <1>8, <1>9, <1>10, <1>11, <1>12, <1>13,
     <1>14, <1>15
  DEF C!Next


ScheduleInv == C!TypeOK /\ PairInv /\ LateInv /\ TickInv

\* The rows, the ticks and the jobs of the scheduler stay as ScheduleInv says.
LEMMA ScheduleInvariant == C!Spec => []ScheduleInv
<1>1. C!Init => ScheduleInv
  BY DEF C!Init, C!Idle, C!On, C!At, ScheduleInv, C!TypeOK, C!Row, PairInv, LateInv, TickInv
<1>2. ScheduleInv /\ [C!Next]_(C!vars) => ScheduleInv'
  BY ScheduleTypes, LateSteps, TickSteps, PairSteps DEF ScheduleInv
<1> QED
  BY <1>1, <1>2, PTL DEF C!Spec

\* Once no request of an administrator is under way, the PeriodicTask that beat
\* reads is there and enabled exactly if the schedule is, unless two requests
\* overlapped, one died between its writes or the flow took the schedule along
\* (schedule_edit, schedule_toggle, schedule_delete, _sync_celery_beat).
THEOREM RowsAgree == C!Spec => []RowAndTaskAgree
<1>1. ScheduleInv => RowAndTaskAgree
  BY DEF ScheduleInv, PairInv, Calm, RowAndTaskAgree, C!RowAndTaskAgree, C!Idle
<1> QED
  BY <1>1, ScheduleInvariant, PTL

\* A schedule that is off creates no jobs but those whose ticks had found it on,
\* for any number of ticks at once (_create_job_from_schedule).
THEOREM OffCreatesNone == C!Spec => []OffMeansOff
<1>1. ScheduleInv => OffMeansOff
  BY DEF ScheduleInv, LateInv, OffMeansOff, C!OffMeansOff
<1> QED
  BY <1>1, ScheduleInvariant, PTL

\* The job that a tick has created is run by its process, unless that process dies
\* or the schedule goes while the tick is at work (_create_job_from_schedule, its
\* save of last_run, execute_transfer).
THEOREM TickRunsItsJob == C!Spec => []CreatedIsRun
<1>1. ScheduleInv => CreatedIsRun
  BY DEF ScheduleInv, TickInv, CreatedIsRun, C!CreatedIsRun
<1> QED
  BY <1>1, ScheduleInvariant, PTL

-----------------------------------------------------------------------------
(* UploadStore: the uploads of one name *)

\* From the opening of its file to the end of its job.
UnderWay(u) == upload[u].step \in {"writing", "written", "pending", "sending"}

\* Of two uploads under way with one name each knows of another; one that is alone
\* has a file of nothing but itself, and its job has sent that.
OwnFileInv ==
    /\ \A u, v \in Uploads : u # v /\ UnderWay(u) /\ UnderWay(v) /\ U!File(u) = U!File(v)
                             => upload[u].shared
    /\ \A u \in Uploads : ~upload[u].shared /\ UnderWay(u) => disk[U!File(u)] \subseteq {u}
    /\ \A u \in Uploads : ~upload[u].shared => upload[u].sent \subseteq {u}

\* The record of an upload.
Upload ==
    [step : U!Steps, name : Names, open : BOOLEAN, shared : BOOLEAN, sent : SUBSET Uploads]

\* Every step keeps the types of the uploads.
LEMMA UploadTypes == U!TypeOK /\ [U!Next]_(U!vars) => U!TypeOK'
<1> SUFFICES ASSUME U!TypeOK, [U!Next]_(U!vars) PROVE U!TypeOK'
  OBVIOUS
<1> USE DEF U!TypeOK, U!Steps, U!File, U!Unlink
<1>1. ASSUME NEW u \in Uploads, NEW n \in Names, U!OpenFile(u, n) PROVE U!TypeOK'
  BY <1>1 DEF U!OpenFile, U!Opened, U!Users
<1>2. ASSUME NEW u \in Uploads, U!WriteChunk(u) PROVE U!TypeOK'
  BY <1>2 DEF U!WriteChunk
<1>3. ASSUME NEW u \in Uploads, U!WriteDone(u) PROVE U!TypeOK'
  BY <1>3 DEF U!WriteDone
<1>4. ASSUME NEW u \in Uploads, U!WriteFails(u) PROVE U!TypeOK'
  BY <1>4 DEF U!WriteFails
<1>5. ASSUME NEW u \in Uploads, U!CreateJob(u) PROVE U!TypeOK'
  BY <1>5 DEF U!CreateJob
<1>6. ASSUME NEW u \in Uploads, U!Preview(u) PROVE U!TypeOK'
  BY <1>6 DEF U!Preview
<1>7. ASSUME NEW u \in Uploads, U!SendFails(u) PROVE U!TypeOK'
  BY <1>7 DEF U!SendFails
<1>8. ASSUME NEW u \in Uploads, U!Send(u) PROVE U!TypeOK'
  <2>1. CASE U!File(u) \in there
    <3> DEFINE x == [upload[u] EXCEPT !.step = "sending", !.sent = disk[U!File(u)]]
    <3>1. upload[u] \in Upload /\ disk[U!File(u)] \in SUBSET Uploads
      BY DEF Upload
    <3>2. x \in Upload
      BY <3>1 DEF Upload
    <3>3. upload' = [upload EXCEPT ![u] = x]
      BY <1>8, <2>1 DEF U!Send
    <3> HIDE DEF x
    <3>4. upload' \in [Uploads -> Upload]
      BY <3>2, <3>3 DEF Upload
    <3> QED BY <1>8, <3>4 DEF U!Send, Upload
  <2>2. CASE U!File(u) \notin there
    BY <1>8, <2>2 DEF U!Send
  <2> QED BY <2>1, <2>2
<1>9. ASSUME NEW u \in Uploads, U!SendDone(u) PROVE U!TypeOK'
  <2>1. \A v \in Uploads : upload'[v] \in Upload
    <3> TAKE v \in Uploads
    <3>1. upload[v] \in Upload
      BY DEF Upload
    <3>2. upload'[v] = [upload[v] EXCEPT !.step = IF v = u THEN "done" ELSE @,
                                         !.open = @ /\ upload[v].name # U!File(u)]
      BY <1>9 DEF U!SendDone
    <3> QED BY <3>1, <3>2 DEF Upload
  <2>2. upload' \in [Uploads -> Upload]
    BY <1>9, <2>1 DEF U!SendDone
  <2> QED BY <1>9, <2>2 DEF U!SendDone, Upload
<1>10. ASSUME NEW us \in SUBSET Uploads, U!CreateBatch(us) PROVE U!TypeOK'
  <2>1. \A v \in Uploads : upload'[v] \in Upload
    <3> TAKE v \in Uploads
    <3>1. upload[v] \in Upload
      BY DEF Upload
    <3> QED BY <1>10, <3>1 DEF U!CreateBatch, Upload
  <2>2. upload' \in [Uploads -> Upload]
    BY <1>10, <2>1 DEF U!CreateBatch
  <2> QED BY <1>10, <2>2 DEF U!CreateBatch, Upload
<1>11. ASSUME NEW n \in Names, U!RetentionPasses(n) PROVE U!TypeOK'
  BY <1>11 DEF U!RetentionPasses
<1>12. ASSUME NEW n \in Names, U!Retention(n) PROVE U!TypeOK'
  <2>1. \A v \in Uploads : upload'[v] \in Upload
    <3> TAKE v \in Uploads
    <3>1. upload[v] \in Upload
      BY DEF Upload
    <3>2. upload'[v] = [upload[v] EXCEPT !.open = @ /\ upload[v].name # n]
      BY <1>12 DEF U!Retention
    <3> QED BY <3>1, <3>2 DEF Upload
  <2>2. upload' \in [Uploads -> Upload]
    BY <1>12, <2>1 DEF U!Retention
  <2> QED BY <1>12, <2>2 DEF U!Retention, Upload
<1>13. CASE UNCHANGED U!vars
  BY <1>13 DEF U!vars
<1> QED
  BY <1>1, <1>2, <1>3, <1>4, <1>5, <1>6, <1>7, <1>8, <1>9, <1>10, <1>11, <1>12, <1>13
  DEF U!Next

\* What the updates of an upload change.
LEMMA UploadFields ==
    ASSUME NEW x \in Upload, NEW s, NEW b
    PROVE  /\ LET y == [x EXCEPT !.step = s, !.open = b]
              IN  y.step = s /\ y.name = x.name /\ y.shared = x.shared /\ y.sent = x.sent
           /\ LET y == [x EXCEPT !.shared = b]
              IN  y.step = x.step /\ y.name = x.name /\ y.shared = b /\ y.sent = x.sent
  BY DEF Upload

\* A step that leaves names, sharing and what was sent alone, puts no upload under
\* way and adds nothing to a file keeps OwnFileInv.
LEMMA OwnFileKept ==
    ASSUME U!TypeOK, OwnFileInv,
           \A u \in Uploads : /\ upload'[u].name = upload[u].name
                              /\ upload'[u].shared = upload[u].shared
                              /\ upload'[u].sent = upload[u].sent
                              /\ UnderWay(u)' => UnderWay(u),
           \A n \in Names : disk'[n] \subseteq disk[n]
    PROVE  OwnFileInv'
<1>1. \A u \in Uploads : U!File(u)' = U!File(u) /\ U!File(u) \in Names
  BY DEF U!TypeOK, U!File
<1> QED
  BY <1>1 DEF OwnFileInv

\* Every step keeps the file of an upload that is alone its own.
LEMMA OwnFileSteps == U!TypeOK /\ OwnFileInv /\ [U!Next]_(U!vars) => OwnFileInv'
<1> SUFFICES ASSUME U!TypeOK, OwnFileInv, [U!Next]_(U!vars) PROVE OwnFileInv'
  OBVIOUS
<1> USE DEF U!TypeOK, U!Steps, UnderWay
<1>1. ASSUME NEW u \in Uploads, NEW n \in Names, U!OpenFile(u, n) PROVE OwnFileInv'
  <2> DEFINE us == U!Users(n)
  <2>1. us = {v \in Uploads : upload[v].name = n /\ UnderWay(v)}
    BY DEF U!Users, U!File
  <2>2. ~UnderWay(u) /\ u \notin us
    BY <1>1, <2>1 DEF U!OpenFile, U!At
  <2>3. /\ upload'[u].name = n /\ upload'[u].shared = (us # {}) /\ upload'[u].sent = {}
        /\ disk'[n] = {}
    BY <1>1 DEF U!OpenFile, U!Opened
  <2>4. \A v \in Uploads : v # u =>
           upload'[v] = [upload[v] EXCEPT !.shared = @ \/ v \in us]
    BY <1>1 DEF U!OpenFile, U!Opened
  <2>5. \A v \in Uploads : v # u =>
           /\ upload'[v].name = upload[v].name /\ upload'[v].step = upload[v].step
           /\ upload'[v].sent = upload[v].sent
           /\ upload'[v].shared = (upload[v].shared \/ v \in us)
    <3> HIDE DEF us
    <3> SUFFICES ASSUME NEW v \in Uploads, v # u
                 PROVE  /\ upload'[v].name = upload[v].name /\ upload'[v].step = upload[v].step
                        /\ upload'[v].sent = upload[v].sent
                        /\ upload'[v].shared = (upload[v].shared \/ v \in us)
      OBVIOUS
    <3>1. upload[v] \in Upload
      BY DEF Upload
    <3>2. upload'[v] = [upload[v] EXCEPT !.shared = upload[v].shared \/ v \in us]
      BY <2>4
    <3> QED BY <3>1, <3>2, UploadFields
  <2>6. \A m \in Names : m # n => disk'[m] = disk[m]
    BY <1>1 DEF U!OpenFile
  <2> HIDE DEF us
  <2>7. \A v, x \in Uploads : v # x /\ UnderWay(v)' /\ UnderWay(x)'
                             /\ upload'[v].name = upload'[x].name => upload'[v].shared
    <3> SUFFICES ASSUME NEW v \in Uploads, NEW x \in Uploads, v # x, UnderWay(v)',
                        UnderWay(x)', upload'[v].name = upload'[x].name
                 PROVE  upload'[v].shared
      OBVIOUS
    <3>1. CASE v = u
      BY <2>1, <2>3, <2>5, <3>1
    <3>2. CASE x = u
      BY <2>1, <2>3, <2>5, <3>2
    <3>3. CASE v # u /\ x # u
      BY <2>5, <3>3 DEF OwnFileInv, U!File
    <3> QED BY <3>1, <3>2, <3>3
  <2>8. \A v \in Uploads : ~upload'[v].shared /\ UnderWay(v)'
                           => disk'[upload'[v].name] \subseteq {v}
    <3> SUFFICES ASSUME NEW v \in Uploads, ~upload'[v].shared, UnderWay(v)'
                 PROVE  disk'[upload'[v].name] \subseteq {v}
      OBVIOUS
    <3>1. CASE v = u
      BY <2>3, <3>1
    <3>2. CASE v # u
      BY <2>3, <2>5, <2>6, <3>2 DEF OwnFileInv, U!File
    <3> QED BY <3>1, <3>2
  <2>9. \A v \in Uploads : ~upload'[v].shared => upload'[v].sent \subseteq {v}
    BY <2>3, <2>5 DEF OwnFileInv
  <2> QED BY <2>7, <2>8, <2>9 DEF OwnFileInv, U!File
<1>2. ASSUME NEW u \in Uploads, U!WriteChunk(u) PROVE OwnFileInv'
  BY <1>2 DEF U!WriteChunk, OwnFileInv, U!File, U!At
<1>3. ASSUME NEW u \in Uploads, U!WriteDone(u) PROVE OwnFileInv'
  BY <1>3, OwnFileKept DEF U!WriteDone, U!At
<1>4. ASSUME NEW u \in Uploads, U!WriteFails(u) PROVE OwnFileInv'
  BY <1>4, OwnFileKept DEF U!WriteFails, U!At
<1>5. ASSUME NEW u \in Uploads, U!CreateJob(u) PROVE OwnFileInv'
  BY <1>5, OwnFileKept DEF U!CreateJob, U!At
<1>6. ASSUME NEW u \in Uploads, U!Preview(u) PROVE OwnFileInv'
  BY <1>6, OwnFileKept DEF U!Preview, U!At
<1>7. ASSUME NEW u \in Uploads, U!SendFails(u) PROVE OwnFileInv'
  BY <1>7, OwnFileKept DEF U!SendFails, U!At
<1>8. ASSUME NEW u \in Uploads, U!Send(u) PROVE OwnFileInv'
  BY <1>8 DEF U!Send, OwnFileInv, U!File, U!At
<1>9. ASSUME NEW u \in Uploads, U!SendDone(u) PROVE OwnFileInv'
  <2>1. \A v \in Uploads : upload'[v] =
            [upload[v] EXCEPT !.step = IF v = u THEN "done" ELSE @,
                              !.open = @ /\ upload[v].name # U!File(u)]
    BY <1>9 DEF U!SendDone
  <2>2. \A v \in Uploads : /\ upload'[v].name = upload[v].name
                           /\ upload'[v].shared = upload[v].shared
                           /\ upload'[v].sent = upload[v].sent
                           /\ UnderWay(v)' => UnderWay(v)
    <3> TAKE v \in Uploads
    <3>1. upload[v] \in Upload
      BY DEF Upload
    <3>2. upload'[v] = [upload[v] EXCEPT !.step = IF v = u THEN "done" ELSE upload[v].step,
                                         !.open = upload[v].open /\ upload[v].name # U!File(u)]
      BY <2>1
    <3> QED BY <3>1, <3>2, UploadFields
  <2>3. \A n \in Names : disk'[n] \subseteq disk[n]
    BY <1>9 DEF U!SendDone, U!Unlink
  <2> QED BY <2>2, <2>3, OwnFileKept
<1>10. ASSUME NEW us \in SUBSET Uploads, U!CreateBatch(us) PROVE OwnFileInv'
  BY <1>10, OwnFileKept DEF U!CreateBatch, U!At
<1>11. ASSUME NEW n \in Names, U!RetentionPasses(n) PROVE OwnFileInv'
  BY <1>11, OwnFileKept DEF U!RetentionPasses
<1>12. ASSUME NEW n \in Names, U!Retention(n) PROVE OwnFileInv'
  BY <1>12, OwnFileKept DEF U!Retention, U!Unlink
<1>13. CASE UNCHANGED U!vars
  BY <1>13, OwnFileKept DEF U!vars
<1> QED
  BY <1>1, <1>2, <1>3, <1>4, <1>5, <1>6, <1>7, <1>8, <1>9, <1>10, <1>11, <1>12, <1>13
  DEF U!Next

UploadInv == U!TypeOK /\ OwnFileInv

\* The uploads and the files of the volume stay as UploadInv says.
LEMMA UploadInvariant == U!Spec => []UploadInv
<1>1. U!Init => UploadInv
  BY WorkAssumption
  DEF U!Init, UploadInv, U!TypeOK, U!Steps, OwnFileInv, UnderWay, U!File
<1>2. UploadInv /\ [U!Next]_(U!vars) => UploadInv'
  BY UploadTypes, OwnFileSteps DEF UploadInv
<1> QED
  BY <1>1, <1>2, PTL DEF U!Spec

\* A job sends exactly what was uploaded for it, unless another upload of its name
\* was under way with it (_write_upload, transfer_create).
THEOREM SendsItsUpload == U!Spec => []SendsOwnUpload
<1>1. UploadInv => SendsOwnUpload
  BY DEF UploadInv, OwnFileInv, SendsOwnUpload, U!SendsOwnUpload
<1> QED
  BY <1>1, UploadInvariant, PTL

\* The upload of a job that is not done leaves the volume only by its age, or by
\* another upload of its name (_cleanup_source_file, cleanup_old_transfers).
THEOREM UploadIsKept == U!Spec => NotDoneIsKept
<1> DEFINE Kept == \A u \in Uploads :
                      /\ ~upload[u].shared /\ upload[u].step \in {"written", "pending", "sending"}
                      /\ U!File(u) \in there \ old
                      => U!File(u) \in there' \/ upload'[u].step = "done"
<1>1. UploadInv /\ [U!Next]_(U!vars) => [Kept]_(U!vars)
  <2> SUFFICES ASSUME UploadInv, U!Next,
                      NEW u \in Uploads, ~upload[u].shared,
                      upload[u].step \in {"written", "pending", "sending"},
                      U!File(u) \in there \ old, U!File(u) \notin there'
               PROVE  upload'[u].step = "done"
    OBVIOUS
  <2>1. \A v \in Uploads : UnderWay(v) /\ U!File(v) = U!File(u) => v = u
    BY DEF UploadInv, OwnFileInv, UnderWay
  <2>2. ASSUME NEW v \in Uploads, U!SendDone(v) PROVE upload'[u].step = "done"
    <3>1. U!File(v) = U!File(u) /\ UnderWay(v)
      BY <2>2 DEF U!SendDone, U!Unlink, U!At, UnderWay
    <3>2. v = u
      BY <2>1, <3>1
    <3>3. upload[u] \in Upload
      BY DEF UploadInv, U!TypeOK, Upload
    <3>4. upload'[u] = [upload[u] EXCEPT !.step = "done",
                                         !.open = upload[u].open /\ upload[u].name # U!File(u)]
      BY <2>2, <3>2 DEF U!SendDone
    <3> QED BY <3>3, <3>4, UploadFields
  <2>3. ASSUME NEW n \in Names, U!Retention(n) PROVE FALSE
    BY <2>3 DEF U!Retention, U!Unlink
  <2>4. \/ there \subseteq there'
        \/ \E v \in Uploads : U!SendDone(v)
        \/ \E n \in Names : U!Retention(n)
    BY DEF U!Next, U!OpenFile, U!WriteChunk, U!WriteDone, U!WriteFails, U!CreateJob, U!Preview,
           U!Send, U!SendFails, U!CreateBatch, U!RetentionPasses
  <2> QED BY <2>2, <2>3, <2>4
<1>2. U!Spec => [][Kept]_(U!vars)
  BY <1>1, UploadInvariant, PTL DEF U!Spec
<1> QED
  BY <1>2 DEF NotDoneIsKept, U!NotDoneIsKept

-----------------------------------------------------------------------------
(* DbTransferJob: the life of a database transfer *)


(***************************************************************************)
(* The inductive invariant.  There is no execution before the job is sent, *)
(* the lock of a stop request keeps the job active, an execution that is   *)
(* past mark_running finds no PENDING, "copied" is remembered, and without *)
(* a second delivery there is one execution, whose end is the end of all.  *)
(***************************************************************************)
Held == stop = "locked" => dbjob.status \in Active

Born ==
    /\ form = "idle" <=> dbjob.status = "none"
    /\ form \in {"idle", "committed"} =>
         ~dbjob.error_message /\ \A e \in Runs : run[e] = "none"
    /\ removal = "checked" => form # "idle"

Started == \A e \in Runs : Working(e) => dbjob.status # "pending"

Copied == \A e \in Runs : run[e] = "copied" => "copied" \in history

OneRun ==
    "redelivered" \notin history =>
        /\ \A d, e \in Runs : run[d] # "none" /\ run[e] # "none" => d = e
        /\ dbjob.error_message => \A e \in Runs : run[e] \in {"none", "over"}

DbInv ==
    /\ TypeOK /\ Held /\ Born /\ Started /\ Copied /\ OneRun
    /\ RunningIsWorked /\ DoneIsCopied

\* It holds of the row that is not there yet.
LEMMA InitDbInv == Init => DbInv
<1> SUFFICES ASSUME Init PROVE DbInv
  OBVIOUS
<1> USE DEF Init
<1>1. TypeOK
  BY DEF TypeOK, Statuses, Active, Steps
<1>2. \A e \in Runs : run[e] = "none"
  OBVIOUS
<1>3. Held /\ Born /\ RunningIsWorked /\ DoneIsCopied
  BY <1>2 DEF Held, Born, RunningIsWorked, DoneIsCopied
<1>4. Started /\ Copied /\ OneRun
  BY <1>2 DEF Started, Copied, OneRun, Working
<1> QED BY <1>1, <1>3, <1>4 DEF DbInv

\* The requests keep the invariant.
LEMMA WebDbInv ==
    ASSUME DbInv,
           Create \/ SendTask \/ RecordTaskId \/ StopLocks \/ StopCommits
             \/ DeleteChecks \/ DeleteRow \/ DeleteConnection
    PROVE  DbInv'
<1> USE DEF DbInv, TypeOK, Held, Born, Started, Copied, OneRun, RunningIsWorked,
        DoneIsCopied, Working, Statuses, Active, Steps, Exists, Unlocked
<1>1. CASE Create BY <1>1 DEF Create
<1>2. CASE SendTask BY <1>2 DEF SendTask
<1>3. CASE RecordTaskId BY <1>3 DEF RecordTaskId
<1>4. CASE StopLocks BY <1>4 DEF StopLocks
<1>5. CASE StopCommits BY <1>5 DEF StopCommits
<1>6. CASE DeleteChecks BY <1>6 DEF DeleteChecks
<1>7. CASE DeleteRow BY <1>7 DEF DeleteRow
<1>8. CASE DeleteConnection BY <1>8 DEF DeleteConnection
<1> QED BY <1>1, <1>2, <1>3, <1>4, <1>5, <1>6, <1>7, <1>8

\* So do the broker and the processes.
LEMMA RunDbInv ==
    ASSUME DbInv, NEW e \in Runs,
           Redeliver(e) \/ Load(e) \/ MarkRunning(e) \/ ExecuteReturns(e)
             \/ ExecuteRaises(e) \/ MarkDone(e) \/ MarkFailed(e) \/ RowGone(e) \/ Killed(e)
    PROVE  DbInv'
<1> USE DEF DbInv, TypeOK, Held, Born, Started, Copied, OneRun, RunningIsWorked,
        DoneIsCopied, Working, Statuses, Active, Steps, Exists, Unlocked, Goes
<1>1. CASE Redeliver(e) BY <1>1 DEF Redeliver
<1>2. CASE Load(e) BY <1>2 DEF Load
<1>3. CASE MarkRunning(e) BY <1>3 DEF MarkRunning
<1>4. CASE ExecuteReturns(e) BY <1>4 DEF ExecuteReturns
<1>5. CASE ExecuteRaises(e) BY <1>5 DEF ExecuteRaises
<1>6. CASE MarkDone(e) BY <1>6 DEF MarkDone
<1>7. CASE MarkFailed(e) BY <1>7 DEF MarkFailed
<1>8. CASE RowGone(e) BY <1>8 DEF RowGone
<1>9. CASE Killed(e) BY <1>9 DEF Killed
<1> QED BY <1>1, <1>2, <1>3, <1>4, <1>5, <1>6, <1>7, <1>8, <1>9

\* Every reachable state of a database transfer satisfies the invariant.
THEOREM Inductive == Spec => []DbInv
<1>1. DbInv /\ [Next]_vars => DbInv'
  <2> SUFFICES ASSUME DbInv, [Next]_vars PROVE DbInv'
    OBVIOUS
  <2>1. CASE UNCHANGED vars
    BY <2>1 DEF vars, DbInv, TypeOK, Held, Born, Started, Copied, OneRun,
         RunningIsWorked, DoneIsCopied, Working
  <2> QED BY <2>1, WebDbInv, RunDbInv DEF Next
<1> QED BY <1>1, InitDbInv, PTL DEF Spec

\* A RUNNING row has a process and a task id, however often the message is
\* delivered, unless a process was killed (execute_db_transfer has no cleanup).
THEOREM RunningWorked == Spec => []RunningIsWorked
<1>1. DbInv => RunningIsWorked BY DEF DbInv
<1> QED BY <1>1, Inductive, PTL

\* DONE means copied, and no error message unless delivered twice (mark_done).
THEOREM DoneCopied == Spec => []DoneIsCopied
<1>1. DbInv => DoneIsCopied BY DEF DbInv
<1> QED BY <1>1, Inductive, PTL

-----------------------------------------------------------------------------
(* The refinement *)

\* Every step is a step of JobOutcome for its one job, or a stutter.
LEMMA StepOutcome ==
    ASSUME DbInv, [Next]_vars
    PROVE  Outcome!Next
<1> USE DEF DbInv, TypeOK, Held, Born, Started, Working, Active, Exists, Unlocked, Goes,
        Alive, Outcome!Next, Outcome!Submit, Outcome!Start, Outcome!Rewrite,
        Outcome!Cancel, Outcome!Expire, Outcome!Remove, Outcome!Keep,
        Outcome!NoResurrection
<1>1. CASE Create BY <1>1 DEF Create
<1>2. CASE SendTask BY <1>2 DEF SendTask
<1>3. CASE RecordTaskId BY <1>3 DEF RecordTaskId
<1>4. CASE StopLocks BY <1>4 DEF StopLocks
<1>5. CASE StopCommits BY <1>5 DEF StopCommits
<1>6. CASE DeleteChecks BY <1>6 DEF DeleteChecks
<1>7. CASE DeleteRow BY <1>7 DEF DeleteRow
<1>8. CASE DeleteConnection BY <1>8 DEF DeleteConnection
<1>9. ASSUME NEW e \in Runs,
             Redeliver(e) \/ Load(e) \/ ExecuteReturns(e) \/ ExecuteRaises(e)
               \/ RowGone(e) \/ Killed(e)
      PROVE  Outcome!Next
  BY <1>9 DEF Redeliver, Load, ExecuteReturns, ExecuteRaises, RowGone, Killed
<1>10. ASSUME NEW e \in Runs, MarkRunning(e) PROVE Outcome!Next
  BY <1>10 DEF MarkRunning, Statuses
<1>11. ASSUME NEW e \in Runs, MarkDone(e) PROVE Outcome!Next
  BY <1>11 DEF MarkDone, Statuses
<1>12. ASSUME NEW e \in Runs, MarkFailed(e) PROVE Outcome!Next
  BY <1>12 DEF MarkFailed, Statuses
<1>13. CASE UNCHANGED vars
  BY <1>13 DEF vars
<1> QED BY <1>1, <1>2, <1>3, <1>4, <1>5, <1>6, <1>7, <1>8, <1>9, <1>10, <1>11, <1>12,
           <1>13 DEF Next

\* A database transfer implements the abstract specification of a job's status
\* that file transfers implement, JobOutcome.
THEOREM DbRefinement == Spec => DbKeepsOutcome
<1>1. Init => Outcome!Init
  <2> SUFFICES ASSUME Init PROVE Outcome!Init
    OBVIOUS
  <2>1. dbjob.status = "none"
    BY DEF Init
  <2>2. Alive = FALSE
    BY DEF Init, Alive
  <2>3. [j \in {"job"} |-> Alive] = [j \in {"job"} |-> FALSE]
    BY <2>2, Zenon
  <2> QED BY <2>1, <2>3 DEF Outcome!Init
<1>2. DbInv /\ [Next]_vars =>
        [Outcome!Next]_<<[j \in {"job"} |-> dbjob.status], [j \in {"job"} |-> Alive]>>
  BY StepOutcome
<1> QED BY <1>1, <1>2, Inductive, PTL DEF Spec, DbKeepsOutcome, Outcome!Spec

=============================================================================
