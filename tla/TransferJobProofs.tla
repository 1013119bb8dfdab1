-------------------------- MODULE TransferJobProofs --------------------------
(* Theorems about TransferJob, for every set of jobs, ticks and processes    *)
(* and every bound on deliveries and crashes.                                *)
EXTENDS TransferJob, TLAPS

(***************************************************************************)
(* Type correctness.                                                       *)
(***************************************************************************)

\* The initial state is well typed: no job, no message, every process idle.
LEMMA InitTypeOK == Init => TypeOK
BY TransferJobAssumption DEF Init, TypeOK, Statuses, Ages, Sources, Steps

\* Whoever is freed (a task that ends, a process that is killed) leaves the
\* control state of the processes well typed.
LEMMA FreeTypeOK ==
    ASSUME TypeOK, NEW K, Free(K)
    PROVE  /\ pc' \in [Workers -> Steps]
           /\ task' \in [Workers -> Messages \cup {None}]
           /\ job' \in [Workers -> Jobs \cup {None}]
           /\ \A w \in Workers : pc'[w] # "idle" => job'[w] \in Jobs /\ task'[w] \in Messages
BY DEF TypeOK, Free, Steps

\* A process that goes from one step of execute_transfer to the next has a job
\* and a message, and leaves the control state well typed.
LEMMA MovesTypeOK ==
    ASSUME TypeOK, NEW w \in Workers, NEW a \in Steps \ {"idle"}, NEW b \in Steps,
           Moves(w, a, b)
    PROVE  /\ pc' \in [Workers -> Steps]
           /\ task' \in [Workers -> Messages \cup {None}]
           /\ job' \in [Workers -> Jobs \cup {None}]
           /\ \A v \in Workers : pc'[v] # "idle" => job'[v] \in Jobs /\ task'[v] \in Messages
           /\ job[w] \in Jobs /\ task[w] \in Messages
BY DEF TypeOK, Moves, Steps

\* Taking a copy of a message keeps the counters of the broker in their bounds.
LEMMA TakeTypeOK ==
    ASSUME TypeOK, NEW m \in Messages, Take(m)
    PROVE  /\ waiting' \in [Messages -> 0 .. MaxDeliveries]
           /\ made' = made
           /\ \A n \in Messages : waiting'[n] <= made'[n]
BY TransferJobAssumption DEF TypeOK, Take

\* Publishing a message for the first time keeps the counters in their bounds.
LEMMA PublishTypeOK ==
    ASSUME TypeOK, NEW m \in Messages, Publish(m)
    PROVE  /\ waiting' \in [Messages -> 0 .. MaxDeliveries]
           /\ made' \in [Messages -> 0 .. MaxDeliveries]
           /\ \A n \in Messages : waiting'[n] <= made'[n]
BY TransferJobAssumption DEF TypeOK, Publish

\* Every step of a web request (create, dispatch, stop, delete) is well typed.
LEMMA WebTypeOK ==
    ASSUME TypeOK, NEW j \in Jobs, WebStep(j)
    PROVE  TypeOK'
<1> USE DEF TypeOK, rowVars, fileVars, webVars, brokerVars, revokeVars, workVars,
        Statuses, Sources, Active, Terminal, Messages
<1>1. CASE Create(j) BY <1>1 DEF Create
<1>2. CASE SendTask(j) BY <1>2, PublishTypeOK DEF SendTask
<1>3. CASE RecordTaskId(j) BY <1>3 DEF RecordTaskId
<1>4. CASE DispatchFails(j) BY <1>4 DEF DispatchFails
<1>5. CASE StopBegin(j) BY <1>5 DEF StopBegin
<1>6. CASE StopRevoke(j) BY <1>6 DEF StopRevoke
<1>7. CASE StopCommit(j) BY <1>7 DEF StopCommit
<1>8. CASE StopRollsBack(j) BY <1>8, TransferJobAssumption DEF StopRollsBack
<1>9. CASE DeleteCheck(j) BY <1>9 DEF DeleteCheck
<1>10. CASE DeleteRow(j) BY <1>10 DEF DeleteRow
<1>11. CASE DeleteConnection(j) BY <1>11 DEF DeleteConnection
<1> QED BY <1>1, <1>2, <1>3, <1>4, <1>5, <1>6, <1>7, <1>8, <1>9, <1>10, <1>11
        DEF WebStep

\* Redelivery and revocation are well typed.
LEMMA BrokerTypeOK ==
    ASSUME TypeOK, NEW m \in Messages, BrokerStep(m)
    PROVE  TypeOK'
<1> USE DEF TypeOK, rowVars, fileVars, webVars, brokerVars, revokeVars, workVars
<1>1. CASE Redeliver(m)
  <2>1. /\ made[m] + 1 \in 0 .. MaxDeliveries
        /\ waiting[m] + 1 \in 0 .. MaxDeliveries
        /\ waiting[m] + 1 <= made[m] + 1
    BY <1>1, TransferJobAssumption DEF Redeliver
  <2>2. QED BY <1>1, <2>1 DEF Redeliver
<1>2. CASE DiscardRevoked(m) BY <1>2, TakeTypeOK DEF DiscardRevoked
<1>3. CASE RevokeArrives(m) BY <1>3, FreeTypeOK DEF RevokeArrives
<1>4. CASE RevokeLost(m) BY <1>4 DEF RevokeLost
<1> QED BY <1>1, <1>2, <1>3, <1>4 DEF BrokerStep

\* Every step of execute_transfer is well typed.
LEMMA RunTypeOK ==
    ASSUME TypeOK, NEW w \in Workers, RunStep(w)
    PROVE  TypeOK'
<1> USE DEF rowVars, fileVars, webVars, brokerVars, revokeVars
<1>1. CASE MarkRunning(w)
  <2>1. Moves(w, "loaded", "transfer") BY <1>1 DEF MarkRunning
  <2>2. QED BY <1>1, <2>1, MovesTypeOK DEF MarkRunning, TypeOK, Statuses, Active, Ages, Steps
<1>2. CASE TransferSucceeds(w)
  <2>1. Moves(w, "transfer", "ok") BY <1>2 DEF TransferSucceeds
  <2>2. QED BY <1>2, <2>1, MovesTypeOK DEF TransferSucceeds, TypeOK, Steps
<1>3. CASE TransferFails(w)
  <2>1. Moves(w, "transfer", "err") BY <1>3 DEF TransferFails
  <2>2. delivered' \in [Jobs -> BOOLEAN]
    BY <1>3 DEF TransferFails, TypeOK
  <2>3. QED BY <1>3, <2>1, <2>2, MovesTypeOK DEF TransferFails, TypeOK, Steps
<1>4. CASE MarkDone(w)
  <2>1. Moves(w, "ok", "cleanup") BY <1>4 DEF MarkDone
  <2>2. QED BY <1>4, <2>1, MovesTypeOK DEF MarkDone, TypeOK, Statuses, Terminal, Steps
<1>5. CASE CleanupSource(w)
  <2>1. Moves(w, "cleanup", "notify") BY <1>5 DEF CleanupSource
  <2>2. source' \in [Jobs -> Sources]
    BY <1>5, <2>1, MovesTypeOK DEF CleanupSource, TypeOK, Sources, Steps
  <2>3. QED BY <1>5, <2>1, <2>2, MovesTypeOK DEF CleanupSource, TypeOK, Steps
<1>6. CASE MarkFailed(w)
  <2>1. Moves(w, "err", "errnotify") BY <1>6 DEF MarkFailed
  <2>2. QED BY <1>6, <2>1, MovesTypeOK DEF MarkFailed, TypeOK, Statuses, Terminal, Steps
<1>7. CASE Notify(w)
  BY <1>7, FreeTypeOK DEF Notify, TypeOK
<1>8. CASE NotifyRaises(w)
  <2>1. told' \in [Jobs -> BOOLEAN]
    BY <1>8 DEF NotifyRaises, TypeOK
  <2>2. CASE Moves(w, "notify", "err")
    BY <1>8, <2>1, <2>2, MovesTypeOK DEF NotifyRaises, TypeOK, Steps
  <2>3. CASE Free({w})
    BY <1>8, <2>1, <2>3, FreeTypeOK DEF NotifyRaises, TypeOK
  <2>4. QED BY <1>8, <2>2, <2>3 DEF NotifyRaises
<1>9. CASE RowGone(w)
  BY <1>9, FreeTypeOK DEF RowGone, TypeOK
<1> QED BY <1>1, <1>2, <1>3, <1>4, <1>5, <1>6, <1>7, <1>8, <1>9 DEF RunStep

\* A process that takes up a message has a job from then on.
LEMMA LoadsTypeOK ==
    ASSUME TypeOK, NEW w \in Workers, NEW m \in Messages, NEW j \in Jobs,
           Loads(w, m, j)
    PROVE  /\ pc' \in [Workers -> Steps]
           /\ task' \in [Workers -> Messages \cup {None}]
           /\ job' \in [Workers -> Jobs \cup {None}]
           /\ \A v \in Workers : pc'[v] # "idle" => job'[v] \in Jobs /\ task'[v] \in Messages
           /\ Take(m)
BY DEF Loads, TypeOK, Steps

\* Every step of the system, or a stutter, preserves the type invariant.
THEOREM NextTypeOK == TypeOK /\ [Next]_vars => TypeOK'
<1> SUFFICES ASSUME TypeOK, [Next]_vars PROVE TypeOK'
  OBVIOUS
<1> USE DEF rowVars, fileVars, webVars, brokerVars, revokeVars, workVars
<1>1. ASSUME NEW j \in Jobs, WebStep(j) PROVE TypeOK'
  BY <1>1, WebTypeOK
<1>2. ASSUME NEW j \in Jobs, HourPasses(j) PROVE TypeOK'
  BY <1>2 DEF HourPasses, TypeOK, Ages
<1>3. ASSUME NEW m \in Messages, BrokerStep(m) PROVE TypeOK'
  BY <1>3, BrokerTypeOK
<1>4. ASSUME NEW t \in Ticks, TickFires(t) PROVE TypeOK'
  <2>1. t \in Messages /\ Publish(t) BY <1>4 DEF TickFires, Messages
  <2>2. QED BY <1>4, <2>1, PublishTypeOK DEF TickFires, TypeOK
<1>5. ASSUME NEW w \in Workers, NEW j \in Jobs, Accept(w, j) PROVE TypeOK'
  <2>1. j \in Messages /\ Loads(w, j, j) BY <1>5 DEF Accept, Messages
  <2>2. QED BY <1>5, <2>1, LoadsTypeOK, TakeTypeOK DEF Accept, TypeOK
<1>6. ASSUME NEW w \in Workers, NEW t \in Ticks, NEW j \in Jobs, AcceptTick(w, t, j)
      PROVE TypeOK'
  <2>1. t \in Messages /\ Loads(w, t, j) BY <1>6 DEF AcceptTick, Messages
  <2>2. source' \in [Jobs -> Sources] BY <1>6 DEF AcceptTick, TypeOK, Sources
  <2>3. status' \in [Jobs -> Statuses]
    BY <1>6 DEF AcceptTick, TypeOK, Statuses, Active
  <2>4. QED BY <1>6, <2>1, <2>2, <2>3, LoadsTypeOK, TakeTypeOK DEF AcceptTick, TypeOK
<1>7. ASSUME NEW w \in Workers, NEW m \in Messages, Skip(w, m) PROVE TypeOK'
  BY <1>7, TakeTypeOK DEF Skip, TypeOK
<1>8. ASSUME NEW w \in Workers, RunStep(w) PROVE TypeOK'
  BY <1>8, RunTypeOK
<1>9. ASSUME NEW w \in Workers, Crash(w) PROVE TypeOK'
  BY <1>9, FreeTypeOK, TransferJobAssumption DEF Crash, TypeOK
<1>10. CASE Restart
  BY <1>10, FreeTypeOK, TransferJobAssumption DEF Restart, TypeOK
<1>11. CASE OrphanCleanup
  BY <1>11 DEF OrphanCleanup, TypeOK, Statuses, Terminal
<1>12. CASE UNCHANGED vars
  BY <1>12 DEF vars, TypeOK
<1> QED
  BY <1>1, <1>2, <1>3, <1>4, <1>5, <1>6, <1>7, <1>8, <1>9, <1>10, <1>11, <1>12
  DEF Next

\* Every value the variables take is of its type: in particular no worker ever
\* runs without a job, and the broker's bound on copies is respected.
THEOREM TypeCorrect == Spec => []TypeOK
BY InitTypeOK, NextTypeOK, PTL DEF Spec

(***************************************************************************)
(* The inductive invariant.  Besides the properties of the files it says   *)
(* that the row lock keeps a job active while a stop request handles it,   *)
(* that nothing works on a row before it exists, and that a process past   *)
(* mark_running never finds its job PENDING.                               *)
(***************************************************************************)

LockInv == \A j \in Jobs : stop[j] # "idle" => status[j] \in Active

FileInv ==
    /\ DoneIsDelivered
    /\ RemovedIsDelivered
    /\ \A w \in Workers : pc[w] \in {"ok", "cleanup"} => delivered[job[w]]

BornInv ==
    \A j \in Jobs : status[j] = "none" =>
        /\ dispatch[j] = "idle"
        /\ waiting[j] = 0
        /\ ~deleting[j]
        /\ ~Held(j)

StartedInv ==
    \A w \in Workers : pc[w] \notin {"idle", "loaded"} => status[job[w]] # "pending"

JobInv == LockInv /\ FileInv /\ BornInv /\ StartedInv

IInv == TypeOK /\ JobInv

\* The inductive invariant holds before the first request.
LEMMA InitIInv == Init => IInv
<1> SUFFICES ASSUME Init PROVE IInv
  OBVIOUS
<1>1. TypeOK
  BY InitTypeOK
<1>2. LockInv /\ FileInv /\ StartedInv
  BY DEF Init, LockInv, FileInv, DoneIsDelivered, RemovedIsDelivered, StartedInv
<1>3. BornInv
  BY DEF Init, BornInv, Held, Messages
<1> QED BY <1>1, <1>2, <1>3 DEF IInv, JobInv

\* Every step of a web request preserves the inductive invariant; StopCommit
\* relies on the lock, RecordTaskId and DispatchFails on nothing but their guard.
LEMMA WebIInv ==
    ASSUME IInv, NEW j \in Jobs, WebStep(j)
    PROVE  JobInv'
<1> USE DEF IInv, JobInv, TypeOK, LockInv, FileInv, DoneIsDelivered,
        RemovedIsDelivered, BornInv, Held, StartedInv, Messages, Exists, Unlocked,
        Active, Terminal, rowVars, fileVars, webVars, brokerVars, revokeVars,
        workVars
<1>1. CASE Create(j)
  BY <1>1 DEF Create
<1>2. CASE SendTask(j)
  BY <1>2 DEF SendTask, Publish
<1>3. CASE RecordTaskId(j)
  BY <1>3 DEF RecordTaskId
<1>4. CASE DispatchFails(j)
  BY <1>4 DEF DispatchFails
<1>5. CASE StopBegin(j)
  BY <1>5 DEF StopBegin
<1>6. CASE StopRevoke(j)
  BY <1>6 DEF StopRevoke
<1>7. CASE StopCommit(j)
  BY <1>7 DEF StopCommit
<1>8. CASE StopRollsBack(j)
  BY <1>8 DEF StopRollsBack
<1>9. CASE DeleteCheck(j)
  BY <1>9 DEF DeleteCheck
<1>10. CASE DeleteRow(j)
  BY <1>10 DEF DeleteRow
<1>11. CASE DeleteConnection(j)
  BY <1>11 DEF DeleteConnection
<1> QED BY <1>1, <1>2, <1>3, <1>4, <1>5, <1>6, <1>7, <1>8, <1>9, <1>10, <1>11 DEF WebStep

\* Redelivery and revocation preserve it: a killed process leaves row and files.
LEMMA BrokerIInv ==
    ASSUME IInv, NEW m \in Messages, BrokerStep(m)
    PROVE  JobInv'
<1> USE DEF IInv, JobInv, TypeOK, LockInv, FileInv, DoneIsDelivered,
        RemovedIsDelivered, BornInv, Held, StartedInv, Messages, Exists, Unlocked,
        Active, Terminal, rowVars, fileVars, webVars, brokerVars, revokeVars,
        workVars
<1>1. CASE Redeliver(m)
  BY <1>1 DEF Redeliver
<1>2. CASE DiscardRevoked(m)
  BY <1>2 DEF DiscardRevoked, Take
<1>3. CASE RevokeArrives(m)
  BY <1>3 DEF RevokeArrives, Free
<1>4. CASE RevokeLost(m)
  BY <1>4 DEF RevokeLost
<1> QED BY <1>1, <1>2, <1>3, <1>4 DEF BrokerStep

\* Every step of execute_transfer preserves it; MarkDone relies on the handler
\* having returned, CleanupSource on MarkDone having come first.
LEMMA RunIInv ==
    ASSUME IInv, NEW w \in Workers, RunStep(w)
    PROVE  JobInv'
<1> USE DEF IInv, JobInv, TypeOK, LockInv, FileInv, DoneIsDelivered,
        RemovedIsDelivered, BornInv, Held, StartedInv, Messages, Exists, Unlocked,
        Active, Terminal, rowVars, fileVars, webVars, brokerVars, revokeVars,
        workVars
<1>1. CASE MarkRunning(w)
  BY <1>1 DEF MarkRunning, Moves, Steps
<1>2. CASE TransferSucceeds(w)
  BY <1>2 DEF TransferSucceeds, Moves, Steps
<1>3. CASE TransferFails(w)
  BY <1>3 DEF TransferFails, Moves, Steps
<1>4. CASE MarkDone(w)
  BY <1>4 DEF MarkDone, Moves, Steps
<1>5. CASE CleanupSource(w)
  BY <1>5 DEF CleanupSource, Moves, Steps
<1>6. CASE MarkFailed(w)
  BY <1>6 DEF MarkFailed, Moves, Steps
<1>7. CASE Notify(w)
  BY <1>7 DEF Notify, Free
<1>8. CASE NotifyRaises(w)
  BY <1>8 DEF NotifyRaises, Free, Moves, Steps
<1>9. CASE RowGone(w)
  BY <1>9 DEF RowGone, Free
<1> QED BY <1>1, <1>2, <1>3, <1>4, <1>5, <1>6, <1>7, <1>8, <1>9 DEF RunStep

\* The invariant is inductive: every step of the system preserves it.
THEOREM NextIInv == IInv /\ [Next]_vars => IInv'
<1> SUFFICES ASSUME IInv, [Next]_vars PROVE IInv'
  OBVIOUS
<1>0. TypeOK'
  BY NextTypeOK DEF IInv
<1> SUFFICES JobInv'
  BY <1>0 DEF IInv
<1> USE DEF IInv, JobInv, TypeOK, LockInv, FileInv, DoneIsDelivered,
        RemovedIsDelivered, BornInv, Held, StartedInv, Messages, Exists, Unlocked,
        Active, Terminal, rowVars, fileVars, webVars, brokerVars, revokeVars,
        workVars
<1>1. ASSUME NEW j \in Jobs, WebStep(j) PROVE JobInv'
  BY <1>1, WebIInv
<1>2. ASSUME NEW j \in Jobs, HourPasses(j) PROVE JobInv'
  BY <1>2 DEF HourPasses
<1>3. ASSUME NEW m \in Messages, BrokerStep(m) PROVE JobInv'
  BY <1>3, BrokerIInv
<1>4. ASSUME NEW t \in Ticks, TickFires(t) PROVE JobInv'
  BY <1>4, TransferJobAssumption DEF TickFires, Publish
<1>5. ASSUME NEW w \in Workers, NEW j \in Jobs, Accept(w, j) PROVE JobInv'
  BY <1>5 DEF Accept, Loads, Take
<1>6. ASSUME NEW w \in Workers, NEW t \in Ticks, NEW j \in Jobs, AcceptTick(w, t, j)
      PROVE JobInv'
  BY <1>6, TransferJobAssumption DEF AcceptTick, Loads, Take
<1>7. ASSUME NEW w \in Workers, NEW m \in Messages, Skip(w, m) PROVE JobInv'
  BY <1>7 DEF Skip, Take
<1>8. ASSUME NEW w \in Workers, RunStep(w) PROVE JobInv'
  BY <1>8, RunIInv
<1>9. ASSUME NEW w \in Workers, Crash(w) PROVE JobInv'
  BY <1>9 DEF Crash, Free
<1>10. CASE Restart
  BY <1>10 DEF Restart, Free
<1>11. CASE OrphanCleanup
  BY <1>11 DEF OrphanCleanup, Orphans
<1>12. CASE UNCHANGED vars
  BY <1>12 DEF vars
<1> QED
  BY <1>1, <1>2, <1>3, <1>4, <1>5, <1>6, <1>7, <1>8, <1>9, <1>10, <1>11, <1>12
  DEF Next

\* The inductive invariant holds in every reachable state.
LEMMA Invariant == Spec => []IInv
BY InitIInv, NextIInv, PTL DEF Spec

\* No job is ever DONE whose file did not arrive, for any number of jobs,
\* workers, deliveries and crashes.
THEOREM DoneDelivered == Spec => []DoneIsDelivered
<1>1. IInv => DoneIsDelivered
  BY DEF IInv, JobInv, FileInv
<1> QED BY <1>1, Invariant, PTL

\* No uploaded file is removed before it arrived.
THEOREM RemovedDelivered == Spec => []RemovedIsDelivered
<1>1. IInv => RemovedIsDelivered
  BY DEF IInv, JobInv, FileInv
<1> QED BY <1>1, Invariant, PTL

(***************************************************************************)
(* The abstract specification.                                             *)
(***************************************************************************)

\* A step of a web request is a Submit, a Cancel, a Remove or a stutter of
\* JobOutcome, and revives no execution.
LEMMA WebOutcome ==
    ASSUME IInv, NEW j \in Jobs, WebStep(j)
    PROVE  Outcome!Next
<1> USE DEF IInv, JobInv, TypeOK, LockInv, FileInv, DoneIsDelivered,
        RemovedIsDelivered, BornInv, Held, StartedInv, Messages, Exists, Unlocked,
        Active, Terminal, Quiet, rowVars, fileVars, webVars, brokerVars, revokeVars,
        workVars, Outcome!Next, Outcome!Submit, Outcome!Start, Outcome!Rewrite,
        Outcome!Cancel, Outcome!Expire, Outcome!Remove, Outcome!Keep,
        Outcome!NoResurrection
<1>1. CASE Create(j)
  BY <1>1 DEF Create
<1>2. CASE SendTask(j)
  BY <1>2 DEF SendTask, Publish
<1>3. CASE RecordTaskId(j)
  BY <1>3 DEF RecordTaskId
<1>4. CASE DispatchFails(j)
  BY <1>4 DEF DispatchFails
<1>5. CASE StopBegin(j)
  BY <1>5 DEF StopBegin
<1>6. CASE StopRevoke(j)
  BY <1>6 DEF StopRevoke
<1>7. CASE StopCommit(j)
  BY <1>7 DEF StopCommit
<1>8. CASE StopRollsBack(j)
  BY <1>8 DEF StopRollsBack
<1>9. CASE DeleteCheck(j)
  BY <1>9 DEF DeleteCheck
<1>10. CASE DeleteRow(j)
  BY <1>10 DEF DeleteRow
<1>11. CASE DeleteConnection(j)
  BY <1>11 DEF DeleteConnection
<1> QED BY <1>1, <1>2, <1>3, <1>4, <1>5, <1>6, <1>7, <1>8, <1>9, <1>10, <1>11 DEF WebStep

\* What the broker does is a stutter of the rows: it can redeliver only a job
\* whose message still waits, which is alive already.
LEMMA BrokerOutcome ==
    ASSUME IInv, NEW m \in Messages, BrokerStep(m)
    PROVE  Outcome!Next
<1> USE DEF IInv, JobInv, TypeOK, LockInv, FileInv, DoneIsDelivered,
        RemovedIsDelivered, BornInv, Held, StartedInv, Messages, Exists, Unlocked,
        Active, Terminal, Quiet, rowVars, fileVars, webVars, brokerVars, revokeVars,
        workVars, Outcome!Next, Outcome!Submit, Outcome!Start, Outcome!Rewrite,
        Outcome!Cancel, Outcome!Expire, Outcome!Remove, Outcome!Keep,
        Outcome!NoResurrection
<1>1. CASE Redeliver(m)
  BY <1>1 DEF Redeliver
<1>2. CASE DiscardRevoked(m)
  BY <1>2 DEF DiscardRevoked, Take
<1>3. CASE RevokeArrives(m)
  BY <1>3 DEF RevokeArrives, Free
<1>4. CASE RevokeLost(m)
  BY <1>4 DEF RevokeLost
<1> QED BY <1>1, <1>2, <1>3, <1>4 DEF BrokerStep

\* A process that moves between two steps has a job that is not quiet, and
\* changes the quietness of no job.
LEMMA MovesQuiet ==
    ASSUME TypeOK, NEW w \in Workers, NEW a \in Steps \ {"idle"},
           NEW b \in Steps \ {"idle"}, Moves(w, a, b),
           waiting' = waiting, dispatch' = dispatch
    PROVE  /\ job[w] \in Jobs
           /\ ~Quiet(job[w])
           /\ \A j \in Jobs : Quiet(j)' <=> Quiet(j)
BY DEF TypeOK, Moves, Quiet, Held, Steps

\* A process writes RUNNING, DONE or FAILED over the status of its job: an
\* execution that is alive rewrites the row.
LEMMA WriteOutcome ==
    ASSUME IInv, NEW w \in Workers, Exists(job[w]),
           NEW a \in Steps \ {"idle"}, NEW b \in Steps \ {"idle"}, Moves(w, a, b),
           NEW s \in {"running", "done", "failed"},
           status[job[w]] = "pending" => s = "running",
           status' = [status EXCEPT ![job[w]] = s],
           waiting' = waiting, dispatch' = dispatch
    PROVE  Outcome!Next
<1> DEFINE k == job[w]
<1>1. /\ k \in Jobs /\ ~Quiet(k)
      /\ \A j \in Jobs : Quiet(j)' <=> Quiet(j)
  BY MovesQuiet DEF IInv
<1>2. /\ status[k] \in Active \cup Terminal
      /\ status'[k] = s
      /\ \A j \in Jobs \ {k} : status'[j] = status[j]
  BY <1>1 DEF IInv, TypeOK, Statuses, Exists
<1> SUFFICES ASSUME NEW j \in Jobs
             PROVE  /\ Outcome!Start(j) \/ Outcome!Rewrite(j) \/ Outcome!Keep(j)
                    /\ Outcome!NoResurrection(j)
  BY DEF Outcome!Next
<1>3. CASE j = k
  BY <1>1, <1>2, <1>3
  DEF Outcome!Start, Outcome!Rewrite, Outcome!NoResurrection, Active, Terminal
<1>4. CASE j # k
  BY <1>1, <1>2, <1>4 DEF Outcome!Keep, Outcome!NoResurrection
<1> QED BY <1>3, <1>4

\* A step of execute_transfer is a Start, a Rewrite or a stutter of JobOutcome.
LEMMA RunOutcome ==
    ASSUME IInv, NEW w \in Workers, RunStep(w)
    PROVE  Outcome!Next
<1> USE DEF IInv, JobInv, TypeOK, LockInv, FileInv, DoneIsDelivered,
        RemovedIsDelivered, BornInv, Held, StartedInv, Messages, Exists, Unlocked,
        Active, Terminal, Quiet, rowVars, fileVars, webVars, brokerVars, revokeVars,
        workVars, Outcome!Next, Outcome!Submit, Outcome!Start, Outcome!Rewrite,
        Outcome!Cancel, Outcome!Expire, Outcome!Remove, Outcome!Keep,
        Outcome!NoResurrection
<1>1. CASE MarkRunning(w)
  <2>1. /\ Moves(w, "loaded", "transfer")
        /\ Exists(job[w])
        /\ status' = [status EXCEPT ![job[w]] = "running"]
        /\ waiting' = waiting /\ dispatch' = dispatch
    BY <1>1 DEF MarkRunning
  <2>2. "loaded" \in Steps \ {"idle"} /\ "transfer" \in Steps \ {"idle"}
    BY DEF Steps
  <2>3. QED BY <2>1, <2>2, WriteOutcome
<1>2. CASE TransferSucceeds(w)
  BY <1>2 DEF TransferSucceeds, Moves, Steps
<1>3. CASE TransferFails(w)
  BY <1>3 DEF TransferFails, Moves, Steps
<1>4. CASE MarkDone(w)
  <2>1. /\ Moves(w, "ok", "cleanup")
        /\ Exists(job[w])
        /\ status' = [status EXCEPT ![job[w]] = "done"]
        /\ waiting' = waiting /\ dispatch' = dispatch
    BY <1>4 DEF MarkDone
  <2>2. "ok" \in Steps \ {"idle"} /\ "cleanup" \in Steps \ {"idle"}
    BY DEF Steps
  <2>3. status[job[w]] # "pending"
    BY <2>1 DEF Moves
  <2>4. QED BY <2>1, <2>2, <2>3, WriteOutcome
<1>5. CASE CleanupSource(w)
  BY <1>5 DEF CleanupSource, Moves, Steps
<1>6. CASE MarkFailed(w)
  <2>1. /\ Moves(w, "err", "errnotify")
        /\ Exists(job[w])
        /\ status' = [status EXCEPT ![job[w]] = "failed"]
        /\ waiting' = waiting /\ dispatch' = dispatch
    BY <1>6 DEF MarkFailed
  <2>2. "err" \in Steps \ {"idle"} /\ "errnotify" \in Steps \ {"idle"}
    BY DEF Steps
  <2>3. status[job[w]] # "pending"
    BY <2>1 DEF Moves
  <2>4. QED BY <2>1, <2>2, <2>3, WriteOutcome
<1>7. CASE Notify(w)
  BY <1>7 DEF Notify, Free
<1>8. CASE NotifyRaises(w)
  BY <1>8 DEF NotifyRaises, Free, Moves, Steps
<1>9. CASE RowGone(w)
  BY <1>9 DEF RowGone, Free
<1> QED BY <1>1, <1>2, <1>3, <1>4, <1>5, <1>6, <1>7, <1>8, <1>9 DEF RunStep

\* Every step of the system is a step of JobOutcome, or a stutter of it.
LEMMA StepOutcome ==
    ASSUME IInv, [Next]_vars
    PROVE  Outcome!Next
<1> USE DEF IInv, JobInv, TypeOK, LockInv, FileInv, DoneIsDelivered,
        RemovedIsDelivered, BornInv, Held, StartedInv, Messages, Exists, Unlocked,
        Active, Terminal, Quiet, rowVars, fileVars, webVars, brokerVars, revokeVars,
        workVars, Outcome!Next, Outcome!Submit, Outcome!Start, Outcome!Rewrite,
        Outcome!Cancel, Outcome!Expire, Outcome!Remove, Outcome!Keep,
        Outcome!NoResurrection
<1>1. ASSUME NEW j \in Jobs, WebStep(j) PROVE Outcome!Next
  BY <1>1, WebOutcome
<1>2. ASSUME NEW j \in Jobs, HourPasses(j) PROVE Outcome!Next
  BY <1>2 DEF HourPasses
<1>3. ASSUME NEW m \in Messages, BrokerStep(m) PROVE Outcome!Next
  BY <1>3, BrokerOutcome
<1>4. ASSUME NEW t \in Ticks, TickFires(t) PROVE Outcome!Next
  BY <1>4, TransferJobAssumption DEF TickFires, Publish
<1>5. ASSUME NEW w \in Workers, NEW j \in Jobs, Accept(w, j) PROVE Outcome!Next
  BY <1>5 DEF Accept, Loads, Take
<1>6. ASSUME NEW w \in Workers, NEW t \in Ticks, NEW j \in Jobs, AcceptTick(w, t, j)
      PROVE Outcome!Next
  BY <1>6, TransferJobAssumption DEF AcceptTick, Loads, Take
<1>7. ASSUME NEW w \in Workers, NEW m \in Messages, Skip(w, m) PROVE Outcome!Next
  BY <1>7 DEF Skip, Take
<1>8. ASSUME NEW w \in Workers, RunStep(w) PROVE Outcome!Next
  BY <1>8, RunOutcome
<1>9. ASSUME NEW w \in Workers, Crash(w) PROVE Outcome!Next
  BY <1>9 DEF Crash, Free
<1>10. CASE Restart
  BY <1>10 DEF Restart, Free
<1>11. CASE OrphanCleanup
  BY <1>11 DEF OrphanCleanup, Orphans
<1>12. CASE UNCHANGED vars
  BY <1>12 DEF vars
<1> QED
  BY <1>1, <1>2, <1>3, <1>4, <1>5, <1>6, <1>7, <1>8, <1>9, <1>10, <1>11, <1>12
  DEF Next

\* Requests, broker, workers and cleanup implement the abstract specification of
\* a job's status, JobOutcome.
THEOREM Refinement == Spec => KeepsOutcome
<1>1. Init => Outcome!Init
  <2> SUFFICES ASSUME Init PROVE Outcome!Init
    OBVIOUS
  <2>1. status = [j \in Jobs |-> "none"]
    BY DEF Init
  <2>2. \A j \in Jobs : (status[j] # "none" /\ ~Quiet(j)) = FALSE
    BY <2>1
  <2>3. [j \in Jobs |-> status[j] # "none" /\ ~Quiet(j)] = [j \in Jobs |-> FALSE]
    BY <2>2, Zenon
  <2> QED BY <2>1, <2>3 DEF Outcome!Init
<1>2. IInv /\ [Next]_vars =>
        [Outcome!Next]_<<status, [j \in Jobs |-> status[j] # "none" /\ ~Quiet(j)]>>
  BY StepOutcome
<1> QED BY <1>1, <1>2, Invariant, PTL DEF Spec, KeepsOutcome, Outcome!Spec

\* A stop request cancels active jobs only.
THEOREM StopActive == Spec => StopHitsActive
<1>1. IInv /\ [Next]_vars =>
        [\A j \in Jobs :
           status'[j] = "cancelled" => status[j] \in Active \cup {"cancelled"}]_vars
  BY StepOutcome DEF Outcome!Next, Outcome!Submit, Outcome!Start, Outcome!Rewrite,
     Outcome!Cancel, Outcome!Expire, Outcome!Remove, Outcome!Keep, Active
<1> QED BY <1>1, Invariant, PTL DEF Spec, StopHitsActive

\* When nothing can run a job any more, the status it ended with is final.
THEOREM QuietSettled == Spec => QuietIsSettled
<1>1. ASSUME IInv, [Next]_vars, NEW j \in Jobs, Quiet(j), status[j] \in Terminal
      PROVE  status'[j] \in {status[j], "deleted"}
  BY <1>1, StepOutcome DEF Outcome!Next, Outcome!Submit, Outcome!Start, Outcome!Rewrite,
     Outcome!Cancel, Outcome!Expire, Outcome!Remove, Outcome!Keep, Terminal
<1>2. IInv /\ [Next]_vars =>
        [\A j \in Jobs : Quiet(j) /\ status[j] \in Terminal
                           => status'[j] \in {status[j], "deleted"}]_vars
  BY <1>1
<1> QED BY <1>2, Invariant, PTL DEF Spec, QuietIsSettled

=============================================================================
