--------------------------- MODULE TransferRunsProofs ---------------------------
(***************************************************************************)
(* Theorems about TransferJob that turn on who runs a job: the row names   *)
(* the task that runs it, and a job whose message is not redelivered is    *)
(* run once and told of once it has ended.                                 *)
(***************************************************************************)
EXTENDS TransferJobProofs

Holds(w, j) == pc[w] # "idle" /\ job[w] = j

\* Where the tasks come from: a job that a request created runs under its own
\* message, and one that a tick created under the tick's.
OriginInv ==
    /\ \A j \in Jobs : made[j] > 0 => dispatch[j] \in {"sent", "over"}
    /\ \A w \in Workers : pc[w] # "idle" =>
         /\ made[task[w]] > 0
         /\ dispatch[job[w]] # "idle" => task[w] = job[w]
         /\ \A v \in Workers : Holds(v, job[w]) => task[v] = task[w]

\* A job whose message has been handed out once is held by one process, and once
\* it has been RUNNING nothing is left that could start it.
OnceInv ==
    \A j \in Jobs : made[j] <= 1 =>
        /\ \A v, w \in Workers : Holds(v, j) /\ Holds(w, j) => v = w
        /\ \A w \in Workers : Holds(w, j) => waiting[j] = 0
        /\ status[j] \in {"running", "done", "failed"} =>
             /\ waiting[j] = 0
             /\ dispatch[j] # "created"
             /\ \A w \in Workers : Holds(w, j) => pc[w] # "loaded"

Final == {"done", "failed", "deleted"}

\* A process that is about to tell of a job has written its final status, and
\* one that goes on after a notice can only turn DONE into FAILED.
ToldInv ==
    \A j \in Jobs : Undisturbed(j) =>
        /\ \A w \in Workers :
             Holds(w, j) /\ pc[w] \in {"cleanup", "notify", "errnotify"} => status[j] \in Final
        /\ told[j] =>
             /\ status[j] \in Final
             /\ \A w \in Workers : Holds(w, j) => pc[w] \in {"err", "errnotify"}

RunsInv == OriginInv /\ RunningIsRevocable /\ OnceInv /\ ToldInv

-----------------------------------------------------------------------------
\* Every step keeps the origin of the tasks.
LEMMA WebOrigin ==
    ASSUME IInv, OriginInv, NEW j \in Jobs, WebStep(j)
    PROVE  OriginInv'
<1> USE DEF IInv, JobInv, TypeOK, LockInv, BornInv, Held, Messages, Exists, Unlocked, Active,
        Terminal, OriginInv, Holds, rowVars, fileVars, webVars, brokerVars,
        revokeVars, workVars
<1>1. CASE Create(j)
  BY <1>1 DEF Create
<1>2. CASE SendTask(j)
  BY <1>2 DEF SendTask, Publish
<1>3. CASE RecordTaskId(j)
  BY <1>3 DEF RecordTaskId
<1>4. CASE DispatchFails(j)
  BY <1>4 DEF DispatchFails
<1>5. CASE StopBegin(j)
  BY <1>5 DEF StopBegin
<1>6. CASE StopRevoke(j)
  BY <1>6 DEF StopRevoke
<1>7. CASE StopCommit(j)
  BY <1>7 DEF StopCommit
<1>8. CASE StopRollsBack(j)
  BY <1>8 DEF StopRollsBack
<1>9. CASE DeleteCheck(j)
  BY <1>9 DEF DeleteCheck
<1>10. CASE DeleteRow(j)
  BY <1>10 DEF DeleteRow
<1>11. CASE DeleteConnection(j)
  BY <1>11 DEF DeleteConnection
<1> QED BY <1>1, <1>2, <1>3, <1>4, <1>5, <1>6, <1>7, <1>8, <1>9, <1>10, <1>11 DEF WebStep

LEMMA BrokerOrigin ==
    ASSUME IInv, OriginInv, NEW m \in Messages, BrokerStep(m)
    PROVE  OriginInv'
<1> USE DEF IInv, JobInv, TypeOK, LockInv, BornInv, Held, Messages, Exists, Unlocked, Active,
        Terminal, OriginInv, Holds, rowVars, fileVars, webVars, brokerVars,
        revokeVars, workVars
<1>1. CASE Redeliver(m)
  BY <1>1 DEF Redeliver
<1>2. CASE DiscardRevoked(m)
  BY <1>2 DEF DiscardRevoked, Take
<1>3. CASE RevokeArrives(m)
  BY <1>3 DEF RevokeArrives, Free
<1>4. CASE RevokeLost(m)
  BY <1>4 DEF RevokeLost
<1> QED BY <1>1, <1>2, <1>3, <1>4 DEF BrokerStep

LEMMA RunOrigin ==
    ASSUME IInv, OriginInv, NEW w \in Workers, RunStep(w)
    PROVE  OriginInv'
<1> USE DEF IInv, JobInv, TypeOK, LockInv, BornInv, Held, Messages, Exists, Unlocked, Active,
        Terminal, OriginInv, Holds, rowVars, fileVars, webVars, brokerVars,
        revokeVars, workVars
<1>1. CASE MarkRunning(w)
  BY <1>1 DEF MarkRunning, Moves, Steps
<1>2. CASE TransferSucceeds(w)
  BY <1>2 DEF TransferSucceeds, Moves, Steps
<1>3. CASE TransferFails(w)
  BY <1>3 DEF TransferFails, Moves, Steps
<1>4. CASE MarkDone(w)
  BY <1>4 DEF MarkDone, Moves, Steps
<1>5. CASE CleanupSource(w)
  BY <1>5 DEF CleanupSource, Moves, Steps
<1>6. CASE MarkFailed(w)
  BY <1>6 DEF MarkFailed, Moves, Steps
<1>7. CASE Notify(w)
  BY <1>7 DEF Notify, Free
<1>8. CASE NotifyRaises(w)
  BY <1>8 DEF NotifyRaises, Free, Moves, Steps
<1>9. CASE RowGone(w)
  BY <1>9 DEF RowGone, Free
<1> QED BY <1>1, <1>2, <1>3, <1>4, <1>5, <1>6, <1>7, <1>8, <1>9 DEF RunStep

LEMMA NextOrigin == IInv /\ OriginInv /\ [Next]_vars => OriginInv'
<1> SUFFICES ASSUME IInv, OriginInv, [Next]_vars PROVE OriginInv'
  OBVIOUS
<1> USE DEF IInv, JobInv, TypeOK, LockInv, BornInv, Held, Messages, Exists, Unlocked, Active,
        Terminal, OriginInv, Holds, rowVars, fileVars, webVars, brokerVars,
        revokeVars, workVars
<1>1. ASSUME NEW j \in Jobs, WebStep(j) PROVE OriginInv'
  BY <1>1, WebOrigin
<1>2. ASSUME NEW j \in Jobs, HourPasses(j) PROVE OriginInv'
  BY <1>2 DEF HourPasses
<1>3. ASSUME NEW m \in Messages, BrokerStep(m) PROVE OriginInv'
  BY <1>3, BrokerOrigin
<1>4. ASSUME NEW t \in Ticks, TickFires(t) PROVE OriginInv'
  BY <1>4, TransferJobAssumption DEF TickFires, Publish
<1>5. ASSUME NEW w \in Workers, NEW j \in Jobs, Accept(w, j) PROVE OriginInv'
  BY <1>5 DEF Accept, Loads, Take
<1>6. ASSUME NEW w \in Workers, NEW t \in Ticks, NEW j \in Jobs, AcceptTick(w, t, j) PROVE OriginInv'
  BY <1>6, TransferJobAssumption DEF AcceptTick, Loads, Take
<1>7. ASSUME NEW w \in Workers, NEW m \in Messages, Skip(w, m) PROVE OriginInv'
  BY <1>7 DEF Skip, Take
<1>8. ASSUME NEW w \in Workers, RunStep(w) PROVE OriginInv'
  BY <1>8, RunOrigin
<1>9. ASSUME NEW w \in Workers, Crash(w) PROVE OriginInv'
  BY <1>9 DEF Crash, Free
<1>10. CASE Restart
  BY <1>10 DEF Restart, Free
<1>11. CASE OrphanCleanup
  BY <1>11 DEF OrphanCleanup, Orphans
<1>12. CASE UNCHANGED vars
  BY <1>12 DEF vars
<1> QED
  BY <1>1, <1>2, <1>3, <1>4, <1>5, <1>6, <1>7, <1>8, <1>9, <1>10, <1>11, <1>12
  DEF Next

\* Every step leaves the id of the running task in the row.
LEMMA WebRevocable ==
    ASSUME IInv, OriginInv, RunningIsRevocable, NEW j \in Jobs, WebStep(j)
    PROVE  RunningIsRevocable'
<1> USE DEF IInv, JobInv, TypeOK, LockInv, BornInv, Held, Messages, Exists, Unlocked, Active,
        Terminal, OriginInv, RunningIsRevocable, Holds, rowVars, fileVars, webVars, brokerVars,
        revokeVars, workVars
<1>1. CASE Create(j)
  BY <1>1 DEF Create
<1>2. CASE SendTask(j)
  BY <1>2 DEF SendTask, Publish
<1>3. CASE RecordTaskId(j)
  BY <1>3 DEF RecordTaskId
<1>4. CASE DispatchFails(j)
  BY <1>4 DEF DispatchFails
<1>5. CASE StopBegin(j)
  BY <1>5 DEF StopBegin
<1>6. CASE StopRevoke(j)
  BY <1>6 DEF StopRevoke
<1>7. CASE StopCommit(j)
  BY <1>7 DEF StopCommit
<1>8. CASE StopRollsBack(j)
  BY <1>8 DEF StopRollsBack
<1>9. CASE DeleteCheck(j)
  BY <1>9 DEF DeleteCheck
<1>10. CASE DeleteRow(j)
  BY <1>10 DEF DeleteRow
<1>11. CASE DeleteConnection(j)
  BY <1>11 DEF DeleteConnection
<1> QED BY <1>1, <1>2, <1>3, <1>4, <1>5, <1>6, <1>7, <1>8, <1>9, <1>10, <1>11 DEF WebStep

LEMMA BrokerRevocable ==
    ASSUME IInv, OriginInv, RunningIsRevocable, NEW m \in Messages, BrokerStep(m)
    PROVE  RunningIsRevocable'
<1> USE DEF IInv, JobInv, TypeOK, LockInv, BornInv, Held, Messages, Exists, Unlocked, Active,
        Terminal, OriginInv, RunningIsRevocable, Holds, rowVars, fileVars, webVars, brokerVars,
        revokeVars, workVars
<1>1. CASE Redeliver(m)
  BY <1>1 DEF Redeliver
<1>2. CASE DiscardRevoked(m)
  BY <1>2 DEF DiscardRevoked, Take
<1>3. CASE RevokeArrives(m)
  BY <1>3 DEF RevokeArrives, Free
<1>4. CASE RevokeLost(m)
  BY <1>4 DEF RevokeLost
<1> QED BY <1>1, <1>2, <1>3, <1>4 DEF BrokerStep

LEMMA RunRevocable ==
    ASSUME IInv, OriginInv, RunningIsRevocable, NEW w \in Workers, RunStep(w)
    PROVE  RunningIsRevocable'
<1> USE DEF IInv, JobInv, TypeOK, LockInv, BornInv, Held, Messages, Exists, Unlocked, Active,
        Terminal, OriginInv, RunningIsRevocable, Holds, rowVars, fileVars, webVars, brokerVars,
        revokeVars, workVars
<1>1. CASE MarkRunning(w)
  BY <1>1 DEF MarkRunning, Moves, Steps
<1>2. CASE TransferSucceeds(w)
  BY <1>2 DEF TransferSucceeds, Moves, Steps
<1>3. CASE TransferFails(w)
  BY <1>3 DEF TransferFails, Moves, Steps
<1>4. CASE MarkDone(w)
  BY <1>4 DEF MarkDone, Moves, Steps
<1>5. CASE CleanupSource(w)
  BY <1>5 DEF CleanupSource, Moves, Steps
<1>6. CASE MarkFailed(w)
  BY <1>6 DEF MarkFailed, Moves, Steps
<1>7. CASE Notify(w)
  BY <1>7 DEF Notify, Free
<1>8. CASE NotifyRaises(w)
  BY <1>8 DEF NotifyRaises, Free, Moves, Steps
<1>9. CASE RowGone(w)
  BY <1>9 DEF RowGone, Free
<1> QED BY <1>1, <1>2, <1>3, <1>4, <1>5, <1>6, <1>7, <1>8, <1>9 DEF RunStep

LEMMA NextRevocable == IInv /\ OriginInv /\ RunningIsRevocable /\ [Next]_vars => RunningIsRevocable'
<1> SUFFICES ASSUME IInv, OriginInv, RunningIsRevocable, [Next]_vars PROVE RunningIsRevocable'
  OBVIOUS
<1> USE DEF IInv, JobInv, TypeOK, LockInv, BornInv, Held, Messages, Exists, Unlocked, Active,
        Terminal, OriginInv, RunningIsRevocable, Holds, rowVars, fileVars, webVars, brokerVars,
        revokeVars, workVars
<1>1. ASSUME NEW j \in Jobs, WebStep(j) PROVE RunningIsRevocable'
  BY <1>1, WebRevocable
<1>2. ASSUME NEW j \in Jobs, HourPasses(j) PROVE RunningIsRevocable'
  BY <1>2 DEF HourPasses
<1>3. ASSUME NEW m \in Messages, BrokerStep(m) PROVE RunningIsRevocable'
  BY <1>3, BrokerRevocable
<1>4. ASSUME NEW t \in Ticks, TickFires(t) PROVE RunningIsRevocable'
  BY <1>4, TransferJobAssumption DEF TickFires, Publish
<1>5. ASSUME NEW w \in Workers, NEW j \in Jobs, Accept(w, j) PROVE RunningIsRevocable'
  BY <1>5 DEF Accept, Loads, Take
<1>6. ASSUME NEW w \in Workers, NEW t \in Ticks, NEW j \in Jobs, AcceptTick(w, t, j) PROVE RunningIsRevocable'
  BY <1>6, TransferJobAssumption DEF AcceptTick, Loads, Take
<1>7. ASSUME NEW w \in Workers, NEW m \in Messages, Skip(w, m) PROVE RunningIsRevocable'
  BY <1>7 DEF Skip, Take
<1>8. ASSUME NEW w \in Workers, RunStep(w) PROVE RunningIsRevocable'
  BY <1>8, RunRevocable
<1>9. ASSUME NEW w \in Workers, Crash(w) PROVE RunningIsRevocable'
  BY <1>9 DEF Crash, Free
<1>10. CASE Restart
  BY <1>10 DEF Restart, Free
<1>11. CASE OrphanCleanup
  BY <1>11 DEF OrphanCleanup, Orphans
<1>12. CASE UNCHANGED vars
  BY <1>12 DEF vars
<1> QED
  BY <1>1, <1>2, <1>3, <1>4, <1>5, <1>6, <1>7, <1>8, <1>9, <1>10, <1>11, <1>12
  DEF Next

\* Every step keeps a message that is handed out once from running a job twice.
LEMMA WebOnce ==
    ASSUME IInv, OriginInv, OnceInv, NEW j \in Jobs, WebStep(j)
    PROVE  OnceInv'
<1> USE DEF IInv, JobInv, TypeOK, LockInv, BornInv, Held, Messages, Exists, Unlocked, Active,
        Terminal, OriginInv, OnceInv, Holds, rowVars, fileVars, webVars, brokerVars,
        revokeVars, workVars
<1>1. CASE Create(j)
  BY <1>1 DEF Create
<1>2. CASE SendTask(j)
  BY <1>2 DEF SendTask, Publish
<1>3. CASE RecordTaskId(j)
  BY <1>3 DEF RecordTaskId
<1>4. CASE DispatchFails(j)
  BY <1>4 DEF DispatchFails
<1>5. CASE StopBegin(j)
  BY <1>5 DEF StopBegin
<1>6. CASE StopRevoke(j)
  BY <1>6 DEF StopRevoke
<1>7. CASE StopCommit(j)
  BY <1>7 DEF StopCommit
<1>8. CASE StopRollsBack(j)
  BY <1>8 DEF StopRollsBack
<1>9. CASE DeleteCheck(j)
  BY <1>9 DEF DeleteCheck
<1>10. CASE DeleteRow(j)
  BY <1>10 DEF DeleteRow
<1>11. CASE DeleteConnection(j)
  BY <1>11 DEF DeleteConnection
<1> QED BY <1>1, <1>2, <1>3, <1>4, <1>5, <1>6, <1>7, <1>8, <1>9, <1>10, <1>11 DEF WebStep

LEMMA BrokerOnce ==
    ASSUME IInv, OriginInv, OnceInv, NEW m \in Messages, BrokerStep(m)
    PROVE  OnceInv'
<1> USE DEF IInv, JobInv, TypeOK, LockInv, BornInv, Held, Messages, Exists, Unlocked, Active,
        Terminal, OriginInv, OnceInv, Holds, rowVars, fileVars, webVars, brokerVars,
        revokeVars, workVars
<1>1. CASE Redeliver(m)
  BY <1>1 DEF Redeliver
<1>2. CASE DiscardRevoked(m)
  BY <1>2 DEF DiscardRevoked, Take
<1>3. CASE RevokeArrives(m)
  BY <1>3 DEF RevokeArrives, Free
<1>4. CASE RevokeLost(m)
  BY <1>4 DEF RevokeLost
<1> QED BY <1>1, <1>2, <1>3, <1>4 DEF BrokerStep

LEMMA RunOnce ==
    ASSUME IInv, OriginInv, OnceInv, NEW w \in Workers, RunStep(w)
    PROVE  OnceInv'
<1> USE DEF IInv, JobInv, TypeOK, LockInv, BornInv, Held, Messages, Exists, Unlocked, Active,
        Terminal, OriginInv, OnceInv, Holds, rowVars, fileVars, webVars, brokerVars,
        revokeVars, workVars
<1>1. CASE MarkRunning(w)
  BY <1>1 DEF MarkRunning, Moves, Steps
<1>2. CASE TransferSucceeds(w)
  BY <1>2 DEF TransferSucceeds, Moves, Steps
<1>3. CASE TransferFails(w)
  BY <1>3 DEF TransferFails, Moves, Steps
<1>4. CASE MarkDone(w)
  BY <1>4 DEF MarkDone, Moves, Steps
<1>5. CASE CleanupSource(w)
  BY <1>5 DEF CleanupSource, Moves, Steps
<1>6. CASE MarkFailed(w)
  BY <1>6 DEF MarkFailed, Moves, Steps
<1>7. CASE Notify(w)
  BY <1>7 DEF Notify, Free
<1>8. CASE NotifyRaises(w)
  BY <1>8 DEF NotifyRaises, Free, Moves, Steps
<1>9. CASE RowGone(w)
  BY <1>9 DEF RowGone, Free
<1> QED BY <1>1, <1>2, <1>3, <1>4, <1>5, <1>6, <1>7, <1>8, <1>9 DEF RunStep

LEMMA NextOnce == IInv /\ OriginInv /\ OnceInv /\ [Next]_vars => OnceInv'
<1> SUFFICES ASSUME IInv, OriginInv, OnceInv, [Next]_vars PROVE OnceInv'
  OBVIOUS
<1> USE DEF IInv, JobInv, TypeOK, LockInv, BornInv, Held, Messages, Exists, Unlocked, Active,
        Terminal, OriginInv, OnceInv, Holds, rowVars, fileVars, webVars, brokerVars,
        revokeVars, workVars
<1>1. ASSUME NEW j \in Jobs, WebStep(j) PROVE OnceInv'
  BY <1>1, WebOnce
<1>2. ASSUME NEW j \in Jobs, HourPasses(j) PROVE OnceInv'
  BY <1>2 DEF HourPasses
<1>3. ASSUME NEW m \in Messages, BrokerStep(m) PROVE OnceInv'
  BY <1>3, BrokerOnce
<1>4. ASSUME NEW t \in Ticks, TickFires(t) PROVE OnceInv'
  BY <1>4, TransferJobAssumption DEF TickFires, Publish
<1>5. ASSUME NEW w \in Workers, NEW j \in Jobs, Accept(w, j) PROVE OnceInv'
  <2>1. /\ waiting[j] > 0 /\ waiting' = [waiting EXCEPT ![j] = waiting[j] - 1]
        /\ pc[w] = "idle" /\ pc' = [pc EXCEPT ![w] = "loaded"] /\ job' = [job EXCEPT ![w] = j]
        /\ made' = made /\ status' = status /\ dispatch' = dispatch
    BY <1>5 DEF Accept, Loads, Take
  <2>2. \A k \in Jobs, v \in Workers :
          Holds(v, k)' <=> IF v = w THEN k = j ELSE Holds(v, k)
    BY <2>1
  <2>3. made[j] <= 1 =>
          waiting'[j] = 0 /\ status[j] \notin {"running", "done", "failed"}
          /\ \A v \in Workers : ~Holds(v, j)
    BY <2>1
  <2>4. ASSUME NEW k \in Jobs, made[k] <= 1, k # j
        PROVE  waiting'[k] = waiting[k] /\ \A v \in Workers : Holds(v, k)' => Holds(v, k) /\ pc'[v] = pc[v]
    BY <2>1, <2>2, <2>4
  <2>5. ASSUME NEW k \in Jobs, made'[k] <= 1
        PROVE  /\ \A u, v \in Workers : Holds(u, k)' /\ Holds(v, k)' => u = v
               /\ \A v \in Workers : Holds(v, k)' => waiting'[k] = 0
               /\ status'[k] \in {"running", "done", "failed"} =>
                    /\ waiting'[k] = 0
                    /\ dispatch'[k] # "created"
                    /\ \A v \in Workers : Holds(v, k)' => pc'[v] # "loaded"
    <3> HIDE DEF Holds
    <3>1. CASE k = j
      BY <2>1, <2>2, <2>3, <2>5, <3>1
    <3>2. CASE k # j
      BY <2>1, <2>4, <2>5, <3>2
    <3> QED BY <3>1, <3>2
  <2> HIDE DEF Holds
  <2> QED BY <2>5
<1>6. ASSUME NEW w \in Workers, NEW t \in Ticks, NEW j \in Jobs, AcceptTick(w, t, j) PROVE OnceInv'
  BY <1>6, TransferJobAssumption DEF AcceptTick, Loads, Take
<1>7. ASSUME NEW w \in Workers, NEW m \in Messages, Skip(w, m) PROVE OnceInv'
  BY <1>7 DEF Skip, Take
<1>8. ASSUME NEW w \in Workers, RunStep(w) PROVE OnceInv'
  BY <1>8, RunOnce
<1>9. ASSUME NEW w \in Workers, Crash(w) PROVE OnceInv'
  BY <1>9 DEF Crash, Free
<1>10. CASE Restart
  BY <1>10 DEF Restart, Free
<1>11. CASE OrphanCleanup
  BY <1>11 DEF OrphanCleanup, Orphans
<1>12. CASE UNCHANGED vars
  BY <1>12 DEF vars
<1> QED
  BY <1>1, <1>2, <1>3, <1>4, <1>5, <1>6, <1>7, <1>8, <1>9, <1>10, <1>11, <1>12
  DEF Next

\* Every step keeps what has been told.
LEMMA WebTold ==
    ASSUME IInv, OriginInv, OnceInv, ToldInv, NEW j \in Jobs, WebStep(j)
    PROVE  ToldInv'
<1> USE DEF IInv, JobInv, TypeOK, LockInv, BornInv, Held, Messages, Exists, Unlocked, Active,
        Terminal, OriginInv, OnceInv, ToldInv, Undisturbed, Final, Holds, rowVars, fileVars, webVars, brokerVars,
        revokeVars, workVars
<1>1. CASE Create(j)
  BY <1>1 DEF Create
<1>2. CASE SendTask(j)
  BY <1>2 DEF SendTask, Publish
<1>3. CASE RecordTaskId(j)
  BY <1>3 DEF RecordTaskId
<1>4. CASE DispatchFails(j)
  BY <1>4 DEF DispatchFails
<1>5. CASE StopBegin(j)
  BY <1>5 DEF StopBegin
<1>6. CASE StopRevoke(j)
  BY <1>6 DEF StopRevoke
<1>7. CASE StopCommit(j)
  BY <1>7 DEF StopCommit
<1>8. CASE StopRollsBack(j)
  BY <1>8 DEF StopRollsBack
<1>9. CASE DeleteCheck(j)
  BY <1>9 DEF DeleteCheck
<1>10. CASE DeleteRow(j)
  BY <1>10 DEF DeleteRow
<1>11. CASE DeleteConnection(j)
  BY <1>11 DEF DeleteConnection
<1> QED BY <1>1, <1>2, <1>3, <1>4, <1>5, <1>6, <1>7, <1>8, <1>9, <1>10, <1>11 DEF WebStep

LEMMA BrokerTold ==
    ASSUME IInv, OriginInv, OnceInv, ToldInv, NEW m \in Messages, BrokerStep(m)
    PROVE  ToldInv'
<1> USE DEF IInv, JobInv, TypeOK, LockInv, BornInv, Held, Messages, Exists, Unlocked, Active,
        Terminal, OriginInv, OnceInv, ToldInv, Undisturbed, Final, Holds, rowVars, fileVars, webVars, brokerVars,
        revokeVars, workVars
<1>1. CASE Redeliver(m)
  BY <1>1 DEF Redeliver
<1>2. CASE DiscardRevoked(m)
  BY <1>2 DEF DiscardRevoked, Take
<1>3. CASE RevokeArrives(m)
  BY <1>3 DEF RevokeArrives, Free
<1>4. CASE RevokeLost(m)
  BY <1>4 DEF RevokeLost
<1> QED BY <1>1, <1>2, <1>3, <1>4 DEF BrokerStep

LEMMA RunTold ==
    ASSUME IInv, OriginInv, OnceInv, ToldInv, NEW w \in Workers, RunStep(w)
    PROVE  ToldInv'
<1> USE DEF IInv, JobInv, TypeOK, LockInv, BornInv, Held, Messages, Exists, Unlocked, Active,
        Terminal, OriginInv, OnceInv, ToldInv, Undisturbed, Final, Holds, rowVars, fileVars, webVars, brokerVars,
        revokeVars, workVars
<1>1. CASE MarkRunning(w)
  BY <1>1 DEF MarkRunning, Moves, Steps
<1>2. CASE TransferSucceeds(w)
  BY <1>2 DEF TransferSucceeds, Moves, Steps
<1>3. CASE TransferFails(w)
  BY <1>3 DEF TransferFails, Moves, Steps
<1>4. CASE MarkDone(w)
  BY <1>4 DEF MarkDone, Moves, Steps
<1>5. CASE CleanupSource(w)
  BY <1>5 DEF CleanupSource, Moves, Steps
<1>6. CASE MarkFailed(w)
  BY <1>6 DEF MarkFailed, Moves, Steps
<1>7. CASE Notify(w)
  BY <1>7 DEF Notify, Free
<1>8. CASE NotifyRaises(w)
  BY <1>8 DEF NotifyRaises, Free, Moves, Steps
<1>9. CASE RowGone(w)
  BY <1>9 DEF RowGone, Free
<1> QED BY <1>1, <1>2, <1>3, <1>4, <1>5, <1>6, <1>7, <1>8, <1>9 DEF RunStep

LEMMA NextTold == IInv /\ OriginInv /\ OnceInv /\ ToldInv /\ [Next]_vars => ToldInv'
<1> SUFFICES ASSUME IInv, OriginInv, OnceInv, ToldInv, [Next]_vars PROVE ToldInv'
  OBVIOUS
<1> USE DEF IInv, JobInv, TypeOK, LockInv, BornInv, Held, Messages, Exists, Unlocked, Active,
        Terminal, OriginInv, OnceInv, ToldInv, Undisturbed, Final, Holds, rowVars, fileVars, webVars, brokerVars,
        revokeVars, workVars
<1>1. ASSUME NEW j \in Jobs, WebStep(j) PROVE ToldInv'
  BY <1>1, WebTold
<1>2. ASSUME NEW j \in Jobs, HourPasses(j) PROVE ToldInv'
  BY <1>2 DEF HourPasses
<1>3. ASSUME NEW m \in Messages, BrokerStep(m) PROVE ToldInv'
  BY <1>3, BrokerTold
<1>4. ASSUME NEW t \in Ticks, TickFires(t) PROVE ToldInv'
  BY <1>4, TransferJobAssumption DEF TickFires, Publish
<1>5. ASSUME NEW w \in Workers, NEW j \in Jobs, Accept(w, j) PROVE ToldInv'
  BY <1>5 DEF Accept, Loads, Take
<1>6. ASSUME NEW w \in Workers, NEW t \in Ticks, NEW j \in Jobs, AcceptTick(w, t, j) PROVE ToldInv'
  BY <1>6, TransferJobAssumption DEF AcceptTick, Loads, Take
<1>7. ASSUME NEW w \in Workers, NEW m \in Messages, Skip(w, m) PROVE ToldInv'
  BY <1>7 DEF Skip, Take
<1>8. ASSUME NEW w \in Workers, RunStep(w) PROVE ToldInv'
  BY <1>8, RunTold
<1>9. ASSUME NEW w \in Workers, Crash(w) PROVE ToldInv'
  BY <1>9 DEF Crash, Free
<1>10. CASE Restart
  BY <1>10 DEF Restart, Free
<1>11. CASE OrphanCleanup
  BY <1>11 DEF OrphanCleanup, Orphans
<1>12. CASE UNCHANGED vars
  BY <1>12 DEF vars
<1> QED
  BY <1>1, <1>2, <1>3, <1>4, <1>5, <1>6, <1>7, <1>8, <1>9, <1>10, <1>11, <1>12
  DEF Next

-----------------------------------------------------------------------------
LEMMA InitRuns == Init => RunsInv
<1> SUFFICES ASSUME Init PROVE RunsInv
  OBVIOUS
<1>1. OriginInv /\ RunningIsRevocable
  BY DEF Init, OriginInv, RunningIsRevocable, Messages
<1>2. OnceInv
  BY DEF Init, OnceInv, Holds, Messages
<1>3. ToldInv
  BY DEF Init, ToldInv, Holds
<1> QED BY <1>1, <1>2, <1>3 DEF RunsInv

LEMMA RunsInvariant == Spec => [](IInv /\ RunsInv)
<1>1. IInv /\ RunsInv /\ [Next]_vars => RunsInv'
  BY NextOrigin, NextRevocable, NextOnce, NextTold DEF RunsInv
<1> QED BY <1>1, InitIInv, NextIInv, InitRuns, PTL DEF Spec

\* Copies of a message are made and never unmade.
LEMMA MadeGrows ==
    ASSUME TypeOK, [Next]_vars, NEW m \in Messages
    PROVE  made[m] <= made'[m]
<1> USE DEF TypeOK, Messages, brokerVars
<1>1. ASSUME NEW j \in Jobs, WebStep(j) PROVE made[m] <= made'[m]
  BY <1>1 DEF WebStep, Create, SendTask, RecordTaskId, DispatchFails, StopBegin,
      StopRevoke, StopCommit, StopRollsBack, DeleteCheck, DeleteRow,
      DeleteConnection, Publish
<1>2. ASSUME NEW n \in Messages, BrokerStep(n) PROVE made[m] <= made'[m]
  BY <1>2 DEF BrokerStep, Redeliver, DiscardRevoked, RevokeArrives, RevokeLost, Take
<1>3. ASSUME NEW w \in Workers, RunStep(w) PROVE made[m] <= made'[m]
  BY <1>3 DEF RunStep, MarkRunning, TransferSucceeds, TransferFails, MarkDone, CleanupSource,
     MarkFailed, Notify, NotifyRaises, RowGone
<1>4. ASSUME NEW t \in Ticks, TickFires(t) PROVE made[m] <= made'[m]
  BY <1>4 DEF TickFires, Publish
<1>5. ASSUME NEW w \in Workers, NEW j \in Jobs, Accept(w, j) PROVE made[m] <= made'[m]
  BY <1>5 DEF Accept, Loads, Take
<1>6. ASSUME NEW w \in Workers, NEW t \in Ticks, NEW j \in Jobs, AcceptTick(w, t, j)
      PROVE  made[m] <= made'[m]
  BY <1>6 DEF AcceptTick, Loads, Take
<1>7. ASSUME NEW w \in Workers, NEW n \in Messages, Skip(w, n) PROVE made[m] <= made'[m]
  BY <1>7 DEF Skip, Take
<1>8. ASSUME NEW w \in Workers, Crash(w) PROVE made[m] <= made'[m]
  BY <1>8 DEF Crash
<1>9. ASSUME NEW j \in Jobs, HourPasses(j) PROVE made[m] <= made'[m]
  BY <1>9 DEF HourPasses
<1>10. CASE Restart
  BY <1>10 DEF Restart
<1>11. CASE OrphanCleanup
  BY <1>11 DEF OrphanCleanup
<1>12. CASE UNCHANGED vars
  BY <1>12 DEF vars
<1> QED
  BY <1>1, <1>2, <1>3, <1>4, <1>5, <1>6, <1>7, <1>8, <1>9, <1>10, <1>11, <1>12 DEF Next

\* Only a process that has just loaded the job makes it RUNNING.
LEMMA OnlyLoadedStarts ==
    ASSUME IInv, [Next]_vars, NEW j \in Jobs, status[j] # "running", status'[j] = "running"
    PROVE  \E w \in Workers : Holds(w, j) /\ pc[w] = "loaded"
<1> USE DEF IInv, TypeOK, Holds, rowVars
<1>1. ASSUME NEW k \in Jobs, WebStep(k) PROVE FALSE
  BY <1>1 DEF WebStep, Create, SendTask, RecordTaskId, DispatchFails, StopBegin,
      StopRevoke, StopCommit, StopRollsBack, DeleteCheck, DeleteRow,
      DeleteConnection
<1>2. ASSUME NEW w \in Workers, RunStep(w) PROVE Holds(w, j) /\ pc[w] = "loaded"
  BY <1>2 DEF RunStep, MarkRunning, TransferSucceeds, TransferFails, MarkDone, CleanupSource,
     MarkFailed, Notify, NotifyRaises, RowGone, Moves
<1>3. ASSUME NEW m \in Messages, BrokerStep(m) PROVE FALSE
  BY <1>3 DEF BrokerStep, Redeliver, DiscardRevoked, RevokeArrives, RevokeLost
<1>4. ASSUME NEW t \in Ticks, TickFires(t) PROVE FALSE
  BY <1>4 DEF TickFires
<1>5. ASSUME NEW w \in Workers, NEW k \in Jobs, Accept(w, k) PROVE FALSE
  BY <1>5 DEF Accept
<1>6. ASSUME NEW w \in Workers, NEW t \in Ticks, NEW k \in Jobs, AcceptTick(w, t, k)
      PROVE  FALSE
  BY <1>6 DEF AcceptTick
<1>7. ASSUME NEW w \in Workers, NEW m \in Messages, Skip(w, m) PROVE FALSE
  BY <1>7 DEF Skip
<1>8. ASSUME NEW w \in Workers, Crash(w) PROVE FALSE
  BY <1>8 DEF Crash
<1>9. ASSUME NEW k \in Jobs, HourPasses(k) PROVE FALSE
  BY <1>9 DEF HourPasses
<1>10. CASE Restart
  BY <1>10 DEF Restart
<1>11. CASE OrphanCleanup
  BY <1>11 DEF OrphanCleanup
<1>12. CASE UNCHANGED vars
  BY <1>12 DEF vars
<1> QED
  BY <1>1, <1>2, <1>3, <1>4, <1>5, <1>6, <1>7, <1>8, <1>9, <1>10, <1>11, <1>12 DEF Next

\* Whatever interleaves with mark_running, the row of a job that is being worked on
\* names the task that works on it, so that a stop revokes that task.
THEOREM RunningRevocable == Spec => []RunningIsRevocable
<1>1. RunsInv => RunningIsRevocable
  BY DEF RunsInv
<1> QED BY <1>1, RunsInvariant, PTL

\* Without a redelivery and a crash, execute_transfer tells of jobs only that are
\* DONE, FAILED or deleted by then, and that stay so.
THEOREM ToldFinal == Spec => []ToldIsFinal
<1>1. RunsInv => ToldIsFinal
  BY DEF RunsInv, ToldInv, ToldIsFinal, Final
<1> QED BY <1>1, RunsInvariant, PTL

\* A job whose message is handed out once does not go back to RUNNING after it
\* ended, although mark_running has no condition.
THEOREM NeverRerun == Spec => FinishedNeverRerun
<1>1. ASSUME IInv, RunsInv, [Next]_vars, NEW j \in Jobs,
             status[j] \in {"done", "failed"}, made'[j] <= 1
      PROVE  status'[j] # "running"
  <2>0. j \in Messages /\ TypeOK /\ TypeOK'
    BY <1>1, NextTypeOK DEF IInv, Messages
  <2>1. made[j] <= 1
    <3>1. made[j] \in Nat /\ made'[j] \in Nat
      BY <2>0 DEF TypeOK
    <3> QED BY <1>1, <2>0, <3>1, MadeGrows
  <2>2. \A w \in Workers : ~(Holds(w, j) /\ pc[w] = "loaded")
    BY <1>1, <2>1 DEF RunsInv, OnceInv
  <2> QED BY <1>1, <2>2, OnlyLoadedStarts
<1>2. IInv /\ RunsInv /\ [Next]_vars =>
        [\A j \in Jobs : status[j] \in {"done", "failed"} /\ made'[j] <= 1
                           => status'[j] # "running"]_vars
  BY <1>1
<1> QED BY <1>2, RunsInvariant, PTL DEF Spec, FinishedNeverRerun

=============================================================================
