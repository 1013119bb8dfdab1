--------------------------- MODULE ConnectionsProofs ---------------------------
(***************************************************************************)
(* Proofs about Connections, for any number of notifications, processes,   *)
(* retries, checks, edits and imports: the circuit breaker, the last word  *)
(* on a connection's health, the audit log of its edits, the completeness  *)
(* of an import, and the types of all of them side by side.  At the end,   *)
(* the panel: these and the accounts.                                      *)
(***************************************************************************)
EXTENDS Panel, AccountsProofs, FiniteSetTheorems, TLAPS

-----------------------------------------------------------------------------
(***************************************************************************)
(* The delivery to the webhook, on any number of processes (WebhookCircuit).*)
(***************************************************************************)

LEMMA CircuitInitType == CircuitInit => CircuitTypeOK
BY WebhookCircuitAssumption DEF CircuitInit, CircuitTypeOK, Times, TaskSteps, Kinds

\* A step of a task keeps the types.
LEMMA CircuitStepType ==
    ASSUME CircuitTypeOK, NEW t \in Tasks, Step(t)
    PROVE  CircuitTypeOK'
<1> USE WebhookCircuitAssumption DEF CircuitTypeOK, Times, TaskSteps, Kinds, Goes, Log, Begins
<1>1. CASE Load(t) BY <1>1 DEF Load, Busy
<1>2. CASE SkipDelivery(t) BY <1>2 DEF SkipDelivery
<1>3. CASE NoDelivery(t) BY <1>3 DEF NoDelivery
<1>4. CASE Post(t) BY <1>4 DEF Post
<1>5. CASE RecordFailure(t) BY <1>5 DEF RecordFailure
<1>6. CASE Retry(t)
  <2>1. log' \in [Kinds -> Nat]
    BY <1>6 DEF Retry
  <2>2. pc' \in [Tasks -> TaskSteps]
    BY <1>6 DEF Retry
  <2>3. retries' \in [Tasks -> 0 .. MaxRetries]
    <3>1. CASE retries' = retries
      BY <3>1
    <3>2. CASE retries[t] < MaxRetries /\ retries' = [retries EXCEPT ![t] = @ + 1]
      BY <3>2
    <3> QED BY <1>6, <3>1, <3>2 DEF Retry
  <2> QED BY <1>6, <2>1, <2>2, <2>3 DEF Retry
<1>7. CASE RecordSuccess(t) BY <1>7 DEF RecordSuccess
<1>8. CASE LogSuccess(t) BY <1>8 DEF LogSuccess
<1> QED BY <1>1, <1>2, <1>3, <1>4, <1>5, <1>6, <1>7, <1>8 DEF Step

LEMMA CircuitNextType == CircuitTypeOK /\ [CircuitNext]_circuitVars => CircuitTypeOK'
<1> SUFFICES ASSUME CircuitTypeOK, [CircuitNext]_circuitVars PROVE CircuitTypeOK'
  OBVIOUS
<1>1. CASE Tick
  BY <1>1, WebhookCircuitAssumption DEF Tick, CircuitTypeOK, Times
<1>2. CASE UNCHANGED circuitVars
  BY <1>2 DEF circuitVars, CircuitTypeOK
<1> QED BY <1>1, <1>2, CircuitStepType DEF CircuitNext

\* Every column, counter and copy keeps its type; the clock is bounded by MaxTime.
THEOREM CircuitTypes == CircuitSpec => []CircuitTypeOK
BY CircuitInitType, CircuitNextType, PTL DEF CircuitSpec

-----------------------------------------------------------------------------
(***************************************************************************)
(* The inductive invariant says of every copy what CountIsEarned says of   *)
(* the row: that its count does not run ahead of the failures, and that it *)
(* tells an open circuit only if there were CircuitThreshold of them.  It is kept *)
(* since the failures never become fewer.                                  *)
(***************************************************************************)
Failed == {t \in Tasks : pc[t] = "failed"}

Earned(n, u) == n <= Failures /\ (u > 0 => Failures >= CircuitThreshold)

CircuitInv ==
    /\ CircuitTypeOK
    /\ Earned(count, until)
    /\ \A t \in Tasks : Earned(copy[t].count, copy[t].until)

\* What has failed is finite, so the failures are a number.
LEMMA FailuresType ==
    ASSUME CircuitTypeOK
    PROVE  IsFiniteSet(Failed) /\ Cardinality(Failed) \in Nat /\ Failures \in Nat
           /\ Failures = log["failure"] + Cardinality(Failed)
<1>1. Failed \in SUBSET Tasks
  BY DEF Failed
<1>2. IsFiniteSet(Failed) /\ Cardinality(Failed) \in Nat
  BY <1>1, FS_Subset, FS_CardinalityType, WebhookCircuitAssumption DEF Tasks
<1> QED BY <1>2 DEF CircuitTypeOK, Failures, Failed, Kinds

\* A failure that is recorded counts once, also when it is logged later.
LEMMA FailuresGrow ==
    ASSUME CircuitTypeOK, NEW t \in Tasks, Step(t)
    PROVE  /\ Failures' >= Failures
           /\ RecordFailure(t) => Failures' = Failures + 1
<1>0. CircuitTypeOK' /\ Failures \in Nat /\ Failures' \in Nat
  <2>1. CircuitTypeOK'
    BY CircuitStepType
  <2>2. Failed' \in SUBSET Tasks
    BY DEF Failed
  <2>3. Cardinality(Failed') \in Nat
    BY <2>2, FS_Subset, FS_CardinalityType, WebhookCircuitAssumption DEF Tasks
  <2> QED BY <2>1, <2>3, FailuresType DEF CircuitTypeOK, Failures, Failed, Kinds
<1>1. ASSUME Failed' = Failed, log'["failure"] = log["failure"]
      PROVE  Failures' = Failures
  BY <1>1 DEF Failures, Failed
<1>2. CASE RecordFailure(t)
  <2>1. Failed' = Failed \cup {t} /\ t \notin Failed /\ log' = log
    BY <1>2 DEF RecordFailure, Goes, Failed, CircuitTypeOK
  <2>2. Cardinality(Failed') = Cardinality(Failed) + 1
    BY <2>1, FailuresType, FS_AddElement
  <2>3. Failures' = log'["failure"] + Cardinality(Failed')
    BY DEF Failures, Failed
  <2> QED BY <2>1, <2>2, <2>3, FailuresType DEF CircuitTypeOK, Kinds
<1>3. CASE Retry(t)
  <2>1. Failed' = Failed \ {t} /\ t \in Failed /\ log'["failure"] = log["failure"] + 1
    BY <1>3 DEF Retry, Goes, Log, Failed, CircuitTypeOK, Kinds
  <2>2. Cardinality(Failed') = Cardinality(Failed) - 1
    BY <2>1, FailuresType, FS_RemoveElement
  <2>3. Failures' = log'["failure"] + Cardinality(Failed')
    BY DEF Failures, Failed
  <2>4. ~RecordFailure(t)
    BY <1>3 DEF RecordFailure, Retry, Goes
  <2> QED BY <2>1, <2>2, <2>3, <2>4, FailuresType DEF CircuitTypeOK, Kinds
<1>4. CASE Load(t) \/ SkipDelivery(t) \/ NoDelivery(t) \/ Post(t)
             \/ RecordSuccess(t) \/ LogSuccess(t)
  <2>1. Failed' = Failed /\ log'["failure"] = log["failure"]
    BY <1>4 DEF Load, SkipDelivery, NoDelivery, Post, RecordSuccess, LogSuccess,
         Goes, Log, Failed, CircuitTypeOK, Kinds
  <2>2. ~RecordFailure(t)
    BY <1>4 DEF Load, SkipDelivery, NoDelivery, Post, RecordSuccess, LogSuccess,
         Goes, RecordFailure, Begins, CircuitTypeOK
  <2> QED BY <1>0, <1>1, <2>1, <2>2
<1> QED BY <1>2, <1>3, <1>4 DEF Step

LEMMA StepCircuitInv ==
    ASSUME CircuitInv, NEW t \in Tasks, Step(t)
    PROVE  CircuitInv'
<1>1. CircuitTypeOK' /\ CircuitTypeOK
  BY CircuitStepType DEF CircuitInv
<1>2. Failures \in Nat /\ Failures' \in Nat /\ Failures' >= Failures
  <2>1. Failed' \in SUBSET Tasks
    BY DEF Failed
  <2>2. Cardinality(Failed') \in Nat
    BY <2>1, FS_Subset, FS_CardinalityType, WebhookCircuitAssumption DEF Tasks
  <2> QED BY <1>1, <2>2, FailuresType, FailuresGrow DEF CircuitTypeOK, Failures, Failed, Kinds
<1>3. ASSUME NEW n \in Nat, NEW u \in Times, Earned(n, u)
      PROVE  n <= Failures' /\ (u > 0 => Failures' >= CircuitThreshold)
  BY <1>2, <1>3, WebhookCircuitAssumption DEF Earned, Times
<1>4. /\ count \in Nat /\ until \in Times
      /\ \A s \in Tasks : copy[s].count \in Nat /\ copy[s].until \in Times
  BY <1>1 DEF CircuitTypeOK
<1>5. CASE RecordFailure(t)
  <2>1. Failures' = Failures + 1
    BY <1>1, <1>5, FailuresGrow
  <2>2. copy' = copy /\ count' = copy[t].count + 1
    BY <1>5 DEF RecordFailure
  <2>3. count' <= Failures'
    BY <1>2, <1>4, <2>1, <2>2 DEF CircuitInv, Earned
  <2>4. until' > 0 => Failures' >= CircuitThreshold
    <3>1. CASE count' >= CircuitThreshold
      BY <1>2, <1>4, <2>2, <2>3, <3>1, WebhookCircuitAssumption
    <3>2. CASE ~(count' >= CircuitThreshold)
      BY <1>3, <1>4, <1>5, <3>2 DEF RecordFailure, CircuitInv
    <3> QED BY <3>1, <3>2
  <2>5. \A s \in Tasks : Earned(copy[s].count, copy[s].until)'
    BY <1>3, <1>4, <2>2 DEF CircuitInv, Earned
  <2> QED BY <1>1, <2>3, <2>4, <2>5 DEF CircuitInv, Earned
<1>6. CASE Load(t)
  <2>1. /\ count' = count /\ until' = until
        /\ \A s \in Tasks :
             \/ copy'[s].count = copy[s].count /\ copy'[s].until = copy[s].until
             \/ copy'[s].count = count /\ copy'[s].until = until
    BY <1>1, <1>6 DEF Load, CircuitTypeOK
  <2> QED BY <1>1, <1>3, <1>4, <2>1 DEF CircuitInv, Earned
<1>7. CASE SkipDelivery(t) \/ NoDelivery(t) \/ Post(t) \/ Retry(t) \/ RecordSuccess(t)
             \/ LogSuccess(t)
  <2>1. /\ copy' = copy
        /\ \/ count' = count /\ until' = until
           \/ count' = 0 /\ until' = 0
    BY <1>7 DEF SkipDelivery, NoDelivery, Post, Retry, RecordSuccess, LogSuccess
  <2> QED BY <1>1, <1>2, <1>3, <1>4, <2>1 DEF CircuitInv, Earned
<1> QED BY <1>5, <1>6, <1>7 DEF Step

\* However many tasks share stale copies of the user's row, the failure counter
\* never runs ahead of the failures that happened, and record_failure opens the
\* circuit only after CircuitThreshold of them.
THEOREM CountEarned == CircuitSpec => []CountIsEarned
<1>1. CircuitInit => CircuitInv
  <2> SUFFICES ASSUME CircuitInit PROVE CircuitInv
    OBVIOUS
  <2>1. CircuitTypeOK /\ Failures \in Nat
    BY CircuitInitType, FailuresType
  <2> QED BY <2>1 DEF CircuitInit, CircuitInv, Earned
<1>2. CircuitInv /\ [CircuitNext]_circuitVars => CircuitInv'
  <2> SUFFICES ASSUME CircuitInv, [CircuitNext]_circuitVars PROVE CircuitInv'
    OBVIOUS
  <2>1. CircuitTypeOK'
    BY CircuitNextType DEF CircuitInv
  <2>2. CASE Tick
    BY <2>1, <2>2 DEF Tick, CircuitInv, Earned, Failures
  <2>3. CASE UNCHANGED circuitVars
    BY <2>1, <2>3 DEF circuitVars, CircuitInv, Earned, Failures
  <2> QED BY <2>2, <2>3, StepCircuitInv DEF CircuitNext
<1>3. CircuitInv => CountIsEarned
  BY DEF CircuitInv, Earned, CountIsEarned
<1> QED BY <1>1, <1>2, <1>3, PTL DEF CircuitSpec

-----------------------------------------------------------------------------
(***************************************************************************)
(* The circuit breaker of the page.                                        *)
(***************************************************************************)

\* Two tasks at work are beside each other, and the copy of one that had no other
\* beside it is still the row, in which it has found the circuit closed.
AloneInv ==
    /\ CircuitTypeOK
    /\ \A s, t \in Busy : s # t => s \in beside
    /\ \A t \in Tasks \ beside :
         pc[t] \in {"posting", "failing", "sent"} =>
             copy[t] = [count |-> count, until |-> until] /\ until <= now

\* A task begins alone or makes all at work beside each other, and whoever writes the
\* row has every other one at work beside it.
LEMMA StepAloneInv ==
    ASSUME AloneInv, NEW t \in Tasks, Step(t)
    PROVE  AloneInv'
<1>0. CircuitTypeOK /\ CircuitTypeOK'
  BY CircuitStepType DEF AloneInv
<1>1. CASE Load(t)
  <2>1. /\ pc[t] = "queued" /\ pc' = [pc EXCEPT ![t] = "posting"]
        /\ copy' = [copy EXCEPT ![t] = [count |-> count, until |-> until]]
        /\ count' = count /\ until' = until /\ now' = now /\ until <= now
        /\ beside' = IF Busy = {} THEN beside \ {t} ELSE beside \cup Busy \cup {t}
    BY <1>0, <1>1 DEF Load, Goes, Open, CircuitTypeOK, Times
  <2>2. Busy' = Busy \cup {t} /\ t \notin Busy
    BY <1>0, <2>1 DEF Busy, CircuitTypeOK
  <2>3. \A s, u \in Busy' : s # u => s \in beside'
    BY <2>1, <2>2
  <2>4. ASSUME NEW u \in Tasks \ beside', pc'[u] \in {"posting", "failing", "sent"}
        PROVE  copy'[u] = [count |-> count', until |-> until'] /\ until' <= now'
    <3>1. CASE u = t
      BY <1>0, <2>1, <3>1 DEF CircuitTypeOK
    <3>2. CASE u # t
      <4>1. pc'[u] = pc[u] /\ copy'[u] = copy[u]
        BY <1>0, <2>1, <3>2 DEF CircuitTypeOK
      <4>2. u \in Busy
        BY <2>4, <4>1 DEF Busy
      <4>3. u \notin beside
        BY <2>1, <3>2
      <4> QED BY <2>1, <2>4, <4>1, <4>3 DEF AloneInv
    <3> QED BY <3>1, <3>2
  <2> QED BY <1>0, <2>3, <2>4 DEF AloneInv
<1>2. ASSUME pc'[t] \in {"queued", "recorded", "failed", "over"},
             \A u \in Tasks : u # t => pc'[u] = pc[u],
             copy' = copy, beside' = beside, now' = now,
             pc[t] \in {"queued", "over"} =>
               pc'[t] \in {"queued", "over"} /\ count' = count /\ until' = until
      PROVE  AloneInv'
  <2>1. Busy' \subseteq Busy
    BY <1>2 DEF Busy
  <2>2. ASSUME NEW u \in Tasks \ beside, pc'[u] \in {"posting", "failing", "sent"}
        PROVE  copy[u] = [count |-> count', until |-> until'] /\ until' <= now
    <3>1. u # t /\ pc[u] = pc'[u] /\ u \in Busy
      BY <1>2, <2>2 DEF Busy
    <3>2. t \notin Busy
      BY <2>2, <3>1 DEF AloneInv
    <3>3. count' = count /\ until' = until
      BY <1>2, <3>2 DEF Busy
    <3> QED BY <2>2, <3>1, <3>3 DEF AloneInv
  <2> QED BY <1>0, <1>2, <2>1, <2>2 DEF AloneInv
<1>3. CASE SkipDelivery(t) \/ NoDelivery(t)
  BY <1>0, <1>2, <1>3 DEF SkipDelivery, NoDelivery, Goes, CircuitTypeOK
<1>4. CASE Post(t)
  <2>1. /\ pc[t] = "posting" /\ pc'[t] \in {"sent", "failing"}
        /\ \A u \in Tasks : u # t => pc'[u] = pc[u]
        /\ UNCHANGED <<count, until, now, copy, beside>>
    BY <1>0, <1>4 DEF Post, Goes, CircuitTypeOK
  <2>2. Busy' = Busy
    BY <2>1 DEF Busy
  <2> QED BY <1>0, <2>1, <2>2 DEF AloneInv
<1>5. CASE RecordFailure(t) \/ Retry(t) \/ RecordSuccess(t) \/ LogSuccess(t)
  BY <1>0, <1>2, <1>5 DEF RecordFailure, Retry, RecordSuccess, LogSuccess, Goes, CircuitTypeOK
<1> QED BY <1>1, <1>3, <1>4, <1>5 DEF Step

LEMMA AloneInvariant == CircuitSpec => []AloneInv
<1>1. CircuitInit => AloneInv
  BY CircuitInitType DEF CircuitInit, AloneInv, Busy
<1>2. AloneInv /\ [CircuitNext]_circuitVars => AloneInv'
  <2> SUFFICES ASSUME AloneInv, [CircuitNext]_circuitVars PROVE AloneInv'
    OBVIOUS
  <2>0. CircuitTypeOK /\ CircuitTypeOK'
    BY CircuitNextType DEF AloneInv
  <2>1. CASE Tick
    BY <2>0, <2>1 DEF Tick, AloneInv, CircuitTypeOK, Times, Busy
  <2>2. CASE UNCHANGED circuitVars
    BY <2>0, <2>2 DEF circuitVars, AloneInv, Busy
  <2> QED BY <2>1, <2>2, StepAloneInv DEF CircuitNext
<1> QED BY <1>1, <1>2, PTL DEF CircuitSpec

\* A task that works alone writes what the circuit breaker of the page would.
LEMMA StepFollows ==
    ASSUME AloneInv, NEW t \in Tasks, Step(t)
    PROVE  \/ Breaker!Next \/ \E u \in beside : pc'[u] # pc[u]
           \/ UNCHANGED <<count, until, now>>
<1>0. CircuitTypeOK
  BY DEF AloneInv
<1>1. CASE RecordFailure(t) \/ RecordSuccess(t)
  <2>1. pc[t] \in {"failing", "sent"} /\ pc'[t] # pc[t]
    BY <1>0, <1>1 DEF RecordFailure, RecordSuccess, Goes, CircuitTypeOK
  <2>2. CASE t \in beside
    BY <2>1, <2>2
  <2>3. CASE t \notin beside
    <3>1. /\ copy[t] = [count |-> count, until |-> until] /\ until <= now
          /\ until \in Nat /\ now \in Nat
      BY <1>0, <2>1, <2>3, WebhookCircuitAssumption DEF AloneInv, CircuitTypeOK, Times
    <3>2. CASE RecordFailure(t)
      BY <3>1, <3>2 DEF RecordFailure, Breaker!Next, Breaker!Fail, Breaker!Suspended
    <3>3. CASE RecordSuccess(t)
      BY <3>1, <3>3 DEF RecordSuccess, Breaker!Next, Breaker!Succeed, Breaker!Suspended
    <3> QED BY <1>1, <3>2, <3>3
  <2> QED BY <2>2, <2>3
<1>2. CASE Load(t) \/ SkipDelivery(t) \/ NoDelivery(t) \/ Post(t) \/ Retry(t) \/ LogSuccess(t)
  BY <1>2 DEF Load, SkipDelivery, NoDelivery, Post, Retry, LogSuccess
<1> QED BY <1>1, <1>2 DEF Step

\* On any number of processes, whatever a task writes that had no other at work beside
\* it is a step of the circuit breaker of the page: the count is that of the failures
\* in a row, the circuit opens at the threshold, and nothing is recorded while
\* deliveries are suspended (record_failure, record_success).
THEOREM BreakerFollowed == CircuitSpec => FollowsBreaker
<1>1. CircuitInit => Breaker!Init
  BY DEF CircuitInit, Breaker!Init
<1>2. AloneInv /\ [CircuitNext]_circuitVars =>
        [Breaker!Next \/ \E t \in beside : pc'[t] # pc[t]]_<<count, until, now>>
  <2> SUFFICES ASSUME AloneInv, [CircuitNext]_circuitVars
               PROVE  \/ Breaker!Next \/ \E t \in beside : pc'[t] # pc[t]
                      \/ UNCHANGED <<count, until, now>>
    OBVIOUS
  <2>1. CASE Tick
    BY <2>1 DEF Tick, Breaker!Next, Breaker!TimePasses
  <2>2. CASE UNCHANGED circuitVars
    BY <2>2 DEF circuitVars
  <2> QED BY <2>1, <2>2, StepFollows DEF CircuitNext
<1> QED
  BY <1>1, <1>2, AloneInvariant, PTL DEF CircuitSpec, FollowsBreaker

-----------------------------------------------------------------------------
(***************************************************************************)
(* The health check of a connection.                                       *)
(***************************************************************************)

\* Each module that is instantiated counts alike.
LEMMA SameCount == ASSUME NEW S PROVE P!Cardinality(S) = Cardinality(S)
BY DEF P!Cardinality, Cardinality

CheckRow == [step : {"idle", "testing", "saved"}, old : H!Health, new : H!Health]

\* The status that a channel has been told last once the queue is empty.
LastNews(ch) ==
    IF notices["failed"] > 0 THEN "failed" ELSE IF notices["ok"] > 0 THEN "ok" ELSE told[ch]

AgreesWith(status) == \A ch \in H!Channels : LastNews(ch) = "failed" <=> status = "failed"

\* While nothing that LastWordIsTrue excepts has happened: one check works at a
\* time, on the row as it is, and the channels lag behind by what it has seen
\* change; a request that edits has no check beside it; one notice waits at most.
OneAtWork ==
    /\ \A c, d \in Checks : check[c].step # "idle" /\ check[d].step # "idle" => c = d
    /\ editing # "none" => ~H!Checking
    /\ notices["failed"] + notices["ok"] <= 1

RowIsTold ==
    conn # "gone" =>
      /\ editing # "none" => editing = conn
      /\ \A c \in Checks :
           /\ check[c].step = "testing" => check[c].old = conn
           /\ check[c].step = "saved" => check[c].new = conn /\ AgreesWith(check[c].old)
      /\ (\A c \in Checks : check[c].step # "saved") => AgreesWith(conn)

HealthInv ==
    /\ H!TypeOK
    /\ \A c \in Checks : check[c].step = "saved" => check[c].new \in {"ok", "failed"}
    /\ ~upset => OneAtWork /\ RowIsTold

\* A check that goes on is one, and leaves the others alone.
LEMMA CheckTypes ==
    ASSUME H!TypeOK
    PROVE  /\ H!NoCheck \in CheckRow /\ H!NoCheck.step = "idle"
           /\ \A c \in Checks : check[c] \in CheckRow
           /\ \A c \in Checks, r \in CheckRow :
                /\ [check EXCEPT ![c] = r] \in [Checks -> CheckRow]
                /\ [check EXCEPT ![c] = r][c] = r
                /\ \A d \in Checks : d # c => [check EXCEPT ![c] = r][d] = check[d]
BY DEF H!TypeOK, CheckRow, H!NoCheck, H!Health

LEMMA HealthInit == H!Init => HealthInv
<1> SUFFICES ASSUME H!Init PROVE HealthInv
  OBVIOUS
<1>1. H!NoCheck.step = "idle"
  BY DEF H!NoCheck
<1>2. \A c \in Checks : check[c].step = "idle"
  BY <1>1 DEF H!Init
<1>3. H!TypeOK
  <2>1. H!NoCheck \in CheckRow
    BY DEF H!NoCheck, CheckRow, H!Health
  <2>2. check \in [Checks -> CheckRow]
    BY <2>1 DEF H!Init
  <2>3. notices \in [{"failed", "ok"} -> 0 .. MaxNotices]
    BY ConnectionsAssumption DEF H!Init
  <2>4. told \in [H!Channels -> H!Health]
    BY DEF H!Init, H!Health
  <2> QED BY <2>2, <2>3, <2>4 DEF H!Init, H!TypeOK, H!Health, CheckRow
<1>4. OneAtWork
  BY <1>2 DEF H!Init, OneAtWork
<1>5. RowIsTold
  <2>1. \A ch \in H!Channels : LastNews(ch) = "unknown"
    BY DEF H!Init, LastNews
  <2>2. AgreesWith(conn)
    BY <2>1 DEF H!Init, AgreesWith
  <2> QED BY <1>2, <2>2 DEF H!Init, RowIsTold
<1> QED BY <1>2, <1>3, <1>4, <1>5 DEF HealthInv

LEMMA CheckLoadsInv ==
    ASSUME HealthInv, NEW c \in Checks, H!CheckLoads(c)
    PROVE  HealthInv'
<1> DEFINE r == [check[c] EXCEPT !.step = "testing", !.old = conn]
<1>1. r \in CheckRow /\ r.step = "testing" /\ r.old = conn
  <2>1. check[c] \in CheckRow /\ conn \in H!Health
    BY CheckTypes DEF HealthInv, H!TypeOK, H!CheckLoads
  <2> QED BY <2>1 DEF CheckRow
<1>2. check' = [check EXCEPT ![c] = r]
  BY DEF H!CheckLoads, HealthInv, H!TypeOK
<1> HIDE DEF r
<1>3. check' \in [Checks -> CheckRow] /\ check'[c] = r
      /\ \A d \in Checks : d # c => check'[d] = check[d]
  BY <1>1, <1>2, CheckTypes DEF HealthInv
<1>4. H!TypeOK'
  BY <1>3 DEF H!CheckLoads, H!Upset, HealthInv, H!TypeOK, CheckRow, H!Checking
<1>5. ~upset' => (OneAtWork /\ RowIsTold)'
  BY <1>1, <1>3 DEF H!CheckLoads, H!Upset, HealthInv, OneAtWork, RowIsTold, AgreesWith,
                    LastNews, H!Checking, H!TypeOK, H!Health
<1> QED BY <1>1, <1>3, <1>4, <1>5 DEF HealthInv

LEMMA SaveHealthInv ==
    ASSUME HealthInv, NEW c \in Checks, NEW new \in {"ok", "failed"}, H!SaveHealth(c, new)
    PROVE  HealthInv'
<1> DEFINE r == [check[c] EXCEPT !.step = "saved", !.new = new]
<1>1. r \in CheckRow /\ r.step = "saved" /\ r.new = new /\ r.old = check[c].old
  <2>1. check[c] \in CheckRow /\ new \in H!Health
    BY CheckTypes DEF HealthInv, H!Health
  <2> QED BY <2>1 DEF CheckRow
<1>2. \/ conn = "gone" /\ conn' = conn /\ check' = [check EXCEPT ![c] = H!NoCheck]
      \/ conn # "gone" /\ conn' = new /\ check' = [check EXCEPT ![c] = r]
  BY DEF H!SaveHealth, HealthInv, H!TypeOK
<1> HIDE DEF r
<1>3. H!TypeOK'
  BY <1>1, <1>2, CheckTypes DEF H!SaveHealth, HealthInv, H!TypeOK, CheckRow, H!Health
<1>4. CASE conn = "gone"
  <2>1. check'[c] = H!NoCheck /\ \A d \in Checks : d # c => check'[d] = check[d]
    BY <1>2, <1>4, CheckTypes DEF HealthInv
  <2> QED
    BY <1>2, <1>3, <1>4, <2>1, CheckTypes
    DEF H!SaveHealth, HealthInv, OneAtWork, RowIsTold, H!Checking
<1>5. CASE conn # "gone"
  <2>1. check'[c] = r /\ \A d \in Checks : d # c => check'[d] = check[d]
    BY <1>1, <1>2, <1>5, CheckTypes DEF HealthInv
  <2>2. ~upset => \A d \in Checks : d # c => check[d].step = "idle"
    BY CheckTypes DEF HealthInv, OneAtWork, H!SaveHealth, CheckRow
  <2>3. ~upset => (OneAtWork /\ RowIsTold)'
    BY <1>1, <1>2, <1>5, <2>1, <2>2
    DEF H!SaveHealth, HealthInv, OneAtWork, RowIsTold, AgreesWith, LastNews, H!Checking
  <2> QED BY <1>1, <1>3, <2>1, <2>3 DEF HealthInv, H!SaveHealth
<1> QED BY <1>4, <1>5

LEMMA PublishInv ==
    ASSUME HealthInv, NEW c \in Checks, H!Publish(c)
    PROVE  HealthInv'
<1>1. /\ check' \in [Checks -> CheckRow] /\ check'[c] = H!NoCheck
      /\ \A d \in Checks : d # c => check'[d] = check[d]
  BY CheckTypes DEF H!Publish, HealthInv
<1>2. check[c].new \in {"ok", "failed"} /\ check[c].step = "saved"
  BY DEF HealthInv, H!Publish
<1>3. H!TypeOK'
  <2>1. notices' \in [{"failed", "ok"} -> 0 .. MaxNotices]
    BY <1>2, ConnectionsAssumption DEF H!Publish, HealthInv, H!TypeOK
  <2>2. upset' \in BOOLEAN
    BY DEF H!Publish, HealthInv, H!TypeOK, H!Upset
  <2> QED BY <1>1, <2>1, <2>2 DEF H!Publish, HealthInv, H!TypeOK, CheckRow
<1>4. ~upset => \A d \in Checks : d # c => check[d].step = "idle"
  BY <1>2 DEF HealthInv, OneAtWork
<1>5. ~upset' => (OneAtWork /\ RowIsTold)'
  <2> SUFFICES ASSUME ~upset' PROVE (OneAtWork /\ RowIsTold)'
    OBVIOUS
  <2>0. \A d \in Checks : check'[d].step = "idle"
    BY <1>1, <1>4, CheckTypes DEF HealthInv, H!Publish, H!Upset
  <2>1. /\ conn' = conn /\ editing' = editing /\ told' = told /\ ~upset
        /\ OneAtWork /\ RowIsTold /\ editing = "none"
    BY <1>2 DEF H!Publish, H!Upset, HealthInv, OneAtWork, H!Checking
  <2>2. conn # "gone" => conn = check[c].new /\ AgreesWith(check[c].old)
    BY <1>2, <2>1 DEF RowIsTold
  <2>3. CASE H!Transition(c)
    <3>1. /\ notices["failed"] = 0 /\ notices["ok"] = 0
          /\ notices' = [notices EXCEPT ![check[c].new] = @ + 1]
      <4>1. ~H!Waiting /\ notices' = [notices EXCEPT ![check[c].new] = @ + 1]
        BY <2>3 DEF H!Publish, H!Upset
      <4>2. DOMAIN notices = {"failed", "ok"} /\ notices["failed"] \in Nat /\ notices["ok"] \in Nat
        BY ConnectionsAssumption DEF HealthInv, H!TypeOK
      <4> QED BY <4>1, <4>2 DEF H!Waiting
    <3>2. /\ notices'["failed"] + notices'["ok"] <= 1
          /\ \A ch \in H!Channels : LastNews(ch)' = check[c].new
      BY <1>2, <3>1 DEF LastNews, HealthInv, H!TypeOK
    <3> QED BY <2>0, <2>1, <2>2, <3>2 DEF OneAtWork, RowIsTold, AgreesWith
  <2>4. CASE ~H!Transition(c)
    <3>1. notices' = notices /\ (check[c].old = "failed" <=> check[c].new = "failed")
      BY <2>4 DEF H!Publish, H!Transition
    <3> QED BY <2>0, <2>1, <2>2, <3>1 DEF OneAtWork, RowIsTold, AgreesWith, LastNews
  <2> QED BY <2>3, <2>4
<1> QED BY <1>1, <1>3, <1>5, CheckTypes DEF HealthInv

\* The other steps leave the checks alone.
LEMMA OtherHealthInv ==
    ASSUME HealthInv,
           \/ \E c \in Checks : H!CheckLost(c)
           \/ \E s \in {"ok", "failed"}, r \in SUBSET H!Channels : H!SendNotice(s, r)
           \/ H!LoadCopy \/ H!SaveCopy \/ H!Delete \/ UNCHANGED H!vars
    PROVE  HealthInv'
<1>1. ASSUME NEW c \in Checks, H!CheckLost(c) PROVE HealthInv'
  <2>1. /\ check' \in [Checks -> CheckRow] /\ check'[c] = H!NoCheck
        /\ \A d \in Checks : d # c => check'[d] = check[d]
    BY <1>1, CheckTypes DEF H!CheckLost, HealthInv
  <2> QED
    BY <1>1, <2>1, CheckTypes DEF H!CheckLost, HealthInv, H!TypeOK, CheckRow, H!Upset
<1> USE DEF HealthInv, OneAtWork, RowIsTold, AgreesWith, LastNews, H!Checking, H!TypeOK, H!Health
<1>2. ASSUME NEW s \in {"ok", "failed"}, NEW r \in SUBSET H!Channels, H!SendNotice(s, r)
      PROVE  HealthInv'
  <2>1. H!TypeOK'
    BY <1>2, ConnectionsAssumption DEF H!SendNotice, H!Upset, H!Channels
  <2>2. CASE r # H!Channels
    BY <1>2, <2>1, <2>2 DEF H!SendNotice, H!Upset
  <2>3. CASE r = H!Channels
    <3>1. conn # "gone" => \A ch \in H!Channels : told'[ch] = s
      BY <1>2, <2>3 DEF H!SendNotice
    <3>2. ~upset => notices'["failed"] = 0 /\ notices'["ok"] = 0
                    /\ \A ch \in H!Channels : LastNews(ch) = s
      BY <1>2, ConnectionsAssumption DEF H!SendNotice
    <3> QED BY <1>2, <2>1, <3>1, <3>2 DEF H!SendNotice, H!Upset
  <2> QED BY <2>2, <2>3
<1>3. CASE H!LoadCopy
  BY <1>3 DEF H!LoadCopy, H!Upset
<1>4. CASE H!SaveCopy
  BY <1>4 DEF H!SaveCopy, H!Upset
<1>5. CASE H!Delete
  BY <1>5 DEF H!Delete
<1>6. CASE UNCHANGED H!vars
  BY <1>6 DEF H!vars
<1> QED BY <1>1, <1>2, <1>3, <1>4, <1>5, <1>6

LEMMA HealthInvariant == H!Spec => []HealthInv
<1>1. HealthInv /\ [H!Next]_H!vars => HealthInv'
  BY CheckLoadsInv, SaveHealthInv, PublishInv, OtherHealthInv DEF H!Next
<1> QED BY <1>1, HealthInit, PTL DEF H!Spec

\* health_check_one and send_health_notification: when nothing is under way, the
\* last notice of every channel tells the health of the row, for any number of
\* checks and notices at a time, unless one of the steps was in the way that
\* LastWordIsTrue excepts.
THEOREM LastWordTrue == H!Spec => []LastWordIsTrue
<1>1. HealthInv => LastWordIsTrue
  BY DEF HealthInv, RowIsTold, AgreesWith, LastNews, LastWordIsTrue, H!LastWordIsTrue, H!TypeOK,
         H!Checking, H!Waiting
<1> QED BY <1>1, HealthInvariant, PTL

-----------------------------------------------------------------------------
(***************************************************************************)
(* The edit of a connection and its audit log.                             *)
(***************************************************************************)

EditRow == [step : {"idle", "loaded", "compared", "saved"}, copy : Hosts, before : Hosts]

\* While the past is empty: an edit that has compared has the row as it is, and one
\* that has saved it is alone and what it will log follows on the log; a deletion
\* is in the log before it is in the table; else the log tells the row.
LogFollows ==
    /\ removal = "logged" => editAudited = "gone" /\ row # "gone"
    /\ row = "gone" => editAudited = "gone"
    /\ removal = "idle" /\ row # "gone" =>
         /\ \A e \in Edits :
              /\ edit[e].step = "compared" => edit[e].before = row
              /\ edit[e].step = "saved" => edit[e].copy = row /\ edit[e].before = editAudited
         /\ (\A e \in Edits : edit[e].step # "saved") => editAudited = row
    /\ \A d, e \in Edits : edit[d].step = "saved" /\ edit[e].step = "saved" => d = e

EditInv == E!TypeOK /\ (editPast = {} => LogFollows)

LEMMA EditTypes ==
    ASSUME E!TypeOK
    PROVE  /\ E!NoEdit \in EditRow /\ E!NoEdit.step = "idle" /\ E!First \in Hosts
           /\ \A e \in Edits : edit[e] \in EditRow
           /\ \A e \in Edits, r \in EditRow :
                /\ [edit EXCEPT ![e] = r] \in [Edits -> EditRow]
                /\ [edit EXCEPT ![e] = r][e] = r
                /\ \A d \in Edits : d # e => [edit EXCEPT ![e] = r][d] = edit[d]
BY ConnectionsAssumption DEF E!TypeOK, EditRow, E!NoEdit, E!First

LEMMA EditInit == E!Init => EditInv
<1>1. E!First \in Hosts
  BY ConnectionsAssumption DEF E!First
<1> QED
  BY <1>1, ConnectionsAssumption
  DEF E!Init, E!TypeOK, EditInv, LogFollows, E!NoEdit, E!Rows, EditRow

\* What each step of an edit makes of it.
LEMMA EditGoes ==
    ASSUME E!TypeOK, NEW e \in Edits
    PROVE  /\ E!LoadConnection(e) =>
                \E r \in EditRow : r.step = "loaded" /\ edit' = [edit EXCEPT ![e] = r]
           /\ \A h \in Hosts : E!Compare(e, h) =>
                \/ edit' = [edit EXCEPT ![e] = E!NoEdit]
                \/ row # "gone"
                   /\ \E r \in EditRow : /\ r.step = "compared" /\ r.before = row
                                         /\ edit' = [edit EXCEPT ![e] = r]
           /\ E!SaveForm(e) =>
                \E r \in EditRow : /\ r.step = "saved" /\ r.copy = edit[e].copy
                                   /\ r.before = edit[e].before
                                   /\ edit' = [edit EXCEPT ![e] = r]
<1>1. edit[e] \in EditRow /\ row \in Hosts \cup {"gone"} /\ edit \in [Edits -> EditRow]
  BY DEF E!TypeOK, EditRow, E!Rows
<1>2. ASSUME E!LoadConnection(e)
      PROVE  \E r \in EditRow : r.step = "loaded" /\ edit' = [edit EXCEPT ![e] = r]
  <2> DEFINE r == [edit[e] EXCEPT !.step = "loaded", !.copy = row]
  <2>1. r \in EditRow /\ r.step = "loaded"
    BY <1>1, <1>2 DEF EditRow, E!LoadConnection
  <2>2. edit' = [edit EXCEPT ![e] = r]
    BY <1>1, <1>2 DEF E!LoadConnection
  <2> HIDE DEF r
  <2> QED BY <2>1, <2>2
<1>3. ASSUME NEW h \in Hosts, E!Compare(e, h), row # "gone"
      PROVE  \E r \in EditRow : /\ r.step = "compared" /\ r.before = row
                                /\ edit' = [edit EXCEPT ![e] = r]
  <2> DEFINE r == [edit[e] EXCEPT !.step = "compared", !.copy = h, !.before = row]
  <2>1. r \in EditRow /\ r.step = "compared" /\ r.before = row
    BY <1>1, <1>3 DEF EditRow
  <2>2. edit' = [edit EXCEPT ![e] = r]
    BY <1>1, <1>3 DEF E!Compare
  <2> HIDE DEF r
  <2> QED BY <2>1, <2>2
<1>4. ASSUME E!SaveForm(e)
      PROVE  \E r \in EditRow : /\ r.step = "saved" /\ r.copy = edit[e].copy
                                /\ r.before = edit[e].before
                                /\ edit' = [edit EXCEPT ![e] = r]
  <2> DEFINE r == [edit[e] EXCEPT !.step = "saved"]
  <2>1. r \in EditRow /\ r.step = "saved" /\ r.copy = edit[e].copy /\ r.before = edit[e].before
    BY <1>1 DEF EditRow
  <2>2. edit' = [edit EXCEPT ![e] = r]
    BY <1>4 DEF E!SaveForm
  <2> HIDE DEF r
  <2> QED BY <2>1, <2>2
<1> QED BY <1>2, <1>3, <1>4 DEF E!Compare

LEMMA EditSteps ==
    ASSUME EditInv, NEW e \in Edits,
           \/ E!LoadConnection(e) \/ E!SaveForm(e) \/ E!LogUpdated(e) \/ E!EditLost(e)
           \/ \E h \in Hosts : E!Compare(e, h)
    PROVE  EditInv'
<1>0. E!TypeOK
  BY DEF EditInv
<1>1. PICK r \in EditRow : edit' = [edit EXCEPT ![e] = r]
  BY <1>0, EditGoes, EditTypes DEF E!LogUpdated, E!EditLost
<1>2. /\ edit' \in [Edits -> EditRow] /\ edit'[e] = r
      /\ \A d \in Edits : d # e => edit'[d] = edit[d]
      /\ edit[e] \in EditRow
  BY <1>0, <1>1, EditTypes
<1>3. E!TypeOK'
  BY <1>2
  DEF EditInv, E!TypeOK, EditRow, E!Rows, E!LoadConnection, E!SaveForm, E!LogUpdated, E!EditLost,
      E!Compare
<1>4. CASE E!LoadConnection(e)
  <2>1. edit'[e].step = "loaded" /\ edit[e].step = "idle"
    BY <1>0, <1>4, EditGoes, EditTypes DEF E!LoadConnection
  <2> QED BY <1>2, <1>3, <1>4, <2>1 DEF EditInv, LogFollows, E!LoadConnection
<1>5. ASSUME NEW h \in Hosts, E!Compare(e, h) PROVE EditInv'
  <2>1. \/ edit'[e].step = "idle"
        \/ edit'[e].step = "compared" /\ edit'[e].before = row
    BY <1>0, <1>5, EditGoes, EditTypes
  <2>2. edit[e].step = "loaded"
    BY <1>5 DEF E!Compare
  <2>3. UNCHANGED <<row, removal, editAudited, editPast>>
    BY <1>5 DEF E!Compare
  <2> QED BY <1>2, <1>3, <2>1, <2>2, <2>3 DEF EditInv, LogFollows
<1>6. CASE E!SaveForm(e)
  <2>1. /\ edit'[e].step = "saved" /\ edit'[e].copy = edit[e].copy
        /\ edit'[e].before = edit[e].before
    BY <1>0, <1>6, EditGoes, EditTypes
  <2>2. edit[e].step = "compared" /\ row' = edit[e].copy /\ edit[e].copy # "gone"
    BY <1>2, <1>6, ConnectionsAssumption DEF E!SaveForm, EditRow
  <2>3. ASSUME editPast' = {}
        PROVE  /\ editPast = {} /\ row # "gone" /\ removal = "idle"
               /\ \A d \in Edits : d # e => edit[d].step \notin {"compared", "saved"}
    BY <1>0, <1>6, <2>3 DEF E!SaveForm, E!TypeOK
  <2>4. editPast' = {} => LogFollows'
    BY <1>2, <1>6, <2>1, <2>2, <2>3 DEF EditInv, LogFollows, E!SaveForm
  <2> QED BY <1>3, <2>4 DEF EditInv
<1>7. CASE E!LogUpdated(e)
  <2>1. edit'[e].step = "idle"
    BY <1>0, <1>7, EditTypes DEF E!LogUpdated
  <2>2. ASSUME editPast' = {}
        PROVE  editPast = {} /\ row # "gone" /\ removal = "idle"
    BY <1>0, <1>7, <2>2 DEF E!LogUpdated, E!TypeOK
  <2>3. editPast' = {} => LogFollows'
    BY <1>2, <1>7, <2>1, <2>2 DEF EditInv, LogFollows, E!LogUpdated
  <2> QED BY <1>3, <2>3 DEF EditInv
<1>8. CASE E!EditLost(e)
  BY <1>3, <1>8 DEF EditInv, E!EditLost
<1> QED BY <1>4, <1>5, <1>6, <1>7, <1>8

LEMMA EditInvariant == E!Spec => []EditInv
<1>1. EditInv /\ [E!Next]_E!vars => EditInv'
  <2> SUFFICES ASSUME EditInv, [E!Next]_E!vars PROVE EditInv'
    OBVIOUS
  <2> USE DEF EditInv, LogFollows, E!TypeOK, E!Rows
  <2>1. CASE E!LogDeleted
    BY <2>1 DEF E!LogDeleted
  <2>2. CASE E!DeleteConnection
    BY <2>2 DEF E!DeleteConnection
  <2>3. CASE E!RemovalLost
    BY <2>3 DEF E!RemovalLost
  <2>4. CASE UNCHANGED E!vars
    BY <2>4 DEF E!vars
  <2> HIDE DEF EditInv
  <2> QED BY <2>1, <2>2, <2>3, <2>4, EditSteps DEF E!Next
<1> QED BY <1>1, EditInit, PTL DEF E!Spec

\* connection_edit and connection_delete: at rest the audit log ends with what the
\* row says, for any number of edits that have the same row in their forms, unless
\* one of the interleavings was met that AuditIsCurrent excepts.
THEOREM AuditCurrent == E!Spec => []AuditIsCurrent
<1>1. EditInv => AuditIsCurrent
  BY DEF EditInv, LogFollows, AuditIsCurrent, E!AuditIsCurrent, E!TypeOK
<1> QED BY <1>1, EditInvariant, PTL

-----------------------------------------------------------------------------
(***************************************************************************)
(* Export and import.                                                      *)
(***************************************************************************)

FlowRow == [name : Names, src : Ids, dst : Ids]
FileFlow == [name : Names, src : Names, dst : Names]
ExportFile == [conns : SUBSET Names, flows : SUBSET FileFlow]
ImportRow == [reading : BOOLEAN, known : SUBSET Names]
OwnNames == {conns[i].name : i \in P!Own(conns)}

\* The ends of a flow are there.  An import that nothing disturbs is alone, and
\* the names it has found are those that are there when it inserts.
ImportInv ==
    /\ P!TypeOK
    /\ \A f \in flows : conns[f.src] # Missing /\ conns[f.dst] # Missing
    /\ \A r \in Imports : import[r].reading => file \in ExportFile
    /\ ~disturbed =>
         /\ \A q, r \in Imports : import[q].reading /\ import[r].reading => q = r
         /\ \A r \in Imports : import[r].reading => import[r].known = OwnNames

\* The types, of one row at a time.
LEMMA ImportTypes ==
    ASSUME P!TypeOK
    PROVE  /\ conns \in [Ids -> P!Conns \cup {Missing}] /\ flows \in SUBSET FlowRow
           /\ file = Missing \/ file \in ExportFile
           /\ import \in [Imports -> ImportRow] /\ disturbed \in BOOLEAN
           /\ P!Idle \in ImportRow /\ ~P!Idle.reading
           /\ \A i \in Ids : conns[i] # Missing => conns[i].name \in Names
           /\ OwnNames \in SUBSET Names
BY DEF P!TypeOK, P!Conns, FlowRow, FileFlow, ExportFile, ImportRow, OwnNames, P!Own, P!Idle

LEMMA TypesTogether ==
    ASSUME conns \in [Ids -> P!Conns \cup {Missing}], flows \in SUBSET FlowRow,
           file = Missing \/ file \in ExportFile,
           import \in [Imports -> ImportRow], disturbed \in BOOLEAN
    PROVE  P!TypeOK
BY DEF P!TypeOK, FlowRow, FileFlow, ExportFile, ImportRow

\* What an import inserts: a connection of every name of the file that it has not
\* found, and each flow once whose ends it has.
LEMMA Commits ==
    ASSUME P!TypeOK, file \in ExportFile, NEW r \in Imports, P!ImportCommits(r)
    PROVE  /\ conns' \in [Ids -> P!Conns \cup {Missing}] /\ flows' \in SUBSET FlowRow
           /\ \A i \in Ids : conns[i] # Missing => conns'[i] = conns[i]
           /\ \A n \in P!NewNames(r) : P!Named(conns', n) # {}
           /\ \A f \in flows' \ flows : conns'[f.src] # Missing /\ conns'[f.dst] # Missing
           /\ flows \subseteq flows'
           /\ \A f \in file.flows :
                P!Named(conns', f.src) # {} /\ P!Named(conns', f.dst) # {}
                  => \E g \in flows' : g.name = f.name
<1>1. PICK at \in [Names -> Ids \cup {Missing}], new \in SUBSET file.flows :
        /\ P!ImportedConnections(conns', r) /\ P!ConnMap(conns', at)
        /\ P!ImportedFlows(at, new)
        /\ flows' = flows \cup {[f EXCEPT !.src = at[f.src], !.dst = at[f.dst]] : f \in new}
  BY DEF P!ImportCommits
<1>2. PICK id \in [P!NewNames(r) -> {i \in Ids : conns[i] = Missing}] :
        /\ \A m, n \in P!NewNames(r) : id[m] = id[n] => m = n
        /\ conns' = [i \in Ids |-> IF \E n \in P!NewNames(r) : id[n] = i
                                   THEN [name |-> CHOOSE n \in P!NewNames(r) : id[n] = i,
                                         own |-> TRUE]
                                   ELSE conns[i]]
  BY <1>1 DEF P!ImportedConnections
<1>3. P!NewNames(r) \in SUBSET Names /\ file.flows \in SUBSET FileFlow
  BY DEF P!NewNames, ExportFile
<1>4. \A n \in P!NewNames(r) : id[n] \in Ids /\ conns'[id[n]] = [name |-> n, own |-> TRUE]
  <2> SUFFICES ASSUME NEW n \in P!NewNames(r)
               PROVE  id[n] \in Ids /\ conns'[id[n]] = [name |-> n, own |-> TRUE]
    OBVIOUS
  <2>1. id[n] \in Ids
    BY <1>2
  <2>2. (CHOOSE m \in P!NewNames(r) : id[m] = id[n]) = n
    BY <1>2
  <2> QED BY <1>2, <2>1, <2>2
<1>5. conns' \in [Ids -> P!Conns \cup {Missing}]
  <2>1. ASSUME NEW i \in Ids PROVE conns'[i] \in P!Conns \cup {Missing}
    <3>1. CASE \E n \in P!NewNames(r) : id[n] = i
      <4>1. PICK n \in P!NewNames(r) : id[n] = i
        BY <3>1
      <4>2. conns'[i] = [name |-> n, own |-> TRUE] /\ n \in Names
        BY <1>3, <1>4, <4>1
      <4> QED BY <4>2 DEF P!Conns
    <3>2. CASE ~ \E n \in P!NewNames(r) : id[n] = i
      BY <1>2, <3>2, ImportTypes
    <3> QED BY <3>1, <3>2
  <2> QED BY <1>2, <2>1
<1>6. \A i \in Ids : conns[i] # Missing => conns'[i] = conns[i]
  BY <1>2
<1>7. ASSUME NEW n \in P!NewNames(r) PROVE P!Named(conns', n) # {}
  <2>1. id[n] \in Ids /\ conns'[id[n]] = [name |-> n, own |-> TRUE] /\ n \in Names
    BY <1>3, <1>4, <1>7
  <2>2. conns'[id[n]] # Missing
    <3>1. [name |-> n, own |-> TRUE] \in [name : Names, own : BOOLEAN]
      BY <2>1
    <3> QED BY <2>1, <3>1, ConnectionsAssumption
  <2>3. id[n] \in P!Own(conns')
    BY <2>1, <2>2 DEF P!Own
  <2> QED BY <2>1, <2>3 DEF P!Named
<1>8. ASSUME NEW f \in FileFlow, at[f.src] # Missing, at[f.dst] # Missing
      PROVE  /\ at[f.src] \in Ids /\ at[f.dst] \in Ids
             /\ conns'[at[f.src]] # Missing /\ conns'[at[f.dst]] # Missing
  <2>1. f.src \in Names /\ f.dst \in Names
    BY DEF FileFlow
  <2> QED BY <1>1, <1>8, <2>1 DEF P!ConnMap, P!Named, P!Own
<1>9. ASSUME NEW f \in new
      PROVE  f \in FileFlow /\ at[f.src] # Missing /\ at[f.dst] # Missing
  BY <1>1, <1>3 DEF P!ImportedFlows
<1> DEFINE res(f) == [f EXCEPT !.src = at[f.src], !.dst = at[f.dst]]
<1>10. ASSUME NEW f \in new
       PROVE  /\ res(f) \in FlowRow /\ res(f).name = f.name
              /\ conns'[res(f).src] # Missing /\ conns'[res(f).dst] # Missing
  <2>1. /\ f \in FileFlow /\ at[f.src] \in Ids /\ at[f.dst] \in Ids
        /\ conns'[at[f.src]] # Missing /\ conns'[at[f.dst]] # Missing
    BY <1>8, <1>9
  <2>2. /\ res(f) \in FlowRow /\ res(f).name = f.name
        /\ res(f).src = at[f.src] /\ res(f).dst = at[f.dst]
    BY <2>1 DEF FileFlow, FlowRow
  <2> HIDE DEF res
  <2> QED BY <2>1, <2>2
<1>b. flows' = flows \cup {res(f) : f \in new}
  BY <1>1
<1> HIDE DEF res
<1>11. flows' \in SUBSET FlowRow /\ flows \subseteq flows'
  BY <1>b, <1>10, ImportTypes
<1>12. \A f \in flows' \ flows : conns'[f.src] # Missing /\ conns'[f.dst] # Missing
  BY <1>b, <1>10
<1>13. ASSUME NEW f \in file.flows, P!Named(conns', f.src) # {}, P!Named(conns', f.dst) # {}
       PROVE  \E g \in flows' : g.name = f.name
  <2>1. f \in FileFlow /\ f.src \in Names /\ f.dst \in Names
    BY <1>3 DEF FileFlow
  <2>2. Missing \notin {at[f.src], at[f.dst]}
    BY <1>1, <1>13, <2>1, ConnectionsAssumption DEF P!ConnMap, P!Named, P!Own
  <2>3. CASE \E g \in flows : g.name = f.name
    BY <1>11, <2>3
  <2>4. CASE \A g \in flows : g.name # f.name
    <3>1. P!Cardinality({g \in new : g.name = f.name}) = 1
      BY <1>1, <2>2, <2>4 DEF P!ImportedFlows
    <3>2. {g \in new : g.name = f.name} # {}
      BY <3>1, SameCount, FS_EmptySet
    <3>3. PICK g \in new : g.name = f.name
      BY <3>2
    <3> QED BY <1>b, <1>10, <3>3
  <2> QED BY <2>3, <2>4
<1> QED BY <1>5, <1>6, <1>7, <1>11, <1>12, <1>13

\* What a step that is not an import makes of the rows.
LEMMA ByHand ==
    ASSUME ImportInv,
           \/ \E i \in Ids, c \in P!Conns : P!CreateConnection(i, c)
           \/ \E i \in Ids : P!DeleteConnection(i)
           \/ \E n \in Names, s, d \in Ids : P!CreateFlow(n, s, d)
           \/ P!Export
    PROVE  ImportInv'
<1>0. P!TypeOK
  BY DEF ImportInv
<1>a. /\ conns \in [Ids -> P!Conns \cup {Missing}] /\ flows \in SUBSET FlowRow
      /\ file = Missing \/ file \in ExportFile
      /\ import \in [Imports -> ImportRow] /\ disturbed \in BOOLEAN
  BY <1>0, ImportTypes
<1>b. ASSUME P!Disturbs, import' = import
      PROVE  ~disturbed' => \A r \in Imports : ~import'[r].reading
  BY <1>b DEF P!Disturbs, P!Importing
<1>1. ASSUME NEW i \in Ids, NEW c \in P!Conns, P!CreateConnection(i, c) PROVE ImportInv'
  <2>1. /\ conns' = [conns EXCEPT ![i] = c] /\ conns[i] = Missing /\ P!Disturbs
        /\ UNCHANGED <<flows, file, import>> /\ disturbed' \in BOOLEAN
    BY <1>1, <1>a DEF P!CreateConnection, P!Disturbs, P!Importing
  <2>2. P!TypeOK'
    BY <1>a, <2>1 DEF P!TypeOK, FlowRow, FileFlow, ExportFile, ImportRow
  <2>3. \A f \in flows : f.src \in Ids /\ f.dst \in Ids
    BY <1>a DEF FlowRow
  <2> QED BY <1>a, <1>b, <2>1, <2>2, <2>3 DEF ImportInv
<1>2. ASSUME NEW i \in Ids, P!DeleteConnection(i) PROVE ImportInv'
  <2>1. /\ conns' = [conns EXCEPT ![i] = Missing]
        /\ flows' = {f \in flows : i \notin {f.src, f.dst}} /\ P!Disturbs
        /\ UNCHANGED <<file, import>> /\ disturbed' \in BOOLEAN
    BY <1>2, <1>a DEF P!DeleteConnection, P!Disturbs, P!Importing
  <2>2. P!TypeOK'
    BY <1>a, <2>1 DEF P!TypeOK, FlowRow, FileFlow, ExportFile, ImportRow
  <2>3. \A f \in flows : f.src \in Ids /\ f.dst \in Ids
    BY <1>a DEF FlowRow
  <2> QED BY <1>a, <1>b, <2>1, <2>2, <2>3 DEF ImportInv
<1>3. ASSUME NEW n \in Names, NEW s \in Ids, NEW d \in Ids, P!CreateFlow(n, s, d)
      PROVE  ImportInv'
  <2>1. /\ flows' = flows \cup {[name |-> n, src |-> s, dst |-> d]} /\ P!Disturbs
        /\ conns[s] # Missing /\ conns[d] # Missing
        /\ UNCHANGED <<conns, file, import>> /\ disturbed' \in BOOLEAN
    BY <1>3, <1>a DEF P!CreateFlow, P!Disturbs, P!Importing
  <2>2. P!TypeOK'
    BY <1>a, <2>1 DEF P!TypeOK, FlowRow, FileFlow, ExportFile, ImportRow
  <2> QED BY <1>b, <2>1, <2>2 DEF ImportInv
<1>4. CASE P!Export
  <2>1. UNCHANGED <<conns, flows, import, disturbed>>
    BY <1>4 DEF P!Export
  <2>2. \A f \in flows : /\ f.name \in Names /\ conns[f.src].name \in Names
                         /\ conns[f.dst].name \in Names
    <3>1. \A f \in flows : f.name \in Names /\ f.src \in Ids /\ f.dst \in Ids
      BY <1>a DEF FlowRow
    <3> QED BY <1>0, <3>1, ImportTypes DEF ImportInv
  <2>3. file' = [conns |-> OwnNames,
                 flows |-> {[name |-> f.name, src |-> conns[f.src].name,
                             dst |-> conns[f.dst].name] : f \in flows}]
    BY <1>4 DEF P!Export, OwnNames
  <2>4. {[name |-> f.name, src |-> conns[f.src].name, dst |-> conns[f.dst].name] : f \in flows}
            \in SUBSET FileFlow
    BY <2>2 DEF FileFlow
  <2>5. file' \in ExportFile
    BY <1>0, <2>3, <2>4, ImportTypes DEF ExportFile
  <2>6. P!TypeOK'
    BY <1>a, <2>1, <2>5 DEF P!TypeOK, FlowRow, FileFlow, ExportFile, ImportRow
  <2> QED BY <2>1, <2>5, <2>6 DEF ImportInv, OwnNames, P!Own
<1> QED BY <1>1, <1>2, <1>3, <1>4

LEMMA ImportSteps ==
    ASSUME ImportInv, NEW r \in Imports,
           P!ImportBegins(r) \/ P!ImportFails(r) \/ P!ImportCommits(r)
    PROVE  ImportInv'
<1>0. P!TypeOK
  BY DEF ImportInv
<1>a. /\ conns \in [Ids -> P!Conns \cup {Missing}] /\ flows \in SUBSET FlowRow
      /\ file = Missing \/ file \in ExportFile
      /\ import \in [Imports -> ImportRow] /\ disturbed \in BOOLEAN
      /\ P!Idle \in ImportRow /\ ~P!Idle.reading /\ OwnNames \in SUBSET Names
  BY <1>0, ImportTypes
<1>1. CASE P!ImportBegins(r)
  <2> DEFINE b == [reading |-> TRUE, known |-> OwnNames]
  <2>1. b \in ImportRow /\ b.reading /\ b.known = OwnNames
    BY <1>a DEF ImportRow
  <2>2. import' = [import EXCEPT ![r] = b] /\ file # Missing /\ P!Disturbs
        /\ UNCHANGED <<conns, flows, file>>
    BY <1>1 DEF P!ImportBegins, OwnNames
  <2> HIDE DEF b
  <2>3. disturbed' \in BOOLEAN /\ (~disturbed' => \A q \in Imports : ~import[q].reading)
    BY <1>a, <2>2 DEF P!Disturbs, P!Importing
  <2>4. P!TypeOK'
    BY <1>a, <2>1, <2>2, <2>3 DEF P!TypeOK, FlowRow, FileFlow, ExportFile, ImportRow
  <2>5. OwnNames' = OwnNames
    BY <2>2 DEF OwnNames, P!Own
  <2> QED BY <1>a, <2>1, <2>2, <2>3, <2>4, <2>5 DEF ImportInv
<1>2. CASE P!ImportFails(r)
  <2>1. import' = [import EXCEPT ![r] = P!Idle] /\ UNCHANGED <<conns, flows, file, disturbed>>
    BY <1>2 DEF P!ImportFails
  <2>2. P!TypeOK'
    BY <1>a, <2>1 DEF P!TypeOK, FlowRow, FileFlow, ExportFile, ImportRow
  <2>3. OwnNames' = OwnNames
    BY <2>1 DEF OwnNames, P!Own
  <2> QED BY <1>a, <2>1, <2>2, <2>3 DEF ImportInv
<1>3. CASE P!ImportCommits(r)
  <2>1. /\ import' = [import EXCEPT ![r] = P!Idle] /\ UNCHANGED <<file, disturbed>>
        /\ import[r].reading /\ file \in ExportFile
    BY <1>3 DEF P!ImportCommits, ImportInv
  <2>2. /\ conns' \in [Ids -> P!Conns \cup {Missing}] /\ flows' \in SUBSET FlowRow
        /\ \A i \in Ids : conns[i] # Missing => conns'[i] = conns[i]
        /\ \A f \in flows' \ flows : conns'[f.src] # Missing /\ conns'[f.dst] # Missing
    BY <1>0, <1>3, <2>1, Commits
  <2>3. P!TypeOK'
    BY <1>a, <2>1, <2>2 DEF P!TypeOK, FlowRow, FileFlow, ExportFile, ImportRow
  <2>4. \A f \in flows' : conns'[f.src] # Missing /\ conns'[f.dst] # Missing
    <3>1. \A f \in flows : f.src \in Ids /\ f.dst \in Ids
      BY <1>a DEF FlowRow
    <3> QED BY <2>2, <3>1 DEF ImportInv
  <2>5. ~disturbed' => \A q \in Imports : ~import'[q].reading
    BY <1>a, <2>1 DEF ImportInv
  <2> QED BY <1>a, <2>1, <2>3, <2>4, <2>5 DEF ImportInv
<1> QED BY <1>1, <1>2, <1>3

LEMMA ImportInvariant == P!Spec => []ImportInv
<1>1. P!Init => ImportInv
  <2> SUFFICES ASSUME P!Init PROVE ImportInv
    OBVIOUS
  <2>1. \A r \in Imports : ~import[r].reading
    BY DEF P!Init, P!Idle
  <2>2. P!TypeOK
    BY DEF P!Init, P!TypeOK, P!Idle
  <2> QED BY <2>1, <2>2 DEF P!Init, ImportInv
<1>2. ImportInv /\ [P!Next]_P!vars => ImportInv'
  <2> SUFFICES ASSUME ImportInv, [P!Next]_P!vars PROVE ImportInv'
    OBVIOUS
  <2>1. CASE UNCHANGED P!vars
    BY <2>1 DEF P!vars, ImportInv, P!TypeOK, OwnNames, P!Own
  <2> QED BY <2>1, ByHand, ImportSteps DEF P!Next
<1> QED BY <1>1, <1>2, PTL DEF P!Spec

\* import_config: of a file with any number of connections and flows, an import
\* that nothing disturbed leaves out only the flows whose ends the file does not
\* hold; a connection that is skipped because its name is there resolves them too.
THEOREM ImportComplete == P!Spec => ImportIsComplete
<1> DEFINE Complete ==
      \A r \in Imports :
         import[r].reading /\ (conns' # conns \/ flows' # flows) /\ ~disturbed' =>
            /\ \A n \in file.conns : P!Named(conns', n) # {}
            /\ \A f \in file.flows :
                 {f.src, f.dst} \subseteq file.conns => \E g \in flows' : g.name = f.name
<1>1. ImportInv /\ [P!Next]_P!vars => [Complete]_P!vars
  <2> SUFFICES ASSUME ImportInv, P!Next, NEW r \in Imports, import[r].reading,
                      conns' # conns \/ flows' # flows, ~disturbed'
               PROVE  /\ \A n \in file.conns : P!Named(conns', n) # {}
                      /\ \A f \in file.flows : {f.src, f.dst} \subseteq file.conns
                           => \E g \in flows' : g.name = f.name
    OBVIOUS
  <2>0. P!TypeOK /\ file \in ExportFile /\ P!Importing
    BY DEF ImportInv, P!Importing
  <2>1. PICK q \in Imports : P!ImportCommits(q)
    BY <2>0 DEF P!Next, P!CreateConnection, P!DeleteConnection, P!CreateFlow, P!Export,
                P!ImportBegins, P!ImportFails, P!Disturbs
  <2>2. q = r /\ import[r].known = OwnNames
    BY <2>1 DEF P!ImportCommits, ImportInv
  <2>3. ASSUME NEW n \in file.conns PROVE P!Named(conns', n) # {}
    <3>1. CASE n \in OwnNames
      <4>1. PICK i \in Ids : conns[i] # Missing /\ conns[i].own /\ conns[i].name = n
        BY <3>1 DEF OwnNames, P!Own
      <4>2. conns'[i] = conns[i]
        BY <2>0, <2>1, <4>1, Commits
      <4> QED BY <4>1, <4>2 DEF P!Named, P!Own
    <3>2. CASE n \notin OwnNames
      <4>1. n \in P!NewNames(q)
        BY <2>2, <2>3, <3>2 DEF P!NewNames
      <4> QED BY <2>0, <2>1, <4>1, Commits
    <3> QED BY <3>1, <3>2
  <2> QED BY <2>0, <2>1, <2>3, Commits
<1>2. P!Spec => [][Complete]_P!vars
  BY <1>1, ImportInvariant, PTL DEF P!Spec
<1> QED BY <1>2 DEF ImportIsComplete, P!ImportIsComplete

-----------------------------------------------------------------------------
(***************************************************************************)
(* All of them side by side.                                               *)
(***************************************************************************)

\* What the composition does, each of its components does.
LEMMA ConnectionsAreTheirParts ==
    ConnectionsSpec => CircuitSpec /\ H!Spec /\ E!Spec /\ P!Spec
<1>1. ConnectionsInit => CircuitInit /\ H!Init /\ E!Init /\ P!Init
  BY DEF ConnectionsInit
<1>2. [ConnectionsNext]_connectionsVars => [CircuitNext]_circuitVars
  BY DEF ConnectionsNext, connectionsVars, circuitVars
<1>3. [ConnectionsNext]_connectionsVars => [H!Next]_H!vars
  BY DEF ConnectionsNext, connectionsVars, hVars, H!vars
<1>4. [ConnectionsNext]_connectionsVars => [E!Next]_E!vars
  BY DEF ConnectionsNext, connectionsVars, eVars, E!vars
<1>5. [ConnectionsNext]_connectionsVars => [P!Next]_P!vars
  BY DEF ConnectionsNext, connectionsVars, pVars, P!vars
<1> QED
  BY <1>1, <1>2, <1>3, <1>4, <1>5, PTL
  DEF ConnectionsSpec, CircuitSpec, H!Spec, E!Spec, P!Spec

\* The columns, rows, tasks and requests of a user's connections keep their types,
\* whichever component moves.
THEOREM ConnectionsTypes == ConnectionsSpec => []ConnectionsTypeOK
<1>1. CircuitTypeOK /\ HealthInv /\ EditInv /\ ImportInv => ConnectionsTypeOK
  BY DEF ConnectionsTypeOK, HealthInv, EditInv, ImportInv
<1> QED
  BY <1>1, ConnectionsAreTheirParts, CircuitTypes, HealthInvariant, EditInvariant,
     ImportInvariant, PTL

\* All of it together: the breaker, the last word on a connection's health, the log
\* of its edits and the imports hold side by side.
THEOREM ConnectionsAreSafe ==
    ConnectionsSpec =>
      /\ [](ConnectionsTypeOK /\ CountIsEarned /\ LastWordIsTrue /\ AuditIsCurrent)
      /\ FollowsBreaker /\ ImportIsComplete
BY ConnectionsAreTheirParts, ConnectionsTypes, CountEarned, LastWordTrue, AuditCurrent,
   BreakerFollowed, ImportComplete, PTL

-----------------------------------------------------------------------------
(***************************************************************************)
(* The accounts and the connections.                                       *)
(***************************************************************************)

\* What the panel does, its accounts and its connections do.
LEMMA PanelIsItsParts == PanelSpec => AccountsSpec /\ ConnectionsSpec
<1>1. PanelInit => AccountsInit /\ ConnectionsInit
  BY DEF PanelInit
<1>2. [PanelNext]_<<accountsVars, connectionsVars, side>>
        => [AccountsNext]_<<vars, loginVars, tokensVars, moves>>
  BY DEF PanelNext, accountsVars
<1>3. [PanelNext]_<<accountsVars, connectionsVars, side>>
        => [ConnectionsNext]_connectionsVars
  BY DEF PanelNext
<1> QED
  BY <1>1, <1>2, <1>3, PTL DEF PanelSpec, AccountsSpec, ConnectionsSpec

\* Everything the run on the panel checks, for any number of users, requests, tokens,
\* notifications, checks, edits and imports.
THEOREM PanelIsSafe ==
    PanelSpec =>
      /\ [](AccountsTypeOK /\ AuditIsHistory /\ CodeUsedOnce /\ FailuresCounted
             /\ CodesWithFactor /\ TokenBound)
      /\ [](ConnectionsTypeOK /\ CountIsEarned /\ LastWordIsTrue /\ AuditIsCurrent)
      /\ FollowsBreaker /\ ImportIsComplete
BY PanelIsItsParts, AccountsAreSafe, ConnectionsAreSafe, PTL

=============================================================================
