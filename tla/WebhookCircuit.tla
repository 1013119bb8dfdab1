--------------------------- MODULE WebhookCircuit ---------------------------
(***************************************************************************)
(* The webhook of one user: the tasks that deliver to it (send_webhook for *)
(* transfers, the last part of send_health_notification for connections)   *)
(* and the circuit breaker they share, two columns of the user's row.      *)
(*                                                                         *)
(* A task loads the row once, works for as long as the POST takes and then *)
(* writes both columns from its copy.  Nothing locks the row in between,   *)
(* and the worker has several processes.                                   *)
(***************************************************************************)
EXTENDS Naturals, FiniteSets

CONSTANTS
    Transfers,   \* notifications about transfers, tried again on failure
    Healths,     \* notifications about connections, tried once
    Processes,   \* how many tasks the worker runs at a time
    CircuitThreshold,  \* WEBHOOK_CIRCUIT_THRESHOLD
    Cooldown,    \* WEBHOOK_CIRCUIT_COOLDOWN_MINUTES, in ticks of the clock
    MaxRetries,  \* max_retries of send_webhook
    MaxTime      \* bound on the clock

ASSUME WebhookCircuitAssumption ==
    /\ Transfers \cap Healths = {}
    /\ IsFiniteSet(Transfers \cup Healths)
    /\ Processes \in Nat \ {0}
    /\ CircuitThreshold \in Nat \ {0}
    /\ Cooldown \in Nat \ {0}
    /\ MaxRetries \in Nat
    /\ MaxTime \in Nat

VARIABLES
    count,    \* webhook_failure_count of the row
    until,    \* webhook_circuit_open_until of the row, 0 for NULL
    now,
    pc,       \* [Tasks -> TaskSteps]
    copy,     \* [Tasks -> the two columns as the task has loaded them]
    retries,  \* [Tasks -> Nat]
    log,      \* [Kinds -> Nat], rows of WebhookDeliveryLog by kind
    beside    \* the tasks that had another at work between their load and now

circuitVars == <<count, until, now, pc, copy, retries, log, beside>>

Tasks == Transfers \cup Healths
TaskSteps == {"queued", "posting", "failing", "failed", "sent", "recorded", "over"}
Busy  == {t \in Tasks : pc[t] \notin {"queued", "over"}}
Kinds == {"success", "failure", "skipped"}

Times == 0 .. MaxTime + Cooldown

CircuitTypeOK ==
    /\ count   \in Nat
    /\ until   \in Times
    /\ now     \in 0 .. MaxTime
    /\ pc      \in [Tasks -> TaskSteps]
    /\ copy    \in [Tasks -> [count : Nat, until : Times]]
    /\ retries \in [Tasks -> 0 .. MaxRetries]
    /\ log     \in [Kinds -> Nat]
    /\ beside  \subseteq Tasks

CircuitInit ==
    /\ count   = 0
    /\ until   = 0
    /\ now     = 0
    /\ pc      = [t \in Tasks |-> "queued"]
    /\ copy    = [t \in Tasks |-> [count |-> 0, until |-> 0]]
    /\ retries = [t \in Tasks |-> 0]
    /\ log     = [k \in Kinds |-> 0]
    /\ beside  = {}

Goes(t, from, to) ==
    /\ pc[t] = from
    /\ pc' = [pc EXCEPT ![t] = to]

Log(kind) == log' = [log EXCEPT ![kind] = @ + 1]

\* circuit_is_open, of the row just loaded.
Open == until > now

Begins(t) ==
    /\ pc[t] = "queued"
    /\ Cardinality(Busy) < Processes

\* The task loads the user, finds the circuit closed and starts the POST.
Load(t) ==
    /\ Begins(t)
    /\ ~Open
    /\ Goes(t, "queued", "posting")
    /\ copy' = [copy EXCEPT ![t] = [count |-> count, until |-> until]]
    /\ beside' = IF Busy = {} THEN beside \ {t} ELSE beside \cup Busy \cup {t}
    /\ UNCHANGED <<count, until, now, retries, log>>

\* The circuit is open: the delivery is skipped for good, retries left or not.
SkipDelivery(t) ==
    /\ Begins(t)
    /\ Open
    /\ Goes(t, "queued", "over")
    /\ Log("skipped")
    /\ UNCHANGED <<count, until, now, copy, retries, beside>>

\* The job or connection is gone, the user has no URL or does not want this kind
\* of news, the URL is private; or the e-mail or Telegram message that goes
\* before the webhook of a connection raises: no POST and no row in the log.
NoDelivery(t) ==
    /\ Begins(t)
    /\ Goes(t, "queued", "over")
    /\ UNCHANGED <<count, until, now, copy, retries, log, beside>>

\* The POST comes back; it raises on a timeout or an HTTP error.
Post(t) ==
    /\ \/ Goes(t, "posting", "sent")
       \/ Goes(t, "posting", "failing")
    /\ UNCHANGED <<count, until, now, copy, retries, log, beside>>

\* Faulty variants: record_failure opens the circuit one failure early, or never.
RecordFailureEarly(t) ==
    /\ Goes(t, "failing", "failed")
    /\ count' = copy[t].count + 1
    /\ until' = IF count' + 1 >= CircuitThreshold THEN now + Cooldown ELSE copy[t].until
    /\ UNCHANGED <<now, copy, retries, log, beside>>

RecordFailureOnly(t) ==
    /\ Goes(t, "failing", "failed")
    /\ count' = copy[t].count + 1
    /\ until' = copy[t].until
    /\ UNCHANGED <<now, copy, retries, log, beside>>

\* record_failure: both columns are written from the copy.
RecordFailure(t) ==
    /\ Goes(t, "failing", "failed")
    /\ count' = copy[t].count + 1
    /\ until' = IF count' >= CircuitThreshold THEN now + Cooldown ELSE copy[t].until
    /\ UNCHANGED <<now, copy, retries, log, beside>>

\* A faulty variant: no limit on the retries.
RetryForever(t) ==
    /\ Log("failure")
    /\ Goes(t, "failed", "queued")
    /\ retries' = [retries EXCEPT ![t] = @ + 1]
    /\ UNCHANGED <<count, until, now, copy, beside>>

\* The failure is logged.  send_webhook is queued again, unless its retries are
\* used up or the broker refuses it; send_health_notification returns.
Retry(t) ==
    /\ Log("failure")
    /\ \/ /\ t \in Transfers /\ retries[t] < MaxRetries
          /\ Goes(t, "failed", "queued")
          /\ retries' = [retries EXCEPT ![t] = @ + 1]
       \/ /\ Goes(t, "failed", "over")
          /\ UNCHANGED retries
    /\ UNCHANGED <<count, until, now, copy, beside>>

\* record_success: nothing is written when the copy is clean.
RecordSuccess(t) ==
    /\ Goes(t, "sent", "recorded")
    /\ IF copy[t].count # 0 \/ copy[t].until # 0
         THEN count' = 0 /\ until' = 0
         ELSE UNCHANGED <<count, until>>
    /\ UNCHANGED <<now, copy, retries, log, beside>>

LogSuccess(t) ==
    /\ Goes(t, "recorded", "over")
    /\ Log("success")
    /\ UNCHANGED <<count, until, now, copy, retries, beside>>

Tick ==
    /\ now < MaxTime
    /\ now' = now + 1
    /\ UNCHANGED <<count, until, pc, copy, retries, log, beside>>

Step(t) ==
    \/ Load(t) \/ SkipDelivery(t) \/ NoDelivery(t) \/ Post(t)
    \/ RecordFailure(t) \/ Retry(t) \/ RecordSuccess(t) \/ LogSuccess(t)

CircuitNext == Tick \/ \E t \in Tasks : Step(t)

CircuitSpec == CircuitInit /\ [][CircuitNext]_circuitVars

-----------------------------------------------------------------------------
\* Failures the log knows of, and those recorded but not yet logged.
Failures == log["failure"] + Cardinality({t \in Tasks : pc[t] = "failed"})

\* However the tasks overlap, the counter never runs ahead of the failures that
\* happened: the circuit opens only when at least CircuitThreshold deliveries failed.
CountIsEarned ==
    /\ count <= Failures
    /\ until > 0 => Failures >= CircuitThreshold

Breaker == INSTANCE CircuitBreaker WITH
             Threshold <- CircuitThreshold,
             streak <- count, held <- until, clock <- now

\* The columns follow the circuit breaker of the page: the counter is the number of
\* failures in a row, the circuit opens at the threshold and no delivery is recorded
\* while it is open.  Not so what a task writes that had another at work beside it:
\* its copy may be stale (the row is loaded in tasks.py and written in
\* webhook_deliveries/services.py, with the POST in between).
FollowsBreaker ==
    /\ Breaker!Init
    /\ [][Breaker!Next \/ \E t \in beside : pc'[t] # pc[t]]_<<count, until, now>>

\* The page says of an open circuit that the deliveries are suspended until the time
\* it shows (webhook_deliveries/list.html:8).  A failed delivery cannot shorten that:
\* which the copy of a task from before the suspension does, it has no suspension.
SuspensionHolds ==
    [][\A t \in Tasks : pc[t] = "failing" /\ pc'[t] = "failed" /\ Open => until' >= until]_circuitVars

=============================================================================
