----------------------------- MODULE HealthCheck -----------------------------
(***************************************************************************)
(* The health of one connection: the tasks that check it and tell its      *)
(* owner of a change.  A check loads the row, tries the host for seconds,  *)
(* writes its columns and compares with the status that it had loaded.  A  *)
(* request that edits the connection writes the whole row from its copy,   *)
(* the health included.                                                    *)
(***************************************************************************)
EXTENDS Naturals

CONSTANTS
    Checks,     \* health_check_one tasks under way at a time
    MaxNotices  \* bound: notices of a kind in the queue

VARIABLES
    conn,     \* the row's health_status, or "gone"
    check,    \* [Checks -> the task]
    editing,  \* the health in the copy of a request that edits, or "none"
    notices,  \* ["failed" and "ok" -> queued send_health_notification tasks]
    told,     \* [Channels -> the last status told]
    upset     \* something has happened that LastWordIsTrue excepts

vars == <<conn, check, editing, notices, told, upset>>

Channels == {"email", "telegram", "webhook"}
Health == {"unknown", "ok", "failed"}

\* upset: two checks, or an edit and a check, overlapped; two notices were queued
\* at a time; a task died or could not publish; a channel raised; an edit inserted
\* a row that was gone.
TypeOK ==
    /\ conn \in Health \cup {"gone"}
    /\ check \in [Checks -> [step : {"idle", "testing", "saved"}, old : Health, new : Health]]
    /\ editing \in Health \cup {"none"}
    /\ notices \in [{"failed", "ok"} -> 0 .. MaxNotices]
    /\ told \in [Channels -> Health]
    /\ upset \in BOOLEAN

NoCheck == [step |-> "idle", old |-> "unknown", new |-> "unknown"]

Init ==
    /\ conn = "unknown"
    /\ check = [c \in Checks |-> NoCheck]
    /\ editing = "none"
    /\ notices = [s \in {"failed", "ok"} |-> 0]
    /\ told = [ch \in Channels |-> "unknown"]
    /\ upset = FALSE

Checking == \E c \in Checks : check[c].step # "idle"
Waiting == \E s \in DOMAIN notices : notices[s] > 0
Upset(when) == upset' = (upset \/ when)

-----------------------------------------------------------------------------
(* The tasks *)

\* health_check_all queues it, health_check_one loads the row, or finds none.
CheckLoads(c) ==
    /\ check[c].step = "idle" /\ conn # "gone"
    /\ check' = [check EXCEPT ![c].step = "testing", ![c].old = conn]
    /\ Upset(Checking \/ editing # "none")
    /\ UNCHANGED <<conn, editing, notices, told>>

\* The test answers, or raises: save(update_fields) of three columns, which
\* raises when the row is gone.
SaveHealth(c, new) ==
    /\ check[c].step = "testing"
    /\ IF conn = "gone"
       THEN conn' = conn /\ check' = [check EXCEPT ![c] = NoCheck]
       ELSE conn' = new /\ check' = [check EXCEPT ![c].step = "saved", ![c].new = new]
    /\ UNCHANGED <<editing, notices, told, upset>>

\* A faulty variant: a failure is news only after a success.
TransitionFromOk(c) == {check[c].old, check[c].new} = {"ok", "failed"}

\* became_failed or recovered
Transition(c) == (check[c].old = "failed") # (check[c].new = "failed")

Publish(c) ==
    LET new == check[c].new IN
    /\ check[c].step = "saved"
    /\ check' = [check EXCEPT ![c] = NoCheck]
    /\ IF Transition(c)
       THEN /\ notices[new] < MaxNotices
            /\ notices' = [notices EXCEPT ![new] = @ + 1]
            /\ Upset(Waiting)
       ELSE UNCHANGED <<notices, upset>>
    /\ UNCHANGED <<conn, editing, told>>

\* The process dies, or the broker refuses the notice.
CheckLost(c) ==
    /\ check[c].step # "idle"
    /\ check' = [check EXCEPT ![c] = NoCheck]
    /\ Upset(TRUE)
    /\ UNCHANGED <<conn, editing, notices, told>>

\* send_health_notification: e-mail, then Telegram, then the webhook; the first
\* two end the task when they raise, and there is no retry.
SendNotice(s, reached) ==
    /\ notices[s] > 0
    /\ reached \in {{}, {"email"}, {"email", "telegram"}, Channels}
    /\ notices' = [notices EXCEPT ![s] = @ - 1]
    /\ told' = [ch \in Channels |-> IF ch \in reached /\ conn # "gone" THEN s ELSE told[ch]]
    /\ Upset(reached # Channels)
    /\ UNCHANGED <<conn, check, editing>>

-----------------------------------------------------------------------------
(* The requests, as far as they touch the health; ConnectionEdit has the rest. *)

LoadCopy ==
    /\ editing = "none" /\ conn # "gone"
    /\ editing' = conn
    /\ Upset(Checking)
    /\ UNCHANGED <<conn, check, notices, told>>

\* form.save(); a row that is gone raises, or is inserted if it went at the last
\* moment.
SaveCopy ==
    /\ editing # "none"
    /\ conn' \in {editing} \cup ({conn} \cap {"gone"})
    /\ editing' = "none"
    /\ Upset(conn = "gone" /\ conn' # "gone")
    /\ UNCHANGED <<check, notices, told>>

Delete ==
    /\ conn # "gone"
    /\ conn' = "gone"
    /\ UNCHANGED <<check, editing, notices, told, upset>>

Next ==
    \/ \E c \in Checks : CheckLoads(c) \/ Publish(c) \/ CheckLost(c)
    \/ \E c \in Checks, new \in {"ok", "failed"} : SaveHealth(c, new)
    \/ \E s \in {"ok", "failed"}, r \in SUBSET Channels : SendNotice(s, r)
    \/ LoadCopy \/ SaveCopy \/ Delete

Spec == Init /\ [][Next]_vars

-----------------------------------------------------------------------------
(* Properties *)

\* When all is quiet, what each channel has told last is what the row says: every
\* outage and its end are told.  Not so if two checks overlapped, an edit wrote
\* back an old health or a row that was gone, two notices waited at a time, a task
\* was lost or a channel raised; a notice of a connection that is gone is dropped.
LastWordIsTrue ==
    ~upset /\ ~Checking /\ ~Waiting /\ conn # "gone" =>
        \A ch \in Channels : told[ch] = "failed" <=> conn = "failed"

=============================================================================
