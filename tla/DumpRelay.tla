------------------------------ MODULE DumpRelay ------------------------------
(***************************************************************************)
(* The pipeline of a PostgreSQL or MySQL transfer: a dump process, a load  *)
(* process, and in the worker one thread that relays the lines of the dump *)
(* to the loader, two threads that drain the processes' stderr into the    *)
(* job's log, and the main thread that joins them, waits for the processes *)
(* and tries again.                                                        *)
(*                                                                         *)
(* The unit is a line.  Pipes hold at most PipeSize lines: a process that  *)
(* writes to a full pipe waits, one that writes to a pipe nobody can read  *)
(* any more is ended by SIGPIPE.  What _relay_lines makes of a line is     *)
(* left out, except that it may raise.                                     *)
(***************************************************************************)
EXTENDS Naturals

CONSTANTS
    Lines,       \* lines of the dump
    PipeSize,    \* capacity of each pipe
    Attempts,    \* PG_DUMP_MAX_RETRIES, MYSQL_DUMP_MAX_RETRIES
    LogFaults,   \* bound: calls of log_callback that raise in a drain thread
    RelayFaults  \* bound: lines on which _relay_lines raises

ASSUME DumpRelayAssumption ==
    /\ Lines \in Nat
    /\ PipeSize \in Nat \ {0}
    /\ Attempts \in Nat \ {0}
    /\ LogFaults \in Nat
    /\ RelayFaults \in Nat

VARIABLES
    dump, load,        \* control state of the two processes
    written, loaded,   \* lines the dump has written, the loader has read
    stdout, stdin,     \* lines in the pipe from the dump, to the loader
    stderr,            \* [Processes -> Nat], lines in the stderr pipes
    drain,             \* [Processes -> ...], the thread that reads stderr
    relay,             \* the thread that moves the lines
    output,            \* output_lines is not empty
    attempt, result,
    logFaults, relayFaults

pipeVars  == <<written, loaded, stdout, stdin>>
faultVars == <<logFaults, relayFaults>>
vars == <<dump, load, pipeVars, stderr, drain, relay, output, attempt, result,
          faultVars>>

Processes == {"dump", "load"}
Exits     == {"ok", "failed"}

TypeOK ==
    /\ dump    \in {"next", "say", "write"} \cup Exits
    /\ load    \in {"next", "say"} \cup Exits
    /\ written \in 0 .. Lines
    /\ loaded  \in 0 .. Lines
    /\ stdout  \in 0 .. PipeSize
    /\ stdin   \in 0 .. PipeSize
    /\ stderr  \in [Processes -> 0 .. PipeSize]
    /\ drain   \in [Processes -> {"on", "over", "dead"}]
    /\ relay   \in {"read", "write", "stop", "closing", "over"}
    /\ output  \in BOOLEAN
    /\ attempt \in 1 .. Attempts
    /\ result  \in {"busy", "done", "failed"}
    /\ logFaults \in 0 .. LogFaults
    /\ relayFaults \in 0 .. RelayFaults

\* A fresh pair of processes and three fresh threads.
Started ==
    /\ dump    = "next"
    /\ load    = "next"
    /\ written = 0
    /\ loaded  = 0
    /\ stdout  = 0
    /\ stdin   = 0
    /\ stderr  = [p \in Processes |-> 0]
    /\ drain   = [p \in Processes |-> "on"]
    /\ relay   = "read"
    /\ output  = FALSE

Restarted ==
    /\ dump'    = "next"
    /\ load'    = "next"
    /\ written' = 0
    /\ loaded'  = 0
    /\ stdout'  = 0
    /\ stdin'   = 0
    /\ stderr'  = [p \in Processes |-> 0]
    /\ drain'   = [p \in Processes |-> "on"]
    /\ relay'   = "read"
    /\ output'  = FALSE

Init ==
    /\ Started
    /\ attempt = 1
    /\ result = "busy"
    /\ logFaults = 0
    /\ relayFaults = 0

-----------------------------------------------------------------------------
(* The processes (external). *)

\* The dump turns to its next line, with a message (--verbose) or without.
DumpNext ==
    /\ dump = "next"
    /\ written < Lines
    /\ dump' \in {"say", "write"}
    /\ UNCHANGED <<load, pipeVars, stderr, drain, relay, output, attempt,
                   result, faultVars>>

DumpSay ==
    /\ dump = "say"
    /\ stderr["dump"] < PipeSize
    /\ dump' = "write"
    /\ stderr' = [stderr EXCEPT !["dump"] = @ + 1]
    /\ UNCHANGED <<load, pipeVars, drain, relay, output, attempt, result,
                   faultVars>>

DumpWrite ==
    /\ dump = "write"
    /\ relay # "over"
    /\ stdout < PipeSize
    /\ dump' = "next"
    /\ written' = written + 1
    /\ stdout' = stdout + 1
    /\ UNCHANGED <<load, loaded, stdin, stderr, drain, relay, output, attempt,
                   result, faultVars>>

\* The end of the dump; or SIGPIPE.
DumpEnds ==
    /\ \/ dump = "next" /\ written = Lines /\ dump' = "ok"
       \/ dump = "write" /\ relay = "over" /\ dump' = "failed"
    /\ UNCHANGED <<load, pipeVars, stderr, drain, relay, output, attempt,
                   result, faultVars>>

\* Any failure of the dump's own: the source goes away, a signal.
DumpFails ==
    /\ dump \notin Exits
    /\ dump' = "failed"
    /\ UNCHANGED <<load, pipeVars, stderr, drain, relay, output, attempt,
                   result, faultVars>>

\* The loader reads a line, and may have something to say about it.
LoadRead ==
    /\ load = "next"
    /\ stdin > 0
    /\ load' \in {"next", "say"}
    /\ stdin' = stdin - 1
    /\ loaded' = loaded + 1
    /\ UNCHANGED <<dump, written, stdout, stderr, drain, relay, output, attempt,
                   result, faultVars>>

LoadSay ==
    /\ load = "say"
    /\ stderr["load"] < PipeSize
    /\ load' = "next"
    /\ stderr' = [stderr EXCEPT !["load"] = @ + 1]
    /\ UNCHANGED <<dump, pipeVars, drain, relay, output, attempt, result,
                   faultVars>>

\* The end of its input, in the middle of the dump as well as after it.
LoadEnds ==
    /\ load = "next"
    /\ stdin = 0
    /\ relay \in {"closing", "over"}
    /\ load' = "ok"
    /\ UNCHANGED <<dump, pipeVars, stderr, drain, relay, output, attempt,
                   result, faultVars>>

\* The first statement that fails (ON_ERROR_STOP), or any failure of its own.
LoadFails ==
    /\ load \notin Exits
    /\ load' = "failed"
    /\ UNCHANGED <<dump, pipeVars, stderr, drain, relay, output, attempt,
                   result, faultVars>>

-----------------------------------------------------------------------------
(* The threads of the worker. *)

\* _relay takes a line; _relay_lines may raise on it (a masking provider that
\* does not exist, a log row that cannot be written).
RelayRead ==
    /\ relay = "read"
    /\ stdout > 0
    /\ stdout' = stdout - 1
    /\ \/ relay' = "write" /\ UNCHANGED relayFaults
       \/ /\ relayFaults < RelayFaults
          /\ relayFaults' = relayFaults + 1
          /\ relay' = "stop"
    /\ UNCHANGED <<dump, load, written, loaded, stdin, stderr, drain, output,
                   attempt, result, logFaults>>

RelayWrite ==
    /\ relay = "write"
    /\ load \notin Exits
    /\ stdin < PipeSize
    /\ relay' = "read"
    /\ stdin' = stdin + 1
    /\ UNCHANGED <<dump, load, written, loaded, stdout, stderr, drain, output,
                   attempt, result, faultVars>>

\* The end of the dump's output, or BrokenPipeError.
RelayStop ==
    /\ \/ relay = "read" /\ stdout = 0 /\ dump \in Exits
       \/ relay = "write" /\ load \in Exits
    /\ relay' = "stop"
    /\ UNCHANGED <<dump, load, pipeVars, stderr, drain, output, attempt, result,
                   faultVars>>

\* The finally of _relay: the loader's input, then the dump's output.
RelayClose ==
    /\ \/ relay = "stop" /\ relay' = "closing"
       \/ relay = "closing" /\ relay' = "over"
    /\ UNCHANGED <<dump, load, pipeVars, stderr, drain, output, attempt, result,
                   faultVars>>

\* A faulty variant: the messages of the loader are left in its pipe.
DrainDump(p) ==
    /\ p = "dump"
    /\ drain[p] = "on"
    /\ stderr[p] > 0
    /\ stderr' = [stderr EXCEPT ![p] = @ - 1]
    /\ output' = TRUE
    /\ UNCHANGED <<dump, load, pipeVars, drain, relay, attempt, result, faultVars>>

\* _drain takes a line and logs it; when log_callback raises, the thread ends
\* and leaves the pipe open and unread.
Drain(p) ==
    /\ drain[p] = "on"
    /\ stderr[p] > 0
    /\ stderr' = [stderr EXCEPT ![p] = @ - 1]
    /\ output' = TRUE
    /\ \/ UNCHANGED <<drain, logFaults>>
       \/ /\ logFaults < LogFaults
          /\ logFaults' = logFaults + 1
          /\ drain' = [drain EXCEPT ![p] = "dead"]
    /\ UNCHANGED <<dump, load, pipeVars, relay, attempt, result, relayFaults>>

State(p) == IF p = "dump" THEN dump ELSE load

DrainEnds(p) ==
    /\ drain[p] = "on"
    /\ stderr[p] = 0
    /\ State(p) \in Exits
    /\ drain' = [drain EXCEPT ![p] = "over"]
    /\ UNCHANGED <<dump, load, pipeVars, stderr, relay, output, attempt, result,
                   faultVars>>

\* The three joins and the two waits of _run_pipe.
Joined ==
    /\ result = "busy"
    /\ \A p \in Processes : drain[p] # "on"
    /\ relay = "over"
    /\ dump \in Exits /\ load \in Exits

\* A faulty variant: the exit code of the last process of the pipeline decides.
LoadSucceeded == load = "ok"

\* Both exit codes are 0.
Succeeded == dump = "ok" /\ load = "ok"

\* execute: Transfer complete.
Complete ==
    /\ Joined
    /\ Succeeded
    /\ result' = "done"
    /\ UNCHANGED <<dump, load, pipeVars, stderr, drain, relay, output, attempt,
                   faultVars>>

\* execute: _check_output finds a message that no retry will mend, whatever the
\* exit codes; or the attempts are used up.
GiveUp ==
    /\ Joined
    /\ output \/ (~Succeeded /\ attempt = Attempts)
    /\ result' = "failed"
    /\ UNCHANGED <<dump, load, pipeVars, stderr, drain, relay, output, attempt,
                   faultVars>>

\* A faulty variant: the attempts are not counted.
TryForever ==
    /\ Joined
    /\ ~Succeeded
    /\ attempt' = attempt + 1
    /\ Restarted
    /\ UNCHANGED <<result, faultVars>>

\* execute: the next attempt; the dump begins with DROP, so nothing of the one
\* before is left.
TryAgain ==
    /\ Joined
    /\ ~Succeeded
    /\ attempt < Attempts
    /\ attempt' = attempt + 1
    /\ Restarted
    /\ UNCHANGED <<result, faultVars>>

\* The steps of each process and thread, of pg_dump | psql as defined above and
\* of mysqldump | mysql, whose handler takes the same ones.
DumpStep  == DumpNext \/ DumpSay \/ DumpWrite \/ DumpEnds
LoadStep  == LoadRead \/ LoadSay \/ LoadEnds
RelayStep == RelayRead \/ RelayWrite \/ RelayStop \/ RelayClose
DrainStep(p) == Drain(p) \/ DrainEnds(p)
MainStep  == Complete \/ GiveUp \/ TryAgain

Next ==
    \/ DumpStep \/ DumpFails
    \/ LoadStep \/ LoadFails
    \/ RelayStep
    \/ \E p \in Processes : DrainStep(p)
    \/ MainStep

\* The operating system schedules every process and every thread.  Nothing
\* obliges a process to fail: a failure must not be what ends a deadlock.
Fairness ==
    /\ WF_vars(DumpStep)
    /\ WF_vars(LoadStep)
    /\ WF_vars(RelayStep)
    /\ \A p \in Processes : WF_vars(DrainStep(p))
    /\ WF_vars(MainStep)

Spec     == Init /\ [][Next]_vars
FairSpec == Spec /\ Fairness

-----------------------------------------------------------------------------
(* Properties *)

\* "Transfer complete" is logged only when the loader has read every line of
\* the dump, whatever else failed, and in whatever order, on the way: unless the
\* relay thread has died of an exception.
DoneIsComplete == result = "done" /\ relayFaults = 0 => loaded = Lines

\* The two processes and the three threads, each waiting on pipes that another
\* one fills or empties, never wait on each other for ever: execute returns,
\* unless a drain thread has died of an exception.
Terminates == result = "busy" ~> result # "busy" \/ logFaults > 0

\* The same of every transfer: complete when it says so.
CompleteIsComplete == result = "done" => loaded = Lines

=============================================================================
