--------------------------- MODULE DumpRelayProofs ---------------------------
(***************************************************************************)
(* For every number of lines, size of pipe and number of attempts: a       *)
(* transfer is complete when it says so, unless a relay thread has died;   *)
(* it makes only so many steps; and its processes and threads are never    *)
(* all waiting, unless a drain thread has died.                            *)
(***************************************************************************)
EXTENDS DumpRelay, TLAPS

\* TypeOK in two parts, the control states and the counters.
Control ==
    /\ dump \in {"next", "say", "write"} \cup Exits
    /\ load \in {"next", "say"} \cup Exits
    /\ drain \in [Processes -> {"on", "over", "dead"}]
    /\ relay \in {"read", "write", "stop", "closing", "over"}
    /\ output \in BOOLEAN
    /\ result \in {"busy", "done", "failed"}

Counts ==
    /\ written \in 0 .. Lines
    /\ loaded  \in 0 .. Lines
    /\ stdout  \in 0 .. PipeSize
    /\ stdin   \in 0 .. PipeSize
    /\ stderr  \in [Processes -> 0 .. PipeSize]
    /\ attempt \in 1 .. Attempts
    /\ logFaults \in 0 .. LogFaults
    /\ relayFaults \in 0 .. RelayFaults

InHand == IF relay = "write" THEN 1 ELSE 0

\* No line is relayed twice: those on the way and loaded were all written.
NoneAdded == stdout + InHand + stdin + loaded <= written

\* The dump is at a line only when there is one to write.
LineToWrite == dump \in {"say", "write"} => written < Lines

\* No line is lost on the way: while the loader has not failed, the lines the
\* dump has written are in a pipe, in the hand of the relay thread, or loaded.
Conserved == load # "failed" => written = stdout + InHand + stdin + loaded

\* The relay thread leaves no line behind: it stops when the dump is over and
\* its pipe is empty, or when the loader has failed.
NothingLeft ==
    load # "failed" /\ relay \in {"stop", "closing", "over"}
        => stdout = 0 /\ dump \in Exits

\* The loader ends well only after its input was closed, and empty.
LoadedAll == load = "ok" => relay \in {"closing", "over"} /\ stdin = 0

\* The dump ends well only after its last line.
DumpedAll == dump = "ok" => written = Lines

\* The job is done when both processes have ended well.
DoneSucceeded == result = "done" => dump = "ok" /\ load = "ok"

\* The inductive invariant.  Only a line on which _relay_lines raises breaks
\* the two parts that concern the relay thread.
RelayInv ==
    /\ Control
    /\ Counts
    /\ NoneAdded
    /\ LineToWrite
    /\ relayFaults = 0 => Conserved /\ NothingLeft
    /\ LoadedAll
    /\ DumpedAll
    /\ DoneSucceeded

\* The assumption on the constants, as the provers take it best.
LEMMA Bounds ==
    /\ Lines \in Nat
    /\ PipeSize \in Nat /\ PipeSize > 0
    /\ Attempts \in Nat /\ Attempts > 0
    /\ LogFaults \in Nat
    /\ RelayFaults \in Nat
BY DumpRelayAssumption

\* A fresh pair of processes and of threads has lost nothing.
LEMMA InitInv == Init => RelayInv
<1> SUFFICES ASSUME Init PROVE RelayInv
  OBVIOUS
<1>1. Control
  BY DEF Init, Started, Control
<1>2. Counts
  BY Bounds DEF Init, Started, Counts
<1>3. /\ NoneAdded /\ LineToWrite /\ Conserved /\ NothingLeft
     /\ LoadedAll /\ DumpedAll /\ DoneSucceeded
  BY Bounds DEF Init, Started, NoneAdded, LineToWrite, Conserved,
         NothingLeft, LoadedAll, DumpedAll, DoneSucceeded, InHand
<1> QED
  BY <1>1, <1>2, <1>3 DEF RelayInv

\* The steps of the dump keep the invariant: it writes no line once it is over.
LEMMA DumpKeepsInv == RelayInv /\ (DumpStep \/ DumpFails) => RelayInv'
<1> SUFFICES ASSUME RelayInv, DumpStep \/ DumpFails PROVE RelayInv'
  OBVIOUS
<1> USE Bounds
    DEF RelayInv, Control, Counts, NoneAdded, LineToWrite, Conserved,
        NothingLeft, LoadedAll, DumpedAll, DoneSucceeded, InHand,
        Exits, Processes, pipeVars, faultVars
<1>1. CASE DumpNext
  BY <1>1 DEF DumpNext
<1>2. CASE DumpSay
  BY <1>2 DEF DumpSay
<1>3. CASE DumpWrite
  BY <1>3 DEF DumpWrite
<1>4. CASE DumpEnds
  BY <1>4 DEF DumpEnds
<1>5. CASE DumpFails
  BY <1>5 DEF DumpFails
<1> QED
  BY <1>1, <1>2, <1>3, <1>4, <1>5 DEF DumpStep

\* The steps of the loader keep the invariant: it is the last to end well.
LEMMA LoadKeepsInv == RelayInv /\ (LoadStep \/ LoadFails) => RelayInv'
<1> SUFFICES ASSUME RelayInv, LoadStep \/ LoadFails PROVE RelayInv'
  OBVIOUS
<1> USE Bounds
    DEF RelayInv, Control, Counts, NoneAdded, LineToWrite, Conserved,
        NothingLeft, LoadedAll, DumpedAll, DoneSucceeded, InHand,
        Exits, Processes, pipeVars, faultVars
<1>1. CASE LoadRead
  BY <1>1 DEF LoadRead
<1>2. CASE LoadSay
  BY <1>2 DEF LoadSay
<1>3. CASE LoadEnds
  BY <1>3 DEF LoadEnds
<1>4. CASE LoadFails
  BY <1>4 DEF LoadFails
<1> QED
  BY <1>1, <1>2, <1>3, <1>4 DEF LoadStep

\* The steps of the relay thread keep the invariant: a line it takes is in its
\* hand until it is in the loader's pipe.
LEMMA RelayKeepsInv == RelayInv /\ RelayStep => RelayInv'
<1> SUFFICES ASSUME RelayInv, RelayStep PROVE RelayInv'
  OBVIOUS
<1> USE Bounds
    DEF RelayInv, Control, Counts, NoneAdded, LineToWrite, Conserved,
        NothingLeft, LoadedAll, DumpedAll, DoneSucceeded, InHand,
        Exits, Processes, pipeVars, faultVars
<1>1. CASE RelayRead
  BY <1>1 DEF RelayRead
<1>2. CASE RelayWrite
  BY <1>2 DEF RelayWrite
<1>3. CASE RelayStop
  BY <1>3 DEF RelayStop
<1>4. CASE RelayClose
  BY <1>4 DEF RelayClose
<1> QED
  BY <1>1, <1>2, <1>3, <1>4 DEF RelayStep

\* The threads that drain stderr touch no line of the dump.
LEMMA DrainKeepsInv ==
    ASSUME NEW p \in Processes, RelayInv, DrainStep(p)
    PROVE  RelayInv'
<1> USE DEF RelayInv, Control, Counts, NoneAdded, LineToWrite, Conserved,
        NothingLeft, LoadedAll, DumpedAll, DoneSucceeded, InHand,
        Processes, pipeVars, faultVars
<1>1. CASE Drain(p)
  <2>1. stderr' \in [Processes -> 0 .. PipeSize]
    BY <1>1, Bounds DEF Drain
  <2>2. drain' \in [Processes -> {"on", "over", "dead"}] /\ logFaults' \in 0 .. LogFaults
    BY <1>1, Bounds DEF Drain
  <2> QED
    BY <1>1, <2>1, <2>2 DEF Drain
<1>2. CASE DrainEnds(p)
  BY <1>2 DEF DrainEnds
<1> QED
  BY <1>1, <1>2 DEF DrainStep

\* The main thread completes a transfer only when both exit codes are 0, and
\* starts the next attempt afresh.
LEMMA MainKeepsInv == RelayInv /\ MainStep => RelayInv'
<1> SUFFICES ASSUME RelayInv, MainStep PROVE RelayInv'
  OBVIOUS
<1> USE Bounds
    DEF RelayInv, Control, Counts, NoneAdded, LineToWrite, Conserved,
        NothingLeft, LoadedAll, DumpedAll, DoneSucceeded, InHand,
        Exits, Processes, pipeVars, faultVars
<1>1. CASE Complete
  BY <1>1 DEF Complete, Succeeded
<1>2. CASE GiveUp
  BY <1>2 DEF GiveUp
<1>3. CASE TryAgain
  <2>1. Control'
    BY <1>3 DEF TryAgain, Restarted
  <2>2. Counts'
    BY <1>3 DEF TryAgain, Restarted
  <2>3. (NoneAdded /\ LineToWrite /\ Conserved /\ NothingLeft)'
    BY <1>3 DEF TryAgain, Restarted
  <2> QED
    BY <1>3, <2>1, <2>2, <2>3 DEF TryAgain, Restarted, Joined
<1> QED
  BY <1>1, <1>2, <1>3 DEF MainStep

\* Every step keeps the invariant.
LEMMA StepKeepsInv == RelayInv /\ [Next]_vars => RelayInv'
<1> SUFFICES ASSUME RelayInv, [Next]_vars PROVE RelayInv'
  OBVIOUS
<1>1. CASE UNCHANGED vars
  BY <1>1 DEF RelayInv, Control, Counts, NoneAdded, LineToWrite, Conserved,
              NothingLeft, LoadedAll, DumpedAll, DoneSucceeded, InHand, vars,
              pipeVars, faultVars
<1>2. CASE \E p \in Processes : DrainStep(p)
  BY <1>2, DrainKeepsInv
<1> QED
  BY <1>1, <1>2, DumpKeepsInv, LoadKeepsInv, RelayKeepsInv, MainKeepsInv DEF Next

\* The invariant holds in every reachable state.
THEOREM Inductive == Spec => []RelayInv
<1> QED
  BY InitInv, StepKeepsInv, PTL DEF Spec

\* The variables keep their types; the attempts are bounded.
THEOREM TypeCorrect == Spec => []TypeOK
<1>1. RelayInv => TypeOK
  BY DEF RelayInv, Control, Counts, TypeOK
<1> QED
  BY <1>1, Inductive, PTL

\* Of _run_pipe and execute: when "Transfer complete" is logged and no relay
\* thread has died of an exception, the loader has read every line of the dump.
THEOREM CompleteTransfer == Spec => []DoneIsComplete
<1>1. RelayInv => DoneIsComplete
  BY Bounds
  DEF RelayInv, Control, Counts, NoneAdded, LineToWrite, Conserved,
      NothingLeft, LoadedAll, DumpedAll, DoneSucceeded, DoneIsComplete, InHand, Exits
<1> QED
  BY <1>1, Inductive, PTL

-----------------------------------------------------------------------------
(* The end of a transfer: so many steps, and always one to take *)

\* A bound on the steps that are left: of the dump, for the lines still to come
\* and in its line; for the lines in each pipe on their way to the loader; of
\* the relay thread, the loader, the drains and the main thread.
DumpLeft ==
    9 * (Lines - written) + CASE dump = "next" -> 4 [] dump = "say" -> 3
                              [] dump = "write" -> 1 [] OTHER -> 0
PipesLeft == 5 * stdout + 3 * stdin + stderr["dump"] + stderr["load"]
RelayLeft ==
    CASE relay = "write" -> 7 [] relay = "read" -> 3 [] relay = "stop" -> 2
      [] relay = "closing" -> 1 [] OTHER -> 0
LoadLeft == CASE load = "next" -> 1 [] load = "say" -> 3 [] OTHER -> 0
DrainLeft ==
    (IF drain["dump"] = "on" THEN 1 ELSE 0) + IF drain["load"] = "on" THEN 1 ELSE 0
MainLeft == IF result = "busy" THEN 1 ELSE 0

AttemptLeft ==
    DumpLeft + PipesLeft + RelayLeft + LoadLeft + DrainLeft + MainLeft

\* What a fresh attempt has before it.
AttemptSteps == 9 * Lines + 11

StepsLeft == (Attempts - attempt) * AttemptSteps + AttemptLeft

\* No drain thread waits for a process that has gone, and none dies but of an
\* exception.
DrainsServe ==
    \A p \in Processes : /\ drain[p] = "over" => State(p) \in Exits
                         /\ drain[p] = "dead" => logFaults > 0

\* What each process and each thread may be waiting for: DumpStep, LoadStep,
\* RelayStep, DrainStep(p) and MainStep are enabled if it is there.
DumpCan ==
    \/ dump = "next"
    \/ dump = "say" /\ stderr["dump"] < PipeSize
    \/ dump = "write" /\ (relay = "over" \/ stdout < PipeSize)
LoadCan ==
    \/ load = "next" /\ (stdin > 0 \/ relay \in {"closing", "over"})
    \/ load = "say" /\ stderr["load"] < PipeSize
RelayCan ==
    \/ relay = "read" /\ (stdout > 0 \/ dump \in Exits)
    \/ relay = "write" /\ (load \in Exits \/ stdin < PipeSize)
    \/ relay \in {"stop", "closing"}
DrainCan(p) == drain[p] = "on" /\ (stderr[p] > 0 \/ State(p) \in Exits)
MainCan == Joined

\* While execute has not returned, somebody can go on: the processes and threads
\* never wait on each other in a circle, unless a drain thread has died.
NeverStuck ==
    result = "busy" /\ logFaults = 0 =>
        DumpCan \/ LoadCan \/ RelayCan \/ (\E p \in Processes : DrainCan(p)) \/ MainCan

\* The drain threads are served in the beginning and after every step.
LEMMA DrainsStart == Init => DrainsServe
BY DEF Init, Started, DrainsServe, Processes

\* A process that ends leaves its pipe to the drain thread until that is through.
LEMMA StepServesDrains == RelayInv /\ DrainsServe /\ [Next]_vars => DrainsServe'
<1> SUFFICES ASSUME RelayInv, DrainsServe, [Next]_vars PROVE DrainsServe'
  OBVIOUS
<1> USE DEF DrainsServe, State, Processes, Exits, pipeVars, faultVars
<1>1. CASE UNCHANGED vars
  BY <1>1 DEF vars
<1>2. CASE DumpStep \/ DumpFails
  BY <1>2 DEF DumpStep, DumpNext, DumpSay, DumpWrite, DumpEnds, DumpFails
<1>3. CASE LoadStep \/ LoadFails
  BY <1>3 DEF LoadStep, LoadRead, LoadSay, LoadEnds, LoadFails
<1>4. CASE RelayStep
  BY <1>4 DEF RelayStep, RelayRead, RelayWrite, RelayStop, RelayClose
<1>5. ASSUME NEW p \in Processes, DrainStep(p) PROVE DrainsServe'
  <2>1. CASE Drain(p)
    BY <1>5, <2>1, Bounds DEF Drain, RelayInv, Control, Counts
  <2>2. CASE DrainEnds(p)
    BY <1>5, <2>2 DEF DrainEnds, RelayInv, Control
  <2> QED
    BY <1>5, <2>1, <2>2 DEF DrainStep
<1>6. CASE Complete \/ GiveUp
  BY <1>6 DEF Complete, GiveUp
<1>7. CASE TryAgain
  BY <1>7 DEF TryAgain, Restarted
<1> QED
  BY <1>1, <1>2, <1>3, <1>4, <1>5, <1>6, <1>7 DEF Next, MainStep

\* The parts of the bound are numbers, before and after a step.
LeftNat ==
    /\ DumpLeft \in Nat /\ PipesLeft \in Nat /\ RelayLeft \in Nat
    /\ LoadLeft \in Nat /\ DrainLeft \in Nat
    /\ MainLeft \in Nat /\ AttemptLeft \in Nat /\ AttemptSteps \in Nat

\* They are in every state of the invariant.
LEMMA LeftIsNat == RelayInv => LeftNat
<1> SUFFICES ASSUME RelayInv PROVE LeftNat
  OBVIOUS
<1> USE Bounds DEF RelayInv, Control, Counts, Exits, Processes
<1>1. DumpLeft \in Nat
  BY DEF DumpLeft
<1>2. PipesLeft \in Nat
  BY DEF PipesLeft
<1>3. RelayLeft \in Nat /\ LoadLeft \in Nat
  BY DEF RelayLeft, LoadLeft
<1>4. DrainLeft \in Nat /\ MainLeft \in Nat
  BY DEF DrainLeft, MainLeft
<1> QED
  BY <1>1, <1>2, <1>3, <1>4 DEF LeftNat, AttemptLeft, AttemptSteps

\* They are after any step, since RelayInv holds there.
LEMMA LeftStaysNat == RelayInv /\ [Next]_vars => LeftNat /\ LeftNat'
BY StepKeepsInv, LeftIsNat, PTL

\* The steps of the dump, of the loader, of the relay thread and of the drains
\* come off the attempt.
LEMMA DumpCounts ==
    RelayInv /\ (DumpStep \/ DumpFails) => AttemptLeft' < AttemptLeft /\ attempt' = attempt
<1> SUFFICES ASSUME RelayInv, DumpStep \/ DumpFails
             PROVE  AttemptLeft' < AttemptLeft /\ attempt' = attempt
  OBVIOUS
<1> USE DEF pipeVars, faultVars
<1>2. /\ UNCHANGED <<relay, load, drain, result, attempt>>
      /\ RelayLeft' = RelayLeft /\ LoadLeft' = LoadLeft /\ MainLeft' = MainLeft
      /\ DrainLeft' = DrainLeft
  BY DEF DumpStep, DumpNext, DumpSay, DumpWrite, DumpEnds, DumpFails,
         RelayLeft, LoadLeft, MainLeft, DrainLeft
<1>4. LeftNat /\ LeftNat'
  BY LeftStaysNat DEF Next
<1>3. DumpLeft' + PipesLeft' < DumpLeft + PipesLeft
  <2> USE Bounds DEF RelayInv, Control, Counts, Exits, Processes, DumpLeft, PipesLeft
  <2>1. CASE DumpNext
    BY <2>1 DEF DumpNext
  <2>2. CASE DumpSay
    BY <2>2 DEF DumpSay
  <2>3. CASE DumpWrite
    BY <2>3 DEF DumpWrite
  <2>4. CASE DumpEnds
    BY <2>4 DEF DumpEnds
  <2>5. CASE DumpFails
    BY <2>5 DEF DumpFails
  <2> QED
    BY <2>1, <2>2, <2>3, <2>4, <2>5 DEF DumpStep
<1>5. AttemptLeft' < AttemptLeft
  <2>1. PICK n \in Nat, p \in Nat : n = DumpLeft' /\ p = PipesLeft'
    BY <1>4 DEF LeftNat
  <2>2. AttemptLeft' = n + p + RelayLeft + LoadLeft + DrainLeft + MainLeft
    BY <1>2, <2>1 DEF AttemptLeft
  <2>3. n + p < DumpLeft + PipesLeft
    BY <1>3, <2>1
  <2>4. AttemptLeft = DumpLeft + PipesLeft + RelayLeft + LoadLeft + DrainLeft + MainLeft
    BY DEF AttemptLeft
  <2>5. /\ DumpLeft \in Nat /\ PipesLeft \in Nat /\ RelayLeft \in Nat
        /\ LoadLeft \in Nat /\ DrainLeft \in Nat /\ MainLeft \in Nat
    BY <1>4 DEF LeftNat
  <2> QED
    BY <2>2, <2>3, <2>4, <2>5
<1> QED
  BY <1>2, <1>5

\* The loader reads a line, writes about it, or ends.
LEMMA LoadCounts ==
    RelayInv /\ (LoadStep \/ LoadFails) => AttemptLeft' < AttemptLeft /\ attempt' = attempt
<1> SUFFICES ASSUME RelayInv, LoadStep \/ LoadFails
             PROVE  AttemptLeft' < AttemptLeft /\ attempt' = attempt
  OBVIOUS
<1> USE DEF pipeVars, faultVars
<1>2. /\ UNCHANGED attempt
      /\ DumpLeft' = DumpLeft /\ RelayLeft' = RelayLeft /\ MainLeft' = MainLeft
      /\ DrainLeft' = DrainLeft
  BY DEF LoadStep, LoadRead, LoadSay, LoadEnds, LoadFails,
         RelayLeft, DumpLeft, MainLeft, DrainLeft
<1>4. LeftNat /\ LeftNat'
  BY LeftStaysNat DEF Next
<1>3. LoadLeft' + PipesLeft' < LoadLeft + PipesLeft
  <2> USE Bounds DEF RelayInv, Control, Counts, Exits, Processes, LoadLeft, PipesLeft
  <2>1. CASE LoadRead
    BY <2>1 DEF LoadRead
  <2>2. CASE LoadSay
    BY <2>2 DEF LoadSay
  <2>3. CASE LoadEnds
    BY <2>3 DEF LoadEnds
  <2>4. CASE LoadFails
    BY <2>4 DEF LoadFails
  <2> QED
    BY <2>1, <2>2, <2>3, <2>4 DEF LoadStep
<1>5. AttemptLeft' < AttemptLeft
  <2>1. PICK n \in Nat, p \in Nat : n = LoadLeft' /\ p = PipesLeft'
    BY <1>4 DEF LeftNat
  <2>2. AttemptLeft' = DumpLeft + p + RelayLeft + n + DrainLeft + MainLeft
    BY <1>2, <2>1 DEF AttemptLeft
  <2>3. n + p < LoadLeft + PipesLeft
    BY <1>3, <2>1
  <2>4. AttemptLeft = DumpLeft + PipesLeft + RelayLeft + LoadLeft + DrainLeft + MainLeft
    BY DEF AttemptLeft
  <2>5. /\ DumpLeft \in Nat /\ PipesLeft \in Nat /\ RelayLeft \in Nat
        /\ LoadLeft \in Nat /\ DrainLeft \in Nat /\ MainLeft \in Nat
    BY <1>4 DEF LeftNat
  <2> QED
    BY <2>2, <2>3, <2>4, <2>5
<1> QED
  BY <1>2, <1>5

\* The relay thread takes a line on or closes the two pipes.
LEMMA RelayCounts ==
    RelayInv /\ RelayStep => AttemptLeft' < AttemptLeft /\ attempt' = attempt
<1> SUFFICES ASSUME RelayInv, RelayStep
             PROVE  AttemptLeft' < AttemptLeft /\ attempt' = attempt
  OBVIOUS
<1> USE DEF pipeVars, faultVars
<1>2. /\ UNCHANGED attempt
      /\ DumpLeft' = DumpLeft /\ LoadLeft' = LoadLeft /\ MainLeft' = MainLeft
      /\ DrainLeft' = DrainLeft
  BY DEF RelayStep, RelayRead, RelayWrite, RelayStop, RelayClose,
         LoadLeft, DumpLeft, MainLeft, DrainLeft
<1>4. LeftNat /\ LeftNat'
  BY LeftStaysNat DEF Next
<1>3. RelayLeft' + PipesLeft' < RelayLeft + PipesLeft
  <2> USE Bounds DEF RelayInv, Control, Counts, Exits, Processes, RelayLeft, PipesLeft
  <2>1. CASE RelayRead
    BY <2>1 DEF RelayRead
  <2>2. CASE RelayWrite
    BY <2>2 DEF RelayWrite
  <2>3. CASE RelayStop
    BY <2>3 DEF RelayStop
  <2>4. CASE RelayClose
    BY <2>4 DEF RelayClose
  <2> QED
    BY <2>1, <2>2, <2>3, <2>4 DEF RelayStep
<1>5. AttemptLeft' < AttemptLeft
  <2>1. PICK n \in Nat, p \in Nat : n = RelayLeft' /\ p = PipesLeft'
    BY <1>4 DEF LeftNat
  <2>2. AttemptLeft' = DumpLeft + p + n + LoadLeft + DrainLeft + MainLeft
    BY <1>2, <2>1 DEF AttemptLeft
  <2>3. n + p < RelayLeft + PipesLeft
    BY <1>3, <2>1
  <2>4. AttemptLeft = DumpLeft + PipesLeft + RelayLeft + LoadLeft + DrainLeft + MainLeft
    BY DEF AttemptLeft
  <2>5. /\ DumpLeft \in Nat /\ PipesLeft \in Nat /\ RelayLeft \in Nat
        /\ LoadLeft \in Nat /\ DrainLeft \in Nat /\ MainLeft \in Nat
    BY <1>4 DEF LeftNat
  <2> QED
    BY <2>2, <2>3, <2>4, <2>5
<1> QED
  BY <1>2, <1>5

\* A drain thread takes a message out of its pipe or ends.
LEMMA DrainCounts ==
    ASSUME NEW p \in Processes
    PROVE  RelayInv /\ DrainStep(p) => AttemptLeft' < AttemptLeft /\ attempt' = attempt
<1> SUFFICES ASSUME RelayInv, DrainStep(p)
             PROVE  AttemptLeft' < AttemptLeft /\ attempt' = attempt
  OBVIOUS
<1> USE DEF pipeVars, faultVars
<1>2. /\ UNCHANGED attempt
      /\ DumpLeft' = DumpLeft /\ LoadLeft' = LoadLeft /\ MainLeft' = MainLeft
      /\ RelayLeft' = RelayLeft
  BY DEF DrainStep, Drain, DrainEnds, LoadLeft, DumpLeft, MainLeft, RelayLeft
<1>4. LeftNat /\ LeftNat'
  BY LeftStaysNat DEF Next
<1>3. DrainLeft' + PipesLeft' < DrainLeft + PipesLeft
  <2> USE Bounds DEF RelayInv, Control, Counts, Exits, Processes, PipesLeft, DrainLeft
  <2>1. CASE Drain(p)
    <3>1. PipesLeft' < PipesLeft
      BY <2>1 DEF Drain
    <3>2. DrainLeft' <= DrainLeft
      BY <2>1 DEF Drain
    <3>3. PICK n \in Nat, m \in Nat : n = DrainLeft' /\ m = PipesLeft'
      BY <1>4 DEF LeftNat
    <3>4. DrainLeft \in Nat /\ PipesLeft \in Nat
      BY <1>4 DEF LeftNat
    <3> HIDE DEF PipesLeft, DrainLeft
    <3>5. m < PipesLeft /\ n <= DrainLeft
      BY <3>1, <3>2, <3>3
    <3>6. n + m < DrainLeft + PipesLeft
      BY <3>4, <3>5
    <3> QED
      BY <3>3, <3>6
  <2>2. CASE DrainEnds(p)
    BY <2>2 DEF DrainEnds
  <2> QED
    BY <2>1, <2>2 DEF DrainStep
<1>5. AttemptLeft' < AttemptLeft
  <2>1. PICK n \in Nat, m \in Nat : n = DrainLeft' /\ m = PipesLeft'
    BY <1>4 DEF LeftNat
  <2>2. AttemptLeft' = DumpLeft + m + RelayLeft + LoadLeft + n + MainLeft
    BY <1>2, <2>1 DEF AttemptLeft
  <2>3. n + m < DrainLeft + PipesLeft
    BY <1>3, <2>1
  <2>4. AttemptLeft = DumpLeft + PipesLeft + RelayLeft + LoadLeft + DrainLeft + MainLeft
    BY DEF AttemptLeft
  <2>5. /\ DumpLeft \in Nat /\ PipesLeft \in Nat /\ RelayLeft \in Nat
        /\ LoadLeft \in Nat /\ DrainLeft \in Nat /\ MainLeft \in Nat
    BY <1>4 DEF LeftNat
  <2> QED
    BY <2>2, <2>3, <2>4, <2>5
<1> QED
  BY <1>2, <1>5

\* The main thread ends the transfer, which counts as a step, or spends an attempt.
LEMMA MainCounts == RelayInv /\ MainStep => StepsLeft' < StepsLeft
<1> SUFFICES ASSUME RelayInv, MainStep PROVE StepsLeft' < StepsLeft
  OBVIOUS
<1> USE DEF pipeVars, faultVars
<1>1. LeftNat /\ LeftNat'
  BY LeftStaysNat DEF Next
<1>2. attempt \in Nat /\ attempt <= Attempts /\ Attempts \in Nat
  BY Bounds DEF RelayInv, Counts
<1>3. (Attempts - attempt) * AttemptSteps \in Nat
  BY <1>1, <1>2 DEF LeftNat
<1>4. CASE Complete \/ GiveUp
  <2>1. MainLeft' < MainLeft
    BY <1>4 DEF Complete, GiveUp, Joined, MainLeft
  <2>2. /\ UNCHANGED attempt
        /\ DumpLeft' = DumpLeft /\ LoadLeft' = LoadLeft /\ RelayLeft' = RelayLeft
        /\ PipesLeft' = PipesLeft
        /\ DrainLeft' = DrainLeft
    BY <1>4 DEF Complete, GiveUp, LoadLeft, DumpLeft, PipesLeft, DrainLeft, RelayLeft
  <2>3. AttemptLeft' < AttemptLeft
    <3>1. PICK n \in Nat : n = MainLeft'
      BY <1>1 DEF LeftNat
    <3>2. AttemptLeft' = DumpLeft + PipesLeft + RelayLeft + LoadLeft + DrainLeft + n
      BY <2>2, <3>1 DEF AttemptLeft
    <3>3. AttemptLeft = DumpLeft + PipesLeft + RelayLeft + LoadLeft + DrainLeft + MainLeft
      BY DEF AttemptLeft
    <3>4. /\ DumpLeft \in Nat /\ PipesLeft \in Nat /\ RelayLeft \in Nat
          /\ LoadLeft \in Nat /\ DrainLeft \in Nat /\ MainLeft \in Nat
      BY <1>1 DEF LeftNat
    <3>5. n < MainLeft
      BY <2>1, <3>1
    <3> QED
      BY <3>2, <3>3, <3>4, <3>5
  <2>4. (Attempts - attempt') * AttemptSteps = (Attempts - attempt) * AttemptSteps
    BY <2>2
  <2> QED
    BY <2>3, <2>4, <1>1, <1>3 DEF StepsLeft, LeftNat, AttemptSteps
<1>5. CASE TryAgain
  <2>1. AttemptLeft' = AttemptSteps
    BY <1>5, Bounds
    DEF TryAgain, Restarted, Joined, AttemptLeft, AttemptSteps, DumpLeft, PipesLeft,
        RelayLeft, LoadLeft, DrainLeft, MainLeft, Processes
  <2>2. AttemptLeft > 0
    BY <1>5, <1>1 DEF TryAgain, Joined, AttemptLeft, LeftNat, MainLeft
  <2>3. attempt' = attempt + 1 /\ attempt < Attempts
    BY <1>5 DEF TryAgain
  <2>4. \A a, c \in Nat : a > 0 => (a - 1) * c = a * c - c
    OBVIOUS
  <2>5. (Attempts - attempt') * AttemptSteps = (Attempts - attempt) * AttemptSteps - AttemptSteps
    <3>1. Attempts - attempt' = (Attempts - attempt) - 1 /\ Attempts - attempt \in Nat /\ Attempts - attempt > 0
      BY <1>2, <2>3
    <3>2. AttemptSteps \in Nat
      BY <1>1 DEF LeftNat
    <3> QED
      BY <2>4, <3>1, <3>2
  <2> QED
    BY <2>1, <2>2, <2>5, <1>1, <1>3 DEF StepsLeft, LeftNat, AttemptSteps
<1> QED
  BY <1>4, <1>5 DEF MainStep

\* Every step, one that fails included, takes at least one off the bound.
LEMMA StepCounts == RelayInv /\ Next => StepsLeft' < StepsLeft
<1> SUFFICES ASSUME RelayInv, Next PROVE StepsLeft' < StepsLeft
  OBVIOUS
<1>1. CASE MainStep
  BY <1>1, MainCounts
<1>2. CASE ~MainStep
  <2>1. AttemptLeft' < AttemptLeft /\ attempt' = attempt
    BY <1>2, DumpCounts, LoadCounts, RelayCounts, DrainCounts DEF Next
  <2>2. LeftNat /\ LeftNat'
    BY LeftStaysNat
  <2>3. (Attempts - attempt) * AttemptSteps \in Nat
    BY <2>2, Bounds DEF LeftNat, RelayInv, Counts
  <2>4. (Attempts - attempt') * AttemptSteps = (Attempts - attempt) * AttemptSteps
    BY <2>1
  <2>5. StepsLeft' = (Attempts - attempt') * AttemptSteps + AttemptLeft'
    BY DEF StepsLeft, AttemptSteps
  <2> QED
    BY <2>1, <2>2, <2>3, <2>4, <2>5 DEF StepsLeft, LeftNat
<1> QED
  BY <1>1, <1>2

\* A transfer begins with AttemptSteps for each attempt, and has never less than
\* nothing left.
LEMMA InitBounded == Init => StepsLeft = Attempts * AttemptSteps
<1> SUFFICES ASSUME Init PROVE StepsLeft = Attempts * AttemptSteps
  OBVIOUS
<1>1. AttemptLeft = AttemptSteps
  BY Bounds DEF Init, Started, AttemptLeft, AttemptSteps, DumpLeft, PipesLeft,
                RelayLeft, LoadLeft, DrainLeft, MainLeft, Processes
<1>2. \A a, c \in Nat : a > 0 => (a - 1) * c + c = a * c
  OBVIOUS
<1>3. AttemptSteps \in Nat
  BY Bounds DEF AttemptSteps
<1> QED
  BY <1>1, <1>2, <1>3, Bounds DEF StepsLeft, Init

\* The bound is a number,
LEMMA InvBounded == RelayInv => StepsLeft \in Nat
<1> SUFFICES ASSUME RelayInv PROVE StepsLeft \in Nat
  OBVIOUS
<1>1. LeftNat
  BY LeftIsNat
<1>2. (Attempts - attempt) * AttemptSteps \in Nat
  BY <1>1, Bounds DEF LeftNat, RelayInv, Counts
<1> QED
  BY <1>1, <1>2 DEF StepsLeft, LeftNat

\* before and after a step.
LEMMA StepBounded == RelayInv /\ [Next]_vars => StepsLeft' \in Nat
<1> SUFFICES ASSUME RelayInv, [Next]_vars PROVE StepsLeft' \in Nat
  OBVIOUS
<1>1. LeftNat'
  BY LeftStaysNat
<1>2. (Attempts - attempt') * AttemptSteps \in Nat
  BY <1>1, StepKeepsInv, Bounds DEF AttemptSteps, RelayInv, Counts
<1> QED
  BY <1>1, <1>2 DEF StepsLeft, LeftNat, AttemptSteps

\* There are never more steps left than there were in the beginning.
AtMost == StepsLeft \in 0 .. Attempts * AttemptSteps

\* A step that takes something off leaves no more than there was.
LEMMA StepKeepsAtMost ==
    RelayInv /\ AtMost /\ [Next]_vars => AtMost' /\ [StepsLeft' < StepsLeft]_vars
<1> SUFFICES ASSUME RelayInv, AtMost, [Next]_vars
             PROVE  AtMost' /\ [StepsLeft' < StepsLeft]_vars
  OBVIOUS
<1>1. AttemptSteps' = AttemptSteps /\ Attempts * AttemptSteps \in Nat
  BY Bounds DEF AttemptSteps
<1>2. StepsLeft' \in Nat /\ StepsLeft \in Nat
  BY StepBounded, InvBounded
<1>3. CASE Next
  BY <1>1, <1>2, <1>3, StepCounts DEF AtMost
<1>4. CASE UNCHANGED vars
  <2>1. StepsLeft' = StepsLeft
    BY <1>4 DEF vars, pipeVars, faultVars, StepsLeft, AttemptSteps, AttemptLeft, DumpLeft,
                PipesLeft, RelayLeft, LoadLeft, DrainLeft, MainLeft
  <2> QED
    BY <1>1, <1>4, <2>1 DEF AtMost
<1> QED
  BY <1>3, <1>4

\* Of _run_pipe and execute: however the processes and threads interleave and
\* whatever fails, a transfer makes at most Attempts * (9 * Lines + 11) steps.
THEOREM StepsEnd == Spec => []AtMost /\ [][StepsLeft' < StepsLeft]_vars
<1>1. Init => AtMost
  BY InitBounded, InitInv, InvBounded DEF AtMost
<1> QED
  BY <1>1, InitInv, StepKeepsInv, StepKeepsAtMost, PTL DEF Spec

\* Of _run_pipe: as long as execute has not returned some process or thread can go
\* on, unless log_callback has raised in a drain thread.
THEOREM NotStuck == Spec => []NeverStuck
<1>1. RelayInv /\ DrainsServe => NeverStuck
  <2> SUFFICES ASSUME RelayInv, DrainsServe, result = "busy", logFaults = 0,
                      ~DumpCan, ~LoadCan, ~RelayCan,
                      \A p \in Processes : ~DrainCan(p)
               PROVE  MainCan
    BY DEF NeverStuck
  <2> USE Bounds DEF RelayInv, Control, Counts, DrainsServe, Processes, State, Exits
  <2>1. \A p \in Processes : drain[p] = "on" => stderr[p] = 0 /\ State(p) \notin Exits
    BY DEF DrainCan
  <2>2. \A p \in Processes : drain[p] # "dead"
    OBVIOUS
  <2>3. dump # "say" /\ load # "say"
    BY <2>1, <2>2 DEF DumpCan, LoadCan
  <2>4. dump \in Exits
    BY <2>3 DEF DumpCan, LoadCan, RelayCan
  <2>5. relay = "over"
    BY <2>3, <2>4 DEF LoadCan, RelayCan
  <2>6. load \in Exits
    BY <2>3, <2>5 DEF LoadCan
  <2> QED
    BY <2>1, <2>2, <2>4, <2>5, <2>6 DEF MainCan, Joined
<1> QED
  BY <1>1, Inductive, InitInv, StepKeepsInv, DrainsStart, StepServesDrains, PTL DEF Spec

=============================================================================
