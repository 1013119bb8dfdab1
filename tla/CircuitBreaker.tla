--------------------------- MODULE CircuitBreaker ---------------------------
(***************************************************************************)
(* What the page of webhook deliveries promises: deliveries to a user are  *)
(* suspended for a while after too many failures in a row.                 *)
(***************************************************************************)
EXTENDS Naturals

CONSTANTS Threshold, Cooldown

VARIABLES
    streak,     \* failed deliveries since the last one that succeeded
    held,       \* deliveries are suspended until this time
    clock

vars == <<streak, held, clock>>

Init == streak = 0 /\ held = 0 /\ clock = 0

Suspended == held > clock

\* A delivery goes out only while none are suspended.
Fail ==
    /\ ~Suspended
    /\ streak' = streak + 1
    /\ held' = IF streak + 1 >= Threshold THEN clock + Cooldown ELSE held
    /\ UNCHANGED clock

Succeed ==
    /\ ~Suspended
    /\ streak' = 0
    /\ held' = 0
    /\ UNCHANGED clock

TimePasses == clock' = clock + 1 /\ UNCHANGED <<streak, held>>

Next == Fail \/ Succeed \/ TimePasses

Spec == Init /\ [][Next]_vars

=============================================================================
