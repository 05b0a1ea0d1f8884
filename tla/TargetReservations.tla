------------------------- MODULE TargetReservations -------------------------
(* What the execution coordinator promises to the goals that run at the     *)
(* same time: a run takes all the devices it names at once or none of them, *)
(* a device belongs to at most one run, and a run gives everything back     *)
(* together.  GoalExecution implements it.                                  *)
CONSTANTS Run, Device, NoRun

VARIABLE holder

Free == [d \in Device |-> NoRun]

Take(r, S) ==
    /\ \A d \in Device : holder[d] # r
    /\ \A d \in S : holder[d] = NoRun
    /\ holder' = [d \in Device |-> IF d \in S THEN r ELSE holder[d]]

Give(r) ==
    holder' = [d \in Device |-> IF holder[d] = r THEN NoRun ELSE holder[d]]

\* The reservations are memory: a restart frees every device.
Reset == holder' = Free

Init == holder = Free

Next ==
    \/ \E r \in Run : Give(r) \/ \E S \in SUBSET Device : Take(r, S)
    \/ Reset

Spec == Init /\ [][Next]_holder
=============================================================================
