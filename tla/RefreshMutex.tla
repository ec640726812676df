---------------------------- MODULE RefreshMutex ----------------------------
(***************************************************************************)
(* What the refresh guard promises, with no handler in sight: every        *)
(* project root has one refresh slot, a task takes a free slot before it   *)
(* touches the index and gives back the slot it holds, and the end of the  *)
(* process frees every slot.                                               *)
(***************************************************************************)
CONSTANTS Roots,     \* project root keys
          Tasks,     \* server tasks that may run a refresh
          Nobody     \* the holder of a free slot, not a task

VARIABLE holder      \* holder[r]: the task whose refresh of r is in progress

Init == holder = [r \in Roots |-> Nobody]

Acquire(t, r) ==
    /\ holder[r] = Nobody
    /\ \A s \in Roots : holder[s] # t
    /\ holder' = [holder EXCEPT ![r] = t]

Release(t, r) ==
    /\ holder[r] = t
    /\ holder' = [holder EXCEPT ![r] = Nobody]

Exit == holder' = [r \in Roots |-> Nobody]

Next ==
    \/ \E t \in Tasks, r \in Roots : Acquire(t, r) \/ Release(t, r)
    \/ Exit

Spec == Init /\ [][Next]_holder
=============================================================================
