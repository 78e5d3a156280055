---------------------------- MODULE SpawnLifecycle ----------------------------
(***************************************************************************)
(* What the Agent Factory promises about the status column of spawn_tasks: *)
(* every task starts pending and only ever moves along the table of        *)
(* models.py, one permitted transition at a time.                          *)
(***************************************************************************)
EXTENDS SpawnStates

CONSTANT Task            \* the spawn tasks

VARIABLE status          \* status[t]: the state of task t

Init == status = [t \in Task |-> "pending"]

Move(t, dst) ==
    /\ Legal(status[t], dst)
    /\ status' = [status EXCEPT ![t] = dst]

Next == \E t \in Task, dst \in State : Move(t, dst)

Spec == Init /\ [][Next]_status

=============================================================================
