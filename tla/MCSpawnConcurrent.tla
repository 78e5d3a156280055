--------------------------- MODULE MCSpawnConcurrent ---------------------------
(***************************************************************************)
(* Processes of the Agent Factory that race each other, for TLC: those     *)
(* that work on tasks, and those that create them.  Neither needs anything *)
(* of the other; a behaviour is about one of them, chosen at the start.    *)
(* TaskWorkerSymmetry exchanges tasks and w1, w2; users and w3 stay.       *)
(***************************************************************************)
EXTENDS MCSpawnFactory, SpawnAdmission

CONSTANTS u1, u2, w3

VARIABLE about

TwoUsers      == {u1, u2}
ThreeCreators == {w1, w2, w3}

mcVars == <<about, vars, admissionVars>>

MCInit ==
    /\ about \in {"tasks", "admission"}
    /\ Init /\ AdmissionInit
    /\ about = "admission" => slug = [t \in Task |-> s1]

MCNext ==
    \/ about = "tasks" /\ Next /\ UNCHANGED <<about, admissionVars>>
    \/ about = "admission" /\ AdmissionNext /\ UNCHANGED <<about, vars>>

MCSpec == MCInit /\ [][MCNext]_mcVars

=============================================================================
