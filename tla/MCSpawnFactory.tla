---------------------------- MODULE MCSpawnFactory ----------------------------
(***************************************************************************)
(* Instances of SpawnFactory for TLC.  s1 is free, s2 is reserved.         *)
(***************************************************************************)
EXTENDS SpawnFactory, TLC

CONSTANTS t1, t2, w1, w2, s1, s2

OneTask    == {t1}
TwoTasks   == {t1, t2}
OneWorker  == {w1}
TwoWorkers == {w1, w2}
OneSlug    == {s1}
TwoSlugs   == {s1, s2}
ReservedSlugs == {s2}

TaskSymmetry      == Permutations(TwoTasks)
TaskWorkerSymmetry == Permutations(TwoTasks) \cup Permutations(TwoWorkers)

=============================================================================
