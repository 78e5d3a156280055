---------------------------- MODULE SpawnAdmission ----------------------------
(***************************************************************************)
(* Admission of spawn tasks (agent_factory/pipeline.py, create_spawn_task, *)
(* and agent_factory/repos.py): every command is a process of its own on   *)
(* one SQLite file, that counts the user's tasks of today and, below the   *)
(* daily cap, stamps a new task with the time and inserts it.  The count,  *)
(* the stamp and the insert are three steps; midnight may come between any *)
(* two, and a process may die.                                             *)
(*                                                                         *)
(* Abstractions: a time is its day; a task is counted, not kept.  The      *)
(* refusal of hostile text comes before the count and changes nothing.     *)
(***************************************************************************)
EXTENDS Integers, FiniteSets

CONSTANTS
    User,
    Creator,    \* the processes that may run at the same time
    NoUser,     \* whom an idle process serves
    Cap,        \* Config.daily_cap
    LastDay     \* bound: the days that pass

Day == 1 .. LastDay

ASSUME AdmissionAssumption ==
    /\ IsFiniteSet(Creator) /\ Creator # {}
    /\ NoUser \notin User
    /\ Cap \in Nat
    /\ LastDay \in Nat \ {0}

VARIABLES
    day,        \* today
    created,    \* created[u][d]: u's tasks with a created_at on day d
    pc,         \* pc[w]: "idle", "counted" or "stamped"
    who,        \* who[w]: the user w serves
    on          \* on[w]: the day w has stamped, 0 before

admissionVars == <<day, created, pc, who, on>>

AdmissionInit ==
    /\ day = 1
    /\ created = [u \in User |-> [d \in Day |-> 0]]
    /\ pc = [w \in Creator |-> "idle"]
    /\ who = [w \in Creator |-> NoUser]
    /\ on = [w \in Creator |-> 0]

\* count_today: the tasks stamped today or later, which are those of today.
Used(u) == created[u][day]

\* A faulty Count that admits at the cap.
CountOffByOne(w, u) ==
    /\ pc[w] = "idle"
    /\ Used(u) <= Cap
    /\ pc' = [pc EXCEPT ![w] = "counted"]
    /\ who' = [who EXCEPT ![w] = u]
    /\ UNCHANGED <<day, created, on>>

\* create_spawn_task up to the cap; at the cap it raises and nothing changes.
Count(w, u) ==
    /\ pc[w] = "idle"
    /\ Used(u) < Cap
    /\ pc' = [pc EXCEPT ![w] = "counted"]
    /\ who' = [who EXCEPT ![w] = u]
    /\ UNCHANGED <<day, created, on>>

\* A faulty Stamp that does not look at the clock.
StampNothing(w) ==
    /\ pc[w] = "counted"
    /\ pc' = [pc EXCEPT ![w] = "stamped"]
    /\ UNCHANGED <<day, created, who, on>>

\* SpawnTaskRepo.create, the time of the row.
Stamp(w) ==
    /\ pc[w] = "counted"
    /\ pc' = [pc EXCEPT ![w] = "stamped"]
    /\ on' = [on EXCEPT ![w] = day]
    /\ UNCHANGED <<day, created, who>>

\* SpawnTaskRepo.create, the row; the command ends.
Insert(w) ==
    /\ pc[w] = "stamped"
    /\ created' = [created EXCEPT ![who[w]][on[w]] = @ + 1]
    /\ pc' = [pc EXCEPT ![w] = "idle"]
    /\ who' = [who EXCEPT ![w] = NoUser]
    /\ on' = [on EXCEPT ![w] = 0]
    /\ UNCHANGED day

\* The process is killed before its insert.
Die(w) ==
    /\ pc[w] # "idle"
    /\ pc' = [pc EXCEPT ![w] = "idle"]
    /\ who' = [who EXCEPT ![w] = NoUser]
    /\ on' = [on EXCEPT ![w] = 0]
    /\ UNCHANGED <<day, created>>

\* Midnight, by UTC.
Midnight ==
    /\ day < LastDay
    /\ day' = day + 1
    /\ UNCHANGED <<created, pc, who, on>>

AdmissionNext ==
    \/ \E w \in Creator :
           \/ \E u \in User : Count(w, u)
           \/ Stamp(w) \/ Insert(w) \/ Die(w)
    \/ Midnight

AdmissionSpec == AdmissionInit /\ [][AdmissionNext]_admissionVars

-----------------------------------------------------------------------------
\* Types: an idle process serves no one, a busy one a user, and only a stamped
\* one has a day.
AdmissionTypeOK ==
    /\ day \in Day
    /\ created \in [User -> [Day -> Nat]]
    /\ pc \in [Creator -> {"idle", "counted", "stamped"}]
    /\ who \in [Creator -> User \cup {NoUser}]
    /\ on \in [Creator -> Day \cup {0}]
    /\ \A w \in Creator :
           /\ pc[w] # "idle" => who[w] \in User
           /\ pc[w] = "stamped" => on[w] \in 1 .. day

\* The cap is exceeded by less than the number of processes that run at the same
\* time, on every day, however the counts, the inserts and midnight interleave.
DailyCapBound ==
    \A u \in User, d \in Day : created[u][d] <= Cap + Cardinality(Creator) - 1

-----------------------------------------------------------------------------
(* Why DailyCapBound holds. *)

\* The processes whose task will be one of u's of day d if day d is not over.
Heading(u, d) ==
    {w \in Creator : /\ who[w] = u
                    /\ \/ pc[w] = "counted" /\ d = day
                       \/ pc[w] = "stamped" /\ on[w] = d}

\* Counting what is on its way, the bound is kept; no task is stamped ahead; a
\* process that passed the cap shows that the cap is not zero.
AdmissionInv ==
    /\ AdmissionTypeOK
    /\ \A u \in User, d \in Day :
           created[u][d] + Cardinality(Heading(u, d)) <= Cap + Cardinality(Creator) - 1
    /\ \A u \in User, d \in Day : d > day => created[u][d] = 0
    /\ \A w \in Creator : pc[w] # "idle" => Cap > 0

=============================================================================
