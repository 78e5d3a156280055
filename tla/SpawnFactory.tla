----------------------------- MODULE SpawnFactory -----------------------------
(***************************************************************************)
(* The Agent Factory: command-line processes that run the spawn pipeline,  *)
(* approve and reject proposals, all on one SQLite database.               *)
(*                                                                         *)
(* Every repository call commits on its own (agent_factory/repos.py), so a *)
(* command is a sequence of separate database steps, other processes act   *)
(* between any two of them, and a process may die between any two.  A      *)
(* status transition is itself two steps: SpawnTaskRepo.transition reads   *)
(* the row and checks the table, and only then updates the row with a      *)
(* WHERE clause on the id alone.                                           *)
(*                                                                         *)
(* Abstractions: a system prompt is the number of the revision round that  *)
(* wrote it (0 is "no manifest yet"); of a manifest only slug and prompt   *)
(* are kept; the LLM, the search and the spec file either succeed or raise.*)
(***************************************************************************)
EXTENDS Integers, FiniteSets, SpawnStates

CONSTANTS
    Task,           \* ids of the spawn tasks, all created by create_spawn_task
    Worker,         \* the command-line processes that may run at once
    Slug,           \* what slugify can make of a name hint
    Reserved,       \* config.reserved_slugs
    MaxRevisions,   \* config.max_revision_iterations
    MayCrash,       \* whether a process may die in the middle of a command
    NoTask          \* the task of a process that runs no command

ASSUME FactoryAssumption ==
    /\ Reserved \subseteq Slug
    /\ MaxRevisions \in Nat \ {0}
    /\ MayCrash \in BOOLEAN
    /\ NoTask \notin Task

VARIABLES
    \* table spawn_tasks
    status,         \* status[t]
    slug,           \* slug[t]: slugify(name_hint), never updated
    researched,     \* the tasks whose research_report_id is set
    manifest,       \* manifest[t]: prompt of proposed_manifest, 0 when NULL
    iterations,     \* iterations[t]: approval_iterations
    errored,        \* the tasks whose error is set
    \* table spawned_agents
    agents,         \* the rows, each [slug, task, prompt]
    \* the processes
    proc            \* proc[w]: where the command of process w stands

db   == <<status, slug, researched, manifest, iterations, errored, agents>>
vars == <<status, slug, researched, manifest, iterations, errored, agents, proc>>

-----------------------------------------------------------------------------
(* Program points.  A "to..." point is a call of SpawnTaskRepo.transition. *)

RunPoints == {"pickSlug", "toResearching", "research", "toDrafting", "writeSpec",
              "toWriting", "genPrompt", "setManifest", "toAwaiting"}
FailPoints    == {"setError", "toFailed"}         \* the except clause of run
ApprovePoints == {"saveAgent", "toApproved"}
RejectPoints  == {"toRejected", "capError", "capFailed", "bump", "rollback",
                  "regenerate", "setRevised", "backToAwaiting"}
Points == RunPoints \cup FailPoints \cup ApprovePoints \cup RejectPoints \cup {"idle"}

TransitionPoints == {"toResearching", "toDrafting", "toWriting", "toAwaiting", "toFailed",
                     "toApproved", "toRejected", "capFailed", "rollback", "backToAwaiting"}

\* The destination each transition call names.
Dst(pc) ==
    CASE pc = "toResearching"                    -> "researching"
      [] pc = "toDrafting"                       -> "drafting_spec"
      [] pc \in {"toWriting", "rollback"}        -> "writing_prompt"
      [] pc \in {"toAwaiting", "backToAwaiting"} -> "awaiting_approval"
      [] pc = "toApproved"                       -> "approved"
      [] pc = "toRejected"                       -> "rejected"
      [] OTHER                                   -> "failed"

\* The point a command goes on to when the transition call returns.
After(pc) ==
    CASE pc = "toResearching" -> "research"
      [] pc = "toDrafting"    -> "writeSpec"
      [] pc = "toWriting"     -> "genPrompt"
      [] pc = "rollback"      -> "regenerate"
      [] OTHER                -> "idle"

Idle == [pc |-> "idle", task |-> NoTask, armed |-> FALSE, prompt |-> 0]

Goto(w, pc) == proc' = [proc EXCEPT ![w].pc = pc, ![w].armed = FALSE]

Hold(w, pc, p) == proc' = [proc EXCEPT ![w].pc = pc, ![w].prompt = p]

\* Variant with a fault: the command ends and its process keeps the task.
ReturnKeepingTask(w) == proc' = [proc EXCEPT ![w].pc = "idle", ![w].armed = FALSE]

Return(w) == proc' = [proc EXCEPT ![w] = Idle]

\* Variants with a fault: run records no reason; run lets the exception escape.
RaiseWithoutReason(w) == IF proc[w].pc \in RunPoints THEN Goto(w, "toFailed") ELSE Return(w)
RaiseUncaught(w) == Return(w)

\* An exception: run catches it and records a failure; the approval handlers
\* let it escape, and run swallows one raised by its own failure handling.
Raise(w) == IF proc[w].pc \in RunPoints THEN Goto(w, "setError") ELSE Return(w)

-----------------------------------------------------------------------------
Init ==
    /\ status = [t \in Task |-> "pending"]
    /\ slug \in [Task -> Slug]
    /\ researched = {}
    /\ manifest = [t \in Task |-> 0]
    /\ iterations = [t \in Task |-> 0]
    /\ errored = {}
    /\ agents = {}
    /\ proc = [w \in Worker |-> Idle]

\* A command starts: the row is read once and its status tested; p is the
\* prompt of the manifest just read, kept for later in the command.
Start(w, t, required, pc, p) ==
    /\ proc[w].pc = "idle"
    /\ status[t] = required
    /\ proc' = [proc EXCEPT ![w] = [pc |-> pc, task |-> t, armed |-> FALSE, prompt |-> p]]
    /\ UNCHANGED db

\* SpawnPipeline.run: only a pending task is accepted.
StartRun(w, t) == Start(w, t, "pending", "pickSlug", 0)

\* handle_approve: the manifest is the one read together with the status.
StartApprove(w, t) ==
    /\ manifest[t] # 0
    /\ Start(w, t, "awaiting_approval", "saveAgent", manifest[t])

\* handle_reject without feedback.
StartReject(w, t) == Start(w, t, "awaiting_approval", "toRejected", 0)

\* Variant with a fault: > for >= in the test of the cap.
StartReviseOffByOne(w, t) ==
    Start(w, t, "awaiting_approval",
          IF iterations[t] + 1 > MaxRevisions THEN "capError" ELSE "bump", 0)

\* handle_reject with feedback: the revision cap is tested on the row read here.
StartRevise(w, t) ==
    Start(w, t, "awaiting_approval",
          IF iterations[t] + 1 >= MaxRevisions THEN "capError" ELSE "bump", 0)

-----------------------------------------------------------------------------
(* SpawnTaskRepo.transition, in its two halves. *)

\* get and assert_transition.
AssertTransition(w) ==
    /\ proc[w].pc \in TransitionPoints
    /\ ~proc[w].armed
    /\ IF Legal(status[proc[w].task], Dst(proc[w].pc))
         THEN proc' = [proc EXCEPT ![w].armed = TRUE]
         ELSE Raise(w)
    /\ UNCHANGED db

\* Variants with a fault: the WHERE clause is missing; an ended task also
\* loses its revision count.
WriteEveryStatus(w) ==
    /\ proc[w].pc \in TransitionPoints
    /\ proc[w].armed
    /\ status' = [t \in Task |-> Dst(proc[w].pc)]
    /\ IF After(proc[w].pc) = "idle" THEN Return(w) ELSE Goto(w, After(proc[w].pc))
    /\ UNCHANGED <<slug, researched, manifest, iterations, errored, agents>>
WriteStatusClearing(w) ==
    /\ proc[w].pc \in TransitionPoints
    /\ proc[w].armed
    /\ status' = [status EXCEPT ![proc[w].task] = Dst(proc[w].pc)]
    /\ iterations' = [iterations EXCEPT ![proc[w].task] =
                          IF Dst(proc[w].pc) \in TerminalStates THEN 0 ELSE @]
    /\ IF After(proc[w].pc) = "idle" THEN Return(w) ELSE Goto(w, After(proc[w].pc))
    /\ UNCHANGED <<slug, researched, manifest, errored, agents>>

\* UPDATE spawn_tasks SET status = dst WHERE id = task, and commit.
WriteStatus(w) ==
    /\ proc[w].pc \in TransitionPoints
    /\ proc[w].armed
    /\ status' = [status EXCEPT ![proc[w].task] = Dst(proc[w].pc)]
    /\ IF After(proc[w].pc) = "idle" THEN Return(w) ELSE Goto(w, After(proc[w].pc))
    /\ UNCHANGED <<slug, researched, manifest, iterations, errored, agents>>

-----------------------------------------------------------------------------
(* The other steps of SpawnPipeline.run. *)

SlugTaken(s) == \E a \in agents : a.slug = s

\* Variant with a fault: the reserved slugs are not consulted.
PickAnySlug(w) ==
    /\ proc[w].pc = "pickSlug"
    /\ IF SlugTaken(slug[proc[w].task]) THEN Raise(w) ELSE Goto(w, "toResearching")
    /\ UNCHANGED db

\* pick_slug: a reserved slug or the slug of an existing agent is refused.
PickSlug(w) ==
    /\ proc[w].pc = "pickSlug"
    /\ LET s == slug[proc[w].task]
       IN  IF s \in Reserved \/ SlugTaken(s) THEN Raise(w) ELSE Goto(w, "toResearching")
    /\ UNCHANGED db

\* Variant with a fault: the report is used and its id is not stored.
ResearchUnrecorded(w) ==
    /\ proc[w].pc = "research"
    /\ Goto(w, "toDrafting") \/ Raise(w)
    /\ UNCHANGED db

\* run_research, then set_research_report; or the research raises.
Research(w) ==
    /\ proc[w].pc = "research"
    /\ \/ /\ researched' = researched \cup {proc[w].task}
          /\ Goto(w, "toDrafting")
       \/ /\ Raise(w)
          /\ UNCHANGED researched
    /\ UNCHANGED <<status, slug, manifest, iterations, errored, agents>>

\* write_spec_markdown
WriteSpec(w) ==
    /\ proc[w].pc = "writeSpec"
    /\ Goto(w, "toWriting") \/ Raise(w)
    /\ UNCHANGED db

\* generate_system_prompt, first version
GeneratePrompt(w) ==
    /\ proc[w].pc = "genPrompt"
    /\ Hold(w, "setManifest", 1) \/ Raise(w)
    /\ UNCHANGED db

\* set_manifest, of run and of a revision
SetManifest(w) ==
    /\ proc[w].pc \in {"setManifest", "setRevised"}
    /\ manifest' = [manifest EXCEPT ![proc[w].task] = proc[w].prompt]
    /\ Goto(w, IF proc[w].pc = "setManifest" THEN "toAwaiting" ELSE "backToAwaiting")
    /\ UNCHANGED <<status, slug, researched, iterations, errored, agents>>

\* set_error, in the except clause of run and at the revision cap
SetError(w) ==
    /\ proc[w].pc \in {"setError", "capError"}
    /\ errored' = errored \cup {proc[w].task}
    /\ Goto(w, IF proc[w].pc = "setError" THEN "toFailed" ELSE "capFailed")
    /\ UNCHANGED <<status, slug, researched, manifest, iterations, agents>>

-----------------------------------------------------------------------------
(* The other steps of handle_approve and handle_reject. *)

\* Variants with a fault: no UNIQUE constraint; INSERT OR IGNORE.
SaveAgentTwice(w) ==
    /\ proc[w].pc = "saveAgent"
    /\ LET t == proc[w].task
       IN  agents' = agents \cup {[slug |-> slug[t], task |-> t, prompt |-> proc[w].prompt]}
    /\ Goto(w, "toApproved")
    /\ UNCHANGED <<status, slug, researched, manifest, iterations, errored>>
SaveAgentOrIgnore(w) ==
    /\ proc[w].pc = "saveAgent"
    /\ LET t == proc[w].task
       IN  agents' = IF SlugTaken(slug[t]) THEN agents ELSE agents \cup
                        {[slug |-> slug[t], task |-> t, prompt |-> proc[w].prompt]}
    /\ Goto(w, "toApproved")
    /\ UNCHANGED <<status, slug, researched, manifest, iterations, errored>>

\* SpawnedAgentRepo.save: the UNIQUE slug refuses a second row.
SaveAgent(w) ==
    /\ proc[w].pc = "saveAgent"
    /\ LET t == proc[w].task
       IN  IF SlugTaken(slug[t])
             THEN Raise(w) /\ UNCHANGED agents
             ELSE /\ agents' = agents \cup
                        {[slug |-> slug[t], task |-> t, prompt |-> proc[w].prompt]}
                  /\ Goto(w, "toApproved")
    /\ UNCHANGED <<status, slug, researched, manifest, iterations, errored>>

\* set_revision_feedback
RecordFeedback(w) ==
    /\ proc[w].pc = "bump"
    /\ iterations' = [iterations EXCEPT ![proc[w].task] = @ + 1]
    /\ Goto(w, "rollback")
    /\ UNCHANGED <<status, slug, researched, manifest, errored, agents>>

\* The row is read again and the prompt regenerated from it; a missing report,
\* refused feedback or a failing model raises with the task rolled back.
RegeneratePrompt(w) ==
    /\ proc[w].pc = "regenerate"
    /\ LET t == proc[w].task
       IN  \/ /\ t \in researched
              /\ Hold(w, "setRevised", iterations[t] + 1)
           \/ Raise(w)
    /\ UNCHANGED db

-----------------------------------------------------------------------------
Step(w) ==
    \/ AssertTransition(w) \/ WriteStatus(w)
    \/ PickSlug(w) \/ Research(w) \/ WriteSpec(w) \/ GeneratePrompt(w)
    \/ SetManifest(w) \/ SetError(w)
    \/ SaveAgent(w) \/ RecordFeedback(w) \/ RegeneratePrompt(w)

Command(w, t) ==
    StartRun(w, t) \/ StartApprove(w, t) \/ StartReject(w, t) \/ StartRevise(w, t)

\* The process dies: what it committed stays, what it held is gone.
Crash(w) ==
    /\ MayCrash
    /\ proc[w].pc # "idle"
    /\ Return(w)
    /\ UNCHANGED db

Next == \E w \in Worker : \/ Step(w)
                          \/ Crash(w)
                          \/ \E t \in Task : Command(w, t)

Spec == Init /\ [][Next]_vars

\* A process that is running a command goes on with it.
FairSpec == Spec /\ \A w \in Worker : WF_vars(Step(w))

-----------------------------------------------------------------------------
(* Properties of every number of processes, crashes included. *)

Agent   == [slug : Slug, task : Task, prompt : Nat]
Process == [pc : Points, task : Task \cup {NoTask}, armed : BOOLEAN, prompt : Nat]

\* A process holds a task exactly while it runs a command.
ProcOK ==
    /\ proc \in [Worker -> Process]
    /\ \A w \in Worker : proc[w].task = NoTask <=> proc[w].pc = "idle"

TypeOK ==
    /\ status \in [Task -> State]
    /\ slug \in [Task -> Slug]
    /\ researched \subseteq Task
    /\ manifest \in [Task -> Nat]
    /\ iterations \in [Task -> Nat]
    /\ errored \subseteq Task
    /\ agents \subseteq Agent
    /\ ProcOK

\* A task shows as approved only when its agent is on file: the row is saved
\* before the transition (handle_approve), whatever else happens meanwhile.
ApprovedIsLive ==
    \A t \in Task : status[t] = "approved" => \E a \in agents : a.task = t

\* No proposal goes live twice and no slug is shared, although two reviewers
\* may approve the same task, or two tasks of one slug, at once.
AgentsDistinct ==
    \A a, b \in agents : a.task = b.task \/ a.slug = b.slug => a = b

\* Whatever awaits approval can be shown (get_pending) and revised
\* (handle_reject): it has a manifest and a research report.
AwaitingIsReviewable ==
    \A t \in Task : status[t] = "awaiting_approval" =>
        manifest[t] # 0 /\ t \in researched

\* The factory never mints an agent with a reserved slug, on any path.
ReservedNeverLive == \A a \in agents : a.slug \notin Reserved

\* An agent's prompt is the pipeline's own or that of a recorded revision
\* round of its own task.
PromptOnRecord ==
    \A a \in agents : a.slug = slug[a.task] /\ a.prompt \in 1 .. iterations[a.task] + 1

\* A failed task says why: the error is stored before the transition.
FailedHasReason == \A t \in Task : status[t] = "failed" => t \in errored

\* max_revision_iterations bounds the revision rounds: the test and the
\* increment are separate, so each further process may add one round.
RevisionBound ==
    \A t \in Task : iterations[t] + 2 <= MaxRevisions + Cardinality(Worker)

-----------------------------------------------------------------------------
(* The inductive invariant behind these: what each point of a command has   *)
(* established, and what the rows of the two tables say of each other.      *)

Proposed(t) == manifest[t] # 0 /\ t \in researched

\* What process w, at its point, may rely on about its task.
PointInv(w) ==
    LET pc == proc[w].pc
        t  == proc[w].task
    IN  /\ proc[w].armed => pc \in TransitionPoints
        /\ pc \in RunPoints \ {"pickSlug"} => slug[t] \notin Reserved
        /\ pc \in {"toDrafting", "writeSpec", "toWriting", "genPrompt",
                   "setManifest", "toAwaiting"} => t \in researched
        /\ pc \in {"saveAgent", "setManifest", "setRevised"} =>
               proc[w].prompt \in 1 .. iterations[t] + 1
        /\ pc \in {"toAwaiting"} \cup ApprovePoints \cup RejectPoints => Proposed(t)
        /\ pc \in {"toFailed", "capFailed"} => t \in errored
        /\ pc = "toApproved" => \E a \in agents : a.task = t

\* What the row of task t implies about the rest of the database.
RowInv(t) ==
    /\ manifest[t] \in 0 .. iterations[t] + 1
    /\ manifest[t] # 0 => slug[t] \notin Reserved
    /\ status[t] = "awaiting_approval" => Proposed(t)
    /\ status[t] = "approved" => \E a \in agents : a.task = t
    /\ status[t] = "failed" => t \in errored

\* What a row of spawned_agents implies about its task and the other rows.
AgentInv(a) ==
    /\ a.slug = slug[a.task]
    /\ a.prompt \in 1 .. iterations[a.task] + 1
    /\ manifest[a.task] # 0
    /\ \A b \in agents : a.slug = b.slug => a = b

FactoryInv ==
    /\ \A w \in Worker : PointInv(w)
    /\ \A t \in Task : RowInv(t)
    /\ \A a \in agents : AgentInv(a)

-----------------------------------------------------------------------------
(* Properties of one process at a time, crashes included. *)

\* The status column obeys the abstract lifecycle: with one process nothing
\* comes between assert_transition and the UPDATE.
Lifecycle == INSTANCE SpawnLifecycle
LifecycleSpec == Lifecycle!Spec

\* The agent of an approved task is the one the reviewer was shown: its prompt
\* is still the one on the task.
ApprovedAsShown ==
    \A t \in Task : status[t] = "approved" =>
        \A a \in agents : a.task = t => a.prompt = manifest[t]

-----------------------------------------------------------------------------
(* Liveness, when no process dies. *)

\* run takes its task to the reviewer or to a terminal state.
RunLands ==
    \A w \in Worker, t \in Task :
        (proc[w].task = t /\ proc[w].pc \in RunPoints)
            ~> status[t] \in {"awaiting_approval"} \cup TerminalStates

-----------------------------------------------------------------------------
(* Claims of the documentation that the code does not keep. *)

\* repos.py: an illegal transition fails no matter who attempts it.
LegalTransitions ==
    [][\A t \in Task : status'[t] # status[t] => Legal(status[t], status'[t])]_vars

\* pipeline.py: once a spawn task starts, it ends in a terminal state (or
\* waits for the reviewer).
NothingStranded ==
    \A t \in Task :
        status[t] \in {"researching", "drafting_spec", "writing_prompt"}
            ~> status[t] \in {"awaiting_approval"} \cup TerminalStates

=============================================================================
