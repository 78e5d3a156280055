--------------------------- MODULE SpawnFactoryProofs ---------------------------
(***************************************************************************)
(* Proofs about SpawnFactory for any number of tasks, slugs and processes: *)
(* what survives every race and crash, and what holds while one process at *)
(* a time is at work, which may die anywhere.                              *)
(***************************************************************************)
EXTENDS SpawnFactory, FiniteSetTheorems, TLAPS

-----------------------------------------------------------------------------
(* Type correctness. *)

\* A transition call names a state and goes on to a point.
LEMMA PointTypes ==
    ASSUME NEW pc \in Points
    PROVE  Dst(pc) \in State /\ After(pc) \in Points
BY DEF Points, RunPoints, FailPoints, ApprovePoints, RejectPoints, Dst, After, State

\* Going to another point keeps the processes well-formed.
LEMMA GotoType ==
    ASSUME ProcOK, NEW w \in Worker, NEW pc \in Points \ {"idle"},
           proc[w].pc # "idle", Goto(w, pc)
    PROVE  ProcOK'
BY DEF ProcOK, Goto, Process

LEMMA HoldType ==
    ASSUME ProcOK, NEW w \in Worker, NEW pc \in Points \ {"idle"}, NEW p \in Nat,
           proc[w].pc # "idle", Hold(w, pc, p)
    PROVE  ProcOK'
BY DEF ProcOK, Hold, Process

\* So does the end of a command.
LEMMA ReturnType ==
    ASSUME ProcOK, NEW w \in Worker, Return(w)
    PROVE  ProcOK'
BY DEF ProcOK, Return, Process, Idle, Points

\* And an exception.
LEMMA RaiseType ==
    ASSUME ProcOK, NEW w \in Worker, proc[w].pc # "idle", Raise(w)
    PROVE  ProcOK'
<1>1. "setError" \in Points \ {"idle"}
  BY DEF Points, FailPoints
<1>2. QED
  BY <1>1, GotoType, ReturnType DEF Raise

\* One step of one process keeps the types.
LEMMA StepTypes ==
    ASSUME TypeOK, NEW w \in Worker, Step(w)
    PROVE  TypeOK'
<1> DEFINE pc == proc[w].pc
<1> DEFINE t == proc[w].task
<1>0. pc # "idle" /\ t \in Task /\ pc \in Points /\ ProcOK
  BY DEF Step, AssertTransition, WriteStatus, PickSlug, Research, WriteSpec, GeneratePrompt,
         SetManifest, SetError, SaveAgent, RecordFeedback, RegeneratePrompt, TransitionPoints,
         TypeOK, ProcOK, Process
<1>a. \A p \in {"setError", "toFailed", "toResearching", "toDrafting", "toWriting", "toAwaiting",
                "capFailed", "backToAwaiting", "rollback", "toApproved", "setManifest", "setRevised"} :
          p \in Points \ {"idle"}
  BY DEF Points, RunPoints, FailPoints, ApprovePoints, RejectPoints
<1>1. CASE AssertTransition(w)
  <2>1. CASE Raise(w)
    BY <1>0, <1>1, <2>1, RaiseType DEF AssertTransition, TypeOK, db
  <2>2. CASE proc' = [proc EXCEPT ![w].armed = TRUE]
    BY <1>0, <1>1, <2>2 DEF AssertTransition, TypeOK, ProcOK, Process, db
  <2>3. QED
    BY <1>1, <2>1, <2>2 DEF AssertTransition
<1>2. CASE WriteStatus(w)
  <2>1. ProcOK'
    BY <1>0, <1>2, PointTypes, GotoType, ReturnType DEF WriteStatus
  <2>2. status' \in [Task -> State]
    BY <1>0, <1>2, PointTypes DEF WriteStatus, TypeOK
  <2>3. QED
    BY <1>2, <2>1, <2>2 DEF WriteStatus, TypeOK
<1>3. CASE PickSlug(w)
  <2>1. ProcOK'
    BY <1>0, <1>a, <1>3, GotoType, RaiseType DEF PickSlug
  <2>2. QED
    BY <1>3, <2>1 DEF PickSlug, TypeOK, db
<1>4. CASE Research(w)
  <2>1. ProcOK'
    BY <1>0, <1>a, <1>4, GotoType, RaiseType DEF Research
  <2>2. QED
    BY <1>0, <1>4, <2>1 DEF Research, TypeOK
<1>5. CASE WriteSpec(w)
  <2>1. ProcOK'
    BY <1>0, <1>a, <1>5, GotoType, RaiseType DEF WriteSpec
  <2>2. QED
    BY <1>5, <2>1 DEF WriteSpec, TypeOK, db
<1>6. CASE GeneratePrompt(w)
  <2>1. ProcOK'
    BY <1>0, <1>a, <1>6, HoldType, RaiseType DEF GeneratePrompt
  <2>2. QED
    BY <1>6, <2>1 DEF GeneratePrompt, TypeOK, db
<1>7. CASE SetManifest(w)
  <2>1. ProcOK'
    BY <1>0, <1>a, <1>7, GotoType DEF SetManifest
  <2>2. proc[w].prompt \in Nat
    BY <1>0 DEF ProcOK, Process
  <2>3. QED
    BY <1>0, <1>7, <2>1, <2>2 DEF SetManifest, TypeOK
<1>8. CASE SetError(w)
  <2>1. ProcOK'
    BY <1>0, <1>a, <1>8, GotoType DEF SetError
  <2>2. QED
    BY <1>0, <1>8, <2>1 DEF SetError, TypeOK
<1>9. CASE SaveAgent(w)
  <2>1. ProcOK'
    BY <1>0, <1>a, <1>9, GotoType, RaiseType DEF SaveAgent
  <2>2. [slug |-> slug[t], task |-> t, prompt |-> proc[w].prompt] \in Agent
    BY <1>0 DEF TypeOK, ProcOK, Process, Agent
  <2>3. QED
    BY <1>0, <1>9, <2>1, <2>2 DEF SaveAgent, TypeOK
<1>10. CASE RecordFeedback(w)
  <2>1. ProcOK'
    BY <1>0, <1>a, <1>10, GotoType DEF RecordFeedback
  <2>2. QED
    BY <1>0, <1>10, <2>1 DEF RecordFeedback, TypeOK
<1>11. CASE RegeneratePrompt(w)
  <2>1. iterations[t] + 1 \in Nat
    BY <1>0 DEF TypeOK
  <2>2. ProcOK'
    BY <1>0, <1>a, <1>11, <2>1, HoldType, RaiseType DEF RegeneratePrompt
  <2>3. QED
    BY <1>11, <2>2 DEF RegeneratePrompt, TypeOK, db
<1>12. QED
  BY <1>1, <1>2, <1>3, <1>4, <1>5, <1>6, <1>7, <1>8, <1>9, <1>10, <1>11 DEF Step

\* The first step of a command keeps the types.
LEMMA CommandTypes ==
    ASSUME FactoryAssumption, TypeOK, NEW w \in Worker, NEW t \in Task, Command(w, t)
    PROVE  TypeOK'
<1>1. ASSUME NEW req, NEW pc \in Points \ {"idle"}, NEW p \in Nat, Start(w, t, req, pc, p)
      PROVE  TypeOK'
  BY <1>1 DEF Start, TypeOK, ProcOK, Process, db, FactoryAssumption
<1>2. \A p \in {"pickSlug", "saveAgent", "toRejected", "capError", "bump"} : p \in Points \ {"idle"}
  BY DEF Points, RunPoints, ApprovePoints, RejectPoints
<1>3. manifest[t] \in Nat /\ 0 \in Nat
  BY DEF TypeOK
<1>4. CASE StartRun(w, t)
  BY <1>1, <1>2, <1>3, <1>4 DEF StartRun
<1>5. CASE StartApprove(w, t)
  BY <1>1, <1>2, <1>3, <1>5 DEF StartApprove
<1>6. CASE StartReject(w, t)
  BY <1>1, <1>2, <1>3, <1>6 DEF StartReject
<1>7. CASE StartRevise(w, t)
  BY <1>1, <1>2, <1>3, <1>7 DEF StartRevise
<1>8. QED
  BY <1>4, <1>5, <1>6, <1>7 DEF Command

\* TypeOK is inductive.
LEMMA NextTypes ==
    ASSUME TypeOK, [Next]_vars
    PROVE  TypeOK'
<1>1. ASSUME NEW w \in Worker, Crash(w)
      PROVE  TypeOK'
  BY <1>1, ReturnType DEF Crash, TypeOK, db
<1>2. CASE UNCHANGED vars
  BY <1>2 DEF vars, TypeOK, ProcOK
<1>3. QED
  BY <1>1, <1>2, StepTypes, CommandTypes, FactoryAssumption DEF Next

\* The database and the processes are well-typed whatever the processes do,
\* and a process holds a task exactly while it runs a command.
THEOREM Typing == Spec => []TypeOK
<1>1. Init => TypeOK
  BY DEF Init, TypeOK, ProcOK, Process, Idle, Points, State
<1>2. TypeOK /\ [Next]_vars => TypeOK'
  BY NextTypes
<1>3. QED
  BY <1>1, <1>2, PTL DEF Spec

-----------------------------------------------------------------------------
(* The inductive invariant FactoryInv.                                      *)

\* Nothing recorded is ever withdrawn: rows, reports, errors and slugs stay,
\* counters only grow, a manifest is replaced but never removed.
Grow ==
    /\ slug' = slug
    /\ researched \subseteq researched'
    /\ errored \subseteq errored'
    /\ agents \subseteq agents'
    /\ \A t \in Task : /\ iterations[t] <= iterations'[t]
                       /\ manifest[t] # 0 => manifest'[t] # 0

\* What a process relies on survives the steps of the others.
LEMMA PointStable ==
    ASSUME TypeOK, TypeOK', Grow, NEW v \in Worker, PointInv(v), proc'[v] = proc[v]
    PROVE  PointInv(v)'
<1>1. CASE proc[v].pc = "idle"
  BY <1>1 DEF PointInv, RunPoints, ApprovePoints, RejectPoints
<1>2. CASE proc[v].pc # "idle"
  <2> DEFINE t == proc[v].task
  <2>1. t \in Task
    BY <1>2 DEF TypeOK, ProcOK, Process
  <2>2. iterations[t] \in Nat /\ iterations'[t] \in Nat /\ iterations[t] <= iterations'[t]
    BY <2>1 DEF TypeOK, Grow
  <2>3. proc[v].prompt \in 1 .. iterations[t] + 1 => proc[v].prompt \in 1 .. iterations'[t] + 1
    BY <2>2
  <2>4. Proposed(t) => Proposed(t)'
    BY <2>1 DEF Proposed, Grow
  <2>5. QED
    BY <2>1, <2>3, <2>4 DEF PointInv, Grow
<1>3. QED
  BY <1>1, <1>2

\* A row whose status and manifest stay as they are keeps its invariant.
LEMMA RowStable ==
    ASSUME TypeOK, TypeOK', Grow, NEW t \in Task, RowInv(t),
           status'[t] = status[t], manifest'[t] = manifest[t]
    PROVE  RowInv(t)'
<1>1. iterations[t] \in Nat /\ iterations'[t] \in Nat /\ iterations[t] <= iterations'[t]
  BY DEF TypeOK, Grow
<1>2. manifest[t] \in 0 .. iterations'[t] + 1
  BY <1>1 DEF RowInv
<1>3. QED
  BY <1>2 DEF RowInv, Proposed, Grow

\* So do the agents when no agent is added.
LEMMA AgentsStable ==
    ASSUME TypeOK, TypeOK', Grow, \A a \in agents : AgentInv(a), agents' = agents
    PROVE  \A a \in agents' : AgentInv(a)'
<1> SUFFICES ASSUME NEW a \in agents
             PROVE  AgentInv(a)'
  OBVIOUS
<1>1. a.task \in Task
  BY DEF TypeOK, Agent
<1>2. iterations[a.task] \in Nat /\ iterations'[a.task] \in Nat
      /\ iterations[a.task] <= iterations'[a.task]
  BY <1>1 DEF TypeOK, Grow
<1>3. a.prompt \in 1 .. iterations'[a.task] + 1
  BY <1>2 DEF AgentInv
<1>4. QED
  BY <1>1, <1>3 DEF AgentInv, Grow

\* The three together: a step of w has to be checked for w, for the rows it
\* writes and for the agents it adds.
LEMMA Compose ==
    ASSUME TypeOK, TypeOK', FactoryInv, Grow,
           NEW w \in Worker, \A v \in Worker \ {w} : proc'[v] = proc[v],
           PointInv(w)',
           \A t \in Task : (status'[t] = status[t] /\ manifest'[t] = manifest[t]) \/ RowInv(t)',
           agents' = agents \/ \A a \in agents' : AgentInv(a)'
    PROVE  FactoryInv'
<1>1. \A v \in Worker : PointInv(v)'
  BY PointStable DEF FactoryInv
<1>2. \A t \in Task : RowInv(t)'
  BY RowStable DEF FactoryInv
<1>3. \A a \in agents' : AgentInv(a)'
  BY AgentsStable DEF FactoryInv
<1>4. QED
  BY <1>1, <1>2, <1>3 DEF FactoryInv

\* A process that has returned relies on nothing.
LEMMA ReturnPoint ==
    ASSUME ProcOK, NEW w \in Worker, Return(w)
    PROVE  PointInv(w)'
BY DEF ProcOK, Return, Idle, PointInv, RunPoints, ApprovePoints, RejectPoints

\* The failure path relies on nothing either, before it has stored the error.
LEMMA RaisePoint ==
    ASSUME ProcOK, NEW w \in Worker, Raise(w)
    PROVE  PointInv(w)'
<1>1. CASE Goto(w, "setError")
  BY <1>1 DEF ProcOK, Process, Goto, PointInv, RunPoints, ApprovePoints, RejectPoints
<1>2. QED
  BY <1>1, ReturnPoint DEF Raise

\* A step of a process changes no other process.
LEMMA OthersUnchanged ==
    ASSUME ProcOK, NEW w \in Worker, Step(w) \/ Crash(w) \/ \E t \in Task : Command(w, t)
    PROVE  \A v \in Worker \ {w} : proc'[v] = proc[v]
<1>1. (\/ Return(w) \/ (\E pc : Goto(w, pc)) \/ (\E pc, p : Hold(w, pc, p))
       \/ (\E r : proc' = [proc EXCEPT ![w] = r])
       \/ proc' = [proc EXCEPT ![w].armed = TRUE])
      => \A v \in Worker \ {w} : proc'[v] = proc[v]
  BY DEF Return, Goto, Hold, ProcOK
<1>2. Raise(w) => Return(w) \/ \E pc : Goto(w, pc)
  BY DEF Raise
<1>3. CASE \E t \in Task : Command(w, t)
  BY <1>1, <1>3 DEF Command, StartRun, StartApprove, StartReject, StartRevise, Start
<1>4. CASE Crash(w)
  BY <1>1, <1>4 DEF Crash
<1>5. CASE Step(w)
  BY <1>1, <1>2, <1>5 DEF Step, AssertTransition, WriteStatus, PickSlug, Research, WriteSpec,
     GeneratePrompt, SetManifest, SetError, SaveAgent, RecordFeedback, RegeneratePrompt
<1>6. QED
  BY <1>3, <1>4, <1>5

\* One step of one process keeps the invariant.
LEMMA StepInv ==
    ASSUME TypeOK, TypeOK', FactoryInv, NEW w \in Worker, Step(w)
    PROVE  FactoryInv'
<1> DEFINE pc == proc[w].pc
<1>a. pc # "idle" /\ proc[w].task \in Task /\ ProcOK /\ PointInv(w)
  BY DEF Step, AssertTransition, WriteStatus, PickSlug, Research, WriteSpec, GeneratePrompt,
         SetManifest, SetError, SaveAgent, RecordFeedback, RegeneratePrompt, TransitionPoints,
         TypeOK, ProcOK, Process, FactoryInv
<1>t. PICK t \in Task : t = proc[w].task
  BY <1>a
<1>0. pc # "idle" /\ t = proc[w].task /\ ProcOK /\ PointInv(w) /\ RowInv(t)
  BY <1>a, <1>t DEF FactoryInv
<1>o. \A v \in Worker \ {w} : proc'[v] = proc[v]
  BY <1>0, OthersUnchanged
<1>g. ASSUME NEW q, Goto(w, q)
      PROVE  /\ proc'[w].pc = q /\ proc'[w].task = t
             /\ proc'[w].armed = FALSE /\ proc'[w].prompt = proc[w].prompt
  BY <1>0, <1>g DEF Goto, ProcOK, Process
<1>h. ASSUME NEW q, NEW n, Hold(w, q, n)
      PROVE  /\ proc'[w].pc = q /\ proc'[w].task = t
             /\ proc'[w].armed = proc[w].armed /\ proc'[w].prompt = n
  BY <1>0, <1>h DEF Hold, ProcOK, Process
<1>p. iterations[t] \in Nat /\ manifest[t] \in Nat
  BY <1>0 DEF TypeOK
<1>d. ASSUME UNCHANGED db, PointInv(w)'
      PROVE  FactoryInv'
  BY <1>o, <1>d, Compose DEF db, Grow, TypeOK
<1> USE DEF RunPoints, ApprovePoints, RejectPoints
<1>1. CASE AssertTransition(w)
  <2>1. CASE proc' = [proc EXCEPT ![w].armed = TRUE]
    <3>1. proc'[w].pc = pc /\ proc'[w].task = t /\ proc'[w].prompt = proc[w].prompt
      BY <1>0, <2>1 DEF ProcOK, Process
    <3>2. PointInv(w)'
      BY <1>0, <1>1, <1>p, <3>1 DEF AssertTransition, PointInv, Proposed, db
    <3>3. QED
      BY <1>1, <1>d, <3>2 DEF AssertTransition
  <2>2. QED
    BY <1>0, <1>1, <1>d, <2>1, RaisePoint DEF AssertTransition
<1>3. CASE PickSlug(w)
  <2>1. CASE Goto(w, "toResearching") /\ slug[t] \notin Reserved
    <3>1. proc'[w].pc = "toResearching" /\ proc'[w].task = t /\ proc'[w].armed = FALSE
      BY <1>0, <1>g, <2>1
    <3>2. PointInv(w)'
      BY <1>0, <1>3, <2>1, <3>1 DEF PickSlug, PointInv, db
    <3>3. QED
      BY <1>0, <1>3, <1>d, <3>2 DEF PickSlug
  <2>2. QED
    BY <1>0, <1>3, <1>d, <2>1, RaisePoint DEF PickSlug
<1>4. CASE Research(w)
  <2>1. Grow /\ agents' = agents /\ status' = status /\ manifest' = manifest
    BY <1>4 DEF Research, Grow, TypeOK
  <2>2. CASE Goto(w, "toDrafting") /\ researched' = researched \cup {t}
    <3>1. proc'[w].pc = "toDrafting" /\ proc'[w].task = t /\ proc'[w].armed = FALSE
      BY <1>0, <1>g, <2>2
    <3>2. PointInv(w)'
      BY <1>0, <1>4, <2>2, <3>1 DEF Research, PointInv
    <3>3. QED
      BY <1>o, <2>1, <3>2, Compose
  <2>3. QED
    BY <1>0, <1>4, <1>o, <2>1, <2>2, RaisePoint, Compose DEF Research
<1>5. CASE WriteSpec(w)
  <2>1. CASE Goto(w, "toWriting")
    <3>1. proc'[w].pc = "toWriting" /\ proc'[w].task = t /\ proc'[w].armed = FALSE
      BY <1>0, <1>g, <2>1
    <3>2. t \in researched' /\ slug'[t] \notin Reserved
      BY <1>0, <1>5 DEF WriteSpec, PointInv, db
    <3>3. PointInv(w)'
      BY <3>1, <3>2 DEF PointInv
    <3>4. QED
      BY <1>0, <1>5, <1>d, <3>3 DEF WriteSpec
  <2>2. QED
    BY <1>0, <1>5, <1>d, <2>1, RaisePoint DEF WriteSpec
<1>6. CASE GeneratePrompt(w)
  <2>1. CASE Hold(w, "setManifest", 1)
    BY <1>0, <1>6, <1>d, <1>h, <1>p, <2>1 DEF GeneratePrompt, PointInv, TransitionPoints, db
  <2>2. QED
    BY <1>0, <1>6, <1>d, <2>1, RaisePoint DEF GeneratePrompt
<1>11. CASE RegeneratePrompt(w)
  <2>1. CASE Hold(w, "setRevised", iterations[t] + 1)
    BY <1>0, <1>11, <1>d, <1>h, <1>p, <2>1
       DEF RegeneratePrompt, PointInv, Proposed, TransitionPoints, db
  <2>2. QED
    BY <1>0, <1>11, <1>d, <2>1, RaisePoint DEF RegeneratePrompt
<1>8. CASE SetError(w)
  <2>1. Grow /\ agents' = agents /\ status' = status /\ manifest' = manifest
    BY <1>8 DEF SetError, Grow, TypeOK
  <2>2. /\ proc'[w].pc \in {"toFailed", "capFailed"}
        /\ pc = "setError" => proc'[w].pc = "toFailed"
        /\ proc'[w].task = t /\ proc'[w].armed = FALSE /\ t \in errored'
    BY <1>0, <1>8, <1>g DEF SetError
  <2>3. pc = "capError" => Proposed(t)'
    BY <1>0, <1>8 DEF SetError, PointInv, Proposed
  <2>4. PointInv(w)'
    BY <1>0, <1>8, <2>2, <2>3 DEF SetError, PointInv
  <2>5. QED
    BY <1>o, <2>1, <2>4, Compose
<1>10. CASE RecordFeedback(w)
  <2>1. Grow /\ agents' = agents /\ status' = status /\ manifest' = manifest
    BY <1>0, <1>10, <1>p DEF RecordFeedback, Grow, TypeOK
  <2>2. proc'[w].pc = "rollback" /\ proc'[w].task = t /\ proc'[w].armed = FALSE
    BY <1>0, <1>10, <1>g DEF RecordFeedback
  <2>3. Proposed(t)'
    BY <1>0, <1>10 DEF RecordFeedback, PointInv, Proposed
  <2>4. PointInv(w)'
    BY <2>2, <2>3 DEF PointInv
  <2>5. QED
    BY <1>o, <2>1, <2>4, Compose
<1>7. CASE SetManifest(w)
  <2>1. manifest' = [manifest EXCEPT ![t] = proc[w].prompt] /\ proc[w].prompt \in 1 .. iterations[t] + 1
    BY <1>0, <1>7 DEF SetManifest, PointInv
  <2>2. manifest'[t] = proc[w].prompt /\ \A u \in Task \ {t} : manifest'[u] = manifest[u]
    BY <1>0, <2>1 DEF TypeOK
  <2>3. Grow /\ agents' = agents /\ status' = status
    <3>1. \A u \in Task : manifest[u] # 0 => manifest'[u] # 0
      BY <1>0, <1>p, <2>1, <2>2
    <3>2. QED
      BY <1>0, <1>7, <3>1 DEF SetManifest, Grow, TypeOK
  <2>4. PointInv(w)'
    <3>1. /\ proc'[w].pc = IF pc = "setManifest" THEN "toAwaiting" ELSE "backToAwaiting"
          /\ proc'[w].task = t /\ proc'[w].armed = FALSE
      BY <1>0, <1>7, <1>g DEF SetManifest
    <3>2. Proposed(t)'
      BY <1>0, <1>7, <1>p, <2>1, <2>2 DEF SetManifest, PointInv, Proposed
    <3>3. pc = "setManifest" => t \in researched' /\ slug'[t] \notin Reserved
      BY <1>0, <1>7 DEF SetManifest, PointInv
    <3>4. QED
      BY <1>0, <1>7, <3>1, <3>2, <3>3 DEF SetManifest, PointInv
  <2>5. slug[t] \notin Reserved
    BY <1>0, <1>7 DEF SetManifest, PointInv, RowInv, Proposed
  <2>6. RowInv(t)'
    BY <1>0, <1>7, <2>1, <2>2, <2>5 DEF SetManifest, RowInv, Proposed
  <2>7. QED
    BY <1>o, <2>2, <2>3, <2>4, <2>6, Compose
<1>2. CASE WriteStatus(w)
  <2>1. Grow /\ agents' = agents /\ manifest' = manifest
    BY <1>2 DEF WriteStatus, Grow, TypeOK
  <2>2. status'[t] = Dst(pc) /\ \A u \in Task \ {t} : status'[u] = status[u]
    BY <1>0, <1>2 DEF WriteStatus, TypeOK
  <2>3. RowInv(t)'
    <3>1. /\ status'[t] = "awaiting_approval" => Proposed(t)
          /\ status'[t] = "approved" => \E a \in agents : a.task = t
          /\ status'[t] = "failed" => t \in errored
      BY <1>0, <1>2, <2>2 DEF WriteStatus, TransitionPoints, Dst, PointInv
    <3>2. QED
      BY <1>0, <1>2, <3>1 DEF WriteStatus, RowInv, Proposed
  <2>4. CASE Return(w)
    BY <1>0, <1>o, <2>1, <2>2, <2>3, <2>4, ReturnPoint, Compose
  <2>5. CASE Goto(w, After(pc)) /\ After(pc) # "idle"
    <3>1. proc'[w].pc = After(pc) /\ proc'[w].task = t /\ proc'[w].armed = FALSE
      BY <1>0, <1>g, <2>5
    <3>2. Proposed(t) => Proposed(t)'
      BY <1>2 DEF WriteStatus, Proposed
    <3>3. pc = "toResearching" => PointInv(w)'
      BY <1>0, <1>2, <3>1 DEF WriteStatus, After, PointInv
    <3>4. pc = "toDrafting" => PointInv(w)'
      BY <1>0, <1>2, <3>1 DEF WriteStatus, After, PointInv
    <3>5. pc = "toWriting" => PointInv(w)'
      BY <1>0, <1>2, <3>1 DEF WriteStatus, After, PointInv
    <3>6. pc = "rollback" => PointInv(w)'
      BY <1>0, <1>2, <3>1, <3>2 DEF WriteStatus, After, PointInv
    <3>7. PointInv(w)'
      BY <2>5, <3>3, <3>4, <3>5, <3>6 DEF After
    <3>8. QED
      BY <1>o, <2>1, <2>2, <2>3, <3>7, Compose
  <2>6. QED
    BY <1>2, <2>4, <2>5 DEF WriteStatus
<1>9. CASE SaveAgent(w)
  <2>n. PICK new : new = [slug |-> slug[t], task |-> t, prompt |-> proc[w].prompt]
    OBVIOUS
  <2>1. Grow /\ status' = status /\ manifest' = manifest
    BY <1>9 DEF SaveAgent, Grow, TypeOK
  <2>2. CASE ~SlugTaken(slug[t])
    <3>1. agents' = agents \cup {new} /\ Goto(w, "toApproved")
      BY <1>0, <1>9, <2>2, <2>n DEF SaveAgent
    <3>2. PointInv(w)'
      <4>1. proc'[w].pc = "toApproved" /\ proc'[w].task = t /\ proc'[w].armed = FALSE
        BY <1>0, <1>g, <3>1
      <4>2. Proposed(t)'
        BY <1>0, <1>9 DEF SaveAgent, PointInv, Proposed
      <4>3. \E a \in agents' : a.task = t
        BY <2>n, <3>1
      <4>4. QED
        BY <4>1, <4>2, <4>3 DEF PointInv
    <3>3. \A b \in agents : b.slug # slug[t]
      BY <2>2 DEF SlugTaken
    <3>4. new.slug = slug[t] /\ new.task = t /\ new.prompt \in 1 .. iterations[t] + 1
      BY <1>0, <1>9, <2>n DEF SaveAgent, PointInv
    <3>5. AgentInv(new)'
      BY <1>0, <1>9, <3>1, <3>3, <3>4 DEF SaveAgent, AgentInv, PointInv, Proposed
    <3>6. ASSUME NEW a \in agents
          PROVE  AgentInv(a)'
      BY <1>9, <3>1, <3>3, <3>4, <3>6 DEF SaveAgent, AgentInv, FactoryInv
    <3>7. QED
      BY <1>o, <2>1, <3>1, <3>2, <3>5, <3>6, Compose
  <2>3. CASE SlugTaken(slug[t])
    BY <1>0, <1>9, <1>o, <2>1, <2>3, RaisePoint, Compose DEF SaveAgent
  <2>4. QED
    BY <2>2, <2>3
<1>12. QED
  BY <1>1, <1>2, <1>3, <1>4, <1>5, <1>6, <1>7, <1>8, <1>9, <1>10, <1>11 DEF Step

\* The first step of a command keeps the invariant.
LEMMA CommandInv ==
    ASSUME TypeOK, TypeOK', FactoryInv, NEW w \in Worker, NEW t \in Task, Command(w, t)
    PROVE  FactoryInv'
<1>1. ASSUME PointInv(w)', UNCHANGED db
      PROVE  FactoryInv'
  <2>1. \A v \in Worker \ {w} : proc'[v] = proc[v]
    BY OthersUnchanged DEF TypeOK
  <2>2. QED
    BY <1>1, <2>1, Compose DEF db, Grow, TypeOK
<1>2. ASSUME NEW req, NEW pc, NEW p, Start(w, t, req, pc, p)
      PROVE  /\ UNCHANGED db /\ proc'[w].pc = pc /\ proc'[w].task = t
             /\ proc'[w].armed = FALSE /\ proc'[w].prompt = p
  BY <1>2 DEF Start, TypeOK, ProcOK, Process
<1> USE DEF RunPoints, ApprovePoints, RejectPoints
<1>3. status[t] = "awaiting_approval" => manifest[t] # 0 /\ t \in researched
  BY DEF FactoryInv, RowInv, Proposed
<1>4. manifest[t] # 0 => manifest[t] \in 1 .. iterations[t] + 1
  BY DEF FactoryInv, RowInv, TypeOK
<1>5. CASE StartRun(w, t)
  <2>1. UNCHANGED db /\ proc'[w].pc = "pickSlug" /\ proc'[w].armed = FALSE
    BY <1>2, <1>5 DEF StartRun
  <2>2. QED
    BY <1>1, <2>1 DEF PointInv
<1>6. CASE StartApprove(w, t)
  <2>1. UNCHANGED db /\ proc'[w].pc = "saveAgent" /\ proc'[w].task = t
        /\ proc'[w].armed = FALSE /\ proc'[w].prompt = manifest[t] /\ status[t] = "awaiting_approval"
    BY <1>2, <1>6 DEF StartApprove, Start
  <2>2. PointInv(w)'
    BY <1>3, <1>4, <2>1 DEF PointInv, Proposed, db
  <2>3. QED
    BY <1>1, <2>1, <2>2
<1>7. CASE StartReject(w, t) \/ StartRevise(w, t)
  <2>1. UNCHANGED db /\ proc'[w].pc \in {"toRejected", "capError", "bump"} /\ proc'[w].task = t
        /\ proc'[w].armed = FALSE /\ status[t] = "awaiting_approval"
    <3>1. CASE StartReject(w, t)
      BY <1>2, <3>1 DEF StartReject, Start
    <3>2. CASE StartRevise(w, t)
      <4>1. PICK pc : pc = IF iterations[t] + 1 >= MaxRevisions THEN "capError" ELSE "bump"
        OBVIOUS
      <4>2. Start(w, t, "awaiting_approval", pc, 0)
        BY <3>2, <4>1 DEF StartRevise
      <4>3. QED
        BY <1>2, <4>1, <4>2 DEF Start
    <3>3. QED
      BY <1>7, <3>1, <3>2
  <2>2. PointInv(w)'
    BY <1>3, <2>1 DEF PointInv, Proposed, db
  <2>3. QED
    BY <1>1, <2>1, <2>2
<1>8. QED
  BY <1>5, <1>6, <1>7 DEF Command

\* FactoryInv is inductive relative to TypeOK.
LEMMA NextInv ==
    ASSUME TypeOK, FactoryInv, [Next]_vars
    PROVE  FactoryInv'
<1>1. TypeOK'
  BY NextTypes
<1>2. ASSUME NEW w \in Worker, Crash(w)
      PROVE  FactoryInv'
  <2>1. PointInv(w)' /\ UNCHANGED db /\ \A v \in Worker \ {w} : proc'[v] = proc[v]
    BY <1>2, ReturnPoint, OthersUnchanged DEF Crash, TypeOK
  <2>2. QED
    BY <1>1, <2>1, Compose DEF db, Grow, TypeOK
<1>3. CASE UNCHANGED vars
  BY <1>3 DEF vars, FactoryInv, PointInv, RowInv, AgentInv, Proposed
<1>4. QED
  BY <1>1, <1>2, <1>3, StepInv, CommandInv DEF Next

\* What every point of a command relies on, and what the rows say of each
\* other, holds however many processes run and wherever they die.
THEOREM Invariance == Spec => []FactoryInv
<1>1. ASSUME Init PROVE FactoryInv
  <2>1. \A t \in Task : RowInv(t)
    BY <1>1 DEF Init, RowInv
  <2>2. \A w \in Worker : PointInv(w)
    BY <1>1 DEF Init, Idle, PointInv, RunPoints, ApprovePoints, RejectPoints
  <2>3. QED
    BY <1>1, <2>1, <2>2 DEF Init, FactoryInv
<1>2. TypeOK /\ FactoryInv /\ [Next]_vars => FactoryInv'
  BY NextInv
<1>3. QED
  BY <1>1, <1>2, Typing, PTL DEF Spec

-----------------------------------------------------------------------------
(* The safety properties follow. *)

\* An approved task has its agent on file.
THEOREM ApprovedIsLiveThm == Spec => []ApprovedIsLive
<1>1. FactoryInv => ApprovedIsLive
  BY DEF FactoryInv, RowInv, ApprovedIsLive
<1>2. QED
  BY <1>1, Invariance, PTL

\* Agents have distinct slugs and distinct tasks.
THEOREM AgentsDistinctThm == Spec => []AgentsDistinct
<1>1. FactoryInv => AgentsDistinct
  BY DEF FactoryInv, AgentInv, AgentsDistinct
<1>2. QED
  BY <1>1, Invariance, PTL

\* Whatever awaits approval has a manifest and a report.
THEOREM AwaitingIsReviewableThm == Spec => []AwaitingIsReviewable
<1>1. FactoryInv => AwaitingIsReviewable
  BY DEF FactoryInv, RowInv, Proposed, AwaitingIsReviewable
<1>2. QED
  BY <1>1, Invariance, PTL

\* No agent has a reserved slug.
THEOREM ReservedNeverLiveThm == Spec => []ReservedNeverLive
<1>1. TypeOK /\ FactoryInv => ReservedNeverLive
  BY DEF TypeOK, Agent, FactoryInv, RowInv, AgentInv, ReservedNeverLive
<1>2. QED
  BY <1>1, Typing, Invariance, PTL

\* An agent's prompt is on record for its own task.
THEOREM PromptOnRecordThm == Spec => []PromptOnRecord
<1>1. FactoryInv => PromptOnRecord
  BY DEF FactoryInv, AgentInv, PromptOnRecord
<1>2. QED
  BY <1>1, Invariance, PTL

\* A failed task has its reason stored.
THEOREM FailedHasReasonThm == Spec => []FailedHasReason
<1>1. FactoryInv => FailedHasReason
  BY DEF FactoryInv, RowInv, FailedHasReason
<1>2. QED
  BY <1>1, Invariance, PTL

-----------------------------------------------------------------------------
(* The bound on revision rounds.                                            *)

\* The processes that have passed the cap test for t and not yet counted it.
Pending(t) == {w \in Worker : proc[w].pc = "bump" /\ proc[w].task = t}

\* Each such process may still add one round.
RoundInv == \A t \in Task :
    iterations[t] + Cardinality(Pending(t)) + 2 <= MaxRevisions + Cardinality(Worker)

\* The pending processes are finitely many, and fewer of them count less.
LEMMA PendingCard ==
    ASSUME IsFiniteSet(Worker), NEW S \in SUBSET Worker, NEW R \in SUBSET S
    PROVE  /\ IsFiniteSet(S) /\ Cardinality(S) \in Nat /\ Cardinality(R) \in Nat
           /\ Cardinality(R) <= Cardinality(S)
BY FS_Subset, FS_CardinalityType

\* When the counter stands still and nobody new has passed the test, the bound holds on.
LEMMA RoundStable ==
    ASSUME IsFiniteSet(Worker), TypeOK, RoundInv, NEW t \in Task, iterations'[t] = iterations[t],
           Pending(t)' \subseteq Pending(t)
    PROVE  iterations'[t] + Cardinality(Pending(t)') + 2 <= MaxRevisions + Cardinality(Worker)
<1>1. Pending(t) \in SUBSET Worker
  BY DEF Pending
<1>2. iterations[t] \in Nat /\ MaxRevisions \in Nat /\ Cardinality(Worker) \in Nat
  BY FS_CardinalityType, FactoryAssumption DEF TypeOK
<1>3. QED
  BY <1>1, <1>2, PendingCard DEF RoundInv

\* Only the first step of a revision leads to the counting step.
LEMMA NobodyNew ==
    ASSUME ProcOK, NEW w \in Worker, Step(w) \/ Crash(w), ~RecordFeedback(w)
    PROVE  iterations' = iterations /\ proc'[w].pc # "bump"
<1>1. ASSUME Return(w) PROVE proc'[w].pc # "bump"
  BY <1>1 DEF Return, Idle, ProcOK
<1>2. ASSUME NEW pc, pc # "bump", Goto(w, pc) PROVE proc'[w].pc # "bump"
  BY <1>2 DEF Goto, ProcOK, Process
<1>3. ASSUME NEW pc, NEW p, pc # "bump", Hold(w, pc, p) PROVE proc'[w].pc # "bump"
  BY <1>3 DEF Hold, ProcOK, Process
<1>4. ASSUME Raise(w) PROVE proc'[w].pc # "bump"
  BY <1>1, <1>2, <1>4 DEF Raise
<1>5. CASE AssertTransition(w)
  <2>1. ASSUME proc' = [proc EXCEPT ![w].armed = TRUE] PROVE proc'[w].pc # "bump"
    BY <1>5, <2>1 DEF AssertTransition, TransitionPoints, ProcOK, Process
  <2>2. QED
    BY <1>4, <1>5, <2>1 DEF AssertTransition, db
<1>6. CASE WriteStatus(w)
  <2>1. After(proc[w].pc) # "bump"
    BY DEF After
  <2>2. QED
    BY <1>1, <1>2, <1>6, <2>1 DEF WriteStatus
<1>7. CASE PickSlug(w) \/ Research(w) \/ WriteSpec(w)
  BY <1>2, <1>4, <1>7 DEF PickSlug, Research, WriteSpec, db
<1>8. CASE GeneratePrompt(w) \/ RegeneratePrompt(w)
  BY <1>3, <1>4, <1>8 DEF GeneratePrompt, RegeneratePrompt, db
<1>9. CASE SetManifest(w)
  BY <1>2, <1>9 DEF SetManifest
<1>10. CASE SetError(w)
  BY <1>2, <1>10 DEF SetError
<1>11. CASE SaveAgent(w)
  BY <1>2, <1>4, <1>11 DEF SaveAgent
<1>12. CASE Crash(w)
  BY <1>1, <1>12 DEF Crash, db
<1>13. QED
  BY <1>5, <1>6, <1>7, <1>8, <1>9, <1>10, <1>11, <1>12 DEF Step

\* RoundInv is inductive relative to TypeOK.
LEMMA NextRounds ==
    ASSUME IsFiniteSet(Worker), TypeOK, RoundInv, [Next]_vars
    PROVE  RoundInv'
<1> SUFFICES ASSUME NEW t \in Task
             PROVE  iterations'[t] + Cardinality(Pending(t)') + 2
                        <= MaxRevisions + Cardinality(Worker)
  BY DEF RoundInv
<1>1. iterations[t] \in Nat /\ MaxRevisions \in Nat /\ Cardinality(Worker) \in Nat
  BY FS_CardinalityType, FactoryAssumption DEF TypeOK
<1>2. ASSUME NEW w \in Worker, RecordFeedback(w), proc[w].task = t
      PROVE  iterations'[t] + Cardinality(Pending(t)') + 2 <= MaxRevisions + Cardinality(Worker)
  <2>1. iterations'[t] = iterations[t] + 1
    BY <1>2 DEF RecordFeedback, TypeOK
  <2>2. proc'[w].pc = "rollback" /\ \A v \in Worker \ {w} : proc'[v] = proc[v]
    BY <1>2 DEF RecordFeedback, Goto, TypeOK, ProcOK, Process
  <2>3. Pending(t)' = Pending(t) \ {w} /\ w \in Pending(t)
    BY <1>2, <2>2 DEF Pending, RecordFeedback
  <2>4. IsFiniteSet(Pending(t)) /\ Cardinality(Pending(t)) \in Nat
    BY PendingCard DEF Pending
  <2>5. Cardinality(Pending(t)') = Cardinality(Pending(t)) - 1
    BY <2>3, <2>4, FS_RemoveElement
  <2>6. QED
    BY <1>1, <2>1, <2>4, <2>5 DEF RoundInv
<1>3. ASSUME NEW w \in Worker, RecordFeedback(w), proc[w].task # t
      PROVE  iterations'[t] + Cardinality(Pending(t)') + 2 <= MaxRevisions + Cardinality(Worker)
  <2>1. iterations'[t] = iterations[t]
    BY <1>3 DEF RecordFeedback, TypeOK
  <2>2. proc'[w].pc = "rollback" /\ \A v \in Worker \ {w} : proc'[v] = proc[v]
    BY <1>3 DEF RecordFeedback, Goto, TypeOK, ProcOK, Process
  <2>3. QED
    BY <2>1, <2>2, RoundStable DEF Pending
<1>4. ASSUME NEW w \in Worker, Step(w) \/ Crash(w), ~RecordFeedback(w)
      PROVE  iterations'[t] + Cardinality(Pending(t)') + 2 <= MaxRevisions + Cardinality(Worker)
  <2>1. iterations' = iterations /\ proc'[w].pc # "bump"
    BY <1>4, NobodyNew DEF TypeOK
  <2>2. \A v \in Worker \ {w} : proc'[v] = proc[v]
    BY <1>4, OthersUnchanged DEF TypeOK
  <2>3. QED
    BY <2>1, <2>2, RoundStable DEF Pending
<1>5. ASSUME NEW w \in Worker, NEW u \in Task, Command(w, u)
      PROVE  iterations'[t] + Cardinality(Pending(t)') + 2 <= MaxRevisions + Cardinality(Worker)
  <2>1. ASSUME NEW req, NEW pc, NEW p, Start(w, u, req, pc, p)
        PROVE  /\ iterations' = iterations /\ proc'[w].pc = pc /\ proc'[w].task = u
               /\ \A v \in Worker \ {w} : proc'[v] = proc[v]
    BY <2>1 DEF Start, TypeOK, ProcOK, Process, db
  <2>2. CASE u = t /\ iterations[t] + 1 < MaxRevisions
    <3>1. iterations' = iterations
      BY <1>5, <2>1 DEF Command, StartRun, StartApprove, StartReject, StartRevise
    <3>2. Pending(t)' \in SUBSET Worker
      BY DEF Pending
    <3>3. Cardinality(Pending(t)') \in Nat /\ Cardinality(Pending(t)') <= Cardinality(Worker)
      BY <3>2, PendingCard
    <3>4. QED
      BY <1>1, <2>2, <3>1, <3>3
  <2>3. CASE ~(u = t /\ iterations[t] + 1 < MaxRevisions)
    <3>1. \E pc, p : iterations' = iterations /\ proc'[w].pc = pc /\ proc'[w].task = u
              /\ (\A v \in Worker \ {w} : proc'[v] = proc[v]) /\ (pc = "bump" => u # t)
      <4>1. CASE StartRun(w, u) \/ StartApprove(w, u) \/ StartReject(w, u)
        BY <2>1, <4>1 DEF StartRun, StartApprove, StartReject
      <4>2. CASE StartRevise(w, u)
        <5>1. PICK pc : pc = IF iterations[u] + 1 >= MaxRevisions THEN "capError" ELSE "bump"
          OBVIOUS
        <5>2. Start(w, u, "awaiting_approval", pc, 0)
          BY <4>2, <5>1 DEF StartRevise
        <5>3. pc = "bump" => u # t
          BY <1>1, <2>3, <5>1
        <5>4. QED
          BY <2>1, <5>2, <5>3
      <4>3. QED
        BY <1>5, <4>1, <4>2 DEF Command
    <3>2. QED
      BY <3>1, RoundStable DEF Pending
  <2>4. QED
    BY <2>2, <2>3
<1>6. CASE UNCHANGED vars
  BY <1>6, RoundStable DEF vars, Pending
<1>7. QED
  BY <1>2, <1>3, <1>4, <1>5, <1>6 DEF Next

\* The revision rounds of a task stay below the cap plus one round for each
\* further process that may pass the cap test at the same time.
THEOREM RevisionBoundThm ==
    ASSUME IsFiniteSet(Worker), Worker # {}
    PROVE  Spec => []RevisionBound
<1>1. ASSUME Init PROVE RoundInv
  <2>1. \A t \in Task : Pending(t) = {} /\ iterations[t] = 0
    BY <1>1 DEF Init, Pending, Idle
  <2>2. Cardinality({}) = 0
    BY FS_EmptySet
  <2>3. Cardinality(Worker) \in Nat /\ Cardinality(Worker) # 0 /\ MaxRevisions \in Nat \ {0}
    BY FS_CardinalityType, FS_EmptySet, FactoryAssumption
  <2>4. QED
    BY <2>1, <2>2, <2>3 DEF RoundInv
<1>2. TypeOK /\ RoundInv /\ [Next]_vars => RoundInv'
  BY NextRounds
<1>3. TypeOK /\ RoundInv => RevisionBound
  <2> SUFFICES ASSUME TypeOK, RoundInv, NEW t \in Task
               PROVE  iterations[t] + 2 <= MaxRevisions + Cardinality(Worker)
    BY DEF RevisionBound
  <2>1. iterations[t] \in Nat /\ Cardinality(Pending(t)) \in Nat
        /\ MaxRevisions \in Nat /\ Cardinality(Worker) \in Nat
    BY PendingCard, FS_CardinalityType, FactoryAssumption DEF TypeOK, Pending
  <2>2. QED
    BY <2>1 DEF RoundInv
<1>4. QED
  BY <1>1, <1>2, <1>3, Typing, PTL DEF Spec

-----------------------------------------------------------------------------
(* What follows is about a factory in which at most one process runs at a    *)
(* time, as often as it likes and dying wherever it likes: the status column *)
(* obeys the abstract lifecycle, and what is approved is what was shown.     *)

OneAtATime == \A v, w \in Worker : v = w

\* The steps of a process that write no status and pass no transition check.
Quiet(w) ==
    \/ PickSlug(w) \/ Research(w) \/ WriteSpec(w) \/ GeneratePrompt(w)
    \/ SetManifest(w) \/ SetError(w)
    \/ SaveAgent(w) \/ RecordFeedback(w) \/ RegeneratePrompt(w)

-----------------------------------------------------------------------------
(* The factory implements SpawnLifecycle. *)

\* A process that has passed the check of a transition may still make it.
ArmedLegal ==
    \A w \in Worker : proc[w].armed =>
        Legal(status[proc[w].task], Dst(proc[w].pc))

\* Going on, ending and failing leave the process unarmed.
LEMMA Disarmed ==
    ASSUME TypeOK, NEW w \in Worker, NEW pc,
           Goto(w, pc) \/ Return(w) \/ Raise(w)
    PROVE  ~proc'[w].armed
BY DEF TypeOK, ProcOK, Process, Goto, Return, Raise, Idle

\* No step but AssertTransition arms a process, and none but WriteStatus writes
\* a status.
LEMMA QuietSteps ==
    ASSUME TypeOK, FactoryInv, NEW w \in Worker, Quiet(w)
    PROVE  status' = status /\ ~proc'[w].armed
<1>0. proc \in [Worker -> Process] /\ PointInv(w)
  BY DEF TypeOK, ProcOK, FactoryInv
<1>1. ~proc[w].armed
  BY <1>0 DEF Quiet, PickSlug, Research, WriteSpec, GeneratePrompt, SetManifest, SetError,
              SaveAgent, RecordFeedback, RegeneratePrompt, PointInv, TransitionPoints
<1>2. ASSUME NEW pc, NEW p, Hold(w, pc, p) PROVE ~proc'[w].armed
  BY <1>0, <1>1, <1>2 DEF Hold, Process
<1>3. CASE GeneratePrompt(w)
  BY <1>2, <1>3, Disarmed DEF GeneratePrompt, db
<1>4. CASE RegeneratePrompt(w)
  BY <1>2, <1>4, Disarmed DEF RegeneratePrompt, db
<1>5. CASE PickSlug(w)
  BY <1>5, Disarmed DEF PickSlug, db
<1>6. CASE Research(w)
  BY <1>6, Disarmed DEF Research
<1>7. CASE WriteSpec(w)
  BY <1>7, Disarmed DEF WriteSpec, db
<1>8. CASE SetManifest(w)
  BY <1>8, Disarmed DEF SetManifest
<1>9. CASE SetError(w)
  BY <1>9, Disarmed DEF SetError
<1>10. CASE SaveAgent(w)
  BY <1>10, Disarmed DEF SaveAgent
<1>11. CASE RecordFeedback(w)
  BY <1>11, Disarmed DEF RecordFeedback
<1> QED
  BY <1>3, <1>4, <1>5, <1>6, <1>7, <1>8, <1>9, <1>10, <1>11 DEF Quiet

\* A command that starts is not armed.
LEMMA StartSteps ==
    ASSUME TypeOK, NEW w \in Worker, NEW t \in Task, Command(w, t)
    PROVE  /\ UNCHANGED db
           /\ ~proc'[w].armed
           /\ proc'[w].task = t
           /\ proc'[w].pc \in {"pickSlug", "saveAgent", "toRejected", "capError", "bump"}
           /\ proc'[w].pc = "saveAgent" => proc'[w].prompt = manifest[t]
<1>0. proc \in [Worker -> Process]
  BY DEF TypeOK, ProcOK
<1>1. ASSUME NEW req, NEW pc, NEW p, Start(w, t, req, pc, p)
      PROVE  /\ UNCHANGED db
             /\ proc'[w].pc = pc /\ proc'[w].task = t
             /\ ~proc'[w].armed /\ proc'[w].prompt = p
  BY <1>0, <1>1 DEF Start
<1>2. CASE StartRun(w, t)
  <2>1. Start(w, t, "pending", "pickSlug", 0)
    BY <1>2 DEF StartRun
  <2>2. UNCHANGED db /\ proc'[w].pc = "pickSlug" /\ proc'[w].task = t /\ ~proc'[w].armed
    BY <1>1, <2>1
  <2> QED
    BY <2>2
<1>3. CASE StartApprove(w, t)
  <2>1. Start(w, t, "awaiting_approval", "saveAgent", manifest[t])
    BY <1>3 DEF StartApprove
  <2>2. /\ UNCHANGED db /\ proc'[w].pc = "saveAgent" /\ proc'[w].task = t /\ ~proc'[w].armed
        /\ proc'[w].prompt = manifest[t]
    BY <1>1, <2>1
  <2> QED
    BY <2>2
<1>4. CASE StartReject(w, t)
  <2>1. Start(w, t, "awaiting_approval", "toRejected", 0)
    BY <1>4 DEF StartReject
  <2>2. UNCHANGED db /\ proc'[w].pc = "toRejected" /\ proc'[w].task = t /\ ~proc'[w].armed
    BY <1>1, <2>1
  <2> QED
    BY <2>2
<1>5. CASE StartRevise(w, t)
  <2>1. PICK pc \in {"capError", "bump"} : Start(w, t, "awaiting_approval", pc, 0)
    BY <1>5 DEF StartRevise
  <2>2. UNCHANGED db /\ proc'[w].pc = pc /\ proc'[w].task = t /\ ~proc'[w].armed
    BY <1>1, <2>1
  <2> QED
    BY <2>1, <2>2
<1> QED
  BY <1>2, <1>3, <1>4, <1>5 DEF Command

\* With one process, every step keeps ArmedLegal and moves along the table.
LEMMA SequentialStep ==
    ASSUME OneAtATime, TypeOK, FactoryInv, ArmedLegal, [Next]_vars
    PROVE  /\ ArmedLegal'
           /\ [Lifecycle!Next]_status
<1>0. proc \in [Worker -> Process] /\ status \in [Task -> State]
  BY DEF TypeOK, ProcOK
<1>1. ASSUME NEW w \in Worker, AssertTransition(w)
      PROVE  ArmedLegal' /\ status' = status
  <2>1. status' = status
    BY <1>1 DEF AssertTransition, db
  <2>2. CASE Raise(w)
    BY <2>1, <2>2, Disarmed DEF OneAtATime, ArmedLegal
  <2>3. CASE /\ Legal(status[proc[w].task], Dst(proc[w].pc))
             /\ proc' = [proc EXCEPT ![w].armed = TRUE]
    <3>1. proc'[w].pc = proc[w].pc /\ proc'[w].task = proc[w].task
      BY <1>0, <2>3 DEF Process
    <3> QED
      BY <2>1, <2>3, <3>1 DEF OneAtATime, ArmedLegal
  <2> QED
    BY <1>1, <2>1, <2>2, <2>3 DEF AssertTransition
<1>2. ASSUME NEW w \in Worker, WriteStatus(w)
      PROVE  ArmedLegal' /\ Lifecycle!Next
  <2>1. ~proc'[w].armed
    BY <1>2, Disarmed DEF WriteStatus
  <2>2. proc[w].task \in Task /\ Dst(proc[w].pc) \in State
    <3>1. proc[w].pc \in Points \ {"idle"}
      BY <1>2 DEF WriteStatus, TransitionPoints, Points, RunPoints, FailPoints, ApprovePoints,
                  RejectPoints
    <3> QED
      BY <3>1, PointTypes DEF TypeOK, ProcOK, Process
  <2>3. Lifecycle!Move(proc[w].task, Dst(proc[w].pc))
    BY <1>2 DEF WriteStatus, ArmedLegal, Lifecycle!Move, Lifecycle!Legal, Lifecycle!Transitions,
                Legal, Transitions
  <2> QED
    BY <2>1, <2>2, <2>3 DEF OneAtATime, ArmedLegal, Lifecycle!Next, Lifecycle!State, State
<1>3. ASSUME NEW w \in Worker, Quiet(w)
      PROVE  ArmedLegal' /\ status' = status
  BY <1>3, QuietSteps DEF OneAtATime, ArmedLegal
<1>4. ASSUME NEW w \in Worker, Crash(w)
      PROVE  ArmedLegal' /\ status' = status
  BY <1>4, Disarmed DEF Crash, db, OneAtATime, ArmedLegal
<1>5. ASSUME NEW w \in Worker, NEW t \in Task, Command(w, t)
      PROVE  ArmedLegal' /\ status' = status
  BY <1>5, StartSteps DEF db, OneAtATime, ArmedLegal
<1>6. CASE UNCHANGED vars
  BY <1>6 DEF vars, ArmedLegal
<1> QED
  BY <1>1, <1>2, <1>3, <1>4, <1>5, <1>6 DEF Next, Step, Quiet

\* Nothing comes between the check of a transition and its update when one
\* process runs at a time: the status column then obeys the abstract lifecycle,
\* though the process may die between the two.
THEOREM SequentialLifecycle ==
    ASSUME OneAtATime
    PROVE  Spec => LifecycleSpec
<1>1. Init => Lifecycle!Init
  BY DEF Init, Lifecycle!Init
<1>2. Init => ArmedLegal
  BY DEF Init, ArmedLegal, Idle
<1>3. TypeOK /\ FactoryInv /\ ArmedLegal /\ [Next]_vars
          => ArmedLegal' /\ [Lifecycle!Next]_status
  BY SequentialStep
<1> QED
  BY <1>1, <1>2, <1>3, Typing, Invariance, PTL DEF Spec, LifecycleSpec, Lifecycle!Spec

-----------------------------------------------------------------------------
(* The agent of an approved task has the prompt the reviewer was shown. *)

\* What process w knows of the prompt: the one it saves is still the one on the
\* task, so is that of the agent it has saved, and a task whose prompt is being
\* written awaits nothing.
ShownAt(w) ==
    LET t == proc[w].task
    IN  /\ proc[w].pc = "saveAgent" => proc[w].prompt = manifest[t]
        /\ proc[w].pc = "toApproved" =>
               \A a \in agents : a.task = t => a.prompt = manifest[t]
        /\ proc[w].pc \in {"genPrompt", "setManifest", "regenerate", "setRevised"} =>
               status[t] = "writing_prompt"

ShownInv ==
    /\ \A w \in Worker : ShownAt(w)
    /\ \A a \in agents : status[a.task] = "approved" => a.prompt = manifest[a.task]

\* A step that changes neither status, manifest nor agents need only be looked
\* at for the process that takes it.
LEMMA ShownLocal ==
    ASSUME OneAtATime, ShownInv, NEW w \in Worker, ShownAt(w)',
           status' = status, manifest' = manifest, agents' = agents
    PROVE  ShownInv'
<1>1. \A v \in Worker : v = w
  BY DEF OneAtATime
<1>2. \A v \in Worker : ShownAt(v)'
  <2> TAKE v \in Worker
  <2>1. v = w
    BY <1>1
  <2> QED
    BY <2>1
<1> QED
  BY <1>2 DEF ShownInv

\* Where a process stands after it went on, ended or failed.
LEMMA Moves ==
    ASSUME TypeOK, NEW w \in Worker
    PROVE  /\ \A pc : Goto(w, pc) => proc'[w].pc = pc /\ proc'[w].task = proc[w].task
           /\ \A pc, p : Hold(w, pc, p) => /\ proc'[w].pc = pc
                                           /\ proc'[w].task = proc[w].task
                                           /\ proc'[w].prompt = p
           /\ Return(w) => proc'[w].pc = "idle"
           /\ Raise(w) => proc'[w].pc \in {"idle", "setError"}
BY DEF TypeOK, ProcOK, Process, Goto, Hold, Return, Raise, Idle

\* At every other point nothing is to be known.
LEMMA ShownElsewhere ==
    ASSUME NEW w \in Worker,
           proc[w].pc \notin {"saveAgent", "toApproved", "genPrompt", "setManifest",
                              "regenerate", "setRevised"}
    PROVE  ShownAt(w)
BY DEF ShownAt

\* The transition to approved is made with the right agent on file, and no
\* other transition makes a task approved.
LEMMA ShownWrite ==
    ASSUME OneAtATime, TypeOK, ShownInv, NEW w \in Worker, WriteStatus(w)
    PROVE  ShownInv'
<1>0. PICK t \in Task : t = proc[w].task
  BY DEF WriteStatus, TransitionPoints, TypeOK, ProcOK, Process
<1>1. /\ manifest' = manifest /\ agents' = agents
      /\ status' = [status EXCEPT ![t] = Dst(proc[w].pc)]
      /\ proc[w].pc \in TransitionPoints
  BY <1>0 DEF WriteStatus
<1>2. \A a \in agents : a.task \in Task
  BY DEF TypeOK, Agent
<1>3. /\ status'[t] = Dst(proc[w].pc)
      /\ \A u \in Task \ {t} : status'[u] = status[u]
  BY <1>0, <1>1 DEF TypeOK
<1>4. Dst(proc[w].pc) = "approved" => proc[w].pc = "toApproved"
  BY <1>1 DEF Dst, TransitionPoints
<1>5. \A a \in agents' : status'[a.task] = "approved" => a.prompt = manifest'[a.task]
  <2> SUFFICES ASSUME NEW a \in agents, status'[a.task] = "approved"
               PROVE  a.prompt = manifest[a.task]
    BY <1>1
  <2>1. CASE a.task = t
    BY <1>0, <1>3, <1>4, <2>1 DEF ShownInv, ShownAt
  <2>2. CASE a.task # t
    BY <1>2, <1>3, <2>2 DEF ShownInv
  <2> QED
    BY <2>1, <2>2
<1>6. ShownAt(w)'
  <2>1. \/ proc'[w].pc = "idle"
        \/ proc'[w].pc = After(proc[w].pc) /\ proc'[w].task = t
    BY <1>0, Moves DEF WriteStatus
  <2>2. /\ After(proc[w].pc) \in {"research", "writeSpec", "genPrompt", "regenerate", "idle"}
        /\ After(proc[w].pc) \in {"genPrompt", "regenerate"} => Dst(proc[w].pc) = "writing_prompt"
    BY <1>1 DEF After, Dst, TransitionPoints
  <2> QED
    BY <1>3, <2>1, <2>2 DEF ShownAt
<1>7. \A v \in Worker : ShownAt(v)'
  <2> TAKE v \in Worker
  <2>1. v = w
    BY DEF OneAtATime
  <2> QED
    BY <1>6, <2>1
<1> QED
  BY <1>5, <1>7 DEF ShownInv

\* A manifest is only replaced while its task is being written, so that of an
\* approved task stays.
LEMMA ShownManifest ==
    ASSUME OneAtATime, TypeOK, ShownInv, NEW w \in Worker, SetManifest(w)
    PROVE  ShownInv'
<1>0. PICK t \in Task : t = proc[w].task
  BY DEF SetManifest, TypeOK, ProcOK, Process
<1>1. /\ agents' = agents /\ status' = status
      /\ manifest' = [manifest EXCEPT ![t] = proc[w].prompt]
      /\ proc[w].pc \in {"setManifest", "setRevised"}
  BY <1>0 DEF SetManifest
<1>2. status[t] = "writing_prompt"
  BY <1>0, <1>1 DEF ShownInv, ShownAt
<1>3. \A u \in Task \ {t} : manifest'[u] = manifest[u]
  BY <1>1 DEF TypeOK
<1>4. \A a \in agents' : status'[a.task] = "approved" => a.prompt = manifest'[a.task]
  BY <1>1, <1>2, <1>3 DEF ShownInv, TypeOK, Agent
<1>5. ShownAt(w)'
  <2>1. proc'[w].pc \in {"toAwaiting", "backToAwaiting"}
    BY Moves DEF SetManifest
  <2> QED
    BY <2>1 DEF ShownAt
<1>6. \A v \in Worker : ShownAt(v)'
  <2> TAKE v \in Worker
  <2>1. v = w
    BY DEF OneAtATime
  <2> QED
    BY <1>5, <2>1
<1> QED
  BY <1>4, <1>6 DEF ShownInv

\* The agent saved is the task's first, for an earlier one would hold its slug,
\* and has the prompt of the manifest.
LEMMA ShownSave ==
    ASSUME OneAtATime, TypeOK, FactoryInv, ShownInv, NEW w \in Worker, SaveAgent(w)
    PROVE  ShownInv'
<1>0. PICK t \in Task : t = proc[w].task
  BY DEF SaveAgent, TypeOK, ProcOK, Process
<1>1. status' = status /\ manifest' = manifest
  BY DEF SaveAgent
<1>2. CASE SlugTaken(slug[t])
  <2>1. agents' = agents /\ Raise(w)
    BY <1>0, <1>2 DEF SaveAgent
  <2>2. ShownAt(w)'
    BY <2>1, Moves DEF ShownAt
  <2> QED
    BY <1>1, <2>1, <2>2, ShownLocal
<1>3. CASE ~SlugTaken(slug[t])
  <2>1. PICK n : n = [slug |-> slug[t], task |-> t, prompt |-> proc[w].prompt]
    OBVIOUS
  <2>2. agents' = agents \cup {n} /\ Goto(w, "toApproved")
    BY <1>0, <1>3, <2>1 DEF SaveAgent
  <2>3. n.task = t /\ n.prompt = manifest[t]
    BY <1>0, <2>1 DEF SaveAgent, ShownInv, ShownAt
  <2>4. \A a \in agents : a.task # t
    BY <1>3 DEF SlugTaken, FactoryInv, AgentInv
  <2>5. \A a \in agents' : status'[a.task] = "approved" => a.prompt = manifest'[a.task]
    BY <1>1, <2>2, <2>3 DEF ShownInv
  <2>6. proc'[w].pc = "toApproved" /\ proc'[w].task = t
    BY <1>0, <2>2, Moves
  <2>7. ShownAt(w)'
    BY <1>1, <2>2, <2>3, <2>4, <2>6 DEF ShownAt
  <2>8. \A v \in Worker : ShownAt(v)'
    <3> TAKE v \in Worker
    <3>1. v = w
      BY DEF OneAtATime
    <3> QED
      BY <2>7, <3>1
  <2> QED
    BY <2>5, <2>8 DEF ShownInv
<1> QED
  BY <1>2, <1>3

\* The other steps of a command touch neither the status nor the manifest nor
\* the agents; those that go on to write a prompt do it from a point where the
\* task is already being written.
LEMMA ShownOther ==
    ASSUME OneAtATime, TypeOK, ShownInv, NEW w \in Worker,
           \/ AssertTransition(w)
           \/ PickSlug(w) \/ Research(w) \/ WriteSpec(w) \/ GeneratePrompt(w)
           \/ SetError(w) \/ RecordFeedback(w) \/ RegeneratePrompt(w)
    PROVE  ShownInv'
<1>0. /\ ShownAt(w)
      /\ proc \in [Worker -> Process]
  BY DEF ShownInv, TypeOK, ProcOK
<1>1. status' = status /\ manifest' = manifest /\ agents' = agents
  BY DEF AssertTransition, PickSlug, Research, WriteSpec, GeneratePrompt, SetError,
         RecordFeedback, RegeneratePrompt, db
<1>r. ASSUME Raise(w) PROVE ShownAt(w)'
  BY <1>r, Moves DEF ShownAt
<1>g. ASSUME NEW pc \in {"toResearching", "toDrafting", "toWriting", "toFailed", "capFailed",
                         "rollback"},
             Goto(w, pc)
      PROVE  ShownAt(w)'
  <2>1. proc'[w].pc = pc
    BY <1>g, Moves
  <2> QED
    BY <2>1 DEF ShownAt
<1>h. ASSUME NEW pc \in {"setManifest", "setRevised"}, NEW p, Hold(w, pc, p),
             proc[w].pc \in {"genPrompt", "regenerate"}
      PROVE  ShownAt(w)'
  <2>1. proc'[w].pc = pc /\ proc'[w].task = proc[w].task
    BY <1>h, Moves
  <2> QED
    BY <1>0, <1>1, <1>h, <2>1 DEF ShownAt
<1>2. CASE AssertTransition(w)
  <2>1. CASE proc' = [proc EXCEPT ![w].armed = TRUE]
    <3>1. /\ proc'[w].pc = proc[w].pc /\ proc'[w].task = proc[w].task
          /\ proc'[w].prompt = proc[w].prompt
      BY <1>0, <2>1 DEF Process
    <3>2. ShownAt(w)'
      BY <1>0, <1>1, <3>1 DEF ShownAt
    <3> QED
      BY <1>1, <3>2, ShownLocal
  <2> QED
    BY <1>1, <1>2, <1>r, <2>1, ShownLocal DEF AssertTransition
<1>3. CASE PickSlug(w)
  BY <1>1, <1>3, <1>g, <1>r, ShownLocal DEF PickSlug
<1>4. CASE Research(w)
  BY <1>1, <1>4, <1>g, <1>r, ShownLocal DEF Research
<1>5. CASE WriteSpec(w)
  BY <1>1, <1>5, <1>g, <1>r, ShownLocal DEF WriteSpec
<1>6. CASE GeneratePrompt(w)
  BY <1>1, <1>6, <1>h, <1>r, ShownLocal DEF GeneratePrompt
<1>7. CASE SetError(w)
  BY <1>1, <1>7, <1>g, ShownLocal DEF SetError
<1>8. CASE RecordFeedback(w)
  BY <1>1, <1>8, <1>g, ShownLocal DEF RecordFeedback
<1>9. CASE RegeneratePrompt(w)
  BY <1>1, <1>9, <1>h, <1>r, ShownLocal DEF RegeneratePrompt
<1> QED
  BY <1>2, <1>3, <1>4, <1>5, <1>6, <1>7, <1>8, <1>9

\* So every step keeps ShownInv.
LEMMA ShownStep ==
    ASSUME OneAtATime, TypeOK, FactoryInv, ShownInv, [Next]_vars
    PROVE  ShownInv'
<1>1. ASSUME NEW w \in Worker, Step(w) PROVE ShownInv'
  BY <1>1, ShownWrite, ShownManifest, ShownSave, ShownOther DEF Step
<1>2. ASSUME NEW w \in Worker, Crash(w) PROVE ShownInv'
  <2>1. ShownAt(w)'
    BY <1>2, Moves DEF Crash, ShownAt
  <2> QED
    BY <1>2, <2>1, ShownLocal DEF Crash, db
<1>3. ASSUME NEW w \in Worker, NEW t \in Task, Command(w, t) PROVE ShownInv'
  <2>1. ShownAt(w)'
    BY <1>3, StartSteps DEF db, ShownAt
  <2> QED
    BY <1>3, <2>1, StartSteps, ShownLocal DEF db
<1>4. CASE UNCHANGED vars
  BY <1>4 DEF vars, ShownInv, ShownAt
<1> QED
  BY <1>1, <1>2, <1>3, <1>4 DEF Next

\* With one process at a time the agent of an approved task is the one the
\* reviewer was shown: the manifest read at the start of handle_approve is still
\* the task's when the task becomes approved, and stays it.
THEOREM SequentialApproval ==
    ASSUME OneAtATime
    PROVE  Spec => []ApprovedAsShown
<1>1. Init => ShownInv
  BY DEF Init, ShownInv, ShownAt, Idle
<1>2. TypeOK /\ FactoryInv /\ ShownInv /\ [Next]_vars => ShownInv'
  BY ShownStep
<1>3. ShownInv => ApprovedAsShown
  BY DEF ShownInv, ApprovedAsShown
<1> QED
  BY <1>1, <1>2, <1>3, Typing, Invariance, PTL DEF Spec
=============================================================================
