------------------------------ MODULE AnomalyGate ------------------------------
(***************************************************************************)
(* The frequency cap of a tool (security/anomaly.py) in the dispatcher of  *)
(* examples/fastapi_agent.py: kill switch, cap, approval, run, by threads  *)
(* of a pool.  check_and_record reads the clock before it takes the lock,  *)
(* so stamps need not be in the order of the deque.                        *)
(*                                                                         *)
(* Cap keys share nothing but the lock: one of them is modelled, with all  *)
(* the tools it governs.  A tool without a cap is only subject to the kill *)
(* switch and the approval.  Stamps are kept as ages, as in                *)
(* AuthRateLimiter; the approval of a command is left to chance.           *)
(***************************************************************************)
EXTENDS Integers, Sequences, SequencesExt, FiniteSets, FiniteSetsExt

CONSTANTS
    Worker,         \* threads that dispatch tools
    Limit, Span,    \* the cap: so many in a window of Span
    MaxWait         \* bound: how long a thread may wait for the lock

ASSUME GateAssumption ==
    /\ IsFiniteSet(Worker) /\ Worker # {}
    /\ Limit \in Nat \ {0} /\ Span \in Nat /\ MaxWait \in Nat

VARIABLES
    doing,          \* doing[w]: where the dispatch of w stands
    wait,           \* wait[w]: the age of its clock reading
    hits,           \* _hits: ages of the stamps, in the order of the deque
    killed,         \* the kill switch, in the environment
    \* history
    recorded,       \* the calls let through in the last Span: [age, late]
    sinceKill       \* tools run since the switch was set

gateVars == <<doing, wait, hits, killed, recorded, sinceKill>>

MaxStamp == Span + MaxWait + 1

GateInit ==
    /\ doing = [w \in Worker |-> "idle"] /\ wait = [w \in Worker |-> 0]
    /\ hits = <<>>
    /\ killed = FALSE
    /\ recorded = <<>> /\ sinceKill = 0

Does(w, what) == doing' = [doing EXCEPT ![w] = what] /\ wait' = [wait EXCEPT ![w] = 0]

-----------------------------------------------------------------------------
\* Variant with a fault: the switch is looked at by nobody but the scheduler.
DispatchKilled(w, capped) ==
    /\ doing[w] = "idle"
    /\ Does(w, IF capped THEN "cap" ELSE "run")
    /\ UNCHANGED <<hits, killed, recorded, sinceKill>>

\* dispatch_tool, up to the cap: the switch is looked at once, here.
Dispatch(w, capped) ==
    /\ doing[w] = "idle" /\ ~killed
    /\ Does(w, IF capped THEN "cap" ELSE "run")
    /\ UNCHANGED <<hits, killed, recorded, sinceKill>>

\* Variant with a fault: a stamp as old as the window goes, too.
LiveOpen(stamps, late) ==
    LET kept == {i \in DOMAIN stamps : stamps[i] - late < Span}
    IN  IF kept = {} THEN <<>> ELSE SubSeq(stamps, Min(kept), Len(stamps))

\* popleft while dq[0] < now - window: stops at the first that is not older.
Live(stamps, late) ==
    LET kept == {i \in DOMAIN stamps : stamps[i] - late <= Span}
    IN  IF kept = {} THEN <<>> ELSE SubSeq(stamps, Min(kept), Len(stamps))

\* Variant with a fault: what is blocked is recorded, too.
CheckAndRecordAll(w) ==
    /\ doing[w] = "cap"
    /\ LET live == Live(hits, wait[w])
       IN  IF Len(live) >= Limit
           THEN /\ Does(w, "idle") /\ UNCHANGED recorded
                /\ hits' = Append(Tail(live), wait[w])
           ELSE /\ Does(w, "run")
                /\ hits' = Append(live, wait[w])
                /\ recorded' = Append(recorded, [age |-> 0, late |-> wait[w] > 0])
    /\ UNCHANGED <<killed, sinceKill>>

\* Variant with a fault: one more.
CheckAndRecordOneMore(w) ==
    /\ doing[w] = "cap"
    /\ LET live == Live(hits, wait[w])
       IN  IF Len(live) > Limit
           THEN Does(w, "idle") /\ hits' = live /\ UNCHANGED recorded
           ELSE /\ Does(w, "run")
                /\ hits' = Append(live, wait[w])
                /\ recorded' = Append(recorded, [age |-> 0, late |-> wait[w] > 0])
    /\ UNCHANGED <<killed, sinceKill>>

\* check_and_record, under the lock: let through and recorded, or blocked.
CheckAndRecord(w) ==
    /\ doing[w] = "cap"
    /\ LET live == Live(hits, wait[w])
       IN  IF Len(live) >= Limit
           THEN Does(w, "idle") /\ hits' = live /\ UNCHANGED recorded
           ELSE /\ Does(w, "run")
                /\ hits' = Append(live, wait[w])
                /\ recorded' = Append(recorded, [age |-> 0, late |-> wait[w] > 0])
    /\ UNCHANGED <<killed, sinceKill>>

\* The approval gate lets the command through, and it runs; or it does not.
Run(w) ==
    /\ doing[w] = "run"
    /\ Does(w, "idle")
    /\ sinceKill' = IF killed THEN sinceKill + 1 ELSE 0
    /\ UNCHANGED <<hits, killed, recorded>>

NotApproved(w) ==
    /\ doing[w] = "run"
    /\ Does(w, "idle")
    /\ UNCHANGED <<hits, killed, recorded, sinceKill>>

SetKillSwitch(on) ==
    /\ killed # on
    /\ killed' = on /\ sinceKill' = 0
    /\ UNCHANGED <<doing, wait, hits, recorded>>

\* The calls are in the order of their ages.
InSpan(calls) ==
    LET young == {i \in DOMAIN calls : calls[i].age <= Span}
    IN  IF young = {} THEN <<>> ELSE SubSeq(calls, Min(young), Len(calls))

GateTick ==
    /\ \A w \in Worker : wait[w] < MaxWait
    /\ wait' = [w \in Worker |-> IF doing[w] = "cap" THEN wait[w] + 1 ELSE 0]
    /\ hits' = [i \in DOMAIN hits |-> IF hits[i] < MaxStamp THEN hits[i] + 1 ELSE MaxStamp]
    /\ recorded' = InSpan([i \in DOMAIN recorded |-> [recorded[i] EXCEPT !.age = @ + 1]])
    /\ UNCHANGED <<doing, killed, sinceKill>>

-----------------------------------------------------------------------------
WorkerStep(w) == CheckAndRecord(w) \/ Run(w) \/ NotApproved(w)

GateNext ==
    \/ \E w \in Worker : WorkerStep(w) \/ \E capped \in BOOLEAN : Dispatch(w, capped)
    \/ \E on \in BOOLEAN : SetKillSwitch(on)
    \/ GateTick

-----------------------------------------------------------------------------
GateTypeOK ==
    /\ doing \in [Worker -> {"idle", "cap", "run"}]
    /\ wait \in [Worker -> 0 .. MaxWait]
    /\ hits \in Seq(0 .. MaxStamp) /\ Len(hits) <= Limit
    /\ killed \in BOOLEAN

\* The cap is a ceiling, over the closed window, for the calls whose reading of
\* the clock was not overtaken on the way to the lock.
CapOnTime == Cardinality({i \in DOMAIN recorded : ~recorded[i].late}) <= Limit

\* A thread that waited between the clock and the lock can add one: its stamp is
\* old when it is recorded, and goes early.
CapBound == Len(recorded) <= Limit + Cardinality(Worker)

\* The kill switch stops what comes after it: at most the dispatches that had
\* looked at it before still run.
KillReachesAll == sinceKill <= Cardinality(Worker)

\* A blocked call is not recorded, so a tool is not disabled by being tried: if
\* it is tried for ever, calls get through for ever.
NotDisabled ==
    []<>(\E w \in Worker : doing[w] = "cap") => []<>(recorded # <<>>)

\* How many calls threads get past the cap together, and past the kill switch.
GateInv ==
    /\ GateTypeOK
    /\ CapOnTime
    /\ CapBound
    /\ KillReachesAll

=============================================================================
