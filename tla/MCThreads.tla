------------------------------- MODULE MCThreads -------------------------------
(***************************************************************************)
(* What threads of one process share, for TLC: the login limiter and the   *)
(* tool cap of the security library, Donald's reminder loop, and the agent *)
(* factory's registry watcher.  They have nothing to do with each other; a *)
(* behaviour is about one of them, chosen at the start.                    *)
(***************************************************************************)
EXTENDS AuthRateLimiter, AnomalyGate, ProactiveLoop, RegistryWatcher

CONSTANTS w1, w2, w3, d1, d2, call, pay, t1, t2, t3, research, legal

VARIABLE about

ThreeThreads == {w1, w2, w3}
TwoDaemons   == {d1, d2}
TwoReminders == {call, pay}
ThreeTimers  == {t1, t2, t3}
TwoSlugs     == {research, legal}

mcVars == <<about, limiterVars, gateVars, loopVars, watcherVars>>

MCInit ==
    /\ about \in {"logins", "tools", "reminders", "registry"}
    /\ LimiterInit /\ GateInit /\ LoopInit /\ WatcherInit
    /\ about # "registry" => active = {}

\* The behaviour is about this part; the others stand still.
Logins(A)    == about = "logins" /\ A /\ UNCHANGED <<about, gateVars, loopVars, watcherVars>>
Tools(A)     == about = "tools" /\ A /\ UNCHANGED <<about, limiterVars, loopVars, watcherVars>>
Reminders(A) == about = "reminders" /\ A /\ UNCHANGED <<about, limiterVars, gateVars, watcherVars>>
Registry(A)  == about = "registry" /\ A /\ UNCHANGED <<about, limiterVars, gateVars, loopVars>>

MCNext ==
    \/ Logins(LimiterNext) \/ Tools(GateNext)
    \/ Reminders(LoopNext) \/ Registry(WatcherNext)

\* Time passes, and timers fire and their ticks go on.
TimeGoesOn ==
    \/ Logins(LimiterTick) \/ Tools(GateTick)
    \/ Registry(WatcherStep)

\* A thread gets the lock and goes on with its request; a daemon's loop goes on.
GoesOn(w) == Logins(ThreadStep(w)) \/ Tools(WorkerStep(w))
LoopGoesOn(d) == Reminders(LoopStep(d))

MCSpec ==
    /\ MCInit /\ [][MCNext]_mcVars
    /\ WF_mcVars(TimeGoesOn)
    /\ \A w \in ThreeThreads : WF_mcVars(GoesOn(w))
    /\ \A d \in TwoDaemons : WF_mcVars(LoopGoesOn(d))

\* Threads that run get somewhere: a lockout ends, a cap is not used up by what
\* it blocks, due reminders are marked, the registry catches up.
AllGoOn ==
    /\ LockoutEnds
    /\ NotDisabled
    /\ DueIsFired
    /\ CatchesUp

=============================================================================
