---------------------------- MODULE RegistryWatcher ----------------------------
(***************************************************************************)
(* The agent factory's RegistryWatcher (agent_factory/runtime.py): it      *)
(* keeps one dispatch tool per active agent.  refresh runs under a lock,   *)
(* called by the host's thread (notify, start_polling) and by the threads  *)
(* of the timers that start_polling and _tick set up one after the other.  *)
(* stop holds no lock.                                                     *)
(*                                                                         *)
(* A timer is a number; one that is over may be made again.  The rows of   *)
(* spawned_agents change behind the watcher's back, by commands in other   *)
(* processes; a dispatch tool reads its row again when it is used, so a    *)
(* tool left behind answers that its agent is not available.               *)
(***************************************************************************)
EXTENDS Integers, FiniteSets

CONSTANTS
    Slug,
    Timer,          \* timers that can exist at once
    MaxEdits,       \* bound: agents approved or archived
    MaxRaises,      \* bound: refreshes that raise
    MaxCalls        \* bound: calls by the host

Host   == "host"
NoOne  == "no one"

ASSUME WatcherAssumption ==
    /\ {Host, NoOne} \cap Timer = {}
    /\ MaxEdits \in Nat /\ MaxRaises \in Nat /\ MaxCalls \in Nat

VARIABLES
    active,         \* list_active: slugs of the active rows
    known,          \* _known_slugs
    tools,          \* slugs with a registered dispatch tool
    holder,         \* who holds _lock
    seen,           \* the rows its refresh read
    does,           \* does[a]: where the host, or the thread of a timer, stands
    current,        \* _timer
    \* bounds and history
    edits, raises, calls,
    orphans,        \* tools registered by a refresh that raised
    asked,          \* the host's last call: polling or not
    escaped         \* a tick was under way when stop was called, or two pollings

watcherVars == <<active, known, tools, holder, seen, does, current,
                 edits, raises, calls, orphans, asked, escaped>>
refreshing == <<known, tools, holder, seen, orphans>>
bounds == <<edits, raises, calls>>

Actor == Timer \cup {Host}

WatcherInit ==
    /\ active \in SUBSET Slug
    /\ known = {} /\ tools = {}
    /\ holder = NoOne /\ seen = {}
    /\ does = [a \in Actor |-> IF a = Host THEN "free" ELSE "over"]
    /\ current = NoOne
    /\ edits = 0 /\ raises = 0 /\ calls = 0
    /\ orphans = {} /\ asked = "nothing" /\ escaped = FALSE

Goes(a, to) == does' = [does EXCEPT ![a] = to]

\* _timer = t: a timer that was made, and not started, is nobody's now.
SetTimer(t, others) ==
    /\ current' = t
    /\ does' = [a \in Actor |-> IF a = current /\ does[a] = "made" /\ a # t THEN "over"
                                                                         ELSE others[a]]

\* Timers that are waiting, and threads of timers in their tick.
Armed   == {t \in Timer : does[t] = "armed"}
Ticking == {t \in Timer : does[t] \in {"refresh", "refreshed", "arming"}}

-----------------------------------------------------------------------------
(* The host.                                                               *)

CallNotify ==
    /\ does[Host] = "free" /\ calls < MaxCalls
    /\ calls' = calls + 1
    /\ Goes(Host, "refresh")
    /\ UNCHANGED <<active, refreshing, current, edits, raises, asked, escaped>>

\* Bound: at most two pollings at once.
StartPolling ==
    /\ does[Host] = "free" /\ calls < MaxCalls
    /\ Cardinality(Armed \cup Ticking) <= 1
    /\ calls' = calls + 1
    /\ Goes(Host, "refresh to poll")
    /\ UNCHANGED <<active, refreshing, current, edits, raises, asked, escaped>>

\* start_polling, after its refresh: a first timer, whatever _timer was.
ArmFirst(t) ==
    /\ does[Host] = "refreshed" /\ does[t] = "over"
    /\ SetTimer(t, [does EXCEPT ![Host] = "free", ![t] = "armed"])
    /\ escaped' = (escaped \/ Armed # {} \/ Ticking # {})
    /\ asked' = "polling"
    /\ UNCHANGED <<active, refreshing, bounds>>

\* Variant with a fault: _timer is forgotten, but not cancelled.
StopForgets ==
    /\ does[Host] = "free" /\ calls < MaxCalls
    /\ calls' = calls + 1
    /\ Goes(Host, "stopping")
    /\ asked' = "stopped" /\ escaped' = (escaped \/ Ticking # {})
    /\ UNCHANGED <<active, refreshing, current, edits, raises>>

\* stop: cancel, which does nothing to a timer that is in its tick; then
\* _timer = None, over whatever a tick has put there since.
StopPolling ==
    /\ does[Host] = "free" /\ calls < MaxCalls
    /\ calls' = calls + 1
    /\ does' = [a \in Actor |-> CASE a = Host -> "stopping"
                                  [] a = current /\ does[a] \in {"armed", "made"} -> "over"
                                  [] OTHER -> does[a]]
    /\ asked' = "stopped" /\ escaped' = (escaped \/ Ticking # {})
    /\ UNCHANGED <<active, refreshing, current, edits, raises>>

Forget ==
    /\ does[Host] = "stopping"
    /\ SetTimer(NoOne, [does EXCEPT ![Host] = "free"])
    /\ UNCHANGED <<active, refreshing, bounds, asked, escaped>>

-----------------------------------------------------------------------------
(* refresh, by the host or in a tick.                                      *)

\* The lock, and list_active.
ReadRows(a) ==
    /\ does[a] \in {"refresh", "refresh to poll"} /\ holder = NoOne
    /\ holder' = a /\ seen' = active
    /\ UNCHANGED <<active, known, tools, does, current, bounds, orphans, asked, escaped>>

Register(a, s) ==
    /\ holder = a /\ s \in (seen \ known) \ tools
    /\ tools' = tools \cup {s}
    /\ UNCHANGED <<active, known, holder, seen, does, current, bounds, orphans, asked, escaped>>

AfterRefresh(a) == CASE does[a] = "refresh" /\ a = Host -> "free"
                     [] OTHER -> "refreshed"

\* Variant with a fault: the tools of archived agents stay.
ReconcileAdding(a) ==
    /\ holder = a /\ seen \ known \subseteq tools
    /\ known' = seen /\ holder' = NoOne /\ seen' = {}
    /\ Goes(a, AfterRefresh(a))
    /\ UNCHANGED <<active, tools, current, bounds, orphans, asked, escaped>>

\* Variant with a fault: the lock is not released.
ReconcileLocked(a) ==
    /\ holder = a /\ seen \ known \subseteq tools
    /\ tools' = tools \ (known \ seen)
    /\ orphans' = orphans \ (known \cup seen)
    /\ known' = seen /\ seen' = {}
    /\ Goes(a, AfterRefresh(a))
    /\ UNCHANGED <<active, holder, current, bounds, asked, escaped>>

\* Variant with a fault: _known_slugs is replaced only when tools are added.
ReconcileGrowing(a) ==
    /\ holder = a /\ seen \ known \subseteq tools
    /\ tools' = IF seen \subseteq known THEN tools ELSE tools \ (known \ seen)
    /\ orphans' = orphans \ (known \cup seen)
    /\ known' = IF seen \subseteq known THEN known ELSE seen
    /\ holder' = NoOne /\ seen' = {}
    /\ Goes(a, AfterRefresh(a))
    /\ UNCHANGED <<active, current, bounds, asked, escaped>>

\* All are registered: the others' tools go, and _known_slugs is replaced.
Reconcile(a) ==
    /\ holder = a /\ seen \ known \subseteq tools
    /\ tools' = tools \ (known \ seen)
    /\ orphans' = orphans \ (known \cup seen)
    /\ known' = seen /\ holder' = NoOne /\ seen' = {}
    /\ Goes(a, AfterRefresh(a))
    /\ UNCHANGED <<active, current, bounds, asked, escaped>>

\* The database raises, in list_active or in build_dispatch_tool: what is
\* registered stays, _known_slugs does not learn of it, the thread of a timer
\* ends without arming the next.
RefreshRaises(a) ==
    /\ holder = a /\ raises < MaxRaises
    /\ raises' = raises + 1
    /\ orphans' = orphans \cup (tools \ known)
    /\ holder' = NoOne /\ seen' = {}
    /\ Goes(a, IF a = Host THEN "free" ELSE "over")
    /\ UNCHANGED <<active, known, tools, current, edits, calls, asked, escaped>>

-----------------------------------------------------------------------------
(* The timers.                                                             *)

Fire(t) ==
    /\ does[t] = "armed"
    /\ Goes(t, "refresh")
    /\ UNCHANGED <<active, refreshing, current, bounds, asked, escaped>>

\* Variant with a fault: a tick arms only the timer it was made with.
NewTimerOnce(t, n) ==
    /\ does[t] = "refreshed" /\ n = t
    /\ Goes(t, "over")
    /\ UNCHANGED <<active, refreshing, current, bounds, asked, escaped>>

\* _tick: self._timer is a new timer, which is started in the next statement.
NewTimer(t, n) ==
    /\ does[t] = "refreshed" /\ does[n] = "over"
    /\ SetTimer(n, [does EXCEPT ![t] = "arming", ![n] = "made"])
    /\ UNCHANGED <<active, refreshing, bounds, asked, escaped>>

\* self._timer.start(): of what _timer is by now.  None, or a timer that was
\* started by another, raises.
StartTimer(t) ==
    /\ does[t] = "arming"
    /\ does' = [a \in Actor |->
                  CASE a = t -> "over"
                    [] a = current /\ does[a] = "made" -> "armed"
                    [] OTHER -> does[a]]
    /\ UNCHANGED <<active, refreshing, current, bounds, asked, escaped>>

-----------------------------------------------------------------------------
\* Another process approves or archives an agent.
Edit(s) ==
    /\ edits < MaxEdits
    /\ edits' = edits + 1
    /\ active' = IF s \in active THEN active \ {s} ELSE active \cup {s}
    /\ UNCHANGED <<refreshing, does, current, raises, calls, asked, escaped>>

RefreshStep(a) == ReadRows(a) \/ Reconcile(a) \/ \E s \in Slug : Register(a, s)

WatcherStep ==
    \/ \E a \in Actor : RefreshStep(a)
    \/ \E t \in Timer :
          Fire(t) \/ StartTimer(t) \/ ArmFirst(t) \/ \E n \in Timer : NewTimer(t, n)
    \/ Forget

WatcherNext ==
    \/ WatcherStep
    \/ \E a \in Actor : RefreshRaises(a)
    \/ CallNotify \/ StartPolling \/ StopPolling
    \/ \E s \in Slug : Edit(s)

-----------------------------------------------------------------------------
\* Types; the lock is held by an actor that is in refresh.
WatcherTypeOK ==
    /\ active \subseteq Slug /\ known \subseteq Slug /\ seen \subseteq Slug
    /\ holder \in {a \in Actor : does[a] \in {"refresh", "refresh to poll"}} \cup {NoOne}
    /\ holder = NoOne => seen = {}
    /\ current \in Timer \cup {NoOne}
    /\ does[Host] \in {"free", "refresh", "refresh to poll", "refreshed", "stopping"}
    /\ \A t \in Timer : does[t] \in {"over", "made", "armed", "refresh", "refreshed", "arming"}

\* Between refreshes the tools are those of the slugs last read, and what a
\* refresh that raised had registered: the watcher takes no notice of that
\* until its agent is active again.
ToolsKnown == holder = NoOne => tools = known \cup orphans /\ orphans \cap known = {}

\* After stop no timer waits and no tick runs, unless one was running when
\* stop was called: it sets up its successor all the same.
StopStops == asked = "stopped" /\ ~escaped => Armed = {} /\ Ticking = {}

\* Polling goes on until stop, unless a refresh raised in the thread of a timer
\* or a stop came into a tick.
PollingGoesOn == asked = "polling" /\ raises = 0 /\ ~escaped => Armed # {} \/ Ticking # {}

\* While timers fire, the tools come to be those of the active agents.
CatchesUp == <>[](Armed # {} \/ Ticking # {}) => []<>(tools \ orphans = active \ orphans)

\* What refresh, the timers and stop keep, outside the races and exceptions that
\* are named.
WatcherInv ==
    /\ WatcherTypeOK
    /\ ToolsKnown
    /\ StopStops
    /\ PollingGoesOn

=============================================================================
