----------------------------- MODULE ProactiveLoop -----------------------------
(***************************************************************************)
(* Donald's background loop (donald/proactive.py): a thread that reads the *)
(* due reminders (donald/memory.py), marks each fired and then hands them  *)
(* to the notifier.  Every daemon (donald/daemon.py) has one such loop,    *)
(* and daemons of one user share the database.                             *)
(*                                                                         *)
(* Reminders are the only trigger of the code.  The message a failed check *)
(* adds to the others is left out.  start is called when a daemon comes    *)
(* up, and may be called again after stop.                                 *)
(***************************************************************************)
EXTENDS Integers, FiniteSets

CONSTANTS
    Reminder,
    Daemon,
    MaxFaults,      \* bound: exceptions
    MaxStops        \* bound: calls of stop

ASSUME LoopAssumption == IsFiniteSet(Daemon) /\ MaxFaults \in Nat /\ MaxStops \in Nat

VARIABLES
    ripe,           \* reminders whose due time has come
    fired,          \* column fired
    up,             \* the daemons that run
    main,           \* main[d]: what the main thread has called last
    stopping,       \* stopping[d]: _stop is set
    point,          \* point[d]: where the thread stands; "none" without one
    rows,           \* rows[d]: due_reminders, not yet marked
    messages,       \* messages[d]: marked, in the trigger's list or check's
    \* bounds and history
    faults, stops,
    sent,           \* sent[i]: messages for reminder i
    lost,           \* reminders whose message an exception or an end threw away
    together        \* reminders that two loops had before them at once

loopVars == <<ripe, fired, up, main, stopping, point, rows, messages,
              faults, stops, sent, lost, together>>
thread == <<point, rows, messages>>
caller == <<up, main, stopping, stops>>

LoopInit ==
    /\ ripe = {} /\ fired = {} /\ up = {}
    /\ main = [d \in Daemon |-> "stopped"] /\ stopping = [d \in Daemon |-> FALSE]
    /\ point = [d \in Daemon |-> "none"]
    /\ rows = [d \in Daemon |-> {}] /\ messages = [d \in Daemon |-> {}]
    /\ faults = 0 /\ stops = 0
    /\ sent = [i \in Reminder |-> 0]
    /\ lost = {} /\ together = {}

Alive(d) == point[d] # "none"
Holds(d) == rows[d] \cup messages[d]

ThreadAt(d, where, todo, out) ==
    /\ point' = [point EXCEPT ![d] = where]
    /\ rows' = [rows EXCEPT ![d] = todo]
    /\ messages' = [messages EXCEPT ![d] = out]

-----------------------------------------------------------------------------
\* Variant with a fault: stop is asked between two messages, too.
ContinueOrDrop(d) ==
    /\ point[d] \in {"top", "notify"}
    /\ IF stopping[d] THEN ThreadAt(d, "none", {}, {})
                      ELSE point[d] = "top" /\ ThreadAt(d, "read", {}, {})
    /\ UNCHANGED <<ripe, fired, caller, faults, sent, lost, together>>

\* while not self._stop.is_set()
Continue(d) ==
    /\ point[d] = "top"
    /\ ThreadAt(d, IF stopping[d] THEN "none" ELSE "read", {}, {})
    /\ UNCHANGED <<ripe, fired, caller, faults, sent, lost, together>>

\* Variant with a fault: fired = 0 is not asked for.
ReadDueAll(d) ==
    /\ point[d] = "read"
    /\ ThreadAt(d, "mark", ripe, {})
    /\ UNCHANGED <<ripe, fired, caller, faults, sent, lost, together>>

\* due_reminders, as the trigger sees them.
ReadDue(d) ==
    /\ point[d] = "read"
    /\ ThreadAt(d, "mark", ripe \ fired, {})
    /\ together' = together \cup
          {i \in ripe \ fired : \E e \in Daemon \ {d} : i \in rows[e]}
    /\ UNCHANGED <<ripe, fired, caller, faults, sent, lost>>

\* Variant with a fault: the mark is forgotten.
MarkNothing(d, i) ==
    /\ point[d] = "mark" /\ i \in rows[d]
    /\ ThreadAt(d, "mark", rows[d] \ {i}, messages[d] \cup {i})
    /\ UNCHANGED <<ripe, fired, caller, faults, sent, lost, together>>

\* mark_fired, and the message goes on the list; whoever has fired it already.
Mark(d, i) ==
    /\ point[d] = "mark" /\ i \in rows[d]
    /\ fired' = fired \cup {i}
    /\ ThreadAt(d, "mark", rows[d] \ {i}, messages[d] \cup {i})
    /\ UNCHANGED <<ripe, caller, faults, sent, lost, together>>

\* The database raises: the except clause of check has no list any more.
MarkFails(d) ==
    /\ point[d] = "mark" /\ rows[d] # {} /\ faults < MaxFaults
    /\ faults' = faults + 1
    /\ lost' = lost \cup messages[d]
    /\ ThreadAt(d, "notify", {}, {})
    /\ UNCHANGED <<ripe, fired, caller, sent, together>>

AllMarked(d) ==
    /\ point[d] = "mark" /\ rows[d] = {}
    /\ ThreadAt(d, "notify", {}, messages[d])
    /\ UNCHANGED <<ripe, fired, caller, faults, sent, lost, together>>

Notify(d, i) ==
    /\ point[d] = "notify" /\ i \in messages[d]
    /\ sent' = [sent EXCEPT ![i] = @ + 1]
    /\ ThreadAt(d, "notify", {}, messages[d] \ {i})
    /\ UNCHANGED <<ripe, fired, caller, faults, lost, together>>

\* Nothing catches what the notifier raises: the thread ends.
NotifyFails(d) ==
    /\ point[d] = "notify" /\ messages[d] # {} /\ faults < MaxFaults
    /\ faults' = faults + 1
    /\ lost' = lost \cup messages[d]
    /\ ThreadAt(d, "none", {}, {})
    /\ UNCHANGED <<ripe, fired, caller, sent, together>>

\* Variant with a fault: the wait is given no interval.
WaitForStop(d) ==
    /\ point[d] = "notify" /\ messages[d] = {} /\ stopping[d]
    /\ ThreadAt(d, "top", {}, {})
    /\ UNCHANGED <<ripe, fired, caller, faults, sent, lost, together>>

\* _stop.wait(interval) comes back.
Wait(d) ==
    /\ point[d] = "notify" /\ messages[d] = {}
    /\ ThreadAt(d, "top", {}, {})
    /\ UNCHANGED <<ripe, fired, caller, faults, sent, lost, together>>

-----------------------------------------------------------------------------
\* Variant with a fault: the event of the last stop stays set.
StartForgets(d) ==
    /\ d \in up /\ main[d] # "started"
    /\ main' = [main EXCEPT ![d] = IF Alive(d) THEN "ignored" ELSE "started"]
    /\ IF Alive(d) THEN UNCHANGED thread ELSE ThreadAt(d, "top", {}, {})
    /\ UNCHANGED <<ripe, fired, up, stopping, faults, stops, sent, lost, together>>

\* start: returns at once if the thread of an earlier start is still alive,
\* which goes on to end if it was told to stop.
Start(d) ==
    /\ d \in up /\ main[d] # "started"
    /\ IF Alive(d)
       THEN /\ main' = [main EXCEPT ![d] = "ignored"]
            /\ UNCHANGED <<stopping, thread>>
       ELSE /\ main' = [main EXCEPT ![d] = "started"]
            /\ stopping' = [stopping EXCEPT ![d] = FALSE]
            /\ ThreadAt(d, "top", {}, {})
    /\ UNCHANGED <<ripe, fired, up, faults, stops, sent, lost, together>>

\* stop: sets the event, and waits for the thread, or for two seconds.
Stop(d) ==
    /\ d \in up /\ stops < MaxStops
    /\ stops' = stops + 1
    /\ main' = [main EXCEPT ![d] = "stopped"]
    /\ stopping' = [stopping EXCEPT ![d] = TRUE]
    /\ UNCHANGED <<ripe, fired, up, thread, faults, sent, lost, together>>

\* A daemon process comes up, with a loop to start; and ends, with its thread.
Boot(d) ==
    /\ d \notin up
    /\ up' = up \cup {d}
    /\ main' = [main EXCEPT ![d] = "stopped"]
    /\ stopping' = [stopping EXCEPT ![d] = FALSE]
    /\ UNCHANGED <<ripe, fired, thread, faults, stops, sent, lost, together>>

Exit(d) ==
    /\ d \in up /\ faults < MaxFaults
    /\ up' = up \ {d}
    /\ faults' = faults + 1
    /\ lost' = lost \cup messages[d]
    /\ ThreadAt(d, "none", {}, {})
    /\ UNCHANGED <<ripe, fired, main, stopping, stops, sent, together>>

ComeDue(i) ==
    /\ i \notin ripe
    /\ ripe' = ripe \cup {i}
    /\ UNCHANGED <<fired, caller, thread, faults, sent, lost, together>>

-----------------------------------------------------------------------------
LoopStep(d) ==
    \/ Continue(d) \/ ReadDue(d) \/ AllMarked(d) \/ Wait(d)
    \/ \E i \in Reminder : Mark(d, i) \/ Notify(d, i)

LoopNext ==
    \/ \E d \in Daemon :
          \/ LoopStep(d) \/ MarkFails(d) \/ NotifyFails(d)
          \/ Start(d) \/ Stop(d) \/ Boot(d) \/ Exit(d)
    \/ \E i \in Reminder : ComeDue(i)

LoopSpec == LoopInit /\ [][LoopNext]_loopVars

-----------------------------------------------------------------------------
\* Types; what is fired has come due, and each daemon sends a reminder once at most.
LoopTypeOK ==
    /\ fired \subseteq ripe /\ ripe \subseteq Reminder
    /\ up \subseteq Daemon
    /\ main \in [Daemon -> {"stopped", "started", "ignored"}]
    /\ stopping \in [Daemon -> BOOLEAN]
    /\ point \in [Daemon -> {"none", "top", "read", "mark", "notify"}]
    /\ \A d \in Daemon : rows[d] \subseteq ripe /\ messages[d] \subseteq fired
    /\ \A i \in Reminder : sent[i] <= Cardinality(Daemon)

\* A reminder is marked before it is sent, and sent once; only one that two
\* daemons had read before either marked it is sent by both.
ToldOnce(i) == IF i \in together /\ sent[i] > 1 THEN 1 ELSE sent[i]

Told == INSTANCE Delivery
        WITH Item <- Reminder, settled <- fired, sent <- [i \in Reminder |-> ToldOnce(i)]
ToldAtMostOnce == Told!AtMostOnce

\* What is marked is sent, or will be by a thread that is alive, unless an
\* exception or the end of a daemon threw it away.  A stop throws nothing away.
NoneForgotten ==
    \A i \in fired : sent[i] > 0 \/ i \in lost \/ \E d \in Daemon : i \in messages[d]

\* After start the loop runs, unless the notifier raised, or start found the
\* thread of before, told to stop and still alive, and did nothing.
StartRuns == \A d \in up : main[d] = "started" /\ faults = 0 => Alive(d) /\ ~stopping[d]

\* As long as a loop runs, every reminder that has come due is marked.
DueIsFired == <>[](\E d \in Daemon : Alive(d) /\ ~stopping[d]) => []<>(ripe = fired)

\* What start, stop, exceptions and other daemons may cost: no reminder is lost
\* and no loop ended, but in the ways named.
RemindersInv ==
    /\ LoopTypeOK
    /\ NoneForgotten
    /\ StartRuns

=============================================================================
