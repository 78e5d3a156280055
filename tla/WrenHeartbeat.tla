---------------------------- MODULE WrenHeartbeat ----------------------------
(***************************************************************************)
(* Wren's heartbeat (wren/heartbeat.py) next to the processes of the user: *)
(* chats, whose tools keep the reminders (wren/tools/reminders.py), and    *)
(* the inbox command.  They share three JSON files, which each process     *)
(* loads whole and replaces whole (wren/store.py): a change is a load and  *)
(* a save, and what others saved in between is overwritten.                *)
(*                                                                         *)
(* A file is the set of its items; texts tell the items apart.  Of the two *)
(* checks of config.yaml the one that keeps state is modelled, the pulse   *)
(* is not.  What the heartbeat prints for a loud notice is left out: the   *)
(* notice is in the inbox either way.                                      *)
(***************************************************************************)
EXTENDS Integers, FiniteSets, FiniteSetsExt

CONSTANTS
    Text,           \* the texts of reminders; each is added once
    Chat,           \* processes with the reminder tools
    MaxCrashes      \* bound: ends of the heartbeat process

HB   == "heartbeat"
CLI  == "inbox clear"

ASSUME HeartbeatAssumption ==
    /\ IsFiniteSet(Text)
    /\ {HB, CLI} \cap Chat = {}
    /\ MaxCrashes \in Nat

\* The due strings: a local time, and one with a zone, which cannot be compared
\* with now.  None at all, or one that does not parse, is a time that never comes.
DueKind == {"local", "zoned"}

VARIABLES
    reminders,      \* the reminders file: [id, text, due, done]
    inbox,          \* the inbox file: [id, text, dismissed]
    saved,          \* the state file: surfaced ids
    savedDue,       \*   and whether next_due of the check has come
    ripe,           \* the texts whose due time has passed
    hb,             \* where the heartbeat stands; "down" when it does not run
    paused,         \* what its copy of the configuration says
    surfaced,       \* its state in memory, as in the state file
    due,
    notices,        \* what the check found and is not in the inbox yet
    holds,          \* the processes between a load and the save that follows it
    copy,           \* copy[p]: the file as p loaded it
    \* bounds and history
    crashes,
    added,          \* the texts used so far
    used, twice,    \* the ids given to a reminder, and to more than one
    told,           \* the texts that got a notice
    sent,           \* sent[i]: notices for reminders of id i
    stale,          \* the processes whose copy is no longer the file
    clashed         \* a stale copy of the inbox was saved

files == <<reminders, inbox, saved, savedDue>>
hbVars == <<hb, paused, surfaced, due, notices>>
history == <<crashes, added, used, twice, told, sent, clashed>>
vars == <<files, ripe, hbVars, holds, copy, stale, history>>

Process == Chat \cup {HB, CLI}
Id      == 1 .. Cardinality(Text)

\* Variants with a fault: ids from 0; the greatest id again.
NextIdFromZero(items) == IF items = {} THEN 0 ELSE Max({i.id : i \in items}) + 1
NextIdGreatest(items) == IF items = {} THEN 1 ELSE Max({i.id : i \in items})

\* max((i["id"] for i in items), default=0) + 1
NextId(items) == IF items = {} THEN 1 ELSE Max({i.id : i \in items}) + 1

Init ==
    /\ reminders = {} /\ inbox = {} /\ saved = {}
    /\ savedDue = TRUE
    /\ ripe = {}
    /\ hb = "down" /\ paused = FALSE /\ surfaced = {} /\ due = FALSE /\ notices = {}
    /\ holds = {} /\ copy = [p \in Process |-> {}]
    /\ crashes = 0 /\ added = {} /\ used = {} /\ twice = {} /\ told = {}
    /\ sent = [i \in Id |-> 0]
    /\ stale = {} /\ clashed = FALSE

-----------------------------------------------------------------------------
(* Loading and saving.  What a process is going to change is settled when  *)
(* it saves; what it has seen when it loads.                                *)

Load(p, file) ==
    /\ p \notin holds
    /\ holds' = holds \cup {p}
    /\ copy' = [copy EXCEPT ![p] = file]
    /\ UNCHANGED stale

LetGo(p) ==
    /\ p \in holds
    /\ holds' = holds \ {p}
    /\ copy' = [copy EXCEPT ![p] = {}]

\* Those who hold a copy of the same file are now behind.
Save(p, others) == LetGo(p) /\ stale' = (stale \cup (others \cap holds)) \ {p}

-----------------------------------------------------------------------------
(* The reminder tools, in a chat.                                          *)

LoadReminders(p) ==
    /\ Load(p, reminders)
    /\ UNCHANGED <<files, ripe, hbVars, history>>

\* list, and a complete or delete that finds nothing.
OnlyLook(p) ==
    /\ LetGo(p) /\ stale' = stale \ {p}
    /\ UNCHANGED <<files, ripe, hbVars, history>>

NewReminder(p, t, d) == [id |-> NextId(copy[p]), text |-> t, due |-> d, done |-> FALSE]

\* Reminders.add
AddReminder(p, t, d) ==
    /\ t \notin added
    /\ Save(p, Chat)
    /\ reminders' = copy[p] \cup {NewReminder(p, t, d)}
    /\ added' = added \cup {t}
    /\ used' = used \cup {NewReminder(p, t, d).id}
    /\ twice' = twice \cup ({NewReminder(p, t, d).id} \cap used)
    /\ UNCHANGED <<inbox, saved, savedDue, ripe, hbVars, crashes, told, sent, clashed>>

\* Reminders.complete
CompleteReminder(p, r) ==
    /\ r \in copy[p]
    /\ Save(p, Chat)
    /\ reminders' = (copy[p] \ {r}) \cup {[r EXCEPT !.done = TRUE]}
    /\ UNCHANGED <<inbox, saved, savedDue, ripe, hbVars, history>>

\* Reminders.delete, for delete_data
DeleteReminder(p, r) ==
    /\ r \in copy[p]
    /\ Save(p, Chat)
    /\ reminders' = copy[p] \ {r}
    /\ UNCHANGED <<inbox, saved, savedDue, ripe, hbVars, history>>

-----------------------------------------------------------------------------
(* The inbox command.                                                      *)

LoadToDismiss ==
    /\ Load(CLI, inbox)
    /\ UNCHANGED <<files, ripe, hbVars, history>>

\* Variant with a fault: what is dismissed is taken out of the file.
DismissForGood(ids) ==
    /\ Save(CLI, {HB})
    /\ inbox' = {n \in copy[CLI] : n.id \notin ids}
    /\ clashed' = (clashed \/ CLI \in stale)
    /\ UNCHANGED <<reminders, saved, savedDue, ripe, hbVars, crashes, added, used,
                   twice, told, sent>>

\* Inbox.dismiss: saves whether or not it found something to dismiss.
Dismiss(ids) ==
    /\ Save(CLI, {HB})
    /\ inbox' = {[n EXCEPT !.dismissed = @ \/ n.id \in ids] : n \in copy[CLI]}
    /\ clashed' = (clashed \/ CLI \in stale)
    /\ UNCHANGED <<reminders, saved, savedDue, ripe, hbVars, crashes, added, used,
                   twice, told, sent>>

-----------------------------------------------------------------------------
(* The heartbeat.                                                          *)

\* cmd_heartbeat: the configuration is read now and never again.
StartHeartbeat ==
    /\ hb = "down"
    /\ hb' = "asleep"
    /\ paused' \in BOOLEAN
    /\ surfaced' = saved /\ due' = savedDue
    /\ UNCHANGED <<files, ripe, notices, holds, copy, stale, history>>

\* The reminders _check_due_reminders looks at.
Unsurfaced == {r \in reminders : ~r.done /\ r.id \notin surfaced}

\* One zoned time among them raises, for all.
CheckRaises == \E r \in Unsurfaced : r.due = "zoned"

\* Variants with a fault: the check does not look at what was surfaced; or calls
\* surfaced what is not due yet.
CheckRemindersAgain ==
    /\ hb = "asleep" /\ ~paused /\ due
    /\ hb' = "notify"
    /\ LET found == {r \in reminders : ~r.done /\ r.text \in ripe}
       IN  /\ notices' = {[id |-> r.id, text |-> r.text] : r \in found}
           /\ surfaced' = surfaced \cup {r.id : r \in found}
    /\ UNCHANGED <<files, ripe, paused, due, holds, copy, stale, history>>
CheckRemindersTooSoon ==
    /\ hb = "asleep" /\ ~paused /\ due
    /\ hb' = "notify"
    /\ notices' = {[id |-> r.id, text |-> r.text] :
                      r \in {u \in Unsurfaced : u.text \in ripe /\ ~CheckRaises}}
    /\ surfaced' = surfaced \cup {r.id : r \in Unsurfaced}
    /\ UNCHANGED <<files, ripe, paused, due, holds, copy, stale, history>>

\* tick, unless the heartbeat is paused or next_due has not come: the check,
\* and the except clause around it.
CheckReminders ==
    /\ hb = "asleep" /\ ~paused /\ due
    /\ hb' = "notify"
    /\ LET found == IF CheckRaises THEN {} ELSE {r \in Unsurfaced : r.text \in ripe}
       IN  /\ notices' = {[id |-> r.id, text |-> r.text] : r \in found}
           /\ surfaced' = surfaced \cup {r.id : r \in found}
    /\ UNCHANGED <<files, ripe, paused, due, holds, copy, stale, history>>

\* Inbox.add, for one notice after the other.
LoadToNotify ==
    /\ hb = "notify" /\ notices # {}
    /\ Load(HB, inbox)
    /\ UNCHANGED <<files, ripe, hbVars, history>>

Notify(n) ==
    /\ hb = "notify" /\ n \in notices
    /\ Save(HB, {CLI})
    /\ inbox' = copy[HB] \cup {[id |-> NextId(copy[HB]), text |-> n.text,
                                dismissed |-> FALSE]}
    /\ notices' = notices \ {n}
    /\ told' = told \cup {n.text}
    /\ sent' = [sent EXCEPT ![n.id] = @ + 1]
    /\ clashed' = (clashed \/ HB \in stale)
    /\ UNCHANGED <<reminders, saved, savedDue, ripe, hb, paused, surfaced, due, crashes, added, used, twice>>

\* Variant with a fault: the state is saved when the check has run, whether or
\* not its notices are in the inbox.
EndTickEarly ==
    /\ hb = "notify" /\ HB \notin holds
    /\ hb' = IF notices = {} THEN "asleep" ELSE "notify"
    /\ due' = FALSE
    /\ saved' = surfaced /\ savedDue' = FALSE
    /\ UNCHANGED <<reminders, inbox, ripe, paused, surfaced, notices, holds, copy, stale,
                   history>>

\* The end of the tick: next_due moves on, and _persist.
EndTick ==
    /\ hb = "notify" /\ notices = {}
    /\ hb' = "asleep"
    /\ due' = FALSE
    /\ saved' = surfaced /\ savedDue' = FALSE
    /\ UNCHANGED <<reminders, inbox, ripe, paused, surfaced, notices, holds, copy, stale,
                   history>>

\* The process ends, by Ctrl-C or because the inbox cannot be saved: what it
\* had in memory is gone.
EndHeartbeat ==
    /\ hb # "down" /\ crashes < MaxCrashes
    /\ hb' = "down" /\ paused' = FALSE
    /\ surfaced' = {} /\ due' = FALSE /\ notices' = {}
    /\ holds' = holds \ {HB} /\ copy' = [copy EXCEPT ![HB] = {}] /\ stale' = stale \ {HB}
    /\ crashes' = crashes + 1
    /\ UNCHANGED <<files, ripe, added, used, twice, told, sent, clashed>>

-----------------------------------------------------------------------------
(* Time.                                                                   *)

\* next_due comes, in memory and on file.
Pass ==
    /\ ~(IF hb = "down" THEN savedDue ELSE due)
    /\ due' = (hb # "down")
    /\ savedDue' = TRUE
    /\ UNCHANGED <<reminders, inbox, saved, ripe, hb, paused, surfaced, notices, holds,
                   copy, stale, history>>

\* The due time of a reminder comes.
Ripen(t) ==
    /\ \E r \in reminders : r.text = t /\ r.due = "local"
    /\ t \notin ripe
    /\ ripe' = ripe \cup {t}
    /\ UNCHANGED <<files, hbVars, holds, copy, stale, history>>

-----------------------------------------------------------------------------
HeartbeatStep ==
    \/ CheckReminders
    \/ LoadToNotify
    \/ \E n \in notices : Notify(n)
    \/ EndTick

UserStep ==
    \/ \E p \in Chat :
          \/ LoadReminders(p) \/ OnlyLook(p)
          \/ \E t \in Text, d \in DueKind : AddReminder(p, t, d)
          \/ \E r \in copy[p] : CompleteReminder(p, r) \/ DeleteReminder(p, r)
    \/ LoadToDismiss
    \/ Dismiss({n.id : n \in copy[CLI]})
    \/ \E n \in copy[CLI] : Dismiss({n.id})

Next ==
    \/ HeartbeatStep \/ UserStep
    \/ StartHeartbeat \/ EndHeartbeat
    \/ Pass
    \/ \E t \in Text : Ripen(t)

Spec == Init /\ [][Next]_vars

\* The heartbeat is started again when it has ended, goes on with its tick,
\* and its reminders check comes due.  Users owe nothing.
FairStep == HeartbeatStep \/ StartHeartbeat \/ Pass

FairSpec == Spec /\ WF_vars(FairStep)

-----------------------------------------------------------------------------
TypeOK ==
    /\ \A r \in reminders : r.id \in Id /\ r.text \in Text /\ r.due \in DueKind
    /\ \A n \in inbox : n.id \in Nat \ {0} /\ n.text \in Text
    /\ saved \subseteq Id /\ surfaced \subseteq Id
    /\ due \in BOOLEAN /\ savedDue \in BOOLEAN
    /\ hb \in {"down", "asleep", "notify"} /\ paused \in BOOLEAN
    /\ \A n \in notices : n.id \in Id
    /\ holds \subseteq Process /\ stale \subseteq holds
    /\ crashes \in 0 .. MaxCrashes

\* Whatever the processes overwrite, an id names one item of its file: the
\* list that is saved comes from one load (Inbox.add, Reminders.add).
IdsUnique ==
    /\ \A r, s \in reminders : r.id = s.id => r = s
    /\ \A m, n \in inbox : m.id = n.id => m = n

\* Only the end of a heartbeat between a notice and _persist repeats a
\* notice, and each such end repeats it once.
RepeatsNeedCrash == \A i \in Id : sent[i] <= 1 + crashes

\* A reminder on file whose id is surfaced got a notice of its own, unless its
\* id was also given to another one: max + 1 after a delete, or in two chats
\* at once.
OwnNotice == \A r \in reminders : r.id \in saved \ twice => r.text \in told

\* No notice leaves the inbox and none comes back, unless one process saved
\* over what the other had saved since it loaded.
InboxKept ==
    [][~clashed' => \A n \in inbox : \E m \in inbox' :
                        m.id = n.id /\ m.text = n.text /\ (n.dismissed => m.dismissed)]_vars

\* The heartbeat tells first and records later, id by id: what the state file
\* calls surfaced was put into the inbox, wherever the heartbeat dies.
Notices == INSTANCE Delivery WITH Item <- Id, sent <- sent, settled <- saved
ToldAtLeastOnce == Notices!AtLeastOnce

\* In the end the heartbeat is not paused, and no open reminder has a time with a
\* zone: one of those silences all.
Unhindered == <>[](~paused /\ ~CheckRaises)

\* The open reminders whose time has come.
Owed == {r \in reminders : ~r.done /\ r.text \in ripe}

\* Each reminder that is due gets a notice under its own text, if nothing hinders
\* the heartbeat; but for those whose id was also given to another reminder,
\* whose notice may silence them for good.
DueIsTold == Unhindered => []<>(\A r \in Owed : r.id \in twice \/ r.text \in told)

\* The docstring of _check_due_reminders: "Surface reminders whose due time has
\* passed, once each", without that exception.  A reminder that was told is
\* deleted, the next one gets its id and is never told.
EachIsTold == Unhindered => []<>(\A r \in Owed : r.text \in told)

\* Reminders and notices on file, whatever two processes overwrite and wherever
\* the heartbeat dies.
NoticesInv ==
    /\ TypeOK
    /\ IdsUnique
    /\ RepeatsNeedCrash
    /\ OwnNotice

=============================================================================
