------------------------------ MODULE HotReload ------------------------------
(***************************************************************************)
(* Hot reload of agents (orchestrator/runtime.py, orchestrator/watch.py):  *)
(* a directory of manifest files that anyone may edit at any moment, the   *)
(* watcher that polls it, and the roster of agents and dispatch tools the  *)
(* poll keeps in sync.  A poll is not atomic: it stats file by file, reads *)
(* file by file, and drops and adds agents one by one.                     *)
(*                                                                         *)
(* Abstractions: a modification time is the number of the edit, so no two  *)
(* edits share one; files are numbered in the order of their names; of a   *)
(* manifest, the model keeps the agent's name, one tool of its allowlist   *)
(* and a version that stands for the rest.                                 *)
(***************************************************************************)
EXTENDS Integers, Sequences, FiniteSets

CONSTANTS
    Name,        \* the names of agents
    Version,     \* what else a manifest says
    Nothing,     \* need of an allowlist of built-in tools
    Unknown,     \* need of an allowlist with a tool that no one registers
    NFiles,      \* bound: how many files the directory may hold
    Writable,    \* the contents the editors of this instance write
    Absent,      \* no file, no agent
    Unreadable,  \* a file that is not JSON, or not yet
    Inactive,    \* a file with "active": false
    Nameless,    \* a JSON object without a "name"
    CanRemove,   \* whether files are removed
    MaxEdits     \* bound: edits while the watcher runs

File     == 1 .. NFiles
Manifest == [name : Name, version : Version, needs : Name \cup {Nothing, Unknown}]
Content  == Manifest \cup {Absent, Unreadable, Inactive, Nameless}
Stamp    == 0 .. MaxEdits

ASSUME HotReloadAssumption ==
    /\ NFiles \in Nat /\ MaxEdits \in Nat
    /\ CanRemove \in BOOLEAN
    /\ Writable \subseteq Content \ {Absent}
    /\ Absent \notin Manifest \cup {Unreadable, Inactive, Nameless}
    /\ {Unreadable, Inactive, Nameless} \cap Manifest = {}
    /\ Nothing \notin Name /\ Unknown \notin Name /\ Nothing # Unknown

VARIABLES
    \* the directory
    content,     \* content[f]: what the file holds
    stamp,       \* stamp[f]: its st_mtime_ns
    edits,       \* edits made so far
    \* the watcher
    pc,          \* where poll is, or "start", "idle", "dead"
    todo,        \* files listed by glob and not yet looked at
    seen,        \* the fingerprint being computed
    fingerprint, \* _fingerprint
    loaded,      \* the manifests read and not yet applied, in order
    wanted,      \* the names of all the manifests read by this poll
    target,      \* the agent whose dispatch tool is to be registered or removed
    driver,      \* the function that calls poll, "serve" or "watchdog"
    observing,   \* watchdog's observer has been started
    event,       \* a filesystem event waits for the observer
    \* the runtime
    agents,      \* agents[n]: _agents and _manifests, Absent if none
    tools,       \* the agents whose dispatch tool is registered
    \* history
    phantom,     \* since the fingerprint was taken, a file it does not list was removed
    unheard      \* the last edit came after the first poll began and before the observer

store   == <<content, stamp, edits>>
watcher == <<driver, pc, todo, seen, fingerprint, loaded, wanted, target>>
roster  == <<agents, tools>>
history == <<phantom, unheard>>
vars    == <<store, watcher, observing, event, roster, history>>

Present  == {f \in File : content[f] # Absent}
Snapshot == {<<f, stamp[f]>> : f \in Present}
NoPrint  == {<<0, 0>>}       \* None, equal to the fingerprint of no directory
Live     == {n \in Name : agents[n] # Absent}

Init ==
    /\ content \in [File -> Writable \cup {Absent}]
    /\ stamp = [f \in File |-> 0] /\ edits = 0
    /\ pc = "start" /\ todo = {} /\ seen = {} /\ fingerprint = NoPrint
    /\ loaded = <<>> /\ wanted = {} /\ target = Nothing
    /\ driver \in {"serve", "watchdog"} /\ observing = FALSE /\ event = FALSE
    /\ agents = [n \in Name |-> Absent] /\ tools = {}
    /\ phantom = FALSE /\ unheard = FALSE

-----------------------------------------------------------------------------
(* The editors.  The observer, once started, gets an event for every edit. *)

Edit(f, c) ==
    /\ edits < MaxEdits
    /\ edits' = edits + 1
    /\ content' = [content EXCEPT ![f] = c]
    /\ stamp' = [stamp EXCEPT ![f] = edits + 1]
    /\ event' = (event \/ observing)
    /\ unheard' = (driver = "watchdog" /\ ~observing /\ pc # "start")
    /\ UNCHANGED <<watcher, observing, roster>>

Write(f, c) == c # Absent /\ Edit(f, c) /\ UNCHANGED phantom

Remove(f) ==
    /\ CanRemove /\ content[f] # Absent
    /\ Edit(f, Absent)
    /\ phantom' = (phantom \/ <<f, stamp[f]>> \notin fingerprint)

-----------------------------------------------------------------------------
(* The driver. *)

\* serve polls at once and then on an interval; serve_with_watchdog polls once
\* and then on events.
StartPoll ==
    /\ \/ pc = "start"
       \/ pc = "idle" /\ (driver = "watchdog" => observing /\ event)
    /\ pc' = "stat"
    /\ todo' = Present /\ seen' = {}
    /\ event' = FALSE
    /\ UNCHANGED <<store, driver, fingerprint, loaded, wanted, target, observing,
                   roster, history>>

\* observer.start, after the first poll.
StartObserver ==
    /\ driver = "watchdog" /\ pc = "idle" /\ ~observing
    /\ observing' = TRUE
    /\ UNCHANGED <<store, watcher, event, roster, history>>

-----------------------------------------------------------------------------
(* ManifestStore.fingerprint, and poll's comparison with the last one. *)

StatFile(f) ==
    /\ pc = "stat" /\ f \in todo
    /\ content[f] # Absent
    /\ seen' = seen \cup {<<f, stamp[f]>>}
    /\ todo' = todo \ {f}
    /\ UNCHANGED <<store, driver, pc, fingerprint, loaded, wanted, target, observing,
                   event, roster, history>>

\* The file was listed by glob and is gone: stat raises, and no one catches it.
StatGone(f) ==
    /\ pc = "stat" /\ f \in todo
    /\ content[f] = Absent
    /\ pc' = "dead"
    /\ UNCHANGED <<store, driver, todo, seen, fingerprint, loaded, wanted, target,
                   observing, event, roster, history>>

Unchanged ==
    /\ pc = "stat" /\ todo = {} /\ seen = fingerprint
    /\ pc' = "idle"
    /\ UNCHANGED <<store, driver, todo, seen, fingerprint, loaded, wanted, target,
                   observing, event, roster, history>>

\* The new fingerprint is stored before anything is read; load globs again.
Changed ==
    /\ pc = "stat" /\ todo = {} /\ seen # fingerprint
    /\ fingerprint' = seen
    /\ pc' = "load"
    /\ todo' = Present /\ loaded' = <<>>
    /\ phantom' = FALSE
    /\ UNCHANGED <<store, driver, seen, wanted, target, observing, event, roster,
                   unheard>>

-----------------------------------------------------------------------------
(* ManifestStore.load: the files in the order of their names. *)

NextFile == CHOOSE f \in todo : \A g \in todo : f <= g

\* manifests[manifest.name] = manifest, in a dictionary that keeps its order.
Put(ms, m) ==
    IF \E i \in DOMAIN ms : ms[i].name = m.name
      THEN [i \in DOMAIN ms |-> IF ms[i].name = m.name THEN m ELSE ms[i]]
      ELSE Append(ms, m)

ReadManifest ==
    /\ pc = "load" /\ todo # {}
    /\ content[NextFile] \in Manifest
    /\ loaded' = Put(loaded, content[NextFile])
    /\ todo' = todo \ {NextFile}
    /\ UNCHANGED <<store, driver, pc, seen, fingerprint, wanted, target, observing,
                   event, roster, history>>

\* A faulty SkipFile that warns and goes on with what it has.
SkipFileKept ==
    /\ pc = "load" /\ todo # {}
    /\ content[NextFile] \in {Absent, Unreadable, Inactive}
    /\ loaded' = Append(loaded, content[NextFile])
    /\ todo' = todo \ {NextFile}
    /\ UNCHANGED <<store, driver, pc, seen, fingerprint, wanted, target, observing,
                   event, roster, history>>

\* A file that vanished, cannot be parsed or is inactive is skipped.
SkipFile ==
    /\ pc = "load" /\ todo # {}
    /\ content[NextFile] \in {Absent, Unreadable, Inactive}
    /\ todo' = todo \ {NextFile}
    /\ UNCHANGED <<store, driver, pc, seen, fingerprint, loaded, wanted, target,
                   observing, event, roster, history>>

\* manifest_from_dict raises a KeyError, which load does not catch.
ReadNameless ==
    /\ pc = "load" /\ todo # {}
    /\ content[NextFile] = Nameless
    /\ pc' = "dead"
    /\ UNCHANGED <<store, driver, todo, seen, fingerprint, loaded, wanted, target,
                   observing, event, roster, history>>

\* A faulty EndLoad that takes the fingerprint again after reading.
EndLoadRestamped ==
    /\ pc = "load" /\ todo = {}
    /\ pc' = "sync"
    /\ wanted' = {loaded[i].name : i \in DOMAIN loaded}
    /\ fingerprint' = Snapshot
    /\ UNCHANGED <<store, driver, todo, seen, loaded, target, observing, event, roster,
                   history>>

EndLoad ==
    /\ pc = "load" /\ todo = {}
    /\ pc' = "sync"
    /\ wanted' = {loaded[i].name : i \in DOMAIN loaded}
    /\ UNCHANGED <<store, driver, todo, seen, fingerprint, loaded, target, observing,
                   event, roster, history>>

-----------------------------------------------------------------------------
(* AgentRuntime.sync: agents whose manifest is gone are dropped, then the    *)
(* manifests are applied one by one.  The agent and its tool move in two     *)
(* statements, between which other threads may dispatch.                     *)

\* _drop, up to the registry.
Drop(n) ==
    /\ agents' = [agents EXCEPT ![n] = Absent]
    /\ target' = n
    /\ pc' = "unregister"
    /\ UNCHANGED <<store, driver, todo, seen, fingerprint, loaded, wanted, observing,
                   event, tools, history>>

\* The manifest of a live agent is gone.
Retire(n) ==
    /\ pc = "sync" /\ n \in Live \ wanted
    /\ Drop(n)

Unregister ==
    /\ pc = "unregister"
    /\ tools' = tools \ {target}
    /\ pc' = "sync"
    /\ UNCHANGED <<store, driver, todo, seen, fingerprint, loaded, wanted, target,
                   observing, event, agents, history>>

Applying == pc = "sync" /\ Live \subseteq wanted /\ loaded # <<>>

\* registry.view: every tool of the allowlist is registered.
Valid(m) == m.needs = Nothing \/ m.needs \in tools

\* A faulty Keep that rebuilds an agent whose manifest has not changed.
KeepRebuilt ==
    /\ Applying
    /\ agents[Head(loaded).name] = Head(loaded)
    /\ Drop(Head(loaded).name)

Keep ==
    /\ Applying
    /\ agents[Head(loaded).name] = Head(loaded)
    /\ loaded' = Tail(loaded)
    /\ UNCHANGED <<store, driver, pc, todo, seen, fingerprint, wanted, target,
                   observing, event, roster, history>>

\* A changed manifest: the old agent goes first, then this one is added.
Replace ==
    /\ Applying
    /\ agents[Head(loaded).name] \notin {Absent, Head(loaded)}
    /\ Drop(Head(loaded).name)

\* _add, up to the registry.
Add ==
    /\ Applying
    /\ agents[Head(loaded).name] = Absent
    /\ Valid(Head(loaded))
    /\ agents' = [agents EXCEPT ![Head(loaded).name] = Head(loaded)]
    /\ loaded' = Tail(loaded)
    /\ target' = Head(loaded).name
    /\ pc' = "register"
    /\ UNCHANGED <<store, driver, todo, seen, fingerprint, wanted, observing, event,
                   tools, history>>

Register ==
    /\ pc = "register"
    /\ tools' = tools \cup {target}
    /\ pc' = "sync"
    /\ UNCHANGED <<store, driver, todo, seen, fingerprint, loaded, wanted, target,
                   observing, event, agents, history>>

\* Agent() raises a KeyError, which _add catches: the manifest is skipped.
Reject ==
    /\ Applying
    /\ agents[Head(loaded).name] = Absent
    /\ ~Valid(Head(loaded))
    /\ loaded' = Tail(loaded)
    /\ UNCHANGED <<store, driver, pc, todo, seen, fingerprint, wanted, target,
                   observing, event, roster, history>>

\* A faulty EndSync that forgets the events that came during the poll.
EndSyncDebounced ==
    /\ pc = "sync" /\ Live \subseteq wanted /\ loaded = <<>>
    /\ pc' = "idle" /\ event' = FALSE
    /\ UNCHANGED <<store, driver, todo, seen, fingerprint, loaded, wanted, target,
                   observing, roster, history>>

EndSync ==
    /\ pc = "sync" /\ Live \subseteq wanted /\ loaded = <<>>
    /\ pc' = "idle"
    /\ UNCHANGED <<store, driver, todo, seen, fingerprint, loaded, wanted, target,
                   observing, event, roster, history>>

-----------------------------------------------------------------------------
Stat == \/ \E f \in File : StatFile(f) \/ StatGone(f)
        \/ Unchanged \/ Changed
Load == ReadManifest \/ SkipFile \/ ReadNameless \/ EndLoad
Sync == \/ \E n \in Name : Retire(n)
        \/ Unregister \/ Keep \/ Replace \/ Add \/ Register \/ Reject \/ EndSync

Watch == StartPoll \/ StartObserver \/ Stat \/ Load \/ Sync

Next ==
    \/ \E f \in File : Remove(f) \/ \E c \in Writable : Write(f, c)
    \/ Watch

Spec == Init /\ [][Next]_vars

\* serve and the observer's thread loop for ever.
FairSpec == Spec /\ WF_vars(Watch)

-----------------------------------------------------------------------------
(* Safety. *)

TypeOK ==
    /\ content \in [File -> Content]
    /\ stamp \in [File -> Stamp]
    /\ edits \in Stamp
    /\ pc \in {"start", "idle", "dead", "stat", "load", "sync", "unregister", "register"}
    /\ todo \subseteq File
    /\ seen \subseteq File \X Stamp
    /\ fingerprint \in (SUBSET (File \X Stamp)) \cup {NoPrint}
    /\ loaded \in Seq(Manifest)
    /\ wanted \subseteq Name
    /\ target \in Name \cup {Nothing}
    /\ driver \in {"serve", "watchdog"}
    /\ observing \in BOOLEAN
    /\ event \in BOOLEAN
    /\ agents \in [Name -> Manifest \cup {Absent}]
    /\ tools \subseteq Name
    /\ phantom \in BOOLEAN
    /\ unheard \in BOOLEAN

\* The files that define agent n; the last of them counts.
Defining(n) == {f \in File : content[f] \in Manifest /\ content[f].name = n}

Want(n) ==
    IF Defining(n) = {} THEN Absent
                        ELSE content[CHOOSE f \in Defining(n) : \A g \in Defining(n) : g <= f]

\* The roster is what the directory says: an agent lives exactly if a manifest
\* defines it with an allowlist that can be resolved.  An allowlist that names
\* another agent's dispatch tool may have been resolved or not.
InSync ==
    /\ tools = Live
    /\ \A n \in Name :
           \/ agents[n] = Want(n) /\ (agents[n] # Absent => agents[n].needs # Unknown)
           \/ agents[n] = Absent /\ Want(n) # Absent /\ Want(n).needs # Nothing

\* When no poll is under way and the directory looks as it did to the last poll,
\* the roster is what the directory says, though files were edited, written in
\* two steps and removed while that poll read them.  The exception is a file
\* that came after the fingerprint and went before the next.
UpToDate == pc = "idle" /\ fingerprint = Snapshot /\ ~phantom => InSync

\* An agent is dropped only if the directory no longer defines it so, unless an
\* edit has overtaken the poll.
NoSpuriousDrop ==
    [][\A n \in Name :
           agents[n] # Absent /\ agents'[n] = Absent /\ fingerprint = Snapshot /\ ~phantom
               => Want(n) # agents[n]]_vars

-----------------------------------------------------------------------------
(* Liveness: edits are finitely many, so the roster ends up being what the   *)
(* directory says, unless an edit has killed the watcher, was undone within  *)
(* a poll, or came before the observer that should report it.                *)

CatchesUp == <>[](pc = "dead" \/ phantom \/ unheard \/ InSync)

=============================================================================
