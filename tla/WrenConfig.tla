------------------------------ MODULE WrenConfig ------------------------------
(***************************************************************************)
(* Wren's config.yaml and the kill switch in it (wren/config.py,           *)
(* wren/safety.py, cmd_kill, the change_settings tool).  Every process     *)
(* loads the file once, when it starts: a session and the heartbeat for as *)
(* long as they run, the kill and unkill commands for a moment.  Saving    *)
(* writes the whole copy back, in place: opening the file empties it.      *)
(*                                                                         *)
(* Of the settings the model keeps safety.paused, and whether the other    *)
(* ones are there.                                                         *)
(***************************************************************************)
EXTENDS Naturals

CONSTANTS
    Session,        \* processes with the change_settings tool
    MaxLives        \* bound: starts of a process

Beat   == "heartbeat"
Switch == "kill"         \* a run of `wren.cli kill` or `unkill`

ASSUME ConfigAssumption == {Beat, Switch} \cap Session = {} /\ MaxLives \in Nat

VARIABLES
    file,           \* config.yaml; [paused, rest]
    emptied,        \* it was opened for writing, and is empty
    config,         \* config[p]: the copy of p
    running,        \* the processes that have started and not ended
    saving,         \* those that have opened the file and not yet written it
    lives,          \* bound
    \* history
    wish,           \* what the last kill or unkill to end said
    fresh,          \* the sessions whose copy has been true to it since
    overruled,      \* another session has saved since
    torn,           \* someone loaded the file while it was empty
    obeys           \* the heartbeat started after a kill nobody had overruled

wishes == <<wish, fresh, overruled, torn, obeys>>
configVars == <<file, emptied, config, running, saving, lives, wishes>>

Reader == Session \cup {Beat, Switch}

Full    == [paused |-> FALSE, rest |-> TRUE]
Default == [paused |-> FALSE, rest |-> FALSE]      \* `data or {}`

ConfigInit ==
    /\ file = Full /\ emptied = FALSE
    /\ config = [p \in Reader |-> Default]
    /\ running = {} /\ saving = {} /\ lives = 0
    /\ wish = FALSE /\ fresh = {} /\ overruled = FALSE /\ torn = FALSE /\ obeys = FALSE

\* Config.load, and get's default for what is not there.
Loaded == IF emptied THEN Default ELSE file

\* Variant with a fault: a session goes on with the copy of its last life.
StartWithOldCopy(p) ==
    /\ p \in Reader \ running
    /\ lives < MaxLives /\ lives' = lives + 1
    /\ running' = running \cup {p}
    /\ config' = IF p \in Session /\ config[p].rest THEN config
                 ELSE [config EXCEPT ![p] = Loaded]
    /\ fresh' = IF p \in Session /\ ~emptied THEN fresh \cup {p} ELSE fresh
    /\ torn' = (torn \/ emptied)
    /\ obeys' = IF p = Beat THEN wish /\ ~overruled /\ ~emptied ELSE obeys
    /\ UNCHANGED <<file, emptied, saving, wish, overruled>>

\* A process starts and loads the file.
Start(p) ==
    /\ p \in Reader \ running
    /\ lives < MaxLives /\ lives' = lives + 1
    /\ running' = running \cup {p}
    /\ config' = [config EXCEPT ![p] = Loaded]
    /\ fresh' = IF p \in Session /\ ~emptied THEN fresh \cup {p} ELSE fresh
    /\ torn' = (torn \/ emptied)
    /\ obeys' = IF p = Beat THEN wish /\ ~overruled /\ ~emptied ELSE obeys
    /\ UNCHANGED <<file, emptied, saving, wish, overruled>>

OpenToSave(p) ==
    /\ p \in running \ saving
    /\ saving' = saving \cup {p}
    /\ emptied' = TRUE
    /\ UNCHANGED <<file, running, lives, wish, overruled, torn, obeys>>

\* set_paused, by kill, unkill or change_settings: the copy changes, and save
\* opens the file.
SetPaused(p, paused) ==
    /\ p # Beat
    /\ OpenToSave(p)
    /\ config' = [config EXCEPT ![p].paused = paused]
    /\ fresh' = fresh \ {p}

\* change_settings, for any other key.
ChangeSetting(p) ==
    /\ p \in Session
    /\ OpenToSave(p)
    /\ UNCHANGED <<config, fresh>>

Written(p) ==
    /\ p \in saving
    /\ emptied' = FALSE
    /\ saving' = saving \ {p}
    /\ IF p = Switch
         THEN /\ running' = running \ {p}
              /\ wish' = config[p].paused
              /\ fresh' = {} /\ overruled' = FALSE /\ obeys' = FALSE
         ELSE /\ overruled' = (overruled \/ p \notin fresh)
              /\ UNCHANGED <<running, wish, fresh, obeys>>
    /\ UNCHANGED <<config, lives, torn>>

\* Variant with a fault: save writes what was set and no more.
WriteOnlySwitch(p) == Written(p) /\ file' = [paused |-> config[p].paused, rest |-> FALSE]

\* The file is written, and with it a kill or unkill is done.
Write(p) == Written(p) /\ file' = config[p]

\* Variant with a fault: the heartbeat looks the switch up with the wrong key.
PausedNever(p) == FALSE

\* is_paused, in tick
Paused(p) == config[p].paused

\* Variant with a fault: a process ends and leaves its writing to go on.
EndWhileWriting(p) ==
    /\ p \in running
    /\ running' = running \ {p}
    /\ fresh' = fresh \ {p}
    /\ obeys' = (obeys /\ p # Beat)
    /\ UNCHANGED <<file, emptied, saving, config, lives, wish, overruled, torn>>

\* A process ends; what it had opened stays empty.
End(p) ==
    /\ p \in running
    /\ running' = running \ {p} /\ saving' = saving \ {p}
    /\ fresh' = fresh \ {p}
    /\ obeys' = (obeys /\ p # Beat)
    /\ UNCHANGED <<file, emptied, config, lives, wish, overruled, torn>>

ConfigNext ==
    \E p \in Reader :
       \/ Start(p) \/ Write(p) \/ End(p)
       \/ \E paused \in BOOLEAN : SetPaused(p, paused)
       \/ ChangeSetting(p)

ConfigSpec == ConfigInit /\ [][ConfigNext]_configVars

-----------------------------------------------------------------------------
ConfigTypeOK ==
    /\ file \in [paused : BOOLEAN, rest : BOOLEAN] /\ emptied \in BOOLEAN
    /\ config \in [Reader -> [paused : BOOLEAN, rest : BOOLEAN]]
    /\ saving \subseteq running /\ running \subseteq Reader
    /\ lives \in 0 .. MaxLives
    /\ fresh \subseteq Session /\ {wish, overruled, torn, obeys} \subseteq BOOLEAN

\* A kill that has returned stays on file, whatever sessions started since
\* then change; only one with an older copy, or told so, takes it back.
KillHolds == wish /\ ~overruled /\ ~emptied => file.paused

\* A heartbeat that starts after such a kill runs no checks until it ends, or
\* another kill or unkill is given (is_paused in tick).
KillObeyed == obeys => Beat \in running /\ Paused(Beat)

\* The other settings are lost only to a process that started while the file
\* was open for writing, or had been left so.
SettingsKept == ~torn => file.rest /\ \A p \in running : config[p].rest

\* The kill switch and the other settings, which every process loads once and
\* saves whole.
SwitchInv ==
    /\ ConfigTypeOK
    /\ KillHolds
    /\ KillObeyed
    /\ SettingsKept

=============================================================================
