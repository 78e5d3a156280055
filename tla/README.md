# Donald: specifications

TLA+ specifications of the programs in this repository, checked with TLC and,
where a theorem is worth having for every instance, proved with TLAPS.

Run a model with `tlc -config <name>.cfg <MC module>`, check proofs with
`tlapm <module>.tla`. `PROJECT.json` lists the runs, the faulty variants that
show each property can fail, the source lines each definition stands for, the
hazards of the code and the theorems.

## The system

The repository holds several small agents and services that share ideas and
hardly any code. What matters for correctness is in the parts that keep state
across calls, threads, processes or messages.

| Part | State | Operations | What is hard |
|------|-------|------------|--------------|
| Agent Factory, pipeline and approval gate (`agent_factory/pipeline.py`, `approval.py`, `repos.py`, `models.py`) | SQLite tables `spawn_tasks`, `spawned_agents`, `research_reports`; files `specs/<slug>.md` | create, run, approve, reject, revise | commands are separate processes on one database; each repository call commits alone; LLM calls of minutes between two commits; crashes |
| Agent Factory, admission (`create_spawn_task`, `count_today`) | the tasks of one requester and day | create | count and insert are separate |
| Agent Factory, dispatch registry (`runtime.py`, `tools/registry.py`) | known slugs, registered tools, poll timer | refresh, notify, start_polling, stop, dispatch | timer threads against the host's thread; a refresh that raises halfway |
| Agent Factory, research (`research.py`) | report cache of 24 hours | run_research | bounded loop, last round forced |
| Orchestrator, hot reload (`orchestrator/runtime.py`, `watch.py`, `registry.py`) | manifest files, fingerprint, roster, dispatch tools | poll, sync | files change while they are read; invalid manifests; missed events |
| Orchestrator, agent loop (`agent.py`, `confirmation.py`, `handoff.py`, `orchestrator.py`) | messages, pending handoff | run, execute, gate, handoff, dispatch | allowlist and confirmation on every path |
| Voice segments (`server/segment_stream.py`, `server/app.py`, `client/audio-queue.js`) | held sentence, segment store, socket, client queue | emit, fetch, play, interrupt | barge-in while the server still streams; expiry; failures |
| Security (`security/`, wired in `examples/fastapi_agent.py`) | failed logins and lockouts, hits of a cap, kill switch | check, record, dispatch | threads of a pool, clock read before the lock, boundaries of windows |
| Gateway (`gateway/orchestrator.py`, `server.py`) | one conversation per session | chat, voice, ws | turns of one session interleave at every await; sockets that close |
| Wren (`wren/heartbeat.py`, `store.py`, `config.py`, `safety.py`) | JSON files for inbox, reminders, schedule; `config.yaml` with the kill switch | tick, add, dismiss, complete, delete, kill, change_settings | processes rewrite the same files whole; crashes between writes |
| Donald (`donald/proactive.py`, `memory.py`, `daemon.py`) | SQLite reminders, thread and stop event | check, tick, start, stop | marked before sent; restart of the thread; two daemons |
| Prism (`prism/`) | project directories | bootstrap, run_design_task, spawn | mostly templates; a bounded loop and a subprocess timeout |
| Self-knowledge, SQL tool (`src/donald`, `src/trillion`) | none | check, validate | sequential text processing |
| Front ends (`js/`, `ui.js`, `web/components/DonaldOrb.tsx`) | animation loop, agents and effects on stage, microphone, timers | pause, resume, dispose, handle, dispatch, toggleMic, handleInteract | one flag for two causes; late answers; timeouts that outlive what set them |

How they interact: `approve` in the factory ends in `RegistryWatcher.notify`,
which makes the new agent a `dispatch_to_<slug>` tool (other processes are
polled for); the orchestrator's `ManifestWatcher` does the same for manifest
files. The voice server and its client share a websocket and an HTTP endpoint.
Wren's chats, its heartbeat and its commands share JSON files and `config.yaml`.
Donald's daemons share a database. The stage of `js/` follows a backend's
messages, or a demo when there is no backend. The other parts do not call each
other.

What makes each part correct:

- *pipeline and gate*: a task follows its state machine; an approved task has
  one live agent with the prompt the reviewer saw; a failure never hides a task.
- *admission*: no requester gets many more tasks a day than the cap.
- *registry, hot reload*: the registered dispatch tools converge to the active
  agents or valid manifests, whatever the order of edits and polls.
- *voice*: segments play in order, once, and only for the current turn.
- *rate limits*: no more than the cap in any window, and what threads can add
  to it is bounded; a lockout lasts and ends.
- *gateway*: every tool_use is followed by its tool_result.
- *heartbeat*: every due reminder is surfaced at least once, but for an id given
  twice, and no file loses
  more than one process can overwrite; a kill that was given is obeyed.
- *proactive loop*: every due reminder is sent at most once, and is lost only to
  an exception or an exit.
- *front ends*: a page that can be seen is drawn, by one loop; a button, a flare
  or a phrase ends when what it stands for ends.

## Modules

| Module | Models | Instances | Proofs |
|--------|--------|-----------|--------|
| `SpawnStates` | `models.py`: states, transition table, `assert_transition` | | |
| `SpawnLifecycle` | abstract: every task starts pending and moves along the table | | |
| `SpawnFactory` | `pipeline.py`, `approval.py`, `repos.py` as processes on one database | `MCSpawnFactory`, `MCSpawnConcurrent` | `SpawnFactoryProofs` |
| `SpawnAdmission` | `create_spawn_task`: count, stamp, insert, by several processes over several days | `MCSpawnConcurrent` | `SpawnAdmissionProofs` |
| `VoiceSegments` | `segment_stream.py`, `app.py` and `audio-queue.js` around one websocket | `MCVoiceSegments` | `VoiceSegmentsProofs` |
| `HotReload` | `orchestrator/runtime.py`, `watch.py`, `registry.py` on a directory being edited | `MCHotReload` | `HotReloadProofs` |
| `StageLoop` | the animation loop of `js/main.js` on the renderer and clock of three.js | `MCFrontEnds` | `FrontEndsProofs` |
| `Stage` | `js/constellation.js`, `effects.js`, `transport.js`: agents, docks, beams, pings, backend or demo | `MCFrontEnds` | `FrontEndsProofs` |
| `MicToggle` | the microphone button of `ui.js` | `MCFrontEnds` | `FrontEndsProofs` |
| `OrbTimeline` | the timers of `DonaldOrb.tsx` | `MCFrontEnds` | `FrontEndsProofs` |
| `Delivery` | abstract: telling of what is due, at least once or at most once | | |
| `WrenHeartbeat` | `wren/heartbeat.py`, `store.py`, `tools/reminders.py`: heartbeat, chats and inbox command on JSON files | `MCWren` | `WrenProofs` |
| `WrenConfig` | `wren/config.py`, `safety.py`: `config.yaml` and the kill switch | `MCWren` | `WrenProofs` |
| `Dialogue` | abstract: one well-formed turn of a conversation with tools | | |
| `GatewaySession` | `gateway/orchestrator.py`, `server.py`: one session, several connections | `MCGatewaySession` | `GatewaySessionProofs` |
| `AuthRateLimiter` | `security/auth_ratelimit.py` in the threads of `examples/fastapi_agent.py` | `MCThreads` | `ThreadsProofs` |
| `AnomalyGate` | `security/anomaly.py` and `killswitch.py` in the same place | `MCThreads` | `ThreadsProofs` |
| `ProactiveLoop` | `donald/proactive.py`, `memory.py`, `daemon.py`: loops of daemons on one database | `MCThreads` | `ThreadsProofs` |
| `RegistryWatcher` | `agent_factory/runtime.py`: refresh, timers, stop | `MCThreads` | `ThreadsProofs` |

`SpawnFactory` implements `SpawnLifecycle` while one process runs,
`WrenHeartbeat` and `ProactiveLoop` implement the two halves of `Delivery`, and
each turn of `GatewaySession` implements `Dialogue`. `MCFrontEnds`, `MCThreads`
and `MCWren` put components that do not interact side by side: a behaviour is
about one of them, chosen in its initial state, so their state spaces add up.

Where a component has several small invariants about one concern they are the
conjuncts of one named invariant (`StageInv`, `SessionInv` and the like), which a
run checks; each conjunct is commented where it is defined.

Faulty variants. Next to some actions stands a variant with one plausible
fault (a dropped guard, a lost reset, `>` for `>=`). No specification uses
them; each makes one property fail, and `PROJECT.json` says which.

### SpawnFactory

State. One variable per column the program decides on: `status`, `slug` (the
slug of the name hint, fixed), `researched` (`research_report_id` is set),
`manifest` (the prompt of `proposed_manifest`), `iterations`, `errored`; the
table `agents`; and `proc[w]`, the point at which the command of process `w`
stands, its task, the prompt it holds and whether the check of a transition has
been passed (`armed`).

Actions. A command starts with one read of the row (`StartRun`,
`StartApprove`, `StartReject`, `StartRevise`), whose result it goes on using.
After that every commit is a step of its own, because the repositories commit
after each statement, and `SpawnTaskRepo.transition` is two:
`AssertTransition` reads and checks, `WriteStatus` updates by id. Everything
else that can happen between two commits (an LLM call, a search, a file) either
succeeds or raises, and `Raise` is the handler that applies: in `run` the
`except` clause (`SetError`, then a transition to failed), in `handle_approve`
and `handle_reject` none. `Crash` ends a process anywhere.

Abstractions. A prompt is the number of the revision round that wrote it. Slugs
are members of a small set, one of them reserved. Task rows exist from the
start. Errors of SQLite itself (a locked database) are not modelled: they raise
like a failing LLM call wherever one of those is modelled, but not in the
repository calls.

### SpawnAdmission

`created[u][d]` counts the rows of a user and a day; `pc`, `who` and `on` say
where the command of a process stands, for whom, and which day it has stamped.
`count_today`, the `_now()` of `create` and its `INSERT` are three steps;
`Midnight` and `Die` may come between any two. `count_today` compares
`created_at` with the start of today as strings, so it counts today and later;
`AdmissionInv` includes that nothing is later.

### VoiceSegments

The server (`turn`, `seen`, `store`), the socket (`inbox`, `wire`) and the
client (`active`, `queue`, `current`, `sounding`, `lastFinal`, named after
`activeBaseTurnId`, `audioQueue`, `currentlyPlaying` and
`lastSegmentWasFinal`). The server takes one message at a time and knows nothing
of interruptions: what it streams goes on arriving. The functions of
`audio-queue.js` run to completion, so each is one step, together with the
`pumpQueue` it ends in; `FailSound` is the `catch` of `pumpQueue`, for a fetch
that is refused or a playback that fails. `received`, `heard`, `barged`
and `dropped` are history.

Left out: the text-only mode, which this client does not ask for; a
`transcript_delta` changes only the log. The `ended` event of an audio element
and its handler are one step, so an event that was queued before an interrupt
and handled after it is not modelled. One client, one connection: the store is
shared, but its keys are unique to a turn.

### HotReload

The directory (`content`, `stamp`), the watcher inside `poll` (`pc`, `todo`,
`seen`, `fingerprint`, `loaded`, `wanted`) and the runtime (`agents` for
`_agents` and `_manifests`, which change together, and `tools` for the registry).
`poll` is a step per file for `stat`, a step per file for reading, a step per
agent dropped or added, and one more for its tool. Editors write, half-write
(`Unreadable`), deactivate and remove files between any two. What `poll` does not
catch (`StatGone`, `ReadNameless`) ends the watch loop: `serve` has no handler,
and in `watchdog` the exception ends the observer's thread.

A manifest keeps its name, a version and one entry of its allowlist, which may
name the dispatch tool of another agent: whether it resolves then depends on the
order of loading, so `InSync` leaves such an agent open. Two edits never share a
modification time. `phantom` and `unheard` record the two ways in which an edit
can be missed for good: a file that came after the fingerprint and went before
the next one, and an edit between the first poll of `serve_with_watchdog` and the
start of its observer. An update drops the agent before it adds the new one, and who
asks in between finds none: the model has that window, `NoSpuriousDrop` permits it
for agents whose manifest has changed, and `CatchesUp` says that it closes. Left out: `on_change`, the events, and `Orchestrator` as
the target, whose `sync` is the same without tools.

### StageLoop, Stage, MicToggle, OrbTimeline

`StageLoop`. `hidden` and `lost` are the two causes the one flag `paused` serves;
`animating`, `callback` and `requested` are three.js' WebGLAnimation, `gap` its
Clock. Each listener is an action together with the `pause` or `resume` it
calls. The history `awake` and `startedAmid` says when, and amid what, the loop
was last started. `dispose` removes the listener of visibility and leaves those
of the context, so `StaysStopped` excepts a context that is lost before and
restored after it. Resize changes sizes only and is left out, as is the disposal
of GPU resources.

`Stage`. One `Tick` is everything `_tick` does with agents and effects in a
stretch of 0.7 seconds: pulse, beams, pings, docks and demo, in the order of the
code. A backend sends messages and fails or closes once; `onerror` starts the
demo, which goes through the eight steps of its script. Beams and pings that are
over are taken out by `Left`, which is what `splice` leaves. A message after the error
of its socket cannot occur. `orbit` is optional in `transport.js:12`, but the
constructor of a node reads it (`constellation.js:38`) and throws, so an agent
without one is as if it had not been sent. An agent added with an id that is
taken leaves its old node on stage where no call reaches it; `GlowAsAsked` and
`DemoRests` say what that may and may not cost. Calls of `window.*` by hand are
left out.

`MicToggle`. A click flips `listening` at once and `getUserMedia` answers
whenever it likes, in any order, granting or refusing. `live`, `chains` and
`drivers` are the resources that are really in use; `handle`, `rafId` and
`fakeDriver` the ones the page can still reach. An answer that comes after its
stop leaks its stream; `LeakBound` says that nothing else does.

`OrbTimeline`. Nested timeouts as sets of what is pending and for how long.
Time passes only when nothing is due, so the order of delays is the order of
events, and that is what the properties rest on (1500 ms < 2000 + 1500 ms). The taps
are bounded, so `Settles` claims for the orb only that it comes to rest when they stop.

### Delivery, WrenHeartbeat, WrenConfig

The files are sets of records, `reminders` and `inbox`, and the state file's two
fields. Every change is a load and a save of the whole file: `holds` is what a
process has loaded, `stale` who of them has been overtaken. A tick of the
heartbeat loads the reminders, adds a notice at a time to the inbox, and persists
schedule and surfaced ids at its end; `EndHeartbeat` may come anywhere. A due time
with a zone cannot be compared with now: the check raises, `tick` catches it
(`heartbeat.py:179`) and goes on without any notice (`CheckRaises`), so while such a
reminder is open none is surfaced. That is a premise of `DueIsTold` (`Unhindered`),
which shows that the others are told once it is closed.

`ToldAtLeastOnce` is the refinement of `Delivery`: notices first, record later.
It is about ids, because ids are what the program surfaces. An id is the greatest
plus one, so a deleted reminder's id, or one that two chats gave at the same
time, is given twice. A reminder whose id is already on record is silenced for
good (`heartbeat.py:100`), and the docstring of the check, "Surface reminders whose
due time has passed, once each" (`:94`), does not hold of it: the run `wren_each`
shows that with `EachIsTold`. `OwnNotice` and `DueIsTold` name the exception, ids in
`twice`, and say that there is no other: every other reminder whose id is on record
had a notice under its own text, and every other one that is due gets one.

`WrenConfig`. Each process keeps the `config` it loaded when it started and saves
all of it. Hence a session with an older copy takes a kill back by changing any
setting (`overruled`), and a heartbeat that runs does not see a kill at all:
`VERIFY.md:184` ("heartbeat now surfaces nothing") is true of one that starts after
the kill, and that is what `KillObeyed` says. Opening the file empties it before it is
written; who loads it then runs with the defaults, not paused, and may save them
(`torn`). Of two processes that write at the same time the last one wins: that the
rest of a longer text may stay behind a shorter one, and the file be no YAML any
more, is left out.

### Dialogue, GatewaySession

`conv` is the one conversation that all connections naming a session share, as a
sequence of what was said, by which turn, with the ids of tool uses and results.
An action is a stretch from one await or yield to the next. At each of them a
turn may be cut off: the socket closes, the API or the connector raises.
`/api/chat` is a websocket that never disconnects. The text events of a reply are
folded into the reply.

Two turns of a session may overlap, and then a user message may come between a
use and its result. Nothing repairs that: all later calls carry it. `SessionInv`
says that overlap and cut-off turns are the only causes; the refinement
`TurnsAreDialogues` that each turn for itself is well formed in spite of them.
That the API refuses such a conversation is not modelled, because the code does
nothing about it.

### AuthRateLimiter, AnomalyGate

Both keep stamps as ages. Both read the clock before they take their lock, so a
thread that waits records an old stamp behind newer ones (`lag`, `wait`). The
histories they are judged by (`guesses`, `recorded`) are in the order of their
ages and lose their front with time (`InWindow`, `InSpan`).

`AuthRateLimiter` has one address and the three calls of `require_auth`: `check`,
then `record_fail` or `record_success`, with the verifier in between. Requests
that passed `check` before a lockout go on to fail during it, and an expired
lockout takes their failures with it; `GuessBound` counts both, each at most once
for every other thread. `record_success` is called by the example (its docstring
describes that), while the docstring of the limiter says a success does not touch
it; the model follows the code that runs. `LimiterAssumption` has a lockout
outlast the window and the longest wait for the lock, as 900 seconds outlast 300:
otherwise guesses of two lockouts would share a window.

`AnomalyGate` has one cap key and the order of `dispatch_tool`: kill switch, cap,
approval, run. The cap is a "true ceiling" (`anomaly.py:15`) for calls that are not
overtaken on their way to the lock (`CapOnTime`); the others add at most one per
thread (`CapBound`). The environment variable of the kill switch is set by the
process itself. Whether a command is approved is left to chance.

### ProactiveLoop

Daemons with one loop each on one table. A reminder is read as due, marked fired,
put into the trigger's list and handed to the notifier: four places a thread can
be overtaken or raise at. `Wait` ends at a stop or after its interval. `stop`
sets the event and gives up after two seconds; `start` returns if the thread is
alive, so a start that follows such a stop leaves a loop that is about to end
(`ignored`). What is marked and not sent is lost when an exception or an exit
throws the list away (`lost`); `MarkFails` takes the `UPDATE` and the `COMMIT` of
`mark_fired` as one, which raises and changes nothing. A reminder that two daemons had read before
either marked it is sent by both (`together`). `ToldAtMostOnce` is the refinement
of `Delivery`: record first, tell later.

### RegistryWatcher

`refresh` in its three steps under the lock (read the rows, register, reconcile),
by the host or by the thread of a timer; a timer is made, armed, ticking or over.
`stop` holds no lock: it cancels the timer it sees, and a tick that runs sets up
the next one all the same (`escaped`). A refresh that raises halfway leaves tools
registered that `_known_slugs` does not know (`orphans`), and in a timer's thread
it leaves no timer. A second `start_polling` leaves two chains, of which `stop`
reaches one; it is among the host's calls. `WatcherInv` names these races as its
exceptions (`escaped`, `orphans`, a refresh that `raises`) and says that nothing else
goes wrong; it does not say that they are harmless.

## Runs

All bounds are in the configurations. Two of a kind (tasks, files, agents,
processes) are the least that can race, collide or shadow each other; three
threads are the least of which one can wait between two others.

| Run | Question | Instance |
|-----|----------|----------|
| factory_concurrent | What holds under every interleaving and crash; by how much the daily cap can be exceeded | 2 tasks, 2 processes, cap 3; symmetric in tasks and processes. 3 creating processes, 2 users, 2 days, cap 2 |
| factory_sequential | With one process that may die: implements `SpawnLifecycle`; approves what was shown | 2 tasks, crashes |
| factory_progress | `run` always lands its task | 1 task, 2 processes, no crash |
| factory_race | `repos.py`: illegal transitions fail "no matter who attempts it" - they do not | 1 task, 2 processes |
| factory_stranded | `pipeline.py`: a started task "ends in a terminal state" - a failed revision does not | 1 task, 1 process |
| voice_full | Flags, order, drops and idling under barge-in, failure and expiry | 3 turns of up to 3 sentences |
| hot_full | Is the roster right, without spurious drops, and does it catch up | 2 files, 7 contents, 2 edits, both drivers |
| front_ends | Do loops, agents, microphone and timers end and go on as they should | frame cap 2; 3 agents and an extra one, 4 messages, docks of 2 frames; 3 attempts; 3 taps |
| wren | Which notices, and which settings, can be lost or repeated | 2 texts, 1 chat, 1 crash; 2 sessions, 4 starts |
| wren_each | `heartbeat.py`: due reminders are surfaced "once each" - one with the id of a deleted reminder is not | 2 texts, 1 chat, no crash |
| gateway | Is each turn well formed, what breaks a session, do turns end | 2 connections, 2 turns, 2 tool uses, 2 rounds |
| threads | By how much are limits exceeded; told once; do loops and timers stop and go on | 3 request threads, 3 failures, cap 3, waits of up to 2; 2 daemons, 2 reminders, 2 faults, 2 stops; 3 timers, 2 slugs, 2 edits, 1 raise, 3 calls |

Why the bounds are enough. A cap of three revision rounds lets a task be revised
twice before the cap is met. Three sentences give a turn a first, a middle and a
last segment; with a third turn an interrupt can fall between two replies that
are both still on their way. Any number of files may exist before the watcher
starts, so two edits are two changes during a poll; a third was tried and
finds nothing else. Four messages can add an agent, set it to work, release it
and send a beam, before or after the backend fails. Three attempts leave one
stream that was overtaken, one that leaked and one in use. Two chats were tried
for `wren` in place of one, with a heartbeat that does not end, and find nothing
else. Two rounds are a first one and
a last, two uses one that has a result while the other has none. The window,
lockout and lag of the limiters are small numbers in the order of the real ones.
`CapBound`, `DailyCapBound` and `GuessBound` are tight in their instances: with
one less TLC finds them violated.

Deadlock is not checked: a factory whose tasks are all resolved, a client that
is idle, a directory no one edits, a page that is closed and a session without
messages have nothing left to do.

Fairness. In `SpawnFactory`, weak fairness of `Step(w)` for each process: a
running Python process gets on with its command, and no command waits for
another. It is not fair about starting commands, nor about crashes, which the
liveness run excludes: a killed process strands its task by design. In
`VoiceSegments`, the server's loop goes on while it has a message, the socket
delivers, and a fetch or a sound ends or fails; the user owes nothing. In
`HotReload`, `serve` and the observer's thread loop for ever; edits are
bounded, and nothing forces one. In the front ends the browser runs frames and
timers of a page that shows; nobody is forced to click, and a tab may stay
hidden. The heartbeat's process goes on with its loop and, having ended, is
started again (a service); chats are not fair. A turn of the gateway goes on,
because API and connector answer or raise, but a person need never confirm. Time
passes, threads that hold a request go on with it, and timers fire; nobody is
forced to log in, to call a tool, to start or to stop.

What the runs show. The gate is robust where the database enforces something
(one row per slug) and where the order of commits is right (agent before
approval, error before failed, manifest before awaiting). It is not where a
check and its update are separate: two reviewers can approve and reject one
task, and both succeed; processes that count together exceed the daily cap, by
less than their number. `pick_slug` looks at agents only, so two proposals of one
slug both reach the reviewer and the second is refused by the database.

Hold-one-ahead is right under every interleaving, and the client never mixes
turns or plays out of order. But an interrupt leaves it with no active turn, and
it adopts whichever segment comes next, so after a barge-in it may play the rest
of the interrupted reply and drop the beginning of the new one
(`audio-queue.js:28`, `:33`, `:122`; `DropsNeedBargeIn` is as much as holds).

The fingerprint makes polling robust: an edit during a poll is seen by the next
one, because the fingerprint was taken before anything was read. The exceptions
are those recorded by `phantom` and `unheard`, and what kills the loop: a manifest
without a name is not skipped as `README.md:106` has it but raises, and a file that
came while a poll was under way and went before the next is never retired
(`orchestrator/runtime.py:178`).

Where a component records and tells, the order of the two decides what a crash
costs: Wren repeats, Donald loses, and neither does the other. But what Wren records
is an id, and ids come back: a reminder that follows a deleted one may never be told
(`wren_each`). Where files are
rewritten whole, an update is lost only to another process that saved in between.
Where two causes share one flag (`paused` of the stage) the order of their events
does not matter for waking up; it does for falling asleep, which `AsleepOtherwise`
bounds by what held at the last start.

## Proofs

`SpawnFactoryProofs` proves, for any sets of tasks, slugs and processes, with
crashes:

- `Typing`: `[]TypeOK`;
- `Invariance`: `[]FactoryInv`, the inductive invariant;
- the safety properties of the concurrent run, each from `FactoryInv`
  (`ApprovedIsLiveThm`, `AgentsDistinctThm`, `AwaitingIsReviewableThm`,
  `ReservedNeverLiveThm`, `PromptOnRecordThm`, `FailedHasReasonThm`);
- `RevisionBoundThm`: with n processes at most cap + n - 2 recorded rounds, by
  an invariant that counts the processes between the test and the increment.

Why an inductive invariant is needed: the properties speak of rows only, while
what makes them true is what a process knows at its program point. `PointInv`
says that, point by point (the slug is not reserved after `pickSlug`, the report
is stored after `research`, the agent is saved before `toApproved`); `RowInv`
and `AgentInv` say what the rows imply about each other. None of it depends on
the status being current, which is why it survives the races.

A second part adds the hypothesis `OneAtATime` (at most one process at a time,
dying wherever it likes) and proves what the races break:

- `SequentialLifecycle`: the factory implements `SpawnLifecycle`. `ArmedLegal`,
  that a checked transition is still legal, is what a second process would break;
- `SequentialApproval`: `[]ApprovedAsShown`. `ShownInv` follows the prompt from
  the manifest that is read to the agent that is saved, and says that a manifest
  is replaced only while its task is being written.

`SpawnAdmissionProofs` proves `AdmissionTypes` and `AdmissionBound`: with any
number P of processes no user gets more than Cap + P - 1 tasks a day, so one
process keeps the cap. `DailyCapBound` is not inductive, because a process that has
counted will insert; `AdmissionInv` counts those heading for a day together with
the rows.

`VoiceSegmentsProofs` proves `SegmentsThm` and `HeardThm` for any number of turns
and sentences. `SegmentsIInv` adds what ties the two sides together: the turns
waiting for the server come after what it has sent (`TurnsInOrder`); the client
plays up to what it received, or has received its turn to the end
(`PlayedAsReceived`), which is why a segment of another turn is dropped only
after a barge-in; before one, everything under way belongs to the last message
(`OneMessage`); and what is heard or queued was received (`HeardWasReceived`),
so what starts next is later.

`HotReloadProofs` proves `TypesThm`, `UpToDateThm` and `NoSpuriousDropThm` for any
number of files, names, contents and edits. `UpToDate` speaks of the moment at which
the directory looks as it did to the last poll; the proof follows that condition
(`Good`) backwards through the poll. While it holds, what has been read so far is
what the files say of their names, the last file of a name winning (`Reading`),
and what is still to be applied together with what is settled is what the
directory wants (`Syncing`). An edit ends it at once, because its stamp is new
(`Stamps`) or its file was never listed, and only the next poll that finds a change
brings it back, before it has read anything. `ToolsFollow` ties the tools to the
agents in between the statements of `_drop` and `_add`. From the same invariant an
agent is dropped only for a cause.

`FrontEndsProofs`, for any cap of a frame and any number of clicks, taps and
messages:

- `LoopThm` and `NoJumpThm`: a frame is requested exactly while the renderer
  animates, `paused` has one of its causes, the parity after a frame that was
  skipped; and the clock is never ahead of the time the loop has been awake.
- `StageThm`, from `StageIInvThm`. Pings are bounded because a beam has pinged its
  agent exactly when it is past its peak, a ping of an agent or the orb is gone
  after one more frame, and that of the pulse ends before the timer is due
  (`Beats`): so of what a frame leaves, one is the pulse's at most and the rest are
  pings it made itself, one for each beam at its peak. That `Left` keeps each place once is
  proved by ranks: the places up to a place are as many as its rank, and no two
  places have the same. `DemoWorks` says who may be at work in which step of the
  script, so the steps with the mood idle are seen to rest.
- `MicThm`: `HoldingBound` counts streams and drivers against late answers, with one
  more while the click that is on has its own; the counting is by sets of
  attempts, none of which is answered twice.
- `OrbThm`, `SpeaksFromSilenceThm`, `SpokenInFullThm` from `OrbIInvThm`: a pending
  timeout leads on from the state the orb is in, a wipe that is still to come is
  due before the orb thinks again, and what is typed is done before the timeout
  that ends the speaking.
- `NeverCutThm`, the property the run checks, for the pages side by side.

`WrenProofs`. `NoticesThm`, `InboxKeptThm` and the refinement of `Delivery`
(`ToldAtLeastOnceThm`) rest on `NoticesIInv`: every id in a file or in a copy was
given by `NextId` (`RemindersOK`); a copy of the inbox that is not stale is the
inbox (`InboxOK`); what the heartbeat found is told or its notice is pending, and
pending ids are not on record (`MemoryOK`), which is why an end costs a repetition
and not a notice; and an id that was given once stands for one text (`TextsOK`).
`SwitchThm` adds `FreshTrue`: a session whose copy is still true to the last kill
has it paused, so what it saves keeps the kill.

`GatewaySessionProofs`. `SessionThm`, from `SessionIInvThm`: each message with uses
is answered by the next one, torn from its results by another turn, or the last
one, owed by a turn that is at work or was cut off (`Fates`); a turn at work owes
exactly the ids of its reply, of which its sink holds the first ones in order
(`Sinks`). `TurnsThm` is the refinement of `Dialogue`, turn by turn: `Said` picks a
turn's messages out of the conversation, and the proof shows that what is appended
to the conversation is appended to that of one turn and no other. `SaidInv` knows
where a turn is in its dialogue: its round from how much it has said, and that
the last of it is the uses its sink is about.

`ThreadsProofs`:

- `GateThm` (`[]GateInv`). The calls of a window are given to threads and to
  stamps: two calls of one thread cannot both have lost their stamps, since a
  thread reads the clock after its last call, so stamps plus threads are enough
  (`Owned`). Calls on time have stamps of their own.
- `LimiterThm` (`[]LimiterInv`). Without a lockout every guess in the window has a
  stamp or its thread is on the way to leave one, except those an earlier lockout
  forgot, one for every other thread (`Open`); during one, what comes after its
  beginning was checked before it (`Shut`).
- `ToldOnceThm`: the loop implements `Delivery`'s at-most-once. `OnceInv` says that
  what a thread holds is marked, and that a reminder which one thread holds and
  that was sent, or that two hold, is one they had read together: that is what
  makes a repeated message a stutter of the abstract delivery. `RemindersThm`
  counts what was sent of a reminder together with who may still send it.
- `WatcherThm`: under the lock the tools are those of before and some of the rows
  read (`ToolsGrow`); one timer is armed or ticking unless one escaped, and only the
  one `_timer` names may be started (`TimersHeld`).

The theorems assume only the named assumptions on constants, and each is about
the specification without fairness. Every safety invariant of a passing run is
stated by a theorem, and so are its action properties and refinements. Only
model-checked: what holds under fairness (`RunLands`, `ReturnsToIdle`, `CatchesUp`,
`Settles`, `DueIsTold`, `TurnsEnd`, `AllGoOn`), which is out of the prover's reach, and
the disagreements with the documentation, which are counterexamples.

## What could follow

- an abstract playlist that `VoiceSegments` implements, and an abstract roster
  for `HotReload`;
- for the factory, which transitions can be illegal when processes race, as a
  theorem: only those whose check another process has overtaken.

## Not modelled, and why

- The agent loops (`orchestrator/agent.py`, `agent_factory/research.py` and
  `ConfigDrivenAgent`, `wren/agent.py`, `donald/brain.py`, `prism/`): each is one
  bounded sequential loop over a remote model, keeps its state in local variables
  and has no one to interleave with. The factory's model keeps that research
  succeeds or raises.
- Text filters, scanners, command classification, SQL validation, templates:
  matching on text, no state.
- Remote services and their clients, audio and screen input: only their answers
  and failures matter, and those are steps of the models that use them.
- Geometry, easing, shaders, audio analysis and `scene.js`: looks computed from
  time. `js/lib/three.module.js` is the vendored library, 53 044 of the 55 908
  lines of JavaScript; what the code relies on (WebGLAnimation, Clock) is in
  `StageLoop`.
- Demos, examples and deployment scripts, but for the wiring of the security
  library in `examples/fastapi_agent.py`.
