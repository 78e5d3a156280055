-------------------------------- MODULE Stage --------------------------------
(***************************************************************************)
(* What moves on the stage of the cosmic interface: the agents of          *)
(* js/constellation.js with their docks, the beams and pings of            *)
(* js/effects.js, the pulse of js/main.js, and what drives them            *)
(* (js/transport.js): the messages of a backend, or the demo driver that   *)
(* takes its place.                                                        *)
(*                                                                         *)
(* Every variable below changes in a message handler or in one pass of     *)
(* _tick.  A frame of the model is a stretch of 0.7 seconds of real ones,  *)
(* so durations are small numbers in the order of the real ones; easing    *)
(* counts the frames it takes; positions, colours and textures are left    *)
(* out.                                                                    *)
(***************************************************************************)
EXTENDS Integers, Sequences, FiniteSets

CONSTANTS
    Extra,          \* an agent a backend may add
    MaxMessages,    \* bound: what a backend sends
    DockFrames      \* frames a dock takes to pull in or to let go

Cast   == {"scout", "forge", "aegis"}      \* AGENTS, all named in the demo
AnAgent == Cast \cup {Extra}

ASSUME StageAssumption ==
    /\ Extra \notin Cast
    /\ MaxMessages \in Nat /\ DockFrames \in Nat \ {0}

\* Durations: pings 0.8, 1.1 and 2.4 s, beam 2.8 s, pulse timer 2.6 s.
SendPing   == 1
AgentPing  == 2
PulsePing  == 4
BeamLife   == 4
PulseEvery == 4

VARIABLES
    mood,           \* app.state
    pulseTimer,     \* app._pulseTimer, at or below 0 when due
    nodes,          \* constellation.nodes: a sequence, which only grows
    byId,           \* constellation.byId: index of the node of an agent, or 0
    panels,         \* the agents whose panel [data-agent=id] is on the page
    beams,          \* effects.beams: [node, age, pinged]
    pings,          \* effects.pings: [age, dur, faint]
    socket,         \* the backend: "none", "open", "closed", "failed"
    demo,           \* the demo driver: running, i (0 before the first step), timer
    \* bound and history
    sent,           \* messages and page changes so far
    asked,          \* the agents last asked to work
    leftover        \* the agents a failed backend left working

stageVars == <<mood, pulseTimer, nodes, byId, panels, beams, pings, socket, demo,
               sent, asked, leftover>>

NoDock == [there |-> FALSE, active |-> FALSE, amount |-> 0]

NewNode(a) == [agent |-> a, target |-> 0, flare |-> FALSE, dock |-> NoDock]

-----------------------------------------------------------------------------
(* app.setWorking and app.dispatch, as functions of the nodes and beams. *)

\* dock: a node that has one keeps its amount.
Dock(n) == [n EXCEPT !.dock = [there |-> TRUE, active |-> TRUE, amount |-> @.amount]]

\* undock: release, if there is one.
Undock(n) == [n EXCEPT !.dock.active = FALSE]

\* Variants with a fault: the dock is kept; the glow is kept.
WorkingKeepsDock(ns, a, on) ==
    [i \in DOMAIN ns |->
        IF i # byId[a] THEN ns[i]
        ELSE LET n == [ns[i] EXCEPT !.target = IF on THEN 1 ELSE 0]
             IN  IF on /\ a \in panels THEN Dock(n) ELSE n]
WorkingKeepsGlow(ns, a, on) ==
    [i \in DOMAIN ns |->
        IF i # byId[a] THEN ns[i]
        ELSE IF ~on THEN Undock(ns[i])
        ELSE LET n == [ns[i] EXCEPT !.target = 1]
             IN  IF a \in panels THEN Dock(n) ELSE n]

\* setWorking: the node of the id is told, and docked only if a panel exists.
Working(ns, a, on) ==
    [i \in DOMAIN ns |->
        IF i # byId[a] THEN ns[i]
        ELSE LET n == [ns[i] EXCEPT !.target = IF on THEN 1 ELSE 0]
             IN  CASE on /\ a \in panels -> Dock(n)
                   [] ~on                -> Undock(n)
                   [] OTHER              -> n]

\* dispatch: a beam to the node, and a ping at the orb.
Beam(a)  == [node |-> byId[a], age |-> 0, pinged |-> FALSE]
OrbPing  == [age |-> 0, dur |-> SendPing, faint |-> FALSE]

-----------------------------------------------------------------------------
(* The demo driver: step i sets a mood, stops and starts work, dispatches. *)

\* Variant with a fault: the third agent is never told to stop.
ScriptForgetful ==
    << [mood |-> "listening",  stop |-> {}, start |-> {}, dur |-> 5],
       [mood |-> "processing", stop |-> {}, start |-> {"scout"}, dur |-> 6],
       [mood |-> "speaking",   stop |-> {"scout"}, start |-> {"forge"}, dur |-> 7],
       [mood |-> "idle",       stop |-> {"forge"}, start |-> {}, dur |-> 4],
       [mood |-> "listening",  stop |-> {}, start |-> {"aegis"}, dur |-> 5],
       [mood |-> "processing", stop |-> {}, start |-> {}, dur |-> 6],
       [mood |-> "speaking",   stop |-> {}, start |-> {}, dur |-> 6],
       [mood |-> "idle",       stop |-> {}, start |-> {}, dur |-> 4] >>

\* Whoever starts to work is also dispatched to.
Script ==
    << [mood |-> "listening",  stop |-> {}, start |-> {}, dur |-> 5],
       [mood |-> "processing", stop |-> {}, start |-> {"scout"}, dur |-> 6],
       [mood |-> "speaking",   stop |-> {"scout"}, start |-> {"forge"}, dur |-> 7],
       [mood |-> "idle",       stop |-> {"forge"}, start |-> {}, dur |-> 4],
       [mood |-> "listening",  stop |-> {}, start |-> {"aegis"}, dur |-> 5],
       [mood |-> "processing", stop |-> {}, start |-> {}, dur |-> 6],
       [mood |-> "speaking",   stop |-> {"aegis"}, start |-> {}, dur |-> 6],
       [mood |-> "idle",       stop |-> {}, start |-> {}, dur |-> 4] >>

NoDemo   == [running |-> FALSE, i |-> 0, timer |-> 0]
NewDemo  == [running |-> TRUE, i |-> 0, timer |-> 1]

\* The constructors: without a backend, or before one can even be tried, the
\* demo runs; on a small mobile screen the constellation stays empty.
StageInit ==
    /\ mood = "idle" /\ pulseTimer = 0
    /\ \E enabled \in BOOLEAN :
          IF enabled
            THEN /\ nodes = << NewNode("scout"), NewNode("forge"), NewNode("aegis") >>
                 /\ byId = [a \in AnAgent |-> CASE a = "scout" -> 1 [] a = "forge" -> 2
                                              [] a = "aegis" -> 3 [] OTHER -> 0]
            ELSE nodes = <<>> /\ byId = [a \in AnAgent |-> 0]
    /\ panels \in {{}, Cast}
    /\ beams = <<>> /\ pings = <<>>
    /\ \/ socket = "none" /\ demo = NewDemo
       \/ socket = "open" /\ demo = NoDemo
    /\ sent = 0 /\ asked = {} /\ leftover = {}

-----------------------------------------------------------------------------
(* The backend.  Transport.handle, one message at a time.  A frame that does *)
(* not parse, or whose handler throws (an agent without orbit), is ignored.  *)

Receive == socket = "open" /\ sent < MaxMessages /\ sent' = sent + 1

\* { type: 'state' }.  Variant with a fault: a change of mood rearms the pulse.
SetMoodRearming(m) ==
    /\ Receive
    /\ mood' = m
    /\ pulseTimer' = 0
    /\ UNCHANGED <<nodes, byId, panels, beams, pings, socket, demo, asked, leftover>>
SetMood(m) ==
    /\ Receive
    /\ mood' = m
    /\ UNCHANGED <<pulseTimer, nodes, byId, panels, beams, pings, socket, demo, asked,
                   leftover>>

\* { type: 'dispatch' }
Dispatch(a) ==
    /\ Receive
    /\ byId[a] # 0
    /\ beams' = Append(beams, Beam(a))
    /\ pings' = Append(pings, OrbPing)
    /\ UNCHANGED <<mood, pulseTimer, nodes, byId, panels, socket, demo, asked, leftover>>

\* { type: 'working' }
SetWorking(a, on) ==
    /\ Receive
    /\ nodes' = Working(nodes, a, on)
    /\ asked' = IF on THEN asked \cup {a} ELSE asked \ {a}
    /\ UNCHANGED <<mood, pulseTimer, byId, panels, beams, pings, socket, demo, leftover>>

\* { type: 'agent:add' }: an id that is taken is taken over, and the node that
\* had it stays on stage.
AddAgent(a) ==
    /\ Receive
    /\ nodes # <<>>
    /\ nodes' = Append(nodes, NewNode(a))
    /\ byId' = [byId EXCEPT ![a] = Len(nodes')]
    /\ UNCHANGED <<mood, pulseTimer, panels, beams, pings, socket, demo, asked, leftover>>

\* The page around the stage drops its panels, or shows them again.
ChangePage ==
    /\ Receive
    /\ panels' = Cast \ panels
    /\ UNCHANGED <<mood, pulseTimer, nodes, byId, beams, pings, socket, demo, asked,
                   leftover>>

\* ws.onerror: the demo takes over.  A socket that failed delivers nothing more.
BackendFails ==
    /\ socket = "open"
    /\ socket' = "failed"
    /\ demo' = NewDemo
    /\ leftover' = {a \in AnAgent : \E i \in DOMAIN nodes :
                                        nodes[i].agent = a /\ nodes[i].target = 1}
    /\ UNCHANGED <<mood, pulseTimer, nodes, byId, panels, beams, pings, sent, asked>>

\* A clean close: nothing takes over.
BackendCloses ==
    /\ socket = "open"
    /\ socket' = "closed"
    /\ UNCHANGED <<mood, pulseTimer, nodes, byId, panels, beams, pings, demo, sent,
                   asked, leftover>>

Message ==
    \/ \E m \in {"idle", "processing"} : SetMood(m)
    \/ \E a \in {"scout", Extra} :
          Dispatch(a) \/ AddAgent(a) \/ \E on \in BOOLEAN : SetWorking(a, on)
    \/ ChangePage \/ BackendFails \/ BackendCloses

-----------------------------------------------------------------------------
(* One pass of _tick, in its order: pulse, beams, pings, agents, driver. *)

PulseDue == mood = "processing" /\ pulseTimer - 1 <= 0

Pulses == IF PulseDue THEN << [age |-> 0, dur |-> PulsePing, faint |-> TRUE] >> ELSE <<>>

\* Every beam ages; at half its life it pings the agent; at its end it goes.
Aged    == [k \in DOMAIN beams |-> [beams[k] EXCEPT !.age = @ + 1]]
AtPeak(b) == ~b.pinged /\ 2 * b.age >= BeamLife
Over(b)   == b.age >= BeamLife

\* What splice leaves of a sequence: its elements at these places, in order.
Left(s, is) ==
    LET nth(n) == CHOOSE i \in is : Cardinality({j \in is : j <= i}) = n
    IN  [n \in 1 .. Cardinality(is) |-> s[nth(n)]]

BeamsAfter ==
    Left([k \in DOMAIN Aged |-> [Aged[k] EXCEPT !.pinged = @ \/ AtPeak(Aged[k])]],
         {k \in DOMAIN Aged : ~Over(Aged[k])})

AgentPings ==
    [k \in 1 .. Cardinality({j \in DOMAIN Aged : AtPeak(Aged[j])}) |->
        [age |-> 0, dur |-> AgentPing, faint |-> FALSE]]

\* Variant with a fault: pings are never taken off the stage.
PingsAfterKept ==
    LET all == pings \o Pulses \o AgentPings
    IN  [k \in DOMAIN all |-> [all[k] EXCEPT !.age = @ + 1]]

\* A ping that is new in this frame ages in it.
PingsAfter ==
    LET all == pings \o Pulses \o AgentPings
    IN  Left([k \in DOMAIN all |-> [all[k] EXCEPT !.age = @ + 1]],
             {k \in DOMAIN all : all[k].age + 1 < all[k].dur})

\* Variant with a fault: the flare of a beam that ends is left at its last value.
FlareAfterLast(n, i) ==
    IF \E k \in DOMAIN Aged : Aged[k].node = i THEN TRUE ELSE n.flare

\* The beams are gone through from the newest to the oldest, so of several on
\* one agent the oldest has the last word: out when it ends, lit before.
FlareAfter(n, i) ==
    LET on == {k \in DOMAIN Aged : Aged[k].node = i}
    IN  IF on = {} THEN n.flare
        ELSE ~Over(Aged[CHOOSE k \in on : \A j \in on : k <= j])

\* Variant with a fault: a dock is over only when it is still active.
DockAfterStuck(d) ==
    IF ~d.there THEN d
    ELSE LET amount == IF d.active THEN (IF d.amount < DockFrames THEN d.amount + 1 ELSE d.amount)
                       ELSE (IF d.amount > 0 THEN d.amount - 1 ELSE 0)
         IN  IF d.active /\ amount = 0 THEN NoDock ELSE [d EXCEPT !.amount = amount]

\* Dock.apply and done.
DockAfter(d) ==
    LET amount == CASE d.active /\ d.amount < DockFrames -> d.amount + 1
                    [] ~d.active /\ d.amount > 0         -> d.amount - 1
                    [] OTHER                             -> d.amount
    IN  IF ~d.there \/ (~d.active /\ amount = 0) THEN NoDock
        ELSE [d EXCEPT !.amount = amount]

NodesAfter ==
    [i \in DOMAIN nodes |-> [nodes[i] EXCEPT !.flare = FlareAfter(nodes[i], i),
                                             !.dock = DockAfter(@)]]

\* The step the demo is to run in this frame, or 0.
StepDue == IF demo.running /\ demo.timer - 1 <= 0 THEN (demo.i % Len(Script)) + 1 ELSE 0

\* DemoDriver.update
RunStep(s) ==
    /\ mood' = s.mood
    /\ nodes' = [i \in DOMAIN nodes |->
                    LET a == nodes[i].agent
                    IN  CASE a \in s.stop  -> Working(NodesAfter, a, FALSE)[i]
                          [] a \in s.start -> Working(NodesAfter, a, TRUE)[i]
                          [] OTHER         -> NodesAfter[i]]
    /\ LET told == {a \in s.start : byId[a] # 0}       \* at most one
       IN  /\ beams' = IF told = {} THEN BeamsAfter
                       ELSE Append(BeamsAfter, Beam(CHOOSE a \in told : TRUE))
           /\ pings' = IF told = {} THEN PingsAfter ELSE Append(PingsAfter, OrbPing)
    /\ asked' = (asked \ s.stop) \cup s.start

Tick ==
    /\ pulseTimer' = IF mood # "processing" THEN pulseTimer
                     ELSE IF PulseDue THEN PulseEvery ELSE pulseTimer - 1
    /\ IF StepDue # 0
         THEN /\ demo' = [demo EXCEPT !.i = StepDue, !.timer = Script[StepDue].dur]
              /\ RunStep(Script[StepDue])
         ELSE /\ demo' = [demo EXCEPT !.timer = IF demo.running THEN @ - 1 ELSE @]
              /\ nodes' = NodesAfter
              /\ beams' = BeamsAfter
              /\ pings' = PingsAfter
              /\ UNCHANGED <<mood, asked>>
    /\ UNCHANGED <<byId, panels, socket, sent, leftover>>

StageNext == Message \/ Tick

StageSpec == StageInit /\ [][StageNext]_stageVars

\* A page that is visible and has its context goes on drawing (StageLoop).
StageFairStep == Tick

-----------------------------------------------------------------------------
DockState == [there : BOOLEAN, active : BOOLEAN, amount : 0 .. DockFrames]

StageTypeOK ==
    /\ mood \in {"idle", "listening", "processing", "speaking"}
    /\ pulseTimer \in 0 .. PulseEvery
    /\ nodes \in Seq([agent : AnAgent, target : {0, 1}, flare : BOOLEAN, dock : DockState])
    /\ \A a \in AnAgent : byId[a] # 0 => nodes[byId[a]].agent = a
    /\ panels \subseteq Cast
    /\ beams \in Seq([node : DOMAIN nodes, age : 0 .. BeamLife - 1, pinged : BOOLEAN])
    /\ pings \in Seq([age : 0 .. PulsePing, dur : 1 .. PulsePing, faint : BOOLEAN])
    /\ socket \in {"none", "open", "closed", "failed"}
    /\ demo \in [running : BOOLEAN, i : 0 .. Len(Script), timer : 0 .. 7]
    /\ sent \in 0 .. MaxMessages
    /\ asked \subseteq AnAgent /\ leftover \subseteq AnAgent

\* No agent is left glaring: a flare is lit only while some beam is on its way
\* to that agent, however beams overlap (Effects.update).
FlareHasBeam ==
    \A i \in DOMAIN nodes : nodes[i].flare => \E k \in DOMAIN beams : beams[k].node = i

\* Whoever is held at a panel works: the dock and the glow are set by separate
\* calls, under separate conditions (setWorking, dock, undock).
DockFollowsWork ==
    \A i \in DOMAIN nodes : nodes[i].dock.active => nodes[i].target = 1

\* An agent glows as it was last asked to; only a node whose id was taken over
\* by another may go on after its agent was told to stop (Constellation.add).
GlowAsAsked ==
    \A i \in DOMAIN nodes :
        nodes[i].target = 1 /\ nodes[i].agent \notin asked => byId[nodes[i].agent] # i

\* Pings go as fast as they come: at most one per beam on its way and one
\* pulse, because each lasts less than what spawns the next (2.4 < 2.6 s).
PingsBounded ==
    /\ Len(pings) <= Len(beams) + 1
    /\ \A j, k \in DOMAIN pings : pings[j].faint /\ pings[k].faint => j = k

\* In the idle steps of the demo no agent works, except those a failed backend
\* left working.
DemoRests ==
    demo.i # 0 /\ mood = "idle" =>
        \A i \in DOMAIN nodes : nodes[i].target = 1 => nodes[i].agent \in leftover

\* A released agent leaves its panel for its orbit: again and again no agent is
\* on its way back, also of those whose id was taken over on the way.
Leaving(i)  == nodes[i].dock.there /\ ~nodes[i].dock.active
BackToOrbit == []<>(\A i \in DOMAIN nodes : ~Leaving(i))

\* Once it runs, the demo comes to rest again and again with every agent of
\* its cast released, also those a failed backend left working.
DemoReclaims ==
    demo.running ~>
        /\ mood = "idle"
        /\ \A a \in Cast : byId[a] # 0 => nodes[byId[a]].target = 0

\* What the stage shows is what its agents were asked to do: flares, docks,
\* glows and pings, under a backend that fails or a demo that takes over.
StageInv ==
    /\ StageTypeOK
    /\ FlareHasBeam
    /\ DockFollowsWork
    /\ GlowAsAsked
    /\ PingsBounded
    /\ DemoRests

=============================================================================
