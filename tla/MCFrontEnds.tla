----------------------------- MODULE MCFrontEnds -----------------------------
(***************************************************************************)
(* The front ends for TLC.  They are pages of their own, or parts of one   *)
(* that share nothing but the frames: a behaviour is about one of them,    *)
(* chosen at the start, and the state spaces add up instead of             *)
(* multiplying.                                                            *)
(***************************************************************************)
EXTENDS StageLoop, Stage, MicToggle, OrbTimeline

VARIABLE page

vars == <<page, loopVars, stageVars, micVars, orbVars>>

Pages == {"loop", "stage", "mic", "orb"}

\* Where the initial state is a choice it is made for the page shown only.
Init ==
    /\ page \in Pages
    /\ LoopInit /\ StageInit /\ MicInit /\ OrbInit
    /\ page # "loop" => ~hidden
    /\ page # "stage" => nodes # <<>> /\ panels = {} /\ socket = "none"

Next ==
    \/ page = "loop"  /\ LoopNext  /\ UNCHANGED <<page, stageVars, micVars, orbVars>>
    \/ page = "stage" /\ StageNext /\ UNCHANGED <<page, loopVars, micVars, orbVars>>
    \/ page = "mic"   /\ MicNext   /\ UNCHANGED <<page, loopVars, stageVars, orbVars>>
    \/ page = "orb"   /\ OrbNext   /\ UNCHANGED <<page, loopVars, stageVars, micVars>>

\* What the page shown must go on doing; the others do not run.
FairStep ==
    \/ page = "loop"  /\ LoopFairStep  /\ UNCHANGED <<page, stageVars, micVars, orbVars>>
    \/ page = "stage" /\ StageFairStep /\ UNCHANGED <<page, loopVars, micVars, orbVars>>
    \/ page = "mic"   /\ MicFairStep   /\ UNCHANGED <<page, loopVars, stageVars, orbVars>>
    \/ page = "orb"   /\ OrbFairStep   /\ UNCHANGED <<page, loopVars, stageVars, micVars>>

FairFrame ==
    page = "mic" /\ MicFairFrame /\ UNCHANGED <<page, loopVars, stageVars, orbVars>>

FairSpec == Init /\ [][Next]_vars /\ WF_vars(FairStep) /\ WF_vars(FairFrame)

\* No animation jumps after a pause and no phrase is cut off, whatever timers
\* are pending when the next thing begins.
NeverCut ==
    /\ NoJump
    /\ SpeaksFromSilence
    /\ SpokenInFull

\* What must go on does, and what must end ends: frames, docks, the demo,
\* processing, chains of frames; and the orb's interactions, once taps stop.
Settles ==
    /\ KeepsDrawing
    /\ BackToOrbit
    /\ DemoReclaims
    /\ ThinkingEnds
    /\ ChainsEnd
    /\ ComesToRest

=============================================================================
