------------------------------ MODULE StageLoop ------------------------------
(***************************************************************************)
(* The animation loop of the cosmic interface (js/main.js) on the renderer *)
(* it drives (WebGLAnimation and Clock of three.js).                       *)
(*                                                                         *)
(* One flag, paused, serves two causes: the tab is hidden, the WebGL       *)
(* context is lost.  dispose removes the listener of the first cause and   *)
(* leaves those of the second.  Time is counted in units of a few          *)
(* milliseconds; a gap longer than a frame may report is not told apart    *)
(* from a longer one.                                                      *)
(***************************************************************************)
EXTENDS Integers

CONSTANT MaxStep         \* the cap of dt in _tick, in units

ASSUME LoopAssumption == MaxStep \in Nat \ {0}

VARIABLES
    hidden,         \* document.hidden
    lost,           \* the WebGL context is lost
    paused,         \* this.paused
    animating,      \* isAnimating of WebGLAnimation
    callback,       \* onAnimationFrameCallback is set
    requested,      \* requestAnimationFrame callbacks outstanding
    gap,            \* time since clock.oldTime; -1: the clock has not started
    perf,           \* this.perfMode, frameSkip of the background
    parity,         \* _frame % 2 of the background
    gone,           \* dispose was called
    \* history
    awake,          \* time since the loop was last started or ran a frame
    dt,             \* what the last frame took for the time passed
    startedAmid,    \* what held when the loop was last started: "hidden", "lost"
    restored,       \* the context came back after dispose
    skipped         \* frames in a row the background was not drawn in

screen   == <<hidden, lost>>
renderer == <<animating, callback, requested>>
loopVars == <<hidden, lost, paused, animating, callback, requested, gap, perf,
              parity, gone, awake, dt, startedAmid, restored, skipped>>

Long == MaxStep + 1      \* any gap longer than the cap

Troubles(h, l) == (IF h THEN {"hidden"} ELSE {}) \cup (IF l THEN {"lost"} ELSE {})

-----------------------------------------------------------------------------
(* renderer.setAnimationLoop: WebGLAnimation.start and stop. *)

\* Variant with a fault: stop leaves the request outstanding.
StopLoopUncancelled ==
    /\ callback' = FALSE
    /\ animating' = FALSE
    /\ UNCHANGED requested

\* setAnimationLoop(null): the outstanding request is cancelled.
StopLoop ==
    /\ callback' = FALSE
    /\ animating' = FALSE
    /\ requested' = 0

\* setAnimationLoop(tick): start does nothing when it is animating.
StartLoop ==
    /\ callback' = TRUE
    /\ animating' = TRUE
    /\ requested' = IF animating THEN requested ELSE requested + 1
    /\ awake' = IF animating THEN awake ELSE 0
    /\ startedAmid' = IF animating THEN startedAmid ELSE Troubles(hidden', lost')

LoopInit ==
    /\ hidden \in BOOLEAN         \* a page may be opened in a background tab
    /\ lost = FALSE
    /\ paused = FALSE
    /\ animating = TRUE /\ callback = TRUE /\ requested = 1
    /\ gap = -1
    /\ perf = FALSE /\ parity = 0
    /\ gone = FALSE
    /\ awake = 0 /\ dt = 0
    /\ startedAmid = Troubles(hidden, FALSE)
    /\ restored = FALSE
    /\ skipped = 0

-----------------------------------------------------------------------------
(* pause and resume of CosmicInterface. *)

\* pause: once.
Pause ==
    IF paused
      THEN UNCHANGED <<paused, renderer, gap, awake, startedAmid>>
      ELSE /\ paused' = TRUE
           /\ StopLoop
           /\ UNCHANGED <<gap, awake, startedAmid>>

\* Variant with a fault: the gap is not discarded.
ResumeKeepingGap ==
    IF ~paused
      THEN UNCHANGED <<paused, renderer, gap, awake, startedAmid>>
      ELSE /\ paused' = FALSE
           /\ StartLoop
           /\ UNCHANGED gap

\* clock.getDelta() discards the gap; it starts a clock that has not started.
Resume ==
    IF ~paused
      THEN UNCHANGED <<paused, renderer, gap, awake, startedAmid>>
      ELSE /\ paused' = FALSE
           /\ gap' = 0
           /\ StartLoop

\* visibilitychange; its listener goes with dispose.
Visibility ==
    /\ hidden' = ~hidden /\ UNCHANGED lost
    /\ IF gone THEN UNCHANGED <<paused, renderer, gap, awake, startedAmid>>
       ELSE IF hidden' THEN Pause ELSE Resume
    /\ UNCHANGED <<perf, parity, gone, dt, restored, skipped>>

\* Variants with a fault: no one listens; the loop is stopped behind the flag.
ContextLostUnheard ==
    /\ ~lost
    /\ lost' = TRUE
    /\ UNCHANGED <<hidden, paused, renderer, gap, perf, parity, gone, awake, dt,
                   startedAmid, restored, skipped>>
ContextLostBare ==
    /\ ~lost
    /\ lost' = TRUE
    /\ StopLoop
    /\ UNCHANGED <<hidden, paused, gap, perf, parity, gone, awake, dt, startedAmid,
                   restored, skipped>>

\* webglcontextlost: three.js stops drawing, the interface pauses.
ContextLost ==
    /\ ~lost
    /\ lost' = TRUE
    /\ Pause
    /\ UNCHANGED <<hidden, perf, parity, gone, dt, restored, skipped>>

\* webglcontextrestored: a listener dispose does not remove.
ContextRestored ==
    /\ lost
    /\ lost' = FALSE /\ UNCHANGED hidden
    /\ Resume
    /\ restored' = (restored \/ gone)
    /\ UNCHANGED <<perf, parity, gone, dt, skipped>>

-----------------------------------------------------------------------------
\* Time passes, in the clock and for the loop.
Elapse ==
    /\ awake < Long \/ gap \in 0 .. MaxStep
    /\ awake' = IF awake < Long THEN awake + 1 ELSE awake
    /\ gap' = IF gap \in 0 .. MaxStep THEN gap + 1 ELSE gap
    /\ UNCHANGED <<screen, paused, renderer, perf, parity, gone, dt, startedAmid,
                   restored, skipped>>

\* Variant with a fault: performance mode draws the background in no frame at all.
BackgroundNever == IF perf THEN skipped' = skipped + 1 ELSE skipped' = 0

\* Background.update: every second frame is skipped in performance mode.
BackgroundDraw ==
    IF perf /\ parity' = 0 THEN skipped' = skipped + 1 ELSE skipped' = 0

\* Variants with a fault: dt has no cap; the next frame is not requested.
FrameUncapped ==
    /\ requested > 0 /\ ~hidden
    /\ dt' = IF gap = -1 THEN 0 ELSE gap
    /\ gap' = 0 /\ awake' = 0
    /\ parity' = 1 - parity
    /\ BackgroundDraw
    /\ UNCHANGED <<screen, paused, renderer, perf, gone, startedAmid, restored>>
FrameUnrequested ==
    /\ requested > 0 /\ ~hidden
    /\ dt' = 0 /\ gap' = 0 /\ awake' = 0
    /\ parity' = 1 - parity
    /\ BackgroundDraw
    /\ requested' = requested - 1
    /\ UNCHANGED <<screen, paused, animating, callback, perf, gone, startedAmid, restored>>

\* _tick, called by onAnimationFrame, which asks for the next frame when it
\* returns: one request is used up, one is made.
\* A browser runs no frame callbacks in a hidden tab.
Frame ==
    /\ requested > 0 /\ ~hidden
    /\ dt' = CASE gap = -1 -> 0
               [] gap = Long -> MaxStep
               [] OTHER -> gap
    /\ gap' = 0 /\ awake' = 0
    /\ parity' = 1 - parity
    /\ BackgroundDraw
    /\ UNCHANGED <<screen, paused, renderer, perf, gone, startedAmid, restored>>

\* setPerformanceMode, by key or by button: neither listener is ever removed.
TogglePerformance ==
    /\ perf' = ~perf
    /\ UNCHANGED <<screen, paused, renderer, gap, parity, gone, awake, dt, startedAmid,
                   restored, skipped>>

\* Variant with a fault: dispose leaves the loop to the visibility listener.
DisposeRunning ==
    /\ ~gone
    /\ gone' = TRUE
    /\ UNCHANGED <<screen, paused, renderer, gap, perf, parity, awake, dt, startedAmid,
                   restored, skipped>>

\* dispose
Dispose ==
    /\ ~gone
    /\ gone' = TRUE
    /\ StopLoop
    /\ UNCHANGED <<screen, paused, gap, perf, parity, awake, dt, startedAmid,
                   restored, skipped>>

LoopNext ==
    \/ Visibility \/ ContextLost \/ ContextRestored
    \/ Elapse \/ Frame \/ TogglePerformance \/ Dispose

LoopSpec == LoopInit /\ [][LoopNext]_loopVars

\* The browser goes on calling the frame callbacks of a visible page.
LoopFairStep == Frame

-----------------------------------------------------------------------------
LoopTypeOK ==
    /\ hidden \in BOOLEAN /\ lost \in BOOLEAN /\ paused \in BOOLEAN
    /\ animating \in BOOLEAN /\ callback \in BOOLEAN /\ requested \in Nat
    /\ gap \in -1 .. Long /\ awake \in 0 .. Long /\ dt \in 0 .. MaxStep
    /\ perf \in BOOLEAN /\ parity \in {0, 1} /\ skipped \in Nat
    /\ gone \in BOOLEAN /\ restored \in BOOLEAN
    /\ startedAmid \subseteq {"hidden", "lost"}

\* However tab and context take turns, there is never a second chain of
\* frames, and before dispose there is one exactly when paused is not set
\* (pause, resume, WebGLAnimation).
OneChain ==
    /\ requested <= 1
    /\ ~gone => (requested = 1 <=> ~paused) /\ (callback <=> animating)

\* One flag for two causes never leaves a usable page asleep: a visible page
\* with a context runs its frames, in whatever order the causes came and went.
AwakeWhenUsable == ~hidden /\ ~lost /\ ~gone => requested = 1

\* The other half of sharing the flag: the loop runs in a hidden tab or
\* without a context only if that already held when it was last started.
AsleepOtherwise ==
    ~gone /\ requested = 1 => Troubles(hidden, lost) \subseteq startedAmid

\* A disposed interface stays stopped, unless its context is lost and comes
\* back: that listener outlives dispose.
StaysStopped == gone /\ requested > 0 => restored

\* "never jumps, even after a long pause": a frame accounts for no more time
\* than has passed since the loop was started or ran its last frame.
NoJump == [][dt' # dt => dt' <= awake]_loopVars

\* In performance mode the background is at most one frame old.
BackgroundFresh == skipped <= 1

\* A page that stays usable goes on drawing.
KeepsDrawing ==
    <>[](~hidden /\ ~lost /\ ~gone) => []<>(awake = 0)

\* One loop, which runs while the page can be seen and drawn, and not after it
\* is disposed of: pause, resume and dispose under every order of tab changes
\* and context losses.
LoopInv ==
    /\ LoopTypeOK
    /\ OneChain
    /\ AwakeWhenUsable
    /\ AsleepOtherwise
    /\ StaysStopped
    /\ BackgroundFresh

=============================================================================
