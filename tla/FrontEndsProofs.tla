---------------------------- MODULE FrontEndsProofs ----------------------------
(***************************************************************************)
(* Proofs about the front ends, for every cap of a frame's time and any    *)
(* number of clicks and taps: one chain of frames, awake when the page is  *)
(* usable (StageLoop); a microphone that follows its button (MicToggle);   *)
(* one chain of timeouts whose phrases are whole (OrbTimeline); a stage    *)
(* that shows what its agents were asked to do (Stage).                    *)
(***************************************************************************)
EXTENDS MCFrontEnds, FiniteSetTheorems, SequenceTheorems, TLAPS

\* What the properties rest on: the renderer asks for a frame exactly while it
\* is animating; paused is set only while one of its causes holds; the frame
\* after one without a background draws it.
ChainCounted == requested = (IF animating THEN 1 ELSE 0) /\ (callback <=> animating)
CausePresent == ~gone /\ paused => hidden \/ lost
SkippedEven  == skipped = 1 => parity = 0

LoopIInv == LoopInv /\ ChainCounted /\ CausePresent /\ SkippedEven

\* What pause and resume are to the screen that sees them called.
LEMMA PauseOrResume ==
    ASSUME LoopIInv, Pause \/ Resume
    PROVE  /\ paused' \in BOOLEAN /\ animating' \in BOOLEAN /\ callback' \in BOOLEAN
           /\ requested' \in Nat /\ requested' = (IF animating' THEN 1 ELSE 0)
           /\ callback' <=> animating'
           /\ gap' \in -1 .. Long /\ awake' \in 0 .. Long
           /\ startedAmid' = startedAmid \/ startedAmid' = Troubles(hidden', lost')
<1>1. 0 \in 0 .. Long /\ 0 \in -1 .. Long
  BY LoopAssumption DEF Long
<1>2. CASE UNCHANGED <<paused, renderer, gap, awake, startedAmid>>
  BY <1>2 DEF renderer, LoopIInv, LoopInv, LoopTypeOK, ChainCounted
<1>3. CASE Pause /\ ~paused
  <2>1. /\ paused' = TRUE /\ animating' = FALSE /\ callback' = FALSE /\ requested' = 0
        /\ gap' = gap /\ awake' = awake /\ startedAmid' = startedAmid
    BY <1>3 DEF Pause, StopLoop
  <2>2. gap \in -1 .. Long /\ awake \in 0 .. Long
    BY DEF LoopIInv, LoopInv, LoopTypeOK
  <2>3. paused' \in BOOLEAN /\ animating' \in BOOLEAN /\ callback' \in BOOLEAN
        /\ (callback' <=> animating')
    BY <2>1
  <2>4. requested' \in Nat /\ requested' = (IF animating' THEN 1 ELSE 0)
    BY <2>1
  <2> QED
    BY <2>1, <2>2, <2>3, <2>4
<1>4. CASE Resume /\ paused
  <2>1. /\ paused' = FALSE /\ gap' = 0 /\ animating' = TRUE /\ callback' = TRUE
        /\ requested' = (IF animating THEN requested ELSE requested + 1)
        /\ awake' = (IF animating THEN awake ELSE 0)
        /\ startedAmid' = (IF animating THEN startedAmid ELSE Troubles(hidden', lost'))
    BY <1>4 DEF Resume, StartLoop
  <2>2. animating \in BOOLEAN /\ awake \in 0 .. Long /\ requested = (IF animating THEN 1 ELSE 0)
    BY DEF LoopIInv, LoopInv, LoopTypeOK, ChainCounted
  <2>3. paused' \in BOOLEAN /\ animating' \in BOOLEAN /\ callback' \in BOOLEAN
        /\ (callback' <=> animating')
    BY <2>1
  <2>4. requested' = 1
    BY <2>1, <2>2
  <2>5. awake' \in 0 .. Long /\ gap' \in -1 .. Long
    BY <1>1, <2>1, <2>2
  <2>6. startedAmid' = startedAmid \/ startedAmid' = Troubles(hidden', lost')
    BY <2>1
  <2>7. requested' \in Nat /\ requested' = (IF animating' THEN 1 ELSE 0)
    BY <2>1, <2>4
  <2> QED
    BY <2>3, <2>5, <2>6, <2>7
<1> QED
  BY <1>2, <1>3, <1>4 DEF Pause, Resume

\* A cause of a pause is the tab or the context.
LEMMA TroubleNames == \A h, l \in BOOLEAN : Troubles(h, l) \subseteq {"hidden", "lost"}
BY DEF Troubles

\* Tab and context come and go: whatever the order, the loop is left awake when
\* both causes are gone, and is put to sleep by either.
LEMMA ScreenStep ==
    ASSUME LoopIInv, Visibility \/ ContextLost \/ ContextRestored
    PROVE  LoopIInv'
<1>1. LoopTypeOK' /\ ChainCounted'
  <2>1. hidden' \in BOOLEAN /\ lost' \in BOOLEAN /\ restored' \in BOOLEAN
    BY DEF Visibility, ContextLost, ContextRestored, LoopIInv, LoopInv, LoopTypeOK
  <2>2. UNCHANGED <<perf, parity, gone, dt, skipped>>
    BY DEF Visibility, ContextLost, ContextRestored
  <2>3. CASE Pause \/ Resume
    BY <2>1, <2>2, <2>3, PauseOrResume, TroubleNames DEF LoopTypeOK, ChainCounted, LoopIInv, LoopInv
  <2>4. CASE UNCHANGED <<paused, renderer, gap, awake, startedAmid>>
    BY <2>1, <2>2, <2>4 DEF renderer, LoopTypeOK, ChainCounted, LoopIInv, LoopInv
  <2> QED
    BY <2>3, <2>4 DEF Visibility, ContextLost, ContextRestored
<1>2. OneChain' /\ AwakeWhenUsable' /\ CausePresent'
  <2>1. CASE Visibility
    BY <2>1 DEF Visibility, Pause, Resume, StopLoop, StartLoop, renderer, LoopIInv, LoopInv, LoopTypeOK,
               OneChain, AwakeWhenUsable, CausePresent, ChainCounted
  <2>2. CASE ContextLost
    BY <2>2 DEF ContextLost, Pause, StopLoop, renderer, LoopIInv, LoopInv, LoopTypeOK,
               OneChain, AwakeWhenUsable, CausePresent, ChainCounted
  <2>3. CASE ContextRestored
    BY <2>3 DEF ContextRestored, Resume, StartLoop, renderer, LoopIInv, LoopInv, LoopTypeOK,
               OneChain, AwakeWhenUsable, CausePresent, ChainCounted
  <2> QED
    BY <2>1, <2>2, <2>3
<1>3. AsleepOtherwise'
  <2>1. CASE Visibility
    BY <2>1 DEF Visibility, Pause, Resume, StopLoop, StartLoop, renderer, LoopIInv, LoopInv, LoopTypeOK,
               OneChain, AsleepOtherwise, ChainCounted, Troubles
  <2>2. CASE ContextLost
    BY <2>2 DEF ContextLost, Pause, StopLoop, renderer, LoopIInv, LoopInv, LoopTypeOK,
               OneChain, AsleepOtherwise, ChainCounted, Troubles
  <2>3. CASE ContextRestored
    BY <2>3 DEF ContextRestored, Resume, StartLoop, renderer, LoopIInv, LoopInv, LoopTypeOK,
               OneChain, AsleepOtherwise, ChainCounted, Troubles
  <2> QED
    BY <2>1, <2>2, <2>3
<1>4. StaysStopped'
  <2>1. CASE Visibility
    BY <2>1 DEF Visibility, renderer, LoopIInv, LoopInv, StaysStopped
  <2>2. CASE ContextLost
    BY <2>2 DEF ContextLost, Pause, StopLoop, renderer, LoopIInv, LoopInv, StaysStopped
  <2>3. CASE ContextRestored
    BY <2>3 DEF ContextRestored, LoopIInv, LoopInv, StaysStopped
  <2> QED
    BY <2>1, <2>2, <2>3
<1>5. BackgroundFresh' /\ SkippedEven'
  BY DEF Visibility, ContextLost, ContextRestored, LoopIInv, LoopInv, BackgroundFresh, SkippedEven
<1> QED
  BY <1>1, <1>2, <1>3, <1>4, <1>5 DEF LoopIInv, LoopInv

\* What is said of the chain of frames depends on the screen, the flag and the
\* renderer only.
LEMMA QuietStep ==
    ASSUME LoopIInv,
           UNCHANGED <<hidden, lost, paused, animating, callback, requested, gone, startedAmid, restored>>
    PROVE  /\ (OneChain /\ AwakeWhenUsable /\ AsleepOtherwise /\ StaysStopped)'
           /\ ChainCounted' /\ CausePresent'
<1>1. /\ hidden' = hidden /\ lost' = lost /\ paused' = paused /\ animating' = animating
      /\ callback' = callback /\ requested' = requested /\ gone' = gone
      /\ startedAmid' = startedAmid /\ restored' = restored
  OBVIOUS
<1>2. OneChain' /\ AwakeWhenUsable'
  BY <1>1 DEF LoopIInv, LoopInv, OneChain, AwakeWhenUsable
<1>3. AsleepOtherwise' /\ StaysStopped'
  BY <1>1 DEF LoopIInv, LoopInv, AsleepOtherwise, StaysStopped, Troubles
<1>4. ChainCounted' /\ CausePresent'
  BY <1>1 DEF LoopIInv, ChainCounted, CausePresent
<1> QED
  BY <1>2, <1>3, <1>4

\* A frame may skip the background, and the next may not.
LEMMA FrameStep ==
    ASSUME LoopIInv, Frame
    PROVE  LoopIInv'
<1>1. LoopTypeOK'
  <2>1. MaxStep \in 0 .. MaxStep /\ 0 \in 0 .. MaxStep /\ 0 \in 0 .. Long /\ 0 \in -1 .. Long
    BY LoopAssumption DEF Long
  <2>2. dt' \in 0 .. MaxStep
    BY <2>1, LoopAssumption DEF Frame, LoopIInv, LoopInv, LoopTypeOK, Long
  <2>3. skipped' \in Nat /\ parity' \in {0, 1}
    BY DEF Frame, BackgroundDraw, LoopIInv, LoopInv, LoopTypeOK
  <2> QED
    BY <2>1, <2>2, <2>3 DEF Frame, screen, renderer, LoopIInv, LoopInv, LoopTypeOK
<1>2. BackgroundFresh' /\ SkippedEven'
  BY DEF Frame, BackgroundDraw, LoopIInv, LoopInv, LoopTypeOK, BackgroundFresh, SkippedEven
<1>3. UNCHANGED <<hidden, lost, paused, animating, callback, requested, gone, startedAmid, restored>>
  BY DEF Frame, screen, renderer
<1>4. (OneChain /\ AwakeWhenUsable /\ AsleepOtherwise /\ StaysStopped)'
      /\ ChainCounted' /\ CausePresent'
  BY <1>3, QuietStep
<1> QED
  BY <1>1, <1>2, <1>4 DEF LoopIInv, LoopInv

\* Time and the key for performance mode touch nothing of it; dispose stops.
LEMMA PlainStep ==
    ASSUME LoopIInv, Elapse \/ TogglePerformance \/ Dispose \/ UNCHANGED loopVars
    PROVE  LoopIInv'
<1>1. CASE Elapse
  <2>1. awake' \in 0 .. Long /\ gap' \in -1 .. Long
    BY <1>1, LoopAssumption DEF Elapse, LoopIInv, LoopInv, LoopTypeOK, Long
  <2>2. UNCHANGED <<hidden, lost, paused, animating, callback, requested, perf, parity, gone, dt,
                    startedAmid, restored, skipped>>
    BY <1>1 DEF Elapse, screen, renderer
  <2>3. LoopTypeOK' /\ BackgroundFresh' /\ SkippedEven'
    BY <2>1, <2>2 DEF LoopIInv, LoopInv, LoopTypeOK, BackgroundFresh, SkippedEven
  <2> QED
    BY <2>2, <2>3, QuietStep DEF LoopIInv, LoopInv
<1>2. CASE TogglePerformance
  BY <1>2 DEF TogglePerformance, screen, renderer, LoopIInv, LoopInv, LoopTypeOK, OneChain,
     AwakeWhenUsable, AsleepOtherwise, StaysStopped, BackgroundFresh, ChainCounted,
     CausePresent, SkippedEven
<1>3. CASE Dispose
  <2>1. /\ gone' = TRUE /\ animating' = FALSE /\ callback' = FALSE /\ requested' = 0
        /\ UNCHANGED <<hidden, lost, paused, gap, perf, parity, awake, dt, startedAmid,
                       restored, skipped>>
    BY <1>3 DEF Dispose, StopLoop, screen
  <2>2. gone' \in BOOLEAN /\ animating' \in BOOLEAN /\ callback' \in BOOLEAN
        /\ requested' \in Nat /\ ChainCounted'
    BY <2>1 DEF ChainCounted
  <2>3. LoopTypeOK'
    BY <2>1, <2>2 DEF LoopIInv, LoopInv, LoopTypeOK
  <2>4. (OneChain /\ AwakeWhenUsable /\ AsleepOtherwise /\ StaysStopped)' /\ CausePresent'
    BY <2>1 DEF OneChain, AwakeWhenUsable, AsleepOtherwise, StaysStopped, CausePresent
  <2>5. BackgroundFresh' /\ SkippedEven'
    BY <2>1 DEF LoopIInv, LoopInv, BackgroundFresh, SkippedEven
  <2> QED
    BY <2>2, <2>3, <2>4, <2>5 DEF LoopIInv, LoopInv
<1>4. CASE UNCHANGED loopVars
  BY <1>4 DEF loopVars, LoopIInv, LoopInv, LoopTypeOK, OneChain, AwakeWhenUsable,
     AsleepOtherwise, StaysStopped, BackgroundFresh, ChainCounted, CausePresent, SkippedEven
<1> QED
  BY <1>1, <1>2, <1>3, <1>4

\* However tab, context and dispose take turns (pause, resume, dispose), there
\* is one chain of frames, it runs when the page is visible and has its context,
\* it is put to sleep by either cause, and it stays stopped after dispose unless
\* the context comes back.
THEOREM LoopThm == LoopSpec => []LoopInv
<1>1. LoopInit => LoopIInv
  <2>1. 0 \in 0 .. Long /\ -1 \in -1 .. Long /\ 0 \in 0 .. MaxStep
    BY LoopAssumption DEF Long
  <2> SUFFICES ASSUME LoopInit PROVE LoopIInv
    OBVIOUS
  <2>2. /\ hidden \in BOOLEAN /\ lost \in BOOLEAN /\ paused \in BOOLEAN
        /\ animating \in BOOLEAN /\ callback \in BOOLEAN
    BY Zenon DEF LoopInit
  <2>3. perf \in BOOLEAN /\ gone \in BOOLEAN /\ restored \in BOOLEAN
    BY Zenon DEF LoopInit
  <2>4. /\ requested \in Nat /\ gap \in -1 .. Long /\ awake \in 0 .. Long
        /\ dt \in 0 .. MaxStep /\ parity \in {0, 1} /\ skipped \in Nat
    BY <2>1 DEF LoopInit
  <2>5. startedAmid \subseteq {"hidden", "lost"}
    BY DEF LoopInit, Troubles
  <2>6. OneChain /\ AwakeWhenUsable /\ StaysStopped /\ BackgroundFresh
    BY DEF LoopInit, OneChain, AwakeWhenUsable, StaysStopped, BackgroundFresh
  <2>7. AsleepOtherwise
    BY DEF LoopInit, AsleepOtherwise
  <2>8. ChainCounted /\ CausePresent /\ SkippedEven
    BY DEF LoopInit, ChainCounted, CausePresent, SkippedEven
  <2> QED
    BY <2>2, <2>3, <2>4, <2>5, <2>6, <2>7, <2>8 DEF LoopIInv, LoopInv, LoopTypeOK
<1>2. LoopIInv /\ [LoopNext]_loopVars => LoopIInv'
  BY ScreenStep, FrameStep, PlainStep DEF LoopNext
<1> QED
  BY <1>1, <1>2, PTL DEF LoopSpec, LoopIInv

\* The clock is never ahead of the time the loop has been awake: it is set back
\* when the loop starts, and with every frame.
GapCounted == gap <= awake

\* A frame's time is one the loop was awake (onAnimationFrame, resume): no jump
\* after a pause, however long.
THEOREM NoJumpThm == LoopSpec => NoJump
<1>1. LoopInit => GapCounted
  BY DEF LoopInit, GapCounted
<1>2. LoopInv /\ GapCounted /\ [LoopNext]_loopVars => GapCounted' /\ [dt' # dt => dt' <= awake]_loopVars
  <2> SUFFICES ASSUME LoopInv, GapCounted, [LoopNext]_loopVars
               PROVE  GapCounted' /\ (dt' # dt => dt' <= awake)
    OBVIOUS
  <2>1. gap \in -1 .. Long /\ awake \in 0 .. Long /\ Long = MaxStep + 1 /\ MaxStep \in Nat
    BY LoopAssumption DEF LoopInv, LoopTypeOK, Long
  <2>2. CASE Elapse
    BY <2>1, <2>2 DEF Elapse, GapCounted
  <2>3. CASE Frame
    BY <2>1, <2>3 DEF Frame, GapCounted
  <2>4. CASE TogglePerformance \/ Dispose \/ UNCHANGED loopVars
    BY <2>4 DEF TogglePerformance, Dispose, loopVars, GapCounted
  <2>5. CASE Visibility \/ ContextLost \/ ContextRestored
    <3>1. dt' = dt /\ (Pause \/ Resume \/ UNCHANGED <<gap, awake>>)
      BY <2>5 DEF Visibility, ContextLost, ContextRestored
    <3>2. \/ gap' = gap /\ awake' = awake
          \/ gap' = 0 /\ awake' \in {0, awake}
      BY <3>1 DEF Pause, Resume, StopLoop, StartLoop
    <3> QED
      BY <2>1, <3>1, <3>2 DEF GapCounted
  <2> QED
    BY <2>2, <2>3, <2>4, <2>5 DEF LoopNext
<1> QED
  BY <1>1, <1>2, LoopThm, PTL DEF LoopSpec, NoJump

-----------------------------------------------------------------------------
(* The microphone button. *)

\* Streams and drivers by the attempt they were made in.  While the button is on
\* and its own call has been answered there is one more than the late answers
\* account for, and whoever answered last left nothing but what a handle holds.
Holding == live \cup drivers
Leaked  == (live \ {handle}) \cup (drivers \ {fakeDriver})
InTime  == listening /\ attempts \notin asking

AnsweredOnce ==
    /\ asking \cup live \cup drivers \cup late \subseteq 1 .. attempts
    /\ asking \cap (live \cup drivers \cup late) = {}

HoldingBound ==
    /\ Cardinality(Holding) <= Cardinality(late) + (IF InTime THEN 1 ELSE 0)
    /\ InTime => Holding \ Leaked # {}

\* With no answer late, all there is belongs to the click that is on.
OneClick ==
    listening /\ late = {} => /\ live \subseteq {attempts} \cap {handle}
                              /\ drivers \subseteq {attempts} \cap {fakeDriver}
                              /\ chains \subseteq {attempts} \cap {rafId}

\* The return to idle is pending only while the button is off.
IdleTimed == timers \subseteq {processingTimer} /\ (listening => timers = {})

MicTypes ==
    /\ asking \subseteq Attempt /\ live \subseteq Attempt /\ chains \subseteq Attempt
    /\ drivers \subseteq Attempt /\ timers \subseteq Attempt /\ late \subseteq Attempt
    /\ attempts \in 0 .. MaxAttempts
    /\ handle \in 0 .. MaxAttempts /\ analyser \in 0 .. MaxAttempts /\ rafId \in 0 .. MaxAttempts
    /\ fakeDriver \in 0 .. MaxAttempts /\ processingTimer \in 0 .. MaxAttempts
    /\ cards \in {0, 1}

MicFlags ==
    /\ listening \in BOOLEAN /\ status \in {"idle", "listening", "processing"}
    /\ bright \in BOOLEAN /\ loading \in BOOLEAN

MicIInv ==
    /\ MicTypes /\ MicFlags
    /\ LabelTrue /\ IdleTimed
    /\ MicReleased /\ OneClick
    /\ AnsweredOnce /\ HoldingBound

\* The type invariant in two parts: sets and numbers, and the Booleans.
LEMMA MicTypesOK == MicTypeOK <=> MicTypes /\ MicFlags
BY Zenon DEF MicTypeOK, MicTypes, MicFlags

\* Drivers and late answers are counted.
LEMMA Finite ==
    ASSUME MicIInv
    PROVE  /\ IsFiniteSet(Holding) /\ IsFiniteSet(late)
           /\ Cardinality(Holding) \in Nat /\ Cardinality(late) \in Nat
<1>1. IsFiniteSet(1 .. attempts)
  BY FS_Interval DEF MicIInv, MicTypes
<1>2. Holding \subseteq 1 .. attempts /\ late \subseteq 1 .. attempts
  BY DEF MicIInv, AnsweredOnce, Holding
<1> QED
  BY <1>1, <1>2, FS_Subset, FS_CardinalityType

\* What is leaked is less than what is held, by what the last answer left.
LEMMA LeakedBound ==
    ASSUME MicIInv
    PROVE  IsFiniteSet(Leaked) /\ Cardinality(Leaked) \in Nat /\ Cardinality(Leaked) <= Cardinality(late)
<1>1. Leaked \subseteq Holding
  BY DEF Leaked, Holding
<1>2. IsFiniteSet(Leaked) /\ Cardinality(Leaked) <= Cardinality(Holding)
  BY <1>1, Finite, FS_Subset
<1>3. Cardinality(Leaked) \in Nat
  BY <1>2, FS_CardinalityType
<1>4. CASE ~InTime
  BY <1>2, <1>3, <1>4, Finite DEF MicIInv, HoldingBound
<1>5. CASE InTime
  <2>1. PICK x \in Holding : x \notin Leaked
    BY <1>5 DEF MicIInv, HoldingBound
  <2>2. Cardinality(Holding \ {x}) = Cardinality(Holding) - 1 /\ IsFiniteSet(Holding \ {x})
    BY <2>1, Finite, FS_RemoveElement
  <2>3. Leaked \subseteq Holding \ {x}
    BY <1>1, <2>1
  <2>4. Cardinality(Leaked) <= Cardinality(Holding \ {x})
    BY <2>2, <2>3, FS_Subset
  <2>5. Cardinality(Holding) <= Cardinality(late) + 1
    BY <1>5 DEF MicIInv, HoldingBound
  <2> QED
    BY <1>2, <1>3, <2>2, <2>4, <2>5, Finite
<1> QED
  BY <1>2, <1>3, <1>4, <1>5

\* A step that leaves the attempts' streams and drivers alone.
LEMMA HoldingQuiet ==
    ASSUME MicIInv, UNCHANGED <<asking, live, drivers, late, handle, fakeDriver, attempts, listening>>
    PROVE  AnsweredOnce' /\ HoldingBound'
BY DEF MicIInv, AnsweredOnce, HoldingBound, Holding, Leaked, InTime

\* An answer, granted or refused, in time or late.
LEMMA Answering ==
    ASSUME MicIInv, NEW a \in asking, asking' = asking \ {a}, Holding' = Holding \cup {a},
           late' = IF listening /\ a = attempts THEN late ELSE late \cup {a},
           UNCHANGED <<listening, attempts>>, a \notin Leaked'
    PROVE  HoldingBound'
<1>1. Cardinality(Holding') = Cardinality(Holding) + 1
  <2>1. a \notin Holding
    BY DEF MicIInv, AnsweredOnce, Holding
  <2> QED
    BY <2>1, Finite, FS_AddElement
<1>2. CASE listening /\ a = attempts
  <2>1. InTime' /\ ~InTime
    BY <1>2 DEF InTime
  <2> QED
    BY <1>1, <1>2, <2>1, Finite DEF MicIInv, HoldingBound
<1>3. CASE ~(listening /\ a = attempts)
  <2>1. InTime' <=> InTime
    BY <1>3 DEF InTime
  <2>2. Cardinality(late') = Cardinality(late) + 1
    <3>1. a \notin late /\ late' = late \cup {a}
      BY <1>3 DEF MicIInv, AnsweredOnce
    <3> QED
      BY <3>1, Finite, FS_AddElement
  <2>3. Cardinality(Holding) <= Cardinality(late) + (IF InTime THEN 1 ELSE 0)
    BY DEF MicIInv, HoldingBound
  <2>4. Cardinality(Holding') <= Cardinality(late') + (IF InTime' THEN 1 ELSE 0)
    BY <1>1, <2>1, <2>2, <2>3, Finite
  <2>5. Holding' \ Leaked' # {}
    OBVIOUS
  <2> QED
    BY <2>4, <2>5 DEF HoldingBound
<1> QED
  BY <1>2, <1>3

\* The button starts an attempt, and the timer of the processing message goes.
LEMMA MicStarts ==
    ASSUME MicIInv, StartListening
    PROVE  MicIInv'
<1>1. /\ attempts' = attempts + 1 /\ attempts' \in Attempt /\ asking' = asking \cup {attempts'}
      /\ timers' = timers \ {processingTimer}
      /\ UNCHANGED <<live, handle, analyser, chains, rafId, drivers, fakeDriver, processingTimer, cards, late>>
  BY MicAssumption DEF StartListening, audio, MicIInv, MicTypes, Attempt
<1>2. ~listening /\ listening' = TRUE /\ status' = "listening" /\ bright' = bright /\ loading' = loading
  BY DEF StartListening, audio
<1>3. MicTypes'
  BY <1>1 DEF MicIInv, MicTypes, Attempt
<1>4. MicFlags'
  BY <1>2, Zenon DEF MicIInv, MicFlags
<1>5. LabelTrue' /\ IdleTimed'
  BY <1>1, <1>2 DEF LabelTrue, IdleTimed, MicIInv
<1>6. MicReleased' /\ OneClick'
  BY <1>1, <1>2 DEF MicReleased, OneClick, MicIInv
<1>7. AnsweredOnce'
  <2>1. attempts' \notin 1 .. attempts /\ 1 .. attempts \subseteq 1 .. attempts' /\ attempts' \in 1 .. attempts'
    BY <1>1 DEF MicIInv, MicTypes, Attempt
  <2> QED
    BY <1>1, <2>1 DEF MicIInv, AnsweredOnce
<1>8. HoldingBound'
  <2>1. ~InTime /\ ~InTime' /\ Holding' = Holding
    BY <1>1, <1>2 DEF InTime, Holding
  <2> QED
    BY <1>1, <2>1 DEF MicIInv, HoldingBound
<1> QED
  BY <1>3, <1>4, <1>5, <1>6, <1>7, <1>8 DEF MicIInv

\* stopMicAudio leaves of the streams and drivers those that are leaked.
LEMMA MicStops ==
    ASSUME MicIInv, StopListening
    PROVE  MicIInv'
<1>1. /\ chains' = chains \ {rafId} /\ rafId' = 0
      /\ drivers' = drivers \ {fakeDriver} /\ fakeDriver' = 0
      /\ live' = live \ {handle} /\ handle' = 0 /\ analyser' = 0
      /\ timers' = timers \cup {attempts} /\ processingTimer' = attempts
      /\ UNCHANGED <<attempts, asking, cards, late>>
  BY DEF StopListening, StopMicAudio
<1>2. listening /\ listening' = FALSE /\ status' = "processing" /\ bright' = FALSE /\ loading' = loading
  BY DEF StopListening, StopMicAudio
<1>3. attempts \in Attempt
  <2>1. attempts # 0
    <3>1. CASE asking = {} /\ attempts = 0
      <4>1. InTime /\ Holding = {}
        BY <1>2, <3>1 DEF InTime, Holding, MicIInv, AnsweredOnce
      <4> QED
        BY <4>1 DEF MicIInv, HoldingBound
    <3>2. CASE asking # {}
      BY <3>2 DEF MicIInv, AnsweredOnce, MicTypes
    <3> QED
      BY <3>1, <3>2
  <2> QED
    BY <2>1 DEF MicIInv, MicTypes, Attempt
<1>4. MicTypes'
  BY <1>1, <1>3, MicAssumption DEF MicIInv, MicTypes, Attempt
<1>5. MicFlags'
  BY <1>2, Zenon DEF MicIInv, MicFlags
<1>6. LabelTrue' /\ IdleTimed'
  BY <1>1, <1>2 DEF LabelTrue, IdleTimed, MicIInv
<1>7. MicReleased'
  BY <1>1, <1>2 DEF MicReleased, OneClick, MicIInv
<1>8. OneClick'
  BY <1>2 DEF OneClick
<1>9. AnsweredOnce'
  BY <1>1 DEF MicIInv, AnsweredOnce
<1>10. HoldingBound'
  <2>1. ~InTime' /\ Holding' = Leaked /\ late' = late
    BY <1>1, <1>2 DEF InTime, Holding, Leaked
  <2> QED
    BY <2>1, LeakedBound, Finite DEF HoldingBound
<1> QED
  BY <1>4, <1>5, <1>6, <1>7, <1>8, <1>9, <1>10 DEF MicIInv

\* getUserMedia answers, in time or late.
LEMMA MicAnswers ==
    ASSUME MicIInv, NEW a \in Attempt, Granted(a) \/ Refused(a)
    PROVE  MicIInv'
<1>1. /\ a \in asking /\ asking' = asking \ {a}
      /\ late' = IF listening /\ a = attempts THEN late ELSE late \cup {a}
      /\ UNCHANGED <<attempts, timers, processingTimer, cards>>
  BY DEF Granted, Refused
<1>2. UNCHANGED <<listening, status, loading>> /\ bright' \in BOOLEAN
  BY DEF Granted, Refused, MicIInv, MicFlags
<1>3. \/ /\ live' = live \cup {a} /\ handle' = a /\ analyser' = a /\ chains' = chains \cup {a} /\ rafId' = a
         /\ UNCHANGED <<drivers, fakeDriver>>
      \/ /\ \/ UNCHANGED <<live, handle>>
            \/ live' = live \cup {a} /\ handle' = a
         /\ drivers' = drivers \cup {a} /\ fakeDriver' = a /\ UNCHANGED <<analyser, chains, rafId>>
  BY DEF Granted, Refused
<1>4. a \notin live /\ a \notin drivers /\ a \in 1 .. attempts
  BY <1>1 DEF MicIInv, AnsweredOnce
<1>5. MicTypes'
  <2>1. /\ asking' \subseteq Attempt /\ live' \subseteq Attempt /\ chains' \subseteq Attempt
        /\ drivers' \subseteq Attempt /\ timers' \subseteq Attempt /\ late' \subseteq Attempt
    BY <1>1, <1>3 DEF MicIInv, MicTypes
  <2>2. /\ handle' \in {handle, a} /\ analyser' \in {analyser, a} /\ rafId' \in {rafId, a}
        /\ fakeDriver' \in {fakeDriver, a} /\ processingTimer' = processingTimer
    BY <1>1, <1>3
  <2>3. a \in 0 .. MaxAttempts
    BY DEF Attempt
  <2> QED
    BY <1>1, <2>1, <2>2, <2>3 DEF MicIInv, MicTypes
<1>6. MicFlags'
  BY <1>2, Zenon DEF MicIInv, MicFlags
<1>7. LabelTrue' /\ IdleTimed'
  BY <1>1, <1>2 DEF LabelTrue, IdleTimed, MicIInv
<1>8. late' = {} => late = {} /\ listening /\ a = attempts
  BY <1>1
<1>9. MicReleased'
  BY <1>2, <1>8 DEF MicReleased
<1>10. OneClick'
  BY <1>1, <1>2, <1>3, <1>8 DEF OneClick, MicIInv
<1>11. AnsweredOnce'
  BY <1>1, <1>3, <1>4 DEF MicIInv, AnsweredOnce
<1>12. Holding' = Holding \cup {a} /\ a \notin Leaked'
  BY <1>3, <1>4 DEF Holding, Leaked
<1>13. HoldingBound'
  BY <1>1, <1>2, <1>12, Answering
<1> QED
  BY <1>5, <1>6, <1>7, <1>9, <1>10, <1>11, <1>13 DEF MicIInv

\* The timers and the frames.
LEMMA MicOthers ==
    ASSUME MicIInv, \/ FirstCards \/ MicTimer \/ (\E c \in Attempt : Drive(c) \/ Shimmer(c))
                    \/ UNCHANGED micVars
    PROVE  MicIInv'
<1>1. /\ UNCHANGED <<asking, live, drivers, late, handle, analyser, fakeDriver, attempts, listening, processingTimer>>
      /\ cards' \in {0, 1} /\ timers' \subseteq timers
  BY DEF FirstCards, ShowCards, MicTimer, Processed, Drive, Shimmer, micVars, audio, MicIInv, MicTypes
<1>2. \/ chains' = chains /\ rafId' = rafId /\ bright' = bright
      \/ \E c \in chains : c \in Attempt /\ chains' \subseteq chains /\ rafId' \in {rafId, c}
                           /\ (chains' = chains \ {c} \/ rafId' = c)
      \/ \E d \in drivers : UNCHANGED <<chains, rafId>>
  BY DEF FirstCards, MicTimer, Processed, Drive, Shimmer, micVars, audio
<1>3. status' = status \/ (status' = "idle" /\ ~listening)
  <2>1. timers # {} => ~listening
    BY DEF MicIInv, IdleTimed
  <2>2. CASE MicTimer
    BY <2>1, <2>2 DEF MicTimer, Processed
  <2>3. FirstCards => status' = status
    BY DEF FirstCards
  <2>4. \A c \in Attempt : Drive(c) \/ Shimmer(c) => status' = status
    BY DEF Drive, Shimmer
  <2>5. CASE UNCHANGED micVars
    BY <2>5 DEF micVars
  <2> QED
    BY <2>2, <2>3, <2>4, <2>5, Zenon
<1>4. bright' \in BOOLEAN /\ loading' \in BOOLEAN
  <2>1. bright \in BOOLEAN /\ loading \in BOOLEAN
    BY DEF MicIInv, MicFlags
  <2>2. CASE FirstCards
    BY <2>1, <2>2 DEF FirstCards, audio
  <2>3. CASE MicTimer
    BY <2>1, <2>3 DEF MicTimer, Processed, audio
  <2>4. CASE \E c \in Attempt : Drive(c)
    BY <2>1, <2>4 DEF Drive
  <2>5. CASE \E c \in Attempt : Shimmer(c)
    BY <2>1, <2>5 DEF Shimmer
  <2>6. CASE UNCHANGED micVars
    BY <2>1, <2>6 DEF micVars
  <2> QED
    BY <2>2, <2>3, <2>4, <2>5, <2>6
<1>5. MicTypes'
  <2>1. chains' \subseteq Attempt /\ rafId' \in 0 .. MaxAttempts
    <3>1. chains' \subseteq chains /\ rafId' \in {rafId} \cup chains
      BY <1>2
    <3> QED
      BY <3>1 DEF MicIInv, MicTypes, Attempt
  <2> QED
    BY <1>1, <2>1 DEF MicIInv, MicTypes
<1>6. MicFlags'
  BY <1>1, <1>3, <1>4, Zenon DEF MicIInv, MicFlags
<1>7. LabelTrue' /\ IdleTimed'
  BY <1>1, <1>3 DEF LabelTrue, IdleTimed, MicIInv
<1>8. MicReleased'
  BY <1>1, <1>2 DEF MicReleased, MicIInv
<1>9. OneClick'
  BY <1>1, <1>2 DEF OneClick, MicIInv
<1>10. AnsweredOnce' /\ HoldingBound'
  BY <1>1, HoldingQuiet
<1> QED
  BY <1>5, <1>6, <1>7, <1>8, <1>9, <1>10 DEF MicIInv

\* However fast the button is clicked and whenever getUserMedia answers: the
\* label tells the truth, the microphone is off when the button is, and what the
\* late answers leak is at most one stream or interval each (ui.js).
THEOREM MicThm == MicSpec => []MicInv
<1>1. MicInit => MicIInv
  <2> SUFFICES ASSUME MicInit PROVE MicIInv
    OBVIOUS
  <2>1. MicTypes
    BY MicAssumption DEF MicInit, MicTypes
  <2>4. MicFlags
    BY DEF MicInit, MicFlags
  <2>2. Cardinality(Holding) = 0 /\ Cardinality(late) = 0
    BY FS_EmptySet DEF MicInit, Holding
  <2>3. HoldingBound
    BY <2>2 DEF MicInit, HoldingBound, InTime
  <2> QED
    BY <2>1, <2>3, <2>4 DEF MicInit, MicIInv, LabelTrue, IdleTimed, MicReleased, OneClick, AnsweredOnce
<1>2. MicIInv /\ [MicNext]_micVars => MicIInv'
  BY MicStarts, MicStops, MicAnswers, MicOthers DEF MicNext, MicAnswer
<1>3. MicIInv => MicInv
  BY LeakedBound, MicTypesOK DEF MicIInv, MicInv, LeakBound, Leaked
<1> QED
  BY <1>1, <1>2, <1>3, PTL DEF MicSpec

-----------------------------------------------------------------------------
(* The orb. *)

\* The pending timeout leads on from where the orb is.
ClickLeadsOn ==
    \A c \in clicks : /\ orb = "listening" => c.next = "thinking"
                      /\ orb = "thinking" => c.next = "speaking"
                      /\ orb = "speaking" => c.next = "idle"

\* A wipe that is still pending when a tap is taken is due before the orb
\* thinks, and a phrase is there only while it is spoken or has its wipe coming.
WipedInTime ==
    /\ \A c \in clicks, w \in wipes : orb = "listening" /\ w < c.left
    /\ phrase /\ ~unmounted => orb = "speaking" \/ wipes # {}

\* What is being typed is done before the timeout that ends the speaking.
TypedInTime ==
    \A c \in clicks : orb = "speaking" /\ ~unmounted /\ ~shown => typing # Off /\ typing < c.left

OrbTypes ==
    /\ orb \in {"idle", "listening", "thinking", "speaking"}
    /\ typing \in Off .. Typing
    /\ clicks \subseteq Timeout /\ wipes \subseteq 0 .. Linger
    /\ curtain \in Off .. Curtain
    /\ taps \in 0 .. MaxTaps

OrbFlags ==
    /\ phrase \in BOOLEAN /\ shown \in BOOLEAN
    /\ bar \in {"filling", "full", "off"}
    /\ booted \in BOOLEAN /\ drawing \in BOOLEAN /\ unmounted \in BOOLEAN

OrbIInv ==
    /\ OrbTypes /\ OrbFlags
    /\ OneThread /\ UnmountStops
    /\ ClickLeadsOn /\ WipedInTime /\ TypedInTime

USE DEF Off, Listen, Think, Speak, Linger, Curtain, Typing

\* The type invariant in two parts: sets and numbers, and the Booleans.
LEMMA OrbTypesOK == OrbTypeOK <=> OrbTypes /\ OrbFlags
BY Zenon DEF OrbTypeOK, OrbTypes, OrbFlags

\* A pending timeout has a phase to go to and a time.
LEMMA ClickTypes ==
    ASSUME OrbTypes, NEW c \in clicks
    PROVE  c.next \in {"thinking", "speaking", "idle"} /\ c.left \in 0 .. Speak
BY DEF OrbTypes, Timeout

\* One timeout, with the phase that follows the one shown.
LEMMA ChainOfOne ==
    ASSUME NEW next, NEW left, clicks' = {[next |-> next, left |-> left]}, orb' # "idle",
           /\ orb' = "listening" => next = "thinking"
           /\ orb' = "thinking" => next = "speaking"
           /\ orb' = "speaking" => next = "idle"
    PROVE  OneThread' /\ ClickLeadsOn'
<1> DEFINE c == [next |-> next, left |-> left]
<1>1. \A d \in clicks' : d = c /\ d.next = next
  OBVIOUS
<1>2. OneThread'
  <2>1. clicks' # {} /\ \A d, e \in clicks' : d = e
    BY <1>1
  <2> QED
    BY <2>1 DEF OneThread
<1>3. ClickLeadsOn'
  BY <1>1 DEF ClickLeadsOn
<1> QED
  BY <1>2, <1>3

\* The timers of the boot bar and the canvas are nothing to the interactions.
LEMMA Booting ==
    ASSUME OrbIInv, BarFull \/ Boot
    PROVE  OrbIInv'
<1>1. /\ UNCHANGED <<orb, typing, clicks, wipes, taps>>
      /\ curtain' \in Off .. Curtain
  BY DEF BarFull, Boot
<1>2. UNCHANGED <<phrase, shown, unmounted>>
  BY DEF BarFull, Boot
<1>3. bar' \in {"filling", "full", "off"} /\ booted' \in BOOLEAN /\ drawing' \in BOOLEAN
  BY DEF BarFull, Boot, OrbIInv, OrbFlags
<1>4. unmounted => bar' = bar /\ drawing' = drawing
  BY DEF BarFull, Boot
<1>5. OrbTypes'
  BY <1>1 DEF OrbIInv, OrbTypes
<1>6. OrbFlags'
  BY <1>2, <1>3, Zenon DEF OrbIInv, OrbFlags
<1>7. UnmountStops'
  BY <1>1, <1>2, <1>4 DEF OrbIInv, UnmountStops
<1>8. OneThread' /\ ClickLeadsOn'
  BY <1>1 DEF OrbIInv, OneThread, ClickLeadsOn
<1>9. WipedInTime' /\ TypedInTime'
  BY <1>1, <1>2 DEF OrbIInv, WipedInTime, TypedInTime
<1> QED
  BY <1>5, <1>6, <1>7, <1>8, <1>9 DEF OrbIInv

\* A tap on a page at rest starts a chain.
LEMMA Tapping ==
    ASSUME OrbIInv, HandleInteract
    PROVE  OrbIInv'
<1>1. /\ orb = "idle" /\ orb' = "listening" /\ clicks' = clicks \cup {[next |-> "thinking", left |-> Listen]}
      /\ UNCHANGED <<typing, wipes, curtain>>
  BY DEF HandleInteract
<1>2. UNCHANGED <<phrase, shown, bar, booted, drawing, unmounted>>
  BY DEF HandleInteract
<1>3. clicks' = {[next |-> "thinking", left |-> Listen]}
  BY <1>1 DEF OrbIInv, OneThread
<1>4. taps' \in 0 .. MaxTaps
  BY OrbAssumption DEF HandleInteract, Tap, OrbIInv, OrbTypes
<1>5. OrbTypes'
  BY <1>1, <1>3, <1>4 DEF OrbIInv, OrbTypes, Timeout
<1>6. OrbFlags'
  BY <1>2, Zenon DEF OrbIInv, OrbFlags
<1>7. OneThread' /\ ClickLeadsOn'
  BY <1>1, <1>3, ChainOfOne
<1>8. UnmountStops'
  BY <1>1, <1>2 DEF OrbIInv, UnmountStops
<1>9. WipedInTime'
  <2>1. \A c \in clicks', w \in wipes' : w < c.left
    BY <1>1, <1>3 DEF OrbIInv, OrbTypes
  <2> QED
    BY <1>1, <1>2, <2>1 DEF OrbIInv, WipedInTime
<1>10. TypedInTime'
  BY <1>1 DEF TypedInTime
<1> QED
  BY <1>5, <1>6, <1>7, <1>8, <1>9, <1>10 DEF OrbIInv

\* A timeout of the chain fires; the phrase comes with the speaking, when no
\* wipe is pending any more, and its own wipe when the orb falls idle.
LEMMA Advancing ==
    ASSUME OrbIInv, NEW c \in clicks, Advance(c)
    PROVE  /\ OrbIInv'
           /\ orb # "speaking" /\ orb' = "speaking" /\ ~unmounted => ~phrase /\ wipes = {}
           /\ orb = "speaking" /\ orb' = "idle" /\ ~unmounted => shown
<1>1. clicks \ {c} = {} /\ c.left = 0 /\ orb' = c.next /\ UNCHANGED <<curtain, taps>>
  BY DEF Advance, OrbIInv, OneThread
<1>2. UNCHANGED <<bar, booted, drawing, unmounted>>
  BY DEF Advance
<1>3. wipes = {}
  <2>1. ASSUME NEW w \in wipes PROVE FALSE
    BY <1>1, <2>1 DEF OrbIInv, WipedInTime, OrbTypes
  <2> QED
    BY <2>1
<1>4. /\ c.next \in {"thinking", "speaking", "idle"} /\ orb # "idle"
      /\ orb = "listening" <=> c.next = "thinking"
      /\ orb = "thinking" <=> c.next = "speaking"
      /\ orb = "speaking" <=> c.next = "idle"
  BY ClickTypes DEF OrbIInv, ClickLeadsOn, OneThread, OrbTypes
<1>5. CASE c.next = "thinking"
  <2>1. /\ clicks' = {[next |-> "speaking", left |-> Think]} /\ UNCHANGED <<typing, wipes>>
    BY <1>1, <1>5 DEF Advance
  <2>2. UNCHANGED <<phrase, shown>>
    BY <1>5 DEF Advance
  <2>3. OrbTypes'
    BY <1>1, <1>4, <2>1 DEF OrbIInv, OrbTypes, Timeout
  <2>4. OrbFlags'
    BY <1>2, <2>2, Zenon DEF OrbIInv, OrbFlags
  <2>5. OneThread' /\ ClickLeadsOn'
    BY <1>1, <1>5, <2>1, ChainOfOne
  <2>6. UnmountStops'
    BY <1>2, <2>1 DEF OrbIInv, UnmountStops
  <2>7. WipedInTime'
    BY <1>2, <1>3, <1>4, <1>5, <2>1, <2>2 DEF OrbIInv, WipedInTime
  <2>8. TypedInTime'
    BY <1>1, <1>5 DEF TypedInTime
  <2> QED
    BY <1>1, <1>5, <2>3, <2>4, <2>5, <2>6, <2>7, <2>8 DEF OrbIInv
<1>6. CASE c.next = "speaking"
  <2>1. /\ clicks' = {[next |-> "idle", left |-> Speak]} /\ UNCHANGED wipes
        /\ typing' = IF unmounted THEN typing ELSE Typing
    BY <1>1, <1>6 DEF Advance, PhraseSet
  <2>2. phrase' \in BOOLEAN /\ shown' \in BOOLEAN
    BY <1>6 DEF Advance, PhraseSet, OrbIInv, OrbFlags
  <2>3. OrbTypes'
    BY <1>1, <1>4, <2>1 DEF OrbIInv, OrbTypes, Timeout
  <2>4. OrbFlags'
    BY <1>2, <2>2, Zenon DEF OrbIInv, OrbFlags
  <2>5. OneThread' /\ ClickLeadsOn'
    BY <1>1, <1>6, <2>1, ChainOfOne
  <2>6. UnmountStops'
    BY <1>2, <2>1 DEF OrbIInv, UnmountStops
  <2>7. WipedInTime'
    BY <1>1, <1>3, <1>6, <2>1 DEF WipedInTime
  <2>8. TypedInTime'
    BY <1>2, <2>1 DEF TypedInTime
  <2>9. ~unmounted => ~phrase
    BY <1>3, <1>4, <1>6 DEF OrbIInv, WipedInTime
  <2> QED
    BY <1>1, <1>3, <1>6, <2>3, <2>4, <2>5, <2>6, <2>7, <2>8, <2>9 DEF OrbIInv
<1>7. CASE c.next = "idle"
  <2>1. /\ clicks' = {} /\ wipes' = wipes \cup {Linger} /\ UNCHANGED typing
    BY <1>1, <1>7 DEF Advance
  <2>2. UNCHANGED <<phrase, shown>>
    BY <1>7 DEF Advance
  <2>3. OrbTypes'
    BY <1>1, <1>4, <2>1 DEF OrbIInv, OrbTypes, Timeout
  <2>4. OrbFlags'
    BY <1>2, <2>2, Zenon DEF OrbIInv, OrbFlags
  <2>5. OneThread' /\ ClickLeadsOn'
    BY <1>1, <1>7, <2>1 DEF OneThread, ClickLeadsOn
  <2>6. UnmountStops'
    BY <1>2, <2>1 DEF OrbIInv, UnmountStops
  <2>7. WipedInTime' /\ TypedInTime'
    BY <1>1, <1>7, <2>1 DEF WipedInTime, TypedInTime
  <2>8. ~unmounted => shown
    <3>1. typing < 0 => typing = Off
      BY DEF OrbIInv, OrbTypes
    <3>2. ~(typing < 0) => ~(typing < c.left)
      BY <1>1 DEF OrbIInv, OrbTypes
    <3> QED
      BY <1>4, <1>7, <3>1, <3>2 DEF OrbIInv, TypedInTime
  <2> QED
    BY <1>1, <1>7, <2>3, <2>4, <2>5, <2>6, <2>7, <2>8 DEF OrbIInv
<1> QED
  BY <1>4, <1>5, <1>6, <1>7

\* Timers of the caption, which are none of the chain.
LEMMA WipingAndTyping ==
    ASSUME OrbIInv, Wipe \/ Typed
    PROVE  OrbIInv'
<1>1. UNCHANGED <<orb, clicks, curtain, taps>> /\ wipes' \subseteq wipes /\ typing' \in {typing, Off}
  BY DEF Wipe, Typed
<1>2. UNCHANGED <<bar, booted, drawing, unmounted>> /\ phrase' \in {phrase, FALSE}
      /\ shown' \in {shown, TRUE, FALSE}
  BY DEF Wipe, Typed
<1>3. wipes' = wipes \/ (~unmounted => ~phrase')
  BY DEF Wipe, Typed
<1>4. ~shown' /\ orb = "speaking" /\ ~unmounted /\ clicks # {} => ~shown /\ typing' = typing
  <2>1. CASE Typed
    BY <2>1 DEF Typed
  <2>2. CASE Wipe
    <3>1. wipes # {}
      BY <2>2 DEF Wipe
    <3> QED
      BY <3>1 DEF OrbIInv, WipedInTime
  <2> QED
    BY <2>1, <2>2
<1>5. OrbTypes'
  BY <1>1 DEF OrbIInv, OrbTypes
<1>6. OrbFlags'
  BY <1>2 DEF OrbIInv, OrbFlags
<1>7. OneThread' /\ ClickLeadsOn'
  BY <1>1 DEF OrbIInv, OneThread, ClickLeadsOn
<1>8. UnmountStops'
  BY <1>1, <1>2 DEF OrbIInv, UnmountStops
<1>9. WipedInTime'
  <2>1. \A c \in clicks', w \in wipes' : orb' = "listening" /\ w < c.left
    BY <1>1 DEF OrbIInv, WipedInTime
  <2>2. (phrase' => phrase) /\ (unmounted' <=> unmounted)
    <3>1. Wipe => (phrase' => phrase)
      BY Zenon DEF Wipe
    <3>2. Typed => (phrase' => phrase)
      BY DEF Typed
    <3>3. unmounted' = unmounted
      BY <1>2
    <3> QED
      BY <3>1, <3>2, <3>3
  <2>3. phrase /\ ~unmounted => orb = "speaking" \/ wipes # {}
    BY DEF OrbIInv, WipedInTime
  <2>4. phrase' /\ ~unmounted' => orb' = "speaking" \/ wipes' # {}
    <3>1. CASE wipes' = wipes
      BY <1>1, <2>2, <2>3, <3>1
    <3>2. CASE ~unmounted => ~phrase'
      BY <2>2, <3>2
    <3> QED
      BY <1>3, <3>1, <3>2
  <2> QED
    BY <2>1, <2>4 DEF WipedInTime
<1>10. TypedInTime'
  BY <1>1, <1>2, <1>4 DEF OrbIInv, TypedInTime
<1> QED
  BY <1>5, <1>6, <1>7, <1>8, <1>9, <1>10 DEF OrbIInv

\* Time passes for all timers alike.
LEMMA Passing ==
    ASSUME OrbIInv, Pass
    PROVE  OrbIInv'
<1>1. /\ UNCHANGED <<orb, taps>> /\ wipes' = {w - 1 : w \in wipes} /\ 0 \notin wipes
      /\ clicks' = {[d EXCEPT !.left = @ - 1] : d \in clicks} /\ \A d \in clicks : d.left # 0
      /\ typing' = IF typing = Off THEN Off ELSE typing - 1 
      /\ curtain' = IF curtain = Off THEN Off ELSE curtain - 1
      /\ typing # 0 /\ curtain # 0
  BY DEF Pass, Later, Due
<1>2. UNCHANGED <<phrase, shown, bar, booted, drawing, unmounted>>
  BY DEF Pass
<1>3. \A e \in clicks' : \E d \in clicks : /\ e = [d EXCEPT !.left = @ - 1]
                                           /\ e.left = d.left - 1 /\ e.next = d.next /\ e \in Timeout
  <2> TAKE e \in clicks'
  <2>1. PICK d \in clicks : e = [d EXCEPT !.left = @ - 1]
    BY <1>1
  <2>2. d \in Timeout /\ d.left # 0
    BY <1>1 DEF OrbIInv, OrbTypes
  <2> QED
    BY <2>1, <2>2 DEF Timeout
<1>4. \A v \in wipes' : \E w \in wipes : v = w - 1 /\ v \in 0 .. Linger
  BY <1>1 DEF OrbIInv, OrbTypes
<1>5. OrbTypes'
  BY <1>1, <1>3, <1>4 DEF OrbIInv, OrbTypes
<1>6. OrbFlags'
  BY <1>2, Zenon DEF OrbIInv, OrbFlags
<1>7. OneThread'
  BY <1>1 DEF OrbIInv, OneThread
<1>8. ClickLeadsOn'
  BY <1>1, <1>3 DEF OrbIInv, ClickLeadsOn
<1>9. UnmountStops'
  BY <1>1, <1>2 DEF OrbIInv, UnmountStops
<1>10. WipedInTime'
  <2>1. \A e \in clicks', v \in wipes' : orb = "listening" /\ v < e.left
    <3> TAKE e \in clicks', v \in wipes'
    <3>1. PICK d \in clicks : e.left = d.left - 1
      BY <1>3
    <3>2. PICK w \in wipes : v = w - 1
      BY <1>4
    <3>3. orb = "listening" /\ w < d.left /\ w \in Int /\ d.left \in Int
      BY ClickTypes DEF OrbIInv, WipedInTime, OrbTypes
    <3> QED
      BY <3>1, <3>2, <3>3
  <2>2. wipes # {} => wipes' # {}
    BY <1>1
  <2> QED
    BY <1>1, <1>2, <2>1, <2>2 DEF OrbIInv, WipedInTime
<1>11. TypedInTime'
  <2> SUFFICES ASSUME NEW e \in clicks', orb = "speaking", ~unmounted, ~shown
               PROVE  typing' # Off /\ typing' < e.left
    BY <1>1, <1>2 DEF TypedInTime
  <2>1. PICK d \in clicks : e.left = d.left - 1
    BY <1>3
  <2>2. typing # Off /\ typing < d.left
    BY DEF OrbIInv, TypedInTime
  <2> QED
    BY <1>1, <2>1, <2>2, ClickTypes DEF OrbIInv, OrbTypes
<1> QED
  BY <1>5, <1>6, <1>7, <1>8, <1>9, <1>10, <1>11 DEF OrbIInv

\* The page goes, and its interval with it.
LEMMA Unmounting ==
    ASSUME OrbIInv, Unmount \/ UNCHANGED orbVars
    PROVE  OrbIInv'
<1>1. CASE Unmount
  <2>1. UNCHANGED <<orb, clicks, wipes, curtain, taps>> /\ typing' = Off
    BY <1>1 DEF Unmount
  <2>2. UNCHANGED <<phrase, shown, booted>> /\ unmounted' = TRUE /\ bar' = "off" /\ drawing' = FALSE
    BY <1>1 DEF Unmount
  <2>3. OrbTypes'
    BY <2>1 DEF OrbIInv, OrbTypes
  <2>4. OrbFlags'
    BY <2>2 DEF OrbIInv, OrbFlags
  <2>5. OneThread' /\ ClickLeadsOn'
    BY <2>1 DEF OrbIInv, OneThread, ClickLeadsOn
  <2>6. UnmountStops'
    BY <2>1, <2>2 DEF UnmountStops
  <2>7. WipedInTime' /\ TypedInTime'
    BY <2>1, <2>2 DEF OrbIInv, WipedInTime, TypedInTime
  <2> QED
    BY <2>3, <2>4, <2>5, <2>6, <2>7 DEF OrbIInv
<1>2. CASE UNCHANGED orbVars
  BY <1>2 DEF orbVars, OrbIInv, OrbTypes, OrbFlags, OneThread, UnmountStops, ClickLeadsOn,
              WipedInTime, TypedInTime
<1> QED
  BY <1>1, <1>2

-----------------------------------------------------------------------------
\* The invariant behind the properties of the orb: where the chain of timeouts
\* stands, and which timer comes before which.
THEOREM OrbIInvThm == OrbSpec => []OrbIInv
<1>1. OrbInit => OrbIInv
  <2> SUFFICES ASSUME OrbInit PROVE OrbIInv
    OBVIOUS
  <2>1. OrbTypes
    BY OrbAssumption DEF OrbInit, OrbTypes
  <2>2. OrbFlags
    BY DEF OrbInit, OrbFlags
  <2> QED
    BY <2>1, <2>2 DEF OrbInit, OrbIInv, OneThread, UnmountStops, ClickLeadsOn, WipedInTime, TypedInTime
<1>2. OrbIInv /\ [OrbNext]_orbVars => OrbIInv'
  BY Booting, Tapping, Advancing, WipingAndTyping, Passing, Unmounting DEF OrbNext, Fire
<1> QED
  BY <1>1, <1>2, PTL DEF OrbSpec

\* The orb has one chain of timeouts while it is busy and none while it is idle,
\* and no interval or frame outlives the component (DonaldOrb.tsx).
THEOREM OrbThm == OrbSpec => []OrbInv
<1>1. OrbIInv => OrbInv
  BY OrbTypesOK DEF OrbIInv, OrbInv
<1> QED
  BY <1>1, OrbIInvThm, PTL

\* Whatever the taps, the phrase of one interaction is wiped before the next is
\* spoken.
THEOREM SpeaksFromSilenceThm == OrbSpec => SpeaksFromSilence
<1>1. ASSUME OrbIInv, [OrbNext]_orbVars
      PROVE  [orb # "speaking" /\ orb' = "speaking" /\ ~unmounted => ~phrase /\ wipes = {}]_orbVars
  <2>1. ASSUME NEW c \in clicks, Advance(c)
        PROVE  orb # "speaking" /\ orb' = "speaking" /\ ~unmounted => ~phrase /\ wipes = {}
    BY <1>1, <2>1, Advancing
  <2>2. BarFull \/ Boot \/ HandleInteract \/ Wipe \/ Typed \/ Pass \/ Unmount
           => orb' \in {orb, "listening"}
    BY DEF BarFull, Boot, HandleInteract, Wipe, Typed, Pass, Unmount
  <2> QED
    BY <1>1, <2>1, <2>2 DEF OrbNext, Fire
<1> QED
  BY <1>1, OrbIInvThm, PTL DEF OrbSpec, SpeaksFromSilence

\* A phrase has been typed to its end when the orb falls silent.
THEOREM SpokenInFullThm == OrbSpec => SpokenInFull
<1>1. ASSUME OrbIInv, [OrbNext]_orbVars
      PROVE  [orb = "speaking" /\ orb' = "idle" /\ ~unmounted => shown]_orbVars
  <2>1. ASSUME NEW c \in clicks, Advance(c)
        PROVE  orb = "speaking" /\ orb' = "idle" /\ ~unmounted => shown
    BY <1>1, <2>1, Advancing
  <2>2. BarFull \/ Boot \/ HandleInteract \/ Wipe \/ Typed \/ Pass \/ Unmount
           => orb' \in {orb, "listening"}
    BY DEF BarFull, Boot, HandleInteract, Wipe, Typed, Pass, Unmount
  <2> QED
    BY <1>1, <2>1, <2>2 DEF OrbNext, Fire
<1> QED
  BY <1>1, OrbIInvThm, PTL DEF OrbSpec, SpokenInFull
-----------------------------------------------------------------------------
(* The stage. *)

\* The places up to i: their number is the rank of i.
UpTo(is, i) == {j \in is : j <= i}

\* Every place has its rank, and every rank its place.
LEMMA Ranks ==
    ASSUME NEW N \in Nat, NEW is \in SUBSET (1 .. N)
    PROVE  /\ IsFiniteSet(is) /\ Cardinality(is) \in Nat
           /\ \A n \in 1 .. Cardinality(is) : \E i \in is : Cardinality(UpTo(is, i)) = n
<1>1. IsFiniteSet(is) /\ Cardinality(is) \in Nat
  <2>1. IsFiniteSet(1 .. N)
    BY FS_Interval
  <2> QED
    BY <2>1, FS_Subset, FS_CardinalityType
<1>2. PICK c \in Nat : c = Cardinality(is)
  BY <1>1
<1>3. \A i \in is : /\ IsFiniteSet(UpTo(is, i)) /\ Cardinality(UpTo(is, i)) \in 1 .. c
  <2> SUFFICES ASSUME NEW i \in is
               PROVE  IsFiniteSet(UpTo(is, i)) /\ Cardinality(UpTo(is, i)) \in 1 .. c
    OBVIOUS
  <2>1. UpTo(is, i) \in SUBSET is /\ i \in UpTo(is, i)
    BY DEF UpTo
  <2>2. IsFiniteSet(UpTo(is, i)) /\ Cardinality(UpTo(is, i)) <= c
    BY <1>1, <1>2, <2>1, FS_Subset
  <2>3. PICK b \in Nat : b = Cardinality(UpTo(is, i))
    BY <2>2, FS_CardinalityType
  <2>4. b # 0
    BY <2>1, <2>2, <2>3, FS_EmptySet
  <2> QED
    BY <2>2, <2>3, <2>4
<1>4. ASSUME NEW i \in is, NEW j \in is, i < j
      PROVE  Cardinality(UpTo(is, i)) # Cardinality(UpTo(is, j))
  <2>0. /\ i \in Nat /\ j \in Nat
        /\ \A h \in is : h \in Nat
    OBVIOUS
  <2>1. UpTo(is, i) \in SUBSET UpTo(is, j)
    <3>1. \A h \in is : h <= i => h <= j
      BY <1>4, <2>0
    <3> QED
      BY <3>1 DEF UpTo
  <2>2. j \in UpTo(is, j) /\ j \notin UpTo(is, i)
    BY <1>4, <2>0 DEF UpTo
  <2>3. PICK A, B : A = UpTo(is, i) /\ B = UpTo(is, j)
    OBVIOUS
  <2>4. A \in SUBSET B /\ A # B /\ IsFiniteSet(B)
    BY <1>3, <2>1, <2>2, <2>3
  <2>5. Cardinality(B) # Cardinality(A)
    BY <2>4, FS_Subset
  <2> QED
    BY <2>3, <2>5
<1>5. PICK r : r = [i \in is |-> Cardinality(UpTo(is, i))]
  OBVIOUS
<1>6. r \in [is -> 1 .. c]
  BY <1>3, <1>5
<1>7. \A i, j \in is : r[i] = r[j] => i = j
  <2> SUFFICES ASSUME NEW i \in is, NEW j \in is, i # j PROVE r[i] # r[j]
    OBVIOUS
  <2>1. i \in Nat /\ j \in Nat
    OBVIOUS
  <2>2. i < j \/ j < i
    BY <2>1
  <2> QED
    BY <1>4, <1>5, <2>2
<1>8. r \in Injection(is, 1 .. c)
  BY <1>6, <1>7 DEF Injection, IsInjective
<1>9. IsFiniteSet(1 .. c) /\ Cardinality(1 .. c) = c
  BY FS_Interval
<1>10. r \in Surjection(is, 1 .. c)
  BY <1>2, <1>8, <1>9, FS_Injection
<1>11. \A n \in 1 .. c : \E i \in is : r[i] = n
  BY <1>10 DEF Surjection
<1> QED
  BY <1>1, <1>2, <1>5, <1>11

\* What is left of a sequence: every place chosen once.
LEMMA LeftOf ==
    ASSUME NEW S, NEW s \in Seq(S), NEW is \in SUBSET (DOMAIN s)
    PROVE  /\ Left(s, is) \in Seq(S) /\ Len(Left(s, is)) = Cardinality(is)
           /\ IsFiniteSet(is) /\ Cardinality(is) \in Nat
           /\ \E f \in [1 .. Cardinality(is) -> is] :
                 /\ \A n \in 1 .. Cardinality(is) : Left(s, is)[n] = s[f[n]]
                 /\ \A i \in is : \E n \in 1 .. Cardinality(is) : f[n] = i
                 /\ \A m, n \in 1 .. Cardinality(is) : f[m] = f[n] => m = n
<1>1. PICK N \in Nat : N = Len(s) /\ DOMAIN s = 1 .. N
  BY LenProperties
<1>2. /\ IsFiniteSet(is) /\ Cardinality(is) \in Nat
      /\ \A n \in 1 .. Cardinality(is) : \E i \in is : Cardinality(UpTo(is, i)) = n
  BY <1>1, Ranks
<1> DEFINE c == Cardinality(is)
<1>3. c \in Nat /\ c = Cardinality(is)
  BY <1>2
<1> HIDE DEF c
<1>4. PICK f : f = [n \in 1 .. c |-> CHOOSE i \in is : Cardinality(UpTo(is, i)) = n]
  OBVIOUS
<1>5. \A n \in 1 .. c : f[n] \in is /\ Cardinality(UpTo(is, f[n])) = n
  <2> SUFFICES ASSUME NEW n \in 1 .. c PROVE f[n] \in is /\ Cardinality(UpTo(is, f[n])) = n
    OBVIOUS
  <2>1. f[n] = CHOOSE i \in is : Cardinality(UpTo(is, i)) = n
    BY <1>4
  <2>2. \E i \in is : Cardinality(UpTo(is, i)) = n
    BY <1>2, <1>3
  <2> QED
    BY <2>1, <2>2, Zenon
<1>6. f \in [1 .. c -> is] /\ \A m, n \in 1 .. c : f[m] = f[n] => m = n
  <2>1. f \in [1 .. c -> is]
    BY <1>4, <1>5
  <2> QED
    BY <1>5, <2>1
<1>7. IsFiniteSet(1 .. c) /\ Cardinality(1 .. c) = c
  BY <1>3, FS_Interval
<1>8. f \in Injection(1 .. c, is)
  BY <1>6 DEF Injection, IsInjective
<1>9. f \in Surjection(1 .. c, is)
  BY <1>2, <1>3, <1>7, <1>8, FS_Injection
<1>10. \A i \in is : \E n \in 1 .. c : f[n] = i
  BY <1>9 DEF Surjection
<1>11. PICK q : q = Left(s, is)
  OBVIOUS
<1>12. q = [n \in 1 .. c |-> s[f[n]]]
  <2>1. \A n \in 1 .. c : f[n] = CHOOSE i \in is : Cardinality({j \in is : j <= i}) = n
    BY <1>4 DEF UpTo
  <2>2. Left(s, is) = [n \in 1 .. c |-> s[CHOOSE i \in is : Cardinality({j \in is : j <= i}) = n]]
    BY <1>3, Zenon DEF Left
  <2> QED
    BY <1>11, <2>1, <2>2
<1>13. \A i \in is : s[i] \in S
  BY <1>1, ElementOfSeq
<1>14. q \in [1 .. c -> S]
  BY <1>6, <1>12, <1>13
<1>15. q \in Seq(S)
  BY <1>3, <1>14, SeqDef
<1>16. Len(q) = c
  BY <1>3, <1>14, <1>15, LenProperties
<1>17. \A n \in 1 .. c : q[n] = s[f[n]]
  BY <1>12
<1>18. \E g \in [1 .. c -> is] : /\ \A n \in 1 .. c : q[n] = s[g[n]]
                                 /\ \A i \in is : \E n \in 1 .. c : g[n] = i
                                 /\ \A m, n \in 1 .. c : g[m] = g[n] => m = n
  BY <1>6, <1>10, <1>17, Zenon
<1> QED
  BY <1>2, <1>11, <1>15, <1>16, <1>18, Zenon DEF c

\* The first of some places.
LEMMA First ==
    ASSUME NEW N \in Nat, NEW is \in SUBSET (1 .. N), is # {}
    PROVE  \E k \in is : \A j \in is : k <= j
<1>1. IsFiniteSet(is) /\ Cardinality(is) \in Nat /\ Cardinality(is) # 0
  BY Ranks, FS_EmptySet
<1>2. PICK k \in is : Cardinality(UpTo(is, k)) = 1
  <2>1. 1 \in 1 .. Cardinality(is)
    BY <1>1
  <2> QED
    BY <2>1, Ranks
<1>3. IsFiniteSet(UpTo(is, k)) /\ k \in UpTo(is, k)
  <2>1. UpTo(is, k) \in SUBSET is /\ k \in UpTo(is, k)
    BY DEF UpTo
  <2> QED
    BY <1>1, <2>1, FS_Subset
<1>4. UpTo(is, k) = {k}
  <2>1. PICK u : u = UpTo(is, k)
    OBVIOUS
  <2>2. \E x : u = {x}
    BY <1>2, <1>3, <2>1, FS_Singleton
  <2> QED
    BY <1>3, <2>1, <2>2
<1>5. ASSUME NEW j \in is PROVE k <= j
  <2>1. CASE j <= k
    <3>1. j \in UpTo(is, k)
      BY <2>1 DEF UpTo
    <3> QED
      BY <1>4, <3>1
  <2>2. CASE ~(j <= k)
    BY <2>2
  <2> QED
    BY <2>1, <2>2
<1> QED
  BY <1>5

-----------------------------------------------------------------------------
NodeType == [agent : AnAgent, target : {0, 1}, flare : BOOLEAN, dock : DockState]
BeamType == [node : 1 .. Len(nodes), age : 0 .. BeamLife - 1, pinged : BOOLEAN]
PingType == [age : 0 .. PulsePing, dur : 1 .. PulsePing, faint : BOOLEAN]

StageTypes ==
    /\ mood \in {"idle", "listening", "processing", "speaking"}
    /\ pulseTimer \in 0 .. PulseEvery
    /\ nodes \in Seq(NodeType)
    /\ byId \in [AnAgent -> 0 .. Len(nodes)]
    /\ \A a \in AnAgent : byId[a] # 0 => nodes[byId[a]].agent = a
    /\ panels \subseteq Cast
    /\ beams \in Seq(BeamType)
    /\ pings \in Seq(PingType)
    /\ socket \in {"none", "open", "closed", "failed"}
    /\ demo \in [running : BOOLEAN, i : 0 .. Len(Script), timer : 0 .. 7]
    /\ sent \in 0 .. MaxMessages
    /\ asked \subseteq AnAgent /\ leftover \subseteq AnAgent

\* A beam has pinged its agent once it is past its peak.  A ping for an agent or
\* the orb is gone after the next frame; the pulse's lasts until just before the
\* timer brings the next one.
Beats ==
    /\ \A k \in DOMAIN beams : beams[k].pinged <=> beams[k].age >= 2
    /\ \A j \in DOMAIN pings :
          /\ pings[j].age < pings[j].dur
          /\ IF pings[j].faint THEN pings[j].dur = PulsePing /\ pings[j].age + pulseTimer >= 5
             ELSE pings[j].age + 1 >= pings[j].dur

\* Whom step i of the demo has at work.
AtWork(i) == CASE i = 2 -> {"scout"} [] i = 3 -> {"forge"} [] i \in {5, 6} -> {"aegis"} [] OTHER -> {}

\* Whoever works while the demo runs was left working, or is told to by it.
DemoWorks ==
    /\ demo.running <=> socket \in {"none", "failed"}
    /\ ~demo.running => demo.i = 0
    /\ demo.i # 0 => mood = Script[demo.i].mood
    /\ demo.running =>
          \A i \in DOMAIN nodes : nodes[i].target = 1 =>
             \/ nodes[i].agent \in leftover
             \/ nodes[i].agent \in AtWork(demo.i) /\ byId[nodes[i].agent] = i

StageIInv ==
    /\ StageTypes
    /\ FlareHasBeam
    /\ Beats /\ PingsBounded
    /\ DockFollowsWork /\ GlowAsAsked
    /\ DemoWorks

-----------------------------------------------------------------------------
\* A node that is told to work, or to stop.
LEMMA ToldNode ==
    ASSUME NEW n \in NodeType, NEW t \in {0, 1}
    PROVE  LET m == [n EXCEPT !.target = t]
           IN  /\ m \in NodeType /\ m.target = t /\ m.agent = n.agent /\ m.flare = n.flare /\ m.dock = n.dock
               /\ Dock(m) \in NodeType /\ Dock(m).target = t /\ Dock(m).agent = n.agent /\ Dock(m).flare = n.flare
               /\ Undock(m) \in NodeType /\ Undock(m).target = t /\ Undock(m).agent = n.agent
               /\ Undock(m).flare = n.flare /\ ~Undock(m).dock.active
<1> DEFINE m == [n EXCEPT !.target = t]
<1>1. /\ m \in NodeType /\ m.target = t /\ m.agent = n.agent /\ m.flare = n.flare /\ m.dock = n.dock
  BY DEF NodeType
<1> HIDE DEF m
<1>2. m.dock \in DockState
  BY <1>1 DEF NodeType
<1>3. PICK d \in DockState, e \in DockState :
         /\ d = [there |-> TRUE, active |-> TRUE, amount |-> m.dock.amount]
         /\ e = [m.dock EXCEPT !.active = FALSE] /\ ~e.active
  <2>1. PICK k \in DockState : k = m.dock
    BY <1>2
  <2>2. k.amount \in 0 .. DockFrames
    BY DEF DockState
  <2>3. [there |-> TRUE, active |-> TRUE, amount |-> k.amount] \in DockState
    BY <2>2 DEF DockState
  <2>4. [k EXCEPT !.active = FALSE] \in DockState /\ ~[k EXCEPT !.active = FALSE].active
    BY DEF DockState
  <2> QED
    BY <2>1, <2>3, <2>4
<1>4. Dock(m) = [m EXCEPT !.dock = d] /\ Undock(m) = [m EXCEPT !.dock = e]
  <2>1. Dock(m) = [m EXCEPT !.dock = d]
    BY <1>3, Zenon DEF Dock
  <2>2. Undock(m) = [m EXCEPT !.dock = e]
    BY <1>3, Zenon DEF Undock
  <2> QED
    BY <2>1, <2>2
<1>5. Dock(m) \in NodeType /\ Dock(m).target = m.target /\ Dock(m).agent = m.agent /\ Dock(m).flare = m.flare
  BY <1>1, <1>4 DEF NodeType
<1>6. /\ Undock(m) \in NodeType /\ Undock(m).target = m.target /\ Undock(m).agent = m.agent
      /\ Undock(m).flare = m.flare /\ Undock(m).dock = e
  BY <1>1, <1>4 DEF NodeType
<1> QED
  BY <1>1, <1>3, <1>5, <1>6 DEF m

\* setWorking: the node the id names glows as told, and is not held unless it does.
LEMMA WorkingOf ==
    ASSUME NEW ns \in Seq(NodeType), NEW a \in AnAgent, NEW on \in BOOLEAN
    PROVE  LET w == Working(ns, a, on)
           IN  /\ w \in Seq(NodeType) /\ Len(w) = Len(ns)
               /\ \A i \in 1 .. Len(ns) :
                     /\ w[i].agent = ns[i].agent /\ w[i].flare = ns[i].flare
                     /\ i # byId[a] => w[i] = ns[i]
                     /\ i = byId[a] => /\ w[i].target = (IF on THEN 1 ELSE 0)
                                       /\ w[i].dock.active => on
<1>1. PICK N \in Nat : N = Len(ns) /\ DOMAIN ns = 1 .. N
  BY LenProperties
<1>2. PICK t \in {0, 1} : t = IF on THEN 1 ELSE 0
  OBVIOUS
<1>3. PICK w : w = Working(ns, a, on)
  OBVIOUS
<1>4. ASSUME NEW i \in 1 .. N
      PROVE  /\ w[i] \in NodeType
             /\ w[i].agent = ns[i].agent /\ w[i].flare = ns[i].flare
             /\ i # byId[a] => w[i] = ns[i]
             /\ i = byId[a] => w[i].target = t /\ (w[i].dock.active => on)
  <2>1. PICK n \in NodeType : n = ns[i]
    BY <1>1, ElementOfSeq
  <2>2. PICK m : m = [n EXCEPT !.target = t]
    OBVIOUS
  <2>3. w[i] = IF i # byId[a] THEN n
               ELSE CASE on /\ a \in panels -> Dock(m) [] ~on -> Undock(m) [] OTHER -> m
    BY <1>1, <1>2, <1>3, <2>1, <2>2 DEF Working
  <2>4. /\ m \in NodeType /\ m.target = t /\ m.agent = n.agent /\ m.flare = n.flare /\ m.dock = n.dock
        /\ Dock(m) \in NodeType /\ Dock(m).target = t /\ Dock(m).agent = n.agent /\ Dock(m).flare = n.flare
        /\ Undock(m) \in NodeType /\ Undock(m).target = t /\ Undock(m).agent = n.agent
        /\ Undock(m).flare = n.flare /\ ~Undock(m).dock.active
    BY <2>2, ToldNode
  <2>5. CASE i # byId[a]
    BY <2>1, <2>3, <2>5
  <2>6. CASE i = byId[a] /\ on /\ a \in panels
    <3>1. w[i] = Dock(m)
      BY <2>3, <2>6
    <3> QED
      BY <2>1, <2>4, <2>6, <3>1
  <2>7. CASE i = byId[a] /\ ~on
    <3>1. w[i] = Undock(m)
      BY <2>3, <2>7
    <3> QED
      BY <2>1, <2>4, <2>7, <3>1
  <2>8. CASE i = byId[a] /\ on /\ a \notin panels
    <3>1. w[i] = m
      BY <2>3, <2>8
    <3> QED
      BY <2>1, <2>4, <2>8, <3>1
  <2> QED
    BY <2>5, <2>6, <2>7, <2>8
<1>5. DOMAIN w = 1 .. N
  BY <1>1, <1>3 DEF Working
<1>6. w \in [1 .. N -> NodeType]
  <2>1. w = [i \in 1 .. N |-> w[i]]
    BY <1>1, <1>3 DEF Working
  <2> QED
    BY <1>4, <2>1
<1>7. w \in Seq(NodeType)
  BY <1>6, SeqDef
<1>8. Len(w) = N
  BY <1>6, <1>7, LenProperties
<1> QED
  BY <1>1, <1>2, <1>3, <1>4, <1>7, <1>8
-----------------------------------------------------------------------------
(* One pass of the frame. *)

AgedType == [node : 1 .. Len(nodes), age : 1 .. BeamLife, pinged : BOOLEAN]

\* Every beam is a frame older.
LEMMA AgedBeams ==
    ASSUME StageTypes, Beats
    PROVE  /\ Len(beams) \in Nat /\ DOMAIN Aged = 1 .. Len(beams)
           /\ \A k \in 1 .. Len(beams) :
                 /\ Aged[k] \in AgedType /\ Aged[k].node = beams[k].node
                 /\ AtPeak(Aged[k]) <=> Aged[k].age = 2
                 /\ Aged[k].pinged <=> Aged[k].age >= 3
<1>1. Len(beams) \in Nat /\ DOMAIN beams = 1 .. Len(beams)
  BY LenProperties DEF StageTypes
<1>2. DOMAIN Aged = 1 .. Len(beams)
  BY <1>1 DEF Aged
<1>3. ASSUME NEW k \in 1 .. Len(beams)
      PROVE  /\ Aged[k] \in AgedType /\ Aged[k].node = beams[k].node
             /\ AtPeak(Aged[k]) <=> Aged[k].age = 2
             /\ Aged[k].pinged <=> Aged[k].age >= 3
  <2>1. PICK b \in BeamType : b = beams[k]
    BY <1>1, ElementOfSeq DEF StageTypes
  <2>2. PICK g : g = [b EXCEPT !.age = @ + 1]
    OBVIOUS
  <2>3. Aged[k] = g
    BY <1>1, <2>1, <2>2 DEF Aged
  <2>4. b.age \in 0 .. 3 /\ b.node \in 1 .. Len(nodes) /\ b.pinged \in BOOLEAN
    BY DEF BeamType, BeamLife
  <2>5. g.age = b.age + 1 /\ g.node = b.node /\ g.pinged = b.pinged /\ g = [node |-> b.node, age |-> b.age + 1, pinged |-> b.pinged]
    BY <2>2 DEF BeamType
  <2>6. b.age + 1 \in 1 .. 4 /\ (b.age >= 2 <=> b.age + 1 >= 3) /\ (~(b.age >= 2) /\ 2 * (b.age + 1) >= 4 <=> b.age + 1 = 2)
    BY <2>4
  <2>7. b.pinged <=> b.age >= 2
    BY <1>1, <2>1 DEF Beats
  <2>8. g \in AgedType
    BY <2>4, <2>5, <2>6 DEF AgedType, BeamLife
  <2>9. AtPeak(g) <=> g.age = 2
    <3>1. AtPeak(g) <=> ~g.pinged /\ 2 * g.age >= 4
      BY DEF AtPeak, BeamLife
    <3>2. g.pinged <=> b.age >= 2
      BY <2>5, <2>7
    <3> QED
      BY <2>5, <2>6, <3>1, <3>2
  <2>10. g.pinged <=> g.age >= 3
    BY <2>5, <2>6, <2>7
  <2> QED
    BY <2>1, <2>3, <2>5, <2>8, <2>9, <2>10
<1> QED
  BY <1>1, <1>2, <1>3

\* The beams that are not over are left, and at least as many as are at their peak.
LEMMA BeamsPass ==
    ASSUME StageTypes, Beats
    PROVE  /\ BeamsAfter \in Seq(BeamType)
           /\ \A k \in DOMAIN BeamsAfter : BeamsAfter[k].pinged <=> BeamsAfter[k].age >= 2
           /\ \A k \in DOMAIN Aged : ~Over(Aged[k]) =>
                 \E h \in DOMAIN BeamsAfter : BeamsAfter[h].node = Aged[k].node
           /\ LET peaks == {k \in DOMAIN Aged : AtPeak(Aged[k])}
              IN  Cardinality(peaks) \in Nat /\ Cardinality(peaks) <= Len(BeamsAfter)
<1> DEFINE older == [k \in DOMAIN Aged |-> [Aged[k] EXCEPT !.pinged = @ \/ AtPeak(Aged[k])]]
           is    == {k \in DOMAIN Aged : ~Over(Aged[k])}
           peaks == {k \in DOMAIN Aged : AtPeak(Aged[k])}
<1>1. PICK N \in Nat : N = Len(beams) /\ DOMAIN Aged = 1 .. N
  BY AgedBeams
<1>2. \A k \in 1 .. N : /\ Aged[k] \in AgedType
                        /\ AtPeak(Aged[k]) <=> Aged[k].age = 2
                        /\ Aged[k].pinged <=> Aged[k].age >= 3
  BY <1>1, AgedBeams
<1>3. ASSUME NEW k \in 1 .. N
      PROVE  /\ older[k] \in AgedType /\ older[k].node = Aged[k].node /\ older[k].age = Aged[k].age
             /\ older[k].pinged <=> older[k].age >= 2
             /\ k \in is <=> Aged[k].age < 4
  <2>1. PICK g \in AgedType : g = Aged[k] /\ (AtPeak(g) <=> g.age = 2) /\ (g.pinged <=> g.age >= 3)
    BY <1>2
  <2>2. PICK p \in BOOLEAN : p = (g.pinged \/ AtPeak(g))
    BY DEF AtPeak, AgedType
  <2>3. PICK o : o = [g EXCEPT !.pinged = p]
    OBVIOUS
  <2>4. older[k] = o
    BY <1>1, <2>1, <2>2, <2>3
  <2>5. o \in AgedType /\ o.node = g.node /\ o.age = g.age /\ o.pinged = p
    BY <2>3 DEF AgedType
  <2>6. g.age \in 1 .. 4
    BY DEF AgedType, BeamLife
  <2>7. (g.age >= 3 \/ g.age = 2) <=> g.age >= 2
    BY <2>6
  <2>8. o.pinged <=> o.age >= 2
    BY <2>1, <2>2, <2>5, <2>7
  <2>9. k \in is <=> g.age < 4
    BY <1>1, <2>1, <2>6 DEF Over, BeamLife
  <2> QED
    BY <2>1, <2>4, <2>5, <2>8, <2>9
<1>4. /\ older \in Seq(AgedType) /\ DOMAIN older = 1 .. N /\ is \in SUBSET (1 .. N) /\ peaks \in SUBSET is
  <2>1. older \in [1 .. N -> AgedType]
    BY <1>1, <1>3
  <2>2. older \in Seq(AgedType)
    BY <2>1, SeqDef
  <2>3. peaks \in SUBSET is
    <3>1. ASSUME NEW k \in 1 .. N, AtPeak(Aged[k]) PROVE k \in is
      <4>1. PICK a : a = Aged[k].age
        OBVIOUS
      <4>2. a = 2
        BY <1>2, <3>1, <4>1
      <4>3. a < 4
        BY <4>2
      <4> QED
        BY <1>3, <4>1, <4>3
    <3> QED
      BY <1>1, <3>1
  <2> QED
    BY <1>1, <2>1, <2>2, <2>3
<1>5. BeamsAfter = Left(older, is)
  BY DEF BeamsAfter
<1> HIDE DEF older, is, peaks
<1>6. PICK B, c : B = BeamsAfter /\ c = Cardinality(is)
  OBVIOUS
<1>7. /\ B \in Seq(AgedType) /\ Len(B) = c /\ IsFiniteSet(is) /\ c \in Nat
      /\ \E f \in [1 .. c -> is] : /\ \A n \in 1 .. c : B[n] = older[f[n]]
                                   /\ \A i \in is : \E n \in 1 .. c : f[n] = i
  <2>1. older \in Seq(AgedType) /\ is \in SUBSET (DOMAIN older)
    BY <1>4
  <2>2. /\ Left(older, is) \in Seq(AgedType) /\ Len(Left(older, is)) = Cardinality(is)
        /\ IsFiniteSet(is) /\ Cardinality(is) \in Nat
        /\ \E f \in [1 .. Cardinality(is) -> is] :
              /\ \A n \in 1 .. Cardinality(is) : Left(older, is)[n] = older[f[n]]
              /\ \A i \in is : \E n \in 1 .. Cardinality(is) : f[n] = i
    BY <2>1, LeftOf
  <2> QED
    BY <1>5, <1>6, <2>2
<1>8. PICK f \in [1 .. c -> is] : /\ \A n \in 1 .. c : B[n] = older[f[n]]
                                  /\ \A i \in is : \E n \in 1 .. c : f[n] = i
  BY <1>7
<1>9. DOMAIN B = 1 .. c
  BY <1>7, LenProperties
<1>10. \A n \in 1 .. c : B[n] \in BeamType /\ (B[n].pinged <=> B[n].age >= 2)
  <2> SUFFICES ASSUME NEW n \in 1 .. c PROVE B[n] \in BeamType /\ (B[n].pinged <=> B[n].age >= 2)
    OBVIOUS
  <2>1. PICK k \in is : k = f[n] /\ k \in 1 .. N
    BY <1>4, <1>8
  <2>2. PICK o \in AgedType : o = older[k] /\ (o.pinged <=> o.age >= 2) /\ o.age < 4
    BY <1>3, <2>1
  <2>3. o \in BeamType
    <3>1. o.age \in 1 .. 4
      BY DEF AgedType, BeamLife
    <3>2. o.age \in 0 .. 3
      BY <2>2, <3>1
    <3> QED
      BY <3>2 DEF AgedType, BeamType, BeamLife
  <2> QED
    BY <1>8, <2>1, <2>2, <2>3
<1>11. B \in Seq(BeamType)
  <2>1. B \in [1 .. c -> BeamType]
    BY <1>7, <1>9, <1>10, LenProperties
  <2> QED
    BY <1>7, <2>1, SeqDef
<1>12. ASSUME NEW k \in DOMAIN Aged, ~Over(Aged[k])
       PROVE  \E h \in DOMAIN B : B[h].node = Aged[k].node
  <2>1. k \in is /\ k \in 1 .. N
    BY <1>1, <1>12 DEF is
  <2>2. PICK n \in 1 .. c : f[n] = k
    BY <1>8, <2>1
  <2>3. B[n] = older[k] /\ older[k].node = Aged[k].node
    BY <1>3, <1>8, <2>1, <2>2
  <2> QED
    BY <1>9, <2>3
<1>13. Cardinality(peaks) \in Nat /\ Cardinality(peaks) <= Len(B)
  BY <1>4, <1>6, <1>7, FS_Subset, FS_CardinalityType
<1> QED
  BY <1>6, <1>9, <1>10, <1>11, <1>12, <1>13 DEF peaks

\* The timer of the pulse after this frame.
PulseTimerAfter ==
    IF mood # "processing" THEN pulseTimer ELSE IF PulseDue THEN PulseEvery ELSE pulseTimer - 1

LEMMA TimerPasses ==
    ASSUME StageTypes
    PROVE  /\ PulseTimerAfter \in 0 .. 4 /\ pulseTimer \in 0 .. 4
           /\ PulseDue => pulseTimer <= 1 /\ PulseTimerAfter = 4
           /\ ~PulseDue => PulseTimerAfter + 1 >= pulseTimer
BY DEF StageTypes, PulseTimerAfter, PulseDue, PulseEvery

\* All there is to age in this frame: what was there, the pulse, one per beam at
\* its peak.
LEMMA AllPings ==
    ASSUME StageTypes, Beats, NEW A \in Nat,
           A = Cardinality({k \in DOMAIN Aged : AtPeak(Aged[k])})
    PROVE  LET all == pings \o Pulses \o AgentPings
               P   == Len(pings)
               U   == IF PulseDue THEN 1 ELSE 0
           IN  /\ P \in Nat /\ all \in Seq(PingType) /\ Len(all) = P + U + A
               /\ \A k \in 1 .. P : all[k] = pings[k]
               /\ PulseDue => all[P + 1] = [age |-> 0, dur |-> 4, faint |-> TRUE]
               /\ \A k \in P + U + 1 .. P + U + A : all[k] = [age |-> 0, dur |-> 2, faint |-> FALSE]
<1>1. PICK P \in Nat : P = Len(pings) /\ pings \in Seq(PingType)
  BY LenProperties DEF StageTypes
<1>2. PICK U \in {0, 1} : U = IF PulseDue THEN 1 ELSE 0
  OBVIOUS
<1>3. PICK a \in PingType, b \in PingType : /\ a = [age |-> 0, dur |-> 2, faint |-> FALSE]
                                            /\ b = [age |-> 0, dur |-> 4, faint |-> TRUE]
  <2>1. 0 \in 0 .. PulsePing /\ 2 \in 1 .. PulsePing /\ 4 \in 1 .. PulsePing
    BY DEF PulsePing
  <2>2. [age |-> 0, dur |-> 2, faint |-> FALSE] \in PingType /\ [age |-> 0, dur |-> 4, faint |-> TRUE] \in PingType
    BY <2>1 DEF PingType
  <2> QED
    BY <2>2, Zenon
<1>4. PICK p, q, r : p = pings /\ q = Pulses /\ r = AgentPings
  OBVIOUS
<1>5. q \in Seq(PingType) /\ Len(q) = U /\ (U = 1 => q[1] = b)
  <2>1. q = IF PulseDue THEN <<b>> ELSE <<>>
    BY <1>3, <1>4 DEF Pulses, PulsePing
  <2>2. CASE PulseDue
    BY <1>2, <2>1, <2>2
  <2>3. CASE ~PulseDue
    BY <1>2, <2>1, <2>3
  <2> QED
    BY <2>2, <2>3
<1>6. r \in Seq(PingType) /\ Len(r) = A /\ \A k \in 1 .. A : r[k] = a
  <2>1. r = [k \in 1 .. A |-> a]
    BY <1>3, <1>4 DEF AgentPings, AgentPing
  <2>2. r \in [1 .. A -> PingType]
    BY <2>1
  <2>3. r \in Seq(PingType)
    BY <2>2, SeqDef
  <2>4. Len(r) = A
    BY <2>2, <2>3, LenProperties
  <2> QED
    BY <2>1, <2>3, <2>4
<1>7. PICK s : s = p \o q
  OBVIOUS
<1>8. /\ s \in Seq(PingType) /\ Len(s) = P + U
      /\ \A k \in 1 .. P + U : s[k] = IF k <= P THEN p[k] ELSE q[k - P]
  BY <1>1, <1>4, <1>5, <1>7, ConcatProperties
<1>9. PICK t : t = s \o r
  OBVIOUS
<1>m. PICK M \in Nat : M = P + U /\ M = Len(s)
  BY <1>1, <1>8
<1>10. /\ t \in Seq(PingType) /\ Len(t) = M + A
       /\ \A k \in 1 .. M + A : t[k] = IF k <= M THEN s[k] ELSE r[k - M]
  <2>1. /\ s \o r \in Seq(PingType) /\ Len(s \o r) = Len(s) + Len(r)
        /\ \A k \in 1 .. Len(s) + Len(r) : (s \o r)[k] = IF k <= Len(s) THEN s[k] ELSE r[k - Len(s)]
    BY <1>6, <1>8, ConcatProperties
  <2> QED
    BY <1>6, <1>9, <1>m, <2>1
<1>11. ASSUME NEW k \in 1 .. P PROVE t[k] = p[k]
  <2>1. k \in 1 .. P + U /\ k \in 1 .. M + A /\ k <= P /\ k <= M
    BY <1>1, <1>2, <1>m
  <2> QED
    BY <1>8, <1>10, <2>1
<1>12. ASSUME U = 1 PROVE t[P + 1] = b
  <2>1. P + 1 \in 1 .. P + U /\ P + 1 \in 1 .. M + A /\ ~(P + 1 <= P) /\ P + 1 <= M /\ (P + 1) - P = 1
    BY <1>1, <1>12, <1>m
  <2>2. t[P + 1] = s[P + 1]
    BY <1>10, <2>1
  <2>3. s[P + 1] = q[1]
    BY <1>8, <2>1
  <2> QED
    BY <1>5, <1>12, <2>2, <2>3
<1>13. ASSUME NEW k \in P + U + 1 .. P + U + A PROVE t[k] = a
  <2>1. k \in 1 .. M + A /\ ~(k <= M) /\ k - M \in 1 .. A
    BY <1>1, <1>2, <1>m
  <2> QED
    BY <1>6, <1>10, <2>1
<1>14. t = pings \o Pulses \o AgentPings
  BY <1>4, <1>7, <1>9
<1>15. Len(t) = P + U + A
  BY <1>10, <1>m
<1> QED
  BY <1>1, <1>2, <1>3, <1>4, <1>10, <1>11, <1>12, <1>13, <1>14, <1>15

\* Of the pings that age in this frame at most one is left that is the pulse's,
\* and the others are new.
LEMMA PingsPass ==
    ASSUME StageTypes, Beats, PingsBounded, NEW A \in Nat,
           A = Cardinality({k \in DOMAIN Aged : AtPeak(Aged[k])})
    PROVE  /\ PingsAfter \in Seq(PingType) /\ Len(PingsAfter) <= A + 1
           /\ \A j, k \in DOMAIN PingsAfter : PingsAfter[j].faint /\ PingsAfter[k].faint => j = k
           /\ \A j \in DOMAIN PingsAfter :
                 /\ PingsAfter[j].age < PingsAfter[j].dur
                 /\ IF PingsAfter[j].faint
                      THEN PingsAfter[j].dur = PulsePing /\ PingsAfter[j].age + PulseTimerAfter >= 5
                      ELSE PingsAfter[j].age + 1 >= PingsAfter[j].dur
<1>1. PICK P, U, all : P = Len(pings) /\ U = (IF PulseDue THEN 1 ELSE 0) /\ all = pings \o Pulses \o AgentPings
  OBVIOUS
<1>u. U \in {0, 1} /\ (U = 1 <=> PulseDue)
  BY <1>1
<1>2. /\ P \in Nat /\ U \in {0, 1} /\ all \in Seq(PingType) /\ Len(all) = P + U + A
      /\ \A k \in 1 .. P : all[k] = pings[k]
      /\ U = 1 => all[P + 1] = [age |-> 0, dur |-> 4, faint |-> TRUE]
      /\ \A k \in P + U + 1 .. P + U + A : all[k] = [age |-> 0, dur |-> 2, faint |-> FALSE]
  <2>1. LET l == pings \o Pulses \o AgentPings
            p == Len(pings)
            u == IF PulseDue THEN 1 ELSE 0
        IN  /\ p \in Nat /\ l \in Seq(PingType) /\ Len(l) = p + u + A
            /\ \A k \in 1 .. p : l[k] = pings[k]
            /\ PulseDue => l[p + 1] = [age |-> 0, dur |-> 4, faint |-> TRUE]
            /\ \A k \in p + u + 1 .. p + u + A : l[k] = [age |-> 0, dur |-> 2, faint |-> FALSE]
    BY AllPings, Zenon
  <2> QED
    BY <1>1, <1>u, <2>1, Zenon
<1>3. PICK N \in Nat : N = P + U + A /\ DOMAIN all = 1 .. N /\ DOMAIN pings = 1 .. P
  BY <1>1, <1>2, LenProperties DEF StageTypes
<1>4. PICK T : T = PulseTimerAfter
  OBVIOUS
<1>5. /\ T \in 0 .. 4 /\ pulseTimer \in 0 .. 4 /\ (U = 1 => pulseTimer <= 1 /\ T = 4) /\ (U = 0 => T + 1 >= pulseTimer)
  BY <1>1, <1>4, TimerPasses
<1> DEFINE older == [k \in DOMAIN all |-> [all[k] EXCEPT !.age = @ + 1]]
           is    == {k \in DOMAIN all : all[k].age + 1 < all[k].dur}
           OlderType == [age : 1 .. 5, dur : 1 .. 4, faint : BOOLEAN]
<1>6. ASSUME NEW k \in 1 .. N
      PROVE  \E g \in PingType : /\ all[k] = g /\ older[k] = [age |-> g.age + 1, dur |-> g.dur, faint |-> g.faint]
                                 /\ older[k] \in OlderType /\ (k \in is <=> g.age + 1 < g.dur)
  <2>1. PICK g \in PingType : g = all[k]
    BY <1>2, <1>3, ElementOfSeq
  <2>2. older[k] = [g EXCEPT !.age = @ + 1]
    BY <1>3, <2>1
  <2>3. [g EXCEPT !.age = @ + 1] = [age |-> g.age + 1, dur |-> g.dur, faint |-> g.faint]
    BY DEF PingType
  <2>4. g.age \in 0 .. 4 /\ g.dur \in 1 .. 4 /\ g.faint \in BOOLEAN
    BY DEF PingType, PulsePing
  <2>5. g.age + 1 \in 1 .. 5
    BY <2>4
  <2>6. k \in is <=> g.age + 1 < g.dur
    BY <1>3, <2>1
  <2>7. older[k] \in OlderType
    BY <2>2, <2>3, <2>4, <2>5
  <2> QED
    BY <2>1, <2>2, <2>3, <2>6, <2>7
<1>7. older \in Seq(OlderType) /\ DOMAIN older = 1 .. N /\ is \in SUBSET (1 .. N)
  <2>1. older \in [1 .. N -> OlderType]
    <3>1. \A k \in 1 .. N : older[k] \in OlderType
      BY <1>6
    <3>2. older = [k \in 1 .. N |-> older[k]]
      BY <1>3
    <3> HIDE DEF older, OlderType
    <3> QED
      BY <3>1, <3>2
  <2>2. older \in Seq(OlderType)
    <3> HIDE DEF older, OlderType
    <3> QED
      BY <2>1, SeqDef
  <2> QED
    BY <1>3, <2>1, <2>2
<1>8. PingsAfter = Left(older, is)
  BY <1>1 DEF PingsAfter
<1> HIDE DEF older, is
<1>9. \A k \in 1 .. N : k \in 1 .. P \/ (U = 1 /\ k = P + 1) \/ k \in P + U + 1 .. P + U + A
  BY <1>2, <1>3

\* What is left of the pings that were there.
<1>10. ASSUME NEW k \in is, k \in 1 .. P
       PROVE  /\ U = 0 /\ pings[k].faint
              /\ older[k].age < older[k].dur /\ older[k].faint /\ older[k].dur = 4 /\ older[k].age + T >= 5
  <2>1. k \in 1 .. N
    BY <1>7
  <2>2. PICK g \in PingType : /\ all[k] = g /\ older[k] = [age |-> g.age + 1, dur |-> g.dur, faint |-> g.faint]
                              /\ (k \in is <=> g.age + 1 < g.dur)
    BY <1>6, <2>1
  <2>3. /\ g.age < g.dur
        /\ IF g.faint THEN g.dur = 4 /\ g.age + pulseTimer >= 5 ELSE g.age + 1 >= g.dur
        /\ pings[k] = g
    BY <1>2, <1>3, <1>10, <2>2 DEF Beats, PulsePing
  <2>4. g.age \in 0 .. 4 /\ g.dur \in 1 .. 4 /\ g.age + 1 < g.dur
    BY <2>2 DEF PingType, PulsePing
  <2>5. g.faint
    BY <2>3, <2>4
  <2>6. g.dur = 4 /\ g.age + pulseTimer >= 5
    BY <2>3, <2>5
  <2>7. U = 0
    BY <1>2, <1>5, <2>4, <2>6
  <2>8. g.age + 1 + T >= 5
    BY <1>5, <2>4, <2>6, <2>7
  <2> QED
    BY <2>2, <2>3, <2>4, <2>5, <2>6, <2>7, <2>8

\* The pulse, and the pings of the beams.
<1>11. ASSUME U = 1, P + 1 \in 1 .. N
       PROVE  /\ older[P + 1].age < older[P + 1].dur /\ older[P + 1].faint /\ older[P + 1].dur = 4
              /\ older[P + 1].age + T >= 5
  <2>1. PICK g \in PingType : all[P + 1] = g /\ older[P + 1] = [age |-> g.age + 1, dur |-> g.dur, faint |-> g.faint]
    BY <1>6, <1>11
  <2>2. g.age = 0 /\ g.dur = 4 /\ g.faint /\ T = 4
    BY <1>2, <1>5, <1>11, <2>1
  <2> QED
    BY <2>1, <2>2
<1>12. ASSUME NEW k \in 1 .. N, k \in P + U + 1 .. P + U + A
       PROVE  older[k].age < older[k].dur /\ ~older[k].faint /\ older[k].age + 1 >= older[k].dur
  <2>1. PICK g \in PingType : all[k] = g /\ older[k] = [age |-> g.age + 1, dur |-> g.dur, faint |-> g.faint]
    BY <1>6
  <2>2. g.age = 0 /\ g.dur = 2 /\ ~g.faint
    BY <1>2, <1>12, <2>1
  <2> QED
    BY <2>1, <2>2
<1>13. ASSUME NEW j \in is, NEW k \in is, older[j].faint, older[k].faint
       PROVE  j = k
  <2>1. j \in 1 .. N /\ k \in 1 .. N
    BY <1>7
  <2>2. j \notin P + U + 1 .. P + U + A /\ k \notin P + U + 1 .. P + U + A
    BY <1>12, <1>13, <2>1
  <2>3. (j \in 1 .. P \/ (U = 1 /\ j = P + 1)) /\ (k \in 1 .. P \/ (U = 1 /\ k = P + 1))
    BY <1>9, <2>1, <2>2
  <2>4. CASE j \in 1 .. P
    <3>1. U = 0 /\ pings[j].faint
      BY <1>10, <2>4
    <3>2. k \in 1 .. P
      BY <2>3, <3>1
    <3>3. pings[k].faint
      BY <1>10, <3>2
    <3> QED
      BY <1>3, <2>4, <3>1, <3>2, <3>3 DEF PingsBounded
  <2>5. CASE U = 1 /\ j = P + 1
    <3>1. k \notin 1 .. P
      BY <1>10, <2>5
    <3> QED
      BY <2>3, <2>5, <3>1
  <2> QED
    BY <2>3, <2>4, <2>5
<1>14. \A k \in is : \/ k \in P + U + 1 .. P + U + A
                     \/ older[k].faint
  <2> SUFFICES ASSUME NEW k \in is PROVE k \in P + U + 1 .. P + U + A \/ older[k].faint
    OBVIOUS
  <2>1. k \in 1 .. N
    BY <1>7
  <2> QED
    BY <1>9, <1>10, <1>11, <2>1
<1>15. IsFiniteSet(is) /\ Cardinality(is) \in Nat /\ Cardinality(is) <= A + 1
  <2>0. P + U + 1 \in Int /\ P + U + A \in Int
    BY <1>2
  <2>1. PICK a \in Int, b \in Int : a = P + U + 1 /\ b = P + U + A
    BY <2>0, Zenon
  <2>2. IsFiniteSet(a .. b) /\ Cardinality(a .. b) = A
    <3>1. IF a > b THEN A = 0 ELSE b - a + 1 = A
      BY <1>2, <2>1
    <3> QED
      BY <3>1, FS_Interval
  <2>3. PICK x : \A k \in is : older[k].faint => k = x
    BY <1>13
  <2>4. is \in SUBSET ((a .. b) \cup {x})
    BY <1>14, <2>1, <2>3
  <2>5. IsFiniteSet((a .. b) \cup {x}) /\ Cardinality((a .. b) \cup {x}) <= A + 1
    <3>1. PICK I : I = a .. b
      OBVIOUS
    <3>2. IsFiniteSet(I \cup {x}) /\ Cardinality(I \cup {x}) = IF x \in I THEN Cardinality(I) ELSE Cardinality(I) + 1
      BY <2>2, <3>1, FS_AddElement
    <3> QED
      BY <2>2, <3>1, <3>2
  <2>6. IsFiniteSet(is) /\ Cardinality(is) <= Cardinality((a .. b) \cup {x})
    BY <2>4, <2>5, FS_Subset
  <2>7. Cardinality(is) \in Nat /\ Cardinality((a .. b) \cup {x}) \in Nat
    BY <2>5, <2>6, FS_CardinalityType
  <2> QED
    BY <2>5, <2>6, <2>7
<1>16. PICK q : q = PingsAfter
  OBVIOUS
<1>17. PICK c \in Nat : c = Cardinality(is)
  BY <1>15
<1>18. /\ q \in Seq(OlderType) /\ Len(q) = c
       /\ \E f \in [1 .. c -> is] : /\ \A n \in 1 .. c : q[n] = older[f[n]]
                                    /\ \A m, n \in 1 .. c : f[m] = f[n] => m = n
  <2>1. older \in Seq(OlderType) /\ is \in SUBSET (DOMAIN older)
    BY <1>7
  <2>2. /\ Left(older, is) \in Seq(OlderType) /\ Len(Left(older, is)) = Cardinality(is)
        /\ \E f \in [1 .. Cardinality(is) -> is] :
              /\ \A n \in 1 .. Cardinality(is) : Left(older, is)[n] = older[f[n]]
              /\ \A m, n \in 1 .. Cardinality(is) : f[m] = f[n] => m = n
    BY <2>1, LeftOf
  <2> QED
    BY <1>8, <1>16, <1>17, <2>2
<1>19. PICK f \in [1 .. c -> is] : /\ \A n \in 1 .. c : q[n] = older[f[n]]
                                   /\ \A m, n \in 1 .. c : f[m] = f[n] => m = n
  BY <1>18
<1>20. DOMAIN q = 1 .. c
  BY <1>18, LenProperties
<1>21. ASSUME NEW n \in 1 .. c
       PROVE  /\ q[n] \in PingType /\ q[n].age < q[n].dur
              /\ IF q[n].faint THEN q[n].dur = 4 /\ q[n].age + T >= 5 ELSE q[n].age + 1 >= q[n].dur
  <2>1. PICK k \in is : k = f[n] /\ k \in 1 .. N
    BY <1>7, <1>19
  <2>2. /\ older[k].age < older[k].dur
        /\ IF older[k].faint THEN older[k].dur = 4 /\ older[k].age + T >= 5 ELSE older[k].age + 1 >= older[k].dur
    BY <1>9, <1>10, <1>11, <1>12, <2>1
  <2>3. PICK o \in OlderType : o = older[k]
    BY <1>6, <2>1
  <2>4. o \in PingType
    <3>1. o.age \in 1 .. 5 /\ o.dur \in 1 .. 4 /\ o.faint \in BOOLEAN /\ o = [age |-> o.age, dur |-> o.dur, faint |-> o.faint]
      OBVIOUS
    <3>2. o.age \in 0 .. 4
      BY <2>2, <2>3, <3>1
    <3> QED
      BY <3>1, <3>2 DEF PingType, PulsePing
  <2> QED
    BY <1>19, <2>1, <2>2, <2>3, <2>4
<1>22. q \in Seq(PingType)
  <2>1. q \in [1 .. c -> PingType]
    BY <1>18, <1>20, <1>21, LenProperties
  <2> QED
    BY <2>1, SeqDef
<1>23. \A m, n \in 1 .. c : q[m].faint /\ q[n].faint => m = n
  <2>1. \A m, n \in 1 .. c : q[m].faint /\ q[n].faint => f[m] = f[n]
    BY <1>13, <1>19
  <2> QED
    BY <1>19, <2>1
<1>24. Len(q) <= A + 1
  BY <1>15, <1>17, <1>18
<1> QED
  BY <1>4, <1>16, <1>20, <1>21, <1>22, <1>23, <1>24 DEF PulsePing

\* The dock of a node after this frame: it is not taken up again.
LEMMA DockPasses ==
    ASSUME NEW d \in DockState
    PROVE  DockAfter(d) \in DockState /\ (DockAfter(d).active => d.active)
<1>1. d.there \in BOOLEAN /\ d.active \in BOOLEAN /\ d.amount \in 0 .. DockFrames /\ DockFrames \in Nat
  BY StageAssumption DEF DockState
<1>2. PICK m : m = CASE d.active /\ d.amount < DockFrames -> d.amount + 1
                     [] ~d.active /\ d.amount > 0         -> d.amount - 1
                     [] OTHER                             -> d.amount
  OBVIOUS
<1>3. m \in 0 .. DockFrames
  BY <1>1, <1>2
<1>4. DockAfter(d) = IF ~d.there \/ (~d.active /\ m = 0) THEN NoDock ELSE [d EXCEPT !.amount = m]
  BY <1>2, Zenon DEF DockAfter
<1>5. NoDock \in DockState /\ ~NoDock.active
  BY <1>1 DEF NoDock, DockState
<1>6. [d EXCEPT !.amount = m] \in DockState /\ [d EXCEPT !.amount = m].active = d.active
  BY <1>3 DEF DockState
<1> QED
  BY <1>4, <1>5, <1>6

\* A flare is lit after this frame only for a beam that is left.
LEMMA FlarePasses ==
    ASSUME StageTypes, Beats, FlareHasBeam, NEW i \in 1 .. Len(nodes)
    PROVE  /\ FlareAfter(nodes[i], i) \in BOOLEAN
           /\ FlareAfter(nodes[i], i) => \E h \in DOMAIN BeamsAfter : BeamsAfter[h].node = i
<1>1. PICK N \in Nat : N = Len(beams) /\ DOMAIN Aged = 1 .. N /\ DOMAIN beams = 1 .. N
  BY AgedBeams, LenProperties DEF StageTypes
<1>2. PICK on : on = {k \in DOMAIN Aged : Aged[k].node = i}
  OBVIOUS
<1>3. on \in SUBSET (1 .. N)
  BY <1>1, <1>2
<1>4. CASE on = {}
  <2>1. FlareAfter(nodes[i], i) = nodes[i].flare
    BY <1>2, <1>4 DEF FlareAfter
  <2>2. nodes[i] \in NodeType /\ DOMAIN nodes = 1 .. Len(nodes)
    BY LenProperties, ElementOfSeq DEF StageTypes
  <2>3. ~nodes[i].flare
    <3>1. \A k \in DOMAIN beams : beams[k].node # i
      BY <1>1, <1>2, <1>4, AgedBeams
    <3> QED
      BY <2>2, <3>1 DEF FlareHasBeam
  <2> QED
    BY <2>1, <2>2, <2>3 DEF NodeType
<1>5. CASE on # {}
  <2>1. PICK k : k = CHOOSE h \in on : \A j \in on : h <= j
    OBVIOUS
  <2>2. \E h \in on : \A j \in on : h <= j
    BY <1>3, <1>5, First
  <2>3. k \in on
    BY <2>1, <2>2, Zenon
  <2>4. FlareAfter(nodes[i], i) = ~Over(Aged[k])
    BY <1>2, <1>5, <2>1, Zenon DEF FlareAfter
  <2>5. FlareAfter(nodes[i], i) \in BOOLEAN
    BY <2>4
  <2>6. Aged[k].node = i /\ k \in DOMAIN Aged
    BY <1>2, <2>3
  <2>7. ~Over(Aged[k]) => \E h \in DOMAIN BeamsAfter : BeamsAfter[h].node = Aged[k].node
    BY <2>6, BeamsPass
  <2> QED
    BY <2>4, <2>5, <2>6, <2>7
<1> QED
  BY <1>4, <1>5

\* Agents are eased, and nothing else.
LEMMA NodesPass ==
    ASSUME StageTypes, Beats, FlareHasBeam
    PROVE  /\ NodesAfter \in Seq(NodeType) /\ Len(NodesAfter) = Len(nodes)
           /\ DOMAIN NodesAfter = 1 .. Len(nodes) /\ DOMAIN nodes = 1 .. Len(nodes)
           /\ \A i \in 1 .. Len(nodes) :
                 /\ NodesAfter[i].agent = nodes[i].agent /\ NodesAfter[i].target = nodes[i].target
                 /\ NodesAfter[i].dock.active => nodes[i].dock.active
                 /\ NodesAfter[i].flare => \E h \in DOMAIN BeamsAfter : BeamsAfter[h].node = i
<1>1. PICK N \in Nat : N = Len(nodes) /\ DOMAIN nodes = 1 .. N
  BY LenProperties DEF StageTypes
<1>2. PICK ns : ns = NodesAfter
  OBVIOUS
<1>3. ASSUME NEW i \in 1 .. N
      PROVE  /\ ns[i] \in NodeType
             /\ ns[i].agent = nodes[i].agent /\ ns[i].target = nodes[i].target
             /\ ns[i].dock.active => nodes[i].dock.active
             /\ ns[i].flare => \E h \in DOMAIN BeamsAfter : BeamsAfter[h].node = i
  <2>1. PICK n \in NodeType : n = nodes[i]
    BY <1>1, ElementOfSeq DEF StageTypes
  <2>2. PICK f \in BOOLEAN : /\ f = FlareAfter(n, i)
                             /\ f => \E h \in DOMAIN BeamsAfter : BeamsAfter[h].node = i
    BY <1>1, <2>1, FlarePasses
  <2>3. PICK d \in DockState : d = DockAfter(n.dock) /\ (d.active => n.dock.active)
    BY DockPasses DEF NodeType
  <2>4. ns[i] = [n EXCEPT !.flare = f, !.dock = d]
    <3>1. ns[i] = [n EXCEPT !.flare = FlareAfter(n, i), !.dock = DockAfter(@)]
      BY <1>1, <1>2, <2>1 DEF NodesAfter
    <3> QED
      BY <2>2, <2>3, <3>1 DEF NodeType
  <2>5. /\ [n EXCEPT !.flare = f, !.dock = d] \in NodeType
        /\ [n EXCEPT !.flare = f, !.dock = d].agent = n.agent
        /\ [n EXCEPT !.flare = f, !.dock = d].target = n.target
        /\ [n EXCEPT !.flare = f, !.dock = d].flare = f
        /\ [n EXCEPT !.flare = f, !.dock = d].dock = d
    BY DEF NodeType
  <2> QED
    BY <2>1, <2>2, <2>3, <2>4, <2>5
<1>4. ns = [i \in 1 .. N |-> ns[i]] /\ DOMAIN ns = 1 .. N
  BY <1>1, <1>2 DEF NodesAfter
<1>5. ns \in [1 .. N -> NodeType]
  BY <1>3, <1>4
<1>6. ns \in Seq(NodeType)
  BY <1>5, SeqDef
<1>7. Len(ns) = N
  BY <1>5, <1>6, LenProperties
<1> QED
  BY <1>1, <1>2, <1>3, <1>4, <1>6, <1>7

-----------------------------------------------------------------------------
(* The demo. *)

LEMMA ScriptSteps ==
    /\ Len(Script) = 8
    /\ Script[1] = [mood |-> "listening",  stop |-> {}, start |-> {}, dur |-> 5]
    /\ Script[2] = [mood |-> "processing", stop |-> {}, start |-> {"scout"}, dur |-> 6]
    /\ Script[3] = [mood |-> "speaking",   stop |-> {"scout"}, start |-> {"forge"}, dur |-> 7]
    /\ Script[4] = [mood |-> "idle",       stop |-> {"forge"}, start |-> {}, dur |-> 4]
    /\ Script[5] = [mood |-> "listening",  stop |-> {}, start |-> {"aegis"}, dur |-> 5]
    /\ Script[6] = [mood |-> "processing", stop |-> {}, start |-> {}, dur |-> 6]
    /\ Script[7] = [mood |-> "speaking",   stop |-> {"aegis"}, start |-> {}, dur |-> 6]
    /\ Script[8] = [mood |-> "idle",       stop |-> {}, start |-> {}, dur |-> 4]
BY DEF Script

\* Whoever a step starts is stopped by a later one, and nobody works when it rests.
LEMMA Scripted ==
    \A i \in 0 .. 8, k \in 1 .. 8 :
       k = (i % 8) + 1 =>
          /\ Script[k].mood \in {"idle", "listening", "processing", "speaking"}
          /\ Script[k].stop \subseteq Cast /\ Script[k].start \subseteq Cast
          /\ Script[k].stop \cap Script[k].start = {}
          /\ Script[k].dur \in 1 .. 7
          /\ AtWork(k) = (AtWork(i) \ Script[k].stop) \cup Script[k].start
          /\ Script[k].mood = "idle" => AtWork(k) = {}
<1> SUFFICES ASSUME NEW i \in 0 .. 8, NEW k \in 1 .. 8, k = (i % 8) + 1
             PROVE  /\ Script[k].mood \in {"idle", "listening", "processing", "speaking"}
                    /\ Script[k].stop \subseteq Cast /\ Script[k].start \subseteq Cast
                    /\ Script[k].stop \cap Script[k].start = {}
                    /\ Script[k].dur \in 1 .. 7
                    /\ AtWork(k) = (AtWork(i) \ Script[k].stop) \cup Script[k].start
                    /\ Script[k].mood = "idle" => AtWork(k) = {}
  OBVIOUS
<1>1. \/ (i = 0 \/ i = 8) /\ k = 1
      \/ i = 1 /\ k = 2
      \/ i = 2 /\ k = 3
      \/ i = 3 /\ k = 4
      \/ i = 4 /\ k = 5
      \/ i = 5 /\ k = 6
      \/ i = 6 /\ k = 7
      \/ i = 7 /\ k = 8
  OBVIOUS
<1>2. CASE (i = 0 \/ i = 8) /\ k = 1
  BY <1>2, ScriptSteps DEF AtWork, Cast
<1>3. CASE i = 1 /\ k = 2
  BY <1>3, ScriptSteps DEF AtWork, Cast
<1>4. CASE i = 2 /\ k = 3
  BY <1>4, ScriptSteps DEF AtWork, Cast
<1>5. CASE i = 3 /\ k = 4
  BY <1>5, ScriptSteps DEF AtWork, Cast
<1>6. CASE i = 4 /\ k = 5
  BY <1>6, ScriptSteps DEF AtWork, Cast
<1>7. CASE i = 5 /\ k = 6
  BY <1>7, ScriptSteps DEF AtWork, Cast
<1>8. CASE i = 6 /\ k = 7
  BY <1>8, ScriptSteps DEF AtWork, Cast
<1>9. CASE i = 7 /\ k = 8
  BY <1>9, ScriptSteps DEF AtWork, Cast
<1> QED
  BY <1>1, <1>2, <1>3, <1>4, <1>5, <1>6, <1>7, <1>8, <1>9

\* ns is what the nodes are after a frame in which the demo stops and starts agents.
Moved(ns, stop, start) ==
    /\ ns \in Seq(NodeType) /\ Len(ns) = Len(nodes)
    /\ DOMAIN ns = 1 .. Len(nodes) /\ DOMAIN nodes = 1 .. Len(nodes)
    /\ \A i \in 1 .. Len(nodes) :
          LET a == nodes[i].agent
          IN  /\ ns[i].agent = a
              /\ ns[i].flare => \E h \in DOMAIN BeamsAfter : BeamsAfter[h].node = i
              /\ a \in stop /\ byId[a] = i => ns[i].target = 0 /\ ~ns[i].dock.active
              /\ a \in start /\ byId[a] = i => ns[i].target = 1
              /\ a \notin stop \cup start \/ byId[a] # i =>
                    ns[i].target = nodes[i].target /\ (ns[i].dock.active => nodes[i].dock.active)

\* The nodes after step s of the demo, as RunStep has them.
Told(s) ==
    [i \in DOMAIN nodes |->
        LET a == nodes[i].agent
        IN  CASE a \in s.stop  -> Working(NodesAfter, a, FALSE)[i]
              [] a \in s.start -> Working(NodesAfter, a, TRUE)[i]
              [] OTHER         -> NodesAfter[i]]

\* In a frame without a step, and in one with a step.
LEMMA JustMoved ==
    ASSUME StageTypes, Beats, FlareHasBeam
    PROVE  Moved(NodesAfter, {}, {})
BY NodesPass DEF Moved

LEMMA ToldMoved ==
    ASSUME StageTypes, Beats, FlareHasBeam, NEW s, s.stop \subseteq Cast, s.start \subseteq Cast, s.stop \cap s.start = {}
    PROVE  Moved(Told(s), s.stop, s.start)
<1>1. PICK ns, N : ns = NodesAfter /\ N = Len(nodes)
  OBVIOUS
<1>2. /\ ns \in Seq(NodeType) /\ Len(ns) = N /\ DOMAIN ns = 1 .. N /\ DOMAIN nodes = 1 .. N
      /\ \A i \in 1 .. N :
            /\ ns[i].agent = nodes[i].agent /\ ns[i].target = nodes[i].target
            /\ ns[i].dock.active => nodes[i].dock.active
            /\ ns[i].flare => \E h \in DOMAIN BeamsAfter : BeamsAfter[h].node = i
  BY <1>1, NodesPass
<1>3. N \in Nat
  BY <1>1, LenProperties DEF StageTypes
<1>4. PICK w : w = Told(s)
  OBVIOUS
<1>5. ASSUME NEW a \in AnAgent, NEW on \in BOOLEAN
      PROVE  \E v : /\ v = Working(ns, a, on) /\ v \in Seq(NodeType) /\ Len(v) = N
                    /\ \A i \in 1 .. N :
                          /\ v[i].agent = ns[i].agent /\ v[i].flare = ns[i].flare
                          /\ i # byId[a] => v[i] = ns[i]
                          /\ i = byId[a] => v[i].target = (IF on THEN 1 ELSE 0) /\ (v[i].dock.active => on)
  BY <1>2, WorkingOf
<1>6. ASSUME NEW i \in 1 .. N
      PROVE  /\ w[i] \in NodeType /\ w[i].agent = nodes[i].agent
             /\ w[i].flare => \E h \in DOMAIN BeamsAfter : BeamsAfter[h].node = i
             /\ nodes[i].agent \in s.stop /\ byId[nodes[i].agent] = i => w[i].target = 0 /\ ~w[i].dock.active
             /\ nodes[i].agent \in s.start /\ byId[nodes[i].agent] = i => w[i].target = 1
             /\ nodes[i].agent \notin s.stop \cup s.start \/ byId[nodes[i].agent] # i =>
                   w[i].target = nodes[i].target /\ (w[i].dock.active => nodes[i].dock.active)
  <2>0. nodes[i] \in NodeType
    BY <1>1, <1>2, ElementOfSeq DEF StageTypes
  <2>1. PICK a \in AnAgent : a = nodes[i].agent
    BY <2>0 DEF NodeType
  <2>2. /\ ns[i] \in NodeType /\ ns[i].agent = a /\ ns[i].target = nodes[i].target
        /\ ns[i].dock.active => nodes[i].dock.active
        /\ ns[i].flare => \E h \in DOMAIN BeamsAfter : BeamsAfter[h].node = i
    BY <1>2, <2>1, ElementOfSeq
  <2>3. w[i] = CASE a \in s.stop  -> Working(ns, a, FALSE)[i]
                 [] a \in s.start -> Working(ns, a, TRUE)[i]
                 [] OTHER         -> ns[i]
    BY <1>1, <1>2, <1>4, <2>1 DEF Told
  <2>4. CASE a \in s.stop
    <3>1. PICK v : /\ v = Working(ns, a, FALSE) /\ v \in Seq(NodeType) /\ Len(v) = N
                   /\ v[i].agent = ns[i].agent /\ v[i].flare = ns[i].flare
                   /\ i # byId[a] => v[i] = ns[i]
                   /\ i = byId[a] => v[i].target = 0 /\ ~v[i].dock.active
      BY <1>5
    <3>2. w[i] = v[i] /\ a \notin s.start
      BY <2>3, <2>4, <3>1
    <3>3. v[i] \in NodeType
      BY <1>3, <3>1, ElementOfSeq
    <3> QED
      BY <2>1, <2>2, <2>4, <3>1, <3>2, <3>3
  <2>5. CASE a \in s.start
    <3>1. PICK v : /\ v = Working(ns, a, TRUE) /\ v \in Seq(NodeType) /\ Len(v) = N
                   /\ v[i].agent = ns[i].agent /\ v[i].flare = ns[i].flare
                   /\ i # byId[a] => v[i] = ns[i]
                   /\ i = byId[a] => v[i].target = 1
      BY <1>5
    <3>2. w[i] = v[i] /\ a \notin s.stop
      <4>1. a \notin s.stop
        BY <2>5
      <4> QED
        BY <2>3, <2>5, <3>1, <4>1
    <3>3. v[i] \in NodeType
      BY <1>3, <3>1, ElementOfSeq
    <3> QED
      BY <2>1, <2>2, <2>5, <3>1, <3>2, <3>3
  <2>6. CASE a \notin s.stop \cup s.start
    <3>1. w[i] = ns[i]
      BY <2>3, <2>6
    <3> QED
      BY <2>1, <2>2, <2>6, <3>1
  <2> QED
    BY <2>4, <2>5, <2>6
<1>7. w = [i \in 1 .. N |-> w[i]] /\ DOMAIN w = 1 .. N
  BY <1>2, <1>4 DEF Told
<1>8. w \in [1 .. N -> NodeType]
  BY <1>6, <1>7
<1>9. w \in Seq(NodeType)
  BY <1>3, <1>8, SeqDef
<1>10. Len(w) = N
  BY <1>3, <1>8, <1>9, LenProperties
<1> QED
  BY <1>1, <1>2, <1>4, <1>6, <1>7, <1>9, <1>10 DEF Moved

\* Docks and glows after a frame, and who is at work for the demo.
LEMMA WorkMoves ==
    ASSUME StageTypes, DockFollowsWork, GlowAsAsked, DemoWorks,
           NEW stop \in SUBSET Cast, NEW start \in SUBSET Cast,
           Moved(nodes', stop, start), asked' = (asked \ stop) \cup start, byId' = byId, leftover' = leftover
    PROVE  /\ DockFollowsWork' /\ GlowAsAsked'
           /\ demo.running =>
                 \A i \in DOMAIN nodes' : nodes'[i].target = 1 =>
                    \/ nodes'[i].agent \in leftover
                    \/ nodes'[i].agent \in (AtWork(demo.i) \ stop) \cup start /\ byId[nodes'[i].agent] = i
<1>1. DOMAIN nodes' = 1 .. Len(nodes) /\ DOMAIN nodes = 1 .. Len(nodes)
  BY DEF Moved
<1>2. ASSUME NEW i \in 1 .. Len(nodes)
      PROVE  /\ nodes'[i].dock.active => nodes'[i].target = 1
             /\ nodes'[i].target = 1 /\ nodes'[i].agent \notin asked' => byId[nodes'[i].agent] # i
             /\ demo.running /\ nodes'[i].target = 1 =>
                   \/ nodes'[i].agent \in leftover
                   \/ nodes'[i].agent \in (AtWork(demo.i) \ stop) \cup start /\ byId[nodes'[i].agent] = i
  <2>1. PICK a, n, m : a = nodes[i].agent /\ n = nodes[i] /\ m = nodes'[i]
    OBVIOUS
  <2>2. /\ m.agent = a
        /\ a \in stop /\ byId[a] = i => m.target = 0 /\ ~m.dock.active
        /\ a \in start /\ byId[a] = i => m.target = 1
        /\ a \notin stop \cup start \/ byId[a] # i => m.target = n.target /\ (m.dock.active => n.dock.active)
    BY <2>1 DEF Moved
  <2>3. /\ n.dock.active => n.target = 1
        /\ n.target = 1 /\ a \notin asked => byId[a] # i
        /\ demo.running /\ n.target = 1 => a \in leftover \/ (a \in AtWork(demo.i) /\ byId[a] = i)
    BY <1>1, <2>1 DEF DockFollowsWork, GlowAsAsked, DemoWorks
  <2>4. m.dock.active => m.target = 1
    BY <2>2, <2>3
  <2>5. m.target = 1 /\ a \notin asked' => byId[a] # i
    BY <2>2, <2>3
  <2>6. demo.running /\ m.target = 1 =>
           a \in leftover \/ (a \in (AtWork(demo.i) \ stop) \cup start /\ byId[a] = i)
    BY <2>2, <2>3
  <2> QED
    BY <2>1, <2>2, <2>4, <2>5, <2>6
<1> QED
  BY <1>1, <1>2 DEF DockFollowsWork, GlowAsAsked
-----------------------------------------------------------------------------
\* How beams and pings are on their way when the pulse's timer is at t.
Going(bs, ps, t) ==
    /\ \A k \in DOMAIN bs : bs[k].pinged <=> bs[k].age >= 2
    /\ \A j \in DOMAIN ps :
          /\ ps[j].age < ps[j].dur
          /\ IF ps[j].faint THEN ps[j].dur = PulsePing /\ ps[j].age + t >= 5
             ELSE ps[j].age + 1 >= ps[j].dur
    /\ Len(ps) <= Len(bs) + 1
    /\ \A j, k \in DOMAIN ps : ps[j].faint /\ ps[k].faint => j = k

\* A dispatch adds a beam, and a ping that is gone after the next frame.
LEMMA Launched ==
    ASSUME NEW BT, NEW bs \in Seq(BT), NEW b \in BT, b.age = 0, ~b.pinged,
           NEW ps \in Seq(PingType), NEW t, Going(bs, ps, t)
    PROVE  /\ Append(bs, b) \in Seq(BT) /\ Append(ps, OrbPing) \in Seq(PingType)
           /\ Going(Append(bs, b), Append(ps, OrbPing), t)
           /\ \A h \in DOMAIN bs : h \in DOMAIN Append(bs, b) /\ Append(bs, b)[h] = bs[h]
<1>1. PICK o \in PingType : o = OrbPing /\ o.age = 0 /\ o.dur = 1 /\ ~o.faint
  <2>1. OrbPing = [age |-> 0, dur |-> 1, faint |-> FALSE]
    BY DEF OrbPing, SendPing
  <2>2. OrbPing \in PingType
    BY <2>1 DEF PingType, PulsePing
  <2> QED
    BY <2>1, <2>2
<1>2. PICK B, P : B = Len(bs) /\ P = Len(ps)
  OBVIOUS
<1>3. B \in Nat /\ P \in Nat /\ DOMAIN bs = 1 .. B /\ DOMAIN ps = 1 .. P
  BY <1>2, LenProperties
<1>4. PICK cs, qs : cs = Append(bs, b) /\ qs = Append(ps, o)
  OBVIOUS
<1>5. /\ cs \in Seq(BT) /\ Len(cs) = B + 1 /\ cs[B + 1] = b
      /\ \A k \in 1 .. B : cs[k] = bs[k]
  BY <1>2, <1>4, AppendProperties
<1>6. /\ qs \in Seq(PingType) /\ Len(qs) = P + 1 /\ qs[P + 1] = o
      /\ \A k \in 1 .. P : qs[k] = ps[k]
  BY <1>2, <1>4, AppendProperties
<1>7. DOMAIN cs = 1 .. B + 1 /\ DOMAIN qs = 1 .. P + 1
  BY <1>5, <1>6, LenProperties
<1>8. ASSUME NEW k \in 1 .. B + 1 PROVE cs[k].pinged <=> cs[k].age >= 2
  <2>1. CASE k = B + 1
    <3>1. cs[k].age = 0 /\ ~cs[k].pinged
      BY <1>5, <2>1
    <3> QED
      BY <3>1
  <2>2. CASE k \in 1 .. B
    <3>1. bs[k].pinged <=> bs[k].age >= 2
      BY <1>3, <2>2 DEF Going
    <3> QED
      BY <1>5, <2>2, <3>1
  <2> QED
    BY <1>3, <2>1, <2>2
<1>9. ASSUME NEW j \in 1 .. P + 1
      PROVE  /\ qs[j].age < qs[j].dur
             /\ IF qs[j].faint THEN qs[j].dur = PulsePing /\ qs[j].age + t >= 5
                ELSE qs[j].age + 1 >= qs[j].dur
  <2>1. CASE j = P + 1
    <3>1. qs[j].age = 0 /\ qs[j].dur = 1 /\ ~qs[j].faint
      BY <1>1, <1>6, <2>1
    <3> QED
      BY <3>1
  <2>2. CASE j \in 1 .. P
    <3>1. /\ ps[j].age < ps[j].dur
          /\ IF ps[j].faint THEN ps[j].dur = PulsePing /\ ps[j].age + t >= 5
             ELSE ps[j].age + 1 >= ps[j].dur
      BY <1>3, <2>2 DEF Going
    <3> QED
      BY <1>6, <2>2, <3>1
  <2> QED
    BY <1>3, <2>1, <2>2
<1>10. ASSUME NEW j \in 1 .. P + 1, NEW k \in 1 .. P + 1, qs[j].faint, qs[k].faint
       PROVE  j = k
  <2>1. ~qs[P + 1].faint
    BY <1>1, <1>6
  <2>2. j \in 1 .. P /\ k \in 1 .. P
    BY <1>3, <1>10, <2>1
  <2>3. ps[j].faint /\ ps[k].faint
    BY <1>6, <1>10, <2>2
  <2> QED
    BY <1>3, <2>2, <2>3 DEF Going
<1>11. Len(qs) <= Len(cs) + 1
  BY <1>2, <1>3, <1>5, <1>6 DEF Going
<1>12. Going(cs, qs, t)
  BY <1>7, <1>8, <1>9, <1>10, <1>11 DEF Going
<1> QED
  BY <1>1, <1>3, <1>4, <1>5, <1>6, <1>7, <1>12

\* Beams and pings after a frame, before a step of the demo adds to them.
LEMMA FramePasses ==
    ASSUME StageTypes, Beats, PingsBounded
    PROVE  /\ BeamsAfter \in Seq(BeamType) /\ PingsAfter \in Seq(PingType)
           /\ Going(BeamsAfter, PingsAfter, PulseTimerAfter)
<1>1. LET peaks == {k \in DOMAIN Aged : AtPeak(Aged[k])}
      IN  Cardinality(peaks) \in Nat /\ Cardinality(peaks) <= Len(BeamsAfter)
  BY BeamsPass
<1>2. PICK A \in Nat : A = Cardinality({k \in DOMAIN Aged : AtPeak(Aged[k])}) /\ A <= Len(BeamsAfter)
  BY <1>1
<1>3. /\ PingsAfter \in Seq(PingType) /\ Len(PingsAfter) <= A + 1
      /\ \A j, k \in DOMAIN PingsAfter : PingsAfter[j].faint /\ PingsAfter[k].faint => j = k
      /\ \A j \in DOMAIN PingsAfter :
            /\ PingsAfter[j].age < PingsAfter[j].dur
            /\ IF PingsAfter[j].faint
                 THEN PingsAfter[j].dur = PulsePing /\ PingsAfter[j].age + PulseTimerAfter >= 5
                 ELSE PingsAfter[j].age + 1 >= PingsAfter[j].dur
  BY <1>2, PingsPass
<1>4. /\ BeamsAfter \in Seq(BeamType)
      /\ \A k \in DOMAIN BeamsAfter : BeamsAfter[k].pinged <=> BeamsAfter[k].age >= 2
  BY BeamsPass
<1>5. Len(PingsAfter) <= Len(BeamsAfter) + 1
  <2>1. PICK b, p : b = Len(BeamsAfter) /\ p = Len(PingsAfter)
    OBVIOUS
  <2>2. b \in Nat /\ p \in Nat /\ p <= A + 1 /\ A <= b
    BY <1>2, <1>3, <1>4, <2>1, LenProperties
  <2>3. p <= b + 1
    BY <2>2
  <2> QED
    BY <2>1, <2>3
<1> QED
  BY <1>3, <1>4, <1>5 DEF Going

\* How beams and pings are on their way after a frame of the page.
LEMMA TickGoes ==
    ASSUME StageTypes, Beats, PingsBounded, Tick
    PROVE  /\ beams' \in Seq(BeamType) /\ pings' \in Seq(PingType)
           /\ Going(beams', pings', PulseTimerAfter)
           /\ \A h \in DOMAIN BeamsAfter : \E k \in DOMAIN beams' : beams'[k].node = BeamsAfter[h].node
<1>1. PICK bs, ps, t : bs = BeamsAfter /\ ps = PingsAfter /\ t = PulseTimerAfter
  OBVIOUS
<1>2. bs \in Seq(BeamType) /\ ps \in Seq(PingType) /\ Going(bs, ps, t)
  BY <1>1, FramePasses
<1>3. CASE beams' = bs /\ pings' = ps
  BY <1>1, <1>2, <1>3
<1>4. CASE \E b \in BeamType : b.age = 0 /\ ~b.pinged /\ beams' = Append(bs, b) /\ pings' = Append(ps, OrbPing)
  <2>1. PICK b \in BeamType : b.age = 0 /\ ~b.pinged /\ beams' = Append(bs, b) /\ pings' = Append(ps, OrbPing)
    BY <1>4, Zenon
  <2>2. /\ Append(bs, b) \in Seq(BeamType) /\ Append(ps, OrbPing) \in Seq(PingType)
        /\ Going(Append(bs, b), Append(ps, OrbPing), t)
        /\ \A h \in DOMAIN bs : h \in DOMAIN Append(bs, b) /\ Append(bs, b)[h] = bs[h]
    BY <1>2, <2>1, Launched
  <2> QED
    BY <1>1, <2>1, <2>2
<1>5. CASE StepDue # 0
  <2>0. PICK s : s = Script[StepDue] /\ RunStep(s)
    BY <1>5 DEF Tick
  <2>2. PICK told : told = {a \in s.start : byId[a] # 0}
    OBVIOUS
  <2>1. /\ beams' = IF told = {} THEN BeamsAfter ELSE Append(BeamsAfter, Beam(CHOOSE a \in told : TRUE))
        /\ pings' = IF told = {} THEN PingsAfter ELSE Append(PingsAfter, OrbPing)
    <3>1. LET l == {a \in s.start : byId[a] # 0}
          IN  /\ beams' = IF l = {} THEN BeamsAfter ELSE Append(BeamsAfter, Beam(CHOOSE a \in l : TRUE))
              /\ pings' = IF l = {} THEN PingsAfter ELSE Append(PingsAfter, OrbPing)
      BY <2>0 DEF RunStep
    <3> QED
      BY <2>2, <3>1
  <2>3. /\ told = {} => beams' = bs /\ pings' = ps
        /\ told # {} => beams' = Append(bs, Beam(CHOOSE a \in told : TRUE)) /\ pings' = Append(ps, OrbPing)
    BY <1>1, <2>1
  <2>4. CASE told = {}
    BY <1>3, <2>3, <2>4
  <2>5. CASE told # {}
    <3>1. PICK a : a = CHOOSE x \in told : TRUE
      OBVIOUS
    <3>2. a \in told
      BY <2>5, <3>1, Zenon
    <3>3. a \in AnAgent /\ byId[a] # 0
      <4>1. PICK k \in 1 .. 8 : k = StepDue /\ k = (demo.i % 8) + 1 /\ demo.i \in 0 .. 8
        BY <1>5, ScriptSteps DEF StepDue, StageTypes
      <4>2. Script[k].start \subseteq Cast
        BY <4>1, Scripted
      <4> QED
        BY <2>0, <2>2, <3>2, <4>1, <4>2 DEF AnAgent
    <3>4. PICK n \in 1 .. Len(nodes) : n = byId[a]
      BY <3>3 DEF StageTypes
    <3>5. PICK b \in BeamType : b = Beam(a) /\ b.age = 0 /\ ~b.pinged
      <4>1. Beam(a) = [node |-> n, age |-> 0, pinged |-> FALSE]
        BY <3>4 DEF Beam
      <4>2. [node |-> n, age |-> 0, pinged |-> FALSE] \in BeamType
        BY DEF BeamType, BeamLife
      <4> QED
        BY <4>1, <4>2
    <3>6. beams' = Append(bs, b) /\ pings' = Append(ps, OrbPing)
      BY <2>3, <2>5, <3>1, <3>5, Zenon
    <3> QED
      BY <1>4, <3>5, <3>6
  <2> QED
    BY <2>4, <2>5
<1>6. CASE StepDue = 0
  BY <1>1, <1>3, <1>6 DEF Tick
<1> QED
  BY <1>5, <1>6

\* A frame in terms of what it does: agents are moved by the step of the demo
\* that is due, if one is.
LEMMA TickMoves ==
    ASSUME StageIInv, Tick
    PROVE  \E stop \in SUBSET Cast, start \in SUBSET Cast :
              /\ Moved(nodes', stop, start) /\ asked' = (asked \ stop) \cup start
              /\ demo' \in [running : BOOLEAN, i : 0 .. Len(Script), timer : 0 .. 7]
              /\ demo'.running = demo.running /\ mood' \in {"idle", "listening", "processing", "speaking"}
              /\ ~demo.running => demo'.i = 0
              /\ demo'.i # 0 => mood' = Script[demo'.i].mood
              /\ AtWork(demo'.i) = (AtWork(demo.i) \ stop) \cup start
<1>0. StageTypes /\ Beats /\ FlareHasBeam /\ DemoWorks
  BY DEF StageIInv
<1>1. PICK d : d = demo
  OBVIOUS
<1>2. d \in [running : BOOLEAN, i : 0 .. 8, timer : 0 .. 7] /\ (~d.running => d.i = 0)
  BY <1>0, <1>1, ScriptSteps DEF StageTypes, DemoWorks
<1>3. CASE StepDue = 0
  <2>1. /\ demo' = [d EXCEPT !.timer = IF d.running THEN @ - 1 ELSE @] /\ nodes' = NodesAfter
        /\ mood' = mood /\ asked' = asked
    BY <1>1, <1>3 DEF Tick
  <2>2. ~d.running \/ ~(d.timer - 1 <= 0)
    <3>1. (d.i % 8) + 1 # 0
      BY <1>2
    <3> QED
      BY <1>1, <1>3, <3>1, ScriptSteps DEF StepDue
  <2>3. /\ demo' \in [running : BOOLEAN, i : 0 .. 8, timer : 0 .. 7]
        /\ demo'.running = d.running /\ demo'.i = d.i
    <3>1. PICK t : t = IF d.running THEN d.timer - 1 ELSE d.timer
      OBVIOUS
    <3>2. t \in 0 .. 7
      BY <1>2, <2>2, <3>1
    <3>3. demo' = [d EXCEPT !.timer = t]
      BY <1>2, <2>1, <3>1
    <3> QED
      BY <1>2, <3>2, <3>3
  <2>4. Moved(nodes', {}, {})
    BY <1>0, <2>1, JustMoved
  <2>5. asked' = (asked \ {}) \cup {} /\ AtWork(demo'.i) = (AtWork(demo.i) \ {}) \cup {}
    BY <1>1, <2>1, <2>3
  <2>6. demo'.i # 0 => mood' = Script[demo'.i].mood
    BY <1>0, <1>1, <2>1, <2>3 DEF DemoWorks
  <2>7. mood' \in {"idle", "listening", "processing", "speaking"}
    BY <1>0, <2>1 DEF StageTypes
  <2>8. demo' \in [running : BOOLEAN, i : 0 .. Len(Script), timer : 0 .. 7]
    BY <2>3, ScriptSteps
  <2>9. {} \in SUBSET Cast
    OBVIOUS
  <2> QED
    BY <1>1, <1>2, <2>3, <2>4, <2>5, <2>6, <2>7, <2>8, <2>9
<1>4. CASE StepDue # 0
  <2>1. PICK k \in 1 .. 8 : k = StepDue /\ k = (d.i % 8) + 1
    BY <1>1, <1>2, <1>4, ScriptSteps DEF StepDue
  <2>2. d.running
    BY <1>1, <1>4 DEF StepDue
  <2>3. PICK s : s = Script[k]
    OBVIOUS
  <2>4. demo' = [d EXCEPT !.i = k, !.timer = s.dur] /\ RunStep(s)
    BY <1>1, <1>4, <2>1, <2>3 DEF Tick
  <2>5. mood' = s.mood /\ nodes' = Told(s) /\ asked' = (asked \ s.stop) \cup s.start
    BY <2>4 DEF RunStep, Told
  <2>6. /\ s.mood \in {"idle", "listening", "processing", "speaking"}
        /\ s.stop \subseteq Cast /\ s.start \subseteq Cast /\ s.stop \cap s.start = {}
        /\ s.dur \in 1 .. 7
        /\ AtWork(k) = (AtWork(d.i) \ s.stop) \cup s.start
    BY <1>2, <2>1, <2>3, Scripted
  <2>7. Moved(nodes', s.stop, s.start)
    BY <1>0, <2>5, <2>6, ToldMoved
  <2>8. demo' \in [running : BOOLEAN, i : 0 .. 8, timer : 0 .. 7] /\ demo'.running = d.running /\ demo'.i = k
    <3>1. PICK t \in 0 .. 7 : t = s.dur
      BY <2>6
    <3>0. k \in 0 .. 8
      OBVIOUS
    <3>2. demo' = [d EXCEPT !.i = k, !.timer = t]
      BY <2>4, <3>1
    <3>3. /\ [d EXCEPT !.i = k, !.timer = t] \in [running : BOOLEAN, i : 0 .. 8, timer : 0 .. 7]
          /\ [d EXCEPT !.i = k, !.timer = t].running = d.running /\ [d EXCEPT !.i = k, !.timer = t].i = k
      BY <1>2, <3>0
    <3> QED
      BY <3>2, <3>3
  <2>9. demo' \in [running : BOOLEAN, i : 0 .. Len(Script), timer : 0 .. 7]
    BY <2>8, ScriptSteps
  <2>10. PICK stop \in SUBSET Cast, start \in SUBSET Cast : stop = s.stop /\ start = s.start
    BY <2>6
  <2>11. /\ Moved(nodes', stop, start) /\ asked' = (asked \ stop) \cup start
         /\ AtWork(demo'.i) = (AtWork(demo.i) \ stop) \cup start
    BY <1>1, <2>5, <2>6, <2>7, <2>8, <2>10
  <2>12. demo'.i # 0 => mood' = Script[demo'.i].mood
    BY <2>3, <2>5, <2>8
  <2>13. mood' \in {"idle", "listening", "processing", "speaking"}
    BY <2>5, <2>6
  <2> QED
    BY <1>1, <2>2, <2>8, <2>9, <2>11, <2>12, <2>13
<1> QED
  BY <1>3, <1>4

\* A frame of the page.
LEMMA TickStage ==
    ASSUME StageIInv, Tick
    PROVE  StageIInv'
<1>0. StageTypes /\ Beats /\ PingsBounded /\ FlareHasBeam /\ DockFollowsWork /\ GlowAsAsked /\ DemoWorks
  BY DEF StageIInv
<1>1. PICK stop \in SUBSET Cast, start \in SUBSET Cast :
         /\ Moved(nodes', stop, start) /\ asked' = (asked \ stop) \cup start
         /\ demo' \in [running : BOOLEAN, i : 0 .. Len(Script), timer : 0 .. 7]
         /\ demo'.running = demo.running /\ mood' \in {"idle", "listening", "processing", "speaking"}
         /\ ~demo.running => demo'.i = 0
         /\ demo'.i # 0 => mood' = Script[demo'.i].mood
         /\ AtWork(demo'.i) = (AtWork(demo.i) \ stop) \cup start
  BY TickMoves
<1>2. /\ byId' = byId /\ panels' = panels /\ socket' = socket /\ sent' = sent /\ leftover' = leftover
      /\ pulseTimer' = PulseTimerAfter
  BY DEF Tick, PulseTimerAfter
<1>3. /\ beams' \in Seq(BeamType) /\ pings' \in Seq(PingType)
      /\ Going(beams', pings', PulseTimerAfter)
      /\ \A h \in DOMAIN BeamsAfter : \E k \in DOMAIN beams' : beams'[k].node = BeamsAfter[h].node
  BY <1>0, TickGoes
<1>4. /\ nodes' \in Seq(NodeType) /\ Len(nodes') = Len(nodes)
      /\ DOMAIN nodes' = 1 .. Len(nodes) /\ DOMAIN nodes = 1 .. Len(nodes)
      /\ \A i \in 1 .. Len(nodes) :
            /\ nodes'[i].agent = nodes[i].agent
            /\ nodes'[i].flare => \E h \in DOMAIN BeamsAfter : BeamsAfter[h].node = i
  BY <1>1 DEF Moved
<1>5. BeamType' = BeamType
  BY <1>4 DEF BeamType
<1>6. /\ DockFollowsWork' /\ GlowAsAsked'
      /\ demo.running =>
            \A i \in DOMAIN nodes' : nodes'[i].target = 1 =>
               \/ nodes'[i].agent \in leftover
               \/ nodes'[i].agent \in (AtWork(demo.i) \ stop) \cup start /\ byId[nodes'[i].agent] = i
  BY <1>0, <1>1, <1>2, WorkMoves
<1>7. StageTypes'
  <2>1. PulseTimerAfter \in 0 .. PulseEvery
    BY <1>0, TimerPasses DEF PulseEvery
  <2>2. \A a \in AnAgent : byId'[a] # 0 => nodes'[byId'[a]].agent = a
    <3> SUFFICES ASSUME NEW a \in AnAgent, byId[a] # 0 PROVE nodes'[byId[a]].agent = a
      BY <1>2
    <3>1. byId[a] \in 1 .. Len(nodes) /\ nodes[byId[a]].agent = a
      BY <1>0, LenProperties DEF StageTypes
    <3> QED
      BY <1>4, <3>1
  <2>3. asked' \subseteq AnAgent
    BY <1>0, <1>1 DEF StageTypes, AnAgent
  <2>4. byId' \in [AnAgent -> 0 .. Len(nodes')]
    BY <1>0, <1>2, <1>4 DEF StageTypes
  <2>5. /\ panels' \subseteq Cast /\ socket' \in {"none", "open", "closed", "failed"}
        /\ sent' \in 0 .. MaxMessages /\ leftover' \subseteq AnAgent
    BY <1>0, <1>2 DEF StageTypes
  <2>6. beams' \in Seq(BeamType') /\ pulseTimer' \in 0 .. PulseEvery
    BY <1>2, <1>3, <1>5, <2>1
  <2> QED
    BY <1>1, <1>3, <1>4, <2>2, <2>3, <2>4, <2>5, <2>6 DEF StageTypes
<1>8. FlareHasBeam'
  BY <1>3, <1>4 DEF FlareHasBeam
<1>9. Beats' /\ PingsBounded'
  BY <1>2, <1>3 DEF Going, Beats, PingsBounded
<1>10. DemoWorks'
  <2>1. demo'.running <=> socket' \in {"none", "failed"}
    BY <1>0, <1>1, <1>2 DEF DemoWorks
  <2>2. demo.running =>
           \A i \in DOMAIN nodes' : nodes'[i].target = 1 =>
              \/ nodes'[i].agent \in leftover'
              \/ nodes'[i].agent \in AtWork(demo'.i) /\ byId'[nodes'[i].agent] = i
    BY <1>1, <1>2, <1>6
  <2>3. /\ ~demo'.running => demo'.i = 0
        /\ demo'.i # 0 => mood' = Script[demo'.i].mood
    BY <1>1
  <2>4. demo'.running => demo.running
    BY <1>1
  <2> QED
    BY <2>1, <2>2, <2>3, <2>4, Zenon DEF DemoWorks
<1> QED
  BY <1>6, <1>7, <1>8, <1>9, <1>10 DEF StageIInv
-----------------------------------------------------------------------------
(* The messages of a backend. *)

\* A message comes from a backend that is there: the demo does not run.
LEMMA NoDemoYet ==
    ASSUME StageTypes, DemoWorks, socket = "open"
    PROVE  ~demo.running /\ demo.i = 0
BY DEF DemoWorks

LEMMA Received ==
    ASSUME StageTypes, Receive
    PROVE  sent' \in 0 .. MaxMessages /\ socket = "open"
BY StageAssumption DEF StageTypes, Receive

LEMMA MoodStage ==
    ASSUME StageIInv, NEW m \in {"idle", "processing"}, SetMood(m)
    PROVE  StageIInv'
<1>1. StageTypes'
  BY Received DEF StageIInv, StageTypes, SetMood, BeamType
<1>2. FlareHasBeam' /\ DockFollowsWork' /\ GlowAsAsked'
  BY DEF StageIInv, FlareHasBeam, DockFollowsWork, GlowAsAsked, SetMood
<1>3. Beats' /\ PingsBounded'
  BY DEF StageIInv, Beats, PingsBounded, SetMood
<1>4. DemoWorks'
  BY NoDemoYet DEF StageIInv, DemoWorks, SetMood, Receive
<1> QED
  BY <1>1, <1>2, <1>3, <1>4 DEF StageIInv

LEMMA PageStage ==
    ASSUME StageIInv, ChangePage
    PROVE  StageIInv'
<1>1. StageTypes'
  BY Received DEF StageIInv, StageTypes, ChangePage, BeamType
<1>2. FlareHasBeam' /\ DockFollowsWork' /\ GlowAsAsked'
  BY DEF StageIInv, FlareHasBeam, DockFollowsWork, GlowAsAsked, ChangePage
<1>3. Beats' /\ PingsBounded'
  BY DEF StageIInv, Beats, PingsBounded, ChangePage
<1>4. DemoWorks'
  BY DEF StageIInv, DemoWorks, ChangePage
<1> QED
  BY <1>1, <1>2, <1>3, <1>4 DEF StageIInv

LEMMA ClosesStage ==
    ASSUME StageIInv, BackendCloses
    PROVE  StageIInv'
<1>1. StageTypes'
  BY DEF StageIInv, StageTypes, BackendCloses, BeamType
<1>2. FlareHasBeam' /\ DockFollowsWork' /\ GlowAsAsked'
  BY DEF StageIInv, FlareHasBeam, DockFollowsWork, GlowAsAsked, BackendCloses
<1>3. Beats' /\ PingsBounded'
  BY DEF StageIInv, Beats, PingsBounded, BackendCloses
<1>4. DemoWorks'
  BY NoDemoYet DEF StageIInv, DemoWorks, BackendCloses
<1> QED
  BY <1>1, <1>2, <1>3, <1>4 DEF StageIInv

\* Whoever works when the backend fails is left working.
LEMMA FailsStage ==
    ASSUME StageIInv, BackendFails
    PROVE  StageIInv'
<1>1. StageTypes'
  <2>1. demo' \in [running : BOOLEAN, i : 0 .. 8, timer : 0 .. 7]
    BY DEF BackendFails, NewDemo
  <2>2. leftover' \subseteq AnAgent
    BY DEF BackendFails
  <2> QED
    BY <2>1, <2>2, ScriptSteps DEF StageIInv, StageTypes, BackendFails, BeamType
<1>2. FlareHasBeam' /\ DockFollowsWork' /\ GlowAsAsked'
  BY DEF StageIInv, FlareHasBeam, DockFollowsWork, GlowAsAsked, BackendFails
<1>3. Beats' /\ PingsBounded'
  BY DEF StageIInv, Beats, PingsBounded, BackendFails
<1>4. DemoWorks'
  <2>1. demo'.running /\ demo'.i = 0 /\ socket' = "failed"
    BY DEF BackendFails, NewDemo
  <2>2. ASSUME NEW i \in DOMAIN nodes, nodes[i].target = 1 PROVE nodes[i].agent \in leftover'
    <3>0. nodes[i] \in NodeType
      BY ElementOfSeq, LenProperties DEF StageIInv, StageTypes
    <3>1. nodes[i].agent \in AnAgent
      BY <3>0 DEF NodeType
    <3> QED
      BY <2>2, <3>1 DEF BackendFails
  <2>3. nodes' = nodes
    BY DEF BackendFails
  <2> QED
    BY <2>1, <2>2, <2>3 DEF DemoWorks
<1> QED
  BY <1>1, <1>2, <1>3, <1>4 DEF StageIInv

LEMMA DispatchStage ==
    ASSUME StageIInv, NEW a \in AnAgent, Dispatch(a)
    PROVE  StageIInv'
<1>0. StageTypes /\ Beats /\ PingsBounded /\ FlareHasBeam
  BY DEF StageIInv
<1>1. PICK bs, ps, t : bs = beams /\ ps = pings /\ t = pulseTimer
  OBVIOUS
<1>2. bs \in Seq(BeamType) /\ ps \in Seq(PingType) /\ Going(bs, ps, t)
  BY <1>0, <1>1 DEF StageTypes, Beats, PingsBounded, Going
<1>3. PICK b \in BeamType : b = Beam(a) /\ b.age = 0 /\ ~b.pinged
  <2>1. PICK n \in 1 .. Len(nodes) : n = byId[a]
    BY <1>0 DEF Dispatch, StageTypes
  <2>2. Beam(a) = [node |-> n, age |-> 0, pinged |-> FALSE]
    BY <2>1 DEF Beam
  <2>3. [node |-> n, age |-> 0, pinged |-> FALSE] \in BeamType
    BY DEF BeamType, BeamLife
  <2> QED
    BY <2>2, <2>3
<1>4. /\ Append(bs, b) \in Seq(BeamType) /\ Append(ps, OrbPing) \in Seq(PingType)
      /\ Going(Append(bs, b), Append(ps, OrbPing), t)
      /\ \A h \in DOMAIN bs : h \in DOMAIN Append(bs, b) /\ Append(bs, b)[h] = bs[h]
  BY <1>2, <1>3, Launched
<1>5. beams' = Append(bs, b) /\ pings' = Append(ps, OrbPing) /\ pulseTimer' = t
  BY <1>1, <1>3 DEF Dispatch
<1>6. StageTypes'
  <2>1. BeamType' = BeamType
    BY DEF Dispatch, BeamType
  <2>2. beams' \in Seq(BeamType') /\ pings' \in Seq(PingType)
    BY <1>4, <1>5, <2>1
  <2> QED
    BY <1>0, <2>2, Received DEF StageTypes, Dispatch
<1>7. DockFollowsWork' /\ GlowAsAsked' /\ DemoWorks'
  BY DEF StageIInv, DockFollowsWork, GlowAsAsked, DemoWorks, Dispatch
<1>8. FlareHasBeam'
  <2>1. nodes' = nodes
    BY DEF Dispatch
  <2> QED
    BY <1>0, <1>1, <1>4, <1>5, <2>1 DEF FlareHasBeam
<1>9. Beats' /\ PingsBounded'
  BY <1>4, <1>5 DEF Going, Beats, PingsBounded
<1> QED
  BY <1>6, <1>7, <1>8, <1>9 DEF StageIInv

LEMMA WorkingStage ==
    ASSUME StageIInv, NEW a \in AnAgent, NEW on \in BOOLEAN, SetWorking(a, on)
    PROVE  StageIInv'
<1>0. StageTypes /\ DemoWorks
  BY DEF StageIInv
<1>1. PICK N \in Nat : N = Len(nodes) /\ DOMAIN nodes = 1 .. N
  BY <1>0, LenProperties DEF StageTypes
<1>2. /\ nodes' \in Seq(NodeType) /\ Len(nodes') = N
      /\ \A i \in 1 .. N :
            /\ nodes'[i].agent = nodes[i].agent /\ nodes'[i].flare = nodes[i].flare
            /\ i # byId[a] => nodes'[i] = nodes[i]
            /\ i = byId[a] => /\ nodes'[i].target = (IF on THEN 1 ELSE 0)
                              /\ nodes'[i].dock.active => on
  <2>1. PICK ns \in Seq(NodeType) : ns = nodes
    BY <1>0 DEF StageTypes
  <2>2. LET w == Working(ns, a, on)
        IN  /\ w \in Seq(NodeType) /\ Len(w) = Len(ns)
            /\ \A i \in 1 .. Len(ns) :
                  /\ w[i].agent = ns[i].agent /\ w[i].flare = ns[i].flare
                  /\ i # byId[a] => w[i] = ns[i]
                  /\ i = byId[a] => /\ w[i].target = (IF on THEN 1 ELSE 0)
                                    /\ w[i].dock.active => on
    BY WorkingOf
  <2>3. nodes' = Working(ns, a, on)
    BY <2>1 DEF SetWorking
  <2> QED
    BY <1>1, <2>1, <2>2, <2>3
<1>3. DOMAIN nodes' = 1 .. N
  BY <1>2, LenProperties
<1>4. /\ UNCHANGED <<mood, pulseTimer, byId, panels, beams, pings, socket, demo, leftover>>
      /\ asked' = (IF on THEN asked \cup {a} ELSE asked \ {a})
      /\ sent' \in 0 .. MaxMessages /\ socket = "open"
  BY <1>0, Received DEF SetWorking
<1>5. StageTypes'
  <2>1. BeamType' = BeamType
    BY <1>1, <1>2 DEF BeamType
  <2>2. beams' \in Seq(BeamType') /\ byId' \in [AnAgent -> 0 .. Len(nodes')]
    BY <1>0, <1>1, <1>2, <1>4, <2>1 DEF StageTypes
  <2>3. \A c \in AnAgent : byId'[c] # 0 => nodes'[byId'[c]].agent = c
    <3> SUFFICES ASSUME NEW c \in AnAgent, byId[c] # 0 PROVE nodes'[byId[c]].agent = c
      BY <1>4
    <3>1. byId[c] \in 1 .. N /\ nodes[byId[c]].agent = c
      BY <1>0, <1>1 DEF StageTypes
    <3> QED
      BY <1>2, <3>1
  <2>4. asked' \subseteq AnAgent
    BY <1>0, <1>4 DEF StageTypes
  <2> QED
    BY <1>0, <1>2, <1>4, <2>2, <2>3, <2>4 DEF StageTypes
<1>6. FlareHasBeam'
  BY <1>1, <1>2, <1>3, <1>4 DEF StageIInv, FlareHasBeam
<1>7. DockFollowsWork'
  BY <1>1, <1>2, <1>3 DEF StageIInv, DockFollowsWork
<1>8. GlowAsAsked'
  <2> SUFFICES ASSUME NEW i \in 1 .. N, nodes'[i].target = 1, nodes'[i].agent \notin asked'
               PROVE  byId[nodes'[i].agent] # i
    BY <1>3, <1>4 DEF GlowAsAsked
  <2>1. CASE i = byId[a]
    <3>1. nodes[i].agent = a
      BY <1>0, <1>1, <2>1 DEF StageTypes
    <3>2. on /\ nodes'[i].agent = a
      BY <1>2, <2>1, <3>1
    <3> QED
      BY <1>4, <3>2
  <2>2. CASE i # byId[a]
    <3>1. nodes'[i] = nodes[i]
      BY <1>2, <2>2
    <3>2. CASE nodes[i].agent = a
      BY <2>2, <3>1, <3>2
    <3>3. CASE nodes[i].agent # a
      <4>1. nodes[i].agent \notin asked
        BY <1>4, <3>1, <3>3
      <4> QED
        BY <1>1, <3>1, <4>1 DEF StageIInv, GlowAsAsked
    <3> QED
      BY <3>2, <3>3
  <2> QED
    BY <2>1, <2>2
<1>9. Beats' /\ PingsBounded'
  BY <1>4 DEF StageIInv, Beats, PingsBounded
<1>10. DemoWorks'
  BY <1>0, <1>4, NoDemoYet DEF DemoWorks
<1> QED
  BY <1>5, <1>6, <1>7, <1>8, <1>9, <1>10 DEF StageIInv

\* A new node takes the id over, and rests.
LEMMA AddStage ==
    ASSUME StageIInv, NEW a \in AnAgent, AddAgent(a)
    PROVE  StageIInv'
<1>0. StageTypes /\ DemoWorks
  BY DEF StageIInv
<1>1. PICK N \in Nat : N = Len(nodes) /\ DOMAIN nodes = 1 .. N
  BY <1>0, LenProperties DEF StageTypes
<1>2. PICK n \in NodeType : /\ n = NewNode(a) /\ n.agent = a /\ n.target = 0
                            /\ ~n.flare /\ ~n.dock.active
  <2>1. NoDock \in DockState /\ ~NoDock.active
    BY StageAssumption DEF NoDock, DockState
  <2>2. NewNode(a) = [agent |-> a, target |-> 0, flare |-> FALSE, dock |-> NoDock]
    BY DEF NewNode
  <2>3. [agent |-> a, target |-> 0, flare |-> FALSE, dock |-> NoDock] \in NodeType
    BY <2>1 DEF NodeType
  <2> QED
    BY <2>1, <2>2, <2>3
<1>3. /\ nodes' \in Seq(NodeType) /\ Len(nodes') = N + 1 /\ nodes'[N + 1] = n
      /\ \A i \in 1 .. N : nodes'[i] = nodes[i]
  <2>1. nodes' = Append(nodes, n)
    BY <1>2 DEF AddAgent
  <2> QED
    BY <1>0, <1>1, <2>1, AppendProperties DEF StageTypes
<1>4. DOMAIN nodes' = 1 .. N + 1
  BY <1>3, LenProperties
<1>5. /\ UNCHANGED <<mood, pulseTimer, panels, beams, pings, socket, demo, asked, leftover>>
      /\ byId' = [byId EXCEPT ![a] = N + 1]
      /\ sent' \in 0 .. MaxMessages /\ socket = "open"
  BY <1>0, <1>3, Received DEF AddAgent
<1>6. /\ byId' \in [AnAgent -> 0 .. N + 1] /\ byId'[a] = N + 1
      /\ \A c \in AnAgent : c # a => byId'[c] = byId[c] /\ byId[c] \in 0 .. N
  BY <1>0, <1>1, <1>5 DEF StageTypes
<1>7. ASSUME NEW i \in 1 .. N + 1 PROVE i = N + 1 \/ i \in 1 .. N
  BY <1>1
<1>8. StageTypes'
  <2>1. beams' \in Seq(BeamType')
    <3>1. BeamType \subseteq BeamType'
      BY <1>1, <1>3 DEF BeamType
    <3>2. PICK b : b = Len(beams)
      OBVIOUS
    <3>3. beams \in [1 .. b -> BeamType] /\ b \in Nat
      BY <1>0, <3>2, LenProperties DEF StageTypes
    <3>4. beams \in [1 .. b -> BeamType']
      BY <3>1, <3>3
    <3>5. beams \in Seq(BeamType')
      BY <3>3, <3>4, SeqDef
    <3> QED
      BY <1>5, <3>5
  <2>2. \A c \in AnAgent : byId'[c] # 0 => nodes'[byId'[c]].agent = c
    <3> SUFFICES ASSUME NEW c \in AnAgent, byId'[c] # 0 PROVE nodes'[byId'[c]].agent = c
      OBVIOUS
    <3>1. CASE c = a
      BY <1>2, <1>3, <1>6, <3>1
    <3>2. CASE c # a
      <4>1. byId'[c] = byId[c] /\ byId[c] \in 1 .. N /\ nodes[byId[c]].agent = c
        BY <1>0, <1>1, <1>6, <3>2 DEF StageTypes
      <4> QED
        BY <1>3, <4>1
    <3> QED
      BY <3>1, <3>2
  <2> QED
    BY <1>0, <1>3, <1>5, <1>6, <2>1, <2>2 DEF StageTypes
<1>9. FlareHasBeam'
  <2> SUFFICES ASSUME NEW i \in 1 .. N + 1, nodes'[i].flare
               PROVE  \E k \in DOMAIN beams : beams[k].node = i
    BY <1>4, <1>5 DEF FlareHasBeam
  <2>1. i \in 1 .. N
    BY <1>2, <1>3, <1>7
  <2> QED
    BY <1>1, <1>3, <2>1 DEF StageIInv, FlareHasBeam
<1>10. DockFollowsWork'
  <2> SUFFICES ASSUME NEW i \in 1 .. N + 1, nodes'[i].dock.active
               PROVE  nodes'[i].target = 1
    BY <1>4 DEF DockFollowsWork
  <2>1. i \in 1 .. N
    BY <1>2, <1>3, <1>7
  <2> QED
    BY <1>1, <1>3, <2>1 DEF StageIInv, DockFollowsWork
<1>11. GlowAsAsked'
  <2> SUFFICES ASSUME NEW i \in 1 .. N + 1, nodes'[i].target = 1, nodes'[i].agent \notin asked
               PROVE  byId'[nodes'[i].agent] # i
    BY <1>4, <1>5 DEF GlowAsAsked
  <2>1. i \in 1 .. N /\ i # N + 1
    BY <1>1, <1>2, <1>3, <1>7
  <2>2. nodes'[i] = nodes[i] /\ byId[nodes[i].agent] # i
    BY <1>1, <1>3, <2>1 DEF StageIInv, GlowAsAsked
  <2>3. nodes[i] \in NodeType
    BY <1>0, <1>1, <2>1, ElementOfSeq DEF StageTypes
  <2>4. nodes[i].agent \in AnAgent
    BY <2>3 DEF NodeType
  <2>5. CASE nodes[i].agent = a
    BY <1>6, <2>1, <2>2, <2>5
  <2>6. CASE nodes[i].agent # a
    BY <1>6, <2>2, <2>4, <2>6
  <2> QED
    BY <2>5, <2>6
<1>12. Beats' /\ PingsBounded'
  BY <1>5 DEF StageIInv, Beats, PingsBounded
<1>13. DemoWorks'
  BY <1>0, <1>5, NoDemoYet DEF DemoWorks
<1> QED
  BY <1>8, <1>9, <1>10, <1>11, <1>12, <1>13 DEF StageIInv

-----------------------------------------------------------------------------
LEMMA StageBegins ==
    ASSUME StageInit
    PROVE  StageIInv
<1>1. PICK N \in {0, 3} :
         /\ nodes \in Seq(NodeType) /\ Len(nodes) = N /\ DOMAIN nodes = 1 .. N
         /\ \A i \in 1 .. N : ~nodes[i].flare /\ ~nodes[i].dock.active /\ nodes[i].target = 0
         /\ byId \in [AnAgent -> 0 .. N]
         /\ \A a \in AnAgent : byId[a] # 0 => nodes[byId[a]].agent = a
  <2>1. CASE nodes = <<>> /\ byId = [a \in AnAgent |-> 0]
    <3>1. Len(nodes) = 0 /\ nodes \in Seq(NodeType) /\ DOMAIN nodes = 1 .. 0
      BY <2>1
    <3> QED
      BY <2>1, <3>1
  <2>2. CASE /\ nodes = << NewNode("scout"), NewNode("forge"), NewNode("aegis") >>
             /\ byId = [a \in AnAgent |-> CASE a = "scout" -> 1 [] a = "forge" -> 2
                                            [] a = "aegis" -> 3 [] OTHER -> 0]
    <3>1. \A a \in AnAgent : /\ NewNode(a) \in NodeType /\ NewNode(a).agent = a /\ NewNode(a).target = 0
                             /\ ~NewNode(a).flare /\ ~NewNode(a).dock.active
      <4> SUFFICES ASSUME NEW a \in AnAgent
                   PROVE  /\ NewNode(a) \in NodeType /\ NewNode(a).agent = a /\ NewNode(a).target = 0
                          /\ ~NewNode(a).flare /\ ~NewNode(a).dock.active
        OBVIOUS
      <4>1. NoDock \in DockState /\ ~NoDock.active
        BY StageAssumption DEF NoDock, DockState
      <4>2. NewNode(a) = [agent |-> a, target |-> 0, flare |-> FALSE, dock |-> NoDock]
        BY DEF NewNode
      <4>3. [agent |-> a, target |-> 0, flare |-> FALSE, dock |-> NoDock] \in NodeType
        BY <4>1 DEF NodeType
      <4> QED
        BY <4>1, <4>2, <4>3
    <3>2. PICK x, y, z : x = NewNode("scout") /\ y = NewNode("forge") /\ z = NewNode("aegis")
      OBVIOUS
    <3>3. /\ x \in NodeType /\ y \in NodeType /\ z \in NodeType
          /\ x.agent = "scout" /\ y.agent = "forge" /\ z.agent = "aegis"
          /\ x.target = 0 /\ y.target = 0 /\ z.target = 0
          /\ ~x.flare /\ ~y.flare /\ ~z.flare
          /\ ~x.dock.active /\ ~y.dock.active /\ ~z.dock.active
      BY <3>1, <3>2 DEF AnAgent, Cast
    <3>4. nodes = <<x, y, z>>
      BY <2>2, <3>2
    <3>5. /\ nodes \in Seq(NodeType) /\ Len(nodes) = 3 /\ DOMAIN nodes = 1 .. 3
          /\ nodes[1] = x /\ nodes[2] = y /\ nodes[3] = z
      BY <3>3, <3>4
    <3>6. \A i \in 1 .. 3 : ~nodes[i].flare /\ ~nodes[i].dock.active /\ nodes[i].target = 0
      BY <3>3, <3>5
    <3>7. byId \in [AnAgent -> 0 .. 3]
      BY <2>2
    <3>9. \A a \in AnAgent : byId[a] # 0 => nodes[byId[a]].agent = a
      <4> SUFFICES ASSUME NEW a \in AnAgent, byId[a] # 0 PROVE nodes[byId[a]].agent = a
        OBVIOUS
      <4>1. CASE a = "scout"
        BY <2>2, <3>3, <3>5, <4>1
      <4>2. CASE a = "forge"
        BY <2>2, <3>3, <3>5, <4>2
      <4>3. CASE a = "aegis"
        BY <2>2, <3>3, <3>5, <4>3
      <4>4. CASE a \notin {"scout", "forge", "aegis"}
        BY <2>2, <4>4
      <4> QED
        BY <4>1, <4>2, <4>3, <4>4
    <3> QED
      BY <3>5, <3>6, <3>7, <3>9
  <2> QED
    BY <2>1, <2>2 DEF StageInit
<1>2. /\ mood = "idle" /\ pulseTimer = 0 /\ panels \subseteq Cast /\ beams = <<>> /\ pings = <<>>
      /\ sent = 0 /\ asked = {} /\ leftover = {}
  BY DEF StageInit
<1>3. /\ demo \in [running : BOOLEAN, i : 0 .. 8, timer : 0 .. 7]
      /\ demo.running <=> socket \in {"none", "failed"}
      /\ demo.i = 0 /\ socket \in {"none", "open", "closed", "failed"}
  <2>1. NewDemo \in [running : BOOLEAN, i : 0 .. 8, timer : 0 .. 7] /\ NewDemo.running /\ NewDemo.i = 0
    BY DEF NewDemo
  <2>2. NoDemo \in [running : BOOLEAN, i : 0 .. 8, timer : 0 .. 7] /\ ~NoDemo.running /\ NoDemo.i = 0
    BY DEF NoDemo
  <2>3. CASE socket = "none" /\ demo = NewDemo
    BY <2>1, <2>3
  <2>4. CASE socket = "open" /\ demo = NoDemo
    BY <2>2, <2>4
  <2> QED
    BY <2>3, <2>4 DEF StageInit
<1>4. DOMAIN beams = {} /\ DOMAIN pings = {} /\ Len(beams) = 0 /\ Len(pings) = 0
  BY <1>2
<1>5. StageTypes
  <2>1. beams \in Seq(BeamType) /\ pings \in Seq(PingType)
    BY <1>2
  <2>2. sent \in 0 .. MaxMessages
    BY <1>2, StageAssumption
  <2> QED
    BY <1>1, <1>2, <1>3, <2>1, <2>2, ScriptSteps DEF StageTypes, PulseEvery
<1>6. FlareHasBeam /\ DockFollowsWork /\ GlowAsAsked
  BY <1>1 DEF FlareHasBeam, DockFollowsWork, GlowAsAsked
<1>7. Beats /\ PingsBounded
  BY <1>4 DEF Beats, PingsBounded
<1>8. DemoWorks
  BY <1>1, <1>3 DEF DemoWorks
<1> QED
  BY <1>5, <1>6, <1>7, <1>8 DEF StageIInv

LEMMA StageGoes ==
    ASSUME StageIInv, [StageNext]_stageVars
    PROVE  StageIInv'
<1>1. CASE Message
  <2>1. "scout" \in AnAgent /\ Extra \in AnAgent
    BY DEF AnAgent, Cast
  <2>2. \/ \E m \in {"idle", "processing"} : SetMood(m)
        \/ \E a \in AnAgent : Dispatch(a) \/ AddAgent(a) \/ \E on \in BOOLEAN : SetWorking(a, on)
        \/ ChangePage \/ BackendFails \/ BackendCloses
    BY <1>1, <2>1 DEF Message
  <2> QED
    BY <2>2, MoodStage, DispatchStage, AddStage, WorkingStage, PageStage, FailsStage, ClosesStage
<1>2. CASE Tick
  BY <1>2, TickStage
<1>3. CASE UNCHANGED stageVars
  <2>1. StageTypes'
    BY <1>3 DEF StageIInv, StageTypes, BeamType, stageVars
  <2>2. FlareHasBeam' /\ DockFollowsWork' /\ GlowAsAsked'
    BY <1>3 DEF StageIInv, FlareHasBeam, DockFollowsWork, GlowAsAsked, stageVars
  <2>3. Beats' /\ PingsBounded'
    BY <1>3 DEF StageIInv, Beats, PingsBounded, stageVars
  <2>4. DemoWorks'
    BY <1>3 DEF StageIInv, DemoWorks, stageVars
  <2> QED
    BY <2>1, <2>2, <2>3, <2>4 DEF StageIInv
<1> QED
  BY <1>1, <1>2, <1>3 DEF StageNext

\* In an idle step of the demo nobody is at work for it.
LEMMA StageRests ==
    ASSUME StageIInv
    PROVE  StageInv
<1>0. StageTypes /\ DemoWorks
  BY DEF StageIInv
<1>1. StageTypeOK
  <2>1. DOMAIN nodes = 1 .. Len(nodes)
    BY <1>0, LenProperties DEF StageTypes
  <2>2. BeamType = [node : DOMAIN nodes, age : 0 .. BeamLife - 1, pinged : BOOLEAN]
    BY <2>1 DEF BeamType
  <2> QED
    BY <1>0, <2>2 DEF StageTypes, StageTypeOK, NodeType, PingType
<1>2. DemoRests
  <2> SUFFICES ASSUME demo.i # 0, mood = "idle", NEW i \in DOMAIN nodes, nodes[i].target = 1
               PROVE  nodes[i].agent \in leftover
    BY DEF DemoRests
  <2>1. PICK k \in 1 .. 8 : k = demo.i /\ Script[k].mood = "idle"
    BY <1>0, ScriptSteps DEF StageTypes, DemoWorks
  <2>2. demo.running
    BY <1>0 DEF DemoWorks, StageTypes
  <2>3. AtWork(k) = {}
    <3>1. k = ((k - 1) % 8) + 1 /\ k - 1 \in 0 .. 8
      BY <2>1
    <3> QED
      BY <2>1, <3>1, Scripted
  <2> QED
    BY <1>0, <2>1, <2>2, <2>3 DEF DemoWorks
<1> QED
  BY <1>1, <1>2 DEF StageIInv, StageInv

\* The invariant of the stage, inductive: a beam has pinged its agent once it
\* is past its peak and a ping lasts less than what spawns the next
\* (Effects.update), a message moves what it names and nothing else (setWorking,
\* dispatch, add), and whoever works while the demo runs was left working by the
\* backend or is at work in its step (DemoDriver).
THEOREM StageIInvThm == StageSpec => []StageIInv
<1>1. StageInit => StageIInv
  BY StageBegins
<1>2. StageIInv /\ [StageNext]_stageVars => StageIInv'
  BY StageGoes
<1> QED
  BY <1>1, <1>2, PTL DEF StageSpec

\* What the stage shows is what its agents were asked to do, for every number of
\* messages and every length of a dock: no flare without a beam, no dock without
\* work, no glow that was not asked for, as many pings as beams and a pulse, and
\* a demo whose idle steps rest (Effects.update, setWorking, DemoDriver.update).
THEOREM StageThm == StageSpec => []StageInv
<1>1. StageIInv => StageInv
  BY StageRests
<1> QED
  BY <1>1, StageIInvThm, PTL

-----------------------------------------------------------------------------
\* The pages together: no animation jumps after a pause (stageLoop.js), and no
\* phrase is cut off or wiped before it was typed (DonaldOrb.tsx), whatever the
\* user clicks on meanwhile and whichever timers are pending.
THEOREM NeverCutThm == Init /\ [][Next]_vars => NeverCut
<1>1. Init => LoopInit /\ OrbInit
  BY DEF Init
<1>2. [Next]_vars => [LoopNext]_loopVars /\ [OrbNext]_orbVars
  <2>1. Next => (LoopNext \/ UNCHANGED loopVars) /\ (OrbNext \/ UNCHANGED orbVars)
    BY Zenon DEF Next
  <2>2. UNCHANGED vars => UNCHANGED loopVars /\ UNCHANGED orbVars
    BY Zenon DEF vars
  <2> QED
    BY <2>1, <2>2
<1>3. LoopInit /\ [][LoopNext]_loopVars => NoJump
  BY NoJumpThm DEF LoopSpec
<1>4. OrbInit /\ [][OrbNext]_orbVars => SpeaksFromSilence /\ SpokenInFull
  BY SpeaksFromSilenceThm, SpokenInFullThm DEF OrbSpec
<1> QED
  BY <1>1, <1>2, <1>3, <1>4, PTL DEF NeverCut
=============================================================================
