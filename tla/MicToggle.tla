------------------------------ MODULE MicToggle ------------------------------
(***************************************************************************)
(* The microphone button of ui.js.  A click flips listening at once; the   *)
(* microphone itself answers later, whatever was clicked meanwhile.  The   *)
(* handles micStream, analyser, rafId and fakeDriver hold one resource     *)
(* each, the last one made.                                                *)
(*                                                                         *)
(* An attempt is a call of startMicAudio; what it acquires carries its     *)
(* number.  A stream stands for the AudioContext made for it as well.      *)
(***************************************************************************)
EXTENDS Integers, FiniteSets

CONSTANT MaxAttempts     \* bound: clicks that start listening

ASSUME MicAssumption == MaxAttempts \in Nat \ {0}

VARIABLES
    listening,      \* the flag of the button
    status,         \* body.dataset.state
    attempts,       \* calls of startMicAudio so far
    asking,         \* the attempts whose getUserMedia has not answered
    live,           \* the streams, with their contexts, that are open
    handle,         \* micStream: an attempt, 0 when null
    analyser,       \* likewise
    chains,         \* the attempts whose driveFromAnalyser has a frame requested
    rafId,          \* the chain that stored its request last, 0 when null
    drivers,        \* the intervals of the synthetic driver that run
    fakeDriver,     \* the interval on record, 0 when null
    timers,         \* processing timeouts pending, by attempt
    processingTimer,
    bright,         \* whether the last setVoiceBright was above 0
    cards,          \* batches of cards on the page
    loading,        \* the timeout of 900 ms after load is pending
    late            \* history: the answers that came after their stop

micVars == <<listening, status, attempts, asking, live, handle, analyser, chains, rafId,
             drivers, fakeDriver, timers, processingTimer, bright, cards, loading, late>>
audio   == <<live, handle, analyser, chains, rafId, drivers, fakeDriver, bright>>

Attempt == 1 .. MaxAttempts

MicInit ==
    /\ listening = FALSE /\ status = "idle"
    /\ attempts = 0 /\ asking = {}
    /\ live = {} /\ handle = 0 /\ analyser = 0
    /\ chains = {} /\ rafId = 0
    /\ drivers = {} /\ fakeDriver = 0
    /\ timers = {} /\ processingTimer = 0
    /\ bright = FALSE
    /\ cards = 0 /\ loading = TRUE
    /\ late = {}

\* Variant with a fault: a second batch is added to the first.
ShowCardsAgain == cards' = cards + 1

\* showCards: nothing if there are cards already.
ShowCards == cards' = IF cards = 0 THEN 1 ELSE cards

\* The cards that come 900 ms after load.
FirstCards ==
    /\ loading
    /\ loading' = FALSE
    /\ ShowCards
    /\ UNCHANGED <<listening, status, attempts, asking, audio, timers, processingTimer, late>>

\* Variant with a fault: the pending return to idle is not cancelled.
StartListeningUncleared ==
    /\ ~listening /\ attempts < MaxAttempts
    /\ listening' = TRUE
    /\ status' = "listening"
    /\ attempts' = attempts + 1
    /\ asking' = asking \cup {attempts'}
    /\ UNCHANGED <<audio, timers, processingTimer, cards, loading, late>>

\* toggleMic, on: by click or by space.
StartListening ==
    /\ ~listening /\ attempts < MaxAttempts
    /\ listening' = TRUE
    /\ timers' = timers \ {processingTimer}
    /\ status' = "listening"
    /\ attempts' = attempts + 1
    /\ asking' = asking \cup {attempts'}
    /\ UNCHANGED <<audio, processingTimer, cards, loading, late>>

\* startMicAudio after the await, granted: whatever the button says by now.
Granted(a) ==
    /\ a \in asking
    /\ asking' = asking \ {a}
    /\ live' = live \cup {a}
    /\ handle' = a /\ analyser' = a
    /\ chains' = chains \cup {a}
    /\ rafId' = a
    /\ bright' \in BOOLEAN
    /\ late' = IF listening /\ a = attempts THEN late ELSE late \cup {a}
    /\ UNCHANGED <<listening, status, attempts, drivers, fakeDriver, timers,
                   processingTimer, cards, loading>>

\* The catch clause: refused, or no AudioContext to be had for the stream.
Refused(a) ==
    /\ a \in asking
    /\ asking' = asking \ {a}
    /\ \/ UNCHANGED <<live, handle>>
       \/ live' = live \cup {a} /\ handle' = a
    /\ drivers' = drivers \cup {a}
    /\ fakeDriver' = a
    /\ late' = IF listening /\ a = attempts THEN late ELSE late \cup {a}
    /\ UNCHANGED <<listening, status, attempts, analyser, chains, rafId, timers,
                   processingTimer, bright, cards, loading>>

\* Variant with a fault: without an analyser the chain waits for the next one.
DriveOn(c) ==
    /\ c \in chains
    /\ rafId' = c
    /\ IF analyser = 0 THEN UNCHANGED bright ELSE bright' \in BOOLEAN
    /\ UNCHANGED <<listening, status, attempts, asking, live, handle, analyser, chains,
                   drivers, fakeDriver, timers, processingTimer, cards, loading, late>>

\* driveFromAnalyser, in a frame: with the analyser gone it throws, and asks
\* for no further frame.
Drive(c) ==
    /\ c \in chains
    /\ IF analyser = 0
         THEN chains' = chains \ {c} /\ UNCHANGED <<rafId, bright>>
         ELSE rafId' = c /\ bright' \in BOOLEAN /\ UNCHANGED chains
    /\ UNCHANGED <<listening, status, attempts, asking, live, handle, analyser, drivers,
                   fakeDriver, timers, processingTimer, cards, loading, late>>

\* The synthetic shimmer.
Shimmer(d) ==
    /\ d \in drivers
    /\ bright' = TRUE
    /\ UNCHANGED <<listening, status, attempts, asking, live, handle, analyser, chains,
                   rafId, drivers, fakeDriver, timers, processingTimer, cards, loading, late>>

\* Variants with a fault: the interval goes on; the stream stays open.
StopMicAudioShimmering ==
    /\ chains' = chains \ {rafId} /\ rafId' = 0
    /\ live' = live \ {handle} /\ handle' = 0 /\ analyser' = 0
    /\ fakeDriver' = 0
    /\ bright' = FALSE
    /\ UNCHANGED drivers
StopMicAudioOpen ==
    /\ chains' = chains \ {rafId} /\ rafId' = 0
    /\ drivers' = drivers \ {fakeDriver} /\ fakeDriver' = 0
    /\ handle' = 0 /\ analyser' = 0
    /\ bright' = FALSE
    /\ UNCHANGED live

\* stopMicAudio: lets go of what the handles hold.
StopMicAudio ==
    /\ chains' = chains \ {rafId} /\ rafId' = 0
    /\ drivers' = drivers \ {fakeDriver} /\ fakeDriver' = 0
    /\ live' = live \ {handle} /\ handle' = 0 /\ analyser' = 0
    /\ bright' = FALSE

\* toggleMic, off.
StopListening ==
    /\ listening
    /\ listening' = FALSE
    /\ StopMicAudio
    /\ status' = "processing"
    /\ timers' = timers \cup {attempts} /\ processingTimer' = attempts
    /\ UNCHANGED <<attempts, asking, cards, loading, late>>

\* Variant with a fault: the timer shows the cards and leaves the state alone.
ProcessedOnlyCards(t) ==
    /\ t \in timers
    /\ timers' = timers \ {t}
    /\ ShowCards
    /\ UNCHANGED <<listening, status, attempts, asking, audio, processingTimer, loading, late>>

\* The timeout of 1600 ms.
Processed(t) ==
    /\ t \in timers
    /\ timers' = timers \ {t}
    /\ status' = "idle"
    /\ ShowCards
    /\ UNCHANGED <<listening, attempts, asking, audio, processingTimer, loading, late>>

MicTimer  == \E t \in Attempt : Processed(t)
MicAnswer == \E a \in Attempt : Granted(a) \/ Refused(a)

MicNext ==
    \/ FirstCards \/ StartListening \/ StopListening \/ MicTimer \/ MicAnswer
    \/ \E c \in Attempt : Drive(c) \/ Shimmer(c)

MicSpec == MicInit /\ [][MicNext]_micVars

\* Timeouts fire and frames run, which matters for those that end a chain; a
\* permission prompt may stay open for ever.
MicFairStep  == MicTimer
MicFairFrame == \E c \in Attempt : analyser = 0 /\ Drive(c)

-----------------------------------------------------------------------------
MicTypeOK ==
    /\ listening \in BOOLEAN /\ status \in {"idle", "listening", "processing"}
    /\ attempts \in 0 .. MaxAttempts
    /\ asking \subseteq Attempt /\ live \subseteq Attempt /\ chains \subseteq Attempt
    /\ drivers \subseteq Attempt /\ timers \subseteq Attempt /\ late \subseteq Attempt
    /\ {handle, analyser, rafId, fakeDriver, processingTimer} \subseteq 0 .. MaxAttempts
    /\ bright \in BOOLEAN /\ cards \in {0, 1} /\ loading \in BOOLEAN

\* The label never lies about the button, however fast it is clicked: the
\* return to idle is timed and is cancelled by the next start.
LabelTrue == listening <=> status = "listening"

\* When the button is off the microphone is off, nothing drives the orb and
\* it is dark - as long as every answer came before its stop.
MicReleased ==
    ~listening /\ late = {} =>
        live = {} /\ chains = {} /\ drivers = {} /\ ~bright

\* What late answers leak: each may leave one stream or one interval that no
\* handle reaches, and they alone do.
LeakBound ==
    Cardinality((live \ {handle}) \cup (drivers \ {fakeDriver})) <= Cardinality(late)

\* Processing ends by itself or by the next start.
ThinkingEnds == status = "processing" ~> status # "processing"

\* A chain of frames that lost its handle ends once the analyser is gone for
\* good: the exception in the frame is what stops it.
ChainsEnd == <>[](analyser = 0) => []<>(chains = {})

\* Label, microphone and orb follow the button, up to answers of getUserMedia
\* that come after their stop.
MicInv ==
    /\ MicTypeOK
    /\ LabelTrue
    /\ MicReleased
    /\ LeakBound

=============================================================================
