----------------------------- MODULE OrbTimeline -----------------------------
(***************************************************************************)
(* The timers of the React orb (web/components/DonaldOrb.tsx): the boot    *)
(* bar, the nested timeouts of an interaction, the typing of the phrase    *)
(* and the animation frames of the canvas.                                 *)
(*                                                                         *)
(* Time is in halves of a second and passes only when nothing is due, so   *)
(* timers fire in the order in which they are due; those due together fire *)
(* in any order.  Phrases are told apart by nothing but being there.       *)
(***************************************************************************)
EXTENDS Integers

CONSTANT MaxTaps         \* bound: interactions begun

ASSUME OrbAssumption == MaxTaps \in Nat \ {0}

\* The delays: 2000, 1500, 3500 and 1500 ms, 500 ms after the bar is full; a
\* phrase of at most 41 characters takes 28 ms each.
Listen  == 4
Think   == 3
Speak   == 7
Linger  == 3
Curtain == 1

\* Variant with a fault: a phrase takes longer to type than to speak.
TypingSlow == 8
Typing == 3

Off == -1                \* a timer that is not set

VARIABLES
    orb,            \* stateRef.current
    phrase,         \* phraseText is not empty
    typing,         \* time until the whole phrase is displayed, Off when idle
    shown,          \* the whole phrase is displayed
    clicks,         \* the pending timeouts of interactions: [next, left]
    wipes,          \* the pending setPhraseText(""), each the time left
    bar,            \* the boot interval: "filling", "full", "off"
    curtain,        \* the timeout that sets booted
    booted,
    drawing,        \* the canvas has a frame requested
    unmounted,
    taps            \* bound

orbVars == <<orb, phrase, typing, shown, clicks, wipes, bar, curtain, booted, drawing,
             unmounted, taps>>

Timeout == [next : {"thinking", "speaking", "idle"}, left : 0 .. Speak]

OrbInit ==
    /\ orb = "idle" /\ phrase = FALSE /\ typing = Off /\ shown = FALSE
    /\ clicks = {} /\ wipes = {}
    /\ bar = "filling" /\ curtain = Off /\ booted = FALSE
    /\ drawing = FALSE /\ unmounted = FALSE
    /\ taps = 0

Due ==
    \/ \E c \in clicks : c.left = 0
    \/ 0 \in wipes \cup {curtain, typing}

\* The boot interval reaches 1: it clears itself and sets a timeout.
BarFull ==
    /\ bar = "filling" /\ ~unmounted
    /\ bar' = "full"
    /\ curtain' = Curtain
    /\ UNCHANGED <<orb, phrase, typing, shown, clicks, wipes, booted, drawing, unmounted, taps>>

\* setBooted, and the effect that starts the canvas; lost on an unmounted one.
Boot ==
    /\ curtain = 0
    /\ curtain' = Off
    /\ IF unmounted THEN UNCHANGED <<booted, drawing>> ELSE booted' = TRUE /\ drawing' = TRUE
    /\ UNCHANGED <<orb, phrase, typing, shown, clicks, wipes, bar, unmounted, taps>>

Tap == booted /\ ~unmounted /\ taps < MaxTaps /\ taps' = taps + 1

\* Variants with a fault: busy or not; again while the last phrase is spoken.
HandleInteractBusy ==
    /\ Tap
    /\ orb' = "listening"
    /\ clicks' = clicks \cup {[next |-> "thinking", left |-> Listen]}
    /\ UNCHANGED <<phrase, typing, shown, wipes, bar, curtain, booted, drawing, unmounted>>
HandleInteractQuick ==
    /\ Tap
    /\ orb = "idle"
    /\ orb' = "listening"
    /\ clicks' = clicks \cup {[next |-> "speaking", left |-> 1]}
    /\ UNCHANGED <<phrase, typing, shown, wipes, bar, curtain, booted, drawing, unmounted>>

\* handleInteract: only an idle orb takes a tap.
HandleInteract ==
    /\ Tap
    /\ orb = "idle"
    /\ orb' = "listening"
    /\ clicks' = clicks \cup {[next |-> "thinking", left |-> Listen]}
    /\ UNCHANGED <<phrase, typing, shown, wipes, bar, curtain, booted, drawing, unmounted>>

\* The typing effect runs when phraseText changes, on a mounted component.
PhraseSet ==
    IF unmounted THEN UNCHANGED <<phrase, typing, shown>>
    ELSE phrase' = TRUE /\ typing' = Typing /\ shown' = FALSE

\* Variant with a fault: the phrase is not wiped.
AdvanceKeepingPhrase(c) ==
    /\ c \in clicks /\ c.left = 0
    /\ orb' = c.next
    /\ LET others == clicks \ {c}
       IN  CASE c.next = "thinking" ->
                  /\ clicks' = others \cup {[next |-> "speaking", left |-> Think]}
                  /\ UNCHANGED <<phrase, typing, shown>>
             [] c.next = "speaking" ->
                  clicks' = others \cup {[next |-> "idle", left |-> Speak]} /\ PhraseSet
             [] c.next = "idle" -> clicks' = others /\ UNCHANGED <<phrase, typing, shown>>
    /\ UNCHANGED <<wipes, bar, curtain, booted, drawing, unmounted, taps>>

\* A timeout of an interaction fires and sets the next one.
Advance(c) ==
    /\ c \in clicks /\ c.left = 0
    /\ orb' = c.next
    /\ LET others == clicks \ {c}
       IN  CASE c.next = "thinking" ->
                  /\ clicks' = others \cup {[next |-> "speaking", left |-> Think]}
                  /\ UNCHANGED <<phrase, typing, shown, wipes>>
             [] c.next = "speaking" ->
                  /\ clicks' = others \cup {[next |-> "idle", left |-> Speak]}
                  /\ PhraseSet
                  /\ UNCHANGED wipes
             [] c.next = "idle" ->
                  /\ clicks' = others
                  /\ wipes' = wipes \cup {Linger}
                  /\ UNCHANGED <<phrase, typing, shown>>
    /\ UNCHANGED <<bar, curtain, booted, drawing, unmounted, taps>>

\* setPhraseText(""): the effect clears the typing interval.
Wipe ==
    /\ 0 \in wipes
    /\ wipes' = wipes \ {0}
    /\ IF unmounted THEN UNCHANGED <<phrase, typing, shown>>
       ELSE phrase' = FALSE /\ typing' = Off /\ shown' = FALSE
    /\ UNCHANGED <<orb, clicks, bar, curtain, booted, drawing, unmounted, taps>>

\* The last character.
Typed ==
    /\ typing = 0
    /\ typing' = Off
    /\ shown' = TRUE
    /\ UNCHANGED <<orb, phrase, clicks, wipes, bar, curtain, booted, drawing, unmounted, taps>>

Later(t) == IF t = Off THEN Off ELSE t - 1

\* Variant with a fault: time does not wait for what is due.
PassOverdue ==
    /\ clicks # {} \/ wipes # {} \/ curtain # Off \/ typing # Off
    /\ clicks' = {[c EXCEPT !.left = @ - 1] : c \in clicks}
    /\ wipes' = {w - 1 : w \in wipes}
    /\ curtain' = Later(curtain) /\ typing' = Later(typing)
    /\ UNCHANGED <<orb, phrase, shown, bar, booted, drawing, unmounted, taps>>

\* Half a second passes.
Pass ==
    /\ ~Due
    /\ clicks # {} \/ wipes # {} \/ curtain # Off \/ typing # Off
    /\ clicks' = {[c EXCEPT !.left = @ - 1] : c \in clicks}
    /\ wipes' = {w - 1 : w \in wipes}
    /\ curtain' = Later(curtain) /\ typing' = Later(typing)
    /\ UNCHANGED <<orb, phrase, shown, bar, booted, drawing, unmounted, taps>>

\* Variant with a fault: the cleanup of the typing effect is missing.
UnmountTyping ==
    /\ ~unmounted
    /\ unmounted' = TRUE
    /\ bar' = "off" /\ drawing' = FALSE
    /\ UNCHANGED <<orb, phrase, typing, shown, clicks, wipes, curtain, booted, taps>>

\* The cleanups of the three effects: intervals and frames go, timeouts stay.
Unmount ==
    /\ ~unmounted
    /\ unmounted' = TRUE
    /\ bar' = "off" /\ typing' = Off /\ drawing' = FALSE
    /\ UNCHANGED <<orb, phrase, shown, clicks, wipes, curtain, booted, taps>>

Fire == Boot \/ Wipe \/ Typed \/ \E c \in clicks : Advance(c)

OrbNext == BarFull \/ HandleInteract \/ Fire \/ Pass \/ Unmount

OrbSpec == OrbInit /\ [][OrbNext]_orbVars

\* Time passes, due timers fire and the boot bar fills.
OrbFairStep == BarFull \/ Fire \/ Pass

-----------------------------------------------------------------------------
OrbTypeOK ==
    /\ orb \in {"idle", "listening", "thinking", "speaking"}
    /\ phrase \in BOOLEAN /\ shown \in BOOLEAN /\ typing \in Off .. Typing
    /\ clicks \subseteq Timeout /\ wipes \subseteq 0 .. Linger
    /\ bar \in {"filling", "full", "off"} /\ curtain \in Off .. Curtain
    /\ booted \in BOOLEAN /\ drawing \in BOOLEAN /\ unmounted \in BOOLEAN
    /\ taps \in 0 .. MaxTaps

\* A busy orb has exactly one timeout that leads it on, an idle one none: the
\* chain of nested timeouts neither breaks nor doubles.
OneThread ==
    /\ orb = "idle" <=> clicks = {}
    /\ \A c, d \in clicks : c = d

\* The phrase of one interaction is gone before the next is spoken, although
\* its wipe is still pending when the next tap is taken: 1500 < 2000 + 1500.
\* (Otherwise the wipe would cut the new phrase, and the same phrase drawn
\* twice would not be typed again.)
SpeaksFromSilence == 
    [][orb # "speaking" /\ orb' = "speaking" /\ ~unmounted => ~phrase /\ wipes = {}]_orbVars

\* A phrase has been typed to its end when the orb falls silent.
SpokenInFull ==
    [][orb = "speaking" /\ orb' = "idle" /\ ~unmounted => shown]_orbVars

\* Whatever was begun before unmounting, no interval and no frame outlives it.
UnmountStops == unmounted => ~drawing /\ bar # "filling" /\ (typing = Off)

\* When the taps stop (they are bounded), the orb ends idle and without a phrase.
ComesToRest == orb = "listening" ~> orb = "idle" /\ (~phrase \/ unmounted)

\* The timers of the orb: one chain of timeouts while it is busy, and no
\* interval or frame after it is unmounted.
OrbInv ==
    /\ OrbTypeOK
    /\ OneThread
    /\ UnmountStops

=============================================================================
