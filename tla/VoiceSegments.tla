---------------------------- MODULE VoiceSegments ----------------------------
(***************************************************************************)
(* One voice connection: the server that turns a streamed reply into       *)
(* speak_segment events (server/segment_stream.py, server/app.py), the     *)
(* websocket, the store the audio is fetched from, and the client that     *)
(* queues and plays the segments (client/audio-queue.js).                  *)
(*                                                                         *)
(* Abstractions: the n-th message the user sends is turn n, which is also  *)
(* its base_turn_id; a sentence is its seq in the turn; transcript_delta   *)
(* events, which only write the log, are left out; the text mode, which    *)
(* this client never asks for, too.  A segment that expires is one whose   *)
(* SEGMENT_TTL_S has passed.                                               *)
(***************************************************************************)
EXTENDS Integers, Sequences

CONSTANTS
    MaxTurns,        \* bound: the messages the user sends
    MaxSentences,    \* bound: the sentences of a reply
    StreamMayFail,   \* whether the model's stream may raise in a turn
    MayExpire        \* whether a segment may outlive SEGMENT_TTL_S

ASSUME VoiceAssumption ==
    /\ MaxTurns \in Nat /\ MaxSentences \in Nat
    /\ StreamMayFail \in BOOLEAN /\ MayExpire \in BOOLEAN

Turn    == 1 .. MaxTurns
Seq0    == 0 .. MaxSentences - 1
Segment == [turn : Turn, seq : Seq0, final : BOOLEAN]
None    == [turn |-> 0, seq |-> 0, final |-> FALSE]     \* no segment

VARIABLES
    \* the user and the websocket
    asked,       \* how many messages the user has sent
    open,        \* the websocket is open
    inbox,       \* turns sent by the client, not yet received by the server
    wire,        \* segments sent by the server, not yet received by the client
    \* the server
    turn,        \* the turn being streamed, 0 while waiting for a message
    seen,        \* sentences of it seen so far; the last one is held
    store,       \* <<turn, seq>> of the texts that can be fetched
    \* the client
    active,      \* activeBaseTurnId, 0 for null
    queue,       \* audioQueue
    current,     \* the segment being fetched or played, None if not currentlyPlaying
    sounding,    \* its audio has begun
    lastFinal,   \* lastSegmentWasFinal
    \* history
    received,    \* the last segment the client received
    heard,       \* the last segment the client began to fetch
    barged,      \* an interrupt came before the server's reply was all received
    dropped      \* the client has dropped a segment

server  == <<turn, seen, store>>
client  == <<active, queue, current, sounding, lastFinal, heard>>
history == <<received, barged, dropped>>
vars    == <<asked, open, inbox, wire, server, client, history>>

Init ==
    /\ asked = 0 /\ open = TRUE /\ inbox = <<>> /\ wire = <<>>
    /\ turn = 0 /\ seen = 0 /\ store = {}
    /\ active = 0 /\ queue = <<>> /\ current = None /\ sounding = FALSE /\ lastFinal = FALSE
    /\ received = None /\ heard = None /\ barged = FALSE /\ dropped = FALSE

-----------------------------------------------------------------------------
(* The server. *)

\* ws.receive_json returns the next message; stream_with_segments starts.
ReceiveMessage ==
    /\ open /\ turn = 0 /\ inbox # <<>>
    /\ turn' = Head(inbox)
    /\ inbox' = Tail(inbox)
    /\ seen' = 0
    /\ UNCHANGED <<asked, open, wire, store, client, history>>

\* emit_segment: the text is recorded, then the event is sent.
Emit(seq, final) ==
    /\ wire' = Append(wire, [turn |-> turn, seq |-> seq, final |-> final])
    /\ store' = store \cup {<<turn, seq>>}

\* A faulty Sentence that does not ask whether a sentence is held.
SentenceNotHeld ==
    /\ open /\ turn # 0 /\ seen < MaxSentences
    /\ Emit(seen - 1, FALSE)
    /\ seen' = seen + 1
    /\ UNCHANGED <<asked, open, inbox, turn, client, history>>

\* The next sentence of the reply: it is held, and proves that the sentence
\* held before it was not the last.
Sentence ==
    /\ open /\ turn # 0 /\ seen < MaxSentences
    /\ IF seen = 0 THEN UNCHANGED <<wire, store>> ELSE Emit(seen - 1, FALSE)
    /\ seen' = seen + 1
    /\ UNCHANGED <<asked, open, inbox, turn, client, history>>

\* A faulty EndOfReply that leaves the last segment unmarked.
EndOfReplyUnmarked ==
    /\ open /\ turn # 0
    /\ IF seen = 0 THEN UNCHANGED <<wire, store>> ELSE Emit(seen - 1, FALSE)
    /\ turn' = 0 /\ seen' = 0
    /\ UNCHANGED <<asked, open, inbox, client, history>>

\* The reply ends: the held sentence is the final one.
EndOfReply ==
    /\ open /\ turn # 0
    /\ IF seen = 0 THEN UNCHANGED <<wire, store>> ELSE Emit(seen - 1, TRUE)
    /\ turn' = 0 /\ seen' = 0
    /\ UNCHANGED <<asked, open, inbox, client, history>>

\* The stream raises: the endpoint only catches a disconnect, so the
\* connection ends with it.
StreamFails ==
    /\ StreamMayFail
    /\ open /\ turn # 0
    /\ open' = FALSE
    /\ turn' = 0 /\ seen' = 0
    /\ UNCHANGED <<asked, inbox, wire, store, client, history>>

\* A recorded text passes its time to live.
Expire(id) ==
    /\ MayExpire
    /\ store' = store \ {id}
    /\ UNCHANGED <<asked, open, inbox, wire, turn, seen, client, history>>

-----------------------------------------------------------------------------
(* The client.  Its functions run to completion: each is one step. *)

\* pumpQueue, given the queue: the head starts playing if nothing is.
Pump(q) ==
    IF current = None
      THEN /\ current' = Head(q)
           /\ heard' = Head(q)
           /\ queue' = Tail(q)
           /\ lastFinal' = Head(q).final
      ELSE /\ queue' = q
           /\ UNCHANGED <<current, heard, lastFinal>>

\* A faulty ReceiveSegment that takes the segments of every turn.
ReceiveEveryTurn ==
    /\ wire # <<>>
    /\ wire' = Tail(wire)
    /\ received' = Head(wire)
    /\ active' = IF active = 0 THEN Head(wire).turn ELSE active
    /\ Pump(Append(queue, Head(wire)))
    /\ UNCHANGED <<asked, open, inbox, server, sounding, barged, dropped>>

\* onSpeakSegment
ReceiveSegment ==
    /\ wire # <<>>
    /\ wire' = Tail(wire)
    /\ received' = Head(wire)
    /\ LET seg   == Head(wire)
           fresh == active = 0 /\ queue = <<>> /\ current = None
       IN  IF fresh \/ seg.turn = active
             THEN /\ active' = seg.turn
                  /\ Pump(Append(queue, seg))
                  /\ UNCHANGED dropped
             ELSE /\ dropped' = TRUE
                  /\ UNCHANGED <<active, queue, current, lastFinal, heard>>
    /\ UNCHANGED <<asked, open, inbox, server, sounding, barged>>

\* get_segment_text: the text is in the store, and not expired.
Fetchable(seg) == <<seg.turn, seg.seq>> \in store

\* playSegmentAudio: the text is found and the audio begins.
StartSound ==
    /\ current # None /\ ~sounding /\ Fetchable(current)
    /\ sounding' = TRUE
    /\ UNCHANGED <<asked, open, inbox, wire, server, active, queue, current, lastFinal,
                   heard, history>>

\* A faulty SegmentEnded that leaves the turn active after its final segment.
SegmentEndedKeepingTurn ==
    /\ sounding' = FALSE
    /\ current' = IF queue # <<>> THEN Head(queue) ELSE None
    /\ heard' = IF queue # <<>> THEN Head(queue) ELSE heard
    /\ queue' = IF queue # <<>> THEN Tail(queue) ELSE queue
    /\ lastFinal' = (queue # <<>> /\ Head(queue).final)
    /\ UNCHANGED <<active, asked, open, inbox, wire, server, history>>

\* A faulty SegmentEnded that plays the newest segment first.
SegmentEndedNewestFirst ==
    /\ sounding' = FALSE
    /\ IF queue # <<>>
         THEN /\ current' = queue[Len(queue)]
              /\ heard' = queue[Len(queue)]
              /\ queue' = SubSeq(queue, 1, Len(queue) - 1)
              /\ lastFinal' = queue[Len(queue)].final
              /\ UNCHANGED active
         ELSE /\ current' = None
              /\ active' = IF lastFinal THEN 0 ELSE active
              /\ lastFinal' = FALSE
              /\ UNCHANGED <<queue, heard>>
    /\ UNCHANGED <<asked, open, inbox, wire, server, history>>

\* onSegmentEnded
SegmentEnded ==
    /\ sounding' = FALSE
    /\ IF queue # <<>>
         THEN /\ current' = Head(queue)
              /\ heard' = Head(queue)
              /\ queue' = Tail(queue)
              /\ lastFinal' = Head(queue).final
              /\ UNCHANGED active
         ELSE /\ current' = None
              /\ active' = IF lastFinal THEN 0 ELSE active
              /\ lastFinal' = FALSE
              /\ UNCHANGED <<queue, heard>>
    /\ UNCHANGED <<asked, open, inbox, wire, server, history>>

\* The audio element's ended event.
EndSound == current # None /\ sounding /\ SegmentEnded

\* A faulty FailSound whose error is only logged.
FailSoundLogged == current # None /\ ~sounding /\ UNCHANGED vars

\* The fetch or the playback fails (an expired text is a 404): the catch
\* clause of pumpQueue moves on.
FailSound == current # None /\ ~sounding /\ SegmentEnded

\* A faulty Interrupt that forgets to forget the turn.
InterruptKeepingTurn ==
    /\ queue' = <<>>
    /\ current' = None /\ sounding' = FALSE
    /\ lastFinal' = FALSE
    /\ barged' = (barged \/ turn # 0 \/ inbox # <<>> \/ wire # <<>>)
    /\ UNCHANGED <<active, heard, received, dropped>>

\* onUserInterrupt
Interrupt ==
    /\ queue' = <<>>
    /\ current' = None /\ sounding' = FALSE
    /\ active' = 0 /\ lastFinal' = FALSE
    /\ barged' = (barged \/ turn # 0 \/ inbox # <<>> \/ wire # <<>>)
    /\ UNCHANGED <<heard, received, dropped>>

\* The stop button.
Stop ==
    /\ Interrupt
    /\ UNCHANGED <<asked, open, inbox, wire, server>>

\* sendMessage: it interrupts the turn under way, then sends.
Send ==
    /\ open /\ asked < MaxTurns
    /\ Interrupt
    /\ asked' = asked + 1
    /\ inbox' = Append(inbox, asked + 1)
    /\ UNCHANGED <<open, wire, server>>

-----------------------------------------------------------------------------
Serve  == ReceiveMessage \/ Sentence \/ EndOfReply \/ StreamFails
Play   == ReceiveSegment \/ StartSound \/ EndSound \/ FailSound

Next == Serve \/ Play \/ Stop \/ Send \/ \E id \in store : Expire(id)

Spec == Init /\ [][Next]_vars

\* The model's stream ends, the socket delivers, the audio ends or fails.
FairSpec == Spec /\ WF_vars(Serve) /\ WF_vars(ReceiveSegment)
                 /\ WF_vars(StartSound \/ EndSound \/ FailSound)

-----------------------------------------------------------------------------
(* Safety. *)

TypeOK ==
    /\ asked \in 0 .. MaxTurns
    /\ open \in BOOLEAN
    /\ inbox \in Seq(Turn)
    /\ wire \in Seq(Segment)
    /\ turn \in 0 .. MaxTurns
    /\ seen \in 0 .. MaxSentences
    /\ store \subseteq Turn \X Seq0
    /\ active \in 0 .. MaxTurns
    /\ queue \in Seq(Segment)
    /\ current \in Segment \cup {None}
    /\ sounding \in BOOLEAN
    /\ lastFinal \in BOOLEAN
    /\ received \in Segment \cup {None}
    /\ heard \in Segment \cup {None}
    /\ barged \in BOOLEAN
    /\ dropped \in BOOLEAN

\* b may come right after a on the wire.
Follows(a, b) ==
    IF a.final \/ a = None
      THEN b.turn > a.turn /\ b.seq = 0
      ELSE b.turn = a.turn /\ b.seq = a.seq + 1

\* The segments in a are numbered from where before left off, turn after
\* turn, and each turn that is over ends in its final segment.
InSequence(before, a) ==
    \A i \in 1 .. Len(a) : Follows(IF i = 1 THEN before ELSE a[i - 1], a[i])

\* The last segment the server has sent.
Sent == IF wire = <<>> THEN received ELSE wire[Len(wire)]

\* Hold-one-ahead: what is on the wire continues what the client received, no
\* segment missing or repeated, and final is set on the last of each turn and
\* on no other, though the server never knows whether a sentence is the last.
HeldOneAhead ==
    /\ InSequence(received, wire)
    /\ open /\ turn # 0 /\ seen > 1 => Sent = [turn |-> turn, seq |-> seen - 2, final |-> FALSE]
    /\ open /\ (turn = 0 \/ seen <= 1) => Sent = None \/ Sent.final

\* What plays and what is queued is an unbroken run of the active turn, and
\* lastSegmentWasFinal speaks of the segment that plays.
OneTurnInOrder ==
    /\ queue # <<>> => current # None
    /\ current # None => current.turn = active /\ lastFinal = current.final
    /\ current = None => ~lastFinal
    /\ \A i \in 1 .. Len(queue) :
           /\ queue[i].turn = active
           /\ Follows(IF i = 1 THEN current ELSE queue[i - 1], queue[i])

\* A segment is only ever dropped after a barge-in: who lets every turn end
\* hears every segment of every reply (or its failed fetch).
DropsNeedBargeIn == dropped => barged

\* The client idles as long as the server streams nothing and has nothing to
\* deliver: a reply that is over leaves no turn active.
IdleWhenDone ==
    open /\ turn = 0 /\ wire = <<>> /\ current = None => active = 0

\* Segments are heard in the order of turns and sentences, none twice,
\* whatever is interrupted, dropped or adopted in between.
HeardInOrder ==
    [][heard' # heard =>
        \/ heard'.turn > heard.turn
        \/ heard'.turn = heard.turn /\ heard'.seq > heard.seq]_vars

-----------------------------------------------------------------------------
(* Liveness. *)

\* A client that has begun to speak falls silent again, whatever expires, fails
\* to play or is interrupted, unless the stream raised and took the connection
\* with it.
ReturnsToIdle == active # 0 ~> active = 0 \/ ~open

\* Segments from the emitter to the loudspeaker: each is flagged rightly, queued
\* in the order of one turn, and dropped only after a barge-in.
SegmentsInv ==
    /\ TypeOK
    /\ HeldOneAhead
    /\ OneTurnInOrder
    /\ DropsNeedBargeIn
    /\ IdleWhenDone

=============================================================================
